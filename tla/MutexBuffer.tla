---------------------------- MODULE MutexBuffer ----------------------------
(***************************************************************************)
(* lab8_mtx/main.c: one writer fills shared_data, readers keep printing    *)
(* what is there, all under buffer_lock; main creates the threads, and     *)
(* joins them or, when a reader cannot be created, asks for the others to  *)
(* be cancelled, destroys the mutex and returns.                           *)
(*                                                                         *)
(* pthread_cancel is a request: a thread dies at its next usleep or printf *)
(* and keeps whatever lock it holds.  Using a destroyed mutex is undefined;*)
(* here, as with the GNU library, destroying a held mutex fails and taking *)
(* a destroyed one fails, and the program looks at neither result.         *)
(***************************************************************************)
EXTENDS Integers, Sequences

CONSTANTS
  READER_THREADS,
  BUFFER_SIZE

ASSUME MutexAssumption ==
  READER_THREADS \in Nat \ {0} /\ BUFFER_SIZE \in Nat \ {0}

Readers   == 1..READER_THREADS
Writer    == 0
Threads   == Readers \cup {Writer}
NoThread  == -1
Destroyed == -2

VARIABLES
  shared_data,
  write_position,
  buffer_lock,     (* the thread that holds it, NoThread or Destroyed        *)
  pc,
  line,            (* what each reader has printed of its current line       *)
  view,            (* the elements on the last line each reader completed    *)
  cancelled,       (* the threads main has called pthread_cancel for         *)
  main,
  i                (* main's loop variable                                   *)

data == <<shared_data, write_position>>
boss == <<cancelled, main, i>>
vars == <<data, buffer_lock, pc, line, view, boss>>

WriterPCs == {"unborn", "while", "lock", "check", "write", "count", "unlock",
              "sleep", "done", "cancelled"}
ReaderPCs == {"unborn", "lock", "scan", "check", "sleep", "done", "cancelled"}
MainPCs   == {"init", "create_writer", "create_readers", "cancel_writer",
              "cancel_readers", "failing", "failed", "join_readers",
              "join_writer", "display", "returned"}

Init ==
  /\ shared_data = [k \in 0..BUFFER_SIZE - 1 |-> 0]
  /\ write_position = 0
  /\ buffer_lock = NoThread
  /\ pc = [t \in Threads |-> "unborn"]
  /\ line = [r \in Readers |-> <<>>]
  /\ view = [r \in Readers |-> <<>>]
  /\ cancelled = {}
  /\ main = "init"
  /\ i = 1

ProcessAlive == main \notin {"returned", "failed"}
At(t, label) == ProcessAlive /\ pc[t] = label
Goto(t, label) == pc' = [pc EXCEPT ![t] = label]

-----------------------------------------------------------------------------
(* The mutex.  A definition whose name ends in _Bug is a wrong version of  *)
(* the one that follows it, there to be swapped in; nothing uses it.       *)

pthread_mutex_lock_Bug(t) == UNCHANGED buffer_lock
pthread_mutex_lock(t) ==
  \/ buffer_lock = NoThread /\ buffer_lock' = t
  \/ buffer_lock = Destroyed /\ UNCHANGED buffer_lock

pthread_mutex_unlock(t) ==
  buffer_lock' = IF buffer_lock = t THEN NoThread ELSE buffer_lock

cleanup_sync_resources ==
  buffer_lock' = IF buffer_lock = NoThread THEN Destroyed ELSE buffer_lock

(* The request is honoured in a usleep or a printf, lock held or not.      *)
CancellationPoints(t) ==
  IF t = Writer THEN {"check", "count", "sleep"} ELSE {"scan", "sleep"}

Cancelled(t) ==
  /\ ProcessAlive
  /\ t \in cancelled
  /\ pc[t] \in CancellationPoints(t)
  /\ Goto(t, "cancelled")
  /\ UNCHANGED <<data, buffer_lock, line, view, boss>>

-----------------------------------------------------------------------------
(* writer_routine                                                          *)

MoreToWrite_Bug == write_position <= BUFFER_SIZE
MoreToWrite == write_position < BUFFER_SIZE

WriterWhile ==
  /\ At(Writer, "while")
  /\ Goto(Writer, IF MoreToWrite THEN "lock" ELSE "done")
  /\ UNCHANGED <<data, buffer_lock, line, view, boss>>

WriterLock ==
  /\ At(Writer, "lock")
  /\ pthread_mutex_lock(Writer)
  /\ Goto(Writer, "check")
  /\ UNCHANGED <<data, line, view, boss>>

WriterCheck ==
  /\ At(Writer, "check")
  /\ Goto(Writer, IF MoreToWrite THEN "write" ELSE "unlock")
  /\ UNCHANGED <<data, buffer_lock, line, view, boss>>

WriteValue ==
  /\ At(Writer, "write")
  /\ shared_data' = [shared_data EXCEPT ![write_position] = write_position + 1]
  /\ Goto(Writer, "count")
  /\ UNCHANGED <<write_position, buffer_lock, line, view, boss>>

AdvancePosition ==
  /\ At(Writer, "count")
  /\ write_position' = write_position + 1
  /\ Goto(Writer, "unlock")
  /\ UNCHANGED <<shared_data, buffer_lock, line, view, boss>>

AfterWrite_Bug == "done"
AfterWrite == "sleep"

WriterUnlock ==
  /\ At(Writer, "unlock")
  /\ pthread_mutex_unlock(Writer)
  /\ Goto(Writer, AfterWrite)
  /\ UNCHANGED <<data, line, view, boss>>

WriterWake ==
  /\ At(Writer, "sleep")
  /\ Goto(Writer, "while")
  /\ UNCHANGED <<data, buffer_lock, line, view, boss>>

WriterStep ==
  \/ WriterWhile \/ WriterLock \/ WriterCheck \/ WriteValue
  \/ AdvancePosition \/ WriterUnlock \/ WriterWake

-----------------------------------------------------------------------------
(* reader_routine                                                          *)

ReaderLock(r) ==
  /\ At(r, "lock")
  /\ pthread_mutex_lock(r)
  /\ line' = [line EXCEPT ![r] = <<>>]
  /\ Goto(r, "scan")
  /\ UNCHANGED <<data, view, boss>>

(* The loop variable of the printing loop is the number of cells printed.  *)
PrintCell(r) ==
  /\ At(r, "scan")
  /\ Len(line[r]) < write_position
  /\ line' = [line EXCEPT ![r] = Append(@, shared_data[Len(@)])]
  /\ UNCHANGED <<data, buffer_lock, pc, view, boss>>

EndLine(r) ==
  /\ At(r, "scan")
  /\ Len(line[r]) >= write_position
  /\ view' = [view EXCEPT ![r] = line[r]]
  /\ Goto(r, "check")
  /\ UNCHANGED <<data, buffer_lock, line, boss>>

WritingIsComplete_Bug == write_position >= BUFFER_SIZE - 1
WritingIsComplete == write_position >= BUFFER_SIZE

ReaderLeaves(r) ==
  /\ At(r, "check")
  /\ WritingIsComplete
  /\ pthread_mutex_unlock(r)
  /\ Goto(r, "done")
  /\ UNCHANGED <<data, line, view, boss>>

ReaderUnlock(r) ==
  /\ At(r, "check")
  /\ ~WritingIsComplete
  /\ pthread_mutex_unlock(r)
  /\ Goto(r, "sleep")
  /\ UNCHANGED <<data, line, view, boss>>

ReaderWake(r) ==
  /\ At(r, "sleep")
  /\ Goto(r, "lock")
  /\ UNCHANGED <<data, buffer_lock, line, view, boss>>

ReaderStep(r) ==
  \/ ReaderLock(r) \/ PrintCell(r) \/ EndLine(r) \/ ReaderLeaves(r)
  \/ ReaderUnlock(r) \/ ReaderWake(r)

-----------------------------------------------------------------------------
(* main                                                                    *)

init_sync_resources ==
  /\ main = "init"
  /\ main' \in {"create_writer", "failed"}
  /\ UNCHANGED <<data, buffer_lock, pc, line, view, cancelled, i>>

CreateWriter ==
  /\ main = "create_writer"
  /\ main' = "create_readers"
  /\ Goto(Writer, "while")
  /\ UNCHANGED <<data, buffer_lock, line, view, cancelled, i>>

CreateWriterFails ==
  /\ main = "create_writer"
  /\ cleanup_sync_resources
  /\ main' = "failed"
  /\ UNCHANGED <<data, pc, line, view, cancelled, i>>

CreateReader ==
  /\ main = "create_readers"
  /\ Goto(i, "lock")
  /\ IF i < READER_THREADS
     THEN i' = i + 1 /\ UNCHANGED main
     ELSE i' = 1 /\ main' = "join_readers"
  /\ UNCHANGED <<data, buffer_lock, line, view, cancelled>>

CreateReaderFails ==
  /\ main = "create_readers"
  /\ main' = "cancel_writer"
  /\ UNCHANGED <<data, buffer_lock, pc, line, view, cancelled, i>>

CancelWriter ==
  /\ main = "cancel_writer"
  /\ cancelled' = cancelled \cup {Writer}
  /\ main' = "cancel_readers"
  /\ UNCHANGED <<data, buffer_lock, pc, line, view, i>>

(* for (j = 0; j < i; j++) pthread_cancel(readers[j])                      *)
CancelReader ==
  /\ main = "cancel_readers"
  /\ \E j \in 1..i - 1 :
       /\ j \notin cancelled
       /\ 1..j - 1 \subseteq cancelled
       /\ cancelled' = cancelled \cup {j}
  /\ UNCHANGED <<data, buffer_lock, pc, line, view, main, i>>

CleanupAfterCancel ==
  /\ main = "cancel_readers"
  /\ 1..i - 1 \subseteq cancelled
  /\ cleanup_sync_resources
  /\ main' = "failing"
  /\ UNCHANGED <<data, pc, line, view, cancelled, i>>

ReturnFailure ==
  /\ main = "failing"
  /\ main' = "failed"
  /\ UNCHANGED <<data, buffer_lock, pc, line, view, cancelled, i>>

JoinReader ==
  /\ main = "join_readers"
  /\ pc[i] = "done"
  /\ IF i < READER_THREADS
     THEN i' = i + 1 /\ UNCHANGED main
     ELSE main' = "join_writer" /\ UNCHANGED i
  /\ UNCHANGED <<data, buffer_lock, pc, line, view, cancelled>>

JoinWriter ==
  /\ main = "join_writer"
  /\ pc[Writer] = "done"
  /\ main' = "display"
  /\ UNCHANGED <<data, buffer_lock, pc, line, view, cancelled, i>>

DisplayFinal ==
  /\ main = "display"
  /\ cleanup_sync_resources
  /\ main' = "returned"
  /\ UNCHANGED <<data, pc, line, view, cancelled, i>>

MainStep ==
  \/ init_sync_resources \/ CreateWriter \/ CreateWriterFails \/ CreateReader
  \/ CreateReaderFails \/ CancelWriter \/ CancelReader \/ CleanupAfterCancel
  \/ ReturnFailure \/ JoinReader \/ JoinWriter \/ DisplayFinal

Exited == ~ProcessAlive /\ UNCHANGED vars

Next ==
  \/ WriterStep
  \/ \E r \in Readers : ReaderStep(r)
  \/ \E t \in Threads : Cancelled(t)
  \/ MainStep
  \/ Exited

Spec == Init /\ [][Next]_vars

(***************************************************************************)
(* Weak fairness is not enough here: readers come back until the buffer is *)
(* full, and could keep the writer from the mutex for ever.  What rules it *)
(* out is time: a reader sleeps 100 ms and more between two holds of 5 ms, *)
(* so ten of them leave the mutex free half of the time.  Strong fairness  *)
(* of WriterLock says that and no more.                                    *)
(***************************************************************************)
FairSpec ==
  /\ Spec
  /\ WF_vars(WriterStep) /\ SF_vars(WriterLock)
  /\ \A r \in Readers : WF_vars(ReaderStep(r))
  /\ WF_vars(MainStep)

-----------------------------------------------------------------------------
TypeOK ==
  /\ shared_data \in [0..BUFFER_SIZE - 1 -> 0..BUFFER_SIZE]
  /\ write_position \in 0..BUFFER_SIZE
  /\ buffer_lock \in Threads \cup {NoThread, Destroyed}
  /\ pc \in [Threads -> WriterPCs \cup ReaderPCs]
  /\ line \in [Readers -> Seq(0..BUFFER_SIZE)]
  /\ view \in [Readers -> Seq(0..BUFFER_SIZE)]
  /\ cancelled \in SUBSET Threads
  /\ main \in MainPCs
  /\ i \in Readers

(* A reader that ran to its end has itself printed the full buffer: the    *)
(* printing and the test for completion are one critical section, so the   *)
(* writer cannot finish between the two (main.c:72-92).                    *)
LeaversSawAll ==
  \A r \in Readers :
    pc[r] = "done" /\ main \notin {"failing", "failed"}
      => Len(view[r]) = BUFFER_SIZE

(* Every completed line is a snapshot of the buffer and nobody leaves      *)
(* early, also while main cancels threads and destroys the mutex under     *)
(* them: the buffer only grows, an element is stored before it is counted, *)
(* and the printing loop tests the position again for every cell           *)
(* (main.c:48-53, 79-89, 134-141).                                         *)
Log == [k \in 1..write_position |-> shared_data[k - 1]]
Snapshot == INSTANCE PrefixBuffer
              WITH Size <- BUFFER_SIZE, log <- Log, view <- view,
                   stopped <- {r \in Readers : pc[r] = "done"}
SnapshotSpec == Snapshot!Spec

(* When all readers were created, main joins them all and returns          *)
(* (main.c:146-163).                                                       *)
AllJoined == main = "join_readers" ~> main = "returned"

(* "Cancel writer and already created readers" (main.c:134): once main     *)
(* cleans up after a failed pthread_create, the threads it created are     *)
(* gone.                                                                   *)
CancelledBeforeCleanup ==
  main = "failing" => \A t \in Threads : pc[t] \in {"unborn", "cancelled", "done"}
=============================================================================
