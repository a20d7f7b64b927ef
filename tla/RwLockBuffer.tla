---------------------------- MODULE RwLockBuffer ----------------------------
(***************************************************************************)
(* lab10_rwlock/rwlock.c: one writer fills shared_array under a write lock *)
(* and finally sets read_finished; readers print the array under a read    *)
(* lock, many at a time, until they see the flag; main creates the         *)
(* threads and joins them.                                                 *)
(*                                                                         *)
(* The rwlock has default attributes, with which the GNU library prefers   *)
(* readers: a read lock is refused only while the writer holds the lock.   *)
(* pthread_rwlock_destroy does nothing there, even with the lock in use.   *)
(***************************************************************************)
EXTENDS Integers, Sequences

CONSTANTS
  NUM_READERS,
  ARRAY_SIZE

ASSUME RwLockAssumption ==
  NUM_READERS \in Nat \ {0} /\ ARRAY_SIZE \in Nat \ {0}

Readers == 1..NUM_READERS
Writer  == 0
Threads == Readers \cup {Writer}

VARIABLES
  shared_array,    (* cell i holds 0 for '_' and i + 1 for 'A' + i           *)
  write_counter,
  read_finished,
  rwlock,          (* the threads that hold it: readers, or the writer       *)
  pc,
  index,           (* the loop variable of each reader                       *)
  line,            (* the elements each reader has put into its buffer       *)
  view,            (* the elements on the last line each reader printed      *)
  main,
  next             (* main's loop variable: the reader to create or to join  *)

data == <<shared_array, write_counter, read_finished>>
scan == <<index, line, view>>
vars == <<data, rwlock, pc, scan, main, next>>

WriterPCs == {"unborn", "while", "wrlock", "store", "count", "unlock",
              "finish_wrlock", "finish", "finish_unlock", "done"}
ReaderPCs == {"unborn", "rdlock", "test", "scan", "unlock", "done"}
MainPCs   == {"init", "create_writer", "create_readers", "join_readers",
              "join_writer", "display", "failing", "returned", "failed"}

Init ==
  /\ shared_array = [i \in 0..ARRAY_SIZE - 1 |-> 0]
  /\ write_counter = 0
  /\ read_finished = FALSE
  /\ rwlock = {}
  /\ pc = [t \in Threads |-> "unborn"]
  /\ index = [r \in Readers |-> 0]
  /\ line = [r \in Readers |-> <<>>]
  /\ view = [r \in Readers |-> <<>>]
  /\ main = "init"
  /\ next = 1

ProcessAlive == main \notin {"returned", "failed"}
At(t, label) == ProcessAlive /\ pc[t] = label
Goto(t, label) == pc' = [pc EXCEPT ![t] = label]

-----------------------------------------------------------------------------
(* The lock.  A definition whose name ends in _Bug is a wrong version of   *)
(* the one that follows it, there to be swapped in; nothing uses it.       *)

pthread_rwlock_rdlock_Bug(t) == rwlock' = rwlock \cup {t}
pthread_rwlock_rdlock(t) == Writer \notin rwlock /\ rwlock' = rwlock \cup {t}

pthread_rwlock_wrlock(t) == rwlock = {} /\ rwlock' = {t}

pthread_rwlock_unlock(t) == rwlock' = rwlock \ {t}

-----------------------------------------------------------------------------
(* writer_thread                                                           *)

MoreToWrite_Bug == write_counter <= ARRAY_SIZE
MoreToWrite == write_counter < ARRAY_SIZE

WriterWhile ==
  /\ At(Writer, "while")
  /\ Goto(Writer, IF MoreToWrite THEN "wrlock" ELSE "finish_wrlock")
  /\ UNCHANGED <<data, rwlock, scan, main, next>>

WriterLock ==
  /\ At(Writer, "wrlock")
  /\ pthread_rwlock_wrlock(Writer)
  /\ Goto(Writer, IF MoreToWrite THEN "store" ELSE "unlock")
  /\ UNCHANGED <<data, scan, main, next>>

StoreElement ==
  /\ At(Writer, "store")
  /\ shared_array' = [shared_array EXCEPT ![write_counter] = write_counter + 1]
  /\ Goto(Writer, "count")
  /\ UNCHANGED <<write_counter, read_finished, rwlock, scan, main, next>>

CountElement ==
  /\ At(Writer, "count")
  /\ write_counter' = write_counter + 1
  /\ Goto(Writer, "unlock")
  /\ UNCHANGED <<shared_array, read_finished, rwlock, scan, main, next>>

WriterUnlock ==
  /\ At(Writer, "unlock")
  /\ pthread_rwlock_unlock(Writer)
  /\ Goto(Writer, "while")
  /\ UNCHANGED <<data, scan, main, next>>

FinishLock_Bug ==
  /\ At(Writer, "finish_wrlock")
  /\ Goto(Writer, "finish")
  /\ UNCHANGED <<data, rwlock, scan, main, next>>

FinishLock ==
  /\ At(Writer, "finish_wrlock")
  /\ pthread_rwlock_wrlock(Writer)
  /\ Goto(Writer, "finish")
  /\ UNCHANGED <<data, scan, main, next>>

Finish_Bug ==
  /\ At(Writer, "finish")
  /\ Goto(Writer, "finish_unlock")
  /\ UNCHANGED <<data, rwlock, scan, main, next>>

Finish ==
  /\ At(Writer, "finish")
  /\ read_finished' = TRUE
  /\ Goto(Writer, "finish_unlock")
  /\ UNCHANGED <<shared_array, write_counter, rwlock, scan, main, next>>

FinishUnlock ==
  /\ At(Writer, "finish_unlock")
  /\ pthread_rwlock_unlock(Writer)
  /\ Goto(Writer, "done")
  /\ UNCHANGED <<data, scan, main, next>>

WriterStep ==
  \/ WriterWhile \/ WriterLock \/ StoreElement \/ CountElement \/ WriterUnlock
  \/ FinishLock \/ Finish \/ FinishUnlock

-----------------------------------------------------------------------------
(* reader_thread                                                           *)

ReaderLock(r) ==
  /\ At(r, "rdlock")
  /\ pthread_rwlock_rdlock(r)
  /\ Goto(r, "test")
  /\ UNCHANGED <<data, scan, main, next>>

ReaderExit(r) ==
  /\ At(r, "test")
  /\ read_finished
  /\ pthread_rwlock_unlock(r)
  /\ Goto(r, "done")
  /\ UNCHANGED <<data, scan, main, next>>

StartLine(r) ==
  /\ At(r, "test")
  /\ ~read_finished
  /\ Goto(r, "scan")
  /\ UNCHANGED <<data, rwlock, scan, main, next>>

(* One iteration of the loop; '_' stands for a cell not written.           *)
Formatted(r) ==
  IF index[r] < write_counter
  THEN Append(line[r], shared_array[index[r]])
  ELSE line[r]

FormatCell(r) ==
  /\ At(r, "scan")
  /\ index[r] + 1 < ARRAY_SIZE
  /\ line' = [line EXCEPT ![r] = Formatted(r)]
  /\ index' = [index EXCEPT ![r] = @ + 1]
  /\ UNCHANGED <<data, rwlock, pc, view, main, next>>

(* The last iteration and the printf of the whole buffer.                  *)
PrintLine(r) ==
  /\ At(r, "scan")
  /\ index[r] + 1 = ARRAY_SIZE
  /\ view' = [view EXCEPT ![r] = Formatted(r)]
  /\ line' = [line EXCEPT ![r] = <<>>]
  /\ index' = [index EXCEPT ![r] = 0]
  /\ Goto(r, "unlock")
  /\ UNCHANGED <<data, rwlock, main, next>>

ReaderUnlock(r) ==
  /\ At(r, "unlock")
  /\ pthread_rwlock_unlock(r)
  /\ Goto(r, "rdlock")
  /\ UNCHANGED <<data, scan, main, next>>

ReaderStep(r) ==
  \/ ReaderLock(r) \/ ReaderExit(r) \/ StartLine(r) \/ FormatCell(r)
  \/ PrintLine(r) \/ ReaderUnlock(r)

-----------------------------------------------------------------------------
(* main                                                                    *)

InitLock ==
  /\ main = "init"
  /\ main' \in {"create_writer", "failed"}
  /\ UNCHANGED <<data, rwlock, pc, scan, next>>

CreateWriter ==
  /\ main = "create_writer"
  /\ main' = "create_readers"
  /\ Goto(Writer, "while")
  /\ UNCHANGED <<data, rwlock, scan, next>>

CreateReader ==
  /\ main = "create_readers"
  /\ Goto(next, "rdlock")
  /\ IF next < NUM_READERS
     THEN next' = next + 1 /\ UNCHANGED main
     ELSE next' = 1 /\ main' = "join_readers"
  /\ UNCHANGED <<data, rwlock, scan>>

(* The lock is destroyed although the threads created so far still use it. *)
CreateFails ==
  /\ main \in {"create_writer", "create_readers"}
  /\ main' = "failing"
  /\ UNCHANGED <<data, rwlock, pc, scan, next>>

ReturnFailure ==
  /\ main = "failing"
  /\ main' = "failed"
  /\ UNCHANGED <<data, rwlock, pc, scan, next>>

JoinReader ==
  /\ main = "join_readers"
  /\ pc[next] = "done"
  /\ IF next < NUM_READERS
     THEN next' = next + 1 /\ UNCHANGED main
     ELSE main' = "join_writer" /\ UNCHANGED next
  /\ UNCHANGED <<data, rwlock, pc, scan>>

JoinWriter ==
  /\ main = "join_writer"
  /\ pc[Writer] = "done"
  /\ main' = "display"
  /\ UNCHANGED <<data, rwlock, pc, scan, next>>

Return ==
  /\ main = "display"
  /\ main' = "returned"
  /\ UNCHANGED <<data, rwlock, pc, scan, next>>

MainStep ==
  \/ InitLock \/ CreateWriter \/ CreateReader \/ CreateFails
  \/ ReturnFailure \/ JoinReader \/ JoinWriter \/ Return

Exited == ~ProcessAlive /\ UNCHANGED vars

Next ==
  \/ WriterStep
  \/ \E r \in Readers : ReaderStep(r)
  \/ MainStep
  \/ Exited

Spec == Init /\ [][Next]_vars

(***************************************************************************)
(* Readers are preferred, so readers that overlap could keep the writer    *)
(* out for ever, and no fairness of single actions rules that out.  Time   *)
(* does: a reader sleeps 100 ms after a line that takes far less to print, *)
(* so there are always moments when no reader holds the lock.  At such     *)
(* moments the writer gets it (strong fairness where it asks for it).      *)
(***************************************************************************)
ReadersPause == []<>(rwlock \cap Readers = {})

FairSpec ==
  /\ Spec
  /\ ReadersPause
  /\ WF_vars(WriterStep) /\ SF_vars(WriterLock) /\ SF_vars(FinishLock)
  /\ \A r \in Readers : WF_vars(ReaderStep(r))
  /\ WF_vars(MainStep)

-----------------------------------------------------------------------------
TypeOK ==
  /\ shared_array \in [0..ARRAY_SIZE - 1 -> 0..ARRAY_SIZE]
  /\ write_counter \in 0..ARRAY_SIZE
  /\ read_finished \in BOOLEAN
  /\ rwlock \in SUBSET Threads
  /\ pc \in [Threads -> WriterPCs \cup ReaderPCs]
  /\ index \in [Readers -> 0..ARRAY_SIZE - 1]
  /\ line \in [Readers -> Seq(0..ARRAY_SIZE)]
  /\ view \in [Readers -> Seq(0..ARRAY_SIZE)]
  /\ main \in MainPCs
  /\ next \in Readers

(* Readers that print at the same time agree: what one of them has put     *)
(* into its line begins what the other has, because no element can arrive  *)
(* while any of them holds the lock (rwlock.c:47-76).                      *)
OverlappingReadersAgree ==
  \A r, s \in Readers :
    pc[r] = "scan" /\ pc[s] = "scan" /\ index[r] <= index[s]
      => /\ Len(line[r]) <= Len(line[s])
         /\ \A k \in 1..Len(line[r]) : line[r][k] = line[s][k]
         /\ Len(line[r]) < index[r] => Len(line[r]) = Len(line[s])

(* Once read_finished is set no reader starts, goes on with or prints a    *)
(* line, although a reader tests the flag before it starts its line and    *)
(* not after (rwlock.c:36-38, 47-74).                                      *)
NothingAfterFinish ==
  [][read_finished =>
       /\ UNCHANGED <<index, line, view>>
       /\ \A r \in Readers : pc'[r] # "scan"]_vars

(* Every line is a snapshot of the array at one instant, and a reader      *)
(* leaves only when the array is full (rwlock.c:22-38, 49-74).             *)
Log == [k \in 1..write_counter |-> shared_array[k - 1]]
Snapshot == INSTANCE PrefixBuffer
              WITH Size <- ARRAY_SIZE, log <- Log, view <- view,
                   stopped <- {r \in Readers : pc[r] = "done"}
SnapshotSpec == Snapshot!Spec

(* When all readers were created, main joins them all and returns          *)
(* (rwlock.c:110-123).                                                     *)
AllJoined == main = "join_readers" ~> main = "returned"
=============================================================================
