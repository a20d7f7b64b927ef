--------------------------- MODULE CondVarBuffer ---------------------------
(***************************************************************************)
(* lab11_condvar/condvar.c: one writer fills shared_array under a mutex    *)
(* and signals a condition variable after every element; each reader waits *)
(* for new data, prints the array and marks the data as consumed; main     *)
(* creates the threads, joins them and prints the final array.             *)
(*                                                                         *)
(* A step is what one thread does between two points at which another      *)
(* thread can be observed: each access of the array is a step of its own,  *)
(* although it happens under the mutex, so that the mutex has a job to do. *)
(* pthread_cond_wait may return without a signal (SpuriousWakeup).         *)
(***************************************************************************)
EXTENDS Integers, Sequences

CONSTANTS
  NumReaders,   (* NUM_READERS                                             *)
  ArraySize,    (* ARRAY_SIZE                                              *)
  MaxSpurious   (* bound: returns of pthread_cond_wait without a signal    *)

ASSUME CondVarAssumption ==
  /\ NumReaders \in Nat \ {0}
  /\ ArraySize \in Nat \ {0}
  /\ MaxSpurious \in Nat

Readers  == 1..NumReaders
Writer   == 0
Threads  == Readers \cup {Writer}
NoThread == -1

VARIABLES
  shared_array,    (* cell i holds 0 for '_' and i + 1 for 'A' + i          *)
  write_counter,
  all_written,
  data_available,
  mutex,           (* the thread that holds the mutex, or NoThread          *)
  waiting,         (* the readers blocked on data_ready_cond                *)
  pc,              (* where each thread is                                  *)
  index,           (* the loop variable i of each reader                    *)
  line,            (* the elements on the line each reader is printing      *)
  view,            (* the elements on the last line each reader completed   *)
  main,            (* where the main thread is                              *)
  next,            (* main's loop variable: the reader to create or to join *)
  spurious         (* how many spurious wakeups there have been             *)

data == <<shared_array, write_counter, all_written, data_available>>
scan == <<index, line, view>>
boss == <<main, next>>
vars == <<data, mutex, waiting, pc, scan, boss, spurious>>

WriterPCs == {"unborn", "while", "lock", "store", "count", "signal", "unlock",
              "finish_lock", "finish", "finish_unlock", "done"}
ReaderPCs == {"unborn", "lock", "test", "wait", "scan", "unlock", "done"}
MainPCs   == {"create_writer", "create_readers", "join_readers", "join_writer",
              "display", "returned", "failed"}

Init ==
  /\ shared_array = [i \in 0..ArraySize - 1 |-> 0]
  /\ write_counter = 0
  /\ all_written = FALSE
  /\ data_available = FALSE
  /\ mutex = NoThread
  /\ waiting = {}
  /\ pc = [t \in Threads |-> "unborn"]
  /\ index = [r \in Readers |-> 0]
  /\ line = [r \in Readers |-> <<>>]
  /\ view = [r \in Readers |-> <<>>]
  /\ main = "create_writer"
  /\ next = 1
  /\ spurious = 0

(* When main returns, with either exit status, every other thread is gone. *)
ProcessAlive == main \notin {"returned", "failed"}

At(t, label) == ProcessAlive /\ pc[t] = label
Goto(t, label) == pc' = [pc EXCEPT ![t] = label]

-----------------------------------------------------------------------------
(* The pthread primitives.  (A definition whose name ends in _Bug is a     *)
(* wrong version of the one that follows it; nothing uses it.  It is there *)
(* to be swapped in, to see which property notices.)                       *)

MutexIsFree_Bug == TRUE
MutexIsFree == mutex = NoThread

pthread_mutex_lock(t) == MutexIsFree /\ mutex' = t
pthread_mutex_unlock(t) == mutex' = NoThread

pthread_cond_signal_Bug == UNCHANGED waiting
pthread_cond_signal ==
  \/ waiting = {} /\ UNCHANGED waiting
  \/ \E r \in waiting : waiting' = waiting \ {r}

pthread_cond_broadcast_Bug == pthread_cond_signal
pthread_cond_broadcast == waiting' = {}

-----------------------------------------------------------------------------
(* The writer thread.                                                      *)

WriterWhile ==
  /\ At(Writer, "while")
  /\ Goto(Writer, IF write_counter < ArraySize THEN "lock" ELSE "finish_lock")
  /\ UNCHANGED <<data, mutex, waiting, scan, boss, spurious>>

WriterLock ==
  /\ At(Writer, "lock")
  /\ pthread_mutex_lock(Writer)
  /\ Goto(Writer, "store")
  /\ UNCHANGED <<data, waiting, scan, boss, spurious>>

StoreElement ==
  /\ At(Writer, "store")
  /\ shared_array' = [shared_array EXCEPT ![write_counter] = write_counter + 1]
  /\ Goto(Writer, "count")
  /\ UNCHANGED <<write_counter, all_written, data_available, mutex, waiting,
                 scan, boss, spurious>>

CountElement ==
  /\ At(Writer, "count")
  /\ write_counter' = write_counter + 1
  /\ Goto(Writer, "signal")
  /\ UNCHANGED <<shared_array, all_written, data_available, mutex, waiting,
                 scan, boss, spurious>>

SignalData ==
  /\ At(Writer, "signal")
  /\ data_available' = TRUE
  /\ pthread_cond_signal
  /\ Goto(Writer, "unlock")
  /\ UNCHANGED <<shared_array, write_counter, all_written, mutex, scan, boss,
                 spurious>>

WriterUnlock ==
  /\ At(Writer, "unlock")
  /\ pthread_mutex_unlock(Writer)
  /\ Goto(Writer, "while")
  /\ UNCHANGED <<data, waiting, scan, boss, spurious>>

FinishLock ==
  /\ At(Writer, "finish_lock")
  /\ pthread_mutex_lock(Writer)
  /\ Goto(Writer, "finish")
  /\ UNCHANGED <<data, waiting, scan, boss, spurious>>

Finish ==
  /\ At(Writer, "finish")
  /\ all_written' = TRUE
  /\ data_available' = TRUE
  /\ pthread_cond_broadcast
  /\ Goto(Writer, "finish_unlock")
  /\ UNCHANGED <<shared_array, write_counter, mutex, scan, boss, spurious>>

FinishUnlock ==
  /\ At(Writer, "finish_unlock")
  /\ pthread_mutex_unlock(Writer)
  /\ Goto(Writer, "done")
  /\ UNCHANGED <<data, waiting, scan, boss, spurious>>

WriterStep ==
  \/ WriterWhile \/ WriterLock \/ StoreElement \/ CountElement \/ SignalData
  \/ WriterUnlock \/ FinishLock \/ Finish \/ FinishUnlock

-----------------------------------------------------------------------------
(* A reader thread.                                                        *)

MustWait == ~data_available /\ ~all_written
NoMoreData_Bug == write_counter = ArraySize
NoMoreData == all_written /\ write_counter = ArraySize

ReaderLock(r) ==
  /\ At(r, "lock")
  /\ pthread_mutex_lock(r)
  /\ Goto(r, "test")
  /\ UNCHANGED <<data, waiting, scan, boss, spurious>>

(* pthread_cond_wait gives up the mutex and blocks in one step.            *)
CondWait(r) ==
  /\ At(r, "test")
  /\ MustWait
  /\ waiting' = waiting \cup {r}
  /\ pthread_mutex_unlock(r)
  /\ Goto(r, "wait")
  /\ UNCHANGED <<data, scan, boss, spurious>>

(* pthread_cond_wait sits in a while loop: the flags are tested again.     *)
AfterWait_Bug == "scan"
AfterWait == "test"

(* A woken reader takes the mutex back before it does anything else.       *)
CondReturn(r) ==
  /\ At(r, "wait")
  /\ r \notin waiting
  /\ pthread_mutex_lock(r)
  /\ Goto(r, AfterWait)
  /\ UNCHANGED <<data, waiting, scan, boss, spurious>>

SpuriousWakeup(r) ==
  /\ ProcessAlive
  /\ r \in waiting
  /\ spurious < MaxSpurious
  /\ waiting' = waiting \ {r}
  /\ spurious' = spurious + 1
  /\ UNCHANGED <<data, mutex, pc, scan, boss>>

ReaderExit(r) ==
  /\ At(r, "test")
  /\ ~MustWait
  /\ NoMoreData
  /\ pthread_mutex_unlock(r)
  /\ Goto(r, "done")
  /\ UNCHANGED <<data, waiting, scan, boss, spurious>>

StartLine(r) ==
  /\ At(r, "test")
  /\ ~MustWait
  /\ ~NoMoreData
  /\ Goto(r, "scan")
  /\ UNCHANGED <<data, mutex, waiting, scan, boss, spurious>>

(* One iteration of the printing loop; '_' stands for a cell not written.  *)
Printed(r) ==
  IF index[r] < write_counter
  THEN Append(line[r], shared_array[index[r]])
  ELSE line[r]

PrintCell(r) ==
  /\ At(r, "scan")
  /\ index[r] + 1 < ArraySize
  /\ line' = [line EXCEPT ![r] = Printed(r)]
  /\ index' = [index EXCEPT ![r] = @ + 1]
  /\ UNCHANGED <<data, mutex, waiting, pc, view, boss, spurious>>

MarkConsumed == data_available' = FALSE

(* The last iteration, the end of the line and data_available = 0.         *)
EndLine(r) ==
  /\ At(r, "scan")
  /\ index[r] + 1 = ArraySize
  /\ view' = [view EXCEPT ![r] = Printed(r)]
  /\ line' = [line EXCEPT ![r] = <<>>]
  /\ index' = [index EXCEPT ![r] = 0]
  /\ MarkConsumed
  /\ Goto(r, "unlock")
  /\ UNCHANGED <<shared_array, write_counter, all_written, mutex, waiting,
                 boss, spurious>>

ReaderUnlock(r) ==
  /\ At(r, "unlock")
  /\ pthread_mutex_unlock(r)
  /\ Goto(r, "lock")
  /\ UNCHANGED <<data, waiting, scan, boss, spurious>>

ReaderStep(r) ==
  \/ ReaderLock(r) \/ CondWait(r) \/ CondReturn(r) \/ ReaderExit(r)
  \/ StartLine(r) \/ PrintCell(r) \/ EndLine(r) \/ ReaderUnlock(r)

-----------------------------------------------------------------------------
(* The main thread.                                                        *)

CreateWriter ==
  /\ main = "create_writer"
  /\ main' = "create_readers"
  /\ Goto(Writer, "while")
  /\ UNCHANGED <<data, mutex, waiting, scan, next, spurious>>

CreateReader ==
  /\ main = "create_readers"
  /\ Goto(next, "lock")
  /\ IF next < NumReaders
     THEN next' = next + 1 /\ UNCHANGED main
     ELSE next' = 1 /\ main' = "join_readers"
  /\ UNCHANGED <<data, mutex, waiting, scan, spurious>>

(* pthread_create fails: main returns 1, and the process ends.             *)
CreateFails ==
  /\ main \in {"create_writer", "create_readers"}
  /\ main' = "failed"
  /\ UNCHANGED <<data, mutex, waiting, pc, scan, next, spurious>>

JoinReader ==
  /\ main = "join_readers"
  /\ pc[next] = "done"
  /\ IF next < NumReaders
     THEN next' = next + 1 /\ UNCHANGED main
     ELSE main' = "join_writer" /\ UNCHANGED next
  /\ UNCHANGED <<data, mutex, waiting, pc, scan, spurious>>

JoinWriter ==
  /\ main = "join_writer"
  /\ pc[Writer] = "done"
  /\ main' = "display"
  /\ UNCHANGED <<data, mutex, waiting, pc, scan, next, spurious>>

DisplayFinal ==
  /\ main = "display"
  /\ main' = "returned"
  /\ UNCHANGED <<data, mutex, waiting, pc, scan, next, spurious>>

MainStep ==
  \/ CreateWriter \/ CreateReader \/ CreateFails \/ JoinReader \/ JoinWriter
  \/ DisplayFinal

(* The process is gone: the only state in which nothing more may happen.   *)
Exited == ~ProcessAlive /\ UNCHANGED vars

Next ==
  \/ WriterStep
  \/ \E r \in Readers : ReaderStep(r) \/ SpuriousWakeup(r)
  \/ MainStep
  \/ Exited

Spec == Init /\ [][Next]_vars

(***************************************************************************)
(* Every thread that can run keeps running.  Weak fairness is all that is  *)
(* asked of the mutex: a thread may lose it to others for as long as they  *)
(* keep coming.                                                            *)
(***************************************************************************)
FairSpec ==
  /\ Spec
  /\ WF_vars(WriterStep)
  /\ \A r \in Readers : WF_vars(ReaderStep(r))
  /\ WF_vars(MainStep)

-----------------------------------------------------------------------------
(* Properties.                                                             *)

TypeOK ==
  /\ shared_array \in [0..ArraySize - 1 -> 0..ArraySize]
  /\ write_counter \in 0..ArraySize
  /\ all_written \in BOOLEAN
  /\ data_available \in BOOLEAN
  /\ mutex \in Threads \cup {NoThread}
  /\ waiting \in SUBSET Readers
  /\ pc \in [Threads -> WriterPCs \cup ReaderPCs]
  /\ pc[Writer] \in WriterPCs
  /\ \A r \in Readers : pc[r] \in ReaderPCs
  /\ index \in [Readers -> 0..ArraySize - 1]
  /\ line \in [Readers -> Seq(0..ArraySize)]
  /\ view \in [Readers -> Seq(0..ArraySize)]
  /\ main \in MainPCs
  /\ next \in Readers
  /\ spurious \in 0..MaxSpurious

WriterInside == {"store", "count", "signal", "unlock", "finish", "finish_unlock"}
ReaderInside == {"test", "scan", "unlock"}
Inside(t) == pc[t] \in (IF t = Writer THEN WriterInside ELSE ReaderInside)

(* The elements a complete picture of the buffer shows right now.          *)
Log == [i \in 1..write_counter |-> shared_array[i - 1]]

(* A reader that sleeps on data_ready_cond is never forgotten: data that   *)
(* has been announced keeps at least one reader awake to print it, and     *)
(* from the moment all_written is set nobody sleeps any more.  It can be   *)
(* lost if a signal comes before the flag it announces, if a reader tests  *)
(* the flags outside the mutex, or if one waiter is woken where all are    *)
(* meant (condvar.c:36-37, 47-48, 65-67).                                  *)
NoLostWakeup ==
  /\ data_available => waiting # Readers
  /\ all_written => waiting = {}

(* No news is printed twice: every line that is completed has more         *)
(* elements than the last line of every reader, its own included, because  *)
(* the reader that prints takes the data_available flag with it            *)
(* (condvar.c:65-87).                                                      *)
FreshLines ==
  [][\A r \in Readers : pc[r] = "scan" /\ pc'[r] = "unlock" =>
        \A s \in Readers : Len(view[s]) < Len(view'[r])]_vars

(* Every completed line is a snapshot of the buffer at one instant and a   *)
(* reader leaves only when the buffer is full: the program implements      *)
(* PrefixBuffer although lines are printed cell by cell (condvar.c:70-85). *)
Snapshot == INSTANCE PrefixBuffer
              WITH Size <- ArraySize, log <- Log, view <- view,
                   stopped <- {r \in Readers : pc[r] = "done"}
SnapshotSpec == Snapshot!Spec

(* Once the threads exist, main gets all of them back and returns.  No     *)
(* strong fairness is needed: a reader without news sleeps, so between two *)
(* writes only finitely many readers can keep the writer from the mutex    *)
(* (condvar.c:61-92, 127-135).                                             *)
AllJoined == main = "join_readers" ~> main = "returned"

(* "Check if all writing is done and no more data" (condvar.c:69): a       *)
(* reader that leaves its loop leaves no element that no reader printed.   *)
ExitMeansNoMoreData ==
  \A r \in Readers : pc[r] = "done" =>
    \E s \in Readers : Len(view[s]) = ArraySize

-----------------------------------------------------------------------------
(* The inductive invariant behind NoLostWakeup, FreshLines and the         *)
(* refinement, one conjunct per idea.                                      *)

(* main has not yet touched the threads it is going to create.             *)
Unborn ==
  /\ main = "create_writer" => pc[Writer] = "unborn" /\ next = 1
  /\ main \in {"create_writer", "create_readers"} =>
       \A r \in Readers : r >= next => pc[r] = "unborn"

MutualExclusion == \A t \in Threads : Inside(t) <=> mutex = t

WaitersWait == \A r \in waiting : pc[r] = "wait"

(* The first write_counter cells hold their elements; the writer's place   *)
(* in its loop says where the next one goes and when it is done.           *)
BufferFilled ==
  /\ \A i \in 0..ArraySize - 1 :
        i < write_counter \/ (i = write_counter /\ pc[Writer] = "count")
          => shared_array[i] = i + 1
  /\ pc[Writer] \in {"lock", "store", "count"} => write_counter < ArraySize
  /\ pc[Writer] \in {"finish_lock", "finish", "finish_unlock", "done"}
       => write_counter = ArraySize
  /\ all_written => pc[Writer] \in {"finish_unlock", "done"}
  /\ pc[Writer] \in {"finish_unlock", "done"} => all_written
  /\ pc[Writer] = "unborn" => write_counter = 0

(* The first n elements ever written.                                      *)
Upto(n) == [i \in 1..n |-> i]

(* What the line of a reader holds after index[r] cells.                   *)
LineSoFar(r) ==
  Upto(IF index[r] < write_counter THEN index[r] ELSE write_counter)

LinesAreTrue ==
  \A r \in Readers :
    /\ pc[r] = "scan" => line[r] = LineSoFar(r)
    /\ pc[r] # "scan" => line[r] = <<>> /\ index[r] = 0

ViewsAreTrue ==
  \A r \in Readers :
    view[r] = Upto(Len(view[r])) /\ Len(view[r]) <= write_counter

(* A reader prints only while there is news, and leaves only at the end.   *)
ReadersObeyFlags ==
  \A r \in Readers :
    /\ pc[r] = "scan" => data_available /\ ~all_written
    /\ pc[r] = "done" => all_written

(* Data announced and not yet taken is news to every reader.               *)
NewsIsNew ==
  (data_available /\ ~all_written) \/ pc[Writer] = "signal"
    => \A r \in Readers : Len(view[r]) < write_counter

IInv ==
  /\ TypeOK
  /\ Unborn
  /\ MutualExclusion
  /\ WaitersWait
  /\ BufferFilled
  /\ LinesAreTrue
  /\ ViewsAreTrue
  /\ ReadersObeyFlags
  /\ NewsIsNew
  /\ NoLostWakeup
=============================================================================
