------------------------ MODULE MutexBuffer_proofs ------------------------
(***************************************************************************)
(* lab8_mtx for any number of readers and any buffer size, while threads   *)
(* are cancelled in the middle of a critical section and the mutex is      *)
(* destroyed under them: snapshots do not need the mutex, leaving does.    *)
(***************************************************************************)
EXTENDS MutexBuffer, TLAPS

PcTyped ==
  /\ pc \in [Threads -> WriterPCs \cup ReaderPCs]
  /\ pc[Writer] \in WriterPCs
  /\ \A r \in Readers : pc[r] \in ReaderPCs

(* main creates the threads in order.                                      *)
Unborn ==
  /\ main \in {"init", "create_writer"} => \A t \in Threads : pc[t] = "unborn"
  /\ main \in {"init", "create_writer"} => i = 1
  /\ main = "create_readers" => \A r \in Readers : r >= i => pc[r] = "unborn"

(* Nobody but the writer moves the position it has tested.                 *)
RoomToWrite == pc[Writer] \in {"write", "count"} => write_position < BUFFER_SIZE

(* An element is stored before it is counted.                              *)
BufferFilled ==
  /\ \A k \in 0..BUFFER_SIZE - 1 : k < write_position => shared_data[k] = k + 1
  /\ pc[Writer] = "count" => shared_data[write_position] = write_position + 1

(* What has been printed was there, and stays there.                       *)
LinesAreTrue ==
  \A r \in Readers :
    /\ Len(line[r]) <= write_position
    /\ \A k \in 1..Len(line[r]) : line[r][k] = k

(* Until main destroys it the mutex does its work.                         *)
InUse == main \notin {"failing", "failed", "returned"}
Exclusion ==
  InUse =>
    /\ buffer_lock # Destroyed
    /\ pc[Writer] \in {"check", "write", "count", "unlock"} => buffer_lock = Writer
    /\ \A r \in Readers : pc[r] \in {"scan", "check"} => buffer_lock = r

(* Whoever is about to test for completion has shown all there is.         *)
ShownBeforeTest ==
  \A r \in Readers :
    /\ InUse /\ pc[r] = "check" => Len(view[r]) = write_position
    /\ main \notin {"failing", "failed"} /\ pc[r] = "done" => Len(view[r]) = BUFFER_SIZE

IInv ==
  /\ TypeOK /\ PcTyped /\ Unborn /\ RoomToWrite /\ BufferFilled /\ LinesAreTrue
  /\ Exclusion /\ ShownBeforeTest

USE MutexAssumption

LEMMA ThreadIds ==
  /\ Writer \notin Readers /\ Writer \in Threads
  /\ \A r \in Readers : r \in Threads /\ r # Writer
  /\ Threads = Readers \cup {Writer}
  /\ \A t \in Threads : t # NoThread /\ t # Destroyed
  /\ NoThread # Destroyed
BY DEF Readers, Writer, Threads, NoThread, Destroyed

LEMMA NextReader ==
  1 \in Readers /\ \A r \in Readers : r < READER_THREADS => r + 1 \in Readers
BY DEF Readers

LEMMA InitIInv == Init => IInv
<1> SUFFICES ASSUME Init PROVE IInv
  OBVIOUS
<1> USE ThreadIds DEF Init
<1>1. PcTyped
  BY DEF PcTyped, WriterPCs, ReaderPCs
<1>2. TypeOK
  <2>1. pc \in [Threads -> WriterPCs \cup ReaderPCs]
    BY DEF WriterPCs
  <2>2. /\ shared_data \in [0..BUFFER_SIZE - 1 -> 0..BUFFER_SIZE]
        /\ write_position \in 0..BUFFER_SIZE
    OBVIOUS
  <2>3. /\ line \in [Readers -> Seq(0..BUFFER_SIZE)]
        /\ view \in [Readers -> Seq(0..BUFFER_SIZE)]
    OBVIOUS
  <2>4. main \in MainPCs /\ i \in Readers
    BY DEF MainPCs, Readers
  <2>5. QED
    BY <2>1, <2>2, <2>3, <2>4 DEF TypeOK
<1>3. Unborn /\ RoomToWrite /\ BufferFilled
  BY DEF Unborn, RoomToWrite, BufferFilled
<1>4. LinesAreTrue /\ Exclusion /\ ShownBeforeTest
  BY DEF LinesAreTrue, Exclusion, ShownBeforeTest
<1>5. QED
  BY <1>1, <1>2, <1>3, <1>4 DEF IInv

(* One lemma per part of the invariant: every step keeps it.               *)
LEMMA PcStep ==
  ASSUME TypeOK, PcTyped, [Next]_vars
  PROVE  PcTyped'
<1> USE ThreadIds DEF PcTyped, TypeOK, Goto, At, WriterPCs, ReaderPCs, data, boss
<1>1. ASSUME WriterWhile PROVE PcTyped'
  BY <1>1 DEF WriterWhile, MoreToWrite
<1>2. ASSUME WriterLock PROVE PcTyped'
  BY <1>2 DEF WriterLock, pthread_mutex_lock
<1>3. ASSUME WriterCheck PROVE PcTyped'
  BY <1>3 DEF WriterCheck, MoreToWrite
<1>4. ASSUME WriteValue PROVE PcTyped'
  BY <1>4 DEF WriteValue
<1>5. ASSUME AdvancePosition PROVE PcTyped'
  BY <1>5 DEF AdvancePosition
<1>6. ASSUME WriterUnlock PROVE PcTyped'
  BY <1>6 DEF WriterUnlock, pthread_mutex_unlock, AfterWrite
<1>7. ASSUME WriterWake PROVE PcTyped'
  BY <1>7 DEF WriterWake
<1>8. ASSUME NEW r \in Readers, ReaderLock(r) PROVE PcTyped'
  BY <1>8 DEF ReaderLock, pthread_mutex_lock
<1>9. ASSUME NEW r \in Readers, PrintCell(r) PROVE PcTyped'
  BY <1>9 DEF PrintCell
<1>10. ASSUME NEW r \in Readers, EndLine(r) PROVE PcTyped'
  BY <1>10 DEF EndLine
<1>11. ASSUME NEW r \in Readers, ReaderLeaves(r) PROVE PcTyped'
  BY <1>11 DEF ReaderLeaves, pthread_mutex_unlock, WritingIsComplete
<1>12. ASSUME NEW r \in Readers, ReaderUnlock(r) PROVE PcTyped'
  BY <1>12 DEF ReaderUnlock, pthread_mutex_unlock
<1>13. ASSUME NEW r \in Readers, ReaderWake(r) PROVE PcTyped'
  BY <1>13 DEF ReaderWake
<1>14. ASSUME NEW t \in Threads, Cancelled(t) PROVE PcTyped'
  BY <1>14 DEF Cancelled, CancellationPoints
<1>15. ASSUME init_sync_resources PROVE PcTyped'
  BY <1>15 DEF init_sync_resources
<1>16. ASSUME CreateWriter PROVE PcTyped'
  BY <1>16 DEF CreateWriter
<1>17. ASSUME CreateWriterFails PROVE PcTyped'
  BY <1>17 DEF CreateWriterFails, cleanup_sync_resources
<1>18. ASSUME CreateReader PROVE PcTyped'
  BY <1>18 DEF CreateReader
<1>19. ASSUME CreateReaderFails PROVE PcTyped'
  BY <1>19 DEF CreateReaderFails
<1>20. ASSUME CancelWriter PROVE PcTyped'
  BY <1>20 DEF CancelWriter
<1>21. ASSUME CancelReader PROVE PcTyped'
  BY <1>21 DEF CancelReader
<1>22. ASSUME CleanupAfterCancel PROVE PcTyped'
  BY <1>22 DEF CleanupAfterCancel, cleanup_sync_resources
<1>23. ASSUME ReturnFailure PROVE PcTyped'
  BY <1>23 DEF ReturnFailure
<1>24. ASSUME JoinReader PROVE PcTyped'
  BY <1>24 DEF JoinReader
<1>25. ASSUME JoinWriter PROVE PcTyped'
  BY <1>25 DEF JoinWriter
<1>26. ASSUME DisplayFinal PROVE PcTyped'
  BY <1>26 DEF DisplayFinal, cleanup_sync_resources
<1>27. CASE UNCHANGED vars
  BY <1>27 DEF vars
<1>28. QED
  BY <1>1, <1>2, <1>3, <1>4, <1>5, <1>6, <1>7, <1>8, <1>9, <1>10, <1>11, <1>12, <1>13,
     <1>14, <1>15, <1>16, <1>17, <1>18, <1>19, <1>20, <1>21, <1>22, <1>23, <1>24, <1>25,
     <1>26, <1>27
     DEF Next, WriterStep, ReaderStep, MainStep, Exited

LEMMA UnbornStep ==
  ASSUME PcTyped, TypeOK, Unborn, [Next]_vars
  PROVE  Unborn'
<1> USE ThreadIds DEF PcTyped, Unborn, Goto, At, data, boss
<1>1. ASSUME WriterWhile PROVE Unborn'
  BY <1>1 DEF WriterWhile, MoreToWrite
<1>2. ASSUME WriterLock PROVE Unborn'
  BY <1>2 DEF WriterLock, pthread_mutex_lock
<1>3. ASSUME WriterCheck PROVE Unborn'
  BY <1>3 DEF WriterCheck, MoreToWrite
<1>4. ASSUME WriteValue PROVE Unborn'
  BY <1>4 DEF WriteValue
<1>5. ASSUME AdvancePosition PROVE Unborn'
  BY <1>5 DEF AdvancePosition
<1>6. ASSUME WriterUnlock PROVE Unborn'
  BY <1>6 DEF WriterUnlock, pthread_mutex_unlock, AfterWrite
<1>7. ASSUME WriterWake PROVE Unborn'
  BY <1>7 DEF WriterWake
<1>8. ASSUME NEW r \in Readers, ReaderLock(r) PROVE Unborn'
  BY <1>8 DEF ReaderLock, pthread_mutex_lock
<1>9. ASSUME NEW r \in Readers, PrintCell(r) PROVE Unborn'
  BY <1>9 DEF PrintCell
<1>10. ASSUME NEW r \in Readers, EndLine(r) PROVE Unborn'
  BY <1>10 DEF EndLine
<1>11. ASSUME NEW r \in Readers, ReaderLeaves(r) PROVE Unborn'
  BY <1>11 DEF ReaderLeaves, pthread_mutex_unlock, WritingIsComplete
<1>12. ASSUME NEW r \in Readers, ReaderUnlock(r) PROVE Unborn'
  BY <1>12 DEF ReaderUnlock, pthread_mutex_unlock
<1>13. ASSUME NEW r \in Readers, ReaderWake(r) PROVE Unborn'
  BY <1>13 DEF ReaderWake
<1>14. ASSUME NEW t \in Threads, Cancelled(t) PROVE Unborn'
  BY <1>14 DEF Cancelled, CancellationPoints
<1>15. ASSUME init_sync_resources PROVE Unborn'
  BY <1>15 DEF init_sync_resources
<1>16. ASSUME CreateWriter PROVE Unborn'
  BY <1>16 DEF CreateWriter, TypeOK, Readers
<1>17. ASSUME CreateWriterFails PROVE Unborn'
  BY <1>17 DEF CreateWriterFails, cleanup_sync_resources
<1>18. ASSUME CreateReader PROVE Unborn'
  <2>1. i \in 1..READER_THREADS /\ \A r \in Readers : r \in Int
    BY DEF TypeOK, Readers
  <2>2. CASE i < READER_THREADS
    <3>1. /\ main' = "create_readers" /\ i' = i + 1
          /\ \A r \in Readers \ {i} : pc'[r] = pc[r]
      BY <1>18, <2>2 DEF CreateReader
    <3>2. QED
      BY <1>18, <2>1, <3>1 DEF CreateReader
  <2>3. CASE ~(i < READER_THREADS)
    BY <1>18, <2>3 DEF CreateReader
  <2>4. QED
    BY <2>2, <2>3
<1>19. ASSUME CreateReaderFails PROVE Unborn'
  BY <1>19 DEF CreateReaderFails
<1>20. ASSUME CancelWriter PROVE Unborn'
  BY <1>20 DEF CancelWriter
<1>21. ASSUME CancelReader PROVE Unborn'
  BY <1>21 DEF CancelReader
<1>22. ASSUME CleanupAfterCancel PROVE Unborn'
  BY <1>22 DEF CleanupAfterCancel, cleanup_sync_resources
<1>23. ASSUME ReturnFailure PROVE Unborn'
  BY <1>23 DEF ReturnFailure
<1>24. ASSUME JoinReader PROVE Unborn'
  BY <1>24 DEF JoinReader
<1>25. ASSUME JoinWriter PROVE Unborn'
  BY <1>25 DEF JoinWriter
<1>26. ASSUME DisplayFinal PROVE Unborn'
  BY <1>26 DEF DisplayFinal, cleanup_sync_resources
<1>27. CASE UNCHANGED vars
  BY <1>27 DEF vars
<1>28. QED
  BY <1>1, <1>2, <1>3, <1>4, <1>5, <1>6, <1>7, <1>8, <1>9, <1>10, <1>11, <1>12, <1>13,
     <1>14, <1>15, <1>16, <1>17, <1>18, <1>19, <1>20, <1>21, <1>22, <1>23, <1>24, <1>25,
     <1>26, <1>27
     DEF Next, WriterStep, ReaderStep, MainStep, Exited

LEMMA RoomStep ==
  ASSUME PcTyped, TypeOK, RoomToWrite, [Next]_vars
  PROVE  RoomToWrite'
<1> USE ThreadIds DEF PcTyped, RoomToWrite, Goto, At, TypeOK, data, boss
<1>1. ASSUME WriterWhile PROVE RoomToWrite'
  BY <1>1 DEF WriterWhile, MoreToWrite
<1>2. ASSUME WriterLock PROVE RoomToWrite'
  BY <1>2 DEF WriterLock, pthread_mutex_lock
<1>3. ASSUME WriterCheck PROVE RoomToWrite'
  BY <1>3 DEF WriterCheck, MoreToWrite
<1>4. ASSUME WriteValue PROVE RoomToWrite'
  BY <1>4 DEF WriteValue
<1>5. ASSUME AdvancePosition PROVE RoomToWrite'
  BY <1>5 DEF AdvancePosition
<1>6. ASSUME WriterUnlock PROVE RoomToWrite'
  BY <1>6 DEF WriterUnlock, pthread_mutex_unlock, AfterWrite
<1>7. ASSUME WriterWake PROVE RoomToWrite'
  BY <1>7 DEF WriterWake
<1>8. ASSUME NEW r \in Readers, ReaderLock(r) PROVE RoomToWrite'
  BY <1>8 DEF ReaderLock, pthread_mutex_lock
<1>9. ASSUME NEW r \in Readers, PrintCell(r) PROVE RoomToWrite'
  BY <1>9 DEF PrintCell
<1>10. ASSUME NEW r \in Readers, EndLine(r) PROVE RoomToWrite'
  BY <1>10 DEF EndLine
<1>11. ASSUME NEW r \in Readers, ReaderLeaves(r) PROVE RoomToWrite'
  BY <1>11 DEF ReaderLeaves, pthread_mutex_unlock, WritingIsComplete
<1>12. ASSUME NEW r \in Readers, ReaderUnlock(r) PROVE RoomToWrite'
  BY <1>12 DEF ReaderUnlock, pthread_mutex_unlock
<1>13. ASSUME NEW r \in Readers, ReaderWake(r) PROVE RoomToWrite'
  BY <1>13 DEF ReaderWake
<1>14. ASSUME NEW t \in Threads, Cancelled(t) PROVE RoomToWrite'
  BY <1>14 DEF Cancelled, CancellationPoints
<1>15. ASSUME init_sync_resources PROVE RoomToWrite'
  BY <1>15 DEF init_sync_resources
<1>16. ASSUME CreateWriter PROVE RoomToWrite'
  BY <1>16 DEF CreateWriter
<1>17. ASSUME CreateWriterFails PROVE RoomToWrite'
  BY <1>17 DEF CreateWriterFails, cleanup_sync_resources
<1>18. ASSUME CreateReader PROVE RoomToWrite'
  BY <1>18 DEF CreateReader
<1>19. ASSUME CreateReaderFails PROVE RoomToWrite'
  BY <1>19 DEF CreateReaderFails
<1>20. ASSUME CancelWriter PROVE RoomToWrite'
  BY <1>20 DEF CancelWriter
<1>21. ASSUME CancelReader PROVE RoomToWrite'
  BY <1>21 DEF CancelReader
<1>22. ASSUME CleanupAfterCancel PROVE RoomToWrite'
  BY <1>22 DEF CleanupAfterCancel, cleanup_sync_resources
<1>23. ASSUME ReturnFailure PROVE RoomToWrite'
  BY <1>23 DEF ReturnFailure
<1>24. ASSUME JoinReader PROVE RoomToWrite'
  BY <1>24 DEF JoinReader
<1>25. ASSUME JoinWriter PROVE RoomToWrite'
  BY <1>25 DEF JoinWriter
<1>26. ASSUME DisplayFinal PROVE RoomToWrite'
  BY <1>26 DEF DisplayFinal, cleanup_sync_resources
<1>27. CASE UNCHANGED vars
  BY <1>27 DEF vars
<1>28. QED
  BY <1>1, <1>2, <1>3, <1>4, <1>5, <1>6, <1>7, <1>8, <1>9, <1>10, <1>11, <1>12, <1>13,
     <1>14, <1>15, <1>16, <1>17, <1>18, <1>19, <1>20, <1>21, <1>22, <1>23, <1>24, <1>25,
     <1>26, <1>27
     DEF Next, WriterStep, ReaderStep, MainStep, Exited

LEMMA FilledStep ==
  ASSUME PcTyped, TypeOK, RoomToWrite, BufferFilled, [Next]_vars
  PROVE  BufferFilled'
<1> USE ThreadIds DEF PcTyped, BufferFilled, RoomToWrite, Goto, At, TypeOK, data, boss
<1>1. ASSUME WriterWhile PROVE BufferFilled'
  BY <1>1 DEF WriterWhile, MoreToWrite
<1>2. ASSUME WriterLock PROVE BufferFilled'
  BY <1>2 DEF WriterLock, pthread_mutex_lock
<1>3. ASSUME WriterCheck PROVE BufferFilled'
  BY <1>3 DEF WriterCheck, MoreToWrite
<1>4. ASSUME WriteValue PROVE BufferFilled'
  BY <1>4 DEF WriteValue
<1>5. ASSUME AdvancePosition PROVE BufferFilled'
  <2>1. /\ write_position \in Nat /\ write_position' = write_position + 1
        /\ UNCHANGED shared_data /\ pc'[Writer] = "unlock"
        /\ shared_data[write_position] = write_position + 1
    BY <1>5 DEF AdvancePosition
  <2>2. ASSUME NEW k \in 0..BUFFER_SIZE - 1, k < write_position + 1
        PROVE  shared_data[k] = k + 1
    <3>1. CASE k = write_position
      BY <2>1, <3>1
    <3>2. CASE k # write_position
      BY <2>1, <2>2, <3>2
    <3>3. QED
      BY <3>1, <3>2
  <2>3. QED
    BY <2>1, <2>2
<1>6. ASSUME WriterUnlock PROVE BufferFilled'
  BY <1>6 DEF WriterUnlock, pthread_mutex_unlock, AfterWrite
<1>7. ASSUME WriterWake PROVE BufferFilled'
  BY <1>7 DEF WriterWake
<1>8. ASSUME NEW r \in Readers, ReaderLock(r) PROVE BufferFilled'
  BY <1>8 DEF ReaderLock, pthread_mutex_lock
<1>9. ASSUME NEW r \in Readers, PrintCell(r) PROVE BufferFilled'
  BY <1>9 DEF PrintCell
<1>10. ASSUME NEW r \in Readers, EndLine(r) PROVE BufferFilled'
  BY <1>10 DEF EndLine
<1>11. ASSUME NEW r \in Readers, ReaderLeaves(r) PROVE BufferFilled'
  BY <1>11 DEF ReaderLeaves, pthread_mutex_unlock, WritingIsComplete
<1>12. ASSUME NEW r \in Readers, ReaderUnlock(r) PROVE BufferFilled'
  BY <1>12 DEF ReaderUnlock, pthread_mutex_unlock
<1>13. ASSUME NEW r \in Readers, ReaderWake(r) PROVE BufferFilled'
  BY <1>13 DEF ReaderWake
<1>14. ASSUME NEW t \in Threads, Cancelled(t) PROVE BufferFilled'
  BY <1>14 DEF Cancelled, CancellationPoints
<1>15. ASSUME init_sync_resources PROVE BufferFilled'
  BY <1>15 DEF init_sync_resources
<1>16. ASSUME CreateWriter PROVE BufferFilled'
  BY <1>16 DEF CreateWriter
<1>17. ASSUME CreateWriterFails PROVE BufferFilled'
  BY <1>17 DEF CreateWriterFails, cleanup_sync_resources
<1>18. ASSUME CreateReader PROVE BufferFilled'
  BY <1>18 DEF CreateReader
<1>19. ASSUME CreateReaderFails PROVE BufferFilled'
  BY <1>19 DEF CreateReaderFails
<1>20. ASSUME CancelWriter PROVE BufferFilled'
  BY <1>20 DEF CancelWriter
<1>21. ASSUME CancelReader PROVE BufferFilled'
  BY <1>21 DEF CancelReader
<1>22. ASSUME CleanupAfterCancel PROVE BufferFilled'
  BY <1>22 DEF CleanupAfterCancel, cleanup_sync_resources
<1>23. ASSUME ReturnFailure PROVE BufferFilled'
  BY <1>23 DEF ReturnFailure
<1>24. ASSUME JoinReader PROVE BufferFilled'
  BY <1>24 DEF JoinReader
<1>25. ASSUME JoinWriter PROVE BufferFilled'
  BY <1>25 DEF JoinWriter
<1>26. ASSUME DisplayFinal PROVE BufferFilled'
  BY <1>26 DEF DisplayFinal, cleanup_sync_resources
<1>27. CASE UNCHANGED vars
  BY <1>27 DEF vars
<1>28. QED
  BY <1>1, <1>2, <1>3, <1>4, <1>5, <1>6, <1>7, <1>8, <1>9, <1>10, <1>11, <1>12, <1>13,
     <1>14, <1>15, <1>16, <1>17, <1>18, <1>19, <1>20, <1>21, <1>22, <1>23, <1>24, <1>25,
     <1>26, <1>27
     DEF Next, WriterStep, ReaderStep, MainStep, Exited

LEMMA LinesStep ==
  ASSUME TypeOK, BufferFilled, LinesAreTrue, [Next]_vars
  PROVE  LinesAreTrue'
<1> USE ThreadIds DEF TypeOK, BufferFilled, LinesAreTrue, At, data, boss
<1>1. ASSUME WriterWhile PROVE LinesAreTrue'
  BY <1>1 DEF WriterWhile, MoreToWrite
<1>2. ASSUME WriterLock PROVE LinesAreTrue'
  BY <1>2 DEF WriterLock, pthread_mutex_lock
<1>3. ASSUME WriterCheck PROVE LinesAreTrue'
  BY <1>3 DEF WriterCheck, MoreToWrite
<1>4. ASSUME WriteValue PROVE LinesAreTrue'
  BY <1>4 DEF WriteValue
<1>5. ASSUME AdvancePosition PROVE LinesAreTrue'
  BY <1>5 DEF AdvancePosition
<1>6. ASSUME WriterUnlock PROVE LinesAreTrue'
  BY <1>6 DEF WriterUnlock, pthread_mutex_unlock, AfterWrite
<1>7. ASSUME WriterWake PROVE LinesAreTrue'
  BY <1>7 DEF WriterWake
<1>8. ASSUME NEW r \in Readers, ReaderLock(r) PROVE LinesAreTrue'
  BY <1>8 DEF ReaderLock, pthread_mutex_lock
<1>9. ASSUME NEW r \in Readers, PrintCell(r) PROVE LinesAreTrue'
  <2>1. /\ Len(line[r]) \in 0..BUFFER_SIZE - 1 /\ Len(line[r]) < write_position
        /\ line' = [line EXCEPT ![r] = Append(line[r], shared_data[Len(line[r])])]
        /\ write_position' = write_position
    BY <1>9 DEF PrintCell
  <2>2. /\ Len(line'[r]) = Len(line[r]) + 1
        /\ \A k \in 1..Len(line[r]) : line'[r][k] = line[r][k]
        /\ line'[r][Len(line[r]) + 1] = shared_data[Len(line[r])]
    BY <2>1
  <2>3. shared_data[Len(line[r])] = Len(line[r]) + 1
    BY <2>1
  <2>4. Len(line'[r]) <= write_position' /\ \A k \in 1..Len(line'[r]) : line'[r][k] = k
    <3>1. write_position \in Nat /\ \A k \in 1..Len(line[r]) : line[r][k] = k
      OBVIOUS
    <3>2. QED
      BY ONLY <2>1, <2>2, <2>3, <3>1
  <2>5. \A t \in Readers \ {r} : line'[t] = line[t]
    BY <2>1
  <2>6. QED
    BY <2>1, <2>4, <2>5
<1>10. ASSUME NEW r \in Readers, EndLine(r) PROVE LinesAreTrue'
  BY <1>10 DEF EndLine
<1>11. ASSUME NEW r \in Readers, ReaderLeaves(r) PROVE LinesAreTrue'
  BY <1>11 DEF ReaderLeaves, pthread_mutex_unlock, WritingIsComplete
<1>12. ASSUME NEW r \in Readers, ReaderUnlock(r) PROVE LinesAreTrue'
  BY <1>12 DEF ReaderUnlock, pthread_mutex_unlock
<1>13. ASSUME NEW r \in Readers, ReaderWake(r) PROVE LinesAreTrue'
  BY <1>13 DEF ReaderWake
<1>14. ASSUME NEW t \in Threads, Cancelled(t) PROVE LinesAreTrue'
  BY <1>14 DEF Cancelled, CancellationPoints
<1>15. ASSUME init_sync_resources PROVE LinesAreTrue'
  BY <1>15 DEF init_sync_resources
<1>16. ASSUME CreateWriter PROVE LinesAreTrue'
  BY <1>16 DEF CreateWriter
<1>17. ASSUME CreateWriterFails PROVE LinesAreTrue'
  BY <1>17 DEF CreateWriterFails, cleanup_sync_resources
<1>18. ASSUME CreateReader PROVE LinesAreTrue'
  BY <1>18 DEF CreateReader
<1>19. ASSUME CreateReaderFails PROVE LinesAreTrue'
  BY <1>19 DEF CreateReaderFails
<1>20. ASSUME CancelWriter PROVE LinesAreTrue'
  BY <1>20 DEF CancelWriter
<1>21. ASSUME CancelReader PROVE LinesAreTrue'
  BY <1>21 DEF CancelReader
<1>22. ASSUME CleanupAfterCancel PROVE LinesAreTrue'
  BY <1>22 DEF CleanupAfterCancel, cleanup_sync_resources
<1>23. ASSUME ReturnFailure PROVE LinesAreTrue'
  BY <1>23 DEF ReturnFailure
<1>24. ASSUME JoinReader PROVE LinesAreTrue'
  BY <1>24 DEF JoinReader
<1>25. ASSUME JoinWriter PROVE LinesAreTrue'
  BY <1>25 DEF JoinWriter
<1>26. ASSUME DisplayFinal PROVE LinesAreTrue'
  BY <1>26 DEF DisplayFinal, cleanup_sync_resources
<1>27. CASE UNCHANGED vars
  BY <1>27 DEF vars
<1>28. QED
  BY <1>1, <1>2, <1>3, <1>4, <1>5, <1>6, <1>7, <1>8, <1>9, <1>10, <1>11, <1>12, <1>13,
     <1>14, <1>15, <1>16, <1>17, <1>18, <1>19, <1>20, <1>21, <1>22, <1>23, <1>24, <1>25,
     <1>26, <1>27
     DEF Next, WriterStep, ReaderStep, MainStep, Exited

LEMMA ExclusionStep ==
  ASSUME PcTyped, TypeOK, Unborn, Exclusion, [Next]_vars
  PROVE  Exclusion'
<1> USE ThreadIds DEF PcTyped, Exclusion, InUse, Goto, At, data, boss
<1>1. ASSUME WriterWhile PROVE Exclusion'
  BY <1>1 DEF WriterWhile, MoreToWrite
<1>2. ASSUME WriterLock PROVE Exclusion'
  BY <1>2 DEF WriterLock, pthread_mutex_lock
<1>3. ASSUME WriterCheck PROVE Exclusion'
  BY <1>3 DEF WriterCheck, MoreToWrite
<1>4. ASSUME WriteValue PROVE Exclusion'
  BY <1>4 DEF WriteValue
<1>5. ASSUME AdvancePosition PROVE Exclusion'
  BY <1>5 DEF AdvancePosition
<1>6. ASSUME WriterUnlock PROVE Exclusion'
  BY <1>6 DEF WriterUnlock, pthread_mutex_unlock, AfterWrite
<1>7. ASSUME WriterWake PROVE Exclusion'
  BY <1>7 DEF WriterWake
<1>8. ASSUME NEW r \in Readers, ReaderLock(r) PROVE Exclusion'
  BY <1>8 DEF ReaderLock, pthread_mutex_lock
<1>9. ASSUME NEW r \in Readers, PrintCell(r) PROVE Exclusion'
  BY <1>9 DEF PrintCell
<1>10. ASSUME NEW r \in Readers, EndLine(r) PROVE Exclusion'
  BY <1>10 DEF EndLine
<1>11. ASSUME NEW r \in Readers, ReaderLeaves(r) PROVE Exclusion'
  BY <1>11 DEF ReaderLeaves, pthread_mutex_unlock, WritingIsComplete
<1>12. ASSUME NEW r \in Readers, ReaderUnlock(r) PROVE Exclusion'
  BY <1>12 DEF ReaderUnlock, pthread_mutex_unlock
<1>13. ASSUME NEW r \in Readers, ReaderWake(r) PROVE Exclusion'
  BY <1>13 DEF ReaderWake
<1>14. ASSUME NEW t \in Threads, Cancelled(t) PROVE Exclusion'
  BY <1>14 DEF Cancelled, CancellationPoints
<1>15. ASSUME init_sync_resources PROVE Exclusion'
  BY <1>15 DEF init_sync_resources
<1>16. ASSUME CreateWriter PROVE Exclusion'
  BY <1>16 DEF CreateWriter, Unborn
<1>17. ASSUME CreateWriterFails PROVE Exclusion'
  BY <1>17 DEF CreateWriterFails, cleanup_sync_resources
<1>18. ASSUME CreateReader PROVE Exclusion'
  BY <1>18 DEF CreateReader, TypeOK, Unborn
<1>19. ASSUME CreateReaderFails PROVE Exclusion'
  BY <1>19 DEF CreateReaderFails
<1>20. ASSUME CancelWriter PROVE Exclusion'
  BY <1>20 DEF CancelWriter
<1>21. ASSUME CancelReader PROVE Exclusion'
  BY <1>21 DEF CancelReader
<1>22. ASSUME CleanupAfterCancel PROVE Exclusion'
  BY <1>22 DEF CleanupAfterCancel, cleanup_sync_resources
<1>23. ASSUME ReturnFailure PROVE Exclusion'
  BY <1>23 DEF ReturnFailure
<1>24. ASSUME JoinReader PROVE Exclusion'
  BY <1>24 DEF JoinReader
<1>25. ASSUME JoinWriter PROVE Exclusion'
  BY <1>25 DEF JoinWriter
<1>26. ASSUME DisplayFinal PROVE Exclusion'
  BY <1>26 DEF DisplayFinal, cleanup_sync_resources
<1>27. CASE UNCHANGED vars
  BY <1>27 DEF vars
<1>28. QED
  BY <1>1, <1>2, <1>3, <1>4, <1>5, <1>6, <1>7, <1>8, <1>9, <1>10, <1>11, <1>12, <1>13,
     <1>14, <1>15, <1>16, <1>17, <1>18, <1>19, <1>20, <1>21, <1>22, <1>23, <1>24, <1>25,
     <1>26, <1>27
     DEF Next, WriterStep, ReaderStep, MainStep, Exited

LEMMA ShownStep ==
  ASSUME PcTyped, TypeOK, Unborn, LinesAreTrue, Exclusion, ShownBeforeTest, [Next]_vars
  PROVE  ShownBeforeTest'
<1> USE ThreadIds DEF PcTyped, Exclusion, ShownBeforeTest, InUse, Goto, At, data, boss
<1>1. ASSUME WriterWhile PROVE ShownBeforeTest'
  BY <1>1 DEF WriterWhile, MoreToWrite
<1>2. ASSUME WriterLock PROVE ShownBeforeTest'
  BY <1>2 DEF WriterLock, pthread_mutex_lock
<1>3. ASSUME WriterCheck PROVE ShownBeforeTest'
  BY <1>3 DEF WriterCheck, MoreToWrite
<1>4. ASSUME WriteValue PROVE ShownBeforeTest'
  BY <1>4 DEF WriteValue
<1>5. ASSUME AdvancePosition PROVE ShownBeforeTest'
  BY <1>5 DEF AdvancePosition
<1>6. ASSUME WriterUnlock PROVE ShownBeforeTest'
  BY <1>6 DEF WriterUnlock, pthread_mutex_unlock, AfterWrite
<1>7. ASSUME WriterWake PROVE ShownBeforeTest'
  BY <1>7 DEF WriterWake
<1>8. ASSUME NEW r \in Readers, ReaderLock(r) PROVE ShownBeforeTest'
  BY <1>8 DEF ReaderLock, pthread_mutex_lock
<1>9. ASSUME NEW r \in Readers, PrintCell(r) PROVE ShownBeforeTest'
  BY <1>9 DEF PrintCell
<1>10. ASSUME NEW r \in Readers, EndLine(r) PROVE ShownBeforeTest'
  <2>1. Len(line[r]) = write_position
    <3>1. /\ Len(line[r]) \in Nat /\ write_position \in Nat
          /\ Len(line[r]) <= write_position /\ Len(line[r]) >= write_position
      BY <1>10 DEF EndLine, TypeOK, LinesAreTrue
    <3>2. QED
      BY <3>1
  <2>2. /\ view'[r] = line[r] /\ pc'[r] = "check"
        /\ \A t \in Readers \ {r} : pc'[t] = pc[t] /\ view'[t] = view[t]
        /\ UNCHANGED <<main, write_position>>
    BY <1>10 DEF EndLine, TypeOK
  <2>3. QED
    BY <2>1, <2>2
<1>11. ASSUME NEW r \in Readers, ReaderLeaves(r) PROVE ShownBeforeTest'
  <2>1. write_position = BUFFER_SIZE
    BY <1>11 DEF ReaderLeaves, WritingIsComplete, TypeOK
  <2>2. /\ pc[r] = "check" /\ pc'[r] = "done" /\ UNCHANGED <<main, write_position, view>>
        /\ \A t \in Readers \ {r} : pc'[t] = pc[t]
        /\ main \notin {"returned", "failed"}
    BY <1>11 DEF ReaderLeaves, ProcessAlive
  <2>3. QED
    BY <2>1, <2>2
<1>12. ASSUME NEW r \in Readers, ReaderUnlock(r) PROVE ShownBeforeTest'
  BY <1>12 DEF ReaderUnlock, pthread_mutex_unlock
<1>13. ASSUME NEW r \in Readers, ReaderWake(r) PROVE ShownBeforeTest'
  BY <1>13 DEF ReaderWake
<1>14. ASSUME NEW t \in Threads, Cancelled(t) PROVE ShownBeforeTest'
  BY <1>14 DEF Cancelled, CancellationPoints
<1>15. ASSUME init_sync_resources PROVE ShownBeforeTest'
  BY <1>15 DEF init_sync_resources
<1>16. ASSUME CreateWriter PROVE ShownBeforeTest'
  BY <1>16 DEF CreateWriter
<1>17. ASSUME CreateWriterFails PROVE ShownBeforeTest'
  BY <1>17 DEF CreateWriterFails, cleanup_sync_resources
<1>18. ASSUME CreateReader PROVE ShownBeforeTest'
  BY <1>18 DEF CreateReader, TypeOK, Unborn
<1>19. ASSUME CreateReaderFails PROVE ShownBeforeTest'
  BY <1>19 DEF CreateReaderFails
<1>20. ASSUME CancelWriter PROVE ShownBeforeTest'
  BY <1>20 DEF CancelWriter
<1>21. ASSUME CancelReader PROVE ShownBeforeTest'
  BY <1>21 DEF CancelReader
<1>22. ASSUME CleanupAfterCancel PROVE ShownBeforeTest'
  BY <1>22 DEF CleanupAfterCancel, cleanup_sync_resources
<1>23. ASSUME ReturnFailure PROVE ShownBeforeTest'
  BY <1>23 DEF ReturnFailure
<1>24. ASSUME JoinReader PROVE ShownBeforeTest'
  BY <1>24 DEF JoinReader
<1>25. ASSUME JoinWriter PROVE ShownBeforeTest'
  BY <1>25 DEF JoinWriter
<1>26. ASSUME DisplayFinal PROVE ShownBeforeTest'
  BY <1>26 DEF DisplayFinal, cleanup_sync_resources
<1>27. CASE UNCHANGED vars
  BY <1>27 DEF vars
<1>28. QED
  BY <1>1, <1>2, <1>3, <1>4, <1>5, <1>6, <1>7, <1>8, <1>9, <1>10, <1>11, <1>12, <1>13,
     <1>14, <1>15, <1>16, <1>17, <1>18, <1>19, <1>20, <1>21, <1>22, <1>23, <1>24, <1>25,
     <1>26, <1>27
     DEF Next, WriterStep, ReaderStep, MainStep, Exited

LEMMA TypeStep ==
  ASSUME PcTyped, PcTyped', TypeOK, Unborn, RoomToWrite, LinesAreTrue, [Next]_vars
  PROVE  TypeOK'
<1> USE ThreadIds DEF PcTyped, TypeOK, At, MainPCs, data, boss
<1>1. ASSUME WriterWhile PROVE TypeOK'
  BY <1>1 DEF WriterWhile, MoreToWrite
<1>2. ASSUME WriterLock PROVE TypeOK'
  BY <1>2 DEF WriterLock, pthread_mutex_lock
<1>3. ASSUME WriterCheck PROVE TypeOK'
  BY <1>3 DEF WriterCheck, MoreToWrite
<1>4. ASSUME WriteValue PROVE TypeOK'
  <2>1. write_position + 1 \in 0..BUFFER_SIZE
    BY <1>4 DEF WriteValue, RoomToWrite
  <2>2. QED
    BY <1>4, <2>1 DEF WriteValue
<1>5. ASSUME AdvancePosition PROVE TypeOK'
  <2>1. write_position + 1 \in 0..BUFFER_SIZE
    BY <1>5 DEF AdvancePosition, RoomToWrite
  <2>2. QED
    BY <1>5, <2>1 DEF AdvancePosition
<1>6. ASSUME WriterUnlock PROVE TypeOK'
  BY <1>6 DEF WriterUnlock, pthread_mutex_unlock, AfterWrite
<1>7. ASSUME WriterWake PROVE TypeOK'
  BY <1>7 DEF WriterWake
<1>8. ASSUME NEW r \in Readers, ReaderLock(r) PROVE TypeOK'
  BY <1>8 DEF ReaderLock, pthread_mutex_lock
<1>9. ASSUME NEW r \in Readers, PrintCell(r) PROVE TypeOK'
  BY <1>9 DEF PrintCell
<1>10. ASSUME NEW r \in Readers, EndLine(r) PROVE TypeOK'
  BY <1>10 DEF EndLine
<1>11. ASSUME NEW r \in Readers, ReaderLeaves(r) PROVE TypeOK'
  BY <1>11 DEF ReaderLeaves, pthread_mutex_unlock, WritingIsComplete
<1>12. ASSUME NEW r \in Readers, ReaderUnlock(r) PROVE TypeOK'
  BY <1>12 DEF ReaderUnlock, pthread_mutex_unlock
<1>13. ASSUME NEW r \in Readers, ReaderWake(r) PROVE TypeOK'
  BY <1>13 DEF ReaderWake
<1>14. ASSUME NEW t \in Threads, Cancelled(t) PROVE TypeOK'
  BY <1>14 DEF Cancelled, CancellationPoints
<1>15. ASSUME init_sync_resources PROVE TypeOK'
  BY <1>15 DEF init_sync_resources
<1>16. ASSUME CreateWriter PROVE TypeOK'
  BY <1>16 DEF CreateWriter
<1>17. ASSUME CreateWriterFails PROVE TypeOK'
  BY <1>17 DEF CreateWriterFails, cleanup_sync_resources
<1>18. ASSUME CreateReader PROVE TypeOK'
  BY <1>18, NextReader DEF CreateReader
<1>19. ASSUME CreateReaderFails PROVE TypeOK'
  BY <1>19 DEF CreateReaderFails
<1>20. ASSUME CancelWriter PROVE TypeOK'
  BY <1>20 DEF CancelWriter
<1>21. ASSUME CancelReader PROVE TypeOK'
  BY <1>21 DEF CancelReader, Readers
<1>22. ASSUME CleanupAfterCancel PROVE TypeOK'
  BY <1>22 DEF CleanupAfterCancel, cleanup_sync_resources
<1>23. ASSUME ReturnFailure PROVE TypeOK'
  BY <1>23 DEF ReturnFailure
<1>24. ASSUME JoinReader PROVE TypeOK'
  BY <1>24, NextReader DEF JoinReader
<1>25. ASSUME JoinWriter PROVE TypeOK'
  BY <1>25 DEF JoinWriter
<1>26. ASSUME DisplayFinal PROVE TypeOK'
  BY <1>26 DEF DisplayFinal, cleanup_sync_resources
<1>27. CASE UNCHANGED vars
  BY <1>27 DEF vars
<1>28. QED
  BY <1>1, <1>2, <1>3, <1>4, <1>5, <1>6, <1>7, <1>8, <1>9, <1>10, <1>11, <1>12, <1>13,
     <1>14, <1>15, <1>16, <1>17, <1>18, <1>19, <1>20, <1>21, <1>22, <1>23, <1>24, <1>25,
     <1>26, <1>27
     DEF Next, WriterStep, ReaderStep, MainStep, Exited

-----------------------------------------------------------------------------
LEMMA Invariance == Spec => []IInv
<1>1. IInv /\ [Next]_vars => IInv'
  BY PcStep, UnbornStep, RoomStep, FilledStep, LinesStep, ExclusionStep, ShownStep,
     TypeStep DEF IInv
<1>2. QED
  BY InitIInv, <1>1, PTL DEF Spec

(* The variables keep their types: the position stays within the buffer    *)
(* (main.c:40-163).                                                        *)
THEOREM Typing == Spec => []TypeOK
<1>1. IInv => TypeOK
  BY DEF IInv
<1>2. QED
  BY Invariance, <1>1, PTL

(* A reader that leaves by itself has printed the full buffer, unless main *)
(* had destroyed the mutex under it (main.c:72-92, 134-141).               *)
THEOREM NobodyLeavesBlind == Spec => []LeaversSawAll
<1>1. IInv => LeaversSawAll
  BY DEF IInv, ShownBeforeTest, LeaversSawAll
<1>2. QED
  BY Invariance, <1>1, PTL

-----------------------------------------------------------------------------
Upto(n) == [k \in 1..n |-> k]

LEMMA UptoAppend ==
  ASSUME NEW n \in Nat
  PROVE  Upto(n) \in Seq(Nat) /\ Len(Upto(n)) = n /\ Append(Upto(n), n + 1) = Upto(n + 1)
BY DEF Upto

LEMMA LogIs == TypeOK /\ BufferFilled => Log = Upto(write_position)
<1> SUFFICES ASSUME TypeOK, BufferFilled, NEW k \in 1..write_position
             PROVE  shared_data[k - 1] = k
  BY DEF Log, Upto
<1>1. write_position \in 0..BUFFER_SIZE
  BY DEF TypeOK
<1>2. k - 1 \in 0..BUFFER_SIZE - 1 /\ k - 1 < write_position
  BY <1>1
<1>3. QED
  BY <1>2 DEF BufferFilled

LEMMA LogIsNext == (TypeOK /\ BufferFilled => Log = Upto(write_position))'
BY LogIs, PTL

(* What EndLine completes is the whole log, mutex or no mutex.             *)
LEMMA LineIsLog ==
  ASSUME IInv, NEW r \in Readers, EndLine(r)
  PROVE  line[r] = Upto(write_position)
<1>1. /\ line[r] \in Seq(0..BUFFER_SIZE) /\ write_position \in Nat
      /\ Len(line[r]) <= write_position /\ Len(line[r]) >= write_position
  BY DEF EndLine, IInv, TypeOK, LinesAreTrue
<1>2. Len(line[r]) = write_position
  BY <1>1
<1>3. \A k \in 1..write_position : line[r][k] = k
  BY <1>2 DEF IInv, LinesAreTrue
<1>4. line[r] = [k \in 1..write_position |-> line[r][k]]
  BY <1>1, <1>2
<1>5. QED
  BY <1>3, <1>4 DEF Upto

LEMMA RefinesStep ==
  ASSUME IInv, IInv', [Next]_vars
  PROVE  [Snapshot!Next]_(Snapshot!vars)
<1> DEFINE Stopped == {r \in Readers : pc[r] = "done"}
<1> USE ThreadIds
<1>1. /\ Log = Upto(write_position) /\ Log' = Upto(write_position')
      /\ write_position \in Nat /\ Len(Log) = write_position
  <2>1. Log = Upto(write_position) /\ Log' = Upto(write_position')
    BY LogIs, LogIsNext DEF IInv
  <2>2. write_position \in Nat
    BY DEF IInv, TypeOK
  <2>3. QED
    BY <2>1, <2>2, UptoAppend
<1>2. DOMAIN pc = Threads
  BY DEF IInv, PcTyped
<1>3. ASSUME UNCHANGED <<write_position, view>>,
             \A r \in Readers : pc'[r] = "done" <=> pc[r] = "done"
      PROVE  UNCHANGED Snapshot!vars
  BY <1>1, <1>3 DEF Snapshot!vars
<1>4. CASE WriterStep
  <2>1. view' = view /\ \A r \in Readers : pc'[r] = pc[r]
    BY <1>2, <1>4 DEF WriterStep, WriterWhile, WriterLock, WriterCheck, WriteValue,
       AdvancePosition, WriterUnlock, WriterWake, Goto
  <2>2. CASE AdvancePosition
    <3>1. write_position' = write_position + 1 /\ write_position < BUFFER_SIZE
      BY <2>2 DEF AdvancePosition, At, IInv, RoomToWrite
    <3>2. Log' = Append(Log, Len(Log) + 1)
      BY <1>1, <3>1, UptoAppend
    <3>3. QED
      BY <1>1, <2>1, <3>1, <3>2 DEF Snapshot!Next, Snapshot!Publish
  <2>3. CASE ~AdvancePosition
    <3>1. write_position' = write_position
      BY <1>4, <2>3 DEF WriterStep, WriterWhile, WriterLock, WriterCheck, WriteValue,
         WriterUnlock, WriterWake, data
    <3>2. QED
      BY <1>3, <2>1, <3>1
  <2>4. QED
    BY <2>2, <2>3
<1>5. ASSUME NEW r \in Readers, ReaderStep(r)
      PROVE  [Snapshot!Next]_(Snapshot!vars)
  <2>1. write_position' = write_position /\ Log' = Log
    BY <1>1, <1>5 DEF ReaderStep, ReaderLock, PrintCell, EndLine, ReaderLeaves,
       ReaderUnlock, ReaderWake, data
  <2>2. CASE EndLine(r)
    <3>1. view' = [view EXCEPT ![r] = Log]
      BY <1>1, <2>2, LineIsLog DEF EndLine
    <3>2. pc[r] = "scan" /\ pc' = [pc EXCEPT ![r] = "check"]
      BY <2>2 DEF EndLine, At, Goto
    <3>3. Stopped' = Stopped /\ r \notin Stopped
      BY <1>2, <3>2
    <3>4. QED
      BY <2>1, <3>1, <3>3 DEF Snapshot!Next, Snapshot!Show
  <2>3. CASE ReaderLeaves(r)
    <3>1. view' = view /\ pc' = [pc EXCEPT ![r] = "done"]
      BY <2>3 DEF ReaderLeaves, Goto
    <3>2. Len(Log) = BUFFER_SIZE
      BY <1>1, <2>3 DEF ReaderLeaves, WritingIsComplete, IInv, TypeOK
    <3>3. Stopped' = Stopped \cup {r}
      BY <1>2, <3>1
    <3>4. QED
      BY <2>1, <3>1, <3>2, <3>3 DEF Snapshot!Next, Snapshot!Stop
  <2>4. CASE ~EndLine(r) /\ ~ReaderLeaves(r)
    <3>1. view' = view
      BY <1>5, <2>4 DEF ReaderStep, ReaderLock, PrintCell, ReaderUnlock, ReaderWake
    <3>2. \A t \in Readers : pc'[t] = "done" <=> pc[t] = "done"
      BY <1>2, <1>5, <2>4 DEF ReaderStep, ReaderLock, PrintCell, ReaderUnlock, ReaderWake,
         At, Goto
    <3>3. QED
      BY <1>3, <2>1, <3>1, <3>2
  <2>5. QED
    BY <2>2, <2>3, <2>4
<1>6. ASSUME NEW t \in Threads, Cancelled(t)
      PROVE  [Snapshot!Next]_(Snapshot!vars)
  <2>1. UNCHANGED <<write_position, view>>
    BY <1>6 DEF Cancelled, data
  <2>2. \A r \in Readers : pc'[r] = "done" <=> pc[r] = "done"
    BY <1>2, <1>6 DEF Cancelled, CancellationPoints, Goto
  <2>3. QED
    BY <1>3, <2>1, <2>2
<1>7. CASE MainStep
  <2>1. UNCHANGED <<write_position, view>>
    BY <1>7 DEF MainStep, init_sync_resources, CreateWriter, CreateWriterFails,
       CreateReader, CreateReaderFails, CancelWriter, CancelReader, CleanupAfterCancel,
       ReturnFailure, JoinReader, JoinWriter, DisplayFinal, data
  <2>2. \A t \in Readers : pc'[t] = "done" <=> pc[t] = "done"
    <3>1. CASE CreateReader
      <4>1. pc[i] = "unborn" /\ pc' = [pc EXCEPT ![i] = "lock"]
        BY <3>1 DEF CreateReader, Goto, IInv, TypeOK, Unborn, Readers
      <4>2. QED
        BY <1>2, <4>1
    <3>2. CASE ~CreateReader
      BY <1>2, <1>7, <3>2 DEF MainStep, init_sync_resources, CreateWriter,
         CreateWriterFails, CreateReaderFails, CancelWriter, CancelReader,
         CleanupAfterCancel, ReturnFailure, JoinReader, JoinWriter, DisplayFinal, Goto
    <3>3. QED
      BY <3>1, <3>2
  <2>3. QED
    BY <1>3, <2>1, <2>2
<1>8. CASE UNCHANGED vars
  BY <1>3, <1>8 DEF vars, data
<1>9. QED
  BY <1>4, <1>5, <1>6, <1>7, <1>8 DEF Next, Exited

(* The program implements PrefixBuffer, cancelled threads and a destroyed  *)
(* mutex included: each line is what the buffer held at one instant, and a *)
(* reader leaves only when it is full (main.c:48-53, 79-89, 134-141).      *)
THEOREM Refinement == Spec => SnapshotSpec
<1>1. Init => Snapshot!Init
  BY ThreadIds DEF Init, Snapshot!Init, Log
<1>2. IInv /\ IInv' /\ [Next]_vars => [Snapshot!Next]_(Snapshot!vars)
  BY RefinesStep
<1>3. QED
  BY <1>1, <1>2, Invariance, PTL DEF Spec, SnapshotSpec, Snapshot!Spec
=============================================================================
