------------------------ MODULE RwLockBuffer_proofs ------------------------
(***************************************************************************)
(* The read-write lock of lab10_rwlock keeps the writer away from readers  *)
(* that may overlap, for any number of readers and any array size.         *)
(***************************************************************************)
EXTENDS RwLockBuffer, SequenceTheorems, TLAPS

WriterInside == {"store", "count", "unlock", "finish", "finish_unlock"}
ReaderInside == {"test", "scan", "unlock"}

PcTyped ==
  /\ pc \in [Threads -> WriterPCs \cup ReaderPCs]
  /\ pc[Writer] \in WriterPCs
  /\ \A r \in Readers : pc[r] \in ReaderPCs

(* Who is inside holds the lock, and the writer shares it with nobody.     *)
Exclusion ==
  /\ pc[Writer] \in WriterInside => Writer \in rwlock
  /\ \A r \in Readers : pc[r] \in ReaderInside => r \in rwlock
  /\ Writer \in rwlock => rwlock = {Writer}

(* main creates the threads in order.                                      *)
Unborn ==
  /\ main \in {"init", "create_writer"} => \A t \in Threads : pc[t] = "unborn"
  /\ main \in {"init", "create_writer"} => next = 1
  /\ main = "create_readers" => \A r \in Readers : r >= next => pc[r] = "unborn"

(* Room is tested under the lock that the element is then stored under.    *)
RoomToWrite == pc[Writer] \in {"store", "count"} => write_counter < ARRAY_SIZE

(* What a reader has of its line are the first cells of the array.         *)
LinesAreTrue ==
  \A r \in Readers :
    /\ pc[r] # "scan" => index[r] = 0 /\ line[r] = <<>>
    /\ Len(line[r]) = IF index[r] < write_counter THEN index[r] ELSE write_counter
    /\ \A k \in 1..Len(line[r]) : line[r][k] = shared_array[k - 1]

(* The writer sets the flag while no reader is at its line.                *)
NobodyAfterFinish == read_finished => \A r \in Readers : pc[r] # "scan"

(* An element is stored before it is counted, and all of them before the   *)
(* writer asks for the lock a last time.                                   *)
BufferFilled ==
  /\ \A k \in 0..ARRAY_SIZE - 1 : k < write_counter => shared_array[k] = k + 1
  /\ pc[Writer] = "count" => shared_array[write_counter] = write_counter + 1
FullAtFinish ==
  read_finished \/ pc[Writer] \in {"finish_wrlock", "finish", "finish_unlock", "done"}
    => write_counter = ARRAY_SIZE

IInv ==
  /\ TypeOK /\ PcTyped /\ Exclusion /\ Unborn /\ RoomToWrite /\ LinesAreTrue
  /\ NobodyAfterFinish /\ BufferFilled /\ FullAtFinish

USE RwLockAssumption

LEMMA ThreadIds ==
  /\ Writer \notin Readers /\ Writer \in Threads
  /\ \A r \in Readers : r \in Threads /\ r # Writer
  /\ Threads = Readers \cup {Writer}
BY DEF Readers, Writer, Threads

LEMMA NextReader ==
  1 \in Readers /\ \A r \in Readers : r < NUM_READERS => r + 1 \in Readers
BY DEF Readers

LEMMA InitIInv == Init => IInv
<1> SUFFICES ASSUME Init PROVE IInv
  OBVIOUS
<1> USE ThreadIds DEF Init
<1>1. PcTyped
  BY DEF PcTyped, WriterPCs, ReaderPCs
<1>2. TypeOK
  <2>1. pc \in [Threads -> WriterPCs \cup ReaderPCs]
    BY DEF WriterPCs
  <2>2. /\ shared_array \in [0..ARRAY_SIZE - 1 -> 0..ARRAY_SIZE]
        /\ write_counter \in 0..ARRAY_SIZE
    OBVIOUS
  <2>3. /\ index \in [Readers -> 0..ARRAY_SIZE - 1]
        /\ line \in [Readers -> Seq(0..ARRAY_SIZE)]
        /\ view \in [Readers -> Seq(0..ARRAY_SIZE)]
    OBVIOUS
  <2>4. main \in MainPCs /\ next \in Readers
    BY DEF MainPCs, Readers
  <2>5. QED
    BY <2>1, <2>2, <2>3, <2>4 DEF TypeOK
<1>3. Exclusion /\ Unborn /\ RoomToWrite /\ NobodyAfterFinish
  BY DEF Exclusion, Unborn, RoomToWrite, NobodyAfterFinish, WriterInside, ReaderInside
<1>4. LinesAreTrue
  BY DEF LinesAreTrue
<1>5. BufferFilled /\ FullAtFinish
  BY DEF BufferFilled, FullAtFinish
<1>6. QED
  BY <1>1, <1>2, <1>3, <1>4, <1>5 DEF IInv

(* One more cell on the line of a reader.                                  *)
LEMMA FormattedIs ==
  ASSUME TypeOK, LinesAreTrue, NEW r \in Readers
  PROVE  /\ Formatted(r) \in Seq(0..ARRAY_SIZE)
         /\ Len(Formatted(r)) =
              IF index[r] + 1 < write_counter THEN index[r] + 1 ELSE write_counter
         /\ \A k \in 1..Len(Formatted(r)) : Formatted(r)[k] = shared_array[k - 1]
<1>1. /\ line[r] \in Seq(0..ARRAY_SIZE) /\ index[r] \in 0..ARRAY_SIZE - 1
      /\ write_counter \in 0..ARRAY_SIZE /\ shared_array[index[r]] \in 0..ARRAY_SIZE
  BY DEF TypeOK
<1>2. /\ Len(line[r]) = IF index[r] < write_counter THEN index[r] ELSE write_counter
      /\ \A k \in 1..Len(line[r]) : line[r][k] = shared_array[k - 1]
  BY DEF LinesAreTrue
<1>3. CASE index[r] < write_counter
  <2>1. Formatted(r) = Append(line[r], shared_array[index[r]])
    BY <1>3 DEF Formatted
  <2>2. Len(Formatted(r)) = index[r] + 1 /\ Formatted(r) \in Seq(0..ARRAY_SIZE)
    BY <1>1, <1>2, <1>3, <2>1
  <2>3. \A k \in 1..index[r] + 1 :
          Formatted(r)[k] = IF k = index[r] + 1 THEN shared_array[index[r]] ELSE line[r][k]
    BY <1>1, <1>2, <1>3, <2>1
  <2>4. ASSUME NEW k \in 1..index[r] + 1 PROVE Formatted(r)[k] = shared_array[k - 1]
    <3>1. CASE k = index[r] + 1
      BY <1>1, <2>3, <3>1
    <3>2. CASE k # index[r] + 1
      <4>1. k \in 1..Len(line[r])
        BY <1>1, <1>2, <1>3, <3>2
      <4>2. QED
        BY <1>2, <2>3, <3>2, <4>1
    <3>3. QED
      BY <3>1, <3>2
  <2>5. index[r] + 1 = IF index[r] + 1 < write_counter THEN index[r] + 1 ELSE write_counter
    BY <1>1, <1>3
  <2>6. QED
    BY <2>2, <2>4, <2>5
<1>4. CASE ~(index[r] < write_counter)
  BY <1>1, <1>2, <1>4 DEF Formatted
<1>5. QED
  BY <1>3, <1>4

(* One lemma per part of the invariant: every step keeps it.               *)
LEMMA PcStep ==
  ASSUME TypeOK, PcTyped, [Next]_vars
  PROVE  PcTyped'
<1> USE ThreadIds DEF PcTyped, TypeOK, Goto, WriterPCs, ReaderPCs, data, scan
<1>1. ASSUME WriterWhile PROVE PcTyped'
  BY <1>1 DEF WriterWhile, MoreToWrite
<1>2. ASSUME WriterLock PROVE PcTyped'
  BY <1>2 DEF WriterLock, pthread_rwlock_wrlock, MoreToWrite
<1>3. ASSUME StoreElement PROVE PcTyped'
  BY <1>3 DEF StoreElement
<1>4. ASSUME CountElement PROVE PcTyped'
  BY <1>4 DEF CountElement
<1>5. ASSUME WriterUnlock PROVE PcTyped'
  BY <1>5 DEF WriterUnlock, pthread_rwlock_unlock
<1>6. ASSUME FinishLock PROVE PcTyped'
  BY <1>6 DEF FinishLock, pthread_rwlock_wrlock
<1>7. ASSUME Finish PROVE PcTyped'
  BY <1>7 DEF Finish
<1>8. ASSUME FinishUnlock PROVE PcTyped'
  BY <1>8 DEF FinishUnlock, pthread_rwlock_unlock
<1>9. ASSUME NEW r \in Readers, ReaderLock(r) PROVE PcTyped'
  BY <1>9 DEF ReaderLock, pthread_rwlock_rdlock
<1>10. ASSUME NEW r \in Readers, ReaderExit(r) PROVE PcTyped'
  BY <1>10 DEF ReaderExit, pthread_rwlock_unlock
<1>11. ASSUME NEW r \in Readers, StartLine(r) PROVE PcTyped'
  BY <1>11 DEF StartLine
<1>12. ASSUME NEW r \in Readers, FormatCell(r) PROVE PcTyped'
  BY <1>12 DEF FormatCell, Formatted
<1>13. ASSUME NEW r \in Readers, PrintLine(r) PROVE PcTyped'
  BY <1>13 DEF PrintLine, Formatted
<1>14. ASSUME NEW r \in Readers, ReaderUnlock(r) PROVE PcTyped'
  BY <1>14 DEF ReaderUnlock, pthread_rwlock_unlock
<1>15. ASSUME InitLock PROVE PcTyped'
  BY <1>15 DEF InitLock
<1>16. ASSUME CreateWriter PROVE PcTyped'
  BY <1>16 DEF CreateWriter
<1>17. ASSUME CreateReader PROVE PcTyped'
  BY <1>17 DEF CreateReader
<1>18. ASSUME CreateFails PROVE PcTyped'
  BY <1>18 DEF CreateFails
<1>19. ASSUME ReturnFailure PROVE PcTyped'
  BY <1>19 DEF ReturnFailure
<1>20. ASSUME JoinReader PROVE PcTyped'
  BY <1>20 DEF JoinReader
<1>21. ASSUME JoinWriter PROVE PcTyped'
  BY <1>21 DEF JoinWriter
<1>22. ASSUME Return PROVE PcTyped'
  BY <1>22 DEF Return
<1>23. CASE UNCHANGED vars
  BY <1>23 DEF vars
<1>24. QED
  BY <1>1, <1>2, <1>3, <1>4, <1>5, <1>6, <1>7, <1>8, <1>9, <1>10, <1>11, <1>12, <1>13,
     <1>14, <1>15, <1>16, <1>17, <1>18, <1>19, <1>20, <1>21, <1>22, <1>23
     DEF Next, WriterStep, ReaderStep, MainStep, Exited

LEMMA ExclusionStep ==
  ASSUME PcTyped, TypeOK, Unborn, Exclusion, [Next]_vars
  PROVE  Exclusion'
<1> USE ThreadIds DEF PcTyped, Exclusion, WriterInside, ReaderInside, Goto, At, data, scan
<1>1. ASSUME WriterWhile PROVE Exclusion'
  BY <1>1 DEF WriterWhile, MoreToWrite
<1>2. ASSUME WriterLock PROVE Exclusion'
  BY <1>2 DEF WriterLock, pthread_rwlock_wrlock, MoreToWrite
<1>3. ASSUME StoreElement PROVE Exclusion'
  BY <1>3 DEF StoreElement
<1>4. ASSUME CountElement PROVE Exclusion'
  BY <1>4 DEF CountElement
<1>5. ASSUME WriterUnlock PROVE Exclusion'
  BY <1>5 DEF WriterUnlock, pthread_rwlock_unlock
<1>6. ASSUME FinishLock PROVE Exclusion'
  BY <1>6 DEF FinishLock, pthread_rwlock_wrlock
<1>7. ASSUME Finish PROVE Exclusion'
  BY <1>7 DEF Finish
<1>8. ASSUME FinishUnlock PROVE Exclusion'
  BY <1>8 DEF FinishUnlock, pthread_rwlock_unlock
<1>9. ASSUME NEW r \in Readers, ReaderLock(r) PROVE Exclusion'
  BY <1>9 DEF ReaderLock, pthread_rwlock_rdlock
<1>10. ASSUME NEW r \in Readers, ReaderExit(r) PROVE Exclusion'
  BY <1>10 DEF ReaderExit, pthread_rwlock_unlock
<1>11. ASSUME NEW r \in Readers, StartLine(r) PROVE Exclusion'
  BY <1>11 DEF StartLine
<1>12. ASSUME NEW r \in Readers, FormatCell(r) PROVE Exclusion'
  BY <1>12 DEF FormatCell, Formatted
<1>13. ASSUME NEW r \in Readers, PrintLine(r) PROVE Exclusion'
  BY <1>13 DEF PrintLine, Formatted
<1>14. ASSUME NEW r \in Readers, ReaderUnlock(r) PROVE Exclusion'
  BY <1>14 DEF ReaderUnlock, pthread_rwlock_unlock
<1>15. ASSUME InitLock PROVE Exclusion'
  BY <1>15 DEF InitLock
<1>16. ASSUME CreateWriter PROVE Exclusion'
  BY <1>16 DEF CreateWriter, Unborn
<1>17. ASSUME CreateReader PROVE Exclusion'
  BY <1>17 DEF CreateReader, TypeOK, Unborn
<1>18. ASSUME CreateFails PROVE Exclusion'
  BY <1>18 DEF CreateFails
<1>19. ASSUME ReturnFailure PROVE Exclusion'
  BY <1>19 DEF ReturnFailure
<1>20. ASSUME JoinReader PROVE Exclusion'
  BY <1>20 DEF JoinReader
<1>21. ASSUME JoinWriter PROVE Exclusion'
  BY <1>21 DEF JoinWriter
<1>22. ASSUME Return PROVE Exclusion'
  BY <1>22 DEF Return
<1>23. CASE UNCHANGED vars
  BY <1>23 DEF vars
<1>24. QED
  BY <1>1, <1>2, <1>3, <1>4, <1>5, <1>6, <1>7, <1>8, <1>9, <1>10, <1>11, <1>12, <1>13,
     <1>14, <1>15, <1>16, <1>17, <1>18, <1>19, <1>20, <1>21, <1>22, <1>23
     DEF Next, WriterStep, ReaderStep, MainStep, Exited

LEMMA UnbornStep ==
  ASSUME PcTyped, TypeOK, Unborn, [Next]_vars
  PROVE  Unborn'
<1> USE ThreadIds DEF PcTyped, Unborn, Goto, At, data, scan
<1>1. ASSUME WriterWhile PROVE Unborn'
  BY <1>1 DEF WriterWhile, MoreToWrite
<1>2. ASSUME WriterLock PROVE Unborn'
  BY <1>2 DEF WriterLock, pthread_rwlock_wrlock, MoreToWrite
<1>3. ASSUME StoreElement PROVE Unborn'
  BY <1>3 DEF StoreElement
<1>4. ASSUME CountElement PROVE Unborn'
  BY <1>4 DEF CountElement
<1>5. ASSUME WriterUnlock PROVE Unborn'
  BY <1>5 DEF WriterUnlock, pthread_rwlock_unlock
<1>6. ASSUME FinishLock PROVE Unborn'
  BY <1>6 DEF FinishLock, pthread_rwlock_wrlock
<1>7. ASSUME Finish PROVE Unborn'
  BY <1>7 DEF Finish
<1>8. ASSUME FinishUnlock PROVE Unborn'
  BY <1>8 DEF FinishUnlock, pthread_rwlock_unlock
<1>9. ASSUME NEW r \in Readers, ReaderLock(r) PROVE Unborn'
  BY <1>9 DEF ReaderLock, pthread_rwlock_rdlock
<1>10. ASSUME NEW r \in Readers, ReaderExit(r) PROVE Unborn'
  BY <1>10 DEF ReaderExit, pthread_rwlock_unlock
<1>11. ASSUME NEW r \in Readers, StartLine(r) PROVE Unborn'
  BY <1>11 DEF StartLine
<1>12. ASSUME NEW r \in Readers, FormatCell(r) PROVE Unborn'
  BY <1>12 DEF FormatCell, Formatted
<1>13. ASSUME NEW r \in Readers, PrintLine(r) PROVE Unborn'
  BY <1>13 DEF PrintLine, Formatted
<1>14. ASSUME NEW r \in Readers, ReaderUnlock(r) PROVE Unborn'
  BY <1>14 DEF ReaderUnlock, pthread_rwlock_unlock
<1>15. ASSUME InitLock PROVE Unborn'
  BY <1>15 DEF InitLock
<1>16. ASSUME CreateWriter PROVE Unborn'
  BY <1>16 DEF CreateWriter, TypeOK, Readers
<1>17. ASSUME CreateReader PROVE Unborn'
  <2>1. next \in 1..NUM_READERS /\ \A r \in Readers : r \in Int
    BY DEF TypeOK, Readers
  <2>2. CASE next < NUM_READERS
    <3>1. /\ main' = "create_readers" /\ next' = next + 1
          /\ \A r \in Readers \ {next} : pc'[r] = pc[r]
      BY <1>17, <2>2 DEF CreateReader
    <3>2. QED
      BY <1>17, <2>1, <3>1 DEF CreateReader
  <2>3. CASE ~(next < NUM_READERS)
    BY <1>17, <2>3 DEF CreateReader
  <2>4. QED
    BY <2>2, <2>3
<1>18. ASSUME CreateFails PROVE Unborn'
  BY <1>18 DEF CreateFails
<1>19. ASSUME ReturnFailure PROVE Unborn'
  BY <1>19 DEF ReturnFailure
<1>20. ASSUME JoinReader PROVE Unborn'
  BY <1>20 DEF JoinReader
<1>21. ASSUME JoinWriter PROVE Unborn'
  BY <1>21 DEF JoinWriter
<1>22. ASSUME Return PROVE Unborn'
  BY <1>22 DEF Return
<1>23. CASE UNCHANGED vars
  BY <1>23 DEF vars
<1>24. QED
  BY <1>1, <1>2, <1>3, <1>4, <1>5, <1>6, <1>7, <1>8, <1>9, <1>10, <1>11, <1>12, <1>13,
     <1>14, <1>15, <1>16, <1>17, <1>18, <1>19, <1>20, <1>21, <1>22, <1>23
     DEF Next, WriterStep, ReaderStep, MainStep, Exited

LEMMA RoomStep ==
  ASSUME PcTyped, TypeOK, RoomToWrite, [Next]_vars
  PROVE  RoomToWrite'
<1> USE ThreadIds DEF PcTyped, RoomToWrite, Goto, At, TypeOK, data, scan
<1>1. ASSUME WriterWhile PROVE RoomToWrite'
  BY <1>1 DEF WriterWhile, MoreToWrite
<1>2. ASSUME WriterLock PROVE RoomToWrite'
  BY <1>2 DEF WriterLock, pthread_rwlock_wrlock, MoreToWrite
<1>3. ASSUME StoreElement PROVE RoomToWrite'
  BY <1>3 DEF StoreElement
<1>4. ASSUME CountElement PROVE RoomToWrite'
  BY <1>4 DEF CountElement
<1>5. ASSUME WriterUnlock PROVE RoomToWrite'
  BY <1>5 DEF WriterUnlock, pthread_rwlock_unlock
<1>6. ASSUME FinishLock PROVE RoomToWrite'
  BY <1>6 DEF FinishLock, pthread_rwlock_wrlock
<1>7. ASSUME Finish PROVE RoomToWrite'
  BY <1>7 DEF Finish
<1>8. ASSUME FinishUnlock PROVE RoomToWrite'
  BY <1>8 DEF FinishUnlock, pthread_rwlock_unlock
<1>9. ASSUME NEW r \in Readers, ReaderLock(r) PROVE RoomToWrite'
  BY <1>9 DEF ReaderLock, pthread_rwlock_rdlock
<1>10. ASSUME NEW r \in Readers, ReaderExit(r) PROVE RoomToWrite'
  BY <1>10 DEF ReaderExit, pthread_rwlock_unlock
<1>11. ASSUME NEW r \in Readers, StartLine(r) PROVE RoomToWrite'
  BY <1>11 DEF StartLine
<1>12. ASSUME NEW r \in Readers, FormatCell(r) PROVE RoomToWrite'
  BY <1>12 DEF FormatCell, Formatted
<1>13. ASSUME NEW r \in Readers, PrintLine(r) PROVE RoomToWrite'
  BY <1>13 DEF PrintLine, Formatted
<1>14. ASSUME NEW r \in Readers, ReaderUnlock(r) PROVE RoomToWrite'
  BY <1>14 DEF ReaderUnlock, pthread_rwlock_unlock
<1>15. ASSUME InitLock PROVE RoomToWrite'
  BY <1>15 DEF InitLock
<1>16. ASSUME CreateWriter PROVE RoomToWrite'
  BY <1>16 DEF CreateWriter
<1>17. ASSUME CreateReader PROVE RoomToWrite'
  BY <1>17 DEF CreateReader
<1>18. ASSUME CreateFails PROVE RoomToWrite'
  BY <1>18 DEF CreateFails
<1>19. ASSUME ReturnFailure PROVE RoomToWrite'
  BY <1>19 DEF ReturnFailure
<1>20. ASSUME JoinReader PROVE RoomToWrite'
  BY <1>20 DEF JoinReader
<1>21. ASSUME JoinWriter PROVE RoomToWrite'
  BY <1>21 DEF JoinWriter
<1>22. ASSUME Return PROVE RoomToWrite'
  BY <1>22 DEF Return
<1>23. CASE UNCHANGED vars
  BY <1>23 DEF vars
<1>24. QED
  BY <1>1, <1>2, <1>3, <1>4, <1>5, <1>6, <1>7, <1>8, <1>9, <1>10, <1>11, <1>12, <1>13,
     <1>14, <1>15, <1>16, <1>17, <1>18, <1>19, <1>20, <1>21, <1>22, <1>23
     DEF Next, WriterStep, ReaderStep, MainStep, Exited

LEMMA FinishStep ==
  ASSUME PcTyped, TypeOK, Unborn, Exclusion, NobodyAfterFinish, [Next]_vars
  PROVE  NobodyAfterFinish'
<1> USE ThreadIds DEF PcTyped, Exclusion, NobodyAfterFinish, WriterInside, ReaderInside,
       Goto, At, data, scan
<1>1. ASSUME WriterWhile PROVE NobodyAfterFinish'
  BY <1>1 DEF WriterWhile, MoreToWrite
<1>2. ASSUME WriterLock PROVE NobodyAfterFinish'
  BY <1>2 DEF WriterLock, pthread_rwlock_wrlock, MoreToWrite
<1>3. ASSUME StoreElement PROVE NobodyAfterFinish'
  BY <1>3 DEF StoreElement
<1>4. ASSUME CountElement PROVE NobodyAfterFinish'
  BY <1>4 DEF CountElement
<1>5. ASSUME WriterUnlock PROVE NobodyAfterFinish'
  BY <1>5 DEF WriterUnlock, pthread_rwlock_unlock
<1>6. ASSUME FinishLock PROVE NobodyAfterFinish'
  BY <1>6 DEF FinishLock, pthread_rwlock_wrlock
<1>7. ASSUME Finish PROVE NobodyAfterFinish'
  BY <1>7 DEF Finish
<1>8. ASSUME FinishUnlock PROVE NobodyAfterFinish'
  BY <1>8 DEF FinishUnlock, pthread_rwlock_unlock
<1>9. ASSUME NEW r \in Readers, ReaderLock(r) PROVE NobodyAfterFinish'
  BY <1>9 DEF ReaderLock, pthread_rwlock_rdlock
<1>10. ASSUME NEW r \in Readers, ReaderExit(r) PROVE NobodyAfterFinish'
  BY <1>10 DEF ReaderExit, pthread_rwlock_unlock
<1>11. ASSUME NEW r \in Readers, StartLine(r) PROVE NobodyAfterFinish'
  BY <1>11 DEF StartLine
<1>12. ASSUME NEW r \in Readers, FormatCell(r) PROVE NobodyAfterFinish'
  BY <1>12 DEF FormatCell, Formatted
<1>13. ASSUME NEW r \in Readers, PrintLine(r) PROVE NobodyAfterFinish'
  BY <1>13 DEF PrintLine, Formatted
<1>14. ASSUME NEW r \in Readers, ReaderUnlock(r) PROVE NobodyAfterFinish'
  BY <1>14 DEF ReaderUnlock, pthread_rwlock_unlock
<1>15. ASSUME InitLock PROVE NobodyAfterFinish'
  BY <1>15 DEF InitLock
<1>16. ASSUME CreateWriter PROVE NobodyAfterFinish'
  BY <1>16 DEF CreateWriter
<1>17. ASSUME CreateReader PROVE NobodyAfterFinish'
  BY <1>17 DEF CreateReader, TypeOK
<1>18. ASSUME CreateFails PROVE NobodyAfterFinish'
  BY <1>18 DEF CreateFails
<1>19. ASSUME ReturnFailure PROVE NobodyAfterFinish'
  BY <1>19 DEF ReturnFailure
<1>20. ASSUME JoinReader PROVE NobodyAfterFinish'
  BY <1>20 DEF JoinReader
<1>21. ASSUME JoinWriter PROVE NobodyAfterFinish'
  BY <1>21 DEF JoinWriter
<1>22. ASSUME Return PROVE NobodyAfterFinish'
  BY <1>22 DEF Return
<1>23. CASE UNCHANGED vars
  BY <1>23 DEF vars
<1>24. QED
  BY <1>1, <1>2, <1>3, <1>4, <1>5, <1>6, <1>7, <1>8, <1>9, <1>10, <1>11, <1>12, <1>13,
     <1>14, <1>15, <1>16, <1>17, <1>18, <1>19, <1>20, <1>21, <1>22, <1>23
     DEF Next, WriterStep, ReaderStep, MainStep, Exited

(* Lines stay true when neither they nor the array change.                 *)
LinesUntouched ==
  /\ UNCHANGED <<index, line, write_counter, shared_array>>
  /\ \A r \in Readers : pc'[r] # "scan" => pc[r] # "scan"

LEMMA LinesFrame == ASSUME LinesAreTrue, LinesUntouched PROVE LinesAreTrue'
BY DEF LinesAreTrue, LinesUntouched

(* What LinesAreTrue says of one reader, and its value after a step.       *)
TrueLine(r) ==
  /\ pc[r] # "scan" => index[r] = 0 /\ line[r] = <<>>
  /\ Len(line[r]) = IF index[r] < write_counter THEN index[r] ELSE write_counter
  /\ \A k \in 1..Len(line[r]) : line[r][k] = shared_array[k - 1]

LEMMA EachLine == (\A r \in Readers : TrueLine(r)) <=> LinesAreTrue
BY DEF TrueLine, LinesAreTrue

LEMMA EachLineNext == (\A r \in Readers : TrueLine(r)') <=> LinesAreTrue'
BY DEF TrueLine, LinesAreTrue

LEMMA LineFrame ==
  ASSUME NEW r \in Readers, TrueLine(r), UNCHANGED <<write_counter, shared_array>>,
         index'[r] = index[r], line'[r] = line[r], pc'[r] = pc[r]
  PROVE  TrueLine(r)'
BY DEF TrueLine

LEMMA LinesStep ==
  ASSUME PcTyped, TypeOK, Unborn, Exclusion, RoomToWrite, LinesAreTrue, [Next]_vars
  PROVE  LinesAreTrue'
<1>0. LinesUntouched => LinesAreTrue'
  BY LinesFrame
<1>1. ASSUME WriterWhile PROVE LinesAreTrue'
  BY <1>0, <1>1, ThreadIds
     DEF WriterWhile, MoreToWrite, LinesUntouched, At, Goto, data, scan, PcTyped
<1>2. ASSUME WriterLock PROVE LinesAreTrue'
  BY <1>0, <1>2, ThreadIds
     DEF WriterLock, pthread_rwlock_wrlock, MoreToWrite, LinesUntouched, At, Goto, data, scan, PcTyped
<1>3. ASSUME StoreElement PROVE LinesAreTrue'
  <2>1. \A r \in Readers : pc[r] # "scan"
    BY <1>3, ThreadIds DEF StoreElement, At, Exclusion, PcTyped, WriterInside, ReaderInside
  <2>2. /\ UNCHANGED <<index, line>> /\ \A r \in Readers : pc'[r] = pc[r]
        /\ write_counter \in Nat /\ write_counter' \in Nat
    BY <1>3, ThreadIds DEF StoreElement, At, Goto, scan, PcTyped, TypeOK
  <2>3. ASSUME NEW r \in Readers PROVE TrueLine(r)'
    <3>1. index'[r] = 0 /\ line'[r] = <<>>
      BY <2>1, <2>2 DEF LinesAreTrue
    <3>2. Len(<<>>) = 0
      OBVIOUS
    <3>3. QED
      BY ONLY <2>2, <3>1, <3>2 DEF TrueLine
  <2>4. QED
    BY <2>3, EachLineNext
<1>4. ASSUME CountElement PROVE LinesAreTrue'
  <2>1. \A r \in Readers : pc[r] # "scan"
    BY <1>4, ThreadIds DEF CountElement, At, Exclusion, PcTyped, WriterInside, ReaderInside
  <2>2. /\ UNCHANGED <<index, line>> /\ \A r \in Readers : pc'[r] = pc[r]
        /\ write_counter \in Nat /\ write_counter' \in Nat
    BY <1>4, ThreadIds DEF CountElement, At, Goto, scan, PcTyped, TypeOK
  <2>3. ASSUME NEW r \in Readers PROVE TrueLine(r)'
    <3>1. index'[r] = 0 /\ line'[r] = <<>>
      BY <2>1, <2>2 DEF LinesAreTrue
    <3>2. Len(<<>>) = 0
      OBVIOUS
    <3>3. QED
      BY ONLY <2>2, <3>1, <3>2 DEF TrueLine
  <2>4. QED
    BY <2>3, EachLineNext
<1>5. ASSUME WriterUnlock PROVE LinesAreTrue'
  BY <1>0, <1>5, ThreadIds
     DEF WriterUnlock, pthread_rwlock_unlock, LinesUntouched, At, Goto, data, scan, PcTyped
<1>6. ASSUME FinishLock PROVE LinesAreTrue'
  BY <1>0, <1>6, ThreadIds
     DEF FinishLock, pthread_rwlock_wrlock, LinesUntouched, At, Goto, data, scan, PcTyped
<1>7. ASSUME Finish PROVE LinesAreTrue'
  BY <1>0, <1>7, ThreadIds
     DEF Finish, LinesUntouched, At, Goto, data, scan, PcTyped
<1>8. ASSUME FinishUnlock PROVE LinesAreTrue'
  BY <1>0, <1>8, ThreadIds
     DEF FinishUnlock, pthread_rwlock_unlock, LinesUntouched, At, Goto, data, scan, PcTyped
<1>9. ASSUME NEW r \in Readers, ReaderLock(r) PROVE LinesAreTrue'
  BY <1>0, <1>9, ThreadIds
     DEF ReaderLock, pthread_rwlock_rdlock, LinesUntouched, At, Goto, data, scan, PcTyped
<1>10. ASSUME NEW r \in Readers, ReaderExit(r) PROVE LinesAreTrue'
  BY <1>0, <1>10, ThreadIds
     DEF ReaderExit, pthread_rwlock_unlock, LinesUntouched, At, Goto, data, scan, PcTyped
<1>11. ASSUME NEW r \in Readers, StartLine(r) PROVE LinesAreTrue'
  BY <1>0, <1>11, ThreadIds
     DEF StartLine, LinesUntouched, At, Goto, data, scan, PcTyped
<1>12. ASSUME NEW r \in Readers, FormatCell(r) PROVE LinesAreTrue'
  <2>1. /\ line'[r] = Formatted(r) /\ index'[r] = index[r] + 1 /\ pc'[r] = "scan"
        /\ UNCHANGED <<write_counter, shared_array>>
        /\ \A t \in Readers \ {r} :
             index'[t] = index[t] /\ line'[t] = line[t] /\ pc'[t] = pc[t]
    BY <1>12 DEF FormatCell, At, data, TypeOK
  <2>2. /\ Len(Formatted(r)) =
             IF index[r] + 1 < write_counter THEN index[r] + 1 ELSE write_counter
        /\ \A k \in 1..Len(Formatted(r)) : Formatted(r)[k] = shared_array[k - 1]
    BY FormattedIs
  <2>3. TrueLine(r)'
    BY ONLY <2>1, <2>2 DEF TrueLine
  <2>4. ASSUME NEW t \in Readers \ {r} PROVE TrueLine(t)'
    BY <2>1, LineFrame, EachLine
  <2>5. QED
    BY <2>3, <2>4, EachLineNext
<1>13. ASSUME NEW r \in Readers, PrintLine(r) PROVE LinesAreTrue'
  <2>1. /\ line'[r] = <<>> /\ index'[r] = 0 /\ write_counter' \in Nat
        /\ UNCHANGED <<write_counter, shared_array>>
        /\ \A t \in Readers \ {r} :
             index'[t] = index[t] /\ line'[t] = line[t] /\ pc'[t] = pc[t]
    BY <1>13, ThreadIds DEF PrintLine, At, Goto, data, TypeOK, PcTyped
  <2>2. Len(<<>>) = 0
    OBVIOUS
  <2>3. TrueLine(r)'
    BY ONLY <2>1, <2>2 DEF TrueLine
  <2>4. ASSUME NEW t \in Readers \ {r} PROVE TrueLine(t)'
    BY <2>1, LineFrame, EachLine
  <2>5. QED
    BY <2>3, <2>4, EachLineNext
<1>14. ASSUME NEW r \in Readers, ReaderUnlock(r) PROVE LinesAreTrue'
  BY <1>0, <1>14, ThreadIds
     DEF ReaderUnlock, pthread_rwlock_unlock, LinesUntouched, At, Goto, data, scan, PcTyped
<1>15. ASSUME InitLock PROVE LinesAreTrue'
  BY <1>0, <1>15, ThreadIds
     DEF InitLock, LinesUntouched, At, Goto, data, scan, PcTyped
<1>16. ASSUME CreateWriter PROVE LinesAreTrue'
  BY <1>0, <1>16, ThreadIds
     DEF CreateWriter, LinesUntouched, At, Goto, data, scan, PcTyped
<1>17. ASSUME CreateReader PROVE LinesAreTrue'
  <2>1. pc[next] = "unborn" /\ next \in Readers
    BY <1>17, ThreadIds DEF CreateReader, Unborn, TypeOK, Readers
  <2>2. \A r \in Readers : pc'[r] # "scan" => pc[r] # "scan"
    BY <1>17, <2>1, ThreadIds DEF CreateReader, Goto, PcTyped
  <2>3. QED
    BY <1>0, <1>17, <2>2 DEF CreateReader, LinesUntouched, data, scan
<1>18. ASSUME CreateFails PROVE LinesAreTrue'
  BY <1>0, <1>18, ThreadIds
     DEF CreateFails, LinesUntouched, At, Goto, data, scan, PcTyped
<1>19. ASSUME ReturnFailure PROVE LinesAreTrue'
  BY <1>0, <1>19, ThreadIds
     DEF ReturnFailure, LinesUntouched, At, Goto, data, scan, PcTyped
<1>20. ASSUME JoinReader PROVE LinesAreTrue'
  BY <1>0, <1>20, ThreadIds
     DEF JoinReader, LinesUntouched, At, Goto, data, scan, PcTyped
<1>21. ASSUME JoinWriter PROVE LinesAreTrue'
  BY <1>0, <1>21, ThreadIds
     DEF JoinWriter, LinesUntouched, At, Goto, data, scan, PcTyped
<1>22. ASSUME Return PROVE LinesAreTrue'
  BY <1>0, <1>22, ThreadIds
     DEF Return, LinesUntouched, At, Goto, data, scan, PcTyped
<1>23. CASE UNCHANGED vars
  BY <1>0, <1>23 DEF LinesUntouched, vars, data, scan
<1>24. QED
  BY <1>1, <1>2, <1>3, <1>4, <1>5, <1>6, <1>7, <1>8, <1>9, <1>10, <1>11, <1>12, <1>13,
     <1>14, <1>15, <1>16, <1>17, <1>18, <1>19, <1>20, <1>21, <1>22, <1>23
     DEF Next, WriterStep, ReaderStep, MainStep, Exited

LEMMA TypeStep ==
  ASSUME PcTyped, PcTyped', TypeOK, Unborn, RoomToWrite, LinesAreTrue, [Next]_vars
  PROVE  TypeOK'
<1> USE ThreadIds DEF PcTyped, TypeOK, At, MainPCs, data, scan
<1>1. ASSUME WriterWhile PROVE TypeOK'
  BY <1>1 DEF WriterWhile, MoreToWrite
<1>2. ASSUME WriterLock PROVE TypeOK'
  BY <1>2 DEF WriterLock, pthread_rwlock_wrlock, MoreToWrite
<1>3. ASSUME StoreElement PROVE TypeOK'
  <2>1. write_counter + 1 \in 0..ARRAY_SIZE
    BY <1>3 DEF StoreElement, RoomToWrite
  <2>2. QED
    BY <1>3, <2>1 DEF StoreElement
<1>4. ASSUME CountElement PROVE TypeOK'
  <2>1. write_counter + 1 \in 0..ARRAY_SIZE
    BY <1>4 DEF CountElement, RoomToWrite
  <2>2. QED
    BY <1>4, <2>1 DEF CountElement
<1>5. ASSUME WriterUnlock PROVE TypeOK'
  BY <1>5 DEF WriterUnlock, pthread_rwlock_unlock
<1>6. ASSUME FinishLock PROVE TypeOK'
  BY <1>6 DEF FinishLock, pthread_rwlock_wrlock
<1>7. ASSUME Finish PROVE TypeOK'
  BY <1>7 DEF Finish
<1>8. ASSUME FinishUnlock PROVE TypeOK'
  BY <1>8 DEF FinishUnlock, pthread_rwlock_unlock
<1>9. ASSUME NEW r \in Readers, ReaderLock(r) PROVE TypeOK'
  BY <1>9 DEF ReaderLock, pthread_rwlock_rdlock
<1>10. ASSUME NEW r \in Readers, ReaderExit(r) PROVE TypeOK'
  BY <1>10 DEF ReaderExit, pthread_rwlock_unlock
<1>11. ASSUME NEW r \in Readers, StartLine(r) PROVE TypeOK'
  BY <1>11 DEF StartLine
<1>12. ASSUME NEW r \in Readers, FormatCell(r) PROVE TypeOK'
  <2>1. index[r] + 1 \in 0..ARRAY_SIZE - 1
    <3>1. index[r] \in 0..ARRAY_SIZE - 1 /\ index[r] + 1 < ARRAY_SIZE
      BY <1>12 DEF FormatCell
    <3>2. QED
      BY ONLY RwLockAssumption, <3>1
  <2>2. Formatted(r) \in Seq(0..ARRAY_SIZE)
    BY FormattedIs
  <2>3. QED
    BY <1>12, <2>1, <2>2 DEF FormatCell
<1>13. ASSUME NEW r \in Readers, PrintLine(r) PROVE TypeOK'
  <2>1. Formatted(r) \in Seq(0..ARRAY_SIZE)
    BY FormattedIs
  <2>2. view' \in [Readers -> Seq(0..ARRAY_SIZE)]
    BY <1>13, <2>1 DEF PrintLine
  <2>3. index' \in [Readers -> 0..ARRAY_SIZE - 1] /\ line' \in [Readers -> Seq(0..ARRAY_SIZE)]
    BY <1>13 DEF PrintLine
  <2>4. UNCHANGED <<shared_array, write_counter, read_finished, rwlock, main, next>>
    BY <1>13 DEF PrintLine
  <2>5. QED
    BY <2>2, <2>3, <2>4
<1>14. ASSUME NEW r \in Readers, ReaderUnlock(r) PROVE TypeOK'
  BY <1>14 DEF ReaderUnlock, pthread_rwlock_unlock
<1>15. ASSUME InitLock PROVE TypeOK'
  BY <1>15 DEF InitLock
<1>16. ASSUME CreateWriter PROVE TypeOK'
  BY <1>16 DEF CreateWriter
<1>17. ASSUME CreateReader PROVE TypeOK'
  <2>1. next' \in Readers
    BY <1>17, NextReader DEF CreateReader
  <2>2. QED
    BY <1>17, <2>1 DEF CreateReader
<1>18. ASSUME CreateFails PROVE TypeOK'
  BY <1>18 DEF CreateFails
<1>19. ASSUME ReturnFailure PROVE TypeOK'
  BY <1>19 DEF ReturnFailure
<1>20. ASSUME JoinReader PROVE TypeOK'
  <2>1. next' \in Readers
    BY <1>20, NextReader DEF JoinReader
  <2>2. QED
    BY <1>20, <2>1 DEF JoinReader
<1>21. ASSUME JoinWriter PROVE TypeOK'
  BY <1>21 DEF JoinWriter
<1>22. ASSUME Return PROVE TypeOK'
  BY <1>22 DEF Return
<1>23. CASE UNCHANGED vars
  BY <1>23 DEF vars
<1>24. QED
  BY <1>1, <1>2, <1>3, <1>4, <1>5, <1>6, <1>7, <1>8, <1>9, <1>10, <1>11, <1>12, <1>13,
     <1>14, <1>15, <1>16, <1>17, <1>18, <1>19, <1>20, <1>21, <1>22, <1>23
     DEF Next, WriterStep, ReaderStep, MainStep, Exited

LEMMA FilledStep ==
  ASSUME PcTyped, TypeOK, RoomToWrite, BufferFilled, [Next]_vars
  PROVE  BufferFilled'
<1> USE ThreadIds DEF PcTyped, BufferFilled, RoomToWrite, Goto, At, TypeOK, data, scan
<1>1. ASSUME WriterWhile PROVE BufferFilled'
  BY <1>1 DEF WriterWhile, MoreToWrite
<1>2. ASSUME WriterLock PROVE BufferFilled'
  BY <1>2 DEF WriterLock, pthread_rwlock_wrlock, MoreToWrite
<1>3. ASSUME StoreElement PROVE BufferFilled'
  BY <1>3 DEF StoreElement
<1>4. ASSUME CountElement PROVE BufferFilled'
  BY <1>4 DEF CountElement
<1>5. ASSUME WriterUnlock PROVE BufferFilled'
  BY <1>5 DEF WriterUnlock, pthread_rwlock_unlock
<1>6. ASSUME FinishLock PROVE BufferFilled'
  BY <1>6 DEF FinishLock, pthread_rwlock_wrlock
<1>7. ASSUME Finish PROVE BufferFilled'
  BY <1>7 DEF Finish
<1>8. ASSUME FinishUnlock PROVE BufferFilled'
  BY <1>8 DEF FinishUnlock, pthread_rwlock_unlock
<1>9. ASSUME NEW r \in Readers, ReaderLock(r) PROVE BufferFilled'
  BY <1>9 DEF ReaderLock, pthread_rwlock_rdlock
<1>10. ASSUME NEW r \in Readers, ReaderExit(r) PROVE BufferFilled'
  BY <1>10 DEF ReaderExit, pthread_rwlock_unlock
<1>11. ASSUME NEW r \in Readers, StartLine(r) PROVE BufferFilled'
  BY <1>11 DEF StartLine
<1>12. ASSUME NEW r \in Readers, FormatCell(r) PROVE BufferFilled'
  BY <1>12 DEF FormatCell, Formatted
<1>13. ASSUME NEW r \in Readers, PrintLine(r) PROVE BufferFilled'
  BY <1>13 DEF PrintLine, Formatted
<1>14. ASSUME NEW r \in Readers, ReaderUnlock(r) PROVE BufferFilled'
  BY <1>14 DEF ReaderUnlock, pthread_rwlock_unlock
<1>15. ASSUME InitLock PROVE BufferFilled'
  BY <1>15 DEF InitLock
<1>16. ASSUME CreateWriter PROVE BufferFilled'
  BY <1>16 DEF CreateWriter
<1>17. ASSUME CreateReader PROVE BufferFilled'
  BY <1>17 DEF CreateReader
<1>18. ASSUME CreateFails PROVE BufferFilled'
  BY <1>18 DEF CreateFails
<1>19. ASSUME ReturnFailure PROVE BufferFilled'
  BY <1>19 DEF ReturnFailure
<1>20. ASSUME JoinReader PROVE BufferFilled'
  BY <1>20 DEF JoinReader
<1>21. ASSUME JoinWriter PROVE BufferFilled'
  BY <1>21 DEF JoinWriter
<1>22. ASSUME Return PROVE BufferFilled'
  BY <1>22 DEF Return
<1>23. CASE UNCHANGED vars
  BY <1>23 DEF vars
<1>24. QED
  BY <1>1, <1>2, <1>3, <1>4, <1>5, <1>6, <1>7, <1>8, <1>9, <1>10, <1>11, <1>12, <1>13,
     <1>14, <1>15, <1>16, <1>17, <1>18, <1>19, <1>20, <1>21, <1>22, <1>23
     DEF Next, WriterStep, ReaderStep, MainStep, Exited

LEMMA FullStep ==
  ASSUME PcTyped, TypeOK, RoomToWrite, FullAtFinish, [Next]_vars
  PROVE  FullAtFinish'
<1> USE ThreadIds DEF PcTyped, FullAtFinish, RoomToWrite, Goto, At, TypeOK, data, scan
<1>1. ASSUME WriterWhile PROVE FullAtFinish'
  BY <1>1 DEF WriterWhile, MoreToWrite
<1>2. ASSUME WriterLock PROVE FullAtFinish'
  BY <1>2 DEF WriterLock, pthread_rwlock_wrlock, MoreToWrite
<1>3. ASSUME StoreElement PROVE FullAtFinish'
  BY <1>3 DEF StoreElement
<1>4. ASSUME CountElement PROVE FullAtFinish'
  BY <1>4 DEF CountElement
<1>5. ASSUME WriterUnlock PROVE FullAtFinish'
  BY <1>5 DEF WriterUnlock, pthread_rwlock_unlock
<1>6. ASSUME FinishLock PROVE FullAtFinish'
  BY <1>6 DEF FinishLock, pthread_rwlock_wrlock
<1>7. ASSUME Finish PROVE FullAtFinish'
  BY <1>7 DEF Finish
<1>8. ASSUME FinishUnlock PROVE FullAtFinish'
  BY <1>8 DEF FinishUnlock, pthread_rwlock_unlock
<1>9. ASSUME NEW r \in Readers, ReaderLock(r) PROVE FullAtFinish'
  BY <1>9 DEF ReaderLock, pthread_rwlock_rdlock
<1>10. ASSUME NEW r \in Readers, ReaderExit(r) PROVE FullAtFinish'
  BY <1>10 DEF ReaderExit, pthread_rwlock_unlock
<1>11. ASSUME NEW r \in Readers, StartLine(r) PROVE FullAtFinish'
  BY <1>11 DEF StartLine
<1>12. ASSUME NEW r \in Readers, FormatCell(r) PROVE FullAtFinish'
  BY <1>12 DEF FormatCell, Formatted
<1>13. ASSUME NEW r \in Readers, PrintLine(r) PROVE FullAtFinish'
  BY <1>13 DEF PrintLine, Formatted
<1>14. ASSUME NEW r \in Readers, ReaderUnlock(r) PROVE FullAtFinish'
  BY <1>14 DEF ReaderUnlock, pthread_rwlock_unlock
<1>15. ASSUME InitLock PROVE FullAtFinish'
  BY <1>15 DEF InitLock
<1>16. ASSUME CreateWriter PROVE FullAtFinish'
  BY <1>16 DEF CreateWriter
<1>17. ASSUME CreateReader PROVE FullAtFinish'
  BY <1>17 DEF CreateReader
<1>18. ASSUME CreateFails PROVE FullAtFinish'
  BY <1>18 DEF CreateFails
<1>19. ASSUME ReturnFailure PROVE FullAtFinish'
  BY <1>19 DEF ReturnFailure
<1>20. ASSUME JoinReader PROVE FullAtFinish'
  BY <1>20 DEF JoinReader
<1>21. ASSUME JoinWriter PROVE FullAtFinish'
  BY <1>21 DEF JoinWriter
<1>22. ASSUME Return PROVE FullAtFinish'
  BY <1>22 DEF Return
<1>23. CASE UNCHANGED vars
  BY <1>23 DEF vars
<1>24. QED
  BY <1>1, <1>2, <1>3, <1>4, <1>5, <1>6, <1>7, <1>8, <1>9, <1>10, <1>11, <1>12, <1>13,
     <1>14, <1>15, <1>16, <1>17, <1>18, <1>19, <1>20, <1>21, <1>22, <1>23
     DEF Next, WriterStep, ReaderStep, MainStep, Exited

-----------------------------------------------------------------------------
LEMMA Invariance == Spec => []IInv
<1>1. IInv /\ [Next]_vars => IInv'
  BY PcStep, ExclusionStep, UnbornStep, RoomStep, FinishStep, LinesStep, TypeStep, FilledStep,
     FullStep DEF IInv
<1>2. QED
  BY InitIInv, <1>1, PTL DEF Spec

(* The variables keep their types: the counter stays within the array and  *)
(* the lock is held by threads of the program (rwlock.c:16-123).           *)
THEOREM Typing == Spec => []TypeOK
<1>1. IInv => TypeOK
  BY DEF IInv
<1>2. QED
  BY Invariance, <1>1, PTL

(* No line contradicts another that is printed at the same time, however   *)
(* many readers overlap (rwlock.c:47-76).                                  *)
THEOREM ReadersAgree == Spec => []OverlappingReadersAgree
<1>1. IInv => OverlappingReadersAgree
  <2> SUFFICES ASSUME IInv, NEW r \in Readers, NEW t \in Readers, index[r] <= index[t]
               PROVE  /\ Len(line[r]) <= Len(line[t])
                      /\ \A k \in 1..Len(line[r]) : line[r][k] = line[t][k]
                      /\ Len(line[r]) < index[r] => Len(line[r]) = Len(line[t])
    BY DEF OverlappingReadersAgree
  <2>1. /\ line[r] \in Seq(0..ARRAY_SIZE) /\ line[t] \in Seq(0..ARRAY_SIZE)
        /\ index[r] \in Nat /\ index[t] \in Nat /\ write_counter \in Nat
    BY DEF IInv, TypeOK
  <2>2. /\ Len(line[r]) = IF index[r] < write_counter THEN index[r] ELSE write_counter
        /\ Len(line[t]) = IF index[t] < write_counter THEN index[t] ELSE write_counter
        /\ \A k \in 1..Len(line[r]) : line[r][k] = shared_array[k - 1]
        /\ \A k \in 1..Len(line[t]) : line[t][k] = shared_array[k - 1]
    BY DEF IInv, LinesAreTrue
  <2>3. Len(line[r]) <= Len(line[t])
    BY <2>1, <2>2
  <2>4. ASSUME NEW k \in 1..Len(line[r])
        PROVE  line[r][k] = line[t][k]
    <3>1. Len(line[r]) \in Nat /\ Len(line[t]) \in Nat
      BY <2>1
    <3>2. k \in 1..Len(line[t])
      BY ONLY <3>1, <2>3, k \in 1..Len(line[r])
    <3>3. line[r][k] = shared_array[k - 1]
      BY <2>2
    <3>4. line[t][k] = shared_array[k - 1]
      BY <2>2, <3>2
    <3>5. QED
      BY <3>3, <3>4
  <2>5. Len(line[r]) < index[r] => Len(line[r]) = Len(line[t])
    BY <2>1, <2>2
  <2>6. QED
    BY <2>3, <2>4, <2>5
<1>2. QED
  BY Invariance, <1>1, PTL

(* After read_finished is set no line is started, continued or printed,    *)
(* although the flag is read before a line is started and not after        *)
(* (rwlock.c:36-38, 47-74).                                                *)
THEOREM FinishIsFinal == Spec => NothingAfterFinish
<1> DEFINE Untouched == UNCHANGED <<index, line, view>>
           NobodyScans == \A r \in Readers : pc'[r] # "scan"
<1>1. IInv /\ [Next]_vars => [read_finished => Untouched /\ NobodyScans]_vars
  <2> SUFFICES ASSUME IInv, Next, read_finished PROVE Untouched /\ NobodyScans
    BY DEF vars
  <2>1. /\ \A r \in Readers : pc[r] # "scan"
        /\ DOMAIN pc = Threads /\ Writer \notin Readers /\ Readers \subseteq Threads
    BY ThreadIds DEF IInv, NobodyAfterFinish, PcTyped
  <2>2. ASSUME NEW r \in Readers, ReaderStep(r) PROVE Untouched /\ NobodyScans
    BY <2>1, <2>2 DEF At, Goto, ReaderStep, ReaderLock, ReaderExit, StartLine,
       FormatCell, PrintLine, ReaderUnlock, scan
  <2>3. ASSUME WriterStep PROVE Untouched /\ NobodyScans
    BY <2>1, <2>3 DEF WriterStep, WriterWhile, WriterLock, StoreElement, CountElement,
       WriterUnlock, FinishLock, Finish, FinishUnlock, scan, Goto
  <2>4. ASSUME MainStep PROVE Untouched /\ NobodyScans
    BY <2>1, <2>4 DEF MainStep, InitLock, CreateWriter, CreateReader, CreateFails,
       ReturnFailure, JoinReader, JoinWriter, Return, scan, Goto
  <2>5. QED
    BY <2>1, <2>2, <2>3, <2>4 DEF Next, Exited, vars, scan
<1>2. QED
  BY Invariance, <1>1, PTL DEF Spec, NothingAfterFinish
-----------------------------------------------------------------------------
Upto(n) == [k \in 1..n |-> k]

LEMMA UptoAppend ==
  ASSUME NEW n \in Nat
  PROVE  Upto(n) \in Seq(Nat) /\ Len(Upto(n)) = n /\ Append(Upto(n), n + 1) = Upto(n + 1)
BY DEF Upto

LEMMA LogIs == TypeOK /\ BufferFilled => Log = Upto(write_counter)
<1> SUFFICES ASSUME TypeOK, BufferFilled, NEW k \in 1..write_counter
             PROVE  shared_array[k - 1] = k
  BY DEF Log, Upto
<1>1. write_counter \in 0..ARRAY_SIZE
  BY DEF TypeOK
<1>2. k - 1 \in 0..ARRAY_SIZE - 1 /\ k - 1 < write_counter
  BY <1>1
<1>3. QED
  BY <1>2 DEF BufferFilled

LEMMA LogIsNext == (TypeOK /\ BufferFilled => Log = Upto(write_counter))'
BY LogIs, PTL

(* What PrintLine shows is the whole log.                                  *)
LEMMA LineIsLog ==
  ASSUME IInv, NEW r \in Readers, PrintLine(r)
  PROVE  Formatted(r) = Log
<1>1. /\ Formatted(r) \in Seq(0..ARRAY_SIZE)
      /\ Len(Formatted(r)) = IF index[r] + 1 < write_counter THEN index[r] + 1
                                                              ELSE write_counter
      /\ \A k \in 1..Len(Formatted(r)) : Formatted(r)[k] = shared_array[k - 1]
  BY FormattedIs DEF IInv
<1>2. index[r] + 1 = ARRAY_SIZE /\ write_counter \in 0..ARRAY_SIZE
  BY DEF PrintLine, IInv, TypeOK
<1>3. Len(Formatted(r)) = write_counter
  BY <1>1, <1>2
<1>4. Formatted(r) = [k \in 1..write_counter |-> Formatted(r)[k]]
  BY <1>1, <1>3
<1>5. QED
  BY <1>1, <1>3, <1>4 DEF Log

LEMMA RefinesStep ==
  ASSUME IInv, IInv', [Next]_vars
  PROVE  [Snapshot!Next]_(Snapshot!vars)
<1> DEFINE Stopped == {r \in Readers : pc[r] = "done"}
<1> USE ThreadIds
<1>1. /\ Log = Upto(write_counter) /\ Log' = Upto(write_counter')
      /\ write_counter \in Nat /\ Len(Log) = write_counter
  <2>1. Log = Upto(write_counter) /\ Log' = Upto(write_counter')
    BY LogIs, LogIsNext DEF IInv
  <2>2. write_counter \in Nat
    BY DEF IInv, TypeOK
  <2>3. QED
    BY <2>1, <2>2, UptoAppend
<1>2. DOMAIN pc = Threads
  BY DEF IInv, PcTyped
<1>3. ASSUME UNCHANGED <<write_counter, view>>,
             \A r \in Readers : pc'[r] = "done" <=> pc[r] = "done"
      PROVE  UNCHANGED Snapshot!vars
  BY <1>1, <1>3 DEF Snapshot!vars
<1>4. CASE WriterStep
  <2>1. view' = view /\ \A r \in Readers : pc'[r] = pc[r]
    BY <1>2, <1>4 DEF WriterStep, WriterWhile, WriterLock, StoreElement, CountElement,
       WriterUnlock, FinishLock, Finish, FinishUnlock, scan, Goto
  <2>2. CASE CountElement
    <3>1. write_counter' = write_counter + 1 /\ write_counter < ARRAY_SIZE
      BY <2>2 DEF CountElement, At, IInv, RoomToWrite
    <3>2. Log' = Append(Log, Len(Log) + 1)
      BY <1>1, <3>1, UptoAppend
    <3>3. QED
      BY <1>1, <2>1, <3>1, <3>2 DEF Snapshot!Next, Snapshot!Publish
  <2>3. CASE ~CountElement
    <3>1. write_counter' = write_counter
      BY <1>4, <2>3 DEF WriterStep, WriterWhile, WriterLock, StoreElement,
         WriterUnlock, FinishLock, Finish, FinishUnlock, data
    <3>2. QED
      BY <1>3, <2>1, <3>1
  <2>4. QED
    BY <2>2, <2>3
<1>5. ASSUME NEW r \in Readers, ReaderStep(r)
      PROVE  [Snapshot!Next]_(Snapshot!vars)
  <2>1. write_counter' = write_counter /\ Log' = Log
    BY <1>1, <1>5 DEF ReaderStep, ReaderLock, ReaderExit, StartLine, FormatCell, PrintLine,
       ReaderUnlock, data
  <2>2. CASE PrintLine(r)
    <3>1. view' = [view EXCEPT ![r] = Log]
      BY <2>2, LineIsLog DEF PrintLine
    <3>2. pc[r] = "scan" /\ pc' = [pc EXCEPT ![r] = "unlock"]
      BY <2>2 DEF PrintLine, At, Goto
    <3>3. Stopped' = Stopped /\ r \notin Stopped
      BY <1>2, <3>2
    <3>4. QED
      BY <2>1, <3>1, <3>3 DEF Snapshot!Next, Snapshot!Show
  <2>3. CASE ReaderExit(r)
    <3>1. view' = view /\ read_finished /\ pc' = [pc EXCEPT ![r] = "done"]
      BY <2>3 DEF ReaderExit, Goto, scan
    <3>2. Len(Log) = ARRAY_SIZE
      BY <1>1, <3>1 DEF IInv, FullAtFinish
    <3>3. Stopped' = Stopped \cup {r}
      BY <1>2, <3>1
    <3>4. QED
      BY <2>1, <3>1, <3>2, <3>3 DEF Snapshot!Next, Snapshot!Stop
  <2>4. CASE ~PrintLine(r) /\ ~ReaderExit(r)
    <3>1. view' = view
      BY <1>5, <2>4 DEF ReaderStep, ReaderLock, StartLine, FormatCell, ReaderUnlock, scan
    <3>2. \A t \in Readers : pc'[t] = "done" <=> pc[t] = "done"
      BY <1>2, <1>5, <2>4 DEF ReaderStep, ReaderLock, StartLine, FormatCell, ReaderUnlock,
         At, Goto
    <3>3. QED
      BY <1>3, <2>1, <3>1, <3>2
  <2>5. QED
    BY <2>2, <2>3, <2>4
<1>6. CASE MainStep
  <2>1. UNCHANGED <<write_counter, view>>
    BY <1>6 DEF MainStep, InitLock, CreateWriter, CreateReader, CreateFails,
       ReturnFailure, JoinReader, JoinWriter, Return, scan, data
  <2>2. \A t \in Readers : pc'[t] = "done" <=> pc[t] = "done"
    <3>1. CASE CreateReader
      <4>1. pc[next] = "unborn" /\ pc' = [pc EXCEPT ![next] = "rdlock"]
        BY <3>1 DEF CreateReader, Goto, IInv, TypeOK, Unborn, Readers
      <4>2. QED
        BY <1>2, <4>1
    <3>2. CASE ~CreateReader
      BY <1>2, <1>6, <3>2 DEF MainStep, InitLock, CreateWriter, CreateFails,
         ReturnFailure, JoinReader, JoinWriter, Return, Goto
    <3>3. QED
      BY <3>1, <3>2
  <2>3. QED
    BY <1>3, <2>1, <2>2
<1>7. CASE UNCHANGED vars
  BY <1>3, <1>7 DEF vars, scan, data
<1>8. QED
  BY <1>4, <1>5, <1>6, <1>7 DEF Next, Exited

(* The program implements PrefixBuffer: each line is what the array held   *)
(* at one instant, and a reader leaves only when the array is full         *)
(* (rwlock.c:22-38, 49-74).                                                *)
THEOREM Refinement == Spec => SnapshotSpec
<1>1. Init => Snapshot!Init
  BY ThreadIds DEF Init, Snapshot!Init, Log
<1>2. IInv /\ IInv' /\ [Next]_vars => [Snapshot!Next]_(Snapshot!vars)
  BY RefinesStep
<1>3. QED
  BY <1>1, <1>2, Invariance, PTL DEF Spec, SnapshotSpec, Snapshot!Spec
=============================================================================
