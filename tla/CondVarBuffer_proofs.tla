------------------------ MODULE CondVarBuffer_proofs ------------------------
(***************************************************************************)
(* Proofs about CondVarBuffer, for any number of readers, any array size   *)
(* and any bound on spurious wakeups.                                      *)
(***************************************************************************)
EXTENDS CondVarBuffer, TLAPS

-----------------------------------------------------------------------------
(* Facts about the operators.                                              *)

(* The thread identifiers are what they should be: pairwise distinct.      *)
LEMMA ThreadIds ==
  /\ Writer \notin Readers
  /\ NoThread \notin Threads
  /\ Threads = Readers \cup {Writer}
  BY CondVarAssumption
  DEF CondVarAssumption, Readers, Writer, Threads, NoThread

(* Upto(n) is a sequence of n numbers.                                     *)
LEMMA UptoLen ==
  ASSUME NEW n \in Nat
  PROVE  Upto(n) \in Seq(Nat) /\ Len(Upto(n)) = n
  BY DEF Upto

(* The sequence grows by one element at a time, from the empty one.        *)
LEMMA UptoAppend ==
  ASSUME NEW n \in Nat
  PROVE  Append(Upto(n), n + 1) = Upto(n + 1)
  BY DEF Upto

LEMMA UptoZero == Upto(0) = <<>>
  BY DEF Upto

-----------------------------------------------------------------------------
(* What each kind of thread leaves alone.                                  *)

LEMMA WriterFrame ==
  ASSUME TypeOK, WriterStep
  PROVE  /\ UNCHANGED <<scan, boss, spurious>>
         /\ \A r \in Readers : pc'[r] = pc[r]
  BY ThreadIds
  DEF TypeOK, WriterStep, WriterWhile, WriterLock, StoreElement, CountElement,
      SignalData, WriterUnlock, FinishLock, Finish, FinishUnlock, Goto

LEMMA ReaderFrame ==
  ASSUME TypeOK, NEW r \in Readers, ReaderStep(r) \/ SpuriousWakeup(r)
  PROVE  /\ UNCHANGED <<shared_array, write_counter, all_written, boss>>
         /\ pc'[Writer] = pc[Writer]
         /\ \A s \in Readers \ {r} :
              /\ pc'[s] = pc[s] /\ index'[s] = index[s]
              /\ line'[s] = line[s] /\ view'[s] = view[s]
  BY ThreadIds
  DEF TypeOK, ReaderStep, ReaderLock, CondWait, CondReturn, SpuriousWakeup,
      ReaderExit, StartLine, PrintCell, EndLine, ReaderUnlock, Goto, data, scan

(* main touches program counters only, and only those of threads that have *)
(* not been born.                                                          *)
LEMMA MainFrame ==
  ASSUME TypeOK, Unborn, MainStep
  PROVE  /\ UNCHANGED <<data, mutex, waiting, scan, spurious>>
         /\ \A t \in Threads :
              \/ pc'[t] = pc[t]
              \/ /\ pc[t] = "unborn"
                 /\ pc'[t] = IF t = Writer THEN "while" ELSE "lock"
  <1>1. CASE CreateWriter
    BY <1>1, ThreadIds DEF CreateWriter, Goto, TypeOK, Unborn
  <1>2. CASE CreateReader
    <2>1. next \in Readers /\ pc[next] = "unborn"
      BY <1>2 DEF CreateReader, Unborn, Readers, TypeOK
    <2> QED
      BY <1>2, <2>1, ThreadIds DEF CreateReader, Goto, TypeOK
  <1>3. CASE CreateFails \/ JoinReader \/ JoinWriter \/ DisplayFinal
    BY <1>3 DEF CreateFails, JoinReader, JoinWriter, DisplayFinal
  <1> QED
    BY <1>1, <1>2, <1>3, MainStep DEF MainStep

-----------------------------------------------------------------------------
(* The inductive invariant holds initially.                                *)

LEMMA InitInv == Init => IInv
  <1> SUFFICES ASSUME Init PROVE IInv
    OBVIOUS
  <1> USE CondVarAssumption
      DEF CondVarAssumption, Init, Readers, Writer, Threads, NoThread
  <1>1. TypeOK
    <2>1. /\ line \in [Readers -> Seq(0..ArraySize)]
          /\ view \in [Readers -> Seq(0..ArraySize)]
      OBVIOUS
    <2>2. shared_array \in [0..ArraySize - 1 -> 0..ArraySize]
      OBVIOUS
    <2>3. pc \in [Threads -> WriterPCs \cup ReaderPCs]
      BY DEF WriterPCs
    <2>4. index \in [Readers -> 0..ArraySize - 1]
      OBVIOUS
    <2>5. pc[Writer] \in WriterPCs /\ \A r \in Readers : pc[r] \in ReaderPCs
      BY DEF WriterPCs, ReaderPCs
    <2>6. main \in MainPCs /\ next \in Readers /\ spurious \in 0..MaxSpurious
      BY DEF MainPCs
    <2>7. /\ write_counter \in 0..ArraySize
          /\ waiting \in SUBSET Readers
          /\ mutex \in Threads \cup {NoThread}
      OBVIOUS
    <2>8. all_written \in BOOLEAN /\ data_available \in BOOLEAN
      OBVIOUS
    <2> QED
      BY <2>1, <2>2, <2>3, <2>4, <2>5, <2>6, <2>7, <2>8 DEF TypeOK
  <1>2. Unborn /\ WaitersWait
    BY DEF Unborn, WaitersWait
  <1>6. MutualExclusion
    BY DEF MutualExclusion, Inside, WriterInside, ReaderInside
  <1>3. BufferFilled
    BY DEF BufferFilled
  <1>4. LinesAreTrue /\ ViewsAreTrue /\ ReadersObeyFlags
    BY UptoZero DEF LinesAreTrue, ViewsAreTrue, ReadersObeyFlags
  <1>5. NewsIsNew /\ NoLostWakeup
    BY DEF NewsIsNew, NoLostWakeup
  <1> QED
    BY <1>1, <1>2, <1>3, <1>4, <1>5, <1>6 DEF IInv

-----------------------------------------------------------------------------
(* One lemma per conjunct of the invariant: every step preserves it.       *)

LEMMA MutexStep ==
  ASSUME TypeOK, Unborn, MutualExclusion, [Next]_vars
  PROVE  MutualExclusion'
  <1> USE ThreadIds
      DEF MutualExclusion, Inside, WriterInside, ReaderInside, Goto, At,
          pthread_mutex_lock, pthread_mutex_unlock, MutexIsFree
  <1>0. pc \in [Threads -> WriterPCs \cup ReaderPCs]
    BY DEF TypeOK
  <1>1. CASE WriterStep
    <2>1. CASE WriterWhile
      BY <1>0, <2>1 DEF WriterWhile
    <2>2. CASE WriterLock
      BY <1>0, <2>2 DEF WriterLock
    <2>3. CASE StoreElement
      BY <1>0, <2>3 DEF StoreElement
    <2>4. CASE CountElement
      BY <1>0, <2>4 DEF CountElement
    <2>5. CASE SignalData
      BY <1>0, <2>5 DEF SignalData
    <2>6. CASE WriterUnlock
      BY <1>0, <2>6 DEF WriterUnlock
    <2>7. CASE FinishLock
      BY <1>0, <2>7 DEF FinishLock
    <2>8. CASE Finish
      BY <1>0, <2>8 DEF Finish
    <2>9. CASE FinishUnlock
      BY <1>0, <2>9 DEF FinishUnlock
    <2> QED
      BY <1>1, <2>1, <2>2, <2>3, <2>4, <2>5, <2>6, <2>7, <2>8, <2>9
      DEF WriterStep
  <1>2. ASSUME NEW r \in Readers, ReaderStep(r) PROVE MutualExclusion'
    <2>1. CASE ReaderLock(r)
      BY <1>0, <2>1 DEF ReaderLock
    <2>2. CASE CondWait(r)
      BY <1>0, <2>2 DEF CondWait
    <2>3. CASE CondReturn(r)
      BY <1>0, <2>3 DEF CondReturn, AfterWait
    <2>4. CASE ReaderExit(r)
      BY <1>0, <2>4 DEF ReaderExit
    <2>5. CASE StartLine(r)
      BY <1>0, <2>5 DEF StartLine
    <2>6. CASE PrintCell(r)
      BY <1>0, <2>6 DEF PrintCell
    <2>7. CASE EndLine(r)
      BY <1>0, <2>7 DEF EndLine
    <2>8. CASE ReaderUnlock(r)
      BY <1>0, <2>8 DEF ReaderUnlock
    <2> QED
      BY <1>2, <2>1, <2>2, <2>3, <2>4, <2>5, <2>6, <2>7, <2>8 DEF ReaderStep
  <1>3. ASSUME NEW r \in Readers, SpuriousWakeup(r) PROVE MutualExclusion'
    BY <1>3 DEF SpuriousWakeup
  <1>4. CASE MainStep
    BY <1>4, MainFrame
  <1>5. CASE UNCHANGED vars
    BY <1>5 DEF vars
  <1> QED
    BY <1>1, <1>2, <1>3, <1>4, <1>5 DEF Next, Exited

LEMMA UnbornStep ==
  ASSUME TypeOK, Unborn, [Next]_vars
  PROVE  Unborn'
  <1>1. CASE WriterStep
    <2>1. pc[Writer] # "unborn"
      BY <1>1 DEF WriterStep, WriterWhile, WriterLock, StoreElement,
                  CountElement, SignalData, WriterUnlock, FinishLock, Finish,
                  FinishUnlock, At
    <2> QED
      BY <1>1, <2>1, WriterFrame DEF Unborn, boss
  <1>2. ASSUME NEW r \in Readers, ReaderStep(r) \/ SpuriousWakeup(r)
        PROVE  Unborn'
    <2>1. pc[r] # "unborn" \/ pc'[r] = pc[r]
      BY <1>2 DEF ReaderStep, ReaderLock, CondWait, CondReturn, SpuriousWakeup,
                  ReaderExit, StartLine, PrintCell, EndLine, ReaderUnlock, At
    <2> QED
      BY <1>2, <2>1, ReaderFrame DEF Unborn, boss
  <1>3. CASE MainStep
    <2>1. CASE CreateWriter
      BY <2>1, ThreadIds, CondVarAssumption
      DEF CreateWriter, Goto, Unborn, TypeOK, CondVarAssumption
    <2>2. CASE CreateReader
      BY <2>2, ThreadIds
      DEF CreateReader, Goto, Unborn, TypeOK, Readers, Writer
    <2>3. CASE CreateFails \/ JoinReader \/ JoinWriter \/ DisplayFinal
      BY <2>3 DEF CreateFails, JoinReader, JoinWriter, DisplayFinal, Unborn
    <2> QED
      BY <1>3, <2>1, <2>2, <2>3 DEF MainStep
  <1>4. CASE UNCHANGED vars
    BY <1>4 DEF vars, boss, Unborn
  <1> QED
    BY <1>1, <1>2, <1>3, <1>4 DEF Next, Exited

LEMMA WaitersStep ==
  ASSUME TypeOK, Unborn, WaitersWait, [Next]_vars
  PROVE  WaitersWait'
  <1>1. CASE WriterStep
    <2>1. waiting' \subseteq waiting
      BY <1>1 DEF WriterStep, WriterWhile, WriterLock, StoreElement,
                  CountElement, SignalData, WriterUnlock, FinishLock, Finish,
                  FinishUnlock, pthread_cond_signal, pthread_cond_broadcast
    <2> QED
      BY <1>1, <2>1, WriterFrame DEF WaitersWait, TypeOK
  <1>2. ASSUME NEW r \in Readers, ReaderStep(r) PROVE WaitersWait'
    BY <1>2, ThreadIds
    DEF WaitersWait, TypeOK, ReaderStep, ReaderLock, CondWait, CondReturn,
        ReaderExit, StartLine, PrintCell, EndLine, ReaderUnlock, At, Goto
  <1>3. ASSUME NEW r \in Readers, SpuriousWakeup(r) PROVE WaitersWait'
    BY <1>3 DEF SpuriousWakeup, WaitersWait
  <1>4. CASE MainStep
    BY <1>4, MainFrame, ThreadIds DEF WaitersWait, TypeOK
  <1>5. CASE UNCHANGED vars
    BY <1>5 DEF vars, WaitersWait
  <1> QED
    BY <1>1, <1>2, <1>3, <1>4, <1>5 DEF Next, Exited

LEMMA FilledStep ==
  ASSUME TypeOK, Unborn, BufferFilled, [Next]_vars
  PROVE  BufferFilled'
  <1>1. CASE WriterStep
    <2> USE ThreadIds, CondVarAssumption
        DEF CondVarAssumption, BufferFilled, TypeOK, At, Goto
    <2>1. CASE WriterWhile
      BY <2>1 DEF WriterWhile, data
    <2>2. CASE WriterLock
      BY <2>2 DEF WriterLock, data
    <2>3. CASE StoreElement
      BY <2>3 DEF StoreElement
    <2>4. CASE CountElement
      BY <2>4 DEF CountElement
    <2>5. CASE SignalData
      BY <2>5 DEF SignalData
    <2>6. CASE WriterUnlock
      BY <2>6 DEF WriterUnlock, data
    <2>7. CASE FinishLock
      BY <2>7 DEF FinishLock, data
    <2>8. CASE Finish
      BY <2>8 DEF Finish
    <2>9. CASE FinishUnlock
      BY <2>9 DEF FinishUnlock, data
    <2> QED
      BY <1>1, <2>1, <2>2, <2>3, <2>4, <2>5, <2>6, <2>7, <2>8, <2>9
      DEF WriterStep
  <1>2. ASSUME NEW r \in Readers, ReaderStep(r) \/ SpuriousWakeup(r)
        PROVE  BufferFilled'
    BY <1>2, ReaderFrame DEF BufferFilled
  <1>3. CASE MainStep
    BY <1>3, MainFrame, ThreadIds DEF BufferFilled, data
  <1>4. CASE UNCHANGED vars
    BY <1>4 DEF vars, data, BufferFilled
  <1> QED
    BY <1>1, <1>2, <1>3, <1>4 DEF Next, Exited

(* The label a step takes a thread to belongs to that thread.              *)
LEMMA GotoType ==
  ASSUME TypeOK, [Next]_vars
  PROVE  /\ pc' \in [Threads -> WriterPCs \cup ReaderPCs]
         /\ pc'[Writer] \in WriterPCs
         /\ \A r \in Readers : pc'[r] \in ReaderPCs
  <1> DEFINE Moves(t, labels) == pc' = pc \/ \E l \in labels : Goto(t, l)
  <1>0. ASSUME NEW l \in WriterPCs, Goto(Writer, l)
        PROVE  /\ pc' \in [Threads -> WriterPCs \cup ReaderPCs]
               /\ pc'[Writer] \in WriterPCs
               /\ \A s \in Readers : pc'[s] \in ReaderPCs
    BY <1>0, ThreadIds DEF TypeOK, Goto
  <1>1. CASE Moves(Writer, WriterPCs)
    BY <1>0, <1>1 DEF TypeOK
  <1>2. ASSUME NEW r \in Readers, Moves(r, ReaderPCs)
        PROVE  /\ pc' \in [Threads -> WriterPCs \cup ReaderPCs]
               /\ pc'[Writer] \in WriterPCs
               /\ \A s \in Readers : pc'[s] \in ReaderPCs
    <2>1. ASSUME NEW l \in ReaderPCs, Goto(r, l)
          PROVE  /\ pc' \in [Threads -> WriterPCs \cup ReaderPCs]
                 /\ pc'[Writer] \in WriterPCs
                 /\ \A s \in Readers : pc'[s] \in ReaderPCs
      BY <2>1, ThreadIds DEF TypeOK, Goto
    <2> QED
      BY <1>2, <2>1 DEF TypeOK
  <1>3. CASE WriterStep
    <2>1. Moves(Writer, WriterPCs)
      BY <1>3 DEF WriterStep, WriterWhile, WriterLock, StoreElement,
                  CountElement, SignalData, WriterUnlock, FinishLock, Finish,
                  FinishUnlock, WriterPCs
    <2> QED
      BY <1>1, <2>1
  <1>4. ASSUME NEW r \in Readers, ReaderStep(r) \/ SpuriousWakeup(r)
        PROVE  Moves(r, ReaderPCs)
    BY <1>4 DEF ReaderStep, ReaderLock, CondWait, CondReturn, AfterWait,
                SpuriousWakeup, ReaderExit, StartLine, PrintCell, EndLine,
                ReaderUnlock, ReaderPCs
  <1>5. CASE MainStep
    <2>1. Moves(Writer, WriterPCs) \/ Moves(next, ReaderPCs)
      BY <1>5 DEF MainStep, CreateWriter, CreateReader, CreateFails,
                  JoinReader, JoinWriter, DisplayFinal, WriterPCs, ReaderPCs
    <2>2. next \in Readers
      BY DEF TypeOK
    <2> QED
      BY <1>1, <1>2, <2>1, <2>2
  <1>6. CASE UNCHANGED vars
    BY <1>6 DEF vars, TypeOK
  <1> QED
    BY <1>2, <1>3, <1>4, <1>5, <1>6 DEF Next, Exited

LEMMA TypeStep ==
  ASSUME TypeOK, Unborn, BufferFilled, [Next]_vars
  PROVE  TypeOK'
  <1> USE ThreadIds, CondVarAssumption DEF CondVarAssumption
  <1>1. CASE WriterStep
    <2>1. /\ shared_array' \in [0..ArraySize - 1 -> 0..ArraySize]
          /\ write_counter' \in 0..ArraySize
      <3>1. CASE StoreElement
        BY <3>1 DEF StoreElement, At, TypeOK, BufferFilled
      <3>2. CASE CountElement
        BY <3>2 DEF CountElement, At, TypeOK, BufferFilled
      <3>3. CASE UNCHANGED <<shared_array, write_counter>>
        BY <3>3 DEF TypeOK
      <3> QED
        BY <1>1, <3>1, <3>2, <3>3
        DEF WriterStep, WriterWhile, WriterLock, SignalData, WriterUnlock,
            FinishLock, Finish, FinishUnlock, data
    <2>2. all_written' \in BOOLEAN /\ data_available' \in BOOLEAN
      BY <1>1
      DEF WriterStep, WriterWhile, WriterLock, StoreElement, CountElement,
          SignalData, WriterUnlock, FinishLock, Finish, FinishUnlock, data,
          TypeOK
    <2>3. /\ mutex' \in Threads \cup {NoThread}
          /\ waiting' \in SUBSET Readers
      BY <1>1
      DEF WriterStep, WriterWhile, WriterLock, StoreElement, CountElement,
          SignalData, WriterUnlock, FinishLock, Finish, FinishUnlock, TypeOK,
          pthread_mutex_lock, pthread_mutex_unlock, pthread_cond_signal,
          pthread_cond_broadcast
    <2> QED
      BY <1>1, <2>1, <2>2, <2>3, WriterFrame, GotoType DEF TypeOK, scan, boss
  <1>2. ASSUME NEW r \in Readers, ReaderStep(r) \/ SpuriousWakeup(r)
        PROVE  TypeOK'
    <2>1. Printed(r) \in Seq(0..ArraySize)
      <3>1. /\ line[r] \in Seq(0..ArraySize)
            /\ shared_array[index[r]] \in 0..ArraySize
        BY DEF TypeOK
      <3>2. Append(line[r], shared_array[index[r]]) \in Seq(0..ArraySize)
        BY <3>1
      <3> QED
        BY <3>1, <3>2 DEF Printed
    <2>2. /\ index' \in [Readers -> 0..ArraySize - 1]
          /\ line' \in [Readers -> Seq(0..ArraySize)]
          /\ view' \in [Readers -> Seq(0..ArraySize)]
      <3>1. CASE PrintCell(r)
        <4>1. index[r] \in Nat /\ index[r] + 1 < ArraySize
          BY <3>1 DEF PrintCell, TypeOK
        <4>2. index[r] + 1 \in 0..ArraySize - 1
          BY <4>1
        <4> QED
          BY <3>1, <2>1, <4>2 DEF PrintCell, TypeOK
      <3>2. CASE EndLine(r)
        BY <3>2, <2>1, SMTT(30) DEF EndLine, TypeOK
      <3>3. CASE UNCHANGED scan
        BY <3>3 DEF scan, TypeOK
      <3> QED
        BY <1>2, <3>1, <3>2, <3>3
        DEF ReaderStep, ReaderLock, CondWait, CondReturn, SpuriousWakeup,
            ReaderExit, StartLine, ReaderUnlock
    <2>3. data_available' \in BOOLEAN
      BY <1>2
      DEF ReaderStep, ReaderLock, CondWait, CondReturn, SpuriousWakeup,
          ReaderExit, StartLine, PrintCell, EndLine, MarkConsumed,
          ReaderUnlock, data, TypeOK
    <2>5. spurious' \in 0..MaxSpurious
      <3>1. CASE SpuriousWakeup(r)
        BY <3>1 DEF SpuriousWakeup, TypeOK
      <3>2. CASE UNCHANGED spurious
        BY <3>2 DEF TypeOK
      <3> QED
        BY <1>2, <3>1, <3>2
        DEF ReaderStep, ReaderLock, CondWait, CondReturn, ReaderExit,
            StartLine, PrintCell, EndLine, ReaderUnlock
    <2>4. /\ mutex' \in Threads \cup {NoThread}
          /\ waiting' \in SUBSET Readers
      BY <1>2
      DEF ReaderStep, ReaderLock, CondWait, CondReturn, SpuriousWakeup,
          ReaderExit, StartLine, PrintCell, EndLine, ReaderUnlock, TypeOK,
          pthread_mutex_lock, pthread_mutex_unlock
    <2> QED
      BY <1>2, <2>2, <2>3, <2>4, <2>5, ReaderFrame, GotoType DEF TypeOK, boss
  <1>3. CASE MainStep
    <2>1. main' \in MainPCs
      BY <1>3
      DEF MainStep, CreateWriter, CreateReader, CreateFails, JoinReader,
          JoinWriter, DisplayFinal, TypeOK, MainPCs
    <2>2. next' = next \/ next' = 1 \/ (next < NumReaders /\ next' = next + 1)
      BY <1>3
      DEF MainStep, CreateWriter, CreateReader, CreateFails, JoinReader,
          JoinWriter, DisplayFinal
    <2>3. next' \in Readers
      <3>1. next \in 1..NumReaders
        BY DEF TypeOK, Readers
      <3> QED
        BY <2>2, <3>1 DEF Readers
    <2> QED
      BY <1>3, <2>1, <2>3, MainFrame, GotoType DEF TypeOK, data, scan
  <1>4. CASE UNCHANGED vars
    BY <1>4 DEF vars, data, scan, boss, TypeOK
  <1> QED
    BY <1>1, <1>2, <1>3, <1>4 DEF Next, Exited

(* At most one thread is inside, so a reader that prints has the buffer to *)
(* itself: the writer is outside and no other reader prints.               *)
LEMMA ScanAlone ==
  ASSUME TypeOK, MutualExclusion, NEW r \in Readers, pc[r] \in {"test", "scan"}
  PROVE  /\ pc[Writer] \notin WriterInside
         /\ \A s \in Readers \ {r} : pc[s] # "scan"
  BY ThreadIds DEF MutualExclusion, Inside, WriterInside, ReaderInside

(* What has been printed once the next cell is on the line.                *)
LEMMA PrintedIs ==
  ASSUME TypeOK, BufferFilled, LinesAreTrue, NEW r \in Readers, pc[r] = "scan"
  PROVE  Printed(r) =
           Upto(IF index[r] + 1 < write_counter THEN index[r] + 1
                                                ELSE write_counter)
  <1>1. /\ index[r] \in Nat /\ index[r] \in 0..ArraySize - 1
        /\ write_counter \in Nat
    BY DEF TypeOK
  <1>2. CASE index[r] < write_counter
    <2>1. line[r] = Upto(index[r]) /\ shared_array[index[r]] = index[r] + 1
      BY <1>1, <1>2 DEF LinesAreTrue, LineSoFar, BufferFilled
    <2>2. Printed(r) = Upto(index[r] + 1)
      BY <1>1, <1>2, <2>1, UptoAppend DEF Printed
    <2> QED
      BY <1>1, <1>2, <2>2
  <1>3. CASE ~(index[r] < write_counter)
    BY <1>1, <1>3 DEF LinesAreTrue, LineSoFar, Printed
  <1> QED
    BY <1>2, <1>3

LEMMA LinesStep ==
  ASSUME TypeOK, Unborn, MutualExclusion, BufferFilled, LinesAreTrue,
         [Next]_vars
  PROVE  LinesAreTrue'
  <1>1. CASE WriterStep
    <2>1. ASSUME NEW r \in Readers, pc[r] = "scan"
          PROVE  write_counter' = write_counter
      <3>1. pc[Writer] \notin WriterInside
        BY <2>1, ScanAlone
      <3> QED
        BY <1>1, <3>1
        DEF WriterStep, WriterWhile, WriterLock, StoreElement, CountElement,
            SignalData, WriterUnlock, FinishLock, Finish, FinishUnlock, At,
            WriterInside, data
    <2> QED
      BY <1>1, <2>1, WriterFrame DEF LinesAreTrue, LineSoFar, scan
  <1>2. ASSUME NEW r \in Readers, ReaderStep(r) \/ SpuriousWakeup(r)
        PROVE  LinesAreTrue'
    <2>1. ASSUME NEW s \in Readers \ {r}
          PROVE  /\ pc'[s] = "scan" => line'[s] = LineSoFar(s)'
                 /\ pc'[s] # "scan" => line'[s] = <<>> /\ index'[s] = 0
      BY <1>2, <2>1, ReaderFrame DEF LinesAreTrue, LineSoFar
    <2>2. /\ pc'[r] = "scan" => line'[r] = LineSoFar(r)'
          /\ pc'[r] # "scan" => line'[r] = <<>> /\ index'[r] = 0
      <3>1. CASE PrintCell(r)
        <4>1. /\ line'[r] = Printed(r) /\ index'[r] = index[r] + 1
              /\ write_counter' = write_counter /\ pc'[r] = "scan"
              /\ pc[r] = "scan"
          BY <3>1 DEF PrintCell, At, TypeOK, data
        <4> QED
          BY <4>1, PrintedIs DEF LineSoFar
      <3>2. CASE EndLine(r)
        BY <3>2, ThreadIds DEF EndLine, Goto, TypeOK
      <3>3. CASE StartLine(r)
        <4>1. /\ line'[r] = <<>> /\ index'[r] = 0
              /\ write_counter' = write_counter /\ pc'[r] = "scan"
          BY <3>3, ThreadIds
          DEF StartLine, At, Goto, LinesAreTrue, TypeOK, data, scan
        <4>2. LineSoFar(r)' = Upto(0)
          BY <4>1 DEF LineSoFar, TypeOK
        <4> QED
          BY <4>1, <4>2, UptoZero
      <3>4. CASE UNCHANGED scan /\ pc[r] # "scan" /\ pc'[r] # "scan"
        BY <3>4 DEF LinesAreTrue, scan
      <3>5. CASE SpuriousWakeup(r)
        BY <3>5 DEF SpuriousWakeup, LinesAreTrue, LineSoFar, scan, data
      <3> QED
        BY <1>2, <3>1, <3>2, <3>3, <3>4, <3>5, ThreadIds
        DEF ReaderStep, ReaderLock, CondWait, CondReturn, AfterWait,
            ReaderExit, ReaderUnlock, At, Goto, TypeOK
    <2> QED
      BY <2>1, <2>2 DEF LinesAreTrue
  <1>3. CASE MainStep
    BY <1>3, MainFrame, ThreadIds DEF LinesAreTrue, LineSoFar, data, scan
  <1>4. CASE UNCHANGED vars
    BY <1>4 DEF vars, data, scan, LinesAreTrue, LineSoFar
  <1> QED
    BY <1>1, <1>2, <1>3, <1>4 DEF Next, Exited

(* A reader that ends a line has printed the whole buffer.                 *)
LEMMA EndLineView ==
  ASSUME TypeOK, BufferFilled, LinesAreTrue, NEW r \in Readers, EndLine(r)
  PROVE  /\ view' = [view EXCEPT ![r] = Upto(write_counter)]
         /\ Len(view'[r]) = write_counter
  <1>1. pc[r] = "scan" /\ index[r] + 1 = ArraySize /\ write_counter \in Nat
    BY DEF EndLine, At, TypeOK
  <1>2. ~(index[r] + 1 < write_counter)
    BY <1>1 DEF TypeOK
  <1>3. Printed(r) = Upto(write_counter)
    BY <1>1, <1>2, PrintedIs
  <1> QED
    BY <1>1, <1>3, UptoLen DEF EndLine, TypeOK

(* Only the end of a line changes what a reader shows.                     *)
LEMMA ViewFrame ==
  ASSUME TypeOK, Unborn, [Next]_vars
  PROVE  UNCHANGED view \/ \E r \in Readers : EndLine(r)
  <1>1. ASSUME NEW r \in Readers, ReaderStep(r) \/ SpuriousWakeup(r)
        PROVE  UNCHANGED view \/ EndLine(r)
    BY <1>1
    DEF ReaderStep, ReaderLock, CondWait, CondReturn, SpuriousWakeup,
        ReaderExit, StartLine, PrintCell, ReaderUnlock, scan
  <1> QED
    BY <1>1, WriterFrame, MainFrame DEF Next, Exited, vars, scan

(* A reader gets from its line to the unlocking only by completing it.     *)
LEMMA LineEnds ==
  ASSUME TypeOK, Unborn, [Next]_vars,
         NEW r \in Readers, pc[r] = "scan", pc'[r] = "unlock"
  PROVE  EndLine(r)
  <1>1. DOMAIN pc = Threads /\ r \in Threads /\ r # Writer
    BY DEF TypeOK, Threads, Writer, Readers
  <1>2. ~WriterStep
    BY <1>1 DEF WriterStep, WriterWhile, WriterLock, StoreElement, CountElement,
       SignalData, WriterUnlock, FinishLock, Finish, FinishUnlock, Goto
  <1>3. ~MainStep
    BY <1>1 DEF MainStep, CreateWriter, CreateReader, CreateFails, JoinReader,
       JoinWriter, DisplayFinal, Goto, Unborn
  <1>4. ASSUME NEW q \in Readers, ReaderStep(q) \/ SpuriousWakeup(q)
        PROVE  q = r /\ EndLine(r)
    BY <1>1, <1>4 DEF ReaderStep, ReaderLock, CondWait, CondReturn, SpuriousWakeup,
       ReaderExit, StartLine, PrintCell, EndLine, ReaderUnlock, At, Goto
  <1> QED
    BY <1>2, <1>3, <1>4 DEF Next, Exited, vars

(* The counter never goes down.                                            *)
LEMMA CounterGrows ==
  ASSUME TypeOK, Unborn, [Next]_vars
  PROVE  write_counter' \in {write_counter, write_counter + 1}
  <1>1. CASE WriterStep
    BY <1>1
    DEF WriterStep, WriterWhile, WriterLock, StoreElement, CountElement,
        SignalData, WriterUnlock, FinishLock, Finish, FinishUnlock, data
  <1> QED
    BY <1>1, ReaderFrame, MainFrame DEF Next, Exited, vars, data

LEMMA ViewsStep ==
  ASSUME TypeOK, Unborn, BufferFilled, LinesAreTrue, ViewsAreTrue, [Next]_vars
  PROVE  ViewsAreTrue'
  <1>1. write_counter \in Nat /\ write_counter' \in Nat
        /\ write_counter' >= write_counter
    BY CounterGrows DEF TypeOK
  <1>2. ASSUME NEW s \in Readers
        PROVE  /\ view[s] = Upto(Len(view[s]))
               /\ Len(view[s]) \in Nat
               /\ Len(view[s]) <= write_counter
    BY DEF ViewsAreTrue, TypeOK
  <1>3. CASE UNCHANGED view
    BY <1>1, <1>2, <1>3 DEF ViewsAreTrue
  <1>4. ASSUME NEW r \in Readers, EndLine(r) PROVE ViewsAreTrue'
    <2>1. /\ view' = [view EXCEPT ![r] = Upto(write_counter)]
          /\ Len(view'[r]) = write_counter
      BY <1>4, EndLineView
    <2>2. view'[r] = Upto(Len(view'[r])) /\ Len(view'[r]) <= write_counter'
      BY <1>1, <2>1 DEF TypeOK
    <2>3. ASSUME NEW s \in Readers, s # r
          PROVE  view'[s] = view[s]
      BY <2>1, <2>3 DEF TypeOK
    <2> QED
      BY <1>1, <1>2, <2>2, <2>3 DEF ViewsAreTrue
  <1> QED
    BY <1>3, <1>4, ViewFrame

LEMMA FlagsStep ==
  ASSUME TypeOK, Unborn, MutualExclusion, BufferFilled, ReadersObeyFlags,
         [Next]_vars
  PROVE  ReadersObeyFlags'
  <1>1. CASE WriterStep
    <2>1. all_written => all_written'
      BY <1>1
      DEF WriterStep, WriterWhile, WriterLock, StoreElement, CountElement,
          SignalData, WriterUnlock, FinishLock, Finish, FinishUnlock, data
    <2>2. ASSUME NEW r \in Readers, pc[r] = "scan"
          PROVE  UNCHANGED <<data_available, all_written>>
      <3>1. pc[Writer] \notin WriterInside
        BY <2>2, ScanAlone
      <3> QED
        BY <1>1, <3>1
        DEF WriterStep, WriterWhile, WriterLock, StoreElement, CountElement,
            SignalData, WriterUnlock, FinishLock, Finish, FinishUnlock, At,
            WriterInside, data
    <2> QED
      BY <1>1, <2>1, <2>2, WriterFrame DEF ReadersObeyFlags
  <1>2. ASSUME NEW r \in Readers, ReaderStep(r) \/ SpuriousWakeup(r)
        PROVE  ReadersObeyFlags'
    <2>0. all_written => write_counter = ArraySize
      BY DEF BufferFilled
    <2>1. /\ pc'[r] = "scan" => data_available' /\ ~all_written'
          /\ pc'[r] = "done" => all_written'
      BY <1>2, <2>0, ThreadIds
      DEF ReaderStep, ReaderLock, CondWait, CondReturn, AfterWait, MustWait,
          NoMoreData, SpuriousWakeup, ReaderExit, StartLine, PrintCell,
          EndLine, ReaderUnlock, At, Goto, TypeOK, data, ReadersObeyFlags
    <2>2. ASSUME NEW s \in Readers \ {r}
          PROVE  /\ pc'[s] = "scan" => data_available' /\ ~all_written'
                 /\ pc'[s] = "done" => all_written'
      <3>1. UNCHANGED data_available \/ pc[r] = "scan"
        BY <1>2
        DEF ReaderStep, ReaderLock, CondWait, CondReturn, SpuriousWakeup,
            ReaderExit, StartLine, PrintCell, EndLine, ReaderUnlock, At, data
      <3>2. pc[r] = "scan" => pc[s] # "scan"
        BY ScanAlone
      <3> QED
        BY <1>2, <3>1, <3>2, ReaderFrame DEF ReadersObeyFlags
    <2> QED
      BY <2>1, <2>2 DEF ReadersObeyFlags
  <1>3. CASE MainStep
    BY <1>3, MainFrame, ThreadIds DEF ReadersObeyFlags, data
  <1>4. CASE UNCHANGED vars
    BY <1>4 DEF vars, data, ReadersObeyFlags
  <1> QED
    BY <1>1, <1>2, <1>3, <1>4 DEF Next, Exited

LEMMA NewsStep ==
  ASSUME TypeOK, Unborn, MutualExclusion, BufferFilled, LinesAreTrue,
         ViewsAreTrue, NewsIsNew, [Next]_vars
  PROVE  NewsIsNew'
  <1>0. /\ write_counter \in Nat
        /\ \A s \in Readers : Len(view[s]) \in Nat
        /\ \A s \in Readers : Len(view[s]) <= write_counter
    BY DEF TypeOK, ViewsAreTrue
  <1>1. CASE WriterStep
    <2>1. CASE CountElement
      <3>1. write_counter' = write_counter + 1 /\ view' = view
        BY <2>1 DEF CountElement, scan
      <3>2. ASSUME NEW s \in Readers
            PROVE  Len(view'[s]) < write_counter'
        <4>1. Len(view[s]) \in Nat /\ Len(view[s]) <= write_counter
          BY <1>0
        <4>2. Len(view'[s]) = Len(view[s])
          BY <3>1
        <4> QED
          BY <1>0, <3>1, <4>1, <4>2
      <3> QED
        BY <3>2 DEF NewsIsNew
    <2>2. CASE ~CountElement
      <3>1. UNCHANGED <<write_counter, view>>
        BY <1>1, <2>2
        DEF WriterStep, WriterWhile, WriterLock, StoreElement, SignalData,
            WriterUnlock, FinishLock, Finish, FinishUnlock, data, scan
      <3>2. pc'[Writer] # "signal"
        BY <1>1, <2>2, ThreadIds
        DEF WriterStep, WriterWhile, WriterLock, StoreElement, SignalData,
            WriterUnlock, FinishLock, Finish, FinishUnlock, Goto, TypeOK
      <3>3. data_available' /\ ~all_written' =>
              (data_available /\ ~all_written) \/ pc[Writer] = "signal"
        BY <1>1, <2>2
        DEF WriterStep, WriterWhile, WriterLock, StoreElement, SignalData,
            WriterUnlock, FinishLock, Finish, FinishUnlock, At, data
      <3> QED
        BY <3>1, <3>2, <3>3 DEF NewsIsNew
    <2> QED
      BY <2>1, <2>2
  <1>2. ASSUME NEW r \in Readers, ReaderStep(r) \/ SpuriousWakeup(r)
        PROVE  NewsIsNew'
    <2>1. CASE EndLine(r)
      <3>1. pc[r] = "scan" /\ ~data_available'
        BY <2>1 DEF EndLine, MarkConsumed, At
      <3>2. pc'[Writer] # "signal"
        BY <1>2, <3>1, ScanAlone, ReaderFrame DEF WriterInside
      <3> QED
        BY <3>1, <3>2 DEF NewsIsNew
    <2>2. CASE ~EndLine(r)
      <3>1. UNCHANGED <<data_available, view>>
        BY <1>2, <2>2
        DEF ReaderStep, ReaderLock, CondWait, CondReturn, SpuriousWakeup,
            ReaderExit, StartLine, PrintCell, ReaderUnlock, data, scan
      <3> QED
        BY <1>2, <3>1, ReaderFrame DEF NewsIsNew
    <2> QED
      BY <2>1, <2>2
  <1>3. CASE MainStep
    BY <1>3, MainFrame, ThreadIds DEF NewsIsNew, data, scan
  <1>4. CASE UNCHANGED vars
    BY <1>4 DEF vars, data, scan, NewsIsNew
  <1> QED
    BY <1>1, <1>2, <1>3, <1>4 DEF Next, Exited

LEMMA WakeupStep ==
  ASSUME TypeOK, Unborn, MutualExclusion, BufferFilled, NoLostWakeup,
         [Next]_vars
  PROVE  NoLostWakeup'
  <1>0. waiting \subseteq Readers
    BY DEF TypeOK
  <1>1. CASE WriterStep
    <2>1. CASE SignalData
      <3>1. waiting' # Readers
        <4>1. Readers # {}
          BY CondVarAssumption DEF CondVarAssumption, Readers
        <4> QED
          BY <1>0, <2>1, <4>1 DEF SignalData, pthread_cond_signal
      <3>2. waiting = {} => waiting' = {}
        BY <2>1 DEF SignalData, pthread_cond_signal
      <3> QED
        BY <2>1, <3>1, <3>2 DEF SignalData, NoLostWakeup
    <2>2. CASE Finish
      BY <2>2, CondVarAssumption
      DEF Finish, pthread_cond_broadcast, NoLostWakeup, CondVarAssumption,
          Readers
    <2>3. CASE UNCHANGED <<all_written, data_available, waiting>>
      BY <2>3 DEF NoLostWakeup
    <2> QED
      BY <1>1, <2>1, <2>2, <2>3
      DEF WriterStep, WriterWhile, WriterLock, StoreElement, CountElement,
          WriterUnlock, FinishLock, FinishUnlock, data
  <1>2. ASSUME NEW r \in Readers, ReaderStep(r) \/ SpuriousWakeup(r)
        PROVE  NoLostWakeup'
    <2>1. CASE CondWait(r)
      BY <2>1 DEF CondWait, MustWait, NoLostWakeup, data
    <2>2. CASE EndLine(r)
      BY <2>2 DEF EndLine, MarkConsumed, NoLostWakeup
    <2>3. CASE SpuriousWakeup(r)
      BY <1>0, <2>3 DEF SpuriousWakeup, NoLostWakeup, data
    <2>4. CASE UNCHANGED <<all_written, data_available, waiting>>
      BY <2>4 DEF NoLostWakeup
    <2> QED
      BY <1>2, <2>1, <2>2, <2>3, <2>4
      DEF ReaderStep, ReaderLock, CondReturn, ReaderExit, StartLine,
          PrintCell, ReaderUnlock, data
  <1>3. CASE MainStep
    BY <1>3, MainFrame DEF NoLostWakeup, data
  <1>4. CASE UNCHANGED vars
    BY <1>4 DEF vars, data, NoLostWakeup
  <1> QED
    BY <1>1, <1>2, <1>3, <1>4 DEF Next, Exited

-----------------------------------------------------------------------------
(* The theorems.                                                           *)

(* Every reachable state satisfies the whole invariant: types, mutual      *)
(* exclusion on the mutex of condvar.c, a buffer filled from the left, and *)
(* lines and flags that agree with it.                                     *)
THEOREM Invariance == Spec => []IInv
  <1>1. Init => IInv
    BY InitInv
  <1>2. IInv /\ [Next]_vars => IInv'
    BY TypeStep, UnbornStep, MutexStep, WaitersStep, FilledStep, LinesStep,
       ViewsStep, FlagsStep, NewsStep, WakeupStep
    DEF IInv
  <1> QED
    BY <1>1, <1>2, PTL DEF Spec

(* The state is well-typed; in particular write_counter never runs past    *)
(* ARRAY_SIZE and no array access is out of bounds (condvar.c:27-34).      *)
THEOREM Typing == Spec => []TypeOK
  <1>1. IInv => TypeOK
    BY DEF IInv
  <1> QED
    BY <1>1, Invariance, PTL

(* Whatever the number of readers, announced data keeps a reader awake and *)
(* nobody sleeps once everything is written (condvar.c:36-37, 47-48).      *)
THEOREM WakeupsAreKept == Spec => []NoLostWakeup
  <1>1. IInv => NoLostWakeup
    BY DEF IInv
  <1> QED
    BY <1>1, Invariance, PTL

(* Whatever the number of readers, each completed line has more elements   *)
(* than every line completed before it (condvar.c:65-87).                  *)
THEOREM LinesAreFresh == Spec => FreshLines
  <1>1. IInv /\ [Next]_vars =>
          [\A r \in Readers : pc[r] = "scan" /\ pc'[r] = "unlock" =>
             \A s \in Readers : Len(view[s]) < Len(view'[r])]_vars
    <2> SUFFICES ASSUME IInv, [Next]_vars, NEW r \in Readers,
                        pc[r] = "scan", pc'[r] = "unlock", NEW s \in Readers
                 PROVE  Len(view[s]) < Len(view'[r])
      OBVIOUS
    <2>1. EndLine(r)
      BY LineEnds DEF IInv
    <2>2. Len(view'[r]) = write_counter
      BY <2>1, EndLineView DEF IInv
    <2>3. data_available /\ ~all_written
      BY <2>1 DEF IInv, EndLine, At, ReadersObeyFlags
    <2> QED
      BY <2>2, <2>3 DEF IInv, NewsIsNew
  <1> QED
    BY <1>1, Invariance, PTL DEF Spec, FreshLines

(* The published elements are the first write_counter ones.                *)
LEMMA LogIs == TypeOK /\ BufferFilled => Log = Upto(write_counter)
  <1> SUFFICES ASSUME TypeOK, BufferFilled PROVE Log = Upto(write_counter)
    OBVIOUS
  <1>1. write_counter \in 0..ArraySize /\ ArraySize \in Nat
    BY CondVarAssumption DEF TypeOK, CondVarAssumption
  <1>2. ASSUME NEW i \in 1..write_counter
        PROVE  shared_array[i - 1] = i
    <2>1. i - 1 \in 0..ArraySize - 1 /\ i - 1 < write_counter
      BY <1>1
    <2>2. shared_array[i - 1] = (i - 1) + 1
      BY <2>1 DEF BufferFilled
    <2> QED
      BY <2>2
  <1> QED
    BY <1>2 DEF Log, Upto

(* The same after a step: what holds of every state holds of the next one. *)
LEMMA LogIsNext == (TypeOK /\ BufferFilled => Log = Upto(write_counter))'
  BY LogIs, PTL

LEMMA RefinesInit == Init => Snapshot!Init
  BY ThreadIds, CondVarAssumption
  DEF Init, Snapshot!Init, Log, CondVarAssumption

LEMMA RefinesStep ==
  ASSUME IInv, IInv', [Next]_vars
  PROVE  [Snapshot!Next]_(Snapshot!vars)
  <1> DEFINE Stopped == {r \in Readers : pc[r] = "done"}
  <1>0. /\ Log = Upto(write_counter) /\ Log' = Upto(write_counter')
        /\ write_counter \in Nat /\ Len(Log) = write_counter
    <2>1. Log = Upto(write_counter) /\ Log' = Upto(write_counter')
      BY LogIs, LogIsNext DEF IInv
    <2>2. write_counter \in Nat
      BY DEF IInv, TypeOK
    <2> QED
      BY <2>1, <2>2, UptoLen
  <1>1. CASE WriterStep
    <2>1. view' = view /\ Stopped' = Stopped
      BY <1>1, WriterFrame DEF IInv, scan
    <2>2. CASE CountElement
      <3>1. write_counter' = write_counter + 1 /\ write_counter < ArraySize
        BY <2>2 DEF CountElement, At, IInv, BufferFilled
      <3>2. Log' = Append(Log, Len(Log) + 1)
        BY <1>0, <3>1, UptoAppend
      <3> QED
        BY <1>0, <2>1, <3>1, <3>2 DEF Snapshot!Next, Snapshot!Publish
    <2>3. CASE ~CountElement
      <3>1. write_counter' = write_counter
        BY <1>1, <2>3
        DEF WriterStep, WriterWhile, WriterLock, StoreElement, SignalData,
            WriterUnlock, FinishLock, Finish, FinishUnlock, data
      <3> QED
        BY <1>0, <2>1, <3>1 DEF Snapshot!vars
    <2> QED
      BY <2>2, <2>3
  <1>2. ASSUME NEW r \in Readers, ReaderStep(r) \/ SpuriousWakeup(r)
        PROVE  [Snapshot!Next]_(Snapshot!vars)
    <2>1. Log' = Log
      BY <1>0, <1>2, ReaderFrame DEF IInv
    <2>2. CASE EndLine(r)
      <3>1. view' = [view EXCEPT ![r] = Log]
        BY <1>0, <2>2, EndLineView DEF IInv
      <3>2. pc[r] = "scan" /\ pc' = [pc EXCEPT ![r] = "unlock"]
        BY <2>2 DEF EndLine, At, Goto
      <3>3. Stopped' = Stopped /\ r \notin Stopped
        BY <3>2, ThreadIds DEF IInv, TypeOK
      <3> QED
        BY <2>1, <3>1, <3>3 DEF Snapshot!Next, Snapshot!Show
    <2>3. CASE ReaderExit(r)
      <3>1. view' = view /\ write_counter = ArraySize
            /\ pc' = [pc EXCEPT ![r] = "done"]
        BY <2>3 DEF ReaderExit, NoMoreData, Goto, scan
      <3>2. Stopped' = Stopped \cup {r}
        BY <3>1, ThreadIds, ZenonT(60) DEF IInv, TypeOK
      <3> QED
        BY <1>0, <2>1, <3>1, <3>2 DEF Snapshot!Next, Snapshot!Stop
    <2>4. CASE ~EndLine(r) /\ ~ReaderExit(r)
      <3>1. view' = view
        BY <1>2, <2>4
        DEF ReaderStep, ReaderLock, CondWait, CondReturn, SpuriousWakeup,
            StartLine, PrintCell, ReaderUnlock, scan
      <3>2. pc[r] # "done" /\ pc'[r] # "done"
        BY <1>2, <2>4, ThreadIds
        DEF ReaderStep, ReaderLock, CondWait, CondReturn, AfterWait,
            SpuriousWakeup, StartLine, PrintCell, ReaderUnlock, At, Goto,
            IInv, TypeOK, WaitersWait
      <3>3. Stopped' = Stopped
        BY <1>2, <3>2, ReaderFrame DEF IInv
      <3> QED
        BY <2>1, <3>1, <3>3 DEF Snapshot!vars
    <2> QED
      BY <2>2, <2>3, <2>4
  <1>3. CASE MainStep
    <2>1. /\ view' = view /\ write_counter' = write_counter
          /\ \A t \in Readers : pc'[t] = "done" <=> pc[t] = "done"
      BY <1>3, MainFrame, ThreadIds DEF IInv, scan, data
    <2>2. Stopped' = Stopped
      BY <2>1
    <2> QED
      BY <1>0, <2>1, <2>2 DEF Snapshot!vars
  <1>4. CASE UNCHANGED vars
    <2>1. view' = view /\ write_counter' = write_counter /\ Stopped' = Stopped
      BY <1>4 DEF vars, scan, data
    <2> QED
      BY <1>0, <2>1 DEF Snapshot!vars
  <1> QED
    BY <1>1, <1>2, <1>3, <1>4 DEF Next, Exited

(* The program implements PrefixBuffer: although lines are printed cell by *)
(* cell, each completed line is what the buffer held at one instant, and a *)
(* reader leaves only when the buffer is full (condvar.c:25-92).           *)
THEOREM Refinement == Spec => SnapshotSpec
  <1>1. Init => Snapshot!Init
    BY RefinesInit
  <1>2. IInv /\ IInv' /\ [Next]_vars => [Snapshot!Next]_(Snapshot!vars)
    BY RefinesStep
  <1> QED
    BY <1>1, <1>2, Invariance, PTL DEF Spec, SnapshotSpec, Snapshot!Spec
=============================================================================
