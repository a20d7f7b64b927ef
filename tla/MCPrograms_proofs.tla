------------------------- MODULE MCPrograms_proofs --------------------------
(***************************************************************************)
(* Theorems about the programs of labs 2, 3, 5, 6 and 7.  Each program's   *)
(* invariant stands in its own module; here it is shown to be kept by the  *)
(* steps of the program, and so by those of MCPrograms, where only the     *)
(* program that runs takes steps.                                          *)
(***************************************************************************)
EXTENDS MCPrograms, FiniteSetTheorems, SequenceTheorems, TLAPS

(* Lab 7's theorems stand in ShmTransfer_proofs, for any senders,          *)
(* receivers, pieces and messages.                                         *)
ShmP == INSTANCE ShmTransfer_proofs WITH
  Senders <- {Sender}, Receivers <- {Receiver}, Pieces <- {1, 2}, Messages <- 2,
  keyFile <- a, segment <- b, memory <- c, shmkey <- d, shmid <- e,
  toCopy <- f, number <- g, data <- h, signals <- i
SendersP == INSTANCE ShmTransfer_proofs WITH
  Senders <- {Sender} \cup OtherSenders, Receivers <- {}, Pieces <- {1}, Messages <- 1,
  keyFile <- a, segment <- b, memory <- c, shmkey <- d, shmid <- e,
  toCopy <- f, number <- g, data <- h, signals <- i

LEMMA OneProgram ==
  ASSUME [Next]_vars
  PROVE  /\ program' = program
         /\ program = "myls" => [Ls!Next]_(Ls!vars)
         /\ program = "monitor" => [Monitor!Next]_(Monitor!vars)
         /\ program = "archiver" => [Race!Next]_(Race!vars)
         /\ program = "shared_memory" => [Shm!Next]_(Shm!vars)
         /\ program = "senders" => [ShmSenders!Next]_(ShmSenders!vars)
         /\ program \in {"pipe", "fifo"} => UNCHANGED memory
         /\ [Pipe!Next]_(Pipe!vars) /\ [Fifo!Next]_(Fifo!vars)
BY DEF Next, LsNext, MonitorNext, RaceNext, PipeNext, FifoNext, ShmNext,
  SendersNext, Others, vars, memory, pipeVars, fifoVars, Ls!vars,
  Monitor!vars, Race!vars, Race!history, Shm!vars, ShmSenders!vars, Pipe!vars, Fifo!vars

-----------------------------------------------------------------------------
(* Lab 2.  The memory of myls, by the names it has in ListDirectory.       *)
there     == a
stream    == b
list      == d
allocated == e
capacity  == f
index     == g
freed     == h
shown     == i

(* A list of different names of a list, as long as that, has them all.     *)
LEMMA NothingIsMissing ==
  ASSUME NEW s \in Seq(Names), \A k, m \in DOMAIN s : k # m => s[k] # s[m],
         NEW t \in [DOMAIN s -> {s[k] : k \in DOMAIN s}],
         \A k, m \in DOMAIN s : k # m => t[k] # t[m]
  PROVE  {t[k] : k \in DOMAIN s} = {s[k] : k \in DOMAIN s}
<1> DEFINE S == {s[k] : k \in DOMAIN s}
<1>1. s \in Surjection(1..Len(s), S) /\ s \in Injection(1..Len(s), S)
  <2>1. s \in [1..Len(s) -> S] /\ DOMAIN s = 1..Len(s)
    OBVIOUS
  <2>2. \A n \in S : \E k \in 1..Len(s) : s[k] = n
    BY <2>1
  <2>3. QED
    BY <2>1, <2>2 DEF Injection, IsInjective, Surjection
<1>2. IsFiniteSet(1..Len(s))
  BY FS_Interval
<1>3. IsFiniteSet(S) /\ Cardinality(S) = Cardinality(1..Len(s))
  BY <1>1, <1>2, FS_Surjection
<1>4. t \in Injection(1..Len(s), S)
  <2>1. t \in [1..Len(s) -> S] /\ DOMAIN s = 1..Len(s)
    OBVIOUS
  <2>2. QED
    BY <2>1, Zenon DEF Injection, IsInjective
<1>5. t \in Surjection(1..Len(s), S)
  BY <1>3, <1>4, FS_Injection
<1>6. QED
  <2>1. DOMAIN s = 1..Len(s)
    OBVIOUS
  <2> HIDE DEF S
  <2>2. t \in [1..Len(s) -> S] /\ \A n \in S : \E k \in 1..Len(s) : t[k] = n
    BY <1>5 DEF Surjection
  <2>3. {t[k] : k \in DOMAIN s} = S
    BY <2>1, <2>2
  <2>4. QED
    BY <2>3 DEF S

LEMMA LsInit == ASSUME Ls!Init PROVE Ls!IInv
<1> USE DEF list, shown, freed, there, stream, index, allocated, capacity
<1>1. Ls!Flags
  BY DEF Ls!Init, Ls!Flags
<1>2. QED
  BY <1>1 DEF Ls!Init, Ls!IInv, Ls!TypeOK, Ls!InList, Ls!Distinct, Ls!Fresh, Ls!Displaying, Ls!FreedOnce,
    Ls!ShowsAllSorted, Ls!Ended

LEMMA FlagsKept == ASSUME Ls!Flags, [Ls!Next]_(Ls!vars) PROVE Ls!Flags'
BY DEF Ls!Flags, Ls!Next, Ls!vars, Ls!Main, Ls!OpenDirectory, Ls!LoadEntry, Ls!LoadFails, Ls!CleanupApp, Ls!Sort,
  Ls!SkipHidden, Ls!Display, Ls!LstatFails, Ls!PathTooLong, Ls!Finish, Ls!Remove, Ls!FreeList

(* Reading the directory: a copy is made of every name, and none freed.    *)
LEMMA LoadKeeps ==
  ASSUME Ls!IInv, Ls!Main \/ Ls!OpenDirectory \/ Ls!LoadEntry \/ Ls!LoadFails \/ Ls!CleanupApp
  PROVE  Ls!IInv'
<1> USE ProgramsAssumption DEF list, shown, freed, there, stream, index, allocated, capacity,
  Ls!IInv, Ls!TypeOK, Ls!InList, Ls!Ended
<1>0. Ls!Flags'
  BY FlagsKept DEF Ls!Next
<1>1. CASE Ls!Main
  BY <1>0, <1>1 DEF Ls!Main, Ls!Distinct, Ls!Fresh, Ls!Displaying, Ls!FreedOnce, Ls!ShowsAllSorted
<1>2. CASE Ls!OpenDirectory
  <2>1. CASE pc' = "load"
    BY <1>0, <1>2, <2>1 DEF Ls!OpenDirectory, Ls!Distinct, Ls!Fresh, Ls!Displaying, Ls!FreedOnce, Ls!ShowsAllSorted
  <2>2. CASE pc' = "ended"
    BY <1>0, <1>2, <2>2 DEF Ls!OpenDirectory, Ls!Distinct, Ls!Fresh, Ls!Displaying, Ls!FreedOnce, Ls!ShowsAllSorted
  <2>3. QED
    BY <1>2, <2>1, <2>2 DEF Ls!OpenDirectory
<1>3. CASE Ls!LoadEntry
  <2>1. PICK n \in stream :
          /\ capacity' = IF Len(list) >= capacity THEN 2 * capacity ELSE capacity
          /\ list' = Append(list, n)
          /\ stream' = stream \ {n}
    BY <1>3 DEF Ls!LoadEntry
  <2>2. /\ pc = "load" /\ UNCHANGED <<there, c, allocated, index, freed, shown, pc>>
        /\ allocated /\ capacity \in Nat /\ capacity >= 1 /\ Len(list) <= capacity
    BY <1>3 DEF Ls!LoadEntry, Ls!Fresh
  <2>3. /\ list' \in Seq(Names) /\ Len(list') = Len(list) + 1
        /\ \A k \in 1..Len(list) : list'[k] = list[k]
        /\ list'[Len(list) + 1] = n
    BY <2>1
  <2>4. Ls!InList' = Ls!InList \cup {n} /\ n \notin Ls!InList
    BY <2>1, <2>2, <2>3, SMTT(30) DEF Ls!Fresh
  <2>5. Ls!Distinct'
    BY <2>3, <2>4, SMTT(30) DEF Ls!Distinct
  <2>6. Ls!Fresh'
    BY <2>1, <2>2, <2>4, SMTT(30) DEF Ls!Fresh
  <2>7. Len(list') <= capacity' /\ capacity' \in Nat
    BY <2>1, <2>2, <2>3
  <2>8. QED
    BY <1>0, <2>1, <2>2, <2>3, <2>4, <2>5, <2>6, <2>7 DEF Ls!Displaying, Ls!FreedOnce, Ls!ShowsAllSorted
<1>4. CASE Ls!LoadFails
  BY <1>0, <1>4 DEF Ls!LoadFails, Ls!FreeList, Ls!Distinct, Ls!Fresh, Ls!Displaying, Ls!FreedOnce, Ls!ShowsAllSorted
<1>5. CASE Ls!CleanupApp
  <2>1. /\ freed' = freed /\ ~allocated'
        /\ pc = "report_error" /\ pc' = "ended"
        /\ UNCHANGED <<there, stream, c, list, capacity, index, shown>>
    BY <1>5 DEF Ls!CleanupApp, Ls!FreeList, Ls!Fresh
  <2>2. QED
    BY <1>0, <2>1 DEF Ls!Distinct, Ls!Fresh, Ls!Displaying, Ls!FreedOnce, Ls!ShowsAllSorted
<1>6. QED
  BY <1>1, <1>2, <1>3, <1>4, <1>5

LEMMA SortKeeps ==
  ASSUME Ls!IInv, Ls!Sort
  PROVE  Ls!IInv'
<1> USE ProgramsAssumption DEF list, shown, freed, there, stream, index, allocated, capacity,
  Ls!IInv, Ls!TypeOK, Ls!InList, Ls!Ended
<1>0. Ls!Flags'
  BY FlagsKept DEF Ls!Next
<1>1. /\ pc = "load" /\ stream \cap there = {}
      /\ list' \in [DOMAIN list -> Ls!InList]
      /\ \A k, m \in DOMAIN list : k < m => list'[k] # list'[m] /\ ~Ls!Before(list'[m], list'[k])
      /\ pc' = "display" /\ index' = 1
      /\ UNCHANGED <<there, stream, c, allocated, capacity, freed, shown>>
  BY DEF Ls!Sort
<1>2. DOMAIN list = 1..Len(list) /\ Len(list) \in Nat
  OBVIOUS
<1>3. list' \in Seq(Names) /\ Len(list') = Len(list) /\ DOMAIN list' = DOMAIN list
  <2>1. list' \in [1..Len(list) -> Names]
    BY <1>1, <1>2
  <2>2. QED
    BY <1>2, <2>1
<1>4. \A k, m \in DOMAIN list : k # m => list'[k] # list'[m]
  BY <1>1, <1>2
<1>5. Ls!InList' = Ls!InList
  <2>1. \A k, m \in DOMAIN list : k # m => list[k] # list[m]
    BY DEF Ls!Distinct
  <2>2. {list'[k] : k \in DOMAIN list} = {list[k] : k \in DOMAIN list}
    <3>1. list \in Seq(Names) /\ list' \in [DOMAIN list -> {list[k] : k \in DOMAIN list}]
      BY <1>1
    <3> HIDE DEF list, Ls!IInv
    <3>2. QED
      BY <3>1, <1>4, <2>1, NothingIsMissing
  <2>3. QED
    BY <2>2, <1>3
<1>6. Ls!Distinct'
  BY <1>3, <1>4 DEF Ls!Distinct
<1>7. Ls!TypeOK'
  BY <1>0, <1>1, <1>3, <1>5
<1>8. Ls!Displaying'
  <2>1. there' \subseteq Ls!InList'
    BY <1>1, <1>5 DEF Ls!Fresh
  <2>2. shown' = <<>> /\ (\A n \in Names : freed'[n] = 0) /\ Ls!Handled' = {}
    BY <1>1 DEF Ls!Fresh, Ls!Handled
  <2>3. QED
    BY <1>1, <1>3, <2>1, <2>2 DEF Ls!Displaying, Ls!Fresh
<1>9. QED
  BY <1>1, <1>3, <1>6, <1>7, <1>8 DEF Ls!Fresh, Ls!FreedOnce, Ls!ShowsAllSorted

(* The copy at index, which the loop comes to next, is handled then.       *)
LEMMA NextEntry ==
  ASSUME Ls!IInv, Ls!AtEntry
  PROVE  /\ index \in DOMAIN list /\ list[index] \in Names
         /\ list[index] \notin Ls!Handled /\ freed[list[index]] = 0
         /\ {list[k] : k \in 1..index} = Ls!Handled \cup {list[index]}
         /\ Ls!Handled \subseteq Ls!InList
<1> USE DEF list, freed, index, Ls!IInv
<1>1. index \in 1..Len(list) /\ list \in Seq(Names)
  BY DEF Ls!AtEntry, Ls!Displaying
<1>2. \A k \in 1..index - 1 : k \in DOMAIN list /\ list[k] # list[index]
  BY <1>1 DEF Ls!Distinct
<1>3. list[index] \notin Ls!Handled
  BY <1>2 DEF Ls!Handled
<1>4. freed[list[index]] = 0
  BY <1>1, <1>3 DEF Ls!Displaying, Ls!AtEntry
<1>5. {list[k] : k \in 1..index} = Ls!Handled \cup {list[index]}
  <2>1. 1..index = (1..index - 1) \cup {index}
    BY <1>1
  <2>2. QED
    BY <2>1 DEF Ls!Handled
<1>6. QED
  BY <1>1, <1>2, <1>3, <1>4, <1>5 DEF Ls!Handled, Ls!InList

LEMMA DisplayKeeps ==
  ASSUME Ls!IInv, Ls!SkipHidden \/ Ls!Display
  PROVE  Ls!IInv'
<1> USE DEF list, shown, freed, there, stream, index, allocated, capacity,
  Ls!IInv, Ls!TypeOK, Ls!InList, Ls!Ended
<1> DEFINE n == list[index]
<1>0. Ls!Flags'
  BY FlagsKept DEF Ls!Next
<1>1. /\ pc = "display" /\ pc' = pc /\ index' = index + 1
      /\ freed' = [freed EXCEPT ![n] = @ + 1]
      /\ UNCHANGED <<there, stream, c, list, allocated, capacity>>
      /\ Ls!AtEntry
  BY DEF Ls!SkipHidden, Ls!Display, Ls!AtEntry, Ls!FreeOne
<1>2. /\ index \in DOMAIN list /\ n \in Names /\ n \notin Ls!Handled /\ freed[n] = 0
      /\ Ls!Handled \subseteq Ls!InList
  BY <1>1, NextEntry
<1>3. Ls!Handled' = Ls!Handled \cup {n}
  <2>1. Ls!Handled' = {list[k] : k \in 1..index}
    BY <1>1, <1>2 DEF Ls!Handled
  <2>2. QED
    BY <1>1, <2>1, NextEntry
<1>4. \A m \in Names : freed'[m] = IF m \in Ls!Handled' THEN 1 ELSE 0
  BY <1>1, <1>2, <1>3 DEF Ls!Displaying
<1>5. index' \in 1..Len(list') + 1
  BY <1>1, <1>2
<1>6. /\ shown' \in Seq(Names)
      /\ \A k \in DOMAIN shown' : shown'[k] \in Ls!Handled'
      /\ \A k, m \in DOMAIN shown' :
           k < m => shown'[k] # shown'[m] /\ ~Ls!Before(shown'[m], shown'[k])
      /\ \A m \in Ls!Handled' \cap there' :
           m \notin Hidden \/ c' => \E k \in DOMAIN shown' : shown'[k] = m
  <2>1. CASE Ls!SkipHidden
    BY <2>1, <1>1, <1>2, <1>3 DEF Ls!SkipHidden, Ls!Skipped, Ls!Displaying
  <2>2. CASE Ls!Display
    <3>1. shown' = Append(shown, n)
      BY <2>2 DEF Ls!Display
    <3>2. /\ Len(shown') = Len(shown) + 1 /\ Len(shown) \in Nat
          /\ \A k \in 1..Len(shown) : shown'[k] = shown[k]
          /\ shown'[Len(shown) + 1] = n
          /\ shown' \in Seq(Names)
          /\ DOMAIN shown = 1..Len(shown) /\ DOMAIN shown' = 1..Len(shown) + 1
      BY <3>1, <1>2
    <3>3. \A m \in Ls!Handled : ~Ls!Before(n, m) /\ m # n
      BY <1>1, <1>2 DEF Ls!Displaying, Ls!Handled
    <3>4. \A k, m \in DOMAIN shown' :
            k < m => shown'[k] # shown'[m] /\ ~Ls!Before(shown'[m], shown'[k])
      <4> SUFFICES ASSUME NEW k \in DOMAIN shown', NEW m \in DOMAIN shown', k < m
                   PROVE  shown'[k] # shown'[m] /\ ~Ls!Before(shown'[m], shown'[k])
        OBVIOUS
      <4>1. CASE m = Len(shown) + 1
        BY <4>1, <3>2, <3>3, <1>1, SMTT(30) DEF Ls!Displaying
      <4>2. CASE m # Len(shown) + 1
        <5>1. k \in DOMAIN shown /\ m \in DOMAIN shown
          BY <4>2, <3>2
        <5>2. QED
          BY <5>1, <3>2, <1>1 DEF Ls!Displaying
      <4>3. QED
        BY <4>1, <4>2
    <3>5. \A k \in DOMAIN shown' : shown'[k] \in Ls!Handled'
      BY <3>2, <1>1, <1>3 DEF Ls!Displaying
    <3>6. \A m \in Ls!Handled' \cap there' :
            m \notin Hidden \/ c' => \E k \in DOMAIN shown' : shown'[k] = m
      <4> SUFFICES ASSUME NEW m \in Ls!Handled' \cap there', m \notin Hidden \/ c'
                   PROVE  \E k \in DOMAIN shown' : shown'[k] = m
        OBVIOUS
      <4>1. CASE m = n
        BY <4>1, <3>2
      <4>2. CASE m # n
        <5>1. PICK k \in DOMAIN shown : shown[k] = m
          BY <4>2, <1>1, <1>3 DEF Ls!Displaying
        <5>2. QED
          BY <5>1, <3>2
      <4>3. QED
        BY <4>1, <4>2
    <3>7. QED
      BY <3>2, <3>4, <3>5, <3>6
  <2>3. QED
    BY <2>1, <2>2
<1>7. Ls!Displaying'
  BY <1>1, <1>4, <1>5, <1>6 DEF Ls!Displaying
<1>8. Ls!TypeOK'
  <2>1. freed' \in [Names -> 0..2]
    BY <1>1, <1>2
  <2>2. pc' = "display" /\ there' = there /\ list' = list /\ capacity' = capacity /\ stream' = stream
    BY <1>1
  <2>3. {shown'[k] : k \in DOMAIN shown'} \subseteq Names
    BY <1>6
  <2>4. QED
    BY <1>0, <1>5, <2>1, <2>2, <2>3
<1>9. QED
  BY <1>1, <1>6, <1>7, <1>8 DEF Ls!Distinct, Ls!Fresh, Ls!FreedOnce, Ls!ShowsAllSorted

(* The ends of the loop.                                                   *)
LEMMA EndKeeps ==
  ASSUME Ls!IInv, Ls!LstatFails \/ Ls!PathTooLong \/ Ls!Finish
  PROVE  Ls!IInv'
<1> USE DEF list, shown, freed, there, stream, index, allocated, capacity,
  Ls!IInv, Ls!TypeOK, Ls!InList, Ls!Ended
<1>0. Ls!Flags'
  BY FlagsKept DEF Ls!Next
<1>1. CASE Ls!LstatFails
  <2> DEFINE n == list[index]
  <2>1. /\ pc = "display" /\ pc' = "lstat_failed" /\ ~allocated'
        /\ UNCHANGED <<there, stream, c, list, capacity, index, shown>>
        /\ Ls!AtEntry /\ allocated
        /\ freed' = [m \in Names |-> IF m \in Ls!InList THEN Ls!FreeOne(freed, n)[m] + 1
                                     ELSE Ls!FreeOne(freed, n)[m]]
    BY <1>1 DEF Ls!LstatFails, Ls!AtEntry, Ls!FreeList, Ls!Displaying
  <2>2. /\ index \in DOMAIN list /\ n \in Names /\ n \notin Ls!Handled /\ freed[n] = 0
        /\ Ls!Handled \subseteq Ls!InList /\ n \in Ls!InList
    BY <2>1, NextEntry
  <2>3. \A m \in Names : freed'[m] = IF m \in Ls!Handled \cup {n} THEN 2
                                     ELSE IF m \in Ls!InList THEN 1 ELSE 0
    BY <2>1, <2>2 DEF Ls!Displaying, Ls!FreeOne
  <2>4. Ls!Handled = {list[k] : k \in {m \in DOMAIN list : m < index}}
    BY <2>2 DEF Ls!Handled
  <2>5. Ls!FreedOnce'
    BY <2>1, <2>3, <2>4 DEF Ls!FreedOnce
  <2>6. QED
    BY <1>0, <2>1, <2>3, <2>5 DEF Ls!Distinct, Ls!Fresh, Ls!Displaying, Ls!ShowsAllSorted
<1>2. CASE Ls!PathTooLong
  <2>1. /\ pc = "display" /\ pc' = "path_too_long" /\ ~allocated'
        /\ UNCHANGED <<there, stream, c, list, capacity, index, shown>>
        /\ Ls!AtEntry /\ allocated
        /\ freed' = [m \in Names |-> IF m \in Ls!InList THEN freed[m] + 1 ELSE freed[m]]
    BY <1>2 DEF Ls!PathTooLong, Ls!AtEntry, Ls!FreeList, Ls!Displaying
  <2>2. index \in DOMAIN list /\ Ls!Handled \subseteq Ls!InList
    BY <2>1, NextEntry
  <2>3. \A m \in Names : freed'[m] = IF m \in Ls!Handled THEN 2
                                     ELSE IF m \in Ls!InList THEN 1 ELSE 0
    BY <2>1, <2>2 DEF Ls!Displaying
  <2>4. Ls!Handled = {list[k] : k \in {m \in DOMAIN list : m < index}}
    BY <2>2 DEF Ls!Handled
  <2>5. Ls!FreedOnce'
    BY <2>1, <2>3, <2>4 DEF Ls!FreedOnce
  <2>6. QED
    BY <1>0, <2>1, <2>3, <2>5 DEF Ls!Distinct, Ls!Fresh, Ls!Displaying, Ls!ShowsAllSorted
<1>3. CASE Ls!Finish
  <2>1. /\ pc = "display" /\ pc' = "listed" /\ ~allocated' /\ index = Len(list) + 1
        /\ UNCHANGED <<there, stream, c, list, capacity, index, freed, shown>>
    BY <1>3 DEF Ls!Finish, Ls!Displaying
  <2>2. Ls!Handled = Ls!InList
    BY <2>1 DEF Ls!Handled
  <2>3. Ls!FreedOnce'
    BY <2>1, <2>2 DEF Ls!FreedOnce, Ls!Displaying
  <2>4. Ls!Displaying' /\ Ls!ShowsAllSorted'
    BY <2>1, <2>2 DEF Ls!Displaying, Ls!ShowsAllSorted, Ls!Handled
  <2>5. QED
    BY <1>0, <2>1, <2>3, <2>4 DEF Ls!Distinct, Ls!Fresh
<1>4. QED
  BY <1>1, <1>2, <1>3

LEMMA LsNextKeeps ==
  ASSUME Ls!IInv, [Ls!Next]_(Ls!vars)
  PROVE  Ls!IInv'
<1>0. Ls!IInv => Ls!Flags'
  BY FlagsKept DEF Ls!IInv, Ls!TypeOK
<1>1. ASSUME NEW n \in Names, Ls!Remove(n) PROVE Ls!IInv'
  <2> USE DEF list, shown, freed, there, stream, index, allocated, capacity
  <2>1. /\ there' \subseteq there /\ ~Ls!Ended
        /\ UNCHANGED <<stream, c, list, allocated, capacity, index, freed, shown, pc>>
    BY <1>1 DEF Ls!Remove
  <2>2. Ls!InList' = Ls!InList /\ Ls!Handled' = Ls!Handled /\ Ls!Ended' = Ls!Ended
    BY <2>1 DEF Ls!InList, Ls!Handled, Ls!Ended
  <2>3. Ls!TypeOK' /\ Ls!Flags'
    BY <1>0, <1>1, <2>1, <2>2 DEF Ls!IInv, Ls!TypeOK, Ls!Next
  <2>4. Ls!Distinct' /\ Ls!Fresh' /\ list' \in Seq(Names) /\ shown' \in Seq(Names) /\ capacity' \in Nat
    BY <2>1, <2>2 DEF Ls!IInv, Ls!Distinct, Ls!Fresh
  <2>5. Ls!Displaying'
    BY <2>1, <2>2 DEF Ls!IInv, Ls!Displaying
  <2>6. Ls!FreedOnce' /\ Ls!ShowsAllSorted'
    BY <2>1, <2>2 DEF Ls!FreedOnce, Ls!ShowsAllSorted, Ls!Ended
  <2>7. QED
    BY <2>3, <2>4, <2>5, <2>6 DEF Ls!IInv
<1>2. CASE UNCHANGED Ls!vars
  BY <1>0, <1>2 DEF Ls!vars, Ls!IInv, Ls!TypeOK, Ls!InList, Ls!Ended, Ls!Distinct, Ls!Fresh,
     Ls!Displaying, Ls!Handled, Ls!FreedOnce, Ls!ShowsAllSorted
<1>3. QED
  BY <1>1, <1>2, LoadKeeps, SortKeeps, DisplayKeeps, EndKeeps DEF Ls!Next

LEMMA LsInvariance == Spec => [](program = "myls" => Ls!IInv)
<1>1. Init => (program = "myls" => Ls!IInv)
  BY LsInit DEF Init
<1>2. (program = "myls" => Ls!IInv) /\ [Next]_vars => (program = "myls" => Ls!IInv)'
  BY LsNextKeeps, OneProgram
<1>3. QED
  BY <1>1, <1>2, PTL DEF Spec

(* For any directory and any room the list starts with: each copy is freed *)
(* once, but for those a failing display has already seen (myls.c:183-188, *)
(* 221, 230, 317, 333-335).                                                *)
THEOREM CopiesAreFreedOnce == Spec => []FreedOnce
<1>1. Ls!IInv => Ls!FreedOnce
  BY DEF Ls!IInv
<1>2. QED
  BY <1>1, LsInvariance, PTL DEF FreedOnce

(* A listing that gets to its end is sorted and complete, whatever is      *)
(* removed meanwhile (myls.c:216, 329-331, 342-350).                       *)
THEOREM ListingsAreComplete == Spec => []ShowsAllSorted
<1>1. Ls!IInv => Ls!ShowsAllSorted
  BY DEF Ls!IInv
<1>2. QED
  BY <1>1, LsInvariance, PTL DEF ShowsAllSorted

-----------------------------------------------------------------------------
(* Lab 3.  The memory of the monitor, by the names it has in ForkMonitor.  *)
cleanups == d
buffered == e
printed  == f
worked   == g
report   == i
terminal == j

LEMMA MonitorInit == Monitor!Init => Monitor!IInv
<1>1. Monitor!Init => Monitor!Flags
  BY DEF Monitor!Init, Monitor!Flags
<1>2. QED
  BY <1>1 DEF Monitor!Init, Monitor!IInv, Monitor!TypeOK, Monitor!Registered, Monitor!Handlers,
  Monitor!Reported, Monitor!LinesWritten, Monitor!Processes, Monitor!Killers,
  Monitor!Endings, Monitor!None, Monitor!Interrupted, printed, cleanups, buffered, terminal,
  worked, report

(* Each step keeps what a process still has to do, or has done, balanced.  *)
LEMMA MonitorNextKeeps == Monitor!IInv /\ [Monitor!Next]_(Monitor!vars) => Monitor!IInv'
<1> SUFFICES ASSUME Monitor!IInv, [Monitor!Next]_(Monitor!vars)
             PROVE  Monitor!IInv'
  OBVIOUS
<1> USE DEF Monitor!IInv, Monitor!TypeOK, Monitor!Registered, Monitor!Handlers,
  Monitor!Reported, Monitor!LinesWritten, Monitor!Interrupted, Monitor!Processes, Monitor!Killers,
  Monitor!Endings, Monitor!None, Monitor!signals, Monitor!outputs, Monitor!exiting,
  Monitor!Goto, Monitor!CallExit, terminal, printed, cleanups, buffered, worked, report
<1>0. Monitor!Flags'
  BY DEF Monitor!Flags, Monitor!Next, Monitor!vars, Monitor!Register, Monitor!InstallHandler,
    Monitor!SetupFails, Monitor!PrintFirst, Monitor!Fork, Monitor!Work, Monitor!Finish,
    Monitor!Monitor, Monitor!WaitFails, Monitor!CallRoutine, Monitor!FinishRoutine,
    Monitor!Flush, Monitor!Leave, Monitor!Handle, Monitor!Die, Monitor!AllEnded
<1>1. CASE Monitor!Register
  BY <1>0, <1>1 DEF Monitor!Register
<1>2. ASSUME NEW sig \in {"SIGINT", "SIGTERM"}, Monitor!InstallHandler(sig) PROVE Monitor!IInv'
  BY <1>0, <1>2 DEF Monitor!InstallHandler
<1>3. CASE Monitor!SetupFails
  BY <1>0, <1>3 DEF Monitor!SetupFails
<1>4. CASE Monitor!PrintFirst
  <2>1. CASE terminal
    <3>1. printed' = [printed EXCEPT !["parent"] = @ + 1] /\ buffered' = buffered
          /\ Monitor!Goto("parent", "fork")
          /\ UNCHANGED <<Monitor!signals, Monitor!exiting, terminal, worked, report>>
      BY <1>4, <2>1, Zenon DEF Monitor!PrintFirst
    <3>2. pc["parent"] = "print" /\ pc["child"] = "unborn" /\ printed["parent"] = 0
          /\ buffered = {}
      BY <1>4 DEF Monitor!PrintFirst
    <3>3. printed'["parent"] = 1 /\ printed'["child"] = 0 /\ buffered' = {}
          /\ pc'["parent"] = "fork" /\ pc'["child"] = "unborn" /\ terminal'
      BY <2>1, <3>1, <3>2
    <3>4. Monitor!LinesWritten'
      BY ONLY <3>3 DEF Monitor!LinesWritten
    <3>5. Monitor!TypeOK'
      BY <1>0, <3>1, <3>2
    <3>6. Monitor!Handlers' /\ Monitor!Reported'
      BY <3>1, <3>2
    <3>7. (\A p \in Monitor!Processes : Monitor!Registered(p))'
      BY <3>1, <3>2
    <3>8. QED
      BY ONLY <3>4, <3>5, <3>6, <3>7 DEF Monitor!IInv
  <2>2. CASE ~terminal
    <3>1. buffered' = {"parent"} /\ printed' = printed
          /\ Monitor!Goto("parent", "fork")
          /\ UNCHANGED <<Monitor!signals, Monitor!exiting, terminal, worked, report>>
      BY <1>4, <2>2, Zenon DEF Monitor!PrintFirst
    <3>2. pc["parent"] = "print"
      BY <1>4 DEF Monitor!PrintFirst
    <3>3. Monitor!LinesWritten'
      BY <2>2, <3>1, <3>2
    <3>4. Monitor!TypeOK'
      BY <1>0, <3>1, <3>2
    <3>5. Monitor!Handlers' /\ Monitor!Reported'
      BY <3>1, <3>2
    <3>6. (\A p \in Monitor!Processes : Monitor!Registered(p))'
      BY <3>1, <3>2
    <3>7. QED
      BY ONLY <3>3, <3>4, <3>5, <3>6 DEF Monitor!IInv
  <2>3. QED
    BY <2>1, <2>2
<1>5. CASE Monitor!Fork
  BY <1>0, <1>5 DEF Monitor!Fork, Monitor!Inherited
<1>6. CASE Monitor!Work
  BY <1>0, <1>6 DEF Monitor!Work
<1>7. CASE Monitor!Finish
  BY <1>0, <1>7 DEF Monitor!Finish
<1>8. CASE Monitor!Monitor
  BY <1>0, <1>8 DEF Monitor!Monitor
<1>9. CASE Monitor!WaitFails
  BY <1>0, <1>9 DEF Monitor!WaitFails
<1>10. ASSUME NEW p \in Monitor!Processes, Monitor!CallRoutine(p) PROVE Monitor!IInv'
  BY <1>0, <1>10 DEF Monitor!CallRoutine
<1>11. ASSUME NEW p \in Monitor!Processes, Monitor!FinishRoutine(p) PROVE Monitor!IInv'
  BY <1>0, <1>11 DEF Monitor!FinishRoutine
<1>12. ASSUME NEW p \in Monitor!Processes, Monitor!Flush(p) PROVE Monitor!IInv'
  BY <1>0, <1>12 DEF Monitor!Flush
<1>13. ASSUME NEW p \in Monitor!Processes, Monitor!Leave(p) PROVE Monitor!IInv'
  BY <1>0, <1>13 DEF Monitor!Leave
<1>14. ASSUME NEW p \in Monitor!Processes, NEW sig \in {"SIGINT", "SIGTERM", "SIGKILL"}, Monitor!Handle(p, sig) PROVE Monitor!IInv'
  BY <1>0, <1>14 DEF Monitor!Handle, Monitor!Ended
<1>15. ASSUME NEW p \in Monitor!Processes, NEW sig \in {"SIGINT", "SIGTERM", "SIGKILL"}, Monitor!Die(p, sig) PROVE Monitor!IInv'
  BY <1>0, <1>15 DEF Monitor!Die, Monitor!Ended
<1>16. CASE UNCHANGED Monitor!vars
  BY <1>0, <1>16 DEF Monitor!vars
<1> HIDE DEF Monitor!IInv
<1>17. QED
  BY <1>1, <1>2, <1>3, <1>4, <1>5, <1>6, <1>7, <1>8,
     <1>9, <1>10, <1>11, <1>12, <1>13, <1>14, <1>15, <1>16
  DEF Monitor!Next, Monitor!AllEnded

(* The monitor's invariant holds as long as the monitor runs.              *)
LEMMA MonitorInvariance == Spec => [](program = "monitor" => Monitor!IInv)
<1>1. Init => (program = "monitor" => Monitor!IInv)
  BY MonitorInit DEF Init
<1>2. (program = "monitor" => Monitor!IInv) /\ [Next]_vars
        => (program = "monitor" => Monitor!IInv)'
  BY MonitorNextKeeps, OneProgram
<1>3. QED
  BY <1>1, <1>2, PTL DEF Spec

(* Whoever ends by exit has cleaned up: once, or in part where a handler   *)
(* has cut it short (main.c:35-52, 62-64, 87-90).                          *)
THEOREM ExitCleansUp == Spec => []CleanedUpOnce
<1>1. Monitor!IInv => Monitor!CleanedUpOnce
  BY DEF Monitor!IInv, Monitor!Registered, Monitor!CleanedUpOnce, Monitor!Processes,
     Monitor!Killers, Monitor!None
<1>2. QED
  BY <1>1, MonitorInvariance, PTL DEF CleanedUpOnce

(* What the parent reports is how the child has ended, and what each       *)
(* report means (main.c:66-77, 93-108, 128-133).                           *)
THEOREM ReportsAreReliable == Spec => []ReportCanBeReliedOn
<1>1. Monitor!IInv => Monitor!ReportCanBeReliedOn
  BY DEF Monitor!IInv, Monitor!TypeOK, Monitor!Registered, Monitor!Handlers, Monitor!Reported,
     Monitor!None, Monitor!ReportCanBeReliedOn, Monitor!Processes, Monitor!Killers, Monitor!Endings
<1>2. QED
  BY <1>1, MonitorInvariance, PTL DEF ReportCanBeReliedOn

(* The first line is the parent's on a terminal; elsewhere parent and      *)
(* child each write it, once, when they exit (main.c:111-115).             *)
THEOREM FirstLineIsNotRepeated == Spec => []FirstLineOnce
<1>1. Monitor!IInv => Monitor!FirstLineOnce
  BY DEF Monitor!IInv, Monitor!TypeOK, Monitor!LinesWritten, Monitor!Registered, Monitor!Reported,
     Monitor!FirstLineOnce, Monitor!Processes, Monitor!Killers, terminal, printed, buffered
<1>2. QED
  BY <1>1, MonitorInvariance, PTL DEF FirstLineOnce

-----------------------------------------------------------------------------
(* Lab 5.  The memory of the archiver, by the names it has in ArchiveRace, *)
(* or, where Fifo has those, others.                                       *)
archive   == a
files     == b
opened    == c
position  == d
wanted    == e
extracted == f
mixed     == g
raced     == h
crossed   == i
USE DEF archive, files, opened, position, wanted, extracted, mixed, raced, crossed

LEMMA DisjointRuns ==
  Adders \cap Extractors = {} /\ Race!Old \notin Adders /\ Race!FirstFile \notin Extractors
BY ProgramsAssumption

(* A cell is the header of one record, live or marked, or a text.          *)
LEMMA CellFacts ==
  /\ \A r \in Race!Records : Race!Header(r) \in Race!AnyCell /\ Race!Marked(r) \in Race!AnyCell /\ Race!Data(r) \in Race!AnyCell
  /\ \A z \in Race!AnyCell : Race!IsHeader(z) <=> \E r \in Race!Records : Race!IsOf(z, r)
  /\ \A z \in Race!AnyCell : ~z.marked_deleted <=> \E r \in Race!Records : z = Race!Header(r)
  /\ \A r, s : Race!Header(r) # Race!Marked(s) /\ ~Race!IsOf(Race!Data(s), r) /\ ~Race!IsHeader(Race!Data(s))
  /\ \A r, s, z : Race!IsOf(z, r) /\ Race!IsOf(z, s) => r = s
  /\ \A r, s : Race!Header(r) = Race!Header(s) => r = s
  /\ \A r : Race!IsOf(Race!Header(r), r) /\ Race!IsOf(Race!Marked(r), r) /\ Race!IsHeader(Race!Header(r)) /\ Race!IsHeader(Race!Marked(r))
<1>1. \A r \in Race!Records : Race!Header(r) \in Race!AnyCell /\ Race!Marked(r) \in Race!AnyCell /\ Race!Data(r) \in Race!AnyCell
  BY DEF Race!AnyCell
<1>2. \A z \in Race!AnyCell : \E r \in Race!Records : z \in {Race!Header(r), Race!Marked(r), Race!Data(r)}
  BY DEF Race!AnyCell
<1>3. \A r : /\ Race!Header(r).kind = "header" /\ Race!Marked(r).kind = "header" /\ Race!Data(r).kind = "data"
             /\ Race!Header(r).record = r /\ Race!Marked(r).record = r
             /\ ~Race!Header(r).marked_deleted /\ Race!Marked(r).marked_deleted /\ Race!Data(r).marked_deleted
  BY DEF Race!Header, Race!Marked, Race!Data
<1>4. \A r, s : Race!Header(r) # Race!Marked(s) /\ ~Race!IsOf(Race!Data(s), r) /\ ~Race!IsHeader(Race!Data(s))
  BY <1>3, Zenon DEF Race!IsOf, Race!IsHeader
<1>5. \A r, s, z : Race!IsOf(z, r) /\ Race!IsOf(z, s) => r = s
  BY <1>3 DEF Race!IsOf
<1>6. \A z \in Race!AnyCell : Race!IsHeader(z) <=> \E r \in Race!Records : Race!IsOf(z, r)
  BY <1>2, <1>3 DEF Race!IsOf, Race!IsHeader
<1>7. \A z \in Race!AnyCell : ~z.marked_deleted <=> \E r \in Race!Records : z = Race!Header(r)
  BY <1>2, <1>3, Zenon
<1>8. \A r : Race!IsOf(Race!Header(r), r) /\ Race!IsOf(Race!Marked(r), r) /\ Race!IsHeader(Race!Header(r)) /\ Race!IsHeader(Race!Marked(r))
  BY <1>3 DEF Race!IsOf, Race!IsHeader
<1>9. QED
  BY <1>1, <1>3, <1>4, <1>5, <1>6, <1>7, <1>8, Zenon

LEMMA Parity ==
  /\ ~Race!Odd(0) /\ Race!Odd(1)
  /\ \A k \in Nat : Race!Odd(k + 1) <=> ~Race!Odd(k)
  /\ \A k \in Nat : Race!Odd(k + 2) <=> Race!Odd(k)
BY DEF Race!Odd

(* What the labels say of who runs, and the files of their cells.          *)
LEMMA RaceTypes ==
  ASSUME Race!Typed
  PROVE  /\ \A p \in Adders : /\ p \notin Extractors /\ p \in Race!Processes /\ p \in Race!Records
                              /\ pc[p] \in {"start", "header", "data", "done"}
         /\ \A x \in Extractors : /\ x \notin Adders /\ x \in Race!Processes
                                  /\ pc[x] \in {"start", "scan", "mark", "compress", "copy", "rename", "done"}
         /\ Race!Adding = {p \in Adders : pc[p] \in {"header", "data"}}
         /\ \A q \in DOMAIN files : /\ files[q] \in Seq(Race!AnyCell) /\ Len(files[q]) \in Nat
                                    /\ DOMAIN files[q] = 1..Len(files[q])
                                    /\ \A k \in DOMAIN files[q] : files[q][k] \in Race!AnyCell
         /\ \A x \in Extractors : x \in DOMAIN files
         /\ Race!FirstFile \in DOMAIN files /\ DOMAIN files = Extractors \cup {Race!FirstFile}
         /\ \A x \in Extractors : Race!Cells(x) = files[opened[x]] /\ Race!Here(x) = files[opened[x]][position[x]]
BY DisjointRuns DEF Race!Typed, Race!Labels, Race!Running, Race!Adding, Race!Processes, Race!Records,
   Race!Cells, Race!Here

LEMMA AddOpenKeeps ==
  ASSUME Race!IInv, NEW p \in Adders, Race!AddOpen(p)
  PROVE  Race!IInv'
<1> USE DEF Race!IInv
<1>1. /\ pc[p] = "start" /\ pc' = [pc EXCEPT ![p] = "header"] /\ opened' = [opened EXCEPT ![p] = archive]
      /\ UNCHANGED <<archive, files, position, wanted, extracted, raced, crossed>>
  BY DEF Race!AddOpen, Race!Goto
<1>2. mixed' = FALSE => mixed = FALSE /\ Race!Adding = {}
  BY DEF Race!AddOpen, Race!Flags
<1>3. /\ DOMAIN pc = Race!Processes /\ opened \in [Race!Processes -> DOMAIN files] /\ archive \in DOMAIN files /\ p \in Race!Processes
      /\ \A x \in Extractors : x # p
  BY RaceTypes DEF Race!Typed
<1>4. pc'[p] = "header" /\ opened'[p] = archive /\ \A q \in Race!Processes \ {p} : pc'[q] = pc[q] /\ opened'[q] = opened[q]
  BY <1>1, <1>3
<1>5. /\ Race!Compressing' = Race!Compressing /\ Race!Adding' = Race!Adding \cup {p}
      /\ \A x \in Extractors : (Race!Running(x)' <=> Race!Running(x)) /\ Race!Cells(x)' = Race!Cells(x) /\ Race!Here(x)' = Race!Here(x)
  BY <1>1, <1>3, <1>4, RaceTypes DEF Race!Compressing, Race!Adding, Race!Running, Race!Cells, Race!Here,
     Race!Processes
<1>6. Race!Typed'
  BY <1>1, <1>3, <1>4 DEF Race!Typed, Race!Labels, Race!Processes
<1>7. Race!Flags'
  BY <1>1 DEF Race!Flags, Race!AddOpen
<1>8. Race!OwnFile'
  BY <1>1, <1>3, <1>4, <1>5, RaceTypes DEF Race!OwnFile
<1>9. Race!OneHeader' /\ Race!Found'
  BY <1>1, <1>3, <1>4, <1>5, RaceTypes DEF Race!OneHeader, Race!Found
<1>10. Race!Extracted'
  BY <1>1, <1>3, <1>4, <1>5, RaceTypes DEF Race!Extracted
<1>11. Race!Alternating'
  BY <1>1, <1>2, <1>3, <1>4, <1>5, RaceTypes DEF Race!Alternating
<1>12. Race!NothingLost'
  <2>1. \A r : Race!Safe(r)' => Race!Safe(r)
    BY <1>1, <1>4, <1>3, RaceTypes DEF Race!Safe
  <2>2. \A x \in Race!Compressing : x \in Extractors /\ pc'[x] = pc[x] /\ Race!Cells(x)' = Race!Cells(x)
    BY <1>3, <1>4, <1>5, RaceTypes DEF Race!Compressing
  <2>3. QED
    BY <1>1, <1>2, <1>5, <2>1, <2>2 DEF Race!NothingLost, Race!Has
<1>13. QED
  BY <1>6, <1>7, <1>8, <1>9, <1>10, <1>11, <1>12

(* What a file has, a longer one that begins with it has.                  *)
LEMMA HasMore ==
  ASSUME NEW s, NEW t, NEW first \in Nat \ {0}, NEW r, Len(s) \in Nat, Len(t) \in Nat, Len(s) <= Len(t),
         \A k \in 1..Len(s) : t[k] = s[k], Race!Has(s, first, r)
  PROVE  Race!Has(t, first, r)
BY DEF Race!Has

LEMMA AddWriteKeeps ==
  ASSUME Race!IInv, NEW p \in Adders, Race!AddWrite(p)
  PROVE  Race!IInv'
<1> USE DEF Race!IInv
<1> DEFINE F == opened[p]
           n == Len(files[F])
           z == IF pc[p] = "header" THEN Race!Header(p) ELSE Race!Data(p)
<1>1. /\ pc[p] \in {"header", "data"} /\ files' = [files EXCEPT ![F] = Append(@, z)]
      /\ pc' = [pc EXCEPT ![p] = IF pc[p] = "header" THEN "data" ELSE "done"]
      /\ raced' = (IF Race!Compressing # {} THEN raced \cup {p} ELSE raced)
      /\ UNCHANGED <<archive, opened, position, wanted, extracted, mixed, crossed>>
  BY DEF Race!AddWrite, Race!Goto
<1>2. /\ DOMAIN pc = Race!Processes /\ opened \in [Race!Processes -> DOMAIN files] /\ archive \in DOMAIN files /\ p \in Race!Processes
      /\ \A x \in Extractors : x # p
      /\ F \in DOMAIN files /\ p \in Race!Records
  BY RaceTypes DEF Race!Typed
<1>3. /\ pc'[p] = IF pc[p] = "header" THEN "data" ELSE "done"
      /\ \A q \in Race!Processes \ {p} : pc'[q] = pc[q]
  BY <1>1, <1>2
<1>4. z \in Race!AnyCell /\ n \in Nat /\ files[F] \in Seq(Race!AnyCell)
  BY <1>2, CellFacts, RaceTypes
<1>5. /\ DOMAIN files' = DOMAIN files
      /\ files'[F] = Append(files[F], z)
      /\ \A q \in DOMAIN files : q # F => files'[q] = files[q]
  BY <1>1, <1>2, RaceTypes DEF Race!Typed
<1> HIDE DEF n, z, F
<1>6. /\ Len(files'[F]) = n + 1 /\ DOMAIN files'[F] = 1..n + 1 /\ files'[F] \in Seq(Race!AnyCell)
      /\ files'[F][n + 1] = z /\ \A k \in 1..n : files'[F][k] = files[F][k]
      /\ DOMAIN files[F] = 1..n /\ n = Len(files[F])
  BY <1>4, <1>5 DEF n
<1>7. \A q \in DOMAIN files : /\ Len(files[q]) \in Nat /\ Len(files'[q]) \in Nat /\ Len(files[q]) <= Len(files'[q])
                              /\ DOMAIN files[q] = 1..Len(files[q]) /\ DOMAIN files'[q] = 1..Len(files'[q])
                              /\ \A k \in 1..Len(files[q]) : files'[q][k] = files[q][k]
                              /\ files'[q] \in Seq(Race!AnyCell)
  <2>1. ASSUME NEW q \in DOMAIN files, q # F
        PROVE  files'[q] = files[q] /\ Len(files[q]) \in Nat /\ files[q] \in Seq(Race!AnyCell)
               /\ DOMAIN files[q] = 1..Len(files[q])
    BY <2>1, <1>5, RaceTypes
  <2>2. n \in Nat /\ n + 1 \in Nat /\ n <= n + 1
    BY <1>4
  <2>3. QED
    BY <1>4, <1>6, <2>1, <2>2
<1>8. /\ Race!Compressing' = Race!Compressing /\ Race!Adding' \subseteq Race!Adding /\ p \in Race!Adding
      /\ \A x \in Extractors : /\ (Race!Running(x)' <=> Race!Running(x)) /\ pc'[x] = pc[x] /\ x \in Race!Processes
                               /\ Race!Cells(x)' = files'[opened[x]] /\ Race!Cells(x) = files[opened[x]] /\ opened[x] \in DOMAIN files
                               /\ Race!Here(x)' = files'[opened[x]][position[x]] /\ Race!Here(x) = files[opened[x]][position[x]]
  BY <1>1, <1>2, <1>3, RaceTypes DEF Race!Compressing, Race!Adding, Race!Running, Race!Cells, Race!Here,
     Race!Processes
<1>9. \A x \in Extractors : pc[x] # "done" => x # F /\ files'[x] = files[x] /\ x \in DOMAIN files
  BY <1>2, <1>5, RaceTypes DEF Race!OwnFile, F
<1>10. \A r : Race!IsOf(z, r) => r = p /\ pc[p] = "header"
  BY CellFacts, <1>1 DEF z
<1>11. Race!Typed'
  <2>1. files' \in [Extractors \cup {Race!FirstFile} -> Seq(Race!AnyCell)]
    <3>1. DOMAIN files' = Extractors \cup {Race!FirstFile} /\ \A q \in DOMAIN files : files'[q] \in Seq(Race!AnyCell)
      <4>1. DOMAIN files = Extractors \cup {Race!FirstFile}
        BY RaceTypes
      <4>2. QED
        <5>1. DOMAIN files' = DOMAIN files
          BY <1>5
        <5>2. \A q \in DOMAIN files : files'[q] \in Seq(Race!AnyCell)
          BY <1>7, Zenon
        <5>3. QED
          BY <4>1, <5>1, <5>2, Zenon
    <3>2. files' = [q \in DOMAIN files |-> files'[q]] /\ DOMAIN files = Extractors \cup {Race!FirstFile}
      BY <1>1, RaceTypes
    <3>3. QED
      BY <3>1, <3>2
  <2>2. \A q \in Race!Processes : pc'[q] \in Race!Labels(q)
    BY <1>2, <1>3 DEF Race!Typed, Race!Labels
  <2>3. raced' \subseteq Adders /\ DOMAIN pc' = Race!Processes
    BY <1>1, <1>2 DEF Race!Typed
  <2>4. QED
    BY <1>1, <1>5, <2>1, <2>2, <2>3 DEF Race!Typed
<1>12. Race!Flags'
  BY <1>1 DEF Race!Flags
<1>13. Race!OwnFile'
  BY <1>1, <1>8, <1>9 DEF Race!OwnFile
<1>14. Race!OneHeader'
  <2>1. ASSUME NEW q \in DOMAIN files, NEW r \in Race!Records, NEW k \in DOMAIN files'[q], NEW m \in DOMAIN files'[q],
               Race!IsOf(files'[q][k], r), Race!IsOf(files'[q][m], r)
        PROVE  k = m
    <3>1. CASE q # F
      BY <2>1, <3>1, <1>5 DEF Race!OneHeader
    <3>2. CASE q = F
      <4>1. CASE k \in 1..n /\ m \in 1..n
        BY <2>1, <3>2, <4>1, <1>2, <1>6 DEF Race!OneHeader
      <4>2. CASE k = n + 1 /\ m \in 1..n
        BY <2>1, <3>2, <4>2, <1>2, <1>6, <1>10 DEF Race!OneHeader
      <4>3. CASE m = n + 1 /\ k \in 1..n
        BY <2>1, <3>2, <4>3, <1>2, <1>6, <1>10 DEF Race!OneHeader
      <4>4. QED
        BY <3>2, <1>4, <1>6, <4>1, <4>2, <4>3
    <3>3. QED
      BY <3>1, <3>2
  <2>2. ASSUME NEW q \in Adders, pc'[q] \in {"start", "header"}, NEW s \in DOMAIN files, NEW k \in DOMAIN files'[s],
               Race!IsOf(files'[s][k], q)
        PROVE  FALSE
    <3>1. q # p /\ q \in Race!Processes /\ pc[q] \in {"start", "header"}
      BY <2>2, <1>1, <1>3, RaceTypes
    <3>2. CASE s # F
      BY <2>2, <3>1, <3>2, <1>5 DEF Race!OneHeader
    <3>3. CASE s = F
      BY <2>2, <3>1, <3>3, <1>2, <1>4, <1>6, <1>10 DEF Race!OneHeader
    <3>4. QED
      BY <3>2, <3>3
  <2>3. ASSUME NEW x \in Extractors, pc'[x] = "copy", NEW r \in Race!Records, NEW k \in DOMAIN files'[x],
               Race!IsOf(files'[x][k], r)
        PROVE  \E m \in DOMAIN Race!Cells(x)' : m < position'[x] /\ Race!IsOf(Race!Cells(x)'[m], r)
    <3>1. pc[x] = "copy" /\ files'[x] = files[x] /\ position'[x] = position[x]
      BY <2>3, <1>1, <1>8, <1>9
    <3>2. PICK m \in DOMAIN Race!Cells(x) : m < position[x] /\ Race!IsOf(Race!Cells(x)[m], r)
      BY <2>3, <3>1 DEF Race!OneHeader
    <3>3. m \in DOMAIN Race!Cells(x)' /\ Race!Cells(x)'[m] = Race!Cells(x)[m]
      BY <1>7, <1>8
    <3>4. QED
      BY <3>1, <3>2, <3>3
  <2>4. QED
    BY <1>5, <2>1, <2>2, <2>3 DEF Race!OneHeader
<1>15. Race!Found'
  <2> SUFFICES ASSUME NEW x \in Extractors, pc'[x] = "mark"
               PROVE  position'[x] < Len(Race!Cells(x)') /\ Race!IsOf(Race!Here(x)', wanted'[x])
    BY DEF Race!Found
  <2>1. position[x] < Len(Race!Cells(x)) /\ Race!IsOf(Race!Here(x), wanted[x]) /\ position[x] \in Nat \ {0}
    BY <1>8 DEF Race!Found, Race!Typed
  <2>2. Len(Race!Cells(x)) <= Len(Race!Cells(x)') /\ Race!Here(x)' = Race!Here(x)
    BY <2>1, <1>7, <1>8
  <2>3. QED
    BY <2>1, <2>2, <1>1, <1>7, <1>8
<1>16. Race!Extracted'
  <2>1. \A x \in Extractors : extracted[x] = TRUE /\ wanted[x] \in Adders => pc'[wanted[x]] \in {"data", "done"}
    BY <1>1, <1>2, <1>3, RaceTypes DEF Race!Extracted
  <2>2. ASSUME crossed = FALSE, NEW x \in Extractors, extracted[x] = TRUE,
               NEW q \in Race!Compressing \cup {archive}, NEW k \in DOMAIN files'[q]
        PROVE  files'[q][k] # Race!Header(wanted[x])
    <3>1. q \in DOMAIN files
      BY <1>2, RaceTypes DEF Race!Compressing
    <3>2. CASE q # F \/ k \in 1..n
      BY <2>2, <3>1, <3>2, <1>5, <1>6 DEF Race!Extracted
    <3>3. CASE q = F /\ k = n + 1
      <4>1. SUFFICES ASSUME z = Race!Header(wanted[x]) PROVE FALSE
        BY <3>3, <1>6
      <4>2. wanted[x] = p /\ pc[p] = "header"
        BY <4>1, <1>10, CellFacts
      <4>3. QED
        BY <2>2, <4>2 DEF Race!Extracted
    <3>4. QED
      BY <3>2, <3>3, <1>4, <1>6
  <2>3. ASSUME crossed = FALSE
        PROVE  /\ \A x, y \in Extractors : Race!Running(x)' /\ Race!Running(y)' => x = y
               /\ \A x \in Extractors : Race!Running(x)' => opened[x] = archive
    BY <2>3, <1>8 DEF Race!Extracted
  <2>4. ASSUME crossed' = FALSE
        PROVE  /\ \A x, y \in Extractors : Race!Running(x)' /\ Race!Running(y)' => x = y
               /\ \A x \in Extractors : Race!Running(x)' => opened'[x] = archive'
               /\ \A x \in Extractors : extracted'[x] = TRUE =>
                    \A q \in Race!Compressing' \cup {archive'} : \A k \in DOMAIN files'[q] : files'[q][k] # Race!Header(wanted'[x])
    <3>1. crossed = FALSE
      BY <2>4, <1>1
    <3>2. \A x, y \in Extractors : Race!Running(x)' /\ Race!Running(y)' => x = y
      BY <3>1, <2>3
    <3>3. \A x \in Extractors : Race!Running(x)' => opened'[x] = archive'
      BY <3>1, <2>3, <1>1
    <3>4. \A x \in Extractors : extracted'[x] = TRUE =>
            \A q \in Race!Compressing' \cup {archive'} : \A k \in DOMAIN files'[q] : files'[q][k] # Race!Header(wanted'[x])
      <4>1. Race!Compressing' = Race!Compressing /\ UNCHANGED <<archive, wanted, extracted>>
        BY <1>1, <1>8
      <4>2. QED
        BY <3>1, <4>1, <2>2, Zenon
    <3>5. QED
      BY <3>2, <3>3, <3>4
  <2>5. QED
    BY <1>1, <2>1, <2>4 DEF Race!Extracted
<1>17. Race!Alternating'
  <2> SUFFICES ASSUME mixed = FALSE PROVE Race!Alternating'
    BY <1>1 DEF Race!Alternating
  <2>1. \A q \in Race!Adding : q = p
    BY <1>8 DEF Race!Alternating
  <2>2. pc[p] = "data" <=> Race!Odd(n)
    <3>1. pc[p] = "data" => Race!Odd(n)
      BY DEF Race!Alternating, n, F
    <3>2. ASSUME Race!Odd(n) PROVE pc[p] = "data"
      <4>1. PICK q \in Adders : pc[q] = "data" /\ opened[q] = F
        BY <3>2, <1>2, <1>6 DEF Race!Alternating
      <4>2. q \in Race!Adding
        BY <4>1, RaceTypes
      <4>3. QED
        BY <4>1, <4>2, <2>1
    <3>3. QED
      BY <3>1, <3>2
  <2>3. Race!Odd(n + 1) <=> pc[p] = "header"
    BY <1>1, <1>4, <2>2, Parity
  <2>4. \A q, s \in Race!Adding' : q = s
    BY <1>8, <2>1
  <2>5. ASSUME NEW q \in DOMAIN files, NEW k \in DOMAIN files'[q]
        PROVE  Race!IsHeader(files'[q][k]) <=> Race!Odd(k)
    <3>1. CASE q # F \/ k \in 1..n
      BY <3>1, <1>5, <1>6 DEF Race!Alternating
    <3>2. CASE q = F /\ k = n + 1
      <4>1. Race!IsHeader(z) <=> pc[p] = "header"
        BY <1>1, CellFacts DEF z
      <4>2. QED
        BY <3>2, <4>1, <2>3, <1>6
    <3>3. QED
      BY <3>1, <3>2, <1>4, <1>6
  <2>6. ASSUME NEW q \in DOMAIN files, Race!Odd(Len(files'[q]))
        PROVE  \E s \in Adders : pc'[s] = "data" /\ opened[s] = q
    <3>1. CASE q = F
      BY <2>6, <3>1, <2>3, <1>3, <1>6 DEF F
    <3>2. CASE q # F
      <4>1. PICK s \in Adders : pc[s] = "data" /\ opened[s] = q
        BY <2>6, <3>2, <1>5 DEF Race!Alternating
      <4>2. s \in Race!Adding
        BY <4>1, RaceTypes
      <4>3. QED
        BY <4>1, <4>2, <2>1, <3>2 DEF F
    <3>3. QED
      BY <3>1, <3>2
  <2>7. ASSUME NEW q \in Adders, pc'[q] = "data"
        PROVE  q = p /\ pc[p] = "header" /\ Race!Odd(Len(files'[opened[q]]))
    <3>1. q = p
      <4>1. CASE q # p
        <5>1. q \in Race!Adding
          BY <2>7, <4>1, <1>3, RaceTypes
        <5>2. QED
          BY <5>1, <2>1
      <4>2. QED
        BY <4>1
    <3>2. pc[p] = "header"
      BY <3>1, <2>7, <1>1, <1>3
    <3>3. QED
      BY <3>1, <3>2, <2>3, <1>6 DEF F
  <2>8. ASSUME NEW q \in Race!Adding' \ raced'
        PROVE  opened[q] = archive /\ (pc'[q] = "data" => files'[archive][Len(files'[archive])] = Race!Header(q))
    <3>1. q = p /\ q \in Race!Adding \ raced
      BY <1>1, <1>8, <2>1
    <3>2. F = archive
      BY <3>1 DEF Race!Alternating, F
    <3>3. pc'[q] = "data" => z = Race!Header(p)
      BY <3>1, <1>1, <1>3 DEF z
    <3>4. QED
      BY <3>1, <3>2, <3>3, <1>6 DEF F
  <2>9. QED
    BY <1>1, <1>5, <2>4, <2>5, <2>6, <2>7, <2>8 DEF Race!Alternating
<1>18. Race!NothingLost'
  <2> SUFFICES ASSUME mixed = FALSE, NEW r \in Race!Records, Race!Safe(r)'
               PROVE  /\ Race!Has(files[archive], 1, r)'
                      /\ \A x \in Race!Compressing' : \/ Race!Has(files[x], 1, r)'
                                                      \/ (pc[x] = "copy" /\ Race!Has(Race!Cells(x), position[x], r))'
    BY <1>1 DEF Race!NothingLost
  <2>1. ASSUME NEW q \in DOMAIN files, NEW first \in Nat \ {0}, Race!Has(files[q], first, r)
        PROVE  Race!Has(files'[q], first, r)
    BY <2>1, <1>7, HasMore
  <2>2. CASE r = p
    <3>1. pc[p] = "data" /\ p \notin raced /\ Race!Compressing = {}
      BY <2>2, <1>1, <1>3 DEF Race!Safe
    <3>2. F = archive /\ files[F][n] = Race!Header(p) /\ Race!Odd(n)
      BY <3>1, <1>8 DEF Race!Alternating, F, n
    <3>3. n \in 1..n + 1 - 1
      BY <3>2, <1>4, Parity
    <3>4. Race!Has(files[archive], 1, r)'
      BY <2>2, <3>2, <3>3, <1>1, <1>6 DEF Race!Has
    <3>5. QED
      BY <3>1, <3>4, <1>8
  <2>3. CASE r # p
    <3>1. Race!Safe(r)
      BY <2>3, <1>1, <1>3, RaceTypes DEF Race!Safe
    <3>2. Race!Has(files[archive], 1, r)'
      <4>1. Race!Has(files'[archive], 1, r)
        BY <3>1, <1>2, <2>1 DEF Race!NothingLost
      <4>2. QED
        BY <4>1, <1>1 DEF Race!Has
    <3>3. ASSUME NEW x \in Race!Compressing
          PROVE  Race!Has(files[x], 1, r)' \/ (pc[x] = "copy" /\ Race!Has(Race!Cells(x), position[x], r))'
      <4>1. x \in Extractors /\ x \in DOMAIN files /\ position[x] \in Nat \ {0}
        BY RaceTypes DEF Race!Compressing, Race!Typed
      <4>2. CASE Race!Has(files[x], 1, r)
        <5>1. Race!Has(files'[x], 1, r)
          BY <4>1, <4>2, <2>1
        <5>2. QED
          BY <5>1 DEF Race!Has
      <4>3. CASE pc[x] = "copy" /\ Race!Has(Race!Cells(x), position[x], r)
        <5>1. opened[x] \in DOMAIN files /\ Race!Has(files[opened[x]], position[x], r) /\ Race!Cells(x)' = files'[opened[x]]
          BY <4>1, <4>3, <1>8
        <5>2. Race!Has(files'[opened[x]], position[x], r)
          BY <4>1, <5>1, <2>1
        <5>3. pc'[x] = "copy" /\ position'[x] = position[x]
          BY <4>1, <4>3, <1>1, <1>8
        <5>4. QED
          BY <5>1, <5>2, <5>3 DEF Race!Has
      <4>4. QED
        BY <3>1, <4>2, <4>3 DEF Race!NothingLost
    <3>4. QED
      BY <3>2, <3>3, <1>8
  <2>4. QED
    BY <2>2, <2>3
<1>19. QED
  BY <1>11, <1>12, <1>13, <1>14, <1>15, <1>16, <1>17, <1>18

(* A step of one extractor changes only its own label.                     *)
LEMMA ExtractorStep ==
  ASSUME Race!Typed, NEW y \in Extractors, NEW l \in {"scan", "mark", "compress", "copy", "rename", "done"},
         pc' = [pc EXCEPT ![y] = l]
  PROVE  /\ pc'[y] = l /\ DOMAIN pc' = Race!Processes /\ y \in Race!Processes
         /\ \A q \in Race!Processes : q # y => pc'[q] = pc[q]
         /\ \A q \in Race!Processes : pc'[q] \in Race!Labels(q)
         /\ \A p \in Adders : pc'[p] = pc[p] /\ p # y /\ p \in Race!Processes
         /\ Race!Adding' = Race!Adding
         /\ \A x \in Extractors : x # y => (Race!Running(x)' <=> Race!Running(x)) /\ pc'[x] = pc[x] /\ x \in Race!Processes
         /\ l \in {"copy", "rename"} => Race!Compressing' = Race!Compressing \cup {y}
         /\ l \notin {"copy", "rename"} => Race!Compressing' = Race!Compressing \ {y}
<1>1. /\ pc'[y] = l /\ DOMAIN pc' = Race!Processes /\ y \in Race!Processes
      /\ \A q \in Race!Processes : q # y => pc'[q] = pc[q]
  BY RaceTypes DEF Race!Typed
<1>2. \A p \in Adders : pc'[p] = pc[p] /\ p # y /\ p \in Race!Processes
  BY <1>1, RaceTypes
<1>3. \A x \in Extractors : x # y => (Race!Running(x)' <=> Race!Running(x)) /\ pc'[x] = pc[x] /\ x \in Race!Processes
  BY <1>1, RaceTypes DEF Race!Running
<1>4. Race!Adding' = Race!Adding
  BY <1>2 DEF Race!Adding, Race!Running
<1>5. /\ l \in {"copy", "rename"} => Race!Compressing' = Race!Compressing \cup {y}
      /\ l \notin {"copy", "rename"} => Race!Compressing' = Race!Compressing \ {y}
  BY <1>1, <1>3 DEF Race!Compressing
<1>6. \A q \in Race!Processes : pc'[q] \in Race!Labels(q)
  BY <1>1, <1>2, RaceTypes DEF Race!Labels, Race!Typed
<1>7. QED
  BY <1>1, <1>2, <1>3, <1>4, <1>5, <1>6

LEMMA ExtractOpenKeeps ==
  ASSUME Race!IInv, NEW y \in Extractors, Race!ExtractOpen(y)
  PROVE  Race!IInv'
<1> USE DEF Race!IInv
<1>1. /\ pc[y] = "start" /\ pc' = [pc EXCEPT ![y] = "scan"] /\ opened' = [opened EXCEPT ![y] = archive]
      /\ UNCHANGED <<archive, files, position, wanted, extracted, mixed, raced>>
  BY DEF Race!ExtractOpen, Race!Goto
<1>2. crossed' = FALSE => crossed = FALSE /\ \A x \in Extractors : ~Race!Running(x)
  BY DEF Race!ExtractOpen, Race!Flags
<1>3. /\ pc'[y] = "scan" /\ y \in Race!Processes /\ \A p \in Adders : pc'[p] = pc[p] /\ p # y /\ p \in Race!Processes
      /\ \A x \in Extractors : x # y => (Race!Running(x)' <=> Race!Running(x)) /\ pc'[x] = pc[x] /\ x \in Race!Processes
      /\ Race!Adding' = Race!Adding /\ Race!Compressing' = Race!Compressing
      /\ \A q \in Race!Processes : pc'[q] \in Race!Labels(q)
      /\ DOMAIN pc' = Race!Processes
  <2>1. y \notin Race!Compressing
    BY <1>1 DEF Race!Compressing
  <2>2. Race!Compressing' = Race!Compressing
    <3>1. Race!Compressing' = Race!Compressing \ {y}
      BY <1>1, ExtractorStep
    <3>2. QED
      BY <2>1, <3>1
  <2>3. QED
    BY <1>1, <2>2, ExtractorStep
<1>4. /\ opened \in [Race!Processes -> DOMAIN files] /\ archive \in DOMAIN files
      /\ opened'[y] = archive /\ \A q \in Race!Processes : q # y => opened'[q] = opened[q]
  BY <1>1, <1>3 DEF Race!Typed
<1>5. \A x \in Extractors : x # y => Race!Cells(x)' = Race!Cells(x) /\ Race!Here(x)' = Race!Here(x)
  BY <1>1, <1>3, <1>4 DEF Race!Cells, Race!Here
<1>6. Race!Typed'
  BY <1>1, <1>3, <1>4 DEF Race!Typed
<1>7. Race!Flags'
  BY <1>1 DEF Race!Flags, Race!ExtractOpen
<1>8. Race!OwnFile'
  BY <1>1, <1>3, <1>4 DEF Race!OwnFile
<1>9. Race!OneHeader' /\ Race!Found'
  BY <1>1, <1>3, <1>5 DEF Race!OneHeader, Race!Found
<1>10. Race!Extracted'
  <2>1. \A x \in Extractors : extracted'[x] = TRUE /\ wanted'[x] \in Adders => pc'[wanted'[x]] \in {"data", "done"}
    BY <1>1, <1>3 DEF Race!Extracted
  <2>2. ASSUME crossed' = FALSE
        PROVE  /\ \A x, z \in Extractors : Race!Running(x)' /\ Race!Running(z)' => x = z
               /\ \A x \in Extractors : Race!Running(x)' => opened'[x] = archive'
    BY <2>2, <1>1, <1>2, <1>3, <1>4
  <2>3. crossed' = FALSE => \A x \in Extractors : extracted'[x] = TRUE =>
            \A q \in Race!Compressing' \cup {archive'} : \A k \in DOMAIN files'[q] : files'[q][k] # Race!Header(wanted'[x])
    BY <1>1, <1>2, <1>3 DEF Race!Extracted
  <2>4. QED
    BY <2>1, <2>2, <2>3 DEF Race!Extracted
<1>11. Race!Alternating'
  BY <1>1, <1>3, <1>4, RaceTypes DEF Race!Alternating
<1>12. Race!NothingLost'
  <2>1. \A r : Race!Safe(r)' => Race!Safe(r)
    BY <1>1, <1>3 DEF Race!Safe
  <2>2. \A x \in Race!Compressing : x \in Extractors /\ x # y
    BY <1>1 DEF Race!Compressing
  <2>3. QED
    BY <1>1, <1>3, <1>5, <2>1, <2>2 DEF Race!NothingLost, Race!Has
<1>13. QED
  BY <1>6, <1>7, <1>8, <1>9, <1>10, <1>11, <1>12

LEMMA ScanKeeps ==
  ASSUME Race!IInv, NEW y \in Extractors, Race!Scan(y)
  PROVE  Race!IInv'
<1> USE DEF Race!IInv
<1>1. PICK l \in {"scan", "mark", "done"} :
        /\ pc[y] = "scan" /\ pc' = [pc EXCEPT ![y] = l]
        /\ l = "mark" => Race!Here(y) = Race!Header(wanted[y]) /\ position[y] < Len(Race!Cells(y))
        /\ \/ position' = [position EXCEPT ![y] = @]
           \/ position' = [position EXCEPT ![y] = Race!Skip(y)] /\ ~Race!AtEnd(y) /\ l # "mark"
        /\ UNCHANGED <<archive, files, opened, wanted, extracted, mixed, raced, crossed>>
  BY DEF Race!Scan, Race!Goto, Race!history
<1>2. /\ pc'[y] = l /\ y \in Race!Processes /\ \A p \in Adders : pc'[p] = pc[p] /\ p # y /\ p \in Race!Processes
      /\ \A x \in Extractors : x # y => (Race!Running(x)' <=> Race!Running(x)) /\ pc'[x] = pc[x] /\ x \in Race!Processes
      /\ Race!Adding' = Race!Adding /\ Race!Compressing' = Race!Compressing
      /\ \A q \in Race!Processes : pc'[q] \in Race!Labels(q)
      /\ DOMAIN pc' = Race!Processes
  <2>1. y \notin Race!Compressing
    BY <1>1 DEF Race!Compressing
  <2>2. Race!Compressing' = Race!Compressing
    <3>1. Race!Compressing' = Race!Compressing \ {y}
      BY <1>1, ExtractorStep
    <3>2. QED
      BY <2>1, <3>1
  <2>3. QED
    BY <1>1, <2>2, ExtractorStep
<1>3. /\ position \in [Extractors -> Nat \ {0}] /\ \A x \in Extractors : x # y => position'[x] = position[x]
      /\ DOMAIN position' = Extractors
      /\ position'[y] = position[y] \/ (position'[y] = Race!Skip(y) /\ ~Race!AtEnd(y) /\ l # "mark")
  BY <1>1 DEF Race!Typed
<1>4. Race!Skip(y) \in Nat \ {0} /\ (Race!IsHeader(Race!Here(y)) => Race!Skip(y) = position[y] + 2)
  BY <1>3 DEF Race!Skip, Race!TextSize
<1>5. \A x \in Extractors : Race!Cells(x)' = Race!Cells(x) /\ (x # y => Race!Here(x)' = Race!Here(x))
  BY <1>1, <1>2, <1>3 DEF Race!Cells, Race!Here
<1>6. Race!Typed'
  <2>1. position' \in [Extractors -> Nat \ {0}]
    BY <1>1, <1>3, <1>4
  <2>2. QED
    BY <1>1, <1>2, <2>1 DEF Race!Typed
<1>7. Race!Flags'
  BY <1>1 DEF Race!Flags
<1>8. Race!OwnFile'
  BY <1>1, <1>2 DEF Race!OwnFile
<1>9. Race!OneHeader'
  BY <1>1, <1>2, <1>3, <1>5 DEF Race!OneHeader
<1>10. Race!Found'
  <2>1. l = "mark" => position'[y] = position[y] /\ position[y] < Len(Race!Cells(y)) /\ Race!IsOf(Race!Here(y), wanted[y]) /\ Race!Here(y)' = Race!Here(y)
    BY <1>1, <1>3, CellFacts DEF Race!Here, Race!Cells
  <2>2. QED
    BY <1>1, <1>2, <1>3, <1>5, <2>1 DEF Race!Found
<1>11. Race!Extracted'
  <2>1. Race!Running(y) /\ (Race!Running(y)' => Race!Running(y))
    BY <1>1 DEF Race!Running
  <2>2. \A x \in Extractors : Race!Running(x)' => Race!Running(x)
    BY <1>2, <2>1
  <2>3. \A x \in Extractors : extracted'[x] = TRUE /\ wanted'[x] \in Adders => pc'[wanted'[x]] \in {"data", "done"}
    BY <1>1, <1>2 DEF Race!Extracted
  <2>4. QED
    BY <1>1, <1>2, <2>2, <2>3 DEF Race!Extracted
<1>12. Race!Alternating'
  <2>1. mixed = FALSE => Race!Odd(position'[y])
    <3>1. SUFFICES ASSUME mixed = FALSE, position'[y] = Race!Skip(y), ~Race!AtEnd(y) PROVE Race!Odd(Race!Skip(y))
      BY <1>3 DEF Race!Alternating
    <3>2. Race!Odd(position[y]) /\ position[y] \in Nat
      BY <3>1, <1>3 DEF Race!Alternating
    <3>3. opened[y] \in DOMAIN files /\ position[y] \in DOMAIN files[opened[y]] /\ Race!Here(y) = files[opened[y]][position[y]]
      BY <3>1, <1>2, <1>3, RaceTypes DEF Race!AtEnd, Race!Typed, Race!Cells, Race!Here
    <3>4. Race!IsHeader(Race!Here(y))
      BY <3>1, <3>2, <3>3 DEF Race!Alternating
    <3>5. QED
      BY <3>2, <3>4, <1>4, Parity
  <2>2. mixed = FALSE => \A x \in Extractors : Race!Odd(position'[x])
    BY <1>3, <2>1 DEF Race!Alternating
  <2>3. \A p \in Adders : pc'[p] = pc[p]
    BY <1>2
  <2>4. Race!Adding' = Race!Adding /\ Race!Adding \subseteq Adders
    BY <1>2 DEF Race!Adding
  <2>5. QED
    BY <1>1, <2>2, <2>3, <2>4 DEF Race!Alternating
<1>13. Race!NothingLost'
  <2>1. \A r : Race!Safe(r)' => Race!Safe(r)
    BY <1>1, <1>2 DEF Race!Safe
  <2>2. \A x \in Race!Compressing : x \in Extractors /\ x # y
    BY <1>1 DEF Race!Compressing
  <2>3. QED
    BY <1>1, <1>2, <1>3, <1>5, <2>1, <2>2 DEF Race!NothingLost, Race!Has
<1>14. QED
  BY <1>6, <1>7, <1>8, <1>9, <1>10, <1>11, <1>12, <1>13

LEMMA CompressOpenKeeps ==
  ASSUME Race!IInv, NEW y \in Extractors, Race!CompressOpen(y)
  PROVE  Race!IInv'
<1> USE DEF Race!IInv
<1>1. /\ pc[y] = "compress" /\ pc' = [pc EXCEPT ![y] = "copy"]
      /\ opened' = [opened EXCEPT ![y] = archive] /\ position' = [position EXCEPT ![y] = 1]
      /\ UNCHANGED <<archive, files, wanted, extracted, mixed, raced, crossed>>
  BY DEF Race!CompressOpen, Race!Goto, Race!history
<1>2. /\ pc'[y] = "copy" /\ y \in Race!Processes /\ \A p \in Adders : pc'[p] = pc[p] /\ p # y /\ p \in Race!Processes
      /\ \A x \in Extractors : x # y => (Race!Running(x)' <=> Race!Running(x)) /\ pc'[x] = pc[x] /\ x \in Race!Processes
      /\ Race!Adding' = Race!Adding /\ Race!Compressing' = Race!Compressing \cup {y}
      /\ \A q \in Race!Processes : pc'[q] \in Race!Labels(q)
      /\ DOMAIN pc' = Race!Processes
  BY <1>1, ExtractorStep
<1>3. /\ opened \in [Race!Processes -> DOMAIN files] /\ archive \in DOMAIN files
      /\ opened'[y] = archive /\ \A q \in Race!Processes : q # y => opened'[q] = opened[q]
      /\ position \in [Extractors -> Nat \ {0}] /\ position'[y] = 1 /\ \A x \in Extractors : x # y => position'[x] = position[x]
  BY <1>1, <1>2 DEF Race!Typed
<1>4. \A x \in Extractors : x # y => Race!Cells(x)' = Race!Cells(x) /\ Race!Here(x)' = Race!Here(x)
  BY <1>1, <1>2, <1>3 DEF Race!Cells, Race!Here
<1>5. y \notin Race!Compressing /\ files[y] = <<>> /\ DOMAIN files[y] = {} /\ Race!Running(y)
  <2>1. y \notin Race!Compressing /\ files[y] = <<>> /\ Race!Running(y)
    BY <1>1 DEF Race!Compressing, Race!OwnFile, Race!Running
  <2>2. QED
    BY <2>1
<1>6. Race!Typed'
  BY <1>1, <1>2, <1>3 DEF Race!Typed
<1>7. Race!Flags'
  BY <1>1 DEF Race!Flags
<1>8. Race!OwnFile'
  BY <1>1, <1>2, <1>3 DEF Race!OwnFile
<1>9. Race!OneHeader' /\ Race!Found'
  BY <1>1, <1>2, <1>3, <1>4, <1>5 DEF Race!OneHeader, Race!Found
<1>10. Race!Extracted'
  <2>1. \A x \in Extractors : extracted'[x] = TRUE /\ wanted'[x] \in Adders => pc'[wanted'[x]] \in {"data", "done"}
    BY <1>1, <1>2 DEF Race!Extracted
  <2>2. ASSUME crossed = FALSE
        PROVE  /\ \A x, z \in Extractors : Race!Running(x)' /\ Race!Running(z)' => x = z
               /\ \A x \in Extractors : Race!Running(x)' => opened'[x] = archive
    <3>1. \A x \in Extractors : Race!Running(x)' => Race!Running(x)
      BY <1>2, <1>5
    <3>2. QED
      BY <2>2, <3>1, <1>2, <1>3 DEF Race!Extracted
  <2>3. ASSUME crossed = FALSE, NEW x \in Extractors, extracted[x] = TRUE,
               NEW q \in Race!Compressing' \cup {archive}, NEW k \in DOMAIN files[q]
        PROVE  files[q][k] # Race!Header(wanted[x])
    BY <2>3, <1>2, <1>5 DEF Race!Extracted
  <2>4. QED
    BY <1>1, <2>1, <2>2, <2>3 DEF Race!Extracted
<1>11. Race!Alternating'
  <2>1. mixed = FALSE => \A x \in Extractors : Race!Odd(position'[x])
    BY <1>3, Parity DEF Race!Alternating
  <2>2. \A p \in Adders : pc'[p] = pc[p] /\ opened'[p] = opened[p]
    BY <1>2, <1>3
  <2>3. Race!Adding' = Race!Adding /\ Race!Adding \subseteq Adders
    BY <1>2 DEF Race!Adding
  <2>4. QED
    BY <1>1, <2>1, <2>2, <2>3 DEF Race!Alternating
<1>12. Race!NothingLost'
  <2> SUFFICES ASSUME mixed = FALSE, NEW r \in Race!Records, Race!Safe(r)'
               PROVE  /\ Race!Has(files[archive], 1, r)'
                      /\ \A x \in Race!Compressing' : \/ Race!Has(files[x], 1, r)'
                                                      \/ (pc[x] = "copy" /\ Race!Has(Race!Cells(x), position[x], r))'
    BY <1>1 DEF Race!NothingLost
  <2>1. Race!Safe(r)
    BY <1>1, <1>2 DEF Race!Safe
  <2>2. Race!Has(files[archive], 1, r)
    BY <2>1 DEF Race!NothingLost
  <2>3. Race!Has(files[archive], 1, r)'
    BY <2>2, <1>1 DEF Race!Has
  <2>4. (pc[y] = "copy" /\ Race!Has(Race!Cells(y), position[y], r))'
    BY <2>2, <1>1, <1>2, <1>3 DEF Race!Has, Race!Cells
  <2>5. ASSUME NEW x \in Race!Compressing
        PROVE  Race!Has(files[x], 1, r)' \/ (pc[x] = "copy" /\ Race!Has(Race!Cells(x), position[x], r))'
    <3>1. x \in Extractors /\ x # y
      BY <1>5 DEF Race!Compressing
    <3>2. Race!Has(files[x], 1, r) \/ (pc[x] = "copy" /\ Race!Has(Race!Cells(x), position[x], r))
      BY <2>1 DEF Race!NothingLost
    <3>3. QED
      BY <3>1, <3>2, <1>1, <1>2, <1>3, <1>4 DEF Race!Has
  <2>6. QED
    BY <2>3, <2>4, <2>5, <1>2
<1>13. QED
  BY <1>6, <1>7, <1>8, <1>9, <1>10, <1>11, <1>12

LEMMA CompressEndKeeps ==
  ASSUME Race!IInv, NEW y \in Extractors, Race!CompressEnd(y)
  PROVE  Race!IInv'
<1> USE DEF Race!IInv
<1>1. /\ pc[y] = "copy" /\ pc' = [pc EXCEPT ![y] = "rename"] /\ Race!AtEnd(y)
      /\ UNCHANGED <<archive, files, opened, position, wanted, extracted, mixed, raced, crossed>>
  BY DEF Race!CompressEnd, Race!Goto, Race!history
<1>2. /\ pc'[y] = "rename" /\ y \in Race!Processes /\ \A p \in Adders : pc'[p] = pc[p] /\ p # y /\ p \in Race!Processes
      /\ \A x \in Extractors : x # y => (Race!Running(x)' <=> Race!Running(x)) /\ pc'[x] = pc[x] /\ x \in Race!Processes
      /\ Race!Adding' = Race!Adding /\ Race!Compressing' = Race!Compressing
      /\ \A q \in Race!Processes : pc'[q] \in Race!Labels(q)
      /\ DOMAIN pc' = Race!Processes
  <2>1. y \in Race!Compressing
    BY <1>1 DEF Race!Compressing
  <2>2. Race!Compressing' = Race!Compressing
    <3>1. Race!Compressing' = Race!Compressing \cup {y}
      BY <1>1, ExtractorStep
    <3>2. QED
      BY <2>1, <3>1
  <2>3. QED
    BY <1>1, <2>2, ExtractorStep
<1>3. \A x \in Extractors : Race!Cells(x)' = Race!Cells(x) /\ Race!Here(x)' = Race!Here(x)
  BY <1>1 DEF Race!Cells, Race!Here
<1>4. \A x \in Extractors : Race!Running(x)' => Race!Running(x)
  BY <1>1, <1>2 DEF Race!Running
<1>5. Race!Typed' /\ Race!Flags'
  BY <1>1, <1>2 DEF Race!Typed, Race!Flags
<1>6. Race!OwnFile' /\ Race!OneHeader' /\ Race!Found'
  BY <1>1, <1>2, <1>3 DEF Race!OwnFile, Race!OneHeader, Race!Found
<1>7. Race!Extracted'
  <2>1. \A x \in Extractors : extracted'[x] = TRUE /\ wanted'[x] \in Adders => pc'[wanted'[x]] \in {"data", "done"}
    BY <1>1, <1>2 DEF Race!Extracted
  <2>2. QED
    BY <1>1, <1>2, <1>4, <2>1 DEF Race!Extracted
<1>8. Race!Alternating'
  <2>1. \A p \in Adders : pc'[p] = pc[p]
    BY <1>2
  <2>2. Race!Adding' = Race!Adding /\ Race!Adding \subseteq Adders
    BY <1>2 DEF Race!Adding
  <2>3. QED
    BY <1>1, <2>1, <2>2 DEF Race!Alternating
<1>9. Race!NothingLost'
  <2>1. \A r : Race!Safe(r)' => Race!Safe(r)
    BY <1>1, <1>2 DEF Race!Safe
  <2>2. \A r : ~Race!Has(Race!Cells(y), position[y], r)
    BY <1>1, <1>2, RaceTypes DEF Race!AtEnd, Race!Has, Race!Cells, Race!Typed
  <2>3. \A x \in Race!Compressing : x \in Extractors
    BY DEF Race!Compressing
  <2> SUFFICES ASSUME mixed = FALSE, NEW r \in Race!Records, Race!Safe(r)
               PROVE  /\ Race!Has(files[archive], 1, r)'
                      /\ \A x \in Race!Compressing : \/ Race!Has(files[x], 1, r)'
                                                     \/ (pc[x] = "copy" /\ Race!Has(Race!Cells(x), position[x], r))'
    BY <1>1, <1>2, <2>1 DEF Race!NothingLost
  <2>4. Race!Has(files[archive], 1, r)'
    BY <1>1 DEF Race!NothingLost, Race!Has
  <2>5. ASSUME NEW x \in Race!Compressing
        PROVE  Race!Has(files[x], 1, r)' \/ (pc[x] = "copy" /\ Race!Has(Race!Cells(x), position[x], r))'
    <3>1. Race!Has(files[x], 1, r) \/ (pc[x] = "copy" /\ Race!Has(Race!Cells(x), position[x], r))
      BY DEF Race!NothingLost
    <3>2. x = y => Race!Has(files[x], 1, r)
      BY <3>1, <2>2
    <3>3. QED
      BY <3>1, <3>2, <2>3, <1>1, <1>2, <1>3 DEF Race!Has
  <2>6. QED
    BY <2>4, <2>5
<1>10. QED
  BY <1>5, <1>6, <1>7, <1>8, <1>9

LEMMA RenameKeeps ==
  ASSUME Race!IInv, NEW y \in Extractors, Race!Rename(y)
  PROVE  Race!IInv'
<1> USE DEF Race!IInv
<1>1. /\ pc[y] = "rename" /\ pc' = [pc EXCEPT ![y] = "done"] /\ archive' = y /\ raced' = raced \cup Race!Adding
      /\ UNCHANGED <<files, opened, position, wanted, extracted, mixed, crossed>>
  BY DEF Race!Rename, Race!Goto, Race!history
<1>2. /\ pc'[y] = "done" /\ y \in Race!Processes /\ \A p \in Adders : pc'[p] = pc[p] /\ p # y /\ p \in Race!Processes
      /\ \A x \in Extractors : x # y => (Race!Running(x)' <=> Race!Running(x)) /\ pc'[x] = pc[x] /\ x \in Race!Processes
      /\ Race!Adding' = Race!Adding /\ Race!Compressing' = Race!Compressing \ {y}
      /\ \A q \in Race!Processes : pc'[q] \in Race!Labels(q)
      /\ DOMAIN pc' = Race!Processes
  BY <1>1, ExtractorStep
<1>3. \A x \in Extractors : Race!Cells(x)' = Race!Cells(x) /\ Race!Here(x)' = Race!Here(x)
  BY <1>1 DEF Race!Cells, Race!Here
<1>4. Race!Running(y) /\ ~Race!Running(y)' /\ y \in Race!Compressing /\ Race!Adding \subseteq Adders
  BY <1>1, <1>2 DEF Race!Running, Race!Compressing, Race!Adding
<1>5. Race!Typed' /\ Race!Flags'
  <2>1. y \in DOMAIN files /\ raced' \subseteq Adders
    BY <1>1, <1>4, RaceTypes DEF Race!Typed
  <2>2. QED
    BY <1>1, <1>2, <2>1 DEF Race!Typed, Race!Flags
<1>6. Race!OwnFile'
  BY <1>1, <1>2 DEF Race!OwnFile
<1>7. Race!OneHeader' /\ Race!Found'
  BY <1>1, <1>2, <1>3 DEF Race!OneHeader, Race!Found
<1>8. Race!Extracted'
  <2>1. \A x \in Extractors : extracted'[x] = TRUE /\ wanted'[x] \in Adders => pc'[wanted'[x]] \in {"data", "done"}
    BY <1>1, <1>2 DEF Race!Extracted
  <2>2. crossed = FALSE => \A x \in Extractors : ~Race!Running(x)'
    BY <1>2, <1>4 DEF Race!Extracted
  <2>3. ASSUME crossed = FALSE, NEW x \in Extractors, extracted[x] = TRUE,
               NEW q \in Race!Compressing' \cup {y}, NEW k \in DOMAIN files[q]
        PROVE  files[q][k] # Race!Header(wanted[x])
    BY <2>3, <1>2, <1>4 DEF Race!Extracted
  <2>4. QED
    BY <1>1, <2>1, <2>2, <2>3 DEF Race!Extracted
<1>9. Race!Alternating'
  <2>1. \A p \in Adders : pc'[p] = pc[p]
    BY <1>2
  <2>2. Race!Adding' \ raced' = {}
    BY <1>1, <1>2
  <2>3. QED
    BY <1>1, <1>2, <1>4, <2>1, <2>2 DEF Race!Alternating
<1>10. Race!NothingLost'
  <2>1. \A r : Race!Safe(r)' => Race!Safe(r)
    BY <1>1, <1>2 DEF Race!Safe
  <2> SUFFICES ASSUME mixed = FALSE, NEW r \in Race!Records, Race!Safe(r)
               PROVE  /\ Race!Has(files[archive], 1, r)'
                      /\ \A x \in Race!Compressing' : \/ Race!Has(files[x], 1, r)'
                                                      \/ (pc[x] = "copy" /\ Race!Has(Race!Cells(x), position[x], r))'
    BY <1>1, <2>1 DEF Race!NothingLost
  <2>2. Race!Has(files[y], 1, r)
    BY <1>1, <1>4 DEF Race!NothingLost
  <2>3. Race!Has(files[archive], 1, r)'
    BY <2>2, <1>1 DEF Race!Has
  <2>4. ASSUME NEW x \in Race!Compressing, x # y
        PROVE  Race!Has(files[x], 1, r)' \/ (pc[x] = "copy" /\ Race!Has(Race!Cells(x), position[x], r))'
    <3>1. x \in Extractors
      BY DEF Race!Compressing
    <3>2. Race!Has(files[x], 1, r) \/ (pc[x] = "copy" /\ Race!Has(Race!Cells(x), position[x], r))
      BY DEF Race!NothingLost
    <3>3. QED
      BY <2>4, <3>1, <3>2, <1>1, <1>2, <1>3 DEF Race!Has
  <2>5. QED
    BY <2>3, <2>4, <1>2
<1>11. QED
  BY <1>5, <1>6, <1>7, <1>8, <1>9, <1>10

LEMMA SetMark ==
  ASSUME NEW t, NEW v, NEW w
  PROVE  [[kind |-> "header", record |-> t, marked_deleted |-> v] EXCEPT !.marked_deleted = w]
           = [kind |-> "header", record |-> t, marked_deleted |-> w]
OBVIOUS

LEMMA MarkKeeps ==
  ASSUME Race!IInv, NEW y \in Extractors, Race!Mark(y)
  PROVE  Race!IInv'
<1> USE DEF Race!IInv
<1> DEFINE F == opened[y]
           P == position[y]
           t == wanted[y]
<1>1. /\ pc[y] = "mark" /\ pc' = [pc EXCEPT ![y] = "compress"]
      /\ files' = [files EXCEPT ![F][P].marked_deleted = TRUE]
      /\ extracted' = [extracted EXCEPT ![y] = TRUE]
      /\ UNCHANGED <<archive, opened, position, wanted, mixed, raced, crossed>>
  BY DEF Race!Mark, Race!Goto, Race!history
<1>2. /\ pc'[y] = "compress" /\ y \in Race!Processes /\ \A p \in Adders : pc'[p] = pc[p] /\ p # y /\ p \in Race!Processes
      /\ \A x \in Extractors : x # y => (Race!Running(x)' <=> Race!Running(x)) /\ pc'[x] = pc[x] /\ x \in Race!Processes
      /\ Race!Adding' = Race!Adding /\ Race!Compressing' = Race!Compressing
      /\ \A q \in Race!Processes : pc'[q] \in Race!Labels(q)
      /\ DOMAIN pc' = Race!Processes
  <2>1. y \notin Race!Compressing
    BY <1>1 DEF Race!Compressing
  <2>2. Race!Compressing' = Race!Compressing
    <3>1. Race!Compressing' = Race!Compressing \ {y}
      BY <1>1, ExtractorStep
    <3>2. QED
      BY <2>1, <3>1
  <2>3. QED
    BY <1>1, <2>2, ExtractorStep
<1>3. /\ F \in DOMAIN files /\ P \in Nat \ {0} /\ t \in Race!Records
      /\ files[F] \in Seq(Race!AnyCell) /\ Len(files[F]) \in Nat
      /\ P < Len(files[F]) /\ P \in DOMAIN files[F] /\ Race!IsOf(files[F][P], t)
  <2>1. F \in DOMAIN files /\ P \in Nat \ {0} /\ t \in Race!Records
    BY <1>2 DEF Race!Typed
  <2>2. P < Len(files[F]) /\ Race!IsOf(files[F][P], t)
    BY <1>1, RaceTypes DEF Race!Found
  <2>3. QED
    BY <2>1, <2>2, RaceTypes
<1>4. /\ DOMAIN files' = DOMAIN files
      /\ \A q \in DOMAIN files : q # F => files'[q] = files[q]
      /\ files'[F] = [files[F] EXCEPT ![P] = Race!Marked(t)]
  <2>1. \A z : Race!IsOf(z, t) => [z EXCEPT !.marked_deleted = TRUE] = Race!Marked(t)
    <3>1. [Race!Header(t) EXCEPT !.marked_deleted = TRUE] = Race!Marked(t)
      BY SetMark DEF Race!Header, Race!Marked
    <3>2. [Race!Marked(t) EXCEPT !.marked_deleted = TRUE] = Race!Marked(t)
      BY SetMark DEF Race!Marked
    <3>3. QED
      BY <3>1, <3>2 DEF Race!IsOf
  <2>2. files' = [files EXCEPT ![F] = [files[F] EXCEPT ![P] = [files[F][P] EXCEPT !.marked_deleted = TRUE]]]
    BY <1>1
  <2>3. files' = [files EXCEPT ![F] = [files[F] EXCEPT ![P] = Race!Marked(t)]]
    BY <2>1, <2>2, <1>3
  <2>4. QED
    BY <2>3, <1>3, RaceTypes DEF Race!Typed
<1> HIDE DEF F, P, t
<1>5. /\ Len(files'[F]) = Len(files[F]) /\ files'[F] \in Seq(Race!AnyCell)
      /\ DOMAIN files'[F] = DOMAIN files[F] /\ files'[F][P] = Race!Marked(t)
      /\ \A k \in DOMAIN files[F] : k # P => files'[F][k] = files[F][k]
  <2>1. Race!Marked(t) \in Race!AnyCell
    BY <1>3, CellFacts
  <2>2. QED
    BY <1>3, <1>4, <2>1
<1>6. \A q \in DOMAIN files :
        /\ Len(files'[q]) = Len(files[q]) /\ DOMAIN files'[q] = DOMAIN files[q] /\ files'[q] \in Seq(Race!AnyCell)
        /\ \A k \in DOMAIN files[q] : q # F \/ k # P => files'[q][k] = files[q][k]
  BY <1>4, <1>5, RaceTypes
<1>7. \A q \in DOMAIN files : \A k \in DOMAIN files[q] :
        /\ \A r : Race!IsOf(files'[q][k], r) <=> Race!IsOf(files[q][k], r)
        /\ Race!IsHeader(files'[q][k]) <=> Race!IsHeader(files[q][k])
        /\ \A r : files'[q][k] = Race!Header(r) => files[q][k] = Race!Header(r)
        /\ \A r : files[q][k] = Race!Header(r) /\ r # t => files'[q][k] = Race!Header(r)
  <2> SUFFICES ASSUME NEW q \in DOMAIN files, NEW k \in DOMAIN files[q]
               PROVE  /\ \A r : Race!IsOf(files'[q][k], r) <=> Race!IsOf(files[q][k], r)
                      /\ Race!IsHeader(files'[q][k]) <=> Race!IsHeader(files[q][k])
                      /\ \A r : files'[q][k] = Race!Header(r) => files[q][k] = Race!Header(r)
                      /\ \A r : files[q][k] = Race!Header(r) /\ r # t => files'[q][k] = Race!Header(r)
    OBVIOUS
  <2>1. CASE q = F /\ k = P
    <3>1. /\ Race!IsOf(files[q][k], t) /\ files'[q][k] = Race!Marked(t) /\ Race!IsOf(Race!Marked(t), t)
          /\ files[q][k] \in Race!AnyCell /\ Race!IsHeader(Race!Marked(t))
      BY <2>1, <1>3, <1>5, CellFacts, RaceTypes
    <3>2. Race!IsHeader(files[q][k])
      BY <3>1, <1>3, CellFacts
    <3>3. \A r : Race!IsOf(files'[q][k], r) <=> Race!IsOf(files[q][k], r)
      BY <3>1, CellFacts
    <3>4. \A r : files'[q][k] # Race!Header(r)
      BY <3>1, CellFacts
    <3>5. \A r : files[q][k] = Race!Header(r) => r = t
      BY <3>1, CellFacts
    <3>6. QED
      BY <3>1, <3>2, <3>3, <3>4, <3>5
  <2>2. CASE q # F \/ k # P
    BY <2>2, <1>6
  <2>3. QED
    BY <2>1, <2>2
<1>8. \A x \in Extractors : /\ Race!Cells(x)' = files'[opened[x]] /\ Race!Cells(x) = files[opened[x]] /\ opened[x] \in DOMAIN files
                            /\ Race!Here(x)' = files'[opened[x]][position[x]] /\ Race!Here(x) = files[opened[x]][position[x]]
                            /\ x \in DOMAIN files /\ position[x] \in Nat \ {0} /\ wanted[x] \in Race!Records
  BY <1>1, <1>2, RaceTypes DEF Race!Cells, Race!Here, Race!Typed
<1>9. \A x \in Extractors : pc[x] # "done" => x # F /\ files'[x] = files[x]
  BY <1>2, <1>4, <1>8 DEF Race!OwnFile, F
<1>10. Race!Typed'
  <2>1. files' \in [Extractors \cup {Race!FirstFile} -> Seq(Race!AnyCell)]
    BY <1>1, <1>6, RaceTypes DEF Race!Typed
  <2>2. QED
    BY <1>1, <1>2, <1>4, <2>1 DEF Race!Typed
<1>11. Race!Flags'
  BY <1>1 DEF Race!Flags
<1>12. Race!OwnFile'
  BY <1>1, <1>2, <1>9 DEF Race!OwnFile
<1>13. Race!OneHeader'
  <2>1. ASSUME NEW q \in DOMAIN files, NEW r \in Race!Records, NEW k \in DOMAIN files'[q], NEW m \in DOMAIN files'[q],
               Race!IsOf(files'[q][k], r), Race!IsOf(files'[q][m], r)
        PROVE  k = m
    BY <2>1, <1>6, <1>7 DEF Race!OneHeader
  <2>2. ASSUME NEW q \in Adders, pc'[q] \in {"start", "header"}, NEW s \in DOMAIN files, NEW k \in DOMAIN files'[s]
        PROVE  ~Race!IsOf(files'[s][k], q)
    BY <2>2, <1>2, <1>6, <1>7 DEF Race!OneHeader
  <2>3. ASSUME NEW x \in Extractors, pc'[x] = "copy", NEW r \in Race!Records, NEW k \in DOMAIN files'[x],
               Race!IsOf(files'[x][k], r)
        PROVE  \E m \in DOMAIN Race!Cells(x)' : m < position'[x] /\ Race!IsOf(Race!Cells(x)'[m], r)
    <3>1. pc[x] = "copy" /\ files'[x] = files[x] /\ position'[x] = position[x]
      BY <2>3, <1>1, <1>2, <1>9
    <3>2. PICK m \in DOMAIN Race!Cells(x) : m < position[x] /\ Race!IsOf(Race!Cells(x)[m], r)
      BY <2>3, <3>1 DEF Race!OneHeader
    <3>3. m \in DOMAIN Race!Cells(x)' /\ Race!IsOf(Race!Cells(x)'[m], r)
      BY <3>2, <1>6, <1>7, <1>8
    <3>4. QED
      BY <3>1, <3>2, <3>3
  <2>4. QED
    BY <1>4, <2>1, <2>2, <2>3 DEF Race!OneHeader
<1>14. Race!Found'
  <2> SUFFICES ASSUME NEW x \in Extractors, pc'[x] = "mark"
               PROVE  position'[x] < Len(Race!Cells(x)') /\ Race!IsOf(Race!Here(x)', wanted'[x])
    BY DEF Race!Found
  <2>1. x # y /\ pc[x] = "mark"
    BY <1>2
  <2>2. position[x] < Len(Race!Cells(x)) /\ Race!IsOf(Race!Here(x), wanted[x])
    BY <2>1 DEF Race!Found
  <2>3. position[x] \in DOMAIN files[opened[x]]
    BY <2>2, <1>8, RaceTypes
  <2>4. Len(Race!Cells(x)') = Len(Race!Cells(x)) /\ Race!IsOf(Race!Here(x)', wanted[x])
    BY <2>2, <2>3, <1>6, <1>7, <1>8
  <2>5. QED
    BY <2>2, <2>4, <1>1
<1>15. Race!Extracted'
  <2>1. ASSUME NEW x \in Extractors, extracted'[x] = TRUE, wanted[x] \in Adders
        PROVE  pc'[wanted[x]] \in {"data", "done"}
    <3>1. CASE x # y
      <4>1. extracted[x] = TRUE
        BY <2>1, <3>1, <1>1 DEF Race!Flags
      <4>2. QED
        BY <2>1, <4>1, <1>2 DEF Race!Extracted
    <3>2. CASE x = y
      <4>1. t \in Adders
        BY <2>1, <3>2 DEF t
      <4>2. pc[t] \notin {"start", "header"}
        BY <4>1, <1>3 DEF Race!OneHeader
      <4>3. QED
        BY <3>2, <4>1, <4>2, <1>2, RaceTypes DEF t
    <3>3. QED
      BY <3>1, <3>2
  <2>2. \A x \in Extractors : Race!Running(x)' => Race!Running(x)
    BY <1>1, <1>2 DEF Race!Running
  <2>3. ASSUME crossed = FALSE, NEW x \in Extractors, extracted'[x] = TRUE,
               NEW q \in Race!Compressing \cup {archive}, NEW k \in DOMAIN files'[q]
        PROVE  files'[q][k] # Race!Header(wanted[x])
    <3>1. q \in DOMAIN files /\ k \in DOMAIN files[q]
      BY <1>6, <1>8 DEF Race!Compressing, Race!Typed
    <3>2. CASE x # y
      <4>1. extracted[x] = TRUE
        BY <2>3, <3>2, <1>1 DEF Race!Flags
      <4>2. QED
        BY <2>3, <3>1, <4>1, <1>7 DEF Race!Extracted
    <3>3. CASE x = y
      <4>1. Race!Running(y) /\ Race!Compressing = {}
        <5>1. Race!Running(y)
          BY <1>1 DEF Race!Running
        <5>2. ASSUME NEW z \in Race!Compressing PROVE FALSE
          <6>1. z \in Extractors /\ Race!Running(z) /\ z # y
            BY <1>1 DEF Race!Compressing, Race!Running
          <6>2. QED
            BY <2>3, <5>1, <6>1 DEF Race!Extracted
        <5>3. QED
          BY <5>1, <5>2
      <4>2. q = F
        BY <2>3, <4>1 DEF Race!Extracted, F
      <4>3. SUFFICES ASSUME files'[q][k] = Race!Header(t) PROVE FALSE
        BY <3>3 DEF t
      <4>4. Race!IsOf(files[F][k], t)
        BY <3>1, <4>2, <4>3, <1>7, CellFacts
      <4>5. k = P
        BY <3>1, <4>2, <4>4, <1>3 DEF Race!OneHeader
      <4>6. QED
        BY <4>2, <4>3, <4>5, <1>5, CellFacts
    <3>4. QED
      BY <3>2, <3>3
  <2>4. crossed' = FALSE =>
          /\ \A x, z \in Extractors : Race!Running(x)' /\ Race!Running(z)' => x = z
          /\ \A x \in Extractors : Race!Running(x)' => opened'[x] = archive'
    BY <2>2, <1>1 DEF Race!Extracted
  <2>5. crossed' = FALSE =>
          \A x \in Extractors : extracted'[x] = TRUE =>
            \A q \in Race!Compressing' \cup {archive'} : \A k \in DOMAIN files'[q] : files'[q][k] # Race!Header(wanted'[x])
    <3>1. Race!Compressing' = Race!Compressing /\ UNCHANGED <<archive, wanted, crossed>>
      BY <1>1, <1>2
    <3>2. QED
      BY <3>1, <2>3, Zenon
  <2>6. QED
    BY <2>1, <2>4, <2>5, <1>1 DEF Race!Extracted
<1>16. Race!Alternating'
  <2> SUFFICES ASSUME mixed = FALSE PROVE Race!Alternating'
    BY <1>1 DEF Race!Alternating
  <2>1. \A p \in Adders : pc'[p] = pc[p] /\ opened'[p] = opened[p] /\ opened[p] \in DOMAIN files
    BY <1>1, <1>2 DEF Race!Typed
  <2>2. Race!Adding' = Race!Adding /\ Race!Adding \subseteq Adders
    BY <1>2 DEF Race!Adding
  <2>3. \A q \in DOMAIN files : \A k \in DOMAIN files'[q] : Race!IsHeader(files'[q][k]) <=> Race!Odd(k)
    BY <1>6, <1>7 DEF Race!Alternating
  <2>4. ASSUME NEW q \in Race!Adding \ raced, pc[q] = "data"
        PROVE  files'[archive][Len(files'[archive])] = Race!Header(q)
    <3>1. files[archive][Len(files[archive])] = Race!Header(q) /\ opened[q] = archive
      BY <2>4 DEF Race!Alternating
    <3>2. archive \in DOMAIN files /\ Race!Odd(Len(files[archive])) /\ Len(files[archive]) \in DOMAIN files[archive]
      <4>1. Race!Odd(Len(files[archive])) /\ Len(files[archive]) \in Nat /\ archive \in DOMAIN files
        BY <2>2, <2>4, <3>1, RaceTypes DEF Race!Alternating, Race!Typed
      <4>2. Len(files[archive]) # 0
        BY <4>1, Parity
      <4>3. QED
        BY <4>1, <4>2, RaceTypes
    <3>3. archive # F \/ Len(files[archive]) # P
      BY <1>3
    <3>4. QED
      BY <3>1, <3>2, <3>3, <1>6
  <2>5. \A q \in DOMAIN files : Race!Odd(Len(files'[q])) => \E s \in Adders : pc'[s] = "data" /\ opened'[s] = q
    BY <2>1, <1>6 DEF Race!Alternating
  <2>6. \A q \in Adders : pc'[q] = "data" => Race!Odd(Len(files'[opened'[q]]))
    BY <2>1, <1>6 DEF Race!Alternating
  <2>7. \A q \in Race!Adding' \ raced' :
          opened'[q] = archive' /\ (pc'[q] = "data" => files'[archive'][Len(files'[archive'])] = Race!Header(q))
    BY <2>1, <2>2, <2>4, <1>1 DEF Race!Alternating
  <2>8. (\A p, q \in Race!Adding' : p = q) /\ \A x \in Extractors : Race!Odd(position'[x])
    BY <2>2, <1>1 DEF Race!Alternating
  <2>9. QED
    BY <2>3, <2>5, <2>6, <2>7, <2>8, <1>4 DEF Race!Alternating
<1>17. Race!NothingLost'
  <2>1. \A r : Race!Safe(r)' => Race!Safe(r) /\ r # t
    <3>1. extracted'[y] = TRUE
      BY <1>1 DEF Race!Flags
    <3>2. \A x \in Extractors : extracted'[x] = FALSE => extracted[x] = FALSE
      BY <1>1 DEF Race!Flags
    <3>3. QED
      BY <3>1, <3>2, <1>1, <1>2 DEF Race!Safe, t
  <2> SUFFICES ASSUME mixed = FALSE, NEW r \in Race!Records, Race!Safe(r), r # t
               PROVE  /\ Race!Has(files[archive], 1, r)'
                      /\ \A x \in Race!Compressing : \/ Race!Has(files[x], 1, r)'
                                                     \/ (pc[x] = "copy" /\ Race!Has(Race!Cells(x), position[x], r))'
    BY <1>1, <1>2, <2>1 DEF Race!NothingLost
  <2>2. ASSUME NEW q \in DOMAIN files, NEW first \in Nat \ {0}, Race!Has(files[q], first, r)
        PROVE  Race!Has(files'[q], first, r)
    <3>1. PICK k \in first..Len(files[q]) - 1 : Race!Odd(k) /\ files[q][k] = Race!Header(r)
      BY <2>2 DEF Race!Has
    <3>2. k \in DOMAIN files[q]
      BY <3>1, RaceTypes
    <3>3. files'[q][k] = Race!Header(r) /\ Len(files'[q]) = Len(files[q])
      BY <3>1, <3>2, <1>6, <1>7
    <3>4. QED
      BY <3>1, <3>3 DEF Race!Has
  <2>3. Race!Has(files[archive], 1, r)'
    <3>1. Race!Has(files'[archive], 1, r)
      BY <2>2 DEF Race!NothingLost, Race!Typed
    <3>2. QED
      BY <3>1, <1>1 DEF Race!Has
  <2>4. ASSUME NEW x \in Race!Compressing
        PROVE  Race!Has(files[x], 1, r)' \/ (pc[x] = "copy" /\ Race!Has(Race!Cells(x), position[x], r))'
    <3>1. x \in Extractors /\ x # y
      BY <1>1 DEF Race!Compressing
    <3>2. CASE Race!Has(files[x], 1, r)
      <4>1. Race!Has(files'[x], 1, r)
        BY <3>1, <3>2, <1>8, <2>2
      <4>2. QED
        BY <4>1 DEF Race!Has
    <3>3. CASE pc[x] = "copy" /\ Race!Has(Race!Cells(x), position[x], r)
      <4>1. Race!Has(files'[opened[x]], position[x], r) /\ Race!Cells(x)' = files'[opened[x]] /\ position'[x] = position[x]
        BY <3>1, <3>3, <1>1, <1>8, <2>2
      <4>2. QED
        BY <3>1, <3>3, <4>1, <1>2 DEF Race!Has
    <3>4. QED
      BY <3>2, <3>3 DEF Race!NothingLost
  <2>5. QED
    BY <2>3, <2>4
<1>18. QED
  BY <1>10, <1>11, <1>12, <1>13, <1>14, <1>15, <1>16, <1>17

(* What every turn of the copying loop does.                               *)
CopyTurn(y) ==
  /\ pc[y] = "copy" /\ Race!Running(y) /\ y \in Race!Compressing /\ y \in DOMAIN files
  /\ opened[y] \in DOMAIN files /\ opened[y] # y /\ archive # y /\ Race!Cells(y) = files[opened[y]]
  /\ position[y] \in DOMAIN files[opened[y]] /\ position[y] \in Nat \ {0}
  /\ Len(files[opened[y]]) \in Nat /\ position[y] <= Len(files[opened[y]]) /\ Race!Here(y) = files[opened[y]][position[y]]
  /\ position' = [position EXCEPT ![y] = Race!Skip(y)] /\ Race!Skip(y) \in Nat /\ Race!Skip(y) > position[y]
  /\ position' \in [Extractors -> Nat \ {0}] /\ position'[y] = Race!Skip(y)
  /\ \A x \in Extractors : x # y => position'[x] = position[x]
  /\ Race!IsHeader(Race!Here(y)) => Race!Skip(y) = position[y] + 2
  /\ mixed = FALSE => Race!IsHeader(Race!Here(y))
  /\ UNCHANGED <<archive, opened, wanted, extracted, mixed, raced, crossed>>

LEMMA CompressStep ==
  ASSUME Race!IInv, NEW y \in Extractors, Race!CompressRecord(y)
  PROVE  CopyTurn(y)
<1>1. /\ pc[y] = "copy" /\ ~Race!AtEnd(y) /\ position' = [position EXCEPT ![y] = Race!Skip(y)]
      /\ UNCHANGED <<archive, opened, wanted, extracted, mixed, raced, crossed>>
  BY DEF Race!CompressRecord, Race!history
<1>2. /\ position \in [Extractors -> Nat \ {0}] /\ opened[y] \in DOMAIN files /\ y \in Race!Processes
      /\ y \in DOMAIN files /\ Race!Cells(y) = files[opened[y]] /\ Race!Here(y) = files[opened[y]][position[y]]
  BY RaceTypes DEF Race!IInv, Race!Typed
<1>3. Race!Running(y) /\ y \in Race!Compressing /\ opened[y] # y /\ archive # y
  BY <1>1, <1>2 DEF Race!IInv, Race!OwnFile, Race!Running, Race!Compressing
<1>4. Len(files[opened[y]]) \in Nat /\ position[y] \in DOMAIN files[opened[y]] /\ position[y] <= Len(files[opened[y]])
  BY <1>1, <1>2, RaceTypes DEF Race!AtEnd, Race!IInv
<1>5. Race!Skip(y) \in Nat /\ Race!Skip(y) > position[y] /\ (Race!IsHeader(Race!Here(y)) => Race!Skip(y) = position[y] + 2)
  BY <1>2 DEF Race!Skip, Race!TextSize
<1>6. mixed = FALSE => Race!IsHeader(Race!Here(y))
  BY <1>2, <1>4 DEF Race!IInv, Race!Alternating
<1>7. /\ position' \in [Extractors -> Nat \ {0}] /\ position'[y] = Race!Skip(y)
      /\ \A x \in Extractors : x # y => position'[x] = position[x]
  BY <1>1, <1>2, <1>5
<1>8. QED
  BY <1>1, <1>2, <1>3, <1>4, <1>5, <1>6, <1>7 DEF CopyTurn

LEMMA SkipKeeps ==
  ASSUME Race!IInv, NEW y \in Extractors, Race!CompressRecord(y),
         Race!Here(y).marked_deleted \/ position[y] >= Len(Race!Cells(y))
  PROVE  Race!IInv'
<1>0. CopyTurn(y)
  BY CompressStep
<1> USE <1>0 DEF Race!IInv, CopyTurn
<1>1. PICK l \in {"copy", "done"} :
        /\ pc' = [pc EXCEPT ![y] = l] /\ files' = files
        /\ l = "copy" => Race!Here(y).marked_deleted
  <2> DEFINE live == ~Race!Here(y).marked_deleted
             complete == position[y] < Len(Race!Cells(y))
  <2>1. /\ files' = IF live /\ complete
                   THEN [files EXCEPT ![y] = @ \o SubSeq(Race!Cells(y), position[y], position[y] + 1)]
                   ELSE files
        /\ pc' = [pc EXCEPT ![y] = IF live /\ ~complete THEN "done" ELSE "copy"]
    BY DEF Race!CompressRecord, Race!Goto
  <2>2. ~live \/ ~complete
    OBVIOUS
  <2> HIDE DEF live, complete
  <2>3. CASE live /\ ~complete
    BY <2>1, <2>3
  <2>4. CASE ~live
    BY <2>1, <2>4 DEF live
  <2>5. QED
    BY <2>2, <2>3, <2>4
<1>2. /\ pc'[y] = l /\ y \in Race!Processes /\ \A p \in Adders : pc'[p] = pc[p] /\ p # y /\ p \in Race!Processes
      /\ \A x \in Extractors : x # y => (Race!Running(x)' <=> Race!Running(x)) /\ pc'[x] = pc[x] /\ x \in Race!Processes
      /\ Race!Adding' = Race!Adding /\ Race!Compressing' \subseteq Race!Compressing /\ (y \in Race!Compressing' => l = "copy")
      /\ \A q \in Race!Processes : pc'[q] \in Race!Labels(q)
      /\ DOMAIN pc' = Race!Processes
  <2>1. /\ l \in {"copy", "rename"} => Race!Compressing' = Race!Compressing \cup {y}
        /\ l \notin {"copy", "rename"} => Race!Compressing' = Race!Compressing \ {y}
    BY <1>1, ExtractorStep
  <2>2. Race!Compressing' \subseteq Race!Compressing /\ (y \in Race!Compressing' => l = "copy")
    BY <2>1
  <2>3. QED
    BY <1>1, <2>2, ExtractorStep
<1>3. \A x \in Extractors : Race!Running(x)' => Race!Running(x)
  BY <1>2
<1>4. \A x \in Extractors : Race!Cells(x)' = Race!Cells(x) /\ (x # y => Race!Here(x)' = Race!Here(x))
  BY <1>1, <1>2 DEF Race!Cells, Race!Here
<1>5. Race!Typed' /\ Race!Flags'
  BY <1>1, <1>2 DEF Race!Typed, Race!Flags
<1>6. Race!OwnFile'
  <2>1. \A x \in Extractors : pc'[x] # "done" => pc[x] # "done" /\ (x \in Race!Compressing => x \in Race!Compressing')
    <3>1. \A x \in Extractors : pc'[x] # "done" /\ pc[x] \in {"copy", "rename"} => pc'[x] \in {"copy", "rename"}
      BY <1>2
    <3>2. QED
      BY <1>2, <3>1 DEF Race!Compressing
  <2>2. QED
    BY <1>1, <2>1 DEF Race!OwnFile
<1>7. Race!OneHeader'
  <2>1. ASSUME NEW x \in Extractors, pc'[x] = "copy", NEW r \in Race!Records, NEW k \in DOMAIN files[x],
               Race!IsOf(files[x][k], r)
        PROVE  \E m \in DOMAIN Race!Cells(x)' : m < position'[x] /\ Race!IsOf(Race!Cells(x)'[m], r)
    <3>1. pc[x] = "copy" /\ position[x] \in Nat /\ position'[x] \in Nat /\ position[x] <= position'[x]
      BY <2>1, <1>2 DEF Race!Typed
    <3>2. PICK m \in DOMAIN Race!Cells(x) : m < position[x] /\ Race!IsOf(Race!Cells(x)[m], r)
      BY <2>1, <3>1 DEF Race!OneHeader
    <3>3. m \in Nat
      <4>1. opened[x] \in DOMAIN files
        BY <1>2, RaceTypes DEF Race!Typed
      <4>2. QED
        BY <3>2, <4>1, RaceTypes
    <3>4. QED
      BY <3>1, <3>2, <3>3, <1>4
  <2>2. QED
    BY <1>1, <1>2, <2>1 DEF Race!OneHeader
<1>8. Race!Found'
  BY <1>2, <1>4 DEF Race!Found
<1>9. Race!Extracted'
  <2>1. \A x \in Extractors : extracted'[x] = TRUE /\ wanted'[x] \in Adders => pc'[wanted'[x]] \in {"data", "done"}
    BY <1>2 DEF Race!Extracted
  <2>2. QED
    BY <1>1, <1>2, <1>3, <2>1 DEF Race!Extracted
<1>10. Race!Alternating'
  <2>1. mixed = FALSE => \A x \in Extractors : Race!Odd(position'[x])
    <3>1. mixed = FALSE => Race!Skip(y) = position[y] + 2 /\ Race!Odd(position[y]) /\ position[y] \in Nat
      BY DEF Race!Alternating
    <3>2. mixed = FALSE => Race!Odd(position'[y])
      BY <3>1, Parity
    <3>3. QED
      BY <3>2 DEF Race!Alternating
  <2>2. \A p \in Adders : pc'[p] = pc[p]
    BY <1>2
  <2>3. Race!Adding' = Race!Adding /\ Race!Adding \subseteq Adders
    BY <1>2 DEF Race!Adding
  <2>4. QED
    BY <1>1, <2>1, <2>2, <2>3 DEF Race!Alternating
<1>11. Race!NothingLost'
  <2>1. \A r : Race!Safe(r)' => Race!Safe(r)
    BY <1>2 DEF Race!Safe
  <2> SUFFICES ASSUME mixed = FALSE, NEW r \in Race!Records, Race!Safe(r)
               PROVE  /\ Race!Has(files[archive], 1, r)'
                      /\ \A x \in Race!Compressing' : \/ Race!Has(files[x], 1, r)'
                                                      \/ (pc[x] = "copy" /\ Race!Has(Race!Cells(x), position[x], r))'
    BY <2>1 DEF Race!NothingLost
  <2>2. Race!Has(files[archive], 1, r)'
    BY <1>1 DEF Race!NothingLost, Race!Has
  <2>3. ASSUME NEW x \in Race!Compressing, x # y
        PROVE  Race!Has(files[x], 1, r)' \/ (pc[x] = "copy" /\ Race!Has(Race!Cells(x), position[x], r))'
    <3>1. x \in Extractors
      BY DEF Race!Compressing
    <3>2. Race!Has(files[x], 1, r) \/ (pc[x] = "copy" /\ Race!Has(Race!Cells(x), position[x], r))
      BY DEF Race!NothingLost
    <3>3. QED
      BY <2>3, <3>1, <3>2, <1>1, <1>2, <1>4 DEF Race!Has
  <2>4. ASSUME l = "copy"
        PROVE  Race!Has(files[y], 1, r)' \/ (pc[y] = "copy" /\ Race!Has(Race!Cells(y), position[y], r))'
    <3>1. CASE Race!Has(files[y], 1, r)
      BY <3>1, <1>1 DEF Race!Has
    <3>2. CASE Race!Has(Race!Cells(y), position[y], r)
      <4>1. PICK k \in position[y]..Len(Race!Cells(y)) - 1 : Race!Odd(k) /\ Race!Cells(y)[k] = Race!Header(r)
        BY <3>2 DEF Race!Has
      <4>2. k # position[y]
        <5>1. Race!Here(y) # Race!Header(r)
          BY <2>4, <1>1, CellFacts, RaceTypes
        <5>2. QED
          BY <4>1, <5>1
      <4>3. k # position[y] + 1
        BY <4>1, Parity DEF Race!Alternating
      <4>4. k \in position'[y]..Len(Race!Cells(y)) - 1
        BY <4>1, <4>2, <4>3
      <4>5. Race!Has(Race!Cells(y), position[y], r)'
        BY <4>1, <4>4, <1>4 DEF Race!Has
      <4>6. QED
        BY <2>4, <4>5, <1>2
    <3>3. QED
      BY <3>1, <3>2 DEF Race!NothingLost
  <2>5. QED
    BY <2>2, <2>3, <2>4, <1>2
<1>12. QED
  BY <1>5, <1>6, <1>7, <1>8, <1>9, <1>10, <1>11

LEMMA SubSeqOfTwo ==
  ASSUME NEW S, NEW s \in Seq(S), NEW P \in Nat \ {0}, P + 1 \in DOMAIN s
  PROVE  /\ SubSeq(s, P, P + 1) \in Seq(S) /\ Len(SubSeq(s, P, P + 1)) = 2
         /\ SubSeq(s, P, P + 1)[1] = s[P] /\ SubSeq(s, P, P + 1)[2] = s[P + 1]
<1>1. SubSeq(s, P, P + 1) \in Seq(S) /\ Len(SubSeq(s, P, P + 1)) = 2
  OBVIOUS
<1>2. SubSeq(s, P, P + 1)[1] = s[P]
  OBVIOUS
<1>3. SubSeq(s, P, P + 1)[2] = s[P + 1]
  OBVIOUS
<1>4. QED
  BY <1>1, <1>2, <1>3

LEMMA ConcatOfTwo ==
  ASSUME NEW S, NEW s \in Seq(S), NEW u \in Seq(S), Len(u) = 2
  PROVE  /\ Len(s \o u) = Len(s) + 2 /\ DOMAIN (s \o u) = 1..(Len(s) + 2) /\ s \o u \in Seq(S)
         /\ (s \o u)[Len(s) + 1] = u[1] /\ (s \o u)[Len(s) + 2] = u[2]
         /\ \A k \in 1..Len(s) : (s \o u)[k] = s[k]
<1>0. Len(s) \in Nat /\ s \o u \in Seq(S)
  OBVIOUS
<1>1. Len(s \o u) = Len(s) + 2
  <2>1. Len(s \o u) = Len(s) + Len(u)
    BY ConcatProperties, Zenon
  <2>2. QED
    BY <2>1
<1>2. DOMAIN (s \o u) = 1..(Len(s) + 2)
  BY <1>0, <1>1
<1>3. (s \o u)[Len(s) + 1] = u[1]
  BY <1>0, <1>1
<1>4. (s \o u)[Len(s) + 2] = u[2]
  BY <1>0, <1>1
<1>5. \A k \in 1..Len(s) : (s \o u)[k] = s[k]
  BY <1>0, <1>1
<1>6. QED
  BY <1>0, <1>1, <1>2, <1>3, <1>4, <1>5

LEMMA CopyKeeps ==
  ASSUME Race!IInv, NEW y \in Extractors, Race!CompressRecord(y),
         ~Race!Here(y).marked_deleted, position[y] < Len(Race!Cells(y))
  PROVE  Race!IInv'
<1>0. CopyTurn(y)
  BY CompressStep
<1> USE <1>0 DEF Race!IInv, CopyTurn
<1> DEFINE F == opened[y]
           P == position[y]
           n == Len(files[y])
           z == files[F][P]
           w == files[F][P + 1]
<1>1. /\ pc' = [pc EXCEPT ![y] = "copy"]
      /\ files' = [files EXCEPT ![y] = @ \o SubSeq(files[F], P, P + 1)]
  BY DEF Race!CompressRecord, Race!Goto
<1>2. /\ pc'[y] = "copy" /\ y \in Race!Processes /\ \A p \in Adders : pc'[p] = pc[p] /\ p # y /\ p \in Race!Processes
      /\ \A x \in Extractors : x # y => (Race!Running(x)' <=> Race!Running(x)) /\ pc'[x] = pc[x] /\ x \in Race!Processes
      /\ Race!Adding' = Race!Adding /\ Race!Compressing' = Race!Compressing
      /\ \A q \in Race!Processes : pc'[q] \in Race!Labels(q)
      /\ DOMAIN pc' = Race!Processes
  <2>1. Race!Compressing' = Race!Compressing
    <3>1. Race!Compressing' = Race!Compressing \cup {y}
      BY <1>1, ExtractorStep
    <3>2. QED
      BY <3>1
  <2>2. QED
    BY <1>1, <2>1, ExtractorStep
<1>3. /\ n \in Nat /\ files[y] \in Seq(Race!AnyCell) /\ files[F] \in Seq(Race!AnyCell) /\ P + 1 \in DOMAIN files[F]
      /\ z \in Race!AnyCell /\ w \in Race!AnyCell /\ DOMAIN files[y] = 1..n
  BY RaceTypes
<1>4. /\ DOMAIN files' = DOMAIN files
      /\ files'[y] = files[y] \o SubSeq(files[F], P, P + 1)
      /\ \A q \in DOMAIN files : q # y => files'[q] = files[q]
  BY <1>1, RaceTypes DEF Race!Typed
<1>5. \E r \in Race!Records : z = Race!Header(r)
  BY <1>3, CellFacts
<1>6. Race!IsHeader(z) /\ Race!Skip(y) = P + 2
  BY <1>5, CellFacts
<1>7. Race!Typed /\ Race!Flags /\ Race!OwnFile /\ Race!OneHeader /\ Race!Found /\ Race!Extracted /\ Race!Alternating /\ Race!NothingLost
  OBVIOUS
<1>8. /\ UNCHANGED <<archive, opened, wanted, extracted, mixed, raced, crossed>>
      /\ archive # y /\ pc[y] = "copy" /\ y \in Race!Compressing /\ y \in DOMAIN files /\ y \in Extractors
      /\ position' \in [Extractors -> Nat \ {0}] /\ \A x \in Extractors : x # y => position'[x] = position[x]
  OBVIOUS
<1>9. /\ P \in Nat \ {0} /\ F \in DOMAIN files /\ F # y /\ P \in DOMAIN files[F] /\ P < Len(files[F])
      /\ Len(files[F]) \in Nat /\ files'[F] = files[F] /\ z = files[F][P] /\ w = files[F][P + 1]
      /\ F = opened[y] /\ P = position[y] /\ position'[y] = P + 2 /\ opened'[y] = F /\ n = Len(files[y])
  BY <1>4, <1>6
<1>10. /\ \A q \in DOMAIN files : /\ files[q] \in Seq(Race!AnyCell) /\ Len(files[q]) \in Nat
                                  /\ DOMAIN files[q] = 1..Len(files[q])
       /\ \A x \in Extractors : /\ x \in DOMAIN files /\ x \in Race!Processes /\ opened[x] \in DOMAIN files
                                /\ Race!Cells(x) = files[opened[x]] /\ Race!Here(x) = files[opened[x]][position[x]]
       /\ \A p \in Race!Processes : opened[p] \in DOMAIN files
       /\ archive \in DOMAIN files /\ DOMAIN files = Extractors \cup {Race!FirstFile}
  BY RaceTypes DEF Race!Typed
<1> HIDE DEF F, P, n, z, w, Race!IInv, CopyTurn
<1>11. /\ Len(files'[y]) = n + 2 /\ DOMAIN files'[y] = 1..(n + 2) /\ files'[y] \in Seq(Race!AnyCell)
       /\ files'[y][n + 1] = z /\ files'[y][n + 2] = w /\ \A k \in 1..n : files'[y][k] = files[y][k]
  <2> DEFINE s == SubSeq(files[F], P, P + 1)
  <2>1. s \in Seq(Race!AnyCell) /\ Len(s) = 2 /\ s[1] = z /\ s[2] = w
    <3>1. P \in Nat \ {0} /\ z = files[F][P] /\ w = files[F][P + 1]
      BY <1>9
    <3>2. QED
      BY <3>1, <1>3, SubSeqOfTwo
  <2>2. files'[y] = files[y] \o s
    BY <1>4
  <2> HIDE DEF s
  <2>3. Len(files[y]) = n
    BY <1>9
  <2>4. QED
    <3>1. /\ Len(files[y] \o s) = n + 2 /\ DOMAIN (files[y] \o s) = 1..(n + 2) /\ files[y] \o s \in Seq(Race!AnyCell)
          /\ (files[y] \o s)[n + 1] = s[1] /\ (files[y] \o s)[n + 2] = s[2]
          /\ \A k \in 1..n : (files[y] \o s)[k] = files[y][k]
      <4>1. files[y] \in Seq(Race!AnyCell)
        BY <1>3
      <4>2. QED
        <5>1. s \in Seq(Race!AnyCell) /\ Len(s) = 2
          BY <2>1
        <5>2. /\ Len(files[y] \o s) = Len(files[y]) + 2 /\ DOMAIN (files[y] \o s) = 1..(Len(files[y]) + 2)
              /\ files[y] \o s \in Seq(Race!AnyCell)
              /\ (files[y] \o s)[Len(files[y]) + 1] = s[1] /\ (files[y] \o s)[Len(files[y]) + 2] = s[2]
              /\ \A k \in 1..Len(files[y]) : (files[y] \o s)[k] = files[y][k]
          BY <4>1, <5>1, ConcatOfTwo
        <5>3. QED
          BY <5>2, <2>3
    <3>2. QED
      BY <3>1, <2>1, <2>2
<1>12. \A q \in DOMAIN files : \A k \in DOMAIN files'[q] :
        q # y \/ k \in 1..n => k \in DOMAIN files[q] /\ files'[q][k] = files[q][k]
  BY <1>3, <1>4, <1>11
<1>13. \A q \in DOMAIN files : \A r \in Race!Records : \A k, m \in DOMAIN files[q] :
        Race!IsOf(files[q][k], r) /\ Race!IsOf(files[q][m], r) => k = m
  BY <1>7 DEF Race!OneHeader
<1>14. \A k \in DOMAIN files'[y] : k \in 1..n \/ k = n + 1 \/ k = n + 2
  BY <1>3, <1>11
<1>15. \A x \in Extractors : /\ opened[x] # y /\ opened[x] \in DOMAIN files /\ x \in DOMAIN files
                             /\ Race!Cells(x)' = Race!Cells(x) /\ Race!Cells(x) = files[opened[x]]
                             /\ x # y => Race!Here(x)' = Race!Here(x)
  BY <1>2, <1>4, RaceTypes, <1>7, <1>8, <1>10 DEF Race!OwnFile, Race!Cells, Race!Here, Race!Typed
<1>16. Race!Running(y)' /\ \A x \in Extractors : Race!Running(x)' <=> Race!Running(x)
  BY <1>2, <1>7, <1>8, <1>10 DEF Race!Running
<1>17. Race!Typed' /\ Race!Flags'
  <2>1. files' \in [Extractors \cup {Race!FirstFile} -> Seq(Race!AnyCell)]
    BY <1>1, <1>4, <1>11, RaceTypes, <1>7, <1>8, <1>10 DEF Race!Typed
  <2>2. QED
    BY <1>2, <1>4, <2>1, <1>7, <1>8, <1>10 DEF Race!Typed, Race!Flags
<1>18. Race!OwnFile'
  BY <1>2, <1>4, <1>7, <1>8, <1>10 DEF Race!OwnFile
<1>19. Race!OneHeader'
  <2>1. ASSUME NEW r \in Race!Records, NEW k \in 1..n, Race!IsOf(files[y][k], r)
        PROVE  ~Race!IsOf(z, r) /\ ~Race!IsOf(w, r)
    <3>1. PICK m \in DOMAIN files[F] : m < P /\ Race!IsOf(files[F][m], r)
      BY <2>1, <1>3, <1>15, <1>7, <1>8, <1>10 DEF Race!OneHeader, F, P
    <3>2. QED
      <4>1. \A k1, k2 \in DOMAIN files[F] : Race!IsOf(files[F][k1], r) /\ Race!IsOf(files[F][k2], r) => k1 = k2
        BY <1>13, <1>9
      <4>2. m # P /\ m # P + 1 /\ P \in DOMAIN files[F] /\ P + 1 \in DOMAIN files[F]
        <5>1. DOMAIN files[F] = 1..Len(files[F])
          BY <1>9, <1>10
        <5>2. m \in Nat
          BY <5>1
        <5>3. m # P /\ m # P + 1
          BY <3>1, <5>2, <1>9
        <5>4. QED
          BY <5>3, <1>3, <1>9
      <4>3. QED
        BY <3>1, <4>1, <4>2, <1>9, Zenon
  <2>2. ASSUME NEW r \in Race!Records, Race!IsOf(z, r) PROVE ~Race!IsOf(w, r)
    BY <2>2, <1>3, <1>9, <1>13
  <2>3. ASSUME NEW q \in DOMAIN files, NEW r \in Race!Records, NEW k \in DOMAIN files'[q], NEW m \in DOMAIN files'[q],
               Race!IsOf(files'[q][k], r), Race!IsOf(files'[q][m], r), k < m
        PROVE  FALSE
    <3>1. CASE q # y
      <4>1. k = m
        BY <2>3, <3>1, <1>12, <1>13
      <4>2. k \in Nat
        BY <3>1, <1>4, <1>10
      <4>3. QED
        BY <2>3, <4>1, <4>2
    <3>2. CASE q = y /\ m \in 1..n
      <4>1. k \in 1..n
        BY <2>3, <3>2, <1>3, <1>11, <1>14
      <4>2. k = m
        BY <2>3, <3>2, <4>1, <1>3, <1>11, <1>7, <1>8, <1>10 DEF Race!OneHeader
      <4>3. QED
        BY <2>3, <4>1, <4>2
    <3>3. CASE q = y /\ k \in 1..n /\ m \in {n + 1, n + 2}
      BY <2>1, <2>3, <3>3, <1>11
    <3>4. CASE q = y /\ k = n + 1 /\ m = n + 2
      BY <2>2, <2>3, <3>4, <1>11
    <3>5. QED
      <4>1. CASE q = y
        <5>1. /\ k \in 1..n \/ k = n + 1 \/ k = n + 2
              /\ m \in 1..n \/ m = n + 1 \/ m = n + 2
          BY <4>1, <1>14
        <5>2. ~(k = n + 1 /\ m = n + 1) /\ ~(k = n + 2 /\ m \in {n + 1, n + 2})
          BY <2>3, <1>3
        <5>3. QED
          BY <4>1, <5>1, <5>2, <3>2, <3>3, <3>4
      <4>2. QED
        BY <4>1, <3>1
  <2>4. ASSUME NEW q \in DOMAIN files, NEW r \in Race!Records, NEW k \in DOMAIN files'[q], NEW m \in DOMAIN files'[q],
               Race!IsOf(files'[q][k], r), Race!IsOf(files'[q][m], r)
        PROVE  k = m
    <3>1. k \in Nat /\ m \in Nat
      <4>1. CASE q = y
        BY <4>1, <1>3, <1>11
      <4>2. CASE q # y
        BY <4>2, <1>4, <1>10
      <4>3. QED
        BY <4>1, <4>2
    <3>2. QED
      BY <2>3, <2>4, <3>1
  <2>5. ASSUME NEW q \in Adders, pc'[q] \in {"start", "header"}, NEW s \in DOMAIN files, NEW k \in DOMAIN files'[s]
        PROVE  ~Race!IsOf(files'[s][k], q)
    <3>1. pc[q] \in {"start", "header"}
      BY <2>5, <1>2
    <3>2. ~Race!IsOf(z, q) /\ ~Race!IsOf(w, q)
      BY <3>1, <1>3, <1>9, <1>7, <1>8, <1>10 DEF Race!OneHeader
    <3>3. CASE s # y \/ k \in 1..n
      <4>1. k \in DOMAIN files[s] /\ files'[s][k] = files[s][k]
        BY <3>3, <1>12
      <4>2. QED
        BY <3>1, <4>1, <1>7 DEF Race!OneHeader
    <3>4. CASE s = y /\ k \in {n + 1, n + 2}
      BY <3>2, <3>4, <1>11
    <3>5. QED
      BY <3>3, <3>4, <1>3, <1>11, <1>14
  <2>6. ASSUME NEW x \in Extractors, pc'[x] = "copy", NEW r \in Race!Records, NEW k \in DOMAIN files'[x],
               Race!IsOf(files'[x][k], r)
        PROVE  \E m \in DOMAIN Race!Cells(x) : m < position'[x] /\ Race!IsOf(Race!Cells(x)[m], r)
    <3>0. x = y => Race!Cells(x) = files[F] /\ position'[x] = P + 2
      BY <1>9 DEF Race!Cells
    <3>1. CASE x # y
      BY <2>6, <3>1, <1>2, <1>4, <1>15, <1>7, <1>8, <1>10 DEF Race!OneHeader
    <3>2. CASE x = y /\ k \in 1..n
      <4>1. PICK m \in DOMAIN files[F] : m < P /\ Race!IsOf(files[F][m], r)
        BY <2>6, <3>2, <1>3, <1>11, <1>15, <1>7, <1>8, <1>10 DEF Race!OneHeader, F, P
      <4>2. m < P + 2
        <5>1. m \in Nat
          BY <4>1, <1>9, <1>10
        <5>2. QED
          BY <4>1, <5>1, <1>9
      <4>3. QED
        BY <3>2, <4>1, <4>2, <3>0
    <3>3. CASE x = y /\ k = n + 1
      <4>1. P \in DOMAIN files[F] /\ P < P + 2 /\ Race!IsOf(files[F][P], r)
        BY <2>6, <3>3, <1>11, <1>9
      <4>2. QED
        BY <3>3, <4>1, <3>0
    <3>4. CASE x = y /\ k = n + 2
      <4>1. P + 1 \in DOMAIN files[F] /\ P + 1 < P + 2 /\ Race!IsOf(files[F][P + 1], r)
        BY <2>6, <3>4, <1>3, <1>11, <1>9
      <4>2. QED
        BY <3>4, <4>1, <3>0
    <3>5. QED
      BY <3>1, <3>2, <3>3, <3>4, <1>3, <1>11, <1>14
  <2>7. QED
    <3>1. DOMAIN files' = DOMAIN files /\ \A x \in Extractors : Race!Cells(x)' = Race!Cells(x)
      <4>1. opened' = opened /\ \A x \in Extractors : files'[opened[x]] = files[opened[x]]
        BY <1>4, <1>8, <1>15
      <4>2. QED
        BY <4>1, <1>4 DEF Race!Cells
    <3>2. QED
      BY <3>1, <2>4, <2>5, <2>6 DEF Race!OneHeader
<1>20. Race!Found'
  <2> SUFFICES ASSUME NEW x \in Extractors, pc'[x] = "mark"
               PROVE  position'[x] < Len(Race!Cells(x)') /\ Race!IsOf(Race!Here(x)', wanted'[x])
    BY DEF Race!Found
  <2>1. x # y /\ pc[x] = "mark"
    BY <1>2
  <2>2. /\ position'[x] = position[x] /\ wanted' = wanted
        /\ Race!Cells(x)' = Race!Cells(x) /\ Race!Here(x)' = Race!Here(x)
    <3>1. opened' = opened /\ files'[opened[x]] = files[opened[x]]
      BY <1>4, <1>8, <1>15
    <3>2. position'[x] = position[x] /\ wanted' = wanted
      BY <2>1, <1>8
    <3>3. QED
      BY <3>1, <3>2 DEF Race!Cells, Race!Here
  <2>3. position[x] < Len(Race!Cells(x)) /\ Race!IsOf(Race!Here(x), wanted[x])
    BY <2>1, <1>7 DEF Race!Found
  <2>4. QED
    BY <2>2, <2>3
<1>21. Race!Extracted'
  <2>1. \A x \in Extractors : extracted'[x] = TRUE /\ wanted'[x] \in Adders => pc'[wanted'[x]] \in {"data", "done"}
    BY <1>2, <1>7, <1>8, <1>10 DEF Race!Extracted
  <2>2. crossed' = FALSE =>
          /\ \A x, v \in Extractors : Race!Running(x)' /\ Race!Running(v)' => x = v
          /\ \A x \in Extractors : Race!Running(x)' => opened'[x] = archive'
    BY <1>16, <1>7, <1>8, <1>10 DEF Race!Extracted
  <2>3. ASSUME crossed = FALSE, NEW x \in Extractors, extracted[x] = TRUE,
               NEW q \in Race!Compressing \cup {archive}, NEW k \in DOMAIN files'[q]
        PROVE  files'[q][k] # Race!Header(wanted[x])
    <3>1. q \in DOMAIN files
      BY RaceTypes, <1>7, <1>8, <1>10 DEF Race!Compressing, Race!Typed
    <3>2. CASE q # y \/ k \in 1..n
      <4>1. k \in DOMAIN files[q] /\ files'[q][k] = files[q][k]
        BY <3>1, <3>2, <1>12
      <4>2. QED
        BY <2>3, <4>1, <1>7 DEF Race!Extracted
    <3>3. CASE q = y /\ k \in {n + 1, n + 2}
      <4>1. F = archive
        <5>1. Race!Running(y)
          BY <1>8 DEF Race!Running
        <5>2. QED
          BY <2>3, <5>1, <1>7, <1>8, <1>9 DEF Race!Extracted
      <4>2. z # Race!Header(wanted[x]) /\ w # Race!Header(wanted[x])
        BY <2>3, <4>1, <1>3, <1>9, <1>7, <1>8, <1>10 DEF Race!Extracted
      <4>3. QED
        BY <3>3, <4>2, <1>11
    <3>4. QED
      BY <3>2, <3>3, <1>3, <1>11, <1>14
  <2>4. crossed' = FALSE =>
          \A x \in Extractors : extracted'[x] = TRUE =>
            \A q \in Race!Compressing' \cup {archive'} : \A k \in DOMAIN files'[q] : files'[q][k] # Race!Header(wanted'[x])
    <3>1. Race!Compressing' = Race!Compressing /\ UNCHANGED <<archive, wanted, crossed, extracted>>
      BY <1>2, <1>8
    <3>2. QED
      BY <3>1, <2>3, Zenon
  <2>5. QED
    BY <2>1, <2>2, <2>4, <1>7, <1>8, <1>10 DEF Race!Extracted
<1>22. mixed = FALSE => ~Race!Odd(n) /\ Race!Odd(P) /\ Race!Odd(n + 1) /\ ~Race!Odd(n + 2) /\ ~Race!IsHeader(w)
  <2> SUFFICES ASSUME mixed = FALSE PROVE ~Race!Odd(n) /\ Race!Odd(P) /\ Race!Odd(n + 1) /\ ~Race!Odd(n + 2) /\ ~Race!IsHeader(w)
    OBVIOUS
  <2>1. ~Race!Odd(n)
    <3>1. \A p \in Adders : opened[p] # y
      BY <1>2, <1>7, <1>8, <1>10 DEF Race!OwnFile
    <3>2. QED
      BY <3>1, <1>7, <1>8, <1>10 DEF Race!Alternating, n
  <2>2. Race!Odd(P) /\ ~Race!Odd(P + 1)
    BY <1>9, Parity, <1>7, <1>8, <1>10 DEF Race!Alternating
  <2>3. ~Race!IsHeader(w)
    BY <2>2, <1>3, <1>9, <1>7, <1>8, <1>10 DEF Race!Alternating
  <2>4. QED
    BY <2>1, <2>2, <2>3, <1>3, Parity
<1>23. Race!Alternating'
  <2> SUFFICES ASSUME mixed = FALSE PROVE Race!Alternating'
    BY <1>7, <1>8, <1>10 DEF Race!Alternating
  <2>1. \A p \in Adders : pc'[p] = pc[p] /\ opened[p] # y /\ opened[p] \in DOMAIN files
    BY <1>2, <1>7, <1>8, <1>10 DEF Race!Typed, Race!OwnFile
  <2>2. Race!Adding' = Race!Adding /\ Race!Adding \subseteq Adders
    BY <1>2, <1>7, <1>8, <1>10 DEF Race!Adding
  <2>3. ASSUME NEW q \in DOMAIN files, NEW k \in DOMAIN files'[q]
        PROVE  Race!IsHeader(files'[q][k]) <=> Race!Odd(k)
    <3>1. CASE q # y \/ k \in 1..n
      <4>1. k \in DOMAIN files[q] /\ files'[q][k] = files[q][k]
        BY <3>1, <1>12
      <4>2. QED
        BY <4>1, <1>7 DEF Race!Alternating
    <3>2. CASE q = y /\ k = n + 1
      BY <3>2, <1>6, <1>11, <1>22
    <3>3. CASE q = y /\ k = n + 2
      BY <3>3, <1>11, <1>22
    <3>4. QED
      BY <3>1, <3>2, <3>3, <1>3, <1>11, <1>14
  <2>4. \A q \in DOMAIN files : Race!Odd(Len(files'[q])) => \E s \in Adders : pc'[s] = "data" /\ opened'[s] = q
    <3>1. \A q \in DOMAIN files : Race!Odd(Len(files[q])) => \E s \in Adders : pc[s] = "data" /\ opened[s] = q
      BY <1>7 DEF Race!Alternating
    <3>2. ~Race!Odd(Len(files'[y]))
      BY <1>11, <1>22
    <3>3. QED
      <4> SUFFICES ASSUME NEW q \in DOMAIN files, Race!Odd(Len(files'[q]))
                   PROVE  \E s \in Adders : pc'[s] = "data" /\ opened'[s] = q
        OBVIOUS
      <4>1. q # y
        BY <3>2
      <4>2. Race!Odd(Len(files[q]))
        BY <4>1, <1>4
      <4>3. PICK s \in Adders : pc[s] = "data" /\ opened[s] = q
        BY <4>2, <3>1
      <4>4. pc'[s] = "data" /\ opened'[s] = q
        BY <4>3, <2>1, <1>8
      <4>5. QED
        BY <4>4
  <2>5. \A q \in Adders : pc'[q] = "data" => Race!Odd(Len(files'[opened'[q]]))
    BY <2>1, <1>4, <1>7, <1>8, <1>10 DEF Race!Alternating
  <2>6. \A q \in Race!Adding' \ raced' :
          opened'[q] = archive' /\ (pc'[q] = "data" => files'[archive'][Len(files'[archive'])] = Race!Header(q))
    <3>1. archive \in DOMAIN files /\ files'[archive] = files[archive]
      BY <1>4, <1>7, <1>8, <1>10 DEF Race!Typed
    <3>2. QED
      BY <3>1, <2>1, <2>2, <1>7, <1>8, <1>10 DEF Race!Alternating
  <2>7. \A x \in Extractors : Race!Odd(position'[x])
    <3>1. \A x \in Extractors : Race!Odd(position[x])
      BY <1>7 DEF Race!Alternating
    <3>2. Race!Odd(position'[y])
      <4>1. Race!Odd(P + 2)
        BY <1>9, <1>22, Parity
      <4>2. QED
        BY <4>1, <1>9
    <3>3. QED
      BY <3>1, <3>2, <1>8
  <2>8. \A p, q \in Race!Adding' : p = q
    BY <2>2, <1>7, <1>8, <1>10 DEF Race!Alternating
  <2>9. QED
    BY <2>3, <2>4, <2>5, <2>6, <2>7, <2>8, <1>4, <1>7, <1>8, <1>10 DEF Race!Alternating
<1>24. Race!NothingLost'
  <2>1. \A r : Race!Safe(r)' => Race!Safe(r)
    BY <1>2, <1>7, <1>8, <1>10 DEF Race!Safe
  <2> SUFFICES ASSUME mixed = FALSE, NEW r \in Race!Records, Race!Safe(r)
               PROVE  /\ Race!Has(files[archive], 1, r)'
                      /\ \A x \in Race!Compressing : \/ Race!Has(files[x], 1, r)'
                                                     \/ (pc[x] = "copy" /\ Race!Has(Race!Cells(x), position[x], r))'
    BY <1>2, <2>1, <1>7, <1>8, <1>10 DEF Race!NothingLost
  <2>2. Race!Has(files[archive], 1, r)'
    <3>1. files'[archive] = files[archive]
      BY <1>4, <1>7, <1>8, <1>10 DEF Race!Typed
    <3>2. QED
      BY <3>1, <1>7, <1>8, <1>10 DEF Race!NothingLost, Race!Has
  <2>3. ASSUME NEW x \in Race!Compressing, x # y
        PROVE  Race!Has(files[x], 1, r)' \/ (pc[x] = "copy" /\ Race!Has(Race!Cells(x), position[x], r))'
    <3>1. x \in Extractors /\ files'[x] = files[x]
      BY <2>3, <1>4, <1>15, <1>7, <1>8, <1>10 DEF Race!Compressing
    <3>2. Race!Has(files[x], 1, r) \/ (pc[x] = "copy" /\ Race!Has(Race!Cells(x), position[x], r))
      BY <1>7, <1>8, <1>10 DEF Race!NothingLost
    <3>3. QED
      <4>1. /\ pc'[x] = pc[x] /\ position'[x] = position[x] /\ files'[x] = files[x]
            /\ Race!Cells(x)' = Race!Cells(x)
        <5>1. opened' = opened /\ files'[opened[x]] = files[opened[x]]
          BY <3>1, <1>4, <1>8, <1>15
        <5>2. Race!Cells(x)' = Race!Cells(x)
          BY <5>1 DEF Race!Cells
        <5>3. QED
          BY <5>2, <2>3, <3>1, <1>2, <1>8
      <4>2. /\ Race!Has(files[x], 1, r)' <=> Race!Has(files[x], 1, r)
            /\ Race!Has(Race!Cells(x), position[x], r)' <=> Race!Has(Race!Cells(x), position[x], r)
        BY <4>1 DEF Race!Has
      <4>3. QED
        BY <3>2, <4>1, <4>2
  <2>4. Race!Has(files[y], 1, r)' \/ (pc[y] = "copy" /\ Race!Has(Race!Cells(y), position[y], r))'
    <3>1. CASE Race!Has(files[y], 1, r)
      <4>1. PICK k \in 1..n - 1 : Race!Odd(k) /\ files[y][k] = Race!Header(r)
        BY <3>1, <1>7, <1>8, <1>10 DEF Race!Has, n
      <4>2. k \in 1..n + 2 - 1 /\ files'[y][k] = Race!Header(r)
        <5>1. k \in 1..n /\ k \in 1..n + 2 - 1
          BY <4>1, <1>3
        <5>2. QED
          BY <4>1, <5>1, <1>11
      <4>3. \E m \in 1..Len(files'[y]) - 1 : Race!Odd(m) /\ files'[y][m] = Race!Header(r)
        <5>1. k \in 1..Len(files'[y]) - 1
          BY <4>2, <1>11, <1>3
        <5>2. QED
          BY <4>1, <4>2, <5>1
      <4>4. QED
        BY <4>3 DEF Race!Has
    <3>2. CASE Race!Has(Race!Cells(y), P, r)
      <4>1. PICK k \in P..Len(files[F]) - 1 : Race!Odd(k) /\ files[F][k] = Race!Header(r)
        BY <3>2, <1>9, <1>15, <1>7, <1>8, <1>10 DEF Race!Has
      <4>2. CASE k = P
        <5>1. n + 1 \in 1..n + 2 - 1 /\ files'[y][n + 1] = Race!Header(r)
          BY <4>1, <4>2, <1>3, <1>11, <1>9
        <5>2. QED
          <6>1. \E m \in 1..Len(files'[y]) - 1 : Race!Odd(m) /\ files'[y][m] = Race!Header(r)
            <7>1. n + 1 \in 1..Len(files'[y]) - 1
              BY <5>1, <1>11, <1>3
            <7>2. QED
              BY <5>1, <7>1, <1>22
          <6>2. QED
            BY <6>1 DEF Race!Has
      <4>3. CASE k # P
        <5>1. k # P + 1
          <6>1. Race!Odd(P + 1) <=> ~Race!Odd(P)
            BY <1>9, Parity
          <6>2. QED
            BY <4>1, <6>1, <1>22
        <5>2. k \in P + 2..Len(files[F]) - 1
          <6>1. k \in Nat /\ P \in Nat /\ Len(files[F]) \in Nat
            BY <4>1, <1>9
          <6>2. QED
            BY <4>1, <4>3, <5>1, <6>1
        <5>3. Race!Has(Race!Cells(y), position[y], r)'
          <6>1. Race!Cells(y)' = files[F] /\ position'[y] = P + 2
            BY <1>8, <1>9, <1>15 DEF Race!Cells
          <6>2. \E m \in P + 2..Len(files[F]) - 1 : Race!Odd(m) /\ files[F][m] = Race!Header(r)
            BY <4>1, <5>2
          <6>3. QED
            BY <6>1, <6>2 DEF Race!Has
        <5>4. QED
          BY <5>3, <1>2
      <4>4. QED
        BY <4>2, <4>3
    <3>3. QED
      BY <3>1, <3>2, <1>9, <1>7, <1>8, <1>10 DEF Race!NothingLost
  <2>5. QED
    BY <2>2, <2>3, <2>4
<1>25. QED
  BY <1>17, <1>18, <1>19, <1>20, <1>21, <1>23, <1>24 DEF Race!IInv

LEMMA RaceInit == ASSUME Race!Init PROVE Race!IInv
<1> USE DEF Race!Init
<1>1. /\ Race!Old \in Race!Records /\ Race!FirstFile \notin Extractors /\ Race!Old \notin Adders /\ Adders \cap Extractors = {}
      /\ DOMAIN files = Extractors \cup {Race!FirstFile}
      /\ files[Race!FirstFile] = <<Race!Header(Race!Old), Race!Data(Race!Old)>> /\ \A x \in Extractors : files[x] = <<>>
  BY DisjointRuns DEF Race!Records
<1>2. /\ Len(files[Race!FirstFile]) = 2 /\ DOMAIN files[Race!FirstFile] = 1..2 /\ files[Race!FirstFile] \in Seq(Race!AnyCell)
      /\ files[Race!FirstFile][1] = Race!Header(Race!Old) /\ files[Race!FirstFile][2] = Race!Data(Race!Old)
  BY <1>1, CellFacts
<1>3. \A x \in Extractors : files[x] \in Seq(Race!AnyCell) /\ DOMAIN files[x] = {} /\ Len(files[x]) = 0
  BY <1>1
<1>4. Race!Compressing = {} /\ Race!Adding = {} /\ \A x \in Extractors : ~Race!Running(x) /\ x \in Race!Processes
  BY DEF Race!Compressing, Race!Adding, Race!Running, Race!Processes
<1>5. Race!Typed
  <2>1. files \in [Extractors \cup {Race!FirstFile} -> Seq(Race!AnyCell)]
    BY <1>1, <1>2, <1>3
  <2>2. QED
    BY <1>1, <2>1 DEF Race!Typed, Race!Labels, Race!Processes
<1>6. Race!Flags
  BY DEF Race!Flags
<1>7. Race!OwnFile
  BY <1>1, <1>4 DEF Race!OwnFile
<1>8. Race!OneHeader
  <2>1. \A q \in DOMAIN files : \A k \in DOMAIN files[q] : \A r : Race!IsOf(files[q][k], r) => q = Race!FirstFile /\ k = 1 /\ r = Race!Old
    <3>1. \A r : ~Race!IsOf(Race!Data(Race!Old), r) /\ (Race!IsOf(Race!Header(Race!Old), r) => r = Race!Old)
      BY CellFacts
    <3>2. QED
      BY <3>1, <1>1, <1>2, <1>3
  <2> HIDE DEF Race!Init
  <2>2. \A q \in DOMAIN files : \A r \in Race!Records : \A k, m \in DOMAIN files[q] :
          Race!IsOf(files[q][k], r) /\ Race!IsOf(files[q][m], r) => k = m
    BY <2>1, Zenon
  <2>3. \A p \in Adders : \A q \in DOMAIN files : \A k \in DOMAIN files[q] : ~Race!IsOf(files[q][k], p)
    BY <2>1, <1>1, Zenon
  <2>4. \A x \in Extractors : pc[x] # "copy"
    BY <1>4 DEF Race!Init
  <2>5. QED
    BY <2>2, <2>3, <2>4 DEF Race!OneHeader
<1>9. Race!Found /\ Race!Extracted
  BY <1>4 DEF Race!Found, Race!Extracted, Race!Processes
<1>10. Race!Odd(1) /\ ~Race!Odd(2) /\ ~Race!Odd(0)
  BY DEF Race!Odd
<1>11. Race!Alternating
  <2>1. \A q \in DOMAIN files : \A k \in DOMAIN files[q] : Race!IsHeader(files[q][k]) <=> Race!Odd(k)
    BY <1>1, <1>2, <1>3, <1>10, CellFacts
  <2>2. QED
    BY <1>1, <1>2, <1>3, <1>4, <1>10, <2>1 DEF Race!Alternating, Race!Processes
<1>12. Race!NothingLost
  <2>1. Race!Has(files[archive], 1, Race!Old)
    BY <1>2, <1>10 DEF Race!Has
  <2>2. \A r \in Race!Records : Race!Safe(r) => r = Race!Old
    BY DEF Race!Safe, Race!Records, Race!Processes
  <2>3. QED
    BY <2>1, <2>2, <1>4 DEF Race!NothingLost
<1>13. QED
  BY <1>5, <1>6, <1>7, <1>8, <1>9, <1>11, <1>12 DEF Race!IInv

LEMMA RaceNextKeeps == ASSUME Race!IInv, [Race!Next]_(Race!vars) PROVE Race!IInv'
<1>1. ASSUME NEW p \in Adders, Race!AddOpen(p) \/ Race!AddWrite(p) PROVE Race!IInv'
  BY <1>1, AddOpenKeeps, AddWriteKeeps
<1>2. ASSUME NEW x \in Extractors, Race!ExtractOpen(x) \/ Race!Scan(x) \/ Race!Mark(x) PROVE Race!IInv'
  BY <1>2, ExtractOpenKeeps, ScanKeeps, MarkKeeps
<1>3. ASSUME NEW x \in Extractors, Race!CompressRecord(x) PROVE Race!IInv'
  <2>1. CASE ~Race!Here(x).marked_deleted /\ position[x] < Len(Race!Cells(x))
    BY <1>3, <2>1, CopyKeeps
  <2>2. CASE Race!Here(x).marked_deleted \/ ~(position[x] < Len(Race!Cells(x)))
    <3>1. Len(Race!Cells(x)) \in Nat /\ position[x] \in Nat
      BY RaceTypes DEF Race!IInv, Race!Typed
    <3>2. Race!Here(x).marked_deleted \/ position[x] >= Len(Race!Cells(x))
      BY <2>2, <3>1
    <3>3. QED
      BY <1>3, <3>2, SkipKeeps
  <2>3. QED
    BY <2>1, <2>2
<1>4. ASSUME NEW x \in Extractors, Race!CompressOpen(x) \/ Race!CompressEnd(x) \/ Race!Rename(x) PROVE Race!IInv'
  BY <1>4, CompressOpenKeeps, CompressEndKeeps, RenameKeeps
<1>5. CASE UNCHANGED Race!vars
  BY <1>5 DEF Race!vars, Race!history, Race!IInv, Race!Typed, Race!Flags, Race!OwnFile, Race!OneHeader,
     Race!Found, Race!Extracted, Race!Alternating,
     Race!NothingLost, Race!Compressing, Race!Adding, Race!Running, Race!Cells, Race!Here, Race!Safe, Race!Has
<1>6. QED
  <2>1. CASE Race!Next
    <3>1. \/ \E p \in Adders : Race!AddOpen(p) \/ Race!AddWrite(p)
          \/ \E x \in Extractors : Race!ExtractOpen(x) \/ Race!Scan(x) \/ Race!Mark(x)
          \/ \E x \in Extractors : Race!CompressRecord(x)
          \/ \E x \in Extractors : Race!CompressOpen(x) \/ Race!CompressEnd(x) \/ Race!Rename(x)
          \/ UNCHANGED Race!vars
      BY <2>1 DEF Race!Next
    <3>2. QED
      BY <3>1, <1>1, <1>2, <1>3, <1>4, <1>5
  <2>2. QED
    BY <2>1, <1>5

LEMMA RaceLoses == ASSUME Race!IInv PROVE Race!LostOnlyInARace
<1> USE DEF Race!IInv
<1>1. archive \in DOMAIN files
  BY DEF Race!Typed
<1>2. \A r \in Race!Live : \E k \in DOMAIN files[archive] : files[archive][k] = Race!Header(r)
  <2> SUFFICES ASSUME NEW r \in Race!Live PROVE \E k \in DOMAIN files[archive] : files[archive][k] = Race!Header(r)
    OBVIOUS
  <2>1. PICK k \in DOMAIN files[archive] :
          /\ r = files[archive][k].record /\ Race!Odd(k) /\ ~files[archive][k].marked_deleted
    BY DEF Race!Live, Race!Odd
  <2>2. PICK s \in Race!Records : files[archive][k] = Race!Header(s)
    BY <2>1, <1>1, RaceTypes, CellFacts
  <2>3. r = s
    BY <2>1, <2>2 DEF Race!Header
  <2>4. QED
    BY <2>2, <2>3
<1>3. ASSUME mixed = FALSE, NEW r \in Race!Records, Race!Has(files[archive], 1, r) PROVE r \in Race!Live
  <2>1. PICK k \in 1..Len(files[archive]) - 1 : Race!Odd(k) /\ files[archive][k] = Race!Header(r)
    BY <1>3 DEF Race!Has
  <2>2. k \in DOMAIN files[archive] /\ DOMAIN files[archive] = 1..Len(files[archive])
    BY <2>1, <1>1, RaceTypes
  <2>3. \A m \in 1..k : Race!Odd(m) => Race!IsHeader(files[archive][m])
    BY <1>1, <1>3, <2>1, <2>2, RaceTypes DEF Race!Alternating
  <2>4. ~files[archive][k].marked_deleted /\ files[archive][k].record = r
    BY <2>1 DEF Race!Header
  <2>5. QED
    BY <2>1, <2>2, <2>3, <2>4 DEF Race!Live, Race!Odd
<1>4. ASSUME mixed = FALSE, NEW r \in Race!Records \ raced
      PROVE  \/ r \in Race!Live
             \/ r \in Adders /\ pc[r] # "done"
             \/ \E x \in Extractors : wanted[x] = r /\ extracted[x]
  <2>1. CASE Race!Safe(r)
    BY <1>3, <1>4, <2>1 DEF Race!NothingLost
  <2>2. CASE ~Race!Safe(r)
    BY <1>4, <2>2 DEF Race!Safe, Race!Flags
  <2>3. QED
    BY <2>1, <2>2
<1>5. ASSUME crossed = FALSE, NEW x \in Extractors, extracted[x] PROVE wanted[x] \notin Race!Live
  <2>1. extracted[x] = TRUE
    BY <1>5 DEF Race!Flags
  <2>2. \A k \in DOMAIN files[archive] : files[archive][k] # Race!Header(wanted[x])
    BY <1>5, <2>1 DEF Race!Extracted
  <2>3. QED
    BY <2>2, <1>2
<1>6. QED
  BY <1>4, <1>5 DEF Race!LostOnlyInARace

LEMMA RaceInvariance == Spec => [](program = "archiver" => Race!IInv)
<1>1. Init => (program = "archiver" => Race!IInv)
  BY RaceInit DEF Init
<1>2. (program = "archiver" => Race!IInv) /\ [Next]_vars => (program = "archiver" => Race!IInv)'
  BY RaceNextKeeps, OneProgram
<1>3. QED
  BY <1>1, <1>2, PTL DEF Spec

(* However many runs add and extract at once: records are lost only if two *)
(* adds, or an add and a compression, have overlapped, and an extracted    *)
(* one comes back only if two extractions have (main.c:97, 152, 201-208,   *)
(* 276-284).                                                               *)
THEOREM RecordsLostOnlyInRaces == Spec => []LostOnlyInARace
<1>1. QED
  BY RaceLoses, RaceInvariance, PTL DEF LostOnlyInARace
HIDE DEF archive, files, opened, position, wanted, extracted, mixed, raced, crossed

-----------------------------------------------------------------------------
(* Lab 6.                                                                  *)

(* A process is the parent or the child of one run.                        *)
LEMMA ParentsAndChildren ==
  /\ \A r \in Runs : Fifo!Parent(r) \in Fifo!Processes /\ Fifo!Child(r) \in Fifo!Processes
  /\ \A r, s \in Runs : Fifo!Parent(r) # Fifo!Child(s) /\ (Fifo!Parent(r) = Fifo!Parent(s) => r = s)
  /\ \A p \in Fifo!Processes : p[1] \in Runs /\ p \in {Fifo!Parent(p[1]), Fifo!Child(p[1])}
  /\ \A r \in Runs : Fifo!Parent(r)[2] = "parent" /\ Fifo!Child(r)[2] = "child"
  /\ \A r \in Runs : Fifo!Parent(r)[1] = r /\ Fifo!Child(r)[1] = r
BY DEF Fifo!Parent, Fifo!Child, Fifo!Processes

LEMMA FifoInit == ASSUME Fifo!Init PROVE Fifo!IInv
BY ProgramsAssumption DEF Fifo!Init, Fifo!IInv, Fifo!PcTyped, Fifo!MakersAreInside, Fifo!Processes

(* Each step either removes the FIFO, or leaves the name alone and brings  *)
(* no parent of its maker to an end that should have removed it.           *)
LEMMA FifoNextKeeps ==
  ASSUME Fifo!IInv, [Fifo!Next]_(Fifo!vars)
  PROVE  Fifo!IInv'
<1> USE ParentsAndChildren, ProgramsAssumption DEF Fifo!IInv, Fifo!PcTyped, Fifo!MakersAreInside
<1>1. ASSUME NEW p \in Fifo!Processes, Fifo!Open(p) PROVE Fifo!IInv'
  BY <1>1 DEF Fifo!Open
<1>2. ASSUME NEW p \in Fifo!Processes, Fifo!Fail(p) PROVE Fifo!IInv'
  BY <1>2 DEF Fifo!Fail, Fifo!Goto
<1>3. ASSUME NEW p \in Fifo!Processes, Fifo!NoSuchFile(p) PROVE Fifo!IInv'
  BY <1>2, <1>3 DEF Fifo!NoSuchFile
<1>4. ASSUME NEW p \in Fifo!Processes, Fifo!Close(p) PROVE Fifo!IInv'
  BY <1>4 DEF Fifo!Close, Fifo!Goto
<1>5. ASSUME NEW p \in Fifo!Processes, Fifo!Killed(p) PROVE Fifo!IInv'
  BY <1>5 DEF Fifo!Killed, Fifo!Goto, Fifo!EndOfRun
<1>6. ASSUME NEW r \in Runs, Fifo!Read(r) PROVE Fifo!IInv'
  BY <1>6 DEF Fifo!Read, Fifo!Goto
<1>7. ASSUME NEW r \in Runs, Fifo!Stat(r) PROVE Fifo!IInv'
  BY <1>7 DEF Fifo!Stat, Fifo!Goto, Fifo!EndOfRun
<1>8. ASSUME NEW r \in Runs, Fifo!Mkfifo(r) PROVE Fifo!IInv'
  BY <1>8 DEF Fifo!Mkfifo, Fifo!Goto, Fifo!EndOfRun
<1>9. ASSUME NEW r \in Runs, Fifo!Fork(r) PROVE Fifo!IInv'
  BY <1>9 DEF Fifo!Fork, Fifo!EndOfRun
<1>10. ASSUME NEW r \in Runs, Fifo!Write(r) PROVE Fifo!IInv'
  BY <1>10 DEF Fifo!Write, Fifo!Goto
<1>11. ASSUME NEW r \in Runs, Fifo!Wait(r) PROVE Fifo!IInv'
  BY <1>11 DEF Fifo!Wait, Fifo!Goto
<1>12. ASSUME NEW r \in Runs, Fifo!Unlink(r) PROVE Fifo!IInv'
  BY <1>12 DEF Fifo!Unlink, Fifo!Goto
<1>13. CASE UNCHANGED Fifo!vars
  BY <1>13 DEF Fifo!vars
<1>14. QED
  BY <1>1, <1>2, <1>3, <1>4, <1>5, <1>6, <1>7, <1>8, <1>9, <1>10, <1>11,
     <1>12, <1>13 DEF Fifo!Next, Fifo!Step, Fifo!AllEnded

(* The FIFO of a run outlives its parent only if this was killed or its    *)
(* unlink failed (fifo.c:38-117), for any number of runs on the same name. *)
THEOREM FifosAreRemoved == Spec => []NoFifoLeftBehind
<1>1. Init => Fifo!IInv
  BY FifoInit DEF Init
<1>2. Fifo!IInv /\ [Next]_vars => Fifo!IInv'
  BY FifoNextKeeps, OneProgram
<1>3. Fifo!IInv => NoFifoLeftBehind
  BY ParentsAndChildren
     DEF Fifo!IInv, Fifo!PcTyped, Fifo!MakersAreInside, NoFifoLeftBehind, Fifo!NoFifoLeftBehind, Fifo!Ended
<1>4. QED
  BY <1>1, <1>2, <1>3, PTL DEF Spec

-----------------------------------------------------------------------------
(* Lab 7.  The definitions that theorems are proved of are those of Shm    *)
(* and ShmSenders.                                                         *)
LEMMA ShmIsThere ==
  /\ Shm!Init => ShmP!Init
  /\ [Shm!Next]_(Shm!vars) => [ShmP!Next]_(ShmP!vars)
BY DEF Shm!Next, Shm!SenderStep, Shm!ReceiverStep, Shm!Killed, Shm!AllEnded, Shm!Open,
  Shm!Ftok, Shm!CreateSegment, Shm!InstallHandlers, Shm!Memset, Shm!NextMessage,
  Shm!WritePiece, Shm!Signal, Shm!RemoveSegment, Shm!Unlink, Shm!Exit, Shm!FindSegment,
  Shm!HasAttached, Shm!Attach, Shm!ReadPiece, Shm!PrintAndSleep, Shm!Found, Shm!Forget,
  Shm!Ended, Shm!Goto, Shm!copying, Shm!vars, Shm!Init, Shm!Empty, Shm!Processes,
  Shm!NoKey,
  ShmP!Next, ShmP!SenderStep, ShmP!ReceiverStep, ShmP!Killed, ShmP!AllEnded, ShmP!Open,
  ShmP!Ftok, ShmP!CreateSegment, ShmP!InstallHandlers, ShmP!Memset, ShmP!NextMessage,
  ShmP!WritePiece, ShmP!Signal, ShmP!RemoveSegment, ShmP!Unlink, ShmP!Exit,
  ShmP!FindSegment, ShmP!HasAttached, ShmP!Attach, ShmP!ReadPiece, ShmP!PrintAndSleep,
  ShmP!Found, ShmP!Forget, ShmP!Ended, ShmP!Goto, ShmP!copying, ShmP!vars, ShmP!Init,
  ShmP!Empty, ShmP!Processes, ShmP!NoKey

LEMMA ShmSendersIsThere ==
  /\ ShmSenders!Init => SendersP!Init
  /\ [ShmSenders!Next]_(ShmSenders!vars) => [SendersP!Next]_(SendersP!vars)
BY DEF ShmSenders!Next, ShmSenders!SenderStep, ShmSenders!ReceiverStep, ShmSenders!Killed,
  ShmSenders!AllEnded, ShmSenders!Open, ShmSenders!Ftok, ShmSenders!CreateSegment,
  ShmSenders!InstallHandlers, ShmSenders!Memset, ShmSenders!NextMessage,
  ShmSenders!WritePiece, ShmSenders!Signal, ShmSenders!RemoveSegment, ShmSenders!Unlink,
  ShmSenders!Exit, ShmSenders!FindSegment, ShmSenders!HasAttached, ShmSenders!Attach,
  ShmSenders!ReadPiece, ShmSenders!PrintAndSleep, ShmSenders!Found, ShmSenders!Forget,
  ShmSenders!Ended, ShmSenders!Goto, ShmSenders!copying, ShmSenders!vars,
  ShmSenders!Init, ShmSenders!Empty, ShmSenders!Processes, ShmSenders!NoKey,
  SendersP!Next, SendersP!SenderStep, SendersP!ReceiverStep, SendersP!Killed,
  SendersP!AllEnded, SendersP!Open, SendersP!Ftok, SendersP!CreateSegment,
  SendersP!InstallHandlers, SendersP!Memset, SendersP!NextMessage, SendersP!WritePiece,
  SendersP!Signal, SendersP!RemoveSegment, SendersP!Unlink, SendersP!Exit,
  SendersP!FindSegment, SendersP!HasAttached, SendersP!Attach, SendersP!ReadPiece,
  SendersP!PrintAndSleep, SendersP!Found, SendersP!Forget, SendersP!Ended,
  SendersP!Goto, SendersP!copying, SendersP!vars, SendersP!Init, SendersP!Empty,
  SendersP!Processes, SendersP!NoKey

(* Torn as a message may be, no piece a receiver has goes back in time     *)
(* (receive.c:55-70, send.c:42, 89).                                       *)
THEOREM ReceiversNeverGoBack == Spec => NeverOlder
<1> DEFINE Inv == program = "shared_memory" => ShmP!IInv
<1>1. Init => Inv
  <2>1. SUFFICES ASSUME Init, program = "shared_memory" PROVE ShmP!IInv
    OBVIOUS
  <2>2. Shm!Init
    BY <2>1 DEF Init
  <2>3. ShmP!Init
    BY <2>2, ShmIsThere
  <2>4. {Sender} \cap {Receiver} = {}
    BY ProgramsAssumption
  <2>5. QED
    BY <2>3, <2>4, ShmP!InitIInv DEF ShmP!InitIInv
<1>2. Inv /\ [Next]_vars => Inv' /\ (program = "shared_memory" => Shm!NothingOlder)
  <2>1. SUFFICES ASSUME Inv, [Next]_vars, program = "shared_memory"
                 PROVE  ShmP!IInv' /\ Shm!NothingOlder
    BY OneProgram
  <2>2. [ShmP!Next]_(ShmP!vars)
    BY <2>1, OneProgram, ShmIsThere
  <2>3. {Sender} \cap {Receiver} = {}
    BY ProgramsAssumption
  <2>4. ShmP!IInv' /\ ShmP!NothingOlder
    BY <2>1, <2>2, <2>3, ShmP!NextIInv DEF ShmP!NextIInv
  <2>5. QED
    BY <2>4 DEF ShmP!NothingOlder, Shm!NothingOlder
<1>3. QED
  BY <1>1, <1>2, PTL DEF Spec, NeverOlder

(* However many senders come and go, one meets the segment of another only *)
(* after a kill or a second signal (send.c:18-25, 49, 72).                 *)
THEOREM SegmentsAreRemoved == Spec => []NoOldSegment
<1> DEFINE Inv == program = "senders" => SendersP!KeyIInv
<1>1. Init => Inv
  <2>1. SUFFICES ASSUME Init, program = "senders" PROVE SendersP!KeyIInv
    OBVIOUS
  <2>2. ShmSenders!Init
    BY <2>1 DEF Init
  <2>3. SendersP!Init
    BY <2>2, ShmSendersIsThere
  <2>4. QED
    BY <2>3, SendersP!InitKeyIInv DEF SendersP!InitKeyIInv
<1>2. Inv /\ [Next]_vars => Inv'
  <2>1. SUFFICES ASSUME Inv, [Next]_vars, program = "senders"
                 PROVE  SendersP!KeyIInv'
    BY OneProgram
  <2>2. [SendersP!Next]_(SendersP!vars)
    BY <2>1, OneProgram, ShmSendersIsThere
  <2>3. SendersP!NoKey \notin Keys
    BY ProgramsAssumption DEF Shm!NoKey, SendersP!NoKey
  <2>4. QED
    BY <2>1, <2>2, <2>3, SendersP!NextKeyIInv DEF SendersP!NextKeyIInv
<1>3. Inv => NoOldSegment
  <2>1. SUFFICES ASSUME Inv, program = "senders" PROVE ShmSenders!NoOldSegment
    BY DEF NoOldSegment
  <2>2. SendersP!NoOldSegment
    BY <2>1, SendersP!KeyIInvSuffices DEF SendersP!KeyIInvSuffices
  <2>3. QED
    BY <2>2 DEF SendersP!NoOldSegment, ShmSenders!NoOldSegment, SendersP!Found, ShmSenders!Found
<1>4. QED
  BY <1>1, <1>2, <1>3, PTL DEF Spec

-----------------------------------------------------------------------------
(* The types.                                                              *)
LEMMA PipeTypes ==
  /\ Pipe!Init => Pipe!TypeOK
  /\ Pipe!TypeOK /\ [Pipe!Next]_(Pipe!vars) => Pipe!TypeOK'
<1> USE DEF Pipe!TypeOK, Pipe!Processes, Pipe!Goto, Pipe!Exit
<1>1. Pipe!Init => Pipe!TypeOK
  BY DEF Pipe!Init
<1> SUFFICES ASSUME Pipe!TypeOK, [Pipe!Next]_(Pipe!vars) PROVE Pipe!TypeOK'
  BY <1>1
<1>2. CASE Pipe!NotStarted
  BY <1>2 DEF Pipe!NotStarted
<1>3. CASE Pipe!MakePipe
  BY <1>3 DEF Pipe!MakePipe
<1>4. CASE Pipe!Fork
  BY <1>4 DEF Pipe!Fork
<1>5. ASSUME NEW p \in Pipe!Processes, Pipe!CloseUnused(p) PROVE Pipe!TypeOK'
  BY <1>5 DEF Pipe!CloseUnused
<1>6. CASE Pipe!Read
  BY <1>6 DEF Pipe!Read
<1>6a. CASE Pipe!ReadFails
  BY <1>6a DEF Pipe!ReadFails
<1>7. CASE Pipe!Write
  BY <1>7 DEF Pipe!Write
<1>7a. CASE Pipe!WriteFails
  BY <1>7a DEF Pipe!WriteFails
<1>8. CASE Pipe!Wait
  BY <1>8 DEF Pipe!Wait
<1>9. ASSUME NEW p \in Pipe!Processes, Pipe!Killed(p) PROVE Pipe!TypeOK'
  BY <1>9 DEF Pipe!Killed
<1>10. CASE UNCHANGED Pipe!vars
  BY <1>10 DEF Pipe!vars
<1>11. QED
  BY <1>2, <1>3, <1>4, <1>5, <1>6, <1>6a, <1>7, <1>7a, <1>8, <1>9, <1>10
     DEF Pipe!Next, Pipe!ChildStep, Pipe!ParentStep, Pipe!AllEnded

LEMMA FifoTyped ==
  ASSUME Fifo!Typed, [Fifo!Next]_(Fifo!vars)
  PROVE  Fifo!Typed'
<1> USE ParentsAndChildren DEF Fifo!Typed, Fifo!TypeOK, Fifo!PcTyped, Fifo!Opened, Fifo!Goto, Fifo!EndOfRun
<1>1. ASSUME NEW p \in Fifo!Processes, Fifo!Open(p) PROVE Fifo!Typed'
  BY <1>1 DEF Fifo!Open
<1>2. ASSUME NEW p \in Fifo!Processes, Fifo!Fail(p) PROVE Fifo!Typed'
  BY <1>2 DEF Fifo!Fail
<1>3. ASSUME NEW p \in Fifo!Processes, Fifo!NoSuchFile(p) PROVE Fifo!Typed'
  BY <1>2, <1>3 DEF Fifo!NoSuchFile
<1>4. ASSUME NEW p \in Fifo!Processes, Fifo!Close(p) PROVE Fifo!Typed'
  BY <1>4 DEF Fifo!Close
<1>5. ASSUME NEW p \in Fifo!Processes, Fifo!Killed(p) PROVE Fifo!Typed'
  BY <1>5 DEF Fifo!Killed
<1>6. ASSUME NEW r \in Runs, Fifo!Read(r) PROVE Fifo!Typed'
  <2>1. fd[Fifo!Child(r)] \in Runs
    BY <1>6 DEF Fifo!Read
  <2>2. QED
    BY <1>6, <2>1 DEF Fifo!Read
<1>7. ASSUME NEW r \in Runs, Fifo!Stat(r) PROVE Fifo!Typed'
  BY <1>7 DEF Fifo!Stat
<1>8. ASSUME NEW r \in Runs, Fifo!Mkfifo(r) PROVE Fifo!Typed'
  BY <1>8 DEF Fifo!Mkfifo
<1>9. ASSUME NEW r \in Runs, Fifo!Fork(r) PROVE Fifo!Typed'
  BY <1>9 DEF Fifo!Fork
<1>10. ASSUME NEW r \in Runs, Fifo!Write(r) PROVE Fifo!Typed'
  <2>1. fd[Fifo!Parent(r)] \in Runs
    BY <1>10 DEF Fifo!Write
  <2>2. QED
    BY <1>10, <2>1 DEF Fifo!Write
<1>11. ASSUME NEW r \in Runs, Fifo!Wait(r) PROVE Fifo!Typed'
  BY <1>11 DEF Fifo!Wait
<1>12. ASSUME NEW r \in Runs, Fifo!Unlink(r) PROVE Fifo!Typed'
  BY <1>12 DEF Fifo!Unlink
<1>13. CASE UNCHANGED Fifo!vars
  BY <1>13 DEF Fifo!vars
<1>14. QED
  BY <1>1, <1>2, <1>3, <1>4, <1>5, <1>6, <1>7, <1>8, <1>9, <1>10, <1>11,
     <1>12, <1>13 DEF Fifo!Next, Fifo!Step, Fifo!AllEnded

LEMMA FifoTypedInit == ASSUME Fifo!Init PROVE Fifo!Typed
BY DEF Fifo!Init, Fifo!Typed, Fifo!TypeOK, Fifo!PcTyped, Fifo!Opened, Fifo!Processes

(* Of the two instances of lab 7, from ShmTransfer_proofs.                 *)
LEMMA ShmTypes ==
  /\ Shm!Init => ShmP!TypeIInv
  /\ ShmP!TypeIInv /\ [Shm!Next]_(Shm!vars) => ShmP!TypeIInv'
  /\ ShmP!TypeIInv => Shm!TypeOK
<1>1. {Sender} \cap {Receiver} = {} /\ 2 \in Nat
  BY ProgramsAssumption
<1>2. Shm!Init => ShmP!TypeIInv
  BY <1>1, ShmIsThere, ShmP!InitTypes DEF ShmP!InitTypes
<1>3. ShmP!TypeIInv /\ [Shm!Next]_(Shm!vars) => ShmP!TypeIInv'
  BY <1>1, ShmIsThere, ShmP!NextTypes DEF ShmP!NextTypes
<1>4. ShmP!TypeIInv => Shm!TypeOK
  BY DEF ShmP!TypeIInv, ShmP!TypeOK, Shm!TypeOK, ShmP!Processes, Shm!Processes, ShmP!NoKey, Shm!NoKey
<1>5. QED
  BY <1>2, <1>3, <1>4

LEMMA ShmSendersTypes ==
  /\ ShmSenders!Init => SendersP!TypeIInv
  /\ SendersP!TypeIInv /\ [ShmSenders!Next]_(ShmSenders!vars) => SendersP!TypeIInv'
  /\ SendersP!TypeIInv => ShmSenders!TypeOK
<1>1. ({Sender} \cup OtherSenders) \cap {} = {} /\ 1 \in Nat
  OBVIOUS
<1>2. ShmSenders!Init => SendersP!TypeIInv
  BY <1>1, ShmSendersIsThere, SendersP!InitTypes DEF SendersP!InitTypes
<1>3. SendersP!TypeIInv /\ [ShmSenders!Next]_(ShmSenders!vars) => SendersP!TypeIInv'
  BY <1>1, ShmSendersIsThere, SendersP!NextTypes DEF SendersP!NextTypes
<1>4. SendersP!TypeIInv => ShmSenders!TypeOK
  BY DEF SendersP!TypeIInv, SendersP!TypeOK, ShmSenders!TypeOK, SendersP!Processes, ShmSenders!Processes,
    SendersP!NoKey, ShmSenders!NoKey
<1>5. QED
  BY <1>2, <1>3, <1>4

LEMMA RaceIsTyped == ASSUME Race!IInv PROVE Race!TypeOK
<1> USE DEF Race!IInv, Race!Typed, Race!Flags
<1>1. \A k \in DOMAIN b : \A m \in DOMAIN b[k] : b[k][m].record \in Race!Records
  <2>1. TAKE k \in DOMAIN b
  <2>2. TAKE m \in DOMAIN b[k]
  <2>3. b[k] \in Seq(Race!AnyCell)
    OBVIOUS
  <2>4. b[k][m] \in Race!AnyCell
    BY <2>3
  <2>5. QED
    BY <2>4 DEF Race!AnyCell, Race!Header, Race!Marked, Race!Data
<1>2. QED
  BY <1>1 DEF Race!TypeOK

(* Each program keeps to its types, and only one of them has the memory.   *)
THEOREM TypesAreKept == Spec => []TypeOK
<1> DEFINE Programs == {"myls", "monitor", "archiver", "pipe", "fifo",
                        "shared_memory", "senders"}
           Inv == /\ Pipe!TypeOK /\ Fifo!Typed /\ program \in Programs
                  /\ program = "shared_memory" => ShmP!TypeIInv
                  /\ program = "senders" => SendersP!TypeIInv
                  /\ program \in {"pipe", "fifo"} => NoMemory
           Proved == /\ program = "myls" => Ls!IInv
                     /\ program = "monitor" => Monitor!IInv
                     /\ program = "archiver" => Race!IInv
<1>1. Init => Inv
  BY PipeTypes, FifoTypedInit, ShmTypes, ShmSendersTypes DEF Init
<1>2. Inv /\ [Next]_vars => Inv'
  <2>1. SUFFICES ASSUME Inv, [Next]_vars PROVE Inv'
    OBVIOUS
  <2>2. program' = program /\ Pipe!TypeOK' /\ Fifo!Typed'
    BY <2>1, OneProgram, PipeTypes, FifoTyped
  <2>3. program = "shared_memory" => ShmP!TypeIInv'
    BY <2>1, OneProgram, ShmTypes
  <2>4. program = "senders" => SendersP!TypeIInv'
    BY <2>1, OneProgram, ShmSendersTypes
  <2>5. program \in {"pipe", "fifo"} => NoMemory'
    BY <2>1, OneProgram DEF NoMemory, Unused, memory
  <2>6. QED
    BY <2>1, <2>2, <2>3, <2>4, <2>5
<1>3. Inv /\ Proved => TypeOK
  BY ShmTypes, ShmSendersTypes, RaceIsTyped
     DEF TypeOK, Ls!IInv, Monitor!IInv, Fifo!Typed
<1>4. Spec => []Proved
  BY LsInvariance, MonitorInvariance, RaceInvariance, PTL
<1>5. QED
  BY <1>1, <1>2, <1>3, <1>4, PTL DEF Spec
=============================================================================
