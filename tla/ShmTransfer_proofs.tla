------------------------- MODULE ShmTransfer_proofs -------------------------
(***************************************************************************)
(* However many senders and receivers there are, and however the copying   *)
(* of messages is interleaved, no piece a receiver has goes back in time.  *)
(***************************************************************************)
EXTENDS ShmTransfer, TLAPS

(* The variables the argument computes with have these types.              *)
Typed ==
  /\ memory \in [Senders -> [Pieces -> Nat]]
  /\ number \in [Senders -> Nat]
  /\ data \in [Receivers -> [Pieces -> Nat]]
  /\ DOMAIN pc = Processes
  /\ DOMAIN shmid = Processes

(* A sender writes into its own segment only, messages of rising number.   *)
MemoryGrows ==
  \A s \in Senders :
    /\ pc[s] \in {"open", "ftok", "shmget", "signal", "memset"} =>
         memory[s] = Empty /\ number[s] = 0
    /\ pc[s] \in {"loop", "memcpy"} =>
         \A k \in Pieces : memory[s][k] <= number[s]

(* A receiver has nothing before it attaches a segment, and then nothing   *)
(* newer than that segment.                                                *)
DataLagsBehind ==
  \A r \in Receivers :
    /\ pc[r] \in {"ftok", "shmget", "shmat"} => data[r] = Empty
    /\ pc[r] \in {"shmat", "memcpy", "loop"} => shmid[r] \in Senders
    /\ pc[r] \in {"memcpy", "loop"} =>
         \A k \in Pieces : data[r][k] <= memory[shmid[r]][k]
    /\ pc[r] \in {"ftok", "shmget", "shmat", "memcpy", "loop", "failed", "exited", "killed"}

IInv == Typed /\ MemoryGrows /\ DataLagsBehind

LEMMA EmptyTyped ==
  /\ Empty \in [Pieces -> Nat]
  /\ \A k \in Pieces : Empty[k] = 0
BY DEF Empty

LEMMA InitIInv == ASSUME Senders \cap Receivers = {}, Init PROVE IInv
BY EmptyTyped DEF Init, IInv, Typed, MemoryGrows, DataLagsBehind, Processes

(* A reader is never ahead of a memory, and no memory goes back: a sender  *)
(* clears it only where it is still empty.                                 *)
LEMMA NextIInv ==
  ASSUME Senders \cap Receivers = {}, IInv, [Next]_vars
  PROVE  IInv' /\ NothingOlder
<1> USE EmptyTyped DEF IInv, Typed, MemoryGrows, DataLagsBehind, NothingOlder, Processes,
       copying
<1>1. ASSUME NEW s \in Senders, Open(s) PROVE IInv' /\ NothingOlder
  BY <1>1 DEF Open, Goto
<1>2. ASSUME NEW s \in Senders, CreateSegment(s) PROVE IInv' /\ NothingOlder
  BY <1>2 DEF CreateSegment, Goto
<1>3. ASSUME NEW s \in Senders, InstallHandlers(s) PROVE IInv' /\ NothingOlder
  BY <1>3 DEF InstallHandlers, Goto
<1>4. ASSUME NEW s \in Senders, Memset(s) PROVE IInv' /\ NothingOlder
  BY <1>4 DEF Memset, Goto
<1>5. ASSUME NEW s \in Senders, NextMessage(s) PROVE IInv' /\ NothingOlder
  BY <1>5 DEF NextMessage, Goto
<1>6. ASSUME NEW s \in Senders, WritePiece(s) PROVE IInv' /\ NothingOlder
  <2>1. pc[s] = "memcpy" /\ UNCHANGED <<shmid, number, data>>
    BY <1>6 DEF WritePiece
  <2>2. PICK k \in toCopy[s] : memory' = [memory EXCEPT ![s][k] = number[s]]
    BY <1>6 DEF WritePiece
  <2>3. /\ DOMAIN pc' = Processes
        /\ pc'[s] \in {"loop", "memcpy"}
        /\ \A p \in Processes \ {s} : pc'[p] = pc[p]
    BY <1>6 DEF WritePiece, Goto
  <2>4. memory' \in [Senders -> [Pieces -> Nat]]
    BY <2>2
  <2>5. \A t \in Senders, j \in Pieces :
          memory[t][j] <= memory'[t][j] /\ (t # s => memory'[t] = memory[t])
    BY <2>1, <2>2
  <2>6. \A j \in Pieces : memory'[s][j] <= number[s]
    BY <2>1, <2>2
  <2>7. Typed' /\ MemoryGrows' /\ NothingOlder
    <3>1. Typed'
      BY <2>1, <2>3, <2>4
    <3>2. NothingOlder
      BY <2>1
    <3>3. ASSUME NEW t \in Senders \ {s}
          PROVE  memory'[t] = memory[t] /\ number'[t] = number[t] /\ pc'[t] = pc[t]
      BY <2>1, <2>2, <2>3 DEF Processes
    <3>4. MemoryGrows'
      BY ONLY IInv, <2>1, <2>3, <2>6, <3>3 DEF IInv, MemoryGrows
    <3>5. QED
      BY ONLY <3>1, <3>2, <3>4
  <2>8. DataLagsBehind'
    <3>1. ASSUME NEW r \in Receivers, NEW j \in Pieces, pc[r] \in {"memcpy", "loop"}
          PROVE  data'[r][j] <= memory'[shmid'[r]][j]
      BY <2>1, <2>4, <2>5, <3>1
    <3>2. QED
      BY <2>1, <2>3, <3>1
  <2>9. QED
    BY <2>7, <2>8
<1>7. ASSUME NEW s \in Senders, RemoveSegment(s) PROVE IInv' /\ NothingOlder
  BY <1>7 DEF RemoveSegment, Goto
<1>8. ASSUME NEW s \in Senders, Unlink(s) PROVE IInv' /\ NothingOlder
  BY <1>8 DEF Unlink, Goto
<1>9. ASSUME NEW s \in Senders, Exit(s) PROVE IInv' /\ NothingOlder
  BY <1>9 DEF Exit, Goto
<1>10. ASSUME NEW s \in Senders, Signal(s) PROVE IInv' /\ NothingOlder
  BY <1>10 DEF Signal, Goto, Forget
<1>11. ASSUME NEW p \in Processes, Ftok(p) PROVE IInv' /\ NothingOlder
  BY <1>11 DEF Ftok, Goto
<1>12. ASSUME NEW r \in Receivers, FindSegment(r) PROVE IInv' /\ NothingOlder
  <2>1. /\ pc[r] = "shmget" /\ UNCHANGED <<memory, number, data>>
        /\ DOMAIN pc' = Processes /\ DOMAIN shmid' = Processes
        /\ \A p \in Processes \ {r} : pc'[p] = pc[p] /\ shmid'[p] = shmid[p]
    BY <1>12 DEF FindSegment, Goto
  <2>2. pc'[r] = "failed" \/ (pc'[r] = "shmat" /\ shmid'[r] \in Senders)
    BY <1>12 DEF FindSegment, Goto, Found
  <2>3. Typed' /\ MemoryGrows' /\ NothingOlder
    BY <2>1
  <2>4. DataLagsBehind'
    BY <2>1, <2>2
  <2>5. QED
    BY <2>3, <2>4
<1>13. ASSUME NEW r \in Receivers, Attach(r) PROVE IInv' /\ NothingOlder
  BY <1>13 DEF Attach, Goto
<1>14. ASSUME NEW r \in Receivers, ReadPiece(r) PROVE IInv' /\ NothingOlder
  <2>1. /\ pc[r] = "memcpy" /\ pc'[r] \in {"loop", "memcpy"}
        /\ UNCHANGED <<memory, number, shmid>>
        /\ DOMAIN pc' = Processes
        /\ \A p \in Processes \ {r} : pc'[p] = pc[p]
    BY <1>14 DEF ReadPiece, Goto
  <2>2. PICK k \in toCopy[r] : data' = [data EXCEPT ![r][k] = memory[shmid[r]][k]]
    BY <1>14 DEF ReadPiece
  <2>3. memory[shmid[r]] \in [Pieces -> Nat]
    BY <2>1
  <2>4. data' \in [Receivers -> [Pieces -> Nat]]
    <3>1. k \in Pieces => [data[r] EXCEPT ![k] = memory[shmid[r]][k]] \in [Pieces -> Nat]
      BY <2>3
    <3>2. k \notin Pieces => [data[r] EXCEPT ![k] = memory[shmid[r]][k]] = data[r]
      OBVIOUS
    <3>3. QED
      BY <2>2, <3>1, <3>2
  <2>5. /\ \A q \in Receivers \ {r} : data'[q] = data[q]
        /\ \A q \in Receivers, j \in Pieces : data[q][j] <= data'[q][j]
        /\ \A j \in Pieces : data'[r][j] <= memory[shmid[r]][j]
    BY <2>1, <2>2, <2>3
  <2>6. Typed' /\ MemoryGrows' /\ NothingOlder
    BY <2>1, <2>4, <2>5
  <2>7. DataLagsBehind'
    <3>1. ASSUME NEW q \in Receivers, pc'[q] \in {"memcpy", "loop"}
          PROVE  \A j \in Pieces : data'[q][j] <= memory'[shmid'[q]][j]
      <4>1. CASE q = r
        BY <2>1, <2>5, <4>1
      <4>2. CASE q # r
        BY <2>1, <2>5, <3>1, <4>2
      <4>3. QED
        BY <4>1, <4>2
    <3>2. ASSUME NEW q \in Receivers, pc'[q] \in {"ftok", "shmget", "shmat"}
          PROVE  data'[q] = Empty
      <4>1. q # r
        BY <2>1, <3>2
      <4>2. pc'[q] = pc[q] /\ data'[q] = data[q]
        BY <2>1, <2>5, <4>1
      <4>3. QED
        BY <3>2, <4>2
    <3>3. QED
      BY <2>1, <3>1, <3>2
  <2>8. QED
    BY <2>6, <2>7
<1>15. ASSUME NEW r \in Receivers, PrintAndSleep(r) PROVE IInv' /\ NothingOlder
  BY <1>15 DEF PrintAndSleep, Goto
<1>16. ASSUME NEW p \in Processes, Killed(p) PROVE IInv' /\ NothingOlder
  BY <1>16 DEF Killed, Goto, Forget
<1>17. CASE UNCHANGED vars
  BY <1>17 DEF vars
<1>18. QED
  BY <1>1, <1>2, <1>3, <1>4, <1>5, <1>6, <1>7, <1>8, <1>9, <1>10, <1>11, <1>12, <1>13,
     <1>14, <1>15, <1>16, <1>17
     DEF Next, SenderStep, ReceiverStep, AllEnded

(* No receiver prints data older than it printed before, nor "no data      *)
(* available" after data (receive.c:55-70, send.c:42, 89), for any number  *)
(* of senders, receivers, pieces and messages.                             *)
THEOREM ReceiversNeverGoBack ==
  ASSUME Senders \cap Receivers = {}
  PROVE  Spec => NeverOlder
<1>1. Init => IInv
  BY InitIInv
<1>2. IInv /\ [Next]_vars => IInv' /\ NothingOlder
  BY NextIInv
<1>3. QED
  BY <1>1, <1>2, PTL DEF Spec, NeverOlder

-----------------------------------------------------------------------------
(* Who has made the key file, and neither left nor removed it yet.         *)
Owner(s) ==
  pc[s] \in {"ftok", "shmget", "signal", "memset", "loop", "memcpy", "rmid", "unlink"}
Undisturbed == \A s \in Senders : pc[s] # "killed" /\ signals[s] < 2

(* A sender counts its first signal when it leaves for the handler.        *)
HandlersAreCounted ==
  \A s \in Senders :
    /\ pc[s] \in {"open", "ftok", "shmget"} => signals[s] = 0
    /\ pc[s] \in {"rmid", "unlink", "exit"} => signals[s] >= 1

(* While nothing goes wrong the file has one owner, and it has the only    *)
(* segment: this is why a sender that is signalled once cleans up.         *)
OneOwner ==
  Undisturbed =>
    /\ \A s, t \in Senders : Owner(s) /\ Owner(t) => s = t
    /\ \A s \in Senders : Owner(s) => keyFile # NoKey
    /\ \A s \in Senders : segment[s] = "present" =>
         pc[s] \in {"signal", "memset", "loop", "memcpy", "rmid"}

KeyIInv ==
  /\ DOMAIN pc = Processes /\ DOMAIN segment = Senders
  /\ signals \in [Senders -> 0..2]
  /\ HandlersAreCounted
  /\ OneOwner

LEMMA InitKeyIInv == ASSUME Senders \cap Receivers = {}, Init PROVE KeyIInv
BY DEF Init, KeyIInv, HandlersAreCounted, OneOwner, Undisturbed, Owner, Processes

(* Mishaps are never forgotten, so OneOwner is lost once and for all.      *)
LEMMA NextKeyIInv ==
  ASSUME Senders \cap Receivers = {}, NoKey \notin Keys, KeyIInv, [Next]_vars
  PROVE  KeyIInv'
<1> USE DEF KeyIInv, HandlersAreCounted, OneOwner, Undisturbed, Owner, Processes, copying
<1>1. ASSUME NEW s \in Senders, Open(s) PROVE KeyIInv'
  BY <1>1 DEF Open, Goto
<1>2. ASSUME NEW s \in Senders, CreateSegment(s) PROVE KeyIInv'
  BY <1>2 DEF CreateSegment, Goto
<1>3. ASSUME NEW s \in Senders, InstallHandlers(s) PROVE KeyIInv'
  BY <1>3 DEF InstallHandlers, Goto
<1>4. ASSUME NEW s \in Senders, Memset(s) PROVE KeyIInv'
  BY <1>4 DEF Memset, Goto
<1>5. ASSUME NEW s \in Senders, NextMessage(s) PROVE KeyIInv'
  BY <1>5 DEF NextMessage, Goto
<1>6. ASSUME NEW s \in Senders, WritePiece(s) PROVE KeyIInv'
  BY <1>6 DEF WritePiece, Goto
<1>7. ASSUME NEW s \in Senders, RemoveSegment(s) PROVE KeyIInv'
  BY <1>7 DEF RemoveSegment, Goto
<1>8. ASSUME NEW s \in Senders, Unlink(s) PROVE KeyIInv'
  BY <1>8 DEF Unlink, Goto
<1>9. ASSUME NEW s \in Senders, Exit(s) PROVE KeyIInv'
  BY <1>9 DEF Exit, Goto
<1>10. ASSUME NEW s \in Senders, Signal(s) PROVE KeyIInv'
  BY <1>10 DEF Signal, Goto, Forget
<1>11. ASSUME NEW p \in Processes, Ftok(p) PROVE KeyIInv'
  BY <1>11 DEF Ftok, Goto
<1>12. ASSUME NEW r \in Receivers, FindSegment(r) PROVE KeyIInv'
  BY <1>12 DEF FindSegment, Goto
<1>13. ASSUME NEW r \in Receivers, Attach(r) PROVE KeyIInv'
  BY <1>13 DEF Attach, Goto
<1>14. ASSUME NEW r \in Receivers, ReadPiece(r) PROVE KeyIInv'
  BY <1>14 DEF ReadPiece, Goto
<1>15. ASSUME NEW r \in Receivers, PrintAndSleep(r) PROVE KeyIInv'
  BY <1>15 DEF PrintAndSleep, Goto
<1>16. ASSUME NEW p \in Processes, Killed(p) PROVE KeyIInv'
  BY <1>16 DEF Killed, Goto
<1>17. CASE UNCHANGED vars
  BY <1>17 DEF vars
<1>18. QED
  BY <1>1, <1>2, <1>3, <1>4, <1>5, <1>6, <1>7, <1>8, <1>9, <1>10, <1>11, <1>12, <1>13,
     <1>14, <1>15, <1>16, <1>17
     DEF Next, SenderStep, ReceiverStep, AllEnded

(* Without a mishap nobody but the owner has a segment.                    *)
LEMMA KeyIInvSuffices == KeyIInv => NoOldSegment
<1>1. SUFFICES ASSUME KeyIInv, NEW s \in Senders, pc[s] = "shmget", Found(shmkey[s]) # {},
                      ~ \E t \in Senders \ {s} : pc[t] = "killed" \/ signals[t] = 2
               PROVE  FALSE
  BY DEF NoOldSegment
<1>2. PICK t \in Senders : segment[t] = "present"
  BY <1>1 DEF Found
<1>3. QED
  BY <1>1, <1>2 DEF KeyIInv, HandlersAreCounted, OneOwner, Undisturbed, Owner

(* A new sender meets the segment of an old one only after a kill or a     *)
(* second signal (send.c:18-25, 49, 72), for any number of senders.        *)
THEOREM SegmentsAreRemoved ==
  ASSUME Senders \cap Receivers = {}, NoKey \notin Keys
  PROVE  Spec => []NoOldSegment
<1>1. Init => KeyIInv
  BY InitKeyIInv
<1>2. KeyIInv /\ [Next]_vars => KeyIInv'
  BY NextKeyIInv
<1>3. KeyIInv => NoOldSegment
  BY KeyIInvSuffices
<1>4. QED
  BY <1>1, <1>2, <1>3, PTL DEF Spec
-----------------------------------------------------------------------------
(* The types: a receiver reads the memory of a segment it has found.       *)
TypeIInv ==
  /\ TypeOK
  /\ \A r \in Receivers : pc[r] \in {"shmat", "memcpy", "loop"} => shmid[r] \in Senders

LEMMA InitTypes ==
  ASSUME Senders \cap Receivers = {}, Messages \in Nat, Init
  PROVE  TypeIInv
<1>1. Empty \in [Pieces -> 0..Messages]
  BY DEF Empty
<1>2. QED
  BY <1>1 DEF Init, TypeIInv, TypeOK, Processes

LEMMA NextTypes ==
  ASSUME Senders \cap Receivers = {}, Messages \in Nat, TypeIInv, [Next]_vars
  PROVE  TypeIInv'
<1> Empty \in [Pieces -> 0..Messages]
  BY DEF Empty
<1> USE DEF TypeIInv, TypeOK, Processes, copying, Goto
<1>1. ASSUME NEW s \in Senders, Open(s) PROVE TypeIInv'
  BY <1>1 DEF Open
<1>2. ASSUME NEW s \in Senders, CreateSegment(s) PROVE TypeIInv'
  <2>1. /\ UNCHANGED <<keyFile, shmkey, copying, signals>> /\ pc[s] = "shmget"
        /\ DOMAIN pc' = Processes /\ \A p \in Processes \ {s} : pc'[p] = pc[p]
    BY <1>2 DEF CreateSegment
  <2>2. segment' \in [Senders -> {"none", "present", "removed"}]
    BY <1>2 DEF CreateSegment
  <2>3. /\ shmid' \in [Processes -> Senders \cup {NoKey}]
        /\ \A p \in Processes \ {s} : shmid'[p] = shmid[p]
    <3>1. shmid' = shmid \/ shmid' = [shmid EXCEPT ![s] = s]
      BY <1>2 DEF CreateSegment
    <3>2. s \in Processes /\ shmid \in [Processes -> Senders \cup {NoKey}]
      OBVIOUS
    <3>3. QED
      BY ONLY <3>1, <3>2, s \in Senders
  <2>4. QED
    BY <2>1, <2>2, <2>3
<1>3. ASSUME NEW s \in Senders, InstallHandlers(s) PROVE TypeIInv'
  BY <1>3 DEF InstallHandlers
<1>4. ASSUME NEW s \in Senders, Memset(s) PROVE TypeIInv'
  BY <1>4 DEF Memset
<1>5. ASSUME NEW s \in Senders, NextMessage(s) PROVE TypeIInv'
  BY <1>5 DEF NextMessage
<1>6. ASSUME NEW s \in Senders, WritePiece(s) PROVE TypeIInv'
  BY <1>6 DEF WritePiece
<1>7. ASSUME NEW s \in Senders, RemoveSegment(s) PROVE TypeIInv'
  BY <1>7 DEF RemoveSegment
<1>8. ASSUME NEW s \in Senders, Unlink(s) PROVE TypeIInv'
  BY <1>8 DEF Unlink
<1>9. ASSUME NEW s \in Senders, Exit(s) PROVE TypeIInv'
  BY <1>9 DEF Exit
<1>10. ASSUME NEW s \in Senders, Signal(s) PROVE TypeIInv'
  BY <1>10 DEF Signal, Forget
<1>11. ASSUME NEW p \in Processes, Ftok(p) PROVE TypeIInv'
  BY <1>11 DEF Ftok
<1>12. ASSUME NEW r \in Receivers, FindSegment(r) PROVE TypeIInv'
  <2>1. /\ UNCHANGED <<keyFile, segment, shmkey, copying, signals>>
        /\ DOMAIN pc' = Processes /\ \A p \in Processes \ {r} : pc'[p] = pc[p]
    BY <1>12 DEF FindSegment
  <2>2. CASE shmid' = shmid /\ pc'[r] = "failed"
    BY <2>1, <2>2
  <2>3. ASSUME NEW s \in Senders, shmid' = [shmid EXCEPT ![r] = s] PROVE TypeIInv'
    <3>1. /\ shmid' \in [Processes -> Senders \cup {NoKey}] /\ shmid'[r] \in Senders
          /\ \A p \in Processes \ {r} : shmid'[p] = shmid[p]
      BY <2>3
    <3>2. QED
      BY <2>1, <3>1
  <2>4. QED
    BY <1>12, <2>2, <2>3 DEF FindSegment, Found
<1>13. ASSUME NEW r \in Receivers, Attach(r) PROVE TypeIInv'
  <2>1. /\ UNCHANGED <<keyFile, segment, memory, shmkey, shmid, number, data, signals>>
        /\ pc[r] = "shmat" /\ shmid[r] \in Senders
        /\ DOMAIN pc' = Processes /\ \A p \in Processes \ {r} : pc'[p] = pc[p]
    BY <1>13 DEF Attach
  <2>2. toCopy' \in [Processes -> SUBSET Pieces]
    <3>1. toCopy' = toCopy \/ toCopy' = [toCopy EXCEPT ![r] = Pieces]
      BY <1>13 DEF Attach
    <3>2. Pieces \in SUBSET Pieces /\ toCopy \in [Processes -> SUBSET Pieces]
      OBVIOUS
    <3>3. QED
      BY ONLY <3>1, <3>2
  <2>3. QED
    BY <2>1, <2>2
<1>14. ASSUME NEW r \in Receivers, ReadPiece(r) PROVE TypeIInv'
  <2>1. shmid[r] \in Senders
    BY <1>14 DEF ReadPiece
  <2>2. memory[shmid[r]] \in [Pieces -> 0..Messages]
    BY <2>1
  <2>3. QED
    BY <1>14, <2>2 DEF ReadPiece
<1>15. ASSUME NEW r \in Receivers, PrintAndSleep(r) PROVE TypeIInv'
  BY <1>15 DEF PrintAndSleep
<1>16. ASSUME NEW p \in Processes, Killed(p) PROVE TypeIInv'
  BY <1>16 DEF Killed, Forget
<1>17. CASE UNCHANGED vars
  BY <1>17 DEF vars
<1>18. QED
  BY <1>1, <1>2, <1>3, <1>4, <1>5, <1>6, <1>7, <1>8, <1>9, <1>10, <1>11, <1>12, <1>13,
     <1>14, <1>15, <1>16, <1>17
     DEF Next, SenderStep, ReceiverStep, AllEnded

(* No message number leaves its range, and every id is that of a segment   *)
(* (send.c:49-89, receive.c:37-70), for any senders and receivers.         *)
THEOREM ShmTypes ==
  ASSUME Senders \cap Receivers = {}, Messages \in Nat
  PROVE  Spec => []TypeOK
<1>1. Init => TypeIInv
  BY InitTypes
<1>2. TypeIInv /\ [Next]_vars => TypeIInv'
  BY NextTypes
<1>3. TypeIInv => TypeOK
  BY DEF TypeIInv
<1>4. QED
  BY <1>1, <1>2, <1>3, PTL DEF Spec
=============================================================================
