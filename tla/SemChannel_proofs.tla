------------------------- MODULE SemChannel_proofs -------------------------
(***************************************************************************)
(* For any number of senders, receivers and keys, messages of any length,  *)
(* whoever is killed, and whenever: the key file of lab9_sems is a lock    *)
(* between senders (IInv), and what a receiver prints is one message       *)
(* unless the channel is taken down meanwhile (MessageInv).                *)
(***************************************************************************)
EXTENDS SemChannel, FiniteSetTheorems, TLAPS

ObjectStates == {"absent", "present", "removed"}

Segments == [key : Keys \cup {NoKey}, state : ObjectStates]
Semaphores == [key : Keys \cup {NoKey}, state : ObjectStates, value : Int]

Typed ==
  /\ DOMAIN pc = Processes
  /\ keyFile \in Keys \cup {NoKey}
  /\ segment \in [Senders -> Segments]
  /\ semaphore \in [Senders -> Semaphores]
  /\ ipc_key \in [Processes -> Keys \cup {NoKey}]
  /\ DOMAIN shared_memory_id = Processes
  /\ DOMAIN semaphore_id = Processes

(* An owner has its file, and no other has one.                            *)
Locked ==
  /\ \A s, t \in Senders : OwnsKeyFile(s) /\ OwnsKeyFile(t) => s = t
  /\ \A s \in Senders : OwnsKeyFile(s) => keyFile # NoKey

(* Its owner is gone: no sender will ever start again.                     *)
Orphaned == keyFile # NoKey /\ \A s \in Senders : ~OwnsKeyFile(s)

(* A sender knows its own objects only, and none before it has made it.    *)
IdsAreOwn ==
  \A s \in Senders :
    /\ shared_memory_id[s] \in {NoId, s}
    /\ semaphore_id[s] \in {NoId, s}
    /\ pc[s] \in {"open", "signal", "ftok", "shmget", "shmat"} => shared_memory_id[s] = NoId
    /\ pc[s] \in {"open", "signal", "ftok", "shmget", "shmat", "semget", "store_semid"} =>
         semaphore_id[s] = NoId

(* An object whose id was stored is there only as long as its sender is,   *)
(* up to the call that removes it, unless it keeps the file for ever.      *)
StoredObjects ==
  \A s \in Senders :
    /\ segment[s].state = "present" =>
         \/ shared_memory_id[s] = NoId
         \/ Orphaned
         \/ pc[s] \in {"semget", "store_semid", "setval", "lock", "copy", "unlock", "sleep",
                       "rmid_shm"}
    /\ semaphore[s].state = "present" =>
         \/ semaphore_id[s] = NoId
         \/ Orphaned
         \/ pc[s] \in {"setval", "lock", "copy", "unlock", "sleep", "rmid_shm", "rmid_sem"}

IInv ==
  /\ Typed
  /\ IdsAreOwn
  /\ mishap # SignalledAtExit => Locked /\ StoredObjects

LEMMA DifferentMishaps ==
  NoMishap # SignalledTwice /\ NoMishap # SignalledAtExit /\ SignalledTwice # SignalledAtExit
BY DEF NoMishap, SignalledTwice, SignalledAtExit

USE SemChannelAssumption, DifferentMishaps

LEMMA InitIInv == Init => IInv
BY DEF Init, IInv, Typed, IdsAreOwn, Locked, StoredObjects, OwnsKeyFile, Absent, Processes,
       ObjectStates, Segments, Semaphores

-----------------------------------------------------------------------------
(* semop and semctl change values: neither state nor key of a semaphore.   *)
LEMMA RecordChange ==
  ASSUME NEW o \in Semaphores, NEW v \in Int
  PROVE  /\ [o EXCEPT !.value = v] \in Semaphores
         /\ [o EXCEPT !.value = v].state = o.state
         /\ [o EXCEPT !.value = v].key = o.key
         /\ [o EXCEPT !.value = v].value = v
BY DEF Semaphores

LEMMA ValueChange ==
  ASSUME semaphore \in [Senders -> Semaphores], NEW id, NEW v, id \in Senders => v \in Int,
         semaphore' = [semaphore EXCEPT ![id].value = v]
  PROVE  /\ semaphore' \in [Senders -> Semaphores]
         /\ \A t \in Senders :
              /\ semaphore'[t].state = semaphore[t].state
              /\ semaphore'[t].key = semaphore[t].key
              /\ semaphore'[t].value = IF t = id THEN v ELSE semaphore[t].value
<1>1. ASSUME NEW s \in Senders, s = id
      PROVE  /\ [semaphore[s] EXCEPT !.value = v] \in Semaphores
             /\ [semaphore[s] EXCEPT !.value = v].state = semaphore[s].state
             /\ [semaphore[s] EXCEPT !.value = v].key = semaphore[s].key
             /\ [semaphore[s] EXCEPT !.value = v].value = v
  BY <1>1, RecordChange
<1>2. QED
  BY <1>1

LEMMA SemaphoreRemoval ==
  ASSUME semaphore \in [Senders -> Semaphores], NEW id,
         semaphore' = [semaphore EXCEPT ![id].state = "removed", ![id].value = 0]
  PROVE  /\ semaphore' \in [Senders -> Semaphores]
         /\ \A t \in Senders : /\ t = id => /\ semaphore'[t].state = "removed"
                                           /\ semaphore'[t].key = semaphore[t].key
                                           /\ semaphore'[t].value = 0
                               /\ t # id => semaphore'[t] = semaphore[t]
<1> DEFINE between == [semaphore EXCEPT ![id].state = "removed"]
<1>1. ASSUME NEW o \in Semaphores
      PROVE  /\ [o EXCEPT !.state = "removed"] \in Semaphores
             /\ [o EXCEPT !.state = "removed"].state = "removed"
             /\ [o EXCEPT !.state = "removed"].key = o.key
  BY DEF Semaphores, ObjectStates
<1>2. /\ between \in [Senders -> Semaphores]
      /\ \A t \in Senders : /\ t = id => /\ between[t].state = "removed"
                                        /\ between[t].key = semaphore[t].key
                            /\ t # id => between[t] = semaphore[t]
  BY <1>1
<1>3. semaphore' = [between EXCEPT ![id].value = 0]
  OBVIOUS
<1> HIDE DEF between
<1>4. ASSUME NEW t \in Senders, t = id
      PROVE  /\ [between[t] EXCEPT !.value = 0] \in Semaphores
             /\ [between[t] EXCEPT !.value = 0].state = "removed"
             /\ [between[t] EXCEPT !.value = 0].key = semaphore[t].key
             /\ [between[t] EXCEPT !.value = 0].value = 0
  <2>1. between[t] \in Semaphores
    BY <1>2
  <2>2. between[t].state = "removed" /\ between[t].key = semaphore[t].key
    BY <1>2, <1>4
  <2>3. QED
    BY <2>1, <2>2, RecordChange
<1>5. \A t \in Senders :
        semaphore'[t] = IF t = id THEN [between[t] EXCEPT !.value = 0] ELSE between[t]
  BY <1>2, <1>3
<1>6. DOMAIN semaphore' = Senders /\ semaphore' = [t \in Senders |-> semaphore'[t]]
  BY <1>2, <1>3
<1>7. \A t \in Senders : semaphore'[t] \in Semaphores
  BY <1>2, <1>4, <1>5
<1>8. semaphore' \in [Senders -> Semaphores]
  <2> DEFINE g == semaphore'
  <2>1. DOMAIN g = Senders /\ g = [t \in Senders |-> g[t]] /\ \A t \in Senders : g[t] \in Semaphores
    BY <1>6, <1>7
  <2> HIDE DEF g
  <2>2. g \in [Senders -> Semaphores]
    BY <2>1
  <2>3. QED
    BY <2>2 DEF g
<1>9. QED
  <2>1. ASSUME NEW t \in Senders
        PROVE  /\ t = id => /\ semaphore'[t].state = "removed"
                            /\ semaphore'[t].key = semaphore[t].key
                            /\ semaphore'[t].value = 0
               /\ t # id => semaphore'[t] = semaphore[t]
    BY <1>2, <1>4, <1>5
  <2>2. QED
    BY <1>8, <2>1

LEMMA ValueIsInt ==
  ASSUME semaphore \in [Senders -> Semaphores], NEW id \in Senders
  PROVE  semaphore[id].value \in Int
BY DEF Semaphores

LEMMA EnterOrLeave ==
  ASSUME Typed, NEW p \in Processes, Enter(p) \/ Leave(p)
  PROVE  /\ semaphore' \in [Senders -> Semaphores]
         /\ \A t \in Senders : semaphore'[t].state = semaphore[t].state
<1> DEFINE id == semaphore_id[p]
           v == semaphore[id].value
<1>1. \/ semaphore' = semaphore
      \/ semaphore' = [semaphore EXCEPT ![id].value = v - 1]
      \/ semaphore' = [semaphore EXCEPT ![id].value = v + 1]
  BY DEF Enter, Leave
<1>2. semaphore \in [Senders -> Semaphores]
  BY DEF Typed
<1>3. id \in Senders => v - 1 \in Int /\ v + 1 \in Int
  BY <1>2, ValueIsInt
<1> HIDE DEF v, id
<1>4. CASE semaphore' = [semaphore EXCEPT ![id].value = v - 1]
  BY <1>2, <1>3, <1>4, ValueChange
<1>5. CASE semaphore' = [semaphore EXCEPT ![id].value = v + 1]
  BY <1>2, <1>3, <1>5, ValueChange
<1>6. QED
  BY <1>1, <1>2, <1>4, <1>5

(* IPC_RMID and the calls that make an object.                             *)
LEMMA ObjectChange ==
  ASSUME NEW f, NEW Objects, f \in [Senders -> Objects], NEW s, NEW o,
         s \in Senders => o \in Objects
  PROVE  [f EXCEPT ![s] = o] \in [Senders -> Objects]
OBVIOUS

LEMMA ObjectTypes ==
  ASSUME Typed
  PROVE  /\ \A s \in Senders : /\ [segment[s] EXCEPT !.state = "removed"] \in Segments
                               /\ [segment[s] EXCEPT !.state = "removed"].state = "removed"
                               /\ segment[s].state \in ObjectStates
         /\ \A k \in Keys \cup {NoKey} :
              /\ [key |-> k, state |-> "present"] \in Segments
              /\ [key |-> k, state |-> "present", value |-> 0] \in Semaphores
<1>1. \A s \in Senders : segment[s] \in Segments /\ semaphore[s] \in Semaphores
  BY DEF Typed
<1>2. ASSUME NEW o \in Segments PROVE o.state \in ObjectStates
  BY DEF Segments
<1>3. ASSUME NEW o \in Segments
      PROVE  /\ [o EXCEPT !.state = "removed"] \in Segments
             /\ [o EXCEPT !.state = "removed"].state = "removed"
  BY DEF Segments, ObjectStates
<1>4. ASSUME NEW k \in Keys \cup {NoKey}
      PROVE  /\ [key |-> k, state |-> "present"] \in Segments
             /\ [key |-> k, state |-> "present", value |-> 0] \in Semaphores
  BY DEF Segments, Semaphores, ObjectStates
<1>5. QED
  BY <1>1, <1>2, <1>3, <1>4

(* The types are kept.                                                     *)
LEMMA NextTyped == ASSUME Typed, [Next]_vars PROVE Typed'
<1> USE DEF Typed, Processes, Goto, ipc, ids, locals
<1>1. ASSUME NEW s \in Senders, CreateKeyFile(s) PROVE Typed'
  BY <1>1 DEF CreateKeyFile
<1>2. ASSUME NEW s \in Senders, Refused(s) PROVE Typed'
  BY <1>2 DEF Refused
<1>3. ASSUME NEW s \in Senders, InstallHandlers(s) PROVE Typed'
  BY <1>3 DEF InstallHandlers
<1>4. ASSUME NEW s \in Senders, CreateSegment(s) PROVE Typed'
  BY <1>4, ObjectTypes, ObjectChange DEF CreateSegment
<1>5. ASSUME NEW s \in Senders, StoreSegmentId(s) PROVE Typed'
  BY <1>5 DEF StoreSegmentId
<1>6. ASSUME NEW s \in Senders, CreateSemaphore(s) PROVE Typed'
  BY <1>6, ObjectTypes, ObjectChange DEF CreateSemaphore
<1>7. ASSUME NEW s \in Senders, StoreSemaphoreId(s) PROVE Typed'
  BY <1>7 DEF StoreSemaphoreId
<1>8. ASSUME NEW s \in Senders, SetVal(s) PROVE Typed'
  <2>1. semaphore' = [semaphore EXCEPT ![s].value = 1] /\ (s \in Senders => 1 \in Int)
    BY <1>8 DEF SetVal
  <2>2. semaphore' \in [Senders -> Semaphores]
    BY <2>1, ValueChange
  <2>3. QED
    BY <1>8, <2>2 DEF SetVal
<1>9. ASSUME NEW s \in Senders, AlreadyExists(s) PROVE Typed'
  BY <1>9 DEF AlreadyExists
<1>10. ASSUME NEW s \in Senders, SenderLock(s) PROVE Typed'
  BY <1>10, EnterOrLeave DEF SenderLock
<1>11. ASSUME NEW s \in Senders, WritePiece(s) PROVE Typed'
  BY <1>11 DEF WritePiece
<1>12. ASSUME NEW s \in Senders, SenderUnlock(s) PROVE Typed'
  BY <1>12, EnterOrLeave DEF SenderUnlock
<1>13. ASSUME NEW s \in Senders, RemoveSegment(s) PROVE Typed'
  BY <1>13, ObjectTypes, ObjectChange DEF RemoveSegment
<1>14. ASSUME NEW s \in Senders, RemoveSemaphore(s) PROVE Typed'
  BY <1>14, SemaphoreRemoval DEF RemoveSemaphore
<1>15. ASSUME NEW s \in Senders, RemoveKeyFile(s) PROVE Typed'
  BY <1>15 DEF RemoveKeyFile
<1>16. ASSUME NEW s \in Senders, Signal(s) PROVE Typed'
  BY <1>16 DEF Signal
<1>17. ASSUME NEW s \in Senders, SignalAgain(s) PROVE Typed'
  BY <1>17 DEF SignalAgain
<1>18. ASSUME NEW p \in Processes, Ftok(p) PROVE Typed'
  BY <1>18 DEF Ftok
<1>19. ASSUME NEW p \in Processes, Wake(p) PROVE Typed'
  BY <1>19 DEF Wake
<1>20. ASSUME NEW p \in Processes, Resume(p) PROVE Typed'
  BY <1>20 DEF Resume
<1>21. ASSUME NEW p \in Processes, Killed(p) PROVE Typed'
  BY <1>21 DEF Killed
<1>22. ASSUME NEW r \in Receivers, FindSegment(r) PROVE Typed'
  BY <1>22 DEF FindSegment
<1>23. ASSUME NEW r \in Receivers, Attach(r) PROVE Typed'
  BY <1>23 DEF Attach
<1>24. ASSUME NEW r \in Receivers, FindSemaphore(r) PROVE Typed'
  BY <1>24 DEF FindSemaphore
<1>25. ASSUME NEW r \in Receivers, ReceiverLock(r) PROVE Typed'
  BY <1>25, EnterOrLeave DEF ReceiverLock
<1>26. ASSUME NEW r \in Receivers, ReadPiece(r) PROVE Typed'
  BY <1>26 DEF ReadPiece
<1>27. ASSUME NEW r \in Receivers, ReceiverUnlock(r) PROVE Typed'
  BY <1>27, EnterOrLeave DEF ReceiverUnlock
<1>28. CASE UNCHANGED vars
  BY <1>28 DEF vars, ipc, ids
<1>29. QED
  BY <1>1, <1>2, <1>3, <1>4, <1>5, <1>6, <1>7, <1>8, <1>9, <1>10, <1>11, <1>12, <1>13,
     <1>14, <1>15, <1>16, <1>17, <1>18, <1>19, <1>20, <1>21, <1>22, <1>23, <1>24, <1>25,
     <1>26, <1>27, <1>28
     DEF Next, SenderStep, ReceiverStep, AllEnded, Processes

(* From here to its end a sender moves about in one set of labels.         *)
Working == {"setval", "lock", "copy", "unlock", "sleep"}

(* The invariant survives every step that changes no state of an object,  *)
(* no id of a sender and no owner.                                         *)
LEMMA QuietStep ==
  ASSUME IInv, Typed',
         mishap' # SignalledAtExit => mishap # SignalledAtExit,
         keyFile' = keyFile,
         \A s \in Senders :
           /\ segment'[s].state = segment[s].state
           /\ semaphore'[s].state = semaphore[s].state
           /\ shared_memory_id'[s] = shared_memory_id[s]
           /\ semaphore_id'[s] = semaphore_id[s]
           /\ pc'[s] = pc[s] \/ (pc[s] \in Working /\ pc'[s] \in Working)
  PROVE  IInv'
<1>1. \A s \in Senders :
        /\ OwnsKeyFile(s)' <=> OwnsKeyFile(s)
        /\ pc'[s] = pc[s] \/ (pc[s] \in Working /\ pc'[s] \in Working)
  BY DEF OwnsKeyFile, Alive, Working
<1>2. IdsAreOwn'
  BY <1>1 DEF IInv, IdsAreOwn, Working
<1>3. Locked => Locked'
  BY <1>1 DEF Locked
<1>4. Orphaned => Orphaned'
  BY <1>1 DEF Orphaned
<1>5. StoredObjects => StoredObjects'
  BY <1>1, <1>4 DEF StoredObjects, Working
<1>6. QED
  BY <1>2, <1>3, <1>5 DEF IInv

LEMMA NextIInv == ASSUME IInv, [Next]_vars PROVE IInv'
<1>0. Typed /\ Typed'
  BY NextTyped DEF IInv
<1>1. ASSUME NEW s \in Senders, CreateKeyFile(s) PROVE IInv'
  BY <1>1, <1>0, ZenonT(60) DEF CreateKeyFile, IInv, Typed, IdsAreOwn, Locked,
         StoredObjects, Orphaned, OwnsKeyFile, Alive, Goto, ipc, ids, Processes
<1>2. ASSUME NEW s \in Senders, Refused(s) PROVE IInv'
  BY <1>2, <1>0, ZenonT(60) DEF Refused, IInv, Typed, IdsAreOwn, Locked,
         StoredObjects, Orphaned, OwnsKeyFile, Alive, Goto, ipc, ids, Processes
<1>3. ASSUME NEW s \in Senders, InstallHandlers(s) PROVE IInv'
  BY <1>3, <1>0, ZenonT(60) DEF InstallHandlers, IInv, Typed, IdsAreOwn, Locked,
         StoredObjects, Orphaned, OwnsKeyFile, Alive, Goto, ipc, ids, Processes
<1>4. ASSUME NEW s \in Senders, CreateSegment(s) PROVE IInv'
  BY <1>4, <1>0, ZenonT(60) DEF CreateSegment, IInv, Typed, IdsAreOwn, Locked,
         StoredObjects, Orphaned, OwnsKeyFile, Alive, Goto, ipc, ids, Processes
<1>5. ASSUME NEW s \in Senders, StoreSegmentId(s) PROVE IInv'
  BY <1>5, <1>0, ZenonT(60) DEF StoreSegmentId, IInv, Typed, IdsAreOwn, Locked,
         StoredObjects, Orphaned, OwnsKeyFile, Alive, Goto, ipc, ids, Processes
<1>6. ASSUME NEW s \in Senders, CreateSemaphore(s) PROVE IInv'
  BY <1>6, <1>0, ZenonT(60) DEF CreateSemaphore, IInv, Typed, IdsAreOwn, Locked,
         StoredObjects, Orphaned, OwnsKeyFile, Alive, Goto, ipc, ids, Processes
<1>7. ASSUME NEW s \in Senders, StoreSemaphoreId(s) PROVE IInv'
  BY <1>7, <1>0, ZenonT(60) DEF StoreSemaphoreId, IInv, Typed, IdsAreOwn, Locked,
         StoredObjects, Orphaned, OwnsKeyFile, Alive, Goto, ipc, ids, Processes
<1>8. ASSUME NEW s \in Senders, SetVal(s) PROVE IInv'
  <2>1. \A t \in Senders : semaphore'[t].state = semaphore[t].state
    BY <1>8, <1>0, EnterOrLeave, ValueChange DEF SetVal, Typed, ipc, Processes
  <2>2. /\ mishap' # SignalledAtExit => mishap # SignalledAtExit
        /\ keyFile' = keyFile
        /\ \A t \in Senders :
             /\ segment'[t].state = segment[t].state
             /\ shared_memory_id'[t] = shared_memory_id[t]
             /\ semaphore_id'[t] = semaphore_id[t]
             /\ pc'[t] = pc[t] \/ (pc[t] \in Working /\ pc'[t] \in Working)
    BY <1>8, <1>0 DEF SetVal, Typed, Working, Goto, ipc, ids, Processes
  <2>3. QED
    BY <1>0, <2>1, <2>2, QuietStep
<1>9. ASSUME NEW s \in Senders, AlreadyExists(s) PROVE IInv'
  BY <1>9, <1>0, ZenonT(60) DEF AlreadyExists, IInv, Typed, IdsAreOwn, Locked,
         StoredObjects, Orphaned, OwnsKeyFile, Alive, Goto, ipc, ids, Processes
<1>10. ASSUME NEW s \in Senders, SenderLock(s) PROVE IInv'
  <2>1. \A t \in Senders : semaphore'[t].state = semaphore[t].state
    BY <1>10, <1>0, EnterOrLeave, ValueChange DEF SenderLock, Typed, ipc, Processes
  <2>2. /\ mishap' # SignalledAtExit => mishap # SignalledAtExit
        /\ keyFile' = keyFile
        /\ \A t \in Senders :
             /\ segment'[t].state = segment[t].state
             /\ shared_memory_id'[t] = shared_memory_id[t]
             /\ semaphore_id'[t] = semaphore_id[t]
             /\ pc'[t] = pc[t] \/ (pc[t] \in Working /\ pc'[t] \in Working)
    BY <1>10, <1>0 DEF SenderLock, Typed, Working, Goto, ipc, ids, Processes
  <2>3. QED
    BY <1>0, <2>1, <2>2, QuietStep
<1>11. ASSUME NEW s \in Senders, WritePiece(s) PROVE IInv'
  <2>1. \A t \in Senders : semaphore'[t].state = semaphore[t].state
    BY <1>11, <1>0, EnterOrLeave, ValueChange DEF WritePiece, Typed, ipc, Processes
  <2>2. /\ mishap' # SignalledAtExit => mishap # SignalledAtExit
        /\ keyFile' = keyFile
        /\ \A t \in Senders :
             /\ segment'[t].state = segment[t].state
             /\ shared_memory_id'[t] = shared_memory_id[t]
             /\ semaphore_id'[t] = semaphore_id[t]
             /\ pc'[t] = pc[t] \/ (pc[t] \in Working /\ pc'[t] \in Working)
    BY <1>11, <1>0 DEF WritePiece, Typed, Working, Goto, ipc, ids, Processes
  <2>3. QED
    BY <1>0, <2>1, <2>2, QuietStep
<1>12. ASSUME NEW s \in Senders, SenderUnlock(s) PROVE IInv'
  <2>1. \A t \in Senders : semaphore'[t].state = semaphore[t].state
    BY <1>12, <1>0, EnterOrLeave, ValueChange DEF SenderUnlock, Typed, ipc, Processes
  <2>2. /\ mishap' # SignalledAtExit => mishap # SignalledAtExit
        /\ keyFile' = keyFile
        /\ \A t \in Senders :
             /\ segment'[t].state = segment[t].state
             /\ shared_memory_id'[t] = shared_memory_id[t]
             /\ semaphore_id'[t] = semaphore_id[t]
             /\ pc'[t] = pc[t] \/ (pc[t] \in Working /\ pc'[t] \in Working)
    BY <1>12, <1>0 DEF SenderUnlock, Typed, Working, Goto, ipc, ids, Processes
  <2>3. QED
    BY <1>0, <2>1, <2>2, QuietStep
<1>13. ASSUME NEW s \in Senders, RemoveSegment(s) PROVE IInv'
  BY <1>13, <1>0, ObjectTypes, ZenonT(60) DEF RemoveSegment, IInv, Typed, IdsAreOwn, Locked,
         StoredObjects, Orphaned, OwnsKeyFile, Alive, Goto, ipc, ids, Processes
<1>14. ASSUME NEW s \in Senders, RemoveSemaphore(s) PROVE IInv'
  BY <1>14, <1>0, SemaphoreRemoval, ZenonT(60) DEF RemoveSemaphore, IInv, Typed, IdsAreOwn, Locked,
         StoredObjects, Orphaned, OwnsKeyFile, Alive, Goto, ipc, ids, Processes
<1>15. ASSUME NEW s \in Senders, RemoveKeyFile(s) PROVE IInv'
  BY <1>15, <1>0, ZenonT(60) DEF RemoveKeyFile, IInv, Typed, IdsAreOwn, Locked,
         StoredObjects, Orphaned, OwnsKeyFile, Alive, Goto, ipc, ids, Processes
<1>16. ASSUME NEW s \in Senders, Signal(s) PROVE IInv'
  BY <1>16, <1>0, ZenonT(60) DEF Signal, IInv, Typed, IdsAreOwn, Locked,
         StoredObjects, Orphaned, OwnsKeyFile, Alive, Goto, ipc, ids, Processes
<1>17. ASSUME NEW s \in Senders, SignalAgain(s) PROVE IInv'
  <2>1. /\ UNCHANGED <<keyFile, segment, semaphore, shared_memory_id, semaphore_id>>
        /\ mishap # SignalledAtExit /\ pc'[s] = "rmid_shm"
        /\ \A t \in Senders \ {s} : pc'[t] = pc[t]
        /\ mishap' # SignalledAtExit => pc[s] \in {"rmid_shm", "rmid_sem", "remove"}
    BY <1>17, <1>0 DEF SignalAgain, Typed, Goto, ipc, ids, Processes
  <2>2. IdsAreOwn'
    BY <2>1 DEF IInv, IdsAreOwn
  <2>3. ASSUME mishap' # SignalledAtExit PROVE Locked' /\ StoredObjects'
    <3>1. \A t \in Senders : OwnsKeyFile(t)' <=> OwnsKeyFile(t)
      BY <2>1, <2>3 DEF OwnsKeyFile, Alive
    <3>2. Locked'
      BY <2>1, <3>1 DEF IInv, Locked
    <3>3. Orphaned => Orphaned'
      BY <2>1, <3>1 DEF Orphaned
    <3>4. StoredObjects'
      BY <2>1, <2>3, <3>3 DEF IInv, StoredObjects
    <3>5. QED
      BY <3>2, <3>4
  <2>4. QED
    BY <1>0, <2>2, <2>3 DEF IInv
<1>18. ASSUME NEW p \in Processes, Ftok(p) PROVE IInv'
  <2>1. /\ UNCHANGED <<keyFile, segment, semaphore, shared_memory_id, semaphore_id, mishap>>
        /\ pc[p] = "ftok" /\ \A q \in Processes \ {p} : pc'[q] = pc[q]
        /\ pc'[p] = IF keyFile = NoKey THEN "ended" ELSE "shmget"
    BY <1>18, <1>0 DEF Ftok, Typed, Goto, ipc
  <2>2. CASE p \in Senders
    <3>1. IdsAreOwn'
      BY <2>1, <2>2 DEF IInv, IdsAreOwn, Processes
    <3>2. ASSUME mishap # SignalledAtExit PROVE Locked' /\ StoredObjects'
      <4>1. keyFile # NoKey
        BY <2>1, <2>2, <3>2 DEF IInv, Locked, OwnsKeyFile, Alive
      <4>2. \A s \in Senders : OwnsKeyFile(s)' <=> OwnsKeyFile(s)
        BY <2>1, <2>2, <4>1 DEF OwnsKeyFile, Alive, Processes
      <4>3. Locked'
        BY <2>1, <3>2, <4>2 DEF IInv, Locked
      <4>4. StoredObjects'
        BY <2>1, <2>2, <3>2, <4>2 DEF IInv, StoredObjects, Orphaned, Processes
      <4>5. QED
        BY <4>3, <4>4
    <3>3. QED
      BY <1>0, <2>1, <3>1, <3>2 DEF IInv
  <2>3. CASE p \in Receivers
    <3>1. \A s \in Senders : pc'[s] = pc[s]
      BY <2>1, <2>3 DEF Processes
    <3>2. QED
      BY <1>0, <2>1, <3>1, QuietStep
  <2>4. QED
    BY <2>2, <2>3 DEF Processes
<1>19. ASSUME NEW p \in Processes, Wake(p) PROVE IInv'
  <2>1. \A t \in Senders : semaphore'[t].state = semaphore[t].state
    BY <1>19, <1>0, EnterOrLeave, ValueChange DEF Wake, Typed, ipc, Processes
  <2>2. /\ mishap' # SignalledAtExit => mishap # SignalledAtExit
        /\ keyFile' = keyFile
        /\ \A t \in Senders :
             /\ segment'[t].state = segment[t].state
             /\ shared_memory_id'[t] = shared_memory_id[t]
             /\ semaphore_id'[t] = semaphore_id[t]
             /\ pc'[t] = pc[t] \/ (pc[t] \in Working /\ pc'[t] \in Working)
    BY <1>19, <1>0 DEF Wake, Typed, Working, Goto, ipc, ids, Processes
  <2>3. QED
    BY <1>0, <2>1, <2>2, QuietStep
<1>20. ASSUME NEW p \in Processes, Resume(p) PROVE IInv'
  <2>1. \A t \in Senders : semaphore'[t].state = semaphore[t].state
    BY <1>20, <1>0, EnterOrLeave, ValueChange DEF Resume, Typed, ipc, Processes
  <2>2. /\ mishap' # SignalledAtExit => mishap # SignalledAtExit
        /\ keyFile' = keyFile
        /\ \A t \in Senders :
             /\ segment'[t].state = segment[t].state
             /\ shared_memory_id'[t] = shared_memory_id[t]
             /\ semaphore_id'[t] = semaphore_id[t]
             /\ pc'[t] = pc[t] \/ (pc[t] \in Working /\ pc'[t] \in Working)
    BY <1>20, <1>0 DEF Resume, Typed, Working, Goto, ipc, ids, Processes
  <2>3. QED
    BY <1>0, <2>1, <2>2, QuietStep
<1>21. ASSUME NEW p \in Processes, Killed(p) PROVE IInv'
  BY <1>21, <1>0, ZenonT(60) DEF Killed, IInv, Typed, IdsAreOwn, Locked,
         StoredObjects, Orphaned, OwnsKeyFile, Alive, Goto, ipc, ids, Processes
<1>22. ASSUME NEW r \in Receivers, FindSegment(r) PROVE IInv'
  <2>1. \A t \in Senders : semaphore'[t].state = semaphore[t].state
    BY <1>22, <1>0, EnterOrLeave, ValueChange DEF FindSegment, Typed, ipc, Processes
  <2>2. /\ mishap' # SignalledAtExit => mishap # SignalledAtExit
        /\ keyFile' = keyFile
        /\ \A t \in Senders :
             /\ segment'[t].state = segment[t].state
             /\ shared_memory_id'[t] = shared_memory_id[t]
             /\ semaphore_id'[t] = semaphore_id[t]
             /\ pc'[t] = pc[t] \/ (pc[t] \in Working /\ pc'[t] \in Working)
    BY <1>22, <1>0 DEF FindSegment, Typed, Working, Goto, ipc, ids, Processes
  <2>3. QED
    BY <1>0, <2>1, <2>2, QuietStep
<1>23. ASSUME NEW r \in Receivers, Attach(r) PROVE IInv'
  <2>1. \A t \in Senders : semaphore'[t].state = semaphore[t].state
    BY <1>23, <1>0, EnterOrLeave, ValueChange DEF Attach, Typed, ipc, Processes
  <2>2. /\ mishap' # SignalledAtExit => mishap # SignalledAtExit
        /\ keyFile' = keyFile
        /\ \A t \in Senders :
             /\ segment'[t].state = segment[t].state
             /\ shared_memory_id'[t] = shared_memory_id[t]
             /\ semaphore_id'[t] = semaphore_id[t]
             /\ pc'[t] = pc[t] \/ (pc[t] \in Working /\ pc'[t] \in Working)
    BY <1>23, <1>0 DEF Attach, Typed, Working, Goto, ipc, ids, Processes
  <2>3. QED
    BY <1>0, <2>1, <2>2, QuietStep
<1>24. ASSUME NEW r \in Receivers, FindSemaphore(r) PROVE IInv'
  <2>1. \A t \in Senders : semaphore'[t].state = semaphore[t].state
    BY <1>24, <1>0, EnterOrLeave, ValueChange DEF FindSemaphore, Typed, ipc, Processes
  <2>2. /\ mishap' # SignalledAtExit => mishap # SignalledAtExit
        /\ keyFile' = keyFile
        /\ \A t \in Senders :
             /\ segment'[t].state = segment[t].state
             /\ shared_memory_id'[t] = shared_memory_id[t]
             /\ semaphore_id'[t] = semaphore_id[t]
             /\ pc'[t] = pc[t] \/ (pc[t] \in Working /\ pc'[t] \in Working)
    BY <1>24, <1>0 DEF FindSemaphore, Typed, Working, Goto, ipc, ids, Processes
  <2>3. QED
    BY <1>0, <2>1, <2>2, QuietStep
<1>25. ASSUME NEW r \in Receivers, ReceiverLock(r) PROVE IInv'
  <2>1. \A t \in Senders : semaphore'[t].state = semaphore[t].state
    BY <1>25, <1>0, EnterOrLeave, ValueChange DEF ReceiverLock, Typed, ipc, Processes
  <2>2. /\ mishap' # SignalledAtExit => mishap # SignalledAtExit
        /\ keyFile' = keyFile
        /\ \A t \in Senders :
             /\ segment'[t].state = segment[t].state
             /\ shared_memory_id'[t] = shared_memory_id[t]
             /\ semaphore_id'[t] = semaphore_id[t]
             /\ pc'[t] = pc[t] \/ (pc[t] \in Working /\ pc'[t] \in Working)
    BY <1>25, <1>0 DEF ReceiverLock, Typed, Working, Goto, ipc, ids, Processes
  <2>3. QED
    BY <1>0, <2>1, <2>2, QuietStep
<1>26. ASSUME NEW r \in Receivers, ReadPiece(r) PROVE IInv'
  <2>1. \A t \in Senders : semaphore'[t].state = semaphore[t].state
    BY <1>26, <1>0, EnterOrLeave, ValueChange DEF ReadPiece, Typed, ipc, Processes
  <2>2. /\ mishap' # SignalledAtExit => mishap # SignalledAtExit
        /\ keyFile' = keyFile
        /\ \A t \in Senders :
             /\ segment'[t].state = segment[t].state
             /\ shared_memory_id'[t] = shared_memory_id[t]
             /\ semaphore_id'[t] = semaphore_id[t]
             /\ pc'[t] = pc[t] \/ (pc[t] \in Working /\ pc'[t] \in Working)
    BY <1>26, <1>0 DEF ReadPiece, Typed, Working, Goto, ipc, ids, Processes
  <2>3. QED
    BY <1>0, <2>1, <2>2, QuietStep
<1>27. ASSUME NEW r \in Receivers, ReceiverUnlock(r) PROVE IInv'
  <2>1. \A t \in Senders : semaphore'[t].state = semaphore[t].state
    BY <1>27, <1>0, EnterOrLeave, ValueChange DEF ReceiverUnlock, Typed, ipc, Processes
  <2>2. /\ mishap' # SignalledAtExit => mishap # SignalledAtExit
        /\ keyFile' = keyFile
        /\ \A t \in Senders :
             /\ segment'[t].state = segment[t].state
             /\ shared_memory_id'[t] = shared_memory_id[t]
             /\ semaphore_id'[t] = semaphore_id[t]
             /\ pc'[t] = pc[t] \/ (pc[t] \in Working /\ pc'[t] \in Working)
    BY <1>27, <1>0 DEF ReceiverUnlock, Typed, Working, Goto, ipc, ids, Processes
  <2>3. QED
    BY <1>0, <2>1, <2>2, QuietStep
<1>28. CASE UNCHANGED vars
  BY <1>28 DEF vars, IInv, Typed, IdsAreOwn, Locked, StoredObjects,
         Orphaned, OwnsKeyFile, Alive, ipc, ids
<1>29. QED
  BY <1>1, <1>2, <1>3, <1>4, <1>5, <1>6, <1>7, <1>8, <1>9, <1>10, <1>11, <1>12, <1>13,
     <1>14, <1>15, <1>16, <1>17, <1>18, <1>19, <1>20, <1>21, <1>22, <1>23, <1>24, <1>25,
     <1>26, <1>27, <1>28
     DEF Next, SenderStep, ReceiverStep, AllEnded, Processes

-----------------------------------------------------------------------------
(* There is never more than one sender between the creation and the        *)
(* removal of the key file, unless one was signalled again after it had    *)
(* removed it (send.c:30, 47, 52-57).                                      *)
THEOREM KeyFileIsALock == Spec => []OneSender
<1>1. Init => IInv
  BY InitIInv
<1>2. IInv /\ [Next]_vars => IInv'
  BY NextIInv
<1>3. IInv => OneSender
  <2> DEFINE Owners == {s \in Senders : OwnsKeyFile(s)}
  <2>1. SUFFICES ASSUME IInv, mishap # SignalledAtExit
                 PROVE  Cardinality(Owners) <= 1
    BY DEF OneSender
  <2>2. Owners = {} \/ \E s \in Senders : Owners = {s}
    <3>1. \A s, t \in Owners : s = t
      BY <2>1 DEF IInv, Locked
    <3>2. QED
      BY <3>1
  <2> HIDE DEF Owners
  <2>3. Cardinality(Owners) = 0 \/ Cardinality(Owners) = 1
    BY ONLY <2>2, FS_EmptySet, FS_Singleton
  <2>4. QED
    BY <2>3 DEF Owners
<1>4. QED
  BY <1>1, <1>2, <1>3, PTL DEF Spec

(* Only objects whose id was lost to a signal get in the way of a later    *)
(* sender, with the same exception (send.c:39-47, 69-82).                  *)
THEOREM StoredIdsAreEnough == Spec => []LeftoversHaveLostIds
<1>1. Init => IInv
  BY InitIInv
<1>2. IInv /\ [Next]_vars => IInv'
  BY NextIInv
<1>3. IInv => LeftoversHaveLostIds
  BY DEF IInv, IdsAreOwn, Locked, StoredObjects, Orphaned, OwnsKeyFile, Alive,
         LeftoversHaveLostIds, Found
<1>4. QED
  BY <1>1, <1>2, <1>3, PTL DEF Spec

-----------------------------------------------------------------------------
(* Who is between its two calls of semop, as far as the semaphore of s is  *)
(* concerned.                                                              *)
Inside(s) == {p \in Processes : pc[p] \in {"copy", "unlock"} /\ semaphore_id[p] = s}

(* Before its sender has set it a semaphore lets nobody in, from then on   *)
(* one process - and one more once a process was stopped in front of it.   *)
Unset == {"open", "signal", "ftok", "shmget", "shmat", "semget", "store_semid", "setval"}
Limit(s) == (IF pc[s] \in Unset THEN 0 ELSE 1) + (IF mishap = s THEN 1 ELSE 0)

Seat(s) ==
  /\ IsFiniteSet(Inside(s))
  /\ semaphore[s].state = "present" =>
       semaphore[s].value + Cardinality(Inside(s)) <= Limit(s)
  /\ semaphore[s].state # "present" => semaphore[s].value = 0
  /\ semaphore[s].value >= 0

Seats == \A s \in Senders : Seat(s)

HasSegment == {"semget", "store_semid", "setval", "lock", "copy", "unlock", "sleep"}
HasSemaphore == {"setval", "lock", "copy", "unlock", "sleep"}

(* What a sender has made, whether it knows of it, and under which key.    *)
OwnIds(s) ==
  /\ shared_memory_id[s] = NoId \/ (shared_memory_id[s] = s /\ segment[s].state # "absent")
  /\ semaphore_id[s] = NoId \/ (semaphore_id[s] = s /\ semaphore[s].state # "absent")
  /\ pc[s] = "shmat" => segment[s].state = "present"
  /\ pc[s] \in HasSegment => shared_memory_id[s] = s /\ segment[s].state = "present"
  /\ pc[s] \in HasSemaphore => semaphore_id[s] = s
  /\ pc[s] \in HasSemaphore \cup {"store_semid"} => semaphore[s].state = "present"
  /\ pc[s] \in Unset \ {"setval"} => semaphore_id[s] = NoId
  /\ pc[s] \in Unset \ {"store_semid", "setval"} => semaphore[s].state = "absent"
  /\ pc[s] \in {"open", "signal", "ftok", "shmget"} => segment[s].state = "absent"
  /\ pc[s] \in {"rmid_sem", "remove", "exit"} /\ shared_memory_id[s] = s =>
       segment[s].state = "removed"
  /\ semaphore[s].state # "absent" => shared_memory_id[s] = s
  /\ semaphore[s].state = "removed" => segment[s].state = "removed"
  /\ segment[s].state # "absent" => segment[s].key = ipc_key[s]
  /\ semaphore[s].state # "absent" => semaphore[s].key = ipc_key[s]

SenderIds == \A s \in Senders : OwnIds(s)

(* A receiver has the segment and the semaphore of one key, and these need *)
(* not be the same sender's.                                               *)
FoundIds(r) ==
  /\ pc[r] \in HasSegment \cup {"shmat"} =>
       /\ shared_memory_id[r] \in Senders
       /\ segment[shared_memory_id[r]].state # "absent"
       /\ ipc_key[r] = ipc_key[shared_memory_id[r]]
  /\ pc[r] \in HasSemaphore =>
       /\ semaphore_id[r] \in Senders
       /\ semaphore[semaphore_id[r]].state # "absent"
       /\ ipc_key[r] = ipc_key[semaphore_id[r]]
  /\ pc[r] \in {"ftok", "shmget", "shmat", "semget", "lock", "copy", "unlock", "sleep", "ended"}

ReceiverIds == \A r \in Receivers : FoundIds(r)

(* IPC_EXCL.                                                               *)
OnePerKey ==
  \A s, t \in Senders : ipc_key[s] = ipc_key[t] =>
    /\ segment[s].state = "present" /\ segment[t].state = "present" => s = t
    /\ semaphore[s].state = "present" /\ semaphore[t].state = "present" => s = t

(* Nobody sees a message that is not whole: its sender is still inside, or *)
(* has gone and let nobody in.                                             *)
Up(s) == segment[s].state = "present" /\ semaphore[s].state = "present"
HalfWritten(s) ==
  /\ \A k \in 1..Pieces : k < at[s] => memory[s][k] = message_counter[s]
  /\ \A k, l \in 1..Pieces : k >= at[s] /\ l >= at[s] => memory[s][k] = memory[s][l]
GivenUp(s) ==
  pc[s] \in {"rmid_shm", "ended"} /\ semaphore[s].value = 0 /\ Inside(s) = {}

Message(s) ==
  /\ semaphore[s].state = "absent" => memory[s] = NoMessage
  /\ pc[s] # "copy" => at[s] = 1
  /\ mishap # s /\ Up(s) =>
       IF pc[s] = "copy" THEN HalfWritten(s) ELSE IsWhole(memory[s]) \/ GivenUp(s)

Messages == \A s \in Senders : Message(s)

(* A receiver has copied what the memory still holds.                      *)
Listening(r) ==
  /\ pc[r] \in {"copy", "unlock"}
  /\ ~Removed(segment[shared_memory_id[r]])
  /\ ~Removed(semaphore[semaphore_id[r]])

CopyOf(r) ==
  /\ pc[r] \notin {"copy", "unlock"} => copy[r] = <<>>
  /\ pc[r] = "copy" => Len(copy[r]) < Pieces
  /\ pc[r] = "unlock" => Len(copy[r]) = Pieces
  /\ mishap # semaphore_id[r] /\ Listening(r) =>
       \A k \in 1..Len(copy[r]) : copy[r][k] = memory[shared_memory_id[r]][k]

Copies == \A r \in Receivers : CopyOf(r)

LocalTypes ==
  /\ shared_memory_id \in [Processes -> Senders \cup {NoId}]
  /\ semaphore_id \in [Processes -> Senders \cup {NoId}]
  /\ memory \in [Senders -> [1..Pieces -> 0..Numbers]]
  /\ at \in [Senders -> 1..Pieces]
  /\ message_counter \in [Senders -> 0..Numbers]
  /\ copy \in [Receivers -> Seq(0..Numbers)]
  /\ holds \subseteq Processes
  /\ mishap \in Senders \cup {NoMishap, SignalledTwice, SignalledAtExit}

MessageInv ==
  /\ Typed /\ LocalTypes /\ SenderIds /\ ReceiverIds /\ OnePerKey
  /\ Seats /\ Messages /\ Copies

(* What the two calls of semop do to each semaphore.                       *)
LEMMA EnterEffect ==
  ASSUME Typed, NEW p \in Processes, Enter(p), NEW t \in Senders
  PROVE  /\ semaphore'[t].state = semaphore[t].state
         /\ semaphore'[t].key = semaphore[t].key
         /\ t # semaphore_id[p] \/ semaphore[t].state = "removed" =>
              semaphore'[t].value = semaphore[t].value
         /\ t = semaphore_id[p] /\ semaphore[t].state # "removed" =>
              semaphore[t].value > 0 /\ semaphore'[t].value = semaphore[t].value - 1
<1> DEFINE id == semaphore_id[p]
           v == semaphore[id].value
<1>1. semaphore \in [Senders -> Semaphores] /\ (id \in Senders => v - 1 \in Int)
  BY ValueIsInt DEF Typed
<1>2. CASE semaphore[id].state = "removed" /\ semaphore' = semaphore
  BY <1>2
<1>3. CASE v > 0 /\ semaphore[id].state # "removed" /\ semaphore' = [semaphore EXCEPT ![id].value = v - 1]
  <2> HIDE DEF v, id
  <2>1. /\ semaphore'[t].state = semaphore[t].state
        /\ semaphore'[t].key = semaphore[t].key
        /\ semaphore'[t].value = IF t = id THEN v - 1 ELSE semaphore[t].value
    BY <1>1, <1>3, ValueChange
  <2>2. QED
    BY <2>1, <1>3 DEF id, v
<1>4. QED
  BY <1>2, <1>3 DEF Enter, Removed

LEMMA LeaveEffect ==
  ASSUME Typed, NEW p \in Processes, Leave(p), NEW t \in Senders
  PROVE  /\ semaphore'[t].state = semaphore[t].state
         /\ semaphore'[t].key = semaphore[t].key
         /\ t # semaphore_id[p] \/ semaphore[t].state = "removed" =>
              semaphore'[t].value = semaphore[t].value
         /\ t = semaphore_id[p] /\ semaphore[t].state # "removed" =>
              semaphore'[t].value = semaphore[t].value + 1
<1> DEFINE id == semaphore_id[p]
           v == semaphore[id].value
<1>1. semaphore \in [Senders -> Semaphores] /\ (id \in Senders => v + 1 \in Int)
  BY ValueIsInt DEF Typed
<1>2. CASE semaphore[id].state = "removed" /\ semaphore' = semaphore
  BY <1>2
<1>3. CASE semaphore[id].state # "removed" /\ semaphore' = [semaphore EXCEPT ![id].value = v + 1]
  <2> HIDE DEF v, id
  <2>1. /\ semaphore'[t].state = semaphore[t].state
        /\ semaphore'[t].key = semaphore[t].key
        /\ semaphore'[t].value = IF t = id THEN v + 1 ELSE semaphore[t].value
    BY <1>1, <1>3, ValueChange
  <2>2. QED
    BY <2>1, <1>3 DEF id, v
<1>4. QED
  BY <1>2, <1>3 DEF Leave, Removed

(* IPC_RMID marks a segment, and leaves its key.                           *)
LEMMA SegmentRemoval ==
  ASSUME Typed, NEW s \in Senders, RemoveSegment(s), NEW t \in Senders
  PROVE  /\ segment'[t].key = segment[t].key
         /\ t # shared_memory_id[s] => segment'[t] = segment[t]
         /\ t = shared_memory_id[s] => segment'[t].state = "removed"
<1> DEFINE id == shared_memory_id[s]
<1>1. segment \in [Senders -> Segments] /\ NoId \notin Senders
  BY DEF Typed
<1>2. ASSUME NEW o \in Segments
      PROVE  [o EXCEPT !.state = "removed"].key = o.key
  BY DEF Segments
<1>3. segment' = IF id = NoId THEN segment
                 ELSE [segment EXCEPT ![id] = [segment[id] EXCEPT !.state = "removed"]]
  BY DEF RemoveSegment
<1> HIDE DEF id
<1>4. CASE id = NoId
  BY <1>1, <1>3, <1>4 DEF id
<1>5. CASE id # NoId /\ t = id
  <2>1. segment'[t] = [segment[t] EXCEPT !.state = "removed"]
    BY <1>1, <1>3, <1>5
  <2>2. QED
    BY <2>1, <1>1, <1>2, <1>5, ObjectTypes DEF id
<1>6. CASE id # NoId /\ t # id
  BY <1>1, <1>3, <1>6 DEF id
<1>7. QED
  BY <1>4, <1>5, <1>6

(* The steps that make, remove or name objects; all others leave the state *)
(* and the key of every object, and the key every process has.             *)
ObjectsKept ==
  /\ ipc_key' = ipc_key
  /\ \A t \in Senders : /\ segment'[t].state = segment[t].state
                        /\ segment'[t].key = segment[t].key
                        /\ semaphore'[t].state = semaphore[t].state
                        /\ semaphore'[t].key = semaphore[t].key

LEMMA Frame ==
  ASSUME Typed, [Next]_vars
  PROVE  \/ ObjectsKept
         \/ \E p \in Processes : Ftok(p)
         \/ \E s \in Senders : \/ CreateSegment(s) \/ CreateSemaphore(s)
                               \/ RemoveSegment(s) \/ RemoveSemaphore(s)
<1>1. ASSUME NEW s \in Senders, SenderLock(s) \/ SenderUnlock(s)
      PROVE  ObjectsKept
  BY <1>1, EnterEffect, LeaveEffect DEF SenderLock, SenderUnlock, ObjectsKept, ids, Processes
<1>2. ASSUME NEW r \in Receivers, ReceiverLock(r) \/ ReceiverUnlock(r)
      PROVE  ObjectsKept
  BY <1>2, EnterEffect, LeaveEffect DEF ReceiverLock, ReceiverUnlock, ObjectsKept, ids, Processes
<1>3. ASSUME NEW s \in Senders, SetVal(s)
      PROVE  ObjectsKept
  <2>1. semaphore' = [semaphore EXCEPT ![s].value = 1] /\ semaphore \in [Senders -> Semaphores]
    BY <1>3 DEF SetVal, Typed
  <2>2. \A t \in Senders : /\ semaphore'[t].state = semaphore[t].state
                           /\ semaphore'[t].key = semaphore[t].key
    BY <2>1, ValueChange
  <2>3. QED
    BY <1>3, <2>2 DEF SetVal, ObjectsKept, ids
<1>4. ASSUME NEW s \in Senders,
             \/ CreateKeyFile(s) \/ Refused(s) \/ InstallHandlers(s) \/ StoreSegmentId(s)
             \/ StoreSemaphoreId(s) \/ AlreadyExists(s) \/ WritePiece(s)
             \/ RemoveKeyFile(s) \/ Signal(s) \/ SignalAgain(s)
      PROVE  ObjectsKept
  BY <1>4 DEF CreateKeyFile, Refused, InstallHandlers, StoreSegmentId, StoreSemaphoreId,
              AlreadyExists, WritePiece, RemoveKeyFile, Signal, SignalAgain, ObjectsKept, ipc, ids
<1>5. ASSUME NEW p, \/ FindSegment(p) \/ Attach(p) \/ FindSemaphore(p) \/ ReadPiece(p)
                    \/ Wake(p) \/ Resume(p) \/ Killed(p) \/ UNCHANGED vars
      PROVE  ObjectsKept
  BY <1>5 DEF FindSegment, Attach, FindSemaphore, ReadPiece, Wake, Resume, Killed, vars,
              ObjectsKept, ipc, ids
<1>6. QED
  BY <1>1, <1>2, <1>3, <1>4, <1>5 DEF Next, SenderStep, ReceiverStep, AllEnded, Processes

LEMMA NextOnePerKey ==
  ASSUME Typed, Typed', SenderIds, OnePerKey, [Next]_vars
  PROVE  OnePerKey'
<1>1. CASE ObjectsKept
  BY <1>1 DEF ObjectsKept, OnePerKey
<1>2. ASSUME NEW p \in Processes, Ftok(p) PROVE OnePerKey'
  <2>1. /\ segment' = segment /\ semaphore' = semaphore
        /\ \A t \in Senders \ {p} : ipc_key'[t] = ipc_key[t]
        /\ pc[p] = "ftok"
    BY <1>2 DEF Ftok, ipc, Typed, Processes
  <2>2. p \in Senders => segment[p].state = "absent" /\ semaphore[p].state = "absent"
    BY <2>1 DEF SenderIds, OwnIds, Unset
  <2>3. QED
    BY <2>1, <2>2 DEF OnePerKey
<1>3. ASSUME NEW s \in Senders, CreateSegment(s) PROVE OnePerKey'
  <2>1. /\ ipc_key' = ipc_key /\ semaphore' = semaphore
        /\ \A t \in Senders : t # s => segment'[t] = segment[t]
        /\ \A t \in Senders : segment[t].state = "present" => segment[t].key # ipc_key[s]
    BY <1>3 DEF CreateSegment, ids, Typed, Found
  <2>2. \A t \in Senders : segment[t].state = "present" => ipc_key[t] # ipc_key[s]
    BY <2>1 DEF SenderIds, OwnIds
  <2>3. QED
    BY <2>1, <2>2 DEF OnePerKey
<1>4. ASSUME NEW s \in Senders, CreateSemaphore(s) PROVE OnePerKey'
  <2>1. /\ ipc_key' = ipc_key /\ segment' = segment
        /\ \A t \in Senders : t # s => semaphore'[t] = semaphore[t]
        /\ \A t \in Senders : semaphore[t].state = "present" => semaphore[t].key # ipc_key[s]
    BY <1>4 DEF CreateSemaphore, ids, Typed, Found
  <2>2. \A t \in Senders : semaphore[t].state = "present" => ipc_key[t] # ipc_key[s]
    BY <2>1 DEF SenderIds, OwnIds
  <2>3. QED
    BY <2>1, <2>2 DEF OnePerKey
<1>5. ASSUME NEW s \in Senders, RemoveSegment(s) PROVE OnePerKey'
  <2>1. ipc_key' = ipc_key /\ semaphore' = semaphore
    BY <1>5 DEF RemoveSegment, ids
  <2>2. \A t \in Senders : segment'[t].state = "present" => segment[t].state = "present"
    BY <1>5, SegmentRemoval
  <2>3. QED
    BY <2>1, <2>2 DEF OnePerKey
<1>6. ASSUME NEW s \in Senders, RemoveSemaphore(s) PROVE OnePerKey'
  <2>1. ipc_key' = ipc_key /\ segment' = segment
    BY <1>6 DEF RemoveSemaphore, ids
  <2>2. \A t \in Senders : semaphore'[t].state = "present" => semaphore[t].state = "present"
    BY <1>6, SemaphoreRemoval DEF RemoveSemaphore, Typed
  <2>3. QED
    BY <2>1, <2>2 DEF OnePerKey
<1>7. QED
  BY <1>1, <1>2, <1>3, <1>4, <1>5, <1>6, Frame

(* What leaves a sender's label, ids and objects alone leaves this part.    *)
Same(t) ==
  /\ pc'[t] = pc[t] /\ ipc_key'[t] = ipc_key[t]
  /\ shared_memory_id'[t] = shared_memory_id[t] /\ semaphore_id'[t] = semaphore_id[t]
  /\ segment'[t].state = segment[t].state /\ segment'[t].key = segment[t].key
  /\ semaphore'[t].state = semaphore[t].state /\ semaphore'[t].key = semaphore[t].key

LEMMA SameOwnIds ==
  ASSUME NEW t \in Senders, OwnIds(t), Same(t)
  PROVE  OwnIds(t)'
BY DEF OwnIds, Same

LEMMA NextSenderIds ==
  ASSUME Typed, Typed', SenderIds, [Next]_vars
  PROVE  SenderIds'
<1> SUFFICES ASSUME NEW t \in Senders, OwnIds(t), ~Same(t)
             PROVE  OwnIds(t)'
  BY SameOwnIds DEF SenderIds
<1> USE DEF Goto, Processes
<1>1. ASSUME NEW s \in Senders, CreateKeyFile(s) PROVE OwnIds(t)'
  <2>1. t = s
    BY <1>1 DEF CreateKeyFile, Same, ipc, ids, Typed
  <2>2. QED
    BY <1>1, <2>1 DEF CreateKeyFile, OwnIds, HasSegment, HasSemaphore, Unset, ipc, ids, Typed
<1>2. ASSUME NEW s \in Senders, Refused(s) PROVE OwnIds(t)'
  <2>1. t = s
    BY <1>2 DEF Refused, Same, ipc, ids, Typed
  <2>2. QED
    BY <1>2, <2>1 DEF Refused, OwnIds, HasSegment, HasSemaphore, Unset, ipc, ids, Typed
<1>3. ASSUME NEW s \in Senders, InstallHandlers(s) PROVE OwnIds(t)'
  <2>1. t = s
    BY <1>3 DEF InstallHandlers, Same, ipc, ids, Typed
  <2>2. QED
    BY <1>3, <2>1 DEF InstallHandlers, OwnIds, HasSegment, HasSemaphore, Unset, ipc, ids, Typed
<1>4. ASSUME NEW s \in Senders, AlreadyExists(s) PROVE OwnIds(t)'
  <2>1. t = s
    BY <1>4 DEF AlreadyExists, Same, ipc, ids, Typed
  <2>2. QED
    BY <1>4, <2>1 DEF AlreadyExists, OwnIds, HasSegment, HasSemaphore, Unset, ipc, ids, Typed
<1>5. ASSUME NEW s \in Senders, WritePiece(s) PROVE OwnIds(t)'
  <2>1. t = s
    BY <1>5 DEF WritePiece, Same, ipc, ids, Typed
  <2>2. QED
    BY <1>5, <2>1 DEF WritePiece, OwnIds, HasSegment, HasSemaphore, Unset, ipc, ids, Typed
<1>6. ASSUME NEW s \in Senders, RemoveKeyFile(s) PROVE OwnIds(t)'
  <2>1. t = s
    BY <1>6 DEF RemoveKeyFile, Same, ipc, ids, Typed
  <2>2. QED
    BY <1>6, <2>1 DEF RemoveKeyFile, OwnIds, HasSegment, HasSemaphore, Unset, ipc, ids, Typed
<1>7. ASSUME NEW s \in Senders, Signal(s) PROVE OwnIds(t)'
  <2>1. t = s
    BY <1>7 DEF Signal, Same, ipc, ids, Typed
  <2>2. QED
    BY <1>7, <2>1 DEF Signal, OwnIds, HasSegment, HasSemaphore, Unset, ipc, ids, Typed
<1>8. ASSUME NEW s \in Senders, SignalAgain(s) PROVE OwnIds(t)'
  <2>1. t = s
    BY <1>8 DEF SignalAgain, Same, ipc, ids, Typed
  <2>2. QED
    BY <1>8, <2>1 DEF SignalAgain, OwnIds, HasSegment, HasSemaphore, Unset, ipc, ids, Typed
<1>9. ASSUME NEW s \in Senders, StoreSegmentId(s) PROVE OwnIds(t)'
  <2>1. t = s
    BY <1>9 DEF StoreSegmentId, Same, ipc, ids, Typed
  <2>2. QED
    BY <1>9, <2>1 DEF StoreSegmentId, OwnIds, HasSegment, HasSemaphore, Unset, ipc, ids, Typed
<1>10. ASSUME NEW s \in Senders, StoreSemaphoreId(s) PROVE OwnIds(t)'
  <2>1. t = s
    BY <1>10 DEF StoreSemaphoreId, Same, ipc, ids, Typed
  <2>2. QED
    BY <1>10, <2>1 DEF StoreSemaphoreId, OwnIds, HasSegment, HasSemaphore, Unset, ipc, ids, Typed
<1>11. ASSUME NEW s \in Senders, CreateSegment(s) PROVE OwnIds(t)'
  <2>1. t = s
    BY <1>11 DEF CreateSegment, Same, ipc, ids, Typed
  <2>2. QED
    BY <1>11, <2>1 DEF CreateSegment, OwnIds, HasSegment, HasSemaphore, Unset, ipc, ids, Typed
<1>12. ASSUME NEW s \in Senders, CreateSemaphore(s) PROVE OwnIds(t)'
  <2>1. t = s
    BY <1>12 DEF CreateSemaphore, Same, ipc, ids, Typed
  <2>2. QED
    BY <1>12, <2>1 DEF CreateSemaphore, OwnIds, HasSegment, HasSemaphore, Unset, ipc, ids, Typed
<1>13. ASSUME NEW s \in Senders, SetVal(s) PROVE OwnIds(t)'
  <2>1. /\ semaphore'[t].state = semaphore[t].state
        /\ semaphore'[t].key = semaphore[t].key
    BY <1>13, ValueChange DEF SetVal, Typed
  <2>2. /\ segment' = segment /\ ids' = ids
        /\ pc[s] = "setval" /\ pc' = [pc EXCEPT ![s] = "lock"] /\ DOMAIN pc = Processes
    BY <1>13 DEF SetVal, Typed
  <2>3. QED
    BY <2>1, <2>2 DEF OwnIds, HasSegment, HasSemaphore, Unset, ids
<1>14. ASSUME NEW s \in Senders, SenderLock(s) \/ SenderUnlock(s) PROVE OwnIds(t)'
  <2>1. /\ semaphore'[t].state = semaphore[t].state
        /\ semaphore'[t].key = semaphore[t].key
    BY <1>14, EnterEffect, LeaveEffect DEF SenderLock, SenderUnlock
  <2>2. /\ segment' = segment /\ ids' = ids /\ DOMAIN pc = Processes
        /\ pc[s] \in {"lock", "unlock"}
        /\ \E l \in {"copy", "sleep"} : pc' = [pc EXCEPT ![s] = l]
    BY <1>14 DEF SenderLock, SenderUnlock, Typed
  <2>3. QED
    BY <2>1, <2>2 DEF OwnIds, HasSegment, HasSemaphore, Unset, ids
<1>15. ASSUME NEW s \in Senders, RemoveSegment(s) PROVE OwnIds(t)'
  <2>1. /\ semaphore' = semaphore /\ ids' = ids /\ DOMAIN pc = Processes
        /\ pc[s] = "rmid_shm" /\ pc' = [pc EXCEPT ![s] = "rmid_sem"]
    BY <1>15 DEF RemoveSegment, Typed
  <2>2. /\ segment'[t].key = segment[t].key
        /\ \/ segment'[t] = segment[t] /\ (t = s => shared_memory_id[s] # s)
           \/ segment'[t].state = "removed" /\ t = s /\ shared_memory_id[s] = s
    BY <1>15, SegmentRemoval DEF SenderIds, OwnIds
  <2>3. t = s
    BY <2>1, <2>2 DEF Same, ids
  <2>4. QED
    BY <2>1, <2>2, <2>3 DEF OwnIds, HasSegment, HasSemaphore, Unset, ids
<1>16. ASSUME NEW s \in Senders, RemoveSemaphore(s) PROVE OwnIds(t)'
  <2>1. /\ segment' = segment /\ ids' = ids /\ DOMAIN pc = Processes
        /\ pc[s] = "rmid_sem" /\ pc' = [pc EXCEPT ![s] = "remove"]
    BY <1>16 DEF RemoveSemaphore, Typed
  <2>2. \/ semaphore'[t] = semaphore[t]
        \/ /\ t = s /\ semaphore_id[s] = s
           /\ semaphore'[t].state = "removed"
           /\ semaphore'[t].key = semaphore[t].key
    BY <1>16, SemaphoreRemoval DEF SenderIds, OwnIds, RemoveSemaphore, Typed
  <2>3. t = s
    BY <2>1, <2>2 DEF Same, ids
  <2>4. shared_memory_id[s] = s /\ semaphore_id[s] = s => segment[s].state = "removed"
    BY <2>1, <2>3 DEF OwnIds
  <2>5. QED
    BY <2>1, <2>2, <2>3, <2>4 DEF OwnIds, HasSegment, HasSemaphore, Unset, ids
<1>17. ASSUME NEW p \in Processes, Ftok(p) PROVE OwnIds(t)'
  <2>1. t = p
    BY <1>17 DEF Ftok, Same, ipc, Typed
  <2>2. QED
    BY <1>17, <2>1 DEF Ftok, OwnIds, HasSegment, HasSemaphore, Unset, ipc, Typed
<1>18. ASSUME NEW p \in Processes, Wake(p) \/ Resume(p) \/ Killed(p) PROVE OwnIds(t)'
  <2>1. t = p
    BY <1>18 DEF Wake, Resume, Killed, Same, ipc, ids, Typed
  <2>2. QED
    BY <1>18, <2>1 DEF Wake, Resume, Killed, OwnIds, HasSegment, HasSemaphore, Unset, ipc, ids, Typed
<1>19. ASSUME NEW r \in Receivers, FindSegment(r) \/ Attach(r) \/ FindSemaphore(r) \/ ReadPiece(r)
       PROVE  OwnIds(t)'
  <2>1. Same(t)
    BY <1>19 DEF FindSegment, Attach, FindSemaphore, ReadPiece, Same, ipc, ids, Typed
  <2>2. QED
    BY <2>1
<1>20. ASSUME NEW r \in Receivers, ReceiverLock(r) \/ ReceiverUnlock(r)
       PROVE  OwnIds(t)'
  <2>1. Same(t)
    BY <1>20, EnterEffect, LeaveEffect DEF ReceiverLock, ReceiverUnlock, Same, ids, Typed
  <2>2. QED
    BY <2>1
<1>21. CASE UNCHANGED vars
  BY <1>21 DEF vars, ipc, ids, Same
<1>22. QED
  BY <1>1, <1>2, <1>3, <1>4, <1>5, <1>6, <1>7, <1>8, <1>9, <1>10, <1>11, <1>12, <1>13, <1>14, <1>15, <1>16, <1>17, <1>18, <1>19, <1>20, <1>21
     DEF Next, SenderStep, ReceiverStep, AllEnded

(* An object that exists once is there for good, if only as a removed one, *)
(* and its maker has its key for good.                                     *)
LEMMA ObjectsStay ==
  ASSUME Typed, SenderIds, [Next]_vars, NEW t \in Senders
  PROVE  /\ segment[t].state # "absent" =>
              segment'[t].state # "absent" /\ ipc_key'[t] = ipc_key[t]
         /\ semaphore[t].state # "absent" =>
              semaphore'[t].state # "absent" /\ ipc_key'[t] = ipc_key[t]
<1>1. CASE ObjectsKept
  BY <1>1 DEF ObjectsKept
<1>2. ASSUME NEW p \in Processes, Ftok(p)
      PROVE  segment' = segment /\ semaphore' = semaphore
             /\ (segment[t].state # "absent" \/ semaphore[t].state # "absent" => ipc_key'[t] = ipc_key[t])
  BY <1>2 DEF Ftok, ipc, Typed, SenderIds, OwnIds, Unset, Processes
<1>3. ASSUME NEW s \in Senders, CreateSegment(s)
      PROVE  ipc_key' = ipc_key /\ semaphore' = semaphore /\ (segment'[t] = segment[t] \/ segment'[t].state = "present")
  BY <1>3 DEF CreateSegment, ids, Typed
<1>4. ASSUME NEW s \in Senders, CreateSemaphore(s)
      PROVE  ipc_key' = ipc_key /\ segment' = segment /\ (semaphore'[t] = semaphore[t] \/ semaphore'[t].state = "present")
  BY <1>4 DEF CreateSemaphore, ids, Typed
<1>5. ASSUME NEW s \in Senders, RemoveSegment(s)
      PROVE  ipc_key' = ipc_key /\ semaphore' = semaphore /\ (segment'[t] = segment[t] \/ segment'[t].state = "removed")
  <2>1. segment'[t] = segment[t] \/ segment'[t].state = "removed"
    BY <1>5, SegmentRemoval
  <2>2. QED
    BY <1>5, <2>1 DEF RemoveSegment, ids
<1>6. ASSUME NEW s \in Senders, RemoveSemaphore(s)
      PROVE  ipc_key' = ipc_key /\ segment' = segment /\ (semaphore'[t] = semaphore[t] \/ semaphore'[t].state = "removed")
  <2>1. semaphore'[t] = semaphore[t] \/ semaphore'[t].state = "removed"
    BY <1>6, SemaphoreRemoval DEF RemoveSemaphore, Typed
  <2>2. QED
    BY <1>6, <2>1 DEF RemoveSemaphore, ids
<1>7. QED
  BY <1>1, <1>2, <1>3, <1>4, <1>5, <1>6, Frame

LEMMA NextReceiverIds ==
  ASSUME Typed, Typed', LocalTypes, SenderIds, ReceiverIds, [Next]_vars
  PROVE  ReceiverIds'
<1> SUFFICES ASSUME NEW r \in Receivers, FoundIds(r)
             PROVE  FoundIds(r)'
  BY DEF ReceiverIds
<1> DEFINE Still == /\ shared_memory_id'[r] = shared_memory_id[r] /\ semaphore_id'[r] = semaphore_id[r]
                    /\ ipc_key'[r] = ipc_key[r]
<1>1. ASSUME Still, \/ pc'[r] = pc[r]
                    \/ pc'[r] = "ended"
                    \/ pc[r] = "shmat" /\ pc'[r] = "semget"
                    \/ pc[r] \in HasSemaphore /\ pc'[r] \in {"lock", "copy", "unlock", "sleep"}
      PROVE  FoundIds(r)'
  BY <1>1, ObjectsStay DEF FoundIds, HasSegment, HasSemaphore
<1> USE DEF Goto, Processes
<1>2. ASSUME NEW s \in Senders, SenderStep(s) \/ Signal(s) \/ SignalAgain(s)
      PROVE  FoundIds(r)'
  <2>1. s # r
    OBVIOUS
  <2>2. CASE CreateKeyFile(s) \/ Refused(s) \/ InstallHandlers(s) \/ Ftok(s) \/ CreateSegment(s)
             \/ StoreSegmentId(s) \/ CreateSemaphore(s) \/ StoreSemaphoreId(s) \/ SetVal(s)
    <3>1. Still /\ pc'[r] = pc[r]
      BY <2>1, <2>2 DEF CreateKeyFile, Refused, InstallHandlers, Ftok, CreateSegment,
           StoreSegmentId, CreateSemaphore, StoreSemaphoreId, SetVal, ids, Typed
    <3>2. QED
      BY <1>1, <3>1
  <2>3. CASE AlreadyExists(s) \/ SenderLock(s) \/ WritePiece(s) \/ SenderUnlock(s) \/ Wake(s)
             \/ RemoveSegment(s) \/ RemoveSemaphore(s) \/ RemoveKeyFile(s) \/ Signal(s) \/ SignalAgain(s)
    <3>1. Still /\ pc'[r] = pc[r]
      BY <2>1, <2>3 DEF AlreadyExists, SenderLock, WritePiece, SenderUnlock, Wake, RemoveSegment,
           RemoveSemaphore, RemoveKeyFile, Signal, SignalAgain, ids, Typed
    <3>2. QED
      BY <1>1, <3>1
  <2>4. QED
    BY <1>2, <2>2, <2>3 DEF SenderStep
<1>3. ASSUME NEW q \in Receivers, q # r, ReceiverStep(q)
      PROVE  FoundIds(r)'
  <2>1. Still /\ pc'[r] = pc[r]
    BY <1>3 DEF ReceiverStep, Ftok, FindSegment, Attach, FindSemaphore, ReceiverLock, ReadPiece,
                ReceiverUnlock, Wake, ids, Typed
  <2>2. QED
    BY <1>1, <2>1
<1>4. ASSUME NEW q \in Processes, Resume(q) \/ Killed(q)
      PROVE  FoundIds(r)'
  <2>1. Still
    BY <1>4 DEF Resume, Killed, ids
  <2>2. \/ pc'[r] = pc[r] \/ pc'[r] = "ended"
        \/ pc[r] \in HasSemaphore /\ pc'[r] \in {"lock", "copy", "unlock", "sleep"}
    BY <1>4 DEF Resume, Killed, HasSemaphore, Typed
  <2>3. QED
    BY <1>1, <2>1, <2>2
<1>5. CASE Attach(r) \/ ReceiverLock(r) \/ ReadPiece(r) \/ ReceiverUnlock(r) \/ Wake(r)
  <2>1. Still
    BY <1>5 DEF Attach, ReceiverLock, ReadPiece, ReceiverUnlock, Wake, ids
  <2>2. \/ pc'[r] = pc[r] \/ pc'[r] = "ended"
        \/ pc[r] = "shmat" /\ pc'[r] = "semget"
        \/ pc[r] \in HasSemaphore /\ pc'[r] \in {"lock", "copy", "unlock", "sleep"}
    BY <1>5 DEF Attach, ReceiverLock, ReadPiece, ReceiverUnlock, Wake, HasSemaphore, Typed
  <2>3. QED
    BY <1>1, <2>1, <2>2
<1>6. CASE Ftok(r)
  BY <1>6 DEF Ftok, FoundIds, HasSegment, HasSemaphore, Typed
<1>7. CASE FindSegment(r)
  BY <1>7 DEF FindSegment, Found, FoundIds, SenderIds, OwnIds, HasSegment, HasSemaphore, ipc, Typed
<1>8. CASE FindSemaphore(r)
  BY <1>8 DEF FindSemaphore, Found, FoundIds, SenderIds, OwnIds, HasSegment, HasSemaphore, ipc, Typed
<1>9. CASE UNCHANGED vars
  BY <1>1, <1>9 DEF vars, ids
<1>10. QED
  BY <1>2, <1>3, <1>4, <1>5, <1>6, <1>7, <1>8, <1>9 DEF Next, ReceiverStep, AllEnded

LEMMA NoMessageType == NoMessage \in [1..Pieces -> 0..Numbers]
BY DEF NoMessage

LEMMA NextNumber ==
  ASSUME NEW x \in 0..Numbers
  PROVE  (x % Numbers) + 1 \in 0..Numbers
<1>1. x \in Int /\ Numbers \in Int /\ Numbers > 0
  OBVIOUS
<1>2. x % Numbers \in 0..(Numbers - 1)
  BY <1>1
<1>3. QED
  BY <1>1, <1>2

LEMMA Domains ==
  ASSUME LocalTypes
  PROVE  /\ DOMAIN memory = Senders /\ DOMAIN at = Senders /\ DOMAIN copy = Receivers
         /\ DOMAIN message_counter = Senders
         /\ \A s \in Senders : at[s] \in 1..Pieces /\ memory[s] \in [1..Pieces -> 0..Numbers]
         /\ \A r \in Receivers : copy[r] \in Seq(0..Numbers) /\ Len(copy[r]) \in Nat
<1>1. copy \in [Receivers -> Seq(0..Numbers)] /\ at \in [Senders -> 1..Pieces]
  BY DEF LocalTypes
<1>2. /\ memory \in [Senders -> [1..Pieces -> 0..Numbers]]
      /\ message_counter \in [Senders -> 0..Numbers]
  BY DEF LocalTypes
<1>3. \A r \in Receivers : copy[r] \in Seq(0..Numbers)
  BY ONLY <1>1
<1>4. \A r \in Receivers : Len(copy[r]) \in Nat
  BY ONLY <1>3
<1>5. QED
  BY ONLY <1>1, <1>2, <1>3, <1>4

(* What Forget leaves of a process.                                        *)
LEMMA Forgotten ==
  ASSUME LocalTypes, NEW p \in Processes, Forget(p)
  PROVE  /\ at' \in [Senders -> 1..Pieces]
         /\ message_counter' \in [Senders -> 0..Numbers]
         /\ copy' \in [Receivers -> Seq(0..Numbers)]
<1>1. 1 \in 1..Pieces /\ 0 \in 0..Numbers
  OBVIOUS
<1>2. <<>> \in Seq(0..Numbers)
  OBVIOUS
<1>3. /\ at \in [Senders -> 1..Pieces]
      /\ message_counter \in [Senders -> 0..Numbers]
      /\ copy \in [Receivers -> Seq(0..Numbers)]
  BY DEF LocalTypes
<1>4. \/ /\ at' = [at EXCEPT ![p] = 1]
         /\ message_counter' = [message_counter EXCEPT ![p] = 0]
         /\ copy' = copy
      \/ copy' = [copy EXCEPT ![p] = <<>>] /\ at' = at /\ message_counter' = message_counter
  BY DEF Forget
<1>5. QED
  BY ONLY <1>1, <1>2, <1>3, <1>4

LEMMA NextLocalTypes ==
  ASSUME Typed, LocalTypes, SenderIds, ReceiverIds, Copies, [Next]_vars
  PROVE  LocalTypes'
<1> USE DEF LocalTypes, Processes
<1>a. at \in [Senders -> 1..Pieces] /\ Pieces \in Nat
  OBVIOUS
<1>b. copy \in [Receivers -> Seq(0..Numbers)]
  OBVIOUS
<1>c. /\ shared_memory_id \in [Processes -> Senders \cup {NoId}]
      /\ semaphore_id \in [Processes -> Senders \cup {NoId}]
  OBVIOUS
<1>1. ASSUME NEW s \in Senders,
             CreateKeyFile(s) \/ Refused(s) \/ InstallHandlers(s) \/ AlreadyExists(s) \/ RemoveKeyFile(s)
             \/ SignalAgain(s) \/ StoreSegmentId(s) \/ StoreSemaphoreId(s) \/ CreateSegment(s)
             \/ CreateSemaphore(s) \/ SetVal(s)
      PROVE  LocalTypes'
  <2>1. CASE CreateKeyFile(s) \/ Refused(s) \/ InstallHandlers(s) \/ AlreadyExists(s) \/ RemoveKeyFile(s)
    BY <2>1 DEF CreateKeyFile, Refused, InstallHandlers, AlreadyExists, RemoveKeyFile, ids, locals
  <2>2. CASE StoreSegmentId(s) \/ StoreSemaphoreId(s)
    BY <2>2 DEF StoreSegmentId, StoreSemaphoreId, locals
  <2>3. CASE CreateSegment(s) \/ CreateSemaphore(s) \/ SetVal(s) \/ SignalAgain(s)
    BY <2>3 DEF CreateSegment, CreateSemaphore, SetVal, SignalAgain, ids, locals
  <2>4. QED
    BY <1>1, <2>1, <2>2, <2>3
<1>2. ASSUME NEW s \in Senders, Signal(s) PROVE LocalTypes'
  <2>1. Forget(s) /\ UNCHANGED <<memory, ids, holds, mishap>>
    BY <1>2 DEF Signal
  <2>2. QED
    BY <2>1, Forgotten DEF ids
<1>3. ASSUME NEW s \in Senders, SenderLock(s) PROVE LocalTypes'
  <2>1. \A x \in 0..Numbers : (x % Numbers) + 1 \in 0..Numbers
    BY NextNumber
  <2>2. holds' \subseteq Processes
    BY <1>3 DEF SenderLock, Enter
  <2>3. QED
    BY <1>3, <2>1, <2>2 DEF SenderLock, CountMessage, ids
<1>4. ASSUME NEW s \in Senders, WritePiece(s) PROVE LocalTypes'
  <2>1. at' \in [Senders -> 1..Pieces]
    <3>1. at[s] < Pieces => at[s] + 1 \in 1..Pieces
      BY ONLY <1>a, s \in Senders
    <3>2. \/ at' = [at EXCEPT ![s] = at[s] + 1] /\ at[s] < Pieces
          \/ at' = [at EXCEPT ![s] = 1]
      BY <1>4 DEF WritePiece
    <3>3. QED
      BY ONLY <1>a, <3>1, <3>2
  <2>2. memory' = [memory EXCEPT ![s] = [memory[s] EXCEPT ![at[s]] = message_counter[s]]]
    BY <1>4 DEF WritePiece
  <2>3. memory' \in [Senders -> [1..Pieces -> 0..Numbers]]
    BY <2>2
  <2>4. QED
    BY <1>4, <2>1, <2>3 DEF WritePiece, ids
<1>5. ASSUME NEW s \in Senders, SenderUnlock(s) PROVE LocalTypes'
  BY <1>5 DEF SenderUnlock, Leave, ids, locals
<1>6. ASSUME NEW s \in Senders, RemoveSegment(s) PROVE LocalTypes'
  BY <1>6, NoMessageType DEF RemoveSegment, ids, locals
<1>7. ASSUME NEW s \in Senders, RemoveSemaphore(s) PROVE LocalTypes'
  BY <1>7 DEF RemoveSemaphore, ids, locals
<1>8. ASSUME NEW p \in Processes, Ftok(p) \/ Wake(p) PROVE LocalTypes'
  BY <1>8 DEF Ftok, Wake, ids, locals
<1>8a. ASSUME NEW p \in Processes, Resume(p) PROVE LocalTypes'
  <2>1. \A x \in 0..Numbers : (x % Numbers) + 1 \in 0..Numbers
    BY NextNumber
  <2>2. message_counter' \in [Senders -> 0..Numbers]
    <3>1. \/ p \in Senders /\ message_counter' = [message_counter EXCEPT ![p] = (message_counter[p] % Numbers) + 1]
          \/ message_counter' = message_counter
      BY <1>8a DEF Resume, CountMessage
    <3>2. message_counter \in [Senders -> 0..Numbers]
      OBVIOUS
    <3>3. QED
      BY ONLY <2>1, <3>1, <3>2
  <2>3. mishap' \in Senders
    BY <1>8a DEF Resume, SenderIds, OwnIds, ReceiverIds, FoundIds, HasSemaphore, Processes
  <2>4. QED
    BY <1>8a, <2>2, <2>3 DEF Resume, ids
<1>9. ASSUME NEW p \in Processes, Killed(p) PROVE LocalTypes'
  <2>1. Forget(p) /\ Detach(p) /\ UNCHANGED <<ids, holds, mishap>>
    BY <1>9 DEF Killed
  <2>2. memory' \in [Senders -> [1..Pieces -> 0..Numbers]]
    BY <2>1, NoMessageType DEF Detach
  <2>3. QED
    BY <2>1, <2>2, Forgotten DEF ids
<1>10. ASSUME NEW r \in Receivers, FindSegment(r) \/ Attach(r) \/ FindSemaphore(r) PROVE LocalTypes'
  <2>1. UNCHANGED <<memory, locals, holds, mishap>>
    BY <1>10 DEF FindSegment, Attach, FindSemaphore, ids
  <2>2. /\ \/ shared_memory_id' = shared_memory_id
           \/ \E s \in Senders : shared_memory_id' = [shared_memory_id EXCEPT ![r] = s]
        /\ \/ semaphore_id' = semaphore_id
           \/ \E s \in Senders : semaphore_id' = [semaphore_id EXCEPT ![r] = s]
    BY <1>10 DEF FindSegment, Attach, FindSemaphore, Found, ids
  <2>3. /\ shared_memory_id' \in [Processes -> Senders \cup {NoId}]
        /\ semaphore_id' \in [Processes -> Senders \cup {NoId}]
    BY ONLY <1>c, <2>2
  <2>4. QED
    BY <2>1, <2>3 DEF locals
<1>11. ASSUME NEW r \in Receivers, ReceiverLock(r) PROVE LocalTypes'
  BY <1>11 DEF ReceiverLock, Enter, ids, locals
<1>12. ASSUME NEW r \in Receivers, ReceiverUnlock(r) PROVE LocalTypes'
  <2>1. copy' = [copy EXCEPT ![r] = <<>>] /\ UNCHANGED <<memory, ids, at, message_counter, mishap>>
    BY <1>12 DEF ReceiverUnlock
  <2>2. copy' \in [Receivers -> Seq(0..Numbers)]
    <3>1. <<>> \in Seq(0..Numbers)
      BY ONLY TRUE
    <3>2. QED
      BY ONLY <1>b, <2>1, <3>1
  <2>3. holds' \subseteq Processes
    BY <1>12 DEF ReceiverUnlock, Leave
  <2>4. QED
    BY <2>1, <2>2, <2>3 DEF ids
<1>13. ASSUME NEW r \in Receivers, ReadPiece(r) PROVE LocalTypes'
  <2>1. /\ Len(copy[r]) < Pieces /\ copy[r] \in Seq(0..Numbers)
        /\ shared_memory_id[r] \in Senders
    BY <1>13 DEF ReadPiece, Copies, CopyOf, ReceiverIds, FoundIds, HasSegment
  <2>2. memory[shared_memory_id[r]] \in [1..Pieces -> 0..Numbers] /\ Len(copy[r]) + 1 \in 1..Pieces
    <3>1. Len(copy[r]) \in Nat /\ Len(copy[r]) + 1 \in 1..Pieces
      BY ONLY <1>a, <2>1
    <3>2. QED
      BY <2>1, <3>1
  <2>3. Append(copy[r], memory[shared_memory_id[r]][Len(copy[r]) + 1]) \in Seq(0..Numbers)
    <3>1. memory[shared_memory_id[r]][Len(copy[r]) + 1] \in 0..Numbers
      BY <2>2
    <3>2. QED
      BY ONLY <2>1, <3>1
  <2>4. QED
    BY <1>13, <2>3 DEF ReadPiece, ids
<1>14. CASE UNCHANGED vars
  BY <1>14 DEF vars, ids, locals
<1>15. QED
  BY <1>1, <1>2, <1>3, <1>4, <1>5, <1>6, <1>7, <1>8, <1>8a, <1>9, <1>10, <1>11,
     <1>12, <1>13, <1>14
     DEF Next, SenderStep, ReceiverStep, AllEnded

-----------------------------------------------------------------------------
(* The semaphore counts who is inside.                                     *)
OnlyMoves(p) ==
  \A q \in Processes : q # p => pc'[q] = pc[q] /\ semaphore_id'[q] = semaphore_id[q]

LEMMA InsideChange ==
  ASSUME NEW p \in Processes, OnlyMoves(p), NEW t \in Senders, IsFiniteSet(Inside(t))
  PROVE  /\ p \in Inside(t) \/ p \notin Inside(t)' => Inside(t)' \subseteq Inside(t)
         /\ p \in Inside(t) /\ p \notin Inside(t)' =>
              /\ IsFiniteSet(Inside(t)')
              /\ Cardinality(Inside(t)') = Cardinality(Inside(t)) - 1
         /\ p \notin Inside(t) /\ p \in Inside(t)' =>
              /\ IsFiniteSet(Inside(t)')
              /\ Cardinality(Inside(t)') = Cardinality(Inside(t)) + 1
         /\ Cardinality(Inside(t)) \in Nat
<1>1. /\ p \in Inside(t) \/ p \notin Inside(t)' => Inside(t)' \subseteq Inside(t)
      /\ p \in Inside(t) /\ p \notin Inside(t)' => Inside(t)' = Inside(t) \ {p}
      /\ p \notin Inside(t) /\ p \in Inside(t)' => Inside(t)' = Inside(t) \cup {p}
  BY DEF OnlyMoves, Inside
<1> HIDE DEF Inside
<1>2. QED
  BY <1>1, FS_AddElement, FS_RemoveElement, FS_CardinalityType

(* A mishap is one for good.                                               *)
LEMMA StoppedForGood ==
  ASSUME [Next]_vars, NEW t \in Senders
  PROVE  mishap = t => mishap' = t
<1>1. ASSUME NEW s \in Senders,
             \/ CreateKeyFile(s) \/ Refused(s) \/ InstallHandlers(s) \/ Ftok(s) \/ CreateSegment(s)
             \/ StoreSegmentId(s) \/ CreateSemaphore(s) \/ StoreSemaphoreId(s) \/ SetVal(s)
      PROVE  mishap' = mishap
  BY <1>1 DEF CreateKeyFile, Refused, InstallHandlers, Ftok, CreateSegment, StoreSegmentId,
              CreateSemaphore, StoreSemaphoreId, SetVal
<1>2. ASSUME NEW s \in Senders,
             \/ AlreadyExists(s) \/ SenderLock(s) \/ WritePiece(s) \/ SenderUnlock(s) \/ Wake(s)
             \/ RemoveSegment(s) \/ RemoveSemaphore(s) \/ RemoveKeyFile(s) \/ Signal(s)
      PROVE  mishap' = mishap
  BY <1>2 DEF AlreadyExists, SenderLock, WritePiece, SenderUnlock, Wake, RemoveSegment,
              RemoveSemaphore, RemoveKeyFile, Signal
<1>3. ASSUME NEW r \in Receivers, ReceiverStep(r)
      PROVE  mishap' = mishap
  BY <1>3 DEF ReceiverStep, Ftok, FindSegment, Attach, FindSemaphore, ReceiverLock, ReadPiece,
              ReceiverUnlock, Wake
<1>4. ASSUME NEW p, SignalAgain(p) \/ Resume(p) \/ Killed(p) \/ UNCHANGED vars
      PROVE  mishap' = mishap \/ mishap = NoMishap
  BY <1>4 DEF SignalAgain, Resume, Killed, vars
<1>5. QED
  BY <1>1, <1>2, <1>3, <1>4 DEF Next, SenderStep, AllEnded

LEMMA LimitGrows ==
  ASSUME Typed, LocalTypes, SenderIds, [Next]_vars, NEW t \in Senders
  PROVE  Limit(t) \in Nat /\ Limit(t)' \in Nat /\ Limit(t) <= Limit(t)'
<1> USE DEF Typed, Goto, Processes
<1>1. pc[t] \notin Unset => pc'[t] \notin Unset
  <2>1. ASSUME NEW s \in Senders, SenderStep(s) \/ Signal(s) \/ SignalAgain(s)
        PROVE  pc[t] \notin Unset => pc'[t] \notin Unset
    <3>1. CASE CreateKeyFile(s) \/ Refused(s) \/ InstallHandlers(s) \/ Ftok(s) \/ CreateSegment(s)
               \/ StoreSegmentId(s) \/ CreateSemaphore(s) \/ StoreSemaphoreId(s)
      <4>1. pc[s] \in Unset /\ \A q \in Senders : q # s => pc'[q] = pc[q]
        BY <3>1 DEF CreateKeyFile, Refused, InstallHandlers, Ftok, CreateSegment, StoreSegmentId,
                    CreateSemaphore, StoreSemaphoreId, Unset
      <4>2. QED
        BY <4>1
    <3>2. CASE SetVal(s) \/ AlreadyExists(s) \/ SenderLock(s) \/ WritePiece(s) \/ SenderUnlock(s) \/ Wake(s)
      BY <3>2 DEF SetVal, AlreadyExists, SenderLock, WritePiece, SenderUnlock, Wake, Unset
    <3>3. CASE RemoveSegment(s) \/ RemoveSemaphore(s) \/ RemoveKeyFile(s) \/ Signal(s) \/ SignalAgain(s)
      BY <3>3 DEF RemoveSegment, RemoveSemaphore, RemoveKeyFile, Signal, SignalAgain, Unset
    <3>4. QED
      BY <2>1, <3>1, <3>2, <3>3 DEF SenderStep
  <2>2. ASSUME NEW r \in Receivers, ReceiverStep(r) PROVE pc'[t] = pc[t]
    BY <2>2 DEF ReceiverStep, Ftok, FindSegment, Attach, FindSemaphore, ReceiverLock, ReadPiece,
           ReceiverUnlock, Wake
  <2>3. ASSUME NEW p \in Processes, Resume(p) \/ Killed(p)
        PROVE  pc'[t] = pc[t] \/ pc'[t] \notin Unset
    BY <2>3 DEF Resume, Killed, Unset
  <2>4. QED
    BY <2>1, <2>2, <2>3 DEF Next, AllEnded, vars
<1>2. mishap = t => mishap' = t
  BY StoppedForGood
<1>3. QED
  BY <1>1, <1>2 DEF Limit

LEMMA QuietSeat ==
  ASSUME NEW t \in Senders, Typed, Seat(t), Inside(t)' \subseteq Inside(t),
         Limit(t) \in Nat, Limit(t)' \in Nat, Limit(t) <= Limit(t)', semaphore'[t] = semaphore[t]
  PROVE  Seat(t)'
<1>1. /\ IsFiniteSet(Inside(t)')
      /\ Cardinality(Inside(t)') <= Cardinality(Inside(t))
      /\ Cardinality(Inside(t)') \in Nat /\ Cardinality(Inside(t)) \in Nat
  BY FS_Subset, FS_CardinalityType DEF Seat
<1>2. semaphore[t].value \in Int
  BY ValueIsInt DEF Typed
<1>3. QED
  BY <1>1, <1>2 DEF Seat

(* Nobody is inside that has not found the semaphore.                      *)
LEMMA AbsentIsEmpty ==
  ASSUME SenderIds, ReceiverIds, NEW t \in Senders, semaphore[t].state = "absent"
  PROVE  Inside(t) = {}
<1>1. ASSUME NEW p \in Inside(t) PROVE FALSE
  BY <1>1 DEF Inside, SenderIds, OwnIds, ReceiverIds, FoundIds, HasSemaphore, Processes
<1>2. QED
  BY <1>1

LEMMA NextSeats ==
  ASSUME Typed, Typed', LocalTypes, SenderIds, ReceiverIds, Seats, [Next]_vars
  PROVE  Seats'
<1> SUFFICES ASSUME NEW t \in Senders, Seat(t)
             PROVE  Seat(t)'
  BY DEF Seats
<1>a. IsFiniteSet(Inside(t)) /\ semaphore[t].value \in Int
  BY ValueIsInt DEF Seat, Typed
<1>b. Limit(t) \in Nat /\ Limit(t)' \in Nat /\ Limit(t) <= Limit(t)'
  BY LimitGrows
<1>1. ASSUME NEW p \in Processes, OnlyMoves(p), p \in Inside(t) \/ p \notin Inside(t)', semaphore'[t] = semaphore[t]
      PROVE  Seat(t)'
  BY <1>a, <1>b, <1>1, InsideChange, QuietSeat
<1> USE DEF Goto, Processes
<1>2. ASSUME NEW s \in Senders,
             CreateKeyFile(s) \/ Refused(s) \/ InstallHandlers(s) \/ AlreadyExists(s) \/ RemoveKeyFile(s)
             \/ SignalAgain(s) \/ StoreSegmentId(s) \/ StoreSemaphoreId(s) \/ CreateSegment(s)
             \/ Signal(s) \/ WritePiece(s) \/ RemoveSegment(s)
      PROVE  Seat(t)'
  <2>1. OnlyMoves(s) /\ semaphore' = semaphore
    BY <1>2 DEF CreateKeyFile, Refused, InstallHandlers, AlreadyExists, RemoveKeyFile, SignalAgain,
              StoreSegmentId, StoreSemaphoreId, CreateSegment, Signal, WritePiece, RemoveSegment,
              OnlyMoves, Typed, ipc, ids
  <2>2. s \in Inside(t) \/ s \notin Inside(t)'
    BY <1>2 DEF CreateKeyFile, Refused, InstallHandlers, AlreadyExists, RemoveKeyFile, SignalAgain,
              StoreSegmentId, StoreSemaphoreId, CreateSegment, Signal, WritePiece, RemoveSegment,
              Inside, Typed, ids
  <2>3. QED
    BY <1>1, <2>1, <2>2
<1>3. ASSUME NEW p \in Processes, Ftok(p) \/ Wake(p) \/ Killed(p)
      PROVE  Seat(t)'
  <2>1. /\ OnlyMoves(p) /\ semaphore' = semaphore
        /\ p \in Inside(t) \/ p \notin Inside(t)'
    BY <1>3 DEF Ftok, Wake, Killed, OnlyMoves, Inside, Typed, ipc, ids
  <2>2. QED
    BY <1>1, <2>1
<1>4. ASSUME NEW r \in Receivers, FindSegment(r) \/ Attach(r) \/ FindSemaphore(r) \/ ReadPiece(r)
      PROVE  Seat(t)'
  <2>1. /\ OnlyMoves(r) /\ semaphore' = semaphore
        /\ r \in Inside(t) \/ r \notin Inside(t)'
    BY <1>4 DEF FindSegment, Attach, FindSemaphore, ReadPiece, OnlyMoves, Inside, Typed, ipc, ids
  <2>2. QED
    BY <1>1, <2>1
<1>5. ASSUME NEW s \in Senders, CreateSemaphore(s)
      PROVE  Seat(t)'
  <2>1. OnlyMoves(s) /\ s \notin Inside(t)'
    BY <1>5 DEF CreateSemaphore, OnlyMoves, Inside, Typed, ids
  <2>2. CASE t # s
    <3>1. semaphore'[t] = semaphore[t]
      BY <1>5, <2>2 DEF CreateSemaphore, Typed
    <3>2. QED
      BY <1>1, <2>1, <3>1
  <2>3. CASE t = s
    <3>1. semaphore[t].state = "absent"
      BY <1>5, <2>3 DEF CreateSemaphore, SenderIds, OwnIds, Unset
    <3>2. Inside(t)' = {}
      BY <2>1, <3>1, <1>a, AbsentIsEmpty, InsideChange
    <3>3. semaphore'[t].state = "present" /\ semaphore'[t].value = 0
      BY <1>5, <2>3 DEF CreateSemaphore, Typed
    <3>4. QED
      BY <1>b, <3>2, <3>3, FS_EmptySet DEF Seat
  <2>4. QED
    BY <2>2, <2>3
<1>6. ASSUME NEW s \in Senders, SetVal(s)
      PROVE  Seat(t)'
  <2>1. OnlyMoves(s) /\ s \notin Inside(t)' /\ s \notin Inside(t)
    BY <1>6 DEF SetVal, OnlyMoves, Inside, Typed, ids
  <2>2. /\ semaphore'[t].state = semaphore[t].state
        /\ semaphore'[t].value = IF t = s THEN 1 ELSE semaphore[t].value
    BY <1>6, ValueChange DEF SetVal, Typed
  <2>3. Inside(t)' = Inside(t)
    BY <2>1 DEF OnlyMoves, Inside
  <2>4. CASE t # s
    BY <1>b, <1>a, <2>2, <2>3, <2>4, FS_CardinalityType DEF Seat
  <2>5. CASE t = s
    <3>1. Limit(t)' = Limit(t) + 1 /\ semaphore[t].state = "present"
      BY <1>6, <2>5 DEF SetVal, Limit, Unset, Typed, SenderIds, OwnIds, HasSemaphore
    <3>2. QED
      BY <1>b, <1>a, <2>2, <2>3, <2>5, <3>1, FS_CardinalityType DEF Seat
  <2>6. QED
    BY <2>4, <2>5
<1>7. ASSUME NEW p \in Processes, Enter(p), pc[p] = "lock", pc'[p] = "copy", OnlyMoves(p),
             semaphore_id' = semaphore_id
      PROVE  Seat(t)'
  <2>1. /\ semaphore'[t].state = semaphore[t].state
        /\ t # semaphore_id[p] \/ semaphore[t].state = "removed" =>
             semaphore'[t].value = semaphore[t].value
        /\ t = semaphore_id[p] /\ semaphore[t].state # "removed" =>
             semaphore[t].value > 0 /\ semaphore'[t].value = semaphore[t].value - 1
    BY <1>7, EnterEffect
  <2>2. p \notin Inside(t) /\ (p \in Inside(t)' <=> t = semaphore_id[p])
    BY <1>7 DEF Inside
  <2>3. Cardinality(Inside(t)) \in Nat
    BY <1>a, FS_CardinalityType
  <2>4. CASE t # semaphore_id[p]
    <3>1. Inside(t)' = Inside(t)
      BY <1>7, <2>2, <2>4 DEF OnlyMoves, Inside
    <3>2. QED
      BY <1>b, <1>a, <2>1, <2>3, <2>4, <3>1 DEF Seat
  <2>5. CASE t = semaphore_id[p]
    <3>1. IsFiniteSet(Inside(t)') /\ Cardinality(Inside(t)') = Cardinality(Inside(t)) + 1
      BY <1>7, <1>a, <2>2, <2>5, InsideChange
    <3>2. QED
      BY <1>b, <1>a, <2>1, <2>3, <2>5, <3>1 DEF Seat
  <2>6. QED
    BY <2>4, <2>5
<1>8. ASSUME NEW p \in Processes, Leave(p), pc[p] = "unlock", pc'[p] = "sleep", OnlyMoves(p),
             semaphore_id' = semaphore_id
      PROVE  Seat(t)'
  <2>1. /\ semaphore'[t].state = semaphore[t].state
        /\ t # semaphore_id[p] \/ semaphore[t].state = "removed" =>
             semaphore'[t].value = semaphore[t].value
        /\ t = semaphore_id[p] /\ semaphore[t].state # "removed" =>
             semaphore'[t].value = semaphore[t].value + 1
    BY <1>8, LeaveEffect
  <2>2. p \notin Inside(t)' /\ (p \in Inside(t) <=> t = semaphore_id[p])
    BY <1>8 DEF Inside
  <2>3. Cardinality(Inside(t)) \in Nat
    BY <1>a, FS_CardinalityType
  <2>4. CASE t # semaphore_id[p]
    <3>1. Inside(t)' = Inside(t)
      BY <1>8, <2>2, <2>4 DEF OnlyMoves, Inside
    <3>2. QED
      BY <1>b, <1>a, <2>1, <2>3, <2>4, <3>1 DEF Seat
  <2>5. CASE t = semaphore_id[p]
    <3>1. IsFiniteSet(Inside(t)') /\ Cardinality(Inside(t)') = Cardinality(Inside(t)) - 1
      BY <1>8, <1>a, <2>2, <2>5, InsideChange
    <3>2. semaphore[t].state # "absent"
      BY <2>2, <2>5, AbsentIsEmpty
    <3>3. semaphore[t].state \in {"present", "removed"}
      BY <3>2 DEF Typed, Semaphores, ObjectStates
    <3>4. QED
      BY <1>b, <1>a, <2>1, <2>3, <2>5, <3>1, <3>3 DEF Seat
  <2>6. QED
    BY <2>4, <2>5
<1>9. ASSUME NEW s \in Senders, SenderLock(s) PROVE Seat(t)'
  <2>1. OnlyMoves(s) /\ pc[s] = "lock" /\ pc'[s] = "copy" /\ Enter(s) /\ semaphore_id' = semaphore_id
    BY <1>9 DEF SenderLock, OnlyMoves, Typed, ids
  <2>2. QED
    BY <1>7, <2>1
<1>10. ASSUME NEW s \in Senders, SenderUnlock(s) PROVE Seat(t)'
  <2>1. OnlyMoves(s) /\ pc[s] = "unlock" /\ pc'[s] = "sleep" /\ Leave(s) /\ semaphore_id' = semaphore_id
    BY <1>10 DEF SenderUnlock, OnlyMoves, Typed, ids
  <2>2. QED
    BY <1>8, <2>1
<1>11. ASSUME NEW r \in Receivers, ReceiverLock(r) PROVE Seat(t)'
  <2>1. OnlyMoves(r) /\ pc[r] = "lock" /\ pc'[r] = "copy" /\ Enter(r) /\ semaphore_id' = semaphore_id
    BY <1>11 DEF ReceiverLock, OnlyMoves, Typed, ids
  <2>2. QED
    BY <1>7, <2>1
<1>12. ASSUME NEW r \in Receivers, ReceiverUnlock(r) PROVE Seat(t)'
  <2>1. OnlyMoves(r) /\ pc[r] = "unlock" /\ pc'[r] = "sleep" /\ Leave(r) /\ semaphore_id' = semaphore_id
    BY <1>12 DEF ReceiverUnlock, OnlyMoves, Typed, ids
  <2>2. QED
    BY <1>8, <2>1
<1>13. ASSUME NEW s \in Senders, RemoveSemaphore(s) PROVE Seat(t)'
  <2>1. OnlyMoves(s) /\ s \notin Inside(t)'
    BY <1>13 DEF RemoveSemaphore, OnlyMoves, Inside, Typed, ids
  <2>2. \/ semaphore'[t] = semaphore[t]
        \/ semaphore'[t].state = "removed" /\ semaphore'[t].value = 0
    BY <1>13, SemaphoreRemoval DEF RemoveSemaphore, Typed
  <2>3. Inside(t)' \subseteq Inside(t)
    BY <1>a, <2>1, InsideChange
  <2>4. IsFiniteSet(Inside(t)')
    BY <1>a, <2>3, FS_Subset
  <2>5. QED
    BY <1>1, <2>1, <2>2, <2>4 DEF Seat
<1>14. ASSUME NEW p \in Processes, Resume(p) PROVE Seat(t)'
  <2>1. /\ OnlyMoves(p) /\ semaphore' = semaphore /\ mishap = NoMishap
        /\ mishap' = semaphore_id[p] /\ pc[p] = "lock" /\ pc'[p] = "copy"
        /\ semaphore_id' = semaphore_id
    BY <1>14 DEF Resume, OnlyMoves, Typed, ipc, ids
  <2>2. CASE t # semaphore_id[p]
    <3>1. p \notin Inside(t)'
      BY <2>1, <2>2 DEF Inside
    <3>2. QED
      BY <1>1, <2>1, <3>1
  <2>3. CASE t = semaphore_id[p]
    <3>1. p \notin Inside(t) /\ p \in Inside(t)'
      BY <2>1, <2>3 DEF Inside
    <3>2. /\ IsFiniteSet(Inside(t)') /\ Cardinality(Inside(t)') = Cardinality(Inside(t)) + 1
          /\ Cardinality(Inside(t)) \in Nat
      BY <1>a, <2>1, <3>1, InsideChange
    <3>3. Limit(t)' = Limit(t) + 1
      <4>1. pc'[t] \in Unset <=> pc[t] \in Unset
        BY <2>1 DEF OnlyMoves, Unset
      <4>2. QED
        BY <2>1, <2>3, <4>1 DEF Limit
    <3>4. QED
      BY <1>a, <1>b, <2>1, <3>2, <3>3 DEF Seat
  <2>4. QED
    BY <2>2, <2>3
<1>15. CASE UNCHANGED vars
  <2>1. semaphore'[t] = semaphore[t] /\ Inside(t)' = Inside(t)
    BY <1>15 DEF vars, ipc, ids, Inside
  <2>2. QED
    BY <1>b, <2>1, QuietSeat
<1>16. QED
  BY <1>2, <1>3, <1>4, <1>5, <1>6, <1>9, <1>10, <1>11, <1>12, <1>13, <1>14, <1>15
     DEF Next, SenderStep, ReceiverStep, AllEnded

-----------------------------------------------------------------------------
(* What has been removed stays removed.                                    *)
LEMMA RemovedStays ==
  ASSUME Typed, SenderIds, [Next]_vars, NEW t \in Senders
  PROVE  /\ segment[t].state = "removed" => segment'[t].state = "removed"
         /\ semaphore[t].state = "removed" => semaphore'[t].state = "removed"
<1>1. CASE ObjectsKept
  BY <1>1 DEF ObjectsKept
<1>2. ASSUME NEW p \in Processes, Ftok(p)
      PROVE  segment' = segment /\ semaphore' = semaphore
  BY <1>2 DEF Ftok, ipc
<1>3. ASSUME NEW s \in Senders, CreateSegment(s)
      PROVE  semaphore' = semaphore /\ (segment[t].state = "removed" => segment'[t] = segment[t])
  BY <1>3 DEF CreateSegment, Typed, SenderIds, OwnIds, Unset
<1>4. ASSUME NEW s \in Senders, CreateSemaphore(s)
      PROVE  segment' = segment /\ (semaphore[t].state = "removed" => semaphore'[t] = semaphore[t])
  BY <1>4 DEF CreateSemaphore, Typed, SenderIds, OwnIds, Unset
<1>5. ASSUME NEW s \in Senders, RemoveSegment(s)
      PROVE  semaphore' = semaphore /\ (segment'[t] = segment[t] \/ segment'[t].state = "removed")
  <2>1. segment'[t] = segment[t] \/ segment'[t].state = "removed"
    BY <1>5, SegmentRemoval
  <2>2. QED
    BY <1>5, <2>1 DEF RemoveSegment
<1>6. ASSUME NEW s \in Senders, RemoveSemaphore(s)
      PROVE  segment' = segment /\ (semaphore'[t] = semaphore[t] \/ semaphore'[t].state = "removed")
  <2>1. semaphore'[t] = semaphore[t] \/ semaphore'[t].state = "removed"
    BY <1>6, SemaphoreRemoval DEF RemoveSemaphore, Typed
  <2>2. QED
    BY <1>6, <2>1 DEF RemoveSemaphore
<1>7. QED
  BY <1>1, <1>2, <1>3, <1>4, <1>5, <1>6, Frame

(* Two processes are never inside, and whoever is leaves no room.          *)
LEMMA OneInside ==
  ASSUME Typed, Seats,
         NEW t \in Senders, mishap # t, semaphore[t].state = "present", NEW p \in Inside(t)
  PROVE  Inside(t) = {p} /\ semaphore[t].value = 0
<1>1. /\ IsFiniteSet(Inside(t)) /\ semaphore[t].value \in Int /\ semaphore[t].value >= 0
      /\ semaphore[t].value + Cardinality(Inside(t)) <= 1
  <2>1. Limit(t) \in {0, 1}
    BY DEF Limit
  <2>2. Cardinality(Inside(t)) \in Nat /\ semaphore[t].value \in Int /\ Seat(t)
    BY FS_CardinalityType, ValueIsInt DEF Seats, Seat, Typed
  <2>3. QED
    BY <2>1, <2>2 DEF Seat
<1>2. /\ IsFiniteSet(Inside(t) \ {p})
      /\ Cardinality(Inside(t) \ {p}) = Cardinality(Inside(t)) - 1
      /\ Cardinality(Inside(t) \ {p}) \in Nat /\ Cardinality(Inside(t)) \in Nat
  BY <1>1, FS_RemoveElement, FS_CardinalityType
<1>3. Cardinality(Inside(t) \ {p}) = 0 /\ semaphore[t].value = 0
  BY <1>1, <1>2
<1>4. Inside(t) \ {p} = {}
  BY <1>2, <1>3, FS_EmptySet
<1>5. QED
  BY <1>3, <1>4

(* A channel that was given up stays so, while it is up.                   *)
LEMMA GivenUpStays ==
  ASSUME Typed, SenderIds, ReceiverIds, Seats, [Next]_vars,
         NEW t \in Senders, Up(t), GivenUp(t), mishap' # t,
         pc'[t] \in {"rmid_shm", "ended"}
  PROVE  GivenUp(t)' \/ ~Up(t)'
<1> USE DEF Goto, Processes
<1>1. ASSUME NEW p \in Processes, OnlyMoves(p), p \notin Inside(t)', semaphore'[t].value = semaphore[t].value
      PROVE  GivenUp(t)'
  BY <1>1 DEF GivenUp, Inside, OnlyMoves
<1>2. ASSUME NEW s \in Senders,
             CreateKeyFile(s) \/ Refused(s) \/ InstallHandlers(s) \/ AlreadyExists(s) \/ RemoveKeyFile(s)
             \/ SignalAgain(s) \/ StoreSegmentId(s) \/ StoreSemaphoreId(s) \/ CreateSegment(s)
             \/ Signal(s) \/ WritePiece(s) \/ RemoveSegment(s)
      PROVE  GivenUp(t)'
  <2>1. OnlyMoves(s) /\ semaphore' = semaphore
    BY <1>2 DEF CreateKeyFile, Refused, InstallHandlers, AlreadyExists, RemoveKeyFile, SignalAgain,
              StoreSegmentId, StoreSemaphoreId, CreateSegment, Signal, WritePiece, RemoveSegment,
              OnlyMoves, Typed, ipc, ids
  <2>2. s \in Inside(t) \/ s \notin Inside(t)'
    BY <1>2 DEF CreateKeyFile, Refused, InstallHandlers, AlreadyExists, RemoveKeyFile, SignalAgain,
              StoreSegmentId, StoreSemaphoreId, CreateSegment, Signal, WritePiece, RemoveSegment,
              Inside, Typed, ids
  <2>3. QED
    BY <1>1, <2>1, <2>2 DEF GivenUp
<1>3. ASSUME NEW p \in Processes, Ftok(p) \/ Wake(p) \/ Killed(p)
      PROVE  GivenUp(t)'
  <2>1. /\ OnlyMoves(p) /\ semaphore' = semaphore
        /\ p \in Inside(t) \/ p \notin Inside(t)'
    BY <1>3 DEF Ftok, Wake, Killed, OnlyMoves, Inside, Typed, ipc, ids
  <2>2. QED
    BY <1>1, <2>1 DEF GivenUp
<1>4. ASSUME NEW r \in Receivers, FindSegment(r) \/ Attach(r) \/ FindSemaphore(r) \/ ReadPiece(r)
      PROVE  GivenUp(t)'
  <2>1. /\ OnlyMoves(r) /\ semaphore' = semaphore
        /\ r \in Inside(t) \/ r \notin Inside(t)'
    BY <1>4 DEF FindSegment, Attach, FindSemaphore, ReadPiece, OnlyMoves, Inside, Typed, ipc, ids
  <2>2. QED
    BY <1>1, <2>1 DEF GivenUp
<1>5. ASSUME NEW s \in Senders, CreateSemaphore(s) \/ SetVal(s)
      PROVE  GivenUp(t)'
  <2>1. s # t
    BY <1>5 DEF CreateSemaphore, SetVal, GivenUp
  <2>2. OnlyMoves(s) /\ s \notin Inside(t)'
    BY <1>5 DEF CreateSemaphore, SetVal, OnlyMoves, Inside, Typed, ids
  <2>3. semaphore'[t].value = semaphore[t].value
    BY <1>5, <2>1, ValueChange DEF CreateSemaphore, SetVal, Typed
  <2>4. QED
    BY <1>1, <2>2, <2>3
<1>6. ASSUME NEW p \in Processes, Enter(p), pc[p] = "lock", OnlyMoves(p), semaphore_id' = semaphore_id
      PROVE  GivenUp(t)'
  <2>1. t # semaphore_id[p]
    BY <1>6, EnterEffect DEF GivenUp, Up
  <2>2. p \notin Inside(t)' /\ semaphore'[t].value = semaphore[t].value
    BY <1>6, <2>1, EnterEffect DEF Inside
  <2>3. QED
    BY <1>1, <1>6, <2>2
<1>7. ASSUME NEW p \in Processes, Leave(p), pc[p] = "unlock", OnlyMoves(p), semaphore_id' = semaphore_id
      PROVE  GivenUp(t)'
  <2>1. t # semaphore_id[p]
    BY <1>7 DEF GivenUp, Inside
  <2>2. p \notin Inside(t)' /\ semaphore'[t].value = semaphore[t].value
    BY <1>7, <2>1, LeaveEffect DEF Inside
  <2>3. QED
    BY <1>1, <1>7, <2>2
<1>8. ASSUME NEW s \in Senders, SenderLock(s) \/ SenderUnlock(s) PROVE GivenUp(t)'
  <2>1. /\ OnlyMoves(s) /\ semaphore_id' = semaphore_id
        /\ \/ pc[s] = "lock" /\ Enter(s)
           \/ pc[s] = "unlock" /\ Leave(s)
    BY <1>8 DEF SenderLock, SenderUnlock, OnlyMoves, Typed, ids
  <2>2. QED
    BY <1>6, <1>7, <2>1
<1>9. ASSUME NEW r \in Receivers, ReceiverLock(r) \/ ReceiverUnlock(r) PROVE GivenUp(t)'
  <2>1. /\ OnlyMoves(r) /\ semaphore_id' = semaphore_id
        /\ \/ pc[r] = "lock" /\ Enter(r)
           \/ pc[r] = "unlock" /\ Leave(r)
    BY <1>9 DEF ReceiverLock, ReceiverUnlock, OnlyMoves, Typed, ids
  <2>2. QED
    BY <1>6, <1>7, <2>1
<1>10. ASSUME NEW s \in Senders, RemoveSemaphore(s) PROVE GivenUp(t)' \/ ~Up(t)'
  <2>1. OnlyMoves(s) /\ s \notin Inside(t)'
    BY <1>10 DEF RemoveSemaphore, OnlyMoves, Inside, Typed, ids
  <2>2. semaphore'[t] = semaphore[t] \/ semaphore'[t].state = "removed"
    BY <1>10, SemaphoreRemoval DEF RemoveSemaphore, Typed
  <2>3. QED
    BY <1>1, <2>1, <2>2 DEF Up
<1>11. ASSUME NEW p \in Processes, Resume(p) PROVE GivenUp(t)'
  <2>1. /\ OnlyMoves(p) /\ semaphore' = semaphore /\ semaphore_id' = semaphore_id
        /\ mishap' = semaphore_id[p]
    BY <1>11 DEF Resume, OnlyMoves, Typed, ipc, ids
  <2>2. p \notin Inside(t)'
    BY <2>1 DEF Inside
  <2>3. QED
    BY <1>1, <2>1, <2>2
<1>12. CASE UNCHANGED vars
  BY <1>12 DEF vars, ipc, ids, GivenUp, Inside
<1>13. QED
  BY <1>2, <1>3, <1>4, <1>5, <1>8, <1>9, <1>10, <1>11, <1>12
     DEF Next, SenderStep, ReceiverStep, AllEnded

(* A sender that turns to its handler, or dies, in the middle of a message *)
(* takes the semaphore with it.                                            *)
LEMMA CutShort ==
  ASSUME Typed, SenderIds, Seats, NEW t \in Senders, pc[t] = "copy", mishap # t,
         OnlyMoves(t), pc'[t] \in {"rmid_shm", "ended"}, semaphore' = semaphore
  PROVE  GivenUp(t)'
<1>1. semaphore[t].state = "present" /\ t \in Inside(t)
  BY DEF SenderIds, OwnIds, HasSemaphore, Inside, Processes
<1>2. Inside(t) = {t} /\ semaphore[t].value = 0
  BY <1>1, OneInside
<1>3. Inside(t)' \subseteq Inside(t) /\ t \notin Inside(t)'
  BY <1>1 DEF OnlyMoves, Inside
<1>4. QED
  BY <1>2, <1>3 DEF GivenUp

(* What does not concern the message of t.                                 *)
Untouched(t) ==
  /\ memory'[t] = memory[t] /\ pc'[t] = pc[t] /\ at'[t] = at[t]
  /\ message_counter'[t] = message_counter[t]
  /\ semaphore'[t].state = semaphore[t].state /\ segment'[t].state = segment[t].state

LEMMA UntouchedMessage ==
  ASSUME Typed, LocalTypes, SenderIds, ReceiverIds, Seats, [Next]_vars,
         NEW t \in Senders, Message(t), Untouched(t)
  PROVE  Message(t)'
<1>1. mishap' # t => mishap # t
  BY StoppedForGood
<1>2. Up(t)' <=> Up(t)
  BY DEF Up, Untouched
<1>3. GivenUp(t) /\ Up(t) /\ mishap' # t => GivenUp(t)'
  BY <1>2, GivenUpStays DEF GivenUp, Untouched
<1>4. /\ HalfWritten(t)' <=> HalfWritten(t)
      /\ IsWhole(memory[t])' <=> IsWhole(memory[t])
  BY DEF HalfWritten, IsWhole, Untouched
<1>5. QED
  BY <1>1, <1>2, <1>3, <1>4 DEF Message, Untouched, NoMessage

(* The program of the sender itself, one step at a time.                   *)
LEMMA WriteMessage ==
  ASSUME Typed, LocalTypes, SenderIds, NEW t \in Senders, Message(t), WritePiece(t)
  PROVE  Message(t)'
<1>1. /\ pc[t] = "copy" /\ semaphore[t].state = "present" /\ semaphore' = semaphore
      /\ segment' = segment /\ message_counter' = message_counter /\ mishap' = mishap
      /\ memory' = [memory EXCEPT ![t] = [memory[t] EXCEPT ![at[t]] = message_counter[t]]]
  BY DEF WritePiece, SenderIds, OwnIds, HasSemaphore, ipc
<1>2. /\ at[t] \in 1..Pieces /\ memory[t] \in [1..Pieces -> 0..Numbers]
      /\ memory'[t] = [memory[t] EXCEPT ![at[t]] = message_counter[t]]
  BY <1>1 DEF LocalTypes
<1>3. \/ at[t] < Pieces /\ at'[t] = at[t] + 1 /\ pc'[t] = "copy"
      \/ at[t] >= Pieces /\ at'[t] = 1 /\ pc'[t] = "unlock"
  <2>1. DOMAIN at = Senders /\ DOMAIN pc = Processes /\ at[t] \in Int /\ Pieces \in Int
    BY <1>2, Domains DEF Typed
  <2>2. IF at[t] < Pieces THEN at' = [at EXCEPT ![t] = at[t] + 1] /\ pc' = pc
        ELSE at' = [at EXCEPT ![t] = 1] /\ pc' = [pc EXCEPT ![t] = "unlock"]
    BY DEF WritePiece, Goto
  <2>3. QED
    BY <1>1, <2>1, <2>2 DEF Processes
<1>4. ASSUME HalfWritten(t), at[t] < Pieces PROVE HalfWritten(t)'
  <2>1. \A k \in 1..Pieces : memory'[t][k] = IF k = at[t] THEN message_counter[t] ELSE memory[t][k]
    BY <1>2
  <2>2. at'[t] = at[t] + 1 /\ message_counter'[t] = message_counter[t] /\ at[t] \in Int
    BY <1>1, <1>2, <1>3, <1>4
  <2>3. QED
    BY <2>1, <2>2, <1>4 DEF HalfWritten
<1>5. ASSUME HalfWritten(t), at[t] >= Pieces PROVE IsWhole(memory[t])'
  <2>1. \A k \in 1..Pieces : memory'[t][k] = IF k = at[t] THEN message_counter[t] ELSE memory[t][k]
    BY <1>2
  <2>2. \A k \in 1..Pieces : memory'[t][k] = message_counter[t]
    BY <2>1, <1>2, <1>5 DEF HalfWritten
  <2>3. 1 \in 1..Pieces
    OBVIOUS
  <2>4. QED
    BY <2>2, <2>3 DEF IsWhole
<1>6. Up(t)' <=> Up(t)
  BY <1>1 DEF Up
<1>7. QED
  BY <1>1, <1>3, <1>4, <1>5, <1>6 DEF Message

LEMMA NextMessages ==
  ASSUME Typed, Typed', LocalTypes, SenderIds, SenderIds', ReceiverIds, Seats, Messages, [Next]_vars
  PROVE  Messages'
<1> SUFFICES ASSUME NEW t \in Senders, Message(t), ~Untouched(t)
             PROVE  Message(t)'
  BY UntouchedMessage DEF Messages
<1> USE DEF Goto, Processes
<1>1. ASSUME NEW s \in Senders,
             CreateKeyFile(s) \/ Refused(s) \/ InstallHandlers(s) \/ AlreadyExists(s)
             \/ StoreSegmentId(s) \/ StoreSemaphoreId(s) \/ RemoveKeyFile(s) \/ SignalAgain(s)
      PROVE  Message(t)'
  <2>1. /\ semaphore' = semaphore /\ segment' = segment /\ memory' = memory /\ at' = at
        /\ mishap' # t => mishap # t
        /\ \A q \in Senders : q # s => pc'[q] = pc[q]
        /\ message_counter' = message_counter
    BY <1>1, StoppedForGood DEF CreateKeyFile, Refused, InstallHandlers, AlreadyExists, RemoveKeyFile, SignalAgain,
                StoreSegmentId, StoreSemaphoreId, ipc, locals, Typed
  <2>2. t = s
    BY <2>1 DEF Untouched
  <2>3. /\ pc[t] # "copy" /\ pc'[t] # "copy"
        /\ pc[t] \notin {"rmid_shm", "ended"} \/ pc'[t] = pc[t]
    BY <1>1, <2>2 DEF CreateKeyFile, Refused, InstallHandlers, AlreadyExists, RemoveKeyFile, SignalAgain,
                StoreSegmentId, StoreSemaphoreId, Typed
  <2>4. pc'[t] # pc[t]
    BY <2>1 DEF Untouched
  <2>5. QED
    BY <2>1, <2>3, <2>4 DEF Message, GivenUp, Up, IsWhole, NoMessage
<1>2. ASSUME NEW s \in Senders, WritePiece(s)
      PROVE  Message(t)'
  <2>1. t = s
    BY <1>2, Domains DEF WritePiece, Untouched, ipc, Typed
  <2>2. QED
    BY <1>2, <2>1, WriteMessage
<1>3. ASSUME NEW s \in Senders, CreateSegment(s)
      PROVE  Message(t)'
  <2>1. t = s
    BY <1>3 DEF CreateSegment, Untouched, locals, Typed
  <2>2. semaphore[t].state = "absent" /\ semaphore' = semaphore /\ pc[t] # "copy" /\ pc'[t] # "copy"
        /\ memory' = memory /\ at' = at
    BY <1>3, <2>1 DEF CreateSegment, locals, Typed, SenderIds, OwnIds, Unset
  <2>3. QED
    BY <2>2 DEF Message, Up, NoMessage
<1>4. ASSUME NEW s \in Senders, CreateSemaphore(s)
      PROVE  Message(t)'
  <2>1. t = s
    BY <1>4 DEF CreateSemaphore, Untouched, locals, Typed
  <2>2. /\ semaphore[t].state = "absent" /\ semaphore'[t].state = "present" /\ pc[t] # "copy" /\ pc'[t] # "copy"
        /\ memory' = memory /\ at' = at
    BY <1>4, <2>1 DEF CreateSemaphore, locals, Typed, SenderIds, OwnIds, Unset
  <2>3. memory[t] = NoMessage /\ IsWhole(NoMessage)
    BY <2>2 DEF Message, IsWhole, NoMessage
  <2>4. QED
    BY <2>2, <2>3 DEF Message
<1>5. ASSUME NEW s \in Senders, SetVal(s)
      PROVE  Message(t)'
  <2>1. \A q \in Senders : semaphore'[q].state = semaphore[q].state
    BY <1>5, ValueChange DEF SetVal, Typed
  <2>2. /\ segment' = segment /\ memory' = memory /\ at' = at /\ mishap' = mishap
        /\ \A q \in Senders : q # s => pc'[q] = pc[q]
        /\ message_counter' = message_counter
        /\ pc[s] = "setval" /\ pc'[s] = "lock"
    BY <1>5 DEF SetVal, locals, Typed
  <2>3. t = s
    BY <2>1, <2>2 DEF Untouched
  <2>4. QED
    BY <2>1, <2>2, <2>3 DEF Message, GivenUp, Up, IsWhole, NoMessage
<1>6. ASSUME NEW s \in Senders, SenderLock(s)
      PROVE  Message(t)'
  <2>1. \A q \in Senders : semaphore'[q].state = semaphore[q].state
    BY <1>6, EnterEffect DEF SenderLock
  <2>2. /\ segment' = segment /\ memory' = memory /\ at' = at /\ mishap' = mishap
        /\ \A q \in Senders : q # s => pc'[q] = pc[q] /\ message_counter'[q] = message_counter[q]
        /\ pc[s] = "lock" /\ pc'[s] = "copy"
    BY <1>6, Domains DEF SenderLock, CountMessage, Typed
  <2>3. t = s
    BY <2>1, <2>2 DEF Untouched
  <2>4. at'[t] = 1 /\ (Up(t)' <=> Up(t))
    BY <2>1, <2>2, <2>3 DEF Message, Up
  <2>5. IsWhole(memory[t]) => HalfWritten(t)'
    BY <2>2, <2>4 DEF IsWhole, HalfWritten
  <2>6. semaphore[t].state = "present"
    BY <2>2, <2>3 DEF SenderIds, OwnIds, HasSemaphore
  <2>7. QED
    BY <2>1, <2>2, <2>3, <2>4, <2>5, <2>6 DEF Message, GivenUp
<1>7. ASSUME NEW s \in Senders, SenderUnlock(s)
      PROVE  Message(t)'
  <2>1. \A q \in Senders : semaphore'[q].state = semaphore[q].state
    BY <1>7, LeaveEffect DEF SenderUnlock
  <2>2. /\ segment' = segment /\ memory' = memory /\ at' = at /\ mishap' = mishap
        /\ \A q \in Senders : q # s => pc'[q] = pc[q]
        /\ message_counter' = message_counter
        /\ pc[s] = "unlock" /\ pc'[s] = "sleep"
    BY <1>7 DEF SenderUnlock, locals, Typed
  <2>3. t = s
    BY <2>1, <2>2 DEF Untouched
  <2>4. QED
    BY <2>1, <2>2, <2>3 DEF Message, GivenUp, Up, IsWhole, NoMessage
<1>8. ASSUME NEW s \in Senders, RemoveSegment(s)
      PROVE  Message(t)'
  <2>1. /\ semaphore' = semaphore /\ at' = at /\ mishap' = mishap
        /\ memory'[t] = memory[t] \/ memory'[t] = NoMessage
        /\ t # s => memory'[t] = memory[t] /\ pc'[t] = pc[t]
        /\ message_counter' = message_counter
        /\ pc[s] = "rmid_shm" /\ pc'[s] = "rmid_sem"
    BY <1>8, Domains DEF RemoveSegment, locals, Typed
  <2>2. shared_memory_id[s] # NoId => shared_memory_id[s] = s
    BY DEF SenderIds, OwnIds
  <2>3. t = s
    BY <1>8, <2>1, <2>2, SegmentRemoval DEF Untouched
  <2>4. semaphore[t].state # "absent" => segment'[t].state = "removed"
    BY <1>8, <2>3, SegmentRemoval DEF SenderIds, OwnIds
  <2>5. QED
    BY <2>1, <2>3, <2>4 DEF Message, Up, NoMessage
<1>9. ASSUME NEW s \in Senders, RemoveSemaphore(s)
      PROVE  Message(t)'
  <2>1. /\ segment' = segment /\ at' = at /\ memory' = memory /\ mishap' = mishap
        /\ t # s => pc'[t] = pc[t]
        /\ message_counter' = message_counter
        /\ pc[s] = "rmid_sem" /\ pc'[s] = "remove"
    BY <1>9 DEF RemoveSemaphore, locals, Typed
  <2>2. \/ semaphore'[t] = semaphore[t]
        \/ semaphore'[t].state = "removed" /\ t = s
    <3>1. semaphore_id[s] \in {NoId, s}
      BY DEF SenderIds, OwnIds
    <3>2. QED
      BY <1>9, <3>1, SemaphoreRemoval DEF RemoveSemaphore, Typed
  <2>3. t = s
    BY <2>1, <2>2 DEF Untouched
  <2>4. QED
    BY <2>1, <2>2, <2>3 DEF Message, Up, NoMessage, GivenUp
<1>10. ASSUME NEW s \in Senders, Signal(s)
       PROVE  Message(t)'
  <2>1. /\ semaphore' = semaphore /\ segment' = segment /\ memory' = memory /\ mishap' = mishap
        /\ OnlyMoves(s) /\ \A q \in Senders : q # s => at'[q] = at[q] /\ message_counter'[q] = message_counter[q]
        /\ pc[s] \notin {"rmid_shm", "ended"} /\ pc'[s] = "rmid_shm" /\ at'[s] = 1
    BY <1>10, Domains DEF Signal, Forget, OnlyMoves, Typed, ipc, ids
  <2>2. t = s
    BY <2>1 DEF Untouched, OnlyMoves
  <2>3. CASE pc[t] = "copy"
    BY <2>1, <2>2, <2>3, CutShort DEF Message, NoMessage
  <2>4. CASE pc[t] # "copy"
    BY <2>1, <2>2, <2>4 DEF Message, Up, GivenUp, IsWhole, NoMessage
  <2>5. QED
    BY <2>3, <2>4
<1>11. ASSUME NEW p \in Processes, Killed(p)
       PROVE  Message(t)'
  <2>1. /\ semaphore' = semaphore /\ segment' = segment /\ mishap' = mishap
        /\ OnlyMoves(p) /\ pc'[p] = "ended"
        /\ memory'[t] = memory[t] \/ (segment[t].state = "removed" /\ memory'[t] = NoMessage)
        /\ t # p => at'[t] = at[t] /\ message_counter'[t] = message_counter[t]
        /\ t = p => at'[t] = 1
    BY <1>11, Domains DEF Killed, Forget, Detach, Removed, OnlyMoves, Typed, ipc, ids
  <2>2. CASE t # p
    <3>1. segment[t].state = "removed" /\ memory'[t] = NoMessage
      BY <2>1, <2>2 DEF Untouched, OnlyMoves
    <3>2. pc'[t] = pc[t]
      BY <2>1, <2>2 DEF OnlyMoves
    <3>3. QED
      BY <2>1, <2>2, <3>1, <3>2 DEF Message, Up, NoMessage
  <2>3. CASE t = p /\ pc[t] = "copy"
    BY <2>1, <2>3, CutShort DEF Message, Up, NoMessage
  <2>4. CASE t = p /\ pc[t] # "copy"
    <3>1. GivenUp(t) => GivenUp(t)'
      BY <2>1, <2>4 DEF GivenUp, Inside, OnlyMoves
    <3>2. QED
      BY <2>1, <2>4, <3>1 DEF Message, Up, IsWhole, NoMessage
  <2>5. QED
    BY <2>2, <2>3, <2>4
<1>12. ASSUME NEW p \in Processes, Ftok(p) \/ Wake(p)
       PROVE  Message(t)'
  <2>1. /\ semaphore' = semaphore /\ segment' = segment /\ memory' = memory /\ at' = at
        /\ mishap' = mishap /\ message_counter' = message_counter
        /\ \A q \in Senders : q # p => pc'[q] = pc[q]
    BY <1>12 DEF Ftok, Wake, ipc, locals, Typed
  <2>2. t = p
    BY <2>1 DEF Untouched
  <2>3. pc[t] \notin {"copy", "rmid_shm", "ended"} /\ pc'[t] # "copy"
    BY <1>12, <2>2 DEF Ftok, Wake, Typed
  <2>4. QED
    BY <2>1, <2>3 DEF Message, GivenUp, Up, IsWhole, NoMessage
<1>12a. ASSUME NEW p \in Processes, Resume(p)
        PROVE  Message(t)'
  <2>1. /\ semaphore' = semaphore /\ segment' = segment /\ memory' = memory /\ at' = at
        /\ \A q \in Senders : q # p => pc'[q] = pc[q]
        /\ \A q \in Senders : q # p => message_counter'[q] = message_counter[q]
        /\ pc[p] = "lock" /\ pc'[p] = "copy" /\ mishap' = semaphore_id[p]
    BY <1>12a, Domains DEF Resume, CountMessage, ipc, Typed
  <2>2. t = p
    BY <2>1 DEF Untouched
  <2>3. mishap' = t
    BY <2>1, <2>2 DEF SenderIds, OwnIds, HasSemaphore
  <2>4. QED
    BY <2>1, <2>2, <2>3 DEF Message, NoMessage
<1>13. ASSUME NEW r \in Receivers, FindSegment(r) \/ Attach(r) \/ FindSemaphore(r) \/ ReadPiece(r)
       PROVE  Untouched(t)
  BY <1>13 DEF FindSegment, Attach, FindSemaphore, ReadPiece, Untouched, ipc, locals, Typed
<1>14. ASSUME NEW r \in Receivers, ReceiverLock(r) \/ ReceiverUnlock(r)
       PROVE  Untouched(t)
  BY <1>14, EnterEffect, LeaveEffect DEF ReceiverLock, ReceiverUnlock, Untouched, locals, Typed
<1>15. CASE UNCHANGED vars
  BY <1>15 DEF vars, ipc, locals, Untouched
<1>16. QED
  BY <1>1, <1>2, <1>3, <1>4, <1>5, <1>6, <1>7, <1>8, <1>9, <1>10, <1>11, <1>12, <1>12a,
     <1>13, <1>14, <1>15
     DEF Next, SenderStep, ReceiverStep, AllEnded

-----------------------------------------------------------------------------
(* As long as r listens, nothing is written into the memory it copies.     *)
LEMMA NobodyWrites ==
  ASSUME Typed, LocalTypes, SenderIds, ReceiverIds, OnePerKey, Seats,
         NEW r \in Receivers, Listening(r), mishap # semaphore_id[r]
  PROVE  /\ shared_memory_id[r] \in Senders /\ segment[shared_memory_id[r]].state = "present"
         /\ pc[shared_memory_id[r]] # "copy"
         /\ \/ semaphore[shared_memory_id[r]].state = "absent"
            \/ /\ shared_memory_id[r] = semaphore_id[r]
               /\ Up(shared_memory_id[r]) /\ ~GivenUp(shared_memory_id[r])
<1> DEFINE s == shared_memory_id[r]
           t == semaphore_id[r]
<1>1. /\ s \in Senders /\ t \in Senders /\ ipc_key[s] = ipc_key[t]
      /\ segment[s].state \notin {"absent", "removed"}
      /\ semaphore[t].state \notin {"absent", "removed"}
  BY DEF Listening, Removed, ReceiverIds, FoundIds, HasSegment, HasSemaphore
<1>2. segment[s].state = "present" /\ semaphore[t].state = "present"
  BY <1>1 DEF Typed, Segments, Semaphores, ObjectStates
<1>3. OwnIds(s) /\ semaphore[s].state # "removed"
  BY <1>1 DEF SenderIds, OwnIds
<1>4. r \in Inside(t) /\ r # s
  BY <1>1 DEF Listening, Inside, Processes
<1>5. Inside(t) = {r}
  BY <1>1, <1>2, <1>4, OneInside
<1>6. CASE semaphore[s].state = "present"
  <2>1. s = t
    BY <1>1, <1>2, <1>6 DEF OnePerKey
  <2>2. pc[s] # "copy"
    BY <2>1, <1>1, <1>3, <1>4, <1>5 DEF OwnIds, HasSemaphore, Inside, Processes
  <2>3. Up(s) /\ ~GivenUp(s)
    BY <2>1, <1>2, <1>4 DEF Up, GivenUp
  <2>4. QED
    BY <1>1, <1>2, <2>1, <2>2, <2>3
<1>7. CASE semaphore[s].state = "absent"
  BY <1>1, <1>2, <1>3, <1>7 DEF OwnIds, HasSemaphore
<1>8. QED
  BY <1>1, <1>3, <1>6, <1>7 DEF Typed, Semaphores, ObjectStates

(* What a receiver copies from is whole.                                   *)
LEMMA ListensToWhole ==
  ASSUME Typed, LocalTypes, SenderIds, ReceiverIds, OnePerKey, Seats, Messages,
         NEW r \in Receivers, Listening(r), mishap # semaphore_id[r]
  PROVE  IsWhole(memory[shared_memory_id[r]])
<1>1. CASE semaphore[shared_memory_id[r]].state = "absent"
  BY <1>1, NobodyWrites DEF Messages, Message, IsWhole, NoMessage
<1>2. CASE /\ shared_memory_id[r] = semaphore_id[r]
           /\ Up(shared_memory_id[r]) /\ ~GivenUp(shared_memory_id[r])
  BY <1>2, NobodyWrites DEF Messages, Message
<1>3. QED
  BY <1>1, <1>2, NobodyWrites

LEMMA NextCopies ==
  ASSUME Typed, Typed', LocalTypes, LocalTypes', SenderIds, ReceiverIds, OnePerKey, Seats, Messages,
         Copies, [Next]_vars
  PROVE  Copies'
<1> SUFFICES ASSUME NEW r \in Receivers, CopyOf(r)
             PROVE  CopyOf(r)'
  BY DEF Copies
<1> USE DEF Goto, Processes
<1> DEFINE Still == /\ copy'[r] = copy[r] /\ pc'[r] = pc[r]
                    /\ shared_memory_id'[r] = shared_memory_id[r] /\ semaphore_id'[r] = semaphore_id[r]
           MemoryStays == Listening(r)' /\ Listening(r) /\ mishap # semaphore_id[r] =>
                            memory'[shared_memory_id[r]] = memory[shared_memory_id[r]]
<1>1. ASSUME Still, MemoryStays PROVE CopyOf(r)'
  <2>1. Listening(r)' => Listening(r)
    <3>1. ASSUME Listening(r)'
          PROVE  Listening(r)
      <4>1. pc[r] \in {"copy", "unlock"} /\ shared_memory_id[r] \in Senders /\ semaphore_id[r] \in Senders
        BY <1>1, <3>1 DEF Listening, ReceiverIds, FoundIds, HasSegment, HasSemaphore
      <4>2. QED
        BY <1>1, <3>1, <4>1, RemovedStays DEF Listening, Removed
    <3>2. QED
      BY <3>1
  <2>2. Listening(r) => (mishap = semaphore_id[r] => mishap' = semaphore_id[r])
    BY StoppedForGood DEF Listening, ReceiverIds, FoundIds, HasSemaphore
  <2>3. QED
    BY <1>1, <2>1, <2>2 DEF CopyOf
<1>2. ASSUME NEW s \in Senders,
             CreateKeyFile(s) \/ Refused(s) \/ InstallHandlers(s) \/ AlreadyExists(s) \/ RemoveKeyFile(s)
             \/ SignalAgain(s) \/ StoreSegmentId(s) \/ StoreSemaphoreId(s) \/ CreateSegment(s)
             \/ CreateSemaphore(s) \/ SetVal(s)
      PROVE  CopyOf(r)'
  <2>1. CASE CreateKeyFile(s) \/ Refused(s) \/ InstallHandlers(s) \/ AlreadyExists(s) \/ RemoveKeyFile(s)
    <3>1. Still /\ memory' = memory
      BY <2>1 DEF CreateKeyFile, Refused, InstallHandlers, AlreadyExists, RemoveKeyFile, ids, locals, Typed
    <3>2. QED
      BY <1>1, <3>1
  <2>2. CASE StoreSegmentId(s) \/ StoreSemaphoreId(s) \/ SignalAgain(s)
    <3>1. s # r /\ DOMAIN pc = Processes /\ DOMAIN shared_memory_id = Processes /\ DOMAIN semaphore_id = Processes
      BY DEF Typed
    <3>2. CASE StoreSegmentId(s)
      BY <1>1, <3>1, <3>2 DEF StoreSegmentId, locals
    <3>3. CASE StoreSemaphoreId(s)
      BY <1>1, <3>1, <3>3 DEF StoreSemaphoreId, locals
    <3>4. CASE SignalAgain(s)
      BY <1>1, <3>1, <3>4 DEF SignalAgain, ids, locals
    <3>5. QED
      BY <2>2, <3>2, <3>3, <3>4
  <2>3. CASE CreateSegment(s) \/ CreateSemaphore(s) \/ SetVal(s)
    <3>1. Still /\ memory' = memory
      BY <2>3 DEF CreateSegment, CreateSemaphore, SetVal, ids, locals, Typed
    <3>2. QED
      BY <1>1, <3>1
  <2>4. QED
    BY <1>2, <2>1, <2>2, <2>3
<1>3. ASSUME NEW s \in Senders,
             Signal(s) \/ SenderLock(s) \/ SenderUnlock(s) \/ RemoveSemaphore(s)
      PROVE  CopyOf(r)'
  <2>1. Still /\ memory' = memory
    BY <1>3 DEF Signal, SenderLock, SenderUnlock, RemoveSemaphore, Forget, ids, locals, Typed
  <2>2. QED
    BY <1>1, <2>1
<1>4. ASSUME NEW s \in Senders, WritePiece(s)
      PROVE  CopyOf(r)'
  <2>1. Still /\ pc[s] = "copy"
    BY <1>4 DEF WritePiece, ids, Typed
  <2>2. \A t : t # s => memory'[t] = memory[t]
    BY <1>4, Domains DEF WritePiece
  <2>3. MemoryStays
    BY <2>1, <2>2, NobodyWrites
  <2>4. QED
    BY <1>1, <2>1, <2>3
<1>5. ASSUME NEW s \in Senders, RemoveSegment(s)
      PROVE  CopyOf(r)'
  <2>1. Still
    BY <1>5 DEF RemoveSegment, ids, locals, Typed
  <2>2. \A t : t # s => memory'[t] = memory[t]
    BY <1>5, Domains DEF RemoveSegment
  <2>3. MemoryStays
    <3>1. SUFFICES ASSUME Listening(r)', Listening(r), shared_memory_id[r] = s
                   PROVE  memory'[s] = memory[s]
      BY <2>2
    <3>2. segment'[s].state # "removed"
      BY <2>1, <3>1 DEF Listening, Removed
    <3>3. shared_memory_id[s] # s
      BY <1>5, <3>2, SegmentRemoval
    <3>4. memory[s] = NoMessage
      BY <3>3 DEF SenderIds, OwnIds, Messages, Message
    <3>5. QED
      BY <1>5, <3>4 DEF RemoveSegment, LocalTypes
  <2>4. QED
    BY <1>1, <2>1, <2>3
<1>6. ASSUME NEW p \in Processes, Ftok(p) \/ Wake(p)
      PROVE  CopyOf(r)'
  <2>1. CASE p # r
    <3>1. Still /\ memory' = memory
      BY <1>6, <2>1 DEF Ftok, Wake, ids, locals, Typed
    <3>2. QED
      BY <1>1, <3>1
  <2>2. CASE p = r
    <3>1. copy' = copy /\ pc[r] \notin {"copy", "unlock"} /\ pc'[r] \notin {"copy", "unlock"}
      BY <1>6, <2>2 DEF Ftok, Wake, locals, Typed
    <3>2. QED
      BY <3>1 DEF CopyOf, Listening
  <2>3. QED
    BY <2>1, <2>2
<1>7. ASSUME NEW p \in Processes, Resume(p)
      PROVE  CopyOf(r)'
  <2>1. CASE p # r
    <3>1. Still /\ memory' = memory
      BY <1>7, <2>1 DEF Resume, ids, Typed
    <3>2. QED
      BY <1>1, <3>1
  <2>2. CASE p = r
    <3>1. copy' = copy /\ pc[r] = "lock" /\ pc'[r] = "copy"
      BY <1>7, <2>2 DEF Resume, Typed
    <3>2. copy'[r] = <<>> /\ Len(<<>>) = 0 /\ 0 < Pieces
      BY <3>1 DEF CopyOf
    <3>3. QED
      BY <3>1, <3>2 DEF CopyOf
  <2>3. QED
    BY <2>1, <2>2
<1>8. ASSUME NEW p \in Processes, Killed(p)
      PROVE  CopyOf(r)'
  <2>1. CASE p # r
    <3>1. Still
      BY <1>8, <2>1, Domains DEF Killed, Forget, ids, Typed
    <3>2. MemoryStays
      BY <1>8, NobodyWrites DEF Killed, Detach, Removed
    <3>3. QED
      BY <1>1, <3>1, <3>2
  <2>2. CASE p = r
    <3>1. copy'[r] = <<>> /\ pc'[r] = "ended"
      BY <1>8, <2>2, Domains DEF Killed, Forget, Typed
    <3>2. QED
      BY <3>1 DEF CopyOf, Listening
  <2>3. QED
    BY <2>1, <2>2
<1>9. ASSUME NEW q \in Receivers, q # r, ReceiverStep(q)
      PROVE  CopyOf(r)'
  <2>1. CASE ReadPiece(q) \/ ReceiverUnlock(q)
    <3>1. Still /\ memory' = memory
      BY <1>9, <2>1, Domains DEF ReadPiece, ReceiverUnlock, ids, Typed
    <3>2. QED
      BY <1>1, <3>1
  <2>2. CASE FindSegment(q) \/ Attach(q) \/ FindSemaphore(q) \/ ReceiverLock(q)
    <3>1. Still /\ memory' = memory
      BY <1>9, <2>2 DEF FindSegment, Attach, FindSemaphore, ReceiverLock, ids, locals, Typed
    <3>2. QED
      BY <1>1, <3>1
  <2>3. QED
    BY <1>6, <1>9, <2>1, <2>2 DEF ReceiverStep
<1>10. CASE FindSegment(r) \/ Attach(r) \/ FindSemaphore(r)
  <2>1. copy' = copy /\ pc[r] \notin {"copy", "unlock"} /\ pc'[r] \notin {"copy", "unlock"}
    BY <1>10 DEF FindSegment, Attach, FindSemaphore, locals, Typed
  <2>2. QED
    BY <2>1 DEF CopyOf, Listening
<1>11. CASE ReceiverLock(r)
  <2>1. copy' = copy /\ pc[r] = "lock" /\ pc'[r] = "copy"
    BY <1>11 DEF ReceiverLock, locals, Typed
  <2>2. copy'[r] = <<>> /\ Len(<<>>) = 0 /\ 0 < Pieces
    BY <2>1 DEF CopyOf
  <2>3. QED
    BY <2>1, <2>2 DEF CopyOf
<1>12. CASE ReadPiece(r)
  <2>1. /\ memory' = memory /\ pc[r] = "copy" /\ mishap' = mishap
        /\ segment' = segment /\ semaphore' = semaphore /\ shared_memory_id' = shared_memory_id
        /\ semaphore_id' = semaphore_id
    BY <1>12 DEF ReadPiece, ipc, ids
  <2>2. /\ copy[r] \in Seq(0..Numbers) /\ Len(copy[r]) < Pieces /\ Len(copy[r]) \in Nat
        /\ shared_memory_id[r] \in Senders
    BY <2>1, Domains DEF CopyOf, ReceiverIds, FoundIds, HasSegment
  <2> DEFINE m == memory[shared_memory_id[r]]
             n == Len(copy[r])
  <2>3. m[n + 1] \in 0..Numbers
    <3>1. m \in [1..Pieces -> 0..Numbers]
      BY <2>2, Domains
    <3> HIDE DEF m
    <3>2. n + 1 \in 1..Pieces
      BY <2>2
    <3>3. QED
      BY <3>1, <3>2
  <2>4. copy'[r] = Append(copy[r], m[n + 1])
    BY <1>12, Domains DEF ReadPiece
  <2>5. /\ Len(copy'[r]) = n + 1
        /\ \A k \in 1..(n + 1) : copy'[r][k] = IF k = n + 1 THEN m[n + 1] ELSE copy[r][k]
    <3> HIDE DEF m
    <3>1. QED
      BY <2>2, <2>3, <2>4
  <2>6. IF n + 1 < Pieces THEN pc'[r] = "copy" ELSE pc'[r] = "unlock"
    <3>1. IF Len(copy'[r]) < Pieces THEN pc' = pc ELSE pc' = [pc EXCEPT ![r] = "unlock"]
      BY <1>12, <2>4, Domains DEF ReadPiece
    <3>2. QED
      BY <2>1, <2>5, <3>1 DEF Typed
  <2>7. Listening(r)' => Listening(r)
    BY <2>1 DEF Listening
  <2>8. mishap' # semaphore_id'[r] /\ Listening(r)' =>
          \A k \in 1..(n + 1) : copy'[r][k] = memory'[shared_memory_id'[r]][k]
    <3>1. mishap # semaphore_id[r] /\ Listening(r) => \A k \in 1..n : copy[r][k] = m[k]
      BY DEF CopyOf
    <3>2. \A k \in 1..(n + 1) : k = n + 1 \/ k \in 1..n
      BY <2>2
    <3>3. memory'[shared_memory_id'[r]] = m
      BY <2>1
    <3> HIDE DEF m, n
    <3>4. QED
      BY <2>1, <2>5, <2>7, <3>1, <3>2, <3>3
  <2>9. n + 1 <= Pieces
    BY <2>2
  <2>10. QED
    BY <2>2, <2>5, <2>6, <2>8, <2>9 DEF CopyOf
<1>13. CASE ReceiverUnlock(r)
  <2>1. copy'[r] = <<>> /\ pc'[r] = "sleep"
    BY <1>13, Domains DEF ReceiverUnlock, Typed
  <2>2. QED
    BY <2>1 DEF CopyOf, Listening
<1>14. CASE UNCHANGED vars
  BY <1>1, <1>14 DEF vars, ids, locals
<1>15. QED
  BY <1>2, <1>3, <1>4, <1>5, <1>6, <1>7, <1>8, <1>9, <1>10, <1>11, <1>12, <1>13, <1>14
     DEF Next, SenderStep, ReceiverStep, AllEnded

-----------------------------------------------------------------------------
LEMMA InitMessageInv == Init => MessageInv
<1> SUFFICES ASSUME Init PROVE MessageInv
  OBVIOUS
<1>1. Typed
  BY InitIInv DEF IInv
<1>2. LocalTypes
  <2>1. 1 \in 1..Pieces /\ 0 \in 0..Numbers
    OBVIOUS
  <2>2. <<>> \in Seq(0..Numbers)
    OBVIOUS
  <2>3. memory \in [Senders -> [1..Pieces -> 0..Numbers]]
    BY NoMessageType DEF Init
  <2>4. /\ at \in [Senders -> 1..Pieces] /\ message_counter \in [Senders -> 0..Numbers]
        /\ copy \in [Receivers -> Seq(0..Numbers)]
    BY <2>1, <2>2 DEF Init
  <2>5. QED
    BY <2>3, <2>4 DEF Init, LocalTypes
<1>3. SenderIds /\ ReceiverIds /\ OnePerKey
  BY DEF Init, Absent, SenderIds, OwnIds, ReceiverIds, FoundIds, OnePerKey, HasSegment, HasSemaphore,
         Unset, Processes
<1>4. Seats
  <2>1. ASSUME NEW s \in Senders PROVE Inside(s) = {}
    BY DEF Init, Inside, Processes
  <2>2. ASSUME NEW s \in Senders PROVE Seat(s)
    <3>1. semaphore[s] = [key |-> NoKey, state |-> "absent", value |-> 0]
      BY DEF Init
    <3>2. QED
      BY <2>1, <3>1, FS_EmptySet DEF Seat
  <2>3. QED
    BY <2>2 DEF Seats
<1>5. Messages
  BY DEF Init, Messages, Message, Up, Absent, Processes
<1>6. Copies
  BY DEF Init, Copies, CopyOf, Listening, Processes
<1>7. QED
  BY <1>1, <1>2, <1>3, <1>4, <1>5, <1>6 DEF MessageInv

LEMMA NextMessageInv == ASSUME MessageInv, [Next]_vars PROVE MessageInv'
<1> USE DEF MessageInv
<1>1. Typed'
  BY NextTyped
<1>2. LocalTypes'
  BY NextLocalTypes
<1>3. SenderIds'
  BY <1>1, NextSenderIds
<1>4. ReceiverIds'
  BY <1>1, NextReceiverIds
<1>5. OnePerKey'
  BY <1>1, NextOnePerKey
<1>6. Seats'
  BY <1>1, NextSeats
<1>7. Messages'
  BY <1>1, <1>3, NextMessages
<1>8. Copies'
  BY <1>1, <1>2, NextCopies
<1>9. QED
  BY <1>1, <1>2, <1>3, <1>4, <1>5, <1>6, <1>7, <1>8

(* No variable leaves its type; in particular the semaphore never counts   *)
(* further than 2, and no further than 1 unless a process was stopped in   *)
(* front of it (send.c:84-112, receive.c:68-83).                           *)
THEOREM ChannelTypes == Spec => []TypeOK
<1>1. Init => MessageInv
  BY InitMessageInv
<1>2. MessageInv /\ [Next]_vars => MessageInv'
  BY NextMessageInv
<1>3. MessageInv => TypeOK
  <2> SUFFICES ASSUME MessageInv PROVE TypeOK
    OBVIOUS
  <2>1. ASSUME NEW s \in Senders PROVE semaphore[s].value \in 0..2
    <3>1. Limit(s) \in 0..2
      BY DEF Limit
    <3>2. Cardinality(Inside(s)) \in Nat /\ semaphore[s].value \in Int /\ Seat(s)
      BY FS_CardinalityType, ValueIsInt DEF MessageInv, Seats, Seat, Typed
    <3>3. QED
      BY <3>1, <3>2 DEF Seat
  <2> DEFINE S == [key : Keys \cup {NoKey}, state : ObjectStates, value : 0..2]
  <2>2. ASSUME NEW o \in Semaphores, o.value \in 0..2 PROVE o \in S
    BY <2>2 DEF Semaphores
  <2>3. semaphore \in [Senders -> S]
    <3>1. semaphore \in [Senders -> Semaphores]
      BY DEF MessageInv, Typed
    <3> HIDE DEF S
    <3>2. QED
      BY <2>1, <2>2, <3>1
  <2>4. QED
    BY <2>3 DEF MessageInv, Typed, LocalTypes, TypeOK, Segments, ObjectStates
<1>4. QED
  BY <1>1, <1>2, <1>3, PTL DEF Spec

(* A receiver prints a mixture of two messages only while the channel is   *)
(* taken down, or when a process stopped in front of its semaphore was let *)
(* in: whoever is killed, and wherever, the semaphore keeps everybody else *)
(* out of a torn message (send.c:92-111, receive.c:68-82).                 *)
THEOREM MessagesAreWhole == Spec => []TornOnlyWhenTakenDown
<1>1. Init => MessageInv
  BY InitMessageInv
<1>2. MessageInv /\ [Next]_vars => MessageInv'
  BY NextMessageInv
<1>3. MessageInv => TornOnlyWhenTakenDown
  <2> SUFFICES ASSUME MessageInv, NEW r \in Receivers, pc[r] = "unlock", mishap # semaphore_id[r],
                      ~Removed(segment[shared_memory_id[r]]), ~Removed(semaphore[semaphore_id[r]])
               PROVE  IsWhole(copy[r])
    BY DEF TornOnlyWhenTakenDown
  <2>1. Listening(r)
    BY DEF Listening
  <2>2. IsWhole(memory[shared_memory_id[r]])
    BY <2>1, ListensToWhole DEF MessageInv
  <2>3. Len(copy[r]) = Pieces /\ \A k \in 1..Pieces : copy[r][k] = memory[shared_memory_id[r]][k]
    BY <2>1 DEF MessageInv, Copies, CopyOf
  <2>4. 1 \in 1..Pieces
    OBVIOUS
  <2>5. QED
    BY <2>2, <2>3, <2>4 DEF IsWhole
<1>4. QED
  BY <1>1, <1>2, <1>3, PTL DEF Spec
=============================================================================
