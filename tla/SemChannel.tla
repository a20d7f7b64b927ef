----------------------------- MODULE SemChannel -----------------------------
(***************************************************************************)
(* lab9_sems/send.c and receive.c: processes that share a System V memory  *)
(* segment guarded by a System V semaphore.  A sender owns the channel as  *)
(* long as its key file exists; it creates segment and semaphore under the *)
(* key ftok makes from the file, writes a message every three seconds, and *)
(* removes everything in its handler for SIGINT and SIGTERM.  A receiver   *)
(* attaches to what it finds under the key and prints once a second.       *)
(*                                                                         *)
(* Nothing looks at what semop returns, no operation is undone when a      *)
(* process dies (no SEM_UNDO), and any process can be killed at any point. *)
(* The key depends on the inode of the file, which a new file may or may   *)
(* not get again.  Segments and semaphores are named by the sender that    *)
(* created them: each creates at most one of each.                         *)
(***************************************************************************)
EXTENDS Integers, Sequences, FiniteSets

CONSTANTS
  Senders,      (* the processes that run send.c, each once                 *)
  Receivers,    (* the processes that run receive.c, each once              *)
  Keys,         (* what ftok can make of the key file's inode               *)
  Pieces,       (* how many pieces a message is copied in                   *)
  Numbers       (* bound: message_counter runs through 1..Numbers           *)

Processes == Senders \cup Receivers
NoKey  == "no file"
NoId   == "0"        (* the value the id variables start with               *)
NoMishap == "none"
SignalledTwice == "signalled twice"
SignalledAtExit == "signalled at exit"

ASSUME SemChannelAssumption ==
  /\ Senders \cap Receivers = {}
  /\ {NoId, NoMishap, SignalledTwice, SignalledAtExit} \cap Senders = {}
  /\ NoKey \notin Keys
  /\ Pieces \in Nat \ {0} /\ Numbers \in Nat \ {0}

VARIABLES
  keyFile,        (* the key of SHARED_MEM_KEY_FILE, or NoKey               *)
  segment,        (* segment[s]: its key, whether it has been removed ...   *)
  memory,         (* ... and the message each piece of it holds             *)
  semaphore,      (* semaphore[s]: its key, whether removed, its value      *)
  pc,
  ipc_key,
  shared_memory_id,
  semaphore_id,
  at,             (* the next piece a sender copies                         *)
  message_counter,
  copy,           (* what a receiver has copied of the message it prints    *)
  holds,          (* the processes that have taken a semaphore              *)
  mishap          (* the semaphore in whose semop some process was stopped  *)
                  (* and continued; SignalledTwice: a second signal,        *)
                  (* another than the first, has interrupted the handler of *)
                  (* some sender, or SignalledAtExit: after it has removed  *)
                  (* the key file; NoMishap.  Bound: there is at most one   *)

ipc   == <<keyFile, segment, semaphore>>
ids   == <<ipc_key, shared_memory_id, semaphore_id>>
locals == <<at, message_counter, copy>>
vars  == <<ipc, memory, pc, ids, locals, holds, mishap>>

Absent == [key |-> NoKey, state |-> "absent"]
NoMessage == [k \in 1..Pieces |-> 0]

Init ==
  /\ keyFile = NoKey
  /\ segment = [s \in Senders |-> Absent]
  /\ memory = [s \in Senders |-> NoMessage]
  /\ semaphore = [s \in Senders |->
                    [key |-> NoKey, state |-> "absent", value |-> 0]]
  /\ pc = [p \in Processes |-> IF p \in Senders THEN "open" ELSE "ftok"]
  /\ ipc_key = [p \in Processes |-> NoKey]
  /\ shared_memory_id = [p \in Processes |-> NoId]
  /\ semaphore_id = [p \in Processes |-> NoId]
  /\ at = [s \in Senders |-> 1]
  /\ message_counter = [s \in Senders |-> 0]
  /\ copy = [r \in Receivers |-> <<>>]
  /\ holds = {}
  /\ mishap = NoMishap

Goto(p, label) == pc' = [pc EXCEPT ![p] = label]

(* What a process has on its stack is gone when it ends or, as the handler *)
(* does not return, when its handler starts.                               *)
Forget(p) ==
  IF p \in Senders
  THEN /\ at' = [at EXCEPT ![p] = 1]
       /\ message_counter' = [message_counter EXCEPT ![p] = 0]
       /\ UNCHANGED copy
  ELSE copy' = [copy EXCEPT ![p] = <<>>] /\ UNCHANGED <<at, message_counter>>

(* (A process in exit counts as gone, though a signal can still reach it.) *)
Alive(p) == pc[p] \notin {"refused", "exit", "ended"}

Removed(object) == object.state = "removed"
Found(objects, key) ==
  {s \in Senders : objects[s].state = "present" /\ objects[s].key = key}

(* A removed segment lives on as long as some process has it attached.     *)
AttachedTo(s) ==
  {p \in Processes :
     /\ shared_memory_id[p] = s
     /\ pc[p] \in {"semget", "store_semid", "setval", "lock", "copy",
                   "unlock", "sleep"}}
Detach(p) ==
  memory' = [s \in Senders |-> IF Removed(segment[s]) /\ AttachedTo(s) \subseteq {p}
                               THEN NoMessage ELSE memory[s]]

-----------------------------------------------------------------------------
(* semop, for both programs: a step into or out of the critical section.   *)
(* A definition whose name ends in _Bug is a wrong version of the one that *)
(* follows it, there to be swapped in; nothing uses it.                    *)

Enter_Bug(p) ==
  /\ holds' = holds \cup {p}
  /\ UNCHANGED semaphore

Enter(p) ==
  LET sem == semaphore[semaphore_id[p]]
  IN  \/ /\ Removed(sem)
         /\ UNCHANGED <<semaphore, holds>>
      \/ /\ ~Removed(sem) /\ sem.value > 0
         /\ semaphore' = [semaphore EXCEPT ![semaphore_id[p]].value = @ - 1]
         /\ holds' = holds \cup {p}

Leave_Bug(p) == holds' = holds \ {p} /\ UNCHANGED semaphore

Leave(p) ==
  /\ holds' = holds \ {p}
  /\ semaphore' = IF Removed(semaphore[semaphore_id[p]]) THEN semaphore
                  ELSE [semaphore EXCEPT ![semaphore_id[p]].value = @ + 1]

(* The number of the message a sender is about to write.                   *)
CountMessage(s) == message_counter' = [message_counter EXCEPT ![s] = (@ % Numbers) + 1]

(* A process stopped and continued while it blocks in semop: the call      *)
(* fails with EINTR, and the process goes on as if it had the semaphore.   *)
Resume(p) ==
  /\ pc[p] = "lock" /\ mishap = NoMishap
  /\ ~Removed(semaphore[semaphore_id[p]]) /\ semaphore[semaphore_id[p]].value = 0
  /\ mishap' = semaphore_id[p]
  /\ Goto(p, "copy")
  /\ IF p \in Senders THEN CountMessage(p) ELSE UNCHANGED message_counter
  /\ UNCHANGED <<ipc, memory, ids, at, copy, holds>>

-----------------------------------------------------------------------------
(* send.c                                                                  *)

CreateKeyFile_Bug(s) ==
  /\ pc[s] = "open"
  /\ \E k \in Keys : keyFile' = k
  /\ Goto(s, "signal")
  /\ UNCHANGED <<segment, semaphore, memory, ids, locals,
                 holds, mishap>>

(* open with O_CREAT | O_EXCL                                              *)
CreateKeyFile(s) ==
  /\ pc[s] = "open"
  /\ keyFile = NoKey
  /\ \E k \in Keys : keyFile' = k
  /\ Goto(s, "signal")
  /\ UNCHANGED <<segment, semaphore, memory, ids, locals,
                 holds, mishap>>

(* "Another instance is already running"                                   *)
Refused(s) ==
  /\ pc[s] = "open"
  /\ keyFile # NoKey
  /\ Goto(s, "refused")
  /\ UNCHANGED <<ipc, memory, ids, locals, holds, mishap>>

InstallHandlers(s) ==
  /\ pc[s] = "signal"
  /\ Goto(s, "ftok")
  /\ UNCHANGED <<ipc, memory, ids, locals, holds, mishap>>

(* Shared by both programs; without the file, report_error.                *)
Ftok(p) ==
  /\ pc[p] = "ftok"
  /\ IF keyFile = NoKey
     THEN Goto(p, "ended") /\ UNCHANGED ipc_key
     ELSE Goto(p, "shmget") /\ ipc_key' = [ipc_key EXCEPT ![p] = keyFile]
  /\ UNCHANGED <<ipc, memory, shared_memory_id, semaphore_id, locals,
                 holds, mishap>>

(* shmget with IPC_EXCL creates the segment ...                            *)
CreateSegment(s) ==
  /\ pc[s] = "shmget"
  /\ Found(segment, ipc_key[s]) = {}
  /\ segment' = [segment EXCEPT ![s] = [key |-> ipc_key[s], state |-> "present"]]
  /\ Goto(s, "shmat")
  /\ UNCHANGED <<keyFile, semaphore, memory, ids, locals,
                 holds, mishap>>

(* ... and only then its id reaches the variable the handler reads.        *)
StoreSegmentId(s) ==
  /\ pc[s] = "shmat"
  /\ shared_memory_id' = [shared_memory_id EXCEPT ![s] = s]
  /\ Goto(s, "semget")
  /\ UNCHANGED <<ipc, memory, ipc_key, semaphore_id, locals, holds, mishap>>

CreateSemaphore(s) ==
  /\ pc[s] = "semget"
  /\ Found(semaphore, ipc_key[s]) = {}
  /\ semaphore' = [semaphore EXCEPT ![s] =
                     [key |-> ipc_key[s], state |-> "present", value |-> 0]]
  /\ Goto(s, "store_semid")
  /\ UNCHANGED <<keyFile, segment, memory, ids, locals,
                 holds, mishap>>

StoreSemaphoreId(s) ==
  /\ pc[s] = "store_semid"
  /\ semaphore_id' = [semaphore_id EXCEPT ![s] = s]
  /\ Goto(s, "setval")
  /\ UNCHANGED <<ipc, memory, ipc_key, shared_memory_id, locals, holds, mishap>>

SetVal(s) ==
  /\ pc[s] = "setval"
  /\ semaphore' = [semaphore EXCEPT ![s].value = 1]
  /\ Goto(s, "lock")
  /\ UNCHANGED <<keyFile, segment, memory, ids, locals,
                 holds, mishap>>

(* Something with that key is already there: report_error, and the key     *)
(* file stays behind.                                                      *)
AlreadyExists(s) ==
  /\ \/ pc[s] = "shmget" /\ Found(segment, ipc_key[s]) # {}
     \/ pc[s] = "semget" /\ Found(semaphore, ipc_key[s]) # {}
  /\ Goto(s, "ended")
  /\ UNCHANGED <<ipc, memory, ids, locals, holds, mishap>>

SenderLock(s) ==
  /\ pc[s] = "lock"
  /\ Enter(s)
  /\ CountMessage(s)
  /\ Goto(s, "copy")
  /\ UNCHANGED <<keyFile, segment, memory, ids, at, copy, mishap>>

WritePiece(s) ==
  /\ pc[s] = "copy"
  /\ memory' = [memory EXCEPT ![s][at[s]] = message_counter[s]]
  /\ IF at[s] < Pieces
     THEN at' = [at EXCEPT ![s] = @ + 1] /\ UNCHANGED pc
     ELSE at' = [at EXCEPT ![s] = 1] /\ Goto(s, "unlock")
  /\ UNCHANGED <<ipc, ids, message_counter, copy, holds, mishap>>

SenderUnlock(s) ==
  /\ pc[s] = "unlock"
  /\ Leave(s)
  /\ Goto(s, "sleep")
  /\ UNCHANGED <<keyFile, segment, memory, ids, locals, mishap>>

Wake(p) ==
  /\ pc[p] = "sleep"
  /\ Goto(p, "lock")
  /\ UNCHANGED <<ipc, memory, ids, locals, holds, mishap>>

(* SIGINT or SIGTERM: cleanup_handler takes over, wherever the sender is.  *)
Signal(s) ==
  /\ pc[s] \in {"ftok", "shmget", "shmat", "semget", "store_semid", "setval",
                "lock", "copy", "unlock", "sleep"}
  /\ Goto(s, "rmid_shm")
  /\ Forget(s)
  /\ UNCHANGED <<ipc, memory, ids, holds, mishap>>

(* An id that is still 0 is not one of ours.                               *)
RemoveSegment(s) ==
  /\ pc[s] = "rmid_shm"
  /\ segment' = IF shared_memory_id[s] = NoId THEN segment
                ELSE [segment EXCEPT ![shared_memory_id[s]].state = "removed"]
  /\ memory' = IF AttachedTo(s) = {} THEN [memory EXCEPT ![s] = NoMessage] ELSE memory
  /\ Goto(s, "rmid_sem")
  /\ UNCHANGED <<keyFile, semaphore, ids, locals, holds, mishap>>

RemoveSemaphore_Bug(s) ==
  /\ pc[s] = "rmid_sem"
  /\ Goto(s, "remove")
  /\ UNCHANGED <<ipc, memory, ids, locals, holds, mishap>>

RemoveSemaphore(s) ==
  /\ pc[s] = "rmid_sem"
  /\ semaphore' = IF semaphore_id[s] = NoId THEN semaphore
                  ELSE [semaphore EXCEPT ![semaphore_id[s]].state = "removed",
                                       ![semaphore_id[s]].value = 0]
  /\ holds' = {p \in holds : semaphore_id[p] # semaphore_id[s]}
  /\ Goto(s, "remove")
  /\ UNCHANGED <<keyFile, segment, memory, ids, locals, mishap>>

RemoveKeyFile(s) ==
  /\ pc[s] = "remove"
  /\ keyFile' = NoKey
  /\ Goto(s, "exit")
  /\ UNCHANGED <<segment, semaphore, memory, ids, locals,
                 holds, mishap>>

(* The handler is installed for two signals, and neither masks the other:  *)
(* it begins again, even when the first time it has got as far as exit.    *)
SignalAgain(s) ==
  /\ pc[s] \in {"rmid_shm", "rmid_sem", "remove", "exit"}
  /\ mishap = NoMishap
  /\ mishap' = IF pc[s] = "exit" THEN SignalledAtExit ELSE SignalledTwice
  /\ Goto(s, "rmid_shm")
  /\ UNCHANGED <<ipc, memory, ids, locals, holds>>

SenderStep(s) ==
  \/ CreateKeyFile(s) \/ Refused(s) \/ InstallHandlers(s) \/ Ftok(s)
  \/ CreateSegment(s) \/ StoreSegmentId(s) \/ CreateSemaphore(s)
  \/ StoreSemaphoreId(s) \/ SetVal(s) \/ AlreadyExists(s) \/ SenderLock(s)
  \/ WritePiece(s) \/ SenderUnlock(s) \/ Wake(s) \/ RemoveSegment(s)
  \/ RemoveSemaphore(s) \/ RemoveKeyFile(s)

-----------------------------------------------------------------------------
(* receive.c                                                               *)

FindSegment(r) ==
  /\ pc[r] = "shmget"
  /\ \/ \E s \in Found(segment, ipc_key[r]) :
          /\ shared_memory_id' = [shared_memory_id EXCEPT ![r] = s]
          /\ Goto(r, "shmat")
     \/ /\ Found(segment, ipc_key[r]) = {}
        /\ Goto(r, "ended") /\ UNCHANGED shared_memory_id
  /\ UNCHANGED <<ipc, memory, ipc_key, semaphore_id, locals, holds, mishap>>

Attach(r) ==
  /\ pc[r] = "shmat"
  /\ LET s == shared_memory_id[r]
     IN  Goto(r, IF Removed(segment[s]) /\ AttachedTo(s) = {}
                 THEN "ended" ELSE "semget")
  /\ UNCHANGED <<ipc, memory, ids, locals, holds, mishap>>

FindSemaphore(r) ==
  /\ pc[r] = "semget"
  /\ \/ \E s \in Found(semaphore, ipc_key[r]) :
          /\ semaphore_id' = [semaphore_id EXCEPT ![r] = s]
          /\ Goto(r, "lock")
     \/ /\ Found(semaphore, ipc_key[r]) = {}
        /\ Goto(r, "ended") /\ UNCHANGED semaphore_id
  /\ UNCHANGED <<ipc, memory, ipc_key, shared_memory_id, locals, holds, mishap>>

ReceiverLock(r) ==
  /\ pc[r] = "lock"
  /\ Enter(r)
  /\ Goto(r, "copy")
  /\ UNCHANGED <<keyFile, segment, memory, ids, locals,
                 mishap>>

ReadPiece(r) ==
  /\ pc[r] = "copy"
  /\ LET text == Append(copy[r], memory[shared_memory_id[r]][Len(copy[r]) + 1])
     IN  /\ copy' = [copy EXCEPT ![r] = text]
         /\ IF Len(text) < Pieces THEN UNCHANGED pc ELSE Goto(r, "unlock")
  /\ UNCHANGED <<ipc, memory, ids, at, message_counter, holds, mishap>>

ReceiverUnlock(r) ==
  /\ pc[r] = "unlock"
  /\ Leave(r)
  /\ copy' = [copy EXCEPT ![r] = <<>>]
  /\ Goto(r, "sleep")
  /\ UNCHANGED <<keyFile, segment, memory, ids, at, message_counter, mishap>>

ReceiverStep(r) ==
  \/ Ftok(r) \/ FindSegment(r) \/ Attach(r) \/ FindSemaphore(r)
  \/ ReceiverLock(r) \/ ReadPiece(r) \/ ReceiverUnlock(r) \/ Wake(r)

-----------------------------------------------------------------------------
(* The end of a process that cleans nothing up: SIGKILL, a signal before   *)
(* the handlers are installed, a failed system call (report_error), and    *)
(* every signal to a receiver, whose handler only detaches and exits.      *)
Killed(p) ==
  /\ Alive(p)
  /\ Goto(p, "ended")
  /\ Forget(p)
  /\ Detach(p)
  /\ UNCHANGED <<ipc, ids, holds, mishap>>

AllEnded == (\A p \in Processes : ~Alive(p)) /\ UNCHANGED vars

Next ==
  \/ \E s \in Senders : SenderStep(s) \/ Signal(s) \/ SignalAgain(s)
  \/ \E r \in Receivers : ReceiverStep(r)
  \/ \E p \in Processes : Resume(p) \/ Killed(p)
  \/ AllEnded

Spec == Init /\ [][Next]_vars

(***************************************************************************)
(* A process that can run does.  Between two turns in the critical section *)
(* a sender sleeps three seconds and a receiver one, so whoever waits for  *)
(* the semaphore finds it free again and again: strong fairness.  Nothing  *)
(* has to be signalled, stopped or killed.                                 *)
(***************************************************************************)
FairSpec ==
  /\ Spec
  /\ \A s \in Senders : WF_vars(SenderStep(s)) /\ SF_vars(SenderLock(s))
  /\ \A r \in Receivers : WF_vars(ReceiverStep(r)) /\ SF_vars(ReceiverLock(r))

-----------------------------------------------------------------------------
TypeOK ==
  /\ keyFile \in Keys \cup {NoKey}
  /\ segment \in [Senders -> [key : Keys \cup {NoKey},
                              state : {"absent", "present", "removed"}]]
  /\ memory \in [Senders -> [1..Pieces -> 0..Numbers]]
  /\ semaphore \in [Senders -> [key : Keys \cup {NoKey},
                                state : {"absent", "present", "removed"},
                                value : 0..2]]
  /\ DOMAIN pc = Processes
  /\ ipc_key \in [Processes -> Keys \cup {NoKey}]
  /\ shared_memory_id \in [Processes -> Senders \cup {NoId}]
  /\ semaphore_id \in [Processes -> Senders \cup {NoId}]
  /\ at \in [Senders -> 1..Pieces]
  /\ message_counter \in [Senders -> 0..Numbers]
  /\ copy \in [Receivers -> Seq(0..Numbers)]
  /\ holds \subseteq Processes
  /\ mishap \in Senders \cup {NoMishap, SignalledTwice, SignalledAtExit}

IsWhole(text) == \A k \in 1..Pieces : text[k] = text[1]

(* A receiver prints a mixture of two messages only when the channel it    *)
(* listens to is being taken down, or when a process stopped in semop on   *)
(* the semaphore of this channel was let into the critical section.  In    *)
(* particular a sender killed in the middle of a message, a receiver       *)
(* killed while reading and the start of the next sender never produce one *)
(* (send.c:92-111, receive.c:68-82).                                       *)
TornOnlyWhenTakenDown ==
  \A r \in Receivers :
    pc[r] = "unlock" /\ ~IsWhole(copy[r])
      => \/ Removed(segment[shared_memory_id[r]])
         \/ Removed(semaphore[semaphore_id[r]])
         \/ mishap = semaphore_id[r]

(* The key file is a lock between senders: at most one sender is anywhere  *)
(* between creating it and removing it, also when a second signal makes    *)
(* its handler begin again, unless the handler had already removed the     *)
(* file then (send.c:52-57, 30, 47).                                       *)
OwnsKeyFile(s) == Alive(s) /\ pc[s] # "open"
OneSender ==
  Cardinality({s \in Senders : OwnsKeyFile(s)}) <= 1 \/ mishap = SignalledAtExit

(* A sender that owns the key file fails to create its segment or its      *)
(* semaphore only if an earlier one was interrupted between the call that  *)
(* created the object and the assignment of the id, so that its handler    *)
(* removed the key file and not the object; or if a second signal came     *)
(* after the removal, as above (send.c:39-47, 69-82).                      *)
LeftoversHaveLostIds ==
  mishap # SignalledAtExit => \A s, t \in Senders :
    /\ pc[s] = "shmget" /\ t \in Found(segment, ipc_key[s])
         => shared_memory_id[t] = NoId
    /\ pc[s] \in {"shmget", "semget"} /\ t \in Found(semaphore, ipc_key[s])
         => semaphore_id[t] = NoId

(* Nobody waits for the semaphore for ever, unless the process that has it *)
(* (or that was to initialise it) is gone without giving it back           *)
(* (send.c:84-112, receive.c:68-83).                                       *)
Abandoned(id) ==
  \/ \E p \in holds : semaphore_id[p] = id /\ ~Alive(p)
  \/ /\ ~Alive(id) /\ semaphore[id].value = 0
     /\ \A p \in holds : semaphore_id[p] # id

EveryoneGetsIn ==
  \A p \in Processes :
    pc[p] = "lock" ~> pc[p] # "lock" \/ Abandoned(semaphore_id[p])

(* "Another instance is already running" (send.c:54): a sender is turned   *)
(* away only while another one is alive.                                   *)
RefusedByAnother ==
  [][\A s \in Senders : pc'[s] = "refused" /\ pc[s] # "refused"
       => \E t \in Senders \ {s} : Alive(t)]_vars
=============================================================================
