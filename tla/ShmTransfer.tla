---------------------------- MODULE ShmTransfer -----------------------------
(***************************************************************************)
(* lab7_shmem/send.c and receive.c: a sender writes its time into a shared *)
(* memory segment every five seconds; receivers print what they find       *)
(* there.  There is no lock: both sides copy the message piece by piece,   *)
(* in whatever order memcpy likes.  The key file, made with O_EXCL, keeps  *)
(* a second sender out; its inode gives the key of the segment.            *)
(*                                                                         *)
(* A signal that has a handler interrupts the sender anywhere, and a       *)
(* second, different one interrupts the handler.  Any process can be       *)
(* killed at any point (a failing call ends it in the same way).           *)
(* Segments are named by the sender that made them.                        *)
(***************************************************************************)
EXTENDS Integers, FiniteSets

CONSTANTS
  Senders, Receivers,   (* the processes, each run once                     *)
  Keys,                 (* what ftok can make of the inode                  *)
  Pieces,               (* the pieces of data_string                        *)
  Messages              (* bound: how many messages a sender writes         *)

NoKey == "no_file"
Processes == Senders \cup Receivers
Empty == [k \in Pieces |-> 0]

VARIABLES
  keyFile,   (* the key of FNAME, or NoKey                                  *)
  segment,   (* segment[s]: "none", "present" or "removed" ...              *)
  memory,    (* ... and the number of the message in each of its pieces     *)
  pc,
  shmkey,
  shmid,     (* the segment a process has, or NoKey                         *)
  toCopy,    (* the pieces memcpy has not copied yet                        *)
  number,    (* number[s]: the message s writes                             *)
  data,      (* received_data of each receiver                              *)
  signals    (* signals[s]: how many of SIGTERM and SIGINT s has got        *)

vars == <<keyFile, segment, memory, pc, shmkey, shmid, toCopy, number, data, signals>>
copying == <<memory, toCopy, number, data>>

Init ==
  /\ keyFile = NoKey
  /\ segment = [s \in Senders |-> "none"]
  /\ memory = [s \in Senders |-> Empty]
  /\ pc = [p \in Processes |-> IF p \in Senders THEN "open" ELSE "ftok"]
  /\ shmkey = [p \in Processes |-> NoKey]
  /\ shmid = [p \in Processes |-> NoKey]
  /\ toCopy = [p \in Processes |-> {}]
  /\ number = [s \in Senders |-> 0]
  /\ data = [r \in Receivers |-> Empty]
  /\ signals = [s \in Senders |-> 0]

Goto(p, label) == pc' = [pc EXCEPT ![p] = label]

(* What p has on its stack is gone: it ends, or its handler takes over.    *)
Forget(p) ==
  /\ toCopy' = [toCopy EXCEPT ![p] = {}]
  /\ number' = [s \in Senders |-> IF s = p THEN 0 ELSE number[s]]
  /\ data' = [r \in Receivers |-> IF r = p THEN Empty ELSE data[r]]
Ended(p) == pc[p] \in {"failed", "exited", "killed"}
Found(key) == {s \in Senders : segment[s] = "present" /\ shmkey[s] = key}

-----------------------------------------------------------------------------
(* open with O_EXCL: "transmitter already running" if the file is there.   *)
Open(s) ==
  /\ pc[s] = "open"
  /\ IF keyFile = NoKey
     THEN (\E k \in Keys : keyFile' = k) /\ Goto(s, "ftok")
     ELSE Goto(s, "failed") /\ UNCHANGED keyFile
  /\ UNCHANGED <<segment, shmkey, shmid, copying, signals>>

Ftok(p) ==
  /\ pc[p] = "ftok"
  /\ shmkey' = [shmkey EXCEPT ![p] = keyFile]
  /\ Goto(p, IF keyFile = NoKey THEN "failed" ELSE "shmget")
  /\ UNCHANGED <<keyFile, segment, shmid, copying, signals>>

(* With IPC_EXCL: a segment left under the same key ends the sender.       *)
CreateSegment(s) ==
  /\ pc[s] = "shmget"
  /\ IF Found(shmkey[s]) # {}
     THEN Goto(s, "failed") /\ UNCHANGED <<segment, shmid>>
     ELSE /\ segment' = [segment EXCEPT ![s] = "present"]
          /\ shmid' = [shmid EXCEPT ![s] = s]
          /\ Goto(s, "signal")
  /\ UNCHANGED <<keyFile, shmkey, copying, signals>>

(* Only here, behind shmat, do the handlers come.                          *)
InstallHandlers(s) ==
  /\ pc[s] = "signal"
  /\ Goto(s, "memset")
  /\ UNCHANGED <<keyFile, segment, shmkey, shmid, copying, signals>>

Memset(s) ==
  /\ pc[s] = "memset"
  /\ memory' = [memory EXCEPT ![s] = Empty]
  /\ Goto(s, "loop")
  /\ UNCHANGED <<keyFile, segment, shmkey, shmid, toCopy, number, data, signals>>

(* A definition whose name ends in _Bug is a wrong version of the one that *)
(* follows it, there to be swapped in; nothing uses it.                    *)
NextMessage_Bug(s) ==
  /\ pc[s] = "loop" /\ number[s] < Messages
  /\ number' = [number EXCEPT ![s] = @ + 1]
  /\ toCopy' = [toCopy EXCEPT ![s] = Pieces]
  /\ memory' = [memory EXCEPT ![s] = Empty]
  /\ Goto(s, "memcpy")
  /\ UNCHANGED <<keyFile, segment, shmkey, shmid, data, signals>>

NextMessage(s) ==
  /\ pc[s] = "loop" /\ number[s] < Messages
  /\ number' = [number EXCEPT ![s] = @ + 1]
  /\ toCopy' = [toCopy EXCEPT ![s] = Pieces]
  /\ Goto(s, "memcpy")
  /\ UNCHANGED <<keyFile, segment, shmkey, shmid, memory, data, signals>>

WritePiece(s) ==
  /\ pc[s] = "memcpy"
  /\ \E k \in toCopy[s] :
       /\ memory' = [memory EXCEPT ![s][k] = number[s]]
       /\ toCopy' = [toCopy EXCEPT ![s] = @ \ {k}]
       /\ IF toCopy[s] = {k} THEN Goto(s, "loop") ELSE UNCHANGED pc
  /\ UNCHANGED <<keyFile, segment, shmkey, shmid, number, data, signals>>

(* free_at_exit begins, perhaps in the middle of itself.                   *)
Signal(s) ==
  /\ pc[s] \in {"memset", "loop", "memcpy", "rmid", "unlink", "exit"}
  /\ signals[s] < 2
  /\ signals' = [signals EXCEPT ![s] = @ + 1]
  /\ Forget(s)
  /\ Goto(s, "rmid")
  /\ UNCHANGED <<keyFile, segment, memory, shmkey, shmid>>

RemoveSegment_Bug(s) ==
  /\ pc[s] = "rmid"
  /\ Goto(s, "unlink")
  /\ UNCHANGED <<keyFile, segment, shmkey, shmid, copying, signals>>

RemoveSegment(s) ==
  /\ pc[s] = "rmid"
  /\ segment' = [segment EXCEPT ![s] = "removed"]
  /\ Goto(s, "unlink")
  /\ UNCHANGED <<keyFile, shmkey, shmid, copying, signals>>

Unlink(s) ==
  /\ pc[s] = "unlink"
  /\ keyFile' = NoKey
  /\ Goto(s, "exit")
  /\ UNCHANGED <<segment, shmkey, shmid, copying, signals>>

Exit(s) ==
  /\ pc[s] = "exit"
  /\ Goto(s, "exited")
  /\ UNCHANGED <<keyFile, segment, shmkey, shmid, copying, signals>>

SenderStep(s) ==
  \/ Open(s) \/ Ftok(s) \/ CreateSegment(s) \/ InstallHandlers(s) \/ Memset(s)
  \/ NextMessage(s) \/ WritePiece(s) \/ RemoveSegment(s) \/ Unlink(s) \/ Exit(s)

-----------------------------------------------------------------------------
(* receive.c                                                               *)

FindSegment(r) ==
  /\ pc[r] = "shmget"
  /\ \/ \E s \in Found(shmkey[r]) :
          shmid' = [shmid EXCEPT ![r] = s] /\ Goto(r, "shmat")
     \/ Found(shmkey[r]) = {} /\ Goto(r, "failed") /\ UNCHANGED shmid
  /\ UNCHANGED <<keyFile, segment, shmkey, copying, signals>>

(* A removed segment can be attached as long as somebody else has it.      *)
HasAttached(p, s) ==
  /\ shmid[p] = s
  /\ pc[p] \in {"signal", "memset", "loop", "memcpy", "rmid"}

Attach(r) ==
  /\ pc[r] = "shmat"
  /\ IF segment[shmid[r]] = "removed" /\ \A p \in Processes : ~HasAttached(p, shmid[r])
     THEN Goto(r, "failed") /\ UNCHANGED toCopy
     ELSE Goto(r, "memcpy") /\ toCopy' = [toCopy EXCEPT ![r] = Pieces]
  /\ UNCHANGED <<keyFile, segment, memory, shmkey, shmid, number, data, signals>>

ReadPiece(r) ==
  /\ pc[r] = "memcpy"
  /\ \E k \in toCopy[r] :
       /\ data' = [data EXCEPT ![r][k] = memory[shmid[r]][k]]
       /\ toCopy' = [toCopy EXCEPT ![r] = @ \ {k}]
       /\ IF toCopy[r] = {k} THEN Goto(r, "loop") ELSE UNCHANGED pc
  /\ UNCHANGED <<keyFile, segment, memory, shmkey, shmid, number, signals>>

(* It prints the data, or "no data available" if the first piece is empty, *)
(* and sleeps.                                                             *)
PrintAndSleep(r) ==
  /\ pc[r] = "loop"
  /\ toCopy' = [toCopy EXCEPT ![r] = Pieces]
  /\ Goto(r, "memcpy")
  /\ UNCHANGED <<keyFile, segment, memory, shmkey, shmid, number, data, signals>>

ReceiverStep(r) ==
  Ftok(r) \/ FindSegment(r) \/ Attach(r) \/ ReadPiece(r) \/ PrintAndSleep(r)

(* To a receiver a handled signal is the same: it detaches and exits.      *)
Killed(p) ==
  /\ ~Ended(p)
  /\ Forget(p)
  /\ Goto(p, "killed")
  /\ UNCHANGED <<keyFile, segment, memory, shmkey, shmid, signals>>

AllEnded == (\A p \in Processes : Ended(p)) /\ UNCHANGED vars

Next ==
  \/ \E s \in Senders : SenderStep(s) \/ Signal(s)
  \/ \E r \in Receivers : ReceiverStep(r)
  \/ \E p \in Processes : Killed(p)
  \/ AllEnded

Spec == Init /\ [][Next]_vars

-----------------------------------------------------------------------------
TypeOK ==
  /\ keyFile \in Keys \cup {NoKey}
  /\ segment \in [Senders -> {"none", "present", "removed"}]
  /\ memory \in [Senders -> [Pieces -> 0..Messages]]
  /\ DOMAIN pc = Processes
  /\ shmkey \in [Processes -> Keys \cup {NoKey}]
  /\ shmid \in [Processes -> Senders \cup {NoKey}]
  /\ toCopy \in [Processes -> SUBSET Pieces]
  /\ number \in [Senders -> 0..Messages]
  /\ data \in [Receivers -> [Pieces -> 0..Messages]]
  /\ signals \in [Senders -> 0..2]

(* A sender that could make the key file finds the segment of another one  *)
(* only if some sender was killed, or was signalled twice and its second   *)
(* handler removed the file of a sender that came after it: the handler    *)
(* removes the segment before the file, and the file is there before the   *)
(* segment (send.c:18-25, 49, 72).                                         *)
NoOldSegment ==
  \A s \in Senders :
    pc[s] = "shmget" /\ Found(shmkey[s]) # {}
      => \E t \in Senders \ {s} : pc[t] = "killed" \/ signals[t] = 2

(* What a receiver prints mixes messages, as nothing keeps it from reading *)
(* in the middle of a write; but no piece of it is ever older than in what *)
(* the receiver printed before, so that after data it never reports "no    *)
(* data available" (receive.c:55-70, send.c:42, 89).                       *)
NothingOlder ==
  \A r \in Receivers, k \in Pieces :
    pc'[r] # "killed" => data[r][k] <= data'[r][k]
NeverOlder == [][NothingOlder]_vars
=============================================================================
