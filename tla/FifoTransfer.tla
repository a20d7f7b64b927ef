---------------------------- MODULE FifoTransfer ----------------------------
(***************************************************************************)
(* lab6_pipefifo/fifo.c: a parent makes a FIFO, forks, and sends its child *)
(* one message through it.  Each open waits until the other side has the   *)
(* FIFO open or opens it.  Several runs of the program may be given the    *)
(* same name; a name is looked up at each call, so a process can find, and *)
(* remove, the FIFO of another run.  Any call can fail where the code      *)
(* looks at its result; unlink can fail anywhere, and what it should have  *)
(* removed stays.  Any process can be killed at any point.                 *)
(***************************************************************************)
EXTENDS Integers, FiniteSets

CONSTANT Runs       (* runs of the program, all with the same fifo_name     *)

NoFifo == "no_file"
Processes == Runs \X {"parent", "child"}
Parent(r) == <<r, "parent">>
Child(r)  == <<r, "child">>

VARIABLES
  name,      (* the FIFO the name stands for (named by the run that made it) *)
  pc,
  fd,        (* fd[p]: the FIFO p has opened last, or is opening            *)
  content,   (* content[f]: the runs whose messages are in FIFO f           *)
  received   (* received[r]: what the child of r printed                    *)

vars == <<name, pc, fd, content, received>>

Init ==
  /\ name = NoFifo
  /\ pc = [p \in Processes |-> IF p[2] = "parent" THEN "stat" ELSE "unborn"]
  /\ fd = [p \in Processes |-> NoFifo]
  /\ content = [r \in Runs |-> {}]
  /\ received = [r \in Runs |-> {}]

Goto(p, label) == pc' = [pc EXCEPT ![p] = label]
Ended(p) == pc[p] \in {"done", "refused", "failed", "unlink_failed", "killed"}

(* The processes that hold FIFO f open, or are opening it, for reading or  *)
(* for writing.                                                            *)
On(f, role) ==
  {p \in Processes : p[2] = role /\ fd[p] = f /\ pc[p] \in {"opening", "io", "close"}}

(* Before the fork there is only a parent: with it the run ends.           *)
EndOfRun(r, label) == pc' = [pc EXCEPT ![Parent(r)] = label, ![Child(r)] = label]

(* Any failure of stat counts as there being no file.                      *)
Stat(r) ==
  /\ pc[Parent(r)] = "stat"
  /\ \/ Goto(Parent(r), "mkfifo")
     \/ name # NoFifo /\ EndOfRun(r, "refused")
  /\ UNCHANGED <<name, fd, content, received>>

(* mkfifo fails where a file has appeared since the stat, or otherwise.    *)
Mkfifo(r) ==
  /\ pc[Parent(r)] = "mkfifo"
  /\ \/ name = NoFifo /\ name' = r /\ Goto(Parent(r), "fork")
     \/ EndOfRun(r, "refused") /\ UNCHANGED name
  /\ UNCHANGED <<fd, content, received>>

(* A definition whose name ends in _Bug is a wrong version of the one that *)
(* follows it, there to be swapped in; nothing uses it.                    *)
Fork_Bug(r) ==
  /\ pc[Parent(r)] = "fork"
  /\ pc' = [pc EXCEPT ![Parent(r)] = "wait", ![Child(r)] = "open"]
  /\ UNCHANGED <<name, fd, content, received>>

Fork(r) ==
  /\ pc[Parent(r)] = "fork"
  /\ \/ EndOfRun(r, "open") /\ UNCHANGED name
     \/ EndOfRun(r, "refused") /\ name' = NoFifo
     \/ EndOfRun(r, "unlink_failed") /\ UNCHANGED name
  /\ UNCHANGED <<fd, content, received>>

(* The first side to come waits; the second lets all who wait go on.  What *)
(* was in the FIFO when the last process closed it is gone.                *)
Open(p) ==
  /\ pc[p] = "open" /\ name # NoFifo
  /\ fd' = [fd EXCEPT ![p] = name]
  /\ content' = IF On(name, "child") \cup On(name, "parent") # {} THEN content
                ELSE [content EXCEPT ![name] = {}]
  /\ LET peers == On(name, IF p[2] = "child" THEN "parent" ELSE "child")
     IN  pc' = [q \in Processes |->
                  IF q = p THEN IF peers = {} THEN "opening" ELSE "io"
                  ELSE IF q \in peers /\ pc[q] = "opening" THEN "io" ELSE pc[q]]
  /\ UNCHANGED <<name, received>>

Read(r) ==
  LET f == fd[Child(r)]
  IN  /\ pc[Child(r)] = "io"
      /\ content[f] # {} \/ On(f, "parent") = {}
      /\ received' = [received EXCEPT ![r] = content[f]]
      /\ content' = [content EXCEPT ![f] = {}]
      /\ Goto(Child(r), "close")
      /\ UNCHANGED <<name, fd>>

(* Nobody there to read: SIGPIPE.                                          *)
Write(r) ==
  LET f == fd[Parent(r)]
  IN  /\ pc[Parent(r)] = "io"
      /\ IF On(f, "child") # {}
         THEN Goto(Parent(r), "close") /\ content' = [content EXCEPT ![f] = @ \cup {r}]
         ELSE Goto(Parent(r), "killed") /\ UNCHANGED content
      /\ UNCHANGED <<name, fd, received>>

Close(p) ==
  /\ pc[p] = "close"
  /\ Goto(p, IF p[2] = "child" THEN "done" ELSE "wait")
  /\ UNCHANGED <<name, fd, content, received>>

Wait(r) ==
  /\ pc[Parent(r)] = "wait" /\ Ended(Child(r))
  /\ Goto(Parent(r), "unlink")
  /\ UNCHANGED <<name, fd, content, received>>

Unlink(r) ==
  /\ pc[Parent(r)] = "unlink"
  /\ \/ name # NoFifo /\ name' = NoFifo /\ Goto(Parent(r), "done")
     \/ name = NoFifo /\ UNCHANGED name /\ Goto(Parent(r), "failed")
     \/ name # NoFifo /\ UNCHANGED name /\ Goto(Parent(r), "unlink_failed")
  /\ UNCHANGED <<fd, content, received>>

Fail_Bug(p) ==
  /\ pc[p] \in {"open", "io", "close"}
  /\ Goto(p, "failed")
  /\ UNCHANGED <<name, fd, content, received>>

(* open, read, write or close fails.  The result of this unlink is not     *)
(* looked at.                                                              *)
Fail(p) ==
  /\ pc[p] \in {"open", "io", "close"}
  /\ \/ name' = NoFifo /\ Goto(p, "failed")
     \/ name # NoFifo /\ UNCHANGED name /\ Goto(p, "unlink_failed")
  /\ UNCHANGED <<fd, content, received>>

NoSuchFile(p) == pc[p] = "open" /\ name = NoFifo /\ Fail(p)

Killed(p) ==
  /\ pc[p] # "unborn" /\ ~Ended(p)
  /\ IF pc[Child(p[1])] = "unborn" THEN EndOfRun(p[1], "killed") ELSE Goto(p, "killed")
  /\ UNCHANGED <<name, fd, content, received>>

AllEnded == (\A p \in Processes : Ended(p)) /\ UNCHANGED vars

Step(p) ==
  \/ Open(p) \/ NoSuchFile(p) \/ Close(p)
  \/ p[2] = "child" /\ Read(p[1])
  \/ p[2] = "parent" /\ \/ Stat(p[1]) \/ Mkfifo(p[1]) \/ Fork(p[1])
                        \/ Write(p[1]) \/ Wait(p[1]) \/ Unlink(p[1])

Next == (\E p \in Processes : Step(p) \/ Fail(p) \/ Killed(p)) \/ AllEnded

Spec == Init /\ [][Next]_vars

-----------------------------------------------------------------------------
TypeOK ==
  /\ name \in Runs \cup {NoFifo}
  /\ DOMAIN pc = Processes
  /\ fd \in [Processes -> Runs \cup {NoFifo}]
  /\ content \in [Runs -> SUBSET Runs]
  /\ received \in [Runs -> SUBSET Runs]

(* The FIFO of a run outlives its parent process only if this was killed   *)
(* (SIGPIPE included) or its own unlink has failed: every other way out    *)
(* removes it, whatever the child and the runs of the same name do         *)
(* (fifo.c:38-117).                                                        *)
NoFifoLeftBehind ==
  \A r \in Runs :
    name = r /\ Ended(Parent(r)) => pc[Parent(r)] \in {"killed", "unlink_failed"}

(* Nobody waits in open for ever, unless the other process of the run has  *)
(* ended without opening the FIFO, or has opened that of another run, or a *)
(* process of another run has taken this one's place (fifo.c:47, 80).      *)
Peer(p) == <<p[1], IF p[2] = "child" THEN "parent" ELSE "child">>
TheyMeet ==
  \A p \in Processes :
    pc[p] = "opening" ~>
      \/ pc[p] # "opening"
      \/ Ended(Peer(p))
      \/ fd[Peer(p)] \notin {NoFifo, fd[p]}
      \/ \E q \in Processes \ {p} : q[2] = p[2] /\ fd[q] = fd[p]

-----------------------------------------------------------------------------
(* What NoFifoLeftBehind rests on.  The name stands for the FIFO of r only *)
(* while the parent of r is between its mkfifo and its end, or was killed  *)
(* there, or could not remove it: every other way out does.                *)
MakersAreInside ==
  \A r \in Runs : name = r =>
    pc[Parent(r)] \notin {"stat", "mkfifo", "refused", "failed", "done"}

PcTyped ==
  pc \in [Processes -> {"unborn", "stat", "mkfifo", "fork", "open", "opening", "io", "close",
                        "wait", "unlink", "done", "refused", "failed", "unlink_failed",
                        "killed"}]

IInv == PcTyped /\ MakersAreInside

(* What TypeOK rests on: what a process has open is the FIFO of some run.  *)
Opened == \A p \in Processes : pc[p] \in {"opening", "io", "close"} => fd[p] \in Runs
Typed == TypeOK /\ PcTyped /\ Opened
=============================================================================
