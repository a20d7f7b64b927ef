---------------------------- MODULE PipeTransfer ----------------------------
(***************************************************************************)
(* lab6_pipefifo/pipe.c: a parent sends its child one message through a    *)
(* pipe.  After the fork both processes hold both ends, and each closes    *)
(* the one it does not use.  A read ends with the message, or with nothing *)
(* once nobody holds the write end; a write that nobody can read kills the *)
(* writer with SIGPIPE.  Either process can be killed at any point, which  *)
(* closes what it holds.  The message fits the pipe.  Where read or write  *)
(* fails, the program goes on as if it had not.                            *)
(***************************************************************************)
EXTENDS Integers, FiniteSets

VARIABLES
  pc,       (* where the two processes are                                  *)
  ends,     (* ends[p]: the ends of the pipe p holds open                   *)
  content,  (* "empty", or "message" while it is in the pipe                *)
  received, (* what the child's read returned                               *)
  failures  (* the calls that have failed: read, write                      *)

vars == <<pc, ends, content, received, failures>>

Processes == {"parent", "child"}

Init ==
  /\ pc = [p \in Processes |-> IF p = "parent" THEN "pipe" ELSE "unborn"]
  /\ ends = [p \in Processes |-> {}]
  /\ content = "empty"
  /\ received = "nothing_yet"
  /\ failures = {}

Ended(p) == pc[p] \in {"exited", "failed", "killed"}
Goto(p, label) == pc' = [pc EXCEPT ![p] = label]

(* pipe or fork fails: the parent exits, and there is no child.            *)
NotStarted ==
  /\ pc["parent"] \in {"pipe", "fork"}
  /\ pc' = [p \in Processes |-> "failed"]
  /\ ends' = [p \in Processes |-> {}]
  /\ UNCHANGED <<content, received, failures>>

MakePipe ==
  /\ pc["parent"] = "pipe"
  /\ ends' = [ends EXCEPT !["parent"] = {"read", "write"}]
  /\ Goto("parent", "fork")
  /\ UNCHANGED <<content, received, failures>>

Fork ==
  /\ pc["parent"] = "fork"
  /\ pc' = [p \in Processes |-> "close"]
  /\ ends' = [ends EXCEPT !["child"] = ends["parent"]]
  /\ UNCHANGED <<content, received, failures>>

(* A definition whose name ends in _Bug is a wrong version of the one that *)
(* follows it, there to be swapped in; nothing uses it.                    *)
CloseUnused_Bug(p) ==
  /\ pc[p] = "close"
  /\ Goto(p, IF p = "child" THEN "read" ELSE "write")
  /\ UNCHANGED <<ends, content, received, failures>>

(* The parent goes on after five seconds, which promises nothing.          *)
CloseUnused(p) ==
  /\ pc[p] = "close"
  /\ ends' = [ends EXCEPT ![p] = {IF p = "child" THEN "read" ELSE "write"}]
  /\ Goto(p, IF p = "child" THEN "read" ELSE "write")
  /\ UNCHANGED <<content, received, failures>>

Held(end) == \E p \in Processes : end \in ends[p]

Exit(p, label) == Goto(p, label) /\ ends' = [ends EXCEPT ![p] = {}]

(* A failing read is reported, and the child ends as after a message.      *)
ReadFails ==
  /\ pc["child"] = "read"
  /\ failures' = failures \cup {"read"}
  /\ Exit("child", "exited")
  /\ UNCHANGED <<content, received>>

Read ==
  /\ pc["child"] = "read"
  /\ content = "message" \/ ~Held("write")
  /\ received' = content
  /\ content' = "empty"
  /\ Exit("child", "exited")
  /\ UNCHANGED failures

(* The result of write is not looked at.                                   *)
WriteFails ==
  /\ pc["parent"] = "write"
  /\ failures' = failures \cup {"write"}
  /\ Exit("parent", "wait")
  /\ UNCHANGED <<content, received>>

Write ==
  /\ pc["parent"] = "write"
  /\ IF Held("read")
     THEN content' = "message" /\ Exit("parent", "wait")
     ELSE Exit("parent", "killed") /\ UNCHANGED content
  /\ UNCHANGED <<received, failures>>

Wait ==
  /\ pc["parent"] = "wait"
  /\ Ended("child")
  /\ Exit("parent", "exited")
  /\ UNCHANGED <<content, received, failures>>

Killed(p) ==
  /\ pc[p] # "unborn" /\ ~Ended(p)
  /\ IF p = "parent" /\ pc["child"] = "unborn"
     THEN pc' = [q \in Processes |-> "killed"] /\ ends' = [q \in Processes |-> {}]
     ELSE Exit(p, "killed")
  /\ UNCHANGED <<content, received, failures>>

AllEnded == (\A p \in Processes : Ended(p)) /\ UNCHANGED vars

ChildStep  == CloseUnused("child") \/ Read
ParentStep == MakePipe \/ NotStarted \/ Fork \/ CloseUnused("parent") \/ Write \/ Wait

Next == ChildStep \/ ParentStep \/ ReadFails \/ WriteFails \/ (\E p \in Processes : Killed(p)) \/ AllEnded

Spec == Init /\ [][Next]_vars

-----------------------------------------------------------------------------
TypeOK ==
  /\ DOMAIN pc = Processes
  /\ ends \in [Processes -> SUBSET {"read", "write"}]
  /\ content \in {"empty", "message"}
  /\ received \in {"nothing_yet", "empty", "message"}
  /\ failures \subseteq {"read", "write"}

(* The exchange comes to an end, whoever is killed when: the child's read  *)
(* returns even if the parent dies before it writes, because the child has *)
(* closed its own write end.  And unless one of them was killed or its     *)
(* call failed the child has the message (pipe.c:34, 43, 55, 68-72).       *)
DeliveredOrKilled ==
  pc["parent"] = "close" ~>
    /\ \A p \in Processes : Ended(p)
    /\ received = "message" \/ failures # {} \/ \E p \in Processes : pc[p] = "killed"
=============================================================================
