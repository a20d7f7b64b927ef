---------------------------- MODULE ForkMonitor -----------------------------
(***************************************************************************)
(* lab3_fork/main.c: a process forks a child, waits for it and reports how *)
(* it ended.  Both have a clean-up routine registered with atexit and      *)
(* handlers that call exit for SIGINT and SIGTERM; the child inherits all  *)
(* three, and what stdout has buffered.                                    *)
(*                                                                         *)
(* With _POSIX_C_SOURCE defined, signal() gives a handler that is reset    *)
(* when it runs and blocks nothing: a second SIGINT kills the process.     *)
(* The handler of SIGTERM comes from sigaction and blocks SIGTERM while it *)
(* runs.  exit takes a routine off its list before it calls it: where a    *)
(* handler interrupts the routine and calls exit itself, this exit does    *)
(* not call it again, and the rest of the routine is never run.            *)
(***************************************************************************)
EXTENDS Integers

VARIABLES
  pc,
  handled,   (* handled[p]: the signals p has handlers for                  *)
  blocked,   (* blocked[p]: the signals that are blocked                    *)
  routines,  (* exit's list has no routine for p, has it, or had it         *)
  cleanups,  (* how many clean-ups p has completed                          *)
  buffered,  (* who has "Main process initialized" in its stdout buffer     *)
  printed,   (* how often p has written that line                           *)
  worked,    (* "Child process execution complete" has been printed         *)
  ending,    (* the status p exits with, or the signal that killed it       *)
  report,    (* what the parent reports of the child                        *)
  terminal   (* stdout is a terminal: every line is written at once         *)

vars == <<pc, handled, blocked, routines, cleanups, buffered, printed, worked,
          ending, report, terminal>>
signals == <<handled, blocked>>
outputs == <<buffered, printed, terminal>>
exiting == <<routines, cleanups, ending>>

Processes == {"parent", "child"}
None == "none"
Ended(p) == pc[p] \in {"ended", "unborn"}

Init ==
  /\ pc = [p \in Processes |-> IF p = "parent" THEN "atexit" ELSE "unborn"]
  /\ handled = [p \in Processes |-> {}] /\ blocked = [p \in Processes |-> {}]
  /\ routines = [p \in Processes |-> None] /\ cleanups = [p \in Processes |-> 0]
  /\ buffered = {} /\ printed = [p \in Processes |-> 0]
  /\ worked = FALSE
  /\ ending = [p \in Processes |-> None]
  /\ report = None
  /\ terminal \in BOOLEAN

Goto(p, label) == pc' = [pc EXCEPT ![p] = label]

(* exit, or return from main.                                              *)
CallExit(p, status) ==
  Goto(p, "exit") /\ ending' = [ending EXCEPT ![p] = status]

Register ==
  /\ pc["parent"] = "atexit"
  /\ routines' = [routines EXCEPT !["parent"] = "listed"]
  /\ Goto("parent", "SIGINT")
  /\ UNCHANGED <<signals, cleanups, outputs, worked, ending, report>>

InstallHandler(sig) ==
  /\ pc["parent"] = sig
  /\ handled' = [handled EXCEPT !["parent"] = @ \cup {sig}]
  /\ Goto("parent", IF sig = "SIGINT" THEN "SIGTERM" ELSE "print")
  /\ UNCHANGED <<blocked, exiting, outputs, worked, report>>

(* atexit, signal, sigaction or fork fails.                                *)
SetupFails ==
  /\ pc["parent"] \in {"atexit", "SIGINT", "SIGTERM", "fork"}
  /\ CallExit("parent", "code1")
  /\ UNCHANGED <<signals, routines, cleanups, outputs, worked, report>>

(* A definition whose name ends in _Bug is a wrong version of the one that *)
(* follows it, there to be swapped in; nothing uses it.                    *)
PrintFirst_Bug ==
  /\ pc["parent"] = "print"
  /\ buffered' = {"parent"}
  /\ Goto("parent", "fork")
  /\ UNCHANGED <<signals, exiting, printed, terminal, worked, report>>

PrintFirst ==
  /\ pc["parent"] = "print"
  /\ IF terminal
     THEN printed' = [printed EXCEPT !["parent"] = @ + 1] /\ UNCHANGED buffered
     ELSE buffered' = {"parent"} /\ UNCHANGED printed
  /\ Goto("parent", "fork")
  /\ UNCHANGED <<signals, exiting, terminal, worked, report>>

Inherited(f) == [f EXCEPT !["child"] = f["parent"]]

Fork_Bug ==
  /\ pc["parent"] = "fork"
  /\ pc' = [parent |-> "wait", child |-> "work"]
  /\ routines' = Inherited(routines)
  /\ buffered' = {p \in Processes : "parent" \in buffered}
  /\ UNCHANGED <<signals, cleanups, printed, terminal, worked, ending, report>>

Fork ==
  /\ pc["parent"] = "fork"
  /\ pc' = [parent |-> "wait", child |-> "work"]
  /\ handled' = Inherited(handled) /\ blocked' = Inherited(blocked)
  /\ routines' = Inherited(routines)
  /\ buffered' = {p \in Processes : "parent" \in buffered}
  /\ UNCHANGED <<cleanups, printed, terminal, worked, ending, report>>

Work ==
  /\ pc["child"] = "work"
  /\ worked' = TRUE
  /\ Goto("child", "finish")
  /\ UNCHANGED <<signals, exiting, outputs, report>>

Finish ==
  /\ pc["child"] = "finish"
  /\ CallExit("child", "code42")
  /\ UNCHANGED <<signals, routines, cleanups, outputs, worked, report>>

(* WIFEXITED or WIFSIGNALED; wait without WUNTRACED returns for nothing    *)
(* else.  What follows, up to the return, only prints.                     *)
Monitor ==
  /\ pc["parent"] = "wait" /\ pc["child"] = "ended"
  /\ report' = ending["child"]
  /\ CallExit("parent", "code0")
  /\ UNCHANGED <<signals, routines, cleanups, outputs, worked>>

(* wait fails: the parent knows nothing of its child.                      *)
WaitFails ==
  /\ pc["parent"] = "wait"
  /\ CallExit("parent", "code1")
  /\ UNCHANGED <<signals, routines, cleanups, outputs, worked, report>>

CallRoutine(p) ==
  /\ pc[p] = "exit" /\ routines[p] = "listed"
  /\ routines' = [routines EXCEPT ![p] = "taken"]
  /\ Goto(p, "cleanup")
  /\ UNCHANGED <<signals, cleanups, outputs, worked, ending, report>>

(* The end of cleanup_routine: exit goes on.                               *)
FinishRoutine(p) ==
  /\ pc[p] = "cleanup"
  /\ cleanups' = [cleanups EXCEPT ![p] = @ + 1]
  /\ Goto(p, "exit")
  /\ UNCHANGED <<signals, routines, outputs, worked, ending, report>>

Flush(p) ==
  /\ pc[p] = "exit" /\ routines[p] # "listed"
  /\ printed' = [printed EXCEPT ![p] = @ + (IF p \in buffered THEN 1 ELSE 0)]
  /\ buffered' = buffered \ {p}
  /\ Goto(p, "_exit")
  /\ UNCHANGED <<signals, exiting, terminal, worked, report>>

Leave(p) ==
  /\ pc[p] = "_exit"
  /\ Goto(p, "ended")
  /\ UNCHANGED <<signals, exiting, outputs, worked, report>>

(* A handler does not return: whatever p was doing is left as it is.       *)
Handle_Bug(p, sig) ==
  /\ ~Ended(p) /\ sig \in handled[p] \ blocked[p]
  /\ ending' = [ending EXCEPT ![p] = "code0"]
  /\ Goto(p, "ended")
  /\ UNCHANGED <<signals, routines, cleanups, outputs, worked, report>>

Handle(p, sig) ==
  /\ ~Ended(p) /\ sig \in handled[p] \ blocked[p]
  /\ IF sig = "SIGINT"
     THEN handled' = [handled EXCEPT ![p] = @ \ {sig}] /\ UNCHANGED blocked
     ELSE blocked' = [blocked EXCEPT ![p] = @ \cup {sig}] /\ UNCHANGED handled
  /\ CallExit(p, "code0")
  /\ UNCHANGED <<routines, cleanups, outputs, worked, report>>

(* What is still in the buffer is lost.                                    *)
Die(p, sig) ==
  /\ ~Ended(p) /\ sig \notin handled[p] \cup blocked[p]
  /\ ending' = [ending EXCEPT ![p] = sig]
  /\ buffered' = buffered \ {p}
  /\ Goto(p, "ended")
  /\ UNCHANGED <<signals, routines, cleanups, printed, terminal, worked, report>>

AllEnded == (\A p \in Processes : Ended(p)) /\ UNCHANGED vars

Next ==
  \/ Register \/ InstallHandler("SIGINT") \/ InstallHandler("SIGTERM")
  \/ SetupFails \/ PrintFirst \/ Fork \/ Work \/ Finish \/ Monitor \/ WaitFails
  \/ \E p \in Processes :
       \/ CallRoutine(p) \/ FinishRoutine(p) \/ Flush(p) \/ Leave(p)
       \/ \E sig \in {"SIGINT", "SIGTERM", "SIGKILL"} : Handle(p, sig) \/ Die(p, sig)
  \/ AllEnded

Spec == Init /\ [][Next]_vars

-----------------------------------------------------------------------------
Killers == {"SIGINT", "SIGTERM", "SIGKILL"}
Endings == {None, "code0", "code1", "code42"} \cup Killers

Flags == worked \in BOOLEAN /\ terminal \in BOOLEAN
TypeOK ==
  /\ Flags
  /\ DOMAIN pc = Processes
  /\ handled \in [Processes -> SUBSET {"SIGINT", "SIGTERM"}]
  /\ blocked \in [Processes -> SUBSET {"SIGTERM"}]
  /\ routines \in [Processes -> {None, "listed", "taken"}] /\ cleanups \in [Processes -> 0..1]
  /\ buffered \subseteq Processes /\ printed \in [Processes -> 0..1]
  /\ ending \in [Processes -> Endings] /\ report \in Endings

(* One of p's two handlers has run.                                        *)
Interrupted(p) == "SIGINT" \notin handled[p] \/ "SIGTERM" \in blocked[p]

(* A process that ends by exit, with whatever code and however many        *)
(* signals came, has cleaned up: once, or in part, where a handler has cut *)
(* the clean-up short, and then its code is 0.  Only a parent that could   *)
(* not register the routine has not begun (main.c:35-52, 62-64, 87-90).    *)
CleanedUpOnce ==
  \A p \in Processes :
    pc[p] = "ended" /\ ending[p] \notin Killers =>
      \/ routines[p] = "taken" /\ cleanups[p] = 1
      \/ routines[p] = "taken" /\ cleanups[p] = 0 /\ ending[p] = "code0" /\ Interrupted(p)
      \/ routines[p] = None /\ cleanups[p] = 0 /\ p = "parent" /\ ending[p] = "code1"

(* What the parent reports is how the child has ended, and can be relied   *)
(* on: code 42 means that the child has done its work and has completed    *)
(* its clean-up; code 0, which it never returns itself, that a handler has *)
(* ended it; it has no other code.  It never dies of SIGTERM, and of       *)
(* SIGINT only when the handler has run before (main.c:66-77, 93-108,      *)
(* 128-133).                                                               *)
ReportCanBeReliedOn ==
  report # None =>
    /\ pc["child"] = "ended" /\ report = ending["child"]
    /\ report \in {"code42", "code0", "SIGINT", "SIGKILL"}
    /\ report = "code42" => worked /\ cleanups["child"] = 1
    /\ report = "code0" => Interrupted("child")
    /\ report = "SIGINT" => "SIGINT" \notin handled["child"]

(* Once there is a child, the first line is the parent's alone on a        *)
(* terminal.  Elsewhere the child has a copy of it in its buffer, and each *)
(* of the two writes its own if it gets as far as its exit, never twice:   *)
(* a run nobody kills shows the line two times (main.c:111-115).           *)
FirstLineOnce ==
  pc["child"] # "unborn" =>
    /\ terminal => printed["parent"] = 1 /\ printed["child"] = 0
    /\ ~terminal =>
         \A p \in Processes :
           /\ printed[p] <= 1
           /\ pc[p] = "ended" /\ ending[p] \notin Killers => printed[p] = 1
-----------------------------------------------------------------------------
(* What the three properties rest on.  After a successful atexit a process *)
(* has its one routine before it or behind it, whatever interrupts what;   *)
(* before that, or where atexit has failed, no handler can set its status. *)
Registered(p) ==
  \/ routines[p] = "listed" /\ cleanups[p] = 0
     /\ pc[p] \notin {"atexit", "unborn", "cleanup", "_exit"}
     /\ (pc[p] = "ended" => ending[p] \in Killers)
  \/ routines[p] = "taken" /\ cleanups[p] = 1 /\ pc[p] \in {"exit", "_exit", "ended"}
  \/ /\ routines[p] = "taken" /\ cleanups[p] = 0
     /\ \/ pc[p] = "cleanup"
        \/ /\ pc[p] \in {"exit", "_exit", "ended"}
           /\ (ending[p] = "code0" /\ Interrupted(p)) \/ (pc[p] = "ended" /\ ending[p] \in Killers)
  \/ /\ routines[p] = None /\ cleanups[p] = 0 /\ handled[p] = {}
     /\ \/ pc[p] \in {"atexit", "unborn"}
        \/ /\ p = "parent" /\ pc[p] \in {"exit", "_exit", "ended"}
           /\ ending[p] = "code1" \/ ending[p] \in Killers

(* The child is born by fork, with the handler of SIGTERM, which stays;    *)
(* that of SIGINT is gone when SIGINT kills.                               *)
Handlers ==
  /\ pc["parent"] \in {"atexit", "SIGINT", "SIGTERM", "print", "fork"} => pc["child"] = "unborn"
  /\ pc["parent"] \in {"print", "fork"} => "SIGTERM" \in handled["parent"]
  /\ pc["child"] = "unborn" => handled["child"] = {}
  /\ pc["child"] # "unborn" => "SIGTERM" \in handled["child"]
  /\ ending["child"] \notin {"SIGTERM", "code1"}
  /\ ending["child"] = "SIGINT" => pc["child"] = "ended" /\ "SIGINT" \notin handled["child"]
  /\ ending["child"] = "code0" => Interrupted("child")

(* The child exits with 42 only after its work, and what the parent        *)
(* reports is how the child has ended.                                     *)
Reported ==
  /\ pc["child"] \in {"work", "finish", "unborn"} => ending["child"] = None
  /\ pc["child"] = "finish" \/ ending["child"] = "code42" => worked
  /\ report # None => pc["child"] = "ended" /\ report = ending["child"]
  /\ pc["child"] \in {"exit", "cleanup", "_exit", "ended"} => ending["child"] # None

(* On a terminal the parent writes the line at once.  Elsewhere it is in a *)
(* process's buffer until the process writes it or is killed.              *)
LinesWritten ==
  /\ pc["parent"] \in {"atexit", "SIGINT", "SIGTERM", "print"}
       => buffered = {} /\ printed["parent"] = 0
  /\ pc["child"] = "unborn" => "child" \notin buffered /\ printed["child"] = 0
  /\ terminal => buffered = {} /\ printed["child"] = 0
  /\ terminal /\ (pc["parent"] = "fork" \/ pc["child"] # "unborn") => printed["parent"] = 1
  /\ \A p \in buffered : printed[p] = 0 /\ pc[p] \notin {"_exit", "ended"}
  /\ ~terminal /\ pc["parent"] = "fork" => "parent" \in buffered
  /\ ~terminal /\ pc["child"] # "unborn" =>
       \A p \in Processes :
         p \in buffered \/ printed[p] = 1 \/ (pc[p] = "ended" /\ ending[p] \in Killers)

IInv == TypeOK /\ (\A p \in Processes : Registered(p)) /\ Handlers /\ Reported /\ LinesWritten
=============================================================================
