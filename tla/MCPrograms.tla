----------------------------- MODULE MCPrograms -----------------------------
(***************************************************************************)
(* The programs of laboratories 2, 3, 5, 6 and 7, each on a small          *)
(* instance.  They have nothing to do with one another: a behaviour is one *)
(* of the program the variable program names, and the state graph has a    *)
(* part for each.  The variables a, b, c, ... are the machine's memory,    *)
(* which each program uses for its own; pipe and FIFO have variables of    *)
(* their own, as the liveness properties look at these in every state.     *)
(***************************************************************************)
EXTENDS Integers, Sequences, FiniteSets

CONSTANTS
  Names, Hidden, Rank, InitialCapacity,  (* of myls.c                       *)
  Runs,                  (* of fifo.c                                       *)
  Adders, Extractors,    (* runs of the archiver                            *)
  Sender, OtherSenders, Receiver, Keys   (* lab 7                           *)

VARIABLES
  program, pc, a, b, c, d, e, f, g, h, i, j,
  pipePc, ends, pipeContent, pipeReceived, pipeFailures,
  name, fifoPc, fd, fifoContent, fifoReceived

memory   == <<pc, a, b, c, d, e, f, g, h, i, j>>
pipeVars == <<pipePc, ends, pipeContent, pipeReceived, pipeFailures>>
fifoVars == <<name, fifoPc, fd, fifoContent, fifoReceived>>
vars     == <<program, memory, pipeVars, fifoVars>>

-----------------------------------------------------------------------------
(* Lab 2.  For the run: Rank of names that differ in case only is the same. *)
RankIgnoringCase ==
  [n \in {"dot", "a", "b", "B"} |->
     CASE n = "dot" -> 0 [] n = "a" -> 1 [] n \in {"b", "B"} -> 2]
Ls == INSTANCE ListDirectory WITH
  there <- a, stream <- b, all <- c, list <- d, allocated <- e, capacity <- f,
  index <- g, freed <- h, shown <- i

(* Lab 3.                                                                  *)
Monitor == INSTANCE ForkMonitor WITH
  handled <- a, blocked <- b, routines <- c, cleanups <- d, buffered <- e,
  printed <- f, worked <- g, ending <- h, report <- i, terminal <- j

(* Lab 5.                                                                  *)
Race == INSTANCE ArchiveRace WITH
  name <- a, file <- b, fd <- c, pos <- d, target <- e, extracted <- f,
  mixed <- g, raced <- h, crossed <- i

(* Lab 6.                                                                  *)
Pipe == INSTANCE PipeTransfer WITH
  pc <- pipePc, content <- pipeContent, received <- pipeReceived, failures <- pipeFailures
Fifo == INSTANCE FifoTransfer WITH
  pc <- fifoPc, content <- fifoContent, received <- fifoReceived

(* Lab 7, twice: one sender and a receiver that read and write messages of *)
(* two pieces; and three senders that come and go.                         *)
Shm == INSTANCE ShmTransfer WITH
  Senders <- {Sender}, Receivers <- {Receiver}, Pieces <- {1, 2}, Messages <- 2,
  keyFile <- a, segment <- b, memory <- c, shmkey <- d, shmid <- e,
  toCopy <- f, number <- g, data <- h, signals <- i
ShmSenders == INSTANCE ShmTransfer WITH
  Senders <- {Sender} \cup OtherSenders, Receivers <- {}, Pieces <- {1}, Messages <- 1,
  keyFile <- a, segment <- b, memory <- c, shmkey <- d, shmid <- e,
  toCopy <- f, number <- g, data <- h, signals <- i

(* What the program starts with is not the mark for having nothing.  The   *)
(* list of myls has room for an entry.  A run of the archiver adds or      *)
(* extracts, and is neither the archive nor the record there was before.   *)
ASSUME ProgramsAssumption ==
  /\ InitialCapacity \in Nat \ {0}
  /\ Adders \cap Extractors = {} /\ Race!Old \notin Adders /\ Race!FirstFile \notin Extractors
  /\ Fifo!NoFifo \notin Runs
  /\ Shm!NoKey \notin Keys
  /\ Sender # Receiver

-----------------------------------------------------------------------------
Unused(variable) == variable = "unused"
NoMemory == Unused(pc) /\ Unused(a) /\ Unused(b) /\ Unused(c) /\ Unused(d) /\ Unused(e)
            /\ Unused(f) /\ Unused(g) /\ Unused(h) /\ Unused(i) /\ Unused(j)

Init ==
  /\ Pipe!Init /\ Fifo!Init
  /\ \/ program = "myls" /\ Ls!Init /\ Unused(j)
     \/ program = "monitor" /\ Monitor!Init
     \/ program = "archiver" /\ Race!Init /\ Unused(j)
     \/ program = "pipe" /\ NoMemory
     \/ program = "fifo" /\ NoMemory
     \/ program = "shared_memory" /\ Shm!Init /\ Unused(j)
     \/ program = "senders" /\ ShmSenders!Init /\ Unused(j)

Others == UNCHANGED <<program, pipeVars, fifoVars>>

LsNext      == program = "myls" /\ Ls!Next /\ Others /\ UNCHANGED j
MonitorNext == program = "monitor" /\ Monitor!Next /\ Others
RaceNext    == program = "archiver" /\ Race!Next /\ Others /\ UNCHANGED j
PipeNext    == program = "pipe" /\ Pipe!Next /\ UNCHANGED <<program, memory, fifoVars>>
FifoNext    == program = "fifo" /\ Fifo!Next /\ UNCHANGED <<program, memory, pipeVars>>
ShmNext     == program = "shared_memory" /\ Shm!Next /\ Others /\ UNCHANGED j
SendersNext == program = "senders" /\ ShmSenders!Next /\ Others /\ UNCHANGED j

Next ==
  \/ LsNext \/ MonitorNext \/ RaceNext \/ PipeNext \/ FifoNext \/ ShmNext
  \/ SendersNext

Spec == Init /\ [][Next]_vars

(* Of pipe and FIFO, a process that can go on does; nothing has to fail or *)
(* be killed.  The others are checked for safety only.                     *)
FairSpec ==
  /\ Spec
  /\ WF_vars(program = "pipe" /\ Pipe!ChildStep /\ UNCHANGED <<program, memory, fifoVars>>)
  /\ WF_vars(program = "pipe" /\ Pipe!ParentStep /\ UNCHANGED <<program, memory, fifoVars>>)
  /\ \A p \in Fifo!Processes :
       WF_vars(program = "fifo" /\ Fifo!Step(p) /\ UNCHANGED <<program, memory, pipeVars>>)

-----------------------------------------------------------------------------
(* Every program keeps to its types.                                       *)
TypeOK ==
  /\ Pipe!TypeOK /\ Fifo!TypeOK
  /\ \/ program = "myls" /\ Ls!TypeOK
     \/ program = "monitor" /\ Monitor!TypeOK
     \/ program = "archiver" /\ Race!TypeOK
     \/ program \in {"pipe", "fifo"} /\ NoMemory
     \/ program = "shared_memory" /\ Shm!TypeOK
     \/ program = "senders" /\ ShmSenders!TypeOK

(* Lab 2: myls.c:183-188, 221, 230, 317, 333-335.                          *)
FreedOnce == program = "myls" => Ls!FreedOnce

(* Lab 2: myls.c:216, 329-331, 342-350.                                    *)
ShowsAllSorted == program = "myls" => Ls!ShowsAllSorted

(* Lab 3: main.c:35-52, 62-64, 87-90.                                      *)
CleanedUpOnce == program = "monitor" => Monitor!CleanedUpOnce

(* Lab 3: main.c:66-77, 93-108, 128-133.                                   *)
ReportCanBeReliedOn == program = "monitor" => Monitor!ReportCanBeReliedOn

(* Lab 3: main.c:111-115.                                                  *)
FirstLineOnce == program = "monitor" => Monitor!FirstLineOnce

(* Lab 5: main.c:97, 152, 201-208, 276-284.                                *)
LostOnlyInARace == program = "archiver" => Race!LostOnlyInARace

(* Lab 6: pipe.c:34, 43, 55, 68-72.                                        *)
DeliveredOrKilled == Pipe!DeliveredOrKilled

(* Lab 6: fifo.c:38-117.                                                   *)
NoFifoLeftBehind == Fifo!NoFifoLeftBehind

(* Lab 6: fifo.c:47, 80.                                                   *)
TheyMeet == Fifo!TheyMeet

(* Lab 7: send.c:18-25, 49, 72.                                            *)
NoOldSegment == program = "senders" => ShmSenders!NoOldSegment

(* Lab 7: receive.c:55-70, send.c:42, 89.                                  *)
NeverOlder == [][program = "shared_memory" => Shm!NothingOlder]_vars
=============================================================================
