------------------------------ MODULE MCTools -------------------------------
(***************************************************************************)
(* Three programs that have nothing to do with one another: mycat and      *)
(* mygrep of lab 1, mychmod of lab 4 and the threads of lab 9.  A          *)
(* behaviour is one of the program the variable program names, and the     *)
(* state graph has a part for each.  The variables a, b, c, ... are the    *)
(* memory of the first two, which each uses for its own; the threads have  *)
(* variables of their own, as the liveness property looks at these in      *)
(* every state.                                                            *)
(***************************************************************************)
EXTENDS Integers, FiniteSets, SequencesExt

CONSTANTS
  Contents, MaxFiles,            (* of TextTools                            *)
  Runs, Arguments, InitialMode,  (* of ChangeMode                           *)
  Pieces, Numbers                (* of SemThreads                           *)

(* The lines of a file (TextTools).                                        *)
Lines == [text : {"blank", "hit", "miss"}, newline : BOOLEAN]

ASSUME ToolsAssumption ==
  /\ Contents \subseteq Seq(Lines) /\ MaxFiles \in Nat
  /\ IsFiniteSet(Runs) /\ \A p \in Runs : Arguments[p] \subseteq Seq(STRING)
  /\ InitialMode \subseteq 0..11
  /\ Pieces \in Nat \ {0} /\ Numbers \in Nat \ {0, 1}

VARIABLES
  program, pc, a, b, c, d, e, f, g, h, i,
  shared_buffer, message_counter, buffer_semaphore, writer, reader, at,
  printed, shown, main

memory == <<pc, a, b, c, d, e, f, g, h, i>>
threadVars ==
  <<shared_buffer, message_counter, buffer_semaphore, writer, reader, at,
    printed, shown, main>>
vars == <<program, memory, threadVars>>

-----------------------------------------------------------------------------
Text == INSTANCE TextTools WITH
  tool <- a, options <- b, stdin <- c, sources <- d, rest <- e, counter <- f,
  status <- g, output <- h, source <- i

Chmod == INSTANCE ChangeMode WITH
  mode <- a, argument <- b, current <- c, overtaken <- d

Threads == INSTANCE SemThreads

(* The small instance.  Lab 1: files of up to two lines; only a last line  *)
(* can lack its newline.                                                   *)
IsContent(s) == \A k \in DOMAIN s : ~s[k].newline => k = Len(s) /\ s[k].text # "blank"
SmallFiles == {s \in BoundedSeq(Lines, 2) : IsContent(s)}

(* Lab 4: one run with any short mode string, one with a change of each    *)
(* kind, on a file with mode 06644.                                        *)
Letters == {"g", "o", "a", "+", "-", "=", "r", "x", "7"}
Strings == BoundedSeq(Letters, 3) \cup {<<"1", "0", "0", "0", "0">>, <<"0", "7", "7", "7", "7">>}
Few     == {<<"=", "r">>, <<"u", "-", "w">>, <<"4", "7", "5", "5">>}
TwoArguments == <<Strings, Few>>
Mode06644 == {11, 10, 8, 7, 5, 2}

-----------------------------------------------------------------------------
Unused(variable) == variable = "unused"
NoMemory == Unused(pc) /\ Unused(a) /\ Unused(b) /\ Unused(c) /\ Unused(d) /\ Unused(e)
            /\ Unused(f) /\ Unused(g) /\ Unused(h) /\ Unused(i)

Init ==
  /\ Threads!Init
  /\ \/ program = "mycat_or_mygrep" /\ Text!Init
     \/ /\ program = "mychmod" /\ Chmod!Init
        /\ Unused(e) /\ Unused(f) /\ Unused(g) /\ Unused(h) /\ Unused(i)
     \/ program = "threads" /\ NoMemory

TextNext    == program = "mycat_or_mygrep" /\ Text!Next /\ UNCHANGED <<program, threadVars>>
ChmodNext   == program = "mychmod" /\ Chmod!Next /\ UNCHANGED <<program, threadVars, e, f, g, h, i>>
ThreadsNext == program = "threads" /\ Threads!Next /\ UNCHANGED <<program, memory>>

Next == TextNext \/ ChmodNext \/ ThreadsNext

Spec == Init /\ [][Next]_vars

(* The threads are scheduled as SemThreads says; the others are checked    *)
(* for safety only.                                                        *)
FairSpec ==
  /\ Spec
  /\ WF_vars(program = "threads" /\ Threads!WriterStep /\ UNCHANGED <<program, memory>>)
  /\ WF_vars(program = "threads" /\ Threads!ReaderStep /\ UNCHANGED <<program, memory>>)
  /\ SF_vars(program = "threads" /\ Threads!ReaderWait /\ UNCHANGED <<program, memory>>)

-----------------------------------------------------------------------------
(* Every program keeps to its types; of the threads' semaphore that is     *)
(* that it is never above 1 (thread_example.c:20, 37, 49, 60, 74).         *)
TypeOK ==
  /\ Threads!TypeOK
  /\ \/ program = "mycat_or_mygrep" /\ Text!TypeOK
     \/ program = "mychmod" /\ Chmod!TypeOK
     \/ program = "threads" /\ NoMemory

(* Lab 1: main.c:21-55, 118-137, 182-192.                                  *)
PrintsAndReports == program = "mycat_or_mygrep" => Text!PrintsAndReports

(* Lab 4: mychmod.c:15-31, 43-82, 134-140.                                 *)
OnlyWellFormed == program = "mychmod" => Chmod!OnlyWellFormed

(* Lab 4: mychmod.c:36-41, 85-111.                                         *)
OneAfterTheOther == program = "mychmod" => Chmod!OneAfterTheOther

(* Lab 9: thread_example.c:19-37, 48-60.                                   *)
LinesAreCurrent == Threads!LinesAreCurrent

(* Lab 9: thread_example.c:47-62.                                          *)
ReaderKeepsUp == Threads!ReaderKeepsUp
=============================================================================
