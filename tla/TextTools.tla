----------------------------- MODULE TextTools ------------------------------
(***************************************************************************)
(* lab1_cat_grep/main.c: mycat and mygrep, one program under two names.    *)
(* What it prints is the sequence of what its calls of printf print: a     *)
(* line of a source with what was put before and behind it.                *)
(*                                                                         *)
(* A line is [text, newline]: its text is "blank", or matches the pattern  *)
(* ("hit") or does not ("miss"); only the last line of a source can lack   *)
(* its newline, and is not blank then.  A source that fopen cannot open is *)
(* Unreadable.  (A directory opens, and reads as an empty file.)           *)
(***************************************************************************)
EXTENDS Integers, SequencesExt

CONSTANTS
  Contents,   (* what can be in a file: sequences of lines                  *)
  MaxFiles    (* how many files are named                                   *)

Unreadable == <<[text |-> "unreadable", newline |-> FALSE]>>

VARIABLES
  tool, options,   (* "mycat" or "mygrep"; the letters of options given     *)
  stdin,           (* no file is named: the one source is stdin             *)
  sources,         (* the contents of the files named, or of stdin          *)
  rest,            (* what is still to be read of the open one              *)
  counter,         (* current_line; for mygrep, found_status                *)
  status,          (* the exit status so far                                *)
  output,
  source,          (* which source is being read, from 1                    *)
  pc

input == <<tool, options, stdin, sources>>
vars == <<input, rest, counter, status, output, source, pc>>

Init ==
  /\ tool \in {"mycat", "mygrep"}
  /\ options \in IF tool = "mycat" THEN SUBSET {"n", "b", "E"} ELSE {{}}
  /\ stdin \in BOOLEAN
  /\ sources \in IF stdin THEN {<<c>> : c \in Contents}
                 ELSE BoundedSeq(Contents \cup {Unreadable}, MaxFiles) \ {<<>>}
  /\ rest = <<>> /\ counter = 0 /\ status = 0 /\ output = <<>> /\ source = 0
  /\ pc = "main"

(* A wrong name of the program or a wrong option, or no pattern.           *)
Usage ==
  /\ pc = "main"
  /\ pc' = "usage" /\ status' = 1
  /\ UNCHANGED <<input, rest, counter, output, source>>

(* A pattern that does not compile: every file fails, stdin does not.      *)
BadPattern ==
  /\ pc = "main" /\ tool = "mygrep"
  /\ pc' = "bad_pattern" /\ status' = IF stdin THEN 0 ELSE 1
  /\ UNCHANGED <<input, rest, counter, output, source>>

Start ==
  /\ pc = "main"
  /\ pc' = "next"
  /\ UNCHANGED <<input, rest, counter, status, output, source>>

Open ==
  /\ pc = "next" /\ source < Len(sources)
  /\ source' = source + 1
  /\ IF sources[source + 1] = Unreadable
     THEN status' = 1 /\ UNCHANGED <<rest, counter, pc>>
     ELSE /\ rest' = sources[source + 1]
          /\ counter' = IF tool = "mycat" THEN 1 ELSE 0
          /\ pc' = "read" /\ UNCHANGED status
  /\ UNCHANGED <<input, output>>

Item(number, name, line, end) ==
  [number |-> number, name |-> name, text |-> line.text, end |-> end]
NewlineOf(line) == IF line.newline THEN "newline" ELSE "nothing"

(* A definition whose name ends in _Bug is a wrong version of the one that *)
(* follows it, there to be swapped in; nothing uses it.                    *)
Numbered_Bug(line) == ("b" \in options /\ line.text # "blank") \/ "n" \in options

(* With -b and -n, -b decides.                                             *)
Numbered(line) ==
  \/ "b" \in options /\ line.text # "blank"
  \/ "n" \in options /\ "b" \notin options

DisplayTextLine ==
  /\ pc = "read" /\ rest # <<>> /\ tool = "mycat"
  /\ output' = Append(output,
       Item(IF Numbered(Head(rest)) THEN counter ELSE 0, 0, Head(rest),
            IF "E" \in options THEN "dollar_newline" ELSE NewlineOf(Head(rest))))
  /\ counter' = IF Numbered(Head(rest)) THEN counter + 1 ELSE counter
  /\ rest' = Tail(rest)
  /\ UNCHANGED <<input, status, source, pc>>

(* The name of the file stands before the line if there are several.       *)
SearchLine ==
  /\ pc = "read" /\ rest # <<>> /\ tool = "mygrep"
  /\ IF Head(rest).text = "hit"
     THEN /\ output' = Append(output,
               Item(0, IF Len(sources) > 1 THEN source ELSE 0, Head(rest),
                    NewlineOf(Head(rest))))
          /\ counter' = 1
     ELSE UNCHANGED <<output, counter>>
  /\ rest' = Tail(rest)
  /\ UNCHANGED <<input, status, source, pc>>

(* End of the source: a file without a match makes mygrep's status 1.      *)
Close ==
  /\ pc = "read" /\ rest = <<>>
  /\ status' = IF tool = "mygrep" /\ ~stdin /\ counter = 0 THEN 1 ELSE status
  /\ pc' = "next"
  /\ UNCHANGED <<input, rest, counter, output, source>>

Exit ==
  /\ pc = "next" /\ source = Len(sources)
  /\ pc' = "exited"
  /\ UNCHANGED <<input, rest, counter, status, output, source>>

Ended == pc \in {"usage", "bad_pattern", "exited"}

Next ==
  \/ Usage \/ BadPattern \/ Start \/ Open \/ DisplayTextLine \/ SearchLine
  \/ Close \/ Exit
  \/ Ended /\ UNCHANGED vars

Spec == Init /\ [][Next]_vars

-----------------------------------------------------------------------------
Texts == {"blank", "hit", "miss"}
Lines == [text : Texts, newline : BOOLEAN]
Items == [number : Nat, name : Nat, text : Texts, end : {"nothing", "newline", "dollar_newline"}]

TypeOK ==
  /\ tool \in {"mycat", "mygrep"} /\ stdin \in BOOLEAN
  /\ sources \in Seq(Contents \cup {Unreadable}) /\ rest \in Seq(Lines)
  /\ counter \in Nat /\ status \in {0, 1} /\ output \in Seq(Items)
  /\ source \in 0..Len(sources)
  /\ pc \in {"main", "next", "read"} \/ Ended

(* The reference: what each line of a source contributes, and so the       *)
(* source.                                                                 *)
LinesOf(s) == IF sources[s] = Unreadable THEN <<>> ELSE sources[s]
Counts(line) == IF "b" \in options THEN line.text # "blank" ELSE "n" \in options
NumberOf(lines, i) ==
  IF Counts(lines[i]) THEN Cardinality({k \in 1..i : Counts(lines[k])}) ELSE 0
Hit(line) == line.text = "hit"
Contribution(s, i) ==
  LET line == LinesOf(s)[i]
  IN  IF tool = "mycat"
      THEN <<Item(NumberOf(LinesOf(s), i), 0, line,
                  IF "E" \in options THEN "dollar_newline" ELSE NewlineOf(line))>>
      ELSE IF Hit(line)
      THEN <<Item(0, IF Len(sources) > 1 THEN s ELSE 0, line, NewlineOf(line))>>
      ELSE <<>>
Lead(s, n) == FlattenSeq([i \in 1..n |-> Contribution(s, i)])
Expected(s) == Lead(s, Len(LinesOf(s)))
Leads(n) == FlattenSeq([s \in 1..n |-> Expected(s)])

(* A source with which mycat, or mygrep, is content.                       *)
Good(s) ==
  /\ sources[s] # Unreadable
  /\ tool = "mygrep" /\ ~stdin => \E i \in DOMAIN sources[s] : Hit(sources[s][i])

(* mycat prints every line of every source that can be read, each source   *)
(* numbered from 1, and its status is 1 just if a file cannot be read;     *)
(* mygrep prints the matching lines, and its status is 0 just if every     *)
(* file can be read and has one, or if it reads stdin, matching or not     *)
(* (main.c:21-55, 57-68, 106-112, 118-137, 182-192).                       *)
PrintsAndReports ==
  pc = "exited" =>
    /\ output = Leads(Len(sources))
    /\ status = 0 <=> \A s \in DOMAIN sources : Good(s)

(* While it runs: the same of the sources read so far, and of the lines    *)
(* read of the open one.                                                   *)
Reading(n) ==
  LET lines == sources[source]
  IN  /\ Len(rest) = Len(lines) - n /\ \A i \in 1..Len(rest) : rest[i] = lines[n + i]
      /\ output = Leads(source - 1) \o Lead(source, n)
      /\ counter = IF tool = "mycat" THEN 1 + Cardinality({k \in 1..n : Counts(lines[k])})
                   ELSE IF \E k \in 1..n : Hit(lines[k]) THEN 1 ELSE 0

IInv ==
  /\ TypeOK /\ PrintsAndReports
  /\ pc = "main" => source = 0 /\ status = 0 /\ output = <<>>
  /\ pc = "next" => /\ output = Leads(source)
                    /\ status = 0 <=> \A s \in 1..source : Good(s)
  /\ pc = "read" => /\ source > 0 /\ sources[source] # Unreadable
                    /\ status = 0 <=> \A s \in 1..source - 1 : Good(s)
                    /\ \E n \in 0..Len(sources[source]) : Reading(n)
=============================================================================
