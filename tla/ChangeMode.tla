----------------------------- MODULE ChangeMode -----------------------------
(***************************************************************************)
(* lab4_chmod/mychmod.c: two runs of the program change the mode of one    *)
(* file.  A numeric mode is set; a symbolic one is read, changed and       *)
(* written back, in two system calls.                                      *)
(*                                                                         *)
(* A mode is the set of its bits 0..11, a mode string a sequence of        *)
(* characters.  Bits 0..2 belong to others, 3..5 to the group, 6..8 to the *)
(* user, and the file's type is not among them.                            *)
(***************************************************************************)
EXTENDS Integers, SequencesExt

CONSTANTS
  Runs,          (* the processes                                           *)
  Arguments,     (* Arguments[p]: the mode strings p may be given           *)
  InitialMode

VARIABLES
  mode,       (* of the file                                                *)
  pc,
  argument,   (* the mode string of each run                                *)
  current,    (* the mode a run has read                                    *)
  overtaken   (* the runs whose file another one changed since they read it *)

vars == <<mode, pc, argument, current, overtaken>>

Init ==
  /\ mode = InitialMode
  /\ pc = [p \in Runs |-> "start"]
  /\ argument \in [Runs -> UNION {Arguments[p] : p \in Runs}]
  /\ \A p \in Runs : argument[p] \in Arguments[p]
  /\ current = [p \in Runs |-> {}]
  /\ overtaken = {}

Goto(p, label) == pc' = [pc EXCEPT ![p] = label]

Octal == <<"0", "1", "2", "3", "4", "5", "6", "7">>
Who   == <<"o", "g", "u">>
Rights == <<"x", "w", "r">>

At(seq, c) == (CHOOSE k \in 1..Len(seq) : seq[k] = c) - 1

IsNumeric(s) == \A i \in 1..Len(s) : Contains(Octal, s[i])

(* The values of the bits 0..11, and whether a number has bit k.           *)
Values == <<1, 2, 4, 8, 16, 32, 64, 128, 256, 512, 1024, 2048>>
HasBit(n, k) == (n \div Values[k + 1]) % 2 = 1

(* What strtol makes of octal digits, the last one lowest.                 *)
Numeric(s) ==
  UNION {{3 * (Len(s) - i) + k : k \in {k \in 0..2 : HasBit(At(Octal, s[i]), k)}}
           : i \in 1..Len(s)}

(* The bits of the classes a character names, and those of a right.        *)
Class(c) == IF c = "a" THEN 0..8
            ELSE LET n == 3 * At(Who, c) IN n..n + 2
Right(c) == {3 * n + At(Rights, c) : n \in 0..2}

IsClass(c) == c = "a" \/ Contains(Who, c)

(* The loop over the leading "ugoa": how many characters it takes.         *)
Leading(s) == Cardinality({k \in 1..Len(s) : \A j \in 1..k : IsClass(s[j])})

Mask(s) ==
  IF Leading(s) = 0 THEN 0..8 ELSE UNION {Class(s[k]) : k \in 1..Leading(s)}

ValidOperator(s) == Leading(s) < Len(s) /\ s[Leading(s) + 1] \in {"+", "-", "="}
ValidRights(s) == \A k \in Leading(s) + 2..Len(s) : Contains(Rights, s[k])

(* The effective bits are the named rights of the selected classes.        *)
Apply(s, m) ==
  LET bits == (UNION {Right(s[k]) : k \in Leading(s) + 2..Len(s)}) \cap Mask(s)
      operator == s[Leading(s) + 1]
  IN  IF operator = "+" THEN m \cup bits
      ELSE IF operator = "-" THEN m \ bits
      ELSE (m \ Mask(s)) \cup bits

-----------------------------------------------------------------------------
(* apply_numeric_mode and, in two steps, apply_symbolic_mode.  A chmod     *)
(* overtakes every run that has read the mode and not written it yet.      *)

Chmod(p, bits) ==
  /\ mode' = bits
  /\ overtaken' = overtaken \cup {q \in Runs \ {p} : pc[q] = "chmod"}
  /\ Goto(p, "done")
  /\ UNCHANGED <<argument, current>>

(* A definition whose name ends in _Bug is a wrong version of the one that *)
(* follows it, there to be swapped in; nothing uses it.                    *)
SetNumeric_Bug(p) ==
  /\ pc[p] = "start" /\ IsNumeric(argument[p])
  /\ Chmod(p, Numeric(argument[p]))

SetNumeric(p) ==
  /\ pc[p] = "start" /\ IsNumeric(argument[p])
  /\ Numeric(argument[p]) \subseteq 0..11
  /\ Chmod(p, Numeric(argument[p]))

ReadMode(p) ==
  /\ pc[p] = "start" /\ ~IsNumeric(argument[p])
  /\ ValidOperator(argument[p]) /\ ValidRights(argument[p])
  /\ current' = [current EXCEPT ![p] = mode]
  /\ Goto(p, "chmod")
  /\ UNCHANGED <<mode, argument, overtaken>>

WriteMode_Bug(p) ==
  /\ pc[p] = "chmod"
  /\ Chmod(p, Apply(argument[p], current[p]) \cap 0..8)

WriteMode(p) ==
  /\ pc[p] = "chmod"
  /\ Chmod(p, Apply(argument[p], current[p]))

InvalidNumber(p) ==
  /\ pc[p] = "start" /\ IsNumeric(argument[p])
  /\ ~(Numeric(argument[p]) \subseteq 0..11)
  /\ Goto(p, "invalid")
  /\ UNCHANGED <<mode, argument, current, overtaken>>

InvalidSymbols(p) ==
  /\ pc[p] = "start" /\ ~IsNumeric(argument[p])
  /\ ~(ValidOperator(argument[p]) /\ ValidRights(argument[p]))
  /\ Goto(p, "invalid")
  /\ UNCHANGED <<mode, argument, current, overtaken>>

(* stat or chmod fails: report_system_error.                               *)
Fails(p) ==
  /\ pc[p] \in {"start", "chmod"}
  /\ Goto(p, "failed")
  /\ UNCHANGED <<mode, argument, current, overtaken>>

Ended == \A p \in Runs : pc[p] \in {"done", "invalid", "failed"}
AllEnded == Ended /\ UNCHANGED vars

Next ==
  \/ \E p \in Runs : \/ SetNumeric(p) \/ InvalidNumber(p) \/ ReadMode(p) \/ WriteMode(p)
                      \/ InvalidSymbols(p) \/ Fails(p)
  \/ AllEnded

Spec == Init /\ [][Next]_vars

-----------------------------------------------------------------------------
(* What the mode strings mean, said without the program's loops and masks: *)
(* a number up to 07777 in octal, or a split into classes, one operator    *)
(* and rights.                                                             *)
Number(s) ==
  LET value[k \in 0..Len(s)] ==
        IF k = 0 THEN 0 ELSE 8 * value[k - 1] + At(Octal, s[k])
  IN  value[Len(s)]

IsSplit(s, i) ==
  /\ s[i] \in {"+", "-", "="}
  /\ \A k \in 1..i - 1 : s[k] \in {"u", "g", "o", "a"}
  /\ \A k \in i + 1..Len(s) : s[k] \in {"r", "w", "x"}

WellFormed(s) ==
  IF IsNumeric(s) THEN Number(s) <= 4095 ELSE \E i \in 1..Len(s) : IsSplit(s, i)

Meaning(s, m) ==
  IF IsNumeric(s) THEN {b \in 0..11 : HasBit(Number(s), b)}
  ELSE LET i == CHOOSE i \in 1..Len(s) : IsSplit(s, i)
           Selected(b) ==
             b < 9 /\ (i = 1 \/ \E k \in 1..i - 1 : s[k] \in {"a", Who[(b \div 3) + 1]})
           Named(b) == \E k \in i + 1..Len(s) : s[k] = Rights[(b % 3) + 1]
       IN  {b \in 0..11 :
              \/ ~Selected(b) /\ b \in m
              \/ Selected(b) /\ s[i] = "=" /\ Named(b)
              \/ Selected(b) /\ s[i] = "+" /\ (b \in m \/ Named(b))
              \/ Selected(b) /\ s[i] = "-" /\ b \in m /\ ~Named(b)}

(* The mode that the runs of order, given these strings, make of the       *)
(* initial one, one after the other; and the modes those of S can make.    *)
Makes(strings, order) ==
  LET made[k \in 0..Len(order)] ==
        IF k = 0 THEN InitialMode ELSE Meaning(strings[order[k]], made[k - 1])
  IN  made[Len(order)]
CanMake(S) == {Makes(argument, order) : order \in SetToSeqs(S)}

TypeOK ==
  /\ mode \subseteq 0..11
  /\ pc \in [Runs -> {"start", "chmod", "done", "invalid", "failed"}]
  /\ DOMAIN argument = Runs /\ \A p \in Runs : argument[p] \in Arguments[p]
  /\ current \in [Runs -> SUBSET (0..11)]
  /\ overtaken \subseteq Runs

(* Exactly the well-formed mode strings are carried out; the empty one is  *)
(* a number, 0, to the program (mychmod.c:15-31, 43-82, 134-140).          *)
OnlyWellFormed ==
  \A p \in Runs : /\ pc[p] = "done" => WellFormed(argument[p])
                  /\ pc[p] = "invalid" => ~WellFormed(argument[p])

(* The file has the mode that the runs done so far make of it one after    *)
(* the other, as their mode strings mean it; if one has changed the mode   *)
(* between another's stat and chmod, then what some of them make of it: a  *)
(* whole change can be lost, and none is ever mixed with another or        *)
(* touches a bit it does not name (mychmod.c:36-41, 85-111).               *)
Done == {p \in Runs : pc[p] = "done"}
OneAfterTheOther ==
  \E some \in SUBSET Done :
    /\ overtaken = {} => some = Done
    /\ some = {} => Done = {}
    /\ mode \in CanMake(some)

(* What a run has read was such a mode too, and still is the file's if     *)
(* nobody has overtaken the run.                                           *)
IInv ==
  /\ TypeOK /\ OnlyWellFormed /\ OneAfterTheOther
  /\ \A p \in Runs : pc[p] = "chmod" =>
       /\ ~IsNumeric(argument[p]) /\ ValidOperator(argument[p]) /\ ValidRights(argument[p])
       /\ \E some \in SUBSET Done : current[p] \in CanMake(some)
       /\ p \notin overtaken => current[p] = mode
=============================================================================
