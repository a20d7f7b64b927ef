--------------------------- MODULE MCTools_proofs ---------------------------
(***************************************************************************)
(* Theorems about mycat, mygrep, mychmod and the threads of lab 9.  Each   *)
(* program's invariant stands in its own module; here it is shown to be    *)
(* kept by the steps of the program, and so by those of MCTools, where     *)
(* only the program that runs takes steps.                                 *)
(***************************************************************************)
EXTENDS MCTools, FiniteSetTheorems, SequenceTheorems, TLAPS

LEMMA OneProgram ==
  ASSUME [Next]_vars
  PROVE  /\ program' = program
         /\ program = "mycat_or_mygrep" => [Text!Next]_(Text!vars)
         /\ program = "mychmod" => [Chmod!Next]_(Chmod!vars)
         /\ program = "threads" => UNCHANGED memory
         /\ [Threads!Next]_(Threads!vars)
BY DEF Next, TextNext, ChmodNext, ThreadsNext, vars, memory, threadVars, Text!vars, Text!input,
  Chmod!vars, Threads!vars

-----------------------------------------------------------------------------
(* What labs 1 and 4 need: induction, and functions defined by it.         *)

(* Induction over an interval.  (The library's theorem is about an         *)
(* operator, and cannot be instantiated.)                                  *)
LEMMA Upwards ==
  ASSUME NEW N \in Nat, NEW S, 0 \in S, \A k \in 1..N : k - 1 \in S => k \in S
  PROVE  0..N \subseteq S
<1> DEFINE Bad == {k \in 0..N : k \notin S}
           Below(n) == {m \in Bad : m < n}
           Belows == {Below(n) : n \in Bad}
<1>1. SUFFICES ASSUME Bad # {} PROVE FALSE
  OBVIOUS
<1>2. \A n \in Bad : Below(n) \in FiniteSubsetsOf(Bad)
  <2>1. TAKE n \in Bad
  <2>2. IsFiniteSet(0..N) /\ Below(n) \subseteq 0..N
    BY FS_Interval
  <2>3. IsFiniteSet(Below(n))
    BY <2>2, FS_Subset
  <2>4. QED
    BY <2>3 DEF FiniteSubsetsOf
<1>3. PICK B \in Belows : \A C \in Belows : <<C, B>> \notin StrictSubsetOrdering(Bad)
  <2>1. Belows \subseteq FiniteSubsetsOf(Bad) /\ Belows # {}
    BY <1>1, <1>2
  <2>2. QED
    BY <2>1, FS_StrictSubsetOrderingWellFounded, WFMin
<1>4. PICK n \in Bad : B = Below(n)
  OBVIOUS
<1>5. n - 1 \in Bad /\ n - 1 < n
  <2>1. n \in 0..N /\ n \notin S
    OBVIOUS
  <2>2. n \in 1..N /\ n - 1 \in 0..N
    BY <2>1
  <2>3. QED
    BY <2>1, <2>2
<1>6. Below(n - 1) \subseteq Below(n) /\ n - 1 \in Below(n) /\ n - 1 \notin Below(n - 1)
  <2>1. \A m \in Bad : m < n - 1 => m < n
    <3>1. n \in Int /\ \A m \in Bad : m \in Int
      OBVIOUS
    <3>2. QED
      BY <3>1
  <2>2. QED
    BY <2>1, <1>5
<1>7. <<Below(n - 1), B>> \in StrictSubsetOrdering(Bad)
  <2>1. Below(n - 1) \in SUBSET Bad /\ B \in SUBSET Bad
    BY <1>4
  <2>2. QED
    BY <2>1, <1>4, <1>6 DEF StrictSubsetOrdering
<1>8. QED
  BY <1>3, <1>5, <1>7

(* A function that does to its value at k - 1 what step[k] does.           *)
Iterated(made, N, start, step) ==
  made[0] = start /\ \A k \in 1..N : made[k] = step[k][made[k - 1]]

(* There is one, and its last value is the only one possible.              *)
LEMMA Iterates ==
  ASSUME NEW N \in Nat, NEW V, NEW start \in V, NEW step \in [1..N -> [V -> V]]
  PROVE  \E made \in [0..N -> V] : Iterated(made, N, start, step)
<1> DEFINE S == {n \in 0..N : \E made \in [0..n -> V] : Iterated(made, n, start, step)}
<1>1. 0 \in S
  <2>1. [k \in 0..0 |-> start] \in [0..0 -> V] /\ Iterated([k \in 0..0 |-> start], 0, start, step)
    BY DEF Iterated
  <2>2. QED
    BY <2>1
<1>2. ASSUME NEW n \in 1..N, n - 1 \in S PROVE n \in S
  <2>1. PICK made \in [0..n - 1 -> V] : Iterated(made, n - 1, start, step)
    BY <1>2
  <2> DEFINE more == [k \in 0..n |-> IF k = n THEN step[n][made[n - 1]] ELSE made[k]]
  <2>2. n \in Nat /\ n - 1 \in 0..n - 1 /\ made[n - 1] \in V
    BY <2>1
  <2>3. step[n][made[n - 1]] \in V
    BY <2>2
  <2>4. more \in [0..n -> V]
    BY <2>1, <2>2, <2>3
  <2>5. Iterated(more, n, start, step)
    BY <2>1, <2>2 DEF Iterated
  <2>6. QED
    <3> HIDE DEF more
    <3>1. QED
      BY <2>4, <2>5
<1>3. 0..N \subseteq S
  <2> HIDE DEF S
  <2>1. QED
    BY <1>1, <1>2, Upwards
<1>4. QED
  BY <1>3

LEMMA SameIterates ==
  ASSUME NEW N \in Nat, NEW start, NEW step, NEW made1, NEW made2,
         Iterated(made1, N, start, step), Iterated(made2, N, start, step)
  PROVE  made1[N] = made2[N]
<1> DEFINE S == {k \in 0..N : made1[k] = made2[k]}
<1>1. 0 \in S /\ \A k \in 1..N : k - 1 \in S => k \in S
  BY DEF Iterated
<1>2. 0..N \subseteq S
  BY <1>1, Upwards
<1>3. QED
  BY <1>2

(* As the library states it, for every set.                                *)
LEMMA Associative == \A S : \A r, s, t \in Seq(S) : (r \o s) \o t = r \o (s \o t)
<1>1. TAKE S
<1>2. TAKE r, s, t \in Seq(S)
<1>3. QED
  BY ConcatAssociative, SMTT(30)

-----------------------------------------------------------------------------
(* Lab 1.  a is the tool, b its options, c whether it reads stdin, d the   *)
(* sources, e what is left of the open one, f the counter, g the status, h *)
(* the output and i which source is open.  First what the output should be *)
(* made of, line by line; then the steps.                                  *)

(* FlattenSeq of one sequence more.                                        *)
Joins(seqs) == [k \in 1..Len(seqs) |-> [s \in Seq(Text!Items) |-> s \o seqs[k]]]

LEMMA Flattened ==
  ASSUME NEW N \in Nat, NEW seqs \in [1..N -> Seq(Text!Items)]
  PROVE  \E made \in [0..N -> Seq(Text!Items)] :
           Iterated(made, N, <<>>, Joins(seqs)) /\ Text!FlattenSeq(seqs) = made[N]
<1> DEFINE V == Seq(Text!Items)
           Def(r) == r = [k \in 1..N |-> IF k = 1 THEN seqs[k] ELSE r[k - 1] \o seqs[k]]
           flatten == CHOOSE r : Def(r)
<1>1. seqs \in Seq(V) /\ Len(seqs) = N /\ \A k \in 1..N : seqs[k] \in V
  OBVIOUS
<1>2. <<>> \in V /\ \A s \in V : <<>> \o s = s
  BY EmptySeq, ConcatEmptySeq
<1>3. \A s \in V : \A t \in V : s \o t \in V
  BY ConcatProperties
<1> HIDE DEF V
<1>4. Joins(seqs) \in [1..N -> [V -> V]]
  BY <1>1, <1>3 DEF Joins, V
<1>5. PICK made \in [0..N -> V] : Iterated(made, N, <<>>, Joins(seqs))
  BY <1>2, <1>4, Iterates
<1>6. \A k \in 1..N : made[k - 1] \in V /\ made[k] = made[k - 1] \o seqs[k]
  <2>1. TAKE k \in 1..N
  <2>2. made[k - 1] \in V
    BY k - 1 \in 0..N
  <2>3. made[k] = Joins(seqs)[k][made[k - 1]]
    BY <1>5 DEF Iterated
  <2>4. QED
    BY <2>2, <2>3, <1>1 DEF Joins, V
<1>7. CASE N = 0
  <2>1. Text!FlattenSeq(seqs) = <<>>
    BY <1>1, <1>7 DEF Text!FlattenSeq
  <2>2. made[N] = <<>>
    BY <1>5, <1>7 DEF Iterated
  <2>3. QED
    BY <1>5, <2>1, <2>2 DEF V
<1>8. CASE N > 0
  <2> DEFINE r0 == [k \in 1..N |-> made[k]]
  <2>1. Def(r0)
    <3>1. \A k \in 1..N : r0[k] = IF k = 1 THEN seqs[k] ELSE r0[k - 1] \o seqs[k]
      <4>1. TAKE k \in 1..N
      <4>2. CASE k = 1
        <5>1. made[k - 1] = <<>>
          BY <1>5, <4>2 DEF Iterated
        <5>2. QED
          BY <1>1, <1>2, <1>6, <4>2, <5>1
      <4>3. CASE k # 1
        <5>1. k - 1 \in 1..N
          BY <4>3
        <5>2. QED
          BY <1>6, <4>3, <5>1
      <4>4. QED
        BY <4>2, <4>3
    <3>2. r0 = [k \in 1..N |-> r0[k]]
      OBVIOUS
    <3> HIDE DEF r0
    <3>3. QED
      BY <3>1, <3>2
  <2>2. Def(flatten)
    <3> HIDE DEF Def, r0
    <3>1. QED
      BY <2>1
  <2>3. Text!FlattenSeq(seqs) = flatten[N]
    BY <1>1, <1>8 DEF Text!FlattenSeq
  <2> HIDE DEF flatten, r0
  <2>4. \A k \in 1..N : flatten[k] = IF k = 1 THEN seqs[k] ELSE flatten[k - 1] \o seqs[k]
    BY <2>2
  <2> DEFINE S == {k \in 0..N : k = 0 \/ flatten[k] = made[k]}
  <2>5. 0 \in S
    OBVIOUS
  <2>6. ASSUME NEW k \in 1..N, k - 1 \in S PROVE k \in S
    <3>1. k - 1 = 0 \/ flatten[k - 1] = made[k - 1]
      BY <2>6
    <3>2. flatten[k] = made[k]
      <4> HIDE DEF S
      <4>1. CASE k = 1
        <5>1. made[k - 1] = <<>> /\ seqs[k] \in V
          BY <1>1, <1>5, <4>1 DEF Iterated
        <5>2. made[k] = seqs[k]
          BY <1>2, <1>6, <5>1
        <5>3. flatten[k] = seqs[k]
          BY <2>4, <4>1
        <5>4. QED
          BY <5>2, <5>3
      <4>2. CASE k # 1
        <5>1. flatten[k - 1] = made[k - 1]
          BY <3>1, <4>2
        <5>2. flatten[k] = flatten[k - 1] \o seqs[k]
          BY <2>4, <4>2
        <5>3. QED
          BY <1>6, <5>1, <5>2
      <4>3. QED
        BY <4>1, <4>2
    <3>3. QED
      BY <3>2
  <2>7. 0..N \subseteq S
    <3> HIDE DEF S
    <3>1. QED
      BY <2>5, <2>6, Upwards
  <2>8. flatten[N] = made[N]
    BY <1>8, <2>7
  <2>9. QED
    BY <1>5, <2>3, <2>8 DEF V
<1>9. QED
  BY <1>7, <1>8

LEMMA FlattenLonger ==
  ASSUME NEW N \in Nat, NEW shorter \in [1..N -> Seq(Text!Items)],
         NEW longer \in [1..N + 1 -> Seq(Text!Items)], \A k \in 1..N : longer[k] = shorter[k]
  PROVE  /\ Text!FlattenSeq(shorter) \in Seq(Text!Items)
         /\ Text!FlattenSeq(longer) = Text!FlattenSeq(shorter) \o longer[N + 1]
<1>1. PICK made \in [0..N -> Seq(Text!Items)] :
        Iterated(made, N, <<>>, Joins(shorter)) /\ Text!FlattenSeq(shorter) = made[N]
  BY Flattened
<1>2. PICK more \in [0..N + 1 -> Seq(Text!Items)] :
        Iterated(more, N + 1, <<>>, Joins(longer)) /\ Text!FlattenSeq(longer) = more[N + 1]
  <2>1. N + 1 \in Nat
    OBVIOUS
  <2>2. QED
    BY <2>1, Flattened
<1>3. Len(shorter) = N /\ Len(longer) = N + 1
  OBVIOUS
<1>4. \A k \in 1..N + 1 : more[k - 1] \in Seq(Text!Items) /\ more[k] = more[k - 1] \o longer[k]
  <2>1. TAKE k \in 1..N + 1
  <2>2. more[k - 1] \in Seq(Text!Items)
    BY k - 1 \in 0..N + 1
  <2>3. more[k] = Joins(longer)[k][more[k - 1]]
    BY <1>2 DEF Iterated
  <2>4. QED
    BY <2>2, <2>3, <1>3 DEF Joins
<1>5. Iterated(more, N, <<>>, Joins(shorter))
  <2>1. more[0] = <<>>
    BY <1>2 DEF Iterated
  <2>2. ASSUME NEW k \in 1..N PROVE more[k] = Joins(shorter)[k][more[k - 1]]
    <3>1. k \in 1..N + 1 /\ longer[k] = shorter[k]
      OBVIOUS
    <3>2. QED
      BY <1>3, <1>4, <3>1 DEF Joins
  <2>3. QED
    BY <2>1, <2>2 DEF Iterated
<1>6. more[N] = made[N]
  BY <1>1, <1>5, SameIterates
<1>7. N + 1 \in 1..N + 1 /\ (N + 1) - 1 = N /\ N \in 0..N
  OBVIOUS
<1>8. QED
  BY <1>1, <1>2, <1>4, <1>6, <1>7

LEMMA FlattenNone == ASSUME NEW seqs \in [1..0 -> Seq(Text!Items)] PROVE Text!FlattenSeq(seqs) = <<>>
<1>1. PICK made \in [0..0 -> Seq(Text!Items)] :
        Iterated(made, 0, <<>>, Joins(seqs)) /\ Text!FlattenSeq(seqs) = made[0]
  BY Flattened, 0 \in Nat
<1>2. QED
  BY <1>1 DEF Iterated

(* The lines of a source, and what they contribute.                        *)
LEMMA SourceLines ==
  ASSUME Text!TypeOK, NEW s \in 1..Len(d)
  PROVE  /\ Text!LinesOf(s) \in Seq(Text!Lines)
         /\ d[s] # Text!Unreadable => d[s] \in Seq(Text!Lines) /\ Text!LinesOf(s) = d[s]
<1>1. \A t \in Contents : t \in Seq(Text!Lines)
  <2>1. Lines = Text!Lines
    BY DEF Lines, Text!Lines, Text!Texts
  <2>2. QED
    BY <2>1, ToolsAssumption
<1>2. d \in Seq(Contents \cup {Text!Unreadable})
  BY DEF Text!TypeOK
<1>3. d[s] \in Contents \/ d[s] = Text!Unreadable
  BY <1>2
<1>4. <<>> \in Seq(Text!Lines)
  OBVIOUS
<1>5. QED
  BY <1>1, <1>3, <1>4 DEF Text!LinesOf

(* The first lines that are numbered: how many there are.                  *)
NumberedTo(t, n) == {k \in 1..n : Text!Counts(t[k])}

LEMMA NumberedLines ==
  ASSUME NEW t, NEW n \in Nat
  PROVE  /\ Cardinality(NumberedTo(t, n)) \in Nat
         /\ Cardinality(NumberedTo(t, 0)) = 0
         /\ Cardinality(NumberedTo(t, n + 1)) =
              IF Text!Counts(t[n + 1]) THEN Cardinality(NumberedTo(t, n)) + 1
              ELSE Cardinality(NumberedTo(t, n))
<1>1. IsFiniteSet(NumberedTo(t, n))
  <2>1. IsFiniteSet(1..n)
    BY 1 \in Int, n \in Int, FS_Interval
  <2>2. NumberedTo(t, n) \subseteq 1..n
    BY DEF NumberedTo
  <2>3. QED
    BY <2>1, <2>2, FS_Subset
<1>2. Cardinality(NumberedTo(t, n)) \in Nat
  BY <1>1, FS_CardinalityType
<1>3. Cardinality(NumberedTo(t, 0)) = 0
  <2>1. NumberedTo(t, 0) = {}
    BY DEF NumberedTo
  <2>2. QED
    BY <2>1, FS_EmptySet
<1>4. CASE Text!Counts(t[n + 1])
  <2>1. NumberedTo(t, n + 1) = NumberedTo(t, n) \cup {n + 1} /\ n + 1 \notin NumberedTo(t, n)
    <3>1. \A k : k \in 1..n + 1 <=> k \in 1..n \/ k = n + 1
      OBVIOUS
    <3>2. n + 1 \notin 1..n
      OBVIOUS
    <3>3. QED
      BY <1>4, <3>1, <3>2 DEF NumberedTo
  <2>2. Cardinality(NumberedTo(t, n) \cup {n + 1}) = Cardinality(NumberedTo(t, n)) + 1
    BY <1>1, <2>1, FS_AddElement
  <2>3. QED
    BY <1>2, <1>3, <1>4, <2>1, <2>2
<1>5. CASE ~Text!Counts(t[n + 1])
  <2>1. NumberedTo(t, n + 1) = NumberedTo(t, n)
    <3>1. \A k : k \in 1..n + 1 <=> k \in 1..n \/ k = n + 1
      OBVIOUS
    <3>2. QED
      BY <1>5, <3>1 DEF NumberedTo
  <2>2. QED
    BY <1>2, <1>3, <1>5, <2>1
<1>6. QED
  BY <1>4, <1>5

LEMMA NumberOfLine ==
  ASSUME NEW t, NEW n \in Nat
  PROVE  Text!NumberOf(t, n) = IF Text!Counts(t[n]) THEN Cardinality(NumberedTo(t, n)) ELSE 0
<1>1. Text!Cardinality(NumberedTo(t, n)) = Cardinality(NumberedTo(t, n))
  BY DEF Text!Cardinality, Cardinality
<1>2. QED
  BY <1>1 DEF Text!NumberOf, NumberedTo

LEMMA ContributionTyped ==
  ASSUME Text!TypeOK, NEW s \in 1..Len(d), NEW n \in 1..Len(Text!LinesOf(s))
  PROVE  Text!Contribution(s, n) \in Seq(Text!Items)
<1>1. PICK line \in Text!Lines : line = Text!LinesOf(s)[n]
  BY SourceLines
<1>2. line.text \in Text!Texts /\ line.newline \in BOOLEAN
  BY DEF Text!Lines
<1>3. Text!NumberOf(Text!LinesOf(s), n) \in Nat
  <2>1. n \in Nat /\ Len(Text!LinesOf(s)) \in Nat
    BY SourceLines
  <2>2. QED
    BY <2>1, NumberOfLine, NumberedLines
<1>4. Text!NewlineOf(line) \in {"nothing", "newline", "dollar_newline"}
  BY DEF Text!NewlineOf
<1>5. \A number \in Nat, file \in Nat, end \in {"nothing", "newline", "dollar_newline"} :
        <<Text!Item(number, file, line, end)>> \in Seq(Text!Items)
  <2>1. TAKE number \in Nat, file \in Nat, end \in {"nothing", "newline", "dollar_newline"}
  <2>2. Text!Item(number, file, line, end) =
          [number |-> number, name |-> file, text |-> line.text, end |-> end]
    BY DEF Text!Item
  <2>3. Text!Item(number, file, line, end) \in Text!Items
    BY <1>2, <2>2 DEF Text!Items
  <2>4. QED
    BY <2>3
<1>6. <<>> \in Seq(Text!Items) /\ 0 \in Nat /\ s \in Nat
  OBVIOUS
<1>7. QED
  BY <1>1, <1>3, <1>4, <1>5, <1>6 DEF Text!Contribution

(* What a source contributes, line by line, and what the sources do.       *)
LEMMA LeadGrows ==
  ASSUME Text!TypeOK, NEW s \in 1..Len(d), NEW N \in Nat, N <= Len(Text!LinesOf(s))
  PROVE  /\ Text!Lead(s, N) \in Seq(Text!Items)
         /\ Text!Lead(s, 0) = <<>>
         /\ N < Len(Text!LinesOf(s)) =>
              Text!Lead(s, N + 1) = Text!Lead(s, N) \o Text!Contribution(s, N + 1)
<1> DEFINE Part(n) == [k \in 1..n |-> Text!Contribution(s, k)]
<1>1. Len(Text!LinesOf(s)) \in Nat
  BY SourceLines
<1>2. \A k \in 1..Len(Text!LinesOf(s)) : Text!Contribution(s, k) \in Seq(Text!Items)
  BY ContributionTyped
<1>3. Part(N) \in [1..N -> Seq(Text!Items)] /\ Part(0) \in [1..0 -> Seq(Text!Items)]
  <2>1. \A k \in 1..N : k \in 1..Len(Text!LinesOf(s))
    BY <1>1
  <2>2. QED
    BY <1>2, <2>1
<1>4. \A n : Text!Lead(s, n) = Text!FlattenSeq(Part(n))
  BY DEF Text!Lead
<1> HIDE DEF Part
<1>5. Text!Lead(s, 0) = <<>>
  BY <1>3, <1>4, FlattenNone
<1>6. Text!Lead(s, N) \in Seq(Text!Items)
  <2>1. PICK made \in [0..N -> Seq(Text!Items)] : Text!FlattenSeq(Part(N)) = made[N]
    BY <1>3, Flattened
  <2>2. QED
    BY <1>4, <2>1, N \in 0..N
<1>7. ASSUME N < Len(Text!LinesOf(s))
      PROVE  Text!Lead(s, N + 1) = Text!Lead(s, N) \o Text!Contribution(s, N + 1)
  <2>1. \A k \in 1..N + 1 : k \in 1..Len(Text!LinesOf(s))
    BY <1>1, <1>7
  <2>2. Part(N + 1) \in [1..N + 1 -> Seq(Text!Items)]
    BY <1>2, <2>1 DEF Part
  <2>3. /\ \A k \in 1..N : Part(N + 1)[k] = Part(N)[k]
        /\ Part(N + 1)[N + 1] = Text!Contribution(s, N + 1)
    BY DEF Part
  <2>4. Text!FlattenSeq(Part(N + 1)) = Text!FlattenSeq(Part(N)) \o Part(N + 1)[N + 1]
    BY <1>3, <2>2, <2>3, FlattenLonger
  <2>5. QED
    BY <1>4, <2>3, <2>4
<1>8. QED
  BY <1>5, <1>6, <1>7

LEMMA LeadsGrow ==
  ASSUME Text!TypeOK, NEW N \in Nat, N <= Len(d)
  PROVE  /\ Text!Leads(N) \in Seq(Text!Items)
         /\ Text!Leads(0) = <<>>
         /\ N < Len(d) => Text!Leads(N + 1) = Text!Leads(N) \o Text!Expected(N + 1)
<1> DEFINE Part(n) == [s \in 1..n |-> Text!Expected(s)]
<1>1. Len(d) \in Nat
  BY DEF Text!TypeOK
<1>2. \A s \in 1..Len(d) : Text!Expected(s) \in Seq(Text!Items)
  <2>1. TAKE s \in 1..Len(d)
  <2>2. PICK n \in Nat : n = Len(Text!LinesOf(s))
    BY SourceLines, Len(Text!LinesOf(s)) \in Nat
  <2>3. Text!Lead(s, n) \in Seq(Text!Items)
    <3>1. n <= Len(Text!LinesOf(s))
      BY <2>2
    <3>2. QED
      BY <3>1, LeadGrows
  <2>4. QED
    BY <2>2, <2>3 DEF Text!Expected
<1>3. Part(N) \in [1..N -> Seq(Text!Items)] /\ Part(0) \in [1..0 -> Seq(Text!Items)]
  <2>1. \A k \in 1..N : k \in 1..Len(d)
    BY <1>1
  <2>2. QED
    BY <1>2, <2>1
<1>4. \A n : Text!Leads(n) = Text!FlattenSeq(Part(n))
  BY DEF Text!Leads
<1> HIDE DEF Part
<1>5. Text!Leads(0) = <<>>
  BY <1>3, <1>4, FlattenNone
<1>6. Text!Leads(N) \in Seq(Text!Items)
  <2>1. PICK made \in [0..N -> Seq(Text!Items)] : Text!FlattenSeq(Part(N)) = made[N]
    BY <1>3, Flattened
  <2>2. QED
    BY <1>4, <2>1, N \in 0..N
<1>7. ASSUME N < Len(d) PROVE Text!Leads(N + 1) = Text!Leads(N) \o Text!Expected(N + 1)
  <2>1. \A k \in 1..N + 1 : k \in 1..Len(d)
    BY <1>1, <1>7
  <2>2. Part(N + 1) \in [1..N + 1 -> Seq(Text!Items)]
    BY <1>2, <2>1 DEF Part
  <2>3. /\ \A k \in 1..N : Part(N + 1)[k] = Part(N)[k]
        /\ Part(N + 1)[N + 1] = Text!Expected(N + 1)
    BY DEF Part
  <2>4. Text!FlattenSeq(Part(N + 1)) = Text!FlattenSeq(Part(N)) \o Part(N + 1)[N + 1]
    BY <1>3, <2>2, <2>3, FlattenLonger
  <2>5. QED
    BY <1>4, <2>3, <2>4
<1>8. QED
  BY <1>5, <1>6, <1>7

(* The steps that leave the sources and the options as they are.           *)
LEMMA SameReference ==
  ASSUME UNCHANGED <<a, b, c, d>>
  PROVE  /\ \A s : Text!LinesOf(s)' = Text!LinesOf(s) /\ Text!Good(s)' = Text!Good(s)
         /\ \A line : Text!Counts(line)' = Text!Counts(line)
         /\ \A s, n : Text!Lead(s, n)' = Text!Lead(s, n)
         /\ \A n : Text!Lead(i, n)' = Text!Lead(i', n)
         /\ Text!Leads(i)' = Text!Leads(i') /\ Text!Leads(i - 1)' = Text!Leads(i' - 1)
         /\ Text!Leads(Len(d))' = Text!Leads(Len(d))
<1>1. a' = a /\ b' = b /\ c' = c /\ d' = d
  OBVIOUS
<1>2. ASSUME NEW s PROVE Text!LinesOf(s)' = Text!LinesOf(s)
  BY <1>1 DEF Text!LinesOf
<1>3. ASSUME NEW s PROVE Text!Good(s)' = Text!Good(s)
  BY <1>1 DEF Text!Good
<1>4. ASSUME NEW line PROVE Text!Counts(line)' = Text!Counts(line)
  BY <1>1 DEF Text!Counts
<1>5. ASSUME NEW t, NEW n PROVE Text!NumberOf(t, n)' = Text!NumberOf(t, n)
  BY <1>4 DEF Text!NumberOf
<1>6. ASSUME NEW s, NEW n PROVE Text!Contribution(s, n)' = Text!Contribution(s, n)
  BY <1>1, <1>2, <1>5 DEF Text!Contribution
<1>7. ASSUME NEW s, NEW n PROVE Text!Lead(s, n)' = Text!Lead(s, n)
  BY <1>6 DEF Text!Lead
<1>8. ASSUME NEW s PROVE Text!Expected(s)' = Text!Expected(s)
  BY <1>2, <1>7 DEF Text!Expected
<1>9. ASSUME NEW n PROVE Text!Lead(i, n)' = Text!Lead(i', n)
  BY <1>6 DEF Text!Lead
<1>10. Text!Leads(i)' = Text!Leads(i') /\ Text!Leads(i - 1)' = Text!Leads(i' - 1)
  BY <1>8 DEF Text!Leads
<1>11. Text!Leads(Len(d))' = Text!Leads(Len(d))
  BY <1>1, <1>8 DEF Text!Leads
<1>12. QED
  BY <1>2, <1>3, <1>4, <1>7, <1>9, <1>10, <1>11

LEMMA ReadingMeans ==
  ASSUME NEW n
  PROVE  Text!Reading(n) <=>
           /\ Len(e) = Len(d[i]) - n /\ \A k \in 1..Len(e) : e[k] = d[i][n + k]
           /\ h = Text!Leads(i - 1) \o Text!Lead(i, n)
           /\ f = IF a = "mycat" THEN 1 + Cardinality(NumberedTo(d[i], n))
                  ELSE IF \E k \in 1..n : Text!Hit(d[i][k]) THEN 1 ELSE 0
<1>1. Text!Cardinality(NumberedTo(d[i], n)) = Cardinality(NumberedTo(d[i], n))
  BY DEF Text!Cardinality, Cardinality
<1>2. QED
  BY <1>1 DEF Text!Reading, NumberedTo

(* The same after a step that leaves the sources as they are.              *)
LEMMA ReadingThen ==
  ASSUME UNCHANGED <<a, b, c, d>>, NEW n,
         Len(e') = Len(d[i']) - n, \A k \in 1..Len(e') : e'[k] = d[i'][n + k],
         h' = Text!Leads(i' - 1) \o Text!Lead(i', n),
         f' = IF a = "mycat" THEN 1 + Cardinality(NumberedTo(d[i'], n))
              ELSE IF \E k \in 1..n : Text!Hit(d[i'][k]) THEN 1 ELSE 0
  PROVE  Text!Reading(n)'
<1>1. a' = a /\ d' = d
  OBVIOUS
<1>2. NumberedTo(d[i], n)' = NumberedTo(d[i'], n)
  BY DEF NumberedTo, Text!Counts
<1>3. Text!Cardinality(NumberedTo(d[i'], n)) = Cardinality(NumberedTo(d[i'], n))
  BY DEF Text!Cardinality, Cardinality
<1>4. Text!Reading(n)' <=>
        /\ Len(e') = Len(d'[i']) - n /\ \A k \in 1..Len(e') : e'[k] = d'[i'][n + k]
        /\ h' = Text!Leads(i - 1)' \o Text!Lead(i, n)'
        /\ f' = IF a' = "mycat" THEN 1 + Text!Cardinality(NumberedTo(d[i], n)')
                ELSE IF \E k \in 1..n : Text!Hit(d'[i'][k]) THEN 1 ELSE 0
  BY DEF Text!Reading, NumberedTo, Text!Hit
<1>5. Text!Leads(i - 1)' = Text!Leads(i' - 1) /\ Text!Lead(i, n)' = Text!Lead(i', n)
  BY SameReference
<1>6. QED
  BY <1>1, <1>2, <1>3, <1>4, <1>5

(* How many lines the open source has, and what it begins with.            *)
LEMMA OpenSource ==
  ASSUME Text!IInv, pc = "read"
  PROVE  /\ i \in 1..Len(d) /\ d[i] # Text!Unreadable /\ d[i] \in Seq(Text!Lines)
         /\ Text!LinesOf(i) = d[i] /\ Len(d[i]) \in Nat
         /\ e \in Seq(Text!Lines) /\ h \in Seq(Text!Items) /\ f \in Nat
         /\ Text!Leads(i - 1) \in Seq(Text!Items)
         /\ Text!Leads(i) = Text!Leads(i - 1) \o Text!Expected(i)
         /\ \A n \in 0..Len(d[i]) :
              /\ Text!Lead(i, n) \in Seq(Text!Items)
              /\ n < Len(d[i]) => /\ Text!Lead(i, n + 1) = Text!Lead(i, n) \o Text!Contribution(i, n + 1)
                                  /\ Text!Contribution(i, n + 1) \in Seq(Text!Items)
<1>1. Text!TypeOK /\ i > 0 /\ d[i] # Text!Unreadable
  BY DEF Text!IInv
<1>2. e \in Seq(Text!Lines) /\ h \in Seq(Text!Items) /\ i \in 0..Len(d) /\ Len(d) \in Nat /\ f \in Nat
  BY <1>1 DEF Text!TypeOK
<1>3. i \in 1..Len(d)
  BY <1>1, <1>2
<1>4. d[i] \in Seq(Text!Lines) /\ Text!LinesOf(i) = d[i] /\ Len(d[i]) \in Nat
  <2>1. d[i] \in Seq(Text!Lines) /\ Text!LinesOf(i) = d[i]
    BY <1>1, <1>3, SourceLines
  <2>2. QED
    BY <2>1
<1>5. PICK m \in Nat : m = i - 1 /\ m + 1 = i /\ m < Len(d)
  BY <1>2, <1>3
<1>6. Text!Leads(m) \in Seq(Text!Items) /\ Text!Leads(m + 1) = Text!Leads(m) \o Text!Expected(m + 1)
  BY <1>1, <1>2, <1>5, LeadsGrow, SMTT(30)
<1>7. ASSUME NEW n \in 0..Len(d[i])
      PROVE  /\ Text!Lead(i, n) \in Seq(Text!Items)
             /\ n < Len(d[i]) => /\ Text!Lead(i, n + 1) = Text!Lead(i, n) \o Text!Contribution(i, n + 1)
                                 /\ Text!Contribution(i, n + 1) \in Seq(Text!Items)
  <2>1. n \in Nat /\ n <= Len(Text!LinesOf(i)) /\ Len(Text!LinesOf(i)) = Len(d[i])
    BY <1>4
  <2>2. /\ Text!Lead(i, n) \in Seq(Text!Items)
        /\ n < Len(Text!LinesOf(i)) => Text!Lead(i, n + 1) = Text!Lead(i, n) \o Text!Contribution(i, n + 1)
    BY <1>1, <1>3, <2>1, LeadGrows
  <2>3. n < Len(Text!LinesOf(i)) => n + 1 \in 1..Len(Text!LinesOf(i))
    BY <1>4, <2>1
  <2>4. n < Len(Text!LinesOf(i)) => Text!Contribution(i, n + 1) \in Seq(Text!Items)
    BY <1>1, <1>3, <2>3, ContributionTyped
  <2>5. QED
    BY <2>1, <2>2, <2>4
<1>8. QED
  BY <1>1, <1>2, <1>3, <1>4, <1>5, <1>6, <1>7

(* The next line is read, and what it contributes is printed.              *)
LEMMA LineKeeps ==
  ASSUME Text!IInv, pc = "read", pc' = pc, UNCHANGED <<a, b, c, d, g, i>>, e # <<>>, e' = Tail(e),
         f' \in Nat,
         NEW n \in 0..Len(d[i]), Text!Reading(n), n < Len(d[i]),
         h' = h \o Text!Contribution(i, n + 1),
         f' = IF a = "mycat" THEN 1 + Cardinality(NumberedTo(d[i], n + 1))
              ELSE IF \E k \in 1..n + 1 : Text!Hit(d[i][k]) THEN 1 ELSE 0
  PROVE  Text!IInv'
<1>1. /\ i \in 1..Len(d) /\ d[i] # Text!Unreadable /\ d[i] \in Seq(Text!Lines) /\ Len(d[i]) \in Nat
      /\ e \in Seq(Text!Lines) /\ h \in Seq(Text!Items)
      /\ Text!Leads(i - 1) \in Seq(Text!Items) /\ Text!Lead(i, n) \in Seq(Text!Items)
      /\ Text!Contribution(i, n + 1) \in Seq(Text!Items)
      /\ Text!Lead(i, n + 1) = Text!Lead(i, n) \o Text!Contribution(i, n + 1)
  BY OpenSource
<1>2. /\ Len(e) = Len(d[i]) - n /\ \A k \in 1..Len(e) : e[k] = d[i][n + k]
      /\ h = Text!Leads(i - 1) \o Text!Lead(i, n)
  BY ReadingMeans
<1>3. e' \in Seq(Text!Lines) /\ Len(e') = Len(e) - 1 /\ \A k \in 1..Len(e') : e'[k] = e[k + 1]
  BY <1>1
<1>4. h' \in Seq(Text!Items) /\ h' = Text!Leads(i - 1) \o Text!Lead(i, n + 1)
  <2>1. (Text!Leads(i - 1) \o Text!Lead(i, n)) \o Text!Contribution(i, n + 1) =
        Text!Leads(i - 1) \o (Text!Lead(i, n) \o Text!Contribution(i, n + 1))
    <3>1. ASSUME NEW r \in Seq(Text!Items), NEW s \in Seq(Text!Items), NEW t \in Seq(Text!Items)
          PROVE  (r \o s) \o t = r \o (s \o t)
      BY ONLY Associative, r \in Seq(Text!Items), s \in Seq(Text!Items), t \in Seq(Text!Items), SMTT(30)
    <3>2. /\ Text!Leads(i - 1) \in Seq(Text!Items) /\ Text!Lead(i, n) \in Seq(Text!Items)
          /\ Text!Contribution(i, n + 1) \in Seq(Text!Items)
      BY <1>1
    <3>3. QED
      BY ONLY <3>1, <3>2
  <2>2. h \o Text!Contribution(i, n + 1) \in Seq(Text!Items)
    BY <1>1, ConcatProperties
  <2>3. QED
    BY <1>1, <1>2, <2>1, <2>2
<1>5. n + 1 \in 0..Len(d[i]) /\ n \in Nat
  <2>1. Len(d[i]) \in Nat /\ n \in 0..Len(d[i]) /\ n < Len(d[i])
    BY <1>1
  <2>2. QED
    BY ONLY <2>1
<1>6. Text!Reading(n + 1)'
  <2>1. Len(e') = Len(d[i]) - (n + 1)
    <3>1. Len(d[i]) \in Nat /\ Len(e) = Len(d[i]) - n /\ Len(e') = Len(e) - 1
      BY <1>1, <1>2, <1>3
    <3>2. QED
      BY ONLY <3>1, <1>5
  <2>2. \A k \in 1..Len(e') : e'[k] = d[i][(n + 1) + k]
    <3>1. TAKE k \in 1..Len(e')
    <3>2. k + 1 \in 1..Len(e) /\ n + (k + 1) = (n + 1) + k
      <4>1. Len(e) \in Nat /\ Len(e') = Len(e) - 1 /\ k \in 1..Len(e')
        BY ONLY <1>1, <1>3, <3>1
      <4>2. QED
        BY ONLY <4>1, <1>5
    <3>3. QED
      BY <1>2, <1>3, <3>2
  <2>3. PICK m \in Nat : m = n + 1
    BY <1>5
  <2>4. Text!Reading(m)'
    BY <1>4, <2>1, <2>2, <2>3, ReadingThen
  <2>5. QED
    BY <2>3, <2>4
<1>7. Text!TypeOK'
  BY <1>3, <1>4 DEF Text!IInv, Text!TypeOK, Text!Ended
<1>8. (g = 0 <=> \A s \in 1..i - 1 : Text!Good(s)) /\ \A s : Text!Good(s)' = Text!Good(s)
  BY SameReference DEF Text!IInv
<1>9. (g' = 0 <=> \A s \in 1..i' - 1 : Text!Good(s)')
  BY <1>8
<1>10. QED
  BY <1>1, <1>5, <1>6, <1>7, <1>9 DEF Text!IInv, Text!PrintsAndReports

LEMMA OpenKeeps ==
  ASSUME Text!IInv, Text!Open
  PROVE  Text!IInv'
<1>1. /\ pc = "next" /\ i < Len(d) /\ i' = i + 1 /\ h' = h /\ UNCHANGED <<a, b, c, d>>
      /\ IF d[i + 1] = Text!Unreadable THEN g' = 1 /\ e' = e /\ f' = f /\ pc' = pc
         ELSE e' = d[i + 1] /\ f' = (IF a = "mycat" THEN 1 ELSE 0) /\ pc' = "read" /\ g' = g
  BY DEF Text!Open, Text!input
<1>2. /\ Text!TypeOK /\ h = Text!Leads(i)
      /\ g = 0 <=> \A s \in 1..i : Text!Good(s)
  BY <1>1 DEF Text!IInv
<1>3. PICK m \in Nat : m = i /\ m < Len(d) /\ m + 1 \in 1..Len(d)
  <2>1. i \in Nat /\ Len(d) \in Nat
    BY <1>2 DEF Text!TypeOK
  <2>2. QED
    BY <1>1, <2>1
<1>4. /\ h = Text!Leads(m) /\ h \in Seq(Text!Items) /\ i' = m + 1 /\ d[i + 1] = d[m + 1]
      /\ Text!Leads(m + 1) = Text!Leads(m) \o Text!Expected(m + 1)
  <2>1. m <= Len(d)
    BY <1>3
  <2>2. /\ Text!Leads(m) \in Seq(Text!Items)
        /\ Text!Leads(m + 1) = Text!Leads(m) \o Text!Expected(m + 1)
    BY <1>2, <1>3, <2>1, LeadsGrow
  <2>3. QED
    BY <1>1, <1>2, <1>3, <2>2
<1>5. h \o <<>> = h
  BY <1>4, ConcatEmptySeq
<1>6. Text!Lead(m + 1, 0) = <<>>
  <2>1. Text!LinesOf(m + 1) \in Seq(Text!Lines)
    BY <1>2, <1>3, SourceLines
  <2>2. 0 \in Nat /\ 0 <= Len(Text!LinesOf(m + 1))
    BY <2>1
  <2>3. QED
    BY <1>2, <1>3, <2>2, LeadGrows
<1>7. \A s : Text!Good(s)' = Text!Good(s)
  BY <1>1, SameReference
<1>8. \A s : s \in 1..m + 1 <=> s \in 1..m \/ s = m + 1
  BY <1>3
<1>9. CASE d[m + 1] = Text!Unreadable
  <2>1. Text!LinesOf(m + 1) = <<>>
    BY <1>9 DEF Text!LinesOf
  <2>2. Text!Expected(m + 1) = <<>>
    BY <1>6, <2>1 DEF Text!Expected
  <2>3. h' = Text!Leads(i')
    BY <1>1, <1>4, <1>5, <2>2
  <2>4. ~Text!Good(m + 1) /\ g' = 1 /\ pc' = "next" /\ e' = e /\ f' = f
    BY <1>1, <1>3, <1>9 DEF Text!Good
  <2>5. g' = 0 <=> \A s \in 1..i' : Text!Good(s)'
    BY <1>4, <1>7, <1>8, <2>4
  <2>6. h' = Text!Leads(i)'
    BY <1>1, <2>3, SameReference
  <2>7. Text!TypeOK'
    BY <1>1, <1>2, <1>3, <2>4 DEF Text!TypeOK, Text!Ended
  <2>8. QED
    BY <2>4, <2>5, <2>6, <2>7 DEF Text!IInv, Text!PrintsAndReports
<1>10. CASE d[m + 1] # Text!Unreadable
  <2>1. d[m + 1] \in Seq(Text!Lines) /\ Len(d[m + 1]) \in Nat
    <3>1. d[m + 1] \in Seq(Text!Lines)
      BY <1>2, <1>3, <1>10, SourceLines
    <3>2. QED
      BY <3>1
  <2>2. /\ e' = d[m + 1] /\ f' = (IF a = "mycat" THEN 1 ELSE 0) /\ pc' = "read" /\ g' = g
    BY <1>1, <1>4, <1>10
  <2>3. i' - 1 = m
    BY <1>4
  <2>4. h' = Text!Leads(i' - 1) \o Text!Lead(i', 0)
    BY <1>1, <1>4, <1>5, <1>6, <2>3
  <2>5. Text!Reading(0)'
    <3>1. Cardinality(NumberedTo(d[i'], 0)) = 0 /\ ~\E k \in 1..0 : Text!Hit(d[i'][k])
      BY NumberedLines, 0 \in Nat
    <3>2. Len(e') = Len(d[i']) - 0 /\ \A k \in 1..Len(e') : e'[k] = d[i'][0 + k]
      BY <1>4, <2>1, <2>2
    <3>3. f' = IF a = "mycat" THEN 1 + Cardinality(NumberedTo(d[i'], 0))
               ELSE IF \E k \in 1..0 : Text!Hit(d[i'][k]) THEN 1 ELSE 0
      BY <2>2, <3>1
    <3>4. QED
      BY <1>1, <2>4, <3>2, <3>3, ReadingThen
  <2>6. g' = 0 <=> \A s \in 1..i' - 1 : Text!Good(s)'
    BY <1>2, <1>3, <1>7, <2>2, <2>3
  <2>7. Text!TypeOK'
    BY <1>1, <1>2, <1>3, <2>1, <2>2 DEF Text!TypeOK
  <2>8. i' > 0 /\ d'[i'] # Text!Unreadable /\ 0 \in 0..Len(d'[i'])
    BY <1>1, <1>4, <1>10, <2>1
  <2>9. QED
    BY <2>2, <2>5, <2>6, <2>7, <2>8 DEF Text!IInv, Text!PrintsAndReports
<1>11. QED
  BY <1>9, <1>10

LEMMA CloseKeeps ==
  ASSUME Text!IInv, Text!Close
  PROVE  Text!IInv'
<1>1. /\ pc = "read" /\ e = <<>> /\ pc' = "next" /\ UNCHANGED <<a, b, c, d, e, f, h, i>>
      /\ g' = IF a = "mygrep" /\ ~c /\ f = 0 THEN 1 ELSE g
  BY DEF Text!Close, Text!input
<1>2. /\ i \in 1..Len(d) /\ d[i] # Text!Unreadable /\ d[i] \in Seq(Text!Lines)
      /\ Text!LinesOf(i) = d[i] /\ Len(d[i]) \in Nat
      /\ Text!Leads(i) = Text!Leads(i - 1) \o Text!Expected(i)
  BY <1>1, OpenSource
<1>3. /\ Text!TypeOK /\ (g = 0 <=> \A s \in 1..i - 1 : Text!Good(s))
      /\ \E n \in 0..Len(d[i]) : Text!Reading(n)
  BY <1>1 DEF Text!IInv
<1>4. PICK n \in 0..Len(d[i]) : Text!Reading(n)
  BY <1>3
<1>5. /\ Len(e) = Len(d[i]) - n /\ h = Text!Leads(i - 1) \o Text!Lead(i, n)
      /\ f = IF a = "mycat" THEN 1 + Cardinality(NumberedTo(d[i], n))
             ELSE IF \E k \in 1..n : Text!Hit(d[i][k]) THEN 1 ELSE 0
  BY <1>4, ReadingMeans
<1>6. n = Len(d[i])
  BY <1>1, <1>2, <1>5
<1>7. h = Text!Leads(i)
  BY <1>2, <1>5, <1>6 DEF Text!Expected
<1>8. a = "mygrep" => (f = 0 <=> ~\E k \in DOMAIN d[i] : Text!Hit(d[i][k]))
  BY <1>2, <1>5, <1>6
<1>9. g' = 0 <=> g = 0 /\ Text!Good(i)
  BY <1>1, <1>2, <1>8 DEF Text!Good
<1>10. \A s : s \in 1..i <=> s \in 1..i - 1 \/ s = i
  BY <1>2
<1>11. \A s : Text!Good(s)' = Text!Good(s)
  BY <1>1, SameReference
<1>12. g' = 0 <=> \A s \in 1..i' : Text!Good(s)'
  BY <1>1, <1>3, <1>9, <1>10, <1>11
<1>13. h' = Text!Leads(i)'
  BY <1>1, <1>7, SameReference
<1>14. Text!TypeOK'
  BY <1>1, <1>3 DEF Text!TypeOK
<1>15. QED
  BY <1>1, <1>12, <1>13, <1>14 DEF Text!IInv, Text!PrintsAndReports

(* A line that is still to be read: where it is in its source.             *)
LEMMA NextLine ==
  ASSUME Text!IInv, pc = "read", e # <<>>
  PROVE  \E n \in 0..Len(d[i]) :
           Text!Reading(n) /\ n < Len(d[i]) /\ Head(e) = d[i][n + 1] /\ n \in Nat
<1>1. e \in Seq(Text!Lines) /\ Len(d[i]) \in Nat
  BY OpenSource
<1>2. PICK n \in 0..Len(d[i]) : Text!Reading(n)
  BY DEF Text!IInv
<1>3. Len(e) = Len(d[i]) - n /\ \A k \in 1..Len(e) : e[k] = d[i][n + k]
  BY <1>2, ReadingMeans
<1>4. Len(e) \in Nat /\ Len(e) > 0 /\ Head(e) = e[1]
  BY <1>1
<1>5. QED
  BY <1>1, <1>2, <1>3, <1>4

(* Appending an item is appending the sequence of that one item.           *)
LEMMA AppendOne ==
  ASSUME NEW S, NEW r \in Seq(S), NEW x, <<x>> \in Seq(S)
  PROVE  Append(r, x) = r \o <<x>>
<1>1. x \in S
  <2>1. <<x>>[1] \in S
    BY ElementOfSeq
  <2>2. QED
    BY <2>1
<1>2. QED
  BY <1>1

LEMMA DisplayKeepsLines ==
  ASSUME Text!IInv, Text!DisplayTextLine
  PROVE  Text!IInv'
<1>1. /\ pc = "read" /\ e # <<>> /\ a = "mycat" /\ pc' = pc /\ UNCHANGED <<a, b, c, d, g, i>>
      /\ h' = Append(h, Text!Item(IF Text!Numbered(Head(e)) THEN f ELSE 0, 0, Head(e),
                          IF "E" \in b THEN "dollar_newline" ELSE Text!NewlineOf(Head(e))))
      /\ f' = (IF Text!Numbered(Head(e)) THEN f + 1 ELSE f) /\ e' = Tail(e)
  BY DEF Text!DisplayTextLine, Text!input
<1>2. PICK n \in 0..Len(d[i]) :
        Text!Reading(n) /\ n < Len(d[i]) /\ Head(e) = d[i][n + 1] /\ n \in Nat
  BY <1>1, NextLine
<1>3. f = 1 + Cardinality(NumberedTo(d[i], n))
  BY <1>1, <1>2, ReadingMeans
<1>4. h \in Seq(Text!Items) /\ f \in Nat /\ Text!LinesOf(i) = d[i]
  BY <1>1, OpenSource
<1>5. Text!Numbered(Head(e)) <=> Text!Counts(d[i][n + 1])
  BY <1>2 DEF Text!Numbered, Text!Counts
<1>6. /\ Cardinality(NumberedTo(d[i], n)) \in Nat
      /\ Cardinality(NumberedTo(d[i], n + 1)) =
           IF Text!Counts(d[i][n + 1]) THEN Cardinality(NumberedTo(d[i], n)) + 1
           ELSE Cardinality(NumberedTo(d[i], n))
  BY <1>2, NumberedLines
<1>7. f' \in Nat /\ f' = 1 + Cardinality(NumberedTo(d[i], n + 1))
  BY <1>1, <1>3, <1>4, <1>5, <1>6
<1>8. Text!NumberOf(d[i], n + 1) = IF Text!Numbered(Head(e)) THEN f ELSE 0
  <2>1. PICK m \in Nat : m = n + 1
    BY <1>2
  <2>2. Text!NumberOf(d[i], m) = IF Text!Counts(d[i][m]) THEN Cardinality(NumberedTo(d[i], m)) ELSE 0
    BY NumberOfLine
  <2>3. Text!Counts(d[i][m]) => Cardinality(NumberedTo(d[i], m)) = f
    BY <2>1, <1>3, <1>6
  <2>4. QED
    BY <2>1, <2>2, <2>3, <1>5
<1>9. Text!Contribution(i, n + 1) =
        <<Text!Item(IF Text!Numbered(Head(e)) THEN f ELSE 0, 0, Head(e),
                    IF "E" \in b THEN "dollar_newline" ELSE Text!NewlineOf(Head(e)))>>
  BY <1>1, <1>2, <1>4, <1>8 DEF Text!Contribution
<1>10. h' = h \o Text!Contribution(i, n + 1)
  <2>1. Text!Contribution(i, n + 1) \in Seq(Text!Items)
    BY <1>1, <1>2, OpenSource
  <2>2. PICK item : /\ h' = Append(h, item) /\ Text!Contribution(i, n + 1) = <<item>>
    BY <1>1, <1>9
  <2>3. <<item>> \in Seq(Text!Items)
    BY <2>1, <2>2
  <2>4. Append(h, item) = h \o <<item>>
    BY <1>4, <2>3, AppendOne
  <2>5. QED
    BY <2>2, <2>4
<1>11. QED
  BY <1>1, <1>2, <1>7, <1>10, LineKeeps

LEMMA SearchKeeps ==
  ASSUME Text!IInv, Text!SearchLine
  PROVE  Text!IInv'
<1>1. /\ pc = "read" /\ e # <<>> /\ a = "mygrep" /\ pc' = pc /\ UNCHANGED <<a, b, c, d, g, i>>
      /\ IF Head(e).text = "hit"
         THEN /\ h' = Append(h, Text!Item(0, IF Len(d) > 1 THEN i ELSE 0, Head(e),
                                          Text!NewlineOf(Head(e))))
              /\ f' = 1
         ELSE h' = h /\ f' = f
      /\ e' = Tail(e)
  BY DEF Text!SearchLine, Text!input
<1>2. PICK n \in 0..Len(d[i]) :
        Text!Reading(n) /\ n < Len(d[i]) /\ Head(e) = d[i][n + 1] /\ n \in Nat
  BY <1>1, NextLine
<1>3. f = IF \E k \in 1..n : Text!Hit(d[i][k]) THEN 1 ELSE 0
  BY <1>1, <1>2, ReadingMeans
<1>4. h \in Seq(Text!Items) /\ f \in Nat /\ Text!LinesOf(i) = d[i]
  BY <1>1, OpenSource
<1>5. \A k : k \in 1..n + 1 <=> k \in 1..n \/ k = n + 1
  BY <1>2
<1>6. CASE Text!Hit(d[i][n + 1])
  <2>1. Head(e).text = "hit"
    BY <1>2, <1>6 DEF Text!Hit
  <2>2. Text!Contribution(i, n + 1) =
          <<Text!Item(0, IF Len(d) > 1 THEN i ELSE 0, Head(e), Text!NewlineOf(Head(e)))>>
    BY <1>1, <1>2, <1>4, <1>6 DEF Text!Contribution
  <2>3. h' = h \o Text!Contribution(i, n + 1)
    <3>1. Text!Contribution(i, n + 1) \in Seq(Text!Items)
      BY <1>1, <1>2, OpenSource
    <3>2. PICK item : /\ h' = Append(h, item) /\ Text!Contribution(i, n + 1) = <<item>>
      BY <1>1, <2>1, <2>2
    <3>3. <<item>> \in Seq(Text!Items)
      BY <3>1, <3>2
    <3>4. Append(h, item) = h \o <<item>>
      BY <1>4, <3>3, AppendOne
    <3>5. QED
      BY <3>2, <3>4
  <2>4. f' = IF \E k \in 1..n + 1 : Text!Hit(d[i][k]) THEN 1 ELSE 0
    BY <1>1, <1>5, <1>6, <2>1
  <2>5. QED
    BY <1>1, <1>2, <2>3, <2>4, LineKeeps
<1>7. CASE ~Text!Hit(d[i][n + 1])
  <2>1. Head(e).text # "hit"
    BY <1>2, <1>7 DEF Text!Hit
  <2>2. Text!Contribution(i, n + 1) = <<>>
    BY <1>1, <1>4, <1>7 DEF Text!Contribution
  <2>3. h' = h \o Text!Contribution(i, n + 1)
    BY <1>1, <1>4, <2>1, <2>2, ConcatEmptySeq
  <2>4. f' = IF \E k \in 1..n + 1 : Text!Hit(d[i][k]) THEN 1 ELSE 0
    BY <1>1, <1>3, <1>5, <1>7, <2>1
  <2>5. QED
    BY <1>1, <1>2, <2>3, <2>4, LineKeeps
<1>8. QED
  BY <1>6, <1>7

LEMMA BeginKeeps ==
  ASSUME Text!IInv, Text!Usage \/ Text!BadPattern \/ Text!Start
  PROVE  Text!IInv'
<1>1. /\ pc = "main" /\ UNCHANGED <<a, b, c, d, e, f, h, i>> /\ g' \in {0, 1}
      /\ pc' \in {"usage", "bad_pattern"} \/ (pc' = "next" /\ g' = g)
  <2>1. g \in {0, 1}
    BY DEF Text!IInv, Text!TypeOK
  <2>2. CASE Text!Usage
    BY <2>2 DEF Text!Usage, Text!input
  <2>3. CASE Text!BadPattern
    BY <2>3 DEF Text!BadPattern, Text!input
  <2>4. CASE Text!Start
    BY <2>1, <2>4 DEF Text!Start, Text!input
  <2>5. QED
    BY <2>2, <2>3, <2>4
<1>2. Text!TypeOK /\ i = 0 /\ g = 0 /\ h = <<>>
  BY <1>1 DEF Text!IInv
<1>3. Text!TypeOK'
  BY <1>1, <1>2 DEF Text!TypeOK, Text!Ended
<1>4. Text!Leads(0) = <<>>
  <2>1. 0 \in Nat /\ 0 <= Len(d)
    BY <1>2 DEF Text!TypeOK
  <2>2. QED
    BY <1>2, <2>1, LeadsGrow
<1>5. h' = Text!Leads(i)'
  BY <1>1, <1>2, <1>4, SameReference
<1>6. \A s \in 1..i' : Text!Good(s)'
  BY <1>1, <1>2
<1>7. QED
  BY <1>1, <1>2, <1>3, <1>5, <1>6 DEF Text!IInv, Text!PrintsAndReports

LEMMA ExitKeeps ==
  ASSUME Text!IInv, Text!Exit
  PROVE  Text!IInv'
<1>1. pc = "next" /\ i = Len(d) /\ pc' = "exited" /\ UNCHANGED <<a, b, c, d, e, f, g, h, i>>
  BY DEF Text!Exit, Text!input
<1>2. /\ Text!TypeOK /\ h = Text!Leads(i) /\ (g = 0 <=> \A s \in 1..i : Text!Good(s))
  BY <1>1 DEF Text!IInv
<1>3. DOMAIN d = 1..i
  BY <1>1, <1>2 DEF Text!TypeOK
<1>4. h' = Text!Leads(Len(d))' /\ \A s : Text!Good(s)' = Text!Good(s)
  BY <1>1, <1>2, SameReference
<1>5. (g' = 0 <=> \A s \in DOMAIN d' : Text!Good(s)')
  BY <1>1, <1>2, <1>3, <1>4
<1>6. Text!TypeOK'
  BY <1>1, <1>2 DEF Text!TypeOK, Text!Ended
<1>7. QED
  BY <1>1, <1>4, <1>5, <1>6 DEF Text!IInv, Text!PrintsAndReports

LEMMA TextNextKeeps ==
  ASSUME Text!IInv, [Text!Next]_(Text!vars)
  PROVE  Text!IInv'
<1>1. CASE UNCHANGED Text!vars
  <2>1. UNCHANGED <<a, b, c, d>> /\ e' = e /\ f' = f /\ g' = g /\ h' = h /\ i' = i /\ pc' = pc
    BY <1>1 DEF Text!vars, Text!input
  <2>2. Text!TypeOK'
    BY <2>1 DEF Text!IInv, Text!TypeOK, Text!Ended
  <2>3. /\ \A s : Text!Good(s)' = Text!Good(s)
        /\ Text!Leads(i)' = Text!Leads(i) /\ Text!Leads(Len(d))' = Text!Leads(Len(d))
    BY <2>1, SameReference
  <2>4. ASSUME NEW n, Text!Reading(n) PROVE Text!Reading(n)'
    <3>1. /\ Len(e) = Len(d[i]) - n /\ \A k \in 1..Len(e) : e[k] = d[i][n + k]
          /\ h = Text!Leads(i - 1) \o Text!Lead(i, n)
          /\ f = IF a = "mycat" THEN 1 + Cardinality(NumberedTo(d[i], n))
                 ELSE IF \E k \in 1..n : Text!Hit(d[i][k]) THEN 1 ELSE 0
      BY <2>4, ReadingMeans
    <3>2. QED
      BY <2>1, <3>1, ReadingThen
  <2>5. QED
    BY <2>1, <2>2, <2>3, <2>4 DEF Text!IInv, Text!PrintsAndReports
<1>2. QED
  BY <1>1, BeginKeeps, OpenKeeps, DisplayKeepsLines, SearchKeeps, CloseKeeps, ExitKeeps DEF Text!Next

LEMMA TextInit == ASSUME Text!Init PROVE Text!IInv
<1>1. /\ a \in {"mycat", "mygrep"} /\ c \in BOOLEAN /\ e = <<>> /\ f = 0 /\ g = 0 /\ h = <<>> /\ i = 0
      /\ pc = "main"
      /\ d \in IF c THEN {<<t>> : t \in Contents}
               ELSE Text!BoundedSeq(Contents \cup {Text!Unreadable}, MaxFiles) \ {<<>>}
  BY DEF Text!Init
<1>2. d \in Seq(Contents \cup {Text!Unreadable})
  <2>1. CASE c
    <3>1. PICK t \in Contents : d = <<t>>
      BY <1>1, <2>1
    <3>2. t \in Contents \cup {Text!Unreadable}
      OBVIOUS
    <3>3. QED
      BY <3>1, <3>2
  <2>2. CASE ~c
    <3>1. PICK n \in 0..MaxFiles : d \in [1..n -> Contents \cup {Text!Unreadable}]
      BY <1>1, <2>2 DEF Text!BoundedSeq, Text!SeqOf
    <3>2. n \in Nat
      BY ToolsAssumption
    <3>3. QED
      BY <3>1, <3>2
  <2>3. QED
    BY <1>1, <2>1, <2>2
<1>3. Text!TypeOK
  BY <1>1, <1>2 DEF Text!TypeOK
<1>4. QED
  BY <1>1, <1>3 DEF Text!IInv, Text!PrintsAndReports

LEMMA TextInvariance == Spec => [](program = "mycat_or_mygrep" => Text!IInv)
<1>1. Init => (program = "mycat_or_mygrep" => Text!IInv)
  BY TextInit DEF Init
<1>2. (program = "mycat_or_mygrep" => Text!IInv) /\ [Next]_vars
      => (program = "mycat_or_mygrep" => Text!IInv)'
  BY TextNextKeeps, OneProgram
<1>3. QED
  BY <1>1, <1>2, PTL DEF Spec

(* mycat prints every line of every source that can be read, numbered as   *)
(* asked; mygrep every line that matches; and the exit status says whether *)
(* all went well (main.c:21-55, 118-137, 182-192).                         *)
THEOREM EveryLineIsPrinted == Spec => []PrintsAndReports
<1>1. Text!IInv => Text!PrintsAndReports
  BY DEF Text!IInv
<1>2. QED
  BY <1>1, TextInvariance, PTL DEF PrintsAndReports

-----------------------------------------------------------------------------
(* Lab 4.  a is the mode of the file, b the string of each run, c the mode *)
(* a run has read and d the set of the runs overtaken.  First what the     *)
(* mode strings mean, which the program says with loops and masks; then    *)
(* what runs one after the other make of the mode; then the steps.         *)

(* What the strings are made of.                                           *)
Characters == STRING

(* The digits, classes and rights and their places.                        *)
LEMMA Digits ==
  /\ \A x : Chmod!Contains(Chmod!Octal, x) <=> x \in {"0", "1", "2", "3", "4", "5", "6", "7"}
  /\ \A x : Chmod!Contains(Chmod!Octal, x) => Chmod!At(Chmod!Octal, x) \in 0..7
<1>1. \A x : Chmod!Contains(Chmod!Octal, x) <=> x \in {"0", "1", "2", "3", "4", "5", "6", "7"}
  BY DEF Chmod!Contains, Chmod!Octal
<1>2. ASSUME NEW x, Chmod!Contains(Chmod!Octal, x) PROVE Chmod!At(Chmod!Octal, x) \in 0..7
  <2>1. \E k \in 1..8 : Chmod!Octal[k] = x
    BY <1>2 DEF Chmod!Contains, Chmod!Octal
  <2>2. Len(Chmod!Octal) = 8
    BY DEF Chmod!Octal
  <2>3. QED
    BY <2>1, <2>2 DEF Chmod!At
<1>3. QED
  BY <1>1, <1>2

LEMMA Places ==
  /\ Chmod!At(Chmod!Who, "o") = 0 /\ Chmod!At(Chmod!Who, "g") = 1 /\ Chmod!At(Chmod!Who, "u") = 2
  /\ Chmod!At(Chmod!Rights, "x") = 0 /\ Chmod!At(Chmod!Rights, "w") = 1
  /\ Chmod!At(Chmod!Rights, "r") = 2
  /\ \A x : Chmod!Contains(Chmod!Who, x) <=> x \in {"o", "g", "u"}
  /\ \A x : Chmod!Contains(Chmod!Rights, x) <=> x \in {"x", "w", "r"}
<1>1. Len(Chmod!Who) = 3 /\ Chmod!Who[1] = "o" /\ Chmod!Who[2] = "g" /\ Chmod!Who[3] = "u"
  BY DEF Chmod!Who
<1>2. Len(Chmod!Rights) = 3 /\ Chmod!Rights[1] = "x" /\ Chmod!Rights[2] = "w"
      /\ Chmod!Rights[3] = "r"
  BY DEF Chmod!Rights
<1>3. \A k \in 1..3 : k = 1 \/ k = 2 \/ k = 3
  OBVIOUS
<1>4. ASSUME NEW s, Len(s) = 3, s[1] # s[2], s[1] # s[3], s[2] # s[3]
      PROVE  Chmod!At(s, s[1]) = 0 /\ Chmod!At(s, s[2]) = 1 /\ Chmod!At(s, s[3]) = 2
  <2>1. ASSUME NEW k \in 1..3 PROVE Chmod!At(s, s[k]) = k - 1
    <3>1. \A m \in 1..3 : s[m] = s[k] => m = k
      BY <1>3, <1>4
    <3>2. (CHOOSE m \in 1..Len(s) : s[m] = s[k]) = k
      BY <3>1, <1>4
    <3>3. QED
      BY <3>2 DEF Chmod!At
  <2>2. QED
    BY <2>1
<1>5. QED
  <2>1. /\ Chmod!At(Chmod!Who, "o") = 0 /\ Chmod!At(Chmod!Who, "g") = 1
        /\ Chmod!At(Chmod!Who, "u") = 2
    BY <1>1, <1>4
  <2>2. /\ Chmod!At(Chmod!Rights, "x") = 0 /\ Chmod!At(Chmod!Rights, "w") = 1
        /\ Chmod!At(Chmod!Rights, "r") = 2
    BY <1>2, <1>4
  <2>3. /\ \A x : Chmod!Contains(Chmod!Who, x) <=> x \in {"o", "g", "u"}
        /\ \A x : Chmod!Contains(Chmod!Rights, x) <=> x \in {"x", "w", "r"}
    BY <1>1, <1>2, <1>3 DEF Chmod!Contains
  <2>4. QED
    BY <2>1, <2>2, <2>3

(* The bits of a digit and of a number of four of them.                    *)
LEMMA BitValues ==
  ASSUME NEW n \in Nat
  PROVE  /\ Chmod!HasBit(n, 0) <=> n % 2 = 1
         /\ Chmod!HasBit(n, 1) <=> (n \div 2) % 2 = 1
         /\ Chmod!HasBit(n, 2) <=> (n \div 4) % 2 = 1
         /\ Chmod!HasBit(n, 3) <=> (n \div 8) % 2 = 1
         /\ Chmod!HasBit(n, 4) <=> (n \div 16) % 2 = 1
         /\ Chmod!HasBit(n, 5) <=> (n \div 32) % 2 = 1
         /\ Chmod!HasBit(n, 6) <=> (n \div 64) % 2 = 1
         /\ Chmod!HasBit(n, 7) <=> (n \div 128) % 2 = 1
         /\ Chmod!HasBit(n, 8) <=> (n \div 256) % 2 = 1
         /\ Chmod!HasBit(n, 9) <=> (n \div 512) % 2 = 1
         /\ Chmod!HasBit(n, 10) <=> (n \div 1024) % 2 = 1
         /\ Chmod!HasBit(n, 11) <=> (n \div 2048) % 2 = 1
BY DEF Chmod!HasBit, Chmod!Values

LEMMA ZeroHasNoBits ==
  \A n \in 0..7 : n = 0 <=> \A k \in 0..2 : ~Chmod!HasBit(n, k)
<1>1. TAKE n \in 0..7
<1>2. n = 0 \/ n = 1 \/ n = 2 \/ n = 3 \/ n = 4 \/ n = 5 \/ n = 6 \/ n = 7
  OBVIOUS
<1>3. 0 \in 0..2 /\ 1 \in 0..2 /\ 2 \in 0..2 /\ \A k \in 0..2 : k = 0 \/ k = 1 \/ k = 2
  OBVIOUS
<1>4. (\A k \in 0..2 : ~Chmod!HasBit(n, k)) <=>
      ~Chmod!HasBit(n, 0) /\ ~Chmod!HasBit(n, 1) /\ ~Chmod!HasBit(n, 2)
  BY <1>3
<1>5. /\ Chmod!HasBit(n, 0) <=> n % 2 = 1
      /\ Chmod!HasBit(n, 1) <=> (n \div 2) % 2 = 1
      /\ Chmod!HasBit(n, 2) <=> (n \div 4) % 2 = 1
  BY n \in Nat, BitValues
<1>6. n = 0 <=> ~(n % 2 = 1) /\ ~((n \div 2) % 2 = 1) /\ ~((n \div 4) % 2 = 1)
  BY <1>2
<1>7. QED
  BY <1>4, <1>5, <1>6

LEMMA LastDigit ==
  ASSUME NEW e0 \in 0..7, NEW q \in Nat, NEW n \in Nat, n = 8 * q + e0
  PROVE  \A k \in 0..2 : Chmod!HasBit(n, k) <=> Chmod!HasBit(e0, k)
<1>1. e0 = 0 \/ e0 = 1 \/ e0 = 2 \/ e0 = 3 \/ e0 = 4 \/ e0 = 5 \/ e0 = 6 \/ e0 = 7
  OBVIOUS
<1>2. n % 2 = e0 % 2
  BY <1>1
<1>3. (n \div 2) % 2 = (e0 \div 2) % 2
  <2>1. n \div 2 = 4 * q + e0 \div 2
    BY <1>1
  <2>2. QED
    BY <2>1, <1>1
<1>4. (n \div 4) % 2 = (e0 \div 4) % 2
  <2>1. n \div 4 = 2 * q + e0 \div 4
    BY <1>1
  <2>2. QED
    BY <2>1, <1>1
<1>5. Chmod!HasBit(n, 0) <=> Chmod!HasBit(e0, 0)
  BY <1>2 DEF Chmod!HasBit, Chmod!Values
<1>6. Chmod!HasBit(n, 1) <=> Chmod!HasBit(e0, 1)
  BY <1>3 DEF Chmod!HasBit, Chmod!Values
<1>7. Chmod!HasBit(n, 2) <=> Chmod!HasBit(e0, 2)
  BY <1>4 DEF Chmod!HasBit, Chmod!Values
<1>8. \A k \in 0..2 : k = 0 \/ k = 1 \/ k = 2
  OBVIOUS
<1>9. QED
  BY <1>5, <1>6, <1>7, <1>8

LEMMA HigherBits ==
  \A n \in Nat : \A k \in 0..2 :
    /\ Chmod!HasBit(n, 3 + k) <=> Chmod!HasBit(n \div 8, k)
    /\ Chmod!HasBit(n, 6 + k) <=> Chmod!HasBit(n \div 64, k)
    /\ Chmod!HasBit(n, 9 + k) <=> Chmod!HasBit(n \div 512, k)
<1>1. TAKE n \in Nat
<1>2. TAKE k \in 0..2
<1>3. k = 0 \/ k = 1 \/ k = 2
  OBVIOUS
<1>4. n \div 16 = (n \div 8) \div 2 /\ n \div 32 = (n \div 8) \div 4
  OBVIOUS
<1>5. n \div 128 = (n \div 64) \div 2 /\ n \div 256 = (n \div 64) \div 4
  OBVIOUS
<1>6. n \div 1024 = (n \div 512) \div 2 /\ n \div 2048 = (n \div 512) \div 4
  OBVIOUS
<1>7. n \div 8 \in Nat /\ n \div 64 \in Nat /\ n \div 512 \in Nat
  OBVIOUS
<1>8. Chmod!HasBit(n, 3 + k) <=> Chmod!HasBit(n \div 8, k)
  BY <1>3, <1>4, <1>7, BitValues
<1>9. Chmod!HasBit(n, 6 + k) <=> Chmod!HasBit(n \div 64, k)
  BY <1>3, <1>5, <1>7, BitValues
<1>10. Chmod!HasBit(n, 9 + k) <=> Chmod!HasBit(n \div 512, k)
  BY <1>3, <1>6, <1>7, BitValues
<1>11. QED
  BY <1>8, <1>9, <1>10

Parts(n, q, e3, e2, e1, e0) == n = 4096 * q + 512 * e3 + 64 * e2 + 8 * e1 + e0
SameBits(n, e3, e2, e1, e0) ==
  \A k \in 0..2 :
    /\ Chmod!HasBit(n, k) <=> Chmod!HasBit(e0, k)
    /\ Chmod!HasBit(n, 3 + k) <=> Chmod!HasBit(e1, k)
    /\ Chmod!HasBit(n, 6 + k) <=> Chmod!HasBit(e2, k)
    /\ Chmod!HasBit(n, 9 + k) <=> Chmod!HasBit(e3, k)

LEMMA FourDigits ==
  ASSUME NEW e0 \in 0..7, NEW e1 \in 0..7, NEW e2 \in 0..7, NEW e3 \in 0..7, NEW n \in Nat,
         NEW q \in Nat, q = 0, Parts(n, q, e3, e2, e1, e0)
  PROVE  SameBits(n, e3, e2, e1, e0)
<1>1. n = 512 * e3 + 64 * e2 + 8 * e1 + e0
  BY DEF Parts
<1>2. SUFFICES ASSUME NEW k \in 0..2
      PROVE /\ Chmod!HasBit(n, k) <=> Chmod!HasBit(e0, k)
            /\ Chmod!HasBit(n, 3 + k) <=> Chmod!HasBit(e1, k)
            /\ Chmod!HasBit(n, 6 + k) <=> Chmod!HasBit(e2, k)
            /\ Chmod!HasBit(n, 9 + k) <=> Chmod!HasBit(e3, k)
  BY DEF SameBits
<1>3. Chmod!HasBit(n, k) <=> Chmod!HasBit(e0, k)
  <2>1. PICK l \in Nat : n = 8 * l + e0
    BY <1>1, 64 * e3 + 8 * e2 + e1 \in Nat
  <2>2. QED
    BY <2>1, LastDigit
<1>4. Chmod!HasBit(n \div 8, k) <=> Chmod!HasBit(e1, k)
  <2>1. PICK m \in Nat, l \in Nat : m = n \div 8 /\ m = 8 * l + e1
    <3>1. n \div 8 \in Nat /\ 8 * e3 + e2 \in Nat /\ n \div 8 = 8 * (8 * e3 + e2) + e1
      BY <1>1
    <3>2. QED
      BY <3>1
  <2>2. Chmod!HasBit(m, k) <=> Chmod!HasBit(e1, k)
    BY <2>1, LastDigit
  <2>3. QED
    BY <2>1, <2>2
<1>5. Chmod!HasBit(n \div 64, k) <=> Chmod!HasBit(e2, k)
  <2>1. PICK m \in Nat, l \in Nat : m = n \div 64 /\ m = 8 * l + e2
    <3>1. n \div 64 \in Nat /\ n \div 64 = 8 * e3 + e2
      BY <1>1
    <3>2. QED
      BY <3>1, e3 \in Nat
  <2>2. Chmod!HasBit(m, k) <=> Chmod!HasBit(e2, k)
    BY <2>1, LastDigit
  <2>3. QED
    BY <2>1, <2>2
<1>6. Chmod!HasBit(n \div 512, k) <=> Chmod!HasBit(e3, k)
  BY <1>1, n \div 512 = e3
<1>7. /\ Chmod!HasBit(n, 3 + k) <=> Chmod!HasBit(n \div 8, k)
      /\ Chmod!HasBit(n, 6 + k) <=> Chmod!HasBit(n \div 64, k)
      /\ Chmod!HasBit(n, 9 + k) <=> Chmod!HasBit(n \div 512, k)
  BY HigherBits
<1>8. QED
  BY <1>3, <1>4, <1>5, <1>6, <1>7

(* The number that the first digits make, for each number of them.         *)
Evaluates(value, digit, N) ==
  value[0] = 0 /\ \A k \in 1..N : value[k] = 8 * value[k - 1] + digit[k]

LEMMA NumberValues ==
  ASSUME NEW s \in Seq(Characters), Chmod!IsNumeric(s)
  PROVE  LET digit == [k \in 1..Len(s) |-> Chmod!At(Chmod!Octal, s[k])]
         IN  /\ digit \in [1..Len(s) -> 0..7]
             /\ \E value \in [0..Len(s) -> Nat] :
                  Evaluates(value, digit, Len(s)) /\ Chmod!Number(s) = value[Len(s)]
<1> DEFINE N == Len(s)
           digit == [k \in 1..N |-> Chmod!At(Chmod!Octal, s[k])]
           Def(fun) == fun = [k \in 0..N |->
                            IF k = 0 THEN 0 ELSE 8 * fun[k - 1] + Chmod!At(Chmod!Octal, s[k])]
           step == [k \in 1..N |-> [v \in Nat |-> 8 * v + digit[k]]]
           value == CHOOSE fun : Def(fun)
<1>1. N \in Nat /\ digit \in [1..N -> 0..7]
  <2>1. \A k \in 1..N : Chmod!Contains(Chmod!Octal, s[k])
    BY DEF Chmod!IsNumeric
  <2>2. QED
    BY <2>1, Digits
<1>2. PICK fun \in [0..N -> Nat] : Iterated(fun, N, 0, step)
  <2>1. \A k \in 1..N : \A v \in Nat : 8 * v + digit[k] \in Nat
    <3> HIDE DEF N, digit
    <3>1. QED
      BY <1>1
  <2>2. step \in [1..N -> [Nat -> Nat]]
    BY <2>1
  <2>3. QED
    <3> HIDE DEF N, step
    <3>1. QED
      BY <1>1, <2>2, Iterates
<1>3. Evaluates(fun, digit, N)
  <2> HIDE DEF N, digit
  <2>1. \A k \in 1..N : fun[k - 1] \in Nat
    BY <1>1
  <2>2. QED
    BY <1>2, <2>1 DEF Iterated, Evaluates
<1>4. Def(fun)
  <2>1. fun = [k \in 0..N |-> fun[k]]
    OBVIOUS
  <2>2. \A k \in 0..N : fun[k] = IF k = 0 THEN 0 ELSE 8 * fun[k - 1] + digit[k]
    <3> HIDE DEF N, digit
    <3>1. \A k \in 0..N : k = 0 \/ k \in 1..N
      BY <1>1
    <3>2. QED
      BY <3>1, <1>3 DEF Evaluates
  <2>3. \A k \in 0..N : k = 0 \/ digit[k] = Chmod!At(Chmod!Octal, s[k])
    BY <1>1
  <2>4. QED
    <3> HIDE DEF N, digit
    <3>1. QED
      BY <2>1, <2>2, <2>3
<1>5. Def(value)
  <2> HIDE DEF Def
  <2>1. QED
    BY <1>4
<1>6. Chmod!Number(s) = value[N]
  BY DEF Chmod!Number
<1>7. Evaluates(value, digit, N)
  <2> HIDE DEF value
  <2>1. value[0] = 0
    BY <1>5, <1>1
  <2>2. ASSUME NEW k \in 1..N PROVE value[k] = 8 * value[k - 1] + digit[k]
    <3>1. k \in 0..N /\ k # 0 /\ digit[k] = Chmod!At(Chmod!Octal, s[k])
      BY <1>1
    <3>2. QED
      BY <1>5, <3>1
  <2>3. QED
    BY <2>1, <2>2 DEF Evaluates
<1>8. value \in [0..N -> Nat]
  <2> DEFINE S == {k \in 0..N : value[k] \in Nat}
  <2>1. value = [k \in 0..N |-> value[k]]
    <3> HIDE DEF value
    <3>1. QED
      BY <1>5
  <2> HIDE DEF value, N, digit
  <2>2. 0 \in S
    BY <1>1, <1>7 DEF Evaluates
  <2>3. ASSUME NEW k \in 1..N, k - 1 \in S PROVE k \in S
    <3>1. value[k - 1] \in Nat
      BY <2>3
    <3>2. digit[k] \in 0..7 /\ k \in 0..N
      BY <1>1
    <3>3. value[k] = 8 * value[k - 1] + digit[k]
      BY <1>7 DEF Evaluates
    <3>4. value[k] \in Nat
      <4> HIDE DEF S
      <4>1. QED
        BY <3>1, <3>2, <3>3
    <3>5. QED
      BY <3>2, <3>4
  <2>4. 0..N \subseteq S
    <3> HIDE DEF S
    <3>1. QED
      BY <1>1, <2>2, <2>3, Upwards
  <2>5. QED
    BY <2>1, <2>4
<1>9. QED
  <2> HIDE DEF value
  <2>1. QED
    BY <1>1, <1>6, <1>7, <1>8

(* It is 0 just if all the digits are.                                     *)
LEMMA ZeroDigits ==
  ASSUME NEW N \in Nat, NEW digit \in [1..N -> 0..7], NEW value \in [0..N -> Nat],
         Evaluates(value, digit, N)
  PROVE  \A k \in 0..N : value[k] = 0 <=> \A m \in 1..k : digit[m] = 0
<1>1. ASSUME NEW k \in 1..N PROVE value[k] = 0 <=> value[k - 1] = 0 /\ digit[k] = 0
  <2>1. value[k - 1] \in Nat /\ digit[k] \in 0..7
    BY k - 1 \in 0..N
  <2>2. value[k] = 8 * value[k - 1] + digit[k]
    BY DEF Evaluates
  <2> DEFINE v0 == value[k - 1] v1 == value[k] d1 == digit[k]
  <2>3. v1 = 0 <=> v0 = 0 /\ d1 = 0
    <3>1. v0 \in Nat /\ d1 \in 0..7 /\ v1 = 8 * v0 + d1
      BY <2>1, <2>2
    <3> HIDE DEF v0, v1, d1
    <3>2. QED
      BY <3>1
  <2>4. QED
    BY <2>3
<1> DEFINE S == {k \in 0..N : value[k] = 0 <=> \A m \in 1..k : digit[m] = 0}
<1>2. 0 \in S
  BY DEF Evaluates
<1>3. ASSUME NEW k \in 1..N, k - 1 \in S PROVE k \in S
  <2>1. value[k - 1] = 0 <=> \A m \in 1..k - 1 : digit[m] = 0
    BY <1>3
  <2>2. (\A m \in 1..k : digit[m] = 0) <=> (\A m \in 1..k - 1 : digit[m] = 0) /\ digit[k] = 0
    <3>1. k \in 1..k /\ \A m \in 1..k : m \in 1..k - 1 \/ m = k
      OBVIOUS
    <3>2. \A m \in 1..k - 1 : m \in 1..k
      OBVIOUS
    <3>3. QED
      BY <3>1, <3>2
  <2>3. value[k] = 0 <=> \A m \in 1..k : digit[m] = 0
    BY <1>1, <2>1, <2>2
  <2>4. QED
    BY <2>3
<1>4. 0..N \subseteq S
  <2> HIDE DEF S
  <2>1. QED
    BY <1>2, <1>3, Upwards
<1>5. QED
  BY <1>4

(* The last four digits, as far as there are so many, and what is before.  *)
Back(digit, N, m) == IF m < N THEN digit[N - m] ELSE 0
Rest(value, N) == IF 4 <= N THEN value[N - 4] ELSE 0

LEMMA LastFour ==
  ASSUME NEW N \in Nat, NEW digit \in [1..N -> 0..7], NEW value \in [0..N -> Nat],
         Evaluates(value, digit, N)
  PROVE  Parts(value[N], Rest(value, N), Back(digit, N, 3), Back(digit, N, 2), Back(digit, N, 1),
               Back(digit, N, 0))
<1>1. \A v0 \in Nat, d1, d2, d3, d4 \in 0..7 :
        8 * (8 * (8 * (8 * v0 + d1) + d2) + d3) + d4
        = 4096 * v0 + 512 * d1 + 64 * d2 + 8 * d3 + d4
  OBVIOUS
<1>2. /\ value[0] = 0
      /\ \A k \in 1..N : value[k] = 8 * value[k - 1] + digit[k] /\ digit[k] \in 0..7
  BY DEF Evaluates
<1>3. CASE N = 0
  BY <1>2, <1>3 DEF Parts, Back, Rest
<1>4. CASE N = 1
  BY <1>2, <1>4 DEF Parts, Back, Rest
<1>5. CASE N = 2
  <2>1. value[1] = digit[1] /\ value[2] = 8 * value[1] + digit[2]
    BY <1>2, <1>5
  <2>2. QED
    BY <2>1, <1>5 DEF Parts, Back, Rest
<1>6. CASE N = 3
  <2>1. /\ value[1] = 8 * 0 + digit[1] /\ value[2] = 8 * value[1] + digit[2]
        /\ value[3] = 8 * value[2] + digit[3]
    BY <1>2, <1>6
  <2>2. digit[1] \in 0..7 /\ digit[2] \in 0..7 /\ digit[3] \in 0..7
    BY <1>6
  <2>3. value[3] = 64 * digit[1] + 8 * digit[2] + digit[3]
    <3> DEFINE v1 == value[1] v2 == value[2] v3 == value[3]
               d1 == digit[1] d2 == digit[2] d3 == digit[3]
    <3>1. v1 = 8 * 0 + d1 /\ v2 = 8 * v1 + d2 /\ v3 = 8 * v2 + d3
      BY <2>1
    <3>2. d1 \in 0..7 /\ d2 \in 0..7 /\ d3 \in 0..7
      BY <2>2
    <3>3. v3 = 64 * d1 + 8 * d2 + d3
      <4> HIDE DEF v1, v2, v3, d1, d2, d3
      <4>1. QED
        BY <3>1, <3>2
    <3>4. QED
      BY <3>3
  <2>4. QED
    BY <2>3, <1>6 DEF Parts, Back, Rest
<1>7. CASE N >= 4
  <2> DEFINE v0 == value[N - 4] v1 == value[N - 3] v2 == value[N - 2] v3 == value[N - 1]
             v4 == value[N]
             d1 == digit[N - 3] d2 == digit[N - 2] d3 == digit[N - 1] d4 == digit[N]
  <2>1. /\ N \in 1..N /\ N - 1 \in 1..N /\ N - 2 \in 1..N /\ N - 3 \in 1..N /\ N - 4 \in 0..N
        /\ (N - 1) - 1 = N - 2 /\ (N - 2) - 1 = N - 3 /\ (N - 3) - 1 = N - 4
    BY <1>7
  <2>2. v4 = 8 * v3 + d4 /\ v3 = 8 * v2 + d3 /\ v2 = 8 * v1 + d2 /\ v1 = 8 * v0 + d1
    BY <1>2, <2>1
  <2>3. v0 \in Nat /\ d1 \in 0..7 /\ d2 \in 0..7 /\ d3 \in 0..7 /\ d4 \in 0..7
    BY <1>2, <2>1
  <2>4. v4 = 4096 * v0 + 512 * d1 + 64 * d2 + 8 * d3 + d4
    <3> HIDE DEF v0, v1, v2, v3, v4, d1, d2, d3, d4
    <3>1. v4 = 8 * (8 * (8 * (8 * v0 + d1) + d2) + d3) + d4
      BY <2>2
    <3>2. QED
      BY <1>1, <2>3, <3>1
  <2>5. QED
    BY <2>4, <1>7 DEF Parts, Back, Rest
<1>8. QED
  BY <1>3, <1>4, <1>5, <1>6, <1>7

(* The members of Numeric: the bits of the digits, each in its place.      *)
LEMMA NumericMembers ==
  ASSUME NEW s \in Seq(Characters)
  PROVE  /\ \A n \in Chmod!Numeric(s) : \E m \in 0..Len(s) - 1, k \in 0..2 :
              n = 3 * m + k /\ Chmod!HasBit(Chmod!At(Chmod!Octal, s[Len(s) - m]), k)
         /\ \A m \in Nat, k \in 0..2 :
              3 * m + k \in Chmod!Numeric(s) <=>
                m < Len(s) /\ Chmod!HasBit(Chmod!At(Chmod!Octal, s[Len(s) - m]), k)
<1> DEFINE N == Len(s)
           Bit(m, k) == Chmod!HasBit(Chmod!At(Chmod!Octal, s[m]), k)
<1>1. N \in Nat
  OBVIOUS
<1>2. \A n : n \in Chmod!Numeric(s) <=> \E m \in 1..N, k \in 0..2 : n = 3 * (N - m) + k /\ Bit(m, k)
  BY DEF Chmod!Numeric
<1>3. ASSUME NEW n \in Chmod!Numeric(s)
      PROVE  \E m \in 0..N - 1, k \in 0..2 : n = 3 * m + k /\ Bit(N - m, k)
  <2> HIDE DEF N, Bit
  <2>1. PICK m \in 1..N, k \in 0..2 : n = 3 * (N - m) + k /\ Bit(m, k)
    BY <1>2
  <2>2. N - m \in 0..N - 1 /\ N - (N - m) = m
    BY <1>1
  <2>3. QED
    BY <2>1, <2>2
<1>4. ASSUME NEW m \in Nat, NEW k \in 0..2
      PROVE  3 * m + k \in Chmod!Numeric(s) <=> m < N /\ Bit(N - m, k)
  <2> HIDE DEF N, Bit
  <2>1. ASSUME 3 * m + k \in Chmod!Numeric(s) PROVE m < N /\ Bit(N - m, k)
    <3>1. PICK l \in 1..N, x \in 0..2 : 3 * m + k = 3 * (N - l) + x /\ Bit(l, x)
      BY <1>2, <2>1
    <3>2. m = N - l /\ k = x
      BY <1>1, <3>1
    <3>3. N - m = l /\ m < N
      BY <1>1, <3>2
    <3>4. QED
      BY <3>1, <3>2, <3>3
  <2>2. ASSUME m < N, Bit(N - m, k) PROVE 3 * m + k \in Chmod!Numeric(s)
    <3>1. N - m \in 1..N /\ N - (N - m) = m
      BY <1>1, <2>2
    <3>2. \E l \in 1..N, x \in 0..2 : 3 * m + k = 3 * (N - l) + x /\ Bit(l, x)
      BY <2>2, <3>1
    <3>3. QED
      BY <1>2, <3>2
  <2>3. QED
    BY <2>1, <2>2
<1>5. QED
  BY <1>3, <1>4

(* Up to 07777 a number is well-formed, and its bits are those of its      *)
(* digits.                                                                 *)
LEMMA NumericMeans ==
  ASSUME NEW s \in Seq(Characters), Chmod!IsNumeric(s)
  PROVE  /\ Chmod!WellFormed(s) <=> Chmod!Numeric(s) \subseteq 0..11
         /\ \A m : Chmod!WellFormed(s) => Chmod!Meaning(s, m) = Chmod!Numeric(s)
<1>1. PICK N \in Nat : N = Len(s)
  BY Len(s) \in Nat
<1>2. PICK digit \in [1..N -> 0..7], value \in [0..N -> Nat] :
        /\ \A k \in 1..N : digit[k] = Chmod!At(Chmod!Octal, s[k])
        /\ Evaluates(value, digit, N) /\ Chmod!Number(s) = value[N]
  <2> DEFINE dig == [k \in 1..Len(s) |-> Chmod!At(Chmod!Octal, s[k])]
  <2>1. \A k \in 1..Len(s) : dig[k] = Chmod!At(Chmod!Octal, s[k])
    OBVIOUS
  <2>2. dig \in [1..Len(s) -> 0..7] /\ \E v \in [0..Len(s) -> Nat] :
          Evaluates(v, dig, Len(s)) /\ Chmod!Number(s) = v[Len(s)]
    BY NumberValues
  <2>3. QED
    <3> HIDE DEF dig
    <3>1. QED
      BY <1>1, <2>1, <2>2
<1>3. \A m \in 0..3 : Back(digit, N, m) \in 0..7
  <2>1. \A m \in 0..3 : m < N => N - m \in 1..N
    BY <1>1
  <2>2. QED
    BY <2>1 DEF Back
<1>4. Rest(value, N) \in Nat
  <2>1. 4 <= N => N - 4 \in 0..N
    BY <1>1
  <2>2. QED
    BY <2>1 DEF Rest
<1>5. Parts(value[N], Rest(value, N), Back(digit, N, 3), Back(digit, N, 2), Back(digit, N, 1),
            Back(digit, N, 0))
  BY <1>2, LastFour
<1>6. Rest(value, N) = 0 <=> \A k \in 1..N - 4 : digit[k] = 0
  <2>1. CASE 4 <= N
    <3>1. N - 4 \in 0..N
      BY <1>1, <2>1
    <3>2. QED
      BY <1>2, <2>1, <3>1, ZeroDigits DEF Rest
  <2>2. CASE ~(4 <= N)
    <3>1. \A k \in 1..N - 4 : FALSE
      BY <1>1, <2>2
    <3>2. QED
      BY <2>2, <3>1 DEF Rest
  <2>3. QED
    BY <2>1, <2>2
<1>7. Chmod!WellFormed(s) <=> Rest(value, N) = 0
  <2>1. Chmod!WellFormed(s) <=> value[N] <= 4095
    BY <1>2 DEF Chmod!WellFormed
  <2> DEFINE v == value[N] q == Rest(value, N)
             e0 == Back(digit, N, 0) e1 == Back(digit, N, 1) e2 == Back(digit, N, 2)
             e3 == Back(digit, N, 3)
  <2>2. /\ e0 \in 0..7 /\ e1 \in 0..7 /\ e2 \in 0..7 /\ e3 \in 0..7 /\ q \in Nat
        /\ v = 4096 * q + 512 * e3 + 64 * e2 + 8 * e1 + e0
    BY <1>3, <1>4, <1>5 DEF Parts
  <2>3. v <= 4095 <=> q = 0
    <3> HIDE DEF v, q, e0, e1, e2, e3
    <3>1. QED
      BY <2>2
  <2>4. QED
    BY <2>1, <2>3
<1>8. \A m \in Nat, k \in 0..2 :
        3 * m + k \in Chmod!Numeric(s) <=> m < N /\ Chmod!HasBit(digit[N - m], k)
  <2>1. \A m \in Nat : m < N => digit[N - m] = Chmod!At(Chmod!Octal, s[N - m])
    <3>1. \A m \in Nat : m < N => N - m \in 1..N
      OBVIOUS
    <3>2. QED
      BY <1>2, <3>1
  <2>2. QED
    BY <1>1, <2>1, NumericMembers
<1>9. \A n \in Chmod!Numeric(s) : \E m \in 0..N - 1, k \in 0..2 :
        n = 3 * m + k /\ Chmod!HasBit(digit[N - m], k)
  <2>1. TAKE n \in Chmod!Numeric(s)
  <2>2. PICK m \in 0..N - 1, k \in 0..2 : n = 3 * m + k
    BY <1>1, NumericMembers
  <2>3. m \in Nat /\ 3 * m + k \in Chmod!Numeric(s)
    BY <2>2, <1>1
  <2>4. QED
    BY <2>2, <2>3, <1>8
<1>10. \A n \in 0..7 : n = 0 <=> \A k \in 0..2 : ~Chmod!HasBit(n, k)
  BY ZeroHasNoBits
<1>11. Chmod!Numeric(s) \subseteq 0..11 <=> \A k \in 1..N - 4 : digit[k] = 0
  <2>1. ASSUME Chmod!Numeric(s) \subseteq 0..11, NEW l \in 1..N - 4 PROVE digit[l] = 0
    <3>1. N - l \in Nat /\ N - l >= 4 /\ N - l < N /\ N - (N - l) = l /\ digit[l] \in 0..7
      BY <1>1
    <3>2. \A k \in 0..2 : 3 * (N - l) + k \notin 0..11
      BY <3>1
    <3>3. \A k \in 0..2 : ~Chmod!HasBit(digit[l], k)
      BY <3>1, <3>2, <2>1, <1>8
    <3>4. QED
      BY <3>1, <3>3, <1>10
  <2>2. ASSUME \A k \in 1..N - 4 : digit[k] = 0, NEW n \in Chmod!Numeric(s) PROVE n \in 0..11
    <3>1. PICK m \in 0..N - 1, k \in 0..2 : n = 3 * m + k /\ Chmod!HasBit(digit[N - m], k)
      BY <1>9
    <3>2. digit[N - m] # 0
      BY <3>1, <1>10, 0 \in 0..7
    <3>3. N - m \in 1..N /\ N - m \notin 1..N - 4
      BY <1>1, <3>2, <2>2
    <3>4. m \in 0..3
      BY <1>1, <3>3
    <3>5. QED
      BY <3>1, <3>4
  <2>3. QED
    BY <2>1, <2>2
<1>12. ASSUME NEW m, Chmod!WellFormed(s) PROVE Chmod!Meaning(s, m) = Chmod!Numeric(s)
  <2>1. Chmod!Meaning(s, m) = {n \in 0..11 : Chmod!HasBit(value[N], n)}
    BY <1>2 DEF Chmod!Meaning
  <2>2. Chmod!Numeric(s) \subseteq 0..11
    BY <1>6, <1>7, <1>11, <1>12, SMTT(30)
  <2>3. SameBits(value[N], Back(digit, N, 3), Back(digit, N, 2), Back(digit, N, 1),
                 Back(digit, N, 0))
    <3>1. /\ Back(digit, N, 0) \in 0..7 /\ Back(digit, N, 1) \in 0..7
          /\ Back(digit, N, 2) \in 0..7 /\ Back(digit, N, 3) \in 0..7
          /\ value[N] \in Nat /\ Rest(value, N) \in Nat /\ Rest(value, N) = 0
      BY <1>3, <1>4, <1>7, <1>12
    <3>2. QED
      BY <1>5, <3>1, FourDigits
  <2>4. ASSUME NEW k \in 0..2
        PROVE  /\ Chmod!HasBit(value[N], k) <=> Chmod!HasBit(Back(digit, N, 0), k)
               /\ Chmod!HasBit(value[N], 3 + k) <=> Chmod!HasBit(Back(digit, N, 1), k)
               /\ Chmod!HasBit(value[N], 6 + k) <=> Chmod!HasBit(Back(digit, N, 2), k)
               /\ Chmod!HasBit(value[N], 9 + k) <=> Chmod!HasBit(Back(digit, N, 3), k)
    BY <2>3 DEF SameBits
  <2>5. ASSUME NEW l \in 0..3, NEW k \in 0..2
        PROVE  3 * l + k \in Chmod!Numeric(s) <=> Chmod!HasBit(Back(digit, N, l), k)
    <3>1. 3 * l + k \in Chmod!Numeric(s) <=> l < N /\ Chmod!HasBit(digit[N - l], k)
      BY <1>8, l \in Nat
    <3>2. ~Chmod!HasBit(0, k)
      BY <1>10, 0 \in 0..7
    <3>3. QED
      BY <3>1, <3>2 DEF Back
  <2>6. ASSUME NEW l \in 0..3, NEW k \in 0..2
        PROVE  3 * l + k \in Chmod!Numeric(s) <=> Chmod!HasBit(value[N], 3 * l + k)
    <3>1. l = 0 \/ l = 1 \/ l = 2 \/ l = 3
      OBVIOUS
    <3>2. 3 * 0 + k = k /\ 3 * 1 + k = 3 + k /\ 3 * 2 + k = 6 + k /\ 3 * 3 + k = 9 + k
      OBVIOUS
    <3>3. QED
      BY <2>4, <2>5, <3>1, <3>2, SMTT(30)
  <2>7. ASSUME NEW n \in 0..11 PROVE n \in Chmod!Numeric(s) <=> Chmod!HasBit(value[N], n)
    <3>1. n \div 3 \in 0..3 /\ n % 3 \in 0..2 /\ n = 3 * (n \div 3) + (n % 3)
      OBVIOUS
    <3>2. QED
      BY <3>1, <2>6
  <2>8. QED
    BY <2>1, <2>2, <2>7
<1>13. QED
  BY <1>6, <1>7, <1>11, <1>12

(* The loop over the leading letters takes all there are: what comes after *)
(* them, if anything, is none.                                             *)
LEMMA LeadingLetters ==
  ASSUME NEW s \in Seq(Characters)
  PROVE  \E n \in 0..Len(s) :
           /\ Chmod!Leading(s) = n
           /\ \A k \in 1..n : Chmod!IsClass(s[k])
           /\ n < Len(s) => ~Chmod!IsClass(s[n + 1])
<1>1. PICK N \in Nat : N = Len(s)
  BY Len(s) \in Nat
<1> DEFINE S == {n \in 0..N : \A k \in 1..n : Chmod!IsClass(s[k])}
<1>2. 0 \in S
  BY <1>1
<1>3. PICK n \in S : n < N => ~Chmod!IsClass(s[n + 1])
  <2>1. CASE \A k \in 1..N : k - 1 \in S => k \in S
    <3>1. 0..N \subseteq S
      <4> HIDE DEF S
      <4>1. QED
        BY <1>2, <2>1, Upwards
    <3>2. N \in S /\ ~(N < N)
      BY <3>1
    <3>3. QED
      BY <3>2
  <2>2. ASSUME NEW k \in 1..N, k - 1 \in S, k \notin S
        PROVE  \E n \in S : n < N => ~Chmod!IsClass(s[n + 1])
    <3>1. \A m \in 1..k : m \in 1..k - 1 \/ m = k
      OBVIOUS
    <3>2. ~Chmod!IsClass(s[k])
      BY <2>2, <3>1
    <3>3. (k - 1) + 1 = k
      OBVIOUS
    <3>4. QED
      BY <2>2, <3>2, <3>3
  <2>3. QED
    BY <2>1, <2>2
<1>4. n \in 0..N /\ \A k \in 1..n : Chmod!IsClass(s[k])
  OBVIOUS
<1>5. {k \in 1..N : \A m \in 1..k : Chmod!IsClass(s[m])} = 1..n
  <2>1. ASSUME NEW k \in 1..N, \A m \in 1..k : Chmod!IsClass(s[m]) PROVE k \in 1..n
    <3>1. SUFFICES ASSUME k > n PROVE FALSE
      BY <1>4
    <3>2. n + 1 \in 1..k /\ n < N
      BY <1>4, <3>1
    <3>3. QED
      BY <1>3, <2>1, <3>2
  <2>2. ASSUME NEW k \in 1..n PROVE k \in 1..N /\ \A m \in 1..k : Chmod!IsClass(s[m])
    <3>1. k \in 1..N /\ \A m \in 1..k : m \in 1..n
      BY <1>4
    <3>2. QED
      BY <1>4, <3>1
  <2>3. QED
    BY <2>1, <2>2
<1>6. Cardinality(1..n) = n
  <2>1. n \in Nat /\ 1 \in Int /\ n \in Int
    BY <1>4
  <2>2. Cardinality(1..n) = IF 1 > n THEN 0 ELSE n - 1 + 1
    BY <2>1, FS_Interval
  <2>3. QED
    BY <2>1, <2>2
<1>7. Chmod!Leading(s) = n
  <2>1. Chmod!Cardinality(1..n) = n
    BY <1>6 DEF Chmod!Cardinality, Cardinality
  <2>2. QED
    BY <1>1, <1>5, <2>1 DEF Chmod!Leading
<1>8. QED
  BY <1>1, <1>3, <1>4, <1>7

LEMMA ClassLetters == \A x : Chmod!IsClass(x) <=> x \in {"u", "g", "o", "a"}
BY Places DEF Chmod!IsClass

(* The program and the reference split a symbolic mode at the same place.  *)
LEMMA SplitAt ==
  ASSUME NEW s \in Seq(Characters), NEW k \in 1..Len(s)
  PROVE  Chmod!IsSplit(s, k) <=> /\ k = Chmod!Leading(s) + 1
                                 /\ Chmod!ValidOperator(s) /\ Chmod!ValidRights(s)
<1>1. PICK N \in Nat : N = Len(s)
  BY Len(s) \in Nat
<1>2. PICK n \in 0..N : /\ Chmod!Leading(s) = n
                        /\ \A l \in 1..n : Chmod!IsClass(s[l])
                        /\ n < N => ~Chmod!IsClass(s[n + 1])
  BY <1>1, LeadingLetters
<1>3. Chmod!IsSplit(s, k) <=>
        /\ s[k] \in {"+", "-", "="}
        /\ \A l \in 1..k - 1 : Chmod!IsClass(s[l])
        /\ \A l \in k + 1..N : Chmod!Contains(Chmod!Rights, s[l])
  <2>1. \A x : Chmod!Contains(Chmod!Rights, x) <=> x \in {"r", "w", "x"}
    BY Places
  <2>2. QED
    BY <1>1, <2>1, ClassLetters DEF Chmod!IsSplit
<1>4. Chmod!ValidOperator(s) <=> n < N /\ s[n + 1] \in {"+", "-", "="}
  BY <1>1, <1>2 DEF Chmod!ValidOperator
<1>5. Chmod!ValidRights(s) <=> \A l \in n + 2..N : Chmod!Contains(Chmod!Rights, s[l])
  BY <1>1, <1>2 DEF Chmod!ValidRights
<1>6. ASSUME Chmod!IsSplit(s, k) PROVE k = n + 1
  <2>1. ~Chmod!IsClass(s[k])
    BY <1>3, <1>6, ClassLetters
  <2>2. ~(k <= n)
    BY <1>1, <1>2, <2>1
  <2>3. ~(n + 1 < k)
    <3>1. SUFFICES ASSUME n + 1 < k PROVE FALSE
      OBVIOUS
    <3>2. n + 1 \in 1..k - 1 /\ n < N
      BY <1>1, <3>1
    <3>3. QED
      BY <1>2, <1>3, <1>6, <3>2
  <2>4. QED
    BY <2>2, <2>3
<1>7. ASSUME k = n + 1
      PROVE  Chmod!IsSplit(s, k) <=> Chmod!ValidOperator(s) /\ Chmod!ValidRights(s)
  <2>1. n < N /\ k - 1 = n /\ k + 1 = n + 2
    BY <1>1, <1>7
  <2>2. QED
    BY <1>2, <1>3, <1>4, <1>5, <1>7, <2>1
<1>8. QED
  BY <1>2, <1>6, <1>7

(* The bits of a class and of a right, bit by bit.                         *)
LEMMA ClassBits ==
  \A n \in 0..11 : \A x \in {"u", "g", "o", "a"} :
    n \in Chmod!Class(x) <=> n < 9 /\ x \in {"a", Chmod!Who[(n \div 3) + 1]}
<1>1. TAKE n \in 0..11
<1>2. TAKE x \in {"u", "g", "o", "a"}
<1>3. Chmod!Who[1] = "o" /\ Chmod!Who[2] = "g" /\ Chmod!Who[3] = "u"
  BY DEF Chmod!Who
<1>4. CASE x = "a"
  <2>1. Chmod!Class(x) = 0..8
    BY <1>4 DEF Chmod!Class
  <2>2. QED
    BY <2>1, <1>4
<1>5. CASE x = "o"
  <2>1. Chmod!Class(x) = 0..2
    BY <1>5, Places DEF Chmod!Class
  <2>2. n \in 0..2 <=> n < 9 /\ n \div 3 = 0
    OBVIOUS
  <2>3. n < 9 => n \div 3 = 0 \/ n \div 3 = 1 \/ n \div 3 = 2
    OBVIOUS
  <2>4. QED
    BY <2>1, <2>2, <2>3, <1>3, <1>5
<1>6. CASE x = "g"
  <2>1. Chmod!Class(x) = 3..5
    BY <1>6, Places DEF Chmod!Class
  <2>2. n \in 3..5 <=> n < 9 /\ n \div 3 = 1
    OBVIOUS
  <2>3. n < 9 => n \div 3 = 0 \/ n \div 3 = 1 \/ n \div 3 = 2
    OBVIOUS
  <2>4. QED
    BY <2>1, <2>2, <2>3, <1>3, <1>6
<1>7. CASE x = "u"
  <2>1. Chmod!Class(x) = 6..8
    BY <1>7, Places DEF Chmod!Class
  <2>2. n \in 6..8 <=> n < 9 /\ n \div 3 = 2
    OBVIOUS
  <2>3. n < 9 => n \div 3 = 0 \/ n \div 3 = 1 \/ n \div 3 = 2
    OBVIOUS
  <2>4. QED
    BY <2>1, <2>2, <2>3, <1>3, <1>7
<1>8. QED
  BY <1>4, <1>5, <1>6, <1>7

LEMMA RightBits ==
  \A n \in 0..11 : \A x \in {"r", "w", "x"} :
    n \in Chmod!Right(x) <=> n < 9 /\ x = Chmod!Rights[(n % 3) + 1]
<1>1. TAKE n \in 0..11
<1>2. TAKE x \in {"r", "w", "x"}
<1>3. Chmod!Rights[1] = "x" /\ Chmod!Rights[2] = "w" /\ Chmod!Rights[3] = "r"
  BY DEF Chmod!Rights
<1>4. n % 3 = 0 \/ n % 3 = 1 \/ n % 3 = 2
  OBVIOUS
<1>5. CASE x = "x"
  <2>1. n \in Chmod!Right(x) <=> n = 0 \/ n = 3 \/ n = 6
    BY <1>5, Places DEF Chmod!Right
  <2>2. n = 0 \/ n = 3 \/ n = 6 <=> n < 9 /\ n % 3 = 0
    OBVIOUS
  <2>3. QED
    BY <2>1, <2>2, <1>3, <1>4, <1>5
<1>6. CASE x = "w"
  <2>1. n \in Chmod!Right(x) <=> n = 1 \/ n = 4 \/ n = 7
    BY <1>6, Places DEF Chmod!Right
  <2>2. n = 1 \/ n = 4 \/ n = 7 <=> n < 9 /\ n % 3 = 1
    OBVIOUS
  <2>3. QED
    BY <2>1, <2>2, <1>3, <1>4, <1>6
<1>7. CASE x = "r"
  <2>1. n \in Chmod!Right(x) <=> n = 2 \/ n = 5 \/ n = 8
    BY <1>7, Places DEF Chmod!Right
  <2>2. n = 2 \/ n = 5 \/ n = 8 <=> n < 9 /\ n % 3 = 2
    OBVIOUS
  <2>3. QED
    BY <2>1, <2>2, <1>3, <1>4, <1>7
<1>8. QED
  BY <1>5, <1>6, <1>7

(* What the reference says of a bit with its operator, the bits selected   *)
(* and those named.                                                        *)
Becomes(operator, selected, named, n, m) ==
  \/ ~selected /\ n \in m
  \/ selected /\ operator = "=" /\ named
  \/ selected /\ operator = "+" /\ (n \in m \/ named)
  \/ selected /\ operator = "-" /\ n \in m /\ ~named

(* The masks of apply_symbolic_mode do what the mode string means.         *)
LEMMA SymbolicMeans ==
  ASSUME NEW s \in Seq(Characters), ~Chmod!IsNumeric(s)
  PROVE  /\ Chmod!WellFormed(s) <=> Chmod!ValidOperator(s) /\ Chmod!ValidRights(s)
         /\ Chmod!WellFormed(s) =>
              \A m \in SUBSET (0..11) : Chmod!Meaning(s, m) = Chmod!Apply(s, m)
<1>1. PICK N \in Nat : N = Len(s)
  BY Len(s) \in Nat
<1>2. PICK n \in 0..N : /\ Chmod!Leading(s) = n
                        /\ \A k \in 1..n : Chmod!IsClass(s[k])
  BY <1>1, LeadingLetters
<1>3. \A k \in 1..N : Chmod!IsSplit(s, k) <=>
        k = n + 1 /\ Chmod!ValidOperator(s) /\ Chmod!ValidRights(s)
  BY <1>1, <1>2, SplitAt
<1>4. Chmod!ValidOperator(s) => n + 1 \in 1..N /\ s[n + 1] \in {"+", "-", "="}
  BY <1>1, <1>2 DEF Chmod!ValidOperator
<1>5. Chmod!WellFormed(s) <=> Chmod!ValidOperator(s) /\ Chmod!ValidRights(s)
  <2>1. Chmod!WellFormed(s) <=> \E k \in 1..N : Chmod!IsSplit(s, k)
    BY <1>1 DEF Chmod!WellFormed
  <2>2. QED
    BY <2>1, <1>3, <1>4
<1>6. ASSUME Chmod!WellFormed(s), NEW m \in SUBSET (0..11)
      PROVE  Chmod!Meaning(s, m) = Chmod!Apply(s, m)
  <2>1. (CHOOSE k \in 1..N : Chmod!IsSplit(s, k)) = n + 1
    BY <1>3, <1>4, <1>5, <1>6
  <2> DEFINE Selected(l) == l < 9 /\ (n + 1 = 1 \/
                              \E k \in 1..(n + 1) - 1 : s[k] \in {"a", Chmod!Who[(l \div 3) + 1]})
             Named(l) == \E k \in (n + 1) + 1..N : s[k] = Chmod!Rights[(l % 3) + 1]
             named == UNION {Chmod!Right(s[k]) : k \in n + 2..N}
  <2>2. Chmod!Meaning(s, m) = {l \in 0..11 : Becomes(s[n + 1], Selected(l), Named(l), l, m)}
    BY <1>1, <2>1 DEF Chmod!Meaning, Becomes
  <2>3. ASSUME NEW l \in 0..11 PROVE Selected(l) <=> l \in Chmod!Mask(s)
    <3>1. CASE n = 0
      BY <1>2, <3>1 DEF Chmod!Mask
    <3>2. CASE n # 0
      <4>1. l \in Chmod!Mask(s) <=> \E k \in 1..n : l \in Chmod!Class(s[k])
        BY <1>2, <3>2 DEF Chmod!Mask
      <4>2. \A k \in 1..n : l \in Chmod!Class(s[k]) <=>
              l < 9 /\ s[k] \in {"a", Chmod!Who[(l \div 3) + 1]}
        BY <1>2, ClassLetters, ClassBits
      <4>3. (n + 1) - 1 = n /\ n + 1 # 1
        BY <3>2
      <4>4. QED
        BY <4>1, <4>2, <4>3
    <3>3. QED
      BY <3>1, <3>2
  <2>4. \A k \in n + 2..N : s[k] \in {"r", "w", "x"}
    <3>1. \A k \in n + 2..N : Chmod!Contains(Chmod!Rights, s[k])
      BY <1>1, <1>2, <1>5, <1>6 DEF Chmod!ValidRights
    <3>2. QED
      BY <3>1, Places
  <2>5. ASSUME NEW l \in 0..11, l < 9 PROVE Named(l) <=> l \in named
    <3>1. l \in named <=> \E k \in n + 2..N : l \in Chmod!Right(s[k])
      OBVIOUS
    <3>2. \A k \in n + 2..N : l \in Chmod!Right(s[k]) <=> s[k] = Chmod!Rights[(l % 3) + 1]
      BY <2>4, <2>5, RightBits
    <3>3. (n + 1) + 1 = n + 2
      OBVIOUS
    <3>4. QED
      BY <3>1, <3>2, <3>3
  <2>6. \A l \in 0..11 : l \in Chmod!Mask(s) => l < 9
    BY <2>3
  <2> HIDE DEF Selected, Named, named
  <2>7. Chmod!Meaning(s, m) =
          {l \in 0..11 : Becomes(s[n + 1], l \in Chmod!Mask(s), l \in named, l, m)}
    <3>1. ASSUME NEW l \in 0..11
          PROVE  Becomes(s[n + 1], Selected(l), Named(l), l, m) <=>
                 Becomes(s[n + 1], l \in Chmod!Mask(s), l \in named, l, m)
      <4>1. CASE l \in Chmod!Mask(s)
        BY <2>3, <2>5, <2>6, <4>1 DEF Becomes
      <4>2. CASE l \notin Chmod!Mask(s)
        BY <2>3, <4>2 DEF Becomes
      <4>3. QED
        BY <4>1, <4>2
    <3>2. QED
      BY <2>2, <3>1
  <2>8. s[n + 1] = "+" \/ s[n + 1] = "-" \/ s[n + 1] = "="
    BY <1>4, <1>5, <1>6
  <2>9. Chmod!Apply(s, m) =
          IF s[n + 1] = "+" THEN m \cup (named \cap Chmod!Mask(s))
          ELSE IF s[n + 1] = "-" THEN m \ (named \cap Chmod!Mask(s))
          ELSE (m \ Chmod!Mask(s)) \cup (named \cap Chmod!Mask(s))
    BY <1>1, <1>2 DEF Chmod!Apply, named
  <2>10. Chmod!Mask(s) \subseteq 0..8
    <3>1. CASE n = 0
      BY <1>2, <3>1 DEF Chmod!Mask
    <3>2. CASE n # 0
      <4>1. \A x \in {"u", "g", "o", "a"} : Chmod!Class(x) \subseteq 0..8
        BY Places DEF Chmod!Class
      <4>2. \A k \in 1..n : Chmod!Class(s[k]) \subseteq 0..8
        BY <1>2, <4>1, ClassLetters
      <4>3. QED
        BY <1>2, <3>2, <4>2 DEF Chmod!Mask
    <3>3. QED
      BY <3>1, <3>2
  <2>11. ASSUME NEW l
         PROVE  l \in Chmod!Apply(s, m) <=>
                l \in 0..11 /\ Becomes(s[n + 1], l \in Chmod!Mask(s), l \in named, l, m)
    <3>1. l \in Chmod!Mask(s) \/ l \in m => l \in 0..11
      <4>1. m \subseteq 0..11 /\ 0..8 \subseteq 0..11
        OBVIOUS
      <4>2. QED
        BY <2>10, <4>1
    <3>2. CASE s[n + 1] = "+"
      BY <2>9, <3>1, <3>2 DEF Becomes
    <3>3. CASE s[n + 1] = "-"
      BY <2>9, <3>1, <3>3 DEF Becomes
    <3>4. CASE s[n + 1] = "="
      BY <2>9, <3>1, <3>4 DEF Becomes
    <3>5. QED
      BY <2>8, <3>2, <3>3, <3>4
  <2>12. QED
    BY <2>7, <2>11
<1>7. QED
  BY <1>5, <1>6

(* What the mode strings make of a mode is a mode.                         *)
Modes == SUBSET (0..11)

LEMMA MeaningIsMode == \A s, m : Chmod!Meaning(s, m) \in Modes
BY DEF Chmod!Meaning, Modes

(* The steps of Makes: run order[k] does what its string means.            *)
Steps(strings, order) ==
  [k \in 1..Len(order) |-> [m \in Modes |-> Chmod!Meaning(strings[order[k]], m)]]

LEMMA MadeValues ==
  ASSUME NEW strings, NEW order \in Seq(Runs)
  PROVE  \E made \in [0..Len(order) -> Modes] :
           /\ Iterated(made, Len(order), InitialMode, Steps(strings, order))
           /\ Chmod!Makes(strings, order) = made[Len(order)]
<1> DEFINE N == Len(order)
           Def(fun) == fun = [k \in 0..N |->
                            IF k = 0 THEN InitialMode
                            ELSE Chmod!Meaning(strings[order[k]], fun[k - 1])]
           made == CHOOSE fun : Def(fun)
<1>1. N \in Nat /\ InitialMode \in Modes
  BY ToolsAssumption DEF Modes
<1>2. Steps(strings, order) \in [1..N -> [Modes -> Modes]]
  BY MeaningIsMode DEF Steps
<1>3. PICK fun \in [0..N -> Modes] : Iterated(fun, N, InitialMode, Steps(strings, order))
  <2> HIDE DEF N
  <2>1. QED
    BY <1>1, <1>2, Iterates
<1>4. Def(fun)
  <2>1. ASSUME NEW k \in 1..N PROVE fun[k] = Chmod!Meaning(strings[order[k]], fun[k - 1])
    <3>1. fun[k - 1] \in Modes
      BY k - 1 \in 0..N, <1>1
    <3>2. fun[k] = Steps(strings, order)[k][fun[k - 1]]
      BY <1>3 DEF Iterated
    <3>3. QED
      BY <3>1, <3>2 DEF Steps
  <2>2. fun = [k \in 0..N |-> fun[k]]
    OBVIOUS
  <2>3. \A k \in 0..N : fun[k] = IF k = 0 THEN InitialMode
                               ELSE Chmod!Meaning(strings[order[k]], fun[k - 1])
    <3> HIDE DEF N
    <3>1. \A k \in 0..N : k = 0 \/ k \in 1..N
      BY <1>1
    <3>2. QED
      BY <2>1, <3>1, <1>3 DEF Iterated
  <2>4. QED
    <3> HIDE DEF N
    <3>1. QED
      BY <2>2, <2>3
<1>5. Def(made)
  <2> HIDE DEF Def
  <2>1. QED
    BY <1>4
<1>6. Chmod!Makes(strings, order) = made[N]
  BY DEF Chmod!Makes
<1>7. made \in [0..N -> Modes] /\ \A k \in 0..N : made[k] =
        IF k = 0 THEN InitialMode ELSE Chmod!Meaning(strings[order[k]], made[k - 1])
  <2> HIDE DEF made, N
  <2>1. \A k \in 0..N : made[k] =
          IF k = 0 THEN InitialMode ELSE Chmod!Meaning(strings[order[k]], made[k - 1])
    BY <1>5
  <2>2. \A k \in 0..N : made[k] \in Modes
    BY <2>1, <1>1, MeaningIsMode
  <2>3. made = [k \in 0..N |-> made[k]]
    BY <1>5
  <2>4. QED
    BY <2>1, <2>2, <2>3
<1>8. Iterated(made, N, InitialMode, Steps(strings, order))
  <2> HIDE DEF made
  <2>1. made[0] = InitialMode
    BY <1>7, <1>1
  <2>2. ASSUME NEW k \in 1..N PROVE made[k] = Steps(strings, order)[k][made[k - 1]]
    <3>1. made[k - 1] \in Modes /\ k \in 0..N /\ k # 0
      BY <1>7, k - 1 \in 0..N, <1>1, SMTT(30)
    <3>2. QED
      BY <3>1, <1>7 DEF Steps
  <2>3. QED
    BY <2>1, <2>2 DEF Iterated
<1>9. QED
  <2> HIDE DEF made
  <2>1. QED
    BY <1>6, <1>7, <1>8

(* One run more changes what the others have made.                         *)
LEMMA OneMore ==
  ASSUME NEW strings, NEW order \in Seq(Runs), NEW p \in Runs
  PROVE  /\ Chmod!Makes(strings, order) \in Modes
         /\ Chmod!Makes(strings, Append(order, p)) =
              Chmod!Meaning(strings[p], Chmod!Makes(strings, order))
<1> DEFINE longer == Append(order, p)
<1>1. PICK N \in Nat : N = Len(order)
  BY Len(order) \in Nat
<1>2. longer \in Seq(Runs) /\ Len(longer) = N + 1 /\ longer[N + 1] = p
      /\ \A k \in 1..N : longer[k] = order[k]
  BY <1>1
<1>3. PICK made \in [0..N -> Modes] : /\ Iterated(made, N, InitialMode, Steps(strings, order))
                                      /\ Chmod!Makes(strings, order) = made[N]
  BY <1>1, MadeValues
<1> HIDE DEF longer
<1>4. PICK more \in [0..N + 1 -> Modes] :
        /\ Iterated(more, N + 1, InitialMode, Steps(strings, longer))
        /\ Chmod!Makes(strings, longer) = more[N + 1]
  <2>1. \E more \in [0..Len(longer) -> Modes] :
          /\ Iterated(more, Len(longer), InitialMode, Steps(strings, longer))
          /\ Chmod!Makes(strings, longer) = more[Len(longer)]
    BY <1>2, MadeValues
  <2>2. Len(longer) = N + 1
    BY <1>2
  <2> HIDE DEF longer
  <2>3. QED
    BY <2>1, <2>2
<1>5. ASSUME NEW k \in 1..N + 1
      PROVE  more[k - 1] \in Modes /\ more[k] = Chmod!Meaning(strings[longer[k]], more[k - 1])
  <2>1. more[k - 1] \in Modes
    BY k - 1 \in 0..N + 1
  <2>2. more[k] = Steps(strings, longer)[k][more[k - 1]]
    BY <1>4 DEF Iterated
  <2>3. QED
    BY <1>2, <2>1, <2>2 DEF Steps
<1>6. Iterated(more, N, InitialMode, Steps(strings, order))
  <2>1. more[0] = InitialMode
    BY <1>4 DEF Iterated
  <2>2. ASSUME NEW k \in 1..N PROVE more[k] = Steps(strings, order)[k][more[k - 1]]
    <3>1. more[k - 1] \in Modes /\ more[k] = Chmod!Meaning(strings[longer[k]], more[k - 1])
      BY <1>5, k \in 1..N + 1
    <3>2. longer[k] = order[k]
      BY <1>2
    <3>3. QED
      BY <1>1, <3>1, <3>2 DEF Steps
  <2>3. QED
    BY <2>1, <2>2 DEF Iterated
<1>7. more[N] = made[N]
  BY <1>3, <1>6, SameIterates
<1>8. more[N + 1] = Chmod!Meaning(strings[p], more[N])
  <2>1. N + 1 \in 1..N + 1 /\ (N + 1) - 1 = N
    OBVIOUS
  <2>2. QED
    BY <1>2, <1>5, <2>1
<1>9. N \in 0..N
  OBVIOUS
<1>10. QED
  BY <1>3, <1>4, <1>7, <1>8, <1>9 DEF longer

LEMMA NoneMade ==
  ASSUME NEW strings, NEW order \in Seq(Runs), Len(order) = 0
  PROVE  Chmod!Makes(strings, order) = InitialMode
<1>1. PICK N \in Nat : N = Len(order)
  BY Len(order) \in Nat
<1>2. PICK made \in [0..N -> Modes] : /\ Iterated(made, N, InitialMode, Steps(strings, order))
                                      /\ Chmod!Makes(strings, order) = made[N]
  BY <1>1, MadeValues
<1>3. N = 0
  BY <1>1
<1>4. QED
  BY <1>2, <1>3 DEF Iterated

(* What a set of runs can make, and with one of the others more.           *)
LEMMA OneMoreRun ==
  ASSUME NEW some \in SUBSET Runs, NEW p \in Runs, p \notin some, NEW m \in Chmod!CanMake(some)
  PROVE  m \in Modes /\ Chmod!Meaning(b[p], m) \in Chmod!CanMake(some \cup {p})
<1>1. PICK order \in Chmod!SetToSeqs(some) : m = Chmod!Makes(b, order)
  BY DEF Chmod!CanMake
<1>2. IsFiniteSet(some)
  <2>1. IsFiniteSet(Runs)
    BY ToolsAssumption
  <2>2. QED
    BY <2>1, FS_Subset
<1>3. PICK N \in Nat : N = Cardinality(some)
  BY <1>2, FS_CardinalityType
<1>4. Cardinality(some \cup {p}) = N + 1
  BY <1>2, <1>3, FS_AddElement
<1>5. Chmod!Cardinality(some) = N /\ Chmod!Cardinality(some \cup {p}) = N + 1
  BY <1>3, <1>4 DEF Chmod!Cardinality, Cardinality
<1>6. order \in [1..N -> some] /\ \A k, l \in 1..N : k # l => order[k] # order[l]
  BY <1>1, <1>5 DEF Chmod!SetToSeqs
<1>7. order \in Seq(Runs) /\ Len(order) = N
  <2>1. \A k \in 1..N : order[k] \in Runs
    BY <1>6
  <2>2. order \in [1..N -> Runs]
    BY <1>6, <2>1
  <2>3. QED
    BY <2>2
<1> DEFINE longer == Append(order, p)
<1>8. longer \in [1..N + 1 -> some \cup {p}]
  <2>1. longer \in Seq(Runs) /\ Len(longer) = N + 1
    BY <1>7
  <2>2. longer[N + 1] = p /\ \A k \in 1..N : longer[k] = order[k] /\ order[k] \in some
    BY <1>6, <1>7
  <2>3. \A k \in 1..N + 1 : k \in 1..N \/ k = N + 1
    OBVIOUS
  <2> HIDE DEF longer
  <2>4. \A k \in 1..N + 1 : longer[k] \in some \cup {p}
    BY <2>2, <2>3
  <2>5. longer \in [1..N + 1 -> Runs]
    BY <2>1
  <2>6. QED
    BY <2>4, <2>5
<1>9. \A k, l \in 1..N + 1 : k # l => longer[k] # longer[l]
  <2>1. longer[N + 1] = p /\ \A k \in 1..N : longer[k] = order[k] /\ order[k] # p
    BY <1>6, <1>7
  <2>2. \A k \in 1..N + 1 : k \in 1..N \/ k = N + 1
    OBVIOUS
  <2> HIDE DEF longer
  <2>3. QED
    BY <1>6, <2>1, <2>2
<1>10. longer \in Chmod!SetToSeqs(some \cup {p})
  <2> HIDE DEF longer
  <2>1. QED
    BY <1>5, <1>8, <1>9 DEF Chmod!SetToSeqs
<1>11. m \in Modes /\ Chmod!Makes(b, longer) = Chmod!Meaning(b[p], m)
  BY <1>1, <1>7, OneMore
<1>12. QED
  BY <1>10, <1>11 DEF Chmod!CanMake

LEMMA NoRun == Chmod!CanMake({}) = {InitialMode}
<1>1. Chmod!SetToSeqs({}) = {<<>>}
  <2>1. Chmod!Cardinality({}) = 0
    BY FS_EmptySet DEF Chmod!Cardinality, Cardinality
  <2>2. 1..0 = {}
    OBVIOUS
  <2>3. Chmod!SetToSeqs({}) = {x \in [{} -> {}] : TRUE}
    BY <2>1, <2>2 DEF Chmod!SetToSeqs
  <2>4. \A x \in [{} -> {}] : x = <<>>
    OBVIOUS
  <2>5. <<>> \in [{} -> {}]
    OBVIOUS
  <2>6. QED
    BY <2>3, <2>4, <2>5
<1>2. Chmod!Makes(b, <<>>) = InitialMode
  BY NoneMade, <<>> \in Seq(Runs), Len(<<>>) = 0
<1>3. QED
  BY <1>1, <1>2 DEF Chmod!CanMake

(* What the invariant says of a run that has read the mode.                *)
HasRead(q) ==
  /\ ~Chmod!IsNumeric(b[q]) /\ Chmod!ValidOperator(b[q]) /\ Chmod!ValidRights(b[q])
  /\ \E some \in SUBSET Chmod!Done : c[q] \in Chmod!CanMake(some)
  /\ q \notin d => c[q] = a

(* A mode string is a sequence.                                            *)
LEMMA StringsAreSequences ==
  ASSUME Chmod!TypeOK, NEW p \in Runs
  PROVE  b[p] \in Seq(Characters)
<1>1. b[p] \in Arguments[p]
  BY DEF Chmod!TypeOK
<1>2. QED
  BY <1>1, ToolsAssumption DEF Characters

(* A run that goes from start to the system call has a well-formed string, *)
(* and sets the mode to what that means; one that reports it has none.     *)
LEMMA Carries ==
  ASSUME NEW s \in Seq(Characters), NEW m \in Modes
  PROVE  /\ Chmod!IsNumeric(s) /\ Chmod!Numeric(s) \subseteq 0..11 =>
              Chmod!WellFormed(s) /\ Chmod!Meaning(s, m) = Chmod!Numeric(s)
         /\ ~Chmod!IsNumeric(s) /\ Chmod!ValidOperator(s) /\ Chmod!ValidRights(s) =>
              Chmod!WellFormed(s) /\ Chmod!Meaning(s, m) = Chmod!Apply(s, m)
         /\ Chmod!IsNumeric(s) /\ ~(Chmod!Numeric(s) \subseteq 0..11) => ~Chmod!WellFormed(s)
         /\ ~Chmod!IsNumeric(s) /\ ~(Chmod!ValidOperator(s) /\ Chmod!ValidRights(s)) =>
              ~Chmod!WellFormed(s)
BY NumericMeans, SymbolicMeans DEF Modes

(* A chmod to what the string of its run means, for a mode that the runs   *)
(* of some have made, and that all have if nobody was overtaken.           *)
LEMMA ChangeKeeps ==
  ASSUME Chmod!IInv, NEW p \in Runs, pc[p] \in {"start", "chmod"}, Chmod!WellFormed(b[p]),
         NEW some \in SUBSET Chmod!Done, NEW m \in Chmod!CanMake(some),
         d = {} => some = Chmod!Done, Chmod!Chmod(p, Chmod!Meaning(b[p], m))
  PROVE  Chmod!IInv'
<1>1. /\ a' = Chmod!Meaning(b[p], m)
      /\ d' = d \cup {q \in Runs \ {p} : pc[q] = "chmod"}
      /\ pc' = [pc EXCEPT ![p] = "done"] /\ b' = b /\ c' = c
  BY DEF Chmod!Chmod, Chmod!Goto
<1>2. /\ pc \in [Runs -> {"start", "chmod", "done", "invalid", "failed"}]
      /\ DOMAIN b = Runs /\ \A q \in Runs : b[q] \in Arguments[q]
      /\ c \in [Runs -> SUBSET (0..11)] /\ d \subseteq Runs
  BY DEF Chmod!IInv, Chmod!TypeOK
<1>3. p \notin Chmod!Done /\ p \notin some /\ Chmod!Done' = Chmod!Done \cup {p}
  BY <1>1, <1>2 DEF Chmod!Done
<1>4. a' \in SUBSET (0..11) /\ a' \in Chmod!CanMake(some \cup {p})
  BY <1>1, <1>3, OneMoreRun, MeaningIsMode DEF Chmod!Done, Modes
<1>5. ASSUME NEW S PROVE Chmod!CanMake(S)' = Chmod!CanMake(S)
  BY <1>1 DEF Chmod!CanMake
<1>6. Chmod!TypeOK'
  <2>1. pc' \in [Runs -> {"start", "chmod", "done", "invalid", "failed"}]
    BY <1>1, <1>2
  <2>2. QED
    BY <1>1, <1>2, <1>4, <2>1 DEF Chmod!TypeOK
<1>7. Chmod!OnlyWellFormed'
  BY <1>1, <1>2 DEF Chmod!IInv, Chmod!OnlyWellFormed
<1>8. Chmod!OneAfterTheOther'
  <2>1. some \cup {p} \in SUBSET (Chmod!Done') /\ some \cup {p} # {}
    BY <1>3
  <2>2. d' = {} => some \cup {p} = Chmod!Done'
    BY <1>1, <1>3
  <2>3. a' \in Chmod!CanMake(some \cup {p})'
    BY <1>4, <1>5
  <2>4. QED
    BY <2>1, <2>2, <2>3 DEF Chmod!OneAfterTheOther
<1>9. ASSUME NEW q \in Runs, pc'[q] = "chmod" PROVE HasRead(q)'
  <2>1. q # p /\ pc[q] = "chmod"
    BY <1>1, <1>2, <1>9
  <2>2. q \in d'
    BY <1>1, <2>1
  <2>3. HasRead(q)
    BY <2>1 DEF Chmod!IInv, HasRead
  <2>4. PICK made \in SUBSET Chmod!Done : c[q] \in Chmod!CanMake(made)
    BY <2>3 DEF HasRead
  <2>5. made \in SUBSET (Chmod!Done') /\ c'[q] \in Chmod!CanMake(made)'
    BY <1>1, <1>3, <1>5, <2>4
  <2>6. QED
    BY <1>1, <2>2, <2>3, <2>5 DEF HasRead
<1>10. QED
  BY <1>6, <1>7, <1>8, <1>9 DEF Chmod!IInv, HasRead

(* A step that leaves the mode and the strings as they are, and ends no    *)
(* run by a chmod.                                                         *)
LEMMA NoChangeKeeps ==
  ASSUME Chmod!OneAfterTheOther, a' = a, b' = b, d' = d, Chmod!Done' = Chmod!Done
  PROVE  /\ Chmod!OneAfterTheOther'
         /\ \A q, S : c[q] \in Chmod!CanMake(S) /\ c'[q] = c[q] =>
              c'[q] \in Chmod!CanMake(S)'
<1>1. ASSUME NEW S PROVE Chmod!CanMake(S)' = Chmod!CanMake(S)
  BY DEF Chmod!CanMake
<1>2. PICK some \in SUBSET Chmod!Done :
        (d = {} => some = Chmod!Done) /\ (some = {} => Chmod!Done = {})
        /\ a \in Chmod!CanMake(some)
  BY DEF Chmod!OneAfterTheOther
<1>3. Chmod!OneAfterTheOther'
  BY <1>1, <1>2 DEF Chmod!OneAfterTheOther
<1>4. QED
  BY <1>1, <1>3

LEMMA ReadKeeps ==
  ASSUME Chmod!IInv, NEW p \in Runs, Chmod!ReadMode(p)
  PROVE  Chmod!IInv'
<1>1. /\ pc[p] = "start" /\ a' = a /\ b' = b /\ d' = d
      /\ ~Chmod!IsNumeric(b[p]) /\ Chmod!ValidOperator(b[p]) /\ Chmod!ValidRights(b[p])
      /\ c' = [c EXCEPT ![p] = a] /\ pc' = [pc EXCEPT ![p] = "chmod"]
  BY DEF Chmod!ReadMode, Chmod!Goto
<1>2. /\ a \subseteq 0..11
      /\ pc \in [Runs -> {"start", "chmod", "done", "invalid", "failed"}]
      /\ DOMAIN b = Runs /\ \A q \in Runs : b[q] \in Arguments[q]
      /\ c \in [Runs -> SUBSET (0..11)] /\ d \subseteq Runs
  BY DEF Chmod!IInv, Chmod!TypeOK
<1>3. Chmod!Done' = Chmod!Done
  BY <1>1, <1>2 DEF Chmod!Done
<1>4. ASSUME NEW S PROVE Chmod!CanMake(S)' = Chmod!CanMake(S)
  BY <1>1 DEF Chmod!CanMake
<1>5. Chmod!TypeOK'
  <2>1. pc' \in [Runs -> {"start", "chmod", "done", "invalid", "failed"}]
    BY <1>1, <1>2
  <2>2. c' \in [Runs -> SUBSET (0..11)]
    BY <1>1, <1>2
  <2>3. QED
    BY <1>1, <1>2, <2>1, <2>2 DEF Chmod!TypeOK
<1>6. Chmod!OnlyWellFormed'
  BY <1>1, <1>2 DEF Chmod!IInv, Chmod!OnlyWellFormed
<1>7. Chmod!OneAfterTheOther /\ Chmod!OneAfterTheOther'
  BY <1>1, <1>3, NoChangeKeeps DEF Chmod!IInv
<1>8. ASSUME NEW q \in Runs, pc'[q] = "chmod" PROVE HasRead(q)'
  <2>1. CASE q = p
    <3>1. c'[q] = a
      BY <1>1, <1>2, <2>1
    <3>2. PICK some \in SUBSET Chmod!Done : a \in Chmod!CanMake(some)
      BY <1>7 DEF Chmod!OneAfterTheOther
    <3>3. some \in SUBSET (Chmod!Done') /\ c'[q] \in Chmod!CanMake(some)'
      BY <1>3, <1>4, <3>1, <3>2
    <3>4. QED
      BY <1>1, <2>1, <3>1, <3>3 DEF HasRead
  <2>2. CASE q # p
    <3>1. pc[q] = "chmod" /\ c'[q] = c[q]
      BY <1>1, <1>2, <1>8, <2>2
    <3>2. HasRead(q)
      BY <3>1 DEF Chmod!IInv, HasRead
    <3>3. PICK made \in SUBSET Chmod!Done : c[q] \in Chmod!CanMake(made)
      BY <3>2 DEF HasRead
    <3>4. made \in SUBSET (Chmod!Done') /\ c'[q] \in Chmod!CanMake(made)'
      BY <1>3, <1>4, <3>1, <3>3
    <3>5. QED
      BY <1>1, <3>1, <3>2, <3>4 DEF HasRead
  <2>3. QED
    BY <2>1, <2>2
<1>9. QED
  BY <1>5, <1>6, <1>7, <1>8 DEF Chmod!IInv, HasRead

(* A run ends without a chmod, or nothing happens.                         *)
LEMMA StopKeeps ==
  ASSUME Chmod!IInv, UNCHANGED <<a, b, c, d>>,
         \/ UNCHANGED pc
         \/ \E p \in Runs : /\ pc[p] \in {"start", "chmod"}
                            /\ \/ pc' = [pc EXCEPT ![p] = "failed"]
                               \/ pc' = [pc EXCEPT ![p] = "invalid"] /\ ~Chmod!WellFormed(b[p])
  PROVE  Chmod!IInv'
<1>1. a' = a /\ b' = b /\ c' = c /\ d' = d
  OBVIOUS
<1>2. /\ a \subseteq 0..11
      /\ pc \in [Runs -> {"start", "chmod", "done", "invalid", "failed"}]
      /\ DOMAIN b = Runs /\ \A q \in Runs : b[q] \in Arguments[q]
      /\ c \in [Runs -> SUBSET (0..11)] /\ d \subseteq Runs
  BY DEF Chmod!IInv, Chmod!TypeOK
<1>3. /\ pc' \in [Runs -> {"start", "chmod", "done", "invalid", "failed"}]
      /\ \A q \in Runs : /\ pc'[q] = "done" <=> pc[q] = "done"
                         /\ pc'[q] = "chmod" => pc[q] = "chmod"
                         /\ pc'[q] = "invalid" => pc[q] = "invalid" \/ ~Chmod!WellFormed(b[q])
  BY <1>2
<1>4. Chmod!Done' = Chmod!Done
  BY <1>3 DEF Chmod!Done
<1>5. ASSUME NEW S PROVE Chmod!CanMake(S)' = Chmod!CanMake(S)
  BY <1>1 DEF Chmod!CanMake
<1>6. Chmod!TypeOK'
  BY <1>1, <1>2, <1>3 DEF Chmod!TypeOK
<1>7. Chmod!OnlyWellFormed'
  BY <1>1, <1>3 DEF Chmod!IInv, Chmod!OnlyWellFormed
<1>8. Chmod!OneAfterTheOther'
  BY <1>1, <1>4, NoChangeKeeps DEF Chmod!IInv
<1>9. ASSUME NEW q \in Runs, pc'[q] = "chmod" PROVE HasRead(q)'
  <2>1. HasRead(q)
    BY <1>3, <1>9 DEF Chmod!IInv, HasRead
  <2>2. PICK made \in SUBSET Chmod!Done : c[q] \in Chmod!CanMake(made)
    BY <2>1 DEF HasRead
  <2>3. made \in SUBSET (Chmod!Done') /\ c'[q] \in Chmod!CanMake(made)'
    BY <1>1, <1>4, <1>5, <2>2
  <2>4. QED
    BY <1>1, <2>1, <2>3 DEF HasRead
<1>10. QED
  BY <1>6, <1>7, <1>8, <1>9 DEF Chmod!IInv, HasRead

LEMMA ChmodNextKeeps ==
  ASSUME Chmod!IInv, [Chmod!Next]_(Chmod!vars)
  PROVE  Chmod!IInv'
<1>1. Chmod!TypeOK /\ \A p \in Runs : b[p] \in Seq(Characters)
  BY StringsAreSequences DEF Chmod!IInv
<1>2. a \in Modes /\ \A p \in Runs : c[p] \in Modes
  BY <1>1 DEF Chmod!TypeOK, Modes
<1>3. PICK some \in SUBSET Chmod!Done : (d = {} => some = Chmod!Done) /\ a \in Chmod!CanMake(some)
  BY DEF Chmod!IInv, Chmod!OneAfterTheOther
<1>4. ASSUME NEW p \in Runs, Chmod!SetNumeric(p) PROVE Chmod!IInv'
  <2>1. /\ pc[p] = "start" /\ Chmod!IsNumeric(b[p]) /\ Chmod!Numeric(b[p]) \subseteq 0..11
        /\ Chmod!Chmod(p, Chmod!Numeric(b[p]))
    BY <1>4 DEF Chmod!SetNumeric
  <2>2. Chmod!WellFormed(b[p]) /\ Chmod!Meaning(b[p], a) = Chmod!Numeric(b[p])
    BY <1>1, <1>2, <2>1, Carries
  <2>3. QED
    BY <1>3, <2>1, <2>2, ChangeKeeps
<1>5. ASSUME NEW p \in Runs, Chmod!WriteMode(p) PROVE Chmod!IInv'
  <2>1. pc[p] = "chmod" /\ Chmod!Chmod(p, Chmod!Apply(b[p], c[p]))
    BY <1>5 DEF Chmod!WriteMode
  <2>2. HasRead(p)
    BY <2>1 DEF Chmod!IInv, HasRead
  <2>3. Chmod!WellFormed(b[p]) /\ Chmod!Meaning(b[p], c[p]) = Chmod!Apply(b[p], c[p])
    BY <1>1, <1>2, <2>2, Carries DEF HasRead
  <2>4. \E made \in SUBSET Chmod!Done : (d = {} => made = Chmod!Done) /\ c[p] \in Chmod!CanMake(made)
    <3>1. CASE p \notin d
      BY <1>3, <2>2, <3>1 DEF HasRead
    <3>2. CASE p \in d
      BY <2>2, <3>2 DEF HasRead
    <3>3. QED
      BY <3>1, <3>2
  <2>5. QED
    BY <2>1, <2>3, <2>4, ChangeKeeps
<1>6. ASSUME NEW p \in Runs, Chmod!InvalidNumber(p) \/ Chmod!InvalidSymbols(p) PROVE Chmod!IInv'
  <2>1. /\ pc[p] = "start" /\ UNCHANGED <<a, b, c, d>> /\ pc' = [pc EXCEPT ![p] = "invalid"]
        /\ IF Chmod!IsNumeric(b[p]) THEN ~(Chmod!Numeric(b[p]) \subseteq 0..11)
           ELSE ~(Chmod!ValidOperator(b[p]) /\ Chmod!ValidRights(b[p]))
    BY <1>6 DEF Chmod!InvalidNumber, Chmod!InvalidSymbols, Chmod!Goto
  <2>2. ~Chmod!WellFormed(b[p])
    BY <1>1, <1>2, <2>1, Carries
  <2>3. QED
    BY <2>1, <2>2, StopKeeps
<1>7. ASSUME NEW p \in Runs, Chmod!Fails(p) PROVE Chmod!IInv'
  BY <1>7, StopKeeps DEF Chmod!Fails, Chmod!Goto
<1>8. CASE UNCHANGED Chmod!vars
  BY <1>8, StopKeeps DEF Chmod!vars
<1>9. QED
  BY <1>4, <1>5, <1>6, <1>7, <1>8, ReadKeeps DEF Chmod!Next, Chmod!AllEnded

LEMMA ChmodInit == ASSUME Chmod!Init PROVE Chmod!IInv
<1>2. /\ a = InitialMode /\ pc = [p \in Runs |-> "start"] /\ c = [p \in Runs |-> {}] /\ d = {}
      /\ DOMAIN b = Runs /\ \A p \in Runs : b[p] \in Arguments[p]
  <2>1. /\ a = InitialMode /\ pc = [p \in Runs |-> "start"] /\ c = [p \in Runs |-> {}] /\ d = {}
    BY DEF Chmod!Init
  <2>2. \A p \in Runs : b[p] \in Arguments[p]
    BY DEF Chmod!Init
  <2>3. DOMAIN b = Runs
    BY DEF Chmod!Init
  <2>4. QED
    BY <2>1, <2>2, <2>3
<1>3. Chmod!TypeOK
  BY <1>2, ToolsAssumption DEF Chmod!TypeOK
<1>4. \A p \in Runs : pc[p] = "start"
  BY <1>2
<1>5. Chmod!Done = {}
  BY <1>4 DEF Chmod!Done
<1>6. Chmod!OneAfterTheOther
  BY <1>2, <1>5, NoRun DEF Chmod!OneAfterTheOther
<1>7. QED
  BY <1>3, <1>4, <1>6 DEF Chmod!IInv, Chmod!OnlyWellFormed

LEMMA ChmodInvariance == Spec => [](program = "mychmod" => Chmod!IInv)
<1>1. Init => (program = "mychmod" => Chmod!IInv)
  BY ChmodInit DEF Init
<1>2. (program = "mychmod" => Chmod!IInv) /\ [Next]_vars => (program = "mychmod" => Chmod!IInv)'
  BY ChmodNextKeeps, OneProgram
<1>3. QED
  BY <1>1, <1>2, PTL DEF Spec

(* Exactly the well-formed mode strings are carried out (mychmod.c:15-31,  *)
(* 43-82, 134-140).                                                        *)
THEOREM ExactlyTheWellFormed == Spec => []OnlyWellFormed
<1>1. Chmod!IInv => Chmod!OnlyWellFormed
  BY DEF Chmod!IInv
<1>2. QED
  BY <1>1, ChmodInvariance, PTL DEF OnlyWellFormed

(* The mode is what the runs done, or after a run was overtaken some of    *)
(* them, make of the first one after the other (mychmod.c:36-41, 85-111).  *)
THEOREM ChangesAreWhole == Spec => []OneAfterTheOther
<1>1. Chmod!IInv => Chmod!OneAfterTheOther
  BY DEF Chmod!IInv
<1>2. QED
  BY <1>1, ChmodInvariance, PTL DEF OneAfterTheOther

-----------------------------------------------------------------------------
(* Lab 9.                                                                  *)
LEMMA NextPiece == \A n \in 1..Pieces : n < Pieces => n + 1 \in 1..Pieces
BY ToolsAssumption

LEMMA ThreadsInit == Threads!Init => Threads!IInv
BY ToolsAssumption
   DEF Threads!Init, Threads!IInv, Threads!TypeOK, Threads!Unborn, Threads!Exclusion,
       Threads!BufferIsCurrent, Threads!LineIsCurrent, Threads!Whole

(* A line the reader completes is the last message.                        *)
Current ==
  reader = "read" /\ reader' = "post" => shown' = Threads!Whole(message_counter)

LEMMA ThreadsNextKeeps ==
  Threads!IInv /\ [Threads!Next]_(Threads!vars) => Threads!IInv' /\ Current
<1> SUFFICES ASSUME Threads!IInv, [Threads!Next]_(Threads!vars) PROVE Threads!IInv' /\ Current
  OBVIOUS
<1> USE ToolsAssumption
        DEF Threads!IInv, Threads!TypeOK, Threads!Unborn, Threads!Exclusion,
            Threads!BufferIsCurrent, Threads!LineIsCurrent, Current, Threads!Whole
<1>1. ASSUME Threads!WriterWait PROVE Threads!IInv' /\ Current
  <2>1. /\ writer = "wait" /\ writer' = "write" /\ reader \notin {"read", "post"}
        /\ buffer_semaphore' = 0
        /\ message_counter' = (message_counter + 1) % Numbers
        /\ UNCHANGED <<shared_buffer, reader, at, printed, shown, main>>
    BY <1>1 DEF Threads!WriterWait, Threads!sem_wait
  <2>2. message_counter' \in 0..Numbers - 1
    BY ONLY ToolsAssumption, Threads!IInv, <2>1 DEF Threads!IInv, Threads!TypeOK
  <2>3. Threads!TypeOK'
    BY ONLY Threads!IInv, <2>1, <2>2 DEF Threads!IInv, Threads!TypeOK
  <2>4. Threads!Exclusion'
    BY ONLY <2>1 DEF Threads!Exclusion
  <2>5. Threads!Unborn' /\ Current
    BY <2>1
  <2>6. Threads!BufferIsCurrent' /\ Threads!LineIsCurrent'
    BY <2>1
  <2>7. QED
    BY ONLY <2>3, <2>4, <2>5, <2>6 DEF Threads!IInv
<1>2. ASSUME Threads!WritePiece PROVE Threads!IInv' /\ Current
  <2>1. /\ writer = "write" /\ at.writer \in 1..Pieces
        /\ shared_buffer' = [shared_buffer EXCEPT ![at.writer] = message_counter]
        /\ UNCHANGED <<message_counter, buffer_semaphore, reader, printed, shown, main>>
    BY <1>2 DEF Threads!WritePiece
  <2>2. /\ shared_buffer' \in [1..Pieces -> 0..Numbers - 1]
        /\ \A k \in 1..Pieces : k <= at.writer => shared_buffer'[k] = message_counter
    <3>1. message_counter \in 0..Numbers - 1
      OBVIOUS
    <3>2. shared_buffer' \in [1..Pieces -> 0..Numbers - 1]
      BY <2>1, <3>1
    <3>3. ASSUME NEW k \in 1..Pieces, k <= at.writer
          PROVE  shared_buffer'[k] = message_counter
      <4>1. CASE k = at.writer
        BY <2>1, <4>1
      <4>2. CASE k # at.writer
        BY <2>1, <3>3, <4>2
      <4>3. QED
        BY <4>1, <4>2
    <3>4. QED
      BY <3>2, <3>3
  <2>3. CASE at.writer < Pieces
    <3>1. at' = [at EXCEPT !.writer = @ + 1] /\ writer' = "write"
      BY <1>2, <2>1, <2>3 DEF Threads!WritePiece
    <3>2. at' \in [writer : 1..Pieces, reader : 1..Pieces]
          /\ at'.writer = at.writer + 1 /\ at'.reader = at.reader
      <4>1. at.writer + 1 \in 1..Pieces
        BY <2>1, <2>3, NextPiece
      <4>2. QED
        BY <3>1, <4>1
    <3>3. Threads!BufferIsCurrent'
      BY <2>1, <2>2, <3>1, <3>2
    <3>4. QED
      BY <2>1, <2>2, <3>1, <3>2, <3>3
  <2>4. CASE ~ (at.writer < Pieces)
    <3>1. at' = [at EXCEPT !.writer = 1] /\ writer' = "post"
      BY <1>2, <2>1, <2>4 DEF Threads!WritePiece
    <3>2. at' \in [writer : 1..Pieces, reader : 1..Pieces]
          /\ at'.writer = 1 /\ at'.reader = at.reader
      BY <3>1
    <3>3. shared_buffer' = [k \in 1..Pieces |-> message_counter]
      <4>1. \A k \in 1..Pieces : shared_buffer'[k] = message_counter
        BY <2>1, <2>2, <2>4
      <4>2. QED
        BY <2>2, <4>1
    <3>4. QED
      BY <2>1, <2>2, <3>1, <3>2, <3>3
  <2>5. QED
    BY <2>3, <2>4
<1>3. ASSUME Threads!WriterPost PROVE Threads!IInv' /\ Current
  BY <1>3 DEF Threads!WriterPost, Threads!sem_post
<1>4. ASSUME Threads!WriterWake PROVE Threads!IInv' /\ Current
  BY <1>4 DEF Threads!WriterWake
<1>5. ASSUME Threads!ReaderWait PROVE Threads!IInv' /\ Current
  BY <1>5 DEF Threads!ReaderWait, Threads!sem_wait
<1>6. ASSUME Threads!ReadPiece PROVE Threads!IInv' /\ Current
  <2> DEFINE line == Append(printed, shared_buffer[at.reader])
  <2>1. /\ reader = "read" /\ at.reader \in 1..Pieces
        /\ shared_buffer = [k \in 1..Pieces |-> message_counter]
        /\ UNCHANGED <<shared_buffer, message_counter, buffer_semaphore, writer, main>>
    BY <1>6 DEF Threads!ReadPiece
  <2>2. /\ line \in Seq(0..Numbers - 1) /\ Len(line) = at.reader
        /\ \A k \in 1..Len(line) : line[k] = message_counter
    BY <2>1
  <2>3. CASE at.reader < Pieces
    <3>1. at' = [at EXCEPT !.reader = @ + 1] /\ printed' = line
          /\ UNCHANGED <<shown, reader>>
      BY <1>6, <2>3 DEF Threads!ReadPiece
    <3>2. at' \in [writer : 1..Pieces, reader : 1..Pieces]
          /\ at'.reader = at.reader + 1 /\ at'.writer = at.writer
      <4>1. at.reader + 1 \in 1..Pieces
        BY <2>1, <2>3, NextPiece
      <4>2. QED
        BY <3>1, <4>1
    <3> HIDE DEF line
    <3>3. Threads!LineIsCurrent'
      <4>1. Len(printed') = at'.reader - 1
        BY ONLY ToolsAssumption, <2>1, <2>2, <3>1, <3>2
      <4>2. reader' = "read"
        BY <2>1, <3>1
      <4>3. \A k \in 1..Len(printed') : printed'[k] = message_counter'
        BY ONLY <2>1, <2>2, <3>1
      <4>4. QED
        BY ONLY <4>1, <4>2, <4>3 DEF Threads!LineIsCurrent
    <3>4. Threads!BufferIsCurrent'
      BY <2>1, <3>2
    <3>5. QED
      BY <2>1, <2>2, <3>1, <3>2, <3>3, <3>4
  <2>4. CASE ~ (at.reader < Pieces)
    <3>1. at' = [at EXCEPT !.reader = 1] /\ printed' = <<>> /\ shown' = line
          /\ reader' = "post"
      BY <1>6, <2>4 DEF Threads!ReadPiece
    <3>2. at' \in [writer : 1..Pieces, reader : 1..Pieces]
          /\ at'.reader = 1 /\ at'.writer = at.writer
      BY <3>1
    <3> HIDE DEF line
    <3>3. line = [k \in 1..Pieces |-> message_counter]
      BY <2>1, <2>2, <2>4
    <3>4. Threads!LineIsCurrent' /\ Threads!BufferIsCurrent'
      BY <2>1, <3>1, <3>2
    <3>5. Threads!TypeOK'
      BY <2>1, <3>1, <3>2, <3>3
    <3>6. QED
      BY <2>1, <3>1, <3>2, <3>3, <3>4, <3>5
  <2>5. QED
    BY <2>3, <2>4
<1>7. ASSUME Threads!ReaderPost PROVE Threads!IInv' /\ Current
  BY <1>7 DEF Threads!ReaderPost, Threads!sem_post
<1>8. ASSUME Threads!MainStep PROVE Threads!IInv' /\ Current
  BY <1>8 DEF Threads!MainStep, Threads!MainProceeds, Threads!MainFails
<1>9. CASE UNCHANGED Threads!vars
  BY <1>9 DEF Threads!vars
<1>10. QED
  BY <1>1, <1>2, <1>3, <1>4, <1>5, <1>6, <1>7, <1>8, <1>9
     DEF Threads!Next, Threads!WriterStep, Threads!ReaderStep, Threads!Exited

LEMMA ThreadsInvariance == Spec => [](Threads!IInv)
<1>1. Init => Threads!IInv
  BY ThreadsInit DEF Init
<1>2. Threads!IInv /\ [Next]_vars => Threads!IInv'
  BY ThreadsNextKeeps, OneProgram
<1>3. QED
  BY <1>1, <1>2, PTL DEF Spec

(* The reader only completes lines that hold the last message as a whole,  *)
(* in however many pieces they are written and read                        *)
(* (thread_example.c:19-37, 48-60).                                        *)
THEOREM OnlyCurrentLines == Spec => LinesAreCurrent
<1>1. Threads!IInv /\ [Next]_vars => [Current]_(Threads!vars)
  BY ThreadsNextKeeps, OneProgram
<1>2. QED
  BY <1>1, ThreadsInvariance, PTL DEF Spec, LinesAreCurrent, Threads!LinesAreCurrent, Current

-----------------------------------------------------------------------------
(* Each program keeps to its types, and only one of the first two has the  *)
(* memory; the semaphore of the threads is 0 or 1.                         *)
THEOREM TypesAreKept == Spec => []TypeOK
<1> DEFINE Inv == /\ program \in {"mycat_or_mygrep", "mychmod", "threads"}
                  /\ program = "threads" => NoMemory
           Proved == /\ program = "mycat_or_mygrep" => Text!IInv
                     /\ program = "mychmod" => Chmod!IInv
                     /\ Threads!IInv
<1>1. Init => Inv
  BY DEF Init
<1>2. Inv /\ [Next]_vars => Inv'
  BY OneProgram DEF NoMemory, Unused, memory
<1>3. Inv /\ Proved => TypeOK
  BY DEF TypeOK, Text!IInv, Chmod!IInv, Threads!IInv
<1>4. Spec => []Proved
  BY TextInvariance, ChmodInvariance, ThreadsInvariance, PTL
<1>5. QED
  BY <1>1, <1>2, <1>3, <1>4, PTL DEF Spec
=============================================================================
