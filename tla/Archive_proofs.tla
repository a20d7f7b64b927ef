--------------------------- MODULE Archive_proofs ---------------------------
(***************************************************************************)
(* Theorems about Archive, for any set of paths and contents and archives  *)
(* of any size.  An archive is cut into whole records: what a reader finds *)
(* in two parts that consist of whole records is what it finds in the one  *)
(* and then in the other, so every step is an equation between sequences.  *)
(***************************************************************************)
EXTENDS Archive, FiniteSetTheorems, SequenceTheorems, TLAPS

-----------------------------------------------------------------------------
(* A set of naturals that is not empty has a least element.                *)
LEMMA LeastElement ==
  ASSUME NEW S, S \subseteq Nat, S # {}
  PROVE  \E n \in S : \A m \in S : n <= m
<1> DEFINE Below(n) == {m \in S : m < n}
           Belows == {Below(n) : n \in S}
<1>1. \A n \in S : Below(n) \in FiniteSubsetsOf(S)
  <2>1. TAKE n \in S
  <2>2. IsFiniteSet(Below(n))
    BY FS_BoundedSetOfNaturals
  <2>3. QED
    BY <2>2 DEF FiniteSubsetsOf
<1>2. PICK B \in Belows : \A C \in Belows : <<C, B>> \notin StrictSubsetOrdering(S)
  <2>1. Belows \subseteq FiniteSubsetsOf(S) /\ Belows # {}
    BY <1>1
  <2>2. QED
    BY <2>1, FS_StrictSubsetOrderingWellFounded, WFMin
<1>3. PICK n \in S : B = Below(n)
  OBVIOUS
<1>4. ASSUME NEW m \in S, m < n PROVE FALSE
  <2>1. Below(m) \subseteq Below(n) /\ Below(m) # Below(n)
    <3>1. m \in Nat /\ n \in Nat
      OBVIOUS
    <3>2. \A x \in S : x \in Nat /\ (x < m => x < n)
      BY <3>1, <1>4
    <3>3. m \in Below(n) /\ m \notin Below(m)
      BY <3>1, <1>4
    <3>4. QED
      BY <3>2, <3>3
  <2>2. <<Below(m), Below(n)>> \in StrictSubsetOrdering(S)
    BY <2>1 DEF StrictSubsetOrdering
  <2>3. QED
    BY <2>2, <1>2, <1>3
<1>5. QED
  BY <1>4

(* Induction from the last number down to the first.                       *)
LEMMA Downwards ==
  ASSUME NEW N \in Nat, NEW S,
         \A k \in 1..N : (\A j \in k + 1..N : j \in S) => k \in S
  PROVE  1..N \subseteq S
<1> DEFINE Bad == {n \in 0..N - 1 : N - n \notin S}
<1>1. SUFFICES ASSUME Bad # {} PROVE FALSE
  <2>1. ASSUME Bad = {}, NEW k \in 1..N PROVE k \in S
    <3>1. N - k \in 0..N - 1 /\ N - (N - k) = k
      OBVIOUS
    <3>2. QED
      BY <3>1, <2>1
  <2>2. QED
    BY <2>1
<1>2. PICK n \in Bad : \A m \in Bad : n <= m
  <2>1. Bad \subseteq Nat
    OBVIOUS
  <2>2. QED
    BY <1>1, <2>1, LeastElement
<1>3. \A j \in N - n + 1..N : j \in S
  <2>1. ASSUME NEW j \in N - n + 1..N PROVE j \in S
    <3>1. N - j \in 0..N - 1 /\ N - j < n /\ N - (N - j) = j
      OBVIOUS
    <3>2. N - j \notin Bad
      BY <3>1, <1>2
    <3>3. QED
      BY <3>1, <3>2
  <2>2. QED
    BY <2>1
<1>4. N - n \in 1..N
  OBVIOUS
<1>5. QED
  BY <1>3, <1>4

-----------------------------------------------------------------------------
(* Cells and parts of sequences.                                           *)

LEMMA CellFacts ==
  /\ \A cell \in HeaderCells :
       /\ IsHeader(cell) /\ cell.path \in Names /\ cell.size \in Nat /\ cell.size < MaxCells
       /\ cell.marked_deleted \in BOOLEAN
  /\ \A cell \in Cells : IsHeader(cell) => cell \in HeaderCells
  /\ \A n \in Names, size \in 0..MaxCells - 1 :
       Header(n, size) \in HeaderCells /\ ~Header(n, size).marked_deleted
       /\ Header(n, size).path = n /\ Header(n, size).size = size
  /\ Fragment \in Cells /\ ~IsHeader(Fragment)
  /\ HeaderCells \subseteq Cells
<1>1. \A cell \in HeaderCells :
       /\ IsHeader(cell) /\ cell.path \in Names /\ cell.size \in Nat /\ cell.size < MaxCells
       /\ cell.marked_deleted \in BOOLEAN
  <2>1. TAKE cell \in HeaderCells
  <2>2. cell.kind \in {"header"} /\ cell.path \in Names /\ cell.size \in 0..MaxCells - 1
        /\ cell.marked_deleted \in BOOLEAN
    BY Zenon DEF HeaderCells
  <2>3. QED
    BY <2>2, ArchiveAssumption DEF IsHeader
<1>2. ~IsHeader(Fragment)
  BY DEF Fragment, IsHeader, Data
<1>3. \A cell \in Cells : IsHeader(cell) => cell \in HeaderCells
  BY <1>2, ArchiveAssumption DEF Cells
<1>4. \A n \in Names, size \in 0..MaxCells - 1 :
       Header(n, size) \in HeaderCells /\ ~Header(n, size).marked_deleted
       /\ Header(n, size).path = n /\ Header(n, size).size = size
  BY DEF Header, HeaderCells
<1>5. QED
  BY <1>1, <1>2, <1>3, <1>4 DEF Cells

LEMMA PartFacts ==
  ASSUME NEW S, NEW a \in Seq(S), NEW first \in 1..Len(a) + 1, NEW n \in Nat,
         first + n - 1 <= Len(a)
  PROVE  /\ Part(a, first, n) \in Seq(S)
         /\ Len(Part(a, first, n)) = n
         /\ \A i \in 1..n : Part(a, first, n)[i] = a[first + i - 1]
<1>1. \A i \in first..first + n - 1 : a[i] \in S
  BY ElementOfSeq
<1>2. QED
  BY <1>1, SubSeqProperties DEF Part

LEMMA BeforeFacts ==
  ASSUME NEW S, NEW a \in Seq(S), NEW p \in 1..Len(a) + 1
  PROVE  /\ Before(a, p) \in Seq(S)
         /\ Len(Before(a, p)) = p - 1
         /\ \A i \in 1..p - 1 : Before(a, p)[i] = a[i]
<1>1. p - 1 \in Nat /\ 1 \in 1..Len(a) + 1 /\ 1 + (p - 1) - 1 <= Len(a)
  OBVIOUS
<1>2. QED
  BY <1>1, PartFacts DEF Before

LEMMA Split ==
  ASSUME NEW S, NEW a \in Seq(S), NEW p \in 1..Len(a) + 1, NEW q \in p..Len(a) + 1
  PROVE  Before(a, q) = Before(a, p) \o Part(a, p, q - p)
<1>1. 1 \in 1..Len(a) + 1 /\ p - 1 \in 0..Len(a) /\ q - 1 \in p - 1..Len(a)
  OBVIOUS
<1>2. SubSeq(a, 1, p - 1) \o SubSeq(a, (p - 1) + 1, q - 1) = SubSeq(a, 1, q - 1)
  BY <1>1, ConcatAdjacentSubSeq
<1>3. 1 + (p - 1) - 1 = p - 1 /\ 1 + (q - 1) - 1 = q - 1 /\ (p - 1) + 1 = p /\ p + (q - p) - 1 = q - 1
  OBVIOUS
<1>4. QED
  BY <1>2, <1>3 DEF Before, Part

LEMMA BeforeAll == ASSUME NEW S, NEW a \in Seq(S) PROVE Before(a, Len(a) + 1) = a
<1>1. 1 + (Len(a) + 1 - 1) - 1 = Len(a)
  OBVIOUS
<1>2. QED
  BY <1>1, SubSeqFull DEF Before, Part

(* A part of two sequences one after the other that lies in one of them.   *)
LEMMA PartOfFirst ==
  ASSUME NEW S, NEW a \in Seq(S), NEW b \in Seq(S), NEW k \in 1..Len(a) + 1, NEW n \in Nat,
         k + n - 1 <= Len(a)
  PROVE  Part(a \o b, k, n) = Part(a, k, n)
<1>1. a \o b \in Seq(S) /\ Len(a \o b) = Len(a) + Len(b)
      /\ \A i \in 1..Len(a) : (a \o b)[i] = a[i]
  BY ConcatProperties
<1>2. Part(a, k, n) \in Seq(S) /\ Len(Part(a, k, n)) = n
      /\ \A i \in 1..n : Part(a, k, n)[i] = a[k + i - 1]
  BY PartFacts
<1>3. Part(a \o b, k, n) \in Seq(S) /\ Len(Part(a \o b, k, n)) = n
      /\ \A i \in 1..n : Part(a \o b, k, n)[i] = (a \o b)[k + i - 1]
  <2> DEFINE c == a \o b
  <2>1. c \in Seq(S) /\ k \in 1..Len(c) + 1 /\ k + n - 1 <= Len(c)
    BY <1>1
  <2> HIDE DEF c
  <2>2. Part(c, k, n) \in Seq(S) /\ Len(Part(c, k, n)) = n
        /\ \A i \in 1..n : Part(c, k, n)[i] = c[k + i - 1]
    BY <2>1, PartFacts
  <2>3. QED
    BY <2>2 DEF c
<1>4. \A i \in 1..n : k + i - 1 \in 1..Len(a)
  OBVIOUS
<1>5. QED
  BY <1>1, <1>2, <1>3, <1>4, SeqEqual

LEMMA PartOfSecond ==
  ASSUME NEW S, NEW a \in Seq(S), NEW b \in Seq(S), NEW k \in 1..Len(b) + 1, NEW n \in Nat,
         k + n - 1 <= Len(b)
  PROVE  Part(a \o b, Len(a) + k, n) = Part(b, k, n)
<1>1. a \o b \in Seq(S) /\ Len(a \o b) = Len(a) + Len(b)
      /\ \A i \in 1..Len(b) : (a \o b)[Len(a) + i] = b[i]
  <2>1. \A i \in 1..Len(b) : Len(a) + i \in 1..Len(a) + Len(b) /\ ~(Len(a) + i <= Len(a))
                             /\ Len(a) + i - Len(a) = i
    OBVIOUS
  <2>2. QED
    BY <2>1, ConcatProperties
<1>2. Part(b, k, n) \in Seq(S) /\ Len(Part(b, k, n)) = n
      /\ \A i \in 1..n : Part(b, k, n)[i] = b[k + i - 1]
  BY PartFacts
<1> DEFINE p == Len(a) + k
<1>3. Part(a \o b, p, n) \in Seq(S) /\ Len(Part(a \o b, p, n)) = n
      /\ \A i \in 1..n : Part(a \o b, p, n)[i] = (a \o b)[p + i - 1]
  <2> DEFINE c == a \o b
  <2>1. c \in Seq(S) /\ p \in 1..Len(c) + 1 /\ p + n - 1 <= Len(c)
    BY <1>1
  <2> HIDE DEF p, c
  <2>2. Part(c, p, n) \in Seq(S) /\ Len(Part(c, p, n)) = n
        /\ \A i \in 1..n : Part(c, p, n)[i] = c[p + i - 1]
    BY <2>1, PartFacts
  <2>3. QED
    BY <2>2 DEF c
<1>4. \A i \in 1..n : k + i - 1 \in 1..Len(b) /\ p + i - 1 = Len(a) + (k + i - 1)
  OBVIOUS
<1>5. \A i \in 1..n : Part(a \o b, p, n)[i] = Part(b, k, n)[i]
  <2> HIDE DEF p
  <2>1. QED
    BY <1>1, <1>2, <1>3, <1>4
<1>6. QED
  BY <1>2, <1>3, <1>5, SeqEqual

-----------------------------------------------------------------------------
(* The reader.  What it finds is defined by recursion; the definition is   *)
(* its equation.                                                           *)

LEMMA RecordsUnfold ==
  ASSUME NEW cells, Len(cells) \in Nat,
         \A k \in 1..Len(cells) : IsRecord(cells, k) => After(cells, k) \in k + 1..Len(cells) + 1
  PROVE  Records(cells) = [k \in 1..Len(cells) + 1 |->
           IF IsRecord(cells, k) THEN RecordAt(cells, k) \o Records(cells)[After(cells, k)] ELSE <<>>]
<1> DEFINE N == Len(cells) + 1
           Def(g, m) == g = [k \in m..N |->
             IF IsRecord(cells, k) THEN RecordAt(cells, k) \o g[After(cells, k)] ELSE <<>>]
           Good == {m \in 1..N : \E g : Def(g, m)}
<1>0. \A m \in 1..N : \A g : Def(g, m) => m \in Good
  <2> HIDE DEF Def
  <2>1. QED
    OBVIOUS
<1>1. N \in Good
  <2>1. ~IsRecord(cells, N)
    BY DEF IsRecord
  <2>2. Def([k \in N..N |-> <<>>], N)
    BY <2>1
  <2>3. QED
    <3> HIDE DEF Def, Good
    <3>1. N \in 1..N
      OBVIOUS
    <3>2. QED
      BY <2>2, <1>0, <3>1
<1>2. PICK m \in Good : \A n \in Good : m <= n
  <2>1. Good \subseteq Nat
    OBVIOUS
  <2>2. QED
    BY <1>1, <2>1, LeastElement
<1>3. ASSUME m # 1 PROVE FALSE
  <2>1. PICK g : Def(g, m)
    BY <1>2
  <2> DEFINE h == [k \in m - 1..N |-> IF k = m - 1
       THEN IF IsRecord(cells, k) THEN RecordAt(cells, k) \o g[After(cells, k)] ELSE <<>>
       ELSE g[k]]
  <2>2. m \in 2..N /\ m - 1 \in 1..Len(cells)
    BY <1>3
  <2>3. \A k \in m - 1..N : IsRecord(cells, k) => After(cells, k) \in m..N /\ After(cells, k) # m - 1
    <3>1. TAKE k \in m - 1..N
    <3>2. CASE k \in 1..Len(cells)
      BY <3>2, <2>2
    <3>3. CASE k = N
      BY <3>3 DEF IsRecord
    <3>4. k \in 1..Len(cells) \/ k = N
      BY <2>2
    <3>5. QED
      BY <3>2, <3>3, <3>4
  <2>4. \A k \in m - 1..N : IsRecord(cells, k) => h[After(cells, k)] = g[After(cells, k)]
    BY <2>3, <2>2
  <2>5. \A k \in m..N : h[k] = g[k]
    BY <2>2
  <2>6. \A k \in m..N : g[k] = IF IsRecord(cells, k) THEN RecordAt(cells, k) \o g[After(cells, k)] ELSE <<>>
    BY <2>1
  <2>7. \A k \in m - 1..N : h[k] = IF IsRecord(cells, k) THEN RecordAt(cells, k) \o h[After(cells, k)] ELSE <<>>
    <3>1. TAKE k \in m - 1..N
    <3>2. CASE k = m - 1
      BY <3>2, <2>4
    <3>3. CASE k \in m..N
      BY <3>3, <2>4, <2>5, <2>6
    <3>4. k = m - 1 \/ k \in m..N
      BY <2>2
    <3>5. QED
      BY <3>2, <3>3, <3>4
  <2>8. Def(h, m - 1)
    BY <2>7
  <2>9. m - 1 \in Good
    <3> HIDE DEF Def, Good, h
    <3>1. m - 1 \in 1..N
      BY <2>2
    <3>2. QED
      BY <2>8, <3>1, <1>0
  <2>10. QED
    <3> HIDE DEF Good
    <3>1. QED
      BY <2>9, <1>2, <2>2
<1>4. \E g : Def(g, 1)
  BY <1>2, <1>3
<1>5. Records(cells) = CHOOSE g : Def(g, 1)
  BY DEF Records
<1>6. Def(Records(cells), 1)
  <2> HIDE DEF Def
  <2>1. QED
    BY <1>4, <1>5
<1>7. QED
  BY <1>6

(* A header leads beyond itself.                                           *)
LEMMA HeaderFacts ==
  ASSUME NEW cells \in Seq(Cells), NEW k \in 1..Len(cells), IsHeader(cells[k])
  PROVE  /\ cells[k] \in HeaderCells /\ cells[k].path \in Names
         /\ cells[k].size \in Nat /\ cells[k].size < MaxCells
         /\ cells[k].marked_deleted \in BOOLEAN
         /\ After(cells, k) \in Nat /\ After(cells, k) > k
         /\ IsRecord(cells, k) <=> After(cells, k) <= Len(cells) + 1
<1>1. cells[k] \in Cells
  BY ElementOfSeq
<1>2. cells[k] \in HeaderCells /\ cells[k].size \in Nat
  BY <1>1, CellFacts
<1>3. QED
  BY <1>2, CellFacts DEF After, IsRecord

LEMMA ReaderStep ==
  ASSUME NEW cells \in Seq(Cells), NEW k \in 1..Len(cells) + 1
  PROVE  Records(cells)[k] =
           IF IsRecord(cells, k) THEN RecordAt(cells, k) \o Records(cells)[After(cells, k)]
           ELSE <<>>
<1>1. ASSUME NEW j \in 1..Len(cells), IsRecord(cells, j)
      PROVE  After(cells, j) \in j + 1..Len(cells) + 1
  <2>1. IsHeader(cells[j])
    BY <1>1 DEF IsRecord
  <2>2. QED
    BY <1>1, <2>1, HeaderFacts
<1>2. Records(cells) = [i \in 1..Len(cells) + 1 |->
        IF IsRecord(cells, i) THEN RecordAt(cells, i) \o Records(cells)[After(cells, i)] ELSE <<>>]
  BY <1>1, RecordsUnfold, LenProperties
<1>3. QED
  BY <1>2

RecordSet == [path : Names, text : Seq(Cells)]

LEMMA RecordFacts ==
  ASSUME NEW cells \in Seq(Cells), NEW k \in 1..Len(cells), IsRecord(cells, k)
  PROVE  /\ RecordAt(cells, k) \in Seq(RecordSet)
         /\ After(cells, k) \in k + 1..Len(cells) + 1
<1>1. IsHeader(cells[k])
  BY DEF IsRecord
<1>2. After(cells, k) \in k + 1..Len(cells) + 1
  BY <1>1, HeaderFacts
<1>3. Part(cells, k + 1, cells[k].size) \in Seq(Cells)
  <2>1. k + 1 \in 1..Len(cells) + 1 /\ (k + 1) + cells[k].size - 1 <= Len(cells)
    BY <1>1, <1>2, HeaderFacts DEF After
  <2>2. QED
    BY <1>1, <2>1, HeaderFacts, PartFacts
<1>4. [path |-> cells[k].path, text |-> Part(cells, k + 1, cells[k].size)] \in RecordSet
  BY <1>1, <1>3, HeaderFacts DEF RecordSet
<1>5. QED
  BY <1>2, <1>4 DEF RecordAt

LEMMA RecordsType ==
  ASSUME NEW cells \in Seq(Cells), NEW k \in 1..Len(cells) + 1
  PROVE  Records(cells)[k] \in Seq(RecordSet)
<1> DEFINE N == Len(cells) + 1
           S == {j \in 1..N : Records(cells)[j] \in Seq(RecordSet)}
<1>1. ASSUME NEW j \in 1..N, \A i \in j + 1..N : i \in S PROVE j \in S
  <2>1. CASE IsRecord(cells, j)
    <3>1. j \in 1..Len(cells)
      BY <2>1, LenProperties DEF IsRecord
    <3>2. RecordAt(cells, j) \in Seq(RecordSet) /\ After(cells, j) \in j + 1..N
      BY <2>1, <3>1, RecordFacts
    <3>3. Records(cells)[After(cells, j)] \in Seq(RecordSet)
      BY <1>1, <3>2
    <3>4. Records(cells)[j] = RecordAt(cells, j) \o Records(cells)[After(cells, j)]
      BY <2>1, ReaderStep
    <3>5. QED
      BY <3>2, <3>3, <3>4, ConcatProperties
  <2>2. CASE ~IsRecord(cells, j)
    <3>1. Records(cells)[j] = <<>>
      BY <2>2, ReaderStep
    <3>2. QED
      BY <3>1, EmptySeq
  <2>3. QED
    BY <2>1, <2>2
<1>2. N \in Nat /\ 1..N \subseteq S
  <2>1. N \in Nat
    BY LenProperties
  <2> HIDE DEF N, S
  <2>2. QED
    BY <2>1, <1>1, Downwards
<1>3. QED
  BY <1>2

(* What follows is read as if it stood alone.                              *)
LEMMA Shift ==
  ASSUME NEW a \in Seq(Cells), NEW b \in Seq(Cells), NEW k \in 1..Len(b) + 1
  PROVE  Records(a \o b)[Len(a) + k] = Records(b)[k]
<1> DEFINE c == a \o b
           M == Len(a)
           N == Len(b) + 1
           S == {j \in 1..N : Records(c)[M + j] = Records(b)[j]}
<1>1. c \in Seq(Cells) /\ Len(c) = M + Len(b) /\ M \in Nat /\ N \in Nat
      /\ \A i \in 1..Len(b) : c[M + i] = b[i]
  <2>1. \A i \in 1..Len(b) : Len(a) + i \in 1..Len(a) + Len(b) /\ ~(Len(a) + i <= Len(a))
                             /\ Len(a) + i - Len(a) = i
    BY LenProperties
  <2>2. QED
    BY <2>1, ConcatProperties, LenProperties
<1>2. ASSUME NEW j \in 1..N, \A i \in j + 1..N : i \in S PROVE j \in S
  <2>1. M + j \in 1..Len(c) + 1
    BY <1>1
  <2>2. CASE IsRecord(b, j)
    <3>1. j \in 1..Len(b) /\ IsHeader(b[j])
      BY <2>2, <1>1 DEF IsRecord
    <3>2. c[M + j] = b[j] /\ b[j].size \in Nat /\ After(b, j) \in j + 1..N
      BY <1>1, <3>1, <2>2, HeaderFacts, RecordFacts
    <3>3. After(c, M + j) = M + After(b, j) /\ IsRecord(c, M + j)
      <4> DEFINE size == b[j].size
      <4>1. size \in Nat /\ c[M + j].size = size /\ IsHeader(c[M + j]) /\ j + 1 + size <= N
        BY <3>1, <3>2 DEF After
      <4> HIDE DEF size, c, M
      <4>2. M + j + 1 + size = M + (j + 1 + size) /\ M + j <= Len(c) /\ M + j + size <= Len(c)
        BY <1>1, <3>1, <4>1
      <4>3. IsRecord(c, M + j)
        BY <4>1, <4>2 DEF IsRecord
      <4>4. After(b, j) = j + 1 + size
        BY DEF After, size
      <4>5. QED
        BY <4>1, <4>2, <4>3, <4>4 DEF After
    <3>4. RecordAt(c, M + j) = RecordAt(b, j)
      <4>1. (M + j) + 1 = Len(a) + (j + 1) /\ j + 1 \in 1..Len(b) + 1
            /\ (j + 1) + b[j].size - 1 <= Len(b)
        <5> DEFINE size == b[j].size
        <5>1. size \in Nat /\ j + 1 + size <= N
          BY <3>2 DEF After
        <5> HIDE DEF size
        <5>2. (M + j) + 1 = M + (j + 1) /\ j + 1 \in 1..Len(b) + 1 /\ (j + 1) + size - 1 <= Len(b)
          BY <1>1, <3>1, <5>1
        <5>3. QED
          BY <5>2 DEF size
      <4>2. Part(a \o b, Len(a) + (j + 1), b[j].size) = Part(b, j + 1, b[j].size)
        BY <4>1, <3>2, PartOfSecond
      <4>3. QED
        BY <3>2, <4>1, <4>2 DEF RecordAt
    <3>5. Records(c)[M + After(b, j)] = Records(b)[After(b, j)]
      BY <1>2, <3>2
    <3>6. Records(b)[j] = RecordAt(b, j) \o Records(b)[After(b, j)]
      BY <2>2, ReaderStep
    <3>7. Records(c)[M + j] = RecordAt(c, M + j) \o Records(c)[After(c, M + j)]
      BY <1>1, <2>1, <3>3, ReaderStep
    <3>8. QED
      BY <3>3, <3>4, <3>5, <3>6, <3>7
  <2>3. CASE ~IsRecord(b, j)
    <3>1. ~IsRecord(c, M + j)
      <4>1. CASE j = N
        BY <4>1, <1>1 DEF IsRecord
      <4>2. CASE j \in 1..Len(b) /\ IsHeader(b[j])
        BY <4>2, <1>1, <2>3, HeaderFacts DEF IsRecord
      <4>3. CASE j \in 1..Len(b) /\ ~IsHeader(b[j])
        BY <4>3, <1>1 DEF IsRecord
      <4>4. j = N \/ j \in 1..Len(b)
        BY <1>1
      <4>5. QED
        BY <4>1, <4>2, <4>3, <4>4
    <3>2. Records(b)[j] = <<>>
      BY <2>3, ReaderStep
    <3>3. Records(c)[M + j] = <<>>
      BY <1>1, <2>1, <3>1, ReaderStep
    <3>4. QED
      BY <3>2, <3>3
  <2>4. QED
    BY <2>2, <2>3
<1>3. 1..N \subseteq S
  <2>1. N \in Nat
    BY <1>1
  <2> HIDE DEF N, S
  <2>2. QED
    BY <2>1, <1>2, Downwards
<1>4. QED
  BY <1>3

LEMMA ConcatFacts ==
  ASSUME NEW S, NEW a \in Seq(S), NEW b \in Seq(S)
  PROVE  /\ a \o b \in Seq(S) /\ Len(a \o b) = Len(a) + Len(b)
         /\ Len(a) \in Nat /\ Len(b) \in Nat
         /\ \A i \in 1..Len(a) : (a \o b)[i] = a[i]
         /\ \A i \in 1..Len(b) : (a \o b)[Len(a) + i] = b[i]
<1>1. \A i \in 1..Len(b) : Len(a) + i \in 1..Len(a) + Len(b) /\ ~(Len(a) + i <= Len(a))
                           /\ Len(a) + i - Len(a) = i
  BY LenProperties
<1>2. QED
  BY <1>1, ConcatProperties, LenProperties

LEMMA Associative ==
  \A x, y, z \in Seq(RecordSet) : (x \o y) \o z = x \o (y \o z)
BY ConcatAssociative

LEMMA AssociativeCells ==
  \A x, y, z \in Seq(Cells) : (x \o y) \o z = x \o (y \o z)
BY ConcatAssociative

(* Whole records in front are read as if they stood alone.                 *)
LEMMA JoinRecords ==
  ASSUME NEW a \in Seq(Cells), NEW b \in Seq(Cells), Whole(a)
  PROVE  Records(a \o b)[1] = Records(a)[1] \o Records(b)[1]
<1> DEFINE c == a \o b
           N == Len(a) + 1
           Done == {j \in 1..N : j \in Begins(a) => Records(c)[j] = Records(a)[j] \o Records(b)[1]}
<1>1. /\ c \in Seq(Cells) /\ Len(c) = Len(a) + Len(b) /\ Len(a) \in Nat /\ Len(b) \in Nat
      /\ \A i \in 1..Len(a) : c[i] = a[i]
  BY ConcatFacts
<1>2. Records(b)[1] \in Seq(RecordSet)
  BY <1>1, RecordsType
<1>3. ASSUME NEW j \in 1..N, \A i \in j + 1..N : i \in Done PROVE j \in Done
  <2>1. CASE j = N
    <3>1. ~IsRecord(a, N)
      BY <1>1 DEF IsRecord
    <3>2. Records(a)[N] = <<>>
      BY <1>1, <3>1, ReaderStep
    <3>3. 1 \in 1..Len(b) + 1
      BY <1>1
    <3>4. Records(c)[N] = Records(b)[1]
      BY <3>3, Shift
    <3>5. QED
      BY <2>1, <3>2, <3>4, <1>2, ConcatEmptySeq
  <2>2. CASE j \in 1..Len(a) /\ IsHeader(a[j])
    <3>1. After(a, j) \in Begins(a)
      BY <2>2 DEF Whole
    <3>2. a[j].size \in Nat /\ After(a, j) \in j + 1..N
      BY <2>2, <3>1, <1>1, HeaderFacts DEF Begins
    <3>3. IsRecord(a, j)
      BY <2>2, <3>2, HeaderFacts
    <3>4. c[j] = a[j] /\ After(c, j) = After(a, j) /\ IsRecord(c, j)
      BY <1>1, <2>2, <3>2, <3>3 DEF After, IsRecord
    <3>5. RecordAt(c, j) = RecordAt(a, j)
      <4>1. j + 1 \in 1..Len(a) + 1 /\ (j + 1) + a[j].size - 1 <= Len(a)
        BY <1>1, <2>2, <3>2 DEF After
      <4>2. Part(a \o b, j + 1, a[j].size) = Part(a, j + 1, a[j].size)
        BY <4>1, <3>2, PartOfFirst
      <4>3. QED
        BY <3>4, <4>2 DEF RecordAt
    <3>6. Records(c)[After(a, j)] = Records(a)[After(a, j)] \o Records(b)[1]
      BY <1>3, <3>1, <3>2
    <3>7. Records(a)[j] = RecordAt(a, j) \o Records(a)[After(a, j)]
      BY <3>3, ReaderStep
    <3>8. Records(c)[j] = RecordAt(a, j) \o (Records(a)[After(a, j)] \o Records(b)[1])
      <4>1. j \in 1..Len(c) + 1
        BY <1>1, <2>2
      <4>2. QED
        BY <1>1, <3>4, <3>5, <3>6, <4>1, ReaderStep
    <3>9. RecordAt(a, j) \in Seq(RecordSet) /\ Records(a)[After(a, j)] \in Seq(RecordSet)
      BY <2>2, <3>2, <3>3, RecordFacts, RecordsType
    <3>10. Records(c)[j] = Records(a)[j] \o Records(b)[1]
      <4>1. (RecordAt(a, j) \o Records(a)[After(a, j)]) \o Records(b)[1]
              = RecordAt(a, j) \o (Records(a)[After(a, j)] \o Records(b)[1])
        <5> DEFINE x == RecordAt(a, j)
                   y == Records(a)[After(a, j)]
                   z == Records(b)[1]
        <5>1. x \in Seq(RecordSet) /\ y \in Seq(RecordSet) /\ z \in Seq(RecordSet)
          BY <3>9, <1>2
        <5> HIDE DEF x, y, z
        <5>2. (x \o y) \o z = x \o (y \o z)
          BY <5>1, Associative, Zenon
        <5>3. QED
          BY <5>2 DEF x, y, z
      <4>2. QED
        BY <4>1, <3>7, <3>8
    <3>11. QED
      BY <3>10
  <2>3. CASE j \in 1..Len(a) /\ ~IsHeader(a[j])
    <3>1. j \notin Begins(a)
      BY <2>3, <1>1 DEF Begins
    <3>2. QED
      BY <3>1
  <2>4. j = N \/ j \in 1..Len(a)
    BY <1>1
  <2>5. QED
    BY <2>1, <2>2, <2>3, <2>4
<1>4. 1..N \subseteq Done /\ 1 \in 1..N
  <2>1. N \in Nat /\ 1 \in 1..N
    BY <1>1
  <2> HIDE DEF N, Done
  <2>2. QED
    BY <2>1, <1>3, Downwards
<1>5. QED
  BY <1>4 DEF Whole

(* Whole records after whole records are whole records, and the other way  *)
(* round if the cut is where a record begins.                              *)
LEMMA JoinWhole ==
  ASSUME NEW a \in Seq(Cells), NEW b \in Seq(Cells), Whole(a), Whole(b)
  PROVE  Whole(a \o b) /\ Len(a) + 1 \in Begins(a \o b)
<1> DEFINE c == a \o b
           M == Len(a)
           N == Len(b)
<1>1. /\ c \in Seq(Cells) /\ Len(c) = M + N /\ M \in Nat /\ N \in Nat
      /\ \A i \in 1..M : c[i] = a[i]
      /\ \A i \in 1..N : c[M + i] = b[i]
  BY ConcatFacts
<1>2. \A i \in 1..N + 1 : i \in Begins(b) => M + i \in Begins(c)
  <2>1. TAKE i \in 1..N + 1
  <2>2. CASE i = N + 1
    BY <2>2, <1>1 DEF Begins
  <2>3. CASE i \in 1..N
    <3>1. M + i \in 1..Len(c) /\ i # N + 1
      BY <2>3, <1>1
    <3>2. QED
      BY <2>3, <3>1, <1>1 DEF Begins
  <2>4. i = N + 1 \/ i \in 1..N
    BY <1>1
  <2>5. QED
    BY <2>2, <2>3, <2>4
<1>3. M + 1 \in Begins(c)
  BY <1>1, <1>2 DEF Whole
<1>4. \A i \in 1..M + 1 : i \in Begins(a) => i \in Begins(c)
  BY <1>1, <1>3 DEF Begins
<1>5. 1 \in Begins(c)
  BY <1>1, <1>4 DEF Whole
<1>6. ASSUME NEW k \in 1..M, IsHeader(c[k])
      PROVE  /\ After(c, k) \in Begins(c)
             /\ \A j \in k + 1..After(c, k) - 1 : ~IsHeader(c[j])
  <2>1. IsHeader(a[k]) /\ After(c, k) = After(a, k)
    BY <1>1, <1>6 DEF After
  <2>2. /\ After(a, k) \in Begins(a)
        /\ \A j \in k + 1..After(a, k) - 1 : ~IsHeader(a[j])
    BY <2>1 DEF Whole
  <2>3. After(a, k) \in 1..M + 1
    BY <2>2, <1>1 DEF Begins
  <2>4. QED
    BY <2>1, <2>2, <2>3, <1>1, <1>4
<1>7. ASSUME NEW m \in 1..N, IsHeader(c[M + m])
      PROVE  /\ After(c, M + m) \in Begins(c)
             /\ \A j \in (M + m) + 1..After(c, M + m) - 1 : ~IsHeader(c[j])
  <2>1. IsHeader(b[m]) /\ c[M + m] = b[m]
    BY <1>1, <1>7
  <2>2. /\ After(b, m) \in Begins(b)
        /\ \A j \in m + 1..After(b, m) - 1 : ~IsHeader(b[j])
    BY <2>1 DEF Whole
  <2>3. After(b, m) \in 1..N + 1
    BY <2>2, <1>1 DEF Begins
  <2>4. After(c, M + m) = M + After(b, m)
    <3> DEFINE size == b[m].size
    <3>1. size \in Nat
      BY <2>1, HeaderFacts
    <3>2. c[M + m].size = size
      BY <2>1
    <3> HIDE DEF size, c, M
    <3>3. (M + m) + 1 + size = M + (m + 1 + size)
      BY <1>1, <3>1
    <3>4. QED
      BY <3>2, <3>3 DEF After, size
  <2>5. ASSUME NEW j \in (M + m) + 1..After(c, M + m) - 1 PROVE ~IsHeader(c[j])
    <3> DEFINE next == After(b, m)
               i == j - M
    <3>1. j \in (M + m) + 1..(M + next) - 1
      BY <2>4
    <3> HIDE DEF next, c, M, N
    <3>2. next \in 1..N + 1
      BY <2>3 DEF next
    <3>3. i \in m + 1..next - 1 /\ i \in 1..N /\ M + i = j
      BY <3>1, <3>2, <1>1
    <3>4. ~IsHeader(b[i])
      BY <3>3, <2>2 DEF next
    <3>5. QED
      BY <3>3, <3>4, <1>1
  <2>6. QED
    BY <2>2, <2>3, <2>4, <2>5, <1>2
<1>8. ASSUME NEW k \in 1..Len(c), k \notin 1..M PROVE \E m \in 1..N : k = M + m
  <2>1. k - M \in 1..N /\ k = M + (k - M)
    BY <1>1, <1>8
  <2>2. QED
    BY <2>1
<1>9. QED
  BY <1>3, <1>5, <1>6, <1>7, <1>8 DEF Whole

LEMMA CutWhole ==
  ASSUME NEW a \in Seq(Cells), NEW b \in Seq(Cells),
         Whole(a \o b), Len(a) + 1 \in Begins(a \o b)
  PROVE  Whole(a) /\ Whole(b)
<1> DEFINE c == a \o b
           M == Len(a)
           N == Len(b)
<1>1. /\ c \in Seq(Cells) /\ Len(c) = M + N /\ M \in Nat /\ N \in Nat
      /\ \A i \in 1..M : c[i] = a[i]
      /\ \A i \in 1..N : c[M + i] = b[i]
  BY ConcatFacts
<1>2. \A i \in 1..N + 1 : M + i \in Begins(c) => i \in Begins(b)
  <2>1. TAKE i \in 1..N + 1
  <2>2. CASE i = N + 1
    BY <2>2 DEF Begins
  <2>3. CASE i \in 1..N
    BY <2>3, <1>1 DEF Begins
  <2>4. i = N + 1 \/ i \in 1..N
    BY <1>1
  <2>5. QED
    BY <2>2, <2>3, <2>4
<1>3. \A i \in 1..M + 1 : i \in Begins(c) => i \in Begins(a)
  <2>1. TAKE i \in 1..M + 1
  <2>2. CASE i = M + 1
    BY <2>2 DEF Begins
  <2>3. CASE i \in 1..M
    BY <2>3, <1>1 DEF Begins
  <2>4. i = M + 1 \/ i \in 1..M
    BY <1>1
  <2>5. QED
    BY <2>2, <2>3, <2>4
<1>4. 1 \in Begins(a) /\ 1 \in Begins(b)
  <2>1. 1 \in 1..M + 1 /\ 1 \in 1..N + 1
    BY <1>1
  <2>2. QED
    BY <2>1, <1>2, <1>3 DEF Whole
<1>5. ASSUME NEW k \in 1..M, IsHeader(a[k])
      PROVE  /\ After(a, k) \in Begins(a)
             /\ \A j \in k + 1..After(a, k) - 1 : ~IsHeader(a[j])
  <2>1. k \in 1..Len(c) /\ IsHeader(c[k]) /\ After(c, k) = After(a, k) /\ After(a, k) \in Nat
        /\ After(a, k) > k
    BY <1>1, <1>5, HeaderFacts DEF After
  <2>2. /\ After(a, k) \in Begins(c)
        /\ \A j \in k + 1..After(a, k) - 1 : ~IsHeader(c[j])
    BY <2>1 DEF Whole
  <2>3. After(a, k) <= M + 1
    <3>1. SUFFICES ASSUME M + 1 < After(a, k) PROVE FALSE
      BY <1>1, <2>1
    <3>2. After(a, k) <= Len(c) + 1
      BY <1>1, <2>2, <2>1 DEF Begins
    <3>3. M + 1 \in k + 1..After(a, k) - 1 /\ M + 1 # Len(c) + 1
      BY <3>1, <3>2, <1>1, <2>1
    <3>4. M + 1 \in Begins(c)
      OBVIOUS
    <3>5. IsHeader(c[M + 1])
      BY <3>3, <3>4 DEF Begins
    <3>6. QED
      BY <3>3, <3>5, <2>2
  <2>4. \A j \in k + 1..After(a, k) - 1 : j \in 1..M
    BY <2>3, <2>1, <1>1
  <2>5. After(a, k) \in 1..M + 1
    BY <2>3, <2>1
  <2>6. QED
    BY <2>2, <2>4, <2>5, <1>1, <1>3
<1>6. ASSUME NEW m \in 1..N, IsHeader(b[m])
      PROVE  /\ After(b, m) \in Begins(b)
             /\ \A j \in m + 1..After(b, m) - 1 : ~IsHeader(b[j])
  <2>1. M + m \in 1..Len(c) /\ IsHeader(c[M + m]) /\ c[M + m] = b[m]
    BY <1>1, <1>6
  <2>2. /\ After(c, M + m) \in Begins(c)
        /\ \A j \in M + m + 1..After(c, M + m) - 1 : ~IsHeader(c[j])
    BY <2>1 DEF Whole
  <2>3. After(b, m) \in Nat /\ After(b, m) > m
    BY <1>6, HeaderFacts
  <2>4. After(c, M + m) = M + After(b, m)
    <3> DEFINE size == b[m].size
    <3>1. size \in Nat
      BY <1>6, HeaderFacts
    <3>2. c[M + m].size = size
      BY <2>1
    <3> HIDE DEF size, c, M
    <3>3. (M + m) + 1 + size = M + (m + 1 + size)
      BY <1>1, <3>1
    <3>4. QED
      BY <3>2, <3>3 DEF After, size
  <2> DEFINE next == After(b, m)
  <2>5. M + next \in Begins(c) /\ next \in Nat /\ next > m
        /\ \A j \in M + m + 1..(M + next) - 1 : ~IsHeader(c[j])
    <3>1. After(c, M + m) = M + next
      BY <2>4
    <3>2. ASSUME NEW j \in M + m + 1..(M + next) - 1 PROVE ~IsHeader(c[j])
      <4>1. j \in M + m + 1..After(c, M + m) - 1
        BY <3>1
      <4>2. QED
        BY <4>1, <2>2
    <3>3. M + next \in Begins(c) /\ next \in Nat /\ next > m
      BY <2>2, <2>3, <2>4
    <3>4. QED
      BY <3>2, <3>3
  <2> HIDE DEF next
  <2>6. next \in 1..N + 1
    <3>1. M + next <= M + N + 1
      BY <2>5, <1>1 DEF Begins
    <3> HIDE DEF c, M, N
    <3>2. QED
      BY <3>1, <2>5, <1>1
  <2>7. next \in Begins(b)
    BY <2>5, <2>6, <1>2
  <2>8. ASSUME NEW j \in m + 1..next - 1 PROVE ~IsHeader(b[j])
    <3>1. M + j \in M + m + 1..(M + next) - 1 /\ j \in 1..N
      <4> HIDE DEF c, M, N
      <4>1. QED
        BY <2>6, <1>1
    <3>2. QED
      BY <3>1, <2>5, <1>1
  <2>9. QED
    BY <2>7, <2>8 DEF next
<1>7. QED
  BY <1>4, <1>5, <1>6 DEF Whole

LEMMA NoRecords == Whole(<<>>) /\ Records(<<>>)[1] = <<>> /\ Begins(<<>>) = {1}
<1>1. <<>> \in Seq(Cells) /\ Len(<<>>) = 0 /\ 1 \in 1..Len(<<>>) + 1
  BY EmptySeq
<1>2. ~IsRecord(<<>>, 1)
  BY <1>1 DEF IsRecord
<1>3. Records(<<>>)[1] = <<>>
  BY <1>1, <1>2, ReaderStep
<1>4. Begins(<<>>) = {1}
  BY <1>1 DEF Begins
<1>5. \A k \in 1..Len(<<>>) : FALSE
  BY <1>1
<1>6. QED
  BY <1>3, <1>4, <1>5 DEF Whole

(* A header and its data.                                                  *)
LEMMA OneRecord ==
  ASSUME NEW cell \in HeaderCells, NEW text \in Seq(Cells), Len(text) = cell.size,
         \A i \in 1..Len(text) : ~IsHeader(text[i])
  PROVE  /\ Whole(<<cell>> \o text)
         /\ Records(<<cell>> \o text)[1] =
              IF cell.marked_deleted THEN <<>> ELSE <<[path |-> cell.path, text |-> text]>>
<1> DEFINE c == <<cell>> \o text
<1>1. cell \in Cells /\ IsHeader(cell) /\ cell.size \in Nat
  BY CellFacts
<1>2. /\ c \in Seq(Cells) /\ Len(c) = 1 + cell.size /\ c[1] = cell
      /\ \A i \in 1..cell.size : c[1 + i] = text[i]
  <2>1. <<cell>> \in Seq(Cells) /\ Len(<<cell>>) = 1 /\ <<cell>>[1] = cell
    BY <1>1
  <2>2. QED
    BY <2>1, ConcatFacts
<1>3. \A k \in 2..Len(c) : ~IsHeader(c[k])
  <2>1. TAKE k \in 2..Len(c)
  <2>2. k - 1 \in 1..cell.size /\ 1 + (k - 1) = k
    BY <1>1, <1>2
  <2>3. QED
    BY <2>2, <1>2
<1>4. After(c, 1) = Len(c) + 1 /\ IsRecord(c, 1)
  BY <1>1, <1>2 DEF After, IsRecord
<1>5. Begins(c) = {1, Len(c) + 1}
  BY <1>1, <1>2, <1>3 DEF Begins
<1>6. Whole(c)
  BY <1>1, <1>2, <1>3, <1>4, <1>5 DEF Whole
<1>7. Part(c, 2, cell.size) = text
  <2>1. 1 \in 1..Len(text) + 1 /\ 1 + cell.size - 1 <= Len(text)
        /\ <<cell>> \in Seq(Cells) /\ Len(<<cell>>) + 1 = 2
    BY <1>1
  <2>2. Part(c, Len(<<cell>>) + 1, cell.size) = Part(text, 1, cell.size)
    <3> DEFINE first == <<cell>>
    <3>1. first \in Seq(Cells)
      BY <2>1
    <3> HIDE DEF first
    <3>2. Part(first \o text, Len(first) + 1, cell.size) = Part(text, 1, cell.size)
      BY <3>1, <2>1, <1>1, PartOfSecond
    <3>3. QED
      BY <3>2 DEF first
  <2>3. 1 + cell.size - 1 = Len(text)
    BY <1>1
  <2>4. QED
    BY <2>1, <2>2, <2>3, SubSeqFull DEF Part
<1>8. Records(c)[1] = RecordAt(c, 1) \o Records(c)[Len(c) + 1]
  <2>1. 1 \in 1..Len(c) + 1
    BY <1>1, <1>2
  <2> HIDE DEF c
  <2>2. QED
    BY <2>1, <1>2, <1>4, ReaderStep
<1>9. Records(c)[Len(c) + 1] = <<>>
  <2>1. ~IsRecord(c, Len(c) + 1) /\ Len(c) + 1 \in 1..Len(c) + 1
    BY <1>1, <1>2 DEF IsRecord
  <2>2. QED
    BY <2>1, <1>2, ReaderStep
<1>10. RecordAt(c, 1) \in Seq(RecordSet)
  <2>1. 1 \in 1..Len(c)
    BY <1>1, <1>2
  <2> HIDE DEF c
  <2>2. QED
    BY <2>1, <1>2, <1>4, RecordFacts
<1>11. Records(c)[1] = RecordAt(c, 1)
  BY <1>8, <1>9, <1>10, ConcatEmptySeq
<1>12. RecordAt(c, 1) = IF cell.marked_deleted THEN <<>> ELSE <<[path |-> cell.path, text |-> text]>>
  BY <1>2, <1>7 DEF RecordAt
<1>13. QED
  BY <1>6, <1>11, <1>12

(* A record before the end e, what is before it and what is behind it.     *)
LEMMA AtRecord ==
  ASSUME NEW a \in Seq(Cells), NEW e \in 1..Len(a) + 1, Whole(Before(a, e)),
         NEW p \in 1..e - 1, IsHeader(a[p])
  PROVE  /\ After(a, p) \in p + 1..e /\ After(a, p) - p = 1 + a[p].size
         /\ After(a, p) \in Begins(Before(a, e))
         /\ Whole(Before(a, p)) /\ Whole(Part(a, p, After(a, p) - p))
         /\ Whole(Before(a, After(a, p))) /\ Whole(Part(a, After(a, p), e - After(a, p)))
         /\ Records(Part(a, p, After(a, p) - p))[1] = RecordAt(a, p)
         /\ Records(Before(a, After(a, p)))[1] = Records(Before(a, p))[1] \o RecordAt(a, p)
         /\ Records(Before(a, e))[1] =
              Records(Before(a, After(a, p)))[1] \o Records(Part(a, After(a, p), e - After(a, p)))[1]
         /\ \A i \in p + 1..After(a, p) - 1 : ~IsHeader(a[i])
<1> DEFINE w == Before(a, e)
           n == After(a, p)
<1>0. n = After(a, p)
  OBVIOUS
<1> HIDE DEF n
<1>1. Len(a) \in Nat /\ e \in Nat /\ p \in 1..Len(a) /\ p \in 1..Len(a) + 1 /\ e \in p..Len(a) + 1
  BY LenProperties
<1>2. w \in Seq(Cells) /\ Len(w) = e - 1 /\ \A i \in 1..e - 1 : w[i] = a[i]
  BY BeforeFacts
<1>3. p \in 1..Len(w) /\ IsHeader(w[p]) /\ After(w, p) = n /\ p \in Begins(w)
  BY <1>0, <1>1, <1>2 DEF After, Begins
<1>4. n \in Nat /\ n > p /\ n - p = 1 + a[p].size /\ a[p].size \in Nat
  BY <1>0, <1>1, HeaderFacts DEF After
<1>5. n \in Begins(w) /\ \A i \in p + 1..n - 1 : ~IsHeader(w[i])
  BY <1>3 DEF Whole
<1>6. n \in p + 1..e
  <2>1. n <= e
    BY <1>1, <1>2, <1>4, <1>5 DEF Begins
  <2>2. QED
    BY <2>1, <1>1, <1>4
<1>7. \A i \in p + 1..n - 1 : ~IsHeader(a[i])
  BY <1>1, <1>2, <1>5, <1>6
<1> DEFINE x == Before(a, p)
           r == Part(a, p, n - p)
           y == Part(a, n, e - n)
           v == Before(a, n)
<1>8. x \in Seq(Cells) /\ Len(x) = p - 1
  BY <1>1, BeforeFacts
<1>9. n \in 1..Len(a) + 1 /\ v \in Seq(Cells) /\ Len(v) = n - 1 /\ \A i \in 1..n - 1 : v[i] = a[i]
  <2>1. n \in 1..Len(a) + 1
    BY <1>1, <1>6
  <2>2. QED
    BY <2>1, BeforeFacts
<1>10. r \in Seq(Cells)
  <2>1. n - p \in Nat /\ p + (n - p) - 1 <= Len(a)
    BY <1>1, <1>6
  <2>2. QED
    BY <2>1, <1>1, PartFacts
<1>11. y \in Seq(Cells)
  <2>1. e - n \in Nat /\ n + (e - n) - 1 <= Len(a)
    BY <1>1, <1>6
  <2>2. QED
    BY <2>1, <1>9, PartFacts
<1>12. v = x \o r
  <2>1. n \in p..Len(a) + 1
    BY <1>1, <1>6
  <2>2. QED
    BY <2>1, <1>1, Split
<1>13. w = v \o y
  <2>1. e \in n..Len(a) + 1
    BY <1>1, <1>6
  <2>2. QED
    BY <2>1, <1>9, Split
<1>14. Whole(v) /\ Whole(y)
  <2>1. Len(v) + 1 = n /\ Whole(w)
    BY <1>9, <1>6
  <2> HIDE DEF v, y, w
  <2>2. QED
    BY <2>1, <1>5, <1>9, <1>11, <1>13, CutWhole
<1>15. Whole(x) /\ Whole(r)
  <2>1. p \in Begins(v)
    BY <1>1, <1>6, <1>9 DEF Begins
  <2>2. Len(x) + 1 = p
    BY <1>1, <1>8
  <2> HIDE DEF v, x, r
  <2>3. QED
    BY <2>1, <2>2, <1>8, <1>10, <1>12, <1>14, CutWhole
<1>16. Records(r)[1] = RecordAt(a, p)
  <2> DEFINE size == a[p].size
             text == Part(a, p + 1, size)
  <2>1. size \in Nat /\ n = p + 1 + size
    BY <1>0, <1>4 DEF After
  <2>2. a[p] \in HeaderCells
    BY <1>1, HeaderFacts
  <2> HIDE DEF size
  <2>3. p + 1 \in 1..Len(a) + 1 /\ (p + 1) + size - 1 <= Len(a)
    BY <1>1, <2>1, <1>6
  <2>4. text \in Seq(Cells) /\ Len(text) = size
        /\ \A i \in 1..size : text[i] = a[(p + 1) + i - 1]
    BY <2>1, <2>3, PartFacts
  <2>5. \A i \in 1..Len(text) : ~IsHeader(text[i])
    <3>1. \A i \in 1..size : (p + 1) + i - 1 \in p + 1..n - 1
      BY <1>1, <2>1
    <3>2. QED
      BY <3>1, <2>4, <1>7
  <2>6. r = <<a[p]>> \o text
    <3>1. n - 1 \in p..Len(a) /\ p + (n - p) - 1 = n - 1 /\ (p + 1) + size - 1 = n - 1
      BY <1>1, <2>1, <1>6
    <3>2. SubSeq(a, p, n - 1) = <<a[p]>> \o SubSeq(a, p + 1, n - 1)
      BY <1>1, <3>1, SubSeqRecursiveFirst
    <3>3. QED
      BY <3>1, <3>2 DEF Part
  <2> HIDE DEF r, text
  <2>7. Records(<<a[p]>> \o text)[1] =
          IF a[p].marked_deleted THEN <<>> ELSE <<[path |-> a[p].path, text |-> text]>>
    BY <2>2, <2>4, <2>5, OneRecord DEF size
  <2>8. QED
    BY <2>6, <2>7 DEF RecordAt, text, size
<1>17. Records(v)[1] = Records(x)[1] \o Records(r)[1]
  <2> HIDE DEF v, x, r
  <2>1. QED
    BY <1>8, <1>10, <1>12, <1>15, JoinRecords
<1>18. Records(w)[1] = Records(v)[1] \o Records(y)[1]
  <2> HIDE DEF w, v, y
  <2>1. QED
    BY <1>9, <1>11, <1>13, <1>14, JoinRecords
<1>19. QED
  BY <1>4, <1>5, <1>6, <1>7, <1>14, <1>15, <1>16, <1>17, <1>18 DEF n

(* Who changes nothing in a part, leaves the part the same.                *)
LEMMA SamePart ==
  ASSUME NEW a \in Seq(Cells), NEW b \in Seq(Cells), NEW first \in 1..Len(a) + 1, NEW n \in Nat,
         first + n - 1 <= Len(a), first <= Len(b) + 1, first + n - 1 <= Len(b),
         \A i \in first..first + n - 1 : b[i] = a[i]
  PROVE  Part(b, first, n) = Part(a, first, n)
<1>1. Part(a, first, n) \in Seq(Cells) /\ Len(Part(a, first, n)) = n
      /\ \A i \in 1..n : Part(a, first, n)[i] = a[first + i - 1]
  BY PartFacts
<1>2. Part(b, first, n) \in Seq(Cells) /\ Len(Part(b, first, n)) = n
      /\ \A i \in 1..n : Part(b, first, n)[i] = b[first + i - 1]
  <2>1. first \in 1..Len(b) + 1
    BY LenProperties
  <2>2. QED
    BY <2>1, PartFacts
<1>3. \A i \in 1..n : first + i - 1 \in first..first + n - 1
  OBVIOUS
<1>4. \A i \in 1..n : Part(b, first, n)[i] = Part(a, first, n)[i]
  BY <1>1, <1>2, <1>3
<1>5. QED
  BY <1>1, <1>2, <1>4, SeqEqual

LEMMA BeforeConcat ==
  ASSUME NEW a \in Seq(Cells), NEW b \in Seq(Cells), NEW e \in 1..Len(a) + 1
  PROVE  Before(a \o b, e) = Before(a, e)
<1>1. 1 \in 1..Len(a) + 1 /\ e - 1 \in Nat /\ 1 + (e - 1) - 1 <= Len(a)
  BY LenProperties
<1>2. QED
  BY <1>1, PartOfFirst DEF Before

LEMMA CompleteFacts ==
  ASSUME NEW a \in Seq(Cells), NEW e \in 1..Len(a) + 1
  PROVE  /\ Records(Before(a, e))[1] \in Seq(RecordSet)
         /\ \A k \in 1..Len(Records(Before(a, e))[1]) : Records(Before(a, e))[1][k].path \in Names
<1> DEFINE s == Records(Before(a, e))[1]
<1>1. s \in Seq(RecordSet)
  <2>1. 1 \in 1..Len(Before(a, e)) + 1 /\ Before(a, e) \in Seq(Cells)
    BY BeforeFacts, LenProperties
  <2>2. QED
    BY <2>1, RecordsType
<1>2. \A k \in 1..Len(s) : s[k] \in RecordSet
  BY <1>1, ElementOfSeq
<1>3. QED
  BY <1>1, <1>2 DEF RecordSet

LEMMA NoneJoins ==
  ASSUME NEW s \in Seq(RecordSet), NEW t \in Seq(RecordSet)
  PROVE  None(s \o t) <=> None(s) /\ None(t)
<1>1. /\ Len(s \o t) = Len(s) + Len(t) /\ Len(s) \in Nat /\ Len(t) \in Nat
      /\ \A i \in 1..Len(s) : (s \o t)[i] = s[i]
      /\ \A i \in 1..Len(t) : (s \o t)[Len(s) + i] = t[i]
  BY ConcatFacts
<1>2. None(s \o t) => None(s)
  BY <1>1 DEF None
<1>3. None(s \o t) => None(t)
  <2>1. \A i \in 1..Len(t) : Len(s) + i \in 1..Len(s) + Len(t)
    BY <1>1
  <2>2. QED
    BY <2>1, <1>1 DEF None
<1>4. ASSUME None(s), None(t), NEW k \in 1..Len(s) + Len(t) PROVE (s \o t)[k].path # target
  <2>1. CASE k \in 1..Len(s)
    BY <2>1, <1>1, <1>4 DEF None
  <2>2. CASE k \notin 1..Len(s)
    <3>1. k - Len(s) \in 1..Len(t) /\ k = Len(s) + (k - Len(s))
      BY <2>2, <1>1
    <3>2. QED
      BY <3>1, <1>1, <1>4 DEF None
  <2>3. QED
    BY <2>1, <2>2
<1>5. QED
  BY <1>1, <1>2, <1>3, <1>4 DEF None

-----------------------------------------------------------------------------
(* The runs.  A run that ends leaves nothing but the archive.              *)

LEMMA SourceFacts ==
  /\ File(<<>>) \in Sources
  /\ \A file \in Sources :
       /\ Len(file.text) \in Nat
       /\ file.readable =>
            file.text \in Seq(Cells) /\ \A i \in 1..Len(file.text) : ~IsHeader(file.text[i])
<1>1. File(<<>>) \in Sources
  BY ArchiveAssumption DEF Sources
<1>2. ASSUME NEW text \in Contents
      PROVE  /\ Len(text) \in Nat /\ text \in Seq(Cells)
             /\ \A i \in 1..Len(text) : ~IsHeader(text[i])
  <2>1. text \in Seq(Pieces)
    BY ArchiveAssumption
  <2>2. text \in Seq(Cells)
    BY <2>1, SeqMonotonic DEF Cells
  <2>3. \A i \in 1..Len(text) : text[i] \in Pieces
    BY <2>1, ElementOfSeq
  <2>4. QED
    BY <2>1, <2>2, <2>3, ArchiveAssumption, LenProperties
<1>3. ASSUME NEW file \in Sources
      PROVE  /\ Len(file.text) \in Nat
             /\ file.readable =>
                  file.text \in Seq(Cells) /\ \A i \in 1..Len(file.text) : ~IsHeader(file.text[i])
  <2>1. CASE file = Directory
    BY <2>1 DEF Directory
  <2>2. CASE \E text \in Contents : file = File(text)
    <3>1. PICK text \in Contents : file = File(text)
      BY <2>2
    <3>2. file.text = text
      BY <3>1 DEF File
    <3>3. QED
      BY <3>2, <1>2
  <2>3. QED
    BY <2>1, <2>2 DEF Sources
<1>4. QED
  BY <1>1, <1>3

LEMMA EndKeeps ==
  ASSUME End, archive' \in Seq(Cells), Len(archive') <= MaxCells, intact' \in BOOLEAN,
         NEW e \in 1..Len(archive') + 1,
         Whole(Before(archive', e)), complete' = Records(Before(archive', e))[1],
         intact' => e = Len(archive') + 1
  PROVE  IInv'
<1>1. /\ op' = "idle" /\ source' = File(<<>>) /\ output' = <<>> /\ pos' = 1 /\ start' = 1
      /\ temp' = <<>> /\ target' \in Names
  BY ArchiveAssumption DEF End, NewTempFile, NoTarget
<1>2. Len(archive') \in Nat /\ Len(<<>>) = 0 /\ <<>> \in Seq(Cells)
      /\ MaxCells \in Nat /\ MaxCells >= 1
  BY LenProperties, EmptySeq, ArchiveAssumption
<1>3. TypeOK'
  <2>1. \A k \in 1..Len(complete') : complete'[k].path \in Names
    BY CompleteFacts
  <2>2. pos' \in 1..2 * MaxCells /\ start' \in 1..MaxCells
    BY <1>1, <1>2
  <2>3. QED
    BY <1>1, <1>2, <2>1, <2>2, SourceFacts DEF TypeOK
<1>4. Sizes'
  BY <1>1, <1>2 DEF Sizes
<1>5. Sound(e)'
  BY <1>1 DEF Sound
<1>6. QED
  BY <1>3, <1>4, <1>5 DEF IInv

(* A run that ends without having changed anything.                        *)
LEMMA EndsUnchanged ==
  ASSUME IInv, op # "add", End, UNCHANGED <<archive, intact, complete>>
  PROVE  IInv'
<1>1. PICK e \in 1..Len(archive) + 1 : Sound(e)
  BY DEF IInv
<1>2. /\ archive' \in Seq(Cells) /\ Len(archive') <= MaxCells /\ intact' \in BOOLEAN
      /\ e \in 1..Len(archive') + 1 /\ Whole(Before(archive', e))
      /\ complete' = Records(Before(archive', e))[1] /\ (intact' => e = Len(archive') + 1)
  BY <1>1 DEF IInv, TypeOK, Sizes, Sound
<1>3. QED
  BY <1>2, EndKeeps

LEMMA AppendFacts ==
  ASSUME NEW a \in Seq(Cells), NEW cell \in Cells, NEW e \in 1..Len(a) + 1
  PROVE  /\ Append(a, cell) \in Seq(Cells) /\ Len(Append(a, cell)) = Len(a) + 1
         /\ Append(a, cell) = a \o <<cell>> /\ <<cell>> \in Seq(Cells)
         /\ Before(Append(a, cell), e) = Before(a, e)
<1>1. Append(a, cell) = a \o <<cell>> /\ <<cell>> \in Seq(Cells)
  BY AppendIsConcat
<1>2. QED
  BY <1>1, AppendProperties, BeforeConcat

LEMMA Numbers ==
  ASSUME IInv
  PROVE  /\ archive \in Seq(Cells) /\ temp \in Seq(Cells) /\ output \in Seq(Cells)
         /\ Len(archive) \in Nat /\ Len(temp) \in Nat /\ Len(output) \in Nat
         /\ MaxCells \in Nat /\ MaxCells >= 1 /\ Len(archive) <= MaxCells
         /\ Len(output) <= Len(archive) /\ Len(temp) <= Len(archive) /\ Len(temp) < pos
         /\ pos \in Nat /\ pos >= 1 /\ pos <= 2 * MaxCells
<1>1. archive \in Seq(Cells) /\ temp \in Seq(Cells) /\ output \in Seq(Cells)
      /\ Len(temp) < pos /\ Len(archive) <= MaxCells
      /\ Len(output) <= Len(archive) /\ Len(temp) <= Len(archive) /\ pos \in 1..2 * MaxCells
  BY DEF IInv, TypeOK, Sizes
<1>2. MaxCells \in Nat /\ MaxCells >= 1
  BY ArchiveAssumption
<1>3. QED
  BY <1>1, <1>2, LenProperties

-----------------------------------------------------------------------------
(* add_file_to_archive.                                                    *)

LEMMA AddHeaderKeeps ==
  ASSUME IInv, NEW n \in Names, AddHeader(n)
  PROVE  IInv'
<1>1. PICK e \in 1..Len(archive) + 1 : Sound(e)
  BY DEF IInv
<1>2. PICK file \in Sources :
        /\ Len(archive) + 1 + Len(file.text) <= MaxCells
        /\ archive' = Append(archive, Header(n, Len(file.text)))
        /\ source' = file
  BY DEF AddHeader
<1>3. /\ op = "idle" /\ op' = "add" /\ target' = n
      /\ UNCHANGED <<output, pos, start, temp, intact, complete>>
  BY DEF AddHeader
<1> DEFINE m == Len(archive)
           t == Len(file.text)
<1>4. m \in Nat /\ t \in Nat /\ m + 1 + t <= MaxCells /\ archive \in Seq(Cells)
      /\ MaxCells \in Nat
  BY <1>2, Numbers, SourceFacts
<1>5. Header(n, Len(file.text)) \in Cells
  <2>1. t \in 0..MaxCells - 1
    <3> HIDE DEF m, t
    <3>1. QED
      BY <1>4
  <2>2. QED
    BY <2>1, CellFacts
<1>6. /\ archive' \in Seq(Cells) /\ Len(archive') = Len(archive) + 1
      /\ archive' = archive \o <<Header(n, Len(file.text))>>
      /\ <<Header(n, Len(file.text))>> \in Seq(Cells)
      /\ Before(archive', e) = Before(archive, e)
  BY <1>2, <1>4, <1>5, AppendFacts
<1>7. TypeOK'
  <2>1. Len(archive') <= MaxCells /\ Len(output') <= Len(archive') /\ Len(temp') <= Len(archive')
    <3>1. /\ Len(archive') = m + 1
          /\ Len(output') \in Nat /\ Len(output') <= m
          /\ Len(temp') \in Nat /\ Len(temp') <= m
      BY <1>3, <1>6, Numbers
    <3> HIDE DEF m, t
    <3>2. QED
      BY <3>1, <1>4
  <2>2. source' \in Sources /\ target' \in Names /\ intact' \in BOOLEAN
    BY <1>2, <1>3 DEF IInv, TypeOK
  <2>3. QED
    BY <1>3, <2>1, <2>2 DEF IInv, TypeOK
<1>8. Sizes'
  <2>1. pos = 1 /\ pos' = 1 /\ Len(source'.text) = Len(file.text)
    BY <1>2, <1>3 DEF IInv, Sizes
  <2>2. pos' <= Len(source'.text) + 1 /\ pos' <= Len(archive')
        /\ Len(archive') + Len(source'.text) + 1 - pos' <= MaxCells
    <3>1. pos' = 1 /\ Len(source'.text) = t /\ Len(archive') = m + 1
      BY <1>6, <2>1
    <3> HIDE DEF m, t
    <3>2. QED
      BY <1>4, <3>1
  <2>3. temp = <<>> /\ Len(temp') < pos' /\ output' \in Seq(Cells) /\ temp' \in Seq(Cells)
    BY <1>3, <2>1, Numbers DEF IInv, Sizes
  <2>4. QED
    BY <1>3, <1>6, <2>2, <2>3 DEF Sizes
<1>9. Adding(e)'
  <2>1. SUFFICES ASSUME intact
                 PROVE  archive' = Before(archive', e) \o (<<Header(n, Len(file.text))>>
                                     \o Part(file.text, 1, 1 - 1))
    BY <1>2, <1>3 DEF Adding, IInv, Sizes
  <2>2. e = Len(archive) + 1
    BY <2>1, <1>1, <1>3 DEF Sound
  <2>3. Before(archive', e) = archive
    BY <2>2, <1>4, <1>6, BeforeAll
  <2>4. Part(file.text, 1, 1 - 1) = <<>>
    BY SubSeqEmpty DEF Part
  <2>5. QED
    BY <2>3, <2>4, <1>6, ConcatEmptySeq
<1>10. Sound(e)'
  BY <1>1, <1>3, <1>6, <1>9 DEF Sound
<1>11. QED
  BY <1>4, <1>6, <1>7, <1>8, <1>10 DEF IInv

LEMMA AddDataKeeps ==
  ASSUME IInv, AddData
  PROVE  IInv'
<1>1. PICK e \in 1..Len(archive) + 1 : Sound(e)
  BY DEF IInv
<1>2. /\ op = "add" /\ source.readable /\ pos <= Len(source.text)
      /\ archive' = Append(archive, source.text[pos]) /\ pos' = pos + 1
      /\ UNCHANGED <<op, target, source, output, start, temp, intact, complete>>
  BY DEF AddData
<1>3. /\ Len(archive) \in Nat /\ archive \in Seq(Cells) /\ MaxCells \in Nat
      /\ source.text \in Seq(Cells) /\ Len(source.text) \in Nat
      /\ pos \in Nat /\ pos >= 1 /\ pos \in 1..Len(source.text)
      /\ Len(archive) + Len(source.text) + 1 - pos <= MaxCells /\ pos <= Len(archive)
  <2>1. Len(archive) \in Nat /\ archive \in Seq(Cells) /\ MaxCells \in Nat
    BY LenProperties, ArchiveAssumption DEF IInv, Sizes
  <2>2. source.text \in Seq(Cells) /\ Len(source.text) \in Nat
    BY <1>2, SourceFacts DEF IInv, TypeOK
  <2>3. pos \in 1..2 * MaxCells
    BY DEF IInv, TypeOK
  <2>4. Len(archive) + Len(source.text) + 1 - pos <= MaxCells /\ pos <= Len(archive)
    BY <1>2 DEF IInv, Sizes
  <2>5. QED
    BY <1>2, <2>1, <2>2, <2>3, <2>4
<1>4. source.text[pos] \in Cells
  BY <1>3, ElementOfSeq
<1>5. /\ archive' \in Seq(Cells) /\ Len(archive') = Len(archive) + 1
      /\ archive' = archive \o <<source.text[pos]>>
      /\ <<source.text[pos]>> \in Seq(Cells)
      /\ Before(archive', e) = Before(archive, e)
  BY <1>2, <1>3, <1>4, AppendFacts
<1>6. TypeOK'
  <2> DEFINE m == Len(archive)
             t == Len(source.text)
  <2>1. pos' \in 1..2 * MaxCells /\ Len(archive') <= MaxCells
    <3>1. m \in Nat /\ t \in Nat /\ pos' = pos + 1 /\ Len(archive') = m + 1
          /\ m + t + 1 - pos <= MaxCells /\ pos \in Nat /\ pos <= t
      BY <1>2, <1>3, <1>5
    <3>2. pos \in 1..2 * MaxCells
      BY DEF IInv, TypeOK
    <3>3. pos <= m /\ m <= MaxCells /\ MaxCells \in Nat
      BY <1>2, <1>3 DEF IInv, TypeOK, Sizes
    <3> HIDE DEF m, t
    <3>4. QED
      BY <3>1, <3>2, <3>3
  <2>2. Len(output') <= Len(archive') /\ Len(temp') <= Len(archive')
    <3>1. /\ m \in Nat /\ Len(archive') = m + 1
          /\ Len(output') \in Nat /\ Len(output') <= m
          /\ Len(temp') \in Nat /\ Len(temp') <= m
      BY <1>2, <1>5, Numbers
    <3> HIDE DEF m, t
    <3>2. QED
      BY <3>1
  <2>3. QED
    BY <1>2, <2>1, <2>2 DEF IInv, TypeOK
<1>7. Sizes'
  <2>1. pos' <= Len(source'.text) + 1 /\ pos' <= Len(archive')
        /\ Len(archive') + Len(source'.text) + 1 - pos' <= MaxCells
    <3> DEFINE m == Len(archive)
               t == Len(source.text)
    <3>1. m \in Nat /\ t \in Nat /\ pos' = pos + 1 /\ Len(archive') = m + 1 /\ Len(source'.text) = t
          /\ m + t + 1 - pos <= MaxCells /\ pos \in Nat /\ pos <= t /\ pos <= m /\ MaxCells \in Nat
      BY <1>2, <1>3, <1>5
    <3> HIDE DEF m, t
    <3>2. QED
      BY <3>1
  <2>2. Len(temp') < pos'
    BY <1>2, Numbers
  <2>3. temp' = <<>> /\ op' = "add" /\ output' \in Seq(Cells) /\ temp' \in Seq(Cells)
    BY <1>2, Numbers DEF IInv, Sizes
  <2>4. QED
    BY <1>5, <2>1, <2>2, <2>3 DEF Sizes
<1>8. Adding(e)'
  <2> DEFINE b == Before(archive, e)
             h == <<Header(target, Len(source.text))>>
             t == Part(source.text, 1, pos - 1)
             d == <<source.text[pos]>>
  <2>1. SUFFICES ASSUME intact
                 PROVE  archive' = b \o (h \o Part(source.text, 1, (pos + 1) - 1))
    BY <1>2, <1>5 DEF Adding
  <2>2. archive = b \o (h \o t)
    BY <1>1, <1>2, <2>1 DEF Sound, Adding
  <2>3. Part(source.text, 1, (pos + 1) - 1) = t \o d
    <3>1. 1 \in 1..Len(source.text) /\ 1 + ((pos + 1) - 1) - 1 = pos /\ 1 + (pos - 1) - 1 = pos - 1
      BY <1>3
    <3>2. SubSeq(source.text, 1, pos) = SubSeq(source.text, 1, pos - 1) \o <<source.text[pos]>>
      BY <1>3, <3>1, SubSeqRecursiveSecond
    <3>3. QED
      BY <3>1, <3>2 DEF Part
  <2>4. b \in Seq(Cells) /\ t \in Seq(Cells) /\ d \in Seq(Cells)
    <3>1. 1 \in 1..Len(source.text) + 1 /\ pos - 1 \in Nat /\ 1 + (pos - 1) - 1 <= Len(source.text)
      BY <1>3
    <3>2. QED
      BY <1>3, <1>5, <3>1, BeforeFacts, PartFacts
  <2>5. h \in Seq(Cells)
    <3>1. target \in Names /\ Len(source.text) \in 0..MaxCells - 1
      <4>1. target \in Names
        BY DEF IInv, TypeOK
      <4>2. Len(source.text) + 1 <= MaxCells
        BY <1>3
      <4>3. QED
        BY <4>1, <4>2, <1>3
    <3>2. QED
      BY <3>1, CellFacts
  <2> HIDE DEF b, h, t, d
  <2>6. archive' = (b \o (h \o t)) \o d
    BY <1>5, <2>2 DEF d
  <2>7. QED
    <3>1. h \o t \in Seq(Cells)
      BY <2>4, <2>5, ConcatProperties
    <3>2. (b \o (h \o t)) \o d = b \o ((h \o t) \o d)
      <4> DEFINE u == h \o t
      <4>1. b \in Seq(Cells) /\ u \in Seq(Cells) /\ d \in Seq(Cells)
        BY <2>4, <3>1
      <4> HIDE DEF u
      <4>2. (b \o u) \o d = b \o (u \o d)
        BY <4>1, AssociativeCells, Zenon
      <4>3. QED
        BY <4>2 DEF u
    <3>3. (h \o t) \o d = h \o (t \o d)
      BY <2>4, <2>5, AssociativeCells, Zenon
    <3>4. QED
      BY <2>3, <2>6, <3>2, <3>3
<1>9. Sound(e)'
  BY <1>1, <1>2, <1>5, <1>8 DEF Sound
<1>10. QED
  BY <1>3, <1>5, <1>6, <1>7, <1>9 DEF IInv

LEMMA AddHeaderFailsKeeps ==
  ASSUME IInv, AddHeaderFails
  PROVE  IInv'
<1>1. PICK e \in 1..Len(archive) + 1 : Sound(e)
  BY DEF IInv
<1>2. /\ op = "idle" /\ Len(archive) < MaxCells /\ archive' = Append(archive, Fragment)
      /\ intact' = FALSE
      /\ UNCHANGED <<op, target, source, output, pos, start, temp, complete>>
  BY DEF AddHeaderFails, locals
<1>3. Len(archive) \in Nat /\ archive \in Seq(Cells) /\ MaxCells \in Nat
  BY LenProperties, ArchiveAssumption DEF IInv, Sizes
<1>4. /\ archive' \in Seq(Cells) /\ Len(archive') = Len(archive) + 1
      /\ Before(archive', e) = Before(archive, e)
  BY <1>2, <1>3, CellFacts, AppendFacts
<1>5. TypeOK'
  <2>1. Len(output') <= Len(archive') /\ Len(temp') <= Len(archive')
    BY <1>2, <1>4, Numbers
  <2>2. Len(archive') <= MaxCells
    BY <1>2, <1>3, <1>4
  <2>3. intact' \in BOOLEAN
    BY <1>2, Zenon
  <2>4. QED
    BY <1>2, <2>1, <2>2, <2>3 DEF IInv, TypeOK
<1>6. Sizes'
  BY <1>2, <1>3, <1>4 DEF IInv, Sizes
<1>7. Sound(e)'
  BY <1>1, <1>2, <1>4 DEF Sound
<1>8. QED
  BY <1>3, <1>4, <1>5, <1>6, <1>7 DEF IInv

(* The record that was added is the next one a reader finds.               *)
LEMMA AddedIsThere ==
  ASSUME IInv, op = "add", AddDone, intact
  PROVE  Whole(archive) /\ Records(archive)[1] = Append(complete, Added)
<1>1. PICK e \in 1..Len(archive) + 1 : Sound(e)
  BY DEF IInv
<1> DEFINE cell == Header(target, Len(source.text))
           b == Before(archive, e)
<1>2. /\ source.readable /\ pos = Len(source.text) + 1 /\ Len(source.text) \in Nat
      /\ source.text \in Seq(Cells) /\ \A i \in 1..Len(source.text) : ~IsHeader(source.text[i])
  BY SourceFacts DEF AddDone, IInv, TypeOK
<1>3. Part(source.text, 1, pos - 1) = source.text
  <2>1. 1 + (pos - 1) - 1 = Len(source.text)
    BY <1>2
  <2>2. QED
    BY <1>2, <2>1, SubSeqFull DEF Part
<1>4. archive = b \o (<<cell>> \o source.text)
  BY <1>1, <1>3 DEF Sound, Adding
<1>5. b \in Seq(Cells)
  BY BeforeFacts DEF IInv, Sizes
<1>6. Len(source.text) < MaxCells
  BY <1>2, LenProperties, ArchiveAssumption DEF IInv, TypeOK, Sizes
<1>7. cell \in HeaderCells /\ cell.size = Len(source.text) /\ ~cell.marked_deleted
      /\ cell.path = target
  BY <1>2, <1>6, CellFacts, ArchiveAssumption DEF IInv, TypeOK
<1> DEFINE r == <<cell>> \o source.text
<1>8. r \in Seq(Cells)
  <2>1. <<cell>> \in Seq(Cells)
    BY <1>7, CellFacts
  <2>2. QED
    BY <1>2, <2>1, ConcatProperties
<1>9. Whole(r) /\ Records(r)[1] = <<Added>>
  <2> HIDE DEF cell
  <2>1. QED
    BY <1>2, <1>7, OneRecord DEF Added
<1>10. complete = Records(b)[1] /\ Whole(b) /\ complete \in Seq(RecordSet)
  BY <1>1, CompleteFacts DEF Sound, IInv, Sizes
<1>11. Whole(archive) /\ Records(archive)[1] = complete \o <<Added>>
  <2> HIDE DEF r, b
  <2>1. archive = b \o r
    BY <1>4 DEF r
  <2>2. QED
    BY <2>1, <1>5, <1>8, <1>9, <1>10, JoinWhole, JoinRecords
<1>12. Added \in RecordSet
  BY <1>2 DEF Added, RecordSet, IInv, TypeOK
<1>13. QED
  BY <1>10, <1>11, <1>12, AppendIsConcat

LEMMA AddEndingKeeps ==
  ASSUME IInv, AddSucceeds \/ AddEnds
  PROVE  IInv'
<1>1. PICK e \in 1..Len(archive) + 1 : Sound(e)
  BY DEF IInv
<1>2. /\ op = "add" /\ End /\ archive' = archive
      /\ intact' = (intact /\ AddDone)
      /\ complete' = IF AddDone THEN WithAdded ELSE complete
  <2>1. CASE AddSucceeds
    <3>1. AddDone
      BY <2>1 DEF AddSucceeds
    <3>2. intact \in BOOLEAN
      BY DEF IInv, TypeOK
    <3>3. intact' = (intact /\ AddDone)
      BY <2>1, <3>1, <3>2 DEF AddSucceeds
    <3>4. QED
      BY <2>1, <3>1, <3>3 DEF AddSucceeds
  <2>2. CASE AddEnds
    BY <2>2 DEF AddEnds
  <2>3. QED
    BY <2>1, <2>2
<1>3. archive' \in Seq(Cells) /\ Len(archive') <= MaxCells /\ Len(archive) \in Nat
  BY <1>2, LenProperties DEF IInv, TypeOK, Sizes
<1>4. intact' \in BOOLEAN
  BY <1>2
<1>5. CASE intact /\ AddDone
  <2>1. Whole(archive) /\ Records(archive)[1] = complete'
    BY <1>2, <1>5, AddedIsThere DEF WithAdded
  <2>2. Before(archive', Len(archive') + 1) = archive
    BY <1>2, <1>3, BeforeAll
  <2>3. Len(archive') + 1 \in 1..Len(archive') + 1
    BY <1>2, <1>3
  <2>4. QED
    BY <1>2, <1>3, <1>4, <2>1, <2>2, <2>3, EndKeeps
<1>6. CASE ~(intact /\ AddDone)
  <2>1. complete' = complete /\ ~intact'
    BY <1>2, <1>6 DEF WithAdded
  <2>2. Whole(Before(archive', e)) /\ complete' = Records(Before(archive', e))[1]
        /\ e \in 1..Len(archive') + 1
    BY <1>1, <1>2, <2>1 DEF Sound
  <2>3. QED
    BY <1>2, <1>3, <1>4, <2>1, <2>2, EndKeeps
<1>7. QED
  BY <1>5, <1>6

-----------------------------------------------------------------------------
(* extract_and_remove_file.                                                *)

(* Where a scan or a compression is before the end, it is at a record.     *)
LEMMA BeginsFacts ==
  ASSUME NEW a \in Seq(Cells), NEW e \in 1..Len(a) + 1, NEW p \in Begins(Before(a, e))
  PROVE  /\ p \in 1..e
         /\ p < e => IsHeader(a[p]) /\ p \in 1..e - 1
         /\ p >= e => p = e
<1>1. Len(Before(a, e)) = e - 1 /\ \A i \in 1..e - 1 : Before(a, e)[i] = a[i]
  BY BeforeFacts
<1>2. e \in Nat /\ e >= 1
  BY LenProperties
<1>3. QED
  BY <1>1, <1>2 DEF Begins

LEMMA AtStart ==
  ASSUME NEW a \in Seq(Cells), NEW e \in 1..Len(a) + 1, Whole(Before(a, e))
  PROVE  /\ 1 \in Begins(Before(a, e)) /\ Before(a, 1) = <<>>
         /\ Records(Before(a, 1))[1] = <<>>
<1>1. Before(a, 1) = <<>>
  BY SubSeqEmpty DEF Before, Part
<1>2. QED
  BY <1>1, NoRecords DEF Whole

LEMMA StartExtractKeeps ==
  ASSUME IInv, NEW n \in Names, StartExtract(n)
  PROVE  IInv'
<1>1. PICK e \in 1..Len(archive) + 1 : Sound(e)
  BY DEF IInv
<1>2. /\ op = "idle" /\ op' = "scan" /\ target' = n
      /\ UNCHANGED <<archive, source, output, pos, start, temp, intact, complete>>
  BY DEF StartExtract
<1>3. TypeOK'
  BY <1>2 DEF IInv, TypeOK
<1>4. Sizes'
  BY <1>2 DEF IInv, Sizes
<1>5. Scanning(e)'
  <2>1. pos = 1 /\ archive \in Seq(Cells)
    BY <1>2 DEF IInv, Sizes
  <2>2. 1 \in Begins(Before(archive, e)) /\ Records(Before(archive, 1))[1] = <<>>
    BY <2>1, <1>1, AtStart DEF Sound
  <2>3. None(Records(Before(archive, 1))[1])'
    BY <1>2, <2>2, EmptySeq DEF None
  <2>4. QED
    BY <1>2, <2>1, <2>2, <2>3 DEF Scanning
<1>6. Sound(e)'
  BY <1>1, <1>2, <1>5 DEF Sound
<1>7. QED
  BY <1>2, <1>3, <1>4, <1>6 DEF IInv

(* A scan that goes on from p.                                             *)
LEMMA ScanGoesOn ==
  ASSUME IInv, op = "scan", pos' \in 1..2 * MaxCells,
         UNCHANGED <<archive, op, target, source, output, start, temp, intact, complete>>,
         NEW e \in 1..Len(archive) + 1, Sound(e), Scanning(e)'
  PROVE  IInv'
<1>1. TypeOK'
  BY DEF IInv, TypeOK
<1>2. Sizes'
  <2>1. temp' = <<>> /\ Len(temp') = 0
    BY EmptySeq DEF IInv, Sizes
  <2>2. QED
    BY <2>1 DEF IInv, Sizes
<1>3. Sound(e)'
  BY DEF Sound
<1>4. QED
  BY <1>1, <1>2, <1>3 DEF IInv

LEMMA SkipRecordKeeps ==
  ASSUME IInv, SkipRecord
  PROVE  IInv'
<1>1. PICK e \in 1..Len(archive) + 1 : Sound(e)
  BY DEF IInv
<1>2. /\ op = "scan" /\ pos <= Len(archive) /\ IsHeader(archive[pos]) /\ ~Matches(archive[pos])
      /\ pos' = pos + 1 + archive[pos].size
      /\ UNCHANGED <<archive, op, target, source, output, start, temp, intact, complete>>
  BY DEF SkipRecord
<1>3. pos \in 1..Len(archive) /\ archive \in Seq(Cells) /\ Scanning(e)
      /\ complete = Records(Before(archive, e))[1] /\ Whole(Before(archive, e))
  BY <1>1, <1>2, Numbers DEF Sound
<1>4. archive[pos].size \in Nat /\ archive[pos].size < MaxCells /\ pos' = After(archive, pos)
  BY <1>2, <1>3, HeaderFacts DEF After
<1>5. pos' \in 1..2 * MaxCells
  <2> DEFINE size == archive[pos].size
  <2>1. /\ size \in Nat /\ size < MaxCells /\ pos' = pos + 1 + size
        /\ pos \in Nat /\ pos <= MaxCells /\ MaxCells \in Nat
    BY <1>2, <1>4, Numbers
  <2> HIDE DEF size
  <2>2. QED
    BY <2>1
<1>6. Scanning(e)'
  <2>1. CASE None(complete)
    BY <1>2, <2>1 DEF Scanning, None
  <2>2. CASE pos \in Begins(Before(archive, e)) /\ None(Records(Before(archive, pos))[1]) /\ pos < e
    <3>1. pos \in 1..e - 1
      BY <1>3, <2>2, BeginsFacts
    <3>2. /\ pos' \in Begins(Before(archive, e))
          /\ Records(Before(archive, pos'))[1]
               = Records(Before(archive, pos))[1] \o RecordAt(archive, pos)
          /\ pos' \in pos + 1..e
      <4>1. /\ After(archive, pos) \in Begins(Before(archive, e))
            /\ Records(Before(archive, After(archive, pos)))[1]
                 = Records(Before(archive, pos))[1] \o RecordAt(archive, pos)
            /\ After(archive, pos) \in pos + 1..e
        BY <1>2, <1>3, <3>1, AtRecord
      <4>2. QED
        BY <4>1, <1>4
    <3>3. None(RecordAt(archive, pos))
      <4>1. CASE archive[pos].marked_deleted
        BY <4>1, EmptySeq DEF RecordAt, None
      <4>2. CASE ~archive[pos].marked_deleted
        <5>1. archive[pos].path # target
          BY <1>2, <4>2 DEF Matches
        <5>2. QED
          BY <4>2, <5>1 DEF RecordAt, None
      <4>3. QED
        BY <4>1, <4>2
    <3>4. Records(Before(archive, pos))[1] \in Seq(RecordSet)
      <4>1. pos \in 1..Len(archive) + 1
        BY <1>3, LenProperties
      <4>2. QED
        BY <4>1, <1>3, CompleteFacts
    <3>5. RecordAt(archive, pos) \in Seq(RecordSet)
      <4>1. IsRecord(archive, pos)
        <5>1. e \in Nat /\ e <= Len(archive) + 1 /\ pos' <= e
          BY <3>2, Numbers
        <5>2. After(archive, pos) <= Len(archive) + 1
          <6>1. pos' \in Nat /\ Len(archive) \in Nat
            BY <1>5, Numbers
          <6>2. QED
            BY <1>4, <5>1, <6>1
        <5>3. QED
          BY <1>2, <1>3, <5>2, HeaderFacts
      <4>2. QED
        BY <4>1, <1>3, RecordFacts
    <3>6. None(Records(Before(archive, pos'))[1])
      BY <2>2, <3>2, <3>3, <3>4, <3>5, NoneJoins
    <3>7. QED
      BY <1>2, <3>2, <3>6 DEF Scanning, None
  <2>3. CASE pos \in Begins(Before(archive, e)) /\ None(Records(Before(archive, pos))[1]) /\ pos >= e
    <3>1. pos = e
      BY <1>3, <2>3, BeginsFacts
    <3>2. None(complete)
      BY <2>3, <3>1, <1>3
    <3>3. QED
      BY <2>1, <3>2
  <2>4. pos < e \/ pos >= e
    BY <1>3, Numbers
  <2>5. QED
    BY <1>3, <2>1, <2>2, <2>3, <2>4 DEF Scanning
<1>7. QED
  BY <1>1, <1>2, <1>5, <1>6, ScanGoesOn

LEMMA SkipGarbageKeeps ==
  ASSUME IInv, SkipGarbage
  PROVE  IInv'
<1>1. PICK e \in 1..Len(archive) + 1 : Sound(e)
  BY DEF IInv
<1>2. /\ op = "scan" /\ pos <= Len(archive) /\ ~IsHeader(archive[pos])
      /\ UNCHANGED <<archive, intact, complete>>
  BY DEF SkipGarbage
<1>3. CASE End
  BY <1>2, <1>3, EndsUnchanged
<1>4. CASE pos' \in 1..Len(archive) + 1 /\ UNCHANGED <<op, target, source, output, start, temp>>
  <2>1. None(complete)
    <3>1. archive \in Seq(Cells) /\ Scanning(e) /\ complete = Records(Before(archive, e))[1]
      BY <1>1, <1>2, Numbers DEF Sound
    <3>2. CASE pos \in Begins(Before(archive, e)) /\ None(Records(Before(archive, pos))[1])
      <4>1. ~(pos < e)
        BY <1>2, <3>1, <3>2, BeginsFacts
      <4>2. pos = e
        BY <3>1, <3>2, <4>1, BeginsFacts, Numbers
      <4>3. QED
        BY <3>1, <3>2, <4>2
    <3>3. QED
      BY <3>1, <3>2 DEF Scanning
  <2>2. Scanning(e)'
    BY <1>2, <1>4, <2>1 DEF Scanning, None
  <2>3. pos' \in 1..2 * MaxCells
    BY <1>4, Numbers
  <2>4. QED
    BY <1>1, <1>2, <1>4, <2>2, <2>3, ScanGoesOn
<1>5. QED
  BY <1>3, <1>4 DEF SkipGarbage

(* What a scan has found is the first live record with the path, as far as *)
(* the complete ones go.                                                   *)
LEMMA FoundFirst ==
  ASSUME IInv, Found, NEW e \in 1..Len(archive) + 1, Sound(e)
  PROVE  IF pos < e THEN None(Records(Before(archive, pos))[1]) ELSE None(complete)
<1>1. /\ op = "scan" /\ pos \in 1..Len(archive) /\ IsHeader(archive[pos])
      /\ archive \in Seq(Cells) /\ Scanning(e)
      /\ complete = Records(Before(archive, e))[1] /\ Whole(Before(archive, e))
  BY Numbers DEF Sound, Found
<1>2. CASE pos < e /\ None(complete)
  <2>1. pos \in 1..e - 1
    BY <1>1, <1>2, Numbers
  <2> DEFINE n == After(archive, pos)
             s == Records(Before(archive, pos))[1]
             t == Records(Part(archive, n, e - n))[1]
  <2>2. /\ Records(Before(archive, n))[1] = s \o RecordAt(archive, pos)
        /\ complete = Records(Before(archive, n))[1] \o t
        /\ n \in pos + 1..e
    BY <1>1, <2>1, AtRecord
  <2>3. e \in Nat /\ e <= Len(archive) + 1 /\ n \in 1..Len(archive) + 1 /\ pos \in 1..Len(archive) + 1
        /\ n <= e
    BY <2>2, <1>1, Numbers
  <2>4. s \in Seq(RecordSet) /\ Records(Before(archive, n))[1] \in Seq(RecordSet)
    BY <1>1, <2>3, CompleteFacts
  <2>5. RecordAt(archive, pos) \in Seq(RecordSet)
    <3>1. IsRecord(archive, pos)
      <4>1. After(archive, pos) <= Len(archive) + 1
        BY <2>3, Numbers
      <4>2. QED
        BY <1>1, <4>1, HeaderFacts
    <3>2. QED
      BY <1>1, <3>1, RecordFacts
  <2>6. t \in Seq(RecordSet)
    <3>1. e - n \in Nat /\ n + (e - n) - 1 <= Len(archive)
      BY <2>3, Numbers
    <3>2. Part(archive, n, e - n) \in Seq(Cells)
      BY <1>1, <2>3, <3>1, PartFacts
    <3>3. 1 \in 1..Len(Part(archive, n, e - n)) + 1
      BY <3>2, LenProperties
    <3>4. QED
      BY <3>2, <3>3, RecordsType
  <2> HIDE DEF s, t, n
  <2>7. None(Records(Before(archive, n))[1])
    BY <1>2, <2>2, <2>4, <2>6, NoneJoins
  <2>8. None(s)
    BY <2>7, <2>2, <2>4, <2>5, NoneJoins
  <2>9. QED
    BY <1>2, <2>8 DEF s
<1>3. CASE pos \in Begins(Before(archive, e)) /\ None(Records(Before(archive, pos))[1]) /\ ~(pos < e)
  <2>1. pos = e
    BY <1>1, <1>3, BeginsFacts, Numbers
  <2>2. QED
    BY <1>1, <1>3, <2>1
<1>4. QED
  BY <1>1, <1>2, <1>3 DEF Scanning

LEMMA OpenOutputKeeps ==
  ASSUME IInv, OpenOutput
  PROVE  IInv'
<1>1. PICK e \in 1..Len(archive) + 1 : Sound(e)
  BY DEF IInv
<1>2. /\ Found /\ op = "scan" /\ pos \in 1..Len(archive) /\ IsHeader(archive[pos])
      /\ Matches(archive[pos])
      /\ output' = <<>> /\ start' = pos /\ pos' = pos + 1 /\ op' = "copy"
      /\ UNCHANGED <<archive, target, source, temp, intact, complete>>
  BY Numbers DEF OpenOutput, Found
<1>3. archive \in Seq(Cells) /\ <<>> \in Seq(Cells) /\ Len(<<>>) = 0
  BY EmptySeq, Numbers
<1>4. TypeOK'
  <2>1. pos' \in 1..2 * MaxCells /\ start' \in 1..MaxCells /\ Len(output') <= Len(archive')
    BY <1>2, <1>3, Numbers
  <2>2. QED
    BY <1>2, <2>1 DEF IInv, TypeOK
<1>5. Sizes'
  <2>1. temp' = <<>>
    BY <1>2 DEF IInv, Sizes
  <2>2. Len(temp') < pos'
    BY <1>2, <1>3, <2>1
  <2>3. QED
    BY <1>2, <1>3, <2>1, <2>2 DEF IInv, Sizes
<1>6. Copying(e)'
  <2>1. start' < pos' /\ pos' <= After(archive, pos) /\ pos' <= Len(archive) + 1
    <3>1. After(archive, pos) \in Nat /\ After(archive, pos) > pos
      BY <1>2, <1>3, HeaderFacts
    <3>2. QED
      BY <1>2, <3>1, Numbers
  <2>2. output' = Part(archive, start' + 1, pos' - start' - 1)
    <3>1. start' + 1 + (pos' - start' - 1) - 1 < start' + 1 /\ pos \in Int
      BY <1>2
    <3>2. QED
      BY <1>2, <3>1, SubSeqEmpty DEF Part
  <2>3. IF pos < e THEN None(Records(Before(archive, pos))[1]) ELSE None(complete)
    BY <1>1, <1>2, FoundFirst
  <2>4. Matches(archive[start])'
    BY <1>2 DEF Matches
  <2>5. (IF start < e THEN None(Records(Before(archive, start))[1]) ELSE None(complete))'
    BY <1>2, <2>3 DEF None
  <2>6. QED
    BY <1>2, <2>1, <2>2, <2>4, <2>5 DEF Copying, Matches
<1>7. Sound(e)'
  BY <1>1, <1>2, <1>6 DEF Sound
<1>8. QED
  BY <1>2, <1>4, <1>5, <1>7 DEF IInv

LEMMA CopyOutKeeps ==
  ASSUME IInv, CopyOut
  PROVE  IInv'
<1>1. PICK e \in 1..Len(archive) + 1 : Sound(e)
  BY DEF IInv
<1>2. /\ op = "copy" /\ DataLeft /\ pos \in 1..Len(archive) /\ pos <= Len(archive)
      /\ output' = Append(output, archive[pos]) /\ pos' = pos + 1
      /\ UNCHANGED <<archive, op, target, source, start, temp, intact, complete>>
  BY Numbers DEF CopyOut
<1>3. /\ Copying(e) /\ archive \in Seq(Cells) /\ start \in 1..Len(archive)
      /\ IsHeader(archive[start]) /\ start < pos
      /\ output = Part(archive, start + 1, pos - start - 1) /\ output \in Seq(Cells)
  BY <1>1, <1>2, Numbers DEF Sound, Copying
<1>4. output' = Part(archive, start + 1, pos' - start - 1)
  <2>1. /\ start + 1 \in 1..Len(archive) /\ pos \in start + 1..Len(archive)
        /\ start + 1 + (pos' - start - 1) - 1 = pos
        /\ start + 1 + (pos - start - 1) - 1 = pos - 1
    BY <1>2, <1>3, Numbers
  <2>2. SubSeq(archive, start + 1, pos)
          = SubSeq(archive, start + 1, pos - 1) \o <<archive[pos]>>
    BY <1>3, <2>1, SubSeqRecursiveSecond
  <2>3. archive[pos] \in Cells
    BY <1>2, <1>3, ElementOfSeq
  <2>4. output' = output \o <<archive[pos]>>
    BY <1>2, <1>3, <2>3, AppendIsConcat
  <2>5. QED
    BY <1>3, <2>1, <2>2, <2>4 DEF Part
<1>5. output' \in Seq(Cells) /\ Len(output') = pos' - start - 1
  <2>1. /\ start + 1 \in 1..Len(archive) + 1 /\ pos' - start - 1 \in Nat
        /\ start + 1 + (pos' - start - 1) - 1 <= Len(archive)
    BY <1>2, <1>3, Numbers
  <2>2. QED
    BY <1>3, <1>4, <2>1, PartFacts
<1>6. TypeOK'
  <2> DEFINE m == Len(archive)
             l == Len(output')
  <2>1. /\ l = pos' - start - 1 /\ pos' = pos + 1 /\ pos <= m /\ m <= MaxCells /\ archive' = archive
        /\ m \in Nat /\ pos \in Nat /\ start \in Nat /\ start >= 1 /\ pos >= 1 /\ MaxCells \in Nat
    BY <1>2, <1>3, <1>5, Numbers
  <2>2. pos' \in 1..2 * MaxCells /\ Len(output') <= Len(archive')
    <3>1. Len(archive') = m
      BY <2>1
    <3> HIDE DEF m, l
    <3>2. pos' \in 1..2 * MaxCells /\ l <= m
      BY <2>1
    <3>3. QED
      BY <3>1, <3>2 DEF l
  <2>3. QED
    BY <1>2, <2>2 DEF IInv, TypeOK
<1>7. Sizes'
  <2>1. Len(temp') < pos'
    BY <1>2, Numbers
  <2>2. QED
    BY <1>2, <1>5, <2>1 DEF IInv, Sizes
<1>8. Copying(e)'
  <2>1. pos' <= After(archive, start) /\ start' < pos' /\ pos' <= Len(archive) + 1
    <3> DEFINE size == archive[start].size
    <3>1. size \in Nat /\ pos <= start + size /\ After(archive, start) = start + 1 + size
      BY <1>2, <1>3, HeaderFacts DEF DataLeft, After
    <3> HIDE DEF size
    <3>2. QED
      BY <1>2, <1>3, <3>1, Numbers
  <2>2. Matches(archive[start])'
    BY <1>2, <1>3 DEF Matches, Copying
  <2>3. (IF start < e THEN None(Records(Before(archive, start))[1]) ELSE None(complete))'
    BY <1>2, <1>3 DEF None, Copying
  <2>4. QED
    BY <1>2, <1>3, <1>4, <2>1, <2>2, <2>3 DEF Copying, Matches
<1>9. Sound(e)'
  BY <1>1, <1>2, <1>8 DEF Sound
<1>10. QED
  BY <1>2, <1>6, <1>7, <1>9 DEF IInv

-----------------------------------------------------------------------------
(* The mark.  It takes one record out of what a reader finds.              *)

LEMMA Marked ==
  ASSUME NEW a \in Seq(Cells), NEW e \in 1..Len(a) + 1, Whole(Before(a, e)),
         NEW p \in 1..e - 1, IsHeader(a[p]),
         NEW b \in Seq(Cells), Len(b) = Len(a), b[p].marked_deleted, IsHeader(b[p]),
         b[p].size = a[p].size, \A i \in 1..Len(a) : i # p => b[i] = a[i]
  PROVE  /\ Whole(Before(b, e))
         /\ Records(Before(b, e))[1] =
              Records(Before(a, p))[1] \o Records(Part(a, After(a, p), e - After(a, p)))[1]
<1> DEFINE w == Before(a, e)
           v == Before(b, e)
           n == After(a, p)
<1>1. Len(a) \in Nat /\ e \in Nat /\ p \in 1..Len(a) /\ e <= Len(a) + 1 /\ e \in 1..Len(b) + 1
  BY LenProperties
<1>2. w \in Seq(Cells) /\ Len(w) = e - 1 /\ \A i \in 1..e - 1 : w[i] = a[i]
  BY BeforeFacts
<1>3. v \in Seq(Cells) /\ Len(v) = e - 1 /\ \A i \in 1..e - 1 : v[i] = b[i]
  BY <1>1, BeforeFacts
<1>4. \A i \in 1..e - 1 : IsHeader(v[i]) <=> IsHeader(w[i])
  BY <1>1, <1>2, <1>3
<1>5. \A i \in 1..e - 1 : After(v, i) = After(w, i)
  BY <1>1, <1>2, <1>3 DEF After
<1>6. Begins(v) = Begins(w)
  BY <1>2, <1>3, <1>4 DEF Begins
<1>7. Whole(v)
  <2>1. \A i \in 1..e - 1 : IsHeader(w[i]) =>
          /\ After(w, i) \in Begins(w)
          /\ \A j \in i + 1..After(w, i) - 1 : ~IsHeader(w[j])
    BY <1>2 DEF Whole
  <2>2. \A i \in 1..e - 1 : After(w, i) \in Begins(w) =>
          \A j \in i + 1..After(w, i) - 1 : j \in 1..e - 1
    BY <1>1, <1>2 DEF Begins
  <2>3. ASSUME NEW i \in 1..Len(v), IsHeader(v[i])
        PROVE  /\ After(v, i) \in Begins(v)
               /\ \A j \in i + 1..After(v, i) - 1 : ~IsHeader(v[j])
    BY <2>1, <2>2, <2>3, <1>3, <1>4, <1>5, <1>6
  <2>4. 1 \in Begins(v)
    BY <1>6 DEF Whole
  <2>5. QED
    BY <2>3, <2>4 DEF Whole
<1>8. n \in p + 1..e /\ After(b, p) = n
  <2>1. n \in p + 1..e
    BY AtRecord
  <2>2. QED
    BY <2>1 DEF After
<1>9. /\ Records(v)[1] = Records(Before(b, n))[1] \o Records(Part(b, n, e - n))[1]
      /\ Records(Before(b, n))[1] = Records(Before(b, p))[1] \o RecordAt(b, p)
  <2> HIDE DEF n
  <2>1. /\ Records(v)[1] = Records(Before(b, After(b, p)))[1]
                             \o Records(Part(b, After(b, p), e - After(b, p)))[1]
        /\ Records(Before(b, After(b, p)))[1] = Records(Before(b, p))[1] \o RecordAt(b, p)
    BY <1>1, <1>7, AtRecord
  <2>2. QED
    BY <2>1, <1>8
<1>10. RecordAt(b, p) = <<>>
  BY DEF RecordAt
<1>11. Before(b, p) = Before(a, p)
  <2>1. /\ 1 \in 1..Len(a) + 1 /\ p - 1 \in Nat /\ 1 + (p - 1) - 1 <= Len(a) /\ 1 <= Len(b) + 1
        /\ 1 + (p - 1) - 1 <= Len(b)
        /\ \A i \in 1..1 + (p - 1) - 1 : i \in 1..Len(a) /\ i # p
    BY <1>1
  <2>2. QED
    BY <2>1, SamePart DEF Before
<1>12. Part(b, n, e - n) = Part(a, n, e - n)
  <2> HIDE DEF n
  <2>1. /\ n \in 1..Len(a) + 1 /\ e - n \in Nat /\ n + (e - n) - 1 <= Len(a) /\ n <= Len(b) + 1
        /\ n + (e - n) - 1 <= Len(b)
        /\ \A i \in n..n + (e - n) - 1 : i \in 1..Len(a) /\ i # p
    BY <1>1, <1>8
  <2>2. QED
    BY <2>1, SamePart
<1>13. Records(Before(a, p))[1] \in Seq(RecordSet)
  BY <1>1, CompleteFacts
<1>14. QED
  BY <1>7, <1>9, <1>10, <1>11, <1>12, <1>13, ConcatEmptySeq

(* The first promise for the path goes, the others stay.                   *)
LEMMA FirstGoes ==
  ASSUME NEW s \in Seq(RecordSet), NEW t \in Seq(RecordSet), NEW rec \in RecordSet,
         None(s), rec.path = target, complete = (s \o <<rec>>) \o t
  PROVE  /\ Remaining = s \o t
         /\ Len(complete) = Len(s) + 1 + Len(t)
         /\ Len(s) + 1 \in 1..Len(complete) /\ complete[Len(s) + 1] = rec
         /\ \A j \in 1..Len(s) + 1 - 1 : complete[j].path # target
         /\ Remaining = Part(complete, 1, Len(s) + 1 - 1)
              \o Part(complete, Len(s) + 1 + 1, Len(complete) - (Len(s) + 1))
<1> DEFINE k == Len(s) + 1
           u == s \o <<rec>>
<1>1. <<rec>> \in Seq(RecordSet) /\ Len(<<rec>>) = 1 /\ <<rec>>[1] = rec
  OBVIOUS
<1>2. /\ u \in Seq(RecordSet) /\ Len(u) = k /\ Len(s) \in Nat /\ u[k] = rec
      /\ \A i \in 1..Len(s) : u[i] = s[i]
  BY <1>1, ConcatFacts
<1>3. /\ complete \in Seq(RecordSet) /\ Len(complete) = k + Len(t) /\ Len(t) \in Nat
      /\ \A i \in 1..k : complete[i] = u[i]
  <2>1. complete = u \o t
    OBVIOUS
  <2> HIDE DEF u, k
  <2>2. /\ u \o t \in Seq(RecordSet) /\ Len(u \o t) = Len(u) + Len(t) /\ Len(t) \in Nat
        /\ \A i \in 1..Len(u) : (u \o t)[i] = u[i]
    BY <1>2, ConcatFacts
  <2>3. QED
    BY <2>1, <2>2, <1>2
<1>4. k \in 1..Len(complete) /\ complete[k] = rec /\ \A j \in 1..k - 1 : complete[j].path # target
  <2>1. k \in 1..k /\ \A j \in 1..k - 1 : j \in 1..Len(s) /\ j \in 1..k
    BY <1>2
  <2>2. QED
    BY <2>1, <1>2, <1>3 DEF None
<1> DEFINE First(j) == /\ complete[j].path = target
                       /\ \A i \in 1..j - 1 : complete[i].path # target
<1>5. (CHOOSE j \in 1..Len(complete) : First(j)) = k
  <2>1. First(k)
    BY <1>4
  <2>2. ASSUME NEW j \in 1..Len(complete), First(j) PROVE j = k
    <3>1. ~(j < k)
      BY <1>2, <1>4, <2>2
    <3>2. ~(k < j)
      BY <1>2, <1>4, <2>2
    <3>3. QED
      BY <3>1, <3>2, <1>2, <1>3
  <2> HIDE DEF First, k
  <2>3. QED
    BY <1>4, <2>1, <2>2
<1>6. Part(complete, 1, k - 1) = s
  <2>1. 1 \in 1..Len(u) + 1 /\ k - 1 \in Nat /\ 1 + (k - 1) - 1 <= Len(u)
        /\ 1 \in 1..Len(s) + 1 /\ 1 + (k - 1) - 1 <= Len(s) /\ 1 + (k - 1) - 1 = Len(s)
    BY <1>2
  <2>2. Part(u \o t, 1, k - 1) = Part(u, 1, k - 1)
    <3> HIDE DEF u, k
    <3>1. QED
      BY <2>1, <1>2, PartOfFirst
  <2>3. Part(s \o <<rec>>, 1, k - 1) = Part(s, 1, k - 1)
    <3> HIDE DEF k
    <3>1. QED
      BY <2>1, <1>1, PartOfFirst
  <2>4. Part(s, 1, k - 1) = s
    BY <2>1, SubSeqFull DEF Part
  <2>5. QED
    BY <2>2, <2>3, <2>4
<1>7. Part(complete, k + 1, Len(complete) - k) = t
  <2>1. 1 \in 1..Len(t) + 1 /\ 1 + Len(t) - 1 <= Len(t) /\ 1 + Len(t) - 1 = Len(t)
        /\ Len(complete) - k = Len(t)
    BY <1>2, <1>3
  <2>2. Part(u \o t, Len(u) + 1, Len(t)) = Part(t, 1, Len(t))
    <3> HIDE DEF u, k
    <3>1. QED
      BY <2>1, <1>2, <1>3, PartOfSecond
  <2>3. Part(t, 1, Len(t)) = t
    BY <2>1, SubSeqFull DEF Part
  <2>4. QED
    BY <2>1, <2>2, <2>3, <1>2
<1>8. Remaining = Part(complete, 1, k - 1) \o Part(complete, k + 1, Len(complete) - k)
  <2> HIDE DEF k
  <2>1. \E j \in 1..Len(complete) : complete[j].path = target
    BY <1>4
  <2>2. QED
    BY <2>1, <1>5 DEF Remaining
<1>9. QED
  <2>1. Len(complete) = Len(s) + 1 + Len(t)
    BY <1>3
  <2>2. Remaining = s \o t
    BY <1>6, <1>7, <1>8
  <2>3. QED
    BY <2>1, <2>2, <1>4, <1>8

LEMMA NoneGoes ==
  ASSUME None(complete)
  PROVE  Remaining = complete
BY DEF None, Remaining

(* What MarkDeleted does to the file.                                      *)
WithMark(a, p) == [a EXCEPT ![p].marked_deleted = TRUE]

LEMMA MarkFacts ==
  ASSUME NEW a \in Seq(Cells), NEW p \in 1..Len(a), IsHeader(a[p])
  PROVE  /\ WithMark(a, p) \in Seq(Cells) /\ Len(WithMark(a, p)) = Len(a)
         /\ WithMark(a, p)[p].marked_deleted /\ IsHeader(WithMark(a, p)[p])
         /\ WithMark(a, p)[p].size = a[p].size
         /\ \A i \in 1..Len(a) : i # p => WithMark(a, p)[i] = a[i]
<1> DEFINE cell == [a[p] EXCEPT !.marked_deleted = TRUE]
<1>1. cell \in HeaderCells /\ cell \in Cells /\ IsHeader(cell) /\ cell.marked_deleted
      /\ cell.size = a[p].size
  <2>1. a[p] \in HeaderCells
    BY HeaderFacts
  <2>2. cell \in HeaderCells /\ cell.marked_deleted /\ cell.size = a[p].size
    BY <2>1 DEF HeaderCells
  <2>3. QED
    BY <2>2, CellFacts
<1> DEFINE b == [a EXCEPT ![p] = cell]
<1>2. WithMark(a, p) = b
  BY DEF WithMark
<1> HIDE DEF cell
<1>3. b \in Seq(Cells) /\ Len(b) = Len(a) /\ b[p] = cell /\ \A i \in 1..Len(a) : i # p => b[i] = a[i]
  BY <1>1, ExceptSeq
<1> HIDE DEF b
<1>4. QED
  BY <1>1, <1>2, <1>3

(* The record whose mark is written is the first promise for the path, and *)
(* the whole of it is in the output file, or it is no promise at all.      *)
Extracted ==
  \E k \in 1..Len(complete) :
    /\ complete[k].path = target
    /\ \A j \in 1..k - 1 : complete[j].path # target
    /\ complete' = Part(complete, 1, k - 1) \o Part(complete, k + 1, Len(complete) - k)
    /\ output' = complete[k].text

LEMMA MarkTakesOne ==
  ASSUME IInv, MarkDeleted, NEW e \in 1..Len(archive) + 1, Sound(e)
  PROVE  /\ Whole(Before(archive', e))
         /\ complete' = Records(Before(archive', e))[1]
         /\ complete' = complete \/ Extracted
<1>1. /\ op = "copy" /\ ~DataLeft /\ archive' = WithMark(archive, start)
      /\ complete' = Remaining /\ output' = output
  BY DEF MarkDeleted, ReadyToMark, WithMark
<1>2. /\ archive \in Seq(Cells) /\ start \in 1..Len(archive) /\ IsHeader(archive[start])
      /\ Matches(archive[start]) /\ start < pos /\ pos <= After(archive, start)
      /\ output = Part(archive, start + 1, pos - start - 1)
      /\ IF start < e THEN None(Records(Before(archive, start))[1]) ELSE None(complete)
      /\ complete = Records(Before(archive, e))[1] /\ Whole(Before(archive, e))
  BY <1>1, Numbers DEF Sound, Copying
<1>3. /\ archive' \in Seq(Cells) /\ Len(archive') = Len(archive) /\ archive'[start].marked_deleted
      /\ IsHeader(archive'[start]) /\ archive'[start].size = archive[start].size
      /\ \A i \in 1..Len(archive) : i # start => archive'[i] = archive[i]
  BY <1>1, <1>2, MarkFacts
<1>4. archive[start].size \in Nat /\ archive[start].path = target /\ ~archive[start].marked_deleted
  BY <1>2, HeaderFacts DEF Matches
<1> DEFINE m == Len(archive)
<1>8. /\ m \in Nat /\ start \in Nat /\ start >= 1 /\ start <= m /\ pos \in Nat /\ start < pos
      /\ e \in Nat /\ e >= 1 /\ e <= m + 1
  BY <1>2, Numbers
<1>5. CASE start < e
  <2>1. start \in 1..e - 1
    BY <1>2, <1>5, Numbers
  <2> DEFINE n == After(archive, start)
             s == Records(Before(archive, start))[1]
             t == Records(Part(archive, n, e - n))[1]
             rec == [path |-> archive[start].path,
                     text |-> Part(archive, start + 1, archive[start].size)]
  <2>2. Whole(Before(archive', e)) /\ Records(Before(archive', e))[1] = s \o t
    BY <1>2, <1>3, <2>1, Marked
  <2>3. /\ n \in start + 1..e
        /\ Records(Before(archive, n))[1] = s \o RecordAt(archive, start)
        /\ complete = Records(Before(archive, n))[1] \o t
    BY <1>2, <2>1, AtRecord
  <2>4. RecordAt(archive, start) = <<rec>>
    BY <1>4 DEF RecordAt
  <2>5. start \in 1..Len(archive) + 1 /\ n \in 1..Len(archive) + 1 /\ e - n \in Nat
        /\ n + (e - n) - 1 <= Len(archive)
    <3>1. n \in start + 1..e
      BY <2>3
    <3> HIDE DEF n
    <3>2. n \in Nat /\ n <= e /\ n >= start + 1
      BY <1>8, <3>1
    <3> HIDE DEF m
    <3>3. start \in 1..m + 1 /\ n \in 1..m + 1 /\ e - n \in Nat /\ n + (e - n) - 1 <= m
      BY <1>8, <3>2
    <3>4. QED
      BY <3>3 DEF m
  <2>6. s \in Seq(RecordSet)
    BY <1>2, <2>5, CompleteFacts
  <2>7. t \in Seq(RecordSet)
    <3>1. Part(archive, n, e - n) \in Seq(Cells)
      <4> HIDE DEF n
      <4>1. QED
        BY <1>2, <2>5, PartFacts
    <3>2. 1 \in 1..Len(Part(archive, n, e - n)) + 1
      BY <3>1, LenProperties
    <3>3. QED
      BY <3>1, <3>2, RecordsType
  <2>8. rec \in RecordSet
    <3>1. IsRecord(archive, start)
      BY <1>2, <2>5, HeaderFacts
    <3>2. RecordAt(archive, start) \in Seq(RecordSet)
      BY <1>2, <3>1, RecordFacts
    <3>3. <<rec>>[1] \in RecordSet
      <4> DEFINE one == <<rec>>
      <4>1. one \in Seq(RecordSet) /\ Len(one) = 1
        BY <2>4, <3>2
      <4> HIDE DEF one
      <4>2. one[1] \in RecordSet
        BY <4>1, ElementOfSeq
      <4>3. QED
        BY <4>2 DEF one
    <3>4. QED
      BY <3>3
  <2>9. output' = rec.text
    <3> DEFINE size == archive[start].size
    <3>1. size \in Nat /\ ~(pos <= start + size) /\ pos <= start + 1 + size
      BY <1>1, <1>2, <1>4 DEF DataLeft, After
    <3>2. pos - start - 1 = size
      <4> HIDE DEF size
      <4>1. QED
        BY <3>1, <1>8
    <3>3. QED
      BY <1>1, <1>2, <3>2
  <2>10. None(s) /\ rec.path = target
    BY <1>2, <1>4, <1>5
  <2>11. complete = (s \o <<rec>>) \o t
    BY <2>3, <2>4
  <2> HIDE DEF s, t, rec
  <2>12. /\ Remaining = s \o t
         /\ Len(s) + 1 \in 1..Len(complete) /\ complete[Len(s) + 1] = rec
         /\ \A j \in 1..Len(s) + 1 - 1 : complete[j].path # target
         /\ Remaining = Part(complete, 1, Len(s) + 1 - 1)
              \o Part(complete, Len(s) + 1 + 1, Len(complete) - (Len(s) + 1))
    BY <2>6, <2>7, <2>8, <2>10, <2>11, FirstGoes
  <2> DEFINE k == Len(s) + 1
  <2>13. /\ k \in 1..Len(complete) /\ complete[k] = rec
         /\ \A j \in 1..k - 1 : complete[j].path # target
         /\ Remaining = Part(complete, 1, k - 1) \o Part(complete, k + 1, Len(complete) - k)
    BY <2>12
  <2> HIDE DEF k
  <2>14. Extracted
    BY <1>1, <2>9, <2>10, <2>13 DEF Extracted
  <2>15. QED
    BY <1>1, <2>2, <2>12, <2>14
<1>6. CASE ~(start < e)
  <2>1. None(complete) /\ complete' = complete
    BY <1>1, <1>2, <1>6, NoneGoes
  <2>2. Before(archive', e) = Before(archive, e)
    <3>1. /\ 1 \in 1..Len(archive) + 1 /\ e - 1 \in Nat /\ 1 + (e - 1) - 1 <= Len(archive)
          /\ 1 <= Len(archive') + 1 /\ 1 + (e - 1) - 1 <= Len(archive')
          /\ \A i \in 1..1 + (e - 1) - 1 : i \in 1..Len(archive) /\ i # start
      <4>1. Len(archive') = m
        BY <1>3
      <4> HIDE DEF m
      <4>2. /\ 1 \in 1..m + 1 /\ e - 1 \in Nat /\ 1 + (e - 1) - 1 <= m /\ 1 <= m + 1
            /\ \A i \in 1..1 + (e - 1) - 1 : i \in 1..m /\ i # start
        BY <1>6, <1>8
      <4>3. QED
        BY <4>1, <4>2 DEF m
    <3>2. QED
      BY <1>2, <1>3, <3>1, SamePart DEF Before
  <2>3. QED
    BY <1>2, <2>1, <2>2
<1>7. QED
  BY <1>5, <1>6

-----------------------------------------------------------------------------
(* compress_archive_file.                                                  *)

LEMMA CompressStarts ==
  ASSUME IInv, op = "copy", op' = "compress", pos' = 1,
         UNCHANGED <<target, source, output, start, temp, intact>>,
         archive' \in Seq(Cells), Len(archive') = Len(archive),
         NEW e \in 1..Len(archive') + 1,
         Whole(Before(archive', e)), complete' = Records(Before(archive', e))[1],
         intact => e = Len(archive') + 1
  PROVE  IInv'
<1>1. temp' = <<>> /\ Len(<<>>) = 0 /\ <<>> \in Seq(Cells)
  BY EmptySeq DEF IInv, Sizes
<1>2. TypeOK'
  <2>1. \A k \in 1..Len(complete') : complete'[k].path \in Names
    BY CompleteFacts
  <2>2. pos' \in 1..2 * MaxCells
    BY ArchiveAssumption
  <2>3. QED
    BY <2>1, <2>2 DEF IInv, TypeOK
<1>3. Sizes'
  BY <1>1 DEF IInv, Sizes
<1>4. Compressing(e)'
  <2>1. /\ 1 \in Begins(Before(archive', e)) /\ Records(Before(archive', 1))[1] = <<>>
        /\ Whole(<<>>) /\ Records(<<>>)[1] = <<>>
    BY AtStart, NoRecords
  <2>2. QED
    BY <1>1, <2>1 DEF Compressing
<1>5. Sound(e)'
  BY <1>4 DEF Sound
<1>6. QED
  BY <1>2, <1>3, <1>5 DEF IInv

LEMMA MarkKeeps ==
  ASSUME IInv, MarkDeleted \/ MarkFails
  PROVE  IInv'
<1>1. PICK e \in 1..Len(archive) + 1 : Sound(e)
  BY DEF IInv
<1>2. /\ op = "copy" /\ op' = "compress" /\ pos' = 1
      /\ UNCHANGED <<target, source, output, start, temp, intact>>
  BY DEF MarkDeleted, MarkFails, ReadyToMark
<1>3. intact => e = Len(archive) + 1
  BY <1>1, <1>2 DEF Sound
<1>4. CASE MarkDeleted
  <2>1. Whole(Before(archive', e)) /\ complete' = Records(Before(archive', e))[1]
    BY <1>1, <1>4, MarkTakesOne
  <2>2. /\ archive \in Seq(Cells) /\ start \in 1..Len(archive) /\ IsHeader(archive[start])
        /\ archive' = WithMark(archive, start)
    BY <1>1, <1>2, <1>4, Numbers DEF MarkDeleted, Sound, Copying, WithMark
  <2>3. archive' \in Seq(Cells) /\ Len(archive') = Len(archive)
    BY <2>2, MarkFacts
  <2>4. QED
    BY <1>2, <1>3, <2>1, <2>3, CompressStarts
<1>5. CASE MarkFails
  <2>1. archive' = archive /\ complete' = complete
    BY <1>5 DEF MarkFails
  <2>2. /\ archive' \in Seq(Cells) /\ Len(archive') = Len(archive) /\ e \in 1..Len(archive') + 1
        /\ Whole(Before(archive', e)) /\ complete' = Records(Before(archive', e))[1]
    BY <1>1, <2>1, Numbers DEF Sound
  <2>3. QED
    BY <1>2, <1>3, <2>1, <2>2, CompressStarts
<1>6. QED
  BY <1>4, <1>5

LEMMA CompressGoesOn ==
  ASSUME IInv, op = "compress", pos' \in 1..2 * MaxCells,
         temp' \in Seq(Cells), Len(temp') <= Len(archive), Len(temp') < pos',
         UNCHANGED <<archive, op, target, source, output, start, intact, complete>>,
         NEW e \in 1..Len(archive) + 1, Sound(e), Compressing(e)'
  PROVE  IInv'
<1>1. TypeOK'
  BY DEF IInv, TypeOK
<1>2. Sizes'
  BY DEF IInv, Sizes
<1>3. Sound(e)'
  BY DEF Sound
<1>4. QED
  BY <1>1, <1>2, <1>3 DEF IInv

(* Once it is beyond the end, all complete records are in the new file.    *)
LEMMA BeyondTheEnd ==
  ASSUME IInv, op = "compress", NEW e \in 1..Len(archive) + 1, Sound(e),
         ~(pos \in Begins(Before(archive, e)) /\ pos < e), pos <= Len(archive),
         pos' \in Nat, pos' > pos, UNCHANGED <<archive, intact, complete>>,
         NEW r \in Seq(Cells), temp' = temp \/ temp' = temp \o r
  PROVE  Compressing(e)'
<1>1. /\ Compressing(e) /\ archive \in Seq(Cells) /\ temp \in Seq(Cells)
      /\ complete = Records(Before(archive, e))[1]
      /\ pos \in Nat /\ Len(archive) \in Nat /\ Len(temp) \in Nat
  BY Numbers DEF Sound
<1>2. ~intact /\ pos >= e
      /\ \E end \in 1..Len(temp) + 1 :
           Whole(Before(temp, end)) /\ Records(Before(temp, end))[1] = complete
  <2>1. CASE /\ pos \in Begins(Before(archive, e))
             /\ Whole(temp) /\ Records(temp)[1] = Records(Before(archive, pos))[1]
    <3>1. pos = e
      BY <1>1, <2>1, BeginsFacts
    <3>2. ~intact
      BY <1>1, <3>1 DEF Sound
    <3>3. Len(temp) + 1 \in 1..Len(temp) + 1 /\ Before(temp, Len(temp) + 1) = temp
      BY <1>1, BeforeAll
    <3>4. QED
      BY <1>1, <2>1, <3>1, <3>2, <3>3
  <2>2. CASE /\ ~intact /\ pos > e
             /\ \E end \in 1..Len(temp) + 1 :
                  Whole(Before(temp, end)) /\ Records(Before(temp, end))[1] = complete
    BY <2>2, <1>1
  <2>3. QED
    BY <1>1, <2>1, <2>2 DEF Compressing
<1>3. PICK end \in 1..Len(temp) + 1 :
        Whole(Before(temp, end)) /\ Records(Before(temp, end))[1] = complete
  BY <1>2
<1>4. end \in 1..Len(temp') + 1 /\ Before(temp', end) = Before(temp, end)
  <2>1. CASE temp' = temp
    BY <2>1
  <2>2. CASE temp' = temp \o r
    <3>1. Before(temp \o r, end) = Before(temp, end)
      BY <1>1, BeforeConcat
    <3>2. Len(temp \o r) = Len(temp) + Len(r) /\ Len(r) \in Nat
      BY <1>1, ConcatFacts
    <3>3. QED
      BY <1>1, <2>2, <3>1, <3>2
  <2>3. QED
    BY <2>1, <2>2
<1>5. pos' > e
  <2>1. e \in Nat
    BY <1>1
  <2>2. QED
    BY <1>1, <1>2, <2>1
<1>6. QED
  BY <1>2, <1>3, <1>4, <1>5 DEF Compressing

(* A record before the end: it is copied unless it is marked, and what a   *)
(* reader finds in the new file is what it finds in the part that is past. *)
LEMMA RecordPassed ==
  ASSUME IInv, op = "compress", NEW e \in 1..Len(archive) + 1, Sound(e),
         pos \in Begins(Before(archive, e)), pos < e,
         IsHeader(archive[pos]), pos' = After(archive, pos),
         UNCHANGED <<archive, intact, complete>>,
         temp' = IF archive[pos].marked_deleted THEN temp
                 ELSE temp \o Part(archive, pos, 1 + archive[pos].size)
  PROVE  Compressing(e)'
<1>1. /\ Compressing(e) /\ archive \in Seq(Cells) /\ temp \in Seq(Cells)
      /\ Whole(Before(archive, e)) /\ pos \in Nat /\ e \in Nat /\ Len(archive) \in Nat
  BY Numbers DEF Sound
<1>2. pos \in 1..e - 1
  BY <1>1, BeginsFacts
<1>3. Whole(temp) /\ Records(temp)[1] = Records(Before(archive, pos))[1]
  BY <1>1 DEF Compressing
<1> DEFINE n == After(archive, pos)
           r == Part(archive, pos, n - pos)
<1>4. /\ n \in pos + 1..e /\ n - pos = 1 + archive[pos].size
      /\ n \in Begins(Before(archive, e)) /\ Whole(r)
      /\ Records(r)[1] = RecordAt(archive, pos)
      /\ Records(Before(archive, n))[1] = Records(Before(archive, pos))[1] \o RecordAt(archive, pos)
  BY <1>1, <1>2, AtRecord
<1>5. Records(Before(archive, pos))[1] \in Seq(RecordSet)
  <2>1. pos \in 1..Len(archive) + 1
    BY <1>1, <1>2
  <2>2. QED
    BY <1>1, <2>1, CompleteFacts
<1>6. Whole(temp') /\ Records(temp')[1] = Records(Before(archive, n))[1]
  <2>1. CASE archive[pos].marked_deleted
    <3>1. RecordAt(archive, pos) = <<>>
      BY <2>1 DEF RecordAt
    <3>2. QED
      BY <2>1, <3>1, <1>3, <1>4, <1>5, ConcatEmptySeq
  <2>2. CASE ~archive[pos].marked_deleted
    <3>1. r \in Seq(Cells)
      <4>1. n \in Nat /\ n <= Len(archive) + 1 /\ n > pos
        <5>1. n \in pos + 1..e
          BY <1>4
        <5> HIDE DEF n
        <5>2. QED
          BY <1>1, <5>1
      <4> HIDE DEF n
      <4>2. pos \in 1..Len(archive) + 1 /\ n - pos \in Nat /\ pos + (n - pos) - 1 <= Len(archive)
        BY <4>1, <1>1, <1>2
      <4>3. QED
        BY <1>1, <4>2, PartFacts
    <3>2. temp' = temp \o r
      BY <2>2, <1>4
    <3> HIDE DEF r
    <3>3. QED
      BY <3>1, <3>2, <1>1, <1>3, <1>4, JoinWhole, JoinRecords
  <2>3. QED
    BY <2>1, <2>2
<1>7. QED
  BY <1>4, <1>6 DEF Compressing

LEMMA KeepRecordKeeps ==
  ASSUME IInv, KeepRecord
  PROVE  IInv'
<1>1. PICK e \in 1..Len(archive) + 1 : Sound(e)
  BY DEF IInv
<1> DEFINE size == archive[pos].size
           r == Part(archive, pos, 1 + size)
<1>2. /\ op = "compress" /\ pos <= Len(archive) /\ IsHeader(archive[pos])
      /\ ~archive[pos].marked_deleted
      /\ pos + size <= Len(archive) /\ temp' = temp \o r /\ pos' = pos + 1 + size
      /\ UNCHANGED <<archive, op, target, source, output, start, intact, complete>>
  BY DEF KeepRecord
<1>3. pos \in 1..Len(archive) /\ archive \in Seq(Cells) /\ temp \in Seq(Cells)
  BY <1>2, Numbers
<1>4. size \in Nat /\ pos' = After(archive, pos)
  BY <1>2, <1>3, HeaderFacts DEF After
<1> HIDE DEF size
<1>5. r \in Seq(Cells) /\ Len(r) = 1 + size
  <2>1. pos \in 1..Len(archive) + 1 /\ 1 + size \in Nat /\ pos + (1 + size) - 1 <= Len(archive)
    BY <1>2, <1>3, <1>4, Numbers
  <2>2. QED
    BY <1>3, <2>1, PartFacts
<1> HIDE DEF r
<1>6. temp' \in Seq(Cells) /\ Len(temp') = Len(temp) + 1 + size
  <2>1. temp \o r \in Seq(Cells) /\ Len(temp \o r) = Len(temp) + Len(r)
    BY <1>3, <1>5, ConcatFacts
  <2>2. QED
    BY <2>1, <1>2, <1>4, <1>5, Numbers
<1>7. Len(temp') <= Len(archive) /\ Len(temp') < pos' /\ pos' \in 1..2 * MaxCells /\ pos' > pos
  <2> DEFINE m == Len(archive)
             l == Len(temp)
  <2>1. /\ Len(temp') = l + 1 + size /\ pos' = pos + 1 + size /\ pos + size <= m
        /\ m \in Nat /\ l \in Nat /\ size \in Nat /\ pos \in Nat /\ pos >= 1 /\ l < pos /\ m <= MaxCells
        /\ MaxCells \in Nat /\ MaxCells >= 1
    BY <1>2, <1>4, <1>6, Numbers
  <2> HIDE DEF m, l
  <2>2. Len(temp') <= m /\ Len(temp') < pos' /\ pos' \in 1..2 * MaxCells /\ pos' > pos
    BY <2>1
  <2>3. QED
    BY <2>2 DEF m
<1>8. Compressing(e)'
  <2>1. CASE pos \in Begins(Before(archive, e)) /\ pos < e
    <3>1. temp' = temp \o Part(archive, pos, 1 + archive[pos].size)
      BY <1>2 DEF r, size
    <3>2. QED
      BY <1>1, <1>2, <1>4, <2>1, <3>1, RecordPassed
  <2>2. CASE ~(pos \in Begins(Before(archive, e)) /\ pos < e)
    <3>1. pos' \in Nat
      BY <1>7, Numbers
    <3>2. QED
      BY <1>1, <1>2, <1>5, <1>7, <2>2, <3>1, BeyondTheEnd
  <2>3. QED
    BY <2>1, <2>2
<1>9. QED
  BY <1>1, <1>2, <1>6, <1>7, <1>8, CompressGoesOn

LEMMA DropRecordKeeps ==
  ASSUME IInv, DropRecord
  PROVE  IInv'
<1>1. PICK e \in 1..Len(archive) + 1 : Sound(e)
  BY DEF IInv
<1> DEFINE size == archive[pos].size
<1>2. /\ op = "compress" /\ pos <= Len(archive) /\ IsHeader(archive[pos])
      /\ archive[pos].marked_deleted /\ pos' = pos + 1 + size
      /\ UNCHANGED <<archive, op, target, source, output, start, temp, intact, complete>>
  BY DEF DropRecord
<1>3. pos \in 1..Len(archive) /\ archive \in Seq(Cells) /\ temp \in Seq(Cells)
  BY <1>2, Numbers
<1>4. size \in Nat /\ size < MaxCells /\ pos' = After(archive, pos)
  BY <1>2, <1>3, HeaderFacts DEF After
<1> HIDE DEF size
<1>5. Len(temp') <= Len(archive) /\ Len(temp') < pos' /\ pos' \in 1..2 * MaxCells /\ pos' > pos
  <2>1. temp' = temp
    BY <1>2
  <2>2. Len(temp) < pos' /\ pos' \in 1..2 * MaxCells /\ pos' > pos
    <3> DEFINE m == Len(archive)
               l == Len(temp)
    <3>1. /\ pos' = pos + 1 + size /\ pos <= m /\ size < MaxCells
          /\ m \in Nat /\ l \in Nat /\ size \in Nat /\ pos \in Nat /\ pos >= 1 /\ l < pos /\ m <= MaxCells
          /\ MaxCells \in Nat /\ MaxCells >= 1
      BY <1>2, <1>4, Numbers
    <3> HIDE DEF m, l
    <3>2. l < pos' /\ pos' \in 1..2 * MaxCells /\ pos' > pos
      BY <3>1
    <3>3. QED
      BY <3>2 DEF l
  <2>3. QED
    BY <2>1, <2>2, Numbers
<1>6. Compressing(e)'
  <2>1. CASE pos \in Begins(Before(archive, e)) /\ pos < e
    BY <1>1, <1>2, <1>4, <2>1, RecordPassed
  <2>2. CASE ~(pos \in Begins(Before(archive, e)) /\ pos < e)
    <3>1. pos' \in Nat
      BY <1>5, Numbers
    <3>2. temp' = temp /\ temp \in Seq(Cells)
      BY <1>2, <1>3
    <3>3. QED
      BY <1>1, <1>2, <1>5, <2>2, <3>1, <3>2, BeyondTheEnd
  <2>3. QED
    BY <2>1, <2>2
<1>7. temp' \in Seq(Cells)
  BY <1>2, <1>3
<1>8. QED
  BY <1>1, <1>2, <1>5, <1>6, <1>7, CompressGoesOn

LEMMA CompressGarbageKeeps ==
  ASSUME IInv, CompressGarbage
  PROVE  IInv'
<1>1. PICK e \in 1..Len(archive) + 1 : Sound(e)
  BY DEF IInv
<1>2. /\ op = "compress" /\ pos <= Len(archive) /\ ~IsHeader(archive[pos])
      /\ UNCHANGED <<archive, intact, complete>>
  BY DEF CompressGarbage
<1>3. CASE End
  BY <1>2, <1>3, EndsUnchanged
<1>4. CASE /\ \E n \in 1..Len(archive) + 1 - pos :
                pos' = pos + n /\ temp' \in {temp, temp \o Part(archive, pos, n)}
           /\ UNCHANGED <<op, target, source, output, start>>
  <2>1. PICK n \in 1..Len(archive) + 1 - pos :
               pos' = pos + n /\ temp' \in {temp, temp \o Part(archive, pos, n)}
    BY <1>4
  <2> DEFINE r == Part(archive, pos, n)
  <2>2. /\ n \in Nat /\ n >= 1 /\ pos + n <= Len(archive) + 1 /\ pos \in 1..Len(archive) + 1
        /\ pos + n - 1 <= Len(archive) /\ temp \in Seq(Cells) /\ archive \in Seq(Cells)
    <3> DEFINE m == Len(archive)
    <3>1. /\ n \in 1..m + 1 - pos /\ pos <= m /\ m \in Nat /\ pos \in Nat /\ pos >= 1
          /\ temp \in Seq(Cells) /\ archive \in Seq(Cells)
      BY <1>2, Numbers
    <3> HIDE DEF m
    <3>2. n \in Nat /\ n >= 1 /\ pos + n <= m + 1 /\ pos \in 1..m + 1 /\ pos + n - 1 <= m
      BY <3>1
    <3>3. QED
      BY <3>1, <3>2 DEF m
  <2>3. r \in Seq(Cells) /\ Len(r) = n
    BY <2>2, PartFacts
  <2> HIDE DEF r
  <2>4. temp' \in Seq(Cells) /\ (Len(temp') = Len(temp) \/ Len(temp') = Len(temp) + n)
    <3>1. temp \o r \in Seq(Cells) /\ Len(temp \o r) = Len(temp) + n
      BY <2>2, <2>3, ConcatFacts
    <3>2. temp' = temp \/ temp' = temp \o r
      BY <2>1 DEF r
    <3>3. QED
      BY <2>2, <3>1, <3>2
  <2>5. Len(temp') <= Len(archive) /\ Len(temp') < pos' /\ pos' \in 1..2 * MaxCells /\ pos' > pos
    BY <2>1, <2>2, <2>4, Numbers
  <2>6. ~(pos \in Begins(Before(archive, e)) /\ pos < e)
    BY <1>2, <2>2, BeginsFacts
  <2>7. Compressing(e)'
    <3>1. pos' \in Nat /\ (temp' = temp \/ temp' = temp \o r)
      <4>1. pos' \in Nat
        BY <2>5
      <4>2. QED
        BY <4>1, <2>1 DEF r
    <3>2. QED
      BY <1>1, <1>2, <2>3, <2>5, <2>6, <3>1, BeyondTheEnd
  <2>8. QED
    BY <1>1, <1>2, <1>4, <2>4, <2>5, <2>7, CompressGoesOn
<1>5. QED
  BY <1>3, <1>4 DEF CompressGarbage

LEMMA RenameKeeps ==
  ASSUME IInv, Rename
  PROVE  IInv'
<1>1. PICK e \in 1..Len(archive) + 1 : Sound(e)
  BY DEF IInv
<1>2. /\ op = "compress" /\ pos > Len(archive) /\ archive' = temp /\ End
      /\ UNCHANGED <<intact, complete>>
  BY DEF Rename
<1>3. /\ Compressing(e) /\ complete = Records(Before(archive, e))[1]
      /\ archive \in Seq(Cells) /\ temp \in Seq(Cells) /\ Len(temp) <= MaxCells /\ intact \in BOOLEAN
  <2>1. Len(temp) <= MaxCells
    BY Numbers
  <2>2. QED
    BY <1>1, <1>2, <2>1, Numbers DEF Sound, IInv, TypeOK
<1>4. CASE /\ pos \in Begins(Before(archive, e))
           /\ Whole(temp) /\ Records(temp)[1] = Records(Before(archive, pos))[1]
  <2>1. pos = e
    <3>1. pos \in 1..e
      BY <1>3, <1>4, BeginsFacts
    <3>2. QED
      BY <3>1, <1>2, Numbers
  <2>2. Len(temp) + 1 \in 1..Len(temp) + 1 /\ Before(temp, Len(temp) + 1) = temp
    BY <1>3, BeforeAll, Numbers
  <2>3. QED
    BY <1>2, <1>3, <1>4, <2>1, <2>2, EndKeeps
<1>5. CASE /\ ~intact /\ pos > e
           /\ \E end \in 1..Len(temp) + 1 :
                Whole(Before(temp, end)) /\ Records(Before(temp, end))[1] = complete
  <2>1. PICK end \in 1..Len(temp) + 1 :
               Whole(Before(temp, end)) /\ Records(Before(temp, end))[1] = complete
    BY <1>5
  <2>2. QED
    BY <1>2, <1>3, <1>5, <2>1, EndKeeps
<1>6. QED
  BY <1>3, <1>4, <1>5 DEF Compressing

-----------------------------------------------------------------------------
(* The invariant, and what it is for.                                      *)

LEMMA InitIInv == Init => IInv
<1> SUFFICES ASSUME Init PROVE IInv
  OBVIOUS
<1>1. <<>> \in Seq(Cells) /\ Len(<<>>) = 0 /\ MaxCells \in Nat /\ MaxCells >= 1
  BY EmptySeq, ArchiveAssumption
<1>2. NoTarget \in Names
  BY ArchiveAssumption DEF NoTarget
<1>3. TypeOK
  BY <1>1, <1>2, SourceFacts DEF Init, TypeOK
<1>4. Sizes
  BY <1>1 DEF Init, Sizes
<1>5. 1 \in 1..Len(archive) + 1 /\ archive = <<>>
  BY <1>1 DEF Init
<1>6. Before(archive, 1) = <<>>
  BY <1>5, SubSeqEmpty DEF Before, Part
<1>7. Sound(1)
  BY <1>1, <1>6, NoRecords DEF Init, Sound
<1>8. QED
  BY <1>3, <1>4, <1>5, <1>7 DEF IInv

LEMMA NextKeeps ==
  ASSUME IInv, Next
  PROVE  IInv'
<1>1. CASE \E n \in Names : AddHeader(n) \/ StartExtract(n)
  BY <1>1, AddHeaderKeeps, StartExtractKeeps
<1>2. CASE AddData
  BY <1>2, AddDataKeeps
<1>3. CASE AddHeaderFails
  BY <1>3, AddHeaderFailsKeeps
<1>4. CASE AddSucceeds \/ AddEnds
  BY <1>4, AddEndingKeeps
<1>5. CASE NotFound \/ NotExtracted \/ CopyFails \/ CutShort \/ Interrupted
  <2>1. op # "add" /\ End /\ UNCHANGED <<archive, intact, complete>>
    BY <1>5 DEF NotFound, NotExtracted, Found, CopyFails, CutShort, Interrupted
  <2>2. QED
    BY <2>1, EndsUnchanged
<1>6. CASE SkipRecord
  BY <1>6, SkipRecordKeeps
<1>7. CASE SkipGarbage
  BY <1>7, SkipGarbageKeeps
<1>8. CASE OpenOutput
  BY <1>8, OpenOutputKeeps
<1>9. CASE CopyOut
  BY <1>9, CopyOutKeeps
<1>10. CASE MarkDeleted \/ MarkFails
  BY <1>10, MarkKeeps
<1>11. CASE KeepRecord
  BY <1>11, KeepRecordKeeps
<1>12. CASE DropRecord
  BY <1>12, DropRecordKeeps
<1>13. CASE CompressGarbage
  BY <1>13, CompressGarbageKeeps
<1>14. CASE Rename
  BY <1>14, RenameKeeps
<1>15. QED
  BY <1>1, <1>2, <1>3, <1>4, <1>5, <1>6, <1>7, <1>8, <1>9, <1>10, <1>11, <1>12, <1>13, <1>14
  DEF Next

LEMMA Invariance == Spec => []IInv
<1>1. Init => IInv
  BY InitIInv
<1>2. IInv /\ [Next]_vars => IInv'
  <2>1. IInv /\ Next => IInv'
    BY NextKeeps
  <2>2. IInv /\ UNCHANGED vars => IInv'
    <3>1. SUFFICES ASSUME IInv, UNCHANGED vars PROVE IInv'
      OBVIOUS
    <3>2. UNCHANGED <<archive, op, target, source, output, pos, start, temp, intact, complete>>
      BY <3>1 DEF vars, locals
    <3>3. PICK e \in 1..Len(archive) + 1 : Sound(e)
      BY <3>1 DEF IInv
    <3>4. TypeOK'
      BY <3>1, <3>2 DEF IInv, TypeOK
    <3>5. Sizes'
      BY <3>1, <3>2 DEF IInv, Sizes
    <3>6. Adding(e) => Adding(e)'
      BY <3>2 DEF Adding
    <3>7. Scanning(e) => Scanning(e)'
      BY <3>2 DEF Scanning, None
    <3>8. Copying(e) => Copying(e)'
      BY <3>2 DEF Copying, Matches, None
    <3>9. Compressing(e) => Compressing(e)'
      BY <3>2 DEF Compressing
    <3>10. Sound(e)'
      BY <3>2, <3>3, <3>6, <3>7, <3>8, <3>9 DEF Sound
    <3>11. QED
      BY <3>2, <3>4, <3>5, <3>10 DEF IInv
  <2>3. QED
    BY <2>1, <2>2
<1>3. QED
  BY <1>1, <1>2, PTL DEF Spec

(* The archive stays within the bound of the model and what is copied from *)
(* it is never longer than it is: the output file and the temporary file   *)
(* hold what has been read (main.c:262-275, 121-152).                      *)
THEOREM ArchiveTypes == Spec => []TypeOK
<1>1. IInv => TypeOK
  BY DEF IInv
<1>2. QED
  BY <1>1, Invariance, PTL

(* Every record that was added completely before anything was damaged is   *)
(* found by a reader of the archive until it is extracted, and as long as  *)
(* nothing is damaged and nothing is being added, no other record is       *)
(* (main.c:121-152, 201-208, 246-284).                                     *)
THEOREM RecordsAreKept == Spec => []NothingIsLost
<1>1. ASSUME IInv PROVE NothingIsLost
  <2>1. PICK e \in 1..Len(archive) + 1 : Sound(e)
    BY <1>1 DEF IInv
  <2> DEFINE m == Len(archive)
             b == Before(archive, e)
             rest == Part(archive, e, (m + 1) - e)
  <2>2. m \in Nat /\ archive \in Seq(Cells) /\ complete = Records(b)[1] /\ Whole(b)
    BY <1>1, <2>1, Numbers DEF Sound
  <2>3. b \in Seq(Cells)
    BY <2>2, BeforeFacts
  <2>4. rest \in Seq(Cells)
    <3>1. (m + 1) - e \in Nat /\ e + ((m + 1) - e) - 1 <= m
      BY <2>2
    <3> HIDE DEF m
    <3>2. QED
      BY <2>2, <3>1, PartFacts DEF m
  <2>5. archive = b \o rest
    <3>1. m + 1 \in e..m + 1
      BY <2>2
    <3>2. Before(archive, m + 1) = Before(archive, e) \o Part(archive, e, (m + 1) - e)
      BY <2>2, <3>1, Split
    <3>3. Before(archive, m + 1) = archive
      BY <2>2, BeforeAll
    <3>4. QED
      BY <3>2, <3>3
  <2>6. complete \in Seq(RecordSet) /\ Records(rest)[1] \in Seq(RecordSet)
    <3>1. 1 \in 1..Len(b) + 1 /\ 1 \in 1..Len(rest) + 1
      BY <2>3, <2>4, LenProperties
    <3> HIDE DEF b, rest
    <3>2. QED
      BY <2>2, <2>3, <2>4, <3>1, RecordsType
  <2>7. Live = complete \o Records(rest)[1]
    <3> HIDE DEF b, rest
    <3>1. Records(b \o rest)[1] = Records(b)[1] \o Records(rest)[1]
      BY <2>2, <2>3, <2>4, JoinRecords
    <3>2. QED
      BY <2>2, <2>5, <3>1 DEF Live
  <2>8. IsPrefix(complete, Live)
    <3> DEFINE more == Records(rest)[1]
               l == Len(complete)
    <3>1. more \in Seq(RecordSet) /\ l \in Nat /\ Live = complete \o more /\ complete \in Seq(RecordSet)
      BY <2>6, <2>7, LenProperties
    <3> HIDE DEF more
    <3>2. l <= Len(Live)
      <4>1. Len(complete \o more) = Len(complete) + Len(more) /\ Len(more) \in Nat
        BY <3>1, ConcatFacts
      <4>2. QED
        BY <3>1, <4>1
    <3>3. Part(Live, 1, l) = Part(complete, 1, l)
      <4>1. 1 \in 1..Len(complete) + 1 /\ 1 + l - 1 <= Len(complete)
        BY <3>1
      <4>2. Part(complete \o more, 1, l) = Part(complete, 1, l)
        BY <3>1, <4>1, PartOfFirst
      <4>3. QED
        BY <3>1, <4>2
    <3>4. 1 + l - 1 = l
      BY <3>1
    <3>5. QED
      BY <3>2, <3>3, <3>4 DEF IsPrefix, Part
  <2>9. ASSUME intact, op # "add" PROVE Live = complete
    <3>1. e = m + 1
      BY <2>1, <2>9 DEF Sound
    <3>2. b = archive
      BY <2>2, <3>1, BeforeAll
    <3>3. QED
      BY <2>2, <3>2 DEF Live
  <2>10. QED
    BY <2>8, <2>9 DEF NothingIsLost
<1>2. QED
  BY <1>1, Invariance, PTL

(* Only the mark takes a record away, and the whole of it has been copied  *)
(* to the output file before (main.c:258-284).                             *)
THEOREM CopiedBeforeRemoved == Spec => ExtractedBeforeDeleted
<1>1. ASSUME IInv, [Next]_vars
      PROVE  Len(complete') < Len(complete) => Extracted
  <2>1. complete \in Seq(RecordSet) /\ Len(complete) \in Nat
    <3>1. PICK e \in 1..Len(archive) + 1 : Sound(e)
      BY <1>1 DEF IInv
    <3>2. complete \in Seq(RecordSet)
      BY <1>1, <3>1, CompleteFacts, Numbers DEF Sound
    <3>3. QED
      BY <3>2, LenProperties
  <2>2. CASE complete' = complete
    BY <2>1, <2>2
  <2>3. CASE MarkDeleted
    <3>1. PICK e \in 1..Len(archive) + 1 : Sound(e)
      BY <1>1 DEF IInv
    <3>2. complete' = complete \/ Extracted
      BY <1>1, <2>3, <3>1, MarkTakesOne
    <3>3. QED
      BY <2>1, <3>2
  <2>4. CASE AddSucceeds \/ AddEnds
    <3>1. complete' = complete \/ complete' = Append(complete, Added)
      BY <2>4 DEF AddSucceeds, AddEnds, WithAdded
    <3>2. Len(Append(complete, Added)) = Len(complete) + 1
      BY <2>1
    <3>3. QED
      BY <2>1, <3>1, <3>2
  <2>5. ASSUME ~MarkDeleted, ~AddSucceeds, ~AddEnds PROVE complete' = complete
    <3>1. CASE UNCHANGED vars
      BY <3>1 DEF vars
    <3>2. CASE Next
      BY <3>2, <2>5 DEF Next, AddHeader, StartExtract, AddData, AddHeaderFails, NotFound,
         SkipRecord, SkipGarbage, OpenOutput, NotExtracted, CopyOut, CopyFails, MarkFails,
         KeepRecord, CutShort, DropRecord, CompressGarbage, Rename, Interrupted
    <3>3. QED
      BY <1>1, <3>1, <3>2
  <2>6. QED
    BY <2>2, <2>3, <2>4, <2>5
<1>2. IInv /\ [Next]_vars => (Len(complete') < Len(complete) => Extracted)
  BY <1>1
<1>3. QED
  BY <1>2, Invariance, PTL DEF Spec, ExtractedBeforeDeleted, Extracted
=============================================================================
