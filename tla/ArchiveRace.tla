----------------------------- MODULE ArchiveRace ----------------------------
(***************************************************************************)
(* lab5_archive/main.c once more: what concurrent runs of the archiver do  *)
(* to each other.  (Module Archive has one run at a time, which may fail   *)
(* anywhere; here nothing fails that another run does not make fail.)      *)
(*                                                                         *)
(* Adders append to the file they have opened, a header and then the data, *)
(* while extractors mark a record in the file they have opened, copy the   *)
(* file that has the archive's name then to one of their own, and rename   *)
(* that.  So files have identities: an extractor's temporary file bears    *)
(* its name, the first archive is FirstFile.                               *)
(*                                                                         *)
(* Every file added is a text as long as a header, so that a file is a     *)
(* sequence of equal cells.  Read as a header, text has marked_deleted set *)
(* and a size far beyond the end of the archive.                           *)
(***************************************************************************)
EXTENDS Integers, Sequences

CONSTANTS Adders, Extractors

FirstFile == "first_archive"
Old       == "old_record"     (* what is in the archive at first            *)
Records   == Adders \cup {Old}
Processes == Adders \cup Extractors

Header(r)     == [kind |-> "header", record |-> r, marked_deleted |-> FALSE]
Data(r)       == [kind |-> "data", record |-> r, marked_deleted |-> TRUE]
IsHeader(c)   == c.kind = "header"

VARIABLES
  name,       (* the file that has the archive's name                       *)
  file,       (* file[f]: the cells of each file                            *)
  pc,
  fd,         (* the file each process has open                             *)
  pos,        (* the cell an extractor reads next                           *)
  target,     (* the record it is to extract                                *)
  extracted,  (* whether it could (it then says so, whatever compress does) *)
  mixed,      (* two adds have overlapped                                   *)
  raced,      (* the adds that have overlapped a compression                *)
  crossed     (* two extractions have overlapped                            *)

history == <<mixed, raced, crossed>>
vars == <<name, file, pc, fd, pos, target, extracted, history>>

Init ==
  /\ name = FirstFile
  /\ file = [f \in Extractors \cup {FirstFile} |->
               IF f = FirstFile THEN <<Header(Old), Data(Old)>> ELSE <<>>]
  /\ pc = [p \in Processes |-> "start"]
  /\ fd = [p \in Processes |-> FirstFile]
  /\ pos = [x \in Extractors |-> 1]
  /\ target \in [Extractors -> Records]
  /\ extracted = [x \in Extractors |-> FALSE]
  /\ mixed = FALSE /\ raced = {} /\ crossed = FALSE

Goto(p, label) == pc' = [pc EXCEPT ![p] = label]
Running(p) == pc[p] \notin {"start", "done"}
Adding == {a \in Adders : Running(a)}
Compressing == {x \in Extractors : pc[x] \in {"copy", "rename"}}

-----------------------------------------------------------------------------
(* add_file_to_archive                                                     *)
AddOpen(a) ==
  /\ pc[a] = "start"
  /\ fd' = [fd EXCEPT ![a] = name]
  /\ mixed' = (mixed \/ Adding # {})
  /\ Goto(a, "header")
  /\ UNCHANGED <<name, file, pos, target, extracted, raced, crossed>>

(* The next write, O_APPEND: the header, then the data.                    *)
AddWrite(a) ==
  /\ pc[a] \in {"header", "data"}
  /\ file' = [file EXCEPT ![fd[a]] =
                Append(@, IF pc[a] = "header" THEN Header(a) ELSE Data(a))]
  /\ Goto(a, IF pc[a] = "header" THEN "data" ELSE "done")
  /\ raced' = IF Compressing # {} THEN raced \cup {a} ELSE raced
  /\ UNCHANGED <<name, fd, pos, target, extracted, mixed, crossed>>

-----------------------------------------------------------------------------
(* extract_and_remove_file                                                 *)
ExtractOpen(x) ==
  /\ pc[x] = "start"
  /\ fd' = [fd EXCEPT ![x] = name]
  /\ crossed' = (crossed \/ \E y \in Extractors : Running(y))
  /\ Goto(x, "scan")
  /\ UNCHANGED <<name, file, pos, target, extracted, mixed, raced>>

Cells(x) == file[fd[x]]
Here(x) == Cells(x)[pos[x]]
AtEnd(x) == pos[x] > Len(Cells(x))

(* Behind the record just read; the size a text states is a large number. *)
TextSize == 1000
Skip(x) == pos[x] + 1 + IF IsHeader(Here(x)) THEN 1 ELSE TextSize

(* One turn of the scan; copying the data out fails if it is not there.    *)
Scan(x) ==
  /\ pc[x] = "scan"
  /\ LET wanted == ~AtEnd(x) /\ Here(x) = Header(target[x])
         found == wanted /\ pos[x] < Len(Cells(x))
     IN /\ pos' = [pos EXCEPT ![x] = IF AtEnd(x) \/ wanted THEN @ ELSE Skip(x)]
        /\ Goto(x, IF found THEN "mark" ELSE IF AtEnd(x) \/ wanted THEN "done" ELSE "scan")
  /\ UNCHANGED <<name, file, fd, target, extracted, history>>

Mark(x) ==
  /\ pc[x] = "mark"
  /\ file' = [file EXCEPT ![fd[x]][pos[x]].marked_deleted = TRUE]
  /\ extracted' = [extracted EXCEPT ![x] = TRUE]
  /\ Goto(x, "compress")
  /\ UNCHANGED <<name, fd, pos, target, history>>

(* A definition whose name ends in _Bug is a wrong version of the one that *)
(* follows it, there to be swapped in; nothing uses it.                    *)
CompressOpen_Bug(x) ==
  /\ pc[x] = "compress"
  /\ pos' = [pos EXCEPT ![x] = 1]
  /\ Goto(x, "copy")
  /\ UNCHANGED <<name, file, fd, target, extracted, history>>

(* compress_archive_file opens the archive anew, by its name.              *)
CompressOpen(x) ==
  /\ pc[x] = "compress"
  /\ fd' = [fd EXCEPT ![x] = name]
  /\ pos' = [pos EXCEPT ![x] = 1]
  /\ Goto(x, "copy")
  /\ UNCHANGED <<name, file, target, extracted, history>>

(* One turn of its loop: a header and its data are read and, if the record *)
(* is live, copied.  Without the data the compression is given up.         *)
CompressRecord(x) ==
  /\ pc[x] = "copy" /\ ~AtEnd(x)
  /\ LET live == ~Here(x).marked_deleted
         complete == pos[x] < Len(Cells(x))
     IN /\ file' = IF live /\ complete
                   THEN [file EXCEPT ![x] = @ \o SubSeq(Cells(x), pos[x], pos[x] + 1)]
                   ELSE file
        /\ Goto(x, IF live /\ ~complete THEN "done" ELSE "copy")
        /\ pos' = [pos EXCEPT ![x] = Skip(x)]
  /\ UNCHANGED <<name, fd, target, extracted, history>>

CompressEnd(x) ==
  /\ pc[x] = "copy" /\ AtEnd(x)
  /\ Goto(x, "rename")
  /\ UNCHANGED <<name, file, fd, pos, target, extracted, history>>

Rename(x) ==
  /\ pc[x] = "rename"
  /\ name' = x
  /\ raced' = raced \cup Adding
  /\ Goto(x, "done")
  /\ UNCHANGED <<file, fd, pos, target, extracted, mixed, crossed>>

Next ==
  \/ \E a \in Adders : AddOpen(a) \/ AddWrite(a)
  \/ \E x \in Extractors : ExtractOpen(x) \/ Scan(x) \/ Mark(x) \/ CompressOpen(x)
                             \/ CompressRecord(x) \/ CompressEnd(x) \/ Rename(x)
  \/ (\A p \in Processes : pc[p] = "done") /\ UNCHANGED vars

Spec == Init /\ [][Next]_vars

-----------------------------------------------------------------------------
(* The live records that a reader of the archive comes to.                 *)
Live ==
  LET cells == file[name]
      garbled(i) == \E j \in 1..i : j % 2 = 1 /\ ~IsHeader(cells[j])
  IN {cells[i].record : i \in {i \in DOMAIN cells :
        i % 2 = 1 /\ ~garbled(i) /\ ~cells[i].marked_deleted}}

TypeOK ==
  /\ name \in Extractors \cup {FirstFile}
  /\ \A f \in DOMAIN file : \A i \in DOMAIN file[f] : file[f][i].record \in Records
  /\ DOMAIN pc = Processes
  /\ fd \in [Processes -> DOMAIN file]
  /\ \A x \in Extractors : pos[x] \in Nat \ {0}
  /\ target \in [Extractors -> Records]
  /\ extracted \in [Extractors -> BOOLEAN]
  /\ mixed \in BOOLEAN /\ raced \subseteq Adders /\ crossed \in BOOLEAN

(* As long as no two adds have overlapped, a record whose add has ended is *)
(* in the archive until it is extracted, unless the add overlapped a       *)
(* compression; and as long as no two extractions have overlapped, an      *)
(* extracted record does not come back (main.c:97, 121-140, 152, 168,      *)
(* 201-208, 276-284).                                                      *)
LostOnlyInARace ==
  /\ mixed = FALSE =>
       \A r \in Records \ raced :
         \/ r \in Live
         \/ r \in Adders /\ pc[r] # "done"
         \/ \E x \in Extractors : target[x] = r /\ extracted[x]
  /\ crossed = FALSE =>
       \A x \in Extractors : extracted[x] => target[x] \notin Live

-----------------------------------------------------------------------------
(* What holds in every state, for the proofs.                              *)
Marked(r) == [kind |-> "header", record |-> r, marked_deleted |-> TRUE]
AnyCell == UNION {{Header(r), Marked(r), Data(r)} : r \in Records}
IsOf(c, r) == c \in {Header(r), Marked(r)}

Labels(p) == IF p \in Adders THEN {"start", "header", "data", "done"}
             ELSE {"start", "scan", "mark", "compress", "copy", "rename", "done"}

Typed ==
  /\ name \in DOMAIN file
  /\ file \in [Extractors \cup {FirstFile} -> Seq(AnyCell)]
  /\ DOMAIN pc = Processes /\ \A p \in Processes : pc[p] \in Labels(p)
  /\ fd \in [Processes -> DOMAIN file]
  /\ pos \in [Extractors -> Nat \ {0}]
  /\ target \in [Extractors -> Records]
  /\ raced \subseteq Adders
Flags == extracted \in [Extractors -> BOOLEAN] /\ mixed \in BOOLEAN /\ crossed \in BOOLEAN

(* Nobody has an extractor's temporary file open before it is renamed.     *)
OwnFile ==
  \A x \in Extractors : pc[x] # "done" =>
    /\ name # x
    /\ \A p \in Processes : fd[p] # x
    /\ x \notin Compressing => file[x] = <<>>

(* Every file has at most one header of a record, and none before its      *)
(* adder has written it.  What was copied lies behind the copier.          *)
OneHeader ==
  /\ \A f \in DOMAIN file : \A r \in Records : \A k, m \in DOMAIN file[f] :
       IsOf(file[f][k], r) /\ IsOf(file[f][m], r) => k = m
  /\ \A a \in Adders : pc[a] \in {"start", "header"} =>
       \A f \in DOMAIN file : \A k \in DOMAIN file[f] : ~IsOf(file[f][k], a)
  /\ \A x \in Extractors : pc[x] = "copy" =>
       \A r \in Records : \A k \in DOMAIN file[x] : IsOf(file[x][k], r) =>
         \E m \in DOMAIN Cells(x) : m < pos[x] /\ IsOf(Cells(x)[m], r)

(* An extractor has found its record.                                      *)
Found ==
  \A x \in Extractors : pc[x] = "mark" =>
    pos[x] < Len(Cells(x)) /\ IsOf(Here(x), target[x])

(* Extractions one after the other: what was extracted is marked in the    *)
(* archive, and left out of what becomes the archive.                      *)
Extracted ==
  /\ \A x \in Extractors : extracted[x] = TRUE /\ target[x] \in Adders =>
       pc[target[x]] \in {"data", "done"}
  /\ crossed = FALSE =>
       /\ \A x, y \in Extractors : Running(x) /\ Running(y) => x = y
       /\ \A x \in Extractors : Running(x) => fd[x] = name
       /\ \A x \in Extractors : extracted[x] = TRUE =>
            \A f \in Compressing \cup {name} : \A k \in DOMAIN file[f] :
              file[f][k] # Header(target[x])

(* Adds one after the other: headers and data alternate, and the adder     *)
(* that runs, unless a compression came in between, writes to the archive. *)
Odd(k) == k % 2 = 1
Alternating ==
  mixed = FALSE =>
    /\ \A a1, a2 \in Adding : a1 = a2
    /\ \A f \in DOMAIN file : \A k \in DOMAIN file[f] : IsHeader(file[f][k]) <=> Odd(k)
    /\ \A f \in DOMAIN file : Odd(Len(file[f])) => \E a \in Adders : pc[a] = "data" /\ fd[a] = f
    /\ \A a \in Adders : pc[a] = "data" => Odd(Len(file[fd[a]]))
    /\ \A x \in Extractors : Odd(pos[x])
    /\ \A a \in Adding \ raced :
         fd[a] = name /\ (pc[a] = "data" => file[name][Len(file[name])] = Header(a))

(* A record that is added, not extracted, and was not in a race, is in the *)
(* archive with its data, and in what is to become the archive or still to *)
(* be copied there.                                                        *)
Safe(r) ==
  /\ r \notin raced
  /\ r \in Adders => pc[r] = "done"
  /\ \A x \in Extractors : target[x] = r => extracted[x] = FALSE
Has(cells, first, r) ==
  \E k \in first..Len(cells) - 1 : Odd(k) /\ cells[k] = Header(r)
NothingLost ==
  mixed = FALSE =>
    \A r \in Records : Safe(r) =>
      /\ Has(file[name], 1, r)
      /\ \A x \in Compressing :
           \/ Has(file[x], 1, r)
           \/ pc[x] = "copy" /\ Has(Cells(x), pos[x], r)

IInv ==
  Typed /\ Flags /\ OwnFile /\ OneHeader /\ Found /\ Extracted /\ Alternating /\ NothingLost
=============================================================================
