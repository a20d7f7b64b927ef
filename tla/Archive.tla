------------------------------ MODULE Archive ------------------------------
(***************************************************************************)
(* lab5_archive/main.c: an archive is a file of records, each a header     *)
(* (path, size, marked_deleted) and the data of one file.  One run of the  *)
(* program adds a file at the end, or extracts the first live record with  *)
(* a path: it copies the data out, marks the record, copies the live       *)
(* records to a temporary file and renames that over the archive.          *)
(*                                                                         *)
(* Files are sequences of cells; a header is one cell, data one cell a     *)
(* piece.  Runs follow one another, and any run can end at any point: it   *)
(* is killed, or a read or write fails (Interrupted).  The variables       *)
(* intact and complete are not the program's: they say what it has been    *)
(* given.                                                                  *)
(*                                                                         *)
(* A definition whose name ends in _Bug is a wrong version of the one that *)
(* follows it, there to be swapped in; nothing uses it.                    *)
(***************************************************************************)
EXTENDS Integers, SequencesExt

CONSTANTS
  Names,      (* the paths                                                  *)
  Contents,   (* what the user may put into a file: sequences of Data cells *)
  MaxCells    (* bound: how long the archive gets                           *)

Data(token) == [kind |-> "data", token |-> token]
Header(n, size) ==
  [kind |-> "header", path |-> n, size |-> size, marked_deleted |-> FALSE]
IsHeader(cell) == cell.kind = "header"

(* What the user's files are made of.                                      *)
Pieces == UNION {Range(text) : text \in Contents}

ASSUME ArchiveAssumption ==
  /\ MaxCells \in Nat \ {0} /\ Names # {}
  /\ <<>> \in Contents /\ Contents \subseteq Seq(Pieces)
  /\ \A cell \in Pieces : ~IsHeader(cell)

(* What is left of a header when the write of it is cut short.             *)
Fragment == Data("part_of_a_header")

(* A directory has a size, but reading it fails.                           *)
Directory  == [readable |-> FALSE, text |-> <<Data("entry")>>]
File(text) == [readable |-> TRUE, text |-> text]
Sources    == {Directory} \cup {File(text) : text \in Contents}

VARIABLES
  archive,    (* the cells of the archive file                              *)
  op,         (* where the run of the program is                            *)
  target,     (* the path it was given                                      *)
  source,     (* the file it adds                                           *)
  output,     (* what it has written to the file it extracts to             *)
  pos,        (* the cell it reads next: of its source, or of the archive   *)
  start,      (* record_start: the header of the record being extracted     *)
  temp,       (* the temporary file of compress_archive_file                *)
  intact,     (* so far every record in the archive was written to its end  *)
  complete    (* the complete records before any damage, marked ones not    *)

locals == <<target, source, output, pos, start, temp>>
vars == <<archive, op, locals, intact, complete>>

NoTarget == CHOOSE n \in Names : TRUE

Init ==
  /\ archive = <<>>
  /\ op = "idle"
  /\ target = NoTarget
  /\ source = File(<<>>) /\ output = <<>>
  /\ pos = 1 /\ start = 1 /\ temp = <<>>
  /\ intact = TRUE
  /\ complete = <<>>

(* mkstemp: every compression starts with an empty file of its own.  (The  *)
(* model empties it at the end of the run before.)                         *)
NewTempFile_Bug == UNCHANGED temp
NewTempFile == temp' = <<>>

(* The program exits; what it had in memory is gone.                       *)
End ==
  /\ op' = "idle"
  /\ source' = File(<<>>) /\ output' = <<>>
  /\ pos' = 1 /\ start' = 1
  /\ NewTempFile
  /\ target' = NoTarget

Part(cells, first, n) == SubSeq(cells, first, first + n - 1)

-----------------------------------------------------------------------------
(* add_file_to_archive.  A directory opens like a file, and has a size.    *)

AddHeader(n) ==
  /\ op = "idle"
  /\ \E file \in Sources :
       /\ Len(archive) + 1 + Len(file.text) <= MaxCells
       /\ archive' = Append(archive, Header(n, Len(file.text)))
       /\ source' = file
  /\ op' = "add" /\ target' = n
  /\ UNCHANGED <<output, pos, start, temp, intact, complete>>

AddData ==
  /\ op = "add"
  /\ source.readable /\ pos <= Len(source.text)
  /\ archive' = Append(archive, source.text[pos])
  /\ pos' = pos + 1
  /\ UNCHANGED <<op, target, source, output, start, temp, intact, complete>>

(* The header does not get onto the disk, or a part of it does.            *)
AddHeaderFails ==
  /\ op = "idle"
  /\ Len(archive) < MaxCells
  /\ archive' = Append(archive, Fragment)
  /\ intact' = FALSE
  /\ UNCHANGED <<op, locals, complete>>

(* All data of the record is in the archive.                               *)
AddDone == source.readable /\ pos = Len(source.text) + 1

Added == [path |-> target, text |-> source.text]
WithAdded == IF intact THEN Append(complete, Added) ELSE complete

AddSucceeds ==
  /\ op = "add"
  /\ AddDone
  /\ complete' = WithAdded
  /\ End
  /\ UNCHANGED <<archive, intact>>

(* The run ends before it reports success: it is killed, a call fails, or  *)
(* the source is a directory, which cannot be read.                        *)
AddEnds ==
  /\ op = "add"
  /\ intact' = (intact /\ AddDone)
  /\ complete' = IF AddDone THEN WithAdded ELSE complete
  /\ End
  /\ UNCHANGED archive

-----------------------------------------------------------------------------
(* extract_and_remove_file.                                                *)

StartExtract(n) ==
  /\ op = "idle"
  /\ op' = "scan" /\ target' = n
  /\ UNCHANGED <<archive, source, output, pos, start, temp, intact, complete>>

NotFound ==
  /\ op = "scan"
  /\ pos > Len(archive)
  /\ End
  /\ UNCHANGED <<archive, intact, complete>>

Matches_Bug(record) == record.path = target
Matches(record) == record.path = target /\ ~record.marked_deleted

(* Seeking beyond the end of the archive is no error.                      *)
SkipRecord ==
  /\ op = "scan"
  /\ pos <= Len(archive) /\ IsHeader(archive[pos]) /\ ~Matches(archive[pos])
  /\ pos' = pos + 1 + archive[pos].size
  /\ UNCHANGED <<archive, op, target, source, output, start, temp, intact,
                 complete>>

(* Data taken for a header: no path matches it, and where its size leads   *)
(* nobody knows.                                                           *)
SkipGarbage ==
  /\ op = "scan"
  /\ pos <= Len(archive) /\ ~IsHeader(archive[pos])
  /\ \/ /\ pos' \in 1..Len(archive) + 1
        /\ UNCHANGED <<op, target, source, output, start, temp>>
     \/ End
  /\ UNCHANGED <<archive, intact, complete>>

Found ==
  /\ op = "scan"
  /\ pos <= Len(archive) /\ IsHeader(archive[pos]) /\ Matches(archive[pos])

OpenOutput ==
  /\ Found
  /\ output' = <<>>
  /\ start' = pos /\ pos' = pos + 1
  /\ op' = "copy"
  /\ UNCHANGED <<archive, target, source, temp, intact, complete>>

(* The file is larger than MAX_ALLOWED_SIZE, or cannot be created.         *)
NotExtracted ==
  /\ Found
  /\ End
  /\ UNCHANGED <<archive, intact, complete>>

DataLeft == pos <= start + archive[start].size

CopyOut ==
  /\ op = "copy"
  /\ DataLeft /\ pos <= Len(archive)
  /\ output' = Append(output, archive[pos])
  /\ pos' = pos + 1
  /\ UNCHANGED <<archive, op, target, source, start, temp, intact, complete>>

CopyFails ==
  /\ op = "copy"
  /\ DataLeft /\ pos > Len(archive)
  /\ End
  /\ UNCHANGED <<archive, intact, complete>>

ReadyToMark_Bug == op = "copy"
ReadyToMark == op = "copy" /\ ~DataLeft

(* What is complete no longer: the first promise for the path.             *)
Remaining ==
  LET k == CHOOSE k \in 1..Len(complete) :
             /\ complete[k].path = target
             /\ \A j \in 1..k - 1 : complete[j].path # target
  IN  IF \E j \in 1..Len(complete) : complete[j].path = target
      THEN Part(complete, 1, k - 1) \o Part(complete, k + 1, Len(complete) - k)
      ELSE complete

MarkDeleted ==
  /\ ReadyToMark
  /\ archive' = [archive EXCEPT ![start].marked_deleted = TRUE]
  /\ complete' = Remaining
  /\ op' = "compress" /\ pos' = 1
  /\ UNCHANGED <<target, source, output, start, temp, intact>>

(* A mark that cannot be written does not stop the run.                    *)
MarkFails ==
  /\ ReadyToMark
  /\ op' = "compress" /\ pos' = 1
  /\ UNCHANGED <<archive, target, source, output, start, temp, intact, complete>>

-----------------------------------------------------------------------------
(* compress_archive_file, one record at a time.                            *)

KeepRecord ==
  /\ op = "compress"
  /\ pos <= Len(archive) /\ IsHeader(archive[pos])
  /\ ~archive[pos].marked_deleted
  /\ pos + archive[pos].size <= Len(archive)
  /\ temp' = temp \o Part(archive, pos, 1 + archive[pos].size)
  /\ pos' = pos + 1 + archive[pos].size
  /\ UNCHANGED <<archive, op, target, source, output, start, intact, complete>>

CutShort ==
  /\ op = "compress"
  /\ pos <= Len(archive) /\ IsHeader(archive[pos])
  /\ ~archive[pos].marked_deleted
  /\ pos + archive[pos].size > Len(archive)
  /\ End
  /\ UNCHANGED <<archive, intact, complete>>

DropRecord ==
  /\ op = "compress"
  /\ pos <= Len(archive) /\ IsHeader(archive[pos])
  /\ archive[pos].marked_deleted
  /\ pos' = pos + 1 + archive[pos].size
  /\ UNCHANGED <<archive, op, target, source, output, start, temp, intact,
                 complete>>

(* Data taken for a header: copied or skipped, with any size, or an error, *)
(* or too short for a header, which ends the loop like the end of file.    *)
CompressGarbage ==
  /\ op = "compress"
  /\ pos <= Len(archive) /\ ~IsHeader(archive[pos])
  /\ \/ End
     \/ /\ \E n \in 1..Len(archive) + 1 - pos :
             /\ pos' = pos + n
             /\ temp' \in {temp, temp \o Part(archive, pos, n)}
        /\ UNCHANGED <<op, target, source, output, start>>
  /\ UNCHANGED <<archive, intact, complete>>

Rename ==
  /\ op = "compress"
  /\ pos > Len(archive)
  /\ archive' = temp
  /\ End
  /\ UNCHANGED <<intact, complete>>

-----------------------------------------------------------------------------
(* An extracting run is killed, or a system call fails; a temporary file   *)
(* is left behind or removed, and nobody looks at it again.                *)
Interrupted ==
  /\ op \in {"scan", "copy", "compress"}
  /\ End
  /\ UNCHANGED <<archive, intact, complete>>

Next ==
  \/ \E n \in Names : AddHeader(n) \/ StartExtract(n)
  \/ AddData \/ AddHeaderFails \/ AddSucceeds \/ AddEnds
  \/ NotFound \/ SkipRecord \/ SkipGarbage \/ OpenOutput \/ NotExtracted
  \/ CopyOut \/ CopyFails \/ MarkDeleted \/ MarkFails
  \/ KeepRecord \/ CutShort \/ DropRecord \/ CompressGarbage \/ Rename
  \/ Interrupted

Spec == Init /\ [][Next]_vars

-----------------------------------------------------------------------------
TypeOK ==
  /\ source \in Sources
  /\ Len(output) <= Len(archive)
  /\ Len(archive) <= MaxCells
  /\ op \in {"idle", "add", "scan", "copy", "compress"}
  /\ target \in Names
  /\ pos \in 1..2 * MaxCells /\ start \in 1..MaxCells
  /\ Len(temp) <= Len(archive)
  /\ intact \in BOOLEAN
  /\ \A k \in 1..Len(complete) : complete[k].path \in Names

(* What a reader finds from position k on: both the listing and the        *)
(* extraction read a header and skip the size it states.  The listing also *)
(* shows a last record whose data is missing; here a record counts when    *)
(* all its data is there to be extracted.                                  *)
IsRecord(cells, k) ==
  k <= Len(cells) /\ IsHeader(cells[k]) /\ k + cells[k].size <= Len(cells)
After(cells, k) == k + 1 + cells[k].size
RecordAt(cells, k) ==
  IF cells[k].marked_deleted THEN <<>>
  ELSE <<[path |-> cells[k].path, text |-> Part(cells, k + 1, cells[k].size)]>>
Records(cells) ==
  LET from[k \in 1..Len(cells) + 1] ==
        IF IsRecord(cells, k) THEN RecordAt(cells, k) \o from[After(cells, k)]
        ELSE <<>>
  IN  from
Live == Records(archive)[1]

(* A record that was added completely, before anything was damaged, stays  *)
(* in the archive until it is extracted, whatever runs fail or are killed  *)
(* between two of their steps; and as long as nothing is damaged, nothing  *)
(* else is in there: no deleted record comes back (main.c:121-152,         *)
(* 201-208, 246-284).                                                      *)
NothingIsLost ==
  /\ IsPrefix(complete, Live)
  /\ intact /\ op # "add" => Live = complete

(* A record goes only when the whole of what was added is in the output    *)
(* file: the data is copied out before the header is marked (main.c:258-   *)
(* 284).                                                                   *)
ExtractedBeforeDeleted ==
  [][Len(complete') < Len(complete) =>
       \E k \in 1..Len(complete) :
          /\ complete[k].path = target
          /\ \A j \in 1..k - 1 : complete[j].path # target
          /\ complete' = Part(complete, 1, k - 1)
                           \o Part(complete, k + 1, Len(complete) - k)
          /\ output' = complete[k].text]_vars

(* "Success: file added to the archive" (main.c:215, in Russian): when it  *)
(* says so, a reader of the archive finds the record.                      *)
AddedMeansThere ==
  [][AddSucceeds => \E k \in 1..Len(Live) : Live[k] = Added]_vars

-----------------------------------------------------------------------------
(* What the properties rest on: up to some end the archive consists of     *)
(* whole records, the live ones among which are the complete ones; what is *)
(* behind the end has been damaged or is being written.                    *)
HeaderCells ==
  [kind : {"header"}, path : Names, size : 0..MaxCells - 1, marked_deleted : BOOLEAN]
Cells == HeaderCells \cup Pieces \cup {Fragment}
Before(cells, k) == Part(cells, 1, k - 1)
None(records) == \A k \in 1..Len(records) : records[k].path # target

(* Where records begin, and the end.                                       *)
Begins(cells) == {k \in 1..Len(cells) : IsHeader(cells[k])} \cup {Len(cells) + 1}
(* Every header is followed by its data and the next header, or the end.   *)
Whole(cells) ==
  /\ 1 \in Begins(cells)
  /\ \A k \in 1..Len(cells) : IsHeader(cells[k]) =>
       /\ After(cells, k) \in Begins(cells)
       /\ \A j \in k + 1..After(cells, k) - 1 : ~IsHeader(cells[j])

Adding(e) ==
  intact => archive = Before(archive, e) \o (<<Header(target, Len(source.text))>>
                        \o Part(source.text, 1, pos - 1))
(* No live record with the target's path is before the scan.               *)
Scanning(e) ==
  \/ pos \in Begins(Before(archive, e)) /\ None(Records(Before(archive, pos))[1])
  \/ None(complete)
Copying(e) ==
  /\ start \in 1..Len(archive) /\ IsHeader(archive[start]) /\ Matches(archive[start])
  /\ start < pos /\ pos <= After(archive, start) /\ pos <= Len(archive) + 1
  /\ output = Part(archive, start + 1, pos - start - 1)
  /\ IF start < e THEN None(Records(Before(archive, start))[1]) ELSE None(complete)
(* The temporary file holds the live records that were passed.             *)
Compressing(e) ==
  \/ /\ pos \in Begins(Before(archive, e))
     /\ Whole(temp) /\ Records(temp)[1] = Records(Before(archive, pos))[1]
  \/ /\ ~intact /\ pos > e
     /\ \E end \in 1..Len(temp) + 1 :
          Whole(Before(temp, end)) /\ Records(Before(temp, end))[1] = complete
Sound(e) ==
  /\ Whole(Before(archive, e)) /\ complete = Records(Before(archive, e))[1]
  /\ intact /\ op # "add" => e = Len(archive) + 1
  /\ op = "add" => Adding(e)
  /\ op = "scan" => Scanning(e)
  /\ op = "copy" => Copying(e)
  /\ op = "compress" => Compressing(e)

Sizes ==
  /\ archive \in Seq(Cells) /\ temp \in Seq(Cells) /\ output \in Seq(Cells)
  /\ op = "idle" => pos = 1
  /\ op = "add" =>
       /\ pos <= Len(source.text) + 1 /\ pos <= Len(archive)
       /\ Len(archive) + Len(source.text) + 1 - pos <= MaxCells
  /\ op # "compress" => temp = <<>>
  /\ op \in {"idle", "scan"} => output = <<>>
  /\ Len(temp) < pos

IInv == TypeOK /\ Sizes /\ \E e \in 1..Len(archive) + 1 : Sound(e)
=============================================================================
