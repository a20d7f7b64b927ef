--------------------------- MODULE ListDirectory ----------------------------
(***************************************************************************)
(* lab2_ls/myls.c: who owns the copies of the directory entries, and what  *)
(* is shown of them.  load_directory_entries copies every entry; each copy *)
(* is freed by display_entry once it has been shown, or by one of the four *)
(* loops that free the whole list.  Meanwhile anybody may remove files.    *)
(*                                                                         *)
(* A name is a model value: Hidden has those that begin with a dot, Rank   *)
(* says how strcasecmp orders them (it can hold two names for equal).      *)
(* Colours, columns and the long format are left out.                      *)
(***************************************************************************)
EXTENDS Integers, Sequences

CONSTANTS Names, Hidden, Rank,
  InitialCapacity   (* 32 in the program                                    *)

VARIABLES
  there,      (* the names in the directory                                 *)
  stream,     (* the names readdir has not yet returned                     *)
  all,        (* FLAG_ALL                                                   *)
  list,       (* app.list up to app.count, by the names of the copies; what *)
              (* it was when the program ends                               *)
  allocated,  (* app.list is other than NULL                                *)
  capacity,
  index,      (* the loop variable of process_directory, from 1             *)
  freed,      (* freed[n]: how often the copy of n has been freed           *)
  shown,      (* the names printed                                          *)
  pc

vars == <<there, stream, all, list, allocated, capacity, index, freed, shown, pc>>

InList == {list[i] : i \in DOMAIN list}

Init ==
  /\ there \in SUBSET Names /\ stream = {}
  /\ all \in BOOLEAN
  /\ list = <<>> /\ allocated = FALSE /\ capacity = 0 /\ index = 0
  /\ freed = [n \in Names |-> 0]
  /\ shown = <<>>
  /\ pc = "main"

FreeOne(count, n) == [count EXCEPT ![n] = @ + 1]

(* free of every copy in the list, and of the list; it is NULL afterwards. *)
FreeList(count) ==
  /\ freed' = [n \in Names |->
                 IF allocated /\ n \in InList THEN count[n] + 1 ELSE count[n]]
  /\ allocated' = FALSE

-----------------------------------------------------------------------------
(* The options.  -h, a wrong option and a second directory end the program *)
(* before there is a list.                                                 *)
Main ==
  /\ pc = "main"
  /\ pc' \in {"opendir", "ended"}
  /\ UNCHANGED <<there, stream, all, list, allocated, capacity, index, freed, shown>>

OpenDirectory ==
  /\ pc = "opendir"
  /\ \/ /\ stream' = there
        /\ list' = <<>> /\ allocated' = TRUE /\ capacity' = InitialCapacity
        /\ pc' = "load"
     \/ pc' = "ended" /\ UNCHANGED <<stream, list, allocated, capacity>>
  /\ UNCHANGED <<there, all, index, freed, shown>>

(* A definition whose name ends in _Bug is a wrong version of the one that *)
(* follows it, there to be swapped in; nothing uses it.                    *)
LoadEntry_Bug ==
  /\ pc = "load"
  /\ \E n \in stream :
       /\ capacity' = IF Len(list) > capacity THEN 2 * capacity ELSE capacity
       /\ list' = Append(list, n)
       /\ stream' = stream \ {n}
  /\ UNCHANGED <<there, all, allocated, index, freed, shown, pc>>

(* One turn of the loop that copies the entries: the list grows first if   *)
(* it is full.  A name that has been removed meanwhile may still come.     *)
LoadEntry ==
  /\ pc = "load"
  /\ \E n \in stream :
       /\ capacity' = IF Len(list) >= capacity THEN 2 * capacity ELSE capacity
       /\ list' = Append(list, n)
       /\ stream' = stream \ {n}
  /\ UNCHANGED <<there, all, allocated, index, freed, shown, pc>>

LoadFails_Bug ==
  /\ pc = "load"
  /\ freed' = [n \in Names |-> IF n \in InList THEN freed[n] + 1 ELSE freed[n]]
  /\ UNCHANGED allocated
  /\ pc' = "report_error"
  /\ UNCHANGED <<there, stream, all, list, capacity, index, shown>>

(* realloc, malloc or readdir fails: the list is freed and forgotten.      *)
LoadFails ==
  /\ pc = "load"
  /\ FreeList(freed)
  /\ pc' = "report_error"
  /\ UNCHANGED <<there, stream, all, list, capacity, index, shown>>

(* report_error leaves through cleanup_app, which frees the list there is. *)
CleanupApp ==
  /\ pc = "report_error"
  /\ FreeList(freed)
  /\ pc' = "ended"
  /\ UNCHANGED <<there, stream, all, list, capacity, index, shown>>

(* entry_sorter: hidden names first, then by the rank.                     *)
Before(a, b) ==
  \/ a \in Hidden /\ b \notin Hidden
  \/ (a \in Hidden <=> b \in Hidden) /\ Rank[a] < Rank[b]

Sort_Bug ==
  /\ pc = "load"
  /\ stream \cap there = {}
  /\ pc' = "display" /\ index' = 1
  /\ UNCHANGED <<there, stream, all, list, allocated, capacity, freed, shown>>

(* readdir has no more.  qsort leaves equal names in either order.         *)
Sort ==
  /\ pc = "load"
  /\ stream \cap there = {}
  /\ list' \in {s \in [DOMAIN list -> InList] :
                  \A i, j \in DOMAIN list : i < j => s[i] # s[j] /\ ~Before(s[j], s[i])}
  /\ pc' = "display" /\ index' = 1
  /\ UNCHANGED <<there, stream, all, allocated, capacity, freed, shown>>

-----------------------------------------------------------------------------
AtEntry == pc = "display" /\ index <= Len(list)
Skipped == list[index] \in Hidden /\ ~all

SkipHidden ==
  /\ AtEntry /\ Skipped
  /\ freed' = FreeOne(freed, list[index])
  /\ index' = index + 1
  /\ UNCHANGED <<there, stream, all, list, allocated, capacity, shown, pc>>

Display ==
  /\ AtEntry /\ ~Skipped
  /\ list[index] \in there
  /\ shown' = Append(shown, list[index])
  /\ freed' = FreeOne(freed, list[index])
  /\ index' = index + 1
  /\ UNCHANGED <<there, stream, all, list, allocated, capacity, pc>>

(* lstat fails, be it that the file is gone: display_entry frees the copy  *)
(* and calls report_error, which frees the whole list.                     *)
LstatFails ==
  /\ AtEntry /\ ~Skipped
  /\ FreeList(FreeOne(freed, list[index]))
  /\ pc' = "lstat_failed"
  /\ UNCHANGED <<there, stream, all, list, capacity, index, shown>>

PathTooLong ==
  /\ AtEntry /\ ~Skipped
  /\ FreeList(freed)
  /\ pc' = "path_too_long"
  /\ UNCHANGED <<there, stream, all, list, capacity, index, shown>>

(* The end of process_directory: there is no list left for cleanup_app.    *)
Finish ==
  /\ pc = "display" /\ index > Len(list)
  /\ allocated' = FALSE
  /\ pc' = "listed"
  /\ UNCHANGED <<there, stream, all, list, capacity, index, freed, shown>>

Ended == pc \in {"ended", "listed", "lstat_failed", "path_too_long"}

Remove(n) ==
  /\ ~Ended /\ n \in there
  /\ there' = there \ {n}
  /\ UNCHANGED <<stream, all, list, allocated, capacity, index, freed, shown, pc>>

Next ==
  \/ Main \/ OpenDirectory \/ LoadEntry \/ LoadFails \/ CleanupApp \/ Sort
  \/ SkipHidden \/ Display \/ LstatFails \/ PathTooLong \/ Finish
  \/ \E n \in Names : Remove(n)
  \/ Ended /\ UNCHANGED vars

Spec == Init /\ [][Next]_vars

-----------------------------------------------------------------------------
Flags == all \in BOOLEAN /\ allocated \in BOOLEAN

TypeOK ==
  /\ Flags
  /\ there \subseteq Names /\ stream \subseteq Names
  /\ InList \subseteq Names /\ Len(list) <= capacity
  /\ index \in 0..Len(list) + 1
  /\ freed \in [Names -> 0..2]
  /\ {shown[i] : i \in DOMAIN shown} \subseteq Names
  /\ pc \in {"main", "opendir", "load", "report_error", "display"} \/ Ended

(* What holds in every state, for the proofs.  Until the display begins    *)
(* nothing is shown, and nothing freed unless the loading fails, which     *)
(* frees all; what is still in the directory is in the list or still to    *)
(* come.  From then on exactly the copies before index are freed, and the  *)
(* names shown are among theirs.                                           *)
Fresh ==
  /\ pc \in {"main", "opendir"} => list = <<>>
  /\ pc \in {"main", "opendir", "load"} => shown = <<>> /\ \A n \in Names : freed[n] = 0
  /\ pc = "load" => /\ allocated /\ capacity >= 1
                    /\ stream \cap InList = {} /\ there \subseteq stream \cup InList
  /\ pc = "report_error" =>
       /\ ~allocated /\ shown = <<>>
       /\ \A n \in Names : freed[n] = IF n \in InList THEN 1 ELSE 0

Distinct == \A i, j \in DOMAIN list : i # j => list[i] # list[j]

Handled == {list[k] : k \in 1..index - 1}

Displaying ==
  /\ pc = "display" =>
       /\ allocated /\ index \in 1..Len(list) + 1
       /\ \A n \in Names : freed[n] = IF n \in Handled THEN 1 ELSE 0
  /\ pc = "listed" => index = Len(list) + 1
  /\ pc \in {"display", "listed"} =>
       /\ there \subseteq InList
       /\ \A i, j \in DOMAIN list : i < j => ~Before(list[j], list[i])
       /\ \A i \in DOMAIN shown : shown[i] \in Handled
       /\ \A i, j \in DOMAIN shown :
            i < j => shown[i] # shown[j] /\ ~Before(shown[j], shown[i])
       /\ \A n \in Handled \cap there : n \notin Hidden \/ all => \E i \in DOMAIN shown : shown[i] = n

(* However the program ends, every copy it made has been freed, and freed  *)
(* once, with one exception: when an entry cannot be displayed, the copies *)
(* handled before it, and after a failed lstat its own copy as well, are   *)
(* freed a second time (myls.c:114-120, 183-188, 195-200, 207-212, 221,    *)
(* 230, 317, 333-335).                                                     *)
FreedOnce ==
  LET failed == pc \in {"lstat_failed", "path_too_long"}
      twice == {list[i] : i \in {j \in DOMAIN list : failed /\ j < index}}
                 \cup (IF pc = "lstat_failed" THEN {list[index]} ELSE {})
  IN Ended => freed = [n \in Names |-> IF n \in twice THEN 2
                                       ELSE IF n \in InList THEN 1 ELSE 0]

(* A listing that gets to its end shows, in the order of entry_sorter and  *)
(* each once, all names it has to show that are in the directory still     *)
(* (myls.c:178-216, 220, 329-331, 342-350).                                *)
ShowsAllSorted ==
  pc = "listed" =>
    /\ \A n \in there : n \notin Hidden \/ all => \E i \in DOMAIN shown : shown[i] = n
    /\ \A i, j \in DOMAIN shown :
         i < j => shown[i] # shown[j] /\ ~Before(shown[j], shown[i])

IInv ==
  /\ TypeOK
  /\ list \in Seq(Names) /\ shown \in Seq(Names) /\ capacity \in Nat
  /\ Distinct /\ Fresh /\ Displaying
  /\ FreedOnce /\ ShowsAllSorted
=============================================================================
