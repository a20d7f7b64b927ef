---------------------------- MODULE PrefixBuffer ----------------------------
(***************************************************************************)
(* What the shared-buffer programs (lab8_mtx, lab10_rwlock, lab11_condvar) *)
(* promise, with no lock, no array and no program counter in sight: one    *)
(* writer publishes the elements 1, 2, ..., Size one at a time; a reader   *)
(* shows, in a single indivisible step, everything published so far; and a *)
(* reader stops only when everything has been published.                   *)
(***************************************************************************)
EXTENDS Naturals, Sequences

CONSTANTS
  Readers,  (* the reader threads                  *)
  Size      (* how many elements get published     *)

VARIABLES
  log,      (* the elements published so far, in order          *)
  view,     (* view[r]: the elements on the last line r printed *)
  stopped   (* the readers that have left their loop            *)

vars == <<log, view, stopped>>

Init ==
  /\ log = <<>>
  /\ view = [r \in Readers |-> <<>>]
  /\ stopped = {}

Publish ==
  /\ Len(log) < Size
  /\ log' = Append(log, Len(log) + 1)
  /\ UNCHANGED <<view, stopped>>

Show(r) ==
  /\ r \notin stopped
  /\ view' = [view EXCEPT ![r] = log]
  /\ UNCHANGED <<log, stopped>>

Stop(r) ==
  /\ Len(log) = Size
  /\ stopped' = stopped \cup {r}
  /\ UNCHANGED <<log, view>>

Next ==
  \/ Publish
  \/ \E r \in Readers : Show(r) \/ Stop(r)

Spec == Init /\ [][Next]_vars

=============================================================================
