--------------------------- MODULE NewestSnapshot ---------------------------
(***************************************************************************)
(* What saving the WhatsApp credentials promises: snapshots are handed in  *)
(* at any time, each takes effect at one moment or is lost, in any order,  *)
(* and what is kept only ever gives way to a newer one.  Once nothing is   *)
(* pending and nothing was lost, the newest snapshot is the one kept.      *)
(***************************************************************************)
EXTENDS Naturals

CONSTANT Snapshots          \* records with a version

VARIABLES kept,             \* the snapshot a new session would read
          pending           \* the snapshots handed in and not settled yet

vars == <<kept, pending>>

Init == /\ kept \in {s \in Snapshots : s.version = 0}
        /\ pending = {}

Offer(s) == /\ s \notin pending
            /\ pending' = pending \cup {s}
            /\ UNCHANGED kept

Keep(s) == /\ s \in pending
           /\ pending' = pending \ {s}
           /\ kept' = IF s.version > kept.version THEN s ELSE kept

Lose(s) == /\ s \in pending
           /\ pending' = pending \ {s}
           /\ UNCHANGED kept

Next == \E s \in Snapshots : Offer(s) \/ Keep(s) \/ Lose(s)

Spec == Init /\ [][Next]_vars
=============================================================================
