-------------------------- MODULE SnapshotHistory --------------------------
(***************************************************************************)
(* What an archive promises its owner, whatever happens inside it: a       *)
(* history of finished snapshots that grows only at its newest end, loses  *)
(* members one at a time and never its last one, and whose members stay    *)
(* what they are: whole.                                                   *)
(***************************************************************************)
EXTENDS Integers

CONSTANT Instant

VARIABLE history  \* the finished snapshots: [name, is]

Init == history = {}

Add(n) ==
    /\ \A h \in history : h.name < n
    /\ history' = history \cup {[name |-> n, is |-> "whole"]}

Drop(h) ==
    /\ history # {h}
    /\ history' = history \ {h}

Next == (\E n \in Instant : Add(n)) \/ (\E h \in history : Drop(h))

Spec == Init /\ [][Next]_history
=============================================================================
