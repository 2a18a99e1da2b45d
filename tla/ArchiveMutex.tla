---------------------------- MODULE ArchiveMutex ----------------------------
(***************************************************************************)
(* What the destination-root lock promises (src/src/snapshots/types.ts,    *)
(* SnapshotStore.withLock): at most one lock scope at a time runs its      *)
(* pipeline over one archive root.  A scope enters an empty root; scopes   *)
(* leave by finishing or by dying with their process.                      *)
(***************************************************************************)
CONSTANT Scope

VARIABLE inside

Init == inside = {}

Enter(s) == inside = {} /\ inside' = {s}

Leave(S) == S # {} /\ S \subseteq inside /\ inside' = inside \ S

Next == \/ \E s \in Scope : Enter(s)
        \/ \E S \in SUBSET Scope : Leave(S)

Spec == Init /\ [][Next]_inside
=============================================================================
