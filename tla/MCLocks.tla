------------------------------ MODULE MCLocks ------------------------------
(***************************************************************************)
(* Instances of Locks for TLC: a daemon and a command-line run on one       *)
(* machine, and a second machine with the same archive.                     *)
(***************************************************************************)
EXTENDS Locks

CONSTANTS s1, s2, s3, daemon, cli, other, h1, h2, d1, d2

Apart == [s \in Scope |-> CASE s = s1 -> daemon [] s = s2 -> cli [] OTHER -> other]
Hosts == [p \in Proc |-> IF p = other THEN h2 ELSE h1]
Verbs == [s \in Scope |-> IF s = s2 THEN {"run", "unlock"} ELSE {"run"}]
Lives == [p \in Proc |-> IF p = daemon THEN 2 ELSE 1]
DirsOf == [p \in RemoteProc |-> IF p = other THEN d2 ELSE d1]

\* Local locks a run may find: one without a meta, one of an earlier life, one
\* of the second machine dated in the future.
Found == [NoDir EXCEPT !.there = TRUE, !.ino = 1]
Old == {Found,
        [Found EXCEPT !.meta = [state |-> "whole", proc |-> daemon, life |-> 0,
                                start |-> TRUE, created |-> 0]],
        [Found EXCEPT !.meta = [state |-> "whole", proc |-> other, life |-> 0,
                                start |-> TRUE, created |-> MaxNow + TTL + 1]]}

\* A remote lock dated in the future.
FarFuture == {{MaxNow + RemoteTTL + 1}}
=============================================================================
