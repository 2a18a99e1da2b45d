---------------------------- MODULE MCRemoteLock ----------------------------
(***************************************************************************)
(* Instances of RemoteLock for TLC: a daemon and a command-line run on one *)
(* machine that share a state directory, and a second machine with its own. *)
(***************************************************************************)
EXTENDS RemoteLock

CONSTANTS s1, s2, s3, daemon, cli, other, h1, h2, d1, d2

Apart == [s \in Scope |-> CASE s = s1 -> daemon [] s = s2 -> cli [] OTHER -> other]
Hosts == [p \in Proc |-> IF p = other THEN h2 ELSE h1]
Dirs  == [p \in Proc |-> IF p = other THEN d2 ELSE d1]

\* A lock a run may find: one as old as the clock.
Old == {{0}}
=============================================================================
