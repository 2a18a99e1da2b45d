----------------------------- MODULE MCArchive -----------------------------
(* Small instances of the archive of one snapshot target.  Two tiers would  *)
(* keep everything at this size; one tier and keepLast make runs prune.     *)
EXTENDS Archive, TLC

CONSTANTS daemon, cli, day, MaxName

MCInstant == 1..MaxName
MCBucketOf == [t \in {day} |-> [n \in MCInstant |-> n \div 2]]
MCWindowOf == [n \in MCInstant |-> n \div 2]
MCCount == [t \in {day} |-> 1]

Interchangeable == Permutations({daemon, cli})
=============================================================================
