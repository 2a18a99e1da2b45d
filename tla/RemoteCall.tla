----------------------------- MODULE RemoteCall -----------------------------
(***************************************************************************)
(* What a caller may rely on when it has a command run by another program:  *)
(* the command takes effect at most max times, and a reply that says it did *)
(* was preceded by an effect.  A failed reply says nothing: the command may *)
(* have run, and may still be running.  With max = 1 a good reply is the    *)
(* end of it, which is what the destination lock builds on.                 *)
(***************************************************************************)
EXTENDS Naturals

VARIABLES max, runs, reply

Init == max \in Nat \ {0} /\ runs = 0 /\ reply = "none"

Run == runs < max /\ runs' = runs + 1 /\ UNCHANGED <<max, reply>>

Reply ==
    /\ reply = "none"
    /\ reply' \in (IF runs > 0 THEN {"ok"} ELSE {}) \cup {"failed"}
    /\ UNCHANGED <<max, runs>>

\* The caller goes on to its next call.
Again ==
    /\ reply # "none" /\ reply' = "none" /\ runs' = 0
    /\ max' \in Nat \ {0}

Next == Run \/ Reply \/ Again

Spec == Init /\ [][Next]_<<max, runs, reply>>
=============================================================================
