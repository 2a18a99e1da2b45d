------------------------------- MODULE MCHost -------------------------------
(***************************************************************************)
(* An instance of Host for TLC: two configuration files of the service, two *)
(* keys for three remotes, four files that include one another, and the    *)
(* texts within one slip of a short configuration.                         *)
(***************************************************************************)
EXTENDS Host

CONSTANTS service, other, broken, none, etc, home

Before == [dst |-> {"archive"}, state |-> "state", keys |-> {"ssh"}, log |-> {}, alias |-> FALSE]
After  == [Before EXCEPT !.dst = {"archive", "second"}, !.log = {"log"}, !.alias = TRUE]
Configs == {Before, After}
Dirs == [p \in Path |-> p]

Keys == <<"k1", "k2">>
Sharing == [k \in {"k1", "k2"} |-> IF k = "k1" THEN <<"r1", "r2">> ELSE <<"r3">>]

Commas(t) == {i \in DOMAIN t : t[i] = ","}
Short == {d \in Document : Cardinality(Commas(d)) <= 2}
TooDeep == {<<"[">> \o d \o <<"]">> : d \in Short}
MCDrafts == Short \cup TooDeep

\* The main file includes up to two files, and these up to one each, which may
\* be missing, deeper, or one of those that led there.
MCInclusions ==
    {[main |-> m, a |-> a, b |-> b, c |-> <<>>] :
        m \in SeqOf({"a", "b", Missing}, 2),
        a \in SeqOf(File \cup {Missing}, 1),
        b \in {<<>>, <<"a">>, <<"c">>}}
=============================================================================
