------------------------------ MODULE Include ------------------------------
(***************************************************************************)
(* Loading a configuration: the file it is read from, the chain of files   *)
(* that `include` pulls in, and the merge of their documents into one.     *)
(* A document is a partial function from paths to what the file puts       *)
(* there, one level of objects deep: a value at "key", or an object of     *)
(* fields.  Values are the names of the files that wrote them.             *)
(***************************************************************************)
EXTENDS Naturals, Sequences, FiniteSets, SequencesExt

CONSTANTS
    File, Missing,       \* files, and a name that is no file's
    Main,                \* the file named on the command line
    Field,               \* fields of the object at the one key looked at
    MaxIncludeDepth

ASSUME IncludeAssumption == Main \in File /\ Missing \notin File /\ MaxIncludeDepth \in Nat \ {0}

\* What a document holds at the key: nothing, a scalar, or an object.
Absent == [kind |-> "absent"]
Scalar(f) == [kind |-> "scalar", by |-> f]
Object(entries) == [kind |-> "object", entries |-> entries]

\* The possible documents of file f; NoObject is one whose root is an array or
\* a scalar.
NoObject == [kind |-> "root"]
DocumentsOf(f) ==
    {Absent, Scalar(f), NoObject} \cup {Object([x \in {y} |-> f]) : y \in Field}

Failed == [kind |-> "error"]

-----------------------------------------------------------------------------
\* Mutant: the includer's value replaces the included one whole.
MergeNodes_Replaces(base, override) == IF override = Absent THEN base ELSE override

\* mergeNodes: objects merge field by field, everything else replaces.
MergeNodes(base, override) ==
    CASE override = Absent /\ base # NoObject -> base
      [] base.kind = "object" /\ override.kind = "object" ->
            Object([x \in DOMAIN base.entries \cup DOMAIN override.entries |->
                       IF x \in DOMAIN override.entries THEN override.entries[x]
                       ELSE base.entries[x]])
      [] OTHER -> override

\* The documents included, in order, and the includer's own on top.
MergeAll(nodes, own) == MergeNodes(FoldLeft(MergeNodes, Head(nodes), Tail(nodes)), own)

RECURSIVE ReadDocument(_, _, _, _)

\* readDocument: of is what each file holds, includes the files it names, and
\* stack the files being read.
ReadDocument(f, stack, of, includes) ==
    IF Contains(stack, f) \/ Len(stack) >= MaxIncludeDepth THEN Failed
    ELSE IF of[f] = NoObject \/ includes[f] = <<>> THEN of[f]
    ELSE IF Contains(includes[f], Missing) THEN Failed
    ELSE LET read == [i \in DOMAIN includes[f] |->
                         ReadDocument(includes[f][i], Append(stack, f), of, includes)]
         IN  IF \E i \in DOMAIN read : read[i] = Failed THEN Failed
             ELSE MergeAll(read, of[f])

Load(of, includes) == ReadDocument(Main, <<>>, of, includes)

-----------------------------------------------------------------------------
(***************************************************************************)
(* What the documentation promises.                                        *)
(***************************************************************************)
\* The files that a file brings in, none when its root is no object.
Named(f, of, includes) == IF of[f] = NoObject THEN {} ELSE ToSet(includes[f])

\* Chains of inclusions from the main file, up to the first that is too long.
Chains == {c \in SeqOf(File \cup {Missing}, MaxIncludeDepth + 1) : c # <<>> /\ c[1] = Main}
ChainsOf(of, includes) ==
    {c \in Chains : \A i \in 1..(Len(c) - 1) :
                        c[i] \in File /\ c[i + 1] \in Named(c[i], of, includes)}

\* An inclusion that cannot be followed: a file that is missing, one that
\* includes itself, or one too deep.
Unloadable(chains) ==
    \E c \in chains :
        \/ Last(c) = Missing
        \/ ~IsInjective(c)
        \/ Len(c) > MaxIncludeDepth

\* A file after all it includes: later wins.
RECURSIVE Order(_, _)
Order(f, includes) ==
    FlattenSeq([i \in DOMAIN includes[f] |-> Order(includes[f][i], includes)]) \o <<f>>

\* A scalar ends what was before it; of the objects after the last scalar each
\* field is the last one's that has it.
LaterWins(order, of) ==
    LET Is(kind) == {i \in DOMAIN order : of[order[i]].kind = kind}
        ended == FoldSet(LAMBDA i, m : IF i > m THEN i ELSE m, 0, Is("scalar"))
        merged == {i \in Is("object") : i > ended}
        fields == UNION {DOMAIN of[order[i]].entries : i \in merged}
        Winner(x) == CHOOSE i \in merged :
                        /\ x \in DOMAIN of[order[i]].entries
                        /\ \A j \in merged : x \in DOMAIN of[order[j]].entries => j <= i
    IN  CASE merged # {} -> Object([x \in fields |-> order[Winner(x)]])
          [] merged = {} /\ ended > 0 -> of[order[ended]]
          [] OTHER -> Absent

\* A configuration loads exactly when every inclusion can be followed, and then
\* a later file wins over an earlier one and the including file over all it
\* includes.  Left out are included files whose root is not an object, and a
\* scalar below the first level of inclusion: the code merges an included file
\* with its own inclusions first, so that the scalar ends only what is there.
LoadsAsPromised(of, includes) ==
    LET chains == ChainsOf(of, includes)
        read == {Last(c) : c \in chains}
        flat == \A c \in chains : Len(c) <= 2
    IN  IF Unloadable(chains) THEN Load(of, includes) = Failed
        ELSE /\ Load(of, includes) # Failed
             /\ \/ \E f \in read : of[f] = NoObject
                \/ ~flat /\ \E f \in read : of[f].kind = "scalar"
                \/ Load(of, includes) = LaterWins(Order(Main, includes), of)
=============================================================================
