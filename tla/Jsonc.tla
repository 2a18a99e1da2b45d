------------------------------- MODULE Jsonc -------------------------------
(***************************************************************************)
(* The reader of configuration files: a recursive-descent parser for JSON  *)
(* with comments and one trailing comma, without duplicate keys, nested no *)
(* deeper than MaxDepth.  A text is a sequence of lexemes; numbers, words  *)
(* and strings in value position are "1", keys are members of Name, and    *)
(* "trivia" is white space or a closed comment.                            *)
(*                                                                         *)
(* Accepts(text) is the parser; Document is the grammar it stands for.     *)
(***************************************************************************)
EXTENDS Naturals, Sequences, FiniteSets

CONSTANTS Name, MaxDepth

Punctuation == {"{", "}", "[", "]", ",", ":"}
Lexeme == Punctuation \cup Name \cup {"1", "trivia"}

-----------------------------------------------------------------------------
(***************************************************************************)
(* The parser.  Its position is what is left of the text; Fails is a       *)
(* ConfigError.                                                            *)
(***************************************************************************)
Fails == <<"error">>

Peek(rest) == IF rest = <<>> THEN "end" ELSE Head(rest)

RECURSIVE SkipTrivia(_)
SkipTrivia(rest) == IF Peek(rest) = "trivia" THEN SkipTrivia(Tail(rest)) ELSE rest

\* After a separator: the text behind a trailing comma's closing bracket, the
\* rest of the elements, or an error.
AfterComma(rest, close, Elements(_)) ==
    LET next == SkipTrivia(rest)
    IN  IF Peek(next) = close THEN Tail(next) ELSE Elements(next)

RECURSIVE ParseValue(_, _), ParseMembers(_, _, _), ParseElements(_, _)

\* What is left after a value at this depth.
ParseValue(text, depth) ==
    LET rest == SkipTrivia(text)
        inside == SkipTrivia(Tail(rest))
    IN  CASE Peek(rest) = "{" ->
                IF depth > MaxDepth THEN Fails
                ELSE IF Peek(inside) = "}" THEN Tail(inside)
                ELSE ParseMembers(inside, depth, {})
          [] Peek(rest) = "[" ->
                IF depth > MaxDepth THEN Fails
                ELSE IF Peek(inside) = "]" THEN Tail(inside)
                ELSE ParseElements(inside, depth)
          [] Peek(rest) \in {"1"} \cup Name -> Tail(rest)
          [] OTHER -> Fails

\* An object from a key on; seen holds the keys before it.
ParseMembers(text, depth, seen) ==
    LET key == Peek(text)
        colon == SkipTrivia(Tail(text))
        rest == SkipTrivia(ParseValue(Tail(colon), depth + 1))
        More(next) == ParseMembers(next, depth, seen \cup {key})
    IN  CASE key \notin Name -> Fails
          [] key \in seen -> Fails
          [] key \in Name \ seen /\ Peek(colon) # ":" -> Fails
          [] OTHER ->
                CASE Peek(rest) = "," -> AfterComma(Tail(rest), "}", More)
                  [] Peek(rest) = "}" -> Tail(rest)
                  [] OTHER -> Fails

\* An array from an element on.
ParseElements(text, depth) ==
    LET rest == SkipTrivia(ParseValue(text, depth + 1))
        More(next) == ParseElements(next, depth)
    IN  CASE Peek(rest) = "," -> AfterComma(Tail(rest), "]", More)
          [] Peek(rest) = "]" -> Tail(rest)
          [] OTHER -> Fails

\* Mutant: what follows the document is not looked at.
Accepts_Trailing(text) == SkipTrivia(text) # <<>> /\ ParseValue(text, 1) # Fails

\* parseDocument: one value and nothing after it.
Accepts(text) == SkipTrivia(text) # <<>> /\ SkipTrivia(ParseValue(text, 1)) = <<>>

-----------------------------------------------------------------------------
(***************************************************************************)
(* The grammar, for objects of up to two entries and arrays of up to three. *)
(***************************************************************************)
Comma == {<<>>, <<",">>}

Join(lists) == {l[1] \o <<",">> \o l[2] : l \in lists}

\* What stands between the brackets.
Bodies(lists) == {<<>>} \cup {l \o c : l \in lists, c \in Comma}

Arrays(E) == Bodies(E \cup Join(E \X E) \cup Join(Join(E \X E) \X E))

\* An entry is a key, a colon and a value: no two entries have one key.
Objects(E) == Bodies(E \cup Join({p \in E \X E : p[1][1] # p[2][1]}))

RECURSIVE Value(_)
\* Values nested up to depth deep.
Value(depth) ==
    IF depth = 0 THEN {<<"1">>}
    ELSE LET inner == Value(depth - 1)
             members == {<<n, ":">> \o v : n \in Name, v \in inner}
         IN  inner \cup {<<"[">> \o b \o <<"]">> : b \in Arrays(inner)}
                   \cup {<<"{">> \o b \o <<"}">> : b \in Objects(members)}

Document == Value(MaxDepth)

-----------------------------------------------------------------------------
(***************************************************************************)
(* Texts: documents, ones nested too deep, and each with one slip of the   *)
(* pen.                                                                    *)
(***************************************************************************)
Without(t, i) == SubSeq(t, 1, i - 1) \o SubSeq(t, i + 1, Len(t))
With(t, i, x) == SubSeq(t, 1, i - 1) \o <<x>> \o SubSeq(t, i, Len(t))

Slips(t) ==
    {t} \cup {Without(t, i) : i \in 1..Len(t)}
        \cup {With(t, i, x) : i \in 1..(Len(t) + 1), x \in Lexeme}
        \cup {[t EXCEPT ![i] = x] : i \in 1..Len(t), x \in Lexeme}

IsText(t) == t # "trivia"
Plain(t) == SelectSeq(t, IsText)

\* A key in value position is a string, so any other value.
AsValue(t) == [i \in DOMAIN t |->
    IF t[i] \in Name /\ ~(i < Len(t) /\ t[i + 1] = ":" /\ i > 1 /\ t[i - 1] \in {"{", ","})
    THEN "1" ELSE t[i]]

\* The parser accepts a text exactly when the grammar has it.
ReadsTheGrammar(t) == Accepts(t) = (AsValue(Plain(t)) \in Document)
=============================================================================
