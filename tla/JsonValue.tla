------------------------------- MODULE JsonValue -------------------------------
(***************************************************************************)
(* The values of the JSON library of cs/net/json, as the program holds     *)
(* them.                                                                   *)
(*                                                                         *)
(* A value is a pair of its type and its contents: <<"null", 0>>,          *)
(* <<"bool", b>>, <<"int", n>>, <<"string", s>>, <<"array", sequence of    *)
(* values>> and <<"map", function from strings to values>>.  A string is   *)
(* the sequence of its bytes.  Floats are left out: the records of the     *)
(* services have none.                                                     *)
(***************************************************************************)
EXTENDS Integers, SequencesExt

\* No value: what a parser that fails and a map that lacks the key return.
Fail == <<>>

Null == <<"null", 0>>

\* The order of std::string.
LessString(s, t) ==
    \/ IsStrictPrefix(s, t)
    \/ \E i \in DOMAIN s \intersect DOMAIN t :
        s[i] < t[i] /\ SubSeq(s, 1, i - 1) = SubSeq(t, 1, i - 1)
=============================================================================
