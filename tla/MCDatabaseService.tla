--------------------------- MODULE MCDatabaseService ---------------------------
(***************************************************************************)
(* Two keys and three payloads.  The first two are records: the time of    *)
(* the second is later than that of the first, and its name contains the   *)
(* name of the first.  One is written by Serialize, with every type and    *)
(* every kind of character; the other in the ways that JSON leaves to its  *)
(* writer: whitespace, escapes of its choice, a key that comes twice.  The *)
(* third is no JSON.  Records with equal payloads tie.                     *)
(* The queries have the shapes that the services use: the oldest record of *)
(* a kind (Dequeue), any record that meets two conditions (users, blobs),  *)
(* all records with the newest first (the logs).                           *)
(***************************************************************************)
EXTENDS QueryView, JsonText

Name == <<110>>

Meta == <<109>>

Time == <<116>>

\* "\/ and a line feed; then the same with an e acute and a grinning face.
OneName == <<34, 92, 47, 10, 1>>

OtherName == OneName \o <<195, 169, 240, 159, 152, 128>>

One ==
    <<"map",
        Name :> <<"string", OneName>> @@
        Meta :> <<"map", Time :> <<"int", -3>> @@ <<>> :> Null>> @@
        <<110, 110>> :> <<"array", << <<"bool", TRUE>>, <<"bool", FALSE>>,
                                     <<"map", <<>>>>, <<"array", <<>>>> >> >> >>

Other ==
    <<"map", Name :> <<"string", OtherName>> @@
             Meta :> <<"map", Time :> <<"int", 20>>>> >>

\* { "n":1,"m":{"t":20} , "n":"\"\\\/\n\u0001\u00e9\uD83D\uDE00"}
OtherText ==
    <<123, 32, 34, 110, 34, 58, 49, 44, 34, 109, 34, 58, 123, 34, 116, 34, 58,
      50, 48, 125, 32, 44, 10, 34, 110, 34, 58, 34, 92, 34, 92, 92, 92, 47, 92,
      110, 92, 117, 48, 48, 48, 49, 92, 117, 48, 48, 101, 57, 92, 117, 68, 56,
      51, 68, 92, 117, 68, 69, 48, 48, 34, 125>>

\* {"n":01}
NoJson == <<123, 34, 110, 34, 58, 48, 49, 125>>

OneText == SerializeObject(One)

OtherWritten == SerializeObject(Other)

MCMeaning ==
    OneText :> One @@ OtherText :> Other @@ OtherWritten :> Other @@ NoJson :> Fail

MCPayloads == {OneText, OtherText, NoJson}

\* Where a write may be cut short: after a backslash, within the digits of an
\* escape, after a value, before the last bracket.
Cuts == {30, 37, 41, 65}

Records == {OneText, OtherText}

Beginnings == {SubSeq(p, 1, Min({n, Len(p) - 1})) : p \in Records, n \in Cuts}

MCTexts ==
    MCPayloads \union Beginnings \union {OtherWritten}
    \union {Overlay(p, t) : p \in Records, t \in Records \union Beginnings}

Oldest ==
    first(limit(order_by(where(<<>>, CONTAINS(<<Name>>, OneName)),
                         <<Meta, Time>>, "asc"), 1))

OneOf ==
    first(where(where(<<>>, NOT_CONTAINS(<<Name>>, <<195, 169>>)),
                EQUALS(<<Meta, Time>>, <<"int", -3>>)))

Newest == order_by(<<>>, <<Meta, Time>>, "desc")

MCQueries == {Oldest, OneOf, Newest}

ASSUME FieldAssumption == FieldsArePresent /\ FieldsAreComparable

Symmetry == Permutations(Keys) \union Permutations(Workers)
=============================================================================
