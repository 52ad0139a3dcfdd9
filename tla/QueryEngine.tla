------------------------------ MODULE QueryEngine ------------------------------
(***************************************************************************)
(* How database-service evaluates a query over the records it has read:    *)
(* the WHERE, ORDER_BY and LIMIT steps of QueryRPC.                        *)
(*                                                                         *)
(* A query is the sequence of its steps, a field path the sequence of the  *)
(* keys between its dots, and the value that a condition expects a JSON    *)
(* value.  What the JSON library makes of a text is a constant here:       *)
(* JsonText computes it for the instances that are checked.                *)
(***************************************************************************)
EXTENDS JsonValue

CONSTANTS
    Keys,      \* the uuids that records of the collection may have
    Payloads,  \* the payload_json texts that clients send
    Queries,   \* the queries that clients send
    Texts,     \* the contents that the file of a record may get
    ValueOf(_) \* the value that ParseObject reads from a text, or Fail

\* CONTAINS and NOT_CONTAINS take a string; a value to be equal to may be an
\* int or a bool as well.
ASSUME QueryAssumption ==
    /\ Payloads \subseteq Texts
    /\ \A q \in Queries : Len(q) \in Nat /\ DOMAIN q = 1 .. Len(q)
    /\ \A q \in Queries : \A i \in DOMAIN q :
        \/ q[i].type = "WHERE" /\ \/ q[i].operator = "eq"
                                     /\ q[i].value[1] \in {"string", "int", "bool"}
                                  \/ q[i].operator \in {"contains", "not_contains"}
                                     /\ q[i].value[1] = "string"
        \/ q[i].type = "ORDER_BY"
        \/ q[i].type = "LIMIT" /\ q[i].limit \in Nat

\* The value of every text; TLC evaluates the operands of @@, so it parses each
\* text once.
Parsed == [t \in Texts |-> ValueOf(t)] @@ <<>>

\* Object::get with a key.
get(v, key) ==
    IF v # Fail /\ v[1] = "map" /\ key \in DOMAIN v[2] THEN v[2][key] ELSE Fail

\* A text that does not parse has no field.
ExtractFieldValue(v, path) == IF v = Fail THEN Fail ELSE FoldLeft(get, v, path)

\* Object::as: a value of another type counts as the empty one.
as(v, type) ==
    IF v[1] = type THEN v[2]
    ELSE CASE type = "string" -> <<>> [] type = "int" -> 0 [] type = "bool" -> FALSE

IsWithin(s, t) ==
    \E i \in 1 .. Len(t) - Len(s) + 1 : SubSeq(t, i, i + Len(s) - 1) = s

CompareValues(v, operator, expected) ==
    CASE operator = "eq"           -> as(v, expected[1]) = expected[2]
      [] operator = "contains"     -> IsWithin(expected[2], as(v, "string"))
      [] operator = "not_contains" -> ~ IsWithin(expected[2], as(v, "string"))

\* The loop over the conditions, which ends at the first that fails or whose
\* field is not there.
Evaluate(v, q) ==
    LET conditions == {i \in DOMAIN q : q[i].type = "WHERE"}
        value == [i \in conditions |-> ExtractFieldValue(v, q[i].field)]
        ends  == {i \in conditions :
                    \/ value[i] = Fail
                    \/ ~ CompareValues(value[i], q[i].operator, q[i].value)}
    IN  IF ends = {} THEN "match"
        ELSE IF value[Min(ends)] = Fail THEN "error" ELSE "no match"

\* The last step of this type is the one that counts, 0 if there is none.
LastStep(q, type) == SelectLastInSubSeq(q, 1, Len(q), LAMBDA s : s.type = type)

\* One round of std::sort for up to 16 elements, an insertion sort: x comes
\* before the first element if the comparator says so, else after the last
\* element that it does not come before.  The comparator is the set of pairs
\* for which it returns true.
Insert(sorted, x, before) ==
    LET ahead == {i \in DOMAIN sorted : <<x, sorted[i]>> \notin before}
    IN  IF 1 \in ahead THEN InsertAt(sorted, Max(ahead) + 1, x)
        ELSE <<x>> \o sorted

StdSort(s, before) ==
    LET sorted[n \in 0 .. Len(s)] ==
            IF n = 0 THEN <<>> ELSE Insert(sorted[n - 1], s[n], before)
    IN  sorted[Len(s)]

CompareJsonObjects(a, b) ==
    \/ a[1] = "string" /\ b[1] = "string" /\ LessString(a[2], b[2])
    \/ a[1] = "int" /\ b[1] = "int" /\ a[2] < b[2]

Less(v, w, path) ==
    CompareJsonObjects(ExtractFieldValue(v, path), ExtractFieldValue(w, path))

\* Mutant of SortRecords: the direction is not looked at.
SortAscending(found, orderBy) ==
    StdSort(found, {ab \in ToSet(found) \X ToSet(found) :
        Less(Parsed[ab[1][2]], Parsed[ab[2][2]], orderBy.field)})

\* The records found are pairs of a uuid and a text.  Any direction but
\* "asc" negates operator<, so that equal values come before one another.
SortRecords(found, orderBy) ==
    StdSort(found, {ab \in ToSet(found) \X ToSet(found) :
        Less(Parsed[ab[1][2]], Parsed[ab[2][2]], orderBy.field)
            = (orderBy.direction = "asc")})

\* Every record to sort is parsed and has the field.
Sortable(q, found) ==
    LET i == LastStep(q, "ORDER_BY")
    IN  i # 0 => \A n \in DOMAIN found :
            ExtractFieldValue(Parsed[found[n][2]], q[i].field) # Fail

Sorted(q, found) ==
    LET i == LastStep(q, "ORDER_BY")
    IN  IF i = 0 THEN found ELSE SortRecords(found, q[i])

LimitOf(q) == LET i == LastStep(q, "LIMIT") IN IF i = 0 THEN 0 ELSE q[i].limit

\* resize, when there is a LIMIT and it is exceeded.
Truncated(s, n) == IF n > 0 /\ Len(s) > n THEN SubSeq(s, 1, n) ELSE s
=============================================================================
