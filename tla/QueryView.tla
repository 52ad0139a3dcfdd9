------------------------------- MODULE QueryView -------------------------------
(***************************************************************************)
(* The client side of a query: the steps that the calls of QueryView       *)
(* build, and its evaluation over values that the program already holds    *)
(* (the constructor without a collection), which repeats in the client     *)
(* what database-service does with files.                                  *)
(***************************************************************************)
EXTENDS DatabaseService

\* EQUALS, CONTAINS and NOT_CONTAINS make the condition of a where.
EQUALS(field, v) ==
    [type |-> "WHERE", field |-> field, operator |-> "eq", value |-> v]

CONTAINS(field, s) ==
    [type |-> "WHERE", field |-> field, operator |-> "contains", value |-> <<"string", s>>]

NOT_CONTAINS(field, s) ==
    [type |-> "WHERE", field |-> field, operator |-> "not_contains", value |-> <<"string", s>>]

where(q, condition) == Append(q, condition)

order_by(q, field, direction) ==
    Append(q, [type |-> "ORDER_BY", field |-> field, direction |-> direction])

limit(q, n) == Append(q, [type |-> "LIMIT", limit |-> n])

\* The query behind first: at most one record is asked for.
first(q) == limit(q, 1)

-----------------------------------------------------------------------------
(* The local branch of materialize. *)

CONSTANT Written(_)   \* the text that Serialize writes for a value

ASSUME ViewAssumption ==
    \A v \in Values \ {Fail} :
        Written(v) \in DOMAIN Meaning \intersect Texts /\ Meaning[Written(v)] = v

\* Every value is serialized and parsed again to be looked at.
Reparsed == [v \in Values |-> IF v = Fail THEN Fail ELSE Parsed[Written(v)]]

FieldLocal(v, path) == ExtractFieldValue(Reparsed[v], path)

\* A field that is not there is an error.
EvaluateConditionLocal(v, step) ==
    LET value == FieldLocal(v, step.field)
        matches ==
            \/ step.operator = "eq" /\ as(value, step.value[1]) = step.value[2]
            \/ step.operator = "contains" /\ IsWithin(step.value[2], as(value, "string"))
            \/ step.operator = "not_contains" /\ ~ IsWithin(step.value[2], as(value, "string"))
    IN  IF value = Fail THEN "error" ELSE IF matches THEN "match" ELSE "no match"

\* The loop over the conditions, which ends at the first that is not met.
EvaluateLocal(v, q) ==
    LET conditions == {i \in DOMAIN q : q[i].type = "WHERE"}
        unmet == {i \in conditions : EvaluateConditionLocal(v, q[i]) # "match"}
    IN  IF unmet = {} THEN "match" ELSE EvaluateConditionLocal(v, q[Min(unmet)])

\* Mutant of Filtered: one condition that holds is enough.
FilteredByAny(q, values) ==
    <<SelectSeq(values, LAMBDA v :
        \E i \in DOMAIN q : q[i].type = "WHERE" /\ EvaluateConditionLocal(v, q[i]) = "match")>>

\* The loop over the values, which keeps those that meet every condition: a tuple
\* of the kept ones, or Fail.
Filtered(q, values) ==
    LET kept[n \in 0 .. Len(values)] ==
            IF n = 0 THEN <<>>
            ELSE IF EvaluateLocal(values[n], q) = "match" THEN Append(kept[n - 1], values[n])
            ELSE kept[n - 1]
    IN  IF \E n \in 1 .. Len(values) : EvaluateLocal(values[n], q) = "error" THEN Fail
        ELSE <<kept[Len(values)]>>

\* Here the first step of a type is the one that counts.
FirstStep(q, type) == SelectInSubSeq(q, 1, Len(q), LAMBDA s : s.type = type)

\* The comparator is false in both directions for a value without the field.
Ordered(q, values) ==
    LET i == FirstStep(q, "ORDER_BY")
        field(v) == FieldLocal(v, q[i].field)
        pairs == {ab \in ToSet(values) \X ToSet(values) :
                    field(ab[1]) # Fail /\ field(ab[2]) # Fail}
        aLess == {ab \in pairs : CompareJsonObjects(field(ab[1]), field(ab[2]))}
    IN  IF i = 0 THEN values
        ELSE StdSort(values, IF q[i].direction = "asc" THEN aLess ELSE pairs \ aLess)

\* A tuple of the values that are left, or Fail.
Materialized(q, values) ==
    LET i == FirstStep(q, "LIMIT")
        kept == Filtered(q, values)
        sorted == Ordered(q, kept[1])
    IN  IF kept = Fail THEN Fail
        ELSE <<IF i = 0 THEN sorted ELSE Truncated(sorted, q[i].limit)>>

-----------------------------------------------------------------------------

\* What the client makes of the records of an answer.
Decoded(found) == [i \in DOMAIN found |-> Parsed[found[i][2]]]

\* The query asks for one order and for one limit at most.
StepsAgree(q) ==
    \A i, j \in DOMAIN q : q[i].type = q[j].type /\ q[i].type # "WHERE" => q[i] = q[j]

\* What the local view makes of the record that ReadRecord looks at.
KeptAlike(w, k) ==
    LET kept == Filtered(job[w].query, <<Parsed[file[k]]>>)
    IN  ReadRecord(w, k) /\ file[k] \in Texts /\ Parsed[file[k]] # Fail =>
            IF job'[w].stage = "failed" THEN kept = Fail
            ELSE kept # Fail /\ Decoded(job'[w].found) = Decoded(job[w].found) \o kept[1]

\* What it makes of the records that SortAndLimit answers with.
MadeAlike(w) ==
    SortAndLimit(w) /\ job'[w].stage = "answer"
    /\ Fail \notin ToSet(Decoded(job[w].found)) /\ StepsAgree(job[w].query) =>
        Materialized(job[w].query, Decoded(job[w].found)) = <<Decoded(job'[w].found)>>

(* A program that filters, sorts and limits values it holds gets what      *)
(* database-service would have answered from records with these values:    *)
(* each record is kept, is dropped or is an error alike, and the answer    *)
(* made from the kept records is the same sequence, ties included, unless  *)
(* the query has two orders or limits.                                     *)
LocalViewAgrees ==
    [][\A w \in Workers : (\A k \in Keys : KeptAlike(w, k)) /\ MadeAlike(w)]_dbVars
=============================================================================
