------------------------------ MODULE RecordStore ------------------------------
(***************************************************************************)
(* What database-service promises its callers, without files: an upsert    *)
(* removes the record at one instant and puts the new payload at a later   *)
(* one, or fails before it removed anything; a query looks at the records  *)
(* one after the other, each at one instant of its own; a crash ends the   *)
(* calls in progress and leaves the records as they are.                   *)
(***************************************************************************)
EXTENDS Naturals, FiniteSets

CONSTANTS Keys, Payloads, Workers, Queries, Match, Rank, Limit, Absent

VARIABLES
    val,   \* val[k]: the payload of record k
    op     \* op[w]: the call that worker thread w is serving

vars == <<val, op>>

NoOp == [stage |-> "idle"]

Init ==
    /\ val = [k \in Keys |-> Absent]
    /\ op = [w \in Workers |-> NoOp]

BeginUpsert(w, k, p) ==
    /\ op[w] = NoOp
    /\ op' = [op EXCEPT ![w] = [stage |-> "begun", key |-> k, payload |-> p]]
    /\ UNCHANGED val

FailUpsert(w) ==
    /\ op[w].stage = "begun"
    /\ op' = [op EXCEPT ![w].stage = "failed"]
    /\ UNCHANGED val

Remove(w) ==
    /\ op[w].stage = "begun"
    /\ val' = [val EXCEPT ![op[w].key] = Absent]
    /\ op' = [op EXCEPT ![w].stage = "removed"]

Put(w) ==
    /\ op[w].stage = "removed"
    /\ val' = [val EXCEPT ![op[w].key] = op[w].payload]
    /\ op' = [op EXCEPT ![w].stage = "ok"]

EndUpsert(w) ==
    /\ op[w].stage \in {"ok", "failed"}
    /\ op' = [op EXCEPT ![w] = NoOp]
    /\ UNCHANGED val

\* A query q that has yet to look at the records todo.
QueryOp(stage, q, todo, found) ==
    [stage |-> stage, query |-> q, todo |-> todo, found |-> found]

BeginQuery(w, q) ==
    /\ op[w] = NoOp
    /\ op' = [op EXCEPT ![w] = QueryOp("list", q, {}, {})]
    /\ UNCHANGED val

\* A record that is being replaced may be among those to look at.
List(w) ==
    /\ op[w].stage = "list"
    /\ \E T \in SUBSET Keys :
        /\ {k \in Keys : val[k] # Absent} \subseteq T
        /\ op' = [op EXCEPT ![w] = QueryOp("read", op[w].query, T, {})]
    /\ UNCHANGED val

\* Mutant of See: each record replaces the ones found before it.
SeeOnlyLast(w, k) ==
    /\ op[w].stage = "read"
    /\ k \in op[w].todo
    /\ LET q == op[w].query
           seen == IF val[k] \in Match[q] THEN {<<k, val[k]>>} ELSE {}
       IN  op' = [op EXCEPT ![w] = QueryOp("read", q, op[w].todo \ {k}, seen)]
    /\ UNCHANGED val

See(w, k) ==
    /\ op[w].stage = "read"
    /\ k \in op[w].todo
    /\ LET q == op[w].query
           seen == IF val[k] \in Match[q] THEN {<<k, val[k]>>} ELSE {}
       IN  op' = [op EXCEPT ![w] =
                    QueryOp("read", q, op[w].todo \ {k}, op[w].found \union seen)]
    /\ UNCHANGED val

\* Mutant of Answers: ORDER_BY is forgotten.
UnsortedAnswers(q, seen) ==
    {R \in SUBSET seen :
        /\ R = seen \/ (Limit[q] > 0 /\ Cardinality(R) = Limit[q])
        /\ Limit[q] > 0 => Cardinality(R) <= Limit[q]}

\* The answer holds the first Limit[q] of the records seen, or all of them.
Answers(q, seen) ==
    {R \in SUBSET seen :
        /\ R = seen \/ (Limit[q] > 0 /\ Cardinality(R) = Limit[q])
        /\ Limit[q] > 0 => Cardinality(R) <= Limit[q]
        /\ \A r \in R, s \in seen \ R : Rank[q][r[2]] <= Rank[q][s[2]]}

AnswerQuery(w) ==
    /\ op[w].stage = "read"
    /\ op[w].todo = {}
    /\ \E R \in Answers(op[w].query, op[w].found) :
        op' = [op EXCEPT ![w] = QueryOp("answer", op[w].query, {}, R)]
    /\ UNCHANGED val

EndQuery(w) ==
    /\ op[w].stage = "answer"
    /\ op' = [op EXCEPT ![w] = NoOp]
    /\ UNCHANGED val

Crash ==
    /\ op' = [w \in Workers |-> NoOp]
    /\ UNCHANGED val

\* The steps of a call that the caller takes no part in.
Step(w) ==
    \/ FailUpsert(w)
    \/ Remove(w)
    \/ Put(w)
    \/ List(w)
    \/ \E k \in Keys : See(w, k)
    \/ AnswerQuery(w)

Internal == \E w \in Workers : Step(w)

Next ==
    \/ Internal
    \/ Crash
    \/ \E w \in Workers :
        \/ \E k \in Keys, p \in Payloads : BeginUpsert(w, k, p)
        \/ EndUpsert(w)
        \/ \E q \in Queries : BeginQuery(w, q)
        \/ EndQuery(w)

Spec == Init /\ [][Next]_vars
=============================================================================
