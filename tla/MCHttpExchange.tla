---------------------------- MODULE MCHttpExchange ----------------------------
(***************************************************************************)
(* The routes of task-queue-service, and a call of each kind on one        *)
(* connection: RPCClient creates a task, a probe asks for its status, or a *)
(* form creates one; on the other, a probe of /health/.  The letters stand *)
(* for paths, names of fields and characters.                              *)
(***************************************************************************)
EXTENDS HttpExchange, HttpText

Create == <<300>>
Status == <<301>>
System == <<302>>
Health == <<303>>
Uuid == <<304>>
TaskName == <<305>>

Route(method, pattern, fields) == [method |-> method, pattern |-> pattern, fields |-> fields]

MCRoutes == <<
    Route(Post, Create, {TaskName, Uuid}),
    Route(Get, Status, {Uuid}),
    Route(Get, System, {}),
    Route(Get, Health, Page)>>

CONSTANTS c1, c2

\* A quote in a string, and a uuid that begins with a digit.
MCCallsOf ==
    c1 :> {[kind |-> "rpc", path |-> Create,
            message |-> TaskName :> <<Quote, 306>> @@ Uuid :> <<51, 97>>],
           [kind |-> "query", path |-> Status, message |-> Uuid :> <<51, 97>>],
           [kind |-> "form", path |-> Create,
            message |-> TaskName :> <<>> @@ Uuid :> <<307>>]}
    @@ c2 :> {[kind |-> "page", path |-> Health, message |-> <<>>]}

ASSUME TextAssumption == PartsAreRefused /\ CallsAreTaken /\ RepliesAreRead
=============================================================================
