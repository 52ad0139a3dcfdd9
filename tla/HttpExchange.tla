----------------------------- MODULE HttpExchange -----------------------------
(***************************************************************************)
(* A web application with RPCs over the HTTP server: what arrives on a     *)
(* connection, what main_handler and the RPC make of it, and what the      *)
(* caller is told.                                                         *)
(*                                                                         *)
(* A worker reads a connection once, at most BUFFER_SIZE bytes, and takes  *)
(* what has arrived by then for the request.  Send and Garble of           *)
(* HttpServer are a part of the request that parses and one that does not. *)
(*                                                                         *)
(* What the texts are and how they are parsed are constants here, which    *)
(* HttpText defines.  A parser returns its result in a tuple, or Fail.     *)
(***************************************************************************)
EXTENDS HttpServer, JsonValue

CONSTANTS
    Routes,   \* the routes in the order of ADD_ROUTE: method, pattern, and the
              \* fields of the message that its RPC takes, or Page
    Page,     \* what is no RPC: it looks at no message
    CallsOf,  \* CallsOf[c]: the calls that are made on c: kind, path and message
    SplitOn,  \* a bound: the connections on which a request may be split
    Nothing,  \* no message, no response, no result
    Sent(_),          \* Sent(k): the text of the request of call k
    RequestIn(_),     \* ParseRequest
    MessageIn(_, _),  \* ExtractProtoFromRequest: of these fields, from a request
    BodyOf(_),        \* BodyOf(message): the body of a response that has it
    Received(_, _),   \* ParseMessage: of these fields, from a body
    IsNumber(_)       \* whether QueryParamsToJson makes a number of a text

ASSUME ExchangeAssumption ==
    /\ SplitOn \subseteq Conns
    /\ \A c \in Conns : \A k \in CallsOf[c] :
        /\ k.kind \in {"rpc", "query", "form", "page"}
        /\ Sent(k) \in Seq(Nat)

VARIABLES
    reading,  \* reading[c]: the call on c, and what its worker will read of it
    handled,  \* history: handled[c]: the message that an RPC processed for it
    response, \* response[w]: the response that worker w is to write
    result    \* result[c]: what the caller on connection c is told

exchangeVars == <<reading, handled, response, result>>
allVars == <<vars, exchangeVars>>

-----------------------------------------------------------------------------
(* main_handler and RPC::HttpHandler *)

Star == 42

PathMatches(path, pattern) ==
    /\ path # <<>> /\ pattern # <<>>
    /\ \/ path = pattern
       \/ Last(pattern) = Star /\ IsPrefix(Front(pattern), path)

\* The place in routes of the handler that main_handler calls, 0 for none.
RouteOf(routes, req) ==
    LET matching == {i \in DOMAIN routes :
            /\ routes[i].method = req.method
            /\ PathMatches(req.path, routes[i].pattern)}
    IN  IF matching = {} THEN 0 ELSE Min(matching)

AllCalls == UNION {CallsOf[c] : c \in Conns}

\* RPCClient::Call: the answer in a tuple of its own, or Fail.
Told(k, status, body) ==
    IF status # 200 THEN Fail ELSE Received(DOMAIN k.message, body)

\* A response is what each caller would be told by it.
Response(status, body) == [k \in AllCalls |-> Told(k, status, body)]
ErrorResponse(status) == Response(status, <<>>)

\* Mutant of Message: a request that has no message is taken for an empty one.
OrEmpty(fields, message) ==
    IF message = Fail THEN <<[name \in fields |-> <<>>]>> ELSE message
MessageOrEmpty(fields, req) == OrEmpty(fields, MessageIn(fields, req))

Message(fields, req) == MessageIn(fields, req)

\* An RPC answers, here with the message that it was given.  (One that fails is told
\* as a request without a message is.)
Outcome(message) ==
    IF message = Fail THEN [processed |-> Nothing, response |-> ErrorResponse(400)]
    ELSE [processed |-> message[1],
          response |-> Response(200, BodyOf(message[1]))]

\* What the handler of a route, 0 for none, makes of a request.
HandledBy(i, req) ==
    IF i = 0 THEN [processed |-> Nothing, response |-> ErrorResponse(404)]
    ELSE IF Routes[i].fields = Page
    THEN [processed |-> Nothing, response |-> Response(200, <<>>)]
    ELSE Outcome(Message(Routes[i].fields, req))

main_handler(req) == HandledBy(RouteOf(Routes, req), req)

-----------------------------------------------------------------------------
(* What a worker makes of the part of a request that has arrived *)

Unread == [processed |-> Nothing, response |-> Nothing]

\* A part of the text of a call: its length and whether it is whole, and what
\* ParseRequest and main_handler make of it.
Reading(k, n, whole, req) ==
    [call |-> k, length |-> n, whole |-> whole, parsed |-> req # Fail,
     outcome |-> IF req = Fail THEN Unread ELSE main_handler(req[1])]

ReadingsOf(k, text) ==
    {Reading(k, n, n = Len(text), RequestIn(SubSeq(text, 1, n))) : n \in 1 .. Len(text)}

\* Of the lengths that make no difference, the least.
Distinct(readings) ==
    {r \in readings : \A s \in readings :
        [s EXCEPT !.length = r.length] = r => r.length <= s.length}

Cuts(c) == UNION {Distinct(ReadingsOf(k, Sent(k))) : k \in CallsOf[c]}

-----------------------------------------------------------------------------

\* How far a request has come when it is read is settled beforehand: no step of a
\* client or of the server but the read depends on it.
ExchangeInit ==
    /\ ServerInit
    /\ reading \in {f \in [Conns -> UNION {Cuts(c) : c \in Conns}] :
                        \A c \in Conns : f[c].call \in CallsOf[c]}
    /\ \A c \in Conns \ SplitOn : reading[c].whole
    /\ polite => \A c \in Conns : reading[c].parsed
    /\ handled = [c \in Conns |-> Nothing]
    /\ response = [w \in Workers |-> Nothing]
    /\ result = [c \in Conns |-> Nothing]

\* Enough of the request arrives to be parsed, or too little.
RequestArrives(c) ==
    /\ IF reading[c].parsed THEN Send(c) ELSE Garble(c)
    /\ UNCHANGED exchangeVars

\* The handler runs on what has been read, and does not wait for the rest.
Handle(w) ==
    LET c == request[w]
    IN  /\ EndRead(w)
        /\ handled' = [handled EXCEPT ![c] = reading[c].outcome.processed]
        /\ response' = [response EXCEPT ![w] = reading[c].outcome.response]
        /\ UNCHANGED <<reading, result>>

Answer(w) ==
    LET c == fdTable[fd[w]]
    IN  /\ Write(w)
        /\ result' = IF answer' = answer THEN result
                     ELSE [result EXCEPT ![c] = response[w][reading[c].call]]
        /\ response' = [response EXCEPT ![w] = Nothing]
        /\ UNCHANGED <<reading, handled>>

AnswerFails(w) ==
    /\ WriteFails(w)
    /\ response' = [response EXCEPT ![w] = Nothing]
    /\ UNCHANGED <<reading, handled, result>>

ExchangeClientStep(c) ==
    \/ RequestArrives(c)
    \/ GiveUp(c) /\ UNCHANGED exchangeVars

ExchangeAcceptorStep == AcceptorStep /\ UNCHANGED exchangeVars

ExchangeWorkerStep(w) ==
    \/ (Sleep(w) \/ Exit(w) \/ Pop(w) \/ BeginRead(w)) /\ UNCHANGED exchangeVars
    \/ (ReadBadDescriptor(w) \/ ReadFails(w) \/ CloseSocket(w)) /\ UNCHANGED exchangeVars
    \/ Handle(w)
    \/ Answer(w)
    \/ AnswerFails(w)

ExchangeStopStep == StopStep /\ UNCHANGED exchangeVars

ExchangeNext ==
    \/ \E c \in Conns : ExchangeClientStep(c) \/ (Connect(c) /\ UNCHANGED exchangeVars)
    \/ ExchangeAcceptorStep
    \/ \E w \in Workers :
        ExchangeWorkerStep(w) \/ (SpuriousWakeup(w) /\ UNCHANGED exchangeVars)
    \/ FlagStop /\ UNCHANGED exchangeVars
    \/ ExchangeStopStep

ExchangeFairness ==
    /\ \A c \in Conns : WF_allVars(ExchangeClientStep(c))
    /\ WF_allVars(ExchangeAcceptorStep)
    /\ \A w \in Workers : WF_allVars(ExchangeWorkerStep(w))
    /\ WF_allVars(ExchangeStopStep)

ExchangeSpec == ExchangeInit /\ [][ExchangeNext]_allVars /\ ExchangeFairness

-----------------------------------------------------------------------------

\* What the RPC should be given for a call.  A parameter or a field of a form that
\* looks like a number is a number to it, and no text.
Meant(k) ==
    IF k.kind = "rpc" THEN k.message
    ELSE [name \in DOMAIN k.message |->
            IF IsNumber(k.message[name]) THEN <<>> ELSE k.message[name]]

\* A text from which no RPC gets a message, and one from which an RPC gets this one.
Refused(text) ==
    LET parsed == RequestIn(text)
        i      == RouteOf(Routes, parsed[1])
    IN  \/ parsed = Fail
        \/ i = 0
        \/ Routes[i].fields = Page
        \/ MessageIn(Routes[i].fields, parsed[1]) = Fail

TakenAs(text, message) ==
    LET parsed == RequestIn(text)
        i      == RouteOf(Routes, parsed[1])
    IN  /\ parsed # Fail
        /\ i # 0
        /\ Routes[i].fields # Page
        /\ MessageIn(Routes[i].fields, parsed[1]) = <<message>>

\* What the parsers and the routes are to make of the texts of the calls: of a part of
\* one that is no form, of the whole, and of the response.
PartsAreRefused ==
    \A k \in AllCalls : k.kind # "form" =>
        \A n \in 1 .. Len(Sent(k)) - 1 : Refused(SubSeq(Sent(k), 1, n))

CallsAreTaken ==
    \A k \in AllCalls :
        IF k.kind = "page" THEN Refused(Sent(k)) ELSE TakenAs(Sent(k), Meant(k))

RepliesAreRead ==
    \A k \in AllCalls : Received(DOMAIN k.message, BodyOf(Meant(k))) \in {Fail, <<Meant(k)>>}

(* However a request is split on its way, no RPC processes a part of it:   *)
(* what has not arrived whole is refused, by the parser of the request or  *)
(* by that of its JSON.  Only a form is processed as far as it has come,   *)
(* for it has no end that could be missed.                                 *)
HandledWhole ==
    \A c \in Conns :
        LET k == reading[c].call
        IN  handled[c] # Nothing /\ (k.kind = "form" => reading[c].whole)
            => handled[c] = Meant(k)

(* A remote call is like a local one: while all clients are polite,        *)
(* a request that arrives whole is processed by the RPC of its route, and  *)
(* what it is told is the answer of that RPC to this very call.            *)
CallIsLocal ==
    polite => \A c \in Conns :
        LET k == reading[c].call
        IN  peer[c] = "answered" /\ reading[c].whole /\ k.kind # "page"
            => /\ handled[c] = Meant(k)
               /\ result[c] \in {Fail, <<Meant(k)>>}
=============================================================================
