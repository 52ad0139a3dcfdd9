------------------------------- MODULE HttpText -------------------------------
(***************************************************************************)
(* The texts of net/http and net/rpc: how a request is parsed, how it is   *)
(* routed, and how a message (a proto) is taken from it and sent.          *)
(*                                                                         *)
(* A text is a sequence of letters.  The letters below 256 are bytes; a    *)
(* word that the code only compares (a method, the name of a header, a     *)
(* segment of a path, the name of a field) is one letter of its own above  *)
(* them.  Parsers follow JsonText: a cursor, and Fail for an error.        *)
(*                                                                         *)
(* A message is a function from the names of its fields, which are strings *)
(* here, to their texts.                                                   *)
(***************************************************************************)
EXTENDS JsonText

LineFeed == 10
Return == 13
Space == 32
Percent == 37
Ampersand == 38
Plus == 43
Semicolon == 59
Equals == 61
Question == 63

Get == <<256>>
Post == <<257>>
HttpTag == <<258>>
ContentType == <<259>>
FormType == <<260>>
JsonType == <<261>>
OtherType == <<262>>
WithBody == {Post, <<264>>, <<265>>, <<266>>}   \* and PUT, PATCH, DELETE

-----------------------------------------------------------------------------
(* http/parsers.cc *)

\* The place of the first letter of enders, behind the text if there is none.
Find(s, i, enders) == Min({j \in i .. Len(s) : s[j] \in enders} \union {Len(s) + 1})

\* The word from i to before end.
ReadWord(s, i, end) == SelectSeq(SubSeq(s, i, end - 1), LAMBDA c : c # Return)

AtEndOfLine(s, i) ==
    At(s, i) = LineFeed \/ (At(s, i) = Return /\ At(s, i + 1) = LineFeed)

\* The parameters from the cursor on, in a tuple of their own; the first one of a
\* name counts.
RECURSIVE QueryParams(_, _, _)
QueryParams(s, i, before) ==
    LET equals == Find(s, i, {Equals})
        end    == Find(s, equals + 1, {Ampersand, LineFeed})
        params == before @@ ReadWord(s, i, equals) :> ReadWord(s, equals + 1, end)
    IN  IF equals >= Len(s) THEN Fail
        ELSE IF end > Len(s) THEN <<params>>
        ELSE IF s[end] # Ampersand \/ end = Len(s) THEN Fail
        ELSE QueryParams(s, end + 1, params)

\* The path of a target, and its parameters in a tuple, or Fail.
ParsePath(target) ==
    LET end == Find(target, 1, {Question})
    IN  <<SubSeq(target, 1, end - 1),
          IF end > Len(target) THEN <<<<>>>> ELSE QueryParams(target, end + 1, <<>>)>>

-----------------------------------------------------------------------------
(* http/request.cc *)

\* The headers, of which there is at least one, and the cursor behind the empty
\* line.  What is read to an end needs a letter behind it, but for a value.
RECURSIVE Headers(_, _, _)
Headers(s, i, before) ==
    LET colon == Find(s, i, {Colon})
        end   == Find(s, colon + 2, {LineFeed})
        all   == ReadWord(s, i, colon) :> ReadWord(s, colon + 2, end) @@ before
    IN  IF At(s, colon + 1) # Space \/ colon + 1 >= Len(s) \/ end > Len(s) THEN Fail
        ELSE IF AtEndOfLine(s, end + 1) THEN <<all, Find(s, end + 1, {LineFeed}) + 1>>
        ELSE Headers(s, end + 1, all)

\* The request in a tuple of its own, of its parts.
RequestOf(s, method, target, headers) ==
    IF Fail \in {target[2], headers} THEN Fail
    ELSE <<[method |-> method, path |-> target[1], params |-> target[2][1],
            headers |-> headers[1], body |-> SubSeq(s, headers[2], Len(s))]>>

ParseText(s) ==
    LET method == Find(s, 1, {Space})
        target == Find(s, method + 1, {Space})
        tag    == Find(s, target + 1, {LineFeed})
    IN  IF tag >= Len(s) \/ ReadWord(s, target + 1, tag) # HttpTag THEN Fail
        ELSE RequestOf(s, ReadWord(s, 1, method), ParsePath(ReadWord(s, method + 1, target)),
                       Headers(s, tag + 1, <<>>))

\* A buffer ends at its first zero.
ParseRequest(buffer) == ParseText(SubSeq(buffer, 1, Find(buffer, 1, {0}) - 1))

\* The byte that >> std::hex makes of two letters: a digit, two digits, or a blank or
\* a sign and a digit.  Two blanks leave it undefined, which is 0 here.
HexByte(c, d) ==
    LET low == IF HexToInt(d) = -1 THEN 0 ELSE HexToInt(d)
    IN  CASE HexToInt(c) # -1 /\ HexToInt(d) # -1 -> 16 * HexToInt(c) + low
          [] HexToInt(c) # -1 /\ HexToInt(d) = -1 -> HexToInt(c)
          [] c \in 9 .. 13 \union {Space, Plus}   -> low
          [] c = Minus                            -> (256 - low) % 256
          [] OTHER                                -> 0

\* A percent sign that two letters do not follow is dropped.
RECURSIVE UrlDecode(_)
UrlDecode(s) ==
    IF s = <<>> THEN <<>>
    ELSE IF Head(s) # Percent
    THEN <<IF Head(s) = Plus THEN Space ELSE Head(s)>> \o UrlDecode(Tail(s))
    ELSE IF Len(s) < 3 THEN UrlDecode(Tail(s))
    ELSE <<HexByte(s[2], s[3])>> \o UrlDecode(SubSeq(s, 4, Len(s)))

\* The fields of a form; a pair without an equals sign is none, the last of a name
\* counts.
RECURSIVE ParseFormUrlEncoded(_)
ParseFormUrlEncoded(body) ==
    IF body = <<>> THEN <<>>
    ELSE LET end    == Find(body, 1, {Ampersand})
             pair   == SubSeq(body, 1, end - 1)
             equals == Find(pair, 1, {Equals})
             others == ParseFormUrlEncoded(SubSeq(body, end + 1, Len(body)))
         IN  IF equals > Len(pair) THEN others
             ELSE others @@ UrlDecode(SubSeq(pair, 1, equals - 1))
                                :> UrlDecode(SubSeq(pair, equals + 1, Len(pair)))

-----------------------------------------------------------------------------
(* rpc/rpc.hh, rpc/rpc.cc and the generated messages *)

\* ParseInt takes a sign and digits at the beginning, and needs one of them.
IsInt(s) == At(s, 1) \in Digit \union {Plus, Minus}

ParseInt(s) ==
    LET sign   == IF At(s, 1) = Plus THEN 2 ELSE 1
        from   == IF At(s, sign) = Minus THEN sign + 1 ELSE sign
        digits == SubSeq(s, from, Find(s, from, Nat \ Digit) - 1)
        n      == ToInt(Decimal(digits))
    IN  IF At(s, sign) = Minus THEN -n ELSE n

QueryParamsToJson(params) ==
    <<"map", [name \in DOMAIN params |->
                IF IsInt(params[name]) THEN <<"int", ParseInt(params[name])>>
                ELSE <<"string", params[name]>>]>>

\* The parameters of a media type are not looked at, nor the space before them.
MatchesContentType(contentType, expected) ==
    LET base == SubSeq(contentType, 1, Find(contentType, 1, {Semicolon}) - 1)
        last == Max({i \in DOMAIN base : base[i] > Space} \union {0})
    IN  SubSeq(base, 1, last) = expected

\* FromObject of a message whose fields are strings: a field that the object lacks,
\* or that is something else in it, is empty.
FromObject(fields, object) ==
    IF object = Fail \/ object[1] # "map" THEN Fail
    ELSE <<[name \in fields |->
        IF name \in DOMAIN object[2] /\ object[2][name][1] = "string"
        THEN object[2][name][2] ELSE <<>>]>>

ToObject(message) == <<"map", [name \in DOMAIN message |-> <<"string", message[name]>>]>>

\* A message in a tuple of its own, or Fail.
ParseMessage(fields, text) == FromObject(fields, Parse(text))

\* The parameters of a GET, or the fields of a form.
ParamsOf(request, contentType) ==
    IF request.method = Get THEN request.params
    ELSE IF MatchesContentType(contentType, FormType)
    THEN ParseFormUrlEncoded(request.body) ELSE <<>>

\* The text that the message is parsed from.
MessageText(request, contentType) ==
    IF request.method \in WithBody /\ MatchesContentType(contentType, JsonType)
    THEN request.body
    ELSE SerializeObject(QueryParamsToJson(ParamsOf(request, contentType)))

ExtractProtoFromRequest(fields, request) ==
    IF request.method \notin {Get} \union WithBody THEN Fail
    ELSE ParseMessage(fields, MessageText(request,
            IF ContentType \in DOMAIN request.headers
            THEN request.headers[ContentType] ELSE FormType))

\* The body that a message is sent in: of a call, or of the response to one.
MessageBody(message) == SerializeObject(ToObject(message))

-----------------------------------------------------------------------------
(* The clients: RPCClient, and browsers and probes *)

\* Fields of a query or a form; the names need no encoding.
Pairs(message) ==
    LET names == SetToSortSeq(DOMAIN message, LessString)
    IN  FlattenSeq([i \in DOMAIN names |->
            (IF i = 1 THEN <<>> ELSE <<Ampersand>>)
            \o names[i] \o <<Equals>> \o message[names[i]]])

RequestText(method, target, contentType, body) ==
    method \o <<Space>> \o target \o <<Space>> \o HttpTag \o <<Return, LineFeed>>
    \o ContentType \o <<Colon, Space>> \o contentType \o <<Return, LineFeed>>
    \o <<Return, LineFeed>> \o body

\* RPCClient::Call posts the message in JSON.
TextOf(k) ==
    CASE k.kind = "rpc" ->
            RequestText(Post, k.path, JsonType, MessageBody(k.message))
      [] k.kind = "query" ->
            RequestText(Get, k.path \o <<Question>> \o Pairs(k.message), OtherType, <<>>)
      [] k.kind = "page" -> RequestText(Get, k.path, OtherType, <<>>)
      [] k.kind = "form" ->
            RequestText(Post, k.path, FormType, Pairs(k.message))
=============================================================================
