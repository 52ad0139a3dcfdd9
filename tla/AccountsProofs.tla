---------------------------- MODULE AccountsProofs ----------------------------
(***************************************************************************)
(* The properties of the accounts for any number of threads, of workers of *)
(* database-service, of users and of tokens, with crashes allowed.         *)
(*                                                                         *)
(* A user is stored once and never removed.  A token is stored active      *)
(* once, by the handler that made it, which is its only carrier until then *)
(* (OneCarrier); whatever shows it inactive comes from a logout that was   *)
(* asked for; a token that an answer may give out was stored (Born), and   *)
(* one whose logout was answered cannot become active again (Dead).        *)
(***************************************************************************)
EXTENDS Accounts, FiniteSetTheorems, TLAPS

UserUpserts ==
    [stage : {"begun", "removed", "ok", "failed"}, key : UserUuids, payload : User]
UserSearches ==
    [stage : {"list", "read", "answer"}, query : UserQueries,
     todo : SUBSET UserUuids, found : SUBSET (UserUuids \X User)]
TokenUpserts ==
    [stage : {"begun", "removed", "ok", "failed"}, key : TokenUuids, payload : Token]
TokenSearches ==
    [stage : {"list", "read", "answer"}, query : TokenQueries,
     todo : SUBSET TokenUuids, found : SUBSET (TokenUuids \X Token)]

OpInv ==
    /\ userOp \in [UserWorkers -> UserUpserts \union UserSearches \union {Users!NoOp}]
    /\ tokenOp \in [TokenWorkers -> TokenUpserts \union TokenSearches \union {Tokens!NoOp}]

(* What the place of a thread says of its handler and its locals.          *)
PlaceOf(t) ==
    /\ pc[t] \in {"exists", "create", "insert"} => handler[t] = "register"
    /\ pc[t] \in {"login", "token"} => handler[t] = "login"
    /\ pc[t] \in {"check", "whose"} => handler[t] \in {"page", "logout"}
    /\ pc[t] = "logout" => handler[t] = "logout"
    /\ pc[t] = "store" => handler[t] \in {"login", "logout"}
    /\ pc[t] = "save" => handler[t] \in {"register", "login", "logout"}
    /\ pc[t] \in {"exists", "login"} => user[t] \in Form
    /\ pc[t] \in {"create", "insert", "token", "logout", "store", "save", "reply"}
        => user[t] \in User
    /\ pc[t] \in {"whose", "logout", "store", "save", "reply"} => token[t] \in Token
    /\ handler[t] \in {"page", "logout"} => cookie[t] \in TokenUuids

PlaceInv == \A t \in Threads : PlaceOf(t)

(* What a thread waits for, it has asked for, and nobody else waits for it.*)
WaitOf(t) ==
    /\ pc[t] \in UserCalls => call[t] \in UserWorkers
    /\ pc[t] \in TokenCalls => call[t] \in TokenWorkers
    /\ pc[t] \notin UserCalls \union TokenCalls => call[t] = NoCall
    /\ pc[t] \in {"exists", "login", "whose"} => userOp[call[t]] \in UserSearches
    /\ pc[t] \in {"exists", "login"} => userOp[call[t]].query = ByEmail(user[t].email)
    /\ pc[t] = "whose" => userOp[call[t]].query = ByUuid(token[t].user_uuid)
    /\ pc[t] = "insert" => userOp[call[t]] \in UserUpserts
                           /\ userOp[call[t]].payload = user[t]
    /\ pc[t] \in {"token", "check", "logout"} => tokenOp[call[t]] \in TokenSearches
    /\ pc[t] = "token" => tokenOp[call[t]].query = ActiveOf(user[t].uuid)
    /\ pc[t] \in {"check", "logout"} => tokenOp[call[t]].query = ByUuid(cookie[t])
    /\ pc[t] = "save" => tokenOp[call[t]] \in TokenUpserts
                         /\ tokenOp[call[t]].payload = token[t]

WaitInv ==
    /\ \A t \in Threads : WaitOf(t)
    /\ \A s, t \in Threads : call[s] = call[t] /\ call[s] # NoCall => s = t

(* What was known when a handler began is known.                           *)
PastOf(t) ==
    /\ before[t].emails \subseteq known.emails
    /\ before[t].tokens \subseteq known.tokens
    /\ before[t].out \subseteq known.out

PastInv == \A t \in Threads : PastOf(t)

TypeInv == TypeOK /\ OpInv /\ PlaceInv /\ WaitInv /\ PastInv

-----------------------------------------------------------------------------

\* User x is stored.
StoredUser(x) == x \in User /\ users[x.uuid] = x

(* A user is upserted once, under its own uuid, so that it is stored for   *)
(* good when it is.                                                        *)
UserInv ==
    /\ \A u \in UserUuids : users[u] # NoRecord => users[u].uuid = u /\ u \in made
    /\ \A w \in UserWorkers : userOp[w] \in UserUpserts =>
        /\ userOp[w].payload.uuid = userOp[w].key
        /\ userOp[w].key \in made
        /\ userOp[w].stage \in {"begun", "removed"} => users[userOp[w].key] = NoRecord
        /\ userOp[w].stage = "ok" => StoredUser(userOp[w].payload)
        /\ \A x \in UserWorkers : userOp[x] \in UserUpserts /\ userOp[x].key = userOp[w].key
            => x = w
    /\ \A t \in Threads : pc[t] = "create" =>
        /\ user[t].uuid \in made
        /\ users[user[t].uuid] = NoRecord
        /\ \A w \in UserWorkers : userOp[w] \in UserUpserts => userOp[w].key # user[t].uuid
        /\ \A s \in Threads : pc[s] = "create" /\ user[s].uuid = user[t].uuid => s = t

(* Who is answered is stored.                                              *)
FoundUserInv ==
    /\ \A w \in UserWorkers : userOp[w] \in UserSearches =>
        \A r \in userOp[w].found : StoredUser(r[2])
    /\ \A t \in Threads :
        pc[t] \in {"token", "logout", "store", "save", "reply"} => StoredUser(user[t])
    /\ \A e \in known.emails : \E u \in UserUuids : users[u] # NoRecord /\ users[u].email = e

(* A search for an e-mail that was answered before still has to look at    *)
(* the user, or has found one.                                             *)
SearchInv ==
    \A t \in Threads :
        pc[t] \in {"exists", "login"} /\ user[t].email \in before[t].emails =>
            \/ userOp[call[t]].stage = "list"
            \/ userOp[call[t]].found # {}
            \/ /\ userOp[call[t]].stage = "read"
               /\ \E u \in userOp[call[t]].todo :
                    users[u] # NoRecord /\ users[u].email = user[t].email

-----------------------------------------------------------------------------

\* Token k was stored, and is still active unless somebody logs out.
Born(k) == k \in leaving \/ (tokens[k] # NoRecord /\ tokens[k].active)

\* Token k is not active, and no upsert makes it so.
Dead(k) == k \in leaving /\ (tokens[k] = NoRecord \/ ~ tokens[k].active)

\* An upsert that is to make a new token active; a thread that is to call it.
FreshOp(w) ==
    /\ tokenOp[w] \in TokenUpserts
    /\ tokenOp[w].stage \in {"begun", "removed"}
    /\ tokenOp[w].payload.active

FreshThread(t) == pc[t] = "store" /\ token[t].active

\* Token k was never stored, and nobody logs out from it.
Unborn(k) == tokens[k] = NoRecord /\ k \notin leaving

(* Tokens are stored under their uuids, what is inactive was asked to be   *)
(* logged out, and what an answer gave out was stored.                     *)
TokenInv ==
    /\ \A k \in TokenUuids : tokens[k] # NoRecord =>
        tokens[k].uuid = k /\ k \in made /\ (tokens[k].active \/ k \in leaving)
    /\ leaving \subseteq made
    /\ \A k \in known.tokens : Born(k)
    /\ \A k \in known.out : Dead(k)

(* So it is with what calls bring and find.                                *)
TokenCallOf(w) ==
    /\ tokenOp[w] \in TokenUpserts =>
        /\ tokenOp[w].payload.uuid = tokenOp[w].key
        /\ tokenOp[w].key \in made
        /\ tokenOp[w].payload.active \/ tokenOp[w].key \in leaving
        /\ tokenOp[w].stage = "ok" => Born(tokenOp[w].key)
        /\ FreshOp(w) => Unborn(tokenOp[w].key)
    /\ tokenOp[w] \in TokenSearches =>
        \A r \in tokenOp[w].found :
            /\ r[2].uuid = r[1] /\ Born(r[1])
            /\ r[2].active \/ r[1] \in leaving
            /\ tokenOp[w].query = ByUuid(r[1])
               \/ (tokenOp[w].query = ActiveOf(r[2].user_uuid) /\ r[2].active)

(* And with what handlers have: a logout brings the token of its cookie,   *)
(* inactive, and the others bring an active one.                           *)
TokenHeldBy(t) ==
    /\ handler[t] = "logout" => cookie[t] \in leaving
    /\ handler[t] = "logout" /\ pc[t] \in {"store", "save"} =>
        ~ token[t].active /\ token[t].uuid = cookie[t]
    /\ handler[t] # "logout" /\ pc[t] \in {"store", "save"} => token[t].active
    /\ FreshThread(t) => Unborn(token[t].uuid) /\ token[t].uuid \in made
    /\ pc[t] = "whose" \/ (pc[t] = "reply" /\ handler[t] # "logout") => Born(token[t].uuid)

(* A new token has one carrier until it is put.                            *)
OneCarrier ==
    /\ \A w, x \in TokenWorkers :
        FreshOp(w) /\ FreshOp(x) /\ tokenOp[w].key = tokenOp[x].key => w = x
    /\ \A s, t \in Threads :
        FreshThread(s) /\ FreshThread(t) /\ token[s].uuid = token[t].uuid => s = t
    /\ \A w \in TokenWorkers, t \in Threads :
        FreshOp(w) /\ FreshThread(t) => tokenOp[w].key # token[t].uuid

(* A token whose logout is about to be answered is dead.                   *)
LogoutOf(t) ==
    handler[t] = "logout" =>
        /\ pc[t] = "reply" => Dead(cookie[t])
        /\ pc[t] = "save" /\ tokenOp[call[t]].stage = "ok" => Dead(cookie[t])
        /\ /\ pc[t] = "logout"
           /\ \/ tokenOp[call[t]].stage = "answer"
              \/ tokenOp[call[t]].stage = "read" /\ cookie[t] \notin tokenOp[call[t]].todo
           /\ tokenOp[call[t]].found = {}
           => Dead(cookie[t])

(* A handler that began after that does not have it.                       *)
OutOf(t) ==
    /\ pc[t] \in {"token", "check"} =>
        \A r \in tokenOp[call[t]].found : r[2].active => r[1] \notin before[t].out
    /\ pc[t] \in {"whose", "store", "save", "reply"} /\ handler[t] \in {"login", "page"}
        => token[t].uuid \notin before[t].out

(* A search for a session that was answered before still has to look at    *)
(* its token, or has found one.                                            *)
SessionOf(t) ==
    \A k \in before[t].tokens \ leaving :
        \/ pc[t] = "token" /\ tokens[k].user_uuid = user[t].uuid
        \/ pc[t] = "check" /\ cookie[t] = k
        => \/ tokenOp[call[t]].stage = "list"
           \/ tokenOp[call[t]].stage = "read" /\ k \in tokenOp[call[t]].todo
           \/ tokenOp[call[t]].found # {}

ThreadInv == \A t \in Threads : TokenHeldBy(t) /\ LogoutOf(t) /\ OutOf(t) /\ SessionOf(t)

CallInv == \A w \in TokenWorkers : TokenCallOf(w)

TokensInv == TokenInv /\ CallInv /\ OneCarrier /\ ThreadInv

-----------------------------------------------------------------------------
(* What a step does to the two collections *)

USE AccountsAssumption

\* The thread s and what it waits for stay as they are.
Same(s) ==
    /\ pc'[s] = pc[s] /\ handler'[s] = handler[s] /\ call'[s] = call[s]
    /\ user'[s] = user[s] /\ token'[s] = token[s] /\ cookie'[s] = cookie[s]
    /\ before'[s] = before[s]
    /\ call[s] \in UserWorkers => userOp'[call[s]] = userOp[call[s]]
    /\ call[s] \in TokenWorkers => tokenOp'[call[s]] = tokenOp[call[s]]

Others(t) == \A s \in Threads \ {t} : Same(s)

UserOps == UserUpserts \union UserSearches \union {Users!NoOp}
TokenOps == TokenUpserts \union TokenSearches \union {Tokens!NoOp}

\* No record changes, and no call but that of w.
UsersBut(w) ==
    /\ users' = users
    /\ userOp' \in [UserWorkers -> UserOps]
    /\ \A x \in UserWorkers \ {w} : userOp'[x] = userOp[x]
TokensBut(w) ==
    /\ tokens' = tokens
    /\ tokenOp' \in [TokenWorkers -> TokenOps]
    /\ \A x \in TokenWorkers \ {w} : tokenOp'[x] = tokenOp[x]

\* A search that has just begun.
UserSearch(w, q) ==
    /\ UsersBut(w)
    /\ userOp'[w] \in UserSearches
    /\ userOp'[w].stage = "list" /\ userOp'[w].query = q /\ userOp'[w].found = {}
TokenSearch(w, q) ==
    /\ TokensBut(w)
    /\ tokenOp'[w] \in TokenSearches
    /\ tokenOp'[w].stage = "list" /\ tokenOp'[w].query = q /\ tokenOp'[w].found = {}

(* The shapes of a call.                                                   *)
LEMMA UserShape ==
    ASSUME OpInv, NEW w \in UserWorkers
    PROVE  /\ userOp[w] \in UserOps
           /\ userOp[w].stage \in {"begun", "removed", "ok", "failed"} => userOp[w] \in UserUpserts
           /\ userOp[w].stage \in {"list", "read", "answer"} => userOp[w] \in UserSearches
           /\ userOp[w] \in UserUpserts =>
                userOp[w].stage \in {"begun", "removed", "ok", "failed"}
           /\ userOp[w] \in UserSearches => userOp[w].stage \in {"list", "read", "answer"}
BY DEF OpInv, UserOps, UserUpserts, UserSearches, Users!NoOp

LEMMA TokenShape ==
    ASSUME OpInv, NEW w \in TokenWorkers
    PROVE  /\ tokenOp[w] \in TokenOps
           /\ tokenOp[w].stage \in {"begun", "removed", "ok", "failed"} =>
                tokenOp[w] \in TokenUpserts
           /\ tokenOp[w].stage \in {"list", "read", "answer"} => tokenOp[w] \in TokenSearches
           /\ tokenOp[w] \in TokenUpserts =>
                tokenOp[w].stage \in {"begun", "removed", "ok", "failed"}
           /\ tokenOp[w] \in TokenSearches => tokenOp[w].stage \in {"list", "read", "answer"}
BY DEF OpInv, TokenOps, TokenUpserts, TokenSearches, Tokens!NoOp

(* The three kinds of call do not mix.                                     *)
LEMMA KindsDiffer ==
    /\ UserUpserts \intersect UserSearches = {} /\ TokenUpserts \intersect TokenSearches = {}
    /\ Users!NoOp \notin UserUpserts \union UserSearches
    /\ Tokens!NoOp \notin TokenUpserts \union TokenSearches
BY DEF UserUpserts, UserSearches, TokenUpserts, TokenSearches, Users!NoOp, Tokens!NoOp

(* The beginning and the end of a call on "users".                         *)
LEMMA UserCall ==
    ASSUME OpInv, NEW w \in UserWorkers
    PROVE  /\ \A q \in UserQueries : Users!BeginQuery(w, q) => UserSearch(w, q)
           /\ \A x \in User : Users!BeginUpsert(w, x.uuid, x) =>
                /\ UsersBut(w)
                /\ userOp'[w] \in UserUpserts
                /\ userOp'[w].stage = "begun"
                /\ userOp'[w].key = x.uuid /\ userOp'[w].payload = x
           /\ Users!EndQuery(w) => UsersBut(w) /\ userOp'[w] = Users!NoOp
           /\ Users!EndUpsert(w) => UsersBut(w) /\ userOp'[w] = Users!NoOp
<1>0. userOp \in [UserWorkers -> UserOps]
  BY DEF OpInv, UserOps
<1>1. ASSUME NEW q \in UserQueries, Users!BeginQuery(w, q) PROVE UserSearch(w, q)
  <2> DEFINE o == Users!QueryOp("list", q, {}, {})
  <2>1. o \in UserSearches /\ o.stage = "list" /\ o.query = q /\ o.found = {}
    BY DEF Users!QueryOp, UserSearches
  <2>2. userOp' = [userOp EXCEPT ![w] = o] /\ users' = users
    BY <1>1 DEF Users!BeginQuery
  <2> HIDE DEF o
  <2>3. QED BY <1>0, <2>1, <2>2 DEF UserSearch, UsersBut, UserOps
<1>2. ASSUME NEW x \in User, Users!BeginUpsert(w, x.uuid, x)
      PROVE  /\ UsersBut(w)
             /\ userOp'[w] \in UserUpserts
             /\ userOp'[w].stage = "begun"
             /\ userOp'[w].key = x.uuid /\ userOp'[w].payload = x
  <2> DEFINE o == [stage |-> "begun", key |-> x.uuid, payload |-> x]
  <2>1. o \in UserUpserts /\ o.stage = "begun" /\ o.key = x.uuid /\ o.payload = x
    BY DEF UserUpserts, User
  <2>2. userOp' = [userOp EXCEPT ![w] = o] /\ users' = users
    BY <1>2 DEF Users!BeginUpsert
  <2> HIDE DEF o
  <2>3. QED BY <1>0, <2>1, <2>2 DEF UsersBut, UserOps
<1>3. ASSUME Users!EndQuery(w) \/ Users!EndUpsert(w)
      PROVE  UsersBut(w) /\ userOp'[w] = Users!NoOp
  BY <1>0, <1>3 DEF Users!EndQuery, Users!EndUpsert, UsersBut, UserOps
<1>4. QED BY <1>1, <1>2, <1>3

(* The beginning and the end of a call on "tokens".                        *)
LEMMA TokenCall ==
    ASSUME OpInv, NEW w \in TokenWorkers
    PROVE  /\ \A q \in TokenQueries : Tokens!BeginQuery(w, q) => TokenSearch(w, q)
           /\ \A x \in Token : Tokens!BeginUpsert(w, x.uuid, x) =>
                /\ TokensBut(w)
                /\ tokenOp'[w] \in TokenUpserts
                /\ tokenOp'[w].stage = "begun"
                /\ tokenOp'[w].key = x.uuid /\ tokenOp'[w].payload = x
           /\ Tokens!EndQuery(w) => TokensBut(w) /\ tokenOp'[w] = Tokens!NoOp
           /\ Tokens!EndUpsert(w) => TokensBut(w) /\ tokenOp'[w] = Tokens!NoOp
<1>0. tokenOp \in [TokenWorkers -> TokenOps]
  BY DEF OpInv, TokenOps
<1>1. ASSUME NEW q \in TokenQueries, Tokens!BeginQuery(w, q) PROVE TokenSearch(w, q)
  <2> DEFINE o == Tokens!QueryOp("list", q, {}, {})
  <2>1. o \in TokenSearches /\ o.stage = "list" /\ o.query = q /\ o.found = {}
    BY DEF Tokens!QueryOp, TokenSearches
  <2>2. tokenOp' = [tokenOp EXCEPT ![w] = o] /\ tokens' = tokens
    BY <1>1 DEF Tokens!BeginQuery
  <2> HIDE DEF o
  <2>3. QED BY <1>0, <2>1, <2>2 DEF TokenSearch, TokensBut, TokenOps
<1>2. ASSUME NEW x \in Token, Tokens!BeginUpsert(w, x.uuid, x)
      PROVE  /\ TokensBut(w)
             /\ tokenOp'[w] \in TokenUpserts
             /\ tokenOp'[w].stage = "begun"
             /\ tokenOp'[w].key = x.uuid /\ tokenOp'[w].payload = x
  <2> DEFINE o == [stage |-> "begun", key |-> x.uuid, payload |-> x]
  <2>1. o \in TokenUpserts /\ o.stage = "begun" /\ o.key = x.uuid /\ o.payload = x
    BY DEF TokenUpserts, Token
  <2>2. tokenOp' = [tokenOp EXCEPT ![w] = o] /\ tokens' = tokens
    BY <1>2 DEF Tokens!BeginUpsert
  <2> HIDE DEF o
  <2>3. QED BY <1>0, <2>1, <2>2 DEF TokensBut, TokenOps
<1>3. ASSUME Tokens!EndQuery(w) \/ Tokens!EndUpsert(w)
      PROVE  TokensBut(w) /\ tokenOp'[w] = Tokens!NoOp
  BY <1>0, <1>3 DEF Tokens!EndQuery, Tokens!EndUpsert, TokensBut, TokenOps
<1>4. QED BY <1>1, <1>2, <1>3

\* What a step of database-service does to an upsert, and to its record.
UserWrites(w) ==
    /\ userOp[w] \in UserUpserts /\ userOp'[w] \in UserUpserts
    /\ userOp'[w].key = userOp[w].key /\ userOp'[w].payload = userOp[w].payload
    /\ \/ userOp'[w].stage = "failed" /\ users' = users
       \/ /\ userOp[w].stage = "begun" /\ userOp'[w].stage = "removed"
          /\ users' = [users EXCEPT ![userOp[w].key] = NoRecord]
       \/ /\ userOp[w].stage = "removed" /\ userOp'[w].stage = "ok"
          /\ users' = [users EXCEPT ![userOp[w].key] = userOp[w].payload]
TokenWrites(w) ==
    /\ tokenOp[w] \in TokenUpserts /\ tokenOp'[w] \in TokenUpserts
    /\ tokenOp'[w].key = tokenOp[w].key /\ tokenOp'[w].payload = tokenOp[w].payload
    /\ \/ tokenOp'[w].stage = "failed" /\ tokens' = tokens
       \/ /\ tokenOp[w].stage = "begun" /\ tokenOp'[w].stage = "removed"
          /\ tokens' = [tokens EXCEPT ![tokenOp[w].key] = NoRecord]
       \/ /\ tokenOp[w].stage = "removed" /\ tokenOp'[w].stage = "ok"
          /\ tokens' = [tokens EXCEPT ![tokenOp[w].key] = tokenOp[w].payload]

\* What it does to a search: all that is there is in the list, a record that
\* is looked at is found if it is asked for, and the answer is empty only if
\* nothing was found.
UserReads(w) ==
    /\ users' = users
    /\ userOp[w] \in UserSearches /\ userOp'[w] \in UserSearches
    /\ userOp'[w].query = userOp[w].query
    /\ \/ /\ userOp'[w].stage = "read" /\ userOp'[w].found = {}
          /\ \A u \in UserUuids : users[u] # NoRecord => u \in userOp'[w].todo
       \/ \E u \in userOp[w].todo :
            /\ userOp[w].stage = "read" /\ userOp'[w].stage = "read"
            /\ userOp'[w].todo = userOp[w].todo \ {u}
            /\ userOp[w].found \subseteq userOp'[w].found
            /\ \A r \in userOp'[w].found :
                r \in userOp[w].found \/ (r = <<u, users[u]>> /\ users[u] \in User)
            /\ \A e \in Emails :
                users[u] \in User /\ users[u].email = e /\ userOp[w].query = ByEmail(e)
                    => userOp'[w].found # {}
       \/ /\ userOp'[w].stage = "answer" /\ userOp[w].stage = "read" /\ userOp[w].todo = {}
          /\ userOp'[w].found \subseteq userOp[w].found
          /\ userOp'[w].found = {} => userOp[w].found = {}
TokenReads(w) ==
    /\ tokens' = tokens
    /\ tokenOp[w] \in TokenSearches /\ tokenOp'[w] \in TokenSearches
    /\ tokenOp'[w].query = tokenOp[w].query
    /\ \/ /\ tokenOp'[w].stage = "read" /\ tokenOp'[w].found = {}
          /\ \A k \in TokenUuids : tokens[k] # NoRecord => k \in tokenOp'[w].todo
       \/ \E k \in tokenOp[w].todo :
            /\ tokenOp[w].stage = "read" /\ tokenOp'[w].stage = "read"
            /\ tokenOp'[w].todo = tokenOp[w].todo \ {k}
            /\ tokenOp[w].found \subseteq tokenOp'[w].found
            /\ \A r \in tokenOp'[w].found : r \in tokenOp[w].found \/
                /\ r = <<k, tokens[k]>> /\ tokens[k] \in Token
                /\ \/ tokenOp[w].query = ByUuid(tokens[k].uuid)
                   \/ tokenOp[w].query = ActiveOf(tokens[k].user_uuid) /\ tokens[k].active
            /\ /\ tokens[k] \in Token
               /\ \/ tokenOp[w].query = ByUuid(tokens[k].uuid)
                  \/ tokenOp[w].query = ActiveOf(tokens[k].user_uuid) /\ tokens[k].active
               => tokenOp'[w].found # {}
       \/ /\ tokenOp'[w].stage = "answer" /\ tokenOp[w].stage = "read" /\ tokenOp[w].todo = {}
          /\ tokenOp'[w].found \subseteq tokenOp[w].found
          /\ tokenOp'[w].found = {} => tokenOp[w].found = {}

LEMMA CardinalityOfNothing == Users!Cardinality({}) = 0 /\ Tokens!Cardinality({}) = 0
<1>1. Users!Cardinality({}) = Cardinality({}) /\ Tokens!Cardinality({}) = Cardinality({})
  BY DEF Users!Cardinality, Tokens!Cardinality, Cardinality
<1>2. QED BY <1>1, FS_EmptySet

LEMMA UserStepEffect ==
    ASSUME OpInv, users \in [UserUuids -> User \union {NoRecord}],
           NEW w \in UserWorkers, Users!Step(w)
    PROVE  /\ \A x \in UserWorkers \ {w} : userOp'[x] = userOp[x]
           /\ users' \in [UserUuids -> User \union {NoRecord}]
           /\ userOp' \in [UserWorkers -> UserOps]
           /\ UserWrites(w) \/ UserReads(w)
<1>0. userOp \in [UserWorkers -> UserOps]
  BY DEF OpInv, UserOps
<1>1. CASE Users!FailUpsert(w) \/ Users!Remove(w) \/ Users!Put(w)
  <2>1. userOp[w] \in UserUpserts
    BY <1>1, UserShape DEF Users!FailUpsert, Users!Remove, Users!Put
  <2>2. userOp[w].key \in UserUuids /\ userOp[w].payload \in User
    BY <2>1 DEF UserUpserts
  <2>3. \A s \in {"removed", "ok", "failed"} :
          LET o == [userOp[w] EXCEPT !.stage = s]
          IN  o \in UserUpserts /\ o.stage = s /\ o.key = userOp[w].key
              /\ o.payload = userOp[w].payload
    BY <2>1 DEF UserUpserts
  <2>4. \E s \in {"removed", "ok", "failed"} :
          /\ userOp' = [userOp EXCEPT ![w] = [userOp[w] EXCEPT !.stage = s]]
          /\ \/ s = "failed" /\ users' = users
             \/ /\ s = "removed" /\ userOp[w].stage = "begun"
                /\ users' = [users EXCEPT ![userOp[w].key] = NoRecord]
             \/ /\ s = "ok" /\ userOp[w].stage = "removed"
                /\ users' = [users EXCEPT ![userOp[w].key] = userOp[w].payload]
    BY <1>1 DEF Users!FailUpsert, Users!Remove, Users!Put
  <2>5. UserWrites(w)
    BY <1>0, <2>1, <2>3, <2>4 DEF UserWrites
  <2>6. users' \in [UserUuids -> User \union {NoRecord}]
    BY <2>2, <2>4
  <2>7. userOp' \in [UserWorkers -> UserOps] /\ \A x \in UserWorkers \ {w} : userOp'[x] = userOp[x]
    BY <1>0, <2>3, <2>4 DEF UserOps
  <2>8. QED BY <2>5, <2>6, <2>7
<1>2. ASSUME NEW o \in UserSearches, userOp' = [userOp EXCEPT ![w] = o], users' = users
      PROVE  /\ \A x \in UserWorkers \ {w} : userOp'[x] = userOp[x]
             /\ users' \in [UserUuids -> User \union {NoRecord}]
             /\ userOp' \in [UserWorkers -> UserOps]
             /\ userOp'[w] = o
  BY <1>0, <1>2 DEF UserOps
<1>3. CASE Users!List(w)
  <2>1. userOp[w] \in UserSearches
    BY <1>3, UserShape DEF Users!List
  <2>2. PICK T \in SUBSET UserUuids :
          /\ {u \in UserUuids : users[u] # NoRecord} \subseteq T
          /\ userOp' = [userOp EXCEPT ![w] = Users!QueryOp("read", userOp[w].query, T, {})]
          /\ users' = users
    BY <1>3 DEF Users!List
  <2> DEFINE o == Users!QueryOp("read", userOp[w].query, T, {})
  <2>3. o \in UserSearches /\ o.query = userOp[w].query /\ o.stage = "read" /\ o.found = {}
        /\ o.todo = T
    BY <2>1 DEF Users!QueryOp, UserSearches
  <2> HIDE DEF o
  <2>4. userOp' = [userOp EXCEPT ![w] = o]
    BY <2>2 DEF o
  <2>5. userOp'[w] = o
    BY <1>0, <2>4
  <2>6. UserReads(w)
    BY <2>1, <2>2, <2>3, <2>5 DEF UserReads
  <2>7. QED BY <1>2, <2>2, <2>3, <2>4, <2>6
<1>4. ASSUME NEW u \in UserUuids, Users!See(w, u)
      PROVE  /\ \A x \in UserWorkers \ {w} : userOp'[x] = userOp[x]
             /\ users' \in [UserUuids -> User \union {NoRecord}]
             /\ userOp' \in [UserWorkers -> UserOps]
             /\ UserReads(w)
  <2>1. userOp[w] \in UserSearches /\ userOp[w].stage = "read" /\ u \in userOp[w].todo
    BY <1>4, UserShape DEF Users!See
  <2>2. userOp[w].query \in UserQueries
    BY <2>1 DEF UserSearches
  <2> DEFINE matches == users[u] \in User /\ (userOp[w].query = ByEmail(users[u].email)
                                               \/ userOp[w].query = ByUuid(users[u].uuid))
             seen == IF matches THEN {<<u, users[u]>>} ELSE {}
             o == Users!QueryOp("read", userOp[w].query, userOp[w].todo \ {u},
                                userOp[w].found \union seen)
  <2>3. userOp' = [userOp EXCEPT ![w] = o] /\ users' = users
    BY <1>4, <2>2 DEF Users!See
  <2>4. o \in UserSearches
    BY <2>1 DEF Users!QueryOp, UserSearches
  <2>5. /\ o.query = userOp[w].query /\ o.stage = "read" /\ o.todo = userOp[w].todo \ {u}
        /\ o.found = userOp[w].found \union seen
    BY DEF Users!QueryOp
  <2> HIDE DEF o
  <2>6. userOp'[w] = o
    BY <1>0, <2>3
  <2>7. UserReads(w)
    BY <2>1, <2>3, <2>4, <2>5, <2>6 DEF UserReads
  <2>8. QED BY <1>2, <2>3, <2>4, <2>7
<1>5. CASE Users!AnswerQuery(w)
  <2>1. userOp[w] \in UserSearches /\ userOp[w].stage = "read" /\ userOp[w].todo = {}
    BY <1>5, UserShape DEF Users!AnswerQuery
  <2>2. userOp[w].query \in UserQueries
    BY <2>1 DEF UserSearches
  <2>3. PICK R \in SUBSET userOp[w].found :
          /\ userOp' = [userOp EXCEPT ![w] = Users!QueryOp("answer", userOp[w].query, {}, R)]
          /\ R = userOp[w].found \/ Users!Cardinality(R) = 1
          /\ users' = users
    BY <1>5, <2>2 DEF Users!AnswerQuery, Users!Answers
  <2> DEFINE o == Users!QueryOp("answer", userOp[w].query, {}, R)
  <2>4. o \in UserSearches /\ o.query = userOp[w].query /\ o.stage = "answer" /\ o.found = R
    BY <2>1 DEF Users!QueryOp, UserSearches
  <2> HIDE DEF o
  <2>5. userOp' = [userOp EXCEPT ![w] = o]
    BY <2>3 DEF o
  <2>6. userOp'[w] = o
    BY <1>0, <2>5
  <2>7. R = {} => userOp[w].found = {}
    BY <2>3, CardinalityOfNothing
  <2>8. UserReads(w)
    BY <2>1, <2>3, <2>4, <2>6, <2>7 DEF UserReads
  <2>9. QED BY <1>2, <2>3, <2>4, <2>5, <2>8
<1>6. QED BY <1>1, <1>3, <1>4, <1>5 DEF Users!Step

LEMMA TokenStepEffect ==
    ASSUME OpInv, tokens \in [TokenUuids -> Token \union {NoRecord}],
           NEW w \in TokenWorkers, Tokens!Step(w)
    PROVE  /\ \A x \in TokenWorkers \ {w} : tokenOp'[x] = tokenOp[x]
           /\ tokens' \in [TokenUuids -> Token \union {NoRecord}]
           /\ tokenOp' \in [TokenWorkers -> TokenOps]
           /\ TokenWrites(w) \/ TokenReads(w)
<1>0. tokenOp \in [TokenWorkers -> TokenOps]
  BY DEF OpInv, TokenOps
<1>1. CASE Tokens!FailUpsert(w) \/ Tokens!Remove(w) \/ Tokens!Put(w)
  <2>1. tokenOp[w] \in TokenUpserts
    BY <1>1, TokenShape DEF Tokens!FailUpsert, Tokens!Remove, Tokens!Put
  <2>2. tokenOp[w].key \in TokenUuids /\ tokenOp[w].payload \in Token
    BY <2>1 DEF TokenUpserts
  <2>3. \A s \in {"removed", "ok", "failed"} :
          LET o == [tokenOp[w] EXCEPT !.stage = s]
          IN  o \in TokenUpserts /\ o.stage = s /\ o.key = tokenOp[w].key
              /\ o.payload = tokenOp[w].payload
    BY <2>1 DEF TokenUpserts
  <2>4. \E s \in {"removed", "ok", "failed"} :
          /\ tokenOp' = [tokenOp EXCEPT ![w] = [tokenOp[w] EXCEPT !.stage = s]]
          /\ \/ s = "failed" /\ tokens' = tokens
             \/ /\ s = "removed" /\ tokenOp[w].stage = "begun"
                /\ tokens' = [tokens EXCEPT ![tokenOp[w].key] = NoRecord]
             \/ /\ s = "ok" /\ tokenOp[w].stage = "removed"
                /\ tokens' = [tokens EXCEPT ![tokenOp[w].key] = tokenOp[w].payload]
    BY <1>1 DEF Tokens!FailUpsert, Tokens!Remove, Tokens!Put
  <2>5. TokenWrites(w)
    BY <1>0, <2>1, <2>3, <2>4 DEF TokenWrites
  <2>6. tokens' \in [TokenUuids -> Token \union {NoRecord}]
    BY <2>2, <2>4
  <2>7. tokenOp' \in [TokenWorkers -> TokenOps] /\ \A x \in TokenWorkers \ {w} : tokenOp'[x] = tokenOp[x]
    BY <1>0, <2>3, <2>4 DEF TokenOps
  <2>8. QED BY <2>5, <2>6, <2>7
<1>2. ASSUME NEW o \in TokenSearches, tokenOp' = [tokenOp EXCEPT ![w] = o], tokens' = tokens
      PROVE  /\ \A x \in TokenWorkers \ {w} : tokenOp'[x] = tokenOp[x]
             /\ tokens' \in [TokenUuids -> Token \union {NoRecord}]
             /\ tokenOp' \in [TokenWorkers -> TokenOps]
             /\ tokenOp'[w] = o
  BY <1>0, <1>2 DEF TokenOps
<1>3. CASE Tokens!List(w)
  <2>1. tokenOp[w] \in TokenSearches
    BY <1>3, TokenShape DEF Tokens!List
  <2>2. PICK T \in SUBSET TokenUuids :
          /\ {k \in TokenUuids : tokens[k] # NoRecord} \subseteq T
          /\ tokenOp' = [tokenOp EXCEPT ![w] = Tokens!QueryOp("read", tokenOp[w].query, T, {})]
          /\ tokens' = tokens
    BY <1>3 DEF Tokens!List
  <2> DEFINE o == Tokens!QueryOp("read", tokenOp[w].query, T, {})
  <2>3. o \in TokenSearches /\ o.query = tokenOp[w].query /\ o.stage = "read" /\ o.found = {}
        /\ o.todo = T
    BY <2>1 DEF Tokens!QueryOp, TokenSearches
  <2> HIDE DEF o
  <2>4. tokenOp' = [tokenOp EXCEPT ![w] = o]
    BY <2>2 DEF o
  <2>5. tokenOp'[w] = o
    BY <1>0, <2>4
  <2>6. TokenReads(w)
    BY <2>1, <2>2, <2>3, <2>5 DEF TokenReads
  <2>7. QED BY <1>2, <2>2, <2>3, <2>4, <2>6
<1>4. ASSUME NEW k \in TokenUuids, Tokens!See(w, k)
      PROVE  /\ \A x \in TokenWorkers \ {w} : tokenOp'[x] = tokenOp[x]
             /\ tokens' \in [TokenUuids -> Token \union {NoRecord}]
             /\ tokenOp' \in [TokenWorkers -> TokenOps]
             /\ TokenReads(w)
  <2>1. tokenOp[w] \in TokenSearches /\ tokenOp[w].stage = "read" /\ k \in tokenOp[w].todo
    BY <1>4, TokenShape DEF Tokens!See
  <2>2. tokenOp[w].query \in TokenQueries
    BY <2>1 DEF TokenSearches
  <2> DEFINE matches == tokens[k] \in Token /\ (tokenOp[w].query = ByUuid(tokens[k].uuid)
                \/ (tokenOp[w].query = ActiveOf(tokens[k].user_uuid) /\ tokens[k].active))
             seen == IF matches THEN {<<k, tokens[k]>>} ELSE {}
             o == Tokens!QueryOp("read", tokenOp[w].query, tokenOp[w].todo \ {k},
                                tokenOp[w].found \union seen)
  <2>3. tokenOp' = [tokenOp EXCEPT ![w] = o] /\ tokens' = tokens
    BY <1>4, <2>2 DEF Tokens!See
  <2>4. o \in TokenSearches
    BY <2>1 DEF Tokens!QueryOp, TokenSearches
  <2>5. /\ o.query = tokenOp[w].query /\ o.stage = "read" /\ o.todo = tokenOp[w].todo \ {k}
        /\ o.found = tokenOp[w].found \union seen
    BY DEF Tokens!QueryOp
  <2> HIDE DEF o
  <2>6. tokenOp'[w] = o
    BY <1>0, <2>3
  <2>7. TokenReads(w)
    BY <2>1, <2>3, <2>4, <2>5, <2>6 DEF TokenReads
  <2>8. QED BY <1>2, <2>3, <2>4, <2>7
<1>5. CASE Tokens!AnswerQuery(w)
  <2>1. tokenOp[w] \in TokenSearches /\ tokenOp[w].stage = "read" /\ tokenOp[w].todo = {}
    BY <1>5, TokenShape DEF Tokens!AnswerQuery
  <2>2. tokenOp[w].query \in TokenQueries
    BY <2>1 DEF TokenSearches
  <2>3. PICK R \in SUBSET tokenOp[w].found :
          /\ tokenOp' = [tokenOp EXCEPT ![w] = Tokens!QueryOp("answer", tokenOp[w].query, {}, R)]
          /\ R = tokenOp[w].found \/ Tokens!Cardinality(R) = 1
          /\ tokens' = tokens
    BY <1>5, <2>2 DEF Tokens!AnswerQuery, Tokens!Answers
  <2> DEFINE o == Tokens!QueryOp("answer", tokenOp[w].query, {}, R)
  <2>4. o \in TokenSearches /\ o.query = tokenOp[w].query /\ o.stage = "answer" /\ o.found = R
    BY <2>1 DEF Tokens!QueryOp, TokenSearches
  <2> HIDE DEF o
  <2>5. tokenOp' = [tokenOp EXCEPT ![w] = o]
    BY <2>3 DEF o
  <2>6. tokenOp'[w] = o
    BY <1>0, <2>5
  <2>7. R = {} => tokenOp[w].found = {}
    BY <2>3, CardinalityOfNothing
  <2>8. TokenReads(w)
    BY <2>1, <2>3, <2>4, <2>6, <2>7 DEF TokenReads
  <2>9. QED BY <1>2, <2>3, <2>4, <2>5, <2>8
<1>6. QED BY <1>1, <1>3, <1>4, <1>5 DEF Tokens!Step


-----------------------------------------------------------------------------
(* What a step does to the threads *)

\* The calls and the records of a collection stay as they are.
UsersStay == users' = users /\ userOp' = userOp
TokensStay == tokens' = tokens /\ tokenOp' = tokenOp

(* Who waits, waits for a call under way, and for the right collection.    *)
LEMMA WaitShape ==
    ASSUME TypeInv, NEW t \in Threads
    PROVE  /\ call[t] \in UserWorkers <=> pc[t] \in UserCalls
           /\ call[t] \in TokenWorkers <=> pc[t] \in TokenCalls
           /\ call[t] \in UserWorkers => userOp[call[t]] \in UserUpserts \union UserSearches
           /\ call[t] \in TokenWorkers => tokenOp[call[t]] \in TokenUpserts \union TokenSearches
BY DEF TypeInv, WaitInv, WaitOf, UserCalls, TokenCalls

\* Steps after which everything is as before, except that some calls and some
\* handlers have ended.
Ends ==
    /\ UNCHANGED <<users, tokens, made, known, leaving>>
    /\ TypeOK' /\ OpInv'
    /\ \A w \in UserWorkers : userOp'[w] \in {userOp[w], Users!NoOp}
    /\ \A w \in TokenWorkers : tokenOp'[w] \in {tokenOp[w], Tokens!NoOp}
    /\ \A t \in Threads :
        \/ Same(t)
        \/ pc'[t] = "idle" /\ handler'[t] = "none" /\ call'[t] = NoCall /\ before'[t] = Nobody

(* The end of a handler keeps the types.                                   *)
LEMMA FinishEffect ==
    ASSUME TypeInv, NEW t \in Threads, Finish(t)
    PROVE  /\ handler' \in [Threads -> Handlers] /\ pc' \in [Threads -> Places]
           /\ call' \in [Threads -> UserWorkers \union TokenWorkers \union {NoCall}]
           /\ user' \in [Threads -> User \union Form \union {NoRecord}]
           /\ token' \in [Threads -> Token \union {NoRecord}]
           /\ cookie' \in [Threads -> TokenUuids \union {NoRecord}]
           /\ before' \in [Threads -> Past]
           /\ pc'[t] = "idle" /\ handler'[t] = "none" /\ call'[t] = NoCall /\ before'[t] = Nobody
           /\ \A s \in Threads \ {t} :
                /\ pc'[s] = pc[s] /\ handler'[s] = handler[s] /\ call'[s] = call[s]
                /\ user'[s] = user[s] /\ token'[s] = token[s] /\ cookie'[s] = cookie[s]
                /\ before'[s] = before[s]
<1>1. Nobody \in Past
  BY DEF Nobody, Past
<1>2. QED BY <1>1 DEF TypeInv, TypeOK, Finish, Handlers, Places

(* A handler that ends with an error, with or without an answer of         *)
(* database-service.                                                       *)
LEMMA ErrorEffect ==
    ASSUME TypeInv, NEW t \in Threads,
           \/ UserExists(t) \/ UserNotInserted(t) \/ LoginRefused(t) \/ NotLoggedIn(t)
           \/ TokenNotStored(t) \/ Abort(t) \/ (PageUser(t) /\ UsersFound(t) = {})
    PROVE  Ends
<1>1. Finish(t) /\ UNCHANGED <<made, known, leaving>>
  BY DEF UserExists, UserNotInserted, LoginRefused, NotLoggedIn, TokenNotStored, Abort, PageUser
<1>2. OpInv /\ TypeOK /\ WaitInv
  BY DEF TypeInv
<1>3. \/ /\ call[t] \in UserWorkers
         /\ UsersBut(call[t]) /\ userOp'[call[t]] = Users!NoOp /\ TokensStay
      \/ /\ call[t] \in TokenWorkers
         /\ TokensBut(call[t]) /\ tokenOp'[call[t]] = Tokens!NoOp /\ UsersStay
      \/ TokensStay /\ UsersStay
  <2>1. CASE UserExists(t) \/ UserNotInserted(t) \/ LoginRefused(t) \/ PageUser(t)
    <3>1. call[t] \in UserWorkers
      BY <2>1, <1>2 DEF WaitInv, WaitOf, UserExists, UserNotInserted, LoginRefused, PageUser, UserCalls
    <3>2. (Users!EndQuery(call[t]) \/ Users!EndUpsert(call[t])) /\ TokensStay
      BY <2>1 DEF UserExists, UserNotInserted, LoginRefused, PageUser, TokensStay, tokensVars
    <3>3. QED BY <1>2, <3>1, <3>2, UserCall
  <2>2. CASE NotLoggedIn(t) \/ TokenNotStored(t)
    <3>1. call[t] \in TokenWorkers
      BY <2>2, <1>2 DEF WaitInv, WaitOf, NotLoggedIn, TokenNotStored, TokenCalls
    <3>2. (Tokens!EndQuery(call[t]) \/ Tokens!EndUpsert(call[t])) /\ UsersStay
      BY <2>2 DEF NotLoggedIn, TokenNotStored, UsersStay, usersVars
    <3>3. QED BY <1>2, <3>1, <3>2, TokenCall
  <2>3. CASE Abort(t)
    BY <2>3 DEF Abort, usersVars, tokensVars, UsersStay, TokensStay
  <2>4. QED BY <2>1, <2>2, <2>3
<1>4. TypeOK'
  BY <1>1, <1>2, <1>3, FinishEffect DEF TypeOK, UsersBut, TokensBut, UsersStay, TokensStay
<1>5. OpInv'
  BY <1>2, <1>3 DEF OpInv, UsersBut, TokensBut, UsersStay, TokensStay, UserOps, TokenOps
<1>6. /\ \A w \in UserWorkers : userOp'[w] \in {userOp[w], Users!NoOp}
      /\ \A w \in TokenWorkers : tokenOp'[w] \in {tokenOp[w], Tokens!NoOp}
      /\ UNCHANGED <<users, tokens>>
  BY <1>3 DEF UsersBut, TokensBut, UsersStay, TokensStay
<1>7. \A s \in Threads \ {t} : Same(s)
  <2> SUFFICES ASSUME NEW s \in Threads \ {t} PROVE Same(s)
    OBVIOUS
  <2>1. call[s] = call[t] => call[s] = NoCall
    BY <1>2 DEF WaitInv
  <2>2. call[s] # NoCall => call[s] # call[t]
    BY <2>1
  <2>3. QED
    BY <1>1, <1>3, <2>2, FinishEffect DEF Same, UsersBut, TokensBut, UsersStay, TokensStay
<1>8. QED BY <1>1, <1>4, <1>5, <1>6, <1>7, FinishEffect DEF Ends

(* An answer that nobody waits for.                                        *)
LEMMA UnheardEffect ==
    ASSUME TypeInv,
           (\E w \in UserWorkers : UserUnheard(w)) \/ (\E w \in TokenWorkers : TokenUnheard(w))
    PROVE  Ends
<1>1. UNCHANGED <<threadVars, history>>
  BY DEF UserUnheard, TokenUnheard
<1>2. OpInv /\ TypeOK
  BY DEF TypeInv
<1>3. ASSUME NEW w \in UserWorkers, UserUnheard(w) PROVE Ends
  <2>1. UsersBut(w) /\ userOp'[w] = Users!NoOp /\ TokensStay /\ \A t \in Threads : call[t] # w
    BY <1>2, <1>3, UserCall DEF UserUnheard, tokensVars, TokensStay
  <2>2. OpInv'
    BY <1>2, <2>1 DEF OpInv, UsersBut, TokensStay, UserOps
  <2>3. TypeOK'
    BY <1>1, <1>2, <2>1 DEF TypeOK, UsersBut, TokensStay, threadVars, history
  <2>4. \A t \in Threads : Same(t)
    BY <1>1, <2>1 DEF Same, UsersBut, TokensStay, threadVars, history
  <2>5. QED BY <1>1, <2>1, <2>2, <2>3, <2>4 DEF Ends, UsersBut, TokensStay, history
<1>4. ASSUME NEW w \in TokenWorkers, TokenUnheard(w) PROVE Ends
  <2>1. TokensBut(w) /\ tokenOp'[w] = Tokens!NoOp /\ UsersStay /\ \A t \in Threads : call[t] # w
    BY <1>2, <1>4, TokenCall DEF TokenUnheard, usersVars, UsersStay
  <2>2. OpInv'
    BY <1>2, <2>1 DEF OpInv, TokensBut, UsersStay, TokenOps
  <2>3. TypeOK'
    BY <1>1, <1>2, <2>1 DEF TypeOK, TokensBut, UsersStay, threadVars, history
  <2>4. \A t \in Threads : Same(t)
    BY <1>1, <2>1 DEF Same, TokensBut, UsersStay, threadVars, history
  <2>5. QED BY <1>1, <2>1, <2>2, <2>3, <2>4 DEF Ends, TokensBut, UsersStay, history
<1>5. QED BY <1>3, <1>4

(* A crash ends the calls, and the handlers that wait for them.            *)
LEMMA CrashEffect ==
    ASSUME TypeInv, DatabaseCrash
    PROVE  Ends
<1>1. /\ UNCHANGED <<users, tokens, made, known, leaving>>
      /\ userOp' = [w \in UserWorkers |-> Users!NoOp]
      /\ tokenOp' = [w \in TokenWorkers |-> Tokens!NoOp]
  BY DEF DatabaseCrash, Users!Crash, Tokens!Crash
<1>2. OpInv'
  BY <1>1 DEF OpInv
<1>3. TypeOK'
  <2>1. Nobody \in Past
    BY DEF Nobody, Past
  <2>2. QED BY <1>1, <2>1 DEF TypeInv, TypeOK, DatabaseCrash, Handlers, Places
<1>4. \A t \in Threads :
        \/ Same(t)
        \/ pc'[t] = "idle" /\ handler'[t] = "none" /\ call'[t] = NoCall /\ before'[t] = Nobody
  <2> SUFFICES ASSUME NEW t \in Threads
               PROVE  \/ Same(t)
                      \/ /\ pc'[t] = "idle" /\ handler'[t] = "none" /\ call'[t] = NoCall
                         /\ before'[t] = Nobody
    OBVIOUS
  <2>1. CASE call[t] = NoCall
    BY <2>1 DEF DatabaseCrash, Same
  <2>2. CASE call[t] # NoCall
    BY <2>2 DEF DatabaseCrash
  <2>3. QED BY <2>1, <2>2
<1>5. QED BY <1>1, <1>2, <1>3, <1>4 DEF Ends

(* A call that somebody else waits for is neither that of t nor a new one. *)
LEMMA OthersWait ==
    ASSUME TypeInv, NEW s \in Threads, NEW t \in Threads, s # t
    PROVE  /\ call[s] \in UserWorkers => call[s] # call[t] /\ userOp[call[s]] # Users!NoOp
           /\ call[s] \in TokenWorkers => call[s] # call[t] /\ tokenOp[call[s]] # Tokens!NoOp
<1>1. call[s] # NoCall => call[s] # call[t]
  BY DEF TypeInv, WaitInv
<1>2. QED BY <1>1, WaitShape, KindsDiffer

(* A step of one thread keeps the types, if what it does to that thread    *)
(* does.                                                                   *)
LEMMA StepType ==
    ASSUME TypeInv, NEW t \in Threads, Others(t), TypeOK', OpInv',
           PlaceOf(t)', WaitOf(t)', PastOf(t)',
           known.emails \subseteq known'.emails, known.tokens \subseteq known'.tokens,
           known.out \subseteq known'.out,
           call'[t] \in UserWorkers =>
                userOp[call'[t]] \notin UserUpserts \union UserSearches,
           call'[t] \in TokenWorkers =>
                tokenOp[call'[t]] \notin TokenUpserts \union TokenSearches
    PROVE  TypeInv'
<1>0. \A s \in Threads : PlaceOf(s) /\ WaitOf(s) /\ PastOf(s)
  BY DEF TypeInv, PlaceInv, WaitInv, PastInv
<1>1. ASSUME NEW s \in Threads \ {t} PROVE PlaceOf(s)' /\ PastOf(s)' /\ WaitOf(s)'
  <2>1. Same(s)
    BY DEF Others
  <2>2. PlaceOf(s)' /\ PastOf(s)'
    BY <1>0, <2>1 DEF Same, PlaceOf, PastOf
  <2>3. WaitOf(s)'
    BY <1>0, <2>1 DEF Same, WaitOf, UserCalls, TokenCalls
  <2>4. QED BY <2>2, <2>3
<1>2. ASSUME NEW s \in Threads \ {t}, call'[t] # NoCall PROVE call'[s] # call'[t]
  <2>1. call'[s] = call[s]
    BY DEF Others, Same
  <2>2. call'[t] \in UserWorkers \union TokenWorkers
    BY <1>2 DEF TypeOK
  <2>3. QED BY <2>1, <2>2, WaitShape
<1>3. \A s, r \in Threads : call'[s] = call'[r] /\ call'[s] # NoCall => s = r
  <2>1. \A s, r \in Threads \ {t} : call'[s] = call'[r] /\ call'[s] # NoCall => s = r
    BY DEF TypeInv, WaitInv, Others, Same
  <2>2. QED BY <1>2, <2>1
<1>4. QED BY <1>1, <1>3 DEF TypeInv, PlaceInv, WaitInv, PastInv

\* The call that t waited for is over.
UserAnswered(t) ==
    call[t] \in UserWorkers /\ UsersBut(call[t]) /\ userOp'[call[t]] = Users!NoOp
TokenAnswered(t) ==
    call[t] \in TokenWorkers /\ TokensBut(call[t]) /\ tokenOp'[call[t]] = Tokens!NoOp

\* An upsert that has just begun.
UserUpsert(w, x) ==
    /\ UsersBut(w) /\ userOp[w] = Users!NoOp
    /\ userOp'[w] \in UserUpserts /\ userOp'[w].stage = "begun"
    /\ userOp'[w].key = x.uuid /\ userOp'[w].payload = x
TokenUpsert(w, x) ==
    /\ TokensBut(w) /\ tokenOp[w] = Tokens!NoOp
    /\ tokenOp'[w] \in TokenUpserts /\ tokenOp'[w].stage = "begun"
    /\ tokenOp'[w].key = x.uuid /\ tokenOp'[w].payload = x

(* What t does to the collections leaves the calls of the others alone.    *)
LEMMA OthersStay ==
    ASSUME TypeInv, NEW t \in Threads,
           \A s \in Threads \ {t} :
                /\ pc'[s] = pc[s] /\ handler'[s] = handler[s] /\ call'[s] = call[s]
                /\ user'[s] = user[s] /\ token'[s] = token[s] /\ cookie'[s] = cookie[s]
                /\ before'[s] = before[s],
           \/ UsersStay
           \/ UserAnswered(t)
           \/ \E w \in UserWorkers : userOp[w] = Users!NoOp /\ UsersBut(w),
           \/ TokensStay
           \/ TokenAnswered(t)
           \/ \E w \in TokenWorkers : tokenOp[w] = Tokens!NoOp /\ TokensBut(w)
    PROVE  Others(t) /\ OpInv' /\ users' = users /\ tokens' = tokens
<1>1. ASSUME NEW s \in Threads \ {t}
      PROVE  /\ call[s] \in UserWorkers => userOp'[call[s]] = userOp[call[s]]
             /\ call[s] \in TokenWorkers => tokenOp'[call[s]] = tokenOp[call[s]]
  BY OthersWait DEF UsersStay, TokensStay, UserAnswered, TokenAnswered, UsersBut, TokensBut
<1>2. OpInv
  BY DEF TypeInv
<1>3. OpInv'
  BY <1>2 DEF OpInv, UsersStay, TokensStay, UserAnswered, TokenAnswered, UsersBut, TokensBut,
     UserOps, TokenOps
<1>4. QED
  BY <1>1, <1>3 DEF Others, Same, UsersStay, TokensStay, UserAnswered, TokenAnswered, UsersBut,
     TokensBut

-----------------------------------------------------------------------------
(* What each step of a handler does *)

(* A register or a login begins with a search for the e-mail.              *)
LEMMA FormEffect ==
    ASSUME TypeInv, NEW t \in Threads, NEW w \in UserWorkers, NEW f \in Form, NEW h, NEW place,
           (h = "register" /\ place = "exists") \/ (h = "login" /\ place = "login"),
           FormCall(t, w, f, h, place)
    PROVE  /\ TypeInv' /\ Others(t) /\ users' = users /\ tokens' = tokens
           /\ pc[t] = "idle" /\ pc'[t] = place /\ handler'[t] = h /\ call'[t] = w
           /\ user'[t] = f /\ before'[t] = known
           /\ UserSearch(w, ByEmail(f.email)) /\ TokensStay
           /\ UNCHANGED <<made, known, leaving>>
<1>0. TypeOK /\ OpInv
  BY DEF TypeInv
<1>1. /\ pc[t] = "idle" /\ pc'[t] = place /\ handler'[t] = h /\ call'[t] = w
      /\ user'[t] = f /\ before'[t] = known
      /\ UNCHANGED <<made, known, leaving>>
      /\ \A s \in Threads \ {t} :
            /\ pc'[s] = pc[s] /\ handler'[s] = handler[s] /\ call'[s] = call[s]
            /\ user'[s] = user[s] /\ token'[s] = token[s] /\ cookie'[s] = cookie[s]
            /\ before'[s] = before[s]
  BY <1>0 DEF TypeOK, FormCall, Begin, Wait
<1>2. ByEmail(f.email) \in UserQueries
  BY DEF Form, UserQueries
<1>3. UserSearch(w, ByEmail(f.email)) /\ userOp[w] = Users!NoOp /\ TokensStay
  BY <1>0, <1>2, UserCall DEF FormCall, Users!BeginQuery, tokensVars, TokensStay
<1>4. Others(t) /\ OpInv' /\ users' = users /\ tokens' = tokens
  BY <1>1, <1>3, OthersStay DEF UserSearch
<1>5. TypeOK'
  BY <1>0, <1>4 DEF TypeOK, FormCall, Begin, Wait, Handlers, Places, UserCalls
<1>6. PlaceOf(t)' /\ WaitOf(t)' /\ PastOf(t)'
  BY <1>1, <1>3 DEF PlaceOf, WaitOf, PastOf, UserSearch, UserCalls, TokenCalls
<1>7. TypeInv'
  BY <1>1, <1>3, <1>4, <1>5, <1>6, StepType, KindsDiffer
<1>8. QED BY <1>1, <1>3, <1>4, <1>7

(* The e-mail is free: the handler makes a user.                           *)
LEMMA FreeEffect ==
    ASSUME TypeInv, NEW t \in Threads, EmailIsFree(t)
    PROVE  /\ TypeInv' /\ Others(t) /\ users' = users /\ tokens' = tokens
           /\ pc[t] = "exists" /\ pc'[t] = "create"
           /\ handler'[t] = handler[t] /\ before'[t] = before[t]
           /\ user'[t] \in User /\ user'[t].email = user[t].email
           /\ user'[t].uuid \notin made /\ made' = made \union {user'[t].uuid}
           /\ UserAnswered(t) /\ TokensStay
           /\ UNCHANGED <<known, leaving>>
<1>0. TypeOK /\ OpInv /\ PlaceOf(t) /\ WaitOf(t) /\ PastOf(t)
  BY DEF TypeInv, PlaceInv, WaitInv, PastInv
<1>1. /\ pc[t] = "exists" /\ pc'[t] = "create" /\ call'[t] = NoCall
      /\ handler'[t] = handler[t] /\ before'[t] = before[t] /\ cookie'[t] = cookie[t]
      /\ UNCHANGED <<known, leaving>>
      /\ \A s \in Threads \ {t} :
            /\ pc'[s] = pc[s] /\ handler'[s] = handler[s] /\ call'[s] = call[s]
            /\ user'[s] = user[s] /\ token'[s] = token[s] /\ cookie'[s] = cookie[s]
            /\ before'[s] = before[s]
  BY <1>0 DEF TypeOK, EmailIsFree, GoTo
<1>2. PICK u \in UserUuids \ made :
        /\ user' = [user EXCEPT ![t] = UserOf(u, user[t])]
        /\ made' = made \union {u}
  BY DEF EmailIsFree
<1>3. UserOf(u, user[t]) \in User /\ UserOf(u, user[t]).email = user[t].email
      /\ UserOf(u, user[t]).uuid = u
  BY <1>0, <1>1 DEF PlaceOf, UserOf, User, Form
<1>4. user'[t] = UserOf(u, user[t])
  BY <1>0, <1>2 DEF TypeOK
<1>5. UserAnswered(t) /\ TokensStay
  BY <1>0, <1>1, UserCall DEF EmailIsFree, WaitOf, UserCalls, UserAnswered, tokensVars, TokensStay
<1>6. Others(t) /\ OpInv' /\ users' = users /\ tokens' = tokens
  BY <1>1, <1>5, OthersStay
<1>7. TypeOK'
  BY <1>0, <1>2, <1>3, <1>6 DEF TypeOK, EmailIsFree, GoTo, Places
<1>8. PlaceOf(t)' /\ WaitOf(t)' /\ PastOf(t)'
  BY <1>0, <1>1, <1>3, <1>4 DEF PlaceOf, WaitOf, PastOf, UserCalls, TokenCalls
<1>9. TypeInv'
  BY <1>1, <1>6, <1>7, <1>8, StepType
<1>10. QED BY <1>1, <1>2, <1>3, <1>4, <1>5, <1>6, <1>9

(* The user that was made is upserted.                                     *)
LEMMA InsertEffect ==
    ASSUME TypeInv, NEW t \in Threads, NEW w \in UserWorkers, InsertUser(t, w)
    PROVE  /\ TypeInv' /\ Others(t) /\ users' = users /\ tokens' = tokens
           /\ pc[t] = "create" /\ pc'[t] = "insert" /\ call'[t] = w
           /\ handler'[t] = handler[t] /\ before'[t] = before[t] /\ user' = user
           /\ user[t] \in User
           /\ UserUpsert(w, user[t]) /\ TokensStay
           /\ UNCHANGED <<made, known, leaving>>
<1>0. TypeOK /\ OpInv /\ PlaceOf(t) /\ WaitOf(t) /\ PastOf(t)
  BY DEF TypeInv, PlaceInv, WaitInv, PastInv
<1>1. /\ pc[t] = "create" /\ pc'[t] = "insert" /\ call'[t] = w /\ user' = user
      /\ handler'[t] = handler[t] /\ before'[t] = before[t] /\ cookie'[t] = cookie[t]
      /\ UNCHANGED <<made, known, leaving>>
      /\ \A s \in Threads \ {t} :
            /\ pc'[s] = pc[s] /\ handler'[s] = handler[s] /\ call'[s] = call[s]
            /\ user'[s] = user[s] /\ token'[s] = token[s] /\ cookie'[s] = cookie[s]
            /\ before'[s] = before[s]
  BY <1>0 DEF TypeOK, InsertUser, WaitNext, Wait
<1>2. user[t] \in User
  BY <1>0, <1>1 DEF PlaceOf
<1>3. UserUpsert(w, user[t]) /\ TokensStay
  BY <1>0, <1>2, UserCall DEF InsertUser, Users!BeginUpsert, UserUpsert, tokensVars, TokensStay
<1>4. Others(t) /\ OpInv' /\ users' = users /\ tokens' = tokens
  BY <1>1, <1>3, OthersStay DEF UserUpsert
<1>5. TypeOK'
  BY <1>0, <1>4 DEF TypeOK, InsertUser, WaitNext, Wait, Places, UserCalls
<1>6. PlaceOf(t)' /\ WaitOf(t)' /\ PastOf(t)'
  BY <1>0, <1>1, <1>2, <1>3 DEF PlaceOf, WaitOf, PastOf, UserUpsert, UserCalls, TokenCalls
<1>7. TypeInv'
  BY <1>1, <1>3, <1>4, <1>5, <1>6, StepType, KindsDiffer DEF UserUpsert
<1>8. QED BY <1>1, <1>2, <1>3, <1>4, <1>7

\* A token that no other thread has.
MakesToken(t) ==
    /\ token'[t] \in Token /\ token'[t].active
    /\ token'[t].uuid \notin made /\ made' = made \union {token'[t].uuid}

LEMMA NewTokenEffect ==
    ASSUME TypeOK, NEW t \in Threads, NEW u \in UserUuids, NewToken(t, u)
    PROVE  /\ MakesToken(t)
           /\ token' \in [Threads -> Token \union {NoRecord}]
           /\ made' \in SUBSET (UserUuids \union TokenUuids)
           /\ \A s \in Threads \ {t} : token'[s] = token[s]
<1>1. PICK k \in TokenUuids \ made :
        /\ token' = [token EXCEPT ![t] = [uuid |-> k, user_uuid |-> u, active |-> TRUE]]
        /\ made' = made \union {k}
  BY DEF NewToken
<1>2. [uuid |-> k, user_uuid |-> u, active |-> TRUE] \in Token
  BY DEF Token
<1>3. QED BY <1>1, <1>2 DEF TypeOK, MakesToken

(* The user is stored: the handler makes a token and upserts it.           *)
LEMMA InsertedEffect ==
    ASSUME TypeInv, NEW t \in Threads, NEW w \in TokenWorkers, UserInserted(t, w)
    PROVE  /\ TypeInv' /\ Others(t) /\ users' = users /\ tokens' = tokens
           /\ pc[t] = "insert" /\ pc'[t] = "save" /\ call'[t] = w
           /\ handler'[t] = handler[t] /\ before'[t] = before[t] /\ user' = user
           /\ userOp[call[t]].stage = "ok" /\ UserAnswered(t)
           /\ MakesToken(t) /\ TokenUpsert(w, token'[t])
           /\ UNCHANGED <<known, leaving>>
<1>0. TypeOK /\ OpInv /\ PlaceOf(t) /\ WaitOf(t) /\ PastOf(t)
  BY DEF TypeInv, PlaceInv, WaitInv, PastInv
<1>1. /\ pc[t] = "insert" /\ pc'[t] = "save" /\ call'[t] = w /\ user' = user
      /\ handler'[t] = handler[t] /\ before'[t] = before[t] /\ cookie'[t] = cookie[t]
      /\ userOp[call[t]].stage = "ok"
      /\ UNCHANGED <<known, leaving>>
      /\ \A s \in Threads \ {t} :
            /\ pc'[s] = pc[s] /\ handler'[s] = handler[s] /\ call'[s] = call[s]
            /\ user'[s] = user[s] /\ cookie'[s] = cookie[s] /\ before'[s] = before[s]
  BY <1>0 DEF TypeOK, UserInserted, WaitNext, Wait
<1>2. user[t].uuid \in UserUuids
  BY <1>0, <1>1 DEF PlaceOf, User
<1>3. /\ MakesToken(t)
      /\ token' \in [Threads -> Token \union {NoRecord}]
      /\ made' \in SUBSET (UserUuids \union TokenUuids)
      /\ \A s \in Threads \ {t} : token'[s] = token[s]
  BY <1>0, <1>2, NewTokenEffect DEF UserInserted
<1>4. UserAnswered(t)
  BY <1>0, <1>1, UserCall DEF UserInserted, WaitOf, UserCalls, UserAnswered
<1>5. TokenUpsert(w, token'[t])
  <2>1. PICK x \in Token : x = token'[t]
    BY <1>3 DEF MakesToken
  <2>2. Tokens!BeginUpsert(w, x.uuid, x)
    BY <2>1 DEF UserInserted
  <2>3. tokenOp[w] = Tokens!NoOp
    BY <2>2 DEF Tokens!BeginUpsert
  <2>4. TokenUpsert(w, x)
    BY <1>0, <2>2, <2>3, TokenCall DEF TokenUpsert
  <2>5. QED BY <2>1, <2>4 DEF TokenUpsert
<1>6. Others(t) /\ OpInv' /\ users' = users /\ tokens' = tokens
  BY <1>1, <1>3, <1>4, <1>5, OthersStay DEF TokenUpsert
<1>7. TypeOK'
  BY <1>0, <1>3, <1>6 DEF TypeOK, UserInserted, WaitNext, Wait, Places, TokenCalls
<1>8. PlaceOf(t)' /\ WaitOf(t)' /\ PastOf(t)'
  BY <1>0, <1>1, <1>3, <1>5 DEF PlaceOf, WaitOf, PastOf, MakesToken, TokenUpsert, UserCalls,
     TokenCalls
<1>9. TypeInv'
  BY <1>1, <1>5, <1>6, <1>7, <1>8, StepType, KindsDiffer DEF TokenUpsert
<1>10. QED BY <1>1, <1>3, <1>4, <1>5, <1>6, <1>9

(* The password is right: the handler searches for a token of the user.    *)
LEMMA LoginEffect ==
    ASSUME TypeInv, NEW t \in Threads, NEW w \in TokenWorkers, UserFound(t, w)
    PROVE  /\ TypeInv' /\ Others(t) /\ users' = users /\ tokens' = tokens
           /\ pc[t] = "login" /\ pc'[t] = "token" /\ call'[t] = w
           /\ handler'[t] = handler[t] /\ before'[t] = before[t]
           /\ userOp[call[t]] \in UserSearches
           /\ \E r \in userOp[call[t]].found : user'[t] = r[2]
           /\ UserAnswered(t) /\ TokenSearch(w, ActiveOf(user'[t].uuid))
           /\ UNCHANGED <<made, known, leaving>>
<1>0. TypeOK /\ OpInv /\ PlaceOf(t) /\ WaitOf(t) /\ PastOf(t)
  BY DEF TypeInv, PlaceInv, WaitInv, PastInv
<1>1. /\ pc[t] = "login" /\ pc'[t] = "token" /\ call'[t] = w
      /\ handler'[t] = handler[t] /\ before'[t] = before[t] /\ cookie'[t] = cookie[t]
      /\ UNCHANGED <<made, known, leaving>>
      /\ \A s \in Threads \ {t} :
            /\ pc'[s] = pc[s] /\ handler'[s] = handler[s] /\ call'[s] = call[s]
            /\ user'[s] = user[s] /\ token'[s] = token[s] /\ cookie'[s] = cookie[s]
            /\ before'[s] = before[s]
  BY <1>0 DEF TypeOK, UserFound, WaitNext, Wait
<1>2. call[t] \in UserWorkers /\ userOp[call[t]] \in UserSearches
  BY <1>0, <1>1 DEF WaitOf, UserCalls
<1>3. PICK r \in userOp[call[t]].found :
        /\ user' = [user EXCEPT ![t] = r[2]]
        /\ Tokens!BeginQuery(w, ActiveOf(r[2].uuid))
  BY DEF UserFound, UsersFound
<1>4. r[2] \in User /\ user'[t] = r[2]
  BY <1>0, <1>2, <1>3 DEF TypeOK, UserSearches
<1>5. ActiveOf(r[2].uuid) \in TokenQueries
  BY <1>4 DEF User, TokenQueries
<1>6. UserAnswered(t)
  BY <1>0, <1>2, UserCall DEF UserFound, UserAnswered
<1>7. TokenSearch(w, ActiveOf(user'[t].uuid)) /\ tokenOp[w] = Tokens!NoOp
  BY <1>0, <1>3, <1>4, <1>5, TokenCall DEF Tokens!BeginQuery
<1>8. Others(t) /\ OpInv' /\ users' = users /\ tokens' = tokens
  BY <1>1, <1>6, <1>7, OthersStay DEF TokenSearch
<1>9. TypeOK'
  BY <1>0, <1>3, <1>4, <1>8 DEF TypeOK, UserFound, WaitNext, Wait, Places, TokenCalls
<1>10. PlaceOf(t)' /\ WaitOf(t)' /\ PastOf(t)'
  BY <1>0, <1>1, <1>4, <1>7 DEF PlaceOf, WaitOf, PastOf, TokenSearch, UserCalls, TokenCalls
<1>11. TypeInv'
  BY <1>1, <1>7, <1>8, <1>9, <1>10, StepType, KindsDiffer
<1>12. QED BY <1>1, <1>2, <1>3, <1>4, <1>6, <1>7, <1>8, <1>11

(* The answer to the search for a token of the user: one, or a new one.    *)
LEMMA SessionEffect ==
    ASSUME TypeInv, NEW t \in Threads, ExistingToken(t) \/ NoExistingToken(t)
    PROVE  /\ TypeInv' /\ Others(t) /\ users' = users /\ tokens' = tokens
           /\ pc[t] = "token"
           /\ handler'[t] = handler[t] /\ before'[t] = before[t] /\ user' = user
           /\ tokenOp[call[t]] \in TokenSearches
           /\ \/ /\ pc'[t] = "reply" /\ made' = made
                 /\ \E r \in tokenOp[call[t]].found : token'[t] = r[2]
              \/ pc'[t] = "store" /\ MakesToken(t)
           /\ TokenAnswered(t) /\ UsersStay
           /\ UNCHANGED <<known, leaving>>
<1>0. TypeOK /\ OpInv /\ PlaceOf(t) /\ WaitOf(t) /\ PastOf(t)
  BY DEF TypeInv, PlaceInv, WaitInv, PastInv
<1>1. /\ pc[t] = "token" /\ pc'[t] \in {"reply", "store"} /\ call'[t] = NoCall /\ user' = user
      /\ handler'[t] = handler[t] /\ before'[t] = before[t] /\ cookie'[t] = cookie[t]
      /\ UNCHANGED <<known, leaving>>
      /\ \A s \in Threads \ {t} :
            /\ pc'[s] = pc[s] /\ handler'[s] = handler[s] /\ call'[s] = call[s]
            /\ user'[s] = user[s] /\ cookie'[s] = cookie[s] /\ before'[s] = before[s]
  BY <1>0 DEF TypeOK, ExistingToken, NoExistingToken, GoTo
<1>2. call[t] \in TokenWorkers /\ tokenOp[call[t]] \in TokenSearches /\ user[t].uuid \in UserUuids
      /\ user[t] \in User /\ handler[t] = "login"
  BY <1>0, <1>1 DEF WaitOf, PlaceOf, TokenCalls, User
<1>3. /\ \/ /\ pc'[t] = "reply" /\ made' = made
            /\ \E r \in tokenOp[call[t]].found : token'[t] = r[2]
         \/ pc'[t] = "store" /\ MakesToken(t)
      /\ token'[t] \in Token
      /\ token' \in [Threads -> Token \union {NoRecord}]
      /\ made' \in SUBSET (UserUuids \union TokenUuids)
      /\ \A s \in Threads \ {t} : token'[s] = token[s]
  <2>1. CASE ExistingToken(t)
    <3>1. \A r \in tokenOp[call[t]].found : r[2] \in Token
      BY <1>2 DEF TokenSearches
    <3>2. QED BY <1>0, <2>1, <3>1 DEF TypeOK, ExistingToken, TokensFound, GoTo
  <2>2. CASE NoExistingToken(t)
    <3>1. NewToken(t, user[t].uuid) /\ pc'[t] = "store"
      BY <1>0, <2>2 DEF TypeOK, NoExistingToken, GoTo
    <3>2. QED BY <1>0, <1>2, <3>1, NewTokenEffect DEF MakesToken
  <2>3. QED BY <2>1, <2>2
<1>4. TokenAnswered(t) /\ UsersStay
  BY <1>0, <1>2, TokenCall DEF ExistingToken, NoExistingToken, TokenAnswered, usersVars, UsersStay
<1>5. Others(t) /\ OpInv' /\ users' = users /\ tokens' = tokens
  BY <1>1, <1>3, <1>4, OthersStay
<1>6. TypeOK'
  BY <1>0, <1>3, <1>5 DEF TypeOK, ExistingToken, NoExistingToken, GoTo, Places
<1>7. PlaceOf(t)' /\ WaitOf(t)' /\ PastOf(t)'
  BY <1>0, <1>1, <1>2, <1>3 DEF PlaceOf, WaitOf, PastOf, UserCalls, TokenCalls
<1>8. TypeInv'
  BY <1>1, <1>5, <1>6, <1>7, StepType
<1>9. QED BY <1>1, <1>2, <1>3, <1>4, <1>5, <1>8


(* A page or a logout begins with a search for the token of the cookie.    *)
LEMMA PageEffect ==
    ASSUME TypeInv, NEW t \in Threads, NEW w \in TokenWorkers, NEW h \in {"logout", "page"},
           NEW k \in TokenUuids, PageCall(t, w, h, k)
    PROVE  /\ TypeInv' /\ Others(t) /\ users' = users /\ tokens' = tokens
           /\ pc[t] = "idle" /\ pc'[t] = "check" /\ handler'[t] = h /\ call'[t] = w
           /\ before'[t] = known /\ cookie'[t] = k /\ k \in known.tokens
           /\ leaving' = IF h = "logout" THEN leaving \union {k} ELSE leaving
           /\ TokenSearch(w, ByUuid(k)) /\ UsersStay
           /\ UNCHANGED <<made, known>>
<1>0. TypeOK /\ OpInv
  BY DEF TypeInv
<1>1. /\ pc[t] = "idle" /\ pc'[t] = "check" /\ handler'[t] = h /\ call'[t] = w
      /\ before'[t] = known /\ cookie'[t] = k /\ k \in known.tokens
      /\ leaving' = IF h = "logout" THEN leaving \union {k} ELSE leaving
      /\ UNCHANGED <<made, known>>
      /\ \A s \in Threads \ {t} :
            /\ pc'[s] = pc[s] /\ handler'[s] = handler[s] /\ call'[s] = call[s]
            /\ user'[s] = user[s] /\ token'[s] = token[s] /\ cookie'[s] = cookie[s]
            /\ before'[s] = before[s]
  BY <1>0 DEF TypeOK, PageCall, Begin, Wait
<1>2. ByUuid(k) \in TokenQueries
  BY DEF TokenQueries
<1>3. TokenSearch(w, ByUuid(k)) /\ tokenOp[w] = Tokens!NoOp /\ UsersStay
  BY <1>0, <1>2, TokenCall DEF PageCall, Tokens!BeginQuery, usersVars, UsersStay
<1>4. Others(t) /\ OpInv' /\ users' = users /\ tokens' = tokens
  BY <1>1, <1>3, OthersStay DEF TokenSearch
<1>5. leaving' \in SUBSET TokenUuids
  BY <1>0, <1>1 DEF TypeOK
<1>6. TypeOK'
  BY <1>0, <1>4, <1>5 DEF TypeOK, PageCall, Begin, Wait, Handlers, Places, TokenCalls
<1>7. PlaceOf(t)' /\ WaitOf(t)' /\ PastOf(t)'
  BY <1>1, <1>3 DEF PlaceOf, WaitOf, PastOf, TokenSearch, UserCalls, TokenCalls
<1>8. TypeInv'
  BY <1>1, <1>3, <1>4, <1>6, <1>7, StepType, KindsDiffer
<1>9. QED BY <1>1, <1>3, <1>4, <1>8

(* The token of the cookie is active: the handler searches for its user.   *)
LEMMA CheckedEffect ==
    ASSUME TypeInv, NEW t \in Threads, NEW w \in UserWorkers, TokenIsActive(t, w)
    PROVE  /\ TypeInv' /\ Others(t) /\ users' = users /\ tokens' = tokens
           /\ pc[t] = "check" /\ pc'[t] = "whose" /\ call'[t] = w
           /\ handler'[t] = handler[t] /\ before'[t] = before[t] /\ cookie' = cookie
           /\ tokenOp[call[t]] \in TokenSearches
           /\ \E r \in tokenOp[call[t]].found : token'[t] = r[2] /\ r[2].active
           /\ TokenAnswered(t) /\ UserSearch(w, ByUuid(token'[t].user_uuid))
           /\ UNCHANGED <<made, known, leaving>>
<1>0. TypeOK /\ OpInv /\ PlaceOf(t) /\ WaitOf(t) /\ PastOf(t)
  BY DEF TypeInv, PlaceInv, WaitInv, PastInv
<1>1. /\ pc[t] = "check" /\ pc'[t] = "whose" /\ call'[t] = w /\ cookie' = cookie
      /\ handler'[t] = handler[t] /\ before'[t] = before[t] /\ user'[t] = user[t]
      /\ UNCHANGED <<made, known, leaving>>
      /\ \A s \in Threads \ {t} :
            /\ pc'[s] = pc[s] /\ handler'[s] = handler[s] /\ call'[s] = call[s]
            /\ user'[s] = user[s] /\ token'[s] = token[s] /\ cookie'[s] = cookie[s]
            /\ before'[s] = before[s]
  BY <1>0 DEF TypeOK, TokenIsActive, WaitNext, Wait
<1>2. call[t] \in TokenWorkers /\ tokenOp[call[t]] \in TokenSearches
  BY <1>0, <1>1 DEF WaitOf, TokenCalls
<1>3. PICK r \in tokenOp[call[t]].found :
        /\ token' = [token EXCEPT ![t] = r[2]] /\ r[2].active
        /\ Users!BeginQuery(w, ByUuid(r[2].user_uuid))
  BY DEF TokenIsActive, TokensFound
<1>4. r[2] \in Token /\ token'[t] = r[2]
  BY <1>0, <1>2, <1>3 DEF TypeOK, TokenSearches
<1>5. ByUuid(r[2].user_uuid) \in UserQueries
  BY <1>4 DEF Token, UserQueries
<1>6. TokenAnswered(t)
  BY <1>0, <1>2, TokenCall DEF TokenIsActive, TokenAnswered
<1>7. UserSearch(w, ByUuid(token'[t].user_uuid)) /\ userOp[w] = Users!NoOp
  BY <1>0, <1>3, <1>4, <1>5, UserCall DEF Users!BeginQuery
<1>8. Others(t) /\ OpInv' /\ users' = users /\ tokens' = tokens
  BY <1>1, <1>6, <1>7, OthersStay DEF UserSearch
<1>9. TypeOK'
  BY <1>0, <1>3, <1>4, <1>8 DEF TypeOK, TokenIsActive, WaitNext, Wait, Places, UserCalls
<1>10. PlaceOf(t)' /\ WaitOf(t)' /\ PastOf(t)'
  BY <1>0, <1>1, <1>4, <1>7 DEF PlaceOf, WaitOf, PastOf, UserSearch, UserCalls, TokenCalls
<1>11. TypeInv'
  BY <1>1, <1>7, <1>8, <1>9, <1>10, StepType, KindsDiffer
<1>12. QED BY <1>1, <1>2, <1>3, <1>4, <1>6, <1>7, <1>8, <1>11

(* The user of the token is found: the page is shown, or the logout        *)
(* searches for the token again.                                           *)
LEMMA WhoseEffect ==
    ASSUME TypeInv, NEW t \in Threads,
           \/ PageUser(t) /\ UsersFound(t) # {}
           \/ \E w \in TokenWorkers : LogoutUser(t, w)
    PROVE  /\ TypeInv' /\ Others(t) /\ users' = users /\ tokens' = tokens
           /\ pc[t] = "whose"
           /\ handler'[t] = handler[t] /\ before'[t] = before[t]
           /\ token' = token /\ cookie' = cookie
           /\ userOp[call[t]] \in UserSearches
           /\ \E r \in userOp[call[t]].found : user'[t] = r[2]
           /\ UserAnswered(t)
           /\ \/ pc'[t] = "reply" /\ handler[t] = "page" /\ TokensStay
              \/ /\ pc'[t] = "logout" /\ handler[t] = "logout" /\ call'[t] \in TokenWorkers
                 /\ TokenSearch(call'[t], ByUuid(cookie[t]))
                 /\ tokenOp[call'[t]] = Tokens!NoOp
           /\ UNCHANGED <<made, known, leaving>>
<1>0. TypeOK /\ OpInv /\ PlaceOf(t) /\ WaitOf(t) /\ PastOf(t)
  BY DEF TypeInv, PlaceInv, WaitInv, PastInv
<1>1. /\ pc[t] = "whose" /\ token' = token /\ cookie' = cookie
      /\ handler'[t] = handler[t] /\ before'[t] = before[t]
      /\ UNCHANGED <<made, known, leaving>>
      /\ \A s \in Threads \ {t} :
            /\ pc'[s] = pc[s] /\ handler'[s] = handler[s] /\ call'[s] = call[s]
            /\ user'[s] = user[s] /\ token'[s] = token[s] /\ cookie'[s] = cookie[s]
            /\ before'[s] = before[s]
  BY <1>0 DEF TypeOK, PageUser, LogoutUser, WaitNext, Wait, GoTo
<1>2. call[t] \in UserWorkers /\ userOp[call[t]] \in UserSearches
      /\ token[t] \in Token /\ cookie[t] \in TokenUuids
  BY <1>0, <1>1 DEF WaitOf, PlaceOf, UserCalls
<1>3. PICK r \in userOp[call[t]].found : user' = [user EXCEPT ![t] = r[2]]
  BY DEF PageUser, LogoutUser, UsersFound
<1>4. r[2] \in User /\ user'[t] = r[2]
  BY <1>0, <1>2, <1>3 DEF TypeOK, UserSearches
<1>5. UserAnswered(t)
  BY <1>0, <1>2, UserCall DEF PageUser, LogoutUser, UserAnswered
<1>6. \/ pc'[t] = "reply" /\ call'[t] = NoCall /\ handler[t] = "page" /\ TokensStay
      \/ /\ pc'[t] = "logout" /\ handler[t] = "logout" /\ call'[t] \in TokenWorkers
         /\ TokenSearch(call'[t], ByUuid(cookie[t]))
         /\ tokenOp[call'[t]] = Tokens!NoOp
  <2>1. CASE PageUser(t) /\ UsersFound(t) # {}
    BY <1>0, <2>1 DEF TypeOK, PageUser, GoTo, TokensStay, tokensVars
  <2>2. ASSUME NEW w \in TokenWorkers, LogoutUser(t, w)
        PROVE  /\ pc'[t] = "logout" /\ handler[t] = "logout" /\ call'[t] = w
               /\ TokenSearch(w, ByUuid(cookie[t]))
               /\ tokenOp[w] = Tokens!NoOp
    <3>1. ByUuid(cookie[t]) \in TokenQueries
      BY <1>2 DEF TokenQueries
    <3>2. QED
      BY <1>0, <2>2, <3>1, TokenCall DEF TypeOK, LogoutUser, WaitNext, Wait, Tokens!BeginQuery
  <2>3. QED BY <2>1, <2>2
<1>7. Others(t) /\ OpInv' /\ users' = users /\ tokens' = tokens
  BY <1>1, <1>5, <1>6, OthersStay DEF TokenSearch
<1>8. TypeOK'
  BY <1>0, <1>3, <1>4, <1>7
  DEF TypeOK, PageUser, LogoutUser, WaitNext, Wait, GoTo, Places, TokenCalls
<1>9. PlaceOf(t)' /\ WaitOf(t)' /\ PastOf(t)'
  BY <1>0, <1>1, <1>2, <1>4, <1>6 DEF PlaceOf, WaitOf, PastOf, TokenSearch, UserCalls, TokenCalls
<1>10. TypeInv'
  BY <1>1, <1>6, <1>7, <1>8, <1>9, StepType, KindsDiffer
<1>11. QED BY <1>1, <1>2, <1>3, <1>4, <1>5, <1>6, <1>7, <1>10

(* The answer to the search of a logout: nothing, or a token to deactivate.*)
LEMMA LogoutEffect ==
    ASSUME TypeInv, NEW t \in Threads, TokenGone(t) \/ Deactivate(t)
    PROVE  /\ TypeInv' /\ Others(t) /\ users' = users /\ tokens' = tokens
           /\ pc[t] = "logout" /\ handler[t] = "logout"
           /\ handler'[t] = handler[t] /\ before'[t] = before[t]
           /\ user' = user /\ cookie' = cookie
           /\ tokenOp[call[t]] \in TokenSearches
           /\ \/ /\ pc'[t] = "reply" /\ tokenOp[call[t]].found = {}
                 /\ tokenOp[call[t]].stage = "answer"
              \/ /\ pc'[t] = "store" /\ token'[t] \in Token /\ ~ token'[t].active
                 /\ \E r \in tokenOp[call[t]].found : token'[t].uuid = r[2].uuid
           /\ TokenAnswered(t) /\ UsersStay
           /\ UNCHANGED <<made, known, leaving>>
<1>0. TypeOK /\ OpInv /\ PlaceOf(t) /\ WaitOf(t) /\ PastOf(t)
  BY DEF TypeInv, PlaceInv, WaitInv, PastInv
<1>1. /\ pc[t] = "logout" /\ pc'[t] \in {"reply", "store"} /\ call'[t] = NoCall
      /\ user' = user /\ cookie' = cookie
      /\ handler'[t] = handler[t] /\ before'[t] = before[t]
      /\ tokenOp[call[t]].stage = "answer"
      /\ UNCHANGED <<made, known, leaving>>
      /\ \A s \in Threads \ {t} :
            /\ pc'[s] = pc[s] /\ handler'[s] = handler[s] /\ call'[s] = call[s]
            /\ user'[s] = user[s] /\ cookie'[s] = cookie[s] /\ before'[s] = before[s]
  BY <1>0 DEF TypeOK, TokenGone, Deactivate, GoTo, Tokens!EndQuery
<1>2. call[t] \in TokenWorkers /\ tokenOp[call[t]] \in TokenSearches
      /\ user[t] \in User /\ handler[t] = "logout" /\ token[t] \in Token
      /\ cookie[t] \in TokenUuids
  BY <1>0, <1>1 DEF WaitOf, PlaceOf, TokenCalls
<1>3. /\ \/ pc'[t] = "reply" /\ tokenOp[call[t]].found = {}
         \/ /\ pc'[t] = "store" /\ ~ token'[t].active
            /\ \E r \in tokenOp[call[t]].found : token'[t].uuid = r[2].uuid
      /\ token'[t] \in Token
      /\ token' \in [Threads -> Token \union {NoRecord}]
      /\ \A s \in Threads \ {t} : token'[s] = token[s]
  <2>1. CASE TokenGone(t)
    <3>1. tokenOp[call[t]].found = {}
      BY <2>1 DEF TokenGone, TokensFound
    <3>2. token' = token /\ pc'[t] = "reply"
      BY <1>0, <2>1 DEF TypeOK, TokenGone, GoTo
    <3>3. QED BY <1>0, <1>2, <3>1, <3>2 DEF TypeOK
  <2>2. CASE Deactivate(t)
    <3>1. PICK r \in tokenOp[call[t]].found :
            token' = [token EXCEPT ![t] = [r[2] EXCEPT !.active = FALSE]]
      BY <2>2 DEF Deactivate, TokensFound
    <3>2. r[2] \in Token
      BY <1>2 DEF TokenSearches
    <3> DEFINE x == [r[2] EXCEPT !.active = FALSE]
    <3>3. x \in Token /\ ~ x.active /\ x.uuid = r[2].uuid
      BY <3>2 DEF Token
    <3> HIDE DEF x
    <3>4. token' = [token EXCEPT ![t] = x]
      BY <3>1 DEF x
    <3>5. pc'[t] = "store"
      BY <1>0, <2>2 DEF TypeOK, Deactivate, GoTo
    <3>6. QED BY <1>0, <3>3, <3>4, <3>5 DEF TypeOK
  <2>3. QED BY <2>1, <2>2
<1>4. TokenAnswered(t) /\ UsersStay
  BY <1>0, <1>2, TokenCall DEF TokenGone, Deactivate, TokenAnswered, usersVars, UsersStay
<1>5. Others(t) /\ OpInv' /\ users' = users /\ tokens' = tokens
  BY <1>1, <1>3, <1>4, OthersStay
<1>6. TypeOK'
  BY <1>0, <1>3, <1>5 DEF TypeOK, TokenGone, Deactivate, GoTo, Places
<1>7. PlaceOf(t)' /\ WaitOf(t)' /\ PastOf(t)'
  BY <1>0, <1>1, <1>2, <1>3 DEF PlaceOf, WaitOf, PastOf, UserCalls, TokenCalls
<1>8. TypeInv'
  BY <1>1, <1>5, <1>6, <1>7, StepType
<1>9. QED BY <1>1, <1>2, <1>3, <1>4, <1>5, <1>8

(* The token of a login or of a logout is upserted.                        *)
LEMMA StoreEffect ==
    ASSUME TypeInv, NEW t \in Threads, NEW w \in TokenWorkers, StoreToken(t, w)
    PROVE  /\ TypeInv' /\ Others(t) /\ users' = users /\ tokens' = tokens
           /\ pc[t] = "store" /\ pc'[t] = "save" /\ call'[t] = w
           /\ handler'[t] = handler[t] /\ before'[t] = before[t]
           /\ user' = user /\ token' = token /\ cookie' = cookie
           /\ token[t] \in Token
           /\ TokenUpsert(w, token[t]) /\ UsersStay
           /\ UNCHANGED <<made, known, leaving>>
<1>0. TypeOK /\ OpInv /\ PlaceOf(t) /\ WaitOf(t) /\ PastOf(t)
  BY DEF TypeInv, PlaceInv, WaitInv, PastInv
<1>1. /\ pc[t] = "store" /\ pc'[t] = "save" /\ call'[t] = w
      /\ user' = user /\ token' = token /\ cookie' = cookie
      /\ handler'[t] = handler[t] /\ before'[t] = before[t]
      /\ UNCHANGED <<made, known, leaving>>
      /\ \A s \in Threads \ {t} :
            /\ pc'[s] = pc[s] /\ handler'[s] = handler[s] /\ call'[s] = call[s]
            /\ user'[s] = user[s] /\ token'[s] = token[s] /\ cookie'[s] = cookie[s]
            /\ before'[s] = before[s]
  BY <1>0 DEF TypeOK, StoreToken, WaitNext, Wait
<1>2. token[t] \in Token
  BY <1>0, <1>1 DEF PlaceOf
<1>3. TokenUpsert(w, token[t]) /\ UsersStay
  BY <1>0, <1>2, TokenCall DEF StoreToken, Tokens!BeginUpsert, TokenUpsert, usersVars, UsersStay
<1>4. Others(t) /\ OpInv' /\ users' = users /\ tokens' = tokens
  BY <1>1, <1>3, OthersStay DEF TokenUpsert
<1>5. TypeOK'
  BY <1>0, <1>4 DEF TypeOK, StoreToken, WaitNext, Wait, Places, TokenCalls
<1>6. PlaceOf(t)' /\ WaitOf(t)' /\ PastOf(t)'
  BY <1>0, <1>1, <1>2, <1>3 DEF PlaceOf, WaitOf, PastOf, TokenUpsert, UserCalls, TokenCalls
<1>7. TypeInv'
  BY <1>1, <1>3, <1>4, <1>5, <1>6, StepType, KindsDiffer DEF TokenUpsert
<1>8. QED BY <1>1, <1>2, <1>3, <1>4, <1>7

(* The token is stored.                                                    *)
LEMMA SavedEffect ==
    ASSUME TypeInv, NEW t \in Threads, TokenStored(t)
    PROVE  /\ TypeInv' /\ Others(t) /\ users' = users /\ tokens' = tokens
           /\ pc[t] = "save" /\ pc'[t] = "reply"
           /\ handler'[t] = handler[t] /\ before'[t] = before[t]
           /\ user' = user /\ token' = token /\ cookie' = cookie
           /\ tokenOp[call[t]] \in TokenUpserts /\ tokenOp[call[t]].stage = "ok"
           /\ tokenOp[call[t]].payload = token[t]
           /\ TokenAnswered(t) /\ UsersStay
           /\ UNCHANGED <<made, known, leaving>>
<1>0. TypeOK /\ OpInv /\ PlaceOf(t) /\ WaitOf(t) /\ PastOf(t)
  BY DEF TypeInv, PlaceInv, WaitInv, PastInv
<1>1. /\ pc[t] = "save" /\ pc'[t] = "reply" /\ call'[t] = NoCall
      /\ user' = user /\ token' = token /\ cookie' = cookie
      /\ handler'[t] = handler[t] /\ before'[t] = before[t]
      /\ tokenOp[call[t]].stage = "ok"
      /\ UNCHANGED <<made, known, leaving>>
      /\ \A s \in Threads \ {t} :
            /\ pc'[s] = pc[s] /\ handler'[s] = handler[s] /\ call'[s] = call[s]
            /\ user'[s] = user[s] /\ token'[s] = token[s] /\ cookie'[s] = cookie[s]
            /\ before'[s] = before[s]
  BY <1>0 DEF TypeOK, TokenStored, GoTo
<1>2. call[t] \in TokenWorkers /\ tokenOp[call[t]] \in TokenUpserts
      /\ tokenOp[call[t]].payload = token[t]
  BY <1>0, <1>1 DEF WaitOf, TokenCalls
<1>3. TokenAnswered(t) /\ UsersStay
  BY <1>0, <1>2, TokenCall DEF TokenStored, TokenAnswered, usersVars, UsersStay
<1>4. Others(t) /\ OpInv' /\ users' = users /\ tokens' = tokens
  BY <1>1, <1>3, OthersStay
<1>5. TypeOK'
  BY <1>0, <1>4 DEF TypeOK, TokenStored, GoTo, Places
<1>6. PlaceOf(t)' /\ WaitOf(t)' /\ PastOf(t)'
  BY <1>0, <1>1 DEF PlaceOf, WaitOf, PastOf, UserCalls, TokenCalls
<1>7. TypeInv'
  BY <1>1, <1>4, <1>5, <1>6, StepType
<1>8. QED BY <1>1, <1>2, <1>3, <1>4, <1>7

(* The answer is given, and everybody may know it.                         *)
LEMMA ReplyEffect ==
    ASSUME TypeInv, NEW t \in Threads, Reply(t)
    PROVE  /\ TypeInv' /\ Others(t) /\ UsersStay /\ TokensStay
           /\ pc[t] = "reply" /\ pc'[t] = "idle" /\ handler'[t] = "none"
           /\ before'[t] = Nobody
           /\ \/ /\ handler[t] = "logout"
                 /\ known'.out = known.out \union {cookie[t]}
                 /\ known'.emails = known.emails /\ known'.tokens = known.tokens
              \/ /\ handler[t] # "logout"
                 /\ user[t] \in User /\ token[t] \in Token
                 /\ known'.out = known.out
                 /\ known'.emails = known.emails \union {user[t].email}
                 /\ known'.tokens = known.tokens \union {token[t].uuid}
           /\ UNCHANGED <<made, leaving>>
<1>0. TypeOK /\ OpInv /\ PlaceOf(t) /\ WaitOf(t) /\ PastOf(t)
  BY DEF TypeInv, PlaceInv, WaitInv, PastInv
<1>1. Finish(t) /\ UsersStay /\ TokensStay /\ pc[t] = "reply" /\ UNCHANGED <<made, leaving>>
  BY DEF Reply, usersVars, tokensVars, UsersStay, TokensStay
<1>3. /\ \/ /\ handler[t] = "logout"
            /\ known'.out = known.out \union {cookie[t]}
            /\ known'.emails = known.emails /\ known'.tokens = known.tokens
         \/ /\ handler[t] # "logout"
            /\ user[t] \in User /\ token[t] \in Token
            /\ known'.out = known.out
            /\ known'.emails = known.emails \union {user[t].email}
            /\ known'.tokens = known.tokens \union {token[t].uuid}
      /\ known' \in Past
  <2>1. known \in Past
    BY <1>0 DEF TypeOK
  <2>2. CASE handler[t] = "logout"
    <3>1. known' = [known EXCEPT !.out = @ \union {cookie[t]}] /\ cookie[t] \in TokenUuids
      BY <1>0, <1>1, <2>2 DEF Reply, PlaceOf
    <3>2. QED BY <2>1, <2>2, <3>1 DEF Past
  <2>3. CASE handler[t] # "logout"
    <3>1. known' = [known EXCEPT !.emails = @ \union {user[t].email},
                                 !.tokens = @ \union {token[t].uuid}]
      BY <2>3 DEF Reply
    <3>2. user[t] \in User /\ token[t] \in Token
      BY <1>0, <1>1 DEF PlaceOf
    <3>3. user[t].email \in Emails /\ token[t].uuid \in TokenUuids
      BY <3>2 DEF User, Token
    <3>4. QED BY <2>1, <2>3, <3>1, <3>2, <3>3 DEF Past
  <2>4. QED BY <2>2, <2>3
<1>4. Others(t) /\ OpInv'
  BY <1>1, FinishEffect, OthersStay
<1>5. TypeOK'
  BY <1>0, <1>1, <1>3, FinishEffect DEF TypeOK, UsersStay, TokensStay
<1>6. pc'[t] = "idle" /\ handler'[t] = "none" /\ call'[t] = NoCall /\ before'[t] = Nobody
  BY <1>1, FinishEffect
<1>7. PlaceOf(t)' /\ WaitOf(t)' /\ PastOf(t)'
  BY <1>6 DEF PlaceOf, WaitOf, PastOf, UserCalls, TokenCalls, Nobody
<1>8. TypeInv'
  BY <1>3, <1>4, <1>5, <1>6, <1>7, StepType
<1>9. QED BY <1>1, <1>3, <1>4, <1>6, <1>8

(* A step of database-service concerns one call.                           *)
LEMMA DatabaseEffect ==
    ASSUME TypeInv, DatabaseStep
    PROVE  /\ TypeInv' /\ UNCHANGED <<threadVars, history>>
           /\ \/ /\ TokensStay
                 /\ \E w \in UserWorkers :
                        /\ \A x \in UserWorkers \ {w} : userOp'[x] = userOp[x]
                        /\ UserWrites(w) \/ UserReads(w)
              \/ /\ UsersStay
                 /\ \E w \in TokenWorkers :
                        /\ \A x \in TokenWorkers \ {w} : tokenOp'[x] = tokenOp[x]
                        /\ TokenWrites(w) \/ TokenReads(w)
<1>0. TypeOK /\ OpInv /\ PlaceInv /\ WaitInv /\ PastInv
  BY DEF TypeInv
<1>1. UNCHANGED <<threadVars, history>>
  BY DEF DatabaseStep
<1>2. PlaceInv' /\ PastInv'
  BY <1>0, <1>1 DEF PlaceInv, PlaceOf, PastInv, PastOf, threadVars, history
<1>3. CASE Users!Internal /\ UNCHANGED tokensVars
  <2>1. PICK w \in UserWorkers : Users!Step(w)
    BY <1>3 DEF Users!Internal
  <2>2. /\ \A x \in UserWorkers \ {w} : userOp'[x] = userOp[x]
        /\ users' \in [UserUuids -> User \union {NoRecord}]
        /\ userOp' \in [UserWorkers -> UserOps]
        /\ UserWrites(w) \/ UserReads(w)
    BY <1>0, <2>1, UserStepEffect DEF TypeOK
  <2>3. TokensStay
    BY <1>3 DEF tokensVars, TokensStay
  <2>4. TypeOK' /\ OpInv'
    BY <1>0, <1>1, <2>2, <2>3 DEF TypeOK, OpInv, UserOps, TokensStay, threadVars, history
  <2>5. \A x \in UserWorkers :
            /\ userOp[x] \in UserUpserts => /\ userOp'[x] \in UserUpserts
                                            /\ userOp'[x].payload = userOp[x].payload
            /\ userOp[x] \in UserSearches => /\ userOp'[x] \in UserSearches
                                             /\ userOp'[x].query = userOp[x].query
    BY <2>2, KindsDiffer DEF UserWrites, UserReads
  <2>6. WaitInv'
    <3>1. ASSUME NEW t \in Threads PROVE WaitOf(t)'
      BY <1>0, <1>1, <2>3, <2>5 DEF WaitInv, WaitOf, TokensStay, threadVars, UserCalls, TokenCalls
    <3>2. QED BY <1>0, <1>1, <3>1 DEF WaitInv, threadVars
  <2>7. QED BY <1>1, <1>2, <2>2, <2>3, <2>4, <2>6 DEF TypeInv
<1>4. CASE Tokens!Internal /\ UNCHANGED usersVars
  <2>1. PICK w \in TokenWorkers : Tokens!Step(w)
    BY <1>4 DEF Tokens!Internal
  <2>2. /\ \A x \in TokenWorkers \ {w} : tokenOp'[x] = tokenOp[x]
        /\ tokens' \in [TokenUuids -> Token \union {NoRecord}]
        /\ tokenOp' \in [TokenWorkers -> TokenOps]
        /\ TokenWrites(w) \/ TokenReads(w)
    BY <1>0, <2>1, TokenStepEffect DEF TypeOK
  <2>3. UsersStay
    BY <1>4 DEF usersVars, UsersStay
  <2>4. TypeOK' /\ OpInv'
    BY <1>0, <1>1, <2>2, <2>3 DEF TypeOK, OpInv, TokenOps, UsersStay, threadVars, history
  <2>5. \A x \in TokenWorkers :
            /\ tokenOp[x] \in TokenUpserts => /\ tokenOp'[x] \in TokenUpserts
                                              /\ tokenOp'[x].payload = tokenOp[x].payload
            /\ tokenOp[x] \in TokenSearches => /\ tokenOp'[x] \in TokenSearches
                                               /\ tokenOp'[x].query = tokenOp[x].query
    BY <2>2, KindsDiffer DEF TokenWrites, TokenReads
  <2>6. WaitInv'
    <3>1. ASSUME NEW t \in Threads PROVE WaitOf(t)'
      BY <1>0, <1>1, <2>3, <2>5 DEF WaitInv, WaitOf, UsersStay, threadVars, UserCalls, TokenCalls
    <3>2. QED BY <1>0, <1>1, <3>1 DEF WaitInv, threadVars
  <2>7. QED BY <1>1, <1>2, <2>2, <2>3, <2>4, <2>6 DEF TypeInv
<1>5. QED BY <1>3, <1>4 DEF DatabaseStep

(* Steps that only end calls and handlers keep the types.                  *)
LEMMA EndsType ==
    ASSUME TypeInv, Ends
    PROVE  TypeInv'
<1>0. \A t \in Threads : PlaceOf(t) /\ WaitOf(t) /\ PastOf(t)
  BY DEF TypeInv, PlaceInv, WaitInv, PastInv
<1>1. ASSUME NEW t \in Threads PROVE PlaceOf(t)' /\ WaitOf(t)' /\ PastOf(t)'
  <2>1. CASE Same(t)
    BY <1>0, <2>1 DEF Ends, Same, PlaceOf, WaitOf, PastOf, UserCalls, TokenCalls
  <2>2. CASE pc'[t] = "idle" /\ handler'[t] = "none" /\ call'[t] = NoCall /\ before'[t] = Nobody
    BY <2>2 DEF PlaceOf, WaitOf, PastOf, UserCalls, TokenCalls, Nobody
  <2>3. QED BY <2>1, <2>2 DEF Ends
<1>2. \A s, t \in Threads : call'[s] = call'[t] /\ call'[s] # NoCall => s = t
  BY DEF TypeInv, WaitInv, Ends, Same
<1>3. QED BY <1>1, <1>2 DEF TypeInv, PlaceInv, WaitInv, PastInv, Ends

-----------------------------------------------------------------------------
(* The steps of the specification *)

ThreadStep(t) ==
    \/ \E w \in UserWorkers :
        \/ \E f \in Form : \/ FormCall(t, w, f, "register", "exists")
                           \/ FormCall(t, w, f, "login", "login")
        \/ InsertUser(t, w)
        \/ TokenIsActive(t, w)
    \/ \E w \in TokenWorkers :
        \/ \E h \in {"logout", "page"}, k \in TokenUuids : PageCall(t, w, h, k)
        \/ UserInserted(t, w)
        \/ UserFound(t, w)
        \/ StoreToken(t, w)
    \/ EmailIsFree(t)
    \/ ExistingToken(t) \/ NoExistingToken(t)
    \/ (PageUser(t) /\ UsersFound(t) # {}) \/ \E w \in TokenWorkers : LogoutUser(t, w)
    \/ TokenGone(t) \/ Deactivate(t)
    \/ TokenStored(t)
    \/ Reply(t)

(* A step ends calls and handlers, or is one of database-service, or takes *)
(* a handler on.                                                           *)
LEMMA StepCases ==
    ASSUME TypeInv, [Next]_vars
    PROVE  Ends \/ DatabaseStep \/ \E t \in Threads : ThreadStep(t)
<1>1. CASE UNCHANGED vars
  <2>1. UNCHANGED <<users, userOp, tokens, tokenOp, handler, pc, call, user, token, cookie, made,
                    known, leaving, before>>
    BY <1>1 DEF vars, usersVars, tokensVars, threadVars, history
  <2>2. \A t \in Threads : Same(t)
    BY <2>1 DEF Same
  <2>3. TypeOK' /\ OpInv'
    BY <2>1 DEF TypeInv, TypeOK, OpInv
  <2>4. QED BY <2>1, <2>2, <2>3 DEF Ends
<1>2. CASE DatabaseCrash
  BY <1>2, CrashEffect
<1>3. CASE (\E w \in UserWorkers : UserUnheard(w)) \/ (\E w \in TokenWorkers : TokenUnheard(w))
  BY <1>3, UnheardEffect
<1>4. ASSUME NEW t \in Threads,
             \/ UserExists(t) \/ UserNotInserted(t) \/ LoginRefused(t) \/ NotLoggedIn(t)
             \/ TokenNotStored(t) \/ Abort(t) \/ (PageUser(t) /\ UsersFound(t) = {})
      PROVE  Ends
  BY <1>4, ErrorEffect
<1>5. QED BY <1>1, <1>2, <1>3, <1>4 DEF Next, ThreadStep

(* The types, and what a thread waits for, are kept by every step.         *)
LEMMA TypeKept ==
    ASSUME TypeInv, [Next]_vars
    PROVE  TypeInv'
<1>1. ASSUME NEW t \in Threads, ThreadStep(t) PROVE TypeInv'
  <2>1. ASSUME NEW w \in UserWorkers, NEW f \in Form,
               FormCall(t, w, f, "register", "exists") \/ FormCall(t, w, f, "login", "login")
        PROVE  TypeInv'
    BY <2>1, FormEffect
  <2>2. ASSUME NEW w \in UserWorkers, InsertUser(t, w) \/ TokenIsActive(t, w) PROVE TypeInv'
    BY <2>2, InsertEffect, CheckedEffect
  <2>3. ASSUME NEW w \in TokenWorkers, NEW h \in {"logout", "page"}, NEW k \in TokenUuids,
               PageCall(t, w, h, k)
        PROVE  TypeInv'
    BY <2>3, PageEffect
  <2>4. ASSUME NEW w \in TokenWorkers, UserInserted(t, w) \/ UserFound(t, w) \/ StoreToken(t, w)
        PROVE  TypeInv'
    BY <2>4, InsertedEffect, LoginEffect, StoreEffect
  <2>5. CASE EmailIsFree(t) \/ ExistingToken(t) \/ NoExistingToken(t)
    BY <2>5, FreeEffect, SessionEffect
  <2>6. CASE (PageUser(t) /\ UsersFound(t) # {}) \/ \E w \in TokenWorkers : LogoutUser(t, w)
    BY <2>6, WhoseEffect
  <2>7. CASE TokenGone(t) \/ Deactivate(t) \/ TokenStored(t) \/ Reply(t)
    BY <2>7, LogoutEffect, SavedEffect, ReplyEffect
  <2>8. QED BY <1>1, <2>1, <2>2, <2>3, <2>4, <2>5, <2>6, <2>7 DEF ThreadStep
<1>2. QED BY <1>1, StepCases, EndsType, DatabaseEffect

(* A step of one handler leaves the other threads alone.                   *)
LEMMA OthersSame ==
    ASSUME TypeInv, NEW s \in Threads, ThreadStep(s)
    PROVE  Others(s)
<1>1. ASSUME NEW w \in UserWorkers, NEW f \in Form,
             FormCall(s, w, f, "register", "exists") \/ FormCall(s, w, f, "login", "login")
      PROVE  Others(s)
  BY <1>1, FormEffect
<1>2. ASSUME NEW w \in UserWorkers, InsertUser(s, w) \/ TokenIsActive(s, w) PROVE Others(s)
  BY <1>2, InsertEffect, CheckedEffect
<1>3. ASSUME NEW w \in TokenWorkers, NEW h \in {"logout", "page"}, NEW k \in TokenUuids,
             PageCall(s, w, h, k)
      PROVE  Others(s)
  BY <1>3, PageEffect
<1>4. ASSUME NEW w \in TokenWorkers,
             UserInserted(s, w) \/ UserFound(s, w) \/ StoreToken(s, w)
      PROVE  Others(s)
  BY <1>4, InsertedEffect, LoginEffect, StoreEffect
<1>5. CASE EmailIsFree(s) \/ ExistingToken(s) \/ NoExistingToken(s)
  BY <1>5, FreeEffect, SessionEffect
<1>6. CASE (PageUser(s) /\ UsersFound(s) # {}) \/ \E w \in TokenWorkers : LogoutUser(s, w)
  BY <1>6, WhoseEffect
<1>7. CASE TokenGone(s) \/ Deactivate(s) \/ TokenStored(s) \/ Reply(s)
  BY <1>7, LogoutEffect, SavedEffect, ReplyEffect
<1>8. QED BY <1>1, <1>2, <1>3, <1>4, <1>5, <1>6, <1>7 DEF ThreadStep

(* Nothing happens before the first request.                               *)
LEMMA InitTypeInv ==
    ASSUME Init
    PROVE  /\ TypeInv
           /\ \A u \in UserUuids : users[u] = NoRecord
           /\ \A k \in TokenUuids : tokens[k] = NoRecord
           /\ \A w \in UserWorkers : userOp[w] = Users!NoOp
           /\ \A w \in TokenWorkers : tokenOp[w] = Tokens!NoOp
           /\ \A t \in Threads : pc[t] = "idle" /\ handler[t] = "none" /\ before[t] = Nobody
           /\ known = Nobody /\ leaving = {} /\ made = {}
<1>1. Nobody \in Past
  BY DEF Nobody, Past
<1>2. TypeOK /\ OpInv
  BY <1>1 DEF Init, Users!Init, Tokens!Init, TypeOK, OpInv, Handlers, Places
<1>3. \A t \in Threads : PlaceOf(t) /\ WaitOf(t) /\ PastOf(t)
  BY DEF Init, PlaceOf, WaitOf, PastOf, UserCalls, TokenCalls, Nobody
<1>4. QED
  BY <1>2, <1>3 DEF Init, Users!Init, Tokens!Init, TypeInv, PlaceInv, WaitInv, PastInv

-----------------------------------------------------------------------------
(* The users *)

\* Steps that make no user and no upsert of one.
QuietUsers ==
    /\ users' = users
    /\ made \subseteq made'
    /\ \A w \in UserWorkers : userOp'[w] = userOp[w] \/ userOp'[w] \notin UserUpserts
    /\ \A t \in Threads : pc'[t] = "create" => pc[t] = "create" /\ user'[t] = user[t]

\* A write of worker w, and nothing else.
WritesUsers(w) ==
    /\ UserWrites(w)
    /\ \A x \in UserWorkers \ {w} : userOp'[x] = userOp[x]
    /\ pc' = pc /\ user' = user /\ made' = made

LEMMA UserSteps ==
    ASSUME TypeInv, [Next]_vars
    PROVE  \/ QuietUsers
           \/ \E t \in Threads : EmailIsFree(t)
           \/ \E t \in Threads, w \in UserWorkers : InsertUser(t, w)
           \/ \E w \in UserWorkers : WritesUsers(w)
<1>1. CASE Ends
  BY <1>1, KindsDiffer DEF Ends, Same, QuietUsers
<1>2. CASE DatabaseStep
  <2>1. pc' = pc /\ user' = user /\ made' = made
    BY <1>2, DatabaseEffect DEF threadVars, history
  <2>2. CASE UsersStay
    BY <2>1, <2>2 DEF UsersStay, QuietUsers
  <2>3. ASSUME NEW w \in UserWorkers, \A x \in UserWorkers \ {w} : userOp'[x] = userOp[x],
               UserWrites(w) \/ UserReads(w)
        PROVE  QuietUsers \/ WritesUsers(w)
    BY <2>1, <2>3, KindsDiffer DEF QuietUsers, WritesUsers, UserReads
  <2>4. QED BY <1>2, <2>2, <2>3, DatabaseEffect
<1>3. ASSUME NEW t \in Threads, Others(t), users' = users, made \subseteq made', pc'[t] # "create",
             UsersStay \/ \E w \in UserWorkers : UsersBut(w) /\ userOp'[w] \notin UserUpserts
      PROVE  QuietUsers
  BY <1>3 DEF Others, Same, QuietUsers, UsersStay, UsersBut
<1>4. ASSUME NEW t \in Threads, ThreadStep(t), ~ EmailIsFree(t),
             ~ \E w \in UserWorkers : InsertUser(t, w)
      PROVE  QuietUsers
  <2>1. ASSUME NEW w \in UserWorkers, NEW f \in Form,
               FormCall(t, w, f, "register", "exists") \/ FormCall(t, w, f, "login", "login")
        PROVE  QuietUsers
    BY <2>1, <1>3, FormEffect, KindsDiffer DEF UserSearch
  <2>2. ASSUME NEW w \in UserWorkers, TokenIsActive(t, w) PROVE QuietUsers
    BY <2>2, <1>3, CheckedEffect, KindsDiffer DEF UserSearch
  <2>3. ASSUME NEW w \in TokenWorkers, NEW h \in {"logout", "page"}, NEW k \in TokenUuids,
               PageCall(t, w, h, k)
        PROVE  QuietUsers
    BY <2>3, <1>3, PageEffect
  <2>4. ASSUME NEW w \in TokenWorkers, UserInserted(t, w) PROVE QuietUsers
    BY <2>4, <1>3, InsertedEffect, KindsDiffer DEF UserAnswered, MakesToken
  <2>5. ASSUME NEW w \in TokenWorkers, UserFound(t, w) PROVE QuietUsers
    BY <2>5, <1>3, LoginEffect, KindsDiffer DEF UserAnswered
  <2>6. ASSUME NEW w \in TokenWorkers, StoreToken(t, w) PROVE QuietUsers
    BY <2>6, <1>3, StoreEffect
  <2>7. CASE ExistingToken(t) \/ NoExistingToken(t)
    BY <2>7, <1>3, SessionEffect DEF MakesToken
  <2>8. CASE (PageUser(t) /\ UsersFound(t) # {}) \/ \E w \in TokenWorkers : LogoutUser(t, w)
    BY <2>8, <1>3, WhoseEffect, KindsDiffer DEF UserAnswered
  <2>9. CASE TokenGone(t) \/ Deactivate(t) \/ TokenStored(t)
    BY <2>9, <1>3, LogoutEffect, SavedEffect
  <2>10. CASE Reply(t)
    BY <2>10, <1>3, ReplyEffect DEF UsersStay
  <2>11. QED
    BY <1>4, <2>1, <2>2, <2>3, <2>4, <2>5, <2>6, <2>7, <2>8, <2>9, <2>10 DEF ThreadStep
<1>5. QED BY <1>1, <1>2, <1>4, StepCases

\* A user that is stored stays as it is.
UsersLast == \A u \in UserUuids : users[u] # NoRecord => users'[u] = users[u]

LEMMA UserInvKept ==
    ASSUME TypeInv, UserInv, [Next]_vars
    PROVE  UserInv' /\ UsersLast
<1>0. TypeOK /\ OpInv
  BY DEF TypeInv
<1>1. CASE QuietUsers
  <2>1. UsersLast
    BY <1>1 DEF QuietUsers, UsersLast
  <2>2. \A w \in UserWorkers : userOp'[w] \in UserUpserts => userOp'[w] = userOp[w]
    BY <1>1 DEF QuietUsers
  <2>3. \A u \in UserUuids : users'[u] # NoRecord => users'[u].uuid = u /\ u \in made'
    BY <1>1 DEF UserInv, QuietUsers
  <2>4. \A w \in UserWorkers : userOp'[w] \in UserUpserts =>
            /\ userOp'[w].payload.uuid = userOp'[w].key
            /\ userOp'[w].key \in made'
            /\ userOp'[w].stage \in {"begun", "removed"} => users'[userOp'[w].key] = NoRecord
            /\ userOp'[w].stage = "ok" => StoredUser(userOp[w].payload)'
            /\ \A x \in UserWorkers :
                userOp'[x] \in UserUpserts /\ userOp'[x].key = userOp'[w].key => x = w
    BY <1>1, <2>2 DEF UserInv, QuietUsers, StoredUser
  <2>5. \A t \in Threads : pc'[t] = "create" =>
            /\ user'[t].uuid \in made'
            /\ users'[user'[t].uuid] = NoRecord
            /\ \A w \in UserWorkers : userOp'[w] \in UserUpserts => userOp'[w].key # user'[t].uuid
            /\ \A s \in Threads : pc'[s] = "create" /\ user'[s].uuid = user'[t].uuid => s = t
    BY <1>1, <2>2 DEF UserInv, QuietUsers
  <2>6. QED BY <2>1, <2>3, <2>4, <2>5 DEF UserInv
<1>2. ASSUME NEW t \in Threads, EmailIsFree(t) PROVE UserInv' /\ UsersLast
  <2>1. /\ Others(t) /\ users' = users /\ pc'[t] = "create"
        /\ user'[t].uuid \notin made /\ made' = made \union {user'[t].uuid}
        /\ user'[t].uuid \in UserUuids
        /\ \A w \in UserWorkers : userOp'[w] \in UserUpserts => userOp'[w] = userOp[w]
    BY <1>2, FreeEffect, KindsDiffer DEF UserAnswered, UsersBut, User
  <2>2. \A s \in Threads \ {t} : pc'[s] = pc[s] /\ user'[s] = user[s]
    BY <2>1 DEF Others, Same
  <2>3. \A w \in UserWorkers : userOp'[w] \in UserUpserts =>
            /\ userOp'[w].payload.uuid = userOp'[w].key
            /\ userOp'[w].key \in made'
            /\ userOp'[w].key # user'[t].uuid
            /\ userOp'[w].stage \in {"begun", "removed"} => users'[userOp'[w].key] = NoRecord
            /\ userOp'[w].stage = "ok" => StoredUser(userOp[w].payload)'
            /\ \A x \in UserWorkers :
                userOp'[x] \in UserUpserts /\ userOp'[x].key = userOp'[w].key => x = w
    BY <2>1 DEF UserInv, StoredUser
  <2>4. ASSUME NEW s \in Threads, pc'[s] = "create"
        PROVE  /\ user'[s].uuid \in made'
               /\ users'[user'[s].uuid] = NoRecord
               /\ \A w \in UserWorkers : userOp'[w] \in UserUpserts => userOp'[w].key # user'[s].uuid
               /\ \A r \in Threads : pc'[r] = "create" /\ user'[r].uuid = user'[s].uuid => r = s
    <3>1. CASE s = t
      BY <2>1, <2>2, <2>3, <3>1 DEF UserInv
    <3>2. CASE s # t
      BY <2>1, <2>2, <2>4, <3>2 DEF UserInv
    <3>3. QED BY <3>1, <3>2
  <2>5. \A u \in UserUuids : users'[u] # NoRecord => users'[u].uuid = u /\ u \in made'
    BY <2>1 DEF UserInv
  <2>6. QED BY <2>1, <2>3, <2>4, <2>5 DEF UserInv, UsersLast
<1>3. ASSUME NEW t \in Threads, NEW w \in UserWorkers, InsertUser(t, w)
      PROVE  UserInv' /\ UsersLast
  <2>1. /\ Others(t) /\ users' = users /\ pc[t] = "create" /\ pc'[t] = "insert" /\ user' = user
        /\ user[t] \in User /\ made' = made
        /\ userOp'[w] \in UserUpserts /\ userOp'[w].stage = "begun"
        /\ userOp'[w].key = user[t].uuid /\ userOp'[w].payload = user[t]
        /\ \A x \in UserWorkers \ {w} : userOp'[x] = userOp[x]
    BY <1>3, InsertEffect DEF UserUpsert, UsersBut
  <2>2. \A s \in Threads \ {t} : pc'[s] = pc[s]
    BY <2>1 DEF Others, Same
  <2>3. /\ user[t].uuid \in made
        /\ users[user[t].uuid] = NoRecord
        /\ \A x \in UserWorkers : userOp[x] \in UserUpserts => userOp[x].key # user[t].uuid
        /\ \A s \in Threads : pc[s] = "create" /\ user[s].uuid = user[t].uuid => s = t
    BY <2>1 DEF UserInv
  <2>4. ASSUME NEW v \in UserWorkers, userOp'[v] \in UserUpserts
        PROVE  /\ userOp'[v].payload.uuid = userOp'[v].key
               /\ userOp'[v].key \in made'
               /\ userOp'[v].stage \in {"begun", "removed"} => users'[userOp'[v].key] = NoRecord
               /\ userOp'[v].stage = "ok" => StoredUser(userOp[v].payload)'
               /\ \A x \in UserWorkers :
                    userOp'[x] \in UserUpserts /\ userOp'[x].key = userOp'[v].key => x = v
    <3>1. CASE v = w
      BY <2>1, <2>3, <3>1
    <3>2. CASE v # w
      BY <2>1, <2>3, <2>4, <3>2 DEF UserInv, StoredUser
    <3>3. QED BY <3>1, <3>2
  <2>5. ASSUME NEW s \in Threads, pc'[s] = "create"
        PROVE  /\ user'[s].uuid \in made'
               /\ users'[user'[s].uuid] = NoRecord
               /\ \A x \in UserWorkers : userOp'[x] \in UserUpserts => userOp'[x].key # user'[s].uuid
               /\ \A r \in Threads : pc'[r] = "create" /\ user'[r].uuid = user'[s].uuid => r = s
    <3>1. s # t /\ pc[s] = "create"
      BY <2>1, <2>2, <2>5
    <3>2. user[s].uuid # user[t].uuid
      BY <2>3, <3>1
    <3>3. QED BY <2>1, <2>2, <3>1, <3>2 DEF UserInv
  <2>6. \A u \in UserUuids : users'[u] # NoRecord => users'[u].uuid = u /\ u \in made'
    BY <2>1 DEF UserInv
  <2>7. QED BY <2>1, <2>4, <2>5, <2>6 DEF UserInv, UsersLast
<1>4. ASSUME NEW w \in UserWorkers, WritesUsers(w) PROVE UserInv' /\ UsersLast
  <2> DEFINE k == userOp[w].key
  <2>1. /\ userOp[w] \in UserUpserts /\ userOp'[w] \in UserUpserts
        /\ userOp'[w].key = k /\ userOp'[w].payload = userOp[w].payload
        /\ pc' = pc /\ user' = user /\ made' = made
        /\ \A x \in UserWorkers \ {w} : userOp'[x] = userOp[x]
    BY <1>4 DEF WritesUsers, UserWrites
  <2>2. k \in UserUuids /\ userOp[w].payload \in User /\ userOp[w].payload.uuid = k /\ k \in made
    BY <2>1 DEF UserInv, UserUpserts
  <2>3. \A x \in UserWorkers \ {w} : userOp[x] \in UserUpserts => userOp[x].key # k
    BY <2>1 DEF UserInv
  <2>4. \/ userOp'[w].stage = "failed" /\ users' = users
        \/ /\ userOp[w].stage = "begun" /\ userOp'[w].stage = "removed"
           /\ users' = [users EXCEPT ![k] = NoRecord]
        \/ /\ userOp[w].stage = "removed" /\ userOp'[w].stage = "ok"
           /\ users' = [users EXCEPT ![k] = userOp[w].payload]
    BY <1>4 DEF WritesUsers, UserWrites
  <2> HIDE DEF k
  <2>5. \A u \in UserUuids \ {k} : users'[u] = users[u]
    BY <1>0, <2>4 DEF TypeOK
  <2>6. \/ userOp'[w].stage = "failed" /\ users'[k] = users[k]
        \/ /\ userOp'[w].stage = "removed" /\ users'[k] = NoRecord /\ users[k] = NoRecord
        \/ /\ userOp'[w].stage = "ok" /\ users[k] = NoRecord
           /\ users'[k] = userOp[w].payload
    BY <1>0, <2>1, <2>2, <2>4 DEF TypeOK, UserInv, k
  <2>7. UsersLast
    BY <2>5, <2>6 DEF UsersLast
  <2>8. \A u \in UserUuids : users'[u] # NoRecord => users'[u].uuid = u /\ u \in made'
    BY <2>1, <2>2, <2>5, <2>6 DEF UserInv
  <2>9. ASSUME NEW v \in UserWorkers, userOp'[v] \in UserUpserts
        PROVE  /\ userOp'[v].payload.uuid = userOp'[v].key
               /\ userOp'[v].key \in made'
               /\ userOp'[v].stage \in {"begun", "removed"} => users'[userOp'[v].key] = NoRecord
               /\ userOp'[v].stage = "ok" => StoredUser(userOp[v].payload)'
               /\ \A x \in UserWorkers :
                    userOp'[x] \in UserUpserts /\ userOp'[x].key = userOp'[v].key => x = v
    <3>1. CASE v = w
      BY <2>1, <2>2, <2>3, <2>6, <3>1 DEF StoredUser
    <3>2. CASE v # w
      <4>1. userOp'[v] = userOp[v] /\ userOp[v].key # k /\ userOp[v].key \in UserUuids
        BY <2>1, <2>3, <2>9, <3>2 DEF UserUpserts
      <4>2. users'[userOp[v].key] = users[userOp[v].key]
        BY <2>5, <4>1
      <4>3. QED BY <2>1, <2>9, <3>2, <4>1, <4>2 DEF UserInv, StoredUser
    <3>3. QED BY <3>1, <3>2
  <2>10. \A t \in Threads : pc'[t] = "create" =>
            /\ user'[t].uuid \in made'
            /\ users'[user'[t].uuid] = NoRecord
            /\ \A v \in UserWorkers : userOp'[v] \in UserUpserts => userOp'[v].key # user'[t].uuid
            /\ \A s \in Threads : pc'[s] = "create" /\ user'[s].uuid = user'[t].uuid => s = t
    <3>1. \A v \in UserWorkers : userOp'[v] \in UserUpserts =>
            userOp[v] \in UserUpserts /\ userOp'[v].key = userOp[v].key
      BY <2>1 DEF k
    <3>2. \A t \in Threads : pc[t] = "create" => user[t].uuid # k /\ user[t].uuid \in UserUuids
      BY <2>1 DEF UserInv, k, TypeInv, PlaceInv, PlaceOf, User
    <3>3. QED BY <2>1, <2>5, <3>1, <3>2 DEF UserInv
  <2>11. QED BY <2>7, <2>8, <2>9, <2>10 DEF UserInv
<1>5. QED BY <1>1, <1>2, <1>3, <1>4, UserSteps

\* Where a handler has a stored user.
HasUser == {"token", "logout", "store", "save", "reply"}

(* What a step makes of the searches for users, and of the users that      *)
(* handlers have.                                                          *)
LEMMA UserMoves ==
    ASSUME TypeInv, UserInv, FoundUserInv, [Next]_vars
    PROVE  /\ \A w \in UserWorkers : userOp'[w] \in UserSearches =>
                \/ userOp'[w] = userOp[w]
                \/ userOp'[w].stage = "list" /\ userOp'[w].found = {}
                \/ UserReads(w)
           /\ \A t \in Threads : pc'[t] \in HasUser =>
                \/ pc[t] \in HasUser /\ user'[t] = user[t]
                \/ StoredUser(user'[t])
           /\ \A e \in known'.emails : \/ e \in known.emails
                                       \/ \E x \in User : StoredUser(x) /\ x.email = e
<1> DEFINE Calls == \A w \in UserWorkers : userOp'[w] \in UserSearches =>
                \/ userOp'[w] = userOp[w]
                \/ userOp'[w].stage = "list" /\ userOp'[w].found = {}
                \/ UserReads(w)
           Has == \A t \in Threads : pc'[t] \in HasUser =>
                \/ pc[t] \in HasUser /\ user'[t] = user[t]
                \/ StoredUser(user'[t])
           Knows == \A e \in known'.emails : \/ e \in known.emails
                                             \/ \E x \in User : StoredUser(x) /\ x.email = e
<1> SUFFICES Calls /\ Has /\ Knows
  OBVIOUS
<1>0. TypeOK /\ OpInv
  BY DEF TypeInv
<1>1. CASE Ends
  BY <1>1, KindsDiffer DEF Ends, Same, HasUser
<1>2. CASE DatabaseStep
  <2>1. Has /\ Knows
    BY <1>2, DatabaseEffect DEF threadVars, history
  <2>2. Calls
    BY <1>2, DatabaseEffect, KindsDiffer DEF UsersStay, UserWrites
  <2>3. QED BY <2>1, <2>2
<1>3. ASSUME NEW t \in Threads, Others(t), known' = known,
             \/ UsersStay
             \/ UserAnswered(t)
             \/ \E w \in UserWorkers, q \in UserQueries : UserSearch(w, q)
             \/ \E w \in UserWorkers, x \in User : UserUpsert(w, x),
             pc'[t] \in HasUser => (pc[t] \in HasUser /\ user'[t] = user[t]) \/ StoredUser(user'[t])
      PROVE  Calls /\ Has /\ Knows
  <2>1. Has /\ Knows
    BY <1>3 DEF Others, Same
  <2>2. Calls
    BY <1>3, KindsDiffer DEF UsersStay, UserAnswered, UserSearch, UserUpsert, UsersBut
  <2>3. QED BY <2>1, <2>2
<1>4. ASSUME NEW t \in Threads, ThreadStep(t) PROVE Calls /\ Has /\ Knows
  <2>0. PlaceOf(t) /\ WaitOf(t)
    BY DEF TypeInv, PlaceInv, WaitInv
  <2>1. ASSUME NEW w \in UserWorkers, NEW f \in Form,
               FormCall(t, w, f, "register", "exists") \/ FormCall(t, w, f, "login", "login")
        PROVE  Calls /\ Has /\ Knows
    <3>1. ByEmail(f.email) \in UserQueries
      BY DEF Form, UserQueries
    <3>2. QED BY <2>1, <3>1, <1>3, FormEffect DEF HasUser
  <2>2. ASSUME NEW w \in UserWorkers, InsertUser(t, w) PROVE Calls /\ Has /\ Knows
    BY <2>2, <1>3, InsertEffect DEF HasUser
  <2>3. ASSUME NEW w \in UserWorkers, TokenIsActive(t, w) PROVE Calls /\ Has /\ Knows
    <3>1. \E q \in UserQueries : UserSearch(w, q)
      <4>1. \A r \in tokenOp[call[t]].found : r[2].user_uuid \in UserUuids
        BY <2>3, CheckedEffect DEF TokenSearches, Token
      <4>2. token'[t].user_uuid \in UserUuids
        BY <2>3, <4>1, CheckedEffect
      <4>3. ByUuid(token'[t].user_uuid) \in UserQueries
        BY <4>2 DEF UserQueries
      <4>4. QED BY <2>3, <4>3, CheckedEffect
    <3>2. QED BY <2>3, <3>1, <1>3, CheckedEffect DEF HasUser
  <2>4. ASSUME NEW w \in TokenWorkers, NEW h \in {"logout", "page"}, NEW k \in TokenUuids,
               PageCall(t, w, h, k)
        PROVE  Calls /\ Has /\ Knows
    BY <2>4, <1>3, PageEffect DEF HasUser
  <2>5. ASSUME NEW w \in TokenWorkers, UserInserted(t, w) PROVE Calls /\ Has /\ Knows
    <3>1. /\ UserAnswered(t) /\ pc[t] = "insert" /\ userOp[call[t]].stage = "ok"
          /\ user' = user /\ known' = known /\ Others(t)
      BY <2>5, InsertedEffect
    <3>2. userOp[call[t]] \in UserUpserts /\ userOp[call[t]].payload = user[t]
      BY <2>0, <3>1 DEF WaitOf
    <3>3. StoredUser(user'[t])
      BY <3>1, <3>2 DEF UserInv, UserAnswered
    <3>4. QED BY <3>1, <3>3, <1>3
  <2>6. ASSUME NEW w \in TokenWorkers, UserFound(t, w) PROVE Calls /\ Has /\ Knows
    <3>1. StoredUser(user'[t])
      BY <2>6, LoginEffect DEF FoundUserInv, UserAnswered
    <3>2. QED BY <2>6, <3>1, <1>3, LoginEffect
  <2>7. ASSUME NEW w \in TokenWorkers, StoreToken(t, w) PROVE Calls /\ Has /\ Knows
    BY <2>7, <1>3, StoreEffect DEF HasUser
  <2>8. CASE EmailIsFree(t)
    BY <2>8, <1>3, FreeEffect DEF HasUser
  <2>9. CASE ExistingToken(t) \/ NoExistingToken(t)
    BY <2>9, <1>3, SessionEffect DEF HasUser
  <2>10. CASE (PageUser(t) /\ UsersFound(t) # {}) \/ \E w \in TokenWorkers : LogoutUser(t, w)
    <3>1. StoredUser(user'[t])
      BY <2>10, WhoseEffect DEF FoundUserInv, UserAnswered
    <3>2. QED BY <2>10, <3>1, <1>3, WhoseEffect
  <2>11. CASE TokenGone(t) \/ Deactivate(t)
    BY <2>11, <1>3, LogoutEffect DEF HasUser
  <2>12. CASE TokenStored(t)
    BY <2>12, <1>3, SavedEffect DEF HasUser
  <2>13. CASE Reply(t)
    <3>1. Has /\ Calls
      BY <2>13, ReplyEffect DEF Others, Same, HasUser, UsersStay
    <3>2. StoredUser(user[t])
      BY <2>13, ReplyEffect DEF FoundUserInv
    <3>3. Knows
      BY <2>13, <3>2, ReplyEffect
    <3>4. QED BY <3>1, <3>3
  <2>14. QED
    BY <1>4, <2>1, <2>2, <2>3, <2>4, <2>5, <2>6, <2>7, <2>8, <2>9, <2>10, <2>11, <2>12, <2>13
    DEF ThreadStep
<1>5. QED BY <1>1, <1>2, <1>4, StepCases

LEMMA FoundUserInvKept ==
    ASSUME TypeInv, UserInv, FoundUserInv, [Next]_vars
    PROVE  FoundUserInv'
<1>0. TypeOK
  BY DEF TypeInv
<1>1. ASSUME NEW x, StoredUser(x) PROVE StoredUser(x)'
  <2>1. x.uuid \in UserUuids /\ users[x.uuid] # NoRecord
    BY <1>1 DEF StoredUser, User
  <2>2. QED BY <1>1, <2>1, UserInvKept DEF StoredUser, UsersLast
<1>2. ASSUME NEW w \in UserWorkers, userOp'[w] \in UserSearches, NEW r \in userOp'[w].found
      PROVE  StoredUser(r[2])'
  <2>1. CASE userOp'[w] = userOp[w]
    BY <1>1, <1>2, <2>1 DEF FoundUserInv
  <2>2. CASE UserReads(w)
    <3>1. r \in userOp[w].found \/ \E u \in UserUuids : r = <<u, users[u]>> /\ users[u] \in User
      BY <1>2, <2>2 DEF UserReads, UserSearches
    <3>2. ASSUME NEW u \in UserUuids, r = <<u, users[u]>>, users[u] \in User
          PROVE  StoredUser(r[2])
      <4>1. users[u].uuid = u
        BY <3>2 DEF UserInv
      <4>2. QED BY <3>2, <4>1 DEF StoredUser
    <3>3. userOp[w] \in UserSearches
      BY <2>2 DEF UserReads
    <3>4. StoredUser(r[2])
      BY <3>1, <3>2, <3>3 DEF FoundUserInv
    <3>5. QED BY <1>1, <3>4
  <2>3. QED BY <1>2, <2>1, <2>2, UserMoves
<1>3. ASSUME NEW t \in Threads, pc'[t] \in HasUser PROVE StoredUser(user[t])'
  <2>1. StoredUser(user'[t])
    BY <1>3, UserMoves DEF FoundUserInv, HasUser
  <2>2. PICK x : x = user'[t]
    OBVIOUS
  <2>3. StoredUser(x)'
    BY <1>1, <2>1, <2>2
  <2>4. QED BY <2>2, <2>3
<1>4. ASSUME NEW e \in known'.emails
      PROVE  \E u \in UserUuids : users'[u] # NoRecord /\ users'[u].email = e
  <2>1. \E u \in UserUuids : users[u] # NoRecord /\ users[u].email = e
    <3>1. CASE e \in known.emails
      BY <3>1 DEF FoundUserInv
    <3>2. ASSUME NEW x \in User, StoredUser(x), x.email = e
          PROVE  \E u \in UserUuids : users[u] # NoRecord /\ users[u].email = e
      <4>1. x.uuid \in UserUuids /\ users[x.uuid] = x /\ x # NoRecord
        BY <3>2 DEF StoredUser, User
      <4>2. QED BY <3>2, <4>1
    <3>3. QED BY <3>1, <3>2, UserMoves
  <2>2. QED BY <2>1, UserInvKept DEF UsersLast
<1>5. QED BY <1>2, <1>3, <1>4 DEF FoundUserInv, HasUser

(* A search for an e-mail has just begun or goes on.                       *)
LEMMA SearchMoves ==
    ASSUME TypeInv, [Next]_vars, NEW t \in Threads, pc'[t] \in {"exists", "login"}
    PROVE  \/ userOp'[call'[t]].stage = "list"
           \/ /\ pc'[t] = pc[t] /\ user'[t] = user[t] /\ call'[t] = call[t]
              /\ before'[t] = before[t]
              /\ userOp'[call[t]] = userOp[call[t]] \/ UserReads(call[t])
<1> DEFINE Goes(s) ==
        /\ pc'[s] = pc[s] /\ user'[s] = user[s] /\ call'[s] = call[s] /\ before'[s] = before[s]
        /\ userOp'[call[s]] = userOp[call[s]] \/ UserReads(call[s])
<1>0. \A s \in Threads : pc[s] \in {"exists", "login"} =>
        call[s] \in UserWorkers /\ userOp[call[s]] \in UserSearches
  BY DEF TypeInv, WaitInv, WaitOf, UserCalls
<1>1. CASE Same(t)
  BY <1>0, <1>1 DEF Same
<1>2. CASE Ends
  BY <1>1, <1>2 DEF Ends
<1>3. CASE DatabaseStep
  <2>1. pc'[t] = pc[t] /\ user'[t] = user[t] /\ call'[t] = call[t] /\ before'[t] = before[t]
    BY <1>3, DatabaseEffect DEF threadVars, history
  <2>2. userOp'[call[t]] = userOp[call[t]] \/ UserReads(call[t])
    BY <1>0, <1>3, <2>1, DatabaseEffect, KindsDiffer DEF UsersStay, UserWrites
  <2>3. QED BY <2>1, <2>2
<1>4. ASSUME NEW s \in Threads, ThreadStep(s), t # s PROVE Goes(t)
  BY <1>0, <1>4, OthersSame DEF Others, Same
<1>5. CASE ThreadStep(t)
  <2>1. ASSUME NEW w \in UserWorkers, NEW f \in Form,
               FormCall(t, w, f, "register", "exists") \/ FormCall(t, w, f, "login", "login")
        PROVE  userOp'[call'[t]].stage = "list"
    BY <2>1, FormEffect DEF UserSearch
  <2>2. ASSUME NEW w \in UserWorkers, InsertUser(t, w) \/ TokenIsActive(t, w) PROVE FALSE
    BY <2>2, InsertEffect, CheckedEffect
  <2>3. ASSUME NEW w \in TokenWorkers, NEW h \in {"logout", "page"}, NEW k \in TokenUuids,
               PageCall(t, w, h, k)
        PROVE  FALSE
    BY <2>3, PageEffect
  <2>4. ASSUME NEW w \in TokenWorkers,
               UserInserted(t, w) \/ UserFound(t, w) \/ StoreToken(t, w)
        PROVE  FALSE
    BY <2>4, InsertedEffect, LoginEffect, StoreEffect
  <2>5. CASE EmailIsFree(t) \/ ExistingToken(t) \/ NoExistingToken(t)
    BY <2>5, FreeEffect, SessionEffect
  <2>6. CASE (PageUser(t) /\ UsersFound(t) # {}) \/ \E w \in TokenWorkers : LogoutUser(t, w)
    BY <2>6, WhoseEffect
  <2>7. CASE TokenGone(t) \/ Deactivate(t) \/ TokenStored(t) \/ Reply(t)
    BY <2>7, LogoutEffect, SavedEffect, ReplyEffect
  <2>8. QED BY <1>5, <2>1, <2>2, <2>3, <2>4, <2>5, <2>6, <2>7 DEF ThreadStep
<1>6. QED BY <1>2, <1>3, <1>4, <1>5, StepCases

LEMMA SearchInvKept ==
    ASSUME TypeInv, UserInv, FoundUserInv, SearchInv, [Next]_vars
    PROVE  SearchInv'
<1> SUFFICES ASSUME NEW t \in Threads, pc'[t] \in {"exists", "login"},
                    user'[t].email \in before'[t].emails,
                    userOp'[call'[t]].stage # "list", userOp'[call'[t]].found = {}
             PROVE  /\ userOp'[call'[t]].stage = "read"
                    /\ \E u \in userOp'[call'[t]].todo :
                        users'[u] # NoRecord /\ users'[u].email = user'[t].email
  BY DEF SearchInv
<1>0. TypeOK /\ WaitOf(t) /\ PastOf(t)
  BY DEF TypeInv, WaitInv, PastInv
<1>1. /\ pc'[t] = pc[t] /\ user'[t] = user[t] /\ call'[t] = call[t] /\ before'[t] = before[t]
      /\ userOp'[call[t]] = userOp[call[t]] \/ UserReads(call[t])
  BY SearchMoves
<1> DEFINE o == userOp[call[t]]
           e == user[t].email
<1>2. /\ call[t] \in UserWorkers /\ o \in UserSearches /\ o.query = ByEmail(e)
      /\ e \in known.emails
  BY <1>0, <1>1 DEF WaitOf, PastOf, UserCalls
<1>3. o.todo \subseteq UserUuids /\ e \in Emails
  BY <1>0, <1>2 DEF UserSearches, TypeOK, Past
<1>4. \/ o.stage = "list" \/ o.found # {}
      \/ o.stage = "read" /\ \E u \in o.todo : users[u] # NoRecord /\ users[u].email = e
  BY <1>1 DEF SearchInv
<1>5. CASE userOp'[call[t]] = o
  BY <1>1, <1>3, <1>4, <1>5, UserInvKept DEF UsersLast
<1>6. CASE UserReads(call[t])
  <2> DEFINE p == userOp'[call[t]]
  <2>1. CASE p.stage = "read" /\ \A u \in UserUuids : users[u] # NoRecord => u \in p.todo
    <3>1. \E u \in UserUuids : users[u] # NoRecord /\ users[u].email = e
      BY <1>2 DEF FoundUserInv
    <3>2. QED BY <1>1, <2>1, <3>1, UserInvKept DEF UsersLast
  <2>2. ASSUME NEW u \in o.todo, o.stage = "read", p.stage = "read",
               p.todo = o.todo \ {u}, o.found \subseteq p.found,
               \A f \in Emails : users[u] \in User /\ users[u].email = f /\ o.query = ByEmail(f)
                    => p.found # {}
        PROVE  p.stage = "read" /\ \E v \in p.todo : users'[v] # NoRecord /\ users'[v].email = e
    <3>1. o.found = {}
      BY <1>1, <2>2
    <3>2. PICK v \in o.todo : users[v] # NoRecord /\ users[v].email = e
      BY <1>4, <2>2, <3>1
    <3>3. users[v] \in User
      BY <1>0, <1>3, <3>2 DEF TypeOK
    <3>4. v # u
      BY <1>1, <1>2, <1>3, <2>2, <3>2, <3>3
    <3>5. QED BY <1>3, <2>2, <3>2, <3>4, UserInvKept DEF UsersLast
  <2>3. CASE /\ p.stage = "answer" /\ o.stage = "read" /\ o.todo = {}
             /\ p.found = {} => o.found = {}
    BY <1>1, <1>4, <2>3
  <2>4. QED BY <1>1, <1>6, <2>1, <2>2, <2>3 DEF UserReads
<1>7. QED BY <1>1, <1>5, <1>6

(* A user whose registration or login was answered before is found by each *)
(* later registration and login.                                           *)
LEMMA FoundByInv ==
    ASSUME TypeInv, SearchInv
    PROVE  AccountIsFound
<1> SUFFICES ASSUME NEW t \in Threads, pc[t] \in {"exists", "login"},
                    userOp[call[t]].stage = "answer", userOp[call[t]].found = {},
                    user[t].email \in before[t].emails
             PROVE  FALSE
  BY DEF AccountIsFound
<1>1. QED BY DEF SearchInv

-----------------------------------------------------------------------------
(* The tokens *)

\* Steps that store no token and log out only from tokens that were given out.
Grows ==
    /\ tokens' = tokens
    /\ made \subseteq made' /\ leaving \subseteq leaving'
    /\ leaving' \subseteq leaving \union known.tokens

(* They keep what is said of a token.                                      *)
LEMMA TokensStand ==
    ASSUME TypeInv, TokensInv, Grows
    PROVE  \A k : /\ Born(k) => Born(k)'
                  /\ Dead(k) => Dead(k)'
                  /\ Unborn(k) => Unborn(k)'
BY DEF TokensInv, TokenInv, Grows, Born, Dead, Unborn

LEMMA CallStands ==
    ASSUME TypeInv, TokensInv, Grows, NEW w \in TokenWorkers, tokenOp'[w] = tokenOp[w]
    PROVE  TokenCallOf(w)' /\ (FreshOp(w)' <=> FreshOp(w))
<1>1. TokenCallOf(w)
  BY DEF TokensInv, CallInv
<1>2. PICK k, f : k = tokenOp[w].key /\ f = tokenOp[w].found
  OBVIOUS
<1>3. k = tokenOp'[w].key /\ f = tokenOp'[w].found
  BY <1>2
<1>4. FreshOp(w)' <=> FreshOp(w)
  BY DEF FreshOp
<1>5. tokenOp[w] \in TokenUpserts => /\ tokenOp[w].stage = "ok" => Born(k)'
                                     /\ FreshOp(w) => Unborn(k)'
  BY <1>1, <1>2, TokensStand DEF TokenCallOf
<1>6. tokenOp[w] \in TokenSearches => \A r \in f : Born(r[1])'
  BY <1>1, <1>2, TokensStand DEF TokenCallOf
<1>7. (tokenOp'[w].stage = "ok" /\ tokenOp'[w] \in TokenUpserts => Born(tokenOp[w].key)')
      /\ (FreshOp(w)' => Unborn(tokenOp[w].key)')
      /\ (tokenOp'[w] \in TokenSearches => \A r \in tokenOp'[w].found : Born(r[1])')
  BY <1>3, <1>4, <1>5, <1>6 DEF Born, Unborn, FreshOp
<1>8. QED BY <1>1, <1>4, <1>7 DEF TokenCallOf, Grows

LEMMA ThreadStands ==
    ASSUME TypeInv, TokensInv, Grows, NEW s \in Threads, Same(s)
    PROVE  /\ TokenHeldBy(s)' /\ LogoutOf(s)' /\ OutOf(s)' /\ SessionOf(s)'
           /\ FreshThread(s)' <=> FreshThread(s)
<1>0. /\ TokenHeldBy(s) /\ LogoutOf(s) /\ OutOf(s) /\ SessionOf(s)
      /\ pc[s] \in {"token", "check", "logout", "save"} =>
            tokenOp'[call[s]] = tokenOp[call[s]] /\ call'[s] = call[s]
  BY DEF TokensInv, ThreadInv, TypeInv, WaitInv, WaitOf, TokenCalls, Same
<1>1. FreshThread(s)' <=> FreshThread(s)
  BY DEF FreshThread, Same
<1>2. PICK k, c : k = token[s].uuid /\ c = cookie[s]
  OBVIOUS
<1>3. k = token'[s].uuid /\ c = cookie'[s]
  BY <1>2 DEF Same
<1>4. /\ Born(k) => Born(token[s].uuid)'
      /\ Unborn(k) => Unborn(token[s].uuid)'
      /\ Dead(c) => Dead(cookie[s])'
  BY <1>3, TokensStand DEF Born, Unborn, Dead
<1>5. TokenHeldBy(s)'
  BY <1>0, <1>1, <1>2, <1>3, <1>4 DEF TokenHeldBy, Same, Grows
<1>6. LogoutOf(s)'
  BY <1>0, <1>2, <1>3, <1>4 DEF LogoutOf, Same
<1>7. OutOf(s)'
  BY <1>0 DEF OutOf, Same
<1>8. SessionOf(s)'
  BY <1>0 DEF SessionOf, Same, Grows
<1>9. QED BY <1>1, <1>5, <1>6, <1>7, <1>8

(* No step but those that make a token adds a carrier.                     *)
LEMMA CarriersStay ==
    ASSUME OneCarrier, NEW t \in Threads, Others(t), ~ FreshThread(t)',
           \A w \in TokenWorkers : FreshOp(w)' => tokenOp'[w] = tokenOp[w]
    PROVE  OneCarrier'
<1>1. \A s \in Threads : FreshThread(s)' => FreshThread(s) /\ token'[s] = token[s]
  BY DEF Others, Same, FreshThread
<1>2. \A w \in TokenWorkers : FreshOp(w)' => FreshOp(w) /\ tokenOp'[w] = tokenOp[w]
  BY DEF FreshOp
<1>3. QED BY <1>1, <1>2 DEF OneCarrier

(* A step of one handler keeps the invariant, if what it does to that      *)
(* thread and to its call does.                                            *)
LEMMA TokenStep ==
    ASSUME TypeInv, TypeInv', TokensInv, NEW t \in Threads, Others(t), Grows, leaving' \subseteq made',
           \A k \in known'.tokens : k \in known.tokens \/ Born(k),
           \A k \in known'.out : k \in known.out \/ Dead(k),
           \/ TokensStay
           \/ TokenAnswered(t)
           \/ \E w \in TokenWorkers : TokensBut(w) /\ TokenCallOf(w)',
           TokenHeldBy(t)', LogoutOf(t)', OutOf(t)', SessionOf(t)', OneCarrier'
    PROVE  TokensInv'
<1>1. ThreadInv'
  BY ThreadStands DEF ThreadInv, Others
<1>2. CallInv'
  <2> SUFFICES ASSUME NEW w \in TokenWorkers PROVE TokenCallOf(w)'
    BY DEF CallInv
  <2>1. CASE tokenOp'[w] = tokenOp[w]
    BY <2>1, CallStands
  <2>2. CASE tokenOp'[w] = Tokens!NoOp
    BY <2>2, KindsDiffer DEF TokenCallOf
  <2>3. QED BY <2>1, <2>2 DEF TokensStay, TokenAnswered, TokensBut
<1>3. TokenInv'
  <2>1. \A k \in known'.tokens : Born(k)'
    BY TokensStand DEF TokensInv, TokenInv
  <2>2. \A k \in known'.out : Dead(k)'
    BY TokensStand DEF TokensInv, TokenInv
  <2>3. QED BY <2>1, <2>2 DEF TokensInv, TokenInv, Grows
<1>4. QED BY <1>1, <1>2, <1>3 DEF TokensInv

(* A token that was not generated yet was not stored.                      *)
LEMMA NewIsUnborn ==
    ASSUME TypeInv, TokensInv, NEW t \in Threads, MakesToken(t)
    PROVE  LET k == token'[t].uuid
           IN  /\ k \in TokenUuids /\ Unborn(k)
               /\ \A w \in TokenWorkers : FreshOp(w) => tokenOp[w].key # k
               /\ \A s \in Threads : FreshThread(s) => token[s].uuid # k
               /\ \A s \in Threads : k \notin before[s].out
<1> DEFINE k == token'[t].uuid
<1>1. k \in TokenUuids /\ k \notin made
  BY DEF MakesToken, Token
<1> HIDE DEF k
<1>2. Unborn(k)
  BY <1>1 DEF TokensInv, TokenInv, Unborn
<1>3. \A w \in TokenWorkers : FreshOp(w) => tokenOp[w].key # k
  BY <1>1 DEF TokensInv, CallInv, TokenCallOf, FreshOp
<1>4. \A s \in Threads : FreshThread(s) => token[s].uuid # k
  BY <1>1 DEF TokensInv, ThreadInv, TokenHeldBy
<1>5. k \notin known.out
  BY <1>2 DEF TokensInv, TokenInv, Unborn, Dead
<1>6. \A s \in Threads : k \notin before[s].out
  BY <1>5 DEF TypeInv, PastInv, PastOf
<1>7. QED BY <1>1, <1>2, <1>3, <1>4, <1>6 DEF k

(* The records of a new search.                                            *)
LEMMA NewSearch ==
    ASSUME NEW w \in TokenWorkers, NEW q, TokenSearch(w, q)
    PROVE  /\ TokensBut(w) /\ TokenCallOf(w)' /\ ~ FreshOp(w)'
           /\ tokenOp'[w].stage = "list" /\ tokenOp'[w].found = {}
BY KindsDiffer DEF TokenSearch, TokenCallOf, FreshOp

LEMMA HandlerTokens ==
    ASSUME TypeInv, TypeInv', TokensInv, NEW t \in Threads, ThreadStep(t)
    PROVE  TokensInv'
<1>0. /\ Others(t)
      /\ TypeOK /\ PlaceOf(t) /\ WaitOf(t) /\ PastOf(t)
      /\ PlaceOf(t)' /\ WaitOf(t)' /\ PastOf(t)'
      /\ TokenHeldBy(t) /\ LogoutOf(t) /\ OutOf(t) /\ SessionOf(t)
      /\ OneCarrier /\ leaving \subseteq made
  BY OthersSame DEF TypeInv, PlaceInv, WaitInv, PastInv, TokensInv, ThreadInv, TokenInv
\* Steps that leave the collection and what they know as it is.
<1>1. ASSUME TokensStay, made \subseteq made', leaving' = leaving, known' = known,
             pc'[t] \in {"exists", "login", "create", "insert"}
      PROVE  TokensInv'
  <2>1. Grows /\ leaving' \subseteq made'
    BY <1>0, <1>1 DEF Grows, TokensStay
  <2>2. TokenHeldBy(t)' /\ LogoutOf(t)' /\ OutOf(t)' /\ SessionOf(t)' /\ ~ FreshThread(t)'
    BY <1>0, <1>1 DEF TokenHeldBy, LogoutOf, OutOf, SessionOf, FreshThread, PlaceOf
  <2>3. OneCarrier'
    BY <1>0, <1>1, <2>2, CarriersStay DEF TokensStay
  <2>4. QED BY <1>0, <1>1, <2>1, <2>2, <2>3, TokenStep
<1>2. ASSUME NEW w \in UserWorkers, NEW f \in Form,
             FormCall(t, w, f, "register", "exists") \/ FormCall(t, w, f, "login", "login")
      PROVE  TokensInv'
  BY <1>1, <1>2, FormEffect
<1>3. ASSUME NEW w \in UserWorkers, InsertUser(t, w) PROVE TokensInv'
  BY <1>1, <1>3, InsertEffect
<1>4. CASE EmailIsFree(t)
  BY <1>1, <1>4, FreeEffect
\* Steps that begin a search.
<1>5. ASSUME NEW w \in TokenWorkers, NEW q, TokenSearch(w, q), call'[t] = w,
             made' = made, leaving \subseteq leaving', leaving' \subseteq leaving \union known.tokens,
             known' = known, pc'[t] \in {"check", "token", "logout"},
             handler'[t] = "logout" => cookie'[t] \in leaving'
      PROVE  TokensInv'
  <2>1. Grows
    BY <1>5 DEF Grows, TokenSearch, TokensBut
  <2>2. leaving' \subseteq made'
    BY <1>0, <1>5 DEF TokensInv, TokenInv, Born, TypeOK, Past
  <2>3. TokenHeldBy(t)' /\ LogoutOf(t)' /\ OutOf(t)' /\ SessionOf(t)' /\ ~ FreshThread(t)'
    BY <1>5, NewSearch DEF TokenHeldBy, LogoutOf, OutOf, SessionOf, FreshThread
  <2>4. OneCarrier'
    <3>1. \A x \in TokenWorkers : FreshOp(x)' => tokenOp'[x] = tokenOp[x]
      BY <1>5, NewSearch DEF TokensBut
    <3>2. QED BY <1>0, <2>3, <3>1, CarriersStay
  <2>5. QED BY <1>0, <1>5, <2>1, <2>2, <2>3, <2>4, NewSearch, TokenStep
<1>6. ASSUME NEW w \in TokenWorkers, NEW h \in {"logout", "page"}, NEW k \in TokenUuids,
             PageCall(t, w, h, k)
      PROVE  TokensInv'
  BY <1>5, <1>6, PageEffect
<1>7. ASSUME NEW w \in TokenWorkers, UserFound(t, w) PROVE TokensInv'
  <2>1. handler'[t] # "logout"
    BY <1>0, <1>7, LoginEffect DEF PlaceOf
  <2>2. QED BY <1>5, <1>7, <2>1, LoginEffect
\* Steps after which the thread waits for no token.
<1>8. ASSUME TokensStay \/ TokenAnswered(t), made' = made, leaving' = leaving, known' = known,
             handler'[t] = handler[t], cookie'[t] = cookie[t], before'[t] = before[t],
             pc'[t] \in {"whose", "reply"},
             handler[t] # "logout" \/ pc'[t] = "whose" => Born(token'[t].uuid),
             handler[t] = "logout" /\ pc'[t] = "reply" => Dead(cookie[t]),
             handler[t] \in {"login", "page"} => token'[t].uuid \notin before[t].out
      PROVE  TokensInv'
  <2>1. Grows /\ leaving' \subseteq made'
    BY <1>0, <1>8 DEF Grows, TokensStay, TokenAnswered, TokensBut
  <2>2. PICK k, c : k = token'[t].uuid /\ c = cookie'[t]
    OBVIOUS
  <2>3. /\ Born(k) => Born(token[t].uuid)'
        /\ Dead(c) => Dead(cookie[t])'
    BY <2>1, <2>2, TokensStand DEF Born, Dead
  <2>4. TokenHeldBy(t)'
    BY <1>0, <1>8, <2>2, <2>3 DEF TokenHeldBy, FreshThread
  <2>5. LogoutOf(t)' /\ OutOf(t)' /\ SessionOf(t)' /\ ~ FreshThread(t)'
    BY <1>8, <2>2, <2>3 DEF LogoutOf, OutOf, SessionOf, FreshThread
  <2>6. OneCarrier'
    <3>1. \A x \in TokenWorkers : FreshOp(x)' => tokenOp'[x] = tokenOp[x]
      BY <1>8, KindsDiffer DEF TokensStay, TokenAnswered, TokensBut, FreshOp
    <3>2. QED BY <1>0, <2>5, <3>1, CarriersStay
  <2>7. QED BY <1>0, <1>8, <2>1, <2>4, <2>5, <2>6, TokenStep
<1>9. ASSUME NEW w \in UserWorkers, TokenIsActive(t, w) PROVE TokensInv'
  <2>1. PICK r \in tokenOp[call[t]].found : token'[t] = r[2] /\ r[2].active
    BY <1>9, CheckedEffect
  <2>2. r[2].uuid = r[1] /\ Born(r[1])
    BY <1>9, <2>1, CheckedEffect DEF TokensInv, CallInv, TokenCallOf, TokenAnswered
  <2>3. r[1] \notin before[t].out
    BY <1>0, <1>9, <2>1, CheckedEffect DEF OutOf
  <2>4. QED BY <1>8, <1>9, <2>1, <2>2, <2>3, CheckedEffect
<1>10. CASE (PageUser(t) /\ UsersFound(t) # {}) \/ \E w \in TokenWorkers : LogoutUser(t, w)
  <2>1. CASE pc'[t] = "reply"
    <3>1. pc[t] = "whose" /\ handler[t] = "page" /\ TokensStay /\ token' = token
      BY <1>10, <2>1, WhoseEffect
    <3>2. Born(token'[t].uuid) /\ token'[t].uuid \notin before[t].out
      BY <1>0, <3>1 DEF TokenHeldBy, OutOf
    <3>3. QED BY <1>8, <1>10, <2>1, <3>1, <3>2, WhoseEffect
  <2>2. CASE pc'[t] = "logout"
    <3>1. /\ handler[t] = "logout" /\ handler'[t] = handler[t] /\ cookie' = cookie
          /\ call'[t] \in TokenWorkers /\ TokenSearch(call'[t], ByUuid(cookie[t]))
          /\ UNCHANGED <<made, known, leaving>>
      BY <1>10, <2>2, WhoseEffect
    <3>2. cookie[t] \in leaving
      BY <1>0, <3>1 DEF TokenHeldBy
    <3>3. QED BY <1>5, <2>2, <3>1, <3>2
  <2>3. QED BY <1>10, <2>1, <2>2, WhoseEffect
<1>11. CASE TokenStored(t)
  <2>1. /\ pc[t] = "save" /\ pc'[t] = "reply" /\ token' = token /\ cookie' = cookie
        /\ call[t] \in TokenWorkers
        /\ tokenOp[call[t]] \in TokenUpserts /\ tokenOp[call[t]].stage = "ok"
        /\ tokenOp[call[t]].payload = token[t]
    BY <1>11, SavedEffect DEF TokenAnswered
  <2>2. Born(token[t].uuid)
    BY <2>1 DEF TokensInv, CallInv, TokenCallOf
  <2>3. handler[t] = "logout" => Dead(cookie[t])
    BY <1>0, <2>1 DEF LogoutOf
  <2>4. handler[t] \in {"login", "page"} => token[t].uuid \notin before[t].out
    BY <1>0, <2>1 DEF OutOf
  <2>5. QED BY <1>8, <1>11, <2>1, <2>2, <2>3, <2>4, SavedEffect
\* The answers of a login and of a logout to their last search.
<1>12. ASSUME NEW r \in tokenOp[call[t]].found, pc[t] = "token", TokenAnswered(t)
       PROVE  /\ r[2].uuid = r[1] /\ Born(r[1]) /\ r[1] \notin before[t].out
  <2>1. call[t] \in TokenWorkers /\ tokenOp[call[t]] \in TokenSearches
        /\ tokenOp[call[t]].query = ActiveOf(user[t].uuid)
    BY <1>0, <1>12 DEF WaitOf, TokenCalls
  <2>2. /\ r[2].uuid = r[1] /\ Born(r[1])
        /\ tokenOp[call[t]].query = ByUuid(r[1])
               \/ (tokenOp[call[t]].query = ActiveOf(r[2].user_uuid) /\ r[2].active)
    BY <1>12, <2>1 DEF TokensInv, CallInv, TokenCallOf
  <2>3. r[2].active
    BY <2>1, <2>2 DEF ByUuid, ActiveOf
  <2>4. QED BY <1>0, <1>12, <2>2, <2>3 DEF OutOf
\* Steps that are to store a token.
<1>13. ASSUME TokenAnswered(t), made \subseteq made', leaving' = leaving, known' = known,
              handler'[t] = handler[t], cookie'[t] = cookie[t], before'[t] = before[t],
              pc'[t] = "store",
              \/ handler[t] = "logout" /\ ~ token'[t].active /\ token'[t].uuid = cookie[t]
              \/ handler[t] = "login" /\ MakesToken(t)
       PROVE  TokensInv'
  <2>1. Grows /\ leaving' \subseteq made'
    BY <1>0, <1>13 DEF Grows, TokenAnswered, TokensBut
  <2>2. TokenHeldBy(t)'
    <3>1. CASE handler[t] = "logout" /\ ~ token'[t].active /\ token'[t].uuid = cookie[t]
      BY <1>0, <1>13, <3>1 DEF TokenHeldBy, FreshThread
    <3>2. CASE handler[t] = "login" /\ MakesToken(t)
      <4>1. Unborn(token[t].uuid)'
        BY <1>13, <2>1, <3>2, NewIsUnborn DEF Unborn, Grows
      <4>2. token'[t].active /\ token'[t].uuid \in made'
        BY <3>2 DEF MakesToken
      <4>3. QED BY <1>13, <3>2, <4>1, <4>2 DEF TokenHeldBy
    <3>3. QED BY <1>13, <3>1, <3>2
  <2>3. LogoutOf(t)' /\ SessionOf(t)'
    BY <1>13 DEF LogoutOf, SessionOf
  <2>4. OutOf(t)'
    BY <1>13, NewIsUnborn DEF OutOf
  <2>5. OneCarrier'
    <3>1. \A x \in TokenWorkers : FreshOp(x)' => FreshOp(x) /\ tokenOp'[x] = tokenOp[x]
      BY <1>13, KindsDiffer DEF TokenAnswered, TokensBut, FreshOp
    <3>2. CASE handler[t] = "logout" /\ ~ token'[t].active
      BY <1>0, <3>1, <3>2, CarriersStay DEF FreshThread
    <3>3. CASE MakesToken(t)
      <4>1. \A s \in Threads \ {t} : FreshThread(s)' => FreshThread(s) /\ token'[s] = token[s]
        BY <1>0 DEF Others, Same, FreshThread
      <4>2. \A s \in Threads \ {t} : FreshThread(s)' => token'[s].uuid # token'[t].uuid
        BY <3>3, <4>1, NewIsUnborn
      <4>3. \A w \in TokenWorkers : FreshOp(w)' => tokenOp'[w].key # token'[t].uuid
        BY <3>1, <3>3, NewIsUnborn
      <4>4. \A s, r \in Threads :
              FreshThread(s)' /\ FreshThread(r)' /\ token'[s].uuid = token'[r].uuid => s = r
        BY <1>0, <4>1, <4>2 DEF OneCarrier
      <4>5. \A w \in TokenWorkers, s \in Threads :
              FreshOp(w)' /\ FreshThread(s)' => tokenOp'[w].key # token'[s].uuid
        BY <1>0, <3>1, <4>1, <4>3 DEF OneCarrier
      <4>6. \A w, x \in TokenWorkers :
              FreshOp(w)' /\ FreshOp(x)' /\ tokenOp'[w].key = tokenOp'[x].key => w = x
        BY <1>0, <3>1 DEF OneCarrier
      <4>7. QED BY <4>4, <4>5, <4>6 DEF OneCarrier
    <3>4. QED BY <1>13, <3>2, <3>3
  <2>6. QED BY <1>0, <1>13, <2>1, <2>2, <2>3, <2>4, <2>5, TokenStep
<1>14. CASE ExistingToken(t) \/ NoExistingToken(t)
  <2>1. /\ pc[t] = "token" /\ TokenAnswered(t) /\ handler[t] = "login"
        /\ handler'[t] = handler[t] /\ before'[t] = before[t]
        /\ UNCHANGED <<known, leaving>>
    BY <1>0, <1>14, SessionEffect DEF PlaceOf
  <2>2. cookie'[t] = cookie[t]
    BY <1>14 DEF ExistingToken, NoExistingToken
  <2>3. CASE pc'[t] = "reply" /\ made' = made /\ \E r \in tokenOp[call[t]].found : token'[t] = r[2]
    BY <1>8, <1>12, <2>1, <2>2, <2>3
  <2>4. CASE pc'[t] = "store" /\ MakesToken(t)
    BY <1>13, <2>1, <2>2, <2>4 DEF MakesToken
  <2>5. QED BY <1>14, <2>3, <2>4, SessionEffect
<1>15. CASE TokenGone(t) \/ Deactivate(t)
  <2>1. /\ pc[t] = "logout" /\ TokenAnswered(t) /\ handler[t] = "logout"
        /\ handler'[t] = handler[t] /\ before'[t] = before[t] /\ cookie' = cookie
        /\ UNCHANGED <<made, known, leaving>>
    BY <1>15, LogoutEffect
  <2>2. CASE /\ pc'[t] = "reply" /\ tokenOp[call[t]].found = {}
             /\ tokenOp[call[t]].stage = "answer"
    BY <1>0, <1>8, <2>1, <2>2 DEF LogoutOf
  <2>3. ASSUME NEW r \in tokenOp[call[t]].found, pc'[t] = "store", ~ token'[t].active,
               token'[t].uuid = r[2].uuid
        PROVE  TokensInv'
    <3>1. call[t] \in TokenWorkers /\ tokenOp[call[t]] \in TokenSearches
          /\ tokenOp[call[t]].query = ByUuid(cookie[t])
      BY <1>0, <2>1 DEF WaitOf, TokenCalls
    <3>2. /\ r[2].uuid = r[1]
          /\ tokenOp[call[t]].query = ByUuid(r[1])
                 \/ (tokenOp[call[t]].query = ActiveOf(r[2].user_uuid) /\ r[2].active)
      BY <2>3, <3>1 DEF TokensInv, CallInv, TokenCallOf
    <3>3. r[1] = cookie[t]
      BY <3>1, <3>2 DEF ByUuid, ActiveOf
    <3>4. QED BY <1>13, <2>1, <2>3, <3>2, <3>3
  <2>4. QED BY <1>15, <2>2, <2>3, LogoutEffect
\* Steps that upsert a token.
<1>16. ASSUME NEW w \in TokenWorkers, TokenUpsert(w, token'[t]), token'[t] \in Token,
              call'[t] = w, pc'[t] = "save", made \subseteq made', leaving' = leaving, known' = known,
              handler'[t] = handler[t], cookie'[t] = cookie[t], before'[t] = before[t],
              TokenHeldBy(t)',
              handler[t] \in {"login", "page"} => token'[t].uuid \notin before[t].out,
              token'[t].uuid \in made',
              token'[t].active \/ token'[t].uuid \in leaving,
              token'[t].active => /\ Unborn(token'[t].uuid)
                                  /\ \A x \in TokenWorkers : FreshOp(x) => tokenOp[x].key # token'[t].uuid
                                  /\ \A s \in Threads \ {t} :
                                        FreshThread(s) => token[s].uuid # token'[t].uuid
       PROVE  TokensInv'
  <2>1. Grows /\ leaving' \subseteq made'
    BY <1>0, <1>16 DEF Grows, TokenUpsert, TokensBut
  <2>2. /\ tokenOp'[w] \in TokenUpserts /\ tokenOp'[w].stage = "begun"
        /\ tokenOp'[w].key = token'[t].uuid /\ tokenOp'[w].payload = token'[t]
        /\ TokensBut(w)
    BY <1>16 DEF TokenUpsert
  <2>3. token'[t].active => Unborn(tokenOp[w].key)'
    BY <1>16, <2>1, <2>2 DEF Unborn, Grows
  <2>4. TokenCallOf(w)'
    BY <1>16, <2>2, <2>3, KindsDiffer DEF TokenCallOf, FreshOp
  <2>5. LogoutOf(t)' /\ OutOf(t)' /\ SessionOf(t)' /\ ~ FreshThread(t)'
    BY <1>16, <2>2 DEF LogoutOf, OutOf, SessionOf, FreshThread
  <2>6. OneCarrier'
    <3>1. \A x \in TokenWorkers \ {w} : FreshOp(x)' => FreshOp(x) /\ tokenOp'[x] = tokenOp[x]
      BY <2>2 DEF TokensBut, FreshOp
    <3>2. \A s \in Threads : FreshThread(s)' => FreshThread(s) /\ token'[s] = token[s] /\ s # t
      BY <1>0, <2>5 DEF Others, Same, FreshThread
    <3>3. FreshOp(w)' => token'[t].active
      BY <2>2 DEF FreshOp
    <3>4. \A x \in TokenWorkers \ {w} :
            FreshOp(w)' /\ FreshOp(x)' => tokenOp'[w].key # tokenOp'[x].key
      BY <1>16, <2>2, <3>1, <3>3
    <3>5. \A x, y \in TokenWorkers :
            FreshOp(x)' /\ FreshOp(y)' /\ tokenOp'[x].key = tokenOp'[y].key => x = y
      BY <1>0, <3>1, <3>4 DEF OneCarrier
    <3>6. \A x \in TokenWorkers, s \in Threads :
            FreshOp(x)' /\ FreshThread(s)' => tokenOp'[x].key # token'[s].uuid
      BY <1>0, <1>16, <2>2, <3>1, <3>2, <3>3 DEF OneCarrier
    <3>7. \A s, r \in Threads :
            FreshThread(s)' /\ FreshThread(r)' /\ token'[s].uuid = token'[r].uuid => s = r
      BY <1>0, <3>2 DEF OneCarrier
    <3>8. QED BY <3>5, <3>6, <3>7 DEF OneCarrier
  <2>7. QED BY <1>0, <1>16, <2>1, <2>2, <2>4, <2>5, <2>6, TokenStep
<1>17. ASSUME NEW w \in TokenWorkers, UserInserted(t, w) PROVE TokensInv'
  <2>1. /\ pc[t] = "insert" /\ pc'[t] = "save" /\ call'[t] = w /\ handler[t] = "register"
        /\ handler'[t] = handler[t] /\ before'[t] = before[t]
        /\ MakesToken(t) /\ TokenUpsert(w, token'[t]) /\ UNCHANGED <<known, leaving>>
    BY <1>0, <1>17, InsertedEffect DEF PlaceOf
  <2>2. cookie' = cookie
    BY <1>17 DEF UserInserted
  <2>3. /\ token'[t] \in Token /\ token'[t].active /\ made \subseteq made'
        /\ token'[t].uuid \in made'
    BY <2>1 DEF MakesToken
  <2>4. TokenHeldBy(t)'
    BY <2>1, <2>3 DEF TokenHeldBy, FreshThread
  <2>5. QED BY <1>16, <2>1, <2>2, <2>3, <2>4, NewIsUnborn
<1>18. ASSUME NEW w \in TokenWorkers, StoreToken(t, w) PROVE TokensInv'
  <2>1. /\ pc[t] = "store" /\ pc'[t] = "save" /\ call'[t] = w
        /\ handler'[t] = handler[t] /\ before'[t] = before[t]
        /\ user' = user /\ token' = token /\ cookie' = cookie
        /\ token[t] \in Token /\ TokenUpsert(w, token[t]) /\ UNCHANGED <<made, known, leaving>>
    BY <1>18, StoreEffect
  <2>2. handler[t] \in {"login", "logout"}
    BY <1>0, <2>1 DEF PlaceOf
  <2>3. token[t].uuid \in made /\ (token[t].active \/ token[t].uuid \in leaving)
    BY <1>0, <2>1, <2>2 DEF TokenHeldBy, FreshThread
  <2>4. token[t].active => /\ FreshThread(t) /\ Unborn(token[t].uuid)
                           /\ \A x \in TokenWorkers : FreshOp(x) => tokenOp[x].key # token[t].uuid
                           /\ \A s \in Threads \ {t} :
                                FreshThread(s) => token[s].uuid # token[t].uuid
    BY <1>0, <2>1 DEF TokenHeldBy, FreshThread, OneCarrier
  <2>5. TokenHeldBy(t)'
    BY <1>0, <2>1 DEF TokenHeldBy, FreshThread
  <2>6. handler[t] \in {"login", "page"} => token[t].uuid \notin before[t].out
    BY <1>0, <2>1 DEF OutOf
  <2>7. QED BY <1>16, <2>1, <2>3, <2>4, <2>5, <2>6
\* The answer.
<1>19. CASE Reply(t)
  <2>1. /\ TokensStay /\ UNCHANGED <<made, leaving>>
        /\ pc[t] = "reply" /\ pc'[t] = "idle" /\ handler'[t] = "none"
    BY <1>19, ReplyEffect
  <2>2. Grows /\ leaving' \subseteq made'
    BY <1>0, <2>1 DEF Grows, TokensStay
  <2>3. TokenHeldBy(t)' /\ LogoutOf(t)' /\ OutOf(t)' /\ SessionOf(t)' /\ ~ FreshThread(t)'
    BY <2>1 DEF TokenHeldBy, LogoutOf, OutOf, SessionOf, FreshThread
  <2>4. OneCarrier'
    BY <1>0, <2>1, <2>3, CarriersStay DEF TokensStay
  <2>5. \A k \in known'.tokens : k \in known.tokens \/ Born(k)
    BY <1>0, <1>19, <2>1, ReplyEffect DEF TokenHeldBy
  <2>6. \A k \in known'.out : k \in known.out \/ Dead(k)
    BY <1>0, <1>19, <2>1, ReplyEffect DEF LogoutOf
  <2>7. QED BY <1>0, <2>1, <2>2, <2>3, <2>4, <2>5, <2>6, TokenStep
<1>20. QED
  BY <1>2, <1>3, <1>4, <1>6, <1>7, <1>9, <1>10, <1>11, <1>14, <1>15, <1>17, <1>18, <1>19
  DEF ThreadStep

(* The end of a handler or of a call takes from what is carried.           *)
LEMMA EndsTokens ==
    ASSUME TypeInv, TokensInv, Ends
    PROVE  TokensInv'
<1>0. /\ Grows /\ OneCarrier /\ leaving' \subseteq made'
  BY DEF Ends, Grows, TokensInv, TokenInv
<1>1. ASSUME NEW t \in Threads
      PROVE  /\ TokenHeldBy(t)' /\ LogoutOf(t)' /\ OutOf(t)' /\ SessionOf(t)'
             /\ FreshThread(t)' => FreshThread(t) /\ token'[t] = token[t]
  <2>1. CASE Same(t)
    BY <1>0, <2>1, ThreadStands DEF Same
  <2>2. CASE pc'[t] = "idle" /\ handler'[t] = "none"
    BY <2>2 DEF TokenHeldBy, LogoutOf, OutOf, SessionOf, FreshThread
  <2>3. QED BY <2>1, <2>2 DEF Ends
<1>2. ASSUME NEW w \in TokenWorkers
      PROVE  TokenCallOf(w)' /\ (FreshOp(w)' => FreshOp(w) /\ tokenOp'[w] = tokenOp[w])
  <2>1. CASE tokenOp'[w] = tokenOp[w]
    BY <1>0, <2>1, CallStands
  <2>2. CASE tokenOp'[w] = Tokens!NoOp
    BY <2>2, KindsDiffer DEF TokenCallOf, FreshOp
  <2>3. QED BY <2>1, <2>2 DEF Ends
<1>3. OneCarrier'
  BY <1>0, <1>1, <1>2 DEF OneCarrier
<1>4. TokenInv'
  <2>1. (\A k \in known.tokens : Born(k)') /\ (\A k \in known.out : Dead(k)')
    BY <1>0, TokensStand DEF TokensInv, TokenInv
  <2>2. QED BY <1>0, <2>1 DEF Ends, TokensInv, TokenInv
<1>5. QED BY <1>1, <1>2, <1>3, <1>4 DEF TokensInv, ThreadInv, CallInv

(* A step of database-service on the tokens: worker w, and nothing else.   *)
StepOf(w) ==
    /\ \A x \in TokenWorkers \ {w} : tokenOp'[x] = tokenOp[x]
    /\ UNCHANGED <<handler, pc, call, user, token, cookie, made, known, leaving, before>>

LEMMA ReadTokens ==
    ASSUME TypeInv, TypeInv', TokensInv, NEW w \in TokenWorkers, StepOf(w), TokenReads(w)
    PROVE  TokensInv'
<1>0. /\ Grows /\ OneCarrier /\ TokenCallOf(w) /\ TypeOK /\ leaving \subseteq made
      /\ tokens' = tokens
      /\ UNCHANGED <<handler, pc, call, user, token, cookie, made, known, leaving, before>>
  BY DEF StepOf, TokenReads, Grows, TokensInv, CallInv, TypeInv, TokenInv
<1> DEFINE o == tokenOp[w]
           p == tokenOp'[w]
<1>1. o \in TokenSearches /\ p \in TokenSearches /\ p.query = o.query /\ o.todo \subseteq TokenUuids
  BY DEF TokenReads, TokenSearches
\* What the search has found.
<1>2. ASSUME NEW r \in p.found
      PROVE  \/ r \in o.found
             \/ /\ r[1] \in TokenUuids /\ r[2] = tokens[r[1]] /\ tokens[r[1]] \in Token
                /\ r[2].uuid = r[1] /\ Born(r[1]) /\ (r[2].active \/ r[1] \in leaving)
                /\ \/ o.query = ByUuid(r[1])
                   \/ o.query = ActiveOf(r[2].user_uuid) /\ r[2].active
  <2>1. CASE r \in o.found
    BY <2>1
  <2>2. ASSUME NEW k \in o.todo, r = <<k, tokens[k]>>, tokens[k] \in Token,
               \/ o.query = ByUuid(tokens[k].uuid)
               \/ o.query = ActiveOf(tokens[k].user_uuid) /\ tokens[k].active
        PROVE  /\ r[1] \in TokenUuids /\ r[2] = tokens[r[1]] /\ tokens[r[1]] \in Token
               /\ r[2].uuid = r[1] /\ Born(r[1]) /\ (r[2].active \/ r[1] \in leaving)
               /\ \/ o.query = ByUuid(r[1])
                  \/ o.query = ActiveOf(r[2].user_uuid) /\ r[2].active
    <3>1. r[1] = k /\ r[2] = tokens[k] /\ k \in TokenUuids /\ tokens[k] # NoRecord
      BY <1>1, <2>2
    <3>2. tokens[k].uuid = k /\ (tokens[k].active \/ k \in leaving)
      BY <3>1 DEF TokensInv, TokenInv
    <3>3. QED BY <2>2, <3>1, <3>2 DEF Born
  <2>3. QED BY <1>2, <2>1, <2>2 DEF TokenReads
<1>3. TokenCallOf(w)'
  <2>1. ASSUME NEW r \in p.found
        PROVE  /\ r[2].uuid = r[1] /\ Born(r[1])
               /\ r[2].active \/ r[1] \in leaving
               /\ o.query = ByUuid(r[1]) \/ (o.query = ActiveOf(r[2].user_uuid) /\ r[2].active)
    BY <1>0, <1>1, <1>2 DEF TokenCallOf
  <2>2. \A r \in p.found : Born(r[1])'
    BY <1>0, <2>1 DEF Born
  <2>3. p \notin TokenUpserts
    BY <1>1, KindsDiffer
  <2>4. QED BY <1>0, <1>1, <2>1, <2>2, <2>3 DEF TokenCallOf
<1>4. ~ FreshOp(w)' /\ \A x \in TokenWorkers \ {w} : tokenOp'[x] = tokenOp[x]
  BY <1>1, KindsDiffer DEF FreshOp, StepOf
<1>5. CallInv'
  BY <1>0, <1>3, <1>4, CallStands DEF CallInv
<1>6. OneCarrier'
  BY <1>0, <1>4 DEF OneCarrier, FreshOp, FreshThread
<1>7. TokenInv'
  BY <1>0 DEF TokensInv, TokenInv, Born, Dead
<1>8. ASSUME NEW t \in Threads
      PROVE  TokenHeldBy(t)' /\ LogoutOf(t)' /\ OutOf(t)' /\ SessionOf(t)'
  <2>0. /\ TokenHeldBy(t) /\ LogoutOf(t) /\ OutOf(t) /\ SessionOf(t)
        /\ PlaceOf(t) /\ WaitOf(t) /\ PastOf(t)
    BY DEF TokensInv, ThreadInv, TypeInv, PlaceInv, WaitInv, PastInv
  <2>1. TokenHeldBy(t)'
    BY <1>0, <2>0 DEF TokenHeldBy, FreshThread, Born, Unborn
  <2>2. CASE call[t] # w
    <3>1. pc[t] \in TokenCalls => tokenOp'[call[t]] = tokenOp[call[t]]
      BY <1>4, <2>0, <2>2 DEF WaitOf
    <3>2. QED
      BY <1>0, <2>0, <2>1, <3>1 DEF LogoutOf, OutOf, SessionOf, Dead, TokenCalls
  <2>3. CASE call[t] = w
    <3>0. pc[t] \in {"token", "check", "logout"}
      <4>1. pc[t] \in TokenCalls
        BY <2>3, WaitShape
      <4>2. pc[t] # "save"
        BY <1>1, <2>0, <2>3, KindsDiffer DEF WaitOf
      <4>3. QED BY <4>1, <4>2 DEF TokenCalls
    <3>1. LogoutOf(t)'
      <4> SUFFICES ASSUME handler[t] = "logout", pc[t] = "logout", p.found = {},
                          p.stage = "answer" \/ (p.stage = "read" /\ cookie[t] \notin p.todo)
                   PROVE  Dead(cookie[t])
        BY <1>0, <2>3, <3>0 DEF LogoutOf, Dead
      <4>1. o.query = ByUuid(cookie[t]) /\ cookie[t] \in TokenUuids /\ cookie[t] \in leaving
        BY <2>0, <2>3 DEF WaitOf, PlaceOf, TokenHeldBy
      <4>2. /\ o.stage = "answer" \/ (o.stage = "read" /\ cookie[t] \notin o.todo)
            /\ o.found = {}
            => Dead(cookie[t])
        BY <2>0, <2>3 DEF LogoutOf
      <4>3. CASE p.stage = "read" /\ \A k \in TokenUuids : tokens[k] # NoRecord => k \in p.todo
        BY <4>1, <4>3 DEF Dead
      <4>4. ASSUME NEW k \in o.todo, o.stage = "read", p.stage = "read", p.todo = o.todo \ {k},
                   o.found \subseteq p.found,
                   tokens[k] \in Token /\ o.query = ByUuid(tokens[k].uuid) => p.found # {}
            PROVE  Dead(cookie[t])
        <5>1. CASE cookie[t] \notin o.todo
          BY <4>2, <4>4, <5>1
        <5>2. CASE cookie[t] \in o.todo
          <6>1. k = cookie[t]
            BY <4>4, <5>2
          <6>2. tokens[k] # NoRecord => tokens[k] \in Token /\ tokens[k].uuid = k
            BY <1>0, <4>1, <6>1 DEF TypeOK, TokensInv, TokenInv
          <6>3. tokens[k] = NoRecord
            BY <4>1, <4>4, <6>1, <6>2
          <6>4. QED BY <4>1, <6>1, <6>3 DEF Dead
        <5>3. QED BY <5>1, <5>2
      <4>5. CASE o.stage = "read" /\ o.todo = {} /\ (p.found = {} => o.found = {})
        BY <4>2, <4>5
      <4>6. QED BY <4>3, <4>4, <4>5 DEF TokenReads
    <3>2. OutOf(t)'
      <4>1. ASSUME NEW r \in p.found, r[2].active, pc[t] \in {"token", "check"}
            PROVE  r[1] \notin before[t].out
        <5>1. CASE r \in o.found
          BY <2>0, <2>3, <4>1, <5>1 DEF OutOf
        <5>2. CASE r[2] = tokens[r[1]] /\ tokens[r[1]] \in Token
          <6>1. ~ Dead(r[1])
            BY <4>1, <5>2 DEF Dead
          <6>2. r[1] \notin known.out
            BY <6>1 DEF TokensInv, TokenInv
          <6>3. QED BY <2>0, <6>2 DEF PastOf
        <5>3. QED BY <1>2, <4>1, <5>1, <5>2
      <4>2. QED BY <1>0, <2>3, <3>0, <4>1 DEF OutOf
    <3>3. SessionOf(t)'
      <4> SUFFICES ASSUME NEW k \in before[t].tokens \ leaving,
                          \/ pc[t] = "token" /\ tokens[k].user_uuid = user[t].uuid
                          \/ pc[t] = "check" /\ cookie[t] = k,
                          p.found = {}
                   PROVE  p.stage = "list" \/ (p.stage = "read" /\ k \in p.todo)
        BY <1>0, <2>3 DEF SessionOf
      <4>1. k \in TokenUuids /\ tokens[k] # NoRecord /\ tokens[k].active
        BY <1>0, <2>0 DEF PastOf, TypeOK, Past, TokensInv, TokenInv, Born
      <4>2. tokens[k] \in Token /\ tokens[k].uuid = k
        BY <1>0, <4>1 DEF TypeOK, TokensInv, TokenInv
      <4>3. o.query = ByUuid(k) \/ o.query = ActiveOf(tokens[k].user_uuid)
        BY <2>0, <2>3 DEF WaitOf
      <4>4. o.found = {} => o.stage = "list" \/ (o.stage = "read" /\ k \in o.todo)
        BY <2>0, <2>3 DEF SessionOf
      <4>5. CASE p.stage = "read" /\ \A j \in TokenUuids : tokens[j] # NoRecord => j \in p.todo
        BY <4>1, <4>5
      <4>6. ASSUME NEW j \in o.todo, o.stage = "read", p.stage = "read", p.todo = o.todo \ {j},
                   o.found \subseteq p.found,
                   /\ tokens[j] \in Token
                   /\ \/ o.query = ByUuid(tokens[j].uuid)
                      \/ o.query = ActiveOf(tokens[j].user_uuid) /\ tokens[j].active
                   => p.found # {}
            PROVE  p.stage = "read" /\ k \in p.todo
        <5>1. k # j
          BY <4>1, <4>2, <4>3, <4>6
        <5>2. k \in o.todo
          BY <4>4, <4>6
        <5>3. QED BY <4>6, <5>1, <5>2
      <4>7. CASE o.stage = "read" /\ o.todo = {} /\ (p.found = {} => o.found = {})
        BY <4>4, <4>7
      <4>8. QED BY <4>5, <4>6, <4>7 DEF TokenReads
    <3>4. QED BY <2>1, <3>1, <3>2, <3>3
  <2>4. QED BY <2>1, <2>2, <2>3
<1>9. QED BY <1>5, <1>6, <1>7, <1>8 DEF TokensInv, ThreadInv

LEMMA WriteTokens ==
    ASSUME TypeInv, TypeInv', TokensInv, NEW w \in TokenWorkers, StepOf(w), TokenWrites(w)
    PROVE  TokensInv'
<1> DEFINE o == tokenOp[w]
           p == tokenOp'[w]
<1>c. PICK c : c = tokenOp[w].key
  OBVIOUS
<1>0. /\ OneCarrier /\ TokenCallOf(w) /\ TypeOK /\ leaving \subseteq made
      /\ UNCHANGED <<handler, pc, call, user, token, cookie, made, known, leaving, before>>
      /\ \A x \in TokenWorkers \ {w} : tokenOp'[x] = tokenOp[x]
  BY DEF StepOf, TokensInv, CallInv, TypeInv, TokenInv
<1>1. /\ o \in TokenUpserts /\ p \in TokenUpserts /\ p.key = c /\ p.payload = o.payload
      /\ c \in TokenUuids /\ o.payload \in Token /\ o.payload # NoRecord
      /\ o.payload.uuid = c /\ c \in made /\ (o.payload.active \/ c \in leaving)
      /\ o.stage = "ok" => Born(c)
      /\ FreshOp(w) => Unborn(c)
  BY <1>0, <1>c DEF TokenWrites, TokenUpserts, TokenCallOf
<1>2. /\ \A k \in TokenUuids \ {c} : tokens'[k] = tokens[k]
      /\ \/ p.stage = "failed" /\ tokens'[c] = tokens[c]
         \/ o.stage = "begun" /\ p.stage = "removed" /\ tokens'[c] = NoRecord
         \/ o.stage = "removed" /\ p.stage = "ok" /\ tokens'[c] = o.payload
  BY <1>0, <1>1, <1>c DEF TokenWrites, TypeOK
\* What a write to the record of c leaves true of the tokens.
<1>3. o.stage \in {"begun", "removed"} /\ o.payload.active => FreshOp(w)
  BY <1>1, <1>c DEF FreshOp
<1>4. ASSUME NEW k \in TokenUuids, Born(k)
      PROVE  Born(k)' /\ (k \notin leaving => tokens'[k] = tokens[k])
  <2>1. CASE k # c
    BY <1>0, <1>2, <1>4, <2>1 DEF Born
  <2>2. CASE k = c
    <3>1. c \in leaving \/ p.stage = "failed"
      BY <1>1, <1>2, <1>3, <1>4, <2>2 DEF Born, Unborn
    <3>2. QED BY <1>0, <1>2, <1>4, <2>2, <3>1 DEF Born
  <2>3. QED BY <2>1, <2>2
<1>5. ASSUME NEW k \in TokenUuids, Dead(k) PROVE Dead(k)'
  <2>1. CASE k # c
    BY <1>0, <1>2, <1>5, <2>1 DEF Dead
  <2>2. CASE k = c
    <3>1. p.stage # "failed" => ~ o.payload.active
      BY <1>1, <1>2, <1>3, <1>5, <2>2 DEF Dead, Unborn
    <3>2. QED BY <1>0, <1>2, <1>5, <2>2, <3>1 DEF Dead
  <2>3. QED BY <2>1, <2>2
<1>6. ASSUME NEW k \in TokenUuids, Unborn(k), FreshOp(w) => k # c PROVE Unborn(k)'
  <2>1. CASE k # c
    BY <1>0, <1>2, <1>6, <2>1 DEF Unborn
  <2>2. CASE k = c
    <3>1. p.stage # "ok"
      BY <1>1, <1>2, <1>3, <1>6, <2>2 DEF Unborn
    <3>2. QED BY <1>0, <1>2, <1>6, <2>2, <3>1 DEF Unborn
  <2>3. QED BY <2>1, <2>2
<1>7. FreshOp(w)' => FreshOp(w) /\ p.stage = "removed"
  BY <1>1, <1>2 DEF FreshOp
<1>8. TokenCallOf(w)'
  <2>1. p.stage = "ok" => Born(c)'
    BY <1>0, <1>1, <1>2 DEF Born
  <2>2. FreshOp(w)' => Unborn(c)'
    BY <1>0, <1>1, <1>2, <1>7 DEF Unborn
  <2>3. (p.stage = "ok" => Born(tokenOp[w].key)') /\ (FreshOp(w)' => Unborn(tokenOp[w].key)')
    BY <1>1, <1>c, <2>1, <2>2 DEF Born, Unborn
  <2>4. p \notin TokenSearches
    BY <1>1, KindsDiffer
  <2>5. QED BY <1>0, <1>1, <2>3, <2>4 DEF TokenCallOf
<1>9. ASSUME NEW x \in TokenWorkers \ {w}
      PROVE  TokenCallOf(x)' /\ (FreshOp(x)' <=> FreshOp(x))
  <2>1. TokenCallOf(x) /\ tokenOp'[x] = tokenOp[x]
    BY <1>0 DEF TokensInv, CallInv
  <2>2. PICK k, f : k = tokenOp[x].key /\ f = tokenOp[x].found
    OBVIOUS
  <2>3. FreshOp(x)' <=> FreshOp(x)
    BY <2>1 DEF FreshOp
  <2>4. tokenOp[x] \in TokenUpserts => k \in TokenUuids
    BY <2>2 DEF TokenUpserts
  <2>5. tokenOp[x] \in TokenUpserts => /\ tokenOp[x].stage = "ok" => Born(k)'
                                       /\ FreshOp(x) => Unborn(k)'
    <3>1. FreshOp(x) /\ FreshOp(w) => k # c
      BY <1>0, <1>c, <2>2 DEF OneCarrier
    <3>2. QED BY <1>4, <1>6, <2>1, <2>2, <2>4, <3>1 DEF TokenCallOf
  <2>6. tokenOp[x] \in TokenSearches => \A r \in f : r[1] \in TokenUuids /\ Born(r[1])'
    BY <1>4, <2>1, <2>2 DEF TokenCallOf, TokenSearches
  <2>7. /\ tokenOp'[x].stage = "ok" /\ tokenOp'[x] \in TokenUpserts => Born(tokenOp[x].key)'
        /\ FreshOp(x)' => Unborn(tokenOp[x].key)'
        /\ tokenOp'[x] \in TokenSearches => \A r \in tokenOp'[x].found : Born(r[1])'
    BY <2>1, <2>2, <2>3, <2>5, <2>6 DEF Born, Unborn, FreshOp
  <2>8. QED BY <1>0, <2>1, <2>3, <2>7 DEF TokenCallOf
<1>10. CallInv'
  BY <1>8, <1>9 DEF CallInv
<1>11. OneCarrier'
  <2>1. \A x \in TokenWorkers : FreshOp(x)' => FreshOp(x) /\ tokenOp'[x].key = tokenOp[x].key
    BY <1>0, <1>1, <1>7, <1>9, <1>c
  <2>2. \A t \in Threads : FreshThread(t)' => FreshThread(t) /\ token'[t] = token[t]
    BY <1>0 DEF FreshThread
  <2>3. QED BY <1>0, <2>1, <2>2 DEF OneCarrier
<1>12. TokenInv'
  <2>1. \A k \in TokenUuids : tokens'[k] # NoRecord =>
            tokens'[k].uuid = k /\ k \in made' /\ (tokens'[k].active \/ k \in leaving')
    BY <1>0, <1>1, <1>2 DEF TokensInv, TokenInv
  <2>2. known.tokens \subseteq TokenUuids /\ known.out \subseteq TokenUuids
    BY <1>0 DEF TypeOK, Past
  <2>3. (\A k \in known.tokens : Born(k)') /\ (\A k \in known.out : Dead(k)')
    BY <1>4, <1>5, <2>2 DEF TokensInv, TokenInv
  <2>4. QED BY <1>0, <2>1, <2>3 DEF TokenInv
<1>13. ASSUME NEW t \in Threads
       PROVE  TokenHeldBy(t)' /\ LogoutOf(t)' /\ OutOf(t)' /\ SessionOf(t)'
  <2>0. /\ TokenHeldBy(t) /\ LogoutOf(t) /\ OutOf(t) /\ SessionOf(t)
        /\ PlaceOf(t) /\ WaitOf(t) /\ PastOf(t)
    BY DEF TokensInv, ThreadInv, TypeInv, PlaceInv, WaitInv, PastInv
  <2>1. PICK k, d : k = token[t].uuid /\ d = cookie[t]
    OBVIOUS
  <2>2. pc[t] \in {"token", "check", "logout"} => tokenOp'[call[t]] = tokenOp[call[t]]
    BY <1>0, <1>1, <2>0, KindsDiffer DEF WaitOf, TokenCalls
  <2>3. token[t] \in Token => k \in TokenUuids
    BY <2>1 DEF Token
  <2>4. TokenHeldBy(t)'
    <3>1. pc[t] = "whose" \/ (pc[t] = "reply" /\ handler[t] # "logout") => Born(k)'
      BY <1>4, <2>0, <2>1, <2>3 DEF TokenHeldBy, PlaceOf
    <3>2. FreshThread(t) => Unborn(k)'
      <4>1. FreshThread(t) => k \in TokenUuids /\ Unborn(k) /\ (FreshOp(w) => k # c)
        BY <1>0, <1>c, <2>0, <2>1, <2>3 DEF TokenHeldBy, PlaceOf, FreshThread, OneCarrier
      <4>2. QED BY <1>6, <4>1
    <3>3. /\ pc[t] = "whose" \/ (pc[t] = "reply" /\ handler[t] # "logout") => Born(token[t].uuid)'
          /\ FreshThread(t) => Unborn(token[t].uuid)'
      BY <1>0, <2>1, <3>1, <3>2 DEF Born, Unborn
    <3>4. QED BY <1>0, <2>0, <3>3 DEF TokenHeldBy, FreshThread
  <2>5. LogoutOf(t)'
    <3> SUFFICES ASSUME handler[t] = "logout",
                        \/ pc[t] = "reply"
                        \/ pc[t] = "save" /\ tokenOp'[call[t]].stage = "ok"
                        \/ /\ pc[t] = "logout"
                           /\ \/ tokenOp'[call[t]].stage = "answer"
                              \/ /\ tokenOp'[call[t]].stage = "read"
                                 /\ cookie[t] \notin tokenOp'[call[t]].todo
                           /\ tokenOp'[call[t]].found = {}
                 PROVE  Dead(d)'
      BY <1>0, <2>1 DEF LogoutOf, Dead
    <3>1. d \in TokenUuids /\ d \in leaving
      BY <2>0, <2>1 DEF PlaceOf, TokenHeldBy
    <3>2. CASE pc[t] \in {"reply", "logout"}
      BY <1>5, <2>0, <2>1, <2>2, <3>1, <3>2 DEF LogoutOf
    <3>3. CASE pc[t] = "save" /\ call[t] # w
      <4>1. tokenOp'[call[t]] = tokenOp[call[t]]
        BY <1>0, <2>0, <3>3 DEF WaitOf, TokenCalls
      <4>2. QED BY <1>5, <2>0, <2>1, <3>1, <3>3, <4>1 DEF LogoutOf
    <3>4. CASE pc[t] = "save" /\ call[t] = w
      <4>1. o.payload = token[t] /\ ~ token[t].active /\ token[t].uuid = d
        BY <2>0, <2>1, <3>4 DEF WaitOf, TokenHeldBy
      <4>2. c = d /\ tokens'[d] = o.payload
        BY <1>1, <1>2, <3>4, <4>1
      <4>3. QED BY <1>0, <3>1, <4>1, <4>2 DEF Dead
    <3>5. QED BY <3>2, <3>3, <3>4
  <2>6. OutOf(t)'
    BY <1>0, <2>0, <2>2 DEF OutOf
  <2>7. SessionOf(t)'
    <3>1. \A j \in before[t].tokens \ leaving : tokens'[j] = tokens[j]
      BY <1>0, <1>4, <2>0 DEF PastOf, TypeOK, Past, TokensInv, TokenInv
    <3>2. QED BY <1>0, <2>0, <2>2, <3>1 DEF SessionOf
  <2>8. QED BY <2>4, <2>5, <2>6, <2>7
<1>14. QED BY <1>10, <1>11, <1>12, <1>13 DEF TokensInv, ThreadInv

LEMMA TokensKept ==
    ASSUME TypeInv, TokensInv, [Next]_vars
    PROVE  TokensInv'
<1>0. TypeInv'
  BY TypeKept
<1>1. CASE DatabaseStep
  <2>0. UNCHANGED <<handler, pc, call, user, token, cookie, made, known, leaving, before>>
    BY <1>1, DatabaseEffect DEF threadVars, history
  <2>1. CASE UsersStay /\ \E w \in TokenWorkers :
                /\ \A x \in TokenWorkers \ {w} : tokenOp'[x] = tokenOp[x]
                /\ TokenWrites(w) \/ TokenReads(w)
    BY <1>0, <2>0, <2>1, ReadTokens, WriteTokens DEF StepOf
  <2>2. CASE TokensStay
    BY <2>0, <2>2
    DEF TokensStay, TokensInv, TokenInv, CallInv, TokenCallOf, OneCarrier, ThreadInv, TokenHeldBy,
        LogoutOf, OutOf, SessionOf, FreshOp, FreshThread, Born, Dead, Unborn
  <2>3. QED BY <1>1, <2>1, <2>2, DatabaseEffect
<1>2. QED BY <1>0, <1>1, StepCases, EndsTokens, HandlerTokens

-----------------------------------------------------------------------------
(* The theorems *)

IInv == TypeInv /\ UserInv /\ FoundUserInv /\ SearchInv /\ TokensInv

LEMMA InitIInv == Init => IInv
<1> SUFFICES ASSUME Init PROVE IInv
  OBVIOUS
<1>1. TypeInv
  BY InitTypeInv
<1>2. UserInv /\ FoundUserInv /\ SearchInv
  BY InitTypeInv, KindsDiffer DEF UserInv, FoundUserInv, SearchInv, Nobody
<1>3. TokensInv
  BY InitTypeInv, KindsDiffer
  DEF TokensInv, TokenInv, CallInv, TokenCallOf, OneCarrier, ThreadInv, TokenHeldBy, LogoutOf, OutOf,
      SessionOf, FreshOp, FreshThread, Nobody
<1>4. QED BY <1>1, <1>2, <1>3 DEF IInv

LEMMA InvariantHolds == Spec => []IInv
<1>1. IInv /\ [Next]_vars => IInv'
  BY TypeKept, UserInvKept, FoundUserInvKept, SearchInvKept, TokensKept DEF IInv
<1>2. QED BY <1>1, InitIInv, PTL DEF Spec

(* The variables keep their types, whatever dies and whoever gives up.     *)
THEOREM TypeCorrect == Spec => []TypeOK
<1>1. IInv => TypeOK
  BY DEF IInv, TypeInv
<1>2. QED BY <1>1, InvariantHolds, PTL

(* A user whose registration or login was answered before is found by each *)
(* later login and registration with the e-mail.                           *)
THEOREM EveryAccountIsFound == Spec => []AccountIsFound
<1>1. IInv => AccountIsFound
  BY FoundByInv DEF IInv
<1>2. QED BY <1>1, InvariantHolds, PTL

(* No login or page that begins after a logout was answered returns or     *)
(* accepts the token, however many handlers and late upserts there are.    *)
THEOREM LogoutIsFinal == Spec => []LoggedOutStaysOut
<1>1. IInv => LoggedOutStaysOut
  BY DEF IInv, TokensInv, ThreadInv, OutOf, LoggedOutStaysOut
<1>2. QED BY <1>1, InvariantHolds, PTL

(* A login makes no second token, and a page refuses none, for a user who  *)
(* was given one before and has not asked to log out.                      *)
THEOREM SessionsLast == Spec => []SessionIsKept
<1>1. ASSUME IInv PROVE SessionIsKept
  <2> SUFFICES ASSUME NEW t \in Threads, NEW k \in TokenUuids,
                      k \in before[t].tokens \ leaving, pc[t] \in TokenCalls,
                      tokenOp[call[t]].stage = "answer",
                      \A r \in tokenOp[call[t]].found : ~ r[2].active,
                      \/ pc[t] = "token" /\ tokens[k].user_uuid = user[t].uuid
                      \/ pc[t] = "check" /\ cookie[t] = k
               PROVE  FALSE
    BY DEF SessionIsKept
  <2>1. PICK r \in tokenOp[call[t]].found : TRUE
    BY <1>1 DEF IInv, TokensInv, ThreadInv, SessionOf
  <2>2. /\ call[t] \in TokenWorkers /\ tokenOp[call[t]] \in TokenSearches
        /\ pc[t] = "token" => tokenOp[call[t]].query = ActiveOf(user[t].uuid)
        /\ pc[t] = "check" => tokenOp[call[t]].query = ByUuid(k)
    BY <1>1 DEF IInv, TypeInv, WaitInv, WaitOf
  <2>3. /\ r[2].active \/ r[1] \in leaving
        /\ tokenOp[call[t]].query = ByUuid(r[1])
               \/ (tokenOp[call[t]].query = ActiveOf(r[2].user_uuid) /\ r[2].active)
    BY <1>1, <2>2 DEF IInv, TokensInv, CallInv, TokenCallOf
  <2>4. ~ r[2].active
    BY <2>1
  <2>5. pc[t] = "check" /\ r[1] = k
    BY <2>2, <2>3, <2>4 DEF ByUuid, ActiveOf
  <2>6. QED BY <2>3, <2>4, <2>5
<1>2. QED BY <1>1, InvariantHolds, PTL
=============================================================================
