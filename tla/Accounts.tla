------------------------------- MODULE Accounts -------------------------------
(***************************************************************************)
(* trycopilot.ai: the handlers that register a user, log in, log out and   *)
(* ask who is logged in, run by the HTTP worker threads of all replicas of *)
(* the web site over the collections "users" and "tokens".                 *)
(*                                                                         *)
(* Each of them is a chain of queries with at most two upserts at its end, *)
(* without a lock or a transaction.  A browser presents a token that it    *)
(* was given, in its cookie, or none.                                      *)
(***************************************************************************)
EXTENDS Naturals, FiniteSets

CONSTANTS
    Threads,      \* the HTTP worker threads of the web site
    UserWorkers,  \* the workers of database-service that serve "users"
    TokenWorkers, \* the ones that serve "tokens"
    Emails,
    Passwords,    \* distinct passwords have distinct hashes
    UserUuids,    \* the uuids of users, all generated
    TokenUuids,   \* the uuids of tokens, all generated
    DatabaseDies, \* whether database-service may die and be restarted
    NoRecord,     \* no record, and no user or token in a handler
    NoCall        \* a thread that does not wait for database-service

User == [uuid : UserUuids, email : Emails, password : Passwords]
Token == [uuid : TokenUuids, user_uuid : UserUuids, active : BOOLEAN]

\* What a form says before a user is found or made.
Form == [email : Emails, password : Passwords]
UserOf(u, f) == [uuid |-> u, email |-> f.email, password |-> f.password]

Handlers == {"none", "register", "login", "logout", "page"}

ASSUME AccountsAssumption ==
    /\ DatabaseDies \in BOOLEAN
    /\ NoRecord \notin User \union Token \union Form
    /\ NoCall \notin UserWorkers \union TokenWorkers
    /\ UserWorkers \intersect TokenWorkers = {}

VARIABLES
    users, userOp,    \* the collection "users" and the calls on it
    tokens, tokenOp,  \* the collection "tokens" and the calls on it
    handler,          \* handler[t]: the handler that thread t runs
    pc,               \* pc[t]: where it is
    call,             \* call[t]: the database worker that t waits for
    user,             \* user[t]: the form, then the user that t has found or made
    token,            \* token[t]: the token that t has found or made
    cookie,           \* cookie[t]: the token_uuid of the request
    made,             \* history: the uuids that were generated
    known,            \* history: the e-mails, tokens and logouts that were answered
    leaving,          \* history: the tokens whose logout was asked for
    before            \* history: known when the handler of t began

usersVars == <<users, userOp>>
tokensVars == <<tokens, tokenOp>>
threadVars == <<handler, pc, call, user, token, cookie>>
history == <<made, known, leaving, before>>
vars == <<usersVars, tokensVars, threadVars, history>>

ByEmail(e) == <<"email", e>>
ByUuid(u) == <<"uuid", u>>
ActiveOf(u) == <<"active", u>>

UserQueries == {ByEmail(e) : e \in Emails} \union {ByUuid(u) : u \in UserUuids}
TokenQueries == {ByUuid(k) : k \in TokenUuids} \union {ActiveOf(u) : u \in UserUuids}

\* where email == e; where uuid == u.  any() and first() of what is found.
Users == INSTANCE RecordStore WITH
    val <- users, op <- userOp, Workers <- UserWorkers,
    Keys <- UserUuids, Payloads <- User, Absent <- NoRecord,
    Queries <- UserQueries,
    Match <- [q \in UserQueries |->
                {x \in User : q = ByEmail(x.email) \/ q = ByUuid(x.uuid)}],
    Rank <- [q \in UserQueries |-> [x \in User |-> 0]],
    Limit <- [q \in UserQueries |-> 1]

\* where uuid == k; where user_uuid == u, where active == true.
Tokens == INSTANCE RecordStore WITH
    val <- tokens, op <- tokenOp, Workers <- TokenWorkers,
    Keys <- TokenUuids, Payloads <- Token, Absent <- NoRecord,
    Queries <- TokenQueries,
    Match <- [q \in TokenQueries |->
                {x \in Token : q = ByUuid(x.uuid) \/ (q = ActiveOf(x.user_uuid) /\ x.active)}],
    Rank <- [q \in TokenQueries |-> [x \in Token |-> 0]],
    Limit <- [q \in TokenQueries |-> 1]

UserCalls == {"exists", "insert", "login", "whose"}
TokenCalls == {"token", "check", "logout", "save"}
Places == UserCalls \union TokenCalls \union
          {"idle", "create", "store", "reply"}

Past == [emails : SUBSET Emails, tokens : SUBSET TokenUuids, out : SUBSET TokenUuids]

Nobody == [emails |-> {}, tokens |-> {}, out |-> {}]

TypeOK ==
    /\ users \in [UserUuids -> User \union {NoRecord}]
    /\ tokens \in [TokenUuids -> Token \union {NoRecord}]
    /\ handler \in [Threads -> Handlers]
    /\ pc \in [Threads -> Places]
    /\ call \in [Threads -> UserWorkers \union TokenWorkers \union {NoCall}]
    /\ user \in [Threads -> User \union Form \union {NoRecord}]
    /\ token \in [Threads -> Token \union {NoRecord}]
    /\ cookie \in [Threads -> TokenUuids \union {NoRecord}]
    /\ made \in SUBSET (UserUuids \union TokenUuids)
    /\ known \in Past
    /\ leaving \in SUBSET TokenUuids
    /\ before \in [Threads -> Past]

Init ==
    /\ Users!Init
    /\ Tokens!Init
    /\ handler = [t \in Threads |-> "none"]
    /\ pc = [t \in Threads |-> "idle"]
    /\ call = [t \in Threads |-> NoCall]
    /\ user = [t \in Threads |-> NoRecord]
    /\ token = [t \in Threads |-> NoRecord]
    /\ cookie = [t \in Threads |-> NoRecord]
    /\ made = {}
    /\ known = Nobody
    /\ leaving = {}
    /\ before = [t \in Threads |-> Nobody]

\* The handler of t begins, waits for database-service, goes on, is over.
Begin(t, h) ==
    /\ pc[t] = "idle"
    /\ handler' = [handler EXCEPT ![t] = h]
    /\ before' = [before EXCEPT ![t] = known]

Wait(t, w, place) ==
    /\ pc' = [pc EXCEPT ![t] = place]
    /\ call' = [call EXCEPT ![t] = w]

WaitNext(t, w, place) ==
    /\ Wait(t, w, place)
    /\ UNCHANGED <<handler, before>>

GoTo(t, place) ==
    /\ pc' = [pc EXCEPT ![t] = place]
    /\ call' = [call EXCEPT ![t] = NoCall]
    /\ UNCHANGED <<handler, before>>

Finish(t) ==
    /\ handler' = [handler EXCEPT ![t] = "none"]
    /\ pc' = [pc EXCEPT ![t] = "idle"]
    /\ call' = [call EXCEPT ![t] = NoCall]
    /\ user' = [user EXCEPT ![t] = NoRecord]
    /\ token' = [token EXCEPT ![t] = NoRecord]
    /\ cookie' = [cookie EXCEPT ![t] = NoRecord]
    /\ before' = [before EXCEPT ![t] = Nobody]

\* The records that the query of t has returned.
UsersFound(t) == {r[2] : r \in userOp[call[t]].found}
TokensFound(t) == {r[2] : r \in tokenOp[call[t]].found}

\* Mutant of NewToken: the token belongs to the e-mail.
NewTokenOfEmail(t, u) ==
    \E k \in TokenUuids \ made :
        /\ token' = [token EXCEPT
                      ![t] = [uuid |-> k, user_uuid |-> user[t].email, active |-> TRUE]]
        /\ made' = made \union {k}

\* generate_uuid_v4.
NewToken(t, u) ==
    \E k \in TokenUuids \ made :
        /\ token' = [token EXCEPT ![t] = [uuid |-> k, user_uuid |-> u, active |-> TRUE]]
        /\ made' = made \union {k}

-----------------------------------------------------------------------------

\* PostRegisterPage and PostLoginPage, of a browser that has no cookie.
FormCall(t, w, f, h, place) ==
    /\ Begin(t, h)
    /\ Users!BeginQuery(w, ByEmail(f.email))
    /\ Wait(t, w, place)
    /\ user' = [user EXCEPT ![t] = f]
    /\ UNCHANGED <<tokensVars, token, cookie, made, known, leaving>>

-----------------------------------------------------------------------------
(* CreateUserRPC, then the token of PostRegisterPage                       *)

\* User with this email already exists.
UserExists(t) ==
    /\ pc[t] = "exists"
    /\ UsersFound(t) # {}
    /\ Users!EndQuery(call[t])
    /\ Finish(t)
    /\ UNCHANGED <<tokensVars, made, known, leaving>>

EmailIsFree(t) ==
    /\ pc[t] = "exists"
    /\ UsersFound(t) = {}
    /\ Users!EndQuery(call[t])
    /\ \E u \in UserUuids \ made :
        /\ user' = [user EXCEPT ![t] = UserOf(u, @)]
        /\ made' = made \union {u}
    /\ GoTo(t, "create")
    /\ UNCHANGED <<tokensVars, token, cookie, known, leaving>>

InsertUser(t, w) ==
    /\ pc[t] = "create"
    /\ Users!BeginUpsert(w, user[t].uuid, user[t])
    /\ WaitNext(t, w, "insert")
    /\ UNCHANGED <<tokensVars, user, token, cookie, made, known, leaving>>

\* The token is made without another query.
UserInserted(t, w) ==
    /\ pc[t] = "insert"
    /\ userOp[call[t]].stage = "ok"
    /\ Users!EndUpsert(call[t])
    /\ NewToken(t, user[t].uuid)
    /\ Tokens!BeginUpsert(w, token'[t].uuid, token'[t])
    /\ WaitNext(t, w, "save")
    /\ UNCHANGED <<user, cookie, known, leaving>>

\* Mutant of UserNotInserted: the failure is not looked at.
UserTakenForInserted(t) ==
    /\ pc[t] = "insert"
    /\ userOp[call[t]].stage = "failed"
    /\ Users!EndUpsert(call[t])
    /\ NewToken(t, user[t].uuid)
    /\ GoTo(t, "store")
    /\ UNCHANGED <<tokensVars, user, cookie, known, leaving>>

UserNotInserted(t) ==
    /\ pc[t] = "insert"
    /\ userOp[call[t]].stage = "failed"
    /\ Users!EndUpsert(call[t])
    /\ Finish(t)
    /\ UNCHANGED <<tokensVars, made, known, leaving>>

-----------------------------------------------------------------------------
(* LoginRPC *)

\* No such user, or not this password.
LoginRefused(t) ==
    /\ pc[t] = "login"
    /\ \A u \in UsersFound(t) : u.password # user[t].password
    /\ Users!EndQuery(call[t])
    /\ Finish(t)
    /\ UNCHANGED <<tokensVars, made, known, leaving>>

UserFound(t, w) ==
    /\ pc[t] = "login"
    /\ \E u \in UsersFound(t) :
        /\ u.password = user[t].password
        /\ user' = [user EXCEPT ![t] = u]
        /\ Tokens!BeginQuery(w, ActiveOf(u.uuid))
    /\ Users!EndQuery(call[t])
    /\ WaitNext(t, w, "token")
    /\ UNCHANGED <<token, cookie, made, known, leaving>>

ExistingToken(t) ==
    /\ pc[t] = "token"
    /\ \E k \in TokensFound(t) : token' = [token EXCEPT ![t] = k]
    /\ Tokens!EndQuery(call[t])
    /\ GoTo(t, "reply")
    /\ UNCHANGED <<usersVars, user, cookie, made, known, leaving>>

NoExistingToken(t) ==
    /\ pc[t] = "token"
    /\ TokensFound(t) = {}
    /\ Tokens!EndQuery(call[t])
    /\ NewToken(t, user[t].uuid)
    /\ GoTo(t, "store")
    /\ UNCHANGED <<usersVars, user, cookie, known, leaving>>

-----------------------------------------------------------------------------
(* GetAuthenticatedUser, in LOGGED_IN_USERS_ONLY of PostLogoutPage and of    *)
(* the other pages                                                         *)

PageCall(t, w, h, k) ==
    /\ Begin(t, h)
    /\ k \in known.tokens
    /\ Tokens!BeginQuery(w, ByUuid(k))
    /\ Wait(t, w, "check")
    /\ cookie' = [cookie EXCEPT ![t] = k]
    /\ leaving' = IF h = "logout" THEN leaving \union {k} ELSE leaving
    /\ UNCHANGED <<usersVars, user, token, made, known>>

\* No such token, or it is inactive.
NotLoggedIn(t) ==
    /\ pc[t] = "check"
    /\ \A k \in TokensFound(t) : ~ k.active
    /\ Tokens!EndQuery(call[t])
    /\ Finish(t)
    /\ UNCHANGED <<usersVars, made, known, leaving>>

TokenIsActive(t, w) ==
    /\ pc[t] = "check"
    /\ \E k \in TokensFound(t) :
        /\ k.active
        /\ token' = [token EXCEPT ![t] = k]
        /\ Users!BeginQuery(w, ByUuid(k.user_uuid))
    /\ Tokens!EndQuery(call[t])
    /\ WaitNext(t, w, "whose")
    /\ UNCHANGED <<user, cookie, made, known, leaving>>

PageUser(t) ==
    /\ pc[t] = "whose"
    /\ handler[t] = "page" \/ UsersFound(t) = {}
    /\ Users!EndQuery(call[t])
    /\ IF UsersFound(t) = {}
       THEN Finish(t)
       ELSE /\ \E u \in UsersFound(t) : user' = [user EXCEPT ![t] = u]
            /\ GoTo(t, "reply")
            /\ UNCHANGED <<token, cookie>>
    /\ UNCHANGED <<tokensVars, made, known, leaving>>

-----------------------------------------------------------------------------
(* LogoutRPC *)

LogoutUser(t, w) ==
    /\ pc[t] = "whose"
    /\ handler[t] = "logout"
    /\ \E u \in UsersFound(t) : user' = [user EXCEPT ![t] = u]
    /\ Users!EndQuery(call[t])
    /\ Tokens!BeginQuery(w, ByUuid(cookie[t]))
    /\ WaitNext(t, w, "logout")
    /\ UNCHANGED <<token, cookie, made, known, leaving>>

\* PostLogoutPage takes a token that is not found for logged out.
TokenGone(t) ==
    /\ pc[t] = "logout"
    /\ TokensFound(t) = {}
    /\ Tokens!EndQuery(call[t])
    /\ GoTo(t, "reply")
    /\ UNCHANGED <<usersVars, user, token, cookie, made, known, leaving>>

\* Mutant of Deactivate: the token is stored as it was.
LeaveActive(t) ==
    /\ pc[t] = "logout"
    /\ \E k \in TokensFound(t) : token' = [token EXCEPT ![t] = k]
    /\ Tokens!EndQuery(call[t])
    /\ GoTo(t, "store")
    /\ UNCHANGED <<usersVars, user, cookie, made, known, leaving>>

Deactivate(t) ==
    /\ pc[t] = "logout"
    /\ \E k \in TokensFound(t) :
        token' = [token EXCEPT ![t] = [k EXCEPT !.active = FALSE]]
    /\ Tokens!EndQuery(call[t])
    /\ GoTo(t, "store")
    /\ UNCHANGED <<usersVars, user, cookie, made, known, leaving>>

-----------------------------------------------------------------------------
(* The end of the handlers *)

\* Mutant of StoreToken: the answer does not wait for the upsert.
StoreLater(t, w) ==
    /\ pc[t] = "store"
    /\ Tokens!BeginUpsert(w, token[t].uuid, token[t])
    /\ GoTo(t, "reply")
    /\ UNCHANGED <<usersVars, user, token, cookie, made, known, leaving>>

StoreToken(t, w) ==
    /\ pc[t] = "store"
    /\ Tokens!BeginUpsert(w, token[t].uuid, token[t])
    /\ WaitNext(t, w, "save")
    /\ UNCHANGED <<usersVars, user, token, cookie, made, known, leaving>>

TokenStored(t) ==
    /\ pc[t] = "save"
    /\ tokenOp[call[t]].stage = "ok"
    /\ Tokens!EndUpsert(call[t])
    /\ GoTo(t, "reply")
    /\ UNCHANGED <<usersVars, user, token, cookie, made, known, leaving>>

TokenNotStored(t) ==
    /\ pc[t] = "save"
    /\ tokenOp[call[t]].stage = "failed"
    /\ Tokens!EndUpsert(call[t])
    /\ Finish(t)
    /\ UNCHANGED <<usersVars, made, known, leaving>>

\* The browser receives its cookie, the page, or that it is logged out.
Reply(t) ==
    /\ pc[t] = "reply"
    /\ known' = IF handler[t] = "logout"
                THEN [known EXCEPT !.out = @ \union {cookie[t]}]
                ELSE [known EXCEPT !.emails = @ \union {user[t].email},
                                   !.tokens = @ \union {token[t].uuid}]
    /\ Finish(t)
    /\ UNCHANGED <<usersVars, tokensVars, made, leaving>>

\* An upsert takes too long, the replica dies, or the browser is gone when the
\* answer comes.  A handler that ends before it writes has done nothing.
Abort(t) ==
    /\ pc[t] \in {"insert", "save", "reply"}
    /\ Finish(t)
    /\ UNCHANGED <<usersVars, tokensVars, made, known, leaving>>

-----------------------------------------------------------------------------
(* database-service *)

DatabaseStep ==
    /\ \/ Users!Internal /\ UNCHANGED tokensVars
       \/ Tokens!Internal /\ UNCHANGED usersVars
    /\ UNCHANGED <<threadVars, history>>

\* The answer to an upsert that its caller gave up.
UserUnheard(w) ==
    /\ \A t \in Threads : call[t] # w
    /\ Users!EndUpsert(w)
    /\ UNCHANGED <<tokensVars, threadVars, history>>

TokenUnheard(w) ==
    /\ \A t \in Threads : call[t] # w
    /\ Tokens!EndUpsert(w)
    /\ UNCHANGED <<usersVars, threadVars, history>>

\* Every handler that waits for database-service gets an error.
DatabaseCrash ==
    LET ends(f, none) == [t \in Threads |-> IF call[t] # NoCall THEN none ELSE f[t]]
    IN  /\ DatabaseDies
        /\ Users!Crash
        /\ Tokens!Crash
        /\ handler' = ends(handler, "none")
        /\ pc' = ends(pc, "idle")
        /\ call' = [t \in Threads |-> NoCall]
        /\ user' = ends(user, NoRecord)
        /\ token' = ends(token, NoRecord)
        /\ cookie' = ends(cookie, NoRecord)
        /\ before' = ends(before, Nobody)
        /\ UNCHANGED <<made, known, leaving>>

Next ==
    \/ \E t \in Threads, w \in UserWorkers :
        \/ \E f \in Form :
            \/ FormCall(t, w, f, "register", "exists")
            \/ FormCall(t, w, f, "login", "login")
        \/ InsertUser(t, w)
        \/ TokenIsActive(t, w)
    \/ \E t \in Threads, w \in TokenWorkers :
        \/ \E h \in {"logout", "page"}, k \in TokenUuids : PageCall(t, w, h, k)
        \/ UserInserted(t, w)
        \/ UserFound(t, w)
        \/ LogoutUser(t, w)
        \/ StoreToken(t, w)
    \/ \E t \in Threads :
        \/ UserExists(t)
        \/ EmailIsFree(t)
        \/ UserNotInserted(t)
        \/ LoginRefused(t)
        \/ ExistingToken(t)
        \/ NoExistingToken(t)
        \/ NotLoggedIn(t)
        \/ PageUser(t)
        \/ TokenGone(t)
        \/ Deactivate(t)
        \/ TokenStored(t)
        \/ TokenNotStored(t)
        \/ Reply(t)
        \/ Abort(t)
    \/ DatabaseStep
    \/ \E w \in UserWorkers : UserUnheard(w)
    \/ \E w \in TokenWorkers : TokenUnheard(w)
    \/ DatabaseCrash

Spec == Init /\ [][Next]_vars

-----------------------------------------------------------------------------

(* Once a browser was told that it is logged out, no login or page that    *)
(* begins afterwards returns or accepts its token: not from a login that   *)
(* raced with the logout, from a second logout, from an upsert that went   *)
(* on after its caller had given up, or from the moment in which the       *)
(* record is missing.                                                      *)
LoggedOutStaysOut ==
    \A t \in Threads :
        /\ pc[t] = "reply"
        /\ handler[t] \in {"login", "page"}
        => token[t].uuid \notin before[t].out

(* A login makes a new token only when the user has none that an answer    *)
(* gave out before the login began and that nobody asked to log out, and a *)
(* page refuses no such token.                                             *)
SessionIsKept ==
    \A t \in Threads, k \in TokenUuids :
        /\ k \in before[t].tokens \ leaving
        /\ pc[t] \in TokenCalls
        /\ tokenOp[call[t]].stage = "answer"
        /\ \A r \in tokenOp[call[t]].found : ~ r[2].active
        => /\ pc[t] = "token" => tokens[k].user_uuid # user[t].uuid
           /\ pc[t] = "check" => cookie[t] # k

(* A user whose registration or login was answered before is found by each *)
(* later login and registration with the e-mail, so a second user with the *)
(* same e-mail comes only from registrations that overlap.                 *)
AccountIsFound ==
    \A t \in Threads :
        /\ pc[t] \in {"exists", "login"}
        /\ userOp[call[t]].stage = "answer"
        /\ userOp[call[t]].found = {}
        => user[t].email \notin before[t].emails
=============================================================================
