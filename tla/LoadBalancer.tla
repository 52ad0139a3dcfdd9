----------------------------- MODULE LoadBalancer -----------------------------
(***************************************************************************)
(* net/load/balancer: ProxyHandler, the cache of downstream clients and    *)
(* the thread that refreshes it, over the record that the thread of        *)
(* service-registry writes.                                                *)
(*                                                                         *)
(* DiscoverDownstreamClients runs in the discovery thread, and in any      *)
(* handler that finds the cache empty; only the thread stores what it      *)
(* found.  A client is the replica that it reaches: its load, reported by  *)
(* the replica itself, decides which of the clients of a service is picked *)
(* and may be anything, so the choice is left open.                        *)
(***************************************************************************)

CONSTANTS
    Handlers,    \* the HTTP worker threads of the load balancer
    Replicas,    \* the containers whose names match a service
    Services,    \* the services of the routing table
    ServiceOf,   \* ServiceOf[r]: the service whose name r matches
    Discoverer,  \* the discovery thread
    NoService,   \* a host without a route
    NoReplica    \* no client

ASSUME BalancerAssumption ==
    /\ ServiceOf \in [Replicas -> Services]
    /\ Discoverer \notin Handlers
    /\ NoService \notin Services
    /\ NoReplica \notin Replicas

VARIABLES
    up,        \* the replicas that answer /health/
    registry,  \* the collection "services": one record, or none while an
               \*   upsert has it truncated
    keeper,    \* the thread of service-registry: where it is, what it saw
    cache,     \* cached_clients_
    pc,        \* pc[a]: where the handler or the thread is
    todo,      \* todo[a]: the entries that its discovery has yet to probe
    clients,   \* clients[a]: the clients that it has discovered, or read
    target,    \* target[h]: the service that the host of h's request names
    picked,    \* picked[h]: the client that h proxies to
    steady,    \* history: steady[a]: the replicas that were registered when
               \*   the discovery behind clients[a] began, and up since then
    cachedSteady \* history: the same for the cache

envVars == <<up, registry, keeper>>
requestVars == <<target, picked>>
steadyVars == <<steady, cachedSteady>>
balancerVars == <<envVars, cache, pc, todo, clients, requestVars, steadyVars>>

Actors == Handlers \union {Discoverer}

BalancerTypeOK ==
    /\ up \in SUBSET Replicas
    /\ registry \subseteq SUBSET Replicas
    /\ \A R, S \in registry : R = S
    /\ keeper \in [pc : {"observe", "upsert", "put"}, seen : SUBSET Replicas]
    /\ cache \in SUBSET Replicas
    /\ pc \in [Actors -> {"idle", "lookup", "registry", "probe", "pick", "proxy",
                          "refuse", "store"}]
    /\ todo \in [Actors -> SUBSET Replicas]
    /\ clients \in [Actors -> SUBSET Replicas]
    /\ target \in [Handlers -> Services \union {NoService}]
    /\ picked \in [Handlers -> Replicas \union {NoReplica}]
    /\ steady \in [Actors -> SUBSET Replicas]
    /\ cachedSteady \in SUBSET Replicas

BalancerInit ==
    /\ up \in SUBSET Replicas
    /\ registry = {}
    /\ keeper = [pc |-> "observe", seen |-> {}]
    /\ cache = {}
    /\ pc = [a \in Actors |-> "idle"]
    /\ todo = [a \in Actors |-> {}]
    /\ clients = [a \in Actors |-> {}]
    /\ target = [h \in Handlers |-> NoService]
    /\ picked = [h \in Handlers |-> NoReplica]
    /\ steady = [a \in Actors |-> {}]
    /\ cachedSteady = {}

-----------------------------------------------------------------------------
(* The replicas *)

Start(r) ==
    /\ r \notin up
    /\ up' = up \union {r}
    /\ UNCHANGED <<registry, keeper, cache, pc, todo, clients, requestVars, steadyVars>>

Stop(r) ==
    /\ r \in up
    /\ up' = up \ {r}
    /\ steady' = [a \in Actors |-> steady[a] \ {r}]
    /\ cachedSteady' = cachedSteady \ {r}
    /\ UNCHANGED <<registry, keeper, cache, pc, todo, clients, requestVars>>

-----------------------------------------------------------------------------
(* service-registry: StartDiscoveryThread *)

\* docker lists the containers that run, those that do not answer included.
Observe ==
    /\ keeper.pc = "observe"
    /\ \E S \in SUBSET Replicas :
        /\ up \subseteq S
        /\ keeper' = [pc |-> "upsert", seen |-> S]
    /\ UNCHANGED <<up, registry, cache, pc, todo, clients, requestVars, steadyVars>>

Remove ==
    /\ keeper.pc = "upsert"
    /\ registry' = {}
    /\ keeper' = [keeper EXCEPT !.pc = "put"]
    /\ UNCHANGED <<up, cache, pc, todo, clients, requestVars, steadyVars>>

Put ==
    /\ keeper.pc = "put"
    /\ registry' = {keeper.seen}
    /\ keeper' = [pc |-> "observe", seen |-> {}]
    /\ UNCHANGED <<up, cache, pc, todo, clients, requestVars, steadyVars>>

\* The upsert fails, and is only logged.
SaveFails ==
    /\ keeper.pc = "upsert"
    /\ keeper' = [pc |-> "observe", seen |-> {}]
    /\ UNCHANGED <<up, registry, cache, pc, todo, clients, requestVars, steadyVars>>

-----------------------------------------------------------------------------
(* RefreshDiscoveryLoop *)

\* Mutant of Clear: the cache is kept until it is replaced.
KeepCache ==
    /\ pc[Discoverer] = "idle"
    /\ pc' = [pc EXCEPT ![Discoverer] = "lookup"]
    /\ UNCHANGED <<envVars, cache, todo, clients, requestVars, steadyVars>>

Clear ==
    /\ pc[Discoverer] = "idle"
    /\ pc' = [pc EXCEPT ![Discoverer] = "lookup"]
    /\ cache' = {}
    /\ cachedSteady' = {}
    /\ UNCHANGED <<envVars, todo, clients, requestVars, steady>>

Store ==
    /\ pc[Discoverer] = "store"
    /\ pc' = [pc EXCEPT ![Discoverer] = "idle"]
    /\ cache' = clients[Discoverer]
    /\ cachedSteady' = steady[Discoverer]
    /\ clients' = [clients EXCEPT ![Discoverer] = {}]
    /\ steady' = [steady EXCEPT ![Discoverer] = {}]
    /\ UNCHANGED <<envVars, todo, requestVars>>

-----------------------------------------------------------------------------
(* DiscoverDownstreamClients *)

\* Mutant of Found: the thread does not store.
FoundByThread(a) == IF a = Discoverer THEN "done" ELSE "pick"

\* Where the caller goes on with the clients.
Found(a) == IF a = Discoverer THEN "store" ELSE "pick"

LookUp(a) ==
    /\ pc[a] = "lookup"
    /\ IF cache = {}
       THEN /\ pc' = [pc EXCEPT ![a] = "registry"]
            /\ UNCHANGED <<clients, steady>>
       ELSE /\ pc' = [pc EXCEPT ![a] = Found(a)]
            /\ clients' = [clients EXCEPT ![a] = cache]
            /\ steady' = [steady EXCEPT ![a] = cachedSteady]
    /\ UNCHANGED <<envVars, cache, todo, requestVars, cachedSteady>>

\* Mutant of ReadRegistry: a missing record is an empty one.
MissingIsEmpty(a) ==
    LET R == UNION registry
    IN  /\ pc[a] = "registry"
        /\ pc' = [pc EXCEPT ![a] = "probe"]
        /\ todo' = [todo EXCEPT ![a] = R]
        /\ steady' = [steady EXCEPT ![a] = R \intersect up]
        /\ UNCHANGED <<envVars, cache, clients, requestVars, cachedSteady>>

ReadRegistry(a) ==
    /\ pc[a] = "registry"
    /\ \E R \in registry :
        /\ todo' = [todo EXCEPT ![a] = R]
        /\ steady' = [steady EXCEPT ![a] = R \intersect up]
    /\ pc' = [pc EXCEPT ![a] = "probe"]
    /\ UNCHANGED <<envVars, cache, clients, requestVars, cachedSteady>>

\* The registry has no record, or database-service does not answer: the request
\* ends with an error, and the thread leaves the cache empty and sleeps.
RegistryFails(a) ==
    /\ pc[a] = "registry"
    /\ pc' = [pc EXCEPT ![a] = "idle"]
    /\ UNCHANGED <<envVars, cache, todo, clients, requestVars, steadyVars>>

\* Mutant of Probe: the first entry that is not healthy ends the search.
StopAtUnhealthy(a, r) ==
    /\ pc[a] = "probe"
    /\ r \in todo[a]
    /\ todo' = [todo EXCEPT ![a] = IF r \in up THEN @ \ {r} ELSE {}]
    /\ clients' = [clients EXCEPT ![a] = IF r \in up THEN @ \union {r} ELSE @]
    /\ UNCHANGED <<envVars, cache, pc, requestVars, steadyVars>>

\* The health check decides; a load that cannot be fetched counts as zero.
Probe(a, r) ==
    /\ pc[a] = "probe"
    /\ r \in todo[a]
    /\ todo' = [todo EXCEPT ![a] = @ \ {r}]
    /\ clients' = [clients EXCEPT ![a] = IF r \in up THEN @ \union {r} ELSE @]
    /\ UNCHANGED <<envVars, cache, pc, requestVars, steadyVars>>

EndDiscovery(a) ==
    /\ pc[a] = "probe"
    /\ todo[a] = {}
    /\ pc' = [pc EXCEPT ![a] = Found(a)]
    /\ UNCHANGED <<envVars, cache, todo, clients, requestVars, steadyVars>>

-----------------------------------------------------------------------------
(* ProxyHandler *)

Accept(h, s) ==
    /\ pc[h] = "idle"
    /\ pc' = [pc EXCEPT ![h] = "lookup"]
    /\ target' = [target EXCEPT ![h] = s]
    /\ UNCHANGED <<envVars, cache, todo, clients, picked, steadyVars>>

Downstreams(h) == {r \in clients[h] : ServiceOf[r] = target[h]}

\* Any of the clients of the service may be the least loaded one.
Pick(h) ==
    /\ pc[h] = "pick"
    /\ \E r \in Downstreams(h) : picked' = [picked EXCEPT ![h] = r]
    /\ pc' = [pc EXCEPT ![h] = "proxy"]
    /\ UNCHANGED <<envVars, cache, todo, clients, target, steadyVars>>

\* 503: no downstream clients available for the service.
Unavailable(h) ==
    /\ pc[h] = "pick"
    /\ target[h] # NoService
    /\ Downstreams(h) = {}
    /\ pc' = [pc EXCEPT ![h] = "refuse"]
    /\ UNCHANGED <<envVars, cache, todo, clients, requestVars, steadyVars>>

\* 404 for a host without a route, 503, or what ProxyToDownstream returned.
Answer(h) ==
    /\ pc[h] \in {"proxy", "refuse"} \/ (pc[h] = "pick" /\ target[h] = NoService)
    /\ pc' = [pc EXCEPT ![h] = "idle"]
    /\ clients' = [clients EXCEPT ![h] = {}]
    /\ target' = [target EXCEPT ![h] = NoService]
    /\ picked' = [picked EXCEPT ![h] = NoReplica]
    /\ steady' = [steady EXCEPT ![h] = {}]
    /\ UNCHANGED <<envVars, cache, todo, cachedSteady>>

-----------------------------------------------------------------------------

Discovery(a) ==
    \/ LookUp(a)
    \/ ReadRegistry(a)
    \/ RegistryFails(a)
    \/ \E r \in Replicas : Probe(a, r)
    \/ EndDiscovery(a)

Serve(h) == Discovery(h) \/ Pick(h) \/ Unavailable(h) \/ Answer(h)

Refresh == Clear \/ Discovery(Discoverer) \/ Store

BalancerNext ==
    \/ \E r \in Replicas : Start(r) \/ Stop(r)
    \/ Observe
    \/ Remove
    \/ Put
    \/ SaveFails
    \/ Refresh
    \/ \E h \in Handlers :
        \/ \E s \in Services \union {NoService} : Accept(h, s)
        \/ Serve(h)

\* The threads sleep for a bounded time and every call times out; an upsert of
\* the registry that is tried for ever succeeds again and again.
BalancerFairness ==
    /\ WF_balancerVars(Observe)
    /\ SF_balancerVars(Remove)
    /\ WF_balancerVars(Put)
    /\ WF_balancerVars(Refresh)
    /\ \A h \in Handlers : WF_balancerVars(Serve(h))

BalancerSpec == BalancerInit /\ [][BalancerNext]_balancerVars
FairBalancerSpec == BalancerSpec /\ BalancerFairness

-----------------------------------------------------------------------------

(* A request is refused with 503 only when no replica of its service was   *)
(* registered at the beginning of the discovery that the answer rests on,  *)
(* the cached one or the handler's own, and has been up since then:        *)
(* clearing, refilling and sharing the cache makes no handler overlook a   *)
(* replica.                                                                *)
RefusalIsJustified ==
    \A h \in Handlers : pc[h] = "refuse" =>
        \A r \in steady[h] : ServiceOf[r] # target[h]

(* When a replica comes up for good, requests for its service are refused  *)
(* for a while only: the registry lists it, the thread finds it, and what  *)
(* was cached before goes away.                                            *)
StopsRefusing ==
    \A r \in Replicas :
        <>[](r \in up) =>
            <>[](\A h \in Handlers : pc[h] = "refuse" => target[h] # ServiceOf[r])

(* When a replica goes down for good, requests are sent to it for a while  *)
(* only, though the registry and docker may go on to list it.              *)
StopsRouting ==
    \A r \in Replicas :
        <>[](r \notin up) => <>[](\A h \in Handlers : picked[h] # r)
=============================================================================
