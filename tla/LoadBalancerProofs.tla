-------------------------- MODULE LoadBalancerProofs --------------------------
(***************************************************************************)
(* RefusalIsJustified for any number of handlers, replicas and services.   *)
(* Wherever a discovery is, a replica that was registered when it began    *)
(* and has been up since is among those that it has yet to probe or has    *)
(* found (SteadyInv); sharing its result through the cache keeps that.     *)
(***************************************************************************)
EXTENDS LoadBalancer, TLAPS

SteadyInv ==
    /\ cachedSteady \subseteq cache \intersect up
    /\ \A a \in Actors :
        /\ steady[a] \subseteq up
        /\ steady[a] \subseteq todo[a] \union clients[a]
        /\ pc[a] # "probe" => todo[a] = {}

RefusedInv ==
    \A h \in Handlers : pc[h] = "refuse" => Downstreams(h) = {}

BalancerInv ==
    /\ BalancerTypeOK
    /\ SteadyInv
    /\ RefusedInv

-----------------------------------------------------------------------------

USE BalancerAssumption

(* A replica that stops is steady no more.                                 *)
LEMMA ReplicaStep ==
    ASSUME BalancerInv, NEW r \in Replicas, Start(r) \/ Stop(r)
    PROVE  BalancerInv'
<1> USE DEF BalancerInv
<1>1. BalancerTypeOK'
  BY DEF BalancerTypeOK, Start, Stop, requestVars, steadyVars
<1>2. SteadyInv'
  BY DEF BalancerTypeOK, SteadyInv, Start, Stop, requestVars, steadyVars
<1>3. RefusedInv'
  BY DEF RefusedInv, Downstreams, Start, Stop, requestVars, steadyVars
<1>4. QED BY <1>1, <1>2, <1>3

(* service-registry touches the registry and itself.                       *)
LEMMA KeeperStep ==
    ASSUME BalancerInv, Observe \/ Remove \/ Put \/ SaveFails
    PROVE  BalancerInv'
<1> USE DEF BalancerInv
<1>1. UNCHANGED <<up, cache, pc, todo, clients, requestVars, steadyVars>>
  BY DEF Observe, Remove, Put, SaveFails
<1>2. BalancerTypeOK'
  BY <1>1 DEF BalancerTypeOK, Observe, Remove, Put, SaveFails, requestVars, steadyVars
<1>3. SteadyInv' /\ RefusedInv'
  BY <1>1 DEF SteadyInv, RefusedInv, Downstreams, requestVars, steadyVars
<1>4. QED BY <1>2, <1>3

(* Clearing and refilling the cache.                                       *)
LEMMA RefreshStep ==
    ASSUME BalancerInv, Clear \/ Store
    PROVE  BalancerInv'
<1> USE DEF BalancerInv
<1>0. Discoverer \in Actors /\ \A h \in Handlers : h \in Actors /\ h # Discoverer
  BY DEF Actors
<1>1. BalancerTypeOK'
  BY <1>0 DEF BalancerTypeOK, Clear, Store, envVars, requestVars
<1>2. SteadyInv'
  BY <1>0 DEF BalancerTypeOK, SteadyInv, Clear, Store, envVars, requestVars
<1>3. RefusedInv'
  BY <1>0 DEF BalancerTypeOK, RefusedInv, Downstreams, Clear, Store, envVars, requestVars
<1>4. QED BY <1>1, <1>2, <1>3

(* A discovery drops a replica from its list only when it has found it, or *)
(* when it is down.                                                        *)
LEMMA DiscoveryStep ==
    ASSUME BalancerInv, NEW a \in Actors, Discovery(a)
    PROVE  BalancerInv'
<1> USE DEF BalancerInv
<1>0. Found(a) \in {"store", "pick"}
  BY DEF Found
<1>1. CASE LookUp(a)
  <2>1. BalancerTypeOK'
    BY <1>0, <1>1 DEF BalancerTypeOK, LookUp, envVars, requestVars
  <2>2. SteadyInv'
    BY <1>0, <1>1 DEF BalancerTypeOK, SteadyInv, LookUp, envVars
  <2>3. RefusedInv'
    BY <1>0, <1>1 DEF BalancerTypeOK, RefusedInv, Downstreams, Actors, LookUp, requestVars
  <2>4. QED BY <2>1, <2>2, <2>3
<1>2. CASE ReadRegistry(a)
  <2>1. BalancerTypeOK'
    BY <1>2 DEF BalancerTypeOK, ReadRegistry, envVars, requestVars
  <2>2. SteadyInv'
    BY <1>2 DEF BalancerTypeOK, SteadyInv, ReadRegistry, envVars
  <2>3. RefusedInv'
    BY <1>2 DEF BalancerTypeOK, RefusedInv, Downstreams, Actors, ReadRegistry, requestVars
  <2>4. QED BY <2>1, <2>2, <2>3
<1>3. CASE RegistryFails(a)
  <2>1. BalancerTypeOK'
    BY <1>3 DEF BalancerTypeOK, RegistryFails, envVars, requestVars, steadyVars
  <2>2. SteadyInv'
    BY <1>3 DEF BalancerTypeOK, SteadyInv, RegistryFails, envVars, steadyVars
  <2>3. RefusedInv'
    BY <1>3 DEF BalancerTypeOK, RefusedInv, Downstreams, Actors, RegistryFails, requestVars
  <2>4. QED BY <2>1, <2>2, <2>3
<1>4. CASE \E r \in Replicas : Probe(a, r)
  <2>1. BalancerTypeOK'
    BY <1>4 DEF BalancerTypeOK, Probe, envVars, requestVars, steadyVars
  <2>2. SteadyInv'
    BY <1>4 DEF BalancerTypeOK, SteadyInv, Probe, envVars, steadyVars
  <2>3. RefusedInv'
    BY <1>4 DEF BalancerTypeOK, RefusedInv, Downstreams, Actors, Probe, requestVars
  <2>4. QED BY <2>1, <2>2, <2>3
<1>5. CASE EndDiscovery(a)
  <2>1. BalancerTypeOK'
    BY <1>0, <1>5 DEF BalancerTypeOK, EndDiscovery, envVars, requestVars, steadyVars
  <2>2. SteadyInv'
    BY <1>0, <1>5 DEF BalancerTypeOK, SteadyInv, EndDiscovery, envVars, steadyVars
  <2>3. RefusedInv'
    BY <1>0, <1>5 DEF BalancerTypeOK, RefusedInv, Downstreams, Actors, EndDiscovery, requestVars
  <2>4. QED BY <2>1, <2>2, <2>3
<1>6. QED BY <1>1, <1>2, <1>3, <1>4, <1>5 DEF Discovery

(* A handler refuses when it has no client of the service.                 *)
LEMMA HandlerStep ==
    ASSUME BalancerInv, NEW h \in Handlers,
           \/ \E s \in Services \union {NoService} : Accept(h, s)
           \/ Pick(h) \/ Unavailable(h) \/ Answer(h)
    PROVE  BalancerInv'
<1> USE DEF BalancerInv
<1>0. h \in Actors
  BY DEF Actors
<1>1. BalancerTypeOK'
  BY <1>0 DEF BalancerTypeOK, Accept, Pick, Unavailable, Answer, Downstreams,
     envVars, requestVars, steadyVars
<1>2. SteadyInv'
  BY <1>0 DEF BalancerTypeOK, SteadyInv, Accept, Pick, Unavailable, Answer,
     envVars, steadyVars
<1>3. RefusedInv'
  BY <1>0 DEF BalancerTypeOK, RefusedInv, Downstreams, Actors, Accept, Pick,
     Unavailable, Answer, requestVars
<1>4. QED BY <1>1, <1>2, <1>3

(* The inductive invariant of the balancer.                                *)
THEOREM BalancerInvariance == BalancerSpec => []BalancerInv
<1>1. BalancerInit => BalancerInv
  BY DEF BalancerInit, BalancerInv, BalancerTypeOK, SteadyInv, RefusedInv, Actors
<1>2. BalancerInv /\ [BalancerNext]_balancerVars => BalancerInv'
  <2> SUFFICES ASSUME BalancerInv, [BalancerNext]_balancerVars PROVE BalancerInv'
    OBVIOUS
  <2>1. CASE UNCHANGED balancerVars
    BY <2>1 DEF balancerVars, envVars, requestVars, steadyVars, BalancerInv,
       BalancerTypeOK, SteadyInv, RefusedInv, Downstreams
  <2>2. CASE BalancerNext
    <3>1. Discoverer \in Actors /\ \A h \in Handlers : h \in Actors
      BY DEF Actors
    <3>2. QED
      BY <2>2, <3>1, ReplicaStep, KeeperStep, RefreshStep, DiscoveryStep,
         HandlerStep DEF BalancerNext, Refresh, Serve
  <2>3. QED BY <2>1, <2>2
<1>3. QED BY <1>1, <1>2, PTL DEF BalancerSpec

(* The variables of the balancer keep their types.                         *)
THEOREM BalancerTypeCorrect == BalancerSpec => []BalancerTypeOK
<1>1. BalancerInv => BalancerTypeOK
  BY DEF BalancerInv
<1>2. QED BY <1>1, BalancerInvariance, PTL

(* No interleaving of handlers, discovery thread, registry and replicas    *)
(* makes a handler refuse a request while it overlooks a steady replica.   *)
THEOREM RefusalJustified == BalancerSpec => []RefusalIsJustified
<1>1. BalancerInv => RefusalIsJustified
  <2> SUFFICES ASSUME BalancerInv, NEW h \in Handlers, pc[h] = "refuse",
                      NEW r \in steady[h]
               PROVE  ServiceOf[r] # target[h]
    BY DEF RefusalIsJustified
  <2>1. h \in Actors
    BY DEF Actors
  <2>2. r \in clients[h]
    BY <2>1 DEF BalancerInv, SteadyInv
  <2>3. QED
    BY <2>2 DEF BalancerInv, RefusedInv, Downstreams
<1>2. QED BY <1>1, BalancerInvariance, PTL
==============================================================================
