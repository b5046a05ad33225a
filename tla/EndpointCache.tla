---------------------------- MODULE EndpointCache ----------------------------
(***************************************************************************)
(* The address cache of one service, between ChannelPool.GetEndpoint and   *)
(* the Consul discovery it is filled by.  A caller that misses asks the    *)
(* discovery and stores the answer when it arrives; the handler of         *)
(* ServiceChanged stores what the polling loop announces.  Entries never   *)
(* expire (the call that would set an expiry is commented out).            *)
(***************************************************************************)
EXTENDS ConsulDiscovery

VARIABLE cache   \* the index whose list is cached, 0 when none is

cacheVars == <<vars, cache>>

CacheTypeOK == TypeOK /\ cache \in 0 .. Index

CacheInit == Init /\ cache = 0

\* GetOrCreateAsync finds no entry and calls the discovery.
Miss(g) == cache = 0 /\ GetEndpoints(g) /\ UNCHANGED cache

\* The answer is stored, over whatever was stored meanwhile.
Fill(g) == GetterReturns(g) /\ cache' = gres[g]

\* Mutant of ServiceChanged: the handler removes the entry.
ServiceChangedForgets(g) == PollDelivers(g) /\ cache' = 0

\* ServiceDiscovery_ServiceChanged.
ServiceChanged(g) == PollDelivers(g) /\ cache' = pres[g]

Elsewhere(g) ==
  /\ \/ GetterAnswered(g) \/ GetterFails(g) \/ GetterCompares(g) \/ GetterWrites(g)
     \/ PollContains(g) \/ PollAdd(g) \/ PollRead(g) \/ PollChanged(g)
     \/ PollTimesOut(g) \/ PollFails(g) \/ PollCompares(g) \/ PollWrites(g)
  /\ UNCHANGED cache

CacheNext ==
  \/ HealthChanges /\ UNCHANGED cache
  \/ \E g \in Getter : Miss(g) \/ Fill(g) \/ ServiceChanged(g) \/ Elsewhere(g)

CacheSpec == CacheInit /\ [][CacheNext]_cacheVars

CacheFairness ==
  \A g \in Getter :
    /\ WF_cacheVars(Fill(g) \/ (GetterStep(g) /\ Elsewhere(g)))
    /\ WF_cacheVars(ServiceChanged(g) \/ (PollStep(g) /\ Elsewhere(g)))

FairCacheSpec == CacheSpec /\ CacheFairness
-----------------------------------------------------------------------------
Filling == \E g \in Getter : gpc[g] \notin {"idle", "done"}

\* With one fill, the cache goes back to an older list only while that fill
\* is in progress: after it, only newer lists replace the cached one.
CacheAdvances == [][Alone /\ ~Filling => cache' >= cache]_cacheVars

\* Every later change that lasts, except to an empty list, reaches the cache.
ChangeReachesCache ==
  \A i \in 1 .. MaxIndex :
    /\ cache # 0 /\ ~Filling /\ polling
    /\ Index = i /\ hist[i] # EmptyList /\ last < i
    ~> cache = i \/ Index # i

\* "服务地址缓存时间(秒)", 10 by default: an address list is cached for a
\* time, so whatever was cached, a list that lasts gets into the cache.
CacheConverges ==
  \A i \in 1 .. MaxIndex :
    cache # 0 /\ Index = i /\ hist[i] # EmptyList ~> cache = i \/ Index # i
=============================================================================
