------------------------ MODULE ConsulDiscoveryProofs ------------------------
(***************************************************************************)
(* Proofs about ConsulDiscovery for any number of callers, loops, changes  *)
(* and failed queries: no list that the client recorded is lost and none   *)
(* that is current is forgotten.  The discovery with the address cache     *)
(* behind it is still the same discovery, so what is proved of the one     *)
(* holds of the other.                                                     *)
(***************************************************************************)
EXTENDS EndpointCache, FiniteSetTheorems, TLAPS

USE EmptyListAssumption, BoundAssumption

\* A call starts its loop only once it has updated the index.
LoopAfterUpdate ==
  \A g \in Getter :
    gpc[g] \in {"idle", "query", "compare", "write"} => ppc[g] = "none"

DiscoveryInv == TypeOK /\ LoopAfterUpdate /\ NothingLost

\* Initially nothing is recorded and nobody asks.
LEMMA InvInit == Init => DiscoveryInv
<1> SUFFICES ASSUME Init PROVE DiscoveryInv
  OBVIOUS
<1>1. PICK l \in List : hist = <<l>>
  BY DEF Init
<1>2. hist \in Seq(List) /\ Len(hist) = 1
  BY <1>1
<1>3. TypeOK
  <2>1. Index = 1
    BY <1>2 DEF Index
  <2>2. 1 \in 1 .. MaxIndex /\ 0 \in 0 .. MaxFaults /\ 0 \in 0 .. 1
    OBVIOUS
  <2> QED BY <1>2, <2>1, <2>2 DEF Init, TypeOK
<1>4. NothingLost
  BY DEF Init, NothingLost
<1> QED
  BY <1>3, <1>4 DEF DiscoveryInv, LoopAfterUpdate, Init

\* Indexes only grow, so answers and records stay in range.
LEMMA TypeStep == TypeOK /\ [Next]_vars => TypeOK'
<1> SUFFICES ASSUME TypeOK, [Next]_vars PROVE TypeOK'
  OBVIOUS
<1> USE DEF TypeOK, Index, consulVars
<1>1. CASE HealthChanges
  <2>1. PICK l \in List : hist' = Append(hist, l)
    BY <1>1 DEF HealthChanges
  <2>2. hist' \in Seq(List) /\ Len(hist') = Len(hist) + 1
    BY <2>1
  <2> QED BY <1>1, <2>2 DEF HealthChanges
<1>2. ASSUME NEW g \in Getter, GetEndpoints(g) PROVE TypeOK'
  BY <1>2 DEF GetEndpoints
<1>3. ASSUME NEW g \in Getter, GetterAnswered(g) PROVE TypeOK'
  BY <1>3 DEF GetterAnswered
<1>4. ASSUME NEW g \in Getter, GetterFails(g) PROVE TypeOK'
  BY <1>4 DEF GetterFails
<1>5. ASSUME NEW g \in Getter, GetterCompares(g) PROVE TypeOK'
  BY <1>5 DEF GetterCompares
<1>6. ASSUME NEW g \in Getter, GetterWrites(g) PROVE TypeOK'
  BY <1>6 DEF GetterWrites
<1>7. ASSUME NEW g \in Getter, GetterReturns(g) PROVE TypeOK'
  <2>1. gres[g] \in 0 .. Index /\ 0 \in 0 .. Index
    OBVIOUS
  <2>2. given' \in SUBSET (0 .. Index)
    BY <1>7, <2>1 DEF GetterReturns
  <2>3. gres' \in [Getter -> 0 .. Index]
    BY <1>7, <2>1 DEF GetterReturns
  <2> QED BY <1>7, <2>2, <2>3 DEF GetterReturns
<1>8. ASSUME NEW g \in Getter, PollContains(g) \/ PollAdd(g) \/ PollRead(g)
      PROVE TypeOK'
  <2>1. 0 \in 0 .. Index
    OBVIOUS
  <2> QED BY <1>8, <2>1 DEF PollContains, PollAdd, PollRead
<1>9. ASSUME NEW g \in Getter, PollAnswered(g) PROVE TypeOK'
  BY <1>9 DEF PollAnswered
<1>10. ASSUME NEW g \in Getter, PollFails(g) PROVE TypeOK'
  BY <1>10 DEF PollFails
<1>11. ASSUME NEW g \in Getter, PollCompares(g) PROVE TypeOK'
  BY <1>11 DEF PollCompares
<1>12. ASSUME NEW g \in Getter, PollWrites(g) PROVE TypeOK'
  BY <1>12 DEF PollWrites
<1>13. ASSUME NEW g \in Getter, PollDelivers(g) PROVE TypeOK'
  BY <1>13 DEF PollDelivers
<1>14. CASE UNCHANGED vars
  BY <1>14 DEF vars
<1> QED
  BY <1>1, <1>2, <1>3, <1>4, <1>5, <1>6, <1>7, <1>8, <1>9, <1>10, <1>11, <1>12,
     <1>13, <1>14
     DEF Next, GetterStep, PollStep, PollChanged, PollTimesOut
-----------------------------------------------------------------------------
\* Only the end of the update starts the loop of a call.
LEMMA LoopStep == TypeOK /\ LoopAfterUpdate /\ [Next]_vars => LoopAfterUpdate'
<1> SUFFICES ASSUME TypeOK, LoopAfterUpdate, [Next]_vars PROVE LoopAfterUpdate'
  OBVIOUS
<1> USE DEF TypeOK, LoopAfterUpdate
<1>1. ASSUME NEW g \in Getter, GetEndpoints(g) \/ GetterStep(g)
      PROVE LoopAfterUpdate'
  BY <1>1 DEF GetEndpoints, GetterStep, GetterAnswered, GetterFails,
              GetterCompares, GetterWrites, GetterReturns
<1>2. ASSUME NEW g \in Getter, PollStep(g) PROVE LoopAfterUpdate'
  BY <1>2 DEF PollStep, PollContains, PollAdd, PollRead, PollChanged,
              PollTimesOut, PollAnswered, PollFails, PollCompares, PollWrites,
              PollDelivers
<1>3. ASSUME UNCHANGED <<gpc, ppc>> PROVE LoopAfterUpdate'
  BY <1>3
<1> QED
  BY <1>1, <1>2, <1>3 DEF Next, HealthChanges, vars

\* An index is recorded by a thread that is about to give its list, lists of
\* past indexes do not change, and a list leaves a thread only by being given.
LEMMA NothingLostStep == DiscoveryInv /\ [Next]_vars => NothingLost'
<1> SUFFICES ASSUME DiscoveryInv, [Next]_vars PROVE NothingLost'
  OBVIOUS
<1> USE DEF DiscoveryInv, TypeOK, NothingLost, Index, consulVars
<1>1. CASE HealthChanges
  <2>1. PICK l \in List : hist' = Append(hist, l)
    BY <1>1 DEF HealthChanges
  <2>2. last > 0 => hist'[last] = hist[last]
    BY <2>1
  <2> QED BY <1>1, <2>2 DEF HealthChanges
<1>2. ASSUME NEW g \in Getter, GetEndpoints(g) PROVE NothingLost'
  BY <1>2 DEF GetEndpoints
<1>3. ASSUME NEW g \in Getter, GetterAnswered(g) PROVE NothingLost'
  BY <1>3 DEF GetterAnswered
<1>4. ASSUME NEW g \in Getter, GetterFails(g) PROVE NothingLost'
  BY <1>4 DEF GetterFails
<1>5. ASSUME NEW g \in Getter, GetterCompares(g) PROVE NothingLost'
  <2>1. UNCHANGED <<hist, last, given, gres, pres>>
    BY <1>5 DEF GetterCompares
  <2>2. ppc[g] = "none"
    BY <1>5 DEF GetterCompares, LoopAfterUpdate
  <2>3. \A h \in Getter : /\ gpc[h] = "return" => gpc'[h] = "return"
                          /\ ppc[h] = "deliver" => ppc'[h] = "deliver"
    BY <1>5, <2>2 DEF GetterCompares
  <2> QED BY <2>1, <2>3
<1>6. ASSUME NEW g \in Getter, GetterWrites(g) PROVE NothingLost'
  BY <1>6 DEF GetterWrites
<1>7. ASSUME NEW g \in Getter, GetterReturns(g) PROVE NothingLost'
  BY <1>7 DEF GetterReturns
<1>8. ASSUME NEW g \in Getter, PollContains(g) \/ PollAdd(g) \/ PollRead(g)
      PROVE NothingLost'
  BY <1>8 DEF PollContains, PollAdd, PollRead
<1>9. ASSUME NEW g \in Getter, PollAnswered(g) PROVE NothingLost'
  BY <1>9 DEF PollAnswered
<1>10. ASSUME NEW g \in Getter, PollFails(g) PROVE NothingLost'
  BY <1>10 DEF PollFails
<1>11. ASSUME NEW g \in Getter, PollCompares(g) PROVE NothingLost'
  BY <1>11 DEF PollCompares
<1>12. ASSUME NEW g \in Getter, PollWrites(g) PROVE NothingLost'
  BY <1>12 DEF PollWrites
<1>13. ASSUME NEW g \in Getter, PollDelivers(g) PROVE NothingLost'
  BY <1>13 DEF PollDelivers
<1>14. CASE UNCHANGED vars
  BY <1>14 DEF vars
<1> QED
  BY <1>1, <1>2, <1>3, <1>4, <1>5, <1>6, <1>7, <1>8, <1>9, <1>10, <1>11, <1>12,
     <1>13, <1>14
     DEF Next, GetterStep, PollStep, PollChanged, PollTimesOut

\* Whatever index the client has recorded, its list is empty, given, or about
\* to be given, for any number of concurrent callers and loops.
THEOREM NoUpdateLost == Spec => []NothingLost
<1>1. DiscoveryInv /\ [Next]_vars => DiscoveryInv'
  BY TypeStep, LoopStep, NothingLostStep DEF DiscoveryInv
<1>2. DiscoveryInv => NothingLost
  BY DEF DiscoveryInv
<1> QED
  BY InvInit, <1>1, <1>2, PTL DEF Spec

\* A service is noted as polled by a loop, and no answer or failure ends it.
LoopLives == polling => \E g \in Getter : Polling(g)

LEMMA LoopLivesStep == DiscoveryInv /\ LoopLives /\ [Next]_vars => LoopLives'
<1> SUFFICES ASSUME DiscoveryInv, LoopLives, [Next]_vars PROVE LoopLives'
  OBVIOUS
<1> USE DEF DiscoveryInv, TypeOK, LoopLives, Polling
<1>1. ASSUME NEW g \in Getter, GetEndpoints(g) \/ GetterStep(g) PROVE LoopLives'
  <2>1. polling' = polling
    BY <1>1 DEF GetEndpoints, GetterStep, GetterAnswered, GetterFails, GetterCompares,
                GetterWrites, GetterReturns
  <2>2. ASSUME NEW h \in Getter, Polling(h) PROVE ppc'[h] = ppc[h]
    BY <1>1, <2>2 DEF LoopAfterUpdate, GetEndpoints, GetterStep, GetterAnswered,
                      GetterFails, GetterCompares, GetterWrites, GetterReturns
  <2> QED BY <2>1, <2>2
<1>2. ASSUME NEW g \in Getter, PollStep(g) PROVE LoopLives'
  <2>1. CASE PollContains(g)
    BY <2>1 DEF PollContains
  <2>2. CASE ~PollContains(g)
    <3>1. Polling(g)'
      BY <1>2, <2>2 DEF PollStep, PollAdd, PollRead, PollChanged, PollTimesOut,
                        PollAnswered, PollFails, PollCompares, PollWrites, PollDelivers
    <3> QED BY <3>1
  <2> QED BY <2>1, <2>2
<1>3. CASE HealthChanges \/ UNCHANGED vars
  BY <1>3 DEF HealthChanges, vars
<1> QED BY <1>1, <1>2, <1>3 DEF Next

\* Whatever is late, fails or overlaps, no list that the client lacks is
\* forgotten while it is current: the half of Notified that is no liveness.
THEOREM CurrentIsNotForgotten == Spec => []CurrentOnItsWay
<1>1. Init => DiscoveryInv /\ LoopLives
  BY InvInit DEF Init, LoopLives
<1>2. DiscoveryInv /\ LoopLives /\ [Next]_vars => (DiscoveryInv /\ LoopLives)'
  BY TypeStep, LoopStep, NothingLostStep, LoopLivesStep DEF DiscoveryInv
<1>3. DiscoveryInv /\ LoopLives => CurrentOnItsWay
  <2> SUFFICES ASSUME DiscoveryInv, LoopLives, polling, hist[Index] # EmptyList,
                      Index \notin given, last >= Index
               PROVE  \/ \E g \in Getter : gpc[g] = "return" /\ gres[g] = Index
                      \/ \E g \in Getter : ppc[g] = "deliver" /\ pres[g] = Index
    BY DEF CurrentOnItsWay, LoopLives, DiscoveryInv, TypeOK, Index
  <2>1. last = Index /\ last > 0
    BY DEF DiscoveryInv, TypeOK, Index
  <2> QED BY <2>1 DEF DiscoveryInv, NothingLost
<1> QED BY <1>1, <1>2, <1>3, PTL DEF Spec

\* The discovery keeps the declared types: in particular no thread works with
\* an index that Consul has not reached.
THEOREM TypeCorrect == Spec => []TypeOK
<1>1. Init => TypeOK
  BY InvInit DEF DiscoveryInv
<1> QED
  BY <1>1, TypeStep, PTL DEF Spec
-----------------------------------------------------------------------------
\* Every step of the cache is a step of the discovery, or none.
LEMMA CacheStep == [CacheNext]_cacheVars => [Next]_vars
<1>1. ASSUME NEW g \in Getter, Elsewhere(g) PROVE GetterStep(g) \/ PollStep(g)
  BY <1>1 DEF Elsewhere, GetterStep, PollStep
<1>2. ASSUME NEW g \in Getter, Miss(g) \/ Fill(g) \/ ServiceChanged(g)
      PROVE GetEndpoints(g) \/ GetterStep(g) \/ PollStep(g)
  BY <1>2 DEF Miss, Fill, ServiceChanged, GetterStep, PollStep
<1> QED
  BY <1>1, <1>2 DEF CacheNext, Next, cacheVars, vars

\* ChannelPool's cache neither hides nor adds behaviour of the discovery: the
\* two of them together implement the discovery alone.
THEOREM CacheImplementsDiscovery == CacheSpec => Spec
<1>1. CacheInit => Init
  BY DEF CacheInit
<1> QED
  BY <1>1, CacheStep, PTL DEF CacheSpec, Spec

\* The cached list is always one that Consul has had, whoever stored it last.
THEOREM CacheTypeCorrect == CacheSpec => []CacheTypeOK
<1>1. CacheInit => CacheTypeOK
  <2> SUFFICES ASSUME CacheInit PROVE CacheTypeOK
    OBVIOUS
  <2>1. TypeOK
    BY InvInit DEF CacheInit, DiscoveryInv
  <2> QED BY <2>1 DEF CacheInit, CacheTypeOK, TypeOK, Index
<1>2. CacheTypeOK /\ [CacheNext]_cacheVars => CacheTypeOK'
  <2> SUFFICES ASSUME CacheTypeOK, [CacheNext]_cacheVars PROVE CacheTypeOK'
    OBVIOUS
  <2>1. TypeOK /\ TypeOK'
    BY TypeStep, CacheStep DEF CacheTypeOK
  <2>2. cache \in 0 .. Index /\ Index \in Nat /\ Index' \in Nat
    BY <2>1 DEF CacheTypeOK, TypeOK, Index
  <2>3. Index <= Index'
    <3>1. CASE HealthChanges
      <4>1. PICK l \in List : hist' = Append(hist, l)
        BY <3>1 DEF HealthChanges
      <4> QED BY <4>1, <2>1 DEF TypeOK, Index
    <3>2. CASE ~HealthChanges
      <4>1. hist' = hist
        BY <3>2 DEF CacheNext, Miss, Fill, ServiceChanged, Elsewhere,
           GetEndpoints, GetterAnswered, GetterFails, GetterCompares,
           GetterWrites, GetterReturns, PollContains, PollAdd, PollRead,
           PollChanged, PollTimesOut, PollAnswered, PollFails, PollCompares,
           PollWrites, PollDelivers, cacheVars, vars, consulVars
      <4> QED BY <4>1, <2>2 DEF Index
    <3> QED BY <3>1, <3>2
  <2>4. \/ cache' = cache
        \/ \E g \in Getter : cache' \in {gres[g], pres[g]}
    BY DEF CacheNext, Miss, Fill, ServiceChanged, Elsewhere, cacheVars
  <2>5. cache' \in 0 .. Index
    BY <2>1, <2>2, <2>4 DEF TypeOK
  <2> QED BY <2>1, <2>2, <2>3, <2>5 DEF CacheTypeOK
<1> QED
  BY <1>1, <1>2, PTL DEF CacheSpec
-----------------------------------------------------------------------------
\* Calls that have not had an answer yet have changed nothing.
Untouched(g) == gpc[g] \in {"idle", "query"}

Solo(g) == \A h \in Getter \ {g} : Untouched(h)

\* What a call and its loop rely on when no other call has had an answer: the
\* index only grows, and what is announced runs behind it.
SoloFine(g) ==
  /\ announced <= last
  /\ gpc[g] \in {"idle", "query", "compare", "write"} => last = 0
  /\ gpc[g] = "return" => gres[g] <= last
  /\ ppc[g] = "write" => pres[g] > last
  /\ ppc[g] = "deliver" => pres[g] = last /\ announced < last

SoloInv == \A g \in Getter : Solo(g) => SoloFine(g)

\* A step of another call that leaves it without an answer is none of the
\* discovery's business.
LEMMA OthersWait ==
  ASSUME TypeOK, LoopAfterUpdate, NEW g \in Getter, Solo(g)', NEW h \in Getter \ {g},
         GetEndpoints(h) \/ GetterStep(h) \/ PollStep(h)
  PROVE  Solo(g) /\ UNCHANGED <<last, announced, pres>> /\ gpc'[g] = gpc[g]
         /\ gres'[g] = gres[g] /\ ppc' = ppc
<1>1. gpc'[h] \in {"idle", "query"}
  BY DEF Solo, Untouched
<1>2. CASE GetEndpoints(h) \/ GetterFails(h)
  BY <1>2 DEF TypeOK, GetEndpoints, GetterFails, Solo, Untouched, consulVars
<1>3. CASE GetterAnswered(h) \/ GetterCompares(h) \/ GetterWrites(h) \/ GetterReturns(h)
  BY <1>1, <1>3 DEF TypeOK, GetterAnswered, GetterCompares, GetterWrites, GetterReturns
<1>4. CASE PollStep(h)
  <2>1. gpc' = gpc /\ ppc[h] # "none"
    BY <1>4 DEF PollStep, PollContains, PollAdd, PollRead, PollChanged, PollTimesOut,
       PollAnswered, PollFails, PollCompares, PollWrites, PollDelivers
  <2> QED BY <1>1, <2>1 DEF LoopAfterUpdate
<1> QED BY <1>2, <1>3, <1>4 DEF GetterStep

LEMMA SoloStep == DiscoveryInv /\ SoloInv /\ [Next]_vars => SoloInv'
<1> SUFFICES ASSUME DiscoveryInv, SoloInv, [Next]_vars, NEW g \in Getter, Solo(g)'
             PROVE  SoloFine(g)'
  BY DEF SoloInv
<1>1. TypeOK /\ LoopAfterUpdate
  BY DEF DiscoveryInv
<1>2. Solo(g) => SoloFine(g)
  BY DEF SoloInv
<1>3. CASE HealthChanges \/ UNCHANGED vars
  BY <1>2, <1>3 DEF HealthChanges, vars, Solo, Untouched, SoloFine
<1>4. ASSUME NEW h \in Getter \ {g}, GetEndpoints(h) \/ GetterStep(h) \/ PollStep(h)
      PROVE  SoloFine(g)'
  BY <1>1, <1>2, <1>4, OthersWait DEF SoloFine
<1>5. CASE GetEndpoints(g) \/ GetterStep(g)
  <2>1. Solo(g)
    BY <1>1, <1>5 DEF TypeOK, Solo, Untouched, GetEndpoints, GetterStep, GetterAnswered,
       GetterFails, GetterCompares, GetterWrites, GetterReturns
  <2>2. SoloFine(g) /\ last \in Nat /\ announced \in Nat /\ gres[g] \in Nat
    BY <1>1, <1>2, <2>1 DEF TypeOK, Index
  <2>3. gpc[g] \in {"idle", "query", "compare", "write"} => ppc[g] = "none"
    BY <1>1 DEF LoopAfterUpdate
  <2> QED BY <1>1, <1>5, <2>2, <2>3 DEF TypeOK, SoloFine, GetEndpoints, GetterStep,
          GetterAnswered, GetterFails, GetterCompares, GetterWrites, GetterReturns, consulVars
<1>6. CASE PollStep(g)
  <2>1. gpc' = gpc /\ gres' = gres /\ Solo(g)
    BY <1>6 DEF Solo, Untouched, PollStep, PollContains, PollAdd, PollRead, PollChanged,
       PollTimesOut, PollAnswered, PollFails, PollCompares, PollWrites, PollDelivers
  <2>2. SoloFine(g) /\ last \in Nat /\ announced \in Nat /\ pres[g] \in Nat
        /\ gpc[g] \notin {"idle", "query", "compare", "write"} /\ gres[g] \in Nat
    <3>1. ppc[g] # "none"
      BY <1>6 DEF PollStep, PollContains, PollAdd, PollRead, PollChanged,
         PollTimesOut, PollAnswered, PollFails, PollCompares, PollWrites, PollDelivers
    <3> QED BY <1>1, <1>2, <2>1, <3>1 DEF TypeOK, Index, LoopAfterUpdate
  <2>3. CASE PollContains(g) \/ PollAdd(g) \/ PollRead(g) \/ PollFails(g)
    BY <1>1, <2>1, <2>2, <2>3 DEF TypeOK, SoloFine, PollContains, PollAdd, PollRead, PollFails,
       consulVars
  <2>4. CASE PollAnswered(g) \/ PollCompares(g)
    BY <1>1, <2>1, <2>2, <2>4 DEF TypeOK, SoloFine, PollAnswered, PollCompares, consulVars
  <2>5. CASE PollWrites(g)
    BY <1>1, <2>1, <2>2, <2>5 DEF TypeOK, SoloFine, PollWrites, consulVars
  <2>6. CASE PollDelivers(g)
    BY <1>1, <2>1, <2>2, <2>6 DEF TypeOK, SoloFine, PollDelivers, consulVars
  <2> QED BY <1>6, <2>3, <2>4, <2>5, <2>6 DEF PollStep, PollChanged, PollTimesOut
<1> QED BY <1>3, <1>4, <1>5, <1>6 DEF Next

LEMMA SoloInvariant == Spec => [](DiscoveryInv /\ SoloInv)
<1>1. Init => SoloInv
  BY DEF Init, SoloInv, SoloFine
<1>2. DiscoveryInv /\ [Next]_vars => DiscoveryInv'
  BY TypeStep, LoopStep, NothingLostStep DEF DiscoveryInv
<1> QED BY InvInit, <1>1, <1>2, SoloStep, PTL DEF Spec

\* With at most one call begun, that call is alone.
LEMMA AloneIsSolo ==
  ASSUME Alone, NEW g \in Getter, gpc[g] # "idle"
  PROVE  Solo(g)
<1> DEFINE B == {h \in Getter : gpc[h] # "idle"}
<1> SUFFICES ASSUME NEW h \in Getter \ {g}, gpc[h] # "idle" PROVE FALSE
  BY DEF Solo, Untouched
<1>1. IsFiniteSet(B) /\ {g, h} \subseteq B
  BY GetterAssumption, FS_Subset
<1>2. IsFiniteSet({g}) /\ Cardinality({g}) = 1
  BY FS_Singleton
<1>3. Cardinality({g} \cup {h}) = 2
  BY <1>2, FS_AddElement
<1>4. {g} \cup {h} = {g, h}
  OBVIOUS
<1>5. Cardinality({g, h}) <= Cardinality(B)
  BY <1>1, FS_Subset
<1>6. Cardinality(B) \in Nat
  BY <1>1, FS_CardinalityType
<1> QED BY <1>3, <1>4, <1>5, <1>6 DEF Alone

\* Changes are announced in Consul's order and once each when one call has been
\* made: whatever its queries miss, repeat or fail at, the index only grows.
THEOREM AnnouncedInOrder == Spec => EventsIncrease
<1>1. DiscoveryInv /\ SoloInv /\ [Next]_vars =>
        [\A g \in Getter :
           Alone /\ ppc[g] = "deliver" /\ ppc'[g] = "read" => pres[g] > announced]_vars
  <2> SUFFICES ASSUME DiscoveryInv, SoloInv, NEW g \in Getter, Alone, ppc[g] = "deliver"
               PROVE  pres[g] > announced
    OBVIOUS
  <2>1. gpc[g] # "idle"
    BY DEF DiscoveryInv, LoopAfterUpdate
  <2>2. SoloFine(g)
    BY <2>1, AloneIsSolo DEF SoloInv
  <2> QED BY <2>2 DEF SoloFine
<1> QED BY <1>1, SoloInvariant, PTL DEF Spec, EventsIncrease

\* With one call the cached list is never ahead of the recorded index.
CacheBehind == \A g \in Getter : Solo(g) => cache <= last

LEMMA CacheBehindStep ==
  ASSUME DiscoveryInv, SoloInv, cache \in Nat, CacheBehind, [CacheNext]_cacheVars
  PROVE  CacheBehind'
<1> SUFFICES ASSUME NEW g \in Getter, Solo(g)' PROVE cache' <= last'
  BY DEF CacheBehind
<1>1. TypeOK /\ LoopAfterUpdate
  BY DEF DiscoveryInv
<1>2. Solo(g) => cache <= last /\ SoloFine(g)
  BY DEF CacheBehind, SoloInv
<1>3. last \in Nat /\ last' \in Nat /\ gres[g] \in Nat /\ pres[g] \in Nat
  <2>1. TypeOK'
    BY <1>1, CacheStep, TypeStep
  <2> QED BY <1>1, <2>1 DEF TypeOK, Index
<1>4. CASE (HealthChanges /\ UNCHANGED cache) \/ UNCHANGED cacheVars
  BY <1>2, <1>4 DEF HealthChanges, cacheVars, vars, Solo, Untouched
<1>5. ASSUME NEW h \in Getter \ {g}, Miss(h) \/ Fill(h) \/ ServiceChanged(h) \/ Elsewhere(h)
      PROVE  cache' <= last'
  <2>1. GetEndpoints(h) \/ GetterStep(h) \/ PollStep(h)
    BY <1>5 DEF Miss, Fill, ServiceChanged, Elsewhere, GetterStep, PollStep
  <2>2. Solo(g) /\ last' = last /\ ppc' = ppc
    BY <1>1, <2>1, OthersWait
  <2>3. gpc'[h] \in {"idle", "query"}
    BY DEF Solo, Untouched
  <2>4. ~Fill(h)
    BY <1>1, <2>3 DEF Fill, GetterReturns, TypeOK
  <2>5. ~ServiceChanged(h)
    BY <1>1, <2>2 DEF ServiceChanged, PollDelivers, TypeOK
  <2> QED BY <1>2, <1>5, <2>2, <2>4, <2>5 DEF Miss, Elsewhere
<1>6. ASSUME Miss(g) \/ Fill(g) \/ ServiceChanged(g) \/ Elsewhere(g)
      PROVE  cache' <= last'
  <2>1. GetEndpoints(g) \/ GetterStep(g) \/ PollStep(g)
    BY <1>6 DEF Miss, Fill, ServiceChanged, Elsewhere, GetterStep, PollStep
  <2>2. \A h \in Getter \ {g} : gpc'[h] = gpc[h]
    BY <1>1, <2>1 DEF TypeOK, GetEndpoints, GetterStep, GetterAnswered, GetterFails,
       GetterCompares, GetterWrites, GetterReturns, PollStep, PollContains, PollAdd, PollRead,
       PollChanged, PollTimesOut, PollAnswered, PollFails, PollCompares, PollWrites,
       PollDelivers
  <2>3. Solo(g)
    BY <2>2 DEF Solo, Untouched
  <2>4. cache <= last /\ SoloFine(g)
    BY <1>2, <2>3
  <2>5. CASE Fill(g)
    BY <2>4, <2>5 DEF Fill, GetterReturns, SoloFine
  <2>6. CASE ServiceChanged(g)
    BY <1>3, <2>4, <2>6 DEF ServiceChanged, PollDelivers, SoloFine
  <2>7. CASE Miss(g)
    BY <2>4, <2>7 DEF Miss, GetEndpoints
  <2>8. CASE Elsewhere(g)
    <3>1. last <= last'
      <4>1. CASE GetterWrites(g)
        BY <1>3, <2>4, <4>1 DEF GetterWrites, SoloFine
      <4>2. CASE PollWrites(g)
        BY <1>3, <2>4, <4>2 DEF PollWrites, SoloFine
      <4>3. CASE ~GetterWrites(g) /\ ~PollWrites(g)
        <5>1. last' = last
          BY <2>8, <4>3 DEF Elsewhere, GetterAnswered, GetterFails, GetterCompares,
             PollContains, PollAdd, PollRead, PollChanged, PollTimesOut, PollAnswered,
             PollFails, PollCompares
        <5> QED BY <1>3, <5>1
      <4> QED BY <4>1, <4>2, <4>3
    <3> QED BY <1>3, <2>4, <2>8, <3>1 DEF Elsewhere
  <2> QED BY <1>6, <2>5, <2>6, <2>7, <2>8
<1> QED BY <1>4, <1>5, <1>6 DEF CacheNext

\* Once its one fill is over, the cache only moves to newer lists.
THEOREM CacheOnlyAdvances == CacheSpec => CacheAdvances
<1>1. CacheInit => CacheBehind
  BY DEF CacheInit, Init, CacheBehind
<1>2. CacheTypeOK => cache \in Nat
  BY DEF CacheTypeOK
<1>3. DiscoveryInv /\ SoloInv /\ cache \in Nat /\ CacheBehind /\ [CacheNext]_cacheVars
        => CacheBehind'
  BY CacheBehindStep
<1>4. DiscoveryInv /\ SoloInv /\ cache \in Nat /\ CacheBehind /\ [CacheNext]_cacheVars
        => [Alone /\ ~Filling => cache' >= cache]_cacheVars
  <2> SUFFICES ASSUME DiscoveryInv, SoloInv, cache \in Nat, CacheBehind, CacheNext, Alone,
                      ~Filling
               PROVE  cache' >= cache
    OBVIOUS
  <2>1. ASSUME NEW g \in Getter, Fill(g) PROVE FALSE
    BY <2>1 DEF Fill, GetterReturns, Filling
  <2>2. ASSUME NEW g \in Getter, ServiceChanged(g) PROVE cache' >= cache
    <3>1. gpc[g] # "idle" /\ ppc[g] = "deliver" /\ cache' = pres[g]
      BY <2>2 DEF ServiceChanged, PollDelivers, DiscoveryInv, LoopAfterUpdate
    <3>2. SoloFine(g) /\ cache <= last
      BY <3>1, AloneIsSolo DEF SoloInv, CacheBehind
    <3> QED BY <3>1, <3>2 DEF SoloFine, DiscoveryInv, TypeOK, Index
  <2>3. cache' = cache => cache' >= cache
    OBVIOUS
  <2> QED BY <2>1, <2>2, <2>3 DEF CacheNext, Miss, Elsewhere
<1> QED
  BY <1>1, <1>2, <1>3, <1>4, SoloInvariant, CacheImplementsDiscovery, CacheTypeCorrect, PTL
     DEF CacheSpec, CacheAdvances
=============================================================================
