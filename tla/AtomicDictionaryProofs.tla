------------------------ MODULE AtomicDictionaryProofs -----------------------
(***************************************************************************)
(* Proofs about AtomicDictionary for any number of callers, keys and hash  *)
(* codes: its types, mutual exclusion of the factories of a key, that no   *)
(* permit of a semaphore is lost, and that it implements AtomicMap.        *)
(***************************************************************************)
EXTENDS AtomicDictionary, TLAPS

USE HashAssumption, ValueAssumption

\* The initial state has the declared types and free semaphores.
LEMMA InitInv == Init => IInv
  BY DEF Init, IInv, TypeOK, SemaphoreInv, ValueInHand, NoPermitLost, InSemaphore,
     Location

\* Every step keeps the types: the program counters stay in their locations
\* and the dictionary holds values or nothing.
LEMMA TypeStep == TypeOK /\ [Next]_vars => TypeOK'
<1> SUFFICES ASSUME TypeOK, [Next]_vars PROVE TypeOK'
  OBVIOUS
<1> USE DEF TypeOK, Location, Goto, SemaphoreOf
<1>1. ASSUME NEW t \in Thread, NEW k \in Key, TryGetValue(t, k) PROVE TypeOK'
  BY <1>1 DEF TryGetValue
<1>2. ASSUME NEW t \in Thread, WaitAsync(t) PROVE TypeOK'
  BY <1>2 DEF WaitAsync
<1>3. ASSUME NEW t \in Thread, Recheck(t) PROVE TypeOK'
  BY <1>3 DEF Recheck
<1>4. ASSUME NEW t \in Thread, FactoryReturns(t) PROVE TypeOK'
  BY <1>4 DEF FactoryReturns
<1>5. ASSUME NEW t \in Thread, FactoryThrows(t) PROVE TypeOK'
  BY <1>5 DEF FactoryThrows
<1>6. ASSUME NEW t \in Thread, Store(t) PROVE TypeOK'
  <2>1. dict' \in [Key -> Value \union {NoValue}]
    BY <1>6 DEF Store
  <2> QED BY <1>6, <2>1 DEF Store
<1>7. ASSUME NEW t \in Thread, Release(t) PROVE TypeOK'
  BY <1>7 DEF Release
<1>8. ASSUME NEW t \in Thread, Return(t) PROVE TypeOK'
  BY <1>8 DEF Return
<1>9. ASSUME NEW k \in Key, TryRemove(k) \/ AddOrUpdate(k) PROVE TypeOK'
  BY <1>9 DEF TryRemove, AddOrUpdate
<1>10. CASE Clear
  BY <1>10 DEF Clear
<1>11. CASE UNCHANGED vars
  BY <1>11 DEF vars
<1> QED
  BY <1>1, <1>2, <1>3, <1>4, <1>5, <1>6, <1>7, <1>8, <1>9, <1>10, <1>11
     DEF Next, Step

\* Every step keeps the semaphores binary and held by at most one thread.
LEMMA SemaphoreStep == IInv /\ [Next]_vars => SemaphoreInv'
<1> SUFFICES ASSUME IInv, [Next]_vars PROVE SemaphoreInv'
  OBVIOUS
<1> USE DEF IInv, TypeOK, SemaphoreInv, InSemaphore, SemaphoreOf, Location, Goto
<1>1. ASSUME NEW t \in Thread, NEW k \in Key, TryGetValue(t, k)
      PROVE SemaphoreInv'
  BY <1>1 DEF TryGetValue
<1>2. ASSUME NEW t \in Thread, WaitAsync(t) PROVE SemaphoreInv'
  BY <1>2 DEF WaitAsync
<1>3. ASSUME NEW t \in Thread, Recheck(t) PROVE SemaphoreInv'
  BY <1>3 DEF Recheck
<1>4. ASSUME NEW t \in Thread, FactoryReturns(t) PROVE SemaphoreInv'
  BY <1>4 DEF FactoryReturns
<1>5. ASSUME NEW t \in Thread, FactoryThrows(t) PROVE SemaphoreInv'
  BY <1>5 DEF FactoryThrows
<1>6. ASSUME NEW t \in Thread, Store(t) PROVE SemaphoreInv'
  BY <1>6 DEF Store
<1>7. ASSUME NEW t \in Thread, Release(t) PROVE SemaphoreInv'
  BY <1>7 DEF Release
<1>8. ASSUME NEW t \in Thread, Return(t) PROVE SemaphoreInv'
  BY <1>8 DEF Return
<1>9. ASSUME NEW k \in Key, TryRemove(k) \/ AddOrUpdate(k) PROVE SemaphoreInv'
  BY <1>9 DEF TryRemove, AddOrUpdate
<1>10. CASE Clear
  BY <1>10 DEF Clear
<1>11. CASE UNCHANGED vars
  BY <1>11 DEF vars
<1> QED
  BY <1>1, <1>2, <1>3, <1>4, <1>5, <1>6, <1>7, <1>8, <1>9, <1>10, <1>11
     DEF Next, Step

\* A value is only taken from a lookup, a factory or the final GetOrAdd, and
\* is dropped when the call returns.
LEMMA ValueInHandStep == IInv /\ [Next]_vars => ValueInHand'
<1> SUFFICES ASSUME IInv, [Next]_vars PROVE ValueInHand'
  OBVIOUS
<1> USE DEF IInv, TypeOK, ValueInHand, Goto
<1>1. ASSUME NEW t \in Thread, NEW k \in Key, TryGetValue(t, k)
      PROVE ValueInHand'
  BY <1>1 DEF TryGetValue
<1>2. ASSUME NEW t \in Thread, Step(t) PROVE ValueInHand'
  BY <1>2 DEF Step, WaitAsync, Recheck, FactoryReturns, FactoryThrows, Store,
              Release, Return
<1>3. ASSUME UNCHANGED <<pc, val>> PROVE ValueInHand'
  BY <1>3
<1> QED
  BY <1>1, <1>2, <1>3 DEF Next, TryRemove, AddOrUpdate, Clear, vars

\* A caller that takes the permit is inside until Release gives it back: no
\* path from WaitAsync leads out past Release.
LEMMA PermitStep == IInv /\ [Next]_vars => NoPermitLost'
<1> SUFFICES ASSUME IInv, [Next]_vars, NEW h \in Hash, count'[h] = 0
             PROVE  \E t \in Thread : (InSemaphore(t) /\ SemaphoreOf(t) = h)'
  BY DEF NoPermitLost
<1> USE DEF IInv, TypeOK, Location, Goto, InSemaphore, SemaphoreOf
<1>1. ASSUME NEW t \in Thread, InSemaphore(t), SemaphoreOf(t) = h,
             NEW u \in Thread, Recheck(u) \/ FactoryReturns(u) \/ FactoryThrows(u)
                               \/ Store(u)
      PROVE  (InSemaphore(t) /\ SemaphoreOf(t) = h)'
  BY <1>1 DEF Recheck, FactoryReturns, FactoryThrows, Store
<1>2. ASSUME NEW t \in Thread, InSemaphore(t), SemaphoreOf(t) = h,
             NEW u \in Thread, t # u,
             \/ \E k \in Key : TryGetValue(u, k)
             \/ Step(u)
      PROVE  (InSemaphore(t) /\ SemaphoreOf(t) = h)'
  BY <1>2 DEF TryGetValue, Step, WaitAsync, Recheck, FactoryReturns, FactoryThrows,
     Store, Release, Return
<1>3. CASE count[h] = 0
  <2>1. PICK t \in Thread : InSemaphore(t) /\ SemaphoreOf(t) = h
    BY <1>3 DEF NoPermitLost
  <2>2. ~Release(t)
    BY <1>3, <2>1 DEF Release
  <2>3. ~WaitAsync(t) /\ ~Return(t) /\ \A k \in Key : ~TryGetValue(t, k)
    BY <2>1 DEF WaitAsync, Return, TryGetValue
  <2>4. ASSUME UNCHANGED <<pc, arg>> PROVE (InSemaphore(t) /\ SemaphoreOf(t) = h)'
    BY <2>1, <2>4
  <2> QED
    BY <1>1, <1>2, <2>1, <2>2, <2>3, <2>4
       DEF Next, Step, TryRemove, AddOrUpdate, Clear, vars
<1>4. CASE count[h] # 0
  <2>1. PICK t \in Thread : WaitAsync(t) /\ SemaphoreOf(t) = h
    <3>1. ASSUME NEW u \in Thread, Release(u) PROVE FALSE
      BY <1>4, <3>1 DEF Release, SemaphoreInv
    <3>2. count' # count
      BY <1>4
    <3>3. PICK t \in Thread : WaitAsync(t)
      BY <3>1, <3>2 DEF Next, Step, TryGetValue, Recheck, FactoryReturns,
         FactoryThrows, Store, Return, TryRemove, AddOrUpdate, Clear, vars
    <3> QED BY <1>4, <3>3 DEF WaitAsync
  <2> QED BY <2>1 DEF WaitAsync
<1> QED BY <1>3, <1>4

\* The types and the semaphore invariant hold in every reachable state.
THEOREM Invariance == Spec => []IInv
<1>1. IInv /\ [Next]_vars => IInv'
  BY TypeStep, SemaphoreStep, ValueInHandStep, PermitStep DEF IInv
<1> QED
  BY InitInv, <1>1, PTL DEF Spec

\* GetOrAddAsync keeps the declared types.
THEOREM TypeCorrect == Spec => []TypeOK
<1>1. IInv => TypeOK
  BY DEF IInv
<1> QED
  BY Invariance, <1>1, PTL

\* No two callers of GetOrAddAsync run the factory of the same key at the
\* same time: equal keys have equal hash codes, hence the same semaphore.
THEOREM FactoriesExclude == Spec => []OneFactoryPerKey
<1>1. IInv => OneFactoryPerKey
  BY DEF IInv, SemaphoreInv, OneFactoryPerKey, Building, InSemaphore, SemaphoreOf
<1> QED
  BY Invariance, <1>1, PTL

\* No permit is lost: a closed semaphore is held by a caller inside, whatever
\* factories throw, for any number of callers and hash codes.
THEOREM PermitsReturn == Spec => []NoPermitLost
<1>1. IInv => NoPermitLost
  BY DEF IInv
<1> QED
  BY Invariance, <1>1, PTL

-----------------------------------------------------------------------------
\* The dictionary starts as an empty map nobody is building.
LEMMA RefineInit == Init => Promise!Init
  BY DEF Init, Promise!Init, Building

\* Every step of the dictionary is a step of the map or leaves it alone; the
\* interesting ones are the locked lookup that misses (Begin needs mutual
\* exclusion) and the store (End needs the entry that is already there).
LEMMA RefineStep == IInv /\ [Next]_vars => [Promise!Next]_(Promise!vars)
<1> SUFFICES ASSUME IInv, [Next]_vars PROVE [Promise!Next]_(Promise!vars)
  OBVIOUS
<1> DEFINE B == {p \in Thread \X Key : Building(p[1]) /\ arg[p[1]] = p[2]}
           G == [t \in Thread |->
                   IF pc[t] \in {"release", "done"} THEN val[t] ELSE NoValue]
<1> USE DEF IInv, TypeOK, Location, Goto, Building
<1>1. ASSUME NEW t \in Thread, NEW k \in Key, TryGetValue(t, k)
      PROVE [Promise!Next]_(Promise!vars)
  <2>1. B' = B /\ dict' = dict
    BY <1>1 DEF TryGetValue
  <2>2. CASE dict[k] # NoValue
    <3>1. G' = [G EXCEPT ![t] = dict[k]]
      BY <1>1, <2>2 DEF TryGetValue
    <3> QED BY <2>1, <2>2, <3>1 DEF Promise!Next, Promise!Read
  <2>3. CASE dict[k] = NoValue
    <3>1. G' = G
      BY <1>1, <2>3 DEF TryGetValue
    <3> QED BY <2>1, <3>1 DEF Promise!vars
  <2> QED BY <2>2, <2>3
<1>2. ASSUME NEW t \in Thread, WaitAsync(t) PROVE [Promise!Next]_(Promise!vars)
  <2>1. B' = B /\ dict' = dict /\ G' = G
    BY <1>2 DEF WaitAsync
  <2> QED BY <2>1 DEF Promise!vars
<1>3. ASSUME NEW t \in Thread, Recheck(t) PROVE [Promise!Next]_(Promise!vars)
  <2> DEFINE k == arg[t]
  <2>1. k \in Key /\ pc[t] = "check" /\ dict' = dict /\ arg' = arg
    BY <1>3 DEF Recheck
  <2>2. CASE dict[k] # NoValue
    <3>1. G' = [G EXCEPT ![t] = dict[k]] /\ B' = B
      BY <1>3, <2>2 DEF Recheck
    <3> QED BY <2>1, <2>2, <3>1 DEF Promise!Next, Promise!Read
  <2>3. CASE dict[k] = NoValue
    <3>1. G' = G
      BY <1>3, <2>3 DEF Recheck
    <3>2. B' = B \union {<<t, k>>}
      BY <1>3, <2>3 DEF Recheck
    <3>3. \A u \in Thread : <<u, k>> \notin B
      BY <2>1 DEF SemaphoreInv, InSemaphore, SemaphoreOf
    <3> QED BY <2>1, <2>3, <3>1, <3>2, <3>3 DEF Promise!Next, Promise!Begin
  <2> QED BY <2>2, <2>3
<1>4. ASSUME NEW t \in Thread, FactoryReturns(t)
      PROVE [Promise!Next]_(Promise!vars)
  <2>1. B' = B /\ dict' = dict /\ G' = G
    BY <1>4 DEF FactoryReturns
  <2> QED BY <2>1 DEF Promise!vars
<1>5. ASSUME NEW t \in Thread, FactoryThrows(t)
      PROVE [Promise!Next]_(Promise!vars)
  <2>0. dict' = dict /\ arg[t] \in Key /\ <<t, arg[t]>> \in B
    BY <1>5 DEF FactoryThrows
  <2>1. B' = B \ {<<t, arg[t]>>}
    BY <1>5 DEF FactoryThrows
  <2>2. G' = G
    BY <1>5 DEF FactoryThrows, ValueInHand
  <2> QED BY <2>0, <2>1, <2>2 DEF Promise!Next, Promise!Fail
<1>6. ASSUME NEW t \in Thread, Store(t) PROVE [Promise!Next]_(Promise!vars)
  <2>0. arg[t] \in Key /\ <<t, arg[t]>> \in B
    BY <1>6 DEF Store
  <2>1. B' = B \ {<<t, arg[t]>>}
    BY <1>6 DEF Store
  <2>2. G' = [G EXCEPT ![t] = dict'[arg[t]]]
    BY <1>6 DEF Store
  <2>3. dict' = [dict EXCEPT ![arg[t]] = IF @ = NoValue THEN val[t] ELSE @]
    BY <1>6 DEF Store
  <2>4. val[t] \in Value
    BY <1>6 DEF Store, ValueInHand
  <2>5. \E k \in Key : Promise!End(t, k)
    BY <2>0, <2>1, <2>2, <2>3, <2>4 DEF Promise!End
  <2> QED BY <2>5 DEF Promise!Next
<1>7. ASSUME NEW t \in Thread, Release(t) PROVE [Promise!Next]_(Promise!vars)
  <2>1. B' = B /\ dict' = dict /\ G' = G
    BY <1>7 DEF Release
  <2> QED BY <2>1 DEF Promise!vars
<1>8. ASSUME NEW t \in Thread, Return(t) PROVE [Promise!Next]_(Promise!vars)
  <2>1. B' = B /\ dict' = dict /\ G' = [G EXCEPT ![t] = NoValue]
    BY <1>8 DEF Return
  <2> QED BY <2>1 DEF Promise!Next, Promise!Forget
<1>9. ASSUME UNCHANGED <<pc, arg, val>>, dict' \in [Key -> Value \union {NoValue}]
      PROVE [Promise!Next]_(Promise!vars)
  <2>1. B' = B /\ G' = G
    BY <1>9
  <2> QED BY <1>9, <2>1 DEF Promise!Next, Promise!Change
<1>10. ASSUME NEW k \in Key, TryRemove(k) \/ AddOrUpdate(k)
       PROVE [Promise!Next]_(Promise!vars)
  BY <1>9, <1>10 DEF TryRemove, AddOrUpdate
<1>11. CASE Clear
  BY <1>9, <1>11 DEF Clear
<1>12. CASE UNCHANGED vars
  BY <1>9, <1>12 DEF vars
<1> QED
  BY <1>1, <1>2, <1>3, <1>4, <1>5, <1>6, <1>7, <1>8, <1>10, <1>11, <1>12
     DEF Next, Step

\* GetOrAddAsync with its hash-coded semaphores implements the map: callers
\* get the current entry and only one factory runs for a missing key.
THEOREM DictionaryImplementsMap == Spec => ImplementsMap
<1> QED
  BY Invariance, RefineInit, RefineStep, PTL DEF Spec, Promise!Spec, ImplementsMap
=============================================================================
