--------------------------- MODULE AtomicDictionary --------------------------
(***************************************************************************)
(* AtomicConcurrentDictionary.GetOrAddAsync: a concurrent dictionary whose *)
(* asynchronous value factory runs under a semaphore chosen by the key's   *)
(* hash code.  Removal and replacement come from the base class and do not *)
(* take the semaphore.                                                     *)
(***************************************************************************)
EXTENDS Naturals

CONSTANTS
  Thread,    \* concurrent callers
  Key,
  Hash,      \* hash codes; two keys may share one, and so a semaphore
  HashCode,  \* the hash code of each key
  Value,     \* distinct values factories may build (bounds the executions)
  NoValue

ASSUME HashAssumption == HashCode \in [Key -> Hash]
ASSUME ValueAssumption == NoValue \notin Value

VARIABLES
  dict,   \* the entries of the base ConcurrentDictionary
  count,  \* current count of the semaphore of each hash code
  pc,     \* where each caller is in GetOrAddAsync
  arg,    \* its argument `key`
  val,    \* its local `value`
  made    \* the values built so far: every value is a new object

vars == <<dict, count, pc, arg, val, made>>

Location == {"idle", "wait", "check", "factory", "store", "release", "done"}

TypeOK ==
  /\ dict \in [Key -> Value \union {NoValue}]
  /\ count \in [Hash -> Nat]
  /\ pc \in [Thread -> Location]
  /\ arg \in [Thread -> Key]
  /\ val \in [Thread -> Value \union {NoValue}]
  /\ made \in SUBSET Value

\* Mutant of Init: semaphores that admit two threads.
InitWide ==
  /\ dict = [k \in Key |-> NoValue]
  /\ count = [h \in Hash |-> 2]
  /\ pc = [t \in Thread |-> "idle"]
  /\ arg \in [Thread -> Key]
  /\ val = [t \in Thread |-> NoValue]
  /\ made = {}

Init ==
  /\ dict = [k \in Key |-> NoValue]
  /\ count = [h \in Hash |-> 1]
  /\ pc = [t \in Thread |-> "idle"]
  /\ arg \in [Thread -> Key]
  /\ val = [t \in Thread |-> NoValue]
  /\ made = {}

Goto(t, l) == pc' = [pc EXCEPT ![t] = l]

SemaphoreOf(t) == HashCode[arg[t]]

\* The first lookup, outside the semaphore.
TryGetValue(t, k) ==
  /\ pc[t] = "idle"
  /\ arg' = [arg EXCEPT ![t] = k]
  /\ \/ /\ dict[k] # NoValue
        /\ val' = [val EXCEPT ![t] = dict[k]]
        /\ Goto(t, "done")
     \/ /\ dict[k] = NoValue
        /\ val' = val
        /\ Goto(t, "wait")
  /\ UNCHANGED <<dict, count, made>>

\* Mutant of WaitAsync: the caller does not wait.
WaitAsyncAnyway(t) ==
  /\ pc[t] = "wait"
  /\ count' = [count EXCEPT ![SemaphoreOf(t)] = @ - 1]
  /\ Goto(t, "check")
  /\ UNCHANGED <<dict, arg, val, made>>

WaitAsync(t) ==
  /\ pc[t] = "wait"
  /\ count[SemaphoreOf(t)] > 0
  /\ count' = [count EXCEPT ![SemaphoreOf(t)] = @ - 1]
  /\ Goto(t, "check")
  /\ UNCHANGED <<dict, arg, val, made>>

\* The second lookup, inside the semaphore.
Recheck(t) ==
  /\ pc[t] = "check"
  /\ \/ /\ dict[arg[t]] # NoValue
        /\ val' = [val EXCEPT ![t] = dict[arg[t]]]
        /\ Goto(t, "release")
     \/ /\ dict[arg[t]] = NoValue
        /\ val' = val
        /\ Goto(t, "factory")
  /\ UNCHANGED <<dict, count, arg, made>>

FactoryReturns(t) ==
  /\ pc[t] = "factory"
  /\ \E v \in Value \ made :
       /\ val' = [val EXCEPT ![t] = v]
       /\ made' = made \union {v}
  /\ Goto(t, "store")
  /\ UNCHANGED <<dict, count, arg>>

\* Mutant of FactoryThrows: no finally block releases the semaphore.
FactoryThrowsOut(t) ==
  /\ pc[t] = "factory"
  /\ Goto(t, "done")
  /\ UNCHANGED <<dict, count, arg, val, made>>

FactoryThrows(t) ==
  /\ pc[t] = "factory"
  /\ Goto(t, "release")
  /\ UNCHANGED <<dict, count, arg, val, made>>

\* Mutant of Store: the caller is given its own value (TryAdd).
StoreOwn(t) ==
  /\ pc[t] = "store"
  /\ dict' = [dict EXCEPT ![arg[t]] = IF @ = NoValue THEN val[t] ELSE @]
  /\ Goto(t, "release")
  /\ UNCHANGED <<count, arg, val, made>>

\* base.GetOrAdd: an entry that appeared during the factory wins.
Store(t) ==
  /\ pc[t] = "store"
  /\ dict' = [dict EXCEPT ![arg[t]] = IF @ = NoValue THEN val[t] ELSE @]
  /\ val' = [val EXCEPT ![t] = dict'[arg[t]]]
  /\ Goto(t, "release")
  /\ UNCHANGED <<count, arg, made>>

\* The finally block, on every path that entered the semaphore.
Release(t) ==
  /\ pc[t] = "release"
  /\ count' = [count EXCEPT ![SemaphoreOf(t)] = @ + 1]
  /\ Goto(t, "done")
  /\ UNCHANGED <<dict, arg, val, made>>

Return(t) ==
  /\ pc[t] = "done"
  /\ val' = [val EXCEPT ![t] = NoValue]
  /\ Goto(t, "idle")
  /\ UNCHANGED <<dict, count, arg, made>>

\* Operations of the base class that the channel pool uses directly.
TryRemove(k) ==
  /\ dict[k] # NoValue
  /\ dict' = [dict EXCEPT ![k] = NoValue]
  /\ UNCHANGED <<count, pc, arg, val, made>>

AddOrUpdate(k) ==
  /\ \E v \in Value \ made :
       /\ dict' = [dict EXCEPT ![k] = v]
       /\ made' = made \union {v}
  /\ UNCHANGED <<count, pc, arg, val>>

Clear ==
  /\ dict' = [k \in Key |-> NoValue]
  /\ UNCHANGED <<count, pc, arg, val, made>>

Step(t) ==
  \/ WaitAsync(t)
  \/ Recheck(t)
  \/ FactoryReturns(t)
  \/ FactoryThrows(t)
  \/ Store(t)
  \/ Release(t)
  \/ Return(t)

Next ==
  \/ \E t \in Thread, k \in Key : TryGetValue(t, k)
  \/ \E t \in Thread : Step(t)
  \/ \E k \in Key : TryRemove(k) \/ AddOrUpdate(k)
  \/ Clear

Spec == Init /\ [][Next]_vars

\* A started call keeps running.  The factory ends because CreateChannel has
\* a deadline and a retry limit.  SemaphoreSlim queues its asynchronous
\* waiters and wakes the head of the queue, hence strong fairness of the wait.
Fairness ==
  \A t \in Thread :
    /\ SF_vars(WaitAsync(t))
    /\ WF_vars(Recheck(t) \/ FactoryReturns(t) \/ FactoryThrows(t)
               \/ Store(t) \/ Release(t) \/ Return(t))

FairSpec == Spec /\ Fairness
-----------------------------------------------------------------------------
InSemaphore(t) == pc[t] \in {"check", "factory", "store", "release"}

Building(t) == pc[t] \in {"factory", "store"}

\* At most one thread runs the value factory of a key: two callers that miss
\* at the same time must not open two channels to the same endpoint.
OneFactoryPerKey ==
  \A t, u \in Thread :
    Building(t) /\ Building(u) /\ arg[t] = arg[u] => t = u

\* A caller always gets out again, whatever the other callers and their
\* factories do: a factory that throws must not keep the semaphore.
CallTerminates ==
  \A t \in Thread : pc[t] # "idle" ~> pc[t] = "idle"

\* A semaphore is only ever closed by a caller that is inside: whoever waits
\* waits for one that goes on to release, also when a factory has thrown.
NoPermitLost ==
  \A h \in Hash : count[h] = 0 =>
    \E t \in Thread : InSemaphore(t) /\ SemaphoreOf(t) = h

\* A semaphore count is 0 or 1, it is 0 while a thread is inside, and at most
\* one thread is inside.
SemaphoreInv ==
  /\ \A h \in Hash : count[h] \in {0, 1}
  /\ \A t \in Thread : InSemaphore(t) => count[SemaphoreOf(t)] = 0
  /\ \A t, u \in Thread :
       InSemaphore(t) /\ InSemaphore(u) /\ SemaphoreOf(t) = SemaphoreOf(u)
         => t = u

\* A caller that has not looked up or built anything holds no value, and one
\* about to store holds what its factory built.
ValueInHand ==
  \A t \in Thread :
    /\ pc[t] \in {"idle", "wait", "check", "factory"} => val[t] = NoValue
    /\ pc[t] = "store" => val[t] # NoValue

\* The inductive invariant.
IInv == TypeOK /\ SemaphoreInv /\ ValueInHand /\ NoPermitLost

\* The dictionary with its semaphores implements the map of AtomicMap.
Promise ==
  INSTANCE AtomicMap WITH
    map <- dict,
    building <- {p \in Thread \X Key : Building(p[1]) /\ arg[p[1]] = p[2]},
    got <- [t \in Thread |->
              IF pc[t] \in {"release", "done"} THEN val[t] ELSE NoValue]

\* Every caller is given the entry the dictionary holds at that moment, even
\* when another thread replaced it while the factory ran; a factory starts
\* only on a missing key that nobody else is building.
ImplementsMap == Promise!Spec
=============================================================================
