------------------------------ MODULE AtomicMap ------------------------------
(***************************************************************************)
(* What AtomicConcurrentDictionary promises the channel pool, without the  *)
(* semaphores: a map in which a missing key is built by one thread at a    *)
(* time, in which a caller is only ever given the value that the map holds *)
(* at that moment, and from which others may remove or replace entries.    *)
(***************************************************************************)
EXTENDS Naturals

CONSTANTS Thread, Key, Value, NoValue

VARIABLES
  map,       \* the entry of each key, NoValue when there is none
  building,  \* the pairs <<t, k>> such that t runs the value factory for k
  got        \* what each caller has been given, NoValue while it has nothing

vars == <<map, building, got>>

Init ==
  /\ map = [k \in Key |-> NoValue]
  /\ building = {}
  /\ got = [t \in Thread |-> NoValue]

\* A caller is given the present entry.
Read(t, k) ==
  /\ map[k] # NoValue
  /\ got' = [got EXCEPT ![t] = map[k]]
  /\ UNCHANGED <<map, building>>

\* A factory starts only for a missing key nobody else is building.
Begin(t, k) ==
  /\ map[k] = NoValue
  /\ \A u \in Thread : <<u, k>> \notin building
  /\ building' = building \union {<<t, k>>}
  /\ UNCHANGED <<map, got>>

Fail(t, k) ==
  /\ <<t, k>> \in building
  /\ building' = building \ {<<t, k>>}
  /\ UNCHANGED <<map, got>>

\* The built value becomes the entry unless one appeared meanwhile; either
\* way the builder is given the entry.
End(t, k) ==
  /\ <<t, k>> \in building
  /\ \E v \in Value : map' = [map EXCEPT ![k] = IF @ = NoValue THEN v ELSE @]
  /\ got' = [got EXCEPT ![t] = map'[k]]
  /\ building' = building \ {<<t, k>>}

Forget(t) ==
  /\ got' = [got EXCEPT ![t] = NoValue]
  /\ UNCHANGED <<map, building>>

\* Entries removed (TryRemove, Clear) or replaced (AddOrUpdate) by others.
Change ==
  /\ map' \in [Key -> Value \union {NoValue}]
  /\ UNCHANGED <<building, got>>

Next ==
  \/ \E t \in Thread, k \in Key :
       Read(t, k) \/ Begin(t, k) \/ Fail(t, k) \/ End(t, k)
  \/ \E t \in Thread : Forget(t)
  \/ Change

Spec == Init /\ [][Next]_vars
=============================================================================
