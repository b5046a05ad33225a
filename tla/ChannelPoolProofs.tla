-------------------------- MODULE ChannelPoolProofs --------------------------
(***************************************************************************)
(* Proofs about ChannelPool for any number of callers, endpoints, servers  *)
(* that fail and lists that change, overlapping as they like: its types,   *)
(* that a failover finds the list cached, that only channels that have     *)
(* connected are pooled, that callers share one channel per endpoint while *)
(* nothing goes wrong, that a channel belongs to the call that creates it  *)
(* until it is published, where leaked channels, dead entries and stray    *)
(* entries come from (ChannelLeaks), that every step of a call brings it   *)
(* nearer to its end, and that the pool uses its dictionary as AtomicMap   *)
(* allows.                                                                 *)
(***************************************************************************)
EXTENDS ChannelLeaks, TLAPS

USE NamesAssumption, BoundAssumption

HasConnected(c) == state[c] \in {"ready", "lost", "shut"}

\* What each place of GetChannel relies on.
ControlAt(t) ==
  /\ phase[t] # "first" =>
       /\ cache # NoList
       /\ pc[t] \notin {"idle", "fetch", "commit", "sweep", "sweeping"}
       /\ key[t] \in Endpoint
  /\ pc[t] \in {"sweep", "sweeping", "select", "getoradd", "connect", "store",
                "check", "update"} => cache # NoList
  /\ pc[t] \in {"getoradd", "connect", "store", "check", "update"} =>
       key[t] \in Endpoint
  /\ pc[t] = "connect" => phase[t] # "first"
  /\ pc[t] \in {"connect", "store", "check", "update"} => chan[t] \in Channel
  /\ phase[t] # "first" /\ pc[t] \in {"lookup", "select", "connect"} =>
       tries[t] <= 2
  /\ pc[t] \in {"store", "update"} => HasConnected(chan[t])

ControlInv == \A t \in Thread : ControlAt(t)

PoolInv == TypeOK /\ ControlInv /\ EntriesConnected

\* Initially nothing is cached, pooled or in progress.
LEMMA InvInit == Init => PoolInv
<1> SUFFICES ASSUME Init PROVE PoolInv
  OBVIOUS
<1>1. TypeOK
  <2>1. /\ up \in Lists /\ health \in Lists /\ polling \in BOOLEAN /\ news \in BOOLEAN
        /\ seen \in [Event -> Nat] /\ (cache = NoList \/ cache \in Lists)
    BY DEF Init
  <2>2. /\ target \in [Channel -> Endpoint \union {NoEndpoint}]
        /\ state \in [Channel -> {"unused", "new", "ready", "lost", "shut"}]
    BY DEF Init
  <2>3. /\ channels \in [Endpoint -> Channel \union {NoChannel}]
        /\ building \in SUBSET (Thread \X Endpoint)
        /\ got \in [Thread -> Channel \union {NoChannel}]
    BY DEF Init, Map!Init
  <2>4. /\ list \in [Process -> Lists]
        /\ todo \in [Process -> SUBSET (Endpoint \X Channel)]
    BY DEF Init, Lists
  <2> QED BY <2>1, <2>2, <2>3, <2>4 DEF Init, TypeOK
<1>2. ControlInv
  BY DEF Init, ControlInv, ControlAt, Process
<1>3. EntriesConnected
  BY DEF Init, EntriesConnected, Map!Init
<1> QED BY <1>1, <1>2, <1>3 DEF PoolInv
-----------------------------------------------------------------------------
\* A new channel object is one that nobody uses yet.
LEMMA NewChannelTypes ==
  ASSUME TypeOK, NEW t \in Thread, NEW e \in Endpoint, NewChannel(t, e)
  PROVE  /\ target' \in [Channel -> Endpoint \union {NoEndpoint}]
         /\ state' \in [Channel -> {"unused", "new", "ready", "lost", "shut"}]
         /\ chan' \in [Thread -> Channel \union {NoChannel}]
         /\ chan'[t] \in Channel
         /\ \A u \in Thread \ {t} : chan'[u] = chan[u]
         /\ \A c \in Channel : HasConnected(c) => state'[c] = state[c]
  BY DEF TypeOK, NewChannel, HasConnected

\* An exception keeps the types.
LEMMA ThrowsTypes ==
  ASSUME TypeOK, NEW t \in Thread, Throws(t)
  PROVE  /\ pc' = [pc EXCEPT ![t] = "done"]
         /\ chan' = [chan EXCEPT ![t] = NoChannel]
         /\ channels' = channels /\ got' = got
         /\ building' \in SUBSET (Thread \X Endpoint)
  BY DEF TypeOK, Throws, Goto, dictVars, Map!Fail

\* Every step of a call, of the handler and of the environment keeps the types.
LEMMA TypeStep == PoolInv /\ [Next]_vars => TypeOK'
<1> SUFFICES ASSUME PoolInv, [Next]_vars PROVE TypeOK'
  OBVIOUS
<1> TypeOK /\ ControlInv
  BY DEF PoolInv
<1> USE DEF Goto, Process, Event, NoChannel
<1>0. UNCHANGED vars => TypeOK'
  BY DEF TypeOK, vars, envVars, chanVars, dictVars, localVars
<1>1. ASSUME Environment PROVE TypeOK'
  <2>1. ASSUME NEW e \in Endpoint, Flip(e) PROVE TypeOK'
    BY <2>1 DEF TypeOK, Flip, Count, chanVars, dictVars, localVars, Lists
  <2>2. ASSUME NEW c \in Channel, LoseConnection(c) PROVE TypeOK'
    BY <2>2 DEF TypeOK, LoseConnection, Count, envVars, dictVars, localVars
  <2>3. ASSUME NEW c \in Channel, Reconnect(c) PROVE TypeOK'
    BY <2>3 DEF TypeOK, Reconnect, envVars, dictVars, localVars
  <2>4. CASE HealthChanges
    BY <2>4 DEF TypeOK, HealthChanges, Count, chanVars, dictVars, localVars
  <2> QED BY <1>1, <2>1, <2>2, <2>3, <2>4 DEF Environment
<1>2. ASSUME NEW t \in Thread, GetChannel(t) PROVE TypeOK'
  BY <1>2 DEF TypeOK, GetChannel, Count, envVars, chanVars, dictVars
<1>3. ASSUME NEW t \in Thread, LookupHit(t) PROVE TypeOK'
  <2>1. CASE cache # {} /\ Goto(t, "select") /\ UNCHANGED <<dictVars, chan>>
    BY <1>3, <2>1 DEF TypeOK, LookupHit, envVars, chanVars, dictVars
  <2>2. CASE Throws(t)
    BY <1>3, <2>2, ThrowsTypes DEF TypeOK, LookupHit, envVars, chanVars
  <2> QED BY <1>3, <2>1, <2>2 DEF LookupHit
<1>4. ASSUME NEW t \in Thread, LookupMiss(t) \/ FetchAnswers(t) PROVE TypeOK'
  <2>1. CASE LookupMiss(t)
    BY <2>1 DEF TypeOK, LookupMiss, envVars, chanVars, dictVars, localVars
  <2>2. CASE FetchAnswers(t)
    BY <2>2 DEF TypeOK, FetchAnswers, chanVars, dictVars
  <2> QED BY <1>4, <2>1, <2>2
<1>5. ASSUME NEW t \in Thread, FetchFails(t) PROVE TypeOK'
  BY <1>5, ThrowsTypes DEF TypeOK, FetchFails, Count, envVars, chanVars
<1>6. ASSUME NEW t \in Thread, Commit(t) PROVE TypeOK'
  <2>1. CASE Goto(t, "sweep") /\ UNCHANGED <<dictVars, chan>>
    BY <1>6, <2>1 DEF TypeOK, Commit, envVars, chanVars, dictVars
  <2>2. CASE Throws(t)
    BY <1>6, <2>2, ThrowsTypes DEF TypeOK, Commit, envVars, chanVars
  <2> QED BY <1>6, <2>1, <2>2 DEF Commit
<1>7. ASSUME NEW p \in Process, SweepStart(p) PROVE TypeOK'
  BY <1>7 DEF TypeOK, SweepStart, envVars, chanVars, dictVars
<1>8. ASSUME NEW p \in Process, SweepShut(p) \/ SweepOne(p) PROVE TypeOK'
  BY <1>8 DEF TypeOK, SweepShut, SweepOne, envVars, chanVars, dictVars, localVars
<1>9. ASSUME NEW p \in Process, SweepEnd(p) PROVE TypeOK'
  BY <1>9 DEF TypeOK, SweepEnd, envVars, chanVars, dictVars, localVars
<1>10. ASSUME NEW t \in Thread, Select(t) PROVE TypeOK'
  <2>1. PICK e \in list[t] :
          \/ /\ key' = [key EXCEPT ![t] = e]
             /\ Goto(t, "getoradd")
             /\ UNCHANGED <<chanVars, chan>>
          \/ /\ NewChannel(t, e)
             /\ Goto(t, "connect")
             /\ UNCHANGED key
    BY <1>10 DEF Select
  <2>2. e \in Endpoint
    BY DEF TypeOK, Lists
  <2>3. CASE UNCHANGED <<chanVars, chan>> /\ key' = [key EXCEPT ![t] = e]
             /\ Goto(t, "getoradd")
    BY <1>10, <2>2, <2>3 DEF TypeOK, Select, envVars, chanVars, dictVars
  <2>4. CASE NewChannel(t, e) /\ Goto(t, "connect") /\ UNCHANGED key
    BY <1>10, <2>2, <2>4, NewChannelTypes DEF TypeOK, Select, envVars, dictVars
  <2> QED BY <2>1, <2>3, <2>4
<1>11. ASSUME NEW t \in Thread, EntryFound(t) PROVE TypeOK'
  <2>1. key[t] \in Endpoint
    BY <1>11 DEF EntryFound, ControlInv, ControlAt
  <2> QED BY <1>11, <2>1 DEF TypeOK, EntryFound, Map!Read, envVars, chanVars
<1>12. ASSUME NEW t \in Thread, FactoryBegins(t) PROVE TypeOK'
  <2>1. key[t] \in Endpoint
    BY <1>12 DEF FactoryBegins, ControlInv, ControlAt
  <2>2. NewChannel(t, key[t])
    BY <1>12 DEF FactoryBegins
  <2> QED BY <1>12, <2>1, <2>2, NewChannelTypes
          DEF TypeOK, FactoryBegins, Map!Begin, envVars
<1>13. ASSUME NEW t \in Thread, FactoryEnds(t) PROVE TypeOK'
  <2>1. key[t] \in Endpoint /\ chan[t] \in Channel
    BY <1>13 DEF FactoryEnds, ControlInv, ControlAt
  <2>2. channels' \in [Endpoint -> Channel \union {NoChannel}]
    BY <1>13, <2>1 DEF TypeOK, FactoryEnds
  <2>3. got' \in [Thread -> Channel \union {NoChannel}]
    BY <1>13, <2>1, <2>2 DEF TypeOK, FactoryEnds, Map!End
  <2>4. building' \in SUBSET (Thread \X Endpoint)
    BY <1>13 DEF TypeOK, FactoryEnds, Map!End
  <2>5. chan' \in [Thread -> Channel \union {NoChannel}]
    BY <1>13, <2>1, <2>2 DEF TypeOK, FactoryEnds
  <2> QED BY <1>13, <2>2, <2>3, <2>4, <2>5 DEF TypeOK, FactoryEnds, envVars, chanVars
<1>14. ASSUME NEW t \in Thread, ChannelReady(t) \/ Connected(t) PROVE TypeOK'
  BY <1>14 DEF TypeOK, ChannelReady, Connected, envVars, chanVars, dictVars, localVars
<1>15. ASSUME NEW t \in Thread, Rebuild(t) PROVE TypeOK'
  <2>1. key[t] \in Endpoint /\ chan[t] \in Channel
    BY <1>15 DEF Rebuild, ControlInv, ControlAt
  <2> QED BY <1>15, <2>1 DEF TypeOK, Rebuild, envVars, dictVars
<1>16. ASSUME NEW t \in Thread, Update(t) PROVE TypeOK'
  <2>1. key[t] \in Endpoint /\ chan[t] \in Channel
    BY <1>16 DEF Update, ControlInv, ControlAt
  <2> QED BY <1>16, <2>1 DEF TypeOK, Update, envVars, chanVars, localVars
<1>17. ASSUME NEW t \in Thread, ConnectSucceeds(t) PROVE TypeOK'
  BY <1>17 DEF TypeOK, ConnectSucceeds, envVars, dictVars, localVars
<1>18. ASSUME NEW t \in Thread, ConnectFails(t) PROVE TypeOK'
  <2>1. tries[t] \in 0 .. 2
    BY <1>18 DEF TypeOK, ConnectFails, ControlInv, ControlAt
  <2>2. tries' \in [Thread -> 0 .. 3]
    BY <1>18, <2>1 DEF TypeOK, ConnectFails
  <2>3. CASE Goto(t, "lookup") /\ UNCHANGED <<dictVars, chan>>
    BY <1>18, <2>2, <2>3 DEF TypeOK, ConnectFails, envVars, chanVars, dictVars
  <2>4. CASE Throws(t)
    BY <1>18, <2>2, <2>4, ThrowsTypes DEF TypeOK, ConnectFails, envVars, chanVars
  <2> QED BY <1>18, <2>3, <2>4 DEF ConnectFails
<1>19. ASSUME NEW t \in Thread, Return(t) PROVE TypeOK'
  BY <1>19 DEF TypeOK, Return, Map!Forget, envVars, chanVars, Lists
<1>20. ASSUME ServiceChanged PROVE TypeOK'
  BY <1>20 DEF TypeOK, ServiceChanged, envVars, chanVars, dictVars
<1>21. ASSUME EmptyListIgnored PROVE TypeOK'
  BY <1>21 DEF TypeOK, EmptyListIgnored, envVars, chanVars, dictVars, localVars
<1>22. ASSUME ShutdownChannels \/ ShutdownThrows \/ ClearChannels PROVE TypeOK'
  BY <1>22 DEF TypeOK, ShutdownChannels, ShutdownThrows, ShutDown, ClearChannels,
     envVars, chanVars, dictVars,
       localVars
<1> QED
  BY <1>0, <1>1, <1>2, <1>3, <1>4, <1>5, <1>6, <1>7, <1>8, <1>9, <1>10, <1>11, <1>12,
     <1>13, <1>14, <1>15, <1>16, <1>17, <1>18, <1>19, <1>20, <1>21, <1>22
     DEF Next, CallStep, Sweep
-----------------------------------------------------------------------------
\* No step forgets that a channel has connected.
LEMMA ConnectedStays ==
  ASSUME PoolInv, [Next]_vars
  PROVE  \A c \in Channel : HasConnected(c) => HasConnected(c)'
<1> SUFFICES ASSUME NEW c \in Channel, HasConnected(c) PROVE HasConnected(c)'
  OBVIOUS
<1> TypeOK /\ ControlInv
  BY DEF PoolInv
<1> USE DEF HasConnected
<1>1. CASE UNCHANGED state
  BY <1>1
<1>2. ASSUME NEW d \in Channel, LoseConnection(d) \/ Reconnect(d) PROVE HasConnected(c)'
  BY <1>2 DEF TypeOK, LoseConnection, Reconnect
<1>3. ASSUME NEW p \in Process, SweepShut(p) PROVE HasConnected(c)'
  BY <1>3 DEF TypeOK, SweepShut
<1>4. ASSUME NEW t \in Thread, NEW e, NewChannel(t, e) PROVE HasConnected(c)'
  BY <1>4 DEF TypeOK, NewChannel
<1>5. ASSUME NEW t \in Thread, Rebuild(t) PROVE HasConnected(c)'
  BY <1>5 DEF TypeOK, Rebuild
<1>6. ASSUME NEW t \in Thread, ConnectSucceeds(t) PROVE HasConnected(c)'
  BY <1>6 DEF TypeOK, ConnectSucceeds
<1>7. CASE ShutdownChannels \/ ShutdownThrows
  BY <1>7 DEF TypeOK, ShutdownChannels, ShutdownThrows, ShutDown, Pooled
<1>8. ASSUME NEW t \in Thread, Select(t) PROVE HasConnected(c)'
  BY <1>1, <1>4, <1>8 DEF Select, chanVars
<1>9. ASSUME NEW t \in Thread, FactoryBegins(t) PROVE HasConnected(c)'
  BY <1>4, <1>9 DEF FactoryBegins
<1>10. ASSUME NEW t \in Thread,
              \/ GetChannel(t) \/ LookupHit(t) \/ LookupMiss(t) \/ FetchAnswers(t)
              \/ FetchFails(t) \/ Commit(t) \/ EntryFound(t) \/ FactoryEnds(t)
              \/ ChannelReady(t) \/ Update(t) \/ ConnectFails(t) \/ Connected(t)
              \/ Return(t)
       PROVE UNCHANGED state
  BY <1>10 DEF GetChannel, LookupHit, LookupMiss, FetchAnswers, FetchFails, Commit,
       EntryFound, FactoryEnds, ChannelReady, Update, ConnectFails, Connected, Return,
       chanVars
<1>11. ASSUME NEW p \in Process, SweepStart(p) \/ SweepOne(p) \/ SweepEnd(p)
       PROVE UNCHANGED state
  BY <1>11 DEF SweepStart, SweepOne, SweepEnd, chanVars
<1>12. ASSUME \/ ServiceChanged \/ EmptyListIgnored \/ ClearChannels \/ HealthChanges
              \/ \E e \in Endpoint : Flip(e)
              \/ UNCHANGED vars
       PROVE UNCHANGED state
  BY <1>12 DEF ServiceChanged, EmptyListIgnored, ClearChannels, HealthChanges, Flip,
       vars, chanVars
<1> QED
  BY <1>1, <1>2, <1>3, <1>5, <1>6, <1>7, <1>8, <1>9, <1>10, <1>11, <1>12
     DEF Next, CallStep, Sweep, Environment, Process

\* Nothing is ever removed from the address cache.
LEMMA CacheStays ==
  ASSUME PoolInv, [Next]_vars, cache # NoList
  PROVE  cache' # NoList
<1> TypeOK
  BY DEF PoolInv
<1>1. ASSUME NEW t \in Thread, Commit(t) PROVE cache' # NoList
  BY <1>1 DEF TypeOK, Commit, Process
<1>2. CASE ServiceChanged
  BY <1>2 DEF TypeOK, ServiceChanged
<1>3. ASSUME NEW t \in Thread, GetChannel(t) \/ CallStep(t), ~Commit(t)
      PROVE UNCHANGED cache
  BY <1>3 DEF CallStep, GetChannel, LookupHit, LookupMiss, FetchAnswers, FetchFails,
       Sweep, SweepStart, SweepShut, SweepOne, SweepEnd, Select, EntryFound, FactoryBegins,
       FactoryEnds, ChannelReady, Rebuild, Update, ConnectSucceeds, ConnectFails,
       Connected, Return
<1>4. ASSUME \/ EmptyListIgnored \/ Sweep(Notifier) \/ ShutdownChannels
             \/ ShutdownThrows \/ ClearChannels \/ Environment \/ UNCHANGED vars
      PROVE UNCHANGED cache
  BY <1>4 DEF EmptyListIgnored, Sweep, SweepStart, SweepShut, SweepOne, SweepEnd,
       ShutdownChannels, ShutdownThrows, ShutDown, ClearChannels, Environment, Flip,
       LoseConnection, Reconnect,
       HealthChanges, vars
<1> QED
  BY <1>1, <1>2, <1>3, <1>4 DEF Next

\* What a place relies on is not disturbed by the steps of other processes.
LEMMA ControlUndisturbed ==
  ASSUME PoolInv, [Next]_vars, NEW u \in Thread,
         pc'[u] = pc[u], phase'[u] = phase[u], key'[u] = key[u],
         chan'[u] = chan[u], tries'[u] = tries[u]
  PROVE  ControlAt(u)'
  BY ConnectedStays, CacheStays DEF PoolInv, ControlInv, ControlAt

\* An exception ends the call.
LEMMA ControlThrows ==
  ASSUME PoolInv, NEW t \in Thread, Throws(t), phase'[t] = phase[t],
         key'[t] = key[t], [Next]_vars
  PROVE  ControlAt(t)'
<1>1. pc'[t] = "done"
  BY DEF PoolInv, TypeOK, Throws, Goto, Process
<1> QED
  BY <1>1, CacheStays DEF PoolInv, ControlInv, ControlAt

\* Every step of a call leaves it at a place whose conditions hold.
LEMMA CallControl ==
  ASSUME PoolInv, [Next]_vars, NEW t \in Thread, GetChannel(t) \/ CallStep(t)
  PROVE  ControlAt(t)'
<1> TypeOK /\ ControlAt(t)
  BY DEF PoolInv, ControlInv
<1> USE DEF Goto, Process
<1>1. CASE GetChannel(t)
  BY <1>1 DEF TypeOK, GetChannel, ControlAt
<1>2. CASE LookupHit(t)
  <2>1. CASE Throws(t)
    BY <1>2, <2>1, ControlThrows DEF LookupHit
  <2>2. CASE Goto(t, "select") /\ UNCHANGED <<dictVars, chan>>
    BY <1>2, <2>2 DEF TypeOK, LookupHit, ControlAt
  <2> QED BY <1>2, <2>1, <2>2 DEF LookupHit
<1>3. CASE LookupMiss(t)
  BY <1>3 DEF TypeOK, LookupMiss, ControlAt, localVars
<1>4. CASE FetchAnswers(t)
  BY <1>4 DEF TypeOK, FetchAnswers, ControlAt
<1>5. CASE FetchFails(t)
  BY <1>5, ControlThrows DEF FetchFails
<1>6. CASE Commit(t)
  <2>1. CASE Throws(t)
    BY <1>6, <2>1, ControlThrows DEF Commit
  <2>2. CASE Goto(t, "sweep") /\ UNCHANGED <<dictVars, chan>>
    BY <1>6, <2>2 DEF TypeOK, Commit, ControlAt
  <2> QED BY <1>6, <2>1, <2>2 DEF Commit
<1>7. CASE SweepStart(t)
  BY <1>7 DEF TypeOK, SweepStart, ControlAt
<1>8. CASE SweepShut(t) \/ SweepOne(t)
  BY <1>8, ControlUndisturbed DEF SweepShut, SweepOne, localVars
<1>9. CASE SweepEnd(t)
  <2>1. pc'[t] = "select"
    BY <1>9 DEF TypeOK, SweepEnd
  <2> QED BY <1>9, <2>1 DEF SweepEnd, ControlAt, localVars
<1>10. CASE Select(t)
  <2>1. PICK e \in list[t] :
          \/ /\ phase[t] = "first"
             /\ key' = [key EXCEPT ![t] = e]
             /\ Goto(t, "getoradd")
             /\ UNCHANGED <<chanVars, chan>>
          \/ /\ phase[t] # "first"
             /\ NewChannel(t, e)
             /\ Goto(t, "connect")
             /\ UNCHANGED key
    BY <1>10 DEF Select
  <2>2. e \in Endpoint /\ UNCHANGED <<cache, phase, tries>> /\ pc[t] = "select"
    BY <1>10 DEF TypeOK, Lists, Select
  <2>3. CASE phase[t] = "first" /\ key' = [key EXCEPT ![t] = e] /\ Goto(t, "getoradd")
    BY <2>2, <2>3 DEF TypeOK, ControlAt
  <2>4. CASE phase[t] # "first" /\ NewChannel(t, e) /\ Goto(t, "connect")
             /\ UNCHANGED key
    BY <2>2, <2>4, NewChannelTypes DEF TypeOK, ControlAt
  <2> QED BY <2>1, <2>3, <2>4
<1>11. CASE EntryFound(t)
  BY <1>11 DEF TypeOK, EntryFound, Map!Read, ControlAt
<1>12. CASE FactoryBegins(t)
  <2>1. chan'[t] \in Channel
    BY <1>12, NewChannelTypes DEF FactoryBegins, ControlAt
  <2>2. /\ phase'[t] = "factory" /\ tries'[t] = 0 /\ pc'[t] = "connect"
        /\ UNCHANGED <<cache, key>> /\ pc[t] = "getoradd"
    BY <1>12 DEF TypeOK, FactoryBegins
  <2> QED BY <2>1, <2>2 DEF ControlAt
<1>13. CASE FactoryEnds(t)
  <2>1. /\ phase'[t] = "first" /\ pc'[t] = "check" /\ pc[t] = "store"
        /\ UNCHANGED <<cache, key>>
    BY <1>13 DEF TypeOK, FactoryEnds
  <2>2. chan'[t] \in Channel
    BY <1>13, <2>1 DEF TypeOK, FactoryEnds, ControlAt
  <2> QED BY <2>1, <2>2 DEF ControlAt
<1>14. CASE ChannelReady(t)
  BY <1>14 DEF TypeOK, ChannelReady, ControlAt, localVars
<1>15. CASE Rebuild(t)
  <2>1. /\ phase'[t] = "rebuild" /\ tries'[t] = 0 /\ pc'[t] = "connect"
        /\ UNCHANGED <<cache, key>> /\ pc[t] = "check" /\ chan'[t] \in Channel
    BY <1>15 DEF TypeOK, Rebuild
  <2> QED BY <2>1 DEF ControlAt
<1>16. CASE Update(t)
  BY <1>16 DEF TypeOK, Update, ControlAt, localVars
<1>17. CASE ConnectSucceeds(t)
  BY <1>17, ControlUndisturbed DEF ConnectSucceeds, localVars
<1>18. CASE ConnectFails(t)
  <2>1. CASE Throws(t)
    BY <1>18, <2>1, ControlThrows DEF ConnectFails
  <2>2. CASE tries[t] + 1 <= 2 /\ Goto(t, "lookup")
    BY <1>18, <2>2 DEF TypeOK, ConnectFails, ControlAt
  <2> QED BY <1>18, <2>1, <2>2 DEF ConnectFails
<1>19. CASE Connected(t)
  <2>1. HasConnected(chan[t])'
    BY <1>19 DEF TypeOK, Connected, HasConnected, localVars, chanVars
  <2>2. pc'[t] \in {"store", "update"} /\ UNCHANGED <<cache, phase, key, chan, tries>>
    BY <1>19 DEF TypeOK, Connected, localVars
  <2> QED BY <1>19, <2>1, <2>2 DEF Connected, ControlAt
<1>20. CASE Return(t)
  BY <1>20 DEF TypeOK, Return, ControlAt
<1> QED
  BY <1>1, <1>2, <1>3, <1>4, <1>5, <1>6, <1>7, <1>8, <1>9, <1>10, <1>11, <1>12, <1>13,
     <1>14, <1>15, <1>16, <1>17, <1>18, <1>19, <1>20 DEF CallStep, Sweep

\* A step of one thread leaves the locals of the others alone.
LEMMA OtherThreads ==
  ASSUME PoolInv, [Next]_vars, NEW t \in Thread, GetChannel(t) \/ CallStep(t),
         NEW u \in Thread, u # t
  PROVE  ControlAt(u)'
<1> TypeOK
  BY DEF PoolInv
<1> USE DEF TypeOK, Goto, Process
<1>1. CASE Throws(t) /\ UNCHANGED <<phase, key>>
           /\ (UNCHANGED tries \/ tries' = [tries EXCEPT ![t] = @ + 1])
  BY <1>1, ControlUndisturbed DEF Throws
<1>2. CASE Select(t)
  <2>1. PICK e \in list[t] :
          \/ /\ key' = [key EXCEPT ![t] = e]
             /\ Goto(t, "getoradd")
             /\ UNCHANGED <<chanVars, chan>>
          \/ /\ NewChannel(t, e)
             /\ Goto(t, "connect")
             /\ UNCHANGED key
    BY <1>2 DEF Select
  <2>2. pc'[u] = pc[u] /\ key'[u] = key[u] /\ chan'[u] = chan[u]
    BY <2>1 DEF NewChannel
  <2> QED BY <1>2, <2>2, ControlUndisturbed DEF Select
<1>3. CASE FactoryBegins(t)
  BY <1>3, ControlUndisturbed DEF FactoryBegins, NewChannel
<1>4. CASE Rebuild(t)
  BY <1>4, ControlUndisturbed DEF Rebuild
<1>5. CASE FactoryEnds(t)
  BY <1>5, ControlUndisturbed DEF FactoryEnds
<1>6. CASE GetChannel(t) \/ LookupMiss(t) \/ FetchAnswers(t)
  BY <1>6, ControlUndisturbed DEF GetChannel, LookupMiss, FetchAnswers, localVars
<1>7. CASE SweepStart(t) \/ SweepShut(t) \/ SweepOne(t) \/ SweepEnd(t)
  BY <1>7, ControlUndisturbed DEF SweepStart, SweepShut, SweepOne, SweepEnd, localVars
<1>8. CASE EntryFound(t) \/ ChannelReady(t) \/ Update(t) \/ ConnectSucceeds(t)
           \/ Connected(t)
  BY <1>8, ControlUndisturbed DEF EntryFound, ChannelReady, Update, ConnectSucceeds,
       Connected, localVars
<1>9. CASE Return(t)
  BY <1>9, ControlUndisturbed DEF Return
<1>10. CASE LookupHit(t) \/ Commit(t)
  BY <1>1, <1>10, ControlUndisturbed DEF LookupHit, Commit
<1>11. CASE FetchFails(t)
  BY <1>1, <1>11 DEF FetchFails
<1>12. CASE ConnectFails(t)
  BY <1>1, <1>12, ControlUndisturbed DEF ConnectFails
<1> QED
  BY <1>2, <1>3, <1>4, <1>5, <1>6, <1>7, <1>8, <1>9, <1>10, <1>11, <1>12
     DEF CallStep, Sweep

\* The handler, Shutdown and the environment leave the locals of calls alone.
LEMMA ControlStep == PoolInv /\ [Next]_vars => ControlInv'
<1> SUFFICES ASSUME PoolInv, [Next]_vars, NEW u \in Thread PROVE ControlAt(u)'
  BY DEF ControlInv
<1>1. ASSUME NEW t \in Thread, GetChannel(t) \/ CallStep(t) PROVE ControlAt(u)'
  BY <1>1, CallControl, OtherThreads
<1>2. ASSUME UNCHANGED <<phase, key, chan, tries>>, pc'[u] = pc[u]
      PROVE ControlAt(u)'
  BY <1>2, ControlUndisturbed
<1>3. CASE ServiceChanged \/ Sweep(Notifier)
  BY <1>2, <1>3 DEF ServiceChanged, Sweep, SweepStart, SweepShut, SweepOne, SweepEnd, Goto,
       PoolInv, TypeOK, Process, localVars
<1>4. CASE EmptyListIgnored \/ ShutdownChannels \/ ShutdownThrows \/ ClearChannels
  BY <1>2, <1>4 DEF EmptyListIgnored, ShutdownChannels, ShutdownThrows, ShutDown,
     ClearChannels, localVars
<1>5. CASE Environment
  BY <1>2, <1>5 DEF Environment, Flip, LoseConnection, Reconnect, HealthChanges,
       localVars
<1>6. CASE UNCHANGED vars
  BY <1>2, <1>6 DEF vars, localVars
<1> QED
  BY <1>1, <1>3, <1>4, <1>5, <1>6 DEF Next

\* Only the end of a factory and the update store a channel, and both have
\* left the connection loop.
LEMMA EntriesStep == PoolInv /\ [Next]_vars => EntriesConnected'
<1> SUFFICES ASSUME PoolInv, [Next]_vars, NEW k \in Endpoint,
                    channels'[k] # NoChannel
             PROVE  HasConnected(channels[k])'
  BY DEF EntriesConnected, HasConnected
<1> TypeOK /\ ControlInv /\ EntriesConnected
  BY DEF PoolInv
<1>1. CASE channels'[k] = channels[k]
  <2>1. channels[k] \in Channel /\ HasConnected(channels[k])
    BY <1>1 DEF TypeOK, EntriesConnected, HasConnected
  <2>2. HasConnected(channels[k])'
           <=> state'[channels'[k]] \in {"ready", "lost", "shut"}
    BY DEF HasConnected
  <2>3. state'[channels[k]] \in {"ready", "lost", "shut"}
    BY <2>1, ConnectedStays DEF HasConnected
  <2> QED BY <1>1, <2>2, <2>3
<1>2. ASSUME NEW t \in Thread, FactoryEnds(t) \/ Update(t),
             channels'[k] # channels[k]
      PROVE  HasConnected(channels[k])'
  <2>1. channels'[k] = chan[t] /\ pc[t] \in {"store", "update"}
    BY <1>2 DEF TypeOK, FactoryEnds, Update
  <2>2. chan[t] \in Channel /\ HasConnected(chan[t])
    BY <2>1 DEF ControlInv, ControlAt
  <2>3. state'[chan[t]] \in {"ready", "lost", "shut"}
    BY <2>2, ConnectedStays DEF HasConnected
  <2> QED BY <2>1, <2>3 DEF HasConnected
<1>3. ASSUME NEW p \in Process, SweepOne(p) PROVE channels'[k] = channels[k]
  BY <1>3 DEF TypeOK, SweepOne
<1>4. ASSUME NEW t \in Thread, GetChannel(t) \/ CallStep(t),
             ~(FactoryEnds(t) \/ Update(t) \/ SweepOne(t))
      PROVE UNCHANGED channels
  BY <1>4 DEF CallStep, GetChannel, LookupHit, LookupMiss, FetchAnswers, FetchFails,
       Throws, Map!Fail, Commit, Sweep, SweepStart, SweepShut, SweepEnd, Select, EntryFound,
       Map!Read, FactoryBegins, Map!Begin, ChannelReady, Rebuild, ConnectSucceeds,
       ConnectFails, Connected, Return, Map!Forget, dictVars
<1>5. ASSUME \/ ServiceChanged \/ EmptyListIgnored \/ SweepStart(Notifier)
             \/ SweepShut(Notifier) \/ SweepEnd(Notifier) \/ ShutdownChannels
             \/ ShutdownThrows \/ Environment
             \/ UNCHANGED vars
      PROVE UNCHANGED channels
  BY <1>5 DEF ServiceChanged, EmptyListIgnored, SweepStart, SweepShut, SweepEnd,
       ShutdownChannels, ShutdownThrows, Environment, Flip, LoseConnection, Reconnect,
       HealthChanges,
       vars, dictVars
<1>6. ASSUME ClearChannels PROVE channels'[k] = NoChannel
  BY <1>6 DEF ClearChannels
<1> QED
  BY <1>1, <1>2, <1>3, <1>4, <1>5, <1>6 DEF Next, Sweep, Process
-----------------------------------------------------------------------------
\* The types, the conditions of every place and the connected entries hold in
\* every reachable state.
THEOREM PoolInvariance == Spec => []PoolInv
<1>1. PoolInv /\ [Next]_vars => PoolInv'
  BY TypeStep, ControlStep, EntriesStep DEF PoolInv
<1> QED
  BY InvInit, <1>1, PTL DEF Spec

\* The pool keeps the declared types: in particular no call counts more than
\* three failed attempts.
THEOREM TypeCorrect == Spec => []TypeOK
<1>1. PoolInv => TypeOK
  BY DEF PoolInv
<1> QED
  BY PoolInvariance, <1>1, PTL

\* A failover never has to ask discovery: the list is cached whenever a call
\* is inside CreateChannel, whatever the handler and other calls do.
THEOREM FailoverIsCached == Spec => []FailoverHitsCache
<1>1. PoolInv => FailoverHitsCache
  BY DEF PoolInv, ControlInv, ControlAt, FailoverHitsCache
<1> QED
  BY PoolInvariance, <1>1, PTL

\* Every channel in the pool has been connected, although endpoints and
\* connections come and go while it is created.
THEOREM OnlyConnectedPooled == Spec => []EntriesConnected
<1>1. PoolInv => EntriesConnected
  BY DEF PoolInv
<1> QED
  BY PoolInvariance, <1>1, PTL
-----------------------------------------------------------------------------
\* Sharing: as long as nothing goes wrong, calls never come to rebuild a
\* channel or to choose again, handlers have nothing to sweep, and each open
\* channel is an entry or the one its key's only builder is about to store.
Stable == AllUp /\ seen["losses"] = 0 /\ seen["changes"] = 0

Building(t) == pc[t] \in {"connect", "store"}

SharedCall(t) ==
  /\ pc[t] \in {"commit", "sweep", "sweeping", "select"} => list[t] = health
  /\ pc[t] \in {"getoradd", "connect", "store"} => key[t] \in health
  /\ phase[t] = IF Building(t) THEN "factory" ELSE "first"
  /\ Building(t) =>
       /\ <<t, key[t]>> \in building
       /\ channels[key[t]] = NoChannel
       /\ target[chan[t]] = key[t] /\ state[chan[t]] \in {"new", "ready"}
  /\ pc[t] = "check" => state[chan[t]] = "ready"
  /\ pc[t] # "update" /\ todo[t] = {}
  /\ pool # "open" => pc[t] = "idle"

NoNews == ~news /\ pc[Notifier] = "idle" /\ (cache = NoList \/ cache = health)

OneBuilder ==
  /\ \A t \in Thread, k \in Endpoint :
       <<t, k>> \in building => Building(t) /\ k = key[t]
  /\ \A t, u \in Thread, k \in Endpoint :
       <<t, k>> \in building /\ <<u, k>> \in building => t = u

SharedEntry(k) ==
  channels[k] # NoChannel =>
    /\ k \in health /\ target[channels[k]] = k
    /\ pool = "open" => state[channels[k]] = "ready"

Kept(c) ==
  Open(c) =>
    /\ pool = "open"
    /\ \/ target[c] \in Endpoint /\ channels[target[c]] = c
       \/ \E t \in Thread : Building(t) /\ chan[t] = c

SharingInv ==
  /\ NoNews /\ OneBuilder
  /\ \A t \in Thread : SharedCall(t)
  /\ \A k \in Endpoint : SharedEntry(k)
  /\ \A c \in Channel : Kept(c)

\* Initially no channel exists and nothing is announced.
LEMMA SharingInit == Init => SharingInv
  BY DEF Init, Map!Init, SharingInv, NoNews, OneBuilder, SharedCall, Building,
     SharedEntry, Kept, Open, Process, NoChannel

\* A step that leaves the channels and the building of them alone, made by a
\* call outside of it, disturbs nothing but that call.
LEMMA SharingMoves ==
  ASSUME PoolInv, SharingInv, NEW t \in Thread,
         UNCHANGED <<health, news, target, state, channels, building, pool>>,
         cache' = cache \/ cache' = health,
         ~Building(t), ~Building(t)', SharedCall(t)', pc'[Notifier] = pc[Notifier],
         \A u \in Thread \ {t} :
           /\ pc'[u] = pc[u] /\ phase'[u] = phase[u] /\ list'[u] = list[u]
           /\ key'[u] = key[u] /\ chan'[u] = chan[u] /\ todo'[u] = todo[u]
  PROVE  SharingInv'
<1>1. NoNews'
  BY DEF SharingInv, NoNews
<1>2. \A u \in Thread : SharedCall(u)'
  <2> SUFFICES ASSUME NEW u \in Thread \ {t} PROVE SharedCall(u)'
    OBVIOUS
  <2>1. SharedCall(u)
    BY DEF SharingInv
  <2> QED BY <2>1 DEF SharedCall, Building
<1>3. \A u \in Thread : Building(u)' = Building(u)
  BY DEF Building
<1>4. \A u \in Thread : Building(u) => key'[u] = key[u] /\ chan'[u] = chan[u]
  OBVIOUS
<1>5. OneBuilder'
  BY <1>3, <1>4 DEF SharingInv, OneBuilder
<1>6. \A k \in Endpoint : SharedEntry(k)'
  BY DEF SharingInv, SharedEntry
<1>7. \A c \in Channel : Kept(c)'
  BY <1>3, <1>4 DEF SharingInv, Kept, Open
<1> QED BY <1>1, <1>2, <1>5, <1>6, <1>7 DEF SharingInv

\* In a stable pool no connection is lost.
LEMMA NoneLost ==
  ASSUME PoolInv, SharingInv, NEW c \in Channel PROVE state[c] # "lost"
<1> SUFFICES ASSUME state[c] = "lost" PROVE FALSE
  OBVIOUS
<1>1. Kept(c) /\ Open(c)
  BY DEF SharingInv, Open
<1>2. ASSUME target[c] \in Endpoint, channels[target[c]] = c PROVE FALSE
  BY <1>1, <1>2 DEF SharingInv, SharedEntry, Kept, NoChannel, Channel
<1>3. ASSUME NEW t \in Thread, Building(t), chan[t] = c PROVE FALSE
  BY <1>3 DEF SharingInv, SharedCall
<1> QED BY <1>1, <1>2, <1>3 DEF Kept

\* Trouble is counted: what is stable now has always been.
LEMMA StableBefore ==
  ASSUME PoolInv, [Next]_vars, Stable'
  PROVE  /\ Stable /\ UNCHANGED <<up, health>>
         /\ Environment => \E c \in Channel : Reconnect(c)
<1> TypeOK
  BY DEF PoolInv
<1>1. ASSUME NEW e, NEW n, Count(e, n), e \in Event PROVE seen'[e] = seen[e] + 1 /\ seen'[e] # 0
  BY <1>1 DEF TypeOK, Count
<1>2. ASSUME NEW e \in Endpoint, Flip(e) PROVE FALSE
  BY <1>1, <1>2 DEF Flip, Stable, AllUp, Event
<1>3. ASSUME NEW c \in Channel, LoseConnection(c) PROVE FALSE
  BY <1>1, <1>3 DEF LoseConnection, Stable, Event
<1>4. ASSUME HealthChanges PROVE FALSE
  BY <1>1, <1>4 DEF HealthChanges, Stable, Event
<1>5. ASSUME NEW c \in Channel, Reconnect(c) PROVE UNCHANGED <<seen, up, health>>
  BY <1>5 DEF Reconnect, envVars
<1>6. ASSUME NEW t \in Thread, GetChannel(t) \/ FetchFails(t)
      PROVE  /\ UNCHANGED <<up, health>>
             /\ \A e \in {"flips", "losses", "changes"} : seen'[e] = seen[e]
  BY <1>6 DEF GetChannel, FetchFails, Count, TypeOK, Event, envVars
<1>7. ASSUME NEW t \in Thread, CallStep(t), ~FetchFails(t)
      PROVE  UNCHANGED <<seen, up, health>>
  BY <1>7 DEF CallStep, LookupHit, LookupMiss, FetchAnswers, Commit,
       Sweep, SweepStart, SweepShut, SweepOne, SweepEnd, Select, EntryFound, FactoryBegins,
       FactoryEnds, ChannelReady, Rebuild, Update, ConnectSucceeds, ConnectFails,
       Connected, Return, envVars
<1>8. ASSUME \/ ServiceChanged \/ EmptyListIgnored \/ Sweep(Notifier) \/ ShutdownChannels
             \/ ShutdownThrows \/ ClearChannels \/ UNCHANGED vars
      PROVE UNCHANGED <<seen, up, health>>
  BY <1>8 DEF ServiceChanged, EmptyListIgnored, Sweep, SweepStart, SweepShut, SweepOne, SweepEnd,
       ShutdownChannels, ShutdownThrows, ShutDown, ClearChannels, vars, envVars
<1>9. UNCHANGED up /\ seen'["flips"] = seen["flips"] /\ seen'["losses"] = seen["losses"]
        /\ seen'["changes"] = seen["changes"] => Stable
  BY DEF Stable, AllUp
<1> QED
  BY <1>2, <1>3, <1>4, <1>5, <1>6, <1>7, <1>8, <1>9 DEF Next, Environment

\* An exception outside a factory leaves the dictionary alone.
LEMMA SharingThrows ==
  ASSUME PoolInv, SharingInv, NEW t \in Thread, Throws(t), ~Building(t),
         UNCHANGED <<health, news, target, state, phase, key, todo, pool>>,
         cache' = cache \/ cache' = health,
         \A u \in Thread \ {t} : list'[u] = list[u],
         pool = "open"
  PROVE  SharingInv'
<1>1. SharedCall(t) /\ phase[t] = "first"
  BY DEF SharingInv, SharedCall
<1>2. /\ pc' = [pc EXCEPT ![t] = "done"] /\ chan' = [chan EXCEPT ![t] = NoChannel]
      /\ UNCHANGED <<channels, building>>
  BY <1>1 DEF Throws, Goto, dictVars
<1>3. pc'[t] = "done" /\ pc'[Notifier] = pc[Notifier]
  BY <1>2 DEF PoolInv, TypeOK, Process
<1>4. ~Building(t)' /\ SharedCall(t)'
  BY <1>1, <1>3 DEF Building, SharedCall
<1>5. \A u \in Thread \ {t} : pc'[u] = pc[u] /\ chan'[u] = chan[u]
  BY <1>2 DEF PoolInv, TypeOK, Process
<1> QED BY <1>2, <1>3, <1>4, <1>5, SharingMoves

\* A call whose steps stay outside of CreateChannel shares what is there.
LEMMA SharingOutside ==
  ASSUME PoolInv, SharingInv, NEW t \in Thread, UNCHANGED health,
         \/ GetChannel(t) \/ LookupHit(t) \/ LookupMiss(t) \/ FetchAnswers(t)
         \/ FetchFails(t) \/ Commit(t) \/ Sweep(t) \/ EntryFound(t) \/ ChannelReady(t)
         \/ Return(t)
  PROVE  SharingInv'
<1>1. TypeOK /\ SharedCall(t) /\ NoNews
  BY DEF PoolInv, SharingInv
<1>2. pool = "open"
  BY <1>1 DEF SharedCall, GetChannel, LookupHit, LookupMiss, FetchAnswers, FetchFails,
     Commit, Sweep, SweepStart, SweepShut, SweepOne, SweepEnd, EntryFound, ChannelReady, Return
<1>3. todo[t] = {} /\ phase[t] = IF Building(t) THEN "factory" ELSE "first"
  BY <1>1 DEF SharedCall
<1> USE <1>1, <1>2, <1>3 DEF TypeOK, Process, Goto
<1>4. CASE GetChannel(t)
  <2>1. ~Building(t) /\ pc'[t] = "lookup" /\ phase'[t] = "first"
    BY <1>4 DEF GetChannel, Building
  <2> QED BY <1>4, <2>1, SharingMoves
          DEF GetChannel, SharedCall, Building, envVars, chanVars, dictVars
<1>5. CASE LookupHit(t)
  <2>1. ~Building(t) /\ cache = health
    BY <1>5 DEF LookupHit, Building, NoNews
  <2>2. CASE Throws(t)
    BY <1>5, <2>1, <2>2, SharingThrows DEF LookupHit, envVars, chanVars
  <2>3. CASE Goto(t, "select") /\ UNCHANGED <<dictVars, chan>>
    <3>1. pc'[t] = "select" /\ list'[t] = health
      BY <1>5, <2>1, <2>3 DEF LookupHit
    <3> QED BY <1>5, <2>1, <2>3, <3>1, SharingMoves
            DEF LookupHit, SharedCall, Building, envVars, chanVars, dictVars
  <2> QED BY <1>5, <2>2, <2>3 DEF LookupHit
<1>6. CASE LookupMiss(t)
  <2>1. ~Building(t) /\ pc'[t] = "fetch"
    BY <1>6 DEF LookupMiss, Building
  <2> QED BY <1>6, <2>1, SharingMoves
          DEF LookupMiss, SharedCall, Building, envVars, chanVars, dictVars, localVars
<1>7. CASE FetchAnswers(t)
  <2>1. ~Building(t) /\ pc'[t] = "commit" /\ list'[t] = health /\ news' = news
    BY <1>7 DEF FetchAnswers, Building, NoNews
  <2> QED BY <1>7, <2>1, SharingMoves
          DEF FetchAnswers, SharedCall, Building, chanVars, dictVars
<1>8. CASE FetchFails(t)
  <2>1. ~Building(t)
    BY <1>8 DEF FetchFails, Building
  <2> QED BY <1>8, <2>1, SharingThrows DEF FetchFails, envVars, chanVars
<1>9. CASE Commit(t)
  <2>1. ~Building(t) /\ cache' = health
    BY <1>9 DEF Commit, Building, SharedCall
  <2>2. CASE Throws(t)
    BY <1>9, <2>1, <2>2, SharingThrows DEF Commit, envVars, chanVars
  <2>3. CASE Goto(t, "sweep") /\ UNCHANGED <<dictVars, chan>>
    <3>1. pc'[t] = "sweep" /\ list'[t] = health
      BY <1>9, <2>3 DEF Commit, SharedCall
    <3> QED BY <1>9, <2>1, <2>3, <3>1, SharingMoves
            DEF Commit, SharedCall, Building, envVars, chanVars, dictVars
  <2> QED BY <1>9, <2>2, <2>3 DEF Commit
<1>10. CASE SweepStart(t)
  <2>1. ~Building(t) /\ pc'[t] = "sweeping" /\ list[t] = health
    BY <1>10 DEF SweepStart, Building, SharedCall
  <2>2. \A e \in Endpoint \ list[t] : channels[e] = NoChannel
    BY <2>1 DEF SharingInv, SharedEntry
  <2>3. todo'[t] = {}
    BY <1>10, <2>2 DEF SweepStart
  <2> QED BY <1>10, <2>1, <2>3, SharingMoves
          DEF SweepStart, SharedCall, Building, envVars, chanVars, dictVars
<1>11. CASE SweepShut(t) \/ SweepOne(t)
  BY <1>11 DEF SweepShut, SweepOne
<1>12. CASE SweepEnd(t)
  <2>1. ~Building(t) /\ pc'[t] = "select" /\ list[t] = health
    BY <1>12 DEF SweepEnd, Building, SharedCall
  <2> QED BY <1>12, <2>1, SharingMoves
          DEF SweepEnd, SharedCall, Building, envVars, chanVars, dictVars, localVars
<1>13. CASE EntryFound(t)
  <2>1. ~Building(t) /\ pc'[t] = "check" /\ key[t] \in health
    BY <1>13 DEF EntryFound, Building, SharedCall
  <2>2. chan'[t] = channels[key[t]] /\ channels[key[t]] # NoChannel /\ key[t] \in Endpoint
    BY <1>13, <2>1 DEF EntryFound, Map!Read, Lists
  <2>3. state[chan'[t]] = "ready"
    BY <2>2 DEF SharingInv, SharedEntry
  <2>4. UNCHANGED <<channels, building>>
    BY <1>13 DEF EntryFound, Map!Read
  <2> QED BY <1>13, <2>1, <2>3, <2>4, SharingMoves
          DEF EntryFound, SharedCall, Building, envVars, chanVars
<1>14. CASE ChannelReady(t)
  <2>1. ~Building(t) /\ pc'[t] = "done"
    BY <1>14 DEF ChannelReady, Building
  <2> QED BY <1>14, <2>1, SharingMoves
          DEF ChannelReady, SharedCall, Building, envVars, chanVars, dictVars, localVars
<1>15. CASE Return(t)
  <2>1. ~Building(t) /\ pc'[t] = "idle" /\ phase'[t] = "first"
    BY <1>15 DEF Return, Building
  <2>2. UNCHANGED <<channels, building>>
    BY <1>15 DEF Return, Map!Forget
  <2> QED BY <1>15, <2>1, <2>2, SharingMoves
          DEF Return, SharedCall, Building, envVars, chanVars
<1> QED
  BY <1>4, <1>5, <1>6, <1>7, <1>8, <1>9, <1>10, <1>11, <1>12, <1>13, <1>14, <1>15 DEF Sweep

\* A call inside CreateChannel builds the only channel of its key.
LEMMA SharingInside ==
  ASSUME PoolInv, SharingInv, NEW t \in Thread, UNCHANGED health,
         \/ Select(t) \/ FactoryBegins(t) \/ FactoryEnds(t) \/ ConnectSucceeds(t)
         \/ Connected(t)
  PROVE  SharingInv'
<1>1. TypeOK /\ SharedCall(t) /\ NoNews /\ OneBuilder /\ ControlAt(t)
  BY DEF PoolInv, SharingInv, ControlInv
<1>2. pool = "open"
  BY <1>1 DEF SharedCall, Select, FactoryBegins, FactoryEnds, ConnectSucceeds, Connected
<1>3. todo[t] = {} /\ phase[t] = IF Building(t) THEN "factory" ELSE "first"
  BY <1>1 DEF SharedCall
<1> USE <1>1, <1>2, <1>3 DEF TypeOK, Process, Goto
<1>4. CASE Select(t)
  <2>1. ~Building(t) /\ list[t] = health
    BY <1>4 DEF Select, Building, SharedCall
  <2>2. PICK e \in list[t] :
          /\ key' = [key EXCEPT ![t] = e]
          /\ pc' = [pc EXCEPT ![t] = "getoradd"]
          /\ UNCHANGED <<chanVars, chan>>
    BY <1>4, <2>1 DEF Select
  <2>3. key'[t] \in health /\ pc'[t] = "getoradd"
    BY <2>1, <2>2
  <2> QED BY <1>4, <2>1, <2>2, <2>3, SharingMoves
          DEF Select, SharedCall, Building, envVars, chanVars, dictVars
<1>5. CASE FactoryBegins(t)
  <2> DEFINE k == key[t]
  <2>1. k \in health /\ k \in Endpoint /\ ~Building(t) /\ channels[k] = NoChannel
        /\ \A u \in Thread : <<u, k>> \notin building
    BY <1>5 DEF FactoryBegins, Map!Begin, SharedCall, Lists, Building
  <2>2. PICK c \in Channel :
          /\ state[c] = "unused"
          /\ target' = [target EXCEPT ![c] = k]
          /\ state' = [state EXCEPT ![c] = "new"]
          /\ chan' = [chan EXCEPT ![t] = c]
    BY <1>5 DEF FactoryBegins, NewChannel
  <2>3. /\ building' = building \union {<<t, k>>}
        /\ pc' = [pc EXCEPT ![t] = "connect"] /\ phase' = [phase EXCEPT ![t] = "factory"]
        /\ UNCHANGED <<channels, key, list, todo, pool, cache, news>>
    BY <1>5 DEF FactoryBegins, Map!Begin, envVars
  <2>4. \A u \in Thread \ {t} : Building(u) => chan[u] # c /\ key[u] # k
    BY <2>1, <2>2 DEF SharingInv, SharedCall
  <2>5. \A u \in Thread \ {t} : pc[u] = "check" => chan[u] # c
    BY <2>2 DEF SharingInv, SharedCall
  <2>6. \A e \in Endpoint : channels[e] # c
    <3>1. c # NoChannel /\ EntriesConnected
      BY DEF PoolInv, NoChannel, Channel
    <3> QED BY <2>2, <3>1 DEF EntriesConnected
  <2>7. SharedCall(t)'
    BY <2>1, <2>2, <2>3 DEF SharedCall, Building
  <2>8. ASSUME NEW u \in Thread \ {t} PROVE SharedCall(u)'
    <3>1. SharedCall(u) /\ pc'[u] = pc[u] /\ phase'[u] = phase[u] /\ chan'[u] = chan[u]
      BY <2>2, <2>3 DEF SharingInv
    <3>2. Building(u) => chan[u] \in Channel
      BY DEF PoolInv, ControlInv, ControlAt, Building
    <3>3. pc[u] = "check" => chan[u] \in Channel
      BY DEF PoolInv, ControlInv, ControlAt
    <3>4. Building(u) => target'[chan[u]] = target[chan[u]] /\ state'[chan[u]] = state[chan[u]]
      BY <2>2, <2>4, <3>2
    <3>5. pc[u] = "check" => state'[chan[u]] = state[chan[u]]
      BY <2>2, <2>5, <3>3
    <3> QED BY <2>3, <3>1, <3>4, <3>5 DEF SharedCall, Building
  <2>9. OneBuilder'
    <3>1. \A u \in Thread \ {t} : Building(u)' = Building(u)
      BY <2>3 DEF Building
    <3>2. Building(t)' /\ key' = key
      BY <2>3 DEF Building
    <3>3. \A u \in Thread, e \in Endpoint :
            <<u, e>> \in building' <=> <<u, e>> \in building \/ (u = t /\ e = k)
      BY <2>3
    <3>4. \A e \in Endpoint : <<t, e>> \notin building
      BY <2>1 DEF OneBuilder
    <3> HIDE DEF k
    <3>5. k = key[t]
      BY DEF k
    <3> QED BY <2>1, <3>1, <3>2, <3>3, <3>4, <3>5 DEF OneBuilder
  <2>10. ASSUME NEW e \in Endpoint PROVE SharedEntry(e)'
    <3>1. channels[e] # NoChannel => channels[e] \in Channel \ {c}
      BY <2>6
    <3> QED BY <2>2, <2>3, <3>1 DEF SharingInv, SharedEntry
  <2>11. ASSUME NEW d \in Channel PROVE Kept(d)'
    <3>1. CASE d = c
      <4>1. Building(t)' /\ chan'[t] = c
        BY <2>2, <2>3 DEF Building
      <4> QED BY <2>3, <3>1, <4>1 DEF Kept
    <3>2. CASE d # c
      <4>1. target'[d] = target[d] /\ state'[d] = state[d] /\ Kept(d)
        BY <2>2, <3>2 DEF SharingInv
      <4>2. \A u \in Thread : Building(u) /\ chan[u] = d => Building(u)' /\ chan'[u] = d
        BY <2>1, <2>2, <2>3 DEF Building
      <4> QED BY <2>3, <4>1, <4>2 DEF Kept, Open
    <3> QED BY <3>1, <3>2
  <2>12. NoNews'
    BY <2>3 DEF NoNews
  <2> QED BY <2>7, <2>8, <2>9, <2>10, <2>11, <2>12 DEF SharingInv
<1>6. CASE FactoryEnds(t)
  <2> DEFINE k == key[t]
             c == chan[t]
  <2>1. /\ Building(t) /\ k \in health /\ k \in Endpoint /\ c \in Channel
        /\ <<t, k>> \in building /\ channels[k] = NoChannel
        /\ target[c] = k /\ state[c] = "ready"
    BY <1>6 DEF FactoryEnds, SharedCall, Building, Lists, ControlAt, HasConnected
  <2>2. /\ channels' = [channels EXCEPT ![k] = c]
        /\ building' = building \ {<<t, k>>}
        /\ pc' = [pc EXCEPT ![t] = "check"] /\ phase' = [phase EXCEPT ![t] = "first"]
        /\ UNCHANGED <<target, state, key, list, todo, pool, cache, news>>
    BY <1>6, <2>1 DEF FactoryEnds, Map!End, envVars, chanVars
  <2>3. chan'[t] = c /\ \A u \in Thread \ {t} : chan'[u] = chan[u]
    BY <1>6, <2>1, <2>2 DEF FactoryEnds
  <2>4. \A u \in Thread \ {t} : Building(u) => key[u] # k
    BY <2>1 DEF SharingInv, SharedCall, OneBuilder
  <2>5. SharedCall(t)'
    BY <2>1, <2>2, <2>3 DEF SharedCall, Building
  <2>6. ASSUME NEW u \in Thread \ {t} PROVE SharedCall(u)'
    <3>1. SharedCall(u) /\ pc'[u] = pc[u] /\ phase'[u] = phase[u] /\ chan'[u] = chan[u]
      BY <2>2, <2>3 DEF SharingInv
    <3>2. Building(u) => channels'[key[u]] = channels[key[u]] /\ <<u, key[u]>> \in building'
      BY <2>2, <2>4, <3>1 DEF SharedCall
    <3> QED BY <2>2, <3>1, <3>2 DEF SharedCall, Building
  <2>7. OneBuilder'
    <3>1. \A u \in Thread \ {t} : Building(u)' = Building(u)
      BY <2>2 DEF Building
    <3>2. \A u \in Thread, e \in Endpoint :
            <<u, e>> \in building' => u # t /\ <<u, e>> \in building
      BY <2>2 DEF OneBuilder
    <3> QED BY <2>2, <3>1, <3>2 DEF OneBuilder
  <2>8. ASSUME NEW e \in Endpoint PROVE SharedEntry(e)'
    BY <2>1, <2>2 DEF SharingInv, SharedEntry
  <2>9. ASSUME NEW d \in Channel PROVE Kept(d)'
    <3>1. CASE d = c
      <4>1. channels'[k] = c
        BY <2>1, <2>2
      <4> QED BY <2>1, <2>2, <3>1, <4>1 DEF Kept
    <3>2. CASE d # c
      <4>1. Kept(d) /\ target'[d] = target[d] /\ (Open(d)' <=> Open(d))
        BY <2>2 DEF SharingInv, Open
      <4>2. \A u \in Thread : Building(u) /\ chan[u] = d => Building(u)' /\ chan'[u] = d
        BY <2>2, <2>3, <3>2 DEF Building
      <4>3. ASSUME target[d] \in Endpoint, channels[target[d]] = d
            PROVE  channels'[target[d]] = d
        BY <2>1, <2>2, <4>3 DEF NoChannel, Channel
      <4> QED BY <2>2, <4>1, <4>2, <4>3 DEF Kept
    <3> QED BY <3>1, <3>2
  <2>10. NoNews'
    BY <2>2 DEF NoNews
  <2> QED BY <2>5, <2>6, <2>7, <2>8, <2>9, <2>10 DEF SharingInv
<1>7. CASE ConnectSucceeds(t)
  <2>1. /\ chan[t] \in Channel /\ state' = [state EXCEPT ![chan[t]] = "ready"]
        /\ state[chan[t]] \in {"new", "lost"}
    BY <1>7 DEF ConnectSucceeds, ControlAt
  <2>2. UNCHANGED <<envVars, cache, target, dictVars, pc, localVars, pool>>
    BY <1>7 DEF ConnectSucceeds
  <2>3. \A c \in Channel : (Open(c)' <=> Open(c)) /\ (state[c] = "ready" => state'[c] = "ready")
    BY <2>1 DEF Open
  <2>4. \A u \in Thread : SharedCall(u)'
    <3> SUFFICES ASSUME NEW u \in Thread PROVE SharedCall(u)'
      OBVIOUS
    <3>1. SharedCall(u) /\ (Building(u) \/ pc[u] = "check" => chan[u] \in Channel)
      BY DEF SharingInv, PoolInv, ControlInv, ControlAt, Building
    <3>2. Building(u) => state'[chan[u]] \in {"new", "ready"}
      BY <2>1, <3>1 DEF SharedCall
    <3>3. pc[u] = "check" => state'[chan[u]] = "ready"
      BY <2>3, <3>1 DEF SharedCall
    <3> QED BY <2>2, <3>1, <3>2, <3>3
            DEF SharedCall, Building, envVars, dictVars, localVars
  <2>5. \A k \in Endpoint : SharedEntry(k)'
    <3> SUFFICES ASSUME NEW k \in Endpoint, channels[k] # NoChannel PROVE SharedEntry(k)'
      BY <2>2 DEF SharedEntry, dictVars
    <3>1. SharedEntry(k) /\ channels[k] \in Channel
      BY DEF SharingInv
    <3> QED BY <2>2, <2>3, <3>1 DEF SharedEntry, envVars, dictVars
  <2>6. \A c \in Channel : Kept(c)'
    BY <2>2, <2>3 DEF SharingInv, Kept, Building, dictVars, localVars
  <2>7. NoNews' /\ OneBuilder'
    BY <2>2 DEF NoNews, OneBuilder, Building, envVars, dictVars, localVars
  <2> QED BY <2>4, <2>5, <2>6, <2>7 DEF SharingInv
<1>8. CASE Connected(t)
  <2>1. Building(t) /\ phase[t] = "factory" /\ pc[t] = "connect"
    BY <1>8 DEF Connected, Building
  <2>2. /\ pc' = [pc EXCEPT ![t] = "store"]
        /\ UNCHANGED <<envVars, cache, chanVars, dictVars, localVars, pool>>
    BY <1>8, <2>1 DEF Connected
  <2>3. \A u \in Thread : Building(u)' = Building(u)
    BY <2>1, <2>2 DEF Building
  <2>4. \A u \in Thread : SharedCall(u)'
    <3> SUFFICES ASSUME NEW u \in Thread PROVE SharedCall(u)'
      OBVIOUS
    <3>1. SharedCall(u) /\ (u # t => pc'[u] = pc[u])
      BY <2>2 DEF SharingInv
    <3>2. CASE u = t
      BY <2>1, <2>2, <2>3, <3>1, <3>2
         DEF SharedCall, Building, envVars, chanVars, dictVars, localVars
    <3>3. CASE u # t
      BY <2>2, <2>3, <3>1, <3>3
         DEF SharedCall, Building, envVars, chanVars, dictVars, localVars
    <3> QED BY <3>2, <3>3
  <2>5. \A k \in Endpoint : SharedEntry(k)'
    BY <2>2 DEF SharingInv, SharedEntry, envVars, chanVars, dictVars
  <2>6. \A c \in Channel : Kept(c)'
    BY <2>2, <2>3 DEF SharingInv, Kept, Open, chanVars, dictVars, localVars
  <2>7. NoNews' /\ OneBuilder'
    BY <2>2, <2>3 DEF NoNews, OneBuilder, envVars, dictVars, localVars
  <2> QED BY <2>4, <2>5, <2>6, <2>7 DEF SharingInv
<1> QED BY <1>4, <1>5, <1>6, <1>7, <1>8

\* Shutdown finds every open channel in the dictionary.
LEMMA SharingClose ==
  ASSUME PoolInv, SharingInv, ShutdownChannels \/ ShutdownThrows \/ ClearChannels
  PROVE  SharingInv'
<1>1. TypeOK
  BY DEF PoolInv
<1>2. \A t \in Thread : pc[t] = "idle" /\ ~Building(t)
  BY DEF ShutdownChannels, ShutdownThrows, ShutDown, ClearChannels, SharingInv,
     SharedCall, Building, Process
<1>3. UNCHANGED <<envVars, cache, target, building, pc, localVars>> /\ pool' # "open"
  BY DEF ShutdownChannels, ShutdownThrows, ShutDown, ClearChannels, dictVars, chanVars
<1>4. \A t \in Thread : SharedCall(t)'
  BY <1>2, <1>3 DEF SharingInv, SharedCall, Building, envVars, localVars
<1>5. NoNews' /\ OneBuilder'
  BY <1>3 DEF SharingInv, NoNews, OneBuilder, Building, envVars, localVars
<1>6. \A k \in Endpoint : SharedEntry(k)'
  BY <1>3 DEF SharingInv, SharedEntry, ShutdownChannels, ShutdownThrows, ShutDown,
     ClearChannels, envVars, dictVars
<1>7. ASSUME NEW c \in Channel PROVE ~Open(c)'
  <2>1. Kept(c)
    BY DEF SharingInv
  <2>2. CASE ShutdownChannels
    <3>1. Open(c) => \E k \in Endpoint : channels[k] = c
      BY <1>2, <2>1 DEF Kept
    <3>2. c # NoChannel
      BY DEF Channel, NoChannel
    <3>3. state'[c] = IF \E k \in Endpoint : channels[k] = c THEN "shut" ELSE state[c]
      BY <2>2, <3>2 DEF ShutdownChannels, ShutDown, Pooled
    <3> QED BY <3>1, <3>3 DEF Open
  <2>4. ~ShutdownThrows
    BY DEF ShutdownThrows, Pooled, SharingInv, SharedEntry
  <2>3. CASE ClearChannels
    BY <2>1, <2>3 DEF ClearChannels, Kept, Open, chanVars
  <2> QED BY <2>2, <2>3, <2>4
<1> QED BY <1>4, <1>5, <1>6, <1>7 DEF SharingInv, Kept

\* In a stable pool every step of the program keeps channels shared.
LEMMA SharingStep ==
  ASSUME PoolInv, Stable => SharingInv, [Next]_vars, Stable'
  PROVE  SharingInv'
<1>1. Stable /\ SharingInv /\ UNCHANGED <<up, health>>
  BY StableBefore
<1> TypeOK /\ ControlInv
  BY DEF PoolInv
<1>2. ASSUME NEW t \in Thread, Rebuild(t) \/ Update(t) \/ ConnectFails(t) PROVE FALSE
  <2>1. SharedCall(t) /\ ControlAt(t)
    BY <1>1 DEF SharingInv, ControlInv
  <2>2. pc[t] = "connect" => target[chan[t]] \in Endpoint
    BY <2>1 DEF ControlAt, SharedCall, Building
  <2>3. up = Endpoint
    BY <1>1 DEF Stable, AllUp
  <2> QED BY <1>2, <2>1, <2>2, <2>3 DEF Rebuild, Update, ConnectFails, SharedCall
<1>3. ASSUME NEW t \in Thread, GetChannel(t) \/ CallStep(t) PROVE SharingInv'
  BY <1>1, <1>2, <1>3, SharingOutside, SharingInside DEF CallStep
<1>4. ASSUME ServiceChanged \/ EmptyListIgnored \/ Sweep(Notifier) PROVE FALSE
  BY <1>1, <1>4 DEF SharingInv, NoNews, ServiceChanged, EmptyListIgnored, Sweep,
     SweepStart, SweepShut, SweepOne, SweepEnd
<1>5. ASSUME Environment PROVE FALSE
  BY <1>1, <1>5, StableBefore, NoneLost DEF Reconnect
<1>6. CASE ShutdownChannels \/ ShutdownThrows \/ ClearChannels
  BY <1>1, <1>6, SharingClose
<1>7. CASE UNCHANGED vars
  BY <1>1, <1>7 DEF vars, envVars, chanVars, dictVars, localVars, SharingInv, NoNews,
     OneBuilder, SharedCall, Building, SharedEntry, Kept, Open
<1> QED BY <1>3, <1>4, <1>5, <1>6, <1>7 DEF Next

\* Two open channels to one endpoint are one: an entry has no builder, and a
\* key has one.
LEMMA SharedIsOne == PoolInv /\ SharingInv =>
  \A c, d \in Channel : Open(c) /\ Open(d) /\ target[c] = target[d] => c = d
<1> SUFFICES ASSUME PoolInv, SharingInv, NEW c \in Channel, NEW d \in Channel,
                    Open(c), Open(d), target[c] = target[d]
             PROVE  c = d
  OBVIOUS
<1>1. Kept(c) /\ Kept(d)
  BY DEF SharingInv
<1>2. c # NoChannel /\ d # NoChannel
  BY DEF Channel, NoChannel
<1>3. \A t \in Thread : Building(t) =>
        /\ <<t, target[chan[t]]>> \in building
        /\ target[chan[t]] \in Endpoint /\ channels[target[chan[t]]] = NoChannel
  <2> SUFFICES ASSUME NEW t \in Thread, Building(t)
               PROVE  /\ <<t, target[chan[t]]>> \in building
                      /\ target[chan[t]] \in Endpoint /\ channels[target[chan[t]]] = NoChannel
    OBVIOUS
  <2>1. SharedCall(t)
    BY DEF SharingInv
  <2>2. key[t] \in Endpoint /\ target[chan[t]] = key[t]
    BY <2>1 DEF SharedCall, Building, PoolInv, TypeOK, Lists
  <2> QED BY <2>1, <2>2 DEF SharedCall
<1>4. ASSUME NEW t \in Thread, NEW u \in Thread, Building(t), Building(u),
             chan[t] = c, chan[u] = d
      PROVE  t = u
  BY <1>3, <1>4 DEF SharingInv, OneBuilder
<1> QED BY <1>1, <1>2, <1>3, <1>4 DEF Kept

\* While servers, connections and the list are stable, all callers share one
\* channel per endpoint, however many of them miss at the same time.
THEOREM CallersShare == Spec => []StableSharing
<1>1. Init => PoolInv /\ (Stable => SharingInv)
  BY InvInit, SharingInit
<1>2. PoolInv /\ (Stable => SharingInv) /\ [Next]_vars => (PoolInv /\ (Stable => SharingInv))'
  BY TypeStep, ControlStep, EntriesStep, SharingStep DEF PoolInv
<1>3. PoolInv /\ (Stable => SharingInv) => StableSharing
  BY SharedIsOne DEF StableSharing, Stable
<1> QED BY <1>1, <1>2, <1>3, PTL DEF Spec

-----------------------------------------------------------------------------
\* A call that has a channel of its own, which no other process knows yet.
Creating(t) == pc[t] \in {"connect", "store", "update"}

\* Ownership: while a call creates a channel nobody else has it, in the
\* dictionary, in a sweep's notes or in its hands; and a key is being built as
\* long as the call inside its factory is.
PlaceAt(t) ==
  /\ pc[t] \in {"getoradd", "check"} => phase[t] = "first"
  /\ pc[t] = "store" => phase[t] = "factory"
  /\ pc[t] = "update" => phase[t] = "rebuild"

Builds(t, k) ==
  /\ phase[t] = "factory" /\ key[t] = k
  /\ pc[t] \in {"lookup", "select", "connect", "store"}

Owns(t) ==
  /\ Open(chan[t])
  /\ \A k \in Endpoint : channels[k] # chan[t]
  /\ \A p \in Process, k \in Endpoint : <<k, chan[t]>> \notin todo[p]
  /\ \A u \in Thread \ {t} : chan[u] # chan[t]

InUse ==
  /\ \A t \in Thread : chan[t] # NoChannel => state[chan[t]] # "unused"
  /\ \A p \in Process, k \in Endpoint, c \in Channel :
       <<k, c>> \in todo[p] => state[c] # "unused"

OwnInv ==
  /\ InUse
  /\ BuildsToTheEnd
  /\ \A t \in Thread : PlaceAt(t) /\ (Creating(t) => Owns(t))

LEMMA OwnInit == Init => OwnInv
  BY DEF Init, Map!Init, OwnInv, InUse, BuildsToTheEnd, PlaceAt, Creating, NoChannel, Process

\* A step of a call leaves the locals of the other processes alone.
LEMMA OthersKeep ==
  ASSUME TypeOK, NEW t \in Thread, GetChannel(t) \/ CallStep(t)
  PROVE  /\ \A u \in Thread \ {t} :
              /\ phase'[u] = phase[u] /\ key'[u] = key[u] /\ tries'[u] = tries[u]
              /\ chan'[u] = chan[u]
         /\ \A p \in Process \ {t} :
              pc'[p] = pc[p] /\ todo'[p] = todo[p] /\ list'[p] = list[p]
<1> USE DEF TypeOK, Goto, Process
<1>1. CASE GetChannel(t) \/ LookupMiss(t) \/ FetchAnswers(t) \/ EntryFound(t)
           \/ FactoryEnds(t) \/ ChannelReady(t) \/ Update(t) \/ ConnectSucceeds(t)
           \/ Connected(t) \/ Return(t)
  BY <1>1 DEF GetChannel, LookupMiss, FetchAnswers, EntryFound, FactoryEnds, ChannelReady,
     Update, ConnectSucceeds, Connected, Return, localVars
<1>2. CASE Sweep(t)
  BY <1>2 DEF Sweep, SweepStart, SweepShut, SweepOne, SweepEnd, localVars
<1>3. CASE LookupHit(t) \/ FetchFails(t) \/ Commit(t) \/ ConnectFails(t)
  BY <1>3 DEF LookupHit, FetchFails, Commit, ConnectFails, Throws
<1>4. CASE FactoryBegins(t) \/ Rebuild(t)
  BY <1>4 DEF FactoryBegins, Rebuild, NewChannel
<1>5. CASE Select(t)
  BY <1>5 DEF Select, NewChannel
<1> QED BY <1>1, <1>2, <1>3, <1>4, <1>5 DEF CallStep

\* The handler, Shutdown and the environment leave the calls alone.
LEMMA CallsKeep ==
  ASSUME TypeOK,
         \/ ServiceChanged \/ EmptyListIgnored \/ Sweep(Notifier)
         \/ ShutdownChannels \/ ShutdownThrows \/ ClearChannels \/ Environment
         \/ UNCHANGED vars
  PROVE  /\ UNCHANGED <<phase, key, chan, tries, building>>
         /\ \A u \in Thread :
              pc'[u] = pc[u] /\ todo'[u] = todo[u] /\ list'[u] = list[u]
<1> USE DEF TypeOK, Goto, Process, localVars, dictVars
<1>1. CASE ServiceChanged
  BY <1>1 DEF ServiceChanged
<1>2. CASE Sweep(Notifier)
  BY <1>2 DEF Sweep, SweepStart, SweepShut, SweepOne, SweepEnd
<1>3. CASE \/ EmptyListIgnored \/ ShutdownChannels \/ ShutdownThrows
           \/ ClearChannels \/ UNCHANGED vars
  BY <1>3 DEF EmptyListIgnored, ShutdownChannels, ShutdownThrows, ShutDown,
     ClearChannels, vars
<1>4. CASE Environment
  BY <1>4 DEF Environment, Flip, LoseConnection, Reconnect, HealthChanges
<1> QED BY <1>1, <1>2, <1>3, <1>4

\* What a step does to a channel object: it is made, connects, is lost, or is
\* shut by Shutdown, by a sweep that noted it or by the caller that has it.
LEMMA StateMoves ==
  ASSUME PoolInv, [Next]_vars, NEW c \in Channel
  PROVE  \/ state'[c] = state[c]
         \/ /\ state[c] = "unused" /\ state'[c] = "new"
            /\ \E t \in Thread : chan'[t] = c /\ pc'[t] = "connect"
         \/ state[c] \in {"new", "lost"} /\ state'[c] = "ready"
         \/ state[c] = "ready" /\ state'[c] = "lost" /\ LoseConnection(c)
         \/ /\ state'[c] = "shut"
            /\ \/ pool' # "open" /\ \E k \in Endpoint : channels[k] = c
               \/ \E p \in Process, k \in Endpoint :
                    <<k, c>> \in todo[p] /\ UNCHANGED todo
               \/ \E t \in Thread : pc[t] = "check" /\ chan[t] = c /\ Rebuild(t)
<1> DEFINE Moves ==
             \/ state'[c] = state[c]
             \/ /\ state[c] = "unused" /\ state'[c] = "new"
                /\ \E t \in Thread : chan'[t] = c /\ pc'[t] = "connect"
             \/ state[c] \in {"new", "lost"} /\ state'[c] = "ready"
             \/ state[c] = "ready" /\ state'[c] = "lost" /\ LoseConnection(c)
             \/ /\ state'[c] = "shut"
                /\ \/ pool' # "open" /\ \E k \in Endpoint : channels[k] = c
                   \/ \E p \in Process, k \in Endpoint :
                        <<k, c>> \in todo[p] /\ UNCHANGED todo
                   \/ \E t \in Thread : pc[t] = "check" /\ chan[t] = c /\ Rebuild(t)
<1> SUFFICES Moves
  OBVIOUS
<1> TypeOK /\ ControlInv
  BY DEF PoolInv
<1>1. CASE UNCHANGED state
  BY <1>1
<1>2. ASSUME NEW d \in Channel, LoseConnection(d) \/ Reconnect(d) PROVE Moves
  BY <1>2 DEF TypeOK, LoseConnection, Reconnect
<1>3. ASSUME NEW p \in Process, SweepShut(p) PROVE Moves
  <2>1. PICK x \in todo[p] : state' = [state EXCEPT ![x[2]] = "shut"]
    BY <1>3 DEF SweepShut
  <2>2. x \in Endpoint \X Channel /\ x = <<x[1], x[2]>>
    BY DEF TypeOK
  <2>3. CASE c = x[2]
    <3>1. state'[c] = "shut"
      BY <2>1, <2>3 DEF TypeOK
    <3>2. x[1] \in Endpoint /\ <<x[1], c>> \in todo[p] /\ UNCHANGED todo
      BY <1>3, <2>2, <2>3 DEF SweepShut, localVars
    <3> QED BY <3>1, <3>2
  <2>4. CASE c # x[2]
    BY <2>1, <2>4 DEF TypeOK
  <2> QED BY <2>3, <2>4
<1>4. ASSUME NEW t \in Thread, NEW e, NewChannel(t, e), Goto(t, "connect") PROVE Moves
  BY <1>4 DEF TypeOK, NewChannel, Goto, Process
<1>5. ASSUME NEW t \in Thread, Rebuild(t) PROVE Moves
  <2>1. PICK d \in Channel : /\ state[d] = "unused"
                             /\ state' = [state EXCEPT ![chan[t]] = "shut", ![d] = "new"]
                             /\ chan' = [chan EXCEPT ![t] = d] /\ Goto(t, "connect")
    BY <1>5 DEF Rebuild
  <2>2. pc[t] = "check" /\ chan[t] \in Channel
    BY <1>5 DEF Rebuild, ControlInv, ControlAt
  <2> QED BY <1>5, <2>1, <2>2 DEF TypeOK, Goto, Process
<1>6. ASSUME NEW t \in Thread, ConnectSucceeds(t) PROVE Moves
  BY <1>6 DEF TypeOK, ConnectSucceeds
<1>7. CASE ShutdownChannels \/ ShutdownThrows
  BY <1>7 DEF TypeOK, ShutdownChannels, ShutdownThrows, ShutDown, Pooled
<1>8. ASSUME NEW t \in Thread, Select(t) PROVE Moves
  BY <1>1, <1>4, <1>8 DEF Select, chanVars
<1>9. ASSUME NEW t \in Thread, FactoryBegins(t) PROVE Moves
  BY <1>4, <1>9 DEF FactoryBegins
<1>10. ASSUME NEW t \in Thread,
              \/ GetChannel(t) \/ LookupHit(t) \/ LookupMiss(t) \/ FetchAnswers(t)
              \/ FetchFails(t) \/ Commit(t) \/ EntryFound(t) \/ FactoryEnds(t)
              \/ ChannelReady(t) \/ Update(t) \/ ConnectFails(t) \/ Connected(t)
              \/ Return(t)
       PROVE UNCHANGED state
  BY <1>10 DEF GetChannel, LookupHit, LookupMiss, FetchAnswers, FetchFails, Commit,
       EntryFound, FactoryEnds, ChannelReady, Update, ConnectFails, Connected, Return,
       chanVars
<1>11. ASSUME NEW p \in Process, SweepStart(p) \/ SweepOne(p) \/ SweepEnd(p)
       PROVE UNCHANGED state
  BY <1>11 DEF SweepStart, SweepOne, SweepEnd, chanVars
<1>12. ASSUME \/ ServiceChanged \/ EmptyListIgnored \/ ClearChannels \/ HealthChanges
              \/ (\E e \in Endpoint : Flip(e)) \/ UNCHANGED vars
       PROVE UNCHANGED state
  BY <1>12 DEF ServiceChanged, EmptyListIgnored, ClearChannels, HealthChanges, Flip, vars,
     chanVars
<1> HIDE DEF Moves
<1> QED
  BY <1>1, <1>2, <1>3, <1>5, <1>6, <1>7, <1>8, <1>9, <1>10, <1>11, <1>12
     DEF Next, Environment, CallStep, Sweep, Process

\* What a step does to an entry: it stays, goes, or becomes the channel of a
\* call that has created it.
LEMMA EntryMoves ==
  ASSUME PoolInv, [Next]_vars, NEW k \in Endpoint
  PROVE  \/ channels'[k] = channels[k]
         \/ channels'[k] = NoChannel
         \/ \E t \in Thread : /\ pc[t] \in {"store", "update"} /\ channels'[k] = chan[t]
                              /\ pc'[t] \in {"check", "done"}
<1> DEFINE Moves ==
             \/ channels'[k] = channels[k]
             \/ channels'[k] = NoChannel
             \/ \E t \in Thread : /\ pc[t] \in {"store", "update"} /\ channels'[k] = chan[t]
                                  /\ pc'[t] \in {"check", "done"}
<1> SUFFICES Moves
  OBVIOUS
<1> TypeOK
  BY DEF PoolInv
<1>1. CASE UNCHANGED channels
  BY <1>1
<1>2. ASSUME NEW t \in Thread, FactoryEnds(t) \/ Update(t) PROVE Moves
  <2>1. pc'[t] \in {"check", "done"} /\ pc[t] \in {"store", "update"}
    BY <1>2 DEF FactoryEnds, Update, Goto, TypeOK, Process
  <2>2. channels'[k] = channels[k] \/ channels'[k] = chan[t]
    BY <1>2 DEF TypeOK, FactoryEnds, Update
  <2> QED BY <2>1, <2>2
<1>3. ASSUME NEW p \in Process, SweepOne(p) PROVE Moves
  BY <1>3 DEF TypeOK, SweepOne
<1>4. ASSUME NEW t \in Thread, GetChannel(t) \/ CallStep(t),
             ~(FactoryEnds(t) \/ Update(t) \/ SweepOne(t))
      PROVE UNCHANGED channels
  BY <1>4 DEF CallStep, GetChannel, LookupHit, LookupMiss, FetchAnswers, FetchFails,
       Throws, Map!Fail, Commit, Sweep, SweepStart, SweepShut, SweepEnd, Select, EntryFound,
       Map!Read, FactoryBegins, Map!Begin, ChannelReady, Rebuild, ConnectSucceeds,
       ConnectFails, Connected, Return, Map!Forget, dictVars
<1>5. ASSUME \/ ServiceChanged \/ EmptyListIgnored \/ SweepStart(Notifier)
             \/ SweepShut(Notifier) \/ SweepEnd(Notifier) \/ ShutdownChannels
             \/ ShutdownThrows \/ Environment
             \/ UNCHANGED vars
      PROVE UNCHANGED channels
  BY <1>5 DEF ServiceChanged, EmptyListIgnored, SweepStart, SweepShut, SweepEnd,
       ShutdownChannels, ShutdownThrows, Environment, Flip, LoseConnection, Reconnect,
       HealthChanges,
       vars, dictVars
<1>6. ASSUME ClearChannels PROVE Moves
  BY <1>6 DEF ClearChannels
<1> HIDE DEF Moves
<1> QED
  BY <1>1, <1>2, <1>3, <1>4, <1>5, <1>6 DEF Next, Sweep, Process

\* A sweep notes entries only.
LEMMA NotesMove ==
  ASSUME PoolInv, [Next]_vars, NEW p \in Process, NEW k \in Endpoint, NEW c \in Channel,
         <<k, c>> \in todo'[p]
  PROVE  <<k, c>> \in todo[p] \/ (channels[k] = c /\ UNCHANGED channels)
<1> TypeOK
  BY DEF PoolInv
<1>1. CASE UNCHANGED todo
  BY <1>1
<1>2. ASSUME NEW q \in Process, SweepStart(q)
      PROVE  <<k, c>> \in todo[p] \/ (channels[k] = c /\ UNCHANGED channels)
  BY <1>2 DEF SweepStart, TypeOK, dictVars
<1>3. ASSUME NEW q \in Process, SweepShut(q) \/ SweepOne(q) PROVE <<k, c>> \in todo[p]
  BY <1>3 DEF SweepShut, SweepOne, TypeOK, localVars
<1>4. ASSUME NEW t \in Thread, GetChannel(t) \/ CallStep(t), ~SweepStart(t), ~SweepShut(t),
             ~SweepOne(t)
      PROVE  UNCHANGED todo
  BY <1>4 DEF CallStep, GetChannel, LookupHit, LookupMiss, FetchAnswers, FetchFails,
       Commit, Sweep, SweepEnd, Select, EntryFound, FactoryBegins, FactoryEnds,
       ChannelReady, Rebuild, Update, ConnectSucceeds, ConnectFails, Connected, Return,
       localVars
<1>5. ASSUME \/ ServiceChanged \/ EmptyListIgnored \/ SweepEnd(Notifier)
             \/ ShutdownChannels \/ ShutdownThrows \/ ClearChannels \/ Environment
             \/ UNCHANGED vars
      PROVE UNCHANGED todo
  BY <1>5 DEF ServiceChanged, EmptyListIgnored, SweepEnd, ShutdownChannels,
     ShutdownThrows, ShutDown, ClearChannels,
       Environment, Flip, LoseConnection, Reconnect, HealthChanges, vars, localVars
<1> QED
  BY <1>1, <1>2, <1>3, <1>4, <1>5 DEF Next, Sweep, Process

\* What a call's own step does to the channel it has: it keeps it, gives it up
\* for an entry or for nothing, or creates a new one.
LEMMA ChanMoves ==
  ASSUME PoolInv, NEW t \in Thread, GetChannel(t) \/ CallStep(t)
  PROVE  \/ chan'[t] = chan[t] /\ (Creating(t)' => Creating(t))
         \/ /\ ~Creating(t)'
            /\ chan'[t] = NoChannel \/ \E k \in Endpoint : chan'[t] = channels'[k]
         \/ /\ ~Creating(t) /\ chan'[t] \in Channel
            /\ state[chan'[t]] = "unused" /\ state'[chan'[t]] = "new"
            /\ UNCHANGED <<channels, todo>>
<1> DEFINE Moves ==
         \/ chan'[t] = chan[t] /\ (Creating(t)' => Creating(t))
         \/ /\ ~Creating(t)'
            /\ chan'[t] = NoChannel \/ \E k \in Endpoint : chan'[t] = channels'[k]
         \/ /\ ~Creating(t) /\ chan'[t] \in Channel
            /\ state[chan'[t]] = "unused" /\ state'[chan'[t]] = "new"
            /\ UNCHANGED <<channels, todo>>
<1> SUFFICES Moves
  OBVIOUS
<1> TypeOK /\ ControlAt(t)
  BY DEF PoolInv, ControlInv
<1> USE DEF Goto, Process
<1>1. CASE Throws(t)
  BY <1>1 DEF Throws, TypeOK, Creating
<1>2. CASE UNCHANGED chan /\ (pc'[t] \notin {"connect", "store", "update"})
  BY <1>2 DEF Creating
<1>3. CASE GetChannel(t) \/ LookupMiss(t) \/ FetchAnswers(t) \/ ChannelReady(t) \/ Update(t)
  BY <1>2, <1>3 DEF GetChannel, LookupMiss, FetchAnswers, ChannelReady, Update, localVars,
     TypeOK
<1>4. CASE Sweep(t)
  BY <1>2, <1>4 DEF Sweep, SweepStart, SweepShut, SweepOne, SweepEnd, localVars, TypeOK
<1>5. CASE LookupHit(t) \/ Commit(t)
  BY <1>1, <1>2, <1>5 DEF LookupHit, Commit, TypeOK
<1>6. CASE FetchFails(t)
  BY <1>1, <1>6 DEF FetchFails
<1>7. CASE ConnectFails(t)
  BY <1>1, <1>2, <1>7 DEF ConnectFails, TypeOK
<1>8. CASE ConnectSucceeds(t) \/ Connected(t)
  BY <1>8 DEF ConnectSucceeds, Connected, localVars, Creating
<1>9. CASE EntryFound(t)
  <2>1. chan'[t] = channels[key[t]] /\ key[t] \in Endpoint /\ UNCHANGED channels
    BY <1>9 DEF EntryFound, ControlAt, TypeOK, Map!Read
  <2>2. ~Creating(t)'
    BY <1>9 DEF EntryFound, TypeOK, Creating
  <2> QED BY <2>1, <2>2
<1>10. CASE FactoryEnds(t)
  <2>1. chan'[t] = channels'[key[t]] /\ key[t] \in Endpoint
    BY <1>10 DEF FactoryEnds, ControlAt, TypeOK
  <2>2. ~Creating(t)'
    BY <1>10 DEF FactoryEnds, TypeOK, Creating
  <2> QED BY <2>1, <2>2
<1>11. ASSUME NEW e \in Endpoint, NewChannel(t, e), ~Creating(t), UNCHANGED <<channels, todo>>
       PROVE Moves
  BY <1>11 DEF NewChannel, TypeOK
<1>12. CASE FactoryBegins(t)
  BY <1>11, <1>12 DEF FactoryBegins, Map!Begin, ControlAt, Creating
<1>13. CASE Rebuild(t)
  <2>1. PICK c \in Channel : /\ state[c] = "unused"
                             /\ state' = [state EXCEPT ![chan[t]] = "shut", ![c] = "new"]
                             /\ chan' = [chan EXCEPT ![t] = c]
    BY <1>13 DEF Rebuild
  <2>2. ~Creating(t) /\ UNCHANGED <<channels, todo>>
    BY <1>13 DEF Rebuild, Creating, dictVars
  <2> QED BY <2>1, <2>2 DEF TypeOK
<1>14. CASE Select(t)
  <2>1. PICK e \in list[t] :
          \/ pc' = [pc EXCEPT ![t] = "getoradd"] /\ UNCHANGED <<chanVars, chan>>
          \/ NewChannel(t, e)
    BY <1>14 DEF Select
  <2>2. e \in Endpoint
    BY DEF TypeOK, Lists
  <2>3. ~Creating(t) /\ UNCHANGED <<channels, todo>>
    BY <1>14 DEF Select, Creating, dictVars
  <2>4. CASE pc' = [pc EXCEPT ![t] = "getoradd"] /\ UNCHANGED <<chanVars, chan>>
    BY <1>2, <2>4 DEF TypeOK
  <2> QED BY <1>11, <2>1, <2>2, <2>3, <2>4
<1>15. CASE Return(t)
  BY <1>15 DEF Return, TypeOK, Creating
<1> HIDE DEF Moves
<1> QED
  BY <1>3, <1>4, <1>5, <1>6, <1>7, <1>8, <1>9, <1>10, <1>12, <1>13, <1>14, <1>15
     DEF CallStep

\* Every step keeps what is in use in use: no object becomes unused again.
LEMMA InUseStep ==
  ASSUME PoolInv, OwnInv, [Next]_vars PROVE InUse'
<1> TypeOK
  BY DEF PoolInv
<1>1. ASSUME NEW c \in Channel, state[c] # "unused" PROVE state'[c] # "unused"
  BY <1>1, StateMoves
<1>2. \A k \in Endpoint : channels[k] # NoChannel =>
        channels[k] \in Channel /\ state[channels[k]] # "unused"
  BY DEF PoolInv, TypeOK, EntriesConnected
<1>3. \A t \in Thread : chan[t] # NoChannel =>
        chan[t] \in Channel /\ state[chan[t]] # "unused"
  BY DEF OwnInv, InUse, TypeOK
<1>4. ASSUME NEW k \in Endpoint, channels'[k] # NoChannel PROVE state'[channels'[k]] # "unused"
  <2>1. CASE channels'[k] = channels[k]
    BY <1>1, <1>2, <1>4, <2>1
  <2>2. ASSUME NEW t \in Thread, channels'[k] = chan[t] PROVE state'[channels'[k]] # "unused"
    BY <1>1, <1>3, <1>4, <2>2
  <2> QED BY <1>4, <2>1, <2>2, EntryMoves
<1>5. ASSUME NEW t \in Thread, chan'[t] # NoChannel PROVE state'[chan'[t]] # "unused"
  <2>1. CASE chan'[t] = chan[t]
    BY <1>1, <1>3, <1>5, <2>1
  <2>2. CASE GetChannel(t) \/ CallStep(t)
    BY <1>4, <1>5, <2>1, <2>2, ChanMoves
  <2>3. ASSUME NEW u \in Thread \ {t}, GetChannel(u) \/ CallStep(u) PROVE chan'[t] = chan[t]
    BY <2>3, OthersKeep
  <2> QED BY <2>1, <2>2, <2>3, CallsKeep DEF Next
<1>6. ASSUME NEW p \in Process, NEW k \in Endpoint, NEW c \in Channel, <<k, c>> \in todo'[p]
      PROVE  state'[c] # "unused"
  <2>1. <<k, c>> \in todo[p] \/ channels[k] = c
    BY <1>6, NotesMove
  <2>2. state[c] # "unused"
    BY <1>2, <2>1 DEF OwnInv, InUse, NoChannel, Channel
  <2> QED BY <1>1, <2>2
<1> QED BY <1>5, <1>6 DEF InUse

\* Nobody gets hold of a channel that a call is creating.
LEMMA OwnsStep ==
  ASSUME PoolInv, OwnInv, [Next]_vars, NEW t \in Thread, Creating(t)'
  PROVE  Owns(t)'
<1> TypeOK /\ ControlInv /\ InUse
  BY DEF PoolInv, OwnInv
<1> DEFINE c == chan'[t]
<1>1. \A u \in Thread : chan[u] # NoChannel =>
        chan[u] \in Channel /\ state[chan[u]] # "unused"
  BY DEF InUse, TypeOK
<1>2. \A k \in Endpoint : channels[k] # NoChannel =>
        channels[k] \in Channel /\ state[channels[k]] # "unused"
  BY DEF PoolInv, TypeOK, EntriesConnected
<1>3. CASE c = chan[t] /\ Creating(t)
  <2>1. Owns(t) /\ c \in Channel /\ c # NoChannel
    BY <1>3 DEF OwnInv, ControlInv, ControlAt, Creating, NoChannel, Channel
  <2>2. \A k \in Endpoint : channels[k] # c
    BY <1>3, <2>1 DEF Owns
  <2>3. \A p \in Process, k \in Endpoint : <<k, c>> \notin todo[p]
    BY <1>3, <2>1 DEF Owns
  <2>4. \A u \in Thread \ {t} : chan[u] # c
    BY <1>3, <2>1 DEF Owns
  <2>5. state'[c] \in {"new", "ready", "lost"}
    <3>1. pc[t] # "check"
      BY <1>3 DEF Creating
    <3>2. ~\E u \in Thread : pc[u] = "check" /\ chan[u] = c
      BY <1>3, <2>4, <3>1
    <3>3. state[c] \in {"new", "ready", "lost"}
      BY <1>3, <2>1 DEF Owns, Open
    <3> HIDE DEF c
    <3> QED BY <2>1, <2>2, <2>3, <3>2, <3>3, StateMoves
  <2>6. ASSUME NEW k \in Endpoint PROVE channels'[k] # c
    <3>1. ASSUME NEW u \in Thread, pc'[u] \in {"check", "done"}, chan[u] = c PROVE FALSE
      <4>1. u = t
        BY <2>4, <3>1
      <4> QED BY <3>1, <4>1 DEF Creating
    <3> QED BY <2>1, <2>2, <3>1, EntryMoves
  <2>7. ASSUME NEW p \in Process, NEW k \in Endpoint PROVE <<k, c>> \notin todo'[p]
    BY <2>1, <2>2, <2>3, NotesMove
  <2>8. ASSUME NEW u \in Thread \ {t} PROVE chan'[u] # c
    <3>1. CASE chan'[u] = chan[u]
      BY <2>4, <3>1
    <3>2. CASE GetChannel(u) \/ CallStep(u)
      <4>1. state[c] # "unused"
        BY <1>3, <2>1 DEF Owns, Open
      <4> QED BY <2>1, <2>6, <3>1, <3>2, <4>1, ChanMoves
    <3>3. ASSUME NEW v \in Thread \ {u}, GetChannel(v) \/ CallStep(v) PROVE chan'[u] = chan[u]
      BY <3>3, OthersKeep
    <3> QED BY <3>1, <3>2, <3>3, CallsKeep DEF Next
  <2> HIDE DEF c
  <2>9. c = chan'[t]
    BY DEF c
  <2> QED BY <2>5, <2>6, <2>7, <2>8, <2>9 DEF Owns, Open
<1>4. CASE /\ c \in Channel /\ state[c] = "unused" /\ state'[c] = "new"
           /\ UNCHANGED <<channels, todo>> /\ \A u \in Thread \ {t} : chan'[u] = chan[u]
  <2>0. c # NoChannel
    BY <1>4 DEF Channel, NoChannel
  <2>1. \A k \in Endpoint : channels'[k] # c
    BY <1>2, <1>4, <2>0
  <2>2. \A p \in Process, k \in Endpoint : <<k, c>> \notin todo'[p]
    BY <1>4 DEF InUse
  <2>3. \A u \in Thread \ {t} : chan'[u] # c
    BY <1>1, <1>4, <2>0
  <2> HIDE DEF c
  <2>4. c = chan'[t]
    BY DEF c
  <2> QED BY <1>4, <2>1, <2>2, <2>3, <2>4 DEF Owns, Open
<1>5. CASE GetChannel(t) \/ CallStep(t)
  BY <1>3, <1>4, <1>5, ChanMoves, OthersKeep
<1>6. CASE chan'[t] = chan[t] /\ pc'[t] = pc[t]
  BY <1>3, <1>6 DEF Creating
<1>7. ASSUME NEW u \in Thread \ {t}, GetChannel(u) \/ CallStep(u)
      PROVE  chan'[t] = chan[t] /\ pc'[t] = pc[t]
  BY <1>7, OthersKeep DEF Process
<1> QED BY <1>5, <1>6, <1>7, CallsKeep DEF Next

\* A step of a call moves it from place to place in its phase, and its key in
\* and out of those that are being built.
LEMMA CallPlace ==
  ASSUME PoolInv, OwnInv, NEW t \in Thread, GetChannel(t) \/ CallStep(t)
  PROVE  /\ PlaceAt(t)'
         /\ \A k \in Endpoint : <<t, k>> \in building' <=> Builds(t, k)'
         /\ \A u \in Thread \ {t}, k \in Endpoint : <<u, k>> \in building' <=> <<u, k>> \in building
<1> DEFINE Goal ==
         /\ PlaceAt(t)'
         /\ \A k \in Endpoint : <<t, k>> \in building' <=> Builds(t, k)'
         /\ \A u \in Thread \ {t}, k \in Endpoint : <<u, k>> \in building' <=> <<u, k>> \in building
<1> SUFFICES Goal
  OBVIOUS
<1> TypeOK /\ ControlAt(t) /\ PlaceAt(t)
  BY DEF PoolInv, ControlInv, OwnInv
<1>0. \A k \in Endpoint : <<t, k>> \in building <=> Builds(t, k)
  BY DEF OwnInv, BuildsToTheEnd, Builds
<1> USE DEF TypeOK, Goto, Process, PlaceAt, Builds
<1>1. ASSUME Throws(t), UNCHANGED <<phase, key>> PROVE Goal
  <2>1. CASE phase[t] = "factory"
    BY <1>0, <1>1, <2>1 DEF Throws, Map!Fail
  <2>2. CASE phase[t] # "factory"
    BY <1>0, <1>1, <2>2 DEF Throws, dictVars
  <2> QED BY <2>1, <2>2
<1>2. CASE GetChannel(t) \/ LookupMiss(t) \/ FetchAnswers(t)
  BY <1>0, <1>2 DEF GetChannel, LookupMiss, FetchAnswers, ControlAt, localVars, dictVars
<1>3. CASE LookupHit(t) \/ Commit(t)
  <2>1. CASE Throws(t)
    BY <1>1, <1>3, <2>1 DEF LookupHit, Commit
  <2>2. CASE ~Throws(t)
    BY <1>0, <1>3, <2>2 DEF LookupHit, Commit, ControlAt, dictVars
  <2> QED BY <2>1, <2>2
<1>4. CASE FetchFails(t)
  BY <1>1, <1>4 DEF FetchFails
<1>5. CASE Sweep(t)
  BY <1>0, <1>5 DEF Sweep, SweepStart, SweepShut, SweepOne, SweepEnd, ControlAt, localVars, dictVars
<1>6. CASE Select(t)
  <2>1. PICK e \in list[t] :
          \/ /\ phase[t] = "first"
             /\ key' = [key EXCEPT ![t] = e]
             /\ pc' = [pc EXCEPT ![t] = "getoradd"]
          \/ /\ phase[t] # "first"
             /\ pc' = [pc EXCEPT ![t] = "connect"]
             /\ UNCHANGED key
    BY <1>6 DEF Select
  <2>2. UNCHANGED <<building, phase>> /\ pc[t] = "select"
    BY <1>6 DEF Select, dictVars
  <2> QED BY <1>0, <2>1, <2>2
<1>7. CASE EntryFound(t)
  BY <1>0, <1>7 DEF EntryFound, Map!Read
<1>8. CASE FactoryBegins(t)
  <2>1. /\ building' = building \union {<<t, key[t]>>} /\ UNCHANGED key
        /\ phase' = [phase EXCEPT ![t] = "factory"] /\ pc' = [pc EXCEPT ![t] = "connect"]
        /\ pc[t] = "getoradd" /\ key[t] \in Endpoint
    BY <1>8 DEF FactoryBegins, Map!Begin, ControlAt
  <2> QED BY <1>0, <2>1
<1>9. CASE FactoryEnds(t)
  <2>1. /\ building' = building \ {<<t, key[t]>>} /\ UNCHANGED key
        /\ phase' = [phase EXCEPT ![t] = "first"] /\ pc' = [pc EXCEPT ![t] = "check"]
        /\ pc[t] = "store"
    BY <1>9 DEF FactoryEnds, Map!End
  <2> QED BY <1>0, <2>1
<1>10. CASE ChannelReady(t) \/ Update(t)
  BY <1>0, <1>10 DEF ChannelReady, Update, localVars, dictVars
<1>11. CASE Rebuild(t)
  <2>1. /\ UNCHANGED <<building, key>> /\ pc[t] = "check"
        /\ phase' = [phase EXCEPT ![t] = "rebuild"] /\ pc' = [pc EXCEPT ![t] = "connect"]
    BY <1>11 DEF Rebuild, dictVars
  <2> QED BY <1>0, <2>1
<1>12. CASE ConnectSucceeds(t)
  BY <1>0, <1>12 DEF ConnectSucceeds, localVars, dictVars
<1>13. CASE ConnectFails(t)
  <2>1. CASE Throws(t)
    BY <1>1, <1>13, <2>1 DEF ConnectFails
  <2>2. CASE ~Throws(t)
    BY <1>0, <1>13, <2>2 DEF ConnectFails, dictVars
  <2> QED BY <2>1, <2>2
<1>14. CASE Connected(t)
  BY <1>0, <1>14 DEF Connected, ControlAt, localVars, dictVars
<1>15. CASE Return(t)
  BY <1>0, <1>15 DEF Return, Map!Forget
<1> HIDE DEF Goal
<1> QED
  BY <1>2, <1>3, <1>4, <1>5, <1>6, <1>7, <1>8, <1>9, <1>10, <1>11, <1>12, <1>13, <1>14,
     <1>15 DEF CallStep

\* Every step keeps channels under creation to their creators.
LEMMA OwnStep ==
  ASSUME PoolInv, OwnInv, [Next]_vars PROVE OwnInv'
<1> TypeOK
  BY DEF PoolInv
<1>1. ASSUME NEW u \in Thread, NEW t \in Thread, GetChannel(t) \/ CallStep(t)
      PROVE  PlaceAt(u)' /\ \A k \in Endpoint : <<u, k>> \in building' <=> Builds(u, k)'
  <2>1. CASE u = t
    BY <1>1, <2>1, CallPlace
  <2>2. CASE u # t
    <3>1. pc'[u] = pc[u] /\ phase'[u] = phase[u] /\ key'[u] = key[u]
      BY <1>1, <2>2, OthersKeep DEF Process
    <3>2. \A k \in Endpoint : <<u, k>> \in building' <=> <<u, k>> \in building
      BY <1>1, <2>2, CallPlace
    <3> QED BY <3>1, <3>2 DEF OwnInv, PlaceAt, Builds, BuildsToTheEnd
  <2> QED BY <2>1, <2>2
<1>2. ASSUME UNCHANGED <<phase, key, building>>, \A u \in Thread : pc'[u] = pc[u],
             NEW u \in Thread
      PROVE  PlaceAt(u)' /\ \A k \in Endpoint : <<u, k>> \in building' <=> Builds(u, k)'
  BY <1>2 DEF OwnInv, PlaceAt, Builds, BuildsToTheEnd
<1>3. \A u \in Thread :
        PlaceAt(u)' /\ \A k \in Endpoint : <<u, k>> \in building' <=> Builds(u, k)'
  BY <1>1, <1>2, CallsKeep DEF Next
<1>4. BuildsToTheEnd'
  BY <1>3 DEF BuildsToTheEnd, Builds
<1> QED BY <1>3, <1>4, InUseStep, OwnsStep DEF OwnInv

LEMMA OwnInvariance == Spec => [](PoolInv /\ OwnInv)
<1>1. PoolInv /\ OwnInv /\ [Next]_vars => (PoolInv /\ OwnInv)'
  BY TypeStep, ControlStep, EntriesStep, OwnStep DEF PoolInv
<1> QED BY InvInit, OwnInit, <1>1, PTL DEF Spec

\* No sweep, caller or Shutdown closes a channel under its creator's hands.
THEOREM CreatedAreOwned == Spec => []CreatedStaysOpen
<1>1. OwnInv => CreatedStaysOpen
  BY DEF OwnInv, Owns, Creating, CreatedStaysOpen
<1> QED BY <1>1, OwnInvariance, PTL

\* A key is being built exactly while its one builder is inside its factory.
THEOREM BuildersFinish == Spec => []BuildsToTheEnd
<1>1. OwnInv => BuildsToTheEnd
  BY DEF OwnInv
<1> QED BY <1>1, OwnInvariance, PTL

-----------------------------------------------------------------------------
\* Leaks, whatever overlaps: a channel to an endpoint that has had no trouble
\* is an entry of its endpoint or in the hands of the call that creates it.
LeakCall(t) ==
  /\ phase[t] # "first" /\ pc[t] \in {"lookup", "select"} => tries[t] > 0
  /\ Creating(t) => target[chan[t]] \in Endpoint
  /\ Creating(t) /\ tries[t] = 0 => target[chan[t]] = key[t]
  /\ Creates(t, key[t]) /\ tries[t] > 0 => key[t] \in troubled
  /\ Creates(t, key[t]) /\ key[t] \notin troubled =>
       \/ channels[key[t]] = NoChannel
       \/ phase[t] = "rebuild" /\ state[channels[key[t]]] = "shut"
  /\ pc[t] = "check" /\ key[t] \notin troubled => channels[key[t]] \in {chan[t], NoChannel}
  /\ pc[t] = "check" /\ target[chan[t]] # key[t] =>
       {key[t], target[chan[t]]} \subseteq troubled
  /\ pool # "open" => pc[t] = "idle"

LeakNote(k, c) ==
  /\ k \notin troubled => channels[k] \in {c, NoChannel}
  /\ target[c] # k => {k, target[c]} \subseteq troubled

LeakEntry(k) ==
  channels[k] # NoChannel =>
    /\ target[channels[k]] # k => {k, target[channels[k]]} \subseteq troubled
    /\ state[channels[k]] = "shut" /\ pool = "open" /\ k \notin troubled =>
         \/ \E t \in Thread : Creates(t, k) /\ phase[t] = "rebuild"
         \/ \E p \in Process : <<k, channels[k]>> \in todo[p]

LeakKept(c) ==
  Open(c) /\ pool # "aborted" /\ target[c] \notin troubled =>
    /\ pool = "open"
    /\ \/ target[c] \in Endpoint /\ channels[target[c]] = c
       \/ \E t \in Thread : Creating(t) /\ chan[t] = c

LeakInv ==
  /\ \A k \in Endpoint : Troubled(k) => k \in troubled
  /\ \A t \in Thread : LeakCall(t)
  /\ \A p \in Process : pc[p] # "sweeping" => todo[p] = {}
  /\ \A p \in Process, k \in Endpoint, c \in Channel : <<k, c>> \in todo[p] => LeakNote(k, c)
  /\ \A k \in Endpoint : LeakEntry(k)
  /\ \A c \in Channel : LeakKept(c)

\* Trouble is noted when it comes and never forgotten.
LeakStep ==
  /\ [Next]_vars
  /\ troubled \subseteq troubled'
  /\ \A k \in Endpoint : Troubled(k)' => k \in troubled'

LEMMA LeakStart == LeakInit => LeakInv
<1> SUFFICES ASSUME LeakInit PROVE LeakInv
  OBVIOUS
<1>1. \A t \in Thread : phase[t] = "first" /\ pc[t] = "idle" /\ chan[t] = NoChannel
  BY DEF LeakInit, Init, Process
<1>2. \A k \in Endpoint : ~Troubled(k)
  BY <1>1 DEF Troubled, Clash, Failing, Creates
<1>3. \A t \in Thread : LeakCall(t)
  BY <1>1 DEF LeakCall, Creating, Creates
<1>4. /\ \A p \in Process : todo[p] = {}
      /\ \A k \in Endpoint : LeakEntry(k)
      /\ \A c \in Channel : LeakKept(c)
  BY DEF LeakInit, Init, Map!Init, LeakEntry, LeakKept, Open
<1> QED BY <1>2, <1>3, <1>4 DEF LeakInv

LEMMA LeakSteps == ASSUME LeakInv, [LeakNext]_leakVars PROVE LeakStep
<1>1. CASE LeakNext
  BY <1>1 DEF LeakNext, LeakStep
<1>2. CASE UNCHANGED leakVars
  <2>1. UNCHANGED <<vars, troubled>>
    BY <1>2 DEF leakVars
  <2>2. \A k \in Endpoint : Troubled(k)' <=> Troubled(k)
    BY <2>1 DEF Troubled, Clash, Failing, Creates, vars, chanVars, localVars
  <2> QED BY <2>1, <2>2 DEF LeakInv, LeakStep
<1> QED BY <1>1, <1>2

\* What a step does to an entry, and who does it.
LEMMA EntrySteps ==
  ASSUME PoolInv, [Next]_vars, NEW k \in Endpoint
  PROVE  \/ channels'[k] = channels[k]
         \/ /\ channels'[k] = NoChannel
            /\ \/ pool = "closing"
               \/ \E p \in Process, c \in Channel : <<k, c>> \in todo[p] /\ state[c] = "shut"
         \/ \E t \in Thread : /\ key[t] = k /\ channels'[k] = chan[t]
                              /\ (FactoryEnds(t) /\ channels[k] = NoChannel) \/ Update(t)
<1> DEFINE Moves ==
         \/ channels'[k] = channels[k]
         \/ /\ channels'[k] = NoChannel
            /\ \/ pool = "closing"
               \/ \E p \in Process, c \in Channel : <<k, c>> \in todo[p] /\ state[c] = "shut"
         \/ \E t \in Thread : /\ key[t] = k /\ channels'[k] = chan[t]
                              /\ (FactoryEnds(t) /\ channels[k] = NoChannel) \/ Update(t)
<1> SUFFICES Moves
  OBVIOUS
<1> TypeOK
  BY DEF PoolInv
<1>1. CASE UNCHANGED channels
  BY <1>1
<1>2. ASSUME NEW t \in Thread, FactoryEnds(t) \/ Update(t) PROVE Moves
  BY <1>2 DEF FactoryEnds, Update, TypeOK
<1>3. ASSUME NEW p \in Process, SweepOne(p) PROVE Moves
  <2>1. PICK x \in todo[p] : /\ state[x[2]] = "shut"
                            /\ channels' = [channels EXCEPT ![x[1]] = NoChannel]
    BY <1>3 DEF SweepOne
  <2>2. x[1] \in Endpoint /\ x[2] \in Channel /\ x = <<x[1], x[2]>>
    BY DEF TypeOK
  <2>3. CASE k = x[1]
    <3>1. <<k, x[2]>> \in todo[p] /\ state[x[2]] = "shut" /\ channels'[k] = NoChannel
      BY <2>1, <2>2, <2>3 DEF TypeOK
    <3> QED BY <2>2, <3>1
  <2>4. CASE k # x[1]
    BY <2>1, <2>4 DEF TypeOK
  <2> QED BY <2>3, <2>4
<1>4. ASSUME NEW t \in Thread, GetChannel(t) \/ CallStep(t),
             ~(FactoryEnds(t) \/ Update(t) \/ SweepOne(t))
      PROVE UNCHANGED channels
  BY <1>4 DEF CallStep, GetChannel, LookupHit, LookupMiss, FetchAnswers, FetchFails,
       Throws, Map!Fail, Commit, Sweep, SweepStart, SweepShut, SweepEnd, Select, EntryFound,
       Map!Read, FactoryBegins, Map!Begin, ChannelReady, Rebuild, ConnectSucceeds,
       ConnectFails, Connected, Return, Map!Forget, dictVars
<1>5. ASSUME \/ ServiceChanged \/ EmptyListIgnored \/ SweepStart(Notifier)
             \/ SweepShut(Notifier) \/ SweepEnd(Notifier) \/ ShutdownChannels \/ ShutdownThrows
             \/ Environment \/ UNCHANGED vars
      PROVE UNCHANGED channels
  BY <1>5 DEF ServiceChanged, EmptyListIgnored, SweepStart, SweepShut, SweepEnd, ShutdownChannels,
       ShutdownThrows, Environment, Flip, LoseConnection, Reconnect, HealthChanges,
       vars, dictVars
<1>6. ASSUME ClearChannels PROVE Moves
  BY <1>6 DEF ClearChannels
<1> HIDE DEF Moves
<1> QED
  BY <1>1, <1>2, <1>3, <1>4, <1>5, <1>6 DEF Next, Sweep, Process

\* An object that is in use keeps its target.
LEMMA TargetStays ==
  ASSUME PoolInv, [Next]_vars, NEW c \in Channel, state[c] # "unused"
  PROVE  target'[c] = target[c]
<1> TypeOK
  BY DEF PoolInv
<1>1. CASE UNCHANGED target
  BY <1>1
<1>2. ASSUME NEW t \in Thread, NEW e, NewChannel(t, e) PROVE target'[c] = target[c]
  BY <1>2 DEF NewChannel, TypeOK
<1>3. ASSUME NEW t \in Thread, Rebuild(t) PROVE target'[c] = target[c]
  BY <1>3 DEF Rebuild, TypeOK
<1>4. ASSUME NEW t \in Thread, Select(t) \/ FactoryBegins(t) PROVE target'[c] = target[c]
  BY <1>1, <1>2, <1>4 DEF Select, FactoryBegins, chanVars
<1>5. ASSUME NEW t \in Thread,
             \/ GetChannel(t) \/ LookupHit(t) \/ LookupMiss(t) \/ FetchAnswers(t)
             \/ FetchFails(t) \/ Commit(t) \/ EntryFound(t) \/ FactoryEnds(t)
             \/ ChannelReady(t) \/ Update(t) \/ ConnectSucceeds(t) \/ ConnectFails(t)
             \/ Connected(t) \/ Return(t)
      PROVE UNCHANGED target
  BY <1>5 DEF GetChannel, LookupHit, LookupMiss, FetchAnswers, FetchFails, Commit,
       EntryFound, FactoryEnds, ChannelReady, Update, ConnectSucceeds, ConnectFails,
       Connected, Return, chanVars
<1>6. ASSUME NEW p \in Process, Sweep(p) PROVE UNCHANGED target
  BY <1>6 DEF Sweep, SweepStart, SweepShut, SweepOne, SweepEnd, chanVars
<1>7. ASSUME \/ ServiceChanged \/ EmptyListIgnored \/ ShutdownChannels \/ ShutdownThrows
             \/ ClearChannels \/ Environment \/ UNCHANGED vars
      PROVE UNCHANGED target
  BY <1>7 DEF ServiceChanged, EmptyListIgnored, ShutdownChannels, ShutdownThrows,
       ClearChannels, Environment, Flip, LoseConnection, Reconnect, HealthChanges, vars,
       chanVars
<1> QED
  BY <1>1, <1>3, <1>4, <1>5, <1>6, <1>7 DEF Next, CallStep, Process

\* No call opens or closes the pool.
LEMMA PoolStays ==
  ASSUME NEW t \in Thread, GetChannel(t) \/ CallStep(t)
  PROVE  UNCHANGED pool
BY DEF GetChannel, CallStep, LookupHit, LookupMiss, FetchAnswers, FetchFails, Commit, Sweep,
   SweepStart, SweepShut, SweepOne, SweepEnd, Select, EntryFound, FactoryBegins, FactoryEnds,
   ChannelReady, Rebuild, Update, ConnectSucceeds, ConnectFails, Connected, Return

\* The caller that stores an entry has created it, and for the entry's key.
LEMMA StorerCreates ==
  ASSUME PoolInv, OwnInv, LeakInv, NEW t \in Thread, FactoryEnds(t) \/ Update(t)
  PROVE  /\ Creates(t, key[t]) /\ Creating(t) /\ key[t] \in Endpoint /\ chan[t] \in Channel
         /\ target[chan[t]] # key[t] => {key[t], target[chan[t]]} \subseteq troubled
         /\ UNCHANGED <<target, state>>
<1> PlaceAt(t) /\ ControlAt(t) /\ LeakCall(t) /\ TypeOK
  BY DEF OwnInv, PoolInv, ControlInv, LeakInv
<1>1. pc[t] \in {"store", "update"} /\ UNCHANGED <<target, state>>
  BY DEF FactoryEnds, Update, chanVars
<1>2. Creates(t, key[t]) /\ Creating(t) /\ key[t] \in Endpoint /\ chan[t] \in Channel
  BY <1>1 DEF PlaceAt, ControlAt, Creates, Creating
<1>3. tries[t] > 0 => target[chan[t]] \in troubled
  BY <1>2 DEF LeakInv, LeakCall, Troubled, Failing, Channel, NoChannel
<1>4. tries[t] > 0 \/ tries[t] = 0
  BY DEF TypeOK
<1> QED BY <1>1, <1>2, <1>3, <1>4 DEF LeakCall

\* In the step of another process a call finds its entry as it was, or gone,
\* or it has clashed.
LEMMA OtherStores ==
  ASSUME PoolInv, OwnInv, LeakInv, [Next]_vars, NEW t \in Thread, NEW k \in Endpoint,
         Creates(t, k) \/ (pc[t] = "check" /\ key[t] = k), k \notin troubled,
         ~(FactoryEnds(t) \/ Update(t))
  PROVE  channels'[k] \in {channels[k], NoChannel}
<1>1. ASSUME NEW u \in Thread, key[u] = k, FactoryEnds(u) \/ Update(u) PROVE FALSE
  <2>1. u # t /\ Creates(u, k)
    BY <1>1, StorerCreates
  <2>2. Clash(k)
    BY <2>1 DEF Clash
  <2> QED BY <2>2 DEF LeakInv, Troubled
<1> QED BY <1>1, EntrySteps

\* What is shut stays shut.
LEMMA ShutStays ==
  ASSUME PoolInv, [Next]_vars, NEW c \in Channel, state[c] = "shut"
  PROVE  state'[c] = "shut"
  BY StateMoves

\* The step of another process.
LEMMA LeakOthers ==
  ASSUME PoolInv, OwnInv, LeakInv, LeakStep, NEW t \in Thread,
         ~(GetChannel(t) \/ CallStep(t))
  PROVE  LeakCall(t)'
<1> TypeOK /\ ControlAt(t) /\ LeakCall(t) /\ [Next]_vars
  BY DEF PoolInv, ControlInv, LeakInv, LeakStep
<1>1. /\ pc'[t] = pc[t] /\ phase'[t] = phase[t] /\ key'[t] = key[t]
      /\ tries'[t] = tries[t] /\ chan'[t] = chan[t]
  BY OthersKeep, CallsKeep DEF Next, Process
<1>2. pool' # "open" => pc[t] = "idle"
  <2>1. CASE UNCHANGED pool
    BY <2>1 DEF LeakCall
  <2>2. CASE ShutdownChannels \/ ShutdownThrows \/ ClearChannels
    BY <2>2 DEF ShutdownChannels, ShutdownThrows, ClearChannels, LeakCall, Process
  <2>3. ASSUME NEW u \in Thread, GetChannel(u) \/ CallStep(u) PROVE UNCHANGED pool
    BY <2>3, PoolStays
  <2>4. ASSUME \/ ServiceChanged \/ EmptyListIgnored \/ Sweep(Notifier) \/ Environment
               \/ UNCHANGED vars
        PROVE  UNCHANGED pool
    BY <2>4 DEF ServiceChanged, EmptyListIgnored, Sweep, SweepStart, SweepShut, SweepOne, SweepEnd,
       Environment, Flip, LoseConnection, Reconnect, HealthChanges, vars
  <2> QED BY <2>1, <2>2, <2>3, <2>4 DEF Next
<1>3. Creating(t) \/ pc[t] = "check" => target'[chan[t]] = target[chan[t]]
  <2>1. Creating(t) \/ pc[t] = "check" => chan[t] \in Channel /\ chan[t] # NoChannel
    BY DEF ControlAt, Creating, Channel, NoChannel
  <2>2. Creating(t) \/ pc[t] = "check" => state[chan[t]] # "unused"
    BY <2>1 DEF OwnInv, InUse
  <2> QED BY <2>1, <2>2, TargetStays
<1>4. ASSUME Creates(t, key[t]) \/ pc[t] = "check", key[t] \notin troubled'
      PROVE  /\ key[t] \in Endpoint /\ key[t] \notin troubled
             /\ channels'[key[t]] \in {channels[key[t]], NoChannel}
  <2>1. key[t] \in Endpoint /\ key[t] \notin troubled
    BY <1>4 DEF Creates, ControlAt, LeakStep
  <2>2. ~(FactoryEnds(t) \/ Update(t))
    BY DEF CallStep
  <2> QED BY <1>4, <2>1, <2>2, OtherStores
<1>5. ASSUME Creates(t, key[t]), key[t] \notin troubled'
      PROVE  \/ channels'[key[t]] = NoChannel
             \/ phase[t] = "rebuild" /\ state'[channels'[key[t]]] = "shut"
  <2>1. channels[key[t]] # NoChannel => channels[key[t]] \in Channel
    BY <1>4, <1>5 DEF TypeOK
  <2> QED BY <1>4, <1>5, <2>1, ShutStays DEF LeakCall
<1>6. pc[t] = "check" /\ key[t] \notin troubled' => channels'[key[t]] \in {chan[t], NoChannel}
  BY <1>4 DEF LeakCall
<1>7. troubled \subseteq troubled'
  BY DEF LeakStep
<1> QED BY <1>1, <1>2, <1>3, <1>5, <1>6, <1>7 DEF LeakCall, Creating, Creates

\* An entry that goes to another endpoint than its own had trouble with both.
LEMMA EntryTargets ==
  ASSUME LeakInv, TypeOK, NEW k \in Endpoint, NEW c \in Channel, channels[k] = c,
         target[c] # k
  PROVE  {k, target[c]} \subseteq troubled
<1>1. LeakEntry(k)
  BY DEF LeakInv
<1>2. channels[k] # NoChannel
  BY DEF Channel, NoChannel
<1> QED BY <1>1, <1>2 DEF LeakEntry

\* The call's own step: outside CreateChannel, ...
LEMMA LeakOwnQuiet ==
  ASSUME PoolInv, OwnInv, LeakInv, LeakStep, NEW t \in Thread,
         \/ GetChannel(t) \/ LookupMiss(t) \/ FetchAnswers(t) \/ FetchFails(t)
         \/ Commit(t) \/ Sweep(t) \/ ChannelReady(t) \/ Update(t) \/ Return(t)
  PROVE  LeakCall(t)'
<1> TypeOK /\ ControlAt(t) /\ LeakCall(t) /\ PlaceAt(t)
  BY DEF PoolInv, ControlInv, LeakInv, OwnInv
<1> USE DEF Goto, TypeOK, Process
<1>1. UNCHANGED pool
  BY PoolStays DEF CallStep
<1>2. ASSUME pc'[t] = "done", pc[t] # "idle" PROVE LeakCall(t)'
  BY <1>1, <1>2 DEF LeakCall, Creating, Creates
<1>3. ASSUME Throws(t) PROVE pc'[t] = "done"
  BY <1>3 DEF Throws
<1>4. ASSUME phase'[t] = "first", pc[t] # "idle" \/ pool = "open",
             pc'[t] \notin {"connect", "store", "update", "check"}
      PROVE  LeakCall(t)'
  BY <1>1, <1>4 DEF LeakCall, Creating, Creates
<1>5. CASE GetChannel(t)
  BY <1>4, <1>5 DEF GetChannel
<1>6. CASE LookupMiss(t) \/ FetchAnswers(t)
  BY <1>4, <1>6 DEF LookupMiss, FetchAnswers, ControlAt, localVars
<1>7. CASE FetchFails(t)
  BY <1>2, <1>3, <1>7 DEF FetchFails
<1>8. CASE Commit(t)
  BY <1>2, <1>3, <1>4, <1>8 DEF Commit, ControlAt
<1>9. CASE Sweep(t)
  BY <1>4, <1>9 DEF Sweep, SweepStart, SweepShut, SweepOne, SweepEnd, ControlAt, localVars
<1>10. CASE ChannelReady(t) \/ Update(t)
  BY <1>2, <1>10 DEF ChannelReady, Update
<1>11. CASE Return(t)
  BY <1>1, <1>11 DEF Return, LeakCall, Creating, Creates
<1> QED BY <1>5, <1>6, <1>7, <1>8, <1>9, <1>10, <1>11

\* ... where it is given an entry, ...
LEMMA LeakOwnEntry ==
  ASSUME PoolInv, OwnInv, LeakInv, LeakStep, NEW t \in Thread,
         EntryFound(t) \/ FactoryEnds(t)
  PROVE  LeakCall(t)'
<1> TypeOK /\ ControlAt(t) /\ LeakCall(t) /\ PlaceAt(t)
  BY DEF PoolInv, ControlInv, LeakInv, OwnInv
<1> USE DEF Goto, TypeOK, Process
<1>1. UNCHANGED pool /\ pool = "open"
  BY PoolStays DEF CallStep, LeakCall, EntryFound, FactoryEnds
<1>2. /\ UNCHANGED <<target, state, key>> /\ key[t] \in Endpoint
      /\ pc'[t] = "check" /\ phase'[t] = "first" /\ chan'[t] = channels'[key[t]]
  BY DEF EntryFound, FactoryEnds, ControlAt, PlaceAt, chanVars, Map!Read
<1>3. target[chan'[t]] # key[t] => {key[t], target[chan'[t]]} \subseteq troubled
  <2>1. CASE chan'[t] = channels[key[t]] /\ channels[key[t]] # NoChannel
    BY <1>2, <2>1, EntryTargets
  <2>2. CASE EntryFound(t)
    BY <1>2, <2>1, <2>2 DEF EntryFound, Map!Read
  <2>3. CASE FactoryEnds(t)
    <3>1. chan'[t] = IF channels[key[t]] = NoChannel THEN chan[t] ELSE channels[key[t]]
      BY <1>2, <2>3 DEF FactoryEnds
    <3> QED BY <1>2, <2>1, <2>3, <3>1, StorerCreates
  <2> QED BY <2>2, <2>3
<1> QED BY <1>1, <1>2, <1>3 DEF LeakCall, Creating, Creates, LeakStep

\* ... where it creates a channel, ...
LEMMA LeakOwnNew ==
  ASSUME PoolInv, OwnInv, LeakInv, LeakStep, NEW t \in Thread,
         FactoryBegins(t) \/ Rebuild(t)
  PROVE  LeakCall(t)'
<1> TypeOK /\ ControlAt(t) /\ LeakCall(t) /\ PlaceAt(t)
  BY DEF PoolInv, ControlInv, LeakInv, OwnInv
<1> USE DEF Goto, TypeOK, Process
<1>1. UNCHANGED pool /\ pool = "open" /\ UNCHANGED <<key, channels>> /\ key[t] \in Endpoint
  BY PoolStays DEF CallStep, LeakCall, FactoryBegins, Rebuild, ControlAt, Map!Begin, dictVars
<1>2. pc'[t] = "connect" /\ tries'[t] = 0 /\ target'[chan'[t]] = key[t]
  BY DEF FactoryBegins, Rebuild, NewChannel
<1>3. CASE FactoryBegins(t)
  BY <1>1, <1>2, <1>3 DEF FactoryBegins, Map!Begin, LeakCall, Creating, Creates
<1>4. CASE Rebuild(t)
  <2>1. phase'[t] = "rebuild" /\ pc[t] = "check" /\ chan[t] \in Channel
    BY <1>4 DEF Rebuild, ControlAt
  <2>2. state'[chan[t]] = "shut"
    BY <1>4, <2>1 DEF Rebuild
  <2>3. key[t] \notin troubled' => channels[key[t]] \in {chan[t], NoChannel}
    BY <2>1 DEF LeakCall, LeakStep
  <2> QED BY <1>1, <1>2, <2>1, <2>2, <2>3 DEF LeakCall, Creating, Creates
<1> QED BY <1>3, <1>4

\* ... and in the loop of CreateChannel.
LEMMA LeakOwnLoop ==
  ASSUME PoolInv, OwnInv, LeakInv, LeakStep, NEW t \in Thread,
         LookupHit(t) \/ Select(t) \/ ConnectSucceeds(t) \/ ConnectFails(t) \/ Connected(t)
  PROVE  LeakCall(t)'
<1> TypeOK /\ ControlAt(t) /\ LeakCall(t) /\ PlaceAt(t) /\ [Next]_vars
  BY DEF PoolInv, ControlInv, LeakInv, OwnInv, LeakStep
<1> USE DEF Goto, TypeOK, Process
<1>1. UNCHANGED <<pool, phase>> /\ pool = "open"
  BY PoolStays DEF CallStep, LeakCall, LookupHit, Select, ConnectSucceeds, ConnectFails,
     Connected, localVars
<1>2. UNCHANGED channels
  BY DEF LookupHit, Select, ConnectSucceeds, ConnectFails, Connected, dictVars, Throws,
     Map!Fail
<1>3. channels[key[t]] # NoChannel /\ key[t] \in Endpoint /\ state[channels[key[t]]] = "shut"
        => state'[channels[key[t]]] = "shut"
  BY ShutStays
<1>4. ASSUME pc'[t] = "done" PROVE LeakCall(t)'
  BY <1>1, <1>4 DEF LeakCall, Creating, Creates
<1>5. ASSUME Throws(t) PROVE pc'[t] = "done"
  BY <1>5 DEF Throws
<1>6. troubled \subseteq troubled'
  BY DEF LeakStep
<1>7. CASE LookupHit(t)
  <2>1. CASE ~Throws(t)
    BY <1>1, <1>2, <1>6, <1>7, <2>1 DEF LookupHit, LeakCall, Creating, Creates
  <2> QED BY <1>4, <1>5, <2>1
<1>8. CASE Select(t)
  <2>1. CASE phase[t] = "first"
    <3>1. pc'[t] = "getoradd"
      BY <1>8, <2>1 DEF Select
    <3> QED BY <1>1, <2>1, <3>1 DEF LeakCall, Creating, Creates
  <2>2. CASE phase[t] # "first"
    <3>1. PICK e \in list[t] : NewChannel(t, e) /\ Goto(t, "connect") /\ UNCHANGED key
      BY <1>8, <2>2 DEF Select
    <3>2. e \in Endpoint /\ target'[chan'[t]] = e /\ pc'[t] = "connect" /\ pc[t] = "select"
      BY <1>8, <3>1 DEF NewChannel, Select, Lists
    <3>3. tries[t] > 0 /\ UNCHANGED tries /\ key[t] \in Endpoint /\ tries[t] # 0
      BY <1>8, <2>2, <3>2 DEF LeakCall, Select, ControlAt
    <3>4. key[t] \in troubled'
      BY <1>6, <2>2, <3>2, <3>3 DEF LeakCall, Creates
    <3> QED BY <1>1, <3>1, <3>2, <3>3, <3>4 DEF LeakCall, Creating, Creates
  <2> QED BY <2>1, <2>2
<1>9. CASE ConnectSucceeds(t) \/ Connected(t)
  <2>1. /\ UNCHANGED <<target, key, chan, tries>> /\ pc[t] = "connect" /\ phase[t] # "first"
        /\ pc'[t] \in {"connect", "store", "update"} /\ key[t] \in Endpoint
    BY <1>9 DEF ConnectSucceeds, Connected, chanVars, localVars, ControlAt
  <2> QED BY <1>1, <1>2, <1>3, <1>6, <2>1 DEF LeakCall, Creating, Creates
<1>10. CASE ConnectFails(t)
  <2>1. /\ UNCHANGED <<target, state, key>> /\ pc[t] = "connect" /\ phase[t] # "first"
        /\ key[t] \in Endpoint /\ tries'[t] = tries[t] + 1 /\ tries[t] + 1 > 0
    BY <1>10 DEF ConnectFails, chanVars, ControlAt
  <2>2. CASE ~Throws(t)
    <3>1. UNCHANGED chan /\ pc'[t] = "lookup" /\ chan[t] # NoChannel
      BY <1>10, <2>2 DEF ConnectFails, ControlAt, Channel, NoChannel
    <3>2. CASE tries[t] = 0
      <4>1. target[chan[t]] = key[t]
        BY <2>1, <3>2 DEF LeakCall, Creating
      <4>2. Failing(key[t])'
        BY <2>1, <3>1, <4>1 DEF Failing
      <4>3. key[t] \in troubled'
        BY <2>1, <4>2 DEF Troubled, LeakStep
      <4> QED BY <1>1, <2>1, <3>1, <4>3 DEF LeakCall, Creating, Creates
    <3>3. CASE tries[t] # 0
      <4>1. key[t] \in troubled'
        BY <1>6, <2>1, <3>3 DEF LeakCall, Creates
      <4> QED BY <1>1, <2>1, <3>1, <4>1 DEF LeakCall, Creating, Creates
    <3> QED BY <3>2, <3>3
  <2> QED BY <1>4, <1>5, <2>2
<1> QED BY <1>7, <1>8, <1>9, <1>10

LEMMA LeakCalls ==
  ASSUME PoolInv, OwnInv, LeakInv, LeakStep, NEW t \in Thread PROVE LeakCall(t)'
  BY LeakOthers, LeakOwnQuiet, LeakOwnEntry, LeakOwnNew, LeakOwnLoop DEF CallStep

\* Only Shutdown ends an open pool, and nothing opens it again.
LEMMA PoolMoves ==
  ASSUME [Next]_vars
  PROVE  /\ pool = "open" => pool' = "open" \/ ShutdownChannels \/ pool' = "aborted"
         /\ pool' = "open" => pool = "open"
         /\ pool = "aborted" => pool' = "aborted"
<1>1. ASSUME \/ ServiceChanged \/ EmptyListIgnored \/ Sweep(Notifier) \/ Environment
             \/ UNCHANGED vars
      PROVE  UNCHANGED pool
  BY <1>1 DEF ServiceChanged, EmptyListIgnored, Sweep, SweepStart, SweepShut, SweepOne, SweepEnd,
     Environment, Flip, LoseConnection, Reconnect, HealthChanges, vars
<1> QED
  BY <1>1, PoolStays DEF Next, ShutdownChannels, ShutdownThrows, ClearChannels

\* Every step keeps the notes of the sweeps to what they may remove.
LEMMA LeakNotes ==
  ASSUME PoolInv, OwnInv, LeakInv, LeakStep, NEW p \in Process, NEW k \in Endpoint,
         NEW c \in Channel, <<k, c>> \in todo'[p]
  PROVE  LeakNote(k, c)'
<1> TypeOK /\ [Next]_vars /\ troubled \subseteq troubled'
  BY DEF PoolInv, LeakStep
<1>1. <<k, c>> \in todo[p] \/ (channels[k] = c /\ UNCHANGED channels)
  BY NotesMove
<1>2. target'[c] = target[c]
  <2>1. state[c] # "unused"
    BY <1>1 DEF OwnInv, InUse, PoolInv, EntriesConnected, Channel, NoChannel
  <2> QED BY <2>1, TargetStays
<1>3. CASE <<k, c>> \in todo[p]
  <2>1. LeakNote(k, c)
    BY <1>3 DEF LeakInv
  <2>2. ASSUME NEW t \in Thread, key[t] = k, FactoryEnds(t) \/ Update(t) PROVE k \in troubled
    <3>1. Clash(k)
      BY <1>3, <2>2, StorerCreates DEF Clash
    <3> QED BY <3>1 DEF LeakInv, Troubled
  <2>3. k \notin troubled => channels'[k] \in {channels[k], NoChannel}
    BY <2>2, EntrySteps
  <2> QED BY <1>2, <2>1, <2>3 DEF LeakNote
<1>4. CASE channels[k] = c /\ UNCHANGED channels
  BY <1>2, <1>4, EntryTargets DEF LeakNote
<1> QED BY <1>1, <1>3, <1>4

\* Nobody else takes the steps of a sweep.
LEMMA SweeperMoves ==
  ASSUME PoolInv, [Next]_vars, NEW p \in Process, pc[p] \in {"sweep", "sweeping"}
  PROVE  \/ Sweep(p)
         \/ pc'[p] = pc[p] /\ list'[p] = list[p] /\ todo'[p] = todo[p]
<1> TypeOK
  BY DEF PoolInv
<1>1. ASSUME NEW t \in Thread, GetChannel(t) \/ CallStep(t), t # p
      PROVE  pc'[p] = pc[p] /\ list'[p] = list[p] /\ todo'[p] = todo[p]
  BY <1>1, OthersKeep
<1>2. ASSUME p \in Thread, GetChannel(p) \/ CallStep(p) PROVE Sweep(p)
  BY <1>2 DEF CallStep, GetChannel, LookupHit, LookupMiss, FetchAnswers, FetchFails,
       Commit, Select, EntryFound, FactoryBegins, FactoryEnds, ChannelReady, Rebuild,
       Update, ConnectSucceeds, ConnectFails, Connected, Return
<1>3. ASSUME \/ ServiceChanged \/ EmptyListIgnored \/ Sweep(Notifier)
             \/ ShutdownChannels \/ ShutdownThrows \/ ClearChannels \/ Environment
             \/ UNCHANGED vars
      PROVE  Sweep(p) \/ (pc'[p] = pc[p] /\ list'[p] = list[p] /\ todo'[p] = todo[p])
  <2>1. CASE p \in Thread
    BY <1>3, <2>1, CallsKeep
  <2>2. CASE p = Notifier
    BY <1>3, <2>2 DEF ServiceChanged, EmptyListIgnored, ShutdownChannels, ShutdownThrows,
       ClearChannels, Environment, Flip, LoseConnection, Reconnect, HealthChanges, vars,
       localVars
  <2> QED BY <2>1, <2>2 DEF Process
<1> QED BY <1>1, <1>2, <1>3 DEF Next, Process

\* A note stays until its entry goes.
LEMMA NotesStay ==
  ASSUME PoolInv, [Next]_vars, NEW p \in Process, NEW k \in Endpoint, NEW c \in Channel,
         <<k, c>> \in todo[p], pc[p] = "sweeping", channels'[k] # NoChannel
  PROVE  <<k, c>> \in todo'[p]
<1> TypeOK
  BY DEF PoolInv
<1>1. CASE todo'[p] = todo[p]
  BY <1>1
<1>2. CASE SweepStart(p) \/ SweepShut(p) \/ SweepEnd(p)
  BY <1>2 DEF SweepStart, SweepShut, SweepEnd, localVars
<1>3. CASE SweepOne(p)
  BY <1>3 DEF SweepOne, TypeOK
<1> QED BY <1>1, <1>2, <1>3, SweeperMoves DEF Sweep

\* Only a sweep has notes.
LEMMA LeakIdle ==
  ASSUME PoolInv, LeakInv, [Next]_vars, NEW p \in Process, pc'[p] # "sweeping"
  PROVE  todo'[p] = {}
<1> TypeOK
  BY DEF PoolInv
<1>1. CASE pc[p] \in {"sweep", "sweeping"}
  <2>1. CASE SweepStart(p) \/ SweepShut(p) \/ SweepOne(p)
    BY <1>1, <2>1 DEF SweepStart, SweepShut, SweepOne, Goto, TypeOK
  <2>2. CASE SweepEnd(p)
    BY <2>2 DEF SweepEnd, localVars
  <2>3. CASE pc'[p] = pc[p] /\ todo'[p] = todo[p]
    BY <1>1, <2>3 DEF LeakInv
  <2> QED BY <1>1, <2>1, <2>2, <2>3, SweeperMoves DEF Sweep
<1>2. CASE pc[p] \notin {"sweep", "sweeping"}
  <2>1. todo[p] = {}
    BY <1>2 DEF LeakInv
  <2>2. ~Sweep(p)
    BY <1>2 DEF Sweep, SweepStart, SweepShut, SweepOne, SweepEnd
  <2>3. ASSUME NEW t \in Thread, GetChannel(t) \/ CallStep(t) PROVE todo'[p] = todo[p]
    <3>1. CASE t # p
      BY <2>3, <3>1, OthersKeep
    <3>2. CASE t = p
      BY <2>2, <2>3, <3>2 DEF CallStep, GetChannel, LookupHit, LookupMiss, FetchAnswers,
         FetchFails, Commit, Select, EntryFound, FactoryBegins, FactoryEnds, ChannelReady,
         Rebuild, Update, ConnectSucceeds, ConnectFails, Connected, Return, localVars
    <3> QED BY <3>1, <3>2
  <2>4. ASSUME \/ ServiceChanged \/ EmptyListIgnored \/ ShutdownChannels \/ ShutdownThrows
               \/ ClearChannels \/ Environment \/ UNCHANGED vars
        PROVE  todo'[p] = todo[p]
    BY <2>4 DEF ServiceChanged, EmptyListIgnored, ShutdownChannels, ShutdownThrows,
       ClearChannels, Environment, Flip, LoseConnection, Reconnect, HealthChanges, vars,
       localVars
  <2>5. Sweep(Notifier) => todo'[p] = todo[p]
    BY <2>2, CallsKeep DEF Process
  <2> QED BY <2>1, <2>3, <2>4, <2>5 DEF Next
<1> QED BY <1>1, <1>2

\* A rebuild of an endpoint without trouble goes on until it has stored its
\* channel: it neither fails nor throws.
LEMMA RebuildGoesOn ==
  ASSUME PoolInv, OwnInv, LeakInv, LeakStep, NEW t \in Thread, NEW k \in Endpoint,
         Creates(t, k), phase[t] = "rebuild", k \notin troubled, ~Update(t)
  PROVE  Creates(t, k)' /\ phase'[t] = "rebuild"
<1> TypeOK /\ ControlAt(t) /\ LeakCall(t) /\ PlaceAt(t) /\ [Next]_vars
  BY DEF PoolInv, ControlInv, LeakInv, OwnInv, LeakStep
<1> USE DEF Goto, TypeOK, Process
<1>1. CASE ~(GetChannel(t) \/ CallStep(t))
  <2>1. pc'[t] = pc[t] /\ phase'[t] = phase[t] /\ key'[t] = key[t]
    BY <1>1, OthersKeep, CallsKeep DEF Next
  <2> QED BY <2>1 DEF Creates
<1>2. tries[t] = 0 /\ cache # NoList /\ key[t] = k
  BY DEF LeakCall, Creates, ControlAt
<1>3. pc[t] \in {"connect", "update"}
  BY <1>2 DEF LeakCall, Creates, PlaceAt
<1>4. CASE GetChannel(t) \/ CallStep(t)
  <2>1. ConnectSucceeds(t) \/ ConnectFails(t) \/ Connected(t)
    BY <1>3, <1>4 DEF GetChannel, CallStep, LookupHit, LookupMiss, FetchAnswers, FetchFails,
       Commit, Sweep, SweepStart, SweepShut, SweepOne, SweepEnd, Select, EntryFound, FactoryBegins,
       FactoryEnds, ChannelReady, Rebuild, Return
  <2>2. CASE ConnectSucceeds(t) \/ Connected(t)
    BY <1>3, <2>2 DEF ConnectSucceeds, Connected, Creates, localVars
  <2>3. CASE ConnectFails(t)
    BY <1>2, <2>3 DEF ConnectFails, Creates
  <2> QED BY <2>1, <2>2, <2>3
<1> QED BY <1>1, <1>4

\* Every step keeps the entries in order.
LEMMA LeakEntries ==
  ASSUME PoolInv, OwnInv, LeakInv, LeakStep, NEW k \in Endpoint
  PROVE  LeakEntry(k)'
<1> SUFFICES ASSUME channels'[k] # NoChannel PROVE LeakEntry(k)'
  BY DEF LeakEntry
<1> TypeOK /\ [Next]_vars /\ troubled \subseteq troubled' /\ LeakEntry(k)
  BY DEF PoolInv, LeakStep, LeakInv
<1>1. CASE channels'[k] = channels[k]
  <2> DEFINE c == channels[k]
  <2>1. c \in Channel /\ state[c] # "unused"
    BY <1>1 DEF PoolInv, EntriesConnected, TypeOK
  <2>2. target'[c] = target[c]
    BY <2>1, TargetStays
  <2>3. target[c] # k => {k, target[c]} \subseteq troubled
    BY <2>1, EntryTargets
  <2>4. ASSUME NEW t \in Thread, Update(t) PROVE key[t] # k
    <3>1. channels'[key[t]] = chan[t] /\ key[t] \in Endpoint /\ Owns(t)
      BY <2>4, StorerCreates DEF Update, OwnInv, TypeOK
    <3> QED BY <1>1, <3>1 DEF Owns
  <2>5. ASSUME state'[c] = "shut", pool' = "open", k \notin troubled'
        PROVE  \/ \E t \in Thread : Creates(t, k)' /\ phase'[t] = "rebuild"
               \/ \E p \in Process : <<k, c>> \in todo'[p]
    <3>0. k \notin troubled
      BY <2>5
    <3>1. CASE state[c] = "shut"
      <4>1. pool = "open"
        BY <2>5, PoolMoves
      <4>2. \/ \E t \in Thread : Creates(t, k) /\ phase[t] = "rebuild"
            \/ \E p \in Process : <<k, c>> \in todo[p]
        BY <1>1, <3>0, <3>1, <4>1 DEF LeakEntry
      <4>3. ASSUME NEW t \in Thread, Creates(t, k), phase[t] = "rebuild"
            PROVE  Creates(t, k)' /\ phase'[t] = "rebuild"
        <5>1. ~Update(t)
          BY <2>4, <4>3 DEF Creates
        <5> QED BY <3>0, <4>3, <5>1, RebuildGoesOn
      <4>4. ASSUME NEW p \in Process, <<k, c>> \in todo[p] PROVE <<k, c>> \in todo'[p]
        <5>1. pc[p] = "sweeping"
          BY <4>4 DEF LeakInv
        <5> QED BY <1>1, <2>1, <4>4, <5>1, NotesStay
      <4> HIDE DEF c
      <4> QED BY <4>2, <4>3, <4>4
    <3>2. ASSUME NEW p \in Process, NEW j \in Endpoint, <<j, c>> \in todo[p], UNCHANGED todo
          PROVE  <<k, c>> \in todo'[p]
      <4>1. LeakNote(j, c)
        BY <2>1, <3>2 DEF LeakInv
      <4>2. j = k
        BY <2>3, <3>0, <4>1 DEF LeakNote
      <4> QED BY <3>2, <4>2
    <3>3. ASSUME NEW t \in Thread, pc[t] = "check", chan[t] = c, Rebuild(t)
          PROVE  Creates(t, k)' /\ phase'[t] = "rebuild"
      <4>1. LeakCall(t)
        BY DEF LeakInv
      <4>2. key[t] = k
        BY <2>3, <3>0, <3>3, <4>1 DEF LeakCall
      <4> QED BY <3>3, <4>2 DEF Rebuild, Creates, Goto, TypeOK, Process
    <3>4. state[c] # "shut" =>
            \/ pool' # "open"
            \/ \E p \in Process, j \in Endpoint :
                 <<j, c>> \in todo[p] /\ UNCHANGED todo
            \/ \E t \in Thread : pc[t] = "check" /\ chan[t] = c /\ Rebuild(t)
      <4> HIDE DEF c
      <4> QED BY <2>1, <2>5, StateMoves
    <3> HIDE DEF c
    <3> QED BY <2>5, <3>1, <3>2, <3>3, <3>4
  <2> QED BY <1>1, <2>2, <2>3, <2>5 DEF LeakEntry
<1>2. ASSUME NEW t \in Thread, key[t] = k, channels'[k] = chan[t],
             FactoryEnds(t) \/ Update(t)
      PROVE  LeakEntry(k)'
  <2>1. Open(chan[t])
    BY <1>2, StorerCreates DEF OwnInv, Owns
  <2> QED BY <1>2, <2>1, StorerCreates DEF LeakEntry, Open
<1> QED BY <1>1, <1>2, EntrySteps

\* What becomes of a channel that a call is creating.
LEMMA CreatorSteps ==
  ASSUME PoolInv, OwnInv, LeakInv, LeakStep, NEW t \in Thread, Creating(t),
         target[chan[t]] \notin troubled'
  PROVE  \/ Creating(t)' /\ chan'[t] = chan[t]
         \/ target[chan[t]] \in Endpoint /\ channels'[target[chan[t]]] = chan[t]
<1> TypeOK /\ ControlAt(t) /\ LeakCall(t) /\ PlaceAt(t) /\ [Next]_vars
  BY DEF PoolInv, ControlInv, LeakInv, OwnInv, LeakStep
<1> USE DEF Goto, TypeOK, Process
<1> DEFINE c == chan[t]
<1>1. c \in Channel /\ c # NoChannel /\ target[c] \in Endpoint /\ target[c] \notin troubled
  BY DEF ControlAt, Creating, LeakCall, Channel, NoChannel, LeakStep
<1>2. tries[t] = 0 /\ target[c] = key[t] /\ key[t] \notin troubled
  <2>1. tries[t] = 0
    BY <1>1 DEF LeakInv, Troubled, Failing
  <2> QED BY <1>1, <2>1 DEF LeakCall
<1>3. CASE ~(GetChannel(t) \/ CallStep(t))
  <2>1. pc'[t] = pc[t] /\ chan'[t] = chan[t]
    BY <1>3, OthersKeep, CallsKeep DEF Next
  <2> QED BY <2>1 DEF Creating
<1>4. CASE GetChannel(t) \/ CallStep(t)
  <2>1. FactoryEnds(t) \/ Update(t) \/ ConnectSucceeds(t) \/ ConnectFails(t) \/ Connected(t)
    BY <1>4 DEF Creating, GetChannel, CallStep, LookupHit, LookupMiss, FetchAnswers,
       FetchFails, Commit, Sweep, SweepStart, SweepShut, SweepOne, SweepEnd, Select, EntryFound,
       FactoryBegins, ChannelReady, Rebuild, Return
  <2>2. CASE ConnectSucceeds(t) \/ Connected(t)
    BY <2>2 DEF ConnectSucceeds, Connected, Creating, localVars
  <2>3. CASE FactoryEnds(t)
    <3>1. Creates(t, key[t]) /\ phase[t] = "factory"
      BY <2>3, StorerCreates DEF FactoryEnds, PlaceAt
    <3>2. channels[key[t]] = NoChannel
      BY <1>2, <3>1 DEF LeakCall
    <3> QED BY <1>1, <1>2, <2>3, <3>2 DEF FactoryEnds
  <2>4. CASE Update(t)
    BY <1>1, <1>2, <2>4 DEF Update
  <2>5. CASE ConnectFails(t)
    <3>1. /\ tries'[t] > 0 /\ UNCHANGED <<target, chan>>
      BY <1>1, <1>2, <2>5 DEF ConnectFails, chanVars
    <3>2. ASSUME NEW k \in Endpoint, target[c] = k PROVE Failing(k)'
      BY <1>1, <3>1, <3>2 DEF Failing
    <3> QED BY <1>1, <3>2 DEF Troubled, LeakStep
  <2> QED BY <2>1, <2>2, <2>3, <2>4, <2>5
<1> QED BY <1>3, <1>4

\* Every step keeps the channels of endpoints without trouble in hand.
LEMMA LeakKeeps ==
  ASSUME PoolInv, OwnInv, LeakInv, LeakStep, NEW c \in Channel
  PROVE  LeakKept(c)'
<1> SUFFICES ASSUME Open(c)', pool' # "aborted", target'[c] \notin troubled'
             PROVE  /\ pool' = "open"
                    /\ \/ target'[c] \in Endpoint /\ channels'[target'[c]] = c
                       \/ \E t \in Thread : Creating(t)' /\ chan'[t] = c
  BY DEF LeakKept
<1> TypeOK /\ [Next]_vars /\ troubled \subseteq troubled'
  BY DEF PoolInv, LeakStep
<1>1. state[c] # "shut"
  BY ShutStays DEF Open
<1>2. ASSUME NEW t \in Thread, chan'[t] = c, pc'[t] = "connect"
      PROVE  pool' = "open" /\ Creating(t)'
  BY <1>2, LeakCalls DEF LeakCall, Creating
<1>3. CASE state[c] = "unused"
  BY <1>2, <1>3, StateMoves DEF Open
<1>4. CASE state[c] # "unused"
  <2> DEFINE k == target[c]
  <2>1. target'[c] = k /\ k \notin troubled /\ k \notin troubled'
    BY <1>4, TargetStays
  <2>2. Open(c)
    BY <1>1, <1>4 DEF Open, TypeOK
  <2>3. pool # "aborted"
    BY PoolMoves
  <2>4. /\ pool = "open"
        /\ \/ k \in Endpoint /\ channels[k] = c
           \/ \E t \in Thread : Creating(t) /\ chan[t] = c
    BY <2>1, <2>2, <2>3 DEF LeakInv, LeakKept
  <2>5. CASE pool' # "open"
    <3>1. ShutdownChannels
      BY <2>4, <2>5, PoolMoves
    <3>2. \A t \in Thread : ~Creating(t)
      BY <3>1 DEF ShutdownChannels, Creating, Process
    <3>3. c \in Pooled
      BY <2>4, <3>2 DEF Pooled, Channel, NoChannel
    <3> QED BY <3>1, <3>3 DEF ShutdownChannels, ShutDown, Open
  <2>6. CASE pool' = "open"
    <3>1. CASE k \in Endpoint /\ channels[k] = c
      <4>1. ASSUME NEW p \in Process, NEW d \in Channel, <<k, d>> \in todo[p],
                   state[d] = "shut"
            PROVE  FALSE
        <5>1. d = c
          BY <2>1, <3>1, <4>1 DEF LeakInv, LeakNote, Channel, NoChannel
        <5> QED BY <1>1, <4>1, <5>1
      <4>2. ASSUME NEW t \in Thread, key[t] = k, Update(t) PROVE FALSE
        <5>1. Creates(t, key[t]) /\ LeakCall(t)
          BY <4>2, StorerCreates DEF LeakInv
        <5> QED
          BY <1>1, <2>1, <3>1, <4>2, <5>1 DEF LeakCall, Channel, NoChannel
      <4>3. channels[k] # NoChannel
        BY <3>1 DEF Channel, NoChannel
      <4> HIDE DEF k
      <4>4. channels'[k] = c
        BY <2>4, <3>1, <4>1, <4>2, <4>3, EntrySteps
      <4> QED BY <2>1, <2>6, <3>1, <4>4
    <3>2. ASSUME NEW t \in Thread, Creating(t), chan[t] = c
          PROVE  \/ k \in Endpoint /\ channels'[k] = c
                 \/ Creating(t)' /\ chan'[t] = c
      BY <2>1, <3>2, CreatorSteps
    <3> HIDE DEF k
    <3> QED BY <2>1, <2>4, <2>6, <3>1, <3>2
  <2> QED BY <2>5, <2>6
<1> QED BY <1>3, <1>4

LEMMA LeakInvariance == LeakSpec => [](PoolInv /\ OwnInv /\ LeakInv)
<1>1. LeakInit => PoolInv /\ OwnInv /\ LeakInv
  BY InvInit, OwnInit, LeakStart DEF LeakInit
<1>2. PoolInv /\ OwnInv /\ LeakInv /\ [LeakNext]_leakVars => (PoolInv /\ OwnInv /\ LeakInv)'
  <2> SUFFICES ASSUME PoolInv, OwnInv, LeakInv, [LeakNext]_leakVars
               PROVE  (PoolInv /\ OwnInv /\ LeakInv)'
    OBVIOUS
  <2>1. LeakStep /\ [Next]_vars
    BY LeakSteps DEF LeakStep
  <2>2. PoolInv' /\ OwnInv'
    BY <2>1, TypeStep, ControlStep, EntriesStep, OwnStep DEF PoolInv
  <2>3. \A k \in Endpoint : Troubled(k)' => k \in troubled'
    BY <2>1 DEF LeakStep
  <2> QED
    BY <2>1, <2>2, <2>3, LeakCalls, LeakIdle, LeakNotes, LeakEntries, LeakKeeps DEF LeakInv
<1> QED BY <1>1, <1>2, PTL DEF LeakSpec

\* Shutdown leaves nothing open but what goes to endpoints that have been in
\* trouble, however many callers there are and whatever overlaps them.
THEOREM LeaksHaveACause == LeakSpec => []LeakedChannels
<1>1. LeakInv => LeakedChannels
  BY DEF LeakInv, LeakKept, LeakedChannels
<1> QED BY <1>1, LeakInvariance, PTL

\* Nor is an entry without trouble found shut between calls.
THEOREM DeadEntriesHaveACause == LeakSpec => []DeadEntries
<1>1. LeakInv => DeadEntries
  <2> SUFFICES ASSUME LeakInv, Quiet, pool = "open", NEW k \in Endpoint,
                      channels[k] # NoChannel, state[channels[k]] = "shut", k \notin troubled
               PROVE  FALSE
    BY DEF DeadEntries
  <2>1. PICK t \in Thread : Creates(t, k)
    <3>1. \A p \in Process : todo[p] = {}
      BY DEF LeakInv, Quiet
    <3> QED BY <3>1 DEF LeakInv, LeakEntry
  <2> QED BY <2>1 DEF Quiet, Creates, Process
<1> QED BY <1>1, LeakInvariance, PTL

\* An entry that is not listed is about to be swept.
SweptSoon(k) ==
  \E p \in Process :
    \/ pc[p] = "sweep" /\ k \notin list[p]
    \/ pc[p] = "sweeping" /\ \E c \in Channel : <<k, c>> \in todo[p]

StrayInv ==
  /\ \A k \in Endpoint : Outdated(k) => k \in outdated
  /\ cache \notin {NoList, {}} => \A k \in Endpoint :
       channels[k] # NoChannel => k \in cache \union outdated \/ SweptSoon(k)

\* A new list is swept for, unless it is empty.
LEMMA CacheMoves ==
  ASSUME PoolInv, [Next]_vars
  PROVE  \/ cache' \in {cache, {}}
         \/ \E p \in Process : pc'[p] = "sweep" /\ list'[p] = cache'
<1> TypeOK
  BY DEF PoolInv
<1>1. ASSUME NEW t \in Thread, Commit(t)
      PROVE  cache' = {} \/ (pc'[t] = "sweep" /\ list'[t] = cache')
  BY <1>1 DEF Commit, TypeOK, Goto, Process
<1>2. CASE ServiceChanged
  <2>1. Notifier \in Process /\ pc'[Notifier] = "sweep" /\ list'[Notifier] = cache'
    BY <1>2 DEF ServiceChanged, TypeOK, Goto, Process
  <2> QED BY <2>1
<1>3. ASSUME NEW t \in Thread, GetChannel(t) \/ CallStep(t), ~Commit(t)
      PROVE  UNCHANGED cache
  BY <1>3 DEF CallStep, GetChannel, LookupHit, LookupMiss, FetchAnswers, FetchFails,
       Sweep, SweepStart, SweepShut, SweepOne, SweepEnd, Select, EntryFound, FactoryBegins,
       FactoryEnds, ChannelReady, Rebuild, Update, ConnectSucceeds, ConnectFails,
       Connected, Return
<1>4. ASSUME \/ EmptyListIgnored \/ Sweep(Notifier) \/ ShutdownChannels \/ ShutdownThrows
             \/ ClearChannels \/ Environment \/ UNCHANGED vars
      PROVE UNCHANGED cache
  BY <1>4 DEF EmptyListIgnored, Sweep, SweepStart, SweepShut, SweepOne, SweepEnd, ShutdownChannels,
       ShutdownThrows, ClearChannels, Environment, Flip, LoseConnection, Reconnect,
       HealthChanges, vars
<1> QED BY <1>1, <1>2, <1>3, <1>4 DEF Next, Process

LEMMA StrayStart == LeakInit => StrayInv
<1> SUFFICES ASSUME LeakInit PROVE StrayInv
  OBVIOUS
<1>1. \A k \in Endpoint : ~Outdated(k) /\ channels[k] = NoChannel
  BY DEF LeakInit, Init, Map!Init, Outdated
<1> QED BY <1>1 DEF StrayInv

\* Every step keeps the entries outside the list accounted for.
LEMMA StrayStep ==
  ASSUME PoolInv, OwnInv, LeakInv, StrayInv, [LeakNext]_leakVars
  PROVE  StrayInv'
<1>1. [Next]_vars /\ TypeOK /\ LeakStep
  BY LeakSteps DEF LeakStep, PoolInv
<1>2. outdated \subseteq outdated' /\ \A k \in Endpoint : Outdated(k)' => k \in outdated'
  <2>1. CASE LeakNext
    BY <2>1 DEF LeakNext
  <2>2. CASE UNCHANGED leakVars
    <3>1. UNCHANGED <<cache, pc, key, outdated>>
      BY <2>2 DEF leakVars, vars, localVars
    <3> QED BY <3>1 DEF StrayInv, Outdated
  <2> QED BY <2>1, <2>2
<1>3. ASSUME cache' \notin {NoList, {}}, NEW k \in Endpoint, channels'[k] # NoChannel,
             k \notin cache' \union outdated'
      PROVE  SweptSoon(k)'
  <2>1. ASSUME NEW p \in Process, pc'[p] = "sweep", list'[p] = cache' PROVE SweptSoon(k)'
    BY <1>3, <2>1 DEF SweptSoon
  <2>2. CASE cache' = cache
    <3>1. ASSUME NEW t \in Thread, key[t] = k, FactoryEnds(t) \/ Update(t) PROVE FALSE
      <4>1. Outdated(k)
        BY <1>3, <2>2, <3>1 DEF Outdated, FactoryEnds, Update
      <4> QED BY <1>2, <1>3, <4>1 DEF StrayInv
    <3>2. channels[k] # NoChannel
      BY <1>1, <1>3, <3>1, EntrySteps
    <3>3. channels[k] \in Channel
      BY <1>1, <3>2 DEF TypeOK
    <3>4. PICK p \in Process :
            \/ pc[p] = "sweep" /\ k \notin list[p]
            \/ pc[p] = "sweeping" /\ \E c \in Channel : <<k, c>> \in todo[p]
      BY <1>2, <1>3, <2>2, <3>2 DEF StrayInv, SweptSoon
    <3>5. CASE SweepStart(p)
      <4>1. pc'[p] = "sweeping" /\ k \notin list[p]
        BY <1>1, <3>4, <3>5 DEF SweepStart, Goto, TypeOK
      <4>2. <<k, channels[k]>> \in todo'[p]
        BY <1>1, <3>2, <3>5, <4>1 DEF SweepStart, TypeOK
      <4> QED BY <3>3, <4>1, <4>2 DEF SweptSoon
    <3>6. CASE SweepOne(p)
      <4>1. PICK x \in todo[p] : /\ channels' = [channels EXCEPT ![x[1]] = NoChannel]
                                /\ todo' = [todo EXCEPT ![p] = @ \ {x}]
        BY <3>6 DEF SweepOne
      <4>2. PICK c \in Channel : <<k, c>> \in todo[p]
        BY <3>4, <3>6 DEF SweepOne
      <4>3. <<k, c>> # x
        BY <1>1, <1>3, <4>1 DEF TypeOK
      <4>4. pc'[p] = "sweeping" /\ <<k, c>> \in todo'[p]
        BY <1>1, <3>6, <4>1, <4>2, <4>3 DEF SweepOne, TypeOK
      <4> QED BY <4>2, <4>4 DEF SweptSoon
    <3>9. CASE SweepShut(p)
      <4>1. UNCHANGED <<pc, todo, list>> /\ pc[p] = "sweeping"
        BY <3>9 DEF SweepShut, localVars
      <4> QED BY <3>4, <4>1 DEF SweptSoon
    <3>7. ~SweepEnd(p)
      BY <3>4 DEF SweepEnd
    <3>8. CASE pc'[p] = pc[p] /\ list'[p] = list[p] /\ todo'[p] = todo[p]
      BY <3>4, <3>8 DEF SweptSoon
    <3> QED BY <1>1, <3>4, <3>5, <3>6, <3>7, <3>8, <3>9, SweeperMoves DEF Sweep
  <2> QED BY <1>1, <1>3, <2>1, <2>2, CacheMoves
<1> QED BY <1>2, <1>3 DEF StrayInv

\* Between calls no entry is left outside the cached list, however lists and
\* calls overlap, unless a call had gone on with the endpoint.
THEOREM StraysHaveACause == LeakSpec => []StrayEntries
<1>1. LeakInit => StrayInv
  BY StrayStart
<1>2. PoolInv /\ OwnInv /\ LeakInv /\ StrayInv /\ [LeakNext]_leakVars => StrayInv'
  BY StrayStep
<1>3. StrayInv => StrayEntries
  <2>1. Quiet => \A k \in Endpoint : ~SweptSoon(k)
    BY DEF Quiet, SweptSoon
  <2> QED BY <2>1 DEF StrayInv, StrayEntries
<1> QED BY <1>1, <1>2, <1>3, LeakInvariance, PTL DEF LeakSpec

-----------------------------------------------------------------------------
\* The distance of a call from its end, by its place.
LEMMA DistanceIs ==
  ASSUME TypeOK, NEW t \in Thread, ControlAt(t)
  PROVE  /\ Looping(t) =>
              /\ Turn(t) \in 1 .. 4 /\ tries[t] \in 0 .. 2
              /\ Distance(t) = (IF phase[t] = "rebuild" THEN 2 ELSE 21)
                                 + 5 * (2 - tries[t]) + Turn(t)
         /\ ~Looping(t) => Distance(t) = Place[pc[t]]
         /\ pc[t] = "connect" => Looping(t)
  BY DEF TypeOK, ControlAt, Looping, Turn, Distance

\* An exception ends a call.
LEMMA ThrowsNearer ==
  ASSUME TypeOK, NEW t \in Thread, ControlAt(t), Throws(t),
         pc[t] \in {"lookup", "fetch", "commit", "connect"}
  PROVE  Nearer(t)
<1>1. pc'[t] = "done"
  BY DEF Throws, Goto, TypeOK, Process
<1>2. Distance(t)' = 1
  BY <1>1 DEF Distance, Looping, Place
<1>3. CASE Looping(t)
  <2>1. /\ Turn(t) \in 1 .. 4 /\ tries[t] \in 0 .. 2
        /\ Distance(t) = (IF phase[t] = "rebuild" THEN 2 ELSE 21)
                           + 5 * (2 - tries[t]) + Turn(t)
    BY <1>3, DistanceIs
  <2> QED BY <1>2, <2>1 DEF Nearer
<1>4. CASE ~Looping(t)
  <2>1. Distance(t) \in 44 .. 46
    BY <1>4, DistanceIs DEF Place
  <2> QED BY <1>2, <2>1 DEF Nearer
<1> QED BY <1>3, <1>4

\* Every step of a call takes it nearer to its end.
LEMMA OwnStepNearer ==
  ASSUME PoolInv, OwnInv, NEW t \in Thread, CallStep(t)
  PROVE  Nearer(t)
<1> TypeOK /\ ControlAt(t) /\ PlaceAt(t)
  BY DEF PoolInv, ControlInv, OwnInv
<1> USE DEF Goto
<1>1. /\ pc \in [Process -> {"idle", "lookup", "fetch", "commit", "sweep", "sweeping",
                         "select", "getoradd", "connect", "store", "check",
                         "update", "done"}]
      /\ t \in Process /\ t # Notifier
      /\ phase \in [Thread -> {"first", "factory", "rebuild"}] /\ tries \in [Thread -> 0 .. 3]
      /\ state \in [Channel -> {"unused", "new", "ready", "lost", "shut"}]
      /\ chan \in [Thread -> Channel \union {NoChannel}]
  BY DEF TypeOK, Process
<1>2. ASSUME ~Looping(t), ~Looping(t)', Place[pc'[t]] < Place[pc[t]] PROVE Nearer(t)
  BY <1>2 DEF Distance, Nearer
<1>3. CASE LookupHit(t)
  <2>1. CASE Throws(t)
    BY <1>3, <2>1, ThrowsNearer DEF LookupHit
  <2>2. CASE pc' = [pc EXCEPT ![t] = "select"]
    <3>1. pc'[t] = "select" /\ pc[t] = "lookup" /\ UNCHANGED <<phase, tries>>
      BY <1>1, <1>3, <2>2 DEF LookupHit
    <3>2. CASE phase[t] = "first"
      BY <1>2, <3>1, <3>2 DEF Looping, Place
    <3>3. CASE phase[t] # "first"
      <4>1. Looping(t) /\ Looping(t)' /\ Turn(t) = 4 /\ Turn(t)' = 3
        BY <3>1, <3>3 DEF Looping, Turn
      <4>2. tries[t] \in 0 .. 2
        BY <4>1, DistanceIs
      <4> QED BY <3>1, <4>1, <4>2 DEF Distance, Nearer
    <3> QED BY <3>2, <3>3
  <2> QED BY <1>3, <2>1, <2>2 DEF LookupHit
<1>4. CASE LookupMiss(t)
  <2>1. phase[t] = "first" /\ pc[t] = "lookup" /\ pc'[t] = "fetch" /\ phase' = phase
    BY <1>1, <1>4 DEF LookupMiss, ControlAt, localVars
  <2> QED BY <1>2, <2>1 DEF Looping, Place
<1>5. CASE FetchAnswers(t)
  <2>1. pc[t] = "fetch" /\ pc'[t] = "commit"
    BY <1>1, <1>5 DEF FetchAnswers
  <2> QED BY <1>2, <2>1 DEF Looping, Place
<1>6. CASE FetchFails(t)
  BY <1>6, ThrowsNearer DEF FetchFails
<1>7. CASE Commit(t)
  <2>1. CASE Throws(t)
    BY <1>7, <2>1, ThrowsNearer DEF Commit
  <2>2. CASE pc' = [pc EXCEPT ![t] = "sweep"]
    <3>1. pc[t] = "commit" /\ pc'[t] = "sweep"
      BY <1>1, <1>7, <2>2 DEF Commit
    <3> QED BY <1>2, <3>1 DEF Looping, Place
  <2> QED BY <1>7, <2>1, <2>2 DEF Commit
<1>8. CASE SweepStart(t)
  <2>1. pc[t] = "sweep" /\ pc'[t] = "sweeping"
    BY <1>1, <1>8 DEF SweepStart
  <2> QED BY <1>2, <2>1 DEF Looping, Place
<1>9. CASE SweepShut(t) \/ SweepOne(t)
  <2>1. pc[t] = "sweeping" /\ pc' = pc
    BY <1>9 DEF SweepShut, SweepOne
  <2>2. Distance(t)' = Distance(t)
    BY <2>1 DEF Distance, Looping
  <2>3. CASE SweepShut(t)
    <3>1. PICK x \in todo[t] : /\ state[x[2]] # "shut"
                              /\ state' = [state EXCEPT ![x[2]] = "shut"]
      BY <2>3 DEF SweepShut
    <3>2. todo' = todo /\ \A y \in todo[t] : y[2] \in Channel
      BY <2>3 DEF SweepShut, localVars, TypeOK, Process
    <3>3. \A y \in todo[t] : state'[y[2]] # "shut" => state[y[2]] # "shut"
      BY <1>1, <3>1, <3>2
    <3>4. x \in LeftOpen(t) /\ x \notin LeftOpen(t)'
      BY <1>1, <3>1, <3>2 DEF LeftOpen
    <3>5. LeftOpen(t)' \subseteq LeftOpen(t)
      BY <3>2, <3>3 DEF LeftOpen
    <3> QED BY <2>2, <3>2, <3>4, <3>5 DEF Nearer
  <2>4. CASE SweepOne(t)
    <3>1. todo'[t] \subseteq todo[t] /\ todo'[t] # todo[t]
      BY <2>4 DEF SweepOne, TypeOK, Process
    <3> QED BY <2>2, <3>1 DEF Nearer
  <2> QED BY <1>9, <2>3, <2>4
<1>10. CASE SweepEnd(t)
  <2>1. pc[t] = "sweeping" /\ pc'[t] = "select" /\ phase' = phase /\ phase[t] = "first"
    BY <1>1, <1>10 DEF SweepEnd, ControlAt, localVars
  <2> QED BY <1>2, <2>1 DEF Looping, Place
<1>11. CASE Select(t)
  <2>1. PICK e \in list[t] :
          \/ /\ phase[t] = "first"
             /\ pc' = [pc EXCEPT ![t] = "getoradd"]
          \/ /\ phase[t] # "first"
             /\ NewChannel(t, e)
             /\ pc' = [pc EXCEPT ![t] = "connect"]
    BY <1>11 DEF Select
  <2>2. pc[t] = "select" /\ UNCHANGED <<phase, tries>>
    BY <1>11 DEF Select
  <2>3. CASE phase[t] = "first"
    <3>1. pc'[t] = "getoradd"
      BY <1>1, <2>1, <2>3
    <3> QED BY <1>2, <2>2, <2>3, <3>1 DEF Looping, Place
  <2>4. CASE phase[t] # "first"
    <3>1. pc'[t] = "connect" /\ state'[chan'[t]] = "new"
      BY <1>1, <2>1, <2>4 DEF NewChannel
    <3>2. Looping(t) /\ Looping(t)' /\ Turn(t) = 3 /\ Turn(t)' = 2
      BY <2>2, <2>4, <3>1 DEF Looping, Turn
    <3>3. tries[t] \in 0 .. 2
      BY <3>2, DistanceIs
    <3> QED BY <2>2, <3>2, <3>3 DEF Distance, Nearer
  <2> QED BY <2>3, <2>4
<1>12. CASE EntryFound(t)
  <2>1. pc[t] = "getoradd" /\ pc'[t] = "check"
    BY <1>1, <1>12 DEF EntryFound
  <2> QED BY <1>2, <2>1 DEF Looping, Place
<1>13. ASSUME pc[t] \in {"getoradd", "check"}, pc'[t] = "connect", tries'[t] = 0,
              phase'[t] = IF pc[t] = "check" THEN "rebuild" ELSE "factory",
              state'[chan'[t]] = "new"
       PROVE  Nearer(t)
  <2>1. ~Looping(t) /\ Looping(t)' /\ Turn(t)' = 2
    BY <1>13 DEF Looping, Turn
  <2>2. Distance(t)' = (IF phase'[t] = "rebuild" THEN 2 ELSE 21) + 12
    BY <1>13, <2>1 DEF Distance
  <2>3. Distance(t) = Place[pc[t]]
    BY <2>1 DEF Distance
  <2>4. CASE pc[t] = "check"
    BY <1>13, <2>2, <2>3, <2>4 DEF Nearer, Place
  <2>5. CASE pc[t] = "getoradd"
    BY <1>13, <2>2, <2>3, <2>5 DEF Nearer, Place
  <2> QED BY <1>13, <2>4, <2>5
<1>14. CASE FactoryBegins(t)
  <2>1. state'[chan'[t]] = "new"
    BY <1>1, <1>14 DEF FactoryBegins, NewChannel
  <2> QED BY <1>1, <1>13, <1>14, <2>1 DEF FactoryBegins
<1>15. CASE FactoryEnds(t)
  <2>1. pc[t] = "store" /\ pc'[t] = "check"
    BY <1>1, <1>15 DEF FactoryEnds
  <2> QED BY <1>2, <2>1 DEF Looping, Place
<1>16. CASE ChannelReady(t)
  <2>1. pc[t] = "check" /\ pc'[t] = "done"
    BY <1>1, <1>16 DEF ChannelReady
  <2> QED BY <1>2, <2>1 DEF Looping, Place
<1>17. CASE Rebuild(t)
  <2>1. state'[chan'[t]] = "new"
    BY <1>1, <1>17 DEF Rebuild
  <2> QED BY <1>1, <1>13, <1>17, <2>1 DEF Rebuild
<1>18. CASE Update(t)
  <2>1. pc[t] = "update" /\ pc'[t] = "done"
    BY <1>1, <1>18 DEF Update
  <2> QED BY <1>2, <2>1 DEF Looping, Place
<1>19. CASE ConnectSucceeds(t)
  <2>1. /\ pc[t] = "connect" /\ UNCHANGED <<pc, phase, chan, tries>> /\ chan[t] \in Channel
        /\ state[chan[t]] # "ready" /\ state'[chan[t]] = "ready"
    BY <1>1, <1>19 DEF ConnectSucceeds, localVars, ControlAt
  <2>2. Looping(t) /\ Looping(t)' /\ Turn(t) = 2 /\ Turn(t)' = 1
    BY <2>1, DistanceIs DEF Looping, Turn
  <2>3. tries[t] \in 0 .. 2
    BY <2>2, DistanceIs
  <2> QED BY <2>1, <2>2, <2>3 DEF Distance, Nearer
<1>20. CASE ConnectFails(t)
  <2>1. CASE Throws(t)
    BY <1>20, <2>1, ThrowsNearer DEF ConnectFails
  <2>2. CASE tries[t] + 1 <= 2 /\ pc' = [pc EXCEPT ![t] = "lookup"]
    <3>1. /\ pc[t] = "connect" /\ pc'[t] = "lookup" /\ phase' = phase
          /\ tries[t] \in 0 .. 1 /\ tries'[t] = tries[t] + 1
      BY <1>1, <1>20, <2>2 DEF ConnectFails
    <3>2. Looping(t) /\ Looping(t)' /\ Turn(t) >= 1 /\ Turn(t) \in 1 .. 4 /\ Turn(t)' = 4
      BY <3>1, DistanceIs DEF Looping, Turn
    <3> QED BY <3>1, <3>2 DEF Distance, Nearer
  <2> QED BY <1>20, <2>1, <2>2 DEF ConnectFails
<1>21. CASE Connected(t)
  <2>1. /\ pc[t] = "connect" /\ phase' = phase
        /\ pc'[t] = IF phase[t] = "factory" THEN "store" ELSE "update"
    BY <1>1, <1>21 DEF Connected, localVars
  <2>2. ~Looping(t)' /\ Looping(t)
    BY <2>1, DistanceIs DEF Looping
  <2>3. phase[t] \in {"factory", "rebuild"}
    BY <1>1, <2>2 DEF Looping
  <2>4. Distance(t)' = IF phase[t] = "rebuild" THEN 2 ELSE 21
    BY <2>1, <2>2, <2>3 DEF Distance, Place
  <2>5. /\ Turn(t) \in 1 .. 4 /\ tries[t] \in 0 .. 2
        /\ Distance(t) = (IF phase[t] = "rebuild" THEN 2 ELSE 21)
                           + 5 * (2 - tries[t]) + Turn(t)
    BY <2>2, DistanceIs
  <2> QED BY <2>4, <2>5 DEF Nearer
<1>22. CASE Return(t)
  <2>1. pc[t] = "done" /\ pc'[t] = "idle"
    BY <1>1, <1>22 DEF Return
  <2> QED BY <1>2, <2>1 DEF Looping, Place
<1> QED
  BY <1>3, <1>4, <1>5, <1>6, <1>7, <1>8, <1>9, <1>10, <1>11, <1>12, <1>14, <1>15, <1>16,
     <1>17, <1>18, <1>19, <1>20, <1>21, <1>22 DEF CallStep, Sweep

\* What others do leaves a call where it is, or connects or loses the channel
\* it is creating: nobody else can get at that one.
LEMMA OthersNearer ==
  ASSUME PoolInv, OwnInv, [Next]_vars, NEW t \in Thread,
         pc'[t] = pc[t], phase'[t] = phase[t], tries'[t] = tries[t], chan'[t] = chan[t],
         todo'[t] = todo[t]
  PROVE  \/ Nearer(t)
         \/ Distance(t)' = Distance(t)
         \/ pc[t] = "connect" /\ LoseConnection(chan[t])
<1> TypeOK /\ ControlAt(t)
  BY DEF PoolInv, ControlInv
<1>1. CASE pc[t] # "connect" \/ state'[chan[t]] = state[chan[t]]
  BY <1>1 DEF Distance, Looping, Turn
<1>2. CASE pc[t] = "connect" /\ state'[chan[t]] # state[chan[t]]
  <2>1. Owns(t) /\ chan[t] \in Channel
    BY <1>2 DEF OwnInv, ControlAt, Creating
  <2>2. ~\E u \in Thread : pc[u] = "check" /\ chan[u] = chan[t]
    BY <1>2, <2>1 DEF Owns
  <2>3. \/ state[chan[t]] # "ready" /\ state'[chan[t]] = "ready"
        \/ LoseConnection(chan[t])
    BY <1>2, <2>1, <2>2, StateMoves DEF Owns, Open
  <2>4. CASE state[chan[t]] # "ready" /\ state'[chan[t]] = "ready"
    <3>1. Looping(t) /\ Looping(t)' /\ Turn(t) = 2 /\ Turn(t)' = 1
      BY <1>2, <2>4, DistanceIs DEF Looping, Turn
    <3>2. tries[t] \in 0 .. 2
      BY <3>1, DistanceIs
    <3> QED BY <3>1, <3>2 DEF Distance, Nearer
  <2> QED BY <1>2, <2>3, <2>4
<1> QED BY <1>1, <1>2

\* Calls only get nearer to their end, for any number of callers, sweeps and
\* failing servers.
THEOREM CallsApproachEnd == Spec => CallsGetNearer
<1> DEFINE Approach(t) ==
             pc[t] # "idle" =>
               \/ Nearer(t)
               \/ ~CallStep(t) /\ Distance(t)' = Distance(t) /\ todo'[t] = todo[t]
               \/ pc[t] = "connect" /\ LoseConnection(chan[t])
<1>1. ASSUME PoolInv, OwnInv, [Next]_vars, NEW t \in Thread, pc[t] # "idle" PROVE Approach(t)
  <2> TypeOK
    BY <1>1 DEF PoolInv
  <2>1. CASE CallStep(t)
    BY <1>1, <2>1, OwnStepNearer
  <2>2. CASE ~CallStep(t)
    <3>1. ~GetChannel(t)
      BY <1>1 DEF GetChannel
    <3>2. ASSUME NEW u \in Thread, GetChannel(u) \/ CallStep(u)
          PROVE  /\ pc'[t] = pc[t] /\ phase'[t] = phase[t] /\ tries'[t] = tries[t]
                 /\ chan'[t] = chan[t] /\ todo'[t] = todo[t]
      <4>1. u # t
        BY <2>2, <3>1, <3>2
      <4> QED BY <3>2, <4>1, OthersKeep DEF Process
    <3>3. /\ pc'[t] = pc[t] /\ phase'[t] = phase[t] /\ tries'[t] = tries[t]
          /\ chan'[t] = chan[t] /\ todo'[t] = todo[t]
      BY <1>1, <3>2, CallsKeep DEF Next
    <3> QED BY <1>1, <2>2, <3>3, OthersNearer
  <2> QED BY <2>1, <2>2
<1>2. PoolInv /\ OwnInv /\ [Next]_vars => [\A t \in Thread : Approach(t)]_vars
  BY <1>1
<1> QED BY <1>2, OwnInvariance, PTL DEF Spec, CallsGetNearer
-----------------------------------------------------------------------------
\* An exception leaves the dictionary alone or gives the key back.
LEMMA ThrowsUsesMap ==
  ASSUME NEW t \in Thread, ControlAt(t), Throws(t)
  PROVE  [Map!Next]_(Map!vars)
<1>1. CASE phase[t] = "factory" /\ Map!Fail(t, key[t])
  <2>1. key[t] \in Endpoint
    BY <1>1 DEF ControlAt
  <2> QED BY <1>1, <2>1 DEF Map!Next
<1>2. CASE UNCHANGED dictVars
  BY <1>2 DEF dictVars, Map!vars
<1> QED BY <1>1, <1>2 DEF Throws

\* Every step of the pool does to the dictionary what the map allows.
LEMMA StepUsesMap == PoolInv /\ [Next]_vars => [Map!Next]_(Map!vars)
<1> SUFFICES ASSUME PoolInv, [Next]_vars PROVE [Map!Next]_(Map!vars)
  OBVIOUS
<1> TypeOK' /\ ControlInv
  BY TypeStep DEF PoolInv
<1>1. CASE UNCHANGED dictVars
  BY <1>1 DEF dictVars, Map!vars
<1>2. ASSUME UNCHANGED <<building, got>> PROVE [Map!Next]_(Map!vars)
  <2>1. Map!Change
    BY <1>2 DEF TypeOK, Map!Change
  <2> QED BY <2>1 DEF Map!Next
<1>3. ASSUME NEW t \in Thread,
             \/ GetChannel(t) \/ LookupMiss(t) \/ FetchAnswers(t) \/ SweepStart(t)
             \/ SweepEnd(t) \/ Select(t) \/ ChannelReady(t) \/ Rebuild(t)
             \/ ConnectSucceeds(t) \/ Connected(t)
      PROVE  UNCHANGED dictVars
  BY <1>3 DEF GetChannel, LookupMiss, FetchAnswers, SweepStart, SweepEnd, Select,
     ChannelReady, Rebuild, ConnectSucceeds, Connected
<1>4. ASSUME NEW t \in Thread,
             LookupHit(t) \/ FetchFails(t) \/ Commit(t) \/ ConnectFails(t)
      PROVE  [Map!Next]_(Map!vars)
  <2>1. Throws(t) \/ UNCHANGED dictVars
    BY <1>4 DEF LookupHit, FetchFails, Commit, ConnectFails
  <2> QED BY <1>1, <2>1, ThrowsUsesMap DEF ControlInv
<1>5. ASSUME NEW t \in Thread, EntryFound(t) \/ FactoryBegins(t) \/ FactoryEnds(t)
      PROVE  [Map!Next]_(Map!vars)
  <2>1. key[t] \in Endpoint
    BY <1>5 DEF ControlInv, ControlAt, EntryFound, FactoryBegins, FactoryEnds
  <2>2. Map!Read(t, key[t]) \/ Map!Begin(t, key[t]) \/ Map!End(t, key[t])
    BY <1>5 DEF EntryFound, FactoryBegins, FactoryEnds
  <2> QED BY <2>1, <2>2 DEF Map!Next
<1>6. ASSUME NEW t \in Thread, Return(t) PROVE [Map!Next]_(Map!vars)
  BY <1>6 DEF Return, Map!Next
<1>7. ASSUME NEW p \in Process, SweepShut(p) \/ SweepOne(p)
      PROVE  UNCHANGED <<building, got>>
  BY <1>7 DEF SweepShut, SweepOne, dictVars
<1>8. ASSUME NEW t \in Thread, Update(t) PROVE UNCHANGED <<building, got>>
  BY <1>8 DEF Update
<1>9. CASE ClearChannels
  BY <1>2, <1>9 DEF ClearChannels
<1>10. ASSUME \/ ServiceChanged \/ EmptyListIgnored \/ SweepStart(Notifier)
              \/ SweepShut(Notifier) \/ SweepEnd(Notifier) \/ ShutdownChannels
             \/ ShutdownThrows \/ Environment \/ UNCHANGED vars
       PROVE  UNCHANGED dictVars
  BY <1>10 DEF ServiceChanged, EmptyListIgnored, SweepStart, SweepShut, SweepEnd,
       ShutdownChannels, ShutdownThrows, Environment, Flip, LoseConnection, Reconnect, HealthChanges, vars
<1> QED
  BY <1>1, <1>2, <1>3, <1>4, <1>5, <1>6, <1>7, <1>8, <1>9, <1>10
     DEF Next, CallStep, Sweep, Process

\* The pool composes with the dictionary: it drives _channels through the steps
\* of AtomicMap only, the steps that GetOrAddAsync is proved to implement.
THEOREM PoolUsesMap == Spec => Map!Spec
<1>1. Init => Map!Init
  BY DEF Init
<1> QED BY <1>1, PoolInvariance, StepUsesMap, PTL DEF Spec, Map!Spec

\* What the map promises holds of every user of it: a key has one builder.
LEMMA MapBuilders ==
  Map!Spec => [](\A t, u \in Thread, k \in Endpoint :
                   <<t, k>> \in building /\ <<u, k>> \in building => t = u)
<1> DEFINE Inv == \A t, u \in Thread, k \in Endpoint :
                    <<t, k>> \in building /\ <<u, k>> \in building => t = u
<1>1. Map!Init => Inv
  BY DEF Map!Init
<1>2. Inv /\ [Map!Next]_(Map!vars) => Inv'
  BY DEF Map!Next, Map!vars, Map!Read, Map!Begin, Map!Fail, Map!End, Map!Forget, Map!Change
<1> QED BY <1>1, <1>2, PTL DEF Map!Spec

\* However the pool is disturbed, one call at a time creates the channel of a
\* missing endpoint: inherited from the map.
THEOREM OneCreatorPerEndpoint ==
  Spec => [](\A t, u \in Thread, k \in Endpoint :
               <<t, k>> \in building /\ <<u, k>> \in building => t = u)
<1> QED BY PoolUsesMap, MapBuilders, PTL
=============================================================================
