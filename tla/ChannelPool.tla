----------------------------- MODULE ChannelPool -----------------------------
(***************************************************************************)
(* ChannelPool.GetChannel for one service, called by several threads, with *)
(* the handler of ServiceChanged running beside them and a final Shutdown. *)
(* The dictionary of channels is used through the map it implements        *)
(* (AtomicMap); the load balancer picks any element of the list; discovery *)
(* answers with its present list and announces later ones.  Servers that   *)
(* go up and down, connections that are lost and discovery queries that    *)
(* fail are the environment, each bounded by a constant.                   *)
(***************************************************************************)
EXTENDS Naturals

CONSTANTS
  Thread,      \* callers of GetChannel
  Endpoint,
  Notifier,    \* the process that runs the handler of ServiceChanged
  NoList, NoEndpoint,
  MaxChannels, \* bound on the Channel objects created
  MaxCalls,    \* bound on the calls of GetChannel
  MaxFlips,    \* bound on servers going up or down
  MaxLosses,   \* bound on connections lost
  MaxChanges,  \* bound on the changes of the list in discovery
  MaxFailures  \* bound on the discovery queries that fail

Lists == SUBSET Endpoint
Channel == 1 .. MaxChannels
NoChannel == 0
Process == Thread \union {Notifier}
Event == {"calls", "flips", "losses", "changes", "failures"}

ASSUME NamesAssumption ==
  /\ Notifier \notin Thread /\ NoEndpoint \notin Endpoint
  /\ \A l \in Lists : NoList # l
ASSUME BoundAssumption ==
  {MaxChannels, MaxCalls, MaxFlips, MaxLosses, MaxChanges, MaxFailures}
    \subseteq Nat

VARIABLES
  up,        \* servers that accept connections
  health,    \* the list in discovery
  polling,   \* discovery polls for changes: it has answered GetEndpoints
  news,      \* the list has changed since discovery last answered or announced
  seen,      \* how many events of each kind have happened
  cache,     \* _memoryCache: the cached list
  target,    \* the endpoint of each Channel object, NoEndpoint if unused
  state,     \* its connectivity: new, ready, lost, shut, or unused
  channels,  \* _channels: the channel of each endpoint
  building,  \* GetOrAddAsync factories that run (see AtomicMap)
  got,       \* what GetOrAddAsync gave each thread
  pc,        \* where each process is
  phase,     \* what a thread creates a channel for: first, factory, rebuild
  list,      \* local healthEndpoints
  key,       \* the endpoint a call has chosen
  chan,      \* local channel, or what the call returns; NoChannel: it throws
  tries,     \* local tryCount
  todo,      \* local errorChannel, what is left of it
  pool       \* open, closing (channels shut), closed, or aborted

envVars == <<up, health, polling, news>>
chanVars == <<target, state>>
dictVars == <<channels, building, got>>
localVars == <<phase, list, key, chan, tries, todo>>
vars == <<envVars, seen, cache, chanVars, dictVars, pc, localVars, pool>>

Map == INSTANCE AtomicMap WITH
  Key <- Endpoint, Value <- Channel, NoValue <- NoChannel, map <- channels

TypeOK ==
  /\ up \in Lists /\ health \in Lists
  /\ polling \in BOOLEAN /\ news \in BOOLEAN
  /\ seen \in [Event -> Nat]
  /\ cache = NoList \/ cache \in Lists
  /\ target \in [Channel -> Endpoint \union {NoEndpoint}]
  /\ state \in [Channel -> {"unused", "new", "ready", "lost", "shut"}]
  /\ channels \in [Endpoint -> Channel \union {NoChannel}]
  /\ building \in SUBSET (Thread \X Endpoint)
  /\ got \in [Thread -> Channel \union {NoChannel}]
  /\ pc \in [Process -> {"idle", "lookup", "fetch", "commit", "sweep", "sweeping",
                         "select", "getoradd", "connect", "store", "check",
                         "update", "done"}]
  /\ phase \in [Thread -> {"first", "factory", "rebuild"}]
  /\ list \in [Process -> Lists]
  /\ key \in [Thread -> Endpoint \union {NoEndpoint}]
  /\ chan \in [Thread -> Channel \union {NoChannel}]
  /\ tries \in [Thread -> 0 .. 3]
  /\ todo \in [Process -> SUBSET (Endpoint \X Channel)]
  /\ pool \in {"open", "closing", "closed", "aborted"}

Init ==
  /\ up \in Lists /\ health \in Lists
  /\ polling = FALSE /\ news = FALSE
  /\ seen = [e \in Event |-> 0]
  /\ cache = NoList
  /\ target = [c \in Channel |-> NoEndpoint]
  /\ state = [c \in Channel |-> "unused"]
  /\ Map!Init
  /\ pc = [p \in Process |-> "idle"]
  /\ phase = [t \in Thread |-> "first"]
  /\ list = [p \in Process |-> {}]
  /\ key = [t \in Thread |-> NoEndpoint]
  /\ chan = [t \in Thread |-> NoChannel]
  /\ tries = [t \in Thread |-> 0]
  /\ todo = [p \in Process |-> {}]
  /\ pool = "open"

Goto(p, l) == pc' = [pc EXCEPT ![p] = l]

Count(e, bound) ==
  /\ seen[e] < bound
  /\ seen' = [seen EXCEPT ![e] = @ + 1]
-----------------------------------------------------------------------------
\* The environment.
Flip(e) ==
  /\ Count("flips", MaxFlips)
  /\ up' = IF e \in up THEN up \ {e} ELSE up \union {e}
  /\ UNCHANGED <<health, polling, news, cache, chanVars, dictVars, pc, localVars, pool>>

LoseConnection(c) ==
  /\ state[c] = "ready"
  /\ Count("losses", MaxLosses)
  /\ state' = [state EXCEPT ![c] = "lost"]
  /\ UNCHANGED <<envVars, cache, target, dictVars, pc, localVars, pool>>

Reconnect(c) ==
  /\ state[c] = "lost" /\ target[c] \in up
  /\ state' = [state EXCEPT ![c] = "ready"]
  /\ UNCHANGED <<envVars, seen, cache, target, dictVars, pc, localVars, pool>>

HealthChanges ==
  /\ Count("changes", MaxChanges)
  /\ \E h \in Lists \ {health} : health' = h
  /\ news' = TRUE
  /\ UNCHANGED <<up, polling, cache, chanVars, dictVars, pc, localVars, pool>>
-----------------------------------------------------------------------------
\* Mutant of Throws: the factory's semaphore is not released.
ThrowsInside(t) ==
  /\ Goto(t, "done")
  /\ chan' = [chan EXCEPT ![t] = NoChannel]
  /\ UNCHANGED dictVars

\* GetChannel: every exception ends the call; one that leaves the value
\* factory also leaves GetOrAddAsync.
Throws(t) ==
  /\ Goto(t, "done")
  /\ chan' = [chan EXCEPT ![t] = NoChannel]
  /\ \/ phase[t] = "factory" /\ Map!Fail(t, key[t])
     \/ phase[t] # "factory" /\ UNCHANGED dictVars

GetChannel(t) ==
  /\ pc[t] = "idle" /\ pool = "open"
  /\ Count("calls", MaxCalls)
  /\ Goto(t, "lookup")
  /\ phase' = [phase EXCEPT ![t] = "first"]
  /\ UNCHANGED <<envVars, cache, chanVars, dictVars, list, key, chan, tries, todo, pool>>

\* GetEndpoint: GetOrCreateAsync finds the cached list ...
LookupHit(t) ==
  /\ pc[t] = "lookup" /\ cache # NoList
  /\ list' = [list EXCEPT ![t] = cache]
  /\ \/ cache # {} /\ Goto(t, "select") /\ UNCHANGED <<dictVars, chan>>
     \/ cache = {} /\ Throws(t)
  /\ UNCHANGED <<envVars, seen, cache, chanVars, phase, key, tries, todo, pool>>

\* ... or asks discovery, which from then on polls for changes.
LookupMiss(t) ==
  /\ pc[t] = "lookup" /\ cache = NoList
  /\ Goto(t, "fetch")
  /\ UNCHANGED <<envVars, seen, cache, chanVars, dictVars, localVars, pool>>

FetchAnswers(t) ==
  /\ pc[t] = "fetch"
  /\ list' = [list EXCEPT ![t] = health]
  /\ polling' = TRUE /\ news' = FALSE
  /\ Goto(t, "commit")
  /\ UNCHANGED <<up, health, seen, cache, chanVars, dictVars, phase, key, chan, tries,
                 todo, pool>>

FetchFails(t) ==
  /\ pc[t] = "fetch"
  /\ Count("failures", MaxFailures)
  /\ Throws(t)
  /\ UNCHANGED <<envVars, cache, chanVars, phase, list, key, tries, todo, pool>>

\* Mutant of Commit: the answer is not cached.
CommitNothing(t) ==
  /\ pc[t] = "commit"
  /\ \/ list[t] # {} /\ Goto(t, "sweep") /\ UNCHANGED <<dictVars, chan>>
     \/ list[t] = {} /\ Throws(t)
  /\ UNCHANGED <<envVars, seen, cache, chanVars, phase, list, key, tries, todo, pool>>

\* The answer is cached, an empty one too.
Commit(t) ==
  /\ pc[t] = "commit"
  /\ cache' = list[t]
  /\ \/ list[t] # {} /\ Goto(t, "sweep") /\ UNCHANGED <<dictVars, chan>>
     \/ list[t] = {} /\ Throws(t)
  /\ UNCHANGED <<envVars, seen, chanVars, phase, list, key, tries, todo, pool>>

\* ShutdownErrorChannel: note the entries that are not in the list ...
SweepStart(p) ==
  /\ pc[p] = "sweep"
  /\ todo' = [todo EXCEPT ![p] =
       {<<k, channels[k]>> :
          k \in {e \in Endpoint \ list[p] : channels[e] # NoChannel}}]
  /\ Goto(p, "sweeping")
  /\ UNCHANGED <<envVars, seen, cache, chanVars, dictVars, phase, list, key, chan,
                 tries, pool>>

\* ... shut the channel of each down (which of them first is left open, and
\* whether another is shut before the first is removed) ...
SweepShut(p) ==
  /\ pc[p] = "sweeping"
  /\ \E x \in todo[p] :
       /\ state[x[2]] # "shut"
       /\ state' = [state EXCEPT ![x[2]] = "shut"]
  /\ UNCHANGED <<envVars, seen, cache, target, dictVars, pc, localVars, pool>>

\* Mutant of SweepOne: the entry stays.
SweepOneKept(p) ==
  /\ pc[p] = "sweeping"
  /\ \E x \in todo[p] :
       state[x[2]] = "shut" /\ todo' = [todo EXCEPT ![p] = @ \ {x}]
  /\ UNCHANGED <<envVars, seen, cache, chanVars, dictVars, pc, phase, list, key, chan,
                 tries, pool>>

\* ... and then remove whatever its key holds by now.
SweepOne(p) ==
  /\ pc[p] = "sweeping"
  /\ \E x \in todo[p] :
       /\ state[x[2]] = "shut"
       /\ channels' = [channels EXCEPT ![x[1]] = NoChannel]
       /\ todo' = [todo EXCEPT ![p] = @ \ {x}]
  /\ UNCHANGED <<envVars, seen, cache, chanVars, building, got, pc, phase, list, key,
                 chan, tries, pool>>

SweepEnd(p) ==
  /\ pc[p] = "sweeping" /\ todo[p] = {}
  /\ Goto(p, IF p = Notifier THEN "idle" ELSE "select")
  /\ UNCHANGED <<envVars, seen, cache, chanVars, dictVars, localVars, pool>>

\* new Channel(endpoint): the next unused object.
NewChannel(t, e) ==
  \E c \in Channel :
    /\ state[c] = "unused" /\ \A d \in Channel : state[d] = "unused" => c <= d
    /\ target' = [target EXCEPT ![c] = e]
    /\ state' = [state EXCEPT ![c] = "new"]
    /\ chan' = [chan EXCEPT ![t] = c]

\* The load balancer's choice is the key of the call, or, after a failed
\* attempt, where the next channel goes.
Select(t) ==
  /\ pc[t] = "select"
  /\ \E e \in list[t] :
       \/ /\ phase[t] = "first"
          /\ key' = [key EXCEPT ![t] = e]
          /\ Goto(t, "getoradd")
          /\ UNCHANGED <<chanVars, chan>>
       \/ /\ phase[t] # "first"
          /\ NewChannel(t, e)
          /\ Goto(t, "connect")
          /\ UNCHANGED key
  /\ UNCHANGED <<envVars, seen, cache, dictVars, phase, list, tries, todo, pool>>

\* GetChannelCore, _channels.GetOrAddAsync.
EntryFound(t) ==
  /\ pc[t] = "getoradd"
  /\ Map!Read(t, key[t])
  /\ chan' = [chan EXCEPT ![t] = channels[key[t]]]
  /\ Goto(t, "check")
  /\ UNCHANGED <<envVars, seen, cache, chanVars, phase, list, key, tries, todo, pool>>

\* Mutant of FactoryBegins: the plain GetOrAdd of ConcurrentDictionary.
FactoryBeginsToo(t) ==
  /\ pc[t] = "getoradd"
  /\ channels[key[t]] = NoChannel
  /\ building' = building \union {<<t, key[t]>>}
  /\ NewChannel(t, key[t])
  /\ phase' = [phase EXCEPT ![t] = "factory"]
  /\ tries' = [tries EXCEPT ![t] = 0]
  /\ Goto(t, "connect")
  /\ UNCHANGED <<envVars, seen, cache, channels, got, list, key, todo, pool>>

\* Mutant of FactoryBegins: the channel is an entry before it has connected.
FactoryBeginsPublished(t) ==
  /\ pc[t] = "getoradd"
  /\ channels[key[t]] = NoChannel
  /\ building' = building \union {<<t, key[t]>>}
  /\ NewChannel(t, key[t])
  /\ channels' = [channels EXCEPT ![key[t]] = chan'[t]]
  /\ phase' = [phase EXCEPT ![t] = "factory"]
  /\ tries' = [tries EXCEPT ![t] = 0]
  /\ Goto(t, "connect")
  /\ UNCHANGED <<envVars, seen, cache, got, list, key, todo, pool>>

FactoryBegins(t) ==
  /\ pc[t] = "getoradd"
  /\ Map!Begin(t, key[t])
  /\ NewChannel(t, key[t])
  /\ phase' = [phase EXCEPT ![t] = "factory"]
  /\ tries' = [tries EXCEPT ![t] = 0]
  /\ Goto(t, "connect")
  /\ UNCHANGED <<envVars, seen, cache, list, key, todo, pool>>

FactoryEnds(t) ==
  /\ pc[t] = "store"
  /\ channels' = [channels EXCEPT ![key[t]] = IF @ = NoChannel THEN chan[t] ELSE @]
  /\ Map!End(t, key[t])
  /\ chan' = [chan EXCEPT ![t] = channels'[key[t]]]
  /\ phase' = [phase EXCEPT ![t] = "first"]
  /\ Goto(t, "check")
  /\ UNCHANGED <<envVars, seen, cache, chanVars, list, key, tries, todo, pool>>

\* GetChannelCore, lines 111-118.  The TryRemove of line 115 is given the
\* name of the service, which is never a key, and removes nothing.
ChannelReady(t) ==
  /\ pc[t] = "check" /\ state[chan[t]] = "ready"
  /\ Goto(t, "done")
  /\ UNCHANGED <<envVars, seen, cache, chanVars, dictVars, localVars, pool>>

\* Mutant of Rebuild: the channel that is replaced is not shut down.
RebuildBeside(t) ==
  /\ pc[t] = "check" /\ state[chan[t]] # "ready"
  /\ NewChannel(t, key[t])
  /\ phase' = [phase EXCEPT ![t] = "rebuild"]
  /\ tries' = [tries EXCEPT ![t] = 0]
  /\ Goto(t, "connect")
  /\ UNCHANGED <<envVars, seen, cache, dictVars, list, key, todo, pool>>

Rebuild(t) ==
  /\ pc[t] = "check" /\ state[chan[t]] # "ready"
  /\ \E c \in Channel :
       /\ state[c] = "unused" /\ \A d \in Channel : state[d] = "unused" => c <= d
       /\ target' = [target EXCEPT ![c] = key[t]]
       /\ state' = [state EXCEPT ![chan[t]] = "shut", ![c] = "new"]
       /\ chan' = [chan EXCEPT ![t] = c]
  /\ phase' = [phase EXCEPT ![t] = "rebuild"]
  /\ tries' = [tries EXCEPT ![t] = 0]
  /\ Goto(t, "connect")
  /\ UNCHANGED <<envVars, seen, cache, dictVars, list, key, todo, pool>>

\* Mutant of Update: GetOrAdd in place of AddOrUpdate.
UpdateAdds(t) ==
  /\ pc[t] = "update"
  /\ channels' = [channels EXCEPT ![key[t]] = IF @ = NoChannel THEN chan[t] ELSE @]
  /\ Goto(t, "done")
  /\ UNCHANGED <<envVars, seen, cache, chanVars, building, got, localVars, pool>>

Update(t) ==
  /\ pc[t] = "update"
  /\ channels' = [channels EXCEPT ![key[t]] = chan[t]]
  /\ Goto(t, "done")
  /\ UNCHANGED <<envVars, seen, cache, chanVars, building, got, localVars, pool>>

\* CreateChannel, the loop.
ConnectSucceeds(t) ==
  /\ pc[t] = "connect" /\ state[chan[t]] \in {"new", "lost"}
  /\ target[chan[t]] \in up
  /\ state' = [state EXCEPT ![chan[t]] = "ready"]
  /\ UNCHANGED <<envVars, seen, cache, target, dictVars, pc, localVars, pool>>

\* Mutant of ConnectFails: one attempt too many.
ConnectFailsLate(t) ==
  /\ pc[t] = "connect" /\ state[chan[t]] \in {"new", "lost"}
  /\ target[chan[t]] \notin up
  /\ tries' = [tries EXCEPT ![t] = @ + 1]
  /\ \/ tries[t] > 2 /\ Throws(t)
     \/ tries[t] <= 2 /\ Goto(t, "lookup") /\ UNCHANGED <<dictVars, chan>>
  /\ UNCHANGED <<envVars, seen, cache, chanVars, phase, list, key, todo, pool>>

\* Mutant of ConnectFails: a failover starts counting again.
ConnectFailsAnew(t) ==
  /\ pc[t] = "connect" /\ state[chan[t]] \in {"new", "lost"}
  /\ target[chan[t]] \notin up
  /\ \/ tries[t] + 1 > 2 /\ Throws(t) /\ tries' = [tries EXCEPT ![t] = @ + 1]
     \/ tries[t] + 1 <= 2 /\ Goto(t, "lookup") /\ UNCHANGED <<dictVars, chan>>
        /\ tries' = [tries EXCEPT ![t] = 0]
  /\ UNCHANGED <<envVars, seen, cache, chanVars, phase, list, key, todo, pool>>

\* The third exception is rethrown; before it, choose an endpoint again.
ConnectFails(t) ==
  /\ pc[t] = "connect" /\ state[chan[t]] \in {"new", "lost"}
  /\ target[chan[t]] \notin up
  /\ tries' = [tries EXCEPT ![t] = @ + 1]
  /\ \/ tries[t] + 1 > 2 /\ Throws(t)
     \/ tries[t] + 1 <= 2 /\ Goto(t, "lookup") /\ UNCHANGED <<dictVars, chan>>
  /\ UNCHANGED <<envVars, seen, cache, chanVars, phase, list, key, todo, pool>>

\* Mutant of Connected: ConnectAsync is not awaited.
ConnectedUnawaited(t) ==
  /\ pc[t] = "connect"
  /\ Goto(t, IF phase[t] = "factory" THEN "store" ELSE "update")
  /\ UNCHANGED <<envVars, seen, cache, chanVars, dictVars, localVars, pool>>

Connected(t) ==
  /\ pc[t] = "connect" /\ state[chan[t]] = "ready"
  /\ Goto(t, IF phase[t] = "factory" THEN "store" ELSE "update")
  /\ UNCHANGED <<envVars, seen, cache, chanVars, dictVars, localVars, pool>>

Return(t) ==
  /\ pc[t] = "done"
  /\ Map!Forget(t)
  /\ chan' = [chan EXCEPT ![t] = NoChannel]
  /\ key' = [key EXCEPT ![t] = NoEndpoint]
  /\ list' = [list EXCEPT ![t] = {}]
  /\ tries' = [tries EXCEPT ![t] = 0]
  /\ phase' = [phase EXCEPT ![t] = "first"]
  /\ Goto(t, "idle")
  /\ UNCHANGED <<envVars, seen, cache, chanVars, todo, pool>>
-----------------------------------------------------------------------------
\* ServiceDiscovery_ServiceChanged, called for a list that is not empty.
ServiceChanged ==
  /\ pc[Notifier] = "idle" /\ polling /\ news /\ health # {}
  /\ news' = FALSE
  /\ cache' = health
  /\ list' = [list EXCEPT ![Notifier] = health]
  /\ Goto(Notifier, "sweep")
  /\ UNCHANGED <<up, health, polling, seen, chanVars, dictVars, phase, key, chan, tries,
                 todo, pool>>

\* The discovery swallows an empty list.
EmptyListIgnored ==
  /\ pc[Notifier] = "idle" /\ polling /\ news /\ health = {}
  /\ news' = FALSE
  /\ UNCHANGED <<up, health, polling, seen, cache, chanVars, dictVars, pc, localVars, pool>>

\* The channels that Shutdown finds in the dictionary.
Pooled == {channels[k] : k \in Endpoint} \ {NoChannel}

ShutDown(cs) == state' = [c \in Channel |-> IF c \in cs THEN "shut" ELSE state[c]]

\* Shutdown, when no call is in progress: shut what the dictionary holds ...
ShutdownChannels ==
  /\ pool = "open" /\ \A p \in Process : pc[p] = "idle"
  /\ \A c \in Pooled : state[c] # "shut"
  /\ pool' = "closing"
  /\ ShutDown(Pooled)
  /\ UNCHANGED <<envVars, seen, cache, target, dictVars, pc, localVars>>

\* ... but a channel that is shut already throws, and Wait rethrows it: the
\* channels after it, in the dictionary's order, stay open and pooled.
ShutdownThrows ==
  /\ pool = "open" /\ \A p \in Process : pc[p] = "idle"
  /\ \E c \in Pooled : state[c] = "shut"
  /\ pool' = "aborted"
  /\ \E before \in SUBSET {c \in Pooled : state[c] # "shut"} : ShutDown(before)
  /\ UNCHANGED <<envVars, seen, cache, target, dictVars, pc, localVars>>

\* ... and clear it.
ClearChannels ==
  /\ pool = "closing"
  /\ pool' = "closed"
  /\ channels' = [k \in Endpoint |-> NoChannel]
  /\ UNCHANGED <<envVars, seen, cache, chanVars, building, got, pc, localVars>>
-----------------------------------------------------------------------------
Sweep(p) == SweepStart(p) \/ SweepShut(p) \/ SweepOne(p) \/ SweepEnd(p)

CallStep(t) ==
  \/ LookupHit(t) \/ LookupMiss(t) \/ FetchAnswers(t) \/ FetchFails(t) \/ Commit(t)
  \/ Sweep(t) \/ Select(t) \/ EntryFound(t) \/ FactoryBegins(t) \/ FactoryEnds(t)
  \/ ChannelReady(t) \/ Rebuild(t) \/ Update(t) \/ ConnectSucceeds(t)
  \/ ConnectFails(t) \/ Connected(t) \/ Return(t)

Environment ==
  \/ \E e \in Endpoint : Flip(e)
  \/ \E c \in Channel : LoseConnection(c) \/ Reconnect(c)
  \/ HealthChanges

Next ==
  \/ \E t \in Thread : GetChannel(t) \/ CallStep(t)
  \/ ServiceChanged \/ EmptyListIgnored \/ Sweep(Notifier)
  \/ ShutdownChannels \/ ShutdownThrows \/ ClearChannels
  \/ Environment

Spec == Init /\ [][Next]_vars

\* A call that has begun keeps running: queries and connection attempts have
\* deadlines, and the semaphore of a key is released by its holder.
FairSpec == Spec /\ \A t \in Thread : WF_vars(CallStep(t))
-----------------------------------------------------------------------------
Open(c) == state[c] \in {"new", "ready", "lost"}

Quiet == \A p \in Process : pc[p] = "idle"

\* Nothing has gone wrong so far: all servers up, no connection lost.
AllUp == up = Endpoint /\ seen["flips"] = 0

\* The failover of CreateChannel asks GetEndpoint without the defaults that
\* GetChannel falls back on; that is harmless only because the list is always
\* cached by then, whatever other calls and the handler do.
FailoverHitsCache ==
  \A t \in Thread :
    phase[t] # "first" => cache # NoList /\ pc[t] \notin {"fetch", "commit"}

\* The pool only ever offers channels whose connection has succeeded once.
EntriesConnected ==
  \A k \in Endpoint : channels[k] # NoChannel =>
    state[channels[k]] \in {"ready", "lost", "shut"}

\* While servers, connections and the list are stable, all callers share one
\* channel per endpoint, even when they all miss at the same time.
StableSharing ==
  AllUp /\ seen["losses"] = 0 /\ seen["changes"] = 0
    => \A c, d \in Channel : Open(c) /\ Open(d) /\ target[c] = target[d] => c = d

\* A channel belongs to the call that creates it until it is an entry: no
\* sweep and no other caller shuts it down while its creator connects, stores
\* or returns it (CreateChannel would wait for it in vain).
CreatedStaysOpen ==
  \A t \in Thread : pc[t] \in {"connect", "store", "update"} => Open(chan[t])

\* A key is being built exactly while one call for it is creating its channel,
\* and that call waits for no key: every exception, that of a failover too,
\* gives the key back.
BuildsToTheEnd ==
  \A t \in Thread, k \in Endpoint :
    <<t, k>> \in building <=>
      /\ phase[t] = "factory" /\ key[t] = k
      /\ pc[t] \in {"lookup", "select", "connect", "store"}

\* How far a call is from its end: in CreateChannel, by the attempts it has
\* left and by its place in the loop ...
Looping(t) == phase[t] # "first" /\ pc[t] \in {"lookup", "select", "connect"}

Turn(t) ==
  CASE pc[t] = "lookup" -> 4
    [] pc[t] = "select" -> 3
    [] pc[t] = "connect" -> IF state[chan[t]] = "ready" THEN 1 ELSE 2

\* ... elsewhere by its place in GetEndpoint and GetChannelCore, ...
Place == [idle |-> 0, done |-> 1, update |-> 2, check |-> 20, store |-> 21,
          getoradd |-> 40, select |-> 41, sweeping |-> 42, sweep |-> 43,
          commit |-> 44, fetch |-> 45, lookup |-> 46]

Distance(t) ==
  IF Looping(t)
  THEN (IF phase[t] = "rebuild" THEN 2 ELSE 21) + 5 * (2 - tries[t]) + Turn(t)
  ELSE Place[pc[t]]

\* ... and in a sweep by what is left to shut and to remove.
LeftOpen(t) == {x \in todo[t] : state[x[2]] # "shut"}

Nearer(t) ==
  \/ Distance(t)' < Distance(t)
  \/ /\ Distance(t)' = Distance(t)
     /\ \/ todo'[t] \subseteq todo[t] /\ todo'[t] # todo[t]
        \/ todo'[t] = todo[t] /\ LeftOpen(t)' \subseteq LeftOpen(t)
           /\ LeftOpen(t)' # LeftOpen(t)

\* Every step of a call takes it nearer to its end, and nobody else takes it
\* further away, unless its own connection is lost: no retry, sweep or rebuild
\* can go on for ever.
CallsGetNearer ==
  [][\A t \in Thread : pc[t] # "idle" =>
       \/ Nearer(t)
       \/ ~CallStep(t) /\ Distance(t)' = Distance(t) /\ todo'[t] = todo[t]
       \/ pc[t] = "connect" /\ LoseConnection(chan[t])]_vars

\* A call of GetChannel ends, with a channel or an exception, whatever the
\* servers, the list and the other calls do meanwhile.
CallEnds == \A t \in Thread : pc[t] # "idle" ~> pc[t] = "idle"

\* "关闭所有Channel": after Shutdown no channel is open.
ShutdownClosesAll == pool = "closed" => \A c \in Channel : ~Open(c)

\* The same as long as every server is up.
ShutdownClosesUp == AllUp => ShutdownClosesAll
=============================================================================
