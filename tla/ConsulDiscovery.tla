--------------------------- MODULE ConsulDiscovery ---------------------------
(***************************************************************************)
(* ConsulServiceDiscovery for one service: callers of GetEndpoints, the    *)
(* background loops PollForChanges they start, and the index both update.  *)
(* Consul itself is external: a list of passing instances for each value   *)
(* of its index, answering a blocking query when the index has passed the  *)
(* one waited for, or when the query times out.                            *)
(***************************************************************************)
EXTENDS Naturals, Sequences, FiniteSets

CONSTANTS
  Getter,     \* calls of GetEndpoints; the loop a call starts has its name
  List,       \* lists of passing instances
  EmptyList,
  MaxIndex,   \* bound on the changes of the health of the service
  MaxFaults   \* bound on the queries that fail

ASSUME GetterAssumption == IsFiniteSet(Getter)
ASSUME EmptyListAssumption == EmptyList \in List
ASSUME BoundAssumption == MaxIndex \in Nat \ {0} /\ MaxFaults \in Nat

VARIABLES
  hist,       \* Consul: the list at each value of the index so far
  faults,     \* queries that have failed
  last,       \* _lastIndexs[serviceName], 0 when absent
  polling,    \* whether _pollForChanges contains serviceName
  gpc, gres,  \* each call of GetEndpoints and the index of its answer
  ppc, pres,  \* each loop and the index of its answer
  wait,       \* the WaitIndex of each loop's query
  given,      \* indexes whose list the client has been given
  announced   \* the index announced last by ServiceChanged, 0 if none

consulVars == <<hist, faults>>
vars == <<hist, faults, last, polling, gpc, gres, ppc, pres, wait, given, announced>>

Index == Len(hist)

TypeOK ==
  /\ hist \in Seq(List) /\ Len(hist) \in 1 .. MaxIndex
  /\ faults \in 0 .. MaxFaults
  /\ last \in 0 .. Index
  /\ polling \in BOOLEAN
  /\ gpc \in [Getter -> {"idle", "query", "compare", "write", "return", "done"}]
  /\ gres \in [Getter -> 0 .. Index]
  /\ ppc \in [Getter -> {"none", "contains", "add", "read", "query", "compare",
                         "write", "deliver", "gone"}]
  /\ pres \in [Getter -> 0 .. Index]
  /\ wait \in [Getter -> 0 .. Index]
  /\ given \in SUBSET (0 .. Index)
  /\ announced \in 0 .. Index

Init ==
  /\ hist \in {<<l>> : l \in List}
  /\ faults = 0
  /\ last = 0
  /\ polling = FALSE
  /\ gpc = [g \in Getter |-> "idle"] /\ gres = [g \in Getter |-> 0]
  /\ ppc = [g \in Getter |-> "none"] /\ pres = [g \in Getter |-> 0]
  /\ wait = [g \in Getter |-> 0]
  /\ given = {}
  /\ announced = 0

-----------------------------------------------------------------------------
\* Consul: instances become healthy, fail, or are left out of the list.
HealthChanges ==
  /\ Index < MaxIndex
  /\ \E l \in List : hist' = Append(hist, l)
  /\ UNCHANGED <<faults, last, polling, gpc, gres, ppc, pres, wait, given, announced>>

-----------------------------------------------------------------------------
\* GetEndpoints.
GetEndpoints(g) ==
  /\ gpc[g] = "idle"
  /\ gpc' = [gpc EXCEPT ![g] = "query"]
  /\ UNCHANGED <<consulVars, last, polling, gres, ppc, pres, wait, given, announced>>

GetterAnswered(g) ==
  /\ gpc[g] = "query"
  /\ gres' = [gres EXCEPT ![g] = Index]
  /\ gpc' = [gpc EXCEPT ![g] = "compare"]
  /\ UNCHANGED <<consulVars, last, polling, ppc, pres, wait, given, announced>>

\* The exception leaves GetEndpoints before a loop is started.
GetterFails(g) ==
  /\ gpc[g] = "query"
  /\ faults < MaxFaults
  /\ faults' = faults + 1
  /\ gpc' = [gpc EXCEPT ![g] = "idle"]
  /\ UNCHANGED <<hist, last, polling, gres, ppc, pres, wait, given, announced>>

\* The first half of UpdateLastIndex; its result is not used here.
GetterCompares(g) ==
  /\ gpc[g] = "compare"
  /\ gpc' = [gpc EXCEPT ![g] = IF gres[g] > last THEN "write" ELSE "return"]
  /\ ppc' = [ppc EXCEPT ![g] = IF gres[g] > last THEN @ ELSE "contains"]
  /\ UNCHANGED <<consulVars, last, polling, gres, pres, wait, given, announced>>

\* The second half, and Task.Run of the loop.
GetterWrites(g) ==
  /\ gpc[g] = "write"
  /\ last' = gres[g]
  /\ gpc' = [gpc EXCEPT ![g] = "return"]
  /\ ppc' = [ppc EXCEPT ![g] = "contains"]
  /\ UNCHANGED <<consulVars, polling, gres, pres, wait, given, announced>>

GetterReturns(g) ==
  /\ gpc[g] = "return"
  /\ given' = given \union {gres[g]}
  /\ gpc' = [gpc EXCEPT ![g] = "done"]
  /\ gres' = [gres EXCEPT ![g] = 0]
  /\ UNCHANGED <<consulVars, last, polling, ppc, pres, wait, announced>>

-----------------------------------------------------------------------------
\* PollForChanges: leave when the service is polled already (line 53) ...
PollContains(g) ==
  /\ ppc[g] = "contains"
  /\ ppc' = [ppc EXCEPT ![g] = IF polling THEN "gone" ELSE "add"]
  /\ UNCHANGED <<consulVars, last, polling, gpc, gres, pres, wait, given, announced>>

\* ... and note that it is, in a second step (line 54).
PollAdd(g) ==
  /\ ppc[g] = "add"
  /\ polling' = TRUE
  /\ ppc' = [ppc EXCEPT ![g] = "read"]
  /\ UNCHANGED <<consulVars, last, gpc, gres, pres, wait, given, announced>>

\* Mutant of PollRead: waits for the index after the recorded one.
PollReadNext(g) ==
  /\ ppc[g] = "read"
  /\ wait' = [wait EXCEPT ![g] = last + 1]
  /\ ppc' = [ppc EXCEPT ![g] = "query"]
  /\ UNCHANGED <<consulVars, last, polling, gpc, gres, pres, given, announced>>

PollRead(g) ==
  /\ ppc[g] = "read"
  /\ wait' = [wait EXCEPT ![g] = last]
  /\ ppc' = [ppc EXCEPT ![g] = "query"]
  /\ pres' = [pres EXCEPT ![g] = 0]
  /\ UNCHANGED <<consulVars, last, polling, gpc, gres, given, announced>>

\* Consul answers with the present index and list.
PollAnswered(g) ==
  /\ ppc[g] = "query"
  /\ pres' = [pres EXCEPT ![g] = Index]
  /\ ppc' = [ppc EXCEPT ![g] = "compare"]
  /\ wait' = [wait EXCEPT ![g] = 0]
  /\ UNCHANGED <<consulVars, last, polling, gpc, gres, given, announced>>

PollChanged(g) == Index > wait[g] /\ PollAnswered(g)

PollTimesOut(g) == Index <= wait[g] /\ PollAnswered(g)

\* Mutant of PollFails: the exception ends the loop.
PollFailsForGood(g) ==
  /\ ppc[g] = "query"
  /\ faults < MaxFaults
  /\ faults' = faults + 1
  /\ ppc' = [ppc EXCEPT ![g] = "gone"]
  /\ UNCHANGED <<hist, last, polling, gpc, gres, pres, wait, given, announced>>

\* The exception is logged and the loop goes on.
PollFails(g) ==
  /\ ppc[g] = "query"
  /\ faults < MaxFaults
  /\ faults' = faults + 1
  /\ ppc' = [ppc EXCEPT ![g] = "read"]
  /\ UNCHANGED <<hist, last, polling, gpc, gres, pres, wait, given, announced>>

\* Mutant of PollCompares: >= for > in UpdateLastIndex.
PollComparesLoosely(g) ==
  /\ ppc[g] = "compare"
  /\ ppc' = [ppc EXCEPT ![g] = IF pres[g] >= last THEN "write" ELSE "read"]
  /\ UNCHANGED <<consulVars, last, polling, gpc, gres, pres, wait, given, announced>>

PollCompares(g) ==
  /\ ppc[g] = "compare"
  /\ ppc' = [ppc EXCEPT ![g] = IF pres[g] > last THEN "write" ELSE "read"]
  /\ UNCHANGED <<consulVars, last, polling, gpc, gres, pres, wait, given, announced>>

\* An empty list is only logged.
PollWrites(g) ==
  /\ ppc[g] = "write"
  /\ last' = pres[g]
  /\ ppc' = [ppc EXCEPT ![g] =
               IF hist[pres[g]] = EmptyList THEN "read" ELSE "deliver"]
  /\ UNCHANGED <<consulVars, polling, gpc, gres, pres, wait, given, announced>>

\* Mutant of PollDelivers: nobody has subscribed to ServiceChanged.
PollDeliversToNobody(g) ==
  /\ ppc[g] = "deliver"
  /\ announced' = pres[g]
  /\ ppc' = [ppc EXCEPT ![g] = "read"]
  /\ UNCHANGED <<consulVars, last, polling, gpc, gres, pres, wait, given>>

\* ServiceChanged.Invoke runs the handler before the loop goes on.
PollDelivers(g) ==
  /\ ppc[g] = "deliver"
  /\ given' = given \union {pres[g]}
  /\ announced' = pres[g]
  /\ ppc' = [ppc EXCEPT ![g] = "read"]
  /\ UNCHANGED <<consulVars, last, polling, gpc, gres, pres, wait>>

-----------------------------------------------------------------------------
GetterStep(g) ==
  \/ GetterAnswered(g) \/ GetterFails(g) \/ GetterCompares(g)
  \/ GetterWrites(g) \/ GetterReturns(g)

PollStep(g) ==
  \/ PollContains(g) \/ PollAdd(g) \/ PollRead(g) \/ PollChanged(g)
  \/ PollTimesOut(g) \/ PollFails(g) \/ PollCompares(g) \/ PollWrites(g)
  \/ PollDelivers(g)

Next ==
  \/ HealthChanges
  \/ \E g \in Getter : GetEndpoints(g) \/ GetterStep(g) \/ PollStep(g)

Spec == Init /\ [][Next]_vars

\* Started calls and loops run on; faults are bounded.  Nothing makes Consul
\* change or a client call.
Fairness == \A g \in Getter : WF_vars(GetterStep(g)) /\ WF_vars(PollStep(g))

FairSpec == Spec /\ Fairness
-----------------------------------------------------------------------------
\* Once the client has recorded an index it never asks for that list again:
\* so the list is empty, has been given to the client, or a thread that
\* recorded it is about to give it.  Callers and loops update the index under
\* each other's feet, and may even move it back.
NothingLost ==
  last > 0 =>
    \/ hist[last] = EmptyList
    \/ last \in given
    \/ \E g \in Getter : gpc[g] = "return" /\ gres[g] = last
    \/ \E g \in Getter : ppc[g] = "deliver" /\ pres[g] = last

Polling(g) == ppc[g] \in {"read", "query", "compare", "write", "deliver"}

\* Once a service is polled, its current list is empty, has been given to the
\* client, is about to be, or is news to a loop that goes on polling: late,
\* failed and concurrent queries leave no state in which it is forgotten.
CurrentOnItsWay ==
  polling /\ hist[Index] # EmptyList /\ Index \notin given =>
    \/ \E g \in Getter : gpc[g] = "return" /\ gres[g] = Index
    \/ \E g \in Getter : ppc[g] = "deliver" /\ pres[g] = Index
    \/ last < Index /\ \E g \in Getter : Polling(g)

\* While a loop runs, a non-empty list that stays current is given to the
\* client, whatever queries fail and however many loops were started.
Notified ==
  \A i \in 1 .. MaxIndex :
    polling /\ Index = i /\ hist[i] # EmptyList ~> i \in given \/ Index # i

\* One call is, or has been, in progress.
Alone == Cardinality({g \in Getter : gpc[g] # "idle"}) <= 1

\* With one fill, ServiceChanged announces the changes in Consul's order and
\* each of them once: queries that time out, fail or answer late repeat
\* nothing.  (Two fills at once may start two loops or move the index back.)
EventsIncrease ==
  [][\A g \in Getter :
       Alone /\ ppc[g] = "deliver" /\ ppc'[g] = "read" => pres[g] > announced]_vars
=============================================================================
