-------------------------- MODULE RoundLoadBalancer --------------------------
(***************************************************************************)
(* RoundLoadBalancer.SelectEndpoint, called by many threads at once.  The  *)
(* index of a service lives in a ConcurrentDictionary: each access is      *)
(* atomic, a call makes two or three of them.                              *)
(***************************************************************************)
EXTENDS Integers, FiniteSets, Sequences

CONSTANTS
  Thread,
  Service,
  Endpoint,  \* addresses, numbered in the order of OrderBy(q => q)
  Lists,     \* the healthy-endpoint lists that callers of each service pass
  MaxLength, \* length of the longest list
  MaxCalls   \* bound on the number of calls of an execution

ASSUME ThreadAssumption == IsFiniteSet(Thread)
ASSUME EndpointAssumption == Endpoint \subseteq Nat
\* GetEndpoint rejects an empty list before it asks the load balancer.
ASSUME ListsAssumption ==
  \A s \in Service : \A l \in Lists[s] : l \in Seq(Endpoint) /\ l # <<>>
ASSUME LengthAssumption ==
  /\ MaxLength \in Nat \ {0}
  /\ \A s \in Service : \A l \in Lists[s] : Len(l) <= MaxLength
ASSUME MaxCallsAssumption == MaxCalls \in Nat

VARIABLES
  index,      \* _serviceInvokeIndexs; 0 also stands for an absent entry,
              \* since every call begins with GetOrAdd(serviceName, 0)
  pc, svc,    \* where each thread is, and the service it asks for
  endpoints,  \* its sorted copy of the list
  local,      \* its local variable `index`
  served,     \* how often each endpoint of each service was returned
  overlap,    \* the services that had two calls in progress at once
  calls       \* number of calls made

vars == <<index, pc, svc, endpoints, local, served, overlap, calls>>

\* Mutant of Sorted: the list as it was passed.
Unsorted(l) == l

\* OrderBy(q => q): at place i the i-th smallest address, duplicates kept.
Sorted(l) ==
  [i \in 1 .. Len(l) |->
    CHOOSE e \in {l[j] : j \in 1 .. Len(l)} :
      /\ Cardinality({j \in 1 .. Len(l) : l[j] < e}) < i
      /\ Cardinality({j \in 1 .. Len(l) : l[j] <= e}) >= i]

Init ==
  /\ index = [s \in Service |-> 0]
  /\ pc = [t \in Thread |-> "idle"]
  /\ svc \in [Thread -> Service]
  /\ endpoints = [t \in Thread |-> <<>>]
  /\ local = [t \in Thread |-> 0]
  /\ served = [s \in Service |-> [e \in Endpoint |-> 0]]
  /\ overlap = {}
  /\ calls = 0

InProgress(t, s) == pc[t] # "idle" /\ svc[t] = s

\* Mutant of Start: > for >= in the test for the end of the list.
StartPastEnd(t, s, l) ==
  /\ pc[t] = "idle"
  /\ calls < MaxCalls
  /\ calls' = calls + 1
  /\ svc' = [svc EXCEPT ![t] = s]
  /\ endpoints' = [endpoints EXCEPT ![t] = Sorted(l)]
  /\ local' = [local EXCEPT ![t] = index[s]]
  /\ pc' = [pc EXCEPT ![t] = IF index[s] > Len(l) THEN "reset" ELSE "advance"]
  /\ overlap' = overlap \union {r \in {s} : \E u \in Thread : InProgress(u, r)}
  /\ UNCHANGED <<index, served>>

\* Lines 23-25: sort, read the index, and see whether it is past the end.
Start(t, s, l) ==
  /\ pc[t] = "idle"
  /\ calls < MaxCalls
  /\ calls' = calls + 1
  /\ svc' = [svc EXCEPT ![t] = s]
  /\ endpoints' = [endpoints EXCEPT ![t] = Sorted(l)]
  /\ local' = [local EXCEPT ![t] = index[s]]
  /\ pc' = [pc EXCEPT ![t] = IF index[s] >= Len(l) THEN "reset" ELSE "advance"]
  /\ overlap' = overlap \union {r \in {s} : \E u \in Thread : InProgress(u, r)}
  /\ UNCHANGED <<index, served>>

\* Mutant of Reset: -1 is stored, for the increment to make it 0.
ResetBefore(t) ==
  /\ pc[t] = "reset"
  /\ index' = [index EXCEPT ![svc[t]] = -1]
  /\ local' = [local EXCEPT ![t] = 0]
  /\ pc' = [pc EXCEPT ![t] = "advance"]
  /\ UNCHANGED <<svc, endpoints, served, overlap, calls>>

\* Mutant of Reset: only the local variable is reset.
ResetLocal(t) ==
  /\ pc[t] = "reset"
  /\ local' = [local EXCEPT ![t] = 0]
  /\ pc' = [pc EXCEPT ![t] = "advance"]
  /\ UNCHANGED <<index, svc, endpoints, served, overlap, calls>>

\* Line 27: back to the first endpoint, for this call and the next ones.
Reset(t) ==
  /\ pc[t] = "reset"
  /\ index' = [index EXCEPT ![svc[t]] = 0]
  /\ local' = [local EXCEPT ![t] = 0]
  /\ pc' = [pc EXCEPT ![t] = "advance"]
  /\ UNCHANGED <<svc, endpoints, served, overlap, calls>>

\* Lines 29-30: increment whatever the index has become (the result is
\* ignored) and return the element at the index read before.
Advance(t) ==
  /\ pc[t] = "advance"
  /\ index' = [index EXCEPT ![svc[t]] = @ + 1]
  /\ served' = [served EXCEPT ![svc[t]][endpoints[t][local[t] + 1]] = @ + 1]
  /\ endpoints' = [endpoints EXCEPT ![t] = <<>>]
  /\ local' = [local EXCEPT ![t] = 0]
  /\ pc' = [pc EXCEPT ![t] = "idle"]
  /\ UNCHANGED <<svc, overlap, calls>>

Next ==
  \E t \in Thread :
    \/ \E s \in Service : \E l \in Lists[s] : Start(t, s, l)
    \/ Reset(t)
    \/ Advance(t)

Spec == Init /\ [][Next]_vars
-----------------------------------------------------------------------------
TypeOK ==
  /\ index \in [Service -> Nat]
  /\ pc \in [Thread -> {"idle", "reset", "advance"}]
  /\ svc \in [Thread -> Service]
  /\ DOMAIN endpoints = Thread
  /\ local \in [Thread -> Nat]
  /\ overlap \subseteq Service
  /\ calls \in 0 .. MaxCalls

\* ElementAt never throws: the index a call is about to use lies inside its
\* own list, although other calls, possibly with longer lists, move the
\* shared index between its reads and writes.
IndexInRange ==
  \A t \in Thread : pc[t] = "advance" => local[t] + 1 \in DOMAIN endpoints[t]

\* The shared index has no modulus: it outgrows the lists when several calls
\* increment it after one test, but only by the number of threads, so it
\* cannot creep up to an overflow.
IndexBounded ==
  \A s \in Service : index[s] < MaxLength + Cardinality(Thread)

\* What makes the bound inductive: the increments still to come count too.
Advancing(s) == {t \in Thread : pc[t] = "advance" /\ svc[t] = s}

IndexInv ==
  \A s \in Service :
    index[s] + Cardinality(Advancing(s)) < MaxLength + Cardinality(Thread)

\* "轮询负载": as long as the calls for a service do not overlap, the
\* endpoints of a list that does not change, in whatever order it is passed,
\* are returned equally often, up to one, whatever other services do.
Elements(l) == {l[i] : i \in 1 .. Len(l)}

Steady(s) ==
  \A l, m \in Lists[s] :
    Elements(l) = Elements(m) /\ Cardinality(Elements(l)) = Len(l)

Balanced ==
  \A s \in Service \ overlap :
    Steady(s) /\ (\A t \in Thread : ~InProgress(t, s))
      => \A l \in Lists[s] : \A i, j \in DOMAIN l :
           served[s][l[i]] <= served[s][l[j]] + 1
=============================================================================
