---------------------------- MODULE ChannelLeaks ----------------------------
(***************************************************************************)
(* What the sweeps and Shutdown of ChannelPool leave behind, and when.     *)
(* With callers and the handler overlapping as they like, channels do leak *)
(* and entries do stay; two history variables note the only situations     *)
(* from which that can come, endpoint by endpoint.                         *)
(***************************************************************************)
EXTENDS ChannelPool

VARIABLES
  troubled,  \* endpoints that have been in trouble
  outdated   \* endpoints a call went on with that were not in the list

leakVars == <<vars, troubled, outdated>>

\* t is in CreateChannel for the key k, or about to store what it has made.
Creates(t, k) ==
  /\ key[t] = k /\ phase[t] # "first"
  /\ pc[t] \in {"lookup", "select", "connect", "store", "update"}

\* While t creates a channel for k, another caller does so too or is about to
\* look at the one it has for k, or a sweep has noted an entry of k.
Clash(k) ==
  \E t \in Thread : Creates(t, k) /\
    \/ \E u \in Thread \ {t} : Creates(u, k) \/ (pc[u] = "check" /\ key[u] = k)
    \/ \E p \in Process, c \in Channel : <<k, c>> \in todo[p]

\* A call's connection to k has failed, or k is where it has turned to since.
Failing(k) ==
  \E t \in Thread : tries[t] > 0 /\ chan[t] # NoChannel /\ target[chan[t]] = k

Troubled(k) == Clash(k) \/ Failing(k)

\* k is no longer listed, but a call that has chosen it goes on.
Outdated(k) ==
  /\ cache # NoList /\ k \notin cache
  /\ \E t \in Thread : pc[t] # "done" /\ key[t] = k

LeakInit == Init /\ troubled = {} /\ outdated = {}

LeakNext ==
  /\ Next
  /\ troubled' = troubled \union {k \in Endpoint : Troubled(k)'}
  /\ outdated' = outdated \union {k \in Endpoint : Outdated(k)'}

LeakSpec == LeakInit /\ [][LeakNext]_leakVars
-----------------------------------------------------------------------------
\* "关闭所有Channel" (ChannelPool.cs:181): after Shutdown the only channels
\* that can be open go to endpoints that have been in trouble.  A list that
\* changes, however it overlaps the calls, and connections that are lost leak
\* nothing by themselves.
LeakedChannels ==
  pool = "closed" => \A c \in Channel : Open(c) => target[c] \in troubled

\* Between calls an entry whose channel is shut, which the next caller pays
\* for and which makes Shutdown throw before it has closed the others, is of
\* an endpoint that has been in trouble.
DeadEntries ==
  Quiet /\ pool = "open" => \A k \in Endpoint :
    channels[k] # NoChannel /\ state[channels[k]] = "shut" => k \in troubled

\* "关闭不健康Channel" (ChannelPool.cs:163): between calls every entry is of an
\* endpoint of the cached list, unless a call went on with that endpoint while
\* it was not listed.  (An empty answer is cached, and nothing is swept for it.)
StrayEntries ==
  Quiet /\ cache \notin {NoList, {}} => \A k \in Endpoint :
    channels[k] # NoChannel => k \in cache \union outdated
=============================================================================
