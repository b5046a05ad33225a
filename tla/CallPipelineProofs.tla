-------------------------- MODULE CallPipelineProofs --------------------------
(***************************************************************************)
(* Proofs about CallPipeline for any number of methods, callers, commands  *)
(* and calls.  What MethodSwitchesProofs shows of the switches holds here, *)
(* since every step of a call is a step of the switches or leaves them as  *)
(* they are.                                                               *)
(***************************************************************************)
EXTENDS CallPipeline, MethodSwitchesProofs

USE CommandsAssumption, MetaAssumption, TargetAssumption, NoCallerAssumption, MaxCallsAssumption

Client == {"header", "add", "send", "waiting", "done"}
Server == {"none", "arrived", "handler", "locked", "returned", "scan", "reply"}
Outcome == {"none", "ok", "error"}

\* The types of what PipelineTypeOK adds to those of the switches.
CallersOK ==
  /\ call \in [Caller -> Call]
  /\ client \in [Caller -> Client] /\ server \in [Caller -> Server]
  /\ outcome \in [Caller -> Outcome]
  /\ trace \in [Caller -> 0 .. MaxCalls]

HistoryOK ==
  /\ shared \in Seq(1 .. MaxCalls)
  /\ calls \in 0 .. MaxCalls
  /\ settled \in SUBSET Method
  /\ firm \in SUBSET Caller /\ refuse \in SUBSET Caller

Nobody(a, s) == a = "done" /\ s = "none"

\* A call q whose client is at a, server at s, with the outcome o and trace n:
\* its server starts when its client has sent it, a call that is over leaves
\* nothing behind, and a handler has a trace identifier.
PlaceFine(q, a, s, o, n) ==
  /\ q.command # NoCommand => q.command.about \in Target
  /\ a \in {"header", "add", "send"} => s = "none"
  /\ a = "waiting" => s # "none"
  /\ s = "none" => o = "none"
  /\ IF Nobody(a, s) THEN q = NoCall ELSE q.number > 0
  /\ Nobody(a, s) \/ a = "header" => n = 0
  /\ a = "add" => n > 0
  /\ a \in {"header", "add"} => q.unary
  /\ a \in {"add", "send"} /\ q.unary => q.header = "shared"
  /\ s \in {"handler", "locked", "returned", "scan"} => n > 0
  /\ s # "none" /\ q.unary /\ q.header = "none" => n > 0
  /\ q.unary /\ q.header = "none" /\ n > 0 /\ q.parent = NoCaller => n = q.number

PlaceInv(c) == PlaceFine(call[c], client[c], server[c], outcome[c], trace[c])

\* The call q of a handler, and the call pq that the handler serves: it stays
\* in its handler while the client of a unary q waits, and keeps its trace
\* identifier until it is over.
KinFine(q, a, n, pq, pa, ps, pn) ==
  /\ q.unary /\ a # "done" => ps = "handler" /\ pq.command = NoCommand
  /\ \/ Nobody(pa, ps)
     \/ /\ pa \in {"waiting", "done"} /\ ps \notin {"none", "arrived"}
        /\ q.unary /\ q.header = "none" /\ n > 0 => n = pn

KinInv(c) ==
  LET p == call[c].parent
  IN p # NoCaller =>
       p # c /\ KinFine(call[c], client[c], trace[c], call[p], client[p], server[p], trace[p])

NumbersInv ==
  /\ \A c \in Caller : call[c].number <= calls
  /\ \A c, d \in Caller : call[c].number = call[d].number /\ call[c].number > 0 => c = d

ThrottleInv ==
  /\ settled \subseteq throttled
  /\ \A c \in firm : IsCommand(c) /\ call[c].command.about \in throttled
  /\ \A c \in refuse : call[c].runs \in settled /\ ~Idle(c)
  /\ ThrottleObeyed

PipelineInv ==
  /\ CallersOK /\ HistoryOK
  /\ \A c \in Caller : PlaceInv(c) /\ KinInv(c)
  /\ NumbersInv /\ ThrottleInv
-----------------------------------------------------------------------------
\* A step is one caller's.
Sets(c, q, a, s, o, n) ==
  /\ call' = [call EXCEPT ![c] = q]
  /\ client' = [client EXCEPT ![c] = a]
  /\ server' = [server EXCEPT ![c] = s]
  /\ outcome' = [outcome EXCEPT ![c] = o]
  /\ trace' = [trace EXCEPT ![c] = n]

LEMMA OneCaller ==
  ASSUME CallersOK, NEW c \in Caller, NEW q, NEW a, NEW s, NEW o, NEW n,
         Sets(c, q, a, s, o, n)
  PROVE  \A d \in Caller :
           /\ call'[d] = IF d = c THEN q ELSE call[d]
           /\ client'[d] = IF d = c THEN a ELSE client[d]
           /\ server'[d] = IF d = c THEN s ELSE server[d]
           /\ outcome'[d] = IF d = c THEN o ELSE outcome[d]
           /\ trace'[d] = IF d = c THEN n ELSE trace[d]
<1> SUFFICES ASSUME NEW d \in Caller
             PROVE  /\ call'[d] = IF d = c THEN q ELSE call[d]
                    /\ client'[d] = IF d = c THEN a ELSE client[d]
                    /\ server'[d] = IF d = c THEN s ELSE server[d]
                    /\ outcome'[d] = IF d = c THEN o ELSE outcome[d]
                    /\ trace'[d] = IF d = c THEN n ELSE trace[d]
  OBVIOUS
<1>1. call'[d] = IF d = c THEN q ELSE call[d]
  BY DEF CallersOK, Sets
<1>2. client'[d] = IF d = c THEN a ELSE client[d]
  BY DEF CallersOK, Sets
<1>3. server'[d] = IF d = c THEN s ELSE server[d]
  BY DEF CallersOK, Sets
<1>4. outcome'[d] = IF d = c THEN o ELSE outcome[d]
  BY DEF CallersOK, Sets
<1>5. trace'[d] = IF d = c THEN n ELSE trace[d]
  BY DEF CallersOK, Sets
<1> QED BY <1>1, <1>2, <1>3, <1>4, <1>5

\* What a step must do to the others' view of its caller.
ParentFine(c, q, a, s, n) ==
  \A d \in Caller \ {c} :
    call[d].parent = c => KinFine(call[d], client[d], trace[d], q, a, s, n)

ChildFine(c, q, a, n) ==
  q.parent # NoCaller =>
    /\ q.parent \in Caller \ {c}
    /\ KinFine(q, a, n, call[q.parent], client[q.parent], server[q.parent], trace[q.parent])

LEMMA CallerStep ==
  ASSUME PipelineInv, NEW c \in Caller,
         NEW q \in Call, NEW a \in Client, NEW s \in Server, NEW o \in Outcome,
         NEW n \in 0 .. MaxCalls, Sets(c, q, a, s, o, n),
         PlaceFine(q, a, s, o, n), ParentFine(c, q, a, s, n), ChildFine(c, q, a, n)
  PROVE  CallersOK' /\ \A d \in Caller : PlaceInv(d)' /\ KinInv(d)'
<1>1. CallersOK
  BY DEF PipelineInv
<1>2. CallersOK'
  BY <1>1 DEF CallersOK, Sets
<1>0. \A d \in Caller :
        /\ call'[d] = IF d = c THEN q ELSE call[d]
        /\ client'[d] = IF d = c THEN a ELSE client[d]
        /\ server'[d] = IF d = c THEN s ELSE server[d]
        /\ outcome'[d] = IF d = c THEN o ELSE outcome[d]
        /\ trace'[d] = IF d = c THEN n ELSE trace[d]
  BY <1>1, OneCaller
<1>3. ASSUME NEW d \in Caller PROVE PlaceInv(d)'
  <2>1. PlaceInv(d)
    BY DEF PipelineInv
  <2>2. PlaceFine(call'[d], client'[d], server'[d], outcome'[d], trace'[d])
    BY <1>0, <2>1 DEF PlaceInv
  <2> QED BY <2>2 DEF PlaceInv
<1>4. ASSUME NEW d \in Caller PROVE KinInv(d)'
  <2> DEFINE p == call'[d].parent
  <2> SUFFICES ASSUME p # NoCaller
               PROVE  /\ p # d
                      /\ KinFine(call'[d], client'[d], trace'[d], call'[p], client'[p], server'[p], trace'[p])
    BY DEF KinInv
  <2>1. p \in Caller
    BY <1>2 DEF CallersOK, Call
  <2>2. KinInv(d)
    BY DEF PipelineInv
  <2> HIDE DEF p
  <2>3. CASE d = c
    <3>1. call'[d] = q /\ client'[d] = a /\ trace'[d] = n
      BY <1>0, <2>3
    <3>2. p = q.parent
      BY <3>1 DEF p
    <3>3. p \in Caller \ {c} /\ KinFine(q, a, n, call[p], client[p], server[p], trace[p])
      BY <3>2 DEF ChildFine
    <3>4. call'[p] = call[p] /\ client'[p] = client[p] /\ server'[p] = server[p] /\ trace'[p] = trace[p]
      BY <1>0, <3>3
    <3> QED BY <2>3, <3>1, <3>3, <3>4
  <2>4. CASE d # c /\ p = c
    <3>1. call'[d] = call[d] /\ client'[d] = client[d] /\ trace'[d] = trace[d]
      BY <1>0, <2>4
    <3>2. call'[p] = q /\ client'[p] = a /\ server'[p] = s /\ trace'[p] = n
      BY <1>0, <2>1, <2>4
    <3>3. call[d].parent = c
      BY <2>4, <3>1 DEF p
    <3>4. KinFine(call[d], client[d], trace[d], q, a, s, n)
      BY <2>4, <3>3 DEF ParentFine
    <3> QED BY <2>4, <3>1, <3>2, <3>4
  <2>5. CASE d # c /\ p # c
    <3>1. call'[d] = call[d] /\ client'[d] = client[d] /\ trace'[d] = trace[d]
      BY <1>0, <2>5
    <3>2. call'[p] = call[p] /\ client'[p] = client[p] /\ server'[p] = server[p] /\ trace'[p] = trace[p]
      BY <1>0, <2>1, <2>5
    <3>3. p = call[d].parent
      BY <3>1 DEF p
    <3> QED BY <2>2, <3>1, <3>2, <3>3 DEF KinInv
  <2> QED BY <2>3, <2>4, <2>5
<1> QED BY <1>2, <1>3, <1>4

\* What a step must do to the histories of throttling.
HistoryFine(c, q, a, s) ==
  /\ settled' \subseteq throttled'
  /\ \A d \in firm' \ {c} : d \in firm /\ call[d].command.about \in throttled'
  /\ c \in firm' => q.command # NoCommand /\ q.command.about \in throttled'
  /\ \A d \in refuse' \ {c} : d \in refuse /\ call[d].runs \in settled'
  /\ c \in refuse' => /\ q.runs \in settled' /\ ~Nobody(a, s)
                      /\ q.method = q.runs => s \in {"none", "arrived", "reply"}

LEMMA HistoryStep ==
  ASSUME PipelineInv, NEW c \in Caller,
         NEW q, NEW a, NEW s, NEW o, NEW n, Sets(c, q, a, s, o, n),
         HistoryOK', HistoryFine(c, q, a, s)
  PROVE  ThrottleInv'
<1>1. CallersOK
  BY DEF PipelineInv
<1>2. \A d \in Caller :
        /\ call'[d] = IF d = c THEN q ELSE call[d]
        /\ client'[d] = IF d = c THEN a ELSE client[d]
        /\ server'[d] = IF d = c THEN s ELSE server[d]
        /\ outcome'[d] = IF d = c THEN o ELSE outcome[d]
  BY <1>1, OneCaller
<1>3. firm' \subseteq Caller /\ refuse' \subseteq Caller
  BY DEF HistoryOK
<1>4. ASSUME NEW d \in firm' PROVE IsCommand(d)' /\ call'[d].command.about \in throttled'
  <2>1. CASE d = c
    BY <1>2, <2>1 DEF HistoryFine, IsCommand
  <2>2. CASE d # c
    <3>1. call'[d] = call[d]
      BY <1>2, <1>3, <2>2
    <3>2. d \in firm /\ call[d].command.about \in throttled'
      BY <2>2 DEF HistoryFine
    <3> QED BY <3>1, <3>2 DEF PipelineInv, ThrottleInv, IsCommand
  <2> QED BY <2>1, <2>2
<1>5. ASSUME NEW d \in refuse'
      PROVE  /\ call'[d].runs \in settled' /\ ~Idle(d)'
             /\ call'[d].method = call'[d].runs => server'[d] \in {"none", "arrived", "reply"}
  <2>1. CASE d = c
    BY <1>2, <2>1 DEF HistoryFine, Idle, Nobody
  <2>2. CASE d # c
    <3>1. call'[d] = call[d] /\ server'[d] = server[d] /\ client'[d] = client[d]
      BY <1>2, <1>3, <2>2
    <3>2. d \in refuse /\ call[d].runs \in settled'
      BY <2>2 DEF HistoryFine
    <3>3. /\ ~Idle(d)
          /\ call[d].method = call[d].runs => server[d] \in {"none", "arrived", "reply"}
      BY <3>2 DEF PipelineInv, ThrottleInv, ThrottleObeyed
    <3> QED BY <3>1, <3>2, <3>3 DEF Idle
  <2> QED BY <2>1, <2>2
<1>6. settled' \subseteq throttled'
  BY DEF HistoryFine
<1> QED BY <1>4, <1>5, <1>6 DEF ThrottleInv, ThrottleObeyed

LEMMA NumberStep ==
  ASSUME PipelineInv, NEW c \in Caller,
         NEW q, NEW a, NEW s, NEW o, NEW n, Sets(c, q, a, s, o, n), calls' \in Nat,
         \/ calls' = calls /\ (q.number = 0 \/ q = call[c])
         \/ calls' = calls + 1 /\ q.number = calls'
  PROVE  NumbersInv'
<1>1. CallersOK /\ calls \in Nat
  BY DEF PipelineInv, HistoryOK
<1>2. \A d \in Caller : call'[d] = IF d = c THEN q ELSE call[d]
  BY <1>1, OneCaller
<1>3. \A d \in Caller : call[d].number \in Nat
  BY <1>1 DEF CallersOK, Call
<1>4. NumbersInv
  BY DEF PipelineInv
<1>5. \A d \in Caller : call'[d].number <= calls'
  BY <1>1, <1>2, <1>3, <1>4 DEF NumbersInv
<1>6. \A d, e \in Caller :
        call'[d].number = call'[e].number /\ call'[d].number > 0 => d = e
  BY <1>1, <1>2, <1>3, <1>4 DEF NumbersInv
<1> QED BY <1>5, <1>6 DEF NumbersInv

LEMMA Step ==
  ASSUME PipelineInv, NEW c \in Caller,
         NEW q \in Call, NEW a \in Client, NEW s \in Server, NEW o \in Outcome,
         NEW n \in 0 .. MaxCalls, Sets(c, q, a, s, o, n),
         PlaceFine(q, a, s, o, n), ParentFine(c, q, a, s, n), ChildFine(c, q, a, n),
         HistoryOK', HistoryFine(c, q, a, s),
         \/ calls' = calls /\ (q.number = 0 \/ q = call[c])
         \/ calls' = calls + 1 /\ q.number = calls'
  PROVE  PipelineInv'
<1>1. calls' \in Nat
  BY DEF HistoryOK
<1> QED BY <1>1, CallerStep, HistoryStep, NumberStep DEF PipelineInv

LEMMA Facts ==
  ASSUME PipelineInv, NEW c \in Caller
  PROVE  /\ call[c] \in Call /\ client[c] \in Client /\ server[c] \in Server
         /\ outcome[c] \in Outcome /\ trace[c] \in 0 .. MaxCalls
         /\ call[c].parent \in Caller \union {NoCaller}
         /\ call[c].command.about \in Target \union {NoMethod}
         /\ call[c].method \in Method /\ call[c].runs \in Method /\ call[c].number \in 0 .. MaxCalls
         /\ PlaceFine(call[c], client[c], server[c], outcome[c], trace[c])
         /\ NoCall \in Call
<1>1. /\ call[c] \in Call /\ client[c] \in Client /\ server[c] \in Server
      /\ outcome[c] \in Outcome /\ trace[c] \in 0 .. MaxCalls
  BY DEF PipelineInv, CallersOK
<1>2. /\ call[c].parent \in Caller \union {NoCaller}
      /\ call[c].command.about \in Target \union {NoMethod}
      /\ call[c].method \in Method /\ call[c].runs \in Method /\ call[c].number \in 0 .. MaxCalls
  BY <1>1 DEF Call
<1>3. NoCall \in Call
  BY DEF NoCall, NoCommand, Call
<1> QED BY <1>1, <1>2, <1>3 DEF PipelineInv, PlaceInv

\* A call before its handler has made no calls.
LEMMA NoChild ==
  ASSUME PipelineInv, NEW c \in Caller, server[c] \in {"none", "arrived"}, ~Idle(c)
  PROVE  \A d \in Caller : call[d].parent # c
<1> SUFFICES ASSUME NEW d \in Caller, call[d].parent = c PROVE FALSE
  OBVIOUS
<1>1. KinFine(call[d], client[d], trace[d], call[c], client[c], server[c], trace[c])
  BY DEF PipelineInv, KinInv
<1> QED BY <1>1 DEF KinFine, Idle, Nobody

\* The handler of a call that goes on waits for none.
LEMMA GoesOn ==
  ASSUME PipelineInv, NEW c \in Caller, server[c] \notin {"none", "arrived"},
         server[c] = "handler" => IsCommand(c) \/ ~Waits(c),
         NEW q, NEW a, NEW s, NEW n,
         \/ Nobody(a, s)
         \/ a \in {"waiting", "done"} /\ s \notin {"none", "arrived"} /\ n = trace[c]
  PROVE  ParentFine(c, q, a, s, n)
<1> SUFFICES ASSUME NEW d \in Caller \ {c}, call[d].parent = c
             PROVE  KinFine(call[d], client[d], trace[d], q, a, s, n)
  BY DEF ParentFine
<1>1. KinFine(call[d], client[d], trace[d], call[c], client[c], server[c], trace[c])
  BY DEF PipelineInv, KinInv
<1>2. call[d].unary => client[d] = "done"
  BY <1>1 DEF KinFine, Waits, IsCommand
<1> QED BY <1>1, <1>2 DEF KinFine, Nobody

\* A call whose client is not called back, and whose trace identifier stays.
LEMMA StaysChild ==
  ASSUME PipelineInv, NEW c \in Caller, NEW a, NEW n,
         a # "done" => client[c] # "done",
         call[c].unary /\ call[c].header = "none" /\ n > 0 => n = trace[c]
  PROVE  ChildFine(c, call[c], a, n)
<1> SUFFICES ASSUME call[c].parent # NoCaller
             PROVE  LET p == call[c].parent
                    IN p \in Caller \ {c} /\ KinFine(call[c], a, n, call[p], client[p], server[p], trace[p])
  BY DEF ChildFine
<1> DEFINE p == call[c].parent
<1>1. p \in Caller
  BY Facts
<1>2. p # c /\ KinFine(call[c], client[c], trace[c], call[p], client[p], server[p], trace[p])
  BY DEF PipelineInv, KinInv
<1> HIDE DEF p
<1>3. KinFine(call[c], a, n, call[p], client[p], server[p], trace[p])
  BY <1>2 DEF KinFine
<1> QED BY <1>1, <1>2, <1>3 DEF p

\* A step of a call that stays the same call, and orders nothing.
LEMMA SameCall ==
  ASSUME PipelineInv, NEW c \in Caller,
         NEW a \in Client, NEW s \in Server, NEW o \in Outcome, NEW n \in 0 .. MaxCalls,
         Sets(c, call[c], a, s, o, n),
         PlaceFine(call[c], a, s, o, n), ParentFine(c, call[c], a, s, n),
         ChildFine(c, call[c], a, n),
         shared' \in Seq(1 .. MaxCalls), UNCHANGED <<calls, settled, firm, refuse>>,
         throttled' = throttled,
         c \in refuse =>
           /\ ~Nobody(a, s)
           /\ call[c].method = call[c].runs => s \in {"none", "arrived", "reply"}
  PROVE  PipelineInv'
<1>1. call[c] \in Call
  BY Facts
<1>2. HistoryOK'
  BY DEF PipelineInv, HistoryOK
<1>3. ThrottleInv
  BY DEF PipelineInv
<1>4. HistoryFine(c, call[c], a, s)
  BY <1>3 DEF HistoryFine, ThrottleInv, IsCommand
<1> QED BY <1>1, <1>2, <1>4, Step
-----------------------------------------------------------------------------
\* The steps of the client.
LEMMA SetTraceIdHeaderKeeps ==
  ASSUME PipelineInv, NEW c \in Caller, SetTraceIdHeader(c)
  PROVE  PipelineInv'
<1> DEFINE q == call[c]
           a == IF q.header = "none" THEN "waiting" ELSE IF shared = <<>> THEN "add" ELSE "send"
           s == IF q.header = "none" THEN "arrived" ELSE server[c]
           n == IF q.header = "shared" /\ shared # <<>> THEN trace[c]
                ELSE IF ServerCurrent(c) # 0 THEN ServerCurrent(c) ELSE q.number
<1>1. CallersOK /\ shared \in Seq(1 .. MaxCalls)
  BY DEF PipelineInv, HistoryOK
<1>2. client[c] = "header" /\ server[c] = "none" /\ trace[c] = 0 /\ q.number > 0 /\ q.unary
  BY Facts DEF SetTraceIdHeader, PlaceFine, Nobody
<1>3. Sets(c, q, a, s, outcome[c], n)
  BY <1>1 DEF SetTraceIdHeader, Sets, CallersOK
<1>4. q \in Call /\ q.header \in {"none", "shared"}
  BY Facts DEF Call
<1>5. ChildFine(c, q, a, ServerCurrent(c)) /\ ServerCurrent(c) \in 0 .. MaxCalls
      /\ (q.parent # NoCaller => ServerCurrent(c) > 0)
  <2>1. CASE q.parent = NoCaller
    BY <2>1, Facts DEF ServerCurrent, ChildFine
  <2>2. CASE q.parent # NoCaller
    <3> DEFINE p == q.parent
    <3>1. p \in Caller \ {c} /\ KinFine(q, client[c], trace[c], call[p], client[p], server[p], trace[p])
      BY <2>2, Facts DEF PipelineInv, KinInv
    <3>2. server[p] = "handler" /\ call[p].command = NoCommand /\ client[p] \in {"waiting", "done"}
      BY <1>2, <3>1 DEF KinFine, Nobody
    <3>3. trace[p] > 0 /\ trace[p] \in 0 .. MaxCalls
      BY <3>1, <3>2, Facts DEF PlaceFine
    <3>4. ServerCurrent(c) = trace[p]
      BY <2>2 DEF ServerCurrent
    <3> QED BY <3>1, <3>2, <3>3, <3>4 DEF ChildFine, KinFine, Nobody
  <2> QED BY <2>1, <2>2
<1>6. PlaceFine(q, client[c], server[c], outcome[c], trace[c]) /\ q.number \in 0 .. MaxCalls
  BY Facts
<1>7. q.parent = NoCaller => ServerCurrent(c) = 0
  BY DEF ServerCurrent
<1>8. ParentFine(c, q, a, s, n)
  BY <1>2, NoChild DEF ParentFine, Idle
<1>9. throttled' = throttled /\ UNCHANGED <<shared, calls, settled, firm, refuse>>
  BY DEF SetTraceIdHeader, switchVars
<1> HIDE DEF q
<1>10. n \in 0 .. MaxCalls /\ a \in Client /\ s \in Server /\ outcome[c] \in Outcome
  BY <1>2, <1>5, <1>6, Facts DEF Client, Server
<1>11. PlaceFine(q, a, s, outcome[c], n)
  BY <1>2, <1>4, <1>5, <1>6, <1>7 DEF PlaceFine, Nobody
<1>12. ChildFine(c, q, a, n)
  BY <1>2, <1>4, <1>5 DEF ChildFine, KinFine
<1>13. ~Nobody(a, s) /\ s \in {"none", "arrived", "reply"}
  BY <1>2 DEF Nobody
<1> HIDE DEF a, s, n
<1> QED BY <1>1, <1>3, <1>8, <1>9, <1>10, <1>11, <1>12, <1>13, SameCall DEF q

LEMMA AddHeaderKeeps ==
  ASSUME PipelineInv, NEW c \in Caller, AddHeader(c)
  PROVE  PipelineInv'
<1>1. CallersOK /\ shared \in Seq(1 .. MaxCalls)
  BY DEF PipelineInv, HistoryOK
<1>2. client[c] = "add" /\ server[c] = "none" /\ trace[c] \in 1 .. MaxCalls
  BY Facts DEF AddHeader, PlaceFine
<1>3. Sets(c, call[c], "send", server[c], outcome[c], trace[c])
  BY <1>1 DEF AddHeader, Sets, CallersOK
<1>4. shared' \in Seq(1 .. MaxCalls)
  BY <1>1, <1>2, AppendProperties DEF AddHeader
<1>5. throttled' = throttled /\ UNCHANGED <<calls, settled, firm, refuse>>
  BY DEF AddHeader, switchVars
<1>6. PlaceFine(call[c], "send", server[c], outcome[c], trace[c])
  BY <1>2, Facts DEF PlaceFine, Nobody
<1>7. ParentFine(c, call[c], "send", server[c], trace[c])
  BY <1>2, NoChild DEF ParentFine, Idle
<1>8. ChildFine(c, call[c], "send", trace[c])
  BY <1>2, StaysChild
<1>9. ~Nobody("send", server[c]) /\ server[c] \in {"none", "arrived", "reply"}
  BY <1>2 DEF Nobody
<1>10. "send" \in Client /\ server[c] \in Server /\ outcome[c] \in Outcome
       /\ trace[c] \in 0 .. MaxCalls
  BY Facts DEF Client
<1> QED BY <1>3, <1>4, <1>5, <1>6, <1>7, <1>8, <1>9, <1>10, SameCall

\* A call that is over leaves nothing behind.
LEMMA EndKeeps ==
  ASSUME PipelineInv, NEW c \in Caller, Ends(c), server' = [server EXCEPT ![c] = "none"],
         ParentFine(c, NoCall, "done", "none", 0), throttled' = throttled,
         UNCHANGED <<shared, calls>>,
         settled' \subseteq Method,
         settled' \subseteq throttled, settled \subseteq settled'
  PROVE  PipelineInv'
<1>1. CallersOK
  BY DEF PipelineInv
<1>2. Sets(c, NoCall, "done", "none", "none", 0)
  BY <1>1 DEF Ends, Sets, CallersOK
<1>3. /\ NoCall \in Call /\ "done" \in Client /\ "none" \in Server /\ "none" \in Outcome
      /\ 0 \in 0 .. MaxCalls
  BY Facts DEF Client, Server, Outcome
<1>4. PlaceFine(NoCall, "done", "none", "none", 0)
  BY DEF PlaceFine, NoCall, NoCommand, Nobody
<1>5. ChildFine(c, NoCall, "done", 0) /\ NoCall.number = 0
  BY DEF ChildFine, NoCall
<1>6. HistoryOK'
  BY DEF PipelineInv, HistoryOK, Ends
<1>7. HistoryFine(c, NoCall, "done", "none")
  BY DEF HistoryFine, PipelineInv, ThrottleInv, Ends
<1> QED BY <1>2, <1>3, <1>4, <1>5, <1>6, <1>7, Step

LEMMA SendKeeps ==
  ASSUME PipelineInv, NEW c \in Caller, Send(c)
  PROVE  PipelineInv'
<1>1. CallersOK /\ shared \in Seq(1 .. MaxCalls)
  BY DEF PipelineInv, HistoryOK
<1>2. client[c] = "send" /\ server[c] = "none"
  BY Facts DEF Send, PlaceFine
<1>3. throttled' = throttled /\ UNCHANGED <<shared, calls, settled>>
  BY DEF Send, switchVars
<1>4. \A d \in Caller : call[d].parent # c
  BY <1>2, NoChild DEF Idle
<1>5. CASE call[c].header = "shared" /\ call[c].unary /\ Len(shared) > 1
  <2>1. Ends(c) /\ UNCHANGED server
    BY <1>5 DEF Send
  <2>2. server' = [server EXCEPT ![c] = "none"]
    BY <1>1, <1>2, <2>1 DEF CallersOK
  <2>3. ParentFine(c, NoCall, "done", "none", 0)
    BY <1>4 DEF ParentFine
  <2>4. settled' \subseteq Method /\ settled' \subseteq throttled
    BY <1>3 DEF PipelineInv, HistoryOK, ThrottleInv
  <2> QED BY <1>3, <2>1, <2>2, <2>3, <2>4, EndKeeps
<1>6. CASE ~(call[c].header = "shared" /\ call[c].unary /\ Len(shared) > 1)
  <2> DEFINE q == call[c]
             s == IF q.header = "shared" /\ Len(shared) > 1 THEN "reply" ELSE "arrived"
             n == IF q.header = "shared" /\ shared # <<>> THEN shared[1] ELSE trace[c]
  <2>1. Sets(c, q, "waiting", s, outcome[c], n) /\ UNCHANGED <<firm, refuse>>
    BY <1>1, <1>6 DEF Send, Sets, CallersOK
  <2>2. shared # <<>> => shared[1] \in 1 .. MaxCalls
    BY <1>1, EmptySeq, LenProperties, ElementOfSeq
  <2>3. /\ PlaceFine(q, "send", "none", outcome[c], trace[c])
        /\ trace[c] \in 0 .. MaxCalls /\ outcome[c] \in Outcome
    BY <1>2, Facts
  <2>4. s \in Server /\ "waiting" \in Client /\ s \in {"reply", "arrived"}
    BY DEF Server, Client
  <2>5. n \in 0 .. MaxCalls
    BY <2>2, <2>3
  <2>6. PlaceFine(q, "waiting", s, outcome[c], n)
    BY <2>3, <2>4 DEF PlaceFine, Nobody
  <2>7. ParentFine(c, q, "waiting", s, n)
    BY <1>4 DEF ParentFine
  <2>8. ChildFine(c, q, "waiting", n)
    BY <1>2, StaysChild
  <2>9. ~Nobody("waiting", s) /\ s \in {"none", "arrived", "reply"}
    BY <2>4 DEF Nobody
  <2> HIDE DEF s, n
  <2> QED BY <1>1, <1>3, <2>1, <2>3, <2>4, <2>5, <2>6, <2>7, <2>8, <2>9, SameCall
<1> QED BY <1>5, <1>6

LEMMA DeadlineKeeps ==
  ASSUME PipelineInv, NEW c \in Caller, Deadline(c)
  PROVE  PipelineInv'
<1>1. CallersOK /\ shared' \in Seq(1 .. MaxCalls)
  BY DEF PipelineInv, HistoryOK, Deadline
<1>2. client[c] = "waiting" /\ server[c] # "none" /\ throttled' = throttled
      /\ UNCHANGED <<calls, settled, firm, refuse>>
  BY Facts DEF Deadline, PlaceFine, switchVars
<1>3. Sets(c, call[c], "done", server[c], outcome[c], trace[c])
  BY <1>1 DEF Deadline, Sets, CallersOK
<1>4. PlaceFine(call[c], "done", server[c], outcome[c], trace[c])
  BY <1>2, Facts DEF PlaceFine, Nobody
<1>5. ParentFine(c, call[c], "done", server[c], trace[c])
  <2> SUFFICES ASSUME NEW d \in Caller \ {c}, call[d].parent = c
               PROVE  KinFine(call[d], client[d], trace[d], call[c], "done", server[c], trace[c])
    BY DEF ParentFine
  <2>1. KinFine(call[d], client[d], trace[d], call[c], client[c], server[c], trace[c])
    BY DEF PipelineInv, KinInv
  <2> QED BY <1>2, <2>1 DEF KinFine, Nobody
<1>6. ChildFine(c, call[c], "done", trace[c])
  BY StaysChild
<1>7. c \in refuse =>
        /\ ~Nobody("done", server[c])
        /\ call[c].method = call[c].runs => server[c] \in {"none", "arrived", "reply"}
  BY <1>2 DEF PipelineInv, ThrottleInv, ThrottleObeyed, Nobody
<1>8. "done" \in Client /\ server[c] \in Server /\ outcome[c] \in Outcome
      /\ trace[c] \in 0 .. MaxCalls
  BY Facts DEF Client
<1> QED BY <1>1, <1>2, <1>3, <1>4, <1>5, <1>6, <1>7, <1>8, SameCall
-----------------------------------------------------------------------------
\* The steps of the server.
LEMMA InterceptKeeps ==
  ASSUME PipelineInv, NEW c \in Caller, Intercept(c)
  PROVE  PipelineInv'
<1> DEFINE q == call[c]
           n == IF trace[c] = 0 THEN q.number ELSE trace[c]
           out == q.method \in throttled
           s == IF out THEN "reply" ELSE "handler"
           o == IF out THEN "error" ELSE outcome[c]
<1>1. CallersOK /\ shared' \in Seq(1 .. MaxCalls)
  BY DEF PipelineInv, HistoryOK, Intercept
<1>2. server[c] = "arrived" /\ throttled' = throttled
      /\ UNCHANGED <<calls, settled, firm, refuse>>
  BY DEF Intercept, switchVars
<1>3. Sets(c, q, client[c], s, o, n)
  BY <1>1 DEF Intercept, IsThrottled, Goto, Sets, CallersOK
<1>4. /\ PlaceFine(q, client[c], "arrived", outcome[c], trace[c]) /\ client[c] \in Client
      /\ trace[c] \in 0 .. MaxCalls /\ q.number \in 0 .. MaxCalls /\ outcome[c] \in Outcome
  BY <1>2, Facts
<1>5. q.number > 0 /\ n \in 0 .. MaxCalls /\ n > 0
  BY <1>4 DEF PlaceFine, Nobody
<1>6. s \in Server /\ o \in Outcome /\ s \in {"reply", "handler"}
  BY <1>4 DEF Server, Outcome
<1>7. PlaceFine(q, client[c], s, o, n)
  BY <1>4, <1>5, <1>6 DEF PlaceFine, Nobody
<1>8. ParentFine(c, q, client[c], s, n)
  BY <1>2, NoChild DEF ParentFine, Idle
<1>9. q.unary /\ q.header = "none" /\ n > 0 => n = trace[c]
  BY <1>4 DEF PlaceFine
<1>10. ChildFine(c, q, client[c], n)
  BY <1>9, StaysChild
<1>11. c \in refuse /\ q.method = q.runs => out
  BY DEF PipelineInv, ThrottleInv
<1>12. c \in refuse =>
         /\ ~Nobody(client[c], s)
         /\ q.method = q.runs => s \in {"none", "arrived", "reply"}
  BY <1>11 DEF Nobody
<1> HIDE DEF n, s, o
<1> QED BY <1>1, <1>2, <1>3, <1>4, <1>5, <1>6, <1>7, <1>8, <1>10, <1>12, SameCall

\* A step of a handler, or behind it: the call stays with its client.
LEMMA Serving ==
  ASSUME PipelineInv, NEW c \in Caller, server[c] \in {"handler", "locked", "returned", "scan"},
         server[c] = "handler" => IsCommand(c) \/ ~Waits(c),
         NEW s, s \in {"handler", "locked", "returned", "scan", "reply"}
  PROVE  /\ s \in Server /\ client[c] \in Client /\ trace[c] \in 0 .. MaxCalls
         /\ ParentFine(c, call[c], client[c], s, trace[c])
         /\ ChildFine(c, call[c], client[c], trace[c])
         /\ \A o \in Outcome : PlaceFine(call[c], client[c], s, o, trace[c])
<1>1. /\ PlaceFine(call[c], client[c], server[c], outcome[c], trace[c])
      /\ client[c] \in Client /\ trace[c] \in 0 .. MaxCalls /\ s \in Server
  BY Facts DEF Server
<1>2. client[c] \in {"waiting", "done"} /\ \A o : PlaceFine(call[c], client[c], s, o, trace[c])
  BY <1>1 DEF PlaceFine, Nobody, Client
<1>3. ParentFine(c, call[c], client[c], s, trace[c])
  BY <1>2, GoesOn
<1>4. ChildFine(c, call[c], client[c], trace[c])
  BY StaysChild
<1> QED BY <1>1, <1>2, <1>3, <1>4

\* Such a step that throttles nothing.
LEMMA Serves ==
  ASSUME PipelineInv, NEW c \in Caller, server[c] \in {"handler", "locked", "returned", "scan"},
         server[c] = "handler" => IsCommand(c) \/ ~Waits(c),
         NEW s, s \in {"handler", "locked", "returned", "scan", "reply"}, NEW o \in Outcome,
         server' = [server EXCEPT ![c] = s], outcome' = [outcome EXCEPT ![c] = o],
         UNCHANGED <<call, client, trace, shared, calls, settled, firm, refuse>>,
         throttled' = throttled
  PROVE  PipelineInv'
<1>1. CallersOK /\ shared' \in Seq(1 .. MaxCalls)
  BY DEF PipelineInv, HistoryOK
<1>2. Sets(c, call[c], client[c], s, o, trace[c])
  BY <1>1 DEF Sets, CallersOK
<1>3. /\ s \in Server /\ client[c] \in Client /\ trace[c] \in 0 .. MaxCalls
      /\ ParentFine(c, call[c], client[c], s, trace[c])
      /\ ChildFine(c, call[c], client[c], trace[c])
      /\ PlaceFine(call[c], client[c], s, o, trace[c])
  BY Serving
<1>4. c \in refuse => ~Nobody(client[c], s) /\ call[c].method # call[c].runs
  BY DEF PipelineInv, ThrottleInv, ThrottleObeyed, Nobody
<1> QED BY <1>1, <1>2, <1>3, <1>4, SameCall

LEMMA HandlerThrowsKeeps ==
  ASSUME PipelineInv, NEW c \in Caller, HandlerThrows(c)
  PROVE  PipelineInv'
<1>1. throttled' = throttled /\ "error" \in Outcome
  BY DEF HandlerThrows, switchVars, Outcome
<1> QED BY <1>1, Serves DEF HandlerThrows, Goto

LEMMA AddDelThrottleKeeps ==
  ASSUME PipelineInv, NEW c \in Caller, AddDelThrottle(c)
  PROVE  PipelineInv'
<1> DEFINE t == call[c].command.about
<1>1. server[c] = "handler" /\ IsCommand(c) /\ call[c].method = ThrottleCmd /\ CallersOK
  BY DEF AddDelThrottle, PipelineInv
<1>2. call[c] \in Call /\ outcome[c] \in Outcome
  BY Facts
<1>3. /\ server' = [server EXCEPT ![c] = "returned"]
      /\ UNCHANGED <<call, client, trace, outcome, shared, calls>>
  BY DEF AddDelThrottle, Goto
<1>4. Sets(c, call[c], client[c], "returned", outcome[c], trace[c])
  BY <1>1, <1>3 DEF Sets, CallersOK
<1>5. /\ "returned" \in Server /\ client[c] \in Client /\ trace[c] \in 0 .. MaxCalls
      /\ ParentFine(c, call[c], client[c], "returned", trace[c])
      /\ ChildFine(c, call[c], client[c], trace[c])
      /\ PlaceFine(call[c], client[c], "returned", outcome[c], trace[c])
  BY <1>1, <1>2, Serving
<1>6. IF call[c].command.del
        THEN /\ throttled' = throttled \ {t} /\ settled' = settled \ {t}
             /\ firm' = {x \in firm : call[x].command.about # t}
             /\ refuse' = {x \in refuse : call[x].runs # t}
        ELSE /\ throttled' = throttled \union {t} /\ firm' = firm \union {c}
             /\ UNCHANGED <<settled, refuse>>
  BY DEF AddDelThrottle, Unthrottle, Throttle
<1>7. HistoryOK'
  BY <1>3, <1>6 DEF PipelineInv, HistoryOK
<1>8. c \in refuse => ~Nobody(client[c], "returned") /\ call[c].method # call[c].runs
  BY <1>1 DEF PipelineInv, ThrottleInv, ThrottleObeyed, Nobody
<1>9. ThrottleInv
  BY DEF PipelineInv
<1> HIDE DEF t
<1>10. CASE call[c].command.del
  <2>1. /\ throttled' = throttled \ {t} /\ settled' = settled \ {t}
        /\ firm' = {x \in firm : call[x].command.about # t}
        /\ refuse' = {x \in refuse : call[x].runs # t}
    BY <1>6, <1>10
  <2>2. HistoryFine(c, call[c], client[c], "returned")
    BY <1>1, <1>8, <1>9, <2>1 DEF HistoryFine, ThrottleInv, IsCommand
  <2> QED BY <1>2, <1>3, <1>4, <1>5, <1>7, <2>2, Step
<1>11. CASE ~call[c].command.del
  <2>1. /\ throttled' = throttled \union {t} /\ firm' = firm \union {c}
        /\ UNCHANGED <<settled, refuse>>
    BY <1>6, <1>11
  <2>2. HistoryFine(c, call[c], client[c], "returned")
    BY <1>1, <1>8, <1>9, <2>1 DEF HistoryFine, ThrottleInv, IsCommand, t
  <2> QED BY <1>2, <1>3, <1>4, <1>5, <1>7, <2>2, Step
<1> QED BY <1>10, <1>11

LEMMA AddDelSaveResponseEnableKeeps ==
  ASSUME PipelineInv, NEW c \in Caller, AddDelSaveResponseEnable(c)
  PROVE  PipelineInv'
<1>1. server[c] = "handler" /\ IsCommand(c) /\ throttled' = throttled
  BY DEF AddDelSaveResponseEnable, DelSaveResponseMethod, AddSaveResponseMethod
<1>2. /\ server' = [server EXCEPT ![c] = "locked"]
      /\ UNCHANGED <<call, client, trace, outcome, shared, calls, settled, firm, refuse>>
  BY DEF AddDelSaveResponseEnable, Goto
<1>3. outcome' = [outcome EXCEPT ![c] = outcome[c]]
  BY <1>2 DEF PipelineInv, CallersOK
<1> QED BY <1>1, <1>2, <1>3, Facts, Serves

\* In the lock of MonitorManager nothing is throttled.
LEMMA InLockQuiet == InLock => UNCHANGED throttled
BY DEF InLock, MakeRoom, CountItem, StoreItem, PublishDistinct, NotThere, CountDown, Shift,
   ClearSlot

LEMMA LockedKeeps ==
  ASSUME PipelineInv, NEW c \in Caller, Locked(c)
  PROVE  PipelineInv'
<1> DEFINE s == IF Free' THEN "returned" ELSE "locked"
<1>1. server[c] = "locked" /\ throttled' = throttled
  BY InLockQuiet DEF Locked
<1>2. UNCHANGED <<call, client, trace, outcome, shared, calls, settled, firm, refuse>>
  BY DEF Locked
<1>3. outcome' = [outcome EXCEPT ![c] = outcome[c]]
  BY <1>2 DEF PipelineInv, CallersOK
<1>4. server' = [server EXCEPT ![c] = s]
  BY <1>1 DEF Locked, Goto, PipelineInv, CallersOK
<1>5. s \in {"locked", "returned"}
  OBVIOUS
<1> HIDE DEF s
<1> QED BY <1>1, <1>2, <1>3, <1>4, <1>5, Facts, Serves

LEMMA AskSaveResponseKeeps ==
  ASSUME PipelineInv, NEW c \in Caller, AskSaveResponse(c)
  PROVE  PipelineInv'
<1> DEFINE s == IF call[c].unary THEN "scan" ELSE "reply"
<1>1. server[c] \in {"handler", "returned"}
      /\ (server[c] = "handler" => ~IsCommand(c) /\ ~Waits(c))
  BY DEF AskSaveResponse
<1>2. throttled' = throttled
  BY DEF AskSaveResponse, SaveResponseMethodEnable, ScanFrom, switchVars
<1>3. UNCHANGED <<call, client, trace, shared, calls, settled, firm, refuse>>
  BY DEF AskSaveResponse
<1>4. outcome' = [outcome EXCEPT ![c] = "ok"] /\ server' = [server EXCEPT ![c] = s]
  BY DEF AskSaveResponse, Goto
<1>5. s \in {"scan", "reply"} /\ "ok" \in Outcome
  BY DEF Outcome
<1> HIDE DEF s
<1> QED BY <1>1, <1>2, <1>3, <1>4, <1>5, Serves

LEMMA UseAnswerKeeps ==
  ASSUME PipelineInv, NEW c \in Caller, UseAnswer(c)
  PROVE  PipelineInv'
<1> DEFINE o == IF scan[c].at = "throws" THEN "error" ELSE "ok"
<1>1. /\ server[c] = "scan" /\ throttled' = throttled
      /\ UNCHANGED <<call, client, trace, shared, calls, settled, firm, refuse>>
      /\ outcome' = [outcome EXCEPT ![c] = o] /\ server' = [server EXCEPT ![c] = "reply"]
  BY DEF UseAnswer, Forget, Goto
<1>2. o \in Outcome
  BY DEF Outcome
<1> HIDE DEF o
<1> QED BY <1>1, <1>2, Serves

LEMMA IdleKeeps ==
  ASSUME PipelineInv, UNCHANGED callVars, UNCHANGED throttled
  PROVE  PipelineInv'
BY DEF PipelineInv, callVars, CallersOK, HistoryOK, PlaceInv, KinInv, NumbersInv, ThrottleInv,
   ThrottleObeyed, Idle, IsCommand

LEMMA ReplyKeeps ==
  ASSUME PipelineInv, NEW c \in Caller, Reply(c)
  PROVE  PipelineInv'
<1>1. server[c] = "reply" /\ Ends(c) /\ server' = [server EXCEPT ![c] = "none"]
      /\ throttled' = throttled /\ UNCHANGED <<shared, calls>>
  BY DEF Reply, Goto, switchVars
<1>2. ParentFine(c, NoCall, "done", "none", 0)
  BY <1>1, GoesOn DEF Nobody
<1>3. settled \subseteq settled' /\ \A m \in settled' \ settled :
        c \in firm /\ outcome[c] = "ok" /\ m = call[c].command.about
  BY DEF Reply
<1>4. settled' \subseteq throttled
  BY <1>3 DEF PipelineInv, ThrottleInv
<1>5. c \in firm => call[c].command.about \in Target
  BY Facts DEF PipelineInv, ThrottleInv, IsCommand, PlaceFine
<1>6. settled' \subseteq Method
  BY <1>3, <1>5 DEF PipelineInv, HistoryOK
<1> QED BY <1>1, <1>2, <1>3, <1>4, <1>6, EndKeeps
-----------------------------------------------------------------------------
\* A new call.
New(c, new) == [new EXCEPT !.number = calls + 1]

\* What Begins gives the caller: nothing is left of its last call, no handler
\* of its own is there to be waited for.
LEMMA Begun ==
  ASSUME PipelineInv, NEW c \in Caller, NEW new \in Call, Begins(c, new),
         new.command # NoCommand => new.command.about \in Target,
         new.parent # NoCaller =>
           /\ new.parent # c /\ server[new.parent] = "handler" /\ ~IsCommand(new.parent),
         HistoryOK',
         HistoryFine(c, New(c, new), IF new.unary THEN "header" ELSE "send", "none")
  PROVE  PipelineInv'
<1> DEFINE q == New(c, new)
           a == IF new.unary THEN "header" ELSE "send"
<1>1. CallersOK /\ calls \in 0 .. MaxCalls /\ calls < MaxCalls /\ calls' = calls + 1
  BY DEF PipelineInv, HistoryOK, Begins
<1>2. server[c] = "none" /\ trace[c] = 0 /\ outcome[c] = "none"
  BY Facts DEF Begins, Idle, PlaceFine, Nobody
<1>3. Sets(c, q, a, "none", "none", 0)
  BY <1>1, <1>2 DEF Begins, Sets, CallersOK, New
<1>4. /\ q \in Call /\ q.method = new.method /\ q.unary = new.unary /\ q.header = new.header
      /\ q.parent = new.parent /\ q.command = new.command /\ q.number = calls + 1
  BY <1>1 DEF Call, New
<1>5. /\ a \in Client /\ a \in {"header", "send"} /\ "none" \in Server /\ "none" \in Outcome
      /\ 0 \in 0 .. MaxCalls /\ (a = "header" <=> q.unary)
  BY <1>4 DEF Client, Server, Outcome
<1>6. PlaceFine(q, a, "none", "none", 0)
  BY <1>1, <1>4, <1>5 DEF PlaceFine, Nobody
<1>7. ParentFine(c, q, a, "none", 0)
  <2> SUFFICES ASSUME NEW d \in Caller, call[d].parent = c PROVE FALSE
    BY DEF ParentFine
  <2>1. Idle(d)
    BY DEF Begins
  <2>2. call[d] = NoCall
    BY <2>1, Facts DEF Idle, PlaceFine, Nobody
  <2> QED BY <2>2 DEF NoCall
<1>8. ChildFine(c, q, a, 0)
  <2> DEFINE p == new.parent
  <2> SUFFICES ASSUME p # NoCaller
               PROVE  p \in Caller \ {c} /\ KinFine(q, a, 0, call[p], client[p], server[p], trace[p])
    BY <1>4 DEF ChildFine
  <2>1. p \in Caller \ {c} /\ server[p] = "handler" /\ call[p].command = NoCommand
    BY <1>4 DEF Call, IsCommand
  <2> HIDE DEF p
  <2>2. client[p] \in {"waiting", "done"}
    BY <2>1, Facts DEF PlaceFine, Client
  <2> QED BY <2>1, <2>2 DEF KinFine, Nobody
<1>9. HistoryFine(c, q, a, "none")
  OBVIOUS
<1> HIDE DEF q, a
<1> QED BY <1>1, <1>3, <1>4, <1>5, <1>6, <1>7, <1>8, <1>9, Step

\* A new call changes the histories only by being made.
LEMMA MadeFine ==
  ASSUME PipelineInv, NEW c \in Caller, NEW new \in Call, Begins(c, new), Made(c, new.runs),
         UNCHANGED <<settled, firm>>
  PROVE  /\ HistoryOK'
         /\ HistoryFine(c, New(c, new), IF new.unary THEN "header" ELSE "send", "none")
<1> DEFINE q == New(c, new)
           a == IF new.unary THEN "header" ELSE "send"
<1>1. Idle(c) /\ UNCHANGED <<throttled, shared>> /\ calls' \in 0 .. MaxCalls
  BY DEF Begins, switchVars, PipelineInv, HistoryOK
<1>2. refuse' = IF new.runs \in settled THEN refuse \union {c} ELSE refuse
  BY DEF Made
<1>3. HistoryOK'
  BY <1>1, <1>2 DEF PipelineInv, HistoryOK
<1>4. c \notin firm
  BY <1>1, Facts DEF Idle, PipelineInv, ThrottleInv, IsCommand, PlaceFine, Nobody, NoCall
<1>5. a \in {"header", "send"} /\ q.runs = new.runs
  BY DEF New, Call
<1>6. \A d \in refuse : d # c /\ call[d].runs \in settled
  BY <1>1 DEF PipelineInv, ThrottleInv
<1> HIDE DEF q, a
<1>7. HistoryFine(c, q, a, "none")
  BY <1>1, <1>2, <1>4, <1>5, <1>6 DEF HistoryFine, PipelineInv, ThrottleInv, Nobody
<1> QED BY <1>3, <1>7 DEF q, a

LEMMA InvokeKeeps ==
  ASSUME PipelineInv, NEW c \in Caller, Invoke(c)
  PROVE  PipelineInv'
<1>1. PICK m \in Method \ {ThrottleCmd, SaveCmd}, u \in BOOLEAN, h \in {"none", "shared"},
           p \in Caller \union {NoCaller} : \E r \in Handlers(m) :
        /\ p # NoCaller => p # c /\ server[p] = "handler" /\ ~IsCommand(p)
        /\ Begins(c, [NoCall EXCEPT !.method = m, !.runs = r, !.unary = u, !.header = h,
                                    !.parent = p])
        /\ Made(c, r)
        /\ UNCHANGED <<settled, firm>>
  BY DEF Invoke
<1>2. PICK r \in Handlers(m) :
        /\ p # NoCaller => p # c /\ server[p] = "handler" /\ ~IsCommand(p)
        /\ Begins(c, [NoCall EXCEPT !.method = m, !.runs = r, !.unary = u, !.header = h,
                                    !.parent = p])
        /\ Made(c, r)
        /\ UNCHANGED <<settled, firm>>
  BY <1>1
<1> DEFINE new == [NoCall EXCEPT !.method = m, !.runs = r, !.unary = u, !.header = h, !.parent = p]
<1>3. new \in Call /\ new.command = NoCommand /\ new.runs = r /\ new.parent = p
  <2>1. NoCall \in Call /\ NoCall.command = NoCommand
    BY Facts DEF NoCall
  <2>2. r \in Method
    BY DEF Handlers
  <2> QED BY <2>1, <2>2 DEF Call
<1>4. Begins(c, new) /\ Made(c, new.runs) /\ UNCHANGED <<settled, firm>>
  BY <1>2, <1>3
<1>5. new.parent # NoCaller =>
        new.parent # c /\ server[new.parent] = "handler" /\ ~IsCommand(new.parent)
  BY <1>2, <1>3
<1> HIDE DEF new
<1> QED BY <1>3, <1>4, <1>5, MadeFine, Begun

LEMMA OrderKeeps ==
  ASSUME PipelineInv, NEW c \in Caller, Order(c)
  PROVE  PipelineInv'
<1>1. PICK m \in {ThrottleCmd, SaveCmd}, dl \in BOOLEAN, t \in Target :
        /\ Begins(c, [NoCall EXCEPT !.method = m, !.runs = m,
                                    !.command = [del |-> dl, about |-> t]])
        /\ Made(c, m)
        /\ UNCHANGED <<settled, firm>>
  BY DEF Order
<1> DEFINE new == [NoCall EXCEPT !.method = m, !.runs = m, !.command = [del |-> dl, about |-> t]]
<1>2. /\ new \in Call /\ new.command = [del |-> dl, about |-> t] /\ new.runs = m
      /\ new.parent = NoCaller
  <2>1. NoCall \in Call /\ NoCall.parent = NoCaller
    BY Facts DEF NoCall
  <2>2. m \in Method
    OBVIOUS
  <2> QED BY <2>1, <2>2 DEF Call
<1>3. Begins(c, new) /\ Made(c, new.runs) /\ UNCHANGED <<settled, firm>>
  BY <1>1, <1>2
<1>4. new.command.about \in Target
  BY <1>2
<1> HIDE DEF new
<1> QED BY <1>2, <1>3, <1>4, MadeFine, Begun
-----------------------------------------------------------------------------
LEMMA PipelineInvInit == PipelineInit => PipelineInv
<1> SUFFICES ASSUME PipelineInit PROVE PipelineInv
  OBVIOUS
<1>1. NoCall \in Call
  <2>1. NoCommand \in [del : BOOLEAN, about : Target \union {NoMethod}]
    BY DEF NoCommand
  <2> QED BY <2>1 DEF NoCall, Call
<1>2. CallersOK /\ HistoryOK
  BY <1>1 DEF PipelineInit, CallersOK, HistoryOK, Client, Server, Outcome
<1>3. ASSUME NEW c \in Caller PROVE PlaceInv(c) /\ KinInv(c) /\ call[c].number = 0
  <2>1. /\ call[c] = NoCall /\ client[c] = "done" /\ server[c] = "none"
        /\ outcome[c] = "none" /\ trace[c] = 0
    BY DEF PipelineInit
  <2> QED BY <2>1 DEF PlaceInv, KinInv, PlaceFine, Nobody, NoCall, NoCommand
<1>4. NumbersInv
  BY <1>3 DEF PipelineInit, NumbersInv
<1>5. ThrottleInv
  BY DEF PipelineInit, ThrottleInv, ThrottleObeyed
<1> QED BY <1>2, <1>3, <1>4, <1>5 DEF PipelineInv

\* A scan moves no call, and throttles nothing.
LEMMA ScanQuiet ==
  ASSUME NEW c \in Caller, Scan(c)
  PROVE  UNCHANGED callVars /\ UNCHANGED throttled
BY DEF Scan, LoadArray, LoadSize, ReadSlot

LEMMA PipelineInvStep == PipelineInv /\ [PipelineNext]_pipelineVars => PipelineInv'
<1> SUFFICES ASSUME PipelineInv, [PipelineNext]_pipelineVars PROVE PipelineInv'
  OBVIOUS
<1>1. ASSUME NEW c \in Caller, Invoke(c) \/ Order(c) PROVE PipelineInv'
  BY <1>1, InvokeKeeps, OrderKeeps
<1>2. ASSUME NEW c \in Caller, ClientStep(c) PROVE PipelineInv'
  BY <1>2, SetTraceIdHeaderKeeps, AddHeaderKeeps, SendKeeps, DeadlineKeeps DEF ClientStep
<1>3. ASSUME NEW c \in Caller, ServerStep(c) PROVE PipelineInv'
  BY <1>3, InterceptKeeps, HandlerThrowsKeeps, AddDelThrottleKeeps,
     AddDelSaveResponseEnableKeeps, LockedKeeps, AskSaveResponseKeeps, ScanQuiet, IdleKeeps,
     UseAnswerKeeps, ReplyKeeps DEF ServerStep
<1>4. CASE UNCHANGED pipelineVars
  BY <1>4, IdleKeeps DEF pipelineVars, switchVars
<1> QED BY <1>1, <1>2, <1>3, <1>4 DEF PipelineNext

LEMMA PipelineInvariant == PipelineSpec => []PipelineInv
<1> QED BY PipelineInvInit, PipelineInvStep, PTL DEF PipelineSpec

\* What a step of a call does to the switches.
LEMMA SwitchStep == PipelineInv /\ [PipelineNext]_pipelineVars => [SwitchNext]_switchVars
<1> SUFFICES ASSUME PipelineInv, [PipelineNext]_pipelineVars PROVE [SwitchNext]_switchVars
  OBVIOUS
<1>1. ASSUME NEW c \in Caller, IsCommand(c) PROVE call[c].command.about \in Method
  BY <1>1, Facts DEF IsCommand, PlaceFine
<1>2. ASSUME NEW c \in Caller, Invoke(c) \/ Order(c) \/ ClientStep(c) PROVE UNCHANGED switchVars
  BY <1>2 DEF Invoke, Order, Begins, ClientStep, SetTraceIdHeader, AddHeader, Send, Deadline
<1>3. ASSUME NEW c \in Caller, Intercept(c) \/ HandlerThrows(c) \/ Reply(c)
      PROVE  UNCHANGED switchVars
  BY <1>3 DEF Intercept, HandlerThrows, Reply
<1>4. ASSUME NEW c \in Caller, AddDelThrottle(c) PROVE SwitchNext
  BY <1>1, <1>4 DEF AddDelThrottle, SwitchNext, Command
<1>5. ASSUME NEW c \in Caller, AddDelSaveResponseEnable(c) PROVE SwitchNext
  BY <1>1, <1>5 DEF AddDelSaveResponseEnable, SwitchNext, Command
<1>6. ASSUME NEW c \in Caller, Locked(c) PROVE SwitchNext
  BY <1>6 DEF Locked, SwitchNext
<1>7. ASSUME NEW c \in Caller, AskSaveResponse(c) PROVE SwitchNext \/ UNCHANGED switchVars
  BY <1>7, Facts DEF AskSaveResponse, SwitchNext
<1>8. ASSUME NEW c \in Caller, Scan(c) \/ UseAnswer(c) PROVE SwitchNext
  BY <1>8 DEF Scan, UseAnswer, SwitchNext, ScanStep
<1>9. CASE UNCHANGED pipelineVars
  BY <1>9 DEF pipelineVars
<1> QED BY <1>2, <1>3, <1>4, <1>5, <1>6, <1>7, <1>8, <1>9 DEF PipelineNext, ServerStep

\* The calls implement the switches: a switch moves only by a command that has
\* got to its handler, in steps that MethodSwitches knows.
THEOREM CallsMoveSwitches == PipelineSpec => SwitchSpec
<1>1. PipelineInit => SwitchInit
  BY DEF PipelineInit
<1>2. PipelineInv /\ [PipelineNext]_pipelineVars => [SwitchNext]_switchVars
  BY SwitchStep
<1> QED BY <1>1, <1>2, PipelineInvariant, PTL DEF PipelineSpec, SwitchSpec

\* Calls, switches and histories have their types.
THEOREM PipelineTyped == PipelineSpec => []PipelineTypeOK
<1>1. PipelineInv /\ SwitchTypeOK => PipelineTypeOK
  BY DEF PipelineInv, CallersOK, HistoryOK, PipelineTypeOK, Client, Server, Outcome
<1> QED BY <1>1, PipelineInvariant, CallsMoveSwitches, SwitchesTyped, PTL

\* The commands that calls carry leave the list as they asked for it, each
\* method once, whenever MonitorManager's lock is free.
THEOREM CallsLeaveListInOrder == PipelineSpec => []LastCommandWins
<1> QED BY CallsMoveSwitches, ListIsAsCommanded, PTL

\* The check that MonitorInterceptor makes of a call's method goes wrong only
\* when a command of another call overlaps with it.
THEOREM CallsCheckSoundly == PipelineSpec => []CheckSound
<1> QED BY CallsMoveSwitches, ChecksAreSound, PTL

\* After a throttling was acknowledged no handler runs for a call of the method,
\* other than through MethodInvoke, until an unthrottling is carried out,
\* whenever that was ordered and whether its client still waits or not.
THEOREM ThrottlingHolds == PipelineSpec => []ThrottleObeyed
<1>1. PipelineInv => ThrottleObeyed
  BY DEF PipelineInv, ThrottleInv
<1> QED BY <1>1, PipelineInvariant, PTL

\* A handler's unary call carries the identifier of the call it serves, and
\* calls of the program have one each.
THEOREM TracesFollow == PipelineSpec => []TraceFollows
<1>1. PipelineInv => TraceFollows
  <2> SUFFICES ASSUME PipelineInv, NEW c \in Caller, Own(c)
               PROVE  IF call[c].parent # NoCaller
                        THEN Idle(call[c].parent) \/ trace[c] = trace[call[c].parent]
                        ELSE \A d \in Caller \ {c} :
                               Own(d) /\ call[d].parent = NoCaller => trace[d] # trace[c]
    BY DEF TraceFollows
  <2>1. CASE call[c].parent # NoCaller
    BY <2>1, Facts DEF PipelineInv, KinInv, KinFine, Own, Idle, Nobody
  <2>2. \A d \in Caller : Own(d) /\ call[d].parent = NoCaller =>
          trace[d] = call[d].number /\ trace[d] > 0
    BY Facts DEF Own, PlaceFine
  <2>3. CASE call[c].parent = NoCaller
    BY <2>2, <2>3 DEF PipelineInv, NumbersInv
  <2> QED BY <2>1, <2>3
<1> QED BY <1>1, PipelineInvariant, PTL

\* Once AddDelThrottle itself is throttled, and no call is in its handler, it
\* stays throttled.
THEOREM ThrottlingLocksOut == PipelineSpec => LockedOut
<1>1. PipelineInv /\ [PipelineNext]_pipelineVars =>
        [ThrottlesThrottling => ThrottlesThrottling']_pipelineVars
  <2> SUFFICES ASSUME PipelineInv, PipelineNext, ThrottlesThrottling PROVE ThrottlesThrottling'
    OBVIOUS
  <2>0. CallersOK
    BY DEF PipelineInv
  <2>1. PICK c \in Caller : Invoke(c) \/ Order(c) \/ ClientStep(c) \/ ServerStep(c)
    BY DEF PipelineNext
  <2>2. ThrottleCmd \in throttled /\ \A d \in Caller : server[d] = "handler" => call[d].method # ThrottleCmd
    BY DEF ThrottlesThrottling
  <2> SUFFICES ThrottleCmd \in throttled' /\ \A d \in Caller : server'[d] = "handler" => call'[d].method # ThrottleCmd
    BY DEF ThrottlesThrottling
  <2>3. CASE Invoke(c) \/ Order(c)
    <3>1. PICK new : Begins(c, new)
      BY <2>3 DEF Invoke, Order
    <3>2. \A d \in Caller : d # c => call'[d] = call[d]
      BY <2>0, <3>1 DEF Begins, CallersOK
    <3>3. server[c] = "none" /\ server' = server /\ throttled' = throttled
      BY <3>1 DEF Begins, Idle, switchVars
    <3> QED BY <2>2, <3>2, <3>3
  <2>4. CASE SetTraceIdHeader(c) \/ AddHeader(c) \/ Deadline(c)
    <3>1. call' = call /\ throttled' = throttled
      BY <2>4 DEF SetTraceIdHeader, AddHeader, Deadline, switchVars
    <3>2. \A d \in Caller : server'[d] \in {server[d], "arrived"}
      BY <2>0, <2>4 DEF SetTraceIdHeader, AddHeader, Deadline, CallersOK
    <3> QED BY <2>2, <3>1, <3>2
  <2>5. CASE Send(c)
    <3>1. server[c] = "none" /\ throttled' = throttled
      BY <2>5, Facts DEF Send, PlaceFine, switchVars
    <3>2. \A d \in Caller : d # c => call'[d] = call[d] /\ server'[d] = server[d]
      BY <2>0, <2>5 DEF Send, Ends, CallersOK
    <3>3. server'[c] # "handler"
      BY <2>0, <2>5, <3>1 DEF Send, CallersOK
    <3> QED BY <2>2, <3>1, <3>2, <3>3
  <2>6. CASE Intercept(c)
    <3>1. call' = call /\ throttled' = throttled
      BY <2>6 DEF Intercept, switchVars
    <3>2. \A d \in Caller : d # c => server'[d] = server[d]
      BY <2>0, <2>6 DEF Intercept, Goto, CallersOK
    <3>3. call[c].method \in throttled => server'[c] # "handler"
      BY <2>0, <2>6 DEF Intercept, IsThrottled, Goto, CallersOK
    <3> QED BY <2>2, <3>1, <3>2, <3>3
  <2>7. CASE AddDelThrottle(c)
    BY <2>2, <2>7 DEF AddDelThrottle
  <2>8. CASE HandlerThrows(c) \/ AddDelSaveResponseEnable(c) \/ Locked(c) \/ AskSaveResponse(c)
             \/ UseAnswer(c)
    <3>1. call' = call
      BY <2>8 DEF HandlerThrows, AddDelSaveResponseEnable, Locked, AskSaveResponse, UseAnswer
    <3>2. throttled' = throttled
      BY <2>8, InLockQuiet
         DEF HandlerThrows, AddDelSaveResponseEnable, DelSaveResponseMethod,
             AddSaveResponseMethod, Locked, AskSaveResponse, SaveResponseMethodEnable, ScanFrom,
             UseAnswer, Forget, switchVars
    <3>3. \A d \in Caller : server'[d] \in {server[d], "locked", "returned", "scan", "reply"}
      BY <2>0, <2>8
         DEF HandlerThrows, AddDelSaveResponseEnable, Locked, AskSaveResponse, UseAnswer, Goto,
             CallersOK
    <3> QED BY <2>2, <3>1, <3>2, <3>3
  <2>9. CASE Scan(c)
    BY <2>2, <2>9, ScanQuiet DEF callVars
  <2>10. CASE Reply(c)
    <3>1. throttled' = throttled
      BY <2>10 DEF Reply, switchVars
    <3>2. \A d \in Caller : d # c => call'[d] = call[d] /\ server'[d] = server[d]
      BY <2>0, <2>10 DEF Reply, Goto, Ends, CallersOK
    <3>3. server'[c] = "none"
      BY <2>0, <2>10 DEF Reply, Goto, CallersOK
    <3> QED BY <2>2, <3>1, <3>2, <3>3
  <2> QED BY <2>1, <2>3, <2>4, <2>5, <2>6, <2>7, <2>8, <2>9, <2>10 DEF ClientStep, ServerStep
<1> QED BY <1>1, PipelineInvariant, PTL DEF PipelineSpec, LockedOut
=============================================================================
