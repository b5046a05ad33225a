---------------------------- MODULE CallPipeline ----------------------------
(***************************************************************************)
(* Calls through the client's interceptors (ClientCallTimeout,             *)
(* ClientMonitorInterceptor) and the server's (MonitorInterceptor,         *)
(* ThrottleInterceptor) to a handler, which may make a call itself.  The   *)
(* commands of CmdService are calls like any other: they go through the    *)
(* same interceptors and then move the switches of MethodSwitches, which   *)
(* the interceptors of other calls read meanwhile.                         *)
(***************************************************************************)
EXTENDS MethodSwitches

CONSTANTS
  ThrottleCmd, \* the method AddDelThrottle
  SaveCmd,     \* the method AddDelSaveResponseEnable
  MetaInvoke,  \* the method MethodInvoke of the meta service
  Target,      \* methods the commands are about
  NoCaller,    \* the caller of a call that no handler makes
  MaxCalls     \* bound on calls

ASSUME CommandsAssumption == {ThrottleCmd, SaveCmd} \subseteq Method /\ ThrottleCmd # SaveCmd
ASSUME MetaAssumption == MetaInvoke \in Method \ {ThrottleCmd, SaveCmd}
ASSUME TargetAssumption == Target \subseteq Method
ASSUME NoCallerAssumption == NoCaller \notin Caller
ASSUME MaxCallsAssumption == MaxCalls \in Nat

VARIABLES
  call,     \* what each caller has called
  client,   \* how far its client is
  server,   \* how far its server is
  outcome,  \* what the server will answer
  trace,    \* the call's trace identifier, 0 before it has one
  shared,   \* trace identifiers in a Metadata that calls use again
  calls,    \* calls so far
  settled,  \* history: methods whose throttling is acknowledged and stands
  firm,     \* history: throttling commands carried out and not undone since
  refuse    \* history: calls made while the throttling of what they run stands

callVars == <<call, client, server, outcome, trace, shared, calls, settled, firm, refuse>>
pipelineVars == <<switchVars, callVars>>

NoCommand == [del |-> FALSE, about |-> NoMethod]

Call ==
  [method : Method, runs : Method, unary : BOOLEAN, header : {"none", "shared"},
   parent : Caller \union {NoCaller}, command : [del : BOOLEAN, about : Target \union {NoMethod}],
   number : 0 .. MaxCalls]

PipelineTypeOK ==
  /\ SwitchTypeOK
  /\ call \in [Caller -> Call]
  /\ client \in [Caller -> {"header", "add", "send", "waiting", "done"}]
  /\ server \in [Caller -> {"none", "arrived", "handler", "locked", "returned",
                            "scan", "reply"}]
  /\ outcome \in [Caller -> {"none", "ok", "error"}]
  /\ trace \in [Caller -> 0 .. MaxCalls]
  /\ shared \in Seq(1 .. MaxCalls)
  /\ calls \in 0 .. MaxCalls
  /\ settled \in SUBSET Method
  /\ firm \in SUBSET Caller /\ refuse \in SUBSET Caller

\* A caller between two calls.
NoCall ==
  [method |-> ThrottleCmd, runs |-> ThrottleCmd, unary |-> TRUE, header |-> "none",
   parent |-> NoCaller, command |-> NoCommand, number |-> 0]

PipelineInit ==
  /\ SwitchInit
  /\ call = [c \in Caller |-> NoCall]
  /\ client = [c \in Caller |-> "done"] /\ server = [c \in Caller |-> "none"]
  /\ outcome = [c \in Caller |-> "none"]
  /\ trace = [c \in Caller |-> 0]
  /\ shared = <<>>
  /\ calls = 0
  /\ settled = {} /\ firm = {} /\ refuse = {}

IsCommand(c) == call[c].command # NoCommand

Idle(c) == client[c] = "done" /\ server[c] = "none"

\* A handler waits for the unary calls it makes: the interceptor blocks for the
\* result even of an AsyncUnaryCall.  A streaming call may outlive it.
Waits(c) == \E n \in Caller : call[n].parent = c /\ call[n].unary /\ client[n] # "done"

\* The methods whose handler a call of m may run.  MethodInvoke runs that of a
\* business method in its own handler, past the method's interceptors, or none
\* when it finds no such method; the base services are not to be found there.
Handlers(m) == IF m = MetaInvoke THEN Method \ {ThrottleCmd, SaveCmd} ELSE {m}

-----------------------------------------------------------------------------
\* The client.
Begins(c, new) ==
  /\ Idle(c) /\ calls < MaxCalls
  /\ \A n \in Caller : call[n].parent = c => Idle(n)
  /\ calls' = calls + 1
  /\ call' = [call EXCEPT ![c] = [new EXCEPT !.number = calls + 1]]
  /\ client' = [client EXCEPT ![c] = IF new.unary THEN "header" ELSE "send"]
  /\ UNCHANGED <<switchVars, server, outcome, trace, shared>>

\* The call is made while what it runs is throttled for good.
Made(c, m) == refuse' = IF m \in settled THEN refuse \union {c} ELSE refuse

\* A call of the program or of a handler.
Invoke(c) ==
  \E m \in Method \ {ThrottleCmd, SaveCmd}, u \in BOOLEAN, h \in {"none", "shared"},
     p \in Caller \union {NoCaller} : \E r \in Handlers(m) :
    /\ p # NoCaller => p # c /\ server[p] = "handler" /\ ~IsCommand(p)
    /\ m = MetaInvoke => u
    /\ Begins(c, [NoCall EXCEPT !.method = m, !.runs = r, !.unary = u, !.header = h,
                                !.parent = p])
    /\ Made(c, r)
    /\ UNCHANGED <<settled, firm>>

\* A command, by the dashboard for one.
Order(c) ==
  \E m \in {ThrottleCmd, SaveCmd}, d \in BOOLEAN, t \in Target :
    /\ Begins(c, [NoCall EXCEPT !.method = m, !.runs = m, !.command = [del |-> d, about |-> t]])
    /\ Made(c, m)
    /\ UNCHANGED <<settled, firm>>

\* Mutant of ServerCurrent: one static for all flows.
ServerCurrentStatic(c) ==
  LET busy == {p \in Caller \ {c} : server[p] = "handler"}
  IN IF busy = {} THEN 0 ELSE trace[CHOOSE p \in busy : TRUE]

\* ServerCallContextAccessor.Current flows with the handler's own calls.
ServerCurrent(c) == IF call[c].parent = NoCaller THEN 0 ELSE trace[call[c].parent]

\* SetTraceIdHeader: a header that is there is kept, else the server's is
\* passed on, else there is a new identifier.
SetTraceIdHeader(c) ==
  /\ client[c] = "header"
  /\ IF call[c].header = "shared" /\ shared # <<>>
       THEN UNCHANGED trace
       ELSE trace' = [trace EXCEPT ![c] =
                        IF ServerCurrent(c) # 0 THEN ServerCurrent(c) ELSE call[c].number]
  /\ client' = [client EXCEPT ![c] =
                  IF call[c].header = "none" THEN "waiting"
                  ELSE IF shared = <<>> THEN "add" ELSE "send"]
  /\ server' = [server EXCEPT ![c] = IF call[c].header = "none" THEN "arrived" ELSE @]
  /\ UNCHANGED <<switchVars, call, outcome, shared, calls, settled, firm, refuse>>

AddHeader(c) ==
  /\ client[c] = "add"
  /\ shared' = Append(shared, trace[c])
  /\ client' = [client EXCEPT ![c] = "send"]
  /\ UNCHANGED <<switchVars, call, server, outcome, trace, calls, settled, firm, refuse>>

Ends(c) ==
  /\ call' = [call EXCEPT ![c] = NoCall]
  /\ client' = [client EXCEPT ![c] = "done"]
  /\ outcome' = [outcome EXCEPT ![c] = "none"]
  /\ trace' = [trace EXCEPT ![c] = 0]
  /\ firm' = firm \ {c} /\ refuse' = refuse \ {c}

\* The interceptor's own ToDictionary throws for a header that is there twice;
\* a stream goes past it.  The server takes the first of its headers.
Send(c) ==
  /\ client[c] = "send"
  /\ IF call[c].header = "shared" /\ call[c].unary /\ Len(shared) > 1
       THEN Ends(c) /\ UNCHANGED server
       ELSE /\ client' = [client EXCEPT ![c] = "waiting"]
            /\ server' = [server EXCEPT ![c] =
                            IF call[c].header = "shared" /\ Len(shared) > 1
                              THEN "reply" ELSE "arrived"]
            /\ trace' = [trace EXCEPT ![c] =
                           IF call[c].header = "shared" /\ shared # <<>> THEN shared[1] ELSE @]
            /\ UNCHANGED <<call, outcome, firm, refuse>>
  /\ UNCHANGED <<switchVars, shared, calls, settled>>

\* A unary call has a deadline; the server is not told.
Deadline(c) ==
  /\ call[c].unary /\ client[c] = "waiting"
  /\ client' = [client EXCEPT ![c] = "done"]
  /\ UNCHANGED <<switchVars, call, server, outcome, trace, shared, calls, settled, firm, refuse>>

-----------------------------------------------------------------------------
\* The server.
Goto(c, place) == server' = [server EXCEPT ![c] = place]

\* Mutant of IsThrottled: the base services are exempt.
IsThrottledUnlessBase(m) == m \in throttled \ {ThrottleCmd, SaveCmd}

IsThrottled(m) == m \in throttled

\* MonitorInterceptor gives a call without a trace identifier a new one, then
\* ThrottleInterceptor lets it pass or not.
Intercept(c) ==
  /\ server[c] = "arrived"
  /\ trace' = [trace EXCEPT ![c] = IF @ = 0 THEN call[c].number ELSE @]
  /\ IF IsThrottled(call[c].method)
       THEN outcome' = [outcome EXCEPT ![c] = "error"] /\ Goto(c, "reply")
       ELSE Goto(c, "handler") /\ UNCHANGED outcome
  /\ UNCHANGED <<switchVars, call, client, shared, calls, settled, firm, refuse>>

HandlerThrows(c) ==
  /\ server[c] = "handler" /\ ~IsCommand(c) /\ ~Waits(c)
  /\ outcome' = [outcome EXCEPT ![c] = "error"] /\ Goto(c, "reply")
  /\ UNCHANGED <<switchVars, call, client, trace, shared, calls, settled, firm, refuse>>

\* Whoever ordered an unthrottling, and whether its client still waits or not,
\* it ends every throttling of the method carried out before it.
AddDelThrottle(c) ==
  /\ server[c] = "handler" /\ IsCommand(c) /\ call[c].method = ThrottleCmd
  /\ LET t == call[c].command.about
     IN IF call[c].command.del
          THEN /\ Unthrottle(t)
               /\ settled' = settled \ {t}
               /\ firm' = {x \in firm : call[x].command.about # t}
               /\ refuse' = {x \in refuse : call[x].runs # t}
          ELSE Throttle(t) /\ firm' = firm \union {c} /\ UNCHANGED <<settled, refuse>>
  /\ Goto(c, "returned")
  /\ UNCHANGED <<call, client, outcome, trace, shared, calls>>

AddDelSaveResponseEnable(c) ==
  /\ server[c] = "handler" /\ IsCommand(c) /\ call[c].method = SaveCmd
  /\ IF call[c].command.del
       THEN DelSaveResponseMethod(call[c].command.about)
       ELSE AddSaveResponseMethod(call[c].command.about)
  /\ Goto(c, "locked")
  /\ UNCHANGED <<call, client, outcome, trace, shared, calls, settled, firm, refuse>>

Locked(c) ==
  /\ server[c] = "locked"
  /\ InLock
  /\ IF Free' THEN Goto(c, "returned") ELSE UNCHANGED server
  /\ UNCHANGED <<call, client, outcome, trace, shared, calls, settled, firm, refuse>>

\* The handler is done; the response of a unary call is logged, or not.
AskSaveResponse(c) ==
  /\ \/ server[c] = "returned"
     \/ server[c] = "handler" /\ ~IsCommand(c) /\ ~Waits(c)
  /\ outcome' = [outcome EXCEPT ![c] = "ok"]
  /\ IF call[c].unary
       THEN SaveResponseMethodEnable(c, call[c].method) /\ Goto(c, "scan")
       ELSE UNCHANGED switchVars /\ Goto(c, "reply")
  /\ UNCHANGED <<call, client, trace, shared, calls, settled, firm, refuse>>

Scan(c) ==
  /\ server[c] = "scan"
  /\ LoadArray(c) \/ LoadSize(c) \/ ReadSlot(c)
  /\ UNCHANGED callVars

\* An exception of the check fails the call, whose handler has succeeded.
UseAnswer(c) ==
  /\ server[c] = "scan" /\ Forget(c)
  /\ outcome' = [outcome EXCEPT ![c] = IF scan[c].at = "throws" THEN "error" ELSE "ok"]
  /\ Goto(c, "reply")
  /\ UNCHANGED <<call, client, trace, shared, calls, settled, firm, refuse>>

\* An answer that comes in time acknowledges a command.
Reply(c) ==
  /\ server[c] = "reply"
  /\ settled' = IF client[c] = "waiting" /\ outcome[c] = "ok" /\ c \in firm
                  THEN settled \union {call[c].command.about} ELSE settled
  /\ Goto(c, "none")
  /\ Ends(c)
  /\ UNCHANGED <<switchVars, shared, calls>>

-----------------------------------------------------------------------------
ClientStep(c) == SetTraceIdHeader(c) \/ AddHeader(c) \/ Send(c) \/ Deadline(c)

ServerStep(c) ==
  \/ Intercept(c) \/ HandlerThrows(c) \/ AddDelThrottle(c)
  \/ AddDelSaveResponseEnable(c) \/ Locked(c) \/ AskSaveResponse(c) \/ Scan(c)
  \/ UseAnswer(c) \/ Reply(c)

PipelineNext ==
  \E c \in Caller :
    Invoke(c) \/ Order(c) \/ ClientStep(c) \/ ServerStep(c)

PipelineSpec == PipelineInit /\ [][PipelineNext]_pipelineVars

-----------------------------------------------------------------------------
\* The handler of a method does not run for a call of it that is made after a
\* throttling of the method was acknowledged, until the server carries out an
\* unthrottling of it.  That one may have been ordered before the throttling
\* was, by a client that has given it up: the server cannot tell.  A call of
\* MethodInvoke runs the handler all the same.
ThrottleObeyed ==
  \A c \in refuse :
    call[c].method = call[c].runs => server[c] \in {"none", "arrived", "reply"}

ThrottlesThrottling ==
  /\ ThrottleCmd \in throttled
  /\ \A c \in Caller : server[c] = "handler" => call[c].method # ThrottleCmd

\* The command that throttles goes through the throttle: once it is throttled
\* itself, and the commands past the interceptor are done, no command gets to
\* its handler again, not the one that would end it either.
LockedOut == [][ThrottlesThrottling => ThrottlesThrottling']_pipelineVars

Own(c) == call[c].unary /\ call[c].header = "none" /\ trace[c] # 0

\* A handler's unary call carries the trace identifier of the handler's own,
\* calls of the program have one each, also when they run at the same time and
\* when other calls share a Metadata.
TraceFollows ==
  \A c \in Caller : Own(c) =>
    IF call[c].parent # NoCaller
      THEN Idle(call[c].parent) \/ trace[c] = trace[call[c].parent]
      ELSE \A d \in Caller \ {c} :
             Own(d) /\ call[d].parent = NoCaller => trace[d] # trace[c]
=============================================================================
