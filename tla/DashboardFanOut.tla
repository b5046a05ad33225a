--------------------------- MODULE DashboardFanOut ---------------------------
(***************************************************************************)
(* The dashboard's operations on all instances of one service: GrpcService *)
(* .Throttle (SaveResponse is the same code with the other switch) and     *)
(* ConsulService.UnRegService.  A switch is sent to the instances that     *)
(* Consul lists as passing, one after the other, each with a deadline that *)
(* the instance may miss and still carry the command out.  Instances keep  *)
(* their switches in memory, crash and start again; each start registers   *)
(* under an identifier of its own (a new Guid) at the same address.        *)
(***************************************************************************)
EXTENDS Naturals

CONSTANTS
  Instance,    \* addresses of the service
  Dashboard,   \* requests the dashboard serves at a time
  Method,      \* methods a switch may be about
  ThrottleCmd, \* AddDelThrottle, by which the switches are sent
  MaxOps,      \* bound on operations
  MaxStarts    \* bound on starts of instances

ASSUME ThrottleCmdAssumption == ThrottleCmd \in Method
ASSUME BoundsAssumption == MaxOps \in Nat /\ MaxStarts \in Nat

VARIABLES
  running,    \* instances whose process runs
  life,       \* starts of each instance
  starts,     \* starts so far
  throttled,  \* the switches in each instance's memory
  registered, \* registrations Consul holds
  passing,    \* those whose check passes
  op,         \* what each dashboard request does
  ops,        \* operations so far
  commands,   \* commands sent, until they are answered or lost
  ran,        \* history: who has carried out a command of an operation
  steady      \* history: who has run, and carried out no command of another
              \* operation, since the last operation began

instances == <<running, life, starts, throttled>>
consul == <<registered, passing>>
vars == <<instances, consul, op, ops, commands, ran, steady>>

Life == 0 .. MaxStarts
Registration == Instance \X Life
Address(r) == r[1]

Operation ==
  [at : {"ask", "loop", "waiting", "done"}, unregister : BOOLEAN,
   method : Method, on : BOOLEAN, number : 0 .. MaxOps,
   list : SUBSET Registration, todo : SUBSET Registration,
   to : SUBSET Registration, result : BOOLEAN]

Cmd ==
  [by : Dashboard, number : 1 .. MaxOps, to : Registration, method : Method, on : BOOLEAN,
   answer : {"none", "ok", "error"}]

OpsOK ==
  /\ op \in [Dashboard -> Operation]
  /\ \A d \in Dashboard : op[d].to = {} <=> op[d].at # "waiting"
  /\ \A d \in Dashboard : op[d].number = 0 => op[d].at = "done"

TypeOK ==
  /\ running \subseteq Instance
  /\ starts \in Life /\ life \in [Instance -> 0 .. starts]
  /\ throttled \in [Instance -> SUBSET Method]
  /\ passing \subseteq registered /\ registered \subseteq Registration
  /\ OpsOK
  /\ ops \in 0 .. MaxOps
  /\ commands \subseteq Cmd
  /\ ran \subseteq (1 .. MaxOps) \X Registration
  /\ steady \subseteq Instance

NoOp ==
  [at |-> "done", unregister |-> FALSE, method |-> ThrottleCmd, on |-> FALSE,
   number |-> 0, list |-> {}, todo |-> {}, to |-> {}, result |-> FALSE]

Init ==
  /\ running = Instance
  /\ life = [i \in Instance |-> 0] /\ starts = 0
  /\ throttled = [i \in Instance |-> {}]
  /\ registered = {<<i, 0>> : i \in Instance} /\ passing = registered
  /\ op = [d \in Dashboard |-> NoOp] /\ ops = 0
  /\ commands = {}
  /\ ran = {} /\ steady = {}

Own(i) == <<i, life[i]>>

-----------------------------------------------------------------------------
\* The instances and Consul.
Crash(i) ==
  /\ i \in running
  /\ running' = running \ {i}
  /\ throttled' = [throttled EXCEPT ![i] = {}]
  /\ commands' = {c \in commands : Address(c.to) # i}
  /\ steady' = steady \ {i}
  /\ UNCHANGED <<life, starts, consul, op, ops, ran>>

Start(i) ==
  /\ i \notin running /\ starts < MaxStarts
  /\ running' = running \union {i}
  /\ starts' = starts + 1
  /\ life' = [life EXCEPT ![i] = @ + 1]
  /\ UNCHANGED <<throttled, consul, op, ops, commands, ran, steady>>

\* What RegisterService and DoTTL may bring about; ConsulRegister has how.  A
\* heartbeat that achieves nothing is no step here, one that ends the process
\* is a Crash, and none need ever come.
Beat(i) ==
  /\ i \in running /\ Own(i) \notin passing
  /\ registered' = registered \union {Own(i)}
  /\ passing' = passing \union {Own(i)}
  /\ UNCHANGED <<instances, op, ops, commands, ran, steady>>

\* The TTL passes without a heartbeat: of a process that is gone, or a late one.
Lapse(r) ==
  /\ r \in passing
  /\ passing' = passing \ {r}
  /\ UNCHANGED <<instances, registered, op, ops, commands, ran, steady>>

\* DeregisterCriticalServiceAfter.
Reap(r) ==
  /\ r \in registered \ passing
  /\ registered' = registered \ {r}
  /\ UNCHANGED <<instances, passing, op, ops, commands, ran, steady>>

\* The command goes through the throttle of the instance it is sent to.
CarryOut(c) ==
  LET i == Address(c.to)
  IN throttled' = [throttled EXCEPT ![i] =
                     IF ThrottleCmd \in @ THEN @
                     ELSE IF c.on THEN @ \union {c.method} ELSE @ \ {c.method}]

Answer(c) == IF ThrottleCmd \in throttled[Address(c.to)] THEN "error" ELSE "ok"

Awaited(c) == op[c.by].number = c.number /\ op[c.by].to = {c.to}

\* An instance that another operation's command has changed is not steady: one
\* sent before and given up, or one of an operation at the same time.
Touches(c) ==
  steady' = IF c.number = ops \/ Answer(c) = "error" THEN steady ELSE steady \ {Address(c.to)}

\* Mutant of Execute: the handler does not await what it starts.
ExecuteAfterAnswer(c) ==
  /\ c \in commands /\ c.answer = "none"
  /\ LET answered == [c EXCEPT !.answer = Answer(c)]
     IN IF Awaited(c) /\ answered \notin commands
          THEN commands' = commands \union {answered} /\ UNCHANGED throttled
          ELSE commands' = commands \ {c} /\ CarryOut(c)
  /\ ran' = ran \union {<<c.number, Own(Address(c.to))>>}
  /\ Touches(c)
  /\ UNCHANGED <<running, life, starts, consul, op, ops>>

\* The answer to a request that has given up goes nowhere.
Execute(c) ==
  /\ c \in commands /\ c.answer = "none"
  /\ CarryOut(c)
  /\ ran' = IF Answer(c) = "ok" /\ op[c.by].number = c.number
             THEN ran \union {<<c.number, Own(Address(c.to))>>} ELSE ran
  /\ commands' = (commands \ {c}) \union
                   IF Awaited(c) THEN {[c EXCEPT !.answer = Answer(c)]} ELSE {}
  /\ Touches(c)
  /\ UNCHANGED <<running, life, starts, consul, op, ops>>

\* The deadline may also cancel the command on the way.
Cancel(c) ==
  /\ c \in commands /\ c.answer = "none" /\ ~Awaited(c)
  /\ commands' = commands \ {c}
  /\ UNCHANGED <<instances, consul, op, ops, ran, steady>>

-----------------------------------------------------------------------------
\* The dashboard.
Becomes(d, next) == op' = [op EXCEPT ![d] = next]

Idle(d) == op[d].at = "done"

\* What is kept of an operation: the claim of a switch that succeeded.
Finish(d) ==
  IF op[d].result /\ ~op[d].unregister
    THEN Becomes(d, [op[d] EXCEPT !.at = "done"]) /\ UNCHANGED ran
    ELSE Becomes(d, NoOp) /\ ran' = {e \in ran : e[1] # op[d].number}

\* A request: Throttle, or UnRegService.
Begin(d) ==
  /\ Idle(d) /\ ops < MaxOps
  /\ ops' = ops + 1
  /\ ran' = {e \in ran : e[1] # op[d].number}
  /\ \/ \E m \in Method, b \in BOOLEAN :
          /\ Becomes(d, [NoOp EXCEPT !.at = "ask", !.number = ops + 1, !.method = m, !.on = b])
          /\ steady' = running
     \/ /\ Becomes(d, [NoOp EXCEPT !.at = "ask", !.number = ops + 1, !.unregister = TRUE])
        /\ steady' = {}
  /\ UNCHANGED <<instances, consul, commands>>

\* GetService asks for the passing registrations, UnRegService for all.  No
\* answer, or an empty one, ends the operation without success.
Ask(d) ==
  /\ op[d].at = "ask"
  /\ LET list == IF op[d].unregister THEN registered ELSE passing
     IN IF list = {} THEN Finish(d)
        ELSE /\ Becomes(d, [op[d] EXCEPT !.at = "loop", !.list = list, !.todo = list,
                                        !.result = TRUE])
             /\ UNCHANGED ran
  /\ UNCHANGED <<instances, consul, ops, commands, steady>>

AskFails(d) ==
  /\ op[d].at = "ask"
  /\ Finish(d)
  /\ UNCHANGED <<instances, consul, ops, commands, steady>>

\* The order is Consul's: any.  Nothing gets to an address where no one listens.
Send(d) ==
  /\ op[d].at = "loop" /\ ~op[d].unregister
  /\ \E r \in op[d].todo :
       /\ Becomes(d, [op[d] EXCEPT !.at = "waiting", !.to = {r}, !.todo = @ \ {r}])
       /\ commands' = IF Address(r) \in running
                        THEN commands \union
                               {[by |-> d, number |-> op[d].number, to |-> r,
                                 method |-> op[d].method, on |-> op[d].on, answer |-> "none"]}
                        ELSE commands
  /\ UNCHANGED <<instances, consul, ops, ran, steady>>

Answered(d) ==
  {c \in commands : c.by = d /\ c.number = op[d].number /\ {c.to} = op[d].to /\ c.answer # "none"}

\* Mutant of Receive: the last answer decides.
ReceiveLast(d) ==
  /\ op[d].at = "waiting"
  /\ \E c \in Answered(d) :
       /\ Becomes(d, [op[d] EXCEPT !.at = "loop", !.to = {}, !.result = c.answer = "ok"])
       /\ commands' = commands \ {c}
  /\ UNCHANGED <<instances, consul, ops, ran, steady>>

Receive(d) ==
  /\ op[d].at = "waiting"
  /\ \E c \in Answered(d) :
       /\ Becomes(d, [op[d] EXCEPT !.at = "loop", !.to = {}, !.result = @ /\ c.answer = "ok"])
       /\ commands' = commands \ {c}
  /\ UNCHANGED <<instances, consul, ops, ran, steady>>

\* Mutant of Fail: only a lost connection, no deadline.
FailDisconnected(d) ==
  /\ op[d].at = "waiting"
  /\ \A r \in op[d].to : Address(r) \notin running
  /\ Becomes(d, [op[d] EXCEPT !.at = "loop", !.to = {}, !.result = FALSE])
  /\ UNCHANGED <<instances, consul, ops, commands, ran, steady>>

\* The deadline, or no connection; the command may be on its way still.
Fail(d) ==
  /\ op[d].at = "waiting"
  /\ Becomes(d, [op[d] EXCEPT !.at = "loop", !.to = {}, !.result = FALSE])
  /\ commands' = commands \ Answered(d)
  /\ UNCHANGED <<instances, consul, ops, ran, steady>>

\* Mutant of Deregister: the service's check stays.
DeregisterServiceOnly(d) ==
  /\ op[d].at = "loop" /\ op[d].unregister
  /\ \E r \in op[d].todo :
       /\ Becomes(d, [op[d] EXCEPT !.todo = @ \ {r}])
       /\ registered' = registered \ {r}
  /\ UNCHANGED <<instances, passing, ops, commands, ran, steady>>

\* An exception of ServiceDeregister leaves the rest as they are.
Deregister(d) ==
  /\ op[d].at = "loop" /\ op[d].unregister
  /\ \E r \in op[d].todo :
       \/ /\ Becomes(d, [op[d] EXCEPT !.todo = @ \ {r}])
          /\ registered' = registered \ {r} /\ passing' = passing \ {r}
          /\ UNCHANGED ran
       \/ Finish(d) /\ UNCHANGED consul
  /\ UNCHANGED <<instances, ops, commands, steady>>

End(d) ==
  /\ op[d].at = "loop" /\ op[d].todo = {}
  /\ Finish(d)
  /\ UNCHANGED <<instances, consul, ops, commands, steady>>

-----------------------------------------------------------------------------
DashboardStep(d) ==
  Ask(d) \/ AskFails(d) \/ Send(d) \/ Receive(d) \/ Fail(d) \/ Deregister(d) \/ End(d)

Next ==
  \/ \E i \in Instance : Crash(i) \/ Start(i) \/ Beat(i)
  \/ \E r \in Registration : Lapse(r) \/ Reap(r)
  \/ \E c \in commands : Execute(c) \/ Cancel(c)
  \/ \E d \in Dashboard : Begin(d) \/ DashboardStep(d)

\* Queries, calls and their deadlines end.  No instance need ever answer.
Fairness == \A d \in Dashboard : WF_vars(DashboardStep(d))

Spec == Init /\ [][Next]_vars /\ Fairness
-----------------------------------------------------------------------------
Switched(d) == Idle(d) /\ op[d].number > 0 /\ ~op[d].unregister /\ op[d].result

\* A switch reported as done was carried out by every instance of the list the
\* operation worked on, whoever crashed, locked itself or answered too late.
SuccessMeansAll ==
  \A d \in Dashboard : Switched(d) =>
    /\ op[d].list # {}
    /\ \A r \in op[d].list :
         \E l \in Life : <<op[d].number, <<Address(r), l>>>> \in ran

\* And it stays that way on all of them until another operation begins: on an
\* instance that has run all the while only another operation's command undoes
\* it, and that one when it is carried out, be it one that was given up before
\* the switch was sent.
Agreement ==
  \A d \in Dashboard : Switched(d) /\ op[d].number = ops =>
    \A r \in op[d].list : Address(r) \in steady =>
      (op[d].method \in throttled[Address(r)] <=> op[d].on)

\* An operation ends although instances never answer.
OperationEnds == \A d \in Dashboard : ~Idle(d) ~> Idle(d)

\* The operation has ended, has its list, has one registration fewer to do, or
\* has done with the one it waited for.
Closer(d) ==
  \/ Idle(d)'
  \/ op[d].at = "ask" /\ op'[d].at = "loop"
  \/ op[d].at # "ask" /\ op'[d].at \in {"loop", "waiting"} /\ op'[d].todo \subseteq op[d].todo
     /\ (op'[d].todo = op[d].todo => op[d].at = "waiting" /\ op'[d].at = "loop")

\* Each step of an operation brings it closer to its end, whatever Consul and
\* the instances do, and nobody else's step changes how far it is: it asks
\* once and tries each registration once, those that come back or time out too.
OperationsAdvance ==
  [][\A d \in Dashboard : ~Idle(d) =>
       IF DashboardStep(d) THEN Closer(d) ELSE op'[d] = op[d]]_vars
=============================================================================
