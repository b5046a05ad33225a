------------------------ MODULE DashboardFanOutProofs ------------------------
(***************************************************************************)
(* Proofs about DashboardFanOut for any number of instances, requests and  *)
(* methods, and any bounds on operations and starts.                       *)
(***************************************************************************)
EXTENDS DashboardFanOut, TLAPS

USE ThrottleCmdAssumption, BoundsAssumption

\* Numbers tell operations apart.
NumbersInv ==
  /\ \A d \in Dashboard : op[d].number <= ops
  /\ \A d, e \in Dashboard : op[d].number = op[e].number /\ op[d].number > 0 => d = e
  /\ \A d \in Dashboard : Idle(d) => op[d].todo = {}
  /\ \A d \in Dashboard : op[d].result => op[d].number > 0 /\ op[d].at # "ask"

CarriedOut(n, i) == \E l \in Life : <<n, <<i, l>>>> \in ran

\* The switch of instance i is as the last operation, which is d's, wants it.
Set(d, i) ==
  op[d].number = ops /\ i \in steady => (op[d].method \in throttled[i] <=> op[d].on)

\* A command is one of its operation; an answer tells the truth.
CommandInv(c) ==
  /\ c.number <= ops
  /\ op[c.by].number = c.number =>
       /\ c.method = op[c.by].method /\ c.on = op[c.by].on /\ ~op[c.by].unregister
       /\ c.answer = "ok" => CarriedOut(c.number, Address(c.to)) /\ Set(c.by, Address(c.to))
  /\ \A d \in Dashboard : op[d].number = c.number => d = c.by

\* An operation that has not failed so far has reached all that it has tried.
ClaimInv(d) ==
  op[d].result /\ ~op[d].unregister =>
    /\ op[d].list # {}
    /\ \A r \in op[d].list \ (op[d].todo \union op[d].to) :
         CarriedOut(op[d].number, Address(r)) /\ Set(d, Address(r))

IInv ==
  /\ TypeOK /\ NumbersInv
  /\ \A c \in commands : CommandInv(c)
  /\ \A d \in Dashboard : ClaimInv(d)

-----------------------------------------------------------------------------
\* What the actions do to the operation of the dashboard that takes them.
Fine(x) ==
  /\ x \in Operation
  /\ x.to = {} <=> x.at # "waiting"
  /\ x.number = 0 => x.at = "done"

LEMMA UpdateOps ==
  ASSUME OpsOK, NEW d \in Dashboard, NEW x, Fine(x), Becomes(d, x)
  PROVE  OpsOK' /\ op'[d] = x /\ \A e \in Dashboard \ {d} : op'[e] = op[e]
BY DEF OpsOK, Becomes, Fine

LEMMA OpFine ==
  ASSUME OpsOK, NEW d \in Dashboard
  PROVE  Fine(op[d])
BY DEF OpsOK, Fine

LEMMA FinishOps ==
  ASSUME OpsOK, NEW d \in Dashboard, Finish(d), op[d].at # "waiting"
  PROVE  OpsOK' /\ ran' \subseteq ran
<1>1. CASE op[d].result /\ ~op[d].unregister
  <2> DEFINE x == [op[d] EXCEPT !.at = "done"]
  <2>1. Fine(x)
    BY OpFine DEF Fine, Operation
  <2>2. Becomes(d, x) /\ ran' = ran
    BY <1>1 DEF Finish
  <2> HIDE DEF x
  <2> QED BY <2>1, <2>2, UpdateOps
<1>2. CASE ~(op[d].result /\ ~op[d].unregister)
  <2>1. Becomes(d, NoOp) /\ ran' \subseteq ran
    BY <1>2 DEF Finish
  <2>2. Fine(NoOp)
    BY DEF NoOp, Operation, Fine
  <2> QED BY <2>1, <2>2, UpdateOps
<1> QED BY <1>1, <1>2

LEMMA BeginOps ==
  ASSUME TypeOK, NEW d \in Dashboard, Begin(d)
  PROVE  \E x : /\ Becomes(d, x) /\ Fine(x)
                /\ x.number = ops + 1 /\ x.at = "ask" /\ ~x.result
                /\ x.todo = {} /\ x.to = {}
<1>1. ops \in 0 .. MaxOps /\ ops < MaxOps
  BY DEF Begin, TypeOK
<1>2. ops + 1 \in 0 .. MaxOps /\ ops + 1 # 0
  BY <1>1
<1> DEFINE Asks(x) == /\ x \in Operation
                      /\ x.number = ops + 1 /\ x.at = "ask" /\ ~x.result
                      /\ x.todo = {} /\ x.to = {}
           throttle(m, b) == [NoOp EXCEPT !.at = "ask", !.number = ops + 1,
                                          !.method = m, !.on = b]
           unregister == [NoOp EXCEPT !.at = "ask", !.number = ops + 1, !.unregister = TRUE]
<1>3. \A m \in Method, b \in BOOLEAN : Asks(throttle(m, b))
  BY <1>2 DEF NoOp, Operation
<1>4. Asks(unregister)
  BY <1>2 DEF NoOp, Operation
<1>5. \/ \E m \in Method, b \in BOOLEAN : Becomes(d, throttle(m, b))
      \/ Becomes(d, unregister)
  BY DEF Begin
<1> HIDE DEF throttle, unregister
<1>6. \E x : Becomes(d, x) /\ Asks(x)
  BY <1>3, <1>4, <1>5
<1> QED BY <1>2, <1>6 DEF Fine

LEMMA BeginType ==
  ASSUME TypeOK, NEW d \in Dashboard, Begin(d)
  PROVE  TypeOK'
<1>1. ops' \in 0 .. MaxOps
  <2>1. ops \in 0 .. MaxOps /\ ops < MaxOps /\ ops' = ops + 1
    BY DEF Begin, TypeOK
  <2> QED BY <2>1
<1>2. ran' \subseteq ran
  BY DEF Begin
<1>3. steady' \subseteq Instance
  BY DEF Begin, TypeOK
<1>4. OpsOK'
  BY BeginOps, UpdateOps DEF TypeOK
<1> QED BY <1>1, <1>2, <1>3, <1>4 DEF Begin, TypeOK, instances, consul

\* The step of an operation is its end or a move to a next state.
Move(d, x) ==
  /\ ~Idle(d) /\ Becomes(d, x) /\ Fine(x)
  /\ x.number = op[d].number /\ x.at # "ask" /\ x.unregister = op[d].unregister
  /\ x.method = op[d].method /\ x.on = op[d].on /\ x.at # "done"

LEMMA AskMoves ==
  ASSUME TypeOK, NEW d \in Dashboard, Ask(d)
  PROVE  \/ Finish(d)
         \/ /\ ran' = ran
            /\ \E x : /\ Move(d, x) /\ x.list # {} /\ x.todo = x.list /\ x.result
<1> DEFINE list == IF op[d].unregister THEN registered ELSE passing
           x == [op[d] EXCEPT !.at = "loop", !.list = list, !.todo = list, !.result = TRUE]
<1>1. list \in SUBSET Registration
  BY DEF TypeOK
<1>2. Fine(op[d]) /\ op[d].at = "ask"
  BY OpFine DEF Ask, TypeOK
<1>3. list = {} => Finish(d)
  BY DEF Ask
<1>4. list # {} => Becomes(d, x) /\ ran' = ran
  BY DEF Ask
<1> HIDE DEF list
<1>5. Fine(x) /\ x.number = op[d].number /\ x.at = "loop" /\ x.unregister = op[d].unregister
      /\ x.method = op[d].method /\ x.on = op[d].on
      /\ x.list = list /\ x.todo = list /\ x.result
  BY <1>1, <1>2 DEF Fine, Operation
<1> HIDE DEF x
<1> QED BY <1>2, <1>3, <1>4, <1>5 DEF Move, Idle

LEMMA SendMoves ==
  ASSUME TypeOK, NEW d \in Dashboard, Send(d)
  PROVE  \E r \in op[d].todo, c \in Cmd : \E x :
           /\ Move(d, x)
           /\ x.to = {r} /\ x.todo = op[d].todo \ {r}
           /\ x.list = op[d].list /\ x.result = op[d].result
           /\ c.by = d /\ c.number = op[d].number /\ c.to = r
           /\ c.method = op[d].method /\ c.on = op[d].on /\ c.answer = "none"
           /\ commands' \subseteq commands \union {c}
<1>1. Fine(op[d]) /\ op[d].at = "loop"
  BY OpFine DEF Send, TypeOK
<1>2. PICK r \in op[d].todo :
        /\ Becomes(d, [op[d] EXCEPT !.at = "waiting", !.to = {r}, !.todo = @ \ {r}])
        /\ commands' = IF Address(r) \in running
                         THEN commands \union
                                {[by |-> d, number |-> op[d].number, to |-> r,
                                  method |-> op[d].method, on |-> op[d].on, answer |-> "none"]}
                         ELSE commands
  BY DEF Send
<1> DEFINE x == [op[d] EXCEPT !.at = "waiting", !.to = {r}, !.todo = @ \ {r}]
           c == [by |-> d, number |-> op[d].number, to |-> r,
                 method |-> op[d].method, on |-> op[d].on, answer |-> "none"]
<1>3. op[d].number \in 1 .. MaxOps
  BY <1>1 DEF Fine, Operation
<1>4. r \in Registration /\ op[d].method \in Method /\ op[d].on \in BOOLEAN
  BY <1>1 DEF Fine, Operation
<1>5. c \in Cmd
  BY <1>3, <1>4 DEF Cmd
<1>6. Fine(x) /\ x.number = op[d].number /\ x.at = "waiting" /\ x.unregister = op[d].unregister
      /\ x.method = op[d].method /\ x.on = op[d].on
      /\ x.list = op[d].list /\ x.todo = op[d].todo \ {r} /\ x.to = {r}
      /\ x.result = op[d].result
  BY <1>1, <1>4 DEF Fine, Operation
<1>7. Becomes(d, x) /\ commands' \subseteq commands \union {c}
  BY <1>2
<1>8. c.by = d /\ c.number = op[d].number /\ c.to = r
      /\ c.method = op[d].method /\ c.on = op[d].on /\ c.answer = "none"
  OBVIOUS
<1> HIDE DEF x, c
<1>9. Move(d, x)
  BY <1>1, <1>6, <1>7 DEF Move, Idle
<1> QED BY <1>5, <1>6, <1>7, <1>8, <1>9

LEMMA ReceiveMoves ==
  ASSUME TypeOK, NEW d \in Dashboard, Receive(d)
  PROVE  \E c \in Answered(d) : \E x :
           /\ Move(d, x)
           /\ op[d].to = {c.to} /\ x.to = {} /\ x.todo = op[d].todo /\ x.list = op[d].list
           /\ x.result = (op[d].result /\ c.answer = "ok")
           /\ commands' \subseteq commands
<1>1. Fine(op[d]) /\ op[d].at = "waiting"
  BY OpFine DEF Receive, TypeOK
<1>2. PICK c \in Answered(d) :
        /\ Becomes(d, [op[d] EXCEPT !.at = "loop", !.to = {}, !.result = @ /\ c.answer = "ok"])
        /\ commands' = commands \ {c}
  BY DEF Receive
<1> DEFINE x == [op[d] EXCEPT !.at = "loop", !.to = {}, !.result = @ /\ c.answer = "ok"]
<1>3. Fine(x) /\ x.number = op[d].number /\ x.at = "loop" /\ x.unregister = op[d].unregister
      /\ x.method = op[d].method /\ x.on = op[d].on
      /\ x.list = op[d].list /\ x.todo = op[d].todo /\ x.to = {}
      /\ x.result = (op[d].result /\ c.answer = "ok")
  BY <1>1 DEF Fine, Operation
<1>4. Becomes(d, x) /\ op[d].to = {c.to}
  BY <1>2 DEF Answered
<1> HIDE DEF x
<1> QED BY <1>1, <1>2, <1>3, <1>4 DEF Move, Idle

LEMMA FailMoves ==
  ASSUME TypeOK, NEW d \in Dashboard, Fail(d)
  PROVE  \E x : Move(d, x) /\ x.todo = op[d].todo /\ ~x.result
<1>1. Fine(op[d]) /\ op[d].at = "waiting"
  BY OpFine DEF Fail, TypeOK
<1> DEFINE x == [op[d] EXCEPT !.at = "loop", !.to = {}, !.result = FALSE]
<1>2. Fine(x) /\ x.number = op[d].number /\ x.at = "loop" /\ x.unregister = op[d].unregister
      /\ x.method = op[d].method /\ x.on = op[d].on
      /\ x.todo = op[d].todo /\ x.result = FALSE
  BY <1>1 DEF Fine, Operation
<1>3. Becomes(d, x)
  BY DEF Fail
<1> HIDE DEF x
<1> QED BY <1>1, <1>2, <1>3 DEF Move, Idle

LEMMA DeregisterMoves ==
  ASSUME TypeOK, NEW d \in Dashboard, Deregister(d)
  PROVE  /\ op[d].unregister /\ op[d].at = "loop"
         /\ \/ Finish(d) /\ UNCHANGED consul
            \/ /\ ran' = ran
               /\ registered' \subseteq registered /\ passing' \subseteq registered'
               /\ \E x : Move(d, x)
<1>1. Fine(op[d]) /\ op[d].at = "loop" /\ op[d].unregister
  BY OpFine DEF Deregister, TypeOK
<1>2. CASE Finish(d) /\ UNCHANGED consul
  BY <1>1, <1>2
<1>3. ASSUME NEW r \in op[d].todo,
             Becomes(d, [op[d] EXCEPT !.todo = @ \ {r}]),
             registered' = registered \ {r}, passing' = passing \ {r}, UNCHANGED ran
      PROVE  /\ ran' = ran
             /\ registered' \subseteq registered /\ passing' \subseteq registered'
             /\ \E x : Move(d, x)
  <2> DEFINE x == [op[d] EXCEPT !.todo = @ \ {r}]
  <2>1. Fine(x) /\ x.number = op[d].number /\ x.at = "loop" /\ x.unregister = op[d].unregister
        /\ x.method = op[d].method /\ x.on = op[d].on
    BY <1>1 DEF Fine, Operation
  <2>2. Becomes(d, x)
    BY <1>3
  <2>3. registered' \subseteq registered /\ passing' \subseteq registered'
    BY <1>3 DEF TypeOK
  <2> HIDE DEF x
  <2> QED BY <1>1, <1>3, <2>1, <2>2, <2>3 DEF Move, Idle
<1> QED BY <1>1, <1>2, <1>3 DEF Deregister
-----------------------------------------------------------------------------
LEMMA DashboardType ==
  ASSUME TypeOK, NEW d \in Dashboard, DashboardStep(d)
  PROVE  TypeOK'
<1>0. ASSUME NEW x, Move(d, x) PROVE OpsOK'
  BY <1>0, UpdateOps DEF Move, TypeOK
<1>1. CASE Ask(d)
  <2>1. OpsOK' /\ ran' \subseteq ran
    <3>1. CASE Finish(d)
      BY <1>1, <3>1, FinishOps DEF Ask, TypeOK
    <3> QED BY <1>0, <1>1, <3>1, AskMoves
  <2> QED BY <1>1, <2>1 DEF Ask, TypeOK, instances, consul
<1>2. CASE AskFails(d)
  BY <1>2, FinishOps DEF AskFails, TypeOK, instances, consul
<1>3. CASE Send(d)
  <2>1. OpsOK' /\ commands' \subseteq Cmd
    BY <1>0, <1>3, SendMoves DEF TypeOK
  <2> QED BY <1>3, <2>1 DEF Send, TypeOK, instances, consul
<1>4. CASE Receive(d)
  <2>1. OpsOK' /\ commands' \subseteq commands
    BY <1>0, <1>4, ReceiveMoves
  <2> QED BY <1>4, <2>1 DEF Receive, TypeOK, instances, consul
<1>5. CASE Fail(d)
  <2>1. OpsOK'
    BY <1>0, <1>5, FailMoves
  <2>2. commands' \subseteq commands
    BY <1>5 DEF Fail
  <2> QED BY <1>5, <2>1, <2>2 DEF Fail, TypeOK, instances, consul
<1>6. CASE Deregister(d)
  <2>1. OpsOK' /\ ran' \subseteq ran
    <3>1. op[d].at # "waiting"
      BY <1>6 DEF Deregister
    <3> QED BY <1>0, <1>6, <3>1, DeregisterMoves, FinishOps DEF TypeOK
  <2>2. passing' \subseteq registered' /\ registered' \subseteq Registration
    BY <1>6, DeregisterMoves DEF TypeOK, consul
  <2> QED BY <1>6, <2>1, <2>2 DEF Deregister, TypeOK, instances
<1>7. CASE End(d)
  BY <1>7, FinishOps DEF End, TypeOK, instances, consul
<1> QED BY <1>1, <1>2, <1>3, <1>4, <1>5, <1>6, <1>7 DEF DashboardStep

LEMMA ExecuteType ==
  ASSUME TypeOK, NEW c \in commands, Execute(c)
  PROVE  TypeOK'
<1>1. c \in Cmd /\ c.to \in Registration /\ Address(c.to) \in Instance
  BY DEF TypeOK, Cmd, Registration, Address
<1>2. throttled' \in [Instance -> SUBSET Method]
  <2>1. c.method \in Method
    BY <1>1 DEF Cmd
  <2> QED BY <2>1 DEF Execute, CarryOut, TypeOK
<1>3. Own(Address(c.to)) \in Registration
  BY <1>1 DEF Own, Registration, TypeOK, Life
<1>4. ran' \subseteq (1 .. MaxOps) \X Registration
  <2>1. c.number \in 1 .. MaxOps
    BY <1>1 DEF Cmd
  <2>2. ran' \subseteq ran \union {<<c.number, Own(Address(c.to))>>}
    BY DEF Execute
  <2> QED BY <1>3, <2>1, <2>2 DEF TypeOK
<1>5. commands' \subseteq Cmd
  <2>1. [c EXCEPT !.answer = Answer(c)] \in Cmd
    BY <1>1 DEF Cmd, Answer
  <2>2. commands' \subseteq commands \union {[c EXCEPT !.answer = Answer(c)]}
    BY DEF Execute
  <2> QED BY <2>1, <2>2 DEF TypeOK
<1>6. OpsOK'
  BY DEF Execute, OpsOK, TypeOK
<1>7. steady' \subseteq Instance
  BY DEF Execute, Touches, TypeOK
<1> QED BY <1>2, <1>4, <1>5, <1>6, <1>7 DEF Execute, TypeOK, consul

LEMMA TypeStep == TypeOK /\ [Next]_vars => TypeOK'
<1> SUFFICES ASSUME TypeOK, [Next]_vars PROVE TypeOK'
  OBVIOUS
<1>0. op' = op => OpsOK'
  BY DEF TypeOK, OpsOK
<1>1. ASSUME NEW i \in Instance, Crash(i) PROVE TypeOK'
  BY <1>0, <1>1 DEF Crash, TypeOK, consul
<1>2. ASSUME NEW i \in Instance, Start(i) PROVE TypeOK'
  <2>1. starts' \in Life /\ life' \in [Instance -> 0 .. starts']
    BY <1>2 DEF Start, TypeOK, Life
  <2> QED BY <1>0, <1>2, <2>1 DEF Start, TypeOK, consul
<1>3. ASSUME NEW i \in Instance, Beat(i) PROVE TypeOK'
  <2>1. Own(i) \in Registration
    BY DEF Own, Registration, TypeOK, Life
  <2> QED BY <1>0, <1>3, <2>1 DEF Beat, TypeOK, instances
<1>4. ASSUME NEW r \in Registration, Lapse(r) \/ Reap(r) PROVE TypeOK'
  BY <1>0, <1>4 DEF Lapse, Reap, TypeOK, instances
<1>5. ASSUME NEW c \in commands, Cancel(c) PROVE TypeOK'
  BY <1>0, <1>5 DEF Cancel, TypeOK, instances, consul
<1>6. CASE UNCHANGED vars
  BY <1>0, <1>6 DEF vars, TypeOK, instances, consul
<1> QED BY <1>1, <1>2, <1>3, <1>4, <1>5, <1>6, ExecuteType, BeginType, DashboardType DEF Next

LEMMA InvInit == Init => IInv
<1> SUFFICES ASSUME Init PROVE IInv
  OBVIOUS
<1>1. \A d \in Dashboard : op[d] = NoOp
  BY DEF Init
<1>2. OpsOK
  <2>1. Fine(NoOp)
    BY DEF NoOp, Operation, Fine
  <2> QED BY <1>1, <2>1 DEF OpsOK, Fine, Init
<1>3. TypeOK
  <2>1. starts \in Life /\ life \in [Instance -> 0 .. starts]
    BY DEF Init, Life
  <2>2. registered \subseteq Registration /\ passing = registered
    BY DEF Init, Registration, Life
  <2> QED BY <1>2, <2>1, <2>2 DEF TypeOK, Init
<1>4. NumbersInv
  BY <1>1 DEF NumbersInv, Init, NoOp, Idle
<1>5. \A d \in Dashboard : ClaimInv(d)
  BY <1>1 DEF ClaimInv, NoOp
<1> QED BY <1>3, <1>4, <1>5 DEF IInv, Init

-----------------------------------------------------------------------------
Commands == \A c \in commands : CommandInv(c)
Claims == \A d \in Dashboard : ClaimInv(d)

\* Instances come and go, Consul learns of it, commands are lost.
LEMMA FleetKeeps ==
  ASSUME IInv, UNCHANGED <<op, ops, ran>>, commands' \subseteq commands,
         steady' \subseteq steady, \A i \in steady' : throttled'[i] = throttled[i]
  PROVE  NumbersInv' /\ Commands' /\ Claims'
<1>1. NumbersInv'
  BY DEF IInv, NumbersInv, Idle
<1>2. \A n, i : CarriedOut(n, i)' = CarriedOut(n, i)
  BY DEF CarriedOut
<1>3. \A d, i : Set(d, i) => Set(d, i)'
  BY DEF Set
<1>4. Commands'
  <2> SUFFICES ASSUME NEW c \in commands' PROVE CommandInv(c)'
    BY DEF Commands
  <2>1. CommandInv(c)
    BY DEF IInv
  <2> QED BY <1>2, <1>3, <2>1 DEF CommandInv
<1>5. Claims'
  BY <1>2, <1>3 DEF IInv, Claims, ClaimInv
<1> QED BY <1>1, <1>4, <1>5

\* A command is carried out.
LEMMA ExecuteKeeps ==
  ASSUME IInv, NEW c \in commands, Execute(c)
  PROVE  NumbersInv' /\ Commands' /\ Claims'
<1> DEFINE i == Address(c.to)
<1>1. c \in Cmd /\ c.by \in Dashboard /\ i \in Instance /\ c.number \in 1 .. MaxOps
  BY DEF IInv, TypeOK, Cmd, Registration, Address
<1>2. CommandInv(c)
  BY DEF IInv
<1>3. UNCHANGED <<op, ops>> /\ steady' \subseteq steady
  BY DEF Execute, Touches
<1>4. ran \subseteq ran'
  BY DEF Execute
<1>5. throttled \in [Instance -> SUBSET Method]
  BY DEF IInv, TypeOK
<1>6. throttled' = [throttled EXCEPT ![i] =
                      IF ThrottleCmd \in @ THEN @
                      ELSE IF c.on THEN @ \union {c.method} ELSE @ \ {c.method}]
  BY DEF Execute, CarryOut
<1>7. \A j : j # i => throttled'[j] = throttled[j]
  BY <1>6
<1> HIDE DEF i
<1>8. NumbersInv'
  BY <1>3 DEF IInv, NumbersInv, Idle
<1>9. \A n, j : CarriedOut(n, j) => CarriedOut(n, j)'
  BY <1>4 DEF CarriedOut
<1>10. ASSUME NEW d \in Dashboard, NEW j \in Instance, Set(d, j) PROVE Set(d, j)'
  <2> SUFFICES ASSUME op[d].number = ops, j \in steady'
               PROVE  op[d].method \in throttled'[j] <=> op[d].on
    BY <1>3 DEF Set
  <2>1. op[d].method \in throttled[j] <=> op[d].on
    BY <1>3, <1>10 DEF Set
  <2>2. CASE c.number = ops
    <3>1. d = c.by /\ c.method = op[d].method /\ c.on = op[d].on
      BY <1>2, <2>2 DEF CommandInv
    <3> QED BY <1>1, <1>5, <1>6, <1>7, <2>1, <3>1
  <2>3. CASE c.number # ops
    <3>1. j # i \/ ThrottleCmd \in throttled[i]
      BY <2>3 DEF Execute, Touches, Answer, i
    <3> QED BY <1>1, <1>5, <1>6, <1>7, <2>1, <3>1
  <2> QED BY <2>2, <2>3
<1>11. \A d \in Dashboard, r \in Registration : Set(d, Address(r)) => Set(d, Address(r))'
  BY <1>10 DEF Registration, Address
<1>12. Claims'
  <2> SUFFICES ASSUME NEW d \in Dashboard PROVE ClaimInv(d)'
    BY DEF Claims
  <2>1. ClaimInv(d) /\ op[d].list \subseteq Registration
    BY DEF IInv, TypeOK, OpsOK, Operation
  <2> QED BY <1>3, <1>9, <1>11, <2>1 DEF ClaimInv
<1>13. Commands'
  <2> DEFINE answered == [c EXCEPT !.answer = Answer(c)]
  <2> SUFFICES ASSUME NEW b \in commands' PROVE CommandInv(b)'
    BY DEF Commands
  <2>1. b \in commands \/ (Awaited(c) /\ b = answered)
    BY DEF Execute
  <2>2. CASE b \in commands
    <3>1. CommandInv(b) /\ b.by \in Dashboard /\ b.to \in Registration
      BY <2>2 DEF IInv, TypeOK, Cmd
    <3> QED BY <1>3, <1>9, <1>11, <3>1 DEF CommandInv
  <2>3. CASE Awaited(c) /\ b = answered
    <3>1. b.by = c.by /\ b.number = c.number /\ b.to = c.to /\ b.method = c.method
          /\ b.on = c.on /\ b.answer = Answer(c)
      BY <1>1, <2>3 DEF Cmd
    <3>2. ASSUME Answer(c) = "ok"
          PROVE  CarriedOut(c.number, i)' /\ Set(c.by, i)'
      <4>1. ThrottleCmd \notin throttled[i]
        BY <3>2 DEF Answer, i
      <4>2. <<c.number, <<i, life[i]>>>> \in ran' /\ life[i] \in Life
        BY <1>1, <2>3, <3>2 DEF Execute, Awaited, Own, i, IInv, TypeOK, Life
      <4>3. c.method \in throttled'[i] <=> c.on
        BY <1>1, <1>5, <1>6, <4>1
      <4>4. op[c.by].method = c.method /\ op[c.by].on = c.on
        BY <1>2, <2>3 DEF CommandInv, Awaited
      <4> QED BY <1>3, <4>2, <4>3, <4>4 DEF CarriedOut, Set
    <3> HIDE DEF answered
    <3> QED BY <1>2, <1>3, <2>3, <3>1, <3>2 DEF CommandInv, Awaited, i
  <2> QED BY <2>1, <2>2, <2>3
<1> QED BY <1>8, <1>12, <1>13
LEMMA BeginKeeps ==
  ASSUME IInv, NEW d \in Dashboard, Begin(d)
  PROVE  NumbersInv' /\ Commands' /\ Claims'
<1>1. PICK x : /\ Becomes(d, x) /\ Fine(x)
               /\ x.number = ops + 1 /\ x.at = "ask" /\ ~x.result
               /\ x.todo = {} /\ x.to = {}
  BY BeginOps DEF IInv
<1>2. op'[d] = x /\ \A e \in Dashboard \ {d} : op'[e] = op[e]
  BY <1>1, UpdateOps DEF IInv, TypeOK
<1>3. /\ ops \in Nat /\ ops' = ops + 1
      /\ \A e \in Dashboard : op[e].number \in Nat /\ op[e].number <= ops
      /\ \A c \in commands : c.number \in Nat /\ c.number > 0
                             /\ c.number <= ops /\ c.by \in Dashboard
  <2>0. ops' = ops + 1
    BY DEF Begin
  <2>1. ops \in Nat
    BY DEF IInv, TypeOK
  <2>2. \A e \in Dashboard : op[e].number \in Nat /\ op[e].number <= ops
    BY DEF IInv, TypeOK, OpsOK, Operation, NumbersInv
  <2>3. \A c \in commands : CommandInv(c) /\ c \in Cmd
    BY DEF IInv, TypeOK
  <2> QED BY <2>0, <2>1, <2>2, <2>3 DEF Cmd, CommandInv
<1>4. UNCHANGED <<throttled, commands>>
  BY DEF Begin, instances
<1>5. NumbersInv'
  <2>1. \A e \in Dashboard : op'[e].number <= ops'
    BY <1>1, <1>2, <1>3
  <2>2. \A e, f \in Dashboard :
          op'[e].number = op'[f].number /\ op'[e].number > 0 => e = f
    BY <1>1, <1>2, <1>3 DEF IInv, NumbersInv
  <2>3. \A e \in Dashboard : Idle(e)' => op'[e].todo = {}
    BY <1>1, <1>2 DEF IInv, NumbersInv, Idle
  <2>4. \A e \in Dashboard : op'[e].result => op'[e].number > 0 /\ op'[e].at # "ask"
    BY <1>1, <1>2 DEF IInv, NumbersInv
  <2> QED BY <2>1, <2>2, <2>3, <2>4 DEF NumbersInv
<1>6. \A e \in Dashboard \ {d} : \A i : Set(e, i)'
  <2>1. \A e \in Dashboard \ {d} : op'[e].number # ops'
    BY <1>2, <1>3
  <2> QED BY <2>1 DEF Set
<1>7. \A e \in Dashboard \ {d} : \A i :
        op[e].number > 0 /\ CarriedOut(op[e].number, i) => CarriedOut(op[e].number, i)'
  <2>1. \A e \in Dashboard \ {d} : op[e].number > 0 => op[e].number # op[d].number
    BY DEF IInv, NumbersInv
  <2>2. ran' = {y \in ran : y[1] # op[d].number}
    BY DEF Begin
  <2> SUFFICES ASSUME NEW e \in Dashboard \ {d}, NEW i, NEW l \in Life,
                      op[e].number > 0, <<op[e].number, <<i, l>>>> \in ran
               PROVE  <<op[e].number, <<i, l>>>> \in ran'
    BY <1>2 DEF CarriedOut
  <2> QED BY <2>1, <2>2
<1>8. Claims'
  <2> SUFFICES ASSUME NEW e \in Dashboard, op'[e].result, ~op'[e].unregister
               PROVE  ClaimInv(e)'
    BY DEF Claims, ClaimInv
  <2>1. e # d /\ op'[e] = op[e]
    BY <1>1, <1>2
  <2>2. ClaimInv(e) /\ op[e].number > 0
    BY <2>1 DEF IInv, NumbersInv
  <2> QED BY <1>6, <1>7, <2>1, <2>2 DEF ClaimInv
<1>9. Commands'
  <2> SUFFICES ASSUME NEW c \in commands PROVE CommandInv(c)'
    BY <1>4 DEF Commands
  <2>1. CommandInv(c)
    BY DEF IInv
  <2>2. op'[d].number # c.number
    BY <1>1, <1>2, <1>3
  <2>3. c.number <= ops'
    BY <1>3
  <2>4. \A e \in Dashboard : op'[e].number = c.number => e # d /\ op'[e] = op[e]
    BY <1>2, <2>2
  <2> QED BY <1>3, <1>6, <1>7, <2>1, <2>3, <2>4 DEF CommandInv
<1> QED BY <1>5, <1>8, <1>9

\* An operation ends: with its claim, when it has tried all and not failed.
LEMMA FinishKeeps ==
  ASSUME IInv, NEW d \in Dashboard, Finish(d), ~Idle(d), op[d].at # "waiting",
         op[d].at = "ask" \/ op[d].todo = {} \/ op[d].unregister,
         UNCHANGED <<throttled, ops, commands, steady>>
  PROVE  NumbersInv' /\ Commands' /\ Claims'
<1>1. OpsOK /\ Fine(op[d]) /\ op[d].to = {}
  BY OpFine DEF IInv, TypeOK, Fine
<1>2. CASE op[d].result /\ ~op[d].unregister
  <2> DEFINE x == [op[d] EXCEPT !.at = "done"]
  <2>1. Becomes(d, x) /\ ran' = ran
    BY <1>2 DEF Finish
  <2>2. Fine(x) /\ x.at = "done" /\ x.number = op[d].number /\ x.method = op[d].method
        /\ x.on = op[d].on /\ x.unregister = op[d].unregister /\ x.list = op[d].list
        /\ x.todo = op[d].todo /\ x.to = op[d].to /\ x.result = op[d].result
    BY <1>1 DEF Fine, Operation
  <2> HIDE DEF x
  <2>3. op'[d] = x /\ \A e \in Dashboard \ {d} : op'[e] = op[e]
    BY <1>1, <2>1, <2>2, UpdateOps
  <2>4. op[d].todo = {}
    BY <1>2 DEF IInv, NumbersInv
  <2>5. \A e \in Dashboard :
          /\ op'[e].number = op[e].number /\ op'[e].method = op[e].method
          /\ op'[e].on = op[e].on /\ op'[e].unregister = op[e].unregister
          /\ op'[e].list = op[e].list /\ op'[e].todo = op[e].todo
          /\ op'[e].to = op[e].to /\ op'[e].result = op[e].result
          /\ Idle(e) => Idle(e)'
          /\ op'[e].at = "done" \/ op'[e].at = op[e].at
    BY <2>2, <2>3 DEF Idle
  <2>6. NumbersInv'
    BY <2>3, <2>4, <2>5 DEF IInv, NumbersInv, Idle
  <2>7. /\ \A n, i : CarriedOut(n, i)' = CarriedOut(n, i)
        /\ \A e \in Dashboard : \A i : Set(e, i)' = Set(e, i)
    BY <2>1, <2>5 DEF CarriedOut, Set
  <2>8. Commands'
    <3> SUFFICES ASSUME NEW c \in commands PROVE CommandInv(c)'
      BY DEF Commands
    <3>1. CommandInv(c) /\ c.by \in Dashboard
      BY DEF IInv, TypeOK, Cmd
    <3> QED BY <2>5, <2>7, <3>1 DEF CommandInv
  <2>9. Claims'
    BY <2>5, <2>7 DEF IInv, Claims, ClaimInv
  <2> QED BY <2>6, <2>8, <2>9
<1>3. CASE ~(op[d].result /\ ~op[d].unregister)
  <2>1. Becomes(d, NoOp) /\ ran' = {y \in ran : y[1] # op[d].number}
    BY <1>3 DEF Finish
  <2>2. Fine(NoOp) /\ NoOp.at = "done" /\ NoOp.number = 0 /\ NoOp.todo = {} /\ ~NoOp.result
    BY DEF NoOp, Operation, Fine
  <2>3. op'[d] = NoOp /\ \A e \in Dashboard \ {d} : op'[e] = op[e]
    BY <1>1, <2>1, <2>2, UpdateOps
  <2>4. ops \in Nat
    BY DEF IInv, TypeOK
  <2>5. NumbersInv'
    BY <2>2, <2>3, <2>4 DEF IInv, NumbersInv, Idle
  <2>6. \A e \in Dashboard \ {d} : \A i :
          /\ Set(e, i)' = Set(e, i)
          /\ op[e].number > 0 /\ CarriedOut(op[e].number, i) => CarriedOut(op[e].number, i)'
    <3>1. \A e \in Dashboard \ {d} : op[e].number > 0 => op[e].number # op[d].number
      BY DEF IInv, NumbersInv
    <3> QED BY <2>1, <2>3, <3>1 DEF CarriedOut, Set
  <2>7. Commands'
    <3> SUFFICES ASSUME NEW c \in commands PROVE CommandInv(c)'
      BY DEF Commands
    <3>1. CommandInv(c) /\ c.by \in Dashboard /\ c.number > 0
      BY DEF IInv, TypeOK, Cmd
    <3>2. \A e \in Dashboard : op'[e].number = c.number => e # d /\ op'[e] = op[e]
      BY <2>2, <2>3, <3>1
    <3> QED BY <2>6, <3>1, <3>2 DEF CommandInv
  <2>8. Claims'
    <3> SUFFICES ASSUME NEW e \in Dashboard, op'[e].result, ~op'[e].unregister
                 PROVE  ClaimInv(e)'
      BY DEF Claims, ClaimInv
    <3>1. e # d /\ op'[e] = op[e]
      BY <2>2, <2>3
    <3>2. ClaimInv(e) /\ op[e].number > 0
      BY <3>1 DEF IInv, NumbersInv
    <3> QED BY <2>6, <3>1, <3>2 DEF ClaimInv
  <2> QED BY <2>5, <2>7, <2>8
<1> QED BY <1>2, <1>3

\* An operation moves on: what it may claim is left to the caller.
LEMMA MoveKeeps ==
  ASSUME IInv, NEW d \in Dashboard, NEW x, Move(d, x),
         UNCHANGED <<throttled, ops, ran, steady>>
  PROVE  /\ op'[d] = x
         /\ NumbersInv'
         /\ \A c \in commands : CommandInv(c)'
         /\ \A e \in Dashboard \ {d} : ClaimInv(e)'
         /\ \A n, i : CarriedOut(n, i)' = CarriedOut(n, i)
         /\ \A e \in Dashboard : \A i : Set(e, i)' = Set(e, i)
<1>1. op'[d] = x /\ \A e \in Dashboard \ {d} : op'[e] = op[e]
  BY UpdateOps DEF Move, IInv, TypeOK
<1>2. \A e \in Dashboard :
        /\ op'[e].number = op[e].number /\ op'[e].method = op[e].method
        /\ op'[e].on = op[e].on /\ op'[e].unregister = op[e].unregister
  BY <1>1 DEF Move
<1>3. x.number \in Nat /\ x.number # 0 /\ x.at # "ask" /\ x.at # "done" /\ ~Idle(d)
  BY DEF Move, Fine, Operation
<1>4. NumbersInv'
  <2>1. \A e \in Dashboard : op'[e].result => op'[e].number > 0 /\ op'[e].at # "ask"
    BY <1>1, <1>3 DEF IInv, NumbersInv
  <2>2. \A e \in Dashboard : Idle(e)' <=> Idle(e)
    BY <1>1, <1>3 DEF Idle
  <2>3. \A e \in Dashboard : Idle(e)' => op'[e].todo = {}
    BY <1>1, <1>3 DEF IInv, NumbersInv, Idle
  <2> QED BY <1>2, <2>1, <2>2, <2>3 DEF IInv, NumbersInv
<1>5. /\ \A n, i : CarriedOut(n, i)' = CarriedOut(n, i)
      /\ \A e \in Dashboard : \A i : Set(e, i)' = Set(e, i)
  BY <1>2 DEF CarriedOut, Set
<1>6. ASSUME NEW c \in commands PROVE CommandInv(c)'
  <2>1. CommandInv(c) /\ c.by \in Dashboard
    BY DEF IInv, TypeOK, Cmd
  <2> QED BY <1>2, <1>5, <2>1 DEF CommandInv
<1>7. \A e \in Dashboard \ {d} : ClaimInv(e)'
  BY <1>1, <1>5 DEF IInv, ClaimInv
<1> QED BY <1>1, <1>4, <1>5, <1>6, <1>7

LEMMA StepKeeps ==
  ASSUME IInv, NEW d \in Dashboard, DashboardStep(d)
  PROVE  NumbersInv' /\ Commands' /\ Claims'
<1>1. CASE Ask(d)
  <2>0. UNCHANGED <<throttled, ops, commands, steady>> /\ op[d].at = "ask"
    BY <1>1 DEF Ask, instances
  <2>1. CASE Finish(d)
    BY <2>0, <2>1, FinishKeeps DEF Idle
  <2>2. ASSUME ran' = ran, NEW x, Move(d, x), x.list # {}, x.todo = x.list, x.result
        PROVE  NumbersInv' /\ Commands' /\ Claims'
    <3>1. ClaimInv(d)'
      BY <2>0, <2>2, MoveKeeps DEF ClaimInv
    <3> QED BY <2>0, <2>2, <3>1, MoveKeeps DEF Commands, Claims
  <2> QED BY <1>1, <2>1, <2>2, AskMoves DEF IInv
<1>2. CASE AskFails(d)
  BY <1>2, FinishKeeps DEF AskFails, Idle, instances
<1>3. CASE Send(d)
  <2>0. UNCHANGED <<throttled, ops, ran, steady>> /\ op[d].at = "loop" /\ ~op[d].unregister
    BY <1>3 DEF Send, instances
  <2>1. PICK r, c, x :
           /\ r \in op[d].todo /\ c \in Cmd
           /\ Move(d, x)
           /\ x.to = {r} /\ x.todo = op[d].todo \ {r}
           /\ x.list = op[d].list /\ x.result = op[d].result
           /\ c.by = d /\ c.number = op[d].number /\ c.to = r
           /\ c.method = op[d].method /\ c.on = op[d].on /\ c.answer = "none"
           /\ commands' \subseteq commands \union {c}
    BY <1>3, SendMoves DEF IInv
  <2>2. op'[d] = x /\ NumbersInv'
    BY <2>0, <2>1, MoveKeeps
  <2>3. ClaimInv(d)'
    <3>1. ClaimInv(d) /\ x.number = op[d].number /\ x.unregister = op[d].unregister
          /\ op[d].to = {}
      BY <2>0, <2>1 DEF IInv, Move, TypeOK, OpsOK
    <3>2. x.list \ (x.todo \union x.to) \subseteq op[d].list \ (op[d].todo \union op[d].to)
      BY <2>1, <3>1
    <3> QED BY <2>0, <2>1, <2>2, <3>1, <3>2, MoveKeeps DEF ClaimInv
  <2>4. CommandInv(c)'
    <3>1. op[d].number <= ops /\ op[d].number # 0 /\ op[d].number \in Nat
      BY <2>0 DEF IInv, NumbersInv, TypeOK, OpsOK, Operation
    <3>2. \A e \in Dashboard : op'[e].number = op'[d].number => e = d
      BY <2>1, <2>2, <3>1 DEF NumbersInv, Move
    <3> QED BY <2>0, <2>1, <2>2, <3>1, <3>2 DEF CommandInv, Move
  <2> QED BY <2>0, <2>1, <2>2, <2>3, <2>4, MoveKeeps DEF Commands, Claims
<1>4. CASE Receive(d)
  <2>0. UNCHANGED <<throttled, ops, ran, steady>>
    BY <1>4 DEF Receive, instances
  <2>1. PICK c, x :
           /\ c \in Answered(d)
           /\ Move(d, x)
           /\ op[d].to = {c.to} /\ x.to = {} /\ x.todo = op[d].todo /\ x.list = op[d].list
           /\ x.result = (op[d].result /\ c.answer = "ok")
           /\ commands' \subseteq commands
    BY <1>4, ReceiveMoves DEF IInv
  <2>2. CommandInv(c) /\ c.by = d /\ c.number = op[d].number
    BY <2>1 DEF Answered, IInv
  <2>3. op'[d] = x
    BY <2>0, <2>1, MoveKeeps
  <2>4. ClaimInv(d)'
    <3> SUFFICES ASSUME op'[d].result, ~op'[d].unregister PROVE ClaimInv(d)'
      BY DEF ClaimInv
    <3>1. ClaimInv(d) /\ x.number = op[d].number /\ op[d].result /\ c.answer = "ok"
          /\ ~op[d].unregister
      BY <2>1, <2>3 DEF IInv, Move
    <3>2. CarriedOut(op[d].number, Address(c.to)) /\ Set(d, Address(c.to))
      BY <2>2, <3>1 DEF CommandInv
    <3>3. \A r \in op[d].list \ op[d].todo :
            CarriedOut(op[d].number, Address(r)) /\ Set(d, Address(r))
      BY <2>1, <3>1, <3>2 DEF ClaimInv
    <3>4. op[d].list # {}
      BY <3>1 DEF ClaimInv
    <3>5. op'[d].number = op[d].number /\ op'[d].list = op[d].list
          /\ op'[d].todo = op[d].todo /\ op'[d].to = {}
      BY <2>1, <2>3, <3>1
    <3>6. ASSUME NEW r \in op[d].list \ op[d].todo
          PROVE  CarriedOut(op[d].number, Address(r))' /\ Set(d, Address(r))'
      BY <2>0, <2>1, <3>3, <3>5, MoveKeeps
    <3> QED BY <3>4, <3>5, <3>6 DEF ClaimInv
  <2> QED BY <2>0, <2>1, <2>4, MoveKeeps DEF Commands, Claims
<1>5. CASE Fail(d)
  <2>0. UNCHANGED <<throttled, ops, ran, steady>> /\ commands' \subseteq commands
    BY <1>5 DEF Fail, instances
  <2>1. PICK x : Move(d, x) /\ x.todo = op[d].todo /\ ~x.result
    BY <1>5, FailMoves DEF IInv
  <2>2. ClaimInv(d)'
    BY <2>0, <2>1, MoveKeeps DEF ClaimInv
  <2> QED BY <2>0, <2>1, <2>2, MoveKeeps DEF Commands, Claims
<1>6. CASE Deregister(d)
  <2>0. UNCHANGED <<throttled, ops, commands, steady>> /\ op[d].unregister /\ op[d].at = "loop"
    BY <1>6 DEF Deregister, instances
  <2>1. CASE Finish(d)
    BY <2>0, <2>1, FinishKeeps DEF Idle
  <2>2. ASSUME ran' = ran, NEW x, Move(d, x)
        PROVE  NumbersInv' /\ Commands' /\ Claims'
    <3>1. ClaimInv(d)'
      BY <2>0, <2>2, MoveKeeps DEF ClaimInv, Move
    <3> QED BY <2>0, <2>2, <3>1, MoveKeeps DEF Commands, Claims
  <2> QED BY <1>6, <2>1, <2>2, DeregisterMoves DEF IInv
<1>7. CASE End(d)
  BY <1>7, FinishKeeps DEF End, Idle, instances
<1> QED BY <1>1, <1>2, <1>3, <1>4, <1>5, <1>6, <1>7 DEF DashboardStep

LEMMA InvStep == IInv /\ [Next]_vars => IInv'
<1> SUFFICES ASSUME IInv, [Next]_vars PROVE IInv'
  OBVIOUS
<1>1. TypeOK'
  BY TypeStep DEF IInv
<1>2. NumbersInv' /\ Commands' /\ Claims'
  <2>1. ASSUME NEW i \in Instance, Crash(i) PROVE NumbersInv' /\ Commands' /\ Claims'
    <3>1. \A j \in steady' : throttled'[j] = throttled[j]
      BY <2>1 DEF Crash, IInv, TypeOK
    <3> QED BY <2>1, <3>1, FleetKeeps DEF Crash
  <2>2. ASSUME NEW i \in Instance, Start(i) \/ Beat(i) PROVE NumbersInv' /\ Commands' /\ Claims'
    BY <2>2, FleetKeeps DEF Start, Beat, instances
  <2>3. ASSUME NEW r \in Registration, Lapse(r) \/ Reap(r)
        PROVE  NumbersInv' /\ Commands' /\ Claims'
    BY <2>3, FleetKeeps DEF Lapse, Reap, instances
  <2>4. ASSUME NEW c \in commands, Cancel(c) PROVE NumbersInv' /\ Commands' /\ Claims'
    BY <2>4, FleetKeeps DEF Cancel, instances
  <2>5. CASE UNCHANGED vars
    BY <2>5, FleetKeeps DEF vars, instances
  <2> QED BY <2>1, <2>2, <2>3, <2>4, <2>5, ExecuteKeeps, BeginKeeps, StepKeeps DEF Next
<1> QED BY <1>1, <1>2 DEF IInv, Commands, Claims

LEMMA Invariant == Spec => []IInv
<1> QED BY InvInit, InvStep, PTL DEF Spec

\* The variables keep their types: a registration that passes its check is one
\* Consul holds, a request that waits waits for one answer.
THEOREM TypeCorrect == Spec => []TypeOK
<1>1. IInv => TypeOK
  BY DEF IInv
<1> QED BY <1>1, Invariant, PTL

\* A switch that Throttle reports as done was carried out by every instance of
\* the list it got from Consul.
THEOREM SuccessIsTotal == Spec => []SuccessMeansAll
<1>1. IInv => SuccessMeansAll
  <2> SUFFICES ASSUME IInv, NEW d \in Dashboard, Switched(d)
               PROVE  /\ op[d].list # {}
                      /\ \A r \in op[d].list : CarriedOut(op[d].number, Address(r))
    BY DEF SuccessMeansAll, CarriedOut
  <2>1. op[d].todo = {} /\ op[d].to = {} /\ ClaimInv(d)
    BY DEF IInv, NumbersInv, TypeOK, OpsOK, Switched, Idle
  <2> QED BY <2>1 DEF ClaimInv, Switched
<1> QED BY <1>1, Invariant, PTL

\* What a successful switch has set stays set, until another operation begins,
\* on the instances of its list that have run all the while and carried out no
\* command of another operation, one given up before the switch included.
THEOREM SuccessLasts == Spec => []Agreement
<1>1. IInv => Agreement
  <2> SUFFICES ASSUME IInv, NEW d \in Dashboard, Switched(d), op[d].number = ops,
                      NEW r \in op[d].list, Address(r) \in steady
               PROVE  op[d].method \in throttled[Address(r)] <=> op[d].on
    BY DEF Agreement
  <2>1. op[d].todo = {} /\ op[d].to = {} /\ ClaimInv(d)
    BY DEF IInv, NumbersInv, TypeOK, OpsOK, Switched, Idle
  <2>2. Set(d, Address(r))
    BY <2>1 DEF ClaimInv, Switched
  <2> QED BY <2>2 DEF Set
<1> QED BY <1>1, Invariant, PTL
-----------------------------------------------------------------------------
\* An operation that ends is idle.
LEMMA FinishCloser ==
  ASSUME TypeOK, NEW d \in Dashboard, Finish(d)
  PROVE  Closer(d)
<1>1. NoOp.at = "done" /\ [op[d] EXCEPT !.at = "done"].at = "done"
  BY DEF NoOp, TypeOK, OpsOK, Operation
<1>2. op' = [op EXCEPT ![d] = NoOp] \/ op' = [op EXCEPT ![d] = [op[d] EXCEPT !.at = "done"]]
  BY DEF Finish, Becomes
<1> QED BY <1>1, <1>2 DEF Closer, Idle, TypeOK, OpsOK

\* An operation's own step brings it closer to its end.
LEMMA StepCloser ==
  ASSUME TypeOK, NEW d \in Dashboard, DashboardStep(d)
  PROVE  Closer(d)
<1> USE DEF TypeOK, OpsOK
<1>0. op[d] \in Operation
  OBVIOUS
<1>1. CASE Ask(d)
  <2> DEFINE list == IF op[d].unregister THEN registered ELSE passing
             x == [op[d] EXCEPT !.at = "loop", !.list = list, !.todo = list, !.result = TRUE]
  <2>1. Finish(d) \/ Becomes(d, x)
    BY <1>1 DEF Ask
  <2>2. x.at = "loop"
    BY <1>0 DEF Operation
  <2> HIDE DEF x
  <2> QED BY <1>1, <2>1, <2>2, FinishCloser DEF Ask, Becomes, Closer
<1>2. CASE AskFails(d) \/ End(d)
  BY <1>2, FinishCloser DEF AskFails, End
<1>3. CASE Send(d)
  <2>1. PICK r \in op[d].todo :
          Becomes(d, [op[d] EXCEPT !.at = "waiting", !.to = {r}, !.todo = @ \ {r}])
    BY <1>3 DEF Send
  <2> DEFINE x == [op[d] EXCEPT !.at = "waiting", !.to = {r}, !.todo = @ \ {r}]
  <2>2. x.at = "waiting" /\ x.todo = op[d].todo \ {r}
    BY <1>0 DEF Operation
  <2> HIDE DEF x
  <2> QED BY <1>3, <2>1, <2>2 DEF Send, Becomes, Closer, x
<1>4. CASE Receive(d) \/ Fail(d)
  <2>1. PICK b : Becomes(d, [op[d] EXCEPT !.at = "loop", !.to = {}, !.result = b])
    BY <1>4 DEF Receive, Fail
  <2> DEFINE x == [op[d] EXCEPT !.at = "loop", !.to = {}, !.result = b]
  <2>2. x.at = "loop" /\ x.todo = op[d].todo
    BY <1>0 DEF Operation
  <2>3. op[d].at = "waiting"
    BY <1>4 DEF Receive, Fail
  <2> HIDE DEF x
  <2> QED BY <2>1, <2>2, <2>3 DEF Becomes, Closer, x
<1>5. CASE Deregister(d)
  <2>1. CASE Finish(d)
    BY <2>1, FinishCloser
  <2>2. CASE \E r \in op[d].todo : Becomes(d, [op[d] EXCEPT !.todo = @ \ {r}])
    <3>1. PICK r \in op[d].todo : Becomes(d, [op[d] EXCEPT !.todo = @ \ {r}])
      BY <2>2
    <3> DEFINE x == [op[d] EXCEPT !.todo = @ \ {r}]
    <3>2. x.at = "loop" /\ x.todo = op[d].todo \ {r}
      BY <1>0, <1>5 DEF Deregister, Operation
    <3> HIDE DEF x
    <3> QED BY <1>5, <3>1, <3>2 DEF Deregister, Becomes, Closer, x
  <2> QED BY <1>5, <2>1, <2>2 DEF Deregister
<1> QED BY <1>1, <1>2, <1>3, <1>4, <1>5 DEF DashboardStep

\* A step of the instances, of Consul or of another request leaves it alone.
LEMMA OthersLeave ==
  ASSUME TypeOK, [Next]_vars, NEW d \in Dashboard, ~Idle(d), ~DashboardStep(d)
  PROVE  op'[d] = op[d]
<1>1. CASE UNCHANGED op
  BY <1>1
<1>2. ASSUME NEW e \in Dashboard, NEW x, Becomes(e, x), e # d PROVE op'[d] = op[d]
  BY <1>2 DEF Becomes, TypeOK, OpsOK
<1>3. ASSUME NEW e \in Dashboard, Begin(e) \/ DashboardStep(e)
      PROVE  UNCHANGED op \/ \E x : Becomes(e, x)
  BY <1>3 DEF Begin, DashboardStep, Ask, AskFails, Send, Receive, Fail, Deregister, End, Finish
<1>4. ASSUME NEW e \in Dashboard, Begin(e) \/ DashboardStep(e) PROVE e # d
  BY <1>4 DEF Begin
<1>5. \/ UNCHANGED op
      \/ \E e \in Dashboard : Begin(e) \/ DashboardStep(e)
  BY DEF Next, vars, Crash, Start, Beat, Lapse, Reap, Execute, Cancel
<1> QED BY <1>1, <1>2, <1>3, <1>4, <1>5

\* Operations come closer to their end with each of their steps, however many
\* run at a time: what is left to OperationEnds is that they take steps.
THEOREM OperationsApproachEnd == Spec => OperationsAdvance
<1> DEFINE Advance == \A d \in Dashboard : ~Idle(d) =>
                        IF DashboardStep(d) THEN Closer(d) ELSE op'[d] = op[d]
<1>1. TypeOK /\ [Next]_vars => [Advance]_vars
  BY StepCloser, OthersLeave
<1> QED BY <1>1, TypeCorrect, PTL DEF Spec, OperationsAdvance
=============================================================================
