------------------------- MODULE ConsulRegisterProofs -------------------------
(***************************************************************************)
(* Proofs about ConsulRegister for any number of timers, of heartbeats     *)
(* under way together and of failures of Consul.                           *)
(***************************************************************************)
EXTENDS ConsulRegister, TLAPS

USE TimerAssumption, MainAssumption, LossesAssumption

LEMMA InvInit == Init => IInv
<1> SUFFICES ASSUME Init PROVE IInv
  OBVIOUS
<1>1. TypeOK
  <2>1. up \in BOOLEAN /\ registered \in BOOLEAN /\ serving \in BOOLEAN
        /\ config \in Config
    BY Zenon DEF Init
  <2> QED BY <2>1 DEF Init, TypeOK
<1>2. HeartbeatInv
  BY DEF Init, HeartbeatInv, HeartbeatAlive
<1>3. QuietWithTcp
  BY DEF Init, QuietWithTcp
<1> QED BY <1>1, <1>2, <1>3 DEF IInv

LEMMA TypeStep == TypeOK /\ HeartbeatInv /\ [Next]_vars => TypeOK'
<1> SUFFICES ASSUME TypeOK, HeartbeatInv, [Next]_vars PROVE TypeOK'
  OBVIOUS
<1> USE DEF TypeOK, consulVars
<1>1. CASE Consul
  <2>1. registered \in BOOLEAN /\ up \in BOOLEAN
    OBVIOUS
  <2>2. up' \in {up, TRUE, FALSE} /\ registered' \in {registered, FALSE}
    BY <1>1, Zenon DEF Consul, ConsulStops, ConsulStarts, Reap
  <2>3. up' \in BOOLEAN /\ registered' \in BOOLEAN
    BY <2>1, <2>2
  <2>4. losses' \in 0 .. MaxLosses
    <3>1. losses' = losses \/ (losses < MaxLosses /\ losses' = losses + 1)
      BY <1>1, Zenon DEF Consul, ConsulStops, ConsulStarts, Reap
    <3> QED BY <3>1
  <2> QED BY <1>1, <2>3, <2>4 DEF Consul, ConsulStops, ConsulStarts, Reap
<1>2. CASE CreateClient \/ NoAddress \/ RegisterService
  BY <1>2 DEF CreateClient, NoAddress, RegisterService, Registered, Refused
<1>3. CASE MainNewTimer
  BY <1>3 DEF MainNewTimer, NewTimer
<1>4. CASE MainStoreTimer
  <2>1. made[Main] \in Timer
    BY <1>4 DEF MainStoreTimer, HeartbeatInv
  <2> QED BY <1>4, <2>1 DEF MainStoreTimer, StoreTimer
<1>5. CASE DeregisterService
  <2>1. registered' \in BOOLEAN
    <3>1. registered' = (registered /\ ~up)
      BY <1>5 DEF DeregisterService
    <3> QED BY <3>1, Zenon
  <2> QED BY <1>5, <2>1 DEF DeregisterService
<1>6. CASE CloseServer \/ NoClient \/ ShutdownServer
  BY <1>6 DEF CloseServer, NoClient, ShutdownServer
<1>7. ASSUME NEW t \in Timer, Fire(t) PROVE TypeOK'
  BY <1>7 DEF Fire
<1>8. ASSUME NEW t \in Timer, Collect(t) PROVE TypeOK'
  BY <1>8 DEF Collect
<1>9. ASSUME NEW b \in Beat, Begin(b) PROVE TypeOK'
  BY <1>9 DEF Begin
<1>10. ASSUME NEW b \in Beat, PassTTL(b) PROVE TypeOK'
  BY <1>10 DEF PassTTL
<1>11. ASSUME NEW b \in Beat, RegisterAgain(b) PROVE TypeOK'
  BY <1>11 DEF RegisterAgain
<1>12. ASSUME NEW b \in Beat, BeatNewTimer(b) PROVE TypeOK'
  BY <1>12 DEF BeatNewTimer, NewTimer
<1>13. ASSUME NEW b \in Beat, BeatStoreTimer(b) PROVE TypeOK'
  <2>1. made[b] \in Timer
    BY <1>13 DEF BeatStoreTimer, HeartbeatInv
  <2> QED BY <1>13, <2>1 DEF BeatStoreTimer, StoreTimer
<1>14. ASSUME NEW b \in Beat, Finally(b) PROVE TypeOK'
  BY <1>14 DEF Finally
<1>15. CASE UNCHANGED vars
  BY <1>15 DEF vars
<1> QED
  BY <1>1, <1>2, <1>3, <1>4, <1>5, <1>6, <1>7, <1>8, <1>9, <1>10, <1>11,
     <1>12, <1>13, <1>14, <1>15 DEF Next, Start, Stop, DoTTL

\* Steps that leave the timers, the runs of DoTTL and the field alone keep
\* the heartbeat's invariant, unless they let the main thread wait for a
\* timer or bring back a process that has crashed.
Frame ==
  /\ UNCHANGED <<timer, field, pc, made>>
  /\ \/ app' = app
     \/ app' \notin {"started", "registering", "newtimer", "assign"}
     \/ (app = "started" /\ app' = "registering")
     \/ (app = "registering" /\ app' = "newtimer")
  /\ Crashed => Crashed'

LEMMA FrameStep == HeartbeatInv /\ Frame => HeartbeatInv'
BY DEF Frame, HeartbeatInv, HeartbeatAlive, Armed, Beating, Crashed

LEMMA HeartbeatStep == TypeOK /\ HeartbeatInv /\ [Next]_vars => HeartbeatInv'
<1> SUFFICES ASSUME TypeOK, HeartbeatInv, [Next]_vars PROVE HeartbeatInv'
  OBVIOUS
<1> USE DEF consulVars
<1>1. CASE Consul
  BY <1>1, FrameStep DEF Frame, Consul, ConsulStops, ConsulStarts, Reap, Crashed
<1>2. CASE CreateClient \/ NoAddress \/ RegisterService
  BY <1>2, FrameStep
     DEF Frame, CreateClient, NoAddress, RegisterService, Registered, Refused, Crashed
<1>3. CASE MainNewTimer
  <2>1. field = NoTimer /\ UNCHANGED <<field, pc>> /\ app' = "assign"
    BY <1>3 DEF MainNewTimer, HeartbeatInv
  <2>2. PICK t \in Timer : timer' = [timer EXCEPT ![t] = "oneshot"]
                           /\ made' = [made EXCEPT ![Main] = t]
    BY <1>3 DEF MainNewTimer, NewTimer
  <2>3. made'[Main] = t /\ timer'[t] = "oneshot"
    BY <2>2 DEF TypeOK
  <2>4. \A b \in Beat : made'[b] = made[b]
    BY <2>2 DEF TypeOK
  <2> QED BY <2>1, <2>3, <2>4 DEF HeartbeatInv, HeartbeatAlive, Armed
<1>4. CASE MainStoreTimer
  <2>1. /\ field' = made[Main] /\ field' \in Timer
        /\ Armed(made[Main]) \/ Beating
        /\ UNCHANGED <<timer, pc>> /\ app' = "running"
    BY <1>4 DEF MainStoreTimer, StoreTimer, HeartbeatInv
  <2>2. \A b \in Beat : made'[b] = made[b]
    BY <1>4 DEF MainStoreTimer, StoreTimer, TypeOK
  <2> QED BY <2>1, <2>2 DEF HeartbeatInv, HeartbeatAlive, Armed, Beating
<1>5. CASE DeregisterService
  BY <1>5, FrameStep DEF Frame, DeregisterService, Crashed
<1>6. CASE CloseServer \/ NoClient \/ ShutdownServer
  BY <1>6, FrameStep DEF Frame, CloseServer, NoClient, ShutdownServer, Crashed
<1>7. ASSUME NEW t \in Timer, Fire(t) PROVE HeartbeatInv'
  <2>1. PICK b \in Beat : pc[b] = "none" /\ pc' = [pc EXCEPT ![b] = "begin"]
    BY <1>7 DEF Fire
  <2>2. pc'[b] = "begin" /\ \A c \in Beat : c # b => pc'[c] = pc[c]
    BY <2>1 DEF TypeOK
  <2>3. Beating'
    BY <2>2 DEF Beating
  <2>4. UNCHANGED <<app, field, made>>
    BY <1>7 DEF Fire
  <2> QED BY <2>2, <2>3, <2>4 DEF HeartbeatInv, HeartbeatAlive
<1>8. ASSUME NEW t \in Timer, Collect(t) PROVE HeartbeatInv'
  <2>1. /\ t # field /\ t # made[Main]
        /\ UNCHANGED <<app, field, pc, made>>
    BY <1>8 DEF Collect
  <2>2. \A u \in Timer : u # t => timer'[u] = timer[u]
    BY <1>8 DEF Collect, TypeOK
  <2>3. field # NoTimer => timer'[field] = timer[field]
    BY <2>1, <2>2 DEF TypeOK
  <2>4. app = "assign" => timer'[made[Main]] = timer[made[Main]]
    BY <2>1, <2>2 DEF HeartbeatInv
  <2> QED
    BY <2>1, <2>3, <2>4 DEF HeartbeatInv, HeartbeatAlive, Armed, Beating, Crashed
<1>9. ASSUME NEW b \in Beat, Begin(b) PROVE HeartbeatInv'
  <2>1. UNCHANGED <<field, made>>
    BY <1>9 DEF Begin
  <2>2. CASE field = NoTimer
    <3>1. app' = "null" /\ \A c \in Beat : pc'[c] \in {"none", pc[c]}
      BY <1>9, <2>2 DEF Begin, TypeOK
    <3> QED BY <2>1, <2>2, <3>1 DEF HeartbeatInv, HeartbeatAlive
  <2>3. CASE field # NoTimer
    <3>1. app' = app /\ pc'[b] = "pass" /\ \A c \in Beat : c # b => pc'[c] = pc[c]
      BY <1>9, <2>3 DEF Begin, TypeOK
    <3>2. Beating'
      BY <3>1 DEF Beating
    <3> QED BY <2>1, <2>3, <3>1, <3>2 DEF HeartbeatInv, HeartbeatAlive
  <2> QED BY <2>2, <2>3
\* The steps of DoTTL after its first line: the field is set, the main thread
\* is past its own timer, and DoTTL goes on.
<1>10. ASSUME NEW b \in Beat, pc[b] \notin {"none", "begin"}, pc'[b] # "none",
              \A c \in Beat : c # b => pc'[c] = pc[c] /\ made'[c] = made[c],
              field' # NoTimer, app' = app,
              pc'[b] = "assign" => made'[b] \in Timer
       PROVE HeartbeatInv'
  <2>1. field # NoTimer
    BY <1>10 DEF TypeOK
  <2>2. Beating'
    BY <1>10 DEF Beating
  <2> QED BY <1>10, <2>1, <2>2 DEF HeartbeatInv, HeartbeatAlive
<1>11. ASSUME NEW b \in Beat, PassTTL(b) PROVE HeartbeatInv'
  <2>1. field # NoTimer
    BY <1>11 DEF PassTTL, TypeOK
  <2> QED BY <1>10, <1>11, <2>1 DEF PassTTL, TypeOK
<1>12. ASSUME NEW b \in Beat, RegisterAgain(b) PROVE HeartbeatInv'
  <2>1. field # NoTimer
    BY <1>12 DEF RegisterAgain, TypeOK
  <2> QED BY <1>10, <1>12, <2>1 DEF RegisterAgain, TypeOK
<1>13. ASSUME NEW b \in Beat, BeatNewTimer(b) PROVE HeartbeatInv'
  <2>1. field # NoTimer
    BY <1>13 DEF BeatNewTimer, TypeOK
  <2> QED BY <1>10, <1>13, <2>1 DEF BeatNewTimer, NewTimer, TypeOK
<1>14. ASSUME NEW b \in Beat, BeatStoreTimer(b) PROVE HeartbeatInv'
  <2>1. made[b] \in Timer
    BY <1>14 DEF BeatStoreTimer, HeartbeatInv
  <2> QED BY <1>10, <1>14, <2>1 DEF BeatStoreTimer, StoreTimer, TypeOK
<1>15. ASSUME NEW b \in Beat, Finally(b) PROVE HeartbeatInv'
  <2>1. field \in Timer
    BY <1>15 DEF Finally, HeartbeatInv, TypeOK
  <2>2. Armed(field)' /\ UNCHANGED <<field, made>>
    BY <1>15, <2>1 DEF Finally, TypeOK, Armed
  <2>3. \A c \in Beat : pc'[c] \in {"none", pc[c]}
    BY <1>15 DEF Finally, TypeOK
  <2>4. app \notin {"started", "registering", "newtimer", "assign"}
        /\ app' \in {app, "refused"}
    BY <1>15, <2>1 DEF Finally, HeartbeatInv
  <2> QED BY <2>1, <2>2, <2>3, <2>4 DEF HeartbeatInv, HeartbeatAlive
<1>16. CASE UNCHANGED vars
  BY <1>16, FrameStep DEF Frame, vars, Crashed
<1> QED
  BY <1>1, <1>2, <1>3, <1>4, <1>5, <1>6, <1>7, <1>8, <1>9, <1>11, <1>12,
     <1>13, <1>14, <1>15, <1>16 DEF Next, Start, Stop, DoTTL

\* Steps of the timers and of the heartbeat only happen with TTLCheck.
LEMMA QuietStep == TypeOK /\ QuietWithTcp /\ [Next]_vars => QuietWithTcp'
<1> SUFFICES ASSUME TypeOK, QuietWithTcp, [Next]_vars PROVE QuietWithTcp'
  OBVIOUS
<1> USE DEF consulVars
<1>1. CASE Consul
  <2>1. registered' = registered \/ registered' = FALSE
    BY <1>1, Zenon DEF Consul, ConsulStops, ConsulStarts, Reap
  <2>2. UNCHANGED <<config, app, stop, timer, pc>>
    BY <1>1 DEF Consul, ConsulStops, ConsulStarts, Reap
  <2>3. registered' => registered
    BY <2>1, Zenon
  <2> QED BY <2>2, <2>3 DEF QuietWithTcp
<1>2. CASE CreateClient \/ NoAddress
  BY <1>2 DEF QuietWithTcp, CreateClient, NoAddress
<1>3. CASE RegisterService
  BY <1>3 DEF QuietWithTcp, RegisterService, Registered, Refused
<1>4. CASE MainNewTimer \/ MainStoreTimer
  BY <1>4 DEF QuietWithTcp, MainNewTimer, MainStoreTimer
<1>5. CASE CloseServer \/ NoClient \/ ShutdownServer
  BY <1>5 DEF QuietWithTcp, CloseServer, NoClient, MayDeregister, ShutdownServer
<1>9. CASE DeregisterService
  <2>1. registered' = (registered /\ ~up) /\ UNCHANGED <<config, app, timer, pc, up>>
    BY <1>9 DEF DeregisterService
  <2>2. CASE up
    <3>1. ~registered'
      BY <2>1, <2>2, Zenon
    <3>2. config.aspnet \/ app \in {"running", "noaddress", "unregistered"}
      BY <1>9 DEF DeregisterService, MayDeregister
    <3> QED BY <2>1, <3>1, <3>2 DEF QuietWithTcp
  <2>3. CASE ~up
    <3>1. stop' = "unstopped" /\ (config.aspnet \/ app \in {"running", "noaddress", "unregistered"})
      BY <1>9, <2>3 DEF DeregisterService, MayDeregister
    <3> QED BY <2>1, <3>1 DEF QuietWithTcp
  <2> QED BY <2>2, <2>3
<1>6. ASSUME NEW t \in Timer, Fire(t) \/ Collect(t) PROVE QuietWithTcp'
  <2>1. config.ttl /\ UNCHANGED <<config, registered, app, stop>>
    BY <1>6 DEF QuietWithTcp, Fire, Collect
  <2> QED BY <2>1 DEF QuietWithTcp
<1>7. ASSUME NEW b \in Beat, DoTTL(b) PROVE QuietWithTcp'
  <2>1. config.ttl
    BY <1>7 DEF QuietWithTcp, DoTTL, Begin, PassTTL, RegisterAgain,
                BeatNewTimer, BeatStoreTimer, Finally
  <2>2. UNCHANGED <<config, stop>> /\ app' \in {app, "null", "refused"}
    BY <1>7 DEF DoTTL, Begin, PassTTL, RegisterAgain,
                BeatNewTimer, BeatStoreTimer, Finally
  <2> QED BY <2>1, <2>2 DEF QuietWithTcp
<1>8. CASE UNCHANGED vars
  BY <1>8 DEF QuietWithTcp, vars
<1> QED
  BY <1>1, <1>2, <1>3, <1>4, <1>5, <1>6, <1>7, <1>8, <1>9 DEF Next, Start, Stop

\* The invariant is inductive.
THEOREM RegisterInvariance == Spec => []IInv
<1>1. IInv /\ [Next]_vars => IInv'
  BY TypeStep, HeartbeatStep, QuietStep DEF IInv
<1> QED BY InvInit, <1>1, PTL DEF Spec

\* The types of the state, among them that no step uses a timer that is null
\* but the one that ends the process.
THEOREM TypeCorrect == Spec => []TypeOK
<1>1. IInv => TypeOK
  BY DEF IInv
<1> QED BY RegisterInvariance, <1>1, PTL

\* However heartbeats, re-registrations and failures of Consul interleave, a
\* registered service that has not crashed keeps a heartbeat.
THEOREM HeartbeatSurvives == Spec => []HeartbeatAlive
<1>1. IInv => HeartbeatAlive
  BY DEF IInv, HeartbeatInv
<1> QED BY RegisterInvariance, <1>1, PTL

\* With TCPCheck a Grpc.Core server that has stopped is not registered,
\* whatever fails and however often Consul restarts.
THEOREM TcpStaysDeregistered == Spec => []StoppedWithTcp
<1>1. IInv => StoppedWithTcp
  BY DEF IInv, QuietWithTcp, StoppedWithTcp
<1> QED BY RegisterInvariance, <1>1, PTL
=============================================================================
