---------------------------- MODULE ConsulRegister ----------------------------
(***************************************************************************)
(* ConsulServiceRegister with either check, and the two hosts that start   *)
(* and stop it: a Grpc.Core server (StartAndRegisterService and            *)
(* StopAndDeRegisterService, called one after the other) and an ASP.NET    *)
(* Core host (RegisterServiceHosted), which may stop at any point of the   *)
(* registration.  The heartbeat DoTTL runs on the thread pool, started by  *)
(* a System.Threading Timer; several may run at once, and a                *)
(* re-registration makes a new timer.  The Consul agent is external: it    *)
(* refuses calls while it is down and may lose the registration when it    *)
(* restarts or reaps the service, or when the dashboard removes it.        *)
(***************************************************************************)
EXTENDS Naturals

CONSTANTS
  Timer,      \* names of timer objects; one that is collected is used again
  NoTimer,    \* null
  Beat,       \* runs of DoTTL that may be under way together
  Main,       \* the thread that starts and stops the server
  MaxLosses   \* bound on the failures of Consul

ASSUME TimerAssumption == NoTimer \notin Timer
ASSUME MainAssumption == Main \notin Beat
ASSUME LossesAssumption == MaxLosses \in Nat

VARIABLES
  config,     \* which check and which host; never changes
  up,         \* Consul answers
  registered, \* Consul holds the registration and its check
  losses,     \* failures of Consul so far
  app,        \* what the registration has come to, or why the process ended
  stop,       \* what stopping the host has come to
  serving,    \* the gRPC server listens
  timer,      \* "oneshot": due at once; "periodic": every DiscoveryTTLInterval
  field,      \* _timerTTL
  pc,         \* each run of DoTTL
  made        \* the timer made by a thread that has yet to store it in the field

consulVars == <<up, registered, losses>>
vars == <<config, up, registered, losses, app, stop, serving, timer, field, pc, made>>

Config == [ttl : BOOLEAN, aspnet : BOOLEAN]

TypeOK ==
  /\ config \in Config
  /\ up \in BOOLEAN /\ registered \in BOOLEAN
  /\ losses \in 0 .. MaxLosses
  /\ app \in {"started", "registering", "newtimer", "assign", "running",
              "unregistered", "noaddress", "null", "refused"}
  /\ stop \in {"no", "closed", "deregistered", "stopped", "unstopped", "noclient"}
  /\ serving \in BOOLEAN
  /\ timer \in [Timer -> {"absent", "off", "oneshot", "periodic"}]
  /\ field \in Timer \union {NoTimer}
  /\ pc \in [Beat -> {"none", "begin", "pass", "register", "newtimer", "assign",
                      "finally", "rethrow"}]
  /\ made \in [Beat \union {Main} -> Timer \union {NoTimer}]
  /\ \A b \in Beat : pc[b] \notin {"none", "begin"} => field \in Timer

Init ==
  /\ config \in Config
  /\ up \in BOOLEAN /\ registered = FALSE
  /\ losses = 0
  /\ app = "started" /\ stop = "no" /\ serving = TRUE
  /\ timer = [t \in Timer |-> "absent"]
  /\ field = NoTimer
  /\ pc = [b \in Beat |-> "none"]
  /\ made = [x \in Beat \union {Main} |-> NoTimer]

\* An exception out of the async void callback of a timer ends the process:
\* app is then its cause.
Crashed == app \in {"null", "refused"}

-----------------------------------------------------------------------------
\* Consul.
ConsulStops ==
  /\ up /\ losses < MaxLosses
  /\ up' = FALSE /\ losses' = losses + 1
  /\ UNCHANGED <<config, stop, registered, app, serving, timer, field, pc, made>>

\* What it has kept of the registration depends on how it was stopped.
ConsulStarts ==
  /\ ~up
  /\ up' = TRUE /\ registered' \in {registered, FALSE}
  /\ UNCHANGED <<config, stop, losses, app, serving, timer, field, pc, made>>

\* DeregisterCriticalServiceAfter: heartbeats came too late.
Reap ==
  /\ up /\ registered /\ losses < MaxLosses
  /\ registered' = FALSE /\ losses' = losses + 1
  /\ UNCHANGED <<config, stop, up, app, serving, timer, field, pc, made>>

-----------------------------------------------------------------------------
\* new Timer(..., 0, Timeout.Infinite), not yet stored in _timerTTL.
NewTimer(x) ==
  \E t \in Timer :
    /\ timer[t] = "absent"
    /\ timer' = [timer EXCEPT ![t] = "oneshot"]
    /\ made' = [made EXCEPT ![x] = t]

StoreTimer(x) ==
  /\ field' = made[x]
  /\ made' = [made EXCEPT ![x] = NoTimer]

\* A timer nothing refers to is finalised by the garbage collector.
Collect(t) ==
  /\ ~Crashed
  /\ timer[t] # "absent" /\ t # field
  /\ \A x \in Beat \union {Main} : made[x] # t
  /\ timer' = [timer EXCEPT ![t] = "absent"]
  /\ UNCHANGED <<config, stop, consulVars, app, serving, field, pc, made>>

-----------------------------------------------------------------------------
\* Both hosts register on a thread of their own: StartAndRegisterService on
\* the caller's, Start on the callback of ApplicationStarted.
CreateClient ==
  /\ app = "started"
  /\ app' = "registering"
  /\ UNCHANGED <<config, consulVars, stop, serving, timer, field, pc, made>>

\* The server listens on no port, or the host has no address.
NoAddress ==
  /\ app = "started"
  /\ app' = "noaddress"
  /\ UNCHANGED <<config, consulVars, stop, serving, timer, field, pc, made>>

\* Mutant of Registered: the timer is started whatever the check.
RegisteredAnyCheck ==
  /\ registered' = TRUE
  /\ app' = "newtimer"

Registered ==
  /\ registered' = TRUE
  /\ app' = IF config.ttl THEN "newtimer" ELSE "running"

\* Consul's refusal leaves StartAndRegisterService with the server running,
\* but ends the process when it leaves the async void callback of the host.
Refused ==
  /\ registered' = registered
  /\ app' = IF config.aspnet THEN "refused" ELSE "unregistered"

RegisterService ==
  /\ app = "registering"
  /\ IF up THEN Registered ELSE Refused
  /\ UNCHANGED <<config, up, losses, stop, serving, timer, field, pc, made>>

MainNewTimer ==
  /\ app = "newtimer"
  /\ NewTimer(Main)
  /\ app' = "assign"
  /\ UNCHANGED <<config, consulVars, stop, serving, field, pc>>

MainStoreTimer ==
  /\ app = "assign"
  /\ StoreTimer(Main)
  /\ app' = "running"
  /\ UNCHANGED <<config, consulVars, stop, serving, timer, pc>>

\* A Grpc.Core server is stopped by the thread that started it; the ASP.NET
\* Core host stops its own server before the hosted service, at any time.
CloseServer ==
  /\ ~Crashed /\ config.aspnet /\ stop = "no"
  /\ serving' = FALSE /\ stop' = "closed"
  /\ UNCHANGED <<config, consulVars, app, timer, field, pc, made>>

\* A Grpc.Core server is stopped once its registration has returned, whether
\* it succeeded, found no port or threw.
MayDeregister ==
  /\ ~Crashed
  /\ IF config.aspnet
       THEN stop = "closed"
       ELSE stop = "no" /\ app \in {"running", "noaddress", "unregistered"}

\* There is no client before RegisterService: the null reference leaves the
\* handler, of a Grpc.Core server before it is shut down.
NoClient ==
  /\ MayDeregister /\ app \in {"started", "noaddress"}
  /\ stop' = "noclient"
  /\ UNCHANGED <<config, consulVars, app, serving, timer, field, pc, made>>

\* When Consul refuses, the exception leaves before the server is shut down.
\* The timer is left alone.
DeregisterService ==
  /\ MayDeregister /\ app \notin {"started", "noaddress"}
  /\ registered' = (registered /\ ~up)
  /\ stop' = IF ~up THEN "unstopped"
             ELSE IF config.aspnet THEN "stopped" ELSE "deregistered"
  /\ UNCHANGED <<config, up, losses, app, serving, timer, field, pc, made>>

ShutdownServer ==
  /\ ~Crashed /\ stop = "deregistered"
  /\ serving' = FALSE
  /\ stop' = "stopped"
  /\ UNCHANGED <<config, consulVars, app, timer, field, pc, made>>

-----------------------------------------------------------------------------
\* The timer queues its callback, a run of DoTTL.
Fire(t) ==
  \E b \in Beat :
    /\ ~Crashed
    /\ timer[t] \in {"oneshot", "periodic"}
    /\ pc[b] = "none"
    /\ timer' = [timer EXCEPT ![t] = IF @ = "oneshot" THEN "off" ELSE @]
    /\ pc' = [pc EXCEPT ![b] = "begin"]
    /\ UNCHANGED <<config, stop, consulVars, app, serving, field, made>>

\* Mutant of Begin: _timerTTL?.Change(...).
BeginAnyway(b) ==
  /\ ~Crashed /\ pc[b] = "begin"
  /\ timer' = [t \in Timer |-> IF t = field THEN "off" ELSE timer[t]]
  /\ pc' = [pc EXCEPT ![b] = "pass"]
  /\ UNCHANGED <<config, stop, consulVars, app, serving, field, made>>

\* _timerTTL is read here: it may be null, or another timer than the one
\* that fired.
Begin(b) ==
  /\ ~Crashed /\ pc[b] = "begin"
  /\ IF field = NoTimer
       THEN /\ app' = "null"
            /\ pc' = [pc EXCEPT ![b] = "none"]
            /\ UNCHANGED timer
       ELSE /\ timer' = [timer EXCEPT ![field] = "off"]
            /\ pc' = [pc EXCEPT ![b] = "pass"]
            /\ UNCHANGED app
  /\ UNCHANGED <<config, stop, consulVars, serving, field, made>>

\* Mutant of PassTTL: an exception skips the call that arms the timer.
PassTTLNoFinally(b) ==
  /\ ~Crashed /\ pc[b] = "pass"
  /\ pc' = [pc EXCEPT ![b] = IF ~up THEN "none"
                             ELSE IF registered THEN "finally" ELSE "register"]
  /\ UNCHANGED <<config, stop, consulVars, app, serving, timer, field, made>>

\* Mutant of PassTTL: the text of Consul's error is not recognised.
PassTTLNotRecognised(b) ==
  /\ ~Crashed /\ pc[b] = "pass"
  /\ pc' = [pc EXCEPT ![b] = "finally"]
  /\ UNCHANGED <<config, stop, consulVars, app, serving, timer, field, made>>

\* Consul knows the check, does not know it ("does not have associated TTL"),
\* or refuses the connection, which is only logged.
PassTTL(b) ==
  /\ ~Crashed /\ pc[b] = "pass"
  /\ pc' = [pc EXCEPT ![b] = IF up /\ ~registered THEN "register" ELSE "finally"]
  /\ UNCHANGED <<config, stop, consulVars, app, serving, timer, field, made>>

\* An exception here leaves DoTTL, after its finally block.
RegisterAgain(b) ==
  /\ ~Crashed /\ pc[b] = "register"
  /\ registered' = (registered \/ up)
  /\ pc' = [pc EXCEPT ![b] = IF up THEN "newtimer" ELSE "rethrow"]
  /\ UNCHANGED <<config, stop, up, losses, app, serving, timer, field, made>>

BeatNewTimer(b) ==
  /\ ~Crashed /\ pc[b] = "newtimer"
  /\ NewTimer(b)
  /\ pc' = [pc EXCEPT ![b] = "assign"]
  /\ UNCHANGED <<config, stop, consulVars, app, serving, field>>

BeatStoreTimer(b) ==
  /\ ~Crashed /\ pc[b] = "assign"
  /\ StoreTimer(b)
  /\ pc' = [pc EXCEPT ![b] = "finally"]
  /\ UNCHANGED <<config, stop, consulVars, app, serving, timer>>

Finally(b) ==
  /\ ~Crashed /\ pc[b] \in {"finally", "rethrow"}
  /\ timer' = [timer EXCEPT ![field] = "periodic"]
  /\ app' = IF pc[b] = "rethrow" THEN "refused" ELSE app
  /\ pc' = [pc EXCEPT ![b] = "none"]
  /\ UNCHANGED <<config, stop, consulVars, serving, field, made>>

-----------------------------------------------------------------------------
Consul == ConsulStops \/ ConsulStarts \/ Reap

Start ==
  CreateClient \/ NoAddress \/ RegisterService \/ MainNewTimer \/ MainStoreTimer

Stop == CloseServer \/ NoClient \/ DeregisterService \/ ShutdownServer

DoTTL(b) ==
  \/ Begin(b) \/ PassTTL(b) \/ RegisterAgain(b)
  \/ BeatNewTimer(b) \/ BeatStoreTimer(b) \/ Finally(b)

Next ==
  \/ Consul \/ Start \/ Stop
  \/ \E t \in Timer : Fire(t) \/ Collect(t)
  \/ \E b \in Beat : DoTTL(b)

Spec == Init /\ [][Next]_vars

\* Consul is started again, timers fire, started code runs on, and the
\* collector gets to what is left over.  Nothing makes the server stop.
Fairness ==
  /\ WF_vars(ConsulStarts) /\ WF_vars(Start) /\ WF_vars(ShutdownServer)
  /\ \A t \in Timer : WF_vars(Fire(t)) /\ WF_vars(Collect(t))
  /\ \A b \in Beat : WF_vars(DoTTL(b))

FairSpec == Spec /\ Fairness
-----------------------------------------------------------------------------
Armed(t) == timer[t] \in {"oneshot", "periodic"}

Beating == \E b \in Beat : pc[b] # "none"

\* The heartbeat never dies silently: once the service is registered, and as
\* long as the process lives, the timer in _timerTTL is armed or a run of
\* DoTTL is under way (which arms it in the end).  Heartbeats that overlap
\* stop and replace each other's timers.
HeartbeatAlive ==
  field # NoTimer /\ ~Crashed => Armed(field) \/ Beating

\* Why: the main thread sets _timerTTL once, before a run of DoTTL gets past
\* its first line (see TypeOK), and a timer about to be stored has not fired,
\* or the run it started is waiting.
HeartbeatInv ==
  /\ HeartbeatAlive
  /\ app \in {"started", "registering", "newtimer", "assign"} => field = NoTimer
  /\ app = "assign" => made[Main] \in Timer /\ (Armed(made[Main]) \/ Beating)
  /\ \A b \in Beat :
       pc[b] = "assign" => made[b] \in Timer

\* A registration Consul has lost is made again while the server runs, under
\* either host (with a TCP check it stays lost).
Reregisters ==
  config.ttl /\ app = "running" /\ stop = "no" /\ ~registered
    ~> registered \/ Crashed \/ stop # "no"

\* A server that has stopped comes back to Consul only through a heartbeat, or
\* when an ASP.NET Core host stopped while its registration was under way.
\* In particular the order of StopAndDeRegisterService is safe with TCPCheck.
StoppedWithTcp == stop = "stopped" /\ registered => config.ttl \/ config.aspnet

\* Why: without TTLCheck nothing but the start of the server registers it.
QuietWithTcp ==
  /\ ~config.ttl =>
       /\ app \notin {"newtimer", "assign"}
       /\ \A t \in Timer : timer[t] = "absent"
       /\ \A b \in Beat : pc[b] = "none"
  /\ ~config.aspnet /\ stop # "no"
       => app \in {"running", "noaddress", "unregistered", "null", "refused"}
  /\ ~config.ttl /\ ~config.aspnet /\ stop \in {"deregistered", "stopped"}
       => ~registered

IInv == TypeOK /\ HeartbeatInv /\ QuietWithTcp

\* "DeregisterService: 从consul反注册": a server that has stopped is not
\* registered any more.
StaysDeregistered == ~config.aspnet /\ stop = "stopped" => ~registered

\* DoTTL's comment on a refused connection: "这种情况下，不去处理，等consul
\* 服务重启之后就好了" (nothing is done, it is well when Consul is back).
RefusedIsHarmless ==
  \A b \in Beat : pc[b] # "rethrow"
=============================================================================
