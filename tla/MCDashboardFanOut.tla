-------------------------- MODULE MCDashboardFanOut --------------------------
(* An instance of DashboardFanOut.  Each behaviour has one kind of trouble:  *)
(* crashes while operations follow each other, two operations at a time on   *)
(* instances that may lock themselves, or a service that is unregistered and *)
(* whose heartbeats come late.  The first switch is one that is turned on.    *)
EXTENDS DashboardFanOut

VARIABLE focus

MCInit == Init /\ focus \in {"crashes", "locks", "unregister"}

Fits(d) ==
  /\ op[d].number = 1 /\ ~op[d].unregister => op[d].on
  /\ focus # "locks" => op[d].method # ThrottleCmd \/ op[d].unregister
  /\ focus # "locks" => d = CHOOSE e \in Dashboard : TRUE
  /\ focus # "unregister" => ~op[d].unregister

OnTime ==
  \A i \in running :
    Own(i) \in passing /\ Own(i) \in registered' => Own(i) \in passing'

MCNext ==
  /\ Next /\ UNCHANGED focus
  /\ \A d \in Dashboard : op'[d].at = "ask" => Fits(d)'
  /\ focus # "crashes" => running' = running
  /\ focus # "unregister" => OnTime

MCSpec == MCInit /\ [][MCNext]_<<vars, focus>> /\ Fairness
=============================================================================
