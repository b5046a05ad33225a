---------------------------- MODULE MCCallPipeline ----------------------------
(* An instance of CallPipeline.  Each behaviour is about one thing: commands *)
(* to MonitorManager, commands to ThrottleManager, or what calls carry with  *)
(* them.  The others stay in the background.                                 *)
EXTENDS CallPipeline, TLC

VARIABLE focus

MCInit == PipelineInit /\ focus \in {"responses", "throttling", "traces"}

Plain(new) == new.unary /\ new.header = "none" /\ new.parent = NoCaller

Fits(new) ==
  CASE focus = "responses" -> Plain(new) /\ new.method \notin {ThrottleCmd, MetaInvoke}
    [] focus = "throttling" -> Plain(new) /\ new.method # SaveCmd
    [] focus = "traces" -> new.command = NoCommand /\ new.method # MetaInvoke

MCNext ==
  /\ PipelineNext
  /\ \A c \in Caller : call'[c] \in {call[c], NoCall} \/ Fits(call'[c])
  /\ UNCHANGED focus

MCSpec == MCInit /\ [][MCNext]_<<pipelineVars, focus>>

Symmetry == Permutations(Caller)
=============================================================================
