----------------------------- MODULE MCRuntime ------------------------------
(* What lives in the server process beside its stores: the registry of     *)
(* loaded spaces and the runner loop of an agent, side by side.  They share *)
(* no state, so a behaviour follows one of them and the other stands still: *)
(* the registry with two requests and no shutdown, the registry with one   *)
(* request and every way the service can end, or the runner.               *)
EXTENDS SpaceRegistry, RunnerLoop

CONSTANT r1
VARIABLE focus

runtimeVars == <<registryVars, runnerVars, focus>>

RuntimeInit ==
  /\ RegistryInit /\ RunnerInit /\ focus \in {"loads", "service", "runner"}
  /\ focus # "runner" => host = "recall"

Undisturbed == ~cancelled' /\ server' \in {"unborn", "serving"} /\ keeper'.pc # "dead"
OneRequest == \A r \in Requests \ {r1} : request'[r] = Gone

RuntimeNext ==
  /\ UNCHANGED focus
  /\ \/ focus = "loads" /\ RegistryNext /\ Undisturbed /\ UNCHANGED runnerVars
     \/ focus = "service" /\ RegistryNext /\ OneRequest /\ UNCHANGED runnerVars
     \/ focus = "runner" /\ RunnerNext /\ UNCHANGED registryVars

RuntimeSpec ==
  /\ RuntimeInit /\ [][RuntimeNext]_runtimeVars
  /\ RegistryFairness /\ WF_runnerVars(RunnerStep)

\* The registry and the runner get on: the service ends with its tasks, idle
\* entries go, loads end, and so does every run of an agent.
EverythingEnds == EndsTogether /\ IdleEntriesGo /\ LoadsEnd /\ EveryRunEnds
=============================================================================
