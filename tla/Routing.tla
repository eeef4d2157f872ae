------------------------------ MODULE Routing ------------------------------
(* agents/control_plane.py and agents/gpu_control.py: route() classifies a task,
   applies the policy, builds a plan and degrades it when resources are short.
   Each of these asks the GPU layer for the status, which caches a reading for
   two seconds: the GPU may change, and the cache expire, between any two of
   them, so one plan can rest on several readings. *)
EXTENDS Naturals, FiniteSets

CONSTANTS
  Readings,    \* [vram, temp]: percent of VRAM in use, degrees
  CallCounts,  \* values of estimated_llm_calls that the model answers
  MaxBudget,   \* max_llm_budget (50 by default)
  MaxCalls     \* bound of the model on recorded LLM calls

ASSUME RoutingAssumption ==
  /\ Readings \subseteq [vram : 0 .. 100, temp : Nat]
  /\ CallCounts \subseteq Nat /\ MaxBudget \in Nat /\ MaxCalls \in Nat

VARIABLES
  gpu,      \* what nvidia-smi would answer now; NoGpu when there is none
  cache,    \* _status_cache, and whether it is still within its two seconds
  route,    \* the call of route() under way and its ExecutionPlan
  reading,     \* the readings the call has used, in no order (history)
  calls     \* _session_stats["llm_calls"]

rvars == <<gpu, cache, route, reading, calls>>

ModesOfPlan == {"SINGLE", "SWARM", "DEVOPS", "TOOL"}
PressureLevels == {"low", "medium", "high", "critical"}
NoGpu == [vram |-> 0, temp |-> 0]    \* GPUStatus() of a host without a GPU

PressureLevel(r) ==
  CASE r.vram < 50 -> "low" [] r.vram \in 50 .. 74 -> "medium"
    [] r.vram \in 75 .. 89 -> "high" [] OTHER -> "critical"
(* _calc_thermal_state(): HOT from 75 degrees on; without a GPU the default of
   the dataclass, NOMINAL. *)
IsOverheating(r) == r.temp >= 75
CanRunSwarm(r) == r.vram < 85 /\ r.temp < 83
CanRunLlm(r) == ~IsOverheating(r) /\ r.vram < 95

NoRoute == [pc |-> "idle", mode |-> "TOOL", gpuPressure |-> "low", memPressure |-> "low",
            calls |-> 0, decision |-> "ALLOW", gpuAllowed |-> TRUE, memAllowed |-> TRUE,
            last |-> NoGpu]

RoutingTypeOK ==
  /\ gpu \in Readings \cup {NoGpu}
  /\ cache \in [fresh : BOOLEAN, status : Readings \cup {NoGpu}]
  /\ route.mode \in ModesOfPlan /\ route.decision \in {"ALLOW", "DENY", "DEGRADE"}
  /\ route.pc \in {"idle", "evaluate", "build", "degrade", "reduce", "suggest", "fallback", "planned", "raised"}
  /\ reading \subseteq Readings \cup {NoGpu} /\ calls \in 0 .. MaxCalls

RoutingInit ==
  /\ gpu \in Readings \cup {NoGpu} /\ cache = [fresh |-> FALSE, status |-> NoGpu]
  /\ route = NoRoute /\ reading = {} /\ calls = 0

(* get_status(): the cached reading while it is fresh, else a new one; the
   absence of a GPU is never cached. *)
GetStatus == IF cache.fresh THEN cache.status ELSE gpu
Read ==
  /\ cache' = IF cache.fresh \/ gpu = NoGpu THEN cache ELSE [fresh |-> TRUE, status |-> gpu]
  /\ reading' = reading \cup {GetStatus}
  /\ UNCHANGED <<gpu, calls>>

(* The world: the load changes, or two seconds pass. *)
GpuChanges == gpu' \in Readings \cup {NoGpu} /\ UNCHANGED <<cache, route, reading, calls>>
CacheExpires ==
  cache.fresh /\ cache' = [cache EXCEPT !.fresh = FALSE] /\ UNCHANGED <<gpu, route, reading, calls>>

Calling == route.pc \notin {"idle", "planned", "raised"}

(* _llm_classify(): everything in the analysis is the model's word, the
   pressures included, and does not ask the GPU. *)
LlmClassify ==
  /\ ~Calling
  /\ \E mode \in ModesOfPlan, g \in PressureLevels \ {"critical"},
        m \in {"low", "high"}, n \in CallCounts :
       route' = [NoRoute EXCEPT !.pc = "evaluate", !.mode = mode, !.gpuPressure = g,
                                !.memPressure = m, !.calls = n]
  /\ reading' = {} /\ UNCHANGED <<gpu, cache, calls>>

(* _fallback_classify(): keywords give the mode, the GPU its pressure. *)
FallbackClassify ==
  /\ ~Calling
  /\ \E mode \in ModesOfPlan :
       route' = [NoRoute EXCEPT !.pc = "evaluate", !.mode = mode,
                   !.gpuPressure = PressureLevel(GetStatus),
                   !.calls = IF mode = "DEVOPS" THEN 10 ELSE 20]
  /\ cache' = IF cache.fresh \/ gpu = NoGpu THEN cache ELSE [fresh |-> TRUE, status |-> gpu]
  /\ reading' = {GetStatus} /\ UNCHANGED <<gpu, calls>>

(* PolicyEngine.evaluate(): the dangerous patterns are looked for in the
   model's own explanation.  TOOL is allowed whatever the pressure. *)
Evaluated(r, status, dangerous) ==
  LET short == \/ status.vram >= 90 \/ IsOverheating(status)
               \/ r.memPressure = "high" \/ r.gpuPressure = "critical"
               \/ r.mode = "SWARM" /\ r.gpuPressure = "high"
  IN IF dangerous THEN "DENY" ELSE IF r.mode # "TOOL" /\ short THEN "DEGRADE" ELSE "ALLOW"

Evaluate ==
  /\ route.pc = "evaluate"
  /\ \E dangerous \in BOOLEAN :
       route' = [route EXCEPT !.pc = "build", !.last = GetStatus,
                              !.decision = Evaluated(route, GetStatus, dangerous)]
  /\ Read

(* _build_plan(): ask for the GPU by the mode of before any degradation. *)
GpuAllowed(mode, status) ==
  CASE mode = "SWARM" -> CanRunSwarm(status)
    [] mode \in {"SINGLE", "DEVOPS"} -> CanRunLlm(status)
    [] OTHER -> TRUE
PlanOf ==
  /\ route.pc = "build"
  /\ \E pressure \in {"low", "medium", "high"} :
       route' = [route EXCEPT
         !.pc = IF route.decision = "DEGRADE" THEN "degrade" ELSE "planned",
         !.gpuAllowed = GpuAllowed(route.mode, GetStatus),
         !.memAllowed = pressure \in {"low", "medium"},
         !.calls = IF @ < MaxBudget THEN @ ELSE MaxBudget,
         !.last = IF route.mode = "TOOL" THEN @ ELSE GetStatus]
  /\ IF route.mode = "TOOL" THEN UNCHANGED <<gpu, cache, reading, calls>> ELSE Read

(* A mode the model made up is no ExecutionMode. *)
BadMode == route.pc = "build" /\ route' = [route EXCEPT !.pc = "raised"]
           /\ UNCHANGED <<gpu, cache, reading, calls>>

(* suggest_downgrade(): can_run_swarm() and then can_run_llm() on a reading of
   its own.  A SWARM that may not run becomes SINGLE if one model may. *)
SuggestSwarm ==
  /\ route.pc = "degrade"
  /\ route' = [route EXCEPT !.last = GetStatus,
       !.pc = IF route.mode = "SWARM" /\ ~CanRunSwarm(GetStatus) THEN "reduce" ELSE "suggest"]
  /\ Read
Reduce ==
  /\ route.pc = "reduce"
  /\ route' = [route EXCEPT !.pc = "planned", !.last = GetStatus,
                            !.mode = IF CanRunLlm(GetStatus) THEN "SINGLE" ELSE "TOOL"]
  /\ Read

\* Mutant of Downgrade: a SWARM is not taken down to TOOL.
DowngradeSingle(mode, status) ==
  IF mode = "SINGLE" /\ ~CanRunLlm(status) THEN "TOOL" ELSE mode

Downgrade(mode, status) ==
  IF mode \in {"SINGLE", "SWARM"} /\ ~CanRunLlm(status) THEN "TOOL" ELSE mode
Suggest ==
  /\ route.pc = "suggest"
  /\ route' = [route EXCEPT !.last = GetStatus, !.mode = Downgrade(@, GetStatus),
       !.pc = IF route.mode = "SINGLE" /\ CanRunLlm(GetStatus) THEN "fallback" ELSE "planned"]
  /\ Read

(* _apply_degradation(): a SINGLE for which nothing was suggested is looked at
   once more.  A DEVOPS stays what it is. *)
FallBack ==
  /\ route.pc = "fallback"
  /\ route' = [route EXCEPT !.pc = "planned", !.last = GetStatus,
                            !.mode = IF CanRunLlm(GetStatus) THEN @ ELSE "TOOL"]
  /\ Read

(* record_llm_call() and budget_remaining(). *)
RecordLlmCall ==
  calls < MaxCalls /\ calls' = calls + 1 /\ UNCHANGED <<gpu, cache, route, reading>>
BudgetRemaining == IF calls < MaxBudget THEN MaxBudget - calls ELSE 0

RoutingNext ==
  \/ GpuChanges \/ CacheExpires \/ LlmClassify \/ FallbackClassify \/ Evaluate
  \/ PlanOf \/ BadMode \/ SuggestSwarm \/ Reduce \/ Suggest \/ FallBack \/ RecordLlmCall

RoutingSpec == RoutingInit /\ [][RoutingNext]_rvars

-----------------------------------------------------------------------------
Planned == route.pc = "planned"

(* A degraded plan never asks for a model that the newest reading it used
   forbids, however often the GPU changed while it was made
   (control_plane.py:385, gpu_control.py:273). *)
DegradedFits ==
  Planned /\ route.decision = "DEGRADE" /\ route.mode \in {"SINGLE", "SWARM"}
    => CanRunLlm(route.last)

(* What a plan allows was possible for its mode on one of the readings the call
   looked at, although gpu_allowed is that of the mode before degradation. *)
AllowedWasPossible ==
  Planned /\ route.gpuAllowed /\ route.mode # "TOOL"
    => \E r \in reading : GpuAllowed(route.mode, r)

PlanFits == DegradedFits /\ AllowedWasPossible
=============================================================================
