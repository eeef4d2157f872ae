------------------------------ MODULE Autonomy ------------------------------
(* The autonomous loop of TAAR v5 (agents/taar_v5.py): observe the machine,
   generate missions, rank them, plan each of them, store an episode and evolve
   a policy of its own.  It runs beside TAAR_OS (Missions) and appends to the
   same file of episodes. *)
EXTENDS Missions

CONSTANT MaxStops   \* bound on the interrupts of the operator

VARIABLES
  running,  \* the flag of run_continuous: "before", "on" or "off"
  seen,     \* the loop's own list of episodes: the file as it was, and what it added
  due,      \* missions of the cycle under way that are still to be planned
  planned,  \* missions in its controller's active_missions: planned, never executed
  tuning,   \* devops_sensitivity and stability_threshold of the evolver
  stops     \* interrupts delivered

avars == <<running, seen, due, planned, tuning, stops>>

AutonomyInit ==
  /\ running = "before" /\ seen = file /\ due = 0 /\ planned = 0 /\ stops = 0
  /\ tuning = [devops |-> 70, stability |-> 75]

\* observe() is given no failures and no outcomes, so both rates stay at their best
Stability(gpu, memory) == (700 + 2 * (100 - memory) + (100 - gpu)) \div 10

\* generate: the metrics it targets, most of its rules being out of reach from observe()
Generate(gpu, memory) ==
  LET s == Stability(gpu, memory)
      some == (IF s < 50 THEN {"critical"} ELSE IF s < 75 THEN {"stability"} ELSE {})
              \cup (IF gpu > 85 THEN {"gpu"} ELSE {})
              \cup (IF memory > 80 THEN {"memory"} ELSE {})
  IN  IF some = {} /\ s >= 75 /\ gpu < 50 /\ memory < 60
      THEN {"efficiency", "memory_size"} ELSE some

\* prioritize: impact and cost in thousandths of the score; only a score below the
\* threshold under load is dropped
Impact(m, gpu, memory) ==
  CASE m = "critical" -> 9 * (150 - Stability(gpu, memory))
    [] m = "stability" -> 7 * (150 - Stability(gpu, memory))
    [] m = "gpu" -> 5 * (gpu + 30)
    [] m = "memory" -> 500
    [] OTHER -> 300
Cost(m) == CASE m \in {"critical", "stability"} -> 400 [] m = "gpu" -> 500
             [] m = "memory" -> 300 [] m = "efficiency" -> 100 [] OTHER -> 50
Score(m, gpu, memory) ==
  ((IF m = "critical" THEN 3 ELSE 2)
     * ((15 * Impact(m, gpu, memory)) \div 10 + 1200 - (8 * Cost(m)) \div 10)) \div 2
Executable(missions, gpu, memory) ==
  LET load == IF gpu > memory THEN gpu ELSE memory
      limit == IF load > 80 THEN 300 ELSE 150
  IN  {m \in missions : ~(Score(m, gpu, memory) < limit /\ load > 70)}

\* analyze_and_evolve: an episode counts as a failure unless its outcome is "completed";
\* the goals, and so the modes, of TAAR_OS's episodes are data
Tune(t, e, failures) ==
  [devops |-> IF failures >= 3 THEN Below(30, t.devops - 10) ELSE t.devops,
   stability |-> IF e.completed >= 10 THEN 70 ELSE t.stability]

\* Mutant of AppendEpisode: the file is rewritten with the loop's own list.
RewriteEpisode ==
  /\ seen' = Add(seen, "completed")
  /\ file' = seen' /\ UNCHANGED <<torn, tail>>
\* The loop keeps a list of its own and appends a line per episode
AppendEpisode == seen' = Add(seen, "completed") /\ StoreEpisode("completed")

\* The failures are those among the last 20 episodes of the loop's own list
Evolution == \E failures \in 0..(seen'.success + seen'.partial) : tuning' = Tune(tuning, seen', failures)

\* A cycle observes, generates and ranks; one without missions goes on to the evolution
BeginCycle ==
  /\ running = "on" /\ due = 0
  /\ \E gpu \in {0, 60, 90}, memory \in {50, 70, 90} :
       due' = Cardinality(Executable(Generate(gpu, memory), gpu, memory))
  /\ planned + due' <= MaxEpisodes
  /\ UNCHANGED seen /\ IF due' = 0 THEN Evolution ELSE UNCHANGED tuning
  /\ UNCHANGED <<running, planned, stops>> /\ UNCHANGED mvars

\* _execute_mission only plans: every episode has the outcome "completed".  Behind the last
\* one of the cycle the policy evolves; an interrupt is noticed only then.
PlanMission ==
  /\ due > 0 /\ due' = due - 1
  /\ planned' = planned + 1
  /\ AppendEpisode
  /\ IF due' = 0 THEN Evolution ELSE UNCHANGED tuning
  /\ UNCHANGED <<running, stops>>
  /\ UNCHANGED mission /\ UNCHANGED <<episodes, policy, starts>> /\ UNCHANGED devops

\* run_continuous raises the flag when it starts
StartLoop == running = "before" /\ running' = "on" /\ UNCHANGED <<seen, due, planned, tuning, stops>>
\* The handler of SIGINT is installed by the constructor: before the loop has started it
\* clears a flag that is raised afterwards
Interrupt ==
  /\ stops < MaxStops /\ stops' = stops + 1
  /\ running' = IF running = "on" THEN "off" ELSE running
  /\ UNCHANGED <<seen, due, planned, tuning>>

AutonomyNext ==
  \/ BeginCycle \/ PlanMission
  \/ (StartLoop \/ Interrupt) /\ UNCHANGED mvars

Init == MissionsInit /\ AutonomyInit
Next == (MissionsNext /\ UNCHANGED avars) \/ AutonomyNext
vars == <<mvars, avars>>
Spec == Init /\ [][Next]_vars /\ WF_vars(Run /\ UNCHANGED avars)

-----------------------------------------------------------------------------
\* Two programs append to one file and swallow what fails.  Whatever order they write in, a
\* readable episode stays readable, save one at the end of the file whose newline was not
\* written: the next append of either program joins it and the file no longer loads.  What
\* is called completed in it was only planned, never executed.
EpisodesKept ==
  /\ [](file.completed <= planned)
  /\ [][\A o \in DOMAIN file :
          file'[o] < file[o] => tail = o /\ file'[o] = file[o] - 1 /\ torn']_vars
=============================================================================
