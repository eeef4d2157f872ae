------------------------------ MODULE Missions ------------------------------
(* The mission system of TAAR v4 (agents/taar_os.py with its mission
   controller, episodic memory and policy engine): an intent becomes a chain of
   graphs, the graphs are executed in rounds, the outcome is stored as an
   episode and the policy learns from it.  A graph of mode DEVOPS is a pass of
   DevOps.  The file of episodes is shared with the autonomous loop (Autonomy).
   Thresholds are in hundredths. *)
EXTENDS Integers, Sequences, FiniteSets, DevOps

CONSTANTS MaxGraphs,   \* graphs of a mission
          MaxEpisodes, \* bound on the episodes that are written
          MaxStarts    \* bound on the times TAAR_OS is constructed

ASSUME MissionsAssumption == MaxGraphs \in Nat /\ MaxEpisodes \in Nat /\ MaxStarts \in Nat

\* Graphs of mode SWARM and SINGLE are carried out alike: by agents that may raise
Modes == {"DEVOPS", "AGENTS", "TOOL"}
NoEpisodes == [success |-> 0, partial |-> 0, completed |-> 0]
Total(e) == e.success + e.partial + e.completed
DefaultPolicy == [devops |-> 65, mode |-> 50, swarm |-> 75]

VARIABLES
  pc,       \* "idle", "round", "graph", "running", "conclude" or "down"
  graphs,   \* the graphs of the mission: mode and status; each depends on the one before
  status,   \* Mission.status
  ready,    \* the graphs this round found ready, still to be executed
  stuck,    \* missions that were concluded and are still in active_missions
  episodes, \* this process's list, as the number of episodes per outcome
  file,     \* the readable lines of the file of episodes, the same
  torn,     \* the file has a line that does not parse
  tail,     \* how the file ends: "ended" by a newline, "cut" within a record, or with a
            \* whole record of that outcome and no newline
  policy,   \* the thresholds of the policy engine
  starts

mission == <<pc, graphs, status, ready, stuck>>
store == <<file, torn, tail>>
learning == <<episodes, store, policy, starts>>
mvars == <<mission, learning, devops>>

Graph == 1..Len(graphs)
With(s) == {g \in Graph : graphs[g].status = s}

MissionsInit ==
  /\ pc = "idle" /\ graphs = <<>> /\ status = "none" /\ ready = <<>> /\ stuck = 0
  /\ episodes = NoEpisodes /\ file = NoEpisodes
  /\ torn = FALSE /\ tail = "ended"
  /\ policy = DefaultPolicy /\ starts = 1
  /\ DevOpsInit

-----------------------------------------------------------------------------
\* from_intent, plan and activate: every pattern gives a chain, also one of no graphs
\* (an intent of separators only)
NewMission ==
  /\ pc = "idle" /\ Total(file) < MaxEpisodes /\ Total(episodes) < MaxEpisodes
  /\ \E n \in 0..MaxGraphs : \E modes \in [1..n -> Modes] :
       graphs' = [g \in 1..n |-> [mode |-> modes[g], status |-> "pending"]]
  /\ status' = "active" /\ pc' = "round"
  /\ UNCHANGED <<ready, stuck>> /\ UNCHANGED learning /\ UNCHANGED devops

\* Mutant of DependenciesMet: it is enough that the graph before has been executed.
DependenciesOver(g) == g = 1 \/ graphs[g - 1].status \in {"completed", "failed"}
\* get_next_ready_graphs
DependenciesMet(g) == g = 1 \/ graphs[g - 1].status = "completed"
\* Mutant of ReadyGraphs: a failed graph is ready again.
ReadyOrFailed == {g \in Graph : graphs[g].status \in {"pending", "failed"} /\ DependenciesMet(g)}
ReadyGraphs == {g \in Graph : graphs[g].status = "pending" /\ DependenciesMet(g)}

\* The graphs of a set in the order of the mission, as get_next_ready_graphs lists them
InOrder(S) ==
  CHOOSE s \in [1..Cardinality(S) -> S] : \A i, j \in DOMAIN s : i < j => s[i] < s[j]

\* One turn of the while loop: the ready graphs are looked up once for the round
NextRound ==
  /\ pc = "round"
  /\ ready' = InOrder(ReadyGraphs)
  /\ pc' = IF ready' = <<>> THEN "conclude" ELSE "graph"
  /\ UNCHANGED <<graphs, status, stuck>> /\ UNCHANGED learning /\ UNCHANGED devops

\* update_graph_status
SetStatus(g, s) == graphs' = [graphs EXCEPT ![g].status = s]

StartGraph ==
  /\ pc = "graph"
  /\ SetStatus(ready[1], "running")
  /\ pc' = "running"
  /\ UNCHANGED <<status, ready, stuck>> /\ UNCHANGED devops /\ UNCHANGED learning

AgentStep ==
  /\ pc = "running" /\ graphs[ready[1]].mode = "DEVOPS"
  /\ DevOpsStep
  /\ UNCHANGED mission /\ UNCHANGED learning

\* check_completion; current_attempt is never counted up, so a failure always "recovers"
CheckCompletion(gs) ==
  LET count(s) == Cardinality({g \in DOMAIN gs : gs[g].status = s})
  IN  IF count("failed") > 0 THEN "recovering"
      ELSE IF count("completed") = Len(gs) THEN "completed" ELSE "active"

\* A command of a TOOL graph and the agents of the others work in the same tree
OutsideStep ==
  /\ pc = "running" /\ graphs[ready[1]].mode # "DEVOPS"
  /\ OutsideEdits
  /\ UNCHANGED mission /\ UNCHANGED learning

\* The result of _execute_graph: only an exception fails a graph, which a shell command
\* cannot raise; what the agent's verdict was does not matter
FinishGraph ==
  /\ pc = "running"
  /\ LET g == ready[1]
     IN  /\ \E result \in {"completed", "failed"} :
              /\ result = "failed" => graphs[g].mode # "TOOL"
              /\ result = "completed" => (graphs[g].mode = "DEVOPS" => stage \in Verdicts)
              /\ SetStatus(g, result)
         /\ status' = CheckCompletion(graphs')
  /\ ready' = Tail(ready)
  /\ pc' = IF status' = "completed" THEN "conclude" ELSE IF ready' = <<>> THEN "round" ELSE "graph"
  /\ stage' = "off" /\ patch' = NoPatch
  /\ UNCHANGED <<stuck, tree, commits>> /\ UNCHANGED learning

-----------------------------------------------------------------------------
Add(e, outcome) == [e EXCEPT ![outcome] = @ + 1]

\* The file without the record at its end that has no newline: the next line joins it
FileJoined == IF tail \in DOMAIN file THEN [file EXCEPT ![tail] = @ - 1] ELSE file

\* store() appends a line to the file, and swallows it when the write fails: nothing of the
\* line may be there, a part of it, or all but the newline
StoreEpisode(outcome) ==
  \/ UNCHANGED store
  \/ /\ tail = "ended"
     /\ \/ file' = Add(file, outcome) /\ torn' = torn /\ tail' \in {"ended", outcome}
        \/ file' = file /\ torn' = TRUE /\ tail' = "cut"
  \/ /\ tail # "ended"
     /\ file' = FileJoined /\ torn' = TRUE /\ tail' \in {"ended", "cut"}

Below(a, b) == IF a > b THEN a ELSE b

\* evolve: success rate below a half and above zero, the fallback mode (always "TOOL"),
\* success rate of 0.8 and more
Evolve(p, e) ==
  [devops |-> IF e.success > 0 /\ 2 * e.success < Total(e) THEN Below(40, p.devops - 10) ELSE p.devops,
   mode |-> Below(30, p.mode - 10),
   swarm |-> IF 10 * e.success >= 8 * Total(e)
             THEN (IF p.swarm + 5 > 85 THEN 85 ELSE p.swarm + 5) ELSE p.swarm]

Outcome == IF status = "completed" THEN "success" ELSE "partial"

\* Steps 4 to 6 of run: the episode goes to the list, then to the file
Conclude ==
  /\ pc = "conclude"
  /\ episodes' = Add(episodes, Outcome)
  /\ StoreEpisode(Outcome)
  /\ policy' = Evolve(policy, episodes')
  /\ stuck' = IF status = "completed" THEN stuck ELSE stuck + 1
  /\ pc' = "idle" /\ graphs' = <<>> /\ status' = "none"
  /\ UNCHANGED <<ready, starts>> /\ UNCHANGED devops

\* The process ends at any time and is started again; _load stops at a line it cannot
\* parse, and then the constructor raises
Restart ==
  /\ starts < MaxStarts
  /\ starts' = starts + 1
  /\ pc' = IF torn THEN "down" ELSE "idle"
  /\ episodes' = IF torn THEN NoEpisodes ELSE file
  /\ graphs' = <<>> /\ status' = "none" /\ ready' = <<>> /\ stuck' = 0
  /\ policy' = DefaultPolicy /\ stage' = "off" /\ patch' = NoPatch
  /\ UNCHANGED store /\ UNCHANGED <<tree, commits>>

Run == NextRound \/ StartGraph \/ AgentStep \/ FinishGraph \/ Conclude
MissionsNext == NewMission \/ Run \/ OutsideStep \/ Restart
MissionsSpec == MissionsInit /\ [][MissionsNext]_mvars /\ WF_mvars(Run)

-----------------------------------------------------------------------------
\* Graphs are executed in the order of the chain, each after the one before it completed;
\* once one has failed nothing after it starts, although the log says that failed graphs
\* are retried (taar_os.py, line 114).
ChainInOrder ==
  \A g \in Graph :
    /\ graphs[g].status # "pending" /\ g > 1 => graphs[g - 1].status = "completed"
    /\ graphs[g].status = "failed" => \A h \in Graph : h > g => graphs[h].status = "pending"

\* When a mission is concluded, its status tells what became of its graphs: completed when
\* all of them are, recovering when one failed, active only for a mission without graphs.
StatusTellsGraphs ==
  pc = "conclude" =>
    /\ With("running") = {}
    /\ (status = "completed") <=> (Graph # {} /\ With("completed") = Graph)
    /\ (status = "recovering") <=> (With("failed") # {})

\* What the order of the graphs and the status of the mission say of one another
MissionHolds == ChainInOrder /\ StatusTellsGraphs

\* A mission that was begun is concluded, unless the process ends.
MissionsConclude == (pc = "round") ~> (pc \in {"idle", "down"})
=============================================================================
