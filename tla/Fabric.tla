------------------------------- MODULE Fabric -------------------------------
(* The execution fabric of TAAR v6 (agents/taar_v6.py): a mission is decomposed
   into a graph of jobs, the jobs run one after the other in topological order,
   each in a child process, and what came of them goes to the distributed
   memory, the episodes and the votes on the policy.  Everything that runs in a
   child process is external: any of its outcomes is possible.  A process can be
   ended at any place; the next one loads episodes of the earlier ones. *)
EXTENDS Integers, Sequences, SequencesExt, FiniteSetsExt

CONSTANTS NumNodes,     \* nodes of the cluster; without any, every mission raises
          MaxMissions,  \* missions of a cycle: the first three of the prioritizer's list
          MaxParts,     \* bound on the parts of a mission that says "then"
          MaxFabrics    \* bound on the processes, one after the other

ASSUME FabricAssumption ==
  NumNodes \in Nat \ {0} /\ MaxMissions \in 1..3 /\ MaxParts \in Nat /\ MaxFabrics \in Nat

VARIABLES
  step,      \* where single_cycle is: "broker", "execute", "sync", "resolve", "end" or, by
             \* an exception, "raised"
  graph6,    \* graph.jobs: each with its node and the places of the jobs it depends on
  order,     \* topological_order()
  result,    \* status of each job that was dealt with
  mission,   \* missions done
  votes,     \* consensus._pending_votes
  decided,   \* voters of the decisions taken
  summary,   \* global_summary: jobs completed and failed
  episodes,  \* outcomes in the episodic memory
  loaded,    \* how many of them this process found in the file
  fabrics    \* history: processes started

plan6 == <<graph6, order, result>>
books6 == <<mission, votes, decided, summary, episodes>>
fvars == <<step, plan6, books6, loaded, fabrics>>

Before(i) == 1..(i - 1)
Nodes6 == IF NumNodes < 3 THEN NumNodes ELSE 3
\* decompose: a chain of parts, analyze-fix-validate, which asks for three nodes whatever
\* there are, partitions with an aggregation, or a single job
Chain(n) == [i \in 1..n |-> [node |-> (i - 1) % Nodes6, deps |-> IF i = 1 THEN {} ELSE {i - 1}]]
Repair == [i \in 1..3 |-> [node |-> i - 1, deps |-> IF i = 1 THEN {} ELSE {i - 1}]]
Swarm == [i \in 1..(Nodes6 + 1) |-> IF i <= Nodes6 THEN [node |-> i - 1, deps |-> {}]
                                     ELSE [node |-> 0, deps |-> Before(i)]]
Decompose == {Chain(n) : n \in 1..MaxParts} \cup {Chain(1), Repair, Swarm}

\* topological_order: visit(j) puts what j depends on before j, once; dependencies are
\* earlier in the list, so what they depend on is there already
Ascending(S) == CHOOSE l \in [1 .. Cardinality(S) -> S] : \A i, j \in DOMAIN l : i < j => l[i] < l[j]
Missing(s, ds) == Ascending(ds \ ToSet(s))
\* Mutant of TopologicalOrder: a job is put down before what it depends on.
PreOrder(g) ==
  LET visited[i \in 1 .. Len(g) + 1] ==
        IF i = Len(g) + 1 THEN <<>>
        ELSE IF i \in ToSet(visited[i + 1]) THEN visited[i + 1]
        ELSE (visited[i + 1] \o <<i>>) \o Missing(visited[i + 1], g[i].deps)
  IN  visited[1]
TopologicalOrder(g) ==
  LET visited[i \in 0 .. Len(g)] ==
        IF i = 0 THEN <<>>
        ELSE IF i \in ToSet(visited[i - 1]) THEN visited[i - 1]
        ELSE (visited[i - 1] \o Missing(visited[i - 1], g[i].deps)) \o <<i>>
  IN  visited[Len(g)]

NothingYet == [completed |-> 0, failed |-> 0]
Outcomes6 == {"completed", "degraded", "failed"}

FabricInit ==
  /\ step = "broker" /\ graph6 = <<>> /\ order = <<>> /\ result = <<>> /\ mission = 0
  /\ votes = 0 /\ decided = 0 /\ summary = NothingYet
  /\ episodes \in {<<>>} \cup {<<o>> : o \in Outcomes6} /\ loaded = Len(episodes)
  /\ fabrics = 1

\* Any run of the episodes may be what the next process finds: the file holds the latest
\* ones, a write that failed, without a word, leaves an older file or a part of one, and the
\* lines behind one that does not parse are not read.  All the rest is in memory.
Restart6 ==
  /\ fabrics < MaxFabrics /\ fabrics' = fabrics + 1
  /\ \E a \in 1 .. Len(episodes) + 1, b \in 0 .. Len(episodes) :
       episodes' = SubSeq(episodes, a, b)
  /\ loaded' = Len(episodes')
  /\ step' = "broker" /\ graph6' = <<>> /\ order' = <<>> /\ result' = <<>> /\ mission' = 0
  /\ votes' = 0 /\ decided' = 0 /\ summary' = NothingYet

Broker ==
  /\ step = "broker" /\ mission < MaxMissions
  /\ graph6' \in Decompose
  /\ order' = TopologicalOrder(graph6')
  /\ result' = [j \in DOMAIN graph6' |-> "none"]
  /\ step' = "execute"
  /\ UNCHANGED <<books6, loaded, fabrics>>

\* execute_job_graph counts a job that failed as completed for those that wait for it
Finished == {"completed", "failed", "error"}
Next1 == CHOOSE i \in DOMAIN order : result[order[i]] = "none"
                                      /\ \A k \in Before(i) : result[order[k]] # "none"
Blocked(j) == \E d \in graph6[j].deps : result[d] \notin Finished
Waiting6 == \E j \in DOMAIN result : result[j] = "none"

ExecuteJob ==
  /\ step = "execute" /\ Waiting6
  /\ LET j == order[Next1]
     IN  /\ Blocked(j) \/ graph6[j].node < NumNodes
         /\ \E s \in Finished \cup {"timeout"} :
              result' = [result EXCEPT ![j] = IF Blocked(j) THEN "dependency_not_met" ELSE s]
  /\ UNCHANGED <<step, graph6, order, books6, loaded, fabrics>>

\* A node that is not there is a KeyError, which ends the cycle: nothing is written down of
\* the jobs of this mission that ran
NodeMissing ==
  /\ step = "execute" /\ Waiting6
  /\ ~Blocked(order[Next1]) /\ graph6[order[Next1]].node >= NumNodes
  /\ step' = "raised" /\ graph6' = <<>> /\ order' = <<>> /\ result' = <<>>
  /\ UNCHANGED <<books6, loaded, fabrics>>

Executed ==
  /\ step = "execute" /\ ~Waiting6
  /\ step' = "sync"
  /\ UNCHANGED <<plan6, books6, loaded, fabrics>>

With(statuses) == {j \in DOMAIN result : result[j] \in statuses}
OutcomeOf(completed, failed) ==
  IF failed = 0 THEN "completed" ELSE IF completed > 0 THEN "degraded" ELSE "failed"

Store(outcome) == episodes' = Append(episodes, outcome)
UpdateGlobalStats(completed, failed) ==
  summary' = [completed |-> summary.completed + completed, failed |-> summary.failed + failed]
\* One vote for each job that completed, all on the same parameter
SubmitVotes(n) == votes' = votes + n

\* SYNC, RECORD and the votes
Sync ==
  /\ step = "sync"
  /\ LET completed == Cardinality(With({"completed"}))
         failed == Cardinality(With({"failed", "error"}))
     IN  /\ Store(OutcomeOf(completed, failed))
         /\ UpdateGlobalStats(completed, failed)
         /\ SubmitVotes(completed)
  /\ mission' = mission + 1 /\ step' = "resolve"
  /\ graph6' = <<>> /\ order' = <<>> /\ result' = <<>>
  /\ UNCHANGED <<decided, loaded, fabrics>>

\* consensus.resolve decides on what the pending votes say and clears them
Resolve == decided' = decided + votes /\ votes' = 0

Consensus6 ==
  /\ step = "resolve" /\ Resolve
  /\ step' = "broker"
  /\ UNCHANGED <<plan6, mission, summary, episodes, loaded, fabrics>>

\* The failure rates of the coordinator are never written: no node is isolated
EndCycle ==
  /\ step = "broker" /\ mission > 0
  /\ step' = "end"
  /\ UNCHANGED <<plan6, books6, loaded, fabrics>>

FabricNext ==
  Broker \/ ExecuteJob \/ NodeMissing \/ Executed \/ Sync \/ Consensus6 \/ EndCycle \/ Restart6
FabricSpec == FabricInit /\ [][FabricNext]_fvars

-----------------------------------------------------------------------------
\* When a job has been dealt with, all it depends on were dealt with before it; and it was
\* skipped exactly when one of those timed out or was skipped itself, never because the
\* order put it too early.
SkippedForCause ==
  \A j \in DOMAIN result :
    result[j] # "none" =>
      /\ \A d \in graph6[j].deps : result[d] # "none"
      /\ (result[j] = "dependency_not_met") <=>
           (\E d \in graph6[j].deps : result[d] \in {"timeout", "dependency_not_met"})

\* Whatever was loaded at the start and wherever a cycle broke off, the votes that were
\* decided, the summary of the memory and the outcomes this process stored speak of the same
\* jobs: none failed when all outcomes are "completed", and a mission is called degraded only
\* when some job completed.
Own == {i \in DOMAIN episodes : i > loaded}
FabricBooks ==
  /\ decided + votes = summary.completed
  /\ (summary.failed = 0) <=> (\A i \in Own : episodes[i] = "completed")
  /\ (\E i \in Own : episodes[i] = "degraded") => summary.completed > 0
  /\ Cardinality(Own) = mission

\* What topological_order decides and what single_cycle writes down of it
FabricConsistent == SkippedForCause /\ FabricBooks
=============================================================================
