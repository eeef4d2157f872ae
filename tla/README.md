# A TLA+ model of ATOMFederationOS

This directory holds TLA+ modules that model parts of the Python program next to it, TLC configurations
that check them on small instances, and proofs checked by TLAPS that hold for instances of any size.
`PROJECT.json` says which definition stands for which lines of the source, which runs check which
properties, and which plausible mistake in the code (an operator whose comment begins with "Mutant of")
each property would catch. The repository has no documentation besides docstrings and comments; those are
what "the code says" means below. All paths are relative to the root of the repository.

    tlc -config MCSwarm.cfg MCSwarm       # check one configuration
    tlapm SwarmProofs.tla                 # check the proofs of one module

## 1. Inventory

About 110 Python files. Most of them are small in-memory classes with a demonstration under `__main__`;
few components call each other. Where one is driven by another the caller is named.

| component | files | state it keeps | operations | what is hard | what makes it correct | modules |
|---|---|---|---|---|---|---|
| Orchestration loop (TAAR v3) | `agents/orchestrator.py`, `state_machine.py`, `task_graph.py` | lists of running, completed, failed and queued nodes; trace; per node status, mode, retry count | `run`: route, build the graph, loop over ready nodes, retry and reroute | two books on one node, two retry limits, an iteration guard, loop exit | order of dependencies, books agree, run() ends, all sub-tasks are tried | `StateMachine`, `Orchestrator`, `TaskDag` |
| Swarm engine (called by the loop's SWARM mode) | `agents/swarm.py` | task and result queues, worker processes, sub-tasks | split, start workers, collect, join, merge | processes, timeouts, killed workers, lost locks, sentinels | no answer lost or counted twice, no worker left behind or starved | `Swarm` |
| Service registry (dependency injection of `atomos_pkg`) | `atomos_pkg/atomos/core/service_registry.py`, `atomos_pkg/main.py` | services, dependencies, instances, boot order, `_initialized` | register, register_singleton, boot, get, shutdown | topological order over cycles, failures half-way, reboot | dependencies first, stopped last, "initialized" means up | `ServiceRegistry` |
| Memory hierarchy | `agents/memory_hierarchy.py` | LRU store with a byte budget and pins; append-only chunk files and an index file | set, get, delete, clear | eviction loop, colliding hashes, stale tiers, crash between two writes | reads are writes, deletes last, bytes balance | `MemoryHierarchy` |
| Consensus and event sourcing (DESC) | `atomos_pkg/atomos/runtime/consensus_replay.py`, `event_sourcing.py` | per node state, term, vote, leader, votes; log, snapshots | elections, heartbeats, votes, replicate, accept, submit, snapshot, replay | delayed and repeated messages, concurrent candidates | a second leader of a term has a cause, a leader falls for one only, terms never fall, replay is faithful | `EventStore`, `Consensus` |
| Distributed control plane | `atomos_pkg/atomos/runtime/dcp_control_plane.py` | nodes with heartbeat, load, status, tasks; leader | register, heartbeat, detect failures, elect, assign, reconcile | stale status, clocks, nodes that come back, ids that look like numbers | the leader is not one an election found dead, no task to a node known to be silent | `ControlPlane` |
| Event-driven runtime v2 | `atomos_pkg/atomos/runtime/runtime_v2.py`, `async_runtime.py`, `event_bus.py`, `message_queue.py`, `memory_graph.py` | event log, subscribers, queue with counters, versioned graph | process_intent, emit, push, consume | coroutines interleaving at awaits, exceptions in handlers | every session completes once, counters balance | `Runtime` |
| Execution loop (called by the runtime and the pipeline) | `atomos_pkg/atomos/core/execution_loop.py` | plans made | parse, simulate, score, verify, plan, execute | two risk limits, a plan cut short | a plan is what may run | `ExecutionLoop` |
| Missions (TAAR v4, v5) | `agents/taar_os.py`, `taar_v5.py`, `mission_*.py`, `episodic_memory.py`, `policy_engine.py`, `system_observer.py` | graphs of a mission, active missions, episodes in one file | run a mission, record, observe, generate, prioritise | two programs on one file, crashes, failed and torn writes, a failed graph | graphs in order, no episode lost but a torn one, missions end | `Missions`, `Autonomy` |
| DevOps agents (called by missions) | `agents/ci_analyzer.py`, `devops_agent.py`, `patch_engine.py`, `safety_gate.py` | working tree, commits | analyse, patch, gate, apply, commit | what a failed pass, and what others in the same tree, leave behind | the agent edits and commits with a gated command only | `DevOps` |
| LangGraph agent loop | `agents/langgraph_core.py` | plan, step, verdict, revisions | plan, execute, critique, revise, aggregate | two iteration counters | the loop ends, an answer was reviewed | `AgentLoop` |
| Control plane and GPU routing | `agents/control_plane.py`, `gpu_control.py` | cached GPU reading, budget | classify, judge, degrade | several readings in one plan | no mode the machine cannot hold | `Routing` |
| Approval gateway | `agents/user_gateway.py`, `secure_execution_engine.py`, `taar_secure.py` | pending plans, journal, execution log | plan, approve, edit, deny, execute, fix | the answer and the execution are handed over apart, answers to any id | what runs was approved, once | `Gateway` |
| Economy (TAAR v8) | `agents/taar_v8.py`, `economy_coordinator.py`, `resource_ledger.py`, `value_evaluator.py`, `economic_memory.py` | budgets, ledger, jobs, memory file | single_cycle | six books of one job, crashes between them | the books agree | `Economy` |
| Task market | `agents/task_market.py` | jobs, bids, capacities, reputations | register, publish, bid, allocate, record | calls in any order, twice, never, by anybody | a job is paid by its winner, once | `TaskMarket` |
| Corporate layer | `agents/aic_os.py`, `corp_*.py` | budgets per category, votes, staff, returns | run_cycle | limits looked at before adding | no overspending, the board is obeyed | `Corporation` |
| Fabric of nodes (TAAR v6) | `agents/taar_v6.py`, `mission_broker.py`, `policy_consensus.py`, ... | jobs of a mission, episodes, votes | single_cycle | order of jobs, timeouts, nodes that are missing, episodes of earlier processes | skipped for cause, books agree | `Fabric` |
| Civilization (TAAR v9) | `agents/taar_v9.py`, `global_resource_market.py`, `civilization_*.py`, ... | pool, shares, alliances, economies | single_cycle | shares that are never given back | the pool is not overdrawn, alliances are remembered once, the economies stay within twice their first number | `Civilization` |
| Policy kernels | `agents/policy_kernel.py`, `_v2`, `_v3`, `_v4`, `capability_system.py`, `execution_sandbox.py`, `semantic_firewall.py` | counters, log, rules | evaluate | order of checks, several rules at once | a veto wins, what is allowed passed everything | `PolicyKernels` |
| Proof layers | `agents/execution_proof_engine.py`, `taar_v10_1.py`, `apex_execution_kernel.py`, `immutable_audit_graph.py` | proofs with a status, audit chain, counters | submit, simulate, approve, execute, verify | calls in any order | nothing unapproved runs, the audit tells all | `ProofLayer` |
| Federation kernel | `federation_kernel.py` | trace file, last hash | run | restarts, several processes, creating the file, torn lines | a line's chain is that of its process, lines stay | `FederationKernel` |
| Federation OS pipeline | `atomos_pkg/atomos/core/atom_federation_os.py`, `aabs/aabs_gateway.py` | events, audit log, gateway counters | run | a blocked run ends otherwise, one that raises nowhere | one event per run that returned, audited when executed | `FederationOS` |
| Reality (TAAR v10) | `agents/taar_v10.py`, `reality_*.py`, `civ_to_reality.py`, `infra_abstraction.py`, `global_impact_memory.py` | two pictures of the cluster, pending approvals, impacts | translate, evaluate, simulate, apply | parked actions, two pictures | decisions add up, what is parked never runs | `Reality` |
| Meta-orchestration (TAAR v14) | `agents/taar_v14.py`, `meta_*.py`, `system_mapper.py` | counters, log, proofs, rules, a loop | process, close proofs, run the loop | critical tasks, several books, answers in words | books agree, the loop is governed | `Meta` |
| Federation kernel v2 | `atomos_pkg/atomos/runtime/federation_v2.py` | nodes with heartbeats | heartbeat is the one the program calls | - | - | in `Runtime` |
| Evidence ledgers | `agents/proof_engine.py`, `audit_ledger.py`, `replay_engine.py` | hash-chained records | append, verify, replay | - | - | not modelled |
| Other copies, task memory | `agents/memory.py`, smaller copies in `atomos_pkg` | SQLite rows | append, query | - | - | not modelled |
| Identity, scheduler, RPC mesh | `atomos_pkg/atomos/runtime/identity.py`, `preemption.py`, `rpc_mesh.py`, `scheduler.py`, `signed_rpc.py`, `agents/trusted_context.py` | - | - | these files begin with a stray quote and do not compile | - | not modelled |
| Adapters and interfaces | Ollama client, MCP, shell, CLI, vision, voice | - | I/O | - | - | not modelled |

`PROJECT.json` lists every component with its status and, under `hazards`, what in the code is hard to test,
each at its line.

## 2. What is modelled

### Orchestration loop: `StateMachine`, `Orchestrator`, `TaskDag`

`StateMachine` has the four lists and the trace of `agents/state_machine.py` and the operators that
read and change them (`UpdateNodeStatus`, `ReadyNodes`, `IsAllDone`, `IsFailureTerminal`). `Orchestrator`
extends it with the chain of sub-tasks that `build_graph` makes and with `run()`: routing, the loop's
guard, one action for a node's start, completion and failure. A sub-task's text only matters through the
mode it is routed to and the one it is rerouted to, so it is abstracted to that pair. The executors may
return or raise at every attempt. The branch that reacts to a SKIP decision is left out: nothing produces it.
`TaskDag` is the abstract specification: a chain of tasks settled one by one. `ImplementsTaskDag` says that
`run()` is one, with retries, reroutes and bookkeeping as stuttering steps.

### Swarm engine: `Swarm`

One step per queue operation of a worker and per blocking operation of the engine. A worker may be killed
at any point; a queue's lock that it held is then lost (`locked`), and what it had put but the feeder
thread of its queue had not sent is lost too (`outbox`). The external parts are those of `multiprocessing`.
Time is not counted: the engine may time out when no result is there, a worker when it finds nothing to take.
A message is written to its pipe whole or not at all. The sequential strategy is the second branch of
`run()`. Subtasks' prompts and answers are abstracted to which sub-task they belong to.

### Service registry: `ServiceRegistry`

Registration in any order, `boot()` with the depth-first visit as an explicit stack, constructors and `init`
methods that may raise, a second boot after a failed one, and `shutdown()` walking backwards. The constructors
of services that are `SelfMade` (factories without a registry parameter) do not look anything up. Modules
register services at any time, also while another one is constructed. `main.py` puts instances where classes
are expected and never calls `boot()`; its bootstrap is not modelled.

### Memory hierarchy: `MemoryHierarchy`

A call is several steps: every eviction, the append to the chunk file, the rewrite of the index, the unlink of
a chunk. Each of them can fail, and the process can crash at any point, leaving a torn last line or a
truncated index; a restart loads what is there. Sizes are units of the budget, and keys that collide share a
chunk. `written` and `last` remember what was stored, for the properties only. The "vram" tier stores nothing
(`set` returns False for it) and appears as that result.

### Consensus: `EventStore`, `Consensus`

`Consensus` has all handlers of `ConsensusCore` and `submit` of `DistributedDESC`, for a cluster of nodes;
`EventStore` has their logs, snapshots and replay. Messages stay in the network for ever, so each can arrive
late, in any order, repeatedly or not at all. The code has no transport and no handler for a vote request.
`GrantVote` and `RefuseVote` stand for it, as Raft prescribes and on the fields the code keeps: a node grants
in a newer term, or in its own while `voted_for` is free. Nothing else is asked of the surroundings: a vote
may arrive in a later election of its candidate and is counted there, and a voter whose `voted_for` a
heartbeat has cleared may vote again in the same term. `winners` and `released` are history: who was elected
by which votes, and whose `voted_for` was cleared in which term. `send_heartbeat` and `replicate` are called
by the leader, as in Raft; the first would make any caller leader. Nodes do not restart: the code stores
nothing. Events are represented by their terms, states by the indexes that went into them. The hash chain is
left out: a log that is only appended to is its own chain.

### Control plane: `ControlPlane`

One action per method, in any order, and a tick of the clock. `place` is the position of a node in the `nodes`
dict, which decides between equals in `max` and `min`. `Rank` stands for the hash of a node's id, and load is
counted in tenths, so the rounding of repeated additions of 0.1 is left out. `detect_failures` may be called
by itself, and then leaves a leader it finds dead in office until the next election (`unelected`). A caller
may give a task any id, also one that looks like a number the plane hands out. `checkedAt` and `unelected` are
for the properties only. Nothing runs the tasks of a node, and a dead node keeps them: the code has no
reassignment.

### Runtime: `ExecutionLoop`, `Runtime`

`ExecutionLoop` has planning as operators: an intent is the kinds of step it asks for and its worst threat,
risks are in thousandths, a plan is a function of the number of rounds. `Runtime` has the coroutines: a
session is at one of its awaits (`where`), and what runs from one to the next is one action. `emit` only waits
where somebody has subscribed, which is `execution_finished`: the handler is a task of its own, so its run and
the emitter's return are two actions, and other sessions come between. A plan may be made, be blocked
anywhere, be empty, be absent (no execution loop) or raise. The queue is unbounded as the runtime builds it or
bounded as its class allows; a message that is no dict makes the handler raise. `stale` is what the
federation's `heartbeat()` changes: it refreshes every registered node, not only this one. The two modules of
the integration test share no state: `runtime.dcp` is set and never read, so they are not composed.

### Missions, autonomous loop, DevOps agent: `Missions`, `Autonomy`, `DevOps`

`DevOps` is one pass of the self-healing agent; each of its phases is an action, each shell or git call may
fail after having done its work, and `tree` keeps what a failed pass leaves in the working tree. `Missions`
extends it with `TAAR_OS.run`: an intent becomes a chain of graphs, a round executes those that are ready, a
graph of mode DEVOPS is a pass of `DevOps`. The commands of a graph of mode TOOL and the agents of the others
work in the same tree and pass no gate: they may edit, discard or commit whatever they like there
(`OutsideEdits`, `Outside`), and else such a graph is its outcome. The episode goes to the list in memory and
then to the file, which are two steps, with a crash between them. `store()` swallows a write that fails: none
of the line, half of it, or all but its newline may then be in the file. What is appended next joins such a
line, and neither can be read (`tail` says how the file ends). `Autonomy` adds the loop of v5 that runs beside
it, appends to the same file by the same `store()` from a list of its own, and plans missions that nobody
executes. Episodes are counted by outcome.

### Agent loop: `AgentLoop`

The compiled graph of `langgraph_core.py`, one action per node and outgoing edge. What the model and the tools
answer is free, and every node may raise. LangGraph itself is external: it follows the edges and raises
after `RecursionLimit` nodes of a pass. `tried` is history.

### Routing: `Routing`

`route()` in its steps (classify, judge, build, degrade). The GPU may change, and the cached reading expire,
between any two of them; `reading` is the history of what a call saw.

### Approval gateway: `Gateway`

The pending plans, the journal, and one call of the execution engine at a time. A command is known by what
`validate` looks at; the user's edit is a command like any other, and is logged and not run, as in the code. A
client may call `approve` and `deny` with the id of any plan ever built, pending or not. `cmd_fix` is a pass
of `DevOps` that asks nobody.

### Markets and budgets: `Economy`, `TaskMarket`, `Corporation`, `Fabric`, `Civilization`

Each is one program's cycle with its phases as actions. `Economy` keeps all six books of a job apart, and a
crash may come between any two of them; only the memory's file survives it. Every bid on a job is nine tenths
of its price, so a job keeps the set of its bidders, and among equals the first to be registered wins; what
the hashes give is bounded as the code bounds it (complexities from 50 to 89, reliabilities from 75 to 99, in
hundredths). `TaskMarket` lets clients call in any order: organisations register, register again, which starts
their books afresh, or bid without being registered, and then win for nothing. `Corporation` abstracts a
task's text to the risk, cost and value the keyword tables give it and to how many of the board vote for it.
`Fabric` has the job graphs that `decompose` makes for any number of nodes, their topological order as a
function of the place in the list, and child processes as outcomes; a job for a node that is missing raises a
KeyError in the middle of the cycle, and the next process loads the episodes of the earlier ones.
`Civilization` has the pool, the shares, the alliances (of pairs, by the mean of their scores) and the splits,
for any number of economies. Branches that no value the program sets can reach (failures in v8, firing, trades
with effect, sanctions, crises) are not modelled; the comments name them.

### Permission: `PolicyKernels`, `ProofLayer`

The four kernels, each with its own counters, log and table of capabilities; a request is the flags that its
rules ask for. `ProofLayer` extends them with the proof engine under a client that calls its steps in any
order, `process_action` of the Policy Execution Layer, `execute` of the APEX kernel, and the audit chain both
write.

### Federation: `FederationKernel`, `FederationOS`

`FederationKernel` is several processes on one trace file, each with a kernel that lives as long as it does. A
process that sees no file creates it in a second step, which empties a file that another has made in between.
A torn line has no newline and spoils the next. `FederationOS` is `run()` with gate, dispatch, audit and
broadcast; the loop inside is a parameter (a simulation is what any loop may answer), and any call of it, of
the gateway, of the audit log or of the federation may raise, which ends a run that was counted.

### Orders: `Reality`, `Meta`

`Reality` follows a decision from the translator through the council, the simulation and the approval to the
engine and the infrastructure; council and infrastructure layer keep a picture of the cluster each. `Meta` has
`process()` of v14, and the control loop, the proofs and the rules as a client may call them. What the
simulator and the governor answer the loop with are words, as the code compares them: of the governor's,
BLOCK, DENY and the empty string are in the model next to BLOCKED and APPROVED. Any phase may raise.

### Composition: `MCAgents`, `MCGovernance`

`Autonomy` (with `Missions` and `DevOps`) is a real composition: the programs share the file of episodes and
the working tree. `ProofLayer` calls the kernel of `PolicyKernels`, `Gateway` the agent of `DevOps`. The other
programs share no state and never call each other, so nothing would be gained from interleaving them:
`MCAgents` and `MCGovernance` put them in one run each, and `program`, chosen at the start, says which of them
takes steps. In `MCAgents` these are `missions` (one mission of two graphs), `writers` (several missions of
one graph beside the autonomous loop: who writes what to the file), `loop`, `router` and `secure` (the
gateway); in `MCGovernance` the markets `v8`, `corporation`, `exchange`, `v6` and `v9`, the four kernels, the
three layers over them, `federation`, `os`, `reality` and `v14`. `MCConsensus` chooses a node that stays
silent, or none: with three nodes at work there are no events, and two have logs as well.

## 3. Runs

Properties that say one thing together are one definition of named parts (`RunHolds` is `TypeOK`,
`DependenciesFirst` and `BooksAgree`; `WorkIsKept`, `BootSafe`, `RegistryHolds`, `ElectionsHold` and
`RuntimeHolds` are the like).

| run | instance | shows |
|---|---|---|
| `orchestrator` | up to 3 sub-tasks, limits of the code (2 retries, 20 iterations) | `RunHolds`: order of dependencies, agreement of the two books; the guard is never what ends the loop; run() ends; refinement of `TaskDag` |
| `swarm` | 3 sub-tasks, 2 workers, both strategies | `WorkIsKept`: one place for every sub-task, no worker leaves early or starves, no orphans; counting results suffices; run() ends |
| `registry` (510 000 states) | 3 services, 2 boots | `BootSafe`: topological order for every declaration and registration order, what "initialized" promises; order of shutdown |
| `memory` (327 000 states) | 2 colliding keys, 2 sizes, 2 lines per chunk | byte count, reads are writes, deletes last, calls end |
| `consensus` (336 000 states) | 3 nodes, 2 terms without events; 2 of them with 3 events and 2 snapshots | `ElectionsHold`: leaders were elected, and a second one of a term only by a late vote or a released voter; `DeposedForCause`; `LogsHold`: terms never fall in a log, replay ignores snapshots |
| `control_plane` (2 600 000 states) | 3 nodes, 3 ticks, timeout of one tick, 3 tasks, a name and a number that callers give | `RegistryHolds`: verdicts are those of the last `detect_failures()`, a leader that was found dead stays until the next election at most, a number is given once unless a caller gives it too; nothing goes to nodes known to be silent |
| `runtime` | 2 sessions, 2 consumers, 2 messages, plans of 0 to 4 steps | `RuntimeHolds`: the memory graph follows the engine, the queue's counters, what a plan is; nothing is left waiting |
| `agents` (895 000 states) | 2 graphs, or 2 episodes of each program in the file; 2 constructions of TAAR_OS, 1 stop; plans of 2 steps, `max_iterations` of 0 and 2, a recursion limit of 9; 3 GPU readings; gateway tasks of 2 steps, 2 plans, decisions on any id while the log has fewer than 2 | `MissionHolds`, `EpisodesKept`, `CommitsAreVetted`, `AgentKeepsItsWord`, `PlanFits`, `ConsentHolds`; missions and tasks end |
| `governance` (1 700 000 states) | 2 organisations, 1 crash; 2 employees, 2 tasks; 2 traders, 2 jobs, 2 registrations and 2 results of each; 2 nodes, 2 missions, 2 processes; 4 economies, 6 cycles; 4 plans, 9 actions, 2 evaluations; 2 proofs, 7 answers; 2 processes, 3 lines, 3 starts; 3 runs; 3 decisions; 3 meta tasks, 3 proofs, 1 rule | one property per program: `BooksAgree`, `MoneyFollowsBoard`, `WinnerPaysOnce`, `FabricConsistent`, `CivilizationHolds`, `VerdictsHold`, `ProofsHold`, `TraceHolds` and `WrittenStays`, `EventsFollowRuns`, `RealityHolds`, `MetaHolds` |
| `orchestrator_stops_early`, `consensus_late_votes`, `apex_executes_vetoed` | the same instances | items 1, 4 and 6 of section 6 |

Bounds, and why they are enough:

- `MaxSubtasks = 3`: a chain of three has a node with both a predecessor and a successor. In the swarm three
  sub-tasks outnumber two workers, so a worker takes several, and one may find only the Nones left.
- Retry and iteration limits are the code's own.
- Three services with four dependency lists give chains, a node with two dependencies, a self-dependency and
  cycles of two and three. Two boots let a boot follow a failed one and a shutdown.
- Two keys in one chunk file are the smallest collision; a value of half the budget and one above it
  reach eviction and the overflow to disk; two lines per chunk allow a stale record in front of a fresh one.
- Three nodes are the smallest cluster in which a majority is not everyone; two terms allow a second
  election while messages of the first are under way; with three events a log has indices other than 0 to replay
  behind a snapshot and in front of it, and two snapshots are an older and a newer one. The nodes are symmetric.
- Three nodes are needed for a leader, a rival and one that is given up; with a timeout of one tick, three
  ticks see a node beat, fall silent, be found dead and come back. The nodes rank close enough for load
  to change the election.
- Two sessions interleave at every await; the longest plan has all four kinds of step, one veto cuts it in
  the middle and one threat at the start. Two messages outlast a consumer that died of the first.
- Two graphs are a graph with a predecessor; two constructions of TAAR_OS and two episodes let each program
  write on what the other left torn (missions of two graphs end after the first episode, `OneOfTwo`, and those
  that write more have one graph, `TwoOfOne`). In the gateway's session the passes of `cmd_fix` come before
  the first plan (`FixFirst`), since they leave only the tree behind; two decisions on arbitrary ids can be a
  denial and an approval of one plan. A recursion limit of 9 leaves a plan of two steps room for one revision
  and cuts the second. The three GPU readings allow only a swarm, only one model, and neither; without a GPU
  both are allowed.
- Purses of 1000 and jobs of the code's own prices let an organisation win more than it can pay. A third
  decision sees both pictures of the cluster after two changes; four economies grow to eight in six cycles,
  where the guard on their number decides, and their usages move alike (`Alike`), which leaves the supply all
  the values it can take. Two nodes leave the repair's third job without one.
- Seven answers simulate, approve, execute and verify a proof and go through half of that again. Two
  processes, one of which starts again, and three lines are enough for a torn line between two whole ones of
  another process.
- A kernel's rules look at one request at a time, so the requests cover its rules, each severity and
  two rules at once, and two evaluations show that the counters add up.

Deadlock is checked except for the registry, the runtime, `agents` and `governance`, where nobody has to call
anything once the boots, the sessions and messages, or the calls of a program, are used up;
in `Orchestrator` and `Swarm` a run that has returned stutters explicitly.

## 4. Fairness

`Orchestrator`, `MemoryHierarchy` and `ServiceRegistry` are single-threaded: the thread inside a call goes on,
so its next step is weakly fair; the caller's choice to call is not. In `Swarm` only the engine's own steps
are fair. Workers are separate processes that may hang or be killed, and nothing is assumed of them:
`Terminates` holds because every wait of the engine has a timeout. In `Runtime` the event loop resumes every
coroutine that can go on, so a session that is inside `process_intent` and a consumer with a message are
weakly fair; nobody has to start a session, push, or start a consumer. `Missions` and `AgentLoop` are
single-threaded again: inside `run` (in both programs of `agents` that have missions) and inside `run_task`
the next step is weakly fair (a crash may come before it), and nobody has to begin a mission or a task. The
autonomous loop beside the missions is another process and is not fair. The programs of `governance` state
safety only. `ControlPlane` states safety only: nothing in the code calls `reconcile()` periodically.
`Consensus` states safety only; with elections that may split for ever there is nothing it could promise.

## 5. Proofs

All proofs are for arbitrary constants, under the named assumptions of the modules: finite sets of workers and
nodes, natural bounds, a name for "nobody" that nobody has, and the ranges the code itself fixes (two retries,
the costs and values of the keyword tables, at most three missions of a cycle). Every safety invariant and
every action property of the passing runs is a theorem, and so is the refinement.

- `OrchestratorProofs`: `RunHolds`, that is `TypeOK`, `DependenciesFirst` and `BooksAgree`, and
  `ImplementsTaskDag`. The inductive invariant adds to the books that what precedes a node that was started is
  completed (`Chain`), that only the current node runs, that ready nodes are the next of the chain, and that
  attempts are counted. When the loop stops plays no part in it, so these theorems hold whatever `is_all_done`
  says. `GuardNeverCutsShort` does depend on it: only the first sub-task is ever reached (section 6), so the
  iterations are its attempts (`RoundsAreAttempts`), and `CanRetry` bounds those.
- `SwarmProofs`: `WorkIsKept` with all its parts and `CompleteUnlessGaveUp`. `WorkerInv` says where every
  sub-task is, and that each None taken has stopped a worker; from a count of stopped workers follows that the
  queue never runs dry under a waiting one. `EngineInv` says what was collected. That as many results as
  sub-tasks are the results of all of them is an injection on a finite set.
- `ConsensusProofs`: `ElectionsHold`, `DeposedForCause` and `LogsHold`, with nothing assumed of the voters or
  the network. The invariant says where a vote that a winner counted came from: it was granted in that term,
  or in an earlier one and arrived late; and that a node has two votes of a term only if a heartbeat released
  it there. Two majorities of a finite set intersect, so two winners of a term share a voter, and that voter
  is the cause (`SecondLeaderHasCause`). In a cluster in which no heartbeat released anybody and no vote was
  late there is thus one leader per term. `ReplaysAgree` rests on `SnapshotsFaithful`: what is stored under an
  index other than 0 is all events up to it, however old it is.
- `ControlPlaneProofs`: `RegistryHolds` with all its parts and `NoTaskForTheSilent`, for any nodes, hashes and
  timeout. The invariant adds that no heartbeat and no check lies ahead of the clock, that a number in a list
  of tasks that no caller gave is below the count, and that places in the dict are distinct and so `CHOOSE`
  finds the first of the best (a least place exists, by well-foundedness).
- `RuntimeProofs`:
  - The registry: `BootSafe` and `DependentsStopFirst`. The invariant follows `visit` (`VisitInv`): what was
    looked at is either placed in the order or still being visited, and the ranks of an acyclic graph go down
    the stack, so a dependency that was looked at before is no caller but placed. `WalkInv` takes the order
    through `init` and, backwards, through `shutdown`.
  - The runtime: `RuntimeHolds`. `SessionAt` says for every place at which a session waits how far its plan is
    and what the memory graph has for it; sessions have different versions of their nodes, so none finishes
    the node of another. That a plan is the longest acceptable run of steps (`PlanIsAcceptablePrefix`) is
    shown by following it round by round (`Unblocked`, `BlockedBehind`): after k rounds it is the first k
    steps with the sum of their risks, or it was blocked at the first that could not be accepted.
- `AgentsProofs`:
  - Gateway: `ConsentHolds`. Ids are handed out in order and nobody can decide on one that is not handed out
    yet, so a decision on a new plan is its first, and a call that has met an error is stopped.
  - Router: `PlanFits`. What a plan allows was possible on a reading of this call; a mode is only given up for
    one that the newest reading allows.
  - Agent loop: `AgentKeepsItsWord`. What is due for review has been run, and an error is seen only behind the
    reviewer and at the step that failed; on the way it is shown that no pass is ever repeated.
  - DevOps: `CommitsAreVetted`, through every pass of the agent inside the missions, with whatever commands
    and other agents leave in its tree, beside the autonomous loop. What is in hand from the gate on is
    automatic, and from `apply` on has passed the gate, so all that is in the tree or the history and was not
    left there by others is of such a patch. `EpisodesKept`: both writers only append, and what they join to
    is at most the one record at the end whose newline was not written.
  - Missions: `MissionHolds`. A started graph has all graphs before it completed, so at most one is
    ready or running, and the status of the mission is decided by how the last one ended.
  - Memory hierarchy: `BytesBalance`, `ReadsAreWrites` and `DeletedStaysGone`. `StoredWereSet`: every line of
    a chunk, torn ones apart, and every request under way holds a value that was set under its key.
    `GoneAreGone`: a deleted key is in no tier, and a key that only the saved index has is in no chunk, so a
    restart cannot bring it back. `RamAddsUp`: the LRU list has each key in RAM once, and the byte count is
    the sum of their sizes.
- `GovernanceProofs`:
  - Kernels: `VerdictsHold`, where the violations a kernel counts are those its log shows. Proof layers:
    `ProofsHold`. The invariant says what a status is worth (an approved proof has an approval left to spend)
    and that an audit graph numbers its nodes and tells of the actions in order. On the way it shows that the
    Policy Execution Layer never approves anything (section 6).
  - Federation: `TraceHolds`, for any number of processes and lines. The lives of the kernels are told apart
    by a number that is given once; a new line is the latest of its life, which `CHOOSE` then finds. What a
    late creation of the file wipes are its first lines. `WrittenStays`: once there is a file and nobody is
    about to create one, no line is taken from it any more. `EventsFollowRuns`: the run under way is the
    latest one, and every other has its answer, and its event unless it raised.
  - Orders: `RealityHolds` (every change of size has its undo beside it, and what is parked was simulated and
    never approved) and `MetaHolds` (pending and closed proofs share the ids that were made; a governed loop's
    state is determined by how many phases it has behind it and what it was answered).
  - Economy: `BooksAgree`. `JobsInv` says how far each phase has come with the jobs; each book is then the
    sum, or the count, over the jobs that phase has dealt with (`MoneyBalances`, `CountsAgree`,
    `MemoryCovers`); and every bidder could pay for the job when it bid, counting what it has paid since
    (`BiddersCouldPay`), without which the same of the winners is not inductive.
  - Corporation and exchange: `MoneyFollowsBoard`, `WinnerPaysOnce`, where the capacity of a registered trader
    is a function of the number of jobs it has won since it was registered. Fabric: `FabricConsistent`, for
    any number of nodes and episodes of earlier processes, from the fact that the order is that in which jobs
    were put down and dependencies are earlier there (`GraphInv`), and that a cycle that broke off left its
    books in step. Civilization: `CivilizationHolds`, for any number of economies. What there is at any time
    are the economies of the start and those created, and splits, each of which bears the name of one the
    program starts with (`CapInv`); the pool is not overdrawn because shares are given out one at a time from
    what is left (`PoolInv`).
- `CollectionLemmas`: lists, counting and sums. `SumFunctionOnSet` of the community modules is a fold that
  takes the elements in an order `CHOOSE` picks; that the order does not matter, and so that a sum with one
  more element is the sum plus that element, is proved by the least size for which it would fail.
  `LeastNumber`, `AllNumbers` and `StepByStep` are induction over numbers, for a set that is given, and with
  them the recursive functions of the planner and of the fabric are reasoned about.

Only model-checked, because liveness is out of the prover's reach: `Terminates` (orchestrator and swarm),
`CallsEnd`, `NothingLeftWaiting`, `MissionsConclude` and `TasksEnd`.

## 6. Where the code does not do what it says

1. `run()` returns after the first sub-task of a chain: `is_all_done` (`agents/state_machine.py:122`) ignores
   the nodes still pending. "repeat until all done or terminal failure" (`agents/orchestrator.py:36`).
2. `SwarmEngine.run` reports a sub-task done whose result never arrived (`agents/swarm.py:330`). "Returns
   SwarmResult with all subtask results" (line 302).
3. A `get` after a `set` that returned True may answer with an older value (`agents/memory_hierarchy.py:286`).
4. A vote that arrives in a later election is counted there, so two nodes lead the same term
   (`atomos_pkg/atomos/runtime/consensus_replay.py:50`), in "Raft-like consensus" (line 3).
5. The runtime runs the steps of a blocked plan that precede the block and emits `execution_finished`
   (`atomos_pkg/atomos/runtime/runtime_v2.py:85`), which "indicates completion"
   (`atomos_pkg/atomos/integration_test.py:36`); `execute_plan` would execute none of them.
6. The APEX kernel compares the value of a verdict ("veto", "block") with "VETO" and "BLOCK"
   (`agents/apex_execution_kernel.py:309`), so it executes what was vetoed. "VETO: never allow this class
   of action" (`agents/policy_kernel.py:22`).
7. The user who answers with an edited command has it logged; the steps that run are the original ones
   (`taar_secure.py:73`). "user_response: 'yes', 'no', or edited command" (line 45).
8. `cmd_fix` applies and commits a patch without a plan, a question or an entry in the log
   (`taar_secure.py:103`). "Human-in-the-loop gate. NO action executes without approval."
   (`agents/user_gateway.py:57`).
9. A critical task of one layer is carried out by the meta-orchestration; the demonstration says "should be
   blocked" (`agents/taar_v14.py:341`).
10. The control loop stops for the word "BLOCKED" only (`agents/meta_control_loop.py:82`): a governor that
    answers BLOCK, DENY or nothing is taken for one that approves. "BLOCK = auto()  # Hard stop, no bypass"
    (`agents/meta_policy_kernel.py:24`).
11. The evolution looks at the number of economies before the first of a cycle's splits
    (`agents/civilization_evolution.py:95`), so five economies that split in one cycle are ten. "MAX_ECONOMIES
    = 8  # hard cap on economies" (line 48).

The runs `orchestrator_stops_early`, `consensus_late_votes` and `apex_executes_vetoed` show 1, 4 and 6. The
others are stated as definitions that no run checks: `DoneHasResult` (2), `ReadsSeeLastWrite` (3),
`EndMeansCompleted` (5), `EditedIsWhatRuns` (7), `NoActionWithoutApproval` (8), `CriticalIsBlocked` (9),
`BlockStops` (10), `HardCap` (11).

Seen on the way, without a run of their own: a service registered after the boot never gets an instance, and
the advice "Call registry.boot() first" does nothing (`atomos_pkg/atomos/core/service_registry.py:98`,
`:122`); the federation's `heartbeat()` makes every registered node look alive; an exception in the handler
ends a queue's consumer and the message is counted nowhere; a session whose planning raises stays "planning"
and has no end event, while all others have two; four steps of the risk that is still accepted cannot reach
the limit on the sum; an eviction with only pinned entries left never ends (`CallsEnd` excepts it); when a
worker process fails to start, those already started are not joined; cyclic dependencies are accepted and make
a constructor fail; a snapshot of an empty log is stored under index 0 and hides the first event
(`ReplaysAgree` excepts it); what `replicate` returns has no "from", so `accept_entry` forgets the leader, and
it appends nothing; a heartbeat clears `voted_for` also in the term in which the node has voted
(`consensus_replay.py:32`), so that a majority can be found twice in one term; `detect_failures` by itself
leaves a dead leader in office (`dcp_control_plane.py:33`); the ids that callers give can be the same as the
numbers the control plane gives (the demonstration gives `task-0` and so on, line 84).

In the agents' programs:

- Missions: a failed graph is never retried although the log says so (`agents/taar_os.py:114`); a failed TOOL
  and a pass left for manual review count as done; exit code 1 of pip counts as applied; `git add -A` commits
  what an earlier pass left, or a command or another agent in the same tree; a write of an episode that fails
  is swallowed, and what is appended behind half a line or one without its newline is lost with it
  (`agents/episodic_memory.py:83`); v5 plans its missions, records them as "completed" and keeps them active
  for ever, and asks its memory for a `count()` it does not have; a torn line makes the constructor raise.
- Agent loop: a pass is never repeated, so `max_iterations` never counts; a step that is sent back again and again
  ends with LangGraph's limit, as an exception; a review that cannot be parsed approves.
- Routing: one plan can rest on several readings; TOOL is always allowed, DEVOPS never degraded; `gpu_allowed` is
  that of the mode before degradation; between 75 and 82 degrees a swarm may run and a single model may not;
  the call budget is not consulted; a mode outside the enumeration raises.
- Gateway: `approve` and `deny` take any id and log it, whether its plan waits or not; `/plan`, and a `/run`
  without an answer, leave their plan pending for ever; `set_mode` is not there; every command of the shell is
  a process, so nothing is pending in the next one.

In the governance programs:

- Economy: the fixed missions never fail; a winner pays the full price although its bid was lower; all bids
  are in before the first charge, so a budget can fall below zero. Nothing replenishes it.
- Corporation: no return is low enough to be fired for; `reset_cycle` has no caller; a task without a majority
  stays undecided. Task market: who is not registered bids with a capacity of 1.0 and pays nothing when it
  wins (`agents/task_market.py:110`, `:134`); registering again gives a spent capacity back. Fabric: with
  fewer than three nodes a repair mission ends in a KeyError (`agents/taar_v6.py:125`) with the jobs before it
  done; a job that timed out is a completed one for its dependents, and `failure_rate` is never written, so no
  node is ever isolated. Civilization: shares are never given back and can become negative.
- Kernels: in v1 an ESCALATE outranks a BLOCK but lets pass what a BLOCK would not, since PEL and APEX go on;
  in the sandbox a role that may do more is held tighter; `add_rule` and `deactivate_rule` have no caller.
- PEL executes no action at all: what is simulated is never put to `approve`, and `approve` refuses what is not
  simulated ("Low-risk action: skip simulation, go straight to approval", `agents/taar_v10_1.py`). APEX
  drops the exception of its proof engine, and its verification is always true, so nothing is retried.
  `apex_runtime.py` reads an attribute that a verdict does not have and raises.
- Federation kernel: the chain begins anew in each process; a torn line takes the next one with it and makes
  `get_recent` raise from then on; of two processes that find no file, the one that creates it later wipes
  what the other wrote (`federation_kernel.py:120`). Federation OS: a blocked run is broadcast and not
  audited; the loop that `bootstrap` wires (`atom_federation_os.py:298`, `:328`) has no `parse_intent`, so
  each run raises at line 99, counted and never broadcast.
- Reality: in simulation only SCALE changes the council's picture; an escalated action that was simulated is
  applied, one of medium risk never; a split is translated to two nodes and applied as one; no
  parked action is ever decided; the path that would roll back is unreachable.
- Meta: proofs stay pending, since `process` never closes them; the mapper is asked twice and counts twice; a
  word of a lower risk overrides one of a higher; what a rule denies does not change the verdict;
  `CivilizationalOS` and `RealityOS` do not exist where v14 imports them.

## 7. Not modelled, and plan

Not modelled: adapters and user interfaces (pure I/O); generators of prompts and texts; scoring formulas in
floating point, except where their value decides a branch; `tools_adapter.py` and `memory.py` (calls to the
shell, the file system and SQLite without a state of their own); `federation_v2.py` beyond `heartbeat`;
`proof_engine.py`, `audit_ledger.py` and `replay_engine.py`, which only their own demonstrations call; the
smaller copies of agents in `atomos_pkg`; and the files that do not compile (`identity.py`, `preemption.py`,
`rpc_mesh.py`, `scheduler.py`, `signed_rpc.py`, `trusted_context.py`).

What would come next, in this order:

1. Abstract specifications of further components, with refinements and their proofs: what a client of the memory
   hierarchy sees (a map that may lose entries), and the log that the members of a cluster share.
2. The ledgers of evidence as an abstract append-only chain with refinements, of which `FederationKernel` and
   the audit graph of `ProofLayer` would be instances.
