------------------------------ MODULE Runtime ------------------------------
(***************************************************************************)
(* ATOMRuntimeV2 (runtime/runtime_v2.py) with its event bus, async engine, *)
(* memory graph, message queue and federation kernel: any number of calls  *)
(* of process_intent on one event loop, next to the consumers of the       *)
(* message queue.                                                          *)
(*                                                                         *)
(* Coroutines give up control only where they wait: in the sleep of a step *)
(* and in the gather that runs the handlers of an event somebody has       *)
(* subscribed to, which is execution_finished alone.  Everything between   *)
(* two waits is one action.  The handler is a task of its own, so a wait   *)
(* for it is two actions: it runs, and later the emitter goes on.          *)
(*                                                                         *)
(* Of the event log the numbers of events are kept.  For the federation:   *)
(* a peer is stale when its last heartbeat is older than the timeout.      *)
(***************************************************************************)
EXTENDS ExecutionLoop, FiniteSets, FiniteSetsExt

CONSTANTS
    Sessions,
    Consumers,          \* calls of run_async_consumer
    Peers,              \* nodes registered with the federation
    Intents,            \* what is asked for
    Vetoes,             \* kinds of step the policy kernel may veto together
    NoNode,             \* not in the memory graph
    MaxMessages         \* bound on the messages pushed

ASSUME SetsAssumption == IsFiniteSet(Sessions) /\ IsFiniteSet(Consumers)
ASSUME IntentsAssumption == Intents \subseteq IntentRecords /\ Vetoes \subseteq SUBSET Kinds
ASSUME MessagesAssumption == MaxMessages \in Nat

VARIABLES
    hasLoop,            \* exec_loop is given
    where,                 \* where process_intent waits
    plan,
    done,               \* how many results the engine has
    memory,             \* MemoryGraph.nodes
    version,            \* MemoryGraph._version
    log,                \* EventBus._event_log: how many events of each type
    maxsize,            \* of the message queue, 0: unbounded
    queue,
    consumer,
    stats,              \* MessageQueue._stats
    stale,              \* peers not heard of within the timeout
    asked               \* history: intent and vetoes of each plan

sessionVars == <<where, plan, done, memory, version, asked>>
queueVars == <<queue, consumer, stats>>
runtimeVars == <<hasLoop, maxsize, sessionVars, queueVars, log, stale>>

EventTypes == {"intent_received", "execution_started", "step_completed",
               "execution_finished", "mq"}

\* The consumer asks a message for its type: one that is no dict raises.
Messages == {"dict", "malformed"}

NoPlan == EmptyPlan

Emitted(events) == [e \in EventTypes |-> log[e] + IF e \in events THEN 1 ELSE 0]

\* MemoryGraph.update_state: completed, with a number of results, and with a
\* version nobody has had.
Updated(s, count) ==
    [memory EXCEPT ![s] = [status |-> "completed", result_count |-> count, version |-> version]]

-----------------------------------------------------------------------------

RuntimeInit ==
    /\ hasLoop \in BOOLEAN
    /\ maxsize \in {0, 1}
    /\ where = [s \in Sessions |-> "idle"]
    /\ plan = [s \in Sessions |-> NoPlan]
    /\ done = [s \in Sessions |-> 0]
    /\ memory = [s \in Sessions |-> NoNode]
    /\ version = 0
    /\ log = [e \in EventTypes |-> 0]
    /\ queue = <<>>
    /\ consumer = [c \in Consumers |-> "off"]
    /\ stats = [enqueued |-> 0, processed |-> 0, dropped |-> 0]
    /\ stale = {}
    /\ asked = [s \in Sessions |-> NoNode]

\* add_node, while the session is being planned.
NodeAdded(s) ==
    /\ memory' = [memory EXCEPT ![s] = [status |-> "planning", result_count |-> 0,
                                        version |-> version]]
    /\ version' = version + 1

\* process_intent up to its first wait.  A plan without steps goes straight
\* to the end event; one with steps is run, whatever is_safe says.
Begin(s, p) ==
    /\ where[s] = "idle"
    /\ plan' = [plan EXCEPT ![s] = p]
    /\ NodeAdded(s)
    /\ \/ /\ p.steps # <<>>
          /\ where' = [where EXCEPT ![s] = "step"]
          /\ log' = Emitted({"intent_received", "execution_started"})
       \/ /\ p.steps = <<>>
          /\ where' = [where EXCEPT ![s] = "ended"]
          /\ log' = Emitted({"intent_received", "execution_finished"})
    /\ UNCHANGED <<hasLoop, maxsize, done, queueVars, stale>>

BeginWithoutLoop(s) ==
    /\ ~ hasLoop
    /\ Begin(s, NoPlan)
    /\ UNCHANGED asked

BeginWithLoop(s, intent, vetoed) ==
    /\ hasLoop
    /\ Begin(s, Execute(intent, vetoed))
    /\ asked' = [asked EXCEPT ![s] = [intent |-> intent, vetoed |-> vetoed]]

\* The policy kernel raises out of execute: the session stays "planning".
PlanRaises(s) ==
    /\ hasLoop
    /\ where[s] = "idle"
    /\ NodeAdded(s)
    /\ where' = [where EXCEPT ![s] = "raised"]
    /\ log' = Emitted({"intent_received"})
    /\ UNCHANGED <<hasLoop, maxsize, plan, done, asked, queueVars, stale>>

\* The engine's sleep is over: one more result, and the next step or the
\* engine's own end event, which names no session.
StepDone(s) ==
    /\ where[s] = "step"
    /\ done' = [done EXCEPT ![s] = @ + 1]
    /\ \/ /\ done[s] + 1 < Len(plan[s].steps)
          /\ log' = Emitted({"step_completed"})
          /\ UNCHANGED where
       \/ /\ done[s] + 1 = Len(plan[s].steps)
          /\ log' = Emitted({"step_completed", "execution_finished"})
          /\ where' = [where EXCEPT ![s] = "engine_ended"]
    /\ UNCHANGED <<hasLoop, maxsize, plan, memory, version, asked, queueVars, stale>>

\* Mutant of OnEngineFinished: without a session id all open sessions are meant.
OnEngineFinishedForAll(s) ==
    /\ where[s] = "engine_ended"
    /\ where' = [where EXCEPT ![s] = "engine_handled"]
    /\ memory' = [t \in Sessions |->
                    IF memory[t] # NoNode
                    THEN [memory[t] EXCEPT !.status = "completed", !.result_count = done[s]]
                    ELSE NoNode]
    /\ UNCHANGED <<hasLoop, maxsize, plan, done, version, asked, queueVars, log, stale>>

\* _on_execution_finished of the engine's event: no session id, nothing done.
OnEngineFinished(s) ==
    /\ where[s] = "engine_ended"
    /\ where' = [where EXCEPT ![s] = "engine_handled"]
    /\ UNCHANGED <<hasLoop, maxsize, plan, done, memory, version, asked, queueVars, log, stale>>

\* The engine returns and process_intent emits the end event of the session.
EngineReturns(s) ==
    /\ where[s] = "engine_handled"
    /\ where' = [where EXCEPT ![s] = "ended"]
    /\ log' = Emitted({"execution_finished"})
    /\ UNCHANGED <<hasLoop, maxsize, plan, done, memory, version, asked, queueVars, stale>>

\* _on_execution_finished of the session's event.
OnExecutionFinished(s) ==
    /\ where[s] = "ended"
    /\ where' = [where EXCEPT ![s] = "handled"]
    /\ memory' = Updated(s, done[s])
    /\ version' = version + 1
    /\ UNCHANGED <<hasLoop, maxsize, plan, done, asked, queueVars, log, stale>>

\* The rest of process_intent: the session is completed once more, and the
\* federation's heartbeat() refreshes every peer, not only this node.
Return(s) ==
    /\ where[s] = "handled"
    /\ where' = [where EXCEPT ![s] = "returned"]
    /\ memory' = Updated(s, memory[s].result_count)
    /\ version' = version + 1
    /\ stale' = {}
    /\ UNCHANGED <<hasLoop, maxsize, plan, done, asked, queueVars, log>>

-----------------------------------------------------------------------------
(***************************************************************************)
(* The message queue and its consumers, and the clock of the federation    *)
(***************************************************************************)

\* push: a message more than maxsize is dropped.
PushMessage(m) ==
    /\ stats.enqueued + stats.dropped < MaxMessages
    /\ \/ /\ maxsize > 0 /\ Len(queue) >= maxsize
          /\ stats' = [stats EXCEPT !.dropped = @ + 1]
          /\ UNCHANGED queue
       \/ /\ maxsize = 0 \/ Len(queue) < maxsize
          /\ stats' = [stats EXCEPT !.enqueued = @ + 1]
          /\ queue' = Append(queue, m)
    /\ UNCHANGED <<hasLoop, maxsize, sessionVars, consumer, log, stale>>

StartConsumer(c) ==
    /\ consumer[c] = "off"
    /\ consumer' = [consumer EXCEPT ![c] = "waiting"]
    /\ UNCHANGED <<hasLoop, maxsize, sessionVars, queue, stats, log, stale>>

\* consume: the handler emits an event nobody has subscribed to, so it does not wait.
Handle(c) ==
    /\ consumer[c] = "waiting"
    /\ queue # <<>>
    /\ Head(queue) = "dict"
    /\ queue' = Tail(queue)
    /\ stats' = [stats EXCEPT !.processed = @ + 1]
    /\ log' = Emitted({"mq"})
    /\ UNCHANGED <<hasLoop, maxsize, sessionVars, consumer, stale>>

\* Mutant of HandlerRaises: the message is put back for another attempt.
HandlerRaisesAndRetries(c) ==
    /\ consumer[c] = "waiting"
    /\ queue # <<>>
    /\ Head(queue) = "malformed"
    /\ queue' = Append(Tail(queue), Head(queue))
    /\ UNCHANGED <<hasLoop, maxsize, sessionVars, consumer, stats, log, stale>>

\* The handler raises: the message is gone and so is the consumer.
HandlerRaises(c) ==
    /\ consumer[c] = "waiting"
    /\ queue # <<>>
    /\ Head(queue) = "malformed"
    /\ queue' = Tail(queue)
    /\ consumer' = [consumer EXCEPT ![c] = "ended"]
    /\ UNCHANGED <<hasLoop, maxsize, sessionVars, stats, log, stale>>

\* A peer has been silent for the timeout.
FallSilent(p) ==
    /\ p \notin stale
    /\ stale' = stale \cup {p}
    /\ UNCHANGED <<hasLoop, maxsize, sessionVars, queueVars, log>>

EventLoop(s) ==
    \/ StepDone(s)
    \/ OnEngineFinished(s)
    \/ EngineReturns(s)
    \/ OnExecutionFinished(s)
    \/ Return(s)

Consume(c) == Handle(c) \/ HandlerRaises(c)

RuntimeNext ==
    \/ \E s \in Sessions :
        \/ BeginWithoutLoop(s)
        \/ \E i \in Intents, v \in Vetoes :
              v \subseteq ToSet(ParseIntent(i)) /\ BeginWithLoop(s, i, v)
        \/ PlanRaises(s)
        \/ EventLoop(s)
    \/ \E m \in Messages : PushMessage(m)
    \/ \E c \in Consumers : StartConsumer(c) \/ Consume(c)
    \/ \E p \in Peers : FallSilent(p)

\* The event loop resumes whoever can go on.
Fairness ==
    /\ \A s \in Sessions : WF_runtimeVars(EventLoop(s))
    /\ \A c \in Consumers : WF_runtimeVars(Consume(c))

RuntimeSpec == RuntimeInit /\ [][RuntimeNext]_runtimeVars /\ Fairness

-----------------------------------------------------------------------------

RuntimeTypeOK ==
    /\ hasLoop \in BOOLEAN
    /\ maxsize \in Nat
    /\ where \in [Sessions -> {"idle", "step", "engine_ended", "engine_handled", "ended",
                            "handled", "returned", "raised"}]
    /\ \A s \in Sessions : plan[s] \in PlanRecords
    /\ done \in [Sessions -> Nat]
    /\ memory \in [Sessions -> [status : {"planning", "completed"}, result_count : Nat,
                                version : Nat] \cup {NoNode}]
    /\ version \in Nat
    /\ log \in [EventTypes -> Nat]
    /\ queue \in Seq(Messages)
    /\ consumer \in [Consumers -> {"off", "waiting", "ended"}]
    /\ stats \in [enqueued : Nat, processed : Nat, dropped : Nat]
    /\ stale \subseteq Peers

InMemory == {s \in Sessions : memory[s] # NoNode}

(***************************************************************************)
(* The memory graph follows the engine.  A session it calls completed has  *)
(* all results of its plan, and their number, and one that has returned is *)
(* completed, although every execution ends with two events, one of them   *)
(* without the session's id, and other sessions end in between; and the    *)
(* versions order the sessions (process_intent, _on_execution_finished,    *)
(* MemoryGraph.add_node and update_state).                                 *)
(***************************************************************************)
MemoryFollowsEngine ==
    \A s \in InMemory :
        /\ memory[s].status = "completed" =>
             memory[s].result_count = done[s] /\ done[s] = Len(plan[s].steps)
        /\ where[s] = "returned" => memory[s].status = "completed"
        /\ memory[s].version < version
        /\ \A t \in InMemory : memory[t].version = memory[s].version => s = t

(***************************************************************************)
(* A plan is the longest run of steps, from the first, each of which is    *)
(* acceptable on its own: risk below 0.7 and no veto.  The limit on the    *)
(* sum of the risks never bites, and a plan is safe exactly when nothing   *)
(* was cut off (ExecutionLoop.execute).                                    *)
(***************************************************************************)
PlanIsAcceptablePrefix ==
    \A s \in Sessions : asked[s] # NoNode =>
        LET wanted == ParseIntent(asked[s].intent)
            Acceptable(k) == /\ ComputeRisk(wanted[k], asked[s].intent.threat) < 700
                             /\ wanted[k] \notin asked[s].vetoed
            length == Max({k \in 0 .. Len(wanted) : \A i \in 1 .. k : Acceptable(i)})
        IN /\ plan[s].steps = SubSeq(wanted, 1, length)
           /\ IsSafe(plan[s]) <=> length = Len(wanted)

(***************************************************************************)
(* No message is counted twice or forgotten: what was accepted is          *)
(* processed, still queued, or was the end of a consumer                   *)
(* (MessageQueue.push and consume).                                        *)
(***************************************************************************)
QueueBalances ==
    stats.enqueued =
        stats.processed + Len(queue) + Cardinality({c \in Consumers : consumer[c] = "ended"})

(***************************************************************************)
(* A session that was begun comes to its end, and what is queued is taken  *)
(* as long as a consumer is left (process_intent, run_async_consumer).     *)
(***************************************************************************)
NothingLeftWaiting ==
    /\ \A s \in Sessions : where[s] # "idle" ~> where[s] \in {"returned", "raised"}
    /\ queue # <<>> /\ (\E c \in Consumers : consumer[c] = "waiting")
         ~> queue = <<>> \/ \A c \in Consumers : consumer[c] # "waiting"

(***************************************************************************)
(* "execution_finished indicates completion ... 'COMPLETED' if             *)
(* has_execution_finished else 'BLOCKED'" (integration_test.py:36): the    *)
(* session whose end event is out was not blocked, and what was run for it *)
(* is what execute_plan would have executed.  The code does not keep this  *)
(* (README, section 6), and no run checks it.                              *)
(***************************************************************************)
EndMeansCompleted ==
    \A s \in Sessions : where[s] \in {"ended", "handled", "returned"} =>
        /\ plan[s].blocked_at = "none"
        /\ done[s] = Len(ExecutePlan(plan[s]))

\* The books of the runtime follow what happened: the memory graph follows the
\* engine, the queue accounts for every message, and the plan that the engine
\* gets is what the loop accepted of the intent, up to the first refusal.
RuntimeHolds == RuntimeTypeOK /\ MemoryFollowsEngine /\ QueueBalances /\ PlanIsAcceptablePrefix
=============================================================================
