------------------------------- MODULE Swarm -------------------------------
(***************************************************************************)
(* SwarmEngine.run and _run_parallel, and the worker processes running     *)
(* _worker_loop (agents/swarm.py).                                         *)
(*                                                                         *)
(* The engine puts every sub-task and then one None per worker on the task *)
(* queue, starts the workers, collects one result per sub-task (giving up  *)
(* after 120 s without one), and joins each worker for 5 s before it       *)
(* terminates it.  A worker takes an item, works on it for up to three LLM *)
(* rounds of 120 s each, puts the result and takes the next item; it stops *)
(* at a None or when it got nothing for 30 s.  A worker process can be     *)
(* killed (out of memory, an import that fails) at any point.  Each queue   *)
(* is guarded by a lock its workers share; a worker that is killed while   *)
(* it holds one never gives it back.                                       *)
(*                                                                         *)
(* With the "sequential" strategy run() asks the LLM about one sub-task     *)
(* after the other in its own process.                                     *)
(*                                                                         *)
(* The task queue is filled before a worker starts and never grows, so it  *)
(* is the number of items taken: item i is sub-task i up to size, and None *)
(* after that.  The result queue is the sequence of results that reached   *)
(* the engine's pipe, with the number collected: results is its prefix.    *)
(* A multiprocessing.Queue sends from a background thread of the process   *)
(* that calls put(): between the two a result is in the worker's outbox,   *)
(* and dies with the worker; a worker that ends on its own flushes first.  *)
(*                                                                         *)
(* Time is not counted.  A get(timeout=120) may time out whenever the      *)
(* result queue is empty, since three rounds of 120 s fit in a worker's    *)
(* work on one item; a get(timeout=30) on the task queue times out only    *)
(* when nothing is left in it or its lock is lost.  A result is written to *)
(* its pipe whole or not at all.                                           *)
(***************************************************************************)
EXTENDS Naturals, Sequences, FiniteSets

CONSTANTS
    MaxSubtasks,   \* bound on the sub-tasks split_task returns
    Workers        \* worker processes of one run, num_workers of them

ASSUME SubtasksAssumption == MaxSubtasks \in Nat
ASSUME WorkersAssumption == IsFiniteSet(Workers) /\ Workers # {}

VARIABLES
    pc,          \* where run() is
    size,        \* number of sub-tasks
    taken,       \* items taken from the task queue
    wstate,      \* per worker: new, idle, busy, leaving, ended, killed
    task,        \* per worker: the sub-task it works on, 0 if none
    outbox,      \* per worker: results put() but not yet sent
    locked,      \* queues whose lock died with a worker
    channel,     \* results sent on the result queue, oldest first
    collected,   \* results the engine has taken from it
    gaveUp,      \* the engine stopped collecting on a timeout
    joined,      \* workers the engine has joined or terminated
    strategy,    \* "parallel" or "sequential"
    status,      \* Subtask.status
    answered,    \* sub-tasks whose Subtask.result is set
    merged       \* sub-tasks whose results were given to merge()

subtaskVars == <<strategy, status, answered, merged>>
engineVars == <<pc, size, collected, gaveUp, joined, subtaskVars>>
workerVars == <<taken, wstate, task, outbox, locked, channel>>
vars == <<engineVars, workerVars>>

Subtask == 1 .. size

AllSubtasks == 1 .. MaxSubtasks

\* Items the engine puts on the task queue: the sub-tasks, then the Nones.
QueueLength == size + Cardinality(Workers)

Alive(w) == wstate[w] \in {"idle", "busy", "leaving"}

\* The queues whose lock w may be holding.
MayHold(w) == {q \in {"task", "result"} :
                 IF q = "task" THEN wstate[w] = "idle" ELSE outbox[w] # {}}

Results == {channel[i].id : i \in 1 .. collected}

-----------------------------------------------------------------------------

Init ==
    /\ pc = "split"
    /\ size = 0
    /\ taken = 0
    /\ wstate = [w \in Workers |-> "new"]
    /\ task = [w \in Workers |-> 0]
    /\ outbox = [w \in Workers |-> {}]
    /\ locked = {}
    /\ channel = <<>>
    /\ collected = 0
    /\ gaveUp = FALSE
    /\ joined = {}
    /\ strategy \in {"parallel", "sequential"}
    /\ status = <<>>
    /\ answered = {}
    /\ merged = {}

\* split_task: the LLM may return any number of sub-tasks, none included.
Split ==
    /\ pc = "split"
    /\ size' \in 0 .. MaxSubtasks
    /\ status' = [s \in 1 .. size' |-> "pending"]
    /\ pc' = IF strategy = "sequential" THEN "solve" ELSE "start"
    /\ UNCHANGED <<workerVars, collected, gaveUp, joined, strategy, answered, merged>>

\* p.start() for one process; it works from now on.
StartWorker(w) ==
    /\ pc = "start"
    /\ wstate[w] = "new"
    /\ wstate' = [wstate EXCEPT ![w] = "idle"]
    /\ UNCHANGED <<engineVars, taken, task, outbox, locked, channel>>

AllStarted ==
    /\ pc = "start"
    /\ \A w \in Workers : wstate[w] # "new"
    /\ pc' = "collect"
    /\ UNCHANGED <<workerVars, size, collected, gaveUp, joined, subtaskVars>>

\* p.start() raises (no process or memory left): run() raises, and nobody
\* joins or terminates the workers already started.
StartFails ==
    /\ pc = "start"
    /\ \E w \in Workers : wstate[w] = "new"
    /\ pc' = "raised"
    /\ UNCHANGED <<workerVars, size, collected, gaveUp, joined, subtaskVars>>

\* result_queue.get returns a result.
Collect ==
    /\ pc = "collect"
    /\ collected < size
    /\ collected < Len(channel)
    /\ collected' = collected + 1
    /\ UNCHANGED <<workerVars, pc, size, gaveUp, joined, subtaskVars>>

\* Mutant of CollectedAll: stops one result short.
CollectedAllButOne ==
    /\ pc = "collect"
    /\ collected + 1 >= size
    /\ pc' = "join"
    /\ UNCHANGED <<workerVars, size, collected, gaveUp, joined, subtaskVars>>

\* One result per sub-task is in.
CollectedAll ==
    /\ pc = "collect"
    /\ collected = size
    /\ pc' = "join"
    /\ UNCHANGED <<workerVars, size, collected, gaveUp, joined, subtaskVars>>

\* Mutant of GiveUp: the timeout is caught and the get is tried again.
GiveUpNever ==
    /\ pc = "collect"
    /\ collected < size
    /\ collected = Len(channel)
    /\ UNCHANGED vars

\* result_queue.get times out: stop collecting.
GiveUp ==
    /\ pc = "collect"
    /\ collected < size
    /\ collected = Len(channel)
    /\ gaveUp' = TRUE
    /\ pc' = "join"
    /\ UNCHANGED <<workerVars, size, collected, joined, subtaskVars>>

\* A worker that is killed takes with it the locks it holds at that moment.
LosesLocks(w) == \E held \in SUBSET MayHold(w) : locked' = locked \cup held

\* p.join returns at once for a worker that ended, or after 5 s, and a worker
\* that is still alive then is terminated with all it holds.
Join(w) ==
    /\ pc = "join"
    /\ w \notin joined
    /\ joined' = joined \cup {w}
    /\ wstate' = [wstate EXCEPT ![w] = IF Alive(w) THEN "killed" ELSE @]
    /\ IF Alive(w) THEN LosesLocks(w) ELSE UNCHANGED locked
    /\ UNCHANGED <<taken, task, outbox, channel, pc, size, collected, gaveUp, subtaskVars>>

\* All joined: run() marks every sub-task done, whether or not its result was
\* collected, merges the results it has and returns.  Subtask.result stays None.
Return ==
    /\ pc = "join"
    /\ joined = Workers
    /\ status' = [s \in Subtask |-> "done"]
    /\ merged' = Results
    /\ pc' = "returned"
    /\ UNCHANGED <<workerVars, size, collected, gaveUp, joined, strategy, answered>>

\* Sequential strategy: _run_single_subtask always returns a text.
SolveBegin(s) ==
    /\ pc = "solve"
    /\ s \in Subtask
    /\ status[s] = "pending"
    /\ \A t \in Subtask : t < s => status[t] = "done"
    /\ status' = [status EXCEPT ![s] = "running"]
    /\ UNCHANGED <<workerVars, pc, size, collected, gaveUp, joined, strategy, answered, merged>>

SolveEnd(s) ==
    /\ pc = "solve"
    /\ s \in Subtask
    /\ status[s] = "running"
    /\ status' = [status EXCEPT ![s] = "done"]
    /\ answered' = answered \cup {s}
    /\ UNCHANGED <<workerVars, pc, size, collected, gaveUp, joined, strategy, merged>>

SequentialReturn ==
    /\ pc = "solve"
    /\ \A s \in Subtask : status[s] = "done"
    /\ merged' = answered
    /\ pc' = "returned"
    /\ UNCHANGED <<workerVars, size, collected, gaveUp, joined, strategy, status, answered>>

-----------------------------------------------------------------------------

\* task_queue.get returns a sub-task, or a None that ends the worker.
Take(w) ==
    /\ wstate[w] = "idle"
    /\ "task" \notin locked
    /\ taken < QueueLength
    /\ taken' = taken + 1
    /\ IF taken' <= size
       THEN /\ task' = [task EXCEPT ![w] = taken']
            /\ wstate' = [wstate EXCEPT ![w] = "busy"]
       ELSE /\ wstate' = [wstate EXCEPT ![w] = "leaving"]
            /\ UNCHANGED task
    /\ UNCHANGED <<engineVars, outbox, locked, channel>>

\* task_queue.get times out after 30 s: nothing is left, or its lock is lost.
TimeOut(w) ==
    /\ wstate[w] = "idle"
    /\ taken = QueueLength \/ "task" \in locked
    /\ wstate' = [wstate EXCEPT ![w] = "leaving"]
    /\ UNCHANGED <<engineVars, taken, task, outbox, locked, channel>>

\* At most three rounds later: result_queue.put.  Whatever the LLM or the tool
\* answers, an error text included, is a result.
Put(w) ==
    /\ wstate[w] = "busy"
    /\ outbox' = [outbox EXCEPT ![w] = @ \cup {task[w]}]
    /\ task' = [task EXCEPT ![w] = 0]
    /\ wstate' = [wstate EXCEPT ![w] = "idle"]
    /\ UNCHANGED <<engineVars, taken, locked, channel>>

\* Mutant of Send: the result stays in the outbox and is sent again.
SendAgain(w) ==
    /\ Alive(w)
    /\ "result" \notin locked
    /\ \E s \in outbox[w] : channel' = Append(channel, [id |-> s, worker |-> w])
    /\ UNCHANGED <<engineVars, taken, wstate, task, outbox, locked>>

\* The queue's background thread sends the oldest result of the outbox: a
\* worker takes sub-tasks in increasing order.
Send(w) ==
    /\ Alive(w)
    /\ "result" \notin locked
    /\ \E s \in outbox[w] :
         /\ \A t \in outbox[w] : s <= t
         /\ channel' = Append(channel, [id |-> s, worker |-> w])
         /\ outbox' = [outbox EXCEPT ![w] = @ \ {s}]
    /\ UNCHANGED <<engineVars, taken, wstate, task, locked>>

\* The process ends once its outbox is flushed.
Leave(w) ==
    /\ wstate[w] = "leaving"
    /\ outbox[w] = {}
    /\ wstate' = [wstate EXCEPT ![w] = "ended"]
    /\ UNCHANGED <<engineVars, taken, task, outbox, locked, channel>>

\* The process is killed, with the sub-task it works on, its outbox, and any
\* lock it holds.
Crash(w) ==
    /\ Alive(w)
    /\ wstate' = [wstate EXCEPT ![w] = "killed"]
    /\ LosesLocks(w)
    /\ UNCHANGED <<engineVars, taken, task, outbox, channel>>

Returned == pc \in {"returned", "raised"} /\ UNCHANGED vars

EngineStep ==
    \/ Split
    \/ \E w \in Workers : StartWorker(w)
    \/ AllStarted
    \/ StartFails
    \/ Collect
    \/ CollectedAll
    \/ GiveUp
    \/ \E w \in Workers : Join(w)
    \/ Return
    \/ \E s \in AllSubtasks : SolveBegin(s) \/ SolveEnd(s)
    \/ SequentialReturn

WorkerStep(w) == Take(w) \/ TimeOut(w) \/ Put(w) \/ Send(w) \/ Leave(w)

Next ==
    \/ EngineStep
    \/ \E w \in Workers : WorkerStep(w) \/ Crash(w)
    \/ Returned

\* The engine's thread always goes on: each of its waits has a timeout.  The
\* workers are owed nothing.
Spec == Init /\ [][Next]_vars /\ WF_vars(EngineStep)

-----------------------------------------------------------------------------
(***************************************************************************)
(* Properties                                                              *)
(***************************************************************************)

\* The state of the engine and of its workers is well formed.
TypeOK ==
    /\ pc \in {"split", "start", "collect", "join", "solve", "returned", "raised"}
    /\ size \in 0 .. MaxSubtasks
    /\ taken \in 0 .. QueueLength
    /\ wstate \in [Workers -> {"new", "idle", "busy", "leaving", "ended", "killed"}]
    /\ task \in [Workers -> 0 .. size]
    /\ outbox \in [Workers -> SUBSET Subtask]
    /\ locked \in SUBSET {"task", "result"}
    /\ channel \in Seq([id : Subtask, worker : Workers])
    /\ collected \in 0 .. Len(channel)
    /\ gaveUp \in BOOLEAN
    /\ joined \in SUBSET Workers
    /\ strategy \in {"parallel", "sequential"}
    /\ status \in [Subtask -> {"pending", "running", "done"}]
    /\ answered \in SUBSET Subtask
    /\ merged \in SUBSET Subtask

\* A sub-task that was taken from the queue is in exactly one place: a worker
\* works on it, its result waits in an outbox, or its result was sent.  A crash
\* may strand it with a dead worker but never makes a second copy, so no result
\* is ever counted for two.
Places(s) ==
    {<<"worked on", w>> : w \in {v \in Workers : task[v] = s}} \cup
    {<<"in outbox", w>> : w \in {v \in Workers : s \in outbox[v]}} \cup
    {<<"sent", i>> : i \in {j \in DOMAIN channel : channel[j].id = s}}

ExactlyOnePlace ==
    \A s \in Subtask : Cardinality(Places(s)) = IF s <= taken THEN 1 ELSE 0

\* A worker stops by itself only when every sub-task has been handed out (the
\* Nones are behind all sub-tasks in the queue, whatever order the workers run
\* in), or when a killed worker has taken the queue's lock with it.
NoneAfterWork ==
    \A w \in Workers :
        wstate[w] \in {"leaving", "ended"} => taken >= size \/ "task" \in locked

\* The queue never runs dry under a worker that waits for it: there is a None
\* for each worker and each worker takes at most one, crashes or not.  So the
\* 30 s timeout of task_queue.get ends a worker only when the lock is lost.
NeverStarved ==
    \A w \in Workers : wstate[w] = "idle" => taken < QueueLength

\* The engine counts results, it does not look at their ids.  Still, when it
\* did not give up on a timeout, the merged answer draws on every sub-task.
CompleteUnlessGaveUp ==
    pc = "returned" /\ ~gaveUp => merged = Subtask

\* When run() has returned no worker process of it is left running, and one
\* that was not killed has delivered everything it put.
NoOrphans ==
    pc = "returned" =>
        \A w \in Workers : /\ ~Alive(w)
                           /\ wstate[w] = "ended" => task[w] = 0 /\ outbox[w] = {}

\* run() returns, or raises, even if every worker dies.
Terminates == <>(pc \in {"returned", "raised"})

\* run's docstring: "Returns SwarmResult with all subtask results and merged
\* answer", and a sub-task reported done is one of them.  The code does not
\* keep this (README, section 6), and no run checks it.
DoneHasResult ==
    pc = "returned" =>
        \A s \in Subtask : status[s] = "done" => s \in merged


\* No sub-task is lost, doubled or starved between the engine and its workers,
\* and no worker is left behind: the four invariants above on a state that is
\* well formed (_run_parallel, _worker_loop).
WorkIsKept == TypeOK /\ ExactlyOnePlace /\ NoneAfterWork /\ NeverStarved /\ NoOrphans
=============================================================================
