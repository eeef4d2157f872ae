---------------------------- MODULE SwarmProofs ----------------------------
(***************************************************************************)
(* Proofs about Swarm, for any number of sub-tasks and any finite set of   *)
(* worker processes, killed at any point, with or without a queue's lock.  *)
(*                                                                         *)
(* The inductive invariant has three parts: TypeOK; WorkerInv, about the   *)
(* queues and the workers; and EngineInv, about what run() has done so far.*)
(***************************************************************************)
EXTENDS Swarm, FiniteSetTheorems, FunctionTheorems, SequenceTheorems, TLAPS

\* No sub-task is in two places, and one that was taken is somewhere.
HeldOnce ==
    /\ \A v, w \in Workers : task[v] # 0 /\ task[v] = task[w] => v = w
    /\ \A v, w \in Workers : \A s \in outbox[v] : s # task[w] /\ (s \in outbox[w] => v = w)
    /\ \A i \in DOMAIN channel : \A w \in Workers :
         channel[i].id # task[w] /\ channel[i].id \notin outbox[w]
    /\ \A i, j \in DOMAIN channel : channel[i].id = channel[j].id => i = j

NoneInvented ==
    /\ \A w \in Workers : task[w] <= taken /\ \A s \in outbox[w] : s <= taken
    /\ \A i \in DOMAIN channel : channel[i].id <= taken

Held(s) ==
    \/ \E w \in Workers : task[w] = s \/ s \in outbox[w]
    \/ \E i \in DOMAIN channel : channel[i].id = s

NoneLost == \A s \in Subtask : s <= taken => Held(s)

\* What a worker in each of its states has in hand.
WorkerBooks ==
    \A w \in Workers :
        /\ wstate[w] \in {"new", "idle", "leaving", "ended"} => task[w] = 0
        /\ wstate[w] = "busy" => task[w] # 0
        /\ wstate[w] \in {"new", "ended"} => outbox[w] = {}

\* Workers that have stopped; each None that was taken stopped one of them.
Stopped == {w \in Workers : wstate[w] \in {"leaving", "ended", "killed"}}

NonesCounted == taken <= size + Cardinality(Stopped)

WorkerInv ==
    /\ HeldOnce
    /\ NoneInvented
    /\ NoneLost
    /\ WorkerBooks
    /\ NoneAfterWork
    /\ NonesCounted

\* The workers of a run() that does not use them, or not yet.
Asleep == taken = 0 /\ \A w \in Workers : wstate[w] = "new"

EngineInv ==
    /\ pc = "split" => size = 0 /\ Asleep /\ answered = {}
    /\ strategy = "sequential" => pc \in {"split", "solve", "returned"} /\ Asleep
    /\ strategy = "parallel" => pc # "solve"
    /\ pc \in {"split", "start", "collect"} => joined = {} /\ ~gaveUp
    /\ \A w \in joined : ~Alive(w)
    /\ pc \in {"join", "returned"} /\ strategy = "parallel" => gaveUp \/ collected = size
    /\ pc = "returned" /\ strategy = "parallel" => joined = Workers /\ merged = Results
    /\ strategy = "sequential" => \A s \in Subtask : status[s] = "done" => s \in answered
    /\ strategy = "sequential" /\ pc = "returned" => merged = Subtask

IInv == TypeOK /\ WorkerInv /\ EngineInv

-----------------------------------------------------------------------------

LEMMA StoppedFinite ==
    /\ IsFiniteSet(Stopped)
    /\ Cardinality(Stopped) \in Nat
    /\ Cardinality(Workers) \in Nat
  BY WorkersAssumption, FS_Subset, FS_CardinalityType DEF Stopped

\* The values the queues and the workers hold are sub-tasks.
LEMMA HeldAreSubtasks ==
    ASSUME TypeOK
    PROVE  /\ DOMAIN channel = 1 .. Len(channel) /\ Len(channel) \in Nat
           /\ \A i \in DOMAIN channel : channel[i].id \in Subtask /\ channel[i].id \in Nat
           /\ \A w \in Workers : task[w] \in Nat /\ outbox[w] \subseteq Subtask
           /\ Subtask \subseteq Nat
           /\ size \in Nat /\ taken \in Nat /\ QueueLength \in Nat
  <1>1. size \in Nat /\ Subtask \subseteq Nat
    BY SubtasksAssumption DEF TypeOK, Subtask
  <1>2. taken \in Nat /\ QueueLength \in Nat
    BY <1>1, StoppedFinite DEF TypeOK, QueueLength
  <1>3. \A w \in Workers : task[w] \in Nat /\ outbox[w] \subseteq Subtask
    <2> SUFFICES ASSUME NEW w \in Workers PROVE task[w] \in Nat /\ outbox[w] \subseteq Subtask
      OBVIOUS
    <2>1. task[w] \in 0 .. size /\ outbox[w] \in SUBSET Subtask
      BY DEF TypeOK
    <2> QED  BY <2>1, <1>1
  <1>4. DOMAIN channel = 1 .. Len(channel) /\ Len(channel) \in Nat
    BY DEF TypeOK
  <1>5. \A i \in DOMAIN channel : channel[i] \in [id : Subtask, worker : Workers]
    BY <1>4, ElementOfSeq DEF TypeOK
  <1> QED  BY <1>1, <1>2, <1>3, <1>4, <1>5

\* A kill only ever adds locks to the lost ones.
LEMMA LocksAreLost ==
    ASSUME TypeOK, NEW w \in Workers, LosesLocks(w)
    PROVE  locked \subseteq locked' /\ locked' \in SUBSET {"task", "result"}
  BY DEF LosesLocks, MayHold, TypeOK

LEMMA InitInvariant == Init => IInv
  <1> SUFFICES ASSUME Init PROVE IInv
    OBVIOUS
  <1> USE DEF Init
  <1>1. Subtask = {} /\ DOMAIN channel = {} /\ taken <= size + Cardinality(Stopped)
    <2>1. Subtask = {}
      BY DEF Subtask
    <2>2. DOMAIN channel = {}
      OBVIOUS
    <2>3. taken <= size + Cardinality(Stopped)
      BY StoppedFinite
    <2> QED  BY <2>1, <2>2, <2>3
  <1>2. TypeOK
    <2>1. taken \in 0 .. QueueLength /\ size \in 0 .. MaxSubtasks
      BY StoppedFinite, SubtasksAssumption DEF QueueLength
    <2>2. status \in [Subtask -> {"pending", "running", "done"}]
      BY <1>1
    <2>3. channel \in Seq([id : Subtask, worker : Workers]) /\ collected \in 0 .. Len(channel)
      OBVIOUS
    <2>4. /\ wstate \in [Workers -> {"new", "idle", "busy", "leaving", "ended", "killed"}]
          /\ task \in [Workers -> 0 .. size]
          /\ outbox \in [Workers -> SUBSET Subtask]
      OBVIOUS
    <2> QED  BY <2>1, <2>2, <2>3, <2>4 DEF TypeOK
  <1>3. HeldOnce /\ NoneInvented /\ NoneLost
    BY <1>1 DEF HeldOnce, NoneInvented, NoneLost
  <1>4. WorkerBooks /\ NoneAfterWork /\ NonesCounted
    BY <1>1 DEF WorkerBooks, NoneAfterWork, NonesCounted
  <1>5. EngineInv
    BY <1>1 DEF EngineInv, Asleep
  <1> QED  BY <1>2, <1>3, <1>4, <1>5 DEF IInv, WorkerInv

-----------------------------------------------------------------------------
(***************************************************************************)
(* Steps of the engine                                                     *)
(***************************************************************************)

\* WorkerInv only speaks of the workers' variables and of size.
LEMMA WorkersUntouched ==
    ASSUME WorkerInv, UNCHANGED <<workerVars, size>> PROVE WorkerInv'
  BY DEF WorkerInv, workerVars, HeldOnce, NoneInvented, NoneLost, Held, Subtask, WorkerBooks,
         NoneAfterWork, NonesCounted, Stopped

LEMMA SplitStep == IInv /\ Split => IInv'
  <1> SUFFICES ASSUME IInv, Split PROVE IInv'
    OBVIOUS
  <1> USE DEF Split, workerVars
  <1>1. /\ size = 0 /\ taken = 0 /\ answered = {} /\ Subtask = {} /\ joined = {} /\ ~gaveUp
        /\ \A w \in Workers : wstate[w] = "new" /\ task[w] = 0 /\ outbox[w] = {}
        /\ size' \in Nat
    BY SubtasksAssumption DEF IInv, EngineInv, Asleep, WorkerInv, WorkerBooks, Subtask
  <1>2. Len(channel) = 0 /\ DOMAIN channel = {} /\ channel = <<>> /\ collected = 0
    BY <1>1 DEF IInv, TypeOK
  <1>3. TypeOK'
    BY <1>1, <1>2, StoppedFinite, SubtasksAssumption DEF IInv, TypeOK, QueueLength, Subtask
  <1>4. HeldOnce' /\ NoneInvented' /\ NoneLost'
    BY <1>1, <1>2 DEF IInv, WorkerInv, HeldOnce, NoneInvented, NoneLost, Subtask
  <1>5. WorkerBooks' /\ NoneAfterWork' /\ NonesCounted'
    BY <1>1, StoppedFinite
       DEF IInv, WorkerInv, WorkerBooks, NoneAfterWork, NonesCounted, Stopped
  <1>6. EngineInv'
    BY <1>1, <1>2 DEF IInv, EngineInv, TypeOK, Asleep, Alive, Subtask
  <1> QED  BY <1>3, <1>4, <1>5, <1>6 DEF IInv, WorkerInv

LEMMA StartWorkerStep == ASSUME IInv, NEW w \in Workers, StartWorker(w) PROVE IInv'
  <1> USE DEF StartWorker, engineVars, subtaskVars
  <1>1. TypeOK'
    BY DEF IInv, TypeOK, QueueLength, Subtask
  <1>2. Stopped' = Stopped
    BY DEF Stopped, IInv, TypeOK
  <1>3. WorkerInv'
    <2>1. HeldOnce' /\ NoneInvented' /\ NoneLost'
      BY DEF IInv, WorkerInv, HeldOnce, NoneInvented, NoneLost, Held, Subtask
    <2>2. WorkerBooks' /\ NoneAfterWork' /\ NonesCounted'
      BY <1>2 DEF IInv, TypeOK, WorkerInv, WorkerBooks, NoneAfterWork, NonesCounted
    <2> QED  BY <2>1, <2>2 DEF WorkerInv
  <1>4. EngineInv'
    BY DEF IInv, TypeOK, EngineInv, Asleep, Alive, Subtask, Results
  <1> QED  BY <1>1, <1>3, <1>4 DEF IInv

LEMMA EngineOnlyStep ==
    ASSUME IInv, AllStarted \/ StartFails \/ Collect \/ CollectedAll \/ GiveUp PROVE IInv'
  <1> USE DEF AllStarted, StartFails, Collect, CollectedAll, GiveUp, workerVars, subtaskVars
  <1>1. UNCHANGED <<workerVars, size, status, strategy, answered, merged, joined>>
    OBVIOUS
  <1>2. WorkerInv'
    BY <1>1, WorkersUntouched DEF IInv
  <1>3. collected' \in 0 .. Len(channel)
    BY HeldAreSubtasks DEF IInv, TypeOK
  <1>4. pc' \in {"collect", "join", "raised"} /\ gaveUp' \in BOOLEAN
    BY DEF IInv, TypeOK
  <1>5. TypeOK'
    BY <1>1, <1>3, <1>4 DEF IInv, TypeOK, QueueLength, Subtask
  <1>6. EngineInv'
    BY <1>1 DEF IInv, EngineInv, Asleep, Alive, Subtask, TypeOK
  <1> QED  BY <1>2, <1>5, <1>6 DEF IInv

LEMMA JoinStep == ASSUME IInv, NEW w \in Workers, Join(w) PROVE IInv'
  <1> USE DEF Join, subtaskVars
  <1>0. locked \subseteq locked' /\ locked' \in SUBSET {"task", "result"}
    BY LocksAreLost DEF IInv, TypeOK
  <1>1. TypeOK'
    BY <1>0 DEF IInv, TypeOK, QueueLength, Subtask
  <1>2. /\ \A v \in Workers : v # w => wstate'[v] = wstate[v]
        /\ wstate'[w] = IF Alive(w) THEN "killed" ELSE wstate[w]
    BY DEF IInv, TypeOK
  <1>3. Stopped \subseteq Stopped' /\ IsFiniteSet(Stopped')
    BY <1>2, WorkersAssumption, FS_Subset DEF Stopped
  <1>4. Cardinality(Stopped) <= Cardinality(Stopped') /\ Cardinality(Stopped') \in Nat
    BY <1>3, FS_Subset, FS_CardinalityType
  <1>5. NonesCounted'
    BY <1>4, StoppedFinite DEF IInv, TypeOK, WorkerInv, NonesCounted, QueueLength
  <1>6. WorkerBooks' /\ NoneAfterWork'
    BY <1>0, <1>2 DEF IInv, WorkerInv, WorkerBooks, NoneAfterWork, Alive
  <1>7. HeldOnce' /\ NoneInvented' /\ NoneLost'
    BY DEF IInv, WorkerInv, HeldOnce, NoneInvented, NoneLost, Held, Subtask
  <1>8. EngineInv'
    BY <1>2 DEF IInv, TypeOK, EngineInv, Asleep, Alive, Subtask
  <1> QED  BY <1>1, <1>5, <1>6, <1>7, <1>8 DEF IInv, WorkerInv

LEMMA ResultsAreSubtasks == TypeOK => Results \subseteq Subtask
  <1> SUFFICES ASSUME TypeOK, NEW i \in 1 .. collected PROVE channel[i].id \in Subtask
    BY DEF Results
  <1>1. i \in DOMAIN channel
    BY HeldAreSubtasks DEF TypeOK
  <1> QED  BY <1>1, HeldAreSubtasks

LEMMA ReturnStep == IInv /\ Return => IInv'
  <1> SUFFICES ASSUME IInv, Return PROVE IInv'
    OBVIOUS
  <1> USE DEF Return, workerVars
  <1>1. WorkerInv'
    BY WorkersUntouched DEF IInv
  <1>2. TypeOK'
    BY ResultsAreSubtasks DEF IInv, TypeOK, QueueLength, Subtask
  <1>3. EngineInv'
    BY DEF IInv, EngineInv, TypeOK, Asleep, Alive, Subtask, Results
  <1> QED  BY <1>1, <1>2, <1>3 DEF IInv

LEMMA SequentialStep ==
    ASSUME IInv, SequentialReturn \/ \E s \in AllSubtasks : SolveBegin(s) \/ SolveEnd(s)
    PROVE  IInv'
  <1> USE DEF SequentialReturn, SolveBegin, SolveEnd, workerVars
  <1>1. WorkerInv'
    BY WorkersUntouched DEF IInv
  <1>2. strategy = "sequential"
    BY DEF IInv, TypeOK, EngineInv
  <1>3. TypeOK'
    BY DEF IInv, TypeOK, QueueLength, Subtask
  <1>4. EngineInv'
    BY <1>2 DEF IInv, EngineInv, TypeOK, Asleep, Alive, Subtask
  <1> QED  BY <1>1, <1>3, <1>4 DEF IInv

-----------------------------------------------------------------------------
(***************************************************************************)
(* Steps of the workers                                                    *)
(***************************************************************************)

\* A step of a worker that is neither new nor stopped says nothing about what
\* the engine has done.
LEMMA EngineUntouched ==
    ASSUME IInv, engineVars' = engineVars, NEW w \in Workers, Alive(w),
           \A v \in Workers : v # w => wstate'[v] = wstate[v],
           Results' = Results
    PROVE  EngineInv'
  <1>1. strategy = "parallel" /\ pc # "split" /\ w \notin joined
    BY DEF IInv, TypeOK, EngineInv, Asleep, Alive
  <1> QED  BY <1>1 DEF IInv, EngineInv, TypeOK, engineVars, subtaskVars, Subtask, Alive

LEMMA TakeStep == ASSUME IInv, NEW w \in Workers, Take(w) PROVE IInv'
  <1> USE DEF Take
  <1>1. /\ wstate[w] = "idle" /\ task[w] = 0
        /\ \A v \in Workers : v # w => wstate'[v] = wstate[v] /\ task'[v] = task[v]
        /\ taken \in Nat /\ size \in Nat /\ QueueLength \in Nat
        /\ taken' = taken + 1 /\ taken < QueueLength
        /\ UNCHANGED <<engineVars, outbox, locked, channel, size, collected>>
    BY StoppedFinite, SubtasksAssumption
       DEF IInv, TypeOK, WorkerInv, WorkerBooks, QueueLength, engineVars
  <1>2. EngineInv'
    BY <1>1, EngineUntouched DEF Alive, Results
  <1>3. CASE taken' <= size
    <2>1. task'[w] = taken' /\ wstate'[w] = "busy" /\ taken' \in Subtask
      BY <1>1, <1>3 DEF IInv, TypeOK, Subtask
    <2>2. TypeOK'
      <3>1. taken' \in 0 .. QueueLength /\ task' \in [Workers -> 0 .. size]
        BY <1>1, <2>1 DEF IInv, TypeOK, Subtask
      <3> QED  BY <1>1, <2>1, <3>1 DEF IInv, TypeOK, QueueLength, Subtask, engineVars, subtaskVars
    <2>3. HeldOnce'
      <3>1. /\ \A v \in Workers : task[v] # taken' /\ taken' \notin outbox[v]
            /\ \A i \in DOMAIN channel : channel[i].id # taken'
        BY <1>1, HeldAreSubtasks DEF IInv, WorkerInv, NoneInvented
      <3>2. \A v \in Workers : task'[v] = IF v = w THEN taken' ELSE task[v]
        BY <1>1, <2>1
      <3> QED  BY <1>1, <3>1, <3>2 DEF IInv, WorkerInv, HeldOnce
    <2>4. NoneInvented'
      <3>1. \A v \in Workers : task'[v] <= taken'
        BY <1>1, <2>1, HeldAreSubtasks DEF IInv, WorkerInv, NoneInvented
      <3>2. \A v \in Workers : \A s \in outbox[v] : s \in Nat /\ s <= taken
        BY HeldAreSubtasks DEF IInv, WorkerInv, NoneInvented
      <3>3. \A i \in DOMAIN channel : channel[i].id <= taken'
        BY <1>1, HeldAreSubtasks DEF IInv, WorkerInv, NoneInvented
      <3> QED  BY <1>1, <3>1, <3>2, <3>3 DEF NoneInvented
    <2>5. NoneLost'
      <3> SUFFICES ASSUME NEW s \in Subtask, s <= taken' PROVE Held(s)'
        BY <1>1 DEF NoneLost, Subtask
      <3>1. CASE s = taken'
        BY <2>1, <3>1 DEF Held
      <3>2. CASE s # taken'
        BY <1>1, <3>2 DEF Held, IInv, WorkerInv, NoneLost, Subtask
      <3> QED  BY <3>1, <3>2
    <2>6. WorkerBooks' /\ NoneAfterWork'
      BY <1>1, <2>1 DEF IInv, WorkerInv, WorkerBooks, NoneAfterWork
    <2>7. NonesCounted'
      <3>1. Stopped' = Stopped
        BY <1>1, <2>1 DEF Stopped
      <3> QED  BY <1>1, <1>3, <3>1, StoppedFinite DEF NonesCounted
    <2> QED  BY <1>2, <2>2, <2>3, <2>4, <2>5, <2>6, <2>7 DEF IInv, WorkerInv
  <1>4. CASE ~(taken' <= size)
    <2>1. task' = task /\ wstate'[w] = "leaving"
      BY <1>4 DEF IInv, TypeOK
    <2>2. TypeOK'
      <3>1. taken' \in 0 .. QueueLength /\ task' \in [Workers -> 0 .. size]
        BY <1>1, <2>1 DEF IInv, TypeOK, Subtask
      <3> QED  BY <1>1, <2>1, <3>1 DEF IInv, TypeOK, QueueLength, Subtask, engineVars, subtaskVars
    <2>3. HeldOnce'
      BY <1>1, <2>1 DEF IInv, WorkerInv, HeldOnce
    <2>4. NoneInvented'
      BY <1>1, <2>1, HeldAreSubtasks DEF IInv, WorkerInv, NoneInvented
    <2>5. NoneLost'
      BY <1>1, <1>4, <2>1 DEF Held, IInv, WorkerInv, NoneLost, Subtask
    <2>6. WorkerBooks' /\ NoneAfterWork'
      BY <1>1, <1>4, <2>1 DEF IInv, WorkerInv, WorkerBooks, NoneAfterWork
    <2>7. NonesCounted'
      <3>1. Stopped' = Stopped \cup {w} /\ w \notin Stopped
        BY <1>1, <2>1 DEF Stopped
      <3>2. Cardinality(Stopped') = Cardinality(Stopped) + 1
        BY <3>1, StoppedFinite, FS_AddElement
      <3> QED  BY <1>1, <3>2, StoppedFinite DEF IInv, WorkerInv, NonesCounted
    <2> QED  BY <1>2, <2>2, <2>3, <2>4, <2>5, <2>6, <2>7 DEF IInv, WorkerInv
  <1> QED  BY <1>3, <1>4

LEMMA PutStep == ASSUME IInv, NEW w \in Workers, Put(w) PROVE IInv'
  <1> USE DEF Put
  <1>1. /\ wstate[w] = "busy" /\ task[w] # 0 /\ task[w] \in Subtask
        /\ wstate'[w] = "idle" /\ task'[w] = 0 /\ outbox'[w] = outbox[w] \cup {task[w]}
        /\ \A v \in Workers : v # w =>
             wstate'[v] = wstate[v] /\ task'[v] = task[v] /\ outbox'[v] = outbox[v]
        /\ UNCHANGED <<engineVars, taken, locked, channel, size, collected>>
    BY SubtasksAssumption DEF IInv, TypeOK, WorkerInv, WorkerBooks, Subtask, engineVars
  <1>2. EngineInv'
    BY <1>1, EngineUntouched DEF Alive, Results
  <1>3. TypeOK'
    <2>1. /\ task' \in [Workers -> 0 .. size] /\ outbox' \in [Workers -> SUBSET Subtask]
          /\ wstate' \in [Workers -> {"new", "idle", "busy", "leaving", "ended", "killed"}]
      BY <1>1, HeldAreSubtasks DEF IInv, TypeOK
    <2> QED  BY <1>1, <2>1 DEF IInv, TypeOK, QueueLength, Subtask, engineVars, subtaskVars
  <1>4. HeldOnce'
    BY <1>1, HeldAreSubtasks DEF IInv, WorkerInv, HeldOnce, Subtask
  <1>5. NoneInvented'
    BY <1>1, HeldAreSubtasks DEF IInv, WorkerInv, NoneInvented
  <1>6. NoneLost'
    <2> SUFFICES ASSUME NEW s \in Subtask, Held(s) PROVE Held(s)'
      BY <1>1 DEF IInv, WorkerInv, NoneLost, Subtask
    <2>1. CASE s = task[w]
      BY <1>1, <2>1 DEF Held
    <2>2. CASE s # task[w]
      BY <1>1, <2>2 DEF Held
    <2> QED  BY <2>1, <2>2
  <1>7. WorkerBooks' /\ NoneAfterWork'
    BY <1>1 DEF IInv, WorkerInv, WorkerBooks, NoneAfterWork
  <1>8. Stopped' = Stopped
    BY <1>1 DEF Stopped
  <1>9. NonesCounted'
    BY <1>1, <1>8 DEF IInv, WorkerInv, NonesCounted
  <1> QED  BY <1>2, <1>3, <1>4, <1>5, <1>6, <1>7, <1>9 DEF IInv, WorkerInv

LEMMA SendStep == ASSUME IInv, NEW w \in Workers, Send(w) PROVE IInv'
  <1> DEFINE Message == [id : Subtask, worker : Workers]
  <1>1. PICK s \in outbox[w] :
          /\ channel' = Append(channel, [id |-> s, worker |-> w])
          /\ outbox' = [outbox EXCEPT ![w] = @ \ {s}]
    BY DEF Send
  <1>2. /\ Alive(w) /\ s \in Subtask
        /\ [id |-> s, worker |-> w] \in Message
        /\ outbox'[w] = outbox[w] \ {s}
        /\ \A v \in Workers : v # w => outbox'[v] = outbox[v]
        /\ UNCHANGED <<engineVars, taken, wstate, task, locked, size, collected>>
    BY <1>1 DEF Send, IInv, TypeOK, engineVars
  <1>3. /\ channel' \in Seq(Message)
        /\ Len(channel') = Len(channel) + 1
        /\ \A i \in DOMAIN channel : channel'[i] = channel[i]
        /\ channel'[Len(channel')] = [id |-> s, worker |-> w]
        /\ DOMAIN channel' = DOMAIN channel \cup {Len(channel')}
        /\ Len(channel') \notin DOMAIN channel
    <2>1. channel \in Seq(Message) /\ DOMAIN channel = 1 .. Len(channel) /\ Len(channel) \in Nat
      BY HeldAreSubtasks DEF IInv, TypeOK
    <2>2. channel' \in Seq(Message) /\ Len(channel') = Len(channel) + 1
      BY <1>1, <1>2, <2>1, AppendProperties
    <2>3. DOMAIN channel' = 1 .. Len(channel')
      BY <2>2, LenProperties
    <2>4. \A i \in 1 .. Len(channel) : channel'[i] = channel[i]
      BY <1>1, <1>2, <2>1, AppendProperties
    <2>5. channel'[Len(channel) + 1] = [id |-> s, worker |-> w]
      BY <1>1, <1>2, <2>1, AppendProperties
    <2> QED  BY <2>1, <2>2, <2>3, <2>4, <2>5
  <1>4. Results' = Results
    <2>1. \A i \in 1 .. collected : i \in DOMAIN channel
      BY HeldAreSubtasks DEF IInv, TypeOK
    <2> QED  BY <1>2, <1>3, <2>1 DEF Results
  <1>5. EngineInv'
    BY <1>2, <1>4, EngineUntouched
  <1>6. TypeOK'
    <2>1. /\ outbox' \in [Workers -> SUBSET Subtask]
          /\ collected' \in 0 .. Len(channel')
      BY <1>1, <1>2, <1>3, HeldAreSubtasks DEF IInv, TypeOK
    <2> QED  BY <1>2, <1>3, <2>1 DEF IInv, TypeOK, QueueLength, Subtask, engineVars, subtaskVars
  <1>7. HeldOnce'
    <2>1. \A v \in Workers : s # task[v] /\ (s \in outbox[v] => v = w)
      BY <1>1 DEF IInv, WorkerInv, HeldOnce
    <2>2. \A i \in DOMAIN channel : channel[i].id # s
      BY <1>1 DEF IInv, WorkerInv, HeldOnce
    <2>3. \A i \in DOMAIN channel' :
             \/ i \in DOMAIN channel /\ channel'[i].id = channel[i].id
             \/ i = Len(channel') /\ channel'[i].id = s
      BY <1>3
    <2>4. \A v \in Workers : outbox'[v] \subseteq outbox[v] /\ s \notin outbox'[v]
      BY <1>2, <2>1
    <2>5. \A u, v \in Workers : \A t \in outbox'[u] : t # task'[v] /\ (t \in outbox'[v] => u = v)
      BY <1>2, <2>4 DEF IInv, WorkerInv, HeldOnce
    <2>6. \A i \in DOMAIN channel' : \A v \in Workers :
             channel'[i].id # task'[v] /\ channel'[i].id \notin outbox'[v]
      BY <1>2, <2>1, <2>3, <2>4 DEF IInv, WorkerInv, HeldOnce
    <2>7. \A i, j \in DOMAIN channel' : channel'[i].id = channel'[j].id => i = j
      BY <2>2, <2>3 DEF IInv, WorkerInv, HeldOnce
    <2>8. \A u, v \in Workers : task'[u] # 0 /\ task'[u] = task'[v] => u = v
      BY <1>2 DEF IInv, WorkerInv, HeldOnce
    <2> QED  BY <2>5, <2>6, <2>7, <2>8 DEF HeldOnce
  <1>8. NoneInvented'
    BY <1>1, <1>2, <1>3 DEF IInv, WorkerInv, NoneInvented
  <1>9. NoneLost'
    <2> SUFFICES ASSUME NEW t \in Subtask, Held(t) PROVE Held(t)'
      BY <1>2 DEF IInv, WorkerInv, NoneLost, Subtask
    <2>1. CASE t = s
      BY <1>3, <2>1 DEF Held
    <2>2. CASE t # s
      BY <1>2, <1>3, <2>2 DEF Held
    <2> QED  BY <2>1, <2>2
  <1>10. WorkerBooks' /\ NoneAfterWork'
    BY <1>2 DEF IInv, WorkerInv, WorkerBooks, NoneAfterWork, Alive
  <1>11. NonesCounted'
    BY <1>2 DEF IInv, WorkerInv, NonesCounted, Stopped
  <1> QED  BY <1>5, <1>6, <1>7, <1>8, <1>9, <1>10, <1>11 DEF IInv, WorkerInv

LEMMA StopStep ==
    ASSUME IInv, NEW w \in Workers, TimeOut(w) \/ Leave(w) \/ Crash(w) PROVE IInv'
  <1> USE DEF TimeOut, Leave, Crash
  <1>0. locked \subseteq locked' /\ locked' \in SUBSET {"task", "result"}
    BY LocksAreLost DEF IInv, TypeOK
  <1>1. /\ Alive(w)
        /\ wstate'[w] \in {"leaving", "ended", "killed"}
        /\ wstate'[w] = "leaving" => wstate[w] = "idle" /\ (taken >= size \/ "task" \in locked)
        /\ wstate'[w] = "ended" => wstate[w] = "leaving" /\ outbox[w] = {}
        /\ \A v \in Workers : v # w => wstate'[v] = wstate[v]
        /\ wstate' \in [Workers -> {"new", "idle", "busy", "leaving", "ended", "killed"}]
        /\ UNCHANGED <<engineVars, taken, task, outbox, channel, size, collected>>
    BY StoppedFinite, HeldAreSubtasks DEF IInv, TypeOK, Alive, engineVars, QueueLength
  <1>2. TypeOK'
    BY <1>0, <1>1 DEF IInv, TypeOK, QueueLength, Subtask, engineVars, subtaskVars
  <1>3. EngineInv'
    BY <1>1, EngineUntouched DEF Results
  <1>4. HeldOnce' /\ NoneInvented' /\ NoneLost'
    BY <1>1 DEF IInv, WorkerInv, HeldOnce, NoneInvented, NoneLost, Held, Subtask
  <1>5. WorkerBooks' /\ NoneAfterWork'
    BY <1>0, <1>1 DEF IInv, WorkerInv, WorkerBooks, NoneAfterWork
  <1>6. Stopped \subseteq Stopped' /\ IsFiniteSet(Stopped')
    BY <1>1, WorkersAssumption, FS_Subset DEF Stopped
  <1>7. Cardinality(Stopped) <= Cardinality(Stopped') /\ Cardinality(Stopped') \in Nat
    BY <1>6, FS_Subset, FS_CardinalityType
  <1>8. NonesCounted'
    BY <1>1, <1>7, StoppedFinite, HeldAreSubtasks DEF IInv, WorkerInv, NonesCounted
  <1> QED  BY <1>2, <1>3, <1>4, <1>5, <1>8 DEF IInv, WorkerInv

LEMMA NextInvariant == IInv /\ [Next]_vars => IInv'
  <1> SUFFICES ASSUME IInv, [Next]_vars PROVE IInv'
    OBVIOUS
  <1>1. CASE EngineStep
    BY <1>1, SplitStep, StartWorkerStep, EngineOnlyStep, JoinStep, ReturnStep, SequentialStep
       DEF EngineStep
  <1>2. ASSUME NEW w \in Workers, WorkerStep(w) \/ Crash(w) PROVE IInv'
    BY <1>2, TakeStep, PutStep, SendStep, StopStep DEF WorkerStep
  <1>3. CASE UNCHANGED vars
    <2>1. WorkerInv'
      BY <1>3, WorkersUntouched DEF IInv, vars, engineVars
    <2>2. TypeOK'
      BY <1>3 DEF IInv, TypeOK, QueueLength, Subtask, vars, engineVars, workerVars, subtaskVars
    <2>3. EngineInv'
      BY <1>3 DEF IInv, EngineInv, Asleep, Alive, Subtask, Results,
                  vars, engineVars, workerVars, subtaskVars
    <2> QED  BY <2>1, <2>2, <2>3 DEF IInv
  <1> QED  BY <1>1, <1>2, <1>3 DEF Next, Returned

-----------------------------------------------------------------------------
(***************************************************************************)
(* Theorems                                                                *)
(***************************************************************************)

THEOREM InductiveInvariant == Spec => []IInv
  BY InitInvariant, NextInvariant, PTL DEF Spec

\* The state of the engine, its queues and its workers is always well formed.
THEOREM TypeCorrect == Spec => []TypeOK
  <1>1. IInv => TypeOK
    BY DEF IInv
  <1> QED  BY <1>1, InductiveInvariant, PTL

\* A sub-task taken from the queue is worked on, waits in an outbox or was
\* sent, and never two of these (_worker_loop, 101-161).
THEOREM AlwaysExactlyOnePlace == Spec => []ExactlyOnePlace
  <1>1. ASSUME IInv, NEW s \in Subtask
        PROVE  Cardinality(Places(s)) = IF s <= taken THEN 1 ELSE 0
    <2> DEFINE W == {v \in Workers : task[v] = s}
               O == {v \in Workers : s \in outbox[v]}
               C == {j \in DOMAIN channel : channel[j].id = s}
    <2>1. Places(s) = {<<"worked on", w>> : w \in W} \cup {<<"in outbox", w>> : w \in O}
                        \cup {<<"sent", i>> : i \in C}
      BY DEF Places
    <2>2. s \in Nat /\ s # 0 /\ taken \in Nat
      BY <1>1, HeldAreSubtasks DEF IInv, Subtask
    <2>3. CASE ~(s <= taken)
      <3>1. W = {} /\ O = {} /\ C = {}
        BY <1>1, <2>3 DEF IInv, WorkerInv, NoneInvented
      <3>2. Places(s) = {}
        BY <2>1, <3>1
      <3> QED  BY <2>3, <3>2, FS_EmptySet
    <2>4. CASE s <= taken
      <3>1. Held(s)
        BY <1>1, <2>4 DEF IInv, WorkerInv, NoneLost
      <3>2. ASSUME NEW w \in Workers, task[w] = s PROVE \E p : Places(s) = {p}
        <4>1. W = {w} /\ O = {} /\ C = {}
          BY <1>1, <2>2, <3>2 DEF IInv, WorkerInv, HeldOnce
        <4>2. Places(s) = {<<"worked on", w>>}
          BY <2>1, <4>1
        <4> QED  BY <4>2
      <3>3. ASSUME NEW w \in Workers, s \in outbox[w] PROVE \E p : Places(s) = {p}
        <4>1. W = {} /\ O = {w} /\ C = {}
          BY <1>1, <3>3 DEF IInv, WorkerInv, HeldOnce
        <4>2. Places(s) = {<<"in outbox", w>>}
          BY <2>1, <4>1
        <4> QED  BY <4>2
      <3>4. ASSUME NEW i \in DOMAIN channel, channel[i].id = s PROVE \E p : Places(s) = {p}
        <4>1. W = {} /\ O = {} /\ C = {i}
          BY <1>1, <3>4 DEF IInv, WorkerInv, HeldOnce
        <4>2. Places(s) = {<<"sent", i>>}
          BY <2>1, <4>1
        <4> QED  BY <4>2
      <3>5. PICK p : Places(s) = {p}
        BY <3>1, <3>2, <3>3, <3>4 DEF Held
      <3> QED  BY <2>4, <3>5, FS_Singleton
    <2> QED  BY <2>3, <2>4
  <1>2. IInv => ExactlyOnePlace
    BY <1>1 DEF ExactlyOnePlace
  <1> QED  BY <1>2, InductiveInvariant, PTL

\* No worker stops by itself before every sub-task has been handed out, unless
\* the queue's lock is lost (_run_parallel puts the Nones last, 374-384).
THEOREM AlwaysNoneAfterWork == Spec => []NoneAfterWork
  <1>1. IInv => NoneAfterWork
    BY DEF IInv, WorkerInv
  <1> QED  BY <1>1, InductiveInvariant, PTL

\* There is always an item left for a worker that waits for one, so only a lost
\* lock makes the 30 s timeout of task_queue.get end a worker.
THEOREM AlwaysNeverStarved == Spec => []NeverStarved
  <1>1. ASSUME IInv, NEW w \in Workers, wstate[w] = "idle" PROVE taken < QueueLength
    <2>1. Stopped \subseteq Workers \ {w}
      BY <1>1 DEF Stopped
    <2>2. /\ IsFiniteSet(Workers \ {w})
          /\ Cardinality(Workers \ {w}) = Cardinality(Workers) - 1
      BY WorkersAssumption, FS_RemoveElement
    <2>3. Cardinality(Stopped) <= Cardinality(Workers) - 1
      BY <2>1, <2>2, FS_Subset
    <2>4. taken <= size + Cardinality(Stopped) /\ size \in Nat /\ taken \in Nat
      BY <1>1, HeldAreSubtasks DEF IInv, WorkerInv, NonesCounted
    <2> QED  BY <2>3, <2>4, StoppedFinite DEF QueueLength
  <1>2. IInv => NeverStarved
    BY <1>1 DEF NeverStarved
  <1> QED  BY <1>2, InductiveInvariant, PTL

\* Counting results is enough: as many results as sub-tasks are the results of
\* all sub-tasks, because no two of them have the same id.
LEMMA CountedIsComplete ==
    ASSUME IInv, collected = size PROVE Results = Subtask
  <1> DEFINE f == [i \in Subtask |-> channel[i].id]
  <1>1. size \in Nat /\ Subtask = 1 .. collected
    BY HeldAreSubtasks DEF IInv, Subtask
  <1>2. \A i \in Subtask : i \in DOMAIN channel
    BY <1>1, HeldAreSubtasks DEF IInv, TypeOK
  <1>3. f \in [Subtask -> Subtask]
    BY <1>2, HeldAreSubtasks DEF IInv
  <1>4. \A i, j \in Subtask : f[i] = f[j] => i = j
    BY <1>2 DEF IInv, WorkerInv, HeldOnce
  <1>5. f \in Injection(Subtask, Subtask)
    BY <1>3, <1>4 DEF Injection, IsInjective
  <1>6. IsFiniteSet(Subtask)
    BY <1>1, FS_Interval DEF Subtask
  <1>7. f \in Surjection(Subtask, Subtask)
    BY <1>5, <1>6, FS_Injection
  <1>8. \A s \in Subtask : \E i \in Subtask : f[i] = s
    BY <1>7 DEF Surjection
  <1>9. Results = {f[i] : i \in Subtask}
    BY <1>1 DEF Results
  <1> QED  BY <1>3, <1>8, <1>9

\* When run() returns without having given up on a timeout, the merged answer
\* draws on every sub-task (run, 327-345; _run_parallel, 397-404).
THEOREM AlwaysCompleteUnlessGaveUp == Spec => []CompleteUnlessGaveUp
  <1>1. ASSUME IInv, pc = "returned", ~gaveUp PROVE merged = Subtask
    <2>1. CASE strategy = "parallel"
      BY <1>1, <2>1, CountedIsComplete DEF IInv, EngineInv
    <2>2. CASE strategy = "sequential"
      BY <1>1, <2>2 DEF IInv, EngineInv
    <2> QED  BY <1>1, <2>1, <2>2 DEF IInv, TypeOK
  <1>2. IInv => CompleteUnlessGaveUp
    BY <1>1 DEF CompleteUnlessGaveUp
  <1> QED  BY <1>2, InductiveInvariant, PTL

\* run() never returns with a worker process of its own still running, and a
\* worker that ended by itself has delivered all it put (_run_parallel, 406-410).
THEOREM AlwaysNoOrphans == Spec => []NoOrphans
  <1>1. ASSUME IInv, pc = "returned", NEW w \in Workers
        PROVE  ~Alive(w) /\ (wstate[w] = "ended" => task[w] = 0 /\ outbox[w] = {})
    <2>1. ~Alive(w)
      BY <1>1 DEF IInv, TypeOK, EngineInv, Asleep, Alive
    <2> QED  BY <1>1, <2>1 DEF IInv, WorkerInv, WorkerBooks
  <1>2. IInv => NoOrphans
    BY <1>1 DEF NoOrphans
  <1> QED  BY <1>2, InductiveInvariant, PTL


\* No sub-task is lost, doubled or starved and no worker is left behind, for any
\* number of sub-tasks and any finite set of workers.
THEOREM AlwaysWorkIsKept == Spec => []WorkIsKept
  <1>1. TypeOK /\ ExactlyOnePlace /\ NoneAfterWork /\ NeverStarved /\ NoOrphans => WorkIsKept
    BY DEF WorkIsKept
  <1> QED
    BY <1>1, TypeCorrect, AlwaysExactlyOnePlace, AlwaysNoneAfterWork, AlwaysNeverStarved,
       AlwaysNoOrphans, PTL
=============================================================================
