---------------------------- MODULE ControlPlane ----------------------------
(***************************************************************************)
(* DistributedControlPlane (runtime/dcp_control_plane.py): a registry of   *)
(* nodes with heartbeats, a leader and tasks handed to the least loaded    *)
(* node.  Each method runs to its end before the next one starts; who      *)
(* calls which is up to the nodes and the caller, so any order is possible *)
(* and a node may fall silent at any time.  Time is a counter of ticks.    *)
(*                                                                         *)
(* The nodes dict keeps the order of first registration, which decides     *)
(* between equals in max() and min(): place holds it, 0 for a node that is *)
(* not registered.  Load is counted in tenths; the rounding error of       *)
(* repeated additions of 0.1 is left out.                                  *)
(***************************************************************************)
EXTENDS Integers, Sequences, FiniteSets

CONSTANTS
    Nodes,
    NoNode,             \* None
    Rank,               \* the first 32 bits of the md5 of a node's id
    MaxRank,            \* 16^8 - 1 in the code
    HeartbeatTimeout,
    JobIds,             \* ids a caller may give a task, numbers among them or not
    MaxNow,             \* bound on the clock
    MaxTasks            \* bound on the tasks assigned

ASSUME NodesAssumption == IsFiniteSet(Nodes) /\ NoNode \notin Nodes
ASSUME RankAssumption == MaxRank \in Nat /\ Rank \in [Nodes -> 0 .. MaxRank]
ASSUME TimeoutAssumption == HeartbeatTimeout \in Nat
ASSUME BoundsAssumption == MaxNow \in Nat /\ MaxTasks \in Nat

VARIABLES
    now,
    place,              \* the position of a node in the dict, 0: not registered
    lastHeartbeat,
    status,
    load,
    tasks,
    leader,             \* leader_id
    cnt,                \* _cnt
    checkedAt,          \* history: when detect_failures() ran last
    unelected           \* history: detect_failures() ran by itself since the last election

vars == <<now, place, lastHeartbeat, status, load, tasks, leader, cnt, checkedAt,
          unelected>>

\* A number stands for the id "task-" with it, whoever made it up.
TaskIds == JobIds \cup Nat

Registered == {n \in Nodes : place[n] > 0}

\* Mutant of Active: a node counts as long as it is registered.
ActiveAny(st) == Registered

Active(st) == {n \in Registered : st[n] = "ACTIVE"}

\* The key of elect_leader: the hash of the id less a hundred times the load.
Merit(n) == Rank[n] - 10 * load[n]

\* max(active, key=...): the first registered among the best.
Best(S) ==
    CHOOSE n \in S : \A m \in S \ {n} :
        \/ Merit(m) < Merit(n)
        \/ Merit(m) = Merit(n) /\ place[n] < place[m]

\* min(active, key=load): the first registered among the least loaded.
LeastLoaded(S) ==
    CHOOSE n \in S : \A m \in S \ {n} :
        \/ load[n] < load[m]
        \/ load[n] = load[m] /\ place[n] < place[m]

\* A node silent for longer than the timeout is DEAD; nobody else changes.
Judged ==
    [n \in Nodes |->
        IF n \in Registered /\ now - lastHeartbeat[n] > HeartbeatTimeout
        THEN "DEAD" ELSE status[n]]

Elected(st) == IF Active(st) = {} THEN NoNode ELSE Best(Active(st))

-----------------------------------------------------------------------------

Init ==
    /\ now = 0
    /\ place = [n \in Nodes |-> 0]
    /\ lastHeartbeat = [n \in Nodes |-> 0]
    /\ status = [n \in Nodes |-> "ACTIVE"]
    /\ load = [n \in Nodes |-> 0]
    /\ tasks = [n \in Nodes |-> <<>>]
    /\ leader = NoNode
    /\ cnt = 0
    /\ checkedAt = 0
    /\ unelected = FALSE

\* register_node: a fresh Node object, also for an id that is already there.
RegisterNode(n) ==
    /\ place' = [place EXCEPT ![n] = IF @ = 0 THEN Cardinality(Registered) + 1 ELSE @]
    /\ lastHeartbeat' = [lastHeartbeat EXCEPT ![n] = now]
    /\ status' = [status EXCEPT ![n] = "ACTIVE"]
    /\ load' = [load EXCEPT ![n] = 0]
    /\ tasks' = [tasks EXCEPT ![n] = <<>>]
    /\ UNCHANGED <<now, leader, cnt, checkedAt, unelected>>

\* heartbeat: an id nobody registered is ignored.
Heartbeat(n) ==
    /\ n \in Registered
    /\ lastHeartbeat' = [lastHeartbeat EXCEPT ![n] = now]
    /\ status' = [status EXCEPT ![n] = "ACTIVE"]
    /\ UNCHANGED <<now, place, load, tasks, leader, cnt, checkedAt, unelected>>

ElectLeader ==
    /\ leader' = Elected(status)
    /\ unelected' = FALSE
    /\ UNCHANGED <<now, place, lastHeartbeat, status, load, tasks, cnt, checkedAt>>

\* assign_task: to the least loaded of the nodes still marked ACTIVE; with
\* none it returns None and changes nothing.
AssignTask(tid) ==
    /\ cnt < MaxTasks
    /\ Active(status) # {}
    /\ LET target == LeastLoaded(Active(status)) IN
        /\ tasks' = [tasks EXCEPT ![target] = Append(@, tid)]
        /\ load' = [load EXCEPT ![target] = @ + 1]
    /\ cnt' = cnt + 1
    /\ UNCHANGED <<now, place, lastHeartbeat, status, leader, checkedAt, unelected>>

AssignNumbered == AssignTask(cnt)
AssignNamed == \E j \in JobIds : AssignTask(j)

\* detect_failures called by itself: nobody is elected, and leader_id stays.
DetectFailures ==
    /\ status' = Judged
    /\ checkedAt' = now /\ unelected' = TRUE
    /\ UNCHANGED <<now, place, lastHeartbeat, load, tasks, leader, cnt>>

\* Mutant of Reconcile: the leader is elected before the failures are looked for.
ReconcileElectsFirst ==
    /\ status' = Judged
    /\ leader' = Elected(status)
    /\ checkedAt' = now /\ unelected' = FALSE
    /\ UNCHANGED <<now, place, lastHeartbeat, load, tasks, cnt>>

\* reconcile: failures first, then the leader among those left.
Reconcile ==
    /\ status' = Judged
    /\ leader' = Elected(Judged)
    /\ checkedAt' = now /\ unelected' = FALSE
    /\ UNCHANGED <<now, place, lastHeartbeat, load, tasks, cnt>>

Tick ==
    /\ now < MaxNow
    /\ now' = now + 1
    /\ UNCHANGED <<place, lastHeartbeat, status, load, tasks, leader, cnt, checkedAt, unelected>>

Next ==
    \/ \E n \in Nodes : RegisterNode(n) \/ Heartbeat(n)
    \/ ElectLeader
    \/ AssignNumbered
    \/ AssignNamed
    \/ DetectFailures
    \/ Reconcile
    \/ Tick

Spec == Init /\ [][Next]_vars

-----------------------------------------------------------------------------

TypeOK ==
    /\ now \in Nat
    /\ place \in [Nodes -> Nat]
    /\ lastHeartbeat \in [Nodes -> Nat]
    /\ status \in [Nodes -> {"ACTIVE", "DEAD"}]
    /\ load \in [Nodes -> Nat]
    /\ tasks \in [Nodes -> Seq(TaskIds)]
    /\ leader \in Nodes \cup {NoNode}
    /\ cnt \in Nat
    /\ checkedAt \in Nat
    /\ unelected \in BOOLEAN

(***************************************************************************)
(* A node is DEAD exactly when the last detect_failures(), by itself or in *)
(* reconcile(), found it silent for longer than the timeout and it has     *)
(* been silent ever since: no node is given up too early, none is          *)
(* overlooked, and one that comes back is believed (detect_failures,       *)
(* heartbeat and register_node together).                                  *)
(***************************************************************************)
StatusIsLastVerdict ==
    \A n \in Registered :
        status[n] = "DEAD" <=> checkedAt - lastHeartbeat[n] > HeartbeatTimeout

(***************************************************************************)
(* leader_id names a node marked DEAD only while no election has followed  *)
(* a detect_failures() that was called by itself, although nodes may be    *)
(* registered anew or come back at any time in between; and whoever it     *)
(* names is registered.                                                    *)
(***************************************************************************)
LeaderIsActive ==
    leader # NoNode => leader \in Registered /\ (status[leader] = "ACTIVE" \/ unelected)

(***************************************************************************)
(* A numbered task is handed out once: at most one place on one node holds *)
(* it, to whichever nodes, dead or registered anew since, it went, unless  *)
(* it is one of the ids that callers give as well (assign_task's _cnt: the *)
(* demonstration gives such ids, dcp_control_plane.py:84).                 *)
(***************************************************************************)
NumberedOnce ==
    \A n, m \in Nodes : \A i \in DOMAIN tasks[n], j \in DOMAIN tasks[m] :
        tasks[n][i] \notin JobIds /\ tasks[n][i] = tasks[m][j] => n = m /\ i = j

(***************************************************************************)
(* No node gets a task that the last detect_failures() knew to be silent:  *)
(* the status assign_task trusts is stale by one check at most.            *)
(***************************************************************************)
NoTaskForTheSilent ==
    [][\A n \in Nodes :
        Len(tasks'[n]) > Len(tasks[n])
            => checkedAt - lastHeartbeat[n] <= HeartbeatTimeout]_vars

\* The registry stays true to its nodes through every order of registrations,
\* heartbeats, deaths, elections and assignments (reconcile, assign_task).
RegistryHolds == TypeOK /\ StatusIsLastVerdict /\ LeaderIsActive /\ NumberedOnce
=============================================================================
