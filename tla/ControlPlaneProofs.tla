------------------------- MODULE ControlPlaneProofs -------------------------
(***************************************************************************)
(* Proofs about ControlPlane, for any finite set of nodes, any ranks, any  *)
(* timeout and any length of time.                                         *)
(*                                                                         *)
(* The verdicts need that no heartbeat and no check lies in the      *)
(* future; the leader and the target of a task need that max() and min()   *)
(* find a node at all, which rests on the places being distinct.           *)
(***************************************************************************)
EXTENDS ControlPlane, FiniteSetTheorems, WellFoundedInduction, TLAPS

-----------------------------------------------------------------------------
(***************************************************************************)
(* max() and min() over the nodes                                          *)
(***************************************************************************)

\* A set of natural numbers has a least element.
LEMMA LeastNumber ==
    ASSUME NEW T \in SUBSET Nat, T # {}
    PROVE  \E x \in T : \A y \in T : x <= y
  <1>1. \E x \in T : \A y \in T : ~ (<<y, x>> \in OpToRel(<, Nat))
    BY NatLessThanWellFounded, WFMin
  <1>2. PICK x \in T : \A y \in T : ~ (<<y, x>> \in OpToRel(<, Nat))
    BY <1>1
  <1>3. \A y \in T : ~ (y < x)
    BY <1>2 DEF OpToRel
  <1> QED
    BY <1>3

\* One node comes first when they are ordered by f and then by g.
LEMMA FirstByTwoKeys ==
    ASSUME NEW S, S # {},
           NEW f \in [S -> Nat], NEW g \in [S -> Nat],
           \A x, y \in S : g[x] = g[y] => x = y
    PROVE  \E n \in S : \A m \in S \ {n} : f[n] < f[m] \/ (f[n] = f[m] /\ g[n] < g[m])
  <1>1. PICK a \in {f[x] : x \in S} : \A y \in {f[x] : x \in S} : a <= y
    <2>1. {f[x] : x \in S} \in SUBSET Nat /\ {f[x] : x \in S} # {}
      OBVIOUS
    <2> QED
      BY <2>1, LeastNumber
  <1> DEFINE U == {x \in S : f[x] = a}
  <1>2. PICK b \in {g[x] : x \in U} : \A y \in {g[x] : x \in U} : b <= y
    <2>1. {g[x] : x \in U} \in SUBSET Nat /\ {g[x] : x \in U} # {}
      BY <1>1
    <2> QED
      BY <2>1, LeastNumber
  <1>3. PICK n \in U : g[n] = b
    BY <1>2
  <1>4. ASSUME NEW m \in S \ {n} PROVE f[n] < f[m] \/ (f[n] = f[m] /\ g[n] < g[m])
    <2>1. f[n] <= f[m] /\ f[n] = a /\ f[m] \in Nat /\ f[n] \in Nat
      BY <1>1
    <2>2. CASE f[m] = a
      <3>1. g[n] <= g[m]
        BY <1>2, <1>3, <2>2
      <3>2. g[n] # g[m] /\ g[n] \in Nat /\ g[m] \in Nat
        OBVIOUS
      <3> QED
        BY <2>1, <2>2, <3>1, <3>2
    <2> QED
      BY <2>1, <2>2
  <1> QED
    BY <1>4

-----------------------------------------------------------------------------
(***************************************************************************)
(* The invariant                                                           *)
(***************************************************************************)

NothingAhead ==
    /\ checkedAt <= now
    /\ \A n \in Nodes : lastHeartbeat[n] <= now

PlacesDistinct ==
    /\ \A n, m \in Registered : place[n] = place[m] => n = m
    /\ \A n \in Nodes : place[n] <= Cardinality(Registered)

NumbersBelow ==
    \A n \in Nodes : \A i \in DOMAIN tasks[n] :
        tasks[n][i] \notin JobIds => tasks[n][i] \in Nat /\ tasks[n][i] < cnt

IInv ==
    /\ TypeOK
    /\ NothingAhead
    /\ PlacesDistinct
    /\ StatusIsLastVerdict
    /\ LeaderIsActive
    /\ NumbersBelow
    /\ NumberedOnce

LEMMA RegisteredFinite ==
    /\ IsFiniteSet(Registered)
    /\ Cardinality(Registered) \in Nat
  BY NodesAssumption, FS_Subset, FS_CardinalityType DEF Registered

LEMMA BestIsOneOfThem ==
    ASSUME TypeOK, PlacesDistinct, NEW S \in SUBSET Registered, S # {}
    PROVE  Best(S) \in S
  <1> DEFINE f == [n \in S |-> MaxRank - Merit(n)]
             g == [n \in S |-> place[n]]
  <1>1. ASSUME NEW n \in S
        PROVE  /\ Merit(n) \in Int /\ MaxRank - Merit(n) \in Nat
               /\ place[n] \in Nat
    <2>1. n \in Nodes
      BY DEF Registered
    <2>2. Rank[n] \in 0 .. MaxRank /\ load[n] \in Nat /\ place[n] \in Nat
      BY <2>1, RankAssumption DEF TypeOK
    <2> QED
      BY <2>2, RankAssumption DEF Merit
  <1>2. f \in [S -> Nat] /\ g \in [S -> Nat]
    BY <1>1
  <1>3. \A x, y \in S : g[x] = g[y] => x = y
    BY DEF PlacesDistinct
  <1> HIDE DEF f, g
  <1>4. PICK n \in S : \A m \in S \ {n} : f[n] < f[m] \/ (f[n] = f[m] /\ g[n] < g[m])
    BY <1>2, <1>3, FirstByTwoKeys
  <1>5. \A m \in S \ {n} :
          Merit(m) < Merit(n) \/ (Merit(m) = Merit(n) /\ place[n] < place[m])
    BY <1>1, <1>4, RankAssumption DEF f, g
  <1> QED
    BY <1>5 DEF Best

LEMMA LeastLoadedIsOneOfThem ==
    ASSUME TypeOK, PlacesDistinct, NEW S \in SUBSET Registered, S # {}
    PROVE  LeastLoaded(S) \in S
  <1> DEFINE f == [n \in S |-> load[n]]
             g == [n \in S |-> place[n]]
  <1>1. f \in [S -> Nat] /\ g \in [S -> Nat]
    BY DEF TypeOK, Registered
  <1>2. \A x, y \in S : g[x] = g[y] => x = y
    BY DEF PlacesDistinct
  <1> HIDE DEF f, g
  <1>3. PICK n \in S : \A m \in S \ {n} : f[n] < f[m] \/ (f[n] = f[m] /\ g[n] < g[m])
    BY <1>1, <1>2, FirstByTwoKeys
  <1>4. \A m \in S \ {n} : load[n] < load[m] \/ (load[n] = load[m] /\ place[n] < place[m])
    BY <1>3 DEF f, g
  <1> QED
    BY <1>4 DEF LeastLoaded

\* Whoever is elected is one of the active nodes, and None means there is none.
LEMMA ElectedIsActive ==
    ASSUME TypeOK, PlacesDistinct, NEW st
    PROVE  Elected(st) = NoNode \/ Elected(st) \in Active(st)
  <1>1. Active(st) \in SUBSET Registered
    BY DEF Active
  <1> QED
    BY <1>1, BestIsOneOfThem DEF Elected

LEMMA InitIInv == Init => IInv
  <1> SUFFICES ASSUME Init PROVE IInv
    OBVIOUS
  <1>0. unelected \in BOOLEAN /\ checkedAt \in Nat
    <2>1. unelected \in BOOLEAN
      BY Zenon DEF Init
    <2> QED
      BY <2>1 DEF Init
  <1>1. TypeOK
    <2>1. tasks \in [Nodes -> Seq(TaskIds)]
      BY DEF Init
    <2>2. status \in [Nodes -> {"ACTIVE", "DEAD"}] /\ leader \in Nodes \cup {NoNode}
      BY DEF Init
    <2> QED
      BY <1>0, <2>1, <2>2 DEF Init, TypeOK
  <1>2. Registered = {}
    BY DEF Init, Registered
  <1>3. NothingAhead /\ PlacesDistinct
    BY <1>2, FS_EmptySet DEF Init, NothingAhead, PlacesDistinct
  <1>4. StatusIsLastVerdict /\ LeaderIsActive /\ NumbersBelow /\ NumberedOnce
    BY <1>2 DEF Init, StatusIsLastVerdict, LeaderIsActive, NumbersBelow, NumberedOnce
  <1> QED
    BY <1>1, <1>3, <1>4 DEF IInv

LEMMA RegisterNodeStep ==
    ASSUME IInv, NEW n \in Nodes, RegisterNode(n)
    PROVE  IInv'
  <1> USE DEF IInv
  <1>1. TypeOK'
    <2>1. Cardinality(Registered) \in Nat
      BY RegisteredFinite
    <2> QED
      BY <2>1 DEF TypeOK, RegisterNode
  <1>2. NothingAhead'
    BY DEF TypeOK, NothingAhead, RegisterNode
  <1>3. Registered' = Registered \cup {n}
    <2>1. Cardinality(Registered) \in Nat
      BY RegisteredFinite
    <2>2. \A m \in Nodes : place'[m] = IF m = n /\ place[n] = 0
                                         THEN Cardinality(Registered) + 1 ELSE place[m]
      BY DEF TypeOK, RegisterNode
    <2>3. \A m \in Nodes : place'[m] > 0 <=> m = n \/ place[m] > 0
      BY <2>1, <2>2 DEF TypeOK
    <2> QED
      BY <2>3 DEF Registered
  <1>4. PlacesDistinct'
    <2>1. CASE n \in Registered
      <3>1. Registered' = Registered /\ place' = place
        BY <1>3, <2>1 DEF Registered, RegisterNode, TypeOK
      <3> QED
        BY <3>1 DEF PlacesDistinct
    <2>2. CASE n \notin Registered
      <3>1. place[n] = 0
        BY <2>2 DEF Registered, TypeOK
      <3>2. /\ Cardinality(Registered') = Cardinality(Registered) + 1
            /\ Cardinality(Registered) \in Nat
        BY <1>3, <2>2, RegisteredFinite, FS_AddElement
      <3>3. \A m \in Nodes : place'[m] = IF m = n THEN Cardinality(Registered) + 1
                                                   ELSE place[m]
        BY <3>1 DEF RegisterNode, TypeOK
      <3>4. \A m \in Nodes : place[m] \in Nat /\ place[m] <= Cardinality(Registered)
        BY DEF PlacesDistinct, TypeOK
      <3>5. \A m \in Nodes : place'[m] <= Cardinality(Registered')
        BY <3>2, <3>3, <3>4
      <3>6. ASSUME NEW m \in Registered', NEW k \in Registered', place'[m] = place'[k]
            PROVE  m = k
        <4>1. m \in Nodes /\ k \in Nodes /\ m \in Registered \cup {n} /\ k \in Registered \cup {n}
          BY <1>3 DEF Registered
        <4> QED
          BY <3>2, <3>3, <3>4, <3>6, <4>1 DEF PlacesDistinct
      <3> QED
        BY <3>5, <3>6 DEF PlacesDistinct
    <2> QED
      BY <2>1, <2>2
  <1>5. StatusIsLastVerdict'
    BY <1>3, TimeoutAssumption
       DEF TypeOK, NothingAhead, StatusIsLastVerdict, RegisterNode
  <1>6. LeaderIsActive'
    BY <1>3 DEF TypeOK, LeaderIsActive, Active, RegisterNode, Registered
  <1>7. NumbersBelow' /\ NumberedOnce'
    BY DEF TypeOK, NumbersBelow, NumberedOnce, RegisterNode
  <1> QED
    BY <1>1, <1>2, <1>4, <1>5, <1>6, <1>7

LEMMA HeartbeatStep ==
    ASSUME IInv, NEW n \in Nodes, Heartbeat(n)
    PROVE  IInv'
  <1> USE DEF IInv
  <1>1. TypeOK' /\ NothingAhead'
    BY DEF TypeOK, NothingAhead, Heartbeat
  <1>2. Registered' = Registered
    BY DEF Registered, Heartbeat
  <1>3. PlacesDistinct'
    BY <1>2 DEF PlacesDistinct, Heartbeat
  <1>4. StatusIsLastVerdict'
    BY <1>2, TimeoutAssumption
       DEF TypeOK, NothingAhead, StatusIsLastVerdict, Heartbeat
  <1>5. LeaderIsActive'
    BY <1>2 DEF TypeOK, LeaderIsActive, Active, Heartbeat, Registered
  <1>6. NumbersBelow' /\ NumberedOnce'
    BY DEF NumbersBelow, NumberedOnce, Heartbeat
  <1> QED
    BY <1>1, <1>3, <1>4, <1>5, <1>6

LEMMA ElectLeaderStep ==
    ASSUME IInv, ElectLeader
    PROVE  IInv'
  <1> USE DEF IInv
  <1>1. Registered' = Registered
    BY DEF Registered, ElectLeader
  <1>2. leader' = NoNode \/ leader' \in Active(status)
    BY ElectedIsActive DEF ElectLeader
  <1>3. TypeOK'
    BY <1>2 DEF TypeOK, ElectLeader, Active, Registered
  <1>4. LeaderIsActive'
    BY <1>1, <1>2 DEF LeaderIsActive, Active, ElectLeader
  <1>5. NothingAhead' /\ PlacesDistinct' /\ StatusIsLastVerdict'
    BY <1>1 DEF NothingAhead, PlacesDistinct, StatusIsLastVerdict, ElectLeader
  <1>6. NumbersBelow' /\ NumberedOnce'
    BY DEF NumbersBelow, NumberedOnce, ElectLeader
  <1> QED
    BY <1>3, <1>4, <1>5, <1>6

\* A task that is new, or named, keeps the numbered ones apart.
LEMMA AssignTaskStep ==
    ASSUME IInv, NEW tid \in JobIds \cup {cnt}, AssignTask(tid)
    PROVE  IInv'
  <1> USE DEF IInv
  <1>1. PICK target \in Active(status) :
          /\ tasks' = [tasks EXCEPT ![target] = Append(@, tid)]
          /\ load' = [load EXCEPT ![target] = @ + 1]
    <2>1. Active(status) \in SUBSET Registered
      BY DEF Active
    <2> QED
      BY <2>1, LeastLoadedIsOneOfThem DEF AssignTask
  <1>2. /\ target \in Nodes /\ cnt \in Nat /\ cnt' = cnt + 1
        /\ tid \in TaskIds /\ (tid \notin JobIds => tid = cnt)
    BY DEF TypeOK, AssignTask, Active, Registered, TaskIds
  <1>3. TypeOK'
    <2>1. tasks[target] \in Seq(TaskIds) /\ load[target] + 1 \in Nat
      BY <1>2 DEF TypeOK
    <2>2. Append(tasks[target], tid) \in Seq(TaskIds)
      BY <1>2, <2>1
    <2>3. tasks' \in [Nodes -> Seq(TaskIds)]
      BY <1>1, <2>2 DEF TypeOK
    <2>4. load' \in [Nodes -> Nat]
      BY <1>1, <2>1 DEF TypeOK
    <2> QED
      BY <1>2, <2>3, <2>4 DEF TypeOK, AssignTask
  <1>4. Registered' = Registered
    BY DEF Registered, AssignTask
  <1>5. /\ NothingAhead' /\ PlacesDistinct' /\ StatusIsLastVerdict'
        /\ LeaderIsActive'
    BY <1>4 DEF NothingAhead, PlacesDistinct, StatusIsLastVerdict, LeaderIsActive,
                Active, AssignTask
  <1>6. ASSUME NEW n \in Nodes, NEW i \in DOMAIN tasks'[n]
        PROVE  \/ i \in DOMAIN tasks[n] /\ tasks'[n][i] = tasks[n][i]
               \/ n = target /\ i = Len(tasks[n]) + 1 /\ tasks'[n][i] = tid
    <2>1. tasks[n] \in Seq(TaskIds) /\ Len(tasks[n]) \in Nat
      BY DEF TypeOK
    <2>2. tasks'[n] = IF n = target THEN Append(tasks[n], tid) ELSE tasks[n]
      BY <1>1 DEF TypeOK
    <2>3. CASE n = target
      <3>1. DOMAIN tasks'[n] = 1 .. Len(tasks[n]) + 1 /\ DOMAIN tasks[n] = 1 .. Len(tasks[n])
        BY <2>1, <2>2, <2>3
      <3> QED
        BY <1>6, <2>1, <2>2, <2>3, <3>1
    <2>4. CASE n # target
      BY <1>6, <2>2, <2>4
    <2> QED
      BY <2>3, <2>4
  <1>7. NumbersBelow'
    <2> SUFFICES ASSUME NEW n \in Nodes, NEW i \in DOMAIN tasks'[n], tasks'[n][i] \notin JobIds
                 PROVE  tasks'[n][i] \in Nat /\ tasks'[n][i] < cnt'
      BY DEF NumbersBelow
    <2>1. \/ tasks'[n][i] \in Nat /\ tasks'[n][i] < cnt
          \/ tasks'[n][i] = cnt
      BY <1>2, <1>6 DEF NumbersBelow
    <2> QED
      BY <1>2, <2>1
  <1>8. NumberedOnce'
    <2> SUFFICES ASSUME NEW n \in Nodes, NEW m \in Nodes,
                        NEW i \in DOMAIN tasks'[n], NEW j \in DOMAIN tasks'[m],
                        tasks'[n][i] \notin JobIds, tasks'[n][i] = tasks'[m][j]
                 PROVE  n = m /\ i = j
      BY DEF NumberedOnce
    <2>1. CASE i \in DOMAIN tasks[n] /\ tasks'[n][i] = tasks[n][i]
      <3>1. tasks[n][i] \in Nat /\ tasks[n][i] < cnt
        BY <2>1 DEF NumbersBelow
      <3>2. j \in DOMAIN tasks[m] /\ tasks'[m][j] = tasks[m][j]
        <4>1. tasks'[m][j] \in Nat /\ tasks'[m][j] < cnt /\ tasks'[m][j] \notin JobIds
          BY <2>1, <3>1
        <4>2. tasks'[m][j] # tid
          BY <1>2, <4>1
        <4> QED
          BY <1>6, <4>2
      <3>3. tasks[n][i] \notin JobIds /\ tasks[n][i] = tasks[m][j]
        BY <2>1, <3>2
      <3> QED
        BY <2>1, <3>2, <3>3 DEF NumberedOnce
    <2>2. CASE n = target /\ i = Len(tasks[n]) + 1 /\ tasks'[n][i] = tid
      <3>1. tasks'[m][j] = cnt /\ tasks'[m][j] \notin JobIds
        BY <1>2, <2>2
      <3>2. ~ (j \in DOMAIN tasks[m] /\ tasks'[m][j] = tasks[m][j])
        BY <1>2, <3>1 DEF NumbersBelow
      <3>3. m = target /\ j = Len(tasks[m]) + 1
        BY <1>6, <3>2
      <3> QED
        BY <2>2, <3>3
    <2> QED
      BY <1>6, <2>1, <2>2
  <1> QED
    BY <1>3, <1>5, <1>7, <1>8

\* What detect_failures() leaves is the verdict of this moment.
LEMMA JudgedNow ==
    ASSUME IInv, status' = Judged, checkedAt' = now,
           UNCHANGED <<now, place, lastHeartbeat>>
    PROVE  /\ status' \in [Nodes -> {"ACTIVE", "DEAD"}]
           /\ Registered' = Registered
           /\ NothingAhead' /\ PlacesDistinct' /\ StatusIsLastVerdict'
  <1> USE DEF IInv
  <1>1. Registered' = Registered
    BY DEF Registered
  <1>2. status' \in [Nodes -> {"ACTIVE", "DEAD"}]
    BY DEF TypeOK, Judged
  <1>3. NothingAhead' /\ PlacesDistinct'
    BY <1>1 DEF TypeOK, NothingAhead, PlacesDistinct
  <1>4. StatusIsLastVerdict'
    <2> SUFFICES ASSUME NEW n \in Registered
                 PROVE  status'[n] = "DEAD"
                           <=> now - lastHeartbeat[n] > HeartbeatTimeout
      BY <1>1 DEF StatusIsLastVerdict
    <2>1. n \in Nodes /\ (status[n] = "DEAD" => checkedAt - lastHeartbeat[n] > HeartbeatTimeout)
      BY DEF StatusIsLastVerdict, Registered
    <2> QED
      BY <2>1, TimeoutAssumption DEF TypeOK, NothingAhead, Judged, Registered
  <1> QED
    BY <1>1, <1>2, <1>3, <1>4

LEMMA DetectFailuresStep ==
    ASSUME IInv, DetectFailures
    PROVE  IInv'
  <1>1. /\ status' \in [Nodes -> {"ACTIVE", "DEAD"}]
        /\ Registered' = Registered
        /\ NothingAhead' /\ PlacesDistinct' /\ StatusIsLastVerdict'
    BY JudgedNow DEF DetectFailures
  <1>2. TypeOK'
    BY <1>1 DEF IInv, TypeOK, DetectFailures
  <1>3. LeaderIsActive' /\ NumbersBelow' /\ NumberedOnce'
    BY <1>1 DEF IInv, LeaderIsActive, NumbersBelow, NumberedOnce, DetectFailures
  <1> QED
    BY <1>1, <1>2, <1>3 DEF IInv

LEMMA ReconcileStep ==
    ASSUME IInv, Reconcile
    PROVE  IInv'
  <1>1. /\ status' \in [Nodes -> {"ACTIVE", "DEAD"}]
        /\ Registered' = Registered
        /\ NothingAhead' /\ PlacesDistinct' /\ StatusIsLastVerdict'
    BY JudgedNow DEF Reconcile
  <1>2. leader' = NoNode \/ leader' \in Active(status')
    BY ElectedIsActive DEF Reconcile, IInv
  <1>3. TypeOK'
    BY <1>1, <1>2 DEF IInv, TypeOK, Reconcile, Active, Registered
  <1>4. LeaderIsActive'
    BY <1>1, <1>2 DEF LeaderIsActive, Active
  <1>5. NumbersBelow' /\ NumberedOnce'
    BY DEF IInv, NumbersBelow, NumberedOnce, Reconcile
  <1> QED
    BY <1>1, <1>3, <1>4, <1>5 DEF IInv

LEMMA TickStep ==
    ASSUME IInv, Tick
    PROVE  IInv'
  <1> USE DEF IInv
  <1>1. Registered' = Registered
    BY DEF Registered, Tick
  <1>2. TypeOK' /\ NothingAhead'
    BY DEF TypeOK, NothingAhead, Tick
  <1>3. /\ PlacesDistinct' /\ StatusIsLastVerdict' /\ LeaderIsActive'
        /\ NumbersBelow' /\ NumberedOnce'
    BY <1>1 DEF PlacesDistinct, StatusIsLastVerdict, LeaderIsActive, Active,
                NumbersBelow, NumberedOnce, Tick
  <1> QED
    BY <1>2, <1>3

LEMMA NextIInv ==
    ASSUME IInv, [Next]_vars
    PROVE  IInv'
  <1>1. CASE \E n \in Nodes : RegisterNode(n) \/ Heartbeat(n)
    BY <1>1, RegisterNodeStep, HeartbeatStep
  <1>2. CASE ElectLeader
    BY <1>2, ElectLeaderStep
  <1>3. CASE AssignNumbered
    BY <1>3, AssignTaskStep DEF AssignNumbered
  <1>4. CASE AssignNamed
    BY <1>4, AssignTaskStep DEF AssignNamed
  <1>5. CASE Reconcile
    BY <1>5, ReconcileStep
  <1>6. CASE Tick
    BY <1>6, TickStep
  <1>8. CASE DetectFailures
    BY <1>8, DetectFailuresStep
  <1>7. CASE UNCHANGED vars
    BY <1>7 DEF vars, IInv, TypeOK, NothingAhead, PlacesDistinct, Registered,
                StatusIsLastVerdict, LeaderIsActive, Active, NumbersBelow, NumberedOnce
  <1> QED
    BY <1>1, <1>2, <1>3, <1>4, <1>5, <1>6, <1>7, <1>8 DEF Next

-----------------------------------------------------------------------------
(***************************************************************************)
(* The theorems                                                            *)
(***************************************************************************)

LEMMA Invariance == Spec => []IInv
  <1>1. Init => IInv
    BY InitIInv
  <1>2. IInv /\ [Next]_vars => IInv'
    BY NextIInv
  <1> QED
    BY <1>1, <1>2, PTL DEF Spec

\* The values of the state stay in their ranges (all methods of the class).
THEOREM TypeCorrect == Spec => []TypeOK
  <1>1. IInv => TypeOK
    BY DEF IInv
  <1> QED
    BY <1>1, Invariance, PTL

\* A node is DEAD exactly when the last detect_failures(), alone or within
\* reconcile(), found it silent and it has been silent since (detect_failures,
\* heartbeat, register_node).
THEOREM Verdicts == Spec => []StatusIsLastVerdict
  <1>1. IInv => StatusIsLastVerdict
    BY DEF IInv
  <1> QED
    BY <1>1, Invariance, PTL

\* leader_id names a node that is marked DEAD only between a detect_failures()
\* called by itself and the next election (reconcile, elect_leader).
THEOREM LeaderActive == Spec => []LeaderIsActive
  <1>1. IInv => LeaderIsActive
    BY DEF IInv
  <1> QED
    BY <1>1, Invariance, PTL

\* A numbered task is in one place, unless callers give its id too (assign_task).
THEOREM Numbers == Spec => []NumberedOnce
  <1>1. IInv => NumberedOnce
    BY DEF IInv
  <1> QED
    BY <1>1, Invariance, PTL

\* A task goes to no node that the last detect_failures() knew to be silent
\* (assign_task's choice among the ACTIVE nodes).
THEOREM Reachable == Spec => NoTaskForTheSilent
  <1> DEFINE Kept == \A n \in Nodes :
                Len(tasks'[n]) > Len(tasks[n])
                    => checkedAt - lastHeartbeat[n] <= HeartbeatTimeout
  <1>1. ASSUME IInv, [Next]_vars PROVE [Kept]_vars
    <2>1. ASSUME NEW tid, AssignTask(tid) PROVE Kept
      <3>1. Active(status) \in SUBSET Registered /\ Active(status) # {}
        BY <2>1 DEF Active, AssignTask
      <3>2. LeastLoaded(Active(status)) \in Active(status)
        BY <1>1, <3>1, LeastLoadedIsOneOfThem DEF IInv
      <3>3. \A n \in Nodes : n # LeastLoaded(Active(status)) => tasks'[n] = tasks[n]
        BY <1>1, <2>1 DEF IInv, TypeOK, AssignTask
      <3>4. \A n \in Active(status) :
               checkedAt - lastHeartbeat[n] <= HeartbeatTimeout
        BY <1>1, TimeoutAssumption
           DEF IInv, TypeOK, StatusIsLastVerdict, Active, Registered
      <3>5. \A n \in Nodes : Len(tasks[n]) \in Nat
        BY <1>1 DEF IInv, TypeOK
      <3> QED
        BY <3>2, <3>3, <3>4, <3>5
    <2>2. ASSUME NEW n \in Nodes, RegisterNode(n) PROVE Kept
      <3>1. \A m \in Nodes : tasks'[m] = tasks[m] \/ tasks'[m] = <<>>
        BY <1>1, <2>2 DEF IInv, TypeOK, RegisterNode
      <3>2. \A m \in Nodes : Len(tasks[m]) \in Nat
        BY <1>1 DEF IInv, TypeOK
      <3> QED
        BY <3>1, <3>2
    <2>3. ASSUME UNCHANGED tasks PROVE Kept
      <3>1. \A m \in Nodes : Len(tasks[m]) \in Nat
        BY <1>1 DEF IInv, TypeOK
      <3> QED
        BY <2>3, <3>1
    <2> QED
      BY <1>1, <2>1, <2>2, <2>3
         DEF Next, Heartbeat, ElectLeader, AssignNumbered, AssignNamed, DetectFailures,
             Reconcile, Tick
  <1> QED
    BY <1>1, Invariance, PTL DEF Spec, NoTaskForTheSilent

\* The registry stays true to its nodes, for any finite set of nodes.
THEOREM RegistryAlwaysHolds == Spec => []RegistryHolds
  <1>1. TypeOK /\ StatusIsLastVerdict /\ LeaderIsActive /\ NumberedOnce => RegistryHolds
    BY DEF RegistryHolds
  <1> QED
    BY <1>1, TypeCorrect, Verdicts, LeaderActive, Numbers, PTL
=============================================================================
