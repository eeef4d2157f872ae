-------------------------- MODULE ConsensusProofs --------------------------
(***************************************************************************)
(* Proofs about Consensus, for any finite set of nodes, any number of      *)
(* terms and events, and any delay, loss, reordering and repetition of     *)
(* messages.                                                               *)
(*                                                                         *)
(* BaseInv says what a node's state and its log may be.  VoteInv, on which *)
(* the causes of a second leader rest, follows each vote from the voter    *)
(* that gave it to the winner that counted it.                             *)
(***************************************************************************)
EXTENDS Consensus, FiniteSetTheorems, SequenceTheorems, TLAPS

\* Whoever sent a heartbeat was elected in its term.
HeartbeatsWon ==
    \A h \in heartbeats : \E w \in winners : w.node = h.from /\ w.term = h.term

BaseInv ==
    /\ TypeOK
    /\ LogTermsOrdered
    /\ LeadersWon
    /\ HeartbeatsWon

Ballot(v, c, t) == [voter |-> v, candidate |-> c, term |-> t]

\* Nobody has voted in a term to come.
VotesPast == \A g \in grants : g.term <= term[g.voter]

\* A node remembers its vote of the present term until a heartbeat releases it.
VotesHeld ==
    \A g \in grants : g.term = term[g.voter] =>
        \/ votedFor[g.voter] = g.candidate
        \/ [node |-> g.voter, term |-> g.term] \in released

\* A node votes for one candidate in a term, or a heartbeat released it.
VotesOnce ==
    \A g, h \in grants : g.voter = h.voter /\ g.term = h.term =>
        g.candidate = h.candidate \/ [node |-> g.voter, term |-> g.term] \in released

\* What a node has counted was given to it, in its present term or earlier.
CountedGiven ==
    \A n \in Node : \A u \in votes[n] :
        \E g \in grants : g.voter = u /\ g.candidate = n /\ g.term <= term[n]

\* Whoever was elected had counted the votes of a majority.
WinnersCounted ==
    \A w \in winners :
        /\ Cardinality(w.by) >= Majority
        /\ \A u \in w.by :
             \E g \in grants : g.voter = u /\ g.candidate = w.node /\ g.term <= w.term

VoteInv ==
    /\ VotesPast
    /\ VotesHeld
    /\ VotesOnce
    /\ CountedGiven
    /\ WinnersCounted

-----------------------------------------------------------------------------
(***************************************************************************)
(* The logs                                                                *)
(***************************************************************************)

\* The places of a sequence, counted from 0.
LEMMA CountedFromZero ==
    ASSUME NEW s \in Seq(Nat)
    PROVE  {i - 1 : i \in DOMAIN s} = 0 .. Len(s) - 1
  <1>1. Len(s) \in Nat /\ DOMAIN s = 1 .. Len(s)
    OBVIOUS
  <1>2. ASSUME NEW x \in 0 .. Len(s) - 1 PROVE \E i \in DOMAIN s : x = i - 1
    <2>1. x + 1 \in DOMAIN s /\ x = (x + 1) - 1
      BY <1>1
    <2> QED  BY <2>1
  <1>3. ASSUME NEW i \in DOMAIN s PROVE i - 1 \in 0 .. Len(s) - 1
    BY <1>1
  <1> QED  BY <1>2, <1>3

\* Appending an event keeps the logs, their snapshots and, if the term is not
\* older than the log's, the order of the terms.
LEMMA LogStep ==
    ASSUME StoreTypeOK, NEW n \in Node, NEW t \in Nat, Log(n, t), UNCHANGED snapshots
    PROVE  /\ StoreTypeOK'
           /\ \A m \in Node : log'[m] = IF m = n THEN Append(log[n], t) ELSE log[m]
  <1>1. /\ log' \in [Node -> Seq(Nat)]
        /\ \A m \in Node : log'[m] = IF m = n THEN Append(log[n], t) ELSE log[m]
    BY DEF Log, StoreTypeOK
  <1>2. ASSUME NEW m \in Node PROVE Indexes(m) \subseteq Indexes(m)'
    <2>1. Indexes(m) = 0 .. Len(log[m]) - 1
      BY CountedFromZero DEF StoreTypeOK, Indexes
    <2>2. Indexes(m)' = 0 .. Len(log'[m]) - 1
      BY <1>1, CountedFromZero DEF Indexes
    <2>3. Len(log[m]) \in Nat /\ Len(log'[m]) \in Nat /\ Len(log[m]) <= Len(log'[m])
      BY <1>1 DEF StoreTypeOK
    <2> QED  BY <2>1, <2>2, <2>3
  <1>3. ASSUME NEW m \in Node, NEW i \in DOMAIN snapshots'[m]
        PROVE  i \in Nat /\ snapshots'[m][i] \subseteq Indexes(m)'
    BY <1>2 DEF StoreTypeOK
  <1> QED  BY <1>1, <1>3 DEF StoreTypeOK

\* A snapshot holds indexes of the log.
LEMMA SnapshotStep ==
    ASSUME StoreTypeOK, NEW n \in Node, TakeSnapshot(n)
    PROVE  StoreTypeOK'
  <1> DEFINE last == LastIndex(n)
  <1>1. last \in Nat /\ log' = log
    BY DEF TakeSnapshot, LastIndex, StoreTypeOK
  <1>2. RebuildState(n, last) \subseteq Indexes(n)
    BY DEF RebuildState, StoreTypeOK
  <1>3. ASSUME NEW m \in Node, NEW i \in DOMAIN snapshots'[m]
        PROVE  i \in Nat /\ snapshots'[m][i] \subseteq Indexes(m)
    <2>1. CASE m = n /\ n \in DOMAIN snapshots
      <3>1. snapshots'[m] = [j \in DOMAIN snapshots[n] \cup {last} |->
                               IF j = last THEN RebuildState(n, last) ELSE snapshots[n][j]]
        BY <2>1 DEF TakeSnapshot
      <3> QED  BY <1>1, <1>2, <1>3, <2>1, <3>1 DEF StoreTypeOK
    <2>2. CASE m # n \/ n \notin DOMAIN snapshots
      <3>1. snapshots'[m] = snapshots[m]
        BY <2>2 DEF TakeSnapshot
      <3> QED  BY <1>3, <3>1 DEF StoreTypeOK
    <2> QED  BY <2>1, <2>2
  <1>4. \A m \in Node : Indexes(m)' = Indexes(m)
    BY <1>1 DEF Indexes
  <1> QED  BY <1>1, <1>3, <1>4 DEF StoreTypeOK

-----------------------------------------------------------------------------
(***************************************************************************)
(* States, leaders and terms                                               *)
(***************************************************************************)

LEMMA BaseInit == Init => BaseInv
  <1> SUFFICES ASSUME Init PROVE BaseInv
    OBVIOUS
  <1> USE DEF Init, StoreInit
  <1>1. 0 \in Term
    BY BoundsAssumption DEF Term
  <1>2. StoreTypeOK
    BY DEF StoreTypeOK, Indexes
  <1>3. TypeOK
    BY <1>1, <1>2 DEF TypeOK
  <1>4. LogTermsOrdered /\ LeadersWon /\ HeartbeatsWon
    BY NodeAssumption DEF LogTermsOrdered, LeadersWon, HeartbeatsWon
  <1> QED  BY <1>3, <1>4 DEF BaseInv

\* start_election raises the term of one node and makes it a candidate.
LEMMA StartElectionStep ==
    ASSUME TypeOK, NEW n \in Node, StartElection(n)
    PROVE  /\ term[n] + 1 \in Term
           /\ term' \in [Node -> Term] /\ state' \in [Node -> {"follower", "candidate", "leader"}]
           /\ votedFor' \in [Node -> Node \cup {None}] /\ votes' \in [Node -> SUBSET Node]
           /\ grants' \subseteq [voter : Node, candidate : Node, term : Term]
           /\ \A m \in Node : m # n => term'[m] = term[m] /\ state'[m] = state[m] /\ votes'[m] = votes[m]
           /\ term'[n] = term[n] + 1 /\ state'[n] = "candidate" /\ votes'[n] = {n}
           /\ grants' = grants \cup {Ballot(n, n, term[n] + 1)}
           /\ UNCHANGED <<leaderId, refusals, heartbeats, entries, winners, released>>
  <1>1. term[n] + 1 \in Term
    BY BoundsAssumption DEF StartElection, TypeOK, Term
  <1>2. Ballot(n, n, term[n] + 1) \in [voter : Node, candidate : Node, term : Term]
    BY <1>1 DEF Ballot
  <1> QED  BY <1>1, <1>2 DEF StartElection, TypeOK, Ballot

\* The state stays well formed.
LEMMA TypeStep == TypeOK /\ [Next]_vars => TypeOK'
  <1> SUFFICES ASSUME TypeOK, [Next]_vars PROVE TypeOK'
    OBVIOUS
  <1> USE DEF TypeOK, coreVars, netVars, storeVars, Sent
  <1>0. ASSUME UNCHANGED storeVars PROVE StoreTypeOK'
    BY <1>0 DEF StoreTypeOK, Indexes
  <1>1. ASSUME NEW n \in Node, ElectionTimeout(n) PROVE TypeOK'
    BY <1>0, <1>1, StartElectionStep DEF ElectionTimeout
  <1>2. ASSUME NEW v \in Node, NEW c \in Node, NEW t \in Term, GrantVote(v, c, t) PROVE TypeOK'
    BY <1>0, <1>2 DEF GrantVote
  <1>3. ASSUME NEW v \in Node, NEW c \in Node, NEW t \in Term, RefuseVote(v, c, t) PROVE TypeOK'
    BY <1>0, <1>3 DEF RefuseVote
  <1>4. ASSUME NEW n \in Node, NEW m \in refusals, ReceiveRefusal(n, m) PROVE TypeOK'
    BY <1>0, <1>4 DEF ReceiveRefusal
  <1>5. ASSUME NEW n \in Node, NEW g \in grants, ReceiveVote(n, g) PROVE TypeOK'
    BY <1>0, <1>5 DEF ReceiveVote
  <1>6. ASSUME NEW n \in Node, SendHeartbeat(n) PROVE TypeOK'
    BY <1>0, <1>6 DEF SendHeartbeat
  <1>7. ASSUME NEW n \in Node, NEW h \in heartbeats, ReceiveHeartbeat(n, h) PROVE TypeOK'
    BY <1>0, <1>7 DEF ReceiveHeartbeat
  <1>8. ASSUME NEW n \in Node, Replicate(n) PROVE TypeOK'
    BY <1>0, <1>8 DEF Replicate
  <1>9. ASSUME NEW n \in Node, NEW e \in entries, AcceptEntry(n, e) PROVE TypeOK'
    BY <1>0, <1>9 DEF AcceptEntry
  <1>10. ASSUME NEW n \in Node, Submit(n) PROVE TypeOK'
    <2>1. CASE state[n] = "leader" \/ leaderId[n] # None
      <3>1. term[n] \in Nat /\ Log(n, term[n]) /\ UNCHANGED <<snapshots, coreVars, netVars, winners, released>>
        BY <1>10, <2>1 DEF Submit, Term
      <3>2. StoreTypeOK'
        BY <3>1, LogStep
      <3> QED  BY <3>1, <3>2
    <2>2. CASE ~(state[n] = "leader" \/ leaderId[n] # None)
      <3>1. StartElection(n) /\ Log(n, term'[n]) /\ UNCHANGED snapshots
        BY <1>10, <2>2 DEF Submit
      <3>2. term'[n] \in Nat
        BY <3>1, StartElectionStep DEF Term
      <3>3. StoreTypeOK'
        BY <3>1, <3>2, LogStep
      <3> QED  BY <3>1, <3>3, StartElectionStep
    <2> QED  BY <2>1, <2>2
  <1>11. ASSUME NEW n \in Node, Snapshot(n) PROVE TypeOK'
    BY <1>11, SnapshotStep DEF Snapshot
  <1>12. CASE UNCHANGED vars
    BY <1>0, <1>12 DEF vars
  <1> QED
    BY <1>1, <1>2, <1>3, <1>4, <1>5, <1>6, <1>7, <1>8, <1>9, <1>10, <1>11, <1>12 DEF Next

\* Nothing that happens to a node lowers its term.
LEMMA TermsNeverFall ==
    ASSUME TypeOK, [Next]_vars, NEW m \in Node
    PROVE  term[m] \in Nat /\ term'[m] \in Nat /\ term[m] <= term'[m]
  <1> USE DEF TypeOK, coreVars, Term
  <1>1. ASSUME NEW n \in Node, StartElection(n) PROVE term[m] <= term'[m]
    BY <1>1, StartElectionStep
  <1>2. ASSUME NEW v \in Node, NEW c \in Node, NEW t \in Term, GrantVote(v, c, t)
        PROVE  term[m] <= term'[m]
    BY <1>2 DEF GrantVote
  <1>3. ASSUME NEW n \in Node, NEW r \in refusals, ReceiveRefusal(n, r) PROVE term[m] <= term'[m]
    BY <1>3 DEF ReceiveRefusal
  <1>4. ASSUME NEW n \in Node, NEW h \in heartbeats, ReceiveHeartbeat(n, h) PROVE term[m] <= term'[m]
    BY <1>4 DEF ReceiveHeartbeat, Sent
  <1>5. term[m] <= term'[m]
    BY <1>1, <1>2, <1>3, <1>4
       DEF Next, vars, ElectionTimeout, Submit, RefuseVote, ReceiveVote, SendHeartbeat,
           Replicate, AcceptEntry, Snapshot
  <1> QED  BY <1>5, TypeStep

LEMMA LogTermsStep == TypeOK /\ LogTermsOrdered /\ [Next]_vars => LogTermsOrdered'
  <1> SUFFICES ASSUME TypeOK, LogTermsOrdered, [Next]_vars PROVE LogTermsOrdered'
    OBVIOUS
  <1>1. ASSUME UNCHANGED log PROVE LogTermsOrdered'
    <2>1. ASSUME NEW n \in Node, NEW i \in DOMAIN log[n] PROVE log[n][i] <= term'[n]
      <3>1. log[n][i] \in Nat
        BY DEF TypeOK, StoreTypeOK
      <3> QED  BY <3>1, TermsNeverFall DEF LogTermsOrdered
    <2> QED  BY <1>1, <2>1 DEF LogTermsOrdered
  <1>2. ASSUME NEW n \in Node, NEW t \in Nat, Log(n, t), UNCHANGED snapshots,
               term[n] <= t, t <= term'[n]
        PROVE  LogTermsOrdered'
    <2>1. \A m \in Node : log'[m] = IF m = n THEN Append(log[n], t) ELSE log[m]
      BY <1>2, LogStep DEF TypeOK
    <2>2. ASSUME NEW m \in Node, NEW i \in DOMAIN log'[m]
          PROVE  log'[m][i] <= term'[m] /\ \A j \in 1 .. i : log'[m][j] <= log'[m][i]
      <3>1. log[m] \in Seq(Nat) /\ term[m] \in Nat /\ term'[m] \in Nat /\ term[m] <= term'[m]
        BY TermsNeverFall DEF TypeOK, StoreTypeOK
      <3>2. \A k \in DOMAIN log[m] :
              log[m][k] \in Nat /\ log[m][k] <= term[m] /\ \A j \in 1 .. k : log[m][j] <= log[m][k]
        BY <3>1 DEF LogTermsOrdered
      <3>3. CASE m # n
        BY <2>1, <3>1, <3>2, <3>3
      <3>4. CASE m = n
        <4> DEFINE len == Len(log[n])
        <4>1. /\ len \in Nat /\ DOMAIN log[n] = 1 .. len /\ DOMAIN log'[n] = 1 .. len + 1
              /\ \A j \in 1 .. len : log'[n][j] = log[n][j]
              /\ log'[n][len + 1] = t
          <5>1. log[n] \in Seq(Nat) /\ log'[n] = Append(log[n], t)
            BY <2>1, <3>1, <3>4
          <5> QED  BY <1>2, <5>1, AppendProperties
        <4>2. \A j \in 1 .. len : log'[n][j] \in Nat /\ log'[n][j] <= term[n]
          BY <3>2, <3>4, <4>1
        <4>3. ASSUME i <= len, NEW j \in 1 .. i PROVE log'[n][j] <= log'[n][i]
          <5>1. i \in 1 .. len /\ j \in 1 .. len
            BY <3>4, <4>1, <4>3
          <5> QED  BY <3>2, <3>4, <4>1, <5>1
        <4>4. CASE i <= len
          <5>1. i \in 1 .. len
            BY <3>4, <4>1, <4>4
          <5> QED  BY <3>1, <3>4, <4>2, <4>3, <4>4, <5>1
        <4>5. CASE ~(i <= len)
          <5>1. i = len + 1 /\ log'[n][i] = t
            BY <3>4, <4>1, <4>5
          <5>2. \A j \in 1 .. i : j \in 1 .. len \/ j = len + 1
            BY <4>1, <5>1
          <5> HIDE DEF len
          <5> QED  BY <1>2, <3>1, <3>4, <4>1, <4>2, <5>1, <5>2
        <4> QED  BY <4>4, <4>5
      <3> QED  BY <3>3, <3>4
    <2> QED  BY <2>2 DEF LogTermsOrdered
  <1>3. ASSUME NEW n \in Node, Submit(n) PROVE LogTermsOrdered'
    <2>1. CASE Log(n, term[n]) /\ UNCHANGED snapshots
      BY <1>2, <2>1, TermsNeverFall
    <2>2. CASE Log(n, term'[n]) /\ UNCHANGED snapshots
      BY <1>2, <2>2, TermsNeverFall
    <2> QED  BY <1>3, <2>1, <2>2 DEF Submit
  <1> QED
    BY <1>1, <1>3
       DEF Next, vars, storeVars, ElectionTimeout, GrantVote, RefuseVote, ReceiveRefusal, ReceiveVote,
           SendHeartbeat, ReceiveHeartbeat, Replicate, AcceptEntry, Snapshot, TakeSnapshot

\* A node leads, or is taken for a leader, only if it was elected.
LEMMA LeadersWonStep ==
    TypeOK /\ LeadersWon /\ HeartbeatsWon /\ [Next]_vars => LeadersWon' /\ HeartbeatsWon'
  <1> SUFFICES ASSUME TypeOK, LeadersWon, HeartbeatsWon, [Next]_vars
               PROVE  LeadersWon' /\ HeartbeatsWon'
    OBVIOUS
  <1> USE DEF LeadersWon, HeartbeatsWon, coreVars, netVars
  <1>1. \A n \in Node : term[n] \in Nat /\ term'[n] \in Nat /\ term[n] <= term'[n]
    BY TermsNeverFall
  <1>2. \A w \in winners : w.term \in Nat
    BY DEF TypeOK, Term
  <1>11. ASSUME UNCHANGED <<leaderId, heartbeats, winners>>,
                \A m \in Node : state'[m] = "leader" => state[m] = "leader" /\ term'[m] = term[m]
         PROVE  LeadersWon' /\ HeartbeatsWon'
    <2>1. ASSUME NEW m \in Node, leaderId[m] # None
          PROVE  \E w \in winners : w.node = leaderId[m] /\ w.term <= term'[m]
      <3>1. PICK w \in winners : w.node = leaderId[m] /\ w.term <= term[m]
        BY <2>1
      <3>2. w.term <= term'[m]
        BY <1>1, <1>2, <3>1
      <3> QED  BY <3>1, <3>2
    <2>2. ASSUME NEW m \in Node, state'[m] = "leader"
          PROVE  \E w \in winners : w.node = m /\ w.term = term'[m]
      <3>1. state[m] = "leader" /\ term'[m] = term[m]
        BY <1>11, <2>2
      <3> QED  BY <3>1
    <2> QED  BY <1>11, <2>1, <2>2
  <1>3. ASSUME NEW n \in Node, StartElection(n) PROVE LeadersWon' /\ HeartbeatsWon'
    <2>1. \A m \in Node : state'[m] = "leader" => state[m] = "leader" /\ term'[m] = term[m]
      BY <1>3, StartElectionStep
    <2> QED  BY <1>3, <1>11, <2>1, StartElectionStep
  <1>4. ASSUME NEW v \in Node, NEW c \in Node, NEW t \in Term, GrantVote(v, c, t)
        PROVE  LeadersWon' /\ HeartbeatsWon'
    <2>1. \A m \in Node : state'[m] = "leader" => state[m] = "leader" /\ term'[m] = term[m]
      BY <1>4 DEF GrantVote, TypeOK, Term
    <2> QED  BY <1>4, <1>11, <2>1 DEF GrantVote
  <1>5. ASSUME NEW n \in Node, NEW m \in refusals, ReceiveRefusal(n, m) PROVE LeadersWon' /\ HeartbeatsWon'
    <2>1. \A k \in Node : state'[k] = "leader" => state[k] = "leader" /\ term'[k] = term[k]
      BY <1>5 DEF ReceiveRefusal, TypeOK
    <2> QED  BY <1>5, <1>11, <2>1 DEF ReceiveRefusal
  <1>6. ASSUME NEW n \in Node, NEW g \in grants, ReceiveVote(n, g) PROVE LeadersWon' /\ HeartbeatsWon'
    <2> DEFINE new == [node |-> n, term |-> term[n], by |-> votes'[n]]
    <2>1. CASE UNCHANGED <<state, leaderId, winners>>
      BY <1>6, <2>1 DEF ReceiveVote
    <2>2. CASE /\ state' = [state EXCEPT ![n] = "leader"]
               /\ leaderId' = [leaderId EXCEPT ![n] = n]
               /\ winners' = winners \cup {new}
      <3>1. /\ new \in winners' /\ winners \subseteq winners' /\ new.node = n /\ new.term = term[n]
            /\ UNCHANGED <<term, heartbeats>>
        BY <1>6, <2>2 DEF ReceiveVote
      <3>2. \A m \in Node : /\ state'[m] = IF m = n THEN "leader" ELSE state[m]
                            /\ leaderId'[m] = IF m = n THEN n ELSE leaderId[m]
        BY <2>2 DEF TypeOK
      <3> HIDE DEF new
      <3> QED  BY <1>1, <3>1, <3>2
    <2> QED  BY <1>6, <2>1, <2>2 DEF ReceiveVote
  <1>7. ASSUME NEW n \in Node, SendHeartbeat(n) PROVE LeadersWon' /\ HeartbeatsWon'
    BY <1>7 DEF SendHeartbeat
  <1>8. ASSUME NEW n \in Node, NEW h \in heartbeats, ReceiveHeartbeat(n, h)
        PROVE  LeadersWon' /\ HeartbeatsWon'
    <2>1. h.term \in Nat /\ \E w \in winners : w.node = h.from /\ w.term = h.term
      BY DEF TypeOK, Sent, Term
    <2> QED  BY <1>1, <1>2, <1>8, <2>1 DEF ReceiveHeartbeat, TypeOK
  <1>9. ASSUME NEW n \in Node, NEW e \in entries, AcceptEntry(n, e) PROVE LeadersWon' /\ HeartbeatsWon'
    BY <1>9 DEF AcceptEntry, TypeOK
  <1>10. ASSUME UNCHANGED <<state, term, leaderId, heartbeats, winners>> PROVE LeadersWon' /\ HeartbeatsWon'
    BY <1>10
  <1> QED
    BY <1>3, <1>4, <1>5, <1>6, <1>7, <1>8, <1>9, <1>10
       DEF Next, vars, ElectionTimeout, Submit, RefuseVote, Replicate, Snapshot

LEMMA BaseInvariant == Spec => []BaseInv
  <1>1. BaseInv /\ [Next]_vars => BaseInv'
    BY TypeStep, LogTermsStep, LeadersWonStep DEF BaseInv
  <1> QED  BY <1>1, BaseInit, PTL DEF Spec

\* The nodes, the network and the logs are always well formed.
THEOREM TypeCorrect == Spec => []TypeOK
  <1>1. BaseInv => TypeOK
    BY DEF BaseInv
  <1> QED  BY <1>1, BaseInvariant, PTL

\* The terms in a log never go down, and are never ahead of its node's term
\* (EventStore.append called by DistributedDESC.submit).
THEOREM LogTermsAlwaysOrdered == Spec => []LogTermsOrdered
  <1>1. BaseInv => LogTermsOrdered
    BY DEF BaseInv
  <1> QED  BY <1>1, BaseInvariant, PTL

\* A node leads only in a term in which it was elected, and takes only such a
\* node for the leader (receive_vote_response, receive_heartbeat).
THEOREM LeadersAlwaysWon == Spec => []LeadersWon
  <1>1. BaseInv => LeadersWon
    BY DEF BaseInv
  <1> QED  BY <1>1, BaseInvariant, PTL

-----------------------------------------------------------------------------
(***************************************************************************)
(* Elections                                                               *)
(***************************************************************************)

LEMMA VoteInit == Init => VoteInv
  <1> SUFFICES ASSUME Init PROVE VoteInv
    OBVIOUS
  <1>1. CountedGiven
    BY DEF Init, CountedGiven
  <1> QED
    BY <1>1 DEF Init, VoteInv, VotesPast, VotesHeld, VotesOnce, WinnersCounted

\* A vote stays given, so what was counted was given.
LEMMA WinnersStayCounted ==
    ASSUME WinnersCounted, grants \subseteq grants', UNCHANGED winners
    PROVE  WinnersCounted'
  BY DEF WinnersCounted, Majority

LEMMA CountedStayGiven ==
    ASSUME BaseInv, TypeOK', CountedGiven, grants \subseteq grants',
           NEW n \in Node, NEW u \in votes[n], term[n] <= term'[n]
    PROVE  \E g \in grants' : g.voter = u /\ g.candidate = n /\ g.term <= term'[n]
  <1>1. PICK g \in grants : g.voter = u /\ g.candidate = n /\ g.term <= term[n]
    BY DEF CountedGiven
  <1>2. g.term \in Nat /\ term[n] \in Nat /\ term'[n] \in Nat
    BY DEF BaseInv, TypeOK, Term
  <1>3. g.term <= term'[n]
    BY <1>1, <1>2
  <1> QED  BY <1>1, <1>3

\* A step that gives and counts no vote, and changes voted_for only with the
\* term or on a heartbeat.
LEMMA NoVoteStep ==
    ASSUME BaseInv, TypeOK', VoteInv, UNCHANGED <<grants, votes, winners>>,
           released \subseteq released',
           \A m \in Node : /\ term[m] <= term'[m]
                           /\ term'[m] = term[m] =>
                                \/ votedFor'[m] = votedFor[m]
                                \/ [node |-> m, term |-> term[m]] \in released'
    PROVE  VoteInv'
  <1> USE DEF VoteInv
  <1>1. \A g \in grants : /\ g.voter \in Node /\ g.term \in Nat /\ g.term <= term[g.voter]
                          /\ term[g.voter] \in Nat /\ term'[g.voter] \in Nat
    BY DEF VotesPast, BaseInv, TypeOK, Term
  <1>0. ASSUME NEW g \in grants PROVE term[g.voter] <= term'[g.voter] /\ g.term <= term'[g.voter]
    <2>1. g.voter \in Node
      BY <1>1
    <2>2. term[g.voter] <= term'[g.voter]
      BY <2>1
    <2> QED  BY <1>1, <2>2
  <1>2. VotesPast'
    BY <1>0 DEF VotesPast
  <1>3. VotesHeld'
    <2> SUFFICES ASSUME NEW g \in grants, g.term = term'[g.voter]
                 PROVE  \/ votedFor'[g.voter] = g.candidate
                        \/ [node |-> g.voter, term |-> g.term] \in released'
      BY DEF VotesHeld
    <2>1. term'[g.voter] = term[g.voter] /\ g.term = term[g.voter]
      BY <1>0, <1>1
    <2>2. votedFor[g.voter] = g.candidate \/ [node |-> g.voter, term |-> g.term] \in released
      BY <2>1 DEF VotesHeld
    <2>3. \/ votedFor'[g.voter] = votedFor[g.voter]
          \/ [node |-> g.voter, term |-> g.term] \in released'
      BY <1>1, <2>1
    <2> QED  BY <2>2, <2>3
  <1>4. VotesOnce'
    BY DEF VotesOnce
  <1>5. CountedGiven'
    BY CountedStayGiven DEF CountedGiven
  <1>6. WinnersCounted'
    BY WinnersStayCounted
  <1> QED  BY <1>2, <1>3, <1>4, <1>5, <1>6

\* Node v votes for c in term t, which is new to it or in which its voted_for
\* allows it; if it stands itself, it counts that vote.
LEMMA CastStep ==
    ASSUME BaseInv, TypeOK', VoteInv, UNCHANGED <<winners, released>>,
           NEW v \in Node, NEW c \in Node, NEW t \in Term,
           grants' = grants \cup {Ballot(v, c, t)},
           t > term[v] \/ (t = term[v] /\ votedFor[v] \in {None, c}),
           term'[v] = t, votedFor'[v] = c,
           \A m \in Node \ {v} : term'[m] = term[m] /\ votedFor'[m] = votedFor[m],
           \A m \in Node : \A u \in votes'[m] : u \in votes[m] \/ (m = v /\ u = v /\ c = v)
    PROVE  VoteInv'
  <1> USE DEF VoteInv
  <1>1. \A g \in grants : /\ g.voter \in Node /\ g.term \in Nat /\ g.term <= term[g.voter]
                          /\ term[g.voter] \in Nat /\ term'[g.voter] \in Nat
    BY DEF VotesPast, BaseInv, TypeOK, Term
  <1>2. t \in Nat /\ term[v] \in Nat /\ term[v] <= t /\ \A m \in Node : term[m] \in Nat
    BY DEF BaseInv, TypeOK, Term
  <1>3. Ballot(v, c, t).voter = v /\ Ballot(v, c, t).candidate = c /\ Ballot(v, c, t).term = t
    BY DEF Ballot
  <1>4. VotesPast'
    <2> SUFFICES ASSUME NEW g \in grants' PROVE g.term <= term'[g.voter]
      BY DEF VotesPast
    <2>1. CASE g \in grants
      BY <1>1, <1>2, <2>1
    <2>2. CASE g = Ballot(v, c, t)
      BY <1>2, <1>3, <2>2
    <2> QED  BY <2>1, <2>2
  \* Another vote of v in this term is for c too, or was released.
  <1>5. ASSUME NEW g \in grants, g.voter = v, g.term = t
        PROVE  g.candidate = c \/ [node |-> v, term |-> t] \in released
    <2>1. t = term[v] /\ votedFor[v] \in {None, c}
      BY <1>1, <1>2, <1>5
    <2>2. votedFor[v] = g.candidate \/ [node |-> v, term |-> t] \in released
      BY <1>5, <2>1 DEF VotesHeld
    <2>3. g.candidate # None
      BY NodeAssumption DEF BaseInv, TypeOK
    <2> QED  BY <2>1, <2>2, <2>3
  <1>6. VotesOnce'
    <2> SUFFICES ASSUME NEW g \in grants', NEW h \in grants',
                        g.voter = h.voter, g.term = h.term, g.candidate # h.candidate
                 PROVE  [node |-> g.voter, term |-> g.term] \in released
      BY DEF VotesOnce
    <2>1. CASE g \in grants /\ h \in grants
      BY <2>1 DEF VotesOnce
    <2>2. CASE g = Ballot(v, c, t)
      BY <1>3, <1>5, <2>2
    <2>3. CASE h = Ballot(v, c, t)
      BY <1>3, <1>5, <2>3
    <2> QED  BY <2>1, <2>2, <2>3
  <1>7. VotesHeld'
    <2> SUFFICES ASSUME NEW g \in grants', g.term = term'[g.voter]
                 PROVE  \/ votedFor'[g.voter] = g.candidate
                        \/ [node |-> g.voter, term |-> g.term] \in released
      BY DEF VotesHeld
    <2>1. CASE g \in grants /\ g.voter # v
      BY <1>1, <2>1 DEF VotesHeld
    <2>2. CASE g \in grants /\ g.voter = v
      BY <1>5, <2>2
    <2>3. CASE g = Ballot(v, c, t)
      BY <1>3, <2>3
    <2> QED  BY <2>1, <2>2, <2>3
  <1>8. CountedGiven'
    <2> SUFFICES ASSUME NEW m \in Node, NEW u \in votes'[m]
                 PROVE  \E g \in grants' : g.voter = u /\ g.candidate = m /\ g.term <= term'[m]
      BY DEF CountedGiven
    <2>1. CASE u \in votes[m]
      <3>1. term[m] <= term'[m]
        BY <1>2
      <3> QED  BY <2>1, <3>1, CountedStayGiven
    <2>2. CASE m = v /\ u = v /\ c = v
      BY <1>2, <1>3, <2>2
    <2> QED  BY <2>1, <2>2
  <1>9. WinnersCounted'
    BY WinnersStayCounted
  <1> QED  BY <1>4, <1>6, <1>7, <1>8, <1>9

\* A candidate counts a vote it was given, in this term or earlier; if it wins,
\* all it counted are such votes.
LEMMA CountStep ==
    ASSUME BaseInv, TypeOK', VoteInv, NEW n \in Node, NEW g \in grants, ReceiveVote(n, g)
    PROVE  VoteInv'
  <1> USE DEF VoteInv
  <1>1. /\ g.candidate = n /\ g.term <= term[n]
        /\ UNCHANGED <<grants, term, votedFor, released>>
        /\ \A m \in Node : m # n => votes'[m] = votes[m]
        /\ votes'[n] = votes[n] \cup {g.voter}
    BY DEF ReceiveVote, BaseInv, TypeOK, netVars
  <1>2. CountedGiven'
    BY <1>1 DEF CountedGiven
  <1>3. WinnersCounted'
    <2>1. CASE UNCHANGED winners
      BY <1>1, <2>1, WinnersStayCounted
    <2>2. CASE winners' # winners
      <3>1. /\ Cardinality(votes'[n]) >= Majority
            /\ winners' = winners \cup {[node |-> n, term |-> term[n], by |-> votes'[n]]}
        BY <2>2 DEF ReceiveVote
      <3>2. \A u \in votes'[n] : \E h \in grants : h.voter = u /\ h.candidate = n /\ h.term <= term[n]
        BY <1>1, <1>2 DEF CountedGiven
      <3> DEFINE new == [node |-> n, term |-> term[n], by |-> votes'[n]]
      <3>3. /\ Cardinality(new.by) >= Majority
            /\ \A u \in new.by :
                 \E h \in grants : h.voter = u /\ h.candidate = new.node /\ h.term <= new.term
        BY <3>1, <3>2
      <3>4. winners' = winners \cup {new} /\ grants' = grants
        BY <1>1, <3>1
      <3> HIDE DEF new
      <3> QED  BY <3>3, <3>4 DEF WinnersCounted, Majority
    <2> QED  BY <2>1, <2>2
  <1> QED  BY <1>1, <1>2, <1>3 DEF VotesPast, VotesHeld, VotesOnce

LEMMA VoteStep == BaseInv /\ VoteInv /\ [Next]_vars => VoteInv'
  <1> SUFFICES ASSUME BaseInv, VoteInv, [Next]_vars PROVE VoteInv'
    OBVIOUS
  <1> USE DEF coreVars, netVars
  <1>1. TypeOK /\ TypeOK' /\ \A m \in Node : term[m] \in Nat /\ term'[m] \in Nat /\ term[m] <= term'[m]
    BY TypeStep, TermsNeverFall DEF BaseInv
  <1>2. ASSUME NEW n \in Node, StartElection(n) PROVE VoteInv'
    <2>1. /\ term[n] + 1 \in Term /\ term[n] + 1 > term[n]
          /\ term'[n] = term[n] + 1 /\ votes'[n] = {n}
          /\ grants' = grants \cup {Ballot(n, n, term[n] + 1)}
          /\ \A m \in Node \ {n} : term'[m] = term[m] /\ votes'[m] = votes[m]
          /\ UNCHANGED winners
      BY <1>1, <1>2, StartElectionStep
    <2>2. /\ votedFor'[n] = n /\ UNCHANGED released
          /\ \A m \in Node \ {n} : votedFor'[m] = votedFor[m]
      BY <1>1, <1>2 DEF StartElection, TypeOK
    <2>3. \A m \in Node : \A u \in votes'[m] : u \in votes[m] \/ (m = n /\ u = n)
      BY <2>1
    <2> QED  BY <1>1, <2>1, <2>2, <2>3, CastStep
  <1>3. ASSUME NEW v \in Node, NEW c \in Node, NEW t \in Term, GrantVote(v, c, t) PROVE VoteInv'
    <2>1. /\ grants' = grants \cup {Ballot(v, c, t)}
          /\ t > term[v] \/ (t = term[v] /\ votedFor[v] \in {None, c})
          /\ UNCHANGED <<votes, winners, released>>
      BY <1>3 DEF GrantVote, Ballot
    <2>2. /\ term'[v] = t /\ votedFor'[v] = c
          /\ \A m \in Node \ {v} : term'[m] = term[m] /\ votedFor'[m] = votedFor[m]
      BY <1>1, <1>3 DEF GrantVote, TypeOK
    <2> QED  BY <1>1, <2>1, <2>2, CastStep
  <1>4. ASSUME NEW n \in Node, NEW m \in refusals, ReceiveRefusal(n, m) PROVE VoteInv'
    BY <1>1, <1>4, NoVoteStep DEF ReceiveRefusal
  <1>5. ASSUME NEW n \in Node, NEW g \in grants, ReceiveVote(n, g) PROVE VoteInv'
    BY <1>1, <1>5, CountStep
  <1>6. ASSUME NEW n \in Node, NEW h \in heartbeats, ReceiveHeartbeat(n, h) PROVE VoteInv'
    <2>1. /\ UNCHANGED <<grants, votes, winners>>
          /\ released' = released \cup {[node |-> n, term |-> h.term]}
          /\ term'[n] = h.term
          /\ \A m \in Node \ {n} : votedFor'[m] = votedFor[m]
      BY <1>1, <1>6 DEF ReceiveHeartbeat, TypeOK
    <2>2. ASSUME NEW m \in Node, term'[m] = term[m]
          PROVE  votedFor'[m] = votedFor[m] \/ [node |-> m, term |-> term[m]] \in released'
      <3>1. CASE m = n
        BY <2>1, <2>2, <3>1
      <3> QED  BY <2>1, <3>1
    <2> QED  BY <1>1, <2>1, <2>2, NoVoteStep
  <1>7. ASSUME UNCHANGED <<term, votedFor, votes, grants, winners, released>> PROVE VoteInv'
    BY <1>1, <1>7, NoVoteStep
  <1> QED
    BY <1>2, <1>3, <1>4, <1>5, <1>6, <1>7
       DEF Next, vars, ElectionTimeout, Submit, RefuseVote, SendHeartbeat, Replicate, AcceptEntry, Snapshot

LEMMA VoteInvariant == Spec => [](BaseInv /\ VoteInv)
  <1>1. BaseInv /\ VoteInv /\ [Next]_vars => (BaseInv /\ VoteInv)'
    BY VoteStep, TypeStep, LogTermsStep, LeadersWonStep DEF BaseInv
  <1>2. Init => BaseInv /\ VoteInv
    BY BaseInit, VoteInit
  <1> QED  BY <1>1, <1>2, PTL DEF Spec

\* Two majorities share a voter; both counted a vote of it, and if these are of
\* the same term it was released in between.
LEMMA SharedVoter == ASSUME BaseInv, VoteInv PROVE SecondLeaderHasCause
  <1> SUFFICES ASSUME NEW a \in winners, NEW b \in winners, a.term = b.term, a.node # b.node
               PROVE  \E v \in a.by \cap b.by :
                        \/ [node |-> v, term |-> a.term] \in released
                        \/ \E w \in {a, b} :
                             /\ ~ Voted(v, w.node, w.term)
                             /\ \E u \in Term : u < w.term /\ Voted(v, w.node, u)
    BY DEF SecondLeaderHasCause
  <1>1. /\ a.by \in SUBSET Node /\ b.by \in SUBSET Node
        /\ Cardinality(a.by) >= Majority /\ Cardinality(b.by) >= Majority
    BY DEF VoteInv, WinnersCounted, BaseInv, TypeOK
  <1>2. IsFiniteSet(Node) /\ IsFiniteSet(a.by) /\ IsFiniteSet(b.by)
    BY <1>1, NodeAssumption, FS_Subset
  <1>3. Cardinality(Node) \in Nat /\ Cardinality(a.by) \in Nat /\ Cardinality(b.by) \in Nat
    BY <1>2, FS_CardinalityType
  <1>4. Cardinality(a.by) + Cardinality(b.by) > Cardinality(Node)
    BY <1>1, <1>3 DEF Majority
  <1>5. PICK v : v \in a.by \cap b.by
    BY <1>1, <1>2, <1>4, FS_MajoritiesIntersect
  <1>6. ASSUME NEW w \in {a, b}, ~ Voted(v, w.node, w.term)
        PROVE  \E u \in Term : u < w.term /\ Voted(v, w.node, u)
    <2>1. PICK g \in grants : g.voter = v /\ g.candidate = w.node /\ g.term <= w.term
      BY <1>5 DEF VoteInv, WinnersCounted
    <2>2. g \in [voter : Node, candidate : Node, term : Term] /\ w.term \in Nat
      BY DEF BaseInv, TypeOK, Term
    <2>3. g = [voter |-> v, candidate |-> w.node, term |-> g.term]
      BY <2>1, <2>2
    <2>4. g.term # w.term
      BY <1>6, <2>3 DEF Voted
    <2>5. g.term \in Term /\ g.term < w.term
      BY <2>1, <2>2, <2>4 DEF Term
    <2> QED  BY <2>3, <2>5 DEF Voted
  <1>7. CASE Voted(v, a.node, a.term) /\ Voted(v, b.node, b.term)
    <2>1. [node |-> v, term |-> a.term] \in released
      BY <1>7 DEF Voted, VoteInv, VotesOnce
    <2> QED  BY <1>5, <2>1
  <1> QED  BY <1>5, <1>6, <1>7

\* Two leaders of one term share a voter that a heartbeat released or whose vote
\* was counted late, in a cluster of any size: counting to a majority
\* (start_election, 36-43, and receive_vote_response, 45-56) does the rest.
THEOREM SecondLeaderAlwaysHasCause == Spec => []SecondLeaderHasCause
  <1>1. BaseInv /\ VoteInv => SecondLeaderHasCause
    BY SharedVoter
  <1> QED  BY <1>1, VoteInvariant, PTL

\* A leader gives up leading only for a newer term or for another node elected
\* in its own (receive_heartbeat, 28-34, receive_vote_response, 46-48).
THEOREM AlwaysDeposedForCause == Spec => DeposedForCause
  <1> DEFINE Cause(n) == \/ term'[n] > term[n]
                         \/ \E w \in winners :
                              w.term = term[n] /\ w.node # n /\ leaderId'[n] = w.node
  <1>1. ASSUME BaseInv, [Next]_vars, NEW n \in Node, state[n] = "leader", state'[n] # "leader"
        PROVE  Cause(n)
    <2> USE DEF BaseInv, TypeOK, coreVars, Term
    <2>1. term[n] \in Nat /\ term'[n] \in Nat
      BY <1>1, TermsNeverFall
    <2>2. ASSUME NEW m \in Node, StartElection(m) PROVE term'[n] > term[n]
      <3>1. m = n
        BY <1>1, <2>2, StartElectionStep
      <3> QED  BY <1>1, <2>1, <2>2, <3>1, StartElectionStep
    <2>3. ASSUME NEW v \in Node, NEW c \in Node, NEW t \in Term, GrantVote(v, c, t)
          PROVE  term'[n] > term[n]
      BY <1>1, <2>1, <2>3 DEF GrantVote
    <2>4. ASSUME NEW m \in Node, NEW r \in refusals, ReceiveRefusal(m, r) PROVE term'[n] > term[n]
      BY <1>1, <2>1, <2>4 DEF ReceiveRefusal
    <2>5. ASSUME NEW m \in Node, NEW g \in grants, ReceiveVote(m, g) PROVE FALSE
      BY <1>1, <2>5 DEF ReceiveVote
    <2>6. ASSUME NEW m \in Node, NEW h \in heartbeats, ReceiveHeartbeat(m, h)
          PROVE  Cause(n)
      <3>1. /\ m = n /\ h.from # n /\ h.term >= term[n] /\ term'[n] = h.term /\ h.term \in Nat
            /\ leaderId'[n] = h.from
        BY <1>1, <2>6 DEF ReceiveHeartbeat, Sent
      <3>2. \E w \in winners : w.node = h.from /\ w.term = h.term
        BY <1>1 DEF HeartbeatsWon
      <3> QED  BY <2>1, <3>1, <3>2
    <2> QED
      BY <1>1, <2>2, <2>3, <2>4, <2>5, <2>6
         DEF Next, vars, ElectionTimeout, Submit, RefuseVote, SendHeartbeat, Replicate, AcceptEntry, Snapshot
  <1>2. BaseInv /\ [Next]_vars =>
          [\A n \in Node : state[n] = "leader" /\ state'[n] # "leader" => Cause(n)]_vars
    BY <1>1
  <1> QED  BY <1>2, BaseInvariant, PTL DEF Spec, DeposedForCause

\* Whoever leads was elected, alone in its term unless a vote was late or given
\* twice, in any finite cluster.
THEOREM ElectionsAlwaysHold == Spec => []ElectionsHold
  <1>1. TypeOK /\ LeadersWon /\ SecondLeaderHasCause => ElectionsHold
    BY DEF ElectionsHold
  <1> QED
    BY <1>1, TypeCorrect, LeadersAlwaysWon, SecondLeaderAlwaysHasCause, PTL

-----------------------------------------------------------------------------
(***************************************************************************)
(* Replay                                                                  *)
(***************************************************************************)

\* What is stored under an index other than 0 is all events up to it.
SnapshotsFaithful ==
    \A n \in Node : \A i \in DOMAIN snapshots[n] \ {0} : snapshots[n][i] = 0 .. i

\* Under faithful snapshots every index of the log but 0 is replayed in full.
LEMMA ReplayIsFull ==
    ASSUME StoreTypeOK, SnapshotsFaithful, NEW n \in Node, NEW i \in Indexes(n) \ {0}
    PROVE  RebuildState(n, i) = 0 .. i
  <1>1. Indexes(n) = 0 .. Len(log[n]) - 1 /\ Len(log[n]) \in Nat
    BY CountedFromZero DEF StoreTypeOK, Indexes
  <1>2. CASE i \in DOMAIN snapshots[n]
    BY <1>2 DEF RebuildState, SnapshotsFaithful
  <1>3. CASE i \notin DOMAIN snapshots[n]
    <2>1. RebuildState(n, i) = {j \in Indexes(n) : j <= i}
      BY <1>3 DEF RebuildState
    <2>2. \A j : j \in Indexes(n) /\ j <= i <=> j \in 0 .. i
      BY <1>1
    <2> QED  BY <2>1, <2>2
  <1> QED  BY <1>2, <1>3

\* snapshot() stores a full replay, or something under index 0.
LEMMA SnapshotFaithful ==
    ASSUME StoreTypeOK, SnapshotsFaithful, NEW n \in Node, TakeSnapshot(n)
    PROVE  SnapshotsFaithful'
  <1> DEFINE last == LastIndex(n)
  <1>1. last # 0 => RebuildState(n, last) = 0 .. last
    <2> SUFFICES ASSUME last # 0 PROVE RebuildState(n, last) = 0 .. last
      OBVIOUS
    <2>1. last = Len(log[n]) - 1 /\ log[n] # <<>> /\ log[n] \in Seq(Nat)
      BY DEF LastIndex, StoreTypeOK
    <2>2. Indexes(n) = 0 .. Len(log[n]) - 1
      BY <2>1, CountedFromZero DEF Indexes
    <2>3. Len(log[n]) \in Nat /\ Len(log[n]) # 0
      BY <2>1
    <2>4. last \in Indexes(n)
      BY <2>1, <2>2, <2>3
    <2> QED  BY <2>4, ReplayIsFull
  <1> HIDE DEF last
  <1> SUFFICES ASSUME NEW m \in Node, NEW i \in DOMAIN snapshots'[m] \ {0}
               PROVE  snapshots'[m][i] = 0 .. i
    BY DEF SnapshotsFaithful
  <1>2. CASE m = n /\ n \in DOMAIN snapshots
    <2>1. snapshots'[m] = [j \in DOMAIN snapshots[n] \cup {last} |->
                             IF j = last THEN RebuildState(n, last) ELSE snapshots[n][j]]
      BY <1>2 DEF TakeSnapshot, last
    <2> QED  BY <1>1, <1>2, <2>1 DEF SnapshotsFaithful
  <1>3. CASE m # n \/ n \notin DOMAIN snapshots
    <2>1. snapshots'[m] = snapshots[m]
      BY <1>3 DEF TakeSnapshot
    <2> QED  BY <2>1 DEF SnapshotsFaithful
  <1> QED  BY <1>2, <1>3

\* Replaying a log to an index gives all events up to it, whatever snapshots
\* were taken before (EventStore.rebuild_state, DistributedDESC.snapshot).
THEOREM ReplaysAlwaysAgree == Spec => []ReplaysAgree
  <1>1. Init => SnapshotsFaithful
    BY DEF Init, StoreInit, SnapshotsFaithful
  <1>2. TypeOK /\ SnapshotsFaithful /\ [Next]_vars => SnapshotsFaithful'
    <2> SUFFICES ASSUME TypeOK, SnapshotsFaithful, [Next]_vars PROVE SnapshotsFaithful'
      OBVIOUS
    <2>1. CASE UNCHANGED snapshots
      BY <2>1 DEF SnapshotsFaithful
    <2>2. ASSUME NEW n \in Node, Snapshot(n) PROVE SnapshotsFaithful'
      BY <2>2, SnapshotFaithful DEF Snapshot, TypeOK
    <2> QED
      BY <2>1, <2>2
         DEF Next, ElectionTimeout, GrantVote, RefuseVote, ReceiveRefusal, ReceiveVote,
             SendHeartbeat, ReceiveHeartbeat, Replicate, AcceptEntry, Submit, vars, storeVars
  <1>3. TypeOK /\ SnapshotsFaithful => ReplaysAgree
    BY ReplayIsFull DEF ReplaysAgree, TypeOK
  <1> QED  BY <1>1, <1>2, <1>3, TypeCorrect, PTL DEF Spec

\* The terms of a log only grow and no replay of it misses an event, whatever
\* elections and snapshots go on meanwhile (DistributedDESC.submit, snapshot).
THEOREM LogsAlwaysHold == Spec => []LogsHold
  <1>1. LogTermsOrdered /\ ReplaysAgree => LogsHold
    BY DEF LogsHold
  <1> QED
    BY <1>1, LogTermsAlwaysOrdered, ReplaysAlwaysAgree, PTL
=============================================================================
