----------------------------- MODULE Consensus -----------------------------
(***************************************************************************)
(* A cluster of DistributedDESC nodes (runtime/consensus_replay.py): the   *)
(* ConsensusCore of each, with its event store, over a network that delays,*)
(* reorders, loses and repeats messages.                                   *)
(*                                                                         *)
(* The code has the handlers of a node and no transport, and it has no     *)
(* handler for a request to vote: a peer's answer comes from outside.      *)
(* GrantVote and RefuseVote stand for it, as Raft has it on the fields the *)
(* code keeps: a node grants when the term is newer than its own, or when  *)
(* it is its own and voted_for is free.  Nothing else is asked of the      *)
(* voters: a heartbeat clears voted_for, so a voter may vote once more in  *)
(* the same term, and an answer may arrive when its candidate already      *)
(* stands in a later election.                                             *)
(*                                                                         *)
(* send_heartbeat and replicate are called by the leader.  Messages are    *)
(* never taken out of the sets they are in, so each may be delivered at    *)
(* any later time, many times or never.  Clocks are left out: whenever a   *)
(* node is not leader its election timeout may have passed.                *)
(***************************************************************************)
EXTENDS EventStore, FiniteSets

CONSTANTS
    None,              \* no node: None of Python
    MaxTerm,           \* bound on the terms
    MaxEvents,         \* bound on the events in all logs
    MaxSnapshots       \* bound on the snapshots of all nodes

ASSUME NodeAssumption == IsFiniteSet(Node) /\ Node # {} /\ None \notin Node
ASSUME BoundsAssumption == {MaxTerm, MaxEvents, MaxSnapshots} \subseteq Nat

VARIABLES
    state,        \* ConsensusCore.state
    term,
    votedFor,     \* voted_for
    leaderId,     \* leader_id
    votes,        \* votes: the peers marked True
    grants,       \* votes given, a candidate's own included
    refusals,     \* answers that carry a newer term
    heartbeats,
    entries,      \* what replicate() returned
    winners,      \* history: who was elected in which term, by which votes
    released      \* history: in which term a heartbeat cleared whose voted_for

coreVars == <<state, term, votedFor, leaderId, votes>>
netVars == <<grants, refusals, heartbeats, entries>>
vars == <<coreVars, netVars, winners, released, storeVars>>

Term == 0 .. MaxTerm

Majority == Cardinality(Node) \div 2 + 1

\* The candidates of a term; start_election's result is the request.
Candidates(t) == {g.candidate : g \in {h \in grants : h.term = t /\ h.voter = h.candidate}}

EntriesOf(f) == Cardinality(UNION {{n} \X DOMAIN f[n] : n \in Node})

-----------------------------------------------------------------------------

Init ==
    /\ StoreInit
    /\ state = [n \in Node |-> "follower"]
    /\ term = [n \in Node |-> 0]
    /\ votedFor = [n \in Node |-> None]
    /\ leaderId = [n \in Node |-> None]
    /\ votes = [n \in Node |-> {}]
    /\ grants = {} /\ refusals = {} /\ heartbeats = {} /\ entries = {}
    /\ winners = {} /\ released = {}

\* start_election: a new term, a vote for itself and none from the peers.
StartElection(n) ==
    /\ term[n] < MaxTerm
    /\ state' = [state EXCEPT ![n] = "candidate"]
    /\ term' = [term EXCEPT ![n] = @ + 1]
    /\ votedFor' = [votedFor EXCEPT ![n] = n]
    /\ votes' = [votes EXCEPT ![n] = {n}]
    /\ grants' = grants \cup {[voter |-> n, candidate |-> n, term |-> term[n] + 1]}
    /\ UNCHANGED <<leaderId, refusals, heartbeats, entries, winners, released>>

\* should_start_election holds and its caller starts one.
ElectionTimeout(n) ==
    /\ state[n] # "leader"
    /\ StartElection(n)
    /\ UNCHANGED storeVars

\* External: a peer votes for candidate c of term t.
GrantVote(v, c, t) ==
    /\ v # c /\ c \in Candidates(t)
    /\ t > term[v] \/ (t = term[v] /\ votedFor[v] \in {None, c})
    /\ grants' = grants \cup {[voter |-> v, candidate |-> c, term |-> t]}
    /\ term' = [term EXCEPT ![v] = t]
    /\ state' = [state EXCEPT ![v] = IF t > term[v] THEN "follower" ELSE @]
    /\ votedFor' = [votedFor EXCEPT ![v] = c]
    /\ UNCHANGED <<leaderId, votes, refusals, heartbeats, entries, winners, released, storeVars>>

\* External: a peer with a newer term refuses and says so.
RefuseVote(v, c, t) ==
    /\ c \in Candidates(t) /\ term[v] > t
    /\ refusals' = refusals \cup {[to |-> c, term |-> term[v]]}
    /\ UNCHANGED <<coreVars, grants, heartbeats, entries, winners, released, storeVars>>

\* Mutant of ReceiveRefusal: a refusal of the node's own term ends it too.
ReceiveRefusalSameTerm(n, m) ==
    /\ m.to = n /\ m.term >= term[n]
    /\ term' = [term EXCEPT ![n] = m.term]
    /\ state' = [state EXCEPT ![n] = "follower"]
    /\ UNCHANGED <<votedFor, leaderId, votes, netVars, winners, released, storeVars>>

\* receive_vote_response with a newer term: the election is over.
ReceiveRefusal(n, m) ==
    /\ m.to = n /\ m.term > term[n]
    /\ term' = [term EXCEPT ![n] = m.term]
    /\ state' = [state EXCEPT ![n] = "follower"]
    /\ UNCHANGED <<votedFor, leaderId, votes, netVars, winners, released, storeVars>>

\* Mutant of ReceiveVote: a vote for another candidate counts as well.
ReceiveVoteForAnother(n, g) ==
    /\ g.voter # n /\ g.term <= term[n]
    /\ state[n] = "candidate"
    /\ votes' = [votes EXCEPT ![n] = @ \cup {g.voter}]
    /\ IF Cardinality(votes'[n]) >= Majority
       THEN /\ state' = [state EXCEPT ![n] = "leader"]
            /\ leaderId' = [leaderId EXCEPT ![n] = n]
            /\ winners' = winners \cup {[node |-> n, term |-> term[n], by |-> votes'[n]]}
       ELSE UNCHANGED <<state, leaderId, winners>>
    /\ UNCHANGED <<term, votedFor, netVars, released, storeVars>>

\* receive_vote_response with a vote: a candidate counts it whatever term it
\* was given in, and is leader once a majority is marked.
ReceiveVote(n, g) ==
    /\ g.candidate = n /\ g.voter # n /\ g.term <= term[n]
    /\ state[n] = "candidate"
    /\ votes' = [votes EXCEPT ![n] = @ \cup {g.voter}]
    /\ IF Cardinality(votes'[n]) >= Majority
       THEN /\ state' = [state EXCEPT ![n] = "leader"]
            /\ leaderId' = [leaderId EXCEPT ![n] = n]
            /\ winners' = winners \cup {[node |-> n, term |-> term[n], by |-> votes'[n]]}
       ELSE UNCHANGED <<state, leaderId, winners>>
    /\ UNCHANGED <<term, votedFor, netVars, released, storeVars>>

\* send_heartbeat, called by the leader.
SendHeartbeat(n) ==
    /\ state[n] = "leader"
    /\ heartbeats' = heartbeats \cup {[from |-> n, term |-> term[n]]}
    /\ UNCHANGED <<coreVars, grants, refusals, entries, winners, released, storeVars>>

\* receive_heartbeat that is not older than the node's term.
ReceiveHeartbeat(n, h) ==
    /\ h.from # n /\ h.term >= term[n]
    /\ term' = [term EXCEPT ![n] = h.term]
    /\ leaderId' = [leaderId EXCEPT ![n] = h.from]
    /\ state' = [state EXCEPT ![n] = "follower"]
    /\ votedFor' = [votedFor EXCEPT ![n] = None]
    /\ released' = released \cup {[node |-> n, term |-> h.term]}
    /\ UNCHANGED <<votes, netVars, winners, storeVars>>

\* replicate, called by the leader for an event of its log.
Replicate(n) ==
    /\ state[n] = "leader" /\ log[n] # <<>>
    /\ entries' = entries \cup {[from |-> n, term |-> term[n]]}
    /\ UNCHANGED <<coreVars, grants, refusals, heartbeats, winners, released, storeVars>>

\* accept_entry: the message that replicate() returned has no "from", so the
\* leader is forgotten; the entry is not appended.
AcceptEntry(n, e) ==
    /\ e.from # n /\ e.term >= term[n]
    /\ leaderId' = [leaderId EXCEPT ![n] = None]
    /\ UNCHANGED <<state, term, votedFor, votes, netVars, winners, released, storeVars>>

\* DistributedDESC.submit: whoever knows a leader, or is one, appends to its
\* own log; any other starts an election and appends in the new term.
Submit(n) ==
    /\ EntriesOf(log) < MaxEvents
    /\ \/ /\ state[n] = "leader" \/ leaderId[n] # None
          /\ Log(n, term[n])
          /\ UNCHANGED <<coreVars, netVars, winners, released>>
       \/ /\ state[n] # "leader" /\ leaderId[n] = None
          /\ StartElection(n)
          /\ Log(n, term'[n])
    /\ UNCHANGED snapshots

Snapshot(n) ==
    /\ EntriesOf(snapshots) < MaxSnapshots
    /\ TakeSnapshot(n)
    /\ UNCHANGED <<coreVars, netVars, winners, released>>

Next ==
    \E n \in Node :
        \/ ElectionTimeout(n)
        \/ \E c \in Node, t \in Term : GrantVote(n, c, t) \/ RefuseVote(n, c, t)
        \/ \E m \in refusals : ReceiveRefusal(n, m)
        \/ \E g \in grants : ReceiveVote(n, g)
        \/ SendHeartbeat(n)
        \/ \E h \in heartbeats : ReceiveHeartbeat(n, h)
        \/ Replicate(n)
        \/ \E e \in entries : AcceptEntry(n, e)
        \/ Submit(n)
        \/ Snapshot(n)

Spec == Init /\ [][Next]_vars

-----------------------------------------------------------------------------
(***************************************************************************)
(* Properties                                                              *)
(***************************************************************************)

Sent == [from : Node, term : Term]

\* The state of every node, of the network and of the logs is well formed.
TypeOK ==
    /\ StoreTypeOK
    /\ state \in [Node -> {"follower", "candidate", "leader"}]
    /\ term \in [Node -> Term]
    /\ votedFor \in [Node -> Node \cup {None}]
    /\ leaderId \in [Node -> Node \cup {None}]
    /\ votes \in [Node -> SUBSET Node]
    /\ grants \subseteq [voter : Node, candidate : Node, term : Term]
    /\ refusals \subseteq [to : Node, term : Term]
    /\ heartbeats \subseteq Sent /\ entries \subseteq Sent
    /\ winners \subseteq [node : Node, term : Term, by : SUBSET Node]
    /\ released \subseteq [node : Node, term : Term]

Voted(v, c, t) == [voter |-> v, candidate |-> c, term |-> t] \in grants

\* "Raft-like consensus": as long as no heartbeat has cleared a voted_for, no
\* two nodes are elected in the same term.
OneLeaderPerTerm ==
    released = {} => \A a, b \in winners : a.term = b.term => a.node = b.node

\* Two nodes are elected in one term only through a voter that both of them
\* counted, and for which a heartbeat of that term had cleared voted_for or of
\* which one of them counted a vote of an earlier term and had none of this one:
\* through concurrent candidates, messages repeated, reordered and lost, and
\* nodes that vote, follow and stand again (receive_vote_response,
\* receive_heartbeat, start_election).
SecondLeaderHasCause ==
    \A a, b \in winners : a.term = b.term /\ a.node # b.node =>
        \E v \in a.by \cap b.by :
            \/ [node |-> v, term |-> a.term] \in released
            \/ \E w \in {a, b} :
                 /\ ~ Voted(v, w.node, w.term)
                 /\ \E u \in Term : u < w.term /\ Voted(v, w.node, u)

\* A node is leader only in a term in which it was elected, and whoever a node
\* takes for the leader was elected, in a term that is not ahead of its own.
LeadersWon ==
    \A n \in Node :
        /\ state[n] = "leader" => \E w \in winners : w.node = n /\ w.term = term[n]
        /\ leaderId[n] # None =>
             \E w \in winners : w.node = leaderId[n] /\ w.term <= term[n]

\* A leader gives up leading only for a newer term or for another node that was
\* elected in its own term, which it then follows (receive_heartbeat,
\* receive_vote_response, start_election).
DeposedForCause ==
    [][\A n \in Node : state[n] = "leader" /\ state'[n] # "leader" =>
         \/ term'[n] > term[n]
         \/ \E w \in winners :
              w.term = term[n] /\ w.node # n /\ leaderId'[n] = w.node]_vars

\* The terms in a log never go down, and the log is never ahead of its node:
\* heartbeats, votes, refusals and elections only ever raise a node's term.
LogTermsOrdered ==
    \A n \in Node : \A i \in DOMAIN log[n] :
        /\ log[n][i] <= term[n]
        /\ \A j \in 1 .. i : log[n][j] <= log[n][i]

\* What an election promises: a leader was elected, alone in its term unless a
\* vote was late or given twice (ConsensusCore).
ElectionsHold == TypeOK /\ LeadersWon /\ SecondLeaderHasCause

\* What a log promises: its terms are in order and a replay of it misses nothing
\* (DistributedDESC.submit and snapshot, EventStore.rebuild_state).
LogsHold == LogTermsOrdered /\ ReplaysAgree
=============================================================================
