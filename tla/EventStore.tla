----------------------------- MODULE EventStore -----------------------------
(***************************************************************************)
(* The event log of every node and its replay (EventStore in               *)
(* runtime/event_sourcing.py, ReplayEngine in runtime/consensus_replay.py).*)
(*                                                                         *)
(* An event is represented by its term: its index is its place in the log, *)
(* counted from 0 as in the code.  The state a projection computes is      *)
(* represented by the set of indexes it has projected, so two states are   *)
(* the same when the same events went into them.                           *)
(***************************************************************************)
EXTENDS Naturals, Sequences

CONSTANT Node

VARIABLES
    log,        \* EventStore._log, per node
    snapshots   \* EventStore._snapshots, per node: index -> state

storeVars == <<log, snapshots>>

Indexes(n) == {i - 1 : i \in DOMAIN log[n]}

StoreInit ==
    /\ log = [n \in Node |-> <<>>]
    /\ snapshots = [n \in Node |-> <<>>]

Log(n, term) == log' = [log EXCEPT ![n] = Append(@, term)]

\* rebuild_state: the snapshot of that very index, or everything replayed from
\* the start (the range behind a snapshot is empty).
RebuildState(n, until) ==
    IF until \in DOMAIN snapshots[n]
    THEN snapshots[n][until]
    ELSE {i \in Indexes(n) : i <= until}

\* Mutant of LastIndex: the index of the event to come.
LastIndexNext(n) == Len(log[n])

\* Index a snapshot is stored under; an empty log gives 0.
LastIndex(n) == IF log[n] = <<>> THEN 0 ELSE Len(log[n]) - 1

\* DistributedDESC.snapshot with the state replayed up to now.
TakeSnapshot(n) ==
    /\ LET last == LastIndex(n) IN
         snapshots' = [snapshots EXCEPT ![n] =
             [i \in DOMAIN @ \cup {last} |->
                 IF i = last THEN RebuildState(n, last) ELSE @[i]]]
    /\ UNCHANGED log

-----------------------------------------------------------------------------

StoreTypeOK ==
    /\ log \in [Node -> Seq(Nat)]
    /\ \A n \in Node : \A i \in DOMAIN snapshots[n] : i \in Nat /\ snapshots[n][i] \subseteq Indexes(n)

\* Replaying to an index gives the state of all events up to it, whether or
\* not snapshots were taken before, between or since: a snapshot is only a
\* shortcut.  Index 0 is left out: a snapshot of an empty log is stored there
\* and hides the first event for good.
ReplaysAgree ==
    \A n \in Node : \A i \in Indexes(n) \ {0} : RebuildState(n, i) = 0 .. i

=============================================================================
