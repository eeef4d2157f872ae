---------------------------- MODULE AgentsProofs ----------------------------
(***************************************************************************)
(* What is proved of the programs that agents work in, each of them by     *)
(* itself: the approval gateway, the router, the agent loop, the DevOps    *)
(* agent's patches, the file of episodes, the missions and the tiered      *)
(* memory.                                                                 *)
(***************************************************************************)
EXTENDS Autonomy, AgentLoop, Routing, Gateway, MemoryHierarchy, CollectionLemmas

(***************************************************************************)
(* The approval gateway: no plan is executed without the user's word, for  *)
(* any commands, any length of a task and any number of plans, whatever    *)
(* approve and deny are called with. The invariant adds to ConsentHolds    *)
(* that action ids are handed out in order, so that nothing was logged on  *)
(* a new one, and that a call which has met an error is stopped.           *)
(***************************************************************************)

Results == Seq([command : Commands, status : {"blocked", "executed", "error"}])
Entry == [id : Nat, state : {"approved", "edited", "denied"}, edit : SUBSET Edits]
         \cup [id : Nat, state : {"ran"}, edit : SUBSET Edits, done : Nat, results : Results]

GatewayTypes ==
  /\ issued \in Nat /\ DOMAIN pending \subseteq 1 .. issued
  /\ journal \in Seq(Entry)
  /\ call \in [id : Nat, steps : Seq(Commands), results : Results, stopped : BOOLEAN]

\* An id in the log was handed out or made up, and without an id there is no call.
IdsIssued ==
  /\ \A i \in DOMAIN journal : journal[i].id \in 0 .. issued
  /\ call.id = 0 => call = NoCall

\* A call that is not stopped has met no error.
ErrorStops == ~call.stopped => \A i \in DOMAIN call.results : call.results[i].status # "error"

ConsentInv == GatewayTypes /\ IdsIssued /\ ErrorStops /\ ConsentHolds

-----------------------------------------------------------------------------
\* A task is a sequence of commands.
LEMMA TasksAreSequences == Tasks \subseteq Seq(Commands)
  BY GatewayAssumption DEF Tasks

\* What an execution reports counts as a number.
LEMMA CountIsNat ==
  ASSUME NEW r \in Results
  PROVE  ExecutedCount(r) \in Nat
  <1> DEFINE ran == {i \in DOMAIN r : r[i].status = "executed"}
             k == Len(r)
  <1>1. ran \in SUBSET (1 .. k) /\ k \in Nat
    BY DEF Results
  <1>2. ExecutedCount(r) = Cardinality(ran)
    BY DEF ExecutedCount
  <1> HIDE DEF ran, k
  <1> QED
    BY <1>1, <1>2, CountNumbers

\* A first word stays one, whatever is logged behind it.
LEMMA WordKept ==
  ASSUME journal \in Seq(Entry), NEW e \in Entry, journal' = Append(journal, e),
         NEW k, NEW id, FirstWord(k, id)
  PROVE  /\ k \in DOMAIN journal' /\ journal'[k] = journal[k] /\ journal'[k].id = id
         /\ journal'[k].state \in {"approved", "edited"}
         /\ \A h \in DOMAIN journal' : h < k => journal'[h].id # id
  <1>1. k \in DOMAIN journal /\ k \in 1 .. Len(journal) /\ Len(journal) \in Nat
    BY DEF FirstWord
  <1>2. /\ DOMAIN journal' = 1 .. Len(journal) + 1
        /\ \A h \in DOMAIN journal : h \in DOMAIN journal' /\ journal'[h] = journal[h]
    BY AppendedTo
  <1>3. ASSUME NEW h \in DOMAIN journal', h < k PROVE h \in DOMAIN journal
    BY <1>1, <1>2, <1>3
  <1> QED
    BY <1>1, <1>2, <1>3 DEF FirstWord

\* What was run before is still told right when something is logged.
LEMMA RunsKept ==
  ASSUME ConsentInv, NEW e \in Entry, journal' = Append(journal, e), NEW i \in Runs
  PROVE  /\ i \in DOMAIN journal' /\ journal'[i] = journal[i]
         /\ FirstWord(i - 1, journal[i].id)'
         /\ StoppedAtError(journal[i].results)'
  <1>1. journal \in Seq(Entry) /\ i \in DOMAIN journal
    BY DEF ConsentInv, GatewayTypes, Runs
  <1>2. i \in DOMAIN journal' /\ journal'[i] = journal[i]
    BY <1>1, AppendedTo
  <1>3. FirstWord(i - 1, journal[i].id) /\ StoppedAtError(journal[i].results)
    BY DEF ConsentInv, ConsentHolds, RanAsDecided
  <1>4. FirstWord(i - 1, journal[i].id)'
    BY <1>1, <1>2, <1>3, WordKept DEF FirstWord
  <1>5. StoppedAtError(journal[i].results)'
    BY <1>2, <1>3 DEF StoppedAtError
  <1> QED
    BY <1>2, <1>4, <1>5

\* A decision is logged, and the plan it is on leaves the table.
LEMMA DecisionLogged ==
  ASSUME ConsentInv, NEW e \in Entry, e.state # "ran", journal' = Append(journal, e),
         issued' \in {issued, issued + 1}, e.id \in 0 .. issued',
         DOMAIN pending' \subseteq DOMAIN pending \ {e.id}
  PROVE  /\ WaitingUndecided'
         /\ (\A i \in DOMAIN journal : journal[i].id \in 0 .. issued)'
         /\ issued' \in Nat /\ DOMAIN pending' \subseteq 1 .. issued' /\ journal' \in Seq(Entry)
         /\ (\A i \in Runs : FirstWord(i - 1, journal[i].id))'
         /\ (\A i \in Runs : StoppedAtError(journal[i].results))'
  <1>1. /\ journal \in Seq(Entry) /\ issued \in Nat /\ DOMAIN pending \subseteq 1 .. issued
        /\ \A i \in DOMAIN journal : journal[i].id \in 0 .. issued
    BY DEF ConsentInv, GatewayTypes, IdsIssued
  <1>2. /\ journal' \in Seq(Entry) /\ DOMAIN journal' = 1 .. Len(journal) + 1
        /\ \A i \in DOMAIN journal' : (i \in DOMAIN journal /\ journal'[i] = journal[i])
                                      \/ (i = Len(journal) + 1 /\ journal'[i] = e)
    BY <1>1, AppendedTo
  <1>3. issued' \in Nat /\ DOMAIN pending' \subseteq 1 .. issued'
    BY <1>1
  <1>4. (\A i \in DOMAIN journal : journal[i].id \in 0 .. issued)'
    BY <1>1, <1>2
  <1>5. WaitingUndecided'
    BY <1>1, <1>2 DEF ConsentInv, ConsentHolds, WaitingUndecided, Decisions, Runs
  <1>6. ASSUME NEW i \in Runs'
        PROVE  i \in Runs
    BY <1>2, <1>6 DEF Runs
  <1> QED
    BY <1>2, <1>3, <1>4, <1>5, <1>6, RunsKept

\* Nothing of the gateway changes when the DevOps agent works.
LEMMA GatewayKept ==
  ASSUME ConsentInv, UNCHANGED gvars
  PROVE  ConsentInv'
  BY DEF gvars, ConsentInv, GatewayTypes, IdsIssued, ErrorStops, ConsentHolds, WaitingUndecided,
         FirstWord, RanAsDecided, Runs, Decisions, StoppedAtError

-----------------------------------------------------------------------------
LEMMA ConsentAtFirst == GatewayInit => ConsentInv
  <1> SUFFICES ASSUME GatewayInit PROVE ConsentInv
    OBVIOUS
  <1>1. DOMAIN pending = {} /\ DOMAIN journal = {} /\ journal \in Seq(Entry)
    BY DEF GatewayInit
  <1>2. NoCall \in [id : Nat, steps : Seq(Commands), results : Results, stopped : BOOLEAN]
        /\ DOMAIN NoCall.results = {}
    BY DEF NoCall, Results
  <1> QED
    BY <1>1, <1>2 DEF GatewayInit, ConsentInv, GatewayTypes, IdsIssued, ErrorStops, ConsentHolds,
                      WaitingUndecided, Decisions, RanAsDecided, StoppedAtError, Runs

\* A plan is put into the table.
LEMMA PlanKeeps == ConsentInv /\ CmdPlan => ConsentInv'
  <1> SUFFICES ASSUME ConsentInv, CmdPlan PROVE ConsentInv'
    OBVIOUS
  <1>0. /\ issued \in Nat /\ DOMAIN pending \subseteq 1 .. issued
        /\ \A i \in DOMAIN journal : journal[i].id \in 0 .. issued
    BY DEF ConsentInv, GatewayTypes, IdsIssued
  <1>1. issued' = issued + 1 /\ DOMAIN pending' = DOMAIN pending \cup {issued + 1}
        /\ journal' = journal /\ call' = call
    BY DEF CmdPlan, BuildPlan, WithPlan
  <1>2. GatewayTypes'
    BY <1>0, <1>1 DEF ConsentInv, GatewayTypes
  <1>3. IdsIssued' /\ ErrorStops'
    BY <1>0, <1>1 DEF ConsentInv, IdsIssued, ErrorStops
  <1>4. WaitingUndecided'
    <2>1. Decisions' = Decisions /\ \A i \in Decisions : journal[i].id # issued + 1
      BY <1>0, <1>1 DEF Decisions, Runs
    <2> QED
      BY <1>1, <2>1 DEF ConsentInv, ConsentHolds, WaitingUndecided
  <1>5. RanAsDecided' /\ StoppedAtError(call.results)' /\ (\A i \in Runs : StoppedAtError(journal[i].results))'
    BY <1>1 DEF ConsentInv, ConsentHolds, RanAsDecided, FirstWord, StoppedAtError, Runs
  <1> QED
    BY <1>2, <1>3, <1>4, <1>5 DEF ConsentInv, ConsentHolds

\* The table without a plan.
LEMMA TableCut ==
  ASSUME NEW table, NEW id, pending' = TableWithout(table, id)
  PROVE  DOMAIN pending' = DOMAIN table \ {id}
  BY DEF TableWithout

\* approve and deny log a decision, and take the plan out of whatever table.
LEMMA DecisionMade ==
  ASSUME NEW table, NEW id \in Nat,
         Deny(table, id) \/ \E edit \in NoEditOrOne : Approve(table, id, edit)
  PROVE  \E e \in Entry :
           /\ e.id = id /\ e.state # "ran" /\ journal' = Append(journal, e)
           /\ DOMAIN pending' = DOMAIN table \ {id}
           /\ ~Deny(table, id) => e.state \in {"approved", "edited"}
  <1>1. CASE Deny(table, id)
    <2> DEFINE e == [id |-> id, state |-> "denied", edit |-> {}]
    <2>1. e \in Entry /\ e.id = id /\ e.state # "ran"
      BY DEF Entry
    <2>2. journal' = Append(journal, e)
      BY <1>1 DEF Deny, LogDecision
    <2>3. DOMAIN pending' = DOMAIN table \ {id}
      BY <1>1, TableCut DEF Deny
    <2> HIDE DEF e
    <2> QED
      BY <1>1, <2>1, <2>2, <2>3
  <1>2. ASSUME NEW edit \in NoEditOrOne, Approve(table, id, edit)
        PROVE  \E e \in Entry :
                 /\ e.id = id /\ e.state \in {"approved", "edited"} /\ journal' = Append(journal, e)
                 /\ DOMAIN pending' = DOMAIN table \ {id}
    <2> DEFINE e == [id |-> id, state |-> IF edit = {} THEN "approved" ELSE "edited", edit |-> edit]
    <2>1. edit \in SUBSET Edits
      BY DEF NoEditOrOne
    <2>2. e \in Entry /\ e.id = id /\ e.state \in {"approved", "edited"}
      BY <2>1 DEF Entry
    <2>3. journal' = Append(journal, e)
      BY <1>2 DEF Approve, LogDecision
    <2>4. DOMAIN pending' = DOMAIN table \ {id}
      BY <1>2, TableCut DEF Approve
    <2> HIDE DEF e
    <2> QED
      BY <2>2, <2>3, <2>4
  <1> QED
    BY <1>1, <1>2

\* A task is run or turned down: the id is new, so the word on it is the first.
LEMMA RunKeeps == ConsentInv /\ CmdRun => ConsentInv'
  <1> SUFFICES ASSUME ConsentInv, CmdRun PROVE ConsentInv'
    OBVIOUS
  <1>0. /\ issued \in Nat /\ DOMAIN pending \subseteq 1 .. issued /\ journal \in Seq(Entry)
        /\ call = NoCall /\ issued' = issued + 1
        /\ \A i \in DOMAIN journal : journal[i].id \in 0 .. issued
    BY DEF ConsentInv, GatewayTypes, IdsIssued, CmdRun, BuildPlan, Free
  <1>1. PICK steps \in Tasks :
          \/ Deny(WithPlan(steps), issued + 1) /\ UNCHANGED call
          \/ /\ \E edit \in NoEditOrOne : Approve(WithPlan(steps), issued + 1, edit)
             /\ call' = [NoCall EXCEPT !.id = issued + 1, !.steps = steps]
    BY DEF CmdRun
  <1>2. DOMAIN WithPlan(steps) \ {issued + 1} \subseteq DOMAIN pending \ {issued + 1}
    BY DEF WithPlan
  <1>3. PICK e \in Entry :
          /\ e.id = issued + 1 /\ e.state # "ran" /\ journal' = Append(journal, e)
          /\ DOMAIN pending' = DOMAIN WithPlan(steps) \ {issued + 1}
          /\ ~Deny(WithPlan(steps), issued + 1) => e.state \in {"approved", "edited"}
    <2>1. issued + 1 \in Nat
      BY <1>0
    <2>2. Deny(WithPlan(steps), issued + 1)
          \/ \E edit \in NoEditOrOne : Approve(WithPlan(steps), issued + 1, edit)
      BY <1>1
    <2> QED
      BY <2>1, <2>2, DecisionMade
  <1>4. /\ WaitingUndecided'
        /\ (\A i \in DOMAIN journal : journal[i].id \in 0 .. issued)'
        /\ issued' \in Nat /\ DOMAIN pending' \subseteq 1 .. issued' /\ journal' \in Seq(Entry)
        /\ (\A i \in Runs : FirstWord(i - 1, journal[i].id))'
        /\ (\A i \in Runs : StoppedAtError(journal[i].results))'
    <2>1. e.id \in 0 .. issued' /\ DOMAIN pending' \subseteq DOMAIN pending \ {e.id}
      BY <1>0, <1>2, <1>3
    <2> QED
      BY <1>0, <1>3, <2>1, DecisionLogged
  <1>5. StoppedAtError(<<>>) /\ <<>> \in Results /\ steps \in Seq(Commands)
    BY TasksAreSequences DEF StoppedAtError, Results
  <1>6. CASE call' = call
    <2>1. GatewayTypes' /\ IdsIssued' /\ ErrorStops'
      BY <1>4, <1>6 DEF ConsentInv, GatewayTypes, IdsIssued, ErrorStops
    <2>2. RanAsDecided' /\ StoppedAtError(call.results)'
      BY <1>0, <1>4, <1>6 DEF ConsentInv, ConsentHolds, RanAsDecided, StoppedAtError
    <2> QED
      BY <1>4, <2>1, <2>2 DEF ConsentInv, ConsentHolds
  <1>7. CASE /\ ~Deny(WithPlan(steps), issued + 1)
             /\ call' = [NoCall EXCEPT !.id = issued + 1, !.steps = steps]
    <2>1. call' = [id |-> issued + 1, steps |-> steps, results |-> <<>>, stopped |-> FALSE]
      BY <1>7 DEF NoCall
    <2>2. call' \in [id : Nat, steps : Seq(Commands), results : Results, stopped : BOOLEAN]
      BY <1>0, <1>5, <2>1
    <2>3. call'.id # 0 /\ DOMAIN call'.results = {} /\ call'.id = issued + 1
      BY <1>0, <2>1
    <2>4. GatewayTypes' /\ IdsIssued' /\ ErrorStops'
      BY <1>4, <2>2, <2>3 DEF GatewayTypes, IdsIssued, ErrorStops
    <2>5. /\ Len(journal') = Len(journal) + 1 /\ DOMAIN journal' = 1 .. Len(journal) + 1
          /\ journal'[Len(journal) + 1] = e /\ Len(journal) \in Nat
          /\ \A h \in DOMAIN journal : journal'[h] = journal[h]
      BY <1>0, <1>3, AppendedTo
    <2>6. \A h \in DOMAIN journal' : h < Len(journal') => h \in DOMAIN journal /\ journal'[h].id # issued + 1
      BY <1>0, <2>5
    <2>7. FirstWord(Len(journal), call.id)'
      BY <1>3, <1>7, <2>3, <2>5, <2>6 DEF FirstWord
    <2>8. RanAsDecided' /\ StoppedAtError(call.results)'
      BY <1>4, <1>5, <2>1, <2>7 DEF RanAsDecided, StoppedAtError
    <2> QED
      BY <1>4, <2>4, <2>8 DEF ConsentInv, ConsentHolds
  <1>8. Deny(WithPlan(steps), issued + 1) => ~\E edit \in NoEditOrOne : Approve(WithPlan(steps), issued + 1, edit)
    <2>1. ASSUME Deny(WithPlan(steps), issued + 1), NEW edit \in NoEditOrOne,
                 Approve(WithPlan(steps), issued + 1, edit)
          PROVE  FALSE
      <3> DEFINE state == IF edit = {} THEN "approved" ELSE "edited"
                 d == [id |-> issued + 1, state |-> "denied", edit |-> {}]
                 a == [id |-> issued + 1, state |-> state, edit |-> edit]
      <3>1. journal' = Append(journal, d) /\ journal' = Append(journal, a)
        BY <2>1 DEF Deny, Approve, LogDecision
      <3>2. d \in Entry /\ a \in Entry /\ d.state # a.state
        BY <1>0 DEF Entry, NoEditOrOne
      <3> HIDE DEF d, a
      <3>3. Append(journal, d)[Len(journal) + 1] = d
        BY <1>0, <3>2, AppendedTo
      <3>4. Append(journal, a)[Len(journal) + 1] = a
        BY <1>0, <3>2, AppendedTo
      <3>5. Append(journal, d) = Append(journal, a)
        BY <3>1
      <3>6. d = a
        BY <3>3, <3>4, <3>5, Zenon
      <3> QED
        BY <3>2, <3>6
    <2> QED
      BY <2>1
  <1> QED
    BY <1>1, <1>6, <1>7, <1>8

\* A client decides, on a plan that waits or on none.
LEMMA DecideKeeps == ConsentInv /\ Decide => ConsentInv'
  <1> SUFFICES ASSUME ConsentInv, Decide PROVE ConsentInv'
    OBVIOUS
  <1>0. call = NoCall /\ call' = call /\ issued' = issued /\ issued \in Nat
    BY DEF Decide, Free, ConsentInv, GatewayTypes
  <1>1. PICK id \in 0 .. issued :
          Deny(pending, id) \/ \E edit \in NoEditOrOne : Approve(pending, id, edit)
    BY DEF Decide
  <1>2. id \in Nat
    BY <1>0
  <1>3. PICK e \in Entry : /\ e.id = id /\ e.state # "ran" /\ journal' = Append(journal, e)
                           /\ DOMAIN pending' = DOMAIN pending \ {id}
    BY <1>1, <1>2, DecisionMade
  <1>4. /\ WaitingUndecided'
        /\ (\A i \in DOMAIN journal : journal[i].id \in 0 .. issued)'
        /\ issued' \in Nat /\ DOMAIN pending' \subseteq 1 .. issued' /\ journal' \in Seq(Entry)
        /\ (\A i \in Runs : FirstWord(i - 1, journal[i].id))'
        /\ (\A i \in Runs : StoppedAtError(journal[i].results))'
    BY <1>0, <1>1, <1>3, DecisionLogged
  <1>5. GatewayTypes' /\ IdsIssued' /\ ErrorStops'
    BY <1>0, <1>4 DEF ConsentInv, GatewayTypes, IdsIssued, ErrorStops
  <1>6. RanAsDecided' /\ StoppedAtError(call.results)'
    BY <1>0, <1>4 DEF ConsentInv, ConsentHolds, RanAsDecided, StoppedAtError
  <1> QED
    BY <1>4, <1>5, <1>6 DEF ConsentInv, ConsentHolds

\* A step is blocked, runs or raises.
LEMMA ExecuteKeeps == ConsentInv /\ ExecuteStep => ConsentInv'
  <1> SUFFICES ASSUME ConsentInv, ExecuteStep PROVE ConsentInv'
    OBVIOUS
  <1>0. call \in [id : Nat, steps : Seq(Commands), results : Results, stopped : BOOLEAN]
    BY DEF ConsentInv, GatewayTypes
  <1>1. Todo /\ pending' = pending /\ issued' = issued /\ journal' = journal
    BY DEF ExecuteStep, BlockStep, RunStep
  <1>2. call.id # 0 /\ ~call.stopped /\ Current \in Commands
    BY <1>0, <1>1 DEF Todo, Current, Results
  <1>3. PICK told \in {"blocked", "executed", "error"}, stop \in BOOLEAN :
          /\ call' = [call EXCEPT !.results = Append(@, [command |-> Current, status |-> told]), !.stopped = stop]
          /\ (told = "blocked") = ~Validate(Current)
          /\ told = "error" => stop
    BY DEF ExecuteStep, BlockStep, RunStep, Result
  <1> DEFINE r == [command |-> Current, status |-> told]
  <1>4. r \in [command : Commands, status : {"blocked", "executed", "error"}]
    BY <1>2
  <1>5. /\ call'.id = call.id /\ call'.steps = call.steps /\ call'.stopped = stop
        /\ call'.results = Append(call.results, r)
        /\ call' \in [id : Nat, steps : Seq(Commands), results : Results, stopped : BOOLEAN]
    <2>1. Append(call.results, r) \in Results
      BY <1>0, <1>4 DEF Results
    <2>2. call' = [call EXCEPT !.results = Append(call.results, r), !.stopped = stop]
      BY <1>3
    <2> HIDE DEF r
    <2> QED
      BY <1>0, <2>1, <2>2
  <1>6. GatewayTypes' /\ IdsIssued'
    BY <1>0, <1>1, <1>2, <1>5 DEF ConsentInv, GatewayTypes, IdsIssued
  <1>7. \A i \in DOMAIN call.results : call.results[i].status # "error"
    BY <1>2 DEF ConsentInv, ErrorStops
  <1>8. StoppedAtError(call.results)
    BY DEF ConsentInv, ConsentHolds
  <1>9. r.command = Current /\ r.status = told
    OBVIOUS
  <1>10. call.results \in Seq([command : Commands, status : {"blocked", "executed", "error"}])
    BY <1>0 DEF Results
  <1> HIDE DEF r
  <1>11. ErrorStops'
    BY <1>3, <1>4, <1>5, <1>7, <1>9, <1>10, AppendedTo DEF ErrorStops
  <1>12. StoppedAtError(call.results)'
    BY <1>3, <1>4, <1>5, <1>7, <1>8, <1>9, <1>10, AppendedTo DEF StoppedAtError
  <1>13. WaitingUndecided' /\ (\A i \in Runs : StoppedAtError(journal[i].results))'
    BY <1>1 DEF ConsentInv, ConsentHolds, WaitingUndecided, Decisions, Runs, StoppedAtError
  <1>14. RanAsDecided'
    BY <1>1, <1>2, <1>5 DEF ConsentInv, ConsentHolds, RanAsDecided, FirstWord, Runs, NoCall
  <1> QED
    BY <1>6, <1>11, <1>12, <1>13, <1>14 DEF ConsentInv, ConsentHolds

\* What was run is logged, right behind the approval.
LEMMA LogKeeps == ConsentInv /\ LogExecution => ConsentInv'
  <1> SUFFICES ASSUME ConsentInv, LogExecution PROVE ConsentInv'
    OBVIOUS
  <1>0. /\ issued \in Nat /\ DOMAIN pending \subseteq 1 .. issued /\ journal \in Seq(Entry)
        /\ call \in [id : Nat, steps : Seq(Commands), results : Results, stopped : BOOLEAN]
        /\ \A i \in DOMAIN journal : journal[i].id \in 0 .. issued
    BY DEF ConsentInv, GatewayTypes, IdsIssued
  <1> DEFINE e == [id |-> call.id, state |-> "ran", edit |-> {},
                   done |-> ExecutedCount(call.results), results |-> call.results]
  <1>1. /\ journal' = Append(journal, e) /\ call' = NoCall /\ call.id # 0
        /\ pending' = pending /\ issued' = issued
    BY DEF LogExecution
  <1>2. e \in Entry
    BY <1>0, CountIsNat DEF Entry
  <1>3. e.id = call.id /\ e.state = "ran" /\ e.results = call.results
    OBVIOUS
  <1> HIDE DEF e
  <1>4. FirstWord(Len(journal), call.id)
    BY <1>1 DEF ConsentInv, ConsentHolds, RanAsDecided, NoCall
  <1>5. /\ journal' \in Seq(Entry) /\ DOMAIN journal' = 1 .. Len(journal) + 1 /\ Len(journal) \in Nat
        /\ journal'[Len(journal) + 1] = e
        /\ \A i \in DOMAIN journal' : (i \in DOMAIN journal /\ journal'[i] = journal[i])
                                      \/ (i = Len(journal) + 1 /\ journal'[i] = e)
    BY <1>0, <1>1, <1>2, AppendedTo
  <1>6. GatewayTypes'
    BY <1>0, <1>1, <1>5 DEF GatewayTypes, NoCall, Results
  <1>7. e.id \in 0 .. issued
    BY <1>0, <1>3, <1>4 DEF FirstWord
  <1>8. IdsIssued' /\ ErrorStops'
    BY <1>0, <1>1, <1>5, <1>7 DEF IdsIssued, ErrorStops, NoCall
  <1>9. WaitingUndecided'
    BY <1>1, <1>3, <1>5 DEF ConsentInv, ConsentHolds, WaitingUndecided, Decisions, Runs
  <1>10. ASSUME NEW i \in Runs'
         PROVE  FirstWord(i - 1, journal[i].id)' /\ StoppedAtError(journal[i].results)'
    <2>1. CASE i = Len(journal) + 1
      <3>1. journal'[i] = e /\ i - 1 = Len(journal)
        BY <1>5, <2>1
      <3>2. FirstWord(i - 1, journal[i].id)'
        BY <1>0, <1>1, <1>2, <1>3, <1>4, <3>1, WordKept DEF FirstWord
      <3>3. StoppedAtError(journal[i].results)'
        BY <1>3, <3>1 DEF ConsentInv, ConsentHolds, StoppedAtError
      <3> QED
        BY <3>2, <3>3
    <2>2. CASE i \in DOMAIN journal /\ journal'[i] = journal[i]
      <3>1. i \in Runs
        BY <1>10, <2>2 DEF Runs
      <3> QED
        BY <1>1, <1>2, <3>1, RunsKept
    <2> QED
      BY <1>5, <1>10, <2>1, <2>2 DEF Runs
  <1>11. RanAsDecided'
    <2>1. call' = NoCall
      BY <1>1
    <2> QED
      BY <1>10, <2>1, Zenon DEF RanAsDecided, NoCall
  <1>12. StoppedAtError(call.results)'
    BY <1>1 DEF StoppedAtError, NoCall
  <1> QED
    BY <1>6, <1>8, <1>9, <1>10, <1>11, <1>12, Zenon DEF ConsentInv, ConsentHolds

LEMMA ConsentStep == ConsentInv /\ [GatewayNext]_<<gvars, devops>> => ConsentInv'
  <1>1. ConsentInv /\ (CmdFix \/ FixStep \/ FixEnds \/ UNCHANGED <<gvars, devops>>) => ConsentInv'
    BY GatewayKept DEF CmdFix, FixStep, FixEnds
  <1> QED
    BY <1>1, PlanKeeps, RunKeeps, DecideKeeps, ExecuteKeeps, LogKeeps DEF GatewayNext

\* Whatever is planned, approved, edited or denied, with the id of a plan or with any
\* other, and however the steps end: no plan that waits was decided, what runs is what was
\* approved right before and never denied, and nothing runs behind an error or against
\* validate (user_gateway.py, secure_execution_engine.py).
THEOREM AlwaysConsented == GatewaySpec => []ConsentHolds
  <1>1. ConsentInv => ConsentHolds
    BY DEF ConsentInv
  <1> QED
    BY <1>1, ConsentAtFirst, ConsentStep, PTL DEF GatewaySpec

-----------------------------------------------------------------------------
(***************************************************************************)
(* The router.  From _build_plan() on, what the plan allows was possible   *)
(* for its mode on a reading of this call: every reading is remembered and *)
(* a mode is only ever given up for one that the newest reading allows.    *)
(***************************************************************************)

BeingBuilt == route.pc \in {"degrade", "reduce", "suggest", "fallback", "planned"}

ModeWasPossible ==
  BeingBuilt /\ route.gpuAllowed /\ route.mode # "TOOL"
    => \E r \in reading : GpuAllowed(route.mode, r)

\* The fields of the record, so far as the invariant reads them.
RouteFields ==
  /\ route = [pc |-> route.pc, mode |-> route.mode, gpuPressure |-> route.gpuPressure,
              memPressure |-> route.memPressure, calls |-> route.calls,
              decision |-> route.decision, gpuAllowed |-> route.gpuAllowed,
              memAllowed |-> route.memAllowed, last |-> route.last]
  /\ route.mode \in ModesOfPlan

RouteInv == RouteFields /\ DegradedFits /\ ModeWasPossible

LEMMA RouteAtFirst == RoutingInit => RouteInv
  BY DEF RoutingInit, NoRoute, RouteInv, RouteFields, DegradedFits, ModeWasPossible, BeingBuilt,
         Planned, ModesOfPlan

\* A step that leaves the plan alone may only add readings.
LEMMA RouteKept ==
  ASSUME RouteInv, route' = route, reading \subseteq reading'
  PROVE  RouteInv'
  BY DEF RouteInv, RouteFields, DegradedFits, ModeWasPossible, BeingBuilt, Planned

\* What the call has just read is among its readings.
LEMMA ReadingKept ==
  ASSUME Read
  PROVE  GetStatus \in reading' /\ reading \subseteq reading'
  BY DEF Read

LEMMA NewCallRouted == RouteInv /\ (LlmClassify \/ FallbackClassify) => RouteInv'
  <1> SUFFICES ASSUME LlmClassify \/ FallbackClassify PROVE RouteInv'
    OBVIOUS
  <1>1. route'.pc = "evaluate" /\ RouteFields'
    BY DEF LlmClassify, FallbackClassify, NoRoute, RouteFields
  <1> QED
    BY <1>1 DEF RouteInv, DegradedFits, ModeWasPossible, BeingBuilt, Planned

LEMMA BuildingRouted == RouteInv /\ (Evaluate \/ PlanOf \/ BadMode) => RouteInv'
  <1> SUFFICES ASSUME RouteInv, Evaluate \/ PlanOf \/ BadMode PROVE RouteInv'
    OBVIOUS
  <1>1. CASE Evaluate \/ BadMode
    <2>1. route'.pc \in {"build", "raised"} /\ RouteFields'
      BY <1>1 DEF Evaluate, BadMode, RouteInv, RouteFields
    <2> QED
      BY <2>1 DEF RouteInv, DegradedFits, ModeWasPossible, BeingBuilt, Planned
  <1>2. CASE PlanOf
    <2>1. /\ RouteFields' /\ route'.mode = route.mode /\ route'.decision = route.decision
          /\ route'.gpuAllowed = GpuAllowed(route.mode, GetStatus)
          /\ route'.pc = IF route.decision = "DEGRADE" THEN "degrade" ELSE "planned"
      BY <1>2 DEF PlanOf, RouteInv, RouteFields
    <2>2. route.mode # "TOOL" => GetStatus \in reading'
      BY <1>2, ReadingKept DEF PlanOf
    <2> QED
      BY <2>1, <2>2 DEF RouteInv, DegradedFits, ModeWasPossible, BeingBuilt, Planned
  <1> QED
    BY <1>1, <1>2

\* Whatever suggest_downgrade() and _apply_degradation() make of the mode is
\* the mode of before, or one that the newest reading allows.
LEMMA DegradingRouted ==
  RouteInv /\ (SuggestSwarm \/ Reduce \/ Suggest \/ FallBack) => RouteInv'
  <1> SUFFICES ASSUME RouteInv, SuggestSwarm \/ Reduce \/ Suggest \/ FallBack PROVE RouteInv'
    OBVIOUS
  <1>1. /\ GetStatus \in reading' /\ reading \subseteq reading'
        /\ BeingBuilt
        /\ route'.last = GetStatus /\ route'.gpuAllowed = route.gpuAllowed
        /\ RouteFields'
    BY ReadingKept DEF SuggestSwarm, Reduce, Suggest, FallBack, BeingBuilt, RouteInv, RouteFields,
       Downgrade, ModesOfPlan
  <1>2. \/ route'.mode \in {route.mode, "TOOL"}
        \/ route'.mode = "SINGLE" /\ CanRunLlm(GetStatus)
    BY DEF SuggestSwarm, Reduce, Suggest, FallBack, Downgrade, RouteInv, RouteFields
  <1>3. route'.pc = "planned" /\ route'.mode \in {"SINGLE", "SWARM"} => CanRunLlm(GetStatus)
    BY DEF SuggestSwarm, Reduce, Suggest, FallBack, Downgrade, RouteInv, RouteFields
  <1>4. DegradedFits'
    BY <1>1, <1>3 DEF DegradedFits, Planned, CanRunLlm, IsOverheating
  <1>5. ModeWasPossible'
    BY <1>1, <1>2 DEF ModeWasPossible, GpuAllowed, RouteInv, CanRunLlm, CanRunSwarm, IsOverheating
  <1> QED
    BY <1>1, <1>4, <1>5 DEF RouteInv

LEMMA RouteStep == RouteInv /\ [RoutingNext]_rvars => RouteInv'
  <1> SUFFICES ASSUME RouteInv, [RoutingNext]_rvars PROVE RouteInv'
    OBVIOUS
  <1>1. CASE GpuChanges \/ CacheExpires \/ RecordLlmCall \/ UNCHANGED rvars
    BY <1>1, RouteKept DEF GpuChanges, CacheExpires, RecordLlmCall, rvars
  <1> QED
    BY <1>1, NewCallRouted, BuildingRouted, DegradingRouted DEF RoutingNext

\* However the GPU changes and the cache expires between the readings of one
\* call of route(), its plan asks for nothing that the readings rule out
\* (control_plane.py:385, gpu_control.py:273).
THEOREM PlanAlwaysFits == RoutingSpec => []PlanFits
  <1>1. RouteInv => PlanFits
    BY DEF RouteInv, PlanFits, AllowedWasPossible, ModeWasPossible, BeingBuilt, Planned
  <1> QED
    BY <1>1, RouteAtFirst, RouteStep, PTL DEF RoutingSpec

-----------------------------------------------------------------------------
(***************************************************************************)
(* The agent loop.  The invariant says where an error can be seen (behind  *)
(* the reviewer only, at the step that failed), that what is due for       *)
(* review has been run, and that a task at the aggregator is over: so the  *)
(* iteration counter is never counted up.                                  *)
(***************************************************************************)

AgentFields ==
  /\ agent = [plan |-> agent.plan, step |-> agent.step, verdict |-> agent.verdict,
              error |-> agent.error, iteration |-> agent.iteration, max |-> agent.max,
              final |-> agent.final]
  /\ agent.plan \in Seq(PlanStep)
  /\ agent.step \in 0 .. Len(agent.plan)
  /\ agent.error \in BOOLEAN /\ agent.max \in Nat

InPass == {"planner", "executor", "reviewer", "aggregator"}

\* Whatever has not been tried in a pass has no result.
StepWasRun(i) == i \in tried /\ (agent.plan[i].result \/ agent.plan[i].error)

ErrorIsAtStep ==
  agent.error =>
    /\ at \in {"aggregator", "returned", "raised"}
    /\ agent.step < Len(agent.plan) /\ agent.plan[agent.step + 1].status = "failed"

LoopInv ==
  /\ AgentFields
  /\ agent.iteration = 0
  /\ at \in InPass => agent.max > 0 /\ agent.final = "none"
  /\ agent.final = "failed" => agent.error
  /\ ErrorIsAtStep
  /\ at = "aggregator" => agent.error \/ Finished(agent)
  /\ at = "returned" => agent.error \/ Finished(agent) \/ agent.max = 0
  /\ at = "reviewer" /\ agent.step < Len(agent.plan) =>
       StepWasRun(agent.step + 1) /\ agent.plan[agent.step + 1].status # "done"
  /\ \A i \in 1 .. Len(agent.plan) : agent.plan[i].status = "done" <=> i <= agent.step
  /\ \A i \in 1 .. agent.step : StepWasRun(i)

LEMMA LoopAtFirst == AgentInit => LoopInv
  BY DEF AgentInit, NoState, LoopInv, AgentFields, InPass, ErrorIsAtStep, StepWasRun, Finished

LEMMA RunTaskKeeps == LoopInv /\ RunTask => LoopInv'
  <1> SUFFICES ASSUME RunTask PROVE LoopInv'
    OBVIOUS
  <1>1. PICK limit \in Limits : RunWithIterations([NoState EXCEPT !.max = limit], limit)
    BY DEF RunTask
  <1>2. limit \in Nat
    BY AgentAssumption
  <1>3. /\ agent'.plan = <<>> /\ agent'.step = 0 /\ ~agent'.error
        /\ agent'.error \in BOOLEAN
        /\ agent'.iteration = 0 /\ agent'.max = limit
        /\ agent' = [plan |-> agent'.plan, step |-> agent'.step, verdict |-> agent'.verdict,
              error |-> agent'.error, iteration |-> agent'.iteration, max |-> agent'.max,
              final |-> agent'.final]
        /\ IF limit = 0 THEN agent'.final = "cut" /\ at' = "returned"
           ELSE agent'.final = "none" /\ at' = "planner"
    BY <1>1 DEF RunWithIterations, NoState
  <1>4. Len(agent'.plan) = 0 /\ agent'.plan \in Seq(PlanStep)
    BY <1>3
  <1>5. AgentFields'
    BY <1>2, <1>3, <1>4 DEF AgentFields
  <1>6. ErrorIsAtStep'
    BY <1>3 DEF ErrorIsAtStep
  <1>7. 1 .. Len(agent'.plan) = {} /\ 1 .. agent'.step = {}
    BY <1>3, <1>4
  <1>8. at' \in InPass => agent'.max > 0 /\ agent'.final = "none"
    BY <1>2, <1>3 DEF InPass
  <1>9. at' \notin {"aggregator", "reviewer"} /\ (at' = "returned" => agent'.max = 0)
    BY <1>3
  <1>11. \A i \in {} : StepWasRun(i)'
    OBVIOUS
  <1>10. agent'.final # "failed" /\ agent'.iteration = 0
    BY <1>3
  <1> QED
    BY <1>5, <1>6, <1>7, <1>8, <1>9, <1>10, <1>11 DEF LoopInv

LEMMA PlannerKeeps == LoopInv /\ PlannerNode => LoopInv'
  <1> SUFFICES ASSUME LoopInv, PlannerNode PROVE LoopInv'
    OBVIOUS
  <1>1. at = "planner" /\ at' = "executor" /\ tried' = {}
    BY DEF PlannerNode, Node
  <1>2. PICK n \in 0 .. MaxPlan : \E tools \in [1 .. n -> BOOLEAN] :
          agent' = [agent EXCEPT !.plan = [i \in 1 .. n |-> NewStep(tools[i])], !.step = 0]
    BY DEF PlannerNode
  <1>3. PICK tools \in [1 .. n -> BOOLEAN] :
          agent' = [agent EXCEPT !.plan = [i \in 1 .. n |-> NewStep(tools[i])], !.step = 0]
    BY <1>2
  <1>4. n \in Nat
    BY AgentAssumption
  <1>5. ASSUME NEW i \in 1 .. n PROVE NewStep(tools[i]) \in PlanStep
    BY DEF NewStep, PlanStep, Statuses
  <1>6. [i \in 1 .. n |-> NewStep(tools[i])] \in Seq(PlanStep)
    BY <1>4, <1>5
  <1>7. /\ agent'.plan = [i \in 1 .. n |-> NewStep(tools[i])] /\ agent'.step = 0
        /\ agent'.error = agent.error /\ agent'.iteration = agent.iteration
        /\ agent'.max = agent.max /\ agent'.final = agent.final
        /\ agent' = [plan |-> agent'.plan, step |-> agent'.step, verdict |-> agent'.verdict,
              error |-> agent'.error, iteration |-> agent'.iteration, max |-> agent'.max,
              final |-> agent'.final]
    BY <1>3 DEF LoopInv, AgentFields
  <1>8. Len(agent'.plan) = n /\ \A i \in 1 .. n : agent'.plan[i].status = "pending"
    BY <1>4, <1>6, <1>7 DEF NewStep
  <1>9. ~agent.error
    BY <1>1 DEF LoopInv, ErrorIsAtStep
  <1> QED
    BY <1>1, <1>4, <1>6, <1>7, <1>8, <1>9
       DEF LoopInv, AgentFields, InPass, ErrorIsAtStep, StepWasRun

\* A step that was run has a result or an error, and is not done.
LEMMA RunGivesResult ==
  ASSUME NEW step \in PlanStep, NEW ok \in BOOLEAN
  PROVE  /\ ToolRun(step, ok) \in PlanStep
         /\ ToolRun(step, ok).result \/ ToolRun(step, ok).error
         /\ ToolRun(step, ok).status # "done"
  BY DEF ToolRun, PlanStep, Statuses

LEMMA ExecutorKeeps == LoopInv /\ ExecutorNode => LoopInv'
  <1> SUFFICES ASSUME LoopInv, ExecutorNode PROVE LoopInv'
    OBVIOUS
  <1>1. at = "executor" /\ at' = "reviewer" /\ ~agent.error
    BY DEF ExecutorNode, Node, LoopInv, ErrorIsAtStep
  <1>2. CASE Finished(agent)
    <2>1. UNCHANGED <<agent, tried>> /\ agent.step = Len(agent.plan)
      BY <1>2 DEF ExecutorNode, Finished, LoopInv, AgentFields
    <2> QED
      BY <1>1, <2>1 DEF LoopInv, AgentFields, InPass, ErrorIsAtStep, StepWasRun
  <1>3. CASE ~Finished(agent)
    <2> DEFINE k == agent.step + 1
    <2>1. /\ agent.plan \in Seq(PlanStep) /\ Len(agent.plan) \in Nat /\ agent.step \in Nat
          /\ k \in 1 .. Len(agent.plan)
      BY <1>3 DEF LoopInv, AgentFields, Finished
    <2>2. PICK ok \in BOOLEAN : agent' = [agent EXCEPT !.plan[k] = ToolRun(@, ok)]
      BY <1>3 DEF ExecutorNode
    <2>3. tried' = tried \cup {k}
      BY <1>3 DEF ExecutorNode
    <2> DEFINE new == ToolRun(agent.plan[k], ok)
    <2>4. agent.plan[k] \in PlanStep
      BY <2>1
    <2>5. new \in PlanStep /\ (new.result \/ new.error) /\ new.status # "done"
      BY <2>4, RunGivesResult
    <2>6. /\ agent'.plan = [agent.plan EXCEPT ![k] = new] /\ agent'.step = agent.step
          /\ agent'.error = agent.error /\ agent'.iteration = agent.iteration
          /\ agent'.max = agent.max /\ agent'.final = agent.final
          /\ agent' = [plan |-> agent'.plan, step |-> agent'.step, verdict |-> agent'.verdict,
              error |-> agent'.error, iteration |-> agent'.iteration, max |-> agent'.max,
              final |-> agent'.final]
      BY <2>2 DEF LoopInv, AgentFields
    <2> HIDE DEF new, k
    <2>7. /\ agent'.plan \in Seq(PlanStep) /\ Len(agent'.plan) = Len(agent.plan)
          /\ agent'.plan[k] = new
          /\ \A i \in 1 .. Len(agent.plan) : i # k => agent'.plan[i] = agent.plan[i]
      BY <2>1, <2>5, <2>6
    <2>8. \A i \in 1 .. Len(agent.plan) : agent'.plan[i].status = "done" <=> i <= agent.step
      BY <2>1, <2>5, <2>7 DEF LoopInv, k
    <2>9. \A i \in 1 .. agent.step : StepWasRun(i)'
      BY <2>1, <2>3, <2>7 DEF LoopInv, StepWasRun, k
    <2>10. StepWasRun(k)' /\ agent'.plan[k].status # "done"
      <3>1. k \in tried' /\ k' = k
        BY <2>3, <2>6 DEF k
      <3> QED
        BY <2>5, <2>7, <3>1 DEF StepWasRun
    <2> QED
      BY <1>1, <2>1, <2>6, <2>7, <2>8, <2>9, <2>10
         DEF LoopInv, AgentFields, InPass, ErrorIsAtStep, k
  <1> QED
    BY <1>2, <1>3

LEMMA ReviewerKeeps == LoopInv /\ ReviewerNode => LoopInv'
  <1> SUFFICES ASSUME LoopInv, ReviewerNode PROVE LoopInv'
    OBVIOUS
  <1>1. PICK verdict \in Reviews \ {"none"} :
          agent' = Reviewed(agent, verdict) /\ Node("reviewer", ShouldContinue(agent'))
    BY DEF ReviewerNode
  <1>2. at = "reviewer" /\ at' = ShouldContinue(agent') /\ tried' = tried /\ ~agent.error
    BY <1>1 DEF ReviewerNode, Node, LoopInv, ErrorIsAtStep
  <1>3. at' \in {"aggregator", "executor"} /\ agent.max > 0
    BY <1>2 DEF ShouldContinue, LoopInv, InPass
  <1>4. CASE Finished(agent)
    <2>1. agent' = [agent EXCEPT !.verdict = "approved"]
      BY <1>1, <1>4 DEF Reviewed
    <2>2. /\ agent'.plan = agent.plan /\ agent'.step = agent.step
          /\ agent'.error = agent.error /\ agent'.iteration = agent.iteration
          /\ agent'.max = agent.max /\ agent'.final = agent.final
          /\ agent' = [plan |-> agent'.plan, step |-> agent'.step, verdict |-> agent'.verdict,
              error |-> agent'.error, iteration |-> agent'.iteration, max |-> agent'.max,
              final |-> agent'.final]
      BY <2>1 DEF LoopInv, AgentFields
    <2>3. Finished(agent')
      BY <1>4, <2>2 DEF Finished
    <2> QED
      BY <1>2, <1>3, <2>2, <2>3 DEF LoopInv, AgentFields, InPass, ErrorIsAtStep, StepWasRun
  <1>5. CASE ~Finished(agent)
    <2> DEFINE k == agent.step + 1
    <2> DEFINE word == IF verdict = "approved" THEN "done"
                       ELSE IF verdict = "rejected" THEN "failed" ELSE "revision"
    <2> DEFINE new == [agent.plan[k] EXCEPT !.status = word]
    <2>1. /\ agent.plan \in Seq(PlanStep) /\ Len(agent.plan) \in Nat /\ agent.step \in Nat
          /\ k \in 1 .. Len(agent.plan) /\ agent.plan[k] \in PlanStep
      BY <1>5 DEF LoopInv, AgentFields, Finished
    <2>2. StepWasRun(k)
      BY <1>2, <2>1 DEF LoopInv
    <2>3. /\ new \in PlanStep /\ new.status = word
          /\ new.result = agent.plan[k].result /\ new.error = agent.plan[k].error
      BY <2>1 DEF PlanStep, Statuses
    <2>4. /\ agent'.plan = [agent.plan EXCEPT ![k] = new]
          /\ agent'.step = IF verdict = "approved" THEN k ELSE agent.step
          /\ agent'.error = (verdict = "rejected")
          /\ agent'.verdict = verdict
          /\ agent'.iteration = agent.iteration
          /\ agent'.max = agent.max /\ agent'.final = agent.final
          /\ agent' = [plan |-> agent'.plan, step |-> agent'.step, verdict |-> agent'.verdict,
              error |-> agent'.error, iteration |-> agent'.iteration, max |-> agent'.max,
              final |-> agent'.final]
      BY <1>1, <1>2, <1>5 DEF Reviewed, LoopInv, AgentFields
    <2> HIDE DEF new, k
    <2>5. /\ agent'.plan \in Seq(PlanStep) /\ Len(agent'.plan) = Len(agent.plan)
          /\ agent'.plan[k] = new
          /\ \A i \in 1 .. Len(agent.plan) : i # k => agent'.plan[i] = agent.plan[i]
      BY <2>1, <2>3, <2>4
    <2>6. AgentFields'
      <3>1. agent'.step \in 0 .. Len(agent'.plan)
        BY <2>1, <2>4, <2>5 DEF k
      <3>2. agent'.error \in BOOLEAN /\ agent'.max \in Nat
        BY <2>4 DEF LoopInv, AgentFields
      <3> QED
        BY <2>4, <2>5, <3>1, <3>2 DEF AgentFields
    <2>7. \A i \in 1 .. Len(agent.plan) : agent'.plan[i].status = "done" <=> i <= agent'.step
      BY <2>1, <2>3, <2>4, <2>5 DEF LoopInv, k
    <2>8. \A i \in 1 .. agent'.step : StepWasRun(i)'
      BY <1>2, <2>1, <2>2, <2>3, <2>4, <2>5 DEF LoopInv, StepWasRun, k
    <2>9. ErrorIsAtStep'
      <3>1. CASE verdict = "rejected"
        <4>1. agent'.error /\ at' = "aggregator"
          BY <1>2, <2>4, <3>1 DEF ShouldContinue
        <4>2. agent'.step = agent.step /\ agent'.plan[k].status = "failed"
          BY <2>3, <2>4, <2>5, <3>1
        <4> QED
          BY <2>1, <2>5, <4>1, <4>2 DEF ErrorIsAtStep, k
      <3>2. CASE verdict # "rejected"
        <4>1. ~agent'.error
          BY <2>4, <3>2
        <4> QED
          BY <4>1 DEF ErrorIsAtStep
      <3> QED
        BY <3>1, <3>2
    <2>10. at' = "aggregator" => agent'.error \/ Finished(agent')
      <3>1. agent'.verdict = "rejected" => agent'.error
        BY <2>4
      <3>2. ~(agent'.iteration >= agent'.max)
        BY <1>3, <2>4 DEF LoopInv, AgentFields
      <3> QED
        BY <1>2, <3>1, <3>2 DEF ShouldContinue
    <2> QED
      BY <1>2, <1>3, <2>4, <2>5, <2>6, <2>7, <2>8, <2>9, <2>10 DEF LoopInv, InPass
  <1> QED
    BY <1>4, <1>5

LEMMA AggregatorKeeps == LoopInv /\ AggregatorNode => LoopInv'
  <1> SUFFICES ASSUME LoopInv, AggregatorNode PROVE LoopInv'
    OBVIOUS
  <1> DEFINE state == [agent EXCEPT !.final = IF agent.error THEN "failed" ELSE "answer"]
  <1>1. agent.error \/ Finished(agent)
    BY DEF AggregatorNode, LoopInv
  <1>2. /\ state.error = agent.error /\ state.plan = agent.plan /\ state.step = agent.step
        /\ state.max = agent.max /\ state.iteration = agent.iteration
        /\ state.final = IF agent.error THEN "failed" ELSE "answer"
        /\ state = [plan |-> state.plan, step |-> state.step, verdict |-> state.verdict,
              error |-> state.error, iteration |-> state.iteration, max |-> state.max,
              final |-> state.final]
    BY DEF LoopInv, AgentFields
  <1>3. agent' = state /\ at' = "returned" /\ tried' = tried
    BY <1>1, <1>2 DEF AggregatorNode, Finished
  <1> HIDE DEF state
  <1> QED
    BY <1>1, <1>2, <1>3
       DEF LoopInv, AgentFields, InPass, ErrorIsAtStep, StepWasRun, Finished

LEMMA LoopStep == LoopInv /\ [AgentNext]_loopvars => LoopInv'
  <1> SUFFICES ASSUME LoopInv, [AgentNext]_loopvars PROVE LoopInv'
    OBVIOUS
  <1>1. CASE NodeRaises
    BY <1>1 DEF NodeRaises, LoopInv, AgentFields, InPass, ErrorIsAtStep, StepWasRun
  <1>2. CASE UNCHANGED loopvars
    BY <1>2 DEF loopvars, LoopInv, AgentFields, InPass, ErrorIsAtStep, StepWasRun, Finished
  <1> QED
    BY <1>1, <1>2, RunTaskKeeps, PlannerKeeps, ExecutorKeeps, ReviewerKeeps, AggregatorKeeps
       DEF AgentNext

\* For plans of any length and any limits: a task is never cut short, and its
\* answer comes from steps that were all run and approved in their order
\* (langgraph_core.py:374, :500).
THEOREM AgentAlwaysKeepsItsWord == AgentSpec => []AgentKeepsItsWord
  <1>1. LoopInv => AgentKeepsItsWord
    BY DEF LoopInv, AgentKeepsItsWord, PassIsFinal, AnswerIsReviewed, StepWasRun, ErrorIsAtStep
  <1> QED
    BY <1>1, LoopAtFirst, LoopStep, PTL DEF AgentSpec

-----------------------------------------------------------------------------
(***************************************************************************)
(* What the DevOps agent leaves in the repository, for missions of any     *)
(* length, over any number of restarts, beside the autonomous loop and in  *)
(* a tree that others edit. The invariant adds where a pass stands to what *)
(* is known of its patch: behind the generator it is an automatic one,     *)
(* behind the gate a safe one.                                             *)
(***************************************************************************)

OthersOrVetted == \A p \in tree \cup commits : p = Outside \/ Vetted(p)

PatchInv ==
  /\ stage \in {"gate", "apply", "commit"} => AutoApplicable(patch)
  /\ stage \in {"apply", "commit"} => patch.safe
  /\ OthersOrVetted

\* What a step of a pass may do to the repository.
PassStep ==
  stage # "off" /\ (tree' # tree \/ commits' # commits) =>
    Vetted(patch) /\ tree' \subseteq tree \cup {patch} /\ commits' \subseteq commits \cup tree

\* A pass of the agent, its end and its absence, and the edits of others between two passes.
LEMMA AgentKeepsPatch ==
  ASSUME PatchInv, DevOpsStep
  PROVE  PatchInv' /\ PassStep
  <1>1. CASE Analyze
    BY <1>1 DEF Analyze, PatchInv, OthersOrVetted, PassStep, Vetted, AutoApplicable
  <1>2. CASE Gate
    BY <1>2 DEF Gate, PatchInv, OthersOrVetted, PassStep, Vetted, AutoApplicable
  <1>3. CASE Apply
    <2>1. /\ stage = "apply" /\ patch' = patch /\ commits' = commits /\ stage' \in {"commit", "error"}
          /\ tree' = tree \/ tree' = tree \cup {patch}
      BY <1>3 DEF Apply
    <2>2. Vetted(patch)
      BY <2>1 DEF PatchInv, Vetted
    <2>3. \A p \in tree' \cup commits' : p \in tree \cup commits \/ p = patch
      BY <2>1
    <2>4. OthersOrVetted'
      BY <2>2, <2>3 DEF PatchInv, OthersOrVetted, Vetted, AutoApplicable
    <2>5. PassStep
      BY <2>1, <2>2 DEF PassStep
    <2> QED
      BY <2>1, <2>2, <2>4, <2>5 DEF PatchInv, Vetted, AutoApplicable
  <1>4. CASE Commit
    <2>1. /\ stage = "commit" /\ stage' = "applied" /\ tree' \subseteq tree
          /\ commits' \subseteq commits \cup tree
      BY <1>4 DEF Commit
    <2>2. OthersOrVetted'
      BY <2>1 DEF PatchInv, OthersOrVetted, Vetted, AutoApplicable
    <2>3. PassStep
      BY <2>1 DEF PassStep, PatchInv, Vetted
    <2> QED
      BY <2>1, <2>2, <2>3 DEF PatchInv
  <1> QED
    BY <1>1, <1>2, <1>3, <1>4 DEF DevOpsStep

LEMMA AwayKeepsPatch ==
  ASSUME PatchInv, stage' = "off", UNCHANGED <<tree, commits>>
  PROVE  PatchInv' /\ PassStep
  BY DEF PatchInv, OthersOrVetted, Vetted, AutoApplicable, PassStep

LEMMA IdleKeepsPatch ==
  ASSUME PatchInv, UNCHANGED devops
  PROVE  PatchInv' /\ PassStep
  BY DEF PatchInv, OthersOrVetted, Vetted, AutoApplicable, PassStep, devops

LEMMA OthersKeepPatch ==
  ASSUME PatchInv, OutsideEdits, stage = "off"
  PROVE  PatchInv' /\ PassStep
  <1>1. \A p \in tree' \cup commits' : p \in tree \cup commits \/ p = Outside
    BY DEF OutsideEdits
  <1>2. OthersOrVetted'
    BY <1>1 DEF PatchInv, OthersOrVetted, Vetted, AutoApplicable
  <1> QED
    BY <1>2 DEF PatchInv, PassStep, OutsideEdits

\* No pass is under way unless a graph of mode DEVOPS is: the agent is the graph's.
StageFits == stage # "off" => pc = "running" /\ graphs[ready[1]].mode = "DEVOPS"

LEMMA StageStep == StageFits /\ [Next]_vars => StageFits'
  <1> SUFFICES ASSUME StageFits, [Next]_vars PROVE StageFits'
    OBVIOUS
  <1>1. CASE NewMission \/ NextRound \/ StartGraph \/ Conclude
    BY <1>1 DEF NewMission, NextRound, StartGraph, Conclude, StageFits, devops
  <1>2. CASE AgentStep \/ OutsideStep
    BY <1>2 DEF AgentStep, OutsideStep, OutsideEdits, StageFits, mission
  <1>3. CASE FinishGraph \/ Restart
    BY <1>3 DEF FinishGraph, Restart, StageFits
  <1>4. CASE BeginCycle \/ PlanMission
    BY <1>4 DEF BeginCycle, PlanMission, StageFits, mvars, mission, devops
  <1>5. CASE UNCHANGED mvars \/ UNCHANGED vars
    BY <1>5 DEF StageFits, vars, mvars, mission, devops
  <1> QED
    BY <1>1, <1>2, <1>3, <1>4, <1>5 DEF Next, MissionsNext, Run, AutonomyNext

LEMMA PatchStep == StageFits /\ PatchInv /\ [Next]_vars => PatchInv' /\ PassStep
  <1> SUFFICES ASSUME StageFits, PatchInv, [Next]_vars PROVE PatchInv' /\ PassStep
    OBVIOUS
  <1>1. CASE NewMission \/ NextRound \/ StartGraph \/ Conclude
    BY <1>1, IdleKeepsPatch DEF NewMission, NextRound, StartGraph, Conclude
  <1>2. CASE AgentStep
    BY <1>2, AgentKeepsPatch DEF AgentStep
  <1>3. CASE FinishGraph \/ Restart
    BY <1>3, AwayKeepsPatch DEF FinishGraph, Restart
  <1>4. CASE OutsideStep
    <2>1. stage = "off" /\ OutsideEdits
      BY <1>4 DEF OutsideStep, StageFits
    <2> QED
      BY <2>1, OthersKeepPatch
  <1>5. CASE BeginCycle \/ PlanMission
    BY <1>5, IdleKeepsPatch DEF BeginCycle, PlanMission, mvars
  <1>6. CASE UNCHANGED mvars \/ UNCHANGED vars
    BY <1>6, IdleKeepsPatch DEF vars, mvars
  <1> QED
    BY <1>1, <1>2, <1>3, <1>4, <1>5, <1>6 DEF Next, MissionsNext, Run, AutonomyNext

\* CommitsAreVetted, for missions of any length and any edits of others: a pass changes the
\* repository only with a command in hand that is automatic and that the gate let through,
\* and commits nothing but what lay in the tree (devops_agent.py, line 128).
THEOREM AlwaysVetted == Spec => CommitsAreVetted
  <1>1. Init => StageFits /\ PatchInv
    BY DEF Init, MissionsInit, DevOpsInit, StageFits, PatchInv, OthersOrVetted
  <1>2. StageFits /\ PatchInv /\ [Next]_vars => (StageFits /\ PatchInv)'
    BY StageStep, PatchStep
  <1>3. StageFits /\ PatchInv /\ [Next]_vars =>
          [stage # "off" /\ (tree' # tree \/ commits' # commits) =>
             Vetted(patch) /\ tree' \subseteq tree \cup {patch} /\ commits' \subseteq commits \cup tree]_devops
    BY PatchStep DEF PassStep
  <1>4. PatchInv => \A p \in tree \cup commits : p = Outside \/ Vetted(p)
    BY DEF PatchInv, OthersOrVetted
  <1> QED
    BY <1>1, <1>2, <1>3, <1>4, PTL DEF Spec, CommitsAreVetted

-----------------------------------------------------------------------------
(***************************************************************************)
(* The file of episodes.  It has two writers, and what either of them      *)
(* swallows can cost the other one record, the last, and never more.       *)
(***************************************************************************)

Outcomes == {"success", "partial", "completed"}
EpisodeCounts == [success : Nat, partial : Nat, completed : Nat]

\* A record without its newline is one of those that are readable.
EpisodesInv ==
  /\ file \in EpisodeCounts /\ planned \in Nat /\ file.completed <= planned
  /\ tail \in {"ended", "cut"} \cup Outcomes
  /\ tail \in Outcomes => file[tail] > 0

OnlyTheLast ==
  \A o \in DOMAIN file : file'[o] < file[o] => tail = o /\ file'[o] = file[o] - 1 /\ torn'

\* One of the counts changes.
LEMMA CountChanged ==
  ASSUME file \in EpisodeCounts, NEW o \in Outcomes, NEW n \in Nat, file' = [file EXCEPT ![o] = n]
  PROVE  /\ file' \in EpisodeCounts /\ DOMAIN file = Outcomes
         /\ \A q \in Outcomes : file[q] \in Nat /\ file'[q] = IF q = o THEN n ELSE file[q]
  <1>1. /\ file.success \in Nat /\ file.partial \in Nat /\ file.completed \in Nat
        /\ DOMAIN file = Outcomes
    BY DEF EpisodeCounts, Outcomes
  <1>2. /\ \A q \in DOMAIN file : file'[q] = IF q = o THEN n ELSE file[q]
        /\ file' = [success |-> file'.success, partial |-> file'.partial, completed |-> file'.completed]
    BY <1>1 DEF EpisodeCounts, Outcomes
  <1>3. \A q \in Outcomes : file[q] \in Nat /\ file'[q] \in Nat
    BY <1>1, <1>2 DEF Outcomes
  <1>4. file'.success \in Nat /\ file'.partial \in Nat /\ file'.completed \in Nat
    BY <1>3 DEF Outcomes
  <1> QED
    BY <1>1, <1>2, <1>3, <1>4 DEF EpisodeCounts

\* An episode is stored, in part or not at all, and counted by the loop if it is the loop's.
LEMMA StoredEpisode ==
  ASSUME EpisodesInv, NEW o \in Outcomes, StoreEpisode(o), planned' \in Nat, planned <= planned',
         o = "completed" => planned + 1 <= planned'
  PROVE  EpisodesInv' /\ OnlyTheLast
  <1>0. /\ file \in EpisodeCounts /\ DOMAIN file = Outcomes /\ planned \in Nat
        /\ \A q \in Outcomes : file[q] \in Nat
        /\ file.completed = file["completed"] /\ "completed" \in Outcomes
        /\ file.completed <= planned
    BY DEF EpisodesInv, EpisodeCounts, Outcomes
  <1>1. CASE UNCHANGED store
    BY <1>0, <1>1 DEF store, EpisodesInv, OnlyTheLast
  <1>2. CASE tail = "ended" /\ file' = Add(file, o) /\ tail' \in {"ended", o}
    <2> DEFINE n == file[o] + 1
    <2>1. n \in Nat /\ file' = [file EXCEPT ![o] = n]
      BY <1>0, <1>2 DEF Add
    <2>2. n = file[o] + 1
      OBVIOUS
    <2> HIDE DEF n
    <2>3. file' \in EpisodeCounts /\ \A q \in Outcomes : file'[q] = IF q = o THEN n ELSE file[q]
      BY <1>0, <2>1, CountChanged
    <2>4. file'.completed <= planned'
      BY <1>0, <2>2, <2>3
    <2>5. tail' \in {"ended", "cut"} \cup Outcomes /\ (tail' \in Outcomes => file'[tail'] > 0)
      BY <1>0, <1>2, <2>2, <2>3 DEF Outcomes
    <2>6. OnlyTheLast
      BY <1>0, <2>2, <2>3 DEF OnlyTheLast
    <2> QED
      BY <2>3, <2>4, <2>5, <2>6 DEF EpisodesInv
  <1>3. CASE file' = file /\ tail' = "cut"
    BY <1>0, <1>3 DEF EpisodesInv, OnlyTheLast, Outcomes
  <1>4. CASE tail # "ended" /\ file' = FileJoined /\ torn' = TRUE /\ tail' \in {"ended", "cut"}
    <2>1. CASE tail \in Outcomes
      <3> DEFINE n == file[tail] - 1
      <3>1. n \in Nat /\ file' = [file EXCEPT ![tail] = n]
        BY <1>0, <1>4, <2>1 DEF FileJoined, EpisodesInv
      <3>2. n = file[tail] - 1
        OBVIOUS
      <3> HIDE DEF n
      <3>3. file' \in EpisodeCounts /\ \A q \in Outcomes : file'[q] = IF q = tail THEN n ELSE file[q]
        BY <1>0, <2>1, <3>1, CountChanged
      <3>4. file'.completed <= planned'
        BY <1>0, <3>2, <3>3
      <3>5. OnlyTheLast
        BY <1>0, <1>4, <3>2, <3>3 DEF OnlyTheLast
      <3> QED
        BY <1>4, <3>3, <3>4, <3>5 DEF EpisodesInv, Outcomes
    <2>2. CASE tail \notin Outcomes
      <3>1. file' = file
        BY <1>0, <1>4, <2>2 DEF FileJoined
      <3> QED
        BY <1>0, <1>4, <3>1 DEF EpisodesInv, OnlyTheLast, Outcomes
    <2> QED
      BY <2>1, <2>2
  <1> QED
    BY <1>1, <1>2, <1>3, <1>4 DEF StoreEpisode

LEMMA EpisodesStep == EpisodesInv /\ [Next]_vars => EpisodesInv' /\ OnlyTheLast
  <1> SUFFICES ASSUME EpisodesInv, [Next]_vars PROVE EpisodesInv' /\ OnlyTheLast
    OBVIOUS
  <1>1. CASE UNCHANGED <<file, tail, planned>>
    BY <1>1 DEF EpisodesInv, OnlyTheLast, EpisodeCounts
  <1>2. CASE Conclude /\ UNCHANGED avars
    <2>1. UNCHANGED planned /\ Outcome \in Outcomes /\ Outcome # "completed" /\ planned \in Nat
      BY <1>2 DEF avars, Outcome, Outcomes, EpisodesInv
    <2>2. StoreEpisode(Outcome)
      BY <1>2 DEF Conclude
    <2> HIDE DEF Outcome
    <2> QED
      BY <2>1, <2>2, StoredEpisode
  <1>3. CASE PlanMission
    <2>1. /\ StoreEpisode("completed") /\ planned' = planned + 1 /\ planned \in Nat
          /\ "completed" \in Outcomes
      BY <1>3 DEF PlanMission, AppendEpisode, EpisodesInv, Outcomes
    <2> QED
      BY <2>1, StoredEpisode
  <1>4. CASE MissionsNext /\ ~Conclude /\ UNCHANGED avars
    BY <1>1, <1>4 DEF MissionsNext, Run, NewMission, NextRound, StartGraph, AgentStep, OutsideStep,
                      FinishGraph, Restart, avars, learning, store
  <1>5. CASE BeginCycle \/ ((StartLoop \/ Interrupt) /\ UNCHANGED mvars) \/ UNCHANGED vars
    BY <1>1, <1>5 DEF BeginCycle, StartLoop, Interrupt, vars, mvars, avars, learning, store
  <1> QED
    BY <1>2, <1>3, <1>4, <1>5 DEF Next, AutonomyNext

\* EpisodesKept, for any number of episodes: whatever order TAAR_OS and the autonomous
\* loop write in and whatever of their writes fails, a readable episode is lost only as the
\* last of the file, when its newline was not written (episodic_memory.py, line 83).
THEOREM EpisodesAlwaysKept == Spec => EpisodesKept
  <1>1. Init => EpisodesInv
    BY DEF Init, MissionsInit, AutonomyInit, NoEpisodes, EpisodesInv, EpisodeCounts, Outcomes
  <1>2. EpisodesInv /\ [Next]_vars => EpisodesInv'
    BY EpisodesStep
  <1>3. EpisodesInv /\ [Next]_vars =>
          [\A o \in DOMAIN file : file'[o] < file[o] => tail = o /\ file'[o] = file[o] - 1 /\ torn']_vars
    BY EpisodesStep DEF OnlyTheLast
  <1>4. EpisodesInv => file.completed <= planned
    BY DEF EpisodesInv
  <1> QED
    BY <1>1, <1>2, <1>3, <1>4, PTL DEF Spec, EpisodesKept

-----------------------------------------------------------------------------
(***************************************************************************)
(* The missions.  At most one graph is ready at a time, since a started    *)
(* graph has all those before it completed; and the status of a mission is *)
(* what its graphs were when the last of them ended.                       *)
(***************************************************************************)

GraphRecords == [mode : Modes, status : {"pending", "running", "completed", "failed"}]

\* A graph that was started has all graphs before it completed.
StartedBehindCompleted ==
  \A g, h \in Graph : g < h /\ graphs[h].status # "pending" => graphs[g].status = "completed"

ReadyFits ==
  /\ pc = "graph" => \E g \in ReadyGraphs : ready = <<g>>
  /\ pc = "running" => \E g \in With("running") : ready = <<g>> /\ With("running") = {g}
  /\ pc # "running" => With("running") = {}

AllCompleted == Graph # {} /\ With("completed") = Graph

StatusFits ==
  pc \in {"round", "graph", "running", "conclude"} =>
    /\ (status = "completed") <=> AllCompleted
    /\ (status = "recovering") <=> (With("failed") # {})
    /\ AllCompleted => pc = "conclude"

MissionInv ==
  /\ graphs \in Seq(GraphRecords)
  /\ StartedBehindCompleted
  /\ ReadyFits
  /\ StatusFits

LEMMA NoGraphs ==
  ASSUME graphs' = <<>>, pc' \in {"idle", "down"}
  PROVE  MissionInv'
  <1>1. graphs' \in Seq(GraphRecords) /\ Graph' = {}
    BY DEF Graph
  <1> QED
    BY <1>1 DEF MissionInv, StartedBehindCompleted, ReadyFits, StatusFits, With

LEMMA MissionKept ==
  ASSUME MissionInv, UNCHANGED mission
  PROVE  MissionInv'
  BY DEF MissionInv, mission, StartedBehindCompleted, ReadyFits, StatusFits, With, Graph,
         ReadyGraphs, DependenciesMet, AllCompleted

LEMMA GraphNumbers ==
  ASSUME graphs \in Seq(GraphRecords)
  PROVE  /\ Len(graphs) \in Nat /\ Graph = DOMAIN graphs /\ Graph \subseteq Nat
         /\ \A g \in Graph : /\ graphs[g] \in GraphRecords
                             /\ graphs[g].status \in {"pending", "running", "completed", "failed"}
  <1>1. Len(graphs) \in Nat /\ DOMAIN graphs = 1 .. Len(graphs)
    OBVIOUS
  <1>2. \A g \in 1 .. Len(graphs) : graphs[g] \in GraphRecords
    BY <1>1
  <1> QED
    BY <1>1, <1>2 DEF Graph, GraphRecords

\* Two graphs are never ready together: the later one has the one before it
\* completed, and so the earlier one would not be pending.
LEMMA OneReady ==
  ASSUME MissionInv, NEW g \in ReadyGraphs, NEW h \in ReadyGraphs
  PROVE  g = h
  <1>1. ASSUME NEW a \in ReadyGraphs, NEW b \in ReadyGraphs, a < b PROVE FALSE
    <2>1. /\ a \in Graph /\ b \in Graph /\ a \in Nat /\ b \in Nat /\ 1 <= a
          /\ graphs[a].status = "pending" /\ graphs[b - 1].status = "completed"
      BY <1>1, GraphNumbers DEF MissionInv, ReadyGraphs, DependenciesMet, Graph
    <2>2. a # b - 1 /\ b - 1 \in Graph
      BY <1>1, <2>1, GraphNumbers DEF Graph, MissionInv
    <2>3. a < b - 1
      BY <1>1, <2>1, <2>2
    <2> QED
      BY <2>1, <2>2, <2>3 DEF MissionInv, StartedBehindCompleted
  <1>2. g \in Nat /\ h \in Nat
    BY GraphNumbers DEF MissionInv, ReadyGraphs
  <1> QED
    BY <1>1, <1>2

\* The list of the ready graphs has one entry or none.
LEMMA ReadyList ==
  ASSUME MissionInv
  PROVE  \/ ReadyGraphs = {} /\ InOrder(ReadyGraphs) = <<>>
         \/ \E g \in ReadyGraphs : InOrder(ReadyGraphs) = <<g>>
  <1>1. CASE ReadyGraphs = {}
    <2>1. 1 .. Cardinality({}) = {}
      BY FS_EmptySet
    <2>2. [{} -> {}] = {<<>>}
      <3>1. ASSUME NEW f \in [{} -> {}] PROVE f = <<>>
        <4>1. f \in [1 .. 0 -> {}]
          OBVIOUS
        <4>2. f \in Seq({}) /\ Len(f) = 0
          BY <4>1
        <4> QED
          BY <4>2
      <3>2. <<>> \in [{} -> {}]
        OBVIOUS
      <3> QED
        BY <3>1, <3>2
    <2>3. [1 .. Cardinality({}) -> {}] = {<<>>}
      BY <2>1, <2>2
    <2>4. InOrder({}) = <<>>
      BY <2>3 DEF InOrder
    <2> QED
      BY <1>1, <2>4
  <1>2. CASE ReadyGraphs # {}
    <2>1. PICK g \in ReadyGraphs : ReadyGraphs = {g}
      BY <1>2, OneReady
    <2>2. Cardinality({g}) = 1
      BY FS_Singleton
    <2>3. [1 .. 1 -> {g}] = {<<g>>}
      OBVIOUS
    <2>4. \A i, j \in DOMAIN <<g>> : i < j => <<g>>[i] < <<g>>[j]
      OBVIOUS
    <2>5. InOrder({g}) = <<g>>
      BY <2>2, <2>3, <2>4 DEF InOrder
    <2> QED
      BY <2>1, <2>5
  <1> QED
    BY <1>1, <1>2

\* update_graph_status changes the status of one graph.
LEMMA StatusSet ==
  ASSUME MissionInv, NEW g \in Graph, NEW s \in {"running", "completed", "failed"}, SetStatus(g, s)
  PROVE  /\ graphs' \in Seq(GraphRecords) /\ Graph' = Graph /\ Len(graphs') = Len(graphs)
         /\ \A h \in Graph : graphs'[h].status = IF h = g THEN s ELSE graphs[h].status
         /\ \A h \in Graph : graphs'[h].mode = graphs[h].mode
         /\ \A t : With(t)' = (With(t) \ {g}) \cup (IF t = s THEN {g} ELSE {})
  <1>1. /\ graphs \in Seq(GraphRecords) /\ graphs[g] \in GraphRecords /\ g \in DOMAIN graphs
    BY GraphNumbers DEF MissionInv
  <1> DEFINE new == [graphs[g] EXCEPT !.status = s]
  <1>2. new \in GraphRecords /\ new.status = s /\ new.mode = graphs[g].mode
    BY <1>1 DEF GraphRecords
  <1>3. graphs' = [graphs EXCEPT ![g] = new]
    BY DEF SetStatus
  <1> HIDE DEF new
  <1>4. /\ graphs' \in Seq(GraphRecords) /\ Len(graphs') = Len(graphs)
        /\ \A h \in DOMAIN graphs : graphs'[h] = IF h = g THEN new ELSE graphs[h]
    BY <1>1, <1>2, <1>3
  <1>5. Graph' = Graph /\ Graph = DOMAIN graphs
    BY <1>4, GraphNumbers DEF Graph, MissionInv
  <1>6. \A h \in Graph : graphs'[h].status = IF h = g THEN s ELSE graphs[h].status
    BY <1>2, <1>4, <1>5
  <1>7. ASSUME NEW t PROVE With(t)' = (With(t) \ {g}) \cup (IF t = s THEN {g} ELSE {})
    BY <1>5, <1>6 DEF With
  <1> QED
    BY <1>2, <1>4, <1>5, <1>6, <1>7

LEMMA NewMissionHolds == MissionInv /\ NewMission => MissionInv'
  <1> SUFFICES ASSUME NewMission PROVE MissionInv'
    OBVIOUS
  <1>0. PICK n \in 0 .. MaxGraphs : \E modes \in [1 .. n -> Modes] :
          graphs' = [g \in 1 .. n |-> [mode |-> modes[g], status |-> "pending"]]
    BY DEF NewMission
  <1>1. PICK modes \in [1 .. n -> Modes] :
          graphs' = [g \in 1 .. n |-> [mode |-> modes[g], status |-> "pending"]]
    BY <1>0
  <1>2. n \in Nat
    BY MissionsAssumption
  <1>3. /\ graphs' \in Seq(GraphRecords) /\ Graph' = 1 .. n
        /\ \A g \in 1 .. n : graphs'[g].status = "pending"
    BY <1>1, <1>2 DEF Graph, GraphRecords
  <1>4. \A s \in {"running", "completed", "failed"} : With(s)' = {}
    BY <1>3 DEF With
  <1>5. status' = "active" /\ pc' = "round"
    BY DEF NewMission
  <1> QED
    BY <1>3, <1>4, <1>5 DEF MissionInv, StartedBehindCompleted, ReadyFits, StatusFits, AllCompleted

LEMMA NextRoundHolds == MissionInv /\ NextRound => MissionInv'
  <1> SUFFICES ASSUME MissionInv, NextRound PROVE MissionInv'
    OBVIOUS
  <1>1. /\ UNCHANGED <<graphs, status>> /\ pc = "round"
        /\ ready' = InOrder(ReadyGraphs)
        /\ pc' = IF ready' = <<>> THEN "conclude" ELSE "graph"
    BY DEF NextRound
  <1>2. /\ Graph' = Graph /\ ReadyGraphs' = ReadyGraphs
        /\ \A s : With(s)' = With(s)
    BY <1>1 DEF Graph, ReadyGraphs, DependenciesMet, With
  <1>3. pc' = "graph" => \E g \in ReadyGraphs : ready' = <<g>>
    BY <1>1, ReadyList
  <1>4. ReadyFits'
    BY <1>1, <1>2, <1>3 DEF ReadyFits, MissionInv
  <1>5. StatusFits'
    BY <1>1, <1>2 DEF StatusFits, AllCompleted, MissionInv
  <1>6. StartedBehindCompleted'
    BY <1>1, <1>2 DEF MissionInv, StartedBehindCompleted
  <1> QED
    BY <1>1, <1>4, <1>5, <1>6 DEF MissionInv

LEMMA StartGraphHolds == MissionInv /\ StartGraph => MissionInv'
  <1> SUFFICES ASSUME MissionInv, StartGraph PROVE MissionInv'
    OBVIOUS
  <1>1. PICK g \in ReadyGraphs : ready = <<g>>
    BY DEF StartGraph, MissionInv, ReadyFits
  <1>2. /\ SetStatus(g, "running") /\ pc = "graph" /\ pc' = "running" /\ UNCHANGED <<status, ready>>
        /\ g \in Graph /\ graphs[g].status = "pending"
    BY <1>1 DEF StartGraph, ReadyGraphs
  <1>3. /\ graphs' \in Seq(GraphRecords) /\ Graph' = Graph
        /\ \A h \in Graph : graphs'[h].status = IF h = g THEN "running" ELSE graphs[h].status
        /\ \A t : With(t)' = (With(t) \ {g}) \cup (IF t = "running" THEN {g} ELSE {})
    BY <1>2, StatusSet
  <1>4. With("running") = {} /\ g \notin With("completed") \cup With("failed")
    BY <1>2 DEF MissionInv, ReadyFits, With
  <1>5. With("running")' = {g} /\ With("completed")' = With("completed") /\ With("failed")' = With("failed")
    BY <1>3, <1>4
  <1>6. \A h \in Graph : h < g => graphs[h].status = "completed"
    <2> SUFFICES ASSUME NEW h \in Graph, h < g PROVE graphs[h].status = "completed"
      OBVIOUS
    <2>1. g \in Nat /\ h \in Nat /\ 1 <= h /\ Len(graphs) \in Nat
      BY <1>2, GraphNumbers DEF MissionInv, Graph
    <2>2. graphs[g - 1].status = "completed" /\ g - 1 \in Graph
      BY <1>1, <1>2, <2>1 DEF ReadyGraphs, DependenciesMet, Graph
    <2>3. CASE h = g - 1
      BY <2>2, <2>3
    <2>4. CASE h < g - 1
      BY <2>2, <2>4 DEF MissionInv, StartedBehindCompleted
    <2> QED
      BY <2>1, <2>3, <2>4
  <1>7. StartedBehindCompleted'
    <2> SUFFICES ASSUME NEW a \in Graph, NEW b \in Graph, a < b, graphs'[b].status # "pending"
                 PROVE  graphs'[a].status = "completed"
      BY <1>3 DEF StartedBehindCompleted
    <2>1. graphs[a].status = "completed"
      BY <1>3, <1>6 DEF MissionInv, StartedBehindCompleted
    <2> QED
      BY <1>2, <1>3, <2>1
  <1>8. ReadyFits'
    BY <1>1, <1>2, <1>5 DEF ReadyFits
  <1>9. StatusFits'
    BY <1>2, <1>3, <1>5 DEF MissionInv, StatusFits, AllCompleted
  <1> QED
    BY <1>3, <1>7, <1>8, <1>9 DEF MissionInv

\* What check_completion answers of a mission that has graphs.
LEMMA Completion ==
  ASSUME graphs \in Seq(GraphRecords), Graph # {}
  PROVE  /\ CheckCompletion(graphs) \in {"recovering", "completed", "active"}
         /\ (CheckCompletion(graphs) = "recovering") <=> (With("failed") # {})
         /\ (CheckCompletion(graphs) = "completed") <=> AllCompleted
  <1>1. Len(graphs) \in Nat /\ Graph = 1 .. Len(graphs) /\ DOMAIN graphs = Graph
    BY GraphNumbers DEF Graph
  <1>2. IsFiniteSet(Graph) /\ Cardinality(Graph) = Len(graphs)
    <2>1. \A m \in Nat : IsFiniteSet(1 .. m) /\ Cardinality(1 .. m) = m
      BY FS_Interval
    <2> QED
      BY <1>1, <2>1
  <1>3. ASSUME NEW s
        PROVE  /\ Cardinality(With(s)) \in Nat
               /\ Cardinality(With(s)) = 0 <=> With(s) = {}
               /\ Cardinality(With(s)) = Len(graphs) <=> With(s) = Graph
    <2>1. With(s) \subseteq Graph
      BY DEF With
    <2>2. IsFiniteSet(With(s))
      BY <1>2, <2>1, FS_Subset
    <2> QED
      BY <1>2, <2>1, <2>2, FS_Subset, FS_CardinalityType, FS_EmptySet
  <1> DEFINE count(s) == Cardinality({g \in DOMAIN graphs : graphs[g].status = s})
  <1>4. count("failed") = Cardinality(With("failed")) /\ count("completed") = Cardinality(With("completed"))
    BY <1>1 DEF With
  <1>5. CheckCompletion(graphs) = IF count("failed") > 0 THEN "recovering"
          ELSE IF count("completed") = Len(graphs) THEN "completed" ELSE "active"
    BY Zenon DEF CheckCompletion
  <1> HIDE DEF count
  <1>6. count("failed") > 0 <=> With("failed") # {}
    BY <1>3, <1>4
  <1>7. With("failed") # {} => ~AllCompleted
    BY DEF With, AllCompleted
  <1>8. count("completed") = Len(graphs) <=> AllCompleted
    BY <1>3, <1>4 DEF AllCompleted
  <1> QED
    BY <1>5, <1>6, <1>7, <1>8

LEMMA FinishGraphHolds == MissionInv /\ FinishGraph => MissionInv'
  <1> SUFFICES ASSUME MissionInv, FinishGraph PROVE MissionInv'
    OBVIOUS
  <1>1. PICK g \in With("running") : ready = <<g>> /\ With("running") = {g}
    BY DEF FinishGraph, MissionInv, ReadyFits
  <1>2. PICK result \in {"completed", "failed"} : SetStatus(ready[1], result)
    BY DEF FinishGraph
  <1>3. /\ pc = "running" /\ status' = CheckCompletion(graphs') /\ ready' = Tail(ready)
        /\ pc' = IF status' = "completed" THEN "conclude" ELSE IF ready' = <<>> THEN "round" ELSE "graph"
    BY DEF FinishGraph
  <1>4. g \in Graph /\ graphs[g].status = "running" /\ SetStatus(g, result) /\ ready' = <<>>
    BY <1>1, <1>2, <1>3 DEF With
  <1>5. /\ graphs' \in Seq(GraphRecords) /\ Graph' = Graph
        /\ \A h \in Graph : graphs'[h].status = IF h = g THEN result ELSE graphs[h].status
        /\ \A t : With(t)' = (With(t) \ {g}) \cup (IF t = result THEN {g} ELSE {})
    BY <1>4, StatusSet
  <1>6. With("running")' = {}
    BY <1>1, <1>5
  <1>7. StartedBehindCompleted'
    <2> SUFFICES ASSUME NEW a \in Graph, NEW b \in Graph, a < b, graphs'[b].status # "pending"
                 PROVE  graphs'[a].status = "completed"
      BY <1>5 DEF StartedBehindCompleted
    <2>1. graphs[b].status # "pending"
      BY <1>4, <1>5
    <2>2. graphs[a].status = "completed"
      BY <2>1 DEF MissionInv, StartedBehindCompleted
    <2> QED
      BY <1>4, <1>5, <2>2
  <1>8. /\ (status' = "recovering") <=> (With("failed")' # {})
        /\ (status' = "completed") <=> AllCompleted'
    <2>1. Graph' # {}
      BY <1>4, <1>5
    <2>2. (graphs \in Seq(GraphRecords) /\ Graph # {} =>
            /\ (CheckCompletion(graphs) = "recovering") <=> (With("failed") # {})
            /\ (CheckCompletion(graphs) = "completed") <=> AllCompleted)'
      BY Completion, PTL
    <2> QED
      BY <1>3, <1>5, <2>1, <2>2
  <1>9. pc' \in {"conclude", "round"} /\ (status' = "completed" => pc' = "conclude")
    BY <1>3, <1>4
  <1>10. ReadyFits' /\ StatusFits'
    BY <1>6, <1>8, <1>9 DEF ReadyFits, StatusFits
  <1> QED
    BY <1>5, <1>7, <1>10 DEF MissionInv

LEMMA MissionStep == MissionInv /\ [Next]_vars => MissionInv'
  <1> SUFFICES ASSUME MissionInv, [Next]_vars PROVE MissionInv'
    OBVIOUS
  <1>1. CASE Conclude \/ Restart
    BY <1>1, NoGraphs DEF Conclude, Restart
  <1>2. CASE AgentStep \/ OutsideStep \/ BeginCycle \/ PlanMission \/ UNCHANGED mvars
    BY <1>2, MissionKept DEF AgentStep, OutsideStep, BeginCycle, PlanMission, mvars
  <1> QED
    BY <1>1, <1>2, NewMissionHolds, NextRoundHolds, StartGraphHolds, FinishGraphHolds
       DEF Next, MissionsNext, Run, AutonomyNext, vars

\* For missions of any length, over any restarts: graphs in the order of the
\* chain, and a status that tells what became of them (taar_os.py, line 114).
THEOREM MissionsAlwaysHold == Spec => []MissionHolds
  <1>1. Init => MissionInv
    <2>1. Init => graphs = <<>> /\ pc = "idle"
      BY DEF Init, MissionsInit
    <2>2. graphs = <<>> => graphs \in Seq(GraphRecords) /\ Graph = {}
      BY DEF Graph
    <2> QED
      BY <2>1, <2>2 DEF MissionInv, StartedBehindCompleted, ReadyFits, StatusFits, With
  <1>2. MissionInv => MissionHolds
    <2> SUFFICES ASSUME MissionInv PROVE MissionHolds
      OBVIOUS
    <2>1. \A g \in Graph : g \in Nat /\ (g > 1 => g - 1 \in Graph)
      BY GraphNumbers DEF MissionInv, Graph
    <2>2. ChainInOrder
      BY <2>1, GraphNumbers DEF MissionInv, StartedBehindCompleted, ChainInOrder
    <2>3. StatusTellsGraphs
      BY DEF MissionInv, StatusFits, ReadyFits, StatusTellsGraphs, AllCompleted
    <2> QED
      BY <2>2, <2>3 DEF MissionHolds
  <1> QED
    BY <1>1, <1>2, MissionStep, PTL DEF Spec

(***************************************************************************)
(* The tiered memory, for any keys, values, sizes and budget, and however  *)
(* the keys share the chunk files.  The invariant has four parts: the      *)
(* state is well formed and a call under way is of a kind that its phase   *)
(* is of; whatever is stored was set under its key; what is gone is in no  *)
(* tier and no call or restart can bring it back; and the LRU list and the *)
(* byte count are those of what RAM holds.                                 *)
(***************************************************************************)

MemoryTypes ==
  /\ InRam \in SUBSET Key /\ ram \in [InRam -> [data : Value, pinned : BOOLEAN]]
  /\ lru \in Seq(Key) /\ used \in Int
  /\ chunks \in [Chunk -> Seq(Line)]
  /\ index \in SUBSET Key /\ saved \in SUBSET Key
  /\ phase \in {"idle", "evict", "append", "save", "clear", "boot"}
  /\ request \in Call
  /\ phase = "evict" => request.op \in {"set", "promote"}
  /\ phase = "append" => request.op = "set"
  /\ phase = "save" => request.op \in {"set", "delete", "clear"}
  /\ phase \in {"idle", "clear", "boot"} => request = NoRequest
  /\ written \in [Key -> SUBSET Value]
  /\ last \in [Key -> Value \cup {None, "unsure"}]

\* Whatever is in a tier, or on its way to one, was set under its key.
StoredWereSet ==
  /\ \A k \in InRam : ram[k].data \in written[k]
  /\ \A c \in Chunk : \A i \in DOMAIN chunks[c] :
       chunks[c][i] # Torn => chunks[c][i].data \in written[chunks[c][i].key]
  /\ phase \in {"evict", "append"} => request.data \in written[request.key]

NoLines(k) == \A i \in DOMAIN Lines(k) : Lines(k)[i] # Torn => Lines(k)[i].key # k

\* A key that is gone is in no tier, and on its way to none; a key that only
\* the index file still has is in no chunk file, so that a restart that
\* brings the key back to the index brings nothing back to it.
GoneAreGone ==
  /\ \A k \in Key : last[k] = None => k \notin InRam /\ (k \in index => NoLines(k))
  /\ \A k \in saved \ index : NoLines(k)
  /\ phase \in {"evict", "append"} \/ (phase = "save" /\ request.op = "set") => last[request.key] # None
  /\ phase = "clear" \/ (phase = "save" /\ request.op = "clear") => InRam = {}

\* The LRU list has the keys in RAM, each once, and their sizes add up to used.
RamAddsUp ==
  /\ IsFiniteSet(InRam)
  /\ \A i, j \in DOMAIN lru : lru[i] = lru[j] => i = j
  /\ ToSet(lru) = InRam /\ Len(lru) = Cardinality(InRam)
  /\ used = SumFunctionOnSet([k \in InRam |-> Size[ram[k].data]], InRam)
  /\ used <= Budget

MemoryInv == MemoryTypes /\ StoredWereSet /\ GoneAreGone /\ RamAddsUp

-----------------------------------------------------------------------------
\* Taking an element out of a list that has it once.
LEMMA RemovedAt ==
  ASSUME NEW S, NEW s \in Seq(S), \A i, j \in DOMAIN s : s[i] = s[j] => i = j, NEW p \in DOMAIN s
  PROVE  /\ RemoveAt(s, p) \in Seq(S) /\ Len(RemoveAt(s, p)) = Len(s) - 1 /\ Len(s) - 1 \in Nat
         /\ ToSet(RemoveAt(s, p)) = ToSet(s) \ {s[p]}
         /\ \A i, j \in DOMAIN RemoveAt(s, p) : RemoveAt(s, p)[i] = RemoveAt(s, p)[j] => i = j
  <1> DEFINE r == RemoveAt(s, p)
  <1>1. /\ r \in Seq(S) /\ Len(r) = Len(s) - 1 /\ Len(s) - 1 \in Nat
        /\ DOMAIN r = 1 .. Len(s) - 1 /\ DOMAIN s = 1 .. Len(s) /\ p \in 1 .. Len(s)
        /\ \A i \in DOMAIN r : r[i] = IF i < p THEN s[i] ELSE s[i + 1]
    <2> DEFINE a == SubSeq(s, 1, p - 1)
               b == SubSeq(s, p + 1, Len(s))
    <2>1. Len(s) \in Nat /\ DOMAIN s = 1 .. Len(s) /\ p \in 1 .. Len(s)
      OBVIOUS
    <2>2. a \in Seq(S) /\ Len(a) = p - 1 /\ \A i \in 1 .. p - 1 : a[i] = s[i]
      BY <2>1
    <2>3. b \in Seq(S) /\ Len(b) = Len(s) - p /\ \A i \in 1 .. Len(s) - p : b[i] = s[i + p]
      BY <2>1
    <2> HIDE DEF a, b
    <2>4. a \o b \in Seq(S) /\ Len(a \o b) = Len(s) - 1
      <3>1. a \in Seq(S) /\ b \in Seq(S)
        BY <2>2, <2>3
      <3>2. a \o b \in Seq(S) /\ Len(a \o b) = Len(a) + Len(b)
        BY <3>1
      <3> QED
        BY <2>1, <2>2, <2>3, <3>2
    <2>5. ASSUME NEW i \in 1 .. Len(s) - 1 PROVE (a \o b)[i] = IF i < p THEN s[i] ELSE s[i + 1]
      <3>1. (a \o b)[i] = IF i <= Len(a) THEN a[i] ELSE b[i - Len(a)]
        BY <2>1, <2>2, <2>3
      <3> QED
        BY <2>1, <2>2, <2>3, <3>1
    <2>6. r = a \o b
      BY DEF RemoveAt, a, b
    <2> HIDE DEF r
    <2>7. DOMAIN r = 1 .. Len(s) - 1 /\ Len(s) - 1 \in Nat
      <3>1. r \in Seq(S)
        BY <2>4, <2>6
      <3>2. DOMAIN r = 1 .. Len(r)
        BY <3>1
      <3> QED
        BY <2>1, <2>4, <2>6, <3>2
    <2> QED
      BY <2>1, <2>4, <2>5, <2>6, <2>7
  <1> HIDE DEF r
  <1>2. ASSUME NEW i \in DOMAIN r PROVE i \in DOMAIN s /\ i + 1 \in DOMAIN s
    BY <1>1
  <1>3. ASSUME NEW i \in DOMAIN r, NEW j \in DOMAIN r, r[i] = r[j] PROVE i = j
    BY <1>1, <1>2, <1>3
  <1>4. ASSUME NEW i \in DOMAIN r PROVE r[i] # s[p] /\ \E j \in DOMAIN s : r[i] = s[j]
    BY <1>1, <1>2
  <1>5. ASSUME NEW j \in DOMAIN s, s[j] # s[p] PROVE \E i \in DOMAIN r : s[j] = r[i]
    <2>1. CASE j < p
      BY <1>1, <2>1
    <2>2. CASE j > p
      <3>1. j - 1 \in DOMAIN r /\ r[j - 1] = s[j]
        BY <1>1, <2>2
      <3> QED
        BY <3>1
    <2> QED
      BY <1>1, <1>5, <2>1, <2>2
  <1>6. ToSet(r) = ToSet(s) \ {s[p]}
    BY <1>4, <1>5 DEF ToSet
  <1> QED
    BY <1>1, <1>3, <1>6 DEF r

\* What a request says, by its kind.
LEMMA Requests ==
  ASSUME request \in Call
  PROVE  /\ request.op = "set" => request.key \in Key /\ request.data \in Value
         /\ request.op = "promote" => request.key \in Key /\ request.data \in Value
         /\ request.op \in {"delete", "clear"} => request.key \in Key
  BY DEF Call, NoRequest

\* The list without a key.
LEMMA WithoutKey ==
  ASSUME MemoryTypes, RamAddsUp, NEW k \in Key
  PROVE  /\ Without(k) \in Seq(Key) /\ ToSet(Without(k)) = InRam \ {k}
         /\ Len(Without(k)) = Cardinality(InRam \ {k})
         /\ \A i, j \in DOMAIN Without(k) : Without(k)[i] = Without(k)[j] => i = j
  <1>1. CASE k \in InRam
    <2> DEFINE p == CHOOSE i \in DOMAIN lru : lru[i] = k
    <2>1. p \in DOMAIN lru /\ lru[p] = k
      BY <1>1 DEF RamAddsUp, ToSet
    <2>2. Without(k) = RemoveAt(lru, p)
      BY <1>1 DEF Without
    <2>3. Cardinality(InRam \ {k}) = Cardinality(InRam) - 1
      BY <1>1, OneLess DEF RamAddsUp
    <2> HIDE DEF p
    <2>4. /\ RemoveAt(lru, p) \in Seq(Key) /\ Len(RemoveAt(lru, p)) = Len(lru) - 1
          /\ ToSet(RemoveAt(lru, p)) = ToSet(lru) \ {lru[p]}
          /\ \A i, j \in DOMAIN RemoveAt(lru, p) : RemoveAt(lru, p)[i] = RemoveAt(lru, p)[j] => i = j
      BY <2>1, RemovedAt DEF MemoryTypes, RamAddsUp
    <2> QED
      BY <2>1, <2>2, <2>3, <2>4 DEF RamAddsUp
  <1>2. CASE k \notin InRam
    <2>1. InRam \ {k} = InRam /\ Without(k) = lru
      BY <1>2 DEF Without
    <2> QED
      BY <2>1 DEF MemoryTypes, RamAddsUp
  <1> QED
    BY <1>1, <1>2

\* Where a record is found.
LEMMA FoundLine ==
  ASSUME MemoryTypes, NEW k \in Key
  PROVE  /\ Found(k) \in Nat /\ Lines(k) \in Seq(Line)
         /\ Found(k) # 0 => /\ Found(k) \in DOMAIN Lines(k)
                            /\ Lines(k)[Found(k)] # Torn => Lines(k)[Found(k)].key = k
  <1> DEFINE I == {i \in 1 .. Len(Lines(k)) : Lines(k)[i] = Torn \/ Lines(k)[i].key = k}
             m == CHOOSE x \in I : \A y \in I : x <= y
  <1>1. Lines(k) \in Seq(Line) /\ Len(Lines(k)) \in Nat /\ DOMAIN Lines(k) = 1 .. Len(Lines(k))
    BY ChunkAssumption DEF MemoryTypes, Lines
  <1>2. Found(k) = IF I # {} THEN m ELSE 0
    BY DEF Found, SelectInSeq, Min
  <1>3. I # {} => m \in I
    <2> SUFFICES ASSUME I # {} PROVE m \in I
      OBVIOUS
    <2>1. I \in SUBSET Nat
      OBVIOUS
    <2> HIDE DEF I
    <2>2. \E x \in I : \A y \in I : x <= y
      BY <2>1, LeastNumber
    <2> QED
      BY <2>2
  <1> QED
    BY <1>1, <1>2, <1>3

\* What a get() of a key that is on disk only takes from there.
LEMMA NvmeReads ==
  ASSUME MemoryTypes, StoredWereSet, NEW k \in Key, NvmeRead(k) # None
  PROVE  /\ k \in index /\ ~NoLines(k)
         /\ NvmeRead(k) \in Value /\ NvmeRead(k) \in written[k]
  <1> DEFINE line == Lines(k)[Found(k)]
  <1>1. k \in index /\ Found(k) # 0 /\ line # Torn /\ NvmeRead(k) = line.data
    BY DEF NvmeRead
  <1>2. Found(k) \in DOMAIN Lines(k) /\ line.key = k
    BY <1>1, FoundLine
  <1>3. ChunkOf[k] \in Chunk
    BY ChunkAssumption
  <1>4. line \in Line
    BY <1>2, FoundLine
  <1>5. line.data \in Value
    BY <1>1, <1>4 DEF Line
  <1>6. line.data \in written[k]
    BY <1>1, <1>2, <1>3 DEF StoredWereSet, Lines
  <1> QED
    BY <1>1, <1>2, <1>5, <1>6 DEF NoLines

\* RAM without a key.
LEMMA Dropped ==
  ASSUME MemoryTypes, RamAddsUp, NEW k \in Key, DropFromRam(k)
  PROVE  /\ InRam' = InRam \ {k} /\ \A j \in InRam' : ram'[j] = ram[j]
         /\ ram' \in [InRam' -> [data : Value, pinned : BOOLEAN]]
         /\ lru' \in Seq(Key) /\ used' \in Int /\ RamAddsUp'
  <1> DEFINE size == [j \in InRam |-> Size[ram[j].data]]
             size2 == [j \in InRam \ {k} |-> Size[ram'[j].data]]
  <1>1. /\ InRam' = InRam \ {k} /\ \A j \in InRam' : ram'[j] = ram[j]
        /\ ram' \in [InRam' -> [data : Value, pinned : BOOLEAN]]
    BY DEF DropFromRam, InRam, MemoryTypes
  <1>2. /\ lru' \in Seq(Key) /\ ToSet(lru') = InRam' /\ Len(lru') = Cardinality(InRam')
        /\ \A i, j \in DOMAIN lru' : lru'[i] = lru'[j] => i = j
    BY <1>1, WithoutKey DEF DropFromRam
  <1>3. /\ \A j \in InRam : size[j] \in Nat \ {0} /\ size[j] = Size[ram[j].data]
        /\ \A j \in InRam \ {k} : size2[j] \in Int /\ size2[j] = size[j]
        /\ Budget \in Nat
    BY <1>1, BudgetAssumption DEF MemoryTypes
  <1>4. IsFiniteSet(InRam) /\ IsFiniteSet(InRam \ {k}) /\ used = SumFunctionOnSet(size, InRam)
    BY FS_RemoveElement DEF RamAddsUp
  <1> HIDE DEF size, size2
  <1>5. /\ SumFunctionOnSet(size2, InRam \ {k}) = SumFunctionOnSet(size, InRam \ {k})
    BY <1>3, <1>4, SumOfSame
  <1>6. used' = SumFunctionOnSet(size2, InRam \ {k}) /\ used' \in Int /\ used' <= used
    <2>1. CASE k \in InRam
      <3>1. /\ SumFunctionOnSet(size, InRam) = size[k] + SumFunctionOnSet(size, InRam \ {k})
            /\ SumFunctionOnSet(size, InRam \ {k}) \in Int
        BY <1>3, <1>4, <2>1, SumTaken
      <3>2. used' = used - size[k] /\ size[k] \in Nat
        BY <1>3, <2>1 DEF DropFromRam
      <3> QED
        BY <1>4, <1>5, <3>1, <3>2
    <2>2. CASE k \notin InRam
      <3> DEFINE rest == InRam \ {k}
      <3>1. rest = InRam /\ used' = used
        BY <2>2 DEF DropFromRam
      <3>2. SumFunctionOnSet(size2, rest) = SumFunctionOnSet(size, rest)
        BY <1>5
      <3> HIDE DEF rest
      <3>3. used' = SumFunctionOnSet(size2, rest)
        BY <1>4, <3>1, <3>2
      <3> QED
        BY <3>1, <3>3 DEF rest, MemoryTypes
    <2> QED
      BY <2>1, <2>2
  <1>7. used' <= Budget
    BY <1>3, <1>6 DEF RamAddsUp, MemoryTypes
  <1>8. [j \in InRam |-> Size[ram[j].data]]' = size2
    BY <1>1 DEF size2
  <1> QED
    BY <1>1, <1>2, <1>4, <1>6, <1>7, <1>8 DEF RamAddsUp

\* RAM once the running call has put its value there.
LEMMA Stored ==
  ASSUME MemoryTypes, RamAddsUp, StoreInRam
  PROVE  /\ request.key \in Key /\ InRam' = InRam \cup {request.key}
         /\ \A j \in InRam' : ram'[j].data = IF j = request.key THEN request.data ELSE ram[j].data
         /\ ram' \in [InRam' -> [data : Value, pinned : BOOLEAN]]
         /\ lru' \in Seq(Key) /\ used' \in Int /\ RamAddsUp'
  <1> DEFINE k == request.key
             rest == InRam \ {k}
             new == [data |-> request.data, pinned |-> request.op = "set" /\ request.pin]
             size == [j \in InRam |-> Size[ram[j].data]]
             size2 == [j \in InRam' |-> Size[ram'[j].data]]
  <1>0. request.op \in {"set", "promote"} /\ ~TooFull /\ Size[request.data] <= Budget
    BY DEF StoreInRam, MemoryTypes
  <1>1. k \in Key /\ request.data \in Value /\ new \in [data : Value, pinned : BOOLEAN]
    BY <1>0, Requests DEF MemoryTypes
  <1>2. ram' = [j \in InRam \cup {k} |-> IF j = k THEN new ELSE ram[j]]
    BY DEF StoreInRam
  <1>3. /\ InRam' = InRam \cup {k}
        /\ \A j \in InRam' : ram'[j] = IF j = k THEN new ELSE ram[j]
        /\ new.data = request.data
    BY <1>2 DEF InRam
  <1> HIDE DEF new, k
  <1>4. ram' \in [InRam' -> [data : Value, pinned : BOOLEAN]]
    BY <1>1, <1>2, <1>3 DEF MemoryTypes
  <1>5. /\ \A j \in InRam : size[j] \in Nat \ {0} /\ size[j] = Size[ram[j].data]
        /\ \A j \in InRam' : size2[j] \in Nat \ {0}
        /\ \A j \in rest : size2[j] = size[j]
        /\ k \in InRam' /\ k \notin rest /\ size2[k] = Size[request.data]
        /\ InRam' = rest \cup {k} /\ Budget \in Nat /\ Size[request.data] \in Nat
    BY <1>1, <1>3, <1>4, BudgetAssumption DEF MemoryTypes
  <1>6. IsFiniteSet(InRam) /\ IsFiniteSet(rest) /\ used = SumFunctionOnSet(size, InRam)
    BY FS_RemoveElement DEF RamAddsUp
  <1>7. IsFiniteSet(InRam') /\ Cardinality(InRam') = Cardinality(rest) + 1
    BY <1>5, <1>6, FS_AddElement
  <1>8. /\ lru' \in Seq(Key) /\ ToSet(lru') = InRam' /\ Len(lru') = Cardinality(InRam')
        /\ \A i, j \in DOMAIN lru' : lru'[i] = lru'[j] => i = j
    <2> DEFINE other == Without(k)
    <2>1. /\ other \in Seq(Key) /\ ToSet(other) = rest /\ Len(other) = Cardinality(rest)
          /\ \A i, j \in DOMAIN other : other[i] = other[j] => i = j
      BY <1>1, WithoutKey
    <2>2. lru' = Append(other, k)
      BY DEF StoreInRam, k
    <2> HIDE DEF other, rest
    <2>3. /\ lru' \in Seq(Key) /\ Len(lru') = Len(other) + 1
          /\ \A i \in DOMAIN other : lru'[i] = other[i] /\ i \in DOMAIN lru'
          /\ lru'[Len(other) + 1] = k /\ Len(other) + 1 \in DOMAIN lru'
          /\ \A i \in DOMAIN lru' : i = Len(other) + 1 \/ i \in DOMAIN other
      BY <1>1, <2>1, <2>2, AppendedTo
    <2>4. \A i \in DOMAIN other : other[i] # k
      BY <1>5, <2>1 DEF ToSet
    <2>5. ToSet(lru') = ToSet(other) \cup {k}
      BY <2>3 DEF ToSet
    <2> QED
      BY <1>5, <1>7, <2>1, <2>3, <2>4, <2>5
  <1> HIDE DEF size, size2
  <1>9. /\ SumFunctionOnSet(size2, InRam') = SumFunctionOnSet(size2, rest) + Size[request.data]
        /\ SumFunctionOnSet(size2, rest) = SumFunctionOnSet(size, rest)
        /\ SumFunctionOnSet(size, rest) \in Int
    <2>1. SumFunctionOnSet(size2, rest \cup {k}) = SumFunctionOnSet(size2, rest) + size2[k]
      <3> DEFINE now == InRam'
      <3>1. now = rest \cup {k} /\ k \notin rest /\ IsFiniteSet(rest) /\ \A j \in now : size2[j] \in Int
        BY <1>5, <1>6
      <3> HIDE DEF now, rest
      <3> QED
        BY <3>1, SumAdded
    <2>2. SumFunctionOnSet(size2, rest) = SumFunctionOnSet(size, rest)
      BY <1>5, <1>6, SumOfSame
    <2>3. \A j \in rest : size[j] \in Int
      BY <1>5
    <2>4. SumFunctionOnSet(size, rest) \in Int
      BY <1>6, <2>3, SumIsInt
    <2> QED
      BY <1>5, <2>1, <2>2, <2>4
  <1>10. used' = SumFunctionOnSet(size2, InRam') /\ used' \in Int
    <2>1. used' = used + Size[request.data] - IF k \in InRam THEN Size[ram[k].data] ELSE 0
      BY DEF StoreInRam, k
    <2>2. CASE k \in InRam
      <3>1. SumFunctionOnSet(size, InRam) = size[k] + SumFunctionOnSet(size, rest)
        BY <1>5, <1>6, <2>2, SumTaken
      <3>2. size[k] = Size[ram[k].data] /\ size[k] \in Nat
        BY <1>5, <2>2
      <3> QED
        BY <1>5, <1>6, <1>9, <2>1, <2>2, <3>1, <3>2
    <2>3. CASE k \notin InRam
      <3>1. rest = InRam
        BY <2>3
      <3> QED
        BY <1>5, <1>6, <1>9, <2>1, <2>3, <3>1
    <2> QED
      BY <2>2, <2>3
  <1>11. used' <= Budget
    <2>1. CASE InRam = {}
      <3>1. used' = Size[request.data] + used /\ used = 0
        <4>1. used = 0 /\ k \notin InRam
          BY <1>6, <2>1, SumOfNone
        <4> QED
          BY <1>5, <4>1 DEF StoreInRam, k
      <3> QED
        BY <1>0, <1>5, <3>1
    <2>2. CASE InRam # {}
      <3>1. used + Size[request.data] <= Budget
        BY <1>0, <1>5, <2>2 DEF TooFull, MemoryTypes
      <3>2. used' <= used + Size[request.data]
        <4>1. k \in InRam => Size[ram[k].data] \in Nat
          BY <1>5
        <4> QED
          BY <1>5, <4>1 DEF StoreInRam, k, MemoryTypes
      <3> QED
        BY <1>5, <1>10, <3>1, <3>2 DEF MemoryTypes
    <2> QED
      BY <2>1, <2>2
  <1>12. [j \in InRam |-> Size[ram[j].data]]' = size2
    BY DEF size2
  <1>13. \A j \in InRam' : ram'[j].data = IF j = k THEN request.data ELSE ram[j].data
    BY <1>3
  <1> QED
    BY <1>1, <1>3, <1>4, <1>7, <1>8, <1>10, <1>11, <1>12, <1>13 DEF RamAddsUp, k

LEMMA InitMemory == MemoryInit => MemoryInv
  <1> SUFFICES ASSUME MemoryInit PROVE MemoryInv
    OBVIOUS
  <1>1. InRam = {} /\ ram = <<>> /\ lru = <<>> /\ used = 0 /\ phase = "idle" /\ request = NoRequest
    BY DEF MemoryInit, InRam
  <1>2. MemoryTypes
    BY <1>1 DEF MemoryInit, MemoryTypes, Line, Call
  <1>3. RamAddsUp
    <2>1. IsFiniteSet({}) /\ Cardinality({}) = 0
      BY FS_EmptySet
    <2>2. SumFunctionOnSet([k \in InRam |-> Size[ram[k].data]], {}) = 0
      BY SumOfNone
    <2> QED
      BY <1>1, <2>1, <2>2, BudgetAssumption DEF RamAddsUp, ToSet
  <1>4. StoredWereSet
    BY <1>1 DEF MemoryInit, StoredWereSet
  <1>5. GoneAreGone
    BY <1>1, NoneAssumption DEF MemoryInit, GoneAreGone, NoRequest
  <1> QED
    BY <1>2, <1>3, <1>4, <1>5 DEF MemoryInv

\* A step that leaves RAM as it is, or pins an entry, changes no size.
LEMMA RamKept ==
  ASSUME MemoryTypes, RamAddsUp, UNCHANGED <<lru, used>>,
         InRam' = InRam, \A k \in InRam : ram'[k].data = ram[k].data
  PROVE  RamAddsUp'
  <1>1. [k \in InRam |-> Size[ram[k].data]]' = [k \in InRam |-> Size[ram[k].data]]
    OBVIOUS
  <1> QED
    BY <1>1 DEF RamAddsUp

\* Nothing in RAM.
LEMMA RamEmptied ==
  ASSUME ram' = <<>>, lru' = <<>>, used' = 0
  PROVE  /\ InRam' = {} /\ RamAddsUp' /\ ram' \in [InRam' -> [data : Value, pinned : BOOLEAN]]
         /\ lru' \in Seq(Key) /\ used' \in Int
  <1>1. InRam' = {} /\ ram' \in [InRam' -> [data : Value, pinned : BOOLEAN]]
    BY DEF InRam
  <1>2. IsFiniteSet({}) /\ Cardinality({}) = 0
    BY FS_EmptySet
  <1>3. SumFunctionOnSet([k \in InRam |-> Size[ram[k].data]]', {}) = 0
    BY SumOfNone
  <1> QED
    BY <1>1, <1>2, <1>3, BudgetAssumption DEF RamAddsUp, ToSet

\* RAM as it is found by get().
LEMMA Touched ==
  ASSUME MemoryTypes, RamAddsUp, NEW k \in Key, GetFromRam(k)
  PROVE  lru' \in Seq(Key) /\ RamAddsUp'
  <1> DEFINE rest == InRam \ {k}
             other == Without(k)
  <1>1. /\ other \in Seq(Key) /\ ToSet(other) = rest /\ Len(other) = Cardinality(rest)
        /\ \A i, j \in DOMAIN other : other[i] = other[j] => i = j
    BY WithoutKey
  <1>2. lru' = Append(other, k) /\ k \in InRam /\ UNCHANGED <<ram, used>>
    BY DEF GetFromRam
  <1>3. InRam' = InRam /\ rest \cup {k} = InRam /\ k \notin rest
    BY <1>2 DEF InRam
  <1>4. Cardinality(InRam) = Cardinality(rest) + 1
    <2>1. Cardinality(rest) = Cardinality(InRam) - 1 /\ Cardinality(InRam) \in Nat
      BY <1>2, OneLess DEF RamAddsUp
    <2> HIDE DEF rest
    <2> QED
      BY <2>1
  <1> HIDE DEF other, rest
  <1>5. /\ lru' \in Seq(Key) /\ Len(lru') = Len(other) + 1
        /\ \A i \in DOMAIN other : lru'[i] = other[i] /\ i \in DOMAIN lru'
        /\ lru'[Len(other) + 1] = k /\ Len(other) + 1 \in DOMAIN lru'
        /\ \A i \in DOMAIN lru' : i = Len(other) + 1 \/ i \in DOMAIN other
    BY <1>1, <1>2, AppendedTo
  <1>6. \A i \in DOMAIN other : other[i] # k
    BY <1>1, <1>3 DEF ToSet
  <1>7. ToSet(lru') = ToSet(other) \cup {k}
    BY <1>5 DEF ToSet
  <1>8. /\ ToSet(lru') = InRam /\ Len(lru') = Cardinality(InRam)
        /\ \A i, j \in DOMAIN lru' : lru'[i] = lru'[j] => i = j
    BY <1>1, <1>3, <1>4, <1>5, <1>6, <1>7
  <1>9. [j \in InRam |-> Size[ram[j].data]]' = [j \in InRam |-> Size[ram[j].data]]
    BY <1>2, <1>3
  <1> QED
    BY <1>2, <1>3, <1>5, <1>8, <1>9 DEF RamAddsUp

\* A chunk file with one more line, and one that is unlinked.
LEMMA LineAdded ==
  ASSUME MemoryTypes, NEW c \in Chunk, NEW x \in Line, chunks' = [chunks EXCEPT ![c] = Append(@, x)]
  PROVE  /\ chunks' \in [Chunk -> Seq(Line)]
         /\ \A d \in Chunk : \A i \in DOMAIN chunks'[d] :
              chunks'[d][i] = x \/ (i \in DOMAIN chunks[d] /\ chunks'[d][i] = chunks[d][i])
  <1>1. chunks[c] \in Seq(Line)
    BY DEF MemoryTypes
  <1>2. /\ Append(chunks[c], x) \in Seq(Line)
        /\ \A i \in DOMAIN Append(chunks[c], x) :
             Append(chunks[c], x)[i] = x \/ (i \in DOMAIN chunks[c] /\ Append(chunks[c], x)[i] = chunks[c][i])
    BY <1>1, AppendedTo
  <1>3. \A d \in Chunk : chunks'[d] = IF d = c THEN Append(chunks[c], x) ELSE chunks[d]
    BY DEF MemoryTypes
  <1>4. chunks' \in [Chunk -> Seq(Line)]
    BY <1>2 DEF MemoryTypes
  <1> QED
    BY <1>2, <1>3, <1>4

LEMMA Unlinked ==
  ASSUME MemoryTypes, NEW c \in Chunk, chunks' = [chunks EXCEPT ![c] = <<>>]
  PROVE  /\ chunks' \in [Chunk -> Seq(Line)]
         /\ \A d \in Chunk : chunks'[d] = IF d = c THEN <<>> ELSE chunks[d]
  BY DEF MemoryTypes

\* The state of the two stores stays well formed, and RAM adds up.
LEMMA RamStep ==
  ASSUME MemoryInv, [MemoryNext]_memoryVars
  PROVE  MemoryTypes' /\ RamAddsUp'
  <1> USE DEF MemoryInv
  <1>1. ASSUME NEW k \in Key, NEW v \in Value, NEW asked \in {"auto", "ram", "nvme", "vram"},
               NEW pin \in BOOLEAN, NEW vramFree \in BOOLEAN, Set(k, v, asked, pin, vramFree)
        PROVE  MemoryTypes' /\ RamAddsUp'
    <2>1. UNCHANGED <<ram, lru, used, chunks, index, saved>> /\ InRam' = InRam
      BY <1>1 DEF Set, ramVars, diskVars, InRam
    <2>2. written' \in [Key -> SUBSET Value] /\ last' \in [Key -> Value \cup {None, "unsure"}]
      BY <1>1 DEF Set, MemoryTypes
    <2>3. \/ /\ phase' \in {"evict", "append"}
             /\ request' = [op |-> "set", key |-> k, data |-> v, pin |-> pin]
          \/ UNCHANGED <<phase, request>>
      BY <1>1 DEF Set
    <2>4. MemoryTypes'
      <3>1. CASE UNCHANGED <<phase, request>>
        BY <2>1, <2>2, <3>1 DEF MemoryTypes
      <3>2. CASE phase' \in {"evict", "append"} /\ request' = [op |-> "set", key |-> k, data |-> v, pin |-> pin]
        <4>1. request' \in Call /\ request'.op = "set"
          BY <3>2 DEF Call
        <4> QED
          BY <2>1, <2>2, <3>2, <4>1 DEF MemoryTypes
      <3> QED
        BY <2>3, <3>1, <3>2
    <2> QED
      BY <2>1, <2>4, RamKept
  <1>2. ASSUME NEW k \in Key, GetFromRam(k)
        PROVE  MemoryTypes' /\ RamAddsUp'
    <2>1. lru' \in Seq(Key) /\ RamAddsUp'
      BY <1>2, Touched
    <2> QED
      BY <1>2, <2>1 DEF GetFromRam, MemoryTypes, diskVars, history, InRam
  <1>3. ASSUME NEW k \in Key, GetFromNvme(k)
        PROVE  MemoryTypes' /\ RamAddsUp'
    <2>1. UNCHANGED <<ram, lru, used, chunks, index, saved, written, last>> /\ InRam' = InRam
      BY <1>3 DEF GetFromNvme, ramVars, diskVars, history, InRam
    <2>2. NvmeRead(k) \in Value
      BY <1>3, NvmeReads DEF GetFromNvme
    <2>3. phase' = "evict" /\ request' = [op |-> "promote", key |-> k, data |-> NvmeRead(k)]
      BY <1>3 DEF GetFromNvme
    <2> HIDE DEF NvmeRead
    <2>4. request' \in Call /\ request'.op = "promote"
      BY <2>2, <2>3 DEF Call
    <2>5. MemoryTypes'
      BY <2>1, <2>3, <2>4 DEF MemoryTypes
    <2> QED
      BY <2>1, <2>5, RamKept
  <1>4. ASSUME NEW k \in Key, Delete(k)
        PROVE  MemoryTypes' /\ RamAddsUp'
    <2>1. /\ InRam' = InRam \ {k} /\ ram' \in [InRam' -> [data : Value, pinned : BOOLEAN]]
          /\ lru' \in Seq(Key) /\ used' \in Int /\ RamAddsUp'
      BY <1>4, Dropped DEF Delete
    <2>2. UNCHANGED <<saved, written>> /\ last' \in [Key -> Value \cup {None, "unsure"}]
      BY <1>4 DEF Delete, Unlink, UnlinkFails, MemoryTypes
    <2>3. CASE Unlink("delete", k)
      <3>1. chunks' \in [Chunk -> Seq(Line)]
        BY <2>3, Unlinked, ChunkAssumption DEF Unlink
      <3>2. request' \in Call /\ request'.op = "delete" /\ phase' = "save" /\ index' = index \ {k}
        BY <2>3 DEF Unlink, Call
      <3> QED
        BY <2>1, <2>2, <3>1, <3>2 DEF MemoryTypes
    <2>4. CASE UnlinkFails(k)
      <3>1. UNCHANGED <<chunks, index>> /\ phase' = "idle" /\ request' = NoRequest /\ NoRequest \in Call
        BY <2>4 DEF UnlinkFails, Call
      <3> QED
        BY <2>1, <2>2, <3>1 DEF MemoryTypes
    <2>5. CASE UNCHANGED <<chunks, index, phase, request>>
      BY <1>4, <2>1, <2>2, <2>5 DEF Delete, MemoryTypes
    <2> QED
      BY <1>4, <2>3, <2>4, <2>5 DEF Delete
  <1>5. ASSUME Clear
        PROVE  MemoryTypes' /\ RamAddsUp'
    <2>1. RamAddsUp' /\ InRam' = {} /\ ram' \in [InRam' -> [data : Value, pinned : BOOLEAN]]
          /\ lru' \in Seq(Key) /\ used' \in Int
      BY <1>5, RamEmptied DEF Clear
    <2> QED
      BY <1>5, <2>1 DEF Clear, MemoryTypes, diskVars, history
  <1>6. ASSUME Crash
        PROVE  MemoryTypes' /\ RamAddsUp'
    <2>1. RamAddsUp' /\ InRam' = {} /\ ram' \in [InRam' -> [data : Value, pinned : BOOLEAN]]
          /\ lru' \in Seq(Key) /\ used' \in Int
      BY <1>6, RamEmptied DEF Crash
    <2>2. chunks' \in [Chunk -> Seq(Line)]
      <3>1. CASE UNCHANGED chunks
        BY <3>1 DEF MemoryTypes
      <3>2. CASE phase = "append" /\ chunks' = [chunks EXCEPT ![ChunkOf[request.key]] = Append(@, Torn)]
        <4>1. ChunkOf[request.key] \in Chunk /\ Torn \in Line
          BY <3>2, Requests, ChunkAssumption DEF MemoryTypes, Line
        <4> QED
          BY <3>2, <4>1, LineAdded
      <3> QED
        BY <1>6, <3>1, <3>2 DEF Crash
    <2>3. saved' \in SUBSET Key /\ phase' = "boot" /\ request' = NoRequest /\ UNCHANGED <<index, written, last>>
      BY <1>6 DEF Crash, MemoryTypes, history
    <2>4. request' \in Call
      BY <2>3 DEF Call
    <2> QED
      BY <2>1, <2>2, <2>3, <2>4 DEF MemoryTypes
  <1>7. ASSUME EvictOne
        PROVE  MemoryTypes' /\ RamAddsUp'
    <2>1. PICK i \in DOMAIN lru : DropFromRam(lru[i])
      BY <1>7 DEF EvictOne
    <2>2. lru[i] \in Key
      BY DEF MemoryTypes
    <2>3. /\ InRam' = InRam \ {lru[i]} /\ ram' \in [InRam' -> [data : Value, pinned : BOOLEAN]]
          /\ lru' \in Seq(Key) /\ used' \in Int /\ RamAddsUp'
      BY <2>1, <2>2, Dropped
    <2>4. UNCHANGED <<chunks, index, saved, phase, request, written, last>>
      BY <1>7 DEF EvictOne, diskVars, history
    <2> QED
      BY <2>3, <2>4 DEF MemoryTypes
  <1>8. ASSUME StoreInRam
        PROVE  MemoryTypes' /\ RamAddsUp'
    <2>1. /\ request.key \in Key /\ InRam' = InRam \cup {request.key}
          /\ ram' \in [InRam' -> [data : Value, pinned : BOOLEAN]]
          /\ lru' \in Seq(Key) /\ used' \in Int /\ RamAddsUp'
      BY <1>8, Stored
    <2>2. /\ UNCHANGED <<chunks, index, saved, written>> /\ phase' = "idle" /\ request' = NoRequest
          /\ last' = IF request.op = "set" THEN [last EXCEPT ![request.key] = request.data] ELSE last
      BY <1>8 DEF StoreInRam, diskVars
    <2>3. last' \in [Key -> Value \cup {None, "unsure"}] /\ request' \in Call
      BY <2>2, Requests DEF MemoryTypes, Call
    <2> QED
      BY <2>1, <2>2, <2>3 DEF MemoryTypes
  <1>9. ASSUME DoesNotFit
        PROVE  MemoryTypes' /\ RamAddsUp'
    <2>1. UNCHANGED <<ram, lru, used, chunks, index, saved, written, last>> /\ InRam' = InRam
      BY <1>9 DEF DoesNotFit, ramVars, diskVars, history, InRam
    <2>2. \/ phase' = "append" /\ request.op = "set" /\ request' = request
          \/ phase' = "idle" /\ request' = NoRequest
      BY <1>9 DEF DoesNotFit
    <2>3. NoRequest \in Call
      BY DEF Call
    <2>4. MemoryTypes'
      BY <2>1, <2>2, <2>3 DEF MemoryTypes
    <2> QED
      BY <2>1, <2>4, RamKept
  <1>10. ASSUME AppendRecord
         PROVE  MemoryTypes' /\ RamAddsUp'
    <2> DEFINE new == [key |-> request.key, data |-> request.data]
    <2>1. request.op = "set" /\ request.key \in Key /\ new \in Line /\ ChunkOf[request.key] \in Chunk
      BY <1>10, Requests, ChunkAssumption DEF AppendRecord, MemoryTypes, Line
    <2>2. /\ chunks' = [chunks EXCEPT ![ChunkOf[request.key]] = Append(@, new)]
          /\ index' = index \cup {request.key} /\ phase' = "save"
          /\ UNCHANGED <<ram, lru, used, saved, request, written, last>> /\ InRam' = InRam
      BY <1>10 DEF AppendRecord, ramVars, history, InRam
    <2> HIDE DEF new
    <2>3. chunks' \in [Chunk -> Seq(Line)]
      BY <2>1, <2>2, LineAdded
    <2>4. MemoryTypes'
      BY <2>1, <2>2, <2>3 DEF MemoryTypes
    <2> QED
      BY <2>2, <2>4, RamKept
  <1>11. ASSUME AppendFails
         PROVE  MemoryTypes' /\ RamAddsUp'
    <2>1. request.key \in Key /\ Torn \in Line /\ ChunkOf[request.key] \in Chunk
      BY <1>11, Requests, ChunkAssumption DEF AppendFails, MemoryTypes, Line
    <2>2. /\ \/ UNCHANGED chunks
             \/ chunks' = [chunks EXCEPT ![ChunkOf[request.key]] = Append(@, Torn)]
          /\ phase' = "idle" /\ request' = NoRequest
          /\ UNCHANGED <<ram, lru, used, index, saved, written, last>> /\ InRam' = InRam
      BY <1>11 DEF AppendFails, ramVars, history, InRam
    <2>3. chunks' \in [Chunk -> Seq(Line)]
      <3>1. CASE UNCHANGED chunks
        BY <3>1 DEF MemoryTypes
      <3>2. CASE chunks' = [chunks EXCEPT ![ChunkOf[request.key]] = Append(@, Torn)]
        BY <2>1, <3>2, LineAdded
      <3> QED
        BY <2>2, <3>1, <3>2
    <2>4. request' \in Call
      BY <2>2 DEF Call
    <2>5. MemoryTypes'
      BY <2>2, <2>3, <2>4 DEF MemoryTypes
    <2> QED
      BY <2>2, <2>5, RamKept
  <1>12. ASSUME SaveIndex
         PROVE  MemoryTypes' /\ RamAddsUp'
    <2>1. /\ saved' = index /\ phase' \in {"clear", "idle"} /\ request' = NoRequest
          /\ UNCHANGED <<lru, used, chunks, index, written>>
      BY <1>12 DEF SaveIndex
    <2>2. /\ last' \in [Key -> Value \cup {None, "unsure"}]
          /\ \/ ram' = ram
             \/ request.key \in InRam /\ ram' = [ram EXCEPT ![request.key].pinned = TRUE]
      <3>1. \/ request.op # "set" /\ UNCHANGED <<last, ram>>
            \/ /\ request.op = "set" /\ last' = [last EXCEPT ![request.key] = request.data]
               /\ ram' = IF request.key \in InRam /\ request.pin
                         THEN [ram EXCEPT ![request.key].pinned = TRUE] ELSE ram
        BY <1>12 DEF SaveIndex
      <3>2. request.op = "set" => request.key \in Key /\ request.data \in Value
        BY Requests DEF MemoryTypes
      <3>3. last' \in [Key -> Value \cup {None, "unsure"}]
        BY <3>1, <3>2 DEF MemoryTypes
      <3> QED
        BY <3>1, <3>3
    <2>3. /\ InRam' = InRam /\ ram' \in [InRam' -> [data : Value, pinned : BOOLEAN]]
          /\ \A k \in InRam : ram'[k].data = ram[k].data
      <3>1. CASE ram' = ram
        BY <3>1 DEF MemoryTypes, InRam
      <3>2. CASE request.key \in InRam /\ ram' = [ram EXCEPT ![request.key].pinned = TRUE]
        BY <3>2 DEF MemoryTypes, InRam
      <3> QED
        BY <2>2, <3>1, <3>2
    <2>4. request' \in Call
      BY <2>1 DEF Call
    <2>5. MemoryTypes'
      BY <2>1, <2>2, <2>3, <2>4 DEF MemoryTypes
    <2> QED
      BY <2>1, <2>3, <2>5, RamKept
  <1>13. ASSUME SaveIndexFails
         PROVE  MemoryTypes' /\ RamAddsUp'
    <2>1. /\ saved' = {} /\ phase' = "idle" /\ request' = NoRequest
          /\ UNCHANGED <<ram, lru, used, chunks, index, written, last>> /\ InRam' = InRam
      BY <1>13 DEF SaveIndexFails, ramVars, history, InRam
    <2>2. request' \in Call
      BY <2>1 DEF Call
    <2>3. MemoryTypes'
      BY <2>1, <2>2 DEF MemoryTypes
    <2> QED
      BY <2>1, <2>3, RamKept
  <1>14. ASSUME NEW k \in Key, ClearOne(k)
         PROVE  MemoryTypes' /\ RamAddsUp'
    <2>1. UNCHANGED <<ram, lru, used, saved, written>> /\ InRam' = InRam
      BY <1>14 DEF ClearOne, ramVars, InRam
    <2>2. last' \in [Key -> Value \cup {None, "unsure"}]
      BY <1>14 DEF ClearOne, Unlink, UnlinkFails, MemoryTypes
    <2>3. ASSUME Unlink("clear", k) PROVE MemoryTypes'
      <3>1. chunks' \in [Chunk -> Seq(Line)]
        BY <2>3, Unlinked, ChunkAssumption DEF Unlink
      <3>2. request' \in Call /\ request'.op = "clear" /\ phase' = "save" /\ index' = index \ {k}
        BY <2>3 DEF Unlink, Call
      <3> QED
        BY <2>1, <2>2, <3>1, <3>2 DEF MemoryTypes
    <2>4. ASSUME UnlinkFails(k) PROVE MemoryTypes'
      <3>1. UNCHANGED <<chunks, index>> /\ phase' = "idle" /\ request' = NoRequest /\ NoRequest \in Call
        BY <2>4 DEF UnlinkFails, Call
      <3> QED
        BY <2>1, <2>2, <3>1 DEF MemoryTypes
    <2>5. MemoryTypes'
      BY <1>14, <2>3, <2>4 DEF ClearOne
    <2> QED
      BY <2>1, <2>5, RamKept
  <1>15. ASSUME Cleared \/ Reload \/ EvictNothing \/ UNCHANGED memoryVars
         PROVE  MemoryTypes' /\ RamAddsUp'
    <2>1. UNCHANGED <<ram, lru, used>> /\ InRam' = InRam
      BY <1>15 DEF Cleared, Reload, EvictNothing, memoryVars, ramVars, InRam
    <2>2. last' \in [Key -> Value \cup {None, "unsure"}]
      BY <1>15 DEF Cleared, Reload, EvictNothing, memoryVars, MemoryTypes, history
    <2>3. MemoryTypes'
      BY <1>15, <2>1, <2>2 DEF Cleared, Reload, EvictNothing, memoryVars, diskVars, history, MemoryTypes
    <2> QED
      BY <2>1, <2>3, RamKept
  <1> QED
    BY <1>1, <1>2, <1>3, <1>4, <1>5, <1>6, <1>7, <1>8, <1>9, <1>10, <1>11, <1>12, <1>13, <1>14, <1>15
       DEF MemoryNext, Progress

-----------------------------------------------------------------------------
\* A line of a chunk file that is not torn has a key.
LEMMA LinesHaveKeys ==
  ASSUME MemoryTypes
  PROVE  \A c \in Chunk : \A i \in DOMAIN chunks[c] :
           chunks[c][i] \in Line /\ (chunks[c][i] # Torn => chunks[c][i].key \in Key)
  <1> SUFFICES ASSUME NEW c \in Chunk, NEW i \in DOMAIN chunks[c]
               PROVE  chunks[c][i] \in Line /\ (chunks[c][i] # Torn => chunks[c][i].key \in Key)
    OBVIOUS
  <1>1. chunks[c][i] \in Line
    BY DEF MemoryTypes
  <1> QED
    BY <1>1 DEF Line

\* What is stored stays among what was set.
LEMMA WritesStep ==
  ASSUME MemoryInv, [MemoryNext]_memoryVars
  PROVE  StoredWereSet'
  <1> USE DEF MemoryInv
  <1> DEFINE RamSame == InRam' \subseteq InRam /\ \A j \in InRam' : ram'[j].data = ram[j].data
             RamWereSet == \A j \in InRam : ram[j].data \in written[j]
             LinesWereSet == \A c \in Chunk : \A i \in DOMAIN chunks[c] :
                               chunks[c][i] # Torn => chunks[c][i].data \in written[chunks[c][i].key]
  <1>a. RamSame /\ UNCHANGED written => RamWereSet'
    BY DEF StoredWereSet
  <1>b. UNCHANGED <<chunks, written>> => LinesWereSet'
    BY DEF StoredWereSet
  <1>c. ASSUME NEW c \in Chunk, chunks' = [chunks EXCEPT ![c] = <<>>], UNCHANGED written
        PROVE  LinesWereSet'
    <2>1. \A d \in Chunk : chunks'[d] = IF d = c THEN <<>> ELSE chunks[d]
      BY <1>c, Unlinked
    <2> QED
      BY <1>c, <2>1 DEF StoredWereSet
  <1>d. ASSUME NEW c \in Chunk, chunks' = [chunks EXCEPT ![c] = Append(@, Torn)], UNCHANGED written
        PROVE  LinesWereSet'
    <2>1. \A d \in Chunk : \A i \in DOMAIN chunks'[d] :
            chunks'[d][i] = Torn \/ (i \in DOMAIN chunks[d] /\ chunks'[d][i] = chunks[d][i])
      BY <1>d, LineAdded DEF Line
    <2> QED
      BY <1>d, <2>1 DEF StoredWereSet
  <1> HIDE DEF RamWereSet, LinesWereSet
  <1>e. ASSUME RamWereSet', LinesWereSet', phase' \notin {"evict", "append"}
        PROVE  StoredWereSet'
    BY <1>e DEF StoredWereSet, RamWereSet, LinesWereSet
  <1>f. ASSUME RamWereSet', LinesWereSet', UNCHANGED <<request, written>>,
               phase' \in {"evict", "append"} => phase \in {"evict", "append"}
        PROVE  StoredWereSet'
    BY <1>f DEF StoredWereSet, RamWereSet, LinesWereSet
  <1>1. ASSUME NEW k \in Key, NEW v \in Value, NEW asked \in {"auto", "ram", "nvme", "vram"},
               NEW pin \in BOOLEAN, NEW vramFree \in BOOLEAN, Set(k, v, asked, pin, vramFree)
        PROVE  StoredWereSet'
    <2>1. UNCHANGED <<ram, chunks>> /\ InRam' = InRam /\ phase = "idle"
      BY <1>1 DEF Set, ramVars, diskVars, InRam
    <2>2. \A j \in Key : written[j] \subseteq written'[j]
      BY <1>1 DEF Set, MemoryTypes
    <2>3. v \in written'[k]
      BY <1>1 DEF Set, MemoryTypes
    <2>4. RamWereSet'
      BY <2>1, <2>2 DEF StoredWereSet, MemoryTypes, RamWereSet
    <2>5. LinesWereSet'
      BY <2>1, <2>2, LinesHaveKeys DEF StoredWereSet, LinesWereSet
    <2>6. \/ request' = [op |-> "set", key |-> k, data |-> v, pin |-> pin]
          \/ UNCHANGED <<phase, request>>
      BY <1>1 DEF Set
    <2>7. phase' \in {"evict", "append"} => request'.data \in written'[request'.key]
      BY <2>1, <2>3, <2>6
    <2> QED
      BY <2>4, <2>5, <2>7 DEF StoredWereSet, RamWereSet, LinesWereSet
  <1>2. ASSUME NEW k \in Key, GetFromRam(k)
        PROVE  StoredWereSet'
    BY <1>2 DEF GetFromRam, StoredWereSet, diskVars, history, InRam
  <1>3. ASSUME NEW k \in Key, GetFromNvme(k)
        PROVE  StoredWereSet'
    <2>1. UNCHANGED <<ram, chunks, written>> /\ InRam' = InRam
      BY <1>3 DEF GetFromNvme, ramVars, diskVars, history, InRam
    <2>2. NvmeRead(k) \in written[k]
      BY <1>3, NvmeReads DEF GetFromNvme
    <2>3. request' = [op |-> "promote", key |-> k, data |-> NvmeRead(k)]
      BY <1>3 DEF GetFromNvme
    <2> HIDE DEF NvmeRead
    <2> QED
      BY <2>1, <2>2, <2>3 DEF StoredWereSet
  <1>4. ASSUME NEW k \in Key, Delete(k)
        PROVE  StoredWereSet'
    <2>1. RamSame /\ UNCHANGED written
      BY <1>4, Dropped DEF Delete
    <2>2. RamWereSet'
      BY <2>1, <1>a
    <2>3. phase = "idle" /\ phase' \in {"save", "idle"}
      BY <1>4 DEF Delete, Unlink, UnlinkFails
    <2>4. LinesWereSet'
      <3>1. UNCHANGED chunks \/ chunks' = [chunks EXCEPT ![ChunkOf[k]] = <<>>]
        BY <1>4 DEF Delete, Unlink, UnlinkFails
      <3> QED
        BY <2>1, <3>1, <1>b, <1>c, ChunkAssumption
    <2> QED
      BY <2>2, <2>3, <2>4, <1>e
  <1>5. ASSUME Clear
        PROVE  StoredWereSet'
    <2>1. InRam' = {} /\ UNCHANGED <<chunks, written>> /\ phase' = "clear"
      BY <1>5 DEF Clear, InRam, diskVars, history
    <2> QED
      BY <2>1, <1>a, <1>b, <1>e
  <1>6. ASSUME Crash
        PROVE  StoredWereSet'
    <2>1. InRam' = {} /\ UNCHANGED written /\ phase' = "boot"
      BY <1>6 DEF Crash, InRam, history
    <2>2. \/ UNCHANGED chunks
          \/ phase = "append" /\ chunks' = [chunks EXCEPT ![ChunkOf[request.key]] = Append(@, Torn)]
      BY <1>6 DEF Crash
    <2>3. phase = "append" => ChunkOf[request.key] \in Chunk
      BY Requests, ChunkAssumption DEF MemoryTypes
    <2> QED
      BY <2>1, <2>2, <2>3, <1>a, <1>b, <1>d, <1>e
  <1>7. ASSUME EvictOne
        PROVE  StoredWereSet'
    <2>1. PICK i \in DOMAIN lru : DropFromRam(lru[i])
      BY <1>7 DEF EvictOne
    <2>2. lru[i] \in Key
      BY DEF MemoryTypes
    <2>3. RamSame /\ UNCHANGED <<chunks, phase, request, written>>
      BY <1>7, <2>1, <2>2, Dropped DEF EvictOne, diskVars, history
    <2> QED
      BY <2>3, <1>a, <1>b, <1>f
  <1>8. ASSUME StoreInRam
        PROVE  StoredWereSet'
    <2>1. /\ InRam' = InRam \cup {request.key}
          /\ \A j \in InRam' : ram'[j].data = IF j = request.key THEN request.data ELSE ram[j].data
      BY <1>8, Stored
    <2>2. UNCHANGED <<chunks, written>> /\ phase' = "idle" /\ phase = "evict"
      BY <1>8 DEF StoreInRam, diskVars
    <2>3. RamWereSet'
      BY <2>1, <2>2 DEF StoredWereSet, RamWereSet
    <2> QED
      BY <2>2, <2>3, <1>b, <1>e
  <1>9. ASSUME DoesNotFit
        PROVE  StoredWereSet'
    <2>1. UNCHANGED <<ram, chunks, written>> /\ InRam' = InRam /\ phase = "evict"
      BY <1>9 DEF DoesNotFit, ramVars, diskVars, history, InRam
    <2>2. UNCHANGED request \/ phase' = "idle"
      BY <1>9 DEF DoesNotFit
    <2> QED
      BY <2>1, <2>2, <1>a, <1>b, <1>e, <1>f
  <1>10. ASSUME AppendRecord
         PROVE  StoredWereSet'
    <2> DEFINE new == [key |-> request.key, data |-> request.data]
    <2>1. new \in Line /\ ChunkOf[request.key] \in Chunk /\ new.data \in written[new.key]
      BY <1>10, Requests, ChunkAssumption DEF AppendRecord, MemoryTypes, Line, StoredWereSet
    <2>2. /\ chunks' = [chunks EXCEPT ![ChunkOf[request.key]] = Append(@, new)]
          /\ UNCHANGED <<ram, written>> /\ InRam' = InRam /\ phase' = "save"
      BY <1>10 DEF AppendRecord, ramVars, history, InRam
    <2> HIDE DEF new
    <2>3. \A d \in Chunk : \A i \in DOMAIN chunks'[d] :
            chunks'[d][i] = new \/ (i \in DOMAIN chunks[d] /\ chunks'[d][i] = chunks[d][i])
      BY <2>1, <2>2, LineAdded
    <2>4. LinesWereSet'
      BY <2>1, <2>2, <2>3 DEF StoredWereSet, LinesWereSet
    <2> QED
      BY <2>2, <2>4, <1>a, <1>e
  <1>11. ASSUME AppendFails
         PROVE  StoredWereSet'
    <2>1. ChunkOf[request.key] \in Chunk
      BY <1>11, Requests, ChunkAssumption DEF AppendFails, MemoryTypes
    <2>2. /\ \/ UNCHANGED chunks
             \/ chunks' = [chunks EXCEPT ![ChunkOf[request.key]] = Append(@, Torn)]
          /\ phase' = "idle" /\ UNCHANGED <<ram, written>> /\ InRam' = InRam
      BY <1>11 DEF AppendFails, ramVars, history, InRam
    <2> QED
      BY <2>1, <2>2, <1>a, <1>b, <1>d, <1>e
  <1>12. ASSUME SaveIndex
         PROVE  StoredWereSet'
    <2>1. UNCHANGED <<chunks, written>> /\ phase' \in {"clear", "idle"}
      BY <1>12 DEF SaveIndex
    <2>2. RamSame
      <3>1. \/ ram' = ram
            \/ request.key \in InRam /\ ram' = [ram EXCEPT ![request.key].pinned = TRUE]
        BY <1>12 DEF SaveIndex
      <3>2. CASE request.key \in InRam /\ ram' = [ram EXCEPT ![request.key].pinned = TRUE]
        BY <3>2 DEF MemoryTypes, InRam
      <3> QED
        BY <3>1, <3>2 DEF InRam
    <2> QED
      BY <2>1, <2>2, <1>a, <1>b, <1>e
  <1>13. ASSUME SaveIndexFails \/ Cleared \/ Reload
         PROVE  StoredWereSet'
    <2>1. UNCHANGED <<ram, chunks, written>> /\ InRam' = InRam /\ phase' = "idle"
      BY <1>13 DEF SaveIndexFails, Cleared, Reload, ramVars, diskVars, history, InRam
    <2> QED
      BY <2>1, <1>a, <1>b, <1>e
  <1>14. ASSUME NEW k \in Key, ClearOne(k)
         PROVE  StoredWereSet'
    <2>1. /\ UNCHANGED chunks \/ chunks' = [chunks EXCEPT ![ChunkOf[k]] = <<>>]
          /\ phase' \in {"save", "idle"} /\ UNCHANGED <<ram, written>> /\ InRam' = InRam
      BY <1>14 DEF ClearOne, Unlink, UnlinkFails, ramVars, InRam
    <2>2. LinesWereSet'
      BY <2>1, <1>b, <1>c, ChunkAssumption
    <2> QED
      BY <2>1, <2>2, <1>a, <1>e
  <1>15. ASSUME EvictNothing \/ UNCHANGED memoryVars
         PROVE  StoredWereSet'
    <2>1. UNCHANGED <<ram, chunks, written, phase, request>> /\ InRam' = InRam
      BY <1>15 DEF EvictNothing, memoryVars, ramVars, diskVars, history, InRam
    <2> QED
      BY <2>1, <1>a, <1>b, <1>f
  <1> QED
    BY <1>1, <1>2, <1>3, <1>4, <1>5, <1>6, <1>7, <1>8, <1>9, <1>10, <1>11, <1>12, <1>13, <1>14, <1>15
       DEF MemoryNext, Progress

\* What is gone stays gone.
LEMMA GoneStep ==
  ASSUME MemoryInv, [MemoryNext]_memoryVars
  PROVE  GoneAreGone'
  <1> USE DEF MemoryInv
  <1> DEFINE OutOfTiers == \A k \in Key : last[k] = None => k \notin InRam /\ (k \in index => NoLines(k))
             NoneHidden == \A k \in saved \ index : NoLines(k)
             OnItsWay == phase \in {"evict", "append"} \/ (phase = "save" /\ request.op = "set")
  <1>0. OutOfTiers /\ NoneHidden /\ (OnItsWay => last[request.key] # None)
        /\ (phase = "clear" \/ (phase = "save" /\ request.op = "clear") => InRam = {})
    BY DEF GoneAreGone
  \* The files keep the lines of a key, but for one that is added.
  <1>a. UNCHANGED chunks => \A k \in Key : NoLines(k)' <=> NoLines(k)
    BY DEF NoLines, Lines
  <1>b. ASSUME NEW c \in Chunk, chunks' = [chunks EXCEPT ![c] = <<>>]
        PROVE  \A k \in Key : (NoLines(k) => NoLines(k)') /\ (ChunkOf[k] = c => NoLines(k)')
    <2>1. \A d \in Chunk : chunks'[d] = IF d = c THEN <<>> ELSE chunks[d]
      BY <1>b, Unlinked
    <2> QED
      BY <2>1, ChunkAssumption DEF NoLines, Lines
  <1>c. ASSUME NEW c \in Chunk, NEW x \in Line, chunks' = [chunks EXCEPT ![c] = Append(@, x)]
        PROVE  \A k \in Key : NoLines(k) /\ (x = Torn \/ x.key # k) => NoLines(k)'
    <2>1. \A d \in Chunk : \A i \in DOMAIN chunks'[d] :
            chunks'[d][i] = x \/ (i \in DOMAIN chunks[d] /\ chunks'[d][i] = chunks[d][i])
      BY <1>c, LineAdded
    <2> QED
      BY <2>1, ChunkAssumption DEF NoLines, Lines
  <1>d. index \in SUBSET Key /\ saved \in SUBSET Key
    BY DEF MemoryTypes
  <1> HIDE DEF NoLines
  <1>e. ASSUME OutOfTiers', NoneHidden', (OnItsWay => last[request.key] # None)',
               (phase = "clear" \/ (phase = "save" /\ request.op = "clear") => InRam = {})'
        PROVE  GoneAreGone'
    BY <1>e DEF GoneAreGone
  <1>1. ASSUME NEW k \in Key, NEW v \in Value, NEW asked \in {"auto", "ram", "nvme", "vram"},
               NEW pin \in BOOLEAN, NEW vramFree \in BOOLEAN, Set(k, v, asked, pin, vramFree)
        PROVE  GoneAreGone'
    <2>1. UNCHANGED <<chunks, index, saved>> /\ InRam' = InRam /\ phase = "idle"
      BY <1>1 DEF Set, ramVars, diskVars, InRam
    <2>2. \/ /\ request' = [op |-> "set", key |-> k, data |-> v, pin |-> pin]
             /\ last' = [last EXCEPT ![k] = "unsure"] /\ phase' \in {"evict", "append"}
          \/ UNCHANGED <<phase, request, last>>
      BY <1>1 DEF Set
    <2>3. \A j \in Key : last'[j] = None => last[j] = None
      BY <2>2, NoneAssumption DEF MemoryTypes
    <2>4. phase' # "idle" => last'[request'.key] # None
      BY <2>1, <2>2, NoneAssumption DEF MemoryTypes
    <2>5. OutOfTiers' /\ NoneHidden'
      BY <2>1, <2>3, <1>0, <1>a, <1>d
    <2>6. phase' \in {"idle", "evict", "append"}
      BY <2>1, <2>2
    <2> QED
      BY <2>4, <2>5, <2>6, <1>e
  <1>2. ASSUME NEW k \in Key, GetFromRam(k)
        PROVE  GoneAreGone'
    <2>1. UNCHANGED <<ram, chunks, index, saved, phase, request, last>> /\ InRam' = InRam
      BY <1>2 DEF GetFromRam, diskVars, history, InRam
    <2> QED
      BY <2>1, <1>0, <1>a, <1>d, <1>e
  <1>3. ASSUME NEW k \in Key, GetFromNvme(k)
        PROVE  GoneAreGone'
    <2>1. UNCHANGED <<chunks, index, saved, last>> /\ InRam' = InRam
      BY <1>3 DEF GetFromNvme, ramVars, diskVars, history, InRam
    <2>2. k \in index /\ ~NoLines(k)
      BY <1>3, NvmeReads DEF GetFromNvme
    <2>3. request'.key = k /\ phase' = "evict"
      BY <1>3 DEF GetFromNvme
    <2>4. last'[request'.key] # None
      BY <2>1, <2>2, <2>3, <1>0
    <2> QED
      BY <2>1, <2>3, <2>4, <1>0, <1>a, <1>d, <1>e
  <1>4. ASSUME NEW k \in Key, Delete(k)
        PROVE  GoneAreGone'
    <2>1. InRam' = InRam \ {k} /\ UNCHANGED saved
      BY <1>4, Dropped DEF Delete
    <2>2. \A j \in Key : last'[j] = None => j = k \/ last[j] = None
      BY <1>4 DEF Delete, Unlink, UnlinkFails, MemoryTypes
    <2>3. CASE Unlink("delete", k)
      <3>1. /\ chunks' = [chunks EXCEPT ![ChunkOf[k]] = <<>>] /\ index' = index \ {k}
            /\ phase' = "save" /\ request'.op = "delete"
        BY <2>3 DEF Unlink
      <3>2. \A j \in Key : (NoLines(j) => NoLines(j)') /\ (ChunkOf[j] = ChunkOf[k] => NoLines(j)')
        BY <3>1, <1>b, ChunkAssumption
      <3> QED
        BY <2>1, <2>2, <3>1, <3>2, <1>0, <1>d, <1>e
    <2>4. CASE UnlinkFails(k)
      <3>1. UNCHANGED <<chunks, index>> /\ phase' = "idle"
        BY <2>4 DEF UnlinkFails
      <3>2. \A j \in Key : last'[j] = None => last[j] = None
        BY <2>4, NoneAssumption DEF UnlinkFails, MemoryTypes
      <3> QED
        BY <2>1, <3>1, <3>2, <1>0, <1>a, <1>d, <1>e
    <2>5. CASE k \notin index /\ UNCHANGED <<chunks, index, phase, request>>
      <3>1. phase = "idle"
        BY <1>4 DEF Delete
      <3> QED
        BY <2>1, <2>2, <2>5, <3>1, <1>0, <1>a, <1>d, <1>e
    <2> QED
      BY <1>4, <2>3, <2>4, <2>5 DEF Delete
  <1>5. ASSUME Clear
        PROVE  GoneAreGone'
    <2>1. InRam' = {} /\ UNCHANGED <<chunks, index, saved, last>> /\ phase' = "clear"
      BY <1>5 DEF Clear, InRam, diskVars, history
    <2> QED
      BY <2>1, <1>0, <1>a, <1>d, <1>e
  <1>6. ASSUME Crash
        PROVE  GoneAreGone'
    <2>1. InRam' = {} /\ UNCHANGED <<index, last>> /\ phase' = "boot" /\ saved' \in {saved, index, {}}
      BY <1>6 DEF Crash, InRam, history
    <2>2. \/ UNCHANGED chunks
          \/ phase = "append" /\ chunks' = [chunks EXCEPT ![ChunkOf[request.key]] = Append(@, Torn)]
      BY <1>6 DEF Crash
    <2>3. phase = "append" => ChunkOf[request.key] \in Chunk
      BY Requests, ChunkAssumption DEF MemoryTypes
    <2>4. \A j \in Key : NoLines(j) => NoLines(j)'
      BY <2>2, <2>3, <1>a, <1>c DEF Line
    <2> QED
      BY <2>1, <2>4, <1>0, <1>d, <1>e
  <1>7. ASSUME EvictOne
        PROVE  GoneAreGone'
    <2>1. PICK i \in DOMAIN lru : DropFromRam(lru[i])
      BY <1>7 DEF EvictOne
    <2>2. lru[i] \in Key
      BY DEF MemoryTypes
    <2>3. InRam' \subseteq InRam /\ UNCHANGED <<chunks, index, saved, phase, request, last>>
      BY <1>7, <2>1, <2>2, Dropped DEF EvictOne, diskVars, history
    <2> QED
      BY <2>3, <1>0, <1>a, <1>d, <1>e
  <1>8. ASSUME StoreInRam
        PROVE  GoneAreGone'
    <2>1. InRam' = InRam \cup {request.key} /\ request.key \in Key
      BY <1>8, Stored
    <2>2. UNCHANGED <<chunks, index, saved>> /\ phase' = "idle" /\ phase = "evict"
      BY <1>8 DEF StoreInRam, diskVars
    <2>3. \/ last' = last
          \/ request.op = "set" /\ last' = [last EXCEPT ![request.key] = request.data]
      BY <1>8 DEF StoreInRam
    <2>4. \A j \in Key : last'[j] = None => last[j] = None
      BY <2>3, Requests, NoneAssumption DEF MemoryTypes
    <2> QED
      BY <2>1, <2>2, <2>4, <1>0, <1>a, <1>d, <1>e
  <1>9. ASSUME DoesNotFit
        PROVE  GoneAreGone'
    <2>1. UNCHANGED <<chunks, index, saved, last>> /\ InRam' = InRam /\ phase = "evict"
      BY <1>9 DEF DoesNotFit, ramVars, diskVars, history, InRam
    <2>2. (phase' = "append" /\ UNCHANGED request) \/ phase' = "idle"
      BY <1>9 DEF DoesNotFit
    <2> QED
      BY <2>1, <2>2, <1>0, <1>a, <1>d, <1>e
  <1>10. ASSUME AppendRecord
         PROVE  GoneAreGone'
    <2> DEFINE new == [key |-> request.key, data |-> request.data]
    <2>1. new \in Line /\ new.key = request.key /\ ChunkOf[request.key] \in Chunk
      BY <1>10, Requests, ChunkAssumption DEF AppendRecord, MemoryTypes, Line
    <2>2. /\ chunks' = [chunks EXCEPT ![ChunkOf[request.key]] = Append(@, new)]
          /\ UNCHANGED <<saved, last, request>> /\ InRam' = InRam /\ index' = index \cup {request.key}
          /\ phase = "append" /\ phase' = "save"
      BY <1>10 DEF AppendRecord, ramVars, history, InRam
    <2> HIDE DEF new
    <2>3. \A j \in Key : NoLines(j) /\ j # request.key => NoLines(j)'
      BY <2>1, <2>2, <1>c
    <2>4. request'.op = "set"
      BY <1>10, <2>2 DEF MemoryTypes
    <2> QED
      BY <2>2, <2>3, <2>4, <1>0, <1>d, <1>e
  <1>11. ASSUME AppendFails
         PROVE  GoneAreGone'
    <2>1. ChunkOf[request.key] \in Chunk
      BY <1>11, Requests, ChunkAssumption DEF AppendFails, MemoryTypes
    <2>2. /\ \/ UNCHANGED chunks
             \/ chunks' = [chunks EXCEPT ![ChunkOf[request.key]] = Append(@, Torn)]
          /\ phase' = "idle" /\ UNCHANGED <<index, saved, last>> /\ InRam' = InRam
      BY <1>11 DEF AppendFails, ramVars, history, InRam
    <2>3. \A j \in Key : NoLines(j) => NoLines(j)'
      BY <2>1, <2>2, <1>a, <1>c DEF Line
    <2> QED
      BY <2>2, <2>3, <1>0, <1>d, <1>e
  <1>12. ASSUME SaveIndex
         PROVE  GoneAreGone'
    <2>1. /\ UNCHANGED <<chunks, index>> /\ saved' = index /\ phase' \in {"clear", "idle"}
          /\ phase' = "clear" => phase = "save" /\ request.op = "clear"
      BY <1>12 DEF SaveIndex
    <2>2. /\ \/ ram' = ram
             \/ request.key \in InRam /\ ram' = [ram EXCEPT ![request.key].pinned = TRUE]
          /\ \/ last' = last
             \/ request.op = "set" /\ last' = [last EXCEPT ![request.key] = request.data]
      BY <1>12 DEF SaveIndex
    <2>3. InRam' = InRam
      BY <2>2 DEF InRam
    <2>4. \A j \in Key : last'[j] = None => last[j] = None
      BY <2>2, Requests, NoneAssumption DEF MemoryTypes
    <2> QED
      BY <2>1, <2>3, <2>4, <1>0, <1>a, <1>d, <1>e
  <1>13. ASSUME SaveIndexFails
         PROVE  GoneAreGone'
    <2>1. UNCHANGED <<chunks, index, last>> /\ saved' = {} /\ InRam' = InRam /\ phase' = "idle"
      BY <1>13 DEF SaveIndexFails, ramVars, history, InRam
    <2> QED
      BY <2>1, <1>0, <1>a, <1>d, <1>e
  <1>14. ASSUME NEW k \in Key, ClearOne(k)
         PROVE  GoneAreGone'
    <2>1. UNCHANGED saved /\ InRam' = InRam /\ InRam = {}
      BY <1>14 DEF ClearOne, ramVars, InRam, GoneAreGone
    <2>2. CASE Unlink("clear", k)
      <3>1. /\ chunks' = [chunks EXCEPT ![ChunkOf[k]] = <<>>] /\ index' = index \ {k}
            /\ phase' = "save" /\ request'.op = "clear" /\ last' = [last EXCEPT ![k] = None]
        BY <2>2 DEF Unlink
      <3>2. \A j \in Key : (NoLines(j) => NoLines(j)') /\ (ChunkOf[j] = ChunkOf[k] => NoLines(j)')
        BY <3>1, <1>b, ChunkAssumption
      <3>3. \A j \in Key : last'[j] = None => j = k \/ last[j] = None
        BY <3>1 DEF MemoryTypes
      <3> QED
        BY <2>1, <3>1, <3>2, <3>3, <1>0, <1>d, <1>e
    <2>3. CASE UnlinkFails(k)
      <3>1. UNCHANGED <<chunks, index>> /\ phase' = "idle"
        BY <2>3 DEF UnlinkFails
      <3>2. \A j \in Key : last'[j] = None => last[j] = None
        BY <2>3, NoneAssumption DEF UnlinkFails, MemoryTypes
      <3> QED
        BY <2>1, <3>1, <3>2, <1>0, <1>a, <1>d, <1>e
    <2> QED
      BY <1>14, <2>2, <2>3 DEF ClearOne
  <1>15. ASSUME Cleared
         PROVE  GoneAreGone'
    <2>1. /\ UNCHANGED <<chunks, index, saved>> /\ index = {} /\ phase' = "idle" /\ InRam' = InRam
          /\ InRam = {}
      BY <1>15 DEF Cleared, ramVars, diskVars, InRam, GoneAreGone
    <2> QED
      BY <2>1, <1>0, <1>a, <1>d, <1>e
  <1>16. ASSUME Reload
         PROVE  GoneAreGone'
    <2>1. UNCHANGED <<chunks, saved, last>> /\ InRam' = InRam /\ index' = saved /\ phase' = "idle"
      BY <1>16 DEF Reload, ramVars, history, InRam
    <2> QED
      BY <2>1, <1>0, <1>a, <1>d, <1>e
  <1>17. ASSUME EvictNothing \/ UNCHANGED memoryVars
         PROVE  GoneAreGone'
    <2>1. UNCHANGED <<chunks, index, saved, last, phase, request>> /\ InRam' = InRam
      BY <1>17 DEF EvictNothing, memoryVars, ramVars, diskVars, history, InRam
    <2> QED
      BY <2>1, <1>0, <1>a, <1>d, <1>e
  <1> QED
    BY <1>1, <1>2, <1>3, <1>4, <1>5, <1>6, <1>7, <1>8, <1>9, <1>10, <1>11, <1>12, <1>13, <1>14, <1>15,
       <1>16, <1>17 DEF MemoryNext, Progress

LEMMA MemoryHolds == MemorySpec => []MemoryInv
  <1>1. MemoryInv /\ [MemoryNext]_memoryVars => MemoryInv'
    BY RamStep, WritesStep, GoneStep DEF MemoryInv
  <1> QED
    BY <1>1, InitMemory, PTL DEF MemorySpec

-----------------------------------------------------------------------------
\* BytesBalance, for any keys, sizes and budget: through evictions,
\* replacements, promotions, deletions and crashes RAMStore._current_bytes is
\* the size of what RAM holds, and within the budget.
THEOREM BytesAlwaysBalance == MemorySpec => []BytesBalance
  <1>1. MemoryInv => BytesBalance
    <2> SUFFICES ASSUME MemoryInv PROVE BytesBalance
      OBVIOUS
    <2> DEFINE size == [k \in InRam |-> Size[ram[k].data]]
    <2>1. \A k \in InRam : size[k] \in Nat
      BY BudgetAssumption DEF MemoryInv, MemoryTypes
    <2>2. IsFiniteSet(InRam) /\ used = SumFunctionOnSet(size, InRam) /\ used <= Budget /\ used \in Int
      BY DEF MemoryInv, MemoryTypes, RamAddsUp
    <2> HIDE DEF size
    <2>3. 0 <= used
      BY <2>1, <2>2, SumOfPart, SumOfNone
    <2>4. used \in 0 .. Budget
      BY <2>2, <2>3, BudgetAssumption
    <2> QED
      BY <2>2, <2>4 DEF BytesBalance, TypeOK, MemoryInv, MemoryTypes, RamAddsUp, size
  <1> QED
    BY <1>1, MemoryHolds, PTL

\* ReadsAreWrites, for any keys, however they share the chunk files: a get()
\* never answers with what was not set under its key.
THEOREM ReadsAlwaysAreWrites == MemorySpec => []ReadsAreWrites
  <1>1. MemoryInv => ReadsAreWrites
    <2> SUFFICES ASSUME MemoryInv, NEW k \in Key PROVE Answer(k) \in written[k] \cup {None}
      BY DEF ReadsAreWrites
    <2>1. CASE k \in InRam
      BY <2>1 DEF Answer, MemoryInv, StoredWereSet
    <2>2. CASE k \notin InRam
      <3>1. Answer(k) = NvmeRead(k)
        BY <2>2 DEF Answer
      <3> QED
        BY <3>1, NvmeReads DEF MemoryInv
    <2> QED
      BY <2>1, <2>2
  <1> QED
    BY <1>1, MemoryHolds, PTL

\* DeletedStaysGone, for any keys: what delete() or clear() removed is in no
\* tier until it is set again, whatever fails, tears or is restarted.
THEOREM DeletedAlwaysStaysGone == MemorySpec => []DeletedStaysGone
  <1>1. MemoryInv => DeletedStaysGone
    <2> SUFFICES ASSUME MemoryInv, NEW k \in Key, last[k] = None PROVE Answer(k) = None
      BY DEF DeletedStaysGone
    <2>1. k \notin InRam /\ (k \in index => NoLines(k))
      BY DEF MemoryInv, GoneAreGone
    <2>2. Answer(k) = NvmeRead(k)
      BY <2>1 DEF Answer
    <2>3. NvmeRead(k) # None => k \in index /\ ~NoLines(k)
      BY NvmeReads DEF MemoryInv
    <2> QED
      BY <2>1, <2>2, <2>3
  <1> QED
    BY <1>1, MemoryHolds, PTL
=============================================================================
