------------------------------ MODULE Gateway ------------------------------
(***************************************************************************)
(* The approval gateway of TAAR v14-secure: user_gateway.py keeps the      *)
(* plans that wait for the user and the audit log, taar_secure.py asks,    *)
(* and secure_execution_engine.py runs the steps of what was approved.     *)
(* The module keeps one gateway over a session of calls; an engine lives   *)
(* for one call (taar_secure.py:54).  A command is known by what validate  *)
(* looks at, and the user's edit is a command like any other.  cmd_fix is  *)
(* a pass of DevOps in the tree the commands run in.                       *)
(***************************************************************************)
EXTENDS Naturals, Sequences, FiniteSets, DevOps

CONSTANTS Commands,   \* records [word, blocked, denied, workspace]
          Edits,      \* the commands a user may write after "edit:"
          MaxSteps,   \* bound: steps of a task
          MaxActions, \* bound: plans built in a session
          MaxEntries  \* bound: decisions in the log when a client adds one

ASSUME GatewayAssumption == MaxSteps \in Nat /\ MaxActions \in Nat /\ MaxEntries \in Nat

VARIABLES pending,    \* pending_approvals: action id -> steps
          issued,     \* action ids handed out so far
          journal,    \* _audit_log, with the edit (a history variable: the log has only the state)
          call        \* the execute_approved call under way
gvars == <<pending, issued, journal, call>>

Tasks == UNION {[1 .. n -> Commands] : n \in 0 .. MaxSteps}
NoCall == [id |-> 0, steps |-> <<>>, results |-> <<>>, stopped |-> FALSE]

GatewayInit == pending = <<>> /\ issued = 0 /\ journal = <<>> /\ call = NoCall

\* The calls come one behind the other.
Free == call = NoCall /\ stage = "off"

\* A shell word or a ./ path, free of the blocked patterns; a denied path is
\* let through when the text also names the workspace.
Validate(c) == c.word /\ ~c.blocked /\ (c.denied => c.workspace)

(***************************************************************************)
(* Plans and decisions.                                                    *)
(***************************************************************************)
\* The table of a new plan, and the table without one.
WithPlan(steps) ==
  [a \in DOMAIN pending \cup {issued + 1} |-> IF a = issued + 1 THEN steps ELSE pending[a]]
TableWithout(table, id) == [a \in DOMAIN table \ {id} |-> table[a]]

\* build_plan hands out a fresh id.
BuildPlan == issued < MaxActions /\ issued' = issued + 1

\* What approve and deny do to the log.
LogDecision(id, state, edit) ==
  journal' = Append(journal, [id |-> id, state |-> state, edit |-> edit])

\* Mutant of Approve: the plan that was approved stays in the table.
ApproveKeepsPending(table, id, edit) ==
  /\ LogDecision(id, IF edit = {} THEN "approved" ELSE "edited", edit)
  /\ pending' = table

\* approve(action_id, edited_cmd): the edit is logged by its state only, and whether the
\* id is that of a plan in the table is not looked at.
Approve(table, id, edit) ==
  /\ LogDecision(id, IF edit = {} THEN "approved" ELSE "edited", edit)
  /\ pending' = TableWithout(table, id)

Deny(table, id) == LogDecision(id, "denied", {}) /\ pending' = TableWithout(table, id)

\* cmd_plan, or cmd_run without an answer or with one it does not know: the
\* plan waits.
CmdPlan ==
  /\ Free /\ BuildPlan
  /\ \E steps \in Tasks : pending' = WithPlan(steps)
  /\ UNCHANGED <<journal, call>> /\ UNCHANGED devops

NoEditOrOne == {{}} \cup {{e} : e \in Edits}

\* cmd_run: "no" ends it, "yes" and "edit:" run the steps of the plan that was
\* shown, whatever the edit says.
CmdRun ==
  /\ Free /\ BuildPlan
  /\ \E steps \in Tasks :
       \/ Deny(WithPlan(steps), issued + 1) /\ UNCHANGED call
       \/ /\ \E edit \in NoEditOrOne : Approve(WithPlan(steps), issued + 1, edit)
          /\ call' = [NoCall EXCEPT !.id = issued + 1, !.steps = steps]
  /\ UNCHANGED devops

Runs == {i \in DOMAIN journal : journal[i].state = "ran"}
Decisions == DOMAIN journal \ Runs

\* A client of the gateway calls approve or deny itself, for a plan that waits, for one
\* that was decided, or for an id nobody was given (0): nothing runs.
Decide ==
  /\ Free /\ Cardinality(Decisions) < MaxEntries
  /\ \E id \in 0 .. issued :
       Deny(pending, id) \/ \E edit \in NoEditOrOne : Approve(pending, id, edit)
  /\ UNCHANGED <<issued, call>> /\ UNCHANGED devops

(***************************************************************************)
(* execute_approved, a step at a time.                                     *)
(***************************************************************************)
Todo == call.id # 0 /\ ~call.stopped /\ Len(call.results) < Len(call.steps)
Current == call.steps[Len(call.results) + 1]
Result(status, stop) ==
  call' = [call EXCEPT !.results = Append(@, [command |-> Current, status |-> status]),
                       !.stopped = stop]

\* A step is validated again: a blocked one is skipped.
BlockStep == Todo /\ ~Validate(Current) /\ Result("blocked", FALSE) /\ UNCHANGED devops

\* The others are run by a shell in the working tree; when the executor raises
\* (subprocess.run gives up after 30 s), that is the end: stop on error.
RunStep ==
  /\ Todo /\ Validate(Current)
  /\ Result("executed", FALSE) \/ Result("error", TRUE)
  /\ OutsideEdits

ExecuteStep == (BlockStep \/ RunStep) /\ UNCHANGED <<pending, issued, journal>>

ExecutedCount(r) == Cardinality({i \in DOMAIN r : r[i].status = "executed"})

\* log_execution: what was run, and how many of the results are "executed".
LogExecution ==
  /\ call.id # 0 /\ ~Todo
  /\ journal' = Append(journal, [id |-> call.id, state |-> "ran", edit |-> {},
                                 done |-> ExecutedCount(call.results), results |-> call.results])
  /\ call' = NoCall
  /\ UNCHANGED <<pending, issued>> /\ UNCHANGED devops

(***************************************************************************)
(* cmd_fix: a pass of the DevOps agent.  No plan, no question, no log.     *)
(***************************************************************************)
CmdFix == Free /\ Analyze /\ UNCHANGED gvars

FixStep == call = NoCall /\ (Gate \/ Apply \/ Commit) /\ UNCHANGED gvars

\* The pass has its verdict, or an exception ends it on the way.
FixEnds ==
  /\ stage # "off"
  /\ stage' = "off" /\ patch' = NoPatch
  /\ UNCHANGED <<tree, commits>> /\ UNCHANGED gvars

GatewayNext ==
  CmdPlan \/ CmdRun \/ Decide \/ ExecuteStep \/ LogExecution \/ CmdFix \/ FixStep \/ FixEnds
GatewaySpec == GatewayInit /\ DevOpsInit /\ [][GatewayNext]_<<gvars, devops>>

(***************************************************************************)
(* Properties.                                                             *)
(***************************************************************************)
\* A plan in the table is one nobody has decided.
WaitingUndecided == \A i \in Decisions : journal[i].id \notin DOMAIN pending

\* Entry k is the approval of that id, and nothing was ever logged on it before: neither
\* a denial nor an approval that was used already.
FirstWord(k, id) ==
  /\ k \in DOMAIN journal /\ journal[k].id = id /\ journal[k].state \in {"approved", "edited"}
  /\ \A h \in DOMAIN journal : h < k => journal[h].id # id

\* What was run had been approved, right before, and for the first time.
RanAsDecided ==
  /\ \A i \in Runs : FirstWord(i - 1, journal[i].id)
  /\ call # NoCall => FirstWord(Len(journal), call.id)

\* No step behind an error, and nothing run that validate refuses.
StoppedAtError(results) == \A i \in DOMAIN results :
  /\ results[i].status = "error" => i = Len(results)
  /\ (results[i].status = "blocked") = ~Validate(results[i].command)

\* No plan is executed without the user's word on it: a plan that waits was not decided, a
\* plan that ran had its approval right before and no denial ever, whatever approve and
\* deny are called with, and it stopped at its first error (taar_secure.py:43,
\* secure_execution_engine.py:70).
ConsentHolds ==
  /\ WaitingUndecided /\ RanAsDecided /\ StoppedAtError(call.results)
  /\ \A i \in Runs : StoppedAtError(journal[i].results)

\* "NO action executes without approval" (user_gateway.py:57): a patch is applied only
\* while the log ends with an approval that was not used.  cmd_fix asks nobody: the code
\* does not keep this (README, section 6), and no run checks it.
NoActionWithoutApproval ==
  stage = "commit" => journal # <<>> /\ journal[Len(journal)].state \in {"approved", "edited"}

\* 'user_response: "yes", "no", or edited command' (taar_secure.py:45): the user who
\* answers with an edited command gets that command run.  The steps that were shown run:
\* the code does not keep this (README, section 6), and no run checks it.
EditedIsWhatRuns == \A i \in Runs :
  journal[i - 1].edit # {} =>
    \A k \in DOMAIN journal[i].results : journal[i].results[k].command \in journal[i - 1].edit
=============================================================================
