------------------------------- MODULE DevOps -------------------------------
(* One pass of the self-healing agent (agents/devops_agent.py): analyse the
   log, generate a patch, pass the safety gate, apply it with a shell, commit
   and look at the pipeline.  The log is abstracted to the failure the patterns
   find in it, the command to whether a pattern of the gate matches it. *)
EXTENDS FiniteSets

VARIABLES
  stage,    \* where run() is: "off", "gate", "apply", "commit", or the status it returned
  patch,    \* the patch in hand
  tree,     \* patches whose edits are in the working tree and not committed
  commits   \* patches whose edits are committed; both may also hold Outside

devops == <<stage, patch, tree, commits>>

Failures == {"ruff", "import", "other"}
Patches == [failure : Failures, safe : BOOLEAN]
NoPatch == [failure |-> "other", safe |-> TRUE]
\* What others edit in the same working tree: no gate has seen it
Outside == [failure |-> "outside", safe |-> FALSE]
Verdicts == {"manual_review", "blocked", "error", "applied"}

\* generate_patch: only a ruff finding in a file and a missing module get a command
AutoApplicable(p) == p.failure \in {"ruff", "import"}

DevOpsInit ==
  /\ stage = "off" /\ patch = NoPatch /\ tree = {} /\ commits = {}

\* ANALYZE and GENERATE PATCH; what is not automatic is left to a human
Analyze ==
  /\ stage = "off"
  /\ patch' \in Patches
  /\ stage' = IF AutoApplicable(patch') THEN "gate" ELSE "manual_review"
  /\ UNCHANGED <<tree, commits>>

\* Mutant of Gate: what is blocked is applied as well.
GateWarns == stage = "gate" /\ stage' = "apply" /\ UNCHANGED <<patch, tree, commits>>
\* SAFETY GATE
Gate ==
  /\ stage = "gate"
  /\ stage' = IF patch.safe THEN "apply" ELSE "blocked"
  /\ UNCHANGED <<patch, tree, commits>>

\* apply_patch: exit codes 0 and 1 count as applied, any other and a timeout do not,
\* but each of them may have edited files
Apply ==
  /\ stage = "apply"
  /\ tree' \in {tree} \cup (IF patch.failure = "ruff" THEN {tree \cup {patch}} ELSE {})
  /\ stage' \in {"commit", "error"}
  /\ UNCHANGED <<patch, commits>>

\* _commit_changes adds everything in the tree; when git fails the result is "applied"
\* all the same, and what was edited waits for the next commit
Commit ==
  /\ stage = "commit"
  /\ \/ commits' = commits \cup tree /\ tree' = {}
     \/ UNCHANGED <<commits, tree>>
  /\ stage' = "applied"
  /\ UNCHANGED patch

DevOpsStep == Analyze \/ Gate \/ Apply \/ Commit

\* A shell command or another agent at work in the tree: it edits what it likes, commits
\* it, or discards what was there
OutsideEdits ==
  /\ tree' \in SUBSET (tree \cup commits \cup {Outside})
  /\ commits' \in SUBSET (tree \cup commits \cup {Outside})
  /\ UNCHANGED <<stage, patch>>

-----------------------------------------------------------------------------
Vetted(p) == AutoApplicable(p) /\ p.safe

\* A pass changes the tree and the history only with a command in hand that the agent may
\* run by itself and the gate let through, and commits nothing but what lay in the tree:
\* its own edits, those of an earlier pass that failed, and (git add -A takes all there
\* is) what others left there.  So whatever is not of others was vetted.
CommitsAreVetted ==
  /\ [](\A p \in tree \cup commits : p = Outside \/ Vetted(p))
  /\ [][stage # "off" /\ (tree' # tree \/ commits' # commits) =>
          Vetted(patch) /\ tree' \subseteq tree \cup {patch}
                       /\ commits' \subseteq commits \cup tree]_devops
=============================================================================
