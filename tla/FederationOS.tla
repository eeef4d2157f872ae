---------------------------- MODULE FederationOS ----------------------------
(***************************************************************************)
(* ATOMFederationOS.run, the ten steps from the user's text to the         *)
(* broadcast, with the adapters the bootstrap wires in and the AABS        *)
(* gateway it calls (aabs_gateway.py).  The loop is a parameter of the     *)
(* class: a Simulation is what any loop may answer, the adapter's own      *)
(* answer among them, and any call of it, of the gateway, of the           *)
(* federation or of the audit log may raise, as the loop that bootstrap    *)
(* takes from core/ does at its first call.  run() catches nothing.        *)
(* One run at a time: the class is not shared.                             *)
(***************************************************************************)
EXTENDS Naturals, Sequences, FiniteSets

CONSTANTS Texts,        \* records [elevated]: the text names sudo or rm -rf
          Simulations,  \* records [risk, destructive], risk in tenths
          OsPlans,      \* sequences of steps [type, service]
          MaxRuns       \* bound: runs of the session
\* A plan is a list of steps.
ASSUME PlanAssumption == OsPlans \subseteq Seq([type : STRING, service : STRING])

VARIABLES os,           \* the run under way
          runs,         \* _run_count
          audit,        \* entries handed to audit.log
          events,       \* broadcasts of the federation
          aabsLog,      \* _log and _counts of the gateway
          answers       \* what run() gave its caller: "raised", or the VerificationResult
osvars == <<os, runs, audit, events, aabsLog, answers>>

Registered == {"firecrawl", "instantly", "composio", "agentmail"}
IdleOs == [at |-> "idle", id |-> 0, text |-> {}, sim |-> {}, plan |-> <<>>, results |-> <<>>]
OsInit == os = IdleOs /\ runs = 0 /\ audit = <<>> /\ events = <<>> /\ answers = <<>>
          /\ aabsLog = [log |-> <<>>, counts |-> [s \in Registered |-> 0]]

\* Steps 1 to 3: parse, simulate, risk.
RunOs ==
  /\ os.at = "idle" /\ runs < MaxRuns
  /\ runs' = runs + 1
  /\ \E t \in Texts, s \in Simulations :
       os' = [IdleOs EXCEPT !.at = "gate", !.id = runs', !.text = {t}, !.sim = {s}]
  /\ UNCHANGED <<audit, events, aabsLog, answers>>

\* The run is over: it returns or raises.
Ends(answer) == os' = IdleOs /\ answers' = Append(answers, answer)

\* policy_gate: what the simulation flags, and what the text itself names.
PolicyGate(t, s) == ~s.destructive /\ s.risk < 7 /\ ~t.elevated

\* Mutant of Block: the run is refused in silence.
BlockInSilence(reason) == Ends("blocked") /\ UNCHANGED <<events, audit>>

\* _block broadcasts, but leaves no entry in the audit log.
Block(reason) ==
  /\ events' = Append(events, [id |-> os.id, status |-> "BLOCKED", reason |-> reason])
  /\ Ends("blocked") /\ UNCHANGED audit

\* Steps 3a to 5: a risk of 0.7 blocks, one of 0.3 warns and goes on.
Gate ==
  /\ os.at = "gate"
  /\ \E t \in os.text, s \in os.sim :
       \/ s.risk >= 7 /\ Block("HIGH_RISK")
       \/ s.risk < 7 /\ ~PolicyGate(t, s) /\ Block("POLICY_VETO")
       \/ s.risk < 7 /\ PolicyGate(t, s) /\ \E p \in OsPlans :
            os' = [os EXCEPT !.at = "execute", !.plan = p] /\ UNCHANGED <<events, audit, answers>>
  /\ UNCHANGED <<runs, aabsLog>>

\* AABSGateway.call: an unknown service is logged and not counted; without a key
\* a registered one answers NO_KEY, which is logged and counted.
AabsCall(service) ==
  aabsLog' = [log |-> Append(aabsLog.log, service),
              counts |-> [s \in Registered |-> aabsLog.counts[s] + IF s = service THEN 1 ELSE 0]]

RunLocal == "executed"
Dispatch == "stub_dispatched"

\* _execute, a step at a time; a type nobody knows leaves no result.
ExecuteOsStep ==
  /\ os.at = "execute" /\ os.plan # <<>>
  /\ LET step == os.plan[1]
         result == CASE step.type = "local_tool" -> <<RunLocal>> [] step.type = "aabs" -> <<"aabs">>
                     [] step.type = "swarm" -> <<Dispatch>> [] OTHER -> <<>>
     IN /\ IF step.type = "aabs" THEN AabsCall(step.service) ELSE UNCHANGED aabsLog
        /\ os' = [os EXCEPT !.plan = Tail(@), !.results = @ \o result]
  /\ UNCHANGED <<runs, audit, events, answers>>

AuditLogged(valid) ==
  audit' = Append(audit, [id |-> os.id, valid |-> valid, results |-> os.results])

\* Steps 7 to 10: verify (the adapter's is always valid), audit, broadcast.
Conclude ==
  /\ os.at = "execute" /\ os.plan = <<>>
  /\ \E valid \in BOOLEAN :
       /\ AuditLogged(valid)
       /\ events' = Append(events, [id |-> os.id, status |-> IF valid THEN "DONE" ELSE "BLOCKED",
                                    reason |-> "verified"])
       /\ Ends(IF valid THEN "valid" ELSE "invalid")
  /\ UNCHANGED <<runs, aabsLog>>

\* A call raises, anywhere before the broadcast: the run is counted and no more.
Raises ==
  /\ os.at # "idle"
  /\ Ends("raised")
  /\ UNCHANGED <<runs, audit, events, aabsLog>>

\* The broadcast itself raises: the audit log has the run.
BroadcastRaises ==
  /\ os.at = "execute" /\ os.plan = <<>>
  /\ \E valid \in BOOLEAN : AuditLogged(valid)
  /\ Ends("raised")
  /\ UNCHANGED <<runs, events, aabsLog>>

OsNext == RunOs \/ Gate \/ ExecuteOsStep \/ Conclude \/ Raises \/ BroadcastRaises
OsSpec == OsInit /\ [][OsNext]_osvars

(***************************************************************************)
(* Properties.                                                             *)
(***************************************************************************)
\* What the caller was told, the broadcasts, the audit log and the gateway agree,
\* whichever run raised where: a run that returned was broadcast exactly once and
\* in order, "DONE" exactly when it returned a valid verification, one that raised
\* never was; the audit log has every run whose verification was broadcast, once,
\* and no other but one whose broadcast raised; the gateway counts no call it did
\* not log.
EventsFollowRuns ==
  /\ Len(answers) = runs - (IF os = IdleOs THEN 0 ELSE 1)
  /\ {events[n].id : n \in DOMAIN events} = {k \in DOMAIN answers : answers[k] # "raised"}
  /\ \A m, n \in DOMAIN events : m < n => events[m].id < events[n].id
  /\ \A m, n \in DOMAIN audit : m < n => audit[m].id < audit[n].id
  /\ \A n \in DOMAIN events : (events[n].status = "DONE") = (answers[events[n].id] = "valid")
  /\ {events[n].id : n \in {m \in DOMAIN events : events[m].reason = "verified"}}
       = {i \in {audit[k].id : k \in DOMAIN audit} : answers[i] # "raised"}
  /\ \A k \in DOMAIN audit :
       answers[audit[k].id] \in {"raised", IF audit[k].valid THEN "valid" ELSE "invalid"}
  /\ \A s \in Registered : aabsLog.counts[s] =
       Cardinality({k \in DOMAIN aabsLog.log : aabsLog.log[k] = s})
=============================================================================
