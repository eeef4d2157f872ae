-------------------------- MODULE GovernanceProofs --------------------------
(***************************************************************************)
(* What is proved of the programs that give out money or permission, each  *)
(* of them by itself: the policy kernels, the layers over them, the        *)
(* federation's kernel and pipeline, the way of a decision to the          *)
(* infrastructure, the meta-orchestration, and the markets: the economy,   *)
(* the corporation, the job exchange, the fabric and the civilization.     *)
(***************************************************************************)
EXTENDS Economy, Corporation, TaskMarket, Fabric, Civilization,
        ProofLayer, FederationKernel, FederationOS, Reality, Meta, CollectionLemmas

-----------------------------------------------------------------------------
Severities == {"veto", "escalate", "block", "allow"}
Evaluation == [rule : RuleIds, verdict : Severities]
Judged == [plan : Plans, evals : SUBSET Evaluation, final : Severities]
Decided == [status : {"VETO", "BLOCK", "ALLOW"}, action : Actions]
Box == [mode : {"contained", "limited", "operational"}, read_only : BOOLEAN]

\* The entries of a log in which a rule was broken, or that have a status.
Broken(r, old) == {i \in DOMAIN old : \E e \in old[i].evals : e.rule = r /\ e.verdict # "allow"}
Having(status, s) == {i \in DOMAIN s : s[i].status = status}

V1Inv ==
  /\ k1 = [active |-> k1.active, violations |-> k1.violations, log |-> k1.log, total |-> k1.total]
  /\ k1.active \subseteq RuleIds /\ k1.log \in Seq(Judged) /\ k1.total = Len(k1.log)
  /\ \A r \in RuleIds : k1.violations[r] = Cardinality(Broken(r, k1.log))
  /\ VetoWins

V2Inv ==
  /\ k2 = [evaluated |-> k2.evaluated, vetoed |-> k2.vetoed, blocked |-> k2.blocked,
           allowed |-> k2.allowed, audit |-> k2.audit]
  /\ k2.evaluated \in Nat /\ k2.vetoed \in Nat /\ k2.blocked \in Nat /\ k2.allowed \in Nat
  /\ k2.audit \in Seq(Decided)
  /\ k2.evaluated = k2.vetoed + k2.blocked + k2.allowed
  /\ k2.vetoed = Cardinality(Having("VETO", k2.audit))
  /\ k2.blocked = Cardinality(Having("BLOCK", k2.audit))
  /\ \A i \in DOMAIN k2.audit : k2.audit[i].status = "ALLOW" =>
       ~k2.audit[i].action.forbidden /\ k2.audit[i].action.intent # "unsafe"

V3Fields(k) ==
  k = [evals |-> k.evals, vetoes |-> k.vetoes, blocks |-> k.blocks, allows |-> k.allows,
       checks |-> k.checks, semantic |-> k.semantic, boxes |-> k.boxes, let_through |-> k.let_through]

V3Inv ==
  /\ V3Fields(k3)
  /\ k3.evals \in Nat /\ k3.vetoes \in Nat /\ k3.blocks \in Nat /\ k3.allows \in Nat
  /\ k3.checks \in Nat /\ k3.semantic \in Nat /\ k3.boxes \in Seq(Box)
  /\ k3.evals = k3.vetoes + k3.blocks + k3.allows
  /\ k3.checks = k3.semantic + k3.allows /\ Len(k3.boxes) = k3.allows
  /\ \A a \in k3.let_through : a.signed /\ ~a.forbidden /\ a.intent # "unsafe"

V4Inv ==
  /\ (k4.verdict = "allow") <=> (k4.steps = Stages)
  /\ k4.verdict = "allow" => \A a \in k4.of : a.signed /\ ~a.forbidden /\ a.intent # "unsafe"

KernelsInv == V1Inv /\ V2Inv /\ V3Inv /\ V4Inv

-----------------------------------------------------------------------------
\* Every rule has a severity, and a verdict is one of the four.
LEMMA RuleVerdict ==
  ASSUME NEW r \in RuleIds, NEW p
  PROVE  EvaluateRule(r, p) \in Evaluation /\ EvaluateRule(r, p).rule = r
  <1>1. DefaultRules[r] \in Severities
    BY DEF RuleIds, DefaultRules, Severities
  <1>2. (IF ConditionMet(r, p) THEN DefaultRules[r] ELSE "allow") \in Severities
    BY <1>1 DEF Severities
  <1> QED
    BY <1>2 DEF EvaluateRule, Evaluation

LEMMA V1Keeps == V1Inv /\ EvaluateV1 => V1Inv'
  <1> SUFFICES ASSUME V1Inv, EvaluateV1 PROVE V1Inv'
    OBVIOUS
  <1>1. PICK p \in Plans :
          LET evals == {EvaluateRule(r, p) : r \in k1.active}
              final == FinalVerdict({e.verdict : e \in evals})
          IN k1' = [k1 EXCEPT
               !.total = @ + 1,
               !.violations = [r \in RuleIds |->
                  @[r] + IF \E e \in evals : e.rule = r /\ e.verdict # "allow" THEN 1 ELSE 0],
               !.log = Append(@, [plan |-> p, evals |-> evals, final |-> final])]
    BY DEF EvaluateV1
  <1> DEFINE evals == {EvaluateRule(r, p) : r \in k1.active}
             final == FinalVerdict({e.verdict : e \in evals})
             entry == [plan |-> p, evals |-> evals, final |-> final]
             old == k1.log
  <1>2. /\ k1'.log = Append(old, entry) /\ k1'.total = k1.total + 1 /\ k1'.active = k1.active
        /\ \A r \in RuleIds : k1'.violations[r] = k1.violations[r] +
              IF \E e \in evals : e.rule = r /\ e.verdict # "allow" THEN 1 ELSE 0
        /\ k1' = [active |-> k1'.active, violations |-> k1'.violations, log |-> k1'.log,
                  total |-> k1'.total]
    BY <1>1 DEF V1Inv
  <1>3. evals \in SUBSET Evaluation
    BY RuleVerdict DEF V1Inv
  <1>4. final \in Severities /\ ((final = "veto") <=> (\E e \in evals : e.verdict = "veto"))
    <2> DEFINE verdicts == {e.verdict : e \in evals}
    <2>1. ("veto" \in verdicts) <=> (\E e \in evals : e.verdict = "veto")
      OBVIOUS
    <2> HIDE DEF evals, verdicts
    <2>2. FinalVerdict(verdicts) \in Severities
          /\ ((FinalVerdict(verdicts) = "veto") <=> ("veto" \in verdicts))
      BY DEF FinalVerdict, Severities
    <2> QED
      BY <2>1, <2>2 DEF verdicts
  <1> HIDE DEF evals, final
  <1>5. entry \in Judged /\ entry.evals = evals /\ entry.final = final
    BY <1>3, <1>4 DEF Judged
  <1> HIDE DEF entry
  <1>6. old \in Seq(Judged)
    BY DEF V1Inv
  <1>7. /\ k1'.log \in Seq(Judged) /\ Len(old) \in Nat /\ DOMAIN old = 1 .. Len(old)
        /\ Len(k1'.log) = Len(old) + 1
        /\ \A i \in DOMAIN old : k1'.log[i] = old[i] /\ i \in DOMAIN k1'.log
        /\ k1'.log[Len(old) + 1] = entry /\ Len(old) + 1 \in DOMAIN k1'.log
        /\ \A i \in DOMAIN k1'.log : i = Len(old) + 1 \/ i \in DOMAIN old
    BY <1>2, <1>5, <1>6, AppendedTo
  <1>8. ASSUME NEW r \in RuleIds
        PROVE  k1'.violations[r] = Cardinality(Broken(r, k1'.log))
    <2>1. Broken(r, old) \in SUBSET (1 .. Len(old))
      BY <1>7 DEF Broken
    <2>2. Broken(r, k1'.log) = IF \E e \in evals : e.rule = r /\ e.verdict # "allow"
                               THEN Broken(r, old) \cup {Len(old) + 1} ELSE Broken(r, old)
      BY <1>5, <1>7 DEF Broken
    <2>3. /\ Cardinality(Broken(r, old)) \in Nat
          /\ Cardinality(Broken(r, old) \cup {Len(old) + 1}) = Cardinality(Broken(r, old)) + 1
      BY <1>7, <2>1, CountNumbers
    <2>4. k1.violations[r] = Cardinality(Broken(r, old))
      BY DEF V1Inv
    <2> QED
      BY <1>2, <2>2, <2>3, <2>4
  <1>9. VetoWins'
    BY <1>4, <1>5, <1>7 DEF V1Inv, VetoWins
  <1> QED
    BY <1>2, <1>7, <1>8, <1>9 DEF V1Inv

LEMMA DeactivateKeeps == V1Inv /\ DeactivateRule => V1Inv'
  <1> SUFFICES ASSUME V1Inv, DeactivateRule PROVE V1Inv'
    OBVIOUS
  <1>1. PICK r \in Retired \cap k1.active : k1' = [k1 EXCEPT !.active = @ \ {r}]
    BY DEF DeactivateRule
  <1>2. /\ k1'.active = k1.active \ {r} /\ k1'.log = k1.log /\ k1'.total = k1.total
        /\ k1'.violations = k1.violations
        /\ k1' = [active |-> k1'.active, violations |-> k1'.violations, log |-> k1'.log,
                  total |-> k1'.total]
    BY <1>1 DEF V1Inv
  <1> QED
    BY <1>2 DEF V1Inv, VetoWins

-----------------------------------------------------------------------------
\* A verdict of v2 is counted under its name and noted with its action.
LEMMA V2Tallies ==
  ASSUME V2Inv, NEW a \in Actions, NEW status \in {"VETO", "BLOCK", "ALLOW"},
         status = "ALLOW" => ~a.forbidden /\ a.intent # "unsafe",
         \/ status = "VETO" /\ k2' = [Tallied(k2, status, a) EXCEPT !.vetoed = @ + 1]
         \/ status = "BLOCK" /\ k2' = [Tallied(k2, status, a) EXCEPT !.blocked = @ + 1]
         \/ status = "ALLOW" /\ k2' = [Tallied(k2, status, a) EXCEPT !.allowed = @ + 1]
  PROVE  V2Inv'
  <1> DEFINE entry == [status |-> status, action |-> a]
             old == k2.audit
             tallied == Tallied(k2, status, a)
  <1>0. ASSUME NEW t, t = tallied
        PROVE  /\ DOMAIN t = {"evaluated", "vetoed", "blocked", "allowed", "audit"}
               /\ t.evaluated = k2.evaluated + 1 /\ t.vetoed = k2.vetoed
               /\ t.blocked = k2.blocked /\ t.allowed = k2.allowed /\ t.audit = Append(old, entry)
               /\ t = [evaluated |-> t.evaluated, vetoed |-> t.vetoed, blocked |-> t.blocked,
                       allowed |-> t.allowed, audit |-> t.audit]
    BY <1>0 DEF V2Inv, Tallied
  <1>b. /\ tallied.evaluated = k2.evaluated + 1 /\ tallied.vetoed = k2.vetoed
        /\ tallied.blocked = k2.blocked /\ tallied.allowed = k2.allowed
        /\ tallied.audit = Append(old, entry)
        /\ tallied = [evaluated |-> tallied.evaluated, vetoed |-> tallied.vetoed,
                      blocked |-> tallied.blocked, allowed |-> tallied.allowed, audit |-> tallied.audit]
    BY <1>0
  <1>a. k2.vetoed \in Nat /\ k2.blocked \in Nat /\ k2.allowed \in Nat
    BY DEF V2Inv
  <1> HIDE DEF tallied, entry
  <1>1. /\ k2'.audit = Append(old, entry) /\ k2'.evaluated = k2.evaluated + 1
        /\ k2'.vetoed = k2.vetoed + (IF status = "VETO" THEN 1 ELSE 0)
        /\ k2'.blocked = k2.blocked + (IF status = "BLOCK" THEN 1 ELSE 0)
        /\ k2'.allowed = k2.allowed + (IF status = "ALLOW" THEN 1 ELSE 0)
        /\ k2' = [evaluated |-> k2'.evaluated, vetoed |-> k2'.vetoed, blocked |-> k2'.blocked,
                  allowed |-> k2'.allowed, audit |-> k2'.audit]
    <2>1. CASE status = "VETO" /\ k2' = [tallied EXCEPT !.vetoed = @ + 1]
      BY <1>b, <1>a, <2>1
    <2>2. CASE status = "BLOCK" /\ k2' = [tallied EXCEPT !.blocked = @ + 1]
      BY <1>b, <1>a, <2>2
    <2>3. CASE status = "ALLOW" /\ k2' = [tallied EXCEPT !.allowed = @ + 1]
      BY <1>b, <1>a, <2>3
    <2> QED
      BY <2>1, <2>2, <2>3 DEF tallied
  <1>2. entry \in Decided /\ entry.status = status /\ entry.action = a
    BY DEF Decided, entry
  <1>3. old \in Seq(Decided)
    BY DEF V2Inv
  <1>4. /\ k2'.audit \in Seq(Decided) /\ Len(old) \in Nat /\ DOMAIN old = 1 .. Len(old)
        /\ \A i \in DOMAIN old : k2'.audit[i] = old[i] /\ i \in DOMAIN k2'.audit
        /\ k2'.audit[Len(old) + 1] = entry /\ Len(old) + 1 \in DOMAIN k2'.audit
        /\ \A i \in DOMAIN k2'.audit : i = Len(old) + 1 \/ i \in DOMAIN old
    BY <1>1, <1>2, <1>3, AppendedTo
  <1>5. ASSUME NEW q
        PROVE  /\ Cardinality(Having(q, old)) \in Nat
               /\ Cardinality(Having(q, k2'.audit)) =
                    Cardinality(Having(q, old)) + (IF q = status THEN 1 ELSE 0)
    <2>1. Having(q, old) \in SUBSET (1 .. Len(old))
      BY <1>4 DEF Having
    <2>2. Having(q, k2'.audit) = IF q = status THEN Having(q, old) \cup {Len(old) + 1}
                                 ELSE Having(q, old)
      BY <1>2, <1>4 DEF Having
    <2>3. /\ Cardinality(Having(q, old)) \in Nat
          /\ Cardinality(Having(q, old) \cup {Len(old) + 1}) = Cardinality(Having(q, old)) + 1
      BY <1>4, <2>1, CountNumbers
    <2> QED
      BY <2>2, <2>3
  <1>6. /\ k2'.vetoed = Cardinality(Having("VETO", k2'.audit))
        /\ k2'.blocked = Cardinality(Having("BLOCK", k2'.audit))
    BY <1>1, <1>5 DEF V2Inv
  <1>7. /\ k2'.evaluated \in Nat /\ k2'.vetoed \in Nat /\ k2'.blocked \in Nat /\ k2'.allowed \in Nat
        /\ k2'.evaluated = k2'.vetoed + k2'.blocked + k2'.allowed
    BY <1>1 DEF V2Inv
  <1>8. \A i \in DOMAIN k2'.audit : k2'.audit[i].status = "ALLOW" =>
          ~k2'.audit[i].action.forbidden /\ k2'.audit[i].action.intent # "unsafe"
    BY <1>2, <1>4 DEF V2Inv
  <1> QED
    BY <1>1, <1>4, <1>6, <1>7, <1>8 DEF V2Inv

LEMMA V2Keeps == V2Inv /\ EvaluateV2 => V2Inv'
  <1> SUFFICES ASSUME V2Inv, EvaluateV2 PROVE V2Inv'
    OBVIOUS
  <1>1. PICK a \in Actions :
          k2' = IF ~Law1(a) THEN [Tallied(k2, "VETO", a) EXCEPT !.vetoed = @ + 1]
                ELSE IF ~Law2(a) THEN [Tallied(k2, "BLOCK", a) EXCEPT !.blocked = @ + 1]
                ELSE IF ~Law3(a) THEN [Tallied(k2, "BLOCK", a) EXCEPT !.blocked = @ + 1]
                ELSE [Tallied(k2, "ALLOW", a) EXCEPT !.allowed = @ + 1]
    BY DEF EvaluateV2
  <1>2. CASE k2' = [Tallied(k2, "VETO", a) EXCEPT !.vetoed = @ + 1]
    BY <1>2, V2Tallies
  <1>3. CASE k2' = [Tallied(k2, "BLOCK", a) EXCEPT !.blocked = @ + 1]
    BY <1>3, V2Tallies
  <1>4. CASE Law1(a) /\ Law2(a) /\ k2' = [Tallied(k2, "ALLOW", a) EXCEPT !.allowed = @ + 1]
    <2>1. ~a.forbidden /\ a.intent # "unsafe"
      BY <1>4 DEF Law1, Law2
    <2> QED
      BY <1>4, <2>1, V2Tallies
  <1> QED
    BY <1>1, <1>2, <1>3, <1>4

-----------------------------------------------------------------------------
\* A refusal counts the evaluation and one kind of answer.
LEMMA DeniedFields ==
  ASSUME NEW k, V3Fields(k), k.evals \in Nat, k.vetoes \in Nat, k.blocks \in Nat, k.allows \in Nat,
         NEW counter \in {"vetoes", "blocks", "allows"}, NEW d, d = Denied(k, counter)
  PROVE  /\ V3Fields(d) /\ d.evals = k.evals + 1
         /\ d.vetoes = (IF counter = "vetoes" THEN k.vetoes + 1 ELSE k.vetoes)
         /\ d.blocks = (IF counter = "blocks" THEN k.blocks + 1 ELSE k.blocks)
         /\ d.allows = (IF counter = "allows" THEN k.allows + 1 ELSE k.allows)
         /\ d.checks = k.checks /\ d.semantic = k.semantic /\ d.boxes = k.boxes
         /\ d.let_through = k.let_through
  <1>1. CASE counter = "vetoes"
    BY <1>1 DEF V3Fields, Denied
  <1>2. CASE counter = "blocks"
    BY <1>2 DEF V3Fields, Denied
  <1>3. CASE counter = "allows"
    BY <1>3 DEF V3Fields, Denied
  <1> QED
    BY <1>1, <1>2, <1>3

LEMMA V3Keeps == V3Inv /\ EvaluateV3 => V3Inv'
  <1> SUFFICES ASSUME V3Inv, EvaluateV3 PROVE V3Inv'
    OBVIOUS
  <1>1. PICK a \in Actions :
          k3' = IF ~ValidateTrust(a) \/ a.forbidden THEN Denied(k3, "vetoes")
                ELSE IF ~HasCapability(a) THEN Denied(k3, "blocks")
                ELSE IF ~SemanticCheck(a)
                     THEN [Denied(k3, "blocks") EXCEPT !.checks = @ + 1, !.semantic = @ + 1]
                ELSE [Denied(k3, "allows") EXCEPT !.checks = @ + 1,
                        !.boxes = PrepareSandbox(@, a.role), !.let_through = @ \cup {a}]
    BY DEF EvaluateV3
  <1>2. CASE k3' = Denied(k3, "vetoes")
    <2>1. V3Fields(k3') /\ k3'.evals = k3.evals + 1 /\ k3'.vetoes = k3.vetoes + 1
          /\ k3'.blocks = k3.blocks + 0 /\ k3'.allows = k3.allows /\ k3'.checks = k3.checks
          /\ k3'.semantic = k3.semantic /\ k3'.boxes = k3.boxes /\ k3'.let_through = k3.let_through
      <3> DEFINE denied == Denied(k3, "vetoes")
      <3>1. /\ V3Fields(denied) /\ denied.evals = k3.evals + 1 /\ denied.allows = k3.allows
            /\ denied.vetoes = k3.vetoes + 1 /\ denied.blocks = k3.blocks + 0
            /\ denied.checks = k3.checks /\ denied.semantic = k3.semantic
            /\ denied.boxes = k3.boxes /\ denied.let_through = k3.let_through
        BY DeniedFields DEF V3Inv
      <3> HIDE DEF denied
      <3> QED
        BY <1>2, <3>1 DEF denied
    <2> QED
      BY <2>1 DEF V3Inv, V3Fields
  <1>3. CASE k3' = Denied(k3, "blocks")
    <2>1. V3Fields(k3') /\ k3'.evals = k3.evals + 1 /\ k3'.vetoes = k3.vetoes + 0
          /\ k3'.blocks = k3.blocks + 1 /\ k3'.allows = k3.allows /\ k3'.checks = k3.checks
          /\ k3'.semantic = k3.semantic /\ k3'.boxes = k3.boxes /\ k3'.let_through = k3.let_through
      <3> DEFINE denied == Denied(k3, "blocks")
      <3>1. /\ V3Fields(denied) /\ denied.evals = k3.evals + 1 /\ denied.allows = k3.allows
            /\ denied.vetoes = k3.vetoes + 0 /\ denied.blocks = k3.blocks + 1
            /\ denied.checks = k3.checks /\ denied.semantic = k3.semantic
            /\ denied.boxes = k3.boxes /\ denied.let_through = k3.let_through
        BY DeniedFields DEF V3Inv
      <3> HIDE DEF denied
      <3> QED
        BY <1>3, <3>1 DEF denied
    <2> QED
      BY <2>1 DEF V3Inv, V3Fields
  <1>4. CASE k3' = [Denied(k3, "blocks") EXCEPT !.checks = @ + 1, !.semantic = @ + 1]
    <2> DEFINE denied == Denied(k3, "blocks")
    <2>1. V3Fields(denied) /\ denied.evals = k3.evals + 1 /\ denied.vetoes = k3.vetoes
          /\ denied.blocks = k3.blocks + 1 /\ denied.allows = k3.allows
          /\ denied.checks = k3.checks /\ denied.semantic = k3.semantic
          /\ denied.boxes = k3.boxes /\ denied.let_through = k3.let_through
      BY DeniedFields DEF V3Inv
    <2> HIDE DEF denied
    <2>2. V3Fields(k3') /\ k3'.evals = denied.evals /\ k3'.vetoes = denied.vetoes
          /\ k3'.blocks = denied.blocks /\ k3'.allows = denied.allows
          /\ k3'.checks = denied.checks + 1 /\ k3'.semantic = denied.semantic + 1
          /\ k3'.boxes = denied.boxes /\ k3'.let_through = denied.let_through
      BY <1>4, <2>1 DEF V3Fields, denied
    <2> QED
      BY <2>1, <2>2 DEF V3Inv, V3Fields
  <1>5. CASE /\ ValidateTrust(a) /\ ~a.forbidden /\ SemanticCheck(a)
             /\ k3' = [Denied(k3, "allows") EXCEPT !.checks = @ + 1,
                         !.boxes = PrepareSandbox(@, a.role), !.let_through = @ \cup {a}]
    <2> DEFINE mode == SandboxMode(a.role)
               box == [mode |-> mode, read_only |-> mode = "contained"]
    <2>1. /\ k3'.evals = k3.evals + 1 /\ k3'.allows = k3.allows + 1 /\ k3'.checks = k3.checks + 1
          /\ k3'.vetoes = k3.vetoes /\ k3'.blocks = k3.blocks /\ k3'.semantic = k3.semantic
          /\ k3'.boxes = PrepareSandbox(k3.boxes, a.role) /\ k3'.let_through = k3.let_through \cup {a}
          /\ V3Fields(k3')
      <3> DEFINE allowed == Denied(k3, "allows")
      <3>1. V3Fields(allowed) /\ allowed.evals = k3.evals + 1 /\ allowed.vetoes = k3.vetoes
            /\ allowed.blocks = k3.blocks /\ allowed.allows = k3.allows + 1
            /\ allowed.checks = k3.checks /\ allowed.semantic = k3.semantic
            /\ allowed.boxes = k3.boxes /\ allowed.let_through = k3.let_through
        BY DeniedFields DEF V3Inv
      <3> HIDE DEF allowed
      <3>2. k3' = [allowed EXCEPT !.checks = @ + 1, !.boxes = PrepareSandbox(@, a.role),
                                  !.let_through = @ \cup {a}]
        BY <1>5 DEF allowed
      <3> QED
        BY <3>1, <3>2 DEF V3Fields
    <2>2. mode \in {"contained", "limited", "operational"}
      BY DEF SandboxMode
    <2> HIDE DEF mode
    <2>3. box \in Box
      BY <2>2 DEF Box
    <2>4. PrepareSandbox(k3.boxes, a.role) = Append(k3.boxes, box)
      BY DEF PrepareSandbox, mode
    <2> HIDE DEF box
    <2>5. k3'.boxes \in Seq(Box) /\ Len(k3'.boxes) = Len(k3.boxes) + 1
      BY <2>1, <2>3, <2>4, AppendedTo DEF V3Inv
    <2>6. a.signed /\ ~a.forbidden /\ a.intent # "unsafe"
      BY <1>5 DEF ValidateTrust, SemanticCheck
    <2>7. \A b \in k3'.let_through : b.signed /\ ~b.forbidden /\ b.intent # "unsafe"
      BY <2>1, <2>6 DEF V3Inv
    <2>8. k3'.boxes \in Seq(Box) /\ Len(k3'.boxes) = k3'.allows
      BY <2>1, <2>5 DEF V3Inv
    <2>9. /\ k3'.evals \in Nat /\ k3'.vetoes \in Nat /\ k3'.blocks \in Nat /\ k3'.allows \in Nat
          /\ k3'.checks \in Nat /\ k3'.semantic \in Nat
          /\ k3'.evals = k3'.vetoes + k3'.blocks + k3'.allows
          /\ k3'.checks = k3'.semantic + k3'.allows
      <3>1. /\ k3.evals \in Nat /\ k3.vetoes \in Nat /\ k3.blocks \in Nat /\ k3.allows \in Nat
            /\ k3.checks \in Nat /\ k3.semantic \in Nat
            /\ k3.evals = k3.vetoes + k3.blocks + k3.allows
            /\ k3.checks = k3.semantic + k3.allows
        BY DEF V3Inv
      <3> QED
        BY <2>1, <3>1
    <2> HIDE DEF box, mode
    <2> QED
      BY <2>1, <2>7, <2>8, <2>9 DEF V3Inv, V3Fields
  <1> QED
    BY <1>1, <1>2, <1>3, <1>4, <1>5

\* Only the whole trace is the six stages.
LEMMA TraceOf ==
  ASSUME NEW n \in {1, 2, 3, 6}
  PROVE  (SubSeq(Stages, 1, n) = Stages) <=> (n = 6)
  <1>1. Stages \in Seq({"TRUST_CHECK", "CAPABILITY_CHECK", "SEMANTIC_CHECK", "SANDBOX_BIND", "EXECUTE",
                        "AUDIT_FINALIZE"}) /\ Len(Stages) = 6
    BY DEF Stages
  <1>2. Len(SubSeq(Stages, 1, n)) = n
    BY <1>1
  <1>3. SubSeq(Stages, 1, 6) = Stages
    BY <1>1
  <1> QED
    BY <1>1, <1>2, <1>3

LEMMA V4Keeps == EvaluateV4 => V4Inv'
  <1> SUFFICES ASSUME EvaluateV4 PROVE V4Inv'
    OBVIOUS
  <1>1. PICK a \in Actions :
          \/ Traced(1, "veto", a) \/ Traced(2, "block", a) \/ Traced(2, "veto", a)
          \/ Traced(3, "block", a)
          \/ a.signed /\ ~a.forbidden /\ SemanticCheck(a) /\ Traced(6, "allow", a)
    BY DEF EvaluateV4
  <1>2. ASSUME NEW n \in {1, 2, 3}, NEW v \in {"veto", "block"}, Traced(n, v, a) PROVE V4Inv'
    BY <1>2, TraceOf DEF Traced, V4Inv
  <1>3. CASE a.signed /\ ~a.forbidden /\ SemanticCheck(a) /\ Traced(6, "allow", a)
    BY <1>3, TraceOf DEF Traced, V4Inv, SemanticCheck
  <1> QED
    BY <1>1, <1>2, <1>3

-----------------------------------------------------------------------------
LEMMA KernelsAtFirst == KernelsInit => KernelsInv
  <1> SUFFICES ASSUME KernelsInit PROVE KernelsInv
    OBVIOUS
  <1>1. V1Inv
    <2>0. DOMAIN <<>> = {}
      OBVIOUS
    <2>1. \A r \in RuleIds : Broken(r, <<>>) = {}
      BY <2>0, Zenon DEF Broken
    <2>2. \A r \in RuleIds : k1.violations[r] = 0 /\ Cardinality(Broken(r, k1.log)) = 0
      BY <2>1, FS_EmptySet DEF KernelsInit
    <2>3. VetoWins
      BY DEF KernelsInit, VetoWins
    <2> QED
      BY <2>2, <2>3 DEF KernelsInit, V1Inv
  <1>2. V2Inv
    <2>1. \A q : Having(q, <<>>) = {}
      BY DEF Having
    <2>2. Cardinality(Having("VETO", k2.audit)) = 0 /\ Cardinality(Having("BLOCK", k2.audit)) = 0
      BY <2>1, FS_EmptySet DEF KernelsInit
    <2> QED
      BY <2>2 DEF KernelsInit, V2Inv
  <1>3. V3Inv
    BY DEF KernelsInit, V3Inv, V3Fields
  <1>4. V4Inv
    <2>1. <<>> # Stages
      BY DEF Stages
    <2> QED
      BY <2>1 DEF KernelsInit, V4Inv
  <1> QED
    BY <1>1, <1>2, <1>3, <1>4 DEF KernelsInv

LEMMA KernelsStep == KernelsInv /\ [KernelsNext]_kvars => KernelsInv'
  <1> SUFFICES ASSUME KernelsInv, [KernelsNext]_kvars PROVE KernelsInv'
    OBVIOUS
  <1> USE DEF KernelsInv
  <1>1. UNCHANGED k1 => V1Inv'
    BY DEF V1Inv, VetoWins
  <1>2. UNCHANGED k2 => V2Inv'
    BY DEF V2Inv
  <1>3. UNCHANGED k3 => V3Inv'
    BY DEF V3Inv
  <1>4. UNCHANGED k4 => V4Inv'
    BY DEF V4Inv
  <1>5. CASE EvaluateV1
    BY <1>2, <1>3, <1>4, <1>5, V1Keeps DEF EvaluateV1
  <1>6. CASE DeactivateRule
    BY <1>2, <1>3, <1>4, <1>6, DeactivateKeeps DEF DeactivateRule
  <1>7. CASE EvaluateV2
    BY <1>1, <1>3, <1>4, <1>7, V2Keeps DEF EvaluateV2
  <1>8. CASE EvaluateV3
    BY <1>1, <1>2, <1>4, <1>8, V3Keeps DEF EvaluateV3
  <1>9. CASE EvaluateV4
    BY <1>1, <1>2, <1>3, <1>9, V4Keeps DEF EvaluateV4
  <1>10. CASE UNCHANGED kvars
    BY <1>1, <1>2, <1>3, <1>4, <1>10 DEF kvars
  <1> QED
    BY <1>5, <1>6, <1>7, <1>8, <1>9, <1>10 DEF KernelsNext

\* The four policy kernels, for any plans and actions and any number of
\* evaluations: the counters say what the logs say, a veto is never outvoted, and
\* what a kernel lets through has passed all of its stages.
THEOREM VerdictsAlwaysHold == KernelsSpec => []VerdictsHold
  <1>1. KernelsInit => KernelsInv
    BY KernelsAtFirst
  <1>2. KernelsInv /\ [KernelsNext]_kvars => KernelsInv'
    BY KernelsStep
  <1>3. KernelsInv => VerdictsHold
    <2> SUFFICES ASSUME KernelsInv PROVE VerdictsHold
      OBVIOUS
    <2>1. KernelBooks
      BY DEF KernelsInv, V1Inv, V2Inv, V3Inv, KernelBooks, CountOf, Broken, Having
    <2>2. VetoWins
      BY DEF KernelsInv, V1Inv
    <2>3. AllowedPassedAll
      BY DEF KernelsInv, V2Inv, V3Inv, V4Inv, AllowedPassedAll
    <2> QED
      BY <2>1, <2>2, <2>3 DEF VerdictsHold
  <1> QED
    BY <1>1, <1>2, <1>3, PTL DEF KernelsSpec

-----------------------------------------------------------------------------
(***************************************************************************)
(* The layers over the kernel: ProofsHold for any plans, requests and      *)
(* categories, and any number of proofs and calls. The invariant adds to   *)
(* it what each status is worth (an approved proof has an approval left to *)
(* spend, a simulated one a simulation), that a "destroy" once simulated   *)
(* is at the limit, and that an audit graph numbers its nodes and tells of *)
(* the actions in their order.                                             *)
(***************************************************************************)

Statuses == {"pending", "simulated", "approved", "rejected", "executed", "verified"}
EventTypes == {"policy_verdict", "action_blocked", "action_executed", "audit_record", "execution"}
Proof == [category : Categories, status : Statuses, risk : Nat, approved : Nat, executed : Nat,
          simulations : Nat]
Graph == Seq([action : Nat, type : EventTypes, hash : Nat, prev : Nat])

\* What a proof's status and counts say of each other.
Earned(p) ==
  /\ p \in Proof
  /\ p.executed <= p.approved /\ p.approved <= p.simulations
  /\ p.status = "approved" => p.executed < p.approved
  /\ p.status = "simulated" => p.approved < p.simulations
  /\ p.category = "destroy" =>
       /\ p.approved = 0 /\ p.executed = 0
       /\ p.simulations > 0 => p.risk = 100
  /\ p.status \in {"approved", "executed", "verified"} => p.risk < 85
  /\ p.status \in {"executed", "verified"} => p.executed > 0

EngineInv ==
  /\ engine \in [proofs : Seq(Proof), answers : Nat]
  /\ \A n \in DOMAIN engine.proofs : Earned(engine.proofs[n])

\* Nodes are numbered, and actions come in order.
Numbered(g) == \A n \in DOMAIN g : g[n].hash = n /\ g[n].prev = n - 1
InOrder(g) == \A m, n \in DOMAIN g : m < n => g[m].action <= g[n].action

PelTypes ==
  /\ pel.graph \in Graph /\ Len(pel.verdicts) \in Nat /\ pel.blocked \in Nat
  /\ DOMAIN pel.verdicts = 1 .. Len(pel.verdicts)
  /\ DOMAIN pel.proofs = 1 .. Len(pel.verdicts) /\ Len(pel.proofs) = Len(pel.verdicts)

PelInv ==
  /\ PelTypes
  /\ Numbered(pel.graph) /\ InOrder(pel.graph)
  /\ \A n \in DOMAIN pel.graph : pel.graph[n].action <= Len(pel.verdicts)
  /\ AuditTellsAll

ApexInv ==
  /\ apex.graph \in Graph /\ Numbered(apex.graph)
  /\ \A n \in DOMAIN apex.graph : apex.graph[n].action <= Len(apex.results)
  /\ Len(apex.results) \in Nat /\ DOMAIN apex.results = 1 .. Len(apex.results)
  /\ ApexIsAudited

ProofInv == EngineInv /\ PelInv /\ ApexInv

-----------------------------------------------------------------------------
\* A "destroy" is at the highest risk, whatever it removes.
LEMMA RiskCapped ==
  ASSUME NEW c, NEW r \in BOOLEAN
  PROVE  RiskScore(c, r) \in Nat /\ (c = "destroy" => RiskScore(c, r) = 100)
  <1> DEFINE base == CASE c = "read" -> 0 [] c = "write" -> 20 [] c = "deploy" -> 50
                       [] c = "external" -> 80 [] OTHER -> 100
  <1>1. base \in Nat /\ base + 30 \in Nat /\ (c = "destroy" => base = 100)
    OBVIOUS
  <1> HIDE DEF base
  <1>2. \A b \in Nat : Min({100, b}) \in {100, b} /\ Min({100, b}) <= 100 /\ Min({100, b}) <= b
    <2> TAKE b \in Nat
    <2>1. \E x \in {100, b} : \A y \in {100, b} : x =< y
      OBVIOUS
    <2> QED
      BY <2>1 DEF Min
  <1>3. RiskScore(c, r) = IF r THEN Min({100, base + 30}) ELSE base
    BY DEF RiskScore, base
  <1> QED
    BY <1>1, <1>2, <1>3

\* No step of the engine breaks what a proof has earned.
LEMMA StepsEarn ==
  ASSUME NEW p, Earned(p), NEW flag \in BOOLEAN
  PROVE  /\ Earned(Simulate(p, flag)) /\ Earned(Approve(p))
         /\ Earned(Execute(p)) /\ Earned(Verify(p, flag))
  <1>1. /\ p \in Proof /\ p.simulations \in Nat /\ p.approved \in Nat /\ p.executed \in Nat
        /\ p.risk \in Nat /\ p.approved + 1 \in Nat /\ p.executed + 1 \in Nat
        /\ p.simulations + 1 \in Nat
    BY DEF Earned, Proof, Statuses
  <1>2. Earned(Simulate(p, flag))
    <2> DEFINE q == Simulate(p, flag)
    <2>1. RiskScore(p.category, flag) \in Nat
          /\ (p.category = "destroy" => RiskScore(p.category, flag) = 100)
      BY RiskCapped
    <2>2. /\ q \in Proof /\ q.category = p.category /\ q.status = "simulated"
          /\ q.risk = RiskScore(p.category, flag) /\ q.simulations = p.simulations + 1
          /\ q.approved = p.approved /\ q.executed = p.executed
      BY <1>1, <2>1 DEF Simulate, Proof, Statuses
    <2> HIDE DEF q
    <2>3. /\ p.simulations \in Nat /\ p.approved \in Nat /\ p.executed \in Nat
          /\ q.status \notin {"approved", "executed", "verified"}
      BY <1>1, <2>2 DEF Proof, Statuses
    <2>4. Earned(q)
      BY <2>1, <2>2, <2>3 DEF Earned
    <2> QED
      BY <2>4 DEF q
  <1>3. Earned(Approve(p))
    <2>1. CASE p.status = "simulated" /\ p.risk < 85
      <3> DEFINE q == [p EXCEPT !.status = "approved", !.approved = @ + 1]
      <3>1. /\ q \in Proof /\ q.category = p.category /\ q.status = "approved" /\ q.risk = p.risk
            /\ q.simulations = p.simulations /\ q.approved = p.approved + 1 /\ q.executed = p.executed
        BY <1>1 DEF Proof, Statuses
      <3>2. Approve(p) = q
        BY <2>1 DEF Approve
      <3> HIDE DEF q
      <3>3. p.simulations \in Nat /\ p.approved \in Nat /\ p.executed \in Nat
            /\ (p.category = "destroy" => p.risk = 100)
        BY <1>1, <2>1 DEF Earned, Proof, Statuses
      <3> QED
        BY <2>1, <3>1, <3>2, <3>3 DEF Earned
    <2>2. CASE p.status = "simulated" /\ ~(p.risk < 85)
      <3>1. Approve(p) = [p EXCEPT !.status = "rejected"]
        BY <2>2 DEF Approve
      <3> QED
        BY <1>1, <3>1 DEF Earned, Proof, Statuses
    <2>3. CASE p.status # "simulated"
      BY <2>3 DEF Approve
    <2> QED
      BY <2>1, <2>2, <2>3
  <1>4. Earned(Execute(p))
    <2>1. CASE p.status = "approved"
      <3> DEFINE q == [p EXCEPT !.status = "executed", !.executed = @ + 1]
      <3>1. /\ q \in Proof /\ q.category = p.category /\ q.status = "executed" /\ q.risk = p.risk
            /\ q.simulations = p.simulations /\ q.approved = p.approved /\ q.executed = p.executed + 1
        BY <1>1 DEF Proof, Statuses
      <3>2. Execute(p) = q
        BY <2>1 DEF Execute
      <3> HIDE DEF q
      <3>3. p.simulations \in Nat /\ p.approved \in Nat /\ p.executed \in Nat
        BY <1>1 DEF Proof, Statuses
      <3> QED
        BY <2>1, <3>1, <3>2, <3>3 DEF Earned
    <2> QED
      BY <2>1 DEF Execute
  <1>5. Earned(Verify(p, flag))
    <2>1. CASE p.status = "executed" /\ flag
      <3> DEFINE q == [p EXCEPT !.status = "verified"]
      <3>1. /\ q \in Proof /\ q.category = p.category /\ q.status = "verified" /\ q.risk = p.risk
            /\ q.simulations = p.simulations /\ q.approved = p.approved /\ q.executed = p.executed
        BY <1>1 DEF Proof, Statuses
      <3>2. Verify(p, flag) = q
        BY <2>1 DEF Verify
      <3> HIDE DEF q
      <3> QED
        BY <2>1, <3>1, <3>2 DEF Earned
    <2> QED
      BY <2>1 DEF Verify
  <1> QED
    BY <1>2, <1>3, <1>4, <1>5

LEMMA NewIsEarned ==
  ASSUME NEW c \in Categories
  PROVE  Earned(NewProof(c))
  <1> DEFINE q == NewProof(c)
  <1>1. /\ q \in Proof /\ q.category = c /\ q.status = "pending" /\ q.risk = 0
        /\ q.simulations = 0 /\ q.approved = 0 /\ q.executed = 0
    BY DEF NewProof, Proof, Statuses
  <1> HIDE DEF q
  <1>2. Earned(q)
    BY <1>1 DEF Earned
  <1> QED
    BY <1>2 DEF q

LEMMA EngineClientKeeps ==
  ASSUME EngineInv, EngineClient
  PROVE  EngineInv'
  <1>1. CASE EngineSubmits
    <2>1. PICK c \in Categories : engine' = SubmitPlan(engine, c)
      BY <1>1 DEF EngineSubmits
    <2>2. Earned(NewProof(c)) /\ NewProof(c) \in Proof
      BY NewIsEarned DEF Earned
    <2>3. engine'.proofs = Append(engine.proofs, NewProof(c)) /\ engine'.answers = engine.answers
          /\ engine' \in [proofs : Seq(Proof), answers : Nat]
      BY <2>1, <2>2 DEF SubmitPlan, EngineInv
    <2>4. \A n \in DOMAIN engine'.proofs :
            engine'.proofs[n] = NewProof(c) \/ (n \in DOMAIN engine.proofs /\ engine'.proofs[n] = engine.proofs[n])
      BY <2>2, <2>3 DEF EngineInv
    <2> QED
      BY <2>2, <2>3, <2>4 DEF EngineInv
  <1>2. CASE EngineSteps
    <2>1. PICK n \in DOMAIN engine.proofs, flag \in BOOLEAN :
            \E next \in {Simulate(engine.proofs[n], flag), Approve(engine.proofs[n]),
                         Execute(engine.proofs[n]), Verify(engine.proofs[n], flag)} :
              engine' = [engine EXCEPT !.proofs[n] = next, !.answers = @ + 1]
      BY <1>2 DEF EngineSteps
    <2>2. PICK next : Earned(next) /\ engine' = [engine EXCEPT !.proofs[n] = next, !.answers = @ + 1]
      BY <2>1, StepsEarn DEF EngineInv
    <2>3. /\ next \in Proof /\ engine.proofs \in Seq(Proof) /\ engine.answers + 1 \in Nat
          /\ engine'.proofs = [engine.proofs EXCEPT ![n] = next]
          /\ engine' = [engine EXCEPT !.proofs = engine'.proofs, !.answers = @ + 1]
      <3>1. engine \in [proofs : Seq(Proof), answers : Nat] /\ next \in Proof
        BY <2>2 DEF EngineInv, Earned
      <3> QED
        BY <2>2, <3>1
    <2>4. engine' \in [proofs : Seq(Proof), answers : Nat]
      <3>1. engine'.proofs \in Seq(Proof)
        BY <2>3
      <3> QED
        BY <2>3, <3>1 DEF EngineInv
    <2>5. \A m \in DOMAIN engine'.proofs :
            engine'.proofs[m] = next \/ (m \in DOMAIN engine.proofs /\ engine'.proofs[m] = engine.proofs[m])
      BY <2>3 DEF EngineInv
    <2> QED
      BY <2>2, <2>4, <2>5 DEF EngineInv
  <1> QED
    BY <1>1, <1>2 DEF EngineClient

-----------------------------------------------------------------------------
LEMMA GraphNodes ==
  ASSUME NEW g \in Graph
  PROVE  Len(g) \in Nat /\ DOMAIN g = 1 .. Len(g) /\ \A n \in DOMAIN g : g[n].action \in Nat
  <1> DEFINE Node == [action : Nat, type : EventTypes, hash : Nat, prev : Nat]
  <1>1. g \in Seq(Node)
    BY DEF Graph
  <1>2. \A x \in Node : x.action \in Nat
    OBVIOUS
  <1> HIDE DEF Node
  <1>3. Len(g) \in Nat /\ DOMAIN g = 1 .. Len(g) /\ \A n \in DOMAIN g : g[n] \in Node
    BY <1>1
  <1> QED
    BY <1>2, <1>3

\* A node is numbered, tells of its action alone and leaves the others as they were.
LEMMA NodeAdded ==
  ASSUME NEW g \in Graph, NEW id \in Nat, NEW t \in EventTypes, Numbered(g),
         \A n \in DOMAIN g : g[n].action <= id
  PROVE  LET h == AddNode(g, id, t)
         IN /\ h \in Graph /\ Len(h) = Len(g) + 1 /\ Numbered(h)
            /\ \A n \in DOMAIN h : h[n].action <= id
            /\ InOrder(g) => InOrder(h)
            /\ Types(h, id) = Types(g, id) \cup {t}
            /\ \A j : j # id => Types(h, j) = Types(g, j)
  <1> DEFINE x == [action |-> id, type |-> t, hash |-> Len(g) + 1,
                   prev |-> IF g = <<>> THEN GENESIS ELSE g[Len(g)].hash]
             h == Append(g, x)
  <1>1. Len(g) \in Nat /\ DOMAIN g = 1 .. Len(g) /\ (g = <<>> <=> Len(g) = 0)
    BY DEF Graph
  <1>2. x.prev = Len(g)
    BY <1>1 DEF Numbered, GENESIS
  <1>3. x \in [action : Nat, type : EventTypes, hash : Nat, prev : Nat]
    BY <1>1, <1>2
  <1>4. /\ h \in Graph /\ Len(h) = Len(g) + 1 /\ DOMAIN h = 1 .. (Len(g) + 1)
        /\ h[Len(g) + 1] = x /\ \A n \in DOMAIN g : h[n] = g[n] /\ n \in DOMAIN h
    BY <1>1, <1>3 DEF Graph
  <1>5. \A n \in DOMAIN h : n = Len(g) + 1 \/ n \in DOMAIN g
    BY <1>1, <1>4
  <1>6. x.action = id /\ x.type = t /\ x.hash = Len(g) + 1
    OBVIOUS
  <1> HIDE DEF x, h
  <1>7. Numbered(h)
    BY <1>1, <1>2, <1>4, <1>5, <1>6 DEF Numbered
  <1>8. \A n \in DOMAIN h : h[n].action <= id
    BY <1>4, <1>5, <1>6
  <1>9. InOrder(g) => InOrder(h)
    BY <1>1, <1>4, <1>5, <1>6 DEF InOrder
  <1>10. Types(h, id) = Types(g, id) \cup {t}
    BY <1>1, <1>4, <1>5, <1>6 DEF Types, Trail
  <1>11. \A j : j # id => Types(h, j) = Types(g, j)
    BY <1>1, <1>4, <1>5, <1>6 DEF Types, Trail
  <1>12. AddNode(g, id, t) = h
    BY DEF AddNode, h, x
  <1> QED
    BY <1>4, <1>7, <1>8, <1>9, <1>10, <1>11, <1>12

\* The layer never has an approved proof: what is not simulated is not approved, and
\* what is simulated is not put to approve.
LEMMA PelNeverApproves ==
  ASSUME NEW r, NEW verdict
  PROVE  /\ PelProof(r, verdict).status \notin {"approved", "executed", "verified"}
         /\ verdict \in {"veto", "block"} => PelProof(r, verdict).status = "rejected"
  BY DEF PelProof, NewProof, Simulate, Approve

LEMMA ChainFromNumbers ==
  ASSUME NEW g \in Graph, Numbered(g)
  PROVE  VerifyChain(g)
  <1>1. \A n \in DOMAIN g : n = 1 \/ n - 1 \in DOMAIN g
    BY DEF Graph
  <1> QED
    BY <1>1 DEF VerifyChain, Numbered, GENESIS, Graph

-----------------------------------------------------------------------------
\* An action of the layer: its verdict, what came of it and its record.
LEMMA ProcessActionKeeps ==
  ASSUME PelInv, ProcessAction
  PROVE  PelInv'
  <1>1. PICK r \in Requests, matches \in BOOLEAN :
          LET verdict == Verdict(r.plan)
              proof == PelProof(r, verdict)
              ran == proof.status = "approved"
              id == Len(pel.proofs) + 1
              blocked == verdict \in {"veto", "block"}
              judged == AddNode(pel.graph, id, "policy_verdict")
              acted == IF blocked THEN AddNode(judged, id, "action_blocked")
                       ELSE IF ran THEN AddNode(judged, id, "action_executed") ELSE judged
          IN pel' = [proofs |-> Append(pel.proofs, IF ran THEN Verify(Execute(proof), matches) ELSE proof),
                     graph |-> AddNode(acted, id, "audit_record"),
                     blocked |-> pel.blocked + IF blocked THEN 1 ELSE 0,
                     executed |-> pel.executed + IF ran THEN 1 ELSE 0,
                     verdicts |-> Append(pel.verdicts, verdict)]
    BY DEF ProcessAction
  <1> DEFINE verdict == Verdict(r.plan)
             proof == PelProof(r, verdict)
             id == Len(pel.verdicts) + 1
             blocked == verdict \in {"veto", "block"}
             judged == AddNode(pel.graph, id, "policy_verdict")
             acted == IF blocked THEN AddNode(judged, id, "action_blocked") ELSE judged
             graph == AddNode(acted, id, "audit_record")
  <1>2. proof.status \notin {"approved", "executed", "verified"} /\ (blocked => proof.status = "rejected")
    BY PelNeverApproves
  <1>3. /\ id \in Nat /\ Len(pel.verdicts) \in Nat /\ DOMAIN pel.verdicts = 1 .. Len(pel.verdicts)
        /\ DOMAIN pel.proofs = 1 .. Len(pel.verdicts) /\ Len(pel.proofs) = Len(pel.verdicts)
        /\ pel.graph \in Graph /\ Numbered(pel.graph) /\ InOrder(pel.graph) /\ pel.blocked \in Nat
        /\ \A n \in DOMAIN pel.graph : pel.graph[n].action <= id
        /\ AuditTellsAll
    <2>1. /\ PelTypes /\ Numbered(pel.graph) /\ InOrder(pel.graph) /\ AuditTellsAll
          /\ \A n \in DOMAIN pel.graph : pel.graph[n].action <= Len(pel.verdicts)
      BY DEF PelInv
    <2>2. \A n \in DOMAIN pel.graph : pel.graph[n].action \in Nat
      BY <2>1, GraphNodes DEF PelTypes
    <2>3. \A n \in DOMAIN pel.graph : pel.graph[n].action <= id
      BY <2>1, <2>2 DEF PelTypes
    <2> QED
      BY <2>1, <2>3 DEF PelTypes
  <1>4. /\ pel'.proofs = Append(pel.proofs, proof) /\ pel'.graph = graph
        /\ pel'.blocked = pel.blocked + (IF blocked THEN 1 ELSE 0)
        /\ pel'.executed = pel.executed + 0 /\ pel'.verdicts = Append(pel.verdicts, verdict)
    BY <1>1, <1>2, <1>3
  <1> HIDE DEF verdict, proof
  <1>5. Types(pel.graph, id) = {}
    BY <1>3 DEF Types, Trail, PelInv, Graph
  <1>6. /\ judged \in Graph /\ Numbered(judged) /\ InOrder(judged)
        /\ \A n \in DOMAIN judged : judged[n].action <= id
        /\ Types(judged, id) = {"policy_verdict"}
        /\ \A j : j # id => Types(judged, j) = Types(pel.graph, j)
    BY <1>3, <1>5, NodeAdded DEF EventTypes
  <1> HIDE DEF judged
  <1>7. /\ acted \in Graph /\ Numbered(acted) /\ InOrder(acted)
        /\ \A n \in DOMAIN acted : acted[n].action <= id
        /\ Types(acted, id) = {"policy_verdict"} \cup (IF blocked THEN {"action_blocked"} ELSE {})
        /\ \A j : j # id => Types(acted, j) = Types(pel.graph, j)
    BY <1>3, <1>6, NodeAdded DEF EventTypes
  <1> HIDE DEF acted
  <1>8. /\ graph \in Graph /\ Numbered(graph) /\ InOrder(graph)
        /\ \A n \in DOMAIN graph : graph[n].action <= id
        /\ Types(graph, id) = {"policy_verdict", "audit_record"}
                              \cup (IF blocked THEN {"action_blocked"} ELSE {})
        /\ \A j : j # id => Types(graph, j) = Types(pel.graph, j)
    BY <1>3, <1>7, NodeAdded DEF EventTypes
  <1> HIDE DEF graph
  <1>9. /\ Len(pel'.verdicts) = id /\ DOMAIN pel'.verdicts = 1 .. id /\ DOMAIN pel'.proofs = 1 .. id
        /\ Len(pel'.proofs) = id /\ pel'.verdicts[id] = verdict /\ pel'.proofs[id] = proof
        /\ \A j \in 1 .. Len(pel.verdicts) : pel'.verdicts[j] = pel.verdicts[j] /\ pel'.proofs[j] = pel.proofs[j]
    BY <1>3, <1>4 DEF PelInv, PelTypes
  <1>10. \A j \in 1 .. id : j = id \/ (j # id /\ j \in 1 .. Len(pel.verdicts))
    BY <1>3
  <1>11. VerifyChain(pel'.graph)
    BY <1>4, <1>8, ChainFromNumbers
  <1>12. ASSUME NEW j \in 1 .. id
         PROVE  LET about == Types(pel'.graph, j)
                IN /\ {"policy_verdict", "audit_record"} \subseteq about
                   /\ ("action_blocked" \in about) = (pel'.verdicts[j] \in {"veto", "block"})
                   /\ ("action_executed" \in about) = (pel'.proofs[j].status \in {"executed", "verified"})
                   /\ "action_blocked" \in about => pel'.proofs[j].status = "rejected"
    <2>1. CASE j = id
      BY <1>2, <1>4, <1>8, <1>9, <2>1
    <2>2. CASE j # id
      <3>1. j \in DOMAIN pel.verdicts
        BY <1>3, <1>10, <2>2
      <3> QED
        BY <1>3, <1>4, <1>8, <1>9, <2>2, <3>1 DEF AuditTellsAll
    <2> QED
      BY <2>1, <2>2
  <1>13. \A j \in 1 .. id : \A n \in Trail(pel'.graph, j), m \in DOMAIN pel'.graph :
           m < n => pel'.graph[m].action <= j
    BY <1>4, <1>8 DEF InOrder, Trail
  <1>14. pel'.executed = Cardinality({j \in 1 .. id : "action_executed" \in Types(graph, j)})
    <2> DEFINE old == {j \in DOMAIN pel.verdicts : "action_executed" \in Types(pel.graph, j)}
               new == {j \in 1 .. id : "action_executed" \in Types(graph, j)}
    <2>1. new = old
      BY <1>3, <1>8, <1>10
    <2>2. pel.executed = Cardinality(old)
      BY <1>3, Zenon DEF AuditTellsAll
    <2>3. old \in SUBSET (1 .. Len(pel.verdicts))
      BY <1>3
    <2> HIDE DEF old, new
    <2>4. Cardinality(old) \in Nat
      BY <1>3, <2>3, CountNumbers
    <2>5. pel'.executed = Cardinality(new)
      BY <1>4, <2>1, <2>2, <2>4
    <2> QED
      BY <2>5 DEF new
  <1>15. pel'.blocked = Cardinality({j \in 1 .. id : "action_blocked" \in Types(graph, j)})
    <2> DEFINE old == {j \in DOMAIN pel.verdicts : "action_blocked" \in Types(pel.graph, j)}
               new == {j \in 1 .. id : "action_blocked" \in Types(graph, j)}
    <2>1. new = IF blocked THEN old \cup {id} ELSE old
      <3>1. "action_blocked" \in Types(graph, id) <=> blocked
        BY <1>8
      <3>2. \A j \in 1 .. Len(pel.verdicts) : j # id /\ Types(graph, j) = Types(pel.graph, j)
        BY <1>3, <1>8
      <3>3. 1 .. id = (1 .. Len(pel.verdicts)) \cup {id} /\ DOMAIN pel.verdicts = 1 .. Len(pel.verdicts)
        BY <1>3
      <3> HIDE DEF blocked, id, graph
      <3> QED
        BY <3>1, <3>2, <3>3
    <2>2. pel.blocked = Cardinality(old)
      BY <1>3, Zenon DEF AuditTellsAll
    <2>3. old \in SUBSET (1 .. Len(pel.verdicts)) /\ Len(pel.verdicts) \in Nat
      BY <1>3
    <2> HIDE DEF old, new
    <2>4. Cardinality(old) \in Nat /\ Cardinality(old \cup {id}) = Cardinality(old) + 1
      BY <2>3, CountNumbers
    <2>5. pel'.blocked = Cardinality(new)
      BY <1>4, <2>1, <2>2, <2>4
    <2> QED
      BY <2>5 DEF new
  <1>16. AuditTellsAll'
    BY <1>4, <1>9, <1>11, <1>12, <1>13, <1>14, <1>15 DEF AuditTellsAll
  <1> QED
    BY <1>3, <1>4, <1>8, <1>9, <1>16 DEF PelInv, PelTypes

-----------------------------------------------------------------------------
\* An APEX run adds one node and one result, with all of its plan or nothing of it.
LEMMA ApexExecuteKeeps ==
  ASSUME ApexInv, ApexExecute
  PROVE  ApexInv'
  <1>1. PICK task \in Tasks :
          LET verdict == Verdict(task.plan)
              steps == Plan(Analyze(task))
              vetoed == IsVetoed(verdict)
          IN apex' = [results |-> Append(apex.results,
                        [verdict |-> verdict, proof |-> Prove(steps),
                         outcome |-> IF vetoed THEN "vetoed" ELSE "success",
                         calls |-> IF vetoed THEN <<>> ELSE ExecutePlan(steps)]),
                      graph |-> AddNode(apex.graph, Len(apex.results) + 1, "execution")]
    BY DEF ApexExecute
  <1> DEFINE steps == Plan(Analyze(task))
             vetoed == IsVetoed(Verdict(task.plan))
             given == [verdict |-> Verdict(task.plan), proof |-> Prove(steps),
                        outcome |-> IF vetoed THEN "vetoed" ELSE "success",
                        calls |-> IF vetoed THEN <<>> ELSE ExecutePlan(steps)]
             graph == AddNode(apex.graph, Len(apex.results) + 1, "execution")
  <1>2. apex'.results = Append(apex.results, given) /\ apex'.graph = graph
    BY <1>1
  <1>3. steps \in Nat /\ given.proof.steps = steps /\ Len(ExecutePlan(steps)) = steps
    BY DEF Plan, Prove, ExecutePlan
  <1>4. Len(given.calls) \in {0, given.proof.steps}
    BY <1>3
  <1> HIDE DEF given
  <1>5. /\ graph \in Graph /\ Numbered(graph) /\ Len(graph) = Len(apex.graph) + 1
        /\ \A n \in DOMAIN graph : graph[n].action <= Len(apex.results) + 1
    <2>1. /\ apex.graph \in Graph /\ Numbered(apex.graph) /\ Len(apex.results) \in Nat
          /\ \A n \in DOMAIN apex.graph : apex.graph[n].action <= Len(apex.results)
                                         /\ apex.graph[n].action \in Nat
      BY GraphNodes DEF ApexInv
    <2>2. /\ Len(apex.results) + 1 \in Nat /\ "execution" \in EventTypes
          /\ \A n \in DOMAIN apex.graph : apex.graph[n].action <= Len(apex.results) + 1
      BY <2>1 DEF EventTypes
    <2> QED
      BY <2>1, <2>2, NodeAdded
  <1>6. VerifyChain(graph)
    BY <1>5, ChainFromNumbers
  <1> HIDE DEF graph
  <1> QED
    BY <1>2, <1>4, <1>5, <1>6 DEF ApexInv, ApexIsAudited

-----------------------------------------------------------------------------
LEMMA ProofInvHolds == ProofSpec => []ProofInv
  <1>1. ProofInit => ProofInv
    BY FS_EmptySet DEF ProofInit, ProofInv, EngineInv, PelInv, PelTypes, ApexInv, ApexIsAudited,
       AuditTellsAll, VerifyChain, Numbered, InOrder, Graph
  <1>2. ProofInv /\ [ProofNext]_plvars => ProofInv'
    <2> SUFFICES ASSUME ProofInv, [ProofNext]_plvars PROVE ProofInv'
      OBVIOUS
    <2>1. CASE EngineClient
      BY <2>1, EngineClientKeeps DEF ProofInv, EngineClient, PelInv, PelTypes, ApexInv, ApexIsAudited, AuditTellsAll
    <2>2. CASE ProcessAction
      BY <2>2, ProcessActionKeeps DEF ProofInv, ProcessAction, EngineInv, ApexInv, ApexIsAudited
    <2>3. CASE ApexExecute
      BY <2>3, ApexExecuteKeeps DEF ProofInv, ApexExecute, EngineInv, PelInv, PelTypes, AuditTellsAll
    <2>4. CASE UNCHANGED plvars
      BY <2>4 DEF plvars, ProofInv, EngineInv, PelInv, PelTypes, ApexInv, ApexIsAudited, AuditTellsAll
    <2> QED
      BY <2>1, <2>2, <2>3, <2>4 DEF ProofNext
  <1> QED
    BY <1>1, <1>2, PTL DEF ProofSpec

\* Nothing is executed that was not approved after a simulation, and the audit graphs tell
\* what the layers did (execution_proof_engine.py:193, immutable_audit_graph.py), for any
\* plans, categories, requests and tasks and any number of calls.
THEOREM AlwaysProved == ProofSpec => []ProofsHold
  <1>1. ProofInv => ProofsHold
    <2> SUFFICES ASSUME ProofInv PROVE RunsAreEarned
      BY DEF ProofInv, ProofsHold, PelInv, ApexInv
    <2> QED
      BY DEF ProofInv, EngineInv, RunsAreEarned, Earned, Proof
  <1> QED
    BY <1>1, ProofInvHolds, PTL

-----------------------------------------------------------------------------
(***************************************************************************)
(* The trace of the federation kernel, for any set of processes, any       *)
(* intents and a file of any length. The invariant says which line a hash  *)
(* is the hash of: the latest line of a life, if it has one. That no two   *)
(* lives are alike is what keeps the chains of processes that write to one *)
(* file apart.                                                             *)
(***************************************************************************)

Line == [whole : {TRUE}, hash : Nat, prev : Nat, life : Nat, verdict : {"PASS", "VETO"},
         domain : Modes \cup {"ATOM", "ACOS", "AABS"},
         level : {"CRITICAL", "HIGH", "MEDIUM", "LOW"},
         result : {"none", "planned", "computed", "action_scheduled"}]
        \cup [whole : {FALSE}, life : Nat]
LiveKernel == [alive : {TRUE}, life : Nat, prev : Nat, total : Nat, vetoed : Nat, seen : Nat]
Kernel == {Absent, Opening} \cup LiveKernel

FkTypes == started \in Nat /\ kernel \in [Processes -> Kernel] /\ trace \in Seq(Line)

\* The lines of a life in a file t, and what it means that h is the hash of the latest.
LinesIn(t, life) == {n \in DOMAIN t : t[n].whole /\ t[n].life = life}
VetoedIn(t, life) == {n \in LinesIn(t, life) : t[n].verdict = "VETO"}
Latest(h, lines) == IF lines = {} THEN h = NoHash ELSE h \in lines /\ \A m \in lines : m <= h

\* Lives are numbered as they start, and no two processes share one.
LivesApart ==
  /\ \A p \in Processes : kernel[p].alive => kernel[p].life \in 1 .. started
  /\ \A p, q \in Processes : kernel[p].alive /\ kernel[q].alive /\ kernel[p].life = kernel[q].life => p = q
  /\ \A n \in DOMAIN trace : trace[n].life \in 1 .. started

LineInv(t) == \A n \in DOMAIN t : t[n].whole =>
  /\ t[n].hash = n
  /\ (t[n].result = "none") = (t[n].verdict = "VETO")
  /\ Latest(t[n].prev, {m \in LinesIn(t, t[n].life) : m < n})

KernelInv(k, t) == k.alive =>
  /\ k.total = Cardinality(LinesIn(t, k.life))
  /\ k.vetoed = Cardinality(VetoedIn(t, k.life))
  /\ Latest(k.prev, LinesIn(t, k.life))

TraceInv ==
  /\ FkTypes /\ LivesApart /\ LineInv(trace)
  /\ \A p \in Processes : KernelInv(kernel[p], trace)

-----------------------------------------------------------------------------
\* The lines of a life are numbers of lines, finitely many.
LEMMA LinesAreFinite ==
  ASSUME NEW t \in Seq(Line), NEW life
  PROVE  /\ LinesIn(t, life) \in SUBSET (1 .. Len(t)) /\ VetoedIn(t, life) \in SUBSET LinesIn(t, life)
         /\ IsFiniteSet(LinesIn(t, life)) /\ IsFiniteSet(VetoedIn(t, life)) /\ Len(t) \in Nat
  <1>1. Len(t) \in Nat /\ DOMAIN t = 1 .. Len(t)
    OBVIOUS
  <1>2. LinesIn(t, life) \in SUBSET (1 .. Len(t)) /\ VetoedIn(t, life) \in SUBSET LinesIn(t, life)
    BY <1>1 DEF LinesIn, VetoedIn
  <1>3. IsFiniteSet(LinesIn(t, life))
    <2>1. IsFiniteSet(1 .. Len(t))
      BY <1>1, FS_Interval
    <2> QED
      BY <1>2, <2>1, FS_Subset
  <1>4. IsFiniteSet(VetoedIn(t, life))
    BY <1>2, <1>3, FS_Subset
  <1> QED
    BY <1>1, <1>2, <1>3, <1>4

\* A set with one more number.
LEMMA OneMore ==
  ASSUME NEW S, IsFiniteSet(S), NEW n, n \notin S
  PROVE  Cardinality(S \cup {n}) = Cardinality(S) + 1
  BY FS_AddElement

\* A kernel is absent or alive.
LEMMA KernelCases ==
  ASSUME NEW k \in Kernel
  PROVE  (k \in {Absent, Opening} /\ ~k.alive) \/ (k \in LiveKernel /\ k.alive)
  <1>1. ~Absent.alive /\ ~Opening.alive
    BY DEF Absent, Opening
  <1>2. ASSUME k \in LiveKernel PROVE k.alive
    BY <1>2 DEF LiveKernel
  <1> QED
    BY <1>1, <1>2 DEF Kernel

\* What Append does to a file.
LEMMA AppendedLine ==
  ASSUME NEW t \in Seq(Line), NEW x \in Line
  PROVE  /\ Append(t, x) \in Seq(Line) /\ DOMAIN Append(t, x) = DOMAIN t \cup {Len(t) + 1}
         /\ DOMAIN t = 1 .. Len(t) /\ Len(t) \in Nat /\ Len(t) + 1 \notin DOMAIN t
         /\ \A i \in DOMAIN t : Append(t, x)[i] = t[i] /\ i < Len(t) + 1
         /\ Append(t, x)[Len(t) + 1] = x
  OBVIOUS

\* A whole line is one more line of its life, and of no other.
LEMMA LinesGrow ==
  ASSUME NEW t \in Seq(Line), NEW x \in Line, NEW life
  PROVE  /\ x.whole /\ x.life = life => LinesIn(Append(t, x), life) = LinesIn(t, life) \cup {Len(t) + 1}
         /\ ~(x.whole /\ x.life = life) => LinesIn(Append(t, x), life) = LinesIn(t, life)
         /\ x.whole /\ x.life = life /\ x.verdict = "VETO" =>
              VetoedIn(Append(t, x), life) = VetoedIn(t, life) \cup {Len(t) + 1}
         /\ ~(x.whole /\ x.life = life /\ x.verdict = "VETO") =>
              VetoedIn(Append(t, x), life) = VetoedIn(t, life)
         /\ {m \in LinesIn(Append(t, x), life) : m < Len(t) + 1} = LinesIn(t, life)
         /\ \A n \in DOMAIN t : {m \in LinesIn(Append(t, x), life) : m < n} = {m \in LinesIn(t, life) : m < n}
  <1> DEFINE u == Append(t, x)
  <1>1. /\ DOMAIN u = DOMAIN t \cup {Len(t) + 1} /\ DOMAIN t = 1 .. Len(t) /\ Len(t) \in Nat
        /\ Len(t) + 1 \notin DOMAIN t /\ \A i \in DOMAIN t : u[i] = t[i] /\ i < Len(t) + 1
        /\ u[Len(t) + 1] = x
    BY AppendedLine
  <1> HIDE DEF u
  <1>2. \A n \in DOMAIN t : (n \in LinesIn(u, life) <=> n \in LinesIn(t, life))
                         /\ (n \in VetoedIn(u, life) <=> n \in VetoedIn(t, life))
    BY <1>1 DEF LinesIn, VetoedIn
  <1>3. /\ LinesIn(u, life) \subseteq DOMAIN t \cup {Len(t) + 1} /\ LinesIn(t, life) \subseteq DOMAIN t
        /\ VetoedIn(u, life) \subseteq DOMAIN t \cup {Len(t) + 1} /\ VetoedIn(t, life) \subseteq DOMAIN t
    BY <1>1 DEF LinesIn, VetoedIn
  <1>4. /\ Len(t) + 1 \in LinesIn(u, life) <=> (x.whole /\ x.life = life)
        /\ Len(t) + 1 \in VetoedIn(u, life) <=> (x.whole /\ x.life = life /\ x.verdict = "VETO")
    BY <1>1 DEF LinesIn, VetoedIn
  <1>5. \A m \in LinesIn(u, life) : m \in LinesIn(t, life) \/ m = Len(t) + 1
    BY <1>2, <1>3
  <1>6. \A m \in VetoedIn(u, life) : m \in VetoedIn(t, life) \/ m = Len(t) + 1
    BY <1>2, <1>3
  <1>7. LinesIn(t, life) \subseteq LinesIn(u, life) /\ VetoedIn(t, life) \subseteq VetoedIn(u, life)
    BY <1>2, <1>3
  <1>8. {m \in LinesIn(u, life) : m < Len(t) + 1} = LinesIn(t, life)
    BY <1>1, <1>3, <1>5, <1>7
  <1>9. \A n \in DOMAIN t : {m \in LinesIn(u, life) : m < n} = {m \in LinesIn(t, life) : m < n}
    BY <1>1, <1>3, <1>5, <1>7
  <1> QED
    BY <1>4, <1>5, <1>6, <1>7, <1>8, <1>9 DEF u

\* A file stays well chained when the new line names the latest of its life.
LEMMA LineKeepsChain ==
  ASSUME NEW t \in Seq(Line), NEW x \in Line, LineInv(t),
         x.whole => /\ x.hash = Len(t) + 1 /\ (x.result = "none") = (x.verdict = "VETO")
                    /\ Latest(x.prev, LinesIn(t, x.life))
  PROVE  LineInv(Append(t, x))
  <1> DEFINE u == Append(t, x)
  <1>1. /\ DOMAIN u = DOMAIN t \cup {Len(t) + 1} /\ \A i \in DOMAIN t : u[i] = t[i]
        /\ u[Len(t) + 1] = x
    BY AppendedLine
  <1>2. \A life : /\ {m \in LinesIn(u, life) : m < Len(t) + 1} = LinesIn(t, life)
                  /\ \A n \in DOMAIN t : {m \in LinesIn(u, life) : m < n} = {m \in LinesIn(t, life) : m < n}
    BY LinesGrow
  <1> HIDE DEF u
  <1>3. ASSUME NEW n \in DOMAIN u, u[n].whole
        PROVE  /\ u[n].hash = n /\ (u[n].result = "none") = (u[n].verdict = "VETO")
               /\ Latest(u[n].prev, {m \in LinesIn(u, u[n].life) : m < n})
    <2>1. CASE n = Len(t) + 1
      BY <1>1, <1>2, <1>3, <2>1
    <2>2. CASE n \in DOMAIN t
      <3>1. u[n] = t[n] /\ t[n].whole
        BY <1>1, <1>3, <2>2
      <3>2. t[n].hash = n /\ (t[n].result = "none") = (t[n].verdict = "VETO")
            /\ Latest(t[n].prev, {m \in LinesIn(t, t[n].life) : m < n})
        BY <2>2, <3>1 DEF LineInv
      <3>3. {m \in LinesIn(u, u[n].life) : m < n} = {m \in LinesIn(t, t[n].life) : m < n}
        BY <1>2, <2>2, <3>1
      <3> QED
        BY <3>1, <3>2, <3>3
    <2> QED
      BY <1>1, <1>3, <2>1, <2>2
  <1> QED
    BY <1>3 DEF LineInv, u

\* A kernel is not disturbed by a line that is not whole or not its own.
LEMMA OthersKeepBooks ==
  ASSUME NEW t \in Seq(Line), NEW x \in Line, NEW k, KernelInv(k, t), ~(x.whole /\ x.life = k.life)
  PROVE  KernelInv(k, Append(t, x))
  BY LinesGrow DEF KernelInv

\* The kernel that wrote the line has booked it.
LEMMA WriterBooks ==
  ASSUME NEW t \in Seq(Line), NEW x \in Line, NEW k \in Kernel, k.alive, KernelInv(k, t),
         x.whole, x.life = k.life, NEW j \in LiveKernel, j.life = k.life,
         j.prev = Len(t) + 1, j.total = k.total + 1,
         j.vetoed = k.vetoed + (IF x.verdict = "VETO" THEN 1 ELSE 0)
  PROVE  KernelInv(j, Append(t, x))
  <1> DEFINE u == Append(t, x)
             mine == LinesIn(t, k.life)
             bad == VetoedIn(t, k.life)
  <1>1. /\ mine \in SUBSET (1 .. Len(t)) /\ bad \in SUBSET mine /\ IsFiniteSet(mine) /\ IsFiniteSet(bad)
        /\ Len(t) \in Nat
    BY LinesAreFinite
  <1>2. /\ LinesIn(u, k.life) = mine \cup {Len(t) + 1}
        /\ x.verdict = "VETO" => VetoedIn(u, k.life) = bad \cup {Len(t) + 1}
        /\ x.verdict # "VETO" => VetoedIn(u, k.life) = bad
    <2>1. \A life : x.whole /\ x.life = life => LinesIn(u, life) = LinesIn(t, life) \cup {Len(t) + 1}
      BY LinesGrow
    <2>2. \A life : x.whole /\ x.life = life /\ x.verdict = "VETO" =>
                       VetoedIn(u, life) = VetoedIn(t, life) \cup {Len(t) + 1}
      BY LinesGrow
    <2>3. \A life : x.verdict # "VETO" => VetoedIn(u, life) = VetoedIn(t, life)
      BY LinesGrow
    <2> QED
      BY <2>1, <2>2, <2>3
  <1>3. k.total = Cardinality(mine) /\ k.vetoed = Cardinality(bad)
    BY DEF KernelInv
  <1> HIDE DEF u, mine, bad
  <1>4. Len(t) + 1 \notin mine /\ Len(t) + 1 \notin bad
    BY <1>1
  <1>5. Cardinality(mine \cup {Len(t) + 1}) = k.total + 1
    BY <1>1, <1>3, <1>4, OneMore
  <1>10. Cardinality(bad \cup {Len(t) + 1}) = k.vetoed + 1
    BY <1>1, <1>3, <1>4, OneMore
  <1>6. Latest(j.prev, LinesIn(u, j.life))
    <2>1. \A m \in mine \cup {Len(t) + 1} : m <= Len(t) + 1
      BY <1>1
    <2> QED
      BY <1>2, <2>1 DEF Latest
  <1>7. k.vetoed \in Nat
    BY <1>1, <1>3, FS_CardinalityType
  <1>8. j.total = Cardinality(LinesIn(u, j.life))
    BY <1>2, <1>5
  <1>9. j.vetoed = Cardinality(VetoedIn(u, j.life))
    <2>1. CASE x.verdict = "VETO"
      BY <1>2, <1>10, <2>1
    <2>2. CASE x.verdict # "VETO"
      BY <1>2, <1>3, <1>7, <2>2
    <2> QED
      BY <2>1, <2>2
  <1> QED
    BY <1>6, <1>8, <1>9 DEF KernelInv, u

-----------------------------------------------------------------------------
LEMMA TraceAtFirst == FkInit => TraceInv
  BY DEF FkInit, TraceInv, FkTypes, LivesApart, LineInv, KernelInv, Kernel, Absent

\* A process that begins has written nothing.
LEMMA FreshBooks ==
  ASSUME TraceInv
  PROVE  KernelInv(FreshKernel(started + 1), trace) /\ FreshKernel(started + 1) \in Kernel
  <1>1. LinesIn(trace, started + 1) = {} /\ VetoedIn(trace, started + 1) = {}
    BY DEF TraceInv, FkTypes, LivesApart, LinesIn, VetoedIn
  <1> DEFINE k == FreshKernel(started + 1)
  <1>2. /\ k.alive /\ k.life = started + 1 /\ k.prev = NoHash /\ k.total = 0 /\ k.vetoed = 0
        /\ k \in LiveKernel
    BY DEF TraceInv, FkTypes, FreshKernel, LiveKernel, NoHash
  <1> HIDE DEF k
  <1>3. k.total = Cardinality(LinesIn(trace, k.life)) /\ k.vetoed = Cardinality(VetoedIn(trace, k.life))
        /\ Latest(k.prev, LinesIn(trace, k.life))
    BY <1>1, <1>2, FS_EmptySet DEF Latest
  <1> QED
    BY <1>2, <1>3 DEF KernelInv, Kernel, k

LEMMA TraceStep == TraceInv /\ [FkNext]_fkvars => TraceInv'
  <1> SUFFICES ASSUME TraceInv, [FkNext]_fkvars PROVE TraceInv'
    OBVIOUS
  <1>0. /\ started \in Nat /\ kernel \in [Processes -> Kernel] /\ trace \in Seq(Line)
        /\ LivesApart /\ LineInv(trace) /\ \A q \in Processes : KernelInv(kernel[q], trace)
    BY DEF TraceInv, FkTypes
  <1>a. Absent \in Kernel /\ ~Absent.alive /\ \A t : KernelInv(Absent, t)
    BY DEF Kernel, Absent, KernelInv
  <1>b. Opening \in Kernel /\ ~Opening.alive /\ \A t : KernelInv(Opening, t)
    BY DEF Kernel, Opening, KernelInv
  <1>1. ASSUME NEW p \in Processes, Alive(p), UNCHANGED trace PROVE TraceInv'
    <2>1. /\ started' = started + 1 /\ trace' = trace
          /\ kernel' = [kernel EXCEPT ![p] = FreshKernel(started + 1)]
      BY <1>1 DEF Alive
    <2>2. KernelInv(FreshKernel(started + 1), trace) /\ FreshKernel(started + 1) \in Kernel
      BY FreshBooks
    <2>3. FreshKernel(started + 1).alive /\ FreshKernel(started + 1).life = started + 1
      BY DEF FreshKernel
    <2>4. \A q \in Processes : kernel'[q] = IF q = p THEN FreshKernel(started + 1) ELSE kernel[q]
      BY <1>0, <2>1
    <2>5. FkTypes'
      BY <1>0, <2>1, <2>2 DEF FkTypes
    <2>6. LivesApart'
      BY <1>0, <2>1, <2>3, <2>4 DEF LivesApart
    <2> QED
      BY <1>0, <2>1, <2>2, <2>4, <2>5, <2>6 DEF TraceInv
  <1>2. ASSUME NEW p \in Processes, RunIntent(p) PROVE TraceInv'
    <2>1. PICK i \in Intents, mode \in Modes, planOnly \in BOOLEAN :
            LET domain == IF mode = "none" THEN Route(i) ELSE mode
                verdict == Assess(i)
                given == IF verdict = "VETO" THEN "none" ELSE IF planOnly THEN "planned" ELSE Answer(domain)
            IN AppendLine(p, i, domain, verdict, given)
               /\ kernel' = [kernel EXCEPT ![p] = RecordedLine(p, verdict)]
      BY <1>2 DEF RunIntent
    <2> DEFINE domain == IF mode = "none" THEN Route(i) ELSE mode
               verdict == Assess(i)
               given == IF verdict = "VETO" THEN "none" ELSE IF planOnly THEN "planned" ELSE Answer(domain)
               k == kernel[p]
               j == RecordedLine(p, verdict)
               x == [whole |-> TRUE, hash |-> Len(trace) + 1, prev |-> k.prev, life |-> k.life,
                     verdict |-> verdict, domain |-> domain, level |-> Level(i, domain), result |-> given]
    <2>2. k.alive /\ k \in Kernel /\ k.prev \in Nat /\ k.life \in Nat /\ k.total \in Nat /\ k.vetoed \in Nat
      <3>1. k.alive /\ k \in Kernel
        BY <1>0, <1>2 DEF RunIntent
      <3>2. k \in LiveKernel
        BY <3>1, KernelCases
      <3> QED
        BY <3>1, <3>2 DEF LiveKernel
    <2>3. /\ trace' = Append(trace, x) /\ kernel' = [kernel EXCEPT ![p] = j] /\ started' = started
      BY <1>2, <2>1 DEF RunIntent, AppendLine
    <2>4. /\ verdict \in {"PASS", "VETO"} /\ Route(i) \in {"ATOM", "ACOS", "AABS"}
          /\ Level(i, domain) \in {"CRITICAL", "HIGH", "MEDIUM", "LOW"}
          /\ given \in {"none", "planned", "computed", "action_scheduled"}
          /\ (given = "none") = (verdict = "VETO")
      BY DEF Assess, Route, Level, Answer
    <2>5. domain \in Modes \cup {"ATOM", "ACOS", "AABS"}
      BY <2>4
    <2>6. Len(trace) + 1 \in Nat
      BY <1>0
    <2>7. x \in Line
      <3> HIDE DEF domain, verdict, given, k
      <3> QED
        BY <2>2, <2>4, <2>5, <2>6 DEF Line
    <2>8. /\ x.whole /\ x.hash = Len(trace) + 1 /\ x.prev = k.prev /\ x.life = k.life
          /\ x.verdict = verdict /\ x.result = given
      OBVIOUS
    <2>9. /\ j.alive /\ j.life = k.life /\ j.prev = Len(trace) + 1 /\ j.total = k.total + 1
          /\ j.vetoed = k.vetoed + (IF verdict = "VETO" THEN 1 ELSE 0) /\ j \in LiveKernel
      <3>1. k \in LiveKernel
        BY <2>2, KernelCases
      <3>2. j = [k EXCEPT !.prev = Len(trace) + 1, !.total = k.total + 1,
                          !.vetoed = k.vetoed + IF verdict = "VETO" THEN 1 ELSE 0]
        BY DEF RecordedLine, Booked
      <3> DEFINE v == k.vetoed + IF verdict = "VETO" THEN 1 ELSE 0
      <3>3. v \in Nat /\ k.total + 1 \in Nat
        BY <2>2
      <3>4. j = [k EXCEPT !.prev = Len(trace) + 1, !.total = k.total + 1, !.vetoed = v]
        BY <3>2
      <3> HIDE DEF verdict, k, j, v
      <3>5. /\ j.alive /\ j.life = k.life /\ j.prev = Len(trace) + 1 /\ j.total = k.total + 1
            /\ j.vetoed = v /\ j \in LiveKernel
        BY <2>2, <2>6, <3>1, <3>3, <3>4 DEF LiveKernel
      <3> QED
        BY <3>5 DEF v
    <2>15. j \in Kernel
      BY <2>9 DEF Kernel
    <2> HIDE DEF x, j, domain, verdict, given
    <2>10. \A q \in Processes : kernel'[q] = IF q = p THEN j ELSE kernel[q]
      BY <1>0, <2>3
    <2>11. FkTypes'
      BY <1>0, <2>3, <2>7, <2>15, AppendedLine DEF FkTypes
    <2>12. LivesApart'
      BY <1>0, <2>2, <2>3, <2>7, <2>8, <2>9, <2>10, AppendedLine DEF LivesApart
    <2>13. LineInv(trace')
      <3>1. Latest(x.prev, LinesIn(trace, x.life))
        BY <1>0, <2>2, <2>8 DEF KernelInv
      <3> QED
        BY <1>0, <2>3, <2>4, <2>7, <2>8, <3>1, LineKeepsChain
    <2>14. ASSUME NEW q \in Processes PROVE KernelInv(kernel'[q], trace')
      <3>1. CASE q = p
        BY <1>0, <2>2, <2>3, <2>7, <2>8, <2>9, <2>10, <3>1, WriterBooks
      <3>2. CASE q # p /\ kernel[q].alive
        <4>1. x.life # kernel[q].life
          BY <1>0, <2>2, <2>8, <3>2 DEF LivesApart
        <4> QED
          BY <1>0, <2>3, <2>7, <2>10, <3>2, <4>1, OthersKeepBooks
      <3>3. CASE q # p /\ ~kernel[q].alive
        BY <2>10, <3>3 DEF KernelInv
      <3> QED
        BY <3>1, <3>2, <3>3
    <2> QED
      BY <2>11, <2>12, <2>13, <2>14 DEF TraceInv
  <1>3. ASSUME NEW p \in Processes, RunTearsLine(p) PROVE TraceInv'
    <2> DEFINE x == [whole |-> FALSE, life |-> kernel[p].life]
    <2>1. kernel[p].alive /\ kernel[p].life \in Nat /\ kernel[p].life \in 1 .. started
      BY <1>0, <1>3 DEF RunTearsLine, LivesApart
    <2>2. trace' = Append(trace, x) /\ kernel' = [kernel EXCEPT ![p] = Absent] /\ started' = started
      BY <1>3 DEF RunTearsLine
    <2>3. x \in Line /\ ~x.whole /\ x.life = kernel[p].life
      BY <2>1 DEF Line
    <2> HIDE DEF x
    <2>4. \A q \in Processes : kernel'[q] = IF q = p THEN Absent ELSE kernel[q]
      BY <1>0, <2>2
    <2>5. FkTypes'
      BY <1>0, <1>a, <2>2, <2>3, AppendedLine DEF FkTypes
    <2>6. LivesApart'
      BY <1>0, <1>a, <2>1, <2>2, <2>3, <2>4, AppendedLine DEF LivesApart
    <2>7. LineInv(trace')
      BY <1>0, <2>2, <2>3, LineKeepsChain
    <2>8. \A q \in Processes : KernelInv(kernel'[q], trace')
      BY <1>0, <1>a, <2>2, <2>3, <2>4, OthersKeepBooks
    <2> QED
      BY <2>5, <2>6, <2>7, <2>8 DEF TraceInv
  <1>4. ASSUME NEW p \in Processes, ReadTrace(p) \/ Exits(p) PROVE TraceInv'
    <2>1. /\ started' = started /\ trace' = trace
          /\ \/ kernel' = [kernel EXCEPT ![p] = Absent]
             \/ kernel[p].alive /\ kernel' = [kernel EXCEPT ![p] = [kernel[p] EXCEPT !.seen = Cardinality(InFile)]]
      BY <1>4 DEF ReadTrace, Exits
    <2>2. Cardinality(InFile) \in Nat
      <3>1. IsFiniteSet(1 .. Len(trace)) /\ InFile \in SUBSET (1 .. Len(trace))
        BY <1>0, FS_Interval DEF InFile
      <3> QED
        BY <3>1, FS_Subset, FS_CardinalityType
    <2>3. PICK j \in Kernel :
            /\ kernel' = [kernel EXCEPT ![p] = j]
            /\ j = Absent \/ (/\ kernel[p].alive /\ j.alive /\ j.life = kernel[p].life /\ j.prev = kernel[p].prev
                              /\ j.total = kernel[p].total /\ j.vetoed = kernel[p].vetoed)
      <3>1. CASE kernel' = [kernel EXCEPT ![p] = Absent]
        BY <1>a, <3>1
      <3>2. CASE kernel[p].alive /\ kernel' = [kernel EXCEPT ![p] = [kernel[p] EXCEPT !.seen = Cardinality(InFile)]]
        <4>1. kernel[p] \in LiveKernel
          BY <1>0, <3>2, KernelCases
        <4> DEFINE j == [kernel[p] EXCEPT !.seen = Cardinality(InFile)]
        <4>2. /\ j \in Kernel /\ j.alive /\ j.life = kernel[p].life /\ j.prev = kernel[p].prev
              /\ j.total = kernel[p].total /\ j.vetoed = kernel[p].vetoed
          BY <2>2, <4>1 DEF Kernel, LiveKernel
        <4> QED
          BY <3>2, <4>2
      <3> QED
        BY <2>1, <3>1, <3>2
    <2>4. \A q \in Processes : kernel'[q] = IF q = p THEN j ELSE kernel[q]
      BY <1>0, <2>3
    <2>5. FkTypes'
      BY <1>0, <2>1, <2>3 DEF FkTypes
    <2>6. LivesApart'
      BY <1>0, <1>a, <2>1, <2>3, <2>4 DEF LivesApart
    <2>7. KernelInv(j, trace)
      BY <1>0, <1>a, <2>3 DEF KernelInv
    <2> QED
      BY <1>0, <2>1, <2>4, <2>5, <2>6, <2>7 DEF TraceInv
  <1>5. ASSUME NEW p \in Processes, kernel' = [kernel EXCEPT ![p] = Opening], UNCHANGED <<started, trace>>
        PROVE  TraceInv'
    <2>1. \A q \in Processes : kernel'[q] = IF q = p THEN Opening ELSE kernel[q]
      BY <1>0, <1>5
    <2>2. FkTypes'
      BY <1>0, <1>b, <1>5 DEF FkTypes
    <2>3. LivesApart'
      BY <1>0, <1>b, <1>5, <2>1 DEF LivesApart
    <2> QED
      BY <1>0, <1>b, <1>5, <2>1, <2>2, <2>3 DEF TraceInv
  <1>6. ASSUME NEW p \in Processes, Starts(p) \/ Opens(p) PROVE TraceInv'
    BY <1>1, <1>5, <1>6 DEF Starts, Opens
  <1>7. CASE UNCHANGED fkvars
    BY <1>7 DEF fkvars, TraceInv, FkTypes, LivesApart
  <1> QED
    BY <1>2, <1>3, <1>4, <1>6, <1>7 DEF FkNext

\* CHOOSE finds the latest line.
LEMMA LatestIsLast ==
  ASSUME NEW lines \in SUBSET Nat, lines # {}, NEW h, Latest(h, lines)
  PROVE  LastLine(lines) = h /\ h \in lines
  <1>1. h \in lines /\ \A m \in lines : m <= h
    BY DEF Latest
  <1>2. LastLine(lines) \in lines /\ \A m \in lines : m <= LastLine(lines)
    BY <1>1 DEF LastLine
  <1>3. h \in Nat /\ LastLine(lines) \in Nat /\ LastLine(lines) <= h /\ h <= LastLine(lines)
    BY <1>1, <1>2
  <1> QED
    BY <1>1, <1>3

LEMMA InvImpliesTrace == TraceInv => TraceHolds
  <1> SUFFICES ASSUME TraceInv PROVE TraceHolds
    OBVIOUS
  <1>1. trace \in Seq(Line) /\ LineInv(trace) /\ \A p \in Processes : KernelInv(kernel[p], trace)
    BY DEF TraceInv, FkTypes
  <1>2. \A life : LinesOf(life) = LinesIn(trace, life) /\ LinesOf(life) \in SUBSET Nat
    <2>1. \A life : LinesOf(life) = LinesIn(trace, life)
      BY DEF LinesOf, LinesIn
    <2> QED
      BY <1>1, <2>1, LinesAreFinite
  <1>3. \A life : \A n \in LinesOf(life) : trace[n].hash = n
    BY <1>1 DEF LinesOf, LineInv
  <1>4. ASSUME NEW n \in InFile, trace[n].whole
        PROVE  LET before == {m \in LinesOf(trace[n].life) : m < n}
               IN  trace[n].prev = IF before = {} THEN NoHash ELSE trace[LastLine(before)].hash
    <2> DEFINE before == {m \in LinesOf(trace[n].life) : m < n}
    <2>1. Latest(trace[n].prev, before) /\ before \in SUBSET Nat /\ before \subseteq LinesOf(trace[n].life)
      BY <1>1, <1>2, <1>4 DEF LineInv, InFile
    <2> HIDE DEF before
    <2>2. CASE before = {}
      BY <2>1, <2>2 DEF Latest, before
    <2>3. CASE before # {}
      <3>1. LastLine(before) = trace[n].prev /\ trace[n].prev \in before
        BY <2>1, <2>3, LatestIsLast
      <3> QED
        BY <1>3, <2>1, <2>3, <3>1 DEF before
    <2> QED
      BY <2>2, <2>3
  <1>5. ASSUME NEW p \in Processes, kernel[p].alive
        PROVE  LET mine == LinesOf(kernel[p].life)
               IN  /\ kernel[p].total = Cardinality(mine)
                   /\ kernel[p].vetoed = Cardinality({n \in mine : trace[n].verdict = "VETO"})
                   /\ kernel[p].prev = IF mine = {} THEN NoHash ELSE trace[LastLine(mine)].hash
    <2> DEFINE mine == LinesOf(kernel[p].life)
    <2>1. /\ kernel[p].total = Cardinality(mine)
          /\ kernel[p].vetoed = Cardinality({n \in mine : trace[n].verdict = "VETO"})
          /\ Latest(kernel[p].prev, mine) /\ mine \in SUBSET Nat
      BY <1>1, <1>2, <1>5 DEF KernelInv, VetoedIn
    <2>2. mine # {} => LastLine(mine) = kernel[p].prev /\ kernel[p].prev \in mine
      BY <2>1, LatestIsLast
    <2>3. kernel[p].prev = IF mine = {} THEN NoHash ELSE trace[LastLine(mine)].hash
      BY <1>3, <2>1, <2>2 DEF Latest
    <2> QED
      BY <2>1, <2>3
  <1>6. ChainPerProcess
    BY <1>4 DEF ChainPerProcess
  <1>7. KernelKnowsItsLines
    BY <1>5 DEF KernelKnowsItsLines
  <1> QED
    BY <1>1, <1>6, <1>7 DEF TraceHolds, LineInv

\* However many processes write to the trace file, begin, end, wipe it, tear lines or fail
\* to read it: every whole line names the latest one of its own process, a living kernel has
\* counted its lines, and what was vetoed has no result (federation_kernel.py:118-121, 194).
THEOREM TraceAlwaysHolds == FkSpec => []TraceHolds
  BY TraceAtFirst, TraceStep, InvImpliesTrace, PTL DEF FkSpec

\* Once there is a file and no process that saw none is left, no line is lost any more.
THEOREM WrittenAlwaysStays == FkSpec => WrittenStays
  <1>1. ASSUME TraceInv, [FkNext]_fkvars, Settled PROVE Settled' /\ wiped' = wiped
    <2>1. kernel \in [Processes -> Kernel] /\ onDisk /\ \A p \in Processes : kernel[p] # Opening
      BY <1>1 DEF TraceInv, FkTypes, Settled
    <2>2. ASSUME NEW k, k.alive PROVE k # Opening
      BY <2>2 DEF Opening
    <2>3. ASSUME NEW p \in Processes, NEW k, kernel' = [kernel EXCEPT ![p] = k], k # Opening,
                 onDisk' = onDisk, wiped' = wiped
          PROVE  Settled' /\ wiped' = wiped
      BY <2>1, <2>3 DEF Settled
    <2>4. Absent # Opening
      BY DEF Absent, Opening
    <2>5. ASSUME NEW p \in Processes, Starts(p) PROVE Settled' /\ wiped' = wiped
      <3>1. kernel' = [kernel EXCEPT ![p] = FreshKernel(started')] /\ onDisk' = onDisk /\ wiped' = wiped
        BY <2>1, <2>5 DEF Starts, FindsFile, Alive
      <3>2. FreshKernel(started').alive
        BY DEF FreshKernel
      <3> QED
        BY <2>2, <2>3, <3>1, <3>2
    <2>6. ASSUME NEW p \in Processes, RunIntent(p) PROVE Settled' /\ wiped' = wiped
      <3>1. kernel[p].alive /\ kernel[p] \in LiveKernel
        BY <2>1, <2>6, KernelCases DEF RunIntent
      <3>2. PICK verdict : kernel' = [kernel EXCEPT ![p] = RecordedLine(p, verdict)]
        BY <2>6 DEF RunIntent
      <3>3. RecordedLine(p, verdict).alive
        BY <3>1 DEF RecordedLine, Booked, LiveKernel
      <3>4. onDisk' = onDisk /\ wiped' = wiped
        BY <2>6 DEF RunIntent
      <3> QED
        BY <2>2, <2>3, <3>2, <3>3, <3>4
    <2>7. ASSUME NEW p \in Processes, ReadTrace(p) PROVE Settled' /\ wiped' = wiped
      <3>1. kernel[p].alive /\ kernel[p] \in LiveKernel
        BY <2>1, <2>7, KernelCases DEF ReadTrace
      <3> DEFINE k == [kernel[p] EXCEPT !.seen = Cardinality(InFile)]
      <3>2. k.alive
        BY <3>1 DEF LiveKernel
      <3>3. onDisk' = onDisk /\ wiped' = wiped
            /\ (kernel' = [kernel EXCEPT ![p] = k] \/ kernel' = [kernel EXCEPT ![p] = Absent])
        BY <2>7 DEF ReadTrace
      <3> HIDE DEF k
      <3> QED
        BY <2>2, <2>3, <2>4, <3>2, <3>3
    <2>8. ASSUME NEW p \in Processes, RunTearsLine(p) \/ Exits(p) PROVE Settled' /\ wiped' = wiped
      BY <2>3, <2>4, <2>8 DEF RunTearsLine, Exits
    <2>9. ASSUME NEW p \in Processes, Opens(p) PROVE FALSE
      BY <2>1, <2>9 DEF Opens
    <2>10. CASE UNCHANGED fkvars
      BY <1>1, <2>10 DEF fkvars, Settled
    <2> QED
      BY <1>1, <2>5, <2>6, <2>7, <2>8, <2>9, <2>10 DEF FkNext
  <1>2. TraceInv /\ [FkNext]_fkvars => [Settled => Settled' /\ wiped' = wiped]_fkvars
    BY <1>1
  <1> QED
    BY <1>2, TraceAtFirst, TraceStep, PTL DEF FkSpec, WrittenStays

-----------------------------------------------------------------------------
Steps == [type : STRING, service : STRING]
Events == [id : Nat, status : {"BLOCKED", "DONE"}, reason : {"HIGH_RISK", "POLICY_VETO", "verified"}]
Audits == [id : Nat, valid : BOOLEAN, results : Seq({"executed", "aabs", "stub_dispatched"})]
\* What the gateway counted of a service, in a log of calls.
CallsOf(s, old) == {k \in DOMAIN old : old[k] = s}
OsAnswers == {"raised", "blocked", "valid", "invalid"}

OsTypes ==
  /\ runs \in Nat /\ events \in Seq(Events) /\ audit \in Seq(Audits) /\ answers \in Seq(OsAnswers)
  /\ os.at \in {"idle", "gate", "execute"} /\ os.plan \in Seq(Steps)
  /\ os.results \in Seq({"executed", "aabs", "stub_dispatched"})
  /\ os = [at |-> os.at, id |-> os.id, text |-> os.text, sim |-> os.sim, plan |-> os.plan,
           results |-> os.results]
  /\ aabsLog.log \in Seq(STRING)

\* The runs that were verified, by the broadcasts and by the audit log.
Verified(es) == {es[n].id : n \in {m \in DOMAIN es : es[m].reason = "verified"}}
Audited(es) == {es[k].id : k \in DOMAIN es}
Ordered(es) == \A m, n \in DOMAIN es : m < n => es[m].id < es[n].id

\* EventsFollowRuns by its parts.
RunsAnswered == Len(answers) = runs - (IF os = IdleOs THEN 0 ELSE 1)
EventInv ==
  /\ {events[n].id : n \in DOMAIN events} = {k \in DOMAIN answers : answers[k] # "raised"}
  /\ Ordered(events)
  /\ \A n \in DOMAIN events : (events[n].status = "DONE") = (answers[events[n].id] = "valid")
AuditInv ==
  /\ Ordered(audit)
  /\ \A k \in DOMAIN audit : /\ audit[k].id \in DOMAIN answers
                             /\ answers[audit[k].id] \in {"raised", IF audit[k].valid THEN "valid" ELSE "invalid"}
VerifiedAudited == Verified(events) = {i \in Audited(audit) : answers[i] # "raised"}
CallsCounted == \A s \in Registered : aabsLog.counts[s] = Cardinality(CallsOf(s, aabsLog.log))

\* The run under way is the latest one, and there is none when os is idle.
LatestRun == IF os.at = "idle" THEN os = IdleOs ELSE os.id = runs /\ runs > 0

OsInv ==
  /\ OsTypes /\ LatestRun
  /\ RunsAnswered /\ EventInv /\ AuditInv /\ VerifiedAudited /\ CallsCounted

LEMMA AtIdle == IdleOs.at = "idle" /\ (os = IdleOs => os.at = "idle")
  BY DEF IdleOs

LEMMA IdleTyped ==
  ASSUME os' = IdleOs, runs' \in Nat, events' \in Seq(Events), audit' \in Seq(Audits),
         answers' \in Seq(OsAnswers), aabsLog'.log \in Seq(STRING)
  PROVE  OsTypes'
  <1>1. <<>> \in Seq(Steps) /\ <<>> \in Seq({"executed", "aabs", "stub_dispatched"})
    OBVIOUS
  <1> QED
    BY <1>1 DEF OsTypes, IdleOs

\* What a run that ends does to the answers.
LEMMA AnswerGiven ==
  ASSUME OsInv, os.at # "idle", NEW a \in OsAnswers, answers' = Append(answers, a)
  PROVE  /\ runs \in Nat /\ os.id = runs /\ runs - 1 \in Nat /\ Len(answers) = runs - 1
         /\ answers' \in Seq(OsAnswers) /\ Len(answers') = runs /\ DOMAIN answers = 1 .. (runs - 1)
         /\ DOMAIN answers' = DOMAIN answers \cup {runs} /\ runs \notin DOMAIN answers /\ answers'[runs] = a
         /\ \A n \in DOMAIN answers : answers'[n] = answers[n] /\ n \in Nat /\ n < runs
  <1>1. answers \in Seq(OsAnswers) /\ runs \in Nat /\ os.id = runs /\ Len(answers) = runs - 1
    BY AtIdle DEF OsInv, OsTypes, LatestRun, RunsAnswered
  <1> QED
    BY <1>1

\* An element with the latest number behind smaller ones.
LEMMA StaysOrdered ==
  ASSUME NEW R, NEW es \in Seq(R), NEW x \in R, Ordered(es), \A n \in DOMAIN es : es[n].id < x.id
  PROVE  Ordered(Append(es, x))
  <1> DEFINE u == Append(es, x)
             top == Len(es) + 1
  <1>0. /\ Len(es) \in Nat /\ DOMAIN es = 1 .. Len(es) /\ u[top] = x
        /\ \A n \in DOMAIN es : u[n] = es[n]
        /\ \A n \in DOMAIN u : n = top \/ n \in DOMAIN es
    <2> DEFINE t == es
    <2>1. t \in Seq(R) /\ x \in R
      OBVIOUS
    <2> HIDE DEF t
    <2>2. /\ Len(t) \in Nat /\ DOMAIN t = 1 .. Len(t) /\ Append(t, x)[Len(t) + 1] = x
          /\ \A n \in DOMAIN t : Append(t, x)[n] = t[n]
          /\ \A n \in DOMAIN Append(t, x) : n = Len(t) + 1 \/ n \in DOMAIN t
      BY <2>1, AppendedTo
    <2> QED
      BY <2>2 DEF t
  <1>1. /\ top \in Nat /\ \A n \in DOMAIN es : n \in Nat /\ n # top
        /\ \A n \in DOMAIN u : n = top \/ n \in DOMAIN es
    BY <1>0
  <1>2. u[top] = x /\ \A n \in DOMAIN es : u[n] = es[n]
    BY <1>0
  <1>3. \A n \in DOMAIN es : n < top
    BY <1>0
  <1> HIDE DEF u, top
  <1>4. ASSUME NEW m \in DOMAIN u, NEW n \in DOMAIN u, m < n PROVE u[m].id < u[n].id
    <2>1. m \in DOMAIN es
      <3>1. m \in Nat /\ n \in Nat /\ top \in Nat /\ n <= top
        <4>1. m = top \/ m \in DOMAIN es
          BY <1>1
        <4>2. m \in Nat
          BY <1>1, <4>1
        <4>3. n = top \/ n \in DOMAIN es
          BY <1>1
        <4>4. n = top \/ n < top
          BY <1>3, <4>3
        <4>5. n \in Nat
          BY <1>1, <4>3
        <4> QED
          BY <1>1, <4>2, <4>4, <4>5
      <3>2. m # top
        BY <1>4, <3>1
      <3> QED
        BY <1>1, <3>2
    <2>2. CASE n = top
      BY <1>2, <2>1, <2>2
    <2>3. CASE n \in DOMAIN es
      BY <1>2, <1>4, <2>1, <2>3 DEF Ordered
    <2> QED
      BY <1>1, <1>4, <2>2, <2>3
  <1> QED
    BY <1>4 DEF Ordered, u

\* A run that returns is broadcast with its number, one that raises is not.
LEMMA RunBroadcast ==
  ASSUME OsInv, os.at # "idle", NEW a \in OsAnswers, answers' = Append(answers, a),
         \/ a = "raised" /\ events' = events
         \/ a # "raised" /\ \E e \in Events : /\ e.id = os.id /\ events' = Append(events, e)
                                              /\ (e.status = "DONE") = (a = "valid")
  PROVE  EventInv' /\ events' \in Seq(Events)
  <1>1. /\ runs \in Nat /\ os.id = runs /\ DOMAIN answers' = DOMAIN answers \cup {runs}
        /\ runs \notin DOMAIN answers /\ answers'[runs] = a
        /\ \A n \in DOMAIN answers : answers'[n] = answers[n] /\ n \in Nat /\ n < runs
    BY AnswerGiven
  <1>2. /\ events \in Seq(Events) /\ Ordered(events)
        /\ {events[n].id : n \in DOMAIN events} = {k \in DOMAIN answers : answers[k] # "raised"}
        /\ \A n \in DOMAIN events : (events[n].status = "DONE") = (answers[events[n].id] = "valid")
    BY DEF OsInv, OsTypes, EventInv
  <1>3. \A n \in DOMAIN events : events[n].id \in DOMAIN answers /\ events[n].id < runs
    BY <1>1, <1>2
  <1>4. {k \in DOMAIN answers' : answers'[k] # "raised"} =
          {k \in DOMAIN answers : answers[k] # "raised"} \cup IF a = "raised" THEN {} ELSE {runs}
    BY <1>1
  <1>5. CASE a = "raised" /\ events' = events
    BY <1>1, <1>2, <1>3, <1>4, <1>5 DEF EventInv
  <1>6. ASSUME a # "raised", NEW e \in Events, e.id = os.id, events' = Append(events, e),
               (e.status = "DONE") = (a = "valid")
        PROVE  EventInv' /\ events' \in Seq(Events)
    <2> DEFINE top == Len(events) + 1
    <2>1. /\ events' \in Seq(Events) /\ DOMAIN events' = DOMAIN events \cup {top} /\ events'[top] = e
          /\ \A n \in DOMAIN events : events'[n] = events[n]
      BY <1>2, <1>6
    <2> HIDE DEF top
    <2>2. Ordered(events')
      BY <1>1, <1>2, <1>3, <1>6, StaysOrdered
    <2>3. {events'[n].id : n \in DOMAIN events'} = {events[n].id : n \in DOMAIN events} \cup {runs}
      BY <1>1, <1>6, <2>1
    <2>4. \A n \in DOMAIN events' : (events'[n].status = "DONE") = (answers'[events'[n].id] = "valid")
      BY <1>1, <1>2, <1>3, <1>6, <2>1
    <2> QED
      BY <1>2, <1>4, <1>6, <2>1, <2>2, <2>3, <2>4 DEF EventInv
  <1> QED
    BY <1>5, <1>6

\* The audit log has an entry more, or none.
LEMMA RunAudited ==
  ASSUME OsInv, os.at # "idle", NEW a \in OsAnswers, answers' = Append(answers, a),
         \/ audit' = audit
         \/ \E r \in Audits : /\ r.id = os.id /\ audit' = Append(audit, r)
                             /\ a \in {"raised", IF r.valid THEN "valid" ELSE "invalid"}
  PROVE  AuditInv' /\ audit' \in Seq(Audits)
  <1>1. /\ runs \in Nat /\ os.id = runs /\ DOMAIN answers' = DOMAIN answers \cup {runs}
        /\ runs \notin DOMAIN answers /\ answers'[runs] = a
        /\ \A n \in DOMAIN answers : answers'[n] = answers[n] /\ n \in Nat /\ n < runs
    BY AnswerGiven
  <1>2. /\ audit \in Seq(Audits) /\ Ordered(audit)
        /\ \A k \in DOMAIN audit : /\ audit[k].id \in DOMAIN answers
             /\ answers[audit[k].id] \in {"raised", IF audit[k].valid THEN "valid" ELSE "invalid"}
    BY DEF OsInv, OsTypes, AuditInv
  <1>3. CASE audit' = audit
    BY <1>1, <1>2, <1>3 DEF AuditInv
  <1>4. ASSUME NEW r \in Audits, r.id = os.id, audit' = Append(audit, r),
               a \in {"raised", IF r.valid THEN "valid" ELSE "invalid"}
        PROVE  AuditInv' /\ audit' \in Seq(Audits)
    <2> DEFINE top == Len(audit) + 1
    <2>1. /\ audit' \in Seq(Audits) /\ DOMAIN audit' = DOMAIN audit \cup {top} /\ audit'[top] = r
          /\ \A n \in DOMAIN audit : audit'[n] = audit[n]
      BY <1>2, <1>4
    <2> HIDE DEF top
    <2>2. Ordered(audit')
      BY <1>1, <1>2, <1>4, StaysOrdered
    <2>3. ASSUME NEW k \in DOMAIN audit'
          PROVE  /\ audit'[k].id \in DOMAIN answers'
                 /\ answers'[audit'[k].id] \in {"raised", IF audit'[k].valid THEN "valid" ELSE "invalid"}
      <3>1. CASE k = top
        BY <1>1, <1>4, <2>1, <3>1
      <3>2. CASE k \in DOMAIN audit
        BY <1>1, <1>2, <2>1, <3>2
      <3> QED
        BY <2>1, <3>1, <3>2
    <2> QED
      BY <2>1, <2>2, <2>3 DEF AuditInv
  <1> QED
    BY <1>3, <1>4

\* A run that is over leaves os idle and the three books in step.
LEMMA RunOver ==
  ASSUME OsInv, os.at # "idle", NEW a \in OsAnswers, Ends(a), UNCHANGED <<runs, aabsLog>>,
         EventInv' /\ events' \in Seq(Events), AuditInv' /\ audit' \in Seq(Audits), VerifiedAudited'
  PROVE  OsInv'
  <1>1. os' = IdleOs /\ answers' = Append(answers, a) /\ os'.at = "idle"
    BY AtIdle DEF Ends
  <1>2. answers' \in Seq(OsAnswers) /\ Len(answers') = runs /\ runs \in Nat
    BY <1>1, AnswerGiven
  <1>3. aabsLog'.log \in Seq(STRING) /\ CallsCounted'
    BY DEF OsInv, OsTypes, CallsCounted
  <1>4. LatestRun' /\ RunsAnswered'
    BY <1>1, <1>2 DEF LatestRun, RunsAnswered
  <1> QED
    BY <1>1, <1>2, <1>3, <1>4, IdleTyped DEF OsInv

\* A run ends without a word of its verification: it raised, or it was blocked.
LEMMA EndsUnverified ==
  ASSUME OsInv, os.at # "idle", NEW a \in {"raised", "blocked"}, Ends(a), UNCHANGED <<runs, aabsLog>>,
         \/ a = "raised" /\ events' = events
         \/ a = "blocked" /\ \E e \in Events : /\ e.id = os.id /\ events' = Append(events, e)
                                               /\ e.status = "BLOCKED" /\ e.reason # "verified",
         \/ audit' = audit
         \/ a = "raised" /\ \E r \in Audits : r.id = os.id /\ audit' = Append(audit, r)
  PROVE  OsInv'
  <1>1. a \in OsAnswers /\ answers' = Append(answers, a)
    BY DEF OsAnswers, Ends
  <1>2. EventInv' /\ events' \in Seq(Events)
    BY <1>1, RunBroadcast
  <1>3. AuditInv' /\ audit' \in Seq(Audits)
    BY <1>1, RunAudited
  <1>4. /\ runs \notin DOMAIN answers /\ answers'[runs] = a /\ os.id = runs
        /\ \A n \in DOMAIN answers : answers'[n] = answers[n]
    BY <1>1, AnswerGiven
  <1>5. /\ events \in Seq(Events) /\ audit \in Seq(Audits) /\ VerifiedAudited
        /\ \A i \in Audited(audit) : i \in DOMAIN answers
    BY DEF OsInv, OsTypes, AuditInv, Audited
  <1>6. Verified(events') = Verified(events)
    <2>1. CASE events' = events
      BY <2>1
    <2>2. ASSUME NEW e \in Events, events' = Append(events, e), e.reason # "verified"
          PROVE  Verified(events') = Verified(events)
      <3>1. /\ DOMAIN events' = DOMAIN events \cup {Len(events) + 1} /\ events'[Len(events) + 1] = e
            /\ \A n \in DOMAIN events : events'[n] = events[n]
        BY <1>5, <2>2
      <3> QED
        BY <2>2, <3>1 DEF Verified
    <2> QED
      BY <2>1, <2>2
  <1>7. {i \in Audited(audit') : answers'[i] # "raised"} = {i \in Audited(audit) : answers[i] # "raised"}
    <2>1. CASE audit' = audit
      BY <1>4, <1>5, <2>1
    <2>2. ASSUME NEW r \in Audits, a = "raised", r.id = os.id, audit' = Append(audit, r)
          PROVE  {i \in Audited(audit') : answers'[i] # "raised"} = {i \in Audited(audit) : answers[i] # "raised"}
      <3>1. /\ DOMAIN audit' = DOMAIN audit \cup {Len(audit) + 1} /\ audit'[Len(audit) + 1] = r
            /\ \A n \in DOMAIN audit : audit'[n] = audit[n]
        BY <1>5, <2>2
      <3>2. Audited(audit') = Audited(audit) \cup {runs}
        BY <1>4, <2>2, <3>1 DEF Audited
      <3> QED
        BY <1>4, <1>5, <2>2, <3>2
    <2> QED
      BY <2>1, <2>2
  <1>8. VerifiedAudited'
    BY <1>5, <1>6, <1>7 DEF VerifiedAudited
  <1> QED
    BY <1>1, <1>2, <1>3, <1>8, RunOver

LEMMA GateKeeps == OsInv /\ Gate => OsInv'
  <1> SUFFICES ASSUME OsInv, Gate PROVE OsInv'
    OBVIOUS
  <1> USE DEF OsInv
  <1>1. /\ os.at = "gate" /\ UNCHANGED <<runs, aabsLog>>
        /\ \/ Block("HIGH_RISK") \/ Block("POLICY_VETO")
           \/ \E p \in OsPlans : os' = [os EXCEPT !.at = "execute", !.plan = p]
                                 /\ UNCHANGED <<events, audit, answers>>
    BY DEF Gate
  <1>2. ASSUME NEW reason \in {"HIGH_RISK", "POLICY_VETO"}, Block(reason) PROVE OsInv'
    <2> DEFINE e == [id |-> os.id, status |-> "BLOCKED", reason |-> reason]
    <2>1. e \in Events /\ e.id = os.id /\ e.reason # "verified"
      BY <1>1 DEF OsTypes, LatestRun, Events
    <2>2. events' = Append(events, e) /\ Ends("blocked") /\ UNCHANGED audit
      BY <1>2 DEF Block
    <2>3. e.status = "BLOCKED"
      OBVIOUS
    <2> HIDE DEF e
    <2> QED
      BY <1>1, <2>1, <2>2, <2>3, EndsUnverified
  <1>3. ASSUME NEW p \in OsPlans, os' = [os EXCEPT !.at = "execute", !.plan = p],
               UNCHANGED <<events, audit, answers>>
        PROVE  OsInv'
    <2>1. p \in Seq(Steps)
      BY PlanAssumption DEF Steps
    <2>2. /\ os'.at = "execute" /\ os'.plan = p /\ os'.id = os.id /\ os'.results = os.results
          /\ os' = [at |-> os'.at, id |-> os'.id, text |-> os'.text, sim |-> os'.sim, plan |-> os'.plan,
                    results |-> os'.results]
      BY <1>3 DEF OsTypes
    <2>3. os # IdleOs /\ os' # IdleOs
      BY <1>1, <2>2, AtIdle
    <2>4. OsTypes' /\ LatestRun'
      BY <1>1, <1>3, <2>1, <2>2 DEF OsTypes, LatestRun
    <2>5. RunsAnswered'
      BY <1>1, <1>3, <2>3 DEF RunsAnswered
    <2>6. events' = events /\ audit' = audit /\ answers' = answers /\ aabsLog' = aabsLog
      BY <1>1, <1>3
    <2>7. EventInv'
      BY <2>6 DEF EventInv, Ordered
    <2>8. AuditInv'
      BY <2>6 DEF AuditInv, Ordered
    <2>9. VerifiedAudited'
      BY <2>6 DEF VerifiedAudited, Verified, Audited
    <2>10. CallsCounted'
      BY <2>6 DEF CallsCounted, CallsOf
    <2> QED
      BY <2>4, <2>5, <2>7, <2>8, <2>9, <2>10
  <1> QED
    BY <1>1, <1>2, <1>3

\* A call of the gateway is counted under its name, if it has a counter.
LEMMA CallCounted ==
  ASSUME NEW service \in STRING, aabsLog.log \in Seq(STRING), AabsCall(service),
         \A s \in Registered : aabsLog.counts[s] = Cardinality(CallsOf(s, aabsLog.log))
  PROVE  /\ aabsLog'.log \in Seq(STRING)
         /\ \A s \in Registered : aabsLog'.counts[s] = Cardinality(CallsOf(s, aabsLog'.log))
  <1> DEFINE old == aabsLog.log
  <1>1. /\ aabsLog'.log = Append(old, service)
        /\ \A s \in Registered : aabsLog'.counts[s] = aabsLog.counts[s] + IF s = service THEN 1 ELSE 0
    BY DEF AabsCall
  <1>2. /\ Append(old, service) \in Seq(STRING) /\ Len(old) \in Nat /\ DOMAIN old = 1 .. Len(old)
        /\ DOMAIN Append(old, service) = 1 .. Len(old) + 1
        /\ \A i \in DOMAIN old : Append(old, service)[i] = old[i]
        /\ Append(old, service)[Len(old) + 1] = service
    BY AppendedTo
  <1>3. ASSUME NEW s \in Registered
        PROVE  aabsLog'.counts[s] = Cardinality(CallsOf(s, aabsLog'.log))
    <2>1. CallsOf(s, old) \in SUBSET (1 .. Len(old))
      BY <1>2 DEF CallsOf
    <2>2. CallsOf(s, aabsLog'.log) = IF s = service THEN CallsOf(s, old) \cup {Len(old) + 1}
                                     ELSE CallsOf(s, old)
      BY <1>1, <1>2 DEF CallsOf
    <2>3. /\ Cardinality(CallsOf(s, old)) \in Nat
          /\ Cardinality(CallsOf(s, old) \cup {Len(old) + 1}) = Cardinality(CallsOf(s, old)) + 1
      BY <1>2, <2>1, CountNumbers
    <2> QED
      BY <1>1, <2>2, <2>3
  <1> QED
    BY <1>1, <1>2, <1>3

LEMMA OsExecuteKeeps == OsInv /\ ExecuteOsStep => OsInv'
  <1> SUFFICES ASSUME OsInv, ExecuteOsStep PROVE OsInv'
    OBVIOUS
  <1> USE DEF OsInv
  <1> DEFINE first == os.plan[1]
             given == CASE first.type = "local_tool" -> <<RunLocal>> [] first.type = "aabs" -> <<"aabs">>
                         [] first.type = "swarm" -> <<Dispatch>> [] OTHER -> <<>>
             Outputs == {"executed", "aabs", "stub_dispatched"}
  <1>1. /\ os.at = "execute" /\ os.plan # <<>> /\ UNCHANGED <<runs, audit, events, answers>>
        /\ AabsCall(first.service) \/ UNCHANGED aabsLog
        /\ os' = [os EXCEPT !.plan = Tail(@), !.results = @ \o given]
    BY DEF ExecuteOsStep
  <1>2. os.plan \in Seq(Steps) /\ os.results \in Seq(Outputs)
    BY DEF OsTypes
  <1>3. first \in Steps /\ Tail(os.plan) \in Seq(Steps)
    BY <1>1, <1>2
  <1>4. given \in Seq(Outputs)
    <2>1. <<RunLocal>> \in Seq(Outputs) /\ <<"aabs">> \in Seq(Outputs) /\ <<Dispatch>> \in Seq(Outputs)
          /\ <<>> \in Seq(Outputs)
      BY DEF RunLocal, Dispatch
    <2>2. given \in {<<RunLocal>>, <<"aabs">>, <<Dispatch>>, <<>>}
      OBVIOUS
    <2> QED
      BY <2>1, <2>2
  <1> HIDE DEF given, first
  <1>5. os.results \o given \in Seq(Outputs)
    BY <1>2, <1>4
  <1>6. /\ os'.at = "execute" /\ os'.plan = Tail(os.plan) /\ os'.id = os.id
        /\ os'.results = os.results \o given
        /\ os' = [at |-> os'.at, id |-> os'.id, text |-> os'.text, sim |-> os'.sim, plan |-> os'.plan,
                  results |-> os'.results]
    BY <1>1 DEF OsTypes
  <1>7. os # IdleOs /\ os' # IdleOs
    BY <1>1, <1>6, AtIdle
  <1>8. \A s \in Registered : aabsLog.counts[s] = Cardinality(CallsOf(s, aabsLog.log))
    BY DEF CallsCounted
  <1>9. /\ aabsLog'.log \in Seq(STRING)
        /\ \A s \in Registered : aabsLog'.counts[s] = Cardinality(CallsOf(s, aabsLog'.log))
    <2>1. first.service \in STRING
      BY <1>3 DEF Steps
    <2>2. CASE AabsCall(first.service)
      BY <1>8, <2>1, <2>2, CallCounted DEF OsTypes
    <2> QED
      BY <1>1, <1>8, <2>2 DEF OsTypes
  <1>10. OsTypes' /\ LatestRun'
    BY <1>1, <1>3, <1>5, <1>6, <1>9 DEF OsTypes, LatestRun
  <1> QED
    BY <1>1, <1>7, <1>9, <1>10 DEF RunsAnswered, EventInv, AuditInv, VerifiedAudited, CallsCounted

LEMMA OsStep == OsInv /\ [OsNext]_osvars => OsInv'
  <1> SUFFICES ASSUME OsInv, [OsNext]_osvars PROVE OsInv'
    OBVIOUS
  <1> USE DEF OsInv
  <1>1. CASE RunOs
    <2>1. PICK t \in Texts, s \in Simulations :
            os' = [IdleOs EXCEPT !.at = "gate", !.id = runs + 1, !.text = {t}, !.sim = {s}]
      BY <1>1 DEF RunOs
    <2>2. os = IdleOs /\ runs' = runs + 1 /\ UNCHANGED <<audit, events, aabsLog, answers>>
      BY <1>1 DEF RunOs, LatestRun
    <2>3. os' = [at |-> "gate", id |-> runs + 1, text |-> {t}, sim |-> {s}, plan |-> <<>>, results |-> <<>>]
      BY <2>1 DEF IdleOs
    <2>4. os' # IdleOs /\ <<>> \in Seq(Steps) /\ <<>> \in Seq({"executed", "aabs", "stub_dispatched"})
      BY <2>3, AtIdle
    <2>5. OsTypes' /\ LatestRun'
      BY <2>2, <2>3, <2>4 DEF OsTypes, LatestRun
    <2>6. RunsAnswered'
      BY <2>2, <2>4 DEF RunsAnswered, OsTypes
    <2> QED
      BY <2>2, <2>5, <2>6 DEF EventInv, AuditInv, VerifiedAudited, CallsCounted
  <1>2. CASE Gate
    BY <1>2, GateKeeps
  <1>3. CASE ExecuteOsStep
    BY <1>3, OsExecuteKeeps
  <1>4. CASE Conclude
    <2>1. PICK valid \in BOOLEAN :
            /\ audit' = Append(audit, [id |-> os.id, valid |-> valid, results |-> os.results])
            /\ events' = Append(events, [id |-> os.id, status |-> IF valid THEN "DONE" ELSE "BLOCKED",
                                         reason |-> "verified"])
            /\ Ends(IF valid THEN "valid" ELSE "invalid")
      BY <1>4 DEF Conclude, AuditLogged
    <2> DEFINE r == [id |-> os.id, valid |-> valid, results |-> os.results]
               e == [id |-> os.id, status |-> IF valid THEN "DONE" ELSE "BLOCKED", reason |-> "verified"]
               a == IF valid THEN "valid" ELSE "invalid"
    <2>2. os.at # "idle" /\ UNCHANGED <<runs, aabsLog>>
      BY <1>4 DEF Conclude
    <2>3. r \in Audits /\ r.id = os.id /\ r.valid = valid
      BY <2>2 DEF OsTypes, LatestRun, Audits
    <2>4. e \in Events /\ e.id = os.id /\ e.reason = "verified"
      BY <2>2 DEF OsTypes, LatestRun, Events
    <2>5. (e.status = "DONE") = (a = "valid")
      <3>1. CASE valid
        BY <3>1
      <3>2. CASE ~valid
        BY <3>2
      <3> QED
        BY <3>1, <3>2
    <2>6. a \in OsAnswers /\ a # "raised" /\ Ends(a) /\ a = IF r.valid THEN "valid" ELSE "invalid"
      BY <2>1, <2>3 DEF OsAnswers
    <2>7. audit' = Append(audit, r) /\ events' = Append(events, e) /\ answers' = Append(answers, a)
      BY <2>1, <2>6 DEF Ends
    <2> HIDE DEF r, e, a
    <2>8. EventInv' /\ events' \in Seq(Events)
      BY <2>2, <2>4, <2>5, <2>6, <2>7, RunBroadcast
    <2>9. AuditInv' /\ audit' \in Seq(Audits)
      BY <2>2, <2>3, <2>6, <2>7, RunAudited
    <2>10. VerifiedAudited'
      <3>1. /\ runs \notin DOMAIN answers /\ answers'[runs] = a /\ os.id = runs
            /\ \A n \in DOMAIN answers : answers'[n] = answers[n]
        BY <2>2, <2>6, <2>7, AnswerGiven
      <3>2. /\ events \in Seq(Events) /\ audit \in Seq(Audits) /\ VerifiedAudited
            /\ \A i \in Audited(audit) : i \in DOMAIN answers
        BY DEF OsTypes, AuditInv, Audited
      <3>3. Verified(events') = Verified(events) \cup {runs}
        <4>1. /\ DOMAIN events' = DOMAIN events \cup {Len(events) + 1} /\ events'[Len(events) + 1] = e
              /\ \A n \in DOMAIN events : events'[n] = events[n]
          BY <2>4, <2>7, <3>2
        <4> QED
          BY <2>4, <3>1, <4>1 DEF Verified
      <3>4. Audited(audit') = Audited(audit) \cup {runs}
        <4>1. /\ DOMAIN audit' = DOMAIN audit \cup {Len(audit) + 1} /\ audit'[Len(audit) + 1] = r
              /\ \A n \in DOMAIN audit : audit'[n] = audit[n]
          BY <2>3, <2>7, <3>2
        <4> QED
          BY <2>3, <3>1, <4>1 DEF Audited
      <3>5. {i \in Audited(audit') : answers'[i] # "raised"} = {i \in Audited(audit) : answers[i] # "raised"} \cup {runs}
        BY <2>6, <3>1, <3>2, <3>4
      <3> QED
        BY <3>2, <3>3, <3>5 DEF VerifiedAudited
    <2> QED
      BY <2>2, <2>6, <2>8, <2>9, <2>10, RunOver
  <1>5. CASE Raises
    BY <1>5, EndsUnverified DEF Raises
  <1>6. CASE BroadcastRaises
    <2>1. PICK valid \in BOOLEAN : audit' = Append(audit, [id |-> os.id, valid |-> valid, results |-> os.results])
      BY <1>6 DEF BroadcastRaises, AuditLogged
    <2> DEFINE r == [id |-> os.id, valid |-> valid, results |-> os.results]
    <2>2. os.at # "idle" /\ Ends("raised") /\ UNCHANGED <<runs, events, aabsLog>>
      BY <1>6 DEF BroadcastRaises
    <2>3. r \in Audits /\ r.id = os.id /\ audit' = Append(audit, r)
      BY <2>1, <2>2 DEF OsTypes, LatestRun, Audits
    <2> HIDE DEF r
    <2> QED
      BY <2>2, <2>3, EndsUnverified
  <1>7. CASE UNCHANGED osvars
    BY <1>7 DEF osvars, OsTypes, LatestRun, RunsAnswered, EventInv, AuditInv, VerifiedAudited, CallsCounted
  <1> QED
    BY <1>1, <1>2, <1>3, <1>4, <1>5, <1>6, <1>7 DEF OsNext

\* The federation's pipeline, for any texts, simulations and plans and any number
\* of runs that end or raise anywhere: every run that returned was broadcast once,
\* in order, "DONE" exactly when its verification was valid and is in the audit log.
THEOREM EventsAlwaysFollowRuns == OsSpec => []EventsFollowRuns
  <1>1. OsInit => OsInv
    <2> SUFFICES ASSUME OsInit PROVE OsInv
      OBVIOUS
    <2>1. {k \in DOMAIN <<>> : FALSE} = {} /\ DOMAIN <<>> = {} /\ Len(<<>>) = 0
      OBVIOUS
    <2>2. OsTypes /\ LatestRun
      BY DEF OsInit, OsTypes, LatestRun, IdleOs
    <2>3. CallsCounted
      BY FS_EmptySet DEF OsInit, CallsCounted, CallsOf
    <2>4. RunsAnswered /\ EventInv /\ AuditInv
      BY DEF OsInit, RunsAnswered, EventInv, AuditInv, Ordered
    <2>5. Verified(events) = {} /\ Audited(audit) = {}
      BY DEF OsInit, Verified, Audited
    <2> QED
      BY <2>2, <2>3, <2>4, <2>5 DEF OsInv, VerifiedAudited
  <1>2. OsInv /\ [OsNext]_osvars => OsInv'
    BY OsStep
  <1>3. OsInv => EventsFollowRuns
    BY Zenon DEF OsInv, RunsAnswered, EventInv, AuditInv, VerifiedAudited, Ordered, CallsCounted, CallsOf, Verified, Audited, EventsFollowRuns
  <1> QED
    BY <1>1, <1>2, <1>3, PTL DEF OsSpec

-----------------------------------------------------------------------------
ActionTypes == {"SCALE", "SCALE_DOWN", "DEPLOY", "OPTIMIZE_GPU", "ISOLATE", "ROLLBACK",
                "MODIFY_PIPELINE", "MONITOR"}
ActionRecords == [type : ActionTypes, risk : 1 .. 4, delta : {-1, 0, 1}, simulated : BOOLEAN,
                  approved : BOOLEAN]
LogEntries == [action : ActionRecords, status : {"ESCALATED", "COMPLETED"}]

\* The decisions of one kind.
Kind(type) == {n \in DOMAIN log : log[n].action.type = type}

CouncilTypes ==
  /\ council = [nodes |-> council.nodes, cycles |-> council.cycles, pending |-> council.pending,
                executed |-> council.executed, log |-> council.log]
  /\ council.nodes \in Int /\ council.cycles \in Nat /\ council.executed \in Nat
  /\ council.pending \in Seq(ActionRecords) /\ council.log \in Seq(ActionRecords)

LayerTypes ==
  /\ layer = [nodes |-> layer.nodes, services |-> layer.services, gpu |-> layer.gpu,
              history |-> layer.history]
  /\ layer.nodes \in Int /\ layer.services \in Nat

TotalsTypes ==
  /\ totals = [submitted |-> totals.submitted, executed |-> totals.executed,
               blocked |-> totals.blocked, changes |-> totals.changes, mappings |-> totals.mappings,
               fidelity |-> totals.fidelity, direct |-> totals.direct]
  /\ totals.submitted \in Nat /\ totals.executed \in Nat /\ totals.blocked \in Nat
  /\ totals.changes \in Nat /\ totals.mappings \in Nat /\ totals.direct \in Nat

\* A session uses the pipeline or the council's own interface.
OneInterface ==
  /\ totals.direct # 0 => log = <<>>
  /\ totals.direct = 0 => council.nodes - layer.nodes = Cardinality(Kind("SCALE_DOWN"))

LayerFollows ==
  /\ layer.nodes = 2 + Cardinality(Kind("SCALE")) - Cardinality(Kind("SCALE_DOWN"))
  /\ layer.services = 1 + Cardinality(Kind("DEPLOY")) /\ layer.gpu = 45

\* Every change of size has its undo beside it.
UndoBeside(actions) ==
  \A n \in DOMAIN actions :
    actions[n].delta # 0 => \E m \in {n - 1, n + 1} \cap DOMAIN actions :
                              actions[m].delta = -actions[n].delta

CouncilInv ==
  /\ CouncilTypes
  /\ \A n \in DOMAIN council.pending : /\ ~council.pending[n].approved /\ ~simulation
                                       /\ council.pending[n].simulated
  /\ \A n \in DOMAIN council.log : council.log[n].approved
  /\ council.cycles = council.executed + Len(council.pending) + Len(log)
  /\ UndoBeside(council.log)

ActionLogInv ==
  /\ simulation \in BOOLEAN /\ log \in Seq(LogEntries)
  /\ LayerTypes /\ TotalsTypes /\ OneInterface /\ LayerFollows /\ DecisionsAddUp

RealityInv == CouncilInv /\ ActionLogInv

-----------------------------------------------------------------------------
\* What the council makes of a decision: a change of size is a high risk, and so
\* is simulated before it is carried out.
LEMMA Received ==
  ASSUME NEW d, simulation \in BOOLEAN
  PROVE  LET a == ReceiveCivDecision(d) IN
         /\ a \in ActionRecords /\ ~a.simulated
         /\ a.approved <=> (a.risk <= 2 \/ simulation)
         /\ a.type \in {"SCALE", "SCALE_DOWN", "DEPLOY"} => a.risk >= 3
         /\ a.type = "SCALE" => a.delta = 1
         /\ a.type = "SCALE_DOWN" => a.delta = -1
         /\ a.type \notin {"SCALE", "SCALE_DOWN"} => a.delta = 0
  <1> DEFINE a == ReceiveCivDecision(d)
             type == ActionOf(d)
             risk == ClassifyRisk(type)
             delta == DeltaNodes(type)
             approved == risk <= 2 \/ simulation
  <1>1. type \in ActionTypes
    BY DEF ActionOf, ActionTypes
  <1>2. a = [type |-> type, risk |-> risk, delta |-> delta, simulated |-> FALSE,
             approved |-> approved]
    BY DEF ReceiveCivDecision, AutoApproved
  <1> HIDE DEF type
  <1>3. risk \in 1 .. 4 /\ (type \in {"SCALE", "SCALE_DOWN", "DEPLOY"} => risk >= 3)
    BY DEF ClassifyRisk
  <1>4. /\ delta \in {-1, 0, 1} /\ (type = "SCALE" => delta = 1) /\ (type = "SCALE_DOWN" => delta = -1)
        /\ (type \notin {"SCALE", "SCALE_DOWN"} => delta = 0)
    BY DEF DeltaNodes
  <1>5. approved \in BOOLEAN /\ (approved <=> (risk <= 2 \/ simulation))
    OBVIOUS
  <1> HIDE DEF a, risk, delta, approved
  <1>6. a \in ActionRecords
    BY <1>1, <1>2, <1>3, <1>4, <1>5 DEF ActionRecords
  <1>7. /\ ~a.simulated /\ (a.approved <=> (a.risk <= 2 \/ simulation))
        /\ a.type \in {"SCALE", "SCALE_DOWN", "DEPLOY"} => a.risk >= 3
        /\ a.type = "SCALE" => a.delta = 1
        /\ a.type = "SCALE_DOWN" => a.delta = -1
        /\ a.type \notin {"SCALE", "SCALE_DOWN"} => a.delta = 0
    BY <1>2, <1>3, <1>4, <1>5
  <1> QED
    BY <1>6, <1>7, Zenon DEF a

\* An action with its simulation, as far as one was due.
LEMMA WithSimulation ==
  ASSUME NEW a \in ActionRecords, ~a.simulated, NEW b, b = [a EXCEPT !.simulated = SimulationDue(a)]
  PROVE  /\ b \in ActionRecords /\ b.type = a.type /\ b.risk = a.risk /\ b.delta = a.delta
         /\ (b.approved <=> a.approved) /\ (b.simulated <=> (a.risk >= 3))
         /\ (SimulationDue(a) <=> (a.risk >= 3))
  <1>1. (SimulationDue(a) <=> (a.risk >= 3)) /\ SimulationDue(a) \in BOOLEAN
    BY DEF SimulationDue
  <1> QED
    BY <1>1 DEF ActionRecords

-----------------------------------------------------------------------------
\* The impact memory counts a decision under two names.
LEMMA ImpactFields ==
  ASSUME TotalsTypes, NEW d, NEW t, t = RecordImpact(totals, d)
  PROVE  /\ t.submitted = totals.submitted /\ t.executed = totals.executed
         /\ t.blocked = totals.blocked /\ t.changes = totals.changes + 1
         /\ t.mappings = totals.mappings + 1 /\ t.direct = totals.direct
         /\ t = [submitted |-> t.submitted, executed |-> t.executed, blocked |-> t.blocked,
                 changes |-> t.changes, mappings |-> t.mappings, fidelity |-> t.fidelity,
                 direct |-> t.direct]
  BY DEF RecordImpact, TotalsTypes

\* The log of decisions, the layer and the totals follow a processed decision.
LEMMA ProcessKeepsLog == RealityInv /\ ProcessDecision => ActionLogInv'
  <1> SUFFICES ASSUME RealityInv, ProcessDecision PROVE ActionLogInv'
    OBVIOUS
  <1> USE DEF RealityInv
  <1>1. PICK d \in Decisions :
          LET received == ReceiveCivDecision(d)
              action == [received EXCEPT !.simulated = SimulationDue(received)]
              status == EngineStatus(action)
              counter == IF status = "COMPLETED" THEN "executed" ELSE "blocked"
          IN /\ council' = [(IF action.simulated THEN Simulated(council, action) ELSE council)
                              EXCEPT !.cycles = @ + 1]
             /\ layer' = IF action.simulated THEN ApplyToInfra(action) ELSE layer
             /\ log' = Append(log, [action |-> action, status |-> status])
             /\ totals' = [RecordImpact(totals, d) EXCEPT !.submitted = @ + 1, ![counter] = @ + 1]
    BY DEF ProcessDecision
  <1> DEFINE received == ReceiveCivDecision(d)
             action == [received EXCEPT !.simulated = SimulationDue(received)]
             status == EngineStatus(action)
             entry == [action |-> action, status |-> status]
             counter == IF status = "COMPLETED" THEN "executed" ELSE "blocked"
             impact == RecordImpact(totals, d)
  <1>2. totals.direct = 0 /\ UNCHANGED simulation /\ simulation \in BOOLEAN
    BY DEF ProcessDecision, ActionLogInv
  <1>3. /\ received \in ActionRecords /\ ~received.simulated
        /\ received.approved <=> (received.risk <= 2 \/ simulation)
        /\ received.type \in {"SCALE", "SCALE_DOWN", "DEPLOY"} => received.risk >= 3
        /\ received.type = "SCALE" => received.delta = 1
        /\ received.type = "SCALE_DOWN" => received.delta = -1
        /\ received.type \notin {"SCALE", "SCALE_DOWN"} => received.delta = 0
    BY <1>2, Received
  <1> HIDE DEF received
  <1>4. /\ action \in ActionRecords /\ action.type = received.type /\ action.risk = received.risk
        /\ action.delta = received.delta /\ (action.approved <=> received.approved)
        /\ (action.simulated <=> (received.risk >= 3))
    BY <1>3, WithSimulation
  <1>5. /\ council' = [(IF action.simulated THEN Simulated(council, action) ELSE council)
                         EXCEPT !.cycles = @ + 1]
        /\ layer' = IF action.simulated THEN ApplyToInfra(action) ELSE layer
        /\ log' = Append(log, entry)
        /\ totals' = [impact EXCEPT !.submitted = @ + 1, ![counter] = @ + 1]
    BY <1>1 DEF received
  <1> HIDE DEF action
  <1>6. /\ received.risk \in Nat /\ action.delta \in Int
        /\ (action.simulated <=> (action.risk >= 3)) /\ action.risk \in Nat
        /\ action.approved <=> (action.risk <= 2 \/ simulation)
        /\ action.type \in {"SCALE", "SCALE_DOWN", "DEPLOY"} => action.simulated
        /\ action.type = "SCALE" => action.delta = 1
        /\ action.type = "SCALE_DOWN" => action.delta = -1
    BY <1>3, <1>4 DEF ActionRecords
  <1>7. status \in {"ESCALATED", "COMPLETED"} /\ (simulation => status = "COMPLETED")
    <2>1. simulation => SafetyHolds(action) = {}
      BY <1>6 DEF SafetyHolds
    <2> QED
      BY <2>1 DEF EngineStatus
  <1> HIDE DEF status
  <1>8. entry \in LogEntries /\ entry.action = action
    BY <1>4, <1>7 DEF LogEntries
  <1>9. log \in Seq(LogEntries)
    BY DEF ActionLogInv
  <1> HIDE DEF entry
  <1>10. /\ log' \in Seq(LogEntries) /\ Len(log) \in Nat /\ DOMAIN log = 1 .. Len(log)
         /\ Len(log') = Len(log) + 1
         /\ \A i \in DOMAIN log : log'[i] = log[i] /\ i \in DOMAIN log'
         /\ log'[Len(log) + 1] = entry /\ Len(log) + 1 \in DOMAIN log'
         /\ \A i \in DOMAIN log' : i = Len(log) + 1 \/ i \in DOMAIN log
    BY <1>5, <1>8, <1>9, AppendedTo
  <1>11. ASSUME NEW t
         PROVE  /\ Cardinality(Kind(t)) \in Nat
                /\ Cardinality(Kind(t)') = Cardinality(Kind(t)) + (IF action.type = t THEN 1 ELSE 0)
    <2>1. Kind(t) \in SUBSET (1 .. Len(log))
      BY <1>10 DEF Kind
    <2>2. Kind(t)' = IF action.type = t THEN Kind(t) \cup {Len(log) + 1} ELSE Kind(t)
      BY <1>8, <1>10 DEF Kind
    <2>3. /\ Cardinality(Kind(t)) \in Nat
          /\ Cardinality(Kind(t) \cup {Len(log) + 1}) = Cardinality(Kind(t)) + 1
      BY <1>10, <2>1, CountNumbers
    <2> QED
      BY <2>2, <2>3
  <1>12. /\ layer'.nodes = layer.nodes + (IF action.type = "SCALE" THEN 1
                                          ELSE IF action.type = "SCALE_DOWN" THEN -1 ELSE 0)
         /\ layer'.services = layer.services + (IF action.type = "DEPLOY" THEN 1 ELSE 0)
         /\ layer'.gpu = layer.gpu
         /\ layer' = [nodes |-> layer'.nodes, services |-> layer'.services, gpu |-> layer'.gpu,
                      history |-> layer'.history]
    <2>1. LayerTypes /\ layer.nodes \in Int /\ layer.services \in Nat
      BY DEF ActionLogInv, LayerTypes
    <2>2. CASE action.type \in {"SCALE", "SCALE_DOWN"}
      <3>1. layer' = ScaleCluster(layer, action.delta)
        BY <1>5, <1>6, <2>2 DEF ApplyToInfra
      <3>2. /\ layer'.nodes = layer.nodes + action.delta /\ layer'.services = layer.services
            /\ layer'.gpu = layer.gpu
            /\ layer' = [nodes |-> layer'.nodes, services |-> layer'.services, gpu |-> layer'.gpu,
                         history |-> layer'.history]
        BY <2>1, <3>1 DEF ScaleCluster, LayerTypes
      <3> QED
        BY <1>6, <2>1, <2>2, <3>2
    <2>3. CASE action.type = "DEPLOY"
      <3>1. layer' = DeployService(layer)
        BY <1>5, <1>6, <2>3 DEF ApplyToInfra
      <3>2. /\ layer'.nodes = layer.nodes /\ layer'.services = layer.services + 1
            /\ layer'.gpu = layer.gpu
            /\ layer' = [nodes |-> layer'.nodes, services |-> layer'.services, gpu |-> layer'.gpu,
                         history |-> layer'.history]
        BY <2>1, <3>1 DEF DeployService, LayerTypes
      <3> QED
        BY <1>6, <2>1, <2>3, <3>2
    <2>4. CASE action.type \notin {"SCALE", "SCALE_DOWN", "DEPLOY"}
      <3>1. layer' = layer
        BY <1>5, <2>4 DEF ApplyToInfra
      <3> QED
        BY <2>1, <2>4, <3>1 DEF LayerTypes
    <2> QED
      BY <2>2, <2>3, <2>4
  <1>13. council'.nodes = council.nodes + (IF action.type = "SCALE" THEN 1 ELSE 0)
    <2>1. CouncilTypes
      BY DEF CouncilInv
    <2>2. CASE action.simulated
      <3> DEFINE pictured == Simulated(council, action)
      <3>1. pictured.nodes = council.nodes + (IF action.type = "SCALE" THEN 1 ELSE 0)
            /\ DOMAIN pictured = DOMAIN council
        BY <1>6, <2>1 DEF Simulated, CouncilTypes
      <3> HIDE DEF pictured
      <3>2. council' = [pictured EXCEPT !.cycles = @ + 1]
        BY <1>5, <2>2 DEF pictured
      <3>3. "nodes" \in DOMAIN council
        BY <2>1 DEF CouncilTypes
      <3> QED
        BY <3>1, <3>2, <3>3
    <2>3. CASE ~action.simulated
      BY <1>5, <1>6, <2>1, <2>3 DEF CouncilTypes
    <2> QED
      BY <2>2, <2>3
  <1>14. /\ totals'.submitted = totals.submitted + 1 /\ totals'.changes = totals.changes + 1
         /\ totals'.mappings = totals.mappings + 1 /\ totals'.direct = totals.direct
         /\ totals'.executed = totals.executed + (IF status = "COMPLETED" THEN 1 ELSE 0)
         /\ totals'.blocked = totals.blocked + (IF status = "COMPLETED" THEN 0 ELSE 1)
         /\ totals' = [submitted |-> totals'.submitted, executed |-> totals'.executed,
               blocked |-> totals'.blocked, changes |-> totals'.changes, mappings |-> totals'.mappings,
               fidelity |-> totals'.fidelity, direct |-> totals'.direct]
    <2>1. TotalsTypes
      BY DEF ActionLogInv
    <2>2. /\ impact.submitted = totals.submitted /\ impact.executed = totals.executed
          /\ impact.blocked = totals.blocked /\ impact.changes = totals.changes + 1
          /\ impact.mappings = totals.mappings + 1 /\ impact.direct = totals.direct
          /\ impact = [submitted |-> impact.submitted, executed |-> impact.executed,
               blocked |-> impact.blocked, changes |-> impact.changes, mappings |-> impact.mappings,
               fidelity |-> impact.fidelity, direct |-> impact.direct]
      BY <2>1, ImpactFields
    <2> HIDE DEF impact
    <2>a. /\ totals.submitted \in Nat /\ totals.executed \in Nat /\ totals.blocked \in Nat
          /\ totals.changes \in Nat /\ totals.mappings \in Nat
      BY <2>1 DEF TotalsTypes
    <2>3. CASE status = "COMPLETED"
      <3>1. totals' = [impact EXCEPT !.submitted = @ + 1, !.executed = @ + 1]
        BY <1>5, <2>3
      <3>2. /\ totals'.submitted = totals.submitted + 1 /\ totals'.changes = totals.changes + 1
            /\ totals'.mappings = totals.mappings + 1 /\ totals'.direct = totals.direct
            /\ totals'.executed = totals.executed + 1 /\ totals'.blocked = totals.blocked
        BY <2>2, <3>1
      <3>3. totals' = [submitted |-> totals'.submitted, executed |-> totals'.executed,
               blocked |-> totals'.blocked, changes |-> totals'.changes, mappings |-> totals'.mappings,
               fidelity |-> totals'.fidelity, direct |-> totals'.direct]
        BY <2>2, <3>1
      <3> QED
        BY <2>a, <2>3, <3>2, <3>3
    <2>4. CASE status # "COMPLETED"
      <3>1. totals' = [impact EXCEPT !.submitted = @ + 1, !.blocked = @ + 1]
        BY <1>5, <2>4
      <3>2. /\ totals'.submitted = totals.submitted + 1 /\ totals'.changes = totals.changes + 1
            /\ totals'.mappings = totals.mappings + 1 /\ totals'.direct = totals.direct
            /\ totals'.blocked = totals.blocked + 1 /\ totals'.executed = totals.executed
        BY <2>2, <3>1
      <3>3. totals' = [submitted |-> totals'.submitted, executed |-> totals'.executed,
               blocked |-> totals'.blocked, changes |-> totals'.changes, mappings |-> totals'.mappings,
               fidelity |-> totals'.fidelity, direct |-> totals'.direct]
        BY <2>2, <3>1
      <3> QED
        BY <2>a, <2>4, <3>2, <3>3
    <2> QED
      BY <2>3, <2>4
  <1>15. LayerTypes' /\ LayerFollows'
    BY <1>11, <1>12 DEF ActionLogInv, LayerTypes, LayerFollows
  <1>16. TotalsTypes'
    BY <1>14 DEF ActionLogInv, TotalsTypes
  <1>17. OneInterface'
    <2>1. council.nodes - layer.nodes = Cardinality(Kind("SCALE_DOWN"))
          /\ council.nodes \in Int /\ layer.nodes \in Int
      BY <1>2 DEF ActionLogInv, OneInterface, LayerTypes, CouncilInv, CouncilTypes
    <2> QED
      BY <1>2, <1>11, <1>12, <1>13, <1>14, <2>1 DEF OneInterface
  <1>18. DecisionsAddUp'
    BY <1>2, <1>7, <1>10, <1>14 DEF ActionLogInv, DecisionsAddUp, TotalsTypes
  <1> QED
    BY <1>2, <1>10, <1>15, <1>16, <1>17, <1>18 DEF ActionLogInv


-----------------------------------------------------------------------------
\* The council's picture and books with a simulation noted, and a cycle counted.
LEMMA PictureFields ==
  ASSUME CouncilTypes, NEW a, a.delta \in Int, NEW due \in BOOLEAN,
         NEW c, c = [(IF due THEN Simulated(council, a) ELSE council) EXCEPT !.cycles = @ + 1]
  PROVE  /\ c = [nodes |-> c.nodes, cycles |-> c.cycles, pending |-> c.pending,
                executed |-> c.executed, log |-> c.log]
         /\ c.nodes \in Int /\ c.cycles = council.cycles + 1 /\ c.pending = council.pending
         /\ c.executed = council.executed /\ c.log = council.log
  <1>1. CASE due
    <2> DEFINE p == Simulated(council, a)
               moved == IF a.type = "SCALE" THEN a.delta ELSE 0
    <2>1. moved \in Int
      OBVIOUS
    <2>2. p = [council EXCEPT !.nodes = @ + moved]
      BY DEF Simulated
    <2> HIDE DEF p, moved
    <2>3. /\ p = [nodes |-> p.nodes, cycles |-> p.cycles, pending |-> p.pending,
                 executed |-> p.executed, log |-> p.log]
          /\ p.nodes \in Int /\ p.cycles = council.cycles /\ p.pending = council.pending
          /\ p.executed = council.executed /\ p.log = council.log
      BY <2>1, <2>2 DEF CouncilTypes
    <2>4. c = [p EXCEPT !.cycles = @ + 1]
      BY <1>1 DEF p
    <2> QED
      BY <2>3, <2>4
  <1>2. CASE ~due
    BY <1>2 DEF CouncilTypes
  <1> QED
    BY <1>1, <1>2

LEMMA ProcessKeepsCouncil == RealityInv /\ ProcessDecision => CouncilInv'
  <1> SUFFICES ASSUME RealityInv, ProcessDecision PROVE CouncilInv'
    OBVIOUS
  <1> USE DEF RealityInv
  <1>1. PICK d \in Decisions :
          LET received == ReceiveCivDecision(d)
              action == [received EXCEPT !.simulated = SimulationDue(received)]
              status == EngineStatus(action)
              counter == IF status = "COMPLETED" THEN "executed" ELSE "blocked"
          IN /\ council' = [(IF action.simulated THEN Simulated(council, action) ELSE council)
                              EXCEPT !.cycles = @ + 1]
             /\ layer' = IF action.simulated THEN ApplyToInfra(action) ELSE layer
             /\ log' = Append(log, [action |-> action, status |-> status])
             /\ totals' = [RecordImpact(totals, d) EXCEPT !.submitted = @ + 1, ![counter] = @ + 1]
    BY DEF ProcessDecision
  <1> DEFINE received == ReceiveCivDecision(d)
             action == [received EXCEPT !.simulated = SimulationDue(received)]
             status == EngineStatus(action)
             entry == [action |-> action, status |-> status]
  <1>2. UNCHANGED simulation /\ simulation \in BOOLEAN
    BY DEF ProcessDecision, ActionLogInv
  <1>3. received \in ActionRecords /\ ~received.simulated
    BY <1>2, Received
  <1> HIDE DEF received
  <1>4. action \in ActionRecords
    BY <1>3, WithSimulation
  <1>5. /\ council' = [(IF action.simulated THEN Simulated(council, action) ELSE council)
                         EXCEPT !.cycles = @ + 1]
        /\ log' = Append(log, entry)
    BY <1>1 DEF received
  <1> HIDE DEF action
  <1>6. action.delta \in Int /\ action.simulated \in BOOLEAN
    BY <1>4 DEF ActionRecords
  <1>7. CouncilTypes
    BY DEF CouncilInv
  <1>8. /\ council' = [nodes |-> council'.nodes, cycles |-> council'.cycles, pending |-> council'.pending,
                       executed |-> council'.executed, log |-> council'.log]
        /\ council'.nodes \in Int /\ council'.cycles = council.cycles + 1
        /\ council'.pending = council.pending
        /\ council'.executed = council.executed /\ council'.log = council.log
    <2> DEFINE c == [(IF action.simulated THEN Simulated(council, action) ELSE council)
                       EXCEPT !.cycles = @ + 1]
    <2>1. /\ c = [nodes |-> c.nodes, cycles |-> c.cycles, pending |-> c.pending,
                  executed |-> c.executed, log |-> c.log]
          /\ c.nodes \in Int /\ c.cycles = council.cycles + 1 /\ c.pending = council.pending
          /\ c.executed = council.executed /\ c.log = council.log
      BY <1>6, <1>7, PictureFields
    <2>2. council' = c
      BY <1>5
    <2> HIDE DEF c
    <2> QED
      BY <2>1, <2>2
  <1>9. Len(log') = Len(log) + 1 /\ Len(log) \in Nat
    BY <1>5 DEF ActionLogInv
  <1>10. council.cycles = council.executed + Len(council.pending) + Len(log)
         /\ Len(council.pending) \in Nat /\ council.executed \in Nat
    BY DEF CouncilInv, CouncilTypes
  <1>11. CouncilTypes'
    BY <1>7, <1>8 DEF CouncilTypes
  <1>12. council'.cycles = council'.executed + Len(council'.pending) + Len(log')
    BY <1>8, <1>9, <1>10
  <1>13. UndoBeside(council'.log)
    BY <1>8 DEF CouncilInv
  <1> QED
    BY <1>2, <1>8, <1>11, <1>12, <1>13 DEF CouncilInv

\* A pair of opposite changes, or one that changes no size, keeps undos beside.
LEMMA PairAppended ==
  ASSUME NEW s \in Seq(ActionRecords), UndoBeside(s), NEW a \in ActionRecords, NEW u \in ActionRecords,
         u.delta = -a.delta
  PROVE  /\ s \o <<u, a>> \in Seq(ActionRecords) /\ UndoBeside(s \o <<u, a>>)
         /\ \A n \in DOMAIN (s \o <<u, a>>) :
              (s \o <<u, a>>)[n] \in {u, a} \/ (n \in DOMAIN s /\ (s \o <<u, a>>)[n] = s[n])
  <1> DEFINE t == s \o <<u, a>>
  <1>1. /\ t \in Seq(ActionRecords) /\ Len(s) \in Nat /\ DOMAIN s = 1 .. Len(s)
        /\ DOMAIN t = 1 .. Len(s) + 2
        /\ \A n \in 1 .. Len(s) : t[n] = s[n]
        /\ t[Len(s) + 1] = u /\ t[Len(s) + 2] = a
    OBVIOUS
  <1> HIDE DEF t
  <1>2. \A n \in DOMAIN t : n \in DOMAIN s \/ n = Len(s) + 1 \/ n = Len(s) + 2
    BY <1>1
  <1>3. a.delta \in Int /\ u.delta \in Int /\ a.delta = -u.delta
    BY DEF ActionRecords
  <1>4. ASSUME NEW n \in DOMAIN t, t[n].delta # 0
        PROVE  \E m \in {n - 1, n + 1} \cap DOMAIN t : t[m].delta = -t[n].delta
    <2>1. CASE n \in DOMAIN s
      <3>1. PICK m \in {n - 1, n + 1} \cap DOMAIN s : s[m].delta = -s[n].delta
        BY <1>1, <1>4, <2>1 DEF UndoBeside
      <3> QED
        BY <1>1, <2>1, <3>1
    <2>2. CASE n = Len(s) + 1
      <3>1. Len(s) + 2 \in {n - 1, n + 1} \cap DOMAIN t
        BY <1>1, <2>2
      <3> QED
        BY <1>1, <1>3, <2>2, <3>1
    <2>3. CASE n = Len(s) + 2
      <3>1. Len(s) + 1 \in {n - 1, n + 1} \cap DOMAIN t
        BY <1>1, <2>3
      <3> QED
        BY <1>1, <1>3, <2>3, <3>1
    <2> QED
      BY <1>2, <2>1, <2>2, <2>3
  <1>5. UndoBeside(t)
    BY <1>4 DEF UndoBeside
  <1>6. \A n \in DOMAIN t : t[n] \in {u, a} \/ (n \in DOMAIN s /\ t[n] = s[n])
    BY <1>1, <1>2
  <1> QED
    BY <1>1, <1>5, <1>6 DEF t

LEMMA StillAppended ==
  ASSUME NEW s \in Seq(ActionRecords), UndoBeside(s), NEW a \in ActionRecords, a.delta = 0
  PROVE  /\ s \o <<a>> \in Seq(ActionRecords) /\ UndoBeside(s \o <<a>>)
         /\ \A n \in DOMAIN (s \o <<a>>) :
              (s \o <<a>>)[n] = a \/ (n \in DOMAIN s /\ (s \o <<a>>)[n] = s[n])
  <1> DEFINE t == s \o <<a>>
  <1>1. /\ t \in Seq(ActionRecords) /\ Len(s) \in Nat /\ DOMAIN s = 1 .. Len(s)
        /\ DOMAIN t = 1 .. Len(s) + 1
        /\ \A n \in 1 .. Len(s) : t[n] = s[n]
        /\ t[Len(s) + 1] = a
    OBVIOUS
  <1> HIDE DEF t
  <1>2. \A n \in DOMAIN t : n \in DOMAIN s \/ n = Len(s) + 1
    BY <1>1
  <1>3. ASSUME NEW n \in DOMAIN t, t[n].delta # 0
        PROVE  \E m \in {n - 1, n + 1} \cap DOMAIN t : t[m].delta = -t[n].delta
    <2>1. n \in DOMAIN s
      BY <1>1, <1>2, <1>3
    <2>2. PICK m \in {n - 1, n + 1} \cap DOMAIN s : s[m].delta = -s[n].delta
      BY <1>1, <1>3, <2>1 DEF UndoBeside
    <2> QED
      BY <1>1, <2>1, <2>2
  <1>4. UndoBeside(t)
    BY <1>3 DEF UndoBeside
  <1>5. \A n \in DOMAIN t : t[n] = a \/ (n \in DOMAIN s /\ t[n] = s[n])
    BY <1>1, <1>2
  <1> QED
    BY <1>1, <1>4, <1>5 DEF t

\* The rollback entry asks for the opposite change, and is approved.
LEMMA UndoIsOpposite ==
  ASSUME NEW a \in ActionRecords, NEW u, u = Undo(a)
  PROVE  u \in ActionRecords /\ u.delta = -a.delta /\ u.approved
  <1> DEFINE type == IF a.type = "SCALE" THEN "SCALE_DOWN" ELSE "SCALE"
  <1>1. type \in ActionTypes
    BY DEF ActionTypes
  <1>2. a.delta \in {-1, 0, 1} /\ -a.delta \in {-1, 0, 1}
    BY DEF ActionRecords
  <1>3. u = [a EXCEPT !.type = type, !.delta = -a.delta, !.risk = 2, !.approved = TRUE, !.simulated = FALSE]
    BY DEF Undo
  <1> HIDE DEF type
  <1>4. /\ u = [type |-> type, risk |-> 2, delta |-> -a.delta, simulated |-> FALSE, approved |-> TRUE]
    BY <1>3 DEF ActionRecords
  <1> QED
    BY <1>1, <1>2, <1>4 DEF ActionRecords

LEMMA ActionExecuted == RealityInv /\ ExecuteAction => RealityInv'
  <1> SUFFICES ASSUME RealityInv, ExecuteAction PROVE RealityInv'
    OBVIOUS
  <1> USE DEF RealityInv
  <1>1. PICK d \in Decisions :
          LET action == ReceiveCivDecision(d)
              due == SimulationDue(action)
              c == [(IF due THEN Simulated(council, action) ELSE council) EXCEPT !.cycles = @ + 1]
              done == [action EXCEPT !.simulated = due]
          IN council' = IF action.approved THEN LoggedWithUndo(c, done) ELSE Parked(c, done)
    BY DEF ExecuteAction
  <1> DEFINE action == ReceiveCivDecision(d)
             due == SimulationDue(action)
             c == [(IF due THEN Simulated(council, action) ELSE council) EXCEPT !.cycles = @ + 1]
             done == [action EXCEPT !.simulated = due]
  <1>2. /\ log = <<>> /\ totals' = [totals EXCEPT !.direct = @ + 1] /\ UNCHANGED <<simulation, layer, log>>
        /\ simulation \in BOOLEAN /\ CouncilTypes
    BY DEF ExecuteAction, ActionLogInv, CouncilInv
  <1>3. /\ action \in ActionRecords /\ ~action.simulated
        /\ action.approved <=> (action.risk <= 2 \/ simulation)
        /\ action.type \notin {"SCALE", "SCALE_DOWN"} => action.delta = 0
    BY <1>2, Received
  <1> HIDE DEF action
  <1>4. /\ done \in ActionRecords /\ done.type = action.type /\ done.delta = action.delta
        /\ (done.approved <=> action.approved) /\ (done.simulated <=> (action.risk >= 3))
        /\ (due <=> (action.risk >= 3))
    BY <1>3, WithSimulation
  <1>5. action.delta \in Int /\ due \in BOOLEAN /\ action.risk \in Nat
    BY <1>3 DEF ActionRecords, SimulationDue
  <1>6. /\ c = [nodes |-> c.nodes, cycles |-> c.cycles, pending |-> c.pending,
                executed |-> c.executed, log |-> c.log]
        /\ c.nodes \in Int /\ c.cycles = council.cycles + 1 /\ c.pending = council.pending
        /\ c.executed = council.executed /\ c.log = council.log
    BY <1>2, <1>5, PictureFields
  <1>7. council' = IF action.approved THEN LoggedWithUndo(c, done) ELSE Parked(c, done)
    BY <1>1 DEF action
  <1> HIDE DEF c, done, due
  <1>8. /\ council.pending \in Seq(ActionRecords) /\ council.log \in Seq(ActionRecords)
        /\ council.cycles \in Nat /\ council.executed \in Nat /\ Len(council.pending) \in Nat
        /\ council.cycles = council.executed + Len(council.pending) + Len(log) /\ Len(log) = 0
        /\ UndoBeside(council.log)
        /\ \A n \in DOMAIN council.log : council.log[n].approved
    BY <1>2 DEF CouncilInv, CouncilTypes
  <1>9. CouncilInv'
    <2>1. CASE action.approved
      <3> DEFINE entries == IF done.type \in {"SCALE", "SCALE_DOWN"} THEN <<Undo(done), done>> ELSE <<done>>
      <3>1. council' = [c EXCEPT !.executed = @ + 1, !.log = @ \o entries]
        BY <1>7, <2>1 DEF LoggedWithUndo
      <3> HIDE DEF entries
      <3>2. /\ council' = [nodes |-> council'.nodes, cycles |-> council'.cycles,
                           pending |-> council'.pending, executed |-> council'.executed,
                           log |-> council'.log]
            /\ council'.nodes \in Int /\ council'.cycles = council.cycles + 1
            /\ council'.pending = council.pending /\ council'.executed = council.executed + 1
            /\ council'.log = council.log \o entries
        BY <1>6, <3>1
      <3>3. /\ council.log \o entries \in Seq(ActionRecords) /\ UndoBeside(council.log \o entries)
            /\ \A n \in DOMAIN (council.log \o entries) : (council.log \o entries)[n].approved
        <4>1. CASE done.type \in {"SCALE", "SCALE_DOWN"}
          <5> DEFINE u == Undo(done)
          <5>1. u \in ActionRecords /\ u.delta = -done.delta /\ u.approved
            BY <1>4, UndoIsOpposite
          <5> HIDE DEF u
          <5>2. entries = <<u, done>>
            BY <4>1 DEF entries, u
          <5> QED
            BY <1>4, <1>8, <2>1, <5>1, <5>2, PairAppended
        <4>2. CASE done.type \notin {"SCALE", "SCALE_DOWN"}
          <5>1. entries = <<done>> /\ done.delta = 0
            BY <1>3, <1>4, <4>2 DEF entries
          <5> QED
            BY <1>4, <1>8, <2>1, <5>1, StillAppended
        <4> QED
          BY <4>1, <4>2
      <3>4. CouncilTypes'
        BY <1>8, <3>2, <3>3 DEF CouncilTypes
      <3>5. council'.cycles = council'.executed + Len(council'.pending) + Len(log')
        BY <1>2, <1>8, <3>2
      <3>6. UndoBeside(council'.log) /\ \A n \in DOMAIN council'.log : council'.log[n].approved
        BY <3>2, <3>3
      <3> QED
        BY <1>2, <3>2, <3>4, <3>5, <3>6 DEF CouncilInv
    <2>2. CASE ~action.approved
      <3>1. council' = [c EXCEPT !.pending = Append(@, done)]
        BY <1>7, <2>2 DEF Parked
      <3>2. /\ council' = [nodes |-> council'.nodes, cycles |-> council'.cycles,
                           pending |-> council'.pending, executed |-> council'.executed,
                           log |-> council'.log]
            /\ council'.nodes \in Int /\ council'.cycles = council.cycles + 1
            /\ council'.pending = Append(council.pending, done)
            /\ council'.executed = council.executed /\ council'.log = council.log
        BY <1>6, <3>1
      <3>3. ~done.approved /\ ~simulation /\ done.simulated
        BY <1>3, <1>4, <1>5, <2>2
      <3>4. /\ council'.pending \in Seq(ActionRecords) /\ Len(council'.pending) = Len(council.pending) + 1
            /\ \A n \in DOMAIN council'.pending :
                 \/ council'.pending[n] = done
                 \/ n \in DOMAIN council.pending /\ council'.pending[n] = council.pending[n]
        BY <1>4, <1>8, <3>2, AppendedTo
      <3>5. \A n \in DOMAIN council'.pending :
              ~council'.pending[n].approved /\ ~simulation /\ council'.pending[n].simulated
        BY <3>3, <3>4 DEF CouncilInv
      <3>6. CouncilTypes'
        BY <1>8, <3>2, <3>4 DEF CouncilTypes
      <3>7. council'.cycles = council'.executed + Len(council'.pending) + Len(log')
        BY <1>2, <1>8, <3>2, <3>4
      <3>8. UndoBeside(council'.log) /\ \A n \in DOMAIN council'.log : council'.log[n].approved
        BY <1>8, <3>2
      <3> QED
        BY <1>2, <3>2, <3>5, <3>6, <3>7, <3>8 DEF CouncilInv
    <2> QED
      BY <2>1, <2>2
  <1>10. /\ totals'.direct = totals.direct + 1 /\ totals'.submitted = totals.submitted
         /\ totals'.executed = totals.executed /\ totals'.blocked = totals.blocked
         /\ totals'.changes = totals.changes /\ totals'.mappings = totals.mappings
         /\ totals' = [submitted |-> totals'.submitted, executed |-> totals'.executed,
               blocked |-> totals'.blocked, changes |-> totals'.changes, mappings |-> totals'.mappings,
               fidelity |-> totals'.fidelity, direct |-> totals'.direct]
    <2>1. TotalsTypes
      BY DEF ActionLogInv
    <2> QED
      BY <1>2, <2>1 DEF TotalsTypes
  <1>11. TotalsTypes' /\ totals'.direct # 0
    BY <1>10 DEF ActionLogInv, TotalsTypes
  <1>12. ActionLogInv'
    <2>1. DecisionsAddUp'
      BY <1>2, <1>10 DEF ActionLogInv, DecisionsAddUp
    <2>2. LayerTypes' /\ LayerFollows'
      BY <1>2 DEF ActionLogInv, LayerTypes, LayerFollows, Kind
    <2>3. OneInterface'
      BY <1>2, <1>11 DEF OneInterface
    <2>4. simulation' \in BOOLEAN /\ log' \in Seq(LogEntries)
      BY <1>2 DEF ActionLogInv
    <2> QED
      BY <1>11, <2>1, <2>2, <2>3, <2>4 DEF ActionLogInv
  <1> QED
    BY <1>9, <1>12

-----------------------------------------------------------------------------
LEMMA RealityAtFirst == RealityInit => RealityInv
  <1> SUFFICES ASSUME RealityInit PROVE RealityInv
    OBVIOUS
  <1>1. CouncilInv
    BY DEF RealityInit, CouncilInv, CouncilTypes, UndoBeside
  <1>2. \A t : Cardinality(Kind(t)) = 0
    <2>1. \A t : Kind(t) = {}
      BY DEF RealityInit, Kind
    <2> QED
      BY <2>1, FS_EmptySet
  <1>3. LayerTypes /\ TotalsTypes
    BY DEF RealityInit, LayerTypes, TotalsTypes
  <1>4. OneInterface /\ LayerFollows
    BY <1>2 DEF RealityInit, OneInterface, LayerFollows
  <1>5. DecisionsAddUp
    BY DEF RealityInit, DecisionsAddUp
  <1> QED
    BY <1>1, <1>3, <1>4, <1>5 DEF RealityInit, RealityInv, ActionLogInv

LEMMA RealityStep == RealityInv /\ [RealityNext]_revars => RealityInv'
  <1> SUFFICES ASSUME RealityInv, [RealityNext]_revars PROVE RealityInv'
    OBVIOUS
  <1>1. CASE ProcessDecision
    BY <1>1, ProcessKeepsLog, ProcessKeepsCouncil DEF RealityInv
  <1>2. CASE ExecuteAction
    BY <1>2, ActionExecuted
  <1>3. CASE UNCHANGED revars
    <2>1. CouncilInv'
      BY <1>3 DEF revars, RealityInv, CouncilInv, CouncilTypes
    <2>2. ActionLogInv'
      BY <1>3 DEF revars, RealityInv, ActionLogInv, LayerTypes, TotalsTypes, OneInterface, LayerFollows, Kind,
                  DecisionsAddUp
    <2> QED
      BY <2>1, <2>2 DEF RealityInv
  <1> QED
    BY <1>1, <1>2, <1>3 DEF RealityNext

\* Decisions, for any set of them and any number: each ends executed or blocked and
\* leaves its two entries; the council's picture of the cluster is one node ahead of
\* the layer's for every scale-down; what waits for a person never runs, and what
\* changed the size has its undo beside it.
THEOREM RealityAlwaysHolds == RealitySpec => []RealityHolds
  <1>1. RealityInit => RealityInv
    BY RealityAtFirst
  <1>2. RealityInv /\ [RealityNext]_revars => RealityInv'
    BY RealityStep
  <1>3. RealityInv => RealityHolds
    <2> SUFFICES ASSUME RealityInv PROVE RealityHolds
      OBVIOUS
    <2>1. \A t \in ActionTypes : LoggedAs({t}) = Kind(t)
      BY DEF LoggedAs, Kind
    <2>2. /\ LoggedAs({"SCALE"}) = Kind("SCALE") /\ LoggedAs({"SCALE_DOWN"}) = Kind("SCALE_DOWN")
          /\ LoggedAs({"DEPLOY"}) = Kind("DEPLOY")
      BY <2>1 DEF ActionTypes
    <2>3. PicturesDriftByScaleDown
      BY <2>2 DEF RealityInv, ActionLogInv, OneInterface, LayerFollows, PicturesDriftByScaleDown
    <2>4. ParkedNeverRuns
      BY DEF RealityInv, CouncilInv, UndoBeside, ParkedNeverRuns
    <2>5. DecisionsAddUp
      BY DEF RealityInv, ActionLogInv
    <2> QED
      BY <2>3, <2>4, <2>5 DEF RealityHolds
  <1> QED
    BY <1>1, <1>2, <1>3, PTL DEF RealitySpec

-----------------------------------------------------------------------------
RiskNames == {"critical", "high", "medium", "low"}
TaskLayers == {RequiredLayers(t) : t \in MetaTasks}
TaskLog == [layers : TaskLayers, risk : RiskNames, graph : {PlanGraph(ls) : ls \in TaskLayers},
            topology : {Decide(t) : t \in MetaTasks},
            outcome : {"blocked", "corporate", "devops", "error", "cognitive"},
            checks : Nat, proof : Nat]
ProofRecord == [id : Nat, passed : BOOLEAN]

\* The tasks that were blocked, and those that need a layer.
BlockedOnes == {n \in DOMAIN meta.log : meta.log[n].outcome = "blocked"}
Needing(l) == {n \in DOMAIN meta.log : l \in meta.log[n].layers}

MetaFields ==
  /\ meta = [tasks |-> meta.tasks, approved |-> meta.approved, blocked |-> meta.blocked,
             activated |-> meta.activated, log |-> meta.log, lower |-> meta.lower]
  /\ meta.log \in Seq(TaskLog)
PolicyFields ==
  /\ policy = [checks |-> policy.checks, blocks |-> policy.blocks, allows |-> policy.allows,
               bypasses |-> policy.bypasses, rules |-> policy.rules]
  /\ policy.rules \in Nat

CountersInv ==
  /\ MetaFields /\ PolicyFields
  /\ meta.tasks = Len(meta.log) /\ meta.tasks = policy.checks
  /\ meta.blocked = Cardinality(BlockedOnes) /\ meta.approved = meta.tasks - meta.blocked
  /\ policy.blocks = meta.blocked /\ policy.allows = meta.approved
  /\ \A l \in Layers : /\ meta.activated[l] = Cardinality(Needing(l))
                       /\ mapped[l] = 2 * meta.activated[l]

\* The ids of the proofs in a set, or in a list.
PendingIds(e) == {p.id : p \in e.pending}
FinalIds(e) == {e.proofs[n].id : n \in DOMAIN e.proofs}

EvidenceInv ==
  /\ evidence = [pending |-> evidence.pending, proofs |-> evidence.proofs, made |-> evidence.made]
  /\ evidence.pending \subseteq ProofRecord /\ evidence.proofs \in Seq(ProofRecord)
  /\ evidence.made \in Nat /\ IsFiniteSet(evidence.pending)
  /\ Cardinality(evidence.pending) + Len(evidence.proofs) = evidence.made
  /\ PendingIds(evidence) \cup FinalIds(evidence) = 1 .. evidence.made
  /\ PendingIds(evidence) \cap FinalIds(evidence) = {}
  /\ \A p, q \in evidence.pending : p.id = q.id => p = q

\* A proof in the log is that of the task alone.
TaskLogInv ==
  /\ CriticalStaysInside
  /\ \A n \in DOMAIN meta.log : meta.log[n].proof \in 0 .. evidence.made

\* Where a loop is, and what it did before.
GovernedInv ==
  /\ loop = [at |-> loop.at, state |-> loop.state, history |-> loop.history,
             simulation |-> loop.simulation, verdict |-> loop.verdict, executed |-> loop.executed,
             audited |-> loop.audited]
  /\ loop.state \in {"running", "BLOCKED", "COMPLETE", "raised"}
  /\ loop.state = "running" =>
       /\ loop.at \in 0 .. 9 /\ loop.history = SubSeq(Phases, 1, loop.at)
       /\ loop.at >= 3 => loop.simulation \in SimAnswers \ {"blocked"}
       /\ loop.at >= 6 => loop.verdict \in Rulings \ {"BLOCKED"}
       /\ loop.at >= 7 <=> loop.executed
       /\ loop.at >= 8 <=> loop.audited
  /\ LoopIsGoverned

MetaInv == CountersInv /\ EvidenceInv /\ TaskLogInv /\ GovernedInv

-----------------------------------------------------------------------------
-----------------------------------------------------------------------------
\* A new proof waits under the next number.
LEMMA ProofGenerated ==
  ASSUME EvidenceInv, NEW passed \in BOOLEAN, evidence' = GenerateProof(evidence, passed)
  PROVE  /\ EvidenceInv' /\ evidence'.made = evidence.made + 1
         /\ evidence.pending \subseteq evidence'.pending
         /\ \E p \in evidence'.pending : p.id = evidence.made + 1
  <1> DEFINE new == [id |-> evidence.made + 1, passed |-> passed]
             P == evidence.pending
             N == evidence.made
  <1>1. /\ evidence'.pending = P \cup {new} /\ evidence'.made = N + 1
        /\ evidence'.proofs = evidence.proofs
        /\ evidence' = [pending |-> evidence'.pending, proofs |-> evidence'.proofs,
                        made |-> evidence'.made]
    BY DEF EvidenceInv, GenerateProof
  <1>2. new \in ProofRecord /\ new.id = N + 1 /\ N \in Nat /\ P \subseteq ProofRecord
    BY DEF EvidenceInv, ProofRecord
  <1> HIDE DEF new
  <1>3. \A p \in P : p.id \in 1 .. N
    BY DEF EvidenceInv, PendingIds
  <1>4. new \notin P
    BY <1>2, <1>3
  <1>5. /\ IsFiniteSet(P \cup {new}) /\ Cardinality(P \cup {new}) = Cardinality(P) + 1
        /\ Cardinality(P) \in Nat
    BY <1>4, FS_AddElement, FS_CardinalityType DEF EvidenceInv
  <1>6. PendingIds(evidence') = PendingIds(evidence) \cup {N + 1}
    BY <1>1, <1>2 DEF PendingIds
  <1>7. FinalIds(evidence') = FinalIds(evidence)
    BY <1>1 DEF FinalIds
  <1>8. PendingIds(evidence') \cup FinalIds(evidence') = 1 .. N + 1
    <2>1. PendingIds(evidence) \cup FinalIds(evidence) = 1 .. N
      BY DEF EvidenceInv
    <2>2. (1 .. N) \cup {N + 1} = 1 .. N + 1
      BY <1>2
    <2> QED
      BY <1>6, <1>7, <2>1, <2>2
  <1>9. PendingIds(evidence') \cap FinalIds(evidence') = {}
    <2>1. PendingIds(evidence) \cup FinalIds(evidence) = 1 .. N
          /\ PendingIds(evidence) \cap FinalIds(evidence) = {}
      BY DEF EvidenceInv
    <2>2. N + 1 \notin 1 .. N
      BY <1>2
    <2> QED
      BY <1>6, <1>7, <2>1, <2>2
  <1>10. \A p, q \in evidence'.pending : p.id = q.id => p = q
    BY <1>1, <1>2, <1>3 DEF EvidenceInv
  <1>11. Len(evidence.proofs) \in Nat /\ Cardinality(P) + Len(evidence.proofs) = N
         /\ evidence.proofs \in Seq(ProofRecord)
    BY DEF EvidenceInv
  <1>12. Cardinality(evidence'.pending) + Len(evidence'.proofs) = N + 1
    BY <1>1, <1>2, <1>5, <1>11
  <1>13. EvidenceInv'
    BY <1>1, <1>2, <1>5, <1>8, <1>9, <1>10, <1>11, <1>12 DEF EvidenceInv
  <1> QED
    BY <1>1, <1>2, <1>13

\* A proof is finalized once: it leaves the ones that wait.
LEMMA ProofFinalized ==
  ASSUME EvidenceInv, NEW id, evidence' = FinalizeProof(evidence, id)
  PROVE  EvidenceInv'
  <1> DEFINE here == {p \in evidence.pending : p.id = id}
             one == CHOOSE p \in here : TRUE
             P == evidence.pending
  <1>1. CASE here = {}
    <2>1. evidence' = evidence
      BY <1>1 DEF FinalizeProof
    <2> QED
      BY <2>1 DEF EvidenceInv, PendingIds, FinalIds
  <1>2. CASE here # {}
    <2>1. one \in here
      BY <1>2
    <2>2. one \in P /\ one.id = id /\ here = {one}
      BY <2>1 DEF EvidenceInv
    <2>3. evidence' = [evidence EXCEPT !.proofs = Append(@, one), !.pending = @ \ here]
      BY <1>2 DEF FinalizeProof
    <2> HIDE DEF here, one
    <2>4. /\ evidence'.pending = P \ {one} /\ evidence'.proofs = Append(evidence.proofs, one)
          /\ evidence'.made = evidence.made
          /\ evidence' = [pending |-> evidence'.pending, proofs |-> evidence'.proofs,
                          made |-> evidence'.made]
      BY <2>2, <2>3 DEF EvidenceInv
    <2>5. /\ P \subseteq ProofRecord /\ evidence.proofs \in Seq(ProofRecord) /\ IsFiniteSet(P)
          /\ one \in ProofRecord /\ evidence.made \in Nat
          /\ Cardinality(P) + Len(evidence.proofs) = evidence.made
      BY <2>2 DEF EvidenceInv
    <2>6. /\ evidence'.proofs \in Seq(ProofRecord) /\ Len(evidence.proofs) \in Nat
          /\ Len(evidence'.proofs) = Len(evidence.proofs) + 1
          /\ \A i \in DOMAIN evidence.proofs :
               evidence'.proofs[i] = evidence.proofs[i] /\ i \in DOMAIN evidence'.proofs
          /\ evidence'.proofs[Len(evidence.proofs) + 1] = one
          /\ Len(evidence.proofs) + 1 \in DOMAIN evidence'.proofs
          /\ \A i \in DOMAIN evidence'.proofs : i = Len(evidence.proofs) + 1 \/ i \in DOMAIN evidence.proofs
      BY <2>4, <2>5, AppendedTo
    <2>7. /\ IsFiniteSet(P \ {one}) /\ Cardinality(P \ {one}) = Cardinality(P) - 1
          /\ Cardinality(P) \in Nat
      BY <2>2, <2>5, FS_RemoveElement, FS_CardinalityType
    <2>8. FinalIds(evidence') = FinalIds(evidence) \cup {id}
      BY <2>2, <2>6 DEF FinalIds
    <2>9. PendingIds(evidence') = PendingIds(evidence) \ {id}
      BY <2>2, <2>4 DEF PendingIds, EvidenceInv
    <2>10. id \in PendingIds(evidence)
      BY <2>2 DEF PendingIds
    <2>11. /\ PendingIds(evidence) \cup FinalIds(evidence) = 1 .. evidence.made
           /\ PendingIds(evidence) \cap FinalIds(evidence) = {}
           /\ \A p, q \in P : p.id = q.id => p = q
      BY DEF EvidenceInv
    <2>12. /\ PendingIds(evidence') \cup FinalIds(evidence') = 1 .. evidence'.made
           /\ PendingIds(evidence') \cap FinalIds(evidence') = {}
      BY <2>4, <2>8, <2>9, <2>10, <2>11
    <2>13. Cardinality(evidence'.pending) + Len(evidence'.proofs) = evidence'.made
      <3> DEFINE a == Cardinality(P)
                 b == Len(evidence.proofs)
                 c == evidence.made
      <3>1. a \in Nat /\ b \in Nat /\ c \in Nat /\ a + b = c
        BY <2>5, <2>6, <2>7
      <3>2. Cardinality(evidence'.pending) = a - 1 /\ Len(evidence'.proofs) = b + 1 /\ evidence'.made = c
        BY <2>4, <2>6, <2>7
      <3> HIDE DEF a, b, c
      <3> QED
        BY <3>1, <3>2
    <2>14. evidence'.pending \subseteq ProofRecord
           /\ \A p, q \in evidence'.pending : p.id = q.id => p = q
      BY <2>4, <2>5, <2>11
    <2> QED
      BY <2>4, <2>5, <2>6, <2>7, <2>12, <2>13, <2>14 DEF EvidenceInv
  <1> QED
    BY <1>1, <1>2

-----------------------------------------------------------------------------
LEMMA ProcessKeeps == MetaInv /\ Process => MetaInv'
  <1> SUFFICES ASSUME MetaInv, Process PROVE MetaInv'
    OBVIOUS
  <1> USE DEF MetaInv
  <1>1. PICK task \in MetaTasks :
       LET layers == RequiredLayers(task)
           risk == RiskLevel(task)
           blocked == P0Blocks(layers, TRUE, HasSimulation(risk), 0 \in layers)
       IN /\ mapped' = Counted(Counted(mapped, layers), layers)
          /\ evidence' = GenerateProof(evidence, TRUE)
          /\ policy' = UpdateStats(policy, blocked)
          /\ \E end \in IF blocked THEN {"blocked"} ELSE Outcomes(Primary(layers)) :
               meta' = [meta EXCEPT
                 !.tasks = @ + 1, !.activated = Counted(@, layers),
                 !.blocked = @ + IF blocked THEN 1 ELSE 0,
                 !.approved = @ + IF blocked THEN 0 ELSE 1,
                 !.log = Append(@, [layers |-> layers, risk |-> risk, graph |-> PlanGraph(layers),
                   topology |-> Decide(task), outcome |-> end,
                   checks |-> P0RuleCount + policy.rules,
                   proof |-> IF blocked THEN 0 ELSE evidence.made + 1])]
    BY DEF Process
  <1> DEFINE layers == RequiredLayers(task)
             risk == RiskLevel(task)
             blocked == P0Blocks(layers, TRUE, HasSimulation(risk), 0 \in layers)
  <1>2. PICK end \in IF blocked THEN {"blocked"} ELSE Outcomes(Primary(layers)) :
               meta' = [meta EXCEPT
                 !.tasks = @ + 1, !.activated = Counted(@, layers),
                 !.blocked = @ + IF blocked THEN 1 ELSE 0,
                 !.approved = @ + IF blocked THEN 0 ELSE 1,
                 !.log = Append(@, [layers |-> layers, risk |-> risk, graph |-> PlanGraph(layers),
                   topology |-> Decide(task), outcome |-> end,
                   checks |-> P0RuleCount + policy.rules,
                   proof |-> IF blocked THEN 0 ELSE evidence.made + 1])]
    BY <1>1
  <1> DEFINE entry == [layers |-> layers, risk |-> risk, graph |-> PlanGraph(layers),
                       topology |-> Decide(task), outcome |-> end,
                       checks |-> P0RuleCount + policy.rules,
                       proof |-> IF blocked THEN 0 ELSE evidence.made + 1]
             old == meta.log
  <1>3. /\ mapped' = Counted(Counted(mapped, layers), layers)
        /\ evidence' = GenerateProof(evidence, TRUE)
        /\ policy' = UpdateStats(policy, blocked)
        /\ UNCHANGED loop
    BY <1>1 DEF Process
  <1>4. layers \in TaskLayers /\ risk \in RiskNames
    BY DEF TaskLayers, RiskLevel, RiskNames
  <1>5. risk = "critical" /\ Cardinality(layers) > 1 => blocked
    BY DEF P0Blocks, HasSimulation
  <1>6. (end = "blocked" <=> blocked)
        /\ end \in {"blocked", "corporate", "devops", "error", "cognitive"}
    BY <1>2 DEF Outcomes
  <1> HIDE DEF layers, risk, blocked
  <1>7. policy.rules \in Nat /\ evidence.made \in Nat /\ MetaFields /\ PolicyFields
    BY DEF CountersInv, EvidenceInv, PolicyFields
  <1>8. /\ entry \in TaskLog /\ entry.layers = layers /\ entry.outcome = end /\ entry.risk = risk
        /\ entry.proof = IF blocked THEN 0 ELSE evidence.made + 1
    <2>1. PlanGraph(layers) \in {PlanGraph(ls) : ls \in TaskLayers}
          /\ Decide(task) \in {Decide(t) : t \in MetaTasks}
      BY <1>4
    <2>2. P0RuleCount + policy.rules \in Nat /\ (IF blocked THEN 0 ELSE evidence.made + 1) \in Nat
      BY <1>7 DEF P0RuleCount
    <2> QED
      BY <1>4, <1>6, <2>1, <2>2 DEF TaskLog
  <1>9. /\ meta'.tasks = meta.tasks + 1 /\ meta'.activated = Counted(meta.activated, layers)
        /\ meta'.blocked = meta.blocked + (IF blocked THEN 1 ELSE 0)
        /\ meta'.approved = meta.approved + (IF blocked THEN 0 ELSE 1)
        /\ meta'.log = Append(old, entry)
        /\ meta' = [tasks |-> meta'.tasks, approved |-> meta'.approved, blocked |-> meta'.blocked,
                    activated |-> meta'.activated, log |-> meta'.log, lower |-> meta'.lower]
    <2> HIDE DEF entry
    <2>1. meta' = [meta EXCEPT !.tasks = @ + 1, !.activated = Counted(@, layers),
                     !.blocked = @ + IF blocked THEN 1 ELSE 0,
                     !.approved = @ + IF blocked THEN 0 ELSE 1, !.log = Append(@, entry)]
      BY <1>2 DEF entry
    <2> QED
      BY <1>7, <2>1 DEF MetaFields
  <1> HIDE DEF entry
  <1>10. /\ meta'.log \in Seq(TaskLog) /\ Len(old) \in Nat /\ DOMAIN old = 1 .. Len(old)
         /\ Len(meta'.log) = Len(old) + 1
         /\ \A i \in DOMAIN old : meta'.log[i] = old[i] /\ i \in DOMAIN meta'.log /\ i # Len(old) + 1
         /\ meta'.log[Len(old) + 1] = entry /\ Len(old) + 1 \in DOMAIN meta'.log
         /\ \A i \in DOMAIN meta'.log : i = Len(old) + 1 \/ i \in DOMAIN old
    BY <1>7, <1>8, <1>9, AppendedTo DEF MetaFields
  <1>11. /\ Cardinality(BlockedOnes) \in Nat
         /\ Cardinality(BlockedOnes') = Cardinality(BlockedOnes) + (IF blocked THEN 1 ELSE 0)
    <2>1. BlockedOnes \in SUBSET (1 .. Len(old))
      BY <1>10 DEF BlockedOnes
    <2>2. BlockedOnes' = IF blocked THEN BlockedOnes \cup {Len(old) + 1} ELSE BlockedOnes
      BY <1>6, <1>8, <1>10 DEF BlockedOnes
    <2>3. /\ Cardinality(BlockedOnes) \in Nat
          /\ Cardinality(BlockedOnes \cup {Len(old) + 1}) = Cardinality(BlockedOnes) + 1
      BY <1>10, <2>1, CountNumbers
    <2> QED
      BY <2>2, <2>3
  <1>12. ASSUME NEW l \in Layers
         PROVE  /\ meta'.activated[l] = Cardinality(Needing(l)')
                /\ mapped'[l] = 2 * meta'.activated[l]
    <2>1. Needing(l) \in SUBSET (1 .. Len(old))
      BY <1>10 DEF Needing
    <2>2. Needing(l)' = IF l \in layers THEN Needing(l) \cup {Len(old) + 1} ELSE Needing(l)
      BY <1>8, <1>10 DEF Needing
    <2>3. /\ Cardinality(Needing(l)) \in Nat
          /\ Cardinality(Needing(l) \cup {Len(old) + 1}) = Cardinality(Needing(l)) + 1
      BY <1>10, <2>1, CountNumbers
    <2>4. meta.activated[l] = Cardinality(Needing(l)) /\ mapped[l] = 2 * meta.activated[l]
      BY DEF CountersInv
    <2>5. /\ meta'.activated[l] = meta.activated[l] + (IF l \in layers THEN 1 ELSE 0)
          /\ mapped'[l] = mapped[l] + (IF l \in layers THEN 1 ELSE 0) + (IF l \in layers THEN 1 ELSE 0)
      BY <1>3, <1>9 DEF Counted
    <2> QED
      BY <2>2, <2>3, <2>4, <2>5
  <1>13. /\ policy'.checks = policy.checks + 1
         /\ policy'.blocks = policy.blocks + (IF blocked THEN 1 ELSE 0)
         /\ policy'.allows = policy.allows + (IF blocked THEN 0 ELSE 1) /\ policy'.rules = policy.rules
         /\ policy' = [checks |-> policy'.checks, blocks |-> policy'.blocks, allows |-> policy'.allows,
                       bypasses |-> policy'.bypasses, rules |-> policy'.rules]
    BY <1>3, <1>7 DEF UpdateStats, PolicyFields
  <1>14. CountersInv'
    <2>1. MetaFields' /\ PolicyFields'
      BY <1>7, <1>9, <1>10, <1>13 DEF MetaFields, PolicyFields
    <2>2. /\ meta.tasks = Len(old) /\ meta.tasks = policy.checks
          /\ meta.blocked = Cardinality(BlockedOnes) /\ meta.approved = meta.tasks - meta.blocked
          /\ policy.blocks = meta.blocked /\ policy.allows = meta.approved
      BY DEF CountersInv
    <2>3. /\ meta'.tasks = Len(meta'.log) /\ meta'.tasks = policy'.checks
          /\ meta'.blocked = Cardinality(BlockedOnes') /\ meta'.approved = meta'.tasks - meta'.blocked
          /\ policy'.blocks = meta'.blocked /\ policy'.allows = meta'.approved
      <3> DEFINE b == Cardinality(BlockedOnes)
      <3> HIDE DEF b
      <3>0. /\ b \in Nat /\ Cardinality(BlockedOnes') = b + (IF blocked THEN 1 ELSE 0)
            /\ meta.blocked = b /\ meta.tasks \in Nat
        BY <1>10, <1>11, <2>2 DEF b
      <3>1. CASE blocked
        BY <1>9, <1>10, <1>13, <2>2, <3>0, <3>1
      <3>2. CASE ~blocked
        BY <1>9, <1>10, <1>13, <2>2, <3>0, <3>2
      <3> QED
        BY <3>1, <3>2
    <2> QED
      BY <1>12, <2>1, <2>3 DEF CountersInv
  <1>15. /\ EvidenceInv' /\ evidence'.made = evidence.made + 1
         /\ evidence.pending \subseteq evidence'.pending
         /\ \E p \in evidence'.pending : p.id = evidence.made + 1
    BY <1>3, ProofGenerated
  <1>16. TaskLogInv'
    <2>1. \A n \in DOMAIN old : old[n].proof \in 0 .. evidence.made
      BY DEF TaskLogInv
    <2>2. \A n \in DOMAIN meta'.log : meta'.log[n].proof \in 0 .. evidence'.made
      <3>1. entry.proof \in 0 .. evidence.made + 1
        BY <1>7, <1>8
      <3>2. \A n \in DOMAIN old : old[n].proof \in 0 .. evidence.made + 1
        BY <1>7, <2>1
      <3> QED
        BY <1>10, <1>15, <3>1, <3>2
    <2>3. ASSUME NEW n \in DOMAIN meta'.log
          PROVE  LET r == meta'.log[n] IN
                 /\ r.risk = "critical" /\ Cardinality(r.layers) > 1 => r.outcome = "blocked" /\ r.proof = 0
                 /\ r.outcome # "blocked" => \E p \in evidence'.pending : p.id = r.proof
      <3>1. CASE n \in DOMAIN old
        BY <1>10, <1>15, <3>1 DEF TaskLogInv, CriticalStaysInside
      <3>2. CASE n = Len(old) + 1
        BY <1>5, <1>6, <1>8, <1>10, <1>15, <3>2
      <3> QED
        BY <1>10, <3>1, <3>2
    <2>4. ASSUME NEW n \in DOMAIN meta'.log, NEW m \in DOMAIN meta'.log,
                 meta'.log[n].proof = meta'.log[m].proof
          PROVE  n = m \/ meta'.log[n].proof = 0
      <3>1. entry.proof = 0 \/ entry.proof = evidence.made + 1
        BY <1>8
      <3>2. \A k \in DOMAIN old : old[k].proof # evidence.made + 1
        BY <1>7, <2>1
      <3>3. CASE n \in DOMAIN old /\ m \in DOMAIN old
        BY <1>10, <2>4, <3>3 DEF TaskLogInv, CriticalStaysInside
      <3> QED
        BY <1>10, <2>4, <3>1, <3>2, <3>3
    <2> QED
      BY <2>2, <2>3, <2>4 DEF TaskLogInv, CriticalStaysInside
  <1>17. GovernedInv'
    BY <1>3 DEF GovernedInv, LoopIsGoverned
  <1> QED
    BY <1>14, <1>15, <1>16, <1>17

-----------------------------------------------------------------------------
\* The ten phases, and the row of them so far.
LEMMA PhaseNames ==
  ASSUME NEW k \in 1 .. 10
  PROVE  /\ (Phases[k] = "SIMULATE") <=> (k = 3)
         /\ (Phases[k] = "GOVERN") <=> (k = 6)
         /\ (Phases[k] = "EXECUTE") <=> (k = 7)
         /\ (Phases[k] = "AUDIT") <=> (k = 8)
         /\ (Phases[k] = "COMPLETE") <=> (k = 10)
  <1>1. /\ k = 1 \/ k = 2 \/ k = 3 \/ k = 4 \/ k = 5 \/ k = 6 \/ k = 7 \/ k = 8 \/ k = 9 \/ k = 10
    OBVIOUS
  <1>2. /\ Phases[1] = "OBSERVE" /\ Phases[2] = "MODEL" /\ Phases[3] = "SIMULATE"
        /\ Phases[4] = "DECIDE" /\ Phases[5] = "PROVE" /\ Phases[6] = "GOVERN"
        /\ Phases[7] = "EXECUTE" /\ Phases[8] = "AUDIT" /\ Phases[9] = "LEARN"
        /\ Phases[10] = "COMPLETE"
    BY DEF Phases
  <1> QED
    BY <1>1, <1>2

LEMMA PhaseAppended ==
  ASSUME NEW k \in 0 .. 9
  PROVE  /\ Append(SubSeq(Phases, 1, k), Phases[k + 1]) = SubSeq(Phases, 1, k + 1)
         /\ Len(SubSeq(Phases, 1, k + 1)) = k + 1
  <1> DEFINE S == {"OBSERVE", "MODEL", "SIMULATE", "DECIDE", "PROVE", "GOVERN", "EXECUTE", "AUDIT",
                   "LEARN", "COMPLETE"}
  <1>1. Phases \in Seq(S) /\ Len(Phases) = 10
    BY DEF Phases
  <1>a. Phases \in [1 .. 10 -> S]
    <2>1. \A q \in Seq(S) : q \in [1 .. Len(q) -> S]
      OBVIOUS
    <2>2. Phases \in [1 .. Len(Phases) -> S]
      BY <1>1, <2>1
    <2> QED
      BY <1>1, <2>2
  <1> HIDE DEF S
  <1>2. /\ SubSeq(Phases, 1, k) \in Seq(S) /\ Len(SubSeq(Phases, 1, k)) = k
        /\ SubSeq(Phases, 1, k + 1) \in Seq(S) /\ Len(SubSeq(Phases, 1, k + 1)) = k + 1
        /\ \A i \in 1 .. k : SubSeq(Phases, 1, k)[i] = Phases[i]
        /\ \A i \in 1 .. k + 1 : SubSeq(Phases, 1, k + 1)[i] = Phases[i]
    <2>1. ASSUME NEW m \in Nat, m <= 10
          PROVE  /\ SubSeq(Phases, 1, m) \in Seq(S) /\ Len(SubSeq(Phases, 1, m)) = m
                 /\ \A i \in 1 .. m : SubSeq(Phases, 1, m)[i] = Phases[i]
      <3>1. \A i \in 1 .. m : i \in 1 .. Len(Phases) /\ Phases[i] \in S
        <4>1. \A i \in 1 .. m : i \in 1 .. 10
          BY <2>1
        <4> QED
          BY <1>1, <1>a, <4>1
      <3> QED
        BY <1>1, <2>1, <3>1
    <2>2. k \in Nat /\ k <= 10 /\ k + 1 \in Nat /\ k + 1 <= 10
      OBVIOUS
    <2> QED
      BY <2>1, <2>2
  <1>3. Phases[k + 1] \in S
    <2>1. k + 1 \in 1 .. 10
      OBVIOUS
    <2> QED
      BY <1>a, <2>1
  <1> DEFINE a == Append(SubSeq(Phases, 1, k), Phases[k + 1])
             b == SubSeq(Phases, 1, k + 1)
  <1>4. a \in Seq(S) /\ Len(a) = k + 1 /\ a[k + 1] = Phases[k + 1]
        /\ \A i \in 1 .. k : a[i] = Phases[i]
    BY <1>2, <1>3
  <1>5. \A i \in 1 .. k + 1 : a[i] = b[i]
    BY <1>2, <1>4
  <1> HIDE DEF a
  <1>6. a = b
    BY <1>2, <1>4, <1>5
  <1> QED
    BY <1>2, <1>6 DEF a

LEMMA PhaseKeeps == GovernedInv /\ RunPhase => GovernedInv'
  <1> SUFFICES ASSUME GovernedInv, RunPhase PROVE GovernedInv'
    OBVIOUS
  <1>1. PICK simulated \in SimAnswers, ruling \in Rulings :
       LET turn == Phases[loop.at + 1]
       IN loop' = [loop EXCEPT
            !.at = @ + 1, !.history = Append(@, turn),
            !.simulation = IF turn = "SIMULATE" THEN simulated ELSE @,
            !.verdict = IF turn = "GOVERN" THEN ruling ELSE @,
            !.executed = @ \/ turn = "EXECUTE", !.audited = @ \/ turn = "AUDIT",
            !.state = IF Stops(turn, simulated, ruling) THEN "BLOCKED"
                      ELSE IF turn = "COMPLETE" THEN "COMPLETE" ELSE @]
    BY DEF RunPhase
  <1> DEFINE k == loop.at
             turn == Phases[k + 1]
             stops == Stops(turn, simulated, ruling)
  <1>2. /\ loop.state = "running" /\ k \in 0 .. 9 /\ loop.history = SubSeq(Phases, 1, k)
        /\ k >= 3 => loop.simulation \in SimAnswers \ {"blocked"}
        /\ k >= 6 => loop.verdict \in Rulings \ {"BLOCKED"}
        /\ k >= 7 <=> loop.executed
        /\ k >= 8 <=> loop.audited
    BY DEF GovernedInv, RunPhase
  <1>3. /\ (turn = "SIMULATE") <=> (k + 1 = 3)
        /\ (turn = "GOVERN") <=> (k + 1 = 6)
        /\ (turn = "EXECUTE") <=> (k + 1 = 7)
        /\ (turn = "AUDIT") <=> (k + 1 = 8)
        /\ (turn = "COMPLETE") <=> (k + 1 = 10)
    BY <1>2, PhaseNames
  <1>4. Append(loop.history, turn) = SubSeq(Phases, 1, k + 1) /\ Len(SubSeq(Phases, 1, k + 1)) = k + 1
    BY <1>2, PhaseAppended
  <1>9. stops <=> (turn = "SIMULATE" /\ simulated = "blocked") \/ (turn = "GOVERN" /\ ruling = "BLOCKED")
    BY DEF Stops
  <1>10. loop' = [loop EXCEPT
            !.at = @ + 1, !.history = Append(@, turn),
            !.simulation = IF turn = "SIMULATE" THEN simulated ELSE @,
            !.verdict = IF turn = "GOVERN" THEN ruling ELSE @,
            !.executed = @ \/ turn = "EXECUTE", !.audited = @ \/ turn = "AUDIT",
            !.state = IF stops THEN "BLOCKED" ELSE IF turn = "COMPLETE" THEN "COMPLETE" ELSE @]
    BY <1>1
  <1> HIDE DEF turn, stops
  <1>5. /\ loop'.at = k + 1 /\ loop'.history = SubSeq(Phases, 1, k + 1)
        /\ loop'.simulation = IF turn = "SIMULATE" THEN simulated ELSE loop.simulation
        /\ loop'.verdict = IF turn = "GOVERN" THEN ruling ELSE loop.verdict
        /\ loop'.executed <=> (loop.executed \/ turn = "EXECUTE")
        /\ loop'.audited <=> (loop.audited \/ turn = "AUDIT")
        /\ loop'.state = IF stops THEN "BLOCKED" ELSE IF turn = "COMPLETE" THEN "COMPLETE" ELSE "running"
        /\ loop' = [at |-> loop'.at, state |-> loop'.state, history |-> loop'.history,
                    simulation |-> loop'.simulation, verdict |-> loop'.verdict,
                    executed |-> loop'.executed, audited |-> loop'.audited]
    BY <1>2, <1>4, <1>10 DEF GovernedInv
  <1>6. loop'.state \in {"running", "BLOCKED", "COMPLETE", "raised"}
    BY <1>5
  <1>7. loop'.state = "running" =>
          /\ loop'.at \in 0 .. 9 /\ loop'.history = SubSeq(Phases, 1, loop'.at)
          /\ loop'.at >= 3 => loop'.simulation \in SimAnswers \ {"blocked"}
          /\ loop'.at >= 6 => loop'.verdict \in Rulings \ {"BLOCKED"}
          /\ loop'.at >= 7 <=> loop'.executed
          /\ loop'.at >= 8 <=> loop'.audited
    BY <1>2, <1>3, <1>5, <1>9
  <1>8. LoopIsGoverned'
    <2>1. loop'.executed => /\ loop'.simulation \in SimAnswers \ {"blocked"}
                            /\ loop'.verdict \in Rulings \ {"BLOCKED"}
      BY <1>2, <1>3, <1>5, <1>9
    <2>2. loop'.state = "BLOCKED" => /\ ~loop'.executed /\ ~loop'.audited
                                     /\ loop'.simulation = "blocked" \/ loop'.verdict = "BLOCKED"
      BY <1>2, <1>3, <1>5, <1>9
    <2>3. loop'.state = "COMPLETE" => loop'.executed /\ loop'.audited
      BY <1>2, <1>3, <1>5
    <2>4. loop'.history = SubSeq(Phases, 1, Len(loop'.history))
      BY <1>4, <1>5
    <2> QED
      BY <2>1, <2>2, <2>3, <2>4 DEF LoopIsGoverned
  <1> QED
    BY <1>5, <1>6, <1>7, <1>8 DEF GovernedInv

LEMMA RaiseKeeps == GovernedInv /\ PhaseRaises => GovernedInv'
  <1> SUFFICES ASSUME GovernedInv, PhaseRaises PROVE GovernedInv'
    OBVIOUS
  <1> DEFINE k == loop.at
             turn == Phases[k + 1]
  <1>1. /\ loop.state = "running" /\ k \in 0 .. 9 /\ loop.history = SubSeq(Phases, 1, k)
        /\ loop' = [loop EXCEPT !.state = "raised", !.history = Append(@, turn)]
    BY DEF GovernedInv, PhaseRaises
  <1>2. Append(loop.history, turn) = SubSeq(Phases, 1, k + 1) /\ Len(SubSeq(Phases, 1, k + 1)) = k + 1
    BY <1>1, PhaseAppended
  <1> HIDE DEF turn
  <1>3. /\ loop'.state = "raised" /\ loop'.history = SubSeq(Phases, 1, k + 1)
        /\ loop'.simulation = loop.simulation /\ loop'.verdict = loop.verdict
        /\ loop'.executed = loop.executed /\ loop'.audited = loop.audited
        /\ loop' = [at |-> loop'.at, state |-> loop'.state, history |-> loop'.history,
                    simulation |-> loop'.simulation, verdict |-> loop'.verdict,
                    executed |-> loop'.executed, audited |-> loop'.audited]
    BY <1>1, <1>2 DEF GovernedInv
  <1> QED
    BY <1>2, <1>3 DEF GovernedInv, LoopIsGoverned

-----------------------------------------------------------------------------
LEMMA MetaAtFirst == MetaInit => MetaInv
  <1> SUFFICES ASSUME MetaInit PROVE MetaInv
    OBVIOUS
  <1>1. PICK lower \in SUBSET {"corporate", "devops"} :
          meta = [tasks |-> 0, approved |-> 0, blocked |-> 0, activated |-> NoCounts, log |-> <<>>,
                  lower |-> lower]
    BY DEF MetaInit
  <1>2. Cardinality(BlockedOnes) = 0 /\ \A l \in Layers : Cardinality(Needing(l)) = 0
    <2>1. BlockedOnes = {} /\ \A l \in Layers : Needing(l) = {}
      BY <1>1 DEF BlockedOnes, Needing
    <2> QED
      BY <2>1, FS_EmptySet
  <1>3. MetaFields /\ PolicyFields
    BY <1>1 DEF MetaInit, MetaFields, PolicyFields
  <1>4. CountersInv
    BY <1>1, <1>2, <1>3 DEF MetaInit, CountersInv, NoCounts
  <1>5. EvidenceInv
    <2>1. PendingIds(evidence) = {} /\ FinalIds(evidence) = {}
      BY DEF MetaInit, PendingIds, FinalIds
    <2>2. 1 .. 0 = {}
      OBVIOUS
    <2> QED
      BY <2>1, <2>2, FS_EmptySet DEF MetaInit, EvidenceInv
  <1>6. TaskLogInv
    BY <1>1 DEF TaskLogInv, CriticalStaysInside
  <1>7. GovernedInv
    <2>1. SubSeq(Phases, 1, 0) = <<>>
      BY DEF Phases
    <2> QED
      BY <2>1 DEF MetaInit, NewLoop, GovernedInv, LoopIsGoverned
  <1> QED
    BY <1>4, <1>5, <1>6, <1>7 DEF MetaInv

LEMMA MetaStep == MetaInv /\ [MetaNext]_mvars => MetaInv'
  <1> SUFFICES ASSUME MetaInv, [MetaNext]_mvars PROVE MetaInv'
    OBVIOUS
  <1> USE DEF MetaInv
  <1>1. UNCHANGED <<meta, policy, mapped>> => CountersInv'
    BY DEF CountersInv, MetaFields, PolicyFields, BlockedOnes, Needing
  <1>2. UNCHANGED evidence => EvidenceInv'
    BY DEF EvidenceInv, PendingIds, FinalIds
  <1>3. UNCHANGED <<meta, evidence>> => TaskLogInv'
    BY DEF TaskLogInv, CriticalStaysInside
  <1>4. UNCHANGED loop => GovernedInv'
    BY DEF GovernedInv, LoopIsGoverned
  <1>5. CASE Process
    BY <1>5, ProcessKeeps
  <1>6. CASE AddRule
    <2>1. policy' = [policy EXCEPT !.rules = @ + 1] /\ UNCHANGED <<meta, mapped, evidence, loop>>
      BY <1>6 DEF AddRule
    <2>2. PolicyFields
      BY DEF CountersInv
    <2>3. /\ policy'.checks = policy.checks /\ policy'.blocks = policy.blocks
          /\ policy'.allows = policy.allows /\ PolicyFields'
      BY <2>1, <2>2 DEF PolicyFields
    <2>4. CountersInv'
      BY <2>1, <2>3 DEF CountersInv, MetaFields, BlockedOnes, Needing
    <2> QED
      BY <1>2, <1>3, <1>4, <2>1, <2>4
  <1>7. CASE ProofClient
    <2>1. meta.tasks = 0 /\ UNCHANGED <<meta, policy, mapped, loop>>
      BY <1>7 DEF ProofClient
    <2>2. EvidenceInv'
      <3>1. CASE \E passed \in BOOLEAN : evidence' = GenerateProof(evidence, passed)
        BY <3>1, ProofGenerated
      <3>2. CASE \E id \in 1 .. MaxMetaProofs : evidence' = FinalizeProof(evidence, id)
        BY <3>2, ProofFinalized
      <3> QED
        BY <1>7, <3>1, <3>2 DEF ProofClient
    <2>3. DOMAIN meta.log = {}
      <3>1. meta.log \in Seq(TaskLog) /\ Len(meta.log) = 0
        BY <2>1 DEF CountersInv, MetaFields
      <3> QED
        BY <3>1
    <2>4. TaskLogInv'
      BY <2>1, <2>3 DEF TaskLogInv, CriticalStaysInside
    <2> QED
      BY <1>1, <1>4, <2>1, <2>2, <2>4
  <1>8. CASE RunPhase
    BY <1>1, <1>2, <1>3, <1>8, PhaseKeeps DEF RunPhase
  <1>9. CASE PhaseRaises
    BY <1>1, <1>2, <1>3, <1>9, RaiseKeeps DEF PhaseRaises
  <1>10. CASE UNCHANGED mvars
    BY <1>1, <1>2, <1>3, <1>4, <1>10 DEF mvars
  <1> QED
    BY <1>5, <1>6, <1>7, <1>8, <1>9, <1>10 DEF MetaNext

\* The meta-orchestration, for any tasks, rules and proofs: the parts of the kernel
\* count the same tasks, no critical task over several layers is carried out, a
\* proof is in one place and only a final one is verified, and the loop executes
\* only what was simulated as safe and approved.
THEOREM MetaAlwaysHolds == MetaSpec => []MetaHolds
  <1>1. MetaInit => MetaInv
    BY MetaAtFirst
  <1>2. MetaInv /\ [MetaNext]_mvars => MetaInv'
    BY MetaStep
  <1>3. MetaInv => MetaHolds
    <2> SUFFICES ASSUME MetaInv PROVE MetaHolds
      OBVIOUS
    <2>1. CountersAgree
      BY DEF MetaInv, CountersInv, CountersAgree, BlockedOnes, Needing
    <2>2. ProofsInOnePlace
      <3>1. \A id \in PendingIds(evidence) : ~VerifyProof(evidence, id)
        BY DEF MetaInv, EvidenceInv, VerifyProof, FinalIds
      <3> QED
        BY <3>1 DEF MetaInv, EvidenceInv, ProofsInOnePlace, PendingIds, FinalIds
    <2>3. CriticalStaysInside /\ LoopIsGoverned
      BY DEF MetaInv, TaskLogInv, GovernedInv
    <2> QED
      BY <2>1, <2>2, <2>3 DEF MetaHolds
  <1> QED
    BY <1>1, <1>2, <1>3, PTL DEF MetaSpec

-----------------------------------------------------------------------------
(***************************************************************************)
(* The corporation                                                         *)
(***************************************************************************)
TaskStatuses == {"organized", "allocated", "budget_denied", "board_denied", "executed", "execution_failed"}

CorpTasks == [kind : Kinds, status : TaskStatuses, who : Employees \cup {"unassigned"}]

TasksWith(status) == {i \in DOMAIN tasks : tasks[i].status = status}

CorpInv ==
  /\ phase \in {"intake", "allocate", "evolve"}
  /\ tasks \in Seq(CorpTasks)
  /\ spent \in Nat /\ outcome \in [n : Nat, cost : Nat]
  /\ MoneyFollowsBoard
  /\ phase = "intake" => tasks = <<>>
  /\ phase = "evolve" => TasksWith("allocated") = {}

LEMMA KindCosts ==
  ASSUME NEW k \in Kinds
  PROVE  k.cost \in Nat \ {0} /\ (k.risk = "critical" => Decision(k) = "vetoed")
  <1>1. IsKind(k)
    BY CorporationAssumption
  <1>2. <<k.cost, k.value>> \in CostsAndValues
    BY <1>1 DEF IsKind
  <1>3. k.cost \in {1, 2, 4, 6}
    BY <1>2 DEF CostsAndValues
  <1> QED
    BY <1>3 DEF Decision

LEMMA CostsAreNumbers ==
  ASSUME tasks \in Seq(CorpTasks), NEW S \in SUBSET DOMAIN tasks
  PROVE  /\ IsFiniteSet(S) /\ \A i \in DOMAIN tasks : Costs[i] = tasks[i].kind.cost /\ Costs[i] \in Nat
         /\ SumFunctionOnSet(Costs, S) \in Nat
  <1>1. IsFiniteSet(DOMAIN tasks) /\ IsFiniteSet(S)
    <2>1. IsFiniteSet(DOMAIN tasks)
      BY ListOf
    <2> QED
      BY <2>1, FS_Subset
  <1>2. ASSUME NEW i \in DOMAIN tasks PROVE Costs[i] = tasks[i].kind.cost /\ Costs[i] \in Nat
    <2>1. tasks[i].kind \in Kinds
      <3>1. tasks[i] \in CorpTasks
        BY ListOf
      <3> QED
        BY <3>1 DEF CorpTasks
    <2> QED
      BY <2>1, KindCosts DEF Costs
  <1>3. SumFunctionOnSet(Costs, S) \in Int
    BY <1>1, <1>2, SumIsInt
  <1>4. 0 <= SumFunctionOnSet(Costs, S)
    BY <1>1, <1>2, SumOfPart
  <1> QED
    BY <1>1, <1>2, <1>3, <1>4

LEMMA CostOfIsSum == ASSUME NEW status PROVE CostOf(status) = SumFunctionOnSet(Costs, TasksWith(status))
  BY DEF CostOf, TasksWith

LEMMA CorpInvInit == CorpInit => CorpInv
  <1> SUFFICES ASSUME CorpInit PROVE CorpInv
    OBVIOUS
  <1>1. tasks = <<>> /\ tasks \in Seq(CorpTasks) /\ TasksWith("allocated") = {}
    BY DEF CorpInit, TasksWith
  <1>2. CostOf("allocated") = 0
    BY <1>1, CostOfIsSum, SumOfNone
  <1>3. MoneyFollowsBoard
    BY <1>1, <1>2, CorporationAssumption DEF CorpInit, MoneyFollowsBoard, NeverOverspent, PaidIsExecuted, BoardObeyed
  <1> QED
    BY <1>1, <1>3 DEF CorpInit, CorpInv

LEMMA IntakeKeeps ==
  ASSUME CorpInv, Intake
  PROVE  CorpInv'
  <1>1. PICK n \in 1 .. MaxTasks :
          tasks' \in [1 .. n -> [kind : Kinds, status : {"organized"}, who : Assignees]]
    BY DEF Intake
  <1>2. n \in Nat
    BY CorporationAssumption
  <1>3. Assignees \subseteq Employees \cup {"unassigned"}
    BY DEF Assignees, Online
  <1>4. tasks' \in Seq(CorpTasks) /\ \A i \in DOMAIN tasks' : tasks'[i].status = "organized"
    <2>1. \A i \in 1 .. n : tasks'[i] \in CorpTasks /\ tasks'[i].status = "organized"
      BY <1>1, <1>3 DEF CorpTasks, TaskStatuses
    <2>2. tasks' \in [1 .. n -> CorpTasks]
      BY <1>1, <2>1
    <2> QED
      BY <1>2, <2>1, <2>2
  <1>5. TasksWith("allocated") = {} /\ TasksWith("allocated")' = {}
    BY <1>4 DEF CorpInv, Intake, TasksWith
  <1>6. CostOf("allocated") = 0 /\ CostOf("allocated")' = 0
    BY <1>5, SumOfNone DEF CostOf, TasksWith
  <1>7. MoneyFollowsBoard'
    BY <1>4, <1>6 DEF CorpInv, Intake, MoneyFollowsBoard, NeverOverspent, PaidIsExecuted, BoardObeyed
  <1> QED
    BY <1>4, <1>7 DEF CorpInv, Intake

LEMMA AllocateTaskKeeps ==
  ASSUME CorpInv, AllocateTask
  PROVE  CorpInv'
  <1>1. PICK i \in DOMAIN tasks :
          /\ tasks[i].status = "organized"
          /\ LET k == tasks[i].kind
                 status == IF Decision(k) \notin {"approved", "override"} THEN "board_denied"
                           ELSE IF CanAfford(k.cost) THEN "allocated" ELSE "budget_denied"
             IN  /\ tasks' = [tasks EXCEPT ![i].status = status]
                 /\ spent' = IF status = "allocated" THEN Request(k.cost) ELSE spent
    BY DEF AllocateTask
  <1> DEFINE k == tasks[i].kind
             status == IF Decision(k) \notin {"approved", "override"} THEN "board_denied"
                       ELSE IF CanAfford(k.cost) THEN "allocated" ELSE "budget_denied"
  <1>2. /\ tasks' = [tasks EXCEPT ![i].status = status]
        /\ spent' = IF status = "allocated" THEN Request(k.cost) ELSE spent
        /\ phase = "allocate" /\ phase' = phase /\ outcome' = outcome
    BY <1>1 DEF AllocateTask
  <1>3. status \in TaskStatuses /\ status \in {"board_denied", "allocated", "budget_denied"}
    BY DEF TaskStatuses
  <1>4. /\ status = "allocated" => Decision(k) = "approved" /\ CanAfford(k.cost)
    BY DEF Decision
  <1>5. k \in Kinds /\ k.cost \in Nat \ {0} /\ spent \in Nat /\ spent <= Limit /\ Limit \in Nat
    <2>1. tasks[i] \in CorpTasks
      BY DEF CorpInv
    <2>2. k \in Kinds
      BY <2>1 DEF CorpTasks
    <2> QED
      BY <2>2, KindCosts, CorporationAssumption DEF CorpInv, MoneyFollowsBoard, NeverOverspent
  <1> HIDE DEF status
  <1>6. /\ DOMAIN tasks' = DOMAIN tasks /\ tasks' \in Seq(CorpTasks)
        /\ \A j \in DOMAIN tasks : /\ tasks'[j].kind = tasks[j].kind
                                   /\ tasks'[j].status = IF j = i THEN status ELSE tasks[j].status
    <2>1. \A j \in DOMAIN tasks : tasks[j] \in CorpTasks
      BY DEF CorpInv
    <2>2. DOMAIN tasks' = DOMAIN tasks /\ tasks \in Seq(CorpTasks)
      BY <1>2 DEF CorpInv
    <2>3. \A j \in DOMAIN tasks : tasks'[j] = IF j = i THEN [tasks[i] EXCEPT !.status = status] ELSE tasks[j]
      BY <1>2
    <2>4. ASSUME NEW j \in DOMAIN tasks
          PROVE  /\ tasks'[j].kind = tasks[j].kind /\ tasks'[j] \in CorpTasks
                 /\ tasks'[j].status = IF j = i THEN status ELSE tasks[j].status
      BY <1>3, <2>1, <2>3 DEF CorpTasks
    <2>5. tasks' \in Seq(CorpTasks)
      <3>1. DOMAIN tasks = 1 .. Len(tasks) /\ Len(tasks) \in Nat
        BY <2>2
      <3>2. tasks' = [j \in 1 .. Len(tasks) |-> tasks'[j]]
        BY <1>2, <3>1
      <3> QED
        BY <2>4, <3>1, <3>2
    <2> QED
      BY <2>2, <2>4, <2>5
  <1>7. Costs' = Costs
    BY <1>6 DEF Costs
  <1>8. BoardObeyed'
    <2>1. ASSUME NEW j \in DOMAIN tasks, tasks'[j].status \in {"allocated", "executed"}
          PROVE  Decision(tasks'[j].kind) = "approved"
      <3>1. CASE j = i
        BY <1>3, <1>4, <1>6, <2>1, <3>1
      <3>2. CASE j # i
        BY <1>6, <2>1, <3>2 DEF CorpInv, MoneyFollowsBoard, BoardObeyed
      <3> QED
        BY <3>1, <3>2
    <2> QED
      BY <1>6, <2>1 DEF BoardObeyed
  <1>9. CASE status = "allocated"
    <2>1. Request(k.cost) = spent + k.cost /\ spent + k.cost <= Limit
      BY <1>4, <1>5, <1>9 DEF Request, CanAfford, Remaining
    <2>2. TasksWith("allocated")' = TasksWith("allocated") \cup {i} /\ i \notin TasksWith("allocated")
      BY <1>1, <1>6, <1>9 DEF TasksWith
    <2>3. IsFiniteSet(TasksWith("allocated")) /\ Costs[i] = k.cost /\ \A j \in DOMAIN tasks : Costs[j] \in Int
      BY CostsAreNumbers DEF CorpInv, TasksWith
    <2>4. SumFunctionOnSet(Costs, TasksWith("allocated") \cup {i}) = SumFunctionOnSet(Costs, TasksWith("allocated")) + Costs[i]
      <3>1. \A j \in TasksWith("allocated") \cup {i} : Costs[j] \in Int
        BY <2>3 DEF TasksWith
      <3> QED
        BY <2>2, <2>3, <3>1, SumAdded
    <2>5. CostOf("allocated")' = CostOf("allocated") + k.cost
      BY <1>7, <2>2, <2>3, <2>4 DEF CostOf, TasksWith
    <2>6. CostOf("allocated") \in Nat
      BY CostOfIsSum, CostsAreNumbers DEF CorpInv, TasksWith
    <2>7. spent = outcome.cost + CostOf("allocated") /\ outcome.cost \in Nat
      BY DEF CorpInv, MoneyFollowsBoard, PaidIsExecuted
    <2>8. NeverOverspent' /\ PaidIsExecuted' /\ spent' \in Nat
      BY <1>2, <1>5, <1>9, <2>1, <2>5, <2>6, <2>7 DEF NeverOverspent, PaidIsExecuted
    <2> QED
      BY <1>2, <1>6, <1>8, <2>8 DEF CorpInv, MoneyFollowsBoard
  <1>10. CASE status # "allocated"
    <2>1. TasksWith("allocated")' = TasksWith("allocated")
      BY <1>1, <1>6, <1>10 DEF TasksWith
    <2>2. CostOf("allocated")' = CostOf("allocated")
      BY <1>7, <2>1 DEF CostOf, TasksWith
    <2>3. NeverOverspent' /\ PaidIsExecuted' /\ spent' \in Nat
      BY <1>2, <1>10, <2>2 DEF CorpInv, MoneyFollowsBoard, NeverOverspent, PaidIsExecuted
    <2> QED
      BY <1>2, <1>6, <1>8, <2>3 DEF CorpInv, MoneyFollowsBoard
  <1> QED
    BY <1>9, <1>10

LEMMA ExecuteTasksKeeps ==
  ASSUME CorpInv, ExecuteTasks
  PROVE  CorpInv'
  <1> DEFINE approved == TasksWith("allocated")
             done == {i \in approved : tasks[i].kind.risk # "critical"}
  <1>1. /\ tasks' = [i \in DOMAIN tasks |->
                        [tasks[i] EXCEPT !.status = IF i \in done THEN "executed"
                                                    ELSE IF i \in approved THEN "execution_failed"
                                                    ELSE tasks[i].status]]
        /\ outcome'.cost = outcome.cost + SumFunctionOnSet(Costs, done)
        /\ outcome' = [n |-> outcome.n + Cardinality(done), cost |-> outcome.cost + SumFunctionOnSet(Costs, done)]
        /\ phase' = "evolve" /\ spent' = spent
    BY DEF ExecuteTasks, Record, TasksWith
  <1>2. ASSUME NEW i \in DOMAIN tasks PROVE tasks[i] \in CorpTasks /\ tasks[i].kind \in Kinds
    <2>1. tasks[i] \in CorpTasks
      BY ListOf DEF CorpInv
    <2> QED
      BY <2>1 DEF CorpTasks
  <1>3. done = approved
    <2>1. ASSUME NEW i \in approved PROVE tasks[i].kind.risk # "critical"
      <3>1. i \in DOMAIN tasks /\ tasks[i].status = "allocated"
        BY DEF TasksWith
      <3>2. Decision(tasks[i].kind) = "approved"
        BY <3>1 DEF CorpInv, MoneyFollowsBoard, BoardObeyed
      <3> QED
        BY <1>2, <3>1, <3>2, KindCosts
    <2> QED
      BY <2>1
  <1>4. SumFunctionOnSet(Costs, done) = CostOf("allocated") /\ CostOf("allocated") \in Nat /\ Cardinality(done) \in Nat
    <2>1. approved \in SUBSET DOMAIN tasks
      BY DEF TasksWith
    <2> QED
      BY <1>3, <2>1, CostOfIsSum, CostsAreNumbers, FS_CardinalityType DEF CorpInv
  <1>5. /\ outcome' \in [n : Nat, cost : Nat] /\ outcome'.cost = spent
    BY <1>1, <1>4 DEF CorpInv, MoneyFollowsBoard, PaidIsExecuted
  <1> HIDE DEF approved, done
  <1>6. /\ DOMAIN tasks' = DOMAIN tasks /\ tasks' \in Seq(CorpTasks)
        /\ \A i \in DOMAIN tasks : /\ tasks'[i].kind = tasks[i].kind
                                   /\ tasks'[i].status = IF i \in done THEN "executed" ELSE tasks[i].status
                                   /\ i \in done <=> tasks[i].status = "allocated"
    <2>1. ASSUME NEW i \in DOMAIN tasks
          PROVE  /\ tasks'[i] \in CorpTasks /\ tasks'[i].kind = tasks[i].kind
                 /\ tasks'[i].status = IF i \in done THEN "executed" ELSE tasks[i].status
                 /\ i \in done <=> tasks[i].status = "allocated"
      <3>1. i \in approved <=> i \in done
        BY <1>3
      <3>2. i \in approved <=> tasks[i].status = "allocated"
        BY DEF approved, TasksWith
      <3>3. tasks'[i] = [tasks[i] EXCEPT !.status = IF i \in done THEN "executed" ELSE tasks[i].status]
        BY <1>1, <3>1
      <3> QED
        BY <1>2, <3>1, <3>2, <3>3 DEF CorpTasks, TaskStatuses
    <2>2. DOMAIN tasks' = DOMAIN tasks /\ DOMAIN tasks = 1 .. Len(tasks) /\ Len(tasks) \in Nat
      BY <1>1 DEF CorpInv
    <2>3. tasks' = [i \in 1 .. Len(tasks) |-> tasks'[i]]
      BY <1>1, <2>2
    <2> QED
      BY <2>1, <2>2, <2>3
  <1>7. TasksWith("allocated")' = {}
    BY <1>6 DEF TasksWith
  <1>8. CostOf("allocated")' = 0
    BY <1>7, SumOfNone DEF CostOf, TasksWith
  <1>9. BoardObeyed'
    BY <1>6 DEF CorpInv, MoneyFollowsBoard, BoardObeyed
  <1>10. MoneyFollowsBoard'
    BY <1>1, <1>5, <1>8, <1>9 DEF CorpInv, MoneyFollowsBoard, NeverOverspent, PaidIsExecuted
  <1> QED
    BY <1>1, <1>5, <1>6, <1>7, <1>10 DEF CorpInv

LEMMA EvolveKeeps ==
  ASSUME CorpInv, Evolve
  PROVE  CorpInv'
  <1>1. tasks' = <<>> /\ tasks' \in Seq(CorpTasks) /\ phase' = "intake"
        /\ spent' = spent /\ outcome' = outcome
    BY DEF Evolve
  <1>2. TasksWith("allocated") = {} /\ TasksWith("allocated")' = {}
    BY <1>1 DEF CorpInv, Evolve, TasksWith
  <1>3. CostOf("allocated") = 0 /\ CostOf("allocated")' = 0
    BY <1>2, SumOfNone DEF CostOf, TasksWith
  <1>4. MoneyFollowsBoard'
    BY <1>1, <1>3 DEF CorpInv, MoneyFollowsBoard, NeverOverspent, PaidIsExecuted, BoardObeyed
  <1> QED
    BY <1>1, <1>4 DEF CorpInv

LEMMA CorpInvNext == CorpInv /\ [CorpNext]_cvars => CorpInv'
  <1>1. ASSUME CorpInv, UNCHANGED cvars PROVE CorpInv'
    <2>1. CostOf("allocated")' = CostOf("allocated") /\ TasksWith("allocated")' = TasksWith("allocated")
      BY <1>1 DEF cvars, CostOf, Costs, TasksWith
    <2> QED
      BY <1>1, <2>1 DEF cvars, CorpInv, MoneyFollowsBoard, NeverOverspent, PaidIsExecuted, BoardObeyed
  <1> QED
    BY <1>1, IntakeKeeps, AllocateTaskKeeps, ExecuteTasksKeeps, EvolveKeeps DEF CorpNext

\* The money of the corporation follows the votes of its board, for any kinds
\* of task, any budget and any staff (aic_os.run_cycle).
THEOREM MoneyAlwaysFollowsBoard == CorpSpec => []MoneyFollowsBoard
  <1>1. CorpInv => MoneyFollowsBoard
    BY DEF CorpInv
  <1> QED
    BY <1>1, CorpInvInit, CorpInvNext, PTL DEF CorpSpec

-----------------------------------------------------------------------------
(***************************************************************************)
(* The job exchange                                                        *)
(***************************************************************************)
\* What is left of a capacity after n jobs, and the jobs won since the last registration.
Left(n) == IF 100 > JobCost * n THEN 100 - JobCost * n ELSE 0
Late(o) == WonBy(o) \ enrolled[o].won

IsJob(job) == job = [status |-> job.status, bids |-> job.bids, winner |-> job.winner]
IsBook(b) ==
  /\ b = [reputation |-> b.reputation, capacity |-> b.capacity, completed |-> b.completed, failed |-> b.failed]
  /\ b.capacity \in Nat /\ b.completed \in Nat /\ b.failed \in Nat

JobsFit ==
  /\ Published \in SUBSET Names /\ IsFiniteSet(Published)
  /\ market = [j \in Published |-> market[j]]
  /\ \A j \in Published : /\ IsJob(market[j])
                          /\ market[j].status = "open" => recorded[j] = 0 /\ market[j].winner = "none"
  /\ recorded \in [Names -> Nat]
  /\ \A j \in Names \ Published : recorded[j] = 0

MembersFit ==
  /\ Members \in SUBSET Traders /\ traders = [o \in Members |-> traders[o]]
  /\ DOMAIN enrolled = Traders
  /\ \A o \in Members : IsBook(traders[o]) /\ enrolled[o].won \in SUBSET WonBy(o) /\ enrolled[o].results \in Int

BooksFit(o) ==
  /\ traders[o].capacity = Left(Cardinality(Late(o)))
  /\ traders[o].completed + traders[o].failed = SumFunctionOnSet(recorded, WonBy(o)) - enrolled[o].results

MarketInv == JobsFit /\ MembersFit /\ \A o \in Members : BooksFit(o)

LEMMA CostIs18 == JobCost = 18
  BY DEF JobCost, Complexity

LEMMA WonIsFinite ==
  ASSUME MarketInv, NEW o
  PROVE  /\ IsFiniteSet(WonBy(o)) /\ WonBy(o) \subseteq Names
         /\ IsFiniteSet(Late(o)) /\ Cardinality(Late(o)) \in Nat
         /\ \A j \in WonBy(o) : recorded[j] \in Int
         /\ SumFunctionOnSet(recorded, WonBy(o)) \in Int
  <1>1. WonBy(o) \in SUBSET Published /\ Late(o) \in SUBSET Published
    BY DEF WonBy, Late
  <1>2. /\ IsFiniteSet(WonBy(o)) /\ WonBy(o) \subseteq Names
        /\ IsFiniteSet(Late(o)) /\ Cardinality(Late(o)) \in Nat
    BY <1>1, FS_Subset, FS_CardinalityType DEF MarketInv, JobsFit
  <1>3. \A j \in WonBy(o) : recorded[j] \in Int
    BY <1>2 DEF MarketInv, JobsFit
  <1>4. SumFunctionOnSet(recorded, WonBy(o)) \in Int
    BY <1>2, <1>3, SumIsInt
  <1> QED
    BY <1>2, <1>3, <1>4

LEMMA MarketAtFirst == MarketInit => MarketInv
  <1> SUFFICES ASSUME MarketInit PROVE MarketInv
    OBVIOUS
  <1>1. Published = {} /\ Members = {} /\ market = [j \in Published |-> market[j]]
        /\ traders = [o \in Members |-> traders[o]]
    BY DEF MarketInit, Published, Members
  <1>2. IsFiniteSet(Published)
    BY <1>1, FS_EmptySet
  <1>3. JobsFit
    BY <1>1, <1>2 DEF MarketInit, JobsFit
  <1>4. MembersFit
    BY <1>1 DEF MarketInit, MembersFit
  <1> QED
    BY <1>1, <1>3, <1>4 DEF MarketInv

\* An organisation whose jobs and books stay as they are is fine as it was.
LEMMA BookKept ==
  ASSUME NEW o, BooksFit(o), WonBy(o)' = WonBy(o), enrolled'[o] = enrolled[o], recorded' = recorded,
         traders'[o].capacity = traders[o].capacity,
         traders'[o].completed = traders[o].completed, traders'[o].failed = traders[o].failed
  PROVE  BooksFit(o)'
  BY DEF BooksFit, Late, Left

\* The books of a member are opened, or opened afresh.
LEMMA RegisterKeeps ==
  ASSUME MarketInv, NEW o \in Traders, RegisterTrader(o)
  PROVE  MarketInv'
  <1> DEFINE book == [reputation |-> 80, capacity |-> 100, completed |-> 0, failed |-> 0]
             sum == SumFunctionOnSet(recorded, WonBy(o))
             then == [times |-> enrolled[o].times + 1, won |-> WonBy(o), results |-> sum]
  <1>1. /\ traders' = [t \in Members \cup {o} |-> IF t = o THEN book ELSE traders[t]]
        /\ enrolled' = [enrolled EXCEPT ![o] = then]
        /\ market' = market /\ recorded' = recorded
    BY DEF RegisterTrader
  <1>2. IsBook(book) /\ book.capacity = 100 /\ book.completed + book.failed = 0
    BY DEF IsBook
  <1>3. then.won = WonBy(o) /\ then.results = sum /\ sum \in Int
    BY WonIsFinite
  <1> HIDE DEF book, then
  <1>4. Published' = Published /\ Members' = Members \cup {o} /\ DOMAIN enrolled' = Traders
    BY <1>1 DEF Published, Members, MarketInv, MembersFit
  <1>5. \A t : WonBy(t)' = WonBy(t)
    BY <1>1, <1>4 DEF WonBy
  <1>6. /\ traders'[o] = book /\ enrolled'[o] = then
        /\ \A t \in Members : t # o => traders'[t] = traders[t] /\ enrolled'[t] = enrolled[t]
    BY <1>1 DEF MarketInv, MembersFit
  <1>7. JobsFit'
    BY <1>1, <1>4 DEF MarketInv, JobsFit, IsJob
  <1>8. ASSUME NEW t \in Members'
        PROVE  IsBook(traders'[t]) /\ enrolled'[t].won \in SUBSET WonBy(t) /\ enrolled'[t].results \in Int
    BY <1>2, <1>3, <1>4, <1>6 DEF MarketInv, MembersFit
  <1>9. MembersFit'
    <2>1. Members' \in SUBSET Traders /\ traders' = [t \in Members' |-> traders'[t]]
      BY <1>1, <1>4 DEF MarketInv, MembersFit
    <2>2. \A t \in Members' : IsBook(traders[t])'
      BY <1>8 DEF IsBook
    <2> QED
      BY <1>4, <1>5, <1>8, <2>1, <2>2 DEF MembersFit
  <1>10. BooksFit(o)'
    <2>1. Late(o)' = {}
      BY <1>3, <1>5, <1>6 DEF Late
    <2>2. Cardinality({}) = 0 /\ Left(0) = 100
      BY FS_EmptySet, CostIs18 DEF Left
    <2>3. SumFunctionOnSet(recorded', WonBy(o)') = sum
      BY <1>1, <1>5
    <2>4. traders'[o].capacity = 100 /\ traders'[o].completed + traders'[o].failed = 0
      BY <1>2, <1>6
    <2>5. enrolled'[o].results = sum /\ sum - sum = 0
      BY <1>3, <1>6
    <2> HIDE DEF sum
    <2>6. traders'[o].capacity = Left(Cardinality(Late(o)'))
      BY <2>1, <2>2, <2>4
    <2>7. traders'[o].completed + traders'[o].failed = SumFunctionOnSet(recorded', WonBy(o)') - enrolled'[o].results
      BY <2>3, <2>4, <2>5
    <2> QED
      BY <2>6, <2>7 DEF BooksFit, Left
  <1>11. ASSUME NEW t \in Members, t # o PROVE BooksFit(t)'
    BY <1>1, <1>5, <1>6, <1>11, BookKept DEF MarketInv
  <1> QED
    BY <1>4, <1>7, <1>9, <1>10, <1>11 DEF MarketInv

\* What is changed of the jobs is none of the books.
LEMMA JobsChanged ==
  ASSUME MarketInv, JobsFit', UNCHANGED <<traders, enrolled, recorded>>,
         \A o \in Members : WonBy(o)' = WonBy(o)
  PROVE  MarketInv'
  <1>1. Members' = Members
    BY DEF Members
  <1>2. MembersFit'
    BY <1>1 DEF MarketInv, MembersFit, IsBook
  <1>3. \A o \in Members : BooksFit(o)'
    BY BookKept DEF MarketInv
  <1> QED
    BY <1>1, <1>2, <1>3 DEF MarketInv

LEMMA PublishKeeps ==
  ASSUME MarketInv, NEW j \in Names, PublishJob(j)
  PROVE  MarketInv'
  <1> DEFINE job == [status |-> "open", bids |-> <<>>, winner |-> "none"]
  <1>1. /\ j \notin Published /\ recorded[j] = 0 /\ UNCHANGED <<traders, recorded, enrolled>>
        /\ Published' = Published \cup {j}
        /\ market' = [k \in Published \cup {j} |-> IF k = j THEN job ELSE market[k]]
    BY DEF PublishJob, MarketInv, JobsFit, Published
  <1>2. IsFiniteSet(Published') /\ Published' \in SUBSET Names
    BY <1>1, FS_AddElement DEF MarketInv, JobsFit
  <1>3. IsJob(job) /\ job.status = "open" /\ job.winner = "none"
    BY DEF IsJob
  <1> HIDE DEF job
  <1>4. ASSUME NEW o \in Members PROVE WonBy(o)' = WonBy(o)
    <2>1. o # "none"
      BY NobodyAssumption DEF MarketInv, MembersFit
    <2> QED
      BY <1>1, <1>3, <2>1 DEF WonBy
  <1>5. ASSUME NEW k \in Published'
        PROVE  /\ IsJob(market'[k])
               /\ market'[k].status = "open" => recorded'[k] = 0 /\ market'[k].winner = "none"
    BY <1>1, <1>3 DEF MarketInv, JobsFit
  <1>6. \A k \in Published' : IsJob(market[k])' /\ (market[k].status = "open" => recorded[k] = 0 /\ market[k].winner = "none")'
    BY <1>5 DEF IsJob
  <1>7. market' = [k \in Published' |-> market'[k]]
    BY <1>1
  <1>8. JobsFit'
    BY <1>1, <1>2, <1>6, <1>7 DEF MarketInv, JobsFit
  <1> QED
    BY <1>1, <1>4, <1>8, JobsChanged

\* The bids of a job are nobody's books.
LEMMA BidToKeeps ==
  ASSUME MarketInv, NEW j \in Names, NEW o \in Traders, NEW price \in Prices, SubmitBidTo(j, o, price)
  PROVE  MarketInv'
  <1>1. PICK bids : /\ market' = [market EXCEPT ![j].bids = bids]
                    /\ j \in Published /\ UNCHANGED <<traders, recorded, enrolled>>
    BY DEF SubmitBidTo
  <1>2. Published' = Published /\ market' = [k \in Published |-> market'[k]]
    BY <1>1 DEF Published, MarketInv, JobsFit
  <1>3. ASSUME NEW k \in Published
        PROVE  IsJob(market'[k]) /\ market'[k].status = market[k].status /\ market'[k].winner = market[k].winner
    <2>1. market'[k] = IF k = j THEN [market[k] EXCEPT !.bids = bids] ELSE market[k]
      BY <1>1 DEF MarketInv, JobsFit
    <2>2. IsJob(market[k])
      BY DEF MarketInv, JobsFit
    <2> QED
      BY <2>1, <2>2 DEF IsJob
  <1>4. \A t \in Members : WonBy(t)' = WonBy(t)
    BY <1>2, <1>3 DEF WonBy
  <1>5. \A k \in Published' : IsJob(market[k])' /\ (market[k].status = "open" => recorded[k] = 0 /\ market[k].winner = "none")'
    BY <1>1, <1>2, <1>3 DEF MarketInv, JobsFit, IsJob
  <1>6. JobsFit'
    BY <1>1, <1>2, <1>5 DEF MarketInv, JobsFit
  <1> QED
    BY <1>1, <1>4, <1>6, JobsChanged

LEMMA AllocateKeeps ==
  ASSUME MarketInv, NEW j \in Names, AllocateTo(j)
  PROVE  MarketInv'
  <1>0. PICK w : w = BestBidder(market[j].bids)
    OBVIOUS
  <1>1. /\ market' = [market EXCEPT ![j].winner = w, ![j].status = "assigned"]
        /\ traders' = [o \in Members |->
                         IF o # w THEN traders[o]
                         ELSE [traders[o] EXCEPT !.capacity = IF @ > JobCost THEN @ - JobCost ELSE 0]]
        /\ j \in Published /\ market[j].status = "open" /\ UNCHANGED <<recorded, enrolled>>
    BY <1>0 DEF AllocateTo, Assign
  <1>2. Published' = Published /\ Members' = Members /\ market' = [k \in Published |-> market'[k]]
    BY <1>1 DEF Published, Members, MarketInv, JobsFit
  <1>3. ASSUME NEW k \in Published
        PROVE  /\ IsJob(market'[k]) /\ (k # j => market'[k] = market[k])
               /\ k = j => market'[k].status = "assigned" /\ market'[k].winner = w
    <2>1. market'[k] = IF k = j THEN [market[k] EXCEPT !.winner = w, !.status = "assigned"] ELSE market[k]
      BY <1>1 DEF MarketInv, JobsFit
    <2>2. IsJob(market[k])
      BY DEF MarketInv, JobsFit
    <2> QED
      BY <2>1, <2>2 DEF IsJob
  <1>4. market[j].winner = "none" /\ recorded[j] = 0
    BY <1>1 DEF MarketInv, JobsFit
  <1>5. \A t \in Members : t # "none"
    BY NobodyAssumption DEF MarketInv, MembersFit
  <1>6. ASSUME NEW t \in Members, t # w PROVE WonBy(t)' = WonBy(t)
    <2>1. ASSUME NEW k \in Published PROVE (market'[k].winner = t) <=> (market[k].winner = t)
      BY <1>3, <1>4, <1>5, <1>6
    <2>2. WonBy(t)' = {k \in Published : market'[k].winner = t}
      BY <1>2 DEF WonBy
    <2> QED
      BY <2>1, <2>2 DEF WonBy
  <1>7. ASSUME NEW t \in Members, t = w PROVE WonBy(t)' = WonBy(t) \cup {j} /\ j \notin WonBy(t)
    <2>1. ASSUME NEW k \in Published
          PROVE  (market'[k].winner = t) <=> (market[k].winner = t \/ k = j)
      BY <1>3, <1>7
    <2>2. market[j].winner # t /\ j \in Published
      BY <1>1, <1>4, <1>5
    <2>3. WonBy(t)' = {k \in Published : market'[k].winner = t}
      BY <1>2 DEF WonBy
    <2> QED
      BY <2>1, <2>2, <2>3 DEF WonBy
  <1>8. ASSUME NEW t \in Members
        PROVE  /\ IsBook(traders'[t]) /\ (t # w => traders'[t] = traders[t])
               /\ traders'[t].completed = traders[t].completed /\ traders'[t].failed = traders[t].failed
               /\ t = w => traders'[t].capacity = IF traders[t].capacity > 18 THEN traders[t].capacity - 18 ELSE 0
    <2> DEFINE cap == traders[t].capacity
               rest == IF cap > 18 THEN cap - 18 ELSE 0
    <2>1. IsBook(traders[t])
      BY DEF MarketInv, MembersFit
    <2>2. rest \in Nat
      BY <2>1 DEF IsBook
    <2> HIDE DEF rest
    <2>3. traders'[t] = IF t # w THEN traders[t] ELSE [traders[t] EXCEPT !.capacity = rest]
      BY <1>1, CostIs18 DEF rest
    <2>4. t = w => IsBook(traders'[t]) /\ traders'[t].capacity = rest
      BY <2>1, <2>2, <2>3 DEF IsBook
    <2>5. traders'[t].completed = traders[t].completed /\ traders'[t].failed = traders[t].failed
      BY <2>1, <2>3 DEF IsBook
    <2> QED
      BY <2>1, <2>3, <2>4, <2>5 DEF rest
  <1>9. JobsFit'
    <2>1. \A k \in Published' : IsJob(market[k])' /\ (market[k].status = "open" => recorded[k] = 0 /\ market[k].winner = "none")'
      BY <1>1, <1>2, <1>3 DEF MarketInv, JobsFit, IsJob
    <2> QED
      BY <1>1, <1>2, <2>1 DEF MarketInv, JobsFit
  <1>10. MembersFit'
    <2>1. \A t \in Members : enrolled[t].won \in SUBSET WonBy(t)'
      BY <1>6, <1>7 DEF MarketInv, MembersFit
    <2>2. traders' = [t \in Members' |-> traders'[t]] /\ Members' \in SUBSET Traders
      BY <1>1, <1>2 DEF MarketInv, MembersFit
    <2>3. \A t \in Members' : IsBook(traders[t])'
      BY <1>2, <1>8 DEF IsBook
    <2>4. DOMAIN enrolled' = Traders /\ \A t \in Members' : enrolled'[t].results \in Int
      BY <1>1, <1>2 DEF MarketInv, MembersFit
    <2> QED
      BY <1>1, <1>2, <2>1, <2>2, <2>3, <2>4 DEF MembersFit
  <1>11. ASSUME NEW t \in Members, t # w PROVE BooksFit(t)'
    BY <1>1, <1>6, <1>8, <1>11, BookKept DEF MarketInv
  <1>12. ASSUME NEW t \in Members, t = w PROVE BooksFit(t)'
    <2> DEFINE n == Cardinality(Late(t))
               cap == traders[t].capacity
               sum == SumFunctionOnSet(recorded, WonBy(t))
               more == SumFunctionOnSet(recorded, WonBy(t)')
    <2>1. enrolled[t].won \subseteq WonBy(t) /\ WonBy(t)' = WonBy(t) \cup {j} /\ j \notin WonBy(t)
      BY <1>7, <1>12 DEF MarketInv, MembersFit
    <2>2. Late(t)' = Late(t) \cup {j} /\ j \notin Late(t)
      BY <1>1, <2>1 DEF Late
    <2>3. n \in Nat /\ Cardinality(Late(t)') = n + 1
      BY <2>2, WonIsFinite, FS_AddElement
    <2>4. cap = Left(n) /\ cap \in Nat
      BY DEF MarketInv, BooksFit, MembersFit, IsBook
    <2>5. traders'[t].capacity = IF cap > 18 THEN cap - 18 ELSE 0
      BY <1>8, <1>12
    <2> HIDE DEF n, cap
    <2>6. traders'[t].capacity = Left(n + 1)
      BY <2>3, <2>4, <2>5, CostIs18 DEF Left
    <2>7. more = sum + recorded[j]
      <3>1. \A k \in WonBy(t) \cup {j} : recorded[k] \in Int
        BY <1>4, WonIsFinite
      <3> DEFINE S == WonBy(t)
      <3>2. IsFiniteSet(S) /\ WonBy(t)' = S \cup {j} /\ j \notin S
        BY <2>1, WonIsFinite
      <3> HIDE DEF S
      <3>3. SumFunctionOnSet(recorded, S \cup {j}) = SumFunctionOnSet(recorded, S) + recorded[j]
        BY <3>1, <3>2, SumAdded DEF S
      <3> QED
        BY <3>2, <3>3 DEF S
    <2>8. sum \in Int
      BY WonIsFinite
    <2> HIDE DEF sum, more
    <2>9. more = sum
      BY <1>4, <2>7, <2>8
    <2>10. traders'[t].completed + traders'[t].failed = sum - enrolled[t].results
      BY <1>8 DEF MarketInv, BooksFit, sum
    <2>11. traders'[t].completed + traders'[t].failed = SumFunctionOnSet(recorded', WonBy(t)') - enrolled'[t].results
      BY <1>1, <2>9, <2>10 DEF more
    <2>12. traders'[t].capacity = Left(Cardinality(Late(t)'))
      BY <2>3, <2>6
    <2> QED
      BY <2>11, <2>12 DEF BooksFit, Left
  <1> QED
    BY <1>2, <1>9, <1>10, <1>11, <1>12 DEF MarketInv

LEMMA RecordResultKeeps ==
  ASSUME MarketInv, NEW j \in Names, NEW success \in BOOLEAN, NEW gain, RecordResult(j, success, gain)
  PROVE  MarketInv'
  <1> DEFINE status == IF success THEN "completed" ELSE "failed"
             good == IF success THEN 1 ELSE 0
             bad == IF success THEN 0 ELSE 1
  <1>0. PICK w : w = market[j].winner
    OBVIOUS
  <1>1. /\ market' = [market EXCEPT ![j].status = status]
        /\ recorded' = [recorded EXCEPT ![j] = recorded[j] + 1]
        /\ traders' = [o \in Members |->
                   IF o # w THEN traders[o]
                   ELSE [traders[o] EXCEPT !.reputation = Moved(@, success, gain),
                                           !.completed = @ + good, !.failed = @ + bad]]
        /\ j \in Published /\ enrolled' = enrolled
    BY <1>0 DEF RecordResult
  <1>2. good \in Nat /\ bad \in Nat /\ good + bad = 1 /\ status # "open"
    OBVIOUS
  <1> HIDE DEF status, good, bad
  <1>3. Published' = Published /\ Members' = Members /\ market' = [k \in Published |-> market'[k]]
    BY <1>1 DEF Published, Members, MarketInv, JobsFit
  <1>4. ASSUME NEW k \in Published
        PROVE  /\ IsJob(market'[k]) /\ (k # j => market'[k] = market[k])
               /\ market'[k].winner = market[k].winner /\ (k = j => market'[k].status # "open")
    <2>1. market'[k] = IF k = j THEN [market[k] EXCEPT !.status = status] ELSE market[k]
      BY <1>1 DEF MarketInv, JobsFit
    <2>2. IsJob(market[k])
      BY DEF MarketInv, JobsFit
    <2> QED
      BY <1>2, <2>1, <2>2 DEF IsJob
  <1>5. \A t : WonBy(t)' = WonBy(t)
    BY <1>3, <1>4 DEF WonBy
  <1>6. recorded' \in [Names -> Nat] /\ recorded'[j] = recorded[j] + 1 /\ \A k \in Names \ {j} : recorded'[k] = recorded[k]
    <2>1. recorded \in [Names -> Nat] /\ recorded[j] \in Nat /\ recorded[j] + 1 \in Nat
      BY DEF MarketInv, JobsFit
    <2> DEFINE more == recorded[j] + 1
    <2> HIDE DEF more
    <2>2. recorded' = [recorded EXCEPT ![j] = more] /\ more \in Nat
      BY <1>1, <2>1 DEF more
    <2>3. recorded' \in [Names -> Nat] /\ recorded'[j] = more /\ \A k \in Names \ {j} : recorded'[k] = recorded[k]
      BY <2>1, <2>2
    <2> QED
      BY <2>3 DEF more
  <1>7. ASSUME NEW t \in Members
        PROVE  /\ IsBook(traders'[t]) /\ traders'[t].capacity = traders[t].capacity
               /\ t # w => traders'[t] = traders[t]
               /\ t = w => traders'[t].completed + traders'[t].failed = traders[t].completed + traders[t].failed + 1
    <2> DEFINE c == traders[t].completed
               f == traders[t].failed
               moved == Moved(traders[t].reputation, success, gain)
               plus == c + good
               minus == f + bad
    <2>1. IsBook(traders[t])
      BY DEF MarketInv, MembersFit
    <2>2. c \in Nat /\ f \in Nat /\ plus \in Nat /\ minus \in Nat /\ plus + minus = c + f + 1
      BY <1>2, <2>1 DEF IsBook
    <2> HIDE DEF plus, minus, moved
    <2>3. traders'[t] = IF t # w THEN traders[t]
                        ELSE [traders[t] EXCEPT !.reputation = moved, !.completed = plus, !.failed = minus]
      BY <1>1 DEF plus, minus, moved
    <2>4. t = w => /\ IsBook(traders'[t]) /\ traders'[t].capacity = traders[t].capacity
                   /\ traders'[t].completed = plus /\ traders'[t].failed = minus
      BY <2>1, <2>2, <2>3 DEF IsBook
    <2> QED
      BY <2>1, <2>2, <2>3, <2>4
  <1>8. ASSUME NEW t \in Members
        PROVE  traders'[t].completed + traders'[t].failed = SumFunctionOnSet(recorded', WonBy(t)) - enrolled[t].results
    <2>1. traders[t].completed + traders[t].failed = SumFunctionOnSet(recorded, WonBy(t)) - enrolled[t].results
      BY DEF MarketInv, BooksFit
    <2>2. /\ IsFiniteSet(WonBy(t)) /\ WonBy(t) \subseteq Names
          /\ \A k \in WonBy(t) : recorded[k] \in Int /\ recorded'[k] \in Int
          /\ SumFunctionOnSet(recorded, WonBy(t)) \in Int /\ enrolled[t].results \in Int
      BY <1>6, WonIsFinite DEF MarketInv, MembersFit
    <2>3. j \in WonBy(t) <=> t = w
      BY <1>0, <1>1 DEF WonBy
    <2>4. CASE t = w
      <3>1. \A k \in WonBy(t) \ {j} : recorded'[k] = recorded[k]
        BY <1>6, <2>2
      <3>2. SumFunctionOnSet(recorded', WonBy(t)) = SumFunctionOnSet(recorded, WonBy(t)) - recorded[j] + recorded'[j]
        <4> DEFINE S == WonBy(t)
        <4> HIDE DEF S
        <4>1. IsFiniteSet(S) /\ j \in S /\ \A k \in S : recorded[k] \in Int /\ recorded'[k] \in Int
          BY <2>2, <2>3, <2>4 DEF S
        <4>2. \A k \in S \ {j} : recorded'[k] = recorded[k]
          BY <3>1 DEF S
        <4> DEFINE was == recorded
                   is == recorded'
        <4> HIDE DEF was, is
        <4>4. /\ IsFiniteSet(S) /\ j \in S /\ \A k \in S : was[k] \in Int /\ is[k] \in Int
              /\ \A k \in S \ {j} : is[k] = was[k]
          BY <4>1, <4>2 DEF was, is
        <4>5. SumFunctionOnSet(is, S) = SumFunctionOnSet(was, S) - was[j] + is[j]
          BY <4>4, SumChangedAt
        <4>3. SumFunctionOnSet(recorded', S) = SumFunctionOnSet(recorded, S) - recorded[j] + recorded'[j]
          BY <4>5 DEF was, is
        <4> QED
          BY <4>3 DEF S
      <3>3. recorded[j] \in Nat /\ recorded'[j] = recorded[j] + 1
        BY <1>6 DEF MarketInv, JobsFit
      <3> DEFINE sum == SumFunctionOnSet(recorded, WonBy(t))
                 held == enrolled[t].results
                 old == traders[t].completed + traders[t].failed
      <3>4. sum \in Int /\ held \in Int /\ old = sum - held
        BY <2>1, <2>2
      <3>5. SumFunctionOnSet(recorded', WonBy(t)) = sum - recorded[j] + recorded'[j]
        BY <3>2
      <3>6. traders'[t].completed + traders'[t].failed = old + 1
        BY <1>7, <2>4
      <3> HIDE DEF sum, held, old
      <3>7. SumFunctionOnSet(recorded', WonBy(t)) = sum + 1
        BY <3>3, <3>4, <3>5
      <3>8. old + 1 = sum + 1 - held
        BY <3>4
      <3> DEFINE fresh == SumFunctionOnSet(recorded', WonBy(t))
      <3>9. fresh = sum + 1
        BY <3>7
      <3> HIDE DEF fresh
      <3>10. old + 1 = fresh - held
        BY <3>4, <3>8, <3>9
      <3>11. traders'[t].completed + traders'[t].failed = fresh - held
        BY <3>6, <3>10, Zenon
      <3> QED
        BY <3>11, Zenon DEF held, fresh
    <2>5. CASE t # w
      <3>1. \A k \in WonBy(t) : recorded'[k] = recorded[k]
        BY <1>6, <2>2, <2>3, <2>5
      <3>2. SumFunctionOnSet(recorded', WonBy(t)) = SumFunctionOnSet(recorded, WonBy(t))
        <4> DEFINE S == WonBy(t)
                   was == recorded
                   is == recorded'
        <4>1. IsFiniteSet(S) /\ \A k \in S : is[k] = was[k]
          BY <2>2, <3>1
        <4> HIDE DEF S, was, is
        <4>2. SumFunctionOnSet(is, S) = SumFunctionOnSet(was, S)
          BY <4>1, SumOfSame
        <4> QED
          BY <4>2 DEF S, was, is
      <3>3. traders'[t] = traders[t]
        BY <1>7, <2>5
      <3>4. SumFunctionOnSet(recorded', WonBy(t)) - enrolled[t].results
              = SumFunctionOnSet(recorded, WonBy(t)) - enrolled[t].results
        BY <3>2, Zenon
      <3> QED
        BY <2>1, <3>3, <3>4, Zenon
    <2> QED
      BY <2>4, <2>5
  <1>9. JobsFit'
    <2>1. \A k \in Published' : IsJob(market[k])' /\ (market[k].status = "open" => recorded[k] = 0 /\ market[k].winner = "none")'
      BY <1>3, <1>4, <1>6 DEF MarketInv, JobsFit, IsJob
    <2>2. \A k \in Names \ Published' : recorded'[k] = 0
      BY <1>1, <1>3, <1>6 DEF MarketInv, JobsFit
    <2> QED
      BY <1>3, <1>6, <2>1, <2>2 DEF MarketInv, JobsFit
  <1>10. MembersFit'
    <2>1. traders' = [t \in Members' |-> traders'[t]]
      BY <1>1, <1>3
    <2>2. \A t \in Members' : IsBook(traders[t])'
      BY <1>3, <1>7 DEF IsBook
    <2> QED
      BY <1>1, <1>3, <1>5, <2>1, <2>2 DEF MarketInv, MembersFit
  <1>11. ASSUME NEW t \in Members PROVE BooksFit(t)'
    <2>1. traders'[t].capacity = Left(Cardinality(Late(t)')) /\ enrolled'[t] = enrolled[t]
      BY <1>1, <1>5, <1>7 DEF MarketInv, BooksFit, Late
    <2> QED
      BY <1>5, <1>8, <2>1 DEF BooksFit, Left
  <1> QED
    BY <1>3, <1>9, <1>10, <1>11 DEF MarketInv

\* For any organisations, registered or not and registered again at any time, any jobs,
\* prices and order of the calls: a member has paid exactly once for each job it won since
\* its registration, and is credited with the results of its own jobs only (task_market.py).
THEOREM WinnerAlwaysPaysOnce == MarketSpec => []WinnerPaysOnce
  <1>1. MarketInv /\ [MarketNext]_tvars => MarketInv'
    <2>1. ASSUME MarketInv, UNCHANGED tvars PROVE MarketInv'
      <3>1. Published' = Published /\ Members' = Members /\ UNCHANGED <<market, traders, recorded, enrolled>>
        BY <2>1 DEF tvars, Published, Members
      <3>2. \A o : WonBy(o)' = WonBy(o)
        BY <3>1 DEF WonBy
      <3>3. JobsFit' /\ MembersFit'
        BY <2>1, <3>1, <3>2 DEF MarketInv, JobsFit, MembersFit, IsJob, IsBook
      <3>4. ASSUME NEW o \in Members PROVE BooksFit(o)'
        BY <2>1, <3>1, <3>2, BookKept DEF MarketInv
      <3> QED
        BY <3>1, <3>3, <3>4 DEF MarketInv
    <2> QED
      BY <2>1, RegisterKeeps, PublishKeeps, BidToKeeps, AllocateKeeps, RecordResultKeeps DEF MarketNext
  <1>2. MarketInv => WinnerPaysOnce
    BY DEF MarketInv, BooksFit, WinnerPaysOnce, Left, Late
  <1> QED
    BY <1>1, <1>2, MarketAtFirst, PTL DEF MarketSpec

-----------------------------------------------------------------------------
(***************************************************************************)
(* The civilization                                                        *)
(***************************************************************************)
\* A finite set written down as a list has each of its elements once.
LEMMA SetAsList ==
  ASSUME NEW S, IsFiniteSet(S)
  PROVE  /\ SetToSeq(S) \in Seq(S) /\ Len(SetToSeq(S)) = Cardinality(S)
         /\ ToSet(SetToSeq(S)) = S /\ Cardinality(S) \in Nat /\ IsInjective(SetToSeq(S))
  <1> DEFINE n == Cardinality(S)
             g == CHOOSE f \in [1 .. n -> S] : IsInjective(f)
  <1>1. n \in Nat /\ ExistsBijection(1 .. n, S)
    BY FS_CardinalityType
  <1>2. \E f \in [1 .. n -> S] : IsInjective(f)
    BY <1>1 DEF ExistsBijection, Bijection, Injection
  <1>3. SetToSeq(S) = g
    BY DEF SetToSeq
  <1> HIDE DEF n
  <1>4. g \in [1 .. n -> S] /\ IsInjective(g)
    BY <1>2, Zenon
  <1> HIDE DEF g
  <1>5. IsFiniteSet(1 .. n) /\ Cardinality(1 .. n) = n
    BY <1>1, FS_Interval
  <1>6. g \in Injection(1 .. n, S)
    BY <1>4 DEF Injection
  <1>7. g \in Surjection(1 .. n, S)
    BY <1>5, <1>6, FS_Injection DEF n
  <1>8. \A x \in S : \E i \in 1 .. n : g[i] = x
    BY <1>7 DEF Surjection
  <1>9. g \in Seq(S) /\ Len(g) = n /\ DOMAIN g = 1 .. n
    BY <1>1, <1>4
  <1>10. ToSet(g) = S
    BY <1>4, <1>8, <1>9 DEF ToSet
  <1> QED
    BY <1>1, <1>3, <1>4, <1>9, <1>10 DEF n

\* A list without repetitions is not longer than the set it is made of.
LEMMA NoRepetition ==
  ASSUME NEW S, IsFiniteSet(S), NEW l \in Seq(S), IsInjective(l)
  PROVE  Len(l) <= Cardinality(S)
  <1> DEFINE n == Len(l)
  <1>1. n \in Nat /\ l \in [1 .. n -> S]
    OBVIOUS
  <1> HIDE DEF n
  <1>2. l \in Injection(1 .. n, S)
    BY <1>1 DEF Injection
  <1>3. IsFiniteSet(1 .. n) /\ Cardinality(1 .. n) = n
    BY <1>1, FS_Interval
  <1>4. Cardinality(1 .. n) <= Cardinality(S)
    BY <1>2, <1>3, FS_Injection
  <1> QED
    BY <1>3, <1>4 DEF n

\* Two lists without repetitions that share nothing have none together.
LEMMA NoneShared ==
  ASSUME NEW S, NEW a \in Seq(S), NEW b \in Seq(S), IsInjective(a), IsInjective(b),
         ToSet(a) \cap ToSet(b) = {}
  PROVE  IsInjective(a \o b)
  <1> DEFINE m == Len(a)
             n == Len(b)
             c == a \o b
  <1>1. /\ DOMAIN c = 1 .. m + n /\ DOMAIN a = 1 .. m /\ DOMAIN b = 1 .. n /\ m \in Nat /\ n \in Nat
        /\ \A i \in 1 .. m : c[i] = a[i]
        /\ \A i \in 1 .. n : c[m + i] = b[i]
    OBVIOUS
  <1>2. \A i \in 1 .. m, j \in 1 .. n : a[i] # b[j]
    BY <1>1 DEF ToSet
  <1> HIDE DEF c, m, n
  <1>3. \A i \in DOMAIN c : i \in 1 .. m \/ (i - m \in 1 .. n /\ c[i] = b[i - m])
    <2> TAKE i \in DOMAIN c
    <2>1. i \in 1 .. m \/ (i - m \in 1 .. n /\ m + (i - m) = i)
      BY <1>1
    <2> QED
      BY <1>1, <2>1
  <1>4. ASSUME NEW i \in DOMAIN c, NEW j \in DOMAIN c, c[i] = c[j] PROVE i = j
    <2>1. CASE i \in 1 .. m /\ j \in 1 .. m
      BY <1>1, <1>4, <2>1 DEF IsInjective
    <2>2. CASE i \in 1 .. m /\ j - m \in 1 .. n /\ c[j] = b[j - m]
      BY <1>1, <1>2, <1>4, <2>2
    <2>3. CASE j \in 1 .. m /\ i - m \in 1 .. n /\ c[i] = b[i - m]
      BY <1>1, <1>2, <1>4, <2>3
    <2>4. CASE i - m \in 1 .. n /\ c[i] = b[i - m] /\ j - m \in 1 .. n /\ c[j] = b[j - m]
      <3>1. i - m = j - m
        BY <1>1, <1>4, <2>4 DEF IsInjective
      <3> QED
        BY <1>1, <3>1
    <2> QED
      BY <1>3, <2>1, <2>2, <2>3, <2>4
  <1> QED
    BY <1>4 DEF IsInjective, c

\* What two lists hold together.
LEMMA ToSetOfBoth ==
  ASSUME NEW S, NEW a \in Seq(S), NEW b \in Seq(S)
  PROVE  a \o b \in Seq(S) /\ Len(a \o b) = Len(a) + Len(b) /\ ToSet(a \o b) = ToSet(a) \cup ToSet(b)
  <1> DEFINE m == Len(a)
             n == Len(b)
             c == a \o b
  <1>1. /\ c \in Seq(S) /\ Len(c) = m + n /\ DOMAIN c = 1 .. m + n /\ DOMAIN a = 1 .. m /\ DOMAIN b = 1 .. n
        /\ m \in Nat /\ n \in Nat
    OBVIOUS
  <1>2. \A i \in 1 .. m : c[i] = a[i]
    OBVIOUS
  <1>3. \A i \in 1 .. n : c[m + i] = b[i]
    OBVIOUS
  <1> HIDE DEF c, m, n
  <1>4. \A i \in DOMAIN c : i \in 1 .. m \/ (i - m \in 1 .. n /\ c[i] = b[i - m])
    <2> TAKE i \in DOMAIN c
    <2>1. i \in 1 .. m \/ (i - m \in 1 .. n /\ m + (i - m) = i)
      BY <1>1
    <2> QED
      BY <1>3, <2>1
  <1>5. \A i \in 1 .. m : i \in DOMAIN c
    BY <1>1
  <1>6. \A i \in 1 .. n : m + i \in DOMAIN c
    BY <1>1
  <1>7. \A x \in ToSet(c) : x \in ToSet(a) \/ x \in ToSet(b)
    <2> SUFFICES ASSUME NEW i \in DOMAIN c PROVE c[i] \in ToSet(a) \/ c[i] \in ToSet(b)
      BY DEF ToSet
    <2>1. CASE i \in 1 .. m
      BY <1>1, <1>2, <2>1 DEF ToSet
    <2>2. CASE i - m \in 1 .. n /\ c[i] = b[i - m]
      BY <1>1, <2>2 DEF ToSet
    <2> QED
      BY <1>4, <2>1, <2>2
  <1>8. \A x \in ToSet(a) : x \in ToSet(c)
    <2> SUFFICES ASSUME NEW i \in 1 .. m PROVE a[i] \in ToSet(c)
      BY <1>1 DEF ToSet
    <2>1. i \in DOMAIN c /\ c[i] = a[i]
      BY <1>2, <1>5
    <2> QED
      BY <2>1 DEF ToSet
  <1>9. \A x \in ToSet(b) : x \in ToSet(c)
    <2> SUFFICES ASSUME NEW i \in 1 .. n PROVE b[i] \in ToSet(c)
      BY <1>1 DEF ToSet
    <2>1. m + i \in DOMAIN c /\ c[m + i] = b[i]
      BY <1>3, <1>6
    <2> QED
      BY <2>1 DEF ToSet
  <1>10. ToSet(c) = ToSet(a) \cup ToSet(b)
    BY <1>7, <1>8, <1>9
  <1> QED
    BY <1>1, <1>10 DEF c, m, n

EconNames == {<<"econ", e>> : e \in Economy}
SplitNames == {<<"split", e>> : e \in Economy}

\* The active economies are those that were there or were created, and splits, which are
\* named after the economies of the start; with eight at the start there are no splits.
MostBorn == IF NumEconomies > IdealEconomies THEN NumEconomies ELSE IdealEconomies
Within(base, splits) ==
  /\ active = base \cup splits /\ IsFiniteSet(base) /\ Cardinality(base) <= MostBorn
  /\ EconNames \subseteq base /\ splits \subseteq SplitNames
  /\ NumEconomies >= MaxEconomies => splits = {}

PoolInv ==
  /\ at9 \in {"observe", "council", "allocate", "work", "evolve"}
  /\ usage \in [Economy -> Int] /\ supply \in Int /\ share \in [Economy -> Int]
  /\ \E k \in 0 .. NumEconomies : served = 1 .. k
  /\ at9 = "allocate" => served # Economy
  /\ at9 \in {"work", "evolve"} => SumFunctionOnSet(share, Economy) <= supply

AllianceInv ==
  Cardinality(Pairs) <= HistoryLimit =>
    allied \in Seq(Pairs) /\ IsInjective(allied) /\ remembered = allied

CapInv ==
  /\ data \subseteq EconNames
  /\ \E base, splits \in SUBSET active : Within(base, splits)

CivInv == PoolInv /\ AllianceInv /\ CapInv

LEMMA EconomyIsFinite ==
  /\ NumEconomies \in Nat /\ NumEconomies >= 1 /\ Economy = 1 .. NumEconomies
  /\ IsFiniteSet(Economy) /\ Cardinality(Economy) = NumEconomies
  <1> DEFINE n == NumEconomies
  <1>1. n \in Nat /\ n >= 1
    BY CivilizationAssumption
  <1>2. Economy = 1 .. n
    BY DEF Economy
  <1> HIDE DEF n
  <1>3. IsFiniteSet(1 .. n) /\ Cardinality(1 .. n) = n
    <2>1. 1 \in Int /\ n \in Int /\ 1 <= n
      BY <1>1
    <2>2. IsFiniteSet(1 .. n) /\ Cardinality(1 .. n) = n - 1 + 1
      BY <2>1, FS_Interval
    <2> QED
      BY <2>1, <2>2
  <1>4. IsFiniteSet(Economy) /\ Cardinality(Economy) = n
    BY <1>2, <1>3, Zenon
  <1> QED
    BY <1>1, <1>2, <1>4 DEF n

LEMMA PairsAreFinite == IsFiniteSet(Pairs)
  <1>1. IsFiniteSet(SUBSET Economy) /\ Pairs \in SUBSET (SUBSET Economy)
    BY EconomyIsFinite, FS_SUBSET DEF Pairs, kSubset
  <1> QED
    BY <1>1, FS_Subset

\* There are as many names of a kind as economies.
LEMMA NamesAreFew ==
  ASSUME NEW kind
  PROVE  /\ IsFiniteSet({<<kind, e>> : e \in Economy})
         /\ Cardinality({<<kind, e>> : e \in Economy}) = NumEconomies
  <1> DEFINE T == {<<kind, e>> : e \in Economy}
             f == [e \in Economy |-> <<kind, e>>]
  <1>1. f \in Bijection(Economy, T)
    <2>1. f \in [Economy -> T]
      OBVIOUS
    <2>2. \A t \in T : \E e \in Economy : f[e] = t
      OBVIOUS
    <2>3. \A d, e \in Economy : f[d] = f[e] => d = e
      OBVIOUS
    <2> HIDE DEF f, T
    <2>4. f \in Injection(Economy, T) /\ f \in Surjection(Economy, T)
      BY <2>1, <2>2, <2>3 DEF Injection, Surjection, IsInjective
    <2> QED
      BY <2>4 DEF Bijection
  <1> HIDE DEF f, T
  <1>2. ExistsBijection(Economy, T)
    BY <1>1 DEF ExistsBijection
  <1>3. IsFiniteSet(T) /\ Cardinality(T) = Cardinality(Economy)
    BY <1>2, EconomyIsFinite, FS_Bijection
  <1> QED
    BY <1>3, EconomyIsFinite DEF T

LEMMA CivAtFirst == CivInit => CivInv
  <1> SUFFICES ASSUME CivInit PROVE CivInv
    OBVIOUS
  <1>1. PoolInv
    <2>1. served = 1 .. 0 /\ 0 \in 0 .. NumEconomies
      BY EconomyIsFinite DEF CivInit
    <2> QED
      BY <2>1 DEF CivInit, PoolInv
  <1>2. AllianceInv
    BY DEF CivInit, AllianceInv, IsInjective
  <1>3. IsFiniteSet(EconNames) /\ Cardinality(EconNames) <= MostBorn
    <2>1. IsFiniteSet(EconNames) /\ Cardinality(EconNames) = NumEconomies
      BY NamesAreFew DEF EconNames
    <2>2. NumEconomies <= MostBorn
      BY EconomyIsFinite DEF MostBorn, IdealEconomies
    <2> QED
      BY <2>1, <2>2
  <1>4. CapInv
    <2>1. active = EconNames /\ data = {}
      BY DEF CivInit, EconNames
    <2>2. Within(EconNames, {})
      BY <1>3, <2>1 DEF Within
    <2>3. EconNames \in SUBSET active /\ {} \in SUBSET active
      BY <2>1
    <2> HIDE DEF EconNames
    <2>4. \E base, splits \in SUBSET active : Within(base, splits)
      BY <2>2, <2>3
    <2> QED
      BY <2>1, <2>4 DEF CapInv
  <1> QED
    BY <1>1, <1>2, <1>4 DEF CivInv

LEMMA ObserveKeeps ==
  ASSUME CivInv, Observe9
  PROVE  CivInv'
  <1>1. SumFunctionOnSet(usage, Economy) \in Int
    BY EconomyIsFinite, SumIsInt DEF CivInv, PoolInv
  <1>2. supply' \in Int
    <2> DEFINE sum == SumFunctionOnSet(usage, Economy)
               n == NumEconomies
    <2> HIDE DEF sum
    <2>1. supply' = Unit - sum \div n /\ sum \in Int /\ n \in Nat /\ n >= 1
      BY <1>1, EconomyIsFinite DEF Observe9, sum
    <2> HIDE DEF n
    <2>2. sum \div n \in Int
      BY <2>1
    <2> QED
      BY <2>1, <2>2 DEF Unit
  <1>3. PoolInv'
    BY <1>2 DEF CivInv, PoolInv, Observe9
  <1> QED
    BY <1>3 DEF CivInv, AllianceInv, CapInv, Within, Observe9

\* Nothing is left of a list of no more than the council keeps when all of it is found.
LEMMA NothingTrimmed ==
  ASSUME Cardinality(Pairs) <= HistoryLimit, NEW l \in Seq(Pairs), IsInjective(l)
  PROVE  Trimmed(l) = l
  <1>1. Len(l) <= Cardinality(Pairs) /\ Cardinality(Pairs) \in Nat /\ Len(l) \in Nat /\ HistoryLimit \in Nat
    BY PairsAreFinite, NoRepetition, FS_CardinalityType, CivilizationAssumption
  <1>2. Len(l) <= HistoryLimit
    BY <1>1
  <1> QED
    BY <1>2 DEF Trimmed

LEMMA AlliancesKept ==
  ASSUME CivInv, Council, Cardinality(Pairs) <= HistoryLimit
  PROVE  allied' \in Seq(Pairs) /\ IsInjective(allied') /\ remembered' = allied'
  <1>1. allied \in Seq(Pairs) /\ IsInjective(allied) /\ remembered = allied /\ Trimmed(allied) = allied
    BY NothingTrimmed DEF CivInv, AllianceInv
  <1> DEFINE new == {p \in Pairs : Keen(p) /\ p \notin ToSet(allied)}
             list == SetToSeq(new)
             both == allied \o list
  <1>2. Found(Trimmed(allied)) = list
    BY <1>1 DEF Found
  <1>3. IsFiniteSet(new) /\ new \in SUBSET Pairs /\ new \cap ToSet(allied) = {}
    BY PairsAreFinite, FS_Subset
  <1>4. \A p \in Pairs : Keen(p) => p \in ToSet(allied) \/ p \in new
    OBVIOUS
  <1> HIDE DEF new
  <1>5. list \in Seq(new) /\ ToSet(list) = new /\ IsInjective(list)
    BY <1>3, SetAsList
  <1> HIDE DEF list
  <1>6. list \in Seq(Pairs) /\ allied \in Seq(Pairs)
    BY <1>1, <1>3, <1>5
  <1>7. both \in Seq(Pairs) /\ ToSet(both) = ToSet(allied) \cup new
    BY <1>5, <1>6, ToSetOfBoth
  <1>8. ToSet(allied) \cap ToSet(list) = {}
    BY <1>3, <1>5
  <1>9. IsInjective(both)
    BY <1>1, <1>5, <1>6, <1>8, NoneShared
  <1> HIDE DEF both
  <1>10. Trimmed(both) = both
    BY <1>7, <1>9, NothingTrimmed
  <1>11. {p \in Pairs : Keen(p) /\ p \notin ToSet(both)} = {}
    BY <1>4, <1>7
  <1>12. Found(both) = <<>>
    <2>1. Found(both) = SetToSeq({})
      BY <1>11, Zenon DEF Found
    <2>2. SetToSeq({}) \in Seq({}) /\ Len(SetToSeq({})) = 0
      BY FS_EmptySet, SetAsList
    <2> QED
      BY <2>1, <2>2
  <1>13. both \o Found(both) = both
    BY <1>7, <1>12
  <1>14. remembered' = both
    BY <1>1, <1>2 DEF Council, both
  <1>15. allied' = both
    <2>1. allied' = IF Collaborating THEN Trimmed(Trimmed(allied) \o list) \o Found(Trimmed(Trimmed(allied) \o list))
                    ELSE Trimmed(Trimmed(allied) \o list)
      BY <1>2 DEF Council
    <2>2. Trimmed(Trimmed(allied) \o list) = both
      BY <1>1, <1>10 DEF both
    <2> QED
      BY <1>13, <2>1, <2>2
  <1> QED
    BY <1>7, <1>9, <1>14, <1>15

LEMMA CouncilKeeps ==
  ASSUME CivInv, Council
  PROVE  CivInv'
  <1>1. AllianceInv'
    BY AlliancesKept DEF AllianceInv
  <1>2. served' = {} /\ at9' = "allocate" /\ UNCHANGED <<usage, supply, share, active, data>>
    BY DEF Council
  <1>3. PoolInv'
    <2>1. served' = 1 .. 0 /\ 0 \in 0 .. NumEconomies /\ served' # Economy
      BY <1>2, EconomyIsFinite
    <2> QED
      BY <1>2, <2>1 DEF CivInv, PoolInv
  <1>4. CapInv'
    BY <1>2 DEF CivInv, CapInv, Within
  <1> QED
    BY <1>1, <1>3, <1>4 DEF CivInv

LEMMA AllocateShareKeeps ==
  ASSUME CivInv, Allocate9
  PROVE  CivInv'
  <1> DEFINE N == NumEconomies
             sum == SumFunctionOnSet(share, Economy)
  <1>1. PICK k \in 0 .. N : served = 1 .. k
    BY DEF CivInv, PoolInv
  <1>2. N \in Nat /\ N >= 1 /\ Economy = 1 .. N /\ k \in Nat /\ k <= N
    BY <1>1, EconomyIsFinite
  <1>3. Cardinality(served) = k /\ k # N /\ k + 1 \in Economy
    <2>1. Cardinality(served) = k
      BY <1>1, <1>2, FS_Interval
    <2>2. k # N
      BY <1>1, <1>2 DEF Allocate9
    <2> QED
      BY <1>1, <1>2, <2>1, <2>2
  <1> DEFINE e == k + 1
             left == supply - sum
             grant == Granted(usage[e] \div 2, left)
  <1>4. sum \in Int /\ share \in [Economy -> Int] /\ usage \in [Economy -> Int] /\ supply \in Int
    BY EconomyIsFinite, SumIsInt DEF CivInv, PoolInv
  <1>5. grant \in Int /\ grant <= left
    <2>1. usage[e] \div 2 \in Int
      BY <1>3, <1>4
    <2> DEFINE half == usage[e] \div 2
    <2> HIDE DEF sum, half
    <2>2. left \in Int /\ half \in Int
      BY <1>4, <2>1 DEF half
    <2> HIDE DEF left
    <2>3. Granted(half, left) \in Int /\ Granted(half, left) <= left
      BY <2>2 DEF Granted
    <2> QED
      BY <2>3 DEF half
  <1>6. /\ share' = [share EXCEPT ![e] = share[e] + grant] /\ served' = served \cup {e}
        /\ at9' = IF served' = Economy THEN "work" ELSE "allocate"
        /\ UNCHANGED <<usage, supply, allied, remembered, active, data>>
    BY <1>3 DEF Allocate9
  <1> HIDE DEF sum, grant, left, e
  <1>7. e \in Economy /\ share' \in [Economy -> Int] /\ share'[e] = share[e] + grant
        /\ \A x \in Economy \ {e} : share'[x] = share[x]
    <2>1. e \in Economy /\ share[e] \in Int
      BY <1>3, <1>4 DEF e
    <2>2. share[e] + grant \in Int
      BY <1>5, <2>1
    <2> DEFINE more == share[e] + grant
               S == Economy
    <2> HIDE DEF more, S
    <2>3. share \in [S -> Int] /\ e \in S /\ more \in Int /\ share' = [share EXCEPT ![e] = more]
      BY <1>4, <1>6, <2>1, <2>2 DEF more, S
    <2>4. share' \in [S -> Int] /\ share'[e] = more /\ \A x \in S \ {e} : share'[x] = share[x]
      BY <2>3
    <2> QED
      BY <2>1, <2>4 DEF more, S
  <1>8. SumFunctionOnSet(share', Economy) = sum - share[e] + share'[e]
    <2>1. \A x \in Economy : share[x] \in Int /\ share'[x] \in Int
      BY <1>4, <1>7
    <2> DEFINE was == share
               is == share'
               S == Economy
    <2>2. /\ IsFiniteSet(S) /\ e \in S /\ \A x \in S : was[x] \in Int /\ is[x] \in Int
          /\ \A x \in S \ {e} : is[x] = was[x]
      BY <1>7, <2>1, EconomyIsFinite
    <2> HIDE DEF was, is, S
    <2>3. SumFunctionOnSet(is, S) = SumFunctionOnSet(was, S) - was[e] + is[e]
      BY <2>2, SumChangedAt
    <2>4. SumFunctionOnSet(share', Economy) = SumFunctionOnSet(share, Economy) - share[e] + share'[e]
      BY <2>3 DEF was, is, S
    <2> QED
      BY <2>4 DEF sum
  <1>9. SumFunctionOnSet(share', Economy) <= supply
    <2> DEFINE after == SumFunctionOnSet(share', Economy)
    <2> HIDE DEF after
    <2>1. after = sum - share[e] + share'[e] /\ share[e] \in Int /\ left = supply - sum
      BY <1>4, <1>7, <1>8 DEF after, left
    <2>2. after <= supply
      BY <1>4, <1>5, <1>7, <2>1
    <2> QED
      BY <2>2 DEF after
  <1>10. served' = 1 .. (k + 1) /\ k + 1 \in 0 .. N
    <2>1. k + 1 \in 0 .. N /\ (1 .. k) \cup {k + 1} = 1 .. (k + 1)
      BY <1>1, <1>2, <1>3
    <2> QED
      BY <1>1, <1>6, <2>1 DEF e
  <1>11. PoolInv'
    BY <1>4, <1>6, <1>7, <1>9, <1>10 DEF PoolInv
  <1> QED
    BY <1>6, <1>11 DEF CivInv, AllianceInv, CapInv, Within

LEMMA WorkKeeps ==
  ASSUME CivInv, Work
  PROVE  CivInv'
  <1>1. PICK swing \in [Economy -> Swings] : usage' = [e \in Economy |-> Clip(12, 108, usage[e] + swing[e])]
    BY DEF Work
  <1>2. usage' \in [Economy -> Int]
    <2>1. ASSUME NEW e \in Economy PROVE Clip(12, 108, usage[e] + swing[e]) \in Int
      <3>1. usage[e] \in Int /\ swing[e] \in Int
        BY CivilizationAssumption DEF CivInv, PoolInv
      <3> QED
        BY <3>1 DEF Clip
    <2> QED
      BY <1>1, <2>1
  <1>3. PoolInv'
    BY <1>2 DEF CivInv, PoolInv, Work
  <1>4. EconNames \subseteq active
    BY DEF CivInv, CapInv, Within
  <1>5. active' = active /\ data' \subseteq EconNames
    BY <1>4 DEF Work, CivInv, CapInv, EconNames
  <1>6. CapInv'
    BY <1>5 DEF CivInv, CapInv, Within
  <1> QED
    BY <1>3, <1>6 DEF CivInv, AllianceInv, Work

LEMMA EvolutionKeeps ==
  ASSUME CivInv, Evolve9
  PROVE  CivInv'
  <1>1. PICK split \in SUBSET data, created \in SUBSET data, born \in {{}, {<<"new", cycle9>>}} :
          /\ born # {} => Cardinality(active) < IdealEconomies
          /\ split # {} => Cardinality(active) < MaxEconomies
          /\ active' = active \cup {SplitName(x) : x \in split} \cup born
          /\ data' = data \ created
    <2>1. PICK performance \in [data -> {"high", "good", "low"}] :
            LET decision == [x \in data |-> ShouldEvolve(x, performance[x], cycle9)]
                created == {x \in data : decision[x] = "create_economy"}
                split == {x \in data : decision[x] = "split"}
            IN  \E born \in {{}, {<<"new", cycle9>>}} :
                  /\ born # {} => created \cup split = {} /\ Cardinality(active) < IdealEconomies
                  /\ active' = active \cup {SplitName(x) : x \in split} \cup born
                  /\ data' = data \ created
      BY DEF Evolve9
    <2> DEFINE decision == [x \in data |-> ShouldEvolve(x, performance[x], cycle9)]
               created == {x \in data : decision[x] = "create_economy"}
               split == {x \in data : decision[x] = "split"}
    <2>2. split # {} => Cardinality(active) < MaxEconomies
      <3>1. ASSUME NEW x \in data, ShouldEvolve(x, performance[x], cycle9) = "split"
            PROVE  Cardinality(active) < MaxEconomies
        BY <3>1 DEF ShouldEvolve
      <3> QED
        BY <3>1
    <2>3. split \in SUBSET data /\ created \in SUBSET data
      OBVIOUS
    <2>4. PICK born \in {{}, {<<"new", cycle9>>}} :
            /\ born # {} => Cardinality(active) < IdealEconomies
            /\ active' = active \cup {SplitName(x) : x \in split} \cup born
            /\ data' = data \ created
      BY <2>1
    <2> HIDE DEF split, created
    <2> QED
      BY <2>2, <2>3, <2>4
  <1>2. PICK base \in SUBSET active, splits \in SUBSET active : Within(base, splits)
    BY DEF CivInv, CapInv
  <1>3. data \subseteq EconNames
    BY DEF CivInv, CapInv
  <1>4. {SplitName(x) : x \in split} \subseteq SplitNames
    <2>1. ASSUME NEW x \in split PROVE SplitName(x) \in SplitNames
      <3>1. PICK e \in Economy : x = <<"econ", e>>
        BY <1>3 DEF EconNames
      <3> QED
        BY <3>1 DEF SplitName, SplitNames
    <2> QED
      BY <2>1
  <1>5. /\ active = base \cup splits /\ IsFiniteSet(base) /\ Cardinality(base) <= MostBorn
        /\ EconNames \subseteq base /\ splits \subseteq SplitNames /\ Cardinality(base) \in Nat
        /\ NumEconomies >= MaxEconomies => splits = {}
    BY <1>2, FS_CardinalityType DEF Within
  <1>0. MostBorn \in Nat /\ MostBorn >= 4
    BY EconomyIsFinite DEF MostBorn, IdealEconomies
  <1>6. IsFiniteSet(base \cup born) /\ Cardinality(base \cup born) <= MostBorn
    <2>1. CASE born = {}
      BY <1>5, <2>1
    <2>2. CASE born = {<<"new", cycle9>>}
      <3>1. Cardinality(active) < 4
        BY <1>1, <2>2 DEF IdealEconomies
      <3>2. IsFiniteSet(splits)
        <4>1. IsFiniteSet(SplitNames)
          BY NamesAreFew DEF SplitNames
        <4>2. splits \in SUBSET SplitNames
          BY <1>5
        <4> QED
          BY <4>1, <4>2, FS_Subset
      <3>3. IsFiniteSet(active) /\ base \in SUBSET active
        BY <1>5, <3>2, FS_Union
      <3>4. Cardinality(base) <= Cardinality(active) /\ Cardinality(active) \in Nat
        BY <3>3, FS_Subset, FS_CardinalityType
      <3> DEFINE n == Cardinality(base)
                 m == Cardinality(active)
                 l == Cardinality(base \cup born)
      <3>5. IsFiniteSet(base \cup born) /\ l \in {n, n + 1}
        BY <1>5, <2>2, FS_AddElement
      <3>6. n \in Nat /\ m \in Nat /\ n <= m /\ m < 4
        BY <1>5, <3>1, <3>4
      <3> HIDE DEF n, m, l
      <3>7. l <= MostBorn
        BY <1>0, <3>5, <3>6
      <3> QED
        BY <3>5, <3>7 DEF l
    <2> QED
      BY <2>1, <2>2
  <1> DEFINE b == base \cup born
             s == splits \cup {SplitName(x) : x \in split}
  <1>7. active' = b \cup s /\ EconNames \subseteq b /\ s \subseteq SplitNames
    BY <1>1, <1>4, <1>5
  <1>8. IsFiniteSet(b) /\ Cardinality(b) <= MostBorn
    BY <1>6
  <1>12. NumEconomies >= MaxEconomies => s = {}
    <2> SUFFICES ASSUME NumEconomies >= MaxEconomies PROVE split = {}
      BY <1>5
    <2>1. IsFiniteSet(EconNames) /\ Cardinality(EconNames) = NumEconomies
      BY NamesAreFew DEF EconNames
    <2>2. IsFiniteSet(active) /\ EconNames \in SUBSET active
      BY <1>5
    <2>3. Cardinality(EconNames) <= Cardinality(active) /\ Cardinality(active) \in Nat
      BY <2>2, FS_Subset, FS_CardinalityType
    <2> DEFINE n == NumEconomies
               m == Cardinality(active)
    <2>4. n \in Nat /\ n >= 8 /\ n <= m /\ m \in Nat
      BY <2>1, <2>3, EconomyIsFinite DEF MaxEconomies
    <2> HIDE DEF n, m
    <2>5. ~(m < 8)
      BY <2>4
    <2> QED
      BY <1>1, <2>5 DEF m, MaxEconomies
  <1> HIDE DEF b, s
  <1>9. b \in SUBSET active' /\ s \in SUBSET active'
    BY <1>7
  <1>10. \E bs, sp \in SUBSET active' : Within(bs, sp)'
    BY <1>7, <1>8, <1>9, <1>12 DEF Within
  <1>11. CapInv'
    BY <1>1, <1>3, <1>10 DEF CapInv
  <1> QED
    BY <1>11 DEF CivInv, PoolInv, AllianceInv, Evolve9

LEMMA CivStep == CivInv /\ [CivNext]_civ => CivInv'
  <1>1. ASSUME CivInv, UNCHANGED civ PROVE CivInv'
    BY <1>1 DEF civ, CivInv, PoolInv, AllianceInv, CapInv, Within
  <1> QED
    BY <1>1, ObserveKeeps, CouncilKeeps, AllocateShareKeeps, WorkKeeps, EvolutionKeeps DEF CivNext

\* For any number of economies, any swings of the usage, any scores and performances and
\* any number of cycles (taar_v9.single_cycle): the pool is not overdrawn, each alliance is
\* remembered once as long as the council keeps them all, and the economies multiply no
\* further than to one split of each.
THEOREM CivilizationAlwaysHolds == CivSpec => []CivilizationHolds
  <1>1. CivInv => CivilizationHolds
    <2> SUFFICES ASSUME CivInv PROVE CivilizationHolds
      OBVIOUS
    <2>1. PoolNotOverdrawn /\ AlliancesRemembered
      BY DEF CivInv, PoolInv, AllianceInv, PoolNotOverdrawn, AlliancesRemembered
    <2>0. MostBorn \in Nat /\ NumEconomies \in Nat
      BY EconomyIsFinite DEF MostBorn, IdealEconomies
    <2>2. PICK base, splits \in SUBSET active : Within(base, splits)
      BY DEF CivInv, CapInv
    <2>3. /\ active = base \cup splits /\ IsFiniteSet(base) /\ Cardinality(base) <= MostBorn
          /\ splits \in SUBSET SplitNames /\ (NumEconomies >= MaxEconomies => splits = {})
      BY <2>2 DEF Within
    <2>4. IsFiniteSet(SplitNames) /\ Cardinality(SplitNames) = NumEconomies
      BY NamesAreFew DEF SplitNames
    <2>5. IsFiniteSet(splits) /\ Cardinality(splits) <= Cardinality(SplitNames)
      BY <2>3, <2>4, FS_Subset
    <2>6. Cardinality(active) = Cardinality(base) + Cardinality(splits) - Cardinality(base \cap splits)
      BY <2>3, <2>5, FS_Union
    <2>7. IsFiniteSet(base \cap splits)
      BY <2>3, FS_Intersection
    <2> DEFINE n == Cardinality(base)
               m == Cardinality(splits)
               c == Cardinality(base \cap splits)
               a == Cardinality(active)
               l == Cardinality(SplitNames)
    <2>8. n \in Nat /\ m \in Nat /\ c \in Nat /\ l \in Nat
      BY <2>3, <2>4, <2>5, <2>7, FS_CardinalityType
    <2> HIDE DEF n, m, c, a
    <2>9. n <= MostBorn /\ m <= NumEconomies /\ a = n + m - c
      BY <2>3, <2>4, <2>5, <2>6 DEF n, m, c, a
    <2>10. a <= NumEconomies + MostBorn
      BY <2>0, <2>8, <2>9
    <2>11. ASSUME NumEconomies >= MaxEconomies PROVE a = NumEconomies
      <3>1. active = base /\ MostBorn = NumEconomies
        BY <2>0, <2>3, <2>11 DEF MostBorn, MaxEconomies, IdealEconomies
      <3>2. IsFiniteSet(EconNames) /\ Cardinality(EconNames) = NumEconomies /\ EconNames \in SUBSET base
        BY <2>2, NamesAreFew DEF EconNames, Within
      <3>3. NumEconomies <= n
        BY <2>3, <3>2, FS_Subset DEF n
      <3>4. n <= NumEconomies /\ a = n
        BY <2>9, <3>1 DEF a, n
      <3> QED
        BY <2>0, <2>8, <3>3, <3>4
    <2>12. CapHolds
      BY <2>10, <2>11 DEF CapHolds, a, MostBorn
    <2> QED
      BY <2>1, <2>12 DEF CivilizationHolds
  <1> QED
    BY <1>1, CivAtFirst, CivStep, PTL DEF CivSpec

-----------------------------------------------------------------------------
(***************************************************************************)
(* The fabric of nodes                                                     *)
(***************************************************************************)
JobStatuses == Finished \cup {"timeout", "dependency_not_met", "none"}
Counting(n) == [i \in 1 .. n |-> i]

\* The jobs are dealt with in the order they were put down, which has what a job depends on
\* before it.
GraphInv ==
  step \in {"execute", "sync"} =>
    \E n \in Nat :
      /\ DOMAIN graph6 = 1 .. n /\ \A i \in 1 .. n : graph6[i].deps \subseteq 1 .. (i - 1)
      /\ order = Counting(n)
      /\ result \in [1 .. n -> JobStatuses]

IdleInv == step \in {"broker", "resolve", "end", "raised"} => result = <<>>

FabricInv ==
  /\ step \in {"broker", "execute", "sync", "resolve", "end", "raised"}
  /\ GraphInv /\ IdleInv /\ SkippedForCause
  /\ votes \in Nat /\ decided \in Nat
  /\ summary = [completed |-> summary.completed, failed |-> summary.failed]
  /\ summary.completed \in Nat /\ summary.failed \in Nat
  /\ episodes \in Seq(Outcomes6) /\ loaded \in 0 .. Len(episodes)
  /\ FabricBooks

\* A mission is decomposed into jobs that depend on earlier ones.
LEMMA DependenciesAreEarlier ==
  ASSUME NEW g \in Decompose
  PROVE  \E n \in Nat : /\ DOMAIN g = 1 .. n /\ Len(g) = n
                        /\ \A i \in 1 .. n : g[i].deps \subseteq 1 .. (i - 1)
  <1>1. CASE g = Swarm
    <2> DEFINE n == Nodes6 + 1
    <2>1. n \in Nat
      BY FabricAssumption DEF Nodes6
    <2>2. g = [i \in 1 .. n |-> IF i <= Nodes6 THEN [node |-> i - 1, deps |-> {}]
                                ELSE [node |-> 0, deps |-> Before(i)]]
      BY <1>1 DEF Swarm
    <2> HIDE DEF n
    <2>3. DOMAIN g = 1 .. n /\ Len(g) = n
      BY <2>1, <2>2
    <2>4. ASSUME NEW i \in 1 .. n PROVE g[i].deps \subseteq 1 .. (i - 1)
      BY <2>2 DEF Before
    <2> QED
      BY <2>1, <2>3, <2>4
  <1>2. ASSUME NEW n \in Nat, NEW places, 
               g = [i \in 1 .. n |-> [node |-> places[i], deps |-> IF i = 1 THEN {} ELSE {i - 1}]]
        PROVE  /\ DOMAIN g = 1 .. n /\ Len(g) = n
               /\ \A i \in 1 .. n : g[i].deps \subseteq 1 .. (i - 1)
    <2>1. DOMAIN g = 1 .. n /\ Len(g) = n
      BY <1>2
    <2>2. ASSUME NEW i \in 1 .. n PROVE g[i].deps \subseteq 1 .. (i - 1)
      BY <1>2
    <2> QED
      BY <2>1, <2>2
  <1>3. CASE g = Repair
    <2> DEFINE places == [i \in 1 .. 3 |-> i - 1]
    <2>1. g = [i \in 1 .. 3 |-> [node |-> places[i], deps |-> IF i = 1 THEN {} ELSE {i - 1}]]
      BY <1>3 DEF Repair
    <2> HIDE DEF places
    <2> QED
      BY <1>2, <2>1
  <1>4. CASE \E n \in 1 .. MaxParts \cup {1} : g = Chain(n)
    <2>1. PICK n \in 1 .. MaxParts \cup {1} : g = Chain(n)
      BY <1>4
    <2> DEFINE places == [i \in 1 .. n |-> (i - 1) % Nodes6]
    <2>2. n \in Nat
      BY <2>1, FabricAssumption
    <2>3. g = [i \in 1 .. n |-> [node |-> places[i], deps |-> IF i = 1 THEN {} ELSE {i - 1}]]
      BY <2>1 DEF Chain
    <2> HIDE DEF places
    <2> QED
      BY <1>2, <2>2, <2>3
  <1>5. g = Swarm \/ g = Repair \/ \E n \in 1 .. MaxParts \cup {1} : g = Chain(n)
    BY DEF Decompose
  <1> QED
    BY <1>1, <1>3, <1>4, <1>5

\* Nothing is listed when nothing is missing.
LEMMA NothingMissing ==
  ASSUME NEW s, NEW ds \in SUBSET ToSet(s)
  PROVE  Missing(s, ds) = <<>>
  <1>1. ds \ ToSet(s) = {} /\ Cardinality({}) = 0
    BY FS_EmptySet
  <1> DEFINE P(l) == \A i, j \in DOMAIN l : i < j => l[i] < l[j]
             L == CHOOSE l \in [1 .. 0 -> {}] : P(l)
  <1>2. Missing(s, ds) = L
    BY <1>1 DEF Missing, Ascending
  <1>3. << >> \in [1 .. 0 -> {}] /\ P(<< >>)
    OBVIOUS
  <1>4. L \in [1 .. 0 -> {}]
    <2> HIDE DEF P
    <2>1. \E l \in [1 .. 0 -> {}] : P(l)
      BY <1>3
    <2> QED
      BY <2>1, Zenon
  <1> HIDE DEF L
  <1> QED
    BY <1>2, <1>4

\* The topological order of such a graph is the order in which its jobs were put down.
LEMMA OrderOfGraph ==
  ASSUME NEW g, NEW n \in Nat, DOMAIN g = 1 .. n, Len(g) = n,
         \A i \in 1 .. n : g[i].deps \subseteq 1 .. (i - 1)
  PROVE  TopologicalOrder(g) = Counting(n)
  <1> DEFINE visit(v, i) == IF i = 0 THEN <<>>
                            ELSE IF i \in ToSet(v[i - 1]) THEN v[i - 1]
                            ELSE (v[i - 1] \o Missing(v[i - 1], g[i].deps)) \o <<i>>
             P(v) == v = [i \in 0 .. n |-> visit(v, i)]
             visited == CHOOSE v : P(v)
             h == [i \in 0 .. n |-> Counting(i)]
  <1>1. TopologicalOrder(g) = visited[n]
    BY DEF TopologicalOrder
  <1>2. ASSUME NEW v, NEW i \in 1 .. n, v[i - 1] = Counting(i - 1)
        PROVE  visit(v, i) = Counting(i)
    <2>1. ToSet(Counting(i - 1)) = 1 .. (i - 1)
      BY DEF ToSet, Counting
    <2>2. g[i].deps \in SUBSET ToSet(Counting(i - 1)) /\ i # 0 /\ i \notin 1 .. (i - 1)
      BY <2>1
    <2>3. Missing(Counting(i - 1), g[i].deps) = <<>>
      BY <2>2, NothingMissing
    <2>4. visit(v, i) = (Counting(i - 1) \o <<>>) \o <<i>>
      BY <1>2, <2>1, <2>2, <2>3
    <2>5. (Counting(i - 1) \o <<>>) \o <<i>> = Counting(i)
      <3> DEFINE c == Counting(i - 1)
                 m == i - 1
      <3>1. m \in Nat /\ i = m + 1 /\ i \in Nat /\ c = [k \in 1 .. m |-> k]
        BY DEF Counting
      <3> HIDE DEF c, m
      <3>2. c \in Seq(Nat) /\ Len(c) = m /\ \A k \in 1 .. m : c[k] = k
        BY <3>1
      <3>3. c \o <<>> = c /\ c \o <<i>> = Append(c, i)
        BY <3>1, <3>2
      <3>4. /\ Append(c, i) = [k \in DOMAIN Append(c, i) |-> Append(c, i)[k]]
            /\ DOMAIN Append(c, i) = 1 .. i
        BY <3>1, <3>2
      <3>5. \A k \in 1 .. i : Append(c, i)[k] = k
        BY <3>1, <3>2
      <3> DEFINE d == Append(c, i)
      <3> HIDE DEF d
      <3>6. d = [k \in 1 .. i |-> k]
        BY <3>4, <3>5 DEF d
      <3>7. Counting(i) = [k \in 1 .. i |-> k]
        BY DEF Counting
      <3>8. d = Counting(i)
        BY <3>6, <3>7
      <3> QED
        BY <3>3, <3>8 DEF c, d
    <2> QED
      BY <2>4, <2>5
  <1>3. Counting(0) = <<>>
    BY DEF Counting
  <1>4. P(h)
    <2>1. ASSUME NEW i \in 0 .. n PROVE h[i] = visit(h, i)
      <3>1. CASE i = 0
        BY <1>3, <3>1
      <3>2. CASE i # 0
        <4>1. i \in 1 .. n /\ i - 1 \in 0 .. n
          BY <3>2
        <4> HIDE DEF visit
        <4>2. h[i - 1] = Counting(i - 1) /\ h[i] = Counting(i)
          BY <4>1
        <4> HIDE DEF h
        <4> QED
          BY <1>2, <4>1, <4>2
      <3> QED
        BY <3>1, <3>2
    <2>2. h = [i \in 0 .. n |-> h[i]]
      OBVIOUS
    <2> HIDE DEF h, visit
    <2> QED
      BY <2>1, <2>2
  <1> HIDE DEF h
  <1>5. P(visited)
    <2> HIDE DEF P
    <2> QED
      BY <1>4, Zenon
  <1> HIDE DEF visited
  <1> DEFINE T == {i \in Nat : i <= n => visited[i] = Counting(i)}
  <1>6. 0 \in T
    BY <1>3, <1>5
  <1>7. ASSUME NEW i \in T PROVE i + 1 \in T
    <2> SUFFICES ASSUME i + 1 <= n PROVE visited[i + 1] = Counting(i + 1)
      OBVIOUS
    <2> DEFINE k == i + 1
    <2>1. k \in 1 .. n /\ k \in 0 .. n /\ k - 1 = i /\ i <= n
      OBVIOUS
    <2>2. visited[k - 1] = Counting(k - 1)
      BY <2>1
    <2> HIDE DEF k, visit
    <2>3. visited[k] = visit(visited, k)
      BY <1>5, <2>1
    <2>4. visited[k] = Counting(k)
      BY <1>2, <2>1, <2>2, <2>3
    <2> QED
      BY <2>4 DEF k
  <1> HIDE DEF P
  <1>8. T = Nat
    <2> HIDE DEF T
    <2>1. T \in SUBSET Nat
      BY DEF T
    <2> QED
      BY <1>6, <1>7, <2>1, AllNumbers
  <1> QED
    BY <1>1, <1>8

\* A process that has done nothing yet has nothing to answer for.
LEMMA FreshFabric ==
  ASSUME NEW eps \in Seq(Outcomes6)
  PROVE  Len(eps) \in 0 .. Len(eps) /\ {i \in DOMAIN eps : i > Len(eps)} = {}
  <1>1. Len(eps) \in Nat /\ DOMAIN eps = 1 .. Len(eps)
    OBVIOUS
  <1> QED
    BY <1>1

LEMMA FabricAtFirst == FabricInit => FabricInv
  <1> SUFFICES ASSUME FabricInit PROVE FabricInv
    OBVIOUS
  <1>1. episodes \in Seq(Outcomes6)
    <2> DEFINE S == Outcomes6
    <2>1. episodes \in {<<>>} \cup {<<o>> : o \in S}
      BY DEF FabricInit
    <2> HIDE DEF S
    <2>2. episodes = <<>> \/ \E o \in S : episodes = <<o>>
      BY <2>1
    <2>3. ASSUME NEW o \in S PROVE <<o>> \in Seq(S)
      OBVIOUS
    <2>4. <<>> \in Seq(S)
      OBVIOUS
    <2>5. episodes \in Seq(S)
      BY <2>2, <2>3, <2>4, Zenon
    <2> QED
      BY <2>5 DEF S
  <1>2. loaded \in 0 .. Len(episodes) /\ Own = {}
    BY <1>1, FreshFabric DEF FabricInit, Own
  <1>3. /\ summary = [completed |-> 0, failed |-> 0] /\ votes = 0 /\ decided = 0
        /\ step = "broker" /\ result = <<>>
    BY DEF FabricInit, NothingYet
  <1>4. FabricBooks
    <2>1. summary.completed = 0 /\ summary.failed = 0 /\ decided + votes = 0
      BY <1>3
    <2>2. \A i : i \notin Own
      BY <1>2
    <2>3. Cardinality(Own) = mission
      BY <1>2, FS_EmptySet DEF FabricInit
    <2> QED
      BY <2>1, <2>2, <2>3, Zenon DEF FabricBooks
  <1>5. SkippedForCause /\ GraphInv /\ IdleInv
    BY <1>3 DEF GraphInv, IdleInv, SkippedForCause
  <1>6. /\ votes \in Nat /\ decided \in Nat /\ summary.completed \in Nat /\ summary.failed \in Nat
        /\ summary = [completed |-> summary.completed, failed |-> summary.failed]
    BY <1>3
  <1> QED
    BY <1>1, <1>2, <1>3, <1>4, <1>5, <1>6 DEF FabricInv

LEMMA Restart6Keeps ==
  ASSUME FabricInv, Restart6
  PROVE  FabricInv'
  <1>1. PICK a \in 1 .. Len(episodes) + 1, b \in 0 .. Len(episodes) : episodes' = SubSeq(episodes, a, b)
    BY DEF Restart6
  <1> DEFINE S == Outcomes6
  <1> HIDE DEF S
  <1>2. episodes \in Seq(S)
    BY DEF FabricInv, S
  <1>3. episodes' \in Seq(S)
    BY <1>1, <1>2
  <1>4. loaded' = Len(episodes') /\ loaded' \in 0 .. Len(episodes') /\ Own' = {}
    BY <1>3, FreshFabric DEF Restart6, Own, S
  <1>5. /\ summary' = [completed |-> 0, failed |-> 0] /\ votes' = 0 /\ decided' = 0
        /\ step' = "broker" /\ result' = <<>>
    BY DEF Restart6, NothingYet
  <1>6. SkippedForCause' /\ GraphInv' /\ IdleInv'
    BY <1>5 DEF GraphInv, IdleInv, SkippedForCause
  <1>7. FabricBooks'
    <2>1. summary'.completed = 0 /\ summary'.failed = 0 /\ decided' + votes' = 0
      BY <1>5
    <2>2. \A i : i \notin Own'
      BY <1>4
    <2>3. Cardinality(Own') = mission'
      BY <1>4, FS_EmptySet DEF Restart6
    <2> QED
      BY <2>1, <2>2, <2>3, Zenon DEF FabricBooks
  <1>8. /\ votes' \in Nat /\ decided' \in Nat /\ summary'.completed \in Nat /\ summary'.failed \in Nat
        /\ summary' = [completed |-> summary'.completed, failed |-> summary'.failed]
    BY <1>5
  <1> QED
    BY <1>3, <1>4, <1>5, <1>6, <1>7, <1>8 DEF FabricInv, S

LEMMA BrokerKeeps ==
  ASSUME FabricInv, Broker
  PROVE  FabricInv'
  <1>1. PICK n \in Nat : /\ DOMAIN graph6' = 1 .. n /\ Len(graph6') = n
                         /\ \A i \in 1 .. n : graph6'[i].deps \subseteq 1 .. (i - 1)
    BY DependenciesAreEarlier DEF Broker
  <1>2. order' = Counting(n)
    BY <1>1, OrderOfGraph DEF Broker
  <1>3. result' = [i \in 1 .. n |-> "none"]
    BY <1>1 DEF Broker
  <1>4. result' \in [1 .. n -> JobStatuses]
    BY <1>3 DEF JobStatuses
  <1>5. GraphInv'
    BY <1>1, <1>2, <1>4 DEF GraphInv
  <1>6. SkippedForCause'
    BY <1>3 DEF SkippedForCause
  <1> QED
    BY <1>5, <1>6 DEF FabricInv, Broker, IdleInv, FabricBooks, Own, books6

LEMMA ExecuteJobKeeps ==
  ASSUME FabricInv, ExecuteJob
  PROVE  FabricInv'
  <1>1. PICK n \in Nat :
          /\ DOMAIN graph6 = 1 .. n /\ \A i \in 1 .. n : graph6[i].deps \subseteq 1 .. (i - 1)
          /\ order = Counting(n) /\ result \in [1 .. n -> JobStatuses]
    BY DEF FabricInv, GraphInv, ExecuteJob
  <1>2. DOMAIN order = 1 .. n /\ \A i \in 1 .. n : order[i] = i
    BY <1>1 DEF Counting
  <1> DEFINE P(i) == result[order[i]] = "none" /\ \A k \in Before(i) : result[order[k]] # "none"
  <1>3. \E i \in 1 .. n : P(i)
    <2> DEFINE T == {i \in 1 .. n : result[i] = "none"}
    <2>1. T \in SUBSET Nat /\ T # {}
      BY <1>1 DEF ExecuteJob, Waiting6
    <2>2. PICK i \in T : \A j \in T : i <= j
      <3> HIDE DEF T
      <3> QED
        BY <2>1, LeastNumber
    <2>3. P(i)
      BY <1>2, <2>2 DEF Before
    <2> QED
      BY <2>3
  <1>4. Next1 = CHOOSE i \in 1 .. n : P(i)
    BY <1>2 DEF Next1
  <1>5. Next1 \in 1 .. n /\ P(Next1)
    <2> HIDE DEF P
    <2> QED
      BY <1>3, <1>4, Zenon
  <1> DEFINE j == Next1
  <1>6. order[j] = j /\ result[j] = "none" /\ \A k \in 1 .. (j - 1) : result[k] # "none"
    BY <1>2, <1>5 DEF Before
  <1>7. PICK s \in Finished \cup {"timeout"} :
          result' = [result EXCEPT ![j] = IF Blocked(j) THEN "dependency_not_met" ELSE s]
    BY <1>6 DEF ExecuteJob
  <1>8. j \in 1 .. n /\ graph6' = graph6
    BY <1>5 DEF ExecuteJob
  <1> HIDE DEF j, P
  <1>9. /\ result' \in [1 .. n -> JobStatuses] /\ \A k \in (1 .. n) \ {j} : result'[k] = result[k]
        /\ result'[j] = IF Blocked(j) THEN "dependency_not_met" ELSE s
    BY <1>1, <1>7, <1>8 DEF JobStatuses
  <1>10. GraphInv'
    BY <1>1, <1>9 DEF GraphInv, ExecuteJob
  <1>11. SkippedForCause'
    <2> SUFFICES ASSUME NEW k \in 1 .. n, result'[k] # "none"
                 PROVE  /\ \A d \in graph6[k].deps : result'[d] # "none"
                        /\ (result'[k] = "dependency_not_met") <=>
                             (\E d \in graph6[k].deps : result'[d] \in {"timeout", "dependency_not_met"})
      BY <1>1, <1>8, <1>9 DEF SkippedForCause
    <2>1. CASE k = j
      <3>1. \A d \in graph6[j].deps : d \in 1 .. (j - 1) /\ d \in (1 .. n) \ {j}
        BY <1>1, <1>8
      <3>2. \A d \in graph6[j].deps : /\ result[d] # "none" /\ result[d] \in JobStatuses
                                      /\ result'[d] = result[d]
        BY <1>1, <1>6, <1>9, <3>1
      <3>3. Blocked(j) <=> \E d \in graph6[j].deps : result'[d] \in {"timeout", "dependency_not_met"}
        BY <3>2 DEF Blocked, JobStatuses, Finished
      <3>4. result'[j] = "dependency_not_met" <=> Blocked(j)
        BY <1>9 DEF Finished
      <3> QED
        BY <2>1, <3>2, <3>3, <3>4
    <2>2. CASE k # j
      <3>1. result[k] # "none" /\ result'[k] = result[k] /\ k \in DOMAIN result
        BY <1>1, <1>9, <2>2
      <3>2. /\ \A d \in graph6[k].deps : result[d] # "none"
            /\ (result[k] = "dependency_not_met") <=>
                 (\E d \in graph6[k].deps : result[d] \in {"timeout", "dependency_not_met"})
        BY <3>1 DEF FabricInv, SkippedForCause
      <3>3. \A d \in graph6[k].deps : d \in 1 .. n /\ d # j
        BY <1>1, <1>6, <3>2
      <3>4. \A d \in graph6[k].deps : result'[d] = result[d]
        BY <1>9, <3>3
      <3> QED
        BY <3>1, <3>2, <3>4
    <2> QED
      BY <2>1, <2>2
  <1> QED
    BY <1>10, <1>11 DEF FabricInv, ExecuteJob, IdleInv, FabricBooks, Own, books6

LEMMA SyncKeeps ==
  ASSUME FabricInv, Sync
  PROVE  FabricInv'
  <1> DEFINE completed == Cardinality(With({"completed"}))
             failed == Cardinality(With({"failed", "error"}))
             outcome6 == OutcomeOf(completed, failed)
  <1>1. completed \in Nat /\ failed \in Nat
    <2>1. PICK n \in Nat : DOMAIN result = 1 .. n
      BY DEF FabricInv, GraphInv, Sync
    <2>2. IsFiniteSet(1 .. n)
      BY FS_Interval
    <2>3. With({"completed"}) \in SUBSET (1 .. n) /\ With({"failed", "error"}) \in SUBSET (1 .. n)
      BY <2>1 DEF With
    <2> QED
      BY <2>2, <2>3, FS_Subset, FS_CardinalityType
  <1>2. /\ episodes' = Append(episodes, outcome6) /\ votes' = votes + completed /\ decided' = decided
        /\ summary' = [completed |-> summary.completed + completed, failed |-> summary.failed + failed]
        /\ step' = "resolve" /\ result' = <<>>
    BY DEF Sync, Store, UpdateGlobalStats, SubmitVotes
  <1> HIDE DEF completed, failed
  <1>3. /\ outcome6 \in Outcomes6 /\ (outcome6 = "completed" <=> failed = 0)
        /\ outcome6 = "degraded" => completed > 0
    BY <1>1 DEF OutcomeOf, Outcomes6
  <1> HIDE DEF outcome6
  <1> DEFINE S == Outcomes6
  <1>4. outcome6 \in S
    BY <1>3
  <1>5. episodes \in Seq(S) /\ loaded \in 0 .. Len(episodes)
    BY DEF FabricInv
  <1> HIDE DEF S
  <1>6. /\ episodes' \in Seq(S) /\ loaded' \in 0 .. Len(episodes')
        /\ Own' = Own \cup {Len(episodes) + 1}
        /\ \A i \in Own : episodes'[i] = episodes[i]
        /\ episodes'[Len(episodes) + 1] = outcome6
    <2> DEFINE e == episodes
               f == Append(episodes, outcome6)
               l == Len(episodes)
    <2>1. /\ f \in Seq(S) /\ l \in Nat /\ Len(f) = l + 1
          /\ \A i \in 1 .. l : f[i] = e[i]
          /\ f[l + 1] = outcome6 /\ DOMAIN f = 1 .. (l + 1) /\ DOMAIN e = 1 .. l
      BY <1>4, <1>5
    <2>2. loaded' = loaded /\ loaded \in 0 .. l /\ episodes' = f
      BY <1>2, <1>5 DEF Sync
    <2> HIDE DEF e, f, l
    <2>3. Own = {i \in 1 .. l : i > loaded} /\ Own' = {i \in 1 .. (l + 1) : i > loaded}
      BY <2>1, <2>2 DEF Own, e
    <2>4. Own' = Own \cup {l + 1} /\ \A i \in Own : i \in 1 .. l
      BY <2>1, <2>2, <2>3
    <2>5. loaded' \in 0 .. Len(f)
      BY <2>1, <2>2
    <2> QED
      BY <2>1, <2>2, <2>4, <2>5 DEF e, l
  <1>7. /\ summary'.completed = summary.completed + completed
        /\ summary'.failed = summary.failed + failed
        /\ summary.completed \in Nat /\ summary.failed \in Nat /\ votes \in Nat /\ decided \in Nat
    BY <1>2 DEF FabricInv
  <1>8. FabricBooks'
    <2>1. decided' + votes' = summary'.completed
      BY <1>1, <1>2, <1>7 DEF FabricInv, FabricBooks
    <2>2. (summary.failed = 0) <=> (\A i \in Own : episodes[i] = "completed")
      BY DEF FabricInv, FabricBooks
    <2>3. summary'.failed = 0 <=> summary.failed = 0 /\ failed = 0
      BY <1>1, <1>7
    <2>4. (\A i \in Own' : episodes'[i] = "completed")
            <=> (\A i \in Own : episodes[i] = "completed") /\ outcome6 = "completed"
      BY <1>6
    <2>5. (\E i \in Own : episodes[i] = "degraded") => summary.completed > 0
      BY DEF FabricInv, FabricBooks
    <2>6. ASSUME NEW i \in Own', episodes'[i] = "degraded" PROVE summary'.completed > 0
      <3>1. CASE i \in Own
        <4>1. summary.completed > 0
          BY <1>6, <2>5, <2>6, <3>1
        <4> QED
          BY <1>1, <1>7, <4>1
      <3>2. CASE i = Len(episodes) + 1
        BY <1>1, <1>3, <1>6, <1>7, <2>6, <3>2
      <3> QED
        BY <1>6, <3>1, <3>2
    <2>7. Cardinality(Own') = mission'
      <3> DEFINE T == Own
                 l == Len(episodes)
      <3>1. T \subseteq 1 .. l /\ l \in Nat
        BY <1>5 DEF Own
      <3>2. Cardinality(T) = mission /\ mission' = mission + 1
        BY DEF FabricInv, FabricBooks, Sync
      <3>3. Own' = T \cup {l + 1}
        BY <1>6
      <3> HIDE DEF T, l
      <3>4. PICK x : x = l + 1
        OBVIOUS
      <3>5. x \notin T
        BY <3>1, <3>4
      <3>6. IsFiniteSet(1 .. l)
        BY <3>1, FS_Interval
      <3>7. IsFiniteSet(T)
        BY <3>1, <3>6, FS_Subset
      <3>8. Cardinality(T \cup {x}) = Cardinality(T) + 1
        BY <3>5, <3>7, FS_AddElement
      <3> QED
        BY <3>2, <3>3, <3>4, <3>8, Zenon
    <2> QED
      <3>1. summary'.failed = 0 <=> (\A i \in Own' : episodes'[i] = "completed")
        BY <1>3, <2>2, <2>3, <2>4
      <3>2. (\E i \in Own' : episodes'[i] = "degraded") => summary'.completed > 0
        BY <2>6
      <3> HIDE DEF FabricBooks
      <3> QED
        BY <2>1, <2>7, <3>1, <3>2, Zenon DEF FabricBooks
  <1>9. SkippedForCause' /\ GraphInv' /\ IdleInv'
    BY <1>2 DEF SkippedForCause, GraphInv, IdleInv
  <1>10. /\ votes' \in Nat /\ decided' \in Nat /\ summary'.completed \in Nat /\ summary'.failed \in Nat
         /\ summary' = [completed |-> summary'.completed, failed |-> summary'.failed]
    <2>1. votes' \in Nat /\ decided' \in Nat /\ summary'.completed \in Nat /\ summary'.failed \in Nat
      BY <1>1, <1>2, <1>7
    <2> QED
      BY <1>2, <2>1
  <1> QED
    BY <1>2, <1>6, <1>8, <1>9, <1>10 DEF FabricInv, S

LEMMA FabricStep == FabricInv /\ [FabricNext]_fvars => FabricInv'
  <1> USE DEF FabricInv, GraphInv, IdleInv, SkippedForCause, FabricBooks, Own, plan6, books6
  <1>1. ASSUME FabricInv, UNCHANGED fvars PROVE FabricInv'
    BY <1>1 DEF fvars
  <1>2. ASSUME FabricInv, Executed PROVE FabricInv'
    BY <1>2 DEF Executed
  <1>3. ASSUME FabricInv, Consensus6 PROVE FabricInv'
    <2>1. votes' = 0 /\ decided' = decided + votes /\ decided' \in Nat /\ decided' + votes' = decided + votes
      BY <1>3 DEF Consensus6, Resolve
    <2> QED
      BY <1>3, <2>1 DEF Consensus6
  <1>4. ASSUME FabricInv, EndCycle PROVE FabricInv'
    BY <1>4 DEF EndCycle
  <1>5. ASSUME FabricInv, NodeMissing PROVE FabricInv'
    BY <1>5 DEF NodeMissing
  <1> QED
    BY <1>1, <1>2, <1>3, <1>4, <1>5, BrokerKeeps, ExecuteJobKeeps, SyncKeeps, Restart6Keeps DEF FabricNext

\* Jobs are skipped for cause only, and votes, summary and episodes speak of the same jobs,
\* for any number of nodes, every way the missions are decomposed, cycles that a missing node
\* breaks off, and processes that find episodes of earlier ones (taar_v6.single_cycle).
THEOREM FabricAlwaysConsistent == FabricSpec => []FabricConsistent
  <1>1. FabricInv => FabricConsistent
    BY DEF FabricInv, FabricConsistent
  <1> QED
    BY <1>1, FabricAtFirst, FabricStep, PTL DEF FabricSpec

-----------------------------------------------------------------------------
(***************************************************************************)
(* The economy                                                             *)
(***************************************************************************)
TaskSet == [base : Nat, estimate : Nat]
JobSet == [task : TaskSet, price : Nat,
           status : {"open", "assigned", "completed", "failed"},
           org : OrgSet \cup {"none"}, bids : SUBSET OrgSet]

\* Where each job of the cycle is: open until it is allocated, allocated to a bidder, and
\* no longer assigned once it is executed.
JobsInv ==
  /\ pc \in {"observe", "bid", "allocate", "execute", "remember"} /\ hash \in Hashes
  /\ jobs \in Seq(JobSet) /\ at \in Nat /\ at <= Len(jobs)
  /\ \A i \in DOMAIN jobs : /\ jobs[i].org # "none" => jobs[i].org \in jobs[i].bids
                            /\ jobs[i].status = "assigned" => jobs[i].org # "none"
  /\ pc = "observe" => jobs = <<>>
  /\ pc = "bid" => \A i \in DOMAIN jobs : jobs[i].status = "open" /\ jobs[i].org = "none"
  /\ pc = "allocate" =>
       \A i \in DOMAIN jobs : /\ jobs[i].status \in {"open", "assigned"}
                              /\ i > at => jobs[i].status = "open" /\ jobs[i].org = "none"
  /\ pc = "execute" => \A i \in DOMAIN jobs : i <= at => jobs[i].status # "assigned"
  /\ pc = "remember" => /\ at < Len(jobs) /\ jobs[at + 1].org # "none"
                        /\ \A i \in DOMAIN jobs : i <= at + 1 => jobs[i].status # "assigned"

BooksInv ==
  /\ purse \in [OrgSet -> Int] /\ budget \in [OrgSet -> Int]
  /\ prices \in [OrgSet -> [n : Int, sum : Int]]
  /\ ledger \in [OrgSet -> [completed : Int, failed : Int]]
  /\ history \in [OrgSet -> [n : Int, good : Int]]
  /\ memory \in [records : [OrgSet -> Int], performance : [OrgSet -> Int]]
  /\ file = memory /\ crashes \in Nat

\* Every bidder could pay for the job, counting what it has paid since as its own.
BiddersCouldPay ==
  \A i \in DOMAIN jobs : \A o \in jobs[i].bids :
    10 * (budget[o] + PricesOf(o, {"completed", "failed"})) >= BidOf(jobs[i])

EconomyInv ==
  JobsInv /\ BooksInv /\ MoneyBalances /\ CountsAgree /\ MemoryCovers /\ BiddersCouldPay

Counts(job, o, statuses) == job.org = o /\ job.status \in statuses
\* PricesOf, of any jobs
PricesIn(js, o, statuses) ==
  SumFunctionOnSet([i \in DOMAIN js |-> js[i].price], {i \in DOMAIN js : Counts(js[i], o, statuses)})

\* A list of jobs, one of which is replaced.
LEMMA JobReplaced ==
  ASSUME NEW js \in Seq(JobSet), NEW i \in DOMAIN js, NEW job \in JobSet
  PROVE  LET ks == [js EXCEPT ![i] = job]
         IN  /\ ks \in Seq(JobSet) /\ Len(ks) = Len(js) /\ DOMAIN ks = DOMAIN js
             /\ ks[i] = job /\ \A j \in DOMAIN js \ {i} : ks[j] = js[j]
  <1> DEFINE ks == [js EXCEPT ![i] = job]
  <1>1. \A j \in DOMAIN js : js[j] \in JobSet
    BY ListOf
  <1>2. DOMAIN ks = DOMAIN js /\ ks[i] = job /\ \A j \in DOMAIN js \ {i} : ks[j] = js[j]
    OBVIOUS
  <1> DEFINE S == JobSet
  <1> HIDE DEF S
  <1>3. ks \in [DOMAIN js -> S]
    BY <1>1 DEF S
  <1>4. js \in Seq(S)
    BY DEF S
  <1> HIDE DEF ks
  <1>5. ks \in Seq(S) /\ Len(ks) = Len(js)
    BY <1>3, <1>4, ListWith
  <1> QED
    BY <1>2, <1>5 DEF ks, S

\* When a job changes in anything but its price, its price comes into a sum and goes out of it.
LEMMA PriceMoves ==
  ASSUME NEW js \in Seq(JobSet), NEW ks, DOMAIN ks = DOMAIN js, NEW i \in DOMAIN js,
         ks[i].price = js[i].price, \A j \in DOMAIN js \ {i} : ks[j] = js[j],
         NEW o, NEW statuses
  PROVE  /\ PricesIn(js, o, statuses) \in Int /\ js[i].price \in Nat
         /\ PricesIn(ks, o, statuses)
              = PricesIn(js, o, statuses) + (IF Counts(ks[i], o, statuses) THEN js[i].price ELSE 0)
                                          - (IF Counts(js[i], o, statuses) THEN js[i].price ELSE 0)
  <1> DEFINE f == [j \in DOMAIN js |-> js[j].price]
             A == {j \in DOMAIN js : Counts(js[j], o, statuses)}
             B == {j \in DOMAIN js : Counts(ks[j], o, statuses)}
             R == A \ {i}
  <1>1. \A j \in DOMAIN js : js[j].price \in Nat
    <2>1. \A j \in DOMAIN js : js[j] \in JobSet
      BY ListOf
    <2> QED
      BY <2>1 DEF JobSet
  <1>2. PricesIn(js, o, statuses) = SumFunctionOnSet(f, A)
    BY DEF PricesIn
  <1>3. PricesIn(ks, o, statuses) = SumFunctionOnSet(f, B)
    <2>1. f = [j \in DOMAIN ks |-> ks[j].price]
      OBVIOUS
    <2> HIDE DEF f
    <2> QED
      BY <2>1 DEF PricesIn
  <1>4. IsFiniteSet(A) /\ IsFiniteSet(B) /\ IsFiniteSet(R)
    <2>1. IsFiniteSet(DOMAIN js) /\ A \in SUBSET DOMAIN js /\ B \in SUBSET DOMAIN js /\ R \in SUBSET DOMAIN js
      BY ListOf
    <2> HIDE DEF A, B, R
    <2> QED
      BY <2>1, FS_Subset
  <1>5. R = A \ {i} /\ R = B \ {i}
    OBVIOUS
  <1>6. /\ \A j \in A : f[j] \in Int
        /\ \A j \in B : f[j] \in Int
        /\ \A j \in R : f[j] \in Int
    BY <1>1
  <1>7. f[i] = js[i].price /\ f[i] \in Nat /\ (i \in A <=> Counts(js[i], o, statuses))
        /\ (i \in B <=> Counts(ks[i], o, statuses))
    BY <1>1
  <1> HIDE DEF f, A, B, R
  <1>8. SumFunctionOnSet(f, R) \in Int
    BY <1>4, <1>6, SumIsInt
  <1>9. SumFunctionOnSet(f, A) = SumFunctionOnSet(f, R) + (IF i \in A THEN f[i] ELSE 0)
    <2>1. CASE i \in A
      <3>1. SumFunctionOnSet(f, A) = f[i] + SumFunctionOnSet(f, A \ {i})
        BY <1>4, <1>6, <2>1, SumTaken
      <3>2. SumFunctionOnSet(f, A) = f[i] + SumFunctionOnSet(f, R)
        BY <1>5, <3>1, Zenon
      <3> QED
        BY <1>7, <1>8, <2>1, <3>2
    <2>2. CASE i \notin A
      <3>1. R = A
        BY <1>5, <2>2
      <3>2. SumFunctionOnSet(f, A) = SumFunctionOnSet(f, R)
        BY <3>1, Zenon
      <3> QED
        BY <1>8, <2>2, <3>2
    <2> QED
      BY <2>1, <2>2
  <1>10. SumFunctionOnSet(f, B) = SumFunctionOnSet(f, R) + (IF i \in B THEN f[i] ELSE 0)
    <2>1. CASE i \in B
      <3>1. SumFunctionOnSet(f, B) = f[i] + SumFunctionOnSet(f, B \ {i})
        BY <1>4, <1>6, <2>1, SumTaken
      <3>2. SumFunctionOnSet(f, B) = f[i] + SumFunctionOnSet(f, R)
        BY <1>5, <3>1, Zenon
      <3> QED
        BY <1>7, <1>8, <2>1, <3>2
    <2>2. CASE i \notin B
      <3>1. R = B
        BY <1>5, <2>2
      <3>2. SumFunctionOnSet(f, B) = SumFunctionOnSet(f, R)
        BY <3>1, Zenon
      <3> QED
        BY <1>8, <2>2, <3>2
    <2> QED
      BY <2>1, <2>2
  <1> QED
    BY <1>2, <1>3, <1>7, <1>8, <1>9, <1>10

\* No job counts, no price.
LEMMA NothingToPay ==
  ASSUME NEW js, NEW o, NEW statuses, \A i \in DOMAIN js : ~Counts(js[i], o, statuses)
  PROVE  PricesIn(js, o, statuses) = 0
  <1>1. {i \in DOMAIN js : Counts(js[i], o, statuses)} = {}
    OBVIOUS
  <1> QED
    BY <1>1, SumOfNone DEF PricesIn

LEMMA PricesOfJobs ==
  ASSUME NEW o, NEW statuses
  PROVE  /\ PricesOf(o, statuses) = PricesIn(jobs, o, statuses)
         /\ PricesOf(o, statuses)' = PricesIn(jobs', o, statuses)
  BY DEF PricesOf, PricesIn, Counts

LEMMA ProductIsNat ==
  ASSUME NEW a \in Nat, NEW b \in Nat
  PROVE  a * b \in Nat
  OBVIOUS

\* The winner is one of the bidders.
LEMMA BestBids ==
  ASSUME hash \in Hashes, NEW job \in JobSet, job.bids # {}
  PROVE  Best(job) \in job.bids
  <1> DEFINE bids == job.bids
             score(q) == BidOf(job) * (110 - hash.reliability[q])
             First(o) == \A p \in bids : score(o) < score(p) \/ (score(o) = score(p) /\ Rank(o) <= Rank(p))
  <1>1. \A q \in bids : score(q) \in Nat
    <2> SUFFICES ASSUME NEW q \in bids PROVE score(q) \in Nat
      OBVIOUS
    <2>1. job.price \in Nat /\ q \in OrgSet
      BY DEF JobSet
    <2>2. BidOf(job) \in Nat
      BY <2>1 DEF BidOf
    <2>3. hash.reliability[q] \in Reliabilities
      BY <2>1 DEF Hashes
    <2> DEFINE r == hash.reliability[q]
               b == BidOf(job)
    <2> HIDE DEF r, b
    <2>4. r \in 75 .. 99
      BY <2>3, PurseAssumption DEF r
    <2>5. 110 - r \in Nat /\ b \in Nat
      BY <2>2, <2>4 DEF b
    <2>6. b * (110 - r) \in Nat
      BY <2>5, ProductIsNat
    <2> QED
      BY <2>6 DEF b, r
  <1>2. \A q \in bids : Rank(q) \in Nat
    <2> SUFFICES ASSUME NEW q \in bids PROVE Rank(q) \in Nat
      OBVIOUS
    <2>1. q \in ToSet(Orgs) /\ Orgs \in Seq(ToSet(Orgs))
      BY OrgsAssumption DEF JobSet, OrgSet
    <2>2. \E i \in DOMAIN Orgs : Orgs[i] = q
      BY <2>1 DEF ToSet
    <2>3. Rank(q) \in DOMAIN Orgs
      BY <2>2, Zenon DEF Rank
    <2>4. DOMAIN Orgs = 1 .. Len(Orgs) /\ Len(Orgs) \in Nat
      BY <2>1, ListOf
    <2> QED
      BY <2>3, <2>4
  <1> HIDE DEF score
  <1> DEFINE T == {score(q) : q \in bids}
  <1>3. PICK s \in T : \A t \in T : s <= t
    <2>1. T \in SUBSET Nat /\ T # {}
      BY <1>1
    <2> HIDE DEF T
    <2> QED
      BY <2>1, LeastNumber
  <1> DEFINE U == {Rank(q) : q \in {p \in bids : score(p) = s}}
  <1>4. PICK r \in U : \A t \in U : r <= t
    <2>1. U \in SUBSET Nat /\ U # {}
      BY <1>2, <1>3
    <2> HIDE DEF U
    <2> QED
      BY <2>1, LeastNumber
  <1>5. PICK o \in bids : score(o) = s /\ Rank(o) = r
    BY <1>4
  <1>6. First(o)
    <2> SUFFICES ASSUME NEW p \in bids
                 PROVE  score(o) < score(p) \/ (score(o) = score(p) /\ Rank(o) <= Rank(p))
      OBVIOUS
    <2>1. s <= score(p) /\ s \in Nat /\ score(p) \in Nat
      BY <1>1, <1>3
    <2>2. score(p) = s => r <= Rank(p)
      BY <1>4
    <2> QED
      BY <1>5, <2>1, <2>2
  <1>7. Best(job) = CHOOSE q \in bids : First(q)
    BY DEF Best, score
  <1>8. \E q \in bids : First(q)
    BY <1>6
  <1> HIDE DEF First, bids
  <1>9. Best(job) \in bids
    BY <1>7, <1>8, Zenon
  <1> QED
    BY <1>9 DEF bids

LEMMA EconomyAtFirst == EconomyInit => EconomyInv
  <1> SUFFICES ASSUME EconomyInit PROVE EconomyInv
    OBVIOUS
  <1>1. jobs = <<>> /\ pc = "observe" /\ at = 0 /\ hash \in Hashes
    BY DEF EconomyInit, New
  <1>2. JobsInv
    BY <1>1 DEF JobsInv
  <1>3. /\ purse = [o \in OrgSet |-> Purse] /\ budget = purse /\ prices = [o \in OrgSet |-> [n |-> 0, sum |-> 0]]
        /\ ledger = [o \in OrgSet |-> [completed |-> 0, failed |-> 0]]
        /\ history = [o \in OrgSet |-> [n |-> 0, good |-> 0]] /\ memory = Blank /\ file = Blank /\ crashes = 0
    BY DEF EconomyInit, New
  <1>4. BooksInv
    BY <1>3, PurseAssumption DEF BooksInv, Blank, Zero
  <1>5. \A o : PricesOf(o, {"assigned"}) = 0
    BY <1>1, NothingToPay, PricesOfJobs
  <1>6. MoneyBalances
    BY <1>3, <1>5, PurseAssumption DEF MoneyBalances
  <1>7. CountsAgree
    BY <1>3 DEF CountsAgree
  <1>8. MemoryCovers
    BY <1>1, <1>3 DEF MemoryCovers, Blank, Zero
  <1>9. BiddersCouldPay
    BY <1>1 DEF BiddersCouldPay
  <1> QED
    BY <1>2, <1>4, <1>6, <1>7, <1>8, <1>9 DEF EconomyInv

LEMMA SomeMissions ==
  ASSUME NEW pressure, NEW c
  PROVE  GenerateMissions(pressure, c) \in Seq(TaskSet)
  <1>1. FixCI \in TaskSet /\ Optimize \in TaskSet /\ Audit \in TaskSet
    BY DEF FixCI, Optimize, Audit, Task, TaskSet
  <1>2. Task(350, 30) \in TaskSet /\ Task(450, 40) \in TaskSet /\ Task(400, 35) \in TaskSet
    BY DEF Task, TaskSet
  <1> DEFINE S == TaskSet
             a == IF pressure > 50 THEN <<FixCI, Optimize>> ELSE <<>>
             b == IF c = 0 THEN <<Audit>> ELSE <<>>
  <1> HIDE DEF S
  <1>3. a \in Seq(S) /\ b \in Seq(S) /\ Routine \in Seq(S)
    BY <1>1, <1>2 DEF S, Routine
  <1> HIDE DEF a, b
  <1>4. a \o b \in Seq(S)
    BY <1>3
  <1>5. GenerateMissions(pressure, c) = IF a \o b = <<>> THEN Routine ELSE a \o b
    BY DEF GenerateMissions, a, b
  <1> QED
    BY <1>3, <1>4, <1>5 DEF S

LEMMA PriceIsNat ==
  ASSUME NEW base \in Nat, NEW r, NEW c \in Complexities
  PROVE  AdjustPrice(base, r, c) \in Nat
  <1> DEFINE mult == CASE r = "cold" -> 80 [] r = "crisis" -> 150 [] OTHER -> 100
             p == base * mult * (7000 + 60 * c)
  <1>1. mult \in Nat
    OBVIOUS
  <1>2. 7000 + 60 * c \in Nat
    BY PurseAssumption
  <1>3. AdjustPrice(base, r, c) = Min2(p \div 1000000, 1000)
    BY DEF AdjustPrice
  <1> HIDE DEF mult
  <1>4. p \in Nat
    BY <1>1, <1>2, ProductIsNat
  <1> HIDE DEF p
  <1>5. p \div 1000000 \in Nat
    BY <1>4
  <1> QED
    BY <1>3, <1>5 DEF Min2

LEMMA PostKeeps ==
  ASSUME EconomyInv, Post
  PROVE  EconomyInv'
  <1>1. PICK pressure \in {0, 40, 60, 90} :
          jobs' = LET list == GenerateMissions(pressure, cycle')
                  IN  [i \in DOMAIN list |-> PostJob(list[i], regime')]
    BY DEF Post
  <1> DEFINE ts == GenerateMissions(pressure, cycle')
             S == JobSet
  <1>2. ts \in Seq(TaskSet) /\ \A i \in DOMAIN ts : ts[i] \in TaskSet
    <2>1. ts \in Seq(TaskSet)
      BY SomeMissions
    <2> HIDE DEF ts
    <2> QED
      BY <2>1, ListOf
  <1>3. jobs' = [i \in DOMAIN ts |-> PostJob(ts[i], regime')]
    BY <1>1
  <1> HIDE DEF ts
  <1>4. ASSUME NEW i \in DOMAIN ts
        PROVE  PostJob(ts[i], regime') \in JobSet
    <2>1. ts[i] \in TaskSet /\ ts[i].base \in Nat
      BY <1>2 DEF TaskSet
    <2>2. hash.complexity \in Complexities
      BY DEF EconomyInv, JobsInv, Hashes
    <2> DEFINE p == AdjustPrice(ts[i].base, regime', hash.complexity)
    <2>3. p \in Nat
      BY <2>1, <2>2, PriceIsNat
    <2>4. PostJob(ts[i], regime') = [task |-> ts[i], price |-> p, status |-> "open", org |-> "none", bids |-> {}]
      BY DEF PostJob
    <2> HIDE DEF p
    <2> QED
      BY <2>1, <2>3, <2>4 DEF JobSet
  <1>5. \A i \in DOMAIN ts : jobs'[i].status = "open" /\ jobs'[i].org = "none" /\ jobs'[i].bids = {}
    BY <1>3 DEF PostJob
  <1>6. jobs' \in Seq(S) /\ DOMAIN jobs' = DOMAIN ts
    <2> HIDE DEF S
    <2>1. jobs' \in [DOMAIN ts -> S]
      BY <1>3, <1>4 DEF S
    <2> QED
      BY <1>2, <2>1, ListWith
  <1>7. Len(jobs') \in Nat
    BY <1>6, ListOf
  <1>8. JobsInv'
    <2>1. pc' = "bid" /\ at' = 0 /\ hash' = hash /\ hash \in Hashes
      BY DEF Post, EconomyInv, JobsInv
    <2>2. at' \in Nat /\ at' <= Len(jobs')
      BY <1>7, <2>1
    <2>3. (hash \in Hashes)'
      BY <2>1 DEF Hashes
    <2>4. jobs' \in Seq(JobSet)
      BY <1>6
    <2> QED
      BY <1>5, <1>6, <2>1, <2>2, <2>3, <2>4 DEF JobsInv
  <1>9. UNCHANGED <<purse, trust, prices, budget, ledger, history, memory, file, crashes>> /\ pc = "observe" /\ pc' = "bid"
    BY DEF Post, books
  <1>10. \A o \in OrgSet : PricesOf(o, {"assigned"})' = PricesOf(o, {"assigned"})
    <2> SUFFICES ASSUME NEW o \in OrgSet PROVE PricesOf(o, {"assigned"})' = PricesOf(o, {"assigned"})
      OBVIOUS
    <2>1. jobs = <<>>
      BY <1>9 DEF EconomyInv, JobsInv
    <2>2. PricesIn(jobs, o, {"assigned"}) = 0
      BY <2>1, NothingToPay
    <2>3. PricesIn(jobs', o, {"assigned"}) = 0
      BY <1>5, <1>6, NothingToPay DEF Counts
    <2> QED
      BY <2>2, <2>3, PricesOfJobs
  <1>11. MoneyBalances' /\ CountsAgree'
    BY <1>9, <1>10 DEF EconomyInv, MoneyBalances, CountsAgree
  <1>12. MemoryCovers'
    BY <1>9 DEF EconomyInv, MemoryCovers
  <1>13. BiddersCouldPay'
    BY <1>5, <1>6 DEF BiddersCouldPay
  <1>14. BooksInv'
    BY <1>9 DEF EconomyInv, BooksInv
  <1> QED
    BY <1>8, <1>11, <1>12, <1>13, <1>14 DEF EconomyInv

\* What a job is worth and where it is decides what is to be paid.
LEMMA PricesStay ==
  ASSUME NEW js, NEW ks, DOMAIN ks = DOMAIN js,
         \A j \in DOMAIN js : ks[j].price = js[j].price /\ ks[j].org = js[j].org /\ ks[j].status = js[j].status,
         NEW o, NEW statuses
  PROVE  PricesIn(ks, o, statuses) = PricesIn(js, o, statuses)
  <1> DEFINE f == [j \in DOMAIN js |-> js[j].price]
             g == [j \in DOMAIN ks |-> ks[j].price]
             A == {j \in DOMAIN js : Counts(js[j], o, statuses)}
             B == {j \in DOMAIN ks : Counts(ks[j], o, statuses)}
  <1>1. f = g
    OBVIOUS
  <1>2. A = B
    BY DEF Counts
  <1>3. PricesIn(js, o, statuses) = SumFunctionOnSet(f, A) /\ PricesIn(ks, o, statuses) = SumFunctionOnSet(g, B)
    BY DEF PricesIn
  <1> HIDE DEF f, g, A, B
  <1> QED
    BY <1>1, <1>2, <1>3, Zenon

LEMMA BidKeeps ==
  ASSUME EconomyInv, Bid
  PROVE  EconomyInv'
  <1> DEFINE S == JobSet
             More(i) == {o \in OrgSet : 2 * budget[o] >= jobs[i].price /\ SubmitBid(jobs[i], o)}
  <1>1. jobs \in Seq(S) /\ DOMAIN jobs = 1 .. Len(jobs) /\ Len(jobs) \in Nat /\ \A i \in DOMAIN jobs : jobs[i] \in JobSet
    <2>1. jobs \in Seq(S)
      BY DEF EconomyInv, JobsInv
    <2> HIDE DEF S
    <2>2. DOMAIN jobs = 1 .. Len(jobs) /\ Len(jobs) \in Nat /\ \A i \in DOMAIN jobs : jobs[i] \in S
      BY <2>1, ListOf
    <2> QED
      BY <2>1, <2>2 DEF S
  <1>2. \A i \in DOMAIN jobs : jobs[i].status = "open"
    BY DEF EconomyInv, JobsInv, Bid
  <1>3. jobs' = [i \in DOMAIN jobs |-> [jobs[i] EXCEPT !.bids = jobs[i].bids \cup More(i)]]
    BY DEF Bid
  <1>4. UNCHANGED <<purse, trust, prices, budget, ledger, history, memory, file, crashes, hash>>
        /\ pc = "bid" /\ pc' = "allocate" /\ at' = 0
    BY DEF Bid, books
  <1>5. \A i \in DOMAIN jobs : More(i) \subseteq OrgSet /\ \A o \in More(i) : BidOf(jobs[i]) <= 10 * purse[o]
    BY DEF SubmitBid
  <1> HIDE DEF More
  <1>6. ASSUME NEW i \in DOMAIN jobs
        PROVE  /\ jobs'[i] \in JobSet /\ jobs'[i].price = jobs[i].price /\ jobs'[i].status = jobs[i].status
               /\ jobs'[i].org = jobs[i].org /\ jobs'[i].bids = jobs[i].bids \cup More(i)
    <2>1. jobs'[i] = [jobs[i] EXCEPT !.bids = jobs[i].bids \cup More(i)]
      BY <1>3
    <2>2. jobs[i] \in JobSet /\ More(i) \subseteq OrgSet
      BY <1>1, <1>5
    <2> QED
      BY <2>1, <2>2 DEF JobSet
  <1>7. jobs' \in Seq(S) /\ DOMAIN jobs' = DOMAIN jobs
    <2>1. jobs' \in [DOMAIN jobs -> S]
      BY <1>3, <1>6
    <2> HIDE DEF S
    <2> QED
      BY <1>1, <2>1, ListWith
  <1>8. Len(jobs') \in Nat
    BY <1>7, ListOf
  <1>9. JobsInv'
    <2>1. (hash \in Hashes)'
      BY <1>4 DEF EconomyInv, JobsInv, Hashes
    <2>2. at' \in Nat /\ at' <= Len(jobs')
      BY <1>4, <1>8
    <2>3. ASSUME NEW i \in DOMAIN jobs
          PROVE  /\ jobs'[i].org # "none" => jobs'[i].org \in jobs'[i].bids
                 /\ jobs'[i].status = "assigned" => jobs'[i].org # "none"
                 /\ jobs'[i].status = "open" /\ jobs'[i].org = "none"
      BY <1>2, <1>4, <1>6 DEF EconomyInv, JobsInv
    <2> QED
      BY <1>4, <1>7, <2>1, <2>2, <2>3 DEF JobsInv
  <1>10. ASSUME NEW o, NEW statuses
         PROVE  PricesOf(o, statuses)' = PricesOf(o, statuses)
    <2>1. PricesIn(jobs', o, statuses) = PricesIn(jobs, o, statuses)
      BY <1>6, <1>7, PricesStay
    <2> QED
      BY <2>1, PricesOfJobs
  <1>11. ASSUME NEW o
         PROVE  PricesOf(o, {"assigned"}) = 0 /\ PricesOf(o, {"completed", "failed"}) = 0
    <2>1. PricesIn(jobs, o, {"assigned"}) = 0 /\ PricesIn(jobs, o, {"completed", "failed"}) = 0
      BY <1>2, NothingToPay DEF Counts
    <2> QED
      BY <2>1, PricesOfJobs
  <1>12. BiddersCouldPay'
    <2> SUFFICES ASSUME NEW i \in DOMAIN jobs, NEW o \in jobs[i].bids \cup More(i)
                 PROVE  10 * (budget[o] + PricesOf(o, {"completed", "failed"})) >= BidOf(jobs[i])
      BY <1>4, <1>6, <1>7, <1>10 DEF BiddersCouldPay, BidOf
    <2>1. CASE o \in jobs[i].bids
      BY <2>1 DEF EconomyInv, BiddersCouldPay
    <2>2. CASE o \in More(i)
      <3>1. o \in OrgSet /\ BidOf(jobs[i]) <= 10 * purse[o]
        BY <1>5, <2>2
      <3>2. budget[o] = purse[o] + 0 /\ purse[o] \in Int
        BY <1>11, <3>1 DEF EconomyInv, MoneyBalances, BooksInv
      <3> QED
        BY <1>11, <3>1, <3>2
    <2> QED
      BY <2>1, <2>2
  <1>13. MoneyBalances' /\ CountsAgree' /\ BooksInv'
    BY <1>4, <1>10 DEF EconomyInv, MoneyBalances, CountsAgree, BooksInv
  <1>14. MemoryCovers'
    BY <1>4 DEF EconomyInv, MemoryCovers
  <1> QED
    BY <1>9, <1>12, <1>13, <1>14 DEF EconomyInv

\* The job the current phase deals with next
LEMMA JobInHand ==
  ASSUME EconomyInv, at < Len(jobs)
  PROVE  /\ at + 1 \in DOMAIN jobs /\ jobs[at + 1] \in JobSet /\ jobs \in Seq(JobSet) /\ at \in Nat
         /\ DOMAIN jobs = 1 .. Len(jobs) /\ Len(jobs) \in Nat /\ at + 1 <= Len(jobs)
  <1> DEFINE S == JobSet
  <1>1. jobs \in Seq(S) /\ at \in Nat
    BY DEF EconomyInv, JobsInv
  <1> HIDE DEF S
  <1>2. DOMAIN jobs = 1 .. Len(jobs) /\ Len(jobs) \in Nat /\ \A i \in DOMAIN jobs : jobs[i] \in S
    BY <1>1, ListOf
  <1>3. at + 1 \in DOMAIN jobs /\ at + 1 <= Len(jobs)
    BY <1>1, <1>2
  <1> QED
    BY <1>1, <1>2, <1>3 DEF S

LEMMA AllocateJobKeeps ==
  ASSUME EconomyInv, AllocateJob
  PROVE  EconomyInv'
  <1> DEFINE i == at + 1
             job == jobs[i]
             winner == Best(job)
  <1>1. /\ i \in DOMAIN jobs /\ job \in JobSet /\ jobs \in Seq(JobSet) /\ at \in Nat
        /\ DOMAIN jobs = 1 .. Len(jobs) /\ Len(jobs) \in Nat /\ i <= Len(jobs)
    BY JobInHand DEF AllocateJob
  <1>2. UNCHANGED <<pc, hash, regime, cycle, trust, prices, budget, ledger, history, memory, file, crashes>>
        /\ pc = "allocate" /\ at' = i
    BY DEF AllocateJob
  <1>3. /\ hash \in Hashes /\ (hash \in Hashes)'
        /\ \A k \in DOMAIN jobs : /\ jobs[k].org # "none" => jobs[k].org \in jobs[k].bids
                                  /\ jobs[k].status = "assigned" => jobs[k].org # "none"
                                  /\ jobs[k].status \in {"open", "assigned"}
                                  /\ k > at => jobs[k].status = "open" /\ jobs[k].org = "none"
    BY <1>2 DEF EconomyInv, JobsInv, Hashes
  <1>4. job.status = "open" /\ job.org = "none"
    BY <1>1, <1>3
  <1>5. CountsAgree' /\ MemoryCovers'
    BY <1>2 DEF EconomyInv, CountsAgree, MemoryCovers
  <1>6. CASE job.bids = {}
    <2>1. jobs' = jobs /\ purse' = purse
      BY <1>2, <1>6 DEF AllocateJob
    <2>2. JobsInv'
      BY <1>1, <1>2, <1>3, <2>1 DEF EconomyInv, JobsInv
    <2>3. ASSUME NEW o, NEW statuses PROVE PricesOf(o, statuses)' = PricesOf(o, statuses)
      BY <2>1, PricesOfJobs
    <2>4. BooksInv' /\ MoneyBalances' /\ BiddersCouldPay'
      BY <1>2, <2>1, <2>3 DEF EconomyInv, BooksInv, MoneyBalances, BiddersCouldPay
    <2> QED
      BY <1>5, <2>2, <2>4 DEF EconomyInv
  <1>7. CASE job.bids # {}
    <2>1. winner \in job.bids /\ winner \in OrgSet /\ winner # "none"
      <3>1. winner \in job.bids
        BY <1>1, <1>3, <1>7, BestBids
      <3> QED
        BY <1>1, <3>1, OrgsAssumption DEF JobSet, OrgSet
    <2> DEFINE new == [job EXCEPT !.status = "assigned", !.org = winner]
    <2>2. jobs' = [jobs EXCEPT ![i] = new] /\ purse' = [purse EXCEPT ![winner] = purse[winner] - job.price]
      BY <1>2, <1>7 DEF AllocateJob, Charge
    <2> HIDE DEF winner
    <2>3. /\ new \in JobSet /\ new.status = "assigned" /\ new.org = winner /\ new.price = job.price
          /\ new.bids = job.bids /\ job.price \in Nat
      BY <1>1, <2>1 DEF JobSet
    <2> HIDE DEF new
    <2>4. /\ jobs' \in Seq(JobSet) /\ Len(jobs') = Len(jobs) /\ DOMAIN jobs' = DOMAIN jobs
          /\ jobs'[i] = new /\ \A k \in DOMAIN jobs \ {i} : jobs'[k] = jobs[k]
      <3> HIDE DEF i
      <3> QED
        BY <1>1, <2>2, <2>3, JobReplaced
    <2> HIDE DEF job
    <2>5. JobsInv'
      <3>1. ASSUME NEW k \in DOMAIN jobs
            PROVE  /\ jobs'[k].org # "none" => jobs'[k].org \in jobs'[k].bids
                   /\ jobs'[k].status = "assigned" => jobs'[k].org # "none"
                   /\ jobs'[k].status \in {"open", "assigned"}
                   /\ k > i => jobs'[k].status = "open" /\ jobs'[k].org = "none"
        <4>1. CASE k = i
          BY <1>1, <2>1, <2>3, <2>4, <4>1
        <4>2. CASE k # i
          BY <1>1, <1>3, <2>4, <4>2
        <4> QED
          BY <4>1, <4>2
      <3>2. i \in Nat /\ i <= Len(jobs')
        BY <1>1, <2>4
      <3> HIDE DEF i
      <3> QED
        BY <1>2, <1>3, <2>4, <3>1, <3>2 DEF JobsInv
    <2>6. ASSUME NEW o, NEW statuses
          PROVE  /\ PricesOf(o, statuses) \in Int
                 /\ PricesOf(o, statuses)'
                      = PricesOf(o, statuses) + (IF Counts(new, o, statuses) THEN job.price ELSE 0)
                                              - (IF Counts(job, o, statuses) THEN job.price ELSE 0)
      <3> HIDE DEF i
      <3>1. /\ PricesIn(jobs, o, statuses) \in Int
            /\ PricesIn(jobs', o, statuses)
                 = PricesIn(jobs, o, statuses) + (IF Counts(jobs'[i], o, statuses) THEN jobs[i].price ELSE 0)
                                               - (IF Counts(jobs[i], o, statuses) THEN jobs[i].price ELSE 0)
        <4>1. jobs'[i].price = jobs[i].price
          BY <2>3, <2>4 DEF job
        <4>2. DOMAIN jobs' = DOMAIN jobs /\ \A k \in DOMAIN jobs \ {i} : jobs'[k] = jobs[k]
          BY <2>4
        <4>3. jobs \in Seq(JobSet) /\ i \in DOMAIN jobs
          BY <1>1
        <4> QED
          BY <4>1, <4>2, <4>3, PriceMoves
      <3> QED
        BY <2>4, <3>1, PricesOfJobs DEF job
    <2>7. ASSUME NEW o
          PROVE  /\ PricesOf(o, {"assigned"}) \in Int
                 /\ PricesOf(o, {"assigned"})' = PricesOf(o, {"assigned"}) + (IF o = winner THEN job.price ELSE 0)
                 /\ PricesOf(o, {"completed", "failed"})' = PricesOf(o, {"completed", "failed"})
      <3>1. /\ Counts(new, o, {"assigned"}) <=> o = winner
            /\ ~Counts(job, o, {"assigned"})
            /\ ~Counts(new, o, {"completed", "failed"}) /\ ~Counts(job, o, {"completed", "failed"})
        BY <1>4, <2>3 DEF Counts
      <3> HIDE DEF i
      <3>2. PricesOf(o, {"completed", "failed"})' = PricesOf(o, {"completed", "failed"}) + 0 - 0
            /\ PricesOf(o, {"completed", "failed"}) \in Int
        BY <2>6, <3>1
      <3>3. /\ PricesOf(o, {"assigned"})' = PricesOf(o, {"assigned"}) + (IF o = winner THEN job.price ELSE 0) - 0
            /\ PricesOf(o, {"assigned"}) \in Int
        BY <2>6, <3>1
      <3> QED
        BY <2>3, <3>2, <3>3
    <2> HIDE DEF i
    <2>8. purse' \in [OrgSet -> Int] /\ \A o \in OrgSet : purse'[o] = purse[o] - (IF o = winner THEN job.price ELSE 0)
      <3>1. purse \in [OrgSet -> Int]
        BY DEF EconomyInv, BooksInv
      <3>2. ASSUME NEW o \in OrgSet PROVE purse'[o] = purse[o] - (IF o = winner THEN job.price ELSE 0) /\ purse'[o] \in Int
        <4>1. purse[o] \in Int /\ purse[winner] \in Int
          BY <2>1, <3>1
        <4> QED
          BY <2>1, <2>2, <2>3, <3>1, <4>1
      <3>3. purse' \in [OrgSet -> Int]
        BY <2>2, <3>1, <3>2
      <3> QED
        BY <3>2, <3>3
    <2>9. BooksInv'
      BY <1>2, <2>8 DEF EconomyInv, BooksInv
    <2>10. MoneyBalances'
      <3> SUFFICES ASSUME NEW o \in OrgSet
                   PROVE  /\ budget[o] = purse'[o] + PricesOf(o, {"assigned"})'
                          /\ budget[o] + prices[o].sum = Purse
        BY <1>2 DEF MoneyBalances
      <3>1. budget[o] = purse[o] + PricesOf(o, {"assigned"}) /\ budget[o] + prices[o].sum = Purse /\ purse[o] \in Int
        BY DEF EconomyInv, MoneyBalances, BooksInv
      <3> QED
        BY <2>3, <2>7, <2>8, <3>1
    <2>11. BiddersCouldPay'
      <3> SUFFICES ASSUME NEW k \in DOMAIN jobs, NEW o \in jobs'[k].bids
                   PROVE  10 * (budget[o] + PricesOf(o, {"completed", "failed"})') >= BidOf(jobs'[k])
        BY <1>2, <2>4 DEF BiddersCouldPay, BidOf
      <3>1. jobs'[k].bids = jobs[k].bids /\ jobs'[k].price = jobs[k].price
        BY <1>1, <2>3, <2>4 DEF job
      <3> QED
        BY <2>7, <3>1 DEF EconomyInv, BiddersCouldPay, BidOf
    <2> QED
      BY <1>5, <2>5, <2>9, <2>10, <2>11 DEF EconomyInv
  <1> QED
    BY <1>6, <1>7

\* A phase is through, or a job that nobody won is passed over.
LEMMA PassOverKeeps ==
  ASSUME EconomyInv, UNCHANGED books, UNCHANGED <<hash, jobs, crashes>>, JobsInv', pc \in {"allocate", "execute"},
         pc' = "execute"
  PROVE  EconomyInv'
  <1>1. ASSUME NEW o, NEW statuses PROVE PricesOf(o, statuses)' = PricesOf(o, statuses)
    BY PricesOfJobs
  <1>2. UNCHANGED <<purse, trust, prices, budget, ledger, history, memory, file, crashes, jobs>>
    BY DEF books
  <1>3. BooksInv' /\ CountsAgree' /\ MemoryCovers'
    BY <1>2 DEF EconomyInv, BooksInv, CountsAgree, MemoryCovers
  <1>4. MoneyBalances' /\ BiddersCouldPay'
    BY <1>1, <1>2 DEF EconomyInv, MoneyBalances, BiddersCouldPay
  <1> QED
    BY <1>3, <1>4 DEF EconomyInv

LEMMA AllocatedKeeps ==
  ASSUME EconomyInv, Allocated
  PROVE  EconomyInv'
  <1> DEFINE S == JobSet
  <1>1. jobs \in Seq(S) /\ Len(jobs) \in Nat /\ DOMAIN jobs = 1 .. Len(jobs)
    <2>1. jobs \in Seq(S)
      BY DEF EconomyInv, JobsInv
    <2> HIDE DEF S
    <2> QED
      BY <2>1, ListOf
  <1>2. UNCHANGED books /\ UNCHANGED <<hash, jobs, crashes>> /\ pc = "allocate" /\ pc' = "execute" /\ at' = 0
    BY DEF Allocated
  <1>3. JobsInv'
    <2>1. \A i \in DOMAIN jobs : ~(i <= 0)
      BY <1>1
    <2>2. (hash \in Hashes)'
      BY <1>2 DEF EconomyInv, JobsInv, Hashes
    <2> QED
      BY <1>1, <1>2, <2>1, <2>2 DEF EconomyInv, JobsInv
  <1> QED
    BY <1>2, <1>3, PassOverKeeps

LEMMA SettleKeeps ==
  ASSUME EconomyInv, Settle
  PROVE  EconomyInv'
  <1> DEFINE i == at + 1
             job == jobs[i]
             o == job.org
             ok == Succeeds(job)
  <1>1. /\ i \in DOMAIN jobs /\ job \in JobSet /\ jobs \in Seq(JobSet) /\ at \in Nat
        /\ DOMAIN jobs = 1 .. Len(jobs) /\ Len(jobs) \in Nat /\ i <= Len(jobs)
    BY JobInHand DEF Settle
  <1>2. pc = "execute" /\ UNCHANGED <<hash, regime, cycle, crashes>>
    BY DEF Settle
  <1>3. /\ hash \in Hashes /\ (hash \in Hashes)'
        /\ \A k \in DOMAIN jobs : /\ jobs[k].org # "none" => jobs[k].org \in jobs[k].bids
                                  /\ jobs[k].status = "assigned" => jobs[k].org # "none"
                                  /\ k <= at => jobs[k].status # "assigned"
    BY <1>2 DEF EconomyInv, JobsInv, Hashes
  <1>4. CASE job.status # "assigned"
    <2>1. at' = i /\ UNCHANGED <<pc, jobs>> /\ UNCHANGED books
      BY <1>4 DEF Settle
    <2>2. JobsInv'
      <3>1. ASSUME NEW k \in DOMAIN jobs, k <= i PROVE jobs[k].status # "assigned"
        <4>1. k = i \/ k <= at
          BY <1>1, <3>1
        <4> QED
          BY <1>3, <1>4, <4>1
      <3>2. i \in Nat
        BY <1>1
      <3> HIDE DEF i, job
      <3> QED
        BY <1>1, <1>2, <1>3, <2>1, <3>1, <3>2 DEF JobsInv
    <2> QED
      BY <1>2, <2>1, <2>2, PassOverKeeps
  <1>5. CASE job.status = "assigned"
    <2> DEFINE new == [job EXCEPT !.status = IF ok THEN "completed" ELSE "failed"]
    <2>1. /\ jobs' = [jobs EXCEPT ![i] = new] /\ pc' = "remember" /\ at' = at /\ purse' = purse
          /\ budget' = [budget EXCEPT ![o] = budget[o] - job.price]
          /\ prices' = [prices EXCEPT ![o] = [n |-> prices[o].n + 1, sum |-> prices[o].sum + job.price]]
      BY <1>5 DEF Settle, RecordOutcome
    <2>2. /\ ledger' = [ledger EXCEPT ![o].completed = @ + 1, ![o].failed = @ + (IF ok THEN 0 ELSE 1)]
          /\ history' = [history EXCEPT ![o].n = @ + 1, ![o].good = @ + (IF ok THEN 1 ELSE 0)]
          /\ memory' = [memory EXCEPT !.records[o] = @ + 1] /\ file' = memory'
      BY <1>5 DEF Settle, LedgerRecordJob, EvaluateJob, MemoryRecordJob, Save
    <2>3. o \in OrgSet /\ o # "none" /\ job.price \in Nat
      BY <1>1, <1>3, <1>5 DEF JobSet
    <2>4. /\ new \in JobSet /\ new.status \in {"completed", "failed"} /\ new.org = o
          /\ new.price = job.price /\ new.bids = job.bids
      BY <1>1 DEF JobSet
    <2> HIDE DEF new, ok
    <2>5. /\ jobs' \in Seq(JobSet) /\ Len(jobs') = Len(jobs) /\ DOMAIN jobs' = DOMAIN jobs
          /\ jobs'[i] = new /\ \A k \in DOMAIN jobs \ {i} : jobs'[k] = jobs[k]
      <3> HIDE DEF i
      <3> QED
        BY <1>1, <2>1, <2>4, JobReplaced
    <2> HIDE DEF o
    <2>6. JobsInv'
      <3>1. ASSUME NEW k \in DOMAIN jobs
            PROVE  /\ jobs'[k].org # "none" => jobs'[k].org \in jobs'[k].bids
                   /\ jobs'[k].status = "assigned" => jobs'[k].org # "none"
                   /\ k <= i => jobs'[k].status # "assigned"
        <4>1. CASE k = i
          <5>1. jobs'[k] = new /\ job.org # "none" => job.org \in job.bids
            BY <1>1, <1>3, <2>5, <4>1
          <5> QED
            BY <2>3, <2>4, <2>5, <4>1, <5>1 DEF o
        <4>2. CASE k # i
          <5>1. k <= i => k <= at
            BY <1>1, <4>2
          <5> QED
            BY <1>3, <2>5, <4>2, <5>1
        <4> QED
          BY <4>1, <4>2
      <3>2. jobs'[at + 1].org # "none" /\ at < Len(jobs') /\ at <= Len(jobs')
        BY <1>1, <2>3, <2>4, <2>5
      <3>3. \A k \in DOMAIN jobs : k <= at + 1 => jobs'[k].status # "assigned"
        BY <3>1
      <3> HIDE DEF i, job
      <3> QED
        BY <1>1, <1>2, <1>3, <2>1, <2>5, <3>1, <3>2, <3>3 DEF JobsInv
    <2>7. ASSUME NEW q, NEW statuses
          PROVE  /\ PricesOf(q, statuses) \in Int
                 /\ PricesOf(q, statuses)'
                      = PricesOf(q, statuses) + (IF Counts(new, q, statuses) THEN job.price ELSE 0)
                                              - (IF Counts(job, q, statuses) THEN job.price ELSE 0)
      <3> HIDE DEF i
      <3>1. /\ PricesIn(jobs, q, statuses) \in Int
            /\ PricesIn(jobs', q, statuses)
                 = PricesIn(jobs, q, statuses) + (IF Counts(jobs'[i], q, statuses) THEN jobs[i].price ELSE 0)
                                               - (IF Counts(jobs[i], q, statuses) THEN jobs[i].price ELSE 0)
        <4>1. jobs'[i].price = jobs[i].price
          BY <2>4, <2>5
        <4>2. DOMAIN jobs' = DOMAIN jobs /\ \A k \in DOMAIN jobs \ {i} : jobs'[k] = jobs[k]
          BY <2>5
        <4>3. jobs \in Seq(JobSet) /\ i \in DOMAIN jobs
          BY <1>1
        <4> QED
          BY <4>1, <4>2, <4>3, PriceMoves
      <3> QED
        BY <2>5, <3>1, PricesOfJobs
    <2>8. ASSUME NEW q
          PROVE  /\ PricesOf(q, {"assigned"}) \in Int /\ PricesOf(q, {"completed", "failed"}) \in Int
                 /\ PricesOf(q, {"assigned"})' = PricesOf(q, {"assigned"}) - (IF q = o THEN job.price ELSE 0)
                 /\ PricesOf(q, {"completed", "failed"})'
                      = PricesOf(q, {"completed", "failed"}) + (IF q = o THEN job.price ELSE 0)
      <3>1. /\ Counts(job, q, {"assigned"}) <=> q = o
            /\ ~Counts(new, q, {"assigned"})
            /\ Counts(new, q, {"completed", "failed"}) <=> q = o
            /\ ~Counts(job, q, {"completed", "failed"})
        BY <1>5, <2>4 DEF Counts, o
      <3> HIDE DEF i, job
      <3>2. /\ PricesOf(q, {"completed", "failed"})'
                 = PricesOf(q, {"completed", "failed"}) + (IF q = o THEN job.price ELSE 0) - 0
            /\ PricesOf(q, {"completed", "failed"}) \in Int
        BY <2>7, <3>1
      <3>3. /\ PricesOf(q, {"assigned"})' = PricesOf(q, {"assigned"}) + 0 - (IF q = o THEN job.price ELSE 0)
            /\ PricesOf(q, {"assigned"}) \in Int
        BY <2>7, <3>1
      <3> QED
        BY <2>3, <3>2, <3>3
    <2> HIDE DEF i, job
    <2>9. /\ budget \in [OrgSet -> Int] /\ prices \in [OrgSet -> [n : Int, sum : Int]]
          /\ ledger \in [OrgSet -> [completed : Int, failed : Int]] /\ history \in [OrgSet -> [n : Int, good : Int]]
          /\ memory \in [records : [OrgSet -> Int], performance : [OrgSet -> Int]]
      BY DEF EconomyInv, BooksInv
    <2>10. ASSUME NEW q \in OrgSet
           PROVE  /\ budget'[q] = budget[q] - (IF q = o THEN job.price ELSE 0) /\ budget'[q] \in Int
                  /\ prices'[q].n = prices[q].n + (IF q = o THEN 1 ELSE 0)
                  /\ prices'[q].sum = prices[q].sum + (IF q = o THEN job.price ELSE 0)
                  /\ prices'[q] \in [n : Int, sum : Int]
      <3>1. budget[q] \in Int /\ prices[q] \in [n : Int, sum : Int]
        BY <2>9
      <3>2. CASE q = o
        BY <2>1, <2>3, <2>9, <3>1, <3>2
      <3>3. CASE q # o
        BY <2>1, <2>3, <2>9, <3>1, <3>3
      <3> QED
        BY <3>2, <3>3
    <2>11. ASSUME NEW q \in OrgSet
           PROVE  /\ ledger'[q].completed = ledger[q].completed + (IF q = o THEN 1 ELSE 0)
                  /\ ledger'[q].failed = ledger[q].failed + (IF q = o /\ ~ok THEN 1 ELSE 0)
                  /\ ledger'[q] \in [completed : Int, failed : Int]
      <3>1. ledger[q] \in [completed : Int, failed : Int]
        BY <2>9
      <3>2. CASE q = o
        BY <2>2, <2>3, <2>9, <3>1, <3>2
      <3>3. CASE q # o
        BY <2>2, <2>3, <2>9, <3>1, <3>3
      <3> QED
        BY <3>2, <3>3
    <2>12. ASSUME NEW q \in OrgSet
           PROVE  /\ history'[q].n = history[q].n + (IF q = o THEN 1 ELSE 0)
                  /\ history'[q].good = history[q].good + (IF q = o /\ ok THEN 1 ELSE 0)
                  /\ history'[q] \in [n : Int, good : Int]
      <3>1. history[q] \in [n : Int, good : Int]
        BY <2>9
      <3>2. CASE q = o
        BY <2>2, <2>3, <2>9, <3>1, <3>2
      <3>3. CASE q # o
        BY <2>2, <2>3, <2>9, <3>1, <3>3
      <3> QED
        BY <3>2, <3>3
    <2>13. /\ memory' \in [records : [OrgSet -> Int], performance : [OrgSet -> Int]]
           /\ memory'.performance = memory.performance
           /\ \A q \in OrgSet : memory'.records[q] = memory.records[q] + (IF q = o THEN 1 ELSE 0)
      <3>1. memory.records \in [OrgSet -> Int]
        BY <2>9
      <3>2. memory'.records = [memory.records EXCEPT ![o] = memory.records[o] + 1]
        BY <2>2, <2>9
      <3>3. memory'.performance = memory.performance /\ memory' = [records |-> memory'.records, performance |-> memory.performance]
        BY <2>2, <2>9
      <3>4. \A q \in OrgSet : memory'.records[q] = memory.records[q] + (IF q = o THEN 1 ELSE 0)
        BY <2>3, <3>1, <3>2
      <3>5. memory'.records \in [OrgSet -> Int]
        BY <2>3, <3>1, <3>2
      <3> QED
        BY <2>9, <3>3, <3>4, <3>5
    <2>14. BooksInv'
      <3>1. budget' \in [OrgSet -> Int] /\ prices' \in [OrgSet -> [n : Int, sum : Int]]
        BY <2>1, <2>9, <2>10
      <3>2. ledger' \in [OrgSet -> [completed : Int, failed : Int]]
        BY <2>2, <2>9, <2>11
      <3>3. history' \in [OrgSet -> [n : Int, good : Int]]
        BY <2>2, <2>9, <2>12
      <3> QED
        BY <1>2, <2>1, <2>2, <2>13, <3>1, <3>2, <3>3 DEF EconomyInv, BooksInv
    <2>15. MoneyBalances'
      <3> SUFFICES ASSUME NEW q \in OrgSet
                   PROVE  /\ budget'[q] = purse[q] + PricesOf(q, {"assigned"})'
                          /\ budget'[q] + prices'[q].sum = Purse
        BY <2>1 DEF MoneyBalances
      <3>1. /\ budget[q] = purse[q] + PricesOf(q, {"assigned"}) /\ budget[q] + prices[q].sum = Purse
            /\ purse[q] \in Int /\ budget[q] \in Int /\ prices[q].sum \in Int
        BY <2>9 DEF EconomyInv, MoneyBalances, BooksInv
      <3>2. budget'[q] = purse[q] + PricesOf(q, {"assigned"})'
        BY <2>3, <2>8, <2>10, <3>1
      <3>3. budget'[q] + prices'[q].sum = Purse
        BY <2>3, <2>10, <3>1
      <3> QED
        BY <3>2, <3>3
    <2>16. CountsAgree'
      <3> SUFFICES ASSUME NEW q \in OrgSet
                   PROVE  /\ ledger'[q].completed = prices'[q].n /\ history'[q].n = prices'[q].n
                          /\ history'[q].good = ledger'[q].completed - ledger'[q].failed
        BY DEF CountsAgree
      <3>1. /\ ledger[q].completed = prices[q].n /\ history[q].n = prices[q].n
            /\ history[q].good = ledger[q].completed - ledger[q].failed
        BY DEF EconomyInv, CountsAgree
      <3>2. ledger[q].completed \in Int /\ ledger[q].failed \in Int
        BY <2>9
      <3> QED
        BY <2>10, <2>11, <2>12, <3>1, <3>2
    <2>17. MemoryCovers'
      <3>1. jobs'[at + 1].org = o
        BY <2>4, <2>5 DEF i
      <3> SUFFICES ASSUME NEW q \in OrgSet
                   PROVE  memory'.performance[q] + (IF q = o THEN 1 ELSE 0)
                            \in memory'.records[q] - crashes .. memory'.records[q]
        BY <1>2, <2>1, <3>1 DEF MemoryCovers
      <3>2. memory.performance[q] + 0 \in memory.records[q] - crashes .. memory.records[q]
        BY <1>2 DEF EconomyInv, MemoryCovers
      <3>3. memory.performance[q] \in Int /\ memory.records[q] \in Int /\ crashes \in Nat
        BY <2>9 DEF EconomyInv, BooksInv
      <3> QED
        BY <2>13, <3>2, <3>3
    <2>18. BiddersCouldPay'
      <3> SUFFICES ASSUME NEW k \in DOMAIN jobs, NEW q \in jobs'[k].bids
                   PROVE  10 * (budget'[q] + PricesOf(q, {"completed", "failed"})') >= BidOf(jobs'[k])
        BY <2>5 DEF BiddersCouldPay, BidOf
      <3>1. jobs'[k].bids = jobs[k].bids /\ jobs'[k].price = jobs[k].price
        <4>1. CASE k = i
          BY <2>4, <2>5, <4>1 DEF job
        <4>2. CASE k # i
          BY <2>5, <4>2
        <4> QED
          BY <4>1, <4>2
      <3>2. 10 * (budget[q] + PricesOf(q, {"completed", "failed"})) >= BidOf(jobs'[k])
        BY <3>1 DEF EconomyInv, BiddersCouldPay, BidOf
      <3>3. q \in OrgSet
        <4> DEFINE S == JobSet
        <4>1. jobs' \in Seq(S)
          BY <2>5
        <4> HIDE DEF S
        <4>2. jobs'[k] \in S
          BY <2>5, <4>1, ListOf
        <4> QED
          BY <4>2 DEF S, JobSet
      <3>4. budget'[q] + PricesOf(q, {"completed", "failed"})' = budget[q] + PricesOf(q, {"completed", "failed"})
        BY <2>3, <2>8, <2>9, <2>10, <3>3
      <3> QED
        BY <3>2, <3>4
    <2> QED
      BY <2>6, <2>14, <2>15, <2>16, <2>17, <2>18 DEF EconomyInv
  <1> QED
    BY <1>4, <1>5

LEMMA RememberKeeps ==
  ASSUME EconomyInv, Remember
  PROVE  EconomyInv'
  <1> DEFINE i == at + 1
             o == jobs[i].org
  <1>1. pc = "remember" /\ at < Len(jobs) /\ o # "none" /\ \A k \in DOMAIN jobs : k <= i => jobs[k].status # "assigned"
    BY DEF EconomyInv, JobsInv, Remember
  <1>2. /\ i \in DOMAIN jobs /\ jobs[i] \in JobSet /\ at \in Nat /\ i <= Len(jobs) /\ Len(jobs) \in Nat
        /\ o \in OrgSet
    <2>1. /\ i \in DOMAIN jobs /\ jobs[i] \in JobSet /\ at \in Nat /\ i <= Len(jobs) /\ Len(jobs) \in Nat
      BY <1>1, JobInHand
    <2> QED
      BY <1>1, <2>1 DEF JobSet
  <1>3. /\ UNCHANGED <<hash, regime, cycle, jobs, purse, trust, prices, budget, ledger, history, crashes>>
        /\ at' = i /\ pc' = "execute" /\ file' = memory'
        /\ memory' = [memory EXCEPT !.performance[o] = @ + 1]
    BY DEF Remember, UpdateOrgPerformance, Save
  <1> HIDE DEF o
  <1>4. /\ memory' \in [records : [OrgSet -> Int], performance : [OrgSet -> Int]]
        /\ memory'.records = memory.records
        /\ \A q \in OrgSet : memory'.performance[q] = memory.performance[q] + (IF q = o THEN 1 ELSE 0)
    <2>0. memory \in [records : [OrgSet -> Int], performance : [OrgSet -> Int]]
      BY DEF EconomyInv, BooksInv
    <2>1. memory.performance \in [OrgSet -> Int] /\ memory.records \in [OrgSet -> Int]
      BY <2>0
    <2>2. memory'.performance = [memory.performance EXCEPT ![o] = memory.performance[o] + 1]
      BY <1>3, <2>0
    <2>3. memory'.records = memory.records /\ memory' = [records |-> memory.records, performance |-> memory'.performance]
      BY <1>3, <2>0
    <2>4. \A q \in OrgSet : memory'.performance[q] = memory.performance[q] + (IF q = o THEN 1 ELSE 0)
      BY <1>2, <2>1, <2>2
    <2>5. memory'.performance \in [OrgSet -> Int]
      BY <1>2, <2>1, <2>2
    <2> QED
      BY <2>1, <2>3, <2>4, <2>5
  <1>5. JobsInv'
    <2>1. (hash \in Hashes)'
      BY <1>3 DEF EconomyInv, JobsInv, Hashes
    <2>2. i \in Nat
      BY <1>2
    <2> HIDE DEF i
    <2> QED
      BY <1>1, <1>2, <1>3, <2>1, <2>2 DEF EconomyInv, JobsInv
  <1>6. BooksInv' /\ CountsAgree'
    BY <1>3, <1>4 DEF EconomyInv, BooksInv, CountsAgree
  <1>7. ASSUME NEW q, NEW statuses PROVE PricesOf(q, statuses)' = PricesOf(q, statuses)
    BY <1>3, PricesOfJobs
  <1>8. MoneyBalances' /\ BiddersCouldPay'
    BY <1>3, <1>7 DEF EconomyInv, MoneyBalances, BiddersCouldPay
  <1>9. MemoryCovers'
    <2> SUFFICES ASSUME NEW q \in OrgSet
                 PROVE  memory'.performance[q] + 0 \in memory'.records[q] - crashes .. memory'.records[q]
      BY <1>3 DEF MemoryCovers
    <2>1. memory.performance[q] + (IF q = o THEN 1 ELSE 0) \in memory.records[q] - crashes .. memory.records[q]
      BY <1>1, <1>2 DEF EconomyInv, MemoryCovers, o
    <2>2. memory.performance[q] \in Int /\ memory.records[q] \in Int /\ crashes \in Nat
      BY DEF EconomyInv, BooksInv
    <2> QED
      BY <1>4, <2>1, <2>2
  <1> QED
    BY <1>5, <1>6, <1>8, <1>9 DEF EconomyInv

LEMMA CloseKeeps ==
  ASSUME EconomyInv, Close
  PROVE  EconomyInv'
  <1>1. /\ pc = "execute" /\ at = Len(jobs) /\ jobs' = <<>> /\ at' = 0 /\ pc' = "observe" /\ file' = memory
        /\ UNCHANGED <<hash, purse, trust, prices, budget, ledger, history, memory, crashes>>
    BY DEF Close
  <1>2. \A i \in DOMAIN jobs : jobs[i].status # "assigned"
    <2> DEFINE S == JobSet
    <2>1. jobs \in Seq(S)
      BY DEF EconomyInv, JobsInv
    <2> HIDE DEF S
    <2>2. DOMAIN jobs = 1 .. Len(jobs) /\ Len(jobs) \in Nat
      BY <2>1, ListOf
    <2>3. \A i \in DOMAIN jobs : i <= at
      BY <1>1, <2>2
    <2> QED
      BY <1>1, <2>3 DEF EconomyInv, JobsInv
  <1>3. JobsInv'
    BY <1>1 DEF EconomyInv, JobsInv, Hashes
  <1>4. ASSUME NEW o PROVE PricesOf(o, {"assigned"}) = 0 /\ PricesOf(o, {"assigned"})' = 0
    <2>1. PricesIn(jobs, o, {"assigned"}) = 0
      BY <1>2, NothingToPay DEF Counts
    <2>2. PricesIn(jobs', o, {"assigned"}) = 0
      BY <1>1, NothingToPay
    <2> QED
      BY <2>1, <2>2, PricesOfJobs
  <1>5. MoneyBalances' /\ CountsAgree' /\ BooksInv' /\ MemoryCovers'
    BY <1>1, <1>4 DEF EconomyInv, MoneyBalances, CountsAgree, BooksInv, MemoryCovers
  <1>6. BiddersCouldPay'
    BY <1>1 DEF BiddersCouldPay
  <1> QED
    BY <1>3, <1>5, <1>6 DEF EconomyInv

LEMMA RestartKeeps ==
  ASSUME EconomyInv, Restart
  PROVE  EconomyInv'
  <1>1. /\ pc' = "observe" /\ jobs' = <<>> /\ at' = 0 /\ (hash \in Hashes)'
        /\ purse' = [o \in OrgSet |-> Purse] /\ budget' = [o \in OrgSet |-> Purse]
        /\ prices' = [o \in OrgSet |-> [n |-> 0, sum |-> 0]]
        /\ ledger' = [o \in OrgSet |-> [completed |-> 0, failed |-> 0]]
        /\ history' = [o \in OrgSet |-> [n |-> 0, good |-> 0]]
        /\ crashes' = crashes + 1 /\ file' \in {memory, Blank} /\ memory' = file' /\ crashes \in Nat
    BY DEF Restart, New, Load, EconomyInv, BooksInv, Hashes
  <1>2. JobsInv'
    BY <1>1 DEF JobsInv
  <1>3. file' \in [records : [OrgSet -> Int], performance : [OrgSet -> Int]]
    BY <1>1 DEF EconomyInv, BooksInv, Blank, Zero
  <1>4. BooksInv'
    BY <1>1, <1>3, PurseAssumption DEF BooksInv
  <1>5. ASSUME NEW o PROVE PricesOf(o, {"assigned"})' = 0
    <2>1. PricesIn(jobs', o, {"assigned"}) = 0
      BY <1>1, NothingToPay
    <2> QED
      BY <2>1, PricesOfJobs
  <1>6. MoneyBalances'
    BY <1>1, <1>5, PurseAssumption DEF MoneyBalances
  <1>7. CountsAgree'
    BY <1>1 DEF CountsAgree
  <1>8. MemoryCovers'
    <2> SUFFICES ASSUME NEW o \in OrgSet
                 PROVE  memory'.performance[o] + 0 \in memory'.records[o] - crashes' .. memory'.records[o]
      BY <1>1 DEF MemoryCovers
    <2>1. CASE memory' = Blank
      BY <1>1, <2>1 DEF Blank, Zero
    <2>2. CASE memory' = memory
      <3>1. PICK open \in {0, 1} :
              memory.performance[o] + open \in memory.records[o] - crashes .. memory.records[o]
        BY DEF EconomyInv, MemoryCovers
      <3>2. memory.performance[o] \in Int /\ memory.records[o] \in Int
        BY DEF EconomyInv, BooksInv
      <3> QED
        BY <1>1, <2>2, <3>1, <3>2
    <2> QED
      BY <1>1, <2>1, <2>2
  <1>9. BiddersCouldPay'
    BY <1>1 DEF BiddersCouldPay
  <1> QED
    BY <1>2, <1>4, <1>6, <1>7, <1>8, <1>9 DEF EconomyInv

LEMMA EconomyStep == EconomyInv /\ [EconomyNext]_evars => EconomyInv'
  <1>1. ASSUME EconomyInv, UNCHANGED evars PROVE EconomyInv'
    <2>1. ASSUME NEW o, NEW statuses PROVE PricesOf(o, statuses)' = PricesOf(o, statuses)
      BY <1>1, PricesOfJobs DEF evars
    <2>2. JobsInv' /\ BooksInv' /\ CountsAgree' /\ MemoryCovers'
      BY <1>1 DEF evars, EconomyInv, JobsInv, Hashes, BooksInv, CountsAgree, MemoryCovers
    <2>3. MoneyBalances' /\ BiddersCouldPay'
      BY <1>1, <2>1 DEF evars, EconomyInv, MoneyBalances, BiddersCouldPay
    <2> QED
      BY <2>2, <2>3 DEF EconomyInv
  <1> QED
    BY <1>1, PostKeeps, BidKeeps, AllocateJobKeeps, AllocatedKeeps, SettleKeeps, RememberKeeps, CloseKeeps,
       RestartKeeps DEF EconomyNext, Cycle

\* The six books of a job agree after every step and every restart, and no job went to an
\* organisation that could not have paid it, for any organisations, any purses, any number
\* of cycles and of crashes (taar_v8.single_cycle).
THEOREM BooksAlwaysAgree == EconomySpec => []BooksAgree
  <1>1. EconomyInv => BooksAgree
    <2> SUFFICES ASSUME EconomyInv PROVE WinnersCouldPay
      BY DEF EconomyInv, BooksAgree
    <2> SUFFICES ASSUME NEW i \in DOMAIN jobs, jobs[i].org \in OrgSet
                 PROVE  10 * (budget[jobs[i].org] + PricesOf(jobs[i].org, {"completed", "failed"})) >= BidOf(jobs[i])
      BY DEF WinnersCouldPay
    <2>1. jobs[i].org \in jobs[i].bids
      BY OrgsAssumption DEF EconomyInv, JobsInv, OrgSet
    <2> QED
      BY <2>1 DEF EconomyInv, BiddersCouldPay
  <1> QED
    BY <1>1, EconomyAtFirst, EconomyStep, PTL DEF EconomySpec
=============================================================================
