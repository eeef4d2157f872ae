---------------------------- MODULE MCGovernance ----------------------------
(***************************************************************************)
(* The programs that give out money or permission share no state: markets  *)
(* and budgets, policy kernels and the layers over them, the federation's  *)
(* pipeline, the way of a decision to reality and the meta-orchestration.  *)
(* One run checks each of them by itself, the one that is checked being    *)
(* chosen at the start.                                                    *)
(***************************************************************************)
EXTENDS Economy, Corporation, TaskMarket, Fabric, Civilization,
        ProofLayer, FederationKernel, FederationOS, Reality, Meta

VARIABLE program

MCOrgs == <<"dev", "ops">>
MCReliabilities == {75, 99}
MCComplexities == {89}
MCKinds == {[risk |-> "low", cost |-> 1, value |-> 10, ayes |-> 0],
            [risk |-> "medium", cost |-> 2, value |-> 10, ayes |-> 3],
            [risk |-> "high", cost |-> 4, value |-> 16, ayes |-> 2],
            [risk |-> "critical", cost |-> 2, value |-> 10, ayes |-> 5]}

\* A plan no rule objects to, and plans that break a rule of each severity or two.
Calm == [gpu |-> 45, ram |-> 50, wantedGpu |-> 0, freeGpu |-> 1, wantedRam |-> 0, freeRam |-> 1,
         cost |-> 0, rate |-> 5, flags |-> {}]
MCPlans == {Calm, [Calm EXCEPT !.rate = 101], [Calm EXCEPT !.cost = 150, !.flags = {"audit_trail"}],
            [Calm EXCEPT !.gpu = 99, !.flags = {"audit_trail"}]}
MCRetired == {"gpu_overheat", "audit_trail"}

Plain == [user |-> "felix", role |-> "human_admin", type |-> "read", intent |-> "empty",
          affects |-> FALSE, forbidden |-> FALSE, critical |-> FALSE, self_destruct |-> FALSE,
          signed |-> TRUE, expired |-> FALSE]
MCActions == {Plain, [Plain EXCEPT !.intent = "confirmed"], [Plain EXCEPT !.intent = "unsafe"],
              [Plain EXCEPT !.forbidden = TRUE, !.role = "copilot", !.type = "shell"],
              [Plain EXCEPT !.role = "copilot", !.type = "write_file", !.intent = "fine"],
              [Plain EXCEPT !.role = "guest", !.type = "write_file"],
              [Plain EXCEPT !.signed = FALSE], [Plain EXCEPT !.expired = TRUE],
              [Plain EXCEPT !.critical = TRUE, !.type = "shutdown", !.intent = "fine"]}

MCRequests == {[plan |-> p, category |-> c, removes |-> FALSE] : p \in MCPlans, c \in {"write", "deploy"}}
MCJobs == {[mode |-> "ci", plan |-> Calm],
           [mode |-> "other", plan |-> [Calm EXCEPT !.flags = {"filesystem"}]]}

MCIntents == {[forbidden |-> FALSE, words |-> "none", atom |-> 0, acos |-> 1, aabs |-> 1],
              [forbidden |-> TRUE, words |-> "critical", atom |-> 1, acos |-> 0, aabs |-> 1]}
MCSwings == {-6, 6}

MCTexts == {[elevated |-> FALSE], [elevated |-> TRUE]}
MCSimulations == {[risk |-> 2, destructive |-> FALSE], [risk |-> 5, destructive |-> TRUE],
                  [risk |-> 7, destructive |-> FALSE]}
MCOsPlans == {<<>>, <<[type |-> "local_tool", service |-> "none"], [type |-> "aabs", service |-> "composio"]>>,
              <<[type |-> "aabs", service |-> "unknown"], [type |-> "swarm", service |-> "none"],
                [type |-> "other", service |-> "none"]>>}
MCDecisions == {"create_economy", "remove_economy", "deploy_service", "failover", "optimize_compute",
                "split_economy", "trade", "trade_goods"}
MCMetaTasks == {[hits |-> {}, levels |-> {"critical"}, words |-> {}],
                [hits |-> {0, 3}, levels |-> {"critical"}, words |-> {"spread"}],
                [hits |-> {2, 3, 6}, levels |-> {"high"}, words |-> {"market"}],
                [hits |-> {4}, levels |-> {"critical", "low"}, words |-> {}]}

Kernels == {"k1", "k2", "k3", "k4"}
Markets == {"v8", "corporation", "exchange", "v6", "v9"}
Layered == {"engine", "pel", "apex"}
MCInit ==
  /\ program \in Markets \cup Kernels \cup Layered \cup {"federation", "os", "reality", "v14"}
  /\ EconomyInit /\ CorpInit /\ MarketInit /\ FabricInit /\ CivInit
  /\ KernelsInit /\ ProofInit /\ FkInit /\ OsInit /\ RealityInit /\ MetaInit
  \* what is chosen at the start of a program is chosen in its own run
  /\ program # "v8" => hash = CHOOSE h \in Hashes : TRUE
  /\ program # "corporation" => \A e \in Employees : staff[e].tier = 1
  /\ program # "v6" => episodes = <<>>
  /\ program # "federation" => onDisk
  /\ program # "reality" => simulation
  /\ program # "v14" => meta.lower = {}

markets == <<evars, cvars, tvars, fvars, civ>>
rules == <<kvars, plvars>>
orders == <<fkvars, osvars, revars, mvars>>

\* The usages of the economies move alike, as their mean then does.
Alike == \A e, f \in Economy : usage'[e] - usage[e] = usage'[f] - usage[f]

MarketStep ==
  /\ \/ program = "v8" /\ EconomyNext /\ UNCHANGED <<cvars, tvars, fvars, civ>>
     \/ program = "corporation" /\ CorpNext /\ UNCHANGED <<evars, tvars, fvars, civ>>
     \/ program = "exchange" /\ MarketNext /\ UNCHANGED <<evars, cvars, fvars, civ>>
     \/ program = "v6" /\ FabricNext /\ UNCHANGED <<evars, cvars, tvars, civ>>
     \/ program = "v9" /\ CivNext /\ Alike /\ UNCHANGED <<evars, cvars, tvars, fvars>>
  /\ UNCHANGED <<rules, orders>>

RuleStep ==
  /\ \/ program = "k1" /\ (EvaluateV1 \/ DeactivateRule) /\ UNCHANGED plvars
     \/ program = "k2" /\ EvaluateV2 /\ UNCHANGED plvars
     \/ program = "k3" /\ EvaluateV3 /\ UNCHANGED plvars
     \/ program = "k4" /\ EvaluateV4 /\ UNCHANGED plvars
     \/ program = "engine" /\ EngineClient /\ UNCHANGED kvars
     \/ program = "pel" /\ ProcessAction /\ UNCHANGED kvars
     \/ program = "apex" /\ ApexExecute /\ UNCHANGED kvars
  /\ UNCHANGED <<markets, orders>>

OrderStep ==
  /\ \/ program = "federation" /\ FkNext /\ UNCHANGED <<osvars, revars, mvars>>
     \/ program = "os" /\ OsNext /\ UNCHANGED <<fkvars, revars, mvars>>
     \/ program = "reality" /\ RealityNext /\ UNCHANGED <<fkvars, osvars, mvars>>
     \/ program = "v14" /\ MetaNext /\ UNCHANGED <<fkvars, osvars, revars>>
  /\ UNCHANGED <<markets, rules>>

MCNext == (MarketStep \/ RuleStep \/ OrderStep) /\ UNCHANGED program
all == <<markets, rules, orders, program>>
MCSpec == MCInit /\ [][MCNext]_all
=============================================================================
