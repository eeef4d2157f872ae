------------------------------ MODULE MCRuntime ------------------------------
(***************************************************************************)
(* Model checking of Runtime: two sessions, two consumers, one peer,       *)
(* an intent of all kinds and one of none that is blocked at once.         *)
(***************************************************************************)
EXTENDS Runtime, TLC

CONSTANTS s1, s2, c1, c2

SessionsMC == {s1, s2}

ConsumersMC == {c1, c2}

IntentsMC ==
    {[kinds |-> ToSet(KindsInOrder), threat |-> "NETWORK_EXFILTRATION"],
     [kinds |-> {}, threat |-> "SYSTEM_ESCALATION"]}

VetoesMC == {{}, {"file_modify"}}
=============================================================================
