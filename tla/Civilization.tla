---------------------------- MODULE Civilization ----------------------------
(* The civilization of TAAR v9 (agents/taar_v9.py): economies share a pool of
   GPU time, form alliances in the council, and are multiplied by the
   evolution.  Shares are counted in 1/120, a unit in which the swings of the
   usage, its mean over a few economies and half a usage are whole numbers;
   scores in hundredths.  No economy can become unstable enough for a conflict,
   a sanction or a removal (the stability is kept above a half), nor the demand
   volatile enough for a crisis, so those branches of the cycle are never
   taken.  The trades, which are always accepted and change nothing but their
   own lists, are left out. *)
EXTENDS Integers, Sequences, SequencesExt, FiniteSetsExt, Functions

CONSTANTS NumEconomies, \* economies at the start
          Swings,       \* what a cycle may add to the usage of an economy
          Scores,       \* collaboration scores an economy can be given in a cycle
          HistoryLimit, \* alliances the council keeps: 200 in the code
          MaxCycles     \* bound on the cycles

ASSUME CivilizationAssumption ==
  /\ NumEconomies \in Nat \ {0} /\ HistoryLimit \in Nat \ {0} /\ MaxCycles \in Nat
  /\ Swings \subseteq Int /\ Scores \subseteq Int

Unit == 120
Economy == 1..NumEconomies
Pairs == kSubset(2, Economy)
MaxEconomies == 8
IdealEconomies == 4
CollabThreshold == 60

VARIABLES
  at9,        \* where single_cycle is: "observe", "council", "allocate", "work" or "evolve"
  cycle9,
  usage,      \* econ_stats[..].resource_usage
  supply,     \* gpu_supply of the market
  share,      \* allocation_map
  served,     \* economies the allocation has dealt with in this cycle
  collab,     \* collaboration score of each economy in this cycle
  allied,     \* council.alliances: the pairs, in the order they were formed
  remembered, \* memory.alliances
  active,     \* evolution.active_economies
  data        \* those of them that have snapshots

civ == <<at9, cycle9, usage, supply, share, served, collab, allied, remembered,
         active, data>>

Clip(lo, hi, x) == IF x < lo THEN lo ELSE IF x > hi THEN hi ELSE x

CivInit ==
  /\ at9 = "observe" /\ cycle9 = 0
  /\ usage = [e \in Economy |-> 36] /\ supply = 96
  /\ share = [e \in Economy |-> 0] /\ served = {}
  /\ collab = [e \in Economy |-> 30] /\ allied = <<>> /\ remembered = <<>>
  /\ active = {<<"econ", e>> : e \in Economy} /\ data = {}

Observe9 ==
  /\ at9 = "observe" /\ cycle9 < MaxCycles
  /\ cycle9' = cycle9 + 1
  /\ supply' = Unit - SumFunctionOnSet(usage, Economy) \div NumEconomies
  /\ collab' \in [Economy -> Scores]
  /\ at9' = "council"
  /\ UNCHANGED <<usage, share, served, allied, remembered, active, data>>

\* get_civilization_state forgets the oldest alliances
Trimmed(alliances) ==
  IF Len(alliances) <= HistoryLimit THEN alliances
  ELSE SubSeq(alliances, Len(alliances) - HistoryLimit + 1, Len(alliances))

\* detect_alliances: pairs whose mean score is above the threshold and that are not yet
\* recorded
Keen(p) == SumFunctionOnSet(collab, p) > 2 * CollabThreshold
Found(known) == SetToSeq({p \in Pairs : Keen(p) /\ p \notin ToSet(known)})

\* get_council_action detects once more when all together are above the threshold, and that
\* is not remembered
Collaborating == SumFunctionOnSet(collab, Economy) > NumEconomies * CollabThreshold
Council ==
  /\ at9 = "council"
  /\ LET found == Found(Trimmed(allied))
         known == Trimmed(Trimmed(allied) \o found)
     IN  /\ remembered' = remembered \o found
         /\ allied' = IF Collaborating THEN known \o Found(known) ELSE known
  /\ served' = {} /\ at9' = "allocate"
  /\ collab' = [e \in Economy |-> 30]  \* the scores are not read again
  /\ UNCHANGED <<cycle9, usage, supply, share, active, data>>

\* Mutant of Granted: the request is granted whatever is left.
GrantedInFull(request, left) == request
\* allocate_from_pool: what is left may be negative when the supply has shrunk
Granted(request, left) == IF request < left THEN request ELSE left

Allocate9 ==
  /\ at9 = "allocate" /\ served # Economy
  /\ LET e == Cardinality(served) + 1
         left == supply - SumFunctionOnSet(share, Economy)
     IN  /\ share' = [share EXCEPT ![e] = @ + Granted(usage[e] \div 2, left)]
         /\ served' = served \cup {e}
  /\ at9' = IF served' = Economy THEN "work" ELSE "allocate"
  /\ UNCHANGED <<cycle9, usage, supply, collab, allied, remembered, active, data>>

\* One job per economy, then a snapshot for the evolution, which only the economies of the
\* start get
Work ==
  /\ at9 = "work"
  /\ \E swing \in [Economy -> Swings] :
       usage' = [e \in Economy |-> Clip(12, 108, usage[e] + swing[e])]
  /\ active' = active \cup {<<"econ", e>> : e \in Economy}
  /\ data' = data \cup {<<"econ", e>> : e \in Economy}
  /\ at9' = "evolve"
  /\ UNCHANGED <<cycle9, supply, share, served, collab, allied, remembered>>

\* should_evolve of an economy whose performance is above 0.9, above 0.7 or below
ShouldEvolve(x, performance, lifespan) ==
  IF x \notin data THEN "none"
  ELSE IF performance = "high" /\ lifespan >= 5 /\ Cardinality(active) < MaxEconomies
  THEN "split"
  ELSE IF performance \in {"high", "good"} /\ Cardinality(active) < IdealEconomies
  THEN "create_economy" ELSE "none"

\* Mutant of SplitName: every split has a name of its own.
FreshName(x) == <<"split", x[2], cycle9>>
\* A split is named after what it was split from; "create" re-creates the economy it was
\* decided for, which loses its snapshots
SplitName(x) == <<"split", x[2]>>

\* All decisions are made before the first is executed
Evolve9 ==
  /\ at9 = "evolve"
  /\ \E performance \in [data -> {"high", "good", "low"}] :
       LET decision == [x \in data |-> ShouldEvolve(x, performance[x], cycle9)]
           created == {x \in data : decision[x] = "create_economy"}
           split == {x \in data : decision[x] = "split"}
       IN  \E born \in {{}, {<<"new", cycle9>>}} :
             /\ born # {} => created \cup split = {} /\ Cardinality(active) < IdealEconomies
             /\ active' = active \cup {SplitName(x) : x \in split} \cup born
             /\ data' = data \ created
  /\ at9' = "observe"
  /\ UNCHANGED <<cycle9, usage, supply, share, served, collab, allied, remembered>>

CivNext == Observe9 \/ Council \/ Allocate9 \/ Work \/ Evolve9
CivSpec == CivInit /\ [][CivNext]_civ

-----------------------------------------------------------------------------
\* Once the allocation is through, the shares are not more than the supply, whatever was
\* granted in earlier cycles and never released: the economy served first gives back what
\* is missing, even beyond what it holds (a share can be negative).
PoolNotOverdrawn == at9 \in {"work", "evolve"} => SumFunctionOnSet(share, Economy) <= supply

\* As long as the council can keep all the alliances there can be, the memory has each of
\* them once and none is formed behind its back; with more than 200 pairs, so with 21
\* economies, the council forgets alliances and forms them again.
AlliancesRemembered ==
  Cardinality(Pairs) <= HistoryLimit => remembered = allied /\ IsInjective(allied)

\* How far the economies can multiply.  The hard cap of eight (civilization_evolution.py,
\* line 48) is looked at before the first of the splits of a cycle, so what bounds them is
\* that a second split of an economy bears the name of its first: never more than one
\* economy besides each of the start and, below it, the ideal number.  The cap holds for
\* four economies at the start, and does not for five.
CapHolds ==
  IF NumEconomies >= MaxEconomies THEN Cardinality(active) = NumEconomies
  ELSE Cardinality(active) <= NumEconomies + (IF NumEconomies > IdealEconomies THEN NumEconomies
                                              ELSE IdealEconomies)

\* The pool, the alliances and the number of economies, over any number of cycles
CivilizationHolds == PoolNotOverdrawn /\ AlliancesRemembered /\ CapHolds

\* "MAX_ECONOMIES = 8  # hard cap on economies" (civilization_evolution.py, line 48).
\* Five economies that split in one cycle are ten: the code does not keep this
\* (README, section 6), and no run checks it.
HardCap == Cardinality(active) <= MaxEconomies
=============================================================================
