----------------------------- MODULE TaskMarket -----------------------------
(* The job exchange (agents/task_market.py): register, publish, bid, allocate,
   record.  The calls come in any order, also for jobs the market does not know
   and from organisations nobody registered.  Shares, prices and reputations
   are in hundredths. *)
EXTENDS Integers, Sequences, SequencesExt, FiniteSetsExt, Functions

CONSTANTS Traders,     \* organisations that may call
          Names,       \* job ids
          Prices,      \* what can be bid
          Gains,       \* what a success can add to a reputation
          MaxRecords,  \* bound on the results that are recorded of a job
          MaxRegistrations

ASSUME MarketAssumption ==
  Prices \subseteq Nat /\ Gains \subseteq Int /\ MaxRecords \in Nat /\ MaxRegistrations \in Nat
\* The winner of a job nobody has won yet is no organisation
ASSUME NobodyAssumption == "none" \notin Traders

VARIABLES
  market,    \* the jobs that were published: status, bids and winner
  traders,   \* per registered organisation its reputation, its capacity, and the jobs it
             \* completed and failed
  recorded,  \* history: results recorded of each job
  enrolled     \* history: what an organisation had won, and the results of it, when it was
             \* last registered

tvars == <<market, traders, recorded, enrolled>>

Complexity == 60
JobCost == (Complexity * 30) \div 100
Published == DOMAIN market
Members == DOMAIN traders
WonBy(o) == {j \in Published : market[j].winner = o}

MarketInit ==
  /\ market = << >> /\ traders = << >>
  /\ recorded = [j \in Names |-> 0]
  /\ enrolled = [o \in Traders |-> [times |-> 0, won |-> {}, results |-> 0]]

\* register_org: a second registration starts the books afresh
RegisterTrader(o) ==
  /\ enrolled[o].times < MaxRegistrations
  /\ traders' = [t \in Members \cup {o} |->
                   IF t = o THEN [reputation |-> 80, capacity |-> 100, completed |-> 0, failed |-> 0]
                            ELSE traders[t]]
  /\ enrolled' = [enrolled EXCEPT ![o] = [times |-> @.times + 1, won |-> WonBy(o),
                                      results |-> SumFunctionOnSet(recorded, WonBy(o))]]
  /\ UNCHANGED <<market, recorded>>

PublishJob(j) ==
  /\ j \notin Published
  /\ market' = [k \in Published \cup {j} |->
                  IF k = j THEN [status |-> "open", bids |-> <<>>, winner |-> "none"]
                           ELSE market[k]]
  /\ UNCHANGED <<traders, recorded, enrolled>>

\* What the market takes for the reliability and the capacity of an organisation
Reliability(o) == IF o \in Members THEN traders[o].reputation ELSE 50
Capacity(o) == IF o \in Members THEN traders[o].capacity ELSE 100

\* A second bid of an organisation replaces its first
SubmitBidTo(j, o, price) ==
  /\ j \in Published /\ market[j].status = "open"
  /\ price <= 2 * Capacity(o)
  /\ market' = [market EXCEPT ![j].bids =
                  Append(SelectSeq(@, LAMBDA b : b.org # o),
                         [org |-> o, price |-> price, reliability |-> Reliability(o)])]
  /\ UNCHANGED <<traders, recorded, enrolled>>

\* The lowest merit, and of equal ones the first
Merit(b) == b.price * (110 - b.reliability)
BestBidder(bids) ==
  LET first(i) == \A k \in DOMAIN bids :
                    Merit(bids[i]) < Merit(bids[k]) \/ (Merit(bids[i]) = Merit(bids[k]) /\ i <= k)
  IN  bids[CHOOSE i \in DOMAIN bids : first(i)].org

\* A winner that is not registered pays into a dictionary that is thrown away
Assign(j) ==
  LET w == BestBidder(market[j].bids)
  IN  /\ market' = [market EXCEPT ![j].winner = w, ![j].status = "assigned"]
      /\ traders' = [o \in Members |->
                       IF o # w THEN traders[o]
                       ELSE [traders[o] EXCEPT !.capacity = IF @ > JobCost THEN @ - JobCost ELSE 0]]
      /\ UNCHANGED <<recorded, enrolled>>

\* Mutant of AllocateTo: the status of the job is not looked at.
AllocateAgain(j) == j \in Published /\ market[j].bids # <<>> /\ Assign(j)
AllocateTo(j) ==
  j \in Published /\ market[j].bids # <<>> /\ market[j].status = "open" /\ Assign(j)

\* A success moves the reputation by as much as the stability it brought
Moved(reputation, success, gain) ==
  LET r == reputation + (IF success THEN gain ELSE -20)
  IN  IF r > 100 THEN 100 ELSE IF r < 10 THEN 10 ELSE r

\* record_result looks at nothing but whether there is a winner to credit
RecordResult(j, success, gain) ==
  /\ j \in Published
  /\ recorded[j] < MaxRecords /\ recorded' = [recorded EXCEPT ![j] = @ + 1]
  /\ market' = [market EXCEPT ![j].status = IF success THEN "completed" ELSE "failed"]
  /\ traders' = [o \in Members |->
                   IF o # market[j].winner THEN traders[o]
                   ELSE [traders[o] EXCEPT !.reputation = Moved(@, success, gain),
                                           !.completed = @ + (IF success THEN 1 ELSE 0),
                                           !.failed = @ + (IF success THEN 0 ELSE 1)]]
  /\ UNCHANGED enrolled

MarketNext ==
  \/ \E o \in Traders : RegisterTrader(o)
  \/ \E j \in Names :
       \/ PublishJob(j)
       \/ \E o \in Traders, price \in Prices : SubmitBidTo(j, o, price)
       \/ AllocateTo(j)
       \/ \E success \in BOOLEAN, gain \in Gains : RecordResult(j, success, gain)

MarketSpec == MarketInit /\ [][MarketNext]_tvars

-----------------------------------------------------------------------------
\* Whatever the order of the calls, an organisation has paid, with its capacity and exactly
\* once each, for the jobs it won since it was last registered; and it is credited with
\* every result recorded since then of a job it won, before or after, and with no other: a
\* result recorded while the job is open closes it for good without a winner, and a second
\* result of a job is credited again.  Who is not registered wins for nothing.
WinnerPaysOnce ==
  \A o \in Members :
    LET late == WonBy(o) \ enrolled[o].won
    IN  /\ traders[o].capacity = (IF 100 > JobCost * Cardinality(late)
                                  THEN 100 - JobCost * Cardinality(late) ELSE 0)
        /\ traders[o].completed + traders[o].failed
             = SumFunctionOnSet(recorded, WonBy(o)) - enrolled[o].results
=============================================================================
