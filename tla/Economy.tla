------------------------------ MODULE Economy ------------------------------
(* The market of TAAR v8 (agents/taar_v8.py): single_cycle observes the
   machine, posts jobs, collects bids, allocates, executes and settles.  The
   same job is written down in six places: the coordinator's purse and price
   history, the organisation's own budget, the resource ledger, the evaluator's
   history and the economic memory, the only one that is kept on disk.  Money
   is counted in thousandths, shares in hundredths. *)
EXTENDS Integers, Sequences, SequencesExt, FiniteSetsExt, Functions

CONSTANTS Orgs,         \* the organisations, a sequence in the order of registration
          Purse,        \* what each organisation starts with
          Complexities, \* the complexities a hash of a task may give
          Reliabilities,\* the reliabilities a hash of an organisation may give
          MaxCrashes    \* bound on the crashes of the process

ASSUME PurseAssumption ==
  /\ Purse \in Nat /\ MaxCrashes \in Nat
  /\ Complexities \subseteq 50 .. 89 /\ Reliabilities \subseteq 75 .. 99
\* "none" stands for None and is the name of no organisation
ASSUME OrgsAssumption == Orgs \in Seq(ToSet(Orgs)) /\ "none" \notin ToSet(Orgs)

OrgSet == ToSet(Orgs)
Rank(o) == CHOOSE i \in DOMAIN Orgs : Orgs[i] = o

VARIABLES
  pc,         \* what single_cycle does next
  hash,       \* what hash() gives in this process: a complexity and the reliabilities
  regime, cycle,
  jobs,       \* coordinator.contracts of this cycle, oldest first
  at,         \* how many of them the current phase has dealt with
  purse,      \* coordinator.org_budgets
  trust,      \* coordinator.org_reliability
  prices,     \* coordinator.price_history: per organisation, how many and how much
  budget,     \* AIOrganization.budget
  ledger,     \* jobs_completed and jobs_failed per node
  history,    \* evaluator.org_history: how many evaluations, how many of grade A
  memory,     \* economic memory: per organisation, job records and performance count
  file,       \* what _load would read from the memory's file
  crashes

evars == <<pc, hash, regime, cycle, jobs, at, purse, trust, prices, budget, ledger,
          history, memory, file, crashes>>
books == <<purse, trust, prices, budget, ledger, history, memory, file>>

Min2(a, b) == IF a < b THEN a ELSE b
Max2(a, b) == IF a > b THEN a ELSE b
Zero == [o \in OrgSet |-> 0]
Blank == [records |-> Zero, performance |-> Zero]

\* The tasks of _generate_missions: base price of the first keyword, estimated complexity
Task(base, estimate) == [base |-> base, estimate |-> estimate]
FixCI == Task(600, 68)
Optimize == Task(550, 60)
Audit == Task(400, 60)
Routine == <<Task(350, 30), Task(450, 40), Task(400, 35)>>

\* memory_pressure is a share below 1, so its mission (above 40) is never generated
GenerateMissions(pressure, c) ==
  LET some == (IF pressure > 50 THEN <<FixCI, Optimize>> ELSE <<>>)
              \o (IF c = 0 THEN <<Audit>> ELSE <<>>)
  IN  IF some = <<>> THEN Routine ELSE some

\* The failure rate the observer reports is 0 here, so demand is 0 and never above supply
Regime(pressure) ==
  IF pressure > 85 THEN "crisis"
  ELSE IF 100 - pressure > 0 /\ pressure < 30 THEN "cold" ELSE "normal"

AdjustPrice(base, r, complexity) ==
  LET mult == CASE r = "cold" -> 80 [] r = "crisis" -> 150 [] OTHER -> 100
  IN  Min2((base * mult * (7000 + 60 * complexity)) \div 1000000, 1000)

PostJob(task, r) ==
  [task |-> task, price |-> AdjustPrice(task.base, r, hash.complexity),
   status |-> "open", org |-> "none", bids |-> {}]

-----------------------------------------------------------------------------
\* The objects a new process builds: everything but the memory and its file
New == [pc |-> "observe", regime |-> "normal", cycle |-> 0, jobs |-> <<>>, at |-> 0,
        purse |-> [o \in OrgSet |-> Purse], trust |-> [o \in OrgSet |-> 850],
        prices |-> [o \in OrgSet |-> [n |-> 0, sum |-> 0]],
        ledger |-> [o \in OrgSet |-> [completed |-> 0, failed |-> 0]],
        history |-> [o \in OrgSet |-> [n |-> 0, good |-> 0]]]
Hashes == [complexity : Complexities, reliability : [OrgSet -> Reliabilities]]

EconomyInit ==
  /\ hash \in Hashes /\ crashes = 0
  /\ pc = New.pc /\ regime = New.regime /\ cycle = New.cycle /\ jobs = New.jobs /\ at = New.at
  /\ purse = New.purse /\ budget = New.purse /\ trust = New.trust
  /\ prices = New.prices /\ ledger = New.ledger /\ history = New.history
  /\ memory = Blank /\ file = Blank

\* OBSERVE and GENERATE: the regime, then the contracts
Post ==
  /\ pc = "observe"
  /\ \E pressure \in {0, 40, 60, 90} :
       /\ cycle' = (cycle + 1) % 3
       /\ regime' = Regime(pressure)
       /\ jobs' = LET tasks == GenerateMissions(pressure, cycle')
                  IN  [i \in DOMAIN tasks |-> PostJob(tasks[i], regime')]
  /\ pc' = "bid" /\ at' = 0
  /\ UNCHANGED <<hash, crashes>> /\ UNCHANGED books

\* coordinator.submit_bid: refused when the job is not open or the purse is too small; an
\* earlier bid of the same organisation is replaced.  Bids are counted in ten-thousandths
BidOf(job) == 9 * job.price
SubmitBid(job, o) == job.status = "open" /\ BidOf(job) <= 10 * purse[o]

\* BIDS: every organisation on every contract, before any of them is allocated; no bid
\* changes what another one depends on, so a contract keeps the set of its bidders
Bid ==
  /\ pc = "bid"
  /\ jobs' = [i \in DOMAIN jobs |->
                [jobs[i] EXCEPT !.bids = @ \cup {o \in OrgSet : /\ 2 * budget[o] >= jobs[i].price
                                                               /\ SubmitBid(jobs[i], o)}]]
  /\ pc' = "allocate" /\ at' = 0
  /\ UNCHANGED <<hash, regime, cycle, crashes>> /\ UNCHANGED books

\* bids.sort(key=score)[0]: all bid nine tenths of the price, so the most reliable bidder
\* scores lowest, and among equals the one that was registered first
Best(job) ==
  CHOOSE o \in job.bids :
    \A p \in job.bids :
      LET score(q) == BidOf(job) * (110 - hash.reliability[q])
      IN  score(o) < score(p) \/ (score(o) = score(p) /\ Rank(o) <= Rank(p))

\* Mutant of Charge: the winner is charged what it bid.
ChargeBid(job) == BidOf(job) \div 10
\* What the winner is charged: the price of the contract, not what it bid
Charge(job) == job.price

AllocateJob ==
  /\ pc = "allocate" /\ at < Len(jobs)
  /\ at' = at + 1
  /\ LET job == jobs[at']
     IN  IF job.bids = {} THEN UNCHANGED <<jobs, purse>>
         ELSE LET winner == Best(job)
              IN  /\ jobs' = [jobs EXCEPT ![at'].status = "assigned", ![at'].org = winner]
                  /\ purse' = [purse EXCEPT ![winner] = @ - Charge(job)]
  /\ UNCHANGED <<pc, hash, regime, cycle, trust, prices, budget, ledger, history, memory, file, crashes>>

Allocated ==
  /\ pc = "allocate" /\ at = Len(jobs)
  /\ pc' = "execute" /\ at' = 0
  /\ UNCHANGED <<hash, regime, cycle, jobs, crashes>> /\ UNCHANGED books

\* _execute_org_mission: only a task estimated below 0.85 succeeds
Succeeds(job) == job.task.estimate < 85

\* ledger.record_job counts every job as completed, and a failed one as failed as well
LedgerRecordJob(o, ok) ==
  ledger' = [ledger EXCEPT ![o].completed = @ + 1, ![o].failed = @ + (IF ok THEN 0 ELSE 1)]

\* The value of a success is 1.05 over a cost of at most 0.8, an A; of a failure it is 0
EvaluateJob(o, ok) ==
  history' = [history EXCEPT ![o].n = @ + 1, ![o].good = @ + (IF ok THEN 1 ELSE 0)]

\* coordinator.record_outcome
RecordOutcome(i, ok) ==
  LET o == jobs[i].org
  IN  /\ jobs' = [jobs EXCEPT ![i].status = IF ok THEN "completed" ELSE "failed"]
      /\ trust' = [trust EXCEPT ![o] = Max2(100, Min2(1000, @ + (IF ok THEN 5 ELSE -150)))]
      /\ prices' = [prices EXCEPT ![o] = [n |-> @.n + 1, sum |-> @.sum + jobs[i].price]]

\* _save rewrites the whole file
Save == file' = memory'

MemoryRecordJob(o) == memory' = [memory EXCEPT !.records[o] = @ + 1] /\ Save

\* EXECUTE, RECORD, EVALUATE of the next allocated job, up to memory.record_job's save
Settle ==
  /\ pc = "execute" /\ at < Len(jobs)
  /\ LET job == jobs[at + 1]
         o == job.org
     IN  IF job.status # "assigned"
         THEN at' = at + 1 /\ UNCHANGED <<pc, jobs>> /\ UNCHANGED books
         ELSE /\ LedgerRecordJob(o, Succeeds(job))
              /\ budget' = [budget EXCEPT ![o] = @ - job.price]
              /\ EvaluateJob(o, Succeeds(job))
              /\ RecordOutcome(at + 1, Succeeds(job))
              /\ MemoryRecordJob(o)
              /\ pc' = "remember"
              /\ UNCHANGED <<at, purse>>
  /\ UNCHANGED <<hash, regime, cycle, crashes>>

UpdateOrgPerformance(o) == memory' = [memory EXCEPT !.performance[o] = @ + 1] /\ Save

Remember ==
  /\ pc = "remember"
  /\ UpdateOrgPerformance(jobs[at + 1].org)
  /\ at' = at + 1 /\ pc' = "execute"
  /\ UNCHANGED <<hash, regime, cycle, jobs, purse, trust, prices, budget, ledger, history, crashes>>

\* record_market_fluctuation saves the memory; the reports only read
Close ==
  /\ pc = "execute" /\ at = Len(jobs)
  /\ file' = memory
  /\ jobs' = <<>> /\ at' = 0 /\ pc' = "observe"
  /\ UNCHANGED <<hash, regime, cycle, purse, trust, prices, budget, ledger, history, memory, crashes>>

\* _load takes what the file holds, and nothing from one that was cut off while it was
\* rewritten
Load == memory' = file'

\* The process ends, perhaps while it rewrites the file, and is started again
Restart ==
  /\ crashes < MaxCrashes
  /\ crashes' = crashes + 1
  /\ hash' \in Hashes
  /\ pc' = New.pc /\ regime' = New.regime /\ cycle' = New.cycle /\ jobs' = New.jobs /\ at' = New.at
  /\ purse' = New.purse /\ budget' = New.purse /\ trust' = New.trust
  /\ prices' = New.prices /\ ledger' = New.ledger /\ history' = New.history
  /\ file' \in {file} \cup (IF pc \in {"execute", "remember"} THEN {Blank} ELSE {})
  /\ Load

Cycle == Post \/ Bid \/ AllocateJob \/ Allocated \/ Settle \/ Remember \/ Close
EconomyNext == Cycle \/ Restart

EconomySpec == EconomyInit /\ [][EconomyNext]_evars

-----------------------------------------------------------------------------
PricesOf(o, status) ==
  SumFunctionOnSet([i \in DOMAIN jobs |-> jobs[i].price],
                   {i \in DOMAIN jobs : jobs[i].org = o /\ jobs[i].status \in status})

\* The organisation's own budget and the coordinator's purse differ by the jobs that are
\* allocated and not yet executed, and what is gone from the budget is what the price
\* history says was paid.
MoneyBalances ==
  \A o \in OrgSet :
    /\ budget[o] = purse[o] + PricesOf(o, {"assigned"})
    /\ budget[o] + prices[o].sum = Purse

\* Ledger, evaluator and price history count the same jobs.
CountsAgree ==
  \A o \in OrgSet :
    /\ ledger[o].completed = prices[o].n
    /\ history[o].n = prices[o].n
    /\ history[o].good = ledger[o].completed - ledger[o].failed

\* The memory has a record of every job its performance figures count; a crash between
\* the two saves costs one count each time.
MemoryCovers ==
  \A o \in OrgSet :
    LET open == IF pc = "remember" /\ jobs[at + 1].org = o THEN 1 ELSE 0
    IN  memory.performance[o] + open \in memory.records[o] - crashes .. memory.records[o]

\* An organisation could pay each job it won (to the tenth it bids below the price) from
\* what it had when the cycle opened, though not all of them together: all bids are in
\* before the first job is charged.
WinnersCouldPay ==
  \A i \in DOMAIN jobs :
    jobs[i].org \in OrgSet =>
      LET o == jobs[i].org
          spentSince == PricesOf(o, {"completed", "failed"})
      IN  10 * (budget[o] + spentSince) >= BidOf(jobs[i])

\* The books of one job, kept by six objects and written one after the other, agree
\* after every step and after a restart (taar_v8.single_cycle, steps 4 to 8), and no
\* job went to an organisation that could not have paid it.
BooksAgree == MoneyBalances /\ CountsAgree /\ MemoryCovers /\ WinnersCouldPay
=============================================================================
