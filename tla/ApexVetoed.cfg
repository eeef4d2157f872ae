SPECIFICATION MCSpec
CONSTANTS
  Orgs <- MCOrgs
  Purse = 1000
  Complexities <- MCComplexities
  Reliabilities <- MCReliabilities
  MaxCrashes = 1
  Kinds <- MCKinds
  Employees = {"e1", "e2"}
  Limit = 5
  MaxTasks = 2
  NumNodes = 2
  MaxMissions = 2
  MaxParts = 3
  MaxFabrics = 2
  Plans <- MCPlans
  Actions <- MCActions
  Retired <- MCRetired
  MaxEvaluations = 2
  Requests <- MCRequests
  Categories = {"write", "external", "destroy"}
  Tasks <- MCJobs
  MaxProofs = 2
  MaxAnswers = 7
  Texts <- MCTexts
  Simulations <- MCSimulations
  OsPlans <- MCOsPlans
  MaxRuns = 3
  Decisions <- MCDecisions
  MaxDecisions = 3
  MetaTasks <- MCMetaTasks
  MaxMetaTasks = 3
  MaxRules = 1
  MaxMetaProofs = 3
  Traders = {"dev", "ops"}
  Names = {"j1", "j2"}
  Prices = {50}
  Gains = {15}
  MaxRecords = 2
  MaxRegistrations = 2
  NumEconomies = 4
  Swings <- MCSwings
  Scores = {55, 70}
  HistoryLimit = 200
  MaxCycles = 6
  Processes = {"p1", "p2"}
  Intents <- MCIntents
  Modes = {"none", "ATOM"}
  MaxLines = 3
  MaxStarts = 3
INVARIANT VetoedIsNotExecuted
CHECK_DEADLOCK FALSE
