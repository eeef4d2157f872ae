SPECIFICATION MCSpec
CONSTANTS
  MaxGraphs = 2
  MaxEpisodes = 2
  MaxStarts = 2
  MaxStops = 1
  MaxPlan = 2
  Limits = {0, 2}
  RecursionLimit = 9
  Readings <- MCReadings
  CallCounts = {60}
  MaxBudget = 50
  MaxCalls = 1
  Commands <- MCCommands
  Edits <- MCEdits
  MaxSteps = 2
  MaxActions = 2
  MaxEntries = 2
INVARIANTS MissionHolds ConsentHolds AgentKeepsItsWord PlanFits
PROPERTIES CommitsAreVetted EpisodesKept MissionsConclude TasksEnd
CHECK_DEADLOCK FALSE
