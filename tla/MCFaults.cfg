SPECIFICATION Spec
CONSTANTS
  w1 = w1
  r1 = r1
  r2 = r2
  Workflows = {w1}
  NoWorkflow = NoWorkflow
  Requests = {r1, r2}
  Worker = Worker
  QueueEnabled = TRUE
  UserStatuses = {"Paused"}
  Editable = {}
  Removable = {}
  Errors = {"error"}
  CredentialsVanish = TRUE
  Answers = {"ok", "lost"}
  ReportForms = {"job"}
  ReportsPerExecution = 1
  MaxJobs = 2
  MaxDrafts = 0
  MaxDirect = 0
  MaxFaults = 1
  MaxAttempts = 2
  MaxStalls = 1
SYMMETRY Symmetry
INVARIANTS TypeOK RunningIsAccounted QueuedJobIsCarried
PROPERTY ImplementsLifecycle
CHECK_DEADLOCK FALSE
