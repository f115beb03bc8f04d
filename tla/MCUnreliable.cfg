SPECIFICATION Spec
CONSTANTS
  w1 = w1
  r1 = r1
  r2 = r2
  Workflows = {w1}
  NoWorkflow = NoWorkflow
  Requests = {r1, r2}
  Worker = Worker
  QueueEnabled = FALSE
  UserStatuses = {"Paused"}
  Editable = {}
  Removable = {}
  Errors = {"error"}
  CredentialsVanish = FALSE
  Answers = {"ok"}
  ReportForms = {"job", "workflow"}
  ReportsPerExecution = 2
  MaxJobs = 2
  MaxDrafts = 1
  MaxDirect = 1
  MaxFaults = 0
  MaxAttempts = 3
  MaxStalls = 1
SYMMETRY Symmetry
INVARIANTS NeverRestoresRunning CompletedIsCounted
CHECK_DEADLOCK FALSE
