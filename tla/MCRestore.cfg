SPECIFICATION Spec
CONSTANTS
  w1 = w1
  r1 = r1
  r2 = r2
  Workflows = {w1}
  NoWorkflow = NoWorkflow
  Requests = {r1, r2}
  Worker = Worker
  QueueEnabled = TRUE
  UserStatuses = {"Paused"}
  Editable = {}
  Removable = {}
  Errors = {"error"}
  CredentialsVanish = FALSE
  Answers = {"ok"}
  ReportForms = {"job"}
  ReportsPerExecution = 1
  MaxJobs = 2
  MaxDrafts = 0
  MaxDirect = 0
  MaxFaults = 0
  MaxAttempts = 3
  MaxStalls = 1
SYMMETRY Symmetry
INVARIANT RestoresUserStatus
