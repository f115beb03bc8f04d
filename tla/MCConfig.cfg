SPECIFICATION Spec
CONSTANTS
  r1 = r1
  r2 = r2
  Requests = {r1, r2}
  CredIds <- MCCredIds
  NoCred = ""
  Texts <- MCTexts
  NoText = ""
  MaskText = "********"
  Bodies <- MCBodies
  Initial <- MCInitial
  Removable = {"g", "k"}
  WorkflowRefs = {"g"}
  WorkflowKey = "m"
  MaxEdits = 3
SYMMETRY Symmetry
INVARIANTS TypeOK RefsExisted StrayKeysNeedFailure OneEditWins JobsKeyIsSent
