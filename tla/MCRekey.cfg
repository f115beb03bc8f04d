SPECIFICATION Spec
CONSTANTS
  r1 = r1
  r2 = r2
  Requests = {r1}
  CredIds <- MCCredIds
  NoCred = ""
  Texts <- MCTexts
  NoText = ""
  MaskText = "********"
  Bodies <- MCBodies
  Initial <- MCInitial
  Removable = {"g", "k"}
  WorkflowRefs = {"g"}
  WorkflowKey = "m"
  MaxEdits = 3
INVARIANT KeysAreUpserted
