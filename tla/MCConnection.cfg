SPECIFICATION Spec
CONSTANTS
  c1 = c1
  c2 = c2
  c3 = c3
  r1 = r1
  r2 = r2
  g1 = g1
  g2 = g2
  CredIds = {c1, c2}
  NoCred = NoCred
  Requests = {r1, r2}
  Grants = {g1, g2}
  Texts <- GoogleTexts
  Accounts = {"a@mail", "b@mail"}
  RefreshAnswers = {TRUE, FALSE}
  Sheets = {"sheet1"}
  Keys = {}
  Posts = {}
  Patches <- ConnectionPatches
  Editable = {c1, c2}
  Removable = {c1, c2}
  Initial <- OldConnections
  MaxCrashes = 1
SYMMETRY Symmetry2
INVARIANTS TypeOK DisconnectRemovesAll RevokedIsNotKept TokensAgree
PROPERTIES RemovedStaysRemoved StatusShowsLastWrite
CHECK_DEADLOCK FALSE
