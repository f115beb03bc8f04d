SPECIFICATION Spec
CONSTANTS
  c1 = c1
  c2 = c2
  c3 = c3
  r1 = r1
  r2 = r2
  g1 = g1
  g2 = g2
  CredIds = {c1}
  NoCred = NoCred
  Requests = {r1, r2}
  Grants = {}
  Texts <- PatchTexts
  Accounts = {}
  RefreshAnswers = {}
  Sheets = {"sheet1"}
  Keys = {"key1", "key2"}
  Posts <- ConnectionPosts
  Patches <- FormPatches
  Editable = {c1}
  Removable = {}
  Initial = {}
  MaxCrashes = 0
INVARIANTS CredentialsUsable
CHECK_DEADLOCK FALSE
