SPECIFICATION Spec
CONSTANTS
  c1 = c1
  c2 = c2
  c3 = c3
  r1 = r1
  r2 = r2
  g1 = g1
  g2 = g2
  CredIds = {c1, c2}
  NoCred = NoCred
  Requests = {r1}
  Grants = {g1, g2}
  Texts <- AllTexts
  Accounts = {"a@mail", "b@mail"}
  RefreshAnswers = {TRUE, FALSE}
  Sheets = {"sheet1"}
  Keys = {"key1"}
  Posts <- FormPosts
  Patches <- FormPatches
  Editable = {c1, c2}
  Removable = {c1, c2}
  Initial <- OldDocuments
  MaxCrashes = 0
SYMMETRY Symmetry2
INVARIANTS CredentialsUsable OneConnection
PROPERTIES MaskedEditKeepsData ReconnectKeepsSheet SavedSecretsSealed SavedSecretsReadable
CHECK_DEADLOCK FALSE
