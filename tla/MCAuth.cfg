SPECIFICATION Spec
CONSTANTS
  u1 = u1
  u2 = u2
  r1 = r1
  r2 = r2
  s1 = s1
  UserIds = {u1, u2}
  NoUser = NoUser
  Emails = {"a@mail", "b@mail"}
  Passwords = {"first", "second"}
  Requests = {r1, r2}
  Seeders = {s1}
  MaxTokens = 3
SYMMETRY Symmetry
INVARIANTS TypeOK OneAccountPerEmail SeededStaysAdmin OnlyLogoutEndsSessions
PROPERTIES SessionsNeedPassword
