SPECIFICATION Spec
CONSTANTS
  a = a
  b = b
  ca = ca
  cb = cb
  r1 = r1
  r2 = r2
  Users = {a, b}
  NoUser = NoUser
  Creds = {ca, cb}
  NoCred = NoCred
  CredOwner <- MCCredOwner
  Topics = {"", "topic"}
  Texts = {"", "text"}
  NodeTypes <- MCNodeTypes
  NodeRefs = {"ui-openrouter", "ui-google", "ref"}
  Bodies <- MCBodies
  NodeLists <- MCNodeLists
  Forms <- MCForms
  Requests = {r1, r2}
  MaxEdits = 3
SYMMETRY Symmetry
INVARIANTS TypeOK RefsOfOneUser MirrorsAgree
PROPERTIES OthersNodesKept DuplicatesNeedOverlap
CHECK_DEADLOCK FALSE
