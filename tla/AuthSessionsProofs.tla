-------------------------- MODULE AuthSessionsProofs --------------------------
(* Theorems about AuthSessions, for every set of users, requests and seeds. *)
EXTENDS AuthSessions, FiniteSetTheorems, TLAPS

------------------------------------------------------------------------------
(* Typing *)

(* What a handler that has passed its checks knows of its user. *)
FrameKnows(f) ==
    /\ f.step \in {"register.create", "admin.create"} => f.email \in Emails /\ f.password \in Passwords
    /\ f.step = "admin.save" => f.password \in Passwords
    /\ f.step \in {"issue.save", "admin.save"} => f.user \in UserIds /\ Exists(f.user)

TypeInv ==
    /\ TypeOK
    /\ IsFiniteSet(tokens)
    /\ \A t \in tokens : Exists(t.user)
    /\ \A p \in Slots : FrameKnows(frames[p])

LEMMA NullTypes ==
    /\ Idle \in Frame
    /\ NoDoc \notin UserDoc
    /\ \A doc \in UserDoc, u \in UserIds :
          [doc EXCEPT !.refreshTokenHash = {[sub |-> u]}] \in UserDoc
  BY AuthInputsAssumption DEF Idle, Frame, Steps, Kinds, NoDoc, UserDoc, DigestBytes

(* A frame that waits for nothing disturbs no typing. *)
LEMMA TypeInit == Init => TypeInv
<1> SUFFICES ASSUME Init PROVE TypeInv
  OBVIOUS
<1>1. TypeOK
  BY NullTypes DEF Init, TypeOK
<1>2. IsFiniteSet(tokens)
  BY FS_EmptySet DEF Init
<1>3. \A p \in Slots : FrameKnows(frames[p])
  BY DEF Init, FrameKnows, Idle
<1> QED BY <1>1, <1>2, <1>3 DEF TypeInv, Init

(* A step that changes only its own frame. *)
LEMMA TypeBecome ==
    ASSUME TypeInv, NEW p \in Slots, NEW f \in Frame, FrameKnows(f), Become(p, f),
           UNCHANGED <<users, tokens, signedOut, seeded>>
    PROVE  TypeInv'
<1>1. frames' \in [Slots -> Frame]
  BY DEF TypeInv, TypeOK, Become
<1>2. \A q \in Slots : FrameKnows(frames[q])'
  BY DEF TypeInv, TypeOK, Become, FrameKnows, Exists
<1> QED BY <1>1, <1>2 DEF TypeInv, TypeOK, Exists

(* A step that writes users and keeps those there are. *)
LEMMA TypeWrite ==
    ASSUME TypeInv, NEW p \in Slots, NEW f \in Frame, Become(p, f),
           users' \in [UserIds -> UserDoc \cup {NoDoc}],
           \A u \in UserIds : Exists(u) => users'[u] # NoDoc,
           FrameKnows(f)',
           (\A t \in tokens : Exists(t.user))',
           tokens' \subseteq Token, IsFiniteSet(tokens'), signedOut' \subseteq UserIds,
           seeded' \in [UserIds -> {{}} \cup {{password} : password \in Passwords}]
    PROVE  TypeInv'
<1>1. frames' \in [Slots -> Frame]
  BY DEF TypeInv, TypeOK, Become
<1>2. \A q \in Slots : FrameKnows(frames[q])'
  <2> TAKE q \in Slots
  <2>1. CASE q = p
    BY <2>1 DEF TypeInv, TypeOK, Become
  <2>2. CASE q # p
    BY <2>2 DEF TypeInv, TypeOK, Become, FrameKnows, Exists
  <2> QED BY <2>1, <2>2
<1> QED BY <1>1, <1>2 DEF TypeInv, TypeOK

LEMMA CreatedDoc ==
    ASSUME NEW email \in Emails, NEW password \in Passwords, NEW role \in {"user", "admin"}
    PROVE  [email |-> email, password |-> password, role |-> role, refreshTokenHash |-> {}]
              \in UserDoc \ {NoDoc}
  BY NullTypes DEF UserDoc

LEMMA TypeStep == TypeInv /\ [Next]_vars => TypeInv'
<1> SUFFICES ASSUME TypeInv, [Next]_vars PROVE TypeInv'
  OBVIOUS
<1> USE NullTypes
<1>1. ASSUME NEW p \in Requests, NEW email \in Emails, NEW password \in Passwords,
             Register(p, email, password)
      PROVE  TypeInv'
  <2> DEFINE f == [Idle EXCEPT !.step = "register.create", !.kind = "register",
                               !.email = email, !.password = password]
  <2>1. f \in Frame /\ FrameKnows(f)
    BY DEF Idle, Frame, Steps, Kinds, FrameKnows
  <2> QED BY <1>1, <2>1, TypeBecome DEF Register, Slots
<1>2. ASSUME NEW p \in Requests, NEW email \in Emails, NEW password \in Passwords,
             Login(p, email, password)
      PROVE  TypeInv'
  <2>1. PICK u \in WithEmail(email) :
            Become(p, [Idle EXCEPT !.step = "issue.save", !.kind = "login", !.user = u, !.loaded = users[u]])
    BY <1>2 DEF Login
  <2> DEFINE f == [Idle EXCEPT !.step = "issue.save", !.kind = "login", !.user = u, !.loaded = users[u]]
  <2>2. u \in UserIds /\ Exists(u) /\ users[u] \in UserDoc \cup {NoDoc}
    BY DEF WithEmail, TypeInv, TypeOK
  <2>3. f \in Frame /\ FrameKnows(f)
    BY <2>2 DEF Idle, Frame, Steps, Kinds, FrameKnows
  <2> QED BY <1>2, <2>1, <2>3, TypeBecome DEF Login, Slots
<1>3. ASSUME NEW p \in Requests, NEW token \in tokens, Refresh(p, token)
      PROVE  TypeInv'
  <2> DEFINE u == token.user
             f == [Idle EXCEPT !.step = "issue.save", !.kind = "refresh", !.user = u, !.loaded = users[u]]
  <2>1. u \in UserIds /\ users[u] \in UserDoc \cup {NoDoc}
    BY DEF TypeInv, TypeOK, Token
  <2>2. Exists(u)
    <3>1. users[u].refreshTokenHash # {}
      BY <1>3 DEF Refresh, Accepts
    <3>2. NoDoc.refreshTokenHash = {}
      BY DEF NoDoc
    <3> QED BY <3>1, <3>2 DEF Exists
  <2>3. f \in Frame /\ FrameKnows(f)
    BY <2>1, <2>2 DEF Idle, Frame, Steps, Kinds, FrameKnows
  <2> QED BY <1>3, <2>3, TypeBecome DEF Refresh, Slots
<1>4. ASSUME NEW p \in Requests, RegisterCreate(p) PROVE TypeInv'
  <2>1. PICK u \in UserIds :
            /\ ~Exists(u)
            /\ CreateUser(p, u, "user")
            /\ Become(p, [frames[p] EXCEPT !.step = "issue.save", !.user = u, !.loaded = users'[u]])
    BY <1>4 DEF RegisterCreate
  <2> DEFINE doc == [email |-> frames[p].email, password |-> frames[p].password, role |-> "user",
                     refreshTokenHash |-> {}]
             f == [frames[p] EXCEPT !.step = "issue.save", !.user = u, !.loaded = users'[u]]
  <2>2. p \in Slots /\ frames[p] \in Frame
    BY DEF Slots, TypeInv, TypeOK
  <2>3. doc \in UserDoc \ {NoDoc}
    BY <1>4, <2>2, CreatedDoc DEF RegisterCreate, At, TypeInv, FrameKnows
  <2>4. users' = [users EXCEPT ![u] = doc]
    BY <2>1 DEF CreateUser
  <2>5. users'[u] = doc /\ users' \in [UserIds -> UserDoc \cup {NoDoc}]
        /\ \A v \in UserIds : Exists(v) => users'[v] # NoDoc
    <3> HIDE DEF doc
    <3> QED BY <2>1, <2>3, <2>4 DEF TypeInv, TypeOK, Exists
  <2>6. f \in Frame /\ f.step = "issue.save" /\ f.user = u
    <3> HIDE DEF doc
    <3> QED BY <2>2, <2>3, <2>5 DEF Frame, Steps
  <2>7. PICK g \in Frame : g = f /\ g.step = "issue.save" /\ g.user = u
    BY <2>6
  <2>8. FrameKnows(g)'
    BY <2>3, <2>5, <2>7 DEF FrameKnows, Exists
  <2>9. Become(p, g)
    BY <2>1, <2>7
  <2> QED
    <3>1. /\ (\A t \in tokens : Exists(t.user))'
          /\ tokens' \subseteq Token /\ IsFiniteSet(tokens') /\ signedOut' \subseteq UserIds
          /\ seeded' \in [UserIds -> {{}} \cup {{password} : password \in Passwords}]
      BY <1>4, <2>5 DEF RegisterCreate, TypeInv, TypeOK, Token, Exists
    <3> HIDE DEF doc, f
    <3> QED BY <2>2, <2>5, <2>8, <2>9, <3>1, TypeWrite
<1>5. ASSUME NEW p \in Slots, CreateRefused(p) PROVE TypeInv'
  BY <1>5, TypeBecome DEF CreateRefused, Return, FrameKnows, Idle
<1>6. ASSUME NEW p \in Requests, IssueTokens(p) PROVE TypeInv'
  <2> DEFINE u == frames[p].user
             token == [user |-> u, serial |-> Cardinality(tokens) + 1]
  <2>1. p \in Slots /\ u \in UserIds /\ Exists(u)
    BY <1>6 DEF Slots, IssueTokens, At, TypeInv, FrameKnows
  <2>2. token \in Token
    BY <2>1, FS_CardinalityType DEF TypeInv, Token
  <2>3. users[u] \in UserDoc
    BY <2>1 DEF TypeInv, TypeOK, Exists
  <2>4. Issued(frames[p].loaded, users[u], token) \in UserDoc
    BY <2>1, <2>3 DEF Issued, Digest
  <2>5. users' = [users EXCEPT ![u] = Issued(frames[p].loaded, users[u], token)]
        /\ tokens' = tokens \cup {token} /\ signedOut' = signedOut \ {u}
        /\ Become(p, Idle) /\ seeded' = seeded
    BY <1>6, <2>1 DEF IssueTokens, Return, TypeInv, TypeOK
  <2>6. users' \in [UserIds -> UserDoc \cup {NoDoc}] /\ \A v \in UserIds : Exists(v) => users'[v] # NoDoc
    BY <2>1, <2>4, <2>5 DEF TypeInv, TypeOK, Exists
  <2>7. tokens' \subseteq Token /\ IsFiniteSet(tokens')
    BY <2>2, <2>5, FS_AddElement DEF TypeInv, TypeOK
  <2>8. FrameKnows(Idle)'
    BY DEF FrameKnows, Idle
  <2>9. (\A t \in tokens : Exists(t.user))'
    BY <2>1, <2>5, <2>6 DEF TypeInv, TypeOK, Token, Exists
  <2>10. signedOut' \subseteq UserIds
         /\ seeded' \in [UserIds -> {{}} \cup {{password} : password \in Passwords}]
    BY <2>5 DEF TypeInv, TypeOK
  <2> HIDE DEF token, u
  <2> QED
    BY <2>1, <2>5, <2>6, <2>7, <2>8, <2>9, <2>10, TypeWrite
<1>7. ASSUME NEW p \in Seeders, NEW email \in Emails, NEW password \in Passwords,
             UpsertAdmin(p, email, password)
      PROVE  TypeInv'
  <2>1. CASE Become(p, [Idle EXCEPT !.step = "admin.create", !.kind = "admin",
                                    !.email = email, !.password = password])
    <3> DEFINE f == [Idle EXCEPT !.step = "admin.create", !.kind = "admin",
                                 !.email = email, !.password = password]
    <3>1. f \in Frame /\ FrameKnows(f)
      BY DEF Idle, Frame, Steps, Kinds, FrameKnows
    <3> QED BY <1>7, <2>1, <3>1, TypeBecome DEF UpsertAdmin, Slots
  <2>2. ASSUME NEW u \in WithEmail(email),
               Become(p, [Idle EXCEPT !.step = "admin.save", !.kind = "admin", !.user = u,
                                      !.password = password, !.loaded = users[u]])
        PROVE  TypeInv'
    <3> DEFINE f == [Idle EXCEPT !.step = "admin.save", !.kind = "admin", !.user = u,
                                 !.password = password, !.loaded = users[u]]
    <3>1. u \in UserIds /\ Exists(u) /\ users[u] \in UserDoc \cup {NoDoc}
      BY DEF WithEmail, TypeInv, TypeOK
    <3>2. f \in Frame /\ FrameKnows(f)
      BY <3>1 DEF Idle, Frame, Steps, Kinds, FrameKnows
    <3> QED BY <1>7, <2>2, <3>2, TypeBecome DEF UpsertAdmin, Slots
  <2> QED BY <1>7, <2>1, <2>2 DEF UpsertAdmin
<1>8. ASSUME NEW p \in Seeders, AdminCreate(p) PROVE TypeInv'
  <2>1. PICK u \in UserIds :
            ~Exists(u) /\ CreateUser(p, u, "admin") /\ seeded' = [seeded EXCEPT ![u] = {frames[p].password}]
    BY <1>8 DEF AdminCreate
  <2> DEFINE doc == [email |-> frames[p].email, password |-> frames[p].password, role |-> "admin",
                     refreshTokenHash |-> {}]
  <2>2. p \in Slots
    BY DEF Slots
  <2>3. doc \in UserDoc \ {NoDoc} /\ frames[p].password \in Passwords
    BY <1>8, <2>2, CreatedDoc DEF AdminCreate, At, TypeInv, FrameKnows
  <2>4. users' = [users EXCEPT ![u] = doc]
    BY <2>1 DEF CreateUser
  <2>5. users' \in [UserIds -> UserDoc \cup {NoDoc}] /\ \A v \in UserIds : Exists(v) => users'[v] # NoDoc
    <3> HIDE DEF doc
    <3> QED BY <2>1, <2>3, <2>4 DEF TypeInv, TypeOK, Exists
  <2>6. seeded' \in [UserIds -> {{}} \cup {{password} : password \in Passwords}]
    BY <2>1, <2>3 DEF TypeInv, TypeOK
  <2>7. FrameKnows(Idle)'
    BY DEF FrameKnows, Idle
  <2>8. /\ Become(p, Idle) /\ signedOut' \subseteq UserIds
        /\ tokens' \subseteq Token /\ IsFiniteSet(tokens') /\ (\A t \in tokens : Exists(t.user))'
    BY <1>8, <2>5 DEF AdminCreate, Return, TypeInv, TypeOK, Token, Exists
  <2> HIDE DEF doc
  <2> QED BY <2>2, <2>5, <2>6, <2>7, <2>8, TypeWrite
<1>9. ASSUME NEW p \in Seeders, AdminSave(p) PROVE TypeInv'
  <2> DEFINE u == frames[p].user
             doc == [users[u] EXCEPT !.password = frames[p].password,
                                     !.role = Written("admin", frames[p].loaded.role, @)]
  <2>1. p \in Slots /\ u \in UserIds /\ Exists(u) /\ frames[p].password \in Passwords
    BY <1>9 DEF Slots, AdminSave, At, TypeInv, FrameKnows
  <2>2. users[u] \in UserDoc
    BY <2>1 DEF TypeInv, TypeOK, Exists
  <2>3. doc \in UserDoc
    BY <2>1, <2>2 DEF UserDoc, Written
  <2>4. users' = [users EXCEPT ![u] = doc]
    BY <1>9, <2>1, <2>2 DEF AdminSave, TypeInv, TypeOK, UserDoc
  <2>5. users' \in [UserIds -> UserDoc \cup {NoDoc}] /\ \A v \in UserIds : Exists(v) => users'[v] # NoDoc
    <3> HIDE DEF doc
    <3> QED BY <2>1, <2>3, <2>4 DEF TypeInv, TypeOK, Exists
  <2>6. seeded' \in [UserIds -> {{}} \cup {{password} : password \in Passwords}]
    BY <1>9, <2>1 DEF AdminSave, TypeInv, TypeOK
  <2>7. FrameKnows(Idle)'
    BY DEF FrameKnows, Idle
  <2>8. /\ Become(p, Idle) /\ signedOut' \subseteq UserIds
        /\ tokens' \subseteq Token /\ IsFiniteSet(tokens') /\ (\A t \in tokens : Exists(t.user))'
    BY <1>9, <2>5 DEF AdminSave, Return, TypeInv, TypeOK, Token, Exists
  <2> HIDE DEF doc
  <2> QED BY <2>1, <2>5, <2>6, <2>7, <2>8, TypeWrite
<1>10. ASSUME NEW u \in UserIds, Logout(u) PROVE TypeInv'
  <2>1. Exists(u)
    BY <1>10 DEF Logout, TypeInv
  <2>2. [users[u] EXCEPT !.refreshTokenHash = {}] \in UserDoc
    BY <2>1 DEF TypeInv, TypeOK, Exists, UserDoc
  <2>3. users' = [users EXCEPT ![u] = [users[u] EXCEPT !.refreshTokenHash = {}]]
    BY <1>10 DEF Logout, TypeInv, TypeOK
  <2>4. users' \in [UserIds -> UserDoc \cup {NoDoc}] /\ \A v \in UserIds : Exists(v) => users'[v] # NoDoc
    BY <2>2, <2>3 DEF TypeInv, TypeOK, Exists
  <2>5. \A p \in Slots : FrameKnows(frames[p])'
    BY <1>10, <2>4 DEF Logout, TypeInv, FrameKnows, Exists
  <2>6. \A t \in tokens : Exists(t.user)'
    BY <2>4 DEF TypeInv, TypeOK, Token, Exists
  <2> QED BY <1>10, <2>4, <2>5, <2>6 DEF Logout, TypeInv, TypeOK
<1>11. CASE UNCHANGED vars
  BY <1>11 DEF vars, TypeInv, TypeOK, FrameKnows, Exists, Accepts
<1> QED
  BY <1>1, <1>2, <1>3, <1>4, <1>5, <1>6, <1>7, <1>8, <1>9, <1>10, <1>11
     DEF Next, RequestStep, SeedStep, Slots

LEMMA TypeInvariant == Spec => []TypeInv
  BY TypeInit, TypeStep, PTL DEF Spec

(* Every variable of AuthSessions keeps its domain. *)
THEOREM AuthTypeCorrect == Spec => []TypeOK
  BY TypeInvariant, PTL DEF TypeInv

------------------------------------------------------------------------------
(* The steps that write users, tokens or what the seed stored. *)

Reads == UNCHANGED <<users, tokens, signedOut, seeded>>

LEMMA Writers ==
    ASSUME [Next]_vars
    PROVE  \/ Reads
           \/ \E p \in Slots : RegisterCreate(p) \/ AdminCreate(p) \/ IssueTokens(p) \/ AdminSave(p)
           \/ \E u \in UserIds : Logout(u)
  BY DEF Next, RequestStep, SeedStep, Slots, vars, Reads, Register, Login, Refresh, CreateRefused,
     UpsertAdmin

(* What each of them does to a user. *)
LEMMA Creation ==
    ASSUME TypeInv, NEW p \in Slots, RegisterCreate(p) \/ AdminCreate(p)
    PROVE  \E u \in UserIds, role \in {"user", "admin"} :
              /\ ~Exists(u) /\ WithEmail(frames[p].email) = {}
              /\ users' = [users EXCEPT ![u] = [email |-> frames[p].email, password |-> frames[p].password,
                                               role |-> role, refreshTokenHash |-> {}]]
              /\ tokens' = tokens /\ signedOut' = signedOut
              /\ \/ seeded' = seeded
                 \/ role = "admin" /\ seeded' = [seeded EXCEPT ![u] = {frames[p].password}]
  BY DEF RegisterCreate, AdminCreate, CreateUser

LEMMA Issue ==
    ASSUME TypeInv, NEW p \in Slots, IssueTokens(p)
    PROVE  /\ frames[p].user \in UserIds /\ Exists(frames[p].user)
           /\ users' = [users EXCEPT ![frames[p].user].refreshTokenHash = {[sub |-> frames[p].user]}]
           /\ tokens' = tokens \cup {[user |-> frames[p].user, serial |-> Cardinality(tokens) + 1]}
           /\ signedOut' = signedOut \ {frames[p].user} /\ seeded' = seeded
<1>1. frames[p].user \in UserIds /\ Exists(frames[p].user)
  BY DEF IssueTokens, At, TypeInv, FrameKnows
<1> QED BY <1>1 DEF IssueTokens, Issued, Digest, TypeInv, TypeOK

LEMMA Seeding ==
    ASSUME TypeInv, NEW p \in Slots, AdminSave(p)
    PROVE  /\ frames[p].user \in UserIds /\ Exists(frames[p].user)
           /\ \E role \in {"admin", users[frames[p].user].role} :
                 /\ users' = [users EXCEPT ![frames[p].user].password = frames[p].password,
                                          ![frames[p].user].role = role]
                 /\ frames[p].loaded.role # "admin" => role = "admin"
           /\ seeded' = [seeded EXCEPT ![frames[p].user] = {frames[p].password}]
           /\ tokens' = tokens /\ signedOut' = signedOut
<1>1. frames[p].user \in UserIds /\ Exists(frames[p].user)
  BY DEF AdminSave, At, TypeInv, FrameKnows
<1>2. users' = [users EXCEPT ![frames[p].user].password = frames[p].password,
                             ![frames[p].user].role = Written("admin", frames[p].loaded.role, @)]
      /\ seeded' = [seeded EXCEPT ![frames[p].user] = {frames[p].password}]
      /\ tokens' = tokens /\ signedOut' = signedOut
  BY DEF AdminSave
<1>3. frames[p].user \in UserIds /\ users[frames[p].user] \in UserDoc
  BY <1>1 DEF TypeInv, TypeOK, Exists
<1> QED BY <1>1, <1>2, <1>3 DEF Written, UserDoc, TypeInv, TypeOK

(* What a frame has become after a step that changed it. *)
LEMMA FrameChanges ==
    ASSUME TypeInv, [Next]_vars, NEW p \in Slots, frames'[p] # frames[p]
    PROVE  \/ frames'[p].step \notin {"register.create", "issue.save", "admin.save"}
           \/ frames'[p].step = "register.create" /\ frames'[p].kind = "register"
           \/ frames'[p].step = "issue.save" /\ frames'[p].kind = "login"
           \/ /\ frames'[p].step = "issue.save" /\ frames'[p].kind = "refresh"
              /\ frames'[p].loaded.refreshTokenHash # {}
           \/ /\ At(p, "register.create")
              /\ frames'[p].step = "issue.save" /\ frames'[p].kind = frames[p].kind
           \/ /\ frames'[p].step = "admin.save" /\ Reads
              /\ frames'[p].user \in UserIds /\ frames'[p].loaded = users[frames'[p].user]
<1> DEFINE Goal == \/ frames'[p].step \notin {"register.create", "issue.save", "admin.save"}
                   \/ frames'[p].step = "register.create" /\ frames'[p].kind = "register"
                   \/ frames'[p].step = "issue.save" /\ frames'[p].kind = "login"
                   \/ /\ frames'[p].step = "issue.save" /\ frames'[p].kind = "refresh"
                      /\ frames'[p].loaded.refreshTokenHash # {}
                   \/ /\ At(p, "register.create")
                      /\ frames'[p].step = "issue.save" /\ frames'[p].kind = frames[p].kind
                   \/ /\ frames'[p].step = "admin.save" /\ Reads
                      /\ frames'[p].user \in UserIds /\ frames'[p].loaded = users[frames'[p].user]
<1> SUFFICES Goal
  OBVIOUS
<1>1. frames \in [Slots -> Frame]
  BY DEF TypeInv, TypeOK
<1>3. ASSUME NEW q \in Slots, NEW email \in Emails, NEW password \in Passwords, Register(q, email, password)
      PROVE  Goal
  <2>1. Become(q, [Idle EXCEPT !.step = "register.create", !.kind = "register",
                               !.email = email, !.password = password])
    BY <1>3 DEF Register
  <2>2. frames'[p].step = "register.create" /\ frames'[p].kind = "register"
    BY <1>1, <2>1 DEF Become, Idle
  <2> QED BY <2>2
<1>4. ASSUME NEW q \in Slots, NEW email \in Emails, NEW password \in Passwords, Login(q, email, password)
      PROVE  Goal
  <2>1. PICK u \in WithEmail(email) :
            Become(q, [Idle EXCEPT !.step = "issue.save", !.kind = "login", !.user = u, !.loaded = users[u]])
    BY <1>4 DEF Login
  <2>2. frames'[p].step = "issue.save" /\ frames'[p].kind = "login"
    BY <1>1, <2>1 DEF Become, Idle
  <2> QED BY <2>2
<1>5. ASSUME NEW q \in Slots, NEW token \in tokens, Refresh(q, token)
      PROVE  Goal
  <2>1. users[token.user].refreshTokenHash # {}
    BY <1>5 DEF Refresh, Accepts
  <2>2. Become(q, [Idle EXCEPT !.step = "issue.save", !.kind = "refresh", !.user = token.user,
                               !.loaded = users[token.user]])
    BY <1>5 DEF Refresh
  <2>3. /\ frames'[p].step = "issue.save" /\ frames'[p].kind = "refresh"
        /\ frames'[p].loaded = users[token.user]
    BY <1>1, <2>2 DEF Become, Idle
  <2> QED BY <2>1, <2>3
<1>6. ASSUME NEW q \in Slots, RegisterCreate(q) PROVE Goal
  <2>1. PICK u \in UserIds :
            Become(q, [frames[q] EXCEPT !.step = "issue.save", !.user = u, !.loaded = users'[u]])
    BY <1>6 DEF RegisterCreate
  <2>2. q = p /\ frames'[p] = [frames[p] EXCEPT !.step = "issue.save", !.user = u, !.loaded = users'[u]]
    BY <1>1, <2>1 DEF Become
  <2>3. frames'[p].step = "issue.save" /\ frames'[p].kind = frames[p].kind
    <3>1. frames[p] \in Frame
      BY <1>1
    <3> QED BY <2>2, <3>1 DEF Frame
  <2> QED BY <1>6, <2>2, <2>3 DEF RegisterCreate
<1>7. ASSUME NEW q \in Slots, Return(q) PROVE Goal
  <2>1. frames'[p] = Idle
    BY <1>1, <1>7 DEF Return, Become
  <2>2. Idle.step = "idle"
    BY DEF Idle
  <2> QED BY <2>1, <2>2
<1>8. ASSUME NEW q \in Slots, NEW email \in Emails, NEW password \in Passwords, UpsertAdmin(q, email, password)
      PROVE  Goal
  <2>1. CASE Become(q, [Idle EXCEPT !.step = "admin.create", !.kind = "admin",
                                    !.email = email, !.password = password])
    <3>1. frames'[p].step = "admin.create"
      BY <1>1, <2>1 DEF Become, Idle
    <3> QED BY <3>1
  <2>2. ASSUME NEW u \in WithEmail(email),
               Become(q, [Idle EXCEPT !.step = "admin.save", !.kind = "admin", !.user = u,
                                      !.password = password, !.loaded = users[u]])
        PROVE  Goal
    <3>1. frames'[p].step = "admin.save" /\ frames'[p].user = u /\ frames'[p].loaded = users[u]
      BY <1>1, <2>2 DEF Become, Idle
    <3> QED BY <1>8, <3>1 DEF UpsertAdmin, Reads, WithEmail
  <2> QED BY <1>8, <2>1, <2>2 DEF UpsertAdmin
<1>9. frames' # frames
  OBVIOUS
<1>10. ASSUME NEW q \in Slots, CreateRefused(q) \/ IssueTokens(q) \/ AdminCreate(q) \/ AdminSave(q) PROVE Goal
  BY <1>7, <1>10 DEF CreateRefused, IssueTokens, AdminCreate, AdminSave
<1> HIDE DEF Goal
<1> QED
  BY <1>3, <1>4, <1>5, <1>6, <1>8, <1>9, <1>10 DEF Next, RequestStep, SeedStep, Slots, Logout, vars

------------------------------------------------------------------------------
(* One account per email *)

LEMMA OneAccountStep == TypeInv /\ OneAccountPerEmail /\ [Next]_vars => OneAccountPerEmail'
<1> SUFFICES ASSUME TypeInv, OneAccountPerEmail, [Next]_vars PROVE OneAccountPerEmail'
  OBVIOUS
<1> DEFINE Keeps == \A u \in UserIds : (Exists(u)' => Exists(u)) /\ users'[u].email = users[u].email
<1>1. ASSUME Keeps PROVE OneAccountPerEmail'
  BY <1>1 DEF OneAccountPerEmail
<1>2. CASE Reads
  BY <1>2 DEF Reads, OneAccountPerEmail, Exists
<1>3. ASSUME NEW p \in Slots, RegisterCreate(p) \/ AdminCreate(p) PROVE OneAccountPerEmail'
  <2>1. PICK u \in UserIds, role \in {"user", "admin"} :
            /\ ~Exists(u) /\ WithEmail(frames[p].email) = {}
            /\ users' = [users EXCEPT ![u] = [email |-> frames[p].email, password |-> frames[p].password,
                                             role |-> role, refreshTokenHash |-> {}]]
    BY <1>3, Creation
  <2>2. users'[u].email = frames[p].email /\ \A v \in UserIds \ {u} : users'[v] = users[v]
    BY <2>1 DEF TypeInv, TypeOK
  <2>3. \A v \in UserIds \ {u} : Exists(v)' => users'[v].email # users'[u].email
    BY <2>1, <2>2 DEF WithEmail, Exists
  <2> QED BY <2>2, <2>3 DEF OneAccountPerEmail, Exists
<1>4. ASSUME NEW p \in Slots, IssueTokens(p) PROVE OneAccountPerEmail'
  <2> DEFINE u == frames[p].user
  <2>1. /\ u \in UserIds /\ Exists(u) /\ users[u] \in UserDoc
        /\ users' = [users EXCEPT ![u].refreshTokenHash = {[sub |-> u]}]
    BY <1>4, Issue DEF TypeInv, TypeOK, Exists
  <2>2. users'[u].email = users[u].email /\ \A v \in UserIds \ {u} : users'[v] = users[v]
    BY <2>1 DEF TypeInv, TypeOK, UserDoc
  <2>3. Keeps
    <3> HIDE DEF u
    <3> QED BY <2>1, <2>2 DEF Exists
  <2> QED BY <2>3, <1>1
<1>5. ASSUME NEW p \in Slots, AdminSave(p) PROVE OneAccountPerEmail'
  <2>1. Keeps
    <3> DEFINE u == frames[p].user
    <3>1. PICK role \in {"admin", users[u].role} :
              users' = [users EXCEPT ![u].password = frames[p].password, ![u].role = role]
      BY <1>5, Seeding
    <3>2. u \in UserIds /\ Exists(u) /\ users[u] \in UserDoc
      BY <1>5, Seeding DEF TypeInv, TypeOK, Exists
    <3>3. users'[u].email = users[u].email /\ \A v \in UserIds \ {u} : users'[v] = users[v]
      BY <3>1, <3>2 DEF TypeInv, TypeOK, UserDoc
    <3> HIDE DEF u
    <3> QED BY <3>2, <3>3 DEF Exists
  <2> QED BY <2>1, <1>1
<1>6. ASSUME NEW u \in UserIds, Logout(u) PROVE OneAccountPerEmail'
  <2>1. Exists(u)
    BY <1>6 DEF Logout, TypeInv
  <2>2. Keeps
    BY <1>6, <2>1 DEF Logout, TypeInv, TypeOK, Exists, UserDoc
  <2> QED BY <2>2, <1>1
<1> QED BY <1>2, <1>3, <1>4, <1>5, <1>6, Writers

(* However registrations and runs of the seed overlap, an email has one account. *)
THEOREM OneAccount == Spec => []OneAccountPerEmail
<1>1. Init => OneAccountPerEmail
  BY DEF Init, OneAccountPerEmail, Exists
<1> QED BY <1>1, TypeInvariant, OneAccountStep, PTL DEF Spec

------------------------------------------------------------------------------
(* The seeded admin *)

(* A seed that loaded an admin will save one: nothing takes the role away. *)
SeedInv ==
    /\ SeededStaysAdmin
    /\ \A p \in Slots : At(p, "admin.save") /\ frames[p].loaded.role = "admin" =>
                          users[frames[p].user].role = "admin"

LEMMA SeedStepInv == TypeInv /\ SeedInv /\ [Next]_vars => SeedInv'
<1> SUFFICES ASSUME TypeInv, SeedInv, [Next]_vars PROVE SeedInv'
  OBVIOUS
<1> DEFINE RolesStay == \A u \in UserIds : users[u].role = "admin" => users'[u].role = "admin"
(* The second part, from what happens to the roles. *)
<1>1. ASSUME RolesStay, SeededStaysAdmin' PROVE SeedInv'
  <2> SUFFICES ASSUME NEW p \in Slots, frames'[p].step = "admin.save", frames'[p].loaded.role = "admin"
               PROVE  users'[frames'[p].user].role = "admin"
    BY <1>1 DEF SeedInv, At
  <2>1. CASE frames'[p] = frames[p]
    BY <1>1, <2>1 DEF At, SeedInv, TypeInv, FrameKnows
  <2>2. CASE frames'[p] # frames[p]
    BY <1>1, <2>2, FrameChanges
  <2> QED BY <2>1, <2>2
<1>2. CASE Reads
  BY <1>1, <1>2 DEF Reads, SeededStaysAdmin, SeedInv
<1>3. ASSUME NEW p \in Slots, RegisterCreate(p) \/ AdminCreate(p) PROVE SeedInv'
  <2>1. PICK u \in UserIds, role \in {"user", "admin"} :
            /\ ~Exists(u)
            /\ users' = [users EXCEPT ![u] = [email |-> frames[p].email, password |-> frames[p].password,
                                             role |-> role, refreshTokenHash |-> {}]]
            /\ \/ seeded' = seeded
               \/ role = "admin" /\ seeded' = [seeded EXCEPT ![u] = {frames[p].password}]
    BY <1>3, Creation
  <2>2. users[u].role = "user" /\ users'[u].role = role /\ users'[u].password = frames[p].password
        /\ \A v \in UserIds \ {u} : users'[v] = users[v] /\ seeded'[v] = seeded[v]
    <3>1. users[u].role = "user"
      <4>1. NoDoc.role = "user"
        BY DEF NoDoc
      <4> QED BY <2>1, <4>1 DEF Exists
    <3>2. users'[u].role = role /\ users'[u].password = frames[p].password
          /\ \A v \in UserIds \ {u} : users'[v] = users[v] /\ seeded'[v] = seeded[v]
      <4> DEFINE doc == [email |-> frames[p].email, password |-> frames[p].password,
                         role |-> role, refreshTokenHash |-> {}]
      <4>1. doc.role = role /\ doc.password = frames[p].password
        OBVIOUS
      <4>2. users' = [users EXCEPT ![u] = doc]
        BY <2>1
      <4> HIDE DEF doc
      <4>3. users'[u] = doc /\ \A v \in UserIds \ {u} : users'[v] = users[v]
        BY <4>2 DEF TypeInv, TypeOK
      <4>4. \A v \in UserIds \ {u} : seeded'[v] = seeded[v]
        BY <2>1 DEF TypeInv, TypeOK
      <4> QED BY <4>1, <4>3, <4>4
    <3> QED BY <3>1, <3>2
  <2>3. RolesStay
    BY <2>2
  <2>4. \A password \in Passwords : seeded[u] # {password}
    BY <2>2 DEF SeedInv, SeededStaysAdmin
  <2>5. SeededStaysAdmin'
    BY <2>1, <2>2, <2>4 DEF SeedInv, SeededStaysAdmin, TypeInv, TypeOK
  <2> QED BY <1>1, <2>3, <2>5
<1>4. ASSUME NEW p \in Slots, IssueTokens(p) PROVE SeedInv'
  <2> DEFINE u == frames[p].user
  <2>1. u \in UserIds /\ users[u] \in UserDoc /\ seeded' = seeded
        /\ users' = [users EXCEPT ![u].refreshTokenHash = {[sub |-> u]}]
    BY <1>4, Issue DEF TypeInv, TypeOK, Exists
  <2>2. users'[u].role = users[u].role /\ users'[u].password = users[u].password
        /\ \A v \in UserIds \ {u} : users'[v] = users[v]
    BY <2>1 DEF TypeInv, TypeOK, UserDoc
  <2> HIDE DEF u
  <2> QED BY <1>1, <2>1, <2>2 DEF SeedInv, SeededStaysAdmin
<1>5. ASSUME NEW p \in Slots, AdminSave(p) PROVE SeedInv'
  <2> DEFINE u == frames[p].user
  <2>1. PICK role \in {"admin", users[u].role} :
            /\ users' = [users EXCEPT ![u].password = frames[p].password, ![u].role = role]
            /\ frames[p].loaded.role # "admin" => role = "admin"
    BY <1>5, Seeding
  <2>2. u \in UserIds /\ users[u] \in UserDoc /\ seeded' = [seeded EXCEPT ![u] = {frames[p].password}]
    BY <1>5, Seeding DEF TypeInv, TypeOK, Exists
  <2>3. role = "admin"
    BY <1>5, <2>1 DEF AdminSave, SeedInv
  <2>4. users'[u].role = "admin" /\ users'[u].password = frames[p].password
        /\ seeded'[u] = {frames[p].password}
        /\ \A v \in UserIds \ {u} : users'[v] = users[v] /\ seeded'[v] = seeded[v]
    BY <2>1, <2>2, <2>3 DEF TypeInv, TypeOK, UserDoc
  <2> HIDE DEF u
  <2> QED BY <1>1, <2>4 DEF SeedInv, SeededStaysAdmin
<1>6. ASSUME NEW u \in UserIds, Logout(u) PROVE SeedInv'
  <2>1. users[u] \in UserDoc /\ users' = [users EXCEPT ![u].refreshTokenHash = {}] /\ seeded' = seeded
    BY <1>6 DEF Logout, TypeInv, TypeOK, Exists
  <2>2. users'[u].role = users[u].role /\ users'[u].password = users[u].password
        /\ \A v \in UserIds \ {u} : users'[v] = users[v]
    BY <2>1 DEF TypeInv, TypeOK, UserDoc
  <2> QED BY <1>1, <2>1, <2>2 DEF SeedInv, SeededStaysAdmin
<1> HIDE DEF RolesStay
<1> QED BY <1>2, <1>3, <1>4, <1>5, <1>6, Writers

(* The account the seed made an admin stays one, whatever sign-ins save after. *)
THEOREM SeededAdmin == Spec => []SeededStaysAdmin
<1>1. Init => SeedInv
  <2> SUFFICES ASSUME Init PROVE SeedInv
    OBVIOUS
  <2>1. \A u \in UserIds, password \in Passwords : seeded[u] # {password}
    BY DEF Init
  <2>2. \A p \in Slots : frames[p].step = "idle"
    BY DEF Init, Idle
  <2> QED BY <2>1, <2>2 DEF SeedInv, SeededStaysAdmin, At
<1>2. Spec => []SeedInv
  BY <1>1, TypeInvariant, SeedStepInv, PTL DEF Spec
<1> QED BY <1>2, PTL DEF SeedInv

------------------------------------------------------------------------------
(* Sessions *)

(* A refresh that passed its check found a session open. *)
SessionInv ==
    \A p \in Slots :
       /\ At(p, "register.create") => frames[p].kind = "register"
       /\ At(p, "issue.save") /\ frames[p].kind = "refresh" =>
             frames[p].loaded.refreshTokenHash # {}

LEMMA SessionStep == TypeInv /\ SessionInv /\ [Next]_vars => SessionInv'
<1> SUFFICES ASSUME TypeInv, SessionInv, [Next]_vars, NEW p \in Slots
             PROVE  /\ frames'[p].step = "register.create" => frames'[p].kind = "register"
                    /\ frames'[p].step = "issue.save" /\ frames'[p].kind = "refresh" =>
                          frames'[p].loaded.refreshTokenHash # {}
  BY DEF SessionInv, At
<1>1. CASE frames'[p] = frames[p]
  BY <1>1 DEF SessionInv, At
<1>2. CASE frames'[p] # frames[p]
  BY <1>2, FrameChanges DEF SessionInv, At
<1> QED BY <1>1, <1>2

LEMMA SessionInvariant == Spec => []SessionInv
<1>1. Init => SessionInv
  <2>1. Idle.step = "idle"
    BY DEF Idle
  <2> QED BY <2>1 DEF Init, SessionInv, At
<1> QED BY <1>1, TypeInvariant, SessionStep, PTL DEF Spec

(* A session is opened only by a password or by a refresh that found it open. *)
THEOREM SessionsOpened == Spec => SessionsNeedPassword
<1> DEFINE Opened(u) == users[u].refreshTokenHash = {} /\ users'[u].refreshTokenHash # {} =>
                          \E p \in Requests :
                             /\ At(p, "issue.save") /\ frames[p].user = u
                             /\ frames[p].kind = "refresh" => frames[p].loaded.refreshTokenHash # {}
<1>1. ASSUME TypeInv, SessionInv, [Next]_vars PROVE [\A u \in UserIds : Opened(u)]_vars
  <2> SUFFICES ASSUME NEW u \in UserIds, users[u].refreshTokenHash = {}, users'[u].refreshTokenHash # {},
                      Next
               PROVE  \E p \in Requests :
                         /\ At(p, "issue.save") /\ frames[p].user = u
                         /\ frames[p].kind = "refresh" => frames[p].loaded.refreshTokenHash # {}
    BY <1>1
  <2>1. CASE Reads
    BY <2>1 DEF Reads
  <2>2. ASSUME NEW p \in Slots, RegisterCreate(p) \/ AdminCreate(p) PROVE FALSE
    <3>1. PICK v \in UserIds, role \in {"user", "admin"} :
              users' = [users EXCEPT ![v] = [email |-> frames[p].email, password |-> frames[p].password,
                                             role |-> role, refreshTokenHash |-> {}]]
      BY <1>1, <2>2, Creation
    <3> QED BY <1>1, <3>1 DEF TypeInv, TypeOK
  <2>3. ASSUME NEW p \in Requests, IssueTokens(p)
        PROVE  /\ At(p, "issue.save") /\ frames[p].user = u
               /\ frames[p].kind = "refresh" => frames[p].loaded.refreshTokenHash # {}
    <3>1. p \in Slots
      BY DEF Slots
    <3>2. frames[p].user = u
      BY <1>1, <2>3, <3>1, Issue DEF TypeInv, TypeOK
    <3> QED BY <1>1, <2>3, <3>1, <3>2 DEF IssueTokens, SessionInv
  <2>4. ASSUME NEW p \in Slots, AdminSave(p) PROVE FALSE
    <3> DEFINE v == frames[p].user
    <3>1. PICK role \in {"admin", users[v].role} :
              users' = [users EXCEPT ![v].password = frames[p].password, ![v].role = role]
      BY <1>1, <2>4, Seeding
    <3>2. v \in UserIds /\ users[v] \in UserDoc
      BY <1>1, <2>4, Seeding DEF TypeInv, TypeOK, Exists
    <3>3. users'[v].refreshTokenHash = users[v].refreshTokenHash
          /\ \A w \in UserIds \ {v} : users'[w] = users[w]
      BY <1>1, <3>1, <3>2 DEF TypeInv, TypeOK, UserDoc
    <3> HIDE DEF v
    <3> QED BY <3>3
  <2>5. ASSUME NEW v \in UserIds, Logout(v) PROVE FALSE
    <3>1. users[v] \in UserDoc /\ users' = [users EXCEPT ![v].refreshTokenHash = {}]
      BY <1>1, <2>5 DEF Logout, TypeInv, TypeOK, Exists
    <3> QED BY <1>1, <3>1 DEF TypeInv, TypeOK, UserDoc
  <2>6. ASSUME NEW p \in Slots, IssueTokens(p)
        PROVE  \E q \in Requests : IssueTokens(q)
    BY <2>6, <2>1, <2>2, <2>4, <2>5 DEF Next, RequestStep, SeedStep, IssueTokens, Slots, Reads,
       Register, Login, Refresh, CreateRefused, UpsertAdmin
  <2> QED BY <1>1, <2>1, <2>2, <2>3, <2>4, <2>5, <2>6, Writers
<1> QED BY <1>1, TypeInvariant, SessionInvariant, PTL DEF Spec, SessionsNeedPassword

LEMMA OnlyLogoutStep == TypeInv /\ OnlyLogoutEndsSessions /\ [Next]_vars => OnlyLogoutEndsSessions'
<1> SUFFICES ASSUME TypeInv, OnlyLogoutEndsSessions, [Next]_vars, NEW token \in tokens'
             PROVE  [sub |-> token.user] \in users'[token.user].refreshTokenHash
                    \/ token.user \in signedOut'
  BY DEF OnlyLogoutEndsSessions, Accepts, Digest
<1> DEFINE u == token.user
           Old == token \in tokens => u \in UserIds /\ Exists(u)
                     /\ ([sub |-> u] \in users[u].refreshTokenHash \/ u \in signedOut)
<1>1. Old
  BY DEF TypeInv, TypeOK, Token, OnlyLogoutEndsSessions, Accepts, Digest
<1>2. CASE Reads
  BY <1>1, <1>2 DEF Reads
<1>3. ASSUME NEW p \in Slots, RegisterCreate(p) \/ AdminCreate(p)
      PROVE  [sub |-> u] \in users'[u].refreshTokenHash \/ u \in signedOut'
  <2>1. PICK v \in UserIds, role \in {"user", "admin"} :
            /\ ~Exists(v)
            /\ users' = [users EXCEPT ![v] = [email |-> frames[p].email, password |-> frames[p].password,
                                             role |-> role, refreshTokenHash |-> {}]]
            /\ tokens' = tokens /\ signedOut' = signedOut
    BY <1>3, Creation
  <2>2. v # u
    BY <1>1, <2>1
  <2>3. u \in UserIds /\ users'[u] = users[u]
    BY <1>1, <2>1, <2>2 DEF TypeInv, TypeOK
  <2> QED BY <1>1, <2>1, <2>3
<1>4. ASSUME NEW p \in Slots, IssueTokens(p)
      PROVE  [sub |-> u] \in users'[u].refreshTokenHash \/ u \in signedOut'
  <2> DEFINE v == frames[p].user
  <2>1. /\ v \in UserIds /\ users[v] \in UserDoc
        /\ users' = [users EXCEPT ![v].refreshTokenHash = {[sub |-> v]}]
        /\ signedOut' = signedOut \ {v}
    BY <1>4, Issue DEF TypeInv, TypeOK, Exists
  <2>2. token \in tokens \/ u = v
    <3>1. token \in tokens \/ token = [user |-> v, serial |-> Cardinality(tokens) + 1]
      <4>1. tokens' = tokens \cup {[user |-> v, serial |-> Cardinality(tokens) + 1]}
        BY <1>4, Issue
      <4> QED BY <4>1
    <3>2. [user |-> v, serial |-> Cardinality(tokens) + 1].user = v
      OBVIOUS
    <3> QED BY <3>1, <3>2
  <2>3. users'[v].refreshTokenHash = {[sub |-> v]} /\ \A w \in UserIds \ {v} : users'[w] = users[w]
    BY <2>1 DEF TypeInv, TypeOK, UserDoc
  <2> HIDE DEF v, u
  <2>4. CASE u = v
    BY <2>3, <2>4
  <2>5. CASE u # v
    BY <1>1, <2>1, <2>2, <2>3, <2>5
  <2> QED BY <2>4, <2>5
<1>5. ASSUME NEW p \in Slots, AdminSave(p)
      PROVE  [sub |-> u] \in users'[u].refreshTokenHash \/ u \in signedOut'
  <2> DEFINE v == frames[p].user
  <2>1. PICK role \in {"admin", users[v].role} :
            users' = [users EXCEPT ![v].password = frames[p].password, ![v].role = role]
    BY <1>5, Seeding
  <2>2. v \in UserIds /\ users[v] \in UserDoc /\ tokens' = tokens /\ signedOut' = signedOut
    BY <1>5, Seeding DEF TypeInv, TypeOK, Exists
  <2>3. users'[v].refreshTokenHash = users[v].refreshTokenHash
        /\ \A w \in UserIds \ {v} : users'[w] = users[w]
    BY <2>1, <2>2 DEF TypeInv, TypeOK, UserDoc
  <2> HIDE DEF v, u
  <2> QED BY <1>1, <2>2, <2>3
<1>6. ASSUME NEW v \in UserIds, Logout(v)
      PROVE  [sub |-> u] \in users'[u].refreshTokenHash \/ u \in signedOut'
  BY <1>1, <1>6 DEF Logout, TypeInv, TypeOK
<1> HIDE DEF u, Old
<1> QED BY <1>2, <1>3, <1>4, <1>5, <1>6, Writers DEF u

(* Only a logout ends a session: every token handed out stays acceptable until then. *)
THEOREM SessionsLast == Spec => []OnlyLogoutEndsSessions
<1>1. Init => OnlyLogoutEndsSessions
  BY DEF Init, OnlyLogoutEndsSessions
<1> QED BY <1>1, TypeInvariant, OnlyLogoutStep, PTL DEF Spec
=============================================================================
