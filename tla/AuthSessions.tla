----------------------------- MODULE AuthSessions -----------------------------
(* Accounts and sign-in: AuthService on the users collection.

   A sign-in loads the user, compares, signs tokens and saves the hash of the
   refresh token; several handlers may be between load and save of one user.  The
   seed of the admin user is a process of its own that runs upsertAdmin. *)
EXTENDS Documents, Integers, FiniteSets

CONSTANTS
    UserIds,        \* ids of user documents
    NoUser,         \* no user
    Emails,         \* normalised emails
    Passwords,      \* passwords of an acceptable length
    Requests,       \* slots for HTTP requests handled at the same time
    Seeders,        \* slots for runs of the seed script
    MaxTokens       \* bound: refresh tokens issued

ASSUME AuthInputsAssumption ==
    /\ NoUser \notin UserIds
    /\ "" \notin Emails
    /\ Requests \cap Seeders = {}
    /\ MaxTokens \in Nat

VARIABLES
    users,      \* the users collection
    frames,     \* the handler running in each slot
    tokens,     \* the refresh tokens handed out
    signedOut,  \* the users that logged out and have not been issued tokens since
    seeded      \* per user the password the seed last stored, as a set of at most one

vars == <<users, frames, tokens, signedOut, seeded>>
Slots == Requests \cup Seeders

Token == [user : UserIds, serial : Nat]

(* bcrypt reads the first 72 bytes.  In a signed token these are the header and the
   beginning of `sub`: they depend on the user alone.  A hash is only ever compared
   with tokens of the user it is stored for. *)
DigestBytes == {[sub |-> u] : u \in UserIds}

(* Mutant: the hash depends on the whole token. *)
DigestWhole(token) == [sub |-> token.user, rest |-> token.serial]

Digest(token) == [sub |-> token.user]

(* refreshTokenHash is null or the hash of a digest; passwords are shorter than 72
   bytes and stand for their hashes. *)
UserDoc == [email : Emails, password : Passwords, role : {"user", "admin"},
            refreshTokenHash : {{}} \cup {{d} : d \in DigestBytes}]
NoDoc == [email |-> "", password |-> "", role |-> "user", refreshTokenHash |-> {}]

Exists(u) == users[u] # NoDoc

(* findOne({ email }) *)
WithEmail(email) == {u \in UserIds : Exists(u) /\ users[u].email = email}

(* The checks of `refresh`: a session is open and its hash matches. *)
Accepts(token) == Digest(token) \in users[token.user].refreshTokenHash

------------------------------------------------------------------------------
(* Frames *)

Steps == {"idle", "register.create", "issue.save", "admin.save", "admin.create"}
Kinds == {"register", "login", "refresh", "admin"}
Frame == [step : Steps, kind : Kinds, user : UserIds \cup {NoUser},
          email : Emails \cup {""}, password : Passwords \cup {""}, loaded : UserDoc \cup {NoDoc}]
Idle == [step |-> "idle", kind |-> "login", user |-> NoUser, email |-> "", password |-> "",
         loaded |-> NoDoc]

Free(p) == frames[p] = Idle
At(p, step) == frames[p].step = step
Become(p, frame) == frames' = [frames EXCEPT ![p] = frame]
Return(p) == Become(p, Idle)

(* Bound: no sign-in begins that MaxTokens does not leave room for. *)
TokensLeft ==
    Cardinality(tokens) + Cardinality({p \in Requests : ~Free(p)}) < MaxTokens

------------------------------------------------------------------------------
(* Mutant: the unique index on email is missing. *)
CreateUserTwice(p, u, role) ==
    users' = [users EXCEPT ![u] = [email |-> frames[p].email, password |-> frames[p].password,
                                   role |-> role, refreshTokenHash |-> {}]]

(* userModel.create; the unique index on email refuses a second account. *)
CreateUser(p, u, role) ==
    /\ WithEmail(frames[p].email) = {}
    /\ users' = [users EXCEPT ![u] = [email |-> frames[p].email, password |-> frames[p].password,
                                      role |-> role, refreshTokenHash |-> {}]]

(* POST /auth/register, up to its findOne. *)
Register(p, email, password) ==
    /\ Free(p) /\ TokensLeft
    /\ WithEmail(email) = {}
    /\ Become(p, [Idle EXCEPT !.step = "register.create", !.kind = "register",
                              !.email = email, !.password = password])
    /\ UNCHANGED <<users, tokens, signedOut, seeded>>

RegisterCreate(p) ==
    /\ At(p, "register.create")
    /\ \E u \in UserIds :
          /\ ~Exists(u)
          /\ CreateUser(p, u, "user")
          /\ Become(p, [frames[p] EXCEPT !.step = "issue.save", !.user = u, !.loaded = users'[u]])
    /\ UNCHANGED <<tokens, signedOut, seeded>>

(* The duplicate key error of either create. *)
CreateRefused(p) ==
    /\ At(p, "register.create") \/ At(p, "admin.create")
    /\ WithEmail(frames[p].email) # {}
    /\ Return(p)
    /\ UNCHANGED <<users, tokens, signedOut, seeded>>

(* POST /auth/login, up to the comparison with the password it loaded. *)
Login(p, email, password) ==
    /\ Free(p) /\ TokensLeft
    /\ \E u \in WithEmail(email) :
          /\ users[u].password = password
          /\ Become(p, [Idle EXCEPT !.step = "issue.save", !.kind = "login", !.user = u,
                                    !.loaded = users[u]])
    /\ UNCHANGED <<users, tokens, signedOut, seeded>>

(* Mutant: a user without a session is not turned away. *)
RefreshAnyway(p, token) ==
    /\ Free(p) /\ TokensLeft
    /\ Become(p, [Idle EXCEPT !.step = "issue.save", !.kind = "refresh", !.user = token.user,
                              !.loaded = users[token.user]])
    /\ UNCHANGED <<users, tokens, signedOut, seeded>>

(* POST /auth/refresh, up to the comparison with the hash it loaded. *)
Refresh(p, token) ==
    /\ Free(p) /\ TokensLeft
    /\ Accepts(token)
    /\ Become(p, [Idle EXCEPT !.step = "issue.save", !.kind = "refresh", !.user = token.user,
                              !.loaded = users[token.user]])
    /\ UNCHANGED <<users, tokens, signedOut, seeded>>

(* Mutant: the save writes the user as it was loaded. *)
IssuedWhole(loaded, stored, token) == [loaded EXCEPT !.refreshTokenHash = {Digest(token)}]

(* What user.save() of issueTokens leaves: the hash is the only path that changed. *)
Issued(loaded, stored, token) == [stored EXCEPT !.refreshTokenHash = {Digest(token)}]

(* issueTokens *)
IssueTokens(p) ==
    /\ At(p, "issue.save")
    /\ LET u == frames[p].user
           token == [user |-> u, serial |-> Cardinality(tokens) + 1]
       IN  /\ users' = [users EXCEPT ![u] = Issued(frames[p].loaded, @, token)]
           /\ tokens' = tokens \cup {token}
           /\ signedOut' = signedOut \ {u}
    /\ Return(p)
    /\ UNCHANGED seeded

(* POST /auth/logout of a user that was issued an access token. *)
Logout(u) ==
    /\ \E token \in tokens : token.user = u
    /\ users' = [users EXCEPT ![u].refreshTokenHash = {}]
    /\ signedOut' = signedOut \cup {u}
    /\ UNCHANGED <<frames, tokens, seeded>>

------------------------------------------------------------------------------
(* upsertAdmin, up to its findOne. *)
UpsertAdmin(p, email, password) ==
    /\ Free(p)
    /\ \/ /\ WithEmail(email) = {}
          /\ Become(p, [Idle EXCEPT !.step = "admin.create", !.kind = "admin",
                                    !.email = email, !.password = password])
       \/ \E u \in WithEmail(email) :
             Become(p, [Idle EXCEPT !.step = "admin.save", !.kind = "admin", !.user = u,
                                    !.password = password, !.loaded = users[u]])
    /\ UNCHANGED <<users, tokens, signedOut, seeded>>

AdminCreate(p) ==
    /\ At(p, "admin.create")
    /\ \E u \in UserIds :
          /\ ~Exists(u)
          /\ CreateUser(p, u, "admin")
          /\ seeded' = [seeded EXCEPT ![u] = {frames[p].password}]
    /\ Return(p)
    /\ UNCHANGED <<tokens, signedOut>>

(* passwordHash is not loaded, so it is always written; role when it changes. *)
AdminSave(p) ==
    /\ At(p, "admin.save")
    /\ LET f == frames[p] IN
       /\ users' = [users EXCEPT ![f.user].password = f.password,
                                 ![f.user].role = Written("admin", f.loaded.role, @)]
       /\ seeded' = [seeded EXCEPT ![f.user] = {f.password}]
    /\ Return(p)
    /\ UNCHANGED <<tokens, signedOut>>

------------------------------------------------------------------------------
Init ==
    /\ users = [u \in UserIds |-> NoDoc]
    /\ frames = [p \in Slots |-> Idle]
    /\ tokens = {} /\ signedOut = {}
    /\ seeded = [u \in UserIds |-> {}]

RequestStep(p) ==
    \/ \E email \in Emails, password \in Passwords :
          Register(p, email, password) \/ Login(p, email, password)
    \/ \E token \in tokens : Refresh(p, token)
    \/ RegisterCreate(p) \/ CreateRefused(p) \/ IssueTokens(p)

SeedStep(p) ==
    \/ \E email \in Emails, password \in Passwords : UpsertAdmin(p, email, password)
    \/ AdminCreate(p) \/ CreateRefused(p) \/ AdminSave(p)

Next ==
    \/ \E p \in Requests : RequestStep(p)
    \/ \E p \in Seeders : SeedStep(p)
    \/ \E u \in UserIds : Logout(u)

Spec == Init /\ [][Next]_vars

------------------------------------------------------------------------------
(* Every variable keeps its type. *)
TypeOK ==
    /\ users \in [UserIds -> UserDoc \cup {NoDoc}]
    /\ frames \in [Slots -> Frame]
    /\ tokens \subseteq Token
    /\ signedOut \subseteq UserIds
    /\ seeded \in [UserIds -> {{}} \cup {{password} : password \in Passwords}]

(* However registrations and the seed overlap, an email has one account: each finds
   no user before either creates one. *)
OneAccountPerEmail ==
    \A u, v \in UserIds : Exists(u) /\ Exists(v) /\ users[u].email = users[v].email => u = v

(* The account the seed made an admin stays one, with the password the seed gave it,
   whatever sign-ins loaded the user before and save it after. *)
SeededStaysAdmin ==
    \A u \in UserIds, password \in Passwords :
        seeded[u] = {password} => users[u].role = "admin" /\ users[u].password = password

(* Only a logout ends a session: another sign-in of the same user, on another
   device or overlapping, leaves the tokens handed out before acceptable. *)
OnlyLogoutEndsSessions ==
    \A token \in tokens : Accepts(token) \/ token.user \in signedOut

(* A session is opened by a registration, a login, or a refresh that found it open:
   after a logout, of the refreshes only those already past their check can still
   issue tokens.  (That a login compares the password is a guard of Login.) *)
SessionsNeedPassword ==
    [][\A u \in UserIds :
          users[u].refreshTokenHash = {} /\ users'[u].refreshTokenHash # {} =>
             \E p \in Requests :
                /\ At(p, "issue.save") /\ frames[p].user = u
                /\ frames[p].kind = "refresh" => frames[p].loaded.refreshTokenHash # {}]_vars
=============================================================================
