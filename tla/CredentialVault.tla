--------------------------- MODULE CredentialVault ---------------------------
(* The credentials of one user: the user_credentials documents, the handlers of
   CredentialsService on them, and GoogleOAuthService, which keeps its
   connection there.  Every query filters by owner, so users share nothing and
   one user is enough.

   As in JobRuns a handler is a frame; it runs from one database operation to
   the next, and the frames of several requests interleave.  An update is a load
   and a save with the merge between them: whoever saves `data` writes all of it. *)
EXTENDS FieldEncryption, Documents, Integers, FiniteSets

CONSTANTS
    CredIds,        \* ids that randomUUID may give, each at most once; bounds creation
    NoCred,         \* no credential
    Requests,       \* slots for HTTP requests handled at the same time
    Grants,         \* what Google hands out, one per consent; bounds reconnecting
    Accounts,       \* Google accounts of the user, named by email
    RefreshAnswers, \* whether the token answer carries a refresh_token
    Sheets,         \* spreadsheet ids the user may choose
    Keys,           \* API keys the user may enter
    Posts,          \* bodies of POST /credentials
    Patches,        \* bodies of PATCH /credentials/:id
    Editable,       \* the credentials edited in a form filled from the list
    Removable,      \* the credentials DELETE /credentials/:id may be called for
    Initial,        \* documents an earlier version or key may have left
    MaxCrashes      \* bound: process crashes

ASSUME VaultInputsAssumption ==
    /\ NoCred \notin CredIds
    /\ Grants \cup Accounts \cup Sheets \cup Keys \subseteq Texts \ {NoText, MaskText}
    /\ RefreshAnswers \subseteq BOOLEAN
    /\ Editable \cup Removable \subseteq CredIds
    /\ MaxCrashes \in Nat
ASSUME VaultSizeAssumption == IsFiniteSet(CredIds)

VARIABLES
    vault,        \* the user_credentials collection
    updatedAt,    \* the rank of each credential in the order of updatedAt
    frames,       \* the handler running in each slot
    consents,     \* per grant: the account and whether a refresh token came with it
    revoked,      \* the grants Google was asked to revoke and did
    disconnected, \* the credentials some successful disconnect listed
    cutOff,       \* the credentials whose removal a crash cut off
    retyped,      \* the credentials some update renamed apart from their access token
    crashes

vars == <<vault, updatedAt, frames, consents, revoked, disconnected, cutOff, retyped, crashes>>
history == <<consents, revoked, disconnected, cutOff, retyped, crashes>>

CredentialTypes == {"google-oauth", "api-key", "wordpress"}
N8nIds == {NoText, "n8n"}
Keep == "keep"

(* "unborn" marks an id not given out yet, "removed" one that was deleted. *)
CredentialDoc == [type : CredentialTypes \cup {"unborn", "removed"}, n8n : N8nIds, data : Data]
Unborn == [type |-> "unborn", n8n |-> NoText, data |-> NoData]
Removed == [type |-> "removed", n8n |-> NoText, data |-> NoData]

ASSUME InitialAssumption == \A doc \in Initial : doc \in CredentialDoc /\ doc.type \in CredentialTypes

(* The body of an update: `n8n` = Keep and `data` = NoData when they are not
   given; `label` tells whether the label changes. *)
Patch == [n8n : N8nIds \cup {Keep}, data : Data, label : BOOLEAN]
NoPatch == [n8n |-> Keep, data |-> NoData, label |-> FALSE]

ASSUME BodiesAssumption ==
    /\ \A body \in Posts : body \in CredentialDoc /\ body.type \in CredentialTypes
    /\ \A patch \in Patches : patch \in Patch

------------------------------------------------------------------------------
(* Documents *)

Present(c) == vault[c].type \in CredentialTypes

(* find({ ownerId, type }) *)
List(type) == {c \in CredIds : vault[c].type = type}

Latest(creds) == CHOOSE c \in creds : \A d \in creds : updatedAt[d] <= updatedAt[c]

(* toItem(doc, 'decrypt') of a whole list throws for one unreadable member. *)
ListThrows(type) == \E c \in List(type) : ~Decryptable(vault[c].data)

(* Mutant: `timestamps` is not set on the schema. *)
UntouchedBySaves(c) == updatedAt

(* updatedAt becomes the newest; the others keep their order. *)
Touched(c) ==
    [d \in CredIds |-> CASE d = c -> Cardinality(CredIds)
                         [] d # c /\ updatedAt[d] > updatedAt[c] -> updatedAt[d] - 1
                         [] OTHER -> updatedAt[d]]

(* validatePayload *)
Valid(type, n8n, data) ==
    \/ type = "google-oauth" /\ (n8n # NoText \/ Has(data, "accessToken") \/ Has(data, "refreshToken"))
    \/ type = "api-key" /\ (n8n # NoText \/ Has(data, "apiKey"))
    \/ type = "wordpress" /\ Has(data, "siteUrl")

(* Mutant: n8nCredentialId is assigned also when it is not given. *)
AssignedAlways(doc, patch) ==
    [doc EXCEPT !.n8n = patch.n8n,
                !.data = IF patch.data = NoData THEN @
                         ELSE EncryptSensitiveFields(Merged(@, StripMaskedPlaceholders(patch.data)))]

(* Mutant: the patch is encrypted, and what was stored is kept as it is. *)
AssignedPatchOnly(doc, patch) ==
    [doc EXCEPT !.n8n = IF patch.n8n = Keep THEN @ ELSE patch.n8n,
                !.data = Merged(@, EncryptSensitiveFields(StripMaskedPlaceholders(patch.data)))]

(* What `update` assigns to the document it loaded. *)
Assigned(doc, patch) ==
    [doc EXCEPT
        !.n8n = IF patch.n8n = Keep THEN @ ELSE patch.n8n,
        !.data = IF patch.data = NoData THEN @
                 ELSE EncryptSensitiveFields(Merged(@, StripMaskedPlaceholders(patch.data)))]

(* Mutant: nothing is validated. *)
AcceptableUnvalidated(doc) == Decryptable(doc.data)

(* Mutant: the merged data is validated without being decrypted. *)
AcceptableUndecrypted(doc) == Valid(doc.type, doc.n8n, doc.data)

(* `update` saves only what decrypts and validates. *)
Acceptable(doc) == Decryptable(doc.data) /\ Valid(doc.type, doc.n8n, DecryptSensitiveFields(doc.data))

(* doc.save(): markModified('data') sends the whole of data. *)
SaveCredential(doc, loaded, patch, stored) ==
    [type |-> stored.type,
     n8n |-> Written(doc.n8n, loaded.n8n, stored.n8n),
     data |-> IF patch.data = NoData THEN stored.data ELSE doc.data]

(* Whether the save sends anything, and so renews updatedAt. *)
Sends(doc, loaded, patch) == patch.label \/ patch.data # NoData \/ doc.n8n # loaded.n8n

------------------------------------------------------------------------------
(* Frames *)

Kinds == {"callback", "sheet", "key", "patch", "edit", "disconnect", "remove"}
Steps == {"idle", "upsert.list", "update.load", "update.save", "create",
          "disconnect.revoke", "remove.find", "remove.delete"}

(* What disconnect keeps of each credential it listed: the token it will revoke. *)
Item == [cred : CredIds, token : Texts]

Frame == [step : Steps, kind : Kinds, cred : CredIds \cup {NoCred}, patch : Patch,
          loaded : CredentialDoc, items : SUBSET Item, listed : SUBSET CredIds]

Idle == [step |-> "idle", kind |-> "patch", cred |-> NoCred, patch |-> NoPatch,
         loaded |-> Unborn, items |-> {}, listed |-> {}]

Free(p) == frames[p] = Idle
At(p, step) == frames[p].step = step
Become(p, frame) == frames' = [frames EXCEPT ![p] = frame]
Goto(p, step) == Become(p, [frames[p] EXCEPT !.step = step])
Return(p) == Become(p, Idle)
Throw(p) == Return(p)

------------------------------------------------------------------------------
(* create, update, remove *)

(* credentialModel.create *)
Insert(type, n8n, data) ==
    \E c \in CredIds :
        /\ vault[c] = Unborn
        /\ vault' = [vault EXCEPT ![c] = [type |-> type, n8n |-> n8n,
                                          data |-> EncryptSensitiveFields(data)]]
        /\ updatedAt' = Touched(c)

(* POST /credentials *)
PostCredential(body) ==
    /\ Valid(body.type, body.n8n, body.data)
    /\ Insert(body.type, body.n8n, body.data)
    /\ UNCHANGED <<frames, history>>

(* `create` at the end of an upsert. *)
Create(p) ==
    /\ At(p, "create")
    /\ Insert(IF frames[p].kind = "key" THEN "api-key" ELSE "google-oauth", NoText,
              frames[p].patch.data)
    /\ Return(p)
    /\ UNCHANGED history

(* The patch brings another email or refresh token than is stored, and leaves the
   access token as it is. *)
Retypes(doc, patch) ==
    LET sent == StripMaskedPlaceholders(patch.data)
    IN  /\ sent["accessToken"] = Absent
        /\ \E f \in {"email", "refreshToken"} :
              sent[f] # Absent /\ TextOf(sent, f) # TextOf(doc.data, f)

(* `update` after findEntityForUser; only upsertApiKey catches its NotFoundException. *)
Loaded(p, frame) ==
    LET doc == Assigned(vault[frame.cred], frame.patch) IN
    /\ \/ ~Present(frame.cred) /\ frame.kind = "key" /\ Become(p, [frame EXCEPT !.step = "create"])
       \/ ~Present(frame.cred) /\ frame.kind # "key" /\ Throw(p)
       \/ Present(frame.cred) /\ ~Acceptable(doc) /\ Throw(p)
       \/ /\ Present(frame.cred) /\ Acceptable(doc)
          /\ Become(p, [frame EXCEPT !.step = "update.save", !.loaded = vault[frame.cred]])
    /\ retyped' = IF Retypes(vault[frame.cred], frame.patch)
                  THEN retyped \cup {frame.cred} ELSE retyped

(* PATCH /credentials/:id *)
PatchCredential(p, c, patch) ==
    /\ Free(p)
    /\ Present(c)
    /\ Loaded(p, [Idle EXCEPT !.kind = "patch", !.cred = c, !.patch = patch])
    /\ UNCHANGED <<vault, updatedAt, consents, revoked, disconnected, cutOff, crashes>>

(* The same from a form that was filled from the masked list and is sent back as
   it is, but for the label. *)
EditListed(p, c) ==
    /\ Free(p)
    /\ Present(c)
    /\ Become(p, [Idle EXCEPT !.step = "update.load", !.kind = "edit", !.cred = c,
                              !.patch.label = TRUE,
                              !.patch.data = MaskSensitiveFields(vault[c].data)])
    /\ UNCHANGED <<vault, updatedAt, history>>

UpdateLoad(p) ==
    /\ At(p, "update.load")
    /\ Loaded(p, frames[p])
    /\ UNCHANGED <<vault, updatedAt, consents, revoked, disconnected, cutOff, crashes>>

(* Mutant: the save creates what it does not find. *)
UpdateSaveUpserts(p) ==
    /\ At(p, "update.save")
    /\ LET f == frames[p]
           doc == Assigned(f.loaded, f.patch)
       IN  /\ vault' = [vault EXCEPT ![f.cred] = IF Present(f.cred) THEN SaveCredential(doc, f.loaded, f.patch, @) ELSE doc]
           /\ updatedAt' = Touched(f.cred)
    /\ Return(p)
    /\ UNCHANGED history

(* doc.save() throws DocumentNotFoundError when the document was deleted. *)
UpdateSave(p) ==
    /\ At(p, "update.save")
    /\ LET f == frames[p]
           doc == Assigned(f.loaded, f.patch)
       IN  IF Present(f.cred)
           THEN /\ vault' = [vault EXCEPT ![f.cred] = SaveCredential(doc, f.loaded, f.patch, @)]
                /\ updatedAt' = IF Sends(doc, f.loaded, f.patch) THEN Touched(f.cred) ELSE updatedAt
                /\ Return(p)
           ELSE Throw(p) /\ UNCHANGED <<vault, updatedAt>>
    /\ UNCHANGED history

(* DELETE /credentials/:id, its findEntityForUser. *)
RemoveCredential(p, c) ==
    /\ Free(p)
    /\ Present(c)
    /\ Become(p, [Idle EXCEPT !.step = "remove.delete", !.kind = "remove", !.cred = c])
    /\ UNCHANGED <<vault, updatedAt, history>>

(* upsertApiKey, called when a job's node config holds a new API key; `c` is the
   credential the job refers to.  A masked placeholder changes nothing and is left out. *)
EnterKey(p, key, c) ==
    /\ Free(p)
    /\ c # NoCred => vault[c] # Unborn
    /\ Become(p, [Idle EXCEPT !.step = IF c = NoCred THEN "create" ELSE "update.load",
                              !.kind = "key", !.cred = c, !.patch.label = TRUE,
                              !.patch.data = With(NoData, "apiKey", key)])
    /\ UNCHANGED <<vault, updatedAt, history>>

------------------------------------------------------------------------------
(* The Google connection *)

(* handleCallback up to upsertGoogleOAuth: Google answers the code with tokens
   for the account the user picked.  A failing exchange changes nothing. *)
Callback(p, g, account, refresh) ==
    /\ Free(p)
    /\ consents[g].account = NoText
    /\ consents' = [consents EXCEPT ![g] = [account |-> account, refresh |-> refresh]]
    /\ LET tokens == With(With(NoData, "email", account), "accessToken", g)
       IN  Become(p, [Idle EXCEPT
                         !.step = "upsert.list", !.kind = "callback", !.patch.label = TRUE,
                         !.patch.data = IF refresh THEN With(tokens, "refreshToken", g) ELSE tokens])
    /\ UNCHANGED <<vault, updatedAt, revoked, disconnected, cutOff, retyped, crashes>>

SameEmail(creds, email) == {c \in creds : TextOf(vault[c].data, "email") = email}

(* Mutant: only the same account is reconnected. *)
ExistingSameEmail(email) ==
    LET same == SameEmail(List("google-oauth"), email)
    IN  IF same # {} THEN Latest(same) ELSE NoCred

(* The credential a reconnect reuses: the one of that email, else the latest. *)
Existing(email) ==
    LET creds == List("google-oauth")
        same == SameEmail(creds, email)
    IN  IF same # {} THEN Latest(same) ELSE IF creds # {} THEN Latest(creds) ELSE NoCred

(* Mutant: the previous refresh token wins. *)
UpsertDataOldRefresh(tokens, previous) ==
    LET new == IF Has(previous, "refreshToken")
               THEN With(tokens, "refreshToken", TextOf(previous, "refreshToken"))
               ELSE tokens
    IN  With(new, "spreadsheetId", TextOf(previous, "spreadsheetId"))

(* Mutant: the spreadsheet chosen before is forgotten. *)
UpsertDataNoSheet(tokens, previous) ==
    LET old == IF Has(previous, "refreshToken")
               THEN With(NoData, "refreshToken", TextOf(previous, "refreshToken"))
               ELSE NoData
    IN  With(Merged(old, tokens), "spreadsheetId", NoText)

(* The `data` upsertGoogleOAuth writes: what Google sent, with the previous
   refresh token where none came, and the previous spreadsheet or ''. *)
UpsertData(tokens, previous) ==
    LET old == IF Has(previous, "refreshToken")
               THEN With(NoData, "refreshToken", TextOf(previous, "refreshToken"))
               ELSE NoData
    IN  With(Merged(old, tokens), "spreadsheetId", TextOf(previous, "spreadsheetId"))

UpsertList(p) ==
    /\ At(p, "upsert.list")
    /\ LET f == frames[p]
           c == Existing(TextOf(f.patch.data, "email"))
           previous == IF c = NoCred THEN NoData ELSE DecryptSensitiveFields(vault[c].data)
       IN  IF ListThrows("google-oauth")
           THEN Throw(p)
           ELSE Become(p, [f EXCEPT !.step = IF c = NoCred THEN "create" ELSE "update.load",
                                    !.cred = c, !.patch.data = UpsertData(@, previous)])
    /\ UNCHANGED <<vault, updatedAt, history>>

(* updateSpreadsheetId: everything the primary credential held when it was
   listed is written back with the new spreadsheet. *)
ChooseSheet(p, sheet) ==
    /\ Free(p)
    /\ List("google-oauth") # {} /\ ~ListThrows("google-oauth")
    /\ LET c == Latest(List("google-oauth"))
       IN  Become(p, [Idle EXCEPT !.step = "update.load", !.kind = "sheet", !.cred = c,
                        !.patch.data = With(DecryptSensitiveFields(vault[c].data),
                                            "spreadsheetId", sheet)])
    /\ UNCHANGED <<vault, updatedAt, history>>

(* The token disconnect revokes: refreshToken || accessToken. *)
TokenOf(data) ==
    IF Has(data, "refreshToken") THEN TextOf(data, "refreshToken") ELSE TextOf(data, "accessToken")

(* disconnect, its list; with an empty list it changes nothing. *)
Disconnect(p) ==
    /\ Free(p)
    /\ List("google-oauth") # {} /\ ~ListThrows("google-oauth")
    /\ Become(p, [Idle EXCEPT
                     !.step = "disconnect.revoke", !.kind = "disconnect",
                     !.listed = List("google-oauth"),
                     !.items = {[cred |-> c, token |-> TokenOf(vault[c].data)] :
                                c \in List("google-oauth")}])
    /\ UNCHANGED <<vault, updatedAt, history>>

(* The loop goes on with `items`; an empty list ends it. *)
NextItem(p, items) ==
    IF items = {}
    THEN /\ Return(p)
         /\ disconnected' = disconnected \cup frames[p].listed
    ELSE /\ Become(p, [frames[p] EXCEPT !.step = "disconnect.revoke", !.items = items,
                                        !.cred = NoCred])
         /\ UNCHANGED disconnected

(* Mutant: a credential whose token Google did not revoke is kept. *)
RevokeOrSkip(p) ==
    /\ At(p, "disconnect.revoke")
    /\ \E item \in frames[p].items :
          \/ /\ Become(p, [frames[p] EXCEPT !.step = "remove.find", !.cred = item.cred,
                                            !.items = @ \ {item}])
             /\ revoked' = revoked \cup ({item.token} \cap Grants)
             /\ UNCHANGED disconnected
          \/ /\ NextItem(p, frames[p].items \ {item})
             /\ UNCHANGED revoked
    /\ UNCHANGED <<vault, updatedAt, consents, cutOff, retyped, crashes>>

(* One turn of the loop: the token is revoked, or not, which is only logged. *)
Revoke(p) ==
    /\ At(p, "disconnect.revoke")
    /\ \E item \in frames[p].items :
          /\ Become(p, [frames[p] EXCEPT !.step = "remove.find", !.cred = item.cred,
                                         !.items = @ \ {item}])
          /\ revoked' \in {revoked, revoked \cup ({item.token} \cap Grants)}
    /\ UNCHANGED <<vault, updatedAt, consents, disconnected, cutOff, retyped, crashes>>

(* remove, its findEntityForUser: NotFoundException leaves the loop. *)
RemoveFind(p) ==
    /\ At(p, "remove.find")
    /\ IF Present(frames[p].cred) THEN Goto(p, "remove.delete") ELSE Throw(p)
    /\ UNCHANGED <<vault, updatedAt, history>>

(* deleteOne, which does not mind finding nothing. *)
RemoveDelete(p) ==
    /\ At(p, "remove.delete")
    /\ vault' = [vault EXCEPT ![frames[p].cred] = IF Present(frames[p].cred) THEN Removed ELSE @]
    /\ NextItem(p, frames[p].items)
    /\ UNCHANGED <<updatedAt, consents, revoked, cutOff, retyped, crashes>>

(* findPrimaryGoogleCredential and getStatus. *)
Primary == IF List("google-oauth") = {} THEN NoCred ELSE Latest(List("google-oauth"))

Status ==
    IF Primary = NoCred
    THEN [connected |-> FALSE, email |-> NoText, sheet |-> NoText]
    ELSE LET doc == vault[Primary]
         IN  [connected |-> Valid("google-oauth", doc.n8n, doc.data),
              email |-> TextOf(doc.data, "email"),
              sheet |-> TextOf(doc.data, "spreadsheetId")]

------------------------------------------------------------------------------
(* The process dies: every handler stops where it is. *)
Crash ==
    /\ crashes < MaxCrashes
    /\ crashes' = crashes + 1
    /\ cutOff' = cutOff \cup {c \in CredIds : \E p \in Requests :
                                 frames[p].kind = "disconnect" /\ frames[p].cred = c}
    /\ frames' = [p \in Requests |-> Idle]
    /\ UNCHANGED <<vault, updatedAt, consents, revoked, disconnected, retyped>>

(* At most one document is left from before. *)
Init ==
    /\ \/ vault = [c \in CredIds |-> Unborn] /\ updatedAt = [c \in CredIds |-> 0]
       \/ \E first \in CredIds, doc \in Initial :
             /\ vault = [c \in CredIds |-> IF c = first THEN doc ELSE Unborn]
             /\ updatedAt = [c \in CredIds |-> IF c = first THEN Cardinality(CredIds) ELSE 0]
    /\ frames = [p \in Requests |-> Idle]
    /\ consents = [g \in Grants |-> [account |-> NoText, refresh |-> FALSE]]
    /\ revoked = {} /\ disconnected = {} /\ cutOff = {} /\ retyped = {} /\ crashes = 0

Start(p) ==
    \/ \E c \in CredIds, patch \in Patches : PatchCredential(p, c, patch)
    \/ \E c \in Editable : EditListed(p, c)
    \/ \E c \in Removable : RemoveCredential(p, c)
    \/ \E key \in Keys, c \in CredIds \cup {NoCred} : EnterKey(p, key, c)
    \/ \E g \in Grants, a \in Accounts, refresh \in RefreshAnswers : Callback(p, g, a, refresh)
    \/ \E sheet \in Sheets : ChooseSheet(p, sheet)
    \/ Disconnect(p)

Continue(p) ==
    \/ Create(p) \/ UpdateLoad(p) \/ UpdateSave(p) \/ UpsertList(p)
    \/ Revoke(p) \/ RemoveFind(p) \/ RemoveDelete(p)

Next ==
    \/ \E p \in Requests : Start(p) \/ Continue(p)
    \/ \E body \in Posts : PostCredential(body)
    \/ Crash

Spec == Init /\ [][Next]_vars
=============================================================================
