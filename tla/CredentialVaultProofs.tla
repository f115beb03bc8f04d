------------------------ MODULE CredentialVaultProofs ------------------------
(* Theorems about CredentialVault, for every value of its constants. *)
EXTENDS CredentialVaultProperties, FiniteSetTheorems, WellFoundedInduction, TLAPS

(* What CryptoService does to a data object: sealing keeps every text, seals every
   secret, leaves what it cannot read unreadable, and is undone by decrypting. *)
LEMMA Encryption ==
    ASSUME NEW data \in Data
    PROVE  /\ EncryptSensitiveFields(data) \in Data
           /\ AllSealed(EncryptSensitiveFields(data))
           /\ Decryptable(EncryptSensitiveFields(data)) <=> Decryptable(data)
           /\ DecryptSensitiveFields(EncryptSensitiveFields(data)) = DecryptSensitiveFields(data)
           /\ \A f \in Fields : TextOf(EncryptSensitiveFields(data), f) = TextOf(data, f)
<1> DEFINE enc == EncryptSensitiveFields(data)
<1>1. /\ enc \in Data
      /\ \A f \in Fields : /\ TextOf(enc, f) = TextOf(data, f)
                           /\ IsSecret(enc, f) <=> IsSecret(data, f)
                           /\ IsSecret(data, f) => /\ IsEncrypted(enc[f])
                                                   /\ enc[f].form = "unreadable" <=> data[f].form = "unreadable"
                           /\ ~IsSecret(data, f) => enc[f] = data[f]
  BY DEF EncryptSensitiveFields, Encrypt, IsEncrypted, IsSecret, Has, TextOf, Data, Values
<1>2. AllSealed(enc) /\ (Decryptable(enc) <=> Decryptable(data))
  BY <1>1 DEF AllSealed, Decryptable
<1>3. DecryptSensitiveFields(enc) = DecryptSensitiveFields(data)
  <2>1. \A f \in Fields : (IF IsSecret(enc, f) THEN Plain(enc[f].text) ELSE enc[f])
                          = (IF IsSecret(data, f) THEN Plain(data[f].text) ELSE data[f])
    BY <1>1 DEF TextOf
  <2> QED BY <2>1 DEF DecryptSensitiveFields
<1> QED BY <1>1, <1>2, <1>3

(* The other operators on data objects are closed. *)
LEMMA DataClosed ==
    ASSUME NEW data \in Data, NEW patch \in Data, NEW f \in Fields, NEW t \in Texts
    PROVE  /\ NoData \in Data /\ Absent \in Values
           /\ With(data, f, t) \in Data
           /\ Merged(data, patch) \in Data
           /\ StripMaskedPlaceholders(data) \in Data
           /\ MaskSensitiveFields(data) \in Data
           /\ DecryptSensitiveFields(data) \in Data
           /\ TextOf(data, f) \in Texts
<1>1. Absent \in Values /\ NoText \in Texts /\ MaskText \in Texts
  BY TextsAssumption DEF Absent, Values
<1>2. NoData \in Data
  BY <1>1 DEF NoData, Data
<1>3. With(data, f, t) \in Data
  BY DEF With, Plain, Data, Values
<1>4. Merged(data, patch) \in Data
  BY DEF Merged, Data
<1>5. StripMaskedPlaceholders(data) \in Data
  BY <1>1 DEF StripMaskedPlaceholders, Data
<1>6. MaskSensitiveFields(data) \in Data
  BY <1>1 DEF MaskSensitiveFields, Plain, Data, Values
<1>7. DecryptSensitiveFields(data) \in Data /\ TextOf(data, f) \in Texts
  BY DEF DecryptSensitiveFields, Plain, Data, Values, TextOf
<1> QED BY <1>1, <1>2, <1>3, <1>4, <1>5, <1>6, <1>7

(* What update makes of a document is a document of the same type. *)
LEMMA AssignedDoc ==
    ASSUME NEW doc \in CredentialDoc, NEW patch \in Patch
    PROVE  Assigned(doc, patch) \in CredentialDoc /\ Assigned(doc, patch).type = doc.type
<1>1. doc.data \in Data /\ patch.data \in Data /\ (patch.n8n = Keep \/ patch.n8n \in N8nIds)
  BY DEF CredentialDoc, Patch
<1>2. EncryptSensitiveFields(Merged(doc.data, StripMaskedPlaceholders(patch.data))) \in Data
  BY <1>1, TextsAssumption, DataClosed, Encryption DEF Fields
<1>3. Assigned(doc, patch) = [doc EXCEPT !.n8n = Assigned(doc, patch).n8n, !.data = Assigned(doc, patch).data]
      /\ Assigned(doc, patch).n8n \in N8nIds /\ Assigned(doc, patch).data \in Data
  BY <1>1, <1>2 DEF Assigned, CredentialDoc
<1> QED BY <1>3 DEF CredentialDoc

(* Among some credentials there is a latest one: ranks are bounded. *)
LEMMA LatestOfSome ==
    ASSUME updatedAt \in [CredIds -> 0..Cardinality(CredIds)],
           NEW creds \in SUBSET CredIds, creds # {}
    PROVE  Latest(creds) \in creds /\ \A d \in creds : updatedAt[d] <= updatedAt[Latest(creds)]
<1> DEFINE N == Cardinality(CredIds)
           R == OpToRel(<, Nat)
           T == {N - updatedAt[c] : c \in creds}
<1>1. N \in Nat
  BY VaultSizeAssumption, FS_CardinalityType
<1>2. T \subseteq Nat /\ T # {}
  BY <1>1
<1>3. PICK x \in T : \A y \in T : <<y, x>> \notin R
  <2>1. IsWellFoundedOn(R, Nat)
    BY NatLessThanWellFounded
  <2> HIDE DEF R, T
  <2> QED BY <1>2, <2>1, WFMin
<1>4. \A y \in T : ~(y < x)
  BY <1>2, <1>3 DEF OpToRel
<1>5. PICK c \in creds : x = N - updatedAt[c]
  OBVIOUS
<1>6. \A d \in creds : updatedAt[d] <= updatedAt[c]
  <2> TAKE d \in creds
  <2>1. ~(N - updatedAt[d] < N - updatedAt[c])
    BY <1>4, <1>5
  <2>2. updatedAt[d] \in Int /\ updatedAt[c] \in Int
    OBVIOUS
  <2> QED BY <1>1, <2>1, <2>2
<1> QED BY <1>6 DEF Latest

------------------------------------------------------------------------------
(* Typing *)

(* The steps of a handler that works on a credential. *)
CredSteps == {"update.load", "update.save", "remove.find", "remove.delete"}

FramesNameCreds == \A p \in Requests : frames[p].step \in CredSteps => frames[p].cred \in CredIds

TypeInv == TypeOK /\ FramesNameCreds

(* A frame of the right type that names its credential. *)
Proper(f) == f \in Frame /\ (f.step \in CredSteps => f.cred \in CredIds)

LEMMA NoTextIsText == NoText \in Texts /\ MaskText \in Texts
  BY TextsAssumption

LEMMA IdleProper == Proper(Idle) /\ NoPatch \in Patch /\ Unborn \in CredentialDoc /\ Removed \in CredentialDoc
<1>1. NoData \in Data
  BY NoTextIsText DEF NoData, Absent, Data, Values
<1>2. NoPatch \in Patch /\ Unborn \in CredentialDoc /\ Removed \in CredentialDoc
  BY <1>1 DEF NoPatch, Patch, Unborn, Removed, CredentialDoc, N8nIds
<1> QED BY <1>2 DEF Proper, Idle, Frame, Steps, Kinds, CredSteps

(* A handler that becomes a proper frame keeps the typing of all frames. *)
LEMMA BecomeTyped ==
    ASSUME TypeInv, NEW p \in Requests, NEW f, Proper(f), Become(p, f)
    PROVE  frames' \in [Requests -> Frame] /\ FramesNameCreds'
<1>1. frames' = [frames EXCEPT ![p] = f] /\ frames \in [Requests -> Frame]
  BY DEF Become, TypeInv, TypeOK
<1>2. frames' \in [Requests -> Frame]
  BY <1>1 DEF Proper
<1>3. ASSUME NEW q \in Requests, frames'[q].step \in CredSteps PROVE frames'[q].cred \in CredIds
  BY <1>1, <1>3 DEF Proper, TypeInv, FramesNameCreds
<1> QED BY <1>2, <1>3 DEF FramesNameCreds

LEMMA TouchedType ==
    ASSUME TypeInv, NEW c \in CredIds
    PROVE  Touched(c) \in [CredIds -> 0..Cardinality(CredIds)]
<1>1. Cardinality(CredIds) \in Nat
  BY VaultSizeAssumption, FS_CardinalityType
<1>2. ASSUME NEW d \in CredIds PROVE Touched(c)[d] \in 0..Cardinality(CredIds)
  <2>1. updatedAt[d] \in 0..Cardinality(CredIds) /\ updatedAt[c] \in 0..Cardinality(CredIds)
    BY DEF TypeInv, TypeOK
  <2>2. CASE d = c
    BY <1>1, <2>2 DEF Touched
  <2>3. CASE d # c /\ updatedAt[d] > updatedAt[c]
    <3>1. Touched(c)[d] = updatedAt[d] - 1
      BY <2>3 DEF Touched
    <3> QED BY <1>1, <2>1, <2>3, <3>1
  <2>4. CASE d # c /\ ~(updatedAt[d] > updatedAt[c])
    BY <2>1, <2>4 DEF Touched
  <2> QED BY <2>2, <2>3, <2>4
<1> QED BY <1>2 DEF Touched

(* What an insertion does to the vault. *)
LEMMA InsertType ==
    ASSUME TypeInv, NEW type \in CredentialTypes, NEW n8n \in N8nIds, NEW data \in Data,
           Insert(type, n8n, data)
    PROVE  /\ vault' \in [CredIds -> CredentialDoc]
           /\ updatedAt' \in [CredIds -> 0..Cardinality(CredIds)]
<1>1. PICK c \in CredIds :
          /\ vault' = [vault EXCEPT ![c] = [type |-> type, n8n |-> n8n, data |-> EncryptSensitiveFields(data)]]
          /\ updatedAt' = Touched(c)
  BY DEF Insert
<1>2. [type |-> type, n8n |-> n8n, data |-> EncryptSensitiveFields(data)] \in CredentialDoc
  BY Encryption DEF CredentialDoc
<1> QED BY <1>1, <1>2, TouchedType DEF TypeInv, TypeOK

(* Loading a document for an update ends in a proper frame. *)
LEMMA LoadedType ==
    ASSUME TypeInv, NEW p \in Requests, NEW f \in Frame, f.cred \in CredIds, Loaded(p, f)
    PROVE  frames' \in [Requests -> Frame] /\ FramesNameCreds'
<1>1. CASE Become(p, [f EXCEPT !.step = "create"])
  <2>1. Proper([f EXCEPT !.step = "create"])
    BY DEF Proper, Frame, Steps, CredSteps
  <2> QED BY <1>1, <2>1, BecomeTyped
<1>2. CASE Throw(p)
  BY <1>2, IdleProper, BecomeTyped DEF Throw, Return
<1>3. CASE Become(p, [f EXCEPT !.step = "update.save", !.loaded = vault[f.cred]])
  <2>1. vault[f.cred] \in CredentialDoc
    BY DEF TypeInv, TypeOK
  <2>2. Proper([f EXCEPT !.step = "update.save", !.loaded = vault[f.cred]])
    BY <2>1 DEF Proper, Frame, Steps, CredSteps
  <2> QED BY <1>3, <2>2, BecomeTyped
<1> QED BY <1>1, <1>2, <1>3 DEF Loaded

LEMMA InitType == Init => TypeInv
<1> SUFFICES ASSUME Init PROVE TypeInv
  OBVIOUS
<1>1. Cardinality(CredIds) \in Nat
  BY VaultSizeAssumption, FS_CardinalityType
<1>2. vault \in [CredIds -> CredentialDoc] /\ updatedAt \in [CredIds -> 0..Cardinality(CredIds)]
  BY <1>1, IdleProper, InitialAssumption DEF Init
<1>3. frames \in [Requests -> Frame] /\ FramesNameCreds
  BY IdleProper DEF Init, Proper, FramesNameCreds
<1>4. consents \in [Grants -> [account : Accounts \cup {NoText}, refresh : BOOLEAN]]
  BY DEF Init
<1>5. /\ revoked \subseteq Grants /\ disconnected \subseteq CredIds /\ cutOff \subseteq CredIds
      /\ retyped \subseteq CredIds /\ crashes \in 0..MaxCrashes
  BY VaultInputsAssumption DEF Init
<1> QED BY <1>2, <1>3, <1>4, <1>5 DEF TypeInv, TypeOK

(* Actions that only move their handler's frame. *)
LEMMA MoveType ==
    ASSUME TypeInv, frames' \in [Requests -> Frame], FramesNameCreds',
           UNCHANGED <<vault, updatedAt, history>>
    PROVE  TypeInv'
  BY DEF TypeInv, TypeOK, history

LEMMA LoadedMoveType ==
    ASSUME TypeInv, NEW p \in Requests, NEW f, f.cred \in CredIds, Loaded(p, f),
           frames' \in [Requests -> Frame], FramesNameCreds',
           UNCHANGED <<vault, updatedAt, consents, revoked, disconnected, cutOff, crashes>>
    PROVE  TypeInv'
<1>1. retyped' \subseteq CredIds
  BY DEF Loaded, TypeInv, TypeOK
<1> QED BY <1>1 DEF TypeInv, TypeOK

LEMMA PostType ==
    ASSUME TypeInv, NEW body \in Posts, PostCredential(body)
    PROVE  TypeInv'
<1>1. body.type \in CredentialTypes /\ body.n8n \in N8nIds /\ body.data \in Data
  BY BodiesAssumption DEF CredentialDoc
<1>2. /\ vault' \in [CredIds -> CredentialDoc]
      /\ updatedAt' \in [CredIds -> 0..Cardinality(CredIds)]
  BY <1>1, InsertType DEF PostCredential
<1> QED BY <1>2 DEF PostCredential, history, TypeInv, TypeOK, FramesNameCreds

LEMMA CreateType ==
    ASSUME TypeInv, NEW p \in Requests, Create(p)
    PROVE  TypeInv'
<1>1. frames[p].patch.data \in Data
  BY DEF TypeInv, TypeOK, Frame, Patch
<1>2. /\ vault' \in [CredIds -> CredentialDoc]
      /\ updatedAt' \in [CredIds -> 0..Cardinality(CredIds)]
  <2> DEFINE type == IF frames[p].kind = "key" THEN "api-key" ELSE "google-oauth"
  <2>1. type \in CredentialTypes /\ NoText \in N8nIds
    BY DEF CredentialTypes, N8nIds
  <2>2. Insert(type, NoText, frames[p].patch.data)
    BY DEF Create
  <2> HIDE DEF type
  <2> QED BY <1>1, <2>1, <2>2, InsertType
<1>3. frames' \in [Requests -> Frame] /\ FramesNameCreds'
  BY IdleProper, BecomeTyped DEF Create, Return
<1> QED BY <1>2, <1>3 DEF Create, history, TypeInv, TypeOK

LEMMA PatchType ==
    ASSUME TypeInv, NEW p \in Requests, NEW c \in CredIds, NEW patch \in Patches,
           PatchCredential(p, c, patch)
    PROVE  TypeInv'
<1>1. [Idle EXCEPT !.kind = "patch", !.cred = c, !.patch = patch] \in Frame
  BY IdleProper, BodiesAssumption DEF Proper, Frame, Kinds
<1>2. [Idle EXCEPT !.kind = "patch", !.cred = c, !.patch = patch].cred \in CredIds
  BY DEF Idle
<1>3. frames' \in [Requests -> Frame] /\ FramesNameCreds'
  BY <1>1, <1>2, LoadedType DEF PatchCredential
<1> QED BY <1>2, <1>3, LoadedMoveType DEF PatchCredential

LEMMA LoadType ==
    ASSUME TypeInv, NEW p \in Requests, UpdateLoad(p)
    PROVE  TypeInv'
<1>1. frames[p] \in Frame /\ frames[p].cred \in CredIds
  BY DEF UpdateLoad, At, TypeInv, TypeOK, FramesNameCreds, CredSteps
<1> QED BY <1>1, LoadedType, LoadedMoveType DEF UpdateLoad

LEMMA EditType ==
    ASSUME TypeInv, NEW p \in Requests, NEW c \in CredIds, EditListed(p, c)
    PROVE  TypeInv'
<1> DEFINE f == [Idle EXCEPT !.step = "update.load", !.kind = "edit", !.cred = c,
                             !.patch.label = TRUE, !.patch.data = MaskSensitiveFields(vault[c].data)]
<1>1. MaskSensitiveFields(vault[c].data) \in Data
  BY NoTextIsText, DataClosed DEF TypeInv, TypeOK, CredentialDoc, Fields
<1>2. Proper(f)
  BY <1>1, IdleProper DEF Proper, Frame, Steps, Kinds, Patch, Idle, NoPatch
<1>3. Become(p, f)
  BY DEF EditListed
<1> HIDE DEF f
<1> QED BY <1>2, <1>3, BecomeTyped, MoveType DEF EditListed

(* What a save leaves in the vault has its type. *)
LEMMA SavedDoc ==
    ASSUME TypeInv, NEW p \in Requests, frames[p].cred \in CredIds
    PROVE  SaveCredential(Assigned(frames[p].loaded, frames[p].patch), frames[p].loaded,
                          frames[p].patch, vault[frames[p].cred]) \in CredentialDoc
<1>1. frames[p].loaded \in CredentialDoc /\ frames[p].patch \in Patch /\ vault[frames[p].cred] \in CredentialDoc
  BY DEF TypeInv, TypeOK, Frame
<1>2. Assigned(frames[p].loaded, frames[p].patch) \in CredentialDoc
  BY <1>1, AssignedDoc
<1> QED BY <1>1, <1>2 DEF SaveCredential, Written, CredentialDoc

LEMMA SaveType ==
    ASSUME TypeInv, NEW p \in Requests, UpdateSave(p)
    PROVE  TypeInv'
<1> DEFINE f == frames[p]
           doc == SaveCredential(Assigned(f.loaded, f.patch), f.loaded, f.patch, vault[f.cred])
<1>1. f.cred \in CredIds
  BY DEF UpdateSave, At, TypeInv, FramesNameCreds, CredSteps
<1>2. doc \in CredentialDoc
  BY <1>1, SavedDoc
<1>3. vault' = [vault EXCEPT ![f.cred] = doc] \/ vault' = vault
  BY DEF UpdateSave
<1>4. updatedAt' = Touched(f.cred) \/ updatedAt' = updatedAt
  BY DEF UpdateSave
<1>5. frames' \in [Requests -> Frame] /\ FramesNameCreds'
  BY IdleProper, BecomeTyped DEF UpdateSave, Throw, Return
<1> HIDE DEF doc
<1>6. vault' \in [CredIds -> CredentialDoc] /\ updatedAt' \in [CredIds -> 0..Cardinality(CredIds)]
  BY <1>1, <1>2, <1>3, <1>4, TouchedType DEF TypeInv, TypeOK
<1> QED BY <1>5, <1>6 DEF UpdateSave, history, TypeInv, TypeOK

LEMMA RemoveStartType ==
    ASSUME TypeInv, NEW p \in Requests, NEW c \in CredIds, RemoveCredential(p, c)
    PROVE  TypeInv'
<1>1. Proper([Idle EXCEPT !.step = "remove.delete", !.kind = "remove", !.cred = c])
  BY IdleProper DEF Proper, Frame, Steps, Kinds, Idle
<1> QED BY <1>1, BecomeTyped, MoveType DEF RemoveCredential

LEMMA KeyType ==
    ASSUME TypeInv, NEW p \in Requests, NEW key \in Keys, NEW c \in CredIds \cup {NoCred},
           EnterKey(p, key, c)
    PROVE  TypeInv'
<1> DEFINE f == [Idle EXCEPT !.step = IF c = NoCred THEN "create" ELSE "update.load",
                             !.kind = "key", !.cred = c, !.patch.label = TRUE,
                             !.patch.data = With(NoData, "apiKey", key)]
<1>1. With(NoData, "apiKey", key) \in Data
  BY NoTextIsText, VaultInputsAssumption DEF With, NoData, Plain, Absent, Data, Values
<1>2. Proper(f)
  BY <1>1, IdleProper DEF Proper, Frame, Steps, Kinds, Patch, Idle, NoPatch, CredSteps
<1>3. Become(p, f)
  BY DEF EnterKey
<1> HIDE DEF f
<1> QED BY <1>2, <1>3, BecomeTyped, MoveType DEF EnterKey

LEMMA CallbackType ==
    ASSUME TypeInv, NEW p \in Requests, NEW g \in Grants, NEW account \in Accounts,
           NEW refresh \in RefreshAnswers, Callback(p, g, account, refresh)
    PROVE  TypeInv'
<1> DEFINE tokens == With(With(NoData, "email", account), "accessToken", g)
           data == IF refresh THEN With(tokens, "refreshToken", g) ELSE tokens
           f == [Idle EXCEPT !.step = "upsert.list", !.kind = "callback", !.patch.label = TRUE,
                             !.patch.data = data]
<1>1. data \in Data
  <2>1. NoData \in Data
    BY NoTextIsText DEF NoData, Absent, Data, Values
  <2>2. g \in Texts /\ account \in Texts
    BY VaultInputsAssumption
  <2> QED BY <2>1, <2>2 DEF With, Plain, Data, Values
<1> HIDE DEF data
<1>2. Proper(f)
  BY <1>1, IdleProper DEF Proper, Frame, Steps, Kinds, Patch, Idle, NoPatch, CredSteps
<1>3. Become(p, f)
  BY DEF Callback, data
<1> HIDE DEF f
<1>4. frames' \in [Requests -> Frame] /\ FramesNameCreds'
  BY <1>2, <1>3, BecomeTyped
<1>5. consents' \in [Grants -> [account : Accounts \cup {NoText}, refresh : BOOLEAN]]
  BY VaultInputsAssumption DEF Callback, TypeInv, TypeOK
<1> QED BY <1>4, <1>5 DEF Callback, TypeInv, TypeOK

(* The credential a reconnect reuses exists. *)
LEMMA ExistingType ==
    ASSUME TypeInv, NEW email
    PROVE  Existing(email) \in CredIds \cup {NoCred}
<1>1. List("google-oauth") \in SUBSET CredIds /\ SameEmail(List("google-oauth"), email) \in SUBSET CredIds
  BY DEF List, SameEmail
<1> QED BY <1>1, LatestOfSome DEF Existing, TypeInv, TypeOK

LEMMA UpsertDataType ==
    ASSUME NEW tokens \in Data, NEW previous \in Data
    PROVE  UpsertData(tokens, previous) \in Data
<1> DEFINE old == IF Has(previous, "refreshToken")
                  THEN With(NoData, "refreshToken", TextOf(previous, "refreshToken"))
                  ELSE NoData
<1>1. NoData \in Data /\ TextOf(previous, "refreshToken") \in Texts /\ TextOf(previous, "spreadsheetId") \in Texts
  BY NoTextIsText, DataClosed DEF Fields
<1>2. old \in Data
  BY <1>1, NoTextIsText DEF With, Plain, Data, Values
<1>3. Merged(old, tokens) \in Data
  BY <1>2 DEF Merged, Data
<1> HIDE DEF old
<1>4. With(Merged(old, tokens), "spreadsheetId", TextOf(previous, "spreadsheetId")) \in Data
  BY <1>1, <1>3 DEF With, Plain, Data, Values
<1> QED BY <1>4 DEF UpsertData, old

LEMMA UpsertType ==
    ASSUME TypeInv, NEW p \in Requests, UpsertList(p)
    PROVE  TypeInv'
<1> DEFINE f == frames[p]
           c == Existing(TextOf(f.patch.data, "email"))
           previous == IF c = NoCred THEN NoData ELSE DecryptSensitiveFields(vault[c].data)
           new == UpsertData(f.patch.data, previous)
           g == [f EXCEPT !.step = IF c = NoCred THEN "create" ELSE "update.load",
                          !.cred = c, !.patch.data = new]
<1>1. f \in Frame /\ f.patch.data \in Data /\ c \in CredIds \cup {NoCred}
  BY ExistingType DEF TypeInv, TypeOK, Frame, Patch
<1> HIDE DEF c
<1>2. previous \in Data
  <2>1. NoData \in Data
    BY NoTextIsText DEF NoData, Absent, Data, Values
  <2>2. ASSUME c # NoCred PROVE vault[c].data \in Data
    BY <1>1, <2>2 DEF TypeInv, TypeOK, CredentialDoc
  <2>3. ASSUME c # NoCred PROVE DecryptSensitiveFields(vault[c].data) \in Data
    BY <2>2, <2>3, NoTextIsText DEF DecryptSensitiveFields, Plain, Data, Values, IsSecret, Has, TextOf
  <2> QED BY <2>1, <2>3
<1> HIDE DEF previous
<1>3. new \in Data
  BY <1>1, <1>2, UpsertDataType
<1> HIDE DEF new
<1>4. Proper(g)
  BY <1>1, <1>3 DEF Proper, Frame, Steps, Patch, CredSteps
<1>5. Throw(p) \/ Become(p, g)
  BY DEF UpsertList, c, previous, new
<1> HIDE DEF g
<1>6. frames' \in [Requests -> Frame] /\ FramesNameCreds'
  BY <1>4, <1>5, IdleProper, BecomeTyped DEF Throw, Return
<1> QED BY <1>6, MoveType DEF UpsertList

LEMMA SheetType ==
    ASSUME TypeInv, NEW p \in Requests, NEW sheet \in Sheets, ChooseSheet(p, sheet)
    PROVE  TypeInv'
<1> DEFINE c == Latest(List("google-oauth"))
           data == With(DecryptSensitiveFields(vault[c].data), "spreadsheetId", sheet)
           f == [Idle EXCEPT !.step = "update.load", !.kind = "sheet", !.cred = c, !.patch.data = data]
<1>1. List("google-oauth") \in SUBSET CredIds /\ List("google-oauth") # {}
  BY DEF List, ChooseSheet
<1>2. c \in CredIds
  BY <1>1, LatestOfSome DEF TypeInv, TypeOK
<1> HIDE DEF c
<1>3. sheet \in Texts /\ vault[c].data \in Data
  BY <1>2, VaultInputsAssumption DEF TypeInv, TypeOK, CredentialDoc
<1>4. data \in Data
  BY <1>3, DataClosed, NoTextIsText DEF DecryptSensitiveFields, With, Plain, Data, Values, IsSecret, Has, TextOf
<1> HIDE DEF data
<1>5. Proper(f)
  BY <1>2, <1>4, IdleProper DEF Proper, Frame, Steps, Kinds, Patch, Idle, NoPatch, CredSteps
<1>6. Become(p, f)
  BY DEF ChooseSheet, c, data
<1> HIDE DEF f
<1> QED BY <1>5, <1>6, BecomeTyped, MoveType DEF ChooseSheet

LEMMA DisconnectType ==
    ASSUME TypeInv, NEW p \in Requests, Disconnect(p)
    PROVE  TypeInv'
<1> DEFINE items == {[cred |-> c, token |-> TokenOf(vault[c].data)] : c \in List("google-oauth")}
           f == [Idle EXCEPT !.step = "disconnect.revoke", !.kind = "disconnect",
                             !.listed = List("google-oauth"), !.items = items]
<1>1. ASSUME NEW c \in CredIds PROVE TokenOf(vault[c].data) \in Texts
  BY DEF TokenOf, TextOf, TypeInv, TypeOK, CredentialDoc, Data, Values, Fields
<1>2. items \in SUBSET Item /\ List("google-oauth") \in SUBSET CredIds
  BY <1>1 DEF List, Item
<1> HIDE DEF items
<1>3. Proper(f)
  BY <1>2, IdleProper DEF Proper, Frame, Steps, Kinds, Idle, CredSteps
<1>4. Become(p, f)
  BY DEF Disconnect, items
<1> HIDE DEF f
<1> QED BY <1>3, <1>4, BecomeTyped, MoveType DEF Disconnect

LEMMA NextItemType ==
    ASSUME TypeInv, NEW p \in Requests, NEW items \in SUBSET Item, NextItem(p, items)
    PROVE  frames' \in [Requests -> Frame] /\ FramesNameCreds' /\ disconnected' \subseteq CredIds
<1>1. frames[p] \in Frame /\ frames[p].listed \subseteq CredIds
  BY DEF TypeInv, TypeOK, Frame
<1>2. disconnected' \subseteq CredIds
  BY <1>1 DEF NextItem, TypeInv, TypeOK
<1>3. CASE Return(p)
  BY <1>2, <1>3, IdleProper, BecomeTyped DEF Return
<1>4. CASE Become(p, [frames[p] EXCEPT !.step = "disconnect.revoke", !.items = items, !.cred = NoCred])
  <2>1. Proper([frames[p] EXCEPT !.step = "disconnect.revoke", !.items = items, !.cred = NoCred])
    BY <1>1 DEF Proper, Frame, Steps, CredSteps
  <2> QED BY <1>2, <1>4, <2>1, BecomeTyped
<1> QED BY <1>3, <1>4 DEF NextItem

LEMMA RevokeType ==
    ASSUME TypeInv, NEW p \in Requests, Revoke(p)
    PROVE  TypeInv'
<1>1. PICK item \in frames[p].items :
          /\ Become(p, [frames[p] EXCEPT !.step = "remove.find", !.cred = item.cred, !.items = @ \ {item}])
          /\ revoked' \in {revoked, revoked \cup ({item.token} \cap Grants)}
  BY DEF Revoke
<1>2. frames[p] \in Frame /\ item.cred \in CredIds
  BY DEF TypeInv, TypeOK, Frame, Item
<1>3. Proper([frames[p] EXCEPT !.step = "remove.find", !.cred = item.cred, !.items = @ \ {item}])
  BY <1>2 DEF Proper, Frame, Steps
<1>4. frames' \in [Requests -> Frame] /\ FramesNameCreds'
  BY <1>1, <1>3, BecomeTyped
<1>5. revoked' \subseteq Grants
  BY <1>1 DEF TypeInv, TypeOK
<1> QED BY <1>4, <1>5 DEF Revoke, TypeInv, TypeOK

LEMMA RemoveType ==
    ASSUME TypeInv, NEW p \in Requests, RemoveFind(p) \/ RemoveDelete(p)
    PROVE  TypeInv'
<1>1. frames[p] \in Frame /\ frames[p].items \in SUBSET Item
  BY DEF TypeInv, TypeOK, Frame
<1>2. CASE RemoveFind(p)
  <2>1. frames[p].cred \in CredIds
    BY <1>2 DEF RemoveFind, At, TypeInv, FramesNameCreds, CredSteps
  <2>2. Proper([frames[p] EXCEPT !.step = "remove.delete"])
    BY <1>1, <2>1 DEF Proper, Frame, Steps
  <2>3. frames' \in [Requests -> Frame] /\ FramesNameCreds'
    BY <1>2, <2>2, IdleProper, BecomeTyped DEF RemoveFind, Goto, Throw, Return
  <2> QED BY <1>2, <2>3, MoveType DEF RemoveFind
<1>3. CASE RemoveDelete(p)
  <2>1. frames' \in [Requests -> Frame] /\ FramesNameCreds' /\ disconnected' \subseteq CredIds
    BY <1>1, <1>3, NextItemType DEF RemoveDelete
  <2>2. vault' \in [CredIds -> CredentialDoc]
    BY <1>3, IdleProper DEF RemoveDelete, TypeInv, TypeOK
  <2> QED BY <1>3, <2>1, <2>2 DEF RemoveDelete, TypeInv, TypeOK
<1> QED BY <1>2, <1>3

LEMMA CrashType == ASSUME TypeInv, Crash PROVE TypeInv'
<1>1. frames' \in [Requests -> Frame] /\ FramesNameCreds'
  BY IdleProper DEF Crash, Proper, FramesNameCreds
<1>2. cutOff' \subseteq CredIds /\ crashes' \in 0..MaxCrashes
  BY VaultInputsAssumption DEF Crash, TypeInv, TypeOK
<1> QED BY <1>1, <1>2 DEF Crash, TypeInv, TypeOK

LEMMA NextType == TypeInv /\ [Next]_vars => TypeInv'
<1> SUFFICES ASSUME TypeInv, [Next]_vars PROVE TypeInv'
  OBVIOUS
<1>1. ASSUME NEW p \in Requests, Start(p) PROVE TypeInv'
  BY <1>1, PatchType, EditType, RemoveStartType, KeyType, CallbackType, SheetType, DisconnectType,
     VaultInputsAssumption DEF Start
<1>2. ASSUME NEW p \in Requests, Continue(p) PROVE TypeInv'
  BY <1>2, CreateType, LoadType, SaveType, UpsertType, RevokeType, RemoveType DEF Continue
<1>3. CASE UNCHANGED vars
  BY <1>3 DEF vars, TypeInv, TypeOK, FramesNameCreds
<1> QED BY <1>1, <1>2, <1>3, PostType, CrashType DEF Next

(* Every variable keeps its type, in every instance. *)
THEOREM VaultTypeCorrect == Spec => []TypeOK
<1>1. Spec => []TypeInv
  BY InitType, NextType, PTL DEF Spec
<1> QED BY <1>1, PTL DEF TypeInv

------------------------------------------------------------------------------
(* What a step may do to a document *)

Step(c) ==
    /\ vault[c] = Removed => vault'[c] = Removed
    /\ vault[c].type = "removed" => vault'[c].type = "removed"
    /\ vault[c].type # "unborn" => vault'[c].type # "unborn"
    /\ vault'[c].data # vault[c].data => AllSealed(vault'[c].data)

LEMMA InsertStep ==
    ASSUME TypeInv, NEW type \in CredentialTypes, NEW n8n, NEW data \in Data,
           Insert(type, n8n, data), NEW c \in CredIds
    PROVE  Step(c)
<1>1. PICK d \in CredIds :
          /\ vault[d] = Unborn
          /\ vault' = [vault EXCEPT ![d] = [type |-> type, n8n |-> n8n, data |-> EncryptSensitiveFields(data)]]
  BY DEF Insert
<1>2. AllSealed(EncryptSensitiveFields(data))
  BY Encryption
<1>3. vault \in [CredIds -> CredentialDoc]
  BY DEF TypeInv, TypeOK
<1>4. CASE c = d
  BY <1>1, <1>2, <1>3, <1>4 DEF Step, Unborn, Removed
<1>5. CASE c # d
  BY <1>1, <1>3, <1>5 DEF Step
<1> QED BY <1>4, <1>5

(* A save with data seals what it merged with the secrets it found. *)
LEMMA SavedSealed ==
    ASSUME TypeInv, NEW p \in Requests, NEW stored, frames[p].patch.data # NoData
    PROVE  AllSealed(SaveCredential(Assigned(frames[p].loaded, frames[p].patch), frames[p].loaded,
                                    frames[p].patch, stored).data)
<1> DEFINE f == frames[p]
           merged == Merged(f.loaded.data, StripMaskedPlaceholders(f.patch.data))
<1>1. f.loaded \in CredentialDoc /\ f.loaded.data \in Data /\ f.patch.data \in Data
  BY DEF TypeInv, TypeOK, Frame, Patch, CredentialDoc
<1>2. merged \in Data
  BY <1>1, DataClosed, NoTextIsText DEF Fields
<1>3. Assigned(f.loaded, f.patch).data = EncryptSensitiveFields(merged)
  BY <1>1 DEF Assigned, CredentialDoc
<1> HIDE DEF merged
<1>4. AllSealed(EncryptSensitiveFields(merged))
  BY <1>2, Encryption
<1> QED BY <1>3, <1>4 DEF SaveCredential

LEMMA SaveStep ==
    ASSUME TypeInv, NEW p \in Requests, UpdateSave(p), NEW c \in CredIds
    PROVE  Step(c)
<1> DEFINE f == frames[p]
           doc == Assigned(f.loaded, f.patch)
           new == SaveCredential(doc, f.loaded, f.patch, vault[f.cred])
<1>1. vault \in [CredIds -> CredentialDoc]
  BY DEF TypeInv, TypeOK
<1>2. CASE vault'[c] = vault[c]
  BY <1>2 DEF Step
<1>3. CASE vault'[c] # vault[c]
  <2>1. c = f.cred /\ Present(c) /\ vault'[c] = new
    BY <1>1, <1>3 DEF UpdateSave
  <2>2. new.type = vault[c].type /\ vault[c].type \in CredentialTypes
    BY <2>1 DEF SaveCredential, Present
  <2>3. f.patch.data # NoData => AllSealed(new.data)
    BY SavedSealed
  <2>4. ASSUME f.patch.data = NoData PROVE new.data = vault[c].data
    BY <2>1, <2>4 DEF SaveCredential
  <2>5. vault[c] # Removed /\ vault[c].type # "removed" /\ new.type # "unborn"
    BY <2>2 DEF CredentialTypes, Removed
  <2> QED BY <2>1, <2>3, <2>4, <2>5 DEF Step
<1> QED BY <1>2, <1>3

LEMMA DeleteStep ==
    ASSUME TypeInv, NEW p \in Requests, RemoveDelete(p), NEW c \in CredIds
    PROVE  Step(c) /\ (c = frames[p].cred => vault'[c].type = "removed" \/ vault'[c].type = "unborn")
<1>1. vault \in [CredIds -> CredentialDoc]
  BY DEF TypeInv, TypeOK
<1>2. vault'[c] = IF c = frames[p].cred /\ Present(c) THEN Removed ELSE vault[c]
  BY <1>1 DEF RemoveDelete
<1>3. AllSealed(NoData)
  BY DEF AllSealed, NoData, IsSecret, Has, TextOf, Absent
<1>4. CASE vault'[c] = Removed
  BY <1>3, <1>4 DEF Step, Removed
<1>5. CASE vault'[c] = vault[c] /\ ~(c = frames[p].cred /\ Present(c))
  BY <1>1, <1>5 DEF Step, Present, CredentialDoc
<1> QED BY <1>2, <1>4, <1>5

LEMMA VaultStep ==
    ASSUME TypeInv, [Next]_vars, NEW c \in CredIds
    PROVE  Step(c)
<1>1. CASE vault' = vault
  BY <1>1 DEF Step
<1>2. ASSUME NEW body \in Posts, PostCredential(body) PROVE Step(c)
  BY <1>2, InsertStep, BodiesAssumption DEF PostCredential, CredentialDoc
<1>3. ASSUME NEW p \in Requests, Start(p) PROVE vault' = vault
  BY <1>3 DEF Start, PatchCredential, EditListed, RemoveCredential, EnterKey, Callback, ChooseSheet, Disconnect
<1>4. ASSUME NEW p \in Requests, Create(p) PROVE Step(c)
  <2> DEFINE type == IF frames[p].kind = "key" THEN "api-key" ELSE "google-oauth"
  <2>1. type \in CredentialTypes /\ frames[p].patch.data \in Data
    BY DEF CredentialTypes, TypeInv, TypeOK, Frame, Patch
  <2>2. Insert(type, NoText, frames[p].patch.data)
    BY <1>4 DEF Create
  <2> HIDE DEF type
  <2> QED BY <2>1, <2>2, InsertStep
<1>5. ASSUME NEW p \in Requests, Continue(p) PROVE Step(c)
  <2>1. CASE UpdateLoad(p) \/ UpsertList(p) \/ Revoke(p) \/ RemoveFind(p)
    BY <1>1, <2>1 DEF UpdateLoad, UpsertList, Revoke, RemoveFind
  <2> QED BY <1>4, <1>5, <2>1, SaveStep, DeleteStep DEF Continue
<1>6. CASE Crash \/ UNCHANGED vars
  BY <1>1, <1>6 DEF Crash, vars
<1> QED BY <1>1, <1>2, <1>3, <1>5, <1>6 DEF Next

(* A removed credential never comes back. *)
THEOREM RemovedForGood == Spec => RemovedStaysRemoved
<1>1. TypeInv /\ [Next]_vars => [\A c \in CredIds : vault[c] = Removed => vault'[c] = Removed]_vars
  BY VaultStep DEF Step
<1> QED BY <1>1, InitType, NextType, PTL DEF Spec, RemovedStaysRemoved

(* A step in which a handler writes is its creation or its save. *)
LEMMA WriteStep ==
    ASSUME TypeInv, [Next]_vars, NEW p \in Requests, Writes(p)
    PROVE  Create(p) \/ (UpdateSave(p) /\ Present(frames[p].cred))
<1>1. frames \in [Requests -> Frame] /\ frames'[p] # frames[p] /\ crashes' = crashes
      /\ frames[p].step \in {"create", "update.save"}
  BY DEF Writes, At, TypeInv, TypeOK
<1>2. ASSUME NEW q \in Requests, NEW f, Become(q, f) PROVE q = p
  BY <1>1, <1>2 DEF Become
<1>3. ASSUME NEW q \in Requests, Start(q) PROVE FALSE
  <2>1. Free(q)
    BY <1>3 DEF Start, PatchCredential, EditListed, RemoveCredential, EnterKey, Callback,
       ChooseSheet, Disconnect
  <2>2. \E f : Become(q, f)
    BY <1>3 DEF Start, PatchCredential, EditListed, RemoveCredential, EnterKey, Callback,
       ChooseSheet, Disconnect, Loaded, Throw, Return
  <2> QED BY <1>1, <1>2, <2>1, <2>2 DEF Free, Idle
<1>4. ASSUME NEW q \in Requests, Continue(q) PROVE q = p
  <2>1. \E f : Become(q, f)
    BY <1>4 DEF Continue, Create, UpdateLoad, UpdateSave, UpsertList, Revoke, RemoveFind,
       RemoveDelete, Loaded, Throw, Return, Goto, NextItem
  <2> QED BY <1>2, <2>1
<1>5. ASSUME Continue(p) PROVE Create(p) \/ UpdateSave(p)
  BY <1>1, <1>5 DEF Continue, UpdateLoad, UpsertList, Revoke, RemoveFind, RemoveDelete, At
<1>6. ~Crash
  BY <1>1 DEF Crash, TypeInv, TypeOK
<1>7. ASSUME NEW body \in Posts, PostCredential(body) PROVE FALSE
  BY <1>1, <1>7 DEF PostCredential
<1>8. Create(p) \/ UpdateSave(p)
  BY <1>1, <1>3, <1>4, <1>5, <1>6, <1>7 DEF Next, vars
<1> QED BY <1>8 DEF Writes, UpdateSave, At

(* A save that carries data, or changes any, seals every secret of its document, also
   one that was stored in plain text and that its body does not name. *)
THEOREM SecretsSealed == Spec => SavedSecretsSealed
<1>1. ASSUME TypeInv, [Next]_vars, NEW p \in Requests, At(p, "update.save"), Writes(p),
             frames[p].patch.data # NoData
      PROVE  AllSealed(vault'[frames[p].cred].data)
  <2> DEFINE f == frames[p]
  <2>1. UpdateSave(p) /\ Present(f.cred) /\ f.cred \in CredIds /\ vault \in [CredIds -> CredentialDoc]
    BY <1>1, WriteStep DEF Create, At, TypeInv, TypeOK, FramesNameCreds, CredSteps
  <2>2. vault'[f.cred] = SaveCredential(Assigned(f.loaded, f.patch), f.loaded, f.patch, vault[f.cred])
    BY <2>1 DEF UpdateSave
  <2> QED BY <1>1, <2>2, SavedSealed
<1>2. TypeInv /\ [Next]_vars
      => [/\ \A c \in CredIds :
                vault'[c].data # vault[c].data => AllSealed(vault'[c].data)
          /\ \A p \in Requests :
                At(p, "update.save") /\ Writes(p) /\ frames[p].patch.data # NoData =>
                   AllSealed(vault'[frames[p].cred].data)]_vars
  BY <1>1, VaultStep DEF Step
<1> QED BY <1>2, InitType, NextType, PTL DEF Spec, SavedSecretsSealed

------------------------------------------------------------------------------
(* Disconnecting *)

(* The credentials a disconnect has still to delete. *)
Pending(f) ==
    {i.cred : i \in f.items} \cup (IF f.step \in {"remove.find", "remove.delete"} THEN {f.cred} ELSE {})

(* Whatever a running disconnect listed has been born, and is gone or pending. *)
Accounted(docs, f, c) == docs[c].type # "unborn" /\ (docs[c].type = "removed" \/ c \in Pending(f))
ListedInv == \A p \in Requests : \A c \in frames[p].listed : Accounted(vault, frames[p], c)

GoneInv == \A c \in disconnected : vault[c].type = "removed"

DisconnectInv == TypeInv /\ ListedInv /\ GoneInv

(* A handler may forget its list, or keep it with all that is pending. *)
LEMMA KeepsList ==
    ASSUME DisconnectInv, [Next]_vars, NEW p \in Requests, NEW f,
           frames' = [frames EXCEPT ![p] = f],
           \A c \in f.listed : Accounted(vault', f, c)
    PROVE  ListedInv'
<1> SUFFICES ASSUME NEW q \in Requests, NEW c \in frames'[q].listed
             PROVE  Accounted(vault', frames'[q], c)
  BY DEF ListedInv
<1>1. frames \in [Requests -> Frame]
  BY DEF DisconnectInv, TypeInv, TypeOK
<1>2. CASE q = p
  BY <1>1, <1>2
<1>3. CASE q # p
  <2>1. frames'[q] = frames[q] /\ c \in frames[q].listed /\ c \in CredIds
    BY <1>1, <1>3 DEF Frame
  <2>2. Accounted(vault, frames[q], c)
    BY <2>1 DEF DisconnectInv, ListedInv
  <2>3. vault'[c].type # "unborn" /\ (vault[c].type = "removed" => vault'[c].type = "removed")
    BY <2>1, <2>2, VaultStep DEF DisconnectInv, Step, Accounted
  <2> QED BY <2>1, <2>2, <2>3 DEF Accounted, Pending
<1> QED BY <1>2, <1>3

(* A handler that keeps its list keeps it accounted for. *)
LEMMA SameList ==
    ASSUME DisconnectInv, [Next]_vars, NEW p \in Requests, NEW f \in Frame,
           f.listed = frames[p].listed, Pending(frames[p]) \subseteq Pending(f),
           Become(p, f)
    PROVE  ListedInv'
<1>1. ASSUME NEW c \in f.listed PROVE Accounted(vault', f, c)
  <2>1. c \in CredIds /\ Accounted(vault, frames[p], c)
    BY DEF DisconnectInv, ListedInv, Frame
  <2>2. vault'[c].type # "unborn" /\ (vault[c].type = "removed" => vault'[c].type = "removed")
    BY <2>1, VaultStep DEF DisconnectInv, Step, Accounted
  <2> QED BY <2>1, <2>2 DEF Accounted, Pending
<1> QED BY <1>1, KeepsList DEF Become

LEMMA NoList ==
    ASSUME DisconnectInv, [Next]_vars, NEW p \in Requests, NEW f, f.listed = {}, Become(p, f)
    PROVE  ListedInv'
  BY KeepsList DEF Become

LEMMA IdleList == ASSUME DisconnectInv, [Next]_vars, NEW p \in Requests, Return(p) PROVE ListedInv'
  BY NoList DEF Return, Idle

LEMMA LoadedList ==
    ASSUME DisconnectInv, [Next]_vars, NEW p \in Requests, NEW f \in Frame, Loaded(p, f),
           f.cred \in CredIds, f.step = "update.load" \/ f.step = "idle",
           f.listed = {} \/ f = frames[p]
    PROVE  ListedInv'
<1>1. vault[f.cred] \in CredentialDoc
  BY DEF DisconnectInv, TypeInv, TypeOK
<1>2. CASE Throw(p)
  BY <1>2, IdleList DEF Throw
<1>3. CASE Become(p, [f EXCEPT !.step = "create"])
  <2>1. [f EXCEPT !.step = "create"] \in Frame /\ [f EXCEPT !.step = "create"].listed = f.listed
        /\ Pending([f EXCEPT !.step = "create"]) = Pending(f)
    BY DEF Frame, Steps, Pending
  <2> QED BY <1>3, <2>1, NoList, SameList
<1>4. CASE Become(p, [f EXCEPT !.step = "update.save", !.loaded = vault[f.cred]])
  <2> DEFINE g == [f EXCEPT !.step = "update.save", !.loaded = vault[f.cred]]
  <2>1. g \in Frame /\ g.listed = f.listed /\ Pending(g) = Pending(f)
    BY <1>1 DEF Frame, Steps, Pending
  <2> HIDE DEF g
  <2>2. Become(p, g)
    BY <1>4 DEF g
  <2> QED BY <2>1, <2>2, NoList, SameList
<1> QED BY <1>2, <1>3, <1>4 DEF Loaded

LEMMA StartLists ==
    ASSUME DisconnectInv, [Next]_vars, NEW p \in Requests, Start(p)
    PROVE  ListedInv'
<1>1. ASSUME NEW c \in CredIds, NEW patch \in Patches, PatchCredential(p, c, patch) PROVE ListedInv'
  <2> DEFINE f == [Idle EXCEPT !.kind = "patch", !.cred = c, !.patch = patch]
  <2>1. f \in Frame /\ f.cred = c /\ f.step = "idle" /\ f.listed = {}
    BY IdleProper, BodiesAssumption DEF Proper, Frame, Kinds, Idle
  <2>2. Loaded(p, f)
    BY <1>1 DEF PatchCredential
  <2> HIDE DEF f
  <2> QED BY <2>1, <2>2, LoadedList
<1>2. ASSUME NEW c, EditListed(p, c) \/ RemoveCredential(p, c) PROVE ListedInv'
  BY <1>2, NoList DEF EditListed, RemoveCredential, Idle
<1>3. ASSUME NEW key, NEW c, EnterKey(p, key, c) PROVE ListedInv'
  BY <1>3, NoList DEF EnterKey, Idle
<1>4. ASSUME NEW g, NEW a, NEW refresh, Callback(p, g, a, refresh) PROVE ListedInv'
  BY <1>4, NoList DEF Callback, Idle
<1>5. ASSUME NEW sheet, ChooseSheet(p, sheet) PROVE ListedInv'
  BY <1>5, NoList DEF ChooseSheet, Idle
<1>6. CASE Disconnect(p)
  <2> DEFINE items == {[cred |-> c, token |-> TokenOf(vault[c].data)] : c \in List("google-oauth")}
             f == [Idle EXCEPT !.step = "disconnect.revoke", !.kind = "disconnect",
                               !.listed = List("google-oauth"), !.items = items]
  <2>1. f.listed = List("google-oauth") /\ f.items = items
    BY DEF Idle
  <2>2. ASSUME NEW c \in List("google-oauth")
        PROVE  c \in CredIds /\ vault[c].type = "google-oauth" /\ c \in {i.cred : i \in items}
    <3> DEFINE item == [cred |-> c, token |-> TokenOf(vault[c].data)]
    <3>1. item \in items /\ item.cred = c
      OBVIOUS
    <3> HIDE DEF item, items
    <3> QED BY <3>1 DEF List
  <2>3. ASSUME NEW c \in f.listed PROVE Accounted(vault', f, c)
    <3>1. vault' = vault /\ c \in List("google-oauth")
      BY <1>6, <2>1 DEF Disconnect
    <3> HIDE DEF f, items
    <3> QED BY <2>1, <2>2, <3>1 DEF Accounted, Pending
  <2>4. frames' = [frames EXCEPT ![p] = f]
    BY <1>6 DEF Disconnect, Become
  <2> HIDE DEF f
  <2> QED BY <2>3, <2>4, KeepsList
<1> QED BY <1>1, <1>2, <1>3, <1>4, <1>5, <1>6 DEF Start

(* The end of a turn of the loop: the credential in hand is gone. *)
LEMMA DeleteList ==
    ASSUME DisconnectInv, [Next]_vars, NEW p \in Requests, RemoveDelete(p)
    PROVE  ListedInv' /\ \A c \in disconnected' : vault'[c].type = "removed"
<1> DEFINE f == frames[p]
           g == [f EXCEPT !.step = "disconnect.revoke", !.items = f.items, !.cred = NoCred]
<1>1. f \in Frame /\ f.step = "remove.delete" /\ f.listed \subseteq CredIds /\ disconnected \subseteq CredIds
  BY DEF RemoveDelete, At, DisconnectInv, TypeInv, TypeOK, Frame
<1>2. ASSUME NEW c \in f.listed
      PROVE  vault'[c].type # "unborn" /\ (vault'[c].type = "removed" \/ c \in {i.cred : i \in f.items})
  <2>1. c \in CredIds /\ Accounted(vault, f, c)
    BY <1>1 DEF DisconnectInv, ListedInv
  <2>2. Step(c) /\ (c = f.cred => vault'[c].type = "removed" \/ vault'[c].type = "unborn")
    BY <2>1, DeleteStep DEF DisconnectInv
  <2> QED BY <1>1, <2>1, <2>2 DEF Accounted, Pending, Step
<1>3. ASSUME NEW c \in disconnected PROVE vault'[c].type = "removed"
  BY <1>1, <1>3, VaultStep DEF DisconnectInv, GoneInv, Step
<1>4. CASE f.items = {}
  <2>1. Return(p) /\ disconnected' = disconnected \cup f.listed
    BY <1>4 DEF RemoveDelete, NextItem
  <2>2. ListedInv'
    BY <2>1, IdleList
  <2> QED BY <1>2, <1>3, <1>4, <2>1, <2>2
<1>5. CASE f.items # {}
  <2>1. Become(p, g) /\ disconnected' = disconnected
    BY <1>5 DEF RemoveDelete, NextItem
  <2>2. g.listed = f.listed /\ g.items = f.items
    BY <1>1 DEF Frame
  <2>3. ASSUME NEW c \in g.listed PROVE Accounted(vault', g, c)
    BY <1>2, <2>2 DEF Accounted, Pending
  <2> HIDE DEF g
  <2>4. ListedInv'
    BY <2>1, <2>3, KeepsList DEF Become
  <2> QED BY <1>3, <2>1, <2>4
<1> QED BY <1>4, <1>5

LEMMA ContinueLists ==
    ASSUME DisconnectInv, [Next]_vars, NEW p \in Requests, Continue(p)
    PROVE  ListedInv'
<1> DEFINE f == frames[p]
<1>1. f \in Frame
  BY DEF DisconnectInv, TypeInv, TypeOK
<1>2. CASE Create(p) \/ UpdateSave(p)
  BY <1>2, IdleList DEF Create, UpdateSave, Throw
<1>3. CASE UpdateLoad(p)
  <2>1. f.cred \in CredIds /\ f.step = "update.load"
    BY <1>3 DEF UpdateLoad, At, DisconnectInv, TypeInv, FramesNameCreds, CredSteps
  <2> QED BY <1>1, <1>3, <2>1, LoadedList DEF UpdateLoad
<1>4. CASE UpsertList(p)
  <2> DEFINE c == Existing(TextOf(f.patch.data, "email"))
             previous == IF c = NoCred THEN NoData ELSE DecryptSensitiveFields(vault[c].data)
             g == [f EXCEPT !.step = IF c = NoCred THEN "create" ELSE "update.load",
                            !.cred = c, !.patch.data = UpsertData(@, previous)]
  <2>1. Throw(p) \/ Become(p, g)
    BY <1>4 DEF UpsertList
  <2>2. CASE Throw(p)
    BY <2>2, IdleList DEF Throw
  <2>3. CASE Become(p, g)
    <3>1. frames'[p] = g /\ frames'[p] \in Frame
      BY <2>3, <1>4, UpsertType DEF Become, DisconnectInv, TypeInv, TypeOK
    <3>2. g.listed = f.listed /\ Pending(f) \subseteq Pending(g)
      BY <1>1, <1>4 DEF Frame, Pending, UpsertList, At
    <3> HIDE DEF g
    <3> QED BY <2>3, <3>1, <3>2, SameList
  <2> QED BY <2>1, <2>2, <2>3
<1>5. CASE Revoke(p)
  <2>1. PICK item \in f.items :
            Become(p, [f EXCEPT !.step = "remove.find", !.cred = item.cred, !.items = @ \ {item}])
    BY <1>5 DEF Revoke
  <2> DEFINE g == [f EXCEPT !.step = "remove.find", !.cred = item.cred, !.items = @ \ {item}]
  <2>2. g \in Frame /\ g.listed = f.listed
    BY <1>1 DEF Frame, Steps, Item
  <2>3. Pending(f) \subseteq Pending(g)
    BY <1>1, <1>5 DEF Frame, Pending, Revoke, At
  <2> HIDE DEF g
  <2> QED BY <2>1, <2>2, <2>3, SameList DEF g
<1>6. CASE RemoveFind(p)
  <2> DEFINE g == [f EXCEPT !.step = "remove.delete"]
  <2>1. g \in Frame /\ g.listed = f.listed /\ Pending(f) \subseteq Pending(g)
    BY <1>1, <1>6 DEF Frame, Steps, Pending, RemoveFind, At
  <2>2. Become(p, g) \/ Throw(p)
    BY <1>6 DEF RemoveFind, Goto
  <2> HIDE DEF g
  <2> QED BY <2>1, <2>2, SameList, IdleList DEF Throw
<1> QED BY <1>2, <1>3, <1>4, <1>5, <1>6, DeleteList DEF Continue

LEMMA NextDisconnect == DisconnectInv /\ [Next]_vars => DisconnectInv'
<1> SUFFICES ASSUME DisconnectInv, [Next]_vars PROVE DisconnectInv'
  OBVIOUS
<1>1. TypeInv'
  BY NextType DEF DisconnectInv
<1>2. ListedInv'
  <2>1. ASSUME frames' = frames PROVE ListedInv'
    <3> SUFFICES ASSUME NEW q \in Requests, NEW c \in frames[q].listed PROVE Accounted(vault', frames'[q], c)
      BY <2>1 DEF ListedInv
    <3>1. c \in CredIds /\ Accounted(vault, frames[q], c)
      BY DEF DisconnectInv, ListedInv, TypeInv, TypeOK, Frame
    <3>2. vault'[c].type # "unborn" /\ (vault[c].type = "removed" => vault'[c].type = "removed")
      BY <3>1, VaultStep DEF DisconnectInv, Step, Accounted
    <3> QED BY <2>1, <3>1, <3>2 DEF Accounted, Pending
  <2>2. CASE Crash
    BY <2>2 DEF Crash, ListedInv, Idle
  <2>3. ASSUME NEW body \in Posts, PostCredential(body) PROVE ListedInv'
    BY <2>1, <2>3 DEF PostCredential
  <2> QED BY <2>1, <2>2, <2>3, StartLists, ContinueLists DEF Next, vars
<1>3. GoneInv'
  <2>1. disconnected' = disconnected \/ \E p \in Requests : RemoveDelete(p)
    BY DEF Next, Start, Continue, PatchCredential, EditListed, RemoveCredential, EnterKey, Callback,
       ChooseSheet, Disconnect, Create, UpdateLoad, UpdateSave, UpsertList, Revoke, RemoveFind,
       PostCredential, Crash, history, vars
  <2>2. CASE disconnected' = disconnected
    <3>1. \A c \in disconnected : c \in CredIds /\ vault[c].type = "removed"
      BY DEF DisconnectInv, GoneInv, TypeInv, TypeOK
    <3> QED BY <2>2, <3>1, VaultStep DEF DisconnectInv, GoneInv, Step
  <2> QED BY <2>1, <2>2, DeleteList DEF GoneInv
<1> QED BY <1>1, <1>2, <1>3 DEF DisconnectInv

(* After a successful disconnect nothing it found is left. *)
THEOREM DisconnectIsComplete == Spec => []DisconnectRemovesAll
<1>1. Init => DisconnectInv
  BY InitType DEF Init, DisconnectInv, ListedInv, GoneInv, Idle
<1>2. DisconnectInv => DisconnectRemovesAll
  BY DEF DisconnectInv, GoneInv, DisconnectRemovesAll, Present, CredentialTypes
<1> QED BY <1>1, <1>2, NextDisconnect, PTL DEF Spec
------------------------------------------------------------------------------
(* Readable secrets *)

(* A handler about to save has checked the result; what an upsert sends is plain. *)
Upserts == {"key", "callback"}
ReadyFrame(f) ==
    /\ f.step = "update.save" => Decryptable(Assigned(f.loaded, f.patch).data)
    /\ f.step \in {"upsert.list", "create"} => f.kind \in Upserts
    /\ f.kind \in Upserts => Decryptable(f.patch.data)

ReadyInv == TypeInv /\ \A p \in Requests : ReadyFrame(frames[p])

LEMMA EmptyReadable == NoData \in Data /\ Decryptable(NoData)
  BY NoTextIsText DEF NoData, Data, Values, Absent, Decryptable, IsSecret, Has, TextOf

LEMMA PlainReadable ==
    ASSUME NEW data \in Data, Decryptable(data), NEW f \in Fields, NEW t \in Texts
    PROVE  Decryptable(With(data, f, t))
  BY DEF Decryptable, With, Plain, Data, IsSecret, Has, TextOf

LEMMA MergedReadable ==
    ASSUME NEW data \in Data, NEW patch \in Data, Decryptable(data), Decryptable(patch)
    PROVE  Decryptable(Merged(data, patch))
  BY DEF Decryptable, Merged, IsSecret, Has, TextOf, Data

LEMMA UpsertReadable ==
    ASSUME NEW tokens \in Data, NEW previous \in Data, Decryptable(tokens)
    PROVE  Decryptable(UpsertData(tokens, previous))
<1> DEFINE old == IF Has(previous, "refreshToken")
                  THEN With(NoData, "refreshToken", TextOf(previous, "refreshToken"))
                  ELSE NoData
<1>1. TextOf(previous, "refreshToken") \in Texts /\ TextOf(previous, "spreadsheetId") \in Texts
  BY NoTextIsText, DataClosed DEF Fields
<1>2. old \in Data /\ Decryptable(old)
  BY <1>1, EmptyReadable, DataClosed, PlainReadable DEF Fields
<1> HIDE DEF old
<1>3. Merged(old, tokens) \in Data /\ Decryptable(Merged(old, tokens))
  BY <1>2, DataClosed, NoTextIsText, MergedReadable DEF Fields
<1>4. Decryptable(With(Merged(old, tokens), "spreadsheetId", TextOf(previous, "spreadsheetId")))
  BY <1>1, <1>3, PlainReadable DEF Fields
<1> QED BY <1>4 DEF UpsertData, old

LEMMA IdleReady == ReadyFrame(Idle)
  BY DEF ReadyFrame, Idle, Upserts

LEMMA LoadedReady ==
    ASSUME NEW p \in Requests, NEW f \in Frame, f.kind \in Upserts => Decryptable(f.patch.data),
           Loaded(p, f)
    PROVE  \E g : Become(p, g) /\ ReadyFrame(g)
<1>1. CASE Become(p, [f EXCEPT !.step = "create"]) /\ f.kind = "key"
  <2>1. ReadyFrame([f EXCEPT !.step = "create"])
    BY <1>1 DEF ReadyFrame, Frame, Upserts
  <2> QED BY <1>1, <2>1
<1>2. CASE Throw(p)
  BY <1>2, IdleReady DEF Throw, Return
<1>3. CASE /\ Acceptable(Assigned(vault[f.cred], f.patch))
           /\ Become(p, [f EXCEPT !.step = "update.save", !.loaded = vault[f.cred]])
  <2> DEFINE g == [f EXCEPT !.step = "update.save", !.loaded = vault[f.cred]]
  <2>1. g.step = "update.save" /\ g.loaded = vault[f.cred] /\ g.patch = f.patch /\ g.kind = f.kind
    BY DEF Frame
  <2>2. Decryptable(Assigned(vault[f.cred], f.patch).data)
    BY <1>3 DEF Acceptable
  <2>3. Become(p, g)
    BY <1>3
  <2> HIDE DEF g
  <2>4. ReadyFrame(g)
    BY <2>1, <2>2 DEF ReadyFrame
  <2> QED BY <2>3, <2>4
<1> QED BY <1>1, <1>2, <1>3 DEF Loaded

LEMMA StartReady ==
    ASSUME ReadyInv, NEW p \in Requests, Start(p)
    PROVE  \E g : Become(p, g) /\ ReadyFrame(g)
<1>1. ASSUME NEW c \in CredIds, NEW patch \in Patches, PatchCredential(p, c, patch)
      PROVE  \E g : Become(p, g) /\ ReadyFrame(g)
  <2> DEFINE f == [Idle EXCEPT !.kind = "patch", !.cred = c, !.patch = patch]
  <2>1. f \in Frame /\ f.kind = "patch"
    BY IdleProper, BodiesAssumption DEF Proper, Frame, Kinds, Idle
  <2>2. Loaded(p, f)
    BY <1>1 DEF PatchCredential
  <2> HIDE DEF f
  <2> QED BY <2>1, <2>2, LoadedReady DEF Upserts
<1>2. ASSUME NEW f, Become(p, f), f.step \notin {"update.save", "upsert.list", "create"},
             f.kind \notin Upserts
      PROVE  \E g : Become(p, g) /\ ReadyFrame(g)
  BY <1>2 DEF ReadyFrame
<1>3. ASSUME NEW c \in CredIds, EditListed(p, c) PROVE \E g : Become(p, g) /\ ReadyFrame(g)
  BY <1>3, <1>2 DEF EditListed, Idle, Upserts
<1>4. ASSUME NEW c \in CredIds, RemoveCredential(p, c) PROVE \E g : Become(p, g) /\ ReadyFrame(g)
  BY <1>4, <1>2 DEF RemoveCredential, Idle, Upserts
<1>5. ASSUME NEW sheet, ChooseSheet(p, sheet) PROVE \E g : Become(p, g) /\ ReadyFrame(g)
  <2>1. PICK c, data : Become(p, [Idle EXCEPT !.step = "update.load", !.kind = "sheet", !.cred = c,
                                              !.patch.data = data])
    BY <1>5 DEF ChooseSheet
  <2> QED BY <2>1, <1>2 DEF Idle, Upserts
<1>6. CASE Disconnect(p)
  BY <1>6, <1>2 DEF Disconnect, Idle, Upserts
<1>7. ASSUME NEW key \in Keys, NEW c \in CredIds \cup {NoCred}, EnterKey(p, key, c)
      PROVE  \E g : Become(p, g) /\ ReadyFrame(g)
  <2> DEFINE data == With(NoData, "apiKey", key)
             f == [Idle EXCEPT !.step = IF c = NoCred THEN "create" ELSE "update.load",
                               !.kind = "key", !.cred = c, !.patch.label = TRUE, !.patch.data = data]
  <2>1. key \in Texts /\ NoData \in Data /\ Decryptable(NoData)
    BY EmptyReadable, VaultInputsAssumption
  <2>2. Decryptable(data)
    BY <2>1, PlainReadable DEF Fields
  <2>3. Become(p, f)
    BY <1>7 DEF EnterKey
  <2> HIDE DEF data
  <2>4. ReadyFrame(f)
    BY <2>2 DEF ReadyFrame, Idle, NoPatch, Upserts
  <2> QED BY <2>3, <2>4
<1>8. ASSUME NEW g \in Grants, NEW a \in Accounts, NEW refresh \in RefreshAnswers, Callback(p, g, a, refresh)
      PROVE  \E h : Become(p, h) /\ ReadyFrame(h)
  <2> DEFINE tokens == With(With(NoData, "email", a), "accessToken", g)
             data == IF refresh THEN With(tokens, "refreshToken", g) ELSE tokens
             f == [Idle EXCEPT !.step = "upsert.list", !.kind = "callback", !.patch.label = TRUE,
                               !.patch.data = data]
  <2>1. a \in Texts /\ g \in Texts /\ NoData \in Data /\ Decryptable(NoData)
    BY EmptyReadable, VaultInputsAssumption
  <2>2. With(NoData, "email", a) \in Data /\ Decryptable(With(NoData, "email", a))
    BY <2>1, DataClosed, PlainReadable DEF Fields
  <2>3. tokens \in Data /\ Decryptable(tokens)
    BY <2>1, <2>2, DataClosed, PlainReadable DEF Fields
  <2>4. Decryptable(data)
    BY <2>1, <2>3, PlainReadable DEF Fields
  <2>5. Become(p, f)
    BY <1>8 DEF Callback
  <2> HIDE DEF data
  <2>6. ReadyFrame(f)
    BY <2>4 DEF ReadyFrame, Idle, NoPatch, Upserts
  <2> QED BY <2>5, <2>6
<1> QED BY <1>1, <1>3, <1>4, <1>5, <1>6, <1>7, <1>8, VaultInputsAssumption DEF Start

LEMMA ContinueReady ==
    ASSUME ReadyInv, NEW p \in Requests, Continue(p)
    PROVE  \E g : Become(p, g) /\ ReadyFrame(g)
<1> DEFINE f == frames[p]
<1>1. f \in Frame /\ f.patch \in Patch /\ f.patch.data \in Data /\ ReadyFrame(f)
  BY DEF ReadyInv, TypeInv, TypeOK, Frame, Patch
<1>2. CASE Return(p) \/ Throw(p)
  BY <1>2, IdleReady DEF Return, Throw
<1>3. CASE UpdateLoad(p)
  BY <1>1, <1>3, LoadedReady DEF UpdateLoad, ReadyFrame
<1>4. CASE UpsertList(p)
  <2> DEFINE c == Existing(TextOf(f.patch.data, "email"))
             previous == IF c = NoCred THEN NoData ELSE DecryptSensitiveFields(vault[c].data)
             data == UpsertData(f.patch.data, previous)
             g == [f EXCEPT !.step = IF c = NoCred THEN "create" ELSE "update.load",
                            !.cred = c, !.patch.data = data]
  <2>1. CASE Throw(p)
    BY <2>1, <1>2
  <2>2. CASE Become(p, g)
    <3>1. c \in CredIds \cup {NoCred}
      BY ExistingType DEF ReadyInv
    <3>2. vault \in [CredIds -> CredentialDoc] /\ NoData \in Data
      BY DataClosed, NoTextIsText, <1>1 DEF ReadyInv, TypeInv, TypeOK, Fields
    <3>3. c # NoCred => vault[c].data \in Data
      BY <3>1, <3>2 DEF CredentialDoc
    <3>4. previous \in Data
      BY <3>2, <3>3, DataClosed, NoTextIsText DEF Fields
    <3>5. f.kind \in Upserts /\ Decryptable(f.patch.data)
      BY <1>1, <1>4 DEF UpsertList, At, ReadyFrame
    <3> HIDE DEF previous, c
    <3>6. Decryptable(data)
      BY <1>1, <3>4, <3>5, UpsertReadable
    <3> HIDE DEF data
    <3>7. ReadyFrame(g)
      BY <1>1, <3>5, <3>6 DEF ReadyFrame, Frame, Patch
    <3> QED BY <2>2, <3>7
  <2> QED BY <1>4, <2>1, <2>2 DEF UpsertList
<1>5. ASSUME NEW step, step \notin {"update.save", "upsert.list", "create"}, NEW cred, NEW items,
             Become(p, [f EXCEPT !.step = step, !.items = items, !.cred = cred])
      PROVE  \E g : Become(p, g) /\ ReadyFrame(g)
  <2>1. ReadyFrame([f EXCEPT !.step = step, !.items = items, !.cred = cred])
    BY <1>1, <1>5 DEF ReadyFrame, Frame
  <2> QED BY <1>5, <2>1
<1>6. CASE Revoke(p)
  <2>1. PICK item \in f.items :
           Become(p, [f EXCEPT !.step = "remove.find", !.cred = item.cred, !.items = @ \ {item}])
    BY <1>6 DEF Revoke
  <2>2. [f EXCEPT !.step = "remove.find", !.cred = item.cred, !.items = @ \ {item}]
        = [f EXCEPT !.step = "remove.find", !.items = f.items \ {item}, !.cred = item.cred]
    BY <1>1 DEF Frame
  <2> QED BY <2>1, <2>2, <1>5
<1>7. CASE RemoveFind(p)
  <2>1. CASE Goto(p, "remove.delete")
    <3>1. ReadyFrame([f EXCEPT !.step = "remove.delete"])
      BY <1>1 DEF ReadyFrame, Frame
    <3> QED BY <2>1, <3>1 DEF Goto
  <2> QED BY <1>2, <1>7, <2>1 DEF RemoveFind
<1>8. CASE RemoveDelete(p)
  BY <1>2, <1>5, <1>8 DEF RemoveDelete, NextItem
<1> QED BY <1>2, <1>3, <1>4, <1>6, <1>7, <1>8 DEF Continue, Create, UpdateSave

LEMMA NextReady == ReadyInv /\ [Next]_vars => ReadyInv'
<1> SUFFICES ASSUME ReadyInv, [Next]_vars PROVE ReadyInv'
  OBVIOUS
<1>1. TypeInv'
  BY NextType DEF ReadyInv
<1>2. ASSUME NEW p \in Requests, \E g : Become(p, g) /\ ReadyFrame(g) PROVE ReadyInv'
  BY <1>1, <1>2 DEF ReadyInv, TypeInv, TypeOK, Become
<1>3. CASE UNCHANGED frames
  BY <1>1, <1>3 DEF ReadyInv
<1>4. CASE Crash
  BY <1>1, <1>4, IdleReady DEF Crash, ReadyInv
<1>5. ASSUME NEW body \in Posts, PostCredential(body) PROVE ReadyInv'
  BY <1>3, <1>5 DEF PostCredential
<1> QED BY <1>2, <1>3, <1>4, <1>5, StartReady, ContinueReady DEF Next, vars

LEMMA ReadableStep ==
    ASSUME ReadyInv, [Next]_vars, \A body \in Posts : Decryptable(body.data),
           NEW c \in CredIds, vault'[c].data # vault[c].data
    PROVE  Decryptable(vault'[c].data)
<1>1. vault \in [CredIds -> CredentialDoc]
  BY DEF ReadyInv, TypeInv, TypeOK
<1>2. ASSUME NEW type, NEW n8n, NEW data \in Data, Insert(type, n8n, data), Decryptable(data)
      PROVE  Decryptable(vault'[c].data)
  <2>1. Decryptable(EncryptSensitiveFields(data))
    BY <1>2, Encryption
  <2> QED BY <1>1, <1>2, <2>1 DEF Insert
<1>3. ASSUME NEW body \in Posts, PostCredential(body) PROVE Decryptable(vault'[c].data)
  BY <1>2, <1>3, BodiesAssumption DEF PostCredential, CredentialDoc
<1>4. ASSUME NEW p \in Requests, Create(p) PROVE Decryptable(vault'[c].data)
  <2>1. frames[p].patch.data \in Data /\ Decryptable(frames[p].patch.data)
    BY <1>4 DEF Create, At, ReadyInv, ReadyFrame, TypeInv, TypeOK, Frame, Patch
  <2> QED BY <1>2, <1>4, <2>1 DEF Create
<1>5. ASSUME NEW p \in Requests, UpdateSave(p) PROVE Decryptable(vault'[c].data)
  <2> DEFINE f == frames[p]
             doc == Assigned(f.loaded, f.patch)
  <2>1. Decryptable(doc.data)
    BY <1>5 DEF UpdateSave, At, ReadyInv, ReadyFrame
  <2>2. c = f.cred /\ vault'[c] = SaveCredential(doc, f.loaded, f.patch, vault[c])
    BY <1>1, <1>5 DEF UpdateSave
  <2> HIDE DEF doc
  <2>3. vault'[c].data = IF f.patch.data = NoData THEN vault[c].data ELSE doc.data
    BY <2>2 DEF SaveCredential
  <2> QED BY <2>1, <2>3
<1>6. ASSUME NEW p \in Requests, RemoveDelete(p) PROVE Decryptable(vault'[c].data)
  <2>1. vault'[c] = Removed
    BY <1>1, <1>6 DEF RemoveDelete
  <2> QED BY <2>1, EmptyReadable DEF Removed
<1>7. vault' # vault
  OBVIOUS
<1>8. ASSUME NEW p \in Requests, Start(p) PROVE FALSE
  BY <1>7, <1>8 DEF Start, PatchCredential, EditListed, RemoveCredential, EnterKey, Callback,
     ChooseSheet, Disconnect
<1>9. ASSUME NEW p \in Requests, Continue(p) PROVE Decryptable(vault'[c].data)
  BY <1>4, <1>5, <1>6, <1>7, <1>9 DEF Continue, UpdateLoad, UpsertList, Revoke, RemoveFind
<1> QED BY <1>3, <1>7, <1>8, <1>9 DEF Next, Crash, vars

(* If no POST brings a text that looks sealed under another key, no save leaves a
   document that cannot be decrypted: update checks what it is about to store, and
   upserts send plain text. *)
THEOREM SecretsReadable ==
    ASSUME \A body \in Posts : Decryptable(body.data)
    PROVE  Spec => SavedSecretsReadable
<1>1. Init => ReadyInv
  BY InitType, IdleReady DEF Init, ReadyInv
<1>2. ReadyInv /\ [Next]_vars
      => [\A c \in CredIds : vault'[c].data # vault[c].data => Decryptable(vault'[c].data)]_vars
  BY ReadableStep
<1> QED BY <1>1, <1>2, NextReady, PTL DEF Spec, SavedSecretsReadable


------------------------------------------------------------------------------
(* What a save leaves *)

(* After an update a field has the text the patch gives it, or keeps its own where
   the patch has nothing or a mask. *)
LEMMA AssignedText ==
    ASSUME NEW doc \in CredentialDoc, NEW patch \in Patch, NEW field \in Fields
    PROVE  TextOf(Assigned(doc, patch).data, field) =
              IF patch.data[field] \in {Absent, Plain(MaskText)}
              THEN TextOf(doc.data, field) ELSE TextOf(patch.data, field)
<1> DEFINE merged == Merged(doc.data, StripMaskedPlaceholders(patch.data))
<1>1. doc.data \in Data /\ patch.data \in Data
  BY DEF CredentialDoc, Patch
<1>2. CASE patch.data = NoData
  <2>1. Assigned(doc, patch).data = doc.data
    BY <1>2 DEF Assigned, CredentialDoc
  <2>2. patch.data[field] = Absent
    BY <1>2 DEF NoData
  <2> QED BY <2>1, <2>2
<1>3. CASE patch.data # NoData
  <2>1. Assigned(doc, patch).data = EncryptSensitiveFields(merged)
    BY <1>3 DEF Assigned, CredentialDoc
  <2>2. merged \in Data
    BY <1>1, DataClosed, NoTextIsText DEF Fields
  <2>3. merged[field] = IF patch.data[field] \in {Absent, Plain(MaskText)}
                        THEN doc.data[field] ELSE patch.data[field]
    BY DEF Merged, StripMaskedPlaceholders
  <2> HIDE DEF merged
  <2>4. TextOf(Assigned(doc, patch).data, field) = TextOf(merged, field)
    BY <2>1, <2>2, Encryption
  <2> QED BY <2>3, <2>4 DEF TextOf
<1> QED BY <1>2, <1>3

(* What the save of a handler leaves in the credential, when it is there. *)
LEMMA SaveLeaves ==
    ASSUME TypeInv, NEW p \in Requests, UpdateSave(p), Present(frames[p].cred)
    PROVE  LET f == frames[p] IN
           /\ f.cred \in CredIds
           /\ vault' = [vault EXCEPT ![f.cred] = vault'[f.cred]]
           /\ vault'[f.cred] \in CredentialDoc
           /\ vault'[f.cred].type = vault[f.cred].type
           /\ vault'[f.cred] = SaveCredential(Assigned(f.loaded, f.patch), f.loaded, f.patch,
                                              vault[f.cred])
<1> DEFINE f == frames[p]
           doc == SaveCredential(Assigned(f.loaded, f.patch), f.loaded, f.patch, vault[f.cred])
<1>1. f.cred \in CredIds /\ vault \in [CredIds -> CredentialDoc]
  BY DEF UpdateSave, At, TypeInv, TypeOK, FramesNameCreds, CredSteps
<1>2. vault' = [vault EXCEPT ![f.cred] = doc] /\ doc \in CredentialDoc
  BY <1>1, SavedDoc DEF UpdateSave
<1>3. doc.type = vault[f.cred].type
  BY DEF SaveCredential
<1> HIDE DEF doc
<1>4. vault'[f.cred] = doc
  BY <1>1, <1>2
<1> QED BY <1>1, <1>2, <1>3, <1>4 DEF doc

(* The texts of what a reconnect writes. *)
LEMMA UpsertTexts ==
    ASSUME NEW tokens \in Data, NEW previous \in Data
    PROVE  LET new == UpsertData(tokens, previous) IN
           /\ Has(tokens, "accessToken") => TextOf(new, "accessToken") = TextOf(tokens, "accessToken")
           /\ Has(tokens, "email") => TextOf(new, "email") = TextOf(tokens, "email")
           /\ Has(tokens, "refreshToken") => TextOf(new, "refreshToken") = TextOf(tokens, "refreshToken")
           /\ TextOf(new, "accessToken") \in {TextOf(tokens, "accessToken"), NoText}
           /\ TextOf(new, "refreshToken") \in {TextOf(tokens, "refreshToken"), NoText,
                                               TextOf(previous, "refreshToken")}
           /\ TextOf(new, "spreadsheetId") = TextOf(previous, "spreadsheetId")
<1> DEFINE old == IF Has(previous, "refreshToken")
                  THEN With(NoData, "refreshToken", TextOf(previous, "refreshToken"))
                  ELSE NoData
           new == With(Merged(old, tokens), "spreadsheetId", TextOf(previous, "spreadsheetId"))
<1>1. /\ old \in Data
      /\ TextOf(old, "refreshToken") \in {NoText, TextOf(previous, "refreshToken")}
      /\ TextOf(old, "accessToken") = NoText
  BY NoTextIsText, DataClosed DEF With, NoData, Plain, Absent, TextOf, Has, Fields, Data, Values
<1> HIDE DEF old
<1>2. \A field \in Fields : TextOf(Merged(old, tokens), field) =
          IF tokens[field] = Absent THEN TextOf(old, field) ELSE TextOf(tokens, field)
  BY DEF Merged, TextOf
<1>3. \A field \in Fields \ {"spreadsheetId"} : TextOf(new, field) = TextOf(Merged(old, tokens), field)
  BY DEF With, TextOf, Merged
<1>4. TextOf(new, "spreadsheetId") = TextOf(previous, "spreadsheetId")
  BY DEF With, Plain, TextOf, Merged, Fields
<1>5. UpsertData(tokens, previous) = new
  BY DEF UpsertData, old
<1>6. \A field \in Fields : Has(tokens, field) => tokens[field] # Absent
  BY DEF Has, TextOf, Absent
<1> HIDE DEF new
<1> QED BY <1>1, <1>2, <1>3, <1>4, <1>5, <1>6 DEF Fields

(* What upsertGoogleOAuth keeps of the credential it reuses. *)
Previous(email) ==
    LET c == Existing(email) IN IF c = NoCred THEN NoData ELSE DecryptSensitiveFields(vault[c].data)

LEMMA PreviousType ==
    ASSUME TypeInv, NEW email
    PROVE  Previous(email) \in Data
<1>1. Existing(email) \in CredIds \cup {NoCred} /\ NoData \in Data
  BY ExistingType, EmptyReadable
<1>2. ASSUME NEW c \in CredIds PROVE DecryptSensitiveFields(vault[c].data) \in Data
  <2>1. vault[c].data \in Data
    BY DEF TypeInv, TypeOK, CredentialDoc
  <2> QED BY <2>1, NoTextIsText DEF DecryptSensitiveFields, Plain, Data, Values, IsSecret, Has, TextOf
<1> QED BY <1>1, <1>2 DEF Previous

------------------------------------------------------------------------------
(* What handlers send *)

(* The loop of disconnect holds its items, and a credential only while it removes it. *)
LoopFrame(f) ==
    /\ f.step \in {"disconnect.revoke", "remove.find"} => f.kind = "disconnect"
    /\ f.step = "remove.delete" => f.kind \in {"disconnect", "remove"}
    /\ f.kind = "disconnect" => f.step \in {"disconnect.revoke", "remove.find", "remove.delete"}
    /\ f.kind \in {"disconnect", "remove"} => f.patch = NoPatch
    /\ f.kind # "disconnect" => f.items = {}
    /\ f.step = "disconnect.revoke" => f.cred = NoCred

(* A callback sends the grant and its account, a sheet choice the sheet, a job's
   key the key, and only a PATCH may touch the n8n id; only keys and callbacks
   create, and only callbacks list the connections. *)
SendFrame(f) ==
    /\ LoopFrame(f)
    /\ f.kind = "patch" => f.patch \in Patches \cup {NoPatch}
    /\ f.kind # "patch" => f.patch.n8n = Keep
    /\ f.step \in {"upsert.list", "create"} => f.kind \in Upserts
    /\ f.step = "upsert.list" => f.kind = "callback"
    /\ f.kind = "key" => TextOf(f.patch.data, "apiKey") \in Keys
    /\ f.kind = "callback" => /\ TextOf(f.patch.data, "accessToken") \in Grants
                              /\ TextOf(f.patch.data, "email") \in Accounts
                              /\ f.patch.label
    /\ f.kind = "sheet" => TextOf(f.patch.data, "spreadsheetId") \in Sheets /\ f.patch.label = FALSE

SendInv == TypeInv /\ \A p \in Requests : SendFrame(frames[p])

LEMMA IdleSends == SendFrame(Idle)
  BY DEF SendFrame, LoopFrame, Idle, Upserts

(* A handler that keeps its kind and patch keeps what it sends. *)
LEMMA KeepsSending ==
    ASSUME NEW f, SendFrame(f), NEW g, g.kind = f.kind, g.patch = f.patch,
           g.step # "upsert.list", g.step = "create" => f.kind \in Upserts, LoopFrame(g)
    PROVE  SendFrame(g)
  BY DEF SendFrame

LEMMA LoadedSends ==
    ASSUME NEW p \in Requests, NEW f \in Frame, SendFrame(f), Loaded(p, f),
           f.step \in {"idle", "update.load"}
    PROVE  \E g : Become(p, g) /\ SendFrame(g)
<1>4. ASSUME NEW g, g.kind = f.kind, g.patch = f.patch, g.items = f.items,
             g.step \in {"create", "update.save"}
      PROVE  LoopFrame(g)
  BY <1>4 DEF SendFrame, LoopFrame
<1>1. CASE Become(p, [f EXCEPT !.step = "create"]) /\ f.kind = "key"
  <2> DEFINE g == [f EXCEPT !.step = "create"]
  <2>1. g.kind = f.kind /\ g.patch = f.patch /\ g.step = "create" /\ g.items = f.items
    BY DEF Frame
  <2>2. Become(p, g)
    BY <1>1
  <2> HIDE DEF g
  <2> QED BY <1>1, <1>4, <2>1, <2>2, KeepsSending DEF Upserts
<1>2. CASE Throw(p)
  BY <1>2, IdleSends DEF Throw, Return
<1>3. CASE Become(p, [f EXCEPT !.step = "update.save", !.loaded = vault[f.cred]])
  <2> DEFINE g == [f EXCEPT !.step = "update.save", !.loaded = vault[f.cred]]
  <2>1. g.kind = f.kind /\ g.patch = f.patch /\ g.step = "update.save" /\ g.items = f.items
    BY DEF Frame
  <2>2. Become(p, g)
    BY <1>3
  <2> HIDE DEF g
  <2> QED BY <1>4, <2>1, <2>2, KeepsSending
<1> QED BY <1>1, <1>2, <1>3 DEF Loaded

LEMMA StartSends ==
    ASSUME SendInv, NEW p \in Requests, Start(p)
    PROVE  \E g : Become(p, g) /\ SendFrame(g)
<1>1. ASSUME NEW c \in CredIds, NEW patch \in Patches, PatchCredential(p, c, patch)
      PROVE  \E g : Become(p, g) /\ SendFrame(g)
  <2> DEFINE f == [Idle EXCEPT !.kind = "patch", !.cred = c, !.patch = patch]
  <2>1. f \in Frame /\ f.kind = "patch" /\ f.step = "idle" /\ f.patch = patch /\ f.items = {}
    BY IdleProper, BodiesAssumption DEF Proper, Frame, Kinds, Idle
  <2>2. Loaded(p, f)
    BY <1>1 DEF PatchCredential
  <2> HIDE DEF f
  <2> QED BY <2>1, <2>2, LoadedSends DEF SendFrame, LoopFrame, Upserts
<1>6. ASSUME NEW c \in CredIds, EditListed(p, c) PROVE \E g : Become(p, g) /\ SendFrame(g)
  <2> DEFINE data == MaskSensitiveFields(vault[c].data)
             f == [Idle EXCEPT !.step = "update.load", !.kind = "edit", !.cred = c,
                               !.patch.label = TRUE, !.patch.data = data]
  <2>1. Become(p, f)
    BY <1>6 DEF EditListed
  <2> HIDE DEF data
  <2>2. f.step = "update.load" /\ f.kind = "edit" /\ f.patch.n8n = Keep /\ f.items = {}
    BY DEF Idle, NoPatch
  <2> HIDE DEF f
  <2> QED BY <2>1, <2>2 DEF SendFrame, LoopFrame
<1>7. ASSUME NEW c \in CredIds, RemoveCredential(p, c) PROVE \E g : Become(p, g) /\ SendFrame(g)
  <2> DEFINE f == [Idle EXCEPT !.step = "remove.delete", !.kind = "remove", !.cred = c]
  <2>1. Become(p, f) /\ f.step = "remove.delete" /\ f.kind = "remove" /\ f.patch = NoPatch /\ f.items = {}
    BY <1>7 DEF RemoveCredential, Idle
  <2> HIDE DEF f
  <2> QED BY <2>1 DEF SendFrame, LoopFrame, NoPatch
<1>8. CASE Disconnect(p)
  <2> DEFINE items == {[cred |-> c, token |-> TokenOf(vault[c].data)] : c \in List("google-oauth")}
             f == [Idle EXCEPT !.step = "disconnect.revoke", !.kind = "disconnect",
                               !.listed = List("google-oauth"), !.items = items]
  <2>1. Become(p, f)
    BY <1>8 DEF Disconnect
  <2> HIDE DEF items
  <2>2. f.step = "disconnect.revoke" /\ f.kind = "disconnect" /\ f.patch = NoPatch /\ f.cred = NoCred
    BY DEF Idle
  <2> HIDE DEF f
  <2> QED BY <2>1, <2>2 DEF SendFrame, LoopFrame, NoPatch
<1>3. ASSUME NEW sheet \in Sheets, ChooseSheet(p, sheet)
      PROVE  \E g : Become(p, g) /\ SendFrame(g)
  <2> DEFINE old == DecryptSensitiveFields(vault[Latest(List("google-oauth"))].data)
             data == With(old, "spreadsheetId", sheet)
             f == [Idle EXCEPT !.step = "update.load", !.kind = "sheet",
                               !.cred = Latest(List("google-oauth")), !.patch.data = data]
  <2>1. TextOf(data, "spreadsheetId") = sheet
    BY DEF With, Plain, TextOf, DecryptSensitiveFields, Fields
  <2>2. Become(p, f)
    BY <1>3 DEF ChooseSheet
  <2> HIDE DEF data
  <2>3. /\ f.kind = "sheet" /\ f.patch.data = data /\ f.patch.label = FALSE /\ f.step = "update.load"
        /\ f.patch.n8n = Keep /\ f.items = {}
    BY DEF Idle, NoPatch
  <2> HIDE DEF f
  <2> QED BY <2>1, <2>2, <2>3 DEF SendFrame, LoopFrame
<1>4. ASSUME NEW key \in Keys, NEW c \in CredIds \cup {NoCred}, EnterKey(p, key, c)
      PROVE  \E g : Become(p, g) /\ SendFrame(g)
  <2> DEFINE data == With(NoData, "apiKey", key)
             f == [Idle EXCEPT !.step = IF c = NoCred THEN "create" ELSE "update.load",
                               !.kind = "key", !.cred = c, !.patch.label = TRUE, !.patch.data = data]
  <2>1. TextOf(data, "apiKey") = key
    BY DEF With, Plain, TextOf, NoData, Fields
  <2>2. Become(p, f)
    BY <1>4 DEF EnterKey
  <2> HIDE DEF data
  <2>3. /\ f.kind = "key" /\ f.patch.data = data /\ f.step \in {"create", "update.load"}
        /\ f.patch.n8n = Keep /\ f.items = {}
    BY DEF Idle, NoPatch
  <2> HIDE DEF f
  <2> QED BY <2>1, <2>2, <2>3 DEF SendFrame, LoopFrame, Upserts
<1>5. ASSUME NEW g \in Grants, NEW a \in Accounts, NEW refresh \in RefreshAnswers, Callback(p, g, a, refresh)
      PROVE  \E h : Become(p, h) /\ SendFrame(h)
  <2> DEFINE tokens == With(With(NoData, "email", a), "accessToken", g)
             data == IF refresh THEN With(tokens, "refreshToken", g) ELSE tokens
             f == [Idle EXCEPT !.step = "upsert.list", !.kind = "callback", !.patch.label = TRUE,
                               !.patch.data = data]
  <2>1. TextOf(data, "accessToken") = g /\ TextOf(data, "email") = a
    BY DEF With, Plain, TextOf, NoData, Fields
  <2>2. Become(p, f)
    BY <1>5 DEF Callback
  <2> HIDE DEF data
  <2>3. /\ f.kind = "callback" /\ f.patch.data = data /\ f.patch.label = TRUE /\ f.step = "upsert.list"
        /\ f.patch.n8n = Keep /\ f.items = {}
    BY DEF Idle, NoPatch
  <2> HIDE DEF f
  <2> QED BY <2>1, <2>2, <2>3 DEF SendFrame, LoopFrame, Upserts
<1> QED BY <1>1, <1>3, <1>4, <1>5, <1>6, <1>7, <1>8, VaultInputsAssumption DEF Start

LEMMA ContinueSends ==
    ASSUME SendInv, NEW p \in Requests, Continue(p)
    PROVE  \E g : Become(p, g) /\ SendFrame(g)
<1> DEFINE f == frames[p]
<1>1. f \in Frame /\ f.patch \in Patch /\ f.patch.data \in Data /\ SendFrame(f)
  BY DEF SendInv, TypeInv, TypeOK, Frame, Patch
<1>2. CASE Return(p) \/ Throw(p)
  BY <1>2, IdleSends DEF Return, Throw
<1>3. CASE UpdateLoad(p)
  BY <1>1, <1>3, LoadedSends DEF UpdateLoad, At
<1>4. CASE UpsertList(p)
  <2> DEFINE c == Existing(TextOf(f.patch.data, "email"))
             previous == Previous(TextOf(f.patch.data, "email"))
             data == UpsertData(f.patch.data, previous)
             g == [f EXCEPT !.step = IF c = NoCred THEN "create" ELSE "update.load",
                            !.cred = c, !.patch.data = data]
  <2>1. CASE Throw(p)
    BY <2>1, <1>2
  <2>2. CASE Become(p, g)
    <3>1. previous \in Data
      BY PreviousType, <1>1 DEF SendInv
    <3>2. f.kind = "callback"
      BY <1>1, <1>4 DEF UpsertList, At, SendFrame
    <3>3. Has(f.patch.data, "accessToken") /\ Has(f.patch.data, "email")
      BY <1>1, <3>2, VaultInputsAssumption DEF SendFrame, Has
    <3> HIDE DEF previous, c
    <3>4. /\ TextOf(data, "accessToken") = TextOf(f.patch.data, "accessToken")
          /\ TextOf(data, "email") = TextOf(f.patch.data, "email")
      BY <1>1, <3>1, <3>3, UpsertTexts
    <3> HIDE DEF data
    <3>5. /\ g.kind = "callback" /\ g.patch.data = data /\ g.patch.label = f.patch.label
          /\ g.step \in {"create", "update.load"} /\ g.items = f.items /\ g.patch.n8n = f.patch.n8n
      BY <1>1, <3>2 DEF Frame, Patch
    <3> HIDE DEF g
    <3> QED BY <1>1, <2>2, <3>2, <3>4, <3>5 DEF SendFrame, LoopFrame, Upserts
  <2> QED BY <1>4, <2>1, <2>2 DEF UpsertList, Previous
<1>5. ASSUME NEW g, Become(p, g), g.kind = f.kind, g.patch = f.patch,
             g.step \notin {"upsert.list", "create"}, LoopFrame(g)
      PROVE  \E h : Become(p, h) /\ SendFrame(h)
  BY <1>1, <1>5, KeepsSending
<1>6. CASE Revoke(p)
  <2>1. PICK item \in f.items :
           Become(p, [f EXCEPT !.step = "remove.find", !.cred = item.cred, !.items = @ \ {item}])
    BY <1>6 DEF Revoke
  <2> DEFINE g == [f EXCEPT !.step = "remove.find", !.cred = item.cred, !.items = @ \ {item}]
  <2>2. g.kind = f.kind /\ g.patch = f.patch /\ g.step = "remove.find"
    BY <1>1 DEF Frame
  <2>3. Become(p, g)
    BY <2>1
  <2> HIDE DEF g
  <2>4. LoopFrame(g)
    BY <1>1, <1>6, <2>2 DEF Revoke, At, SendFrame, LoopFrame
  <2> QED BY <1>5, <2>2, <2>3, <2>4
<1>7. CASE RemoveFind(p)
  <2>1. CASE Goto(p, "remove.delete")
    <3> DEFINE g == [f EXCEPT !.step = "remove.delete"]
    <3>1. g.kind = f.kind /\ g.patch = f.patch /\ g.step = "remove.delete" /\ Become(p, g)
      BY <1>1, <2>1 DEF Frame, Goto
    <3> HIDE DEF g
    <3>2. LoopFrame(g)
      BY <1>1, <1>7, <3>1 DEF RemoveFind, At, SendFrame, LoopFrame
    <3> QED BY <1>5, <3>1, <3>2
  <2> QED BY <1>2, <1>7, <2>1 DEF RemoveFind
<1>8. CASE RemoveDelete(p)
  <2>1. CASE /\ Become(p, [f EXCEPT !.step = "disconnect.revoke", !.items = f.items, !.cred = NoCred])
             /\ f.items # {}
    <3> DEFINE g == [f EXCEPT !.step = "disconnect.revoke", !.items = f.items, !.cred = NoCred]
    <3>1. /\ g.kind = f.kind /\ g.patch = f.patch /\ g.step = "disconnect.revoke" /\ Become(p, g)
          /\ g.cred = NoCred
      BY <1>1, <2>1 DEF Frame
    <3> HIDE DEF g
    <3>2. LoopFrame(g)
      BY <1>1, <1>8, <2>1, <3>1 DEF RemoveDelete, At, SendFrame, LoopFrame
    <3> QED BY <1>5, <3>1, <3>2
  <2> QED BY <1>2, <1>8, <2>1 DEF RemoveDelete, NextItem
<1> QED BY <1>2, <1>3, <1>4, <1>6, <1>7, <1>8 DEF Continue, Create, UpdateSave

LEMMA NextSends == SendInv /\ [Next]_vars => SendInv'
<1> SUFFICES ASSUME SendInv, [Next]_vars PROVE SendInv'
  OBVIOUS
<1>1. TypeInv'
  BY NextType DEF SendInv
<1>2. ASSUME NEW p \in Requests, \E g : Become(p, g) /\ SendFrame(g) PROVE SendInv'
  BY <1>1, <1>2 DEF SendInv, TypeInv, TypeOK, Become
<1>3. CASE UNCHANGED frames
  BY <1>1, <1>3 DEF SendInv
<1>4. CASE Crash
  BY <1>1, <1>4, IdleSends DEF Crash, SendInv
<1>5. ASSUME NEW body \in Posts, PostCredential(body) PROVE SendInv'
  BY <1>3, <1>5 DEF PostCredential
<1> QED BY <1>2, <1>3, <1>4, <1>5, StartSends, ContinueSends DEF Next, vars

LEMMA InitSends == Init => SendInv
  BY InitType, IdleSends DEF Init, SendInv
(* The credential a reconnect reuses is one of the connections. *)
LEMMA ExistingListed ==
    ASSUME TypeInv, NEW email, Existing(email) # NoCred
    PROVE  Existing(email) \in List("google-oauth")
<1> DEFINE creds == List("google-oauth")
           same == SameEmail(creds, email)
<1>1. creds \in SUBSET CredIds /\ same \in SUBSET creds /\ same \in SUBSET CredIds
  BY DEF List, SameEmail
<1> HIDE DEF creds, same
<1>2. ASSUME same # {} PROVE Latest(same) \in creds
  BY <1>1, <1>2, LatestOfSome DEF TypeInv, TypeOK
<1>3. ASSUME creds # {} PROVE Latest(creds) \in creds
  BY <1>1, <1>3, LatestOfSome DEF TypeInv, TypeOK
<1> QED BY <1>2, <1>3 DEF Existing, creds, same

------------------------------------------------------------------------------
(* One request at a time *)

OneAtATime == \A p, q \in Requests : p = q

Updating == {"update.load", "update.save"}

(* Nothing comes between what an update has seen and what it saves: the document
   is there and as it was loaded, a masked form shows it, and a reconnect sends
   its spreadsheet. *)
AloneFrame(docs, f) ==
    /\ f.step \in Updating /\ f.kind # "key" => docs[f.cred].type \in CredentialTypes
    /\ f.step \in Updating /\ f.kind = "edit" =>
          f.patch.data = MaskSensitiveFields(docs[f.cred].data)
    /\ f.step \in Updating /\ f.kind = "callback" =>
          TextOf(f.patch.data, "spreadsheetId") = TextOf(docs[f.cred].data, "spreadsheetId")
    /\ f.step = "update.save" =>
          /\ docs[f.cred].type \in CredentialTypes /\ f.loaded = docs[f.cred]
          /\ Acceptable(Assigned(f.loaded, f.patch))

AloneInv == SendInv /\ \A p \in Requests : AloneFrame(vault, frames[p])

LEMMA OtherSteps ==
    ASSUME NEW docs, NEW f, f.step \notin Updating
    PROVE  AloneFrame(docs, f)
  BY DEF AloneFrame, Updating

LEMMA IdleAlone == ASSUME NEW docs PROVE AloneFrame(docs, Idle)
  BY OtherSteps DEF Idle, Updating

LEMMA LoadedAlone ==
    ASSUME NEW p \in Requests, NEW f \in Frame, Loaded(p, f),
           f.kind = "edit" => f.patch.data = MaskSensitiveFields(vault[f.cred].data),
           f.kind = "callback" => TextOf(f.patch.data, "spreadsheetId")
                                  = TextOf(vault[f.cred].data, "spreadsheetId")
    PROVE  \E g : Become(p, g) /\ AloneFrame(vault, g)
<1>1. CASE Become(p, [f EXCEPT !.step = "create"])
  <2>1. [f EXCEPT !.step = "create"].step \notin Updating
    BY DEF Frame, Updating
  <2> QED BY <1>1, <2>1, OtherSteps
<1>2. CASE Throw(p)
  BY <1>2, IdleAlone DEF Throw, Return
<1>3. CASE /\ Present(f.cred) /\ Acceptable(Assigned(vault[f.cred], f.patch))
           /\ Become(p, [f EXCEPT !.step = "update.save", !.loaded = vault[f.cred]])
  <2> DEFINE g == [f EXCEPT !.step = "update.save", !.loaded = vault[f.cred]]
  <2>1. /\ g.kind = f.kind /\ g.patch = f.patch /\ g.cred = f.cred
        /\ g.step = "update.save" /\ g.loaded = vault[f.cred]
    BY DEF Frame
  <2>2. Become(p, g)
    BY <1>3
  <2> HIDE DEF g
  <2>3. AloneFrame(vault, g)
    BY <1>3, <2>1 DEF AloneFrame, Present
  <2> QED BY <2>2, <2>3
<1> QED BY <1>1, <1>2, <1>3 DEF Loaded

LEMMA StartAlone ==
    ASSUME AloneInv, NEW p \in Requests, Start(p)
    PROVE  \E g : Become(p, g) /\ AloneFrame(vault, g)
<1>1. ASSUME NEW c \in CredIds, NEW patch \in Patches, PatchCredential(p, c, patch)
      PROVE  \E g : Become(p, g) /\ AloneFrame(vault, g)
  <2> DEFINE f == [Idle EXCEPT !.kind = "patch", !.cred = c, !.patch = patch]
  <2>1. f \in Frame /\ f.kind = "patch"
    BY IdleProper, BodiesAssumption DEF Proper, Frame, Kinds, Idle
  <2>2. Loaded(p, f)
    BY <1>1 DEF PatchCredential
  <2> HIDE DEF f
  <2> QED BY <2>1, <2>2, LoadedAlone
<1>2. ASSUME NEW c \in CredIds, EditListed(p, c)
      PROVE  \E g : Become(p, g) /\ AloneFrame(vault, g)
  <2> DEFINE data == MaskSensitiveFields(vault[c].data)
             f == [Idle EXCEPT !.step = "update.load", !.kind = "edit", !.cred = c,
                               !.patch.label = TRUE, !.patch.data = data]
  <2>1. Become(p, f) /\ Present(c)
    BY <1>2 DEF EditListed
  <2>2. f.step = "update.load" /\ f.kind = "edit" /\ f.cred = c /\ f.patch.data = data
    BY DEF Idle, NoPatch
  <2> HIDE DEF f
  <2> QED BY <2>1, <2>2 DEF AloneFrame, Present
<1>3. ASSUME NEW c \in CredIds \cup {NoCred}, NEW key \in Keys, EnterKey(p, key, c)
      PROVE  \E g : Become(p, g) /\ AloneFrame(vault, g)
  <2> DEFINE data == With(NoData, "apiKey", key)
             f == [Idle EXCEPT !.step = IF c = NoCred THEN "create" ELSE "update.load",
                               !.kind = "key", !.cred = c, !.patch.label = TRUE, !.patch.data = data]
  <2>1. Become(p, f)
    BY <1>3 DEF EnterKey
  <2> HIDE DEF data
  <2>2. f.kind = "key" /\ f.step # "update.save"
    BY DEF Idle
  <2> HIDE DEF f
  <2> QED BY <2>1, <2>2 DEF AloneFrame
<1>4. ASSUME NEW sheet \in Sheets, ChooseSheet(p, sheet)
      PROVE  \E g : Become(p, g) /\ AloneFrame(vault, g)
  <2>1. List("google-oauth") \in SUBSET CredIds /\ List("google-oauth") # {}
    BY <1>4 DEF List, ChooseSheet
  <2>2. Latest(List("google-oauth")) \in List("google-oauth")
    BY <2>1, LatestOfSome DEF AloneInv, SendInv, TypeInv, TypeOK
  <2>3. vault[Latest(List("google-oauth"))].type \in CredentialTypes
    BY <2>2 DEF List, CredentialTypes
  <2> DEFINE c == Latest(List("google-oauth"))
             data == With(DecryptSensitiveFields(vault[c].data), "spreadsheetId", sheet)
             f == [Idle EXCEPT !.step = "update.load", !.kind = "sheet", !.cred = c, !.patch.data = data]
  <2>4. Become(p, f)
    BY <1>4 DEF ChooseSheet
  <2> HIDE DEF data
  <2>5. f.kind = "sheet" /\ f.step = "update.load" /\ f.cred = c
    BY DEF Idle
  <2> HIDE DEF f
  <2> QED BY <2>3, <2>4, <2>5 DEF AloneFrame
<1>5. ASSUME NEW g, Become(p, g), g.step \notin Updating
      PROVE  \E h : Become(p, h) /\ AloneFrame(vault, h)
  BY <1>5, OtherSteps
<1>6. ASSUME NEW g, NEW a, NEW refresh, Callback(p, g, a, refresh)
      PROVE  \E h : Become(p, h) /\ AloneFrame(vault, h)
  BY <1>5, <1>6 DEF Callback, Idle, Updating
<1>7. ASSUME NEW c, RemoveCredential(p, c) PROVE \E g : Become(p, g) /\ AloneFrame(vault, g)
  BY <1>5, <1>7 DEF RemoveCredential, Idle, Updating
<1>8. CASE Disconnect(p)
  BY <1>5, <1>8 DEF Disconnect, Idle, Updating
<1> QED BY <1>1, <1>2, <1>3, <1>4, <1>6, <1>7, <1>8, VaultInputsAssumption DEF Start

(* A handler that reads goes on with what it saw. *)
LEMMA ReadAlone ==
    ASSUME AloneInv, NEW p \in Requests, UpdateLoad(p) \/ UpsertList(p) \/ Revoke(p) \/ RemoveFind(p)
    PROVE  \E g : Become(p, g) /\ AloneFrame(vault, g)
<1> DEFINE f == frames[p]
<1>1. f \in Frame /\ f.patch \in Patch /\ f.patch.data \in Data
  BY DEF AloneInv, SendInv, TypeInv, TypeOK, Frame, Patch
<1>2. CASE Throw(p)
  BY <1>2, IdleAlone DEF Return, Throw
<1>3. CASE UpdateLoad(p)
  <2>1. AloneFrame(vault, f) /\ f.step \in Updating
    BY <1>3 DEF AloneInv, UpdateLoad, At, Updating
  <2> QED BY <1>1, <1>3, <2>1, LoadedAlone DEF UpdateLoad, AloneFrame
<1>4. CASE UpsertList(p)
  <2> DEFINE email == TextOf(f.patch.data, "email")
             c == Existing(email)
             data == UpsertData(f.patch.data, Previous(email))
             g == [f EXCEPT !.step = IF c = NoCred THEN "create" ELSE "update.load",
                            !.cred = c, !.patch.data = data]
  <2>1. CASE Become(p, g) /\ c = NoCred
    <3>1. g.step \notin Updating
      BY <1>1, <2>1 DEF Frame, Updating
    <3> HIDE DEF g
    <3> QED BY <2>1, <3>1, OtherSteps
  <2>2. CASE Become(p, g) /\ c # NoCred
    <3>1. c \in CredIds /\ vault[c].type = "google-oauth"
      BY <2>2, ExistingListed DEF AloneInv, SendInv, List
    <3>2. Previous(email) \in Data /\ Previous(email) = DecryptSensitiveFields(vault[c].data)
      BY <2>2, PreviousType DEF AloneInv, SendInv, Previous
    <3>3. TextOf(data, "spreadsheetId") = TextOf(vault[c].data, "spreadsheetId")
      <4>1. TextOf(data, "spreadsheetId") = TextOf(Previous(email), "spreadsheetId")
        BY <1>1, <3>2, UpsertTexts
      <4> QED BY <3>2, <4>1 DEF DecryptSensitiveFields, IsSecret, SensitiveKeys, TextOf, Fields
    <3>4. f.kind = "callback"
      BY <1>4 DEF UpsertList, At, AloneInv, SendInv, SendFrame
    <3> HIDE DEF data, c
    <3>5. g.kind = "callback" /\ g.patch.data = data /\ g.cred = c /\ g.step = "update.load"
      BY <1>1, <2>2, <3>4 DEF Frame, Patch
    <3> HIDE DEF g
    <3> QED BY <2>2, <3>1, <3>3, <3>5 DEF AloneFrame, CredentialTypes
  <2> QED BY <1>2, <1>4, <2>1, <2>2 DEF UpsertList, Previous
<1>5. ASSUME NEW g, Become(p, g), g.step \notin Updating
      PROVE  \E h : Become(p, h) /\ AloneFrame(vault, h)
  BY <1>5, OtherSteps
<1>6. CASE Revoke(p)
  <2>1. PICK item \in f.items :
           Become(p, [f EXCEPT !.step = "remove.find", !.cred = item.cred, !.items = @ \ {item}])
    BY <1>6 DEF Revoke
  <2>2. [f EXCEPT !.step = "remove.find", !.cred = item.cred, !.items = @ \ {item}].step = "remove.find"
    BY <1>1 DEF Frame
  <2> QED BY <1>5, <2>1, <2>2 DEF Updating
<1>7. CASE RemoveFind(p)
  <2>1. [f EXCEPT !.step = "remove.delete"].step = "remove.delete"
    BY <1>1 DEF Frame
  <2> QED BY <1>2, <1>5, <1>7, <2>1 DEF RemoveFind, Goto, Updating
<1> QED BY <1>3, <1>4, <1>6, <1>7

(* A handler that writes has nothing left to save. *)
LEMMA WriteAlone ==
    ASSUME AloneInv, NEW p \in Requests, Create(p) \/ UpdateSave(p) \/ RemoveDelete(p), NEW docs
    PROVE  \E g : Become(p, g) /\ AloneFrame(docs, g)
<1> DEFINE g == [frames[p] EXCEPT !.step = "disconnect.revoke", !.items = frames[p].items, !.cred = NoCred]
<1>1. g.step \notin Updating
  BY DEF AloneInv, SendInv, TypeInv, TypeOK, Frame, Updating
<1>2. Return(p) \/ Become(p, g)
  BY DEF Create, UpdateSave, Throw, RemoveDelete, NextItem
<1> HIDE DEF g
<1> QED BY <1>1, <1>2, OtherSteps, IdleAlone DEF Return

LEMMA NextAlone == ASSUME OneAtATime PROVE AloneInv /\ [Next]_vars => AloneInv'
<1> SUFFICES ASSUME AloneInv, [Next]_vars PROVE AloneInv'
  OBVIOUS
<1>1. SendInv' /\ vault \in [CredIds -> CredentialDoc] /\ frames \in [Requests -> Frame]
  BY NextSends DEF AloneInv, SendInv, TypeInv, TypeOK
<1>2. ASSUME NEW p \in Requests, \E g : Become(p, g) /\ AloneFrame(vault', g) PROVE AloneInv'
  BY <1>1, <1>2 DEF AloneInv, OneAtATime, Become
<1>3. ASSUME NEW p \in Requests, Start(p) PROVE AloneInv'
  <2>1. vault' = vault
    BY <1>3 DEF Start, PatchCredential, EditListed, RemoveCredential, EnterKey, Callback,
       ChooseSheet, Disconnect
  <2> QED BY <1>2, <1>3, <2>1, StartAlone
<1>4. ASSUME NEW p \in Requests, Continue(p) PROVE AloneInv'
  <2>1. CASE UpdateLoad(p) \/ UpsertList(p) \/ Revoke(p) \/ RemoveFind(p)
    <3>1. vault' = vault
      BY <2>1 DEF UpdateLoad, UpsertList, Revoke, RemoveFind
    <3> QED BY <1>2, <2>1, <3>1, ReadAlone
  <2> QED BY <1>2, <1>4, <2>1, WriteAlone DEF Continue
<1>5. ASSUME NEW body \in Posts, PostCredential(body) PROVE AloneInv'
  <2>1. PICK c \in CredIds : vault[c] = Unborn /\ \E doc : vault' = [vault EXCEPT ![c] = doc]
    BY <1>5 DEF PostCredential, Insert
  <2>2. ASSUME NEW p \in Requests PROVE AloneFrame(vault', frames[p])
    <3>1. AloneFrame(vault, frames[p])
      BY DEF AloneInv
    <3>2. CASE frames[p].step \notin Updating
      BY <3>2, OtherSteps
    <3>3. CASE frames[p].step \in Updating /\ vault[frames[p].cred].type \in CredentialTypes
      <4>1. frames[p].cred \in CredIds
        BY <3>3 DEF AloneInv, SendInv, TypeInv, FramesNameCreds, Updating, CredSteps
      <4>2. vault'[frames[p].cred] = vault[frames[p].cred]
        BY <1>1, <2>1, <3>3, <4>1 DEF Unborn, CredentialTypes
      <4> QED BY <3>1, <4>2 DEF AloneFrame
    <3>4. CASE frames[p].step \in Updating /\ vault[frames[p].cred].type \notin CredentialTypes
      BY <3>1, <3>4 DEF AloneFrame
    <3> QED BY <3>2, <3>3, <3>4
  <2> QED BY <1>1, <1>5, <2>2 DEF PostCredential, AloneInv
<1>6. CASE Crash
  BY <1>1, <1>6, IdleAlone DEF Crash, AloneInv
<1>7. CASE UNCHANGED vars
  BY <1>1, <1>7 DEF vars, AloneInv
<1> QED BY <1>3, <1>4, <1>5, <1>6, <1>7 DEF Next

LEMMA InitAlone == Init => AloneInv
  BY InitSends, IdleAlone DEF Init, AloneInv

(* A save changes the fields of the document to what update assigned. *)
LEMMA AloneSaves ==
    ASSUME AloneInv, NEW p \in Requests, UpdateSave(p), Present(frames[p].cred)
    PROVE  vault'[frames[p].cred] = Assigned(vault[frames[p].cred], frames[p].patch)
<1> DEFINE f == frames[p]
           doc == Assigned(f.loaded, f.patch)
<1>1. f.step = "update.save" /\ f.loaded = vault[f.cred]
  BY DEF UpdateSave, At, AloneInv, AloneFrame
<1>2. f.loaded \in CredentialDoc /\ f.patch \in Patch /\ doc \in CredentialDoc /\ doc.type = f.loaded.type
  BY AssignedDoc DEF AloneInv, SendInv, TypeInv, TypeOK, Frame
<1>3. f.patch.data = NoData => doc.data = f.loaded.data
  BY <1>2 DEF Assigned, CredentialDoc
<1>4. vault'[f.cred] = SaveCredential(doc, f.loaded, f.patch, vault[f.cred])
  BY SaveLeaves DEF AloneInv, SendInv
<1> HIDE DEF doc
<1>5. vault'[f.cred] = [type |-> doc.type, n8n |-> doc.n8n, data |-> doc.data]
  BY <1>1, <1>2, <1>3, <1>4 DEF SaveCredential, Written
<1>6. vault'[f.cred] = doc
  BY <1>2, <1>5 DEF CredentialDoc
<1> QED BY <1>1, <1>6 DEF doc

(* With one request at a time, sending a masked listing back changes no field: the
   stripped masks leave the secrets, and the rest is what it was. *)
THEOREM MaskedEditsKeepData == ASSUME OneAtATime PROVE Spec => MaskedEditKeepsData
<1>1. ASSUME AloneInv, [Next]_vars, NEW p \in Requests, Writes(p), frames[p].kind = "edit",
             NEW field \in Fields
      PROVE  TextOf(vault'[frames[p].cred].data, field) = TextOf(vault[frames[p].cred].data, field)
  <2> DEFINE f == frames[p]
             doc == vault[f.cred]
  <2>1. UpdateSave(p) /\ Present(f.cred)
    <3>1. ~Create(p)
      BY <1>1 DEF Create, At, AloneInv, SendInv, SendFrame, Upserts
    <3> QED BY <1>1, <3>1, WriteStep DEF AloneInv, SendInv
  <2>2. f.cred \in CredIds /\ f.patch \in Patch
    BY <1>1, <2>1 DEF UpdateSave, At, AloneInv, SendInv, TypeInv, TypeOK, FramesNameCreds, CredSteps, Frame
  <2>6. doc \in CredentialDoc
    BY <1>1, <2>2 DEF AloneInv, SendInv, TypeInv, TypeOK
  <2>7. f.kind = "edit" /\ f.step = "update.save"
    BY <1>1, <2>1 DEF UpdateSave, At
  <2>3. f.patch.data = MaskSensitiveFields(doc.data)
    BY <1>1, <2>7 DEF AloneInv, AloneFrame, Updating
  <2>4. vault'[f.cred] = Assigned(doc, f.patch)
    BY <1>1, <2>1, AloneSaves
  <2>5. f.patch.data[field] = Plain(MaskText) \/ f.patch.data[field] = doc.data[field]
    BY <2>3 DEF MaskSensitiveFields
  <2> QED BY <1>1, <2>2, <2>4, <2>5, <2>6, AssignedText DEF TextOf
<1>2. AloneInv /\ [Next]_vars
      => [\A p \in Requests :
             Writes(p) /\ frames[p].kind = "edit" =>
               LET c == frames[p].cred
               IN  \A f \in Fields : TextOf(vault'[c].data, f) = TextOf(vault[c].data, f)]_vars
  BY <1>1
<1> QED BY <1>2, InitAlone, NextAlone, PTL DEF Spec, MaskedEditKeepsData

(* With one request at a time a reconnect keeps the chosen spreadsheet. *)
THEOREM ReconnectsKeepSheet == ASSUME OneAtATime PROVE Spec => ReconnectKeepsSheet
<1>1. ASSUME AloneInv, [Next]_vars, NEW p \in Requests, Writes(p), frames[p].kind = "callback",
             At(p, "update.save")
      PROVE  TextOf(vault'[frames[p].cred].data, "spreadsheetId")
             = TextOf(vault[frames[p].cred].data, "spreadsheetId")
  <2> DEFINE f == frames[p]
             doc == vault[f.cred]
  <2>1. UpdateSave(p) /\ Present(f.cred)
    BY <1>1, WriteStep DEF AloneInv, SendInv, Create, At
  <2>2. f.cred \in CredIds /\ doc \in CredentialDoc /\ f.patch \in Patch
    BY <1>1 DEF At, AloneInv, SendInv, TypeInv, TypeOK, FramesNameCreds, CredSteps, Frame
  <2>3. TextOf(f.patch.data, "spreadsheetId") = TextOf(doc.data, "spreadsheetId")
    BY <1>1 DEF At, AloneInv, AloneFrame, Updating
  <2>4. vault'[f.cred] = Assigned(doc, f.patch)
    BY <1>1, <2>1, AloneSaves
  <2> QED BY <2>2, <2>3, <2>4, AssignedText DEF Fields
<1>2. AloneInv /\ [Next]_vars
      => [\A p \in Requests :
             Writes(p) /\ frames[p].kind = "callback" /\ At(p, "update.save") =>
               LET c == frames[p].cred
               IN  TextOf(vault'[c].data, "spreadsheetId") = TextOf(vault[c].data, "spreadsheetId")]_vars
  BY <1>1
<1> QED BY <1>2, InitAlone, NextAlone, PTL DEF Spec, ReconnectKeepsSheet

(* Whether a credential has what its type requires depends on its texts only. *)
LEMMA ValidByTexts ==
    ASSUME NEW type, NEW n8n, NEW data, NEW other,
           \A field \in Fields : TextOf(other, field) = TextOf(data, field)
    PROVE  Valid(type, n8n, other) <=> Valid(type, n8n, data)
<1>1. \A field \in Fields : Has(other, field) <=> Has(data, field)
  BY DEF Has
<1> QED BY <1>1 DEF Valid, Fields

LEMMA SealedValid ==
    ASSUME NEW type, NEW n8n, NEW data \in Data
    PROVE  /\ Valid(type, n8n, EncryptSensitiveFields(data)) <=> Valid(type, n8n, data)
           /\ Valid(type, n8n, DecryptSensitiveFields(data)) <=> Valid(type, n8n, data)
<1>1. \A field \in Fields : TextOf(DecryptSensitiveFields(data), field) = TextOf(data, field)
  BY DEF DecryptSensitiveFields, Plain, TextOf
<1>2. Valid(type, n8n, DecryptSensitiveFields(data)) <=> Valid(type, n8n, data)
  BY <1>1, ValidByTexts
<1>3. Valid(type, n8n, EncryptSensitiveFields(data)) <=> Valid(type, n8n, data)
  BY Encryption, ValidByTexts
<1> QED BY <1>2, <1>3

(* With one request at a time every credential has what its type requires, if those
   from before have it: update validates what it is about to store. *)
THEOREM CredentialsStayUsable ==
    ASSUME OneAtATime, \A doc \in Initial : Valid(doc.type, doc.n8n, doc.data)
    PROVE  Spec => []CredentialsUsable
<1>1. Init => CredentialsUsable
  BY DEF Init, CredentialsUsable, Present, Unborn, CredentialTypes
<1>2. ASSUME AloneInv, CredentialsUsable, [Next]_vars PROVE CredentialsUsable'
  <2> SUFFICES ASSUME NEW c \in CredIds, Present(c)'
               PROVE  Valid(vault'[c].type, vault'[c].n8n, vault'[c].data)
    BY DEF CredentialsUsable
  <2>1. vault \in [CredIds -> CredentialDoc]
    BY <1>2 DEF AloneInv, SendInv, TypeInv, TypeOK
  <2>2. CASE vault'[c] = vault[c]
    BY <1>2, <2>2 DEF CredentialsUsable, Present
  <2>3. ASSUME NEW type, NEW n8n, NEW data \in Data, Valid(type, n8n, data), Insert(type, n8n, data)
        PROVE  Valid(vault'[c].type, vault'[c].n8n, vault'[c].data)
    <3> DEFINE doc == [type |-> type, n8n |-> n8n, data |-> EncryptSensitiveFields(data)]
    <3>1. PICK d \in CredIds : vault' = [vault EXCEPT ![d] = doc]
      BY <2>3 DEF Insert
    <3>2. Valid(doc.type, doc.n8n, doc.data)
      BY <2>3, SealedValid
    <3> HIDE DEF doc
    <3>3. vault'[c] = doc \/ vault'[c] = vault[c]
      BY <2>1, <3>1
    <3> QED BY <2>2, <3>2, <3>3
  <2>4. ASSUME NEW body \in Posts, PostCredential(body)
        PROVE  Valid(vault'[c].type, vault'[c].n8n, vault'[c].data)
    BY <2>3, <2>4, BodiesAssumption DEF PostCredential, CredentialDoc
  <2>5. ASSUME NEW p \in Requests, Create(p)
        PROVE  Valid(vault'[c].type, vault'[c].n8n, vault'[c].data)
    <3> DEFINE f == frames[p]
               type == IF f.kind = "key" THEN "api-key" ELSE "google-oauth"
    <3>1. SendFrame(f) /\ f.step = "create" /\ f.patch.data \in Data
      BY <1>2, <2>5 DEF Create, At, AloneInv, SendInv, TypeInv, TypeOK, Frame, Patch
    <3>2. Valid(type, NoText, f.patch.data)
      BY <3>1, VaultInputsAssumption DEF SendFrame, Upserts, Valid, Has
    <3>3. Insert(type, NoText, f.patch.data)
      BY <2>5 DEF Create
    <3> HIDE DEF type
    <3> QED BY <2>3, <3>1, <3>2, <3>3
  <2>6. ASSUME NEW p \in Requests, UpdateSave(p)
        PROVE  Valid(vault'[c].type, vault'[c].n8n, vault'[c].data)
    <3> DEFINE f == frames[p]
    <3>1. CASE ~(Present(f.cred) /\ c = f.cred)
      <4>1. vault'[c] = vault[c]
        BY <2>1, <2>6, <3>1, SaveLeaves DEF UpdateSave
      <4> QED BY <2>2, <4>1
    <3>2. CASE Present(f.cred) /\ c = f.cred
      <4> DEFINE doc == Assigned(vault[c], f.patch)
      <4>1. vault'[c] = doc
        BY <1>2, <2>6, <3>2, AloneSaves
      <4>2. Acceptable(doc)
        BY <1>2, <2>6, <3>2 DEF UpdateSave, At, AloneInv, AloneFrame
      <4>3. doc \in CredentialDoc
        BY <1>2, <2>1, AssignedDoc DEF AloneInv, SendInv, TypeInv, TypeOK, Frame
      <4> HIDE DEF doc
      <4> QED BY <4>1, <4>2, <4>3, SealedValid DEF Acceptable, CredentialDoc
    <3> QED BY <3>1, <3>2
  <2>7. ASSUME NEW p \in Requests, RemoveDelete(p) PROVE vault'[c] = vault[c]
    <3>1. vault'[c] = vault[c] \/ vault'[c] = Removed
      BY <2>1, <2>7 DEF RemoveDelete
    <3> QED BY <3>1 DEF Present, Removed, CredentialTypes
  <2>8. ASSUME NEW p \in Requests, Start(p) PROVE vault' = vault
    BY <2>8 DEF Start, PatchCredential, EditListed, RemoveCredential, EnterKey, Callback,
       ChooseSheet, Disconnect
  <2>9. ASSUME NEW p \in Requests, Continue(p)
        PROVE  Valid(vault'[c].type, vault'[c].n8n, vault'[c].data)
    <3>1. CASE UpdateLoad(p) \/ UpsertList(p) \/ Revoke(p) \/ RemoveFind(p)
      BY <2>2, <3>1 DEF UpdateLoad, UpsertList, Revoke, RemoveFind
    <3> QED BY <2>2, <2>5, <2>6, <2>7, <2>9, <3>1 DEF Continue
  <2> QED BY <1>2, <2>2, <2>4, <2>8, <2>9 DEF Next, Crash, vars
<1> QED BY <1>1, <1>2, InitAlone, NextAlone, PTL DEF Spec

(* The connections are one at most, and none when a callback is about to create. *)
SingleInv ==
    /\ AloneInv
    /\ \A c, d \in List("google-oauth") : c = d
    /\ \A p \in Requests : At(p, "create") /\ frames[p].kind = "callback" => List("google-oauth") = {}

LEMMA ExistingNone ==
    ASSUME TypeInv, NEW email, Existing(email) = NoCred
    PROVE  List("google-oauth") = {}
<1> DEFINE creds == List("google-oauth")
           same == SameEmail(creds, email)
<1>1. creds \in SUBSET CredIds /\ same \in SUBSET CredIds
  BY DEF List, SameEmail
<1> HIDE DEF creds, same
<1>2. ASSUME same # {} PROVE Latest(same) \in CredIds
  BY <1>1, <1>2, LatestOfSome DEF TypeInv, TypeOK
<1>3. ASSUME creds # {} PROVE Latest(creds) \in CredIds
  BY <1>1, <1>3, LatestOfSome DEF TypeInv, TypeOK
<1> QED BY <1>2, <1>3, VaultInputsAssumption DEF Existing, creds, same

(* How a step changes what is connected. *)
LEMMA ListStep ==
    ASSUME TypeInv, [Next]_vars, \A body \in Posts : body.type # "google-oauth"
    PROVE  \/ List("google-oauth")' \subseteq List("google-oauth")
           \/ \E p \in Requests, c \in CredIds :
                 /\ Create(p) /\ frames[p].kind # "key"
                 /\ List("google-oauth")' \subseteq List("google-oauth") \cup {c}
<1>1. vault \in [CredIds -> CredentialDoc]
  BY DEF TypeInv, TypeOK
<1>2. ASSUME NEW type, NEW n8n, NEW data, Insert(type, n8n, data)
      PROVE  \E c \in CredIds : vault[c].type = "unborn" /\ vault'[c].type = type
                               /\ \A d \in CredIds \ {c} : vault'[d] = vault[d]
  BY <1>1, <1>2 DEF Insert, Unborn
<1>3. CASE vault' = vault
  BY <1>3 DEF List
<1>4. ASSUME NEW body \in Posts, PostCredential(body)
      PROVE  List("google-oauth")' \subseteq List("google-oauth")
  <2>1. Insert(body.type, body.n8n, body.data)
    BY <1>4 DEF PostCredential
  <2> QED BY <1>2, <2>1 DEF List
<1>5. ASSUME NEW p \in Requests, Create(p)
      PROVE  \E c \in CredIds : List("google-oauth")' \subseteq
                 IF frames[p].kind = "key" THEN List("google-oauth") ELSE List("google-oauth") \cup {c}
  <2> DEFINE type == IF frames[p].kind = "key" THEN "api-key" ELSE "google-oauth"
  <2>1. PICK c \in CredIds : /\ vault[c].type = "unborn" /\ vault'[c].type = type
                             /\ \A d \in CredIds \ {c} : vault'[d] = vault[d]
    BY <1>2, <1>5 DEF Create
  <2> QED BY <2>1 DEF List
<1>6. ASSUME NEW p \in Requests, UpdateSave(p)
      PROVE  List("google-oauth")' \subseteq List("google-oauth")
  <2>1. CASE Present(frames[p].cred)
    <3>1. ASSUME NEW c \in CredIds PROVE vault'[c].type = vault[c].type
      BY <1>1, <1>6, <2>1, SaveLeaves
    <3> QED BY <3>1 DEF List
  <2>2. CASE ~Present(frames[p].cred)
    BY <1>3, <1>6, <2>2 DEF UpdateSave, List
  <2> QED BY <2>1, <2>2
<1>7. ASSUME NEW p \in Requests, RemoveDelete(p)
      PROVE  List("google-oauth")' \subseteq List("google-oauth")
  <2>1. \A c \in CredIds : vault'[c] = vault[c] \/ vault'[c] = Removed
    BY <1>1, <1>7 DEF RemoveDelete
  <2> QED BY <2>1 DEF List, Removed
<1>8. ASSUME NEW p \in Requests, Start(p) PROVE vault' = vault
  BY <1>8 DEF Start, PatchCredential, EditListed, RemoveCredential, EnterKey, Callback,
     ChooseSheet, Disconnect
<1>9. ASSUME NEW p \in Requests, Continue(p)
      PROVE  \/ List("google-oauth")' \subseteq List("google-oauth")
             \/ \E c \in CredIds : /\ Create(p) /\ frames[p].kind # "key"
                                    /\ List("google-oauth")' \subseteq List("google-oauth") \cup {c}
  <2>1. CASE UpdateLoad(p) \/ UpsertList(p) \/ Revoke(p) \/ RemoveFind(p)
    BY <1>3, <2>1 DEF UpdateLoad, UpsertList, Revoke, RemoveFind, List
  <2> QED BY <1>5, <1>6, <1>7, <1>9, <2>1 DEF Continue
<1> QED BY <1>3, <1>4, <1>8, <1>9 DEF Next, Crash, vars

(* Only a callback that found no connection comes to create one. *)
LEMMA CreatorFound ==
    ASSUME SendInv, [Next]_vars, NEW p \in Requests, At(p, "create")', frames'[p].kind = "callback"
    PROVE  (At(p, "create") /\ frames[p].kind = "callback") \/ (vault' = vault /\ List("google-oauth") = {})
<1>1. TypeInv /\ frames \in [Requests -> Frame] /\ \A q \in Requests : frames[q] \in Frame
  BY DEF SendInv, TypeInv, TypeOK
<1>2. CASE frames'[p] = frames[p]
  BY <1>2 DEF At
<1>3. ASSUME NEW q \in Requests, NEW f, Become(q, f), f.step = "create" => f.kind # "callback"
      PROVE  frames'[p] = frames[p]
  BY <1>1, <1>3 DEF Become, At
<1>4. ASSUME NEW q \in Requests, Return(q) PROVE frames'[p] = frames[p]
  BY <1>3, <1>4 DEF Return, Idle
<1>5. ASSUME NEW q \in Requests, NEW f \in Frame, Loaded(q, f) PROVE frames'[p] = frames[p]
  <2>1. [f EXCEPT !.step = "create"].kind = f.kind
        /\ [f EXCEPT !.step = "update.save", !.loaded = vault[f.cred]].step = "update.save"
    BY DEF Frame
  <2> QED BY <1>3, <1>4, <1>5, <2>1 DEF Loaded, Throw
<1>6. ASSUME NEW q \in Requests, Start(q) PROVE frames'[p] = frames[p]
  <2>1. ASSUME NEW c \in CredIds, NEW patch \in Patches, PatchCredential(q, c, patch)
        PROVE  frames'[p] = frames[p]
    <3>1. [Idle EXCEPT !.kind = "patch", !.cred = c, !.patch = patch] \in Frame
      BY IdleProper, BodiesAssumption DEF Proper, Frame, Kinds
    <3> QED BY <1>5, <2>1, <3>1 DEF PatchCredential
  <2>2. ASSUME NEW c, EditListed(q, c) PROVE frames'[p] = frames[p]
    BY <1>3, <2>2 DEF EditListed, Idle
  <2>3. ASSUME NEW c, RemoveCredential(q, c) PROVE frames'[p] = frames[p]
    BY <1>3, <2>3 DEF RemoveCredential, Idle
  <2>4. ASSUME NEW key, NEW c, EnterKey(q, key, c) PROVE frames'[p] = frames[p]
    BY <1>3, <2>4 DEF EnterKey, Idle
  <2>5. ASSUME NEW g, NEW a, NEW refresh, Callback(q, g, a, refresh) PROVE frames'[p] = frames[p]
    BY <1>3, <2>5 DEF Callback, Idle
  <2>6. ASSUME NEW sheet, ChooseSheet(q, sheet) PROVE frames'[p] = frames[p]
    BY <1>3, <2>6 DEF ChooseSheet, Idle
  <2>7. CASE Disconnect(q)
    BY <1>3, <2>7 DEF Disconnect, Idle
  <2> QED BY <1>6, <2>1, <2>2, <2>3, <2>4, <2>5, <2>6, <2>7 DEF Start
<1>7. ASSUME NEW q \in Requests, UpsertList(q)
      PROVE  frames'[p] = frames[p] \/ (vault' = vault /\ List("google-oauth") = {})
  <2> DEFINE f == frames[q]
             email == TextOf(f.patch.data, "email")
             data == UpsertData(f.patch.data, Previous(email))
             g == [f EXCEPT !.step = IF Existing(email) = NoCred THEN "create" ELSE "update.load",
                            !.cred = Existing(email), !.patch.data = data]
  <2>1. CASE Existing(email) = NoCred
    BY <1>1, <1>7, <2>1, ExistingNone DEF UpsertList
  <2>2. CASE Existing(email) # NoCred
    <3> HIDE DEF data
    <3>1. g.step = "update.load"
      BY <1>1, <2>2 DEF Frame
    <3>2. Throw(q) \/ Become(q, g)
      BY <1>7 DEF UpsertList, Previous, data
    <3> HIDE DEF g
    <3> QED BY <1>3, <1>4, <3>1, <3>2 DEF Throw
  <2> QED BY <2>1, <2>2
<1>8. ASSUME NEW q \in Requests, Revoke(q) \/ RemoveFind(q) \/ RemoveDelete(q)
      PROVE  frames'[p] = frames[p]
  <2> DEFINE f == frames[q]
  <2>1. /\ [f EXCEPT !.step = "remove.delete"].step = "remove.delete"
        /\ [f EXCEPT !.step = "disconnect.revoke", !.items = f.items, !.cred = NoCred].step = "disconnect.revoke"
        /\ \A item : [f EXCEPT !.step = "remove.find", !.cred = item.cred, !.items = @ \ {item}].step = "remove.find"
    BY <1>1 DEF Frame
  <2>2. CASE Revoke(q)
    BY <1>3, <2>1, <2>2 DEF Revoke
  <2>3. CASE RemoveFind(q)
    BY <1>3, <1>4, <2>1, <2>3 DEF RemoveFind, Goto, Throw
  <2>4. CASE RemoveDelete(q)
    BY <1>3, <1>4, <2>1, <2>4 DEF RemoveDelete, NextItem
  <2> QED BY <1>8, <2>2, <2>3, <2>4
<1>9. ASSUME NEW q \in Requests, Continue(q)
      PROVE  frames'[p] = frames[p] \/ (vault' = vault /\ List("google-oauth") = {})
  BY <1>1, <1>4, <1>5, <1>7, <1>8, <1>9 DEF Continue, Create, UpdateLoad, UpdateSave, Throw
<1>10. ~Crash
  BY DEF Crash, At, Idle
<1> QED BY <1>2, <1>6, <1>9, <1>10 DEF Next, PostCredential, vars

(* With one request at a time consents never add up to a second connection, if no
   POST makes one: a callback creates one only where it found none. *)
THEOREM ConnectionsStaySingle ==
    ASSUME OneAtATime, \A body \in Posts : body.type # "google-oauth"
    PROVE  Spec => []OneConnection
<1>1. Init => SingleInv
  <2> SUFFICES ASSUME Init PROVE SingleInv
    OBVIOUS
  <2>1. \A c, d \in List("google-oauth") : c = d
    BY DEF Init, List, Unborn
  <2>2. \A p \in Requests : ~At(p, "create")
    BY DEF Init, At, Idle
  <2> QED BY <2>1, <2>2, InitAlone DEF SingleInv
<1>2. ASSUME SingleInv, [Next]_vars PROVE SingleInv'
  <2>1. AloneInv'
    BY <1>2, NextAlone DEF SingleInv
  <2>2. List("google-oauth")' \subseteq List("google-oauth")
        \/ \E p \in Requests, c \in CredIds :
              Create(p) /\ frames[p].kind # "key" /\ List("google-oauth")' \subseteq {c}
    <3>1. ASSUME NEW p \in Requests, Create(p), frames[p].kind # "key" PROVE List("google-oauth") = {}
      BY <1>2, <3>1 DEF SingleInv, AloneInv, SendInv, SendFrame, Create, At, Upserts
    <3> QED BY <1>2, <3>1, ListStep DEF SingleInv, AloneInv, SendInv
  <2>3. \A c, d \in List("google-oauth")' : c = d
    BY <1>2, <2>2 DEF SingleInv
  <2>4. ASSUME NEW p \in Requests, At(p, "create")', frames'[p].kind = "callback"
        PROVE  List("google-oauth")' = {}
    <3>1. CASE vault' = vault /\ List("google-oauth") = {}
      BY <3>1 DEF List
    <3>2. CASE At(p, "create") /\ frames[p].kind = "callback"
      <4>1. List("google-oauth") = {}
        BY <1>2, <3>2 DEF SingleInv
      <4>2. ASSUME NEW q \in Requests, Create(q) PROVE FALSE
        <5>1. q = p /\ frames'[p] = Idle
          BY <1>2, <4>2 DEF OneAtATime, Create, Return, Become, SingleInv, AloneInv, SendInv, TypeInv, TypeOK
        <5> QED BY <2>4, <5>1 DEF At, Idle
      <4> QED BY <2>2, <4>1, <4>2
    <3> QED BY <1>2, <2>4, <3>1, <3>2, CreatorFound DEF SingleInv, AloneInv
  <2> QED BY <2>1, <2>3, <2>4 DEF SingleInv
<1>3. SingleInv => OneConnection
  <2> SUFFICES ASSUME SingleInv PROVE Cardinality(List("google-oauth")) <= 1
    BY DEF OneConnection
  <2>1. CASE List("google-oauth") = {}
    BY <2>1, FS_EmptySet
  <2>2. CASE List("google-oauth") # {}
    <3>1. PICK c \in CredIds : List("google-oauth") = {c}
      BY <2>2 DEF SingleInv, List
    <3>2. Cardinality(List("google-oauth")) = 1
      BY <3>1, FS_Singleton
    <3> QED BY <3>2
  <2> QED BY <2>1, <2>2
<1> QED BY <1>1, <1>2, <1>3, PTL DEF Spec

------------------------------------------------------------------------------
(* The credential written last *)

(* No two credentials share a rank above 0. *)
RankInv == \A c, d \in CredIds : updatedAt[c] = updatedAt[d] /\ updatedAt[c] > 0 => c = d

(* A handler of the connection works on a connection, or on what is left of one; a
   save finds the type it loaded. *)
StatusFrame(docs, f) ==
    /\ f.kind \in {"callback", "sheet"} /\ f.cred # NoCred =>
          docs[f.cred].type \in {"google-oauth", "removed"}
    /\ f.step = "update.save" =>
          docs[f.cred].type \in {"removed", f.loaded.type} /\ docs[f.cred].type # "unborn"

StatusInv == SendInv /\ RankInv /\ \A p \in Requests : StatusFrame(vault, frames[p])

(* The credential that is touched becomes the newest, alone at the top rank. *)
LEMMA TouchedRanks ==
    ASSUME TypeInv, RankInv, NEW c \in CredIds
    PROVE  /\ \A d, e \in CredIds : Touched(c)[d] = Touched(c)[e] /\ Touched(c)[d] > 0 => d = e
           /\ \A d \in CredIds : Touched(c)[d] <= Touched(c)[c]
           /\ \A d \in CredIds \ {c} : ~(Touched(c)[c] <= Touched(c)[d])
<1> DEFINE N == Cardinality(CredIds)
           new == Touched(c)
<1>1. N \in Nat /\ N # 0
  BY VaultSizeAssumption, FS_CardinalityType, FS_EmptySet
<1>2. \A d \in CredIds : updatedAt[d] \in 0..N
  BY DEF TypeInv, TypeOK
<1>3. /\ new[c] = N
      /\ \A d \in CredIds \ {c} : new[d] = IF updatedAt[d] > updatedAt[c] THEN updatedAt[d] - 1 ELSE updatedAt[d]
  BY DEF Touched
<1>4. \A d, e \in CredIds : updatedAt[d] = updatedAt[e] /\ updatedAt[d] > 0 => d = e
  BY DEF RankInv
<1> HIDE DEF N, new
<1>5. ASSUME NEW d \in CredIds \ {c} PROVE new[d] \in Nat /\ new[d] < N
  <2>1. updatedAt[d] \in 0..N /\ updatedAt[c] \in 0..N /\ ~(updatedAt[d] = updatedAt[c] /\ updatedAt[d] > 0)
    BY <1>2, <1>4
  <2> QED BY <1>1, <1>3, <2>1
<1>6. ASSUME NEW d \in CredIds \ {c}, NEW e \in CredIds \ {c}, new[d] = new[e], new[d] > 0 PROVE d = e
  <2>1. /\ updatedAt[d] \in 0..N /\ updatedAt[e] \in 0..N /\ updatedAt[c] \in 0..N
        /\ ~(updatedAt[d] = updatedAt[c] /\ updatedAt[d] > 0)
        /\ ~(updatedAt[e] = updatedAt[c] /\ updatedAt[e] > 0)
        /\ (updatedAt[d] = updatedAt[e] /\ updatedAt[d] > 0 => d = e)
    BY <1>2, <1>4
  <2> QED BY <1>1, <1>3, <1>6, <2>1
<1>7. \A d, e \in CredIds : new[d] = new[e] /\ new[d] > 0 => d = e
  BY <1>1, <1>3, <1>5, <1>6
<1>8. \A d \in CredIds : new[d] <= new[c]
  BY <1>1, <1>3, <1>5
<1>9. \A d \in CredIds \ {c} : ~(new[c] <= new[d])
  BY <1>1, <1>3, <1>5
<1> QED BY <1>7, <1>8, <1>9 DEF new

(* The one that nothing else reaches is the latest. *)
LEMMA Newest ==
    ASSUME NEW creds, NEW rank, NEW c \in creds, \A d \in creds : rank[d] <= rank[c],
           \A d \in creds \ {c} : ~(rank[c] <= rank[d])
    PROVE  (CHOOSE x \in creds : \A d \in creds : rank[d] <= rank[x]) = c
  OBVIOUS

LEMMA LastWrite ==
    ASSUME TypeInv, RankInv, NEW c \in CredIds, updatedAt' = Touched(c), vault'[c].type = "google-oauth"
    PROVE  Status' = [connected |-> Valid("google-oauth", vault'[c].n8n, vault'[c].data),
                      email |-> TextOf(vault'[c].data, "email"),
                      sheet |-> TextOf(vault'[c].data, "spreadsheetId")]
<1>1. c \in List("google-oauth")' /\ List("google-oauth")' \subseteq CredIds
  BY DEF List
<1>2. Latest(List("google-oauth"))' = c
  <2> DEFINE creds == List("google-oauth")'
             rank == updatedAt'
  <2>1. /\ \A d \in creds : rank[d] <= rank[c]
        /\ \A d \in creds \ {c} : ~(rank[c] <= rank[d])
    BY <1>1, TouchedRanks
  <2>2. Latest(List("google-oauth"))' = CHOOSE x \in creds : \A d \in creds : rank[d] <= rank[x]
    BY DEF Latest
  <2> HIDE DEF creds, rank
  <2> QED BY <1>1, <2>1, <2>2, Newest DEF creds
<1>3. Primary' = c /\ c # NoCred
  BY <1>1, <1>2, VaultInputsAssumption DEF Primary
<1> QED BY <1>3 DEF Status

(* A document that exists keeps its type, or is removed. *)
LEMMA Evolves ==
    ASSUME SendInv, [Next]_vars, NEW c \in CredIds, vault[c].type # "unborn"
    PROVE  vault'[c].type \in {"removed", vault[c].type}
<1>1. vault \in [CredIds -> CredentialDoc] /\ TypeInv
  BY DEF SendInv, TypeInv, TypeOK
<1>2. CASE vault' = vault
  BY <1>2
<1>3. ASSUME NEW type, NEW n8n, NEW data, Insert(type, n8n, data) PROVE vault'[c] = vault[c]
  BY <1>1, <1>3 DEF Insert, Unborn
<1>4. ASSUME NEW p \in Requests, UpdateSave(p), Present(frames[p].cred), c = frames[p].cred
      PROVE  vault'[c].type = vault[c].type
  BY <1>1, <1>4, SaveLeaves
<1>5. ASSUME NEW p \in Requests, UpdateSave(p), ~(Present(frames[p].cred) /\ c = frames[p].cred)
      PROVE  vault'[c] = vault[c]
  BY <1>1, <1>5, SaveLeaves DEF UpdateSave
<1>6. ASSUME NEW p \in Requests, RemoveDelete(p) PROVE vault'[c] = vault[c] \/ vault'[c].type = "removed"
  BY <1>1, <1>6 DEF RemoveDelete, Removed
<1>7. ASSUME NEW p \in Requests, Start(p) PROVE vault' = vault
  BY <1>7 DEF Start, PatchCredential, EditListed, RemoveCredential, EnterKey, Callback,
     ChooseSheet, Disconnect
<1>8. ASSUME NEW p \in Requests, Continue(p) PROVE vault'[c].type \in {"removed", vault[c].type}
  <2>1. CASE UpdateLoad(p) \/ UpsertList(p) \/ Revoke(p) \/ RemoveFind(p)
    BY <2>1 DEF UpdateLoad, UpsertList, Revoke, RemoveFind
  <2> QED BY <1>3, <1>4, <1>5, <1>6, <1>8, <2>1 DEF Continue, Create
<1> QED BY <1>2, <1>3, <1>7, <1>8 DEF Next, PostCredential, Crash, vars

LEMMA IdleStatus == ASSUME NEW docs PROVE StatusFrame(docs, Idle)
  BY DEF StatusFrame, Idle

LEMMA OtherStatus ==
    ASSUME NEW docs, NEW f, f.step # "update.save", f.kind \notin {"callback", "sheet"} \/ f.cred = NoCred
    PROVE  StatusFrame(docs, f)
  BY DEF StatusFrame

LEMMA LoadedStatus ==
    ASSUME NEW p \in Requests, NEW f \in Frame, Loaded(p, f),
           f.kind \in {"callback", "sheet"} => vault[f.cred].type \in {"google-oauth", "removed"}
    PROVE  \E g : Become(p, g) /\ StatusFrame(vault, g)
<1>1. CASE Become(p, [f EXCEPT !.step = "create"]) /\ f.kind = "key"
  <2> DEFINE g == [f EXCEPT !.step = "create"]
  <2>1. g.step = "create" /\ g.kind = f.kind /\ Become(p, g)
    BY <1>1 DEF Frame
  <2> HIDE DEF g
  <2> QED BY <1>1, <2>1, OtherStatus
<1>2. CASE Throw(p)
  BY <1>2, IdleStatus DEF Throw, Return
<1>3. CASE /\ Present(f.cred) /\ Acceptable(Assigned(vault[f.cred], f.patch))
           /\ Become(p, [f EXCEPT !.step = "update.save", !.loaded = vault[f.cred]])
  <2> DEFINE g == [f EXCEPT !.step = "update.save", !.loaded = vault[f.cred]]
  <2>1. /\ g.kind = f.kind /\ g.patch = f.patch /\ g.cred = f.cred
        /\ g.step = "update.save" /\ g.loaded = vault[f.cred] /\ Become(p, g)
    BY <1>3 DEF Frame
  <2> HIDE DEF g
  <2>2. StatusFrame(vault, g)
    BY <1>3, <2>1 DEF StatusFrame, Present, CredentialTypes
  <2> QED BY <2>1, <2>2
<1> QED BY <1>1, <1>2, <1>3 DEF Loaded

LEMMA StartStatus ==
    ASSUME StatusInv, NEW p \in Requests, Start(p)
    PROVE  \E g : Become(p, g) /\ StatusFrame(vault, g)
<1>1. ASSUME NEW c \in CredIds, NEW patch \in Patches, PatchCredential(p, c, patch)
      PROVE  \E g : Become(p, g) /\ StatusFrame(vault, g)
  <2> DEFINE f == [Idle EXCEPT !.kind = "patch", !.cred = c, !.patch = patch]
  <2>1. f \in Frame /\ f.kind = "patch"
    BY IdleProper, BodiesAssumption DEF Proper, Frame, Kinds, Idle
  <2>2. Loaded(p, f)
    BY <1>1 DEF PatchCredential
  <2> HIDE DEF f
  <2> QED BY <2>1, <2>2, LoadedStatus
<1>2. ASSUME NEW f, Become(p, f), f.step # "update.save", f.kind \notin {"callback", "sheet"} \/ f.cred = NoCred
      PROVE  \E g : Become(p, g) /\ StatusFrame(vault, g)
  BY <1>2, OtherStatus
<1>3. ASSUME NEW c, EditListed(p, c) PROVE \E g : Become(p, g) /\ StatusFrame(vault, g)
  BY <1>2, <1>3 DEF EditListed, Idle
<1>4. ASSUME NEW c, RemoveCredential(p, c) PROVE \E g : Become(p, g) /\ StatusFrame(vault, g)
  BY <1>2, <1>4 DEF RemoveCredential, Idle
<1>5. ASSUME NEW key, NEW c, EnterKey(p, key, c) PROVE \E g : Become(p, g) /\ StatusFrame(vault, g)
  BY <1>2, <1>5 DEF EnterKey, Idle
<1>6. ASSUME NEW g, NEW a, NEW refresh, Callback(p, g, a, refresh)
      PROVE  \E h : Become(p, h) /\ StatusFrame(vault, h)
  BY <1>2, <1>6 DEF Callback, Idle
<1>7. CASE Disconnect(p)
  BY <1>2, <1>7 DEF Disconnect, Idle
<1>8. ASSUME NEW sheet, ChooseSheet(p, sheet) PROVE \E g : Become(p, g) /\ StatusFrame(vault, g)
  <2> DEFINE c == Latest(List("google-oauth"))
             data == With(DecryptSensitiveFields(vault[c].data), "spreadsheetId", sheet)
             f == [Idle EXCEPT !.step = "update.load", !.kind = "sheet", !.cred = c, !.patch.data = data]
  <2>1. List("google-oauth") \in SUBSET CredIds /\ List("google-oauth") # {}
    BY <1>8 DEF List, ChooseSheet
  <2>2. c \in List("google-oauth")
    BY <2>1, LatestOfSome DEF StatusInv, SendInv, TypeInv, TypeOK
  <2>3. vault[c].type = "google-oauth"
    BY <2>2 DEF List
  <2>4. Become(p, f)
    BY <1>8 DEF ChooseSheet
  <2> HIDE DEF data, c
  <2>5. f.kind = "sheet" /\ f.step = "update.load" /\ f.cred = c
    BY DEF Idle
  <2> HIDE DEF f
  <2> QED BY <2>3, <2>4, <2>5 DEF StatusFrame
<1> QED BY <1>1, <1>3, <1>4, <1>5, <1>6, <1>7, <1>8 DEF Start

LEMMA ReadStatus ==
    ASSUME StatusInv, NEW p \in Requests, UpdateLoad(p) \/ UpsertList(p) \/ Revoke(p) \/ RemoveFind(p)
    PROVE  \E g : Become(p, g) /\ StatusFrame(vault, g)
<1> DEFINE f == frames[p]
<1>1. f \in Frame /\ f.patch \in Patch /\ SendFrame(f) /\ StatusFrame(vault, f) /\ f.step # "idle"
  BY DEF StatusInv, SendInv, TypeInv, TypeOK, Frame, UpdateLoad, UpsertList, Revoke, RemoveFind, At
<1>2. CASE Throw(p)
  BY <1>2, IdleStatus DEF Return, Throw
<1>3. CASE UpdateLoad(p)
  <2>1. f.cred \in CredIds
    BY <1>3 DEF UpdateLoad, At, StatusInv, SendInv, TypeInv, FramesNameCreds, CredSteps
  <2> QED BY <1>1, <1>3, <2>1, LoadedStatus, VaultInputsAssumption DEF UpdateLoad, StatusFrame
<1>4. CASE UpsertList(p)
  <2> DEFINE email == TextOf(f.patch.data, "email")
             c == Existing(email)
             data == UpsertData(f.patch.data, Previous(email))
             g == [f EXCEPT !.step = IF c = NoCred THEN "create" ELSE "update.load",
                            !.cred = c, !.patch.data = data]
  <2>1. c # NoCred => vault[c].type = "google-oauth"
    BY ExistingListed DEF StatusInv, SendInv, List
  <2>2. Throw(p) \/ Become(p, g)
    BY <1>4 DEF UpsertList, Previous
  <2> HIDE DEF data, c
  <2>3. g.step # "update.save" /\ g.cred = c
    BY <1>1 DEF Frame
  <2> HIDE DEF g
  <2> QED BY <1>2, <2>1, <2>2, <2>3 DEF StatusFrame
<1>5. CASE Revoke(p)
  <2>1. PICK item \in f.items :
           Become(p, [f EXCEPT !.step = "remove.find", !.cred = item.cred, !.items = @ \ {item}])
    BY <1>5 DEF Revoke
  <2> DEFINE g == [f EXCEPT !.step = "remove.find", !.cred = item.cred, !.items = @ \ {item}]
  <2>2. g.kind = f.kind /\ g.step = "remove.find" /\ Become(p, g)
    BY <1>1, <2>1 DEF Frame
  <2>3. f.kind = "disconnect"
    BY <1>1, <1>5 DEF Revoke, At, SendFrame, LoopFrame
  <2> HIDE DEF g
  <2> QED BY <2>2, <2>3, OtherStatus
<1>6. CASE RemoveFind(p)
  <2> DEFINE g == [f EXCEPT !.step = "remove.delete"]
  <2>1. g.kind = f.kind /\ g.step = "remove.delete" /\ (Become(p, g) \/ Throw(p))
    BY <1>1, <1>6 DEF Frame, RemoveFind, Goto
  <2>2. f.kind = "disconnect"
    BY <1>1, <1>6 DEF RemoveFind, At, SendFrame, LoopFrame
  <2> HIDE DEF g
  <2> QED BY <1>2, <2>1, <2>2, OtherStatus
<1> QED BY <1>3, <1>4, <1>5, <1>6

LEMMA WriteStatus ==
    ASSUME SendInv, NEW p \in Requests, Create(p) \/ UpdateSave(p) \/ RemoveDelete(p), NEW docs
    PROVE  \E g : Become(p, g) /\ StatusFrame(docs, g)
<1> DEFINE g == [frames[p] EXCEPT !.step = "disconnect.revoke", !.items = frames[p].items, !.cred = NoCred]
<1>1. g.step = "disconnect.revoke" /\ g.cred = NoCred
  BY DEF SendInv, TypeInv, TypeOK, Frame
<1>2. Return(p) \/ Become(p, g)
  BY DEF Create, UpdateSave, Throw, RemoveDelete, NextItem
<1> HIDE DEF g
<1> QED BY <1>1, <1>2, OtherStatus, IdleStatus DEF Return

LEMMA NextStatus == StatusInv /\ [Next]_vars => StatusInv'
<1> SUFFICES ASSUME StatusInv, [Next]_vars PROVE StatusInv'
  OBVIOUS
<1>1. /\ SendInv' /\ vault \in [CredIds -> CredentialDoc] /\ frames \in [Requests -> Frame]
      /\ TypeInv /\ RankInv /\ SendInv
  BY NextSends DEF StatusInv, SendInv, TypeInv, TypeOK
<1>2. RankInv'
  <2>1. CASE updatedAt' = updatedAt
    BY <1>1, <2>1 DEF RankInv
  <2>2. ASSUME NEW c \in CredIds, updatedAt' = Touched(c) PROVE RankInv'
    BY <1>1, <2>2, TouchedRanks DEF RankInv
  <2>3. ASSUME NEW p \in Requests, Start(p) PROVE updatedAt' = updatedAt
    BY <2>3 DEF Start, PatchCredential, EditListed, RemoveCredential, EnterKey, Callback,
       ChooseSheet, Disconnect
  <2>4. ASSUME NEW p \in Requests, UpdateSave(p) PROVE RankInv'
    <3>1. frames[p].cred \in CredIds
      BY <1>1, <2>4 DEF UpdateSave, At, TypeInv, FramesNameCreds, CredSteps
    <3> QED BY <2>1, <2>2, <2>4, <3>1 DEF UpdateSave
  <2>5. ASSUME NEW p \in Requests, Continue(p) PROVE RankInv'
    <3>1. CASE UpdateLoad(p) \/ UpsertList(p) \/ Revoke(p) \/ RemoveFind(p) \/ RemoveDelete(p)
      BY <2>1, <3>1 DEF UpdateLoad, UpsertList, Revoke, RemoveFind, RemoveDelete
    <3> QED BY <2>2, <2>4, <2>5, <3>1 DEF Continue, Create, Insert
  <2> QED BY <2>1, <2>2, <2>3, <2>5 DEF Next, PostCredential, Insert, Crash, vars
<1>3. ASSUME NEW p \in Requests PROVE StatusFrame(vault', frames[p])
  <2>1. StatusFrame(vault, frames[p]) /\ frames[p].cred \in CredIds \cup {NoCred}
        /\ (frames[p].step = "update.save" => frames[p].cred \in CredIds)
    BY <1>1 DEF StatusInv, TypeInv, FramesNameCreds, CredSteps, Frame
  <2>2. ASSUME frames[p].cred \in CredIds, vault[frames[p].cred].type # "unborn"
        PROVE  vault'[frames[p].cred].type \in {"removed", vault[frames[p].cred].type}
    BY <1>1, <2>2, Evolves
  <2>3. ASSUME frames[p].cred \in CredIds, vault[frames[p].cred].type = "removed"
        PROVE  vault'[frames[p].cred].type = "removed"
    BY <1>1, <2>3, VaultStep DEF Step
  <2> QED BY <2>1, <2>2, <2>3 DEF StatusFrame
<1>4. ASSUME NEW p \in Requests, \E g : Become(p, g) /\ StatusFrame(vault', g) PROVE StatusInv'
  BY <1>1, <1>2, <1>3, <1>4 DEF StatusInv, Become
<1>5. ASSUME NEW p \in Requests, Start(p) PROVE StatusInv'
  <2>1. vault' = vault
    BY <1>5 DEF Start, PatchCredential, EditListed, RemoveCredential, EnterKey, Callback,
       ChooseSheet, Disconnect
  <2> QED BY <1>4, <1>5, <2>1, StartStatus
<1>6. ASSUME NEW p \in Requests, Continue(p) PROVE StatusInv'
  <2>1. CASE UpdateLoad(p) \/ UpsertList(p) \/ Revoke(p) \/ RemoveFind(p)
    <3>1. vault' = vault
      BY <2>1 DEF UpdateLoad, UpsertList, Revoke, RemoveFind
    <3> QED BY <1>4, <2>1, <3>1, ReadStatus
  <2> QED BY <1>1, <1>4, <1>6, <2>1, WriteStatus DEF Continue
<1>7. CASE frames' = frames
  BY <1>1, <1>2, <1>3, <1>7 DEF StatusInv
<1>8. CASE Crash
  BY <1>1, <1>2, <1>8, IdleStatus DEF Crash, StatusInv
<1> QED BY <1>5, <1>6, <1>7, <1>8 DEF Next, PostCredential, vars

LEMMA InitStatus == Init => StatusInv
<1> SUFFICES ASSUME Init PROVE StatusInv
  OBVIOUS
<1>1. RankInv
  BY DEF Init, RankInv
<1>2. \A p \in Requests : StatusFrame(vault, frames[p])
  BY IdleStatus DEF Init
<1> QED BY <1>1, <1>2, InitSends DEF StatusInv

(* What a callback creates is shown. *)
LEMMA CreateShows ==
    ASSUME StatusInv, NEW p \in Requests, Create(p), frames[p].kind = "callback"
    PROVE  Status'.connected /\ Status'.email = TextOf(frames[p].patch.data, "email")
<1> DEFINE data == frames[p].patch.data
           doc == [type |-> "google-oauth", n8n |-> NoText, data |-> EncryptSensitiveFields(data)]
<1>1. /\ data \in Data /\ TextOf(data, "accessToken") \in Grants
      /\ TypeInv /\ RankInv /\ vault \in [CredIds -> CredentialDoc]
  BY DEF StatusInv, SendInv, SendFrame, TypeInv, TypeOK, Frame, Patch
<1>2. PICK c \in CredIds : vault' = [vault EXCEPT ![c] = doc] /\ updatedAt' = Touched(c)
  BY DEF Create, Insert
<1>3. vault'[c] = doc
  BY <1>1, <1>2
<1>4. Valid("google-oauth", NoText, data)
  BY <1>1, VaultInputsAssumption DEF Valid, Has
<1>5. TextOf(EncryptSensitiveFields(data), "email") = TextOf(data, "email")
  BY <1>1, Encryption DEF Fields
<1>6. Valid("google-oauth", NoText, EncryptSensitiveFields(data))
  BY <1>1, <1>4, SealedValid
<1>7. doc.type = "google-oauth" /\ doc.n8n = NoText /\ doc.data = EncryptSensitiveFields(data)
  OBVIOUS
<1> HIDE DEF doc, data
<1>8. Status' = [connected |-> Valid("google-oauth", vault'[c].n8n, vault'[c].data),
                 email |-> TextOf(vault'[c].data, "email"),
                 sheet |-> TextOf(vault'[c].data, "spreadsheetId")]
  BY <1>1, <1>2, <1>3, <1>7, LastWrite
<1> QED BY <1>3, <1>5, <1>6, <1>7, <1>8 DEF data

(* What a callback or a sheet choice saves is shown. *)
LEMMA SaveShows ==
    ASSUME StatusInv, NEW p \in Requests, UpdateSave(p), Present(frames[p].cred),
           frames[p].kind \in {"callback", "sheet"}
    PROVE  /\ frames[p].kind = "callback" =>
                 Status'.connected /\ Status'.email = TextOf(frames[p].patch.data, "email")
           /\ frames[p].kind = "sheet" =>
                 Status'.sheet = TextOf(frames[p].patch.data, "spreadsheetId")
<1> DEFINE f == frames[p]
           c == f.cred
           doc == Assigned(f.loaded, f.patch)
           new == vault'[c]
<1>1. /\ TypeInv /\ RankInv /\ SendFrame(f) /\ StatusFrame(vault, f) /\ f.step = "update.save"
      /\ f.patch \in Patch /\ f.patch.data \in Data /\ f.loaded \in CredentialDoc
  BY DEF StatusInv, SendInv, TypeInv, TypeOK, Frame, Patch, UpdateSave, At
<1>2. /\ c \in CredIds /\ new \in CredentialDoc /\ new.type = vault[c].type
      /\ new = SaveCredential(doc, f.loaded, f.patch, vault[c])
  BY <1>1, SaveLeaves
<1>3. vault[c].type = "google-oauth"
  BY <1>1, <1>2, VaultInputsAssumption DEF StatusFrame, Present, CredentialTypes
<1>4. /\ f.kind = "callback" => /\ TextOf(f.patch.data, "accessToken") \in Texts \ {NoText, MaskText}
                                /\ TextOf(f.patch.data, "email") \in Texts \ {NoText, MaskText}
      /\ f.kind = "sheet" => TextOf(f.patch.data, "spreadsheetId") \in Texts \ {NoText, MaskText}
  BY <1>1, VaultInputsAssumption DEF SendFrame
<1>5. f.patch.data # NoData
  BY <1>4 DEF NoData, TextOf, Absent, Fields
<1>7. \A field \in Fields : TextOf(f.patch.data, field) \notin {NoText, MaskText}
                           => TextOf(doc.data, field) = TextOf(f.patch.data, field)
  BY <1>1, AssignedText DEF Absent, Plain, TextOf
<1> HIDE DEF doc, new
<1>8. new.type = "google-oauth" /\ new.data = doc.data
  BY <1>2, <1>3, <1>5 DEF SaveCredential
<1>9. f.kind = "callback" => Valid("google-oauth", new.n8n, new.data)
  BY <1>4, <1>7, <1>8 DEF Valid, Has, Fields
<1>10. updatedAt' = Touched(c)
  BY <1>5 DEF UpdateSave, Sends
<1>11. Status' = [connected |-> Valid("google-oauth", vault'[c].n8n, vault'[c].data),
                  email |-> TextOf(vault'[c].data, "email"),
                  sheet |-> TextOf(vault'[c].data, "spreadsheetId")]
  BY <1>1, <1>2, <1>8, <1>10, LastWrite DEF new
<1>12. /\ f.kind = "callback" => TextOf(new.data, "email") = TextOf(f.patch.data, "email")
       /\ f.kind = "sheet" => TextOf(new.data, "spreadsheetId") = TextOf(f.patch.data, "spreadsheetId")
  BY <1>4, <1>7, <1>8 DEF Fields
<1> QED BY <1>9, <1>11, <1>12 DEF new

(* Whatever runs beside it, PATCHes of the same credential included, the status shows
   the account a callback connected right after its save, and the spreadsheet a
   request chose right after its: the save makes its credential the newest, and what
   it sends wins over what is stored. *)
THEOREM LastWriteIsShown == Spec => StatusShowsLastWrite
<1>1. ASSUME StatusInv, [Next]_vars, NEW p \in Requests, Writes(p)
      PROVE  /\ frames[p].kind = "callback" =>
                    Status'.connected /\ Status'.email = TextOf(frames[p].patch.data, "email")
             /\ frames[p].kind = "sheet" =>
                    Status'.sheet = TextOf(frames[p].patch.data, "spreadsheetId")
  <2>1. Create(p) \/ (UpdateSave(p) /\ Present(frames[p].cred))
    BY <1>1, WriteStep DEF StatusInv, SendInv
  <2>2. CASE Create(p)
    <3>1. frames[p].kind # "sheet"
      BY <1>1, <2>2 DEF Create, At, StatusInv, SendInv, SendFrame, Upserts
    <3> QED BY <1>1, <2>2, <3>1, CreateShows
  <2> QED BY <1>1, <2>1, <2>2, SaveShows
<1>2. StatusInv /\ [Next]_vars
      => [\A p \in Requests :
             Writes(p) =>
               /\ frames[p].kind = "callback" =>
                     Status'.connected /\ Status'.email = TextOf(frames[p].patch.data, "email")
               /\ frames[p].kind = "sheet" =>
                     Status'.sheet = TextOf(frames[p].patch.data, "spreadsheetId")]_vars
  BY <1>1
<1> QED BY <1>2, InitStatus, NextStatus, PTL DEF Spec, StatusShowsLastWrite
------------------------------------------------------------------------------
(* Revoked tokens *)

(* The grants among the tokens of a data object. *)
Held(data) == {TextOf(data, "accessToken"), TextOf(data, "refreshToken")} \cap Grants

(* Only Google hands out grants: no form and no document from before has one. *)
GrantsComeFromGoogle ==
    /\ \A doc \in Posts \cup Initial : Held(doc.data) = {}
    /\ \A patch \in Patches : Held(patch.data) = {}

Places == CredIds \cup {NoCred}

(* Handler f may write grant g to credential d, or means to revoke it there; a
   callback that has no credential yet holds its grant at NoCred. *)
NamedBy(f, d, g) ==
    \/ f.cred = d /\ g \in Held(f.patch.data)
    \/ f.cred = d /\ f.step = "update.save" /\ g \in Held(f.loaded.data)
    \/ \E item \in f.items : item.cred = d /\ item.token = g
Named(d, g) ==
    \/ d \in CredIds /\ g \in Held(vault[d].data)
    \/ \E p \in Requests : NamedBy(frames[p], d, g)

(* A credential that is gone, is about to be, or would be if no crash had come. *)
Doomed(c) == vault[c].type = "removed" \/ BeingRemoved(c) \/ c \in cutOff

(* Tokens reach a handler from Google or from the credential it works on; what is
   worked on has been born. *)
OwnFrame(docs, f) ==
    /\ f.kind \in {"key", "patch", "edit"} => Held(f.patch.data) = {}
    /\ f.step \in {"upsert.list", "create"} /\ f.kind = "callback" => f.cred = NoCred
    /\ f.cred \in CredIds => docs[f.cred].type # "unborn"
    /\ \A item \in f.items : docs[item.cred].type # "unborn"

OneOwner == \A g \in Grants, d, e \in Places : Named(d, g) /\ Named(e, g) => d = e
OneCarrier ==
    \A g \in Grants, p, q \in Requests :
        NamedBy(frames[p], NoCred, g) /\ NamedBy(frames[q], NoCred, g) => p = q
FreshInv ==
    \A g \in Grants : consents[g].account = NoText => g \notin revoked /\ \A d \in Places : ~Named(d, g)
DoomedInv == \A g \in revoked, d \in Places : Named(d, g) => d \in CredIds /\ Doomed(d)
BlankInv ==
    \A c \in CredIds : /\ vault[c].type = "unborn" => vault[c] = Unborn
                       /\ vault[c].type = "removed" => vault[c] = Removed

OwnInv ==
    /\ SendInv /\ \A p \in Requests : OwnFrame(vault, frames[p])
    /\ OneOwner /\ OneCarrier /\ FreshInv /\ DoomedInv /\ BlankInv

LEMMA HeldTexts ==
    ASSUME NEW data, NEW other, \A field \in Fields : TextOf(other, field) = TextOf(data, field)
    PROVE  Held(other) = Held(data)
  BY DEF Held, Fields

LEMMA NoGrant == NoText \notin Grants /\ MaskText \notin Grants /\ Grants \subseteq Texts
  BY VaultInputsAssumption

LEMMA HeldNothing ==
    /\ Held(NoData) = {}
    /\ \A key : Held(With(NoData, "apiKey", key)) = {}
    /\ \A data \in Data : Held(MaskSensitiveFields(data)) = {}
<1>1. Held(NoData) = {}
  BY NoGrant DEF Held, NoData, TextOf, Absent, Fields
<1>2. ASSUME NEW key PROVE Held(With(NoData, "apiKey", key)) = {}
  BY NoGrant DEF Held, With, NoData, TextOf, Absent, Fields
<1>3. ASSUME NEW data \in Data PROVE Held(MaskSensitiveFields(data)) = {}
  BY NoGrant DEF Held, MaskSensitiveFields, Plain, IsSecret, SensitiveKeys, Has, TextOf, Fields
<1> QED BY <1>1, <1>2, <1>3

LEMMA HeldSealed ==
    ASSUME NEW data \in Data
    PROVE  Held(EncryptSensitiveFields(data)) = Held(data) /\ Held(DecryptSensitiveFields(data)) = Held(data)
<1>1. \A field \in Fields : TextOf(DecryptSensitiveFields(data), field) = TextOf(data, field)
  BY DEF DecryptSensitiveFields, Plain, TextOf
<1> QED BY <1>1, Encryption, HeldTexts

LEMMA HeldAssigned ==
    ASSUME NEW doc \in CredentialDoc, NEW patch \in Patch
    PROVE  Held(Assigned(doc, patch).data) \subseteq Held(doc.data) \cup Held(patch.data)
  BY AssignedText DEF Held, Fields

LEMMA HeldUpsert ==
    ASSUME NEW tokens \in Data, NEW previous \in Data
    PROVE  Held(UpsertData(tokens, previous)) \subseteq Held(tokens) \cup Held(previous)
  BY UpsertTexts, NoGrant DEF Held

LEMMA IdleNames == \A d, g : ~NamedBy(Idle, d, g)
  BY HeldNothing DEF NamedBy, Idle, NoPatch

(* Only a callback without a credential holds grants at NoCred. *)
LEMMA Carried ==
    ASSUME NEW f, Proper(f), NEW g, NamedBy(f, NoCred, g)
    PROVE  f.cred = NoCred /\ g \in Held(f.patch.data)
<1>1. f.step = "update.save" => f.cred # NoCred
  BY VaultInputsAssumption DEF Proper, CredSteps
<1>2. \A item \in f.items : item.cred # NoCred
  BY VaultInputsAssumption DEF Proper, Frame, Item
<1> QED BY <1>1, <1>2 DEF NamedBy

------------------------------------------------------------------------------
(* How names flow *)

(* Nothing is named that was not. *)
Shrinks ==
    /\ \A d \in Places, g \in Grants : Named(d, g)' => Named(d, g)
    /\ \A q \in Requests, g \in Grants : NamedBy(frames'[q], NoCred, g) => NamedBy(frames[q], NoCred, g)

(* Handler p hands what it held at NoCred to a credential. *)
Moves(p) ==
    /\ \E c \in CredIds : \A d \in Places, g \in Grants :
          Named(d, g)' => Named(d, g) \/ (d = c /\ NamedBy(frames[p], NoCred, g))
    /\ \A q \in Requests, g \in Grants :
          NamedBy(frames'[q], NoCred, g) => q # p /\ NamedBy(frames[q], NoCred, g)

(* Handler p receives a grant no one has seen. *)
Receives(p, h) ==
    /\ consents[h].account = NoText /\ consents'[h].account # NoText
    /\ \A d \in Places, g \in Grants : Named(d, g)' => Named(d, g) \/ (d = NoCred /\ g = h)
    /\ \A q \in Requests, g \in Grants :
          NamedBy(frames'[q], NoCred, g) => NamedBy(frames[q], NoCred, g) \/ (q = p /\ g = h)

LEMMA ShrinksKeeps ==
    ASSUME OwnInv, Shrinks
    PROVE  OneOwner' /\ OneCarrier'
  BY DEF OwnInv, OneOwner, OneCarrier, Shrinks

LEMMA MovesKeeps ==
    ASSUME OwnInv, NEW p \in Requests, Moves(p)
    PROVE  OneOwner' /\ OneCarrier'
<1>1. OneCarrier'
  BY DEF OwnInv, OneCarrier, Moves
<1>2. PICK c \in CredIds : \A d \in Places, g \in Grants :
          Named(d, g)' => Named(d, g) \/ (d = c /\ NamedBy(frames[p], NoCred, g))
  BY DEF Moves
<1>3. ASSUME NEW g \in Grants, NamedBy(frames[p], NoCred, g), NEW d \in Places, Named(d, g)' PROVE d = c
  <2>1. Named(NoCred, g)
    BY <1>3 DEF Named
  <2>2. CASE Named(d, g)
    <3>1. d = NoCred
      BY <1>3, <2>1, <2>2 DEF OwnInv, OneOwner, Places
    <3>2. PICK q \in Requests : NamedBy(frames'[q], NoCred, g)
      BY <1>3, <3>1, VaultInputsAssumption DEF Named
    <3>3. q # p /\ NamedBy(frames[q], NoCred, g)
      BY <3>2 DEF Moves
    <3> QED BY <1>3, <3>3 DEF OwnInv, OneCarrier
  <2> QED BY <1>2, <1>3, <2>2
<1>4. ASSUME NEW g \in Grants, NEW d \in Places, NEW e \in Places, Named(d, g)', Named(e, g)' PROVE d = e
  <2>1. CASE NamedBy(frames[p], NoCred, g)
    BY <1>3, <1>4, <2>1
  <2>2. CASE ~NamedBy(frames[p], NoCred, g)
    BY <1>2, <1>4, <2>2 DEF OwnInv, OneOwner
  <2> QED BY <2>1, <2>2
<1> QED BY <1>1, <1>4 DEF OneOwner

LEMMA ReceivesKeeps ==
    ASSUME OwnInv, NEW p \in Requests, NEW h \in Grants, Receives(p, h)
    PROVE  OneOwner' /\ OneCarrier'
<1>1. \A d \in Places : ~Named(d, h)
  BY DEF OwnInv, FreshInv, Receives
<1>2. \A q \in Requests : ~NamedBy(frames[q], NoCred, h)
  BY <1>1 DEF Named, Places
<1>3. OneOwner'
  BY <1>1 DEF OwnInv, OneOwner, Receives
<1>4. OneCarrier'
  BY <1>2 DEF OwnInv, OneCarrier, Receives
<1> QED BY <1>3, <1>4

(* A handler whose new frame names only what was named, where the vault stays or
   names less. *)
Follows(p, f) ==
    /\ \A d \in Places, g \in Grants : NamedBy(f, d, g) => Named(d, g)
    /\ \A g \in Grants : NamedBy(f, NoCred, g) => NamedBy(frames[p], NoCred, g)

LEMMA FollowsShrinks ==
    ASSUME OwnInv, NEW p \in Requests, NEW f, Become(p, f), Follows(p, f),
           \A c \in CredIds, g \in Grants : g \in Held(vault'[c].data) => Named(c, g)
    PROVE  Shrinks
<1>1. \A q \in Requests : frames'[q] = IF q = p THEN f ELSE frames[q]
  BY DEF OwnInv, SendInv, TypeInv, TypeOK, Become
<1>2. ASSUME NEW d \in Places, NEW g \in Grants, Named(d, g)' PROVE Named(d, g)
  <2>1. CASE d \in CredIds /\ g \in Held(vault'[d].data)
    BY <2>1
  <2>2. ASSUME NEW q \in Requests, NamedBy(frames'[q], d, g) PROVE Named(d, g)
    BY <1>1, <2>2 DEF Follows, Named
  <2> QED BY <1>2, <2>1, <2>2 DEF Named
<1>3. ASSUME NEW q \in Requests, NEW g \in Grants, NamedBy(frames'[q], NoCred, g)
      PROVE  NamedBy(frames[q], NoCred, g)
  BY <1>1, <1>3 DEF Follows
<1> QED BY <1>2, <1>3 DEF Shrinks

LEMMA IdleFollows == ASSUME NEW p \in Requests PROVE Follows(p, Idle)
  BY IdleNames DEF Follows

LEMMA IdleOwns == ASSUME NEW docs PROVE OwnFrame(docs, Idle)
  BY HeldNothing, VaultInputsAssumption DEF OwnFrame, Idle, NoPatch

(* A frame on one credential, that sends no more than is named there. *)
LEMMA OnCredential ==
    ASSUME NEW p \in Requests, NEW f, f.cred \in CredIds, f.items = {},
           \A g \in Grants : g \in Held(f.patch.data) => Named(f.cred, g),
           \A g \in Grants : f.step = "update.save" /\ g \in Held(f.loaded.data) => Named(f.cred, g)
    PROVE  Follows(p, f)
  BY VaultInputsAssumption DEF Follows, NamedBy, Places

LEMMA LoadedOwns ==
    ASSUME OwnInv, GrantsComeFromGoogle, NEW p \in Requests, NEW f \in Frame, Loaded(p, f),
           f.cred \in CredIds, f.items = {}, f.step # "update.save", Follows(p, f),
           OwnFrame(vault, f)
    PROVE  \E g : Become(p, g) /\ Follows(p, g) /\ OwnFrame(vault, g)
<1>1. \A h \in Grants : h \in Held(f.patch.data) => Named(f.cred, h)
  BY DEF Follows, NamedBy, Places
<1>2. CASE Become(p, [f EXCEPT !.step = "create"]) /\ f.kind = "key"
  <2> DEFINE g == [f EXCEPT !.step = "create"]
  <2>1. /\ g.step = "create" /\ g.kind = f.kind /\ g.cred = f.cred /\ g.patch = f.patch
        /\ g.items = {} /\ Become(p, g)
    BY <1>2 DEF Frame
  <2> HIDE DEF g
  <2>2. Follows(p, g)
    BY <1>1, <2>1, OnCredential
  <2>3. OwnFrame(vault, g)
    BY <1>2, <2>1 DEF OwnFrame
  <2> QED BY <2>1, <2>2, <2>3
<1>3. CASE Throw(p)
  BY <1>3, IdleFollows, IdleOwns DEF Throw, Return
<1>4. CASE Become(p, [f EXCEPT !.step = "update.save", !.loaded = vault[f.cred]])
  <2> DEFINE g == [f EXCEPT !.step = "update.save", !.loaded = vault[f.cred]]
  <2>1. /\ g.step = "update.save" /\ g.kind = f.kind /\ g.cred = f.cred /\ g.patch = f.patch
        /\ g.items = {} /\ g.loaded = vault[f.cred] /\ Become(p, g)
    BY <1>4 DEF Frame
  <2> HIDE DEF g
  <2>2. Follows(p, g)
    BY <1>1, <2>1, OnCredential DEF Named
  <2>3. OwnFrame(vault, g)
    BY <2>1 DEF OwnFrame
  <2> QED BY <2>1, <2>2, <2>3
<1> QED BY <1>2, <1>3, <1>4 DEF Loaded

LEMMA StartOwns ==
    ASSUME OwnInv, GrantsComeFromGoogle, NEW p \in Requests, Start(p),
           ~\E g \in Grants, a \in Accounts, refresh \in RefreshAnswers : Callback(p, g, a, refresh)
    PROVE  \E f : Become(p, f) /\ Follows(p, f) /\ OwnFrame(vault, f)
<1>1. ASSUME NEW f, Become(p, f), f.cred \in CredIds, f.items = {}, Follows(p, f),
             f.step # "create", f.step # "upsert.list", vault[f.cred].type # "unborn",
             f.kind \in {"key", "patch", "edit"} => Held(f.patch.data) = {}
      PROVE  \E g : Become(p, g) /\ Follows(p, g) /\ OwnFrame(vault, g)
  BY <1>1 DEF OwnFrame
<1>2. ASSUME NEW c \in CredIds, NEW patch \in Patches, PatchCredential(p, c, patch)
      PROVE  \E f : Become(p, f) /\ Follows(p, f) /\ OwnFrame(vault, f)
  <2> DEFINE f == [Idle EXCEPT !.kind = "patch", !.cred = c, !.patch = patch]
  <2>1. f \in Frame /\ f.kind = "patch" /\ f.cred = c /\ f.items = {} /\ f.step = "idle" /\ f.patch = patch
    BY IdleProper, BodiesAssumption DEF Proper, Frame, Kinds, Idle
  <2>2. Loaded(p, f) /\ vault[c].type # "unborn"
    BY <1>2 DEF PatchCredential, Present, CredentialTypes
  <2>3. Held(patch.data) = {}
    BY DEF GrantsComeFromGoogle
  <2> HIDE DEF f
  <2>4. Follows(p, f)
    BY <2>1, <2>3, OnCredential
  <2>5. OwnFrame(vault, f)
    BY <2>1, <2>2, <2>3 DEF OwnFrame
  <2> QED BY <2>1, <2>2, <2>4, <2>5, LoadedOwns
<1>3. ASSUME NEW c \in CredIds, EditListed(p, c)
      PROVE  \E f : Become(p, f) /\ Follows(p, f) /\ OwnFrame(vault, f)
  <2> DEFINE data == MaskSensitiveFields(vault[c].data)
             f == [Idle EXCEPT !.step = "update.load", !.kind = "edit", !.cred = c,
                               !.patch.label = TRUE, !.patch.data = data]
  <2>1. Become(p, f) /\ vault[c].type # "unborn"
    BY <1>3 DEF EditListed, Present, CredentialTypes
  <2>2. Held(data) = {}
    <3>1. vault[c].data \in Data
      BY DEF OwnInv, SendInv, TypeInv, TypeOK, CredentialDoc
    <3> QED BY <3>1, HeldNothing
  <2> HIDE DEF data
  <2>3. f.step = "update.load" /\ f.kind = "edit" /\ f.cred = c /\ f.items = {} /\ f.patch.data = data
    BY DEF Idle, NoPatch
  <2> HIDE DEF f
  <2>4. Follows(p, f)
    BY <2>2, <2>3, OnCredential
  <2> QED BY <1>1, <2>1, <2>2, <2>3, <2>4
<1>4. ASSUME NEW c \in CredIds, RemoveCredential(p, c)
      PROVE  \E f : Become(p, f) /\ Follows(p, f) /\ OwnFrame(vault, f)
  <2> DEFINE f == [Idle EXCEPT !.step = "remove.delete", !.kind = "remove", !.cred = c]
  <2>1. Become(p, f) /\ vault[c].type # "unborn"
    BY <1>4 DEF RemoveCredential, Present, CredentialTypes
  <2>2. f.step = "remove.delete" /\ f.kind = "remove" /\ f.cred = c /\ f.items = {} /\ f.patch = NoPatch
    BY DEF Idle
  <2> HIDE DEF f
  <2>3. Follows(p, f)
    BY <2>2, OnCredential, HeldNothing DEF NoPatch
  <2> QED BY <1>1, <2>1, <2>2, <2>3
<1>5. ASSUME NEW key \in Keys, NEW c \in CredIds \cup {NoCred}, EnterKey(p, key, c)
      PROVE  \E f : Become(p, f) /\ Follows(p, f) /\ OwnFrame(vault, f)
  <2> DEFINE data == With(NoData, "apiKey", key)
             f == [Idle EXCEPT !.step = IF c = NoCred THEN "create" ELSE "update.load",
                               !.kind = "key", !.cred = c, !.patch.label = TRUE, !.patch.data = data]
  <2>1. Become(p, f) /\ (c # NoCred => vault[c] # Unborn)
    BY <1>5 DEF EnterKey
  <2>2. Held(data) = {}
    BY HeldNothing
  <2> HIDE DEF data
  <2>3. f.step # "update.save" /\ f.kind = "key" /\ f.cred = c /\ f.items = {} /\ f.patch.data = data
    BY DEF Idle, NoPatch
  <2> HIDE DEF f
  <2>4. Follows(p, f)
    BY <2>2, <2>3 DEF Follows, NamedBy
  <2>5. OwnFrame(vault, f)
    BY <2>1, <2>2, <2>3, VaultInputsAssumption DEF OwnFrame, OwnInv, BlankInv
  <2> QED BY <2>1, <2>4, <2>5
<1>6. ASSUME NEW sheet \in Sheets, ChooseSheet(p, sheet)
      PROVE  \E f : Become(p, f) /\ Follows(p, f) /\ OwnFrame(vault, f)
  <2> DEFINE c == Latest(List("google-oauth"))
             old == DecryptSensitiveFields(vault[c].data)
             data == With(old, "spreadsheetId", sheet)
             f == [Idle EXCEPT !.step = "update.load", !.kind = "sheet", !.cred = c, !.patch.data = data]
  <2>1. List("google-oauth") \in SUBSET CredIds /\ List("google-oauth") # {}
    BY <1>6 DEF List, ChooseSheet
  <2>2. c \in List("google-oauth")
    BY <2>1, LatestOfSome DEF OwnInv, SendInv, TypeInv, TypeOK
  <2>3. c \in CredIds /\ vault[c].type # "unborn" /\ vault[c].data \in Data
    BY <2>2 DEF List, OwnInv, SendInv, TypeInv, TypeOK, CredentialDoc
  <2>4. Become(p, f)
    BY <1>6 DEF ChooseSheet
  <2> HIDE DEF c
  <2>5. Held(old) = Held(vault[c].data)
    BY <2>3, HeldSealed
  <2> HIDE DEF old
  <2>6. Held(data) = Held(old)
    BY DEF Held, With, TextOf
  <2> HIDE DEF data
  <2>7. f.step = "update.load" /\ f.kind = "sheet" /\ f.cred = c /\ f.items = {} /\ f.patch.data = data
    BY DEF Idle, NoPatch
  <2> HIDE DEF f
  <2>8. Follows(p, f)
    BY <2>3, <2>5, <2>6, <2>7, OnCredential DEF Named
  <2> QED BY <1>1, <2>3, <2>4, <2>7, <2>8
<1>7. CASE Disconnect(p)
  <2> DEFINE items == {[cred |-> c, token |-> TokenOf(vault[c].data)] : c \in List("google-oauth")}
             f == [Idle EXCEPT !.step = "disconnect.revoke", !.kind = "disconnect",
                               !.listed = List("google-oauth"), !.items = items]
  <2>1. ASSUME NEW item \in items
        PROVE  /\ item.cred \in CredIds /\ vault[item.cred].type = "google-oauth"
               /\ item.token \in Grants => item.token \in Held(vault[item.cred].data)
    BY DEF List, TokenOf, Held
  <2>2. Become(p, f)
    BY <1>7 DEF Disconnect
  <2> HIDE DEF items
  <2>3. /\ f.step = "disconnect.revoke" /\ f.kind = "disconnect" /\ f.cred = NoCred /\ f.items = items
        /\ f.patch = NoPatch
    BY DEF Idle
  <2> HIDE DEF f
  <2>4. Held(f.patch.data) = {} /\ NoCred \notin CredIds
    BY <2>3, HeldNothing, VaultInputsAssumption DEF NoPatch
  <2>5. Follows(p, f)
    BY <2>1, <2>3, <2>4 DEF Follows, NamedBy, Named
  <2>6. OwnFrame(vault, f)
    BY <2>1, <2>3, <2>4 DEF OwnFrame
  <2> QED BY <2>2, <2>5, <2>6
<1> QED BY <1>2, <1>3, <1>4, <1>5, <1>6, <1>7, VaultInputsAssumption DEF Start

(* A handler that only reads, and the loop of disconnect. *)
LEMMA ReadOwns ==
    ASSUME OwnInv, GrantsComeFromGoogle, NEW p \in Requests, UpdateLoad(p) \/ Revoke(p) \/ RemoveFind(p)
    PROVE  \E f : Become(p, f) /\ Follows(p, f) /\ OwnFrame(vault, f)
<1> DEFINE f == frames[p]
<1>1. f \in Frame /\ SendFrame(f) /\ OwnFrame(vault, f)
  BY DEF OwnInv, SendInv, TypeInv, TypeOK
<1>2. Follows(p, f)
  BY DEF Follows, Named
<1>3. CASE UpdateLoad(p)
  <2>1. f.step = "update.load" /\ f.cred \in CredIds /\ Loaded(p, f)
    BY <1>3 DEF UpdateLoad, At, OwnInv, SendInv, TypeInv, FramesNameCreds, CredSteps
  <2>2. f.items = {}
    BY <1>1, <2>1 DEF SendFrame, LoopFrame
  <2> QED BY <1>1, <1>2, <2>1, <2>2, LoadedOwns
<1>4. ASSUME NEW g, Become(p, g), g.patch = f.patch, g.kind = f.kind, f.kind \in {"disconnect", "remove"},
             g.items \subseteq f.items, g.cred \in CredIds, vault[g.cred].type # "unborn",
             g.step # "update.save"
      PROVE  \E h : Become(p, h) /\ Follows(p, h) /\ OwnFrame(vault, h)
  <2>1. Held(g.patch.data) = {}
    BY <1>1, <1>4, HeldNothing DEF SendFrame, LoopFrame, NoPatch
  <2>2. Follows(p, g)
    BY <1>4, <2>1 DEF Follows, NamedBy, Named
  <2>3. OwnFrame(vault, g)
    BY <1>1, <1>4 DEF OwnFrame
  <2> QED BY <1>4, <2>2, <2>3
<1>5. CASE Revoke(p)
  <2>1. PICK item \in f.items :
           Become(p, [f EXCEPT !.step = "remove.find", !.cred = item.cred, !.items = @ \ {item}])
    BY <1>5 DEF Revoke
  <2> DEFINE g == [f EXCEPT !.step = "remove.find", !.cred = item.cred, !.items = @ \ {item}]
  <2>2. /\ g.kind = f.kind /\ g.step = "remove.find" /\ Become(p, g) /\ g.patch = f.patch
        /\ g.items = f.items \ {item} /\ g.cred = item.cred
    BY <1>1, <2>1 DEF Frame
  <2>3. f.kind = "disconnect"
    BY <1>1, <1>5 DEF Revoke, At, SendFrame, LoopFrame
  <2>4. item.cred \in CredIds /\ vault[item.cred].type # "unborn"
    BY <1>1 DEF OwnFrame, Frame, Item
  <2> HIDE DEF g
  <2> QED BY <1>4, <2>2, <2>3, <2>4
<1>6. CASE RemoveFind(p)
  <2>1. CASE Throw(p)
    BY <2>1, IdleFollows, IdleOwns DEF Throw, Return
  <2>2. CASE Goto(p, "remove.delete")
    <3> DEFINE g == [f EXCEPT !.step = "remove.delete"]
    <3>1. /\ g.kind = f.kind /\ g.step = "remove.delete" /\ g.patch = f.patch /\ Become(p, g)
          /\ g.items = f.items /\ g.cred = f.cred
      BY <1>1, <2>2 DEF Frame, Goto
    <3>2. f.kind = "disconnect" /\ f.cred \in CredIds
      BY <1>1, <1>6 DEF RemoveFind, At, SendFrame, LoopFrame, OwnInv, SendInv, TypeInv, FramesNameCreds,
         CredSteps
    <3>3. vault[f.cred].type # "unborn"
      BY <1>1, <3>2 DEF OwnFrame
    <3> HIDE DEF g
    <3> QED BY <1>4, <3>1, <3>2, <3>3
  <2> QED BY <1>6, <2>1, <2>2 DEF RemoveFind
<1> QED BY <1>3, <1>5, <1>6

(* Saves and removals only take names away. *)
LEMMA SaveShrinks ==
    ASSUME OwnInv, NEW p \in Requests, UpdateSave(p)
    PROVE  Shrinks
<1> DEFINE f == frames[p]
           doc == Assigned(f.loaded, f.patch)
<1>1. /\ f.step = "update.save" /\ f.cred \in CredIds /\ vault \in [CredIds -> CredentialDoc]
      /\ f.loaded \in CredentialDoc /\ f.patch \in Patch /\ TypeInv
  BY DEF UpdateSave, At, OwnInv, SendInv, TypeInv, TypeOK, FramesNameCreds, CredSteps, Frame
<1>2. Become(p, Idle)
  BY DEF UpdateSave, Return, Throw
<1>3. ASSUME NEW c \in CredIds, NEW g \in Grants, g \in Held(vault'[c].data) PROVE Named(c, g)
  <2>1. CASE vault'[c] = vault[c]
    BY <1>3, <2>1 DEF Named
  <2>2. CASE vault'[c] # vault[c]
    <3>1. Present(f.cred)
      BY <2>2 DEF UpdateSave
    <3>2. c = f.cred
      BY <1>1, <2>2, <3>1, SaveLeaves
    <3>3. vault'[c] = SaveCredential(doc, f.loaded, f.patch, vault[c])
      BY <1>1, <3>1, <3>2, SaveLeaves
    <3>4. vault'[c].data = vault[c].data \/ vault'[c].data = doc.data
      BY <3>3 DEF SaveCredential
    <3>5. Held(doc.data) \subseteq Held(f.loaded.data) \cup Held(f.patch.data)
      BY <1>1, HeldAssigned
    <3> HIDE DEF doc
    <3>6. \/ g \in Held(vault[c].data)
          \/ g \in Held(f.loaded.data)
          \/ g \in Held(f.patch.data)
      BY <1>3, <3>4, <3>5
    <3>7. g \in Held(vault[c].data) \/ NamedBy(f, c, g)
      BY <1>1, <3>2, <3>6 DEF NamedBy
    <3> QED BY <3>7 DEF Named
  <2> QED BY <2>1, <2>2
<1> QED BY <1>2, <1>3, IdleFollows, FollowsShrinks

LEMMA DeleteShrinks ==
    ASSUME OwnInv, NEW p \in Requests, RemoveDelete(p)
    PROVE  Shrinks /\ \E g : Become(p, g) /\ OwnFrame(vault, g)
<1> DEFINE f == frames[p]
           g == [f EXCEPT !.step = "disconnect.revoke", !.items = f.items, !.cred = NoCred]
<1>1. f \in Frame /\ SendFrame(f) /\ OwnFrame(vault, f) /\ f.step = "remove.delete"
      /\ vault \in [CredIds -> CredentialDoc]
  BY DEF RemoveDelete, At, OwnInv, SendInv, TypeInv, TypeOK
<1>2. g.step = "disconnect.revoke" /\ g.items = f.items /\ g.cred = NoCred /\ g.patch = f.patch /\ g.kind = f.kind
  BY <1>1 DEF Frame
<1>3. Return(p) \/ Become(p, g)
  BY DEF RemoveDelete, NextItem
<1>4. f.kind \in {"disconnect", "remove"} /\ Held(f.patch.data) = {}
  BY <1>1, HeldNothing DEF SendFrame, LoopFrame, NoPatch
<1> HIDE DEF g
<1>5. Follows(p, g)
  BY <1>1, <1>2, <1>4, VaultInputsAssumption DEF Follows, NamedBy, Named, Frame, Item
<1>6. OwnFrame(vault, g)
  BY <1>1, <1>2, <1>4, VaultInputsAssumption DEF OwnFrame
<1>7. ASSUME NEW c \in CredIds, NEW h \in Grants, h \in Held(vault'[c].data) PROVE Named(c, h)
  <2>1. vault'[c] = vault[c] \/ vault'[c] = Removed
    BY <1>1 DEF RemoveDelete
  <2>2. Held(Removed.data) = {}
    BY HeldNothing DEF Removed
  <2> QED BY <1>7, <2>1, <2>2 DEF Named
<1>8. \E h : Become(p, h) /\ Follows(p, h) /\ OwnFrame(vault, h)
  BY <1>3, <1>5, <1>6, IdleFollows, IdleOwns DEF Return
<1> QED BY <1>7, <1>8, FollowsShrinks

(* A document is inserted with the grants of its data. *)
LEMMA InsertHolds ==
    ASSUME OwnInv, NEW type, NEW n8n, NEW data \in Data, Insert(type, n8n, data)
    PROVE  \E c \in CredIds : \A d \in CredIds :
              Held(vault'[d].data) = IF d = c THEN Held(data) ELSE Held(vault[d].data)
<1> DEFINE doc == [type |-> type, n8n |-> n8n, data |-> EncryptSensitiveFields(data)]
<1>1. PICK c \in CredIds : vault' = [vault EXCEPT ![c] = doc]
  BY DEF Insert
<1>2. Held(doc.data) = Held(data)
  BY HeldSealed
<1> HIDE DEF doc
<1>3. \A d \in CredIds : vault'[d] = IF d = c THEN doc ELSE vault[d]
  BY <1>1 DEF OwnInv, SendInv, TypeInv, TypeOK
<1> QED BY <1>2, <1>3

LEMMA PostShrinks ==
    ASSUME OwnInv, GrantsComeFromGoogle, NEW body \in Posts, PostCredential(body)
    PROVE  Shrinks
<1>1. body.data \in Data /\ Held(body.data) = {} /\ Insert(body.type, body.n8n, body.data)
      /\ frames' = frames
  BY BodiesAssumption DEF CredentialDoc, GrantsComeFromGoogle, PostCredential
<1>2. PICK c \in CredIds : \A d \in CredIds :
          Held(vault'[d].data) = IF d = c THEN Held(body.data) ELSE Held(vault[d].data)
  BY <1>1, InsertHolds
<1> QED BY <1>1, <1>2 DEF Shrinks, Named

LEMMA CreateFlows ==
    ASSUME OwnInv, NEW p \in Requests, Create(p)
    PROVE  Moves(p)
<1> DEFINE f == frames[p]
           type == IF f.kind = "key" THEN "api-key" ELSE "google-oauth"
<1>1. /\ f \in Frame /\ SendFrame(f) /\ OwnFrame(vault, f) /\ f.step = "create"
      /\ f.patch.data \in Data /\ Insert(type, NoText, f.patch.data)
  BY DEF Create, At, OwnInv, SendInv, TypeInv, TypeOK, Frame, Patch
<1> HIDE DEF type
<1>2. \A g \in Held(f.patch.data) : NamedBy(f, NoCred, g)
  BY <1>1 DEF SendFrame, OwnFrame, Upserts, NamedBy
<1>3. PICK c \in CredIds : \A d \in CredIds :
          Held(vault'[d].data) = IF d = c THEN Held(f.patch.data) ELSE Held(vault[d].data)
  BY <1>1, InsertHolds
<1>4. \A q \in Requests : frames'[q] = IF q = p THEN Idle ELSE frames[q]
  BY DEF Create, Return, Become, OwnInv, SendInv, TypeInv, TypeOK
<1>5. ASSUME NEW d \in Places, NEW g \in Grants, Named(d, g)'
      PROVE  Named(d, g) \/ (d = c /\ NamedBy(f, NoCred, g))
  <2>1. CASE d \in CredIds /\ g \in Held(vault'[d].data)
    BY <1>2, <1>3, <2>1 DEF Named
  <2>2. ASSUME NEW q \in Requests, NamedBy(frames'[q], d, g) PROVE Named(d, g)
    BY <1>4, <2>2, IdleNames DEF Named
  <2> QED BY <1>5, <2>1, <2>2 DEF Named
<1>6. ASSUME NEW q \in Requests, NEW g \in Grants, NamedBy(frames'[q], NoCred, g)
      PROVE  q # p /\ NamedBy(frames[q], NoCred, g)
  BY <1>4, <1>6, IdleNames
<1> QED BY <1>5, <1>6 DEF Moves

LEMMA UpsertFlows ==
    ASSUME OwnInv, NEW p \in Requests, UpsertList(p)
    PROVE  (Shrinks \/ Moves(p)) /\ \E g : Become(p, g) /\ OwnFrame(vault, g)
<1> DEFINE f == frames[p]
           email == TextOf(f.patch.data, "email")
           c == Existing(email)
           data == UpsertData(f.patch.data, Previous(email))
           g == [f EXCEPT !.step = IF c = NoCred THEN "create" ELSE "update.load",
                          !.cred = c, !.patch.data = data]
<1>1. /\ f \in Frame /\ Proper(f) /\ SendFrame(f) /\ OwnFrame(vault, f) /\ f.step = "upsert.list"
      /\ f.patch \in Patch /\ f.patch.data \in Data /\ vault' = vault /\ TypeInv
  BY DEF UpsertList, At, OwnInv, SendInv, TypeInv, TypeOK, FramesNameCreds, Proper, Frame, Patch
<1>2. f.kind = "callback" /\ f.cred = NoCred /\ f.items = {}
  BY <1>1 DEF SendFrame, LoopFrame, OwnFrame
<1>3. Throw(p) \/ Become(p, g)
  BY DEF UpsertList, Previous
<1>4. Previous(email) \in Data
  BY <1>1, PreviousType
<1>5. Held(data) \subseteq Held(f.patch.data) \cup Held(Previous(email))
  BY <1>1, <1>4, HeldUpsert
<1>6. c \in CredIds \cup {NoCred} /\ (c # NoCred => vault[c].type = "google-oauth")
  BY <1>1, ExistingType, ExistingListed DEF List
<1>7. Held(Previous(email)) = IF c = NoCred THEN {} ELSE Held(vault[c].data)
  <2>1. c \in CredIds => vault[c].data \in Data
    BY <1>1 DEF TypeInv, TypeOK, CredentialDoc
  <2> QED BY <1>6, <2>1, HeldNothing, HeldSealed DEF Previous
<1> HIDE DEF data, c
<1>8. /\ g.cred = c /\ g.items = {} /\ g.patch.data = data /\ g.kind = "callback"
      /\ g.step = (IF c = NoCred THEN "create" ELSE "update.load")
  BY <1>1, <1>2 DEF Frame, Patch
<1> HIDE DEF g
<1>9. OwnFrame(vault, g)
  BY <1>6, <1>8, VaultInputsAssumption DEF OwnFrame
<1>10. CASE Throw(p)
  <2>1. Become(p, Idle)
    BY <1>10 DEF Throw, Return
  <2>2. Shrinks
    BY <1>1, <2>1, IdleFollows, FollowsShrinks DEF Named
  <2> QED BY <2>1, <2>2, IdleOwns
<1>11. CASE Become(p, g) /\ c = NoCred
  <2>1. \A h : NamedBy(g, NoCred, h) => NamedBy(f, NoCred, h)
    BY <1>2, <1>5, <1>7, <1>8, <1>11 DEF NamedBy
  <2>2. \A d, h : NamedBy(g, d, h) => d = NoCred
    BY <1>8, <1>11 DEF NamedBy
  <2>3. Follows(p, g)
    BY <2>1, <2>2 DEF Follows, Named
  <2> QED BY <1>1, <1>9, <1>11, <2>3, FollowsShrinks DEF Named
<1>12. CASE Become(p, g) /\ c # NoCred
  <2>1. \A d, h : NamedBy(g, d, h) => d = c /\ h \in Held(data)
    BY <1>8, <1>12 DEF NamedBy
  <2>2. \A h : h \in Held(data) => NamedBy(f, NoCred, h) \/ Named(c, h)
    BY <1>2, <1>5, <1>6, <1>7, <1>12 DEF NamedBy, Named
  <2>3. \A q \in Requests : frames'[q] = IF q = p THEN g ELSE frames[q]
    BY <1>12 DEF Become, OwnInv, SendInv, TypeInv, TypeOK
  <2>4. ASSUME NEW d \in Places, NEW h \in Grants, Named(d, h)'
        PROVE  Named(d, h) \/ (d = c /\ NamedBy(f, NoCred, h))
    <3>1. CASE d \in CredIds /\ h \in Held(vault'[d].data)
      BY <1>1, <3>1 DEF Named
    <3>2. ASSUME NEW q \in Requests, NamedBy(frames'[q], d, h)
          PROVE  Named(d, h) \/ (d = c /\ NamedBy(f, NoCred, h))
      <4>1. CASE q = p
        BY <2>1, <2>2, <2>3, <3>2, <4>1
      <4>2. CASE q # p
        BY <2>3, <3>2, <4>2 DEF Named
      <4> QED BY <4>1, <4>2
    <3> QED BY <2>4, <3>1, <3>2 DEF Named
  <2>5. ASSUME NEW q \in Requests, NEW h \in Grants, NamedBy(frames'[q], NoCred, h)
        PROVE  q # p /\ NamedBy(frames[q], NoCred, h)
    BY <1>12, <2>1, <2>3, <2>5
  <2>6. c \in CredIds
    BY <1>6, <1>12
  <2> QED BY <1>9, <1>12, <2>4, <2>5, <2>6 DEF Moves
<1> QED BY <1>3, <1>10, <1>11, <1>12

LEMMA CallbackFlows ==
    ASSUME OwnInv, NEW p \in Requests, NEW h \in Grants, NEW a \in Accounts, NEW refresh \in RefreshAnswers,
           Callback(p, h, a, refresh)
    PROVE  Receives(p, h) /\ \E g : Become(p, g) /\ OwnFrame(vault, g)
<1> DEFINE tokens == With(With(NoData, "email", a), "accessToken", h)
           data == IF refresh THEN With(tokens, "refreshToken", h) ELSE tokens
           g == [Idle EXCEPT !.step = "upsert.list", !.kind = "callback", !.patch.label = TRUE,
                             !.patch.data = data]
<1>1. Become(p, g) /\ vault' = vault /\ consents[h].account = NoText
  BY DEF Callback
<1>2. consents'[h].account # NoText
  BY VaultInputsAssumption DEF Callback, OwnInv, SendInv, TypeInv, TypeOK
<1>3. Held(data) \subseteq {h}
  BY NoGrant DEF Held, With, Plain, NoData, Absent, TextOf, Fields
<1> HIDE DEF data
<1>4. g.cred = NoCred /\ g.items = {} /\ g.patch.data = data /\ g.step = "upsert.list" /\ g.kind = "callback"
  BY DEF Idle, NoPatch
<1> HIDE DEF g
<1>5. \A d, e : NamedBy(g, d, e) => d = NoCred /\ e = h
  BY <1>3, <1>4 DEF NamedBy
<1>6. \A q \in Requests : frames'[q] = IF q = p THEN g ELSE frames[q]
  BY <1>1 DEF Become, OwnInv, SendInv, TypeInv, TypeOK
<1>7. OwnFrame(vault, g)
  BY <1>4, VaultInputsAssumption DEF OwnFrame
<1>8. ASSUME NEW d \in Places, NEW e \in Grants, Named(d, e)'
      PROVE  Named(d, e) \/ (d = NoCred /\ e = h)
  <2>1. CASE d \in CredIds /\ e \in Held(vault'[d].data)
    BY <1>1, <2>1 DEF Named
  <2>2. ASSUME NEW q \in Requests, NamedBy(frames'[q], d, e)
        PROVE  Named(d, e) \/ (d = NoCred /\ e = h)
    BY <1>5, <1>6, <2>2 DEF Named
  <2> QED BY <1>8, <2>1, <2>2 DEF Named
<1>9. ASSUME NEW q \in Requests, NEW e \in Grants, NamedBy(frames'[q], NoCred, e)
      PROVE  NamedBy(frames[q], NoCred, e) \/ (q = p /\ e = h)
  BY <1>5, <1>6, <1>9
<1> QED BY <1>1, <1>2, <1>7, <1>8, <1>9 DEF Receives

LEMMA NextFlows ==
    ASSUME OwnInv, GrantsComeFromGoogle, [Next]_vars
    PROVE  \/ Shrinks
           \/ \E p \in Requests : Moves(p)
           \/ \E p \in Requests, h \in Grants : Receives(p, h)
<1>1. ASSUME NEW p \in Requests, vault' = vault,
             \E f : Become(p, f) /\ Follows(p, f) /\ OwnFrame(vault, f)
      PROVE  Shrinks
  BY <1>1, FollowsShrinks DEF Named
<1>2. ASSUME NEW p \in Requests, Start(p)
      PROVE  Shrinks \/ \E h \in Grants : Receives(p, h)
  <2>1. vault' = vault
    BY <1>2 DEF Start, PatchCredential, EditListed, RemoveCredential, EnterKey, Callback,
       ChooseSheet, Disconnect
  <2> QED BY <1>1, <1>2, <2>1, StartOwns, CallbackFlows
<1>3. ASSUME NEW p \in Requests, Continue(p) PROVE Shrinks \/ Moves(p)
  <2>1. CASE UpdateLoad(p) \/ Revoke(p) \/ RemoveFind(p)
    <3>1. vault' = vault
      BY <2>1 DEF UpdateLoad, Revoke, RemoveFind
    <3> QED BY <1>1, <2>1, <3>1, ReadOwns
  <2> QED BY <1>3, <2>1, CreateFlows, SaveShrinks, UpsertFlows, DeleteShrinks DEF Continue
<1>4. CASE Crash
  BY <1>4, IdleNames DEF Crash, Shrinks, Named
<1>5. CASE UNCHANGED vars
  BY <1>5 DEF vars, Shrinks, Named
<1> QED BY <1>2, <1>3, <1>4, <1>5, PostShrinks DEF Next

LEMMA NextOwns ==
    ASSUME OwnInv, GrantsComeFromGoogle, [Next]_vars, NEW q \in Requests
    PROVE  OwnFrame(vault', frames'[q])
<1>1. /\ frames \in [Requests -> Frame] /\ TypeInv
      /\ \A p \in Requests : OwnFrame(vault, frames[p])
  BY DEF OwnInv, SendInv, TypeInv, TypeOK
<1>2. ASSUME NEW f \in Frame, OwnFrame(vault, f) PROVE OwnFrame(vault', f)
  <2>1. ASSUME NEW c \in CredIds, vault[c].type # "unborn" PROVE vault'[c].type # "unborn"
    BY <1>1, <2>1, VaultStep DEF Step
  <2>2. \A item \in f.items : item.cred \in CredIds
    BY DEF Frame, Item
  <2> QED BY <1>2, <2>1, <2>2 DEF OwnFrame
<1>3. ASSUME NEW p \in Requests, \E f : Become(p, f) /\ OwnFrame(vault, f)
      PROVE  OwnFrame(vault', frames'[q])
  <2>1. PICK f : Become(p, f) /\ OwnFrame(vault, f)
    BY <1>3
  <2>2. frames'[q] = f \/ frames'[q] = frames[q]
    BY <1>1, <2>1 DEF Become
  <2>3. frames'[q] \in Frame
    BY NextType, <1>1 DEF TypeInv, TypeOK
  <2> QED BY <1>1, <1>2, <2>1, <2>2, <2>3
<1>4. CASE frames' = frames
  BY <1>1, <1>2, <1>4
<1>5. CASE frames'[q] = Idle
  BY <1>5, IdleOwns
<1>6. ASSUME NEW p \in Requests, Start(p) PROVE OwnFrame(vault', frames'[q])
  BY <1>3, <1>6, StartOwns, CallbackFlows
<1>7. ASSUME NEW p \in Requests, Create(p) \/ UpdateSave(p) PROVE OwnFrame(vault', frames'[q])
  <2>1. Become(p, Idle)
    BY <1>7 DEF Create, UpdateSave, Return, Throw
  <2> QED BY <1>3, <2>1, IdleOwns
<1>8. ASSUME NEW p \in Requests, Continue(p) PROVE OwnFrame(vault', frames'[q])
  <2>1. CASE UpdateLoad(p) \/ Revoke(p) \/ RemoveFind(p)
    BY <1>3, <2>1, ReadOwns
  <2> QED BY <1>3, <1>7, <1>8, <2>1, UpsertFlows, DeleteShrinks DEF Continue
<1>9. CASE Crash
  BY <1>5, <1>9 DEF Crash
<1> QED BY <1>4, <1>6, <1>8, <1>9 DEF Next, PostCredential, vars

LEMMA BlankStep == ASSUME OwnInv, [Next]_vars PROVE BlankInv'
<1>1. vault \in [CredIds -> CredentialDoc] /\ TypeInv /\ BlankInv
  BY DEF OwnInv, SendInv, TypeInv, TypeOK
<1>2. ASSUME NEW c \in CredIds, NEW doc, doc = Removed \/ doc.type \in CredentialTypes,
             vault' = [vault EXCEPT ![c] = doc]
      PROVE  BlankInv'
  BY <1>1, <1>2 DEF BlankInv, CredentialTypes, Removed
<1>3. CASE vault' = vault
  BY <1>1, <1>3 DEF BlankInv
<1>4. ASSUME NEW type \in CredentialTypes, NEW n8n, NEW data, Insert(type, n8n, data) PROVE BlankInv'
  <2> DEFINE doc == [type |-> type, n8n |-> n8n, data |-> EncryptSensitiveFields(data)]
  <2>1. PICK c \in CredIds : vault' = [vault EXCEPT ![c] = doc]
    BY <1>4 DEF Insert
  <2>2. doc.type \in CredentialTypes
    OBVIOUS
  <2> HIDE DEF doc
  <2> QED BY <1>2, <2>1, <2>2
<1>5. ASSUME NEW p \in Requests, UpdateSave(p) PROVE BlankInv'
  <2>1. CASE Present(frames[p].cred)
    <3>1. /\ frames[p].cred \in CredIds /\ vault' = [vault EXCEPT ![frames[p].cred] = vault'[frames[p].cred]]
          /\ vault'[frames[p].cred].type \in CredentialTypes
      BY <1>1, <1>5, <2>1, SaveLeaves DEF Present
    <3> QED BY <1>2, <3>1
  <2>2. CASE ~Present(frames[p].cred)
    BY <1>3, <1>5, <2>2 DEF UpdateSave
  <2> QED BY <2>1, <2>2
<1>6. ASSUME NEW p \in Requests, RemoveDelete(p) PROVE BlankInv'
  <2>1. frames[p].cred \in CredIds
    BY <1>1, <1>6 DEF RemoveDelete, At, TypeInv, FramesNameCreds, CredSteps
  <2>2. vault' = [vault EXCEPT ![frames[p].cred] = Removed] \/ vault' = vault
    BY <1>1, <1>6 DEF RemoveDelete
  <2> QED BY <1>2, <1>3, <2>1, <2>2
<1>7. ASSUME NEW p \in Requests, Start(p) PROVE vault' = vault
  BY <1>7 DEF Start, PatchCredential, EditListed, RemoveCredential, EnterKey, Callback,
     ChooseSheet, Disconnect
<1>8. ASSUME NEW p \in Requests, Create(p) PROVE BlankInv'
  <2>1. "api-key" \in CredentialTypes /\ "google-oauth" \in CredentialTypes
    BY DEF CredentialTypes
  <2> QED BY <1>4, <1>8, <2>1 DEF Create
<1>9. ASSUME NEW p \in Requests, Continue(p) PROVE BlankInv'
  <2>1. CASE UpdateLoad(p) \/ UpsertList(p) \/ Revoke(p) \/ RemoveFind(p)
    BY <1>3, <2>1 DEF UpdateLoad, UpsertList, Revoke, RemoveFind
  <2> QED BY <1>5, <1>6, <1>8, <1>9, <2>1 DEF Continue
<1>10. ASSUME NEW body \in Posts, PostCredential(body) PROVE BlankInv'
  BY <1>4, <1>10, BodiesAssumption DEF PostCredential
<1> QED BY <1>3, <1>7, <1>9, <1>10 DEF Next, Crash, vars

(* What is doomed stays doomed: a disconnect leaves its credential only when that is
   gone, and a crash cuts it off. *)
LEMMA DoomedStays ==
    ASSUME OwnInv, GrantsComeFromGoogle, [Next]_vars, NEW c \in CredIds, Doomed(c)
    PROVE  Doomed(c)'
<1>1. /\ frames \in [Requests -> Frame] /\ vault \in [CredIds -> CredentialDoc] /\ TypeInv
      /\ \A p \in Requests : SendFrame(frames[p]) /\ OwnFrame(vault, frames[p])
  BY DEF OwnInv, SendInv, TypeInv, TypeOK
<1>2. CASE vault[c].type = "removed"
  BY <1>1, <1>2, VaultStep DEF Step, Doomed
<1>3. CASE c \in cutOff
  <2>1. cutOff \subseteq cutOff'
    BY DEF Next, Start, Continue, PatchCredential, EditListed, RemoveCredential, EnterKey, Callback,
       ChooseSheet, Disconnect, Create, UpdateLoad, UpdateSave, UpsertList, Revoke, RemoveFind,
       RemoveDelete, PostCredential, Crash, history, vars
  <2> QED BY <1>3, <2>1 DEF Doomed
<1>4. ASSUME NEW p \in Requests, frames[p].kind = "disconnect", frames[p].cred = c
      PROVE  Doomed(c)'
  <2>1. frames[p].step \in {"remove.find", "remove.delete"} /\ vault[c].type # "unborn"
    BY <1>1, <1>4, VaultInputsAssumption DEF SendFrame, LoopFrame, OwnFrame
  <2>2. CASE frames'[p] = frames[p]
    BY <1>4, <2>2 DEF Doomed, BeingRemoved
  <2>3. ASSUME NEW q \in Requests, NEW f, Become(q, f) PROVE q = p \/ frames'[p] = frames[p]
    BY <1>1, <2>3 DEF Become
  <2>4. ASSUME RemoveFind(p) PROVE Doomed(c)'
    <3>1. CASE Goto(p, "remove.delete")
      <4>1. frames'[p].kind = "disconnect" /\ frames'[p].cred = c
        BY <1>1, <1>4, <3>1 DEF Goto, Become, Frame
      <4> QED BY <4>1 DEF Doomed, BeingRemoved
    <3>2. CASE ~Present(c)
      <4>1. vault[c].type = "removed"
        BY <1>1, <2>1, <3>2 DEF Present, CredentialDoc
      <4> QED BY <1>2, <4>1
    <3> QED BY <1>4, <2>4, <3>1, <3>2 DEF RemoveFind
  <2>5. ASSUME RemoveDelete(p) PROVE Doomed(c)'
    <3>1. vault'[c].type = "removed"
      BY <1>1, <1>4, <2>1, <2>5, DeleteStep DEF Step
    <3> QED BY <3>1 DEF Doomed
  <2>6. ASSUME NEW q \in Requests, Start(q) PROVE frames'[p] = frames[p]
    <3>1. \E f : Become(q, f)
      BY <2>6 DEF Start, PatchCredential, EditListed, RemoveCredential, EnterKey, Callback,
         ChooseSheet, Disconnect, Loaded, Throw, Return
    <3>2. frames[q] = Idle
      BY <2>6 DEF Start, PatchCredential, EditListed, RemoveCredential, EnterKey, Callback,
         ChooseSheet, Disconnect, Free
    <3> QED BY <1>4, <2>3, <3>1, <3>2 DEF Idle
  <2>7. ASSUME NEW q \in Requests, Continue(q) PROVE Doomed(c)'
    <3>1. \E f : Become(q, f)
      BY <2>7 DEF Continue, Create, UpdateLoad, UpdateSave, UpsertList, Revoke, RemoveFind,
         RemoveDelete, Loaded, Throw, Return, Goto, NextItem
    <3>2. CASE q = p
      <4>1. RemoveFind(p) \/ RemoveDelete(p)
        BY <2>1, <2>7, <3>2 DEF Continue, Create, UpdateLoad, UpdateSave, UpsertList, Revoke, At
      <4> QED BY <2>4, <2>5, <4>1
    <3> QED BY <2>2, <2>3, <3>1, <3>2
  <2>8. CASE Crash
    <3>1. c \in cutOff'
      BY <1>4, <2>8 DEF Crash
    <3> QED BY <3>1 DEF Doomed
  <2> QED BY <2>2, <2>6, <2>7, <2>8 DEF Next, PostCredential, vars
<1> QED BY <1>2, <1>3, <1>4 DEF Doomed, BeingRemoved

(* Google revokes only tokens a disconnect holds for a credential it now removes. *)
LEMMA RevokedStep ==
    ASSUME OwnInv, GrantsComeFromGoogle, [Next]_vars, NEW g \in revoked', g \notin revoked
    PROVE  Shrinks /\ g \in Grants /\ \E c \in CredIds : Named(c, g) /\ Doomed(c)'
<1>1. PICK p \in Requests : Revoke(p)
  BY DEF Next, Start, Continue, PatchCredential, EditListed, RemoveCredential, EnterKey, Callback,
     ChooseSheet, Disconnect, Create, UpdateLoad, UpdateSave, UpsertList, RemoveFind,
     RemoveDelete, PostCredential, Crash, history, vars
<1> DEFINE f == frames[p]
<1>2. PICK item \in f.items :
         /\ Become(p, [f EXCEPT !.step = "remove.find", !.cred = item.cred, !.items = @ \ {item}])
         /\ revoked' \in {revoked, revoked \cup ({item.token} \cap Grants)}
  BY <1>1 DEF Revoke
<1>3. g = item.token /\ g \in Grants
  BY <1>2
<1>4. f \in Frame /\ f.kind = "disconnect" /\ frames \in [Requests -> Frame]
  BY <1>1 DEF Revoke, At, OwnInv, SendInv, SendFrame, LoopFrame, TypeInv, TypeOK
<1>5. item.cred \in CredIds /\ Named(item.cred, g)
  BY <1>3, <1>4 DEF Frame, Item, Named, NamedBy
<1>6. frames'[p].kind = "disconnect" /\ frames'[p].cred = item.cred
  BY <1>2, <1>4 DEF Become, Frame
<1>7. Doomed(item.cred)'
  BY <1>6 DEF Doomed, BeingRemoved
<1>8. vault' = vault
  BY <1>1 DEF Revoke
<1>9. Shrinks
  BY <1>1, <1>8, ReadOwns, FollowsShrinks DEF Named
<1> QED BY <1>3, <1>5, <1>7, <1>9

LEMMA NextOwn == ASSUME GrantsComeFromGoogle PROVE OwnInv /\ [Next]_vars => OwnInv'
<1> SUFFICES ASSUME OwnInv, [Next]_vars PROVE OwnInv'
  OBVIOUS
<1>1. SendInv' /\ BlankInv' /\ \A p \in Requests : OwnFrame(vault', frames'[p])
  BY NextSends, BlankStep, NextOwns DEF OwnInv
<1>2. OneOwner' /\ OneCarrier'
  BY NextFlows, ShrinksKeeps, MovesKeeps, ReceivesKeeps
<1>3. \A d, g : \A p \in Requests : NamedBy(frames[p], d, g) => Named(d, g)
  BY DEF Named
<1>4. ASSUME NEW g \in Grants, consents'[g].account = NoText
      PROVE  g \notin revoked' /\ \A d \in Places : ~Named(d, g)'
  <2>1. consents[g].account = NoText
    <3>1. consents' = consents \/ \E h \in Grants, a \in Accounts, refresh \in RefreshAnswers, p \in Requests :
             Callback(p, h, a, refresh)
      BY DEF Next, Start, Continue, PatchCredential, EditListed, RemoveCredential, EnterKey,
         ChooseSheet, Disconnect, Create, UpdateLoad, UpdateSave, UpsertList, Revoke, RemoveFind,
         RemoveDelete, PostCredential, Crash, history, vars
    <3>2. ASSUME NEW h \in Grants, NEW a \in Accounts, NEW refresh \in RefreshAnswers, NEW p \in Requests,
                 Callback(p, h, a, refresh)
          PROVE  consents[g].account = NoText
      BY <1>4, <3>2, VaultInputsAssumption DEF Callback, OwnInv, SendInv, TypeInv, TypeOK
    <3> QED BY <1>4, <3>1, <3>2
  <2>2. g \notin revoked /\ \A d \in Places : ~Named(d, g)
    BY <2>1 DEF OwnInv, FreshInv
  <2>3. \A d \in Places : ~Named(d, g)'
    BY <1>3, <1>4, <2>2, NextFlows DEF Shrinks, Moves, Receives, Places
  <2>4. g \notin revoked'
    BY <2>2, RevokedStep DEF Places
  <2> QED BY <2>3, <2>4
<1>5. ASSUME NEW g \in revoked', NEW d \in Places, Named(d, g)'
      PROVE  d \in CredIds /\ Doomed(d)'
  <2>1. CASE g \in revoked
    <3>1. g \in Grants /\ consents[g].account # NoText /\ ~Named(NoCred, g)
      BY <2>1, VaultInputsAssumption DEF OwnInv, SendInv, TypeInv, TypeOK, FreshInv, DoomedInv, Places
    <3>2. Named(d, g)
      BY <1>3, <1>5, <3>1, NextFlows DEF Shrinks, Moves, Receives
    <3>3. d \in CredIds /\ Doomed(d)
      BY <2>1, <3>2 DEF OwnInv, DoomedInv
    <3> QED BY <3>3, DoomedStays
  <2>2. CASE g \notin revoked
    <3>1. Shrinks /\ g \in Grants
      BY <2>2, RevokedStep
    <3>2. PICK c \in CredIds : Named(c, g) /\ Doomed(c)'
      BY <2>2, RevokedStep
    <3>3. Named(d, g)
      BY <1>5, <3>1 DEF Shrinks
    <3>4. d = c
      BY <3>1, <3>2, <3>3 DEF OwnInv, OneOwner, Places
    <3> QED BY <3>2, <3>4
  <2> QED BY <2>1, <2>2
<1>6. FreshInv' /\ DoomedInv'
  BY <1>4, <1>5 DEF FreshInv, DoomedInv
<1> QED BY <1>1, <1>2, <1>6 DEF OwnInv

LEMMA InitOwn == ASSUME GrantsComeFromGoogle PROVE Init => OwnInv
<1> SUFFICES ASSUME Init PROVE OwnInv
  OBVIOUS
<1>1. /\ \A p \in Requests : frames[p] = Idle
      /\ revoked = {}
      /\ \A c \in CredIds : vault[c] = Unborn \/ vault[c] \in Initial
  BY DEF Init
<1>2. \A c \in CredIds : Held(vault[c].data) = {}
  BY <1>1, HeldNothing DEF GrantsComeFromGoogle, Unborn
<1>3. \A d, g : ~Named(d, g)
  BY <1>1, <1>2, IdleNames DEF Named
<1>4. OneOwner /\ FreshInv /\ DoomedInv
  BY <1>1, <1>3 DEF OneOwner, FreshInv, DoomedInv
<1>5. OneCarrier /\ \A p \in Requests : OwnFrame(vault, frames[p])
  BY <1>1, IdleNames, IdleOwns DEF OneCarrier
<1>6. BlankInv
  BY <1>1, InitialAssumption DEF BlankInv, Unborn, CredentialTypes
<1> QED BY <1>4, <1>5, <1>6, InitSends DEF OwnInv

(* Whatever requests interleave and whenever the process dies: if grants come from
   Google only, a token Google has revoked is kept only where its disconnect is about
   to delete it, or was cut off.  A grant belongs to one credential, in the vault and
   in every handler, and no handler brings a credential back. *)
THEOREM RevokedTokensGo == ASSUME GrantsComeFromGoogle PROVE Spec => []RevokedIsNotKept
<1>1. ASSUME OwnInv, NEW c \in CredIds, NEW g \in revoked,
             g \in {TextOf(vault[c].data, "accessToken"), TextOf(vault[c].data, "refreshToken")}
      PROVE  BeingRemoved(c) \/ c \in cutOff
  <2>1. g \in Held(vault[c].data)
    BY <1>1 DEF Held, OwnInv, SendInv, TypeInv, TypeOK
  <2>2. Doomed(c)
    BY <1>1, <2>1 DEF OwnInv, DoomedInv, Named, Places
  <2>3. vault[c].type # "removed"
    BY <1>1, <2>1, HeldNothing DEF OwnInv, BlankInv, Removed
  <2> QED BY <2>2, <2>3 DEF Doomed
<1>2. OwnInv => RevokedIsNotKept
  BY <1>1 DEF RevokedIsNotKept
<1> QED BY <1>2, InitOwn, NextOwn, PTL DEF Spec

------------------------------------------------------------------------------
(* Tokens and their account *)

(* A grant comes with the account and the refresh token it was answered with. *)
Fits(answers, data) ==
    \A g \in Grants :
        TextOf(data, "accessToken") = g =>
            /\ answers[g].account # NoText
            /\ TextOf(data, "email") = answers[g].account
            /\ answers[g].refresh => TextOf(data, "refreshToken") = g

(* A handler sends tokens that fit, unless it listed them from a credential that was
   retyped; its save puts them in place of others that fit, or leaves the tokens and
   their account as it loaded them. *)
FitFrame(answers, marked, f) ==
    /\ (f.kind = "sheet" /\ f.cred \in marked) \/ Fits(answers, f.patch.data)
    /\ f.step = "update.save" =>
          f.cred \in marked \/ (Fits(answers, f.loaded.data) /\ ~Retypes(f.loaded, f.patch))

AgreeInv ==
    /\ SendInv
    /\ \A c \in CredIds \ retyped : Fits(consents, vault[c].data)
    /\ \A p \in Requests : FitFrame(consents, retyped, frames[p])

LEMMA NoGrantFits ==
    ASSUME NEW answers, NEW data, TextOf(data, "accessToken") \notin Grants PROVE Fits(answers, data)
  BY DEF Fits

LEMMA FitsNothing ==
    ASSUME NEW answers
    PROVE  /\ Fits(answers, NoData)
           /\ \A key : Fits(answers, With(NoData, "apiKey", key))
<1>1. ASSUME NEW data, data["accessToken"] = Absent PROVE Fits(answers, data)
  BY <1>1, NoGrant, NoGrantFits DEF TextOf, Absent
<1> QED BY <1>1 DEF NoData, With, Fields

(* Only texts count. *)
LEMMA SameFits ==
    ASSUME NEW answers, NEW data, NEW other, Fits(answers, data),
           \A f \in {"accessToken", "email", "refreshToken"} : TextOf(other, f) = TextOf(data, f)
    PROVE  Fits(answers, other)
  BY DEF Fits

LEMMA SealedFits ==
    ASSUME NEW answers, NEW data \in Data, Fits(answers, data)
    PROVE  /\ Fits(answers, EncryptSensitiveFields(data))
           /\ Fits(answers, DecryptSensitiveFields(data))
<1>1. \A f \in Fields : TextOf(EncryptSensitiveFields(data), f) = TextOf(data, f)
  BY Encryption
<1>2. \A f \in Fields : TextOf(DecryptSensitiveFields(data), f) = TextOf(data, f)
  BY DEF DecryptSensitiveFields, Plain, TextOf
<1>3. {"accessToken", "email", "refreshToken"} \subseteq Fields
  BY DEF Fields
<1>4. Fits(answers, EncryptSensitiveFields(data))
  BY <1>1, <1>3, SameFits
<1>5. Fits(answers, DecryptSensitiveFields(data))
  BY <1>2, <1>3, SameFits
<1> QED BY <1>4, <1>5

(* Whatever comes between, a save leaves tokens that fit: the patch brings the access
   token and all that belongs to it, or nothing that differs from what was loaded. *)
LEMMA AssignedFits ==
    ASSUME NEW answers, NEW doc \in CredentialDoc, NEW patch \in Patch,
           \A g \in Grants : answers[g].account \in Accounts \cup {NoText},
           Fits(answers, doc.data), Fits(answers, patch.data), ~Retypes(doc, patch)
    PROVE  Fits(answers, Assigned(doc, patch).data)
<1> DEFINE new == Assigned(doc, patch).data
           Brings(f) == patch.data[f] \notin {Absent, Plain(MaskText)}
<1>1. \A f \in Fields : TextOf(new, f) = IF Brings(f) THEN TextOf(patch.data, f) ELSE TextOf(doc.data, f)
  BY AssignedText
<1>2. {"accessToken", "email", "refreshToken"} \subseteq Fields
  BY DEF Fields
<1>3. \A f : TextOf(patch.data, f) \notin {NoText, MaskText} => Brings(f)
  BY DEF TextOf, Plain, Absent
<1>4. ~Brings("accessToken") =>
         \A f \in {"email", "refreshToken"} : Brings(f) => TextOf(patch.data, f) = TextOf(doc.data, f)
  BY <1>2 DEF Retypes, StripMaskedPlaceholders, TextOf
<1> HIDE DEF new, Brings
<1>5. CASE ~Brings("accessToken")
  <2>1. \A f \in {"accessToken", "email", "refreshToken"} : TextOf(new, f) = TextOf(doc.data, f)
    BY <1>1, <1>2, <1>4, <1>5
  <2> QED BY <2>1, SameFits DEF new
<1>6. CASE Brings("accessToken")
  <2>1. ASSUME NEW g \in Grants, TextOf(new, "accessToken") = g
        PROVE  /\ answers[g].account # NoText
               /\ TextOf(new, "email") = answers[g].account
               /\ answers[g].refresh => TextOf(new, "refreshToken") = g
    <3>1. TextOf(patch.data, "accessToken") = g
      BY <1>1, <1>2, <1>6, <2>1
    <3>2. /\ answers[g].account # NoText /\ TextOf(patch.data, "email") = answers[g].account
          /\ answers[g].refresh => TextOf(patch.data, "refreshToken") = g
      BY <3>1 DEF Fits
    <3>3. answers[g].account \notin {NoText, MaskText} /\ g \notin {NoText, MaskText}
      BY <3>2, VaultInputsAssumption
    <3> QED BY <1>1, <1>2, <1>3, <3>2, <3>3
  <2> QED BY <2>1 DEF Fits, new
<1> QED BY <1>5, <1>6

LEMMA IdleFits == ASSUME NEW answers, NEW marked PROVE FitFrame(answers, marked, Idle)
  BY FitsNothing DEF FitFrame, Idle, NoPatch

(* A handler that is not about to save stays fit with what it sends. *)
LEMMA KeepsFit ==
    ASSUME NEW answers, NEW marked, NEW f, FitFrame(answers, marked, f),
           NEW g, g.kind = f.kind, g.patch = f.patch, f.kind = "sheet" => g.cred = f.cred,
           g.step # "update.save"
    PROVE  FitFrame(answers, marked, g)
  BY DEF FitFrame

LEMMA LoadedFits ==
    ASSUME AgreeInv, NEW p \in Requests, NEW f \in Frame, Loaded(p, f), f.cred \in CredIds,
           FitFrame(consents, retyped, f)
    PROVE  \E g : Become(p, g) /\ FitFrame(consents, retyped', g)
<1>1. retyped \subseteq retyped' /\ (Retypes(vault[f.cred], f.patch) => f.cred \in retyped')
  BY DEF Loaded
<1>2. FitFrame(consents, retyped', f)
  BY <1>1 DEF FitFrame
<1>3. CASE Become(p, [f EXCEPT !.step = "create"])
  <2> DEFINE g == [f EXCEPT !.step = "create"]
  <2>1. g.kind = f.kind /\ g.patch = f.patch /\ g.cred = f.cred /\ g.step = "create" /\ Become(p, g)
    BY <1>3 DEF Frame
  <2> HIDE DEF g
  <2> QED BY <1>2, <2>1, KeepsFit
<1>4. CASE Throw(p)
  BY <1>4, IdleFits DEF Throw, Return
<1>5. CASE Become(p, [f EXCEPT !.step = "update.save", !.loaded = vault[f.cred]])
  <2> DEFINE g == [f EXCEPT !.step = "update.save", !.loaded = vault[f.cred]]
  <2>1. g.kind = f.kind /\ g.patch = f.patch /\ g.cred = f.cred /\ g.loaded = vault[f.cred] /\ Become(p, g)
    BY <1>5 DEF Frame
  <2> HIDE DEF g
  <2>2. f.cred \notin retyped' => Fits(consents, g.loaded.data) /\ ~Retypes(g.loaded, g.patch)
    BY <1>1, <2>1 DEF AgreeInv
  <2>3. FitFrame(consents, retyped', g)
    BY <1>2, <2>1, <2>2 DEF FitFrame
  <2> QED BY <2>1, <2>3
<1> QED BY <1>3, <1>4, <1>5 DEF Loaded

(* What upsertGoogleOAuth sends: the tokens Google answered with, their account, and
   an earlier refresh token only where none came. *)
LEMMA UpsertFits ==
    ASSUME NEW answers, NEW tokens \in Data, NEW previous \in Data, Fits(answers, tokens),
           TextOf(tokens, "accessToken") \in Grants, TextOf(tokens, "email") \in Accounts
    PROVE  Fits(answers, UpsertData(tokens, previous))
<1> DEFINE new == UpsertData(tokens, previous)
<1>1. Has(tokens, "accessToken") /\ Has(tokens, "email")
  BY VaultInputsAssumption DEF Has
<1>2. /\ TextOf(new, "accessToken") = TextOf(tokens, "accessToken")
      /\ TextOf(new, "email") = TextOf(tokens, "email")
      /\ Has(tokens, "refreshToken") => TextOf(new, "refreshToken") = TextOf(tokens, "refreshToken")
  BY <1>1, UpsertTexts
<1> HIDE DEF new
<1>3. \A g \in Grants : TextOf(tokens, "refreshToken") = g => Has(tokens, "refreshToken")
  BY NoGrant DEF Has
<1>4. Fits(answers, new)
  BY <1>2, <1>3 DEF Fits
<1> QED BY <1>4 DEF new

LEMMA StartFits ==
    ASSUME AgreeInv, GrantsComeFromGoogle, NEW p \in Requests, Start(p)
    PROVE  \E f : Become(p, f) /\ FitFrame(consents', retyped', f)
<1>1. ASSUME NEW c \in CredIds, NEW patch \in Patches, PatchCredential(p, c, patch)
      PROVE  \E f : Become(p, f) /\ FitFrame(consents', retyped', f)
  <2> DEFINE f == [Idle EXCEPT !.kind = "patch", !.cred = c, !.patch = patch]
  <2>1. f \in Frame /\ f.kind = "patch" /\ f.cred = c /\ f.step = "idle" /\ f.patch = patch
    BY IdleProper, BodiesAssumption DEF Proper, Frame, Kinds, Idle
  <2>2. Loaded(p, f) /\ consents' = consents
    BY <1>1 DEF PatchCredential
  <2> HIDE DEF f
  <2>3. TextOf(patch.data, "accessToken") \notin Grants
    BY DEF GrantsComeFromGoogle, Held
  <2>4. FitFrame(consents, retyped, f)
    BY <2>1, <2>3, NoGrantFits DEF FitFrame
  <2> QED BY <2>1, <2>2, <2>4, LoadedFits
<1>2. ASSUME NEW f, Become(p, f), Fits(consents', f.patch.data), f.step # "update.save"
      PROVE  \E g : Become(p, g) /\ FitFrame(consents', retyped', g)
  BY <1>2 DEF FitFrame
<1>3. ASSUME NEW c \in CredIds, EditListed(p, c)
      PROVE  \E f : Become(p, f) /\ FitFrame(consents', retyped', f)
  <2> DEFINE data == MaskSensitiveFields(vault[c].data)
             f == [Idle EXCEPT !.step = "update.load", !.kind = "edit", !.cred = c,
                               !.patch.label = TRUE, !.patch.data = data]
  <2>1. Become(p, f)
    BY <1>3 DEF EditListed
  <2>2. TextOf(data, "accessToken") \in {MaskText, NoText}
    BY DEF MaskSensitiveFields, Plain, IsSecret, Has, TextOf, SensitiveKeys, Fields
  <2> HIDE DEF data
  <2>3. f.step = "update.load" /\ f.patch.data = data
    BY DEF Idle, NoPatch
  <2> HIDE DEF f
  <2> QED BY <1>2, <2>1, <2>2, <2>3, NoGrant, NoGrantFits
<1>4. ASSUME NEW c \in CredIds, RemoveCredential(p, c)
      PROVE  \E f : Become(p, f) /\ FitFrame(consents', retyped', f)
  BY <1>2, <1>4, FitsNothing DEF RemoveCredential, Idle, NoPatch
<1>5. ASSUME NEW key \in Keys, NEW c \in CredIds \cup {NoCred}, EnterKey(p, key, c)
      PROVE  \E f : Become(p, f) /\ FitFrame(consents', retyped', f)
  <2> DEFINE data == With(NoData, "apiKey", key)
             f == [Idle EXCEPT !.step = IF c = NoCred THEN "create" ELSE "update.load",
                               !.kind = "key", !.cred = c, !.patch.label = TRUE, !.patch.data = data]
  <2>1. Become(p, f)
    BY <1>5 DEF EnterKey
  <2>2. Fits(consents', data)
    BY FitsNothing
  <2> HIDE DEF data
  <2>3. f.step # "update.save" /\ f.patch.data = data
    BY DEF Idle, NoPatch
  <2> HIDE DEF f
  <2> QED BY <1>2, <2>1, <2>2, <2>3
<1>6. ASSUME NEW sheet \in Sheets, ChooseSheet(p, sheet)
      PROVE  \E f : Become(p, f) /\ FitFrame(consents', retyped', f)
  <2> DEFINE c == Latest(List("google-oauth"))
             old == DecryptSensitiveFields(vault[c].data)
             data == With(old, "spreadsheetId", sheet)
             f == [Idle EXCEPT !.step = "update.load", !.kind = "sheet", !.cred = c, !.patch.data = data]
  <2>1. List("google-oauth") \in SUBSET CredIds /\ List("google-oauth") # {}
    BY <1>6 DEF List, ChooseSheet
  <2>2. c \in CredIds
    BY <2>1, LatestOfSome DEF AgreeInv, SendInv, TypeInv, TypeOK
  <2>3. Become(p, f) /\ consents' = consents /\ retyped' = retyped
    BY <1>6 DEF ChooseSheet, history
  <2> HIDE DEF c
  <2>4. vault[c].data \in Data /\ (c \in retyped \/ Fits(consents, vault[c].data))
    BY <2>2 DEF AgreeInv, SendInv, TypeInv, TypeOK, CredentialDoc
  <2>5. c \in retyped \/ Fits(consents, old)
    BY <2>4, SealedFits
  <2>6. \A field \in {"accessToken", "email", "refreshToken"} : data[field] = old[field]
    BY DEF With, DecryptSensitiveFields, Fields
  <2> HIDE DEF old
  <2>7. c \in retyped \/ Fits(consents, data)
    BY <2>5, <2>6, SameFits DEF TextOf
  <2> HIDE DEF data
  <2>8. f.step = "update.load" /\ f.kind = "sheet" /\ f.cred = c /\ f.patch.data = data
    BY DEF Idle, NoPatch
  <2> HIDE DEF f
  <2> QED BY <2>3, <2>7, <2>8 DEF FitFrame
<1>7. ASSUME NEW g \in Grants, NEW a \in Accounts, NEW refresh \in RefreshAnswers, Callback(p, g, a, refresh)
      PROVE  \E f : Become(p, f) /\ FitFrame(consents', retyped', f)
  <2> DEFINE tokens == With(With(NoData, "email", a), "accessToken", g)
             data == IF refresh THEN With(tokens, "refreshToken", g) ELSE tokens
             f == [Idle EXCEPT !.step = "upsert.list", !.kind = "callback", !.patch.label = TRUE,
                               !.patch.data = data]
  <2>1. Become(p, f)
    BY <1>7 DEF Callback
  <2>2. /\ TextOf(data, "accessToken") = g /\ TextOf(data, "email") = a
        /\ refresh => TextOf(data, "refreshToken") = g
    BY DEF With, Plain, TextOf, NoData, Fields
  <2> HIDE DEF data
  <2>3. consents'[g] = [account |-> a, refresh |-> refresh]
    BY <1>7 DEF Callback, AgreeInv, SendInv, TypeInv, TypeOK
  <2>4. Fits(consents', data)
    BY <2>2, <2>3, VaultInputsAssumption DEF Fits
  <2>5. f.step = "upsert.list" /\ f.patch.data = data
    BY DEF Idle, NoPatch
  <2> HIDE DEF f
  <2> QED BY <1>2, <2>1, <2>4, <2>5
<1>8. ASSUME Disconnect(p) PROVE \E f : Become(p, f) /\ FitFrame(consents', retyped', f)
  <2> DEFINE items == {[cred |-> c, token |-> TokenOf(vault[c].data)] : c \in List("google-oauth")}
             f == [Idle EXCEPT !.step = "disconnect.revoke", !.kind = "disconnect",
                               !.listed = List("google-oauth"), !.items = items]
  <2>1. Become(p, f)
    BY <1>8 DEF Disconnect
  <2> HIDE DEF items
  <2>2. f.step = "disconnect.revoke" /\ f.patch = NoPatch
    BY DEF Idle
  <2> HIDE DEF f
  <2> QED BY <1>2, <2>1, <2>2, FitsNothing DEF NoPatch
<1> QED BY <1>1, <1>3, <1>4, <1>5, <1>6, <1>7, <1>8, VaultInputsAssumption DEF Start

LEMMA ContinueFits ==
    ASSUME AgreeInv, NEW p \in Requests, Continue(p)
    PROVE  \E g : Become(p, g) /\ FitFrame(consents, retyped', g)
<1> DEFINE f == frames[p]
<1>1. f \in Frame /\ f.patch \in Patch /\ f.patch.data \in Data /\ FitFrame(consents, retyped, f) /\ SendFrame(f)
  BY DEF AgreeInv, SendInv, TypeInv, TypeOK, Frame, Patch
<1>2. CASE Return(p) \/ Throw(p)
  BY <1>2, IdleFits DEF Return, Throw
<1>3. CASE UpdateLoad(p)
  <2>1. f.cred \in CredIds
    BY <1>3 DEF UpdateLoad, At, AgreeInv, SendInv, TypeInv, FramesNameCreds, CredSteps
  <2> QED BY <1>1, <1>3, <2>1, LoadedFits DEF UpdateLoad
<1>4. CASE UpsertList(p)
  <2> DEFINE c == Existing(TextOf(f.patch.data, "email"))
             previous == Previous(TextOf(f.patch.data, "email"))
             data == UpsertData(f.patch.data, previous)
             g == [f EXCEPT !.step = IF c = NoCred THEN "create" ELSE "update.load",
                            !.cred = c, !.patch.data = data]
  <2>1. CASE Throw(p)
    BY <2>1, <1>2
  <2>2. CASE Become(p, g)
    <3>1. previous \in Data
      BY PreviousType, <1>1 DEF AgreeInv, SendInv
    <3>2. f.kind = "callback"
      BY <1>1, <1>4 DEF UpsertList, At, SendFrame
    <3>3. /\ TextOf(f.patch.data, "accessToken") \in Grants /\ TextOf(f.patch.data, "email") \in Accounts
          /\ Fits(consents, f.patch.data)
      BY <1>1, <3>2 DEF SendFrame, FitFrame
    <3> HIDE DEF previous, c
    <3>4. Fits(consents, data)
      BY <1>1, <3>1, <3>3, UpsertFits
    <3> HIDE DEF data
    <3>5. g.patch.data = data /\ g.step # "update.save"
      BY <1>1 DEF Frame, Patch
    <3> HIDE DEF g
    <3> QED BY <2>2, <3>4, <3>5 DEF FitFrame
  <2> QED BY <1>4, <2>1, <2>2 DEF UpsertList, Previous
<1>5. ASSUME NEW g, Become(p, g), g.kind = f.kind, g.patch = f.patch, g.step # "update.save",
             f.kind = "sheet" => g.cred = f.cred, retyped' = retyped
      PROVE  \E h : Become(p, h) /\ FitFrame(consents, retyped', h)
  BY <1>1, <1>5, KeepsFit
<1>6. CASE Revoke(p)
  <2>1. PICK item \in f.items :
           Become(p, [f EXCEPT !.step = "remove.find", !.cred = item.cred, !.items = @ \ {item}])
    BY <1>6 DEF Revoke
  <2> DEFINE g == [f EXCEPT !.step = "remove.find", !.cred = item.cred, !.items = @ \ {item}]
  <2>2. g.kind = f.kind /\ g.patch = f.patch /\ g.step = "remove.find"
    BY <1>1 DEF Frame
  <2>3. Become(p, g)
    BY <2>1
  <2>4. f.kind # "sheet" /\ retyped' = retyped
    BY <1>1, <1>6 DEF Revoke, At, SendFrame, LoopFrame
  <2> HIDE DEF g
  <2> QED BY <1>5, <2>2, <2>3, <2>4
<1>7. CASE RemoveFind(p)
  <2> DEFINE g == [f EXCEPT !.step = "remove.delete"]
  <2>1. g.kind = f.kind /\ g.patch = f.patch /\ g.step = "remove.delete" /\ g.cred = f.cred
    BY <1>1 DEF Frame
  <2>2. Become(p, g) \/ Throw(p)
    BY <1>7 DEF RemoveFind, Goto
  <2>3. retyped' = retyped
    BY <1>7 DEF RemoveFind, history
  <2> HIDE DEF g
  <2> QED BY <1>2, <1>5, <2>1, <2>2, <2>3
<1>8. CASE RemoveDelete(p)
  <2> DEFINE g == [f EXCEPT !.step = "disconnect.revoke", !.items = f.items, !.cred = NoCred]
  <2>1. g.kind = f.kind /\ g.patch = f.patch /\ g.step = "disconnect.revoke"
    BY <1>1 DEF Frame
  <2>2. Become(p, g) \/ Return(p)
    BY <1>8 DEF RemoveDelete, NextItem
  <2>3. f.kind # "sheet" /\ retyped' = retyped
    BY <1>1, <1>8 DEF RemoveDelete, At, SendFrame, LoopFrame
  <2> HIDE DEF g
  <2> QED BY <1>2, <1>5, <2>1, <2>2, <2>3
<1> QED BY <1>2, <1>3, <1>4, <1>6, <1>7, <1>8 DEF Continue, Create, UpdateSave

(* What is stored fits: creations and saves write tokens that do. *)
LEMMA StoredFits ==
    ASSUME AgreeInv, GrantsComeFromGoogle, [Next]_vars, NEW c \in CredIds \ retyped
    PROVE  Fits(consents, vault'[c].data)
<1>1. /\ vault \in [CredIds -> CredentialDoc] /\ Fits(consents, vault[c].data) /\ TypeInv
      /\ \A g \in Grants : consents[g].account \in Accounts \cup {NoText}
  BY DEF AgreeInv, SendInv, TypeInv, TypeOK
<1>2. ASSUME NEW type, NEW n8n, NEW data \in Data, Fits(consents, data), Insert(type, n8n, data)
      PROVE  Fits(consents, vault'[c].data)
  <2>1. PICK d \in CredIds :
           vault' = [vault EXCEPT ![d] = [type |-> type, n8n |-> n8n, data |-> EncryptSensitiveFields(data)]]
    BY <1>2 DEF Insert
  <2>2. Fits(consents, EncryptSensitiveFields(data))
    BY <1>2, SealedFits
  <2> QED BY <1>1, <2>1, <2>2
<1>3. CASE vault' = vault
  BY <1>1, <1>3
<1>4. ASSUME NEW p \in Requests, Create(p) PROVE Fits(consents, vault'[c].data)
  <2>1. frames[p].kind # "sheet"
    BY <1>4 DEF Create, At, AgreeInv, SendInv, SendFrame, Upserts
  <2>2. frames[p].patch.data \in Data /\ Fits(consents, frames[p].patch.data)
    BY <2>1 DEF AgreeInv, SendInv, TypeInv, TypeOK, Frame, Patch, FitFrame
  <2> QED BY <1>2, <1>4, <2>2 DEF Create
<1>5. ASSUME NEW p \in Requests, UpdateSave(p) PROVE Fits(consents, vault'[c].data)
  <2> DEFINE f == frames[p]
             doc == Assigned(f.loaded, f.patch)
  <2>1. CASE ~(Present(f.cred) /\ f.cred = c)
    <3>1. vault'[c] = vault[c]
      BY <1>1, <1>5, <2>1, SaveLeaves DEF UpdateSave
    <3> QED BY <1>1, <3>1
  <2>2. CASE Present(f.cred) /\ f.cred = c
    <3>1. f.loaded \in CredentialDoc /\ f.patch \in Patch
      BY DEF AgreeInv, SendInv, TypeInv, TypeOK, Frame
    <3>2. Fits(consents, f.loaded.data) /\ Fits(consents, f.patch.data) /\ ~Retypes(f.loaded, f.patch)
      BY <1>5, <2>2 DEF AgreeInv, FitFrame, UpdateSave, At
    <3>3. Fits(consents, doc.data)
      BY <1>1, <3>1, <3>2, AssignedFits
    <3>4. vault'[c] = SaveCredential(doc, f.loaded, f.patch, vault[c])
      BY <1>1, <1>5, <2>2, SaveLeaves
    <3> HIDE DEF doc
    <3>5. vault'[c].data \in {vault[c].data, doc.data}
      BY <3>4 DEF SaveCredential
    <3> QED BY <1>1, <3>3, <3>5
  <2> QED BY <2>1, <2>2
<1>6. ASSUME NEW p \in Requests, RemoveDelete(p) PROVE Fits(consents, vault'[c].data)
  <2>1. Fits(consents, Removed.data)
    BY FitsNothing DEF Removed
  <2>2. vault'[c] \in {vault[c], Removed}
    BY <1>1, <1>6 DEF RemoveDelete
  <2> QED BY <1>1, <2>1, <2>2
<1>7. ASSUME NEW body \in Posts, PostCredential(body) PROVE Fits(consents, vault'[c].data)
  <2>1. body.data \in Data
    BY BodiesAssumption DEF CredentialDoc
  <2>2. TextOf(body.data, "accessToken") \notin Grants
    BY DEF GrantsComeFromGoogle, Held
  <2>3. Fits(consents, body.data)
    BY <2>2, NoGrantFits
  <2> QED BY <1>2, <1>7, <2>1, <2>3 DEF PostCredential
<1>8. ASSUME NEW p \in Requests, Start(p) PROVE vault' = vault
  BY <1>8 DEF Start, PatchCredential, EditListed, RemoveCredential, EnterKey, Callback,
     ChooseSheet, Disconnect
<1>9. ASSUME NEW p \in Requests, Continue(p) PROVE Fits(consents, vault'[c].data)
  <2>1. CASE UpdateLoad(p) \/ UpsertList(p) \/ Revoke(p) \/ RemoveFind(p)
    BY <1>3, <2>1 DEF UpdateLoad, UpsertList, Revoke, RemoveFind
  <2> QED BY <1>4, <1>5, <1>6, <1>9, <2>1 DEF Continue
<1> QED BY <1>3, <1>7, <1>8, <1>9 DEF Next, Crash, vars

(* A credential stays retyped. *)
LEMMA RetypedStays == ASSUME [Next]_vars PROVE retyped \subseteq retyped'
<1>1. ASSUME NEW p, NEW f, Loaded(p, f) PROVE retyped \subseteq retyped'
  BY <1>1 DEF Loaded
<1>2. ASSUME NEW p \in Requests, Start(p) PROVE retyped \subseteq retyped'
  BY <1>1, <1>2 DEF Start, PatchCredential, EditListed, RemoveCredential, EnterKey, Callback,
     ChooseSheet, Disconnect, history
<1>3. ASSUME NEW p \in Requests, Continue(p) PROVE retyped \subseteq retyped'
  BY <1>1, <1>3 DEF Continue, Create, UpdateLoad, UpdateSave, UpsertList, Revoke, RemoveFind,
     RemoveDelete, history
<1> QED BY <1>2, <1>3 DEF Next, PostCredential, Crash, history, vars

(* Only a grant that had no account gets one, and what fits names none of these. *)
LEMMA AnswersStay ==
    ASSUME AgreeInv, [Next]_vars, NEW data, Fits(consents, data)
    PROVE  Fits(consents', data)
<1>1. CASE consents' = consents
  BY <1>1
<1>2. ASSUME NEW h \in Grants, NEW a \in Accounts, NEW refresh \in RefreshAnswers, NEW p \in Requests,
             Callback(p, h, a, refresh)
      PROVE  Fits(consents', data)
  <2>1. \A g \in Grants : consents[g].account # NoText => consents'[g] = consents[g]
    BY <1>2 DEF Callback, AgreeInv, SendInv, TypeInv, TypeOK
  <2> QED BY <2>1 DEF Fits
<1>3. consents' = consents \/ \E h \in Grants, a \in Accounts, refresh \in RefreshAnswers, p \in Requests :
         Callback(p, h, a, refresh)
  BY DEF Next, Start, Continue, PatchCredential, EditListed, RemoveCredential, EnterKey,
     ChooseSheet, Disconnect, Create, UpdateLoad, UpdateSave, UpsertList, Revoke, RemoveFind,
     RemoveDelete, PostCredential, Crash, history, vars
<1> QED BY <1>1, <1>2, <1>3

LEMMA NextAgree == ASSUME GrantsComeFromGoogle PROVE AgreeInv /\ [Next]_vars => AgreeInv'
<1> SUFFICES ASSUME AgreeInv, [Next]_vars PROVE AgreeInv'
  OBVIOUS
<1>1. SendInv' /\ frames \in [Requests -> Frame] /\ retyped \subseteq retyped'
  BY NextSends, RetypedStays DEF AgreeInv, SendInv, TypeInv, TypeOK
<1>2. \A c \in CredIds \ retyped' : Fits(consents', vault'[c].data)
  BY <1>1, StoredFits, AnswersStay
<1>3. \A f, marked : FitFrame(consents, marked, f) => FitFrame(consents', marked, f)
  BY AnswersStay DEF FitFrame
<1>4. \A f : FitFrame(consents, retyped, f) => FitFrame(consents', retyped', f)
  BY <1>1, <1>3 DEF FitFrame
<1>5. ASSUME NEW p \in Requests, \E g : Become(p, g) /\ FitFrame(consents', retyped', g)
      PROVE  \A q \in Requests : FitFrame(consents', retyped', frames'[q])
  BY <1>1, <1>4, <1>5 DEF AgreeInv, Become
<1>6. ASSUME NEW p \in Requests, Continue(p)
      PROVE  \A q \in Requests : FitFrame(consents', retyped', frames'[q])
  BY <1>3, <1>5, <1>6, ContinueFits
<1>7. ASSUME frames' = frames PROVE \A q \in Requests : FitFrame(consents', retyped', frames'[q])
  BY <1>4, <1>7 DEF AgreeInv
<1>8. ASSUME Crash PROVE \A q \in Requests : FitFrame(consents', retyped', frames'[q])
  BY <1>8, IdleFits DEF Crash
<1>9. \A p \in Requests : FitFrame(consents', retyped', frames'[p])
  BY <1>5, <1>6, <1>7, <1>8, StartFits DEF Next, PostCredential, vars
<1> QED BY <1>1, <1>2, <1>9 DEF AgreeInv

LEMMA InitAgree == ASSUME GrantsComeFromGoogle PROVE Init => AgreeInv
<1> SUFFICES ASSUME Init PROVE AgreeInv
  OBVIOUS
<1>1. /\ \A p \in Requests : frames[p] = Idle
      /\ \A c \in CredIds : vault[c] = Unborn \/ vault[c] \in Initial
  BY DEF Init
<1>2. \A doc \in Initial : Fits(consents, doc.data)
  BY NoGrantFits DEF GrantsComeFromGoogle, Held
<1>3. Fits(consents, Unborn.data)
  BY FitsNothing DEF Unborn
<1> QED BY <1>1, <1>2, <1>3, IdleFits, InitSends DEF AgreeInv

(* Whatever requests interleave, partial PATCHes and forms filled from a masked listing
   included: unless some update renamed the credential apart from its access token, an
   access token that Google answered with is stored with its account and its refresh
   token, if only Google hands out grants.  A callback sends all of them and a choice of
   spreadsheet all it listed, so either save puts a whole set in place of another. *)
THEOREM TokensStayTogether == ASSUME GrantsComeFromGoogle PROVE Spec => []TokensAgree
<1>1. AgreeInv => TokensAgree
  BY DEF AgreeInv, Fits, TokensAgree
<1> QED BY <1>1, InitAgree, NextAgree, PTL DEF Spec
=============================================================================
