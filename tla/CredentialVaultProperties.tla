---------------------- MODULE CredentialVaultProperties ----------------------
(* What makes the vault and the Google connection correct. *)
EXTENDS CredentialVault

(* Every variable keeps its type. *)
TypeOK ==
    /\ vault \in [CredIds -> CredentialDoc]
    /\ updatedAt \in [CredIds -> 0..Cardinality(CredIds)]
    /\ frames \in [Requests -> Frame]
    /\ consents \in [Grants -> [account : Accounts \cup {NoText}, refresh : BOOLEAN]]
    /\ revoked \subseteq Grants
    /\ disconnected \subseteq CredIds /\ cutOff \subseteq CredIds /\ retyped \subseteq CredIds
    /\ crashes \in 0..MaxCrashes

(* A removed credential never comes back, whatever a handler that loaded it
   before still means to save. *)
RemovedStaysRemoved ==
    [][\A c \in CredIds : vault[c] = Removed => vault'[c] = Removed]_vars

(* After a disconnect that was answered "disconnected", none of the credentials
   it found is left, whether or not Google revoked their tokens. *)
DisconnectRemovesAll == \A c \in disconnected : ~Present(c)

(* A token Google has revoked is stored only while the disconnect that revoked
   it is about to delete the credential, or when a crash kept it from doing so:
   nothing writes a revoked token back. *)
BeingRemoved(c) ==
    \E p \in Requests : frames[p].kind = "disconnect" /\ frames[p].cred = c

RevokedIsNotKept ==
    \A c \in CredIds :
        {TextOf(vault[c].data, "accessToken"), TextOf(vault[c].data, "refreshToken")} \cap revoked # {}
            => BeingRemoved(c) \/ c \in cutOff

(* The fields of a connection fit together: the email is the account the access
   token is for, and the refresh token is the one that came with it, if one did,
   however callbacks, whole and partial updates of one credential overlap.  Only an
   update that renames the connection apart from its access token can break this:
   a body of the email alone, or a form that was filled before another account was
   connected and sends the earlier email with masked tokens. *)
TokensAgree ==
    \A c \in CredIds \ retyped, g \in Grants :
        TextOf(vault[c].data, "accessToken") = g =>
            /\ TextOf(vault[c].data, "email") = consents[g].account
            /\ consents[g].refresh => TextOf(vault[c].data, "refreshToken") = g

(* Process p saves or creates a credential in this step. *)
Writes(p) ==
    /\ At(p, "create") \/ (At(p, "update.save") /\ Present(frames[p].cred))
    /\ frames'[p] # frames[p]
    /\ crashes' = crashes

(* Right after a callback has written its tokens the status shows its account as
   connected, and right after a request has written its spreadsheet the status
   shows that one, whatever else was written since they read the list: the
   credential written last is the primary one. *)
StatusShowsLastWrite ==
    [][\A p \in Requests :
          Writes(p) =>
            /\ frames[p].kind = "callback" =>
                  Status'.connected /\ Status'.email = TextOf(frames[p].patch.data, "email")
            /\ frames[p].kind = "sheet" =>
                  Status'.sheet = TextOf(frames[p].patch.data, "spreadsheetId")]_vars

(* With one request at a time, a reconnect keeps the spreadsheet the user chose,
   also when it is to another account. *)
ReconnectKeepsSheet ==
    [][\A p \in Requests :
          Writes(p) /\ frames[p].kind = "callback" /\ At(p, "update.save") =>
            LET c == frames[p].cred
            IN  TextOf(vault'[c].data, "spreadsheetId") = TextOf(vault[c].data, "spreadsheetId")]_vars

(* With one request at a time, consents never add up to a second connection. *)
OneConnection == Cardinality(List("google-oauth")) <= 1

(* Every save that carries data, or changes any, leaves every secret of its document
   sealed, those included that were stored in plain text before and that its body
   does not name.  A PATCH of only the label or the n8n id carries none and leaves
   such a document as it is. *)
SavedSecretsSealed ==
    [][/\ \A c \in CredIds :
             vault'[c].data # vault[c].data => AllSealed(vault'[c].data)
       /\ \A p \in Requests :
             At(p, "update.save") /\ Writes(p) /\ frames[p].patch.data # NoData =>
                AllSealed(vault'[frames[p].cred].data)]_vars

(* A save never leaves a document that can no longer be decrypted. *)
SavedSecretsReadable ==
    [][\A c \in CredIds :
          vault'[c].data # vault[c].data => Decryptable(vault'[c].data)]_vars

(* With one request at a time, sending a masked listing back changes no field. *)
MaskedEditKeepsData ==
    [][\A p \in Requests :
          Writes(p) /\ frames[p].kind = "edit" =>
            LET c == frames[p].cred
            IN  \A f \in Fields : TextOf(vault'[c].data, f) = TextOf(vault[c].data, f)]_vars

(* Every credential has what its type requires: "google-oauth requires
   n8nCredentialId or OAuth tokens in data" (credentials.service.ts:362). *)
CredentialsUsable ==
    \A c \in CredIds : Present(c) => Valid(vault[c].type, vault[c].n8n, vault[c].data)
=============================================================================
