--------------------------- MODULE FieldEncryption ---------------------------
(* The `data` object of a credential and what CryptoService does to its fields.

   A field is absent or has a text in some form: "plain" as typed, "sealed" as
   'enc:v1:' with a ciphertext this server's key opens, "unreadable" as
   'enc:v1:' with one it does not open (written under an earlier key).  AES-GCM
   is external: sealing loses nothing and is undone by the same key only. *)

CONSTANTS Texts         \* the texts fields can have

NoText == ""
MaskText == "********"

ASSUME TextsAssumption == {NoText, MaskText} \subseteq Texts

Fields == {"email", "accessToken", "refreshToken", "spreadsheetId", "apiKey", "siteUrl"}

(* The members of SENSITIVE_DATA_KEYS among them. *)
SensitiveKeys == {"apiKey", "accessToken", "refreshToken"}

Values == [form : {"absent", "plain", "sealed", "unreadable"}, text : Texts]
Data == [Fields -> Values]

Absent == [form |-> "absent", text |-> NoText]
Plain(text) == [form |-> "plain", text |-> text]

NoData == [f \in Fields |-> Absent]

(* {...data, [field]: text} *)
With(data, field, text) == [data EXCEPT ![field] = Plain(text)]

(* {...data, ...patch} *)
Merged(data, patch) == [f \in Fields |-> IF patch[f] = Absent THEN data[f] ELSE patch[f]]

(* data.field?.trim() ?? '' *)
TextOf(data, field) == data[field].text

Has(data, field) == TextOf(data, field) # NoText

(* A sensitive field that is not the empty string; the others are left alone. *)
IsSecret(data, f) == f \in SensitiveKeys /\ Has(data, f)

IsEncrypted(value) == value.form \in {"sealed", "unreadable"}

Encrypt(value) == IF IsEncrypted(value) THEN value ELSE [value EXCEPT !.form = "sealed"]

EncryptSensitiveFields(data) ==
    [f \in Fields |-> IF IsSecret(data, f) THEN Encrypt(data[f]) ELSE data[f]]

(* decrypt throws at the first secret the key does not open. *)
Decryptable(data) == \A f \in Fields : IsSecret(data, f) => data[f].form # "unreadable"

DecryptSensitiveFields(data) ==
    [f \in Fields |-> IF IsSecret(data, f) THEN Plain(data[f].text) ELSE data[f]]

(* What lists show. *)
MaskSensitiveFields(data) ==
    [f \in Fields |-> IF IsSecret(data, f) THEN Plain(MaskText) ELSE data[f]]

(* Mutant: placeholders are taken for values. *)
KeepMaskedPlaceholders(data) == data

(* CredentialsService.stripMaskedPlaceholders *)
StripMaskedPlaceholders(data) ==
    [f \in Fields |-> IF data[f] = Plain(MaskText) THEN Absent ELSE data[f]]

AllSealed(data) == \A f \in Fields : IsSecret(data, f) => IsEncrypted(data[f])
=============================================================================
