-------------------------- MODULE MCCredentialVault --------------------------
(* Small instances of CredentialVault for TLC. *)
EXTENDS CredentialVaultProperties, TLC

CONSTANTS c1, c2, c3, r1, r2, g1, g2

(* Credential ids, request slots and grants are interchangeable. *)
Symmetry == Permutations({c1, c2, c3}) \cup Permutations({r1, r2}) \cup Permutations({g1, g2})
Symmetry2 == Permutations({c1, c2}) \cup Permutations({r1, r2}) \cup Permutations({g1, g2})

GoogleTexts == {NoText, MaskText, g1, g2, "a@mail", "b@mail", "sheet1", "sheet2", "legacy"}
PatchTexts == {NoText, MaskText, g1, g2, "token", "key1", "key2", "legacy", "sheet1", "site"}

Body(type, n8n, field, text) ==
    [type |-> type, n8n |-> n8n, data |-> With(NoData, field, text)]
Change(field, text) == [NoPatch EXCEPT !.data = With(NoData, field, text)]

AllTexts == GoogleTexts \cup PatchTexts

(* Bodies a form sends: a token and its clearing, a spreadsheet, the n8n id and its
   clearing, a new label; the last POST is refused.  Connections come from consents,
   or in ConnectionPosts from the form. *)
ConnectionPosts == {Body("google-oauth", "n8n", "accessToken", "token")}
FormPosts == {Body("api-key", NoText, "apiKey", "key1"),
              Body("wordpress", NoText, "siteUrl", "site"),
              Body("api-key", NoText, "siteUrl", "site")}
FormPatches == {Change("accessToken", "token"), Change("accessToken", NoText),
                Change("spreadsheetId", "sheet1"),
                [NoPatch EXCEPT !.n8n = NoText], [NoPatch EXCEPT !.n8n = "n8n"],
                [NoPatch EXCEPT !.label = TRUE]}
ConnectionPatches == {Change("spreadsheetId", NoText)}

(* Documents from before: a key stored in plain text, a connection stored in
   plain text, a connection sealed under an earlier key. *)
PlainKey == Body("api-key", NoText, "apiKey", "legacy")
PlainConnection == Body("google-oauth", NoText, "accessToken", "legacy")
LostConnection ==
    [PlainConnection EXCEPT !.data["accessToken"].form = "unreadable"]
OldDocuments == {PlainKey, LostConnection,
                 [PlainConnection EXCEPT !.n8n = "n8n", !.data = With(@, "refreshToken", "legacy")]}
OldConnections == {PlainConnection, LostConnection}
=============================================================================
