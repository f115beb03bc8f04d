----------------------------- MODULE MCJobConfig -----------------------------
(* Small instances of JobConfig for TLC. *)
EXTENDS JobConfig, TLC

CONSTANTS r1, r2

Symmetry == Permutations({r1, r2})

(* A Google connection, an API key and a WordPress site; two ids are free. *)
MCCredIds == {"g", "k", "w", "n1", "n2"}
MCTexts == {"", "********", "key1", "key2", "m", "s1", "s2"}
MCInitial == [c \in MCCredIds |->
    CASE c = "g" -> [type |-> "google-oauth", key |-> "", sheet |-> ""]
      [] c = "k" -> [type |-> "api-key", key |-> "key1", sheet |-> ""]
      [] c = "w" -> [type |-> "wordpress", key |-> "", sheet |-> ""]
      [] OTHER -> Unborn]

Form(key, sheet, keyId, google, wordpress) ==
    [key |-> key, settings |-> [model |-> "m", sheet |-> sheet],
     refs |-> [key |-> keyId, google |-> google, wordpress |-> wordpress]]

(* A key as the editor sends it, a credential chosen from the vault with and without
   a new key, a cleared form, the placeholder, and ids that do not exist. *)
MCBodies ==
    { Form("key2", "s1", Keep, Keep, Keep),
      Form("key2", "", "k", "", "w"),
      Form("", "s1", "k", "g", Keep),
      Form("", "", "", Keep, ""),
      Form("********", "s2", "k", "g", Keep),
      Form("********", "", Keep, Keep, Keep),
      Form("key1", "", "n2", "w", Keep),
      Form("", "", Keep, "", "n1") }
=============================================================================
