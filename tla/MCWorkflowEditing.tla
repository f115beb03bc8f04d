-------------------------- MODULE MCWorkflowEditing --------------------------
(* Small instances of WorkflowEditing for TLC. *)
EXTENDS WorkflowEditing, TLC

CONSTANTS a, b, ca, cb, r1, r2

MCCredOwner == ca :> a @@ cb :> b
MCNodeTypes == MirroredTypes \cup {"webhook"}

(* A topic with a credential of one user, a credential of the other, or none. *)
MCBodies ==
    {[topic |-> "topic", google |-> ca, key |-> Keep],
     [topic |-> Keep, google |-> Keep, key |-> cb],
     [topic |-> Keep, google |-> NoCred, key |-> Keep]}

(* A form without a topic, and one with a topic and no spreadsheet. *)
MCForms ==
    {[topic |-> Keep, credentials |-> [key |-> "", spreadsheetId |-> "text"]],
     [topic |-> "topic", credentials |-> [key |-> "text", spreadsheetId |-> ""]]}

(* One entry of a node that is not mirrored, or of one that is, with it or alone. *)
MCNodeLists ==
    LET webhook == [type |-> "webhook", credentialId |-> "ui-google", config |-> ""]
        sheet == [type |-> "google-sheet", credentialId |-> "ref", config |-> ""]
    IN  {<<webhook>>, <<webhook, sheet>>}

Symmetry == Permutations({r1, r2})
=============================================================================
