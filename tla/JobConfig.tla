------------------------------ MODULE JobConfig ------------------------------
(* The configuration of one job of one user: updateNodeConfig, which spreads a form
   over the job's document and the user's vault, and the part of dispatch that
   gathers configuration and credentials into the webhook's payload.  A queued job
   may be edited until its worker takes it, and while it does.

   References are read through a copy `{ ...job.credentialRefs }`.  The fields of a
   Mongoose subdocument are accessors of its prototype, which a spread leaves
   behind, so the handler sees only the references the form gave it; but assigning
   the copy back merges it over the ones that were loaded. *)
EXTENDS Naturals, FiniteSets

CONSTANTS
    CredIds, NoCred,   \* vault credentials, and no reference
    Texts,             \* API keys, models and spreadsheet ids, NoText and MaskText among them
    NoText, MaskText,  \* nothing, and the placeholder the lists show for a secret
    Bodies,            \* forms users send
    Initial,           \* the vault at the start
    Removable,         \* the credentials the user may delete
    WorkflowRefs,      \* the credentials the workflow's config refers to
    WorkflowKey,       \* the API key on the workflow itself
    Requests,          \* slots for edits handled at the same time
    MaxEdits           \* bound: edits

(* A field the form leaves out. *)
Keep == "keep"

CredentialTypes == {"google-oauth", "api-key", "wordpress"}

(* Of the data of a credential the parts that edits write. *)
Credential == [type : CredentialTypes \cup {"unborn", "removed"}, key : Texts, sheet : Texts]
Unborn == [type |-> "unborn", key |-> NoText, sheet |-> NoText]
Removed == [type |-> "removed", key |-> NoText, sheet |-> NoText]

Settings == [model : Texts, sheet : Texts]
Fields == {"key", "google", "wordpress"}
Refs == [Fields -> CredIds \cup {NoCred}]
NoRefs == [field \in Fields |-> NoCred]

(* What an edit has assigned to its copy of the references. *)
Given == [Fields -> CredIds \cup {NoCred, Keep}]

Body == [key : Texts, settings : Settings, refs : Given]
Job == [settings : Settings, refs : Refs]
NewJob == [settings |-> [model |-> NoText, sheet |-> NoText], refs |-> NoRefs]

ASSUME ConfigInputsAssumption ==
    /\ NoCred \notin CredIds /\ Keep \notin CredIds \cup {NoCred}
    /\ NoText \in Texts /\ MaskText \in Texts /\ NoText # MaskText
    /\ Bodies \subseteq Body
    /\ Initial \in [CredIds -> Credential]
    /\ Removable \subseteq CredIds /\ WorkflowRefs \subseteq CredIds
    /\ WorkflowKey \in Texts /\ MaxEdits \in Nat

VARIABLES
    job,         \* the job's document: its settings and references
    vault,       \* the user's credentials
    edits,       \* the edit running in each slot
    dispatch,    \* the worker's dispatch of the job
    keysOf,      \* per credential: the API keys it has had
    referred,    \* the credentials the job has referred to
    minted,      \* the API keys that edits have created
    abandoned,   \* those whose edit threw or was cut off
    last,        \* what the last edit that was saved had assigned
    started      \* edits so far

vars == <<job, vault, edits, dispatch, keysOf, referred, minted, abandoned, last, started>>
ghosts == <<keysOf, referred, minted, abandoned, last, started>>

Present(c) == vault[c].type \in CredentialTypes

------------------------------------------------------------------------------
(* An edit *)

EditSteps == {"idle", "key.find", "key.load", "key.save", "key.create", "google.find",
              "sheet.load", "sheet.save", "resolve", "save"}
NoBody == [key |-> NoText, settings |-> NewJob.settings, refs |-> [field \in Fields |-> Keep]]

Edit == [step : EditSteps, body : Body, loaded : Job, given : Given, cred : Credential,
         created : CredIds \cup {NoCred}]
Idle == [step |-> "idle", body |-> NoBody, loaded |-> NewJob, given |-> NoBody.refs,
         cred |-> Unborn, created |-> NoCred]

At(p, step) == edits[p].step = step
Become(p, edit) == edits' = [edits EXCEPT ![p] = edit]

(* What the handler reads from its copy: nothing of what was loaded. *)
Seen(given, field) == IF given[field] = Keep THEN NoCred ELSE given[field]
SeenIds(given) == {Seen(given, field) : field \in Fields} \ {NoCred}

(* The edit goes on to the next thing its form asks for. *)
ToResolve(e) == [e EXCEPT !.step = IF SeenIds(e.given) = {} THEN "save" ELSE "resolve"]

ToSheet(e) ==
    IF e.body.settings.sheet # NoText /\ Seen(e.given, "google") # NoCred
    THEN [e EXCEPT !.step = "sheet.load"] ELSE ToResolve(e)

ToGoogle(e) ==
    IF e.body.refs["google"] = Keep THEN [e EXCEPT !.step = "google.find"]
    ELSE ToSheet([e EXCEPT !.given["google"] = e.body.refs["google"]])

(* upsertApiKey: the placeholder is not written, and updates the vault only by
   naming a credential. *)
ToKey(e) ==
    CASE e.body.key = NoText -> ToGoogle(e)
      [] e.body.key = MaskText -> [e EXCEPT !.step = "key.find"]
      [] e.body.key \notin {NoText, MaskText} /\ Seen(e.given, "key") # NoCred ->
             [e EXCEPT !.step = "key.load"]
      [] OTHER -> [e EXCEPT !.step = "key.create"]

(* The edit is refused, or fails: what it wrote to the vault stays. *)
Throw(p) ==
    /\ abandoned' = abandoned \cup ({edits[p].created} \ {NoCred})
    /\ Become(p, Idle)
    /\ UNCHANGED <<job, vault, dispatch, keysOf, referred, minted, last, started>>

EditStart(p, body) ==
    /\ edits[p] = Idle
    /\ started < MaxEdits
    /\ started' = started + 1
    /\ Become(p, ToKey([Idle EXCEPT !.body = body, !.loaded = job,
                                    !.given = [body.refs EXCEPT !["google"] = Keep]]))
    /\ UNCHANGED <<job, vault, dispatch, keysOf, referred, minted, abandoned, last>>

KeyFind(p) ==
    LET c == Seen(edits[p].given, "key")
    IN  /\ At(p, "key.find")
        /\ IF c # NoCred /\ Present(c)
           THEN Become(p, ToGoogle(edits[p])) /\ UNCHANGED <<job, vault, dispatch, ghosts>>
           ELSE Throw(p)

(* The load of `update`; when the credential is gone a new one is created. *)
KeyLoad(p) ==
    LET c == Seen(edits[p].given, "key")
    IN  /\ At(p, "key.load")
        /\ Become(p, IF Present(c) THEN [edits[p] EXCEPT !.step = "key.save", !.cred = vault[c]]
                     ELSE [edits[p] EXCEPT !.step = "key.create"])
        /\ UNCHANGED <<job, vault, dispatch, ghosts>>

(* The save of `update` writes all of the data it loaded, merged with the form's. *)
KeySave(p) ==
    LET c == Seen(edits[p].given, "key")
    IN  /\ At(p, "key.save")
        /\ IF Present(c)
           THEN /\ vault' = [vault EXCEPT ![c] = [type |-> @.type, key |-> edits[p].body.key,
                                                  sheet |-> edits[p].cred.sheet]]
                /\ keysOf' = [keysOf EXCEPT ![c] = @ \cup {edits[p].body.key}]
                /\ Become(p, ToGoogle(edits[p]))
                /\ UNCHANGED <<job, dispatch, referred, minted, abandoned, last, started>>
           ELSE Throw(p)

(* Mutant: the id of the new credential is not taken over. *)
KeyCreateUnnamed(p) ==
    /\ At(p, "key.create")
    /\ \E c \in CredIds :
          /\ vault[c].type = "unborn"
          /\ vault' = [vault EXCEPT ![c] = [type |-> "api-key", key |-> edits[p].body.key,
                                            sheet |-> NoText]]
          /\ keysOf' = [keysOf EXCEPT ![c] = {edits[p].body.key}]
          /\ minted' = minted \cup {c}
          /\ Become(p, ToGoogle(edits[p]))
    /\ UNCHANGED <<job, dispatch, referred, abandoned, last, started>>

KeyCreate(p) ==
    /\ At(p, "key.create")
    /\ \E c \in CredIds :
          /\ vault[c].type = "unborn"
          /\ vault' = [vault EXCEPT ![c] = [type |-> "api-key", key |-> edits[p].body.key,
                                            sheet |-> NoText]]
          /\ keysOf' = [keysOf EXCEPT ![c] = {edits[p].body.key}]
          /\ minted' = minted \cup {c}
          /\ Become(p, ToGoogle([edits[p] EXCEPT !.given["key"] = c, !.created = c]))
    /\ UNCHANGED <<job, dispatch, referred, abandoned, last, started>>

(* findLatestIdByType; which of several is the latest is left open. *)
GoogleFind(p) ==
    LET found == {c \in CredIds : vault[c].type = "google-oauth"}
    IN  /\ At(p, "google.find")
        /\ \E c \in IF found = {} THEN {NoCred} ELSE found :
              Become(p, ToSheet([edits[p] EXCEPT !.given["google"] = c]))
        /\ UNCHANGED <<job, vault, dispatch, ghosts>>

SheetLoad(p) ==
    LET c == Seen(edits[p].given, "google")
    IN  /\ At(p, "sheet.load")
        /\ IF Present(c)
           THEN /\ Become(p, [edits[p] EXCEPT !.step = "sheet.save", !.cred = vault[c]])
                /\ UNCHANGED <<job, vault, dispatch, ghosts>>
           ELSE Throw(p)

SheetSave(p) ==
    LET c == Seen(edits[p].given, "google")
    IN  /\ At(p, "sheet.save")
        /\ IF Present(c)
           THEN /\ vault' = [vault EXCEPT ![c] = [type |-> @.type, key |-> edits[p].cred.key,
                                                  sheet |-> edits[p].body.settings.sheet]]
                /\ Become(p, ToResolve(edits[p]))
                /\ UNCHANGED <<job, dispatch, ghosts>>
           ELSE Throw(p)

(* Mutant: only references the user may not use are refused, not missing ones. *)
ResolveAny(p) ==
    /\ At(p, "resolve")
    /\ Become(p, [edits[p] EXCEPT !.step = "save"])
    /\ UNCHANGED <<job, vault, dispatch, ghosts>>

(* resolveForUser: the references must be there, whatever their type. *)
Resolve(p) ==
    /\ At(p, "resolve")
    /\ IF \A c \in SeenIds(edits[p].given) : Present(c)
       THEN /\ Become(p, [edits[p] EXCEPT !.step = "save"])
            /\ UNCHANGED <<job, vault, dispatch, ghosts>>
       ELSE Throw(p)

(* Mutant: what the edit did not assign is saved as missing. *)
UnmergedRefs(loaded, given) == given

(* The copy assigned to job.credentialRefs, merged over what was loaded. *)
MergedRefs(loaded, given) ==
    [field \in Fields |-> IF given[field] = Keep THEN loaded[field] ELSE given[field]]

(* Mutant: settings and references are not marked as modified, and what the edit
   did not change is not sent. *)
SavedChangesOnly(e, stored) ==
    LET refs == MergedRefs(e.loaded.refs, e.given)
    IN  [settings |-> IF e.body.settings = e.loaded.settings THEN stored.settings
                      ELSE e.body.settings,
         refs |-> IF refs = e.loaded.refs THEN stored.refs ELSE refs]

(* job.save() sends settings and credentialRefs as a whole. *)
Saved(e, stored) ==
    [settings |-> e.body.settings, refs |-> MergedRefs(e.loaded.refs, e.given)]

Save(p) ==
    /\ At(p, "save")
    /\ job' = Saved(edits[p], job)
    /\ referred' = referred \cup ({job'.refs[field] : field \in Fields} \ {NoCred})
    /\ last' = [settings |-> edits[p].body.settings, given |-> edits[p].given]
    /\ Become(p, Idle)
    /\ UNCHANGED <<vault, dispatch, keysOf, minted, abandoned, started>>

(* Anything else the handler awaits may fail, or the process die. *)
EditCutOff(p) ==
    /\ edits[p] # Idle
    /\ Throw(p)

------------------------------------------------------------------------------
(* dispatch, from the load of the job to the webhook's payload *)

DispatchSteps == {"idle", "workflow", "hydrate", "refs", "post"}

(* `context` holds the credentials the workflow refers to, `resolved` those of the
   job, both as they were read; `key` is what hydrateCredentialsFromVault found, and
   `readFailed` tells that its read of the vault failed. *)
NoDispatch == [step |-> "idle", job |-> NewJob, context |-> <<>>, resolved |-> <<>>,
               key |-> NoText, readFailed |-> FALSE]

Read(ids) == [c \in ids |-> vault[c]]
JobIds(refs) == {refs[field] : field \in Fields} \ {NoCred}

DispatchBecomes(d) == dispatch' = d /\ UNCHANGED <<job, vault, edits, ghosts>>

DispatchLoad ==
    /\ dispatch.step = "idle"
    /\ DispatchBecomes([NoDispatch EXCEPT !.step = "workflow", !.job = job])

(* buildTriggerContext *)
DispatchWorkflow ==
    /\ dispatch.step = "workflow"
    /\ DispatchBecomes(IF \A c \in WorkflowRefs : Present(c)
                       THEN [dispatch EXCEPT !.step = "hydrate", !.context = Read(WorkflowRefs)]
                       ELSE NoDispatch)

(* hydrateCredentialsFromVault swallows whatever resolveForUser throws: no key at all
   is found when any reference is missing, or when the read fails. *)
DispatchHydrate ==
    LET refs == dispatch.job.refs
        ids == {refs["key"], refs["google"]} \ {NoCred}
        next == [dispatch EXCEPT !.step = IF JobIds(refs) = {} THEN "post" ELSE "refs"]
    IN  /\ dispatch.step = "hydrate"
        /\ \/ DispatchBecomes([next EXCEPT
                   !.key = IF refs["key"] # NoCred /\ \A c \in ids : Present(c)
                           THEN vault[refs["key"]].key ELSE NoText])
           \/ ids # {} /\ DispatchBecomes([next EXCEPT !.key = NoText, !.readFailed = TRUE])

(* Mutant: dispatch goes on with the references it finds. *)
DispatchRefsFound ==
    LET ids == JobIds(dispatch.job.refs)
    IN  /\ dispatch.step = "refs"
        /\ DispatchBecomes([dispatch EXCEPT !.step = "post",
                                            !.resolved = Read({c \in ids : Present(c)})])

(* The job's references once more, and now a missing one stops the dispatch. *)
DispatchRefs ==
    LET ids == JobIds(dispatch.job.refs)
    IN  /\ dispatch.step = "refs"
        /\ DispatchBecomes(IF \A c \in ids : Present(c)
                           THEN [dispatch EXCEPT !.step = "post", !.resolved = Read(ids)]
                           ELSE NoDispatch)

KeysIn(creds) == {creds[c].key : c \in {d \in DOMAIN creds : creds[d].type = "api-key"}}

(* The openRouterApiKey of the payload: the job's, the workflow's own, or that of
   the first credential that is an API key, the workflow's before the job's. *)
PayloadKeys(d) ==
    IF d.key # NoText THEN {d.key}
    ELSE IF WorkflowKey # NoText THEN {WorkflowKey}
    ELSE IF KeysIn(d.context) # {} THEN KeysIn(d.context)
    ELSE IF KeysIn(d.resolved) # {} THEN KeysIn(d.resolved)
    ELSE {NoText}

DispatchPost ==
    /\ dispatch.step = "post"
    /\ DispatchBecomes(NoDispatch)

(* Anything else dispatch awaits may fail, or the process die. *)
DispatchCutOff ==
    /\ dispatch.step # "idle"
    /\ DispatchBecomes(NoDispatch)

------------------------------------------------------------------------------
(* DELETE /credentials/:id *)
RemoveCredential(c) ==
    /\ c \in Removable /\ Present(c)
    /\ vault' = [vault EXCEPT ![c] = Removed]
    /\ UNCHANGED <<job, edits, dispatch, ghosts>>

Init ==
    /\ job = NewJob
    /\ vault = Initial
    /\ edits = [p \in Requests |-> Idle]
    /\ dispatch = NoDispatch
    /\ keysOf = [c \in CredIds |-> {Initial[c].key}]
    /\ referred = {} /\ minted = {} /\ abandoned = {}
    /\ last = [settings |-> NewJob.settings, given |-> NoBody.refs]
    /\ started = 0

EditStep(p) ==
    \/ \E body \in Bodies : EditStart(p, body)
    \/ KeyFind(p) \/ KeyLoad(p) \/ KeySave(p) \/ KeyCreate(p) \/ GoogleFind(p)
    \/ SheetLoad(p) \/ SheetSave(p) \/ Resolve(p) \/ Save(p) \/ EditCutOff(p)

DispatchStep ==
    \/ DispatchLoad \/ DispatchWorkflow \/ DispatchHydrate \/ DispatchRefs
    \/ DispatchPost \/ DispatchCutOff

Next ==
    \/ \E p \in Requests : EditStep(p)
    \/ DispatchStep
    \/ \E c \in CredIds : RemoveCredential(c)

Spec == Init /\ [][Next]_vars

------------------------------------------------------------------------------
(* The properties *)

(* Every variable stays in its domain. *)
TypeOK ==
    /\ job \in Job
    /\ vault \in [CredIds -> Credential]
    /\ edits \in [Requests -> Edit]
    /\ dispatch.step \in DispatchSteps /\ dispatch.job \in Job /\ dispatch.key \in Texts
    /\ dispatch.readFailed \in BOOLEAN
    /\ keysOf \in [CredIds -> SUBSET Texts]
    /\ referred \subseteq CredIds /\ minted \subseteq CredIds /\ abandoned \subseteq CredIds
    /\ last \in [settings : Settings, given : Given] /\ started \in 0..MaxEdits

(* A job refers to credentials of the user's vault only, whatever ids the form
   named; that a credential was deleted since is the one excuse. *)
RefsExisted == \A c \in JobIds(job.refs) : vault[c].type # "unborn"

(* An API key that an edit has created in the vault gets into the job, unless the
   edit failed on its way there: nothing but a failure strands a key the user
   never saw in a job.  (After a failure the code leaves the key in the vault.) *)
StrayKeysNeedFailure ==
    \A c \in minted :
        \/ c \in referred \cup abandoned
        \/ \E p \in Requests : edits[p].created = c

(* The settings of a job and the references its form named come from one and the
   same edit, however edits overlap.  A reference the form left out is written back
   as that edit had loaded it, and may undo another edit. *)
OneEditWins ==
    /\ job.settings = last.settings
    /\ \A field \in Fields :
          last.given[field] # Keep => job.refs[field] = last.given[field]

(* When credentials are deleted or edited while it is dispatched, a job that names an
   API key is run with a key that this credential had, or not at all: a reference that
   hydrateCredentialsFromVault missed stops the dispatch at the second look.  Only a
   read that failed there and succeeds at the second look lets another key through. *)
JobsKeyIsSent ==
    LET c == dispatch.job.refs["key"]
    IN  dispatch.step = "post" /\ ~dispatch.readFailed /\ c # NoCred /\ NoText \notin keysOf[c]
            => PayloadKeys(dispatch) \subseteq keysOf[c]

(* An API key entered for a job that has one replaces it in the vault: an edit
   creates a credential only if the job had none, or the form names one that is
   gone.  It does not hold. *)
KeysAreUpserted ==
    \A p \in Requests :
        edits[p].created # NoCred /\ edits[p].body.refs["key"] = Keep =>
            LET c == edits[p].loaded.refs["key"] IN c = NoCred \/ ~Present(c)
=============================================================================
