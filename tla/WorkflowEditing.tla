---------------------------- MODULE WorkflowEditing ----------------------------
(* Editing one workflow: create, updateConfig, upsertNodeCredentials,
   updateNodeConfig and remove of AutomationsService.

   A handler loads the document, edits its copy and saves the paths it touched.
   Mongoose saves an array that was only pushed to with $push; it replaces an array
   with an element assigned as a whole, and then only if the document still has the
   version that was loaded.  Every save of the array counts the version up. *)
EXTENDS Documents, SequencesExt, Integers

CONSTANTS
    Users, NoUser,      \* users, and the owner of a shared template
    Creds, NoCred,      \* vault credentials, and no reference
    CredOwner,          \* the user of each credential
    Topics, Texts,      \* texts of a topic and of a UI field, "" among both
    NodeTypes,          \* node type ids
    NodeRefs,           \* texts in the credentialId of a node entry
    Bodies,             \* config patches of requests
    NodeLists,          \* node credentials of requests
    Forms,              \* topic and UI credentials of requests
    Requests,           \* slots for requests handled at the same time
    MaxEdits            \* bound: saves of node credentials

ASSUME EditingInputsAssumption ==
    /\ NoUser \notin Users /\ NoCred \notin Creds /\ Users # {}
    /\ CredOwner \in [Creds -> Users]
    /\ "" \in Topics \cap Texts
    /\ MaxEdits \in Nat

(* A patch field that was not sent. *)
Keep == "keep"

VARIABLES
    stage,      \* whether the workflow is there
    workflow,   \* its document
    frames,     \* the handler running in each slot
    vault,      \* the credentials that exist and can be decrypted
    synced      \* the node credentials were last written by updateNodeConfig

vars == <<stage, workflow, frames, vault, synced>>

Types == {"generate-idea-posts", "generate-content-post"}

(* `key` is apiKeyCredentialId of one type, wordpressCredentialId of the other; the
   webhook fields are left out. *)
Config == [topic : Topics, google : Creds \cup {NoCred}, key : Creds \cup {NoCred}]
DefaultConfig == [topic |-> "", google |-> NoCred, key |-> NoCred]
Patch == [topic : Topics \cup {Keep}, google : Creds \cup {NoCred, Keep},
          key : Creds \cup {NoCred, Keep}]
TopicPatch(topic) == [topic |-> topic, google |-> Keep, key |-> Keep]

(* `key` is the API key with the model. *)
UiCredentials == [key : Texts, spreadsheetId : Texts]

(* An entry of nodeCredentials; a config that is missing is "". *)
Node == [type : NodeTypes, credentialId : NodeRefs, config : Texts]

Doc == [owner : Users \cup {NoUser}, type : Types, config : Config,
        credentials : UiCredentials, nodes : Seq(Node), version : Nat]

Blank(owner, type) ==
    [owner |-> owner, type |-> type, config |-> DefaultConfig,
     credentials |-> [key |-> "", spreadsheetId |-> ""], nodes |-> <<>>, version |-> 0]

------------------------------------------------------------------------------
(* Operators on documents *)

Sent(value, current) == IF value = Keep THEN current ELSE value

(* Mutant: the topic is merged for every type. *)
MergeTopicAlways(type, current, patch) ==
    [topic |-> Sent(patch.topic, current.topic), google |-> Sent(patch.google, current.google),
     key |-> Sent(patch.key, current.key)]

(* mergeWorkflowConfig; a content post has no topic. *)
MergeWorkflowConfig(type, current, patch) ==
    [topic |-> IF type = "generate-idea-posts" THEN Sent(patch.topic, current.topic) ELSE "",
     google |-> Sent(patch.google, current.google), key |-> Sent(patch.key, current.key)]

CollectCredentialRefs(config) == {config.google, config.key} \ {NoCred}

(* resolveForUser finds every reference. *)
RefsOwned(user, config) ==
    \A c \in CollectCredentialRefs(config) : c \in vault /\ CredOwner[c] = user

(* Mutant: an entry is looked up by its credential. *)
UpsertByRef(nodes, entry) ==
    LET i == SelectInSeq(nodes, LAMBDA n : n.credentialId = entry.credentialId)
    IN  IF i = 0 THEN Append(nodes, entry) ELSE [nodes EXCEPT ![i] = entry]

(* The first entry of the node type is replaced, or one is pushed. *)
Upsert(nodes, entry) ==
    LET i == SelectInSeq(nodes, LAMBDA n : n.type = entry.type)
    IN  IF i = 0 THEN Append(nodes, entry) ELSE [nodes EXCEPT ![i] = entry]

(* One entry after the other. *)
Upserted(nodes, entries) ==
    LET after[n \in 0..Len(entries)] ==
            IF n = 0 THEN nodes ELSE Upsert(after[n - 1], entries[n])
    IN  after[Len(entries)]

(* What updateNodeConfig mirrors into the node credentials. *)
MirrorEntries(credentials) ==
    << [type |-> "openrouter-model", credentialId |-> "ui-openrouter", config |-> credentials.key],
       [type |-> "gemini-model", credentialId |-> "ui-openrouter", config |-> credentials.key],
       [type |-> "add-to-sheet", credentialId |-> "ui-google", config |-> credentials.spreadsheetId],
       [type |-> "google-sheet", credentialId |-> "ui-google", config |-> credentials.spreadsheetId] >>
MirroredTypes == {"openrouter-model", "gemini-model", "add-to-sheet", "google-sheet"}

(* What the DTOs let through. *)
ASSUME RequestsAssumption ==
    /\ Bodies \subseteq Patch
    /\ NodeLists \subseteq Seq(Node)
    /\ Forms \subseteq [topic : Topics \cup {Keep}, credentials : UiCredentials]
    /\ MirroredTypes \subseteq NodeTypes /\ {"ui-openrouter", "ui-google"} \subseteq NodeRefs

------------------------------------------------------------------------------
(* Frames *)

Steps == {"idle", "create.insert", "nodes.load", "config.check", "save", "remove.delete"}
Paths == {"config", "credentials", "nodeCredentials"}
Frame == [step : Steps, sets : SUBSET Paths, user : Users \cup {NoUser}, loaded : Doc,
          config : Config, credentials : UiCredentials, entries : Seq(Node)]
Idle == [step |-> "idle", sets |-> {}, user |-> NoUser, loaded |-> Blank(NoUser, "generate-idea-posts"),
         config |-> DefaultConfig, credentials |-> [key |-> "", spreadsheetId |-> ""], entries |-> <<>>]

Free(p) == frames[p] = Idle
At(p, step) == frames[p].step = step
Become(p, frame) == frames' = [frames EXCEPT ![p] = frame]
Return(p) == Become(p, Idle)

(* findEntityForUser *)
MayEdit(user) == stage = "live" /\ workflow.owner \in {NoUser, user}

(* Bound: no edit of the node credentials begins that MaxEdits leaves no room for. *)
EditsLeft ==
    workflow.version + Cardinality({p \in Requests : frames[p].entries # <<>> \/ frames[p].sets # {}}) < MaxEdits

------------------------------------------------------------------------------
(* create, up to the check of its references. *)
Create(p, user, type, body, entries) ==
    /\ Free(p) /\ stage = "none"
    /\ LET config == MergeWorkflowConfig(type, DefaultConfig, body)
       IN  /\ RefsOwned(user, config)
           /\ Become(p, [Idle EXCEPT !.step = "create.insert", !.user = user, !.entries = entries,
                                     !.loaded = Blank(user, type), !.config = config])
    /\ stage' = "creating"
    /\ UNCHANGED <<workflow, vault, synced>>

CreateInsert(p) ==
    /\ At(p, "create.insert")
    /\ workflow' = [frames[p].loaded EXCEPT !.config = frames[p].config]
    /\ stage' = "live"
    /\ IF frames[p].entries = <<>> THEN Return(p) ELSE Become(p, [frames[p] EXCEPT !.step = "nodes.load"])
    /\ UNCHANGED <<vault, synced>>

(* updateConfig, up to the merge. *)
UpdateConfig(p, user, body) ==
    /\ Free(p) /\ MayEdit(user)
    /\ Become(p, [Idle EXCEPT !.step = "config.check", !.sets = {"config"}, !.user = user,
                              !.loaded = workflow,
                              !.config = MergeWorkflowConfig(workflow.type, workflow.config, body)])
    /\ UNCHANGED <<stage, workflow, vault, synced>>

(* assertCredentialRefsOwnedByUser, which throws if one is missing. *)
ConfigCheck(p) ==
    /\ At(p, "config.check")
    /\ IF RefsOwned(frames[p].user, frames[p].config)
       THEN Become(p, [frames[p] EXCEPT !.step = "save"]) ELSE Return(p)
    /\ UNCHANGED <<stage, workflow, vault, synced>>

(* The frame of upsertNodeCredentials with its copy edited. *)
NodesLoaded(user, entries) ==
    [Idle EXCEPT !.step = "save", !.sets = {"nodeCredentials"}, !.user = user,
                 !.loaded = workflow, !.entries = entries]

UpsertNodeCredentials(p, user, entries) ==
    /\ Free(p) /\ MayEdit(user) /\ EditsLeft
    /\ Become(p, NodesLoaded(user, entries))
    /\ UNCHANGED <<stage, workflow, vault, synced>>

(* The same as called by create: the workflow may be gone again. *)
NodesLoad(p) ==
    /\ At(p, "nodes.load")
    /\ IF MayEdit(frames[p].user) THEN Become(p, NodesLoaded(frames[p].user, frames[p].entries))
       ELSE Return(p)
    /\ UNCHANGED <<stage, workflow, vault, synced>>

(* updateNodeConfig of a workflow, for any user; the topic may be left out. *)
UpdateNodeConfig(p, form) ==
    /\ Free(p) /\ stage = "live" /\ EditsLeft
    /\ Become(p, [Idle EXCEPT
          !.step = "save",
          !.sets = {"credentials", "nodeCredentials"} \cup (IF form.topic = Keep THEN {} ELSE {"config"}),
          !.loaded = workflow,
          !.config = MergeWorkflowConfig(workflow.type, workflow.config, TopicPatch(form.topic)),
          !.credentials = form.credentials,
          !.entries = MirrorEntries(form.credentials)])
    /\ UNCHANGED <<stage, workflow, vault, synced>>

------------------------------------------------------------------------------
(* Saves *)

(* Mutant: the fields of the config are saved one by one. *)
SavedFields(loaded, assigned, stored) ==
    [field \in DOMAIN stored |-> Written(assigned[field], loaded[field], stored[field])]

(* config is a Mixed path: a save replaces it. *)
SavedConfig(loaded, assigned, stored) == assigned

(* No existing element of the array was assigned. *)
OnlyPushed(f) == f.entries # <<>> /\ Upserted(f.loaded.nodes, f.entries) = f.loaded.nodes \o f.entries

(* Mutant: the array is replaced whatever the version. *)
AnyVersion(f) == TRUE

(* The condition a save sends along when it replaces the array. *)
VersionMatches(f) ==
    "nodeCredentials" \in f.sets /\ ~OnlyPushed(f) => f.loaded.version = workflow.version

SavedNodes(f) ==
    IF OnlyPushed(f) THEN workflow.nodes \o f.entries ELSE Upserted(f.loaded.nodes, f.entries)

Save(p) ==
    /\ At(p, "save") /\ stage = "live"
    /\ LET f == frames[p]
           nodes == "nodeCredentials" \in f.sets
           mirrors == "credentials" \in f.sets
       IN  /\ VersionMatches(f)
           /\ workflow' = [workflow EXCEPT
                 !.config = IF "config" \in f.sets THEN SavedConfig(f.loaded.config, f.config, @) ELSE @,
                 !.credentials = IF mirrors THEN f.credentials ELSE @,
                 !.nodes = IF nodes THEN SavedNodes(f) ELSE @,
                 !.version = IF nodes THEN @ + 1 ELSE @]
           /\ synced' = IF mirrors THEN TRUE
                        ELSE synced /\ \A i \in DOMAIN f.entries : f.entries[i].type \notin MirroredTypes
    /\ Return(p)
    /\ UNCHANGED <<stage, vault>>

(* A VersionError, or the document is gone. *)
SaveThrows(p) ==
    /\ At(p, "save")
    /\ stage # "live" \/ ~VersionMatches(frames[p])
    /\ Return(p)
    /\ UNCHANGED <<stage, workflow, vault, synced>>

(* remove: find, then delete. *)
RemoveWorkflow(p, user) ==
    /\ Free(p) /\ MayEdit(user)
    /\ Become(p, [Idle EXCEPT !.step = "remove.delete"])
    /\ UNCHANGED <<stage, workflow, vault, synced>>

RemoveDelete(p) ==
    /\ At(p, "remove.delete")
    /\ stage' = "removed"
    /\ Return(p)
    /\ UNCHANGED <<workflow, vault, synced>>

(* A credential is removed, or no longer readable. *)
LoseCredential(c) ==
    /\ c \in vault
    /\ vault' = vault \ {c}
    /\ UNCHANGED <<stage, workflow, frames, synced>>

------------------------------------------------------------------------------
(* There is no workflow yet, or a shared template. *)
Init ==
    /\ stage \in {"none", "live"}
    /\ \E type \in Types : workflow = Blank(NoUser, type)
    /\ frames = [p \in Requests |-> Idle]
    /\ vault = Creds
    /\ synced = FALSE

Arrival(p) ==
    \/ \E user \in Users, type \in Types, body \in Bodies, entries \in NodeLists \cup {<<>>} :
          Create(p, user, type, body, entries)
    \/ \E user \in Users :
          \/ \E body \in Bodies : UpdateConfig(p, user, body)
          \/ \E entries \in NodeLists : UpsertNodeCredentials(p, user, entries)
          \/ RemoveWorkflow(p, user)
    \/ \E form \in Forms : UpdateNodeConfig(p, form)

Continue(p) ==
    \/ CreateInsert(p) \/ ConfigCheck(p) \/ NodesLoad(p)
    \/ Save(p) \/ SaveThrows(p) \/ RemoveDelete(p)

Next ==
    \/ \E p \in Requests : Arrival(p) \/ Continue(p)
    \/ \E c \in Creds : LoseCredential(c)

Spec == Init /\ [][Next]_vars

------------------------------------------------------------------------------
(* Every variable keeps its type, and a content post its config without a topic. *)
TypeOK ==
    /\ stage \in {"none", "creating", "live", "removed"}
    /\ workflow \in Doc
    /\ workflow.type = "generate-content-post" => workflow.config.topic = ""
    /\ frames \in [Requests -> Frame]
    /\ vault \subseteq Creds
    /\ synced \in BOOLEAN

(* However the edits of several users of a shared template overlap, its config never
   names credentials of two users, and that of an owned workflow only its owner's:
   each config was checked as a whole, and is saved as a whole. *)
RefsOfOneUser ==
    \E user \in Users :
        /\ workflow.owner # NoUser => user = workflow.owner
        /\ \A c \in CollectCredentialRefs(workflow.config) : CredOwner[c] = user

(* The UI credentials are among the entries that mirror them, though they are two
   paths of one document and other handlers replace the array: unless the entries were
   set by upsertNodeCredentials afterwards. *)
MirrorsAgree ==
    synced => ToSet(MirrorEntries(workflow.credentials)) \subseteq ToSet(workflow.nodes)

Saving(p) == At(p, "save") /\ frames'[p] # frames[p]

(* The entries of a node type, each at its place. *)
Of(type, nodes) == [i \in {k \in DOMAIN nodes : nodes[k].type = type} |-> nodes[i]]

(* An edit never undoes another: what changes about a node type is written by a
   handler that was sent an entry of that type. *)
OthersNodesKept ==
    [][stage = "live" =>
          \A type \in NodeTypes :
             Of(type, workflow'.nodes) # Of(type, workflow.nodes) =>
                 \E p \in Requests : Saving(p) /\ \E i \in DOMAIN frames[p].entries :
                                                     frames[p].entries[i].type = type]_vars

OnePerType(nodes) == \A i, j \in DOMAIN nodes : nodes[i].type = nodes[j].type => i = j

(* A node type gets a second entry only by two overlapping edits that both found none. *)
DuplicatesNeedOverlap ==
    [][OnePerType(workflow.nodes) /\ ~OnePerType(workflow'.nodes) =>
          \E p \in Requests : Saving(p) /\ frames[p].loaded.version # workflow.version]_vars
=============================================================================
