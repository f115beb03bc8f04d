------------------------ MODULE WorkflowEditingProofs ------------------------
(* Theorems about WorkflowEditing, for every set of users, credentials and requests.

   ConfigOfOneUser rests on RefsInv.  The others rest on EditInv, which says of every
   handler what its copy has to do with the stored document, and on what Upserted
   returns for every list of entries: an induction over the entries. *)
EXTENDS WorkflowEditing, TLAPS, WellFoundedInduction

(* The config names credentials of one user, of the owner's if there is one. *)
OneUser(owner, config) ==
    \E user \in Users :
        /\ owner # NoUser => user = owner
        /\ \A c \in CollectCredentialRefs(config) : CredOwner[c] = user

(* Documents and frames have their fields, whatever is in them. *)
DocFields == {"owner", "type", "config", "credentials", "nodes", "version"}
FrameFields == {"step", "sets", "user", "loaded", "config", "credentials", "entries"}
Shaped ==
    /\ DOMAIN workflow = DocFields
    /\ DOMAIN frames = Requests
    /\ \A p \in Requests : DOMAIN frames[p] = FrameFields /\ DOMAIN frames[p].loaded = DocFields

(* What is about to be saved is as good as what is stored, and whoever holds a loaded
   document knows that the workflow has been created. *)
Pending(p) ==
    /\ At(p, "save") /\ "config" \in frames[p].sets => OneUser(workflow.owner, frames[p].config)
    /\ At(p, "config.check") => frames[p].user \in Users /\ workflow.owner \in {NoUser, frames[p].user}
    /\ At(p, "create.insert") => stage = "creating" /\ OneUser(frames[p].loaded.owner, frames[p].config)
    /\ frames[p].step \in {"config.check", "save", "remove.delete"} => stage \in {"live", "removed"}

RefsInv ==
    /\ Shaped
    /\ OneUser(workflow.owner, workflow.config)
    /\ \A p \in Requests : Pending(p)
    /\ \A p, q \in Requests : At(p, "create.insert") /\ At(q, "create.insert") => p = q

(* A frame with its fields that promises what Pending asks. *)
Sound(f) ==
    /\ DOMAIN f = FrameFields /\ DOMAIN f.loaded = DocFields
    /\ f.step \in Steps
    /\ f.step = "save" /\ "config" \in f.sets => OneUser(workflow.owner, f.config)
    /\ f.step = "config.check" => f.user \in Users /\ workflow.owner \in {NoUser, f.user}
    /\ f.step # "create.insert"
    /\ f.step \in {"config.check", "save", "remove.delete"} => stage \in {"live", "removed"}

LEMMA Shapes ==
    /\ \A owner, type : DOMAIN Blank(owner, type) = DocFields
    /\ DOMAIN Idle = FrameFields /\ DOMAIN Idle.loaded = DocFields /\ Idle.step = "idle"
  BY DEF Blank, Idle, DocFields, FrameFields

(* A merge that was sent no reference leaves the references. *)
LEMMA TopicKeepsRefs ==
    ASSUME NEW type, NEW config, NEW topic
    PROVE  CollectCredentialRefs(MergeWorkflowConfig(type, config, TopicPatch(topic)))
              = CollectCredentialRefs(config)
<1>1. MergeWorkflowConfig(type, config, TopicPatch(topic)).google = config.google
      /\ MergeWorkflowConfig(type, config, TopicPatch(topic)).key = config.key
  BY DEF MergeWorkflowConfig, TopicPatch, Sent
<1> QED BY <1>1 DEF CollectCredentialRefs

(* A step that changes only its own frame. *)
LEMMA RefsBecome ==
    ASSUME RefsInv, NEW p \in Requests, NEW f, Sound(f), Become(p, f), UNCHANGED <<stage, workflow>>
    PROVE  RefsInv'
<1>1. /\ DOMAIN frames' = Requests /\ frames'[p] = f
      /\ \A q \in Requests \ {p} : frames'[q] = frames[q]
  BY DEF RefsInv, Shaped, Become
<1>2. Shaped'
  BY <1>1 DEF RefsInv, Shaped, Sound
<1>3. \A q \in Requests : Pending(q)'
  BY <1>1 DEF RefsInv, Pending, Sound, At
<1>4. OneUser(workflow.owner, workflow.config)'
  BY DEF RefsInv
<1>5. \A q \in Requests : At(q, "create.insert")' => q # p /\ At(q, "create.insert")
  BY <1>1 DEF Sound, At
<1> QED BY <1>2, <1>3, <1>4, <1>5 DEF RefsInv

LEMMA RefsInit == Init => RefsInv
<1> SUFFICES ASSUME Init PROVE RefsInv
  OBVIOUS
<1>1. PICK type \in Types : workflow = Blank(NoUser, type)
  BY DEF Init
<1>2. workflow.owner = NoUser /\ CollectCredentialRefs(workflow.config) = {}
  <2>1. Blank(NoUser, type).owner = NoUser /\ Blank(NoUser, type).config = DefaultConfig
    BY DEF Blank
  <2>2. CollectCredentialRefs(DefaultConfig) = {}
    BY DEF CollectCredentialRefs, DefaultConfig
  <2> QED BY <1>1, <2>1, <2>2
<1>3. OneUser(workflow.owner, workflow.config)
  BY <1>2, EditingInputsAssumption DEF OneUser
<1>4. DOMAIN frames = Requests /\ \A p \in Requests : frames[p] = Idle
  BY DEF Init
<1>5. Shaped
  BY <1>1, <1>4, Shapes DEF Shaped
<1>6. \A p \in Requests : Pending(p) /\ ~At(p, "create.insert")
  BY <1>4, Shapes DEF Pending, At
<1> QED BY <1>3, <1>5, <1>6 DEF RefsInv

(* The steps that touch only their frame. *)
LEMMA RefsFrames ==
    ASSUME RefsInv, NEW p \in Requests,
           \/ \E user \in Users, body \in Bodies : UpdateConfig(p, user, body)
           \/ \E user \in Users, entries \in NodeLists : UpsertNodeCredentials(p, user, entries)
           \/ \E user \in Users : RemoveWorkflow(p, user)
           \/ \E form \in Forms : UpdateNodeConfig(p, form)
           \/ ConfigCheck(p) \/ NodesLoad(p) \/ SaveThrows(p)
    PROVE  RefsInv'
<1>1. DOMAIN workflow = DocFields /\ DOMAIN frames[p] = FrameFields /\ DOMAIN frames[p].loaded = DocFields
      /\ OneUser(workflow.owner, workflow.config)
  BY DEF RefsInv, Shaped
<1>2. ASSUME NEW user \in Users, NEW body \in Bodies, UpdateConfig(p, user, body) PROVE RefsInv'
  <2> DEFINE f == [Idle EXCEPT !.step = "config.check", !.sets = {"config"}, !.user = user,
                      !.loaded = workflow,
                      !.config = MergeWorkflowConfig(workflow.type, workflow.config, body)]
  <2>1. Sound(f)
    BY <1>1, <1>2 DEF UpdateConfig, MayEdit, Idle, FrameFields, Sound, Steps
  <2> HIDE DEF f
  <2>2. Become(p, f) /\ UNCHANGED <<stage, workflow>>
    BY <1>2 DEF UpdateConfig, f
  <2> QED BY <2>1, <2>2, RefsBecome
<1>3. ASSUME NEW user, NEW entries, MayEdit(user),
             Become(p, NodesLoaded(user, entries)), UNCHANGED <<stage, workflow>>
      PROVE  RefsInv'
  <2>1. Sound(NodesLoaded(user, entries))
    BY <1>1, <1>3 DEF NodesLoaded, MayEdit, Idle, FrameFields, Sound, Steps
  <2> QED BY <1>3, <2>1, RefsBecome
<1>4. ASSUME NEW user \in Users, RemoveWorkflow(p, user) PROVE RefsInv'
  <2> DEFINE f == [Idle EXCEPT !.step = "remove.delete"]
  <2>1. Sound(f)
    BY <1>4 DEF RemoveWorkflow, MayEdit, Idle, Blank, FrameFields, DocFields, Sound, Steps
  <2> HIDE DEF f
  <2>2. Become(p, f) /\ UNCHANGED <<stage, workflow>>
    BY <1>4 DEF RemoveWorkflow, f
  <2> QED BY <2>1, <2>2, RefsBecome
<1>5. ASSUME NEW form \in Forms, UpdateNodeConfig(p, form) PROVE RefsInv'
  <2> DEFINE merged == MergeWorkflowConfig(workflow.type, workflow.config, TopicPatch(form.topic))
             f == [Idle EXCEPT
                      !.step = "save",
                      !.sets = {"credentials", "nodeCredentials"} \cup (IF form.topic = Keep THEN {} ELSE {"config"}),
                      !.loaded = workflow, !.config = merged,
                      !.credentials = form.credentials, !.entries = MirrorEntries(form.credentials)]
  <2>1. OneUser(workflow.owner, merged)
    BY <1>1, TopicKeepsRefs DEF OneUser
  <2>2. Sound(f)
    <3> HIDE DEF merged
    <3> QED BY <1>1, <1>5, <2>1 DEF UpdateNodeConfig, Idle, FrameFields, Sound, Steps
  <2> HIDE DEF f
  <2>3. Become(p, f) /\ UNCHANGED <<stage, workflow>>
    BY <1>5 DEF UpdateNodeConfig, f
  <2> QED BY <2>2, <2>3, RefsBecome
<1>6. ASSUME Return(p), UNCHANGED <<stage, workflow>> PROVE RefsInv'
  <2>1. Sound(Idle)
    BY Shapes DEF Sound, Steps
  <2> QED BY <1>6, <2>1, RefsBecome DEF Return
<1>7. ASSUME ConfigCheck(p), RefsOwned(frames[p].user, frames[p].config),
             Become(p, [frames[p] EXCEPT !.step = "save"])
      PROVE  RefsInv'
  <2> DEFINE f == [frames[p] EXCEPT !.step = "save"]
  <2>1. At(p, "config.check") /\ UNCHANGED <<stage, workflow>>
    BY <1>7 DEF ConfigCheck
  <2>2. Pending(p)
    BY DEF RefsInv
  <2>3. OneUser(workflow.owner, frames[p].config)
    BY <1>7, <2>1, <2>2 DEF Pending, OneUser, RefsOwned
  <2>4. f.step = "save" /\ f.config = frames[p].config /\ f.loaded = frames[p].loaded
        /\ DOMAIN f = FrameFields
    BY <1>1 DEF FrameFields
  <2>5. Sound(f)
    <3> HIDE DEF f
    <3> QED BY <1>1, <2>1, <2>2, <2>3, <2>4 DEF Sound, Pending, At, Steps
  <2> HIDE DEF f
  <2>6. Become(p, f)
    BY <1>7 DEF f
  <2> QED BY <2>1, <2>5, <2>6, RefsBecome
<1>8. CASE ConfigCheck(p)
  BY <1>6, <1>7, <1>8 DEF ConfigCheck
<1>9. CASE NodesLoad(p)
  BY <1>3, <1>6, <1>9 DEF NodesLoad
<1>10. CASE SaveThrows(p)
  BY <1>6, <1>10 DEF SaveThrows
<1>11. ASSUME NEW user \in Users, NEW entries \in NodeLists, UpsertNodeCredentials(p, user, entries)
       PROVE  RefsInv'
  BY <1>3, <1>11 DEF UpsertNodeCredentials
<1> QED BY <1>2, <1>4, <1>5, <1>8, <1>9, <1>10, <1>11

LEMMA RefsStep == RefsInv /\ [Next]_vars => RefsInv'
<1> SUFFICES ASSUME RefsInv, [Next]_vars PROVE RefsInv'
  OBVIOUS
<1>1. ASSUME NEW p \in Requests, NEW user \in Users, NEW type \in Types, NEW body \in Bodies,
             NEW entries \in NodeLists \cup {<<>>}, Create(p, user, type, body, entries)
      PROVE  RefsInv'
  <2> DEFINE config == MergeWorkflowConfig(type, DefaultConfig, body)
             f == [Idle EXCEPT !.step = "create.insert", !.user = user, !.entries = entries,
                               !.loaded = Blank(user, type), !.config = config]
  <2>1. /\ f.step = "create.insert" /\ f.config = config /\ f.loaded = Blank(user, type)
        /\ DOMAIN f = FrameFields /\ DOMAIN f.loaded = DocFields /\ f.loaded.owner = user
    BY DEF Idle, FrameFields, Blank, DocFields
  <2>2. OneUser(user, config)
    BY <1>1 DEF Create, OneUser, RefsOwned
  <2> HIDE DEF config, f
  <2>3. Become(p, f) /\ stage = "none" /\ stage' = "creating" /\ workflow' = workflow
    BY <1>1 DEF Create, f, config
  <2>4. /\ DOMAIN frames' = Requests /\ frames'[p] = f
        /\ \A q \in Requests \ {p} : frames'[q] = frames[q]
    BY <2>3 DEF RefsInv, Shaped, Become
  <2>5. Shaped' /\ OneUser(workflow.owner, workflow.config)'
    BY <2>1, <2>3, <2>4 DEF RefsInv, Shaped
  <2>6. \A q \in Requests \ {p} : frames[q].step \notin {"create.insert", "config.check", "save", "remove.delete"}
    BY <2>3 DEF RefsInv, Pending, At
  <2>7. \A q \in Requests : Pending(q)' /\ (At(q, "create.insert")' => q = p)
    BY <2>1, <2>2, <2>3, <2>4, <2>6 DEF Pending, At
  <2> QED BY <2>5, <2>7 DEF RefsInv
<1>2. ASSUME NEW p \in Requests, CreateInsert(p) PROVE RefsInv'
  <2> DEFINE doc == [frames[p].loaded EXCEPT !.config = frames[p].config]
  <2>1. Pending(p) /\ stage = "creating" /\ OneUser(frames[p].loaded.owner, frames[p].config)
    BY <1>2 DEF RefsInv, Pending, CreateInsert
  <2>2. DOMAIN doc = DocFields /\ doc.config = frames[p].config /\ doc.owner = frames[p].loaded.owner
    BY DEF RefsInv, Shaped, DocFields
  <2> HIDE DEF doc
  <2>3. workflow' = doc /\ stage' = "live"
    BY <1>2 DEF CreateInsert, doc
  <2>4. OneUser(workflow.owner, workflow.config)' /\ DOMAIN workflow' = DocFields
    BY <2>1, <2>2, <2>3
  <2>5. PICK f : /\ Become(p, f) /\ f.step \in {"idle", "nodes.load"}
                 /\ DOMAIN f = FrameFields /\ DOMAIN f.loaded = DocFields
    <3>1. DOMAIN frames[p] = FrameFields /\ DOMAIN frames[p].loaded = DocFields
      BY DEF RefsInv, Shaped
    <3>2. CASE Become(p, Idle)
      BY <3>2, Shapes
    <3>3. CASE Become(p, [frames[p] EXCEPT !.step = "nodes.load"])
      <4> DEFINE g == [frames[p] EXCEPT !.step = "nodes.load"]
      <4>1. g.step = "nodes.load" /\ DOMAIN g = FrameFields /\ g.loaded = frames[p].loaded
        BY <3>1 DEF FrameFields
      <4>2. Become(p, g)
        BY <3>3
      <4> HIDE DEF g
      <4> QED BY <3>1, <4>1, <4>2
    <3> QED BY <1>2, <3>2, <3>3 DEF CreateInsert, Return
  <2>6. /\ DOMAIN frames' = Requests /\ frames'[p] = f
        /\ \A q \in Requests \ {p} : frames'[q] = frames[q]
    BY <2>5 DEF RefsInv, Shaped, Become
  <2>7. \A q \in Requests \ {p} : frames[q].step \notin {"create.insert", "config.check", "save", "remove.delete"}
    BY <1>2, <2>1 DEF RefsInv, Pending, At, CreateInsert
  <2>8. \A q \in Requests : Pending(q)' /\ ~At(q, "create.insert")'
    BY <2>5, <2>6, <2>7 DEF Pending, At
  <2>9. Shaped'
    BY <2>4, <2>5, <2>6 DEF RefsInv, Shaped
  <2> QED BY <2>4, <2>8, <2>9 DEF RefsInv
<1>3. ASSUME NEW p \in Requests, Save(p) PROVE RefsInv'
  <2> DEFINE f == frames[p]
  <2>1. /\ DOMAIN workflow' = DocFields /\ workflow'.owner = workflow.owner
        /\ workflow'.config = IF "config" \in f.sets THEN f.config ELSE workflow.config
    <3>1. DOMAIN workflow = DocFields
      BY DEF RefsInv, Shaped
    <3>2. workflow' = [workflow EXCEPT
                 !.config = IF "config" \in f.sets THEN SavedConfig(f.loaded.config, f.config, @) ELSE @,
                 !.credentials = IF "credentials" \in f.sets THEN f.credentials ELSE @,
                 !.nodes = IF "nodeCredentials" \in f.sets THEN SavedNodes(f) ELSE @,
                 !.version = IF "nodeCredentials" \in f.sets THEN @ + 1 ELSE @]
      BY <1>3 DEF Save
    <3> QED BY <3>1, <3>2 DEF DocFields, SavedConfig
  <2>2. OneUser(workflow.owner, workflow.config)'
    BY <1>3, <2>1 DEF RefsInv, Pending, Save
  <2>3. stage' = stage /\ DOMAIN frames' = Requests /\ frames'[p] = Idle
        /\ \A q \in Requests \ {p} : frames'[q] = frames[q]
    BY <1>3 DEF Save, RefsInv, Shaped, Return, Become
  <2>4. \A q \in Requests : Pending(q)' /\ (At(q, "create.insert")' => At(q, "create.insert"))
    BY <2>1, <2>3, Shapes DEF RefsInv, Pending, At
  <2>5. Shaped'
    BY <2>1, <2>3, Shapes DEF RefsInv, Shaped
  <2> QED BY <2>2, <2>4, <2>5 DEF RefsInv
<1>4. ASSUME NEW p \in Requests, RemoveDelete(p) PROVE RefsInv'
  <2>1. /\ stage \in {"live", "removed"} /\ stage' = "removed" /\ workflow' = workflow
        /\ DOMAIN frames' = Requests /\ frames'[p] = Idle
        /\ \A q \in Requests \ {p} : frames'[q] = frames[q]
    BY <1>4 DEF RemoveDelete, RefsInv, Pending, At, Shaped, Return, Become
  <2>2. \A q \in Requests : Pending(q)' /\ (At(q, "create.insert")' => At(q, "create.insert"))
    BY <2>1, Shapes DEF RefsInv, Pending, At
  <2>3. Shaped' /\ OneUser(workflow.owner, workflow.config)'
    BY <2>1, Shapes DEF RefsInv, Shaped
  <2> QED BY <2>2, <2>3 DEF RefsInv
<1>5. ASSUME UNCHANGED <<stage, workflow, frames>> PROVE RefsInv'
  BY <1>5 DEF RefsInv, Shaped, Pending, At
<1>6. ASSUME NEW c \in Creds, LoseCredential(c) PROVE RefsInv'
  BY <1>5, <1>6 DEF LoseCredential
<1>7. CASE UNCHANGED vars
  BY <1>5, <1>7 DEF vars
<1> QED
  BY <1>1, <1>2, <1>3, <1>4, <1>6, <1>7, RefsFrames DEF Next, Arrival, Continue

(* However several users' edits of a template overlap, its config names one user's
   credentials, and that of an owned workflow its owner's. *)
THEOREM ConfigOfOneUser == Spec => []RefsOfOneUser
<1>1. Spec => []RefsInv
  BY RefsInit, RefsStep, PTL DEF Spec
<1>2. RefsInv => RefsOfOneUser
  BY DEF RefsInv, OneUser, RefsOfOneUser
<1> QED BY <1>1, <1>2, PTL

------------------------------------------------------------------------------
(* Induction.  The theorems of the library take the formula as an operator; for a set
   of numbers it follows from the well-foundedness of the order. *)

Below == {r \in Nat \X Nat : r[1] < r[2]}

LEMMA Least ==
  ASSUME NEW T \in SUBSET Nat, T # {}
  PROVE  \E x \in T : \A y \in T : x <= y
<1>1. IsWellFoundedOn(Below, Nat)
  <2>1. IsWellFoundedOn(OpToRel(<, Nat), Nat)
    BY NatLessThanWellFounded
  <2>2. Below = OpToRel(<, Nat)
    BY DEF OpToRel, Below
  <2> QED BY <2>1, <2>2
<1>2. PICK x \in T : \A y \in T : ~(<<y, x>> \in Below)
  BY <1>1, WFMin
<1>3. ASSUME NEW y \in T PROVE x <= y
  <2>1. <<y, x>> \in Nat \X Nat /\ <<y, x>>[1] = y /\ <<y, x>>[2] = x
    OBVIOUS
  <2>2. ~(y < x)
    BY <1>2, <2>1 DEF Below
  <2> QED BY <2>2
<1> QED BY <1>3

LEMMA Induction ==
  ASSUME NEW S, 0 \in S, \A n \in Nat : n \in S => n + 1 \in S
  PROVE  Nat \subseteq S
<1> SUFFICES ASSUME Nat \ S # {} PROVE FALSE
  OBVIOUS
<1>1. PICK x \in Nat \ S : \A y \in Nat \ S : x <= y
  BY Least
<1>2. x - 1 \in Nat /\ x - 1 \in S
  BY <1>1
<1> QED BY <1>1, <1>2

------------------------------------------------------------------------------
(* What upserts return *)

LEMMA FirstOfType ==
  ASSUME NEW nodes \in Seq(Node), NEW entry \in Node
  PROVE  LET i == SelectInSeq(nodes, LAMBDA n : n.type = entry.type)
         IN  \/ i = 0 /\ \A k \in DOMAIN nodes : nodes[k].type # entry.type
             \/ i \in DOMAIN nodes /\ nodes[i].type = entry.type
<1> DEFINE I == {k \in 1..Len(nodes) : nodes[k].type = entry.type}
<1>1. SelectInSeq(nodes, LAMBDA n : n.type = entry.type) = IF I # {} THEN Min(I) ELSE 0
  BY DEF SelectInSeq
<1>2. Len(nodes) \in Nat /\ DOMAIN nodes = 1..Len(nodes)
  OBVIOUS
<1>3. ASSUME I # {} PROVE Min(I) \in I
  <2>1. I \in SUBSET Nat
    BY <1>2
  <2>2. \E x \in I : \A y \in I : x <= y
    BY <1>3, <2>1, Least
  <2> HIDE DEF I
  <2> QED BY <2>2 DEF Min
<1>4. CASE I # {}
  BY <1>1, <1>2, <1>3, <1>4
<1>5. CASE I = {}
  BY <1>1, <1>2, <1>5
<1> QED BY <1>4, <1>5

GoodOne(r, nodes, entry) ==
    /\ r \in Seq(Node) /\ DOMAIN nodes \subseteq DOMAIN r
    /\ \A i \in DOMAIN nodes : r[i].type = nodes[i].type
    /\ \A i \in DOMAIN r : (i \in DOMAIN nodes /\ r[i] = nodes[i]) \/ r[i] = entry
    /\ \A i \in DOMAIN nodes : nodes[i].type # entry.type => r[i] = nodes[i]
    /\ \E i \in DOMAIN r : r[i] = entry
    /\ OnePerType(nodes) => OnePerType(r)

LEMMA UpsertOne ==
  ASSUME NEW nodes \in Seq(Node), NEW entry \in Node
  PROVE  GoodOne(Upsert(nodes, entry), nodes, entry)
<1> DEFINE i == SelectInSeq(nodes, LAMBDA n : n.type = entry.type)
           r == Upsert(nodes, entry)
<1> SUFFICES GoodOne(r, nodes, entry)
  OBVIOUS
<1>1. \/ i = 0 /\ \A k \in DOMAIN nodes : nodes[k].type # entry.type
      \/ i \in DOMAIN nodes /\ nodes[i].type = entry.type
  BY FirstOfType
<1>2. r = IF i = 0 THEN Append(nodes, entry) ELSE [nodes EXCEPT ![i] = entry]
  BY DEF Upsert
<1>3. Len(nodes) \in Nat /\ DOMAIN nodes = 1..Len(nodes)
  OBVIOUS
<1> HIDE DEF i, r
<1>4. CASE i = 0
  <2>1. r = Append(nodes, entry) /\ \A k \in DOMAIN nodes : nodes[k].type # entry.type
    BY <1>1, <1>2, <1>3, <1>4
  <2>2. /\ r \in Seq(Node) /\ DOMAIN r = 1..(Len(nodes) + 1)
        /\ \A k \in DOMAIN nodes : r[k] = nodes[k]
        /\ r[Len(nodes) + 1] = entry
    BY <1>3, <2>1
  <2>3. OnePerType(nodes) => OnePerType(r)
    BY <1>3, <2>1, <2>2 DEF OnePerType
  <2> QED BY <1>3, <2>1, <2>2, <2>3 DEF GoodOne
<1>5. CASE i # 0
  <2>1. r = [nodes EXCEPT ![i] = entry] /\ i \in DOMAIN nodes /\ nodes[i].type = entry.type
    BY <1>1, <1>2, <1>5
  <2>2. r \in Seq(Node) /\ DOMAIN r = DOMAIN nodes
    BY <1>3, <2>1
  <2>3. r[i] = entry /\ \A k \in DOMAIN nodes : k # i => r[k] = nodes[k]
    BY <2>1
  <2>4. \A k \in DOMAIN nodes : r[k].type = nodes[k].type
    BY <2>1, <2>3
  <2>5. OnePerType(nodes) => OnePerType(r)
    BY <2>2, <2>4 DEF OnePerType
  <2> QED BY <2>1, <2>2, <2>3, <2>4, <2>5 DEF GoodOne
<1> QED BY <1>4, <1>5

(* g holds what the first 0..m entries make of the nodes. *)
Upserts(g, nodes, entries, m) ==
    g = [n \in 0..m |-> IF n = 0 THEN nodes ELSE Upsert(g[n - 1], entries[n])]

LEMMA UpsertsExist ==
  ASSUME NEW nodes, NEW entries, NEW m \in Nat
  PROVE  \E g : Upserts(g, nodes, entries, m)
<1> DEFINE S == {n \in Nat : \E g : Upserts(g, nodes, entries, n)}
<1>1. 0 \in S
  <2>1. Upserts([n \in 0..0 |-> nodes], nodes, entries, 0)
    BY DEF Upserts
  <2> QED BY <2>1
<1>2. ASSUME NEW n \in Nat, n \in S PROVE n + 1 \in S
  <2>1. PICK g : Upserts(g, nodes, entries, n)
    BY <1>2
  <2> DEFINE h == [k \in 0..(n + 1) |-> IF k = n + 1 THEN Upsert(g[n], entries[n + 1]) ELSE g[k]]
  <2>2. Upserts(h, nodes, entries, n + 1)
    <3> SUFFICES ASSUME NEW k \in 0..(n + 1)
                 PROVE  h[k] = IF k = 0 THEN nodes ELSE Upsert(h[k - 1], entries[k])
      BY DEF Upserts
    <3>1. CASE k = n + 1
      BY <3>1
    <3>2. CASE k # n + 1
      <4>1. k \in 0..n /\ (k # 0 => k - 1 \in 0..n /\ k - 1 # n + 1 /\ k - 1 \in 0..(n + 1))
        BY <3>2
      <4>2. g[k] = IF k = 0 THEN nodes ELSE Upsert(g[k - 1], entries[k])
        BY <2>1, <4>1 DEF Upserts
      <4> QED BY <3>2, <4>1, <4>2
    <3> QED BY <3>1, <3>2
  <2> QED BY <2>2
<1> HIDE DEF S
<1>3. Nat \subseteq S
  BY <1>1, <1>2, Induction
<1> QED BY <1>3 DEF S

LEMMA UpsertedIsLast ==
  ASSUME NEW nodes, NEW entries, Len(entries) \in Nat
  PROVE  \E g : /\ Upserts(g, nodes, entries, Len(entries))
                /\ Upserted(nodes, entries) = g[Len(entries)]
<1> DEFINE g == CHOOSE f : Upserts(f, nodes, entries, Len(entries))
<1>1. Upserts(g, nodes, entries, Len(entries))
  BY UpsertsExist
<1>2. Upserted(nodes, entries) = g[Len(entries)]
  BY DEF Upserted, Upserts
<1> QED BY <1>1, <1>2

(* What the first n entries make of the nodes: existing entries keep their place and
   type, and their content unless an entry of their type was sent; new ones have a
   type that was sent; the last entry sent of a type is there. *)
Kept(r, nodes, entries, n) ==
    /\ r \in Seq(Node) /\ DOMAIN nodes \subseteq DOMAIN r
    /\ \A i \in DOMAIN nodes : r[i].type = nodes[i].type
    /\ \A i \in DOMAIN r : \/ i \in DOMAIN nodes /\ r[i] = nodes[i]
                           \/ \E k \in 1..n : r[i].type = entries[k].type
    /\ \A k \in 1..n : (\A m \in (k + 1)..n : entries[m].type # entries[k].type)
                           => \E i \in DOMAIN r : r[i] = entries[k]

Good(r, nodes, entries, n) ==
    Kept(r, nodes, entries, n) /\ (OnePerType(nodes) => OnePerType(r))

LEMMA UpsertedGood ==
  ASSUME NEW nodes \in Seq(Node), NEW entries \in Seq(Node)
  PROVE  Good(Upserted(nodes, entries), nodes, entries, Len(entries))
<1>0. Len(entries) \in Nat /\ \A k \in 1..Len(entries) : entries[k] \in Node
  OBVIOUS
<1>1. PICK g : /\ Upserts(g, nodes, entries, Len(entries))
               /\ Upserted(nodes, entries) = g[Len(entries)]
  BY <1>0, UpsertedIsLast
<1> DEFINE S == {n \in Nat : n <= Len(entries) => Good(g[n], nodes, entries, n)}
<1>2. 0 \in S
  <2>1. g[0] = nodes
    BY <1>0, <1>1 DEF Upserts
  <2> QED BY <2>1 DEF Good, Kept
<1>3. ASSUME NEW n \in Nat, n \in S PROVE n + 1 \in S
  <2> SUFFICES ASSUME n + 1 <= Len(entries) PROVE Good(g[n + 1], nodes, entries, n + 1)
    OBVIOUS
  <2> DEFINE s == g[n]
             r == g[n + 1]
             entry == entries[n + 1]
  <2>1. Good(s, nodes, entries, n)
    BY <1>0, <1>3
  <2>2. r = Upsert(s, entry)
    <3>1. n + 1 \in 0..Len(entries) /\ n + 1 # 0 /\ (n + 1) - 1 = n
      BY <1>0
    <3> QED BY <1>1, <3>1 DEF Upserts
  <2>3. entry \in Node /\ s \in Seq(Node)
    BY <1>0, <2>1 DEF Good, Kept
  <2> HIDE DEF r, s, entry
  <2>4. /\ r \in Seq(Node) /\ DOMAIN s \subseteq DOMAIN r
        /\ \A i \in DOMAIN s : r[i].type = s[i].type
        /\ \A i \in DOMAIN r : (i \in DOMAIN s /\ r[i] = s[i]) \/ r[i] = entry
        /\ \A i \in DOMAIN s : s[i].type # entry.type => r[i] = s[i]
        /\ \E i \in DOMAIN r : r[i] = entry
        /\ OnePerType(s) => OnePerType(r)
    <3>1. GoodOne(Upsert(s, entry), s, entry)
      BY <2>3, UpsertOne
    <3> QED BY <2>2, <3>1 DEF GoodOne
  <2>5. entry = entries[n + 1] /\ \A k \in 1..(n + 1) : k \in 1..n \/ k = n + 1
    BY DEF entry
  <2>6. ASSUME NEW i \in DOMAIN r
        PROVE  \/ i \in DOMAIN nodes /\ r[i] = nodes[i]
               \/ \E k \in 1..(n + 1) : r[i].type = entries[k].type
    <3>1. CASE r[i] = entry
      BY <2>5, <3>1
    <3>2. CASE i \in DOMAIN s /\ r[i] = s[i]
      <4>1. \/ i \in DOMAIN nodes /\ s[i] = nodes[i]
            \/ \E k \in 1..n : s[i].type = entries[k].type
        BY <2>1, <3>2 DEF Good, Kept
      <4> QED BY <3>2, <4>1
    <3> QED BY <2>4, <3>1, <3>2
  <2>7. ASSUME NEW k \in 1..(n + 1),
               \A m \in (k + 1)..(n + 1) : entries[m].type # entries[k].type
        PROVE  \E i \in DOMAIN r : r[i] = entries[k]
    <3>1. CASE k = n + 1
      BY <2>4, <2>5, <3>1
    <3>2. CASE k \in 1..n
      <4>1. n + 1 \in (k + 1)..(n + 1) /\ \A m \in (k + 1)..n : m \in (k + 1)..(n + 1)
        BY <3>2
      <4>2. entry.type # entries[k].type
        BY <2>5, <2>7, <4>1
      <4>3. PICK i \in DOMAIN s : s[i] = entries[k]
        BY <2>1, <2>7, <3>2, <4>1 DEF Good, Kept
      <4> QED BY <2>4, <4>2, <4>3
    <3> QED BY <2>5, <3>1, <3>2
  <2>8. /\ DOMAIN nodes \subseteq DOMAIN r
        /\ \A i \in DOMAIN nodes : r[i].type = nodes[i].type
        /\ OnePerType(nodes) => OnePerType(r)
    BY <2>1, <2>4 DEF Good, Kept
  <2> QED BY <2>4, <2>6, <2>7, <2>8 DEF Good, Kept, r
<1> HIDE DEF S
<1>4. Len(entries) \in S
  <2>1. Nat \subseteq S
    BY <1>2, <1>3, Induction
  <2> QED BY <1>0, <2>1
<1> QED BY <1>0, <1>1, <1>4 DEF S

------------------------------------------------------------------------------
(* Types, and what handlers hold *)

NoTopic(type, config) == type = "generate-content-post" => config.topic = ""

(* A handler on its way to a save has loaded this workflow, in an earlier version or
   as it is, and mirrors what it sets; a new workflow has no entries. *)
Edited(f) ==
    /\ NoTopic(f.loaded.type, f.config)
    /\ f.step = "create.insert" => f.loaded.nodes = <<>>
    /\ f.step \in {"config.check", "save"} =>
           /\ f.loaded.type = workflow.type
           /\ f.loaded.version <= workflow.version
           /\ f.loaded.version = workflow.version => f.loaded.nodes = workflow.nodes
           /\ "credentials" \in f.sets =>
                  "nodeCredentials" \in f.sets /\ f.entries = MirrorEntries(f.credentials)
           /\ "nodeCredentials" \notin f.sets => f.entries = <<>>

EditInv ==
    /\ TypeOK /\ RefsInv
    /\ \A p \in Requests : Edited(frames[p])
    /\ synced => stage \in {"live", "removed"}

LEMMA BlankTypes ==
    /\ DefaultConfig \in Config /\ DefaultConfig.topic = ""
    /\ \A owner \in Users \cup {NoUser}, type \in Types :
           LET doc == Blank(owner, type)
           IN  /\ doc \in Doc /\ doc.type = type /\ doc.nodes = <<>> /\ doc.config = DefaultConfig
               /\ doc.version = 0
    /\ Idle \in Frame /\ Edited(Idle) /\ Idle.step = "idle" /\ Idle.config = DefaultConfig
    /\ Idle.entries = <<>> /\ Idle.sets = {}
<1>1. DefaultConfig \in Config /\ DefaultConfig.topic = ""
  BY EditingInputsAssumption DEF DefaultConfig, Config
<1>2. <<>> \in Seq(Node) /\ [key |-> "", spreadsheetId |-> ""] \in UiCredentials
  <2>1. "" \in Texts
    BY EditingInputsAssumption
  <2>2. [key |-> "", spreadsheetId |-> ""] \in UiCredentials
    BY <2>1 DEF UiCredentials
  <2>3. <<>> \in Seq(Node)
    OBVIOUS
  <2> QED BY <2>2, <2>3
<1>3. ASSUME NEW owner \in Users \cup {NoUser}, NEW type \in Types
      PROVE  LET doc == Blank(owner, type)
             IN  /\ doc \in Doc /\ doc.type = type /\ doc.nodes = <<>>
                 /\ doc.config = DefaultConfig /\ doc.version = 0
  BY <1>1, <1>2 DEF Blank, Doc
<1>4. Blank(NoUser, "generate-idea-posts") \in Doc
  BY <1>3 DEF Types
<1>5. Idle \in Frame /\ Idle.step = "idle" /\ Idle.config = DefaultConfig
      /\ Idle.entries = <<>> /\ Idle.sets = {}
  BY <1>1, <1>2, <1>4 DEF Idle, Frame, Steps, Paths
<1>6. Edited(Idle)
  BY <1>1, <1>5 DEF Edited, NoTopic
<1> QED BY <1>1, <1>3, <1>5, <1>6

LEMMA MergeTypes ==
  ASSUME NEW type \in Types, NEW current \in Config, NEW patch \in Patch
  PROVE  LET merged == MergeWorkflowConfig(type, current, patch)
         IN  merged \in Config /\ NoTopic(type, merged)
  BY EditingInputsAssumption DEF MergeWorkflowConfig, Config, Patch, Sent, NoTopic, Types

LEMMA MirrorTypes ==
  ASSUME NEW credentials \in UiCredentials
  PROVE  LET entries == MirrorEntries(credentials)
         IN  /\ entries \in Seq(Node) /\ Len(entries) = 4 /\ entries # <<>>
             /\ \A k \in 1..4 : entries[k].type \in MirroredTypes
             /\ \A k, m \in 1..4 : k # m => entries[m].type # entries[k].type
<1> DEFINE entries == MirrorEntries(credentials)
           a == [type |-> "openrouter-model", credentialId |-> "ui-openrouter",
                 config |-> credentials.key]
           b == [type |-> "gemini-model", credentialId |-> "ui-openrouter",
                 config |-> credentials.key]
           c == [type |-> "add-to-sheet", credentialId |-> "ui-google",
                 config |-> credentials.spreadsheetId]
           d == [type |-> "google-sheet", credentialId |-> "ui-google",
                 config |-> credentials.spreadsheetId]
<1>1. a \in Node /\ b \in Node /\ c \in Node /\ d \in Node
  BY RequestsAssumption DEF Node, UiCredentials, MirroredTypes
<1>2. /\ a.type = "openrouter-model" /\ b.type = "gemini-model"
      /\ c.type = "add-to-sheet" /\ d.type = "google-sheet"
  OBVIOUS
<1>3. entries = <<a, b, c, d>>
  BY DEF MirrorEntries
<1> HIDE DEF a, b, c, d, entries
<1>4. entries \in Seq(Node) /\ Len(entries) = 4 /\ entries # <<>>
  BY <1>1, <1>3
<1>5. entries[1] = a /\ entries[2] = b /\ entries[3] = c /\ entries[4] = d
  BY <1>3
<1>6. \A k \in 1..4 : entries[k].type \in MirroredTypes
  BY <1>2, <1>5 DEF MirroredTypes
<1>7. \A k, m \in 1..4 : k # m => entries[m].type # entries[k].type
  BY <1>2, <1>5
<1> QED BY <1>4, <1>6, <1>7 DEF entries

LEMMA EditTypes ==
  ASSUME EditInv, NEW p \in Requests
  PROVE  /\ frames[p] \in Frame /\ frames[p].loaded \in Doc /\ frames[p].config \in Config
         /\ frames[p].entries \in Seq(Node) /\ frames[p].loaded.nodes \in Seq(Node)
         /\ frames[p].user \in Users \cup {NoUser}
         /\ frames[p].credentials \in UiCredentials
         /\ workflow \in Doc /\ workflow.config \in Config /\ workflow.nodes \in Seq(Node)
         /\ workflow.version \in Nat /\ frames[p].loaded.version \in Nat
         /\ workflow.credentials \in UiCredentials /\ workflow.type \in Types
         /\ frames[p].loaded.type \in Types
         /\ NoTopic(workflow.type, workflow.config)
         /\ Edited(frames[p]) /\ Pending(p)
<1>1. frames[p] \in Frame /\ workflow \in Doc
  BY DEF EditInv, TypeOK
<1>2. frames[p].loaded \in Doc
  BY <1>1 DEF Frame
<1>3. NoTopic(workflow.type, workflow.config) /\ Edited(frames[p]) /\ Pending(p)
  BY DEF EditInv, TypeOK, RefsInv, NoTopic
<1> QED BY <1>1, <1>2, <1>3 DEF Frame, Doc

(* A step that changes its own frame and not the document. *)
LEMMA EditBecome ==
  ASSUME EditInv, RefsInv', NEW p \in Requests, NEW f \in Frame, Edited(f), Become(p, f),
         UNCHANGED <<workflow, synced>>, vault' \subseteq Creds,
         stage' \in {"none", "creating", "live", "removed"},
         stage \in {"live", "removed"} => stage' \in {"live", "removed"}
  PROVE  EditInv'
<1>1. frames' = [frames EXCEPT ![p] = f] /\ frames \in [Requests -> Frame]
  BY DEF Become, EditInv, TypeOK
<1>2. frames' \in [Requests -> Frame] /\ \A q \in Requests : frames'[q] = frames[q] \/ frames'[q] = f
  BY <1>1
<1>3. TypeOK'
  BY <1>2 DEF EditInv, TypeOK
<1>4. \A q \in Requests : Edited(frames[q])'
  BY <1>2 DEF EditInv, Edited
<1> QED BY <1>3, <1>4 DEF EditInv

(* The frame in which node credentials are saved. *)
LEMMA NodesFrame ==
  ASSUME EditInv, NEW p \in Requests, NEW user \in Users \cup {NoUser}, NEW entries \in Seq(Node)
  PROVE  NodesLoaded(user, entries) \in Frame /\ Edited(NodesLoaded(user, entries))
<1> DEFINE f == NodesLoaded(user, entries)
<1>1. /\ f.step = "save" /\ f.sets = {"nodeCredentials"} /\ f.loaded = workflow
      /\ f.config = DefaultConfig /\ f.entries = entries
  BY DEF NodesLoaded, Idle
<1>2. f \in Frame
  <2>1. workflow \in Doc /\ Idle \in Frame
    BY EditTypes, BlankTypes
  <2>2. "save" \in Steps /\ {"nodeCredentials"} \subseteq Paths
    BY DEF Steps, Paths
  <2> QED BY <2>1, <2>2 DEF NodesLoaded, Frame
<1> HIDE DEF f
<1>3. Edited(f)
  <2>1. DefaultConfig.topic = ""
    BY BlankTypes
  <2>2. workflow.version \in Nat
    BY EditTypes
  <2>3. "credentials" \notin f.sets /\ "nodeCredentials" \in f.sets
    BY <1>1
  <2>4. f.step # "create.insert"
    BY <1>1
  <2>5. NoTopic(f.loaded.type, f.config)
    BY <1>1, <2>1 DEF NoTopic
  <2>6. f.loaded = workflow /\ f.loaded.version <= workflow.version
    BY <1>1, <2>2
  <2> HIDE DEF NoTopic
  <2> QED BY <2>3, <2>4, <2>5, <2>6 DEF Edited
<1> QED BY <1>2, <1>3 DEF f

(* The steps that change only a frame, or the stage with it. *)
LEMMA FramesEdited ==
  ASSUME EditInv, RefsInv', NEW p \in Requests,
         \/ Arrival(p) \/ ConfigCheck(p) \/ NodesLoad(p) \/ SaveThrows(p) \/ RemoveDelete(p)
  PROVE  EditInv'
<1>0. vault \subseteq Creds /\ stage \in {"none", "creating", "live", "removed"}
      /\ workflow \in Doc /\ Idle \in Frame /\ Edited(Idle)
  BY EditTypes, BlankTypes DEF EditInv, TypeOK
<1>1. ASSUME NEW user \in Users, NEW type \in Types, NEW body \in Bodies,
             NEW entries \in NodeLists \cup {<<>>}, Create(p, user, type, body, entries)
      PROVE  EditInv'
  <2> DEFINE config == MergeWorkflowConfig(type, DefaultConfig, body)
             f == [Idle EXCEPT !.step = "create.insert", !.user = user, !.entries = entries,
                               !.loaded = Blank(user, type), !.config = config]
  <2>1. config \in Config /\ NoTopic(type, config)
    BY MergeTypes, BlankTypes, RequestsAssumption
  <2>2. entries \in Seq(Node) /\ Blank(user, type) \in Doc /\ Blank(user, type).type = type
        /\ Blank(user, type).nodes = <<>>
    <3>1. entries \in Seq(Node)
      <4>1. <<>> \in Seq(Node)
        OBVIOUS
      <4>2. CASE entries = <<>>
        BY ONLY <4>1, <4>2
      <4>3. CASE entries \in NodeLists
        BY <4>3, RequestsAssumption
      <4> QED BY <4>2, <4>3
    <3>2. user \in Users \cup {NoUser}
      OBVIOUS
    <3> QED BY <3>1, <3>2, BlankTypes
  <2> HIDE DEF config
  <2>3. /\ f \in Frame /\ f.step = "create.insert" /\ f.loaded = Blank(user, type)
        /\ f.config = config
    BY <1>0, <2>1, <2>2 DEF Frame, Steps
  <2>4. Become(p, f) /\ stage' = "creating" /\ stage = "none" /\ UNCHANGED <<workflow, vault, synced>>
    BY <1>1 DEF Create, config
  <2> HIDE DEF f
  <2>5. Edited(f)
    BY <2>1, <2>2, <2>3 DEF Edited
  <2> QED BY <1>0, <2>3, <2>4, <2>5, EditBecome
<1>2. ASSUME NEW user \in Users, NEW body \in Bodies, UpdateConfig(p, user, body) PROVE EditInv'
  <2> DEFINE config == MergeWorkflowConfig(workflow.type, workflow.config, body)
             f == [Idle EXCEPT !.step = "config.check", !.sets = {"config"}, !.user = user,
                               !.loaded = workflow, !.config = config]
  <2>1. config \in Config /\ NoTopic(workflow.type, config)
    BY MergeTypes, EditTypes, RequestsAssumption
  <2> HIDE DEF config
  <2>2. /\ f \in Frame /\ f.step = "config.check" /\ f.loaded = workflow /\ f.config = config
        /\ f.sets = {"config"} /\ f.entries = <<>>
    BY <1>0, <2>1, BlankTypes DEF Frame, Steps, Paths
  <2>3. Become(p, f) /\ UNCHANGED <<stage, workflow, vault, synced>>
    BY <1>2 DEF UpdateConfig, config
  <2> HIDE DEF f
  <2>4. Edited(f)
    BY <2>1, <2>2, EditTypes DEF Edited
  <2> QED BY <1>0, <2>2, <2>3, <2>4, EditBecome
<1>3. ASSUME NEW user \in Users \cup {NoUser}, NEW entries \in Seq(Node),
             Become(p, NodesLoaded(user, entries)), UNCHANGED <<stage, workflow, vault, synced>>
      PROVE  EditInv'
  BY <1>0, <1>3, NodesFrame, EditBecome
<1>4. ASSUME NEW form \in Forms, UpdateNodeConfig(p, form) PROVE EditInv'
  <2> DEFINE config == MergeWorkflowConfig(workflow.type, workflow.config, TopicPatch(form.topic))
             sets == {"credentials", "nodeCredentials"} \cup (IF form.topic = Keep THEN {} ELSE {"config"})
             f == [Idle EXCEPT !.step = "save", !.sets = sets, !.loaded = workflow,
                               !.config = config, !.credentials = form.credentials,
                               !.entries = MirrorEntries(form.credentials)]
  <2>0. form.credentials \in UiCredentials /\ TopicPatch(form.topic) \in Patch
    BY RequestsAssumption DEF TopicPatch, Patch
  <2>1. config \in Config /\ NoTopic(workflow.type, config)
    BY <2>0, MergeTypes, EditTypes
  <2>2. MirrorEntries(form.credentials) \in Seq(Node)
    BY <2>0, MirrorTypes
  <2>3. sets \subseteq Paths /\ {"credentials", "nodeCredentials"} \subseteq sets
    BY DEF Paths
  <2>4. Become(p, f) /\ UNCHANGED <<stage, workflow, vault, synced>>
    BY <1>4 DEF UpdateNodeConfig
  <2> HIDE DEF config, sets
  <2>5. /\ f \in Frame /\ f.step = "save" /\ f.loaded = workflow /\ f.config = config
        /\ f.sets = sets /\ f.credentials = form.credentials
        /\ f.entries = MirrorEntries(form.credentials)
    BY <1>0, <2>0, <2>1, <2>2, <2>3 DEF Frame, Steps
  <2> HIDE DEF f
  <2>6. Edited(f)
    BY <2>1, <2>3, <2>5, EditTypes DEF Edited
  <2> QED BY <1>0, <2>4, <2>5, <2>6, EditBecome
<1>5. ASSUME NEW f \in Frame, Edited(f), Become(p, f), UNCHANGED <<stage, workflow, vault, synced>>
      PROVE  EditInv'
  BY <1>0, <1>5, EditBecome
<1>6. ASSUME NEW user, RemoveWorkflow(p, user) PROVE EditInv'
  <2> DEFINE f == [Idle EXCEPT !.step = "remove.delete"]
  <2>1. f \in Frame /\ f.step = "remove.delete" /\ f.config = DefaultConfig
    BY <1>0, BlankTypes DEF Frame, Steps
  <2>2. Become(p, f) /\ UNCHANGED <<stage, workflow, vault, synced>>
    BY <1>6 DEF RemoveWorkflow
  <2> HIDE DEF f
  <2>3. Edited(f)
    BY <2>1, BlankTypes DEF Edited, NoTopic
  <2> QED BY <1>5, <2>1, <2>2, <2>3
<1>7. CASE ConfigCheck(p)
  <2> DEFINE f == [frames[p] EXCEPT !.step = "save"]
  <2>1. /\ frames[p].step = "config.check" /\ UNCHANGED <<stage, workflow, vault, synced>>
        /\ Become(p, f) \/ Become(p, Idle)
    BY <1>7 DEF ConfigCheck, At, Return
  <2>2. /\ f \in Frame /\ f.step = "save" /\ f.loaded = frames[p].loaded
        /\ f.config = frames[p].config /\ f.sets = frames[p].sets
        /\ f.entries = frames[p].entries /\ f.credentials = frames[p].credentials
    BY EditTypes DEF Frame, Steps
  <2> HIDE DEF f
  <2>3. Edited(f)
    BY <2>1, <2>2, EditTypes DEF Edited
  <2> QED BY <1>0, <1>5, <2>1, <2>2, <2>3
<1>8. CASE NodesLoad(p)
  <2>1. /\ UNCHANGED <<stage, workflow, vault, synced>>
        /\ Become(p, NodesLoaded(frames[p].user, frames[p].entries)) \/ Become(p, Idle)
    BY <1>8 DEF NodesLoad, Return
  <2> QED BY <1>0, <1>3, <1>5, <2>1, EditTypes
<1>9. CASE SaveThrows(p)
  BY <1>0, <1>5, <1>9 DEF SaveThrows, Return
<1>10. CASE RemoveDelete(p)
  BY <1>0, <1>10, EditBecome DEF RemoveDelete, Return
<1>11. ASSUME NEW user \in Users, NEW entries \in NodeLists, UpsertNodeCredentials(p, user, entries)
       PROVE  EditInv'
  BY <1>3, <1>11, RequestsAssumption DEF UpsertNodeCredentials
<1> QED
  BY <1>1, <1>2, <1>4, <1>6, <1>7, <1>8, <1>9, <1>10, <1>11 DEF Arrival

(* What a save leaves. *)
LEMMA SaveWrites ==
  ASSUME EditInv, NEW p \in Requests, Save(p)
  PROVE  LET f == frames[p]
             nodes == "nodeCredentials" \in f.sets
         IN  /\ stage = "live" /\ stage' = stage /\ vault' = vault /\ f.step = "save"
             /\ frames' = [frames EXCEPT ![p] = Idle] /\ VersionMatches(f)
             /\ DOMAIN workflow' = DOMAIN workflow
             /\ workflow'.owner = workflow.owner /\ workflow'.type = workflow.type
             /\ workflow'.config = IF "config" \in f.sets THEN f.config ELSE workflow.config
             /\ workflow'.credentials = IF "credentials" \in f.sets THEN f.credentials
                                        ELSE workflow.credentials
             /\ workflow'.nodes = IF nodes THEN SavedNodes(f) ELSE workflow.nodes
             /\ workflow'.version = IF nodes THEN workflow.version + 1 ELSE workflow.version
             /\ synced' = IF "credentials" \in f.sets THEN TRUE
                          ELSE synced /\ \A i \in DOMAIN f.entries : f.entries[i].type \notin MirroredTypes
<1> DEFINE f == frames[p]
<1>1. workflow' = [workflow EXCEPT
                 !.config = IF "config" \in f.sets THEN SavedConfig(f.loaded.config, f.config, @) ELSE @,
                 !.credentials = IF "credentials" \in f.sets THEN f.credentials ELSE @,
                 !.nodes = IF "nodeCredentials" \in f.sets THEN SavedNodes(f) ELSE @,
                 !.version = IF "nodeCredentials" \in f.sets THEN @ + 1 ELSE @]
  BY DEF Save
<1>2. DOMAIN workflow = DocFields
  BY DEF EditInv, RefsInv, Shaped
<1>3. /\ DOMAIN workflow' = DOMAIN workflow
      /\ workflow'.owner = workflow.owner /\ workflow'.type = workflow.type
      /\ workflow'.config = IF "config" \in f.sets THEN f.config ELSE workflow.config
      /\ workflow'.credentials = IF "credentials" \in f.sets THEN f.credentials ELSE workflow.credentials
      /\ workflow'.nodes = IF "nodeCredentials" \in f.sets THEN SavedNodes(f) ELSE workflow.nodes
      /\ workflow'.version = IF "nodeCredentials" \in f.sets THEN workflow.version + 1 ELSE workflow.version
  BY <1>1, <1>2 DEF DocFields, SavedConfig
<1>4. /\ stage = "live" /\ stage' = stage /\ vault' = vault /\ f.step = "save"
      /\ frames' = [frames EXCEPT ![p] = Idle] /\ VersionMatches(f)
      /\ synced' = IF "credentials" \in f.sets THEN TRUE
                   ELSE synced /\ \A i \in DOMAIN f.entries : f.entries[i].type \notin MirroredTypes
  BY DEF Save, At, Return, Become
<1> HIDE DEF f
<1> QED BY <1>3, <1>4 DEF f

(* What it makes of the entries that are stored, whether it pushes or replaces. *)
LEMMA SaveKeeps ==
  ASSUME EditInv, NEW p \in Requests, Save(p), "nodeCredentials" \in frames[p].sets
  PROVE  LET f == frames[p]
             r == SavedNodes(f)
         IN  /\ Kept(r, workflow.nodes, f.entries, Len(f.entries))
             /\ f.loaded.version = workflow.version
                   => (OnePerType(workflow.nodes) => OnePerType(r))
<1> DEFINE f == frames[p]
           r == SavedNodes(f)
           w == workflow.nodes
           entries == f.entries
<1>1. entries \in Seq(Node) /\ w \in Seq(Node) /\ f.loaded.nodes \in Seq(Node)
  BY EditTypes
<1>2. f.loaded.version = workflow.version => f.loaded.nodes = w
  BY EditTypes, SaveWrites DEF Edited
<1>3. Good(Upserted(w, entries), w, entries, Len(entries))
  BY <1>1, UpsertedGood
<1>4. VersionMatches(f) /\ "nodeCredentials" \in f.sets
  BY SaveWrites
<1>5. r = IF OnlyPushed(f) THEN w \o entries ELSE Upserted(f.loaded.nodes, entries)
  BY DEF SavedNodes
<1>6. OnlyPushed(f) => Upserted(f.loaded.nodes, entries) = f.loaded.nodes \o entries
  BY DEF OnlyPushed
<1>7. ~OnlyPushed(f) => f.loaded.version = workflow.version
  BY <1>4 DEF VersionMatches
<1> HIDE DEF f, r, w, entries
<1>8. f.loaded.version = workflow.version => r = Upserted(w, entries)
  BY <1>2, <1>5, <1>6
<1>9. CASE f.loaded.version = workflow.version
  BY <1>3, <1>8, <1>9 DEF Good, f, r, w, entries
<1>10. CASE f.loaded.version # workflow.version
  <2>1. r = w \o entries
    BY <1>5, <1>7, <1>10
  <2>2. /\ r \in Seq(Node) /\ DOMAIN w = 1..Len(w) /\ DOMAIN r = 1..(Len(w) + Len(entries))
        /\ Len(w) \in Nat /\ Len(entries) \in Nat
        /\ \A i \in 1..Len(w) : r[i] = w[i]
        /\ \A k \in 1..Len(entries) : r[Len(w) + k] = entries[k]
    BY <1>1, <2>1
  <2>3. DOMAIN w \subseteq DOMAIN r /\ \A i \in DOMAIN w : r[i].type = w[i].type
    BY <2>2
  <2>4. ASSUME NEW i \in DOMAIN r
        PROVE  (i \in DOMAIN w /\ r[i] = w[i]) \/ \E k \in 1..Len(entries) : r[i].type = entries[k].type
    <3>1. CASE i <= Len(w)
      BY <2>2, <3>1
    <3>2. CASE ~(i <= Len(w))
      <4>1. i - Len(w) \in 1..Len(entries) /\ Len(w) + (i - Len(w)) = i
        BY <2>2, <3>2
      <4>2. r[i] = entries[i - Len(w)]
        BY <2>2, <4>1
      <4> QED BY <4>1, <4>2
    <3> QED BY <3>1, <3>2
  <2>5. ASSUME NEW k \in 1..Len(entries) PROVE \E i \in DOMAIN r : r[i] = entries[k]
    <3>1. Len(w) + k \in DOMAIN r
      BY <2>2
    <3> QED BY <2>2, <3>1
  <2>6. Kept(r, w, entries, Len(entries))
    BY <2>2, <2>3, <2>4, <2>5 DEF Kept
  <2> QED BY <1>10, <2>6 DEF f, r, w, entries
<1> QED BY <1>9, <1>10

LEMMA SaveEdited ==
  ASSUME EditInv, RefsInv', NEW p \in Requests, Save(p)
  PROVE  EditInv'
<1> DEFINE f == frames[p]
           nodes == "nodeCredentials" \in f.sets
<1>1. /\ stage = "live" /\ stage' = stage /\ vault' = vault /\ f.step = "save"
      /\ frames' = [frames EXCEPT ![p] = Idle]
      /\ DOMAIN workflow' = DOMAIN workflow
      /\ workflow'.owner = workflow.owner /\ workflow'.type = workflow.type
      /\ workflow'.config = IF "config" \in f.sets THEN f.config ELSE workflow.config
      /\ workflow'.credentials = IF "credentials" \in f.sets THEN f.credentials
                                 ELSE workflow.credentials
      /\ workflow'.nodes = IF nodes THEN SavedNodes(f) ELSE workflow.nodes
      /\ workflow'.version = IF nodes THEN workflow.version + 1 ELSE workflow.version
      /\ synced' = IF "credentials" \in f.sets THEN TRUE
                   ELSE synced /\ \A i \in DOMAIN f.entries : f.entries[i].type \notin MirroredTypes
  BY SaveWrites
<1>2. /\ workflow.nodes \in Seq(Node) /\ f.config \in Config /\ workflow.config \in Config
      /\ f.credentials \in UiCredentials /\ workflow.credentials \in UiCredentials
      /\ workflow.version \in Nat /\ workflow.type \in Types
      /\ Edited(f) /\ NoTopic(workflow.type, workflow.config) /\ workflow \in Doc
  BY EditTypes
<1>3. nodes => SavedNodes(f) \in Seq(Node)
  BY SaveKeeps DEF Kept
<1>4. /\ workflow.owner \in Users \cup {NoUser}
      /\ workflow' = [owner |-> workflow'.owner, type |-> workflow'.type, config |-> workflow'.config,
                      credentials |-> workflow'.credentials, nodes |-> workflow'.nodes,
                      version |-> workflow'.version]
  <2>1. workflow.owner \in Users \cup {NoUser}
    BY <1>2 DEF Doc
  <2>2. DOMAIN workflow' = DocFields /\ workflow' = [x \in DOMAIN workflow' |-> workflow'[x]]
    BY <1>1, SaveWrites DEF EditInv, RefsInv, Shaped, Save
  <2>3. workflow' = [owner |-> workflow'.owner, type |-> workflow'.type, config |-> workflow'.config,
                      credentials |-> workflow'.credentials, nodes |-> workflow'.nodes,
                      version |-> workflow'.version]
    BY ONLY <2>2 DEF DocFields
  <2> QED BY <2>1, <2>3
<1>5. NoTopic(f.loaded.type, f.config) /\ f.loaded.type = workflow.type
  BY <1>1, <1>2 DEF Edited
<1> HIDE DEF f
<1>6. workflow' \in Doc
  <2>1. /\ workflow'.owner \in Users \cup {NoUser} /\ workflow'.type \in Types
        /\ workflow'.config \in Config /\ workflow'.credentials \in UiCredentials
        /\ workflow'.nodes \in Seq(Node) /\ workflow'.version \in Nat
    BY <1>1, <1>2, <1>3, <1>4
  <2> QED BY <1>4, <2>1 DEF Doc
<1>7. NoTopic(workflow'.type, workflow'.config)
  BY <1>1, <1>2, <1>5
<1>8. TypeOK'
  <2>1. synced' \in BOOLEAN
    BY <1>1 DEF EditInv, TypeOK
  <2>2. frames' \in [Requests -> Frame]
    BY <1>1, BlankTypes DEF EditInv, TypeOK
  <2> QED BY <1>1, <1>6, <1>7, <2>1, <2>2 DEF EditInv, TypeOK, NoTopic
<1>9. ASSUME NEW q \in Requests PROVE Edited(frames[q])'
  <2>1. CASE frames'[q] = Idle
    BY <2>1, BlankTypes DEF Edited
  <2>2. CASE frames'[q] = frames[q]
    <3> DEFINE g == frames[q]
    <3>1. Edited(g) /\ g.loaded.version \in Nat
      BY EditTypes
    <3> HIDE DEF g
    <3>2. CASE g.step \in {"config.check", "save"}
      <4>1. /\ g.loaded.type = workflow.type /\ g.loaded.version <= workflow.version
            /\ g.loaded.version = workflow.version => g.loaded.nodes = workflow.nodes
            /\ "credentials" \in g.sets =>
                   "nodeCredentials" \in g.sets /\ g.entries = MirrorEntries(g.credentials)
            /\ "nodeCredentials" \notin g.sets => g.entries = <<>>
        BY <3>1, <3>2 DEF Edited
      <4>2. /\ g.loaded.version <= workflow'.version
            /\ g.loaded.version = workflow'.version => g.loaded.nodes = workflow'.nodes
        BY <1>1, <1>2, <3>1, <4>1
      <4>3. g.step # "create.insert" /\ NoTopic(g.loaded.type, g.config)
        BY <3>1, <3>2 DEF Edited
      <4> QED BY <1>1, <2>2, <4>1, <4>2, <4>3 DEF Edited, g
    <3>3. CASE g.step \notin {"config.check", "save"}
      BY <2>2, <3>1, <3>3 DEF Edited, g
    <3> QED BY <3>2, <3>3
  <2> QED BY <1>1, <2>1, <2>2 DEF EditInv, TypeOK
<1>10. synced' => stage' \in {"live", "removed"}
  BY <1>1
<1> QED BY <1>8, <1>9, <1>10 DEF EditInv

LEMMA EditInit == Init => EditInv
<1> SUFFICES ASSUME Init PROVE EditInv
  OBVIOUS
<1>1. PICK type \in Types : workflow = Blank(NoUser, type)
  BY DEF Init
<1>2. workflow \in Doc /\ workflow.config.topic = ""
  BY <1>1, BlankTypes
<1>3. frames = [p \in Requests |-> Idle] /\ Idle \in Frame /\ Edited(Idle)
  BY BlankTypes DEF Init
<1>4. TypeOK
  BY <1>2, <1>3 DEF Init, TypeOK
<1>5. \A p \in Requests : Edited(frames[p])
  BY <1>3
<1> QED BY <1>4, <1>5, RefsInit DEF Init, EditInv

(* The insert of a new workflow meets no other handler that has loaded one. *)
LEMMA InsertEdited ==
  ASSUME EditInv, RefsInv', NEW p \in Requests, CreateInsert(p)
  PROVE  EditInv' /\ workflow'.nodes = <<>> /\ ~synced /\ synced' = synced
<1> DEFINE f == frames[p]
           g == [f EXCEPT !.step = "nodes.load"]
           doc == [f.loaded EXCEPT !.config = f.config]
<1>1. stage = "creating" /\ f.step = "create.insert" /\ ~synced
  BY DEF CreateInsert, At, EditInv, RefsInv, Pending
<1>2. /\ workflow' = doc /\ stage' = "live" /\ UNCHANGED <<vault, synced>>
      /\ frames' = [frames EXCEPT ![p] = Idle] \/ frames' = [frames EXCEPT ![p] = g]
  BY DEF CreateInsert, Return, Become
<1>3. /\ f \in Frame /\ f.loaded \in Doc /\ f.config \in Config /\ Edited(f)
  BY EditTypes
<1>4. /\ doc \in Doc /\ doc.config = f.config /\ doc.type = f.loaded.type
      /\ doc.nodes = f.loaded.nodes
  BY <1>3 DEF Doc
<1>5. /\ g \in Frame /\ g.step = "nodes.load" /\ g.loaded = f.loaded /\ g.config = f.config
  BY <1>3 DEF Frame, Steps
<1>6. NoTopic(f.loaded.type, f.config) /\ f.loaded.nodes = <<>>
  BY <1>1, <1>3 DEF Edited
<1> HIDE DEF f, g, doc
<1>7. frames' \in [Requests -> Frame] /\ \A q \in Requests : frames'[q] \in {frames[q], Idle, g}
  BY <1>2, <1>5, BlankTypes DEF EditInv, TypeOK
<1>8. TypeOK'
  BY <1>2, <1>4, <1>6, <1>7 DEF EditInv, TypeOK, NoTopic
<1>9. ASSUME NEW q \in Requests PROVE Edited(frames[q])'
  <2>1. CASE frames'[q] = Idle
    BY <2>1, BlankTypes DEF Edited
  <2>2. CASE frames'[q] = g
    BY <1>5, <1>6, <2>2 DEF Edited
  <2>3. CASE frames'[q] = frames[q]
    <3>1. frames[q].step \notin {"config.check", "save"}
      BY <1>1 DEF EditInv, RefsInv, Pending
    <3> QED BY <2>3, <3>1, EditTypes DEF Edited
  <2> QED BY <1>7, <2>1, <2>2, <2>3
<1> QED BY <1>1, <1>2, <1>4, <1>6, <1>8, <1>9 DEF EditInv

(* Every other step leaves the document alone. *)
LEMMA OtherSteps ==
  ASSUME [Next]_vars
  PROVE  \/ UNCHANGED <<workflow, synced>>
         \/ \E p \in Requests : Save(p) \/ CreateInsert(p)
  BY DEF Next, Arrival, Continue, vars, LoseCredential, Create, UpdateConfig, UpsertNodeCredentials,
         RemoveWorkflow, UpdateNodeConfig, ConfigCheck, NodesLoad, SaveThrows, RemoveDelete

LEMMA EditStep == EditInv /\ [Next]_vars => EditInv'
<1> SUFFICES ASSUME EditInv, [Next]_vars PROVE EditInv'
  OBVIOUS
<1>1. RefsInv'
  BY RefsStep DEF EditInv
<1>2. ASSUME NEW p \in Requests, Arrival(p) \/ Continue(p) PROVE EditInv'
  BY <1>1, <1>2, FramesEdited, SaveEdited, InsertEdited DEF Continue
<1>3. ASSUME UNCHANGED <<stage, workflow, frames, synced>>, vault' \subseteq vault PROVE EditInv'
  BY <1>1, <1>3 DEF EditInv, TypeOK, Edited
<1>4. ASSUME NEW c \in Creds, LoseCredential(c) PROVE EditInv'
  BY <1>3, <1>4 DEF LoseCredential
<1>5. CASE UNCHANGED vars
  BY <1>3, <1>5 DEF vars
<1> QED BY <1>2, <1>4, <1>5 DEF Next

LEMMA EditInvariant == Spec => []EditInv
  BY EditInit, EditStep, PTL DEF Spec

(* The variables keep their types, and a content post never gets a topic. *)
THEOREM EditingTypeCorrect == Spec => []TypeOK
<1>1. EditInv => TypeOK
  BY DEF EditInv
<1> QED BY <1>1, EditInvariant, PTL

------------------------------------------------------------------------------
(* Mirrors *)

LEMMA MirrorsInit == Init => MirrorsAgree
  BY DEF Init, MirrorsAgree

LEMMA MirrorsStep == EditInv /\ MirrorsAgree /\ [Next]_vars => MirrorsAgree'
<1> SUFFICES ASSUME EditInv, MirrorsAgree, [Next]_vars PROVE MirrorsAgree'
  OBVIOUS
<1>1. RefsInv'
  BY RefsStep DEF EditInv
<1>2. ASSUME NEW p \in Requests, CreateInsert(p) PROVE MirrorsAgree'
  BY <1>1, <1>2, InsertEdited DEF MirrorsAgree
<1>3. ASSUME NEW p \in Requests, Save(p) PROVE MirrorsAgree'
  <2> DEFINE f == frames[p]
             r == workflow'.nodes
  <2> SUFFICES ASSUME synced', NEW m \in ToSet(MirrorEntries(workflow'.credentials))
               PROVE  m \in ToSet(r)
    BY DEF MirrorsAgree
  <2>1. /\ Edited(f) /\ f.step = "save" /\ f.credentials \in UiCredentials
        /\ workflow.credentials \in UiCredentials /\ f.entries \in Seq(Node)
    BY <1>3, EditTypes, SaveWrites
  <2>2. "nodeCredentials" \in f.sets =>
            r = SavedNodes(f) /\ Kept(r, workflow.nodes, f.entries, Len(f.entries))
    BY <1>3, SaveWrites, SaveKeeps
  <2>3. CASE "credentials" \in f.sets
    <3>1. /\ workflow'.credentials = f.credentials /\ f.entries = MirrorEntries(f.credentials)
          /\ "nodeCredentials" \in f.sets
      BY <1>3, <2>1, <2>3, SaveWrites DEF Edited
    <3>2. /\ Len(f.entries) = 4
          /\ \A j, k \in 1..4 : j # k => f.entries[k].type # f.entries[j].type
      BY <2>1, <3>1, MirrorTypes
    <3>3. PICK k \in 1..4 : m = f.entries[k]
      BY <2>1, <3>1, <3>2 DEF ToSet
    <3>4. \A j \in (k + 1)..4 : j \in 1..4 /\ j # k
      OBVIOUS
    <3>5. \E i \in DOMAIN r : r[i] = f.entries[k]
      <4> HIDE DEF f, r
      <4> QED BY <2>2, <3>1, <3>2, <3>4 DEF Kept
    <3> QED BY <3>3, <3>5 DEF ToSet
  <2>4. CASE "credentials" \notin f.sets
    <3>1. /\ workflow'.credentials = workflow.credentials /\ synced
          /\ \A i \in DOMAIN f.entries : f.entries[i].type \notin MirroredTypes
      BY <1>3, <2>4, SaveWrites
    <3>2. PICK i \in DOMAIN workflow.nodes : workflow.nodes[i] = m
      BY <3>1 DEF MirrorsAgree, ToSet
    <3>3. m.type \in MirroredTypes
      <4> DEFINE e == MirrorEntries(workflow.credentials)
      <4>1. /\ e \in Seq(Node) /\ Len(e) = 4
            /\ \A k \in 1..4 : e[k].type \in MirroredTypes
        BY <2>1, MirrorTypes
      <4>2. m \in ToSet(e)
        BY <3>1
      <4> HIDE DEF e
      <4> QED BY <4>1, <4>2 DEF ToSet
    <3>4. CASE "nodeCredentials" \in f.sets
      <4>1. DOMAIN f.entries = 1..Len(f.entries)
        BY <2>1
      <4> HIDE DEF f, r
      <4>2. i \in DOMAIN r /\ r[i].type = workflow.nodes[i].type
            /\ (r[i] = workflow.nodes[i] \/ \E k \in 1..Len(f.entries) : r[i].type = f.entries[k].type)
        BY <2>2, <3>2, <3>4 DEF Kept
      <4>3. r[i] = m
        BY <3>1, <3>2, <3>3, <4>1, <4>2
      <4> QED BY <4>2, <4>3 DEF ToSet
    <3>5. CASE "nodeCredentials" \notin f.sets
      <4>1. r = workflow.nodes
        BY <1>3, <3>5, SaveWrites
      <4> QED BY <3>2, <4>1 DEF ToSet
    <3> QED BY <3>4, <3>5
  <2> QED BY <2>3, <2>4
<1>4. CASE UNCHANGED <<workflow, synced>>
  BY <1>4 DEF MirrorsAgree
<1> QED BY <1>2, <1>3, <1>4, OtherSteps

(* The UI credentials stay among the entries that mirror them until upsertNodeCredentials
   sets those entries, whichever handler replaces the array: one that loaded it before
   the mirrors were saved does not get its version, and pushes keep what is there. *)
THEOREM MirrorsStayTrue == Spec => []MirrorsAgree
<1>1. EditInv /\ EditInv' /\ MirrorsAgree /\ [Next]_vars => MirrorsAgree'
  BY MirrorsStep
<1> QED BY <1>1, MirrorsInit, EditInvariant, PTL DEF Spec

------------------------------------------------------------------------------
(* Edits and each other *)

(* What changes about the entries of a node type is changed by the save of a handler
   that was sent an entry of that type. *)
THEOREM EditsKeepOthers == Spec => OthersNodesKept
<1> DEFINE Step == stage = "live" =>
                     \A type \in NodeTypes :
                        Of(type, workflow'.nodes) # Of(type, workflow.nodes) =>
                            \E p \in Requests : Saving(p) /\ \E i \in DOMAIN frames[p].entries :
                                                                frames[p].entries[i].type = type
<1>1. EditInv /\ [Next]_vars => Step
  <2> SUFFICES ASSUME EditInv, [Next]_vars, stage = "live", NEW type \in NodeTypes,
                      Of(type, workflow'.nodes) # Of(type, workflow.nodes)
               PROVE  \E p \in Requests : Saving(p) /\ \E i \in DOMAIN frames[p].entries :
                                                           frames[p].entries[i].type = type
    OBVIOUS
  <2>1. PICK p \in Requests : Save(p)
    <3>1. ~ UNCHANGED <<workflow, synced>>
      OBVIOUS
    <3>2. \A p \in Requests : ~CreateInsert(p)
      BY DEF EditInv, RefsInv, Pending, CreateInsert
    <3> QED BY <3>1, <3>2, OtherSteps
  <2> DEFINE f == frames[p]
             r == workflow'.nodes
             w == workflow.nodes
  <2>2. Saving(p)
    <3>1. frames' = [frames EXCEPT ![p] = Idle] /\ frames[p].step = "save"
      BY <2>1, SaveWrites
    <3>2. frames'[p] = Idle
      BY <3>1 DEF EditInv, TypeOK
    <3> QED BY <3>1, <3>2, BlankTypes DEF Saving, At
  <2>3. "nodeCredentials" \in f.sets /\ Kept(r, w, f.entries, Len(f.entries))
    BY <2>1, SaveWrites, SaveKeeps
  <2>4. DOMAIN f.entries = 1..Len(f.entries)
    BY EditTypes
  <2> SUFFICES ASSUME \A k \in DOMAIN f.entries : f.entries[k].type # type
               PROVE  Of(type, r) = Of(type, w)
    BY <2>2
  <2> HIDE DEF f, r, w
  <2>5. \A i \in DOMAIN r : r[i].type = type => i \in DOMAIN w /\ r[i] = w[i]
    BY <2>3, <2>4 DEF Kept
  <2>6. \A i \in DOMAIN w : i \in DOMAIN r /\ r[i].type = w[i].type
    BY <2>3 DEF Kept
  <2>7. {k \in DOMAIN r : r[k].type = type} = {k \in DOMAIN w : w[k].type = type}
    BY <2>5, <2>6
  <2> QED BY <2>5, <2>7 DEF Of
<1>2. EditInv /\ [Next]_vars => [Step]_vars
  BY <1>1
<1> HIDE DEF Step
<1>3. Spec => [][Step]_vars
  BY <1>2, EditInvariant, PTL DEF Spec
<1> QED BY <1>3 DEF OthersNodesKept, Step

(* A node type with one entry gets a second only from a handler whose copy was out of
   date when it saved. *)
THEOREM DuplicatesComeFromOverlaps == Spec => DuplicatesNeedOverlap
<1> DEFINE Step == OnePerType(workflow.nodes) /\ ~OnePerType(workflow'.nodes) =>
                      \E p \in Requests : Saving(p) /\ frames[p].loaded.version # workflow.version
<1>1. EditInv /\ [Next]_vars => Step
  <2> SUFFICES ASSUME EditInv, [Next]_vars, OnePerType(workflow.nodes), ~OnePerType(workflow'.nodes)
               PROVE  \E p \in Requests : Saving(p) /\ frames[p].loaded.version # workflow.version
    OBVIOUS
  <2>0. RefsInv'
    BY RefsStep DEF EditInv
  <2>1. PICK p \in Requests : Save(p)
    <3>1. ~ UNCHANGED <<workflow, synced>>
      OBVIOUS
    <3>2. \A p \in Requests : ~CreateInsert(p)
      <4> SUFFICES ASSUME NEW p \in Requests, CreateInsert(p) PROVE OnePerType(workflow'.nodes)
        OBVIOUS
      <4>1. workflow'.nodes = <<>>
        BY <2>0, InsertEdited
      <4> QED BY <4>1 DEF OnePerType
    <3> QED BY <3>1, <3>2, OtherSteps
  <2>2. Saving(p)
    <3>1. frames' = [frames EXCEPT ![p] = Idle] /\ frames[p].step = "save"
      BY <2>1, SaveWrites
    <3>2. frames'[p] = Idle
      BY <3>1 DEF EditInv, TypeOK
    <3> QED BY <3>1, <3>2, BlankTypes DEF Saving, At
  <2>3. frames[p].loaded.version # workflow.version
    BY <2>1, SaveWrites, SaveKeeps
  <2> QED BY <2>2, <2>3
<1>2. EditInv /\ [Next]_vars => [Step]_vars
  BY <1>1
<1> HIDE DEF Step
<1>3. Spec => [][Step]_vars
  BY <1>2, EditInvariant, PTL DEF Spec
<1> QED BY <1>3 DEF DuplicatesNeedOverlap, Step
=============================================================================
