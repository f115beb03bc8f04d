--------------------------- MODULE JobConfigProofs ---------------------------
(* Theorems about JobConfig, for every value of its constants. *)
EXTENDS JobConfig, TLAPS

------------------------------------------------------------------------------
(* Typing *)

KeySteps == {"key.find", "key.load", "key.save", "key.create"}

(* What a handler holds at each of its steps: the reference whose credential it is
   about to load or save, and the credential it created, which its references name. *)
Proper(e) ==
    /\ e \in Edit
    /\ e.step \in {"key.load", "key.save"} => Seen(e.given, "key") # NoCred
    /\ e.step \in {"sheet.load", "sheet.save"} => Seen(e.given, "google") # NoCred
    /\ e.created # NoCred => e.given["key"] = e.created /\ e.step \notin KeySteps

(* The credentials a dispatch has read. *)
Readings == {<<>>} \cup UNION {[ids -> Credential] : ids \in SUBSET CredIds}

Dispatch == [step : DispatchSteps, job : Job, context : Readings, resolved : Readings, key : Texts,
             readFailed : BOOLEAN]

TypeInv ==
    /\ TypeOK
    /\ \A p \in Requests : Proper(edits[p])
    /\ dispatch \in Dispatch

LEMMA Constants ==
    /\ NoText \in Texts /\ MaskText \in Texts
    /\ Unborn \in Credential /\ Removed \in Credential /\ NewJob \in Job
    /\ NoBody \in Body /\ NoBody.refs \in Given
    /\ Keep \notin CredIds \cup {NoCred} /\ NoCred \notin CredIds
<1>1. NoText \in Texts /\ MaskText \in Texts /\ Keep \notin CredIds \cup {NoCred} /\ NoCred \notin CredIds
  BY ConfigInputsAssumption
<1>2. Unborn \in Credential /\ Removed \in Credential
  BY <1>1 DEF Unborn, Removed, Credential
<1>3. NewJob \in Job
  BY <1>1 DEF NewJob, Job, Settings, NoRefs, Refs
<1>4. NoBody.refs \in Given
  BY DEF NoBody, Given
<1>5. NoBody \in Body
  BY <1>1, <1>4 DEF NoBody, NewJob, Body, Settings
<1> QED BY <1>1, <1>2, <1>3, <1>4, <1>5

(* The credentials an edit sees, and those a job refers to, are ids. *)
LEMMA SeenType ==
    ASSUME NEW given \in Given
    PROVE  /\ \A field \in Fields : Seen(given, field) \in CredIds \cup {NoCred}
           /\ SeenIds(given) \subseteq CredIds
<1>1. \A field \in Fields : Seen(given, field) \in CredIds \cup {NoCred}
  BY DEF Seen, Given
<1> QED BY <1>1 DEF SeenIds

LEMMA JobIdsType ==
    ASSUME NEW refs \in Refs
    PROVE  JobIds(refs) \subseteq CredIds
  BY DEF JobIds, Refs

LEMMA MergedType ==
    ASSUME NEW refs \in Refs, NEW given \in Given
    PROVE  /\ MergedRefs(refs, given) \in Refs
           /\ JobIds(MergedRefs(refs, given)) \subseteq JobIds(refs) \cup SeenIds(given)
<1>1. MergedRefs(refs, given) \in Refs
  BY DEF MergedRefs, Refs, Given
<1>2. \A field \in Fields : MergedRefs(refs, given)[field] = IF given[field] = Keep THEN refs[field] ELSE Seen(given, field)
  BY DEF MergedRefs, Seen
<1> QED BY <1>1, <1>2 DEF JobIds, SeenIds

LEMMA IdleProper == Proper(Idle) /\ Idle.step = "idle" /\ Idle.loaded = NewJob /\ Idle.created = NoCred
  BY Constants DEF Proper, Idle, Edit, EditSteps, KeySteps

(* r is what e becomes when it has the API key behind it: later in the edit, and
   the same otherwise, but for the Google reference. *)
PastKey(r, e) ==
    /\ r \in Edit
    /\ r.body = e.body /\ r.loaded = e.loaded /\ r.created = e.created
    /\ r.given["key"] = e.given["key"]
    /\ r.step \in {"google.find", "sheet.load", "resolve", "save"}
    /\ r.step = "sheet.load" => Seen(r.given, "google") # NoCred
    /\ r.step = "save" => SeenIds(r.given) = {}

LEMMA PastKeyProper ==
    ASSUME NEW e \in Edit, NEW r, PastKey(r, e), e.created # NoCred => e.given["key"] = e.created
    PROVE  Proper(r)
  BY DEF PastKey, Proper, KeySteps

LEMMA ResolveNext ==
    ASSUME NEW e \in Edit
    PROVE  PastKey(ToResolve(e), e)
  BY DEF ToResolve, PastKey, Edit, EditSteps

LEMMA SheetNext ==
    ASSUME NEW e \in Edit
    PROVE  PastKey(ToSheet(e), e)
<1>1. CASE e.body.settings.sheet # NoText /\ Seen(e.given, "google") # NoCred
  BY <1>1 DEF ToSheet, PastKey, Edit, EditSteps
<1>2. CASE ~(e.body.settings.sheet # NoText /\ Seen(e.given, "google") # NoCred)
  BY <1>2, ResolveNext DEF ToSheet
<1> QED BY <1>1, <1>2

(* Choosing the Google credential. *)
LEMMA GoogleChosen ==
    ASSUME NEW e \in Edit, NEW c \in CredIds \cup {NoCred, Keep}
    PROVE  /\ [e EXCEPT !.given["google"] = c] \in Edit
           /\ PastKey(ToSheet([e EXCEPT !.given["google"] = c]), e)
<1> DEFINE d == [e EXCEPT !.given["google"] = c]
<1>1. /\ d \in Edit /\ d.body = e.body /\ d.loaded = e.loaded /\ d.created = e.created
      /\ d.given["key"] = e.given["key"]
  BY DEF Edit, Given, Fields
<1>2. PastKey(ToSheet(d), d)
  BY <1>1, SheetNext
<1> QED BY <1>1, <1>2 DEF PastKey

LEMMA GoogleNext ==
    ASSUME NEW e \in Edit
    PROVE  PastKey(ToGoogle(e), e)
<1>1. CASE e.body.refs["google"] = Keep
  BY <1>1 DEF ToGoogle, PastKey, Edit, EditSteps
<1>2. CASE e.body.refs["google"] # Keep
  <2>1. e.body.refs["google"] \in CredIds \cup {NoCred, Keep}
    BY DEF Edit, Body, Given, Fields
  <2> QED BY <1>2, <2>1, GoogleChosen DEF ToGoogle
<1> QED BY <1>1, <1>2

(* The first step of an edit. *)
LEMMA KeyNext ==
    ASSUME NEW e \in Edit, e.created = NoCred
    PROVE  /\ Proper(ToKey(e))
           /\ ToKey(e).step \in KeySteps \cup {"google.find", "sheet.load", "resolve", "save"}
           /\ ToKey(e).loaded = e.loaded /\ ToKey(e).created = NoCred
           /\ ToKey(e).step = "save" => SeenIds(ToKey(e).given) = {}
<1> DEFINE key == e.body.key
<1>1. CASE key = NoText
  <2>1. ToKey(e) = ToGoogle(e)
    BY <1>1, ConfigInputsAssumption DEF ToKey
  <2>2. PastKey(ToGoogle(e), e)
    BY GoogleNext
  <2> HIDE DEF key
  <2> QED BY <2>1, <2>2, PastKeyProper DEF PastKey
<1>2. CASE key = MaskText /\ key # NoText
  <2>1. ToKey(e) = [e EXCEPT !.step = "key.find"]
    BY <1>2 DEF ToKey
  <2> QED BY <2>1 DEF Proper, Edit, EditSteps, KeySteps
<1>3. CASE key \notin {NoText, MaskText} /\ Seen(e.given, "key") # NoCred
  <2>1. ToKey(e) = [e EXCEPT !.step = "key.load"]
    BY <1>3 DEF ToKey
  <2> QED BY <1>3, <2>1 DEF Proper, Edit, EditSteps, KeySteps
<1>4. CASE key \notin {NoText, MaskText} /\ Seen(e.given, "key") = NoCred
  <2>1. ToKey(e) = [e EXCEPT !.step = "key.create"]
    BY <1>4 DEF ToKey
  <2> QED BY <2>1 DEF Proper, Edit, EditSteps, KeySteps
<1> QED BY <1>1, <1>2, <1>3, <1>4

(* The parts of TypeInv that a step of an edit or of the worker leaves alone. *)
LEMMA BecomeType ==
    ASSUME TypeInv, NEW p \in Requests, NEW e, Proper(e), Become(p, e)
    PROVE  edits' \in [Requests -> Edit] /\ \A q \in Requests : Proper(edits'[q])
<1>1. edits' = [edits EXCEPT ![p] = e] /\ edits \in [Requests -> Edit] /\ e \in Edit
  BY DEF Become, TypeInv, TypeOK, Proper
<1>2. \A q \in Requests : edits'[q] = IF q = p THEN e ELSE edits[q]
  BY <1>1
<1> QED BY <1>1, <1>2 DEF TypeInv

LEMMA ThrowType ==
    ASSUME TypeInv, NEW p \in Requests, Throw(p)
    PROVE  TypeInv'
<1>1. edits' \in [Requests -> Edit] /\ \A q \in Requests : Proper(edits'[q])
  BY IdleProper, BecomeType DEF Throw
<1>2. edits[p].created \in CredIds \cup {NoCred}
  BY DEF TypeInv, TypeOK, Edit
<1>3. abandoned' \subseteq CredIds
  BY <1>2 DEF Throw, TypeInv, TypeOK
<1> QED BY <1>1, <1>3 DEF Throw, TypeInv, TypeOK

(* A handler that only moves on. *)
LEMMA MoveType ==
    ASSUME TypeInv, NEW p \in Requests, NEW e, Proper(e), Become(p, e),
           UNCHANGED <<job, vault, dispatch, ghosts>>
    PROVE  TypeInv'
<1>1. edits' \in [Requests -> Edit] /\ \A q \in Requests : Proper(edits'[q])
  BY BecomeType
<1> QED BY <1>1 DEF ghosts, TypeInv, TypeOK

(* What the frame of a handler holds. *)
LEMMA Held ==
    ASSUME TypeInv, NEW p \in Requests
    PROVE  /\ Proper(edits[p]) /\ edits[p] \in Edit
           /\ edits[p].given \in Given /\ edits[p].body \in Body /\ edits[p].loaded \in Job
           /\ edits[p].loaded.refs \in Refs /\ edits[p].cred \in Credential
           /\ edits[p].body.key \in Texts /\ edits[p].body.settings \in Settings
           /\ edits[p].body.settings.sheet \in Texts
           /\ Seen(edits[p].given, "key") \in CredIds \cup {NoCred}
           /\ Seen(edits[p].given, "google") \in CredIds \cup {NoCred}
           /\ At(p, "key.load") \/ At(p, "key.save") => Seen(edits[p].given, "key") \in CredIds
           /\ At(p, "sheet.load") \/ At(p, "sheet.save") => Seen(edits[p].given, "google") \in CredIds
<1>1. Proper(edits[p]) /\ edits[p] \in Edit
  BY DEF TypeInv, TypeOK
<1>2. /\ edits[p].given \in Given /\ edits[p].body \in Body /\ edits[p].loaded \in Job
      /\ edits[p].cred \in Credential
  BY <1>1 DEF Edit
<1>3. edits[p].loaded.refs \in Refs
  BY <1>2 DEF Job
<1>4. /\ edits[p].body.key \in Texts /\ edits[p].body.settings \in Settings
      /\ edits[p].body.settings.sheet \in Texts
  BY <1>2 DEF Body, Settings
<1>5. /\ Seen(edits[p].given, "key") \in CredIds \cup {NoCred}
      /\ Seen(edits[p].given, "google") \in CredIds \cup {NoCred}
  BY <1>2, SeenType DEF Fields
<1> QED BY <1>1, <1>2, <1>3, <1>4, <1>5 DEF At, Proper

LEMMA EditStartType ==
    ASSUME TypeInv, NEW p \in Requests, NEW body \in Bodies, EditStart(p, body)
    PROVE  TypeInv'
<1> DEFINE e == [Idle EXCEPT !.body = body, !.loaded = job,
                             !.given = [body.refs EXCEPT !["google"] = Keep]]
<1>1. body \in Body /\ body.refs \in Given /\ job \in Job
  BY ConfigInputsAssumption DEF Body, TypeInv, TypeOK
<1>2. [body.refs EXCEPT !["google"] = Keep] \in Given
  BY <1>1 DEF Given
<1>3. e \in Edit /\ e.created = NoCred
  BY <1>1, <1>2, IdleProper DEF Proper, Edit, Idle
<1>4. Proper(ToKey(e))
  BY <1>3, KeyNext
<1>5. edits' \in [Requests -> Edit] /\ \A q \in Requests : Proper(edits'[q])
  BY <1>4, BecomeType DEF EditStart
<1>6. started' \in 0..MaxEdits
  BY ConfigInputsAssumption DEF EditStart, TypeInv, TypeOK
<1> QED BY <1>5, <1>6 DEF EditStart, TypeInv, TypeOK

LEMMA KeyFindType ==
    ASSUME TypeInv, NEW p \in Requests, KeyFind(p)
    PROVE  TypeInv'
<1>1. CASE Throw(p)
  BY <1>1, ThrowType
<1>2. CASE Become(p, ToGoogle(edits[p])) /\ UNCHANGED <<job, vault, dispatch, ghosts>>
  <2>1. Proper(ToGoogle(edits[p]))
    BY Held, GoogleNext, PastKeyProper DEF Proper
  <2> QED BY <1>2, <2>1, MoveType
<1> QED BY <1>1, <1>2 DEF KeyFind

LEMMA KeyLoadType ==
    ASSUME TypeInv, NEW p \in Requests, KeyLoad(p)
    PROVE  TypeInv'
<1> DEFINE c == Seen(edits[p].given, "key")
           e == IF Present(c) THEN [edits[p] EXCEPT !.step = "key.save", !.cred = vault[c]]
                ELSE [edits[p] EXCEPT !.step = "key.create"]
<1>1. c \in CredIds /\ Proper(edits[p]) /\ edits[p].step = "key.load"
  BY Held DEF KeyLoad, At
<1>2. vault[c] \in Credential
  BY <1>1 DEF TypeInv, TypeOK
<1>3. Proper(e)
  BY <1>1, <1>2 DEF Proper, Edit, EditSteps, KeySteps
<1> QED BY <1>3, MoveType DEF KeyLoad

LEMMA KeySaveType ==
    ASSUME TypeInv, NEW p \in Requests, KeySave(p)
    PROVE  TypeInv'
<1> DEFINE c == Seen(edits[p].given, "key")
           key == edits[p].body.key
<1>1. CASE Throw(p)
  BY <1>1, ThrowType
<1>2. CASE ~Throw(p)
  <2>1. c \in CredIds /\ key \in Texts /\ edits[p].cred.sheet \in Texts
    BY Held DEF KeySave, Credential
  <2>2. /\ vault' = [vault EXCEPT ![c] = [type |-> @.type, key |-> key, sheet |-> edits[p].cred.sheet]]
        /\ keysOf' = [keysOf EXCEPT ![c] = @ \cup {key}]
        /\ Become(p, ToGoogle(edits[p]))
        /\ UNCHANGED <<job, dispatch, referred, minted, abandoned, last, started>>
    BY <1>2 DEF KeySave
  <2>3. vault' \in [CredIds -> Credential] /\ keysOf' \in [CredIds -> SUBSET Texts]
    BY <2>1, <2>2 DEF TypeInv, TypeOK, Credential
  <2>4. Proper(ToGoogle(edits[p]))
    BY Held, GoogleNext, PastKeyProper DEF Proper
  <2>5. edits' \in [Requests -> Edit] /\ \A q \in Requests : Proper(edits'[q])
    BY <2>2, <2>4, BecomeType
  <2> QED BY <2>2, <2>3, <2>5 DEF TypeInv, TypeOK
<1> QED BY <1>1, <1>2

(* The edit that created c goes on, and its references name it. *)
LEMMA CreatedNext ==
    ASSUME NEW e \in Edit, NEW c \in CredIds
    PROVE  LET r == ToGoogle([e EXCEPT !.given["key"] = c, !.created = c])
           IN  /\ Proper(r) /\ r.created = c /\ r.loaded = e.loaded
               /\ r.step \in {"google.find", "sheet.load", "resolve", "save"}
               /\ r.step = "save" => SeenIds(r.given) = {}
<1> DEFINE d == [e EXCEPT !.given["key"] = c, !.created = c]
<1>1. d \in Edit /\ d.created = c /\ d.given["key"] = c /\ d.loaded = e.loaded
  BY DEF Edit, Given, Fields
<1>2. PastKey(ToGoogle(d), d)
  BY <1>1, GoogleNext
<1> HIDE DEF d
<1>3. Proper(ToGoogle(d))
  BY <1>1, <1>2, PastKeyProper
<1>4. ToGoogle(d).created = c /\ ToGoogle(d).loaded = e.loaded
      /\ ToGoogle(d).step \in {"google.find", "sheet.load", "resolve", "save"}
      /\ (ToGoogle(d).step = "save" => SeenIds(ToGoogle(d).given) = {})
  BY <1>1, <1>2 DEF PastKey
<1> QED BY <1>3, <1>4 DEF d

LEMMA KeyCreateType ==
    ASSUME TypeInv, NEW p \in Requests, KeyCreate(p)
    PROVE  TypeInv'
<1>1. PICK c \in CredIds :
          /\ vault' = [vault EXCEPT ![c] = [type |-> "api-key", key |-> edits[p].body.key, sheet |-> NoText]]
          /\ keysOf' = [keysOf EXCEPT ![c] = {edits[p].body.key}]
          /\ minted' = minted \cup {c}
          /\ Become(p, ToGoogle([edits[p] EXCEPT !.given["key"] = c, !.created = c]))
  BY DEF KeyCreate
<1>2. [type |-> "api-key", key |-> edits[p].body.key, sheet |-> NoText] \in Credential /\ edits[p].body.key \in Texts
  BY Held, Constants DEF Credential, CredentialTypes
<1>3. vault' \in [CredIds -> Credential] /\ keysOf' \in [CredIds -> SUBSET Texts] /\ minted' \subseteq CredIds
  BY <1>1, <1>2 DEF TypeInv, TypeOK
<1>4. edits' \in [Requests -> Edit] /\ \A q \in Requests : Proper(edits'[q])
  <2>1. Proper(ToGoogle([edits[p] EXCEPT !.given["key"] = c, !.created = c]))
    BY Held, CreatedNext
  <2> QED BY <1>1, <2>1, BecomeType
<1> QED BY <1>3, <1>4 DEF KeyCreate, TypeInv, TypeOK

LEMMA GoogleFindType ==
    ASSUME TypeInv, NEW p \in Requests, GoogleFind(p)
    PROVE  TypeInv'
<1>1. PICK c \in CredIds \cup {NoCred} : Become(p, ToSheet([edits[p] EXCEPT !.given["google"] = c]))
  BY DEF GoogleFind
<1>2. Proper(ToSheet([edits[p] EXCEPT !.given["google"] = c]))
  BY Held, GoogleChosen, PastKeyProper DEF Proper
<1> QED BY <1>1, <1>2, MoveType DEF GoogleFind

LEMMA SheetLoadType ==
    ASSUME TypeInv, NEW p \in Requests, SheetLoad(p)
    PROVE  TypeInv'
<1> DEFINE c == Seen(edits[p].given, "google")
           e == [edits[p] EXCEPT !.step = "sheet.save", !.cred = vault[c]]
<1>1. CASE Throw(p)
  BY <1>1, ThrowType
<1>2. CASE Become(p, e) /\ UNCHANGED <<job, vault, dispatch, ghosts>>
  <2>1. c \in CredIds /\ Proper(edits[p]) /\ edits[p].step = "sheet.load"
    BY Held DEF SheetLoad, At
  <2>2. vault[c] \in Credential
    BY <2>1 DEF TypeInv, TypeOK
  <2>3. Proper(e)
    BY <2>1, <2>2 DEF Proper, Edit, EditSteps, KeySteps
  <2> QED BY <1>2, <2>3, MoveType
<1> QED BY <1>1, <1>2 DEF SheetLoad

LEMMA SheetSaveType ==
    ASSUME TypeInv, NEW p \in Requests, SheetSave(p)
    PROVE  TypeInv'
<1> DEFINE c == Seen(edits[p].given, "google")
<1>1. CASE Throw(p)
  BY <1>1, ThrowType
<1>2. CASE ~Throw(p)
  <2>1. c \in CredIds /\ edits[p].body.settings.sheet \in Texts /\ edits[p].cred.key \in Texts
    BY Held DEF SheetSave, Credential
  <2>2. /\ vault' = [vault EXCEPT ![c] = [type |-> @.type, key |-> edits[p].cred.key,
                                          sheet |-> edits[p].body.settings.sheet]]
        /\ Become(p, ToResolve(edits[p]))
        /\ UNCHANGED <<job, dispatch, ghosts>>
    BY <1>2 DEF SheetSave
  <2>3. vault' \in [CredIds -> Credential]
    BY <2>1, <2>2 DEF TypeInv, TypeOK, Credential
  <2>4. Proper(ToResolve(edits[p]))
    BY Held, ResolveNext, PastKeyProper DEF Proper
  <2>5. edits' \in [Requests -> Edit] /\ \A q \in Requests : Proper(edits'[q])
    BY <2>2, <2>4, BecomeType
  <2> QED BY <2>2, <2>3, <2>5 DEF ghosts, TypeInv, TypeOK
<1> QED BY <1>1, <1>2

LEMMA ResolveType ==
    ASSUME TypeInv, NEW p \in Requests, Resolve(p)
    PROVE  TypeInv'
<1>1. CASE Throw(p)
  BY <1>1, ThrowType
<1>2. CASE Become(p, [edits[p] EXCEPT !.step = "save"]) /\ UNCHANGED <<job, vault, dispatch, ghosts>>
  <2>1. Proper([edits[p] EXCEPT !.step = "save"])
    BY Held DEF Proper, Edit, EditSteps, KeySteps
  <2> QED BY <1>2, <2>1, MoveType
<1> QED BY <1>1, <1>2 DEF Resolve

(* The document an edit saves. *)
LEMMA SavedType ==
    ASSUME TypeInv, NEW p \in Requests
    PROVE  /\ Saved(edits[p], job) \in Job
           /\ Saved(edits[p], job).settings = edits[p].body.settings
           /\ Saved(edits[p], job).refs = MergedRefs(edits[p].loaded.refs, edits[p].given)
<1>1. MergedRefs(edits[p].loaded.refs, edits[p].given) \in Refs
  BY Held, MergedType
<1> QED BY <1>1, Held DEF Saved, Job

LEMMA SaveType ==
    ASSUME TypeInv, NEW p \in Requests, Save(p)
    PROVE  TypeInv'
<1>1. job' \in Job /\ job'.refs \in Refs
  BY SavedType DEF Save, Job
<1>2. referred' \subseteq CredIds
  BY <1>1, JobIdsType DEF Save, JobIds, TypeInv, TypeOK
<1>3. last' \in [settings : Settings, given : Given]
  BY Held DEF Save
<1>4. edits' \in [Requests -> Edit] /\ \A q \in Requests : Proper(edits'[q])
  BY IdleProper, BecomeType DEF Save
<1> QED BY <1>1, <1>2, <1>3, <1>4 DEF Save, TypeInv, TypeOK

LEMMA ReadType ==
    ASSUME TypeInv, NEW ids \in SUBSET CredIds
    PROVE  Read(ids) \in Readings
<1>1. Read(ids) \in [ids -> Credential]
  BY DEF Read, TypeInv, TypeOK
<1> QED BY <1>1 DEF Readings

(* The key hydration finds when its read succeeds. *)
Hydrated ==
    LET refs == dispatch.job.refs
    IN  IF refs["key"] # NoCred /\ \A c \in {refs["key"], refs["google"]} \ {NoCred} : Present(c)
        THEN vault[refs["key"]].key ELSE NoText

LEMMA DispatchHeld ==
    ASSUME TypeInv
    PROVE  /\ dispatch \in Dispatch /\ NoDispatch \in Dispatch
           /\ dispatch.job.refs \in Refs
           /\ dispatch.job.refs["key"] \in CredIds \cup {NoCred}
           /\ JobIds(dispatch.job.refs) \subseteq CredIds
           /\ dispatch.job.refs["key"] # NoCred => dispatch.job.refs["key"] \in JobIds(dispatch.job.refs)
           /\ Hydrated \in Texts
<1>1. dispatch \in Dispatch /\ NoDispatch \in Dispatch
  BY Constants DEF TypeInv, NoDispatch, Dispatch, DispatchSteps, Readings
<1>2. dispatch.job.refs \in Refs /\ dispatch.job.refs["key"] \in CredIds \cup {NoCred}
  BY <1>1 DEF Dispatch, Job, Refs, Fields
<1>3. /\ JobIds(dispatch.job.refs) \subseteq CredIds
      /\ dispatch.job.refs["key"] # NoCred => dispatch.job.refs["key"] \in JobIds(dispatch.job.refs)
  BY <1>2, JobIdsType DEF JobIds, Fields
<1>4. Hydrated \in Texts
  BY <1>2, Constants DEF Hydrated, TypeInv, TypeOK, Credential
<1> QED BY <1>1, <1>2, <1>3, <1>4

(* Hydration goes on with the key it found, or with none when its read failed. *)
Hydration(d) ==
    LET step == IF JobIds(dispatch.job.refs) = {} THEN "post" ELSE "refs"
    IN  \/ d = [dispatch EXCEPT !.step = step, !.key = Hydrated]
        \/ d = [dispatch EXCEPT !.step = step, !.key = NoText, !.readFailed = TRUE]

LEMMA Hydrates ==
    ASSUME TypeInv, DispatchHydrate
    PROVE  \E d : DispatchBecomes(d) /\ Hydration(d)
<1> DEFINE next == [dispatch EXCEPT !.step = IF JobIds(dispatch.job.refs) = {} THEN "post" ELSE "refs"]
           d1 == [next EXCEPT !.key = Hydrated]
           d2 == [next EXCEPT !.key = NoText, !.readFailed = TRUE]
<1>1. DispatchBecomes(d1) \/ DispatchBecomes(d2)
  BY DEF DispatchHydrate, Hydrated
<1>2. dispatch \in Dispatch
  BY DispatchHeld
<1>3. Hydration(d1) /\ Hydration(d2)
  BY <1>2 DEF Hydration, Dispatch
<1> HIDE DEF d1, d2
<1> QED BY <1>1, <1>3

LEMMA DispatchType ==
    ASSUME TypeInv, DispatchStep
    PROVE  TypeInv'
<1>1. ASSUME NEW d \in Dispatch, DispatchBecomes(d)
      PROVE  TypeInv'
  BY <1>1 DEF DispatchBecomes, ghosts, Dispatch, TypeInv, TypeOK
<1>2. dispatch \in Dispatch /\ NoDispatch \in Dispatch /\ job \in Job
  BY DispatchHeld DEF TypeInv, TypeOK
<1>3. CASE DispatchLoad
  <2>1. [NoDispatch EXCEPT !.step = "workflow", !.job = job] \in Dispatch
    BY <1>2 DEF Dispatch, DispatchSteps
  <2> QED BY <1>1, <1>3, <2>1 DEF DispatchLoad
<1>4. CASE DispatchWorkflow
  <2>1. Read(WorkflowRefs) \in Readings
    BY ReadType, ConfigInputsAssumption
  <2>2. [dispatch EXCEPT !.step = "hydrate", !.context = Read(WorkflowRefs)] \in Dispatch
    BY <1>2, <2>1 DEF Dispatch, DispatchSteps
  <2> QED BY <1>1, <1>2, <1>4, <2>2 DEF DispatchWorkflow
<1>5. CASE DispatchHydrate
  <2>1. PICK d : DispatchBecomes(d) /\ Hydration(d)
    BY <1>5, Hydrates
  <2>2. d \in Dispatch
    BY <1>2, <2>1, DispatchHeld, Constants DEF Hydration, Dispatch, DispatchSteps
  <2> QED BY <1>1, <2>1, <2>2
<1>6. CASE DispatchRefs
  <2>1. Read(JobIds(dispatch.job.refs)) \in Readings
    BY DispatchHeld, ReadType
  <2>2. [dispatch EXCEPT !.step = "post", !.resolved = Read(JobIds(dispatch.job.refs))] \in Dispatch
    BY <1>2, <2>1 DEF Dispatch, DispatchSteps
  <2> QED BY <1>1, <1>2, <1>6, <2>2 DEF DispatchRefs
<1>7. CASE DispatchPost \/ DispatchCutOff
  BY <1>1, <1>2, <1>7 DEF DispatchPost, DispatchCutOff
<1> QED BY <1>3, <1>4, <1>5, <1>6, <1>7 DEF DispatchStep

LEMMA RemoveType ==
    ASSUME TypeInv, NEW c \in CredIds, RemoveCredential(c)
    PROVE  TypeInv'
<1>1. vault' \in [CredIds -> Credential]
  BY Constants DEF RemoveCredential, TypeInv, TypeOK
<1> QED BY <1>1 DEF RemoveCredential, ghosts, TypeInv, TypeOK

LEMMA InitType == Init => TypeInv
<1> SUFFICES ASSUME Init PROVE TypeInv
  OBVIOUS
<1>1. job \in Job /\ vault \in [CredIds -> Credential] /\ edits \in [Requests -> Edit]
  BY Constants, IdleProper, ConfigInputsAssumption DEF Init, Proper
<1>2. keysOf \in [CredIds -> SUBSET Texts]
  BY ConfigInputsAssumption DEF Init, Credential
<1>3. dispatch \in Dispatch
  BY Constants DEF Init, NoDispatch, Dispatch, DispatchSteps, Readings
<1>4. last \in [settings : Settings, given : Given] /\ started \in 0..MaxEdits
  BY Constants, ConfigInputsAssumption DEF Init, NewJob, Settings
<1>5. \A p \in Requests : Proper(edits[p])
  BY IdleProper DEF Init
<1>6. referred \subseteq CredIds /\ minted \subseteq CredIds /\ abandoned \subseteq CredIds
  BY DEF Init
<1> QED BY <1>1, <1>2, <1>3, <1>4, <1>5, <1>6 DEF Dispatch, TypeInv, TypeOK

LEMMA StepType == TypeInv /\ [Next]_vars => TypeInv'
<1> SUFFICES ASSUME TypeInv, [Next]_vars PROVE TypeInv'
  OBVIOUS
<1>1. ASSUME NEW p \in Requests, EditStep(p) PROVE TypeInv'
  BY <1>1, EditStartType, KeyFindType, KeyLoadType, KeySaveType, KeyCreateType, GoogleFindType,
     SheetLoadType, SheetSaveType, ResolveType, SaveType, ThrowType DEF EditStep, EditCutOff
<1>2. CASE UNCHANGED vars
  BY <1>2 DEF vars, TypeInv, TypeOK
<1> QED BY <1>1, <1>2, DispatchType, RemoveType DEF Next

(* Documents, forms, frames and the worker's dispatch keep their types; every
   variable of JobConfig stays in its domain. *)
THEOREM ConfigTypeCorrect == Spec => []TypeOK
<1>1. TypeInv => TypeOK
  BY DEF TypeInv
<1> QED BY <1>1, InitType, StepType, PTL DEF Spec

------------------------------------------------------------------------------
(* References *)

Existed(ids) == \A c \in ids : vault[c].type # "unborn"

RefsInv ==
    /\ Existed(JobIds(job.refs)) /\ Existed(JobIds(dispatch.job.refs))
    /\ \A p \in Requests :
          /\ Existed(JobIds(edits[p].loaded.refs))
          /\ At(p, "save") => Existed(SeenIds(edits[p].given))

(* What every step leaves of a credential the vault has had: it does not go back to
   being unborn, a removed one stays removed, and the keys it has had stay recorded. *)
Kept(c) ==
    /\ vault[c].type # "unborn" => vault'[c].type # "unborn" /\ keysOf[c] \subseteq keysOf'[c]
    /\ vault[c].type = "removed" => vault'[c].type = "removed"

LEMMA VaultKeeps ==
    ASSUME TypeInv, [Next]_vars, NEW c \in CredIds
    PROVE  Kept(c)
<1> USE DEF TypeInv, TypeOK, Kept
<1>1. CASE UNCHANGED <<vault, keysOf>>
  BY <1>1
<1>2. ASSUME NEW p \in Requests, KeySave(p)
      PROVE  Kept(c)
  <2> DEFINE d == Seen(edits[p].given, "key")
  <2>1. d \in CredIds
    BY <1>2, Held DEF KeySave
  <2>2. CASE Throw(p)
    BY <2>2, <1>1 DEF Throw
  <2>3. CASE ~Throw(p)
    <3>1. /\ vault' = [vault EXCEPT ![d] = [type |-> @.type, key |-> edits[p].body.key, sheet |-> edits[p].cred.sheet]]
          /\ keysOf' = [keysOf EXCEPT ![d] = @ \cup {edits[p].body.key}]
      BY <1>2, <2>3 DEF KeySave
    <3> QED BY <2>1, <3>1
  <2> QED BY <2>2, <2>3
<1>3. ASSUME NEW p \in Requests, KeyCreate(p)
      PROVE  Kept(c)
  BY <1>3 DEF KeyCreate
<1>4. ASSUME NEW p \in Requests, SheetSave(p)
      PROVE  Kept(c)
  <2> DEFINE d == Seen(edits[p].given, "google")
  <2>1. d \in CredIds
    BY <1>4, Held DEF SheetSave
  <2>2. CASE Throw(p)
    BY <2>2, <1>1 DEF Throw
  <2>3. CASE ~Throw(p)
    <3>1. /\ vault' = [vault EXCEPT ![d] = [type |-> @.type, key |-> edits[p].cred.key,
                                           sheet |-> edits[p].body.settings.sheet]]
          /\ keysOf' = keysOf
      BY <1>4, <2>3 DEF SheetSave, ghosts
    <3> QED BY <2>1, <3>1
  <2> QED BY <2>2, <2>3
<1>5. ASSUME NEW d \in CredIds, RemoveCredential(d)
      PROVE  Kept(c)
  BY <1>5 DEF RemoveCredential, Present, CredentialTypes, Removed, ghosts
<1>6. ASSUME NEW p \in Requests, EditStep(p), ~KeySave(p), ~KeyCreate(p), ~SheetSave(p)
      PROVE  UNCHANGED <<vault, keysOf>>
  BY <1>6 DEF EditStep, EditStart, KeyFind, KeyLoad, GoogleFind, SheetLoad, Resolve, Save,
              EditCutOff, Throw, ghosts
<1>7. CASE DispatchStep
  BY <1>1, <1>7 DEF DispatchStep, DispatchLoad, DispatchWorkflow, DispatchHydrate, DispatchRefs,
                    DispatchPost, DispatchCutOff, DispatchBecomes, ghosts
<1> QED BY <1>1, <1>2, <1>3, <1>4, <1>5, <1>6, <1>7 DEF Next, vars

(* Where a step leaves the handler in slot p: with the references it had loaded, the
   job's or none; about to save references that exist only; about to save a
   spreadsheet into the credential as it is now; with the credential it had created,
   unless the edit ends. *)
Moved(p) ==
    LET e == edits'[p]
    IN  /\ e.loaded.refs \in {edits[p].loaded.refs, job.refs, NoRefs}
        /\ e.step = "save" => Existed(SeenIds(e.given))
        /\ e.step = "sheet.save" =>
              LET c == Seen(e.given, "google")
              IN  c \in CredIds /\ Present(c) /\ e.cred = vault[c]
        /\ KeyCreate(p) \/ Save(p) \/ Throw(p) \/ e.created = edits[p].created

LEMMA BecomeMoved ==
    ASSUME TypeInv, NEW p \in Requests, NEW e, Become(p, e)
    PROVE  edits'[p] = e /\ \A q \in Requests \ {p} : edits'[q] = edits[q]
  BY DEF Become, TypeInv, TypeOK

LEMMA PastKeyMoved ==
    ASSUME TypeInv, NEW p \in Requests, NEW r, PastKey(r, edits[p]), Become(p, r)
    PROVE  Moved(p)
<1>1. edits'[p] = r
  BY BecomeMoved
<1> QED BY <1>1 DEF PastKey, Moved, Existed

LEMMA ThrowMoved ==
    ASSUME TypeInv, NEW p \in Requests, Throw(p)
    PROVE  Moved(p)
<1>1. edits'[p] = Idle
  BY BecomeMoved DEF Throw
<1> QED BY <1>1, IdleProper DEF Moved, NewJob

LEMMA EditMoves ==
    ASSUME TypeInv, NEW p \in Requests, EditStep(p)
    PROVE  Moved(p) /\ \A q \in Requests \ {p} : edits'[q] = edits[q]
<1> SUFFICES Moved(p)
  BY BecomeMoved DEF EditStep, EditStart, KeyFind, KeyLoad, KeySave, KeyCreate, GoogleFind, SheetLoad,
     SheetSave, Resolve, Save, EditCutOff, Throw
<1>1. ASSUME NEW body \in Bodies, EditStart(p, body)
      PROVE  Moved(p)
  <2> DEFINE e == [Idle EXCEPT !.body = body, !.loaded = job,
                               !.given = [body.refs EXCEPT !["google"] = Keep]]
  <2>1. e \in Edit /\ e.created = NoCred /\ e.loaded = job
    <3>1. body \in Body /\ body.refs \in Given /\ job \in Job
      BY ConfigInputsAssumption DEF Body, TypeInv, TypeOK
    <3>2. [body.refs EXCEPT !["google"] = Keep] \in Given
      BY <3>1 DEF Given
    <3> QED BY <3>1, <3>2, IdleProper DEF Proper, Edit, Idle
  <2>2. edits'[p] = ToKey(e) /\ edits[p].created = NoCred
    BY <1>1, BecomeMoved, IdleProper DEF EditStart
  <2> HIDE DEF e
  <2> QED BY <2>1, <2>2, KeyNext DEF Moved, Existed, KeySteps
<1>2. CASE KeyFind(p)
  <2>1. PastKey(ToGoogle(edits[p]), edits[p])
    BY Held, GoogleNext
  <2> QED BY <1>2, <2>1, PastKeyMoved, ThrowMoved DEF KeyFind
<1>3. CASE KeyLoad(p)
  <2> DEFINE c == Seen(edits[p].given, "key")
             e == IF Present(c) THEN [edits[p] EXCEPT !.step = "key.save", !.cred = vault[c]]
                  ELSE [edits[p] EXCEPT !.step = "key.create"]
  <2>1. edits'[p] = e
    BY <1>3, BecomeMoved DEF KeyLoad
  <2>2. e.loaded = edits[p].loaded /\ e.step \in KeySteps /\ e.created = edits[p].created
    BY Held DEF Edit, KeySteps
  <2> HIDE DEF e
  <2> QED BY <2>1, <2>2 DEF Moved, KeySteps
<1>4. CASE KeySave(p)
  <2>1. PastKey(ToGoogle(edits[p]), edits[p])
    BY Held, GoogleNext
  <2> QED BY <1>4, <2>1, PastKeyMoved, ThrowMoved DEF KeySave
<1>5. CASE KeyCreate(p)
  <2>1. PICK c \in CredIds : Become(p, ToGoogle([edits[p] EXCEPT !.given["key"] = c, !.created = c]))
    BY <1>5 DEF KeyCreate
  <2>2. edits'[p] = ToGoogle([edits[p] EXCEPT !.given["key"] = c, !.created = c])
    BY <2>1, BecomeMoved
  <2> DEFINE r == ToGoogle([edits[p] EXCEPT !.given["key"] = c, !.created = c])
  <2>3. r.loaded = edits[p].loaded /\ r.step # "sheet.save" /\ (r.step = "save" => SeenIds(r.given) = {})
    BY Held, CreatedNext
  <2> HIDE DEF r
  <2>4. edits'[p] = r
    BY <2>2 DEF r
  <2> QED BY <1>5, <2>3, <2>4 DEF Moved, Existed
<1>6. CASE GoogleFind(p)
  <2>1. PICK c \in CredIds \cup {NoCred} : Become(p, ToSheet([edits[p] EXCEPT !.given["google"] = c]))
    BY <1>6 DEF GoogleFind
  <2>2. PastKey(ToSheet([edits[p] EXCEPT !.given["google"] = c]), edits[p])
    BY Held, GoogleChosen
  <2> QED BY <2>1, <2>2, PastKeyMoved
<1>7. CASE SheetLoad(p)
  <2> DEFINE c == Seen(edits[p].given, "google")
             e == [edits[p] EXCEPT !.step = "sheet.save", !.cred = vault[c]]
  <2>1. CASE Throw(p)
    BY <2>1, ThrowMoved
  <2>2. CASE ~Throw(p)
    <3>1. edits'[p] = e /\ Present(c) /\ c \in CredIds
      BY <1>7, <2>2, BecomeMoved, Held DEF SheetLoad
    <3>2. e.step = "sheet.save" /\ e.given = edits[p].given /\ e.cred = vault[c]
          /\ e.loaded = edits[p].loaded /\ e.created = edits[p].created
      BY Held DEF Edit
    <3> QED BY <3>1, <3>2 DEF Moved
  <2> QED BY <2>1, <2>2
<1>8. CASE SheetSave(p)
  <2>1. PastKey(ToResolve(edits[p]), edits[p])
    BY Held, ResolveNext
  <2> QED BY <1>8, <2>1, PastKeyMoved, ThrowMoved DEF SheetSave
<1>9. CASE Resolve(p)
  <2>1. CASE Throw(p)
    BY <2>1, ThrowMoved
  <2>2. CASE ~Throw(p)
    <3>1. /\ edits'[p] = [edits[p] EXCEPT !.step = "save"]
          /\ \A c \in SeenIds(edits[p].given) : Present(c)
      BY <1>9, <2>2, BecomeMoved DEF Resolve
    <3>2. edits'[p].step = "save" /\ edits'[p].given = edits[p].given
          /\ edits'[p].loaded = edits[p].loaded /\ edits'[p].created = edits[p].created
      BY <3>1, Held DEF Edit
    <3> QED BY <3>1, <3>2 DEF Moved, Existed, Present, CredentialTypes
  <2> QED BY <2>1, <2>2
<1>10. CASE Save(p)
  <2>1. edits'[p] = Idle
    BY <1>10, BecomeMoved DEF Save
  <2> QED BY <1>10, <2>1, IdleProper DEF Moved, NewJob
<1>11. CASE EditCutOff(p)
  BY <1>11, ThrowMoved DEF EditCutOff
<1> QED BY <1>1, <1>2, <1>3, <1>4, <1>5, <1>6, <1>7, <1>8, <1>9, <1>10, <1>11 DEF EditStep

LEMMA NoJobIds == JobIds(NewJob.refs) = {}
  BY DEF JobIds, NewJob, NoRefs

(* A handler moves by its own steps only. *)
LEMMA FramesMove ==
    ASSUME TypeInv, [Next]_vars, NEW p \in Requests
    PROVE  edits'[p] = edits[p] \/ EditStep(p)
<1>1. ASSUME NEW q \in Requests, EditStep(q), q # p
      PROVE  edits'[p] = edits[p]
  BY <1>1, EditMoves
<1>2. CASE DispatchStep
  BY <1>2 DEF DispatchStep, DispatchLoad, DispatchWorkflow, DispatchHydrate, DispatchRefs,
              DispatchPost, DispatchCutOff, DispatchBecomes
<1>3. ASSUME NEW c \in CredIds, RemoveCredential(c)
      PROVE  edits' = edits
  BY <1>3 DEF RemoveCredential
<1> QED BY <1>1, <1>2, <1>3 DEF Next, vars

(* Of the handlers and the worker, who writes the job, and which references the
   worker holds. *)
LEMMA JobMoves ==
    ASSUME TypeInv, [Next]_vars
    PROVE  /\ job' = job \/ \E p \in Requests : Save(p)
           /\ dispatch' # dispatch => DispatchStep /\ UNCHANGED <<job, vault, edits, ghosts>>
           /\ dispatch'.job.refs \in {dispatch.job.refs, job.refs, NoRefs}
<1>1. ASSUME NEW p \in Requests, EditStep(p)
      PROVE  (job' = job \/ Save(p)) /\ dispatch' = dispatch
  BY <1>1 DEF EditStep, EditStart, KeyFind, KeyLoad, KeySave, KeyCreate, GoogleFind, SheetLoad,
              SheetSave, Resolve, Save, EditCutOff, Throw
<1>2. CASE DispatchStep
  <2>1. UNCHANGED <<job, vault, edits, ghosts>>
    BY <1>2 DEF DispatchStep, DispatchLoad, DispatchWorkflow, DispatchHydrate, DispatchRefs,
                DispatchPost, DispatchCutOff, DispatchBecomes
  <2>2. dispatch'.job \in {dispatch.job, job, NewJob}
    <3>1. dispatch \in Dispatch /\ NoDispatch.job = NewJob
      BY DispatchHeld DEF NoDispatch
    <3>2. CASE DispatchLoad
      BY <3>2 DEF DispatchLoad, DispatchBecomes, NoDispatch
    <3>3. CASE DispatchWorkflow
      BY <3>1, <3>3 DEF DispatchWorkflow, DispatchBecomes, Dispatch
    <3>4. CASE DispatchHydrate
      BY <3>1, <3>4 DEF DispatchHydrate, DispatchBecomes, Dispatch
    <3>5. CASE DispatchRefs
      BY <3>1, <3>5 DEF DispatchRefs, DispatchBecomes, Dispatch
    <3>6. CASE DispatchPost \/ DispatchCutOff
      BY <3>1, <3>6 DEF DispatchPost, DispatchCutOff, DispatchBecomes
    <3> QED BY <1>2, <3>2, <3>3, <3>4, <3>5, <3>6 DEF DispatchStep
  <2> QED BY <1>2, <2>1, <2>2 DEF NewJob
<1>3. ASSUME NEW c \in CredIds, RemoveCredential(c)
      PROVE  job' = job /\ dispatch' = dispatch
  BY <1>3 DEF RemoveCredential
<1> QED BY <1>1, <1>2, <1>3 DEF Next, vars

LEMMA StepRefs == TypeInv /\ RefsInv /\ [Next]_vars => RefsInv'
<1> SUFFICES ASSUME TypeInv, RefsInv, [Next]_vars PROVE RefsInv'
  OBVIOUS
<1> DEFINE Stay(ids) == \A c \in ids : vault'[c].type # "unborn"
<1>1. /\ JobIds(job.refs) \subseteq CredIds /\ JobIds(dispatch.job.refs) \subseteq CredIds
      /\ \A p \in Requests : /\ JobIds(edits[p].loaded.refs) \subseteq CredIds
                             /\ SeenIds(edits[p].given) \subseteq CredIds
                             /\ SeenIds(edits'[p].given) \subseteq CredIds
  <2>1. job.refs \in Refs
    BY DEF TypeInv, TypeOK, Job
  <2>2. \A p \in Requests : edits'[p].given \in Given
    BY StepType DEF TypeInv, TypeOK, Edit
  <2> QED BY <2>1, <2>2, Held, DispatchHeld, SeenType, JobIdsType
<1>2. ASSUME NEW ids \in SUBSET CredIds, Existed(ids) PROVE Stay(ids)
  BY <1>2, VaultKeeps DEF Existed, Kept
<1>3. JobIds(NoRefs) = {}
  BY NoJobIds DEF NewJob
<1>4. Stay(JobIds(job.refs)) /\ Stay(JobIds(dispatch.job.refs))
      /\ \A p \in Requests : Stay(JobIds(edits[p].loaded.refs))
  BY <1>1, <1>2 DEF RefsInv
<1>5. Stay(JobIds(job'.refs))
  <2>1. ASSUME NEW p \in Requests, Save(p)
        PROVE  Stay(JobIds(job'.refs))
    <3>1. JobIds(job'.refs) \subseteq JobIds(edits[p].loaded.refs) \cup SeenIds(edits[p].given)
      BY <2>1, SavedType, MergedType, Held DEF Save
    <3>2. Stay(SeenIds(edits[p].given))
      BY <1>1, <1>2, <2>1 DEF RefsInv, Save
    <3> QED BY <1>4, <3>1, <3>2
  <2> QED BY <1>4, <2>1, JobMoves
<1>6. Stay(JobIds(dispatch'.job.refs))
  BY <1>3, <1>4, JobMoves
<1>7. ASSUME NEW p \in Requests
      PROVE  Stay(JobIds(edits'[p].loaded.refs)) /\ (edits'[p].step = "save" => Stay(SeenIds(edits'[p].given)))
  <2>1. CASE edits'[p] = edits[p]
    BY <1>1, <1>2, <1>4, <2>1 DEF RefsInv, At
  <2>2. CASE EditStep(p)
    <3>1. Moved(p)
      BY <2>2, EditMoves
    <3>2. Stay(JobIds(edits'[p].loaded.refs))
      BY <1>3, <1>4, <3>1 DEF Moved
    <3>3. edits'[p].step = "save" => Stay(SeenIds(edits'[p].given))
      BY <1>1, <1>2, <3>1 DEF Moved
    <3> QED BY <3>2, <3>3
  <2> QED BY <2>1, <2>2, FramesMove
<1> QED BY <1>5, <1>6, <1>7 DEF RefsInv, Existed, At

LEMMA InitRefs == Init => RefsInv
<1> SUFFICES ASSUME Init PROVE RefsInv
  OBVIOUS
<1>1. \A p \in Requests : edits[p].loaded = NewJob /\ edits[p].step = "idle"
  BY IdleProper DEF Init
<1>2. dispatch.job = NewJob /\ job = NewJob
  BY DEF Init, NoDispatch
<1> QED BY <1>1, <1>2, NoJobIds DEF RefsInv, Existed, At

(* A job refers to credentials of the user's vault only: what a form names is
   resolved before the save, and what the handler had loaded was there already. *)
THEOREM RefsExist == Spec => []RefsExisted
<1>1. RefsInv => RefsExisted
  BY DEF RefsInv, Existed, RefsExisted
<1> QED BY <1>1, InitType, StepType, InitRefs, StepRefs, PTL DEF Spec

------------------------------------------------------------------------------
(* Created keys, and overlapping edits *)

LEMMA StepStray == TypeInv /\ StrayKeysNeedFailure /\ [Next]_vars => StrayKeysNeedFailure'
<1> SUFFICES ASSUME TypeInv, StrayKeysNeedFailure, [Next]_vars, NEW c \in CredIds, c \in minted'
             PROVE  c \in referred' \cup abandoned' \/ \E p \in Requests : edits'[p].created = c
  BY StepType DEF StrayKeysNeedFailure, TypeInv, TypeOK
<1>1. CASE UNCHANGED <<edits, minted, referred, abandoned>>
  BY <1>1 DEF StrayKeysNeedFailure
<1>2. ASSUME NEW p \in Requests, EditStep(p)
      PROVE  c \in referred' \cup abandoned' \/ \E q \in Requests : edits'[q].created = c
  <2>1. Moved(p) /\ \A q \in Requests \ {p} : edits'[q] = edits[q]
    BY <1>2, EditMoves
  <2>2. CASE KeyCreate(p)
    <3>1. PICK d \in CredIds :
              /\ minted' = minted \cup {d}
              /\ Become(p, ToGoogle([edits[p] EXCEPT !.given["key"] = d, !.created = d]))
      BY <2>2 DEF KeyCreate
    <3>2. edits'[p].created = d
      <4> DEFINE r == ToGoogle([edits[p] EXCEPT !.given["key"] = d, !.created = d])
      <4>1. r.created = d
        BY Held, CreatedNext
      <4> HIDE DEF r
      <4>2. edits'[p] = r
        BY <3>1, BecomeMoved DEF r
      <4> QED BY <4>1, <4>2
    <3>3. edits[p].created # c
      BY <2>2, Held, Constants DEF KeyCreate, At, Proper, KeySteps
    <3>4. UNCHANGED <<referred, abandoned>>
      BY <2>2 DEF KeyCreate
    <3> QED BY <2>1, <3>1, <3>2, <3>3, <3>4 DEF StrayKeysNeedFailure
  <2>3. CASE Save(p)
    <3>1. edits[p].created = c => c \in referred'
      <4> SUFFICES ASSUME edits[p].created = c PROVE c \in referred'
        OBVIOUS
      <4>1. edits[p].given["key"] = c /\ c # Keep /\ c # NoCred
        BY Held, Constants DEF Proper
      <4>2. job'.refs["key"] = c
        BY <2>3, <4>1, SavedType DEF Save, MergedRefs, Fields
      <4> QED BY <2>3, <4>1, <4>2 DEF Save, Fields
    <3>2. minted' = minted /\ referred \subseteq referred' /\ abandoned' = abandoned
      BY <2>3 DEF Save
    <3> QED BY <2>1, <3>1, <3>2 DEF StrayKeysNeedFailure
  <2>4. CASE Throw(p)
    <3>1. edits[p].created = c => c \in abandoned'
      BY <2>4, Constants DEF Throw
    <3>2. minted' = minted /\ referred' = referred /\ abandoned \subseteq abandoned'
      BY <2>4 DEF Throw
    <3> QED BY <2>1, <3>1, <3>2 DEF StrayKeysNeedFailure
  <2>5. CASE ~KeyCreate(p) /\ ~Save(p) /\ ~Throw(p)
    <3>1. edits'[p].created = edits[p].created
      BY <2>1, <2>5 DEF Moved
    <3>2. UNCHANGED <<minted, referred, abandoned>>
      BY <1>2, <2>5 DEF EditStep, EditStart, KeyFind, KeyLoad, KeySave, GoogleFind, SheetLoad,
                        SheetSave, Resolve, EditCutOff, ghosts
    <3> QED BY <2>1, <3>1, <3>2 DEF StrayKeysNeedFailure
  <2> QED BY <2>2, <2>3, <2>4, <2>5
<1>3. CASE DispatchStep
  <2>1. UNCHANGED <<edits, minted, referred, abandoned>>
    BY <1>3 DEF DispatchStep, DispatchLoad, DispatchWorkflow, DispatchHydrate, DispatchRefs,
                DispatchPost, DispatchCutOff, DispatchBecomes, ghosts
  <2> QED BY <1>1, <2>1
<1>4. ASSUME NEW d \in CredIds, RemoveCredential(d)
      PROVE  UNCHANGED <<edits, minted, referred, abandoned>>
  BY <1>4 DEF RemoveCredential, ghosts
<1> QED BY <1>1, <1>2, <1>3, <1>4 DEF Next, vars

(* An API key created in the vault gets into the job unless its edit failed: an edit
   names the key it created from the creation to the save. *)
THEOREM CreatedKeysArrive == Spec => []StrayKeysNeedFailure
<1>1. Init => StrayKeysNeedFailure
  BY DEF Init, StrayKeysNeedFailure
<1> QED BY <1>1, InitType, StepType, StepStray, PTL DEF Spec

LEMMA StepWins == TypeInv /\ OneEditWins /\ [Next]_vars => OneEditWins'
<1> SUFFICES ASSUME TypeInv, OneEditWins, [Next]_vars PROVE OneEditWins'
  OBVIOUS
<1>1. CASE UNCHANGED <<job, last>>
  BY <1>1 DEF OneEditWins
<1>2. ASSUME NEW p \in Requests, Save(p)
      PROVE  OneEditWins'
  <2>1. /\ job'.settings = edits[p].body.settings
        /\ job'.refs = MergedRefs(edits[p].loaded.refs, edits[p].given)
        /\ last'.settings = edits[p].body.settings /\ last'.given = edits[p].given
    BY <1>2, SavedType DEF Save
  <2> QED BY <2>1 DEF OneEditWins, MergedRefs
<1>3. ASSUME NEW p \in Requests, EditStep(p), ~Save(p)
      PROVE  UNCHANGED <<job, last>>
  BY <1>3 DEF EditStep, EditStart, KeyFind, KeyLoad, KeySave, KeyCreate, GoogleFind, SheetLoad,
              SheetSave, Resolve, EditCutOff, Throw, ghosts
<1>4. CASE DispatchStep
  BY <1>1, <1>4 DEF DispatchStep, DispatchLoad, DispatchWorkflow, DispatchHydrate, DispatchRefs,
                    DispatchPost, DispatchCutOff, DispatchBecomes, ghosts
<1>5. ASSUME NEW d \in CredIds, RemoveCredential(d)
      PROVE  UNCHANGED <<job, last>>
  BY <1>5 DEF RemoveCredential, ghosts
<1> QED BY <1>1, <1>2, <1>3, <1>4, <1>5 DEF Next, vars

(* Settings and references of a job come from one and the same edit, however edits
   overlap: a save sends both as a whole. *)
THEOREM EditsDoNotMix == Spec => []OneEditWins
<1>1. Init => OneEditWins
  BY DEF Init, OneEditWins, NoBody
<1> QED BY <1>1, InitType, StepType, StepWins, PTL DEF Spec

------------------------------------------------------------------------------
(* The key a job is run with *)

(* The API key of a credential is one it has had, and so is the one an update of
   its spreadsheet writes back. *)
KeyInv ==
    /\ \A c \in CredIds : Present(c) => vault[c].key \in keysOf[c]
    /\ \A p \in Requests : At(p, "sheet.save") =>
          LET c == Seen(edits[p].given, "google")
          IN  vault[c].type # "unborn" /\ edits[p].cred.key \in keysOf[c]

DispatchInv ==
    LET c == dispatch.job.refs["key"]
    IN  /\ dispatch.step \in {"refs", "post"} /\ dispatch.key # NoText =>
              c # NoCred /\ dispatch.key \in keysOf[c]
        /\ dispatch.step = "refs" /\ dispatch.key = NoText /\ ~dispatch.readFailed /\ c # NoCred =>
              \/ NoText \in keysOf[c]
              \/ \E d \in JobIds(dispatch.job.refs) : vault[d].type = "removed"
        /\ dispatch.step = "post" /\ dispatch.key = NoText /\ ~dispatch.readFailed /\ c # NoCred =>
              NoText \in keysOf[c]

LEMMA StepKeys == TypeInv /\ KeyInv /\ [Next]_vars => KeyInv'
<1> SUFFICES ASSUME TypeInv, KeyInv, [Next]_vars PROVE KeyInv'
  OBVIOUS
<1>1. ASSUME NEW c \in CredIds, Present(c)'
      PROVE  vault'[c].key \in keysOf'[c]
  <2>1. CASE UNCHANGED <<vault, keysOf>>
    BY <1>1, <2>1 DEF KeyInv, Present
  <2>2. ASSUME NEW p \in Requests, KeySave(p), ~Throw(p)
        PROVE  vault'[c].key \in keysOf'[c]
    <3> DEFINE d == Seen(edits[p].given, "key")
    <3>1. /\ vault' = [vault EXCEPT ![d] = [type |-> @.type, key |-> edits[p].body.key, sheet |-> edits[p].cred.sheet]]
          /\ keysOf' = [keysOf EXCEPT ![d] = @ \cup {edits[p].body.key}] /\ d \in CredIds
      BY <2>2, Held DEF KeySave
    <3> QED BY <1>1, <3>1 DEF KeyInv, Present, TypeInv, TypeOK
  <2>3. ASSUME NEW p \in Requests, KeyCreate(p)
        PROVE  vault'[c].key \in keysOf'[c]
    BY <1>1, <2>3 DEF KeyCreate, KeyInv, Present, TypeInv, TypeOK
  <2>4. ASSUME NEW p \in Requests, SheetSave(p), ~Throw(p)
        PROVE  vault'[c].key \in keysOf'[c]
    <3> DEFINE d == Seen(edits[p].given, "google")
    <3>1. /\ vault' = [vault EXCEPT ![d] = [type |-> @.type, key |-> edits[p].cred.key,
                                           sheet |-> edits[p].body.settings.sheet]]
          /\ keysOf' = keysOf /\ d \in CredIds
      BY <2>4, Held DEF SheetSave, ghosts
    <3>2. edits[p].cred.key \in keysOf[d]
      BY <2>4 DEF SheetSave, KeyInv
    <3> QED BY <1>1, <3>1, <3>2 DEF KeyInv, Present, TypeInv, TypeOK
  <2>5. ASSUME NEW d \in CredIds, RemoveCredential(d)
        PROVE  vault'[c].key \in keysOf'[c]
    BY <1>1, <2>5 DEF RemoveCredential, Removed, KeyInv, Present, CredentialTypes, ghosts, TypeInv, TypeOK
  <2>6. ASSUME NEW p \in Requests, EditStep(p), ~(KeySave(p) /\ ~Throw(p)), ~KeyCreate(p), ~(SheetSave(p) /\ ~Throw(p))
        PROVE  UNCHANGED <<vault, keysOf>>
    BY <2>6 DEF EditStep, EditStart, KeyFind, KeyLoad, GoogleFind, SheetLoad, Resolve, Save,
                EditCutOff, Throw, ghosts
  <2>7. CASE DispatchStep
    BY <2>1, <2>7 DEF DispatchStep, DispatchLoad, DispatchWorkflow, DispatchHydrate, DispatchRefs,
                      DispatchPost, DispatchCutOff, DispatchBecomes, ghosts
  <2> QED BY <2>1, <2>2, <2>3, <2>4, <2>5, <2>6, <2>7 DEF Next, vars
<1>2. ASSUME NEW p \in Requests, edits'[p].step = "sheet.save"
      PROVE  LET c == Seen(edits'[p].given, "google")
             IN  vault'[c].type # "unborn" /\ edits'[p].cred.key \in keysOf'[c]
  <2> DEFINE c == Seen(edits'[p].given, "google")
  <2>1. c \in CredIds /\ vault[c].type # "unborn" /\ edits'[p].cred.key \in keysOf[c]
    <3>1. CASE edits'[p] = edits[p]
      BY <1>2, <3>1, Held DEF KeyInv, At
    <3>2. CASE EditStep(p)
      BY <1>2, <3>2, EditMoves DEF Moved, KeyInv, Present, CredentialTypes
    <3> QED BY <3>1, <3>2, FramesMove
  <2>2. Kept(c)
    BY <2>1, VaultKeeps
  <2> QED BY <2>1, <2>2 DEF Kept
<1> QED BY <1>1, <1>2 DEF KeyInv, At

(* What hydration finds. *)
LEMMA HydratedKey ==
    ASSUME TypeInv, RefsInv, KeyInv
    PROVE  LET c == dispatch.job.refs["key"]
           IN  /\ Hydrated # NoText => c # NoCred /\ Hydrated \in keysOf[c]
               /\ Hydrated = NoText /\ c # NoCred =>
                     \/ NoText \in keysOf[c]
                     \/ \E d \in JobIds(dispatch.job.refs) : vault[d].type = "removed"
<1> DEFINE refs == dispatch.job.refs
           ids == {refs["key"], refs["google"]} \ {NoCred}
<1>1. refs["key"] \in CredIds \cup {NoCred} /\ ids \subseteq JobIds(refs) /\ JobIds(refs) \subseteq CredIds
  BY DispatchHeld DEF JobIds, Fields
<1>2. ASSUME refs["key"] # NoCred, \A d \in ids : Present(d)
      PROVE  Hydrated \in keysOf[refs["key"]]
  BY <1>1, <1>2 DEF Hydrated, KeyInv
<1>3. ASSUME NEW d \in ids, ~Present(d)
      PROVE  vault[d].type = "removed"
  BY <1>1, <1>3 DEF RefsInv, Existed, Present, TypeInv, TypeOK, Credential
<1>4. Hydrated # NoText => refs["key"] # NoCred /\ \A d \in ids : Present(d)
  BY DEF Hydrated
<1> QED BY <1>1, <1>2, <1>3, <1>4

LEMMA StepDispatch == TypeInv /\ RefsInv /\ KeyInv /\ DispatchInv /\ [Next]_vars => DispatchInv'
<1> SUFFICES ASSUME TypeInv, RefsInv, KeyInv, DispatchInv, [Next]_vars PROVE DispatchInv'
  OBVIOUS
<1> DEFINE c == dispatch.job.refs["key"]
           ids == JobIds(dispatch.job.refs)
<1>1. dispatch \in Dispatch /\ c \in CredIds \cup {NoCred} /\ ids \subseteq CredIds /\ (c # NoCred => c \in ids)
  BY DispatchHeld
<1>2. CASE dispatch' = dispatch
  <2>1. c # NoCred => keysOf[c] \subseteq keysOf'[c]
    BY <1>1, VaultKeeps DEF Kept, RefsInv, Existed
  <2>2. \A d \in ids : vault[d].type = "removed" => vault'[d].type = "removed"
    BY <1>1, VaultKeeps DEF Kept
  <2> QED BY <1>2, <2>1, <2>2 DEF DispatchInv
<1>3. CASE DispatchStep /\ UNCHANGED <<job, vault, edits, ghosts>>
  <2>1. CASE dispatch'.step \notin {"refs", "post"}
    BY <2>1 DEF DispatchInv
  <2>2. CASE DispatchHydrate
    <3>1. dispatch'.job = dispatch.job /\ dispatch'.step = IF ids = {} THEN "post" ELSE "refs"
      BY <1>1, <2>2, Hydrates DEF DispatchBecomes, Hydration, Dispatch
    <3>2. \/ dispatch'.key = Hydrated
          \/ dispatch'.key = NoText /\ dispatch'.readFailed
      BY <1>1, <2>2, Hydrates DEF DispatchBecomes, Hydration, Dispatch
    <3>3. dispatch'.step = "post" => c = NoCred
      BY <1>1, <3>1
    <3> QED BY <1>3, <3>1, <3>2, <3>3, HydratedKey DEF DispatchInv, ghosts
  <2>3. CASE DispatchRefs /\ dispatch' # NoDispatch
    <3>1. /\ dispatch' = [dispatch EXCEPT !.step = "post", !.resolved = Read(ids)]
          /\ \A d \in ids : Present(d) /\ dispatch.step = "refs"
      BY <2>3 DEF DispatchRefs, DispatchBecomes
    <3>2. /\ dispatch'.step = "post" /\ dispatch'.key = dispatch.key /\ dispatch'.job = dispatch.job
          /\ dispatch'.readFailed = dispatch.readFailed
      BY <1>1, <3>1 DEF Dispatch
    <3>3. \A d \in ids : vault[d].type # "removed"
      BY <3>1 DEF Present, CredentialTypes
    <3>4. dispatch.step = "refs"
      BY <2>3 DEF DispatchRefs
    <3> QED BY <1>3, <3>2, <3>3, <3>4 DEF DispatchInv, ghosts
  <2>4. ASSUME ~DispatchHydrate, ~(DispatchRefs /\ dispatch' # NoDispatch)
        PROVE  dispatch'.step \notin {"refs", "post"}
    <3>1. NoDispatch.step = "idle"
      BY DEF NoDispatch
    <3>2. CASE DispatchLoad
      BY <3>2 DEF DispatchLoad, DispatchBecomes, NoDispatch
    <3>3. CASE DispatchWorkflow
      BY <1>1, <3>1, <3>3 DEF DispatchWorkflow, DispatchBecomes, Dispatch
    <3>4. CASE DispatchRefs \/ DispatchPost \/ DispatchCutOff
      BY <2>4, <3>1, <3>4 DEF DispatchPost, DispatchCutOff, DispatchBecomes
    <3> QED BY <1>3, <2>4, <3>2, <3>3, <3>4 DEF DispatchStep
  <2> QED BY <2>1, <2>2, <2>3, <2>4
<1> QED BY <1>2, <1>3, JobMoves

LEMMA InitKeys == Init => KeyInv /\ DispatchInv
<1> SUFFICES ASSUME Init PROVE KeyInv /\ DispatchInv
  OBVIOUS
<1>1. \A p \in Requests : edits[p].step = "idle"
  BY IdleProper DEF Init
<1>2. dispatch.step = "idle"
  BY DEF Init, NoDispatch
<1>3. \A c \in CredIds : vault[c].key \in keysOf[c]
  BY DEF Init
<1> QED BY <1>1, <1>2, <1>3 DEF KeyInv, DispatchInv, At

(* Whatever is edited or deleted meanwhile, a job that names an API key is run with a key
   of that credential or not at all, unless the read that hydrates it fails and the one
   after it succeeds: a key that a read did not find belongs to a credential that is
   gone for good, and the second look at the references stops the dispatch. *)
THEOREM RunWithItsKey == Spec => []JobsKeyIsSent
<1>1. DispatchInv => JobsKeyIsSent
  BY DEF DispatchInv, JobsKeyIsSent, PayloadKeys
<1> QED BY <1>1, InitType, StepType, InitRefs, StepRefs, InitKeys, StepKeys, StepDispatch, PTL DEF Spec
==============================================================================
