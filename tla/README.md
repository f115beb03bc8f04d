# Formal model of the dashboard automations backend

The backend (NestJS, MongoDB through Mongoose, BullMQ on Redis) runs *automations*:
a user runs a workflow, the backend creates a job, posts it to an n8n webhook, and
n8n reports the outcome later over HTTP. This directory holds TLA+ modules of that
system, TLC configurations that check them on small instances, and theorems proved
with TLAPS.

## The system

| component | state it keeps | operations | what makes it hard |
|---|---|---|---|
| `jobs/jobs.service.ts` | `automation_jobs` documents: `status`, `errorMessage`, … | `create`, `run`, `dispatch`, `handleSuccess`, `handleError`, `handleCallback` | every `await` lets another handler in; documents are loaded, kept over a webhook call, and saved stale; no transactions |
| `automations/automations.service.ts` (run status) | `status`, `statusBeforeRun`, `triggers` of a `workflows` document | `markAsRunning`, `markRunFinished`, `incrementTriggers`, `update`, `remove` | one remembered status shared by all overlapping runs |
| BullMQ queue `automation-jobs`, `jobs.processor.ts` | one entry per run: waiting, active, done, failed; attempts | `add`, `process` | retries (`attempts: 3`), redelivery after a crash |
| `jobs/jobs.service.ts` (configuration) | `settings` and `credentialRefs` of a job | `updateNodeConfig`, and what `dispatch` reads of its result | one form is spread over the job and the vault, in several writes |
| `automations/n8n.service.ts`, direct triggers in two controllers | none | `triggerJob`, `triggerWorkflow` | the answer says nothing about the execution; reports may overtake it, be repeated, or name only the workflow |
| `jobs/jobs.gateway.ts` | socket rooms | `emitJobStatus`, subscriptions | events are emitted after saves, from stale documents too |
| `automations/automations.service.ts` (editing) | `config`, `credentials`, `nodeCredentials` | `create`, `updateConfig`, `upsertNodeCredentials`, `updateNodeConfig` | array saves under Mongoose's versioning, mirrored data |
| `credentials/credentials.service.ts`, `crypto/crypto.service.ts` | `user_credentials`, secrets encrypted field by field | `create`, `update`, `upsertApiKey`, `upsertGoogleOAuth`, `resolveForUser`, `remove` | read-merge-write of whole `data` objects, find-then-create |
| `integrations/google/google-oauth.service.ts` | the Google credential of a user | `handleCallback`, `getStatus`, `updateSpreadsheetId`, `disconnect` | races between reconnect, edits and disconnect |
| `auth/auth.service.ts`, `seed/seed-admin-user.ts` | `passwordHash`, `role`, one `refreshTokenHash` per user | `register`, `login`, `refresh`, `logout`, `upsertAdmin` | check-then-create of accounts; sign-ins save users loaded before |
| `automations/workflow-store.ts`, `use-workflow-store.ts` | a browser-side cache | edits, trigger | kept beside the backend, not used by it |
| `config`, `main.ts`, `seed`, templates | constants | start-up | none |

How they interact: `JobsController` and `AutomationsController` start one handler
per HTTP request; `JobsService` calls `AutomationsService` for the workflow's run
status, the queue for asynchronous runs and `N8nService` for the webhook;
`JobsProcessor` calls `dispatch` back from the queue; n8n calls
`/jobs/success`, `/jobs/error` and `/jobs/callback`. All of them share the two
MongoDB collections and nothing else. Credentials are reached by their own
controller, by the Google callback, and by jobs: `updateNodeConfig` stores API keys
through `upsertApiKey`, `dispatch` resolves the credentials a job names.

What makes the core correct: a workflow shown as *Running* is being worked on and
stops being shown so, or its job was given up; a job that ended stays ended; an
automation is executed once whatever the queue retries; every completed job is
counted, and only what was executed; a queued job has an entry or is known to have
lost it; no end of a job passes unannounced.

What makes a job's configuration correct: it refers to credentials that exist; a
key the user entered ends up in the job; settings and the references a form names
belong to one edit; the job runs with its own key, and what lets another key through
is known.

What makes the vault correct: what is removed or disconnected stays so; the fields
of a connection belong together; a save of data leaves secrets sealed, and readable with
the server's key; no edit loses what a credential's type requires.

What makes accounts correct: an email has one account; the seeded admin stays one;
sessions are opened by registrations, logins and open sessions, and ended by logouts only.

What makes workflow editing correct: a config never mixes credentials of two users;
no edit of the node credentials undoes another; what is mirrored agrees.

## The modules

| module | models |
|---|---|
| `Documents` | what `document.save()` writes: only the paths whose value changed since the load (`Written`) |
| `WorkflowRunStatus` | the assignments of `markAsRunning` and `markRunFinished`, `workflow.save()`, `$inc` of `triggers` |
| `AutomationQueue` | the life of one BullMQ entry: added, taken, completed, rejected (until `attempts` are used up), stalled by a crash |
| `RunLifecycle` | what the backend promises about jobs, without handlers, documents or queue |
| `JobRuns` | the composition: handlers of requests and of the worker, the two collections, the queue, n8n |
| `JobRunsProperties` | the properties of `JobRuns`, and the refinement mapping to `RunLifecycle` (`Lifecycle`) |
| `MCJobRuns` | the instances TLC checks, with the symmetry of request slots |
| `JobRunsProofs` | type correctness, proved |
| `JobRunsRunningProofs` | the theorems about running workflows and their counter, proved |
| `JobRunsLifecycleProofs` | that `JobRuns` implements `RunLifecycle`, what follows from it, and that failed jobs keep their reason, proved |
| `JobEvents` | the socket events handlers emit after their saves, composed with `JobRuns`, and their properties |
| `MCJobEvents` | the instance TLC checks |
| `JobEventsProofs` | both properties of `JobEvents`, proved |
| `JobConfig` | `updateNodeConfig` of a job and the part of `dispatch` that reads its result, with their properties |
| `MCJobConfig` | the instances TLC checks: the vault, the forms |
| `JobConfigProofs` | the theorems about a job's configuration and its key, proved |
| `FieldEncryption` | the `data` object of a credential; `CryptoService` on its fields: encrypt, decrypt, mask, and the stripping of masked placeholders |
| `CredentialVault` | the handlers of `CredentialsService` and `GoogleOAuthService` on the credentials of one user |
| `CredentialVaultProperties` | the properties of `CredentialVault` |
| `MCCredentialVault` | the instances TLC checks: request bodies, documents left from before, symmetry |
| `CredentialVaultProofs` | the theorems about the vault and the encryption lemma, proved |
| `AuthSessions` | the handlers of `AuthService` and the admin seed on the users collection, with their properties |
| `MCAuthSessions` | the instance TLC checks |
| `AuthSessionsProofs` | every property of `AuthSessions`, proved |
| `WorkflowEditing` | the editing handlers of `AutomationsService` on one workflow, with their properties |
| `MCWorkflowEditing` | the instance TLC checks: request bodies, node lists, UI forms |
| `WorkflowEditingProofs` | every property of `WorkflowEditing`, proved |

`JobRuns` composes `WorkflowRunStatus` and `AutomationQueue`, implements
`RunLifecycle`, and is composed with the event channel in `JobEvents`; `CredentialVault`
builds on `FieldEncryption`; the state machines take `Written` from `Documents`.
`JobConfig` has a vault of its own, reduced to what edits of jobs write: the forms and
removals of `CredentialVault` appear in it as removals at any moment.
`AuthSessions` and `WorkflowEditing` stand alone: the first shares no collection with
the others, the second shares the workflow document but no path of it with `JobRuns`,
and saves write single paths. A credential that is removed makes `dispatch` throw, which `JobRuns` allows at any
moment (`CredentialMissing`).

### How `JobRuns` corresponds to the code

* **A handler is a frame.** `frames[p]` is what the handler in slot `p` does next
  (`step`) and what it holds: the workflow and job it is about, the job document
  and the workflow document it loaded. `Requests` are slots for HTTP requests,
  `Worker` the slot of the queue's worker (BullMQ's default concurrency, 1).
* **One step per operation that another handler can come between**: a load, a
  save, an update, `queue.add`, the webhook call, its answer. The code between two
  awaits belongs to the step before it. Steps are named after the method:
  `run.mark`, `run.create`, `run.enqueue`, `dispatch.load`, `dispatch.start`,
  `dispatch.post`, `dispatch.await`, `dispatch.fail`, `report.save`,
  `report.count`, `finish.load`, `finish.save`, …
* **Reads that decide nothing are left out.** The reads of `run` before
  `markAsRunning` refuse the request or change nothing, so a run starts with the
  load of `markAsRunning`. The `findOne` at the end of `markAsRunning` and
  `markRunFinished` is a step where its exception changes what happens
  (`RunReread`, `FinishReread`); at the end of a request it only makes the answer.
* **Exceptions.** `Throw` ends a request; in the worker it rejects the queue entry
  (`worker.nack`). A removed workflow makes every load and save of it throw
  (`WorkflowGone`), a deleted credential makes `dispatch` throw before it sets
  *processing* (`CredentialMissing`), a failing Redis makes `queue.add` throw
  (`RunEnqueueFails`). In the last two cases a job may be given up while it is
  *queued*: nothing in the code fails it or finishes its workflow.
* **n8n** accepts a webhook call (`PostAccepted`, counted in `posts`) or not
  (`PostRefused`). The answer to an accepted call may be a success, or an error
  status or timeout (`AnswerLost`): the execution goes on all the same and may be
  reported before or after the answer. `Report` is one of the three endpoints,
  naming its job or only its workflow; `ReportDirect` reports an execution that a
  direct trigger started, which has no job. `resolveJobForN8nReport` is `FindActive`
  followed by `ReportLatest`, its two queries.
* **Crash** loses every frame; active entries stall and are redelivered once
  (`MaxStalls`). MongoDB, Redis and n8n survive.
* `posts`, `reports`, `succeeded`, `direct`, `directReports`, `interrupted`,
  `abandoned` and `faults` record history for bounds and properties; no step of the
  code reads them. `abandoned` holds the jobs that a handler let go before they ended:
  by a failing `queue.add`, by a dispatch that threw out of `run`, or by a crash.

Abstracted: topics, payloads, credentials' contents, error texts (a small set),
`n8nResponse`, `callbackPayload` and `completedAt` (no property tells them apart),
time and back-off, ownership checks before a handler starts. A
worker that stalls without dying is not modelled. The external parts, BullMQ,
Mongoose and n8n, are modelled by what the code relies on.

### How `RunLifecycle` is implemented

`RunLifecycle` gives a job a phase, a number of executions and a number of
redeliveries. It is started and executed when *due*: once, and once more per
redelivery. It completes only after an execution succeeded, fails from *processing*
or after an execution, and once ended starts again only when redelivered.
The mapping takes the phase from the job's document (`jobs[j].status`), the
executions from `posts` and the redeliveries from the stalls of the queue entry. Every step of a handler,
of the worker or of a crash is one of its actions on one job, or changes nothing in it:
the steps before a save, retries, stale saves of other paths and the run status of
workflows all stutter.

### How `JobEvents` corresponds to the code

* **An event follows its save** in the same handler (`EventAfter` tells which status it
  carries: the one in the handler's own copy of the job). It is a step of its own,
  since the save resolves before the handler goes on; until then the slot takes no
  other step. `announcing[p]` is that event.
* **Edits** of a job's configuration write no status but emit the one they loaded:
  `EditLoad`, then `EditSave` with its event, or `EditThrows`.
* `shown` is the status subscribers saw last, `announced` every end they were told of,
  `overlapped` the jobs saved by one handler while another held a copy of them.
* Rooms only select which clients see an event, and are left out. Crashes are left
  out: all sockets end with the process, and clients read the job again.

### How `JobConfig` corresponds to the code

* **One job, one user.** An edit walks through the awaits of `updateNodeConfig`: the
  upsert of the API key (`key.find`, `key.load`, `key.save`, `key.create`), the latest
  Google credential (`google.find`), the update of its spreadsheet (`sheet.load`,
  `sheet.save`), `resolveForUser` (`resolve`), `save`. Which of them happen, and in
  which order, is computed from the form (`ToKey` … `ToResolve`), as the code's conditions do.
* **`{ ...job.credentialRefs }`** is the spread of a Mongoose subdocument. The
  fields are accessors of its prototype, so the copy shows none of them to the handler
  (`Seen`); it does carry the inner document, and Mongoose merges the copy over that
  when it is assigned back (`MergedRefs`). This part is Mongoose's.
* **Exceptions.** `Throw` where the code throws, and `EditCutOff` for any other failure
  of an await and for the death of the process; the vault keeps what was written.
* **`dispatch`** from the load of the job to the payload: the workflow's
  credentials (`context`), `hydrateCredentialsFromVault`, then the job's references
  again, where a missing one throws. Hydration swallows every exception of its read:
  `DispatchHydrate` finds no key when a reference is missing, and also when the read fails
  although all are there (`readFailed`). Any other failing await ends the dispatch
  (`DispatchCutOff`). `PayloadKeys` is the precedence of `postToWebhook`. The status of the
  job and the webhook call are `JobRuns`'; an edit may come at any time.
* `keysOf`, `referred`, `minted`, `abandoned` and `last` record history for the properties,
  and so does `readFailed`.

Abstracted: the topic and name of a job, the texts of keys and models, the list order
behind "latest Google credential" (left open), encryption (in `CredentialVault`).

### How `CredentialVault` corresponds to the code

* **One user.** Every query filters by `ownerId`, so users share nothing.
* **Frames** as in `JobRuns`: an update is its load (`Loaded`: `findEntityForUser`,
  the merge, the validation) and its save (`UpdateSave`), which writes the whole of
  `data` if the body had one, `n8nCredentialId` if it changed, and throws if the
  document is gone. `upsertGoogleOAuth` and `updateSpreadsheetId` list first and
  then update; `disconnect` lists, then revokes and removes one credential
  after the other; `remove` is a find and a delete.
* **`data`** maps each field to a text and the form it is stored in: plain, sealed
  under the server's key, or sealed under another (`unreadable`), which makes
  decryption throw. Two fields of each kind the code tells apart are enough; the
  passwords of `SENSITIVE_DATA_KEYS` are treated like `apiKey`.
* **`updatedAt`** is a rank: only its order matters, `find … sort` takes the highest.
  A save that sends something makes its document the newest (`Touched`). Two saves
  in one millisecond are not modelled.
* **Google** gives one grant per consent: `accessToken` and, if one came,
  `refreshToken` are that grant. A failing exchange or profile request changes
  nothing and is left out. `Revoke` is the call to Google that may fail; the code
  logs and goes on.
* **Documents from before** (`Initial`): secrets stored in plain text before
  encryption was introduced, or sealed under an earlier key.
* `EditListed` is a form filled from the masked list and sent back.
* `retyped` records the credentials an update renamed apart from their access token
  (`Retypes`): it was sent another email or refresh token than is stored, and no access token.
  `consents`, `revoked`, `disconnected` and `cutOff` record history as well.

Abstracted: labels (only whether an update changes one), trimming, expiry, scope and
token type, the order in which `disconnect` takes its list, the provider of an API
key. Not modelled: the authorization URL, the signed state and the return URL, the
renaming of `userId` at start-up.

### How `AuthSessions` corresponds to the code

* **Frames** again: `register` is its `findOne`, then `create`, then the save of
  `issueTokens`; `login` and `refresh` load and compare in one step (bcrypt looks at
  what was loaded) and save in another; `upsertAdmin` finds, then saves or creates.
  `logout` is one update. Failing checks change nothing and are left out.
* **A save writes the paths that changed.** `issueTokens` saves the hash only; the
  seed always writes the password, since it is not loaded, and the role if the loaded one
  differs (`Written`).
* **The unique index** on `email` makes `create` throw (`CreateRefused`).
* **The hash of a refresh token.** bcrypt reads 72 bytes of its input. A signed token is
  longer, and its first 72 bytes are the header and the beginning of the user's id
  (`Digest`): the stored hash accepts every refresh token of the user that is still
  signed and unexpired, not only the last.
* `tokens`, `signedOut` and `seeded` record history for the guards of the environment
  (a client can present only a token it was given) and for the properties.

Abstracted: names, the length and format of emails and passwords, the expiry of
tokens, the access token beyond that one was issued. Passwords are compared directly:
they are shorter than 72 bytes here.

### How `WorkflowEditing` corresponds to the code

* **One workflow**, absent at first or a shared template without an owner, edited by
  several users. A handler loads (and checks) in one step and saves in another;
  `updateConfig` looks its references up in between (`ConfigCheck`), `create`
  inserts and then runs `upsertNodeCredentials` on what it inserted.
* **Array saves.** `Upserted` is the loop over the entries: an entry replaces the first
  of its node type, or is pushed. If the handler only pushed, Mongoose sends `$push`
  and the save always succeeds; if it assigned an element, Mongoose sends the whole
  array with the loaded version in the filter, and throws if another save of the
  array was faster (`VersionMatches`, `SaveThrows`). Both count the version up. This
  part is Mongoose's and is modelled as external.
* **`config`** is a `Mixed` path: a save replaces it as a whole. `key` is the API key
  reference of one type and the WordPress reference of the other.
* **`updateNodeConfig`** of a workflow is the deprecated endpoint, with neither a user nor a
  version: it saves topic, UI credentials and the four mirrored node entries at once.
* `LoseCredential`: a credential is removed or unreadable, and `resolveForUser` throws.
* `synced` records that the node entries were last written by `updateNodeConfig`.

Abstracted: names, site ids, webhook fields, the ids of node entries, the mapping of
configs stored in an earlier layout; the API key and the model are one text.

Next to some definitions stands a variant whose comment begins with "Mutant": a
plausible mistake in that code. Replacing the definition by the variant makes TLC
report a violation of the property that guards against it (`PROJECT.json` lists
the pairs); no action of the specification uses them.

## What is checked

| run | instance | properties |
|---|---|---|
| `sync` | `JobEvents`, 2 request slots, 2 jobs, no queue, vanishing credentials, a draft, a direct trigger, edits, reports by job or by workflow | `RunningIsAccounted`, `TriggersAreEarned`, `EndIsAnnounced`, `StaleOnlyWhenOverlapped` |
| `faults` | 2 request slots, 2 jobs, queue with 2 attempts, one crash or failing `queue.add` anywhere, lost answers, vanishing credentials | `TypeOK`, `RunningIsAccounted`, `QueuedJobIsCarried`, `ImplementsLifecycle` |
| `unreliable` | no queue, reports repeated up to twice, by job or by workflow, a draft in the way, a direct trigger | `NeverRestoresRunning`, `CompletedIsCounted` |
| `finish` | queue with 3 attempts, fairness and delivered reports, every answer, status edits, removal of the workflow | `RunsFinish`, `EntriesAreWorkedOff`, `FailedHasReason` |
| `restore` | two ordinary overlapping runs | `RestoresUserStatus`, violated |
| `connection` | 2 request slots, 2 credentials, 2 consents for 2 accounts, spreadsheet choices, a partial update, forms filled from the list, disconnects, removals, an old connection, a crash | `TypeOK`, `RemovedStaysRemoved`, `DisconnectRemovesAll`, `RevokedIsNotKept`, `TokensAgree`, `StatusShowsLastWrite` |
| `sequential` | one request at a time, 2 consents for 2 accounts, every kind of form | `CredentialsUsable`, `OneConnection`, `MaskedEditKeepsData`, `ReconnectKeepsSheet`, `SavedSecretsSealed`, `SavedSecretsReadable` |
| `skew` | two overlapping updates of one credential | `CredentialsUsable`, violated |
| `auth` | 2 request slots, a seed, 2 users, 2 emails, 2 passwords, 3 refresh tokens; deadlock checked | `TypeOK`, `OneAccountPerEmail`, `SeededStaysAdmin`, `OnlyLogoutEndsSessions`, `SessionsNeedPassword` |
| `editing` | 2 request slots, 2 users with a credential each, both workflow types, 3 saves of node credentials, removal | `TypeOK`, `RefsOfOneUser`, `MirrorsAgree`, `OthersNodesKept`, `DuplicatesNeedOverlap` |
| `config` | `JobConfig`, 2 request slots, 3 edits out of 8 forms, a dispatch at any time whose reads may fail, a vault of 3 credentials and 2 free ids, removal of two; deadlock checked | `TypeOK`, `RefsExisted`, `StrayKeysNeedFailure`, `OneEditWins`, `JobsKeyIsSent` |
| `rekey` | the same with one request at a time | `KeysAreUpserted`, violated |

What they show:

* A workflow in *Running* has a starting run, a handler about to finish it, or an
  unfinished job that is on its way (`Carried`) or was given up (`GivenUp`);
  `RunningIsAccounted` says so at every step. So on the side of the backend two things
  strand it, and only they do. One is a crash in the middle of a handler; the model names
  these places (`HalfDone`). The other needs no crash: a job is given up when the attempts of
  its entry are used up, when `queue.add` fails, or when, without a queue, a vanished
  credential makes `dispatch` throw out of `run`. It stays unfinished and its workflow
  *Running*, unless a report is mistaken for its own. The property names this outcome, it does not forbid it. That is why
  `finish` assumes that credentials stay. A report that never comes leaves the workflow
  *Running* as well; the job then counts as on its way.
* The counter is bounded by the jobs that succeeded and twice the direct triggers
  (`TriggersAreEarned`): a direct trigger is counted by its answer
  (`automations.controller.ts:80`) and again by its report, which the property allows. No
  job is counted twice, by its answer and its report for instance, when n8n reports an
  execution once.
* Retries never execute an automation twice and never restart a
  job that ended (`ImplementsLifecycle`), although `dispatch` looks at no status:
  after the webhook call it throws only if the workflow is gone, and then the next
  attempt throws before doing anything. Two things do restart an ended job: a stalled
  entry, which is posted again and which `RunLifecycle` allows for as a redelivery, and
  a report naming only the workflow that is
  taken for a job whose dispatch has not begun. `ImplementsLifecycle` is therefore
  checked, and proved, for reports that name their job.
* `FailedHasReason` holds when n8n reports an execution once: the second writer is
  then the late answer of the webhook. Saves write what they
  changed, so two contradicting reports can leave *failed* without its text; this is not
  covered by a property.
* `EntriesAreWorkedOff` and `QueuedJobIsCarried` say that an entry ends as done or failed
  and that a done one has left no job *queued*; a failed one may have.
* A draft is never run: no endpoint dispatches it. It is still found by
  reports that name only their workflow, which may complete it.
* Whoever ends a job, its rooms are told (`EndIsAnnounced`). What they are shown last may be
  stale all the same: after the webhook's answer `dispatch` emits the *processing* it
  loaded although a report has completed the job meanwhile (`jobs.service.ts:367`), and
  an edit does the same. `StaleOnlyWhenOverlapped` says that nothing else does.
* A repeated or late report can turn a completed job into a failed one and back.
  The code does this knowingly (`handleError` tests nothing), so no property forbids it.
* `CompletedIsCounted` holds because saves write only what changed and the counter
  is incremented in the database. It is an inequality: overlapping success reports
  of one job count twice, and no property forbids that.
* `NeverRestoresRunning` covers two marks of one workflow that overlap; `RunsFinish`, the
  progress it makes possible, is checked with one request slot, where they do not.
* `RestoresUserStatus` fails: see the findings below.
* A credential that was removed stays removed (`RemovedStaysRemoved`), whatever a
  handler that loaded it still saves, because `save()` never inserts again; and so
  a revoked token is never written back (`RevokedIsNotKept`). A crash between the
  revocation and the deletion does leave a dead token, which the model records.
* `TokensAgree` holds although `updateSpreadsheetId` writes back every token it read:
  it undoes a reconnect that overlaps it, but as a whole, email and tokens together.
  It claims nothing where Google sent no refresh token: there the code keeps the
  previous one, and when the account changed it is the other account's. It also leaves out
  the credentials in `retyped`: an update of the email or the refresh token alone may
  rename a connection, and does so even with a form nobody changed, filled from the list
  before a callback connected another account and saved after it
  (`credentials.service.ts:170`): the earlier email then stands with the new tokens.
  Without that exception TLC finds this trace in `connection`.
* `OneConnection`, `ReconnectKeepsSheet`, `CredentialsUsable` and
  `MaskedEditKeepsData` hold for one request at a time and not for overlapping ones:
  two first callbacks both create a connection, and a spreadsheet chosen during a
  callback is lost. That `CredentialsUsable` fails then is the finding of `skew`; of the
  others the overlapping case is not covered by a property. That saved secrets are sealed
  and readable is checked with one request at a time and proved for any overlap.
* `StatusShowsLastWrite` holds however the requests of the run overlap: a callback's write
  is shown as the connected account, a choice of spreadsheet as the spreadsheet. Whether the
  status is *connected* after such a choice is not claimed: a PATCH in between may have taken
  away what made it so.
* Documents from before encryption are sealed by the first save that carries any data
  (`SavedSecretsSealed`). A PATCH of only the label or the n8n id carries none and
  saves such a document as it is, its secrets in plain text (`credentials.service.ts:162-168`).
* One credential sealed under an earlier key makes reconnecting, choosing a
  spreadsheet and disconnecting throw for as long as it stays, since each decrypts the
  whole list first. No save produces such a document (`SavedSecretsReadable`).
* Two registrations of one email, or one and the seed, both find no user; the unique
  index alone keeps `OneAccountPerEmail`. A sign-in that loaded the user before the
  seed changed it takes nothing back (`SeededStaysAdmin`), because its save sends the
  hash and nothing else.
* Each sign-in replaces the stored hash, yet ends no other session
  (`OnlyLogoutEndsSessions`): the 72 bytes bcrypt reads are the same in all refresh tokens
  of a user. A handler past its check when a logout comes still opens a session;
  `SessionsNeedPassword` says that no other refresh does. That a login compares the
  password is a guard of the model, not part of the formula.
* A job refers only to credentials the vault has had (`RefsExisted`), since what the
  form names is resolved before the save. A key written to the vault stays there when the
  edit fails later (`StrayKeysNeedFailure`: only then), and nothing removes it.
* Overlapping edits of one job do not mix settings with references (`OneEditWins`), because
  both are marked as modified and sent as a whole. A reference the form left out is
  written back as the edit had loaded it, which may undo the other edit.
* Hydration takes a missing credential for no key and the payload would fall back to
  the workflow's key. The second look at the references, which throws, is what keeps
  this from n8n (`JobsKeyIsSent`): a credential never comes back, so what hydration
  missed is still missing then, and the dispatch stops. A read that fails for another
  reason and succeeds at the second look is not caught by it: the job then does run with the
  workflow's key (`jobs.service.ts:745`). The property excludes exactly these dispatches
  (`readFailed`), and without that TLC violates it.
  That the `api-key` block of the payload may hold the workflow's key while
  `openRouterApiKey` holds the job's is not covered.
* `n8n.service.ts:145` says that the vault's key takes precedence. The key in
  `context.credentials` comes first, be it hydrated or the workflow's plain text
  (`PayloadKeys`).
* `RefsOfOneUser` holds because a config is checked as a whole and saved as a whole: of two
  overlapping edits one is lost, but they never mix. `OthersNodesKept` holds through
  Mongoose's version, where an array is replaced, and through `$push`, where it is not.
* Two overlapping edits that both find no entry of a node type push one each
  (`DuplicatesNeedOverlap`); from then on the first entry is the one edited and the
  payload takes the last (`n8n.service.ts:165`). `MirrorsAgree` covers this
  state too: the mirrored values are among the entries, beside a duplicate that may be stale.

**Bounds.** Two request slots and two jobs of one workflow are the smallest instance
in which runs, reports and edits overlap; every race in the code is between two
handlers that share one document. Workflows share no state, so one is
enough. `MaxAttempts = 3` is the code's value; `faults` takes 2, where an entry is
already retried once and then used up, to leave room for the crash. One fault, two reports per
execution, one draft and one direct trigger let each of these meet two ordinary
runs. `MaxJobs` bounds what is created; the bounds on requests and faults are
guards of the actions named for them, and the other counters are bounded by them.
`CHECK_DEADLOCK FALSE` stands in the runs whose instance can come to a natural end
(all jobs used, the workflow removed); in `auth` one more seed is always possible, in
`config` one more dispatch, and there deadlock is checked. In `sync` a slot holds at most one
event or edit, so two slots let an event be overtaken by any other handler.

In the vault two slots let any two handlers overlap, and two credentials let them
meet on one or act on different ones. Two consents are a connection and a reconnect,
two accounts a change of account. In `sequential` connections come from consents only:
a form can create any number of them. The bodies differ in what validation and merge
distinguish: the fields they name, a value or its clearing, with or without the n8n
id. In `connection` one partial update, which clears the spreadsheet, and the forms filled
from a listing stand for updates that overlap: the partial one writes back tokens it
loaded, a form also sends an email it was shown earlier. The ids bound creation, the grants bound reconnecting. `CHECK_DEADLOCK FALSE` in
these runs: when ids and grants are used up nothing may be left to do.

In `config` three edits are two that overlap and one that finds what they left; the eight
forms differ in what the handler branches on (a key, the placeholder, none; references
kept, cleared, named, unknown; a spreadsheet or none). Two free ids let two edits create keys.

In `auth` two users and two emails let accounts meet or not; with two slots and the seed
three handlers may stand between a check and a save; three refresh tokens are two
sessions and a renewal. In `editing` three saves of the node credentials are a first
write and two that overlap on it; the node lists hold a node that is mirrored and one
that is not. A removed workflow ends that instance.

**Fairness.** Node resumes every pending handler, the database answers, and a
webhook call ends by an answer or by the client's timeout: weak fairness of each
slot's steps (`RequestStep`, `WorkerStep`). The worker keeps polling: weak fairness
of taking each entry. Nothing is assumed of users. `finish` adds that n8n delivers
a report on every execution; strong fairness there, because the bounded slots of the
model, not the server, may turn a report away for a while. Progress is checked with
one request slot, with the worker running beside it.

The other modules have no liveness property: their handlers wait for nothing but the database and
Google, and a handler left alone ends by itself.

**Findings.** `jobs.controller.ts:57` says a success report restores the workflow's
status. In `restore` two runs of a *Paused* workflow overlap; the first success
restores *Paused* and clears `statusBeforeRun`, the second finds none and
makes the workflow *Active* (`automations.service.ts:416`).

`credentials.service.ts:362` refuses a Google credential with neither an n8n id nor a
token. In `skew` two updates overlap, one clearing the token, one the n8n id. Each is
validated against the document it loaded (`credentials.service.ts:179`) and saves
only its own change: the credential ends with neither.

`credentials.service.ts:189` announces an upsert of the API key, and `updateNodeConfig`
passes it the credential the job refers to (`jobs.service.ts:163`). But that id is read from
the spread copy and is missing unless the form names it. In `rekey` a form with a key is
saved twice: the second save creates a second credential and strands the first.

## What is proved

For every value of the constants that satisfies the named assumptions of `JobRuns`
and `AutomationQueue`:

* `TypeCorrect`: `Spec => []TypeOK` (`JobRunsProofs`). The invariant is `TypeInv`,
  `TypeOK` with what its step needs; there is one lemma per kind of step.
* `RunningNeverRestored`: `Spec => []NeverRestoresRunning`. The property alone is not
  inductive: a handler may save what it loaded before. `RestoreInv` adds that no
  frame holds a document that remembers *Running*; saves then combine two
  harmless documents field by field.
* `RunningAccounted`: `"Running" \notin UserStatuses` and `ExecutionsAreReported`
  (`ReportsPerExecution > 0`) imply `Spec => []RunningIsAccounted`. `AccountInv` says it of
  every workflow; it is preserved because a step that takes an account away hands over another:
  the mark to the handler, the handler to the job it creates, the job to its entry, to whoever
  dispatches it and to n8n, n8n's report to the handler that ends the job, that handler to the
  save which ends *Running* (lemmas `HandOver`, `EndingStep`). A handler that lets go of a job
  before it ended leaves it given up. It rests on `LinkInv` (jobs, entries and frames agree on their
  workflow, ids are given out in order), on `RestoreInv` (the finishing save
  really ends *Running*), on `HoldInv` (the worker's entry is active, and a job about to be
  enqueued has no entry yet and one handler) and on `ReportsInv` (n8n reports no more than it owes).
  The assumptions are needed: `UpdateWorkflowDto` lets a client set *Running* by hand, and
  nothing then ends it; and an execution that n8n may not report on is owed by nobody. The
  theorem does not say that a given-up job is ever cleaned up, and the code does not do it.

* `CompletedAreCounted`: with finitely many request slots, `Spec => []CompletedIsCounted`. The
  inequality is inductive beside `TypeInv` and `LinkInv`: a job becomes *completed* in the step in
  which its handler moves to the increment, and the increment trades that handler for one trigger.

* `CountsAreEarned`: `Spec => []TriggersAreEarned` for finitely many request slots, if n8n reports
  an execution at most once (`ReportsPerExecution <= 1`) and no crash can make the queue dispatch
  a job again (`NeverRedelivers`: `MaxFaults = 0` or no queue). Both are needed: two reports of
  one execution that arrive together both increment, and so do the reports of two executions of one
  job. `OnceInv` says that a job is posted at most once: it is with the queue or with the
  request that created it, the worker holds its entry, and whoever is still to post it
  finds no execution, or the workflow gone, which sends every further attempt back. So each
  success report tells of another job (`SuccessesReported`). `EarnedInv` adds to the counter every
  handler that may still increment it, from the success report on, and compares the sum with the
  successes: a report adds one to both sides (`EarnedGains`), an increment
  trades its handler for one trigger (`EarnedSpends`), every other step leaves both alone.
  Direct triggers stand on the right twice, for their answer and their report.

* `LifecycleImplemented`: `NamedReports` implies `Spec => ImplementsLifecycle`
  (`JobRunsLifecycleProofs`). `NamedReports` says that reports name their job and nothing
  is triggered directly; without it the theorem is false, as said above. The
  invariant is `LifeInv`. `JobLife` relates the document, the entry and
  the executions of each job: at most one execution per delivery, none unless the job
  was started, a waiting entry only if its job is *ready* (not executed since its last delivery,
  not ended before it) or its workflow is gone. `FrameLife` says the same of a handler on the
  way to the webhook, and that what it loaded is not ahead of the document. It
  is inductive because nobody else works on that job: of requests by `OneCarrier`, of the
  queue by `WorkerHolds`. Once a job was executed, the only way back to the queue is a
  worker that threw because the workflow is gone, and every further attempt does so too.
  The proof then shows of every step that it changes the life of one job as an action of
  `RunLifecycle` does, or not at all (`OneStatus`, `Stutters`).
* From it follow `PostedOncePerDelivery`, `CompletedWasReported` and `EndedForGood`
  (`AtMostOnePost`, `CompletedOnlyIfReported`, `EndedStaysEnded`), the last by looking at the
  actions of `RunLifecycle` only.
* `QueuedNeverForgotten`: `NamedReports` implies `Spec => []QueuedJobIsCarried`. `LifeInv`
  excludes that an entry is done while its job is queued; the rest is inductive. A failed entry
  is allowed.
* `FailuresHaveReasons`: `ReportedOnce` implies `Spec => []FailedHasReason`. `ReportedOnce` is
  `NamedReports`, at most one report per execution, and no crash. `ReasonInv` says that a stored text
  and an ended status come together, that what a dispatch loaded has no text yet (its save cannot
  bring one back or leave one out), and that no two reports are about to save one job.

Of the composition with events (`JobEventsProofs`), whose every behaviour is one of `JobRuns`,
so that `TypeInv` and `LinkInv` carry over:

* `EndsAreAnnounced`: `EventsSpec => []EndIsAnnounced`; inductive, since the save that ends a job
  puts the event into the slot of its handler in the same step.
* `StaleEventsAreOverlaps`: `EventsSpec => []StaleOnlyWhenOverlapped`. `CurrentInv` says of every
  job that no handler saved over another's copy that all copies of it, and all events under way,
  show the status it has. Crashes and a failing `queue.add` are left out of `EventsSpec`.

For every value of the constants that satisfies the assumptions of `JobConfig` (`JobConfigProofs`),
with `TypeInv`, which adds what an edit holds at each of its steps:

* `ConfigTypeCorrect`: `Spec => []TypeOK`.
* `RefsExist`: `Spec => []RefsExisted`. `RefsInv` says the same of what edits and the dispatch
  have loaded and of what an edit is about to save; a credential once born stays so (`Kept`).
* `CreatedKeysArrive`: `Spec => []StrayKeysNeedFailure`: an edit names the key it
  created from its creation to the save (`Proper`).
* `EditsDoNotMix`: `Spec => []OneEditWins`.
* `RunWithItsKey`: `Spec => []JobsKeyIsSent`. `KeyInv` says that a credential holds a key it was
  once given, and that an update of its spreadsheet writes such a key back; `DispatchInv` follows
  the dispatch from hydration to the payload. A credential hydration missed stays missing. The
  property, and so the theorem, leaves out dispatches whose hydration failed for another reason.

For every value of the constants that satisfies the assumptions of `CredentialVault`
and `FieldEncryption` (`CredentialVaultProofs`):

* `VaultTypeCorrect`: `Spec => []TypeOK`.
* `RemovedForGood`: `Spec => RemovedStaysRemoved`, an action property: each step that
  writes `vault` writes an id that was not given out or a credential that is present.
* `DisconnectIsComplete`: `Spec => []DisconnectRemovesAll`. The strengthening,
  `DisconnectInv`, says of a running disconnect that each credential it listed is gone,
  or still among its items, or the one it is removing.
* `SecretsSealed`: `Spec => SavedSecretsSealed`, from the lemma `Encryption`:
  `EncryptSensitiveFields` keeps every text, seals every secret, and is undone by
  `DecryptSensitiveFields`. It covers every save that carries data; one of only the label or
  the n8n id leaves a document from before as it is.
* `LastWriteIsShown`: `Spec => StatusShowsLastWrite`, for any updates, those of the n8n id
  included. A callback always sends an access token, so its save leaves a connected
  credential whatever was cleared meanwhile. `RankInv` (no two credentials share a rank) and
  `StatusInv` carry it.
* `RevokedTokensGo`: if no form and no old document holds a token of a later consent,
  `Spec => []RevokedIsNotKept`. `OwnInv` says that each grant has one owner: a
  credential, or the one callback that still carries it (`OneOwner`, `OneCarrier`), that an
  unused grant is nowhere (`FreshInv`), and that a revoked one is only where its credential is
  gone, about to be, or would be had the process not died (`DoomedInv`).
* `TokensStayTogether`: `GrantsComeFromGoogle` (no request body and no document from before
  holds a token of a later consent) implies `Spec => []TokensAgree`. Partial updates and forms
  filled from a masked listing are included; the exception is the property's own, the
  credentials in `retyped`. `AgreeInv` says of the other stored credentials, and of what handlers
  have loaded and send, that a grant stands with its account; a save then replaces all of them or
  none, or leaves them as they were loaded together.
* With one request at a time (`OneAtATime`: at most one slot): `MaskedEditsKeepData`,
  `ReconnectsKeepSheet`, `CredentialsStayUsable` (if the documents from before were valid) and
  `ConnectionsStaySingle` (if no POST creates a connection). `AloneInv` says that a handler's copy
  is the stored document, `SingleInv` that a callback about to create saw no connection. For
  overlapping requests these four are false, as said above.
* `SecretsReadable`: if the data of every POST is readable (assumed in the theorem),
  `Spec => SavedSecretsReadable`. `ReadyInv` says of every frame about to save that what it
  merged can be decrypted: each handler decrypts the list or the document it merges
  into, and throws before it saves if it cannot.

For every value of the constants that satisfies the assumption of `AuthSessions`
(`AuthSessionsProofs`), all of its properties:

* `AuthTypeCorrect`: `Spec => []TypeOK`, from `TypeInv`, which adds what a frame holds at
  each step: the save of tokens has a user, a create has an email.
* `OneAccount`: `Spec => []OneAccountPerEmail`; inductive by itself, since only the two
  creates set an email.
* `SeededAdmin`: `Spec => []SeededStaysAdmin`. `SeedInv` adds that a user whom a seed
  loaded as an admin is still one when it saves: `Written` then leaves the role alone, so
  the stored role must be the right one.
* `SessionsLast`: `Spec => []OnlyLogoutEndsSessions`, inductive on `TypeInv`: what
  `issueTokens` stores accepts every token of its user.
* `SessionsOpened`: `Spec => SessionsNeedPassword`, from `SessionInv`: a refresh about to
  issue tokens loaded an open session, and only registrations, logins and refreshes get
  that far. The comparison of the password in `Login` is not part of the statement.

For every value of the constants that satisfies the assumptions of `WorkflowEditing`
(`WorkflowEditingProofs`):

* `ConfigOfOneUser`: `Spec => []RefsOfOneUser`. `RefsInv` says the same of every config a
  handler holds: one that passed its check names its user's credentials only, and the
  one `updateNodeConfig` merged names those of the config it loaded. It also needs that
  a workflow keeps its owner while handlers hold it.
* `EditingTypeCorrect`: `Spec => []TypeOK`; `MirrorsStayTrue`: `Spec => []MirrorsAgree`;
  `EditsKeepOthers`: `Spec => OthersNodesKept`; `DuplicatesComeFromOverlaps`:
  `Spec => DuplicatesNeedOverlap`. They rest on `EditInv`: a handler loaded this workflow, in an
  earlier version or as it is now, and has the same entries if the version is the same; one that
  sets the UI credentials also sets the entries that mirror them. `SaveKeeps` then
  says what a save leaves of the stored entries, whether Mongoose pushes or replaces: each keeps its
  place and type, and its content unless its type was sent.
* `SaveKeeps` needs what the loop over the entries returns for any number of them
  (`UpsertedGood`). `Upserted` is a recursive function, and the induction is made on the set of
  lengths for which the claim holds: the lemma `Induction` has no operator parameter and follows
  from `WFMin` of the library.

TLC checked each invariant before it was proved. Only model-checked: the liveness properties,
which are out of the prover's reach, and absence of deadlock.

## Not modelled

* **The browser-side store** (`workflow-store.ts`, `use-workflow-store.ts`) imports a data module
  by a path this repository does not have and is not used by the backend.
* **Templates and field definitions** (`workflow-templates.ts`, `data.ts`) are constant tables;
  **configuration, bootstrap and seeds** run once at start-up, apart from the admin seed.
* Of the modelled parts: the callback secret, the URL of the webhook and the fields of the payload other
  than the API key, the consent's signed state, the renaming of `userId` at start-up,
  rooms and their subscriptions.

## Plan

1. Done: the core, the vault, accounts, workflow editing, `RunLifecycle` with its
   refinement, `JobEvents`, `JobConfig`.
2. Left to model: which of several credentials of one type reach the payload
   (`n8n.service.ts:158`), as operators checked over bounded inputs; the signed state of the
   consent.
3. Proofs: every invariant and action property of the passing runs is a theorem. Left: an abstract
   specification of the vault and of editing, as `RunLifecycle` is one of job runs.

## Running

`tlc -config <cfg> <module>.tla`, with these pairs:

| configurations | module |
|---|---|
| `MCFaults`, `MCUnreliable`, `MCFinish`, `MCRestore` | `MCJobRuns` |
| `MCSync` | `MCJobEvents` |
| `MCConfig`, `MCRekey` | `MCJobConfig` |
| `MCConnection`, `MCSequential`, `MCSkew` | `MCCredentialVault` |
| `MCAuth` | `MCAuthSessions` |
| `MCEditing` | `MCWorkflowEditing` |

`MCRestore`, `MCSkew` and `MCRekey` end with the violations described under Findings. The proofs
are checked by `tlapm JobRunsProofs.tla`, `JobRunsRunningProofs.tla`, `JobRunsLifecycleProofs.tla`,
`JobEventsProofs.tla`, `JobConfigProofs.tla`, `CredentialVaultProofs.tla`, `AuthSessionsProofs.tla`
and `WorkflowEditingProofs.tla`.
