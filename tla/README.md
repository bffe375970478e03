# StorageGenie: a TLA+ model of the backend

StorageGenie is a household inventory. A person photographs a thing; an import job reads the
photograph (barcodes, EXIF, an AI model), proposes a candidate, and a reviewer decides whether
the candidate becomes an asset. Assets live in a location tree, carry assertions (claims with
provenance), move through a lifecycle and are merged when they turn out to be the same thing.
The backend is FastAPI over SQLAlchemy over one SQLite file, the frontend a single-page client.

This directory holds the modules that model the parts of the backend where order, overlap and
failure matter, the TLC runs that check them on small instances, and the TLAPS proofs of the
invariants for instances of any size. `PROJECT.json` maps every definition to the lines it
models, lists the runs, the mutants that show each property can fail, the findings, the hazards
and the theorems.

## 1. How the program runs, and what an action is

One uvicorn process serves the API (`backend/Dockerfile` starts one worker). Endpoints written
as plain functions run in a thread pool, each with its own ORM session (`db.py`), so two requests
really do overlap inside one process; `upload_evidence` is a coroutine and is interrupted only where it
awaits. A daily loop started by the lifespan of `server.py` walks reminders beside the requests.

The database is one SQLite file in WAL mode, foreign keys on, a busy timeout of five seconds:

- one writer at a time; a transaction takes the write lock at its first INSERT, UPDATE or
  DELETE and holds it to its commit;
- a SELECT before that first write runs outside any transaction: it sees what is committed and
  holds nothing, so what it returned may be stale at the write;
- sessions have `expire_on_commit=False`: an object a request has loaded is not read again after a commit;
- a flush writes the attributes that differ from what was loaded, and no UPDATE
  names a version or an old value in its WHERE clause.

The scripts under `backend/scripts` that buy scene renders are processes of their own on the same
database; each is started by hand, sends at most a slice of paid calls and leaves a marker file.

So in every module a request is a process with a program counter and the rows it has read, an
action is one transaction or one read that other requests can see past, and a write
changes exactly the columns the request changed. Where a read comes directly before the first
write of a transaction it is taken with it in `ImportJob`; `LocationTree`, `Catalogue`,
`ExpiryTracker`, `Advice` and `ScenePilot`, whose correctness turns on that window, model it as two actions.

## 2. Inventory

| Component (source under `src/backend/app/`) | State | Operations | What is hard | Correct when |
|---|---|---|---|---|
| Import jobs (`services/job_service.py`, `api/v1/jobs.py`) | job, eight persisted steps with outputs | create, run, retry, resume | one loop of many transactions, step rows read once and held, crash between any two, a late request on the same job | steps run once, a failed job can be retried, COMPLETED means committed |
| Candidates and review (`services/candidates.py`, `api/v1/candidates.py`, `api/v1/review_tasks.py`) | candidate state, review tasks, the `committed_assets` map in the review step | accept, edit, hold, reject, split, merge, resolve | decision and commit are separate transactions; all candidates of a job share one review and one commit step | one candidate makes at most one asset, only if approved; a date task follows its item |
| Evidence store (`services/evidence_service.py`, `storage/local_store.py`, `api/v1/evidence.py`) | rows, files on disk, thumbnails, idempotency keys | upload, store a transcript | file before row, two uploads of the same bytes, refused writes, crashes | a row has its file; nothing is left without a row unless the process died |
| Locations (`api/v1/locations.py`) | tree, assignments of assets to locations (an asset may have several) | create, patch, delete, assign, unassign | the cycle check and the emptiness check read what another request changes | a forest; only empty locations go |
| Assets and assertions (`services/asset_service.py`, `assertion_service.py`, `lifecycle.py`, `api/v1/assets.py`) | columns, version, accepted assertions, redirects, keys | create, patch with If-Match, archive, merge | checks on a loaded row, writes by id | column and accepted assertion agree; statuses follow the table; redirects end; no update is lost (it is, when two patches overlap: section 7) |
| AI extraction and provider ledger (`services/providers/reader.py`, `schemas.py`, `router.py`, `opencode_go.py`) | provider_calls rows, transcripts | one call per image, one repair | what is committed and what is pending when a call fails; the rollback of the step | every call leaves a row; a transcript exists iff the step completed |
| Scene renders (`services/scene/openrouter.py`, `scripts/sg158_render.py` to `sg226_bulk_scene.py`) | ledger rows, render evidence, attempt markers, a spend file, links | guarded render, the scripts' plan, send, review and link modes, the write-off of free calls | budget read before the call, row written after it, a death in between; each script proves its bounds from a different reading of the ledger | spend stays under the cap up to the calls no row tells of, a slice sends once, a run stops at a call without a row, every linked render has its row |
| Reminders (`services/reminders/*`, `api/v1/reminders.py`) | one row per asset and day | daily pass, read, dismiss | a batch per household that may fail, restarts in the middle of a pass, a day that passes under it | what is due is reminded once a day, with the narrowest window |
| Expiry tracker and engine (`plugins/*`, `services/expiry_engine.py`, `opened_countdown.py`) | assertion rows in a namespace, date tasks | classify, enter, clear, open, reopen | the previous row is read before the write, an unchanged classification judges the date outside any transaction; clamped months, edges of windows | the rows say the user's last word; an unknown date is asked for; tiers nest, months clamp |
| Planning, chat, analytics (`services/planning`, `chat`, `analytics`) | suggestions, guardrail events, ledger rows | generate with one repair, confirm, dismiss, respond, correct | what is shown is read before a long call; a suggestion confirmed and dismissed at once | every call has its row; offers stand on what was shown; decided once |
| Enrichment (`api/v1/enrich.py`, `services/enrich/*`) | snapshots, a job, a candidate | press | four transactions, three networks, label facts that change meanwhile | a paid search is charged, the label wins, the best product by a margin is taken |
| Relations, audit, search, saved searches, exports, households, users, settings, taxonomy, shell | single rows or none | | little | |

How they meet: an import job calls signal extraction, the AI step, candidate building, duplicate
detection and the commit in turn; the AI step stores transcripts through the evidence store and
rows in the provider ledger inside the step's transaction; the commit of a candidate creates an
asset, its assertions, evidence links, relations and a location assignment, and moves its open
date task to the asset; the daily pass reads the tracker's dates. Everything shares the one database;
nothing else is shared but the evidence directory.


## 3. Modules

| Module | Models | Parameters | Proofs |
|---|---|---|---|
| `CandidateContract` | what the review promises of a job's candidates, without steps, requests or failures | `Candidates` | |
| `ImportJob` | one job: steps, candidates, decisions, commit | `Sessions`, `Candidates`, `MaxAssets`, `Serialized`, `Crashes`, `Failures` | `ImportJobProofs` |
| `EvidenceStore` | rows, files and keys of uploads and transcripts | `Uploads`, `Digests`, `Texts`, `Households`, `Exts`, `Keys` | `EvidenceStoreProofs` |
| `LocationTree` | the tree, its endpoints and the database's cascade | `Locations`, `Assets`, `Requests` | `LocationTreeProofs` |
| `Catalogue` | create, patch, archive, merge of assets with their assertions | `Assets`, `Names`, `Keys`, `Requests`, `OneAtATime`, `Ids`, `MaxVersion` | `CatalogueProofs` |
| `Extraction` | the AI step of jobs that share a database, and the ledger of its calls | `Jobs`, `Images`, `Runs`, `Answers`, `Crashes`, `FileErrors` | `ExtractionProofs` |
| `SceneRender` | one guarded, paid render: send, capture, record | `Scripts`, `Photos`, `Briefs`, `MaxPosts` | |
| `ScenePilot` | the ten scripts that drive `SceneRender`, the link and the write-off | photos by role, caps of the pilot, `Settings`, `Crashes` | `ScenePilotProofs` |
| `ExpiryEngine` | categories, windows, tiers, buckets and calendar months, as operators | | `ExpiryTrackerProofs` |
| `ExpiryTracker` | the rows of an asset's class, expiry and opened date, their requests, date tasks, the daily pass and its reminders | `Assets`, `Origins`, `SharesEvidence`, `Home`, `Dates`, `Day`, `Observed`, `Sessions`, `LastDay`, `Scopes` | `ExpiryTrackerProofs` |
| `EnrichScoring` | the score of a product and the choice among them, as operators | | `AdviceProofs` |
| `Advice` | presses that ask other programs: planning, insights, chat, enrichment; decisions on suggestions | `Presses`, `Kind`, `Things`, `OffAnswers`, `Deciders`, `Scopes` | `AdviceProofs` |

Composition: `ScenePilot` EXTENDS `SceneRender` and takes its actions as those of a run that is armed;
`ExpiryTracker` and `Advice` EXTEND their operator modules; `ImportJob` instantiates
`CandidateContract` with its own `cand` and `made` and is shown to implement it.

Each `MCx` module names model values, symmetries and scopes for `x`; the configurations are named after
the module and the question. How much overlap and failure a property is about is said in one of three ways:

- boolean parameters choose the environment (`Serialized`, `OneAtATime`, `Crashes`, `Failures`, `FileErrors`);
- a history variable remembers what has happened, so that a property names what it survives: `mishap` of
  `ImportJob` (a crash or a step that raised), `overlapped` of `LocationTree` and `ScenePilot`, `mishaps` of
  `EvidenceStore` (race, refusal, a file that cannot be unlinked, crash), `stray` of `Catalogue` (assets whose request died before
  it registered its key), `raced`, `handled`, `touched` and `wish` of `ExpiryTracker`, `said` and `clashed`
  of `Advice`. So `NeverLeftRunning` holds unless there was a mishap, `SerialForest`
  until two requests overlap, `RowServed` unless a race and a refused write have both happened,
  `LastWordHolds` for the assets nobody raced on;
- a variable set once at the start picks the part of the instance that takes part (`setting` of `ScenePilot`,
  `scope` of `ExpiryTracker` and `Advice`), so that one run covers several small instances
  instead of the product of them.

### How state and actions correspond to the code

**ImportJob.** `job`, `step`, `review`, `commit` are the columns `job.state`, `job_step.state` and
the `output_refs` of the two steps that carry state; `cand`, `kind`, `multi`, `tasks`, `made`,
`assetTask` are the candidate rows, their proposals, their open review tasks and the assets made
from them. A request (`sess`) keeps the rows it read: `run_job` loads every step row once
and, with `expire_on_commit=False`, never again, and `Flush` writes only what the request changed.
The loop of `run_job` is the actions that mark a step RUNNING, execute it and complete or fail
it; accept, edit, hold, reject, split, merge and resolve are one transaction each, and accept
and edit go on to reset the commit step and run the job.

**EvidenceStore.** An upload writes its temporary file, renames it into place, makes thumbnails
and inserts the row; every refusal and the clean-up that follows it is an action, in which a file that cannot be unlinked is
logged and stays (`stuck`).
A transcript is written inside the AI step's transaction and commits or is abandoned with it.

**LocationTree.** A reparent walks the ancestors of the new parent one query at a time
(`walk`), then writes (`move`); a delete counts assignments, counts children and then deletes, and the
database takes what its cascade takes.

**Catalogue.** A patch loads the row, compares If-Match and the transition with what it loaded,
looks up the assertion it supersedes and writes; create and the registration of its key are
two transactions; a merge is a patch of the loser to MERGED with a redirect.

**Extraction.** `call` holds every provider call of a job and the ledger row it left: `pending` is
flushed, `kept` committed without an error, `failed` committed with one. `lock` names the job whose
transaction holds SQLite's write lock. `Ask` is the network call; `Record`, `RecordOdd` and
`RecordError` write its row the three ways `_extract_one` does; `MarkFailed` is
`_mark_calls_failed`; `Escape`, `RowTimesOut` and `StoreFails` are the exceptions `run_job` rolls back.

**SceneRender and ScenePilot.** A post is one HTTP call that left the machine, with what the provider
answered (`reply`), whether the picture became evidence (`image`), its ledger row (`row`) and whether the
script wrote down that it came back (`marked`). `Refuse` and `Send` are the guard of
`render_scene`, `Capture` the answer and the evidence commit, `Record` the ledger commit, and `Break` the
evidence row the database refuses, after which the session cannot write the ledger row either. Each
script has its own `Start` (what `main` proves before it arms), those with several legs a `Prove` per leg, and a
`Mark` for what it writes after `render_scene`. Two of them write in two steps: `sg223` its result (`Note223`) and
then its marker, `sg225` its marker, which says "sent" whatever came back, and then its result (`Note225`). What each script counts is what its SQL counts: `Rendered`,
`BilledSends` and `Billed225` differ as the scripts do. `marker` is the attempt file, `spendFile` the key
usage `sg223` wrote down, `Classify224` the transaction that sets rows without a cost to 0.0. Money is
counted in worst cases of one render.

**ExpiryTracker.** `rows` are the assertion rows of the namespace, oldest first; a field's row is the
newest open one. A request goes through the If-Match check, the checks of its endpoint
(`Decide`; a clear first reads what it has to clear and then which of it is set, `FindCleared`), the read of the row it will supersede (`ReadPrevious`), and the write, which is one commit. A
new classification writes class and expiry in one transaction (`WriteClass`); a repeated one writes
nothing for the class, so the expiry row is judged and read again outside any transaction
(`SameClass`, `WriteAgain`). The pass of `daily.py` reads the due assets of a household and inserts them in one batch,
household by household (`ReadDue`, `InsertDue`, `InsertFails`); `Restart` ends requests and pass where
they are. `task` and `orphan` are the open date tasks of assets and of split origins that share evidence.

**Advice.** A press is a request with its program counter and what it read: `seen` is what was shown to the
model, `cites` what the answer cites, `found` and `jina` what the two shops returned. `RecordError` commits the row of a
failed attempt before the repair; the three `Land` actions commit a good answer's row with its suggestions and
event; `StoreOff`, `StoreJina`, `Charge` and `Propose` are the four commits of an enrichment. Confirm and
dismiss are two actions (`Look`, `Decide`).

## 4. Runs

Runs marked ✗ end in a counterexample: they check what a docstring, comment or document of the
repository says, and the code does otherwise (section 7).

| Run | Checks | Shows |
|---|---|---|
| `ImportJobFaults` | `OneAssetPerCandidate`, `AssetsHaveDecisions`, `CompletedMeansCommitted`, `FailedIsRetryable`, `OneProposalPerImport`, `DateTaskFollowsAsset`, `ApprovedIsCommitted`, `NeverLeftRunning`, `CompletedStepsStay`, `ImplementsContract` | Requests one at a time, each of which may die or fail anywhere: one asset per candidate and only with a decision, COMPLETED means committed, a FAILED job has a step to retry, one proposal per import, completed steps stay, the date task travels with its item, and the candidates implement the contract; until the first mishap every approved candidate becomes an asset or a link, and no request leaves the job RUNNING |
| `ImportJobDoubleAccept` ✗ | `OneAssetPerCandidate` | Two overlapping accepts of one candidate make two assets |
| `EvidenceStore` | `RowServed`, `NoOrphans`, `KeyNamesRow` | Uploads on any number of processes that race, die and are refused: a row has its file unless a race and a refusal have both happened, nothing is left on disk without a row as long as nothing raced, nobody died and every file can be unlinked, a registered key has an answer |
| `LocationTree` | `SerialForest`, `NoOrphans`, `SerialDeletesEmpty`, `WalkAdvances` | Overlapping requests: no row and no assignment names a location that is gone, and an ancestor walk never visits a location twice; until the first overlap the tree is a forest and only empty locations go |
| `LocationTreeCycle` ✗ | `Forest` | Two overlapping moves make a loop |
| `Catalogue` | `ClaimsMatch`, `OneAssetPerKey`, `RedirectsEnd`, `LifecycleLegal` | Requests that do not overlap and may die: column and assertion agree, one asset per key besides those whose request died in between, the lifecycle is followed, redirects end |
| `CatalogueLostUpdate` ✗ | `NoLostUpdate` | Two overlapping patches that name one version both write, the second over the first |
| `Extraction` | `CallsAreDue`, `RepairsFollowRecord`, `TextsIffExtracted`, `CompletedIsLedgered`, `LockReleased` | Two jobs on one database with every fault: calls are due, repairs follow the committed failure, transcripts exist iff the step extracted, a completed step's calls have rows, and the write lock is free again and again |
| `ExtractionLockLost` ✗ | `CallsLedgered` | Two jobs: a lock timeout loses the row of a paid call |
| `ScenePilot` | `SliceClosed`, `NoCallPassedOver`, `CapKept`, `LinkedResolves` | Groups of the scripts, one after another or two at once, on credits and on the owner's key, with every answer and a death at every point: a slice sends again only in the ways its marker leaves open, a run stops at a call that has no row, and no marker but `sg225`'s says "sent" of one, the cap holds up to the untold calls, a linked render has its row |
| `ExpiryTracker` | `LastWordHolds`, `UnknownIsAsked`, `DueIsReminded` | Two requests on one asset, and one request beside the daily pass on two households: the rows say the user's last word, an unknown date is asked for, what is due is reminded once a day with the narrowest window |
| `Advice` | `AdviceLedgered`, `DecidedOnce`, `Grounded` | Presses of every kind beside each other while the household changes and requests die: what left is in the ledger, and what is offered stands on it and on what was shown |

### Bounds, and why they are enough

- `ImportJob`, `Catalogue`, `LocationTree`: two requests where requests overlap, since every race here is a stale
  read of one against a write of the other. Three candidates are an origin and the two children of
  its split; `MaxAssets = 2` is one more than the invariant allows; the double accept needs one candidate only.
- `EvidenceStore`: two uploads of one content and one transcript, two households of which one has no row, one
  key: an upload races the same path or, through the unknown household, another path of the same content. Two contents, which
  share nothing but the mishaps, are left to the theorems.
- `LocationTree`: three locations reach every loop two moves can make and a chain under the one deleted.
- `Catalogue`: two assets make a merge and, were a MERGED winner allowed, a loop of redirects; `Ids = {1, 2, 3}`
  leaves a free identifier for the next assertion of a field; `MaxVersion = 3` is create, change and change again.
- `Extraction`: two images give "the image before" and a pending row to lose, two jobs a lock holder and a
  loser. One run of a step each: the proofs cover retries.
- `ScenePilot`: five photos, one of them used before the pilot and two of them uploads of active assets, so that
  each script finds the photos it names. One after another, three sends under a cap of two or three (credits) and of two (the
  owner's key): one more send than the tighter cap. Overlapping, two runs and two sends. The groups of
  `MCScenePilot` put together scripts that read what another left: a second script for the same photo, a
  cut-out after its scene, the bulk run after a link, the write-off after refused calls.
- `ExpiryTracker`: the first scope has two requests on one asset, categories with and without expiry and with an
  opened countdown, and five rows (two writes of one field by each request and one more); the second one
  request, two assets in two households and one day more, so that a pass can fail for one household, restart, and run
  again on the next day. One date is seven days ahead, the edge of a window; the other is the first day itself, the last
  on which it is not past, and past on the next.
- `Advice`: one scope per pair of presses that share something: two requests that decide on one
  suggestion; a plan that cites two things; plan and insight beside a chat; an enrichment with every label field; two
  enrichments of one asset with one. Open Food Facts returns the right product, a
  wrong one before it, two too close to tell apart, or a wrong one alone.

Symmetry is declared only where no action or property names a value, and in no run of a liveness
property. Deadlock is checked in `ExpiryTracker` and `Advice`, where some request, pass or change of the household can
always go on; it is not checked elsewhere: a backend without a request is at rest, and bounded counters stop the model.

### Fairness

`FairSpec` of `Extraction` gives weak fairness to what a request does by itself (`Progress`) and to nothing
else: a request that started keeps running, because it is a thread that waits for nothing but the database (which
answers or times out in five seconds) and the provider (which answers or times out in three hundred).
No arrival, retry or decision is fair: users need not come back. `LockReleased` is checked with crashes, since a session
that dies gives its transaction up.

The other things that must come to an end are stated without fairness. The ancestor walk of `LocationTree`
has a ranking argument, `WalkAdvances`: no turn visits a location twice, and there are finitely many. A job comes to
rest because no request returns and leaves it RUNNING (`NeverLeftRunning`).

## 5. Proofs

Every theorem holds for every value of the constants that satisfies the named assumptions of its
module.

| Theorem | States |
|---|---|
| `TypeCorrect` (`ImportJobProofs`) | The type invariant holds for any number of requests and candidates, serialized or not. |
| `SerialInvariant` (`ImportJobProofs`) | When requests on a job do not overlap, the committed_assets map and the commit step's output name exactly the assets that exist, and every snapshot a request holds is current, through crashes, failures and retries. |
| `OneAsset` (`ImportJobProofs`) | When requests on a job do not overlap, no sequence of decisions, retries and crashes makes two assets of one candidate. |
| `NoStepRepeated` (`ImportJobProofs`) | When requests on a job do not overlap, a completed step other than the commit never leaves COMPLETED. |
| `JobImplementsContract` (`ImportJobProofs`) | When requests on a job do not overlap, its candidates implement the review's contract: every step of the job is a step of CandidateContract or changes nothing it sees. |
| `AssetsDecided` (`ImportJobProofs`) | When requests on a job do not overlap, an asset's candidate was decided and is never split or merged away. |
| `OneProposal` (`ImportJobProofs`) | When requests on a job do not overlap, no retry or crash proposes the import twice: only a split makes more candidates. |
| `DateTaskFollows` (`ImportJobProofs`) | When requests on a job do not overlap, no open date task stays on a candidate that became an asset. |
| `CompletedIsCommitted` (`ImportJobProofs`) | When requests on a job do not overlap, a COMPLETED job has every step completed and the decided candidate has its asset or link. |
| `FailedCanRetry` (`ImportJobProofs`) | When requests on a job do not overlap, a FAILED job has a FAILED step that a retry can reset. |
| `ApprovedCommits` (`ImportJobProofs`) | When requests on a job do not overlap and none dies or fails, every approved candidate became an asset or a link by the time no request is under way. |
| `RunsEnd` (`ImportJobProofs`) | When requests on a job do not overlap and none dies or fails, no request returns with the job left RUNNING. |
| `StoreInvariant` (`EvidenceStoreProofs`) | Rows, files, transcripts and uploads fit together for any number of requests, contents, households and server processes, through races, crashes and refused writes; without a race an upload that stores is the only one of its content, which has no row. |
| `EveryRowServed` (`EvidenceStoreProofs`) | A row loses its file only when two uploads raced and a write was refused: neither of them alone, nor any crash, can do it. |
| `NothingLeft` (`EvidenceStoreProofs`) | With no race and no crash, and no file that cannot be unlinked, whatever is refused, every original, thumbnail and temporary file on disk is that of a row or of an upload that is storing it. |
| `KeysNameRows` (`EvidenceStoreProofs`) | A registered idempotency key names a content whose row exists, whatever races, fails or dies. |
| `TreeInvariant` (`LocationTreeProofs`) | Until two requests overlap, the types, the foreign keys, the forest and the loop invariant of the ancestor walk hold, for any number of locations, assets and requests. |
| `AlwaysForest` (`LocationTreeProofs`) | Until two requests overlap no reparent ever closes a loop, in a tree of any size. |
| `OnlyEmptyGo` (`LocationTreeProofs`) | Until two requests overlap a location that goes held no asset and had no child. |
| `KeysAlwaysHold` (`LocationTreeProofs`) | However requests overlap, no row has a parent that is gone and no assignment names a location that is gone. |
| `WalkAlwaysAdvances` (`LocationTreeProofs`) | However the tree changes under it, every turn of the ancestor walk visits a location it had not visited: the ranking argument for its termination. |
| `CatalogueInvariant` (`CatalogueProofs`) | When requests do not overlap, what a request loaded is current when it writes, a redirected asset is MERGED and its winner is a row, for any number of assets, names and keys. |
| `ClaimsAlwaysMatch` (`CatalogueProofs`) | When requests do not overlap, a column that has a value has exactly one accepted assertion, which says that value. |
| `RedirectsAlwaysEnd` (`CatalogueProofs`) | When requests do not overlap, following merge redirects ends, for any number of assets. |
| `LifecycleAlwaysLegal` (`CatalogueProofs`) | When requests do not overlap, a status changes only along the edges of the lifecycle. |
| `KeyMakesOne` (`CatalogueProofs`) | When requests do not overlap, one idempotency key makes one asset, besides those whose request died between the two commits, for any number of keys, assets and crashes. |
| `ColumnsAreClaimed` (`CatalogueProofs`) | However requests overlap or die, a column that has a value has an accepted assertion. |
| `ExtractionInvariant` (`ExtractionProofs`) | The inductive invariant of the AI step, for any jobs that share the database, any number of images and runs and any answers, through lock timeouts, refused files and crashes. |
| `OnlyDueCalls` (`ExtractionProofs`) | No image is sent before the one ahead of it was read, and no repair is asked for a failure that a repair cannot mend. |
| `FailureThenRepair` (`ExtractionProofs`) | A repair call is never made before the row of the failure it repairs is committed. |
| `TextsAreHeard` (`ExtractionProofs`) | A job has transcript rows exactly when its AI step extracted, and they are those of what its last run heard. |
| `CompletedHasRows` (`ExtractionProofs`) | A completed AI step has a committed row for every provider call its run made. |
| `TypesHold` (`ScenePilotProofs`) | The scripts' markers, posts, runs and links keep their types for any photos, settings and number of sends. |
| `LinksAlwaysResolve` (`ScenePilotProofs`) | Whatever the answers, deaths and overlaps, a linked render resolves to the ledger row of its own send. |
| `CallsNeverPassedOver` (`ScenePilotProofs`) | Through any answers, refused evidence, deaths and overlaps, a run that sent a call which has no row sends nothing more, and no marker but sg225's calls it sent. |
| `SliceAlwaysCloses` (`ScenePilotProofs`) | Through any answers, deaths and overlaps, a later run of a script that has sent sends again only after a lost answer its script takes for no send, or when a run of sg217 or sg218 never came back. |
| `CapAlwaysKept` (`ScenePilotProofs`) | While no two runs overlap, what was billed stays within the owner's cap up to the calls no row tells of, the fixed cap of the first scripts and, on the owner's own key, the sends that never read its spend. |
| `TypesHold` (`AdviceProofs`) | Types hold in every reachable state, for any presses, things, answers, deciders and scopes. |
| `AlwaysLedgered` (`AdviceProofs`) | Whatever overlaps and dies, every call that left has its row but for the last of a press under way or dead, and answers, events, suggestions and charges stand on each other. |
| `AlwaysGrounded` (`AdviceProofs`) | Offers refer only to what was shown or stored, and a label's value stands against the web's. |
| `DecidedOnceHolds` (`AdviceProofs`) | With any number of requests, a suggestion nobody clashed over is decided at most once and corrected only when dismissed. |
| `AcceptedIsClear` (`AdviceProofs`) | A product that is good enough and leads every other by the margin is the one taken, however ties rank and whatever the answer's order. |
| `TypesHold` (`ExpiryTrackerProofs`) | Types hold in every reachable state, for any assets, requests, dates and days. |
| `LastWordAlwaysHolds` (`ExpiryTrackerProofs`) | With any number of requests, a field of an asset nobody raced on has one open row, and its date is the one the user chose last. |
| `UnknownAlwaysAsked` (`ExpiryTrackerProofs`) | A date nobody knows has its open task on every path through classification, entry and clearing. |
| `DueAlwaysReminded` (`ExpiryTrackerProofs`) | After a pass, an asset nobody wrote since has a reminder of the day exactly when its date lies in a window, and of the narrowest, whatever requests, restarts and failed households came between. |
| `TierIsNarrowest` (`ExpiryTrackerProofs`) | The first window in ascending order that a date lies in, as tier_for sorts and searches them, is the narrowest of all it lies in, and a date within none is safe or has no tier. |
| `AddedMonthsAreDates` (`ExpiryTrackerProofs`) | Any number of months after any date is a day of the calendar, and the same day of its month where that month has it. |
| `AddedMonthsKeepOrder` (`ExpiryTrackerProofs`) | What was opened later is not over sooner, clamped or not. |

The arguments:

- **ImportJob.** One asset per candidate is not inductive: what prevents a second asset is a map
  in the output of the review step, which a commit reads from a row loaded at the start of its request.
  `SerialInv` adds that the map names exactly the assets made (`CommitRecordExact`), that the
  step that carries it is COMPLETED, so that no run overwrites it, and that what a request
  holds is what the database holds (`SnapshotsCurrent`).
  On it stand three layers, each inductive on the ones before. `CandidatesHold`: what a decision read of its
  candidate is still so when it writes, and a commit finds its approval in the database; with it every
  step is one of `CandidateContract` or a stutter. `JobHolds`: the job's state a request holds is the stored one,
  and a completed review names a candidate, so that COMPLETED is said of a commit. `RunsSmoothly`, as long as
  nothing died or failed: the first run has its review before it and nothing approved, and the run of an
  approval has only the commit before it, of a candidate nothing blocks.
- **EvidenceStore.** Files go in two places: when a race is lost and when a row is refused. A lost race keeps
  the winner's file by comparing paths, and takes nothing a waiting upload needs, because the content has a
  row by then. A refusal compares nothing; it is harmless alone because without a race the upload
  that stores is the only one of its content, which has no row (`OneStores`), and harmless for an unknown household
  because no row has one (`NamesSound`). `PlacedIsThere` carries the file to the row that is about to be
  made. `NothingLeft` and `KeysNameRows` add to it what is on disk for whom, and that a key is
  registered only after its row.
- **LocationTree.** `Forest` says every set of locations has one whose parent is outside. A walk in
  progress has shown something only if it is stated about sets as well: every set that
  holds the new parent and is closed under parents, the moving location excepted, holds the cursor
  (`WalkIsSound`). At the end the cursor is the root, so no closed set exists and the move makes no loop. The two
  theorems about overlap (`KeysAlwaysHold`, `WalkAlwaysAdvances`) rest on the foreign keys and on the walk's own
  set of visited locations alone.
- **Catalogue.** Column and assertion agree because the assertion a request supersedes is the one
  accepted when it writes (`LoadedIsCurrent`), and a redirect never closes a loop because a redirected
  asset is MERGED and cannot be a winner (`RedirectedIsMerged`). `ColumnsAreClaimed` needs no assumption on
  overlap: whichever assertion a late request supersedes, it adds an accepted one.
- **Extraction.** Four of the properties speak of rows a step left; the invariant adds what the
  request still has in its hands: nothing is sent ahead of it (`SentBehind`), every image behind it was
  read (`ReadBehind`), every call behind it has a row (`RowsBehind`), and a row is pending only under the
  lock (`PendingIsLocked`), which is why one job's commit cannot disturb another's. The proof
  restates the invariant of one job's values, with a lemma per kind of step, and lifts it to the state.
- **ScenePilot.** `LinkedResolves` follows from what a run at each program counter knows of its own
  post (`sent`: no row and an answer to come; `stored`: an answer and no row), from no two runs holding
  one post, and from the write-off touching only rows that exist. No overlap is excluded.
  `NoCallPassedOver` rests on `NotOver`: the posts of one run are those that look back on the ledger as it
  was when that run started (`since`), and of a busy run's posts all but the one it holds have their row; so a run sends again
  only over rows, and a call without a row is the last of a run that ended at it.
  `SliceClosed` compares a post with the length of the ledger when a later run began, so its invariant (`Slices`) follows
  the slice through the run: at rest the slice is closed, by its marker or by the ledger that knows the photo, or everything it sent
  is *loose*, an answer its script will not notice; a busy run started when that was so; and what it has sent
  itself carries its mark, while the leg before it is marked pending. `sg219` needs a case of its own: it starts afresh on
  an emptied marker and is barred only at its first leg, when the ledger knows the photo. A step of one script leaves
  every other slice as it was (`Kept`), so there is one lemma per kind of step on one slice.
  `CapKept` is about money that moves in three steps, billed, answered, told. Its invariant (`Covered`) says, as long as
  no two runs overlapped, that the told calls keep the cap with one unit left while a call is out, and that the
  bound an armed run read is still true when it sends, because the others are idle. The guard charges what is told (`ToldIsCharged`), so the
  send takes the last unit at most; what is billed and not told is the allowance the property grants.
- **Advice.** `AdviceInv` gives each press its account: which of its calls have rows at each program counter,
  what its event, suggestions and snapshots say, and that they were written once. A step of one press touches the
  account of no other, so the proof is one lemma per action on one account. `DecidedOnce` follows from the
  number of decisions a request still has to make.
- **ExpiryTracker.** The rows only grow (`Grows`): a row keeps its asset, field and value, and a superseded
  one stays so; hence what a request read is still there, only perhaps no longer open (`RequestsHold`). The
  invariant `AssetsSay` says each field of an asset nobody raced on has at most one open row, whose date is the wish; a
  write of a request that did not race supersedes exactly that row. A lemma per kind of write (`FieldWrite`,
  `SaysAfter`) carries it from one field to the asset. `DueIsReminded` is stated of a finished pass; `ReminderInv` says of
  every moment of it that the reminders of its day are the warnings of their rows, that a household behind the pass has
  nothing left to warn of, and that what the pass holds in its hands is what a household still lacks. It survives a request in the
  middle because a write marks its asset as touched until a pass reads it again, and a restart because a pass starts over from the stored reminders. The engine's theorems are about
  its operators: months from any date clamp into the calendar and keep the order of dates, and the first window
  reached in ascending order, which `tier_for` sorts for, is the narrowest the date lies in: of two windows in order the
  date reaches the second whenever it reaches the first.

What is only model-checked: `LockReleased` of `Extraction`. It is liveness under fairness, outside the
prover's reach. Every other property of a passing run is a
theorem.

## 6. What the models leave out

- **ImportJob**: attempts, timestamps and audit rows; household checks (403, 404); the text of tasks
  and proposals; candidates of other jobs; CANCELLED, which no code assigns; the AI step only
  as a step that succeeds, is skipped or fails (`Extraction` opens it). A read directly before the
  first write of a transaction is taken with it. One catalogue asset stands for all duplicate targets.
- **EvidenceStore**: media validation and the content of files; thumbnails are best effort and have no
  property of their own in a race. A second step that writes the transcript of a step still open is not an action: it
  writes the same file again, and its flush waits for the first step's commit or rollback, so it changes nothing before
  that step is over and is an action of the model from then on (or it times out, which is a step that failed).
- **LocationTree**: names, kinds and sort order; one household.
- **Catalogue**: one household, two columns, identifiers of assertions abstract; the two loads of a
  merge are one step; attaching evidence, events, facets, lists and saved searches.
- **Extraction**: the prompt and its version; what a call cost (section 7); one request per job at a time (two
  requests on one job are `ImportJob`'s question); FAILED to RETRYING to RUNNING is one start, and a start
  that times out changes nothing; transcripts of different images are distinct; a call that is never sent because the key
  is missing counts as one that failed; a writer gives up only while the lock's holder waits for the
  provider; the retention purge of old bodies.
- **SceneRender, ScenePilot**: prompts, pixels and the cut-out's image arithmetic; prices below the worst
  case; the plan, verify and post modes, which write nothing a later run reads; a script is not started
  twice at once (it is started by hand). A render whose bytes are already evidence answers with that row
  (`openrouter.py:652-654`); the model gives each render its own, as two renders do not agree byte for byte. An answer with another
  status than 200 that names a cost has a priced row and no picture, which is the reply `"empty"`. The pilot's rows are told by their
  script, where the code takes those from its decision record's date on (`sg217_render.py:247-263`): the earlier scripts ran before
  that date, and a late run of one of them is a `Blind` send of `CapKept`. The key's limit is one window, without the
  daily or monthly reset a key may have. What `sg226` finds wrong with a photo's bytes, missing or of another digest, is one set (`Stored`).
- **ExpiryTracker**: extension attributes, the lists and orders of the dashboard, confidence and
  provenance of a row; `apply_extraction_result`, which nothing in the application calls. A date is a number of
  days from today in the runs, a day of the calendar in the theorems. What a pass reads of a household, statuses and the
  reminders of the day, is one step: only the pass inserts reminders, and an asset written between the two reads counts as
  written since.
- **Advice**: the text of answers, prices, prompt budgets; the values of the statistics and of
  labels; tokens and edit distance are inputs of the score, and scores are exact where the code rounds in floating
  point; an exception the handlers do not expect ends the request where it is, as a death does; `synthesize.py`, which nothing in the application calls.
- **Not modelled**: relations (one row under a UNIQUE constraint), audit rows (they hold whenever their
  transaction does), full text search (SQL triggers), saved searches, exports, settings, health, households and
  users (single rows), the taxonomy (a static table), the application shell (routing), the frontend (its
  requests are those the modules admit), migrations, evaluation and the scripts that run once by hand and spend nothing.

Seen in the code and stated by no property: an enrichment that dies after its first commit leaves a COMPLETED job
without a candidate (`enrich.py:223`); identifiers are read from superseded rows too (`enrich.py:88`); a margin of exactly .15 is
refused when rounding is against it (`scoring.py:199`); a batch read takes an older row where the single read gives
up (`analytics/service.py:201`); the loser of a race with another extension removes the winner's thumbnails
(`evidence_service.py:172`); a late read brings back a dismissed reminder (`reminders.py:97`); a saved search
checks its name and inserts in two steps (`assets.py:609`); a crash between the provider's answer and its row
loses the row (`reader.py:359`), as in any ledger written after the call.

## 7. Findings

The runs marked ✗ in section 4 are the findings, each quoted with its line in `PROJECT.json`: the double
accept, the overwritten patch, the loop in the tree and the ledger row lost to the lock. Two patterns are behind them: a row loaded
by one request and written after another's commit, and a transaction held open across a network call.

The same models show more of the first pattern when their parameters or histories are changed:

- `ImportJob` with `Serialized = FALSE`: overlapping accepts of the two children of a split reset one
  commit step, and the job may be COMPLETED with an approved child that has no asset; two overlapping `/run`
  requests both build a candidate (`OneProposalPerImport`), and a late entry leaves a job RUNNING (`NeverLeftRunning`).
- `Catalogue` with `OneAtATime = FALSE`: a stale transition is written (`LifecycleLegal`), two assertions of one
  column are left accepted (`ClaimsMatch`; that one is left is `ColumnsAreClaimed`), two creates with one key both create (`OneAssetPerKey`). With three
  assets merges chain redirects (A into B, then B into C) although the docstring of
  `merge_asset_redirect` excludes chains; they still end (`RedirectsEnd`).
- `LocationTree` without `~overlapped`: a delete takes a child or an assignment it did not count.
- `EvidenceStore` without the histories in `RowServed`: a refused loser of a race removes the file of the winner's row. It takes
  two server processes, and the deployment has one.
- `Extraction`: a JSON body with parts of other types escapes the adapter's handlers and leaves no row
  (`CallsLedgered` with `"misshapen"` among the answers).
- `ExpiryTracker` without `raced`: two writers of one field leave two open rows, and a clear or a new date
  supersedes only the newest; a repeated classification writes its guess over a date entered meanwhile.
- `Advice` without `clashed`: a suggestion is confirmed and dismissed, and its correction stands beside a
  confirmed suggestion.
- `ScenePilot` without `Untold` in `CapKept`: a call that is billed and has no row is not charged, and the next send exceeds the
  cap. The other exceptions are named in the properties too: `sg217` and `sg218` write `post_sent = false`
  before the send, so a run that dies may send again; four scripts take a lost answer for no send; scripts
  before `sg219` never read the owner's own spend.

Two disagreements between comments and code are told here and checked by no run:

- A body that fails the schema in the adapter is rewrapped as a new error (`reader.py:360-363`) that carries nothing of the
  body's usage, so the row of a billed call says 0.0; the comments give a returned body its
  real cost (`reader.py:283-286`) and keep 0.0 for failures "before a completed 200 body" (`reader.py:317-318`). Four lines decide it and no
  order of steps, so costs are left out of `Extraction`.
- "billed-but-unledgered cannot occur" (`openrouter.py:721-724`): it does when the database refuses the evidence row
  (`Break`), because the handler does not roll the session back, and when the run dies between the POST and the row. `CapKept`
  counts these calls, and `NoCallPassedOver` checks what the code does keep, that no run goes on over one.

Observed while reading: `POST /jobs` with one idempotency key twice at once
answers 500 from the UNIQUE constraint; a job whose candidates are all rejected or merged stays in
AWAITING_REVIEW; splitting leaves an `identifier_collision` task open on the origin; any non-empty payload
resolves a date task, so the date stays unknown and nobody is asked (`handled` of `ExpiryTracker`); the settings
override of the model is global to the process; `README.md` of the repository still describes a monthly
cap (`SG_MONTHLY_CAP`) that the provider code no longer enforces.

## 8. Plan

Built, in this order because each is the ground of the next: `ImportJob` with its
contract, `EvidenceStore`, `LocationTree`, `Catalogue`, `Extraction`; then `SceneRender` with `ScenePilot`,
`ExpiryEngine` with `ExpiryTracker`, `EnrichScoring` with `Advice`.

Left, models first: `ImportPipeline`, composing `ImportJob` and `Extraction` (what a retried AI step leaves for
candidate building); saved searches and relations beside `Catalogue`; the lists of the dashboard over
`ExpiryTracker`'s rows. Of the properties that runs check, none but liveness is left to prove; proofs come
with the next models, and with invariants that would say what overlapping runs of the scene scripts may spend.

## 9. Running it

`tlc -config ImportJobFaults.cfg MCImportJob` checks one run, `tlapm ImportJobProofs.tla` one module of
proofs; `PROJECT.json` names the module of every run.
