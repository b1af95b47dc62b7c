# Formal models of fluent-api

fluent-api is the server of a Bible translation platform: a TypeScript (Hono, Drizzle, Postgres)
API with pg-boss workers. This directory holds TLA+ modules of its core logic, the TLC
configurations that check them on small instances and proofs that TLAPS checks for all instances.
Every definition is translated from the code; `PROJECT.json` says which lines each one stands for,
which properties each run checks, and which mutation of the model breaks each property.

Run `tlc -config X.cfg M` and `tlapm M.tla` in this directory.

## The system

| component | state | operations | what makes it hard | module |
|---|---|---|---|---|
| verse audio (`domains/verse-audio`) | recordings, takes, version tokens, conflicts | upload, resolve, delete, retention sweep | offline clients race; a handler is a chain of statements, each a compare-and-swap of its own | `VerseAudio`, `VerseAudioCoverage` |
| audio storage (`lib/audio-storage`, reclaim) | storage rows, objects in a bucket | claim, PUT, reference, reclaim | Postgres and the bucket share no transaction | `AudioStorage` |
| assistant (`domains/assistant`) | generations in flight, leases, admitted users, stored answers | turn, briefing, disconnect, shutdown | steps between awaits interleave; one generation serves many clients | `AssistantGeneration` |
| chapter assignments, workflow stages | assignments, histories, stages of a project | claim, update, submit, bulk assign, reset, removal of users, stage edits | some writers lock the project, others a row; decisions on rows read earlier | `ChapterWorkflow` |
| the feed of a device (`domains/users`, `bible-texts`) | assignments with stamps, the cursor of a client | full and incremental reads beside writers | a stamp is taken before its commit, the cursor after the read | `AssignmentFeed` |
| translated verses, AI suggestions, `workers/ai-trigger` | drafts, activation of a language family, jobs | save, import, queueing, worker | a crossing that must be claimed once; jobs sent after a commit | `AiActivation` |
| AI pericope suggestions | titles, usage, the set of pericopes | queue, make, save, show, accept | five reads of a request while all they read may change | `PericopeHeadings` |
| projects, milestones, USFM import, ingestion | projects, milestones, books, imports, jobs | create, move, delete, ingest, materialize, recover | retries, dead letters, partial failure; no key holds over a project | `ImportPipeline` |
| USFM export (`domains/usfm`, `lib/blob-storage`) | jobs, attempts, objects, signed URLs | export, send, download, sweep | an expired job whose handler runs on | `UsfmExport` |
| USFM conversion (`lib/usfm-*`) | verses, files | import, export | two sets of rules that must be inverse | `UsfmConversion` |
| queues and processes (`lib/queue`, `lib/dead-letter-queues`, `index.ts`, `worker.ts`) | queues, policies, pg-boss instances, readiness | boot, converge, migrate, shut down | a stop in the middle of a start; two processes at once | `QueueLifecycle` |
| organizations, users, roles, invitations | grants, accounts, identities | give, change, revoke, invite, delete | authorised on grants read before; several stores | `Memberships` |
| permissions, policies, route guards, project creation | grants, the way of a chapter, projects | every guarded route of a project and a chapter | rules spread over nine files | `AccessRules` |
| sessions, settings, editor state, presence, rate limit | sessions, JSON columns, editors, buckets | authenticate, switch, patch, heartbeat, throttle | last writer, clocks, a table at its limit | `Sessions`, `Preferences`, `EditorPresence`, `RateLimiter` |
| catalogue, DBL sync | languages, Bibles, books, watermarks | sync job, curation, incremental reads | a client must not skip a row that commits late | `CatalogueSync` |
| translation resources, YouVersion | pages, workers, answers | gather | ceilings, throttling, budgets | `ContentFetch` |
| source and playback audio | Bibles, licences, recordings, local verses | play, source, reference, manifest | reads one after the other beside curators | `SourceMedia` |

Routes authorise from rows they have read, services run transactions over repositories, jobs go
to pg-boss (some inside the transaction, some after its commit), workers write the same tables,
and the assistant, the audio store, the exports and the catalogue reach services that share no
transaction with Postgres. What can go wrong, at its line, is the `hazards` list of `PROJECT.json`.

## Modules

A component has one module: its tables and the local variables of its requests are variables, a
handler is a chain of actions, one for each statement or stretch between two awaits that can see
what others do, and its properties stand at the end. `READ COMMITTED` is modelled by what it does:
a statement reads what is committed when it begins, an `UPDATE` waits for the row and looks at it
again, `now()` is the begin of the transaction. Rows that nothing else can see yet are written at
the commit. External services (the bucket, pg-boss, BetterAuth, the engine, Aquifer, DBL,
usfm-grammar) are modelled by how the code uses them: they answer, fail or stay silent.

`AudioUnitContract` is what clients of verse audio may rely on, in six actions: the selection
changes only with the token, the token only grows, a conflict ends by a resolve, flags touch
nothing else. `VerseAudio` implements it (`KeepsContract`).

### Suites

`MC*` modules give the components instances. Two of them hold many components: `MCServer`
(safety) and `MCAnswered` (liveness). The components in a suite share no variable that both use:
`component` is chosen at first and never changes, a behaviour moves that component by its own
`Next` and the variables of the others rest at 0. So the suite's behaviours are the union of the
components' behaviours, and an invariant `component = "x" => X!Inv` is exactly the component's.
`request`, `job`, `now`, `project` and some others are variables of whichever moves. The instances
are `INSTANCE ... WITH` definitions, so modules keep constants of their own.

### Abstractions

*Verse audio.* A request is deleted together with the transaction that decides it. The conflict of
`insertTake` and its second lookup are one step, and the transaction of a first upload is one step.
`baseVersionToken` is the Boolean "absent or matches the snapshot". Takes are ordered by id, as
`newestTake` does by time. The retention window passes only while no request is being served. A
pericope with a missing bound is `NoRef`. Audio bytes are their content hash. Resolves start on
units in conflict: elsewhere they change nothing. `surfaced` is a history variable.

*Audio storage.* One unit, one key per content hash; selection is a spontaneous step (its protocol is
`VerseAudio`). The sweep and the deletion of a take reclaim in the same way and are one action.
`deletedAt` is never set by the code and is not kept. An aborted PUT does not land later.

*Assistant.* Deltas are left out: an event is the terminal one. A query of the cache may fail for any
reason, after it committed too; an upsert that was given up may commit at any time later
(`LateWrite`). Another process may store an answer (`OtherWrite`) at any time.
`finally(release)` of a briefing runs in the same step as its removal (only microtasks lie between).

*Chapters.* One project. What follows the last lock of a transaction is one step with its commit.
A transaction whose callback answers `err()` commits what it has written, except in
`runInTransaction`. Renaming stages, snapshots, the AI flag and its jobs, `submittedTime` and the
history of assigned users are left out. A removal (`RemoveMember`, which is the change to an observer
too, and `RemoveUser`) clears the chapters of a user with the statements of the code; whether a
chapter has words is open at each look, since they are saved meanwhile, and so is who is a member
afterwards: he may be added again. The role rows it locks before, which only keep two removals of one
user apart, and the milestones of the project are left out. A stage name is added again after its deletion although
`custom_<nanoid>` names never are, which only adds behaviours.

*Suggestions.* A family is an organization with two languages; drafts are empty, words or imported.
The service answers a trigger at once and stores later, or never. *Titles.* One number of one
chapter in four pericope sets; the worker that makes titles is outside of this repository.

*Imports.* One source Bible; the verses of a book are one value; a transaction shows as its reads
and its commit. Files are accepted: the verdict over them is before. *Exports.* An archive is whole
or not. *Queues.* One queue with its dead letter queue; heartbeats are left out.

*Memberships.* A request is authorised on the grants at its authentication. History rows are left
out. *Access.* The grants and the chapter change in whole steps there, as the rules read one state.

*Catalogue.* Stamps count half milliseconds. A request changes the name of a Bible, whether it has
audio, or what it is linked to; abbreviations, languages and identities are left as they are. *Content.* Pages and items; fields are left out.
*Media.* URLs, sizes and times are left out. *Sessions.* Days pass between requests.
*Feed.* A row stands for the assignments of a project. *Conversion.* Text is words, a paragraph
opens between two; a bridge is its first number, a character style is words, notes are left out.

## Runs

| run | instance | what it shows |
|---|---|---|
| `VerseAudioRaces` | 1 unit, 2 clients, 2 hashes, faults, all operations | the active take belongs to its recording; an unchanged token means an unchanged selection; no upload goes to its read-back or scan with a take nobody is told of; the sweep touches no selection; the contract is kept |
| `AudioStorageLostDeletes` | fair; 2 keys, 2 uploads at a time, 4 in all, half-done reclaims | takes are playable, objects tracked, claims kept; what nothing refers to is deleted in the end |
| `AssistantShared` | 3 requests, 2 users, 1 turn, shutdown | one generation per key, exact admission, "busy" only to whom it is true of, a stored answer is delivered, nothing known to be stored is generated again, a final shutdown |
| `ChapterWorkflowRaces` | 2 chapters (one at its peer check beside a new one, or one deleted beside one assigned), 2 translators and a manager, 2 transactions at a time, 3 in all, a stage to add, one of the translators may be removed | no chapter in a stage that is gone; stages keep their order; what changes the status records it, but a removal; conflicts name a loser and stay between two users, but for a removal; peer checks are by others; a claim answers what is stored |
| `ServerRaces` (`MCServer`) | 23 instances of 18 components | below |
| `Answered` (`MCAnswered`) | fair; 8 components | every request, job, boot and shutdown ends; generations leave the map |
| `VerseAudioInactiveFirst`, `VerseAudioReentry`, `ChapterWorkflowStageEntry`, `ImportMoved`, `MembershipLastManager`, `MembershipRevoked` | smallest instances | disagreements, below |

The properties of `ServerRaces`, each a conjunction over components:

- `OverlapsFound`: the range operators mean verses (`RangesMeanVerses`), and no two clean
  recordings with active takes cover one verse once uploads are answered (`AllSurfaced`).
- `SuggestionsKept`, `ActivationSteps`: a family does not cross its threshold unobserved, the
  crossing is claimed once, the claimant's backfill is complete, a chapter switched on meanwhile
  is noticed, an import replaces no edit; a title is of its whole pericope, its acceptance is
  logged of what was accepted, and what is shown was right when it was asked for.
- `ImportsPlaced`: a book is in one milestone of a project, an import that waits has a job;
  `ProjectSteps`: the deletion of a project without milestones deletes none; only who manages the
  organization makes managers; a failed invitation leaves no identity; submitted work stays.
- `ExportsKept`: what is offered is whole, lasts as promised, its URLs end with it; and what is
  exported and imported again is what was stored, each verse with its own words.
- `LifecycleKept`: ready means converged, failed jobs go to a queue there is, no instance of
  pg-boss is orphaned, one pending job per key.
- `CatalogueKept`, `CatalogueSteps`: an incremental client misses nothing; a partial answer clears
  no recording; a Bible is renamed by the commit of who renames it, or by a lost update of the job,
  below; a device misses no assignment of its projects.
- `AnswersMeanIt`: what is called whole is whole, nothing is empty that only failed; a recording is
  the one selected or one of the text and carries the text's licence.
- `UsersKept`, `UserSteps`: the limit of a window; one editor of a chapter is told nobody came
  before, and stays first; a mobile session lasts while its absences are below 24 days (`MobileStays`;
  longer ones are in the model); a device is moved from its organization by its own switch only, or
  by a lost update, below (`SwitchHolds`); settings are as last written; who may save a verse may use all of the editor, who may
  change a project may manage all of it, lists show what opens; a drafter does not check himself;
  a creator manages what he created, or it is taken back; who claims a chapter can work on it.

Mutants of single modules show that every component takes part in its property.

Bounds. Two requests make every pairwise race; a handler's snapshot is invalidated by one other.
Retries and faults have bounds of their own (`MaxFaults`, `Retries`), and where the product is too
large it is cut in instances: imports run as two concurrent requests without faults (`import`), one
request at a time with a fault (`failing`) and one with two books of two chapters (`books`); the
catalogue runs with two writers (`catalogue`) and with two versions of the library (`sync`); retries
of imports are in `Answered`. Four addresses meet a table of three buckets, pages go beyond the last
that may be asked for, an expired job's second attempt meets its first. Exports and their links last
one tick. Headings are asked for twice, and one of the two books of `books` is ingested from the
start. Times are as large as the longest period plus one. The route rules are asked for every role
in every scope, and in every state of a chapter with one stage after the peer check. Behaviours end
when a bound is used up, hence `CHECK_DEADLOCK FALSE`; symmetry is used for safety only, over
requests.

Fairness (`MCAnswered!Fairness`). Weak for the steps of a request (node runs continuations, Postgres
its statements), for pg-boss polling, retrying and expiring, for the recovery sweep of every
minute, for boot and shutdown steps and the end of an outage, for Postgres's deadlock detector, for
providers that answer or time out; strong for a request that waits for an advisory lock, which
Postgres grants in order. `AudioStorage`: weak for uploads, time and the sweep, strong for a
reclaim's DELETE and commit, which fail at times but not for ever. A shutdown is not assumed.

### Disagreements found

1. `VerseAudioInactiveFirst`: a first upload with `activate=false` fixes the recording's geometry
   without a scan, and activating it later does not scan: two clean recordings with active takes
   cover the same verse.
2. `VerseAudioReentry`: a first upload that re-enters finds its own take as a duplicate and may
   answer without a conflict.
3. `ChapterWorkflowStageEntry`: history rows carry the time their transaction began, so that a
   reset that began before a claim and committed after it is sorted before it.
4. `ImportMoved`: a book that is moved while its import is materialized leaves the verses behind.
5. `MembershipLastManager`: two managers may remove each other, against "always retains at least one".
6. `MembershipRevoked`: the waiting DELETE of a removal does not see the role that was just given.

### Observed beside the runs

What the code does besides, seen while it was modelled, and allowed by the models unless noted.

*Audio.* An upload that outlasts the grace period and a reclaim that rolls back after its DELETE
leave a take without bytes (`SlowUploads` and `LostDeletes` together, which no run and no theorem
allows). Two uploads of the same bytes with different shapes leave the recording with another
coverage than its active take. A request that dies between its swap and the scan
(`verse-audio.upload.service.ts:505`) leaves an overlap nobody flags: `OverlapsFound` has no faults.

*Chapters.* Two submissions permitted on the same status advance two stages after the peer check. A
PATCH that read "not_started" writes "draft" over the stage reached since. A reset and an update
deadlock although the comment of `resetSelectedChapters` sorts its locks "to avoid 40P01". Removing a
member, or making them an observer, sets the status by the words of the chapter in one statement and
writes the history from rows and words it has read in others (`project-users.repository.ts:159`, `:183`,
`:241`), without a lock: a draft submitted or words saved in between leave the last history row
different from the status until the status changes again, which `HistoryFollowsStatus` names as its
one exception (`RemovedFrom`). It and the removal from an organization (`org-users.repository.ts:52`)
take the drafter away and leave `hasClaimConflict` and its loser: the conflict then stands without a
drafter, and the loser may become the drafter by a later claim. `ConflictHasRival` allows a removal
to end the dispute so, and nothing else.

*Assistant.* An upsert that times out or is aborted (`assistant-cache.repository.ts:118-138`: the socket is
destroyed, the statement is not cancelled) may commit later: who missed before it generates the same answer again,
since the producer has left. `NoWastedGeneration` is about the answers whose upsert returned.

*Feed.* A change stamped before the cursor and committed after the read, or in the cursor's own
millisecond, is never conveyed (`syncedAt` is taken after the read; `late` excludes it from
`NothingSkipped`). A book moved or restored stamps no assignment (the cascade of migration 0040
goes first), removed books are never conveyed. With every project excluded the service answers
nothing new without looking for updates. A failed incremental read of texts is answered as
"nothing changed" (`bible-texts.service.ts:47`).

*Suggestions.* Two queries compare the content of a draft with `''` although
`ai-suggestions.repository.ts:168` says "a row with no words is not a draft". The usage of a verse
suggestion is overwritten by a late exposure, that of a title is not. An old title's acceptance
is refused when the current set has its own saved title that starts elsewhere.

*Imports.* A book moved while its ingestion job waits makes it fail until dead-lettered; any texts
of a book count as ingested for a blank project; verses stranded by a move conflict with a later
move back; the failure to enqueue a milestone's ingestion is only logged; `createProject` sends its
job over the queue's own connection before the commit.

*Exports.* `bookIds=[]` has another singleton key than all books. A client that leaves during the
listing is never noticed. A destroyed archive does not end the stream behind it: the handler hangs
until its job expires.

*Processes.* No SIGTERM handler during the worker's startup, no guard against a second signal.
`ensureWorkerQueue` may shorten a retention an operator set between its read and its update.

*Memberships.* Any grant row counts as membership, but `updateOrgUserRole` needs the anchor row,
which POST /users does not make. The deletion of an account leaves its identity, so that a later
invitation fails; a failed invitation may delete an account another organization has granted
meanwhile. *Access.* A manager cannot edit drafts, so a sole user, manager of the personal
organization, cannot draft. POST /chapter-assignments with a drafter leaves "not_started", where
the drafter can do nothing. "A user cannot be both drafter and peer checker"
(`project-chapter-assignments.types.ts:89`) holds for assign-selected only. PATCH takes users of
other organizations. The route of POST /projects looks at `body.orgId ?? body.organization`
(`projects.route.ts:106`), the handler creates in `organization` (`:159`): with both, who may create in one organization
creates in another, and becomes its project's manager there. Two first requests found two organizations; a process that dies between a
project and the role of its creator leaves it without.

*Sessions.* A phone that comes back with less than six of its 60 days left is renewed by BetterAuth
first, to 7 days and with `updatedAt` = now. From then on each use renews it for 7 days before the
check of 24 hours is due, so that it is never extended again, against `authenticate.ts:39`: "If
remaining lifetime < 30 days, extends expiresAt by 60 days". `MobileStays` leaves out what came
back later than 23 days since its last extension (`away`). A request that set out when its session
had no organization writes the user's default over a switch committed since (`authenticate.ts:153`);
`SwitchHolds` names this as its one exception (`had`). Authentication's "at most once per 24h" does
not hold: a session that is not due is looked at on each request, and `updatedAt` is not touched. Presence: two heartbeats of one
millisecond with ids in the other order tell both that somebody came before. A bucket renewed in
place keeps its old turn for eviction.

*Catalogue.* The sync reads the names of the Bibles it has (`dbl-bible-sync.ts:49`; line 84: "reuse its
stored abbreviation and name") and sets them to what it read (`bibles.repository.ts:230`): a rename
committed in between is reverted, which `NamesKept` allows to names given since that read only
(`named`). A Bible whose `hasAudio` a request has set to false loses the recordings of its books in
the same run, although the library has them (`hushed`). A change of a provider resource whose trigger does not see an uncommitted Bible does not
stamp it (`missed` excludes it). Deletions are not conveyed. *Content.* A chapter of which every
passage fails is answered as empty with success and cached. Aquifer's short page counts as the end
by design. *Media.* With DBL down and nothing in Aquifer the answer is an empty list, although its
comment says "Empty items when neither has audio".

*Conversion.* `lh`, `lf`, `tr`, `pb` and heading markers may be stored within a verse
(`USFM_PARAGRAPH_MARKERS`) but are not read back as text (`BODY_TEXT_MARKERS`): the words behind them
are lost on re-import, although `schema.ts:508` says "every paragraph the editor can legitimately
author round-trips"; `Stored` has body markers only. An offset within a word gains a space.

## Proofs

Every theorem is about the `Spec` of its module for all values of the constants that satisfy the
module's named assumptions: any number of requests, users, keys, units, chapters or stages. TLC
evaluates the assumptions on the runs' instances. A module's `Invariance` (or `SpecIInv`) proves its
inductive invariant `IInv`, and the theorems follow from it. The components that `MCServer` composes
state what their theorems assume as a definition (`EditorsOK`, `FeedOK`, `CallsOK`, `SessionsOK`,
`MembersOK`, `PatchesOK`, `HeadingsOK`, `SyncOK`, `LimitsOK`, `AccessOK`, `AskedOK`,
`InitiallyOK`), and `MCServer` assumes it of its instance, so that TLC evaluates it. Their proofs are
sections of four modules, as instances (`Export!`, `Catalogue!`, `Headings!`, `Presence!` and so on); a
section knows nothing of the others, and has an invariant of its own.

**`VerseAudioProofs`**. `IInv` adds to `TypeOK` and `ActiveTakeBelongs` that row ids are below their
sequences (`RecordingIds`, `TakeIds`) and `RequestInv`: the snapshot of a request that is past its
first read is of a recording whose token has only grown, and while the token is the same so is the
selection; a take the request holds, if it is still there, belongs to the recording it was read
from. The invariant is not inductive without it: a swap writes the take looked up some statements
earlier. The proof has two halves: what a request relies on survives any step of the database
(`RequestInvKept` over `DatabaseStep`), and each action is such a step and keeps its own request in
order. From it follow `TypeCorrect`, `ActiveTakesBelong`, `SnapshotsCohere`, `SweepSafe`, and
`RefinesContract`: every step is a step or a stutter of `AudioUnitContract`. Its first lemmas are
about `VerseAudioCoverage`: the range operators agree with sets of verses for all numbers
(`OverlapIffCommonVerse`, `EqualIffSameVerses`, `AcceptedCoversAnchor`).

`LosersAreSurfaced` builds on all of it. A take is `Accounted` for when it was the active one or in
an open conflict at some time (`surfaced`), or its unit stands resolved. Once accounted for it stays
so while it is stored (`AccountedKept`): by the contract a resolved recording stays resolved as long
as there is one, and no step gives a take to another recording (`TakesKept`). It is left that a
request has its take accounted for when it goes to its read-back or scan: the step that takes it
there has just written the take as the active one, or a conflict, or found the recording resolved
(`WriterSurfaces`), or carried on an account (`ReadBackSurfaces`). The uploads that find their bytes
among the takes and answer from there are outside of it: `VerseAudioReentry` shows one that drops
its own take.

**`StorageProofs`**. `IInv` says that ids are fresh, that every take's row and bytes are there
and its row is not being reclaimed, what a claim guarantees at each step of an upload, that only
rows past the grace period are being reclaimed and, when uploads are not slow, that a claimed row
is young (`Guarded`). `TakesPlayable` assumes that slow uploads and half-done reclaims do not occur
together, `NothingLeaks` and `ClaimsKept` that uploads are not slow: hypotheses on two constants
that stand for the size of the grace period and for a rollback after the DELETE.

Its second section is `UsfmExport`: `ArchivesAreKept` is `ExportsKept`, for any number of users, jobs and
handlers. `Owned` follows whose an archive is from the job to its object, to the call that signs and
to the link. That an archive made at the first try is there for its time is `FirstTries`: the file of
a job is nobody's until its first handler has uploaded it (`Unmade`), and from then on all that is
known of it, by object, sweep and link, is of that one upload (`MadeOnce`). This needs that a job that
is active has one handler pg-boss still waits for, and that no late one belongs to a first try
(`Answering`).

**`AssistantGenerationProofs`**. All six properties the run checks. What makes one generation of a
key the only one is the map: a producer that runs is the entry of its key, an entry is of its own
key, and an entry whose producer has ended is marked as retiring (`Entries`). `OneFlight` is the
first half of that; the second makes it inductive, since the entry may be taken away only when its
producer has ended. `NoWaste` needs the leases: a lookup that missed before an answer was stored
still finds the producer of that answer in the map (`MissesKeep`), because the count of leases of a
key is the number of its lookups (`LeasesCounted`, proved with the cardinality theorems), so no
other lookup's end can have been the last. Both hold until the shutdown is over, when nothing is
installed any more (`Stopping`). `Delivery` rests on the steps of a producer (`Production`: it has no
terminal event while it writes, which is when a shutdown leaves it alone) and on what a stored
answer says of its producer (`Stored`). `Admission` is inductive once it is known that a user is
released exactly by the steps that end the generation, and `Busy` needs that those who wait, wait
for a producer that was installed (`Subscription`). Assumptions: the null values are no requests, and
briefings are some of the keys. Nothing is said of how many requests there are.

**`ChapterWorkflowProofs`**. All six properties the run checks. What they rest on is locks (`Locks`:
one transaction holds the project, one a row, and a locked row is not deleted) and what a
transaction may conclude from them at each of its statements (`Phase`): what it has written but not
committed still fits the row it will be committed to (`Pending`, `Fits`), a claim that took a row will
commit it with its own user (`Claimed`). The stages stay without a gap and in their order (`Placed`),
chapters are in stages there are (`Staged`), each fixed or one its history has entered (`Entered`), so
that no edit removes it. Submissions that hold no row need the invariant most: the stage chosen is
written three statements later, and while they hold the project no edit of the stages and no commit
of a status runs beside them, but for removals, which do not lock the project. So the stage is still
the next one, unless a removal has put the chapter back to its start (`Advancing`). `StepShapes`
shows that every step is one of five: a statement that commits nothing, a commit, the commit of a
removal, a deletion, an edit of the stages; five lemmas show that each keeps `IInv`, and the five
action properties are read off the same shapes: `HistoryFollows` and `Conflicts` from what a commit
may write (`MayCommit`) and from what a removal may leave behind (`Fits`). Assumptions: ids are numbers
(resets lock in their order) and finitely many, null values are no users and no rows, who may be
removed is a user, `Updates` and `Selections` are sequences of items that are not empty (the schemas
ask for one and assign-all returns early without chapters), the review stages of a project are
distinct, and a project starts with assignments whose history ends with their status.

**`JobProofs`**. `Lifecycle` is `LifecycleKept`, for any list of queues, any jobs and any
number of outages, restarts and signals. What a process has read of a queue may be stale when it
writes: two processes converge a queue statement by statement, beside an operator who migrates it.
It does no harm because queues change in one direction only (`Grows`): none is removed, a dead
letter queue that keeps its jobs for long is not shortened, failed jobs that go somewhere go on
doing so. `Ensures` says what a process may conclude from what it has read and written, each of it
kept by `Grows` (`EnsuresKept`); `Lives` ties the boot of a process to its instance and its shutdown,
and changes by its own steps only (`ProcessStep`). The index over the pending jobs needs
`JobsIndexed`: all jobs of an exclusive queue have its policy, which is why the migration changes the
jobs it keeps. The hypothesis `InitiallyOK` is about what a database may hold when the first process
starts: dead letter queues that queues name are there, and the jobs of an exclusive queue are those
its index let in. `MCServer` states it of its instance, so TLC evaluates it.

Its second section is `CatalogueSync`. `ClientsSkipNothing`: the order in which transactions end is
not that of their clocks, but a row is stamped after all stamps of its table (`Allocated`), and the
rows a client was told of, with its cursor, are all that were stamped so far (`Sees`), facts and
resources being two reads that others write between. `CatalogueStays` is about the rows:
`AudioListed` (`RecordingsAreListed`; books with audio belong to a Bible that is marked as having
audio, or was marked as silent by a request since, `Shelved`), and the run's `CatalogueSteps`: no
audio is taken away (`AudioKept`), a Bible's name is changed by the commit of the request that
renames it or is written back over a name given since the job read it, and a language's never
changes (`NamesKept`). The invariant says what a job and each request found and that it still is so
when they write, but for what requests have committed since (`FoundRows`, `Answered`).
`NoneIsNoRow` says that the absence of a row is no row; it quantifies over everything, so TLC does
not evaluate it.

**`SuggestionProofs`**. What `MCServer` checks of a family of projects, but for
`NextChapterNoticed`: `ClaimedOnce`, `NoneUnobserved`, `BackfillComplete` and `ImportKeepsEdits`. Saves
count the drafts of the family before and after their own write, neither seeing what others have not
committed. The crossing is one save's own because a save either has found the family past the
threshold before it took the lock, and claims nothing (`before`), or is the one that holds the lock
until its commit (`Saving`): no other save that may claim runs beside it, and one that may not proves
by its `before` that somebody knew already. So `Reached => Informed`, whoever commits first, and
`claims`, which remembers that a claim is not yet followed by a fall below the threshold, is false
when the holder of the lock commits. `BackfillComplete` needs what a save has read while others go on:
what is covered stays covered unless a draft is cleared (`Covers`), so each verse of the two pericopes
is either still in what the save wants to send or covered (`Backfilled`), and the jobs the queue drops
as duplicates are of verses that have a job. Steps that touch drafts, those that move a request, and
those of the worker and the service have a lemma each (`RememberStable` and `OthersKeep`, `RequestStep`,
`WorkerStep`). The hypothesis `AskedOK` says of what is asked that units, verses and chapters are what
they are and that a save does not write what only an import can; TLC evaluates it with `MCServer`.
`NextChapterNoticed` depends on the order of a switch and a save of two requests over their whole life
and on drafts that are blank; it stays with TLC.

Its second section is `PericopeHeadings`: `TitlesAreRight` is `HeadingsKept` and `ShownWasRight`. A
request decides with one choice of the project and acts statements later, when the choice may be
another: `Fits` says that a title to be logged as used is saved and stands before the verse that was
accepted, and that what a request for titles has read held at some moment since it began. `TitlesFit`
gives every accepted verse a title that is marked as used and whose pericope starts there.

**`ImportPipelineProofs`**. `OnePlacement` and `ImportsHaveJobs`, which `MCServer` checks as
`ImportsPlaced`, and `DeletesNoMilestone`. No unique key forbids a book in two milestones of a
project: a transaction reads the placements of its books in one statement and commits, statements
later, what it made of them. That it is still right is the lock of the project (`Locked`, `Held`),
or, for a creation, that nobody else knows of its project and its milestone yet (`Creating`,
`Reserved`): so the placements and the emptiness a request has staged are those of the project it
commits to (`Staged`), for which other commits must be shown to change no project but their own. A
transaction shows as one step per statement, and each commit has a lemma that says where its books
are afterwards (`NewLinks`, `MovedIs`, `LinkedIs`). An import is not forgotten: its book has a job,
a worker or a dead letter, which is queued again or shown (`Cared`), and before its commit the
request has the job in what the commit sends (`Booked`); `Working` follows a job through its
chapters, and says that a book that is neither complete nor failed is still to be done. The
hypothesis `AskedOK` is about what is asked (what the route's schema lets through: files come only
with creations and imports) and about the database at first, which has a book in one milestone of a
project and jobs of milestones there are; TLC evaluates it with `MCServer`. The ids of milestones
are a bound of the model (`Numbered`): nothing is created when they are used up.

**`ServerProofs`**: what the server keeps for its users, in seven sections.

- `EditorPresence` (`OneIsFirst`, `FirstIsKept`). Besides the property for rows (`FirstIsOldest`: who was
  told it came first is not younger than anybody there) it needs what the lock gives a registration:
  the one that holds it is alone between its lock and its commit, and its time is not before that
  of any row it will be compared to (`LockIsLatest`).
- `AssignmentFeed` (`FeedSkipsNothing`). `Asked` says with what a request was made that the device has not
  changed since, `Answers` what the answer under way has of each project: the row as it is, or nothing
  because the device has it or will ask again with its old cursor, or the project has changed in the
  meantime (`late`).
- `Sessions` (`MobileSessionsStay`, `SwitchesHold`). A session that came back within the absence
  the constants leave is long enough for the next such absence, also between the statements of the
  request that extends it (`Lasts`); no request that set out with an organization is about to adopt
  one (`Decided`). `SessionsOK` has the relations of the constants that the code's 60, 30,
  7 and 1 days satisfy.
- `Memberships` (`MembersRules`: `ManagersDecide`, `InvitationWhole`, `SubmittedKept`). A request that is
  past its guard was permitted by the grants it has read (`Authorised`), though these may have been
  revoked since; a chapter refers to accounts there are (`Tables`).
- `Preferences` (`KeysAsLastWritten`). The stored object agrees with the log of the writes key by key, also
  for the request that has seen no row and will insert one (`SettingsInv`).
- `RateLimiter` (`ClientsLimited`). For a client that has not lost its bucket there are a start and a count
  of a window that both its bucket and the times it was admitted fit (`Keeps`). No two buckets are of one
  client (`BucketsTyped`): what a pruning keeps is a sequence without gaps or repetitions, because its
  buckets are counted off in their order (`CountedOff`, with the cardinality theorems).
- `AccessRules` (`PagesAreWhole`, `CreatorsManage`). The nesting of the guards needs of the states only that all
  roles are known (`KnownRoles`); the rest is lemmas about the permissions and the policies, for any
  grants and stages. `CreatorsManage` follows the numbers of the founding requests: they are distinct,
  answers come last, a project stands where its request says until it is taken back, and the rows of
  its creator and of the founder are there when they are due (`FoundingInv`). It assumes `Changing = {}`: nobody
  else changes the grants, since a manager may of course be removed later.

Left to TLC: liveness (`RequestsAnswered`, `EntriesRemoved`, `OrphansReclaimed`) and what depends on
`ENABLED`, out of the prover's reach; `SourceMedia`, `ContentFetch` and `UsfmConversion`, whose properties
are about the values of recursive conversions and groupings and need induction over data;
`NextChapterNoticed`; `OverlapsSurfaced` and `NoSilentLoser`, which hold of restricted instances only; and of
course the six disagreements, which are counterexamples.

## Not modelled

`PROJECT.json` lists every component with its status. Without a module: the progress of chapters and
book details (reads), pericope grouping (a pure function), the retry of database errors, the speech
and repeated-words proxies, prompts and receipts of the assistant, seeds and scripts. Partly: the
statements left out are named in each note.
