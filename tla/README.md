# A verification project for ci-signal

ci-signal reviews one GitLab merge request per CI job: it captures the merge
request, lets an AI session review it in batches, and keeps one bot-owned
Markdown report and a set of labels up to date. Humans answer through the
report: they tick checkboxes and reply below it. This directory holds TLA+
models of the parts where order, failure and concurrency matter, the TLC runs
that check them and the TLAPS proofs of what holds for every size.

## 1. The system

| component | source | state it keeps | operations | talks to |
|---|---|---|---|---|
| report publication | `internal/gitlab/publish.go`, `write.go` | none of its own: the notes of the merge request are its state | `Recover`, `Publish`, `SyncPublishedLabels` | GitLab (one HTTP call at a time), codec |
| report codec | `internal/markdown` | none | `Encode`, `Decode`, `ReconcileControls` | |
| coordinator run | `internal/coordinator/coordinator.go` | the run's working copy of the review state | `Run`, `reviewBatches`, `finish` | all others |
| checkpoints | `coordinator/checkpoint.go` | one file per accepted batch | `load`, `save` | file system |
| fingerprint, freshness | `coordinator/fingerprint.go`, `production.go` | none | `Fingerprint`, `Recheck` | GitLab |
| labels | `gitlab/labels.go`, `labels_sync.go` | the merge request's managed labels | `DeriveLabels`, `SyncLabels` | GitLab |
| GitLab reads | `gitlab/read.go`, `client.go` | endpoints that denied the job token, authors looked up | `FetchContext`, pagination, credential fallback, `ClassifyAuthor` | GitLab |
| validation, reconciliation, verdict | `internal/review` | receipts of accepted submissions, each finding's history | `Accept`, `Reconcile`, `DeriveVerdict` | |
| AI session engine | `internal/copilot` | session state, telemetry, retrieval registry | `Run`, tool calls, callbacks | Copilot runtime |
| repository inventory and tools | `internal/repository`, `coordinator/tools.go` | none (immutable snapshot) | `Inventory`, reads, scans | Git |
| configuration, command line | `internal/config`, `cmd/ci-signal` | none | `load`, exit policy | |

What is hard about it: a CI job may be killed at any point
(`interruptible: true`), GitLab has no conditional update or delete, the
response of a POST can be lost, humans act between any two calls, and the
durable state of a review lives only in the Markdown of the report it is about
to replace. `PROJECT.json` lists the hazards, each at its line.

What makes each component correct:

- **Publication**: whatever is interrupted, the next job finds one report to
  continue from; what a human ticked, unticked or replied is not lost while
  the job could have seen it (but see the conditions in section 3); a job that
  succeeds leaves one report and the label derived from it; when failures cease,
  that state is reached.
- **Coordinator run and checkpoints**: an approval rests on complete sessions
  for exactly the content it is given for, also when it was put together from
  the checkpoints of several runs; a checkpoint raises no finding that the report
  has already; a review larger than one run's budget is completed.
- **Evidence**: no source acknowledges a finding twice or after a human took the
  acknowledgement back; the published history explains the published state.
- **Reading GitLab**: a context is complete although notes come and go while its
  pages are read, holds nothing restricted, and is not taken for changed when
  nobody changed it.
- **Labels**: a job that reports success has left exactly the labels of its
  review, a stale one none, and neither touches labels of others.
- **Worklist and batches**: every unit is in exactly one session, no session
  is larger than allowed or needlessly small, and every session can be
  completed under the host's own validation.
- **AI session**: what a session returns was accepted, is on disk, claims only
  what was retrieved and is not overshadowed by an integrity error; every
  session ends; the budget counts each provider call once.

## 2. Modules

| module | models | state | actions |
|---|---|---|---|
| `ReportChain` | what `publish.go` promises: the reports are a queue | live, sealed and pending reports | `Push`, `Claim`, `Seal`, `LetGo`, `Withdraw`, `Shift` |
| `ReportControls` | `markdown/codec.go`: checkboxes | none (operators) | |
| `Publication` (extends `ReportControls`, implements `ReportChain`) | `publish.go`, `Run` and `finish` as its driver, the verdict label, humans, GitLab | notes, label, the job's `pc` and locals | one per GitLab call |
| `Batching` | `batchUnits`, `assignFindingBatches`, `validateCoverage` | none (operators) | |
| `Worklist` (extends `Batching`) | `Inventory`, `UnitRequirements`, `Run`'s worklist | touched files, the order of unit IDs | `Push` |
| `ReviewRun` (extends `Batching`) | `reviewBatches`, sessions as units of work, checkpoints, `Reconcile`, `DeriveVerdict` | report, checkpoint files, the run's locals | session start, end, run start, publication |
| `FindingLifecycle` (extends `ReportControls`) | `associateSources`, `knownFinding`, transition rules of `validate.go`, the history written by `reconcile.go` and the codec | notes, commit, report, checkpoints, one run | one per human act, start, submission, publication |
| `Session` | `copilot/engine.go`, `telemetry.go`, `registry.go`, `review/accept.go` | one session | one per step of `Run`, of a handler, or event |
| `LabelPlan` | `labels.go`, label rules of `config.go` | none (operators) | |
| `ContextReads` | `read.go`, credentials and caches of `client.go` | notes, the client's caches, a fetch | one per request or page |
| `GitLabClient` (extends `ContextReads`, `LabelPlan`) | a job's conversation with GitLab: capture, rechecks, `SyncPublishedLabels`, `clearStaleManagedLabels` | labels, definitions, whose report is current, the job | one per request |
| `MC...` | small instances for TLC | | |
| `PublicationProofs`, `DeletionProofs` | theorems about `Publication` | | |
| `BatchingProofs` | lemmas about the operators of `Batching` | | |
| `WorklistProofs`, `ReviewProofs` | theorems about `Worklist` and `ReviewRun`, from `BatchingProofs` | | |
| `LifecycleProofs`, `SessionProofs`, `ClientProofs` | theorems about the module of that name (`FindingLifecycle`, `Session`, `GitLabClient`) | | |

Several modules look at the same program from different distances. `Publication`
takes a review as one step that may change findings as validation allows, and has
every GitLab call on the report as a step; `ReviewRun` has the sessions and
checkpoints as steps, and publication as one; `Session` is the detail of one
`running` batch of `ReviewRun`; `FindingLifecycle` is the detail of what a review
may do to a finding; `GitLabClient` is the detail of capture, recheck and label
synchronisation, with publication as one step.

### ReportChain

To somebody who looks at the merge request the bot's reports are a queue: a job
adds one at the newer end, may withdraw it while it is not published, and takes
reports from the older end, only while the newest is finalised. `Publication`
implements it (`ImplementsReportChain`) with the live notes for `live`, the notes
that carry their own ID for `sealed`, and the successor between POST and
publication for `pending`. A kill at any point is `LetGo`, and an abandoned
successor is taken up with `Claim`. When GitLab applies a POST behind the back of
a later job (`stray`), the promise is void (`Fork`).

### ReportControls

A finding is `absent`, `open`, ticked by a human (`box`) or acknowledged by AI
evidence (`ai`). `Rendered` is the checkbox the codec writes for it; a reader
compares the box it finds with the `LastRenderedCheckbox` of its working copy
(`Baseline`), and only a difference is a click (`ReconcileControls`). The code
refuses to reconcile a report with a working copy that lacks one of its findings
or is of another merge request (`containsFindings`, `codec.go:148`). The model has
no such refusal and so allows more; `FindingsSurvive` shows that no finding is lost
without it.

### Publication

Notes have rising IDs; each report stores its predecessor, generation, bound
note ID, fingerprint, completeness, approval, marks and boxes. `pc` follows the
code: `recover` (`Publisher.Recover`, then the three ways on in
`Coordinator.Run`: `RecoverRepair`, `RecoverRepublish`, `RecoverReview`),
`review`, then `Publisher.Publish` from `fresh1` to `converge`, then
`SyncPublishedLabels`. Every error return ends the run in `failed`; `Fail` is
any other error or a kill, at any step. Folded or left out, with the reason:

- A fingerprint is the pair of the content and the number of human replies:
  replies are human notes, and the fingerprint hashes those; clicks change only
  bot-owned notes, which are excluded.
- The reads of `ensureCleanupSafe` are one step (`Reread`), since reads of
  different notes commute with clicks on the others.
- `finish` publishes whether its `Recheck` succeeds or reports a stale run
  (`HandleStale`), and the publisher checks again itself (`fresh1`), so both are
  one path; a run that published a stale state reports an error where the model
  says `ok`.
- `resumeSuccessor` cannot be reached: the coordinator draws a random
  generation for every publication.
- Report size limits and encoding errors are error returns before the first write,
  a retained source record of doubtful provenance is one at the reread of the
  reports, after the PUT (`validateRetainedSourceRecords` in `ensureCleanupSafe`):
  `Fail` can happen at any of these steps.
- A session of the review validates against the finding as it is
  (`AITransition`). A checkpoint does not: where the state directory outlasts the
  job (`Start` keeps `checkpoints` or finds none), a decision that a job has
  checkpointed at the captured fingerprint may be reconciled again, whatever a human
  has clicked since (`Replays`; `coordinator.go:170`, `:238`). The ghost
  `job.overruled` has the findings whose human acknowledgement a replay has reopened.
- Maintainers deleting the bot's notes are not modelled.

### Batching and Worklist

A worklist is a sequence of units in the order of their IDs, which are hashes:
`Worklist` starts from every order. `Push` touches a file or changes what
extraction makes of it. The code's loops are recursive functions: `Sorting`,
`Grouping` and `Packing` map each number of steps to what the loop has after it, so
that proofs can speak of every step. Only files can be oversized: a declaration as large as
the limit lies in a file that is not taken apart (`ast.go:59`).

### ReviewRun

A run captures a fingerprint and recovers the report; `Start` builds the
batches, gives each the findings of its units, and reuses a checkpoint, starts a
session while the budget lasts, or skips the batch. Sessions run concurrently;
each ends in an accepted submission with a new finding or judgements, saved as
a checkpoint, or fails. `Publish` reconciles the results and derives the verdict.
`persistent` says whether the state directory outlives the job; both are checked.
Each finding has one `home` unit, a submission is about one unit and raises at
most one finding, requirements are left to `Worklist`, acknowledgements to
`FindingLifecycle`, and SIGTERM is `Fail`. `Excluding` has the fingerprints at which
policy excludes files: such content is completely reviewed even if no unit is left.
The ID of a new finding is a digest of the submission it came in
(`accept.go:51`, `stableFindingIDs`), which names every unit of its batch. `raised`
remembers for each ID what it is the digest of: a submission that repeats this word
for word gives the ID out again, in the same run, a later one or another job, and
any other submission has an ID of its own (`IsSubmission`). The ghost
`assessed` remembers which units and findings complete submissions covered, at
which fingerprint.

### FindingLifecycle

One finding, because the rules never relate two of them: its record (how it is
acknowledged and on which sources, its assessment and evidence, its history, the
sources kept with it) and its checkbox. A note source is a note at one revision
(`noteSourceID` hashes body and time of the edit), a code source is the commit. A
note is about the finding when its discussion quotes the title. `Submissions` are
all that `validateSubmission` accepts in the state of the run, with at most one
citation each; `Consumed` are the sources `knownFinding` rules out.
`WithControls` merges clicks at the start and again at publication. Checkpoints
are keyed as in `ReviewRun` and replay a submission without validating it again.

### LabelPlan, ContextReads, GitLabClient

A label is a pair of group and value (`verdict::pass`, `tool-grep`);
`LabelsAssumption` is what `validateLabels` demands of a configuration, and
`Derivable` names the inputs for which `DeriveLabels` is an error. A fetch reads
the merge request, notes, discussions, project labels and authors in this order;
a page is a window into the list as it is when the request arrives, so deletions
and new notes shift it. A request with the job token may be refused (401, 403:
remembered for the endpoint; masked 404: not) and starts over with the API token;
headers may be missing or wrong, and `NextPage` decides as `validatedNextPage`
does. The job fetches three times: at capture, before it sets labels and after.

Assumed of GitLab, none of which the repository can show: notes are listed newest
first and discussions oldest first; a new label takes the place of one of the same
scope; the job token may or may not show restricted notes; a note is restricted
from the start or never. Humans write and delete notes, set labels and define
them, and another job may publish, between any two requests.

### Session

`pc` is where `Engine.Run` stands: `setup` (all calls before `SendAndWait`, one
step), `send`, then the checks in their order. Beside it run the event
collector, up to `MaxCalls` read handlers and one submission handler (they share
a mutex). A read goes through `reading`, `registered` (`RegisterSource`), and
ends with `RecordUnitRetrieval`; a timeout makes it an orphan that goes on. A
submission is validated, installed by a link, synced, and accepted or rejected.
Reads are of whole chunks; other read tools are reads that name no unit;
handlers that go on after `Run` ended are followed only where they write
(`Install`). A result that comes with an error of `runtime.Stop` is a failure for
the coordinator (`RunFails`).

## 3. Runs

| run | instance | question | result |
|---|---|---|---|
| `crash` | 1 finding, no report or one with a tick at first, 2 clicks, 1 reply, 1 change, 1 failure or kill, 3 POSTs; no late POST, every review complete | what is lost when jobs are interrupted anywhere; are the reports a queue | nothing the job could have seen; yes |
| `convergence` | a report whose finding AI has acknowledged, 1 late POST, 1 click, 1 change, 1 failure, 1 partial review, 6 POSTs, state directory lasting or not from job to job | do later jobs settle, is there one chain | yes, unless the late POST lands behind a later job |
| `first_interrupted` | no report at first, 1 failure | the same for the first report | **no**: see findings |
| `detected_click` | 2 clicks, no failure | are detected clicks preserved | **no** |
| `worklist` | 3 files, 2 declarations, 1 package, sessions of 3 | are the batches right | yes |
| `foreign_enclosing` | the same | can every batch be completed | **no** |
| `review` | 3 batches (or 1, or nothing but excluded files), 2 sessions per run, 1 finding, 1 change, 2 failures or partial submissions, 7 submissions, state directory lasting or not | is an approval earned, do runs collide, is the review completed | earned; without a change only by repeated partial sessions; completed |
| `session` | 1 unit, a file of 2 chunks, 2 calls, 2 submissions, 2 usage events, 1 failure | is the result sound, does it end | yes |
| `lost_chunks` | output limit as small as a chunk (the defaults) | is what is registered what the model got | **no** |
| `lifecycle` | 2 notes of one discussion, 2 commits, 1 edit, 2 clicks, 1 failure, 2 submissions, state directory lasting or not | is evidence used once, does the history explain the state, do clicks prevail | yes, the first and last without lasting checkpoints |
| `code_reopening` | the same without clicks and failures | can an acknowledgement for a code change be reopened | **no** |
| `client` | 3 notes and a reply, pages of 1, 2 acts of others, 2 refused or failed requests, 3 mappings, 5 reviews | is the context complete and unrestricted, are the labels exact | yes |

**Why the bounds are enough to be interesting.** `crash` allows one job that
fails anywhere, a second that repairs, and a third that republishes: the three
POSTs are the predecessor, an abandoned successor and its replacement. Two clicks
can undo each other, also within one run. The marks of one finding do not depend
on another's, so one finding shows every combination of click, judgement and
rendering. `crash` has neither late POSTs nor partial reviews: these are in
`convergence`, which starts from a finding AI has acknowledged, so that one partial
review can reopen it, be checkpointed, be followed by a tick, and be replayed.
In `review` three batches against two sessions make the budget bite, and batches of
one unit keep what a submission may be about small; how units are grouped is the
subject of `worklist`. Two partial submissions are the least with which one can
repeat another, and seven submissions are these and two reviews of up to three
batches. The change takes units away or brings them back; with one change no
fingerprint recurs, and what is approved at one that does is a matter of the theorem
`ApprovalCorrect`. Two calls, two chunks and two reads in `session`
are the least in which reads overlap, arrive out of order or leave a gap. Two
submissions in `lifecycle` are an acknowledgement and its reversal, or a second
attempt with the same source after a human's reversal; one note is by a human
and one quotes the title, so that association through a discussion matters. In
`client` pages of one note let every act of others shift the page to come; two
acts are a deletion and an insertion, or a label set and reset; two faults are a
fallback in one fetch and a failed lookup in another.

Deadlock is checked except where the end of a bounded behaviour is legal: the
session runs, the lifecycle runs (bounds spent), and `client` (the job has ended).
When the POST bound is spent, a job that would create a note fails (`OutOfPosts`),
likewise sessions without submissions left; `convergence` and `review` have enough
of both that liveness does not depend on it.

**Fairness.** `Publication` and `ReviewRun` are weakly fair in `RunStep`: a job
takes its next step, and pipelines keep starting jobs. The latter is the
README's own premise (an interrupted replacement is recovered by "the next
run"). Humans, changes and failures owe nothing. `FindingLifecycle` and
`GitLabClient` have safety properties only. `Session` is fair in the steps of
`Run`, in the steps of a submission handler (plain file operations), in the
deadline's timer, and in `SendAndWait` returning once its context is done; the
model and the read tools owe nothing, which is why `Ends` needs the deadline.

**Findings** (details and quotes in `PROJECT.json`):

1. A first publication killed between POST and PUT leaves a report with
   `note_id` 0 that label repair can never match: later runs over the same
   content fail for ever (`first_interrupted`).
2. A click that is detected during cleanup stops that run, but the next run
   deletes the report with the click (`detected_click`).
3. Two oversized files of one package can be batched apart from the package both
   need; the session of the second rejects every submission (`foreign_enclosing`).
4. A finding acknowledged for a code change can never be reopened by AI: the
   rule asks for a source associated with the finding, and only notes ever are
   (`code_reopening`); it has no checkbox either.
5. With the default limits no full chunk of a large source reaches the model,
   though it is registered and counted as retrieved (`lost_chunks`).

Conditions that the properties state, each because the case without it is real:

- `OnlyRepeatsCollide` excepts a partial session that submits word for word what an
  earlier session submitted at the same content: its finding has the ID of one the
  report may have, and `Reconcile` fails (`reconcile.go:79`). A partial checkpoint is
  not loaded, so a later run has another session and is not bound to fail. A
  complete session cannot do this, because it has to judge the finding by its ID and
  no submission can hold its own digest.
- `OnlyRepeatsCollide` is claimed for unchanged content. With a change that is reverted
  and lasting checkpoints, a checkpoint from before the change can raise a finding
  again that the report already has from a session in between, under the same ID;
  `Reconcile` then fails in every later run at that fingerprint.
- `PredecessorClicksCarried` (and `DetectedClicksPreserved`) except a tick that the
  run has overruled by replaying a checkpoint which reopens the finding
  (`job.overruled`). The exception is needed: TLC finds `convergence` violating the
  property without it. A review that is partial because one session failed reopens,
  in another session, a finding AI had acknowledged; a human ticks the finding on the
  report it publishes; the next run, at the same fingerprint and with the state
  directory kept, merges the tick at `Recover` (`coordinator.go:68`), replays the
  reopening over it (`coordinator.go:238`), and at publication takes the tick for
  known (`codec.go:176`), so that the ticked report goes with the tick.
  `src/README.md:115` says "A later human reversal takes precedence over an older AI
  proposal", which the code does not keep here. A replayed acknowledgement loses no
  click: an unticked box differs from what the predecessor rendered, and the
  reconciliation at publication takes it from there once more. In `crash`, where no
  review is partial, nothing is ever overruled.
- `FreshEvidence` and the second part of `ClicksPrevail` are claimed for state
  directories that end with the job (`~persistent`). A checkpoint is found by IDs,
  not by the state of the findings, and is replayed unvalidated: it can reopen a
  finding a human has ticked since, acknowledge one a human has unticked, or use a
  source again.
- `PredecessorClicksCarried` and `ClicksPrevail` except clicks that undo each other.
  `codec.go:171` says that a late human edit to a predecessor's checkbox "wins over a
  successor AI transition based on older evidence", but `ReconcileControls` sees
  only a box that differs from its rendering. A box rendered ticked, unticked
  before a run and ticked again after AI has acknowledged the finding shows no
  click: the report then says `ai`, not `box`.
- `NothingMissed` allows one deletion during a fetch. Deleting a note shifts the
  later pages of one list, and the other list, in the opposite order, still has what
  slipped through; two deletions can hide a note from both.
- `UnrelatedUntouched` counts as the job's own the labels that the configuration
  names and all labels of its scopes and prefixes, whoever has set them.
- `SyncedIsExact`, `SyncedIsCurrent` and `StaleIsCleared` speak of a job nobody has
  disturbed since its last verification: GitLab has no conditional update.

## 4. Theorems

All hold for every value of the constants, from the ASSUMEs of the modules.

- `PublicationProofs!TypeCorrect`. Types need two facts more: the late POSTs are
  finitely many, and `lastId` plus their number never exceeds the POSTs sent, so
  there is always an ID for the note a late POST adds.
- `PublicationProofs!ReplacementCorrect`, `AlwaysRecoverable`. That reports have one
  head is not inductive. `ReplacementInv` adds that the reports are a chain in
  order of note ID, each naming the one before (`Chain`), and, for every phase of
  `Publish`, what the job knows of the notes (`Tracking`): until the POST the
  report it read is the newest; afterwards the notes are those it read and its
  successor; during deletion those still to retire and the successor. `CreateNote`
  then extends the chain at its newer end and `Retire` shortens it at its older
  one, so it is a chain after every step and after an interruption anywhere. A
  POST applied late by GitLab may break this; the ghost `stray` records exactly
  that case and the theorem excludes it, since nothing in the code can prevent it.
- `PublicationProofs!RefinementCorrect`: `Publication` implements `ReportChain`. On
  top of `ReplacementInv` the steps need `SealedInv`: a report comes without its own
  ID, late ones too (else a POST would be a sealed report at once), and from the PUT
  on the successor carries it (else a deletion would be a `Shift` without a sealed
  newest report). A step either leaves the notes and the successor alone (`Quiet`:
  a stutter or `LetGo`) or is the one step of the queue its name suggests.
- `DeletionProofs`: `RepliesCorrect`, `FindingsCorrect`, `ClicksCorrect` and
  `SuccessCorrect`, what a job may delete and when it may report success. They hold
  for forked chains as well; beside `ReplacementInv`, `DeletionInv` says: a
  generation names one note, in GitLab or on its way, and a report knows every
  finding the report it replaces knew (`NotesInv`); the job's draft, and then
  its successor, know all that the reports to be replaced knew, and remember each
  control the current one was rendered with (`KnownInv`); from the PUT on, the
  successor says what the draft says (`WrittenInv`); and what the final reread has
  seen of boxes and replies is still so, except on reports a human has touched
  since, which `raced` records (`SeenInv`). Each deletion of the code then meets its
  conditions. `KnownInv` holds with any checkpoints: a replay can only turn a
  finding `open` or `ai`, and where it turns a human's acknowledgement `open` the
  finding is in `job.overruled`, which `ClicksCorrect` excepts by name.
- `SessionProofs!TypeCorrect`, `BudgetCorrect`: the sum is the number of distinct
  events.
- `SessionProofs!ResultCorrect`, `ReceiptCorrect`, from `SoundInv`: a submission
  past validation claims only retrieved units, and retrieval is never undone;
  between link and acceptance the file holds exactly this submission; after an
  acceptance no handler gets past the first check, so nothing is written again;
  an integrity error at the return of `SendAndWait` stops `Run` at the first check.
- `SessionProofs!RetrievalCorrect`, from `RetrievalInv`: the last chunks counted
  for a unit lead up to the offset it expects next.
- `ReviewProofs!ApprovalCorrect`. The published approval alone is not inductive.
  `ApprovalInv` adds that what a checkpoint or an accepted batch claims is `Sound`
  (a complete one was assessed, at its own fingerprint, with all it judges) and
  that a run has the batches of its fingerprint with every known finding in one of
  them. `assessed` only grows, so soundness survives kills and later runs.
- `ReviewProofs!CollisionsCorrect`: `OnlyRepeatsCollide`. That a checkpoint is not
  found once the report knows its finding is no fact about keys alone: the key names
  the findings of the batch, so the finding must be assigned to this very batch.
  `QuietInv` says so. An ID is the digest of one submission to one batch, which does
  not judge the finding itself, since what is judged was known and had its ID before
  (`RaisedInv`); a known finding is in a unit of the batch that raised it (`Homes`);
  what checkpoints and results raise are digests of just these (`StoredInv`,
  `ResultsInv`). So a result with an ID that is known is of the batch the finding is
  assigned to, and does not judge it; a complete one would have to. No two batches
  of a run share an ID, because they share no unit.
- `ReviewProofs!ReviewTypesCorrect`: checkpoints hold results as sessions submit
  them, so `Reconciled` yields an assessment and a unit for each finding.
- `LifecycleProofs`: `HistoryCorrect`, `SourcesCorrect`, `EvidenceCorrect`,
  `ClicksPrevailCorrect` and `LifeTypesCorrect`, from `LifeInv`. It says of the report
  and of the run's working copy alike that the last moves and judgements of the
  history are the state (`Explained`) and that cited notes are kept (`Kept`), both
  whatever checkpoints are replayed. Where checkpoints end with the job it adds that no
  source is spent twice (`Fresh`, hence `Consumed` rules out exactly what the history
  has used) and that the history ends with a tick if and only if a human's tick is
  the state. `Continues` relates the two copies: the run's history extends the
  report's, and the run remembers the box it was given. The merge at publication
  then meets a box that either differs from what the run remembers, a click, or does
  not, and `ClicksPrevail` is what follows in each case.
- `ClientProofs!DerivedIsManaged`: for every configuration `validateLabels` accepts,
  what a review may put on is recognised as managed later. `SyncedCorrect` and
  `ClearedCorrect` follow: from the verification on, the merge request has exactly
  the desired ones of all managed labels, as long as nobody else acts.
  `UnrelatedCorrect`: an update adds desired labels, which are configured, and takes off
  labels that are managed or share a scope with a desired one.
- `ClientProofs!RestrictedCorrect`, from `FetchInv`: whatever a fetch has found was
  found with the mark its note really has, whichever list, page and credential it
  came by.
- `ClientProofs!ContextComplete`, from `ReadSoFar`, over any number of notes and
  pages. A note's place in a list is the number of notes before it. In the notes,
  newest first, insertions push a note to later places and only a deletion moves it
  forward past the window; so without deletions every note whose place is on a page
  already read has been found (`Covered`). In the discussions, oldest first, a
  new note comes behind all others. With at most one deletion, either it comes before
  the notes are done, and the discussions are read undisturbed, or the notes are
  complete already.
- `ClientProofs!CurrentCorrect`, `QuietCorrect`, from `ContextInv`: a fetch during
  which no note changes has exactly the public notes, by `ContextComplete` and
  `RestrictedCorrect` applied to it, and authors once looked up keep their kind, so two
  such fetches agree.
- `ClientProofs!ClientTypesCorrect`.

- `WorklistProofs`: `EveryUnitCorrect`, `IntegrationCorrect`, `WithinLimitCorrect`,
  `NoCrumbsCorrect`, `AlwaysBatchable` and `WorklistTypesCorrect`. `TypeOK` is
  inductive by itself; what is hard is that the properties follow from it, which is a
  fact about three loops. Each loop gets an invariant, kept by a single step
  (`AppendOne`, `GroupedCollects`, `PutFills`) and carried over all steps by `UpTo`:
  the worklist is what has been seen of the inventory, without repetition; the groups
  so far are disjoint and are exactly the used units (`Collected`); the batches so far
  are within the limit, and no two neighbours fit into one (`Filled`). `BatchesShape`
  joins them. One batch results if and only if all units fit (`OneBatch`): with two
  batches, already the first two hold more units than the limit. The integration unit
  comes last, needs nothing and is needed by nothing (`EndsAlone`), so it is its own
  group and ends the last batch. `ListingShape` shows that what a unit needs is always
  on the worklist, so the error "enclosing unit is absent" (`coordinator.go:376`)
  cannot occur; `AlwaysBatchable` shows the same of the error about too large a group,
  unless a session may have one unit only.

`ReviewProofs` needs that each unit is in a batch, and in one only. Those are lemmas
there (`BatchesCover`, `BatchesApart`), from the same `BatchesShape`; the module assumes
of inventories only that they are sequences.

Only model-checked: liveness (`Converges`, `Completes`, `Ends`), which is out of reach
of the prover. All other properties of the passing runs are theorems. `BatchingProofs`
proves by induction over the steps of a loop, as the absence of a smallest number of
steps that breaks a set of good ones (`Smallest`, `UpTo`), because the library's
induction rules take an operator.

## 5. Not modelled

- Markdown text, legacy formats and marker encoding, hashing, JSON, Git plumbing,
  scans and AST extraction, prompts, diagnostics: input and output without state.
- Parsing of the configuration and the command line, apart from the label rules;
  both are read once and then immutable. The exit policy is a function of the result.
- `internal/copilot/runtime.go`: process management of an external runtime; the
  calls before `SendAndWait` are one step of `Session`.
- The merging of telemetry across batches; `LabelPlan` starts from the events of a
  whole review.
- Guidance files of the project (`materialize.go`, `trustedInputFiles`). They are
  copied once per capture, without any interleaving. Reading them while modelling
  showed an error no model is needed for: `MaterializeGuidance` returns absolute
  file names (`materialize.go:94`, and `analyzer_test.go:162` relies on it), and
  `trustedInputFiles` joins them to the runtime directory once more
  (`production.go:232`), so a head that holds an `AGENTS.md` cannot be captured.
- Maintainers who delete or edit the bot's notes.

Hazards without a property, each with its reason in `PROJECT.json`: clicks on the
new report between POST and PUT (`publish.go:338`); reads counted for a unit by way
of another path (`tools.go:57`); token buckets without an unbounded last one
(`labels.go:133`); guidance files (`production.go:232`).

## 6. Plan

Done: the report's life (`ReportChain`, `Publication`), reviews over several runs
(`ReviewRun`, `Worklist`), evidence (`FindingLifecycle`), one session (`Session`), and
the conversation with GitLab (`ContextReads`, `LabelPlan`, `GitLabClient`), with the
theorems above. Next, in this order:

1. `Session` with several files: what a unit's retrieval consists of.
2. `ReviewRun` with telemetry: a token label counts every session that took part.
