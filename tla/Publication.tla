----------------------------- MODULE Publication -----------------------------
(***************************************************************************)
(* One merge request, its bot-owned report notes and managed label on      *)
(* GitLab, the humans who edit them, and the CI jobs that run ci-signal    *)
(* against it, one after the other: internal/gitlab/publish.go (Publisher) *)
(* driven by internal/coordinator/coordinator.go (Run, finish).            *)
(*                                                                         *)
(* A job is one process.  Every GitLab call it makes is a step of its own, *)
(* so humans act between any two calls, calls fail, responses get lost and *)
(* the job is killed anywhere.  Jobs of one merge request never overlap    *)
(* (resource_group in .gitlab-ci.yml.example), but a POST of a killed job  *)
(* may be applied late.                                                    *)
(***************************************************************************)
EXTENDS ReportControls, FiniteSets

CONSTANTS
  Versions,      \* contents the merge request can have (commits, discussion)
  MaxPosts,      \* bound: POSTs of report notes in a behaviour
  MaxToggles,    \* bound: human clicks on report checkboxes
  MaxReplies,    \* bound: human replies below report notes
  MaxChanges,    \* bound: changes of the merge request's content
  MaxFaults,     \* bound: failed calls and killed jobs
  MaxPartial,    \* bound: reviews that end incomplete
  MaxLate,       \* bound: POSTs applied after their sender gave up
  Seeded         \* marks of the findings in an earlier job's report, or "none"

ASSUME PublicationAssumption ==
  /\ Versions # {}
  /\ MaxPosts \in Nat \ {0}
  /\ \A bound \in {MaxToggles, MaxReplies, MaxChanges, MaxFaults, MaxPartial, MaxLate} :
       bound \in Nat
  /\ Seeded # {} /\ Seeded \subseteq Marks \cup {"none"}

VARIABLES
  alive,         \* note IDs of the bot-owned reports that exist
  report,        \* the report under each note ID
  lastId,        \* the last note ID GitLab has given out
  posts,         \* POSTs sent so far; its value names a publication generation
  inflight,      \* POSTs that GitLab will apply after the sender gave up
  stray,         \* ghost: a late POST forked the chain of reports
  detected,      \* ghost: reports on which a reread met a new click
  label,         \* the managed verdict label of the merge request
  mr,            \* the content of the merge request
  left,          \* what remains of each bound
  pc,            \* where the job is
  job,           \* the job's local variables
  raced,         \* ghost: reports a human touched after the job's last look
  outcome,       \* how the last job ended
  checkpoints    \* decisions on findings that the state directory keeps

notes  == <<alive, report, lastId, posts, inflight, stray>>
hub    == <<notes, detected, checkpoints>>
gitlab == <<hub, label, mr, left>>
vars   == <<hub, label, mr, left, pc, job, raced, outcome>>

NoteIds  == 1 .. MaxPosts
NoNote   == 0
Kinds    == {"toggle", "reply", "change", "fault", "partial", "late"}
Labels   == {"none", "approved", "needs_review"}
Outcomes == {"none", "ok", "failed"}
Phases   == {"idle", "recover", "review", "fresh1", "recover2", "fresh2", "confirm",
             "create", "find", "finalise", "verify", "fresh3", "discard",
             "discardDelete", "late", "lateUpdate", "lateVerify", "inspect",
             "reread", "fresh4", "retire", "converge", "labelVerify", "labelFresh",
             "labelSync", "labelFresh2", "labelConfirm", "labelRecheck", "labelClear"}

(* What Fingerprint hashes: the merge request's content and the human      *)
(* notes; the reports themselves, and clicks on them, are left out of it.  *)
Fingerprint == [version |-> mr, replies |-> left["reply"]]
Prints      == [version : Versions, replies : 0 .. MaxReplies]

Reports == [pred : 0 .. MaxPosts, gen : 0 .. MaxPosts, bound : BOOLEAN, fp : Prints,
            complete : BOOLEAN, approved : BOOLEAN, marks : [Findings -> Marks],
            boxes : [Findings -> Boxes], replied : BOOLEAN]

Drafts == [fp : Prints, complete : BOOLEAN, approved : BOOLEAN,
           marks : [Findings -> Marks], last : [Findings -> Boxes]]

SomePrint == [version |-> CHOOSE v \in Versions : TRUE, replies |-> 0]

NoDraft == [fp |-> SomePrint, complete |-> FALSE, approved |-> FALSE,
            marks |-> NoFindings.marks, last |-> NoFindings.last]

Blank == [pred |-> NoNote, gen |-> 0, bound |-> FALSE, fp |-> SomePrint,
          complete |-> FALSE, approved |-> FALSE, marks |-> NoFindings.marks,
          boxes |-> NoFindings.last, replied |-> FALSE]

NoSeen == [n \in NoteIds |-> NoFindings.last]

NoJob == [cap |-> SomePrint, cur |-> NoNote, sup |-> {}, seen |-> NoSeen,
          draft |-> NoDraft, gen |-> 0, succ |-> NoNote, todo |-> {}, answered |-> {},
          overruled |-> {}]

Jobs == [cap : Prints,                    \* fingerprint of the capture
         cur : 0 .. MaxPosts,             \* the current report recovered
         sup : SUBSET NoteIds,            \* the superseded reports recovered
         seen : [NoteIds -> [Findings -> Boxes]],  \* bodies read for retirement
         draft : Drafts,                  \* the state under construction
         gen : 0 .. MaxPosts,             \* this publication's generation
         succ : 0 .. MaxPosts,            \* the successor's (expected) note ID
         todo : SUBSET NoteIds,           \* reports still to retire
         answered : SUBSET NoteIds,       \* reports whose discussion has a reply
         overruled : SUBSET Findings]     \* ghost: human acknowledgements that a
                                          \* replayed checkpoint has reopened

(* What a checkpoint holds of an accepted submission: at which fingerprint *)
(* it was made and how it changes the acknowledgement of a finding.        *)
Decisions == [fp : Prints, finding : Findings, mark : {"open", "ai"}]

TypeOK ==
  /\ alive \subseteq NoteIds
  /\ report \in [NoteIds -> Reports]
  /\ posts \in 0 .. MaxPosts
  /\ lastId \in 0 .. posts
  /\ inflight \subseteq Reports
  /\ stray \in BOOLEAN
  /\ detected \subseteq NoteIds
  /\ label \in Labels
  /\ mr \in Versions
  /\ left \in [Kinds -> Nat]
  /\ left["reply"] <= MaxReplies
  /\ pc \in Phases
  /\ job \in Jobs
  /\ raced \subseteq NoteIds
  /\ outcome \in Outcomes
  /\ checkpoints \subseteq Decisions

-----------------------------------------------------------------------------
(* The encoded report of a draft.                                          *)
Encode(d, pred, gen, bound) ==
  [pred |-> pred, gen |-> gen, bound |-> bound, fp |-> d.fp, complete |-> d.complete,
   approved |-> d.approved, marks |-> d.marks, boxes |-> RenderedBoxes(d.marks),
   replied |-> FALSE]

(* A body written over an existing note; its discussion stays.             *)
Rewrite(n, d, pred, gen) ==
  [Encode(d, pred, gen, TRUE) EXCEPT !.replied = report[n].replied]

WithControls(d, r) ==
  LET c == ReconcileControls(r, [marks |-> d.marks, last |-> d.last])
  IN [d EXCEPT !.marks = c.marks, !.last = c.last]

DecodedDraft(r) ==
  [fp |-> r.fp, complete |-> r.complete, approved |-> r.approved,
   marks |-> r.marks, last |-> Decoded(r).last]

VerdictLabel(approved) == IF approved THEN "approved" ELSE "needs_review"

(* selectCurrentReport: the heads are the reports no other one names as    *)
(* its predecessor; unrelated heads are a conflict, related ones (several  *)
(* notes of one generation) leave the newest note current.                 *)
Heads == {n \in alive : \A m \in alive : report[m].pred # n}

IsCurrent(c) ==
  \/ c = NoNote /\ alive = {}
  \/ /\ c \in Heads
     /\ \A h \in Heads : /\ h <= c
                         /\ report[h].gen = report[c].gen
                         /\ report[h].pred = report[c].pred

Recovers == \E c \in 0 .. lastId : IsCurrent(c)

(* Mutant: the successor is not left out.                                  *)
RetireesAll == (job.sup \cup {job.cur, job.succ}) \ {NoNote}

(* reportsToRetire: everything recovered that is not the successor.        *)
Retirees == (job.sup \cup {job.cur}) \ {NoNote}

(* Mutant: the predecessor goes first.                                     *)
IsNextCurrentFirst(n) ==
  /\ n \in job.todo
  /\ IF job.cur \in job.todo THEN n = job.cur ELSE \A m \in job.todo : n <= m

(* The order of deletion: superseded reports by rising note ID, then the   *)
(* predecessor.                                                            *)
IsNextToRetire(n) ==
  /\ n \in job.todo
  /\ IF job.todo = {job.cur} THEN n = job.cur
     ELSE n # job.cur /\ \A m \in job.todo \ {job.cur} : n <= m

-----------------------------------------------------------------------------
Spend(kind) ==
  /\ left[kind] > 0
  /\ left' = [left EXCEPT ![kind] = @ - 1]

Goto(from, to) == pc = from /\ pc' = to

(* The process ends and loses its locals.                                  *)
EndRun(result) ==
  /\ pc' = "idle"
  /\ job' = NoJob
  /\ raced' = {}
  /\ outcome' = result

(* The report an earlier job has published.                                *)
SeedReport(mark) ==
  LET marks == [f \in Findings |-> mark]
  IN Encode([fp |-> [version |-> mr, replies |-> MaxReplies], complete |-> TRUE,
             approved |-> FALSE, marks |-> marks, last |-> RenderedBoxes(marks)],
            NoNote, 1, TRUE)

Init ==
  /\ mr \in Versions
  /\ \E mark \in Seeded :
       /\ alive = IF mark = "none" THEN {} ELSE {1}
       /\ report = [n \in NoteIds |-> IF n \in alive THEN SeedReport(mark) ELSE Blank]
  /\ posts = IF alive = {} THEN 0 ELSE 1
  /\ lastId = posts
  /\ inflight = {}
  /\ stray = FALSE
  /\ detected = {}
  /\ label = IF alive = {} THEN "none" ELSE "needs_review"
  /\ left = [k \in Kinds |->
               CASE k = "toggle" -> MaxToggles [] k = "reply" -> MaxReplies
                 [] k = "change" -> MaxChanges [] k = "fault" -> MaxFaults
                 [] k = "partial" -> MaxPartial [] OTHER -> MaxLate]
  /\ pc = "idle"
  /\ job = NoJob
  /\ raced = {}
  /\ outcome = "none"
  /\ checkpoints = {}

-----------------------------------------------------------------------------
(* Humans and GitLab.                                                      *)

(* A click on a rendered checkbox of any visible report.                   *)
Toggle(n, f) ==
  /\ Spend("toggle")
  /\ n \in alive
  /\ report[n].boxes[f] # "nil"
  /\ report' = [report EXCEPT ![n].boxes[f] = IF @ = "off" THEN "on" ELSE "off"]
  /\ raced' = IF pc \in {"fresh4", "retire"} THEN raced \cup {n} ELSE raced
  /\ detected' = {m \in detected : m >= n}
  /\ UNCHANGED <<alive, lastId, posts, inflight, stray, checkpoints, label, mr, pc, job,
                 outcome>>

(* A reply below a report; as a human note it changes the fingerprint.     *)
Reply(n) ==
  /\ Spend("reply")
  /\ n \in alive
  /\ report' = [report EXCEPT ![n].replied = TRUE]
  /\ raced' = IF pc \in {"discardDelete", "reread", "fresh4", "retire"}
                THEN raced \cup {n} ELSE raced
  /\ UNCHANGED <<alive, lastId, posts, inflight, stray, detected, checkpoints, label,
                 mr, pc, job, outcome>>

(* New commits, a new discussion, or one taken back.                       *)
Change ==
  /\ Spend("change")
  /\ mr' \in Versions \ {mr}
  /\ UNCHANGED <<hub, label, pc, job, raced, outcome>>

(* A note comes into being under the next ID.                              *)
AddNote(r) ==
  /\ lastId' = lastId + 1
  /\ alive' = alive \cup {lastId + 1}
  /\ report' = [report EXCEPT ![lastId + 1] = r]

(* A POST of a job that gave up is applied.  It forks the chain when the   *)
(* report it was to replace is not current any more, or when the next job  *)
(* has already confirmed its predecessor and is about to POST.             *)
LandLate ==
  \E r \in inflight :
    /\ AddNote(r)
    /\ inflight' = inflight \ {r}
    /\ stray' = (stray \/ pc = "create" \/ ~IsCurrent(r.pred))
    /\ UNCHANGED <<posts, detected, checkpoints, label, mr, left, pc, job, raced,
                   outcome>>

-----------------------------------------------------------------------------
(* Coordinator.Run up to the decision whether to review.                   *)

(* A job finds what earlier ones checkpointed where its runner keeps the   *)
(* state directory, and nothing where the directory is its own.            *)
Start ==
  /\ Goto("idle", "recover")
  /\ job' = [NoJob EXCEPT !.cap = Fingerprint]
  /\ outcome' = "none"
  /\ checkpoints' \in {checkpoints, {}}
  /\ UNCHANGED <<notes, detected, label, mr, left, raced>>

(* The recovered state with the clicks on its report.                      *)
Recovered(c) ==
  IF c = NoNote THEN NoDraft ELSE WithControls(DecodedDraft(report[c]), report[c])

Reusable(c) == c # NoNote /\ report[c].complete /\ report[c].fp = job.cap

(* Mutant: superseded reports left behind are not noticed.                 *)
UndisturbedAlone(c) == Recovered(c) = DecodedDraft(report[c])

Undisturbed(c) == alive = {c} /\ Recovered(c) = DecodedDraft(report[c])

(* Mutant: an unchanged merge request needs nothing, not even labels.      *)
RecoverRepairDone(c) ==
  /\ pc = "recover"
  /\ IsCurrent(c) /\ Reusable(c) /\ Undisturbed(c)
  /\ EndRun("ok")
  /\ UNCHANGED gitlab

(* Nothing to do but RepairLabels, for the note and generation that the    *)
(* recovered state itself names.                                           *)
RecoverRepair(c) ==
  /\ Goto("recover", "labelVerify")
  /\ IsCurrent(c) /\ Reusable(c) /\ Undisturbed(c)
  /\ job' = [job EXCEPT !.cur = c, !.draft = Recovered(c), !.gen = report[c].gen,
                        !.succ = IF report[c].bound THEN c ELSE NoNote]
  /\ UNCHANGED <<gitlab, raced, outcome>>

(* A reusable review whose clicks or leftovers need a new report.          *)
RecoverRepublish(c) ==
  /\ Goto("recover", "fresh1")
  /\ IsCurrent(c) /\ Reusable(c) /\ ~Undisturbed(c)
  /\ job' = [job EXCEPT !.cur = c, !.draft = Recovered(c)]
  /\ UNCHANGED <<gitlab, raced, outcome>>

RecoverReview(c) ==
  /\ Goto("recover", "review")
  /\ IsCurrent(c) /\ ~Reusable(c)
  /\ job' = [job EXCEPT !.cur = c, !.draft = Recovered(c)]
  /\ UNCHANGED <<gitlab, raced, outcome>>

RecoverConflict ==
  /\ pc = "recover"
  /\ ~Recovers
  /\ EndRun("failed")
  /\ UNCHANGED gitlab

(* Mutant: the review drops findings it does not see again.                *)
AITransitionForgets(before, after) ==
  after \in CASE before = "absent" -> {"absent", "open"}
              [] before = "open"   -> {"absent", "open", "ai"}
              [] before = "ai"     -> {"ai", "open"}
              [] OTHER             -> {"box"}

(* What a session may do to a finding: raise it, acknowledge an open one,  *)
(* reopen one that AI evidence had acknowledged; never a human's mark.     *)
AITransition(before, after) ==
  after \in CASE before = "absent" -> {"absent", "open"}
              [] before = "open"   -> {"open", "ai"}
              [] before = "ai"     -> {"ai", "open"}
              [] OTHER             -> {"box"}

(* A checkpoint made at the captured fingerprint stands for a session of   *)
(* this review: its decision is reconciled as it is, whatever has become   *)
(* of the finding since.                                                   *)
Replays(f, after) ==
  /\ job.draft.marks[f] # "absent"
  /\ [fp |-> job.cap, finding |-> f, mark |-> after] \in checkpoints

(* The acknowledgements that this review changes.                          *)
Decided(marks) ==
  {[fp |-> job.cap, finding |-> f, mark |-> marks[f]] :
     f \in {g \in Findings : job.draft.marks[g] \notin {"absent", marks[g]}}}

(* reviewBatches, Reconcile, DeriveVerdict; then finish, which publishes   *)
(* whether its own recheck succeeds (Publish) or not (HandleStale).  Every *)
(* session of a complete review leaves a checkpoint that can be replayed,  *)
(* and so do some sessions of a partial one; a job killed among its        *)
(* sessions is one killed right after the review.                          *)
Review(marks, complete, approved) ==
  /\ Goto("review", "fresh1")
  /\ \A f \in Findings : \/ AITransition(job.draft.marks[f], marks[f])
                         \/ Replays(f, marks[f])
  /\ approved => complete
  /\ \/ /\ complete
        /\ checkpoints' = checkpoints \cup Decided(marks)
        /\ UNCHANGED left
     \/ /\ ~complete
        /\ \E saved \in SUBSET Decided(marks) : checkpoints' = checkpoints \cup saved
        /\ Spend("partial")
  /\ job' = [job EXCEPT !.draft = [@ EXCEPT !.fp = job.cap, !.complete = complete,
                                            !.approved = approved, !.marks = marks],
                        !.overruled = {f \in Findings : job.draft.marks[f] = "box"
                                                        /\ marks[f] = "open"}]
  /\ UNCHANGED <<notes, detected, label, mr, raced, outcome>>

-----------------------------------------------------------------------------
(* Publisher.Publish.                                                      *)

(* A freshness check passes: the fingerprint is still the captured one.    *)
Fresh(from, to) ==
  /\ Goto(from, to)
  /\ Fingerprint = job.cap
  /\ UNCHANGED <<gitlab, job, raced, outcome>>

(* It fails where nothing has to be undone.                                *)
StaleEnd(from) ==
  /\ pc = from
  /\ Fingerprint # job.cap
  /\ EndRun("failed")
  /\ UNCHANGED gitlab

(* A check that fails after the POST removes the successor again; a failed *)
(* call counts as a failed check.                                          *)
StaleDiscard ==
  /\ Goto("fresh3", "discard")
  /\ \/ Fingerprint # job.cap /\ UNCHANGED left
     \/ Spend("fault")
  /\ UNCHANGED <<hub, label, mr, job, raced, outcome>>

CheckFreshness ==
  \/ Fresh("fresh1", "recover2")
  \/ Fresh("fresh2", "confirm")
  \/ Fresh("fresh3", "late")
  \/ Fresh("fresh4", "retire")
  \/ \E from \in {"fresh1", "fresh2", "fresh4"} : StaleEnd(from)
  \/ StaleDiscard

(* Recover, validateExpectation and the local half of prepareSuccessor.    *)
RecoverAgain ==
  /\ pc = "recover2"
  /\ UNCHANGED gitlab
  /\ IF IsCurrent(job.cur)
       THEN /\ pc' = "fresh2"
            /\ job' = [job EXCEPT !.sup = alive \ {job.cur},
                         !.seen = [n \in NoteIds |-> report[n].boxes],
                         !.draft = IF job.cur = NoNote THEN @
                                   ELSE WithControls(@, report[job.cur])]
            /\ UNCHANGED <<raced, outcome>>
       ELSE EndRun("failed")

(* Mutant: the predecessor is not looked at again.                         *)
ConfirmUnchecked ==
  /\ Goto("confirm", "create")
  /\ UNCHANGED <<gitlab, job, raced, outcome>>

(* sameRecovered: the predecessor is still current just before the POST.   *)
Confirm ==
  /\ pc = "confirm"
  /\ UNCHANGED gitlab
  /\ IF IsCurrent(job.cur)
       THEN pc' = "create" /\ UNCHANGED <<job, raced, outcome>>
       ELSE EndRun("failed")

(* One POST: the new report does not know its own note ID yet.             *)
Send(next) ==
  /\ Goto("create", next)
  /\ posts < MaxPosts
  /\ posts' = posts + 1

Posted == Encode(job.draft, job.cur, posts + 1, FALSE)

CreateNote ==
  /\ Send("finalise")
  /\ AddNote(Posted)
  /\ job' = [job EXCEPT !.gen = posts + 1, !.succ = lastId + 1]
  /\ UNCHANGED <<inflight, stray, detected, checkpoints, label, mr, left, raced, outcome>>

(* The POST reports an error although GitLab applied it, although GitLab   *)
(* will apply it later, or because GitLab did not.                         *)
CreateNoteError ==
  /\ Send("find")
  /\ job' = [job EXCEPT !.gen = posts + 1]
  /\ \/ Spend("fault") /\ AddNote(Posted) /\ UNCHANGED inflight
     \/ Spend("late") /\ inflight' = inflight \cup {Posted}
        /\ UNCHANGED <<alive, report, lastId>>
     \/ Spend("fault") /\ UNCHANGED <<alive, report, lastId, inflight>>
  /\ UNCHANGED <<stray, detected, checkpoints, label, mr, raced, outcome>>

(* Behaviours are followed only up to MaxPosts POSTs.                      *)
OutOfPosts ==
  /\ pc = "create"
  /\ posts = MaxPosts
  /\ EndRun("failed")
  /\ UNCHANGED gitlab

(* findGeneration looks for the note the failed POST may have left.        *)
FindGeneration ==
  /\ pc = "find"
  /\ UNCHANGED gitlab
  /\ LET found == {n \in alive : report[n].gen = job.gen /\ report[n].pred = job.cur}
     IN IF Recovers /\ found # {}
          THEN \E n \in found :
                 /\ \A m \in found : m <= n
                 /\ pc' = "finalise"
                 /\ job' = [job EXCEPT !.succ = n]
                 /\ UNCHANGED <<raced, outcome>>
          ELSE EndRun("failed")

(* UpdateNote writes the body that carries the note's own ID.              *)
Finalise ==
  /\ Goto("finalise", "verify")
  /\ report' = [report EXCEPT ![job.succ] =
                  Rewrite(job.succ, job.draft, job.cur, job.gen)]
  /\ UNCHANGED <<alive, lastId, posts, inflight, stray, detected, checkpoints, label,
                 mr, left, job, raced, outcome>>

(* verifyReport: the note reads back as written, clicks included.          *)
VerifyReport(from, to) ==
  /\ pc = from
  /\ UNCHANGED gitlab
  /\ IF report[job.succ] = Rewrite(job.succ, job.draft, job.cur, job.gen)
       THEN pc' = to /\ UNCHANGED <<job, raced, outcome>>
       ELSE EndRun("failed")

(* Mutant: a first reply is not counted.                                   *)
InspectOffByOne(from, to) ==
  /\ Goto(from, to)
  /\ job' = [job EXCEPT !.answered = {}]
  /\ UNCHANGED <<gitlab, raced, outcome>>

(* ListDiscussions: which reports have been answered.                      *)
Inspect(from, to) ==
  /\ Goto(from, to)
  /\ job' = [job EXCEPT !.answered = {n \in alive : report[n].replied}]
  /\ UNCHANGED <<gitlab, raced, outcome>>

Delete(n) ==
  /\ alive' = alive \ {n}
  /\ report' = [report EXCEPT ![n] = Blank]

Discard ==
  /\ pc = "discardDelete"
  /\ IF job.succ \in job.answered THEN UNCHANGED <<alive, report>> ELSE Delete(job.succ)
  /\ EndRun("failed")
  /\ UNCHANGED <<lastId, posts, inflight, stray, detected, checkpoints, label, mr, left>>

(* Mutant: late clicks are read but not written to the successor.          *)
LateControlsUnwritten ==
  /\ Goto("late", "inspect")
  /\ UNCHANGED <<gitlab, raced, outcome>>
  /\ job' = IF job.cur = NoNote THEN job
            ELSE [job EXCEPT !.draft = WithControls(job.draft, report[job.cur]),
                             !.seen[job.cur] = report[job.cur].boxes]

(* reconcileLateControls rereads the predecessor for clicks made since.    *)
LateControls ==
  /\ pc = "late"
  /\ UNCHANGED <<gitlab, raced, outcome>>
  /\ IF job.cur = NoNote
       THEN pc' = "inspect" /\ UNCHANGED job
       ELSE LET d == WithControls(job.draft, report[job.cur])
            IN /\ pc' = IF d = job.draft THEN "inspect" ELSE "lateUpdate"
               /\ job' = [job EXCEPT !.draft = d,
                            !.seen[job.cur] = report[job.cur].boxes]

LateUpdate ==
  /\ Goto("lateUpdate", "lateVerify")
  /\ report' = [report EXCEPT ![job.succ] =
                  Rewrite(job.succ, job.draft, job.cur, job.gen)]
  /\ UNCHANGED <<alive, lastId, posts, inflight, stray, detected, checkpoints, label,
                 mr, left, job, raced, outcome>>

(* The second half of ensureCleanupSafe rereads the retiring reports: none *)
(* was answered, none shows a click that was not read before.  Reads of    *)
(* different notes commute with what humans do to the others, so they are  *)
(* one step.                                                               *)
ChangedSinceRead == {n \in Retirees : report[n].boxes # job.seen[n]}

Reread ==
  /\ pc = "reread"
  /\ UNCHANGED <<notes, checkpoints, label, mr, left>>
  /\ detected' = detected \cup ChangedSinceRead
  /\ IF Retirees \cap job.answered = {} /\ ChangedSinceRead = {}
       THEN pc' = "fresh4" /\ job' = [job EXCEPT !.todo = Retirees]
            /\ UNCHANGED <<raced, outcome>>
       ELSE EndRun("failed")

(* deleteSuperseded, one DELETE at a time.                                 *)
Retire(n) ==
  /\ pc = "retire"
  /\ IsNextToRetire(n)
  /\ Delete(n)
  /\ job' = [job EXCEPT !.todo = @ \ {n}]
  /\ UNCHANGED <<lastId, posts, inflight, stray, detected, checkpoints, label, mr,
                 left, pc, raced, outcome>>

RetireDone ==
  /\ Goto("retire", "converge")
  /\ job.todo = {}
  /\ UNCHANGED <<gitlab, job, raced, outcome>>

IsPublished == IsCurrent(job.succ) /\ job.succ # NoNote /\ report[job.succ].gen = job.gen

(* verifyOnlyCurrent.                                                      *)
Converge ==
  /\ pc = "converge"
  /\ UNCHANGED gitlab
  /\ IF IsPublished /\ alive = {job.succ}
       THEN pc' = "labelVerify" /\ UNCHANGED <<job, raced, outcome>>
       ELSE EndRun("failed")

-----------------------------------------------------------------------------
(* Publisher.SyncPublishedLabels, after a publication or as RepairLabels.  *)

(* verifyCurrentExpectation.                                               *)
VerifyCurrent(from, to) ==
  /\ pc = from
  /\ UNCHANGED gitlab
  /\ IF IsPublished THEN pc' = to /\ UNCHANGED <<job, raced, outcome>>
                    ELSE EndRun("failed")

SyncLabels ==
  /\ Goto("labelSync", "labelFresh2")
  /\ label' = VerdictLabel(job.draft.approved)
  /\ UNCHANGED <<hub, mr, left, job, raced, outcome>>

(* A stale label is taken off; after the update only while the report is   *)
(* still the expected one.                                                 *)
LabelsStale ==
  /\ \/ Goto("labelFresh", "labelClear")
     \/ Goto("labelFresh2", "labelRecheck")
  /\ \/ Fingerprint # job.cap /\ UNCHANGED left
     \/ Spend("fault")
  /\ UNCHANGED <<hub, label, mr, job, raced, outcome>>

ClearLabels ==
  /\ pc = "labelClear"
  /\ label' = "none"
  /\ EndRun("failed")
  /\ UNCHANGED <<hub, mr, left>>

LabelsDone ==
  /\ pc = "labelConfirm"
  /\ UNCHANGED gitlab
  /\ EndRun(IF IsPublished THEN "ok" ELSE "failed")

SyncPublishedLabels ==
  \/ VerifyCurrent("labelVerify", "labelFresh")
  \/ Fresh("labelFresh", "labelSync")
  \/ SyncLabels
  \/ Fresh("labelFresh2", "labelConfirm")
  \/ LabelsStale
  \/ VerifyCurrent("labelRecheck", "labelClear")
  \/ ClearLabels
  \/ LabelsDone

-----------------------------------------------------------------------------
(* Any call fails where the code only returns the error, or the job is     *)
(* killed; what has been done stays.                                       *)
Fail ==
  /\ pc # "idle"
  /\ Spend("fault")
  /\ EndRun("failed")
  /\ UNCHANGED <<hub, label, mr>>

RunStep ==
  \/ Start
  \/ \E c \in 0 .. lastId : RecoverRepair(c) \/ RecoverRepublish(c) \/ RecoverReview(c)
  \/ RecoverConflict
  \/ \E marks \in [Findings -> Marks], complete, approved \in BOOLEAN :
       Review(marks, complete, approved)
  \/ CheckFreshness
  \/ RecoverAgain
  \/ Confirm
  \/ CreateNote
  \/ OutOfPosts
  \/ FindGeneration
  \/ Finalise
  \/ VerifyReport("verify", "fresh3")
  \/ Inspect("discard", "discardDelete")
  \/ Discard
  \/ LateControls
  \/ LateUpdate
  \/ VerifyReport("lateVerify", "inspect")
  \/ Inspect("inspect", "reread")
  \/ Reread
  \/ \E n \in alive : Retire(n)
  \/ RetireDone
  \/ Converge
  \/ SyncPublishedLabels

FaultStep == CreateNoteError \/ LandLate \/ Fail

HumanStep ==
  \/ \E n \in alive : (\E f \in Findings : Toggle(n, f)) \/ Reply(n)
  \/ Change

Next == RunStep \/ FaultStep \/ HumanStep

Spec == Init /\ [][Next]_vars
-----------------------------------------------------------------------------
(* Properties.                                                             *)

(* However a job was interrupted, the next Recover finds one report to     *)
(* continue from: the reports form one chain whose newest one is its only  *)
(* head, so selectCurrentReport never meets unrelated heads.  Only a POST  *)
(* that GitLab applies behind the back of a later job can fork the chain.  *)
Recoverable ==
  stray \/ alive = {} \/ \E h \in alive : Heads = {h} /\ \A n \in alive : n <= h

(* Why they do: the parts of the inductive invariant behind Recoverable.   *)
(* The reports in order of note ID each name the one before as their       *)
(* predecessor, the oldest one possibly a report that is gone.             *)
Chain ==
  /\ alive = {} \/ \E h \in alive : \A n \in alive : n <= h
  /\ \A n \in alive : (\A m \in alive : m <= n) \/ \E m \in alive : report[m].pred = n
  /\ \A m \in alive :
       /\ report[m].pred < m
       /\ \A n \in alive : n < m => n <= report[m].pred /\ report[m].pred \in alive

Newest(c) ==
  \/ c = NoNote /\ alive = {}
  \/ c \in alive /\ \A n \in alive : n <= c

(* Note k is the one report the job has added to those it has read, and    *)
(* no POST under way can continue the chain from it.                       *)
Succeeds(k) ==
  /\ k \in alive
  /\ alive = Retirees \cup {k}
  /\ report[k].pred = job.cur
  /\ \A n \in Retirees : n < k
  /\ \A r \in inflight : r.pred < k

(* What the job knows of the reports at each point of Publish: those that  *)
(* exist are those it read, plus its successor, minus what it has deleted. *)
Tracking ==
  /\ pc \in {"fresh2", "confirm"} => (Newest(job.cur) => alive = Retirees)
  /\ pc = "create" => Newest(job.cur) /\ alive = Retirees
  /\ pc = "find" =>
       /\ \A n \in Retirees : n <= job.cur
       /\ \/ Newest(job.cur) /\ alive = Retirees
          \/ \E k \in alive : Succeeds(k)
  /\ pc \in {"finalise", "verify", "fresh3", "discard", "discardDelete", "late",
             "lateUpdate", "lateVerify", "inspect", "reread"} =>
       Succeeds(job.succ) /\ \A n \in Retirees : n <= job.cur
  /\ pc \in {"fresh4", "retire"} =>
       /\ job.succ \in alive
       /\ alive = job.todo \cup {job.succ}
       /\ \A n \in job.todo : n < job.succ /\ n <= job.cur
       /\ \A r \in inflight : r.pred < job.succ

(* As long as no late POST has forked the chain, a job replaces reports    *)
(* only at the newer end of the chain and deletes them only at the older   *)
(* one, so whatever the interruption a chain is left.                      *)
ReplacementInv ==
  /\ job.cur <= lastId
  /\ \A n \in alive : n <= lastId
  /\ \A r \in inflight : r.pred <= lastId
  /\ ~stray => Chain /\ Tracking

(* Of every finding the new report says what the box on the old one says.  *)
(* Only where the box is as the old report rendered it may AI have         *)
(* acknowledged the finding: ReconcileControls compares the box with that  *)
(* rendering, and so does not see that it was unticked and ticked again.   *)
(* Only where the review has replayed an older reopening (overruled) may   *)
(* the finding be open although its box is ticked.                         *)
Said(box) == IF box = "on" THEN "box" ELSE "open"

Carried(old, new, overruled) ==
  \A f \in Findings :
    old.boxes[f] # "nil" =>
      \/ new.marks[f] = Said(old.boxes[f])
      \/ new.marks[f] = "ai" /\ old.boxes[f] = Rendered(old.marks[f])
      \/ new.marks[f] = "open" /\ f \in overruled

(* deleteSuperseded deletes the predecessor only when its successor says   *)
(* of every finding what the human's checkbox last said on the             *)
(* predecessor, whenever the clicks fell, whatever the AI proposed in the  *)
(* meantime or a checkpoint repeats of an older acknowledgement, unless    *)
(* the clicks have undone each other (Carried).  Two things lose a click:  *)
(* it came after the final reread, or this run's review replayed a         *)
(* checkpoint that reopens the finding, which reviewBatches reconciles     *)
(* over the acknowledgement merged at Recover.                             *)
PredecessorClicksCarried ==
  [][\A n \in alive \ alive' :
       (pc = "retire" /\ n = report[job.succ].pred /\ n \notin raced)
         => Carried(report[n], report'[job.succ], job.overruled)]_vars

(* A click that stopped a cleanup because the reread met it (README: the   *)
(* publisher narrows that window and preserves detected changes) is in the *)
(* report that stands when its note is deleted by a later job, unless the  *)
(* human has clicked on a newer report since.                              *)
DetectedClicksPreserved ==
  [][\A n \in alive \ alive' :
       (n \in detected /\ pc = "retire" /\ n \notin raced)
         => Carried(report[n], report'[job.succ], job.overruled)]_vars

(* No report below which a human had replied when the job listed the       *)
(* discussions is ever deleted, as superseded or as unpublished successor. *)
RepliesSurvive ==
  [][\A n \in alive \ alive' : report[n].replied => n \in raced]_vars

(* Deleting a report other than the job's own unpublished successor leaves *)
(* a finalised report that still knows every finding of the deleted one.   *)
FindingsSurvive ==
  [][\A n \in (alive \ alive') \ {job.succ} :
       \E m \in alive' :
         /\ report'[m].bound
         /\ \A f \in Findings : report[n].marks[f] # "absent"
                                 => report'[m].marks[f] # "absent"]_vars

(* Nothing is left to do for the next job: one finalised report, and the   *)
(* managed label is the one derived from it.                               *)
Settled ==
  \E n \in alive :
    /\ alive = {n}
    /\ report[n].bound
    /\ label = VerdictLabel(report[n].approved)

(* A job that ends well leaves the merge request settled, its report made  *)
(* from the content the job captured.                                      *)
SuccessSettles ==
  [][outcome' = "ok" /\ outcome # "ok" =>
       Settled' /\ \A n \in alive' : report'[n].fp = job.cap]_vars

(* Once changes, clicks and failures cease, jobs bring the merge request   *)
(* to one current report and its label, and leave it there; a late POST    *)
(* that forks the chain is beyond their repair.                            *)
Converges == <>[](stray \/ Settled)

(* The report the running job has put up and not yet published.            *)
Pending ==
  IF pc \in {"finalise", "verify", "fresh3", "discard", "discardDelete", "late",
             "lateUpdate", "lateVerify", "inspect", "reread"}
    THEN job.succ ELSE NoNote

Promise == INSTANCE ReportChain WITH
  Ids <- NoteIds, live <- alive, sealed <- {n \in alive : report[n].bound},
  pending <- Pending, forked <- stray

(* Whatever is interrupted, lost or late, to an observer the reports are   *)
(* the queue that ReportChain promises.                                    *)
ImplementsReportChain == Promise!Spec

(* Each step of a job is eventually taken, and jobs keep being started by  *)
(* pipelines; humans and failures owe nothing.                             *)
FairSpec == Spec /\ WF_vars(RunStep)
=============================================================================
