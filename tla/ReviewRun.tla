------------------------------ MODULE ReviewRun ------------------------------
(***************************************************************************)
(* One merge request reviewed by successive runs of the coordinator        *)
(* (internal/coordinator/coordinator.go, Run and reviewBatches): the       *)
(* batches of a review, their concurrent AI sessions, the checkpoints they *)
(* leave (checkpoint.go), reconciliation of what they submit               *)
(* (review/reconcile.go), the verdict (review/policy.go), and publication. *)
(*                                                                         *)
(* Publication is one step here, of which module Publication is the        *)
(* detail; a session is one step from its start to its end, of which       *)
(* module Session is the detail.  What acknowledges a finding is the       *)
(* subject of FindingLifecycle: of a finding only its assessment and its   *)
(* unit remain.  A run is killed anywhere and loses all but the published  *)
(* report and, where the state directory outlives the job, its checkpoints.*)
(***************************************************************************)
EXTENDS Batching

CONSTANTS
  Findings,      \* identifiers of the findings a review can raise
  Prints,        \* fingerprints the merge request can have
  Inventory,     \* the sorted units of the merge request at each of them
  Excluding,     \* fingerprints at which policy excludes files from review
  MaxUnits,      \* max_units_per_session
  MaxSessions,   \* max_sessions
  MaxConcurrency,\* max_concurrency
  Gating,        \* findings of a gating category
  Persistence,   \* may the state directory outlive the job? set of answers
  MaxChanges,    \* bound: changes of the merge request
  MaxFaults,     \* bound: killed runs, failed sessions, partial submissions
  MaxSubmissions \* bound: accepted submissions

ASSUME ReviewRunAssumption ==
  /\ Prints # {}
  /\ DOMAIN Inventory = Prints
  /\ \A p \in Prints : Inventory[p] \in Seq(ToSet(Inventory[p]))
  /\ Excluding \subseteq Prints
  /\ {MaxUnits, MaxSessions, MaxConcurrency} \subseteq Nat \ {0}
  /\ Gating \subseteq Findings
  /\ Persistence # {} /\ Persistence \subseteq BOOLEAN
  /\ {MaxChanges, MaxFaults, MaxSubmissions} \subseteq Nat

VARIABLES
  mr,            \* the merge request's fingerprint
  note,          \* the published report
  persistent,    \* whether the state directory outlives the job
  checkpoints,   \* the checkpoint files, by batch key
  pc,            \* where the run is
  run,           \* the run's local variables
  outcome,       \* how the last run ended
  raised,        \* the submission that each ID given out is the digest of
  assessed,      \* ghost: units and findings assessed at a fingerprint
  left           \* what remains of each bound

vars == <<mr, note, persistent, checkpoints, pc, run, outcome, raised, assessed, left>>

(* "present" stands for "unknown" too, which gates alike.                  *)
Assessments == {"present", "addressed", "not_applicable"}
Statuses    == {"reused", "skipped", "waiting", "running", "accepted", "failed", "unsaved"}
Kinds       == {"change", "fault", "submission"}

(* Units and the stand-ins the coordinator adds carry their kind.          *)
Listed(u)       == <<"unit", u>>
Integration(p)  == <<"integration", p>>
Reassessment(p) == <<"reassessment", p>>
Nowhere         == <<"nowhere", 0>>

Worklist(p, any) ==
  LET units == [i \in DOMAIN Inventory[p] |-> Listed(Inventory[p][i])]
  IN IF units = <<>> /\ any THEN <<Reassessment(p)>>
     ELSE WithIntegration(units, Integration(p), MaxUnits)

(* The batches of a review at p when it knows any findings; requirements   *)
(* of units are left to module Worklist.                                   *)
BatchesAt ==
  [p \in Prints |-> [any \in BOOLEAN |-> BatchUnits(Worklist(p, any), <<>>, MaxUnits)]]

AllUnits ==
  {Nowhere} \cup UNION {ToSet(Worklist(p, any)) : p \in Prints, any \in BOOLEAN}

Known(assess) == {f \in Findings : assess[f] # "none"}

(* The findings as a run knows them.                                       *)
Drafts == [assess : [Findings -> Assessments \cup {"none"}], home : [Findings -> AllUnits]]

Notes == [fp : Prints, complete : BOOLEAN, approved : BOOLEAN, draft : Drafts]

SomePrint == CHOOSE p \in Prints : TRUE

NoDraft == [assess |-> [f \in Findings |-> "none"], home |-> [f \in Findings |-> Nowhere]]

NoRun == [fp |-> SomePrint, draft |-> NoDraft, batches |-> <<>>, known |-> <<>>,
          status |-> <<>>, result |-> <<>>]

NoResult == [complete |-> FALSE, approved |-> FALSE, new |-> {}, at |-> Nowhere, judged |-> <<>>]

TypeOK ==
  /\ mr \in Prints
  /\ note \in Notes
  /\ persistent \in Persistence
  /\ \A key \in DOMAIN checkpoints : key.fp \in Prints /\ key.known \subseteq Findings
  /\ pc \in {"idle", "sessions"}
  /\ run.draft \in Drafts
  /\ run.status \in BoundedSeq(Statuses, Len(run.batches))
  /\ outcome \in {"none", "ok", "failed"}
  /\ DOMAIN raised \subseteq Findings
  /\ left \in [Kinds -> Nat]

-----------------------------------------------------------------------------
Spend(kind) ==
  /\ left[kind] > 0
  /\ left' = [left EXCEPT ![kind] = @ - 1]

(* The process ends; a state directory in the job's container ends with it.*)
EndRun(result) ==
  /\ pc' = "idle"
  /\ run' = NoRun
  /\ outcome' = result
  /\ checkpoints' = IF persistent THEN checkpoints ELSE <<>>
  /\ UNCHANGED persistent

Init ==
  /\ mr \in Prints
  /\ note = [fp |-> mr, complete |-> FALSE, approved |-> FALSE, draft |-> NoDraft]
  /\ persistent \in Persistence
  /\ checkpoints = <<>>
  /\ pc = "idle"
  /\ run = NoRun
  /\ outcome = "none"
  /\ raised = <<>>
  /\ assessed = [units |-> {}, findings |-> {}]
  /\ left = [k \in Kinds |-> CASE k = "change" -> MaxChanges
                               [] k = "fault" -> MaxFaults [] OTHER -> MaxSubmissions]

-----------------------------------------------------------------------------
(* The world.                                                              *)

(* New commits or notes, an edited title, and back again.                  *)
Change ==
  /\ Spend("change")
  /\ mr' \in Prints \ {mr}
  /\ UNCHANGED <<note, persistent, checkpoints, pc, run, outcome, raised, assessed>>

-----------------------------------------------------------------------------
(* The beginning of a run: capture and recovery.                           *)

(* hasReusableReview.                                                      *)
Reusable == note.fp = mr /\ note.complete

(* An unchanged rerun asks no AI.                                          *)
RunUnchanged ==
  /\ pc = "idle"
  /\ Reusable
  /\ outcome' = "ok"
  /\ UNCHANGED <<mr, note, persistent, checkpoints, pc, run, raised, assessed, left>>

(* Mutant: the key of a checkpoint does not name the findings.             *)
AssignmentKeyUnits(p, batch, known) == [fp |-> p, units |-> ToSet(batch), known |-> {}]

(* Mutant: nor the fingerprint.                                            *)
AssignmentKeyTimeless(p, batch, known) ==
  [fp |-> SomePrint, units |-> ToSet(batch), known |-> known]

(* assignmentKey: what a checkpoint is found by.  Of the findings, only    *)
(* their IDs are part of it.                                               *)
AssignmentKey(p, batch, known) == [fp |-> p, units |-> ToSet(batch), known |-> known]

(* checkpointStore.load: only a complete result is reused.                 *)
Load(key) == key \in DOMAIN checkpoints /\ checkpoints[key].complete

(* Mutant: reused batches count as sessions.                               *)
BudgetedByNumber(missing) == {b \in missing : b <= MaxSessions}

(* The first batches without a checkpoint have a session.                  *)
Budgeted(missing) == {b \in missing : Cardinality({c \in missing : c < b}) < MaxSessions}

(* Every batch gets the findings of its units, its checkpoint if there is  *)
(* one, or else a session while the budget lasts.                          *)
Start ==
  /\ pc = "idle"
  /\ ~Reusable
  /\ LET draft   == note.draft
         batches == BatchesAt[mr][Known(draft.assess) # {}]
         known   == [b \in DOMAIN batches |->
                       {f \in Known(draft.assess) : BatchOf(draft.home[f], batches) = b}]
         key(b)  == AssignmentKey(mr, batches[b], known[b])
         missing == {b \in DOMAIN batches : ~Load(key(b))}
     IN run' = [fp |-> mr, draft |-> draft, batches |-> batches, known |-> known,
                status |-> [b \in DOMAIN batches |->
                  IF b \notin missing THEN "reused"
                  ELSE IF b \in Budgeted(missing) THEN "waiting" ELSE "skipped"],
                result |-> [b \in DOMAIN batches |->
                  IF b \in missing THEN NoResult ELSE checkpoints[key(b)]]]
  /\ pc' = "sessions"
  /\ outcome' = "none"
  /\ UNCHANGED <<mr, note, persistent, checkpoints, raised, assessed, left>>

-----------------------------------------------------------------------------
(* The sessions of a run, concurrently.                                    *)

Having(status) == {b \in DOMAIN run.batches : run.status[b] = status}

EnterSession(b) ==
  /\ b \in Having("waiting")
  /\ Cardinality(Having("running")) < MaxConcurrency
  /\ run' = [run EXCEPT !.status[b] = "running"]
  /\ UNCHANGED <<mr, note, persistent, checkpoints, pc, outcome, raised, assessed, left>>

(* What the ID of a finding is a digest of: the submission, which names    *)
(* each unit of its batch.                                                 *)
Content(b, s) == [units |-> ToSet(run.batches[b]), submission |-> s]

(* What a session may submit for batch b: at most one new finding, under   *)
(* an ID of its own unless it repeats an earlier submission word for word, *)
(* and assessments of known findings, of all of them if it is complete.    *)
IsSubmission(b, s) ==
  /\ \A f \in s.new \cap DOMAIN raised : raised[f] = Content(b, s)
  /\ s.complete => run.known[b] \subseteq DOMAIN s.judged
  /\ s.at \in IF s.new \cup DOMAIN s.judged = {} THEN {Nowhere} ELSE ToSet(run.batches[b])

Judged(b) == UNION {[S -> Assessments] : S \in SUBSET run.known[b]}

(* checkpointStore.save: written aside and renamed over a former one.      *)
Save(key, s) ==
  checkpoints' = [k \in DOMAIN checkpoints \cup {key} |->
                    IF k = key THEN s ELSE checkpoints[k]]

(* A session ends with an accepted submission, which is checkpointed.      *)
Submit(b, s) ==
  /\ b \in Having("running")
  /\ IsSubmission(b, s)
  /\ left' = [left EXCEPT !["submission"] = @ - 1,
                          !["fault"] = IF s.complete THEN @ ELSE @ - 1]
  /\ left'["submission"] >= 0 /\ left'["fault"] >= 0
  /\ run' = [run EXCEPT !.status[b] = "accepted", !.result[b] = s]
  /\ Save(AssignmentKey(run.fp, run.batches[b], run.known[b]), s)
  /\ raised' = [f \in DOMAIN raised \cup s.new |->
                  IF f \in DOMAIN raised THEN raised[f] ELSE Content(b, s)]
  /\ assessed' = IF s.complete
       THEN [units    |-> assessed.units \cup ({run.fp} \X ToSet(run.batches[b])),
             findings |-> assessed.findings \cup ({run.fp} \X (run.known[b] \cup s.new))]
       ELSE assessed
  /\ UNCHANGED <<mr, note, persistent, pc, outcome>>

(* The session fails, or its result cannot be saved.                       *)
SessionFails(b) ==
  /\ b \in Having("running")
  /\ Spend("fault")
  /\ \E status \in {"failed", "unsaved"} : run' = [run EXCEPT !.status[b] = status]
  /\ UNCHANGED <<mr, note, persistent, checkpoints, pc, outcome, raised, assessed>>

(* Behaviours are followed only up to MaxSubmissions submissions.          *)
OutOfSubmissions(b) ==
  /\ b \in Having("running")
  /\ left["submission"] = 0
  /\ run' = [run EXCEPT !.status[b] = "failed"]
  /\ UNCHANGED <<mr, note, persistent, checkpoints, pc, outcome, raised, assessed, left>>

-----------------------------------------------------------------------------
(* The end of a run: reconciliation, verdict, publication.                 *)

AllEnded == pc = "sessions" /\ Having("waiting") \cup Having("running") = {}

Applied == Having("reused") \cup Having("accepted")

(* Reconcile refuses a new finding under an ID the state knows already,    *)
(* from the report or from a batch before this one.                        *)
Collides(b) ==
  LET before == UNION {run.result[c].new : c \in {d \in Applied : d < b}}
  IN run.result[b].new \cap (Known(run.draft.assess) \cup before) # {}

Collision == \E b \in Applied : Collides(b)

(* Mutant: a new finding is left without an assessment.                    *)
ReconciledBlank ==
  LET raisedNow == UNION {run.result[b].new : b \in Applied}
  IN [run.draft EXCEPT !.assess =
        [f \in Findings |-> IF f \in raisedNow THEN "" ELSE @[f]]]

(* Reconcile, batch by batch: each finding is in one batch at most, so the *)
(* batches do not disturb each other.                                      *)
Reconciled ==
  LET d == run.draft
      raisedBy(f) == {b \in Applied : f \in run.result[b].new}
      judgedBy(f) == {b \in Applied : f \in DOMAIN run.result[b].judged}
      by(f) == run.result[CHOOSE b \in raisedBy(f) \cup judgedBy(f) : TRUE]
  IN [assess |-> [f \in Findings |->
        IF raisedBy(f) # {} THEN "present"
        ELSE IF judgedBy(f) # {} THEN by(f).judged[f] ELSE d.assess[f]],
      home |-> [f \in Findings |->
        IF raisedBy(f) \cup judgedBy(f) # {} THEN by(f).at ELSE d.home[f]]]

(* Coverage that is not empty, and complete throughout.                    *)
Complete ==
  /\ DOMAIN run.batches # {} \/ run.fp \in Excluding
  /\ \A b \in DOMAIN run.batches : b \in Applied /\ run.result[b].complete

(* DeriveVerdict: TRUE for approved.                                       *)
DeriveVerdict(d) ==
  /\ Complete
  /\ \A b \in Applied : run.result[b].approved
  /\ \A f \in Gating \cap Known(d.assess) : d.assess[f] # "present"

(* finish, Recheck, Publish.                                               *)
Publish ==
  /\ AllEnded
  /\ Having("unsaved") = {} /\ ~Collision
  /\ run.fp = mr
  /\ note' = [fp |-> run.fp, complete |-> Complete, approved |-> DeriveVerdict(Reconciled),
              draft |-> Reconciled]
  /\ EndRun("ok")
  /\ UNCHANGED <<mr, raised, assessed, left>>

FinishFailed ==
  /\ AllEnded
  /\ Collision \/ Having("unsaved") # {} \/ run.fp # mr
  /\ EndRun("failed")
  /\ UNCHANGED <<mr, note, raised, assessed, left>>

(* The job is killed, or any other call of the run fails.                  *)
Fail ==
  /\ pc # "idle"
  /\ Spend("fault")
  /\ EndRun("failed")
  /\ UNCHANGED <<mr, note, raised, assessed>>

-----------------------------------------------------------------------------
SessionStep(b) ==
  \/ EnterSession(b)
  \/ \E judged \in Judged(b), new \in {{}} \cup {{f} : f \in Findings},
        at \in {Nowhere} \cup ToSet(run.batches[b]), complete, approved \in BOOLEAN :
       Submit(b, [complete |-> complete, approved |-> approved, new |-> new,
                  at |-> at, judged |-> judged])
  \/ OutOfSubmissions(b)

RunStep ==
  \/ RunUnchanged
  \/ Start
  \/ \E b \in DOMAIN run.batches : SessionStep(b)
  \/ Publish
  \/ FinishFailed

Next ==
  \/ RunStep
  \/ \E b \in DOMAIN run.batches : SessionFails(b)
  \/ Fail
  \/ Change

Spec == Init /\ [][Next]_vars

FairSpec == Spec /\ WF_vars(RunStep)
-----------------------------------------------------------------------------
(* Properties.                                                             *)

(* An approval rests on complete sessions for every unit of the content it *)
(* was given for, on a judgement of every known finding at that content,   *)
(* whether run now or taken from a checkpoint, and on no gating finding    *)
(* being present, acknowledged or not.                                     *)
ApprovalIsEarned ==
  note.approved =>
    /\ {note.fp} \X ToSet(Worklist(note.fp, FALSE)) \subseteq assessed.units
    /\ {note.fp} \X Known(note.draft.assess) \subseteq assessed.findings
    /\ \A f \in Gating \cap Known(note.draft.assess) : note.draft.assess[f] # "present"

(* As long as the content stays the same, a run dies on an ID an earlier   *)
(* one has given out only if a session submitted, word for word, what an   *)
(* earlier session did, and did not assess everything it was asked to.     *)
(* What a checkpoint replays is new to the state, or the checkpoint is not *)
(* found, and so is what a complete session raises.  (A change and its     *)
(* revert can bring an ID back otherwise; see the README.)                 *)
OnlyRepeatsCollide ==
  left["change"] = MaxChanges /\ AllEnded =>
    \A b \in Applied :
      Collides(b) => run.status[b] = "accepted" /\ ~run.result[b].complete

(* Once changes and failures cease, runs whose state directory outlives    *)
(* the job complete the review of the current content, though each has     *)
(* fewer sessions than there are batches.                                  *)
Completes == <>[](persistent => Reusable)
=============================================================================
