---------------------------- MODULE GitLabClient ----------------------------
(***************************************************************************)
(* One job and GitLab: it captures the context (ContextReads), reviews and *)
(* publishes, and synchronises the labels that LabelPlan derives, with two *)
(* more fetches to see whether the context is still the one captured.      *)
(* SyncPublishedLabels and clearStaleManagedLabels of internal/gitlab/     *)
(* publish.go, labels_sync.go, and UpdateLabels of write.go.               *)
(*                                                                         *)
(* Every request is a step.  Between any two, humans write and delete      *)
(* notes and set labels, and another job may publish its own report.       *)
(***************************************************************************)
EXTENDS ContextReads, LabelPlan

CONSTANTS
  Inputs,         \* what reviews may come to
  MRLabels,       \* labels of the merge request at first
  Definitions,    \* labels of the project at first
  HumanLabels,    \* labels that humans put on and take off
  CreateMissing   \* the setting create_missing

VARIABLES
  labels,         \* GitLab: the labels of the merge request
  definitions,    \* GitLab: the labels of the project
  current,        \* whose report is current: "none", "mine" or "other"
  job             \* the job

labelVars == <<labels, definitions, current>>
vars      == <<readVars, labelVars, job>>

Ends  == {"synced", "superseded", "stale", "failed"}
Reads == {"capture", "recheck", "recheck_after"}
Phases == Reads \cup Ends \cup
  {"review", "expect", "read", "ensure", "create", "relist", "update", "verify",
   "expect_after", "expect_stale"}

(* All labels that some review with this configuration may put on.         *)
Own == Static \cup ReservedNames
         \cup UNION {DesiredLabels(i) : i \in {j \in Inputs : Derivable(j)}}

AllLabels == Own \cup MRLabels \cup Definitions \cup HumanLabels

TypeOK ==
  /\ ReadsTypeOK
  /\ labels \subseteq AllLabels /\ definitions \subseteq AllLabels
  /\ current \in {"none", "mine", "other"}
  /\ job.pc \in Phases
  /\ job.captured \subseteq Notes \X Kinds
  /\ job.desired \cup job.seen \cup job.missing \subseteq AllLabels
  /\ job.clearing => job.desired = {}

Init ==
  /\ ReadsInit
  /\ labels = MRLabels
  /\ definitions = Definitions
  /\ current = "none"
  /\ job = [pc |-> "capture", captured |-> {}, desired |-> {}, clearing |-> FALSE,
            seen |-> {}, missing |-> {}, verified |-> 0, why |-> ""]

-----------------------------------------------------------------------------
(* GitLab and its users.                                                   *)

(* A label takes the place of another of its scope.                        *)
Assigned(on, add, remove) ==
  LET scopes == {ScopeOf(l) : l \in add} \ {Plain}
  IN {l \in on \ remove : ScopeOf(l) \notin scopes} \cup add

(* Somebody sets labels by hand, or defines one for the project.           *)
SetLabel(l) ==
  /\ Spend("change")
  /\ labels' = IF l \in labels THEN labels \ {l} ELSE Assigned(labels, {l}, {})
  /\ definitions' = definitions \cup {l}
  /\ UNCHANGED <<notes, hasJobToken, denied, authors, fetch, current, job>>

(* Another job publishes a report and sets its labels.                     *)
OtherJob ==
  /\ Spend("change")
  /\ current = "mine"
  /\ current' = "other"
  /\ \E input \in Inputs :
       /\ Derivable(input)
       /\ labels' = {l \in labels : ~Managed(l)} \cup DesiredLabels(input)
       /\ definitions' = definitions \cup DesiredLabels(input)
  /\ UNCHANGED <<notes, hasJobToken, denied, authors, fetch, job>>

Others ==
  \/ \E n \in Notes : (Post(n) \/ Withdraw(n)) /\ UNCHANGED <<labelVars, job>>
  \/ \E l \in HumanLabels : SetLabel(l)
  \/ OtherJob

-----------------------------------------------------------------------------
Goto(pc) == job' = [job EXCEPT !.pc = pc]

(* A request that is answered, and no note read changes.                   *)
Answered == UNCHANGED <<notes, hasJobToken, denied, authors, left>> /\ fetch' = NoFetch

(* Capture and Recheck read the whole context.                             *)
Fetch ==
  /\ job.pc \in Reads
  /\ FetchStep
  /\ UNCHANGED <<labelVars, job>>

Captured ==
  /\ job.pc = "capture" /\ fetch.at \in {"done", "failed"}
  /\ job' = IF fetch.at = "done" THEN [job EXCEPT !.pc = "review", !.captured = NotePrints]
                                 ELSE [job EXCEPT !.pc = "failed"]
  /\ Answered
  /\ UNCHANGED labelVars

(* The sessions, and a publication that succeeds; labels are derived first.*)
Publish ==
  /\ job.pc = "review"
  /\ \E input \in Inputs :
       IF Derivable(input)
         THEN /\ current' = "mine"
              /\ job' = [job EXCEPT !.pc = "expect", !.desired = DesiredLabels(input)]
         ELSE Goto("failed") /\ UNCHANGED current
  /\ UNCHANGED <<readVars, labels, definitions>>

(* Mutant: the generation is only looked at before.                        *)
ExpectOnce ==
  /\ \/ job.pc = "expect" /\ IF current = "mine" THEN Goto("recheck") /\ BeginFetch
                                                ELSE Goto("superseded") /\ UNCHANGED fetch
     \/ job.pc = "expect_stale" /\ Goto(IF current = "mine" THEN "read" ELSE "superseded")
                               /\ UNCHANGED fetch
     \/ job.pc = "expect_after" /\ Goto("synced") /\ UNCHANGED fetch
  /\ UNCHANGED <<notes, hasJobToken, denied, authors, left, labelVars>>

(* verifyCurrentExpectation.                                               *)
Expect ==
  /\ \/ job.pc = "expect" /\ IF current = "mine" THEN Goto("recheck") /\ BeginFetch
                                                ELSE Goto("superseded") /\ UNCHANGED fetch
     \/ job.pc = "expect_stale" /\ Goto(IF current = "mine" THEN "read" ELSE "superseded")
                               /\ UNCHANGED fetch
     \/ job.pc = "expect_after" /\ Goto(IF current = "mine" THEN "synced" ELSE "superseded")
                               /\ UNCHANGED fetch
  /\ UNCHANGED <<notes, hasJobToken, denied, authors, left, labelVars>>

(* Mutant: the labels asked for stay.                                      *)
ClearingDesired(pc) ==
  [job EXCEPT !.pc = pc, !.clearing = TRUE,
              !.why = IF fetch.at = "done" THEN "changed" ELSE "unread"]

(* The context is another than the captured one, or could not be read:     *)
(* clearStaleManagedLabels, with nothing desired.                          *)
Clearing(pc) ==
  [job EXCEPT !.pc = pc, !.desired = {}, !.clearing = TRUE,
              !.why = IF fetch.at = "done" THEN "changed" ELSE "unread"]

Rechecked ==
  /\ job.pc \in {"recheck", "recheck_after"} /\ fetch.at \in {"done", "failed"}
  /\ job' = IF fetch.at = "done" /\ NotePrints = job.captured
              THEN [job EXCEPT !.pc = IF @ = "recheck" THEN "read" ELSE "expect_after"]
              ELSE Clearing(IF job.pc = "recheck" THEN "read" ELSE "expect_stale")
  /\ Answered
  /\ UNCHANGED labelVars

(* GetMergeRequest, for its labels.                                        *)
ReadLabels ==
  /\ job.pc = "read"
  /\ job' = [job EXCEPT !.pc = "ensure", !.seen = labels]
  /\ Answered
  /\ UNCHANGED labelVars

(* ensureLabelDefinitions: the list of what must be created is made once.  *)
Ensure ==
  /\ job.pc = "ensure"
  /\ LET missing == job.desired \ definitions
     IN job' = [job EXCEPT !.missing = missing,
                           !.pc = IF missing = {} THEN "update"
                                  ELSE IF CreateMissing THEN "create" ELSE "failed"]
  /\ UNCHANGED <<readVars, labelVars>>

Name == CHOOSE l \in job.missing : TRUE

NextName ==
  job' = [job EXCEPT !.missing = @ \ {Name},
                     !.pc = IF job.missing = {Name} THEN "update" ELSE "create"]

(* An error means that somebody else was faster, or that the answer was    *)
(* lost, or that nothing was created.                                      *)
CreateLabel ==
  /\ job.pc = "create"
  /\ \/ /\ Name \notin definitions
        /\ definitions' = definitions \cup {Name}
        /\ NextName
        /\ UNCHANGED left
     \/ /\ IF Name \in definitions THEN UNCHANGED left ELSE Spend("fault")
        /\ definitions' \in {definitions, definitions \cup {Name}}
        /\ Goto("relist")
  /\ UNCHANGED <<notes, hasJobToken, denied, authors, fetch, labels, current>>

Relist ==
  /\ job.pc = "relist"
  /\ IF Name \in definitions THEN NextName ELSE Goto("failed")
  /\ UNCHANGED <<readVars, labelVars>>

ToAdd    == job.desired \ job.seen
ToRemove == {l \in job.seen \ job.desired : Managed(l)}

(* Mutant: the list is replaced instead of changed.                        *)
UpdatedWhole == Assigned(job.seen, ToAdd, ToRemove)

(* UpdateLabels sends differences; GitLab applies them to what is there.   *)
Updated == Assigned(labels, ToAdd, ToRemove)

(* The last disjunct: applied, but the answer is lost.                     *)
Update ==
  /\ job.pc = "update"
  /\ \/ /\ ToAdd \cup ToRemove = {}
        /\ Goto("verify")
        /\ UNCHANGED <<labels, left>>
     \/ /\ ToAdd \cup ToRemove # {}
        /\ labels' = Updated
        /\ Goto("verify")
        /\ UNCHANGED left
     \/ /\ ToAdd \cup ToRemove # {}
        /\ Spend("fault")
        /\ labels' = Updated
        /\ Goto("failed")
  /\ UNCHANGED <<notes, hasJobToken, denied, authors, fetch, definitions, current>>

(* Mutant: only missing labels are looked for.                             *)
VerifiedPresent == job.desired \subseteq labels

(* verifyManagedLabels.                                                    *)
Verified ==
  /\ job.desired \subseteq labels
  /\ \A l \in labels : Managed(l) => l \in job.desired

(* GetMergeRequest once more.                                              *)
Verify ==
  /\ job.pc = "verify"
  /\ job' = [job EXCEPT !.verified = left["change"],
                        !.pc = IF ~Verified THEN "failed"
                               ELSE IF job.clearing THEN "stale" ELSE "recheck_after"]
  /\ IF job'.pc = "recheck_after" THEN BeginFetch ELSE fetch' = NoFetch
  /\ UNCHANGED <<notes, hasJobToken, denied, authors, left, labelVars>>

(* The job token does not do for the merge request.                        *)
ReadRefused ==
  /\ job.pc \in {"read", "verify"}
  /\ Refused("merge_request")
  /\ UNCHANGED <<labelVars, job>>

(* Any other failed request, a failed review, the end of the job.          *)
Fail ==
  /\ job.pc \notin Ends \cup Reads
  /\ Spend("fault")
  /\ Goto("failed")
  /\ UNCHANGED <<notes, hasJobToken, denied, authors, fetch, labelVars>>

ClientStep ==
  \/ Fetch \/ Captured \/ Publish \/ Expect \/ Rechecked
  \/ ReadLabels \/ Ensure \/ CreateLabel \/ Relist \/ Update \/ Verify
  \/ ReadRefused \/ Fail

Next == ClientStep \/ Others

Spec == Init /\ [][Next]_vars

-----------------------------------------------------------------------------
(* Properties.                                                             *)

Undisturbed == left["change"] = job.verified

(* A job that reports its labels as set has set them: unless somebody came *)
(* after the verification, the merge request has, of all labels any review *)
(* with this configuration may set, exactly those of this review, whatever *)
(* was there before and whoever else set labels between the requests.      *)
SyncedIsExact ==
  job.pc = "synced" /\ Undisturbed => labels \cap Own = job.desired

(* And they belong to the current report and to the context that was       *)
(* reviewed: nobody published another report and no note came or went      *)
(* since the capture.                                                      *)
SyncedIsCurrent ==
  job.pc = "synced" /\ Undisturbed =>
    /\ current = "mine"
    /\ {item[1] : item \in job.captured} = {n \in Notes : notes[n] = "public"}

(* A job that ends with a stale context leaves none of its labels behind,  *)
(* neither its own nor those of earlier reviews.                           *)
StaleIsCleared ==
  job.pc = "stale" /\ Undisturbed => labels \cap Own = {}

(* A merge request that nobody touches is not taken for changed, also when *)
(* an author could not be looked up in one of the fetches or a credential  *)
(* was refused in between.                                                 *)
QuietIsFresh ==
  job.why = "changed" => left["change"] < MaxChanges

(* What the configuration names: labels, and groups of labels.             *)
Configured       == Static \cup ReservedNames \cup UNION {Outputs(m) : m \in Mappings}
ConfiguredGroups == (ReservedScopes \cup {l[1] : l \in Configured}) \ {Plain}

(* README: unrelated labels are preserved.  The job takes off or puts on   *)
(* only labels of the configuration: named ones, and those in a scope or   *)
(* with a prefix it uses.                                                  *)
UnrelatedUntouched ==
  [][job' # job =>
       \A l \in (labels \ labels') \cup (labels' \ labels) :
         l \in Configured \/ l[1] \in ConfiguredGroups]_vars
=============================================================================
