--------------------------- MODULE FindingLifecycle ---------------------------
(***************************************************************************)
(* The life of one finding over many runs, and the evidence on which AI    *)
(* sessions acknowledge and reopen it: associateSources, knownFinding,     *)
(* mergeSourceRecords and referencedSourceRecords of                       *)
(* internal/coordinator/coordinator.go, the transition rules of            *)
(* internal/review/validate.go, and the history that reconcile.go and the  *)
(* codec's ReconcileControls write.                                        *)
(*                                                                         *)
(* Humans write, edit and withdraw notes, push commits and click the       *)
(* report's checkbox at any time.  A source is a note at one of its        *)
(* revisions, or the repository at one commit.  A citation names one       *)
(* source; the rules look at each cited source alone.                      *)
(***************************************************************************)
EXTENDS ReportControls, FiniteSets, Sequences

CONSTANTS
  Notes,          \* notes people may write
  Thread,         \* the discussion each is part of
  Humans,         \* notes whose author GitLab confirms as human
  Naming,         \* notes that quote the finding's title
  Early,          \* notes written before the first run
  Persistence,    \* may the state directory outlive the job? set of answers
  MaxCommits,     \* bound: commits of the merge request
  MaxEdits,       \* bound: notes written, edited, withdrawn
  MaxClicks,      \* bound: clicks on the report's checkbox
  MaxFaults,      \* bound: killed runs, failed or partial reviews
  MaxSubmissions  \* bound: accepted submissions

ASSUME LifecycleAssumption ==
  /\ Cardinality(Findings) = 1
  /\ "code" \notin Notes
  /\ DOMAIN Thread = Notes /\ Humans \subseteq Notes /\ Naming \cup Early \subseteq Notes
  /\ Persistence # {} /\ Persistence \subseteq BOOLEAN
  /\ {MaxCommits, MaxEdits, MaxClicks, MaxFaults, MaxSubmissions} \subseteq Nat
  /\ MaxCommits > 0

VARIABLES
  commit,         \* the head commit
  notes,          \* the revision of each note and whether it can be read
  report,         \* the published report: the finding's record and its checkbox
  persistent,     \* whether the state directory outlives the job
  checkpoints,    \* accepted submissions, by fingerprint and known finding
  pc,             \* where the run is
  run,            \* the run's local variables
  left            \* what remains of each bound

vars == <<commit, notes, report, persistent, checkpoints, pc, run, left>>

Kinds       == {"edit", "click", "fault", "submission"}
Assessments == {"present", "addressed", "not_applicable"}   \* "unknown" is as "present"
Moves       == {"none", "acknowledge", "reopen"}
AIMethods   == {"ai_discussion", "ai_code_change"}
Methods     == {"none", "checkbox"} \cup AIMethods
Events      == {"created", "reassessed", "acknowledged", "reopened"}

TheFinding == CHOOSE f \in Findings : TRUE

(* noteSourceID hashes body and time of the last edit; the ID of a         *)
(* repository source hashes its commit.                                    *)
NoteSource(n, rev) == <<n, rev>>
CodeSource(c)      == <<"code", c>>
IsNoteSource(s)    == s[1] \in Notes

PublicNotes == {NoteSource(n, notes[n].rev) : n \in {m \in Notes : notes[m].shown}}

(* What Fingerprint hashes, and all a run can cite.                        *)
Fingerprint   == [commit |-> commit, notes |-> PublicNotes]
Available(fp) == fp.notes \cup {CodeSource(fp.commit)}

(* associateSources: a note is about the finding when it, or a note of its *)
(* discussion, quotes the title of the only finding so quoted.  Sources of *)
(* the repository are registered by the tools without any finding.         *)
AboutFinding(fp, s) ==
  /\ s \in fp.notes
  /\ \E m \in fp.notes : Thread[m[1]] = Thread[s[1]] /\ m[1] \in Naming

AllSources == (Notes \X (0 .. MaxEdits)) \cup {CodeSource(c) : c \in 1 .. MaxCommits}

Event(kind, method, assess, refs) ==
  [kind |-> kind, method |-> method, assess |-> assess, refs |-> refs]

(* The finding as the durable state has it: no history, no finding.        *)
Unknown == [method |-> "none", ack |-> {}, assess |-> "none", evidence |-> {},
            history |-> <<>>, sources |-> {}]

Exists(d) == d.history # <<>>

MarkOf(d) ==
  IF ~Exists(d) THEN "absent"
  ELSE CASE d.method = "none"     -> "open"
         [] d.method = "checkbox" -> "box"
         [] OTHER                 -> "ai"

NoPrint  == [commit |-> 0, notes |-> {}]
NoReport == [state |-> Unknown, box |-> "nil", fp |-> NoPrint, complete |-> FALSE]
NoRun    == [fp |-> NoPrint, state |-> Unknown, last |-> "nil", complete |-> FALSE,
             changed |-> FALSE]

EventSet == [kind : Events, method : Methods, assess : Assessments \cup {"none"},
             refs : SUBSET AllSources]

IsState(d) ==
  /\ d.method \in Methods /\ d.assess \in Assessments \cup {"none"}
  /\ {d.ack, d.evidence, d.sources} \subseteq SUBSET AllSources
  /\ d.history \in Seq(EventSet)

TypeOK ==
  /\ commit \in 1 .. MaxCommits
  /\ notes \in [Notes -> [rev : 0 .. MaxEdits, shown : BOOLEAN]]
  /\ IsState(report.state) /\ report.box \in Boxes /\ report.complete \in BOOLEAN
  /\ persistent \in Persistence
  /\ \A key \in DOMAIN checkpoints : key.known \in BOOLEAN
  /\ pc \in {"idle", "session", "publish"}
  /\ IsState(run.state) /\ run.last \in Boxes
  /\ left \in [Kinds -> Nat]

-----------------------------------------------------------------------------
Spend(kind) ==
  /\ left[kind] > 0
  /\ left' = [left EXCEPT ![kind] = @ - 1]

(* No report, or that of an earlier run which left the review incomplete.  *)
(* It raised the finding on all it could read; a human has ticked it since,*)
(* or a discussion acknowledged it.                                        *)
Earlier ==
  LET all     == Available(Fingerprint)
      raised  == [Unknown EXCEPT !.assess = "present", !.evidence = all, !.sources = PublicNotes,
                    !.history = <<Event("created", "none", "present", all)>>]
      moved(method, refs) ==
        [raised EXCEPT !.method = method, !.ack = refs,
                       !.history = Append(@, Event("acknowledged", method, "none", refs))]
      by(d, box) == [state |-> d, box |-> box, fp |-> Fingerprint, complete |-> FALSE]
  IN \/ report = NoReport
     \/ report = by(moved("checkbox", {}), "on")
     \/ \E s \in PublicNotes : /\ s[1] \in Humans /\ AboutFinding(Fingerprint, s)
                              /\ report = by(moved("ai_discussion", {s}), "nil")

Init ==
  /\ commit = 1
  /\ notes = [n \in Notes |-> [rev |-> 0, shown |-> n \in Early]]
  /\ Earlier
  /\ persistent \in Persistence
  /\ checkpoints = <<>>
  /\ pc = "idle"
  /\ run = NoRun
  /\ left = [k \in Kinds |-> CASE k = "edit" -> MaxEdits [] k = "click" -> MaxClicks
                               [] k = "fault" -> MaxFaults [] OTHER -> MaxSubmissions]

EndRun ==
  /\ pc' = "idle"
  /\ run' = NoRun
  /\ checkpoints' = IF persistent THEN checkpoints ELSE <<>>
  /\ UNCHANGED persistent

-----------------------------------------------------------------------------
(* Humans.                                                                 *)

(* A note is written, edited, or shown again with other words.             *)
Write(n) ==
  /\ Spend("edit")
  /\ notes' = [notes EXCEPT ![n] = [rev |-> @.rev + 1, shown |-> TRUE]]
  /\ UNCHANGED <<commit, report, persistent, checkpoints, pc, run>>

(* It is deleted, or its discussion made internal.                         *)
Withdraw(n) ==
  /\ Spend("edit")
  /\ notes[n].shown
  /\ notes' = [notes EXCEPT ![n].shown = FALSE]
  /\ UNCHANGED <<commit, report, persistent, checkpoints, pc, run>>

Push ==
  /\ commit < MaxCommits
  /\ commit' = commit + 1
  /\ UNCHANGED <<notes, report, persistent, checkpoints, pc, run, left>>

Click ==
  /\ Spend("click")
  /\ report.box # "nil"
  /\ report' = [report EXCEPT !.box = IF @ = "off" THEN "on" ELSE "off"]
  /\ UNCHANGED <<commit, notes, persistent, checkpoints, pc, run>>

-----------------------------------------------------------------------------
(* What a run knows of the finding.                                        *)

(* A click on report r that working copy d, with last for its memory, does *)
(* not know: Clicked of module ReportControls, for one finding.            *)
IsClicked(d, last, r) ==
  LET each(x) == [f \in Findings |-> x]
  IN Clicked([marks |-> each(MarkOf(r.state)), boxes |-> each(r.box)],
             [marks |-> each(MarkOf(d)), last |-> each(last)], TheFinding)

(* The finding after the click.  The coordinator passes no interactions,   *)
(* so the event names no source.                                           *)
AfterClick(d, box) ==
  LET kind == IF box = "on" THEN "acknowledged" ELSE "reopened"
  IN [d EXCEPT !.method = IF box = "on" THEN "checkbox" ELSE "none", !.ack = {},
               !.history = Append(@, Event(kind, "checkbox", "none", {}))]

(* Mutant: an AI acknowledgement of this run wins over a late click.       *)
WithControlsAIWins(d, last, r) ==
  IF IsClicked(d, last, r) /\ MarkOf(d) # "ai"
    THEN [state |-> AfterClick(d, r.box), last |-> r.box, changed |-> TRUE]
    ELSE [state |-> d, last |-> last, changed |-> FALSE]

(* ReconcileControls: an unknown click is an event of the history.         *)
WithControls(d, last, r) ==
  IF IsClicked(d, last, r)
    THEN [state |-> AfterClick(d, r.box), last |-> r.box, changed |-> TRUE]
    ELSE [state |-> d, last |-> last, changed |-> FALSE]

(* Mutant: a human reopening is not looked for.                            *)
ConsumedByAcks(history) ==
  UNION {history[i].refs : i \in {j \in DOMAIN history : history[j].kind = "acknowledged"}}

(* knownFinding: the sources no new acknowledgement may cite.              *)
Consumed(history) ==
  LET reopened == {i \in DOMAIN history : history[i].kind = "reopened"
                                           /\ history[i].method = "checkbox"}
      spent == {i \in DOMAIN history : history[i].kind = "acknowledged"
                                        \/ \E j \in reopened : i <= j}
  IN UNION {history[i].refs : i \in spent}

(* Mutant: what only the history cites is dropped.                         *)
ReferencedNow(d) == {s \in d.evidence \cup d.ack : IsNoteSource(s)}

(* referencedSourceRecords; only notes have records.                       *)
Referenced(d) ==
  {s \in d.evidence \cup d.ack \cup UNION {d.history[i].refs : i \in DOMAIN d.history} :
     IsNoteSource(s)}

WithSources(d, fp) == [d EXCEPT !.sources = (@ \cup fp.notes) \cap Referenced(d)]

-----------------------------------------------------------------------------
(* Submissions.                                                            *)

(* validateTransitionEvidence, for one cited source.                       *)
Supports(s, fp, source) ==
  /\ source \in Available(fp)
  /\ CASE s.method = "ai_discussion" ->
            AboutFinding(fp, source) /\ source[1] \in Humans
       [] s.method # "ai_discussion" /\ s.move = "acknowledge" ->
            /\ ~IsNoteSource(source)
            /\ s.assess = "addressed" /\ source \in s.evidence
       [] OTHER ->
            ~IsNoteSource(source) /\ AboutFinding(fp, source)

(* Mutant: consumed sources are accepted again.                            *)
ValidTransitionReusing(s, fp, d) ==
  /\ s.refs # {} /\ \A source \in s.refs : Supports(s, fp, source)
  /\ s.assess = "addressed" => s.method = "ai_code_change"
  /\ s.move = "acknowledge" => MarkOf(d) = "open"
  /\ s.move = "reopen" => MarkOf(d) = "ai" /\ d.method = s.method /\ s.assess = "present"

(* validateSubmission: which acknowledgement changes are accepted.         *)
ValidTransition(s, fp, d) ==
  /\ s.move = "acknowledge" => MarkOf(d) = "open"
  /\ s.move = "reopen" => MarkOf(d) = "ai" /\ d.method = s.method /\ s.assess = "present"
  /\ s.assess = "addressed" => s.method = "ai_code_change"
  /\ s.refs # {} /\ \A source \in s.refs : Supports(s, fp, source)
  /\ s.refs \cap Consumed(d.history) = {}

(* A complete submission reassesses a known finding; one that addresses an *)
(* open finding acknowledges it as well.                                   *)
ValidSubmission(s, fp, d) ==
  /\ s.move = "none" <=> s.method = "none"
  /\ s.move = "none" => s.refs = {}
  /\ s.assess # "none" \/ s.creates <=> s.evidence # {}
  /\ Exists(d) /\ s.complete => s.assess # "none"
  /\ MarkOf(d) = "open" /\ s.assess = "addressed" => s.move = "acknowledge"
  /\ s.evidence \subseteq Available(fp)
  /\ s.move # "none" => ValidTransition(s, fp, d)

Citations(fp) == {{}} \cup {{source} : source \in Available(fp)}

(* Only an unknown finding can be raised, only a known one judged.         *)
Candidates(fp, d) ==
  IF ~Exists(d)
    THEN [creates : BOOLEAN, complete : BOOLEAN, assess : {"none"}, evidence : Citations(fp),
          move : {"none"}, method : {"none"}, refs : {{}}]
    ELSE [creates : {FALSE}, complete : BOOLEAN, assess : Assessments \cup {"none"},
          evidence : Citations(fp), move : {"none"}, method : {"none"}, refs : {{}}]
         \cup [creates : {FALSE}, complete : BOOLEAN, assess : Assessments \cup {"none"},
               evidence : Citations(fp), move : Moves \ {"none"}, method : AIMethods,
               refs : Citations(fp) \ {{}}]

Submissions(fp, d) == {s \in Candidates(fp, d) : ValidSubmission(s, fp, d)}

(* Mutant: the reassessment leaves no trace.                               *)
ReassessedSilently(d, s) ==
  IF s.assess = "none" THEN d ELSE [d EXCEPT !.assess = s.assess, !.evidence = s.evidence]

(* Reconcile: creation, reassessment and acknowledgement change, each with *)
(* its event.                                                              *)
Created(d, s) ==
  IF ~s.creates THEN d
  ELSE [d EXCEPT !.assess = "present", !.evidence = s.evidence,
                 !.history = <<Event("created", "none", "present", s.evidence)>>]

Reassessed(d, s) ==
  IF s.assess = "none" THEN d
  ELSE [d EXCEPT !.assess = s.assess, !.evidence = s.evidence,
                 !.history = Append(@, Event("reassessed", "none", s.assess, s.evidence))]

(* Mutant: the change is recorded under its own name.                      *)
MovedByName(d, s) ==
  IF s.move = "none" THEN d
  ELSE [d EXCEPT !.method = s.move, !.ack = s.refs,
                 !.history = Append(@, Event(s.move, s.method, "none", s.refs))]

Moved(d, s) ==
  CASE s.move = "acknowledge" ->
         [d EXCEPT !.method = s.method, !.ack = s.refs,
                   !.history = Append(@, Event("acknowledged", s.method, "none", s.refs))]
    [] s.move = "reopen" ->
         [d EXCEPT !.method = "none", !.ack = {},
                   !.history = Append(@, Event("reopened", s.method, "none", s.refs))]
    [] OTHER -> d

Reconcile(d, s) == Moved(Reassessed(Created(d, s), s), s)

-----------------------------------------------------------------------------
(* The run.                                                                *)

Key == [fp |-> Fingerprint, known |-> Exists(report.state)]

Recovered == WithControls(report.state, Rendered(MarkOf(report.state)), report)

Reusable == report.complete /\ report.fp = Fingerprint

(* The accepted submission enters the run's state.                         *)
Conclude(r, s) ==
  /\ pc' = "publish"
  /\ run' = [r EXCEPT !.state = WithSources(Reconcile(r.state, s), r.fp),
                      !.complete = s.complete]

(* Capture, Recover, and then a session, a checkpoint or neither.          *)
Start ==
  /\ pc = "idle"
  /\ LET begun == [fp |-> Fingerprint, state |-> Recovered.state, last |-> Recovered.last,
                   complete |-> FALSE, changed |-> Recovered.changed]
     IN CASE Reusable ->
               /\ Recovered.changed
               /\ pc' = "publish"
               /\ run' = [begun EXCEPT !.complete = TRUE,
                                       !.state = WithSources(@, Fingerprint)]
          [] ~Reusable /\ Key \in DOMAIN checkpoints ->
               Conclude(begun, checkpoints[Key])
          [] OTHER ->
               pc' = "session" /\ run' = begun
  /\ UNCHANGED <<commit, notes, report, persistent, checkpoints, left>>

(* Only a complete submission will be loaded again.                        *)
Submit(s) ==
  /\ pc = "session"
  /\ left' = [left EXCEPT !["submission"] = @ - 1,
                          !["fault"] = IF s.complete THEN @ ELSE @ - 1]
  /\ left'["submission"] >= 0 /\ left'["fault"] >= 0
  /\ Conclude(run, s)
  /\ LET key == [fp |-> run.fp, known |-> Exists(report.state)]
     IN checkpoints' = IF s.complete
                         THEN [k \in DOMAIN checkpoints \cup {key} |->
                                 IF k = key THEN s ELSE checkpoints[k]]
                         ELSE checkpoints
  /\ UNCHANGED <<commit, notes, report, persistent>>

(* The session fails: the coverage of its units does.                      *)
SessionFails ==
  /\ pc = "session"
  /\ Spend("fault")
  /\ pc' = "publish"
  /\ run' = [run EXCEPT !.state = WithSources(@, run.fp)]
  /\ UNCHANGED <<commit, notes, report, persistent, checkpoints>>

(* Recheck and Publish, which merges the clicks made meanwhile; another    *)
(* batch of the review may be missing.                                     *)
Publish ==
  /\ pc = "publish"
  /\ run.fp = Fingerprint
  /\ \E whole \in BOOLEAN :
       /\ IF whole THEN UNCHANGED left ELSE ~Reusable /\ Spend("fault")
       /\ LET d == WithControls(run.state, run.last, report).state
          IN report' = [state |-> d, box |-> Rendered(MarkOf(d)), fp |-> run.fp,
                        complete |-> run.complete /\ whole]
  /\ EndRun
  /\ UNCHANGED <<commit, notes>>

Stale ==
  /\ pc = "publish"
  /\ run.fp # Fingerprint
  /\ EndRun
  /\ UNCHANGED <<commit, notes, report, left>>

(* The job is killed.                                                      *)
Fail ==
  /\ pc # "idle"
  /\ Spend("fault")
  /\ EndRun
  /\ UNCHANGED <<commit, notes, report>>

RunStep ==
  \/ Start
  \/ /\ pc = "session" /\ left["submission"] > 0
     /\ \E s \in Submissions(run.fp, run.state) : Submit(s)
  \/ SessionFails
  \/ Publish
  \/ Stale
  \/ Fail

HumanStep ==
  \/ \E n \in Notes : Write(n) \/ Withdraw(n)
  \/ Push
  \/ Click

Next == RunStep \/ HumanStep

Spec == Init /\ [][Next]_vars
-----------------------------------------------------------------------------
(* Properties.                                                             *)

(* No source acknowledges the finding twice, and after a human has taken   *)
(* an acknowledgement back no source recorded before does so again, however*)
(* runs are killed, incomplete or overtaken.  Checkpoints that outlive the *)
(* job are excepted: what they replay is not validated again.              *)
FreshEvidence ==
  ~persistent =>
    LET h == report.state.history
    IN \A i, j \in DOMAIN h :
         i < j /\ h[j].kind = "acknowledged" /\ h[i].refs \cap h[j].refs # {} =>
           /\ h[i].kind # "acknowledged"
           /\ \A k \in i .. j : ~(h[k].kind = "reopened" /\ h[k].method = "checkbox")

(* The history tells the state: how the finding is acknowledged and on     *)
(* which sources, and what the last assessment of it was.                  *)
HistoryExplainsState ==
  LET d     == report.state
      h     == d.history
      moves == {i \in DOMAIN h : h[i].kind \in {"acknowledged", "reopened"}}
      views == {i \in DOMAIN h : h[i].kind \in {"created", "reassessed"}}
      IsLast(i, S) == i \in S /\ \A j \in S : j <= i
  IN /\ IF \E i \in moves : IsLast(i, moves) /\ h[i].kind = "acknowledged"
          THEN \E i \in moves : IsLast(i, moves) /\ d.method = h[i].method /\ d.ack = h[i].refs
          ELSE d.method = "none" /\ d.ack = {}
     /\ Exists(d) => \E i \in views : IsLast(i, views) /\ d.assess = h[i].assess
                                       /\ d.evidence = h[i].refs

(* Every note the published history rests on is kept with it, also when it *)
(* has been edited or withdrawn since.                                     *)
SourcesKept ==
  \A i \in DOMAIN report.state.history :
    \A s \in report.state.history[i].refs : IsNoteSource(s) => s \in report.state.sources

(* The human's last click that the history knows of was a tick.            *)
Ticked(h) ==
  \E i \in DOMAIN h :
    /\ h[i].kind = "acknowledged" /\ h[i].method = "checkbox"
    /\ \A j \in DOMAIN h : i < j => h[j].method # "checkbox"

Grown(new, old) ==
  Len(old) <= Len(new) /\ \A i \in DOMAIN old : new[i] = old[i]

(* What the box of the replaced report says is what the new report's       *)
(* history says a human did last, and a ticked finding is acknowledged by  *)
(* the human, whatever AI proposed since the run started, was submitted    *)
(* before, or was interrupted; and the history only grows.  One case is    *)
(* excepted: a tick that the old report was rendered with, taken back      *)
(* before the run and set again after AI has acknowledged the finding,     *)
(* shows no click to ReconcileControls.                                    *)
ClicksPrevail ==
  [][report'.state # report.state =>
       LET d == report'.state
       IN /\ Grown(d.history, report.state.history)
          /\ ~persistent /\ report.box = "off" => ~Ticked(d.history)
          /\ ~persistent /\ report.box = "on" =>
               \/ d.method = "checkbox" /\ Ticked(d.history)
               \/ MarkOf(report.state) = "box" /\ MarkOf(d) = "ai"]_vars

(* An acknowledgement that AI has made can be taken back (the session's    *)
(* prompt: unless new evidence supports reopening it): once new code is    *)
(* there, a session may submit that it reopens the finding.                *)
CodeAcknowledgementCanReopen ==
  pc = "session" /\ run.state.method = "ai_code_change"
      /\ CodeSource(run.fp.commit) \notin Consumed(run.state.history) =>
    \E s \in Submissions(run.fp, run.state) : s.move = "reopen"
=============================================================================
