------------------------- MODULE PublicationProofs -------------------------
(***************************************************************************)
(* Proofs about Publication: types; the reports of a merge request always  *)
(* form one chain (Recoverable, from the inductive ReplacementInv); and    *)
(* the publication implements the queue of ReportChain.                    *)
(***************************************************************************)
EXTENDS Publication, FiniteSetTheorems, TLAPS

(* Types, and room for every POST that is still to be applied.             *)
TypeInv ==
  /\ TypeOK
  /\ IsFiniteSet(inflight)
  /\ lastId + Cardinality(inflight) <= posts

LEMMA PrintTypes ==
  /\ SomePrint \in Prints
  /\ TypeOK => Fingerprint \in Prints
BY PublicationAssumption DEF SomePrint, Prints, TypeOK, Fingerprint, Kinds

LEMMA NothingTypes ==
  /\ NoDraft \in Drafts
  /\ Blank \in Reports
  /\ NoJob \in Jobs
<1>1. NoFindings.marks \in [Findings -> Marks] /\ NoFindings.last \in [Findings -> Boxes]
  BY DEF NoFindings, Marks, Boxes
<1>2. NoDraft \in Drafts
  BY <1>1, PrintTypes DEF NoDraft, Drafts
<1>3. Blank \in Reports
  BY <1>1, PrintTypes, PublicationAssumption DEF Blank, Reports, NoNote
<1>4. NoJob \in Jobs
  BY <1>1, <1>2, PrintTypes, PublicationAssumption DEF NoJob, Jobs, NoNote, NoSeen
<1> QED
  BY <1>2, <1>3, <1>4

LEMMA RenderedType ==
  ASSUME NEW marks \in [Findings -> Marks]
  PROVE  RenderedBoxes(marks) \in [Findings -> Boxes]
BY DEF RenderedBoxes, Rendered, Boxes

LEMMA EncodeType ==
  ASSUME NEW d \in Drafts, NEW p \in 0 .. MaxPosts, NEW g \in 0 .. MaxPosts,
         NEW b \in BOOLEAN
  PROVE  Encode(d, p, g, b) \in Reports
<1>1. RenderedBoxes(d.marks) \in [Findings -> Boxes]
  BY RenderedType DEF Drafts
<1> QED
  BY <1>1 DEF Encode, Reports, Drafts

LEMMA RewriteType ==
  ASSUME TypeOK, NEW n \in NoteIds, NEW d \in Drafts,
         NEW p \in 0 .. MaxPosts, NEW g \in 0 .. MaxPosts
  PROVE  /\ Rewrite(n, d, p, g) \in Reports
         /\ Rewrite(n, d, p, g).pred = p
<1>1. Encode(d, p, g, TRUE) \in Reports
  BY EncodeType
<1>2. report[n].replied \in BOOLEAN
  BY DEF TypeOK, Reports
<1> QED
  BY <1>1, <1>2 DEF Rewrite, Reports, Encode

LEMMA ControlsType ==
  ASSUME NEW d \in Drafts, NEW r \in Reports
  PROVE  WithControls(d, r) \in Drafts
<1> DEFINE c == ReconcileControls(r, [marks |-> d.marks, last |-> d.last])
<1>1. c.marks \in [Findings -> Marks]
  BY DEF ReconcileControls, Drafts, Reports, Marks, Boxes
<1>2. c.last \in [Findings -> Boxes]
  BY DEF ReconcileControls, Drafts, Reports, Marks, Boxes
<1> QED
  BY <1>1, <1>2 DEF WithControls, Drafts

LEMMA RecoveredType ==
  ASSUME TypeOK, NEW c \in 0 .. lastId
  PROVE  Recovered(c) \in Drafts
<1>1. CASE c = NoNote
  BY <1>1, NothingTypes DEF Recovered
<1>2. CASE c # NoNote
  <2>1. c \in NoteIds /\ report[c] \in Reports
    BY <1>2, PublicationAssumption DEF TypeOK, NoteIds, NoNote
  <2>2. DecodedDraft(report[c]) \in Drafts
    BY <2>1, RenderedType DEF DecodedDraft, Decoded, Reports, Drafts
  <2> QED
    BY <1>2, <2>1, <2>2, ControlsType DEF Recovered
<1> QED
  BY <1>1, <1>2

LEMMA ResetType ==
  ASSUME TypeOK, NEW result \in Outcomes, EndRun(result)
  PROVE  /\ pc' \in Phases /\ job' \in Jobs /\ raced' \subseteq NoteIds
         /\ outcome' \in Outcomes
BY NothingTypes DEF EndRun, Phases

LEMMA SpendType ==
  ASSUME TypeOK, NEW k \in Kinds, Spend(k)
  PROVE  left' \in [Kinds -> Nat] /\ left'["reply"] <= MaxReplies
BY PublicationAssumption DEF TypeOK, Spend, Kinds

(* A note added within the room that POSTs have made.                      *)
LEMMA AddNoteType ==
  ASSUME TypeOK, NEW r \in Reports, AddNote(r), lastId < MaxPosts
  PROVE  /\ alive' \subseteq NoteIds
         /\ report' \in [NoteIds -> Reports]
         /\ lastId' = lastId + 1
BY PublicationAssumption DEF TypeOK, AddNote, NoteIds

LEMMA PostedType ==
  ASSUME TypeOK, posts < MaxPosts
  PROVE  Posted \in Reports /\ posts + 1 \in 0 .. MaxPosts
<1>1. posts + 1 \in 0 .. MaxPosts /\ job.draft \in Drafts /\ job.cur \in 0 .. MaxPosts
  BY PublicationAssumption DEF TypeOK, Jobs
<1> QED
  BY <1>1, EncodeType DEF Posted

(* The steps that change only the job.                                     *)
LEMMA JobStepType ==
  ASSUME TypeInv, UNCHANGED <<notes, label, mr, left>>,
         detected' \subseteq NoteIds, checkpoints' \subseteq Decisions,
         pc' \in Phases, job' \in Jobs, raced' \subseteq NoteIds, outcome' \in Outcomes
  PROVE  TypeInv'
BY DEF TypeInv, TypeOK, notes

(* The steps that overwrite or delete existing notes.                      *)
LEMMA NoteStepType ==
  ASSUME TypeInv,
         UNCHANGED <<lastId, posts, inflight, stray, detected, checkpoints, label, mr, left>>,
         alive' \subseteq NoteIds, report' \in [NoteIds -> Reports],
         pc' \in Phases, job' \in Jobs, raced' \subseteq NoteIds, outcome' \in Outcomes
  PROVE  TypeInv'
BY DEF TypeInv, TypeOK

LEMMA NotesAreNumbers == NoteIds \subseteq 0 .. MaxPosts
BY PublicationAssumption DEF NoteIds

LEMMA InitType == Init => TypeInv
<1> SUFFICES ASSUME Init PROVE TypeInv
  OBVIOUS
<1>1. mr \in Versions /\ label \in Labels /\ pc \in Phases /\ outcome \in Outcomes
      /\ raced \subseteq NoteIds /\ detected \subseteq NoteIds /\ stray \in BOOLEAN
      /\ checkpoints \subseteq Decisions
  BY DEF Init, Labels, Phases, Outcomes
<1>2. job \in Jobs
  BY NothingTypes DEF Init
<1>3. left \in [Kinds -> Nat] /\ left["reply"] <= MaxReplies
  <2>1. left["reply"] = MaxReplies
    BY DEF Init, Kinds
  <2>2. left \in [Kinds -> Nat]
    BY PublicationAssumption DEF Init
  <2> QED
    BY <2>1, <2>2, PublicationAssumption
<1>4. ASSUME NEW mark \in Marks
      PROVE  SeedReport(mark) \in Reports
  <2> DEFINE marks == [f \in Findings |-> mark]
             d == [fp |-> [version |-> mr, replies |-> MaxReplies], complete |-> TRUE,
                   approved |-> FALSE, marks |-> marks, last |-> RenderedBoxes(marks)]
  <2>1. [version |-> mr, replies |-> MaxReplies] \in Prints
    BY <1>1, PublicationAssumption DEF Prints
  <2>2. marks \in [Findings -> Marks] /\ RenderedBoxes(marks) \in [Findings -> Boxes]
    BY DEF RenderedBoxes, Rendered, Boxes
  <2>3. d \in Drafts
    BY <2>1, <2>2 DEF Drafts
  <2>4. NoNote \in 0 .. MaxPosts /\ 1 \in 0 .. MaxPosts
    BY PublicationAssumption DEF NoNote
  <2>5. Encode(d, NoNote, 1, TRUE) \in Reports
    BY <2>3, <2>4, EncodeType
  <2> QED
    BY <2>5 DEF SeedReport
<1>5. report \in [NoteIds -> Reports]
  <2>1. PICK mark \in Seeded :
          /\ alive = IF mark = "none" THEN {} ELSE {1}
          /\ report = [n \in NoteIds |-> IF n \in alive THEN SeedReport(mark) ELSE Blank]
    BY DEF Init
  <2>2. mark # "none" => SeedReport(mark) \in Reports
    BY <1>4, PublicationAssumption
  <2> QED
    BY <2>1, <2>2, NothingTypes
<1>6. /\ alive \subseteq NoteIds /\ posts \in 0 .. MaxPosts /\ lastId = posts
      /\ inflight = {}
  BY PublicationAssumption DEF Init, NoteIds
<1>7. IsFiniteSet(inflight) /\ Cardinality(inflight) = 0
  BY <1>6, FS_EmptySet
<1> QED
  BY <1>1, <1>2, <1>3, <1>5, <1>6, <1>7, PublicationAssumption DEF TypeInv, TypeOK

(* Humans and the network.                                                 *)
LEMMA HumanType == TypeInv /\ HumanStep => TypeInv'
<1> SUFFICES ASSUME TypeInv, HumanStep PROVE TypeInv'
  OBVIOUS
<1> TypeOK
  BY DEF TypeInv
<1>1. ASSUME NEW n \in alive, NEW f \in Findings, Toggle(n, f) PROVE TypeInv'
  <2>1. left' \in [Kinds -> Nat] /\ left'["reply"] <= MaxReplies
    BY <1>1, SpendType DEF Toggle, Kinds
  <2>2. report' \in [NoteIds -> Reports]
    <3> DEFINE b == [report[n].boxes EXCEPT ![f] = IF @ = "off" THEN "on" ELSE "off"]
    <3>1. n \in NoteIds /\ report[n] \in Reports
      BY DEF TypeOK
    <3>2. b \in [Findings -> Boxes]
      BY <3>1 DEF Reports, Boxes
    <3>3. [report[n] EXCEPT !.boxes = b] \in Reports
      BY <3>1, <3>2 DEF Reports
    <3>4. report' = [report EXCEPT ![n] = [report[n] EXCEPT !.boxes = b]]
      BY <1>1 DEF Toggle
    <3> HIDE DEF b
    <3> QED
      BY <3>1, <3>3, <3>4 DEF TypeOK
  <2>3. raced' \subseteq NoteIds /\ detected' \subseteq NoteIds
    BY <1>1 DEF Toggle, TypeOK
  <2> QED
    BY <1>1, <2>1, <2>2, <2>3 DEF Toggle, TypeInv, TypeOK
<1>2. ASSUME NEW n \in alive, Reply(n) PROVE TypeInv'
  <2>1. left' \in [Kinds -> Nat] /\ left'["reply"] <= MaxReplies
    BY <1>2, SpendType DEF Reply, Kinds
  <2>2. report' \in [NoteIds -> Reports]
    <3>1. n \in NoteIds /\ report[n] \in Reports
      BY DEF TypeOK
    <3>2. [report[n] EXCEPT !.replied = TRUE] \in Reports
      BY <3>1 DEF Reports
    <3>3. report' = [report EXCEPT ![n] = [report[n] EXCEPT !.replied = TRUE]]
      BY <1>2 DEF Reply
    <3> QED
      BY <3>1, <3>2, <3>3 DEF TypeOK
  <2>3. raced' \subseteq NoteIds
    BY <1>2 DEF Reply, TypeOK
  <2> QED
    BY <1>2, <2>1, <2>2, <2>3 DEF Reply, TypeInv, TypeOK
<1>3. CASE Change
  <2>1. left' \in [Kinds -> Nat] /\ left'["reply"] <= MaxReplies
    BY <1>3, SpendType DEF Change, Kinds
  <2> QED
    BY <1>3, <2>1 DEF Change, hub, notes, TypeInv, TypeOK
<1> QED
  BY <1>1, <1>2, <1>3 DEF HumanStep

LEMMA FaultType == TypeInv /\ FaultStep => TypeInv'
<1> SUFFICES ASSUME TypeInv, FaultStep PROVE TypeInv'
  OBVIOUS
<1> USE PublicationAssumption
<1> TypeOK
  BY DEF TypeInv
<1>c. Cardinality(inflight) \in Nat
  BY FS_CardinalityType DEF TypeInv
<1>1. CASE CreateNoteError
  <2>1. posts < MaxPosts /\ posts' = posts + 1 /\ pc' \in Phases
    BY <1>1 DEF CreateNoteError, Send, Goto, Phases
  <2>2. Posted \in Reports /\ posts + 1 \in 0 .. MaxPosts
    BY <2>1, PostedType
  <2>3. job' \in Jobs
    BY <1>1, <2>2 DEF CreateNoteError, TypeOK, Jobs
  <2>4. stray' = stray /\ detected' = detected /\ label' = label /\ mr' = mr
        /\ raced' = raced /\ outcome' = outcome /\ checkpoints' = checkpoints
    BY <1>1 DEF CreateNoteError
  <2>5. CASE Spend("fault") /\ AddNote(Posted) /\ UNCHANGED inflight
    <3>1. left' \in [Kinds -> Nat] /\ left'["reply"] <= MaxReplies
      BY <2>5, SpendType DEF Kinds
    <3>2. lastId < MaxPosts
      BY <2>1 DEF TypeOK
    <3>3. /\ alive' \subseteq NoteIds /\ report' \in [NoteIds -> Reports]
          /\ lastId' = lastId + 1
      BY <2>2, <2>5, <3>2, AddNoteType
    <3> QED
      BY <1>c, <2>1, <2>2, <2>3, <2>4, <2>5, <3>1, <3>3 DEF TypeInv, TypeOK
  <2>6. CASE Spend("late") /\ inflight' = inflight \cup {Posted}
             /\ UNCHANGED <<alive, report, lastId>>
    <3>1. left' \in [Kinds -> Nat] /\ left'["reply"] <= MaxReplies
      BY <2>6, SpendType DEF Kinds
    <3>2. IsFiniteSet(inflight') /\ Cardinality(inflight') <= Cardinality(inflight) + 1
      <4>1. IsFiniteSet(inflight) /\ Cardinality(inflight) \in Nat
        BY <1>c DEF TypeInv
      <4> HIDE DEF Posted
      <4>2. /\ IsFiniteSet(inflight \cup {Posted})
            /\ \/ Cardinality(inflight \cup {Posted}) = Cardinality(inflight)
               \/ Cardinality(inflight \cup {Posted}) = Cardinality(inflight) + 1
        BY <4>1, FS_AddElement
      <4>3. inflight' = inflight \cup {Posted}
        BY <2>6
      <4> QED
        BY <4>1, <4>2, <4>3
    <3>3. Cardinality(inflight') \in Nat
      BY <3>2, FS_CardinalityType
    <3>4. lastId' + Cardinality(inflight') <= posts'
      BY <1>c, <2>1, <2>6, <3>2, <3>3 DEF TypeInv, TypeOK
    <3>5. lastId' \in 0 .. posts' /\ posts' \in 0 .. MaxPosts
      BY <2>1, <2>2, <2>6 DEF TypeOK
    <3> QED
      BY <2>1, <2>2, <2>3, <2>4, <2>6, <3>1, <3>2, <3>4, <3>5 DEF TypeInv, TypeOK
  <2>7. CASE Spend("fault") /\ UNCHANGED <<alive, report, lastId, inflight>>
    <3>1. left' \in [Kinds -> Nat] /\ left'["reply"] <= MaxReplies
      BY <2>7, SpendType DEF Kinds
    <3> QED
      BY <1>c, <2>1, <2>2, <2>3, <2>4, <2>7, <3>1 DEF TypeInv, TypeOK
  <2> QED
    BY <1>1, <2>5, <2>6, <2>7 DEF CreateNoteError
<1>2. CASE LandLate
  <2>1. PICK r \in inflight : /\ AddNote(r) /\ inflight' = inflight \ {r}
                              /\ stray' \in BOOLEAN
                              /\ UNCHANGED <<posts, detected, checkpoints, label, mr,
                                             left, pc, job, raced, outcome>>
    BY <1>2 DEF LandLate
  <2>2. IsFiniteSet(inflight') /\ Cardinality(inflight') = Cardinality(inflight) - 1
    BY <2>1, FS_RemoveElement DEF TypeInv
  <2>3. Cardinality(inflight') \in Nat
    BY <2>2, FS_CardinalityType
  <2>4. lastId < posts /\ lastId < MaxPosts
    BY <1>c, <2>2, <2>3 DEF TypeInv, TypeOK
  <2>5. /\ alive' \subseteq NoteIds /\ report' \in [NoteIds -> Reports]
        /\ lastId' = lastId + 1
    BY <2>1, <2>4, AddNoteType DEF TypeOK
  <2> QED
    BY <1>c, <2>1, <2>2, <2>3, <2>4, <2>5 DEF TypeInv, TypeOK
<1>3. CASE Fail
  <2>1. left' \in [Kinds -> Nat] /\ left'["reply"] <= MaxReplies
    BY <1>3, SpendType DEF Fail, Kinds
  <2>2. EndRun("failed") /\ UNCHANGED <<hub, label, mr>>
    BY <1>3 DEF Fail
  <2>3. /\ pc' \in Phases /\ job' \in Jobs /\ raced' \subseteq NoteIds
        /\ outcome' \in Outcomes
    BY <2>2, ResetType DEF Outcomes
  <2> QED
    BY <2>1, <2>2, <2>3 DEF hub, notes, TypeInv, TypeOK
<1> QED
  BY <1>1, <1>2, <1>3 DEF FaultStep

(* A review changes an acknowledgement only to or from that of AI.         *)
LEMMA ReviewDecides ==
  ASSUME TypeOK, NEW marks \in [Findings -> Marks], NEW complete, NEW approved,
         Review(marks, complete, approved)
  PROVE  Decided(marks) \subseteq Decisions
<1> SUFFICES ASSUME NEW f \in Findings, job.draft.marks[f] \notin {"absent", marks[f]}
             PROVE  [fp |-> job.cap, finding |-> f, mark |-> marks[f]] \in Decisions
  BY DEF Decided
<1>1. job.cap \in Prints /\ job.draft.marks[f] \in Marks
  BY DEF TypeOK, Jobs, Drafts
<1>2. marks[f] \in {"open", "ai"}
  <2>1. CASE AITransition(job.draft.marks[f], marks[f])
    BY <1>1, <2>1 DEF AITransition, Marks
  <2>2. CASE Replays(f, marks[f])
    BY <2>2 DEF Replays, TypeOK, Decisions
  <2> QED
    BY <2>1, <2>2 DEF Review
<1> QED
  BY <1>1, <1>2 DEF Decisions

(* What the job does, phase by phase.                                      *)
LEMMA CoordinatorType ==
  TypeInv =>
    /\ Start => TypeInv'
    /\ \A c \in 0 .. lastId :
         RecoverRepair(c) \/ RecoverRepublish(c) \/ RecoverReview(c) => TypeInv'
    /\ RecoverConflict => TypeInv'
    /\ \A marks \in [Findings -> Marks], complete, approved \in BOOLEAN :
         Review(marks, complete, approved) => TypeInv'
<1> SUFFICES ASSUME TypeInv
             PROVE  /\ Start => TypeInv'
                    /\ \A c \in 0 .. lastId :
                         RecoverRepair(c) \/ RecoverRepublish(c) \/ RecoverReview(c) => TypeInv'
                    /\ RecoverConflict => TypeInv'
                    /\ \A marks \in [Findings -> Marks], complete, approved \in BOOLEAN :
                         Review(marks, complete, approved) => TypeInv'
  OBVIOUS
<1> USE PublicationAssumption
<1> TypeOK
  BY DEF TypeInv
<1>1. ASSUME Start PROVE TypeInv'
  <2>1. job' \in Jobs
    BY <1>1, PrintTypes, NothingTypes DEF Start, Jobs
  <2> QED
    BY <1>1, <2>1, JobStepType DEF Start, Goto, Phases, Outcomes, TypeOK
<1>2. ASSUME NEW c \in 0 .. lastId,
             RecoverRepair(c) \/ RecoverRepublish(c) \/ RecoverReview(c)
      PROVE  TypeInv'
  <2>1. Recovered(c) \in Drafts /\ c \in 0 .. MaxPosts
    BY RecoveredType DEF TypeOK
  <2>2. c # NoNote => report[c].gen \in 0 .. MaxPosts
    BY DEF TypeOK, NoteIds, Reports, NoNote
  <2>3. NoNote \in 0 .. MaxPosts
    BY DEF NoNote
  <2>4. job' \in Jobs
    BY <1>2, <2>1, <2>2, <2>3
       DEF RecoverRepair, RecoverRepublish, RecoverReview, Reusable, TypeOK, Jobs
  <2> QED
    BY <1>2, <2>4, JobStepType
       DEF RecoverRepair, RecoverRepublish, RecoverReview, Goto, Phases, gitlab, hub, TypeOK
<1>3. ASSUME RecoverConflict PROVE TypeInv'
  BY <1>3, ResetType, JobStepType DEF RecoverConflict, gitlab, hub, TypeOK, Outcomes
<1>4. ASSUME NEW marks \in [Findings -> Marks], NEW complete \in BOOLEAN,
             NEW approved \in BOOLEAN, Review(marks, complete, approved)
      PROVE  TypeInv'
  <2>1. left' \in [Kinds -> Nat] /\ left'["reply"] <= MaxReplies
    BY <1>4, SpendType DEF Review, Kinds, TypeOK
  <2>2. [job.draft EXCEPT !.fp = job.cap, !.complete = complete,
                          !.approved = approved, !.marks = marks] \in Drafts
    BY DEF TypeOK, Jobs, Drafts
  <2>3. job' \in Jobs
    BY <1>4, <2>2 DEF Review, TypeOK, Jobs
  <2>4. checkpoints' \subseteq Decisions
    <3>1. Decided(marks) \subseteq Decisions
      BY <1>4, ReviewDecides
    <3> QED
      BY <1>4, <3>1 DEF Review, TypeOK
  <2> QED
    BY <1>4, <2>1, <2>3, <2>4 DEF Review, Goto, Phases, notes, TypeInv, TypeOK
<1> QED
  BY <1>1, <1>2, <1>3, <1>4

(* The steps that end the run or move on without touching the job.         *)
LEMMA MoveType ==
  ASSUME TypeInv, UNCHANGED gitlab,
         \/ pc' \in Phases /\ UNCHANGED <<job, raced, outcome>>
         \/ EndRun("failed")
         \/ EndRun("ok")
  PROVE  TypeInv'
<1> TypeOK
  BY DEF TypeInv
<1>1. /\ pc' \in Phases /\ job' \in Jobs /\ raced' \subseteq NoteIds
      /\ outcome' \in Outcomes
  <2>1. CASE pc' \in Phases /\ UNCHANGED <<job, raced, outcome>>
    BY <2>1 DEF TypeOK
  <2>2. CASE EndRun("failed") \/ EndRun("ok")
    BY <2>2, ResetType DEF Outcomes
  <2> QED
    BY <2>1, <2>2
<1> QED
  BY <1>1, JobStepType DEF gitlab, hub, TypeOK

LEMMA PublisherType ==
  ASSUME TypeInv,
         \/ CheckFreshness \/ RecoverAgain \/ Confirm \/ CreateNote \/ OutOfPosts
         \/ FindGeneration \/ Finalise \/ VerifyReport("verify", "fresh3")
         \/ Inspect("discard", "discardDelete") \/ Discard \/ LateControls \/ LateUpdate
         \/ VerifyReport("lateVerify", "inspect") \/ Inspect("inspect", "reread")
         \/ Reread \/ (\E n \in alive : Retire(n)) \/ RetireDone \/ Converge
  PROVE  TypeInv'
<1> USE PublicationAssumption
<1> TypeOK
  BY DEF TypeInv
<1>1. CASE CheckFreshness
  <2>1. CASE \/ Fresh("fresh1", "recover2") \/ Fresh("fresh2", "confirm")
             \/ Fresh("fresh3", "late") \/ Fresh("fresh4", "retire")
             \/ \E from \in {"fresh1", "fresh2", "fresh4"} : StaleEnd(from)
    BY <2>1, MoveType DEF Fresh, StaleEnd, Goto, Phases
  <2>2. CASE StaleDiscard
    <3>1. left' \in [Kinds -> Nat] /\ left'["reply"] <= MaxReplies
      BY <2>2, SpendType DEF StaleDiscard, Kinds, TypeOK
    <3> QED
      BY <2>2, <3>1 DEF StaleDiscard, Goto, Phases, hub, notes, TypeInv, TypeOK
  <2> QED
    BY <1>1, <2>1, <2>2 DEF CheckFreshness
<1>2. CASE RecoverAgain
  <2>1. CASE IsCurrent(job.cur)
    <3>1. alive \ {job.cur} \in SUBSET NoteIds
      BY DEF TypeOK
    <3>2. [n \in NoteIds |-> report[n].boxes] \in [NoteIds -> [Findings -> Boxes]]
      BY DEF TypeOK, Reports
    <3>3. (IF job.cur = NoNote THEN job.draft
           ELSE WithControls(job.draft, report[job.cur])) \in Drafts
      BY ControlsType DEF TypeOK, Jobs, NoteIds, NoNote
    <3>4. job' \in Jobs
      BY <1>2, <2>1, <3>1, <3>2, <3>3 DEF RecoverAgain, TypeOK, Jobs
    <3> QED
      BY <1>2, <2>1, <3>4, JobStepType DEF RecoverAgain, Phases, gitlab, hub, TypeOK
  <2>2. CASE ~IsCurrent(job.cur)
    BY <1>2, <2>2, MoveType DEF RecoverAgain
  <2> QED
    BY <2>1, <2>2
<1>3. CASE Confirm
  BY <1>3, MoveType DEF Confirm, Phases
<1>4. CASE CreateNote
  <2>1. posts < MaxPosts /\ posts' = posts + 1 /\ pc' \in Phases /\ lastId <= posts
    BY <1>4 DEF CreateNote, Send, Goto, Phases, TypeOK
  <2>2. Posted \in Reports /\ posts + 1 \in 0 .. MaxPosts
    BY <2>1, PostedType
  <2>3. /\ alive' \subseteq NoteIds /\ report' \in [NoteIds -> Reports]
        /\ lastId' = lastId + 1
    BY <1>4, <2>1, <2>2, AddNoteType DEF CreateNote, TypeOK
  <2>4. lastId + 1 \in 0 .. MaxPosts
    BY <2>1 DEF TypeOK
  <2>5. job' \in Jobs
    BY <1>4, <2>2, <2>4 DEF CreateNote, TypeOK, Jobs
  <2>6. Cardinality(inflight) \in Nat
    BY FS_CardinalityType DEF TypeInv
  <2> QED
    BY <1>4, <2>1, <2>2, <2>3, <2>5, <2>6 DEF CreateNote, TypeInv, TypeOK
<1>5. CASE OutOfPosts
  BY <1>5, MoveType DEF OutOfPosts
<1>6. CASE FindGeneration
  <2>1. CASE EndRun("failed")
    BY <1>6, <2>1, MoveType DEF FindGeneration
  <2>2. CASE ~EndRun("failed")
    <3>1. PICK n \in alive : /\ pc' = "finalise" /\ job' = [job EXCEPT !.succ = n]
                             /\ UNCHANGED <<gitlab, raced, outcome>>
      BY <1>6, <2>2 DEF FindGeneration
    <3>2. n \in 0 .. MaxPosts
      <4>1. n \in NoteIds
        BY DEF TypeOK
      <4> QED
        BY <4>1, NotesAreNumbers
    <3>3. job' \in Jobs
      BY <3>1, <3>2 DEF TypeOK, Jobs
    <3> QED
      BY <3>1, <3>3, JobStepType DEF Phases, gitlab, hub, TypeOK
  <2> QED
    BY <2>1, <2>2
<1>7. CASE Finalise \/ LateUpdate
  <2>1. job.cur \in 0 .. MaxPosts /\ job.gen \in 0 .. MaxPosts /\ job.draft \in Drafts
    BY DEF TypeOK, Jobs
  <2>2. \A n \in NoteIds : Rewrite(n, job.draft, job.cur, job.gen) \in Reports
    BY <2>1, RewriteType
  <2>3. report' \in [NoteIds -> Reports]
    BY <1>7, <2>2 DEF Finalise, LateUpdate, TypeOK
  <2>4. UNCHANGED <<alive, lastId, posts, inflight, stray, detected, checkpoints, label,
                    mr, left, job, raced, outcome>>
    BY <1>7 DEF Finalise, LateUpdate
  <2>5. pc' \in Phases
    BY <1>7 DEF Finalise, LateUpdate, Goto, Phases
  <2> QED
    BY <2>3, <2>4, <2>5, NoteStepType DEF TypeOK
<1>8. CASE VerifyReport("verify", "fresh3") \/ VerifyReport("lateVerify", "inspect")
  BY <1>8, MoveType DEF VerifyReport, Phases
<1>9. CASE Inspect("discard", "discardDelete") \/ Inspect("inspect", "reread")
  <2>1. {n \in alive : report[n].replied} \in SUBSET NoteIds
    BY DEF TypeOK
  <2>2. job' \in Jobs
    BY <1>9, <2>1 DEF Inspect, TypeOK, Jobs
  <2> QED
    BY <1>9, <2>2, JobStepType DEF Inspect, Goto, Phases, gitlab, hub, TypeOK
<1>10. CASE Discard
  <2>1. alive' \subseteq NoteIds /\ report' \in [NoteIds -> Reports]
    BY <1>10, NothingTypes DEF Discard, Delete, TypeOK
  <2>2. /\ pc' \in Phases /\ job' \in Jobs /\ raced' \subseteq NoteIds
        /\ outcome' \in Outcomes
    BY <1>10, ResetType DEF Discard, Outcomes
  <2> QED
    BY <1>10, <2>1, <2>2, NoteStepType DEF Discard
<1>11. CASE LateControls
  <2>1. CASE job.cur = NoNote
    BY <1>11, <2>1, MoveType DEF LateControls, Phases
  <2>2. CASE job.cur # NoNote
    <3> DEFINE d == WithControls(job.draft, report[job.cur])
    <3>1. job.cur \in NoteIds /\ report[job.cur] \in Reports
      BY <2>2 DEF TypeOK, Jobs, NoteIds, NoNote
    <3>2. d \in Drafts
      BY <3>1, ControlsType DEF TypeOK, Jobs
    <3>3. [job.seen EXCEPT ![job.cur] = report[job.cur].boxes]
            \in [NoteIds -> [Findings -> Boxes]]
      BY <3>1 DEF TypeOK, Jobs, Reports
    <3>4. /\ pc' \in {"inspect", "lateUpdate"}
          /\ job' = [job EXCEPT !.draft = d, !.seen[job.cur] = report[job.cur].boxes]
      BY <1>11, <2>2 DEF LateControls
    <3> HIDE DEF d
    <3>5. job' \in Jobs
      BY <3>2, <3>3, <3>4 DEF TypeOK, Jobs
    <3> QED
      BY <1>11, <3>4, <3>5, JobStepType DEF LateControls, Phases, gitlab, hub, TypeOK
  <2> QED
    BY <2>1, <2>2
<1>12. CASE Reread
  <2>1. detected' \subseteq NoteIds /\ Retirees \in SUBSET NoteIds
    <3>1. Retirees \subseteq NoteIds
      BY DEF Retirees, TypeOK, Jobs, NoteIds, NoNote
    <3>2. detected' \subseteq detected \cup Retirees \cup alive
      BY <1>12 DEF Reread, ChangedSinceRead
    <3> QED BY <3>1, <3>2 DEF TypeOK
  <2>2. CASE EndRun("failed")
    BY <1>12, <2>1, <2>2, ResetType, JobStepType DEF Reread, Outcomes, TypeOK
  <2>3. CASE ~EndRun("failed")
    <3>1. job' \in Jobs
      BY <1>12, <2>1, <2>3 DEF Reread, TypeOK, Jobs
    <3> QED
      BY <1>12, <2>1, <2>3, <3>1, JobStepType DEF Reread, Phases, TypeOK
  <2> QED
    BY <2>2, <2>3
<1>13. ASSUME NEW n \in alive, Retire(n) PROVE TypeInv'
  <2>1. alive' \subseteq NoteIds /\ report' \in [NoteIds -> Reports]
    BY <1>13, NothingTypes DEF Retire, Delete, TypeOK
  <2>2. job' \in Jobs
    BY <1>13 DEF Retire, TypeOK, Jobs
  <2> QED
    BY <1>13, <2>1, <2>2, NoteStepType DEF Retire, TypeOK
<1>14. CASE RetireDone
  BY <1>14, MoveType DEF RetireDone, Goto, Phases
<1>15. CASE Converge
  BY <1>15, MoveType DEF Converge, Phases
<1> QED
  BY <1>1, <1>2, <1>3, <1>4, <1>5, <1>6, <1>7, <1>8, <1>9, <1>10, <1>11, <1>12,
     <1>13, <1>14, <1>15

LEMMA LabelsType == TypeInv /\ SyncPublishedLabels => TypeInv'
<1> SUFFICES ASSUME TypeInv, SyncPublishedLabels PROVE TypeInv'
  OBVIOUS
<1> TypeOK
  BY DEF TypeInv
<1>1. CASE \/ VerifyCurrent("labelVerify", "labelFresh")
           \/ VerifyCurrent("labelRecheck", "labelClear")
           \/ Fresh("labelFresh", "labelSync")
           \/ Fresh("labelFresh2", "labelConfirm")
           \/ LabelsDone
  BY <1>1, MoveType DEF VerifyCurrent, Fresh, LabelsDone, Goto, Phases
<1>2. CASE SyncLabels
  <2>1. label' \in Labels
    BY <1>2 DEF SyncLabels, VerdictLabel, Labels
  <2> QED
    BY <1>2, <2>1 DEF SyncLabels, Goto, Phases, hub, notes, TypeInv, TypeOK
<1>3. CASE LabelsStale
  <2>1. left' \in [Kinds -> Nat] /\ left'["reply"] <= MaxReplies
    BY <1>3, SpendType DEF LabelsStale, Kinds, TypeOK
  <2> QED
    BY <1>3, <2>1 DEF LabelsStale, Goto, Phases, hub, notes, TypeInv, TypeOK
<1>4. CASE ClearLabels
  <2>1. /\ pc' \in Phases /\ job' \in Jobs /\ raced' \subseteq NoteIds
        /\ outcome' \in Outcomes
    BY <1>4, ResetType DEF ClearLabels, Outcomes
  <2> QED
    BY <1>4, <2>1 DEF ClearLabels, Labels, hub, notes, TypeInv, TypeOK
<1> QED
  BY <1>1, <1>2, <1>3, <1>4 DEF SyncPublishedLabels

LEMMA TypeStep == TypeInv /\ [Next]_vars => TypeInv'
<1> SUFFICES ASSUME TypeInv, [Next]_vars PROVE TypeInv'
  OBVIOUS
<1>1. CASE RunStep
  BY <1>1, CoordinatorType, PublisherType, LabelsType DEF RunStep
<1>2. CASE FaultStep
  BY <1>2, FaultType
<1>3. CASE HumanStep
  BY <1>3, HumanType
<1>4. CASE UNCHANGED vars
  BY <1>4 DEF vars, hub, notes, TypeInv, TypeOK
<1> QED
  BY <1>1, <1>2, <1>3, <1>4 DEF Next

(* Every variable keeps its type, and GitLab never hands out more note IDs *)
(* than POSTs were sent.                                                   *)
THEOREM TypeCorrect == Spec => []TypeOK
<1>1. TypeInv => TypeOK
  BY DEF TypeInv
<1> QED
  BY <1>1, InitType, TypeStep, PTL DEF Spec

-----------------------------------------------------------------------------
(* The reports form one chain.                                             *)

Inv == TypeInv /\ ReplacementInv

-----------------------------------------------------------------------------
(* Facts about chains.                                                     *)

LEMMA NoteIdsAreNumbers ==
  ASSUME TypeOK
  PROVE  /\ alive \subseteq Nat \ {0}
         /\ \A n \in alive : report[n].pred \in Nat
         /\ \A r \in inflight : r.pred \in Nat
         /\ lastId \in Nat /\ lastId <= MaxPosts /\ job.cur \in Nat /\ job.succ \in Nat
         /\ Retirees \subseteq Nat \ {0} /\ job.todo \subseteq Nat \ {0}
<1>1. MaxPosts \in Nat
  BY PublicationAssumption DEF PublicationAssumption
<1>2. NoteIds = 1 .. MaxPosts /\ NoteIds \subseteq Nat \ {0}
  BY <1>1 DEF NoteIds
<1>3. /\ job.cur \in 0 .. MaxPosts /\ job.succ \in 0 .. MaxPosts
      /\ job.todo \subseteq NoteIds /\ job.sup \subseteq NoteIds
  BY DEF TypeOK, Jobs
<1>4. /\ \A n \in alive : report[n].pred \in 0 .. MaxPosts
      /\ \A r \in inflight : r.pred \in 0 .. MaxPosts
      /\ alive \subseteq NoteIds /\ posts \in 0 .. MaxPosts /\ lastId \in 0 .. posts
  BY DEF TypeOK, Reports
<1>5. Retirees \subseteq NoteIds
  BY <1>1, <1>2, <1>3 DEF Retirees, NoNote
<1> QED BY <1>1, <1>2, <1>3, <1>4, <1>5

(* A chain has one head, its newest report.                                *)
LEMMA ChainHasOneHead ==
  ASSUME TypeOK, Chain
  PROVE  alive = {} \/ \E h \in alive : Heads = {h} /\ \A n \in alive : n <= h
<1> SUFFICES ASSUME alive # {}
             PROVE  \E h \in alive : Heads = {h} /\ \A n \in alive : n <= h
  OBVIOUS
<1>1. PICK h \in alive : \A n \in alive : n <= h
  BY DEF Chain
<1>2. h \in Heads
  BY <1>1, NoteIdsAreNumbers DEF Heads, Chain
<1>3. \A n \in Heads : n = h
  <2> TAKE n \in Heads
  <2>1. n \in alive /\ \A m \in alive : report[m].pred # n
    BY DEF Heads
  <2>2. \A m \in alive : m <= n
    BY <2>1 DEF Chain
  <2> QED
    BY <1>1, <2>1, <2>2, NoteIdsAreNumbers
<1> QED
  BY <1>1, <1>2, <1>3

(* What selectCurrentReport takes for current is the newest report.        *)
LEMMA CurrentIsNewest ==
  ASSUME TypeOK, Chain, NEW c, IsCurrent(c)
  PROVE  Newest(c)
<1>1. CASE c = NoNote /\ alive = {}
  BY <1>1 DEF Newest
<1>2. CASE c \in Heads
  <2>1. PICK h \in alive : Heads = {h} /\ \A n \in alive : n <= h
    BY <1>2, ChainHasOneHead DEF Heads
  <2> QED
    BY <1>2, <2>1 DEF Newest
<1> QED
  BY <1>1, <1>2 DEF IsCurrent

(* Steps that leave the notes and their predecessors alone.                *)
LEMMA ChainStays ==
  ASSUME Chain, alive' = alive, \A n \in alive : report'[n].pred = report[n].pred
  PROVE  Chain'
<1>1. alive' = {} \/ \E h \in alive' : \A n \in alive' : n <= h
  BY DEF Chain
<1>2. \A n \in alive' : (\A m \in alive' : m <= n) \/ \E m \in alive' : report'[m].pred = n
  BY DEF Chain
<1>3. \A m \in alive' :
        /\ report'[m].pred < m
        /\ \A n \in alive' : n < m => n <= report'[m].pred /\ report'[m].pred \in alive'
  BY DEF Chain
<1> QED
  BY <1>1, <1>2, <1>3 DEF Chain

(* A report added after the newest one.                                    *)
LEMMA ChainGrows ==
  ASSUME TypeOK, Chain, \A n \in alive : n <= lastId, lastId < MaxPosts,
         NEW r \in Reports, AddNote(r), Newest(r.pred), r.pred <= lastId
  PROVE  Chain'
<1> DEFINE k == lastId + 1
<1>1. /\ k \in NoteIds /\ alive' = alive \cup {k} /\ report'[k] = r
      /\ \A n \in alive : n < k /\ report'[n] = report[n]
  <2>1. k \in NoteIds
    BY NoteIdsAreNumbers, PublicationAssumption DEF NoteIds
  <2>2. \A n \in alive : n < k /\ n \in NoteIds
    BY NoteIdsAreNumbers DEF TypeOK
  <2>3. alive' = alive \cup {k} /\ report' = [report EXCEPT ![k] = r]
    BY DEF AddNote
  <2> HIDE DEF k
  <2> QED
    BY <2>1, <2>2, <2>3, NoteIdsAreNumbers DEF TypeOK
<1>2. r.pred \in Nat /\ r.pred < k /\ k \in Nat
  BY NoteIdsAreNumbers DEF Reports
<1> HIDE DEF k
<1>3. \A n \in alive' : n <= k
  BY <1>1, <1>2, NoteIdsAreNumbers
<1>4. \A n \in alive' : (\A m \in alive' : m <= n) \/ \E m \in alive' : report'[m].pred = n
  <2> TAKE n \in alive'
  <2>1. CASE n = k
    BY <1>3, <2>1
  <2>2. CASE n \in alive /\ n = r.pred
    BY <1>1, <2>2
  <2>3. CASE n \in alive /\ n # r.pred
    <3>1. r.pred \in alive /\ n < r.pred
      BY <2>3, NoteIdsAreNumbers DEF Newest
    <3>2. PICK m \in alive : report[m].pred = n
      BY <2>3, <3>1, NoteIdsAreNumbers DEF Chain
    <3> QED
      BY <1>1, <3>2
  <2> QED
    BY <1>1, <2>1, <2>2, <2>3
<1>5. \A m \in alive' :
        /\ report'[m].pred < m
        /\ \A n \in alive' : n < m => n <= report'[m].pred /\ report'[m].pred \in alive'
  <2> TAKE m \in alive'
  <2>1. CASE m = k
    <3>1. \A n \in alive : n <= r.pred /\ r.pred \in alive
      BY DEF Newest
    <3> QED
      BY <1>1, <1>2, <2>1, <3>1
  <2>2. CASE m \in alive
    <3>1. ~(k < m)
      BY <1>1, <1>2, <2>2, NoteIdsAreNumbers
    <3>2. /\ report[m].pred < m
          /\ \A n \in alive : n < m => n <= report[m].pred /\ report[m].pred \in alive
      BY <2>2 DEF Chain
    <3> QED
      BY <1>1, <2>2, <3>1, <3>2
  <2> QED
    BY <1>1, <2>1, <2>2
<1> QED
  BY <1>1, <1>3, <1>4, <1>5 DEF Chain

(* The oldest report is deleted.                                           *)
LEMMA ChainLosesOldest ==
  ASSUME TypeOK, Chain, NEW k \in alive, \A n \in alive : k <= n, Delete(k)
  PROVE  Chain'
<1>1. alive' = alive \ {k} /\ \A n \in alive' : n \in alive /\ report'[n] = report[n]
  BY DEF Delete, TypeOK
<1>2. alive' = {} \/ \E h \in alive' : \A n \in alive' : n <= h
  <2>1. PICK h \in alive : \A n \in alive : n <= h
    BY DEF Chain
  <2>2. CASE h = k
    BY <1>1, <2>1, <2>2, NoteIdsAreNumbers
  <2>3. CASE h # k
    BY <1>1, <2>1, <2>3
  <2> QED
    BY <2>2, <2>3
<1>3. \A n \in alive' : (\A m \in alive' : m <= n) \/ \E m \in alive' : report'[m].pred = n
  <2> SUFFICES ASSUME NEW n \in alive', ~ \A m \in alive' : m <= n
               PROVE  \E m \in alive' : report'[m].pred = n
    OBVIOUS
  <2>1. PICK m \in alive : report[m].pred = n
    BY <1>1 DEF Chain
  <2>2. m # k
    BY <1>1, <2>1, NoteIdsAreNumbers DEF Chain
  <2> QED
    BY <1>1, <2>1, <2>2
<1>4. \A m \in alive' :
        /\ report'[m].pred < m
        /\ \A n \in alive' : n < m => n <= report'[m].pred /\ report'[m].pred \in alive'
  <2> TAKE m \in alive'
  <2>1. report'[m].pred < m
    BY <1>1 DEF Chain
  <2>2. ASSUME NEW n \in alive', n < m
        PROVE  n <= report'[m].pred /\ report'[m].pred \in alive'
    <3>1. n <= report[m].pred /\ report[m].pred \in alive
      BY <1>1, <2>2 DEF Chain
    <3>2. report[m].pred # k
      BY <1>1, <2>2, <3>1, NoteIdsAreNumbers
    <3> QED
      BY <1>1, <3>1, <3>2
  <2> QED
    BY <2>1, <2>2
<1> QED
  BY <1>2, <1>3, <1>4 DEF Chain

(* The newest report is deleted.                                           *)
LEMMA ChainLosesNewest ==
  ASSUME TypeOK, Chain, NEW k \in alive, \A n \in alive : n <= k, Delete(k)
  PROVE  Chain'
<1>1. alive' = alive \ {k} /\ \A n \in alive' : n \in alive /\ report'[n] = report[n]
  BY DEF Delete, TypeOK
<1>2. \A n \in alive' : n < k
  BY <1>1, NoteIdsAreNumbers
<1>3. alive' # {} => /\ report[k].pred \in alive'
                     /\ \A n \in alive' : n <= report[k].pred
  <2> SUFFICES ASSUME NEW x \in alive'
               PROVE  report[k].pred \in alive' /\ \A n \in alive' : n <= report[k].pred
    OBVIOUS
  <2>1. report[k].pred < k /\ report[k].pred \in alive
    BY <1>1, <1>2 DEF Chain
  <2>2. \A n \in alive' : n <= report[k].pred
    BY <1>1, <1>2 DEF Chain
  <2> QED
    BY <1>1, <2>1, <2>2, NoteIdsAreNumbers
<1>4. \A n \in alive' : (\A m \in alive' : m <= n) \/ \E m \in alive' : report'[m].pred = n
  <2> SUFFICES ASSUME NEW n \in alive', NEW x \in alive', ~(x <= n)
               PROVE  \E m \in alive' : report'[m].pred = n
    OBVIOUS
  <2>1. PICK m \in alive : report[m].pred = n
    BY <1>1 DEF Chain
  <2>2. m # k
    BY <1>3, <2>1
  <2> QED
    BY <1>1, <2>1, <2>2
<1>5. \A m \in alive' :
        /\ report'[m].pred < m
        /\ \A n \in alive' : n < m => n <= report'[m].pred /\ report'[m].pred \in alive'
  <2> TAKE m \in alive'
  <2>1. report'[m].pred < m /\ report[m].pred # k
    BY <1>1, <1>2, NoteIdsAreNumbers DEF Chain
  <2>2. \A n \in alive' : n < m => n <= report[m].pred /\ report[m].pred \in alive
    BY <1>1 DEF Chain
  <2> QED
    BY <1>1, <2>1, <2>2
<1> QED
  BY <1>3, <1>4, <1>5 DEF Chain
-----------------------------------------------------------------------------
(* The steps, by what they do to the notes and to what the job knows.      *)

Tracked == {"fresh2", "confirm", "create", "find", "finalise", "verify", "fresh3",
            "discard", "discardDelete", "late", "lateUpdate", "lateVerify", "inspect",
            "reread", "fresh4", "retire"}

Replacing == {"finalise", "verify", "fresh3", "discard", "discardDelete", "late",
              "lateUpdate", "lateVerify", "inspect", "reread"}

(* The notes, with their predecessors, stay as they are.                   *)
SameReports ==
  /\ UNCHANGED <<alive, lastId, inflight, stray>>
  /\ \A n \in alive : report'[n].pred = report[n].pred

(* The job ends, or has not yet or no longer a successor on its way.       *)
LEMMA UntrackedStep ==
  ASSUME Inv, SameReports, pc' \notin Tracked, job'.cur <= lastId
  PROVE  ReplacementInv'
<1>1. ~stray' => Chain'
  BY ChainStays DEF Inv, ReplacementInv, SameReports
<1>2. Tracking'
  BY DEF Tracking, Tracked
<1> QED
  BY <1>1, <1>2 DEF Inv, ReplacementInv, SameReports

LEMMA EndStep ==
  ASSUME Inv, SameReports, NEW result, EndRun(result)
  PROVE  ReplacementInv'
<1>1. job'.cur <= lastId /\ pc' \notin Tracked
  BY NoteIdsAreNumbers DEF EndRun, NoJob, NoNote, Tracked, Inv, TypeInv
<1> QED
  BY <1>1, UntrackedStep

(* Humans act while the job stands still.                                  *)
LEMMA StandingStep ==
  ASSUME Inv, SameReports, UNCHANGED <<pc, job>>
  PROVE  ReplacementInv'
<1>1. ~stray' => Chain'
  BY ChainStays DEF Inv, ReplacementInv, SameReports
<1>2. ~stray' => Tracking'
  BY DEF Inv, ReplacementInv, SameReports, Tracking, Newest, Succeeds, Retirees
<1> QED
  BY <1>1, <1>2 DEF Inv, ReplacementInv, SameReports

(* Calls between the creation of the successor and the final reread.       *)
LEMMA ReplacingStep ==
  ASSUME Inv, SameReports, pc \in Replacing, pc' \in Replacing,
         job'.cur = job.cur, job'.sup = job.sup, job'.succ = job.succ
  PROVE  ReplacementInv'
<1>1. ~stray' => Chain'
  BY ChainStays DEF Inv, ReplacementInv, SameReports
<1>2. ASSUME ~stray' PROVE Tracking'
  <2>1. Succeeds(job.succ) /\ \A n \in Retirees : n <= job.cur
    BY <1>2 DEF Inv, ReplacementInv, SameReports, Tracking, Replacing
  <2>2. Retirees' = Retirees
    BY DEF Retirees
  <2>3. Succeeds(job.succ)' /\ \A n \in Retirees' : n <= job'.cur
    BY <2>1, <2>2 DEF Succeeds, SameReports
  <2> QED
    BY <2>3 DEF Tracking, Replacing
<1> QED
  BY <1>1, <1>2 DEF Inv, ReplacementInv, SameReports

LEMMA NothingChanges ==
  gitlab' = gitlab => SameReports
BY DEF gitlab, hub, notes, SameReports

(* Every call of Coordinator.Run before Publish, and every one after the   *)
(* last DELETE.                                                            *)
LEMMA OutsidePublish ==
  ASSUME Inv,
         \/ Start
         \/ \E c \in 0 .. lastId : RecoverRepair(c) \/ RecoverRepublish(c) \/ RecoverReview(c)
         \/ RecoverConflict
         \/ \E marks \in [Findings -> Marks], complete, approved \in BOOLEAN :
              Review(marks, complete, approved)
         \/ OutOfPosts \/ RetireDone \/ Converge \/ SyncPublishedLabels
  PROVE  ReplacementInv'
<1>0. /\ TypeOK /\ job \in Jobs /\ job.cur <= lastId /\ lastId \in Nat
      /\ NoJob.cur = 0
  BY NoteIdsAreNumbers DEF Inv, TypeInv, ReplacementInv, TypeOK, NoJob, NoNote
<1>1. CASE Start
  BY <1>0, <1>1, UntrackedStep
     DEF Start, Goto, Tracked, NoJob, NoNote, notes, SameReports
<1>2. ASSUME NEW c \in 0 .. lastId,
             RecoverRepair(c) \/ RecoverRepublish(c) \/ RecoverReview(c)
      PROVE  ReplacementInv'
  <2>1. job'.cur = c /\ pc' \notin Tracked /\ UNCHANGED gitlab
    BY <1>0, <1>2 DEF RecoverRepair, RecoverRepublish, RecoverReview, Goto, Tracked, Jobs
  <2> QED
    BY <1>0, <2>1, NothingChanges, UntrackedStep
<1>3. CASE RecoverConflict \/ OutOfPosts
  BY <1>3, NothingChanges, EndStep DEF RecoverConflict, OutOfPosts
<1>4. ASSUME NEW marks \in [Findings -> Marks], NEW complete \in BOOLEAN,
             NEW approved \in BOOLEAN, Review(marks, complete, approved)
      PROVE  ReplacementInv'
  <2>1. job'.cur = job.cur /\ pc' \notin Tracked /\ SameReports
    BY <1>0, <1>4 DEF Review, Goto, Tracked, Jobs, hub, notes, SameReports
  <2> QED
    BY <1>0, <2>1, UntrackedStep
<1>5. CASE RetireDone
  BY <1>0, <1>5, NothingChanges, UntrackedStep DEF RetireDone, Goto, Tracked
<1>6. CASE Converge
  BY <1>0, <1>6, NothingChanges, UntrackedStep, EndStep DEF Converge, Tracked
<1>7. CASE SyncPublishedLabels
  <2>1. CASE VerifyCurrent("labelVerify", "labelFresh") \/ VerifyCurrent("labelRecheck", "labelClear")
    BY <1>0, <2>1, NothingChanges, UntrackedStep, EndStep DEF VerifyCurrent, Tracked
  <2>2. CASE Fresh("labelFresh", "labelSync") \/ Fresh("labelFresh2", "labelConfirm")
    BY <1>0, <2>2, NothingChanges, UntrackedStep DEF Fresh, Goto, Tracked
  <2>3. CASE SyncLabels \/ LabelsStale
    BY <1>0, <2>3, UntrackedStep
       DEF SyncLabels, LabelsStale, Goto, Tracked, hub, notes, SameReports
  <2>4. CASE ClearLabels
    BY <2>4, EndStep DEF ClearLabels, hub, notes, SameReports
  <2>5. CASE LabelsDone
    BY <2>5, NothingChanges, EndStep DEF LabelsDone
  <2> QED
    BY <1>7, <2>1, <2>2, <2>3, <2>4, <2>5 DEF SyncPublishedLabels
<1> QED
  BY <1>1, <1>2, <1>3, <1>4, <1>5, <1>6, <1>7

(* There is room for a POST that GitLab applies late.                      *)
LEMMA LatePostFits ==
  ASSUME Inv, NEW r \in inflight
  PROVE  lastId < MaxPosts /\ r \in Reports
<1>1. Cardinality(inflight \ {r}) = Cardinality(inflight) - 1 /\ IsFiniteSet(inflight \ {r})
  BY FS_RemoveElement DEF Inv, TypeInv
<1>2. Cardinality(inflight) \in Nat /\ Cardinality(inflight \ {r}) \in Nat
  BY <1>1, FS_CardinalityType DEF Inv, TypeInv
<1>3. lastId < MaxPosts
  BY <1>1, <1>2, PublicationAssumption DEF Inv, TypeInv, TypeOK
<1>4. r \in Reports
  BY DEF Inv, TypeInv, TypeOK
<1> QED
  BY <1>3, <1>4

(* A late POST that does not fork the chain continues it, and falls into   *)
(* no publication whose report exists already.                             *)
LEMMA LatePostContinues ==
  ASSUME Inv, ~stray, NEW r \in inflight, IsCurrent(r.pred)
  PROVE  /\ Newest(r.pred) /\ ~ \E s : Succeeds(s)
         /\ pc \notin Replacing /\ pc \notin {"fresh4", "retire"}
<1>0. TypeOK /\ Chain /\ Tracking
  BY DEF Inv, TypeInv, ReplacementInv
<1>1. Newest(r.pred)
  BY <1>0, CurrentIsNewest
<1>2. ASSUME NEW s, Succeeds(s) PROVE FALSE
  <2>1. s \in alive /\ r.pred < s
    BY <1>2 DEF Succeeds
  <2>2. s <= r.pred
    BY <1>1, <2>1 DEF Newest
  <2> QED
    BY <1>0, <2>1, <2>2, NoteIdsAreNumbers
<1>3. pc \notin Replacing
  BY <1>0, <1>2 DEF Tracking, Replacing
<1>4. pc \notin {"fresh4", "retire"}
  BY <1>0, <1>1, NoteIdsAreNumbers DEF Tracking, Newest, NoNote
<1> QED
  BY <1>1, <1>2, <1>3, <1>4

(* Humans, killed jobs and late POSTs.                                     *)
LEMMA OthersKeepReplacementInv ==
  ASSUME Inv, HumanStep \/ Fail \/ LandLate
  PROVE  ReplacementInv'
<1> TypeOK
  BY DEF Inv, TypeInv
<1>1. ASSUME NEW n \in alive, (\E f \in Findings : Toggle(n, f)) \/ Reply(n)
      PROVE  ReplacementInv'
  <2>1. PICK q : report' = [report EXCEPT ![n] = q] /\ q.pred = report[n].pred
    <3>0. report[n] \in Reports
      BY DEF TypeOK
    <3>1. ASSUME NEW f \in Findings, Toggle(n, f)
          PROVE  \E q : report' = [report EXCEPT ![n] = q] /\ q.pred = report[n].pred
      <4> DEFINE b == [report[n].boxes EXCEPT ![f] = IF @ = "off" THEN "on" ELSE "off"]
      <4>1. report' = [report EXCEPT ![n] = [report[n] EXCEPT !.boxes = b]]
        BY <3>1 DEF Toggle
      <4> HIDE DEF b
      <4>2. [report[n] EXCEPT !.boxes = b].pred = report[n].pred
        BY <3>0 DEF Reports
      <4> QED
        BY <4>1, <4>2
    <3>2. ASSUME Reply(n)
          PROVE  \E q : report' = [report EXCEPT ![n] = q] /\ q.pred = report[n].pred
      <4>1. report' = [report EXCEPT ![n] = [report[n] EXCEPT !.replied = TRUE]]
        BY <3>2 DEF Reply
      <4>2. [report[n] EXCEPT !.replied = TRUE].pred = report[n].pred
        BY <3>0 DEF Reports
      <4> QED
        BY <4>1, <4>2
    <3> QED
      BY <1>1, <3>1, <3>2
  <2>2. \A m \in alive : report'[m].pred = report[m].pred
    BY <2>1 DEF TypeOK
  <2> QED
    BY <1>1, <2>2, StandingStep DEF Toggle, Reply, SameReports
<1>2. CASE Change
  BY <1>2, StandingStep DEF Change, hub, notes, SameReports
<1>3. CASE Fail
  BY <1>3, EndStep DEF Fail, hub, notes, SameReports
<1>4. CASE LandLate
  <2>1. PICK r \in inflight :
          /\ AddNote(r) /\ inflight' = inflight \ {r}
          /\ stray' = (stray \/ pc = "create" \/ ~IsCurrent(r.pred))
          /\ UNCHANGED <<posts, pc, job>>
    BY <1>4 DEF LandLate
  <2>2. lastId < MaxPosts /\ r \in Reports /\ r.pred <= lastId
    BY LatePostFits DEF Inv, ReplacementInv
  <2>k. PICK k : k = lastId + 1
    OBVIOUS
  <2>3. /\ k \in NoteIds /\ alive' = alive \cup {k} /\ report'[k] = r /\ lastId' = k
        /\ \A n \in alive : n < k /\ report'[n] = report[n]
    <3>1. k \in NoteIds
      BY <2>k, <2>2, NoteIdsAreNumbers, PublicationAssumption DEF NoteIds
    <3>2. \A n \in alive : n < k /\ n \in NoteIds
      BY <2>k, NoteIdsAreNumbers DEF Inv, ReplacementInv, TypeOK
    <3>3. alive' = alive \cup {k} /\ report' = [report EXCEPT ![k] = r] /\ lastId' = k
      BY <2>k, <2>1 DEF AddNote
    <3> QED
      BY <3>1, <3>2, <3>3, NoteIdsAreNumbers DEF TypeOK
  <2>4. /\ job'.cur <= lastId' /\ \A n \in alive' : n <= lastId'
        /\ \A q \in inflight' : q.pred < k /\ q.pred <= lastId'
    BY <2>k, <2>1, <2>3, NoteIdsAreNumbers DEF Inv, ReplacementInv
  <2>5. ASSUME ~stray'
        PROVE  Chain' /\ Tracking'
    <3>1. ~stray /\ pc # "create" /\ IsCurrent(r.pred) /\ Chain /\ Tracking
      BY <2>1, <2>5 DEF Inv, ReplacementInv
    <3>2. /\ Newest(r.pred) /\ ~ \E s : Succeeds(s)
          /\ pc \notin Replacing /\ pc \notin {"fresh4", "retire"}
      BY <2>1, <3>1, LatePostContinues
    <3>3. Chain'
      BY <2>1, <2>2, <3>1, <3>2, ChainGrows DEF Inv, ReplacementInv
    <3>4. Retirees' = Retirees /\ job.cur < k
      BY <2>k, <2>1, NoteIdsAreNumbers DEF Retirees, Inv, ReplacementInv
    <3>5. pc \in {"fresh2", "confirm"} => ~Newest(job.cur)'
      <4>1. k \in alive' /\ k \in Nat /\ job'.cur = job.cur
        BY <2>1, <2>k, <2>3, NoteIdsAreNumbers
      <4> QED
        BY <3>4, <4>1, NoteIdsAreNumbers DEF Newest
    <3>9. CASE pc = "find"
      <4>1. Newest(job.cur) /\ alive = Retirees
        BY <3>1, <3>2, <3>9 DEF Tracking
      <4>2. r.pred = job.cur
        BY <3>2, <4>1, NoteIdsAreNumbers DEF Newest, NoNote
      <4>3. Succeeds(k)'
        BY <2>1, <2>3, <2>4, <3>4, <4>1, <4>2 DEF Succeeds
      <4>4. \A n \in Retirees' : n <= job'.cur
        BY <2>1, <3>1, <3>4, <3>9 DEF Tracking
      <4>5. k \in alive' /\ pc' = "find"
        BY <2>1, <2>3, <3>9
      <4> QED
        BY <3>3, <4>3, <4>4, <4>5 DEF Tracking
    <3>10. CASE pc # "find"
      BY <2>1, <3>1, <3>2, <3>3, <3>5, <3>10 DEF Tracking, Replacing
    <3> QED
      BY <3>3, <3>9, <3>10
  <2> QED
    BY <2>4, <2>5 DEF ReplacementInv
<1> QED
  BY <1>1, <1>2, <1>3, <1>4 DEF HumanStep

(* Up to the POST.                                                         *)
LEMMA BeforeCreate ==
  ASSUME Inv, RecoverAgain \/ Confirm \/ CheckFreshness
  PROVE  ReplacementInv'
<1>0. TypeOK /\ job \in Jobs /\ job.cur <= lastId
  BY DEF Inv, TypeInv, TypeOK, ReplacementInv
<1>1. CASE RecoverAgain
  <2>1. CASE IsCurrent(job.cur)
    <3>1. /\ SameReports /\ pc' = "fresh2"
          /\ job'.cur = job.cur /\ job'.sup = alive \ {job.cur}
      BY <1>0, <1>1, <2>1, NothingChanges DEF RecoverAgain, Jobs
    <3>2. alive' = Retirees'
      <4>1. job.cur \in alive \/ job.cur = NoNote
        BY <2>1 DEF IsCurrent, Heads
      <4>2. NoNote \notin alive
        BY <1>0, NoteIdsAreNumbers DEF NoNote
      <4> QED
        BY <3>1, <4>1, <4>2 DEF Retirees, SameReports
    <3>3. ~stray' => Chain'
      BY <3>1, ChainStays DEF SameReports, Inv, ReplacementInv
    <3>4. Tracking'
      BY <3>1, <3>2 DEF Tracking
    <3> QED
      BY <1>0, <3>1, <3>3, <3>4 DEF Inv, ReplacementInv, SameReports
  <2>2. CASE ~IsCurrent(job.cur)
    BY <1>1, <2>2, NothingChanges, EndStep DEF RecoverAgain
  <2> QED
    BY <2>1, <2>2
<1>2. CASE Confirm
  <2>1. CASE IsCurrent(job.cur)
    <3>1. SameReports /\ pc = "confirm" /\ pc' = "create" /\ job' = job
      BY <1>2, <2>1, NothingChanges DEF Confirm
    <3>2. ~stray' => Chain'
      BY <3>1, ChainStays DEF SameReports, Inv, ReplacementInv
    <3>3. ASSUME ~stray' PROVE Tracking'
      <4>1. ~stray /\ Chain /\ Tracking
        BY <3>1, <3>3 DEF SameReports, Inv, ReplacementInv
      <4>2. Newest(job.cur) /\ alive = Retirees
        BY <1>0, <2>1, <3>1, <4>1, CurrentIsNewest DEF Tracking
      <4>3. Newest(job.cur)' /\ alive' = Retirees'
        BY <3>1, <4>2 DEF Newest, Retirees, SameReports
      <4> QED
        BY <3>1, <4>3 DEF Tracking
    <3> QED
      BY <1>0, <3>1, <3>2, <3>3 DEF Inv, ReplacementInv, SameReports
  <2>2. CASE ~IsCurrent(job.cur)
    BY <1>2, <2>2, NothingChanges, EndStep DEF Confirm
  <2> QED
    BY <2>1, <2>2
<1>3. CASE CheckFreshness
  <2>1. CASE Fresh("fresh1", "recover2")
    BY <1>0, <2>1, NothingChanges, UntrackedStep DEF Fresh, Goto, Tracked
  <2>2. CASE Fresh("fresh2", "confirm") \/ Fresh("fresh4", "retire")
    <3>1. /\ SameReports /\ job' = job
          /\ \/ pc = "fresh2" /\ pc' = "confirm"
             \/ pc = "fresh4" /\ pc' = "retire"
      BY <2>2, NothingChanges DEF Fresh, Goto
    <3>2. ~stray' => Chain'
      BY <3>1, ChainStays DEF SameReports, Inv, ReplacementInv
    <3>3. ~stray' => Tracking'
      BY <3>1 DEF SameReports, Inv, ReplacementInv, Tracking, Newest, Retirees
    <3> QED
      BY <1>0, <3>1, <3>2, <3>3 DEF Inv, ReplacementInv, SameReports
  <2>3. CASE Fresh("fresh3", "late")
    BY <2>3, NothingChanges, ReplacingStep DEF Fresh, Goto, Replacing
  <2>4. CASE \E from \in {"fresh1", "fresh2", "fresh4"} : StaleEnd(from)
    BY <2>4, NothingChanges, EndStep DEF StaleEnd
  <2>5. CASE StaleDiscard
    BY <2>5, ReplacingStep DEF StaleDiscard, Goto, Replacing, hub, notes, SameReports
  <2> QED
    BY <1>3, <2>1, <2>2, <2>3, <2>4, <2>5 DEF CheckFreshness
<1> QED
  BY <1>1, <1>2, <1>3

(* The POST, whatever becomes of it.                                       *)
LEMMA CreateKeepsReplacementInv ==
  ASSUME Inv, CreateNote \/ CreateNoteError
  PROVE  ReplacementInv'
<1>0. /\ TypeOK /\ job \in Jobs /\ job.cur <= lastId /\ posts < MaxPosts
      /\ pc = "create" /\ lastId < MaxPosts
  <2>1. pc = "create" /\ posts < MaxPosts
    BY DEF CreateNote, CreateNoteError, Send, Goto
  <2>2. TypeOK /\ job \in Jobs /\ job.cur <= lastId
    BY DEF Inv, TypeInv, TypeOK, ReplacementInv
  <2>3. lastId \in 0 .. posts /\ posts \in 0 .. MaxPosts /\ MaxPosts \in Nat
    BY <2>2, PublicationAssumption DEF TypeOK
  <2> QED
    BY <2>1, <2>2, <2>3
<1>1. Posted \in Reports /\ Posted.pred = job.cur
  BY <1>0, PostedType DEF Posted, Encode
<1>2. /\ job'.cur = job.cur /\ job'.sup = job.sup /\ Retirees' = Retirees
      /\ stray' = stray
      /\ \/ pc' = "find"
         \/ pc' = "finalise" /\ job'.succ = lastId + 1
  <2>1. CASE CreateNote
    BY <1>0, <2>1 DEF CreateNote, Send, Goto, Jobs, Retirees
  <2>2. CASE CreateNoteError
    BY <1>0, <2>2 DEF CreateNoteError, Send, Goto, Jobs, Retirees
  <2> QED
    BY <2>1, <2>2
<1>3. ~stray' => Chain /\ Newest(job.cur) /\ alive = Retirees
  BY <1>0, <1>2 DEF Inv, ReplacementInv, Tracking
<1>4. \A n \in Retirees : Newest(job.cur) /\ alive = Retirees => n <= job.cur
  BY DEF Newest
<1>5. CASE AddNote(Posted) /\ inflight' = inflight
  <2>k. PICK k : k = lastId + 1
    OBVIOUS
  <2>1. /\ k \in Nat /\ alive' = alive \cup {k} /\ lastId' = k /\ report'[k] = Posted
        /\ \A n \in alive : n < k
    <3>1. k \in NoteIds /\ k \in Nat
      BY <1>0, <2>k, NoteIdsAreNumbers, PublicationAssumption DEF NoteIds
    <3>2. alive' = alive \cup {k} /\ report' = [report EXCEPT ![k] = Posted] /\ lastId' = k
      BY <1>5, <2>k DEF AddNote
    <3>3. \A n \in alive : n < k
      BY <1>0, <2>k, NoteIdsAreNumbers DEF Inv, ReplacementInv
    <3> QED
      BY <1>0, <3>1, <3>2, <3>3 DEF TypeOK
  <2>2. /\ job'.cur <= lastId' /\ \A n \in alive' : n <= lastId'
        /\ \A r \in inflight' : r.pred <= lastId' /\ r.pred < k
    BY <1>0, <1>2, <1>5, <2>k, <2>1, NoteIdsAreNumbers DEF Inv, ReplacementInv
  <2>3. ASSUME ~stray' PROVE Chain' /\ Tracking'
    <3>1. Chain'
      BY <1>0, <1>1, <1>3, <1>5, <2>3, ChainGrows DEF Inv, ReplacementInv
    <3>2. Succeeds(k)'
      BY <1>1, <1>2, <1>3, <2>1, <2>2, <2>3 DEF Succeeds
    <3>3. \A n \in Retirees' : n <= job'.cur
      BY <1>2, <1>3, <1>4, <2>3
    <3>4. k \in alive'
      BY <2>1
    <3>5. CASE pc' = "find"
      BY <3>1, <3>2, <3>3, <3>4, <3>5 DEF Tracking
    <3>6. CASE pc' = "finalise" /\ job'.succ = k
      BY <3>1, <3>2, <3>3, <3>6 DEF Tracking, Succeeds
    <3> QED
      BY <1>2, <2>k, <3>1, <3>5, <3>6
  <2> QED
    BY <2>2, <2>3 DEF ReplacementInv
<1>6. CASE pc' = "find" /\ UNCHANGED <<alive, report, lastId>>
           /\ inflight' \subseteq inflight \cup {Posted}
  <2>1. /\ job'.cur <= lastId' /\ \A n \in alive' : n <= lastId'
        /\ \A r \in inflight' : r.pred <= lastId'
    BY <1>0, <1>1, <1>2, <1>6 DEF Inv, ReplacementInv
  <2>2. ASSUME ~stray' PROVE Chain' /\ Tracking'
    <3>1. Chain'
      BY <1>3, <1>6, <2>2, ChainStays
    <3>2. Newest(job.cur)' /\ alive' = Retirees' /\ \A n \in Retirees' : n <= job'.cur
      BY <1>2, <1>3, <1>4, <1>6, <2>2 DEF Newest
    <3> QED
      BY <1>6, <3>1, <3>2 DEF Tracking
  <2> QED
    BY <2>1, <2>2 DEF ReplacementInv
<1>7. CASE CreateNote
  BY <1>5, <1>7 DEF CreateNote
<1>8. CASE CreateNoteError
  BY <1>5, <1>6, <1>8 DEF CreateNoteError, Send, Goto
<1> QED
  BY <1>7, <1>8

(* findGeneration recognises the note of the lost response: it is the only *)
(* one that names the predecessor.                                         *)
LEMMA FindKeepsReplacementInv ==
  ASSUME Inv, FindGeneration
  PROVE  ReplacementInv'
<1>0. TypeOK /\ job \in Jobs /\ job.cur <= lastId /\ pc = "find" /\ SameReports
  BY NothingChanges DEF Inv, TypeInv, TypeOK, ReplacementInv, FindGeneration
<1>1. CASE EndRun("failed")
  BY <1>0, <1>1, EndStep
<1>2. CASE ~EndRun("failed")
  <2>1. PICK n \in alive : /\ report[n].pred = job.cur /\ pc' = "finalise"
                           /\ job' = [job EXCEPT !.succ = n]
    BY <1>2 DEF FindGeneration
  <2>2. /\ job'.cur = job.cur /\ job'.succ = n /\ Retirees' = Retirees
    BY <1>0, <2>1 DEF Jobs, Retirees
  <2>3. ASSUME ~stray' PROVE Chain' /\ Tracking'
    <3>1. Chain /\ Tracking
      BY <1>0, <2>3 DEF Inv, ReplacementInv, SameReports
    <3>2. \A m \in Retirees : m <= job.cur
      BY <1>0, <3>1 DEF Tracking
    <3>3. job.cur < n
      BY <2>1, <3>1 DEF Chain
    <3>4. n \notin Retirees
      BY <1>0, <3>2, <3>3, NoteIdsAreNumbers
    <3>5. PICK k \in alive : Succeeds(k)
      BY <1>0, <3>1, <3>4 DEF Tracking
    <3>6. k = n
      BY <3>4, <3>5 DEF Succeeds
    <3>7. Succeeds(job.succ)'
      BY <1>0, <2>2, <3>5, <3>6 DEF Succeeds, SameReports
    <3>8. Chain'
      BY <1>0, <3>1, ChainStays DEF SameReports
    <3> QED
      BY <2>1, <2>2, <3>2, <3>7, <3>8 DEF Tracking
  <2> QED
    BY <1>0, <2>2, <2>3 DEF Inv, ReplacementInv, SameReports
<1> QED
  BY <1>1, <1>2

(* The calls on the successor and the reads before the cleanup.            *)
LEMMA SuccessorKeepsReplacementInv ==
  ASSUME Inv,
         \/ Finalise \/ LateUpdate
         \/ VerifyReport("verify", "fresh3") \/ VerifyReport("lateVerify", "inspect")
         \/ Inspect("discard", "discardDelete") \/ Inspect("inspect", "reread")
         \/ LateControls
  PROVE  ReplacementInv'
<1>0. TypeOK /\ job \in Jobs
  BY DEF Inv, TypeInv, TypeOK
<1>1. CASE Finalise \/ LateUpdate
  <2>1. /\ UNCHANGED <<alive, lastId, inflight, stray, job>>
        /\ pc \in Replacing /\ pc' \in Replacing
        /\ report' = [report EXCEPT ![job.succ] = Rewrite(job.succ, job.draft, job.cur, job.gen)]
    BY <1>1 DEF Finalise, LateUpdate, Goto, Replacing
  <2>2. CASE ~stray
    <3>1. Succeeds(job.succ)
      BY <2>1, <2>2 DEF Inv, ReplacementInv, Tracking, Replacing
    <3>2. job.succ \in NoteIds /\ report[job.succ].pred = job.cur
      BY <1>0, <3>1 DEF Succeeds, TypeOK
    <3>3. Rewrite(job.succ, job.draft, job.cur, job.gen).pred = job.cur
      BY <1>0, <3>2, RewriteType DEF Jobs
    <3>4. \A n \in alive : report'[n].pred = report[n].pred
      BY <1>0, <2>1, <3>2, <3>3 DEF TypeOK
    <3> QED
      BY <2>1, <3>4, ReplacingStep DEF SameReports
  <2>3. CASE stray
    BY <2>1, <2>3 DEF Inv, ReplacementInv
  <2> QED
    BY <2>2, <2>3
<1>2. CASE VerifyReport("verify", "fresh3") \/ VerifyReport("lateVerify", "inspect")
  BY <1>2, NothingChanges, EndStep, ReplacingStep DEF VerifyReport, Replacing
<1>3. CASE Inspect("discard", "discardDelete") \/ Inspect("inspect", "reread")
  <2>1. /\ SameReports /\ pc \in Replacing /\ pc' \in Replacing
        /\ job'.cur = job.cur /\ job'.sup = job.sup /\ job'.succ = job.succ
    BY <1>0, <1>3, NothingChanges DEF Inspect, Goto, Replacing, Jobs
  <2> QED
    BY <2>1, ReplacingStep
<1>4. CASE LateControls
  <2>1. /\ SameReports /\ pc \in Replacing /\ pc' \in Replacing
        /\ job'.cur = job.cur /\ job'.sup = job.sup /\ job'.succ = job.succ
    BY <1>0, <1>4, NothingChanges DEF LateControls, Replacing, Jobs
  <2> QED
    BY <2>1, ReplacingStep
<1> QED
  BY <1>1, <1>2, <1>3, <1>4

(* The unpublished successor that is removed is the newest report.         *)
LEMMA DiscardKeepsReplacementInv ==
  ASSUME Inv, Discard
  PROVE  ReplacementInv'
<1>0. TypeOK
  BY DEF Inv, TypeInv
<1>1. CASE UNCHANGED <<alive, report>>
  BY <1>1, EndStep DEF Discard, SameReports
<1>2. CASE Delete(job.succ)
  <2>1. /\ pc = "discardDelete" /\ pc' = "idle" /\ job'.cur = 0
        /\ UNCHANGED <<lastId, inflight, stray>>
    BY DEF Discard, EndRun, NoJob, NoNote
  <2>2. /\ job'.cur <= lastId' /\ \A n \in alive' : n <= lastId'
        /\ \A r \in inflight' : r.pred <= lastId'
    BY <1>0, <1>2, <2>1, NoteIdsAreNumbers DEF Delete, Inv, ReplacementInv
  <2>3. ASSUME ~stray' PROVE Chain'
    <3>1. Chain /\ Succeeds(job.succ)
      BY <2>1, <2>3 DEF Inv, ReplacementInv, Tracking
    <3>2. job.succ \in alive /\ \A n \in alive : n <= job.succ
      BY <1>0, <3>1, NoteIdsAreNumbers DEF Succeeds
    <3> QED
      BY <1>0, <1>2, <3>1, <3>2, ChainLosesNewest
  <2>4. Tracking'
    BY <2>1 DEF Tracking
  <2> QED
    BY <2>2, <2>3, <2>4 DEF ReplacementInv
<1> QED
  BY <1>1, <1>2 DEF Discard

(* The final reread and the deletions, oldest report first.                *)
LEMMA RetireKeepsReplacementInv ==
  ASSUME Inv, Reread \/ \E n \in alive : Retire(n)
  PROVE  ReplacementInv'
<1>0. TypeOK /\ job \in Jobs /\ job.cur <= lastId
  BY DEF Inv, TypeInv, TypeOK, ReplacementInv
<1>1. CASE Reread
  <2>0. SameReports /\ pc = "reread"
    BY <1>1 DEF Reread, notes, SameReports
  <2>1. CASE EndRun("failed")
    BY <2>0, <2>1, EndStep
  <2>2. CASE ~EndRun("failed")
    <3>1. pc' = "fresh4" /\ job' = [job EXCEPT !.todo = Retirees]
      BY <1>1, <2>2 DEF Reread
    <3>2. job'.cur = job.cur /\ job'.succ = job.succ /\ job'.todo = Retirees
      BY <1>0, <3>1 DEF Jobs
    <3>3. ASSUME ~stray' PROVE Chain' /\ Tracking'
      <4>1. Chain /\ Succeeds(job.succ) /\ \A n \in Retirees : n <= job.cur
        BY <2>0, <3>3 DEF Inv, ReplacementInv, SameReports, Tracking
      <4>2. Chain'
        BY <2>0, <4>1, ChainStays DEF SameReports
      <4>3. /\ job'.succ \in alive' /\ alive' = job'.todo \cup {job'.succ}
            /\ \A n \in job'.todo : n < job'.succ /\ n <= job'.cur
            /\ \A r \in inflight' : r.pred < job'.succ
        BY <2>0, <3>2, <4>1 DEF SameReports, Succeeds
      <4> QED
        BY <3>1, <4>2, <4>3 DEF Tracking
    <3> QED
      BY <1>0, <2>0, <3>2, <3>3 DEF Inv, ReplacementInv, SameReports
  <2> QED
    BY <2>1, <2>2
<1>2. ASSUME NEW n \in alive, Retire(n) PROVE ReplacementInv'
  <2>1. /\ pc = "retire" /\ pc' = "retire" /\ Delete(n) /\ IsNextToRetire(n)
        /\ UNCHANGED <<lastId, inflight, stray>>
        /\ job' = [job EXCEPT !.todo = @ \ {n}]
    BY <1>2 DEF Retire
  <2>2. /\ alive' = alive \ {n} /\ job'.cur = job.cur /\ job'.succ = job.succ
        /\ job'.todo = job.todo \ {n}
    BY <1>0, <2>1 DEF Delete, Jobs
  <2>3. ASSUME ~stray' PROVE Chain' /\ Tracking'
    <3>1. /\ Chain /\ job.succ \in alive /\ alive = job.todo \cup {job.succ}
          /\ \A m \in job.todo : m < job.succ /\ m <= job.cur
          /\ \A r \in inflight : r.pred < job.succ
      BY <2>1, <2>3 DEF Inv, ReplacementInv, Tracking
    <3>2. n \in job.todo /\ \A m \in job.todo : n <= m
      BY <1>0, <2>1, <3>1, NoteIdsAreNumbers DEF IsNextToRetire
    <3>3. \A m \in alive : n <= m
      BY <1>0, <3>1, <3>2, NoteIdsAreNumbers
    <3>4. Chain'
      BY <1>0, <2>1, <3>1, <3>3, ChainLosesOldest
    <3>5. /\ job'.succ \in alive' /\ alive' = job'.todo \cup {job'.succ}
          /\ \A m \in job'.todo : m < job'.succ /\ m <= job'.cur
          /\ \A r \in inflight' : r.pred < job'.succ
      BY <1>0, <2>1, <2>2, <3>1, <3>2, NoteIdsAreNumbers
    <3> QED
      BY <2>1, <3>4, <3>5 DEF Tracking
  <2> QED
    BY <1>0, <2>1, <2>2, <2>3 DEF Inv, ReplacementInv
<1> QED
  BY <1>1, <1>2

-----------------------------------------------------------------------------
LEMMA InitReplacementInv == Init => ReplacementInv
<1> SUFFICES ASSUME Init PROVE ReplacementInv
  OBVIOUS
<1>1. /\ job.cur = 0 /\ pc = "idle" /\ inflight = {}
      /\ \/ alive = {}
         \/ alive = {1} /\ report[1].pred = 0 /\ lastId = 1
      /\ lastId \in Nat
  <2>1. PICK mark \in Seeded :
          /\ alive = IF mark = "none" THEN {} ELSE {1}
          /\ report = [n \in NoteIds |-> IF n \in alive THEN SeedReport(mark) ELSE Blank]
    BY DEF Init
  <2>2. 1 \in alive => report[1].pred = 0
    BY <2>1, PublicationAssumption DEF NoteIds, SeedReport, Encode, NoNote
  <2> QED
    BY <2>1, <2>2 DEF Init, NoJob, NoNote
<1>2. Chain
  BY <1>1 DEF Chain
<1>3. Tracking
  BY <1>1 DEF Tracking
<1> QED
  BY <1>1, <1>2, <1>3 DEF ReplacementInv

LEMMA ReplacementStep == Inv /\ [Next]_vars => ReplacementInv'
<1> SUFFICES ASSUME Inv, [Next]_vars PROVE ReplacementInv'
  OBVIOUS
<1>1. CASE RunStep
  BY <1>1, OutsidePublish, BeforeCreate, CreateKeepsReplacementInv,
     FindKeepsReplacementInv, SuccessorKeepsReplacementInv, DiscardKeepsReplacementInv,
     RetireKeepsReplacementInv DEF RunStep
<1>2. CASE FaultStep
  BY <1>2, CreateKeepsReplacementInv, OthersKeepReplacementInv DEF FaultStep
<1>3. CASE HumanStep
  BY <1>3, OthersKeepReplacementInv
<1>4. CASE UNCHANGED vars
  BY <1>4, StandingStep DEF vars, hub, notes, SameReports
<1> QED
  BY <1>1, <1>2, <1>3, <1>4 DEF Next

(* Whatever is interrupted, retried, clicked or answered, in any number:   *)
(* the reports stay a chain that the job's view agrees with.               *)
THEOREM ReplacementCorrect == Spec => []ReplacementInv
<1>1. Init => Inv
  BY InitType, InitReplacementInv DEF Inv
<1>2. Inv /\ [Next]_vars => Inv'
  BY TypeStep, ReplacementStep DEF Inv
<1>3. Inv => ReplacementInv
  BY DEF Inv
<1> QED
  BY <1>1, <1>2, <1>3, PTL DEF Spec

(* Recover never meets unrelated heads, unless a late POST has forked the  *)
(* chain.                                                                  *)
THEOREM AlwaysRecoverable == Spec => []Recoverable
<1>1. Init => Inv
  BY InitType, InitReplacementInv DEF Inv
<1>2. Inv /\ [Next]_vars => Inv'
  BY TypeStep, ReplacementStep DEF Inv
<1>3. Inv => Recoverable
  BY ChainHasOneHead DEF Inv, TypeInv, ReplacementInv, Recoverable
<1> QED
  BY <1>1, <1>2, <1>3, PTL DEF Spec

-----------------------------------------------------------------------------
(* Every step of a job, of a human and of a fault is a step of the queue   *)
(* that ReportChain promises, or invisible in it.                          *)

(* The calls made once the successor carries its own note ID.              *)
Finalised == {"verify", "fresh3", "discard", "discardDelete", "late", "lateUpdate",
              "lateVerify", "inspect", "reread", "fresh4", "retire"}

(* A report comes without its note ID, and the job's successor has it from *)
(* the PUT on, which is what lets the older reports go.                    *)
SealedInv ==
  /\ ~stray /\ pc \in Finalised => report[job.succ].bound
  /\ \A r \in inflight : ~r.bound

ChainInv == Inv /\ SealedInv

Sealed == {n \in alive : report[n].bound}

Promised == [Promise!Next]_(Promise!vars)

-----------------------------------------------------------------------------
(* Invisible steps.                                                        *)

(* The reports stay, and the job goes on with the successor it has, if any *)
(* is left to go on with.                                                  *)
Quiet ==
  /\ UNCHANGED <<alive, stray>>
  /\ \A n \in alive : report'[n].bound = report[n].bound
  /\ inflight' \subseteq inflight \cup {Posted}
  /\ pc' \in Replacing => pc \in Replacing /\ job'.succ = job.succ
  /\ pc' \in Finalised => pc \in Finalised /\ job'.succ = job.succ

LEMMA PostedIsOpen == ~Posted.bound
BY DEF Posted, Encode

(* The successor of a job that goes on exists.                             *)
LEMMA SuccessorExists ==
  ASSUME Inv, ~stray, pc \in Finalised
  PROVE  job.succ \in alive
BY DEF Inv, ReplacementInv, Tracking, Succeeds, Finalised

LEMMA QuietKeepsSealed ==
  ASSUME ChainInv, Quiet
  PROVE  SealedInv'
<1>1. \A r \in inflight' : ~r.bound
  BY PostedIsOpen DEF ChainInv, SealedInv, Quiet
<1>2. ASSUME ~stray', pc' \in Finalised PROVE report'[job'.succ].bound
  <2>1. ~stray /\ pc \in Finalised /\ job'.succ = job.succ
    BY <1>2 DEF Quiet
  <2>2. job.succ \in alive /\ report[job.succ].bound
    BY <2>1, SuccessorExists DEF ChainInv, SealedInv
  <2> QED
    BY <2>1, <2>2 DEF Quiet
<1> QED
  BY <1>1, <1>2 DEF SealedInv

LEMMA PendingIs ==
  /\ pc \in Replacing => Pending = job.succ
  /\ pc \notin Replacing => Pending = NoNote
  /\ pc' \in Replacing => Pending' = job'.succ
  /\ pc' \notin Replacing => Pending' = NoNote
BY DEF Pending, Replacing

LEMMA QuietIsPromised ==
  ASSUME Quiet
  PROVE  Promised
<1>1. UNCHANGED <<alive, stray>> /\ Sealed' = Sealed
  BY DEF Quiet, Sealed
<1>2. Pending' = Pending \/ Pending' = NoNote
  BY PendingIs DEF Quiet
<1>3. CASE Pending' = Pending
  BY <1>1, <1>3 DEF Promised, Promise!vars, Sealed
<1>4. CASE Pending' = NoNote
  <2>1. Promise!LetGo
    BY <1>1, <1>4 DEF Promise!LetGo, Promise!Nobody, NoNote, Sealed
  <2> QED
    BY <2>1 DEF Promised, Promise!Next
<1> QED
  BY <1>2, <1>3, <1>4

(* The notes do not change, and the job acquires no successor.             *)
LEMMA ReadsAreQuiet ==
  ASSUME UNCHANGED notes,
         \/ UNCHANGED <<pc, job>>
         \/ pc' \notin Replacing \cup Finalised
         \/ /\ pc' \in Replacing => pc \in Replacing
            /\ pc' \in Finalised => pc \in Finalised
            /\ job'.succ = job.succ
  PROVE  Quiet
BY DEF Quiet, notes

(* Every call that only reads, label updates, and the end of a job.        *)
LEMMA CallsAreQuiet ==
  ASSUME Inv,
         \/ Start
         \/ \E c \in 0 .. lastId : RecoverRepair(c) \/ RecoverRepublish(c) \/ RecoverReview(c)
         \/ RecoverConflict
         \/ \E marks \in [Findings -> Marks], complete, approved \in BOOLEAN :
              Review(marks, complete, approved)
         \/ CheckFreshness \/ RecoverAgain \/ Confirm \/ OutOfPosts
         \/ VerifyReport("verify", "fresh3") \/ VerifyReport("lateVerify", "inspect")
         \/ Inspect("discard", "discardDelete") \/ Inspect("inspect", "reread")
         \/ LateControls \/ Reread \/ RetireDone \/ Converge \/ SyncPublishedLabels
         \/ Fail
  PROVE  Quiet
<1> USE DEF Replacing, Finalised
<1>0. job \in Jobs
  BY DEF Inv, TypeInv, TypeOK
<1>1. CASE Start \/ RecoverConflict \/ OutOfPosts \/ RetireDone \/ Converge \/ Fail
  BY <1>1, ReadsAreQuiet
     DEF Start, RecoverConflict, OutOfPosts, RetireDone, Converge, Fail, EndRun, Goto,
         gitlab, hub
<1>2. CASE \E c \in 0 .. lastId : RecoverRepair(c) \/ RecoverRepublish(c) \/ RecoverReview(c)
  BY <1>2, ReadsAreQuiet
     DEF RecoverRepair, RecoverRepublish, RecoverReview, Goto, gitlab, hub
<1>3. CASE \E marks \in [Findings -> Marks], complete, approved \in BOOLEAN :
             Review(marks, complete, approved)
  BY <1>3, ReadsAreQuiet DEF Review, Goto, hub
<1>4. CASE CheckFreshness
  BY <1>4, ReadsAreQuiet
     DEF CheckFreshness, Fresh, StaleEnd, StaleDiscard, EndRun, Goto, gitlab, hub
<1>5. CASE RecoverAgain \/ Confirm
  BY <1>5, ReadsAreQuiet DEF RecoverAgain, Confirm, EndRun, gitlab, hub
<1>6. CASE VerifyReport("verify", "fresh3") \/ VerifyReport("lateVerify", "inspect")
  BY <1>6, ReadsAreQuiet DEF VerifyReport, EndRun, gitlab, hub
<1>7. CASE Inspect("discard", "discardDelete") \/ Inspect("inspect", "reread")
  <2>1. job'.succ = job.succ
    BY <1>0, <1>7 DEF Inspect, Jobs
  <2> QED
    BY <1>7, <2>1, ReadsAreQuiet DEF Inspect, Goto, gitlab, hub
<1>8. CASE LateControls
  <2>1. job'.succ = job.succ /\ pc' \in {"inspect", "lateUpdate"}
    BY <1>0, <1>8 DEF LateControls, Jobs
  <2> QED
    BY <1>8, <2>1, ReadsAreQuiet DEF LateControls, gitlab, hub
<1>9. CASE Reread
  <2>1. EndRun("failed") \/ (pc' = "fresh4" /\ job'.succ = job.succ)
    BY <1>0, <1>9 DEF Reread, Jobs
  <2> QED
    BY <1>9, <2>1, ReadsAreQuiet DEF Reread, EndRun
<1>10. CASE SyncPublishedLabels
  BY <1>10, ReadsAreQuiet
     DEF SyncPublishedLabels, VerifyCurrent, Fresh, SyncLabels, LabelsStale, ClearLabels,
         LabelsDone, EndRun, Goto, gitlab, hub
<1> QED
  BY <1>1, <1>2, <1>3, <1>4, <1>5, <1>6, <1>7, <1>8, <1>9, <1>10

(* Clicks, replies and changes of the merge request.                       *)
LEMMA HumansAreQuiet ==
  ASSUME Inv, HumanStep
  PROVE  Quiet
<1>0. TypeOK
  BY DEF Inv, TypeInv
<1>1. ASSUME NEW n \in alive, NEW f \in Findings, Toggle(n, f) PROVE Quiet
  <2> DEFINE b == [report[n].boxes EXCEPT ![f] = IF @ = "off" THEN "on" ELSE "off"]
  <2>1. report' = [report EXCEPT ![n] = [report[n] EXCEPT !.boxes = b]]
    BY <1>1 DEF Toggle
  <2> HIDE DEF b
  <2>2. [report[n] EXCEPT !.boxes = b].bound = report[n].bound
    BY <1>0 DEF TypeOK, Reports
  <2>3. \A m \in alive : report'[m].bound = report[m].bound
    BY <1>0, <2>1, <2>2 DEF TypeOK
  <2> QED
    BY <1>1, <2>3 DEF Toggle, Quiet
<1>2. ASSUME NEW n \in alive, Reply(n) PROVE Quiet
  <2>1. report' = [report EXCEPT ![n] = [report[n] EXCEPT !.replied = TRUE]]
    BY <1>2 DEF Reply
  <2>2. [report[n] EXCEPT !.replied = TRUE].bound = report[n].bound
    BY <1>0 DEF TypeOK, Reports
  <2>3. \A m \in alive : report'[m].bound = report[m].bound
    BY <1>0, <2>1, <2>2 DEF TypeOK
  <2> QED
    BY <1>2, <2>3 DEF Reply, Quiet
<1>3. CASE Change
  BY <1>3, ReadsAreQuiet DEF Change, hub
<1> QED
  BY <1>1, <1>2, <1>3 DEF HumanStep

-----------------------------------------------------------------------------
(* Steps of the queue.                                                     *)

(* A POST applied behind a later job voids the promise.                    *)
LEMMA StrayIsPromised ==
  ASSUME stray'
  PROVE  Promised
BY DEF Promised, Promise!Next, Promise!Fork

(* A new report stands at the newer end, unsealed.                         *)
LEMMA PushIsPromised ==
  ASSUME Inv, NEW r \in Reports, ~r.bound, AddNote(r), lastId < MaxPosts, stray' = stray,
         Pending = NoNote, Pending' \in {lastId + 1, NoNote}
  PROVE  Promised
<1>k. PICK k : k = lastId + 1
  OBVIOUS
<1>0. TypeOK
  BY DEF Inv, TypeInv
<1>1. k \in NoteIds /\ \A n \in alive : n < k
  BY <1>k, <1>0, NoteIdsAreNumbers, PublicationAssumption DEF NoteIds, Inv, ReplacementInv
<1>2. alive' = alive \cup {k} /\ report' = [report EXCEPT ![k] = r]
  BY <1>k DEF AddNote
<1>3. \A n \in alive : n # k
  BY <1>0, <1>1, NoteIdsAreNumbers
<1>4. report'[k] = r /\ \A n \in alive : report'[n] = report[n]
  BY <1>0, <1>1, <1>2, <1>3 DEF TypeOK
<1>5. Sealed' = Sealed
  BY <1>2, <1>4 DEF Sealed
<1>6. Promise!Push(k)
  BY <1>k, <1>1, <1>2, <1>5 DEF Promise!Push, Promise!Nobody, NoNote, Sealed
<1> QED
  BY <1>1, <1>6 DEF Promised, Promise!Next

(* The POST, whatever becomes of it, at once or late.                      *)
LEMMA PostIsPromised ==
  ASSUME ChainInv, CreateNote \/ CreateNoteError \/ LandLate
  PROVE  Promised /\ SealedInv'
<1>0. TypeOK /\ job \in Jobs /\ Inv /\ \A r \in inflight : ~r.bound
  BY DEF ChainInv, Inv, TypeInv, TypeOK, SealedInv
<1>1. CASE CreateNote \/ CreateNoteError
  <2>0. /\ pc = "create" /\ stray' = stray /\ lastId < MaxPosts /\ Posted \in Reports
        /\ Pending = NoNote /\ pc' \notin Finalised
    <3>1. pc = "create" /\ posts < MaxPosts /\ stray' = stray /\ pc' \in {"find", "finalise"}
      BY <1>1 DEF CreateNote, CreateNoteError, Send, Goto
    <3>2. lastId < MaxPosts
      BY <1>0, <3>1, PublicationAssumption DEF TypeOK
    <3>3. Posted \in Reports
      BY <1>0, <3>1, PostedType
    <3> QED
      BY <3>1, <3>2, <3>3 DEF Pending, Finalised
  <2>1. SealedInv'
    <3>1. inflight' \subseteq inflight \cup {Posted}
      BY <1>1 DEF CreateNote, CreateNoteError
    <3> QED
      BY <1>0, <2>0, <3>1, PostedIsOpen DEF SealedInv
  <2>2. CASE AddNote(Posted)
    <3>1. Pending' \in {lastId + 1, NoNote}
      <4>1. CASE CreateNote
        BY <1>0, <4>1 DEF CreateNote, Send, Goto, Pending, Jobs
      <4>2. CASE CreateNoteError
        BY <4>2 DEF CreateNoteError, Send, Goto, Pending
      <4> QED
        BY <1>1, <4>1, <4>2
    <3> QED
      BY <1>0, <2>0, <2>1, <2>2, <3>1, PostedIsOpen, PushIsPromised
  <2>3. CASE UNCHANGED <<alive, report, lastId>> /\ pc' = "find"
    <3>1. Quiet
      BY <1>1, <2>0, <2>3 DEF CreateNote, CreateNoteError, Quiet, Replacing, Finalised
    <3> QED
      BY <2>1, <3>1, QuietIsPromised
  <2> QED
    BY <1>1, <2>2, <2>3 DEF CreateNote, CreateNoteError, Send, Goto
<1>2. CASE LandLate
  <2>1. PICK r \in inflight :
          /\ AddNote(r) /\ inflight' = inflight \ {r}
          /\ stray' = (stray \/ pc = "create" \/ ~IsCurrent(r.pred))
          /\ UNCHANGED <<posts, pc, job>>
    BY <1>2 DEF LandLate
  <2>2. lastId < MaxPosts /\ r \in Reports /\ ~r.bound
    BY <1>0, LatePostFits
  <2>3. ASSUME ~stray'
        PROVE  ~stray /\ pc \notin Replacing /\ pc \notin Finalised
    <3>1. ~stray /\ IsCurrent(r.pred)
      BY <2>1, <2>3
    <3>2. pc \notin Replacing /\ pc \notin {"fresh4", "retire"}
      BY <1>0, <3>1, LatePostContinues
    <3> QED
      BY <3>1, <3>2 DEF Replacing, Finalised
  <2>4. SealedInv'
    BY <1>0, <2>1, <2>3 DEF SealedInv
  <2>5. ASSUME ~stray' PROVE Promised
    <3>1. stray' = stray /\ Pending = NoNote /\ Pending' = NoNote
      BY <1>0, <2>1, <2>3, <2>5, PendingIs DEF TypeOK
    <3> QED
      BY <1>0, <2>1, <2>2, <3>1, PushIsPromised
  <2> QED
    BY <2>4, <2>5, StrayIsPromised
<1> QED
  BY <1>1, <1>2

(* What findGeneration finds is the newest report.                         *)
LEMMA FindIsPromised ==
  ASSUME ChainInv, FindGeneration
  PROVE  Promised /\ SealedInv'
<1>0. Inv /\ TypeOK /\ UNCHANGED notes /\ pc = "find" /\ job \in Jobs
  BY DEF ChainInv, Inv, TypeInv, TypeOK, FindGeneration, gitlab, hub
<1>1. CASE EndRun("failed")
  <2>1. Quiet
    BY <1>0, <1>1, ReadsAreQuiet DEF EndRun, Replacing, Finalised
  <2> QED
    BY <2>1, QuietIsPromised, QuietKeepsSealed
<1>2. CASE ~EndRun("failed")
  <2>1. pc' = "finalise" /\ UNCHANGED <<alive, report, inflight, stray>>
    BY <1>0, <1>2 DEF FindGeneration, notes
  <2>2. SealedInv'
    BY <2>1 DEF ChainInv, SealedInv, Finalised
  <2>3. ASSUME ~stray' PROVE Promised
    <3>1. Succeeds(job.succ)'
      BY <1>0, <2>1, <2>3, FindKeepsReplacementInv DEF ReplacementInv, Tracking
    <3>2. job'.succ \in alive /\ \A n \in alive : n <= job'.succ
      BY <1>0, <2>1, <3>1, NoteIdsAreNumbers DEF Succeeds
    <3>3. Pending = NoNote /\ Pending' = job'.succ
      BY <1>0, <2>1 DEF Pending
    <3>4. Promise!Claim(job'.succ)
      BY <2>1, <3>2, <3>3 DEF Promise!Claim, Promise!IsNewest, Promise!Nobody, NoNote
    <3>5. job'.succ \in NoteIds
      BY <1>0, <3>2 DEF TypeOK
    <3> QED
      BY <3>4, <3>5 DEF Promised, Promise!Next
  <2> QED
    BY <2>2, <2>3, StrayIsPromised
<1> QED
  BY <1>1, <1>2

(* The PUT of the successor, first or after late clicks.                   *)
LEMMA SealIsPromised ==
  ASSUME ChainInv, Finalise \/ LateUpdate
  PROVE  Promised /\ SealedInv'
<1>0. Inv /\ TypeOK /\ \A r \in inflight : ~r.bound
  BY DEF ChainInv, Inv, TypeInv, SealedInv
<1>1. /\ UNCHANGED <<alive, inflight, stray, job>> /\ pc \in Replacing /\ pc' \in Replacing
      /\ report' = [report EXCEPT ![job.succ] = Rewrite(job.succ, job.draft, job.cur, job.gen)]
  BY DEF Finalise, LateUpdate, Goto, Replacing
<1>2. ASSUME ~stray' PROVE Promised /\ report'[job'.succ].bound
  <2>1. job.succ \in alive /\ \A n \in alive : n <= job.succ
    <3>1. Succeeds(job.succ)
      BY <1>0, <1>1, <1>2 DEF Inv, ReplacementInv, Tracking, Replacing
    <3> QED
      BY <1>0, <3>1, NoteIdsAreNumbers DEF Succeeds
  <2>2. Rewrite(job.succ, job.draft, job.cur, job.gen).bound
    BY DEF Rewrite, Encode
  <2>3. /\ report'[job.succ].bound
        /\ \A n \in alive : n # job.succ => report'[n] = report[n]
    BY <1>0, <1>1, <2>1, <2>2 DEF TypeOK
  <2>4. Sealed' = Sealed \cup {job.succ}
    BY <1>1, <2>1, <2>3 DEF Sealed
  <2>5. Pending = job.succ /\ Pending' = job.succ
    BY <1>1, PendingIs
  <2>6. Promise!Seal
    BY <1>1, <2>1, <2>4, <2>5 DEF Promise!Seal, Promise!IsNewest, Sealed
  <2> QED
    BY <1>1, <2>3, <2>6 DEF Promised, Promise!Next
<1> QED
  BY <1>0, <1>1, <1>2, StrayIsPromised DEF SealedInv

(* A note is deleted.                                                      *)
LEMMA DeleteUnseals ==
  ASSUME TypeOK, NEW n \in alive, Delete(n)
  PROVE  /\ alive' = alive \ {n} /\ Sealed' = Sealed \ {n}
         /\ \A m \in alive \ {n} : report'[m] = report[m]
<1>1. alive' = alive \ {n} /\ \A m \in alive \ {n} : report'[m] = report[m]
  BY DEF TypeOK, Delete
<1> QED
  BY <1>1 DEF Sealed

(* The unpublished successor is withdrawn, or left where a reply hangs     *)
(* below it.                                                               *)
LEMMA DiscardIsPromised ==
  ASSUME ChainInv, Discard
  PROVE  Promised /\ SealedInv'
<1>0. /\ Inv /\ TypeOK /\ UNCHANGED <<inflight, stray>>
      /\ pc = "discardDelete" /\ pc' = "idle"
  BY DEF ChainInv, Inv, TypeInv, Discard, EndRun
<1>1. SealedInv'
  BY <1>0 DEF ChainInv, SealedInv, Finalised
<1>2. CASE UNCHANGED <<alive, report>>
  <2>1. Quiet
    BY <1>0, <1>2 DEF Quiet, Replacing, Finalised
  <2> QED
    BY <1>1, <2>1, QuietIsPromised
<1>3. CASE Delete(job.succ)
  <2>1. ASSUME ~stray' PROVE Promised
    <3>1. Succeeds(job.succ)
      BY <1>0, <2>1 DEF Inv, ReplacementInv, Tracking
    <3>2. job.succ \in alive /\ \A n \in alive : n <= job.succ
      BY <1>0, <3>1, NoteIdsAreNumbers DEF Succeeds
    <3>3. alive' = alive \ {job.succ} /\ Sealed' = Sealed \ {job.succ}
      BY <1>0, <1>3, <3>2, DeleteUnseals
    <3>4. Pending = job.succ /\ Pending' = NoNote
      BY <1>0 DEF Pending
    <3>5. Promise!Withdraw
      BY <1>0, <3>2, <3>3, <3>4
         DEF Promise!Withdraw, Promise!IsNewest, Promise!Nobody, NoNote, Sealed
    <3> QED
      BY <3>5 DEF Promised, Promise!Next
  <2> QED
    BY <1>1, <2>1, StrayIsPromised
<1> QED
  BY <1>2, <1>3 DEF Discard

(* The cleanup takes the oldest report while its finalised successor       *)
(* stands at the other end.                                                *)
LEMMA RetireIsPromised ==
  ASSUME ChainInv, NEW n \in alive, Retire(n)
  PROVE  Promised /\ SealedInv'
<1>0. /\ Inv /\ TypeOK /\ job \in Jobs /\ UNCHANGED <<inflight, stray>>
      /\ pc = "retire" /\ pc' = "retire" /\ Delete(n) /\ IsNextToRetire(n)
      /\ \A r \in inflight : ~r.bound
  BY DEF ChainInv, Inv, TypeInv, TypeOK, SealedInv, Retire
<1>1. job'.succ = job.succ
  BY <1>0 DEF Retire, Jobs
<1>2. /\ alive' = alive \ {n} /\ Sealed' = Sealed \ {n}
      /\ \A m \in alive \ {n} : report'[m] = report[m]
  BY <1>0, DeleteUnseals
<1>3. ASSUME ~stray' PROVE Promised /\ report'[job'.succ].bound
  <2>1. /\ job.succ \in alive /\ alive = job.todo \cup {job.succ}
        /\ \A m \in job.todo : m < job.succ /\ m <= job.cur
    BY <1>0, <1>3 DEF Inv, ReplacementInv, Tracking
  <2>2. n \in job.todo /\ \A m \in job.todo : n <= m
    BY <1>0, <2>1, NoteIdsAreNumbers DEF IsNextToRetire
  <2>3. \A m \in alive : n <= m /\ m <= job.succ
    BY <1>0, <2>1, <2>2, NoteIdsAreNumbers
  <2>4. n # job.succ
    BY <1>0, <2>1, <2>2, NoteIdsAreNumbers
  <2>5. report[job.succ].bound /\ job.succ \in Sealed
    BY <1>0, <1>3, <2>1 DEF ChainInv, SealedInv, Finalised, Sealed
  <2>6. Pending = NoNote /\ Pending' = NoNote
    BY <1>0 DEF Pending
  <2>7. Promise!IsOldest(n) /\ Promise!IsNewest(job.succ)
    BY <2>1, <2>3 DEF Promise!IsOldest, Promise!IsNewest
  <2>8. Promise!Shift(n)
    BY <1>0, <1>2, <2>4, <2>5, <2>6, <2>7 DEF Promise!Shift, Promise!Nobody, NoNote, Sealed
  <2>9. n \in NoteIds
    BY <1>0 DEF TypeOK
  <2> QED
    BY <1>1, <1>2, <2>1, <2>4, <2>5, <2>8, <2>9 DEF Promised, Promise!Next
<1> QED
  BY <1>0, <1>3, StrayIsPromised DEF SealedInv

-----------------------------------------------------------------------------
(* At first there is no report, or a finalised one.                        *)
LEMMA InitIsPromised == Init => Promise!Init /\ SealedInv
<1> SUFFICES ASSUME Init PROVE Promise!Init /\ SealedInv
  OBVIOUS
<1>1. /\ pc = "idle" /\ inflight = {} /\ stray = FALSE
      /\ alive = {} \/ (alive = {1} /\ report[1].bound)
  <2>1. PICK mark \in Seeded :
          /\ alive = IF mark = "none" THEN {} ELSE {1}
          /\ report = [n \in NoteIds |-> IF n \in alive THEN SeedReport(mark) ELSE Blank]
    BY DEF Init
  <2>2. 1 \in alive => report[1].bound
    BY <2>1, PublicationAssumption DEF NoteIds, SeedReport, Encode
  <2> QED
    BY <2>1, <2>2 DEF Init
<1>2. Sealed = alive /\ Pending = NoNote
  BY <1>1 DEF Sealed, Pending
<1>3. 1 \in NoteIds
  BY PublicationAssumption DEF NoteIds
<1>4. Promise!Init
  BY <1>1, <1>2, <1>3 DEF Promise!Init, Promise!Nobody, NoNote, Sealed
<1> QED
  BY <1>1, <1>4 DEF SealedInv, Finalised

LEMMA StepIsPromised == ChainInv /\ [Next]_vars => Promised /\ SealedInv'
<1> SUFFICES ASSUME ChainInv, [Next]_vars PROVE Promised /\ SealedInv'
  OBVIOUS
<1>0. Inv
  BY DEF ChainInv
<1>1. Quiet => Promised /\ SealedInv'
  BY QuietIsPromised, QuietKeepsSealed
<1>2. CASE RunStep
  BY <1>0, <1>1, <1>2, CallsAreQuiet, PostIsPromised, FindIsPromised, SealIsPromised,
     DiscardIsPromised, RetireIsPromised DEF RunStep
<1>3. CASE FaultStep
  BY <1>0, <1>1, <1>3, CallsAreQuiet, PostIsPromised DEF FaultStep
<1>4. CASE HumanStep
  BY <1>0, <1>1, <1>4, HumansAreQuiet
<1>5. CASE UNCHANGED vars
  BY <1>1, <1>5, ReadsAreQuiet DEF vars, hub
<1> QED
  BY <1>2, <1>3, <1>4, <1>5 DEF Next

(* To whoever looks at the merge request the reports are the queue that    *)
(* ReportChain promises: whatever calls of Publish fail, repeat, get lost  *)
(* or are applied late, and in any number.                                 *)
THEOREM RefinementCorrect == Spec => ImplementsReportChain
<1>1. Init => Promise!Init /\ ChainInv
  BY InitType, InitReplacementInv, InitIsPromised DEF Inv, ChainInv
<1>2. ChainInv /\ [Next]_vars => ChainInv'
  BY TypeStep, ReplacementStep, StepIsPromised DEF Inv, ChainInv
<1>3. ChainInv /\ [Next]_vars => [Promise!Next]_(Promise!vars)
  BY StepIsPromised DEF Promised
<1> QED
  BY <1>1, <1>2, <1>3, PTL DEF Spec, ImplementsReportChain, Promise!Spec
=============================================================================
