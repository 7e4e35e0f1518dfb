---------------------------- MODULE DeletionProofs ----------------------------
(***************************************************************************)
(* What a job may delete: proofs of Publication's action properties        *)
(* RepliesSurvive, FindingsSurvive, PredecessorClicksCarried and           *)
(* SuccessSettles.  They hold for forked chains as well.                   *)
(***************************************************************************)
EXTENDS PublicationProofs, WellFoundedInduction

-----------------------------------------------------------------------------
(* The invariant.                                                          *)

(* The new marks know every finding that the old ones know.                *)
Knows(new, old) == \A f \in Findings : old[f] # "absent" => new[f] # "absent"

SameKnown(old, new) == Knows(new, old) /\ Knows(old, new)

(* A body shows a checkbox exactly where its marks render one.             *)
Boxed(r) == \A f \in Findings : r.boxes[f] = "nil" <=> Rendered(r.marks[f]) = "nil"

(* A publication's generation names one note, and a report knows what the  *)
(* report it replaces knew.                                                *)
NotesInv ==
  /\ \A n \in NoteIds : Boxed(report[n])
  /\ \A n \in alive : report[n].pred < n /\ report[n].gen <= posts
  /\ \A r \in inflight : r.gen <= posts /\ ~r.replied /\ Boxed(r)
  /\ \A n, m \in alive : report[n].gen = report[m].gen => n = m
  /\ \A n \in alive, r \in inflight : report[n].gen # r.gen
  /\ \A r, s \in inflight : r.gen = s.gen => r = s
  /\ \A n, m \in alive : report[m].pred = n => Knows(report[m].marks, report[n].marks)
  /\ \A n \in alive, r \in inflight : r.pred = n => Knows(r.marks, report[n].marks)

(* The calls made once the successor has its final body.                   *)
Written == {"verify", "fresh3", "discard", "discardDelete", "late", "lateUpdate",
            "lateVerify", "inspect", "reread", "fresh4", "retire", "converge"}

LabelPhases == {"labelVerify", "labelFresh", "labelSync", "labelFresh2", "labelConfirm",
                "labelRecheck", "labelClear"}

(* The draft remembers the control of every finding that the report        *)
(* showed one for; its mark is that of the control, or an AI's, or open by *)
(* a checkpoint that overruled the human.                                  *)
Remembers(d, marks, overruled) ==
  \A f \in Findings :
    Rendered(marks[f]) # "nil" =>
      /\ d.last[f] # "nil"
      /\ \/ d.marks[f] \in {Said(d.last[f]), "ai"}
         \/ d.marks[f] = "open" /\ f \in overruled

(* An AI acknowledgement is made by a review, never recovered.             *)
NoneByAI(d, marks) ==
  \A f \in Findings : Rendered(marks[f]) # "nil" => d.marks[f] # "ai"

(* What the reports that the job is to replace knew, its draft knows, and  *)
(* its successor.                                                          *)
KnownInv ==
  /\ job.succ <= lastId
  /\ pc = "recover" => job.sup = {}
  /\ pc \in {"recover", "review"} => job.overruled = {}
  /\ \A n \in Retirees : n <= lastId /\ Knows(job.draft.marks, report[n].marks)
  /\ job.cur # NoNote => Remembers(job.draft, report[job.cur].marks, job.overruled)
  /\ pc = "review" /\ job.cur # NoNote => NoneByAI(job.draft, report[job.cur].marks)
  /\ pc = "find" =>
       /\ \A n \in alive : report[n].gen = job.gen =>
            n \notin Retirees /\ SameKnown(report[n].marks, job.draft.marks)
       /\ \A r \in inflight : r.gen = job.gen => SameKnown(r.marks, job.draft.marks)
  /\ pc \in Written \cup {"finalise"} =>
       /\ job.succ \in alive \ Retirees
       /\ report[job.succ].pred = job.cur
       /\ report[job.succ].gen = job.gen
       /\ SameKnown(report[job.succ].marks, job.draft.marks)
  /\ pc \in {"fresh4", "retire"} => job.todo \subseteq Retirees

(* The report is a finalised one of the draft.                             *)
Finished(r) == r.bound /\ r.fp = job.draft.fp /\ r.approved = job.draft.approved

(* The successor says what the draft says, and so does the label.          *)
WrittenInv ==
  /\ pc \notin {"idle", "recover", "review"} => job.draft.fp = job.cap
  /\ pc \in Written => /\ Finished(report[job.succ])
                       /\ pc # "lateUpdate" => report[job.succ].marks = job.draft.marks
  /\ pc \in LabelPhases /\ job.succ # NoNote =>
       /\ job.succ \in alive
       /\ \A n \in alive : job.succ <= n
       /\ Finished(report[job.succ])
  /\ pc \in {"labelFresh2", "labelConfirm"} => label = VerdictLabel(job.draft.approved)

SeenPhases == {"lateUpdate", "lateVerify", "inspect", "reread", "fresh4", "retire"}

(* What the job has seen of clicks and replies.                            *)
SeenInv ==
  /\ pc \in SeenPhases /\ job.cur \in alive =>
       Carried([boxes |-> job.seen[job.cur], marks |-> report[job.cur].marks], job.draft,
               job.overruled)
  /\ pc \in {"fresh4", "retire"} =>
       \A n \in job.todo \cap alive :
         n \notin raced => report[n].boxes = job.seen[n] /\ ~report[n].replied
  /\ pc \in {"discardDelete", "reread"} =>
       \A n \in alive : report[n].replied => n \in job.answered \cup raced

DeletionInv == Inv /\ NotesInv /\ KnownInv /\ WrittenInv /\ SeenInv

-----------------------------------------------------------------------------
(* Marks and controls.                                                     *)

LEMMA KnowsIsOrder ==
  /\ \A a : Knows(a, a)
  /\ \A a, b, c : Knows(a, b) /\ Knows(b, c) => Knows(a, c)
BY DEF Knows

LEMMA RenderedIsBoxed ==
  ASSUME NEW d \in Drafts, NEW p, NEW g, NEW b
  PROVE  Boxed(Encode(d, p, g, b))
BY DEF Boxed, Encode, RenderedBoxes, Drafts

(* Reconciling a draft with the controls of the report it comes from       *)
(* carries what the boxes say, and forgets no finding.                     *)
LEMMA ControlsCarry ==
  ASSUME NEW d \in Drafts, NEW r \in Reports, NEW overruled, Boxed(r),
         Knows(d.marks, r.marks), Remembers(d, r.marks, overruled)
  PROVE  /\ Carried(r, WithControls(d, r), overruled)
         /\ Remembers(WithControls(d, r), r.marks, overruled)
         /\ SameKnown(d.marks, WithControls(d, r).marks)
         /\ WithControls(d, r).fp = d.fp
         /\ WithControls(d, r).approved = d.approved
         /\ NoneByAI(d, r.marks) => NoneByAI(WithControls(d, r), r.marks)
<1> DEFINE e == WithControls(d, r)
           clicked(f) == Clicked(r, [marks |-> d.marks, last |-> d.last], f)
<1>1. /\ e.fp = d.fp /\ e.approved = d.approved
      /\ \A f \in Findings :
           /\ e.marks[f] = IF clicked(f) THEN Said(r.boxes[f]) ELSE d.marks[f]
           /\ e.last[f] = IF clicked(f) THEN r.boxes[f] ELSE d.last[f]
  BY DEF WithControls, ReconcileControls, Said, Drafts
<1>2. \A f \in Findings : r.boxes[f] \in Boxes /\ r.marks[f] \in Marks /\ d.marks[f] \in Marks
                          /\ d.last[f] \in Boxes
  BY DEF Reports, Drafts
<1>3. \A f \in Findings :
        clicked(f) <=> /\ Rendered(r.marks[f]) # "nil"
                       /\ r.boxes[f] # IF d.last[f] = "nil" \/ d.marks[f] = "ai"
                                         THEN Rendered(r.marks[f]) ELSE d.last[f]
  BY DEF Clicked, Baseline
<1> HIDE DEF e, clicked
<1>4. ASSUME NEW f \in Findings
      PROVE  /\ r.boxes[f] # "nil" =>
                  \/ e.marks[f] = Said(r.boxes[f])
                  \/ e.marks[f] = "ai" /\ r.boxes[f] = Rendered(r.marks[f])
                  \/ e.marks[f] = "open" /\ f \in overruled
             /\ Rendered(r.marks[f]) # "nil" =>
                  /\ e.last[f] # "nil"
                  /\ \/ e.marks[f] \in {Said(e.last[f]), "ai"}
                     \/ e.marks[f] = "open" /\ f \in overruled
             /\ d.marks[f] # "absent" <=> e.marks[f] # "absent"
             /\ Rendered(r.marks[f]) # "nil" /\ d.marks[f] # "ai" => e.marks[f] # "ai"
  <2>1. CASE Rendered(r.marks[f]) = "nil"
    BY <1>1, <1>3, <2>1 DEF Boxed
  <2>2. CASE Rendered(r.marks[f]) # "nil"
    <3>1. /\ r.boxes[f] # "nil" /\ d.last[f] # "nil"
          /\ \/ d.marks[f] \in {Said(d.last[f]), "ai"}
             \/ d.marks[f] = "open" /\ f \in overruled
      BY <2>2 DEF Boxed, Remembers
    <3>2. d.marks[f] # "absent" /\ Said(r.boxes[f]) \in {"box", "open"}
      BY <3>1 DEF Said
    <3>3. CASE clicked(f)
      BY <1>1, <2>2, <3>1, <3>2, <3>3
    <3>4. CASE ~clicked(f)
      <4>1. r.boxes[f] = IF d.marks[f] = "ai" THEN Rendered(r.marks[f]) ELSE d.last[f]
        BY <1>3, <2>2, <3>1, <3>4
      <4>2. e.marks[f] = d.marks[f] /\ e.last[f] = d.last[f]
        BY <1>1, <3>4
      <4> QED
        BY <2>2, <3>1, <4>1, <4>2
    <3> QED
      BY <3>3, <3>4
  <2> QED
    BY <2>1, <2>2
<1>5. Carried(r, e, overruled) /\ Remembers(e, r.marks, overruled) /\ SameKnown(d.marks, e.marks)
      /\ (NoneByAI(d, r.marks) => NoneByAI(e, r.marks))
  BY <1>4 DEF Carried, Remembers, SameKnown, Knows, NoneByAI
<1> QED
  BY <1>1, <1>5 DEF e

(* A state recovered from a report knows what the report knows.            *)
LEMMA RecoveredKnows ==
  ASSUME TypeOK, NotesInv, NEW c \in alive, NEW overruled
  PROVE  /\ Knows(Recovered(c).marks, report[c].marks)
         /\ Remembers(Recovered(c), report[c].marks, overruled)
         /\ NoneByAI(Recovered(c), report[c].marks)
         /\ Recovered(c).fp = report[c].fp
         /\ Recovered(c).approved = report[c].approved
<1> DEFINE d == DecodedDraft(report[c])
<1>1. c \in NoteIds /\ c # NoNote /\ report[c] \in Reports /\ Boxed(report[c])
  BY PublicationAssumption DEF TypeOK, NotesInv, NoteIds, NoNote
<1>2. d \in Drafts
  BY <1>1, RenderedType DEF DecodedDraft, Decoded, Reports, Drafts
<1>3. d.marks = report[c].marks /\ d.last = RenderedBoxes(report[c].marks)
      /\ d.fp = report[c].fp /\ d.approved = report[c].approved
  BY DEF DecodedDraft, Decoded
<1>4. Knows(d.marks, report[c].marks)
  BY <1>3 DEF Knows
<1>5. \A f \in Findings : report[c].marks[f] \in Marks
  BY <1>1 DEF Reports
<1>6. Remembers(d, report[c].marks, overruled) /\ NoneByAI(d, report[c].marks)
  BY <1>3, <1>5 DEF Remembers, NoneByAI, RenderedBoxes, Rendered, Said, Marks
<1>7. Recovered(c) = WithControls(d, report[c])
  BY <1>1 DEF Recovered
<1> HIDE DEF d
<1> QED
  BY <1>1, <1>2, <1>3, <1>4, <1>6, <1>7, ControlsCarry, KnowsIsOrder DEF SameKnown

-----------------------------------------------------------------------------
(* The current report.                                                     *)

LEMMA NewestExists ==
  ASSUME NEW S \in SUBSET NoteIds, S # {}
  PROVE  \E h \in S : \A n \in S : n <= h
<1> DEFINE T == {MaxPosts - n : n \in S}
<1>1. MaxPosts \in Nat /\ \A n \in S : n \in Nat /\ MaxPosts - n \in Nat
  BY PublicationAssumption DEF NoteIds
<1>2. T \subseteq Nat /\ T # {}
  BY <1>1
<1>3. PICK x \in T : \A y \in T : ~(<<y, x>> \in OpToRel(<, Nat))
  BY <1>2, NatLessThanWellFounded, WFMin
<1>4. \A y \in T : ~(y < x)
  <2>1. \A y \in T : <<y, x>> \in Nat \X Nat
    BY <1>2
  <2> QED
    BY <2>1, <1>3, Zenon DEF OpToRel
<1>5. PICK h \in S : x = MaxPosts - h
  OBVIOUS
<1>6. ASSUME NEW n \in S PROVE n <= h
  <2>1. ~(MaxPosts - n < MaxPosts - h)
    BY <1>4, <1>5
  <2> QED
    BY <1>1, <2>1
<1> QED
  BY <1>6

(* The current report knows what any report knows: the heads are of one    *)
(* generation, so there is one, and from every report a chain of           *)
(* successors leads up to it.                                              *)
LEMMA CurrentKnowsAll ==
  ASSUME TypeOK, NotesInv, NEW c \in alive, IsCurrent(c), NEW k \in alive
  PROVE  Knows(report[c].marks, report[k].marks)
<1> DEFINE S == {n \in alive : ~Knows(report[c].marks, report[n].marks)}
<1> SUFFICES ASSUME S # {} PROVE FALSE
  OBVIOUS
<1>1. S \in SUBSET NoteIds /\ alive \subseteq Nat
  BY NoteIdsAreNumbers DEF TypeOK
<1>2. PICK h \in S : \A n \in S : n <= h
  BY <1>1, NewestExists
<1>3. c \in Heads /\ \A n \in Heads : report[n].gen = report[c].gen
  BY DEF IsCurrent
<1>4. h \notin Heads
  BY <1>2, <1>3, KnowsIsOrder DEF NotesInv, Heads
<1>5. PICK m \in alive : report[m].pred = h
  BY <1>2, <1>4 DEF Heads
<1>6. h < m /\ Knows(report[m].marks, report[h].marks)
  BY <1>2, <1>5 DEF NotesInv
<1>7. m \notin S
  BY <1>1, <1>2, <1>5, <1>6
<1> QED
  BY <1>2, <1>5, <1>6, <1>7, KnowsIsOrder

(* A current report that is the oldest is the only one.                    *)
LEMMA CurrentAndOldestIsOnly ==
  ASSUME TypeOK, NotesInv, NEW c \in alive, IsCurrent(c), \A n \in alive : c <= n
  PROVE  alive = {c}
<1>1. alive \in SUBSET NoteIds /\ alive \subseteq Nat
  BY NoteIdsAreNumbers DEF TypeOK
<1>2. PICK h \in alive : \A n \in alive : n <= h
  BY <1>1, NewestExists
<1>3. h \in Heads
  BY <1>1, <1>2, NoteIdsAreNumbers DEF Heads, NotesInv
<1>4. h <= c
  BY <1>3, PublicationAssumption, NoteIdsAreNumbers DEF IsCurrent, Heads, NoNote
<1>5. \A n \in alive : n = c
  BY <1>1, <1>2, <1>4
<1> QED
  BY <1>5

-----------------------------------------------------------------------------
(* The notes.                                                              *)

(* No note comes; those that stay keep their place and their findings.     *)
LEMMA NotesKeep ==
  ASSUME NotesInv, UNCHANGED <<posts, inflight>>, alive' \subseteq alive,
         \A n \in alive' : /\ report'[n].pred = report[n].pred
                            /\ report'[n].gen = report[n].gen
                            /\ SameKnown(report'[n].marks, report[n].marks),
         \A n \in NoteIds : Boxed(report'[n])
  PROVE  NotesInv'
<1>1. \A n \in alive' : report'[n].pred < n /\ report'[n].gen <= posts'
  BY DEF NotesInv
<1>2. \A n, m \in alive' : report'[m].pred = n => Knows(report'[m].marks, report'[n].marks)
  BY KnowsIsOrder DEF NotesInv, SameKnown
<1>3. \A n \in alive', r \in inflight' : r.pred = n => Knows(r.marks, report'[n].marks)
  BY KnowsIsOrder DEF NotesInv, SameKnown
<1> QED
  BY <1>1, <1>2, <1>3 DEF NotesInv, Boxed

LEMMA NotesStand ==
  ASSUME NotesInv, UNCHANGED notes
  PROVE  NotesInv'
<1>1. \A n \in NoteIds : Boxed(report'[n])
  BY DEF notes, NotesInv
<1> QED
  BY <1>1, NotesKeep, KnowsIsOrder DEF notes, SameKnown

(* A body comes to the top of a chain, as a note or as a POST in flight.   *)
Tops(r) ==
  /\ r.pred <= lastId
  /\ Boxed(r) /\ ~r.replied
  /\ \A n \in alive : report[n].gen # r.gen /\ (r.pred = n => Knows(r.marks, report[n].marks))

LEMMA NotesGrow ==
  ASSUME Inv, NotesInv, lastId < MaxPosts, NEW r \in Reports, Tops(r), AddNote(r),
         \A s \in inflight' : s \in inflight /\ s.gen # r.gen,
         posts' \in Nat, posts <= posts', r.gen <= posts'
  PROVE  NotesInv'
<1> DEFINE k == lastId + 1
<1>1. /\ TypeOK /\ lastId \in Nat /\ posts \in Nat /\ r.pred \in Nat
      /\ \A n \in alive : n \in NoteIds /\ n \in Nat /\ n <= lastId
                          /\ report[n].gen \in Nat /\ report[n].pred \in Nat
      /\ \A s \in inflight : s.gen \in Nat /\ s.pred \in Nat /\ s.pred <= lastId
  BY NoteIdsAreNumbers, PublicationAssumption
     DEF Inv, TypeInv, TypeOK, ReplacementInv, Reports
<1>2. k \in NoteIds
  BY <1>1, PublicationAssumption DEF NoteIds
<1>3. /\ alive' = alive \cup {k} /\ report'[k] = r
      /\ \A n \in alive : n # k /\ report'[n] = report[n]
      /\ \A n \in NoteIds \ {k} : report'[n] = report[n]
  <2>1. report \in [NoteIds -> Reports]
    BY <1>1 DEF TypeOK
  <2> QED
    BY <1>1, <1>2, <2>1 DEF AddNote
<1>4. /\ r.pred < k /\ \A n \in alive : report[n].pred # k
      /\ \A s \in inflight : s.pred # k
  BY <1>1 DEF Tops, NotesInv
<1>5. /\ \A n \in alive' : report'[n].pred < n /\ report'[n].gen <= posts'
      /\ \A n \in NoteIds : Boxed(report'[n])
  BY <1>1, <1>2, <1>3, <1>4 DEF NotesInv, Tops
<1>6. \A s \in inflight' : s.gen <= posts' /\ ~s.replied /\ Boxed(s)
  BY <1>1 DEF NotesInv
<1> HIDE DEF k
<1>7. \A n, m \in alive' : report'[n].gen = report'[m].gen => n = m
  BY <1>3 DEF NotesInv, Tops
<1>8. \A n \in alive', s \in inflight' : report'[n].gen # s.gen
  BY <1>3 DEF NotesInv, Tops
<1>9. \A n, m \in alive' : report'[m].pred = n => Knows(report'[m].marks, report'[n].marks)
  BY <1>1, <1>3, <1>4 DEF NotesInv, Tops
<1>10. \A n \in alive', s \in inflight' : s.pred = n => Knows(s.marks, report'[n].marks)
  BY <1>3, <1>4 DEF NotesInv
<1> QED
  BY <1>5, <1>6, <1>7, <1>8, <1>9, <1>10 DEF NotesInv, Boxed

-----------------------------------------------------------------------------
(* Steps that leave the job as it is, end it, or only move it on.          *)

JobInv == KnownInv /\ WrittenInv /\ SeenInv

LEMMA EndsJob ==
  ASSUME pc' \in {"idle", "recover"}, lastId' \in Nat,
         job' = NoJob \/ job' = [NoJob EXCEPT !.cap = Fingerprint]
  PROVE  JobInv'
<1>1. job'.cur = 0 /\ job'.sup = {} /\ job'.succ = 0 /\ job'.overruled = {}
  BY DEF NoJob, NoNote
<1>2. Retirees' = {}
  BY <1>1 DEF Retirees, NoNote
<1>3. KnownInv'
  BY <1>1, <1>2 DEF KnownInv, Written, NoNote
<1>4. WrittenInv' /\ SeenInv'
  BY DEF WrittenInv, SeenInv, Written, LabelPhases, SeenPhases
<1> QED
  BY <1>3, <1>4 DEF JobInv

LEMMA EndRunEndsJob ==
  ASSUME Inv, NEW result, EndRun(result), UNCHANGED lastId
  PROVE  JobInv'
<1>1. lastId \in Nat
  BY NoteIdsAreNumbers DEF Inv, TypeInv
<1> QED
  BY <1>1, EndsJob DEF EndRun

(* The calls after which the job goes on with what it has.                 *)
Onward ==
  {<<"fresh1", "recover2">>, <<"fresh2", "confirm">>, <<"confirm", "create">>,
   <<"verify", "fresh3">>, <<"fresh3", "late">>, <<"fresh3", "discard">>,
   <<"lateVerify", "inspect">>, <<"fresh4", "retire">>, <<"retire", "converge">>,
   <<"labelVerify", "labelFresh">>, <<"labelFresh", "labelSync">>,
   <<"labelFresh", "labelClear">>, <<"labelFresh2", "labelConfirm">>,
   <<"labelFresh2", "labelRecheck">>, <<"labelRecheck", "labelClear">>}

LEMMA MovesOn ==
  ASSUME JobInv, UNCHANGED <<notes, label, job, raced>>, pc' = pc \/ <<pc, pc'>> \in Onward
  PROVE  JobInv'
<1>1. Retirees' = Retirees
  BY DEF Retirees
<1>2. /\ pc' = "review" => pc = "review"
      /\ pc' = "recover" => pc = "recover"
      /\ pc' = "find" => pc = "find"
      /\ pc' \in Written \cup {"finalise"} => pc \in Written \cup {"finalise"}
      /\ pc' \in {"fresh4", "retire"} => pc \in {"fresh4", "retire"}
      /\ pc' \notin {"idle", "recover", "review"} => pc \notin {"idle", "recover", "review"}
      /\ pc' \in Written => pc \in Written
      /\ pc = "lateUpdate" => pc' = "lateUpdate"
      /\ pc' \in LabelPhases => pc \in LabelPhases
      /\ pc' \in {"labelFresh2", "labelConfirm"} => pc \in {"labelFresh2", "labelConfirm"}
      /\ pc' \in SeenPhases => pc \in SeenPhases
      /\ pc' \in {"discardDelete", "reread"} => pc \in {"discardDelete", "reread"}
  BY DEF Onward, Written, LabelPhases, SeenPhases
<1>3. KnownInv'
  BY <1>1, <1>2 DEF JobInv, KnownInv, notes
<1>4. WrittenInv'
  BY <1>2 DEF JobInv, WrittenInv, Finished, notes
<1>5. SeenInv'
  BY <1>2 DEF JobInv, SeenInv, notes
<1> QED
  BY <1>3, <1>4, <1>5 DEF JobInv

(* A report keeps what only its job may write.                             *)
Keeps(new, old) ==
  /\ new.pred = old.pred /\ new.gen = old.gen /\ new.bound = old.bound
  /\ new.fp = old.fp /\ new.approved = old.approved /\ new.marks = old.marks

LEMMA JobNumbers ==
  ASSUME Inv
  PROVE  /\ lastId \in Nat /\ job.succ \in Nat /\ job.cur \in Nat
         /\ NoteIds \subseteq Nat /\ NoNote \notin NoteIds
         /\ Retirees \subseteq NoteIds
         /\ job.cur # NoNote => job.cur \in Retirees
         /\ \A n \in alive : n \in NoteIds /\ n \in Nat /\ n <= lastId
<1>1. TypeOK /\ \A n \in alive : n <= lastId
  BY DEF Inv, TypeInv, ReplacementInv
<1>2. job.sup \in SUBSET NoteIds /\ job.cur \in 0 .. MaxPosts
  BY <1>1 DEF TypeOK, Jobs
<1>3. Retirees \subseteq NoteIds /\ (job.cur # NoNote => job.cur \in Retirees)
  BY <1>2, PublicationAssumption DEF Retirees, NoteIds, NoNote
<1>4. NoteIds \subseteq Nat /\ NoNote \notin NoteIds
  BY PublicationAssumption DEF NoteIds, NoNote
<1>5. alive \subseteq NoteIds
  BY <1>1 DEF TypeOK
<1> QED
  BY <1>1, <1>3, <1>4, <1>5, NoteIdsAreNumbers

(* Humans and late POSTs: notes come, and those there are keep what the    *)
(* jobs have written.                                                      *)
LEMMA OthersAct ==
  ASSUME Inv, JobInv, UNCHANGED <<pc, job, label>>,
         lastId' \in Nat, lastId <= lastId', alive \subseteq alive', inflight' \subseteq inflight,
         \A n \in NoteIds : n <= lastId => Keeps(report'[n], report[n]),
         \A n \in alive' \ alive :
           /\ n \in NoteIds /\ lastId < n
           /\ \E r \in inflight : report'[n].gen = r.gen /\ report'[n].marks = r.marks
  PROVE  /\ KnownInv' /\ WrittenInv'
         /\ pc' \in SeenPhases /\ job'.cur \in alive' =>
              Carried([boxes |-> job'.seen[job'.cur], marks |-> report'[job'.cur].marks],
                      job'.draft, job'.overruled)
<1>0. Retirees' = Retirees
  BY DEF Retirees
<1>1. /\ lastId \in Nat /\ job.succ \in Nat /\ job.cur \in Nat
      /\ Retirees' = Retirees /\ Retirees \subseteq NoteIds
      /\ \A n \in alive : n \in NoteIds /\ n \in Nat /\ n <= lastId
      /\ job.cur # NoNote => job.cur \in Retirees
      /\ NoteIds \subseteq Nat
  BY <1>0, JobNumbers
<1>2. \A n \in Retirees : n <= lastId /\ Knows(job.draft.marks, report[n].marks)
  BY DEF JobInv, KnownInv
<1>3. \A n \in Retirees : report'[n].marks = report[n].marks
  BY <1>1, <1>2 DEF Keeps
<1>4. \A n \in alive : Keeps(report'[n], report[n])
  BY <1>1
<1>5. KnownInv'
  <2>1. job'.succ <= lastId' /\ (pc' = "recover" => job'.sup = {})
    BY <1>1 DEF JobInv, KnownInv
  <2>8. pc' \in {"recover", "review"} => job'.overruled = {}
    BY DEF JobInv, KnownInv
  <2>2. \A n \in Retirees' : n <= lastId' /\ Knows(job'.draft.marks, report'[n].marks)
    BY <1>1, <1>2, <1>3
  <2>3. job'.cur # NoNote => Remembers(job'.draft, report'[job'.cur].marks, job'.overruled)
    BY <1>1, <1>3 DEF JobInv, KnownInv
  <2>4. pc' = "review" /\ job'.cur # NoNote => NoneByAI(job'.draft, report'[job'.cur].marks)
    BY <1>1, <1>3 DEF JobInv, KnownInv
  <2>5. ASSUME pc' = "find"
        PROVE  /\ \A n \in alive' : report'[n].gen = job'.gen =>
                    n \notin Retirees' /\ SameKnown(report'[n].marks, job'.draft.marks)
               /\ \A r \in inflight' : r.gen = job'.gen =>
                    SameKnown(r.marks, job'.draft.marks)
    <3>1. /\ \A n \in alive : report[n].gen = job.gen =>
               n \notin Retirees /\ SameKnown(report[n].marks, job.draft.marks)
          /\ \A r \in inflight : r.gen = job.gen => SameKnown(r.marks, job.draft.marks)
      BY <2>5 DEF JobInv, KnownInv
    <3>2. ASSUME NEW n \in alive', report'[n].gen = job.gen
          PROVE  n \notin Retirees /\ SameKnown(report'[n].marks, job.draft.marks)
      <4>1. CASE n \in alive
        BY <1>4, <3>1, <3>2, <4>1 DEF Keeps
      <4>2. CASE n \notin alive
        <5>1. lastId < n /\ n \in Nat
          BY <1>1, <4>2
        <5>2. n \notin Retirees
          BY <1>1, <1>2, <5>1
        <5> QED
          BY <3>1, <3>2, <4>2, <5>2
      <4> QED
        BY <4>1, <4>2
    <3> QED
      BY <1>1, <3>1, <3>2
  <2>6. pc' \in Written \cup {"finalise"} =>
          /\ job'.succ \in alive' \ Retirees'
          /\ report'[job'.succ].pred = job'.cur
          /\ report'[job'.succ].gen = job'.gen
          /\ SameKnown(report'[job'.succ].marks, job'.draft.marks)
    BY <1>1, <1>4 DEF JobInv, KnownInv, Keeps
  <2>7. pc' \in {"fresh4", "retire"} => job'.todo \subseteq Retirees'
    BY <1>1 DEF JobInv, KnownInv
  <2> QED
    BY <2>1, <2>2, <2>3, <2>4, <2>5, <2>6, <2>7, <2>8 DEF KnownInv
<1>6. WrittenInv'
  <2>1. pc \in Written => job.succ \in alive
    BY DEF JobInv, KnownInv
  <2>2. pc' \in Written => /\ Finished(report[job.succ])'
                           /\ pc' # "lateUpdate" => report'[job'.succ].marks = job'.draft.marks
    BY <1>4, <2>1 DEF JobInv, WrittenInv, Finished, Keeps
  <2>3. pc' \in LabelPhases /\ job'.succ # NoNote =>
          /\ job'.succ \in alive'
          /\ \A n \in alive' : job'.succ <= n
          /\ Finished(report[job.succ])'
    <3> SUFFICES ASSUME pc \in LabelPhases, job.succ # NoNote
                 PROVE  /\ job.succ \in alive'
                        /\ \A n \in alive' : job.succ <= n
                        /\ Finished(report[job.succ])'
      OBVIOUS
    <3>1. job.succ \in alive /\ Finished(report[job.succ]) /\ \A n \in alive : job.succ <= n
      BY DEF JobInv, WrittenInv
    <3>2. \A n \in alive' \ alive : job.succ <= n
      <4> TAKE n \in alive' \ alive
      <4>1. job.succ <= lastId
        BY DEF JobInv, KnownInv
      <4>2. n \in NoteIds /\ lastId < n
        OBVIOUS
      <4>3. n \in Nat
        BY <1>1, <4>2
      <4> QED
        BY <1>1, <4>1, <4>2, <4>3
    <3> QED
      BY <1>4, <3>1, <3>2 DEF Finished, Keeps
  <2> QED
    BY <2>2, <2>3 DEF JobInv, WrittenInv
<1>7. ASSUME pc' \in SeenPhases, job'.cur \in alive'
      PROVE  Carried([boxes |-> job'.seen[job'.cur], marks |-> report'[job'.cur].marks],
                     job'.draft, job'.overruled)
  <2>1. job.cur \in Retirees /\ job.cur <= lastId
    BY <1>1, <1>2, <1>7, PublicationAssumption DEF NoteIds, NoNote
  <2>2. job.cur \in alive
    BY <1>1, <1>7, <2>1
  <2> QED
    BY <1>3, <1>7, <2>1, <2>2 DEF JobInv, SeenInv
<1> QED
  BY <1>5, <1>6, <1>7

LEMMA DeletionParts == DeletionInv <=> Inv /\ NotesInv /\ JobInv
BY DEF DeletionInv, JobInv

(* Clicks, replies and changes of the merge request.                       *)
LEMMA HumansKeep ==
  ASSUME DeletionInv, HumanStep
  PROVE  NotesInv' /\ JobInv'
<1>0. /\ Inv /\ TypeOK /\ NotesInv /\ JobInv /\ lastId \in Nat
      /\ \A m \in alive : m \in NoteIds /\ report[m] \in Reports
  BY DeletionParts, JobNumbers DEF Inv, TypeInv, TypeOK
<1>1. ASSUME NEW n \in alive, NEW f \in Findings, Toggle(n, f) PROVE NotesInv' /\ JobInv'
  <2> DEFINE b == [report[n].boxes EXCEPT ![f] = IF @ = "off" THEN "on" ELSE "off"]
  <2>1. report' = [report EXCEPT ![n] = [report[n] EXCEPT !.boxes = b]]
    BY <1>1 DEF Toggle
  <2>2. /\ UNCHANGED <<alive, lastId, posts, inflight, pc, job, label>>
        /\ raced \subseteq raced'
        /\ pc \in {"fresh4", "retire"} => n \in raced'
    BY <1>1 DEF Toggle
  <2>3. \A g \in Findings : b[g] = "nil" <=> report[n].boxes[g] = "nil"
    BY <1>0, <1>1 DEF Toggle, Reports
  <2> HIDE DEF b
  <2>4. /\ Keeps([report[n] EXCEPT !.boxes = b], report[n])
        /\ [report[n] EXCEPT !.boxes = b].boxes = b
        /\ [report[n] EXCEPT !.boxes = b].replied = report[n].replied
    BY <1>0 DEF Reports, Keeps
  <2>5. /\ \A m \in NoteIds : Keeps(report'[m], report[m]) /\ report'[m].replied = report[m].replied
        /\ \A m \in NoteIds \ {n} : report'[m].boxes = report[m].boxes
        /\ report'[n].boxes = b
    BY <1>0, <2>1, <2>4 DEF TypeOK, Keeps
  <2>6. \A m \in NoteIds : Boxed(report'[m])
    BY <1>0, <2>3, <2>5 DEF NotesInv, Boxed, Keeps
  <2>7. NotesInv'
    BY <1>0, <2>2, <2>5, <2>6, NotesKeep, KnowsIsOrder DEF Keeps, SameKnown
  <2>8. /\ KnownInv' /\ WrittenInv'
        /\ pc' \in SeenPhases /\ job'.cur \in alive' =>
             Carried([boxes |-> job'.seen[job'.cur], marks |-> report'[job'.cur].marks],
                     job'.draft, job'.overruled)
    BY <1>0, <2>2, <2>5, OthersAct
  <2>9. ASSUME pc' \in {"fresh4", "retire"}, NEW m \in job'.todo \cap alive', m \notin raced'
        PROVE  report'[m].boxes = job'.seen[m] /\ ~report'[m].replied
    <3>1. m # n /\ m \notin raced /\ pc \in {"fresh4", "retire"} /\ m \in job.todo \cap alive
      BY <2>2, <2>9
    <3>2. report[m].boxes = job.seen[m] /\ ~report[m].replied
      BY <1>0, <3>1 DEF JobInv, SeenInv
    <3> QED
      BY <1>0, <2>2, <2>5, <3>1, <3>2
  <2>10. pc' \in {"discardDelete", "reread"} =>
           \A m \in alive' : report'[m].replied => m \in job'.answered \cup raced'
    BY <1>0, <2>2, <2>5 DEF JobInv, SeenInv
  <2> QED
    BY <2>7, <2>8, <2>9, <2>10 DEF JobInv, SeenInv
<1>2. ASSUME NEW n \in alive, Reply(n) PROVE NotesInv' /\ JobInv'
  <2>1. report' = [report EXCEPT ![n] = [report[n] EXCEPT !.replied = TRUE]]
    BY <1>2 DEF Reply
  <2>2. /\ UNCHANGED <<alive, lastId, posts, inflight, pc, job, label>>
        /\ raced \subseteq raced'
        /\ pc \in {"discardDelete", "reread", "fresh4", "retire"} => n \in raced'
    BY <1>2 DEF Reply
  <2>3. /\ Keeps([report[n] EXCEPT !.replied = TRUE], report[n])
        /\ [report[n] EXCEPT !.replied = TRUE].boxes = report[n].boxes
    BY <1>0 DEF Reports, Keeps
  <2>4. /\ \A m \in NoteIds : Keeps(report'[m], report[m]) /\ report'[m].boxes = report[m].boxes
        /\ \A m \in NoteIds \ {n} : report'[m].replied = report[m].replied
    BY <1>0, <2>1, <2>3 DEF TypeOK, Keeps
  <2>5. \A m \in NoteIds : Boxed(report'[m])
    BY <1>0, <2>4 DEF NotesInv, Boxed, Keeps
  <2>6. NotesInv'
    BY <1>0, <2>2, <2>4, <2>5, NotesKeep, KnowsIsOrder DEF Keeps, SameKnown
  <2>7. /\ KnownInv' /\ WrittenInv'
        /\ pc' \in SeenPhases /\ job'.cur \in alive' =>
             Carried([boxes |-> job'.seen[job'.cur], marks |-> report'[job'.cur].marks],
                     job'.draft, job'.overruled)
    BY <1>0, <2>2, <2>4, OthersAct
  <2>8. ASSUME pc' \in {"fresh4", "retire"}, NEW m \in job'.todo \cap alive', m \notin raced'
        PROVE  report'[m].boxes = job'.seen[m] /\ ~report'[m].replied
    <3>1. m # n /\ m \notin raced /\ pc \in {"fresh4", "retire"} /\ m \in job.todo \cap alive
      BY <2>2, <2>8
    <3>2. report[m].boxes = job.seen[m] /\ ~report[m].replied
      BY <1>0, <3>1 DEF JobInv, SeenInv
    <3> QED
      BY <1>0, <2>2, <2>4, <3>1, <3>2
  <2>9. ASSUME pc' \in {"discardDelete", "reread"}, NEW m \in alive', report'[m].replied
        PROVE  m \in job'.answered \cup raced'
    BY <1>0, <2>2, <2>4, <2>9 DEF JobInv, SeenInv
  <2> QED
    BY <2>6, <2>7, <2>8, <2>9 DEF JobInv, SeenInv
<1>3. CASE Change
  BY <1>0, <1>3, NotesStand, MovesOn DEF Change, hub
<1> QED
  BY <1>1, <1>2, <1>3 DEF HumanStep

(* A late POST is applied.                                                 *)
LEMMA LandLateKeeps ==
  ASSUME DeletionInv, LandLate
  PROVE  NotesInv' /\ JobInv'
<1>0. /\ Inv /\ TypeOK /\ NotesInv /\ JobInv /\ lastId \in Nat
  BY DeletionParts, JobNumbers DEF Inv, TypeInv
<1>1. PICK r \in inflight : /\ AddNote(r) /\ inflight' = inflight \ {r}
                            /\ UNCHANGED <<posts, detected, checkpoints, label, mr, left,
                                           pc, job, raced, outcome>>
  BY DEF LandLate
<1>2. r \in Reports /\ posts \in Nat /\ lastId < MaxPosts /\ r.pred <= lastId
  BY <1>0, LatePostFits, PublicationAssumption DEF Inv, ReplacementInv, TypeInv, TypeOK
<1>3. Tops(r) /\ r.gen <= posts /\ \A s \in inflight' : s \in inflight /\ s.gen # r.gen
  BY <1>0, <1>1, <1>2 DEF NotesInv, Tops
<1>4. NotesInv'
  BY <1>0, <1>1, <1>2, <1>3, NotesGrow
<1> DEFINE k == lastId + 1
<1>5. k \in NoteIds /\ lastId < k
  BY <1>0, <1>2, PublicationAssumption DEF NoteIds
<1>6. /\ lastId' = k /\ alive' = alive \cup {k} /\ report'[k] = r
      /\ \A n \in NoteIds : n # k => report'[n] = report[n]
  BY <1>0, <1>1, <1>5 DEF AddNote, TypeOK
<1> HIDE DEF k
<1>7. \A n \in NoteIds : n <= lastId => n # k
  BY <1>0, <1>5, JobNumbers
<1>8. \A n \in alive : n # k /\ n \in NoteIds
  BY <1>0, <1>7, JobNumbers
<1>9. \A n \in NoteIds : n <= lastId => Keeps(report'[n], report[n])
  BY <1>6, <1>7 DEF Keeps
<1>10. lastId' \in Nat /\ lastId <= lastId'
  BY <1>0, <1>5, <1>6, JobNumbers
<1>11. /\ KnownInv' /\ WrittenInv'
       /\ pc' \in SeenPhases /\ job'.cur \in alive' =>
            Carried([boxes |-> job'.seen[job'.cur], marks |-> report'[job'.cur].marks],
                    job'.draft, job'.overruled)
  BY <1>0, <1>1, <1>5, <1>6, <1>9, <1>10, OthersAct
<1>12. ~report'[k].replied
  BY <1>3, <1>6 DEF Tops
<1>13. ASSUME pc' \in {"fresh4", "retire"}, NEW m \in job'.todo \cap alive', m \notin raced'
       PROVE  report'[m].boxes = job'.seen[m] /\ ~report'[m].replied
  <2>1. m \in Retirees /\ m <= lastId /\ m \in NoteIds
    BY <1>0, <1>1, <1>13, JobNumbers DEF JobInv, KnownInv
  <2>2. m # k /\ m \in job.todo \cap alive
    BY <1>1, <1>6, <1>7, <1>13, <2>1
  <2> QED
    BY <1>0, <1>1, <1>6, <1>13, <2>1, <2>2 DEF JobInv, SeenInv
<1>14. ASSUME pc' \in {"discardDelete", "reread"}, NEW m \in alive', report'[m].replied
       PROVE  m \in job'.answered \cup raced'
  BY <1>0, <1>1, <1>6, <1>8, <1>12, <1>14 DEF JobInv, SeenInv
<1> QED
  BY <1>4, <1>11, <1>13, <1>14 DEF JobInv, SeenInv

-----------------------------------------------------------------------------
(* The calls before Publish.                                               *)

LEMMA CurrentIsThere ==
  ASSUME NEW c, IsCurrent(c), c # NoNote
  PROVE  c \in alive
BY DEF IsCurrent, Heads

(* Recover: the job has the current report and what it says.               *)
LEMMA RecoverKeeps ==
  ASSUME DeletionInv, NEW c \in 0 .. lastId,
         RecoverRepair(c) \/ RecoverRepublish(c) \/ RecoverReview(c)
  PROVE  NotesInv' /\ JobInv'
<1>0. /\ Inv /\ TypeOK /\ NotesInv /\ JobInv /\ lastId \in Nat /\ job \in Jobs
      /\ job.succ <= lastId
  BY DeletionParts, JobNumbers DEF Inv, TypeInv, TypeOK, JobInv, KnownInv
<1>1. /\ pc = "recover" /\ pc' \in {"labelVerify", "fresh1", "review"} /\ UNCHANGED gitlab
      /\ IsCurrent(c)
      /\ pc' # "review" => Reusable(c)
      /\ job'.cur = c /\ job'.draft = Recovered(c) /\ job'.sup = job.sup /\ job'.cap = job.cap
      /\ job.overruled = {} /\ job'.overruled = job.overruled
      /\ pc' # "labelVerify" => job'.succ = job.succ
  BY <1>0 DEF RecoverRepair, RecoverRepublish, RecoverReview, Goto, Jobs, JobInv, KnownInv
<1>2. UNCHANGED notes /\ NotesInv'
  BY <1>0, <1>1, NotesStand DEF gitlab, hub
<1>3. pc' = "labelVerify" =>
        /\ alive = {c}
        /\ job'.succ = IF report[c].bound THEN c ELSE NoNote
  <2>1. pc' = "labelVerify" => RecoverRepair(c)
    BY DEF RecoverRepublish, RecoverReview, Goto
  <2> QED
    BY <1>0, <2>1 DEF RecoverRepair, Undisturbed, Jobs
<1>4. Retirees' = {c} \ {NoNote}
  <2>1. job.sup = {}
    BY <1>0, <1>1 DEF JobInv, KnownInv
  <2> QED
    BY <1>1, <2>1 DEF Retirees
<1>5. c # NoNote =>
        /\ c \in alive
        /\ Knows(Recovered(c).marks, report[c].marks)
        /\ Remembers(Recovered(c), report[c].marks, job.overruled)
        /\ NoneByAI(Recovered(c), report[c].marks)
        /\ Recovered(c).fp = report[c].fp
        /\ Recovered(c).approved = report[c].approved
  BY <1>0, <1>1, RecoveredKnows, CurrentIsThere
<1>6. job'.succ <= lastId'
  BY <1>0, <1>1, <1>2, <1>3 DEF notes, NoNote
<1>7. KnownInv'
  BY <1>1, <1>2, <1>4, <1>5, <1>6 DEF KnownInv, notes, Written
<1>8. pc' # "review" => job'.draft.fp = job'.cap
  BY <1>1, <1>5 DEF Reusable
<1>9. pc' = "labelVerify" /\ job'.succ # NoNote =>
        /\ job'.succ = c /\ c \in alive' /\ \A n \in alive' : job'.succ <= n
        /\ Finished(report[c])'
  BY <1>1, <1>2, <1>3, <1>5 DEF notes, Finished
<1>10. WrittenInv'
  BY <1>1, <1>8, <1>9 DEF WrittenInv, Written, LabelPhases
<1>11. SeenInv'
  BY <1>1 DEF SeenInv, SeenPhases
<1> QED
  BY <1>2, <1>7, <1>10, <1>11 DEF JobInv

(* A review forgets no finding, and leaves the human's marks alone but for *)
(* those it overrules.                                                     *)
LEMMA ReviewKeeps ==
  ASSUME DeletionInv, NEW marks \in [Findings -> Marks], NEW complete \in BOOLEAN,
         NEW approved \in BOOLEAN, Review(marks, complete, approved)
  PROVE  NotesInv' /\ JobInv'
<1>0. /\ Inv /\ TypeOK /\ NotesInv /\ JobInv /\ job \in Jobs
  BY DeletionParts DEF Inv, TypeInv, TypeOK
<1>1. /\ pc = "review" /\ pc' = "fresh1" /\ UNCHANGED notes
      /\ job'.cur = job.cur /\ job'.sup = job.sup /\ job'.succ = job.succ
      /\ job'.draft.fp = job'.cap
      /\ job'.draft.marks = marks /\ job'.draft.last = job.draft.last
      /\ job.overruled = {}
      /\ job'.overruled = {f \in Findings : job.draft.marks[f] = "box" /\ marks[f] = "open"}
  BY <1>0 DEF Review, Goto, Jobs, Drafts, JobInv, KnownInv
<1>2. NotesInv' /\ Retirees' = Retirees
  BY <1>0, <1>1, NotesStand DEF Retirees
<1>3. ASSUME NEW f \in Findings
      PROVE  /\ job.draft.marks[f] # "absent" => marks[f] # "absent"
             /\ job.draft.marks[f] # "ai" /\ job.draft.last[f] # "nil"
                  /\ job.draft.marks[f] = Said(job.draft.last[f])
                => \/ marks[f] \in {Said(job.draft.last[f]), "ai"}
                   \/ marks[f] = "open" /\ f \in job'.overruled
  <2>1. job.draft.marks[f] \in Marks
    BY <1>0 DEF Jobs, Drafts
  <2>2. CASE AITransition(job.draft.marks[f], marks[f])
    BY <2>1, <2>2 DEF AITransition, Marks, Said
  <2>3. CASE Replays(f, marks[f])
    <3>1. marks[f] \in {"open", "ai"}
      BY <1>0, <2>3 DEF Replays, TypeOK, Decisions
    <3> QED
      BY <1>1, <3>1 DEF Said
  <2> QED
    BY <2>2, <2>3 DEF Review
<1>4. Knows(marks, job.draft.marks)
  BY <1>3 DEF Knows
<1>5. job.cur # NoNote => Remembers(job'.draft, report[job.cur].marks, job'.overruled)
  <2> SUFFICES ASSUME job.cur # NoNote
               PROVE  Remembers(job'.draft, report[job.cur].marks, job'.overruled)
    OBVIOUS
  <2>1. /\ Remembers(job.draft, report[job.cur].marks, job.overruled)
        /\ NoneByAI(job.draft, report[job.cur].marks)
    BY <1>0, <1>1 DEF JobInv, KnownInv
  <2> QED
    BY <1>1, <1>3, <2>1 DEF Remembers, NoneByAI
<1>6. KnownInv'
  BY <1>0, <1>1, <1>2, <1>4, <1>5, KnowsIsOrder DEF JobInv, KnownInv, notes, Written
<1>7. WrittenInv' /\ SeenInv'
  BY <1>1 DEF WrittenInv, SeenInv, Written, LabelPhases, SeenPhases
<1> QED
  BY <1>2, <1>6, <1>7 DEF JobInv

(* The second Recover: the draft knows what any of the reports knows.      *)
LEMMA RecoverAgainKeeps ==
  ASSUME DeletionInv, RecoverAgain
  PROVE  NotesInv' /\ JobInv'
<1>0. /\ Inv /\ TypeOK /\ NotesInv /\ JobInv /\ job \in Jobs /\ lastId \in Nat
      /\ \A n \in alive : n \in NoteIds /\ n <= lastId /\ report[n] \in Reports
      /\ NoNote \notin NoteIds
  BY DeletionParts, JobNumbers DEF Inv, TypeInv, TypeOK
<1>1. pc = "recover2" /\ UNCHANGED notes /\ NotesInv'
  BY <1>0, NotesStand DEF RecoverAgain, gitlab, hub
<1>2. CASE ~IsCurrent(job.cur)
  BY <1>0, <1>1, <1>2, EndRunEndsJob DEF RecoverAgain, notes
<1>3. CASE IsCurrent(job.cur)
  <2>1. /\ pc' = "fresh2"
        /\ job'.cur = job.cur /\ job'.succ = job.succ /\ job'.cap = job.cap
        /\ job'.sup = alive \ {job.cur} /\ job'.overruled = job.overruled
        /\ job'.draft = IF job.cur = NoNote THEN job.draft
                        ELSE WithControls(job.draft, report[job.cur])
    BY <1>0, <1>3 DEF RecoverAgain, Jobs
  <2>2. job.cur # NoNote =>
          /\ job.cur \in alive
          /\ Remembers(job'.draft, report[job.cur].marks, job'.overruled)
          /\ Knows(job'.draft.marks, report[job.cur].marks)
          /\ job'.draft.fp = job.draft.fp
    <3> SUFFICES ASSUME job.cur # NoNote
                 PROVE  /\ job.cur \in alive
                        /\ Remembers(job'.draft, report[job.cur].marks, job'.overruled)
                        /\ Knows(job'.draft.marks, report[job.cur].marks)
                        /\ job'.draft.fp = job.draft.fp
      OBVIOUS
    <3>1. job.cur \in alive /\ job.cur \in Retirees
      BY <1>0, <1>3, CurrentIsThere, JobNumbers
    <3>2. /\ Knows(job.draft.marks, report[job.cur].marks)
          /\ Remembers(job.draft, report[job.cur].marks, job.overruled)
          /\ Boxed(report[job.cur]) /\ job.draft \in Drafts /\ report[job.cur] \in Reports
      BY <1>0, <3>1 DEF JobInv, KnownInv, NotesInv, Jobs
    <3> QED
      BY <2>1, <3>1, <3>2, ControlsCarry, KnowsIsOrder DEF SameKnown
  <2>3. \A n \in Retirees' : n \in alive
    <3>1. Retirees' = ((alive \ {job.cur}) \cup {job.cur}) \ {NoNote}
      BY <2>1 DEF Retirees
    <3> QED
      BY <2>2, <3>1
  <2>4. ASSUME NEW n \in Retirees'
        PROVE  n <= lastId' /\ Knows(job'.draft.marks, report'[n].marks)
    <3>1. n \in alive
      BY <2>3, <2>4
    <3>2. job.cur # NoNote
      BY <1>0, <1>3, <3>1 DEF IsCurrent, Heads
    <3>3. Knows(report[job.cur].marks, report[n].marks)
      BY <1>0, <1>3, <2>2, <3>1, <3>2, CurrentKnowsAll
    <3> QED
      BY <1>0, <1>1, <2>2, <3>1, <3>2, <3>3, KnowsIsOrder DEF notes
  <2>5. KnownInv'
    BY <1>0, <1>1, <2>1, <2>2, <2>4 DEF JobInv, KnownInv, notes, Written
  <2>6. WrittenInv' /\ SeenInv'
    BY <1>0, <1>1, <2>1, <2>2
       DEF JobInv, WrittenInv, SeenInv, Written, LabelPhases, SeenPhases
  <2> QED
    BY <1>1, <2>5, <2>6 DEF JobInv
<1> QED
  BY <1>2, <1>3

-----------------------------------------------------------------------------
(* The POST and its outcomes.                                              *)

(* What the job POSTs tops the notes there are.                            *)
LEMMA PostedTops ==
  ASSUME DeletionInv, posts < MaxPosts
  PROVE  /\ Posted \in Reports /\ Tops(Posted) /\ Posted.gen = posts + 1
         /\ Posted.marks = job.draft.marks /\ Posted.pred = job.cur
         /\ posts \in Nat /\ lastId < MaxPosts
         /\ \A s \in inflight : s.gen \in Nat /\ s.gen # Posted.gen
<1>0. /\ Inv /\ TypeOK /\ NotesInv /\ JobInv /\ job \in Jobs /\ posts \in Nat
      /\ lastId <= posts /\ lastId \in Nat /\ job.cur <= lastId
      /\ \A n \in alive : n \in NoteIds /\ report[n] \in Reports
  BY DeletionParts, JobNumbers, PublicationAssumption
     DEF Inv, TypeInv, TypeOK, ReplacementInv
<1>1. /\ Posted.gen = posts + 1 /\ Posted.marks = job.draft.marks /\ Posted.pred = job.cur
      /\ ~Posted.replied
  BY DEF Posted, Encode
<1>2. Posted \in Reports /\ lastId < MaxPosts
  BY <1>0, PostedType, PublicationAssumption
<1>3. Boxed(Posted)
  BY <1>0, RenderedIsBoxed DEF Posted, Jobs
<1>4. \A n \in alive : report[n].gen # posts + 1
  <2> TAKE n \in alive
  <2>1. report[n].gen \in Nat /\ report[n].gen <= posts
    BY <1>0, PublicationAssumption DEF Reports, NotesInv
  <2> QED
    BY <1>0, <2>1
<1>5. \A n \in alive : job.cur = n => Knows(job.draft.marks, report[n].marks)
  BY <1>0, JobNumbers DEF JobInv, KnownInv
<1>6. \A s \in inflight : s.gen \in Nat /\ s.gen # posts + 1
  <2> TAKE s \in inflight
  <2>1. s.gen \in Nat /\ s.gen <= posts
    BY <1>0, PublicationAssumption DEF TypeOK, Reports, NotesInv
  <2> QED
    BY <1>0, <2>1
<1> HIDE DEF Posted
<1>7. Tops(Posted)
  BY <1>0, <1>1, <1>3, <1>4, <1>5 DEF Tops
<1> QED
  BY <1>0, <1>1, <1>2, <1>6, <1>7

(* The job between its POST and what follows from it.                      *)
LEMMA PostingKeeps ==
  ASSUME DeletionInv, posts < MaxPosts, pc = "create", pc' \in {"find", "finalise"},
         job'.cur = job.cur, job'.sup = job.sup, job'.draft = job.draft, job'.cap = job.cap,
         job'.gen = posts + 1, job'.succ <= lastId', job'.overruled = job.overruled,
         lastId' \in Nat, lastId <= lastId',
         \A n \in NoteIds : n <= lastId => report'[n] = report[n],
         \A n \in alive' \ alive : n \in NoteIds /\ lastId < n /\ report'[n] = Posted,
         inflight' \subseteq inflight \cup {Posted},
         pc' = "finalise" => job'.succ \in alive' \ alive
  PROVE  JobInv'
<1>0. /\ Inv /\ TypeOK /\ NotesInv /\ JobInv /\ lastId \in Nat
      /\ \A n \in alive : n \in NoteIds /\ n <= lastId /\ report[n].gen # posts + 1
      /\ NoteIds \subseteq Nat
      /\ Retirees \subseteq NoteIds /\ \A n \in Retirees : n <= lastId
      /\ job.cur # NoNote => job.cur \in Retirees
  BY PostedTops, DeletionParts, JobNumbers DEF Inv, TypeInv, JobInv, KnownInv, Tops
<1>1. Retirees' = Retirees
  BY DEF Retirees
<1>2. /\ Posted.gen = posts + 1 /\ Posted.marks = job.draft.marks /\ Posted.pred = job.cur
      /\ \A s \in inflight : s.gen # posts + 1
  BY PostedTops
<1> HIDE DEF Posted
<1>3. \A n \in Retirees' : n <= lastId' /\ Knows(job'.draft.marks, report'[n].marks)
  <2> TAKE n \in Retirees'
  <2>1. n \in NoteIds /\ n <= lastId /\ n \in Nat /\ Knows(job.draft.marks, report[n].marks)
    BY <1>0, <1>1 DEF JobInv, KnownInv
  <2> QED
    BY <1>0, <2>1
<1>4. job'.cur # NoNote => Remembers(job'.draft, report'[job'.cur].marks, job'.overruled)
  BY <1>0 DEF JobInv, KnownInv
<1>5. \A n \in alive' \ alive : n \notin Retirees'
  <2> TAKE n \in alive' \ alive
  <2>1. n \in NoteIds /\ lastId < n
    OBVIOUS
  <2>2. n \in Nat /\ ~(n <= lastId)
    BY <1>0, <2>1
  <2> QED
    BY <1>0, <1>1, <2>2
<1>6. \A n \in alive' : report'[n].gen = job'.gen =>
        n \notin Retirees' /\ SameKnown(report'[n].marks, job'.draft.marks)
  <2> TAKE n \in alive'
  <2>1. CASE n \in alive
    BY <1>0, <2>1
  <2>2. CASE n \notin alive
    BY <1>2, <1>5, <2>2, KnowsIsOrder DEF SameKnown
  <2> QED
    BY <2>1, <2>2
<1>7. \A r \in inflight' : r.gen = job'.gen => SameKnown(r.marks, job'.draft.marks)
  BY <1>2, KnowsIsOrder DEF SameKnown
<1>8. pc' = "finalise" =>
        /\ job'.succ \in alive' \ Retirees'
        /\ report'[job'.succ].pred = job'.cur
        /\ report'[job'.succ].gen = job'.gen
        /\ SameKnown(report'[job'.succ].marks, job'.draft.marks)
  BY <1>2, <1>5, KnowsIsOrder DEF SameKnown
<1>9. KnownInv'
  BY <1>3, <1>4, <1>6, <1>7, <1>8 DEF KnownInv, Written
<1>10. WrittenInv' /\ SeenInv'
  BY <1>0 DEF JobInv, WrittenInv, SeenInv, Written, LabelPhases, SeenPhases
<1> QED
  BY <1>9, <1>10 DEF JobInv

LEMMA PostedArrives ==
  ASSUME DeletionInv, posts < MaxPosts, AddNote(Posted), posts' = posts + 1,
         UNCHANGED inflight
  PROVE  /\ NotesInv'
         /\ lastId' = lastId + 1 /\ lastId \in Nat /\ lastId + 1 \in alive' \ alive
         /\ \A n \in NoteIds : n <= lastId => report'[n] = report[n]
         /\ \A n \in alive' \ alive : n \in NoteIds /\ lastId < n /\ report'[n] = Posted
<1>0. /\ Inv /\ TypeOK /\ NotesInv /\ lastId \in Nat /\ posts \in Nat /\ lastId < MaxPosts
      /\ NoteIds \subseteq Nat /\ \A n \in alive : n \in Nat /\ n <= lastId
  BY PostedTops, DeletionParts, JobNumbers DEF Inv, TypeInv
<1>1. /\ Posted \in Reports /\ Tops(Posted) /\ Posted.gen <= posts'
      /\ \A s \in inflight' : s \in inflight /\ s.gen # Posted.gen
  BY <1>0, PostedTops
<1> HIDE DEF Posted
<1>2. NotesInv'
  BY <1>0, <1>1, NotesGrow
<1> DEFINE k == lastId + 1
<1>3. k \in NoteIds /\ lastId < k
  BY <1>0, PublicationAssumption DEF NoteIds
<1>4. /\ lastId' = k /\ alive' = alive \cup {k} /\ report'[k] = Posted
      /\ \A n \in NoteIds : n # k => report'[n] = report[n]
  BY <1>0, <1>3 DEF AddNote, TypeOK
<1>5. k \notin alive /\ \A n \in NoteIds : n <= lastId => n # k
  BY <1>0
<1> HIDE DEF k
<1>6. lastId' = lastId + 1 /\ k = lastId + 1
  BY <1>4 DEF k
<1> QED
  BY <1>0, <1>2, <1>3, <1>4, <1>5, <1>6

LEMMA CreateKeeps ==
  ASSUME DeletionInv, CreateNote \/ CreateNoteError
  PROVE  NotesInv' /\ JobInv'
<1>0. /\ Inv /\ TypeOK /\ NotesInv /\ JobInv /\ job \in Jobs /\ lastId \in Nat
      /\ job.succ <= lastId /\ job.succ \in Nat
  BY DeletionParts, JobNumbers DEF Inv, TypeInv, TypeOK, JobInv, KnownInv
<1>1. CASE CreateNote
  <2>1. /\ pc = "create" /\ pc' = "finalise" /\ posts < MaxPosts /\ posts' = posts + 1
        /\ AddNote(Posted) /\ UNCHANGED inflight
        /\ job'.cur = job.cur /\ job'.sup = job.sup /\ job'.draft = job.draft
        /\ job'.cap = job.cap /\ job'.gen = posts + 1 /\ job'.succ = lastId + 1
        /\ job'.overruled = job.overruled
    BY <1>0, <1>1 DEF CreateNote, Send, Goto, Jobs
  <2>2. /\ NotesInv'
        /\ lastId' = lastId + 1 /\ lastId + 1 \in alive' \ alive
        /\ \A n \in NoteIds : n <= lastId => report'[n] = report[n]
        /\ \A n \in alive' \ alive : n \in NoteIds /\ lastId < n /\ report'[n] = Posted
    BY <2>1, PostedArrives
  <2> HIDE DEF Posted
  <2>3. lastId' \in Nat /\ lastId <= lastId' /\ job'.succ <= lastId'
    BY <1>0, <2>1, <2>2
  <2> QED
    BY <2>1, <2>2, <2>3, PostingKeeps
<1>2. CASE CreateNoteError
  <2>1. /\ pc = "create" /\ pc' = "find" /\ posts < MaxPosts /\ posts' = posts + 1
        /\ job'.cur = job.cur /\ job'.sup = job.sup /\ job'.draft = job.draft
        /\ job'.cap = job.cap /\ job'.gen = posts + 1 /\ job'.succ = job.succ
        /\ job'.overruled = job.overruled
    BY <1>0, <1>2 DEF CreateNoteError, Send, Goto, Jobs
  <2>2. CASE AddNote(Posted) /\ UNCHANGED inflight
    <3>1. /\ NotesInv'
          /\ lastId' = lastId + 1
          /\ \A n \in NoteIds : n <= lastId => report'[n] = report[n]
          /\ \A n \in alive' \ alive : n \in NoteIds /\ lastId < n /\ report'[n] = Posted
      BY <2>1, <2>2, PostedArrives
    <3> HIDE DEF Posted
    <3>2. lastId' \in Nat /\ lastId <= lastId' /\ job'.succ <= lastId'
      BY <1>0, <2>1, <3>1
    <3> QED
      BY <2>1, <2>2, <3>1, <3>2, PostingKeeps
  <2>3. CASE inflight' \subseteq inflight \cup {Posted} /\ UNCHANGED <<alive, report, lastId>>
    <3>1. /\ Tops(Posted) /\ Posted.gen = posts + 1 /\ posts \in Nat /\ ~Posted.replied
          /\ Boxed(Posted)
          /\ \A s \in inflight : s.gen \in Nat /\ s.gen # Posted.gen
      BY <2>1, PostedTops DEF Tops
    <3> HIDE DEF Posted
    <3>2. \A n \in alive' : report'[n].pred < n /\ report'[n].gen <= posts'
      <4> TAKE n \in alive'
      <4>1. report[n].gen \in Nat
        BY <1>0, <2>3, PublicationAssumption DEF TypeOK, Reports
      <4> QED
        BY <1>0, <2>1, <2>3, <3>1, <4>1 DEF NotesInv
    <3>3. \A s \in inflight' : s.gen <= posts' /\ ~s.replied /\ Boxed(s)
      BY <1>0, <2>1, <2>3, <3>1 DEF NotesInv
    <3>4. NotesInv'
      BY <1>0, <2>3, <3>1, <3>2, <3>3 DEF NotesInv, Tops, Boxed
    <3>5. JobInv'
      BY <1>0, <2>1, <2>3, PostingKeeps
    <3> QED
      BY <3>4, <3>5
  <2> QED
    BY <1>2, <2>2, <2>3 DEF CreateNoteError
<1> QED
  BY <1>1, <1>2

(* findGeneration takes over the note of its own generation.               *)
LEMMA FindKeeps ==
  ASSUME DeletionInv, FindGeneration
  PROVE  NotesInv' /\ JobInv'
<1>0. /\ Inv /\ TypeOK /\ NotesInv /\ JobInv /\ job \in Jobs
      /\ \A n \in alive : n <= lastId
  BY DeletionParts, JobNumbers DEF Inv, TypeInv, TypeOK
<1>1. pc = "find" /\ UNCHANGED notes /\ NotesInv'
  BY <1>0, NotesStand DEF FindGeneration, gitlab, hub
<1>2. CASE EndRun("failed")
  BY <1>0, <1>1, <1>2, EndRunEndsJob DEF notes
<1>3. CASE \E n \in alive : /\ report[n].gen = job.gen /\ report[n].pred = job.cur
                            /\ pc' = "finalise" /\ job' = [job EXCEPT !.succ = n]
  <2>1. PICK n \in alive : /\ report[n].gen = job.gen /\ report[n].pred = job.cur
                           /\ pc' = "finalise" /\ job' = [job EXCEPT !.succ = n]
    BY <1>3
  <2>2. /\ job'.cur = job.cur /\ job'.sup = job.sup /\ job'.draft = job.draft
        /\ job'.cap = job.cap /\ job'.gen = job.gen /\ job'.succ = n
    BY <1>0, <2>1 DEF Jobs
  <2>3. Retirees' = Retirees
    BY <2>2 DEF Retirees
  <2>4. n \notin Retirees /\ SameKnown(report[n].marks, job.draft.marks)
    BY <1>0, <1>1, <2>1 DEF JobInv, KnownInv
  <2>5. KnownInv'
    BY <1>0, <1>1, <2>1, <2>2, <2>3, <2>4 DEF JobInv, KnownInv, notes, Written
  <2>6. WrittenInv' /\ SeenInv'
    BY <1>0, <1>1, <2>1, <2>2
       DEF JobInv, WrittenInv, SeenInv, Written, LabelPhases, SeenPhases
  <2> QED
    BY <1>1, <2>5, <2>6 DEF JobInv
<1> QED
  BY <1>2, <1>3 DEF FindGeneration

-----------------------------------------------------------------------------
(* From the PUT to the last look at the reports that are to go.            *)

(* The draft is written over the successor.                                *)
LEMMA WritesKeep ==
  ASSUME DeletionInv, Finalise \/ LateUpdate
  PROVE  NotesInv' /\ JobInv'
<1>0. /\ Inv /\ TypeOK /\ NotesInv /\ JobInv /\ job \in Jobs /\ job.draft \in Drafts
      /\ lastId \in Nat /\ NoNote \notin NoteIds
      /\ alive \subseteq NoteIds /\ Retirees \subseteq NoteIds
      /\ job.cur # NoNote => job.cur \in Retirees
  BY DeletionParts, JobNumbers DEF Inv, TypeInv, TypeOK, Jobs
<1> DEFINE R == Rewrite(job.succ, job.draft, job.cur, job.gen)
<1>1. /\ <<pc, pc'>> \in {<<"finalise", "verify">>, <<"lateUpdate", "lateVerify">>}
      /\ report' = [report EXCEPT ![job.succ] = R]
      /\ UNCHANGED <<alive, lastId, posts, inflight, label, job, raced>>
  BY DEF Finalise, LateUpdate, Goto
<1>2. /\ R.pred = job.cur /\ R.gen = job.gen /\ R.bound /\ R.fp = job.draft.fp
      /\ R.approved = job.draft.approved /\ R.marks = job.draft.marks
      /\ R.boxes = RenderedBoxes(job.draft.marks)
  BY DEF Rewrite, Encode
<1> HIDE DEF R
<1>3. Boxed(R)
  <2>1. \A f \in Findings : R.boxes[f] = Rendered(R.marks[f])
    BY <1>2 DEF RenderedBoxes
  <2> QED BY <2>1 DEF Boxed
<1>4. /\ job.succ \in alive /\ job.succ \notin Retirees
      /\ report[job.succ].pred = job.cur /\ report[job.succ].gen = job.gen
      /\ SameKnown(report[job.succ].marks, job.draft.marks)
  BY <1>0, <1>1 DEF JobInv, KnownInv, Written
<1>5. /\ report'[job.succ] = R
      /\ \A n \in NoteIds : n # job.succ => report'[n] = report[n]
  BY <1>0, <1>1, <1>4 DEF TypeOK
<1>6. NotesInv'
  <2>1. \A n \in NoteIds : Boxed(report'[n])
    BY <1>0, <1>3, <1>5 DEF NotesInv
  <2>2. \A n \in alive' : /\ report'[n].pred = report[n].pred
                          /\ report'[n].gen = report[n].gen
                          /\ SameKnown(report'[n].marks, report[n].marks)
    <3> TAKE n \in alive'
    <3>1. CASE n = job.succ
      BY <1>2, <1>4, <1>5, <3>1 DEF SameKnown
    <3>2. CASE n # job.succ
      BY <1>0, <1>1, <1>5, <3>2, KnowsIsOrder DEF SameKnown
    <3> QED
      BY <3>1, <3>2
  <2> QED
    BY <1>0, <1>1, <2>1, <2>2, NotesKeep
<1>7. Retirees' = Retirees /\ \A n \in Retirees : report'[n] = report[n]
  BY <1>0, <1>1, <1>4, <1>5 DEF Retirees
<1>8. KnownInv'
  <2>1. SameKnown(R.marks, job.draft.marks)
    BY <1>2, KnowsIsOrder DEF SameKnown
  <2> QED
    BY <1>0, <1>1, <1>2, <1>4, <1>5, <1>7, <2>1 DEF JobInv, KnownInv, Written
<1>9. WrittenInv'
  BY <1>0, <1>1, <1>2, <1>5 DEF JobInv, WrittenInv, Finished, Written, LabelPhases
<1>10. SeenInv'
  <2>1. job.cur \in alive => report'[job.cur] = report[job.cur]
    BY <1>0, <1>7
  <2> QED
    BY <1>0, <1>1, <2>1 DEF JobInv, SeenInv, SeenPhases
<1> QED
  BY <1>6, <1>8, <1>9, <1>10 DEF JobInv

(* The late clicks on the predecessor are taken into the draft.            *)
LEMMA LateControlsKeep ==
  ASSUME DeletionInv, LateControls
  PROVE  NotesInv' /\ JobInv'
<1>0. /\ Inv /\ TypeOK /\ NotesInv /\ JobInv /\ job \in Jobs /\ job.draft \in Drafts
      /\ NoNote \notin NoteIds /\ alive \subseteq NoteIds /\ Retirees \subseteq NoteIds
      /\ job.cur # NoNote => job.cur \in Retirees
  BY DeletionParts, JobNumbers DEF Inv, TypeInv, TypeOK, Jobs
<1>1. pc = "late" /\ UNCHANGED <<notes, label, raced>> /\ NotesInv'
  BY <1>0, NotesStand DEF LateControls, gitlab, hub
<1>2. CASE job.cur = NoNote
  <2>1. pc' = "inspect" /\ job' = job
    BY <1>2 DEF LateControls
  <2>2. Retirees' = Retirees
    BY <2>1 DEF Retirees
  <2>3. KnownInv' /\ WrittenInv'
    BY <1>0, <1>1, <2>1, <2>2
       DEF JobInv, KnownInv, WrittenInv, Finished, Written, LabelPhases, notes
  <2>4. SeenInv'
    BY <1>0, <1>1, <1>2, <2>1 DEF SeenInv, notes
  <2> QED
    BY <1>1, <2>3, <2>4 DEF JobInv
<1>3. CASE job.cur # NoNote
  <2> DEFINE d == WithControls(job.draft, report[job.cur])
  <2>1. /\ pc' = IF d = job.draft THEN "inspect" ELSE "lateUpdate"
        /\ job' = [job EXCEPT !.draft = d, !.seen[job.cur] = report[job.cur].boxes]
    BY <1>3 DEF LateControls
  <2>2. job.cur \in NoteIds /\ report[job.cur] \in Reports
    BY <1>0, <1>3 DEF TypeOK
  <2>3. /\ Knows(job.draft.marks, report[job.cur].marks)
        /\ Remembers(job.draft, report[job.cur].marks, job.overruled) /\ Boxed(report[job.cur])
    BY <1>0, <1>3, <2>2 DEF JobInv, KnownInv, NotesInv
  <2>4. /\ Carried(report[job.cur], d, job.overruled)
        /\ Remembers(d, report[job.cur].marks, job.overruled)
        /\ SameKnown(job.draft.marks, d.marks)
        /\ d.fp = job.draft.fp /\ d.approved = job.draft.approved
    BY <1>0, <2>2, <2>3, ControlsCarry
  <2> HIDE DEF d
  <2>5. /\ job'.cur = job.cur /\ job'.sup = job.sup /\ job'.draft = d /\ job'.succ = job.succ
        /\ job'.cap = job.cap /\ job'.gen = job.gen /\ job'.overruled = job.overruled
        /\ job'.seen[job.cur] = report[job.cur].boxes
    BY <1>0, <2>1, <2>2 DEF Jobs
  <2>6. Retirees' = Retirees
    BY <2>5 DEF Retirees
  <2>7. /\ job.succ \in alive \ Retirees /\ report[job.succ].pred = job.cur
        /\ report[job.succ].gen = job.gen
        /\ SameKnown(report[job.succ].marks, job.draft.marks)
        /\ Finished(report[job.succ]) /\ report[job.succ].marks = job.draft.marks
    BY <1>0, <1>1 DEF JobInv, KnownInv, WrittenInv, Written
  <2>8. KnownInv'
    <3>1. \A n \in Retirees' : n <= lastId' /\ Knows(job'.draft.marks, report'[n].marks)
      BY <1>0, <1>1, <2>4, <2>5, <2>6, KnowsIsOrder DEF JobInv, KnownInv, notes, SameKnown
    <3>2. SameKnown(report'[job'.succ].marks, job'.draft.marks)
      BY <1>1, <2>4, <2>5, <2>7, KnowsIsOrder DEF SameKnown, notes
    <3> QED
      BY <1>0, <1>1, <2>1, <2>4, <2>5, <2>6, <2>7, <3>1, <3>2
         DEF JobInv, KnownInv, notes, Written
  <2>9. WrittenInv'
    <3>1. Finished(report[job.succ])'
      BY <1>1, <2>4, <2>5, <2>7 DEF Finished, notes
    <3>2. pc' # "lateUpdate" => report'[job'.succ].marks = job'.draft.marks
      BY <1>1, <2>1, <2>5, <2>7 DEF notes
    <3>3. job'.draft.fp = job'.cap
      BY <1>0, <1>1, <2>4, <2>5 DEF JobInv, WrittenInv
    <3> QED
      BY <2>1, <3>1, <3>2, <3>3 DEF WrittenInv, LabelPhases
  <2>10. SeenInv'
    <3>1. Carried([boxes |-> job'.seen[job'.cur], marks |-> report'[job'.cur].marks],
                  job'.draft, job'.overruled)
      BY <1>1, <2>4, <2>5 DEF Carried, notes
    <3> QED
      BY <2>1, <3>1 DEF SeenInv
  <2> QED
    BY <1>1, <2>8, <2>9, <2>10 DEF JobInv
<1> QED
  BY <1>2, <1>3

(* Reads of the discussions and of the reports that are to go.             *)
LEMMA LooksKeep ==
  ASSUME JobInv, UNCHANGED <<notes, label, raced>>,
         <<pc, pc'>> \in {<<"discard", "discardDelete">>, <<"inspect", "reread">>,
                          <<"reread", "fresh4">>},
         job'.cur = job.cur, job'.sup = job.sup, job'.succ = job.succ, job'.cap = job.cap,
         job'.draft = job.draft, job'.gen = job.gen, job'.seen = job.seen,
         job'.overruled = job.overruled,
         pc' = "fresh4" => job'.todo = Retirees
  PROVE  /\ KnownInv' /\ WrittenInv'
         /\ pc' \in SeenPhases /\ job'.cur \in alive' =>
              Carried([boxes |-> job'.seen[job'.cur], marks |-> report'[job'.cur].marks],
                      job'.draft, job'.overruled)
<1>1. Retirees' = Retirees
  BY DEF Retirees
<1>2. KnownInv'
  BY <1>1 DEF JobInv, KnownInv, notes, Written
<1>3. WrittenInv'
  BY DEF JobInv, WrittenInv, Finished, notes, Written, LabelPhases
<1> QED
  BY <1>2, <1>3 DEF JobInv, SeenInv, SeenPhases, notes

LEMMA InspectKeeps ==
  ASSUME DeletionInv, Inspect("discard", "discardDelete") \/ Inspect("inspect", "reread")
  PROVE  NotesInv' /\ JobInv'
<1>0. /\ Inv /\ NotesInv /\ JobInv /\ job \in Jobs
  BY DeletionParts DEF Inv, TypeInv, TypeOK
<1>1. /\ <<pc, pc'>> \in {<<"discard", "discardDelete">>, <<"inspect", "reread">>}
      /\ UNCHANGED <<notes, label, raced>>
      /\ job' = [job EXCEPT !.answered = {n \in alive : report[n].replied}]
  BY DEF Inspect, Goto, gitlab, hub
<1>2. /\ job'.cur = job.cur /\ job'.sup = job.sup /\ job'.succ = job.succ
      /\ job'.cap = job.cap /\ job'.draft = job.draft /\ job'.gen = job.gen
      /\ job'.seen = job.seen /\ job'.answered = {n \in alive : report[n].replied}
  BY <1>0, <1>1 DEF Jobs
<1>3. /\ KnownInv' /\ WrittenInv'
      /\ pc' \in SeenPhases /\ job'.cur \in alive' =>
           Carried([boxes |-> job'.seen[job'.cur], marks |-> report'[job'.cur].marks],
                   job'.draft, job'.overruled)
  BY <1>0, <1>1, <1>2, LooksKeep
<1>4. \A n \in alive' : report'[n].replied => n \in job'.answered
  BY <1>1, <1>2 DEF notes
<1>5. SeenInv'
  BY <1>1, <1>3, <1>4 DEF SeenInv
<1> QED
  BY <1>0, <1>1, <1>3, <1>5, NotesStand DEF JobInv

LEMMA RereadKeeps ==
  ASSUME DeletionInv, Reread
  PROVE  NotesInv' /\ JobInv'
<1>0. /\ Inv /\ NotesInv /\ JobInv /\ job \in Jobs
  BY DeletionParts DEF Inv, TypeInv, TypeOK
<1>1. pc = "reread" /\ UNCHANGED <<notes, label>> /\ NotesInv'
  BY <1>0, NotesStand DEF Reread
<1>2. CASE EndRun("failed")
  BY <1>0, <1>1, <1>2, EndRunEndsJob DEF notes
<1>3. CASE /\ Retirees \cap job.answered = {} /\ ChangedSinceRead = {}
           /\ pc' = "fresh4" /\ job' = [job EXCEPT !.todo = Retirees]
           /\ UNCHANGED <<raced, outcome>>
  <2>1. /\ job'.cur = job.cur /\ job'.sup = job.sup /\ job'.succ = job.succ
        /\ job'.cap = job.cap /\ job'.draft = job.draft /\ job'.gen = job.gen
        /\ job'.seen = job.seen /\ job'.todo = Retirees
    BY <1>0, <1>3 DEF Jobs
  <2>2. /\ KnownInv' /\ WrittenInv'
        /\ pc' \in SeenPhases /\ job'.cur \in alive' =>
             Carried([boxes |-> job'.seen[job'.cur], marks |-> report'[job'.cur].marks],
                     job'.draft, job'.overruled)
    BY <1>0, <1>1, <1>3, <2>1, LooksKeep
  <2>3. ASSUME NEW n \in job'.todo \cap alive', n \notin raced'
        PROVE  report'[n].boxes = job'.seen[n] /\ ~report'[n].replied
    <3>1. n \in Retirees /\ n \in alive /\ n \notin raced /\ n \notin job.answered
      BY <1>1, <1>3, <2>1, <2>3 DEF notes
    <3>2. report[n].boxes = job.seen[n]
      BY <1>3, <3>1 DEF ChangedSinceRead
    <3>3. ~report[n].replied
      BY <1>0, <1>1, <3>1 DEF JobInv, SeenInv
    <3> QED
      BY <1>1, <2>1, <3>2, <3>3 DEF notes
  <2>4. SeenInv'
    BY <1>3, <2>2, <2>3 DEF SeenInv
  <2> QED
    BY <1>1, <2>2, <2>4 DEF JobInv
<1> QED
  BY <1>2, <1>3 DEF Reread

-----------------------------------------------------------------------------
(* Deletions, and what comes after them.                                   *)

LEMMA BlankKnowsNothing ==
  /\ Boxed(Blank) /\ \A marks : Knows(marks, Blank.marks)
  /\ \A d, overruled : Remembers(d, Blank.marks, overruled)
BY DEF Boxed, Blank, NoFindings, Rendered, Knows, Remembers

LEMMA DeleteKeepsNotes ==
  ASSUME TypeOK, NotesInv, NEW n \in alive, Delete(n), UNCHANGED <<posts, inflight>>
  PROVE  /\ NotesInv'
         /\ report'[n] = Blank /\ alive' = alive \ {n}
         /\ \A m \in NoteIds : m # n => report'[m] = report[m]
<1>1. /\ report'[n] = Blank /\ alive' = alive \ {n} /\ alive \subseteq NoteIds
      /\ \A m \in NoteIds : m # n => report'[m] = report[m]
  BY DEF Delete, TypeOK
<1>2. \A m \in NoteIds : Boxed(report'[m])
  BY <1>1, BlankKnowsNothing DEF NotesInv
<1> QED
  BY <1>1, <1>2, NotesKeep, KnowsIsOrder DEF SameKnown

LEMMA DiscardKeeps ==
  ASSUME DeletionInv, Discard
  PROVE  NotesInv' /\ JobInv'
<1>0. /\ Inv /\ TypeOK /\ NotesInv /\ JobInv /\ job.succ \in alive
  BY DeletionParts DEF Inv, TypeInv, Discard, JobInv, KnownInv, Written
<1>1. CASE job.succ \in job.answered
  BY <1>0, <1>1, NotesStand, EndRunEndsJob DEF Discard, notes
<1>2. CASE job.succ \notin job.answered
  BY <1>0, <1>2, DeleteKeepsNotes, EndRunEndsJob DEF Discard
<1> QED
  BY <1>1, <1>2

LEMMA RetireKeeps ==
  ASSUME DeletionInv, NEW n \in alive, Retire(n)
  PROVE  NotesInv' /\ JobInv'
<1>0. /\ Inv /\ TypeOK /\ NotesInv /\ JobInv /\ job \in Jobs
      /\ alive \subseteq NoteIds /\ Retirees \subseteq NoteIds
      /\ job.cur # NoNote => job.cur \in Retirees
  BY DeletionParts, JobNumbers DEF Inv, TypeInv, TypeOK
<1>1. /\ pc = "retire" /\ pc' = "retire" /\ n \in job.todo /\ Delete(n)
      /\ UNCHANGED <<lastId, posts, inflight, label, raced>>
      /\ job' = [job EXCEPT !.todo = @ \ {n}]
  BY DEF Retire, IsNextToRetire
<1>2. /\ job'.cur = job.cur /\ job'.sup = job.sup /\ job'.succ = job.succ
      /\ job'.cap = job.cap /\ job'.draft = job.draft /\ job'.gen = job.gen
      /\ job'.seen = job.seen /\ job'.todo = job.todo \ {n}
      /\ job'.overruled = job.overruled
  BY <1>0, <1>1 DEF Jobs
<1>3. /\ NotesInv' /\ report'[n] = Blank /\ alive' = alive \ {n}
      /\ \A m \in NoteIds : m # n => report'[m] = report[m]
  BY <1>0, <1>1, DeleteKeepsNotes
<1> HIDE DEF Blank
<1>4. Retirees' = Retirees
  BY <1>2 DEF Retirees
<1>5. /\ job.succ \in alive \ Retirees /\ job.todo \subseteq Retirees
      /\ report[job.succ].pred = job.cur /\ report[job.succ].gen = job.gen
      /\ SameKnown(report[job.succ].marks, job.draft.marks)
      /\ Finished(report[job.succ]) /\ report[job.succ].marks = job.draft.marks
  BY <1>0, <1>1 DEF JobInv, KnownInv, WrittenInv, Written
<1>6. job.succ # n /\ job.succ \in alive' /\ report'[job.succ] = report[job.succ]
  BY <1>0, <1>1, <1>3, <1>5
<1>7. KnownInv'
  <2>1. \A m \in Retirees' : m <= lastId' /\ Knows(job'.draft.marks, report'[m].marks)
    BY <1>0, <1>1, <1>2, <1>3, <1>4, BlankKnowsNothing DEF JobInv, KnownInv
  <2>2. job'.cur # NoNote => Remembers(job'.draft, report'[job'.cur].marks, job'.overruled)
    BY <1>0, <1>2, <1>3, BlankKnowsNothing DEF JobInv, KnownInv
  <2>3. job'.succ <= lastId' /\ job'.todo \subseteq Retirees'
    BY <1>0, <1>1, <1>2, <1>4, <1>5 DEF JobInv, KnownInv
  <2> QED
    BY <1>1, <1>2, <1>4, <1>5, <1>6, <2>1, <2>2, <2>3 DEF KnownInv
<1>8. WrittenInv'
  BY <1>0, <1>1, <1>2, <1>5, <1>6 DEF JobInv, WrittenInv, Finished, LabelPhases
<1>9. SeenInv'
  <2>1. job'.cur \in alive' =>
          /\ job.cur \in alive /\ report'[job.cur] = report[job.cur]
    BY <1>0, <1>2, <1>3
  <2>2. \A m \in job'.todo \cap alive' : m \in job.todo \cap alive /\ report'[m] = report[m]
    BY <1>0, <1>2, <1>3
  <2> QED
    BY <1>0, <1>1, <1>2, <2>1, <2>2 DEF JobInv, SeenInv, SeenPhases
<1> QED
  BY <1>3, <1>7, <1>8, <1>9 DEF JobInv

LEMMA ConvergeKeeps ==
  ASSUME DeletionInv, Converge
  PROVE  NotesInv' /\ JobInv'
<1>0. /\ Inv /\ TypeOK /\ NotesInv /\ JobInv /\ job \in Jobs /\ job.succ \in Nat
  BY DeletionParts, JobNumbers DEF Inv, TypeInv, TypeOK
<1>1. pc = "converge" /\ UNCHANGED <<notes, label>> /\ NotesInv'
  BY <1>0, NotesStand DEF Converge, gitlab, hub
<1>2. CASE EndRun("failed")
  BY <1>0, <1>1, <1>2, EndRunEndsJob DEF notes
<1>3. CASE alive = {job.succ} /\ pc' = "labelVerify" /\ UNCHANGED <<job, raced, outcome>>
  <2>1. Retirees' = Retirees
    BY <1>3 DEF Retirees
  <2>2. KnownInv'
    BY <1>0, <1>1, <1>3, <2>1 DEF JobInv, KnownInv, notes, Written
  <2>3. WrittenInv'
    BY <1>0, <1>1, <1>3 DEF JobInv, WrittenInv, Finished, notes, Written
  <2>4. SeenInv'
    BY <1>3 DEF SeenInv, SeenPhases
  <2> QED
    BY <1>1, <2>2, <2>3, <2>4 DEF JobInv
<1> QED
  BY <1>2, <1>3 DEF Converge

LEMMA SyncLabelsKeeps ==
  ASSUME DeletionInv, SyncLabels
  PROVE  NotesInv' /\ JobInv'
<1>0. Inv /\ NotesInv /\ JobInv
  BY DeletionParts
<1>1. /\ pc = "labelSync" /\ pc' = "labelFresh2" /\ UNCHANGED <<notes, job, raced>>
      /\ label' = VerdictLabel(job.draft.approved)
  BY DEF SyncLabels, Goto, hub
<1>2. Retirees' = Retirees /\ NotesInv'
  BY <1>0, <1>1, NotesStand DEF Retirees
<1>3. KnownInv'
  BY <1>0, <1>1, <1>2 DEF JobInv, KnownInv, notes, Written
<1>4. WrittenInv'
  BY <1>0, <1>1 DEF JobInv, WrittenInv, Finished, notes, Written, LabelPhases
<1>5. SeenInv'
  BY <1>1 DEF SeenInv, SeenPhases
<1> QED
  BY <1>2, <1>3, <1>4, <1>5 DEF JobInv

-----------------------------------------------------------------------------
(* The invariant holds.                                                    *)

LEMMA InitDeletionInv == Init => DeletionInv
<1> SUFFICES ASSUME Init PROVE DeletionInv
  OBVIOUS
<1>1. Inv
  BY InitType, InitReplacementInv DEF Inv
<1>2. PICK mark \in Seeded :
        /\ alive = IF mark = "none" THEN {} ELSE {1}
        /\ report = [n \in NoteIds |-> IF n \in alive THEN SeedReport(mark) ELSE Blank]
  BY DEF Init
<1>3. /\ SeedReport(mark).pred = 0 /\ SeedReport(mark).gen = 1
      /\ SeedReport(mark).marks = [f \in Findings |-> mark]
      /\ SeedReport(mark).boxes = RenderedBoxes([f \in Findings |-> mark])
  BY DEF SeedReport, Encode, NoNote
<1>4. Boxed(SeedReport(mark))
  BY <1>3 DEF Boxed, RenderedBoxes
<1> HIDE DEF SeedReport
<1>5. NotesInv
  <2>1. \A n \in NoteIds : Boxed(report[n])
    BY <1>2, <1>4, BlankKnowsNothing
  <2>2. \A n \in alive : n = 1 /\ report[n] = SeedReport(mark)
    <3>1. 1 \in NoteIds
      BY PublicationAssumption DEF NoteIds
    <3> QED
      BY <1>2, <3>1
  <2>3. inflight = {} /\ \A n \in alive : posts = 1
    BY DEF Init
  <2> QED
    BY <1>3, <2>1, <2>2, <2>3, KnowsIsOrder DEF NotesInv
<1>6. JobInv
  <2>1. pc = "idle" /\ job.cur = 0 /\ job.sup = {} /\ job.succ = 0 /\ lastId \in Nat
    BY DEF Init, NoJob, NoNote
  <2>2. Retirees = {}
    BY <2>1 DEF Retirees, NoNote
  <2> QED
    BY <2>1, <2>2
       DEF JobInv, KnownInv, WrittenInv, SeenInv, Written, LabelPhases, SeenPhases, NoNote
<1> QED
  BY <1>1, <1>5, <1>6, DeletionParts

(* The calls that read, and those that end the job where it is.            *)
LEMMA CallsKeep ==
  ASSUME DeletionInv,
         \/ Start \/ RecoverConflict \/ CheckFreshness \/ Confirm \/ OutOfPosts
         \/ VerifyReport("verify", "fresh3") \/ VerifyReport("lateVerify", "inspect")
         \/ RetireDone \/ Fail
         \/ VerifyCurrent("labelVerify", "labelFresh") \/ Fresh("labelFresh", "labelSync")
         \/ Fresh("labelFresh2", "labelConfirm") \/ LabelsStale
         \/ VerifyCurrent("labelRecheck", "labelClear") \/ ClearLabels \/ LabelsDone
  PROVE  NotesInv' /\ JobInv'
<1>0. Inv /\ NotesInv /\ JobInv /\ lastId \in Nat
  BY DeletionParts, JobNumbers
<1>1. UNCHANGED notes /\ NotesInv'
  <2>1. UNCHANGED notes
    BY DEF Start, RecoverConflict, CheckFreshness, Fresh, StaleEnd, StaleDiscard, Confirm,
           OutOfPosts, VerifyReport, RetireDone, Fail, VerifyCurrent, LabelsStale,
           ClearLabels, LabelsDone, gitlab, hub
  <2> QED
    BY <1>0, <2>1, NotesStand
<1>2. CASE Start
  BY <1>0, <1>1, <1>2, EndsJob DEF Start, Goto, notes
<1>3. CASE EndRun("failed") \/ EndRun("ok")
  BY <1>0, <1>1, <1>3, EndRunEndsJob DEF notes
<1>4. CASE UNCHANGED <<label, job, raced>> /\ <<pc, pc'>> \in Onward
  BY <1>0, <1>1, <1>4, MovesOn
<1>5. ASSUME CheckFreshness
      PROVE  (EndRun("failed")) \/ (UNCHANGED <<label, job, raced>> /\ <<pc, pc'>> \in Onward)
  BY <1>5 DEF CheckFreshness, Fresh, StaleEnd, StaleDiscard, Goto, gitlab, hub, Onward
<1>6. ASSUME \/ Confirm \/ VerifyReport("verify", "fresh3") \/ RetireDone
             \/ VerifyReport("lateVerify", "inspect")
      PROVE  (EndRun("failed")) \/ (UNCHANGED <<label, job, raced>> /\ <<pc, pc'>> \in Onward)
  BY <1>6 DEF Confirm, VerifyReport, RetireDone, Goto, gitlab, hub, Onward
<1>7. ASSUME \/ VerifyCurrent("labelVerify", "labelFresh") \/ Fresh("labelFresh", "labelSync")
             \/ Fresh("labelFresh2", "labelConfirm") \/ LabelsStale
             \/ VerifyCurrent("labelRecheck", "labelClear")
      PROVE  (EndRun("failed")) \/ (UNCHANGED <<label, job, raced>> /\ <<pc, pc'>> \in Onward)
  BY <1>7 DEF VerifyCurrent, Fresh, LabelsStale, Goto, gitlab, hub, Onward
<1>8. ASSUME RecoverConflict \/ OutOfPosts \/ Fail \/ ClearLabels \/ LabelsDone
      PROVE  EndRun("failed") \/ EndRun("ok")
  BY <1>8 DEF RecoverConflict, OutOfPosts, Fail, ClearLabels, LabelsDone
<1> QED
  BY <1>1, <1>2, <1>3, <1>4, <1>5, <1>6, <1>7, <1>8

LEMMA DeletionStep == DeletionInv /\ [Next]_vars => DeletionInv'
<1> SUFFICES ASSUME DeletionInv, [Next]_vars PROVE DeletionInv'
  OBVIOUS
<1>1. Inv'
  BY DeletionParts, TypeStep, ReplacementStep DEF Inv
<1>2. CASE RunStep
  <2>1. NotesInv' /\ JobInv'
    BY <1>2, CallsKeep, RecoverKeeps, ReviewKeeps, RecoverAgainKeeps, CreateKeeps, FindKeeps,
       WritesKeep, LateControlsKeep, InspectKeeps, RereadKeeps, DiscardKeeps, RetireKeeps,
       ConvergeKeeps, SyncLabelsKeeps DEF RunStep, SyncPublishedLabels
  <2> QED
    BY <1>1, <2>1, DeletionParts DEF DeletionInv, JobInv
<1>3. CASE FaultStep \/ HumanStep
  <2>1. NotesInv' /\ JobInv'
    BY <1>3, CallsKeep, CreateKeeps, LandLateKeeps, HumansKeep DEF FaultStep
  <2> QED
    BY <1>1, <2>1 DEF DeletionInv, JobInv
<1>4. CASE UNCHANGED vars
  <2>1. NotesInv' /\ JobInv'
    BY <1>4, DeletionParts, NotesStand, MovesOn DEF vars, hub
  <2> QED
    BY <1>1, <2>1 DEF DeletionInv, JobInv
<1> QED
  BY <1>2, <1>3, <1>4 DEF Next

-----------------------------------------------------------------------------
(* What follows from it.                                                   *)

(* Only Discard and Retire delete.                                         *)
LEMMA Deletions ==
  ASSUME TypeOK, [Next]_vars, NEW n \in alive \ alive'
  PROVE  \/ Discard /\ n = job.succ /\ n \notin job.answered
         \/ Retire(n)
<1>1. CASE \/ Start \/ RecoverConflict \/ OutOfPosts \/ Finalise \/ RetireDone \/ Converge
           \/ RecoverAgain \/ Confirm \/ FindGeneration \/ LateControls \/ LateUpdate
           \/ Reread \/ Fail \/ HumanStep
           \/ VerifyReport("verify", "fresh3") \/ VerifyReport("lateVerify", "inspect")
           \/ Inspect("discard", "discardDelete") \/ Inspect("inspect", "reread")
           \/ \E c \in 0 .. lastId : RecoverRepair(c) \/ RecoverRepublish(c) \/ RecoverReview(c)
           \/ \E marks \in [Findings -> Marks], complete, approved \in BOOLEAN :
                Review(marks, complete, approved)
           \/ UNCHANGED vars
  <2>1. UNCHANGED alive
    BY <1>1 DEF Start, RecoverConflict, OutOfPosts, Finalise, RetireDone, Converge,
         RecoverAgain, Confirm, FindGeneration, LateControls, LateUpdate, Reread, Fail,
         HumanStep, Toggle, Reply, Change, VerifyReport, Inspect, RecoverRepair,
         RecoverRepublish, RecoverReview, Review, vars, gitlab, hub, notes
  <2> QED
    BY <2>1
<1>2. CASE CheckFreshness \/ SyncPublishedLabels
  <2>1. UNCHANGED alive
    BY <1>2 DEF CheckFreshness, Fresh, StaleEnd, StaleDiscard, SyncPublishedLabels,
         VerifyCurrent, SyncLabels, LabelsStale, ClearLabels, LabelsDone, gitlab, hub, notes
  <2> QED
    BY <2>1
<1>3. CASE CreateNote \/ CreateNoteError \/ LandLate
  <2>1. alive \subseteq alive'
    BY <1>3 DEF CreateNote, CreateNoteError, LandLate, AddNote
  <2> QED
    BY <2>1
<1>4. CASE Discard
  BY <1>4 DEF Discard, Delete
<1>5. ASSUME NEW m \in alive, Retire(m) PROVE Retire(n)
  <2>1. n = m
    BY <1>5 DEF Retire, Delete
  <2> QED
    BY <1>5, <2>1
<1> QED
  BY <1>1, <1>2, <1>3, <1>4, <1>5 DEF Next, RunStep, FaultStep

(* What a retiring job knows of the report it deletes.                     *)
LEMMA RetireKnows ==
  ASSUME DeletionInv, NEW n \in alive, Retire(n)
  PROVE  /\ job.succ \in alive' /\ report'[job.succ] = report[job.succ]
         /\ report[job.succ].bound /\ report[job.succ].pred = job.cur
         /\ Knows(report[job.succ].marks, report[n].marks)
         /\ n \notin raced => ~report[n].replied /\ report[n].boxes = job.seen[n]
         /\ n = job.cur /\ n \notin raced => Carried(report[n], report'[job.succ], job.overruled)
<1>0. /\ TypeOK /\ JobInv /\ alive \subseteq NoteIds
  BY DeletionParts DEF Inv, TypeInv, TypeOK
<1>1. pc = "retire" /\ n \in job.todo /\ Delete(n)
  BY DEF Retire, IsNextToRetire
<1>2. /\ job.succ \in alive /\ job.succ \notin Retirees /\ job.todo \subseteq Retirees
      /\ report[job.succ].pred = job.cur
      /\ Finished(report[job.succ]) /\ report[job.succ].marks = job.draft.marks
  BY <1>0, <1>1 DEF JobInv, KnownInv, WrittenInv, Written
<1>3. job.succ \in alive' /\ report'[job.succ] = report[job.succ]
  BY <1>0, <1>1, <1>2 DEF Delete, TypeOK
<1>4. Knows(report[job.succ].marks, report[n].marks)
  BY <1>0, <1>1, <1>2 DEF JobInv, KnownInv
<1>5. n \notin raced => ~report[n].replied /\ report[n].boxes = job.seen[n]
  BY <1>0, <1>1 DEF JobInv, SeenInv
<1>6. n = job.cur /\ n \notin raced => Carried(report[n], report'[job.succ], job.overruled)
  <2> SUFFICES ASSUME n = job.cur, n \notin raced
               PROVE  Carried(report[n], report[job.succ], job.overruled)
    BY <1>3
  <2>1. Carried([boxes |-> job.seen[n], marks |-> report[n].marks], job.draft, job.overruled)
    BY <1>0, <1>1 DEF JobInv, SeenInv, SeenPhases
  <2> QED
    BY <1>2, <1>5, <2>1 DEF Carried
<1> QED
  BY <1>2, <1>3, <1>4, <1>5, <1>6 DEF Finished

(* No report answered before the job listed the discussions is deleted,    *)
(* whoever answers it, however the job came to want it gone.               *)
THEOREM RepliesCorrect == Spec => RepliesSurvive
<1>1. Init => DeletionInv
  BY InitDeletionInv
<1>2. DeletionInv /\ [Next]_vars => DeletionInv'
  BY DeletionStep
<1>3. DeletionInv /\ [Next]_vars =>
        [\A n \in alive \ alive' : report[n].replied => n \in raced]_vars
  <2> SUFFICES ASSUME DeletionInv, [Next]_vars, NEW n \in alive \ alive', report[n].replied
               PROVE  n \in raced
    OBVIOUS
  <2>1. TypeOK
    BY DeletionParts DEF Inv, TypeInv
  <2>2. CASE Discard /\ n = job.succ /\ n \notin job.answered
    BY <2>2 DEF DeletionInv, SeenInv, Discard
  <2>3. CASE Retire(n)
    BY <2>3, RetireKnows
  <2> QED
    BY <2>1, <2>2, <2>3, Deletions
<1> QED
  BY <1>1, <1>2, <1>3, PTL DEF Spec, RepliesSurvive

(* The findings of a report that is deleted are known to a report that     *)
(* stays and carries its own note ID.                                      *)
THEOREM FindingsCorrect == Spec => FindingsSurvive
<1>1. Init => DeletionInv
  BY InitDeletionInv
<1>2. DeletionInv /\ [Next]_vars => DeletionInv'
  BY DeletionStep
<1>3. DeletionInv /\ [Next]_vars =>
        [\A n \in (alive \ alive') \ {job.succ} :
           \E m \in alive' :
             /\ report'[m].bound
             /\ \A f \in Findings : report[n].marks[f] # "absent"
                                     => report'[m].marks[f] # "absent"]_vars
  <2> SUFFICES ASSUME DeletionInv, [Next]_vars, NEW n \in (alive \ alive') \ {job.succ}
               PROVE  \E m \in alive' :
                        /\ report'[m].bound
                        /\ \A f \in Findings : report[n].marks[f] # "absent"
                                                => report'[m].marks[f] # "absent"
    OBVIOUS
  <2>1. TypeOK
    BY DeletionParts DEF Inv, TypeInv
  <2>2. Retire(n)
    BY <2>1, Deletions
  <2> QED
    BY <2>2, RetireKnows DEF Knows
<1> QED
  BY <1>1, <1>2, <1>3, PTL DEF Spec, FindingsSurvive

(* The predecessor goes only when its successor says what its boxes say,   *)
(* but for the findings that a replayed checkpoint has reopened over the   *)
(* human's acknowledgement.                                                *)
THEOREM ClicksCorrect == Spec => PredecessorClicksCarried
<1>1. Init => DeletionInv
  BY InitDeletionInv
<1>2. DeletionInv /\ [Next]_vars => DeletionInv'
  BY DeletionStep
<1>3. DeletionInv /\ [Next]_vars =>
        [\A n \in alive \ alive' :
           (pc = "retire" /\ n = report[job.succ].pred /\ n \notin raced)
             => Carried(report[n], report'[job.succ], job.overruled)]_vars
  <2> SUFFICES ASSUME DeletionInv, [Next]_vars, NEW n \in alive \ alive', pc = "retire",
                      n = report[job.succ].pred, n \notin raced
               PROVE  Carried(report[n], report'[job.succ], job.overruled)
    OBVIOUS
  <2>1. TypeOK
    BY DeletionParts DEF Inv, TypeInv
  <2>2. Retire(n)
    BY <2>1, Deletions DEF Discard
  <2> QED
    BY <2>2, RetireKnows
<1> QED
  BY <1>1, <1>2, <1>3, PTL DEF Spec, PredecessorClicksCarried

(* A job that ends well leaves one finalised report of the content it      *)
(* captured, and the label of that report.                                 *)
THEOREM SuccessCorrect == Spec => SuccessSettles
<1>1. Init => DeletionInv
  BY InitDeletionInv
<1>2. DeletionInv /\ [Next]_vars => DeletionInv'
  BY DeletionStep
<1>3. DeletionInv /\ [Next]_vars =>
        [outcome' = "ok" /\ outcome # "ok" =>
           Settled' /\ \A n \in alive' : report'[n].fp = job.cap]_vars
  <2> SUFFICES ASSUME DeletionInv, [Next]_vars, outcome' = "ok", outcome # "ok"
               PROVE  Settled' /\ \A n \in alive' : report'[n].fp = job.cap
    OBVIOUS
  <2>1. LabelsDone /\ IsPublished
    BY DEF Next, RunStep, FaultStep, HumanStep, Toggle, Reply, Change, LandLate, Fail, Start,
         RecoverRepair, RecoverRepublish, RecoverReview, RecoverConflict, Review,
         CheckFreshness, Fresh, StaleEnd, StaleDiscard, RecoverAgain, Confirm, CreateNote,
         CreateNoteError, OutOfPosts, FindGeneration, Finalise, VerifyReport, Inspect,
         Discard, LateControls, LateUpdate, Reread, Retire, RetireDone, Converge,
         SyncPublishedLabels, VerifyCurrent, SyncLabels, LabelsStale, ClearLabels,
         LabelsDone, EndRun, vars
  <2>2. pc = "labelConfirm" /\ UNCHANGED <<notes, label>>
    BY <2>1 DEF LabelsDone, gitlab, hub
  <2>3. TypeOK /\ NotesInv /\ JobInv
    BY DeletionParts DEF Inv, TypeInv
  <2>4. /\ job.succ \in alive /\ \A n \in alive : job.succ <= n
        /\ Finished(report[job.succ]) /\ job.draft.fp = job.cap
        /\ label = VerdictLabel(job.draft.approved)
    BY <2>1, <2>2, <2>3 DEF IsPublished, JobInv, WrittenInv, LabelPhases
  <2>5. alive = {job.succ}
    BY <2>1, <2>3, <2>4, CurrentAndOldestIsOnly DEF IsPublished
  <2> QED
    BY <2>2, <2>4, <2>5 DEF Settled, Finished, notes
<1> QED
  BY <1>1, <1>2, <1>3, PTL DEF Spec, SuccessSettles
=============================================================================
