---------------------------- MODULE LifecycleProofs ----------------------------
(***************************************************************************)
(* What the published history of a finding can be relied on for: proofs of *)
(* FindingLifecycle's invariants and of ClicksPrevail, over any number of  *)
(* notes, commits, clicks, failures and submissions.                       *)
(***************************************************************************)
EXTENDS FindingLifecycle, FiniteSetTheorems, TLAPS

-----------------------------------------------------------------------------
(* The invariant.                                                          *)

Prints == [commit : 1 .. MaxCommits, notes : SUBSET (Notes \X (0 .. MaxEdits))]

States ==
  [method : Methods, ack : SUBSET AllSources, assess : Assessments \cup {"none"},
   evidence : SUBSET AllSources, history : Seq(EventSet), sources : SUBSET AllSources]

Reports == [state : States, box : Boxes, fp : Prints \cup {NoPrint}, complete : BOOLEAN]

Runs == [fp : Prints \cup {NoPrint}, state : States, last : Boxes, complete : BOOLEAN,
         changed : BOOLEAN]

SubmissionSet(fp) ==
  [creates : BOOLEAN, complete : BOOLEAN, assess : Assessments \cup {"none"},
   evidence : SUBSET Available(fp), move : Moves, method : {"none"} \cup AIMethods,
   refs : SUBSET Available(fp)]

(* A submission that was valid when the finding was known, or not known.   *)
Proper(s, fp, known) ==
  /\ s \in SubmissionSet(fp)
  /\ s.move # "none" => s.method \in AIMethods
  /\ IF known THEN ~s.creates ELSE s.assess = "none" /\ s.move = "none"

TypeInv ==
  /\ commit \in 1 .. MaxCommits
  /\ notes \in [Notes -> [rev : 0 .. MaxEdits, shown : BOOLEAN]]
  /\ left \in [Kinds -> Nat]
  /\ \A n \in Notes : notes[n].rev + left["edit"] <= MaxEdits
  /\ persistent \in Persistence
  /\ pc \in {"idle", "session", "publish"}
  /\ report \in Reports
  /\ run \in Runs
  /\ pc # "idle" => run.fp \in Prints
  /\ \A k \in DOMAIN checkpoints : /\ k.known \in BOOLEAN
                                   /\ Proper(checkpoints[k], k.fp, k.known)

(* HistoryExplainsState and SourcesKept, for any state of the finding.     *)
IsLast(i, S) == i \in S /\ \A j \in S : j <= i
MovesOf(h) == {i \in DOMAIN h : h[i].kind \in {"acknowledged", "reopened"}}
ViewsOf(h) == {i \in DOMAIN h : h[i].kind \in {"created", "reassessed"}}

Explained(d) ==
  LET h == d.history
  IN /\ IF \E i \in MovesOf(h) : IsLast(i, MovesOf(h)) /\ h[i].kind = "acknowledged"
          THEN \E i \in MovesOf(h) : IsLast(i, MovesOf(h)) /\ d.method = h[i].method
                                                           /\ d.ack = h[i].refs
          ELSE d.method = "none" /\ d.ack = {}
     /\ Exists(d) => \E i \in ViewsOf(h) : IsLast(i, ViewsOf(h)) /\ d.assess = h[i].assess
                                                                 /\ d.evidence = h[i].refs

Kept(h, known) ==
  \A i \in DOMAIN h : \A s \in h[i].refs : IsNoteSource(s) => s \in known

Traced(d, known) == d \in States /\ Explained(d) /\ Kept(d.history, known)

Sound(d) == Traced(d, d.sources)

(* FreshEvidence, for any history.                                         *)
Fresh(h) ==
  \A i, j \in DOMAIN h :
    i < j /\ h[j].kind = "acknowledged" /\ h[i].refs \cap h[j].refs # {} =>
      /\ h[i].kind # "acknowledged"
      /\ \A k \in i .. j : ~(h[k].kind = "reopened" /\ h[k].method = "checkbox")

(* Where every submission was valid for the state it changed: the history  *)
(* spends no source twice, and tells the human's tick from an AI's mark.   *)
Validated(d) == Fresh(d.history) /\ (Ticked(d.history) <=> MarkOf(d) = "box")

(* The run's state continues the report's, and remembers its control.      *)
Continues ==
  /\ Exists(report.state) => Exists(run.state)
  /\ Grown(run.state.history, report.state.history)
  /\ Rendered(MarkOf(report.state)) # "nil" => run.last # "nil"
  /\ pc = "session" => /\ run.last = Rendered(MarkOf(run.state))
                       /\ Exists(report.state) <=> Exists(run.state)
  /\ ~persistent /\ MarkOf(run.state) = "box" => run.last = "on"
  /\ ~persistent /\ MarkOf(run.state) = "open" => run.last # "on"

StateInv ==
  /\ Sound(report.state)
  /\ report.box = "nil" <=> Rendered(MarkOf(report.state)) = "nil"
  /\ ~persistent => Validated(report.state)
  /\ ~persistent /\ pc = "idle" => checkpoints = <<>>
  /\ pc # "idle" => /\ Sound(run.state)
                    /\ ~persistent => Validated(run.state)
                    /\ Continues

LifeInv == TypeInv /\ StateInv

-----------------------------------------------------------------------------
(* One more event.                                                         *)

(* The facts about Append that the proofs use.                             *)
Extended(g, h, e) ==
  /\ Len(h) \in Nat /\ DOMAIN h = 1 .. Len(h)
  /\ Len(g) = Len(h) + 1 /\ DOMAIN g = 1 .. (Len(h) + 1)
  /\ \A i \in 1 .. Len(h) : g[i] = h[i]
  /\ g[Len(h) + 1] = e

LEMMA AppendExtends ==
  ASSUME NEW S, NEW h \in Seq(S), NEW e \in S
  PROVE  Append(h, e) \in Seq(S) /\ Append(h, e) # <<>> /\ Extended(Append(h, e), h, e)
BY DEF Extended

LEMMA EmptyHistory == DOMAIN <<>> = {} /\ Len(<<>>) = 0
OBVIOUS

LEMMA GrownIsOrder ==
  /\ \A h \in Seq(EventSet) : Grown(h, h) /\ Grown(h, <<>>)
  /\ \A f, g, h \in Seq(EventSet) : Grown(h, g) /\ Grown(g, f) => Grown(h, f)
BY DEF Grown

LEMMA GrownTransitive ==
  ASSUME NEW f, NEW g, NEW h, Grown(h, g), Grown(g, f), g \in Seq(EventSet), h \in Seq(EventSet),
         f \in Seq(EventSet)
  PROVE  Grown(h, f)
BY GrownIsOrder

LEMMA ExtensionGrows ==
  ASSUME NEW g, NEW h, NEW e, Extended(g, h, e)
  PROVE  Grown(g, h)
BY DEF Extended, Grown

(* A change of acknowledgement keeps the history an explanation.           *)
LEMMA MoveExplains ==
  ASSUME NEW d, NEW c, NEW e, Explained(d), Exists(d), Extended(c.history, d.history, e),
         c.assess = d.assess, c.evidence = d.evidence,
         \/ e.kind = "acknowledged" /\ c.method = e.method /\ c.ack = e.refs
         \/ e.kind = "reopened" /\ c.method = "none" /\ c.ack = {}
  PROVE  Explained(c)
<1> DEFINE h == d.history
           g == c.history
           n == Len(h) + 1
<1>1. /\ n \in Nat /\ DOMAIN h = 1 .. (n - 1) /\ DOMAIN g = 1 .. n /\ n \in DOMAIN g
      /\ g[n] = e /\ \A i \in DOMAIN h : g[i] = h[i]
  BY DEF Extended
<1>2. MovesOf(g) = MovesOf(h) \cup {n} /\ n \in MovesOf(g)
  BY <1>1 DEF MovesOf
<1>3. ViewsOf(g) = ViewsOf(h) /\ \A i \in ViewsOf(h) : g[i] = h[i]
  BY <1>1 DEF ViewsOf
<1>4. \A i : IsLast(i, MovesOf(g)) <=> i = n
  <2>1. IsLast(n, MovesOf(g))
    BY <1>1, <1>2 DEF IsLast, MovesOf
  <2>2. ASSUME NEW i, IsLast(i, MovesOf(g))
        PROVE  i = n
    BY <1>1, <1>2, <2>2 DEF IsLast, MovesOf
  <2> QED BY <2>1, <2>2
<1>5. \E i \in ViewsOf(g) : IsLast(i, ViewsOf(g)) /\ c.assess = g[i].assess
                                                  /\ c.evidence = g[i].refs
  BY <1>3 DEF Explained
<1> HIDE DEF g, h, n
<1>6. CASE e.kind = "acknowledged"
  BY <1>1, <1>2, <1>4, <1>5, <1>6 DEF Explained, g
<1>7. CASE e.kind = "reopened"
  BY <1>1, <1>2, <1>4, <1>5, <1>7 DEF Explained, g
<1> QED BY <1>6, <1>7

(* So does a reassessment.                                                 *)
LEMMA ViewExplains ==
  ASSUME NEW d, NEW c, NEW e, Explained(d), Extended(c.history, d.history, e),
         e.kind \in {"created", "reassessed"}, c.assess = e.assess, c.evidence = e.refs,
         c.method = d.method, c.ack = d.ack
  PROVE  Explained(c)
<1> DEFINE h == d.history
           g == c.history
           n == Len(h) + 1
<1>1. /\ n \in Nat /\ DOMAIN h = 1 .. (n - 1) /\ DOMAIN g = 1 .. n /\ n \in DOMAIN g
      /\ g[n] = e /\ \A i \in DOMAIN h : g[i] = h[i]
  BY DEF Extended
<1>2. ViewsOf(g) = ViewsOf(h) \cup {n} /\ n \in ViewsOf(g)
  BY <1>1 DEF ViewsOf
<1>3. MovesOf(g) = MovesOf(h) /\ \A i \in MovesOf(h) : g[i] = h[i]
  BY <1>1 DEF MovesOf
<1>4. IsLast(n, ViewsOf(g))
  BY <1>1, <1>2 DEF IsLast, ViewsOf
<1>5. \E i \in ViewsOf(g) : IsLast(i, ViewsOf(g)) /\ c.assess = g[i].assess
                                                  /\ c.evidence = g[i].refs
  BY <1>1, <1>2, <1>4
<1> HIDE DEF g, h, n
<1> QED BY <1>3, <1>5 DEF Explained, g, h

(* The notes that the new event rests on must be kept as well.             *)
LEMMA ExtensionKeeps ==
  ASSUME NEW g, NEW h, NEW e, NEW known, Kept(h, known), Extended(g, h, e),
         \A s \in e.refs : IsNoteSource(s) => s \in known
  PROVE  Kept(g, known)
BY DEF Extended, Kept

(* An event that acknowledges nothing, or on sources not spent, spends     *)
(* none twice.                                                             *)
LEMMA ExtensionStaysFresh ==
  ASSUME NEW h \in Seq(EventSet), NEW g, NEW e \in EventSet, Fresh(h), Extended(g, h, e),
         e.kind = "acknowledged" => e.refs \cap Consumed(h) = {}
  PROVE  Fresh(g)
<1> DEFINE n == Len(h) + 1
<1>1. /\ n \in Nat /\ DOMAIN h = 1 .. (n - 1) /\ DOMAIN g = 1 .. n
      /\ g[n] = e /\ \A i \in DOMAIN h : g[i] = h[i]
  BY DEF Extended
<1> SUFFICES ASSUME NEW i \in DOMAIN g, NEW j \in DOMAIN g, i < j,
                    g[j].kind = "acknowledged", g[i].refs \cap g[j].refs # {}
             PROVE  /\ g[i].kind # "acknowledged"
                    /\ \A k \in i .. j : ~(g[k].kind = "reopened" /\ g[k].method = "checkbox")
  BY DEF Fresh
<1>2. CASE j # n
  <2>1. i \in DOMAIN h /\ j \in DOMAIN h /\ \A k \in i .. j : k \in DOMAIN h
    BY <1>1, <1>2
  <2> HIDE DEF n
  <2> QED BY <1>1, <2>1 DEF Fresh
<1>3. CASE j = n
  <2>1. i \in DOMAIN h /\ h[i] = g[i] /\ e.kind = "acknowledged" /\ g[i].refs \cap e.refs # {}
    BY <1>1, <1>3
  <2>2. ~(h[i].refs \subseteq Consumed(h))
    BY <2>1
  <2>3. /\ h[i].kind # "acknowledged"
        /\ ~\E k \in DOMAIN h : h[k].kind = "reopened" /\ h[k].method = "checkbox" /\ i <= k
    BY <2>1, <2>2 DEF Consumed
  <2>4. \A k \in i .. j : k = n \/ (k \in DOMAIN h /\ i <= k)
    BY <1>1, <1>3, <2>1
  <2> HIDE DEF n
  <2> QED BY <1>1, <1>3, <2>1, <2>3, <2>4
<1> QED BY <1>2, <1>3

(* A reassessment or creation spends nothing.                              *)
LEMMA ViewConsumesNothing ==
  ASSUME NEW h, NEW g, NEW e, Extended(g, h, e), e.kind \in {"created", "reassessed"}
  PROVE  Consumed(g) = Consumed(h)
<1> DEFINE reopened(f) == {i \in DOMAIN f : f[i].kind = "reopened" /\ f[i].method = "checkbox"}
           spent(f) == {i \in DOMAIN f : f[i].kind = "acknowledged"
                                           \/ \E j \in reopened(f) : i <= j}
           n == Len(h) + 1
<1>1. /\ n \in Nat /\ DOMAIN h = 1 .. (n - 1) /\ DOMAIN g = 1 .. n
      /\ g[n] = e /\ \A i \in DOMAIN h : g[i] = h[i]
  BY DEF Extended
<1>2. reopened(g) = reopened(h)
  BY <1>1
<1>3. n \notin spent(g)
  BY <1>1, <1>2
<1>4. spent(g) = spent(h)
  <2>1. \A i \in DOMAIN g : i = n \/ i \in DOMAIN h
    BY <1>1
  <2> HIDE DEF reopened, n
  <2> QED BY <1>1, <1>2, <1>3, <2>1
<1>5. \A i \in spent(h) : g[i].refs = h[i].refs
  BY <1>1
<1>6. Consumed(g) = UNION {g[i].refs : i \in spent(g)}
  BY DEF Consumed
<1>7. Consumed(h) = UNION {h[i].refs : i \in spent(h)}
  BY DEF Consumed
<1> HIDE DEF spent, n, reopened
<1> QED BY <1>4, <1>5, <1>6, <1>7

(* Only events of the checkbox bear on what a human ticked last.           *)
LEMMA ExtensionTicks ==
  ASSUME NEW h, NEW g, NEW e, Extended(g, h, e)
  PROVE  /\ e.method # "checkbox" => (Ticked(g) <=> Ticked(h))
         /\ e.method = "checkbox" => (Ticked(g) <=> e.kind = "acknowledged")
<1> DEFINE n == Len(h) + 1
<1>1. /\ n \in Nat /\ DOMAIN h = 1 .. (n - 1) /\ DOMAIN g = 1 .. n /\ n \in DOMAIN g
      /\ g[n] = e /\ \A i \in DOMAIN h : g[i] = h[i] /\ i \in DOMAIN g /\ i < n
      /\ \A i \in DOMAIN g : i = n \/ i \in DOMAIN h
      /\ \A i \in DOMAIN g : ~(n < i)
  BY DEF Extended
<1> HIDE DEF n
<1>2. ASSUME e.method # "checkbox" PROVE Ticked(g) <=> Ticked(h)
  BY <1>1, <1>2 DEF Ticked
<1>3. ASSUME e.method = "checkbox" PROVE Ticked(g) <=> e.kind = "acknowledged"
  BY <1>1, <1>3 DEF Ticked
<1> QED BY <1>2, <1>3

-----------------------------------------------------------------------------
(* Clicks.                                                                 *)

LEMMA FindingExists == TheFinding \in Findings
<1>1. Findings # {}
  BY FS_EmptySet, LifecycleAssumption
<1> QED BY <1>1 DEF TheFinding

LEMMA ClickMeaning ==
  ASSUME NEW d, NEW last, NEW r
  PROVE  IsClicked(d, last, r) <=>
           /\ Rendered(MarkOf(r.state)) # "nil"
           /\ r.box # IF last = "nil" \/ MarkOf(d) = "ai" THEN Rendered(MarkOf(r.state))
                                                          ELSE last
BY FindingExists DEF IsClicked, Clicked, Baseline

(* What is shown for a state.                                              *)
LEMMA ShownMark ==
  ASSUME NEW d \in States
  PROVE  /\ MarkOf(d) \in Marks /\ Rendered(MarkOf(d)) \in Boxes
         /\ MarkOf(d) = "absent" <=> ~Exists(d)
         /\ Rendered(MarkOf(d)) = "on" <=> MarkOf(d) = "box"
         /\ Rendered(MarkOf(d)) = "off" <=> MarkOf(d) = "open"
         /\ MarkOf(d) = "box" <=> Exists(d) /\ d.method = "checkbox"
         /\ MarkOf(d) = "open" <=> Exists(d) /\ d.method = "none"
         /\ MarkOf(d) = "ai" <=> Exists(d) /\ d.method \in AIMethods
BY DEF MarkOf, Marks, Rendered, Boxes, States, Methods, AIMethods

LEMMA ClickKeeps ==
  ASSUME NEW d, Sound(d), Exists(d), NEW box \in {"on", "off"}
  PROVE  LET c == AfterClick(d, box)
         IN /\ Sound(c) /\ Exists(c) /\ Grown(c.history, d.history)
            /\ MarkOf(c) = IF box = "on" THEN "box" ELSE "open"
            /\ Ticked(c.history) <=> box = "on"
            /\ Fresh(d.history) => Fresh(c.history)
<1> DEFINE c == AfterClick(d, box)
           e == Event(IF box = "on" THEN "acknowledged" ELSE "reopened", "checkbox", "none", {})
<1>1. /\ e \in EventSet /\ e.method = "checkbox" /\ e.refs = {}
      /\ e.kind = IF box = "on" THEN "acknowledged" ELSE "reopened"
  BY DEF Event, EventSet, Events, Methods
<1>2. d \in States /\ d.history \in Seq(EventSet) /\ Explained(d)
      /\ Kept(d.history, d.sources)
  BY DEF Sound, Traced, States
<1>3. /\ c.method = (IF box = "on" THEN "checkbox" ELSE "none") /\ c.ack = {}
      /\ c.history = Append(d.history, e) /\ c.sources = d.sources
      /\ c.assess = d.assess /\ c.evidence = d.evidence
  BY <1>2 DEF AfterClick, States
<1>4. /\ c.history \in Seq(EventSet) /\ c.history # <<>>
      /\ Extended(c.history, d.history, e)
  BY <1>1, <1>2, <1>3, AppendExtends
<1>5. c \in States
  BY <1>2, <1>3, <1>4 DEF AfterClick, States, Methods
<1> HIDE DEF c, e
<1>6. Explained(c)
  BY <1>1, <1>2, <1>3, <1>4, MoveExplains
<1>7. Kept(c.history, c.sources)
  BY <1>1, <1>2, <1>3, <1>4, ExtensionKeeps
<1>8. Grown(c.history, d.history)
  BY <1>4, ExtensionGrows
<1>9. Ticked(c.history) <=> box = "on"
  BY <1>1, <1>4, ExtensionTicks
<1>10. Fresh(d.history) => Fresh(c.history)
  BY <1>1, <1>2, <1>4, ExtensionStaysFresh
<1>11. Exists(c) /\ MarkOf(c) = IF box = "on" THEN "box" ELSE "open"
  BY <1>3, <1>4 DEF Exists, MarkOf
<1> QED BY <1>5, <1>6, <1>7, <1>8, <1>9, <1>10, <1>11 DEF Sound, Traced, c

-----------------------------------------------------------------------------
(* Submissions.                                                            *)

LEMMA AvailableTyped ==
  ASSUME NEW fp \in Prints
  PROVE  /\ Available(fp) \subseteq AllSources
         /\ fp.notes \subseteq AllSources
         /\ \A s \in Available(fp) : IsNoteSource(s) => s \in fp.notes
BY LifecycleAssumption DEF Prints, Available, AllSources, CodeSource, IsNoteSource

(* What every step of Reconcile does to a state.                           *)
Carries(c, d, known) ==
  /\ Traced(c, known) /\ c.sources = d.sources
  /\ Exists(d) => Exists(c)
  /\ Grown(c.history, d.history)

LEMMA CreatedKeeps ==
  ASSUME NEW fp \in Prints, NEW d, NEW known, Traced(d, known), fp.notes \subseteq known,
         NEW s, Proper(s, fp, Exists(d))
  PROVE  LET c == Created(d, s)
         IN /\ Carries(c, d, known)
            /\ MarkOf(c) = IF s.creates THEN "open" ELSE MarkOf(d)
            /\ Validated(d) => Validated(c)
<1>1. CASE ~s.creates
  <2>1. Created(d, s) = d /\ d.history \in Seq(EventSet)
    BY <1>1 DEF Created, Traced, States
  <2> QED BY <1>1, <2>1, GrownIsOrder DEF Carries
<1>2. CASE s.creates
  <2> DEFINE e == Event("created", "none", "present", s.evidence)
             c == Created(d, s)
  <2>1. d \in States /\ Explained(d) /\ Kept(d.history, known) /\ d.history = <<>>
    BY <1>2 DEF Traced, Proper, Exists
  <2>2. s.evidence \subseteq Available(fp)
    BY DEF Proper, SubmissionSet
  <2>3. /\ e \in EventSet /\ e.refs = s.evidence /\ e.kind = "created" /\ e.method = "none"
        /\ e.assess = "present"
    BY <2>2, AvailableTyped DEF Event, EventSet, Events, Methods, Assessments
  <2>4. /\ c.history = <<e>> /\ c.assess = e.assess /\ c.evidence = e.refs /\ c.method = d.method
        /\ c.ack = d.ack /\ c.sources = d.sources
    BY <1>2, <2>1, <2>3 DEF Created, States
  <2>5. <<e>> = Append(d.history, e) /\ d.history \in Seq(EventSet)
    BY <2>1, <2>3 DEF States
  <2>6. c.history \in Seq(EventSet) /\ c.history # <<>> /\ Extended(c.history, d.history, e)
    <3> HIDE DEF c, e
    <3> QED BY <2>3, <2>4, <2>5, AppendExtends
  <2>7. c \in States
    BY <1>2, <2>1, <2>2, <2>6, AvailableTyped DEF Created, States, Assessments
  <2> HIDE DEF c, e
  <2>8. Explained(c)
    BY <2>1, <2>3, <2>4, <2>6, ViewExplains
  <2>9. Kept(c.history, known)
    BY <2>1, <2>2, <2>3, <2>6, AvailableTyped, ExtensionKeeps
  <2>10. Grown(c.history, d.history)
    BY <2>6, ExtensionGrows
  <2>11. MarkOf(c) = "open" /\ Exists(c) /\ MarkOf(d) = "absent"
    <3>1. d.method = "none"
      BY <2>1, EmptyHistory DEF Explained, MovesOf
    <3> QED BY <2>1, <2>4, <2>6, <3>1 DEF MarkOf, Exists
  <2>12. Fresh(d.history) => Fresh(c.history)
    BY <2>1, <2>3, <2>6, ExtensionStaysFresh DEF States
  <2>13. Ticked(c.history) <=> Ticked(d.history)
    BY <2>3, <2>6, ExtensionTicks
  <2> QED BY <1>2, <2>4, <2>7, <2>8, <2>9, <2>10, <2>11, <2>12, <2>13
          DEF Carries, Traced, Validated, c
<1> QED BY <1>1, <1>2 DEF Proper, SubmissionSet

LEMMA ReassessedKeeps ==
  ASSUME NEW fp \in Prints, NEW d, NEW known, Traced(d, known), fp.notes \subseteq known,
         NEW s, Proper(s, fp, Exists(d))
  PROVE  LET c == Reassessed(d, s)
         IN /\ Carries(c, d, known)
            /\ MarkOf(c) = MarkOf(d)
            /\ Exists(c) <=> Exists(d)
            /\ Consumed(c.history) = Consumed(d.history)
            /\ Validated(d) => Validated(c)
<1>1. CASE s.assess = "none"
  <2>1. Reassessed(d, s) = d /\ d.history \in Seq(EventSet)
    BY <1>1 DEF Reassessed, Traced, States
  <2> QED BY <1>1, <2>1, GrownIsOrder DEF Carries
<1>2. CASE s.assess # "none"
  <2> DEFINE e == Event("reassessed", "none", s.assess, s.evidence)
             c == Reassessed(d, s)
  <2>1. d \in States /\ Explained(d) /\ Kept(d.history, known) /\ Exists(d)
    BY <1>2 DEF Traced, Proper
  <2>2. s.evidence \subseteq Available(fp) /\ s.assess \in Assessments \cup {"none"}
    BY DEF Proper, SubmissionSet
  <2>3. /\ e \in EventSet /\ e.refs = s.evidence /\ e.kind = "reassessed" /\ e.method = "none"
        /\ e.assess = s.assess
    BY <2>2, AvailableTyped DEF Event, EventSet, Events, Methods, Assessments
  <2>4. /\ c.history = Append(d.history, e) /\ c.assess = e.assess /\ c.evidence = e.refs
        /\ c.method = d.method /\ c.ack = d.ack /\ c.sources = d.sources
    BY <1>2, <2>1, <2>3 DEF Reassessed, States
  <2>6. c.history \in Seq(EventSet) /\ c.history # <<>> /\ Extended(c.history, d.history, e)
    BY <2>1, <2>3, <2>4, AppendExtends DEF States
  <2>7. c \in States
    BY <1>2, <2>1, <2>2, <2>6, AvailableTyped DEF Reassessed, States, Assessments
  <2> HIDE DEF c, e
  <2>8. Explained(c)
    BY <2>1, <2>3, <2>4, <2>6, ViewExplains
  <2>9. Kept(c.history, known)
    BY <2>1, <2>2, <2>3, <2>6, AvailableTyped, ExtensionKeeps
  <2>10. Grown(c.history, d.history)
    BY <2>6, ExtensionGrows
  <2>11. MarkOf(c) = MarkOf(d) /\ Exists(c)
    BY <2>1, <2>4, <2>6 DEF MarkOf, Exists
  <2>12. Fresh(d.history) => Fresh(c.history)
    BY <2>1, <2>3, <2>6, ExtensionStaysFresh DEF States
  <2>13. Ticked(c.history) <=> Ticked(d.history)
    BY <2>3, <2>6, ExtensionTicks
  <2>14. Consumed(c.history) = Consumed(d.history)
    BY <2>3, <2>6, ViewConsumesNothing
  <2> QED BY <1>2, <2>1, <2>4, <2>7, <2>8, <2>9, <2>10, <2>11, <2>12, <2>13, <2>14
          DEF Carries, Traced, Validated, c
<1> QED BY <1>1, <1>2

LEMMA MovedKeeps ==
  ASSUME NEW fp \in Prints, NEW d, NEW known, Traced(d, known), fp.notes \subseteq known,
         NEW s, Proper(s, fp, Exists(d))
  PROVE  LET c == Moved(d, s)
         IN /\ Carries(c, d, known)
            /\ s.move = "none" => MarkOf(c) = MarkOf(d)
            /\ s.move = "acknowledge" => MarkOf(c) = "ai"
            /\ s.move = "reopen" => MarkOf(c) = "open"
            /\ /\ Validated(d)
               /\ s.move = "acknowledge" => MarkOf(d) = "open"
               /\ s.move = "reopen" => MarkOf(d) = "ai"
               /\ s.move # "none" => s.refs \cap Consumed(d.history) = {}
               => Validated(c)
<1>1. CASE s.move = "none"
  <2>1. Moved(d, s) = d /\ d.history \in Seq(EventSet)
    BY <1>1 DEF Moved, Traced, States
  <2> QED BY <1>1, <2>1, GrownIsOrder DEF Carries
<1>2. CASE s.move # "none"
  <2> DEFINE kind == IF s.move = "acknowledge" THEN "acknowledged" ELSE "reopened"
             e == Event(kind, s.method, "none", s.refs)
             c == Moved(d, s)
  <2>1. d \in States /\ Explained(d) /\ Kept(d.history, known) /\ Exists(d)
    BY <1>2 DEF Traced, Proper
  <2>2. s.refs \subseteq Available(fp) /\ s.method \in AIMethods /\ s.move \in {"acknowledge", "reopen"}
    BY <1>2 DEF Proper, SubmissionSet, Moves
  <2>3. /\ e \in EventSet /\ e.refs = s.refs /\ e.kind = kind /\ e.method = s.method
        /\ e.method # "checkbox"
    BY <2>2, AvailableTyped DEF Event, EventSet, Events, Methods, AIMethods
  <2>4. /\ c.history = Append(d.history, e) /\ c.assess = d.assess /\ c.evidence = d.evidence
        /\ c.sources = d.sources
        /\ c.method = (IF s.move = "acknowledge" THEN s.method ELSE "none")
        /\ c.ack = (IF s.move = "acknowledge" THEN s.refs ELSE {})
    BY <2>1, <2>2 DEF Moved, States
  <2>6. c.history \in Seq(EventSet) /\ c.history # <<>> /\ Extended(c.history, d.history, e)
    BY <2>1, <2>3, <2>4, AppendExtends DEF States
  <2>7. c \in States
    BY <2>1, <2>2, <2>4, <2>6, AvailableTyped DEF Moved, States, Methods, AIMethods
  <2> HIDE DEF c, e
  <2>8. Explained(c)
    BY <2>1, <2>2, <2>3, <2>4, <2>6, MoveExplains
  <2>9. Kept(c.history, known)
    BY <2>1, <2>2, <2>3, <2>6, AvailableTyped, ExtensionKeeps
  <2>10. Grown(c.history, d.history)
    BY <2>6, ExtensionGrows
  <2>11. MarkOf(c) = (IF s.move = "acknowledge" THEN "ai" ELSE "open") /\ Exists(c)
    BY <2>2, <2>4, <2>6 DEF MarkOf, Exists, AIMethods
  <2>12. Fresh(d.history) /\ s.refs \cap Consumed(d.history) = {} => Fresh(c.history)
    BY <2>1, <2>3, <2>6, ExtensionStaysFresh DEF States
  <2>13. Ticked(c.history) <=> Ticked(d.history)
    BY <2>3, <2>6, ExtensionTicks
  <2> QED BY <1>2, <2>1, <2>2, <2>4, <2>7, <2>8, <2>9, <2>10, <2>11, <2>12, <2>13
          DEF Carries, Traced, Validated, c
<1> QED BY <1>1, <1>2

LEMMA SourcesKeep ==
  ASSUME NEW fp \in Prints, NEW d, NEW known, known \subseteq d.sources \cup fp.notes,
         Traced(d, known)
  PROVE  LET c == WithSources(d, fp)
         IN Sound(c) /\ c.history = d.history /\ MarkOf(c) = MarkOf(d)
<1> DEFINE c == WithSources(d, fp)
<1>1. d \in States /\ Explained(d) /\ Kept(d.history, known)
  BY DEF Traced
<1>2. /\ c.history = d.history /\ c.method = d.method /\ c.ack = d.ack /\ c.assess = d.assess
      /\ c.evidence = d.evidence /\ c.sources = (d.sources \cup fp.notes) \cap Referenced(d)
  BY <1>1 DEF WithSources, States
<1>3. c \in States
  <2>1. (d.sources \cup fp.notes) \cap Referenced(d) \in SUBSET AllSources
    BY <1>1, AvailableTyped DEF States
  <2> QED BY <1>1, <2>1 DEF WithSources, States
<1> HIDE DEF c
<1>4. Explained(c) /\ MarkOf(c) = MarkOf(d)
  BY <1>1, <1>2 DEF Explained, MarkOf, Exists
<1>5. Kept(c.history, c.sources)
  <2> SUFFICES ASSUME NEW i \in DOMAIN d.history, NEW s \in d.history[i].refs, IsNoteSource(s)
               PROVE  s \in c.sources
    BY <1>2 DEF Kept
  <2>1. s \in d.sources \cup fp.notes
    BY <1>1 DEF Kept
  <2>2. s \in Referenced(d)
    BY DEF Referenced
  <2> QED BY <1>2, <2>1, <2>2
<1> QED BY <1>2, <1>3, <1>4, <1>5 DEF Sound, Traced, c

LEMMA SoundIsTraced ==
  ASSUME NEW d, NEW known, Sound(d), d.sources \subseteq known
  PROVE  Traced(d, known)
BY DEF Sound, Traced, Kept

(* What a submission may do: it never sets the human's mark, and takes it  *)
(* away only where it was not valid.                                       *)
LEMMA ConcludedKeeps ==
  ASSUME NEW fp \in Prints, NEW d, Sound(d), NEW s, Proper(s, fp, Exists(d))
  PROVE  LET c == WithSources(Reconcile(d, s), fp)
         IN /\ Sound(c)
            /\ Exists(d) => Exists(c)
            /\ Grown(c.history, d.history)
            /\ MarkOf(c) = "box" => MarkOf(d) = "box"
            /\ (s.move # "none" => ValidTransition(s, fp, d))
               => /\ MarkOf(c) = "open" => MarkOf(d) # "box"
                  /\ Validated(d) => Validated(c)
<1> DEFINE known == d.sources \cup fp.notes
           b == Created(d, s)
           x == Reassessed(b, s)
           m == Moved(x, s)
           c == WithSources(m, fp)
<1>1. Traced(d, known)
  BY SoundIsTraced
<1>2. /\ Carries(b, d, known)
      /\ MarkOf(b) = IF s.creates THEN "open" ELSE MarkOf(d)
      /\ Validated(d) => Validated(b)
      /\ s.move # "none" => b = d
  <2>1. s.move # "none" => b = d
    BY DEF Created, Proper
  <2> QED BY <1>1, <2>1, CreatedKeeps
<1>3. \/ Proper(s, fp, Exists(b)) /\ ~s.creates
      \/ s.creates /\ s.assess = "none" /\ s.move = "none"
  <2>1. s.creates \in BOOLEAN
    BY DEF Proper, SubmissionSet
  <2>2. ~s.creates => b = d
    BY DEF Created
  <2> QED BY <2>1, <2>2 DEF Proper
<1> SUFFICES /\ Carries(m, d, known)
             /\ MarkOf(m) = "box" => MarkOf(d) = "box"
             /\ (s.move # "none" => ValidTransition(s, fp, d))
                => /\ MarkOf(m) = "open" => MarkOf(d) # "box"
                   /\ Validated(d) => Validated(m)
  <2>1. ASSUME Carries(m, d, known)
        PROVE  Sound(c) /\ c.history = m.history /\ MarkOf(c) = MarkOf(m)
    BY <2>1, SourcesKeep DEF Carries
  <2>2. c = WithSources(Reconcile(d, s), fp)
    BY DEF Reconcile
  <2> HIDE DEF c, m
  <2> QED BY <2>1, <2>2 DEF Carries, Exists, Validated
<1>4. CASE s.creates /\ s.assess = "none" /\ s.move = "none"
  <2>1. m = b
    BY <1>4 DEF Reassessed, Moved
  <2>2. ~Exists(d)
    BY <1>4 DEF Proper
  <2>3. MarkOf(d) = "absent"
    BY <2>2 DEF MarkOf
  <2> HIDE DEF b, m
  <2> QED BY <1>2, <1>4, <2>1, <2>3
<1>5. CASE Proper(s, fp, Exists(b)) /\ ~s.creates
  <2>1. /\ Carries(x, b, known) /\ MarkOf(x) = MarkOf(b) /\ (Exists(x) <=> Exists(b))
        /\ Consumed(x.history) = Consumed(b.history) /\ (Validated(b) => Validated(x))
    <3> HIDE DEF b
    <3> QED BY <1>2, <1>5, ReassessedKeeps DEF Carries
  <2>2. /\ Carries(m, x, known)
        /\ s.move = "none" => MarkOf(m) = MarkOf(x)
        /\ s.move = "acknowledge" => MarkOf(m) = "ai"
        /\ s.move = "reopen" => MarkOf(m) = "open"
        /\ /\ Validated(x)
           /\ s.move = "acknowledge" => MarkOf(x) = "open"
           /\ s.move = "reopen" => MarkOf(x) = "ai"
           /\ s.move # "none" => s.refs \cap Consumed(x.history) = {}
           => Validated(m)
    <3> HIDE DEF b, x
    <3>1. Proper(s, fp, Exists(x)) /\ Traced(x, known)
      BY <1>5, <2>1 DEF Carries, Proper
    <3> QED BY <3>1, MovedKeeps
  <2>3. s.move \in {"none", "acknowledge", "reopen"}
    BY DEF Proper, SubmissionSet, Moves
  <2>4. b = d
    BY <1>5 DEF Created
  <2>5. Carries(m, d, known)
    <3>1. /\ d.history \in Seq(EventSet) /\ x.history \in Seq(EventSet)
          /\ m.history \in Seq(EventSet)
      BY <1>1, <2>1, <2>2 DEF Traced, States, Carries
    <3> HIDE DEF b, x, m
    <3> QED BY <2>1, <2>2, <2>4, <3>1, GrownIsOrder DEF Carries
  <2> HIDE DEF b, x, m
  <2>6. MarkOf(m) = "box" => MarkOf(d) = "box"
    BY <2>1, <2>2, <2>3, <2>4
  <2>7. ASSUME s.move # "none" => ValidTransition(s, fp, d)
        PROVE  /\ MarkOf(m) = "open" => MarkOf(d) # "box"
               /\ Validated(d) => Validated(m)
    <3>1. /\ s.move = "acknowledge" => MarkOf(d) = "open"
          /\ s.move = "reopen" => MarkOf(d) = "ai"
          /\ s.move # "none" => s.refs \cap Consumed(d.history) = {}
      BY <2>7 DEF ValidTransition
    <3> QED BY <2>1, <2>2, <2>3, <2>4, <3>1
  <2> QED BY <2>5, <2>6, <2>7
<1> QED BY <1>3, <1>4, <1>5

LEMMA SubmissionsProper ==
  ASSUME NEW fp \in Prints, NEW d, NEW s \in Submissions(fp, d)
  PROVE  /\ Proper(s, fp, Exists(d))
         /\ s.move # "none" => ValidTransition(s, fp, d)
<1>1. s \in Candidates(fp, d) /\ ValidSubmission(s, fp, d)
  BY DEF Submissions
<1>2. Citations(fp) \subseteq SUBSET Available(fp)
  BY DEF Citations
<1>3. Proper(s, fp, Exists(d))
  BY <1>1, <1>2 DEF Candidates, Proper, SubmissionSet, Moves
<1> QED BY <1>1, <1>3 DEF ValidSubmission

LEMMA ControlsKeep ==
  ASSUME NEW d, Sound(d), NEW last, NEW r \in Reports, Exists(r.state) => Exists(d),
         r.box = "nil" <=> Rendered(MarkOf(r.state)) = "nil"
  PROVE  LET w == WithControls(d, last, r)
             c == w.state
         IN /\ Sound(c)
            /\ Exists(c) <=> Exists(d)
            /\ Grown(c.history, d.history)
            /\ Validated(d) => Validated(c)
            /\ IF IsClicked(d, last, r)
                 THEN /\ MarkOf(c) = IF r.box = "on" THEN "box" ELSE "open"
                      /\ Ticked(c.history) <=> r.box = "on"
                      /\ w.last = r.box /\ r.box \in {"on", "off"}
                 ELSE c = d /\ w.last = last
<1>1. CASE ~IsClicked(d, last, r)
  <2>1. WithControls(d, last, r).state = d /\ WithControls(d, last, r).last = last
    BY <1>1 DEF WithControls
  <2>2. d.history \in Seq(EventSet)
    BY DEF Sound, Traced, States
  <2> QED BY <1>1, <2>1, <2>2, GrownIsOrder
<1>2. CASE IsClicked(d, last, r)
  <2>1. Rendered(MarkOf(r.state)) # "nil" /\ r.box \in {"on", "off"}
    BY <1>2, ClickMeaning DEF Reports, Boxes
  <2>2. Exists(d)
    BY <2>1, ShownMark DEF Reports, Rendered
  <2>3. /\ WithControls(d, last, r).state = AfterClick(d, r.box)
        /\ WithControls(d, last, r).last = r.box
    BY <1>2 DEF WithControls
  <2> QED BY <1>2, <2>1, <2>2, <2>3, ClickKeeps DEF Validated
<1> QED BY <1>1, <1>2

-----------------------------------------------------------------------------
(* The initial states.                                                     *)

LEMMA FingerprintTyped ==
  ASSUME commit \in 1 .. MaxCommits, notes \in [Notes -> [rev : 0 .. MaxEdits, shown : BOOLEAN]]
  PROVE  Fingerprint \in Prints /\ Fingerprint.notes = PublicNotes
BY DEF Fingerprint, Prints, PublicNotes, NoteSource

LEMMA NothingTyped ==
  /\ Unknown \in States /\ Sound(Unknown) /\ Validated(Unknown) /\ ~Exists(Unknown)
  /\ MarkOf(Unknown) = "absent" /\ Rendered("absent") = "nil"
  /\ NoReport \in Reports /\ NoRun \in Runs
<1>1. Unknown \in States /\ ~Exists(Unknown) /\ Unknown.history = <<>>
  BY DEF Unknown, States, Methods, Exists
<1>2. Explained(Unknown)
  BY <1>1, EmptyHistory DEF Unknown, Explained, MovesOf
<1>3. Kept(<<>>, Unknown.sources) /\ Fresh(<<>>) /\ ~Ticked(<<>>)
  BY EmptyHistory DEF Kept, Fresh, Ticked
<1>4. MarkOf(Unknown) = "absent" /\ Rendered("absent") = "nil"
  BY <1>1 DEF MarkOf, Rendered
<1>5. NoReport \in Reports /\ NoRun \in Runs
  BY <1>1 DEF NoReport, NoRun, Reports, Runs, Boxes
<1> QED BY <1>1, <1>2, <1>3, <1>4, <1>5 DEF Sound, Traced, Validated

(* The finding of an earlier run.                                          *)
Raised(fp) ==
  [Unknown EXCEPT !.assess = "present", !.evidence = Available(fp), !.sources = fp.notes,
     !.history = <<Event("created", "none", "present", Available(fp))>>]

MovedEarlier(fp, method, refs) ==
  [Raised(fp) EXCEPT !.method = method, !.ack = refs,
     !.history = Append(@, Event("acknowledged", method, "none", refs))]

LEMMA RaisedSound ==
  ASSUME NEW fp \in Prints
  PROVE  LET c == Raised(fp)
         IN /\ Sound(c) /\ Validated(c) /\ Exists(c) /\ c.sources = fp.notes
            /\ Consumed(c.history) = {} /\ c.method = "none"
<1> DEFINE e == Event("created", "none", "present", Available(fp))
           c == Raised(fp)
           d == [Unknown EXCEPT !.sources = fp.notes]
<1>1. /\ e \in EventSet /\ e.refs = Available(fp) /\ e.kind = "created" /\ e.method = "none"
      /\ e.assess = "present"
  BY AvailableTyped DEF Event, EventSet, Events, Methods, Assessments
<1>2. /\ c.history = <<e>> /\ c.assess = e.assess /\ c.evidence = e.refs /\ c.method = "none"
      /\ c.ack = {} /\ c.sources = fp.notes
  BY <1>1 DEF Raised, Unknown
<1>3. <<e>> = Append(<<>>, e) /\ <<>> \in Seq(EventSet)
  BY <1>1
<1>4. c.history \in Seq(EventSet) /\ c.history # <<>> /\ Extended(c.history, <<>>, e)
  <2> HIDE DEF c, e
  <2> QED BY <1>1, <1>2, <1>3, AppendExtends
<1>5. c \in States
  BY <1>2, <1>4, AvailableTyped DEF Raised, Unknown, States, Assessments, Methods
<1>6. Consumed(<<>>) = {}
  BY EmptyHistory DEF Consumed
<1>7. Unknown.history = <<>> /\ Unknown.method = "none" /\ Unknown.ack = {}
  BY DEF Unknown
<1>8. Kept(<<>>, fp.notes)
  BY EmptyHistory DEF Kept
<1> HIDE DEF c, e
<1>9. Explained(c)
  BY <1>1, <1>2, <1>4, <1>7, NothingTyped, ViewExplains DEF Sound, Traced
<1>10. Kept(c.history, c.sources)
  BY <1>1, <1>2, <1>4, <1>8, AvailableTyped, ExtensionKeeps
<1>11. Fresh(c.history)
  BY <1>1, <1>3, <1>4, <1>7, NothingTyped, ExtensionStaysFresh DEF Validated
<1>12. ~Ticked(c.history)
  BY <1>1, <1>4, <1>7, NothingTyped, ExtensionTicks DEF Validated
<1>13. Consumed(c.history) = {}
  BY <1>1, <1>4, <1>6, ViewConsumesNothing
<1>14. Exists(c) /\ MarkOf(c) = "open"
  BY <1>2, <1>4 DEF Exists, MarkOf
<1> QED BY <1>2, <1>5, <1>9, <1>10, <1>11, <1>12, <1>13, <1>14 DEF Sound, Traced, Validated, c

LEMMA EarlierSound ==
  ASSUME NEW fp \in Prints, NEW method \in {"checkbox", "ai_discussion"},
         NEW refs \in SUBSET fp.notes
  PROVE  LET c == MovedEarlier(fp, method, refs)
         IN /\ c \in States /\ Sound(c) /\ Validated(c)
            /\ MarkOf(c) = IF method = "checkbox" THEN "box" ELSE "ai"
<1> DEFINE e == Event("acknowledged", method, "none", refs)
           d == Raised(fp)
           c == MovedEarlier(fp, method, refs)
<1>1. /\ e \in EventSet /\ e.refs = refs /\ e.kind = "acknowledged" /\ e.method = method
  BY AvailableTyped DEF Event, EventSet, Events, Methods, AIMethods
<1>2. /\ Sound(d) /\ d \in States /\ Explained(d) /\ Kept(d.history, fp.notes)
      /\ Fresh(d.history) /\ Exists(d) /\ Consumed(d.history) = {} /\ d.sources = fp.notes
  BY RaisedSound DEF Sound, Traced, Validated
<1> HIDE DEF d
<1>3. /\ c = [d EXCEPT !.method = method, !.ack = refs, !.history = Append(@, e)]
      /\ c.history = Append(d.history, e) /\ c.assess = d.assess /\ c.evidence = d.evidence
      /\ c.method = method /\ c.ack = refs /\ c.sources = fp.notes
  BY <1>2 DEF MovedEarlier, States, d
<1> HIDE DEF c, e
<1>4. c.history \in Seq(EventSet) /\ c.history # <<>> /\ Extended(c.history, d.history, e)
  BY <1>1, <1>2, <1>3, AppendExtends DEF States
<1>5. c \in States
  BY <1>2, <1>3, <1>4, AvailableTyped DEF States, Methods, AIMethods
<1>6. Explained(c)
  BY <1>1, <1>2, <1>3, <1>4, MoveExplains
<1>7. Kept(c.history, c.sources)
  BY <1>1, <1>2, <1>3, <1>4, ExtensionKeeps
<1>8. Fresh(c.history)
  BY <1>1, <1>2, <1>4, ExtensionStaysFresh DEF States
<1>9. Ticked(c.history) <=> method = "checkbox"
  <2>1. ~Ticked(d.history)
    BY RaisedSound DEF Validated, MarkOf, d
  <2> QED BY <1>1, <1>4, <2>1, ExtensionTicks
<1>10. MarkOf(c) = IF method = "checkbox" THEN "box" ELSE "ai"
  BY <1>3, <1>4 DEF Exists, MarkOf
<1> QED BY <1>5, <1>6, <1>7, <1>8, <1>9, <1>10 DEF Sound, Traced, Validated, c

LEMMA LifeInit == Init => LifeInv
<1> SUFFICES ASSUME Init PROVE LifeInv
  OBVIOUS
<1>1. /\ commit = 1 /\ notes = [n \in Notes |-> [rev |-> 0, shown |-> n \in Early]]
      /\ Earlier /\ persistent \in Persistence /\ checkpoints = <<>> /\ pc = "idle"
      /\ run = NoRun
      /\ left = [k \in Kinds |-> CASE k = "edit" -> MaxEdits [] k = "click" -> MaxClicks
                                   [] k = "fault" -> MaxFaults [] OTHER -> MaxSubmissions]
  BY DEF Init
<1>2. {MaxCommits, MaxEdits, MaxClicks, MaxFaults, MaxSubmissions} \subseteq Nat /\ MaxCommits > 0
  BY LifecycleAssumption
<1>3. /\ commit \in 1 .. MaxCommits /\ left \in [Kinds -> Nat] /\ left["edit"] = MaxEdits
      /\ notes \in [Notes -> [rev : 0 .. MaxEdits, shown : BOOLEAN]]
      /\ \A n \in Notes : notes[n].rev + left["edit"] <= MaxEdits
  <2>1. commit \in 1 .. MaxCommits
    BY <1>1, <1>2
  <2>2. left \in [Kinds -> Nat] /\ left["edit"] = MaxEdits
    BY <1>1, <1>2 DEF Kinds
  <2>3. /\ notes \in [Notes -> [rev : 0 .. MaxEdits, shown : BOOLEAN]]
        /\ \A n \in Notes : notes[n].rev = 0
    BY <1>1, <1>2
  <2> QED BY <1>2, <2>1, <2>2, <2>3
<1>4. Fingerprint \in Prints /\ Fingerprint.notes = PublicNotes
  BY <1>3, FingerprintTyped
<1>5. /\ report \in Reports /\ Sound(report.state) /\ Validated(report.state)
      /\ report.box = "nil" <=> Rendered(MarkOf(report.state)) = "nil"
  <2> DEFINE by(d, box) == [state |-> d, box |-> box, fp |-> Fingerprint, complete |-> FALSE]
  <2>1. \/ report = NoReport
        \/ report = by(MovedEarlier(Fingerprint, "checkbox", {}), "on")
        \/ \E s \in PublicNotes : report = by(MovedEarlier(Fingerprint, "ai_discussion", {s}), "nil")
    BY <1>1, <1>4 DEF Earlier, MovedEarlier, Raised
  <2>2. CASE report = NoReport
    BY <2>2, NothingTyped DEF NoReport
  <2>3. ASSUME NEW method \in {"checkbox", "ai_discussion"}, NEW refs \in SUBSET PublicNotes,
               report = by(MovedEarlier(Fingerprint, method, refs),
                           IF method = "checkbox" THEN "on" ELSE "nil")
        PROVE  <1>5
    <3> DEFINE c == MovedEarlier(Fingerprint, method, refs)
    <3>1. /\ c \in States /\ Sound(c) /\ Validated(c)
          /\ MarkOf(c) = IF method = "checkbox" THEN "box" ELSE "ai"
      BY <1>4, EarlierSound
    <3> HIDE DEF c
    <3>2. report = by(c, IF method = "checkbox" THEN "on" ELSE "nil")
      BY <2>3 DEF c
    <3> QED BY <1>4, <3>1, <3>2 DEF Reports, Boxes, Rendered
  <2> HIDE DEF by
  <2>4. CASE report = by(MovedEarlier(Fingerprint, "checkbox", {}), "on")
    BY <2>3, <2>4
  <2>5. CASE \E s \in PublicNotes :
               report = by(MovedEarlier(Fingerprint, "ai_discussion", {s}), "nil")
    <3>1. PICK s \in PublicNotes : report = by(MovedEarlier(Fingerprint, "ai_discussion", {s}), "nil")
      BY <2>5
    <3> QED BY <2>3, <3>1
  <2> QED BY <2>1, <2>2, <2>4, <2>5
<1>6. TypeInv
  BY <1>1, <1>3, <1>5, NothingTyped, EmptyHistory DEF TypeInv
<1>7. StateInv
  BY <1>1, <1>5 DEF StateInv
<1> QED BY <1>6, <1>7 DEF LifeInv

-----------------------------------------------------------------------------
(* The steps of humans.                                                    *)

LEMMA SpendTyped ==
  ASSUME NEW kind \in Kinds, left \in [Kinds -> Nat], Spend(kind)
  PROVE  /\ left' \in [Kinds -> Nat] /\ left'["edit"] <= left["edit"]
         /\ kind = "edit" => left["edit"] = left'["edit"] + 1
BY DEF Spend, Kinds

LEMMA StateUnchanged ==
  ASSUME StateInv, UNCHANGED <<report, persistent, checkpoints, pc, run>>
  PROVE  StateInv'
BY DEF StateInv, Sound, Traced, Explained, Kept, Validated, Fresh, Ticked, Continues, Grown,
       MarkOf, Exists, Rendered

LEMMA NotesStep ==
  ASSUME LifeInv, NEW n \in Notes, Write(n) \/ Withdraw(n)
  PROVE  LifeInv'
<1>1. Spend("edit") /\ UNCHANGED <<commit, report, persistent, checkpoints, pc, run>>
  BY DEF Write, Withdraw
<1>2. TypeInv
  BY DEF LifeInv
<1>3. left' \in [Kinds -> Nat] /\ left["edit"] = left'["edit"] + 1
  BY <1>1, <1>2, SpendTyped DEF TypeInv, Kinds
<1>4. /\ notes' \in [Notes -> [rev : 0 .. MaxEdits, shown : BOOLEAN]]
      /\ \A m \in Notes : notes'[m].rev + left'["edit"] <= MaxEdits
  <2>1. /\ notes \in [Notes -> [rev : 0 .. MaxEdits, shown : BOOLEAN]]
        /\ \A m \in Notes : notes[m].rev + left["edit"] <= MaxEdits
        /\ MaxEdits \in Nat /\ left["edit"] \in Nat /\ left'["edit"] \in Nat
    BY <1>2, <1>3, LifecycleAssumption DEF TypeInv, Kinds
  <2>2. CASE Write(n)
    <3>1. notes' = [notes EXCEPT ![n] = [rev |-> notes[n].rev + 1, shown |-> TRUE]]
      BY <2>2 DEF Write
    <3>2. notes[n].rev \in Nat /\ notes[n].rev + 1 \in 0 .. MaxEdits
      BY <1>3, <2>1
    <3>3. [rev |-> notes[n].rev + 1, shown |-> TRUE] \in [rev : 0 .. MaxEdits, shown : BOOLEAN]
      BY <3>2
    <3>4. notes' \in [Notes -> [rev : 0 .. MaxEdits, shown : BOOLEAN]]
      BY <2>1, <3>1, <3>3
    <3>5. /\ notes'[n].rev = notes[n].rev + 1
          /\ \A m \in Notes : m # n => notes'[m] = notes[m]
      BY <2>1, <3>1
    <3>6. \A m \in Notes : notes[m].rev \in Nat
      BY <2>1
    <3> QED BY <1>3, <2>1, <3>4, <3>5, <3>6
  <2>3. CASE Withdraw(n)
    <3>1. notes' = [notes EXCEPT ![n].shown = FALSE]
      BY <2>3 DEF Withdraw
    <3>2. LET r == [notes[n] EXCEPT !.shown = FALSE]
          IN r \in [rev : 0 .. MaxEdits, shown : BOOLEAN] /\ r.rev = notes[n].rev
      BY <2>1
    <3>3. /\ notes' \in [Notes -> [rev : 0 .. MaxEdits, shown : BOOLEAN]]
          /\ \A m \in Notes : notes'[m].rev = notes[m].rev
      BY <2>1, <3>1, <3>2
    <3>4. \A m \in Notes : notes[m].rev \in Nat
      BY <2>1
    <3> QED BY <1>3, <2>1, <3>3, <3>4
  <2> QED BY <2>2, <2>3
<1>5. TypeInv'
  BY <1>1, <1>2, <1>3, <1>4 DEF TypeInv, Proper, SubmissionSet, Available
<1> QED BY <1>1, <1>5, StateUnchanged DEF LifeInv

LEMMA PushStep ==
  ASSUME LifeInv, Push
  PROVE  LifeInv'
<1>1. TypeInv'
  BY LifecycleAssumption DEF LifeInv, TypeInv, Push
<1> QED BY <1>1, StateUnchanged DEF LifeInv, Push

LEMMA ClickStep ==
  ASSUME LifeInv, Click
  PROVE  LifeInv'
<1>1. TypeInv /\ StateInv
  BY DEF LifeInv
<1>2. /\ Spend("click") /\ report.box # "nil"
      /\ report' = [report EXCEPT !.box = IF @ = "off" THEN "on" ELSE "off"]
      /\ UNCHANGED <<commit, notes, persistent, checkpoints, pc, run>>
  BY DEF Click
<1>3. /\ left' \in [Kinds -> Nat] /\ left'["edit"] <= left["edit"]
      /\ left["edit"] \in Nat /\ left'["edit"] \in Nat
  BY <1>1, <1>2, SpendTyped DEF TypeInv, Kinds
<1>4. report' \in Reports /\ report'.state = report.state /\ report'.box # "nil"
  BY <1>1, <1>2 DEF TypeInv, Reports, Boxes
<1>5. TypeInv'
  <2>1. \A m \in Notes : notes[m].rev + left'["edit"] <= MaxEdits
    BY <1>1, <1>3, LifecycleAssumption DEF TypeInv
  <2> QED BY <1>1, <1>2, <1>3, <1>4, <2>1 DEF TypeInv
<1>6. StateInv'
  <2>1. /\ Sound(report'.state) /\ (~persistent' => Validated(report'.state))
        /\ report'.box = "nil" <=> Rendered(MarkOf(report'.state)) = "nil"
        /\ ~persistent' /\ pc' = "idle" => checkpoints' = <<>>
    BY <1>1, <1>2, <1>4 DEF StateInv
  <2>2. pc' # "idle" => Sound(run'.state) /\ (~persistent' => Validated(run'.state))
    BY <1>1, <1>2 DEF StateInv
  <2>3. pc' # "idle" => Continues'
    BY <1>1, <1>2, <1>4 DEF StateInv, Continues
  <2> QED BY <2>1, <2>2, <2>3 DEF StateInv
<1> QED BY <1>5, <1>6 DEF LifeInv

-----------------------------------------------------------------------------
(* The steps of a run.                                                     *)

(* What a run has recovered.                                               *)
Recovers(state, last) ==
  /\ Sound(state) /\ last \in Boxes
  /\ Exists(report.state) <=> Exists(state)
  /\ Grown(state.history, report.state.history)
  /\ ~persistent => Validated(state)
  /\ last = Rendered(MarkOf(state))
  /\ Rendered(MarkOf(report.state)) # "nil" => last # "nil"

LEMMA RecoveredKeeps ==
  ASSUME LifeInv
  PROVE  Recovers(Recovered.state, Recovered.last) /\ Recovered.changed \in BOOLEAN
<1> DEFINE d == report.state
           w == WithControls(d, Rendered(MarkOf(d)), report)
<1>1. /\ Sound(d) /\ report \in Reports /\ d \in States
      /\ report.box = "nil" <=> Rendered(MarkOf(d)) = "nil"
      /\ ~persistent => Validated(d)
  BY DEF LifeInv, TypeInv, StateInv, Reports
<1>2. Rendered(MarkOf(d)) \in Boxes
  BY <1>1, ShownMark
<1>3. /\ Sound(w.state)
      /\ Exists(w.state) <=> Exists(d)
      /\ Grown(w.state.history, d.history)
      /\ Validated(d) => Validated(w.state)
      /\ IF IsClicked(d, Rendered(MarkOf(d)), report)
           THEN /\ MarkOf(w.state) = IF report.box = "on" THEN "box" ELSE "open"
                /\ w.last = report.box /\ report.box \in {"on", "off"}
           ELSE w.state = d /\ w.last = Rendered(MarkOf(d))
  <2> HIDE DEF w
  <2> QED BY <1>1, ControlsKeep DEF w
<1>4. w.changed \in BOOLEAN
  BY DEF WithControls
<1>5. Recovered = w
  BY DEF Recovered
<1> HIDE DEF w
<1>6. CASE IsClicked(d, Rendered(MarkOf(d)), report)
  BY <1>1, <1>3, <1>4, <1>5, <1>6 DEF Recovers, Rendered, Boxes
<1>7. CASE ~IsClicked(d, Rendered(MarkOf(d)), report)
  BY <1>1, <1>2, <1>3, <1>4, <1>5, <1>7 DEF Recovers
<1> QED BY <1>6, <1>7

(* The run's state once a submission is in it.                             *)
LEMMA ConcludedState ==
  ASSUME LifeInv, NEW fp \in Prints, NEW state, NEW last, Recovers(state, last),
         NEW s, Proper(s, fp, Exists(state)),
         ~persistent /\ s.move # "none" => ValidTransition(s, fp, state)
  PROVE  LET c == WithSources(Reconcile(state, s), fp)
         IN /\ Sound(c) /\ c \in States
            /\ Exists(report.state) => Exists(c)
            /\ Grown(c.history, report.state.history)
            /\ ~persistent => Validated(c)
            /\ ~persistent /\ MarkOf(c) = "box" => last = "on"
            /\ ~persistent /\ MarkOf(c) = "open" => last # "on"
<1> DEFINE c == WithSources(Reconcile(state, s), fp)
<1>1. /\ Sound(c)
      /\ Exists(state) => Exists(c)
      /\ Grown(c.history, state.history)
      /\ MarkOf(c) = "box" => MarkOf(state) = "box"
      /\ (s.move # "none" => ValidTransition(s, fp, state))
         => /\ MarkOf(c) = "open" => MarkOf(state) # "box"
            /\ Validated(state) => Validated(c)
  <2> HIDE DEF c
  <2> QED BY ConcludedKeeps DEF Recovers, c
<1> HIDE DEF c
<1>2. c \in States /\ state \in States
  BY <1>1 DEF Sound, Traced, Recovers
<1>3. Rendered(MarkOf(state)) = "on" <=> MarkOf(state) = "box"
  BY <1>2, ShownMark
<1>4. Grown(c.history, report.state.history)
  <2>1. /\ c.history \in Seq(EventSet) /\ state.history \in Seq(EventSet)
        /\ report.state.history \in Seq(EventSet)
    BY <1>2 DEF States, LifeInv, TypeInv, Reports
  <2> QED BY <1>1, <2>1, GrownTransitive DEF Recovers
<1>5. ~persistent => (s.move # "none" => ValidTransition(s, fp, state))
  OBVIOUS
<1>6. /\ ~persistent => Validated(c)
      /\ ~persistent /\ MarkOf(c) = "open" => last # "on"
  BY <1>1, <1>3, <1>5 DEF Recovers
<1>7. ~persistent /\ MarkOf(c) = "box" => last = "on"
  BY <1>1, <1>3 DEF Recovers
<1> QED BY <1>1, <1>2, <1>4, <1>6, <1>7 DEF Recovers, c

(* A run ends, with or without a new report.                               *)
LEMMA EndKeeps ==
  ASSUME LifeInv, EndRun, UNCHANGED <<commit, notes>>,
         left' \in [Kinds -> Nat], left'["edit"] <= left["edit"],
         report' \in Reports, Sound(report'.state),
         report'.box = "nil" <=> Rendered(MarkOf(report'.state)) = "nil",
         ~persistent => Validated(report'.state)
  PROVE  LifeInv'
<1>1. TypeInv /\ StateInv
  BY DEF LifeInv
<1>2. /\ pc' = "idle" /\ run' = NoRun /\ persistent' = persistent
      /\ checkpoints' = IF persistent THEN checkpoints ELSE <<>>
  BY DEF EndRun
<1>3. persistent \in BOOLEAN
  BY <1>1, LifecycleAssumption DEF TypeInv
<1>4. \A m \in Notes : notes[m].rev + left'["edit"] <= MaxEdits
  <2>1. left["edit"] \in Nat /\ left'["edit"] \in Nat /\ MaxEdits \in Nat
    BY <1>1, LifecycleAssumption DEF TypeInv, Kinds
  <2>2. \A m \in Notes : notes[m].rev \in Nat
    BY <1>1 DEF TypeInv
  <2> QED BY <1>1, <2>1, <2>2 DEF TypeInv
<1>5. TypeInv'
  <2>1. \A k \in DOMAIN checkpoints' : /\ k.known \in BOOLEAN
                                       /\ Proper(checkpoints'[k], k.fp, k.known)
    BY <1>1, <1>2, EmptyHistory DEF TypeInv
  <2> QED BY <1>1, <1>2, <1>4, <2>1, NothingTyped DEF TypeInv
<1>6. StateInv'
  BY <1>2, <1>3 DEF StateInv
<1> QED BY <1>5, <1>6 DEF LifeInv

LEMMA StaleStep ==
  ASSUME LifeInv, Stale
  PROVE  LifeInv'
<1>1. left' = left /\ left["edit"] \in Nat
  BY DEF Stale, LifeInv, TypeInv, Kinds
<1> QED BY <1>1, EndKeeps DEF Stale, LifeInv, TypeInv, StateInv

LEMMA FailStep ==
  ASSUME LifeInv, Fail
  PROVE  LifeInv'
<1>1. left' \in [Kinds -> Nat] /\ left'["edit"] <= left["edit"]
  BY SpendTyped DEF Fail, LifeInv, TypeInv, Kinds
<1> QED BY <1>1, EndKeeps DEF Fail, LifeInv, TypeInv, StateInv

(* The report that Publish writes.                                         *)
LEMMA PublishedState ==
  ASSUME LifeInv, pc = "publish", NEW d, d = WithControls(run.state, run.last, report).state
  PROVE  /\ Sound(d) /\ d \in States
         /\ Grown(d.history, report.state.history)
         /\ ~persistent => Validated(d)
         /\ IF IsClicked(run.state, run.last, report)
              THEN /\ MarkOf(d) = IF report.box = "on" THEN "box" ELSE "open"
                   /\ Ticked(d.history) <=> report.box = "on"
              ELSE d = run.state
<1>1. /\ Sound(run.state) /\ report \in Reports /\ (Exists(report.state) => Exists(run.state))
      /\ report.box = "nil" <=> Rendered(MarkOf(report.state)) = "nil"
      /\ Grown(run.state.history, report.state.history)
      /\ ~persistent => Validated(run.state)
  BY DEF LifeInv, TypeInv, StateInv, Continues
<1>2. /\ Sound(d)
      /\ Grown(d.history, run.state.history)
      /\ Validated(run.state) => Validated(d)
      /\ IF IsClicked(run.state, run.last, report)
           THEN /\ MarkOf(d) = IF report.box = "on" THEN "box" ELSE "open"
                /\ Ticked(d.history) <=> report.box = "on"
           ELSE d = run.state
  BY <1>1, ControlsKeep
<1>3. /\ d.history \in Seq(EventSet) /\ run.state.history \in Seq(EventSet)
      /\ report.state.history \in Seq(EventSet)
  BY <1>1, <1>2 DEF Sound, Traced, States, Reports
<1>4. Grown(d.history, report.state.history)
  BY <1>1, <1>2, <1>3, GrownTransitive
<1> QED BY <1>1, <1>2, <1>4 DEF Sound, Traced

LEMMA PublishStep ==
  ASSUME LifeInv, Publish
  PROVE  LifeInv'
<1> DEFINE d == WithControls(run.state, run.last, report).state
<1>1. /\ pc = "publish" /\ EndRun /\ UNCHANGED <<commit, notes>>
  BY DEF Publish
<1>2. PICK whole \in BOOLEAN :
        /\ IF whole THEN UNCHANGED left ELSE ~Reusable /\ Spend("fault")
        /\ report' = [state |-> d, box |-> Rendered(MarkOf(d)), fp |-> run.fp,
                      complete |-> run.complete /\ whole]
  BY DEF Publish
<1>3. Sound(d) /\ d \in States /\ (~persistent => Validated(d))
  <2> HIDE DEF d
  <2> QED BY <1>1, PublishedState DEF d
<1>4. left' \in [Kinds -> Nat] /\ left'["edit"] <= left["edit"]
  BY <1>2, SpendTyped DEF LifeInv, TypeInv, Kinds
<1> HIDE DEF d
<1>5. Rendered(MarkOf(d)) \in Boxes
  BY <1>3, ShownMark
<1>6. report' \in Reports /\ report'.state = d /\ report'.box = Rendered(MarkOf(d))
  <2>1. run.complete \in BOOLEAN /\ run.fp \in Prints \cup {NoPrint}
    BY DEF LifeInv, TypeInv, Runs
  <2> QED BY <1>2, <1>3, <1>5, <2>1 DEF Reports
<1> QED BY <1>1, <1>3, <1>4, <1>6, EndKeeps

(* A run has its result.                                                   *)
LEMMA ResultKeeps ==
  ASSUME LifeInv, pc' = "publish", UNCHANGED <<commit, notes, report, persistent>>,
         left' \in [Kinds -> Nat], left'["edit"] <= left["edit"],
         \A k \in DOMAIN checkpoints' : /\ k.known \in BOOLEAN
                                        /\ Proper(checkpoints'[k], k.fp, k.known),
         run' \in Runs, run'.fp \in Prints, Sound(run'.state),
         Exists(report.state) => Exists(run'.state),
         Grown(run'.state.history, report.state.history),
         Rendered(MarkOf(report.state)) # "nil" => run'.last # "nil",
         ~persistent => Validated(run'.state),
         ~persistent /\ MarkOf(run'.state) = "box" => run'.last = "on",
         ~persistent /\ MarkOf(run'.state) = "open" => run'.last # "on"
  PROVE  LifeInv'
<1>1. TypeInv /\ StateInv
  BY DEF LifeInv
<1>2. \A m \in Notes : notes[m].rev + left'["edit"] <= MaxEdits
  <2>1. left["edit"] \in Nat /\ left'["edit"] \in Nat /\ MaxEdits \in Nat
    BY <1>1, LifecycleAssumption DEF TypeInv, Kinds
  <2>2. \A m \in Notes : notes[m].rev \in Nat
    BY <1>1 DEF TypeInv
  <2> QED BY <1>1, <2>1, <2>2 DEF TypeInv
<1>3. TypeInv'
  BY <1>1, <1>2 DEF TypeInv
<1>4. StateInv'
  BY <1>1 DEF StateInv, Continues
<1> QED BY <1>3, <1>4 DEF LifeInv

LEMMA StartStep ==
  ASSUME LifeInv, Start
  PROVE  LifeInv'
<1> DEFINE fp    == Fingerprint
           rec   == Recovered
           begun == [fp |-> fp, state |-> rec.state, last |-> rec.last, complete |-> FALSE,
                     changed |-> rec.changed]
<1>1. /\ TypeInv /\ StateInv /\ pc = "idle" /\ left["edit"] \in Nat
      /\ UNCHANGED <<commit, notes, report, persistent, checkpoints, left>>
  BY DEF LifeInv, Start, TypeInv, Kinds
<1>2. \/ /\ Reusable
         /\ pc' = "publish"
         /\ run' = [begun EXCEPT !.complete = TRUE, !.state = WithSources(@, fp)]
      \/ /\ Key \in DOMAIN checkpoints
         /\ Conclude(begun, checkpoints[Key])
      \/ pc' = "session" /\ run' = begun
  BY DEF Start
<1>3. fp \in Prints
  BY <1>1, FingerprintTyped DEF TypeInv
<1>4. Recovers(rec.state, rec.last) /\ rec.changed \in BOOLEAN
  <2> HIDE DEF rec
  <2> QED BY RecoveredKeeps DEF rec
<1> HIDE DEF fp, rec
<1>5. rec.state \in States /\ rec.last \in Boxes
  BY <1>4 DEF Recovers, Sound, Traced
<1>6. /\ Rendered(MarkOf(rec.state)) = "on" <=> MarkOf(rec.state) = "box"
      /\ Rendered(MarkOf(rec.state)) = "off" <=> MarkOf(rec.state) = "open"
  BY <1>5, ShownMark
<1>7. CASE pc' = "session" /\ run' = begun
  <2>1. run' \in Runs /\ run'.fp \in Prints /\ run'.state = rec.state /\ run'.last = rec.last
    BY <1>3, <1>4, <1>5, <1>7 DEF Runs
  <2>2. TypeInv'
    BY <1>1, <1>7, <2>1 DEF TypeInv
  <2>3. StateInv'
    BY <1>1, <1>4, <1>6, <1>7, <2>1 DEF StateInv, Continues, Recovers
  <2> QED BY <2>2, <2>3 DEF LifeInv
<1>8. CASE /\ pc' = "publish"
           /\ run' = [begun EXCEPT !.complete = TRUE, !.state = WithSources(@, fp)]
  <2> DEFINE c == WithSources(rec.state, fp)
  <2>1. Sound(c) /\ c.history = rec.state.history /\ MarkOf(c) = MarkOf(rec.state)
    <3> HIDE DEF c
    <3> QED BY <1>3, <1>4, SourcesKeep DEF Recovers, Sound, c
  <2>2. run' = [fp |-> fp, state |-> c, last |-> rec.last, complete |-> TRUE,
                changed |-> rec.changed]
    BY <1>8
  <2> HIDE DEF c
  <2>3. c \in States
    BY <2>1 DEF Sound, Traced
  <2>4. run' \in Runs /\ run'.fp \in Prints /\ run'.state = c /\ run'.last = rec.last
    BY <1>3, <1>4, <1>5, <2>2, <2>3 DEF Runs
  <2>5. Exists(c) <=> Exists(rec.state)
    BY <2>1 DEF Exists
  <2>6. Validated(rec.state) => Validated(c)
    BY <2>1 DEF Validated
  <2>7. \A k \in DOMAIN checkpoints' : /\ k.known \in BOOLEAN
                                       /\ Proper(checkpoints'[k], k.fp, k.known)
    BY <1>1 DEF TypeInv
  <2>8. /\ MarkOf(c) = "box" => rec.last = "on"
        /\ MarkOf(c) = "open" => rec.last # "on"
    BY <1>4, <1>6, <2>1 DEF Recovers
  <2>9. left' \in [Kinds -> Nat] /\ left'["edit"] <= left["edit"]
    BY <1>1 DEF TypeInv
  <2>10. /\ Exists(report.state) => Exists(c)
         /\ Grown(c.history, report.state.history)
         /\ Rendered(MarkOf(report.state)) # "nil" => rec.last # "nil"
         /\ ~persistent => Validated(c)
    BY <1>4, <2>1, <2>5, <2>6 DEF Recovers
  <2> QED BY <1>1, <1>8, <2>1, <2>4, <2>7, <2>8, <2>9, <2>10, ResultKeeps
<1>9. CASE Key \in DOMAIN checkpoints /\ Conclude(begun, checkpoints[Key])
  <2> DEFINE s == checkpoints[Key]
             c == WithSources(Reconcile(rec.state, s), fp)
  <2>1. persistent
    BY <1>1, <1>9, EmptyHistory DEF StateInv
  <2>2. Proper(s, fp, Exists(rec.state))
    <3>1. Key.fp = fp /\ Key.known = Exists(report.state)
      BY DEF Key, fp
    <3>2. Proper(s, Key.fp, Key.known)
      BY <1>1, <1>9 DEF TypeInv
    <3> HIDE DEF s
    <3> QED BY <1>4, <3>1, <3>2 DEF Recovers, Proper
  <2>3. /\ pc' = "publish"
        /\ run' = [fp |-> fp, state |-> c, last |-> rec.last, complete |-> s.complete,
                   changed |-> rec.changed]
    BY <1>9 DEF Conclude
  <2>4. /\ Sound(c) /\ c \in States
        /\ Exists(report.state) => Exists(c)
        /\ Grown(c.history, report.state.history)
    <3> HIDE DEF c, s
    <3> QED BY <1>3, <1>4, <2>1, <2>2, ConcludedState DEF c
  <2> HIDE DEF c
  <2>5. s.complete \in BOOLEAN
    BY <2>2 DEF Proper, SubmissionSet
  <2> HIDE DEF s
  <2>6. run' \in Runs /\ run'.fp \in Prints /\ run'.state = c /\ run'.last = rec.last
    BY <1>3, <1>4, <1>5, <2>3, <2>4, <2>5 DEF Runs
  <2>7. \A k \in DOMAIN checkpoints' : /\ k.known \in BOOLEAN
                                       /\ Proper(checkpoints'[k], k.fp, k.known)
    BY <1>1 DEF TypeInv
  <2>8. left' \in [Kinds -> Nat] /\ left'["edit"] <= left["edit"]
    BY <1>1 DEF TypeInv
  <2>9. Rendered(MarkOf(report.state)) # "nil" => rec.last # "nil"
    BY <1>4 DEF Recovers
  <2> QED BY <1>1, <2>1, <2>3, <2>4, <2>6, <2>7, <2>8, <2>9, ResultKeeps
<1> QED BY <1>2, <1>7, <1>8, <1>9

LEMMA SessionRecovers ==
  ASSUME LifeInv, pc = "session"
  PROVE  Recovers(run.state, run.last)
BY DEF LifeInv, TypeInv, StateInv, Continues, Recovers, Runs

LEMMA SubmitStep ==
  ASSUME LifeInv, pc = "session", NEW s \in Submissions(run.fp, run.state), Submit(s)
  PROVE  LifeInv'
<1> DEFINE c == WithSources(Reconcile(run.state, s), run.fp)
           key == [fp |-> run.fp, known |-> Exists(report.state)]
<1>1. /\ TypeInv /\ run.fp \in Prints /\ run \in Runs
      /\ UNCHANGED <<commit, notes, report, persistent>>
  BY DEF LifeInv, TypeInv, Submit
<1>2. Recovers(run.state, run.last)
  BY SessionRecovers
<1>3. /\ Proper(s, run.fp, Exists(run.state))
      /\ s.move # "none" => ValidTransition(s, run.fp, run.state)
  BY <1>1, SubmissionsProper
<1>4. pc' = "publish" /\ run' = [run EXCEPT !.state = c, !.complete = s.complete]
  BY DEF Submit, Conclude
<1>5. /\ Sound(c) /\ c \in States
      /\ Exists(report.state) => Exists(c)
      /\ Grown(c.history, report.state.history)
      /\ ~persistent => Validated(c)
      /\ ~persistent /\ MarkOf(c) = "box" => run.last = "on"
      /\ ~persistent /\ MarkOf(c) = "open" => run.last # "on"
  <2> HIDE DEF c
  <2> QED BY <1>1, <1>2, <1>3, ConcludedState DEF c
<1> HIDE DEF c
<1>6. run' \in Runs /\ run'.fp \in Prints /\ run'.state = c /\ run'.last = run.last
  <2>1. s.complete \in BOOLEAN
    BY <1>3 DEF Proper, SubmissionSet
  <2> QED BY <1>1, <1>4, <1>5, <2>1 DEF Runs
<1>7. \A k \in DOMAIN checkpoints' : /\ k.known \in BOOLEAN
                                     /\ Proper(checkpoints'[k], k.fp, k.known)
  <2>1. checkpoints' = IF s.complete THEN [k \in DOMAIN checkpoints \cup {key} |->
                                             IF k = key THEN s ELSE checkpoints[k]]
                                     ELSE checkpoints
    BY DEF Submit
  <2>2. key.known \in BOOLEAN /\ Proper(s, key.fp, key.known)
    BY <1>2, <1>3 DEF Recovers, Proper, Exists
  <2> HIDE DEF key
  <2>3. \A k \in DOMAIN checkpoints : k.known \in BOOLEAN /\ Proper(checkpoints[k], k.fp, k.known)
    BY <1>1 DEF TypeInv
  <2> QED BY <2>1, <2>2, <2>3
<1>8. left' \in [Kinds -> Nat] /\ left'["edit"] <= left["edit"]
  <2>1. /\ left' = [left EXCEPT !["submission"] = @ - 1,
                                !["fault"] = IF s.complete THEN @ ELSE @ - 1]
        /\ left'["submission"] >= 0 /\ left'["fault"] >= 0
    BY DEF Submit
  <2> QED BY <1>1, <2>1 DEF TypeInv, Kinds
<1>9. Rendered(MarkOf(report.state)) # "nil" => run.last # "nil"
  BY <1>2 DEF Recovers
<1> QED BY <1>1, <1>4, <1>5, <1>6, <1>7, <1>8, <1>9, ResultKeeps

LEMMA SessionFailsStep ==
  ASSUME LifeInv, SessionFails
  PROVE  LifeInv'
<1> DEFINE c == WithSources(run.state, run.fp)
<1>1. /\ TypeInv /\ pc = "session" /\ run.fp \in Prints /\ run \in Runs
      /\ UNCHANGED <<commit, notes, report, persistent, checkpoints>>
  BY DEF LifeInv, TypeInv, SessionFails
<1>2. Recovers(run.state, run.last) /\ run.state \in States
  BY <1>1, SessionRecovers DEF Runs
<1>3. Sound(c) /\ c.history = run.state.history /\ MarkOf(c) = MarkOf(run.state)
  <2> HIDE DEF c
  <2> QED BY <1>1, <1>2, SourcesKeep DEF Recovers, Sound, c
<1>4. pc' = "publish" /\ run' = [run EXCEPT !.state = c] /\ Spend("fault")
  BY DEF SessionFails
<1> HIDE DEF c
<1>5. run' \in Runs /\ run'.fp \in Prints /\ run'.state = c /\ run'.last = run.last
  BY <1>1, <1>3, <1>4 DEF Runs, Sound, Traced
<1>6. /\ Exists(report.state) => Exists(c)
      /\ Grown(c.history, report.state.history)
      /\ Rendered(MarkOf(report.state)) # "nil" => run.last # "nil"
      /\ ~persistent => Validated(c)
  BY <1>2, <1>3 DEF Recovers, Exists, Validated
<1>7. /\ MarkOf(c) = "box" => run.last = "on"
      /\ MarkOf(c) = "open" => run.last # "on"
  BY <1>2, <1>3, ShownMark DEF Recovers
<1>8. left' \in [Kinds -> Nat] /\ left'["edit"] <= left["edit"]
  BY <1>1, <1>4, SpendTyped DEF TypeInv, Kinds
<1>9. \A k \in DOMAIN checkpoints' : /\ k.known \in BOOLEAN
                                     /\ Proper(checkpoints'[k], k.fp, k.known)
  BY <1>1 DEF TypeInv
<1> QED BY <1>1, <1>3, <1>4, <1>5, <1>6, <1>7, <1>8, <1>9, ResultKeeps

LEMMA LifeNext == LifeInv /\ [Next]_vars => LifeInv'
<1> SUFFICES ASSUME LifeInv, [Next]_vars PROVE LifeInv'
  OBVIOUS
<1>1. CASE \E n \in Notes : Write(n) \/ Withdraw(n)
  BY <1>1, NotesStep
<1>2. CASE Push
  BY <1>2, PushStep
<1>3. CASE Click
  BY <1>3, ClickStep
<1>4. CASE Start
  BY <1>4, StartStep
<1>5. CASE /\ pc = "session" /\ left["submission"] > 0
           /\ \E s \in Submissions(run.fp, run.state) : Submit(s)
  BY <1>5, SubmitStep
<1>6. CASE SessionFails
  BY <1>6, SessionFailsStep
<1>7. CASE Publish
  BY <1>7, PublishStep
<1>8. CASE Stale
  BY <1>8, StaleStep
<1>9. CASE Fail
  BY <1>9, FailStep
<1>10. CASE UNCHANGED vars
  <2>1. TypeInv'
    BY <1>10 DEF LifeInv, TypeInv, vars
  <2> QED BY <1>10, <2>1, StateUnchanged DEF LifeInv, vars
<1> QED BY <1>1, <1>2, <1>3, <1>4, <1>5, <1>6, <1>7, <1>8, <1>9, <1>10
        DEF Next, RunStep, HumanStep

(* What a published report says of a finding, and the run that works on it *)
(* continues, holds in every state.                                        *)
THEOREM LifeInvariant == Spec => []LifeInv
BY LifeInit, LifeNext, PTL DEF Spec

-----------------------------------------------------------------------------
(* What follows.                                                           *)

(* The variables have their types: every event that enters a history is    *)
(* one of the kinds the format knows, by a method it knows.                *)
THEOREM LifeTypesCorrect == Spec => []TypeOK
<1>1. LifeInv => TypeOK
  BY DEF LifeInv, TypeInv, TypeOK, IsState, Reports, Runs, States
<1> QED BY <1>1, LifeInvariant, PTL

(* The history tells how the finding is acknowledged and how it was last   *)
(* assessed, also where checkpoints of another job are replayed.           *)
THEOREM HistoryCorrect == Spec => []HistoryExplainsState
<1>1. LifeInv => HistoryExplainsState
  <2> SUFFICES ASSUME Explained(report.state) PROVE HistoryExplainsState
    BY DEF LifeInv, StateInv, Sound, Traced
  <2> QED BY DEF Explained, HistoryExplainsState, MovesOf, ViewsOf, IsLast
<1> QED BY <1>1, LifeInvariant, PTL

(* Every note that the published history cites is stored with it.          *)
THEOREM SourcesCorrect == Spec => []SourcesKept
<1>1. LifeInv => SourcesKept
  BY DEF LifeInv, StateInv, Sound, Traced, Kept, SourcesKept
<1> QED BY <1>1, LifeInvariant, PTL

(* No source acknowledges twice, nor after a human has taken back an       *)
(* acknowledgement that came after it, where checkpoints die with the job. *)
THEOREM EvidenceCorrect == Spec => []FreshEvidence
<1>1. LifeInv => FreshEvidence
  BY DEF LifeInv, StateInv, Validated, Fresh, FreshEvidence
<1> QED BY <1>1, LifeInvariant, PTL

(* Publishing never overrules the box of the report it replaces, except    *)
(* where the click cannot be seen.                                         *)
LEMMA PublishRespectsClicks ==
  ASSUME LifeInv, Publish
  PROVE  LET d == report'.state
         IN /\ Grown(d.history, report.state.history)
            /\ ~persistent /\ report.box = "off" => ~Ticked(d.history)
            /\ ~persistent /\ report.box = "on" =>
                 \/ d.method = "checkbox" /\ Ticked(d.history)
                 \/ MarkOf(report.state) = "box" /\ MarkOf(d) = "ai"
<1> DEFINE d == report'.state
           old == MarkOf(report.state)
           now == MarkOf(run.state)
<1>1. pc = "publish" /\ d = WithControls(run.state, run.last, report).state
  BY DEF Publish
<1> HIDE DEF d
<1>2. /\ d \in States
      /\ Grown(d.history, report.state.history)
      /\ ~persistent => Validated(d)
      /\ IF IsClicked(run.state, run.last, report)
           THEN /\ MarkOf(d) = IF report.box = "on" THEN "box" ELSE "open"
                /\ Ticked(d.history) <=> report.box = "on"
           ELSE d = run.state
  BY <1>1, PublishedState
<1>3. /\ report.state \in States /\ run.state \in States
      /\ report.box = "nil" <=> Rendered(old) = "nil"
      /\ Exists(report.state) => Exists(run.state)
      /\ Rendered(old) # "nil" => run.last # "nil"
      /\ ~persistent => (now = "box" => run.last = "on") /\ (now = "open" => run.last # "on")
  BY <1>1 DEF LifeInv, TypeInv, StateInv, Continues, Reports, Runs
<1>4. /\ MarkOf(d) = "box" => d.method = "checkbox"
      /\ ~persistent => (Ticked(d.history) <=> MarkOf(d) = "box")
  BY <1>2, ShownMark DEF Validated
<1>5. CASE IsClicked(run.state, run.last, report)
  BY <1>2, <1>4, <1>5 DEF d
<1>6. CASE ~IsClicked(run.state, run.last, report)
  <2>1. d = run.state
    BY <1>2, <1>6
  <2>2. /\ Rendered(old) = "on" <=> old = "box"
        /\ old = "absent" <=> ~Exists(report.state)
        /\ now \in Marks /\ (now = "absent" <=> ~Exists(run.state))
        /\ Rendered("absent") = "nil"
    BY <1>3, ShownMark DEF Rendered
  <2>3. report.box # "nil" =>
          report.box = IF run.last = "nil" \/ now = "ai" THEN Rendered(old) ELSE run.last
    BY <1>3, <1>6, ClickMeaning
  <2> HIDE DEF old, now
  <2>4. ASSUME ~persistent, report.box = "off"
        PROVE  MarkOf(d) # "box"
    BY <1>3, <2>1, <2>2, <2>3, <2>4 DEF now
  <2>5. ASSUME ~persistent, report.box = "on"
        PROVE  \/ MarkOf(d) = "box"
               \/ old = "box" /\ MarkOf(d) = "ai"
    BY <1>3, <2>1, <2>2, <2>3, <2>5 DEF now, Marks
  <2> QED BY <1>2, <1>4, <2>4, <2>5 DEF d, old
<1> QED BY <1>5, <1>6

(* A human's click prevails over whatever AI proposed meanwhile, and the   *)
(* published history only grows.                                           *)
THEOREM ClicksPrevailCorrect == Spec => ClicksPrevail
<1>1. LifeInv /\ [Next]_vars =>
        [report'.state # report.state =>
           LET d == report'.state
           IN /\ Grown(d.history, report.state.history)
              /\ ~persistent /\ report.box = "off" => ~Ticked(d.history)
              /\ ~persistent /\ report.box = "on" =>
                   \/ d.method = "checkbox" /\ Ticked(d.history)
                   \/ MarkOf(report.state) = "box" /\ MarkOf(d) = "ai"]_vars
  <2> SUFFICES ASSUME LifeInv, Next, report'.state # report.state
               PROVE  Publish
    BY PublishRespectsClicks
  <2>1. ~(RunStep /\ ~Publish)
    BY DEF RunStep, Start, Submit, SessionFails, Stale, Fail
  <2>2. ~HumanStep
    BY DEF HumanStep, Write, Withdraw, Push, Click, LifeInv, TypeInv, Reports
  <2> QED BY <2>1, <2>2 DEF Next
<1> QED BY <1>1, LifeInvariant, PTL DEF Spec, ClicksPrevail
=============================================================================
