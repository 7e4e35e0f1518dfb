---------------------------- MODULE ReviewProofs ----------------------------
(***************************************************************************)
(* An approval is earned, and runs over the same content only collide by   *)
(* repeating partial sessions, for any merge request, any settings, and    *)
(* any number of changes, submissions, failures and runs.                  *)
(***************************************************************************)
EXTENDS ReviewRun, BatchingProofs, TLAPS

-----------------------------------------------------------------------------
(* The batches of a run.                                                   *)

(* The worklist is the same whether there are findings or not, unless it   *)
(* is empty.                                                               *)
LEMMA WorklistShape ==
  ASSUME NEW p \in Prints, NEW any \in BOOLEAN
  PROVE  LET w == Worklist(p, any)
         IN /\ w \in Seq(ToSet(w)) /\ (any => w # <<>>)
            /\ w = Worklist(p, TRUE) \/ w = <<>>
<1> DEFINE units == [i \in DOMAIN Inventory[p] |-> Listed(Inventory[p][i])]
           w == Worklist(p, any)
<1>1. Inventory[p] \in Seq(ToSet(Inventory[p]))
  BY ReviewRunAssumption
<1> DEFINE N == Len(Inventory[p])
<1>2. N \in Nat /\ DOMAIN Inventory[p] = 1 .. N
  BY <1>1, LenProperties
<1> HIDE DEF N
<1> DEFINE L == {Listed(Inventory[p][i]) : i \in 1 .. N}
<1>3. units \in Seq(L) /\ Len(units) = N
  <2>1. units \in [1 .. N -> L]
    BY <1>2
  <2> HIDE DEF units, L
  <2>2. units \in Seq(L)
    BY <1>2, <2>1, SeqDef
  <2> QED BY <1>2, <2>1, <2>2
<1> HIDE DEF L
<1> DEFINE A == L \cup {Integration(p), Reassessment(p)}
<1>4. units \in Seq(A)
  BY <1>3, SeqMonotonic
<1> HIDE DEF units
<1>5. Append(units, Integration(p)) \in Seq(A) /\ Append(units, Integration(p)) # <<>>
  BY <1>4
<1>6. Worklist(p, any) = IF units = <<>> /\ any THEN <<Reassessment(p)>>
                         ELSE WithIntegration(units, Integration(p), MaxUnits)
  BY DEF Worklist, units
<1>7. Worklist(p, TRUE) = IF units = <<>> THEN <<Reassessment(p)>>
                          ELSE WithIntegration(units, Integration(p), MaxUnits)
  BY DEF Worklist, units
<1>8. units = <<>> => WithIntegration(units, Integration(p), MaxUnits) = <<>>
  BY ReviewRunAssumption, EmptySeq DEF WithIntegration
<1>9. w \in Seq(A) /\ (any => w # <<>>) /\ (w = Worklist(p, TRUE) \/ w = <<>>)
  <2> HIDE DEF A
  <2>1. <<Reassessment(p)>> \in Seq(A) /\ <<Reassessment(p)>> # <<>>
    BY DEF A
  <2> QED BY <1>4, <1>5, <1>6, <1>7, <1>8, <2>1 DEF WithIntegration
<1> HIDE DEF w, A
<1>10. w \in Seq(ToSet(w))
  <2>1. Len(w) \in Nat /\ DOMAIN w = 1 .. Len(w) /\ w \in [1 .. Len(w) -> A]
    BY <1>9, LenProperties
  <2>2. w \in [1 .. Len(w) -> ToSet(w)]
    BY <2>1 DEF ToSet
  <2> QED BY <2>1, <2>2, SeqDef
<1> QED BY <1>9, <1>10 DEF w

LEMMA BatchesOfRun ==
  ASSUME NEW p \in Prints, NEW any \in BOOLEAN
  PROVE  LET w == Worklist(p, any)
             batches == BatchesAt[p][any]
         IN /\ batches \in Seq(Seq(ToSet(w))) /\ Apart(batches) /\ Assigned(batches) = ToSet(w)
            /\ batches # <<>> <=> w # <<>>
            /\ batches = BatchesAt[p][TRUE] \/ batches = <<>>
<1> DEFINE w == Worklist(p, any)
           batches == BatchesAt[p][any]
           S == ToSet(w)
<1>1. w \in Seq(S) /\ (w = Worklist(p, TRUE) \/ w = <<>>)
  BY WorklistShape
<1>2. batches = BatchUnits(w, <<>>, MaxUnits)
  BY DEF BatchesAt
<1>3. BatchesAt[p][TRUE] = BatchUnits(Worklist(p, TRUE), <<>>, MaxUnits)
  BY DEF BatchesAt
<1>4. MaxUnits \in Nat \ {0}
  BY ReviewRunAssumption
<1>5. DOMAIN <<>> = {} /\ 1 \in {1, 2}
  OBVIOUS
<1> HIDE DEF w
<1>6. SharedOut(BatchUnits(w, <<>>, MaxUnits), w, S, <<>>, MaxUnits)
  <2>1. \A u \in S : u \in DOMAIN <<>> => <<>>[u] \in S /\ 1 = 2
    BY <1>5
  <2> HIDE DEF S
  <2>2. ToSet(w) = S
    BY DEF S
  <2> QED BY <1>1, <1>4, <1>5, <2>1, <2>2, BatchesShape
<1> HIDE DEF batches, S
<1>7. batches \in Seq(Seq(S)) /\ Apart(batches)
  BY <1>2, <1>6 DEF SharedOut, Filled
<1>8. Assigned(batches) = S /\ (batches # <<>> <=> w # <<>>)
  BY <1>2, <1>6 DEF SharedOut
<1>9. batches = BatchesAt[p][TRUE] \/ batches = <<>>
  BY <1>1, <1>2, <1>3, <1>8
<1> QED BY <1>7, <1>8, <1>9 DEF w, batches, S

(* No unit is left out, and where there are findings there is a batch to   *)
(* judge them.                                                             *)
LEMMA BatchesCover ==
  \A p \in Prints :
    /\ 1 \in DOMAIN BatchesAt[p][TRUE]
    /\ \A any \in BOOLEAN : \A u \in ToSet(Worklist(p, FALSE)) :
         \E b \in DOMAIN BatchesAt[p][any] : u \in ToSet(BatchesAt[p][any][b])
<1> TAKE p \in Prints
<1>1. 1 \in DOMAIN BatchesAt[p][TRUE]
  <2> DEFINE B == BatchesAt[p][TRUE]
             S == ToSet(Worklist(p, TRUE))
  <2>1. B \in Seq(Seq(S)) /\ B # <<>>
    BY BatchesOfRun, WorklistShape
  <2> HIDE DEF B, S
  <2>2. Len(B) \in Nat \ {0} /\ DOMAIN B = 1 .. Len(B)
    BY <2>1, EmptySeq, LenProperties
  <2>3. 1 \in DOMAIN B
    BY <2>2
  <2> QED BY <2>3 DEF B
<1>2. ASSUME NEW any \in BOOLEAN, NEW u \in ToSet(Worklist(p, FALSE))
      PROVE  \E b \in DOMAIN BatchesAt[p][any] : u \in ToSet(BatchesAt[p][any][b])
  <2>1. Worklist(p, FALSE) # <<>>
    <3> DEFINE w == Worklist(p, FALSE)
    <3> HIDE DEF w
    <3>1. PICK i \in DOMAIN w : u = w[i]
      BY <1>2 DEF ToSet, w
    <3>2. w # <<>>
      BY <3>1
    <3> QED BY <3>2 DEF w
  <2>2. Worklist(p, any) = Worklist(p, FALSE)
    <3>1. Worklist(p, FALSE) = Worklist(p, TRUE)
      BY <2>1, WorklistShape
    <3> QED BY <3>1
  <2>3. u \in Assigned(BatchesAt[p][any])
    BY <1>2, <2>2, BatchesOfRun
  <2> QED BY <2>3 DEF Assigned
<1> QED BY <1>1, <1>2

(* No unit is in two batches; that there are findings only matters where   *)
(* there are no units.                                                     *)
LEMMA BatchesApart ==
  \A p \in Prints :
    /\ \A any \in BOOLEAN : BatchesAt[p][any] \in Seq(Seq(AllUnits))
    /\ \A b, c \in DOMAIN BatchesAt[p][TRUE] :
         ToSet(BatchesAt[p][TRUE][b]) \cap ToSet(BatchesAt[p][TRUE][c]) # {} => b = c
    /\ DOMAIN BatchesAt[p][FALSE] # {} => BatchesAt[p][FALSE] = BatchesAt[p][TRUE]
<1> TAKE p \in Prints
<1>1. ASSUME NEW any \in BOOLEAN PROVE BatchesAt[p][any] \in Seq(Seq(AllUnits))
  <2> DEFINE S == ToSet(Worklist(p, any))
  <2>1. BatchesAt[p][any] \in Seq(Seq(S))
    BY BatchesOfRun
  <2>2. S \subseteq AllUnits
    BY DEF AllUnits
  <2> HIDE DEF S
  <2>3. Seq(S) \subseteq Seq(AllUnits)
    BY <2>2, SeqMonotonic
  <2> QED BY <2>1, <2>3, SeqMonotonic
<1>2. ASSUME NEW b \in DOMAIN BatchesAt[p][TRUE], NEW c \in DOMAIN BatchesAt[p][TRUE],
             ToSet(BatchesAt[p][TRUE][b]) \cap ToSet(BatchesAt[p][TRUE][c]) # {}
      PROVE  b = c
  <2> DEFINE B == BatchesAt[p][TRUE]
  <2>1. Apart(B)
    BY BatchesOfRun
  <2> HIDE DEF B
  <2>2. ToSet(B[b]) \cap ToSet(B[c]) # {} /\ b \in DOMAIN B /\ c \in DOMAIN B
    BY <1>2 DEF B
  <2>3. PICK i \in DOMAIN B[b], j \in DOMAIN B[c] : B[b][i] = B[c][j]
    BY <2>2 DEF ToSet
  <2> QED BY <2>1, <2>2, <2>3, Zenon DEF Apart
<1>3. ASSUME DOMAIN BatchesAt[p][FALSE] # {} PROVE BatchesAt[p][FALSE] = BatchesAt[p][TRUE]
  <2>1. BatchesAt[p][FALSE] # <<>>
    <3> DEFINE B == BatchesAt[p][FALSE]
    <3>1. DOMAIN B # {}
      BY <1>3
    <3> HIDE DEF B
    <3>2. B # <<>>
      BY <3>1
    <3> QED BY <3>2 DEF B
  <2>2. FALSE \in BOOLEAN
    OBVIOUS
  <2>3. BatchesAt[p][FALSE] = BatchesAt[p][TRUE] \/ BatchesAt[p][FALSE] = <<>>
    BY <2>2, BatchesOfRun, Zenon
  <2> QED BY <2>1, <2>3
<1> QED BY <1>1, <1>2, <1>3

-----------------------------------------------------------------------------
(* The inductive invariants.                                               *)

(* What was assessed at a fingerprint.                                     *)
Earned(a, fp, units, findings) ==
  {fp} \X units \subseteq a.units /\ {fp} \X findings \subseteq a.findings

(* A result that says no more than what a session has assessed: it judges  *)
(* what it was asked to judge, and if it is complete it has assessed that. *)
Sound(a, fp, units, known, s) ==
  /\ DOMAIN s.judged \subseteq known
  /\ s.complete => Earned(a, fp, units, known \cup s.new)

CheckpointsInv ==
  \A key \in DOMAIN checkpoints :
    Sound(assessed, key.fp, key.units, key.known, checkpoints[key])

RunFields == {"fp", "draft", "batches", "known", "status", "result"}

(* A run has the batches of its fingerprint; every known finding is in one *)
(* of them, and the results it has taken over are sound.                   *)
RunInv ==
  /\ DOMAIN run = RunFields
  /\ run.fp \in Prints
  /\ run.batches = BatchesAt[run.fp][Known(run.draft.assess) # {}]
  /\ DOMAIN run.status = DOMAIN run.batches /\ DOMAIN run.result = DOMAIN run.batches
  /\ \A f \in Known(run.draft.assess) : \E b \in DOMAIN run.batches : f \in run.known[b]
  /\ \A b \in Applied :
       Sound(assessed, run.fp, ToSet(run.batches[b]), run.known[b], run.result[b])

ApprovalInv ==
  /\ mr \in Prints
  /\ ApprovalIsEarned
  /\ CheckpointsInv
  /\ pc = "sessions" => RunInv
  /\ pc # "sessions" => DOMAIN run.batches = {}

-----------------------------------------------------------------------------
(* What is assessed stays so.                                              *)
Grows == assessed.units \subseteq assessed'.units
           /\ assessed.findings \subseteq assessed'.findings

LEMMA SoundGrows ==
  ASSUME Grows, NEW fp, NEW units, NEW known, NEW s, Sound(assessed, fp, units, known, s)
  PROVE  Sound(assessed', fp, units, known, s)
  BY DEF Grows, Sound, Earned

LEMMA NoteStays ==
  ASSUME ApprovalIsEarned, Grows, note' = note
  PROVE  ApprovalIsEarned'
  BY DEF ApprovalIsEarned, Grows

(* A batch that moves to a status without a result.                        *)
LEMMA StatusFields ==
  ASSUME RunInv, NEW b \in DOMAIN run.batches, NEW status,
         status \notin {"reused", "accepted"},
         run' = [run EXCEPT !.status[b] = status]
  PROVE  /\ DOMAIN run' = RunFields /\ run'.fp = run.fp /\ run'.batches = run.batches
         /\ run'.draft = run.draft /\ run'.known = run.known /\ run'.result = run.result
         /\ run'.status = [run.status EXCEPT ![b] = status]
         /\ Applied' \subseteq Applied
<1>1. /\ DOMAIN run' = RunFields /\ run'.fp = run.fp /\ run'.batches = run.batches
      /\ run'.draft = run.draft /\ run'.known = run.known /\ run'.result = run.result
      /\ run'.status = [run.status EXCEPT ![b] = status]
  BY DEF RunInv, RunFields
<1>2. Applied' \subseteq Applied
  BY <1>1 DEF Applied, Having, RunInv
<1> QED BY <1>1, <1>2

(* A step that only moves a batch to a status without a result.            *)
LEMMA StatusStep ==
  ASSUME ApprovalInv, pc = "sessions", NEW b \in DOMAIN run.batches, NEW status,
         status \notin {"reused", "accepted"},
         run' = [run EXCEPT !.status[b] = status],
         UNCHANGED <<mr, note, checkpoints, pc, assessed>>
  PROVE  ApprovalInv'
<1>1. RunInv
  BY DEF ApprovalInv
<1>2. /\ DOMAIN run' = RunFields /\ run'.fp = run.fp /\ run'.batches = run.batches
      /\ run'.draft = run.draft /\ run'.known = run.known /\ run'.result = run.result
      /\ run'.status = [run.status EXCEPT ![b] = status]
      /\ Applied' \subseteq Applied
  BY <1>1, StatusFields
<1>3. RunInv'
  BY <1>1, <1>2 DEF RunInv
<1>4. ApprovalIsEarned' /\ CheckpointsInv'
  BY DEF ApprovalInv, ApprovalIsEarned, CheckpointsInv
<1> QED BY <1>3, <1>4 DEF ApprovalInv

(* The run ends, with its report as it was.                                *)
LEMMA EndStep ==
  ASSUME ApprovalInv, NEW result, EndRun(result), ApprovalIsEarned',
         UNCHANGED <<mr, assessed>>
  PROVE  ApprovalInv'
<1>1. CheckpointsInv'
  <2>1. CASE checkpoints' = checkpoints
    BY <2>1 DEF ApprovalInv, CheckpointsInv
  <2>2. CASE checkpoints' = <<>>
    BY <2>2 DEF CheckpointsInv
  <2> QED BY <2>1, <2>2 DEF EndRun
<1>2. pc' = "idle" /\ DOMAIN run'.batches = {}
  BY DEF EndRun, NoRun
<1> QED BY <1>1, <1>2 DEF ApprovalInv

LEMMA StartStep ==
  ASSUME ApprovalInv, Start
  PROVE  ApprovalInv'
<1> DEFINE draft   == note.draft
           batches == BatchesAt[mr][Known(draft.assess) # {}]
           known   == [b \in DOMAIN batches |->
                         {f \in Known(draft.assess) : BatchOf(draft.home[f], batches) = b}]
           key(b)  == AssignmentKey(mr, batches[b], known[b])
           missing == {b \in DOMAIN batches : ~Load(key(b))}
           status  == [b \in DOMAIN batches |->
                         IF b \notin missing THEN "reused"
                         ELSE IF b \in Budgeted(missing) THEN "waiting" ELSE "skipped"]
           result  == [b \in DOMAIN batches |->
                         IF b \in missing THEN NoResult ELSE checkpoints[key(b)]]
<1>1. run' = [fp |-> mr, draft |-> draft, batches |-> batches, known |-> known,
              status |-> status, result |-> result]
  BY DEF Start
<1>2. UNCHANGED <<mr, note, checkpoints, assessed>>
  BY DEF Start
<1>3. \A f \in Known(draft.assess) : \E b \in DOMAIN batches : f \in known[b]
  <2> SUFFICES ASSUME NEW f \in Known(draft.assess)
               PROVE  BatchOf(draft.home[f], batches) \in DOMAIN batches
    OBVIOUS
  <2>1. 1 \in DOMAIN batches
    <3>1. batches = BatchesAt[mr][TRUE] /\ mr \in Prints
      BY DEF ApprovalInv
    <3> QED BY <3>1, BatchesCover
  <2> QED BY <2>1 DEF BatchOf
<1>4. ASSUME NEW b \in DOMAIN batches, status[b] \in {"reused", "accepted"}
      PROVE  Sound(assessed, mr, ToSet(batches[b]), known[b], result[b])
  <2>1. b \notin missing
    BY <1>4
  <2>2. Load(key(b)) /\ result[b] = checkpoints[key(b)]
    BY <2>1
  <2>3. Sound(assessed, key(b).fp, key(b).units, key(b).known, checkpoints[key(b)])
    BY <2>2 DEF Load, ApprovalInv, CheckpointsInv
  <2> QED BY <2>2, <2>3 DEF AssignmentKey
<1>5. RunInv'
  <2> HIDE DEF draft, batches, known, status, result
  <2>1. /\ DOMAIN run' = RunFields /\ run'.fp = mr /\ run'.draft = draft
        /\ run'.batches = batches /\ run'.known = known /\ run'.status = status
        /\ run'.result = result
    BY <1>1 DEF RunFields
  <2>2. DOMAIN status = DOMAIN batches /\ DOMAIN result = DOMAIN batches
    BY DEF status, result
  <2>3. batches = BatchesAt[mr][Known(draft.assess) # {}] /\ mr \in Prints
    BY DEF batches, ApprovalInv
  <2>4. \A b \in Applied' : b \in DOMAIN batches /\ status[b] \in {"reused", "accepted"}
    BY <2>1 DEF Applied, Having
  <2> QED BY <1>2, <1>3, <1>4, <2>1, <2>2, <2>3, <2>4 DEF RunInv
<1>6. ApprovalIsEarned' /\ CheckpointsInv'
  BY <1>2 DEF ApprovalInv, ApprovalIsEarned, CheckpointsInv
<1>7. pc' = "sessions"
  BY DEF Start
<1> QED BY <1>2, <1>5, <1>6, <1>7 DEF ApprovalInv

(* An accepted submission is assessed and saved for what it was asked for. *)
LEMMA SubmitStep ==
  ASSUME ApprovalInv, pc = "sessions", NEW b \in DOMAIN run.batches, NEW s, Submit(b, s),
         DOMAIN s.judged \subseteq run.known[b]
  PROVE  ApprovalInv'
<1> DEFINE units == ToSet(run.batches[b])
           known == run.known[b]
<1>1. RunInv /\ UNCHANGED <<mr, note, pc>>
  BY DEF ApprovalInv, Submit
<1>2. Grows
  BY DEF Submit, Grows
<1>3. Sound(assessed', run.fp, units, known, s)
  BY DEF Submit, Sound, Earned
<1>4. /\ DOMAIN run' = RunFields /\ run'.fp = run.fp /\ run'.batches = run.batches
      /\ run'.draft = run.draft /\ run'.known = run.known
      /\ run'.status = [run.status EXCEPT ![b] = "accepted"]
      /\ run'.result = [run.result EXCEPT ![b] = s]
  BY <1>1 DEF Submit, RunInv, RunFields
<1>5. ASSUME NEW c \in Applied'
      PROVE  Sound(assessed', run.fp, ToSet(run.batches[c]), run.known[c], run'.result[c])
  <2>1. c \in DOMAIN run.batches
    BY <1>4 DEF Applied, Having
  <2>2. CASE c = b
    BY <1>1, <1>3, <1>4, <2>2 DEF RunInv
  <2>3. CASE c # b
    <3>1. c \in Applied /\ run'.result[c] = run.result[c]
      BY <1>1, <1>4, <2>1, <2>3 DEF Applied, Having, RunInv
    <3> QED BY <1>1, <1>2, <3>1, SoundGrows DEF RunInv
  <2> QED BY <2>2, <2>3
<1>6. RunInv'
  BY <1>1, <1>4, <1>5 DEF RunInv
<1>7. CheckpointsInv'
  <2> DEFINE key == AssignmentKey(run.fp, run.batches[b], run.known[b])
  <2>1. /\ DOMAIN checkpoints' = DOMAIN checkpoints \cup {key}
        /\ \A k \in DOMAIN checkpoints' :
             checkpoints'[k] = IF k = key THEN s ELSE checkpoints[k]
    BY DEF Submit, Save
  <2>2. key.fp = run.fp /\ key.units = units /\ key.known = known
    BY DEF AssignmentKey
  <2> HIDE DEF key
  <2>3. ASSUME NEW k \in DOMAIN checkpoints'
        PROVE  Sound(assessed', k.fp, k.units, k.known, checkpoints'[k])
    <3>1. CASE k = key
      BY <1>3, <2>1, <2>2, <3>1
    <3>2. CASE k # key
      <4>1. k \in DOMAIN checkpoints /\ checkpoints'[k] = checkpoints[k]
        BY <2>1, <3>2
      <4> QED BY <1>2, <4>1, SoundGrows DEF ApprovalInv, CheckpointsInv
    <3> QED BY <3>1, <3>2
  <2> QED BY <2>3 DEF CheckpointsInv
<1>8. ApprovalIsEarned'
  BY <1>1, <1>2, NoteStays DEF ApprovalInv
<1> QED BY <1>1, <1>6, <1>7, <1>8 DEF ApprovalInv

(* Every finding of the new report was judged, raised, or known, and is in *)
(* a batch that is complete.                                               *)
LEMMA AllFindingsAssessed ==
  ASSUME RunInv, Complete
  PROVE  {run.fp} \X Known(Reconciled.assess) \subseteq assessed.findings
<1> SUFFICES ASSUME NEW f \in Known(Reconciled.assess)
             PROVE  <<run.fp, f>> \in assessed.findings
  OBVIOUS
<1>1. \A b \in DOMAIN run.batches :
        /\ Earned(assessed, run.fp, ToSet(run.batches[b]), run.known[b] \cup run.result[b].new)
        /\ DOMAIN run.result[b].judged \subseteq run.known[b]
  BY DEF RunInv, Complete, Sound
<1>2. f \in Findings /\ Reconciled.assess[f] # "none"
  BY DEF Known
<1>3. CASE \E b \in Applied : f \in run.result[b].new \cup DOMAIN run.result[b].judged
  BY <1>1, <1>3 DEF Applied, Having, Earned
<1>4. CASE ~\E b \in Applied : f \in run.result[b].new \cup DOMAIN run.result[b].judged
  <2>1. Reconciled.assess[f] = run.draft.assess[f]
    BY <1>2, <1>4 DEF Reconciled
  <2>2. f \in Known(run.draft.assess)
    BY <1>2, <2>1 DEF Known
  <2> QED BY <1>1, <2>2 DEF RunInv, Earned
<1> QED BY <1>3, <1>4

LEMMA AllUnitsAssessed ==
  ASSUME RunInv, Complete
  PROVE  {run.fp} \X ToSet(Worklist(run.fp, FALSE)) \subseteq assessed.units
<1> DEFINE units == ToSet(Worklist(run.fp, FALSE))
<1>1. ASSUME NEW u \in units
      PROVE  <<run.fp, u>> \in assessed.units
  <2>1. PICK b \in DOMAIN run.batches : u \in ToSet(run.batches[b])
    BY BatchesCover DEF RunInv
  <2>2. b \in Applied /\ run.result[b].complete
    BY DEF Complete
  <2> QED BY <2>1, <2>2 DEF RunInv, Sound, Earned
<1> HIDE DEF units
<1>2. {run.fp} \X units \subseteq assessed.units
  BY <1>1
<1> QED BY <1>2 DEF units

LEMMA PublishStep ==
  ASSUME ApprovalInv, Publish
  PROVE  ApprovalInv'
<1> DEFINE new == Reconciled
<1>1. note' = [fp |-> run.fp, complete |-> Complete, approved |-> DeriveVerdict(new), draft |-> new]
  BY DEF Publish
<1>2. RunInv /\ UNCHANGED <<mr, assessed>> /\ EndRun("ok")
  BY DEF Publish, AllEnded, ApprovalInv
<1>3. DeriveVerdict(new) =>
        /\ {run.fp} \X ToSet(Worklist(run.fp, FALSE)) \subseteq assessed.units
        /\ {run.fp} \X Known(new.assess) \subseteq assessed.findings
        /\ \A f \in Gating \cap Known(new.assess) : new.assess[f] # "present"
  BY <1>2, AllFindingsAssessed, AllUnitsAssessed DEF DeriveVerdict
<1>4. ApprovalIsEarned'
  <2> HIDE DEF new
  <2>1. PICK fp : fp = run.fp
    OBVIOUS
  <2>2. PICK draft : draft = new
    OBVIOUS
  <2>3. note'.fp = fp /\ note'.draft = draft /\ note'.approved = DeriveVerdict(new)
    BY <1>1, <2>1, <2>2
  <2> QED BY <1>2, <1>3, <2>1, <2>2, <2>3 DEF ApprovalIsEarned
<1> QED BY <1>2, <1>4, EndStep

LEMMA ApprovalInit == Init => ApprovalInv
  BY DEF Init, ApprovalInv, ApprovalIsEarned, CheckpointsInv, NoRun

LEMMA ApprovalInductive == ApprovalInv /\ [Next]_vars => ApprovalInv'
<1> SUFFICES ASSUME ApprovalInv, [Next]_vars PROVE ApprovalInv'
  OBVIOUS
<1>1. ASSUME UNCHANGED <<note, checkpoints, pc, run, assessed>>, mr' \in Prints
      PROVE  ApprovalInv'
  BY <1>1 DEF ApprovalInv, ApprovalIsEarned, CheckpointsInv, RunInv, Applied, Having
<1>2. CASE RunUnchanged \/ Change \/ UNCHANGED vars
  <2>1. mr' \in Prints /\ UNCHANGED <<note, checkpoints, pc, run, assessed>>
    BY <1>2 DEF RunUnchanged, Change, vars, ApprovalInv
  <2> QED BY <1>1, <2>1
<1>3. CASE Start
  BY <1>3, StartStep
<1>4. CASE \E b \in DOMAIN run.batches : SessionStep(b) \/ SessionFails(b)
  <2>1. PICK b \in DOMAIN run.batches : SessionStep(b) \/ SessionFails(b)
    BY <1>4
  <2>2. pc = "sessions"
    BY <2>1 DEF ApprovalInv
  <2>3. CASE EnterSession(b) \/ OutOfSubmissions(b) \/ SessionFails(b)
    <3>1. PICK status \in {"running", "failed", "unsaved"} :
            run' = [run EXCEPT !.status[b] = status]
      BY <2>3 DEF EnterSession, OutOfSubmissions, SessionFails
    <3>2. UNCHANGED <<mr, note, checkpoints, pc, assessed>>
      BY <2>3 DEF EnterSession, OutOfSubmissions, SessionFails
    <3> QED BY <2>2, <3>1, <3>2, StatusStep
  <2>4. ASSUME NEW s, s.judged \in Judged(b), Submit(b, s)
        PROVE  ApprovalInv'
    <3>1. DOMAIN s.judged \subseteq run.known[b]
      BY <2>4 DEF Judged
    <3> QED BY <2>2, <2>4, <3>1, SubmitStep
  <2>5. CASE SessionStep(b) /\ ~(EnterSession(b) \/ OutOfSubmissions(b))
    <3>1. PICK s : s.judged \in Judged(b) /\ Submit(b, s)
      BY <2>5 DEF SessionStep
    <3> QED BY <2>4, <3>1
  <2> QED BY <2>1, <2>3, <2>5
<1>5. CASE Publish
  BY <1>5, PublishStep
<1>6. CASE FinishFailed \/ Fail
  <2>1. PICK result : EndRun(result)
    BY <1>6 DEF FinishFailed, Fail
  <2>2. UNCHANGED <<mr, note, assessed>>
    BY <1>6 DEF FinishFailed, Fail
  <2> QED BY <2>1, <2>2, EndStep DEF ApprovalInv, ApprovalIsEarned
<1> QED
  BY <1>2, <1>3, <1>4, <1>5, <1>6 DEF Next, RunStep

(* An approval rests on complete sessions for every unit and on a          *)
(* judgement of every known finding at the content it was given for.       *)
THEOREM ApprovalCorrect == Spec => []ApprovalIsEarned
<1>1. ApprovalInv => ApprovalIsEarned
  BY DEF ApprovalInv
<1> QED BY <1>1, ApprovalInit, ApprovalInductive, PTL DEF Spec

-----------------------------------------------------------------------------
(* While the content of the merge request stays the same, only a partial   *)
(* session that repeats an earlier one collides with it.                   *)

Untouched == left["change"] = MaxChanges

All == BatchesAt[mr][TRUE]

(* The IDs of what a result raises are digests of this result.             *)
Given(ids, s, units) ==
  \A f \in s.new : f \in DOMAIN ids /\ ids[f] = [units |-> units, submission |-> s]

(* What is raised or judged is placed in the batch; a complete result has  *)
(* judged what it was asked to.                                            *)
Answers(s, units, known) ==
  /\ s.new \cup DOMAIN s.judged # {} => s.at \in units
  /\ s.complete => known \subseteq DOMAIN s.judged

(* An ID is a digest of a submission to one of the batches, which cannot   *)
(* judge the finding it raises, for it would hold its own digest.          *)
RaisedInv ==
  \A f \in DOMAIN raised :
    /\ \E c \in DOMAIN All : raised[f].units = ToSet(All[c])
    /\ f \notin DOMAIN raised[f].submission.judged

(* A known finding is in a unit of the batch that raised it; so whoever    *)
(* reviews this batch again asks for it, and looks for its checkpoint      *)
(* under another key.                                                      *)
Homes(draft) ==
  \A f \in Known(draft.assess) : f \in DOMAIN raised /\ draft.home[f] \in raised[f].units

StoredInv ==
  \A key \in DOMAIN checkpoints :
    /\ key.fp = mr
    /\ Given(raised, checkpoints[key], key.units)
    /\ Answers(checkpoints[key], key.units, key.known)

ResultsInv ==
  /\ run.draft = note.draft /\ run.fp = mr
  /\ \A b \in DOMAIN run.batches :
       run.known[b] = {f \in Known(run.draft.assess) :
                         BatchOf(run.draft.home[f], run.batches) = b}
  /\ \A b \in Applied :
       /\ Given(raised, run.result[b], ToSet(run.batches[b]))
       /\ Answers(run.result[b], ToSet(run.batches[b]), run.known[b])
       /\ run.status[b] = "reused" => run.result[b].complete

QuietInv ==
  /\ left \in [Kinds -> Nat] /\ left["change"] <= MaxChanges
  /\ Untouched => /\ RaisedInv /\ StoredInv /\ Homes(note.draft)
                  /\ pc = "sessions" => ResultsInv

LEMMA BatchFound ==
  ASSUME NEW p \in Prints, NEW b \in DOMAIN BatchesAt[p][TRUE],
         NEW u \in ToSet(BatchesAt[p][TRUE][b])
  PROVE  BatchOf(u, BatchesAt[p][TRUE]) = b
<1> DEFINE B == BatchesAt[p][TRUE]
<1>1. \A c \in DOMAIN B : u \in ToSet(B[c]) => c = b
  <2>1. \A c \in DOMAIN B : ToSet(B[b]) \cap ToSet(B[c]) # {} => b = c
    BY BatchesApart
  <2>2. u \in ToSet(B[b]) /\ b \in DOMAIN B
    OBVIOUS
  <2> HIDE DEF B
  <2> QED BY <2>1, <2>2
<1> HIDE DEF B
<1> QED BY <1>1 DEF BatchOf, B

LEMMA SameBatches ==
  ASSUME NEW p \in Prints, NEW any \in BOOLEAN, DOMAIN BatchesAt[p][any] # {}
  PROVE  BatchesAt[p][any] = BatchesAt[p][TRUE]
<1>1. CASE any = TRUE
  BY <1>1
<1>2. CASE any = FALSE
  BY <1>2, BatchesApart
<1> QED BY <1>1, <1>2

LEMMA QuietInitially == Init => QuietInv
<1> SUFFICES ASSUME Init PROVE QuietInv
  OBVIOUS
<1>1. /\ {MaxChanges, MaxFaults, MaxSubmissions} \subseteq Nat
      /\ left = [k \in Kinds |-> CASE k = "change" -> MaxChanges
                                   [] k = "fault" -> MaxFaults [] OTHER -> MaxSubmissions]
  BY ReviewRunAssumption DEF ReviewRunAssumption, Init
<1>2. left \in [Kinds -> Nat] /\ left["change"] <= MaxChanges
  BY <1>1 DEF Kinds
<1>3. Known(note.draft.assess) = {}
  BY DEF Init, NoDraft, Known
<1>4. pc = "idle" /\ DOMAIN checkpoints = {} /\ DOMAIN raised = {}
  BY DEF Init
<1> QED BY <1>2, <1>3, <1>4 DEF QuietInv, StoredInv, Homes, RaisedInv

(* A step that neither stores nor publishes nor raises.                    *)
LEMMA QuietStatus ==
  ASSUME ApprovalInv, QuietInv, pc = "sessions", NEW b \in DOMAIN run.batches, NEW status,
         status \notin {"reused", "accepted"},
         run' = [run EXCEPT !.status[b] = status],
         left' \in [Kinds -> Nat], left'["change"] = left["change"],
         UNCHANGED <<mr, note, checkpoints, pc, raised>>
  PROVE  QuietInv'
<1>1. RunInv
  BY DEF ApprovalInv
<1>2. /\ run'.fp = run.fp /\ run'.batches = run.batches /\ run'.draft = run.draft
      /\ run'.known = run.known /\ run'.result = run.result /\ Applied' \subseteq Applied
      /\ run'.status = [run.status EXCEPT ![b] = status]
  BY <1>1, StatusFields
<1>3. ASSUME NEW c \in Applied', run'.status[c] = "reused" PROVE run.status[c] = "reused"
  BY <1>1, <1>2, <1>3 DEF RunInv
<1>4. ResultsInv => ResultsInv'
  BY <1>2, <1>3 DEF ResultsInv, Given
<1>5. /\ StoredInv' = StoredInv /\ Homes(note.draft)' = Homes(note.draft)
      /\ RaisedInv' = RaisedInv
  BY DEF StoredInv, Given, All, Homes, RaisedInv
<1> QED BY <1>4, <1>5 DEF QuietInv, Untouched

LEMMA QuietStart ==
  ASSUME ApprovalInv, QuietInv, Start
  PROVE  QuietInv'
<1> DEFINE draft   == note.draft
           batches == BatchesAt[mr][Known(draft.assess) # {}]
           known   == [b \in DOMAIN batches |->
                         {f \in Known(draft.assess) : BatchOf(draft.home[f], batches) = b}]
           key(b)  == AssignmentKey(mr, batches[b], known[b])
           missing == {b \in DOMAIN batches : ~Load(key(b))}
           status  == [b \in DOMAIN batches |->
                         IF b \notin missing THEN "reused"
                         ELSE IF b \in Budgeted(missing) THEN "waiting" ELSE "skipped"]
           result  == [b \in DOMAIN batches |->
                         IF b \in missing THEN NoResult ELSE checkpoints[key(b)]]
<1>1. run' = [fp |-> mr, draft |-> draft, batches |-> batches, known |-> known,
              status |-> status, result |-> result]
  BY DEF Start
<1>2. UNCHANGED <<mr, note, checkpoints, left, raised>>
  BY DEF Start
<1>3. SUFFICES ASSUME Untouched
               PROVE  RaisedInv' /\ StoredInv' /\ Homes(note.draft)' /\ ResultsInv'
  BY <1>2 DEF QuietInv, Untouched
<1>4. RaisedInv /\ StoredInv /\ Homes(draft)
  BY <1>3 DEF QuietInv
<1>5. ASSUME NEW b \in DOMAIN batches, status[b] \in {"reused", "accepted"}
      PROVE  /\ Given(raised, result[b], ToSet(batches[b]))
             /\ Answers(result[b], ToSet(batches[b]), known[b])
             /\ result[b].complete
  <2>1. b \notin missing
    BY <1>5
  <2>2. key(b) \in DOMAIN checkpoints /\ result[b] = checkpoints[key(b)]
        /\ checkpoints[key(b)].complete
    BY <2>1 DEF Load
  <2>3. key(b).units = ToSet(batches[b]) /\ key(b).known = known[b]
    BY DEF AssignmentKey
  <2> HIDE DEF draft, batches, known, key, missing, status, result
  <2> QED BY <1>4, <2>2, <2>3 DEF StoredInv
<1> HIDE DEF draft, batches, known, missing, status, result
<1>6. /\ run'.fp = mr /\ run'.draft = draft /\ run'.batches = batches /\ run'.known = known
      /\ run'.status = status /\ run'.result = result
  BY <1>1
<1>7. \A b \in Applied' : b \in DOMAIN batches /\ status[b] \in {"reused", "accepted"}
  BY <1>6 DEF Applied, Having
<1>8. \A b \in DOMAIN batches :
        known[b] = {f \in Known(draft.assess) : BatchOf(draft.home[f], batches) = b}
  BY DEF known
<1>9. ResultsInv'
  BY <1>2, <1>5, <1>6, <1>7, <1>8 DEF ResultsInv, Given, draft
<1>10. RaisedInv' /\ StoredInv' /\ Homes(note.draft)'
  BY <1>2, <1>4 DEF RaisedInv, StoredInv, Given, All, Homes, draft
<1> QED BY <1>9, <1>10

(* A new finding is under an ID that is a digest of this submission, new   *)
(* or not.                                                                 *)
LEMMA QuietSubmit ==
  ASSUME ApprovalInv, QuietInv, pc = "sessions", NEW b \in DOMAIN run.batches, NEW s,
         Submit(b, s), DOMAIN s.judged \subseteq run.known[b]
  PROVE  QuietInv'
<1> DEFINE units == ToSet(run.batches[b])
           known == run.known[b]
           key   == AssignmentKey(run.fp, run.batches[b], run.known[b])
<1>1. RunInv /\ mr \in Prints /\ UNCHANGED <<mr, note, pc>>
  BY DEF ApprovalInv, Submit
<1>2. /\ run'.fp = run.fp /\ run'.batches = run.batches
      /\ run'.draft = run.draft /\ run'.known = run.known
      /\ run'.status = [run.status EXCEPT ![b] = "accepted"]
      /\ run'.result = [run.result EXCEPT ![b] = s]
  BY <1>1 DEF Submit, RunInv, RunFields
<1>3. left' \in [Kinds -> Nat] /\ left'["change"] = left["change"]
  <2>1. left' = [left EXCEPT !["submission"] = @ - 1,
                             !["fault"] = IF s.complete THEN @ ELSE @ - 1]
        /\ left'["submission"] >= 0 /\ left'["fault"] >= 0
    BY DEF Submit
  <2>2. left["submission"] \in Nat /\ left["fault"] \in Nat /\ left["change"] \in Nat
        /\ DOMAIN left = Kinds
    BY DEF QuietInv, Kinds
  <2>3. /\ left'["submission"] = left["submission"] - 1 /\ left'["change"] = left["change"]
        /\ left'["fault"] = IF s.complete THEN left["fault"] ELSE left["fault"] - 1
        /\ left' = [k \in Kinds |-> left'[k]]
    BY <2>1, <2>2 DEF Kinds
  <2>4. \A k \in Kinds : left'[k] \in Nat
    BY <2>1, <2>2, <2>3 DEF Kinds
  <2> QED BY <2>3, <2>4
<1>4. SUFFICES ASSUME Untouched
               PROVE  RaisedInv' /\ StoredInv' /\ Homes(note.draft)' /\ ResultsInv'
  BY <1>1, <1>3 DEF QuietInv, Untouched
<1>5. RaisedInv /\ StoredInv /\ Homes(note.draft) /\ ResultsInv
  BY <1>4 DEF QuietInv
<1>6. /\ \A f \in s.new \cap DOMAIN raised : raised[f] = [units |-> units, submission |-> s]
      /\ Answers(s, units, known)
  BY DEF Submit, IsSubmission, Content, Answers
<1>7. run.batches = All /\ run.fp = mr /\ known \subseteq DOMAIN raised
  <2>1. run.fp = mr /\ run.draft = note.draft /\ known \subseteq Known(run.draft.assess)
    BY <1>5 DEF ResultsInv
  <2>2. run.batches = All
    BY <1>1, <2>1, SameBatches DEF RunInv, All
  <2> QED BY <1>5, <2>1, <2>2 DEF Homes
<1>8. key.fp = mr /\ key.units = units
  BY <1>7 DEF AssignmentKey
<1>9. /\ DOMAIN checkpoints' = DOMAIN checkpoints \cup {key}
      /\ \A k \in DOMAIN checkpoints' : checkpoints'[k] = IF k = key THEN s ELSE checkpoints[k]
      /\ key.known = known
  BY DEF Submit, Save, AssignmentKey
<1>10. /\ DOMAIN raised' = DOMAIN raised \cup s.new
       /\ \A f \in DOMAIN raised : raised'[f] = raised[f]
       /\ \A f \in s.new : raised'[f] = [units |-> units, submission |-> s]
  <2>1. raised' = [f \in DOMAIN raised \cup s.new |->
                     IF f \in DOMAIN raised THEN raised[f]
                     ELSE [units |-> units, submission |-> s]]
    BY DEF Submit, Content
  <2> QED BY <1>6, <2>1
<1>11. units = ToSet(All[b]) /\ b \in DOMAIN All
  BY <1>7
<1>12. ASSUME NEW r, NEW u, Given(raised, r, u) PROVE Given(raised', r, u)
  BY <1>10, <1>12 DEF Given
<1>13. Given(raised', s, units)
  BY <1>10 DEF Given, units
<1> HIDE DEF units, known, key
<1>14. RaisedInv'
  <2> SUFFICES ASSUME NEW f \in DOMAIN raised'
               PROVE  /\ \E c \in DOMAIN All : raised'[f].units = ToSet(All[c])
                      /\ f \notin DOMAIN raised'[f].submission.judged
    BY <1>1 DEF RaisedInv, All
  <2>1. CASE f \in DOMAIN raised
    BY <1>5, <1>10, <2>1 DEF RaisedInv
  <2>2. CASE f \notin DOMAIN raised
    <3>1. f \in s.new /\ raised'[f] = [units |-> units, submission |-> s]
      BY <1>10, <2>2
    <3>2. f \notin DOMAIN s.judged
      BY <1>7, <2>2 DEF known
    <3> QED BY <1>11, <3>1, <3>2
  <2> QED BY <2>1, <2>2
<1>15. StoredInv'
  <2>1. ASSUME NEW k \in DOMAIN checkpoints'
        PROVE  /\ k.fp = mr
               /\ Given(raised', checkpoints'[k], k.units)
               /\ Answers(checkpoints'[k], k.units, k.known)
    <3>1. CASE k = key
      <4>1. checkpoints'[k] = s /\ k.units = units /\ k.known = known /\ k.fp = mr
        BY <1>8, <1>9, <3>1
      <4>2. Given(raised', checkpoints'[k], k.units)
        BY <1>1, <1>13, <4>1 DEF Given, units
      <4> QED BY <1>6, <4>1, <4>2
    <3>2. CASE k # key
      <4>1. k \in DOMAIN checkpoints /\ checkpoints'[k] = checkpoints[k]
        BY <1>9, <3>2
      <4>2. k.fp = mr /\ Given(raised, checkpoints[k], k.units)
            /\ Answers(checkpoints[k], k.units, k.known)
        BY <1>5, <4>1 DEF StoredInv
      <4>3. Given(raised', checkpoints'[k], k.units)
        BY <1>10, <4>1, <4>2 DEF Given
      <4> QED BY <4>1, <4>2, <4>3
    <3> QED BY <3>1, <3>2
  <2> QED BY <1>1, <2>1 DEF StoredInv, Given
<1>16. Homes(note.draft)'
  BY <1>1, <1>5, <1>10 DEF Homes
<1>17. ResultsInv'
  <2>1. ASSUME NEW c \in Applied'
        PROVE  /\ Given(raised', run'.result[c], ToSet(run.batches[c]))
               /\ Answers(run'.result[c], ToSet(run.batches[c]), run.known[c])
               /\ run'.status[c] = "reused" => run'.result[c].complete
    <3>1. c \in DOMAIN run.batches
      BY <1>2 DEF Applied, Having
    <3>2. CASE c = b
      <4>1. run'.result[c] = s /\ run'.status[c] = "accepted"
        BY <1>1, <1>2, <3>2 DEF RunInv
      <4>2. Given(raised', run'.result[c], ToSet(run.batches[c]))
        BY <1>2, <1>10, <3>2, <4>1 DEF Given, units
      <4> QED BY <1>6, <3>2, <4>1, <4>2 DEF units, known
    <3>3. CASE c # b
      <4>1. c \in Applied /\ run'.result[c] = run.result[c] /\ run'.status[c] = run.status[c]
        BY <1>1, <1>2, <3>1, <3>3 DEF Applied, Having, RunInv
      <4>2. Given(raised, run.result[c], ToSet(run.batches[c]))
        BY <1>5, <4>1 DEF ResultsInv
      <4>3. Given(raised', run'.result[c], ToSet(run.batches[c]))
        BY <1>2, <1>10, <4>1, <4>2 DEF Given
      <4> QED BY <1>5, <4>1, <4>3 DEF ResultsInv
    <3> QED BY <3>2, <3>3
  <2>2. /\ run.draft = note.draft /\ run.fp = mr
        /\ \A c \in DOMAIN run.batches :
             run.known[c] = {f \in Known(run.draft.assess) :
                               BatchOf(run.draft.home[f], run.batches) = c}
    BY <1>5 DEF ResultsInv
  <2> QED BY <1>1, <1>2, <2>1, <2>2 DEF ResultsInv, Given
<1> QED BY <1>14, <1>15, <1>16, <1>17

(* The run ends, with a report that is new or not.                         *)
LEMMA QuietEnd ==
  ASSUME QuietInv, NEW result, EndRun(result), left' \in [Kinds -> Nat],
         left'["change"] = left["change"], UNCHANGED <<mr, raised>>,
         Untouched => Homes(note'.draft)
  PROVE  QuietInv'
<1>1. Untouched' = Untouched /\ pc' = "idle"
  BY DEF Untouched, EndRun
<1>2. checkpoints' = checkpoints \/ DOMAIN checkpoints' = {}
  BY DEF EndRun
<1>3. (StoredInv => StoredInv') /\ RaisedInv' = RaisedInv
  BY <1>2 DEF StoredInv, Given, RaisedInv, All
<1>4. Homes(note'.draft) => Homes(note.draft)'
  BY DEF Homes
<1> QED BY <1>1, <1>3, <1>4 DEF QuietInv

(* A result that collides has raised a finding of its own batch, which the *)
(* batch was asked to judge; had it been complete, it would have.          *)
LEMMA OnlyPartialCollides ==
  ASSUME ApprovalInv, QuietInv, AllEnded, Untouched, NEW b \in Applied, Collides(b)
  PROVE  run.status[b] = "accepted" /\ ~run.result[b].complete
<1>1. RaisedInv /\ Homes(run.draft) /\ ResultsInv /\ RunInv /\ mr \in Prints
  BY DEF QuietInv, AllEnded, ResultsInv, ApprovalInv
<1>2. b \in DOMAIN run.batches /\ run.status[b] \in {"reused", "accepted"}
  BY DEF Applied, Having
<1>3. run.batches = All
  <2>1. run.fp = mr /\ DOMAIN run.batches # {}
    BY <1>1, <1>2 DEF ResultsInv
  <2> QED BY <1>1, <2>1, SameBatches DEF RunInv, All
<1>4. PICK f \in run.result[b].new :
        \/ f \in Known(run.draft.assess)
        \/ \E c \in Applied : c < b /\ f \in run.result[c].new
  BY DEF Collides
<1>5. f \in DOMAIN raised
      /\ raised[f] = [units |-> ToSet(run.batches[b]), submission |-> run.result[b]]
  BY <1>1, <1>4 DEF ResultsInv, Given
<1>6. CASE f \in Known(run.draft.assess)
  <2>1. run.draft.home[f] \in ToSet(run.batches[b])
    BY <1>1, <1>5, <1>6 DEF Homes
  <2>2. BatchOf(run.draft.home[f], run.batches) = b
    BY <1>1, <1>2, <1>3, <2>1, BatchFound DEF All
  <2>3. f \in run.known[b]
    BY <1>1, <1>2, <1>6, <2>2 DEF ResultsInv
  <2>4. f \notin DOMAIN run.result[b].judged
    BY <1>1, <1>5 DEF RaisedInv
  <2>5. ~run.result[b].complete
    BY <1>1, <2>3, <2>4 DEF ResultsInv, Answers
  <2> QED BY <1>1, <1>2, <2>5 DEF ResultsInv
<1>7. CASE \E c \in Applied : c < b /\ f \in run.result[c].new
  <2>1. PICK c \in Applied : c < b /\ f \in run.result[c].new
    BY <1>7
  <2>2. c \in DOMAIN All /\ b \in DOMAIN All /\ b \in Nat /\ c \in Nat
    <3>1. All \in Seq(Seq(AllUnits))
      BY <1>1, BatchesApart DEF All
    <3> HIDE DEF All
    <3>2. DOMAIN All \subseteq Nat
      BY <3>1, LenProperties
    <3> QED BY <1>2, <1>3, <2>1, <3>2 DEF Applied, Having
  <2>3. raised[f].units = ToSet(run.batches[c])
    <3>1. Given(raised, run.result[c], ToSet(run.batches[c]))
      BY <1>1, <2>1 DEF ResultsInv
    <3>2. raised[f] = [units |-> ToSet(run.batches[c]), submission |-> run.result[c]]
      BY <2>1, <3>1 DEF Given
    <3> QED BY <3>2
  <2>4. run.result[b].at \in ToSet(run.batches[b])
    BY <1>1, <1>4 DEF ResultsInv, Answers
  <2>5. ToSet(All[b]) \cap ToSet(All[c]) # {}
    BY <1>3, <1>5, <2>3, <2>4
  <2>6. b = c
    BY <1>1, <2>2, <2>5, BatchesApart DEF All
  <2> QED BY <2>1, <2>2, <2>6
<1> QED BY <1>4, <1>6, <1>7

(* What is judged stays in its batch, and what is raised comes into the    *)
(* batch that raised it.                                                   *)
LEMMA QuietPublish ==
  ASSUME ApprovalInv, QuietInv, Publish
  PROVE  QuietInv'
<1> DEFINE new     == Reconciled
           raisedBy(f) == {b \in Applied : f \in run.result[b].new}
           judgedBy(f) == {b \in Applied : f \in DOMAIN run.result[b].judged}
           by(f)       == CHOOSE b \in raisedBy(f) \cup judgedBy(f) : TRUE
<1>1. /\ note'.draft = new /\ UNCHANGED <<mr, raised, left>> /\ EndRun("ok") /\ AllEnded
      /\ RunInv /\ mr \in Prints
  BY DEF Publish, AllEnded, ApprovalInv
<1>2. SUFFICES ASSUME Untouched PROVE Homes(new)
  BY <1>1, QuietEnd DEF QuietInv
<1>3. RaisedInv /\ Homes(run.draft) /\ ResultsInv
  BY <1>1, <1>2 DEF QuietInv, AllEnded, ResultsInv
<1>4. ASSUME NEW f \in Known(new.assess)
      PROVE  /\ f \in Findings
             /\ \/ /\ by(f) \in raisedBy(f) \cup judgedBy(f)
                   /\ new.home[f] = run.result[by(f)].at
                \/ /\ f \in Known(run.draft.assess) /\ new.home[f] = run.draft.home[f]
  <2>1. f \in Findings /\ new.assess[f] # "none"
    BY DEF Known
  <2>2. /\ new.home[f] = IF raisedBy(f) \cup judgedBy(f) # {} THEN run.result[by(f)].at
                                                             ELSE run.draft.home[f]
        /\ raisedBy(f) \cup judgedBy(f) = {} => new.assess[f] = run.draft.assess[f]
    BY <2>1 DEF Reconciled
  <2>3. CASE raisedBy(f) \cup judgedBy(f) # {}
    BY <2>1, <2>2, <2>3
  <2>4. CASE raisedBy(f) \cup judgedBy(f) = {}
    BY <2>1, <2>2, <2>4 DEF Known
  <2> QED BY <2>3, <2>4
<1>5. \A b \in Applied : /\ b \in DOMAIN run.batches
                         /\ DOMAIN run.result[b].judged \subseteq run.known[b]
  BY <1>1 DEF RunInv, Sound, Applied, Having
<1>6. \A b \in Applied : run.known[b] = {f \in Known(run.draft.assess) :
                                           BatchOf(run.draft.home[f], run.batches) = b}
  BY <1>3, <1>5 DEF ResultsInv
<1>7. ASSUME NEW f \in Known(new.assess)
      PROVE  f \in DOMAIN raised /\ new.home[f] \in raised[f].units
  <2> DEFINE b == by(f)
  <2>1. CASE b \in raisedBy(f) /\ new.home[f] = run.result[b].at
    <3>1. run.result[b].at \in ToSet(run.batches[b])
      BY <1>3, <2>1 DEF ResultsInv, Answers
    <3>2. Given(raised, run.result[b], ToSet(run.batches[b])) /\ f \in run.result[b].new
      BY <1>3, <2>1 DEF ResultsInv
    <3> HIDE DEF b, new
    <3>3. f \in DOMAIN raised /\ raised[f].units = ToSet(run.batches[b])
      BY <3>2 DEF Given
    <3> QED BY <2>1, <3>1, <3>3
  <2>2. CASE b \in judgedBy(f) /\ new.home[f] = run.result[b].at
    <3>1. run.result[b].at \in ToSet(run.batches[b])
      BY <1>3, <2>2 DEF ResultsInv, Answers
    <3>2. f \in Known(run.draft.assess) /\ BatchOf(run.draft.home[f], run.batches) = b
      BY <1>5, <1>6, <2>2
    <3>3. run.batches = All
      <4>1. run.fp = mr /\ DOMAIN run.batches # {}
        BY <1>3, <1>5, <2>2 DEF ResultsInv
      <4> QED BY <1>1, <4>1, SameBatches DEF RunInv, All
    <3>4. f \in DOMAIN raised /\ run.draft.home[f] \in raised[f].units
      BY <1>3, <3>2 DEF Homes
    <3>5. PICK c \in DOMAIN All : raised[f].units = ToSet(All[c])
      BY <1>3, <3>4 DEF RaisedInv
    <3>6. BatchOf(run.draft.home[f], All) = c
      BY <1>1, <3>4, <3>5, BatchFound DEF All
    <3> QED BY <2>2, <3>1, <3>2, <3>3, <3>4, <3>5, <3>6
  <2>3. CASE f \in Known(run.draft.assess) /\ new.home[f] = run.draft.home[f]
    BY <1>3, <2>3 DEF Homes
  <2> QED BY <1>4, <2>1, <2>2, <2>3
<1> HIDE DEF new
<1> QED BY <1>7 DEF Homes

LEMMA QuietInductive == ApprovalInv /\ QuietInv /\ [Next]_vars => QuietInv'
<1> SUFFICES ASSUME ApprovalInv, QuietInv, [Next]_vars PROVE QuietInv'
  OBVIOUS
<1>1. ASSUME Spend("fault") PROVE left' \in [Kinds -> Nat] /\ left'["change"] = left["change"]
  BY <1>1 DEF Spend, QuietInv, Kinds
<1>2. CASE Start
  BY <1>2, QuietStart
<1>3. CASE \E b \in DOMAIN run.batches : SessionStep(b) \/ SessionFails(b)
  <2>1. PICK b \in DOMAIN run.batches : SessionStep(b) \/ SessionFails(b)
    BY <1>3
  <2>2. pc = "sessions"
    BY <2>1 DEF ApprovalInv
  <2>3. CASE EnterSession(b) \/ OutOfSubmissions(b) \/ SessionFails(b)
    <3>1. PICK status \in {"running", "failed", "unsaved"} :
            run' = [run EXCEPT !.status[b] = status]
      BY <2>3 DEF EnterSession, OutOfSubmissions, SessionFails
    <3>2. UNCHANGED <<mr, note, checkpoints, pc, raised>>
      BY <2>3 DEF EnterSession, OutOfSubmissions, SessionFails
    <3>3. left' \in [Kinds -> Nat] /\ left'["change"] = left["change"]
      BY <1>1, <2>3 DEF EnterSession, OutOfSubmissions, SessionFails, QuietInv
    <3> QED BY <2>2, <3>1, <3>2, <3>3, QuietStatus
  <2>4. CASE SessionStep(b) /\ ~(EnterSession(b) \/ OutOfSubmissions(b))
    <3>1. PICK s : s.judged \in Judged(b) /\ Submit(b, s)
      BY <2>4 DEF SessionStep
    <3>2. DOMAIN s.judged \subseteq run.known[b]
      BY <3>1 DEF Judged
    <3> QED BY <2>2, <3>1, <3>2, QuietSubmit
  <2> QED BY <2>1, <2>3, <2>4
<1>4. CASE Publish
  BY <1>4, QuietPublish
<1>5. CASE FinishFailed
  <2>1. EndRun("failed") /\ UNCHANGED <<mr, note, raised, left>>
    BY <1>5 DEF FinishFailed
  <2> QED BY <2>1, QuietEnd DEF QuietInv
<1>6. CASE Fail
  <2>1. EndRun("failed") /\ UNCHANGED <<mr, note, raised>> /\ Spend("fault")
    BY <1>6 DEF Fail
  <2> QED BY <1>1, <2>1, QuietEnd DEF QuietInv
<1>7. CASE Change
  <2>1. left["change"] \in Nat /\ left' = [left EXCEPT !["change"] = @ - 1] /\ left["change"] > 0
    BY <1>7 DEF Change, Spend, QuietInv, Kinds
  <2>2. left' \in [Kinds -> Nat] /\ left'["change"] < left["change"]
    BY <2>1 DEF QuietInv, Kinds
  <2> QED BY <2>1, <2>2, ReviewRunAssumption DEF QuietInv, Untouched, ReviewRunAssumption
<1>8. CASE RunUnchanged \/ UNCHANGED vars
  <2>1. UNCHANGED <<mr, note, checkpoints, pc, run, raised, left>>
    BY <1>8 DEF RunUnchanged, vars
  <2> QED BY <2>1 DEF QuietInv, Untouched, RaisedInv, StoredInv, Given, All, Homes,
                      ResultsInv, Applied, Having
<1> QED
  BY <1>2, <1>3, <1>4, <1>5, <1>6, <1>7, <1>8 DEF Next, RunStep

(* As long as the content stays the same, a run that dies on an ID dies of *)
(* a partial session that has repeated an earlier one word for word: never *)
(* of a checkpoint, nor of a complete session.                             *)
THEOREM CollisionsCorrect == Spec => []OnlyRepeatsCollide
<1>1. ApprovalInv /\ QuietInv => OnlyRepeatsCollide
  BY OnlyPartialCollides DEF Untouched, OnlyRepeatsCollide
<1> QED
  BY <1>1, ApprovalInit, ApprovalInductive, QuietInitially, QuietInductive, PTL DEF Spec

-----------------------------------------------------------------------------
(* Types.                                                                  *)

Judgements == UNION {[S -> Assessments] : S \in SUBSET Findings}

(* What sessions submit.                                                   *)
Results == [complete : BOOLEAN, approved : BOOLEAN, new : SUBSET Findings, at : AllUnits,
            judged : Judgements]

RunTyped(r) ==
  /\ DOMAIN r = RunFields
  /\ r.draft \in Drafts
  /\ r.batches \in Seq(Seq(AllUnits))
  /\ r.status \in [DOMAIN r.batches -> Statuses]
  /\ \A b \in DOMAIN r.batches : r.known[b] \subseteq Findings
  /\ r.result \in [DOMAIN r.batches -> Results]

TypesInv ==
  /\ mr \in Prints /\ note \in Notes /\ persistent \in Persistence
  /\ \A key \in DOMAIN checkpoints : key.fp \in Prints /\ key.known \subseteq Findings
                                     /\ checkpoints[key] \in Results
  /\ pc \in {"idle", "sessions"}
  /\ RunTyped(run)
  /\ pc = "sessions" => run.fp \in Prints
  /\ outcome \in {"none", "ok", "failed"}
  /\ DOMAIN raised \subseteq Findings
  /\ left \in [Kinds -> Nat]

LEMMA NoTyped ==
  /\ NoDraft \in Drafts
  /\ NoResult \in Results
  /\ NoRun.draft = NoDraft /\ NoRun.batches = <<>> /\ NoRun.status = <<>>
  /\ NoRun.result = <<>> /\ DOMAIN NoRun = RunFields
<1>1. Nowhere \in AllUnits
  BY DEF AllUnits
<1>2. NoDraft \in Drafts
  BY <1>1 DEF NoDraft, Drafts
<1>3. <<>> \in [{} -> Assessments] /\ {} \in SUBSET Findings
  OBVIOUS
<1>4. <<>> \in Judgements
  BY <1>3 DEF Judgements
<1>5. NoResult \in Results
  BY <1>1, <1>4 DEF NoResult, Results
<1> QED BY <1>2, <1>5 DEF NoRun, RunFields

LEMMA NoRunTyped == RunTyped(NoRun)
<1>1. <<>> \in Seq(Seq(AllUnits)) /\ <<>> \in [DOMAIN <<>> -> Statuses]
      /\ <<>> \in [DOMAIN <<>> -> Results]
  OBVIOUS
<1>2. \A b \in DOMAIN NoRun.batches : FALSE
  BY NoTyped
<1> QED BY <1>1, <1>2, NoTyped DEF RunTyped

LEMMA TypesInitially == Init => TypesInv
<1> SUFFICES ASSUME Init PROVE TypesInv
  OBVIOUS
<1>1. left \in [Kinds -> Nat]
  BY QuietInitially DEF QuietInv
<1>2. /\ mr \in Prints /\ persistent \in Persistence /\ pc = "idle" /\ run = NoRun
      /\ outcome = "none" /\ DOMAIN raised = {} /\ checkpoints = <<>>
      /\ note = [fp |-> mr, complete |-> FALSE, approved |-> FALSE, draft |-> NoDraft]
  BY DEF Init
<1>3. note \in Notes
  BY <1>2, NoTyped DEF Notes
<1>4. \A key \in DOMAIN checkpoints : FALSE
  BY <1>2
<1> QED BY <1>1, <1>2, <1>3, <1>4, NoRunTyped DEF TypesInv

LEMMA TypesImply == TypesInv => TypeOK
<1> SUFFICES ASSUME TypesInv PROVE TypeOK
  OBVIOUS
<1>1. run.status \in BoundedSeq(Statuses, Len(run.batches))
  <2>1. Len(run.batches) \in Nat /\ DOMAIN run.batches = 1 .. Len(run.batches)
    BY DEF TypesInv, RunTyped
  <2>2. run.status \in [1 .. Len(run.batches) -> Statuses]
    BY <2>1 DEF TypesInv, RunTyped
  <2>3. Len(run.batches) \in 0 .. Len(run.batches)
    BY <2>1
  <2> QED BY <2>2, <2>3 DEF BoundedSeq, SeqOf
<1> QED BY <1>1 DEF TypesInv, RunTyped, TypeOK

LEMMA TypesStatus ==
  ASSUME TypesInv, NEW b \in DOMAIN run.batches, NEW status \in Statuses,
         run' = [run EXCEPT !.status[b] = status], left' \in [Kinds -> Nat],
         UNCHANGED <<mr, note, persistent, checkpoints, pc, outcome, raised>>
  PROVE  TypesInv'
<1>1. /\ DOMAIN run' = RunFields /\ run'.fp = run.fp /\ run'.batches = run.batches
      /\ run'.draft = run.draft /\ run'.known = run.known /\ run'.result = run.result
      /\ run'.status = [run.status EXCEPT ![b] = status]
  BY DEF TypesInv, RunTyped, RunFields
<1>2. RunTyped(run')
  BY <1>1 DEF TypesInv, RunTyped
<1> QED BY <1>1, <1>2 DEF TypesInv

LEMMA TypesStart ==
  ASSUME TypesInv, Start
  PROVE  TypesInv'
<1> DEFINE draft   == note.draft
           batches == BatchesAt[mr][Known(draft.assess) # {}]
           known   == [b \in DOMAIN batches |->
                         {f \in Known(draft.assess) : BatchOf(draft.home[f], batches) = b}]
           key(b)  == AssignmentKey(mr, batches[b], known[b])
           missing == {b \in DOMAIN batches : ~Load(key(b))}
           status  == [b \in DOMAIN batches |->
                         IF b \notin missing THEN "reused"
                         ELSE IF b \in Budgeted(missing) THEN "waiting" ELSE "skipped"]
           result  == [b \in DOMAIN batches |->
                         IF b \in missing THEN NoResult ELSE checkpoints[key(b)]]
<1>1. run' = [fp |-> mr, draft |-> draft, batches |-> batches, known |-> known,
              status |-> status, result |-> result]
  BY DEF Start
<1>2. /\ UNCHANGED <<mr, note, persistent, checkpoints, raised, left>>
      /\ pc' = "sessions" /\ outcome' = "none"
  BY DEF Start
<1>3. draft \in Drafts /\ mr \in Prints
  BY DEF TypesInv, Notes
<1>4. batches \in Seq(Seq(AllUnits))
  BY <1>3, BatchesApart
<1>5. status \in [DOMAIN batches -> Statuses]
  BY DEF Statuses
<1>6. \A b \in DOMAIN batches : known[b] \subseteq Findings
  BY DEF Known
<1>7. result \in [DOMAIN batches -> Results]
  <2>1. ASSUME NEW b \in DOMAIN batches PROVE result[b] \in Results
    <3>1. CASE b \in missing
      BY <3>1, NoTyped
    <3>2. CASE b \notin missing
      <4>1. key(b) \in DOMAIN checkpoints /\ result[b] = checkpoints[key(b)]
        BY <3>2 DEF Load
      <4> QED BY <4>1 DEF TypesInv
    <3> QED BY <3>1, <3>2
  <2> QED BY <2>1
<1> HIDE DEF draft, batches, known, missing, status, result
<1>8. /\ DOMAIN run' = RunFields /\ run'.fp = mr /\ run'.draft = draft /\ run'.batches = batches
      /\ run'.known = known /\ run'.status = status /\ run'.result = result
  BY <1>1 DEF RunFields
<1>9. RunTyped(run')
  BY <1>3, <1>4, <1>5, <1>6, <1>7, <1>8 DEF RunTyped
<1> QED BY <1>2, <1>3, <1>8, <1>9 DEF TypesInv

LEMMA TypesSubmit ==
  ASSUME TypesInv, pc = "sessions", NEW b \in DOMAIN run.batches, NEW s \in Results,
         Submit(b, s), left' \in [Kinds -> Nat]
  PROVE  TypesInv'
<1>1. /\ UNCHANGED <<mr, note, persistent, pc, outcome>>
      /\ DOMAIN raised' \subseteq Findings
  BY DEF Submit, TypesInv, Results
<1>2. /\ DOMAIN run' = RunFields /\ run'.fp = run.fp /\ run'.batches = run.batches
      /\ run'.draft = run.draft /\ run'.known = run.known
      /\ run'.status = [run.status EXCEPT ![b] = "accepted"]
      /\ run'.result = [run.result EXCEPT ![b] = s]
  BY DEF Submit, TypesInv, RunTyped, RunFields
<1>3. RunTyped(run')
  BY <1>2 DEF TypesInv, RunTyped, Statuses
<1>4. ASSUME NEW k \in DOMAIN checkpoints'
      PROVE  k.fp \in Prints /\ k.known \subseteq Findings /\ checkpoints'[k] \in Results
  <2> DEFINE key == AssignmentKey(run.fp, run.batches[b], run.known[b])
  <2>1. k \in DOMAIN checkpoints \cup {key}
        /\ checkpoints'[k] = IF k = key THEN s ELSE checkpoints[k]
    BY DEF Submit, Save
  <2>2. key.fp \in Prints /\ key.known \subseteq Findings
    BY DEF AssignmentKey, TypesInv, RunTyped
  <2> HIDE DEF key
  <2> QED BY <2>1, <2>2 DEF TypesInv
<1> QED BY <1>1, <1>2, <1>3, <1>4 DEF TypesInv

LEMMA TypesEnd ==
  ASSUME TypesInv, NEW result \in {"ok", "failed"}, EndRun(result),
         note' \in Notes, left' \in [Kinds -> Nat], UNCHANGED <<mr, raised>>
  PROVE  TypesInv'
<1>1. pc' = "idle" /\ run' = NoRun /\ outcome' = result /\ UNCHANGED persistent
  BY DEF EndRun
<1>2. \A k \in DOMAIN checkpoints' : k \in DOMAIN checkpoints /\ checkpoints'[k] = checkpoints[k]
  BY DEF EndRun
<1>3. RunTyped(run')
  BY <1>1, NoRunTyped
<1> QED BY <1>1, <1>2, <1>3 DEF TypesInv

LEMMA ReconciledTyped ==
  ASSUME TypesInv
  PROVE  Reconciled \in Drafts
<1> DEFINE raisedBy(f) == {b \in Applied : f \in run.result[b].new}
           judgedBy(f) == {b \in Applied : f \in DOMAIN run.result[b].judged}
           by(f)       == run.result[CHOOSE b \in raisedBy(f) \cup judgedBy(f) : TRUE]
<1>1. run.draft \in Drafts /\ \A b \in Applied : run.result[b] \in Results
  BY DEF TypesInv, RunTyped, Applied, Having
<1>2. ASSUME NEW f \in Findings, raisedBy(f) \cup judgedBy(f) # {} PROVE by(f).at \in AllUnits
  BY <1>1, <1>2 DEF Results
<1>3. ASSUME NEW f \in Findings, raisedBy(f) = {}, judgedBy(f) # {}
      PROVE  by(f).judged[f] \in Assessments
  <2>1. PICK b \in judgedBy(f) : by(f) = run.result[b]
    BY <1>3
  <2>2. run.result[b].judged \in Judgements
    BY <1>1, <2>1 DEF Results
  <2>3. PICK S \in SUBSET Findings : run.result[b].judged \in [S -> Assessments]
    BY <2>2 DEF Judgements
  <2>4. f \in S
    BY <2>1, <2>3
  <2> QED BY <2>1, <2>3, <2>4
<1>4. Reconciled =
        [assess |-> [f \in Findings |->
           IF raisedBy(f) # {} THEN "present"
           ELSE IF judgedBy(f) # {} THEN by(f).judged[f] ELSE run.draft.assess[f]],
         home |-> [f \in Findings |->
           IF raisedBy(f) \cup judgedBy(f) # {} THEN by(f).at ELSE run.draft.home[f]]]
  BY DEF Reconciled
<1> HIDE DEF by
<1>5. ASSUME NEW f \in Findings
      PROVE  /\ (IF raisedBy(f) # {} THEN "present"
                 ELSE IF judgedBy(f) # {} THEN by(f).judged[f] ELSE run.draft.assess[f])
                  \in Assessments \cup {"none"}
             /\ (IF raisedBy(f) \cup judgedBy(f) # {} THEN by(f).at ELSE run.draft.home[f])
                  \in AllUnits
  <2>1. run.draft.assess[f] \in Assessments \cup {"none"} /\ run.draft.home[f] \in AllUnits
    BY <1>1 DEF Drafts
  <2>2. "present" \in Assessments
    BY DEF Assessments
  <2> QED BY <1>2, <1>3, <2>1, <2>2
<1> HIDE DEF raisedBy, judgedBy
<1> QED BY <1>4, <1>5 DEF Drafts

LEMMA TypesPublish ==
  ASSUME TypesInv, Publish
  PROVE  TypesInv'
<1>1. /\ note' = [fp |-> run.fp, complete |-> Complete, approved |-> DeriveVerdict(Reconciled),
                  draft |-> Reconciled]
      /\ EndRun("ok") /\ UNCHANGED <<mr, raised, left>> /\ run.fp \in Prints
  BY DEF Publish, AllEnded, TypesInv
<1>2. Complete \in BOOLEAN /\ DeriveVerdict(Reconciled) \in BOOLEAN
  BY DEF Complete, DeriveVerdict
<1>3. note' \in Notes
  BY <1>1, <1>2, ReconciledTyped DEF Notes
<1> QED BY <1>1, <1>3, TypesEnd DEF TypesInv

LEMMA TypesInductive == ApprovalInv /\ QuietInv /\ TypesInv /\ [Next]_vars => TypesInv'
<1> SUFFICES ASSUME ApprovalInv, QuietInv, TypesInv, [Next]_vars PROVE TypesInv'
  OBVIOUS
<1>1. left' \in [Kinds -> Nat]
  BY QuietInductive DEF QuietInv
<1>2. CASE Start
  BY <1>2, TypesStart
<1>3. CASE \E b \in DOMAIN run.batches : SessionStep(b) \/ SessionFails(b)
  <2>1. PICK b \in DOMAIN run.batches : SessionStep(b) \/ SessionFails(b)
    BY <1>3
  <2>2. pc = "sessions"
    BY <2>1 DEF ApprovalInv
  <2>3. CASE EnterSession(b) \/ OutOfSubmissions(b) \/ SessionFails(b)
    <3>1. PICK status \in {"running", "failed", "unsaved"} :
            run' = [run EXCEPT !.status[b] = status]
      BY <2>3 DEF EnterSession, OutOfSubmissions, SessionFails
    <3>2. UNCHANGED <<mr, note, persistent, checkpoints, pc, outcome, raised>>
      BY <2>3 DEF EnterSession, OutOfSubmissions, SessionFails
    <3>3. status \in Statuses
      BY DEF Statuses
    <3> QED BY <1>1, <3>1, <3>2, <3>3, TypesStatus
  <2>4. CASE SessionStep(b) /\ ~(EnterSession(b) \/ OutOfSubmissions(b))
    <3>1. PICK judged \in Judged(b), new \in {{}} \cup {{f} : f \in Findings},
               at \in {Nowhere} \cup ToSet(run.batches[b]), complete \in BOOLEAN,
               approved \in BOOLEAN :
            Submit(b, [complete |-> complete, approved |-> approved, new |-> new,
                       at |-> at, judged |-> judged])
      BY <2>4 DEF SessionStep
    <3>2. new \in SUBSET Findings
      OBVIOUS
    <3>3. judged \in Judgements
      <4>1. SUBSET run.known[b] \subseteq SUBSET Findings
        BY DEF TypesInv, RunTyped
      <4> QED BY <4>1 DEF Judged, Judgements
    <3>4. at \in AllUnits
      <4>1. run.batches[b] \in Seq(AllUnits)
        BY DEF TypesInv, RunTyped
      <4>2. ToSet(run.batches[b]) \subseteq AllUnits
        BY <4>1 DEF ToSet
      <4> QED BY <4>2 DEF AllUnits
    <3>5. [complete |-> complete, approved |-> approved, new |-> new, at |-> at,
           judged |-> judged] \in Results
      BY <3>2, <3>3, <3>4 DEF Results
    <3> QED BY <1>1, <2>2, <3>1, <3>5, TypesSubmit
  <2> QED BY <2>1, <2>3, <2>4
<1>4. CASE Publish
  BY <1>4, TypesPublish
<1>5. CASE FinishFailed \/ Fail
  <2>1. EndRun("failed")
    BY <1>5 DEF FinishFailed, Fail
  <2>2. UNCHANGED <<mr, note, raised>>
    BY <1>5 DEF FinishFailed, Fail
  <2>3. note' \in Notes
    BY <2>2 DEF TypesInv
  <2> QED BY <1>1, <2>1, <2>2, <2>3, TypesEnd
<1>6. CASE Change
  <2>1. mr' \in Prints
        /\ UNCHANGED <<note, persistent, checkpoints, pc, run, outcome, raised>>
    BY <1>6 DEF Change
  <2> QED BY <1>1, <2>1 DEF TypesInv
<1>7. CASE RunUnchanged \/ UNCHANGED vars
  <2>1. /\ UNCHANGED <<mr, note, persistent, checkpoints, pc, run, raised>>
        /\ outcome' \in {"ok", outcome}
    BY <1>7 DEF RunUnchanged, vars
  <2> QED BY <1>1, <2>1 DEF TypesInv
<1> QED
  BY <1>2, <1>3, <1>4, <1>5, <1>6, <1>7 DEF Next, RunStep

(* Every variable keeps its type, the notes included: each published       *)
(* report holds an assessment or "none" for each finding, at a unit of     *)
(* the merge request, however checkpoints and sessions are mixed.          *)
THEOREM ReviewTypesCorrect == Spec => []TypeOK
<1> QED
  BY TypesImply, ApprovalInit, ApprovalInductive, QuietInitially, QuietInductive,
     TypesInitially, TypesInductive, PTL DEF Spec
=============================================================================
