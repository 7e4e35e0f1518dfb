--------------------------- MODULE ReportControls ---------------------------
(***************************************************************************)
(* What a published report says about each finding, and how a human's      *)
(* clicks on it are read back: the part of internal/markdown/codec.go that *)
(* decides meaning (Canonicalize, Encode, Decode, ReconcileControls).      *)
(* Markdown text, titles, evidence and history are abstracted away: of a   *)
(* finding only its acknowledgement mark and its checkbox remain.          *)
(***************************************************************************)
EXTENDS Naturals

CONSTANT Findings          \* identifiers of the findings a review can raise

(* The mark of a finding in the durable state: not yet raised, open,       *)
(* acknowledged by the human's checkbox, acknowledged by AI evidence.      *)
Marks == {"absent", "open", "box", "ai"}

(* A checkbox as it shows in the note: unchecked, checked, not there.      *)
Boxes == {"off", "on", "nil"}

(* Mutant: the mark itself is rendered as the control.                     *)
RenderedMark(mark) == mark

(* The checkbox Encode renders for a mark; Canonicalize stores the same    *)
(* value as the finding's LastRenderedCheckbox.                            *)
Rendered(mark) ==
  CASE mark = "open" -> "off"
    [] mark = "box"  -> "on"
    [] OTHER         -> "nil"

RenderedBoxes(marks) == [f \in Findings |-> Rendered(marks[f])]

(* A run's working copy of a report's state decoded from its marker: the   *)
(* marks, and the LastRenderedCheckbox memory, which the review changes    *)
(* only through Canonicalize and ReconcileControls.                        *)
Decoded(report) == [marks |-> report.marks, last |-> RenderedBoxes(report.marks)]

NoFindings == [marks |-> [f \in Findings |-> "absent"],
               last  |-> [f \in Findings |-> "nil"]]

(* The control value a click is compared with.  It is the memory of the    *)
(* working copy, except that an AI acknowledgement made by this run is set *)
(* aside: then the predecessor's own rendering decides, so that a human    *)
(* click wins over an AI transition based on older evidence.               *)
Baseline(report, state, f) ==
  IF state.last[f] = "nil" \/ state.marks[f] = "ai"
    THEN Rendered(report.marks[f])
    ELSE state.last[f]

(* A click on f that the working copy does not know yet.                   *)
Clicked(report, state, f) ==
  /\ Rendered(report.marks[f]) # "nil"
  /\ report.boxes[f] # Baseline(report, state, f)

(* Mutant: the working copy's AI acknowledgement is not set aside.         *)
ReconcileControlsAIWins(report, state) ==
  LET clicked(f) == Clicked(report, state, f) /\ state.marks[f] # "ai"
  IN [marks |-> [f \in Findings |->
                   IF clicked(f) THEN IF report.boxes[f] = "on" THEN "box" ELSE "open"
                                 ELSE state.marks[f]],
      last  |-> [f \in Findings |->
                   IF clicked(f) THEN report.boxes[f] ELSE state.last[f]]]

(* ReconcileControls: every unknown click acknowledges or reopens.         *)
ReconcileControls(report, state) ==
  [marks |-> [f \in Findings |->
                IF Clicked(report, state, f)
                  THEN IF report.boxes[f] = "on" THEN "box" ELSE "open"
                  ELSE state.marks[f]],
   last  |-> [f \in Findings |->
                IF Clicked(report, state, f) THEN report.boxes[f] ELSE state.last[f]]]
=============================================================================
