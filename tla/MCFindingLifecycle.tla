------------------------- MODULE MCFindingLifecycle -------------------------
(* FindingLifecycle on small instances.                                    *)
EXTENDS FindingLifecycle

CONSTANTS n1, n2

(* One discussion: a note of another bot that quotes the title, and a      *)
(* human's answer.                                                         *)
OneThread == [n \in {n1, n2} |-> 1]
=============================================================================
