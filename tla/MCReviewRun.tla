---------------------------- MODULE MCReviewRun ----------------------------
(* ReviewRun on small instances.                                           *)
EXTENDS ReviewRun

CONSTANTS p1, p2, p3, f1

(* Three batches, the last one the integration unit's; after a push that   *)
(* takes units back, one batch, or none.                                   *)
TakenBack == (p1 :> <<1, 2>>) @@ (p2 :> <<1>>) @@ (p3 :> <<>>)
=============================================================================
