------------------------------ MODULE MCSession ------------------------------
(* Session on a small instance.                                            *)
EXTENDS Session, TLC

CONSTANTS f1, u1

(* The file of the one oversized unit has two chunks.                      *)
TwoChunks == f1 :> 2
=============================================================================
