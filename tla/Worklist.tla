------------------------------ MODULE Worklist ------------------------------
(***************************************************************************)
(* The worklist of a merge request as pushes change it, and the batches    *)
(* the coordinator makes of it: the units internal/repository/inventory.go *)
(* lists for each touched file, the requirements of types.go               *)
(* (UnitRequirements), the batches of Batching.                            *)
(*                                                                         *)
(* Only a file can be oversized: a declaration as large as the limit would *)
(* be in a file beyond it, and that file is not taken apart (ast.go).      *)
(***************************************************************************)
EXTENDS Batching

CONSTANTS
  Files,         \* files a merge request can touch
  PackageOf,     \* the packages of those that are Go sources
  DeclarationsOf,\* the declarations in each of those
  Integration,   \* the unit for what lies between sessions
  MaxUnits       \* max_units_per_session

GoFiles      == DOMAIN PackageOf
Packages     == {PackageOf[f] : f \in GoFiles}
Declarations == UNION {DeclarationsOf[f] : f \in GoFiles}
Units        == Files \cup Packages \cup Declarations

ASSUME WorklistAssumption ==
  /\ GoFiles \subseteq Files /\ DOMAIN DeclarationsOf = GoFiles
  /\ Packages \cap Files = {} /\ Declarations \cap (Files \cup Packages) = {}
  /\ IsFiniteSet(Units) /\ Integration \notin Units
  /\ MaxUnits \in Nat \ {0}

VARIABLES
  order,         \* all units by ID; IDs are hashes, so any order may occur
  files          \* what the merge request does to each file

vars == <<order, files>>

(* A touched Go file is taken apart, fails to be, or is too large for it.  *)
States(f) ==
  IF f \in GoFiles THEN {"untouched", "structured", "failed", "oversized"}
                   ELSE {"untouched", "text"}

TypeOK ==
  /\ order \in SetToSeqs(Units)
  /\ DOMAIN files = Files /\ \A f \in Files : files[f] \in States(f)

(* Inventory: each touched file, its package once, its declarations.       *)
InventoryUnits ==
  LET touched == {f \in Files : files[f] # "untouched"}
  IN touched \cup {PackageOf[f] : f \in touched \cap GoFiles}
       \cup UNION {DeclarationsOf[f] : f \in {g \in GoFiles : files[g] = "structured"}}

(* The worklist: the units of the inventory among the first n IDs, for     *)
(* every n.                                                                *)
Sorting(all, units) ==
  LET sorted[n \in 0 .. Len(all)] ==
        IF n = 0 THEN <<>>
        ELSE IF all[n] \in units THEN Append(sorted[n - 1], all[n]) ELSE sorted[n - 1]
  IN sorted

Sorted == Sorting(order, InventoryUnits)[Len(order)]

(* UnitRequirements: an oversized file needs its package.                  *)
UnitRequirements ==
  [f \in {g \in GoFiles : files[g] = "oversized"} |-> PackageOf[f]]

CanBatch ==
  Batchable(WithIntegration(Sorted, Integration, MaxUnits), UnitRequirements, MaxUnits)

Batches ==
  BatchUnits(WithIntegration(Sorted, Integration, MaxUnits), UnitRequirements, MaxUnits)

Init ==
  /\ order \in SetToSeqs(Units)
  /\ files = [f \in Files |-> "untouched"]

(* Mutant: the language of a file is not looked at.                        *)
PushAnyLanguage(f) ==
  /\ \E state \in {"untouched", "structured", "failed", "oversized", "text"} \ {files[f]} :
       files' = [files EXCEPT ![f] = state]
  /\ UNCHANGED order

(* A push touches a file, changes its size or its syntax, or reverts it.   *)
Push(f) ==
  /\ \E state \in States(f) \ {files[f]} : files' = [files EXCEPT ![f] = state]
  /\ UNCHANGED order

Next == \E f \in Files : Push(f)

Spec == Init /\ [][Next]_vars
-----------------------------------------------------------------------------
(* Properties.                                                             *)

(* Every unit of the inventory is assigned to exactly one session, once:   *)
(* none is left out, so a complete review covers the inventory, and none   *)
(* is paid for twice.                                                      *)
EveryUnitOnce ==
  CanBatch => Assigned(Batches) \ {Integration} = InventoryUnits /\ Apart(Batches)

(* What lies between sessions is assessed in the last one, whenever there  *)
(* are several, and only then.                                             *)
SeveralSessionsIntegrate ==
  CanBatch /\ Batches # <<>> =>
    (Len(Batches) > 1 <=> Last(Last(Batches)) = Integration)

(* No session gets more units than max_units_per_session.                  *)
SessionsWithinLimit ==
  CanBatch => \A b \in DOMAIN Batches : Len(Batches[b]) \in 1 .. MaxUnits

(* Two consecutive sessions never fit into one, so the session budget is   *)
(* not spent on crumbs: at most twice the fewest possible sessions, plus   *)
(* one.                                                                    *)
NoCrumbs ==
  CanBatch => \A b \in 2 .. Len(Batches) :
                Len(Batches[b - 1]) + Len(Batches[b]) > MaxUnits

(* Each batch is an assignment some complete submission can satisfy once   *)
(* everything has been retrieved: the requirements the host attaches to    *)
(* its units do not point outside of it (validate.go rejects every         *)
(* submission, complete or partial, of a batch for which they do).         *)
EveryBatchCanComplete ==
  CanBatch => \A b \in DOMAIN Batches :
    LET batch == ToSet(Batches[b])
    IN ValidCoverage(TRUE, [u \in batch |-> "complete"], batch, UnitRequirements, batch)
=============================================================================
