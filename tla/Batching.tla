------------------------------ MODULE Batching ------------------------------
(***************************************************************************)
(* How internal/coordinator/coordinator.go cuts the worklist of a review   *)
(* into batches, one AI session each (batchUnits, assignFindingBatches),   *)
(* and what internal/review/validate.go demands of the coverage a session  *)
(* submits for its batch (validateCoverage).                               *)
(*                                                                         *)
(* A worklist is a sequence of units in the order of their IDs.            *)
(* "enclosing" maps the units that have a requirement to the unit that     *)
(* must be assessed along with them.                                       *)
(***************************************************************************)
EXTENDS Naturals, Sequences, SequencesExt

Outcomes == {"complete", "partial", "failed", "excluded"}

(* Mutant: the boundary is off by one.                                     *)
WithIntegrationLate(worklist, integration, maximum) ==
  IF Len(worklist) > maximum + 1 THEN Append(worklist, integration) ELSE worklist

(* A worklist that needs several sessions gets one more unit for what lies *)
(* between them, after all the others.                                     *)
WithIntegration(worklist, integration, maximum) ==
  IF Len(worklist) > maximum THEN Append(worklist, integration) ELSE worklist

(* A unit and its enclosing unit, if that one is still free, are a group.  *)
GroupOf(u, used, enclosing) ==
  IF u \in DOMAIN enclosing /\ enclosing[u] \notin used \cup {u}
    THEN <<u, enclosing[u]>> ELSE <<u>>

(* Mutant: the enclosing unit is not marked as used.                       *)
GroupedReused(acc, u, enclosing) ==
  IF u \in acc.used THEN acc
  ELSE [used |-> acc.used \cup {u},
        groups |-> Append(acc.groups, GroupOf(u, acc.used, enclosing))]

(* The next unit of the worklist, unless it is in a group already.         *)
Grouped(acc, u, enclosing) ==
  LET group == GroupOf(u, acc.used, enclosing)
  IN IF u \in acc.used THEN acc
     ELSE [used |-> acc.used \cup ToSet(group), groups |-> Append(acc.groups, group)]

(* The groups of the first n units, for every n.                           *)
Grouping(worklist, enclosing) ==
  LET acc[n \in 0 .. Len(worklist)] ==
        IF n = 0 THEN [used |-> {}, groups |-> <<>>]
                 ELSE Grouped(acc[n - 1], worklist[n], enclosing)
  IN acc

UnitGroups(worklist, enclosing) == Grouping(worklist, enclosing)[Len(worklist)].groups

(* A group larger than a session may be is an error of the whole run.      *)
Batchable(worklist, enclosing, maximum) ==
  \A group \in ToSet(UnitGroups(worklist, enclosing)) : Len(group) <= maximum

(* Mutant: the size of the group to come is forgotten.                     *)
PutLate(batches, group, maximum) ==
  IF batches = <<>> \/ Len(Last(batches)) >= maximum
    THEN Append(batches, group)
    ELSE Append(Front(batches), Last(batches) \o group)

(* Mutant: every group gets a session of its own.                          *)
PutSingly(batches, group, maximum) == Append(batches, group)

(* A group goes into the last batch if it fits, or else into a new one.    *)
Put(batches, group, maximum) ==
  IF batches = <<>> \/ Len(Last(batches)) + Len(group) > maximum
    THEN Append(batches, group)
    ELSE Append(Front(batches), Last(batches) \o group)

(* The batches of the first n groups, for every n.                         *)
Packing(groups, maximum) ==
  LET batches[n \in 0 .. Len(groups)] ==
        IF n = 0 THEN <<>> ELSE Put(batches[n - 1], groups[n], maximum)
  IN batches

Packed(groups, maximum) == Packing(groups, maximum)[Len(groups)]

BatchUnits(worklist, enclosing, maximum) ==
  Packed(UnitGroups(worklist, enclosing), maximum)

(* All units of some batches, and whether there is one place for each.     *)
Assigned(batches) == UNION {ToSet(batches[b]) : b \in DOMAIN batches}

Apart(batches) ==
  \A b, c \in DOMAIN batches : \A i \in DOMAIN batches[b], j \in DOMAIN batches[c] :
    batches[b][i] = batches[c][j] => b = c /\ i = j

(* assignFindingBatches: the batch of a finding's unit; a finding whose    *)
(* unit is on no batch goes to the first one.                              *)
BatchOf(unit, batches) ==
  IF \E b \in DOMAIN batches : unit \in ToSet(batches[b])
    THEN CHOOSE b \in DOMAIN batches : unit \in ToSet(batches[b])
    ELSE 1

(* validateCoverage: every assigned unit has an outcome and no other one,  *)
(* a complete submission has none that failed, and a unit with a           *)
(* requirement is complete only when it has been retrieved and its         *)
(* enclosing unit, which must be assigned too, is complete.                *)
ValidCoverage(complete, outcome, batch, enclosing, retrieved) ==
  /\ DOMAIN outcome = batch
  /\ complete => \A u \in batch : outcome[u] \in {"complete", "excluded"}
  /\ \A u \in batch \cap DOMAIN enclosing :
       /\ enclosing[u] \in batch \ {u}
       /\ outcome[u] = "complete" =>
            u \in retrieved /\ outcome[enclosing[u]] = "complete"
=============================================================================
