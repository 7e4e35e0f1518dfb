---------------------------- MODULE ClientProofs ----------------------------
(***************************************************************************)
(* What a job reads is complete and has no restricted note in it, and what *)
(* it says of the labels it has set is true, for every configuration that  *)
(* validateLabels accepts, any merge request and any page size, and any    *)
(* number of changes and failures.                                         *)
(***************************************************************************)
EXTENDS GitLabClient, FiniteSetTheorems, FunctionTheorems, WellFoundedInduction, TLAPS

-----------------------------------------------------------------------------
(* The configuration.                                                      *)

(* A mapping with a prefix owns all labels with that prefix.               *)
LEMMA PrefixManaged ==
  ASSUME NEW m \in Mappings, m.prefix # Plain, NEW value
  PROVE  Managed(<<m.prefix, value>>)
<1> DEFINE l == <<m.prefix, value>>
           out == <<m.prefix, "value">>
<1>1. m.mode \in {"single", "set"}
  BY LabelsAssumption DEF LabelsAssumption, ValidLabels
<1>2. CASE m.mode = "set"
  <2>1. m.prefix \in ManagedPrefixes
    BY <1>2 DEF ManagedPrefixes
  <2> QED BY <2>1 DEF Managed
<1>3. CASE m.mode = "single"
  <2>1. out \in Outputs(m)
    BY DEF Outputs
  <2>2. PICK s \in Scopes : \A k \in Outputs(m) : ScopeOf(k) = s
    BY <1>3, LabelsAssumption DEF LabelsAssumption, ValidLabels
  <2>3. ScopeOf(out) = s /\ s # Plain
    BY <2>1, <2>2, LabelsAssumption DEF LabelsAssumption, ValidLabels
  <2>4. m.prefix \in Scopes /\ ScopeOf(l) = ScopeOf(out)
    BY <2>3 DEF ScopeOf
  <2>5. ScopeOf(out) \in ManagedScopes
    BY <1>3, <2>1, <2>3 DEF ManagedScopes
  <2> QED BY <2>4, <2>5 DEF Managed
<1> QED BY <1>1, <1>2, <1>3

(* The smallest of some numbers is one of them.                            *)
LEMMA SmallestIn ==
  ASSUME NEW S \in SUBSET Nat, S # {}
  PROVE  Min(S) \in S
<1>1. PICK x \in S : \A y \in S : ~(<<y, x>> \in OpToRel(<, Nat))
  BY NatLessThanWellFounded, WFMin
<1>2. \A y \in S : ~(y < x)
  <2>1. \A y \in S : <<y, x>> \in Nat \X Nat
    OBVIOUS
  <2> QED BY <1>1, <2>1, Zenon DEF OpToRel
<1>3. \A y \in S : x <= y
  BY <1>2
<1>4. \E z \in S : \A y \in S : z <= y
  BY <1>3
<1> QED BY <1>4 DEF Min

LEMMA BucketFound ==
  ASSUME NEW m \in Mappings, m.source = "token_usage", NEW usage,
         MatchingBuckets(m, usage) # {}
  PROVE  Min(MatchingBuckets(m, usage)) \in DOMAIN m.buckets
<1>1. m.buckets \in Seq(Range(m.buckets))
  BY LabelsAssumption DEF LabelsAssumption, ValidLabels, ValidShape
<1>2. /\ MatchingBuckets(m, usage) \subseteq DOMAIN m.buckets
      /\ DOMAIN m.buckets \subseteq Nat
  BY <1>1 DEF MatchingBuckets
<1> QED BY <1>2, SmallestIn

LEMMA MissingManaged ==
  ASSUME NEW m \in Mappings, NEW l \in MissingLabels(m)
  PROVE  Managed(l)
<1>1. m.missing = "unknown"
  BY LabelsAssumption DEF LabelsAssumption, ValidLabels, MissingLabels
<1>2. CASE "unknown" \in DOMAIN m.values
  <2>1. l = m.values["unknown"] /\ l \in Range(m.values)
    BY <1>1, <1>2 DEF MissingLabels, Range
  <2> QED BY <2>1 DEF Managed, ManagedNames
<1>3. CASE "unknown" \notin DOMAIN m.values
  <2>1. m.prefix # Plain
    BY <1>1, <1>3, LabelsAssumption DEF LabelsAssumption, ValidLabels, ValidShape
  <2>2. l = <<m.prefix, "unknown">>
    BY <1>1, <1>3 DEF MissingLabels
  <2> QED BY <2>1, <2>2, PrefixManaged
<1> QED BY <1>2, <1>3

(* Whatever one review derives, every other one recognises as its own:     *)
(* DeriveLabels never asks for a label that labelManaged does not know.    *)
THEOREM DerivedIsManaged ==
  ASSUME NEW input, Derivable(input), NEW l \in DesiredLabels(input)
  PROVE  Managed(l)
<1>1. CASE l \in Static
  BY <1>1 DEF Managed, ManagedNames
<1>2. CASE l \notin Static
  <2>1. PICK m \in Mappings : l \in LabelsForMapping(m, input)
    BY <1>2 DEF DesiredLabels
  <2>2. m.source \in SingleSources \cup SetSources \cup {"token_usage"}
    BY LabelsAssumption DEF LabelsAssumption, ValidLabels
  <2>3. CASE l \in MissingLabels(m)
    BY <2>3, MissingManaged
  <2>4. CASE m.source \in SingleSources /\ l \notin MissingLabels(m)
    <3>1. l \in Range(m.values)
      BY <2>1, <2>4 DEF LabelsForMapping, SingleSources, SetSources, Range
    <3> QED BY <3>1 DEF Managed, ManagedNames
  <2>5. CASE m.source \in SetSources /\ l \notin MissingLabels(m)
    <3>1. m.prefix # Plain
      BY <2>5, LabelsAssumption
      DEF LabelsAssumption, ValidLabels, ValidShape, SetSources
    <3>2. PICK value \in input[m.source] : l = <<m.prefix, value>>
      BY <2>1, <2>5 DEF LabelsForMapping, SingleSources, SetSources
    <3> QED BY <3>1, <3>2, PrefixManaged
  <2>6. CASE m.source = "token_usage" /\ l \notin MissingLabels(m)
    <3>1. UsageKnown(input)
      BY <2>1, <2>6 DEF LabelsForMapping, UsageLabels, SingleSources, SetSources
    <3>2. CASE m.buckets = <<>>
      <4>1. m.prefix # Plain
        BY <2>6, <3>2, LabelsAssumption
        DEF LabelsAssumption, ValidLabels, ValidShape, SetSources
      <4>2. l = <<m.prefix, ToString(TokenUsage(input))>>
        BY <2>1, <2>6, <3>1, <3>2 DEF LabelsForMapping, UsageLabels, SingleSources, SetSources
      <4> QED BY <4>1, <4>2, PrefixManaged
    <3>3. CASE m.buckets # <<>>
      <4> DEFINE i == Min(MatchingBuckets(m, TokenUsage(input)))
      <4>1. i \in DOMAIN m.buckets
        BY <2>6, <3>1, <3>3, BucketFound DEF Derivable
      <4>2. l = m.buckets[i].label
        BY <2>1, <2>6, <3>1, <3>3 DEF LabelsForMapping, UsageLabels, SingleSources, SetSources
      <4>3. l \in BucketLabels(m)
        BY <4>1, <4>2 DEF BucketLabels
      <4> QED BY <4>3 DEF Managed, ManagedNames
    <3> QED BY <3>2, <3>3
  <2> QED BY <2>2, <2>3, <2>4, <2>5, <2>6
<1> QED BY <1>1, <1>2

LEMMA OwnIsManaged == \A l \in Own : Managed(l)
<1> SUFFICES ASSUME NEW l \in Own PROVE Managed(l)
  OBVIOUS
<1>1. CASE l \in Static \cup ReservedNames
  BY <1>1 DEF Managed, ManagedNames
<1>2. CASE l \notin Static \cup ReservedNames
  <2>1. PICK i \in Inputs : Derivable(i) /\ l \in DesiredLabels(i)
    BY <1>2 DEF Own
  <2> QED BY <2>1, DerivedIsManaged
<1> QED BY <1>1, <1>2

-----------------------------------------------------------------------------
(* The job.                                                                *)

JobFields == {"pc", "captured", "desired", "clearing", "seen", "missing", "verified", "why"}

(* After a verification.                                                   *)
Settled == {"recheck_after", "expect_after", "synced", "stale"}

(* The changes that are left tell whether somebody came after the          *)
(* verification; as long as nobody did, it holds.                          *)
LabelsInv ==
  /\ left \in [{"change", "fault"} -> Nat]
  /\ DOMAIN job = JobFields
  /\ job.desired \subseteq Own
  /\ job.clearing \in BOOLEAN
  /\ job.clearing => job.desired = {}
  /\ job.pc \in {"capture", "review"} => ~job.clearing
  /\ job.pc = "stale" => job.clearing
  /\ job.pc \in Settled =>
       /\ job.verified \in Nat /\ left["change"] <= job.verified
       /\ left["change"] = job.verified => labels \cap Own = job.desired

LEMMA ChangeCounts ==
  ASSUME LabelsInv, Spend("change"), UNCHANGED job
  PROVE  LabelsInv'
<1>1. left' \in [{"change", "fault"} -> Nat] /\ left'["change"] < left["change"]
  BY DEF LabelsInv, Spend
<1>2. job.pc \in Settled => left'["change"] < job.verified
  BY <1>1 DEF LabelsInv
<1> QED BY <1>1, <1>2 DEF LabelsInv

(* A step of the client leaves the count of changes alone.                 *)
Uncounted == left' \in [{"change", "fault"} -> Nat] /\ left'["change"] = left["change"]

LEMMA FaultUncounted ==
  ASSUME LabelsInv, Spend("fault") \/ UNCHANGED left
  PROVE  Uncounted
  BY DEF LabelsInv, Spend, Uncounted

LEMMA FetchUncounted ==
  ASSUME LabelsInv, FetchStep
  PROVE  Uncounted
<1>1. Spend("fault") \/ UNCHANGED left
  <2>1. CASE fetch.at \in Routed /\ Refused(fetch.at)
    BY <2>1 DEF Refused
  <2>2. CASE ReadFails
    BY <2>2 DEF ReadFails
  <2>3. CASE ReadWhole
    BY <2>3 DEF ReadWhole
  <2>4. CASE ReadPage
    BY <2>4 DEF ReadPage
  <2>5. CASE Classify
    BY <2>5 DEF Classify
  <2> QED BY <2>1, <2>2, <2>3, <2>4, <2>5 DEF FetchStep
<1> QED BY <1>1, FaultUncounted

(* A step of the job that is not a verification: the job may go from one   *)
(* settled phase to the next, or to a phase that is not settled.           *)
LEMMA JobStep ==
  ASSUME LabelsInv, Uncounted, DOMAIN job' = JobFields,
         UNCHANGED job.verified,
         job'.desired \subseteq Own, job'.clearing \in BOOLEAN,
         job'.clearing => job'.desired = {},
         job'.pc \in {"capture", "review"} => ~job'.clearing,
         job'.pc = "stale" => job'.clearing,
         job'.pc \in Settled =>
           job.pc \in Settled /\ labels' = labels /\ job'.desired = job.desired
  PROVE  LabelsInv'
<1>1. job'.pc \in Settled =>
        /\ job'.verified \in Nat /\ left'["change"] <= job'.verified
        /\ left'["change"] = job'.verified => labels' \cap Own = job'.desired
  BY DEF LabelsInv, Uncounted
<1> QED BY <1>1 DEF LabelsInv, Uncounted

(* A step to another phase, with everything else of the job kept.          *)
LEMMA PhaseStep ==
  ASSUME LabelsInv, Uncounted, NEW pc, job' = [job EXCEPT !.pc = pc],
         pc \notin {"capture", "stale"}, pc = "review" => job.pc = "capture",
         pc \in Settled => job.pc \in Settled /\ labels' = labels
  PROVE  LabelsInv'
<1>1. /\ DOMAIN job' = JobFields /\ job'.pc = pc
      /\ job'.desired = job.desired /\ job'.clearing = job.clearing
      /\ job'.verified = job.verified
  BY DEF LabelsInv, JobFields
<1> QED BY <1>1, JobStep DEF LabelsInv

LEMMA LabelsInit == Init => LabelsInv
<1> SUFFICES ASSUME Init PROVE LabelsInv
  OBVIOUS
<1>1. left \in [{"change", "fault"} -> Nat]
  <2>1. MaxChanges \in Nat /\ MaxFaults \in Nat
    BY ReadsAssumption DEF ReadsAssumption
  <2>2. left = [change |-> MaxChanges, fault |-> MaxFaults]
    BY DEF Init, ReadsInit
  <2> QED BY <2>1, <2>2
<1>2. /\ DOMAIN job = JobFields /\ job.desired = {} /\ job.clearing = FALSE
      /\ job.pc = "capture"
  BY DEF Init, JobFields
<1> QED BY <1>1, <1>2 DEF LabelsInv, Settled

(* Only a verification settles; what it settles is what it saw.            *)
LEMMA VerifyStep ==
  ASSUME LabelsInv, Verify
  PROVE  LabelsInv'
<1>1. PICK pc : pc = IF ~Verified THEN "failed"
                     ELSE IF job.clearing THEN "stale" ELSE "recheck_after"
  OBVIOUS
<1>2. job' = [job EXCEPT !.verified = left["change"], !.pc = pc]
  BY <1>1 DEF Verify
<1>3. /\ DOMAIN job' = JobFields /\ job'.pc = pc /\ job'.verified = left["change"]
      /\ job'.desired = job.desired /\ job'.clearing = job.clearing
  BY <1>2 DEF LabelsInv, JobFields
<1>4. left' = left /\ labels' = labels
  BY DEF Verify, labelVars
<1>5. pc \in Settled => labels \cap Own = job.desired
  <2>1. pc \in Settled => Verified
    BY <1>1 DEF Settled
  <2> QED BY <2>1, OwnIsManaged DEF Verified, LabelsInv
<1>6. left["change"] \in Nat
  BY DEF LabelsInv
<1>7. pc \notin {"capture", "review"} /\ (pc = "stale" => job.clearing)
  BY <1>1
<1> QED BY <1>3, <1>4, <1>5, <1>6, <1>7 DEF LabelsInv

(* A job that starts to clear asks for nothing.                            *)
LEMMA RecheckedStep ==
  ASSUME LabelsInv, Rechecked
  PROVE  LabelsInv'
<1>1. Uncounted /\ labels' = labels
  BY FaultUncounted DEF Rechecked, Answered, labelVars
<1>2. CASE fetch.at = "done" /\ NotePrints = job.captured
  <2>1. PICK pc : pc = IF job.pc = "recheck" THEN "read" ELSE "expect_after"
    OBVIOUS
  <2>2. job' = [job EXCEPT !.pc = pc]
    BY <1>2, <2>1 DEF Rechecked
  <2>3. pc \in Settled => job.pc \in Settled
    BY <2>1 DEF Rechecked, Settled
  <2> QED BY <1>1, <2>1, <2>2, <2>3, PhaseStep
<1>3. CASE ~(fetch.at = "done" /\ NotePrints = job.captured)
  <2>1. PICK pc : pc = IF job.pc = "recheck" THEN "read" ELSE "expect_stale"
    OBVIOUS
  <2>2. job' = Clearing(pc)
    BY <1>3, <2>1 DEF Rechecked
  <2>3. /\ DOMAIN job' = JobFields /\ job'.pc = pc /\ job'.verified = job.verified
        /\ job'.desired = {} /\ job'.clearing = TRUE
    BY <2>2 DEF LabelsInv, JobFields, Clearing
  <2>4. pc \notin Settled \cup {"capture", "review"}
    BY <2>1 DEF Settled
  <2> QED BY <1>1, <2>3, <2>4, JobStep DEF Settled
<1> QED BY <1>2, <1>3

LEMMA LabelsInductive == LabelsInv /\ [Next]_vars => LabelsInv'
<1> SUFFICES ASSUME LabelsInv, [Next]_vars PROVE LabelsInv'
  OBVIOUS
<1>1. CASE Fetch
  <2>1. UNCHANGED <<labels, job>>
    BY <1>1 DEF Fetch, labelVars
  <2> QED BY <1>1, <2>1, FetchUncounted DEF Fetch, LabelsInv, Uncounted
<1>2. CASE Captured
  <2>1. Uncounted /\ labels' = labels
    BY <1>2, FaultUncounted DEF Captured, Answered, labelVars
  <2>2. /\ DOMAIN job' = JobFields /\ job'.pc \in {"review", "failed"}
        /\ job'.verified = job.verified
        /\ job'.desired = job.desired /\ job'.clearing = job.clearing
    BY <1>2 DEF Captured, LabelsInv, JobFields
  <2>3. ~job.clearing
    BY <1>2 DEF Captured, LabelsInv
  <2> QED BY <2>1, <2>2, <2>3, JobStep DEF LabelsInv, Settled
<1>3. CASE Publish
  <2>1. Uncounted /\ labels' = labels
    BY <1>3, FaultUncounted DEF Publish, readVars
  <2>2. PICK input \in Inputs :
          IF Derivable(input)
            THEN job' = [job EXCEPT !.pc = "expect", !.desired = DesiredLabels(input)]
            ELSE Goto("failed")
    BY <1>3 DEF Publish
  <2>3. CASE Derivable(input)
    <3>1. /\ DOMAIN job' = JobFields /\ job'.pc = "expect"
          /\ job'.verified = job.verified /\ job'.clearing = job.clearing
          /\ job'.desired = DesiredLabels(input)
      BY <2>2, <2>3 DEF LabelsInv, JobFields
    <3>2. DesiredLabels(input) \subseteq Own
      BY <2>3 DEF Own
    <3>3. ~job.clearing /\ job.clearing \in BOOLEAN
      BY <1>3 DEF Publish, LabelsInv
    <3> QED BY <2>1, <3>1, <3>2, <3>3, JobStep DEF Settled
  <2>4. CASE ~Derivable(input)
    BY <2>1, <2>2, <2>4, PhaseStep DEF Goto, Settled
  <2> QED BY <2>3, <2>4
<1>4. CASE Expect
  <2>1. Uncounted /\ labels' = labels
    BY <1>4, FaultUncounted DEF Expect, labelVars
  <2>2. PICK pc \in {"recheck", "superseded", "read", "synced"} :
          Goto(pc) /\ (pc = "synced" => job.pc = "expect_after")
    BY <1>4 DEF Expect
  <2> QED BY <2>1, <2>2, PhaseStep DEF Goto, Settled
<1>5. CASE Rechecked
  BY <1>5, RecheckedStep
<1>6. CASE ReadLabels
  <2>1. Uncounted /\ labels' = labels
    BY <1>6, FaultUncounted DEF ReadLabels, Answered, labelVars
  <2>2. /\ DOMAIN job' = JobFields /\ job'.pc = "ensure" /\ job'.verified = job.verified
        /\ job'.desired = job.desired /\ job'.clearing = job.clearing
    BY <1>6 DEF ReadLabels, LabelsInv, JobFields
  <2> QED BY <2>1, <2>2, JobStep DEF LabelsInv, Settled
<1>7. CASE Ensure
  <2>1. Uncounted /\ labels' = labels
    BY <1>7, FaultUncounted DEF Ensure, readVars, labelVars
  <2> DEFINE missing == job.desired \ definitions
  <2>2. PICK pc \in {"update", "create", "failed"} :
          job' = [job EXCEPT !.missing = missing, !.pc = pc]
    BY <1>7 DEF Ensure
  <2>3. /\ DOMAIN job' = JobFields /\ job'.pc = pc /\ job'.verified = job.verified
        /\ job'.desired = job.desired /\ job'.clearing = job.clearing
    BY <2>2 DEF LabelsInv, JobFields
  <2> QED BY <2>1, <2>3, JobStep DEF LabelsInv, Settled
<1>8. ASSUME NextName, Uncounted PROVE LabelsInv'
  <2> DEFINE missing == job.missing \ {Name}
  <2>1. PICK pc \in {"update", "create"} :
          job' = [job EXCEPT !.missing = missing, !.pc = pc]
    BY <1>8 DEF NextName
  <2>2. /\ DOMAIN job' = JobFields /\ job'.pc = pc /\ job'.verified = job.verified
        /\ job'.desired = job.desired /\ job'.clearing = job.clearing
    BY <2>1 DEF LabelsInv, JobFields
  <2> QED BY <1>8, <2>2, JobStep DEF LabelsInv, Settled
<1>9. CASE CreateLabel
  <2>1. Uncounted
    BY <1>9, FaultUncounted DEF CreateLabel
  <2>2. NextName \/ Goto("relist")
    BY <1>9 DEF CreateLabel
  <2> QED BY <1>8, <2>1, <2>2, PhaseStep DEF Goto, Settled
<1>10. CASE Relist
  <2>1. Uncounted
    BY <1>10, FaultUncounted DEF Relist, readVars
  <2>2. NextName \/ Goto("failed")
    BY <1>10 DEF Relist
  <2> QED BY <1>8, <2>1, <2>2, PhaseStep DEF Goto, Settled
<1>11. CASE Update
  <2>1. Uncounted
    BY <1>11, FaultUncounted DEF Update
  <2>2. Goto("verify") \/ Goto("failed")
    BY <1>11 DEF Update
  <2> QED BY <2>1, <2>2, PhaseStep DEF Goto, Settled
<1>12. CASE Verify
  BY <1>12, VerifyStep
<1>13. CASE ReadRefused
  <2>1. Uncounted /\ UNCHANGED <<labels, job>>
    BY <1>13, FaultUncounted DEF ReadRefused, Refused, labelVars
  <2> QED BY <2>1 DEF LabelsInv, Uncounted
<1>14. CASE Fail
  <2>1. Uncounted /\ Goto("failed")
    BY <1>14, FaultUncounted DEF Fail
  <2> QED BY <2>1, PhaseStep DEF Goto, Settled
<1>15. CASE Others
  <2>1. Spend("change") /\ UNCHANGED job
    BY <1>15 DEF Others, Post, Withdraw, SetLabel, OtherJob
  <2> QED BY <2>1, ChangeCounts
<1>16. CASE UNCHANGED vars
  BY <1>16 DEF vars, readVars, labelVars, LabelsInv
<1> QED
  BY <1>1, <1>2, <1>3, <1>4, <1>5, <1>6, <1>7, <1>9, <1>10, <1>11, <1>12, <1>13,
     <1>14, <1>15, <1>16 DEF Next, ClientStep

(* A job that reports its labels as set has exactly its own of all labels  *)
(* that any review with the configuration may set, unless somebody came    *)
(* after the verification.                                                 *)
THEOREM SyncedCorrect == Spec => []SyncedIsExact
<1>1. LabelsInv => SyncedIsExact
  BY DEF LabelsInv, SyncedIsExact, Undisturbed, Settled
<1> QED BY <1>1, LabelsInit, LabelsInductive, PTL DEF Spec

(* A job that ends with a stale context has left none of them.             *)
THEOREM ClearedCorrect == Spec => []StaleIsCleared
<1>1. LabelsInv => StaleIsCleared
  BY DEF LabelsInv, StaleIsCleared, Undisturbed, Settled
<1> QED BY <1>1, LabelsInit, LabelsInductive, PTL DEF Spec

-----------------------------------------------------------------------------
(* The labels of others.                                                   *)

OfConfiguration(l) == l \in Configured \/ l[1] \in ConfiguredGroups

LEMMA ManagedIsConfigured ==
  ASSUME NEW l, Managed(l)
  PROVE  OfConfiguration(l)
<1>1. \A m \in Mappings : Range(m.values) \cup BucketLabels(m) \subseteq Configured
  BY DEF Configured, Outputs
<1>2. CASE l \in ManagedNames
  BY <1>1, <1>2 DEF ManagedNames, Configured, OfConfiguration
<1>3. CASE ScopeOf(l) \in ManagedScopes
  <2>1. ScopeOf(l) # Plain /\ l[1] = ScopeOf(l)
    BY <1>3 DEF ManagedScopes, ScopeOf
  <2>2. \/ ScopeOf(l) \in ReservedScopes
        \/ \E k \in Configured : ScopeOf(l) = ScopeOf(k)
    BY <1>3 DEF ManagedScopes, Configured
  <2>3. \A k : ScopeOf(k) # Plain => k[1] = ScopeOf(k)
    BY DEF ScopeOf
  <2>4. l[1] \in ReservedScopes \cup {k[1] : k \in Configured}
    BY <2>1, <2>2, <2>3
  <2> QED BY <2>1, <2>4 DEF ConfiguredGroups, OfConfiguration
<1>4. CASE l[1] \in ManagedPrefixes
  <2>1. PICK m \in Mappings : l[1] = m.prefix /\ m.prefix # Plain
    BY <1>4 DEF ManagedPrefixes
  <2>2. <<m.prefix, "value">> \in Configured
    BY <2>1 DEF Outputs, Configured
  <2>3. <<m.prefix, "value">>[1] = m.prefix
    OBVIOUS
  <2> QED BY <2>1, <2>2, <2>3 DEF ConfiguredGroups, OfConfiguration
<1> QED BY <1>2, <1>3, <1>4 DEF Managed

LEMMA SameScopeConfigured ==
  ASSUME NEW l, NEW k, OfConfiguration(k), ScopeOf(k) # Plain, ScopeOf(l) = ScopeOf(k)
  PROVE  OfConfiguration(l)
<1>1. l[1] = ScopeOf(l) /\ k[1] = ScopeOf(k)
  BY DEF ScopeOf
<1> QED BY <1>1 DEF OfConfiguration, ConfiguredGroups

LEMMA UpdateIsConfigured ==
  ASSUME LabelsInv, NEW l \in (labels \ Updated) \cup (Updated \ labels)
  PROVE  OfConfiguration(l)
<1>1. ToAdd \subseteq Own
  BY DEF ToAdd, LabelsInv
<1>2. \A k \in ToAdd : OfConfiguration(k)
  BY <1>1, OwnIsManaged, ManagedIsConfigured
<1>3. CASE l \in ToAdd
  BY <1>2, <1>3
<1>4. CASE l \in ToRemove
  BY <1>4, ManagedIsConfigured DEF ToRemove
<1>5. CASE l \notin ToAdd \cup ToRemove
  <2>1. ScopeOf(l) \in {ScopeOf(k) : k \in ToAdd} \ {Plain}
    BY <1>5 DEF Updated, Assigned
  <2> QED BY <1>2, <2>1, SameScopeConfigured
<1> QED BY <1>3, <1>4, <1>5

(* The job never takes off or puts on a label that the configuration does  *)
(* not name, and whose scope or prefix it does not use.                    *)
THEOREM UnrelatedCorrect == Spec => UnrelatedUntouched
<1>1. LabelsInv /\ [Next]_vars =>
        [job' # job =>
           \A l \in (labels \ labels') \cup (labels' \ labels) :
             l \in Configured \/ l[1] \in ConfiguredGroups]_vars
  <2> SUFFICES ASSUME LabelsInv, Next, job' # job,
                      NEW l \in (labels \ labels') \cup (labels' \ labels)
               PROVE  OfConfiguration(l)
    BY DEF OfConfiguration
  <2>1. labels' = labels \/ Update
    BY DEF Next, ClientStep, Others, Fetch, Captured, Publish, Expect, Rechecked, ReadLabels,
           Ensure, CreateLabel, Relist, Verify, ReadRefused, Fail, SetLabel, OtherJob,
           Answered, labelVars
  <2>2. labels' = labels \/ labels' = Updated
    BY <2>1 DEF Update
  <2> QED BY <2>2, UpdateIsConfigured
<1> QED BY <1>1, LabelsInit, LabelsInductive, PTL DEF Spec, UnrelatedUntouched

-----------------------------------------------------------------------------
(* Ranks: where an element stands in a finite set that is ordered.         *)

RankOf(T, R, t) == Cardinality({s \in T : <<s, t>> \in R})

Orders(R, T) ==
  /\ \A s \in T : <<s, s>> \in R
  /\ \A s, t \in T : <<s, t>> \in R \/ <<t, s>> \in R
  /\ \A s, t \in T : <<s, t>> \in R /\ <<t, s>> \in R => s = t
  /\ \A s, t, u \in T : <<s, t>> \in R /\ <<t, u>> \in R => <<s, u>> \in R

Rising  == {p \in Nat \X Nat : p[1] <= p[2]}
Falling == {p \in Nat \X Nat : p[1] >= p[2]}

LEMMA BothOrder ==
  ASSUME NEW T \in SUBSET Nat
  PROVE  Orders(Rising, T) /\ Orders(Falling, T)
<1>1. /\ \A s, t \in T : <<s, t>> \in Rising <=> s <= t
      /\ \A s, t \in T : <<s, t>> \in Falling <=> s >= t
  BY DEF Rising, Falling
<1>2. \A s \in T : s \in Nat
  OBVIOUS
<1> HIDE DEF Rising, Falling
<1>3. Orders(Rising, T)
  BY <1>1, <1>2 DEF Orders
<1>4. Orders(Falling, T)
  BY <1>1, <1>2 DEF Orders
<1> QED BY <1>3, <1>4

(* Every place up to the number of elements is taken, by one element.      *)
LEMMA RankSurjective ==
  ASSUME NEW T, IsFiniteSet(T), NEW R, Orders(R, T)
  PROVE  /\ Cardinality(T) \in Nat
         /\ \A t \in T : RankOf(T, R, t) \in 1 .. Cardinality(T)
         /\ \A i \in 1 .. Cardinality(T) : \E t \in T : RankOf(T, R, t) = i
<1> DEFINE N        == Cardinality(T)
           below(t) == {s \in T : <<s, t>> \in R}
           f        == [t \in T |-> Cardinality(below(t))]
<1>1. N \in Nat
  BY FS_CardinalityType
<1>2. ASSUME NEW t \in T
      PROVE  IsFiniteSet(below(t)) /\ Cardinality(below(t)) \in 1 .. N
  <2>1. below(t) \in SUBSET T /\ t \in below(t)
    BY DEF Orders
  <2>2. IsFiniteSet(below(t)) /\ Cardinality(below(t)) <= N
    BY <2>1, FS_Subset
  <2>3. Cardinality(below(t)) \in Nat /\ Cardinality(below(t)) # 0
    BY <2>1, <2>2, FS_CardinalityType, FS_EmptySet
  <2> QED BY <1>1, <2>2, <2>3
<1>3. f \in [T -> 1 .. N]
  BY <1>2
<1>4. ASSUME NEW s \in T, NEW t \in T, <<s, t>> \in R, f[s] = f[t]
      PROVE  s = t
  <2>1. below(s) \in SUBSET below(t) /\ t \in below(t)
    BY <1>4 DEF Orders
  <2>2. Cardinality(below(t)) = Cardinality(below(s))
    BY <1>4
  <2>3. IsFiniteSet(below(t))
    BY <1>2
  <2> HIDE DEF below
  <2>4. below(t) = below(s)
    BY <2>1, <2>2, <2>3, FS_Subset
  <2>5. <<t, s>> \in R
    BY <2>1, <2>4 DEF below
  <2> QED BY <1>4, <2>5 DEF Orders
<1>5. \A s, t \in T : f[s] = f[t] => s = t
  BY <1>4 DEF Orders
<1> HIDE DEF f
<1>6. f \in Injection(T, 1 .. N)
  BY <1>3, <1>5, Fun_IsInj
<1>7. IsFiniteSet(1 .. N) /\ Cardinality(1 .. N) = N
  BY <1>1, FS_Interval
<1>8. f \in Surjection(T, 1 .. N)
  BY <1>6, <1>7, FS_Injection
<1>9. \A i \in 1 .. N : \E t \in T : f[t] = i
  BY <1>8, Fun_SurjectionProperties
<1>10. \A t \in T : f[t] = RankOf(T, R, t)
  BY DEF f, RankOf
<1> QED BY <1>1, <1>3, <1>9, <1>10

(* More elements do not lower a rank.                                      *)
LEMMA RankMonotone ==
  ASSUME NEW U, IsFiniteSet(U), NEW T \in SUBSET U, NEW R, NEW t
  PROVE  RankOf(T, R, t) <= RankOf(U, R, t) /\ RankOf(U, R, t) \in Nat
<1> DEFINE lower  == {s \in T : <<s, t>> \in R}
           higher == {s \in U : <<s, t>> \in R}
<1>1. IsFiniteSet(higher)
  BY FS_Subset
<1>2. Cardinality(lower) <= Cardinality(higher)
  BY <1>1, FS_Subset
<1> QED BY <1>1, <1>2, FS_CardinalityType DEF RankOf

-----------------------------------------------------------------------------
(* Pages of a listing.                                                     *)

Shown(token) ==
  {n \in Notes : notes[n] = "public" \/ (notes[n] = "restricted" /\ token = "api")}

Threads(token) == {Thread[n] : n \in Shown(token)}

(* Where note n stands in the list of an endpoint.                         *)
Place(endpoint, token, n) ==
  IF endpoint = "notes" THEN RankOf(Shown(token), Falling, n)
                        ELSE RankOf(Threads(token), Rising, Thread[n])

LEMMA ShownFinite ==
  ASSUME NEW token
  PROVE  /\ IsFiniteSet(Shown(token)) /\ Shown(token) \subseteq Nat
         /\ Cardinality(Shown(token)) \in Nat
         /\ Cardinality(Shown(token)) <= Cardinality(Notes)
         /\ IsFiniteSet(Threads(token)) /\ Threads(token) \subseteq Nat
         /\ Cardinality(Threads(token)) \in Nat
         /\ Cardinality(Threads(token)) <= Cardinality(Notes)
<1>1. IsFiniteSet(Notes) /\ Notes \subseteq Nat /\ \A n \in Notes : Thread[n] \in Notes
  BY ReadsAssumption DEF ReadsAssumption
<1>2. Shown(token) \in SUBSET Notes /\ Threads(token) \in SUBSET Notes
  BY <1>1 DEF Shown, Threads
<1> QED BY <1>1, <1>2, FS_Subset, FS_CardinalityType

(* A listing has one entry for every place, and every note has a place.    *)
LEMMA ListingShape ==
  ASSUME NEW endpoint, NEW token
  PROVE  LET all == Listing(endpoint, token)
         IN /\ Len(all) \in Nat /\ Len(all) <= Cardinality(Notes)
            /\ DOMAIN all = 1 .. Len(all)
            /\ \A i \in 1 .. Len(all) :
                 all[i] = {n \in Shown(token) : Place(endpoint, token, n) = i}
            /\ \A n \in Shown(token) : Place(endpoint, token, n) \in 1 .. Len(all)
            /\ \A i \in 1 .. Len(all) : all[i] # {}
<1> DEFINE shown   == Shown(token)
           threads == Threads(token)
           all     == Listing(endpoint, token)
<1>1. /\ IsFiniteSet(shown) /\ shown \subseteq Nat
      /\ Cardinality(shown) \in Nat /\ Cardinality(shown) <= Cardinality(Notes)
      /\ IsFiniteSet(threads) /\ threads \subseteq Nat
      /\ Cardinality(threads) \in Nat /\ Cardinality(threads) <= Cardinality(Notes)
  BY ShownFinite
<1>2. \A n \in shown : Thread[n] \in threads /\ Thread[n] \in Nat /\ n \in Nat
  BY <1>1 DEF Threads
<1>3. CASE endpoint = "notes"
  <2>1. \A n \in shown : Place(endpoint, token, n) = Cardinality({m \in shown : m >= n})
    <3> SUFFICES ASSUME NEW n \in shown
                 PROVE  {m \in shown : m >= n} = {m \in shown : <<m, n>> \in Falling}
      BY <1>3 DEF Place, RankOf
    <3> QED BY <1>1 DEF Falling
  <2>2. all = [i \in 1 .. Cardinality(shown) |->
                 {n \in shown : Cardinality({m \in shown : m >= n}) = i}]
    BY <1>3 DEF Listing, Shown
  <2> HIDE DEF shown, all
  <2>3. all \in Seq(SUBSET shown) /\ DOMAIN all = 1 .. Cardinality(shown)
    <3>1. all \in [1 .. Cardinality(shown) -> SUBSET shown]
      BY <2>2
    <3> QED BY <1>1, <3>1
  <2>4. Len(all) = Cardinality(shown)
    BY <1>1, <2>3
  <2>5. /\ \A n \in shown : Place(endpoint, token, n) \in 1 .. Cardinality(shown)
        /\ \A i \in 1 .. Cardinality(shown) : \E n \in shown : Place(endpoint, token, n) = i
    <3>1. /\ \A n \in shown : RankOf(shown, Falling, n) \in 1 .. Cardinality(shown)
          /\ \A i \in 1 .. Cardinality(shown) :
               \E n \in shown : RankOf(shown, Falling, n) = i
      BY <1>1, BothOrder, RankSurjective
    <3>2. \A n \in shown : Place(endpoint, token, n) = RankOf(shown, Falling, n)
      BY <1>3 DEF Place, shown
    <3> QED BY <3>1, <3>2
  <2>6. \A i \in 1 .. Len(all) : all[i] = {n \in shown : Place(endpoint, token, n) = i}
    BY <2>1, <2>2, <2>4
  <2> QED BY <1>1, <2>3, <2>4, <2>5, <2>6 DEF shown, all
<1>4. CASE endpoint # "notes"
  <2>1. \A n \in shown :
          Place(endpoint, token, n) = Cardinality({t \in threads : t <= Thread[n]})
    <3> SUFFICES ASSUME NEW n \in shown
                 PROVE  {t \in threads : t <= Thread[n]}
                          = {t \in threads : <<t, Thread[n]>> \in Rising}
      BY <1>4 DEF Place, RankOf
    <3> QED BY <1>1, <1>2 DEF Rising
  <2>2. all = [i \in 1 .. Cardinality(threads) |->
                 {n \in shown : Cardinality({t \in threads : t <= Thread[n]}) = i}]
    BY <1>4 DEF Listing, Shown, Threads
  <2>3. \A n \in shown : Thread[n] \in threads
    BY <1>2
  <2>4. \A t \in threads : \E n \in shown : t = Thread[n]
    BY DEF Threads
  <2> HIDE DEF shown, threads, all
  <2>5. all \in Seq(SUBSET shown) /\ DOMAIN all = 1 .. Cardinality(threads)
    <3>1. all \in [1 .. Cardinality(threads) -> SUBSET shown]
      BY <2>2
    <3> QED BY <1>1, <3>1
  <2>6. Len(all) = Cardinality(threads)
    BY <1>1, <2>5
  <2>7. /\ \A t \in threads : RankOf(threads, Rising, t) \in 1 .. Cardinality(threads)
        /\ \A i \in 1 .. Cardinality(threads) : \E t \in threads : RankOf(threads, Rising, t) = i
    BY <1>1, BothOrder, RankSurjective
  <2>8. \A n \in shown : Place(endpoint, token, n) = RankOf(threads, Rising, Thread[n])
    BY <1>4 DEF Place, threads
  <2>9. /\ \A n \in shown : Place(endpoint, token, n) \in 1 .. Cardinality(threads)
        /\ \A i \in 1 .. Cardinality(threads) : \E n \in shown : Place(endpoint, token, n) = i
    BY <2>3, <2>4, <2>7, <2>8
  <2>10. \A i \in 1 .. Len(all) : all[i] = {n \in shown : Place(endpoint, token, n) = i}
    BY <2>1, <2>2, <2>6
  <2> QED BY <1>1, <2>5, <2>6, <2>9, <2>10 DEF shown, all
<1> QED BY <1>3, <1>4

LEMMA PlaceTyped ==
  ASSUME NEW endpoint, NEW token, NEW n \in Shown(token)
  PROVE  Place(endpoint, token, n) \in Nat \ {0}
<1>1. /\ Len(Listing(endpoint, token)) \in Nat
      /\ Place(endpoint, token, n) \in 1 .. Len(Listing(endpoint, token))
  BY ListingShape
<1> HIDE DEF Place, Listing
<1> QED BY <1>1

LEMMA PageBounds ==
  ASSUME NEW page \in Nat \ {0}
  PROVE  /\ (page - 1) * PageSize \in Nat /\ page * PageSize \in Nat
         /\ page * PageSize = (page - 1) * PageSize + PageSize
         /\ page <= page * PageSize /\ PageSize > 0
         /\ ((page + 1) - 1) * PageSize = page * PageSize
<1>1. PageSize \in Nat \ {0}
  BY ReadsAssumption DEF ReadsAssumption
<1>2. page - 1 \in Nat /\ (page + 1) - 1 = page
  OBVIOUS
<1>3. page * PageSize = (page - 1) * PageSize + PageSize
  BY <1>1, <1>2
<1>4. page <= page * PageSize
  BY <1>1
<1> QED BY <1>1, <1>2, <1>3, <1>4

(* A page has the notes with its places, and an empty page is beyond all.  *)
LEMMA PagePlaces ==
  ASSUME NEW endpoint, NEW token, NEW page \in Nat \ {0}, NEW n \in Shown(token)
  PROVE  /\ Place(endpoint, token, n) \in Nat \ {0}
         /\ Place(endpoint, token, n) <= Len(Listing(endpoint, token))
         /\ /\ (page - 1) * PageSize < Place(endpoint, token, n)
            /\ Place(endpoint, token, n) <= page * PageSize
            => n \in Page(endpoint, token, page)
         /\ Page(endpoint, token, page) = {} =>
              Place(endpoint, token, n) <= (page - 1) * PageSize
<1> DEFINE all == Listing(endpoint, token)
           b   == (page - 1) * PageSize
           e   == page * PageSize
           p   == Place(endpoint, token, n)
<1>1. /\ Len(all) \in Nat /\ DOMAIN all = 1 .. Len(all)
      /\ \A i \in 1 .. Len(all) :
           all[i] = {m \in Shown(token) : Place(endpoint, token, m) = i}
      /\ \A m \in Shown(token) : Place(endpoint, token, m) \in 1 .. Len(all)
      /\ \A i \in 1 .. Len(all) : all[i] # {}
  BY ListingShape
<1>2. b \in Nat /\ e \in Nat /\ e = b + PageSize /\ PageSize > 0 /\ PageSize \in Nat
  BY PageBounds, ReadsAssumption DEF ReadsAssumption
<1>3. Page(endpoint, token, page) = UNION {all[i] : i \in {j \in DOMAIN all : b < j /\ j <= e}}
  BY DEF Page
<1>4. p \in 1 .. Len(all) /\ n \in all[p]
  BY <1>1
<1> HIDE DEF all, b, e, p
<1>5. b < p /\ p <= e => n \in Page(endpoint, token, page)
  BY <1>1, <1>3, <1>4
<1>6. ASSUME b < p PROVE Page(endpoint, token, page) # {}
  <2>1. b + 1 \in 1 .. Len(all) /\ b < b + 1 /\ b + 1 <= e
    BY <1>1, <1>2, <1>4, <1>6
  <2>2. all[b + 1] # {}
    BY <1>1, <2>1
  <2> QED BY <1>1, <1>3, <2>1, <2>2
<1> QED BY <1>1, <1>2, <1>4, <1>5, <1>6 DEF all, b, e, p

-----------------------------------------------------------------------------
(* What a fetch holds.                                                     *)

FetchFields == {"at", "fellBack", "page", "list", "found", "kinds", "base"}
FetchPhases == {"off", "merge_request", "notes", "discussions", "labels", "authors", "done",
                "failed"}

(* Notes are restricted from their birth or never, and deleted for good.   *)
Later(old, new) ==
  \A n \in Notes : /\ old[n] = "gone" => new[n] = "gone"
                   /\ old[n] = "public" => new[n] \in {"public", "gone"}
                   /\ old[n] = "restricted" => new[n] \in {"restricted", "gone"}

(* What was read of a note remains true, unless the note is gone.          *)
Stated(item) ==
  /\ item \in Notes \X BOOLEAN
  /\ fetch.base[item[1]] # "gone"
  /\ item[2] => notes[item[1]] \in {"restricted", "gone"}
  /\ ~item[2] => notes[item[1]] \in {"public", "gone"}

(* Authors are known as they were first looked up, in every fetch.         *)
AuthorsKnown ==
  /\ \A u \in DOMAIN authors : u \in Range(Author) /\ authors[u] \in Kinds
  /\ \A u \in DOMAIN fetch.kinds : u \in DOMAIN authors /\ fetch.kinds[u] = authors[u]

FetchInv ==
  /\ notes \in [Notes -> Statuses] /\ hasJobToken \in BOOLEAN /\ denied \subseteq Routed
  /\ DOMAIN fetch = FetchFields /\ fetch.at \in FetchPhases /\ fetch.fellBack \in BOOLEAN
  /\ fetch.page \in 1 .. (Cardinality(Notes) + 1)
  /\ fetch.base \in [Notes -> Statuses]
  /\ Later(Early, notes) /\ Later(fetch.base, notes)
  /\ \A item \in fetch.list \cup fetch.found : Stated(item)
  /\ AuthorsKnown
  /\ fetch.at = "done" => \A n \in Visible(fetch.found) : Author[n] \in DOMAIN fetch.kinds

LEMMA PagesTyped == Cardinality(Notes) \in Nat /\ 1 \in 1 .. (Cardinality(Notes) + 1)
BY ReadsAssumption, FS_CardinalityType DEF ReadsAssumption

LEMMA AfterTyped ==
  /\ DOMAIN After = {"merge_request", "notes", "discussions", "labels"}
  /\ After["merge_request"] = "notes" /\ After["notes"] = "discussions"
  /\ After["discussions"] = "labels" /\ After["labels"] = "authors"
BY DEF After

LEMMA NoFetchTyped ==
  /\ DOMAIN NoFetch = FetchFields /\ NoFetch.at = "off" /\ NoFetch.fellBack = FALSE
  /\ NoFetch.page = 1 /\ NoFetch.list = {} /\ NoFetch.found = {} /\ DOMAIN NoFetch.kinds = {}
  /\ NoFetch.base = Early
BY DEF NoFetch, FetchFields

(* The steps of the system as the reads see them.                          *)
LEMMA NextReads ==
  ASSUME [Next]_vars
  PROVE  \/ \E endpoint \in Routed : Refused(endpoint)
         \/ ReadFails \/ ReadWhole \/ ReadPage \/ Classify
         \/ /\ UNCHANGED <<notes, hasJobToken, denied, authors>>
            /\ fetch' = fetch \/ fetch' = NoFetch \/ BeginFetch
         \/ \E n \in Notes : Post(n) \/ Withdraw(n)
<1>1. CASE Fetch \/ ReadRefused
  BY <1>1 DEF Fetch, FetchStep, ReadRefused, Routed
<1>2. CASE Captured \/ Rechecked \/ ReadLabels
  BY <1>2 DEF Captured, Rechecked, ReadLabels, Answered
<1>3. CASE Expect \/ Verify
  BY <1>3 DEF Expect, Verify
<1>4. CASE Publish \/ Ensure \/ CreateLabel \/ Relist \/ Update \/ Fail \/ UNCHANGED vars
  BY <1>4 DEF Publish, Ensure, CreateLabel, Relist, Update, Fail, vars, readVars
<1>5. CASE Others
  BY <1>5 DEF Others, SetLabel, OtherJob
<1> QED BY <1>1, <1>2, <1>3, <1>4, <1>5 DEF Next, ClientStep

(* The outcome of reading a page.                                          *)
LEMMA PageOutcome ==
  ASSUME FetchInv, ReadPage
  PROVE  LET endpoint == fetch.at
             token    == Token(endpoint)
             items    == Page(endpoint, token, fetch.page)
             size     == Len(Listing(endpoint, token))
         IN /\ endpoint \in {"notes", "discussions"}
            /\ UNCHANGED <<notes, hasJobToken, denied, authors>>
            /\ DOMAIN fetch' = FetchFields
            /\ fetch'.base = fetch.base /\ fetch'.kinds = fetch.kinds
            /\ \/ /\ size <= fetch.page * PageSize \/ items = {}
                  /\ fetch'.at = After[endpoint] /\ fetch'.fellBack = FALSE
                  /\ fetch'.page = 1 /\ fetch'.list = {}
                  /\ fetch'.found = fetch.found \cup fetch.list \cup Entries(items)
               \/ /\ fetch.page * PageSize < size
                  /\ fetch'.at = endpoint /\ fetch'.fellBack = fetch.fellBack
                  /\ fetch'.page = fetch.page + 1
                  /\ fetch'.list = fetch.list \cup Entries(items)
                  /\ fetch'.found = fetch.found
               \/ /\ fetch'.at = "failed" /\ fetch'.fellBack = fetch.fellBack
                  /\ fetch'.page = fetch.page
                  /\ fetch'.list = fetch.list /\ fetch'.found = fetch.found
<1> DEFINE endpoint == fetch.at
           token    == Token(endpoint)
           items    == Page(endpoint, token, fetch.page)
           size     == Len(Listing(endpoint, token))
           more     == size > fetch.page * PageSize
           read     == [fetch EXCEPT !.list = @ \cup Entries(items)]
<1>1. /\ endpoint \in {"notes", "discussions"}
      /\ UNCHANGED <<notes, hasJobToken, denied, authors>>
  BY DEF ReadPage, Paged
<1>2. PICK headers \in {"sound", "missing", "wrong"} :
        LET next == NextPage(items, more, headers)
        IN fetch' = CASE next = 0              -> [Done EXCEPT !.found = fetch.found \cup read.list]
                      [] next = fetch.page + 1 -> [read EXCEPT !.page = next]
                      [] OTHER                 -> [fetch EXCEPT !.at = "failed"]
  BY DEF ReadPage
<1> DEFINE next == NextPage(items, more, headers)
<1>3. DOMAIN fetch = FetchFields /\ fetch.page \in Nat \ {0} /\ size \in Nat
      /\ fetch.page * PageSize \in Nat
  <2>1. fetch.page \in Nat \ {0}
    BY PagesTyped DEF FetchInv
  <2> QED BY <2>1, ListingShape, PageBounds DEF FetchInv
<1>4. next = IF headers = "sound" THEN IF more THEN fetch.page + 1 ELSE 0
             ELSE IF headers = "missing" /\ items = {} THEN 0 ELSE fetch.page
  BY DEF NextPage
<1> HIDE DEF next, items, size, more, token
<1>5. CASE next = 0
  <2>1. ~more \/ items = {}
    BY <1>3, <1>4, <1>5
  <2>2. fetch' = [Done EXCEPT !.found = fetch.found \cup read.list]
    BY <1>2, <1>3, <1>5 DEF next
  <2>3. read.list = fetch.list \cup Entries(items)
    BY <1>3 DEF FetchFields
  <2>4. /\ DOMAIN fetch' = FetchFields
        /\ fetch'.base = fetch.base /\ fetch'.kinds = fetch.kinds
        /\ fetch'.at = After[endpoint] /\ fetch'.fellBack = FALSE
        /\ fetch'.page = 1 /\ fetch'.list = {}
        /\ fetch'.found = fetch.found \cup fetch.list \cup Entries(items)
    BY <1>3, <2>2, <2>3 DEF Done, FetchFields
  <2>5. size <= fetch.page * PageSize \/ items = {}
    BY <1>3, <2>1 DEF more
  <2> QED BY <1>1, <2>4, <2>5 DEF items, size, token
<1>6. CASE next = fetch.page + 1
  <2>1. more
    BY <1>3, <1>4, <1>6
  <2>2. fetch' = [read EXCEPT !.page = fetch.page + 1]
    BY <1>2, <1>3, <1>6 DEF next
  <2>3. /\ DOMAIN fetch' = FetchFields
        /\ fetch'.base = fetch.base /\ fetch'.kinds = fetch.kinds
        /\ fetch'.at = endpoint /\ fetch'.fellBack = fetch.fellBack
        /\ fetch'.page = fetch.page + 1
        /\ fetch'.list = fetch.list \cup Entries(items)
        /\ fetch'.found = fetch.found
    BY <1>3, <2>2 DEF FetchFields
  <2>4. fetch.page * PageSize < size
    BY <1>3, <2>1 DEF more
  <2> QED BY <1>1, <2>3, <2>4 DEF items, size, token
<1>7. CASE next # 0 /\ next # fetch.page + 1
  <2>1. fetch' = [fetch EXCEPT !.at = "failed"]
    BY <1>2, <1>7 DEF next
  <2>2. /\ DOMAIN fetch' = FetchFields
        /\ fetch'.base = fetch.base /\ fetch'.kinds = fetch.kinds
        /\ fetch'.at = "failed" /\ fetch'.fellBack = fetch.fellBack
        /\ fetch'.page = fetch.page
        /\ fetch'.list = fetch.list /\ fetch'.found = fetch.found
    BY <1>3, <2>1 DEF FetchFields
  <2> QED BY <1>1, <2>2
<1> QED BY <1>5, <1>6, <1>7

LEMMA LaterSelf == \A old : Later(old, old)
BY DEF Later

LEMMA FetchInitially == Init => FetchInv
<1> SUFFICES ASSUME Init PROVE FetchInv
  OBVIOUS
<1>1. /\ notes = Early /\ hasJobToken \in BOOLEAN /\ denied = {} /\ authors = <<>>
      /\ fetch = [NoFetch EXCEPT !.at = "merge_request"]
  BY DEF Init, ReadsInit
<1>2. /\ DOMAIN fetch = FetchFields /\ fetch.at = "merge_request" /\ fetch.fellBack = FALSE
      /\ fetch.page = 1 /\ fetch.list = {} /\ fetch.found = {} /\ DOMAIN fetch.kinds = {}
      /\ fetch.base = Early
  BY <1>1, NoFetchTyped DEF FetchFields
<1>3. Early \in [Notes -> Statuses]
  BY ReadsAssumption DEF ReadsAssumption
<1>4. AuthorsKnown
  BY <1>1, <1>2 DEF AuthorsKnown
<1> QED BY <1>1, <1>2, <1>3, <1>4, PagesTyped, LaterSelf DEF FetchInv, FetchPhases

(* A step of a fetch: what it reads is stated as it is.                    *)
LEMMA ReadStep ==
  ASSUME FetchInv, UNCHANGED <<notes, hasJobToken>>, denied' \subseteq Routed,
         DOMAIN fetch' = FetchFields, fetch'.at \in FetchPhases, fetch'.fellBack \in BOOLEAN,
         fetch'.page \in 1 .. (Cardinality(Notes) + 1), fetch'.base = fetch.base,
         \A item \in fetch'.list \cup fetch'.found : Stated(item),
         AuthorsKnown',
         fetch'.at = "done" => \A n \in Visible(fetch'.found) : Author[n] \in DOMAIN fetch'.kinds
  PROVE  FetchInv'
<1>1. \A item \in fetch'.list \cup fetch'.found : Stated(item)'
  BY DEF Stated
<1>2. Later(Early, notes)' /\ Later(fetch.base, notes)'
  BY DEF FetchInv
<1> QED BY <1>1, <1>2 DEF FetchInv

(* A new fetch, or none.                                                   *)
LEMMA NewFetch ==
  ASSUME FetchInv, UNCHANGED <<notes, hasJobToken, denied, authors>>,
         fetch' = NoFetch \/ BeginFetch
  PROVE  FetchInv'
<1>1. /\ DOMAIN fetch' = FetchFields /\ fetch'.at \in {"off", "merge_request"}
      /\ fetch'.fellBack = FALSE /\ fetch'.page = 1 /\ fetch'.list = {} /\ fetch'.found = {}
      /\ DOMAIN fetch'.kinds = {} /\ fetch'.base \in {Early, notes}
  BY NoFetchTyped DEF BeginFetch, FetchFields
<1>2. fetch'.base \in [Notes -> Statuses] /\ Later(fetch'.base, notes')
  BY <1>1, LaterSelf, ReadsAssumption DEF FetchInv, ReadsAssumption
<1>3. AuthorsKnown'
  BY <1>1 DEF FetchInv, AuthorsKnown
<1> QED BY <1>1, <1>2, <1>3, PagesTyped DEF FetchInv, FetchPhases

(* Nobody makes a public note restricted, or a restricted one public.      *)
LEMMA NotesChange ==
  ASSUME FetchInv, NEW n \in Notes, Post(n) \/ Withdraw(n)
  PROVE  /\ FetchInv' /\ Later(notes, notes')
         /\ \A m \in Notes : notes[m] = "none" /\ notes'[m] # "none" => m = n /\ Post(n)
<1>1. PICK status \in Statuses \ {"none"} :
        /\ notes' = [notes EXCEPT ![n] = status]
        /\ notes[n] \notin {"none", "gone"} => status = "gone"
        /\ notes[n] # "gone"
  <2>1. CASE Post(n)
    <3>1. PICK status \in {"public", "restricted"} : notes' = [notes EXCEPT ![n] = status]
      BY <2>1 DEF Post
    <3> QED BY <2>1, <3>1 DEF Post, Statuses
  <2>2. CASE Withdraw(n)
    BY <2>2 DEF Withdraw, Statuses
  <2> QED BY <2>1, <2>2
<1>2. UNCHANGED <<hasJobToken, denied, authors, fetch>>
  BY DEF Post, Withdraw
<1>3. notes' \in [Notes -> Statuses] /\ notes \in [Notes -> Statuses]
  BY <1>1 DEF FetchInv
<1>4. Later(notes, notes')
  BY <1>1, <1>3 DEF Later
<1>5. Later(Early, notes) /\ Later(fetch.base, notes)
  BY DEF FetchInv
<1>6. Later(Early, notes') /\ Later(fetch.base, notes')
  BY <1>4, <1>5 DEF Later
<1>7. ASSUME NEW item \in fetch.list \cup fetch.found PROVE Stated(item)'
  <2>1. Stated(item) /\ item[1] \in Notes
    BY DEF FetchInv, Stated
  <2> QED BY <1>2, <1>4, <2>1 DEF Stated, Later
<1>8. AuthorsKnown'
  BY <1>2 DEF FetchInv, AuthorsKnown
<1>9. \A m \in Notes : notes[m] = "none" /\ notes'[m] # "none" => m = n /\ Post(n)
  <2>1. \A m \in Notes : notes[m] = "none" /\ notes'[m] # "none" => m = n
    BY <1>1, <1>3
  <2>2. notes[n] = "none" => ~Withdraw(n)
    BY DEF Withdraw
  <2> QED BY <2>1, <2>2
<1> QED BY <1>2, <1>3, <1>4, <1>6, <1>7, <1>8, <1>9 DEF FetchInv

(* A page says of every restricted note on it that it is restricted.       *)
LEMMA EntriesStated ==
  ASSUME FetchInv, NEW endpoint, NEW token, NEW page,
         NEW item \in Entries(Page(endpoint, token, page))
  PROVE  Stated(item)
<1>1. PICK n \in Page(endpoint, token, page) : item = <<n, notes[n] = "restricted">>
  BY DEF Entries
<1>2. n \in Notes /\ notes[n] \in {"public", "restricted"}
  BY <1>1 DEF Page, Listing
<1>3. fetch.base[n] # "gone"
  BY <1>2 DEF FetchInv, Later
<1>4. item[1] = n /\ item[2] = (notes[n] = "restricted") /\ item \in Notes \X BOOLEAN
  BY <1>1, <1>2
<1> QED BY <1>2, <1>3, <1>4 DEF Stated

LEMMA RefusedStep ==
  ASSUME FetchInv, NEW endpoint \in Routed, Refused(endpoint)
  PROVE  /\ FetchInv'
         /\ UNCHANGED <<notes, authors>>
         /\ fetch'.at = fetch.at /\ fetch'.page = 1 /\ fetch'.list = {}
         /\ fetch'.found = fetch.found /\ fetch'.base = fetch.base /\ fetch'.kinds = fetch.kinds
<1>1. fetch' = FallBack /\ UNCHANGED <<notes, hasJobToken, authors>> /\ denied' \subseteq Routed
  BY DEF Refused, FetchInv
<1>2. /\ DOMAIN fetch' = FetchFields /\ fetch'.fellBack = TRUE
      /\ fetch'.at = fetch.at /\ fetch'.page = 1 /\ fetch'.list = {}
      /\ fetch'.found = fetch.found /\ fetch'.base = fetch.base /\ fetch'.kinds = fetch.kinds
  BY <1>1 DEF FallBack, FetchInv, FetchFields
<1>3. AuthorsKnown'
  BY <1>1, <1>2 DEF FetchInv, AuthorsKnown
<1>4. FetchInv'
  BY <1>1, <1>2, <1>3, PagesTyped, ReadStep DEF FetchInv
<1> QED BY <1>1, <1>2, <1>4

LEMMA FailsStep ==
  ASSUME FetchInv, ReadFails
  PROVE  /\ FetchInv' /\ fetch'.at = "failed" /\ fetch'.base = fetch.base
         /\ UNCHANGED <<notes, authors>>
<1>1. /\ fetch' = [fetch EXCEPT !.at = "failed"]
      /\ UNCHANGED <<notes, hasJobToken, denied, authors>>
  BY DEF ReadFails
<1>2. /\ DOMAIN fetch' = FetchFields /\ fetch'.at = "failed" /\ fetch'.fellBack = fetch.fellBack
      /\ fetch'.page = fetch.page /\ fetch'.list = fetch.list /\ fetch'.found = fetch.found
      /\ fetch'.base = fetch.base /\ fetch'.kinds = fetch.kinds
  BY <1>1 DEF FetchInv, FetchFields
<1>3. AuthorsKnown'
  BY <1>1, <1>2 DEF FetchInv, AuthorsKnown
<1> QED BY <1>1, <1>2, <1>3, ReadStep DEF FetchInv, FetchPhases

LEMMA WholeStep ==
  ASSUME FetchInv, ReadWhole
  PROVE  /\ FetchInv' /\ UNCHANGED <<notes, authors>>
         /\ \/ fetch.at = "merge_request" /\ fetch'.at = "notes"
            \/ fetch.at = "labels" /\ fetch'.at = "authors"
         /\ fetch'.page = 1 /\ fetch'.list = {} /\ fetch.found \subseteq fetch'.found
         /\ fetch'.base = fetch.base
<1>1. /\ fetch' = Done /\ fetch.at \in {"merge_request", "labels"}
      /\ UNCHANGED <<notes, hasJobToken, denied, authors>>
  BY AfterTyped DEF ReadWhole, Paged
<1>2. /\ DOMAIN fetch' = FetchFields /\ fetch'.at = After[fetch.at] /\ fetch'.fellBack = FALSE
      /\ fetch'.page = 1 /\ fetch'.list = {} /\ fetch'.found = fetch.found \cup fetch.list
      /\ fetch'.base = fetch.base /\ fetch'.kinds = fetch.kinds
  BY <1>1 DEF Done, FetchInv, FetchFields
<1>3. \/ fetch.at = "merge_request" /\ fetch'.at = "notes"
      \/ fetch.at = "labels" /\ fetch'.at = "authors"
  BY <1>1, <1>2, AfterTyped
<1>4. AuthorsKnown'
  BY <1>1, <1>2 DEF FetchInv, AuthorsKnown
<1>5. FetchInv'
  BY <1>1, <1>2, <1>3, <1>4, PagesTyped, ReadStep DEF FetchInv, FetchPhases
<1> QED BY <1>1, <1>2, <1>3, <1>5

LEMMA PageStep ==
  ASSUME FetchInv, ReadPage
  PROVE  FetchInv' /\ UNCHANGED <<notes, authors>> /\ fetch'.base = fetch.base
<1> DEFINE endpoint == fetch.at
           token    == Token(endpoint)
           items    == Page(endpoint, token, fetch.page)
           size     == Len(Listing(endpoint, token))
<1>1. /\ endpoint \in {"notes", "discussions"}
      /\ UNCHANGED <<notes, hasJobToken, denied, authors>>
      /\ DOMAIN fetch' = FetchFields /\ fetch'.base = fetch.base /\ fetch'.kinds = fetch.kinds
  BY PageOutcome
<1>2. /\ fetch'.at \in FetchPhases \ {"done"} /\ fetch'.fellBack \in BOOLEAN
      /\ fetch'.page \in 1 .. (Cardinality(Notes) + 1)
      /\ fetch'.list \cup fetch'.found \subseteq fetch.list \cup fetch.found \cup Entries(items)
  <2>0. /\ fetch.page \in 1 .. (Cardinality(Notes) + 1) /\ fetch.fellBack \in BOOLEAN
        /\ Cardinality(Notes) \in Nat
    BY PagesTyped DEF FetchInv
  <2>1. CASE /\ fetch'.at = After[endpoint] /\ fetch'.fellBack = FALSE
             /\ fetch'.page = 1 /\ fetch'.list = {}
             /\ fetch'.found = fetch.found \cup fetch.list \cup Entries(items)
    <3>1. fetch'.at \in FetchPhases \ {"done"}
      BY <1>1, <2>1, AfterTyped DEF FetchPhases
    <3> HIDE DEF items
    <3> QED BY <2>1, <3>1, PagesTyped
  <2>2. CASE /\ fetch.page * PageSize < size
             /\ fetch'.at = endpoint /\ fetch'.fellBack = fetch.fellBack
             /\ fetch'.page = fetch.page + 1
             /\ fetch'.list = fetch.list \cup Entries(items)
             /\ fetch'.found = fetch.found
    <3>1. size \in Nat /\ size <= Cardinality(Notes)
      BY ListingShape
    <3>2. fetch.page <= fetch.page * PageSize /\ fetch.page * PageSize \in Nat
      BY <2>0, PageBounds
    <3> HIDE DEF items, size
    <3>3. fetch'.page \in 1 .. (Cardinality(Notes) + 1)
      BY <2>0, <2>2, <3>1, <3>2
    <3> QED BY <1>1, <2>0, <2>2, <3>3 DEF FetchPhases
  <2>3. CASE /\ fetch'.at = "failed" /\ fetch'.fellBack = fetch.fellBack
             /\ fetch'.page = fetch.page
             /\ fetch'.list = fetch.list /\ fetch'.found = fetch.found
    BY <2>0, <2>3 DEF FetchPhases
  <2> QED BY <2>1, <2>2, <2>3, PageOutcome
<1>3. \A item \in fetch'.list \cup fetch'.found : Stated(item)
  BY <1>2, EntriesStated DEF FetchInv
<1>4. AuthorsKnown'
  BY <1>1 DEF FetchInv, AuthorsKnown
<1> HIDE DEF items
<1>5. denied' \subseteq Routed
  BY <1>1 DEF FetchInv
<1> QED BY <1>1, <1>2, <1>3, <1>4, <1>5, ReadStep

(* The answer for an author that is there already is not replaced.         *)
LEMMA ClassifyStep ==
  ASSUME FetchInv, Classify
  PROVE  /\ FetchInv' /\ UNCHANGED notes
         /\ \A u \in DOMAIN authors : u \in DOMAIN authors' /\ authors'[u] = authors[u]
         /\ fetch.at = "authors" /\ fetch'.at \in {"authors", "done"}
         /\ fetch'.found = fetch.found /\ fetch'.base = fetch.base
<1> DEFINE unclassified == {Author[n] : n \in Visible(fetch.found)} \ DOMAIN fetch.kinds
           user         == Min(unclassified)
           with(kind)   == [fetch EXCEPT !.kinds = [u \in DOMAIN @ \cup {user} |->
                                                      IF u = user THEN kind ELSE @[u]]]
<1>1. UNCHANGED <<notes, hasJobToken, denied>> /\ fetch.at = "authors"
  BY DEF Classify
<1>2. \A n \in Visible(fetch.found) : n \in Notes
  BY DEF FetchInv, Stated, Visible
<1>3. unclassified \subseteq Range(Author) /\ unclassified \subseteq Nat
  BY <1>2, ReadsAssumption DEF ReadsAssumption, Range
<1>4. denied' \subseteq Routed
  BY <1>1 DEF FetchInv
<1>5. CASE /\ unclassified = {}
           /\ fetch' = [fetch EXCEPT !.at = "done"]
           /\ UNCHANGED authors
  <2>1. /\ DOMAIN fetch' = FetchFields /\ fetch'.at = "done" /\ fetch'.fellBack = fetch.fellBack
        /\ fetch'.page = fetch.page /\ fetch'.list = fetch.list /\ fetch'.found = fetch.found
        /\ fetch'.base = fetch.base /\ fetch'.kinds = fetch.kinds
    BY <1>5 DEF FetchInv, FetchFields
  <2>2. AuthorsKnown'
    BY <1>5, <2>1 DEF FetchInv, AuthorsKnown
  <2>3. \A n \in Visible(fetch'.found) : Author[n] \in DOMAIN fetch'.kinds
    BY <1>5, <2>1
  <2>4. FetchInv'
    BY <1>1, <1>4, <2>1, <2>2, <2>3, ReadStep DEF FetchInv, FetchPhases
  <2> QED BY <1>1, <1>5, <2>1, <2>4
<1>6. ASSUME NEW kind \in Kinds, unclassified # {}, fetch' = with(kind),
             \/ user \in DOMAIN authors /\ kind = authors[user] /\ UNCHANGED authors
             \/ user \notin DOMAIN authors /\ authors' = Remember(user, kind)
      PROVE  /\ FetchInv'
             /\ \A u \in DOMAIN authors : u \in DOMAIN authors' /\ authors'[u] = authors[u]
             /\ fetch'.at = "authors"
             /\ fetch'.found = fetch.found /\ fetch'.base = fetch.base
  <2>1. user \in Range(Author)
    BY <1>3, <1>6, SmallestIn
  <2> HIDE DEF unclassified, user
  <2>2. /\ DOMAIN fetch' = FetchFields /\ fetch'.at = "authors"
        /\ fetch'.fellBack = fetch.fellBack
        /\ fetch'.page = fetch.page /\ fetch'.list = fetch.list /\ fetch'.found = fetch.found
        /\ fetch'.base = fetch.base
        /\ fetch'.kinds = [u \in DOMAIN fetch.kinds \cup {user} |->
                             IF u = user THEN kind ELSE fetch.kinds[u]]
    BY <1>1, <1>6 DEF FetchInv, FetchFields
  <2>3. /\ \A u \in DOMAIN authors : u \in DOMAIN authors' /\ authors'[u] = authors[u]
        /\ user \in DOMAIN authors' /\ authors'[user] = kind
        /\ \A u \in DOMAIN authors' : u = user \/ u \in DOMAIN authors
    BY <1>6 DEF Remember
  <2>4. AuthorsKnown'
    <3>1. \A u \in DOMAIN authors' : u \in Range(Author) /\ authors'[u] \in Kinds
      BY <2>1, <2>3 DEF FetchInv, AuthorsKnown
    <3>2. \A u \in DOMAIN fetch'.kinds :
            u \in DOMAIN authors' /\ fetch'.kinds[u] = authors'[u]
      BY <2>2, <2>3 DEF FetchInv, AuthorsKnown
    <3> QED BY <3>1, <3>2 DEF AuthorsKnown
  <2>5. FetchInv'
    BY <1>1, <1>4, <2>2, <2>4, ReadStep DEF FetchInv, FetchPhases
  <2> QED BY <2>2, <2>3, <2>5
<1>7. CASE unclassified # {} /\ user \in DOMAIN authors /\ fetch' = with(authors[user])
           /\ UNCHANGED authors
  <2>1. authors[user] \in Kinds
    BY <1>7 DEF FetchInv, AuthorsKnown
  <2> QED BY <1>1, <1>6, <1>7, <2>1
<1>8. CASE /\ unclassified # {} /\ user \notin DOMAIN authors
           /\ \E kind \in {"unknown", IF user \in Bots THEN "bot" ELSE "human"} :
                authors' = Remember(user, kind) /\ fetch' = with(kind)
  <2>1. PICK kind \in Kinds : authors' = Remember(user, kind) /\ fetch' = with(kind)
    BY <1>8 DEF Kinds
  <2> QED BY <1>1, <1>6, <1>8, <2>1
<1> QED BY <1>5, <1>7, <1>8 DEF Classify

LEMMA FetchInductive == FetchInv /\ [Next]_vars => FetchInv'
<1> SUFFICES ASSUME FetchInv, [Next]_vars PROVE FetchInv'
  OBVIOUS
<1>1. CASE UNCHANGED <<notes, hasJobToken, denied, authors, fetch>>
  BY <1>1 DEF FetchInv, Stated, Later, AuthorsKnown, Visible
<1> QED
  BY <1>1, NextReads, RefusedStep, FailsStep, WholeStep, PageStep, ClassifyStep, NewFetch,
     NotesChange

LEMMA FetchInvariant == Spec => []FetchInv
BY FetchInitially, FetchInductive, PTL DEF Spec

(* No note that is restricted is ever part of a context, however the lists *)
(* shift, whichever credential reads them and whatever fails.              *)
THEOREM RestrictedCorrect == Spec => []RestrictedStaysOut
<1>1. FetchInv => RestrictedStaysOut
  <2> SUFFICES ASSUME FetchInv, NEW n \in Visible(fetch.found)
               PROVE  notes[n] # "restricted"
    BY DEF RestrictedStaysOut
  <2>1. PICK item \in fetch.found : item[1] = n /\ ~item[2]
    BY DEF Visible
  <2> QED BY <2>1 DEF FetchInv, Stated
<1> QED BY <1>1, FetchInvariant, PTL

-----------------------------------------------------------------------------
(* A complete context: how far a fetch has read.                           *)

(* What went while the fetch is under way, and what is there throughout.   *)
Dropped == {n \in Notes : fetch.base[n] # "gone" /\ notes[n] = "gone"}
Lasting == {n \in Notes : fetch.base[n] = "public" /\ notes[n] = "public"}

Few == Cardinality(Dropped) <= 1

(* The pages read so far have every lasting note that now stands on them.  *)
Covered(endpoint) ==
  \A n \in Lasting : Place(endpoint, Token(endpoint), n) <= (fetch.page - 1) * PageSize =>
                       <<n, FALSE>> \in fetch.list

Complete == \A n \in Lasting : <<n, FALSE>> \in fetch.found

(* The notes, newest first, are complete if nothing was deleted.  If then  *)
(* nothing is deleted either, the discussions are, oldest first: notes that*)
(* are written only move others to later places.                           *)
ReadSoFar ==
  /\ fetch.at = "notes" /\ Dropped = {} => Covered("notes")
  /\ fetch.at = "discussions" => Complete \/ (Dropped # {} /\ (Few => Covered("discussions")))
  /\ fetch.at \in {"labels", "authors", "done"} /\ Few => Complete

(* Deletions are not undone.                                               *)
LEMMA DroppedGrows ==
  ASSUME FetchInv, Later(notes, notes'), fetch'.base = fetch.base
  PROVE  Lasting' \subseteq Lasting /\ Dropped \subseteq Dropped' /\ (Few' => Few)
<1>1. Lasting' \subseteq Lasting /\ Dropped \subseteq Dropped'
  BY DEF FetchInv, Later, Lasting, Dropped
<1>2. IsFiniteSet(Dropped') /\ IsFiniteSet(Dropped)
  BY FS_Subset, ReadsAssumption DEF Dropped, ReadsAssumption
<1>3. Cardinality(Dropped) <= Cardinality(Dropped')
  BY <1>1, <1>2, FS_Subset
<1>4. Cardinality(Dropped) \in Nat /\ Cardinality(Dropped') \in Nat
  BY <1>2, FS_CardinalityType
<1> HIDE DEF Dropped
<1> QED BY <1>1, <1>3, <1>4 DEF Few

LEMMA TwoAreMany ==
  ASSUME NEW S, IsFiniteSet(S), NEW x \in S, NEW y \in S, x # y
  PROVE  ~(Cardinality(S) <= 1)
<1>1. Cardinality({x}) = 1 /\ IsFiniteSet({x})
  BY FS_Singleton
<1>2. Cardinality({x} \cup {y}) = 2
  BY <1>1, FS_AddElement
<1>3. {x} \cup {y} \subseteq S
  OBVIOUS
<1>4. 2 <= Cardinality(S) /\ Cardinality(S) \in Nat
  BY <1>2, <1>3, FS_Subset, FS_CardinalityType
<1> QED BY <1>4

(* Before the first page is read there is nothing to have.                 *)
LEMMA FreshCovered == fetch.page = 1 => Covered("notes") /\ Covered("discussions")
<1> SUFFICES ASSUME fetch.page = 1, NEW endpoint, NEW n \in Lasting
             PROVE  ~(Place(endpoint, Token(endpoint), n) <= (fetch.page - 1) * PageSize)
  BY DEF Covered
<1>1. n \in Shown(Token(endpoint))
  BY DEF Lasting, Shown
<1>2. Place(endpoint, Token(endpoint), n) \in Nat \ {0}
  BY <1>1, PlaceTyped
<1>3. (fetch.page - 1) * PageSize = 0
  BY ReadsAssumption DEF ReadsAssumption
<1> HIDE DEF Place
<1> QED BY <1>2, <1>3

LEMMA FreshCoveredNext == (fetch.page = 1 => Covered("notes") /\ Covered("discussions"))'
BY FreshCovered, PTL

(* A new note moves no other to an earlier place.                          *)
LEMMA PostCovered ==
  ASSUME FetchInv, NEW n \in Notes, Post(n), NEW endpoint, Covered(endpoint)
  PROVE  Covered(endpoint)'
<1> DEFINE T == Shown(Token(endpoint))
           U == Shown(Token(endpoint))'
<1>1. UNCHANGED <<fetch, Token(endpoint)>>
  BY DEF Post, Token
<1>2. Lasting' \subseteq Lasting
  BY <1>1, NotesChange, DroppedGrows
<1>3. U \subseteq Notes /\ Notes \subseteq Nat /\ IsFiniteSet(Notes)
      /\ \A m \in Notes : Thread[m] \in Notes
  BY ReadsAssumption DEF Shown, ReadsAssumption
<1>4. T \subseteq U
  BY <1>1, NotesChange DEF Shown, Later, Post
<1>5. IsFiniteSet(U)
  BY <1>3, FS_Subset
<1>6. /\ {Thread[m] : m \in T} \in SUBSET {Thread[m] : m \in U}
      /\ {Thread[m] : m \in U} \in SUBSET Notes
  BY <1>3, <1>4
<1>7. IsFiniteSet({Thread[m] : m \in U})
  BY <1>3, <1>6, FS_Subset
<1>8. ASSUME NEW m \in Lasting'
      PROVE  /\ Place(endpoint, Token(endpoint), m) <= Place(endpoint, Token(endpoint), m)'
             /\ Place(endpoint, Token(endpoint), m) \in Nat
             /\ Place(endpoint, Token(endpoint), m)' \in Nat
  <2>1. m \in T
    BY <1>2 DEF Lasting, Shown
  <2>2. Place(endpoint, Token(endpoint), m) \in Nat
    BY <2>1, PlaceTyped
  <2>3. Place(endpoint, Token(endpoint), m)
          = IF endpoint = "notes" THEN RankOf(T, Falling, m)
                                  ELSE RankOf({Thread[k] : k \in T}, Rising, Thread[m])
    BY DEF Place, Threads
  <2>4. Place(endpoint, Token(endpoint), m)'
          = IF endpoint = "notes" THEN RankOf(U, Falling, m)
                                  ELSE RankOf({Thread[k] : k \in U}, Rising, Thread[m])
    BY DEF Place, Threads
  <2>5. /\ RankOf(T, Falling, m) <= RankOf(U, Falling, m)
        /\ RankOf(U, Falling, m) \in Nat
    BY <1>4, <1>5, RankMonotone
  <2>6. /\ RankOf({Thread[k] : k \in T}, Rising, Thread[m])
             <= RankOf({Thread[k] : k \in U}, Rising, Thread[m])
        /\ RankOf({Thread[k] : k \in U}, Rising, Thread[m]) \in Nat
    BY <1>6, <1>7, RankMonotone
  <2> HIDE DEF T, U
  <2> QED BY <2>2, <2>3, <2>4, <2>5, <2>6
<1>9. (fetch.page - 1) * PageSize \in Nat
  BY PagesTyped, PageBounds DEF FetchInv
<1>10. ASSUME NEW m \in Lasting',
              Place(endpoint, Token(endpoint), m)' <= (fetch'.page - 1) * PageSize
       PROVE  <<m, FALSE>> \in fetch'.list
  <2>1. Place(endpoint, Token(endpoint), m) <= (fetch.page - 1) * PageSize
    BY <1>1, <1>8, <1>9, <1>10
  <2> QED BY <1>1, <1>2, <2>1 DEF Covered
<1> QED BY <1>10 DEF Covered

LEMMA NotesReadSoFar ==
  ASSUME FetchInv, ReadSoFar, NEW n \in Notes, Post(n) \/ Withdraw(n)
  PROVE  ReadSoFar'
<1>1. fetch' = fetch /\ Lasting' \subseteq Lasting /\ Dropped \subseteq Dropped' /\ (Few' => Few)
  BY NotesChange, DroppedGrows DEF Post, Withdraw
<1>2. Complete => Complete'
  BY <1>1 DEF Complete
<1>3. CASE Post(n)
  BY <1>1, <1>2, <1>3, PostCovered DEF ReadSoFar
<1>4. CASE Withdraw(n)
  <2>1. n \in Dropped' /\ n \notin Dropped
    BY <1>4 DEF Withdraw, FetchInv, Later, Dropped
  <2>2. IsFiniteSet(Dropped')
    BY FS_Subset, ReadsAssumption DEF Dropped, ReadsAssumption
  <2>3. Dropped # {} => ~Few'
    BY <1>1, <2>1, <2>2, TwoAreMany DEF Few
  <2> QED BY <1>1, <1>2, <2>1, <2>3 DEF ReadSoFar
<1> QED BY <1>3, <1>4

(* A page is read as it is when it is requested.                           *)
LEMMA PageCovers ==
  ASSUME FetchInv, fetch.at \in {"notes", "discussions"}, Covered(fetch.at), NEW n \in Lasting
  PROVE  LET endpoint == fetch.at
             token    == Token(endpoint)
             items    == Page(endpoint, token, fetch.page)
         IN \/ Place(endpoint, token, n) <= fetch.page * PageSize
            \/ Len(Listing(endpoint, token)) <= fetch.page * PageSize
            \/ items = {}
            => <<n, FALSE>> \in fetch.list \cup Entries(items)
<1> DEFINE endpoint == fetch.at
           token    == Token(endpoint)
           items    == Page(endpoint, token, fetch.page)
           place    == Place(endpoint, token, n)
           size     == Len(Listing(endpoint, token))
           start    == (fetch.page - 1) * PageSize
           end      == fetch.page * PageSize
<1>1. n \in Shown(token) /\ notes[n] = "public"
  BY DEF Lasting, Shown
<1>2. fetch.page \in Nat \ {0}
  BY PagesTyped DEF FetchInv
<1>3. /\ place \in Nat /\ place <= size /\ size \in Nat
      /\ start < place /\ place <= end => n \in items
      /\ items = {} => place <= start
  BY <1>1, <1>2, PagePlaces, ListingShape
<1>4. start \in Nat /\ end \in Nat
  BY <1>2, PageBounds
<1>5. n \in items => <<n, FALSE>> \in Entries(items)
  <2> HIDE DEF items
  <2>1. (notes[n] = "restricted") = FALSE
    BY <1>1
  <2> QED BY <2>1 DEF Entries
<1>6. place <= start => <<n, FALSE>> \in fetch.list
  BY DEF Covered
<1> HIDE DEF items, place, size, start, end
<1>7. place <= end \/ size <= end \/ items = {} => place <= start \/ (start < place /\ place <= end)
  BY <1>3, <1>4
<1>8. place <= end \/ size <= end \/ items = {} => <<n, FALSE>> \in fetch.list \cup Entries(items)
  BY <1>3, <1>5, <1>6, <1>7
<1> QED BY <1>8 DEF items, place, size, end

LEMMA PageReadSoFar ==
  ASSUME FetchInv, ReadSoFar, ReadPage
  PROVE  ReadSoFar'
<1> DEFINE endpoint == fetch.at
           token    == Token(endpoint)
           items    == Page(endpoint, token, fetch.page)
           size     == Len(Listing(endpoint, token))
<1>1. /\ endpoint \in {"notes", "discussions"}
      /\ UNCHANGED <<notes, hasJobToken, denied>> /\ fetch'.base = fetch.base
  BY PageOutcome
<1>2. Lasting' = Lasting /\ Dropped' = Dropped /\ Few' = Few
  BY <1>1 DEF Lasting, Dropped, Few
<1>3. ASSUME Covered(endpoint), NEW n \in Lasting
      PROVE  \/ Place(endpoint, token, n) <= fetch.page * PageSize
             \/ size <= fetch.page * PageSize
             \/ items = {}
             => <<n, FALSE>> \in fetch.list \cup Entries(items)
  BY <1>1, <1>3, PageCovers
<1>4. CASE /\ size <= fetch.page * PageSize \/ items = {}
           /\ fetch'.at = After[endpoint] /\ fetch'.page = 1
           /\ fetch'.found = fetch.found \cup fetch.list \cup Entries(items)
  <2>1. Covered(endpoint) \/ Complete => Complete'
    <3>1. Covered(endpoint) => \A n \in Lasting : <<n, FALSE>> \in fetch.list \cup Entries(items)
      BY <1>3, <1>4
    <3> HIDE DEF items, size
    <3> QED BY <1>2, <1>4, <3>1 DEF Complete
  <2>2. Covered("notes")' /\ Covered("discussions")'
    BY <1>4, FreshCoveredNext
  <2>3. \/ endpoint = "notes" /\ fetch'.at = "discussions"
        \/ endpoint = "discussions" /\ fetch'.at = "labels"
    BY <1>1, <1>4, AfterTyped
  <2> HIDE DEF items, size
  <2> QED BY <1>2, <2>1, <2>2, <2>3 DEF ReadSoFar
<1>5. CASE /\ fetch'.at = endpoint /\ fetch'.fellBack = fetch.fellBack
           /\ fetch'.page = fetch.page + 1
           /\ fetch'.list = fetch.list \cup Entries(items)
           /\ fetch'.found = fetch.found
  <2>1. Token(endpoint)' = token
    BY <1>1, <1>5 DEF Token
  <2>2. (fetch'.page - 1) * PageSize = fetch.page * PageSize
    BY <1>5, PagesTyped, PageBounds DEF FetchInv
  <2>3. \A n \in Notes : Place(endpoint, Token(endpoint), n)' = Place(endpoint, token, n)
    BY <1>1, <1>5, <2>1 DEF Place, Threads, Shown
  <2>4. Covered(endpoint) => Covered(endpoint)'
    <3>1. SUFFICES ASSUME Covered(endpoint), NEW n \in Lasting,
                          Place(endpoint, token, n) <= fetch.page * PageSize
                   PROVE  <<n, FALSE>> \in fetch'.list
      BY <1>2, <2>2, <2>3 DEF Covered, Lasting
    <3> QED BY <1>3, <1>5, <3>1
  <2>5. Complete => Complete'
    BY <1>2, <1>5 DEF Complete
  <2> QED BY <1>1, <1>2, <1>5, <2>4, <2>5 DEF ReadSoFar
<1>6. CASE fetch'.at = "failed"
  BY <1>6 DEF ReadSoFar
<1> QED BY <1>4, <1>5, <1>6, PageOutcome

LEMMA ReadSoFarInductive == FetchInv /\ ReadSoFar /\ [Next]_vars => ReadSoFar'
<1> SUFFICES ASSUME FetchInv, ReadSoFar, [Next]_vars PROVE ReadSoFar'
  OBVIOUS
<1>1. ASSUME NEW endpoint \in Routed, Refused(endpoint) PROVE ReadSoFar'
  <2>1. /\ notes' = notes /\ fetch'.at = fetch.at /\ fetch'.page = 1
        /\ fetch'.found = fetch.found /\ fetch'.base = fetch.base
    BY <1>1, RefusedStep
  <2>2. Lasting' = Lasting /\ Dropped' = Dropped /\ Few' = Few /\ Complete' = Complete
    BY <2>1 DEF Lasting, Dropped, Few, Complete
  <2>3. Covered("notes")' /\ Covered("discussions")'
    BY <2>1, FreshCoveredNext
  <2> QED BY <2>1, <2>2, <2>3 DEF ReadSoFar
<1>2. CASE ReadFails
  BY <1>2, FailsStep DEF ReadSoFar
<1>3. CASE ReadWhole
  <2>1. /\ notes' = notes /\ fetch'.page = 1 /\ fetch.found \subseteq fetch'.found
        /\ \/ fetch.at = "merge_request" /\ fetch'.at = "notes"
           \/ fetch.at = "labels" /\ fetch'.at = "authors"
        /\ fetch'.base = fetch.base
    BY <1>3, WholeStep
  <2>2. Lasting' = Lasting /\ Dropped' = Dropped /\ Few' = Few /\ (Complete => Complete')
    BY <2>1 DEF Lasting, Dropped, Few, Complete
  <2>3. Covered("notes")'
    BY <2>1, FreshCoveredNext
  <2> QED BY <2>1, <2>2, <2>3 DEF ReadSoFar
<1>4. CASE Classify
  <2>1. /\ notes' = notes /\ fetch'.found = fetch.found /\ fetch'.base = fetch.base
        /\ fetch.at = "authors" /\ fetch'.at \in {"authors", "done"}
    BY <1>4, ClassifyStep
  <2>2. Lasting' = Lasting /\ Dropped' = Dropped /\ Few' = Few /\ Complete' = Complete
    BY <2>1 DEF Lasting, Dropped, Few, Complete
  <2> QED BY <2>1, <2>2 DEF ReadSoFar
<1>5. CASE /\ UNCHANGED <<notes, hasJobToken, denied, authors>>
           /\ fetch' = fetch \/ fetch' = NoFetch \/ BeginFetch
  <2>1. CASE fetch' = fetch
    BY <1>5, <2>1 DEF ReadSoFar, Covered, Complete, Few, Lasting, Dropped, Place, Threads, Shown,
                      Token
  <2>2. CASE fetch' = NoFetch \/ BeginFetch
    <3>1. fetch'.at \in {"off", "merge_request"}
      BY <2>2, NoFetchTyped DEF BeginFetch, FetchFields
    <3> QED BY <3>1 DEF ReadSoFar
  <2> QED BY <1>5, <2>1, <2>2
<1>6. CASE \E n \in Notes : Post(n) \/ Withdraw(n)
  BY <1>6, NotesReadSoFar
<1> QED BY <1>1, <1>2, <1>3, <1>4, <1>5, <1>6, PageReadSoFar, NextReads

LEMMA ReadSoFarInvariant == Spec => [](FetchInv /\ ReadSoFar)
<1>1. Init => ReadSoFar
  <2>1. Init => fetch.at = "merge_request"
    BY NoFetchTyped DEF Init, ReadsInit, FetchFields
  <2> QED BY <2>1 DEF ReadSoFar
<1> QED BY <1>1, FetchInitially, FetchInductive, ReadSoFarInductive, PTL DEF Spec

(* What is found is there, if it is not gone, and was never restricted.    *)
LEMMA CompleteIsVisible ==
  ASSUME FetchInv, Complete
  PROVE  Lasting \subseteq Visible(fetch.found)
<1> SUFFICES ASSUME NEW n \in Lasting PROVE n \in Visible(fetch.found)
  OBVIOUS
<1>1. <<n, FALSE>> \in fetch.found
  BY DEF Complete
<1>2. ASSUME NEW item \in fetch.found, item[2] PROVE item[1] # n
  BY <1>2 DEF FetchInv, Stated, Lasting
<1> QED BY <1>1, <1>2 DEF Visible

(* A fetch that succeeds has every public note that was there from its     *)
(* start to its end, whatever is written meanwhile, on whichever page, and *)
(* although one note is deleted under it.                                  *)
THEOREM ContextComplete == Spec => []NothingMissed
<1>1. FetchInv /\ ReadSoFar => NothingMissed
  <2> SUFFICES ASSUME FetchInv, ReadSoFar, fetch.at = "done", Few
               PROVE  Lasting \subseteq Visible(fetch.found)
    BY DEF NothingMissed, Few, Dropped, Lasting
  <2> QED BY CompleteIsVisible DEF ReadSoFar
<1> QED BY <1>1, ReadSoFarInvariant, PTL

-----------------------------------------------------------------------------
(* The context and the job.                                                *)

Public    == {n \in Notes : notes[n] = "public"}
Untouched == left["change"] = MaxChanges

(* As long as nobody has touched the merge request, every fetch has the    *)
(* same notes by the same kinds of authors as the first.                   *)
QuietInv ==
  /\ left["change"] <= MaxChanges
  /\ Untouched => notes = Early /\ fetch.base = Early
  /\ job.pc \notin {"capture", "failed"} /\ Untouched =>
       /\ \A n \in Public : Author[n] \in DOMAIN authors
       /\ job.captured = {<<n, authors[Author[n]]>> : n \in Public}
  /\ job.why = "changed" => ~Untouched

(* As long as nobody comes after the verification, the last fetch has the  *)
(* notes that are there, and what it is compared with has them too.        *)
CurrentInv ==
  /\ job.pc = "recheck_after" /\ Undisturbed => fetch.base = notes
  /\ job.pc \in {"expect_after", "synced"} /\ Undisturbed =>
       {item[1] : item \in job.captured} = Public
  /\ job.pc = "synced" /\ Undisturbed => current = "mine"

ContextInv == QuietInv /\ CurrentInv

AuthorsGrow == \A u \in DOMAIN authors : u \in DOMAIN authors' /\ authors'[u] = authors[u]

(* A fetch during which no note changes has exactly the public notes.      *)
LEMMA FetchExact ==
  ASSUME FetchInv, ReadSoFar, fetch.at = "done", fetch.base = notes
  PROVE  /\ Visible(fetch.found) = Public
         /\ \A n \in Public : Author[n] \in DOMAIN authors
         /\ NotePrints = {<<n, authors[Author[n]]>> : n \in Public}
         /\ {item[1] : item \in NotePrints} = Public
<1>1. Dropped = {} /\ Lasting = Public
  BY DEF Dropped, Lasting, Public
<1>2. Few
  BY <1>1, FS_EmptySet DEF Few
<1>3. Public \subseteq Visible(fetch.found)
  BY <1>1, <1>2, CompleteIsVisible DEF ReadSoFar
<1>4. Visible(fetch.found) \subseteq Public
  <2> SUFFICES ASSUME NEW n \in Visible(fetch.found) PROVE n \in Public
    OBVIOUS
  <2>1. PICK item \in fetch.found : item[1] = n /\ ~item[2]
    BY DEF Visible
  <2> QED BY <2>1 DEF FetchInv, Stated, Public
<1>5. \A n \in Public : /\ Author[n] \in DOMAIN fetch.kinds /\ Author[n] \in DOMAIN authors
                        /\ fetch.kinds[Author[n]] = authors[Author[n]]
  BY <1>3 DEF FetchInv, AuthorsKnown
<1>6. Visible(fetch.found) = Public
  BY <1>3, <1>4
<1>7. NotePrints = {<<n, authors[Author[n]]>> : n \in Public}
  BY <1>5, <1>6 DEF NotePrints
<1> HIDE DEF Public
<1>8. {item[1] : item \in NotePrints} = Public
  <2>1. ASSUME NEW item \in NotePrints PROVE item[1] \in Public
    BY <1>7
  <2>2. ASSUME NEW n \in Public PROVE \E item \in NotePrints : item[1] = n
    <3>1. <<n, authors[Author[n]]>> \in NotePrints
      BY <1>7
    <3> QED BY <3>1
  <2> QED BY <2>1, <2>2
<1> QED BY <1>5, <1>6, <1>7, <1>8

LEMMA ContextInitially == Init => ContextInv
<1> SUFFICES ASSUME Init PROVE ContextInv
  OBVIOUS
<1>1. /\ notes = Early /\ left["change"] = MaxChanges /\ MaxChanges \in Nat
      /\ job.pc = "capture" /\ job.why # "changed"
      /\ fetch = [NoFetch EXCEPT !.at = "merge_request"]
  BY ReadsAssumption DEF Init, ReadsInit, ReadsAssumption
<1>2. fetch.base = Early
  BY <1>1, NoFetchTyped DEF FetchFields
<1>3. left["change"] <= MaxChanges
  BY <1>1
<1>4. QuietInv
  BY <1>1, <1>2, <1>3 DEF QuietInv
<1>5. CurrentInv
  BY <1>1 DEF CurrentInv
<1> QED BY <1>4, <1>5 DEF ContextInv

(* What somebody else does counts.                                         *)
LEMMA ContextDisturbed ==
  ASSUME LabelsInv, ContextInv, Spend("change"), UNCHANGED job
  PROVE  ContextInv'
<1>1. left'["change"] < left["change"] /\ left["change"] \in Nat /\ left'["change"] \in Nat
  BY DEF LabelsInv, Spend
<1>2. ~Untouched' /\ left'["change"] <= MaxChanges
  BY <1>1, ReadsAssumption DEF ContextInv, QuietInv, Untouched, ReadsAssumption
<1>3. job.pc \in Settled => ~Undisturbed'
  BY <1>1 DEF LabelsInv, Undisturbed
<1> QED BY <1>2, <1>3 DEF ContextInv, QuietInv, CurrentInv, Settled

(* A step of the client that neither captures nor verifies.                *)
LEMMA ContextKept ==
  ASSUME LabelsInv, ContextInv, Uncounted, UNCHANGED notes, AuthorsGrow,
         fetch'.base \in {fetch.base, notes, Early},
         job'.captured = job.captured, job'.verified = job.verified,
         job'.why = "changed" => job.why = "changed" \/ ~Untouched,
         job'.pc \notin {"capture", "failed"} => job.pc \notin {"capture", "failed"},
         job'.pc = "recheck_after" => job.pc = "recheck_after" /\ fetch'.base = fetch.base,
         job'.pc \in {"expect_after", "synced"} =>
           \/ job.pc \in {"expect_after", "synced"}
           \/ Undisturbed => {item[1] : item \in job.captured} = Public,
         job'.pc = "synced" => current' = "mine" \/ (job.pc = "synced" /\ current' = current)
  PROVE  ContextInv'
<1>1. Public' = Public /\ Untouched' = Untouched /\ Undisturbed' = Undisturbed
      /\ left'["change"] = left["change"]
  BY DEF Public, Untouched, Undisturbed, Uncounted
<1>2. QuietInv'
  <2>1. job'.pc \notin {"capture", "failed"} /\ Untouched' =>
          /\ \A n \in Public' : Author[n] \in DOMAIN authors'
          /\ job'.captured = {<<n, authors'[Author[n]]>> : n \in Public'}
    <3> SUFFICES ASSUME job'.pc \notin {"capture", "failed"}, Untouched
                 PROVE  /\ \A n \in Public : Author[n] \in DOMAIN authors'
                        /\ job'.captured = {<<n, authors'[Author[n]]>> : n \in Public}
      BY <1>1
    <3>1. /\ \A n \in Public : Author[n] \in DOMAIN authors
          /\ job.captured = {<<n, authors[Author[n]]>> : n \in Public}
      BY DEF ContextInv, QuietInv
    <3>2. \A n \in Public : Author[n] \in DOMAIN authors'
                            /\ authors'[Author[n]] = authors[Author[n]]
      BY <3>1 DEF AuthorsGrow
    <3> HIDE DEF Public
    <3> QED BY <3>1, <3>2
  <2> QED BY <1>1, <2>1 DEF ContextInv, QuietInv
<1>3. CurrentInv'
  BY <1>1 DEF ContextInv, CurrentInv
<1> QED BY <1>2, <1>3 DEF ContextInv

LEMMA CapturedContext ==
  ASSUME LabelsInv, FetchInv, ReadSoFar, ContextInv, Captured
  PROVE  ContextInv'
<1>1. UNCHANGED <<notes, authors, left>> /\ fetch' = NoFetch /\ fetch'.base = Early
  BY NoFetchTyped DEF Captured, Answered
<1>2. CASE fetch.at = "done"
  <2>1. job'.pc = "review" /\ job'.captured = NotePrints /\ job'.why = job.why
    BY <1>2 DEF Captured, LabelsInv, JobFields
  <2>2. Untouched =>
          /\ \A n \in Public : Author[n] \in DOMAIN authors
          /\ NotePrints = {<<n, authors[Author[n]]>> : n \in Public}
    BY <1>2, FetchExact DEF ContextInv, QuietInv
  <2>3. Public' = Public /\ Untouched' = Untouched
    BY <1>1 DEF Public, Untouched
  <2> QED BY <1>1, <2>1, <2>2, <2>3 DEF ContextInv, QuietInv, CurrentInv
<1>3. CASE fetch.at # "done"
  <2>1. job'.pc = "failed" /\ job'.why = job.why
    BY <1>3 DEF Captured, LabelsInv, JobFields
  <2>2. Untouched' = Untouched
    BY <1>1 DEF Untouched
  <2> QED BY <1>1, <2>1, <2>2 DEF ContextInv, QuietInv, CurrentInv
<1> QED BY <1>2, <1>3

LEMMA RecheckedContext ==
  ASSUME LabelsInv, FetchInv, ReadSoFar, ContextInv, Rechecked
  PROVE  ContextInv'
<1>1. /\ UNCHANGED <<notes, authors, left, current>> /\ fetch'.base = Early /\ Uncounted
      /\ AuthorsGrow /\ job.pc \in {"recheck", "recheck_after"}
  BY NoFetchTyped, FaultUncounted DEF Rechecked, Answered, AuthorsGrow, labelVars
<1>2. CASE fetch.at = "done" /\ NotePrints = job.captured
  <2>1. /\ job'.captured = job.captured /\ job'.verified = job.verified /\ job'.why = job.why
        /\ job'.pc = IF job.pc = "recheck" THEN "read" ELSE "expect_after"
    BY <1>2 DEF Rechecked, LabelsInv, JobFields
  <2>2. job'.pc = "expect_after" /\ Undisturbed => {item[1] : item \in job.captured} = Public
    <3> SUFFICES ASSUME job'.pc = "expect_after", Undisturbed
                 PROVE  {item[1] : item \in NotePrints} = Public
      BY <1>2
    <3>1. fetch.base = notes
      BY <1>1, <2>1 DEF ContextInv, CurrentInv
    <3> QED BY <1>2, <3>1, FetchExact
  <2> QED BY <1>1, <2>1, <2>2, ContextKept
<1>3. CASE ~(fetch.at = "done" /\ NotePrints = job.captured)
  <2>1. /\ job'.captured = job.captured /\ job'.verified = job.verified
        /\ job'.why = IF fetch.at = "done" THEN "changed" ELSE "unread"
        /\ job'.pc \in {"read", "expect_stale"}
    BY <1>3 DEF Rechecked, LabelsInv, JobFields, Clearing
  <2>2. job'.why = "changed" => ~Untouched
    <3> SUFFICES ASSUME fetch.at = "done", Untouched PROVE NotePrints = job.captured
      BY <1>3, <2>1
    <3>1. fetch.base = notes /\ job.captured = {<<n, authors[Author[n]]>> : n \in Public}
      BY <1>1 DEF ContextInv, QuietInv
    <3> QED BY <3>1, FetchExact
  <2> QED BY <1>1, <2>1, <2>2, ContextKept
<1> QED BY <1>2, <1>3

LEMMA VerifyContext ==
  ASSUME LabelsInv, FetchInv, ContextInv, Verify
  PROVE  ContextInv'
<1>1. /\ UNCHANGED <<notes, authors, left, current>>
      /\ job'.captured = job.captured /\ job'.why = job.why
      /\ job.pc = "verify" /\ job'.pc \in {"failed", "stale", "recheck_after"}
  BY DEF Verify, LabelsInv, JobFields, labelVars
<1>2. /\ fetch'.base \in {notes, Early}
      /\ job'.pc = "recheck_after" => fetch'.base = notes
  BY NoFetchTyped DEF Verify, BeginFetch, FetchFields
<1>3. Public' = Public /\ Untouched' = Untouched
  BY <1>1 DEF Public, Untouched
<1> QED BY <1>1, <1>2, <1>3 DEF ContextInv, QuietInv, CurrentInv

(* Steps of a fetch keep the notes and the start; answers are added.       *)
LEMMA FetchStepKeeps ==
  ASSUME FetchInv, FetchStep \/ \E endpoint \in Routed : Refused(endpoint)
  PROVE  UNCHANGED notes /\ fetch'.base = fetch.base /\ AuthorsGrow
<1>1. ASSUME NEW endpoint \in Routed, Refused(endpoint)
      PROVE  UNCHANGED notes /\ fetch'.base = fetch.base /\ AuthorsGrow
  BY <1>1, RefusedStep DEF AuthorsGrow
<1>2. CASE ReadFails
  BY <1>2, FailsStep DEF AuthorsGrow
<1>3. CASE ReadWhole
  BY <1>3, WholeStep DEF AuthorsGrow
<1>4. CASE ReadPage
  BY <1>4, PageStep DEF AuthorsGrow
<1>5. CASE Classify
  BY <1>5, ClassifyStep DEF AuthorsGrow
<1> QED BY <1>1, <1>2, <1>3, <1>4, <1>5 DEF FetchStep

(* Most steps of the job move it on, and keep what it captured.            *)
LEMMA MovedContext ==
  ASSUME LabelsInv, ContextInv, Uncounted, UNCHANGED <<notes, authors>>,
         fetch'.base \in {fetch.base, notes, Early},
         job'.captured = job.captured, job'.verified = job.verified, job'.why = job.why,
         job.pc # "capture",
         job'.pc \notin {"recheck_after", "expect_after", "synced"}
           \/ (job'.pc = "synced" /\ job.pc = "expect_after" /\ current' = "mine"),
         job.pc = "failed" => job'.pc = "failed"
  PROVE  ContextInv'
<1>1. AuthorsGrow
  BY DEF AuthorsGrow
<1> QED BY <1>1, ContextKept

LEMMA ContextInductive == LabelsInv /\ FetchInv /\ ReadSoFar /\ ContextInv /\ [Next]_vars
                            => ContextInv'
<1> SUFFICES ASSUME LabelsInv, FetchInv, ReadSoFar, ContextInv, [Next]_vars PROVE ContextInv'
  OBVIOUS
<1>1. CASE Fetch \/ ReadRefused
  <2>1. UNCHANGED <<current, job>> /\ (FetchStep \/ \E endpoint \in Routed : Refused(endpoint))
    BY <1>1 DEF Fetch, ReadRefused, labelVars, Routed
  <2>2. Uncounted
    BY <1>1, FetchUncounted, FaultUncounted DEF Fetch, ReadRefused, Refused
  <2>3. UNCHANGED notes /\ fetch'.base = fetch.base /\ AuthorsGrow
    BY <2>1, FetchStepKeeps
  <2> QED BY <2>1, <2>2, <2>3, ContextKept
<1>2. CASE Captured
  BY <1>2, CapturedContext
<1>3. CASE Publish
  <2>1. Uncounted /\ UNCHANGED <<notes, authors, fetch>> /\ job.pc = "review"
    BY <1>3, FaultUncounted DEF Publish, readVars
  <2>2. /\ job'.captured = job.captured /\ job'.verified = job.verified /\ job'.why = job.why
        /\ job'.pc \in {"expect", "failed"}
    BY <1>3 DEF Publish, Goto, LabelsInv, JobFields
  <2> QED BY <2>1, <2>2, MovedContext
<1>4. CASE Expect
  <2>1. Uncounted /\ UNCHANGED <<notes, authors, current>>
    BY <1>4, FaultUncounted DEF Expect, labelVars
  <2>2. fetch'.base \in {fetch.base, notes}
    BY <1>4, NoFetchTyped DEF Expect, BeginFetch, FetchFields
  <2>3. PICK pc : /\ Goto(pc) /\ job.pc \in {"expect", "expect_stale", "expect_after"}
                  /\ pc \in {"recheck", "superseded", "read", "synced"}
                  /\ pc = "synced" => job.pc = "expect_after" /\ current = "mine"
    BY <1>4 DEF Expect
  <2>4. /\ job'.captured = job.captured /\ job'.verified = job.verified /\ job'.why = job.why
        /\ job'.pc = pc
    BY <2>3 DEF Goto, LabelsInv, JobFields
  <2> QED BY <2>1, <2>2, <2>3, <2>4, MovedContext
<1>5. CASE Rechecked
  BY <1>5, RecheckedContext
<1>6. CASE ReadLabels
  <2>1. /\ Uncounted /\ UNCHANGED <<notes, authors>> /\ fetch'.base = Early
        /\ job.pc = "read"
    BY <1>6, FaultUncounted, NoFetchTyped DEF ReadLabels, Answered
  <2>2. /\ job'.captured = job.captured /\ job'.verified = job.verified /\ job'.why = job.why
        /\ job'.pc = "ensure"
    BY <1>6 DEF ReadLabels, LabelsInv, JobFields
  <2> QED BY <2>1, <2>2, MovedContext
<1>7. CASE Ensure \/ CreateLabel \/ Relist
  <2>1. Uncounted /\ UNCHANGED <<notes, authors, fetch>>
    BY <1>7, FaultUncounted DEF Ensure, CreateLabel, Relist, readVars
  <2>2. job.pc \in {"ensure", "create", "relist"}
    BY <1>7 DEF Ensure, CreateLabel, Relist
  <2>3. \E missing \in {job.missing, job.missing \ {Name}, job.desired \ definitions} :
          \E pc \in {"update", "create", "failed", "relist"} :
            job' = [job EXCEPT !.missing = missing, !.pc = pc]
            \/ job' = [job EXCEPT !.pc = pc]
    <3>1. CASE Ensure
      BY <3>1 DEF Ensure
    <3>2. CASE CreateLabel
      BY <3>2 DEF CreateLabel, NextName, Goto
    <3>3. CASE Relist
      BY <3>3 DEF Relist, NextName, Goto
    <3> QED BY <1>7, <3>1, <3>2, <3>3
  <2>4. /\ job'.captured = job.captured /\ job'.verified = job.verified /\ job'.why = job.why
        /\ job'.pc \in {"update", "create", "failed", "relist"}
    BY <2>3 DEF LabelsInv, JobFields
  <2> QED BY <2>1, <2>2, <2>4, MovedContext
<1>8. CASE Update
  <2>1. Uncounted /\ UNCHANGED <<notes, authors, fetch>> /\ job.pc = "update"
    BY <1>8, FaultUncounted DEF Update
  <2>2. PICK pc \in {"verify", "failed"} : Goto(pc)
    BY <1>8 DEF Update
  <2>3. /\ job'.captured = job.captured /\ job'.verified = job.verified /\ job'.why = job.why
        /\ job'.pc = pc
    BY <2>2 DEF Goto, LabelsInv, JobFields
  <2> QED BY <2>1, <2>2, <2>3, MovedContext
<1>9. CASE Verify
  BY <1>9, VerifyContext
<1>10. CASE Fail
  <2>1. Uncounted /\ UNCHANGED <<notes, authors, fetch>> /\ job.pc \notin Ends \cup Reads
    BY <1>10, FaultUncounted DEF Fail
  <2>2. /\ job'.captured = job.captured /\ job'.verified = job.verified /\ job'.why = job.why
        /\ job'.pc = "failed"
    BY <1>10 DEF Fail, Goto, LabelsInv, JobFields
  <2> QED BY <2>1, <2>2, MovedContext DEF Reads
<1>11. CASE Others
  <2>1. Spend("change") /\ UNCHANGED job
    BY <1>11 DEF Others, Post, Withdraw, SetLabel, OtherJob
  <2> QED BY <2>1, ContextDisturbed
<1>12. CASE UNCHANGED vars
  <2>1. UNCHANGED <<notes, authors, fetch, left, current, job>>
    BY <1>12 DEF vars, readVars, labelVars
  <2> QED BY <2>1 DEF ContextInv, QuietInv, CurrentInv, Public, Untouched, Undisturbed
<1> QED
  BY <1>1, <1>2, <1>3, <1>4, <1>5, <1>6, <1>7, <1>8, <1>9, <1>10, <1>11, <1>12
     DEF Next, ClientStep

LEMMA ContextInvariant == Spec => []ContextInv
BY LabelsInit, LabelsInductive, ContextInitially, ContextInductive, ReadSoFarInvariant, PTL
   DEF Spec

(* The labels of a job that succeeds belong to the current report, and the *)
(* notes it reviewed are those that are there, unless somebody came after  *)
(* the verification.                                                       *)
THEOREM CurrentCorrect == Spec => []SyncedIsCurrent
<1>1. ContextInv => SyncedIsCurrent
  BY DEF ContextInv, CurrentInv, SyncedIsCurrent, Public
<1> QED BY <1>1, ContextInvariant, PTL

(* A merge request that nobody touches is not taken for changed, whatever  *)
(* lookups fail and whichever credentials are refused.                     *)
THEOREM QuietCorrect == Spec => []QuietIsFresh
<1>1. ContextInv /\ LabelsInv => QuietIsFresh
  <2> SUFFICES ASSUME ContextInv, LabelsInv, job.why = "changed"
               PROVE  left["change"] < MaxChanges
    BY DEF QuietIsFresh
  <2>1. left["change"] <= MaxChanges /\ left["change"] # MaxChanges
    BY DEF ContextInv, QuietInv, Untouched
  <2>2. left["change"] \in Nat /\ MaxChanges \in Nat
    BY ReadsAssumption DEF LabelsInv, ReadsAssumption
  <2> QED BY <2>1, <2>2
<1> QED BY <1>1, ContextInvariant, LabelsInit, LabelsInductive, PTL DEF Spec

-----------------------------------------------------------------------------
(* Types.                                                                  *)

(* Only labels that somebody may set are seen, set or defined.             *)
TypesInv ==
  /\ labels \subseteq AllLabels /\ definitions \subseteq AllLabels
  /\ current \in {"none", "mine", "other"}
  /\ job.pc \in Phases
  /\ job.captured \subseteq Notes \X Kinds
  /\ job.seen \subseteq AllLabels /\ job.missing \subseteq AllLabels
  /\ job.pc \in {"create", "relist"} => job.missing # {}

LEMMA TypesInitially == Init => TypesInv
<1> SUFFICES ASSUME Init PROVE TypesInv
  OBVIOUS
<1>1. /\ labels = MRLabels /\ definitions = Definitions /\ current = "none"
      /\ job.pc = "capture" /\ job.captured = {} /\ job.seen = {} /\ job.missing = {}
  BY DEF Init
<1>2. MRLabels \subseteq AllLabels /\ Definitions \subseteq AllLabels
  BY DEF AllLabels
<1> QED BY <1>1, <1>2 DEF TypesInv, Phases, Reads

(* A step of the job that leaves GitLab alone, or not more than it may.    *)
LEMMA TypesKept ==
  ASSUME TypesInv, labels' \subseteq AllLabels, definitions' \subseteq AllLabels,
         current' \in {"none", "mine", "other"}, job'.pc \in Phases,
         job'.captured \subseteq Notes \X Kinds,
         job'.seen \subseteq AllLabels, job'.missing \subseteq AllLabels,
         job'.pc \in {"create", "relist"} => job'.missing # {}
  PROVE  TypesInv'
  BY DEF TypesInv

LEMMA MovedTypes ==
  ASSUME TypesInv, labels' \subseteq AllLabels, definitions' \subseteq AllLabels,
         current' \in {"none", "mine", "other"}, job'.pc \in Phases \ {"create", "relist"},
         UNCHANGED <<job.captured, job.seen, job.missing>>
  PROVE  TypesInv'
  BY DEF TypesInv

LEMMA PrintsTyped ==
  ASSUME FetchInv, fetch.at = "done"
  PROVE  NotePrints \subseteq Notes \X Kinds
<1>1. ASSUME NEW n \in Visible(fetch.found)
      PROVE  n \in Notes /\ fetch.kinds[Author[n]] \in Kinds
  <2>1. n \in Notes
    BY DEF FetchInv, Stated, Visible
  <2>2. Author[n] \in DOMAIN fetch.kinds
    BY DEF FetchInv
  <2> QED BY <2>1, <2>2 DEF FetchInv, AuthorsKnown
<1> QED BY <1>1 DEF NotePrints

LEMMA AssignedTyped ==
  ASSUME NEW on, NEW add, NEW remove, on \subseteq AllLabels, add \subseteq AllLabels
  PROVE  Assigned(on, add, remove) \subseteq AllLabels
  BY DEF Assigned

LEMMA OwnTyped ==
  /\ Own \subseteq AllLabels
  /\ \A input \in Inputs : Derivable(input) => DesiredLabels(input) \subseteq Own
  BY DEF Own, AllLabels

LEMMA TypesInductive == LabelsInv /\ FetchInv /\ TypesInv /\ [Next]_vars => TypesInv'
<1> SUFFICES ASSUME LabelsInv, FetchInv, TypesInv, [Next]_vars PROVE TypesInv'
  OBVIOUS
<1>0. DOMAIN job = JobFields /\ job.desired \subseteq AllLabels
  BY OwnTyped DEF LabelsInv
<1>1. CASE Fetch \/ ReadRefused \/ UNCHANGED vars
  BY <1>1 DEF Fetch, ReadRefused, vars, labelVars, TypesInv
<1>2. CASE Captured
  <2>1. CASE fetch.at = "done"
    <3>1. /\ job'.pc = "review" /\ job'.captured = NotePrints
          /\ job'.seen = job.seen /\ job'.missing = job.missing
      BY <1>0, <1>2, <2>1 DEF Captured, JobFields
    <3> QED BY <1>2, <2>1, <3>1, TypesKept, PrintsTyped
            DEF Captured, labelVars, TypesInv, Phases
  <2>2. CASE fetch.at # "done"
    <3>1. /\ job'.pc = "failed" /\ UNCHANGED <<job.captured, job.seen, job.missing>>
      BY <1>0, <1>2, <2>2 DEF Captured, JobFields
    <3> QED BY <1>2, <3>1, MovedTypes DEF Captured, labelVars, TypesInv, Phases, Ends
  <2> QED BY <2>1, <2>2
<1>3. CASE Publish
  <2>1. /\ job'.pc \in {"expect", "failed"}
        /\ UNCHANGED <<job.captured, job.seen, job.missing>>
    BY <1>0, <1>3 DEF Publish, Goto, JobFields
  <2>2. UNCHANGED <<labels, definitions>> /\ current' \in {"mine", current}
    BY <1>3 DEF Publish
  <2> QED BY <2>1, <2>2, MovedTypes DEF TypesInv, Phases, Ends
<1>4. CASE Expect
  <2>1. PICK pc \in {"recheck", "superseded", "read", "synced"} : Goto(pc)
    BY <1>4 DEF Expect
  <2>2. job'.pc = pc /\ UNCHANGED <<job.captured, job.seen, job.missing>>
    BY <1>0, <2>1 DEF Goto, JobFields
  <2> QED BY <1>4, <2>2, MovedTypes DEF Expect, labelVars, TypesInv, Phases, Ends, Reads
<1>5. CASE Rechecked
  <2>1. /\ job'.pc \in {"read", "expect_after", "expect_stale"}
        /\ UNCHANGED <<job.captured, job.seen, job.missing>>
    BY <1>0, <1>5 DEF Rechecked, Clearing, JobFields
  <2> QED BY <1>5, <2>1, MovedTypes DEF Rechecked, labelVars, TypesInv, Phases
<1>6. CASE ReadLabels
  <2>1. /\ job'.pc = "ensure" /\ job'.seen = labels
        /\ UNCHANGED <<job.captured, job.missing>>
    BY <1>0, <1>6 DEF ReadLabels, JobFields
  <2> QED BY <1>6, <2>1, TypesKept DEF ReadLabels, labelVars, TypesInv, Phases
<1>7. CASE Ensure
  <2> DEFINE missing == job.desired \ definitions
  <2>1. PICK pc \in {"update", "create", "failed"} :
          /\ job' = [job EXCEPT !.missing = missing, !.pc = pc]
          /\ pc = "create" => missing # {}
    BY <1>7 DEF Ensure
  <2>2. /\ job'.pc = pc /\ job'.missing = missing /\ UNCHANGED <<job.captured, job.seen>>
    BY <1>0, <2>1 DEF JobFields
  <2> QED BY <1>0, <1>7, <2>1, <2>2, TypesKept DEF Ensure, labelVars, TypesInv, Phases, Ends
<1>8. ASSUME NextName, job.pc \in {"create", "relist"}, labels' = labels, current' = current,
             definitions' \subseteq AllLabels
      PROVE  TypesInv'
  <2> DEFINE missing == job.missing \ {Name}
  <2>1. PICK pc \in {"update", "create"} :
          /\ job' = [job EXCEPT !.missing = missing, !.pc = pc]
          /\ pc = "create" => job.missing # {Name}
    BY <1>8 DEF NextName
  <2>2. /\ job'.pc = pc /\ job'.missing = missing /\ UNCHANGED <<job.captured, job.seen>>
    BY <1>0, <2>1 DEF JobFields
  <2>3. pc = "create" => missing # {}
    <3>1. job.missing # {}
      BY <1>8 DEF TypesInv
    <3> QED BY <2>1, <3>1
  <2> QED BY <1>8, <2>1, <2>2, <2>3, TypesKept DEF TypesInv, Phases
<1>9. CASE CreateLabel
  <2>1. Name \in AllLabels
    <3>1. Name \in job.missing
      BY <1>9 DEF CreateLabel, TypesInv, Name
    <3> QED BY <3>1 DEF TypesInv
  <2>2. definitions' \subseteq AllLabels /\ UNCHANGED <<labels, current>> /\ job.pc = "create"
    BY <1>9, <2>1 DEF CreateLabel, TypesInv
  <2>3. CASE NextName
    BY <1>8, <2>2, <2>3
  <2>4. CASE Goto("relist")
    <3>1. job'.pc = "relist" /\ UNCHANGED <<job.captured, job.seen, job.missing>>
      BY <1>0, <2>4 DEF Goto, JobFields
    <3> QED BY <2>2, <3>1, TypesKept DEF TypesInv, Phases
  <2> QED BY <1>9, <2>3, <2>4 DEF CreateLabel
<1>10. CASE Relist
  <2>1. UNCHANGED <<labels, definitions, current>> /\ job.pc = "relist"
    BY <1>10 DEF Relist, labelVars
  <2>2. CASE NextName
    BY <1>8, <2>1, <2>2 DEF TypesInv
  <2>3. CASE Goto("failed")
    <3>1. job'.pc = "failed" /\ UNCHANGED <<job.captured, job.seen, job.missing>>
      BY <1>0, <2>3 DEF Goto, JobFields
    <3> QED BY <2>1, <3>1, MovedTypes DEF TypesInv, Phases, Ends
  <2> QED BY <1>10, <2>2, <2>3 DEF Relist
<1>11. CASE Update
  <2>1. PICK pc \in {"verify", "failed"} : Goto(pc)
    BY <1>11 DEF Update
  <2>2. job'.pc = pc /\ UNCHANGED <<job.captured, job.seen, job.missing>>
    BY <1>0, <2>1 DEF Goto, JobFields
  <2>3. labels' \in {labels, Updated} /\ UNCHANGED <<definitions, current>>
    BY <1>11 DEF Update
  <2>4. ToAdd \subseteq AllLabels
    BY <1>0 DEF ToAdd
  <2>5. labels' \subseteq AllLabels
    BY <2>3, <2>4, AssignedTyped DEF Updated, TypesInv
  <2> QED BY <2>2, <2>3, <2>5, MovedTypes DEF TypesInv, Phases, Ends
<1>12. CASE Verify
  <2>1. /\ job'.pc \in {"failed", "stale", "recheck_after"}
        /\ UNCHANGED <<job.captured, job.seen, job.missing>>
    BY <1>0, <1>12 DEF Verify, JobFields
  <2> QED BY <1>12, <2>1, MovedTypes DEF Verify, labelVars, TypesInv, Phases, Ends, Reads
<1>13. CASE Fail
  <2>1. job'.pc = "failed" /\ UNCHANGED <<job.captured, job.seen, job.missing>>
    BY <1>0, <1>13 DEF Fail, Goto, JobFields
  <2> QED BY <1>13, <2>1, MovedTypes DEF Fail, labelVars, TypesInv, Phases, Ends
<1>14. CASE \E n \in Notes : (Post(n) \/ Withdraw(n)) /\ UNCHANGED <<labelVars, job>>
  BY <1>14 DEF labelVars, TypesInv
<1>15. CASE \E l \in HumanLabels : SetLabel(l)
  <2>1. PICK l \in HumanLabels : SetLabel(l)
    BY <1>15
  <2>2. l \in AllLabels
    BY DEF AllLabels
  <2>3. Assigned(labels, {l}, {}) \subseteq AllLabels
    BY <2>2, AssignedTyped DEF TypesInv
  <2> QED BY <2>1, <2>2, <2>3 DEF SetLabel, TypesInv
<1>16. CASE OtherJob
  <2>1. PICK input \in Inputs :
          /\ Derivable(input)
          /\ labels' = {l \in labels : ~Managed(l)} \cup DesiredLabels(input)
          /\ definitions' = definitions \cup DesiredLabels(input)
    BY <1>16 DEF OtherJob
  <2>2. DesiredLabels(input) \subseteq AllLabels
    BY <2>1, OwnTyped
  <2> HIDE DEF DesiredLabels
  <2> QED BY <1>16, <2>1, <2>2 DEF OtherJob, TypesInv
<1> QED
  BY <1>1, <1>2, <1>3, <1>4, <1>5, <1>6, <1>7, <1>9, <1>10, <1>11, <1>12, <1>13, <1>14,
     <1>15, <1>16 DEF Next, ClientStep, Others

(* The types of all variables.                                             *)
THEOREM ClientTypesCorrect == Spec => []TypeOK
<1>1. FetchInv /\ LabelsInv => ReadsTypeOK
  <2> SUFFICES ASSUME FetchInv, LabelsInv PROVE ReadsTypeOK
    OBVIOUS
  <2>1. fetch.at \in {"off", "authors", "done", "failed"} \cup DOMAIN After
    BY AfterTyped DEF FetchInv, FetchPhases
  <2>2. fetch.list \cup fetch.found \subseteq Notes \X BOOLEAN
    BY DEF FetchInv, Stated
  <2> QED BY <2>1, <2>2 DEF ReadsTypeOK, FetchInv, AuthorsKnown, LabelsInv
<1>2. ReadsTypeOK /\ LabelsInv /\ TypesInv => TypeOK
  BY OwnTyped DEF TypeOK, LabelsInv, TypesInv
<1> QED
  BY <1>1, <1>2, LabelsInit, LabelsInductive, FetchInvariant, TypesInitially,
     TypesInductive, PTL DEF Spec
=============================================================================
