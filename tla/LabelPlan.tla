------------------------------ MODULE LabelPlan ------------------------------
(***************************************************************************)
(* Which labels a review asks for and which it may take off: DeriveLabels  *)
(* of internal/gitlab/labels.go, with what validateLabels of               *)
(* internal/config/config.go requires of the configuration.                *)
(*                                                                         *)
(* A label is a pair of a group and a value: "verdict::pass" has the scope *)
(* "verdict" for its group, "tool-grep" the prefix "tool-".  All other     *)
(* labels are of the group Plain.                                          *)
(***************************************************************************)
EXTENDS Naturals, FiniteSets, FiniteSetsExt, Sequences, Functions, TLC

CONSTANTS
  Static,          \* labels of every review
  ReservedNames,   \* labels only to be taken off
  ReservedScopes,  \* scopes of which labels are taken off
  Mappings,        \* the dynamic labels
  Scopes,          \* groups that are exclusive scopes
  MaxUint          \* bound: the largest token count, 2^64 - 1 in the code

Plain == "plain"

SingleSources == {"verdict", "coverage", "team", "metadata"}
SetSources    == {"requested_models", "observed_models", "executed_tools"}

ScopeOf(label) == IF label[1] \in Scopes THEN label[1] ELSE Plain

BucketLabels(m) == {m.buckets[i].label : i \in DOMAIN m.buckets}

(* All that mapping m can emit; the prefix stands for any value.           *)
Outputs(m) ==
  Range(m.values) \cup BucketLabels(m)
    \cup (IF m.prefix = Plain THEN {} ELSE {<<m.prefix, "value">>})

(* validateMappingShape.                                                   *)
ValidShape(m) ==
  /\ CASE m.source \in SetSources ->
            m.mode = "set" /\ m.prefix # Plain /\ Range(m.values) = {} /\ m.buckets = <<>>
       [] m.source = "token_usage" ->
            /\ m.mode = "single"
            /\ m.buckets \in Seq(Range(m.buckets))
            /\ m.buckets = <<>> => m.prefix # Plain
            /\ \A i \in DOMAIN m.buckets :
                 \/ m.buckets[i].below = 0 /\ i = Len(m.buckets)
                 \/ m.buckets[i].below > (IF i = 1 THEN 0 ELSE m.buckets[i - 1].below)
       [] OTHER -> Range(m.values) # {}
  /\ m.missing = "unknown" => m.prefix # Plain \/ "unknown" \in DOMAIN m.values

(* validateLabels: single-valued mappings have one scope each, which they  *)
(* share with nobody; set-valued ones have none.                           *)
ValidLabels ==
  /\ Plain \notin Scopes
  /\ \A l, k \in Static : ScopeOf(l) = ScopeOf(k) => l = k \/ ScopeOf(l) = Plain
  /\ \A m \in Mappings :
       /\ m.mode \in {"single", "set"} /\ m.missing \in {"omit", "unknown"}
       /\ m.source \in SingleSources \cup SetSources \cup {"token_usage"}
       /\ ValidShape(m)
       /\ m.mode = "set" => \A l \in Outputs(m) : ScopeOf(l) = Plain
       /\ m.mode = "single" =>
            \E s \in Scopes :
              /\ \A l \in Outputs(m) : ScopeOf(l) = s
              /\ \A l \in Static : ScopeOf(l) # s
              /\ \A k \in Mappings \ {m} :
                   k.mode = "single" => \A l \in Outputs(k) : ScopeOf(l) # s

ASSUME LabelsAssumption == MaxUint \in Nat /\ ValidLabels

-----------------------------------------------------------------------------
(* What belongs to the configuration: names, scopes and prefixes.          *)
ManagedNames == Static \cup ReservedNames
                  \cup UNION {Range(m.values) \cup BucketLabels(m) : m \in Mappings}

ManagedScopes ==
  (ReservedScopes \cup {ScopeOf(l) : l \in Static}
    \cup UNION {{ScopeOf(l) : l \in Outputs(m)} : m \in {k \in Mappings : k.mode = "single"}})
  \ {Plain}

(* Mutant: only configured names are taken off.                            *)
ManagedPrefixesNone == {}

ManagedPrefixes == {m.prefix : m \in {k \in Mappings : k.mode = "set"}} \ {Plain}

(* labelManaged.                                                           *)
Managed(label) ==
  \/ label \in ManagedNames
  \/ ScopeOf(label) \in ManagedScopes
  \/ label[1] \in ManagedPrefixes

-----------------------------------------------------------------------------
(* What a review asks for.  Its input has the verdict, coverage, team,     *)
(* metadata, the sets of models and tools, and the usage events in the     *)
(* order they were reported, retries included.                             *)

(* usageComplete of reportedTokenUsage.                                    *)
UsageKnown(input) == input.complete /\ input.events # <<>>

(* reportedTokenUsage: an event counts once; the cumulative snapshots of a *)
(* session are not added to its other events.                              *)
DeltaUsage(events) == MapThenSumSet(LAMBDA e : e.tokens, {e \in events : ~e.cumulative})

SessionUsage(events) ==
  LET snapshots == {e \in events : e.cumulative}
  IN IF snapshots # {} THEN Max({e.tokens : e \in snapshots}) ELSE DeltaUsage(events)

InSession(input, s) == {e \in Range(input.events) : e.session = s}

TokenUsage(input) ==
  MapThenSumSet(LAMBDA s : SessionUsage(InSession(input, s)),
                {e.session : e \in Range(input.events)})

MissingLabels(m) ==
  CASE m.missing = "omit"          -> {}
    [] m.missing = "unknown" /\ "unknown" \in DOMAIN m.values -> {m.values["unknown"]}
    [] OTHER                       -> {<<m.prefix, "unknown">>}

MatchingBuckets(m, usage) ==
  {i \in DOMAIN m.buckets : m.buckets[i].below = 0 \/ usage < m.buckets[i].below}

UsageLabels(m, input) ==
  IF ~UsageKnown(input) THEN MissingLabels(m)
  ELSE IF m.buckets = <<>> THEN {<<m.prefix, ToString(TokenUsage(input))>>}
  ELSE {m.buckets[Min(MatchingBuckets(m, TokenUsage(input)))].label}

(* labelsForMapping.                                                       *)
LabelsForMapping(m, input) ==
  CASE m.source \in SingleSources ->
         IF input[m.source] \in DOMAIN m.values THEN {m.values[input[m.source]]}
                                                ELSE MissingLabels(m)
    [] m.source \in SetSources ->
         IF input[m.source] = {} THEN MissingLabels(m)
                                 ELSE {<<m.prefix, value>> : value \in input[m.source]}
    [] OTHER -> UsageLabels(m, input)

(* The errors of DeriveLabels: contradictory or too many tokens, even such *)
(* as a snapshot supersedes, and more than the last bucket takes.          *)
Derivable(input) ==
  UsageKnown(input) =>
    /\ \A e, f \in Range(input.events) : e.id = f.id => e = f
    /\ \A e \in Range(input.events) : DeltaUsage(InSession(input, e.session)) <= MaxUint
    /\ TokenUsage(input) <= MaxUint
    /\ \A m \in Mappings :
         m.source = "token_usage" /\ m.buckets # <<>> =>
           MatchingBuckets(m, TokenUsage(input)) # {}

DesiredLabels(input) == Static \cup UNION {LabelsForMapping(m, input) : m \in Mappings}
=============================================================================
