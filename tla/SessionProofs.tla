---------------------------- MODULE SessionProofs ----------------------------
(***************************************************************************)
(* Theorems of Session, for every number of files, units, calls, tokens,   *)
(* submissions and failures.                                               *)
(***************************************************************************)
EXTENDS Session, FiniteSetTheorems, TLAPS

(* Types, and the two facts they need: the sum is the number of the calls  *)
(* it was made of, and what a read is about to return is registered.       *)
TypeInv ==
  /\ TypeOK
  /\ tokens = Cardinality(counted)
  /\ \A c \in Calls : reads[c].phase = "registered" => reads[c].chunk \in registry.sources

LEMMA ChunkType ==
  ASSUME NEW c \in Chunks
  PROVE  c[1] \in Files /\ c[2] \in Nat /\ c[2] < Size[c[1]]
<1>1. PICK f \in Files : c \in {f} \X (0 .. Size[f] - 1)
  BY DEF Chunks
<1>2. c[1] = f /\ c[2] \in 0 .. Size[f] - 1
  BY <1>1
<1> QED
  BY <1>2, SessionAssumption

LEMMA NothingTypes ==
  /\ SomeChunk \in Chunks
  /\ NoRead \in [phase : {"free", "reading", "registered"}, chunk : Chunks, tag : Tags,
                 orphan : BOOLEAN]
  /\ NoCall \in [phase : {"free", "valid", "invalid", "installed"}, says : Submissions]
<1>1. PICK f \in Files : TRUE
  BY SessionAssumption
<1>2. Size[f] \in Nat \ {0}
  BY SessionAssumption
<1>3. <<f, 0>> \in {f} \X (0 .. Size[f] - 1)
  BY <1>2
<1>4. <<f, 0>> \in Chunks
  BY <1>3 DEF Chunks
<1>5. SomeChunk \in Chunks
  BY <1>4 DEF SomeChunk
<1> QED
  BY <1>5 DEF NoRead, NoCall, Tags, Submissions

LEMMA SingleType ==
  /\ {} \in AtMostOne
  /\ \A s \in Submissions : {s} \in AtMostOne
<1>1. Cardinality({}) = 0 /\ \A s \in Submissions : Cardinality({s}) = 1
  BY FS_EmptySet, FS_Singleton
<1> QED
  BY <1>1 DEF AtMostOne

LEMMA CountedType ==
  ASSUME NEW S \in SUBSET UsageIds
  PROVE  /\ IsFiniteSet(S)
         /\ Cardinality(S) \in 0 .. Cardinality(UsageIds)
<1>1. IsFiniteSet(UsageIds)
  BY FS_Interval, SessionAssumption DEF UsageIds
<1>2. IsFiniteSet(S) /\ Cardinality(S) <= Cardinality(UsageIds)
  BY <1>1, FS_Subset
<1> QED
  BY <1>1, <1>2, FS_CardinalityType

LEMMA SpendType ==
  ASSUME TypeOK, NEW kind \in Kinds, Spend(kind)
  PROVE  left' \in [Kinds -> Nat]
BY DEF TypeOK, Spend

LEMMA InitType == Init => TypeInv
<1> SUFFICES ASSUME Init PROVE TypeInv
  OBVIOUS
<1>1. counted = {} /\ tokens = Cardinality(counted) /\ tokens \in 0 .. Cardinality(UsageIds)
  BY FS_EmptySet, CountedType DEF Init
<1>2. left \in [Kinds -> Nat]
  BY SessionAssumption DEF Init, Kinds
<1>3. /\ registry \in [sources : SUBSET Chunks, done : SUBSET Units, next : [Units -> Nat]]
      /\ returned \subseteq registry.sources
      /\ log \in [Units -> Seq(Chunks)]
  BY DEF Init
<1>4. reads \in [Calls -> [phase : {"free", "reading", "registered"}, chunk : Chunks,
                           tag : Tags, orphan : BOOLEAN]]
  BY NothingTypes DEF Init
<1>5. /\ submit \in [phase : {"free", "valid", "invalid", "installed"}, says : Submissions]
      /\ corrections \in Nat /\ {accepted, receipt, result} \subseteq AtMostOne
  BY NothingTypes, SingleType DEF Init
<1>6. /\ pc \in Phases /\ sendErr \in BOOLEAN /\ tainted \in BOOLEAN /\ ctx = "live"
      /\ skill = "unused" /\ integrity = "none"
  BY DEF Init, Phases
<1> QED
  BY <1>1, <1>2, <1>3, <1>4, <1>5, <1>6 DEF TypeInv, TypeOK, Init, NoRead

(* The parts of the state, each with its type.                             *)
CollectorType ==
  /\ skill \in {"unused", "used", "known"}
  /\ counted \subseteq UsageIds
  /\ tokens \in 0 .. Cardinality(UsageIds)
  /\ integrity \in {"none", "budget", "model"}
  /\ tokens = Cardinality(counted)

ToolsType ==
  /\ registry \in [sources : SUBSET Chunks, done : SUBSET Units, next : [Units -> Nat]]
  /\ reads \in [Calls -> [phase : {"free", "reading", "registered"},
                          chunk : Chunks, tag : Tags, orphan : BOOLEAN]]
  /\ returned \subseteq registry.sources
  /\ log \in [Units -> Seq(Chunks)]
  /\ \A c \in Calls : reads[c].phase = "registered" => reads[c].chunk \in registry.sources

AcceptorType ==
  /\ submit \in [phase : {"free", "valid", "invalid", "installed"}, says : Submissions]
  /\ corrections \in Nat
  /\ {accepted, receipt} \subseteq AtMostOne

EngineType ==
  /\ pc \in Phases /\ sendErr \in BOOLEAN /\ tainted \in BOOLEAN
  /\ result \in AtMostOne

BoundsType ==
  /\ ctx \in {"live", "canceled", "deadline"}
  /\ left \in [Kinds -> Nat]

LEMMA TypeParts ==
  /\ TypeInv => CollectorType /\ ToolsType /\ AcceptorType /\ EngineType /\ BoundsType
  /\ CollectorType' /\ ToolsType' /\ AcceptorType' /\ EngineType' /\ BoundsType' => TypeInv'
BY DEF TypeInv, TypeOK, CollectorType, ToolsType, AcceptorType, EngineType, BoundsType

LEMMA Unchanged ==
  /\ CollectorType /\ UNCHANGED collector => CollectorType'
  /\ ToolsType /\ UNCHANGED tools => ToolsType'
  /\ AcceptorType /\ UNCHANGED acceptor => AcceptorType'
  /\ EngineType /\ UNCHANGED engine => EngineType'
  /\ BoundsType /\ UNCHANGED <<ctx, left>> => BoundsType'
BY DEF CollectorType, ToolsType, AcceptorType, EngineType, BoundsType,
       collector, tools, acceptor, engine

LEMMA CollectorKeepsTypes ==
  ASSUME TypeInv,
         UseSkill \/ SkillEvent \/ ForeignModel \/ \E id \in UsageIds : UsageEvent(id)
  PROVE  TypeInv'
<1>0. CollectorType /\ ToolsType /\ AcceptorType /\ EngineType /\ BoundsType
  BY TypeParts
<1>1. CASE UseSkill \/ SkillEvent
  <2>1. CollectorType'
    BY <1>0, <1>1 DEF UseSkill, SkillEvent, CollectorType
  <2> QED
    BY <1>0, <1>1, <2>1, Unchanged, TypeParts DEF UseSkill, SkillEvent
<1>2. CASE ForeignModel
  <2>1. CollectorType'
    BY <1>0, <1>2 DEF ForeignModel, Fails, CollectorType
  <2>2. BoundsType'
    BY <1>0, <1>2 DEF ForeignModel, Fails, Canceled, Spend, Kinds, BoundsType
  <2> QED
    BY <1>0, <1>2, <2>1, <2>2, Unchanged, TypeParts DEF ForeignModel
<1>3. CASE \E id \in UsageIds : UsageEvent(id)
  <2>1. PICK id \in UsageIds : UsageEvent(id)
    BY <1>3
  <2>2. counted \cup {id} \subseteq UsageIds
    BY <1>0 DEF CollectorType
  <2>3. /\ Cardinality(counted \cup {id}) = Cardinality(counted) + 1
        /\ Cardinality(counted \cup {id}) \in 0 .. Cardinality(UsageIds)
    BY <1>0, <2>1, <2>2, CountedType, FS_AddElement DEF CollectorType, UsageEvent
  <2>4. CollectorType'
    BY <1>0, <2>1, <2>2, <2>3 DEF CollectorType, UsageEvent, Fails
  <2>5. BoundsType'
    BY <1>0, <2>1 DEF BoundsType, UsageEvent, Fails, Canceled
  <2> QED
    BY <1>0, <2>1, <2>4, <2>5, Unchanged, TypeParts DEF UsageEvent
<1> QED
  BY <1>1, <1>2, <1>3

LEMMA ToolsKeepTypes ==
  ASSUME TypeInv, NEW c \in Calls,
         \/ \E chunk \in Chunks, tag \in Tags : ReadBegin(c, chunk, tag)
         \/ ToolTimeout(c) \/ ReadFails(c) \/ RegisterSource(c) \/ RecordUnitRetrieval(c)
  PROVE  TypeInv'
<1>0. CollectorType /\ ToolsType /\ AcceptorType /\ EngineType /\ BoundsType
  BY TypeParts
<1>1. CASE \E chunk \in Chunks, tag \in Tags : ReadBegin(c, chunk, tag)
  <2>1. ToolsType' /\ BoundsType'
    BY <1>0, <1>1 DEF ToolsType, BoundsType, ReadBegin, Spend, Kinds
  <2> QED
    BY <1>0, <1>1, <2>1, Unchanged, TypeParts DEF ReadBegin
<1>2. CASE ToolTimeout(c)
  <2>1. ToolsType'
    BY <1>0, <1>2 DEF ToolsType, ToolTimeout
  <2> QED
    BY <1>0, <1>2, <2>1, Unchanged, TypeParts DEF ToolTimeout
<1>3. CASE ReadFails(c)
  <2>1. ToolsType' /\ BoundsType'
    BY <1>0, <1>3, NothingTypes DEF ToolsType, BoundsType, ReadFails, Spend, Kinds, NoRead
  <2> QED
    BY <1>0, <1>3, <2>1, Unchanged, TypeParts DEF ReadFails
<1>4. CASE RegisterSource(c)
  <2>1. ToolsType'
    BY <1>0, <1>4 DEF ToolsType, RegisterSource
  <2> QED
    BY <1>0, <1>4, <2>1, Unchanged, TypeParts DEF RegisterSource
<1>5. CASE RecordUnitRetrieval(c)
  <2> DEFINE u == reads[c].tag  chunk == reads[c].chunk
  <2>1. chunk \in Chunks /\ chunk[2] + 1 \in Nat
    BY <1>0, ChunkType DEF ToolsType
  <2>2. /\ reads' \in [Calls -> [phase : {"free", "reading", "registered"},
                                chunk : Chunks, tag : Tags, orphan : BOOLEAN]]
        /\ \A d \in Calls : reads'[d].phase = "registered" => reads'[d] = reads[d]
    BY <1>0, <1>5, NothingTypes DEF ToolsType, RecordUnitRetrieval, NoRead
  <2>3. returned' \subseteq registry.sources
    BY <1>0, <1>5 DEF ToolsType, RecordUnitRetrieval
  <2>4. /\ registry' \in [sources : SUBSET Chunks, done : SUBSET Units, next : [Units -> Nat]]
        /\ registry'.sources = registry.sources
        /\ log' \in [Units -> Seq(Chunks)]
    <3>1. CASE ~Counts(c)
      BY <1>0, <1>5, <3>1 DEF ToolsType, RecordUnitRetrieval
    <3>2. CASE Counts(c) /\ IsLast(chunk)
      <4>1. u \in Units
        BY <3>2 DEF Counts
      <4>2. /\ registry' = [registry EXCEPT !.done = @ \cup {u}, !.next[u] = 0]
            /\ log' = [log EXCEPT ![u] = Append(@, chunk)]
        BY <1>5, <3>2 DEF RecordUnitRetrieval
      <4>3. [registry.next EXCEPT ![u] = 0] \in [Units -> Nat]
        BY <1>0 DEF ToolsType
      <4> HIDE DEF u, chunk
      <4>4. registry' = [registry EXCEPT !.done = registry.done \cup {u},
                                         !.next = [registry.next EXCEPT ![u] = 0]]
        BY <4>2
      <4>5. log' \in [Units -> Seq(Chunks)]
        BY <1>0, <2>1, <4>1, <4>2 DEF ToolsType
      <4> QED
        BY <1>0, <4>1, <4>3, <4>4, <4>5 DEF ToolsType
    <3>3. CASE Counts(c) /\ ~IsLast(chunk)
      <4>1. u \in Units
        BY <3>3 DEF Counts
      <4>2. /\ registry' = [registry EXCEPT !.next[u] = chunk[2] + 1]
            /\ log' = [log EXCEPT ![u] = Append(@, chunk)]
        BY <1>5, <3>3 DEF RecordUnitRetrieval
      <4> HIDE DEF u, chunk
      <4>3. [registry.next EXCEPT ![u] = chunk[2] + 1] \in [Units -> Nat]
        BY <1>0, <2>1 DEF ToolsType
      <4>4. registry' = [registry EXCEPT !.next = [registry.next EXCEPT ![u] = chunk[2] + 1]]
        BY <4>2
      <4>5. log' \in [Units -> Seq(Chunks)]
        BY <1>0, <2>1, <4>1, <4>2 DEF ToolsType
      <4> QED
        BY <1>0, <4>3, <4>4, <4>5 DEF ToolsType
    <3> QED
      BY <3>1, <3>2, <3>3
  <2>5. ToolsType'
    BY <1>0, <2>2, <2>3, <2>4 DEF ToolsType
  <2> QED
    BY <1>0, <1>5, <2>5, Unchanged, TypeParts DEF RecordUnitRetrieval
<1> QED
  BY <1>1, <1>2, <1>3, <1>4, <1>5

LEMMA SubmissionsKeepTypes ==
  ASSUME TypeInv,
         \/ \E says \in Submissions, sound \in BOOLEAN : SubmitBegin(says, sound)
         \/ SubmitStep \/ PersistFails
  PROVE  TypeInv'
<1>0. CollectorType /\ ToolsType /\ AcceptorType /\ EngineType /\ BoundsType
  BY TypeParts
<1>1. CASE \E says \in Submissions, sound \in BOOLEAN : SubmitBegin(says, sound)
  <2>1. AcceptorType' /\ BoundsType'
    BY <1>0, <1>1 DEF AcceptorType, BoundsType, SubmitBegin, Spend, Kinds, Submissions
  <2> QED
    BY <1>0, <1>1, <2>1, Unchanged, TypeParts DEF SubmitBegin
<1>2. CASE SubmitStep
  <2>1. submit.says \in Submissions
    BY <1>0 DEF AcceptorType
  <2>2. AcceptorType'
    BY <1>0, <1>2, <2>1, NothingTypes, SingleType DEF AcceptorType, SubmitStep,
       SubmitInvalid, Install, FileExists, Installed, Accept, Reject
  <2>3. BoundsType'
    BY <1>0, <1>2 DEF BoundsType, SubmitStep, SubmitInvalid, Install, FileExists,
       Installed, Accept, Reject, Canceled
  <2> QED
    BY <1>0, <1>2, <2>2, <2>3, Unchanged, TypeParts
       DEF SubmitStep, SubmitInvalid, Install, FileExists, Installed
<1>3. CASE PersistFails
  <2>1. AcceptorType' /\ BoundsType'
    BY <1>0, <1>3, NothingTypes
       DEF AcceptorType, BoundsType, PersistFails, Reject, Canceled, Spend, Kinds
  <2> QED
    BY <1>0, <1>3, <2>1, Unchanged, TypeParts DEF PersistFails
<1> QED
  BY <1>1, <1>2, <1>3

LEMMA EndType ==
  ASSUME ToolsType, EngineType, NEW value \in AtMostOne, End(value)
  PROVE  ToolsType' /\ EngineType'
<1>1. ToolsType'
  BY NothingTypes DEF ToolsType, End, NoRead
<1>2. EngineType'
  BY DEF EngineType, End, Phases
<1> QED
  BY <1>1, <1>2

LEMMA EngineKeepsTypes ==
  ASSUME TypeInv, RunStep \/ Deadline \/ \E error \in BOOLEAN : SendReturns(error)
  PROVE  TypeInv'
<1>0. CollectorType /\ ToolsType /\ AcceptorType /\ EngineType /\ BoundsType
  BY TypeParts
<1>1. CASE SetupDone \/ (ReadInvokedSkills /\ skill # "unused")
  <2>1. CollectorType' /\ EngineType'
    BY <1>0, <1>1 DEF SetupDone, ReadInvokedSkills, CollectorType, EngineType, Phases
  <2> QED
    BY <1>0, <1>1, <2>1, Unchanged, TypeParts DEF SetupDone, ReadInvokedSkills, tools, acceptor
<1>2. ASSUME NEW value \in AtMostOne, End(value),
             UNCHANGED left \/ Spend("fault")
      PROVE  TypeInv'
  <2>1. BoundsType'
    BY <1>0, <1>2 DEF BoundsType, Spend, Kinds, End
  <2> QED
    BY <1>0, <1>2, <2>1, EndType, Unchanged, TypeParts DEF End
<1>3. CASE SetupFails \/ RunFails \/ (ReadInvokedSkills /\ skill = "unused")
           \/ (CheckBroken /\ IsBroken) \/ (CheckSendError /\ accepted = {})
  BY <1>2, <1>3, SingleType DEF SetupFails, RunFails, ReadInvokedSkills, CheckBroken, CheckSendError
<1>4. CASE Conclude
  <2>1. accepted \in AtMostOne
    BY <1>0 DEF AcceptorType
  <2> QED
    BY <1>2, <1>4, <2>1 DEF Conclude
<1>5. CASE (CheckBroken /\ ~IsBroken) \/ (CheckSendError /\ accepted # {})
  <2>1. EngineType'
    BY <1>0, <1>5 DEF CheckBroken, CheckSendError, EngineType, Phases
  <2> QED
    BY <1>0, <1>5, <2>1, Unchanged, TypeParts DEF CheckBroken, CheckSendError
<1>6. CASE Deadline
  <2>1. BoundsType'
    BY <1>0, <1>6 DEF Deadline, BoundsType
  <2> QED
    BY <1>0, <1>6, <2>1, Unchanged, TypeParts DEF Deadline
<1>7. CASE \E error \in BOOLEAN : SendReturns(error)
  <2>1. EngineType' /\ BoundsType'
    BY <1>0, <1>7 DEF SendReturns, EngineType, BoundsType, Phases, Spend, Kinds
  <2> QED
    BY <1>0, <1>7, <2>1, Unchanged, TypeParts DEF SendReturns
<1> QED
  BY <1>1, <1>3, <1>4, <1>5, <1>6, <1>7 DEF RunStep

LEMMA TypeStep == TypeInv /\ [Next]_vars => TypeInv'
<1> SUFFICES ASSUME TypeInv, [Next]_vars PROVE TypeInv'
  OBVIOUS
<1>1. CASE Next
  BY <1>1, CollectorKeepsTypes, ToolsKeepTypes, SubmissionsKeepTypes, EngineKeepsTypes DEF Next
<1>2. CASE UNCHANGED vars
  BY <1>2, Unchanged, TypeParts DEF vars
<1> QED
  BY <1>1, <1>2

(* Every variable keeps its type, and the usage added up is at most one    *)
(* count for every distinct call.                                          *)
THEOREM TypeCorrect == Spec => []TypeOK
<1>1. TypeInv => TypeOK
  BY DEF TypeInv
<1> QED
  BY <1>1, InitType, TypeStep, PTL DEF Spec

-----------------------------------------------------------------------------
(* The budget.                                                             *)

BudgetInv ==
  /\ integrity = "budget" => OverBudget(tokens)
  /\ OverBudget(tokens) => integrity # "none"
  /\ integrity # "none" => ctx # "live"

LEMMA BudgetStep == TypeInv /\ BudgetInv /\ [Next]_vars => BudgetInv'
<1> SUFFICES ASSUME TypeInv, BudgetInv, [Next]_vars PROVE BudgetInv'
  OBVIOUS
<1>1. MaxTokens \in Nat /\ tokens \in Nat /\ integrity \in {"none", "budget", "model"}
      /\ ctx \in {"live", "canceled", "deadline"}
  BY SessionAssumption DEF TypeInv, TypeOK
<1>2. ASSUME NEW id \in UsageIds, UsageEvent(id) PROVE BudgetInv'
  BY <1>1, <1>2 DEF BudgetInv, UsageEvent, OverBudget, Fails, Canceled
<1>3. CASE ForeignModel
  BY <1>1, <1>3 DEF BudgetInv, ForeignModel, OverBudget, Fails, Canceled
<1>4. ASSUME UNCHANGED <<tokens, integrity>>, ctx # "live" => ctx' # "live"
      PROVE  BudgetInv'
  BY <1>4 DEF BudgetInv, OverBudget
<1>5. CASE UseSkill \/ SkillEvent
  BY <1>4, <1>5 DEF UseSkill, SkillEvent
<1>6. ASSUME NEW c \in Calls,
             \/ \E chunk \in Chunks, tag \in Tags : ReadBegin(c, chunk, tag)
             \/ ToolTimeout(c) \/ ReadFails(c) \/ RegisterSource(c) \/ RecordUnitRetrieval(c)
      PROVE  BudgetInv'
  BY <1>4, <1>6 DEF ReadBegin, ToolTimeout, ReadFails, RegisterSource, RecordUnitRetrieval, collector
<1>7. CASE \/ \E says \in Submissions, sound \in BOOLEAN : SubmitBegin(says, sound)
           \/ SubmitStep \/ PersistFails
  BY <1>4, <1>7 DEF SubmitBegin, SubmitStep, SubmitInvalid, Install, FileExists, Installed,
     PersistFails, Accept, Reject, Canceled, collector
<1>8. CASE RunStep \/ Deadline \/ \E error \in BOOLEAN : SendReturns(error)
  BY <1>4, <1>8 DEF RunStep, SetupDone, SetupFails, CheckBroken, CheckSendError,
     ReadInvokedSkills, RunFails, Conclude, Deadline, SendReturns, End, collector
<1>9. CASE UNCHANGED vars
  BY <1>4, <1>9 DEF vars, collector
<1> QED
  BY <1>2, <1>3, <1>5, <1>6, <1>7, <1>8, <1>9 DEF Next

(* A session is ended for its budget exactly when the usage of distinct    *)
(* provider calls exceeds it, however often an event is delivered.         *)
THEOREM BudgetCorrect == Spec => []BudgetIsFair
<1>1. Init => BudgetInv
  BY SessionAssumption DEF Init, BudgetInv, OverBudget
<1>2. TypeInv /\ BudgetInv => BudgetIsFair
  BY DEF TypeInv, BudgetInv, BudgetIsFair
<1> QED
  BY <1>1, <1>2, InitType, TypeStep, BudgetStep, PTL DEF Spec

-----------------------------------------------------------------------------
(* What a session returns.                                                 *)

(* What is accepted is on disk and was valid when its handler took the     *)
(* mutex; nothing is written after; an integrity error that was there when *)
(* SendAndWait returned stops Run at its first check.                      *)
SoundInv ==
  /\ \A s \in accepted : receipt = {s} /\ s \subseteq registry.done
  /\ submit.phase \in {"valid", "installed"} =>
       accepted = {} /\ submit.says \subseteq registry.done
  /\ submit.phase = "installed" => receipt = {submit.says}
  /\ tainted => integrity # "none" /\ pc \in {"integrity", "ended"}
  /\ pc = "conclude" => skill # "unused"
  /\ result # {} => pc = "ended" /\ result = accepted /\ skill # "unused" /\ ~tainted

LEMMA SoundStep == TypeInv /\ SoundInv /\ [Next]_vars => SoundInv'
<1> SUFFICES ASSUME TypeInv, SoundInv, [Next]_vars PROVE SoundInv'
  OBVIOUS
<1>0. /\ pc \in Phases /\ integrity \in {"none", "budget", "model"}
      /\ registry \in [sources : SUBSET Chunks, done : SUBSET Units, next : [Units -> Nat]]
      /\ submit \in [phase : {"free", "valid", "invalid", "installed"}, says : Submissions]
  BY DEF TypeInv, TypeOK
<1>1. ASSUME UNCHANGED <<acceptor, engine>>, registry.done \subseteq registry'.done,
             skill # "unused" => skill' # "unused", integrity # "none" => integrity' # "none"
      PROVE  SoundInv'
  BY <1>1 DEF SoundInv, acceptor, engine
<1>2. CASE UseSkill \/ SkillEvent \/ ForeignModel \/ \E id \in UsageIds : UsageEvent(id)
  BY <1>0, <1>1, <1>2 DEF UseSkill, SkillEvent, ForeignModel, UsageEvent, Fails, tools
<1>3. ASSUME NEW c \in Calls,
             \/ \E chunk \in Chunks, tag \in Tags : ReadBegin(c, chunk, tag)
             \/ ToolTimeout(c) \/ ReadFails(c) \/ RegisterSource(c) \/ RecordUnitRetrieval(c)
      PROVE  SoundInv'
  <2>1. registry.done \subseteq registry'.done
    <3>1. CASE UNCHANGED registry
      BY <3>1
    <3>2. CASE RegisterSource(c)
      BY <1>0, <3>2 DEF RegisterSource
    <3>3. CASE RecordUnitRetrieval(c)
      <4> DEFINE u == reads[c].tag  chunk == reads[c].chunk
      <4>1. \/ UNCHANGED registry
            \/ registry' = [registry EXCEPT !.done = @ \cup {u}, !.next[u] = 0]
            \/ registry' = [registry EXCEPT !.next[u] = chunk[2] + 1]
        BY <3>3 DEF RecordUnitRetrieval
      <4> HIDE DEF u, chunk
      <4> QED
        BY <1>0, <4>1
    <3> QED
      BY <1>3, <3>1, <3>2, <3>3 DEF ReadBegin, ToolTimeout, ReadFails
  <2> QED
    BY <1>1, <1>3, <2>1 DEF ReadBegin, ToolTimeout, ReadFails, RegisterSource,
       RecordUnitRetrieval, collector
<1>4. CASE \E says \in Submissions, sound \in BOOLEAN : SubmitBegin(says, sound)
  BY <1>0, <1>4 DEF SoundInv, SubmitBegin, collector, tools, engine
<1>5. CASE SubmitStep \/ PersistFails
  BY <1>0, <1>5 DEF SoundInv, SubmitStep, SubmitInvalid, Install, FileExists, Installed,
     PersistFails, Accept, Reject, NoCall, collector, tools, engine
<1>6. CASE SetupDone
  BY <1>0, <1>6 DEF SoundInv, SetupDone, tools, acceptor
<1>7. CASE Deadline
  BY <1>1, <1>7 DEF Deadline, collector, tools
<1>8. CASE \E error \in BOOLEAN : SendReturns(error)
  BY <1>0, <1>8 DEF SoundInv, SendReturns, collector, tools, acceptor
<1>9. CASE SetupFails \/ RunFails
  BY <1>0, <1>9 DEF SoundInv, SetupFails, RunFails, End, collector, acceptor
<1>10. CASE CheckBroken
  BY <1>0, <1>10 DEF SoundInv, CheckBroken, IsBroken, End, collector, tools, acceptor
<1>11. CASE CheckSendError \/ ReadInvokedSkills
  BY <1>0, <1>11 DEF SoundInv, CheckSendError, ReadInvokedSkills, End, collector, tools, acceptor
<1>12. CASE Conclude
  BY <1>0, <1>12 DEF SoundInv, Conclude, End, collector, acceptor
<1>13. CASE UNCHANGED vars
  BY <1>1, <1>13 DEF vars, collector, tools
<1> QED
  BY <1>2, <1>3, <1>4, <1>5, <1>6, <1>7, <1>8, <1>9, <1>10, <1>11, <1>12, <1>13
  DEF Next, RunStep

LEMMA InitSoundInv == Init => SoundInv
BY DEF Init, SoundInv, NoCall

(* A session that returns a submission has it on disk, used the skill, had *)
(* retrieved all it claims, and met no integrity error.                    *)
THEOREM ResultCorrect == Spec => []ResultIsSound
<1>1. SoundInv => ResultIsSound
  BY DEF SoundInv, ResultIsSound
<1> QED
  BY <1>1, InitType, TypeStep, InitSoundInv, SoundStep, PTL DEF Spec

(* The submission file is written at most once, before any acceptance.     *)
THEOREM ReceiptCorrect == Spec => ReceiptStands
<1>1. TypeInv /\ SoundInv /\ [Next]_vars =>
        [receipt' # receipt => receipt = {} /\ accepted = {} /\ accepted' = {}]_vars
  <2> SUFFICES ASSUME TypeInv, SoundInv, [Next]_vars, receipt' # receipt
               PROVE  receipt = {} /\ accepted = {} /\ accepted' = {}
    OBVIOUS
  <2>1. CASE Install
    BY <2>1 DEF Install, SoundInv
  <2>2. CASE ~Install
    BY <2>2 DEF Next, UseSkill, SkillEvent, ForeignModel, UsageEvent, ReadBegin, ToolTimeout,
       ReadFails, RegisterSource, RecordUnitRetrieval, SubmitBegin, SubmitStep, SubmitInvalid,
       FileExists, Installed, PersistFails, RunStep, SetupDone, SetupFails, CheckBroken,
       CheckSendError, ReadInvokedSkills, RunFails, Conclude, End, SendReturns, Deadline,
       acceptor, vars
  <2> QED
    BY <2>1, <2>2
<1> QED
  BY <1>1, InitType, TypeStep, InitSoundInv, SoundStep, PTL DEF Spec, ReceiptStands

-----------------------------------------------------------------------------
(* Retrieval.                                                              *)

(* The last chunks counted for a unit lead up to the offset it expects.    *)
RetrievalInv ==
  \A u \in Units :
    LET n == registry.next[u]  counts == log[u]
    IN /\ n <= Len(counts)
       /\ \A k \in 1 .. n : counts[Len(counts) - n + k][2] = k - 1

OrderInv == RetrievalInv /\ RetrievedInOrder

(* A sequence of chunks that holds a whole file, and holds it whatever is  *)
(* appended.                                                               *)
Holds(counts) ==
  \E i, j \in DOMAIN counts :
    /\ \A k \in i .. j : counts[k][2] = k - i
    /\ i <= j /\ IsLast(counts[j])

LEMMA HoldsStill ==
  ASSUME NEW counts \in Seq(Chunks), NEW chunk \in Chunks, Holds(counts)
  PROVE  Holds(Append(counts, chunk))
<1>1. PICK i, j \in DOMAIN counts : /\ \A k \in i .. j : counts[k][2] = k - i
                                    /\ i <= j /\ IsLast(counts[j])
  BY DEF Holds
<1> DEFINE more == Append(counts, chunk)
<1>2. DOMAIN counts = 1 .. Len(counts) /\ DOMAIN more = 1 .. Len(counts) + 1
      /\ Len(counts) \in Nat
  OBVIOUS
<1>3. \A k \in DOMAIN counts : more[k] = counts[k]
  OBVIOUS
<1>4. i \in DOMAIN more /\ j \in DOMAIN more
  BY <1>2
<1>5. \A k \in i .. j : k \in DOMAIN counts
  BY <1>2
<1> HIDE DEF more
<1> QED
  BY <1>1, <1>3, <1>4, <1>5 DEF Holds, more

LEMMA OrderStep == TypeInv /\ OrderInv /\ [Next]_vars => OrderInv'
<1> SUFFICES ASSUME TypeInv, OrderInv, [Next]_vars PROVE OrderInv'
  OBVIOUS
<1>0. ToolsType
  BY TypeParts
<1>1. ASSUME UNCHANGED log, registry'.done = registry.done, registry'.next = registry.next
      PROVE  OrderInv'
  BY <1>1 DEF OrderInv, RetrievalInv, RetrievedInOrder
<1>2. ASSUME NEW c \in Calls, RecordUnitRetrieval(c), Counts(c) PROVE OrderInv'
  <2>1. PICK u \in Units, chunk \in Chunks :
          /\ chunk[2] = registry.next[u]
          /\ log' = [log EXCEPT ![u] = Append(@, chunk)]
          /\ \/ /\ IsLast(chunk)
                /\ registry' = [registry EXCEPT !.done = @ \cup {u}, !.next[u] = 0]
             \/ registry' = [registry EXCEPT !.next[u] = chunk[2] + 1]
    <3>1. reads[c].tag \in Units /\ reads[c].chunk \in Chunks
      BY <1>0, <1>2 DEF ToolsType, Counts
    <3>2. reads[c].chunk[2] = registry.next[reads[c].tag]
      BY <1>2 DEF Counts, Follows
    <3>3. log' = [log EXCEPT ![reads[c].tag] = Append(@, reads[c].chunk)]
      BY <1>2 DEF RecordUnitRetrieval
    <3>4. \/ /\ IsLast(reads[c].chunk)
             /\ registry' = [registry EXCEPT !.done = @ \cup {reads[c].tag},
                                             !.next[reads[c].tag] = 0]
          \/ registry' = [registry EXCEPT !.next[reads[c].tag] = reads[c].chunk[2] + 1]
      BY <1>2 DEF RecordUnitRetrieval
    <3> QED
      BY <3>1, <3>2, <3>3, <3>4
  <2> DEFINE n == registry.next[u]  before == log[u]  after == Append(before, chunk)
  <2>2. /\ before \in Seq(Chunks) /\ Len(before) \in Nat /\ n \in Nat
        /\ n <= Len(before)
        /\ \A k \in 1 .. n : before[Len(before) - n + k][2] = k - 1
    BY <1>0 DEF ToolsType, OrderInv, RetrievalInv
  <2>3. log'[u] = after /\ \A v \in Units \ {u} : log'[v] = log[v]
    BY <1>0, <2>1 DEF ToolsType
  <2>4. /\ Len(after) = Len(before) + 1
        /\ after[Len(before) + 1] = chunk
        /\ \A k \in 1 .. Len(before) : after[k] = before[k]
    BY <2>2
  <2>5. \A k \in 1 .. n + 1 : after[Len(before) - n + k][2] = k - 1
    <3> TAKE k \in 1 .. n + 1
    <3>1. CASE k = n + 1
      <4>1. Len(before) - n + k = Len(before) + 1 /\ k - 1 = n
        BY <2>2, <3>1
      <4>2. chunk[2] = n
        BY <2>1
      <4> HIDE DEF after, before, n
      <4> QED
        BY <2>4, <4>1, <4>2
    <3>2. CASE k # n + 1
      <4>1. k \in 1 .. n /\ Len(before) - n + k \in 1 .. Len(before)
        BY <2>2, <3>2
      <4> QED
        BY <2>2, <2>4, <4>1
    <3> QED
      BY <3>1, <3>2
  <2>6. /\ \A v \in Units \ {u} : registry'.next[v] = registry.next[v]
        /\ registry'.next[u] \in {0, n + 1}
        /\ \/ registry'.done = registry.done
           \/ registry'.done = registry.done \cup {u} /\ IsLast(chunk)
    <3>1. CASE registry' = [registry EXCEPT !.next[u] = chunk[2] + 1]
      <4>1. registry'.next = [registry.next EXCEPT ![u] = n + 1] /\ registry'.done = registry.done
        BY <1>0, <2>1, <3>1 DEF ToolsType
      <4> QED
        BY <1>0, <4>1 DEF ToolsType
    <3>2. CASE IsLast(chunk) /\ registry' = [registry EXCEPT !.done = @ \cup {u}, !.next[u] = 0]
      <4>1. /\ registry'.next = [registry.next EXCEPT ![u] = 0]
            /\ registry'.done = registry.done \cup {u}
        BY <1>0, <3>2 DEF ToolsType
      <4> QED
        BY <1>0, <3>2, <4>1 DEF ToolsType
    <3> QED
      BY <2>1, <3>1, <3>2
  <2> HIDE DEF n, before, after
  <2>7. RetrievalInv'
    <3> SUFFICES ASSUME NEW v \in Units
                 PROVE  /\ registry'.next[v] <= Len(log'[v])
                        /\ \A k \in 1 .. registry'.next[v] :
                             log'[v][Len(log'[v]) - registry'.next[v] + k][2] = k - 1
      BY DEF RetrievalInv
    <3>1. CASE v # u
      BY <2>3, <2>6, <3>1 DEF OrderInv, RetrievalInv
    <3>2. CASE v = u /\ registry'.next[u] = 0
      BY <2>2, <2>3, <2>4, <3>2
    <3>3. CASE v = u /\ registry'.next[u] = n + 1
      <4>1. n + 1 <= Len(after)
        BY <2>2, <2>4
      <4>2. \A k \in 1 .. n + 1 : after[Len(after) - (n + 1) + k][2] = k - 1
        <5> TAKE k \in 1 .. n + 1
        <5>1. Len(after) - (n + 1) + k = Len(before) - n + k
          BY <2>2, <2>4
        <5> QED
          BY <2>5, <5>1
      <4> QED
        BY <2>3, <3>3, <4>1, <4>2
    <3> QED
      BY <2>6, <3>1, <3>2, <3>3
  <2>8. \A v \in registry'.done : Holds(log'[v])
    <3> TAKE v \in registry'.done
    <3>1. registry.done \subseteq Units /\ \A w \in registry.done : Holds(log[w])
      BY <1>0 DEF ToolsType, OrderInv, RetrievedInOrder, Holds
    <3>2. CASE v \in registry.done /\ v # u
      BY <2>3, <3>1, <3>2
    <3>3. CASE v \in registry.done /\ v = u
      BY <2>2, <2>3, <3>1, <3>3, HoldsStill DEF before, after
    <3>4. CASE v \notin registry.done
      <4>1. v = u /\ IsLast(chunk)
        BY <2>6, <3>4
      <4> DEFINE i == Len(before) + 1 - n  j == Len(before) + 1
      <4>2. after \in Seq(Chunks) /\ DOMAIN after = 1 .. j
        BY <2>2, <2>4 DEF after
      <4>3. i \in DOMAIN after /\ j \in DOMAIN after /\ i <= j
        BY <2>2, <4>2
      <4>4. \A k \in i .. j : after[k][2] = k - i
        <5> TAKE k \in i .. j
        <5>1. PICK m : m = k - i + 1
          OBVIOUS
        <5>2. m \in 1 .. n + 1 /\ k = Len(before) - n + m /\ m - 1 = k - i
          BY <2>2, <5>1
        <5> QED
          BY <2>5, <5>2
      <4>5. IsLast(after[j])
        BY <2>4, <4>1
      <4> QED
        BY <2>3, <4>1, <4>3, <4>4, <4>5 DEF Holds
    <3> QED
      BY <3>2, <3>3, <3>4
  <2> QED
    BY <2>7, <2>8 DEF OrderInv, RetrievedInOrder, Holds
<1>3. CASE \E c \in Calls :
             \/ \E chunk \in Chunks, tag \in Tags : ReadBegin(c, chunk, tag)
             \/ ToolTimeout(c) \/ ReadFails(c) \/ RegisterSource(c)
             \/ (RecordUnitRetrieval(c) /\ ~Counts(c))
  BY <1>0, <1>1, <1>3 DEF ToolsType, ReadBegin, ToolTimeout, ReadFails, RegisterSource,
     RecordUnitRetrieval
<1>4. CASE UseSkill \/ SkillEvent \/ ForeignModel \/ \E id \in UsageIds : UsageEvent(id)
  BY <1>1, <1>4 DEF UseSkill, SkillEvent, ForeignModel, UsageEvent, tools
<1>5. CASE \/ \E says \in Submissions, sound \in BOOLEAN : SubmitBegin(says, sound)
           \/ SubmitStep \/ PersistFails
  BY <1>1, <1>5 DEF SubmitBegin, SubmitStep, SubmitInvalid, Install, FileExists, Installed,
     PersistFails, tools
<1>6. CASE RunStep \/ Deadline \/ \E error \in BOOLEAN : SendReturns(error)
  BY <1>1, <1>6 DEF RunStep, SetupDone, SetupFails, CheckBroken, CheckSendError,
     ReadInvokedSkills, RunFails, Conclude, Deadline, SendReturns, End, tools
<1>7. CASE UNCHANGED vars
  BY <1>1, <1>7 DEF vars, tools
<1> QED
  BY <1>2, <1>3, <1>4, <1>5, <1>6, <1>7 DEF Next

LEMMA InitOrderInv == Init => OrderInv
BY DEF Init, OrderInv, RetrievalInv, RetrievedInOrder

(* A unit counts as retrieved only after chunks of every offset of a file. *)
THEOREM RetrievalCorrect == Spec => []RetrievedInOrder
<1>1. OrderInv => RetrievedInOrder
  BY DEF OrderInv
<1> QED
  BY <1>1, InitType, TypeStep, InitOrderInv, OrderStep, PTL DEF Spec
=============================================================================
