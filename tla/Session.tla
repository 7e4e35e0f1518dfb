------------------------------- MODULE Session -------------------------------
(***************************************************************************)
(* One AI session of a review batch: internal/copilot/engine.go (Run, the  *)
(* submit_review handler, wrapTool), telemetry.go (event collector),       *)
(* registry.go (what has been retrieved) and review/accept.go (the         *)
(* submission file).                                                       *)
(*                                                                         *)
(* Run is one goroutine.  The SDK calls tool handlers and delivers events  *)
(* on others, so they act between any two steps of Run and of each other,  *)
(* and a handler outlives its own timeout, the session's, and Run (reads   *)
(* are not followed that far: nobody looks at the registry any more).  The *)
(* Copilot runtime and the model are external: they call what they like.   *)
(***************************************************************************)
EXTENDS Naturals, FiniteSets, Sequences

CONSTANTS
  Units,          \* oversized units: their source has to be retrieved
  Size,           \* of every source file, in chunks of max_source_bytes
  FullFits,       \* does the result of a full chunk fit max_tool_output_bytes?
  MaxCalls,       \* bound: read tool calls under way at once
  MaxUsage,       \* bound: provider calls, numbered as their usage arrives
  MaxCorrections, \* max_correction_attempts
  MaxTokens,      \* max_input_tokens, 0 for no budget; every call uses one
  MaxReads,       \* bound: read tool calls
  MaxSubmits,     \* bound: submit_review calls
  MaxFaults       \* bound: failed reads and writes, errors of the runtime

Files == DOMAIN Size
Calls == 1 .. MaxCalls
UsageIds == 1 .. MaxUsage

ASSUME SessionAssumption ==
  /\ Files # {}
  /\ \A f \in Files : Size[f] \in Nat \ {0}
  /\ FullFits \in BOOLEAN
  /\ MaxCorrections \in Nat \ {0}
  /\ {MaxTokens, MaxUsage, MaxCalls, MaxReads, MaxSubmits, MaxFaults} \subseteq Nat

VARIABLES
  pc,             \* where Run is
  sendErr,        \* whether SendAndWait returned an error
  ctx,            \* runCtx: live, canceled, or past its deadline
  skill,          \* the required skill: unused, used, or known to be used
  counted,        \* usage events the collector has seen, by ID
  tokens,         \* usage it has added up
  integrity,      \* the integrity error it has recorded
  registry,       \* sources registered, units retrieved, offsets expected next
  reads,          \* the read tool calls under way
  submit,         \* the submit_review call that holds the mutex
  corrections,    \* rejected submissions
  accepted,       \* the accepted submission, if any
  receipt,        \* what the submission file holds, if it exists
  returned,       \* ghost: chunks returned to the model
  log,            \* ghost: chunks counted for each unit, in order
  tainted,        \* ghost: an integrity error preceded the return of SendAndWait
  result,         \* the submission Run returned, if any
  left            \* what remains of each bound

collector == <<skill, counted, tokens, integrity>>
tools     == <<registry, reads, returned, log>>
acceptor  == <<submit, corrections, accepted, receipt>>
engine    == <<pc, sendErr, tainted, result>>
vars      == <<collector, tools, acceptor, engine, ctx, left>>

Phases == {"setup", "send", "integrity", "sendError", "skills", "conclude", "ended"}
Kinds  == {"read", "submit", "fault"}

(* A chunk, by file and number.  Offsets inside a chunk or past the end of *)
(* a file are not considered.                                              *)
Chunks    == UNION {{f} \X (0 .. Size[f] - 1) : f \in Files}
IsLast(c) == c[2] + 1 = Size[c[1]]
Fits(c)   == FullFits \/ IsLast(c)

(* The unit_id a read names: none, one without a requirement, or a unit.   *)
Tags == {"none", "not required"} \cup Units

(* What a submission says: the oversized units it claims to have assessed  *)
(* completely.                                                             *)
Submissions == SUBSET Units
AtMostOne   == {S \in SUBSET Submissions : Cardinality(S) <= 1}

SomeChunk == CHOOSE c \in Chunks : TRUE
NoRead == [phase |-> "free", chunk |-> SomeChunk, tag |-> "none", orphan |-> FALSE]
NoCall == [phase |-> "free", says |-> {}]

TypeOK ==
  /\ pc \in Phases /\ sendErr \in BOOLEAN /\ tainted \in BOOLEAN
  /\ ctx \in {"live", "canceled", "deadline"}
  /\ skill \in {"unused", "used", "known"}
  /\ counted \subseteq UsageIds
  /\ tokens \in 0 .. Cardinality(UsageIds)
  /\ integrity \in {"none", "budget", "model"}
  /\ registry \in [sources : SUBSET Chunks, done : SUBSET Units, next : [Units -> Nat]]
  /\ reads \in [Calls -> [phase : {"free", "reading", "registered"},
                          chunk : Chunks, tag : Tags, orphan : BOOLEAN]]
  /\ submit \in [phase : {"free", "valid", "invalid", "installed"}, says : Submissions]
  /\ corrections \in Nat
  /\ {accepted, receipt, result} \subseteq AtMostOne
  /\ returned \subseteq registry.sources
  /\ log \in [Units -> Seq(Chunks)]
  /\ left \in [Kinds -> Nat]

Init ==
  /\ pc = "setup" /\ sendErr = FALSE /\ tainted = FALSE /\ result = {}
  /\ ctx = "live"
  /\ skill = "unused" /\ counted = {} /\ tokens = 0 /\ integrity = "none"
  /\ registry = [sources |-> {}, done |-> {}, next |-> [u \in Units |-> 0]]
  /\ reads = [c \in Calls |-> NoRead]
  /\ returned = {} /\ log = [u \in Units |-> <<>>]
  /\ submit = NoCall /\ corrections = 0 /\ accepted = {} /\ receipt = {}
  /\ left = [k \in Kinds |-> CASE k = "read" -> MaxReads [] k = "submit" -> MaxSubmits
                               [] OTHER -> MaxFaults]

-----------------------------------------------------------------------------
Spend(kind) ==
  /\ left[kind] > 0
  /\ left' = [left EXCEPT ![kind] = @ - 1]

(* cancel(): the deadline keeps its error if it came first.                *)
Canceled == IF ctx = "live" THEN "canceled" ELSE ctx

(* Between CreateSession and Disconnect.                                   *)
Connected == pc \notin {"setup", "ended"}

-----------------------------------------------------------------------------
(* The event collector.                                                    *)

(* The runtime invokes the skill; the collector learns of it by an event   *)
(* or when Run asks.                                                       *)
UseSkill ==
  /\ Connected
  /\ skill = "unused"
  /\ skill' = "used"
  /\ UNCHANGED <<counted, tokens, integrity, tools, acceptor, engine, ctx, left>>

SkillEvent ==
  /\ Connected
  /\ skill = "used"
  /\ skill' = "known"
  /\ UNCHANGED <<counted, tokens, integrity, tools, acceptor, engine, ctx, left>>

(* fail: the first integrity error stays and cancels the session.          *)
Fails(error) ==
  /\ integrity' = IF integrity = "none" THEN error ELSE integrity
  /\ ctx' = IF integrity = "none" THEN Canceled ELSE ctx

OverBudget(sum) == MaxTokens > 0 /\ sum > MaxTokens

(* Mutant: a usage event that is delivered again is added again.           *)
UsageEventTwice(id) ==
  /\ Connected
  /\ counted' = counted \cup {id}
  /\ tokens' = tokens + 1
  /\ IF OverBudget(tokens') THEN Fails("budget") ELSE UNCHANGED <<integrity, ctx>>
  /\ UNCHANGED <<skill, tools, acceptor, engine, left>>

(* handle, AssistantUsageData: a repeated ID changes nothing.              *)
UsageEvent(id) ==
  /\ Connected
  /\ id \notin counted
  /\ (1 .. id - 1) \subseteq counted
  /\ counted' = counted \cup {id}
  /\ tokens' = tokens + 1
  /\ IF OverBudget(tokens') THEN Fails("budget") ELSE UNCHANGED <<integrity, ctx>>
  /\ UNCHANGED <<skill, tools, acceptor, engine, left>>

(* An event names another model, or a call outside the provider.           *)
ForeignModel ==
  /\ Connected
  /\ Spend("fault")
  /\ Fails("model")
  /\ UNCHANGED <<skill, counted, tokens, tools, acceptor, engine>>

-----------------------------------------------------------------------------
(* repository_read in its wrapper.  The other read tools register sources  *)
(* in the same way and name no unit.                                       *)

(* The calls under way are interchangeable: a new one is the first free.   *)
ReadBegin(c, chunk, tag) ==
  /\ Connected
  /\ reads[c].phase = "free"
  /\ \A d \in 1 .. c - 1 : reads[d].phase # "free"
  /\ Spend("read")
  /\ reads' = [reads EXCEPT ![c] = [phase |-> "reading", chunk |-> chunk, tag |-> tag,
                                    orphan |-> FALSE]]
  /\ UNCHANGED <<collector, registry, returned, log, acceptor, engine, ctx>>

(* The wrapper's timeout: the model gets an error, the handler goes on.    *)
ToolTimeout(c) ==
  /\ Connected
  /\ reads[c].phase # "free"
  /\ ~reads[c].orphan
  /\ reads' = [reads EXCEPT ![c].orphan = TRUE]
  /\ UNCHANGED <<collector, registry, returned, log, acceptor, engine, ctx, left>>

(* Git fails, or is killed by the timeout.                                 *)
ReadFails(c) ==
  /\ Connected
  /\ reads[c].phase = "reading"
  /\ IF reads[c].orphan THEN UNCHANGED left ELSE Spend("fault")
  /\ reads' = [reads EXCEPT ![c] = NoRead]
  /\ UNCHANGED <<collector, registry, returned, log, acceptor, engine, ctx>>

RegisterSource(c) ==
  /\ Connected
  /\ reads[c].phase = "reading"
  /\ reads' = [reads EXCEPT ![c].phase = "registered"]
  /\ registry' = [registry EXCEPT !.sources = @ \cup {reads[c].chunk}]
  /\ UNCHANGED <<collector, returned, log, acceptor, engine, ctx, left>>

(* Mutant: any chunk continues a retrieval.                                *)
FollowsAny(u, chunk) == TRUE

(* A retrieval starts at offset zero and leaves out nothing.               *)
Follows(u, chunk) == chunk[2] = registry.next[u]

(* RecordUnitRetrieval, called only when a unit is named.                  *)
Counts(c)  == reads[c].tag \in Units /\ Follows(reads[c].tag, reads[c].chunk)
Refused(c) == reads[c].tag # "none" /\ ~Counts(c)

(* The handler ends with this step.  Its result is returned to the model   *)
(* unless it failed, came too late or is too long; a timeout between the   *)
(* record and the return is one before both.                               *)
RecordUnitRetrieval(c) ==
  /\ Connected
  /\ reads[c].phase = "registered"
  /\ reads' = [reads EXCEPT ![c] = NoRead]
  /\ LET u == reads[c].tag  chunk == reads[c].chunk
     IN /\ returned' = IF Refused(c) \/ reads[c].orphan \/ ~Fits(chunk)
                         THEN returned ELSE returned \cup {chunk}
        /\ IF ~Counts(c) THEN UNCHANGED <<registry, log>>
           ELSE /\ registry' = IF IsLast(chunk)
                     THEN [registry EXCEPT !.done = @ \cup {u}, !.next[u] = 0]
                     ELSE [registry EXCEPT !.next[u] = chunk[2] + 1]
                /\ log' = [log EXCEPT ![u] = Append(@, chunk)]
  /\ UNCHANGED <<collector, acceptor, engine, ctx, left>>

-----------------------------------------------------------------------------
(* submit_review, under the mutex of submissionState.                      *)

(* The model may get anything else in a submission wrong, too.  A call     *)
(* without the skill or after an acceptance is answered with an error and  *)
(* changes nothing.                                                        *)
SubmitBegin(says, sound) ==
  /\ pc # "setup"
  /\ submit.phase = "free"
  /\ accepted = {}
  /\ skill = "known"
  /\ Spend("submit")
  /\ submit' = IF sound /\ says \subseteq registry.done
                 THEN [phase |-> "valid", says |-> says] ELSE [phase |-> "invalid", says |-> {}]
  /\ UNCHANGED <<collector, tools, corrections, accepted, receipt, engine, ctx>>

(* Mutant: a rejection locks the mutex that its own handler holds.         *)
RejectLocked ==
  /\ submit.phase = "free"
  /\ corrections' = corrections + 1
  /\ ctx' = IF corrections' >= MaxCorrections THEN Canceled ELSE ctx
  /\ UNCHANGED <<submit, accepted>>

(* A rejection, which returns the mutex; the last one cancels the session. *)
Reject ==
  /\ corrections' = corrections + 1
  /\ ctx' = IF corrections' >= MaxCorrections THEN Canceled ELSE ctx
  /\ submit' = NoCall
  /\ UNCHANGED accepted

SubmitInvalid ==
  /\ submit.phase = "invalid"
  /\ Reject
  /\ UNCHANGED <<collector, tools, receipt, engine, left>>

Accept ==
  /\ accepted' = {submit.says}
  /\ submit' = NoCall
  /\ UNCHANGED <<corrections, ctx>>

(* Mutant: the file is renamed into place whatever is there.               *)
InstallOver ==
  /\ submit.phase = "valid"
  /\ receipt' = {submit.says}
  /\ submit' = [submit EXCEPT !.phase = "installed"]
  /\ UNCHANGED <<collector, tools, corrections, accepted, engine, ctx, left>>

(* persist: the file is linked into place, once.                           *)
Install ==
  /\ submit.phase = "valid"
  /\ receipt = {}
  /\ receipt' = {submit.says}
  /\ submit' = [submit EXCEPT !.phase = "installed"]
  /\ UNCHANGED <<collector, tools, corrections, accepted, engine, ctx, left>>

(* The file exists: its content decides.                                   *)
FileExists ==
  /\ submit.phase = "valid"
  /\ receipt # {}
  /\ IF receipt = {submit.says} THEN Accept ELSE Reject
  /\ UNCHANGED <<collector, tools, receipt, engine, left>>

Installed ==
  /\ submit.phase = "installed"
  /\ Accept
  /\ UNCHANGED <<collector, tools, receipt, engine, left>>

(* A write fails before the link, or the directory cannot be synced after. *)
PersistFails ==
  /\ submit.phase \in {"valid", "installed"}
  /\ Spend("fault")
  /\ Reject
  /\ UNCHANGED <<collector, tools, receipt, engine>>

SubmitStep == SubmitInvalid \/ Install \/ FileExists \/ Installed

-----------------------------------------------------------------------------
(* Run.                                                                    *)

(* Reads under way are not followed further.                               *)
End(value) ==
  /\ pc' = "ended"
  /\ result' = value
  /\ reads' = [c \in Calls |-> NoRead]
  /\ UNCHANGED <<sendErr, tainted, collector, registry, returned, log, acceptor, ctx>>

(* The runtime starts, the session is created; skills may be invoked by    *)
(* then.                                                                   *)
SetupDone ==
  /\ pc = "setup"
  /\ ctx = "live"
  /\ pc' = "send"
  /\ skill' \in {"unused", "known"}
  /\ UNCHANGED <<counted, tokens, integrity, tools, acceptor, sendErr, tainted, result, ctx, left>>

SetupFails ==
  /\ pc = "setup"
  /\ IF ctx = "live" THEN Spend("fault") ELSE UNCHANGED left
  /\ End({})

(* SendAndWait returns: the session is idle, the context is done, or the   *)
(* runtime failed.                                                         *)
SendReturns(error) ==
  /\ pc = "send"
  /\ IF error /\ ctx = "live" THEN Spend("fault") ELSE UNCHANGED left
  /\ pc' = "integrity"
  /\ sendErr' = error
  /\ tainted' = (integrity # "none")
  /\ UNCHANGED <<collector, tools, acceptor, result, ctx>>

(* Mutant: integrity matters only when SendAndWait fails.                  *)
IsBrokenOnError == sendErr /\ (integrity # "none" \/ ctx = "deadline")

(* What ends a session whatever has been submitted.                        *)
IsBroken == integrity # "none" \/ (sendErr /\ ctx = "deadline")

CheckBroken ==
  /\ pc = "integrity"
  /\ IF IsBroken THEN End({})
     ELSE /\ pc' = IF sendErr THEN "sendError" ELSE "skills"
          /\ UNCHANGED <<sendErr, tainted, result, collector, tools, acceptor, ctx>>
  /\ UNCHANGED left

(* An error after an acceptance is of no consequence.  Reading it needs    *)
(* the mutex.                                                              *)
CheckSendError ==
  /\ pc = "sendError"
  /\ submit.phase = "free"
  /\ IF accepted = {} THEN End({})
     ELSE /\ pc' = "skills"
          /\ UNCHANGED <<sendErr, tainted, result, collector, tools, acceptor, ctx>>
  /\ UNCHANGED left

ReadInvokedSkills ==
  /\ pc = "skills"
  /\ IF skill = "unused" THEN End({})
     ELSE /\ pc' = "conclude"
          /\ skill' = "known"
          /\ UNCHANGED <<sendErr, tainted, result, counted, tokens, integrity, tools, acceptor, ctx>>
  /\ UNCHANGED left

(* The skills cannot be read, or the runtime does not stop cleanly: the    *)
(* coordinator takes a result that comes with an error for a failure.      *)
RunFails ==
  /\ pc \in {"skills", "conclude"}
  /\ Spend("fault")
  /\ End({})

Conclude ==
  /\ pc = "conclude"
  /\ submit.phase = "free"
  /\ End(accepted)
  /\ UNCHANGED left

RunStep ==
  \/ SetupDone \/ SetupFails
  \/ CheckBroken \/ CheckSendError
  \/ ReadInvokedSkills \/ RunFails
  \/ Conclude

(* The session's deadline.  A job that is stopped by a signal fails as a   *)
(* whole (module ReviewRun).                                               *)
Deadline ==
  /\ pc # "ended"
  /\ ctx = "live"
  /\ ctx' = "deadline"
  /\ UNCHANGED <<collector, tools, acceptor, engine, left>>

Next ==
  \/ UseSkill \/ SkillEvent \/ ForeignModel
  \/ \E id \in UsageIds : UsageEvent(id)
  \/ \E c \in Calls :
       \/ \E chunk \in Chunks, tag \in Tags : ReadBegin(c, chunk, tag)
       \/ ToolTimeout(c) \/ ReadFails(c) \/ RegisterSource(c) \/ RecordUnitRetrieval(c)
  \/ \E says \in Submissions, sound \in BOOLEAN : SubmitBegin(says, sound)
  \/ SubmitStep \/ PersistFails
  \/ RunStep
  \/ \E error \in BOOLEAN : SendReturns(error)
  \/ Deadline

Spec == Init /\ [][Next]_vars

(* Run and the handler of a submission go on, the timer fires, and a call  *)
(* whose context is done returns.  The model owes nothing.                 *)
FairSpec ==
  /\ Spec
  /\ WF_vars(RunStep)
  /\ WF_vars(SubmitStep)
  /\ WF_vars(Deadline)
  /\ WF_vars(ctx # "live" /\ SendReturns(TRUE))
-----------------------------------------------------------------------------
(* Properties.                                                             *)

(* A session that returns a submission has it on disk, word for word; the  *)
(* skill was used; all it claims was retrieved; and no integrity error had *)
(* been met when SendAndWait returned, not even in the same moment.        *)
ResultIsSound ==
  \A s \in result :
    /\ receipt = {s}
    /\ skill # "unused"
    /\ s \subseteq registry.done
    /\ ~tainted

(* The submission file is written once: a second submission, a failed sync *)
(* or a session that has timed out never replaces it, and what is accepted *)
(* is what it holds.                                                       *)
ReceiptStands ==
  [][receipt' # receipt => receipt = {} /\ accepted = {} /\ accepted' = {}]_vars

(* A unit counts as retrieved only after chunks of every offset from zero  *)
(* up to the end of a file, in order, however calls overlap and time out.  *)
RetrievedInOrder ==
  \A u \in registry.done :
    \E i, j \in DOMAIN log[u] :
      /\ \A k \in i .. j : log[u][k][2] = k - i
      /\ i <= j /\ IsLast(log[u][j])

(* A usage budget ends a session when distinct calls exceed it, and only   *)
(* then: an event that is delivered again is not added again.              *)
BudgetIsFair ==
  /\ integrity = "budget" => OverBudget(Cardinality(counted))
  /\ OverBudget(Cardinality(counted)) => integrity # "none" /\ ctx # "live"

(* Every session ends, whoever holds the mutex when its deadline passes.   *)
Ends == <>(pc = "ended")

(* Sources are registered, and retrieval counted, only for what the model  *)
(* was given, but for calls still under way (comment of                    *)
(* AssignmentRegistry).                                                    *)
OnlyReturnedRegistered ==
  pc # "ended" => registry.sources \subseteq
    returned \cup {reads[c].chunk : c \in {d \in Calls : reads[d].phase # "free"}}
=============================================================================
