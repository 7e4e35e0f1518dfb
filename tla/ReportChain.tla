----------------------------- MODULE ReportChain -----------------------------
(***************************************************************************)
(* What internal/gitlab/publish.go promises to whoever looks at the merge  *)
(* request: the bot-owned reports are a queue.  A job puts its report at   *)
(* the newer end, may withdraw it while it is not published, and takes     *)
(* reports from the older end once a finalised one stands behind them.     *)
(* Module Publication implements it, interruptions included.               *)
(***************************************************************************)
EXTENDS Naturals

CONSTANT Ids           \* note IDs, positive numbers

VARIABLES
  live,                \* the reports that exist
  sealed,              \* those that carry their own note ID
  pending,             \* the report a running job has yet to publish, or 0
  forked               \* whether GitLab has applied a POST behind a later job

vars == <<live, sealed, pending, forked>>

Nobody == 0

IsNewest(k) == k \in live /\ \A n \in live : n <= k
IsOldest(k) == k \in live /\ \A n \in live : k <= n

(* At first there is no report, or the one an earlier job published.       *)
Init ==
  /\ live = {} \/ \E n \in Ids : live = {n}
  /\ sealed = live
  /\ pending = Nobody
  /\ forked = FALSE

(* A report comes under a new ID; a lost response leaves it unclaimed.     *)
Push(k) ==
  /\ pending = Nobody
  /\ \A n \in live : n < k
  /\ live' = live \cup {k}
  /\ pending' \in {k, Nobody}
  /\ UNCHANGED <<sealed, forked>>

(* The job finds its unclaimed report at the end of the queue.             *)
Claim(k) ==
  /\ pending = Nobody
  /\ IsNewest(k)
  /\ pending' = k
  /\ UNCHANGED <<live, sealed, forked>>

(* The report is finalised.                                                *)
Seal ==
  /\ IsNewest(pending)
  /\ sealed' = sealed \cup {pending}
  /\ UNCHANGED <<live, pending, forked>>

(* It is published, or the job is gone and the report is as it is.         *)
LetGo ==
  /\ pending' = Nobody
  /\ UNCHANGED <<live, sealed, forked>>

Withdraw ==
  /\ IsNewest(pending)
  /\ live' = live \ {pending}
  /\ sealed' = sealed \ {pending}
  /\ pending' = Nobody
  /\ UNCHANGED forked

(* The oldest report goes, and only while the newest one is finalised.     *)
Shift(k) ==
  /\ pending = Nobody
  /\ IsOldest(k)
  /\ \E n \in sealed : n # k /\ IsNewest(n)
  /\ live' = live \ {k}
  /\ sealed' = sealed \ {k}
  /\ UNCHANGED <<pending, forked>>

(* A POST applied behind a later job voids the promise.                    *)
Fork == forked'

Next ==
  \/ \E k \in Ids : Push(k) \/ Claim(k) \/ Shift(k)
  \/ Seal
  \/ LetGo
  \/ Withdraw
  \/ Fork

Spec == Init /\ [][Next]_vars
=============================================================================
