---------------------------- MODULE ContextReads ----------------------------
(***************************************************************************)
(* How a job reads the merge request: FetchContext of internal/gitlab/     *)
(* read.go with its pagination, the two credentials and the client's       *)
(* caches.  A fetch is many requests, and GitLab's lists shift while they  *)
(* are read page by page.                                                  *)
(*                                                                         *)
(* Notes are numbered in the order they are written.  GitLab lists notes   *)
(* newest first and discussions oldest first; the job token may belong to  *)
(* somebody who cannot see restricted notes.                               *)
(***************************************************************************)
EXTENDS Naturals, FiniteSets, FiniteSetsExt, Sequences, Functions

CONSTANTS
  Notes,        \* notes of the merge request, early and late
  Thread,       \* the first note of the discussion each is part of
  Author,       \* who wrote each
  Bots,         \* authors that GitLab knows to be bots
  Early,        \* what the notes are at first
  PageSize,     \* notes or discussions on a page
  MaxChanges,   \* bound: what others do to the merge request
  MaxFaults     \* bound: requests that are refused or fail

Statuses == {"none", "public", "restricted", "gone"}

ASSUME ReadsAssumption ==
  /\ Notes \subseteq Nat \ {0} /\ IsFiniteSet(Notes)
  /\ \A n \in Notes : Thread[n] \in Notes /\ Thread[n] <= n
  /\ DOMAIN Author = Notes /\ Range(Author) \subseteq Nat /\ Bots \subseteq Range(Author)
  /\ Early \in [Notes -> Statuses]
  /\ PageSize \in Nat \ {0}
  /\ {MaxChanges, MaxFaults} \subseteq Nat

VARIABLES
  notes,        \* GitLab: the status of each note
  hasJobToken,  \* is there a job token?
  denied,       \* endpoints that refused the job token (jobDenied)
  authors,      \* author lookups done so far (authors)
  fetch,        \* the fetch under way
  left          \* what remains of each bound

readVars == <<notes, hasJobToken, denied, authors, fetch, left>>

(* The requests of a fetch in their order.                                 *)
After == [merge_request |-> "notes", notes |-> "discussions",
          discussions |-> "labels", labels |-> "authors"]
Routed == {"merge_request", "notes"}   \* the others are for the API token only
Paged  == {"notes", "discussions"}     \* project labels are paged too, but do not matter here
Kinds  == {"human", "bot", "unknown"}

NoFetch == [at |-> "off", fellBack |-> FALSE, page |-> 1, list |-> {}, found |-> {},
            kinds |-> <<>>, base |-> Early]

ReadsTypeOK ==
  /\ notes \in [Notes -> Statuses]
  /\ hasJobToken \in BOOLEAN
  /\ denied \subseteq Routed
  /\ \A u \in DOMAIN authors : u \in Range(Author) /\ authors[u] \in Kinds
  /\ fetch.at \in {"off", "authors", "done", "failed"} \cup DOMAIN After
  /\ fetch.fellBack \in BOOLEAN
  /\ fetch.page \in 1 .. Cardinality(Notes) + 1
  /\ fetch.list \cup fetch.found \subseteq Notes \X BOOLEAN
  /\ left \in [{"change", "fault"} -> Nat]

Spend(kind) ==
  /\ left[kind] > 0
  /\ left' = [left EXCEPT ![kind] = @ - 1]

ReadsInit ==
  /\ notes = Early
  /\ hasJobToken \in BOOLEAN
  /\ denied = {}
  /\ authors = <<>>
  /\ fetch = [NoFetch EXCEPT !.at = "merge_request"]
  /\ left = [change |-> MaxChanges, fault |-> MaxFaults]

-----------------------------------------------------------------------------
(* GitLab and its users.                                                   *)

Post(n) ==
  /\ Spend("change")
  /\ notes[n] = "none"
  /\ \A m \in Notes : m < n => notes[m] # "none"
  /\ notes[Thread[n]] \in {"none", "public", "restricted"}
  /\ \E status \in {"public", "restricted"} : notes' = [notes EXCEPT ![n] = status]
  /\ UNCHANGED <<hasJobToken, denied, authors, fetch>>

Withdraw(n) ==
  /\ Spend("change")
  /\ notes[n] \in {"public", "restricted"}
  /\ notes' = [notes EXCEPT ![n] = "gone"]
  /\ UNCHANGED <<hasJobToken, denied, authors, fetch>>

(* The list as it is now: a sequence of sets of notes.                     *)
Listing(endpoint, token) ==
  LET shown == {n \in Notes : \/ notes[n] = "public"
                              \/ notes[n] = "restricted" /\ token = "api"}
      threads == {Thread[n] : n \in shown}
  IN IF endpoint = "notes"
       THEN [i \in 1 .. Cardinality(shown) |->
               {n \in shown : Cardinality({m \in shown : m >= n}) = i}]
       ELSE [i \in 1 .. Cardinality(threads) |->
               {n \in shown : Cardinality({t \in threads : t <= Thread[n]}) = i}]

Page(endpoint, token, page) ==
  LET all == Listing(endpoint, token)
  IN UNION {all[i] : i \in {j \in DOMAIN all : (page - 1) * PageSize < j
                                               /\ j <= page * PageSize}}

-----------------------------------------------------------------------------
(* The client.                                                             *)

BeginFetch == fetch' = [NoFetch EXCEPT !.at = "merge_request", !.base = notes]

(* routedRead and apiRead: which credential a request uses.                *)
Token(endpoint) ==
  IF hasJobToken /\ endpoint \in Routed /\ endpoint \notin denied /\ ~fetch.fellBack
    THEN "job" ELSE "api"

Done == [fetch EXCEPT !.at = After[@], !.fellBack = FALSE, !.page = 1, !.list = {},
                      !.found = @ \cup fetch.list]

(* The call starts over with the API token.                                *)
FallBack == [fetch EXCEPT !.fellBack = TRUE, !.page = 1, !.list = {}]

(* 401 and 403 are remembered for this endpoint, 404 is not.               *)
Refused(endpoint) ==
  /\ Spend("fault")
  /\ Token(endpoint) = "job"
  /\ \E masked \in BOOLEAN : denied' = IF masked THEN denied ELSE denied \cup {endpoint}
  /\ fetch' = FallBack
  /\ UNCHANGED <<notes, hasJobToken, authors>>

(* Any other error of either credential, and every one of the API token.   *)
ReadFails ==
  /\ fetch.at \in DOMAIN After
  /\ Spend("fault")
  /\ fetch' = [fetch EXCEPT !.at = "failed"]
  /\ UNCHANGED <<notes, hasJobToken, denied, authors>>

ReadWhole ==
  /\ fetch.at \in DOMAIN After \ Paged
  /\ fetch' = Done
  /\ UNCHANGED <<notes, hasJobToken, denied, authors, left>>

(* Mutant: a page without headers is the last.                             *)
NextPageTrusting(items, more, headers) ==
  CASE headers = "sound"                    -> IF more THEN fetch.page + 1 ELSE 0
    [] headers = "missing"                  -> 0
    [] OTHER                                -> fetch.page

(* validatedNextPage and the check of paginate: what the headers say of    *)
(* the pages to come.  "missing" is a response without them.               *)
NextPage(items, more, headers) ==
  CASE headers = "sound"                    -> IF more THEN fetch.page + 1 ELSE 0
    [] headers = "missing" /\ items = {}    -> 0
    [] OTHER                                -> fetch.page

(* Mutant: only the discussions say what is restricted.                    *)
EntriesOfDiscussions(items) ==
  {<<n, notes[n] = "restricted" /\ fetch.at = "discussions">> : n \in items}

(* Each note with whether it is internal or confidential.                  *)
Entries(items) == {<<n, notes[n] = "restricted">> : n \in items}

ReadPage ==
  /\ fetch.at \in Paged
  /\ \E headers \in {"sound", "missing", "wrong"} :
       LET token == Token(fetch.at)
           items == Page(fetch.at, token, fetch.page)
           more  == Len(Listing(fetch.at, token)) > fetch.page * PageSize
           next  == NextPage(items, more, headers)
           read  == [fetch EXCEPT !.list = @ \cup Entries(items)]
       IN /\ IF headers = "sound" THEN UNCHANGED left ELSE Spend("fault")
          /\ fetch' = CASE next = 0              -> [Done EXCEPT !.found = fetch.found \cup read.list]
                        [] next = fetch.page + 1 -> [read EXCEPT !.page = next]
                        [] OTHER                 -> [fetch EXCEPT !.at = "failed"]
  /\ UNCHANGED <<notes, hasJobToken, denied, authors>>

(* normalizeDiscussionContext: the notes of both lists, without those      *)
(* either of them shows as restricted.                                     *)
Visible(found) == {item[1] : item \in found} \ {item[1] : item \in {i \in found : i[2]}}

(* Mutant: a failed lookup is not remembered.                              *)
RememberAnswers(user, kind) ==
  IF kind = "unknown" THEN authors ELSE [u \in DOMAIN authors \cup {user} |->
                                           IF u = user THEN kind ELSE authors[u]]

(* The cache of ClassifyAuthor: the first answer stays, an error too.      *)
Remember(user, kind) ==
  [u \in DOMAIN authors \cup {user} |-> IF u = user THEN kind ELSE authors[u]]

(* classifyVisibleAuthors, in the order of user IDs.                       *)
Classify ==
  /\ fetch.at = "authors"
  /\ LET unclassified == {Author[n] : n \in Visible(fetch.found)} \ DOMAIN fetch.kinds
         user         == Min(unclassified)
         with(kind)   == [fetch EXCEPT !.kinds = [u \in DOMAIN @ \cup {user} |->
                                                    IF u = user THEN kind ELSE @[u]]]
     IN \/ /\ unclassified = {}
           /\ fetch' = [fetch EXCEPT !.at = "done"]
           /\ UNCHANGED <<authors, left>>
        \/ /\ unclassified # {} /\ user \in DOMAIN authors
           /\ fetch' = with(authors[user])
           /\ UNCHANGED <<authors, left>>
        \/ /\ unclassified # {} /\ user \notin DOMAIN authors
           /\ \E kind \in {"unknown", IF user \in Bots THEN "bot" ELSE "human"} :
                /\ IF kind = "unknown" THEN Spend("fault") ELSE UNCHANGED left
                /\ authors' = Remember(user, kind)
                /\ fetch' = with(kind)
  /\ UNCHANGED <<notes, hasJobToken, denied>>

FetchStep ==
  \/ fetch.at \in Routed /\ Refused(fetch.at)
  \/ ReadFails
  \/ ReadWhole
  \/ ReadPage
  \/ Classify

(* What Fingerprint hashes of a context: its notes and whose they are.     *)
NotePrints == {<<n, fetch.kinds[Author[n]]>> : n \in Visible(fetch.found)}

-----------------------------------------------------------------------------
(* Properties.                                                             *)

(* FetchContext: a context is complete although the lists shift while they *)
(* are read.  A public note that is there from the start to the end of a   *)
(* successful fetch is part of it, unless two notes were deleted meanwhile:*)
(* one deletion shifts one of the two lists only, and they run in opposite *)
(* directions.                                                             *)
NothingMissed ==
  fetch.at = "done" =>
    LET dropped == {n \in Notes : fetch.base[n] # "gone" /\ notes[n] = "gone"}
    IN Cardinality(dropped) <= 1 =>
         {n \in Notes : fetch.base[n] = "public" /\ notes[n] = "public"}
           \subseteq Visible(fetch.found)

(* README: restricted text is excluded before prompts and fingerprints. No *)
(* restricted note is in a context, whichever list it is missing from.     *)
RestrictedStaysOut ==
  fetch.at = "done" =>
    \A n \in Visible(fetch.found) : notes[n] # "restricted"
=============================================================================
