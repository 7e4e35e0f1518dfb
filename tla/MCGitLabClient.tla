--------------------------- MODULE MCGitLabClient ---------------------------
(* GitLabClient on a small instance.                                       *)
EXTENDS GitLabClient

(* Two notes in discussions of their own, a restricted one, and a late     *)
(* reply by a bot to the first.                                            *)
SmallThread == <<1, 2, 3, 1>>
SmallAuthor == <<1, 1, 2, 3>>
SmallEarly  == <<"public", "public", "restricted", "none">>

Values(a, b) == [v \in {"approved", "needs_review"} |-> IF v = "approved" THEN a ELSE b]

Verdict == [source |-> "verdict", mode |-> "single", prefix |-> Plain, buckets |-> <<>>,
            values |-> Values(<<"verdict", "pass">>, <<"verdict", "fail">>),
            missing |-> "omit"]
Tools   == [source |-> "executed_tools", mode |-> "set", prefix |-> "tool-", buckets |-> <<>>,
            values |-> <<>>, missing |-> "unknown"]
Tokens  == [source |-> "token_usage", mode |-> "single", prefix |-> "tokens",
            buckets |-> << [below |-> 5, label |-> <<"tokens", "few">>],
                           [below |-> 9, label |-> <<"tokens", "many">>] >>,
            values |-> <<>>, missing |-> "unknown"]

SmallMappings == {Verdict, Tools, Tokens}
SmallStatic   == {<<Plain, "reviewed">>}
SmallRetired  == {<<Plain, "ai-review">>}

Event(id, tokens, cumulative) ==
  [id |-> id, session |-> 1, tokens |-> tokens, cumulative |-> cumulative]

Review(verdict, tools, events, complete) ==
  [verdict |-> verdict, executed_tools |-> tools, events |-> events, complete |-> complete]

(* A retried event; snapshots beside the event they contain; too many      *)
(* tokens for the buckets; a retry that contradicts; and nothing known.    *)
SmallInputs ==
  { Review("approved", {"grep"}, <<Event(1, 3, FALSE), Event(1, 3, FALSE)>>, TRUE),
    Review("needs_review", {"lint"},
           <<Event(1, 4, FALSE), Event(2, 4, TRUE), Event(3, 6, TRUE)>>, TRUE),
    Review("approved", {}, <<Event(1, 9, FALSE)>>, TRUE),
    Review("approved", {}, <<Event(1, 1, FALSE), Event(1, 2, FALSE)>>, TRUE),
    Review("needs_review", {}, <<>>, TRUE) }

(* An earlier review, and humans.                                          *)
SmallMRLabels ==
  {<<"verdict", "fail">>, <<"tool-", "lint">>, <<Plain, "ai-review">>, <<Plain, "bug">>}
SmallDefinitions ==
  SmallMRLabels \cup SmallStatic \cup {<<"verdict", "pass">>, <<"tokens", "few">>,
    <<"tokens", "many">>, <<"tokens", "unknown">>, <<"tool-", "unknown">>}
SmallHumanLabels == {<<"verdict", "fail">>, <<"tool-", "grep">>, <<Plain, "bug">>}
SmallScopes == {"verdict", "tokens"}
=============================================================================
