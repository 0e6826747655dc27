----------------------------- MODULE MCFeedPoll -----------------------------
(* The feeds of FeedPoll that TLC checks.                                  *)
EXTENDS FeedPoll

\* Sites, the states of all of them and the states changed since the last answer
\* (OCPDB): all the states are asked for at every other tick, the sites again only
\* after a failure or a restart.
Asking ==
  [roles |-> {"main", "status", "changes"}, required |-> {"main"},
   live |-> {"status", "changes"}, over |-> [c \in {"changes"} |-> "status"],
   asks |-> {"changes"}, conditional |-> {}, window |-> 0,
   cadence |-> [r \in {"main", "status", "changes"} |->
                 CASE r = "changes" -> 1 [] r = "status" -> 2 [] r = "main" -> 4]]

\* Chargers with their states, and the states changed in the last two ticks (KECO).
Windowed ==
  [roles |-> {"main", "status"}, required |-> {"main"}, live |-> {"status"},
   over |-> [c \in {"status"} |-> "main"], asks |-> {}, conditional |-> {}, window |-> 2,
   cadence |-> [r \in {"main", "status"} |-> IF r = "status" THEN 1 ELSE 5]]

\* Sites and the states of all of them, each fetched with validators.
Plain ==
  [roles |-> {"main", "status"}, required |-> {"main"}, live |-> {"status"},
   over |-> [c \in {} |-> "main"], asks |-> {}, conditional |-> {"main", "status"},
   window |-> 0, cadence |-> [r \in {"main", "status"} |-> IF r = "status" THEN 1 ELSE 2]]

\* Sites, and their tariffs where those answer.
Optional ==
  [roles |-> {"main", "tariffs"}, required |-> {"main"}, live |-> {},
   over |-> [c \in {} |-> "main"], asks |-> {}, conditional |-> {}, window |-> 0,
   cadence |-> [r \in {"main", "tariffs"} |-> 1]]

MCFeeds == {Asking, Windowed, Plain, Optional}
JustWindowed == {Windowed}
JustPlain == {Plain}
=============================================================================
