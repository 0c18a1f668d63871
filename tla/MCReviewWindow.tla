---- MODULE MCReviewWindow ----
EXTENDS ReviewWindow, TLC

\* Requests are named by what they ask for.
MCRequests == {"send", "finalize", "renew", "token"}
MCKindOf == [r \in Requests |-> CASE r = "send" -> "guarded" [] r \in {"finalize", "renew"} -> "plain" [] OTHER -> "fill"]
MCOneOrigin == [r \in Requests |-> "a"]
MCPreviewsOf == [r \in Requests |->
    CASE r = "send" -> {} [] r = "finalize" -> {"verdict"}
      [] r = "renew" -> {"standing", "balance"}
      [] OTHER -> {"warnings", "quote"}]
MCOps == {"close", "lock", "review"}
MCCardOps == {"close", "lock"}
MCOpen == {0}
MCMine == {0, 1}
====
