---- MODULE MCApprovalQueue ----
EXTENDS ApprovalQueue, TLC

\* Requests are named by what they ask for, origins by a letter.
MCFillAndSend == {"fill", "send"}
MCPost == {"post"}
MCTwoSends == {"send", "send2"}
MCSend == {"send"}

MCKindOf == [r \in Requests |->
    CASE r = "fill" -> "fill"
      [] r \in {"send", "send2"} -> "guarded"
      [] r = "post" -> "plain"
      [] r = "connect" -> "connect"]
MCOneOrigin == [r \in Requests |-> "a"]

MCFillOps == {"switch", "close", "restart", "review"}
MCSignerOps == {"switch", "lock"}
MCRestartOps == {"restart"}
MCNoOps == {}

\* Sound although Blank chooses an account: a blank status is never read.
MCFillSymmetry == Permutations(Accounts) \cup Permutations(Claims)
====
