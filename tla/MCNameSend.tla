------------------------------ MODULE MCNameSend ------------------------------
EXTENDS NameSend, TLC
MCClaim == [op |-> "name", by |-> "alice", to |-> "alice", anchor |-> 1]
MCSet == [op |-> "nset", by |-> "alice", to |-> "vault", anchor |-> 0]
MCRepoint == [op |-> "nset", by |-> "alice", to |-> "desk", anchor |-> 0]
MCRival == [op |-> "name", by |-> "rival", to |-> "rival", anchor |-> 0]
MCRenew == [op |-> "nrenew", by |-> "alice", to |-> "alice", anchor |-> 0]
MCSale == [op |-> "fill", by |-> "alice", to |-> "buyer", anchor |-> 0]
MCRecords == {MCClaim, MCSet, MCRepoint, MCRival, MCRenew, MCSale}
MCFounding == <<MCClaim, MCSet>>
MCServed == {"vault"}
MCSymmetry == Permutations(Calls)
=============================================================================
