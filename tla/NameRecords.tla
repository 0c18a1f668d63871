----------------------------- MODULE NameRecords -----------------------------
(***************************************************************************)
(* How the wallet turns the records two name services serve for a .csd     *)
(* name into the address the chain proves (src/core/namespv.ts): the union *)
(* of the served hints, each bound to its block, the replay by the         *)
(* resolver, and the recovery when the union does not replay.              *)
(* A hint is a record and the height it is served at; a record stands for  *)
(* its txid, its author and what it does to the name.                      *)
(***************************************************************************)
EXTENDS Naturals, Sequences, FiniteSets, SequencesExt

CONSTANTS
    Records,    \* the records ever written for the name: [op, by, to, anchor]
    Founding,   \* the first blocks, one record each, buried too deep to be undone
    MaxGrowth,  \* bound: blocks above them that a record may be in
    NoOne

Ops == {"name", "nset", "nrenew", "fill"}
ASSUME RecordsAssumption ==
    /\ \A r \in Records : r.op \in Ops /\ r.by # NoOne /\ r.anchor \in Nat
    /\ Founding \in Seq(Records) /\ IsInjective(Founding) /\ MaxGrowth \in Nat

Addrs == {r.by : r \in Records} \cup {r.to : r \in Records}
Epochs == 0..1  \* the first lease is current in epoch 0 and over in epoch 1

-----------------------------------------------------------------------------
(* The resolver, on the records of one name *)

Unowned == [owner |-> NoOne, addr |-> NoOne, anchor |-> 0, viaFill |-> FALSE, paid |-> 0]

\* A registration is taken by an earlier commitment revealed later, a sale is not.
applyName(n, r) ==
    IF n.owner = NoOne \/ (~n.viaFill /\ r.anchor < n.anchor)
    THEN [Unowned EXCEPT !.owner = r.by, !.anchor = r.anchor] ELSE n
applyNset(n, r) == IF n.owner = r.by THEN [n EXCEPT !.addr = r.to] ELSE n
deliverNameToBuyer(n, r) ==
    IF n.owner = r.by THEN [n EXCEPT !.owner = r.to, !.addr = NoOne, !.viaFill = TRUE] ELSE n
applyNrenew(n, r) == IF n.owner = NoOne THEN n ELSE [n EXCEPT !.paid = @ + 1]

Apply(n, hint) ==
    CASE hint.rec.op = "name" -> applyName(n, hint.rec)
      [] hint.rec.op = "nset" -> applyNset(n, hint.rec)
      [] hint.rec.op = "fill" -> deliverNameToBuyer(n, hint.rec)
      [] hint.rec.op = "nrenew" -> applyNrenew(n, hint.rec)

\* In the order of the blocks.
Latest(hints) == CHOOSE h \in hints : \A k \in hints : k.height <= h.height
resolve(hints) == MapThenFoldSet(LAMBDA h, n : Apply(n, h), Unowned, LAMBDA h : h, Latest, hints)
AddrOf(n) == IF n.addr = NoOne THEN n.owner ELSE n.addr

-----------------------------------------------------------------------------
(* The chain and what a service may serve of it *)

\* A chain is the set of records each block holds: none or one, each record once.
Blocks == {{}} \cup {{r} : r \in Records}
Base == [i \in 1..Len(Founding) |-> {Founding[i]}]
Chains == {ch \in {Base \o t : t \in BoundedSeq(Blocks, MaxGrowth)} :
              \A i, j \in DOMAIN ch : i # j => ch[i] \cap ch[j] = {}}
HintsOf(ch) == UNION {{[rec |-> r, height |-> i] : r \in ch[i]} : i \in DOMAIN ch}

\* Served: everything, everything but one record, everything and a record at a height
\* where it is not, or nothing (down, or a 404); and whether the service says that the
\* name's own records suffice (scopedReplaySufficient).
Silent == [hints |-> {}, sufficient |-> TRUE]
fetchNameHistory(ch) ==
    LET all == HintsOf(ch) IN
    {Silent} \cup [hints : {all}, sufficient : BOOLEAN]
             \cup {[hints |-> all \ {h}, sufficient |-> TRUE] : h \in all}
             \cup {[hints |-> {[h EXCEPT !.height = @ + 1] : h \in {x \in all : x.height = 1}}
                             \cup {x \in all : x.height # 1}, sufficient |-> TRUE]}

Usable(p, q) == {i \in {1, 2} : <<p, q>>[i].hints # {}}
\* Mutant of fetchNameUnion: the first service that answers is enough.
FirstAnswer(p, q) == IF p.hints # {} THEN p.hints ELSE q.hints
\* By txid: of a record served at two heights the first service's is kept.
fetchNameUnion(p, q) == p.hints \cup {h \in q.hints : \A k \in p.hints : k.rec # h.rec}
\* What two services answer: one of them serves every record, whatever the other does,
\* or neither answers.  (If both hold back one record the wallet cannot know.)
Answers(ch) == {a \in fetchNameHistory(ch) \X fetchNameHistory(ch) :
                  HintsOf(ch) \in {a[1].hints, a[2].hints} \/ a = <<Silent, Silent>>}

-----------------------------------------------------------------------------
(* The proof.  `unbound` is the heights whose block cannot be bound: no     *)
(* header, no body, or a body that is not the header's.                     *)

Failed == [ok |-> FALSE, lapsed |-> FALSE, viaFill |-> FALSE, addr |-> NoOne]
replayName(hints, ch, unbound, epoch) ==
    IF hints = {} \/ \E h \in hints : h.height \in unbound \/ h \notin HintsOf(ch) THEN Failed
    ELSE LET n == resolve(hints) IN
         IF n.owner = NoOne THEN Failed
         ELSE IF epoch > n.paid THEN [Failed EXCEPT !.lapsed = TRUE]
         ELSE [ok |-> TRUE, lapsed |-> FALSE, viaFill |-> n.viaFill, addr |-> AddrOf(n)]

\* The outcomes: the name service or the proof failed, the lease is over, the address is
\* not the records' alone to say (a sale), and the proven address: of the union, of each
\* service by itself, or of only one.
VerdictKinds == {"unproven", "lapsed", "viaFill", "union", "recovered", "sole"}

\* M12: each service's own hints, alone, when the union does not replay.
Recovered(p, q, ch, unbound, epoch) ==
    {i \in Usable(p, q) : /\ <<p, q>>[i].sufficient
                          /\ LET rep == replayName(<<p, q>>[i].hints, ch, unbound, epoch)
                             IN rep.ok /\ ~rep.viaFill}
verifyNameUnion(p, q, ch, unbound, epoch) ==
    LET usable == Usable(p, q)
        hints == fetchNameUnion(p, q)
        rep == replayName(hints, ch, unbound, epoch)
        recovered == IF usable = {1, 2} THEN Recovered(p, q, ch, unbound, epoch) ELSE {}
        addrs == {replayName(<<p, q>>[i].hints, ch, unbound, epoch).addr : i \in recovered}
        verdict(kind, addr) ==
            [kind |-> kind, addr |-> addr, sources |-> IF kind = "lapsed" THEN Cardinality(usable) ELSE 0,
             hints |-> IF kind = "union" THEN hints ELSE {}]
    IN  IF rep.ok
        THEN IF rep.viaFill \/ \E i \in usable : ~<<p, q>>[i].sufficient
             THEN verdict("viaFill", NoOne) ELSE verdict("union", rep.addr)
        ELSE IF rep.lapsed THEN verdict("lapsed", NoOne)
        ELSE IF Cardinality(addrs) = 1
        THEN verdict(IF Cardinality(recovered) = 1 THEN "sole" ELSE "recovered", CHOOSE a \in addrs : TRUE)
        ELSE verdict("unproven", NoOne)

\* What any two answers lead to, on each chain; the founding blocks can be bound, or
\* nothing is proven anyway.
Unbound == SUBSET (Len(Founding) + 1 .. Len(Founding) + MaxGrowth)
VerdictsOn == [ch \in Chains |-> [u \in Unbound |-> [e \in Epochs |->
    {verifyNameUnion(a[1], a[2], ch, u, e) : a \in Answers(ch)}]]]
\* Without a replay: the hints alone, as the confirm reads them.
HintsOn == [ch \in Chains |-> {fetchNameUnion(a[1], a[2]) : a \in Answers(ch)}]
=============================================================================
