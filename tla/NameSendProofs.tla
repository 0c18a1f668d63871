--------------------------- MODULE NameSendProofs ---------------------------
(***************************************************************************)
(* A send to a name goes where the name points, for every set of records,  *)
(* every growth and reorganisation of the chain, and any number of reviews *)
(* and confirms under way.                                                 *)
(*                                                                         *)
(* The argument has two halves.  About the records (UnionIsTheChain): if   *)
(* one of two services serves every record, hints that replay are exactly  *)
(* the chain's, whatever the other did.  About the calls (CallOk): what an *)
(* answer, a cached proof or a skip says was true when it was read, and at *)
(* most one confirm is current, so it alone can send.                      *)
(*                                                                         *)
(* The last part is about the types (TInv): what resolve computes, whatever*)
(* it is given, names only the records' addresses (ResolveTyped).          *)
(***************************************************************************)
EXTENDS NameSend, TLAPS, SequenceTheorems, FiniteSetTheorems, FunctionTheorems, WellFoundedInduction

-----------------------------------------------------------------------------
(* The records *)

\* A chain holds a record once.
LEMMA OncePerChain ==
    ASSUME NEW ch \in Chains, NEW h \in HintsOf(ch), NEW k \in HintsOf(ch), h.rec = k.rec
    PROVE  h = k
<1>1. PICK i \in DOMAIN ch : h \in {[rec |-> r, height |-> i] : r \in ch[i]}
  BY DEF HintsOf
<1>2. PICK j \in DOMAIN ch : k \in {[rec |-> r, height |-> j] : r \in ch[j]}
  BY DEF HintsOf
<1>3. PICK r \in ch[i] : h = [rec |-> r, height |-> i]
  BY <1>1
<1>4. PICK s \in ch[j] : k = [rec |-> s, height |-> j]
  BY <1>2
<1>5. r = s
  BY <1>3, <1>4
<1>6. \A m, n \in DOMAIN ch : m # n => ch[m] \cap ch[n] = {}
  BY DEF Chains
<1>7. i = j
  BY <1>3, <1>4, <1>5, <1>6
<1> QED BY <1>3, <1>4, <1>5, <1>7

\* Hints that replay are of the chain, and prove their address.
LEMMA Replays ==
    ASSUME NEW hs, NEW ch, NEW u, NEW e, replayName(hs, ch, u, e).ok
    PROVE  /\ hs # {} /\ hs \subseteq HintsOf(ch)
           /\ replayName(hs, ch, u, e).addr = AddrOf(resolve(hs))
           /\ replayName(hs, ch, u, e).viaFill = resolve(hs).viaFill
<1> DEFINE n == resolve(hs)
<1> HIDE DEF n
<1>1. replayName(hs, ch, u, e) =
         IF hs = {} \/ \E h \in hs : h.height \in u \/ h \notin HintsOf(ch) THEN Failed
         ELSE IF n.owner = NoOne THEN Failed
         ELSE IF e > n.paid THEN [Failed EXCEPT !.lapsed = TRUE]
         ELSE [ok |-> TRUE, lapsed |-> FALSE, viaFill |-> n.viaFill, addr |-> AddrOf(n)]
  BY Zenon DEF replayName, n
<1>2. ~Failed.ok /\ ~[Failed EXCEPT !.lapsed = TRUE].ok
  BY DEF Failed
<1>3. ~(hs = {} \/ \E h \in hs : h.height \in u \/ h \notin HintsOf(ch))
  BY <1>1, <1>2, Zenon
<1>4. replayName(hs, ch, u, e) =
        [ok |-> TRUE, lapsed |-> FALSE, viaFill |-> n.viaFill, addr |-> AddrOf(n)]
  BY <1>1, <1>2, <1>3, Zenon
<1> QED BY <1>3, <1>4 DEF n

\* One service serves the whole chain: the union is at least the chain's hints, and if
\* it is nothing else it is exactly those.
LEMMA UnionIsTheChain ==
    ASSUME NEW ch \in Chains, NEW a \in Answers(ch),
           fetchNameUnion(a[1], a[2]) \subseteq HintsOf(ch), fetchNameUnion(a[1], a[2]) # {}
    PROVE  fetchNameUnion(a[1], a[2]) = HintsOf(ch)
<1> DEFINE p == a[1].hints
           q == a[2].hints
<1>1. fetchNameUnion(a[1], a[2]) = p \cup {h \in q : \A k \in p : k.rec # h.rec}
  BY DEF fetchNameUnion
<1>2. HintsOf(ch) \in {p, q} \/ (p = {} /\ q = {})
  BY DEF Answers, Silent
<1> HIDE DEF p, q
<1>3. CASE HintsOf(ch) = p
  BY <1>1, <1>3
<1>4. CASE HintsOf(ch) = q
  <2> SUFFICES ASSUME NEW h \in q PROVE h \in fetchNameUnion(a[1], a[2])
    BY <1>4
  <2>1. CASE \A k \in p : k.rec # h.rec
    BY <1>1, <2>1
  <2>2. ASSUME NEW k \in p, k.rec = h.rec PROVE h \in p
    BY <1>1, <1>4, <2>2, OncePerChain
  <2> QED BY <1>1, <2>1, <2>2
<1> QED BY <1>1, <1>2, <1>3, <1>4

\* What a proof says, one service serving every record.
LEMMA VerdictIsTrue ==
    ASSUME NEW ch \in Chains, NEW a \in Answers(ch), NEW u, NEW e
    PROVE  LET v == verifyNameUnion(a[1], a[2], ch, u, e)
           IN  /\ v.kind = "union" => /\ v.hints = HintsOf(ch)
                                      /\ v.addr = AddrOf(resolve(HintsOf(ch)))
                                      /\ ~resolve(HintsOf(ch)).viaFill
               /\ v.kind = "recovered" => v.addr = AddrOf(resolve(HintsOf(ch)))
<1> DEFINE p == a[1]
           q == a[2]
           usable == Usable(p, q)
           joined == fetchNameUnion(p, q)
           rep == replayName(joined, ch, u, e)
           recovered == IF usable = {1, 2} THEN Recovered(p, q, ch, u, e) ELSE {}
           addrs == {replayName(<<p, q>>[i].hints, ch, u, e).addr : i \in recovered}
           verdict(kind, addr) ==
               [kind |-> kind, addr |-> addr, sources |-> IF kind = "lapsed" THEN Cardinality(usable) ELSE 0,
                hints |-> IF kind = "union" THEN joined ELSE {}]
           v == verifyNameUnion(p, q, ch, u, e)
<1>1. v = IF rep.ok
          THEN IF rep.viaFill \/ \E i \in usable : ~<<p, q>>[i].sufficient
               THEN verdict("viaFill", NoOne) ELSE verdict("union", rep.addr)
          ELSE IF rep.lapsed THEN verdict("lapsed", NoOne)
          ELSE IF Cardinality(addrs) = 1
          THEN verdict(IF Cardinality(recovered) = 1 THEN "sole" ELSE "recovered", CHOOSE x \in addrs : TRUE)
          ELSE verdict("unproven", NoOne)
  BY Zenon DEF verifyNameUnion
<1>2. \A k, x : /\ verdict(k, x).kind = k /\ verdict(k, x).addr = x
                /\ k = "union" => verdict(k, x).hints = joined
  OBVIOUS
<1>3. ASSUME v.kind = "union" PROVE rep.ok /\ ~rep.viaFill /\ v.hints = joined /\ v.addr = rep.addr
  <2> HIDE DEF verdict, rep, usable, addrs, recovered, joined, p, q
  <2> QED BY <1>1, <1>2, <1>3
<1>4. ASSUME v.kind = "recovered"
      PROVE  /\ ~rep.ok /\ Cardinality(addrs) = 1 /\ Cardinality(recovered) # 1
             /\ v.addr = CHOOSE x \in addrs : TRUE
  <2> HIDE DEF verdict, rep, usable, addrs, recovered, joined, p, q
  <2> QED BY <1>1, <1>2, <1>4
<1>5. ASSUME v.kind = "union"
      PROVE  /\ v.hints = HintsOf(ch) /\ v.addr = AddrOf(resolve(HintsOf(ch)))
             /\ ~resolve(HintsOf(ch)).viaFill
  <2>1. /\ joined # {} /\ joined \subseteq HintsOf(ch)
        /\ rep.addr = AddrOf(resolve(joined)) /\ rep.viaFill = resolve(joined).viaFill
    BY <1>3, <1>5, Replays
  <2>2. joined = HintsOf(ch)
    BY <2>1, UnionIsTheChain
  <2> QED BY <1>3, <1>5, <2>1, <2>2
<1>6. ASSUME v.kind = "recovered" PROVE v.addr = AddrOf(resolve(HintsOf(ch)))
  <2>1. recovered \subseteq {1, 2}
    BY DEF Recovered, Usable
  <2>2. recovered # {}
    <3>1. Cardinality({}) = 0
      BY FS_EmptySet
    <3>2. recovered = {} => addrs = {}
      OBVIOUS
    <3> HIDE DEF addrs, recovered
    <3> QED BY <1>4, <1>6, <3>1, <3>2
  <2>3. recovered # {1} /\ recovered # {2}
    <3>1. Cardinality({1}) = 1 /\ Cardinality({2}) = 1
      BY FS_Singleton
    <3> HIDE DEF addrs, recovered
    <3> QED BY <1>4, <1>6, <3>1
  <2>4. recovered = {1, 2} /\ usable = {1, 2}
    <3> HIDE DEF usable
    <3> QED BY <2>1, <2>2, <2>3
  <2>5. \A i \in {1, 2} : /\ <<p, q>>[i].hints # {}
                          /\ replayName(<<p, q>>[i].hints, ch, u, e).ok
    BY <2>4 DEF Recovered, Usable
  <2>6. PICK i \in {1, 2} : <<p, q>>[i].hints = HintsOf(ch)
    BY <2>5 DEF Answers, Silent
  <2>7. replayName(<<p, q>>[i].hints, ch, u, e).addr = AddrOf(resolve(HintsOf(ch)))
    BY <2>5, <2>6, Replays
  <2>8. AddrOf(resolve(HintsOf(ch))) \in addrs
    BY <2>4, <2>7
  <2>9. PICK x : addrs = {x}
    <3> DEFINE first == replayName(<<p, q>>[1].hints, ch, u, e).addr
               second == replayName(<<p, q>>[2].hints, ch, u, e).addr
    <3>1. addrs = {first} \cup {second}
      BY <2>4
    <3> HIDE DEF addrs, first, second
    <3>2. IsFiniteSet(addrs)
      BY <3>1, FS_Singleton, FS_AddElement
    <3> QED BY <1>4, <1>6, <3>2, FS_Singleton
  <2> HIDE DEF addrs
  <2> QED BY <1>4, <1>6, <2>8, <2>9
<1> QED BY <1>5, <1>6


\* Hints served, all of them on the chain, are the chain's.
LEMMA ServedIsTheChain ==
    ASSUME NEW ch \in Chains, NEW served \in HintsOn[ch], served # {}, served \subseteq HintsOf(ch)
    PROVE  served = HintsOf(ch)
<1>1. PICK a \in Answers(ch) : served = fetchNameUnion(a[1], a[2])
  BY DEF HintsOn
<1> QED BY <1>1, UnionIsTheChain

-----------------------------------------------------------------------------
(* The chain stays one *)

Block == [recs: Blocks, ver: Nat]
ChainOk ==
    /\ chain \in Seq(Block) /\ Len(chain) \in Len(Founding)..Len(Founding) + MaxGrowth
    /\ \A i \in 1..Len(Founding) : chain[i].recs = {Founding[i]}
    /\ \A i, j \in DOMAIN chain : i # j => chain[i].recs \cap chain[j].recs = {}
    /\ epoch \in Epochs

LEMMA SeqDomain == ASSUME NEW S, NEW s \in Seq(S) PROVE DOMAIN s = 1..Len(s) /\ Len(s) \in Nat
  BY LenProperties

LEMMA RecordsAreAChain == ChainOk => records \in Chains
<1> SUFFICES ASSUME ChainOk PROVE records \in Chains
  OBVIOUS
<1>1. /\ Len(Founding) \in Nat /\ MaxGrowth \in Nat /\ DOMAIN Founding = 1..Len(Founding)
      /\ Len(chain) \in Nat /\ DOMAIN chain = 1..Len(chain)
      /\ Len(Founding) <= Len(chain) /\ Len(chain) - Len(Founding) <= MaxGrowth
  BY RecordsAssumption, SeqDomain DEF ChainOk
<1> DEFINE rest == Len(chain) - Len(Founding)
           t == [i \in 1..rest |-> chain[i + Len(Founding)].recs]
<1>2. \A i \in 1..Len(chain) : chain[i].recs \in Blocks
  <2>1. \A i \in 1..Len(chain) : chain[i] \in Block
    BY ElementOfSeq DEF ChainOk
  <2> QED BY <2>1 DEF Block
<1>3. t \in [1..rest -> Blocks] /\ rest \in 0..MaxGrowth
  <2>1. \A i \in 1..rest : i + Len(Founding) \in 1..Len(chain)
    BY <1>1
  <2> QED BY <1>1, <1>2, <2>1
<1>4. t \in BoundedSeq(Blocks, MaxGrowth) /\ t \in Seq(Blocks) /\ Len(t) = rest
  <2>1. rest \in Nat
    BY <1>1
  <2> HIDE DEF t, rest
  <2>2. t \in BoundedSeq(Blocks, MaxGrowth)
    BY <1>3 DEF BoundedSeq, SeqOf
  <2>3. t \in Seq(Blocks) /\ Len(t) = rest
    BY <1>3, <2>1
  <2> QED BY <2>2, <2>3
<1>5. Base \in Seq(Blocks) /\ Len(Base) = Len(Founding) /\ \A i \in 1..Len(Founding) : Base[i] = {Founding[i]}
  <2>1. \A i \in 1..Len(Founding) : Founding[i] \in Records
    BY <1>1, RecordsAssumption, ElementOfSeq
  <2> QED BY <1>1, <2>1 DEF Base, Blocks
<1> HIDE DEF t
<1>6. /\ Base \o t \in Seq(Blocks) /\ Len(Base \o t) = Len(chain)
      /\ \A i \in 1..Len(chain) :
            (Base \o t)[i] = IF i <= Len(Founding) THEN Base[i] ELSE t[i - Len(Founding)]
  <2>1. /\ Base \o t \in Seq(Blocks) /\ Len(Base \o t) = Len(Base) + Len(t)
        /\ \A i \in 1..Len(Base) + Len(t) :
              (Base \o t)[i] = IF i <= Len(Base) THEN Base[i] ELSE t[i - Len(Base)]
    BY <1>4, <1>5, ConcatProperties
  <2> QED BY <1>1, <1>4, <1>5, <2>1
<1>7. \A i \in 1..Len(chain) : (Base \o t)[i] = chain[i].recs
  <2> SUFFICES ASSUME NEW i \in 1..Len(chain) PROVE (Base \o t)[i] = chain[i].recs
    OBVIOUS
  <2>1. CASE i <= Len(Founding)
    <3>1. i \in 1..Len(Founding)
      BY <1>1, <2>1
    <3> QED BY <1>5, <1>6, <2>1, <3>1 DEF ChainOk
  <2>2. CASE ~(i <= Len(Founding))
    <3>1. i - Len(Founding) \in 1..rest /\ (i - Len(Founding)) + Len(Founding) = i
      BY <1>1, <2>2
    <3> QED BY <1>6, <2>2, <3>1 DEF t
  <2> QED BY <2>1, <2>2
<1>8. DOMAIN (Base \o t) = 1..Len(chain)
  BY <1>6, SeqDomain
<1>9. records = Base \o t
  <2>1. DOMAIN records = 1..Len(chain) /\ \A i \in 1..Len(chain) : records[i] = chain[i].recs
    BY <1>1 DEF records
  <2>2. records \in Seq(Blocks) /\ Len(records) = Len(chain)
    <3>1. records \in [1..Len(chain) -> Blocks]
      BY <1>1, <1>2 DEF records
    <3> QED BY <1>1, <3>1
  <2> QED BY <1>6, <1>7, <2>1, <2>2, SeqEqual
<1>10. \A i, j \in DOMAIN records : i # j => records[i] \cap records[j] = {}
  BY <1>1 DEF records, ChainOk
<1> QED BY <1>4, <1>9, <1>10 DEF Chains

LEMMA MineKeepsChain ==
    ASSUME ChainOk, NEW r \in Records, Mine(r) PROVE ChainOk'
<1>1. /\ Len(Founding) \in Nat /\ MaxGrowth \in Nat /\ Len(chain) \in Nat /\ DOMAIN chain = 1..Len(chain)
      /\ Len(chain) < Len(Founding) + MaxGrowth
      /\ \A i \in DOMAIN chain : r \notin chain[i].recs
      /\ chain' = Append(chain, [recs |-> {r}, ver |-> 0]) /\ epoch' = epoch
  BY RecordsAssumption, SeqDomain DEF Mine, ChainOk
<1> DEFINE b == [recs |-> {r}, ver |-> 0]
<1>2. b \in Block /\ b.recs = {r}
  BY DEF Block, Blocks
<1> HIDE DEF b
<1>3. /\ chain' \in Seq(Block) /\ Len(chain') = Len(chain) + 1
      /\ \A i \in 1..Len(chain) : chain'[i] = chain[i]
      /\ chain'[Len(chain) + 1] = b
  <2>1. chain' = Append(chain, b)
    BY <1>1 DEF b
  <2> QED BY <1>2, <2>1, AppendProperties DEF ChainOk
<1>4. DOMAIN chain' = 1..Len(chain) + 1
  BY <1>3, SeqDomain
<1>5. ASSUME NEW i \in DOMAIN chain', NEW j \in DOMAIN chain', i # j
      PROVE  chain'[i].recs \cap chain'[j].recs = {}
  <2>1. CASE i \in DOMAIN chain /\ j \in DOMAIN chain
    BY <1>1, <1>3, <1>5, <2>1 DEF ChainOk
  <2>2. CASE i = Len(chain) + 1 /\ j \in DOMAIN chain
    BY <1>1, <1>2, <1>3, <2>2
  <2>3. CASE i \in DOMAIN chain /\ j = Len(chain) + 1
    BY <1>1, <1>2, <1>3, <2>3
  <2> QED BY <1>1, <1>4, <1>5, <2>1, <2>2, <2>3
<1> QED BY <1>1, <1>3, <1>5 DEF ChainOk

LEMMA ReorgKeepsChain ==
    ASSUME ChainOk, Reorg PROVE ChainOk'
<1>1. /\ Len(Founding) \in Nat /\ MaxGrowth \in Nat /\ Len(chain) \in Nat /\ DOMAIN chain = 1..Len(chain)
      /\ Len(chain) > Len(Founding) /\ epoch' = epoch
  BY RecordsAssumption, SeqDomain DEF Reorg, ChainOk
<1>2. PICK recs \in {chain[Len(chain)].recs, {}} :
          chain' = [chain EXCEPT ![Len(chain)] = [recs |-> recs, ver |-> chain[Len(chain)].ver + 1]]
  BY Zenon DEF Reorg
<1> DEFINE b == [recs |-> recs, ver |-> chain[Len(chain)].ver + 1]
<1>3. chain[Len(chain)] \in Block
  BY <1>1, ElementOfSeq DEF ChainOk
<1>4. b \in Block /\ b.recs = recs
  BY <1>2, <1>3 DEF Block, Blocks
<1> HIDE DEF b
<1>5. chain' = [chain EXCEPT ![Len(chain)] = b]
  BY <1>2, Zenon DEF b
<1>6. /\ chain' \in Seq(Block) /\ Len(chain') = Len(chain)
      /\ \A i \in 1..Len(chain) : chain'[i] = IF i = Len(chain) THEN b ELSE chain[i]
  BY <1>1, <1>4, <1>5, ExceptSeq DEF ChainOk
<1>7. DOMAIN chain' = 1..Len(chain)
  BY <1>6, SeqDomain
<1>8. \A i \in DOMAIN chain' : chain'[i].recs \subseteq chain[i].recs
  BY <1>1, <1>2, <1>4, <1>6, <1>7
<1>9. \A i \in 1..Len(Founding) : chain'[i] = chain[i]
  <2>1. ASSUME NEW i \in 1..Len(Founding) PROVE i \in 1..Len(chain) /\ i # Len(chain)
    <3>1. Len(Founding) \in Nat /\ Len(chain) \in Nat /\ Len(chain) > Len(Founding)
      BY <1>1
    <3> QED BY <3>1
  <2> QED BY <1>6, <2>1
<1>10. \A i, j \in DOMAIN chain' : i # j => chain'[i].recs \cap chain'[j].recs = {}
  BY <1>1, <1>7, <1>8 DEF ChainOk
<1> QED BY <1>1, <1>6, <1>9, <1>10 DEF ChainOk


-----------------------------------------------------------------------------
(* The calls *)

Fields == {"pc", "kind", "id", "current", "snap", "gen", "cache", "found", "answer"}
AnswerFields == {"ok", "addr", "verified", "sole", "truth", "skip", "overdue"}
Shape(k) == /\ DOMAIN k = Fields /\ DOMAIN k.answer = AnswerFields
            /\ k.kind \in {"review", "confirm"} /\ k.current \in BOOLEAN

\* What an answer calls verified was true when it was read.
Honest(ans) == ans.verified /\ ~ans.sole /\ ans.truth # NoOne => ans.addr = ans.truth
\* What a proof left is one.
Proves(addr, hs) == AddrOf(resolve(hs)) = addr /\ ~resolve(hs).viaFill

CallOk(k, busy) ==
    /\ k.pc = "remember" => /\ Proves(k.found.addr, k.found.hints)
                            /\ k.answer.truth # NoOne => k.found.addr = k.answer.truth
    /\ k.pc = "hints" => Proves(k.cache.addr, k.cache.hints)
    /\ k.pc = "skip" => (k.answer.truth # NoOne => k.cache.addr = k.answer.truth)
    /\ k.pc \in {"answered", "sending"} => Honest(k.answer)
    /\ k.pc = "sending" => /\ k.kind = "confirm" /\ k.current /\ busy
                           /\ reresolveUnchanged(k.snap, k.answer)
    /\ k.pc # "off" /\ k.kind = "confirm" => k.snap # NoCard

Confirming(k) == k.kind = "confirm" /\ k.current
CallsOk ==
    /\ DOMAIN call = Calls
    /\ \A c \in Calls : Shape(call[c]) /\ CallOk(call[c], submitting)
    /\ \A c, d \in Calls : Confirming(call[c]) /\ Confirming(call[d]) => c = d

ArmedOk == submitting => ~armed

IInv == ChainOk /\ CallsOk /\ ArmedOk /\ CacheIsAProof

\* A submission starts from the review on the screen, and alone.
StartsRight ==
    \A c \in Calls : call[c].pc # "sending" /\ call'[c].pc = "sending" =>
       /\ card # NoCard /\ call'[c].snap = card
       /\ \A d \in Calls : call[d].pc # "sending"

LEMMA OffIs == Shape(Off) /\ (\A b : CallOk(Off, b)) /\ ~Confirming(Off) /\ Off.pc = "off"
  BY DEF Off, Shape, CallOk, Confirming, Fields, AnswerFields, NoAnswer

\* One call goes on, and no submission starts.
LEMMA OneCall ==
    ASSUME CallsOk, NEW c \in Calls, NEW k, call' = [call EXCEPT ![c] = k],
           submitting' = submitting, Shape(k), CallOk(k, submitting),
           Confirming(k) => Confirming(call[c]), k.pc # "sending"
    PROVE  CallsOk' /\ StartsRight
<1>1. DOMAIN call' = Calls /\ call'[c] = k /\ \A d \in Calls : d # c => call'[d] = call[d]
  BY Zenon DEF CallsOk
<1>2. \A d \in Calls : Shape(call'[d]) /\ CallOk(call'[d], submitting')
  BY <1>1, Zenon DEF CallsOk
<1>3. \A d, e \in Calls : Confirming(call'[d]) /\ Confirming(call'[e]) => d = e
  <2>1. \A d \in Calls : Confirming(call'[d]) => Confirming(call[d])
    BY <1>1, Zenon
  <2> QED BY <2>1, Zenon DEF CallsOk
<1>4. StartsRight
  BY <1>1, Zenon DEF StartsRight
<1>5. CallsOk'
  BY <1>1, <1>2, <1>3, Zenon DEF CallsOk
<1> QED BY <1>4, <1>5

LEMMA SameCalls ==
    ASSUME CallsOk, UNCHANGED <<call, submitting>> PROVE CallsOk' /\ StartsRight
  BY DEF CallsOk, StartsRight

LEMMA AnsweredIs ==
    ASSUME NEW c, Shape(call[c]), CallOk(call[c], submitting), call[c].pc # "off",
           NEW ans, DOMAIN ans = AnswerFields, Honest(ans)
    PROVE  LET k == Answered(c, ans)
           IN  /\ Shape(k) /\ CallOk(k, submitting) /\ k.pc # "sending"
               /\ Confirming(k) => Confirming(call[c])
<1> DEFINE k == [Off EXCEPT !.pc = "answered", !.kind = call[c].kind, !.id = call[c].id, !.current = TRUE,
                            !.snap = call[c].snap, !.answer = ans]
<1>1. CASE Answered(c, ans) = Off
  BY <1>1, OffIs
<1>2. CASE Answered(c, ans) = k /\ call[c].current
  <2>1. /\ k.pc = "answered" /\ k.kind = call[c].kind /\ k.current = TRUE
        /\ k.snap = call[c].snap /\ k.answer = ans /\ DOMAIN k = Fields
    BY DEF Off, Fields
  <2> HIDE DEF k
  <2>3. Shape(k) /\ CallOk(k, submitting) /\ k.pc # "sending" /\ (Confirming(k) => Confirming(call[c]))
    BY <1>2, <2>1, Zenon DEF Shape, CallOk, Confirming
  <2> QED BY <1>2, <2>3, Zenon
<1>3. Answered(c, ans) = Off \/ (Answered(c, ans) = k /\ call[c].current)
  BY Zenon DEF Answered
<1> QED BY <1>1, <1>2, <1>3

\* A call ends with an honest answer.
LEMMA AnswersKeep ==
    ASSUME CallsOk, NEW c \in Calls, call[c].pc # "off",
           NEW ans, DOMAIN ans = AnswerFields, Honest(ans),
           call' = [call EXCEPT ![c] = Answered(c, ans)], submitting' = submitting
    PROVE  CallsOk' /\ StartsRight
<1> DEFINE k == Answered(c, ans)
<1>1. Shape(k) /\ CallOk(k, submitting) /\ k.pc # "sending" /\ (Confirming(k) => Confirming(call[c]))
  BY AnsweredIs DEF CallsOk
<1> HIDE DEF k
<1>2. call' = [call EXCEPT ![c] = k]
  BY DEF k
<1> QED BY <1>1, <1>2, OneCall

\* What could not be proven is not called verified.
LEMMA ResolutionsAre ==
    ASSUME NEW v, NEW confident, NEW ans \in Resolutions(v, confident)
    PROVE  /\ DOMAIN ans = AnswerFields
           /\ ans.verified => v.kind \in {"union", "recovered", "sole"} /\ ans.addr = v.addr
           /\ ans.verified => (ans.sole <=> v.kind = "sole")
<1>1. /\ DOMAIN Proven(v.addr) = AnswerFields /\ Proven(v.addr).addr = v.addr
  BY DEF Proven, NoAnswer, AnswerFields
<1>2. CASE v.kind \in {"union", "recovered", "sole"}
  <2>1. ans = [Proven(v.addr) EXCEPT !.sole = (v.kind = "sole")]
    BY <1>2 DEF Resolutions
  <2>2. DOMAIN ans = AnswerFields /\ ans.addr = v.addr /\ ans.sole = (v.kind = "sole")
    BY <1>1, <2>1, Zenon DEF AnswerFields
  <2> QED BY <1>2, <2>2
<1>3. CASE v.kind \notin {"union", "recovered", "sole"}
  <2>1. ans = Refused \/ \E a \in ServedAddrs : ans = [Refused EXCEPT !.ok = TRUE, !.addr = a]
    BY <1>3 DEF Resolutions
  <2>2. DOMAIN Refused = AnswerFields /\ ~Refused.verified
    BY DEF Refused, NoAnswer, AnswerFields
  <2> QED BY <2>1, <2>2, Zenon DEF AnswerFields
<1> QED BY <1>2, <1>3


\* The verification of a call begins.
LEMMA ResolveIs ==
    ASSUME NEW c, Shape(call[c]), CallOk(call[c], submitting), call[c].pc # "off"
    PROVE  LET k == Resolve(c)
           IN  /\ Shape(k) /\ CallOk(k, submitting) /\ k.pc # "sending"
               /\ Confirming(k) => Confirming(call[c])
<1> DEFINE k == Resolve(c)
<1>1. /\ DOMAIN k = Fields /\ k.pc = "source" /\ k.answer = NoAnswer
      /\ k.kind = call[c].kind /\ k.current = call[c].current /\ k.snap = call[c].snap
  BY Zenon DEF Resolve, Shape, Fields
<1>2. DOMAIN NoAnswer = AnswerFields
  BY DEF NoAnswer, AnswerFields
<1> HIDE DEF k
<1>3. Shape(k) /\ CallOk(k, submitting) /\ k.pc # "sending" /\ (Confirming(k) => Confirming(call[c]))
  BY <1>1, <1>2, Zenon DEF Shape, CallOk, Confirming
<1> QED BY <1>3 DEF k

\* The truth of a proof, written down when it was read.
LEMMA TruthIs ==
    ASSUME NEW ans, DOMAIN ans = AnswerFields, NEW x
    PROVE  LET a == [ans EXCEPT !.truth = x]
           IN  /\ DOMAIN a = AnswerFields /\ a.truth = x /\ a.addr = ans.addr
               /\ a.verified = ans.verified /\ a.sole = ans.sole /\ a.ok = ans.ok
  BY Zenon DEF AnswerFields

LEMMA TakeSourceKeeps ==
    ASSUME IInv, NEW c \in Calls, TakeSource(c) PROVE IInv' /\ StartsRight
<1>1. /\ CallsOk /\ call[c].pc = "source"
      /\ UNCHANGED <<chain, epoch, spvGen, hints, card, armed, submitting>>
  BY DEF IInv, TakeSource, world, popup
<1>2. ASSUME call' = [call EXCEPT ![c].gen = spvGen, ![c].pc = "verify"]
      PROVE  CallsOk' /\ StartsRight
  <2> DEFINE k == [call[c] EXCEPT !.gen = spvGen, !.pc = "verify"]
  <2>1. call' = [call EXCEPT ![c] = k]
    BY <1>1, <1>2, Zenon DEF CallsOk
  <2>2. /\ DOMAIN k = Fields /\ k.pc = "verify" /\ k.answer = call[c].answer
        /\ k.kind = call[c].kind /\ k.current = call[c].current /\ k.snap = call[c].snap
    BY <1>1, Zenon DEF CallsOk, Shape, Fields
  <2> HIDE DEF k
  <2>3. Shape(k) /\ CallOk(k, submitting) /\ k.pc # "sending" /\ (Confirming(k) => Confirming(call[c]))
    BY <1>1, <2>2, Zenon DEF CallsOk, Shape, CallOk, Confirming
  <2> QED BY <1>1, <2>1, <2>3, OneCall
<1>3. ASSUME call' = [call EXCEPT ![c] = Answered(c, Refused)]
      PROVE  CallsOk' /\ StartsRight
  <2>1. DOMAIN Refused = AnswerFields /\ Honest(Refused)
    BY DEF Refused, NoAnswer, AnswerFields, Honest
  <2> QED BY <1>1, <1>3, <2>1, AnswersKeep
<1>4. CallsOk' /\ StartsRight
  BY <1>2, <1>3, Zenon DEF TakeSource
<1> QED BY <1>1, <1>4 DEF IInv, ChainOk, ArmedOk, CacheIsAProof

LEMMA VerifyKeeps ==
    ASSUME IInv, NEW c \in Calls, Verify(c) PROVE IInv' /\ StartsRight
<1>1. /\ CallsOk /\ call[c].pc = "verify" /\ records \in Chains /\ epoch \in Epochs
      /\ UNCHANGED <<chain, epoch, spvGen, hints, card, armed, submitting>>
  BY RecordsAreAChain DEF IInv, ChainOk, Verify, world, popup
<1>2. PICK floored \in {FALSE, epoch = 1}, unbound \in Unbound :
         \E v \in VerdictsOn[records][unbound][epoch] : Concludes(c, v, floored)
  BY Zenon DEF Verify
<1>2v. PICK v \in VerdictsOn[records][unbound][epoch] : Concludes(c, v, floored)
  BY <1>2
<1>3. PICK a \in Answers(records) : v = verifyNameUnion(a[1], a[2], records, unbound, epoch)
  BY <1>1, <1>2, <1>2v DEF VerdictsOn
<1>4. /\ v.kind = "union" => Proves(v.addr, v.hints) /\ v.addr = Points
      /\ v.kind = "recovered" => v.addr = Points
  BY <1>1, <1>3, VerdictIsTrue DEF Proves, Points, Mined
<1>5. ASSUME v.kind = "union" PROVE CallsOk' /\ StartsRight
  <2> DEFINE k == [call[c] EXCEPT !.found = v, !.answer.truth = Points, !.pc = "remember"]
             t == [call[c].answer EXCEPT !.truth = Points]
  <2>1. call' = [call EXCEPT ![c] = k]
    BY <1>1, <1>2v, <1>5, Zenon DEF CallsOk, Concludes
  <2>2. DOMAIN t = AnswerFields /\ t.truth = Points
    BY <1>1, Zenon DEF CallsOk, Shape, AnswerFields
  <2> HIDE DEF t
  <2>3. /\ DOMAIN k = Fields /\ k.pc = "remember" /\ k.found = v /\ k.answer = t
        /\ k.kind = call[c].kind /\ k.current = call[c].current /\ k.snap = call[c].snap
    BY <1>1, Zenon DEF CallsOk, Shape, Fields, t
  <2> HIDE DEF k
  <2>4. Shape(k) /\ CallOk(k, submitting) /\ k.pc # "sending" /\ (Confirming(k) => Confirming(call[c]))
    BY <1>1, <1>4, <1>5, <2>2, <2>3, Zenon DEF CallsOk, Shape, CallOk, Confirming
  <2> QED BY <1>1, <2>1, <2>4, OneCall
<1>6. ASSUME v.kind # "union" PROVE CallsOk' /\ StartsRight
  <2>1. PICK ans \in Resolutions(v, v.kind = "lapsed" /\ (v.sources = 2 \/ floored)) :
           LET truth == IF ans.verified THEN Points ELSE NoOne
           IN  call' = [call EXCEPT ![c] = Answered(c, [ans EXCEPT !.truth = truth])]
    BY <1>2v, <1>6, Zenon DEF Concludes
  <2> DEFINE truth == IF ans.verified THEN Points ELSE NoOne
             told == [ans EXCEPT !.truth = truth]
  <2>2. /\ DOMAIN ans = AnswerFields
        /\ ans.verified => v.kind \in {"union", "recovered", "sole"} /\ ans.addr = v.addr
        /\ ans.verified => (ans.sole <=> v.kind = "sole")
    BY ResolutionsAre
  <2>3. /\ DOMAIN told = AnswerFields /\ told.truth = truth /\ told.addr = ans.addr
        /\ told.verified = ans.verified /\ told.sole = ans.sole
    BY <2>2, TruthIs
  <2>4. call' = [call EXCEPT ![c] = Answered(c, told)]
    BY <2>1
  <2> HIDE DEF told
  <2>5. Honest(told)
    BY <1>4, <1>6, <2>2, <2>3 DEF Honest
  <2> QED BY <1>1, <2>3, <2>4, <2>5, AnswersKeep
<1>7. CallsOk' /\ StartsRight
  BY <1>5, <1>6
<1> QED BY <1>1, <1>7 DEF IInv, ChainOk, ArmedOk, CacheIsAProof

LEMMA VerifyFailsKeeps ==
    ASSUME IInv, NEW c \in Calls, VerifyFails(c) PROVE IInv' /\ StartsRight
<1>1. /\ CallsOk /\ call[c].pc = "verify"
      /\ UNCHANGED <<chain, epoch, spvGen, hints, card, armed, submitting>>
  BY DEF IInv, VerifyFails, world, popup
<1>2. PICK ans \in Resolutions(NoVerdict, FALSE) : call' = [call EXCEPT ![c] = Answered(c, ans)]
  BY Zenon DEF VerifyFails
<1>3. DOMAIN ans = AnswerFields /\ Honest(ans)
  BY <1>2, ResolutionsAre DEF NoVerdict, Honest
<1>4. CallsOk' /\ StartsRight
  BY <1>1, <1>2, <1>3, AnswersKeep
<1> QED BY <1>1, <1>4 DEF IInv, ChainOk, ArmedOk, CacheIsAProof

LEMMA RememberKeeps ==
    ASSUME IInv, NEW c \in Calls, Remember(c) PROVE IInv' /\ StartsRight
<1>1. /\ CallsOk /\ call[c].pc = "remember"
      /\ UNCHANGED <<chain, epoch, spvGen, card, armed, submitting>>
  BY DEF IInv, Remember, world, popup
<1>2. /\ Proves(call[c].found.addr, call[c].found.hints)
      /\ call[c].answer.truth # NoOne => call[c].found.addr = call[c].answer.truth
  BY <1>1, Zenon DEF CallsOk, CallOk
<1> DEFINE ans == [Proven(call[c].found.addr) EXCEPT !.truth = call[c].answer.truth]
<1>3. call' = [call EXCEPT ![c] = Answered(c, ans)]
  BY <1>1, Zenon DEF Remember, CallsOk
<1>4. DOMAIN ans = AnswerFields /\ ans.addr = call[c].found.addr /\ ans.truth = call[c].answer.truth
  BY DEF Proven, NoAnswer, AnswerFields
<1> HIDE DEF ans
<1>5. CallsOk' /\ StartsRight
  BY <1>1, <1>2, <1>3, <1>4, AnswersKeep DEF Honest
<1>6. CacheIsAProof'
  <2>1. CASE hints' = hints
    BY <1>1, <2>1 DEF CacheIsAProof, IInv
  <2>2. CASE MayCache(c) /\ hints' = Entry(c)
    BY <1>1, <1>2, <2>2 DEF MayCache, Entry, CacheIsAProof, Proves
  <2> QED BY <2>1, <2>2, Zenon DEF Remember
<1> QED BY <1>1, <1>5, <1>6 DEF IInv, ChainOk, ArmedOk


LEMMA ReadHintsKeeps ==
    ASSUME IInv, NEW c \in Calls, ReadHints(c) PROVE IInv' /\ StartsRight
<1>1. /\ CallsOk /\ call[c].pc = "hints" /\ records \in Chains
      /\ UNCHANGED <<chain, epoch, spvGen, hints, card, armed, submitting>>
  BY RecordsAreAChain DEF IInv, ReadHints, world, popup
<1>2. Proves(call[c].cache.addr, call[c].cache.hints)
  BY <1>1, Zenon DEF CallsOk, CallOk
<1>3. PICK served \in HintsOn[records], lapsed \in BOOLEAN :
          call' = [call EXCEPT ![c] =
              IF served # {} /\ SameHints(served, call[c].cache) /\ ~lapsed
              THEN [call[c] EXCEPT !.pc = "skip", !.answer.truth = IF served \subseteq Mined THEN Points ELSE NoOne]
              ELSE Resolve(c)]
  BY Zenon DEF ReadHints
<1>4. ASSUME served # {} /\ SameHints(served, call[c].cache) PROVE
         LET x == IF served \subseteq Mined THEN Points ELSE NoOne
         IN  x # NoOne => call[c].cache.addr = x
  <2>1. served = call[c].cache.hints
    BY <1>4 DEF SameHints
  <2>2. served \subseteq Mined => served = Mined
    BY <1>1, <1>4, ServedIsTheChain DEF Mined
  <2> QED BY <1>2, <2>1, <2>2 DEF Proves, Points
<1>5. ASSUME served # {} /\ SameHints(served, call[c].cache) /\ ~lapsed PROVE CallsOk' /\ StartsRight
  <2> DEFINE x == IF served \subseteq Mined THEN Points ELSE NoOne
             t == [call[c].answer EXCEPT !.truth = x]
             k == [call[c] EXCEPT !.pc = "skip", !.answer.truth = x]
  <2>1. call' = [call EXCEPT ![c] = k]
    BY <1>3, <1>5, Zenon
  <2>2. x # NoOne => call[c].cache.addr = x
    BY <1>4, <1>5
  <2> HIDE DEF x
  <2>3. DOMAIN t = AnswerFields /\ t.truth = x
    BY <1>1, Zenon DEF CallsOk, Shape, AnswerFields
  <2>4. k.answer = t
    BY <1>1, Zenon DEF CallsOk, Shape, Fields
  <2> HIDE DEF t
  <2>5. /\ DOMAIN k = Fields /\ k.pc = "skip" /\ k.cache = call[c].cache
        /\ k.kind = call[c].kind /\ k.current = call[c].current /\ k.snap = call[c].snap
    BY <1>1, Zenon DEF CallsOk, Shape, Fields
  <2> HIDE DEF k
  <2>6. Shape(k) /\ CallOk(k, submitting) /\ k.pc # "sending" /\ (Confirming(k) => Confirming(call[c]))
    BY <1>1, <2>2, <2>3, <2>4, <2>5, Zenon DEF CallsOk, Shape, CallOk, Confirming
  <2> QED BY <1>1, <2>1, <2>6, OneCall
<1>6. ASSUME ~(served # {} /\ SameHints(served, call[c].cache) /\ ~lapsed) PROVE CallsOk' /\ StartsRight
  <2> DEFINE k == Resolve(c)
  <2>1. call' = [call EXCEPT ![c] = k]
    BY <1>3, <1>6, Zenon
  <2>2. Shape(k) /\ CallOk(k, submitting) /\ k.pc # "sending" /\ (Confirming(k) => Confirming(call[c]))
    BY <1>1, ResolveIs DEF CallsOk
  <2> HIDE DEF k
  <2> QED BY <1>1, <2>1, <2>2, OneCall
<1>7. CallsOk' /\ StartsRight
  BY <1>5, <1>6
<1> QED BY <1>1, <1>7 DEF IInv, ChainOk, ArmedOk, CacheIsAProof

LEMMA SkipKeeps ==
    ASSUME IInv, NEW c \in Calls, SkipProof(c) PROVE IInv' /\ StartsRight
<1>1. /\ CallsOk /\ call[c].pc = "skip"
      /\ UNCHANGED <<chain, epoch, spvGen, hints, card, armed, submitting>>
  BY DEF IInv, SkipProof, world, popup
<1>2. call[c].answer.truth # NoOne => call[c].cache.addr = call[c].answer.truth
  BY <1>1, Zenon DEF CallsOk, CallOk
<1> DEFINE late == epoch > resolve(call[c].cache.hints).paid
           ans == [Proven(call[c].cache.addr) EXCEPT !.skip = TRUE, !.overdue = late,
                                                     !.truth = call[c].answer.truth]
<1>3. \/ call' = [call EXCEPT ![c] = Answered(c, ans)]
      \/ call' = [call EXCEPT ![c] = Resolve(c)]
  BY Zenon DEF SkipProof
<1>4. ASSUME call' = [call EXCEPT ![c] = Answered(c, ans)] PROVE CallsOk' /\ StartsRight
  <2> HIDE DEF late
  <2>1. DOMAIN ans = AnswerFields /\ ans.addr = call[c].cache.addr /\ ans.truth = call[c].answer.truth
    BY DEF Proven, NoAnswer, AnswerFields
  <2> HIDE DEF ans
  <2> QED BY <1>1, <1>2, <1>4, <2>1, AnswersKeep DEF Honest
<1>5. ASSUME call' = [call EXCEPT ![c] = Resolve(c)] PROVE CallsOk' /\ StartsRight
  <2> DEFINE k == Resolve(c)
  <2>1. Shape(k) /\ CallOk(k, submitting) /\ k.pc # "sending" /\ (Confirming(k) => Confirming(call[c]))
    BY <1>1, ResolveIs DEF CallsOk
  <2>2. call' = [call EXCEPT ![c] = k]
    BY <1>5
  <2> HIDE DEF k
  <2> QED BY <1>1, <2>1, <2>2, OneCall
<1>6. CallsOk' /\ StartsRight
  BY <1>3, <1>4, <1>5
<1> QED BY <1>1, <1>6 DEF IInv, ChainOk, ArmedOk, CacheIsAProof

-----------------------------------------------------------------------------
(* The popup *)

LEMMA SupersededIs ==
    ASSUME CallsOk, NEW kinds \in SUBSET {"review", "confirm"}, NEW d \in Calls
    PROVE  LET k == Superseded(kinds)[d]
           IN  /\ DOMAIN Superseded(kinds) = Calls /\ Shape(k)
               /\ k.pc = call[d].pc /\ k.kind = call[d].kind /\ k.snap = call[d].snap
               /\ Confirming(k) => Confirming(call[d]) /\ "confirm" \notin kinds
               /\ \A b : CallOk(call[d], submitting) /\ (k.pc = "sending" => "confirm" \notin kinds /\ b)
                            => CallOk(k, b)
<1> DEFINE k == Superseded(kinds)[d]
           left == [call[d] EXCEPT !.current = FALSE]
<1>1. DOMAIN Superseded(kinds) = Calls /\ k = IF call[d].kind \in kinds THEN left ELSE call[d]
  BY Zenon DEF Superseded
<1>2. Shape(call[d])
  BY DEF CallsOk
<1>3. /\ DOMAIN left = Fields /\ left.current = FALSE /\ left.pc = call[d].pc
      /\ left.kind = call[d].kind /\ left.snap = call[d].snap /\ left.cache = call[d].cache
      /\ left.found = call[d].found /\ left.answer = call[d].answer
  BY <1>2, Zenon DEF Shape, Fields
<1> HIDE DEF left, k
<1>4. CASE call[d].kind \notin kinds
  BY <1>1, <1>2, <1>4, Zenon DEF k, CallOk, Confirming
<1>5. CASE call[d].kind \in kinds
  <2>1. k = left
    BY <1>1, <1>5
  <2>2. Shape(k) /\ ~Confirming(k)
    BY <1>2, <1>3, <2>1, Zenon DEF Shape, Confirming
  <2>3. ASSUME NEW b, CallOk(call[d], submitting), k.pc = "sending" => "confirm" \notin kinds /\ b
        PROVE  CallOk(k, b)
    <3>1. k.pc # "sending"
      BY <1>3, <1>5, <2>1, <2>3, Zenon DEF CallOk
    <3> QED BY <1>3, <2>1, <2>3, <3>1, Zenon DEF CallOk
  <2> QED BY <1>1, <1>3, <2>1, <2>2, <2>3, Zenon DEF k
<1> QED BY <1>4, <1>5

\* One call begins or ends, and leaves others behind.
LEMMA Superseding ==
    ASSUME CallsOk, NEW kinds \in SUBSET {"review", "confirm"}, NEW c \in Calls, NEW k,
           call' = [Superseded(kinds) EXCEPT ![c] = k],
           Shape(k), CallOk(k, submitting'), k.pc # "sending",
           Confirming(k) => "confirm" \in kinds,
           \A d \in Calls : d # c /\ call[d].pc = "sending" => "confirm" \notin kinds /\ submitting'
    PROVE  CallsOk' /\ StartsRight
<1> DEFINE S == Superseded(kinds)
<1>1. ASSUME NEW d \in Calls
      PROVE  /\ DOMAIN S = Calls /\ Shape(S[d]) /\ S[d].pc = call[d].pc
             /\ Confirming(S[d]) => Confirming(call[d]) /\ "confirm" \notin kinds
             /\ d # c => CallOk(S[d], submitting')
  <2>1. /\ DOMAIN S = Calls /\ Shape(S[d]) /\ S[d].pc = call[d].pc
        /\ Confirming(S[d]) => Confirming(call[d]) /\ "confirm" \notin kinds
        /\ \A b : CallOk(call[d], submitting) /\ (S[d].pc = "sending" => "confirm" \notin kinds /\ b)
                     => CallOk(S[d], b)
    BY SupersededIs
  <2>2. CallOk(call[d], submitting)
    BY DEF CallsOk
  <2>3. d # c => (S[d].pc = "sending" => "confirm" \notin kinds /\ submitting')
    BY <2>1
  <2> HIDE DEF S
  <2> QED BY <2>1, <2>2, <2>3, Zenon
<1> HIDE DEF S
<1>2. DOMAIN call' = Calls /\ call'[c] = k /\ \A d \in Calls : d # c => call'[d] = S[d]
  BY <1>1, Zenon DEF S
<1>3. ASSUME NEW d \in Calls PROVE Shape(call'[d]) /\ CallOk(call'[d], submitting')
  <2>1. CASE d = c
    BY <1>2, <2>1
  <2>2. CASE d # c
    <3>1. call'[d] = S[d] /\ Shape(S[d]) /\ CallOk(S[d], submitting')
      BY <1>1, <1>2, <2>2
    <3> QED BY <3>1
  <2> QED BY <2>1, <2>2
<1>4. \A d, e \in Calls : Confirming(call'[d]) /\ Confirming(call'[e]) => d = e
  <2>1. \A d \in Calls : d # c /\ Confirming(call'[d]) => Confirming(call[d]) /\ "confirm" \notin kinds
    BY <1>1, <1>2, Zenon
  <2> QED BY <1>2, <2>1, Zenon DEF CallsOk
<1>5. StartsRight
  <2>1. ASSUME NEW d \in Calls, call'[d].pc = "sending" PROVE call[d].pc = "sending"
    <3>1. d # c
      BY <1>2, <2>1
    <3>2. call'[d] = S[d] /\ S[d].pc = call[d].pc
      BY <1>1, <1>2, <3>1
    <3> QED BY <2>1, <3>2
  <2> QED BY <2>1 DEF StartsRight
<1>6. CallsOk'
  BY <1>2, <1>3, <1>4, Zenon DEF CallsOk
<1> QED BY <1>5, <1>6

\* The one that sends is the one confirm that is current.
LEMMA OneSends ==
    ASSUME CallsOk, NEW c \in Calls, NEW d \in Calls, Confirming(call[c]), call[d].pc = "sending"
    PROVE  d = c
  BY Zenon DEF CallsOk, CallOk, Confirming

LEMMA ReviewKeeps ==
    ASSUME IInv, NEW c \in Calls, Review(c) PROVE IInv' /\ StartsRight
<1>1. /\ CallsOk /\ call[c].pc = "off"
      /\ UNCHANGED <<chain, epoch, spvGen, hints, card, armed, submitting>>
  BY DEF IInv, Review, world
<1> DEFINE k == [Off EXCEPT !.pc = "source", !.id = reviews + 1, !.current = TRUE]
<1>2. call' = [Superseded({"review"}) EXCEPT ![c] = k]
  BY Zenon DEF Review
<1>3. DOMAIN k = Fields /\ k.pc = "source" /\ k.kind = "review" /\ k.current = TRUE /\ k.answer = NoAnswer
  BY DEF Off, Fields
<1>4. DOMAIN NoAnswer = AnswerFields
  BY DEF NoAnswer, AnswerFields
<1> HIDE DEF k
<1>5. Shape(k) /\ CallOk(k, submitting') /\ k.pc # "sending" /\ ~Confirming(k)
  BY <1>3, <1>4, Zenon DEF Shape, CallOk, Confirming
<1>6. \A d \in Calls : call[d].pc = "sending" => submitting'
  BY <1>1, Zenon DEF CallsOk, CallOk
<1>7. CallsOk' /\ StartsRight
  <2> DEFINE kinds == {"review"}
  <2>1. kinds \in SUBSET {"review", "confirm"} /\ "confirm" \notin kinds
    OBVIOUS
  <2> HIDE DEF kinds
  <2> QED BY <1>1, <1>2, <1>5, <1>6, <2>1, Superseding, Zenon DEF kinds
<1> QED BY <1>1, <1>7 DEF IInv, ChainOk, ArmedOk, CacheIsAProof

LEMMA ShowReviewKeeps ==
    ASSUME IInv, NEW c \in Calls, ShowReview(c) PROVE IInv' /\ StartsRight
<1>1. /\ CallsOk /\ call' = [call EXCEPT ![c] = Off]
      /\ UNCHANGED <<chain, epoch, spvGen, hints, submitting>>
  BY DEF IInv, ShowReview, world
<1>2. CallsOk' /\ StartsRight
  BY <1>1, OffIs, OneCall
<1>3. ArmedOk'
  <2>1. armed' = ~submitting \/ armed' = armed
    BY Zenon DEF ShowReview
  <2> QED BY <1>1, <2>1 DEF IInv, ArmedOk
<1> QED BY <1>1, <1>2, <1>3 DEF IInv, ChainOk, CacheIsAProof


LEMMA LeaveKeeps ==
    ASSUME IInv, Leave PROVE IInv' /\ StartsRight
<1>1. /\ CallsOk /\ call' = Superseded({"review"}) /\ armed' = FALSE
      /\ UNCHANGED <<chain, epoch, spvGen, hints, submitting>>
  BY DEF IInv, Leave, Drop, world
<1> DEFINE kinds == {"review"}
<1>2. kinds \in SUBSET {"review", "confirm"} /\ "confirm" \notin kinds
  OBVIOUS
<1>3. call' = Superseded(kinds)
  BY <1>1
<1> HIDE DEF kinds
<1>4. ASSUME NEW d \in Calls
      PROVE  /\ DOMAIN call' = Calls /\ Shape(call'[d]) /\ call'[d].pc = call[d].pc
             /\ Confirming(call'[d]) => Confirming(call[d])
             /\ CallOk(call'[d], submitting')
  <2>1. /\ DOMAIN call' = Calls /\ Shape(call'[d]) /\ call'[d].pc = call[d].pc
        /\ Confirming(call'[d]) => Confirming(call[d])
        /\ \A b : CallOk(call[d], submitting) /\ (call'[d].pc = "sending" => "confirm" \notin kinds /\ b)
                     => CallOk(call'[d], b)
    BY <1>1, <1>2, <1>3, SupersededIs
  <2>2. CallOk(call[d], submitting)
    BY <1>1 DEF CallsOk
  <2>3. call[d].pc = "sending" => submitting'
    BY <1>1, <2>2, Zenon DEF CallOk
  <2> QED BY <1>2, <2>1, <2>2, <2>3, Zenon
<1>5. DOMAIN call' = Calls
  <2>1. DOMAIN Superseded(kinds) = Calls
    BY DEF Superseded
  <2> QED BY <1>3, <2>1
<1>6. CallsOk' /\ StartsRight
  <2>1. \A d, e \in Calls : Confirming(call'[d]) /\ Confirming(call'[e]) => d = e
    BY <1>1, <1>4, Zenon DEF CallsOk
  <2>2. CallsOk'
    BY <1>4, <1>5, <2>1, Zenon DEF CallsOk
  <2>3. \A d \in Calls : call'[d].pc = call[d].pc
    BY <1>4
  <2> QED BY <2>2, <2>3 DEF StartsRight
<1> QED BY <1>1, <1>6 DEF IInv, ChainOk, ArmedOk, CacheIsAProof

LEMMA ConfirmKeeps ==
    ASSUME IInv, NEW c \in Calls, Confirm(c) PROVE IInv' /\ StartsRight
<1>1. /\ CallsOk /\ card # NoCard /\ armed /\ ~submitting /\ CacheIsAProof
      /\ UNCHANGED <<chain, epoch, spvGen, hints, submitting>>
  BY DEF IInv, Confirm, world, ArmedOk
<1> DEFINE k == [Off EXCEPT !.kind = "confirm", !.current = TRUE, !.snap = card, !.cache = hints,
                            !.gen = IF hints = NoCache THEN 0 ELSE spvGen,
                            !.pc = IF hints = NoCache THEN "source" ELSE "hints"]
<1>2. call' = [Superseded({"confirm"}) EXCEPT ![c] = k] /\ armed' = FALSE
  BY Zenon DEF Confirm
<1>3. /\ DOMAIN k = Fields /\ k.kind = "confirm" /\ k.current = TRUE /\ k.snap = card
      /\ k.cache = hints /\ k.answer = NoAnswer
      /\ \/ k.pc = "source"
         \/ k.pc = "hints" /\ hints # NoCache
  BY DEF Off, Fields
<1>4. DOMAIN NoAnswer = AnswerFields
  BY DEF NoAnswer, AnswerFields
<1> HIDE DEF k
<1>5. Shape(k) /\ k.pc # "sending"
  BY <1>3, <1>4 DEF Shape
<1>6. k.pc = "hints" => Proves(k.cache.addr, k.cache.hints)
  BY <1>1, <1>3 DEF CacheIsAProof, Proves
<1>7. CallOk(k, submitting')
  BY <1>1, <1>3, <1>5, <1>6, Zenon DEF CallOk
<1>8. \A d \in Calls : call[d].pc # "sending"
  BY <1>1, Zenon DEF CallsOk, CallOk
<1>9. CallsOk' /\ StartsRight
  <2> DEFINE kinds == {"confirm"}
  <2>1. kinds \in SUBSET {"review", "confirm"} /\ "confirm" \in kinds
    OBVIOUS
  <2> HIDE DEF kinds
  <2> QED BY <1>1, <1>2, <1>5, <1>7, <1>8, <2>1, Superseding, Zenon DEF kinds
<1> QED BY <1>1, <1>2, <1>9 DEF IInv, ChainOk, ArmedOk, CacheIsAProof

LEMMA SubmitKeeps ==
    ASSUME IInv, NEW c \in Calls, Submit(c) PROVE IInv' /\ StartsRight
<1>1. /\ CallsOk /\ call[c].pc = "answered" /\ call[c].kind = "confirm" /\ call[c].current
      /\ card = call[c].snap /\ reresolveUnchanged(call[c].snap, call[c].answer)
      /\ armed' = FALSE /\ submitting' = TRUE
      /\ call' = [call EXCEPT ![c].pc = "sending"]
      /\ UNCHANGED <<chain, epoch, spvGen, hints>>
  BY DEF IInv, Submit, Reread, Shown, Drop, world
<1>2. Shape(call[c]) /\ CallOk(call[c], submitting) /\ DOMAIN call = Calls
  BY <1>1 DEF CallsOk
<1>3. card # NoCard /\ Honest(call[c].answer)
  BY <1>1, <1>2, Zenon DEF CallOk
<1>4. \A d \in Calls : call[d].pc # "sending"
  BY <1>1, OneSends DEF Confirming
<1> DEFINE k == [call[c] EXCEPT !.pc = "sending"]
<1>5. call' = [call EXCEPT ![c] = k]
  BY <1>1, <1>2, Zenon
<1>6. /\ DOMAIN k = Fields /\ k.pc = "sending" /\ k.answer = call[c].answer
      /\ k.kind = call[c].kind /\ k.current = call[c].current /\ k.snap = call[c].snap
  BY <1>2, Zenon DEF Shape, Fields
<1> HIDE DEF k
<1>7. Shape(k) /\ CallOk(k, TRUE)
  BY <1>1, <1>2, <1>3, <1>6, Zenon DEF Shape, CallOk
<1>8. call'[c] = k /\ DOMAIN call' = Calls /\ \A d \in Calls : d # c => call'[d] = call[d]
  BY <1>2, <1>5, Zenon
<1>9. ASSUME NEW d \in Calls PROVE Shape(call'[d]) /\ CallOk(call'[d], submitting')
  <2>1. CASE d = c
    BY <1>1, <1>7, <1>8, <2>1
  <2>2. CASE d # c
    <3>1. Shape(call[d]) /\ CallOk(call[d], submitting) /\ call[d].pc # "sending"
      BY <1>1, <1>4 DEF CallsOk
    <3>2. CallOk(call[d], submitting')
      BY <3>1, Zenon DEF CallOk
    <3> QED BY <1>8, <2>2, <3>1, <3>2
  <2> QED BY <2>1, <2>2
<1>10. \A d, e \in Calls : Confirming(call'[d]) /\ Confirming(call'[e]) => d = e
  <2>1. \A d \in Calls : Confirming(call'[d]) => Confirming(call[d])
    BY <1>6, <1>8 DEF Confirming
  <2> QED BY <1>1, <2>1, Zenon DEF CallsOk
<1>11. CallsOk'
  BY <1>8, <1>9, <1>10, Zenon DEF CallsOk
<1>12. StartsRight
  BY <1>1, <1>3, <1>4, <1>6, <1>8 DEF StartsRight
<1> QED BY <1>1, <1>11, <1>12 DEF IInv, ChainOk, ArmedOk, CacheIsAProof

LEMMA RefuseKeeps ==
    ASSUME IInv, NEW c \in Calls, Refuse(c) \/ Outcome(c) PROVE IInv' /\ StartsRight
<1>1. /\ CallsOk /\ armed' = FALSE
      /\ call' = [Superseded({"review"}) EXCEPT ![c] = Off]
      /\ UNCHANGED <<chain, epoch, spvGen, hints>>
      /\ \/ submitting' = submitting
         \/ call[c].pc = "sending"
  BY DEF IInv, Refuse, Outcome, Drop, world
<1>2. \A d \in Calls : d # c /\ call[d].pc = "sending" => submitting'
  <2>1. ASSUME NEW d \in Calls, d # c, call[d].pc = "sending" PROVE submitting'
    <3>1. Confirming(call[d]) /\ submitting
      BY <1>1, <2>1, Zenon DEF CallsOk, CallOk, Confirming
    <3>2. call[c].pc # "sending"
      BY <1>1, <2>1, <3>1, OneSends
    <3> QED BY <1>1, <3>1, <3>2
  <2> QED BY <2>1
<1>3. CallsOk' /\ StartsRight
  <2> DEFINE kinds == {"review"}
  <2>1. kinds \in SUBSET {"review", "confirm"} /\ "confirm" \notin kinds
    OBVIOUS
  <2>2. call' = [Superseded(kinds) EXCEPT ![c] = Off]
    BY <1>1
  <2>3. Shape(Off) /\ CallOk(Off, submitting') /\ Off.pc # "sending" /\ ~Confirming(Off)
    BY OffIs
  <2> HIDE DEF kinds
  <2> QED BY <1>1, <1>2, <2>1, <2>2, <2>3, Superseding
<1> QED BY <1>1, <1>3 DEF IInv, ChainOk, ArmedOk, CacheIsAProof

LEMMA GoneKeeps ==
    ASSUME IInv, NEW c \in Calls, ReviewGone(c) PROVE IInv' /\ StartsRight
<1>1. /\ CallsOk /\ call' = [call EXCEPT ![c] = Off]
      /\ UNCHANGED <<chain, epoch, spvGen, hints, card, armed, submitting>>
  BY DEF IInv, ReviewGone, world, popup
<1>2. CallsOk' /\ StartsRight
  BY <1>1, OffIs, OneCall
<1> QED BY <1>1, <1>2 DEF IInv, ChainOk, ArmedOk, CacheIsAProof

-----------------------------------------------------------------------------
(* The theorems *)

LEMMA WorldKeeps ==
    ASSUME IInv, \/ \E r \in Records : Mine(r)
                 \/ Reorg \/ EpochBegins \/ EndpointChanged \/ UNCHANGED vars
    PROVE  IInv' /\ StartsRight
<1>1. CallsOk /\ ArmedOk /\ ChainOk /\ UNCHANGED <<call, card, armed, submitting>>
  BY DEF IInv, Mine, Reorg, EpochBegins, EndpointChanged, popup, vars
<1>2. CallsOk' /\ StartsRight /\ ArmedOk'
  BY <1>1, SameCalls DEF ArmedOk
<1>3. ChainOk'
  <2>1. CASE UNCHANGED chain /\ epoch' \in Epochs
    BY <1>1, <2>1 DEF ChainOk
  <2>2. \/ UNCHANGED chain /\ epoch' \in Epochs
        \/ \E r \in Records : Mine(r)
        \/ Reorg
    BY <1>1 DEF EpochBegins, EndpointChanged, vars, Epochs, ChainOk
  <2> QED BY <1>1, <2>1, <2>2, MineKeepsChain, ReorgKeepsChain
<1>4. CacheIsAProof'
  BY DEF IInv, Mine, Reorg, EpochBegins, EndpointChanged, popup, vars, CacheIsAProof
<1> QED BY <1>2, <1>3, <1>4 DEF IInv

LEMMA InitHolds == Init => IInv
<1> SUFFICES ASSUME Init PROVE IInv
  OBVIOUS
<1>1. Len(Founding) \in Nat /\ DOMAIN Founding = 1..Len(Founding) /\ MaxGrowth \in Nat
  BY RecordsAssumption, SeqDomain
<1>2. \A i \in 1..Len(Founding) : Founding[i] \in Records
  BY <1>1, RecordsAssumption, ElementOfSeq
<1>3. /\ chain = [i \in 1..Len(Founding) |-> [recs |-> {Founding[i]}, ver |-> 0]]
      /\ epoch = 0 /\ hints = NoCache /\ call = [c \in Calls |-> Off] /\ submitting = FALSE /\ armed = FALSE
  BY DEF Init
<1>4. chain \in Seq(Block) /\ Len(chain) = Len(Founding)
  <2>1. chain \in [1..Len(Founding) -> Block]
    BY <1>2, <1>3 DEF Block, Blocks
  <2> QED BY <1>1, <2>1
<1>5. \A i \in 1..Len(Founding) : chain[i].recs = {Founding[i]}
  BY <1>3
<1>6. \A i, j \in DOMAIN chain : i # j => chain[i].recs \cap chain[j].recs = {}
  <2>1. \A i, j \in 1..Len(Founding) : i # j => Founding[i] # Founding[j]
    BY <1>1, RecordsAssumption DEF IsInjective
  <2>2. DOMAIN chain = 1..Len(Founding)
    BY <1>3
  <2> QED BY <1>5, <2>1, <2>2
<1>7. ChainOk
  BY <1>1, <1>3, <1>4, <1>5, <1>6 DEF ChainOk, Epochs
<1>8. CallsOk
  BY <1>3, OffIs, Zenon DEF CallsOk
<1> QED BY <1>3, <1>7, <1>8 DEF IInv, ArmedOk, CacheIsAProof

LEMMA StepKeeps == IInv /\ [Next]_vars => IInv' /\ StartsRight
<1> SUFFICES ASSUME IInv, [Next]_vars PROVE IInv' /\ StartsRight
  OBVIOUS
<1>1. CASE \/ \E r \in Records : Mine(r)
           \/ Reorg \/ EpochBegins \/ EndpointChanged \/ UNCHANGED vars
  BY <1>1, WorldKeeps
<1>2. CASE Leave
  BY <1>2, LeaveKeeps
<1>3. ASSUME NEW c \in Calls,
             \/ TakeSource(c) \/ Verify(c) \/ VerifyFails(c) \/ Remember(c)
             \/ ReadHints(c) \/ SkipProof(c)
      PROVE  IInv' /\ StartsRight
  BY <1>3, TakeSourceKeeps, VerifyKeeps, VerifyFailsKeeps, RememberKeeps, ReadHintsKeeps, SkipKeeps
<1>4. ASSUME NEW c \in Calls,
             \/ Review(c) \/ ShowReview(c) \/ Confirm(c)
             \/ Submit(c) \/ Refuse(c) \/ ReviewGone(c) \/ Outcome(c)
      PROVE  IInv' /\ StartsRight
  BY <1>4, ReviewKeeps, ShowReviewKeeps, ConfirmKeeps, SubmitKeeps, RefuseKeeps, GoneKeeps
<1> QED BY <1>1, <1>2, <1>3, <1>4 DEF Next

LEMMA Inductive == Spec => []IInv
  BY InitHolds, StepKeeps, PTL DEF Spec

\* A name called verified points where the chain's records point, if one of the two
\* services served them all, whatever the other withheld, misplaced or added
\* (namespv.ts verifyNameUnion, names.ts confirmName).
THEOREM VerifiedIsTrue == Spec => []UnionDefeatsWithholding
<1>1. IInv => UnionDefeatsWithholding
  BY Zenon DEF IInv, CallsOk, CallOk, Honest, UnionDefeatsWithholding
<1> QED BY <1>1, Inductive, PTL

\* What may replace a proof is one, under the endpoints the wallet has
\* (namecache.ts rememberHintSet, names.ts endpointChanged).
THEOREM CacheProves == Spec => []CacheIsAProof
<1>1. IInv => CacheIsAProof
  BY DEF IInv
<1> QED BY <1>1, Inductive, PTL

\* No verified review is signed for a name that has been pointed elsewhere
\* (popup-sendflow.ts reresolveUnchanged).
THEOREM RepointedIsNotSigned == Spec => []RepointRefused
<1>1. IInv => RepointRefused
  <2> SUFFICES ASSUME IInv, NEW c \in Calls,
                      call[c].pc = "sending", call[c].snap.verified, ~call[c].answer.sole,
                      call[c].answer.truth # NoOne
               PROVE  call[c].snap.to = call[c].answer.truth
    BY Zenon DEF RepointRefused
  <2>1. Honest(call[c].answer) /\ reresolveUnchanged(call[c].snap, call[c].answer)
    BY Zenon DEF IInv, CallsOk, CallOk
  <2> QED BY <2>1 DEF Honest, reresolveUnchanged
<1> QED BY <1>1, Inductive, PTL

\* What is signed is the review on the screen, and while nothing else is being sent
\* (popup-send.ts runConfirm).
THEOREM SignsWhatIsShown == Spec => SignsTheShownReview
<1>1. IInv /\ [Next]_vars =>
        [\A c \in Calls : call[c].pc # "sending" /\ call'[c].pc = "sending" =>
           /\ card # NoCard /\ call'[c].snap = card
           /\ \A d \in Calls : call[d].pc # "sending"]_vars
  BY StepKeeps DEF StartsRight
<1> QED BY <1>1, Inductive, PTL DEF Spec, SignsTheShownReview

-----------------------------------------------------------------------------
(* Folds over the subsets of a finite set *)

\* A non-empty family of subsets of a finite set has a smallest member.
LEMMA SmallestSet ==
    ASSUME NEW S, IsFiniteSet(S), NEW B \in SUBSET SUBSET S, B # {}
    PROVE  \E T \in B : \A U \in B : U \subseteq T => U = T
<1>1. IsWellFoundedOn(StrictSubsetOrdering(S), SUBSET S)
  BY FS_StrictSubsetOrderingWellFounded, FS_FiniteSubsetsOfFinite
<1>2. \E T \in B : \A U \in B : <<U, T>> \notin StrictSubsetOrdering(S)
  BY <1>1, WFMin
<1> QED BY <1>2 DEF StrictSubsetOrdering

\* g is a fold over the subsets of T: step on the chosen member and the fold of the rest.
FoldsOn(g, T, base, step, choice) ==
    \A s \in SUBSET T :
       g[s] = IF s = {} THEN base ELSE step[<<choice[s], g[s \ {choice[s]}]>>]
Chooses(choice, S) == \A s \in SUBSET S : s # {} => choice[s] \in s

\* Two folds of the same step agree: a smallest set they differ on has no member.
LEMMA FoldUnique ==
    ASSUME NEW S, IsFiniteSet(S), NEW base, NEW step, NEW choice, Chooses(choice, S),
           NEW g, NEW h, FoldsOn(g, S, base, step, choice), FoldsOn(h, S, base, step, choice)
    PROVE  \A s \in SUBSET S : g[s] = h[s]
<1> DEFINE B == {s \in SUBSET S : g[s] # h[s]}
<1> SUFFICES ASSUME B # {} PROVE FALSE
  OBVIOUS
<1>1. PICK s \in B : \A u \in B : u \subseteq s => u = s
  <2>1. B \in SUBSET SUBSET S /\ IsFiniteSet(S)
    OBVIOUS
  <2> HIDE DEF B
  <2> QED BY <2>1, SmallestSet
<1>2. s # {}
  BY DEF FoldsOn
<1>3. s \ {choice[s]} \in SUBSET S /\ s \ {choice[s]} # s
  BY <1>2 DEF Chooses
<1>4. g[s \ {choice[s]}] = h[s \ {choice[s]}]
  BY <1>1, <1>3
<1> QED BY <1>2, <1>4 DEF FoldsOn

\* There is one, with values where the step keeps them.
LEMMA FoldExists ==
    ASSUME NEW S, IsFiniteSet(S), NEW V, NEW base \in V, NEW step \in [S \X V -> V],
           NEW choice, Chooses(choice, S)
    PROVE  \E g \in [SUBSET S -> V] : FoldsOn(g, S, base, step, choice)
<1> DEFINE Fold(T) == {g \in [SUBSET T -> V] : FoldsOn(g, T, base, step, choice)}
           B == {T \in SUBSET S : Fold(T) = {}}
<1> SUFFICES ASSUME B # {} PROVE FALSE
  OBVIOUS
<1>1. PICK T \in B : \A U \in B : U \subseteq T => U = T
  <2>1. B \in SUBSET SUBSET S /\ IsFiniteSet(S)
    OBVIOUS
  <2> HIDE DEF B
  <2> QED BY <2>1, SmallestSet
<1> DEFINE of(U) == CHOOSE g : g \in Fold(U)
           rest(s) == s \ {choice[s]}
           h == [s \in SUBSET T |-> IF s = {} THEN base ELSE step[<<choice[s], of(rest(s))[rest(s)]>>]]
<1>2. \A U \in SUBSET T : U # T => of(U) \in Fold(U)
  BY <1>1
<1>3. \A s \in SUBSET T : s # {} => choice[s] \in s /\ rest(s) \in SUBSET s /\ rest(s) # T
  BY DEF Chooses
<1> HIDE DEF of
<1>4. \A s \in SUBSET T : s # {} => of(rest(s))[rest(s)] \in V
  <2> SUFFICES ASSUME NEW s \in SUBSET T, s # {} PROVE of(rest(s))[rest(s)] \in V
    OBVIOUS
  <2>1. of(rest(s)) \in [SUBSET rest(s) -> V]
    BY <1>2, <1>3
  <2> QED BY <2>1
<1>5. h \in [SUBSET T -> V]
  <2> SUFFICES ASSUME NEW s \in SUBSET T, s # {}
               PROVE step[<<choice[s], of(rest(s))[rest(s)]>>] \in V
    OBVIOUS
  <2>1. choice[s] \in S
    BY <1>3
  <2> QED BY <1>4, <2>1
<1>6. \A s \in SUBSET T : s # T => h[s] = of(s)[s]
  <2> SUFFICES ASSUME NEW s \in SUBSET T, s # T PROVE h[s] = of(s)[s]
    OBVIOUS
  <2>1. FoldsOn(of(s), s, base, step, choice)
    BY <1>2
  <2>2. CASE s = {}
    BY <2>1, <2>2 DEF FoldsOn
  <2>3. CASE s # {}
    <3> DEFINE u == rest(s)
    <3>1. u \in SUBSET s /\ u # T /\ u \in SUBSET T /\ u \in SUBSET S
      BY <1>3, <2>3
    <3>2. FoldsOn(of(u), u, base, step, choice) /\ FoldsOn(of(s), u, base, step, choice)
      BY <1>2, <2>1, <3>1 DEF FoldsOn
    <3>3. IsFiniteSet(u) /\ Chooses(choice, u)
      BY <3>1, FS_Subset DEF Chooses
    <3>4. of(u)[u] = of(s)[u]
      <4> HIDE DEF u
      <4> QED BY <3>2, <3>3, FoldUnique
    <3>5. h[s] = step[<<choice[s], of(u)[u]>>]
      BY <2>3
    <3>6. of(s)[s] = step[<<choice[s], of(s)[u]>>]
      BY <2>1, <2>3 DEF FoldsOn
    <3> QED BY <3>4, <3>5, <3>6
  <2> QED BY <2>2, <2>3
<1>7. FoldsOn(h, T, base, step, choice)
  <2> SUFFICES ASSUME NEW s \in SUBSET T
               PROVE  h[s] = IF s = {} THEN base ELSE step[<<choice[s], h[rest(s)]>>]
    BY DEF FoldsOn
  <2>1. CASE s = {}
    BY <2>1
  <2>2. CASE s # {}
    <3>1. h[s] = step[<<choice[s], of(rest(s))[rest(s)]>>]
      BY <2>2
    <3>2. rest(s) \in SUBSET T /\ rest(s) # T
      BY <1>3, <2>2
    <3> HIDE DEF h, rest
    <3> QED BY <1>6, <2>2, <3>1, <3>2
  <2> QED BY <2>1, <2>2
<1> QED BY <1>1, <1>5, <1>7

-----------------------------------------------------------------------------
(* What resolve computes *)

Whose == Addrs \cup {NoOne}
States == [owner: Whose, addr: Whose, anchor: Nat, viaFill: BOOLEAN, paid: Nat]
Served(S) == IsFiniteSet(S) /\ \A h \in S : h.rec \in Records /\ h.height \in Nat

LEMMA SubServed == ASSUME NEW S, Served(S), NEW T \in SUBSET S PROVE Served(T)
  BY FS_Subset DEF Served

\* Of finitely many hints one is highest: the hints above it are as few as can be.
LEMMA LatestIs == ASSUME NEW S, Served(S), S # {} PROVE Latest(S) \in S
<1> DEFINE Above(x) == {h \in S : h.height > x.height}
           B == {Above(x) : x \in S}
<1>1. PICK A \in B : \A U \in B : U \subseteq A => U = A
  <2>1. B \in SUBSET SUBSET S /\ B # {} /\ IsFiniteSet(S)
    BY DEF Served
  <2> HIDE DEF B
  <2> QED BY <2>1, SmallestSet
<1>2. PICK x \in S : A = Above(x)
  OBVIOUS
<1>3. \A y \in S : y.height <= x.height
  <2> SUFFICES ASSUME NEW y \in S, y.height > x.height PROVE FALSE
    BY DEF Served
  <2>1. Above(y) \subseteq Above(x) /\ y \in Above(x) /\ y \notin Above(y)
    BY DEF Served
  <2>2. Above(y) \in B
    OBVIOUS
  <2> QED BY <1>1, <1>2, <2>1, <2>2
<1> QED BY <1>3 DEF Latest

LEMMA ApplyTyped ==
    ASSUME NEW n \in States, NEW h, h.rec \in Records PROVE Apply(n, h) \in States
<1>1. /\ h.rec.op \in Ops /\ h.rec.anchor \in Nat
      /\ h.rec.by \in Whose /\ h.rec.to \in Whose /\ NoOne \in Whose
  BY RecordsAssumption DEF Whose, Addrs
<1>2. Unowned \in States
  BY <1>1 DEF Unowned, States
<1>3. applyName(n, h.rec) \in States
  BY <1>1, <1>2 DEF applyName, Unowned, States
<1>4. applyNset(n, h.rec) \in States /\ deliverNameToBuyer(n, h.rec) \in States
  BY <1>1 DEF applyNset, deliverNameToBuyer, States
<1>5. applyNrenew(n, h.rec) \in States
  BY DEF applyNrenew, States
<1> QED BY <1>1, <1>3, <1>4, <1>5 DEF Apply, Ops

\* The fold of resolve over the subsets of what was served.
Steps(g, S) == \A T \in SUBSET S :
    g[T] = IF T = {} THEN Unowned ELSE Apply(g[T \ {Latest(T)}], Latest(T))

LEMMA Replay == ASSUME NEW S, Served(S) PROVE \E g \in [SUBSET S -> States] : Steps(g, S)
<1> DEFINE step == [p \in S \X States |-> Apply(p[2], p[1])]
           choice == [T \in SUBSET S |-> Latest(T)]
<1>1. IsFiniteSet(S) /\ \A h \in S : h.rec \in Records
  BY DEF Served
<1>2. step \in [S \X States -> States]
  BY <1>1, ApplyTyped
<1>3. \A T \in SUBSET S : T # {} => Latest(T) \in T
  BY LatestIs, SubServed
<1>4. Chooses(choice, S)
  BY <1>3 DEF Chooses
<1>5. Unowned \in States
  BY DEF Unowned, States, Whose
<1>6. PICK g \in [SUBSET S -> States] : FoldsOn(g, S, Unowned, step, choice)
  <2> HIDE DEF step, choice
  <2> QED BY <1>1, <1>2, <1>4, <1>5, FoldExists
<1>7. ASSUME NEW T \in SUBSET S, T # {} PROVE g[T] = Apply(g[T \ {Latest(T)}], Latest(T))
  <2>1. Latest(T) \in S /\ T \ {Latest(T)} \in SUBSET S /\ choice[T] = Latest(T)
    BY <1>3, <1>7
  <2>2. g[T] = step[<<choice[T], g[T \ {choice[T]}]>>]
    <3> HIDE DEF step, choice
    <3> QED BY <1>6, <1>7 DEF FoldsOn
  <2>3. g[T] = step[<<Latest(T), g[T \ {Latest(T)}]>>]
    <3> HIDE DEF step, choice
    <3> QED BY <2>1, <2>2
  <2>4. g[T \ {Latest(T)}] \in States
    BY <2>1
  <2> QED BY <2>1, <2>3, <2>4
<1>8. g[{}] = Unowned
  <2> HIDE DEF step, choice
  <2> QED BY <1>6 DEF FoldsOn
<1> QED BY <1>7, <1>8 DEF Steps

\* A replay ends in the state of a name, whose addresses are of its records.
LEMMA ResolveTyped == ASSUME NEW S, Served(S) PROVE resolve(S) \in States
<1> DEFINE Eq(h) == h = [s \in SUBSET S |-> IF s = {} THEN Unowned
                                            ELSE Apply(h[s \ {Latest(s)}], Latest(s))]
           f == CHOOSE h : Eq(h)
<1>1. PICK g \in [SUBSET S -> States] : Steps(g, S)
  BY Replay
<1>2. Eq(g)
  BY <1>1 DEF Steps
<1>3. Eq(f)
  <2> HIDE DEF Eq
  <2> QED BY <1>2
<1>4. resolve(S) = f[S]
  BY DEF resolve, MapThenFoldSet
<1> HIDE DEF f
<1>5. Steps(f, S)
  BY <1>3 DEF Steps
<1> HIDE DEF Eq
<1> DEFINE B == {T \in SUBSET S : f[T] \notin States}
<1>6. ASSUME B # {} PROVE FALSE
  <2>1. PICK T \in B : \A U \in B : U \subseteq T => U = T
    <3>1. B \in SUBSET SUBSET S /\ IsFiniteSet(S)
      BY DEF Served
    <3> HIDE DEF B
    <3> QED BY <1>6, <3>1, SmallestSet
  <2>2. Unowned \in States
    BY DEF Unowned, States, Whose
  <2>3. T # {} /\ f[T] = Apply(f[T \ {Latest(T)}], Latest(T))
    BY <1>5, <2>2 DEF Steps
  <2>4. Latest(T) \in T
    BY <2>3, LatestIs, SubServed
  <2>5. f[T \ {Latest(T)}] \in States
    BY <2>1, <2>4
  <2>6. Latest(T).rec \in Records
    BY <2>4 DEF Served
  <2> QED BY <2>3, <2>5, <2>6, ApplyTyped
<1> QED BY <1>4, <1>6

LEMMA AddrTyped == ASSUME NEW S, Served(S) PROVE AddrOf(resolve(S)) \in Whose
  BY ResolveTyped DEF AddrOf, States

\* A chain has finitely many records.
LEMMA ChainIsServed == ASSUME NEW ch \in Chains PROVE Served(HintsOf(ch))
<1>1. PICK t \in BoundedSeq(Blocks, MaxGrowth) : ch = Base \o t
  BY DEF Chains
<1>2. PICK m \in 0..MaxGrowth : t \in [1..m -> Blocks]
  BY <1>1 DEF BoundedSeq, SeqOf
<1>3. /\ Len(Founding) \in Nat /\ MaxGrowth \in Nat /\ DOMAIN Founding = 1..Len(Founding)
  BY RecordsAssumption, SeqDomain
<1>4. Base \in Seq(Blocks)
  <2>1. \A i \in 1..Len(Founding) : Founding[i] \in Records
    BY <1>3, RecordsAssumption, ElementOfSeq
  <2> QED BY <1>3, <2>1 DEF Base, Blocks
<1>5. t \in Seq(Blocks)
  BY <1>2, <1>3
<1>6. ch \in Seq(Blocks)
  BY <1>1, <1>4, <1>5, ConcatProperties
<1> DEFINE at == [i \in 1..Len(ch) |-> [rec |-> CHOOSE r \in ch[i] : TRUE, height |-> i]]
           all == {at[i] : i \in 1..Len(ch)}
<1>7. DOMAIN ch = 1..Len(ch) /\ Len(ch) \in Nat /\ \A i \in 1..Len(ch) : ch[i] \in Blocks
  BY <1>6, SeqDomain, ElementOfSeq
<1>8. IsFiniteSet(all)
  <2>1. at \in Surjection(1..Len(ch), all)
    BY DEF Surjection
  <2>2. IsFiniteSet(1..Len(ch))
    BY <1>7, FS_Interval
  <2> HIDE DEF at, all
  <2> QED BY <2>1, <2>2, FS_Surjection
<1>9. ASSUME NEW h \in HintsOf(ch) PROVE h \in all /\ h.rec \in Records /\ h.height \in Nat
  <2>1. PICK i \in DOMAIN ch : h \in {[rec |-> r, height |-> i] : r \in ch[i]}
    BY DEF HintsOf
  <2>2. PICK r \in ch[i] : h = [rec |-> r, height |-> i]
    BY <2>1
  <2>3. ch[i] = {r} /\ r \in Records /\ i \in 1..Len(ch)
    BY <1>7, <2>2 DEF Blocks
  <2>4. h = at[i]
    BY <2>2, <2>3
  <2>5. h \in all
    BY <2>3, <2>4
  <2> QED BY <1>7, <2>2, <2>3, <2>5
<1>10. HintsOf(ch) \in SUBSET all
  <2> HIDE DEF all
  <2> QED BY <1>9
<1> HIDE DEF all
<1> QED BY <1>8, <1>9, <1>10, FS_Subset DEF Served

\* Hints that replay prove an address of the records.
LEMMA ReplayTyped ==
    ASSUME NEW ch \in Chains, NEW hs, NEW u, NEW e, replayName(hs, ch, u, e).ok
    PROVE  replayName(hs, ch, u, e).addr \in Whose
<1>1. hs \subseteq HintsOf(ch) /\ replayName(hs, ch, u, e).addr = AddrOf(resolve(hs))
  BY Replays
<1>2. Served(hs)
  BY <1>1, ChainIsServed, SubServed
<1> QED BY <1>1, <1>2, AddrTyped

LEMMA VerdictTyped ==
    ASSUME NEW ch \in Chains, NEW a, NEW u, NEW e
    PROVE  /\ verifyNameUnion(a[1], a[2], ch, u, e).kind \in VerdictKinds
           /\ verifyNameUnion(a[1], a[2], ch, u, e).addr \in Whose
<1> DEFINE p == a[1]
           q == a[2]
           usable == Usable(p, q)
           joined == fetchNameUnion(p, q)
           rep == replayName(joined, ch, u, e)
           recovered == IF usable = {1, 2} THEN Recovered(p, q, ch, u, e) ELSE {}
           addrs == {replayName(<<p, q>>[i].hints, ch, u, e).addr : i \in recovered}
           verdict(kind, addr) ==
               [kind |-> kind, addr |-> addr, sources |-> IF kind = "lapsed" THEN Cardinality(usable) ELSE 0,
                hints |-> IF kind = "union" THEN joined ELSE {}]
           v == verifyNameUnion(p, q, ch, u, e)
           one == CHOOSE x \in addrs : TRUE
<1>1. v = IF rep.ok
          THEN IF rep.viaFill \/ \E i \in usable : ~<<p, q>>[i].sufficient
               THEN verdict("viaFill", NoOne) ELSE verdict("union", rep.addr)
          ELSE IF rep.lapsed THEN verdict("lapsed", NoOne)
          ELSE IF Cardinality(addrs) = 1
          THEN verdict(IF Cardinality(recovered) = 1 THEN "sole" ELSE "recovered", one)
          ELSE verdict("unproven", NoOne)
  BY Zenon DEF verifyNameUnion
<1>2. \A k, x : verdict(k, x).kind = k /\ verdict(k, x).addr = x
  OBVIOUS
<1>3. NoOne \in Whose
  BY DEF Whose
<1>4. rep.ok => rep.addr \in Whose
  BY ReplayTyped
<1>5. Cardinality(addrs) = 1 => one \in Whose
  <2>1. \A x \in addrs : x \in Whose
    BY ReplayTyped DEF Recovered
  <2>2. addrs = {} => Cardinality(addrs) = 0
    <3> HIDE DEF addrs
    <3> QED BY FS_EmptySet
  <2> HIDE DEF addrs
  <2> QED BY <2>1, <2>2
<1> HIDE DEF verdict, rep, usable, addrs, recovered, joined, p, q, one
<1>6. \/ v = verdict("viaFill", NoOne)
      \/ rep.ok /\ v = verdict("union", rep.addr)
      \/ v = verdict("lapsed", NoOne)
      \/ Cardinality(addrs) = 1 /\ v = verdict("sole", one)
      \/ Cardinality(addrs) = 1 /\ v = verdict("recovered", one)
      \/ v = verdict("unproven", NoOne)
  BY <1>1, Zenon
<1>7. v.kind \in VerdictKinds /\ v.addr \in Whose
  BY <1>2, <1>3, <1>4, <1>5, <1>6 DEF VerdictKinds
<1> QED BY <1>7 DEF p, q

-----------------------------------------------------------------------------
(* The types of the state *)

Pcs == {"off", "source", "verify", "remember", "hints", "skip", "answered", "sending"}
Typed(k, n) == /\ k.pc \in Pcs /\ k.id \in 0..n /\ k.gen \in Gens
               /\ k.found.kind \in VerdictKinds /\ k.found.addr \in Whose
               /\ k.cache.addr \in Whose /\ k.answer.addr \in Whose
Lists == {s \in Seq(Nat) : Len(s) <= Len(Founding) + MaxGrowth}

WorldTyped == spvGen \in Gens /\ events \in 0..MaxEvents /\ seen \in [Gens -> Lists]
CacheTyped == hints.addr \in Whose /\ hints.epoch \in Epochs /\ hints.gen \in Gens
CallsTyped == \A c \in Calls : Typed(call[c], reviews)
PopupTyped == card.id \in 0..reviews /\ reviews \in 0..MaxReviews /\ {armed, submitting} \subseteq BOOLEAN
TInv == WorldTyped /\ CacheTyped /\ CallsTyped /\ PopupTyped

LEMMA Bounds == MaxReviews \in Nat /\ MaxEvents \in Nat /\ MaxGrowth \in Nat /\ Len(Founding) \in Nat
  BY SendAssumption, RecordsAssumption, SeqDomain

LEMMA OffTyped == \A n \in Nat : Typed(Off, n)
  BY DEF Typed, Off, Pcs, Gens, NoVerdict, NoCache, NoAnswer, VerdictKinds, Whose

\* One call goes on.
LEMMA CallTyped ==
    ASSUME IInv, CallsTyped, NEW c \in Calls, NEW k, call' = [call EXCEPT ![c] = k],
           Typed(k, reviews), reviews' = reviews
    PROVE  CallsTyped'
<1>1. call'[c] = k /\ \A d \in Calls : d # c => call'[d] = call[d]
  BY Zenon DEF IInv, CallsOk
<1>2. ASSUME NEW d \in Calls PROVE Typed(call'[d], reviews')
  BY <1>1 DEF CallsTyped
<1> QED BY <1>2, Zenon DEF CallsTyped

LEMMA AnsweredTyped ==
    ASSUME TInv, NEW c \in Calls, NEW ans, ans.addr \in Whose PROVE Typed(Answered(c, ans), reviews)
<1> DEFINE k == [Off EXCEPT !.pc = "answered", !.kind = call[c].kind, !.id = call[c].id, !.current = TRUE,
                            !.snap = call[c].snap, !.answer = ans]
<1>1. Typed(Off, reviews) /\ call[c].id \in 0..reviews
  BY OffTyped, Bounds DEF TInv, PopupTyped, CallsTyped, Typed
<1>2. /\ k.pc = "answered" /\ k.id = call[c].id /\ k.gen = Off.gen /\ k.found = Off.found
      /\ k.cache = Off.cache /\ k.answer = ans
  BY DEF Off
<1> HIDE DEF k
<1>3. Typed(k, reviews)
  BY <1>1, <1>2 DEF Typed, Pcs
<1>4. Answered(c, ans) = Off \/ Answered(c, ans) = k
  BY Zenon DEF Answered, k
<1> QED BY <1>1, <1>3, <1>4

\* The verification of a call begins.
LEMMA ResolveTypes ==
    ASSUME IInv, TInv, NEW c \in Calls PROVE Typed(Resolve(c), reviews)
<1> DEFINE k == Resolve(c)
<1>1. /\ k.pc = "source" /\ k.gen = 0 /\ k.cache = NoCache /\ k.answer = NoAnswer
      /\ k.id = call[c].id /\ k.found = call[c].found
  BY Zenon DEF Resolve, IInv, CallsOk, Shape, Fields
<1>2. NoCache.addr \in Whose /\ NoAnswer.addr \in Whose
  BY DEF NoCache, NoAnswer, Whose
<1>3. Typed(call[c], reviews)
  BY DEF TInv, CallsTyped
<1> HIDE DEF k
<1>4. Typed(k, reviews)
  BY <1>1, <1>2, <1>3 DEF Typed, Pcs, Gens
<1> QED BY <1>4 DEF k

LEMMA ResolutionsTyped ==
    ASSUME NEW v, v.addr \in Whose, NEW confident, NEW ans \in Resolutions(v, confident)
    PROVE  ans.addr \in Whose
<1>1. CASE v.kind \in {"union", "recovered", "sole"}
  BY <1>1, ResolutionsAre, Zenon DEF Resolutions, Proven, NoAnswer
<1>2. CASE v.kind \notin {"union", "recovered", "sole"}
  <2>1. ans = Refused \/ \E a \in ServedAddrs : ans = [Refused EXCEPT !.ok = TRUE, !.addr = a]
    BY <1>2 DEF Resolutions
  <2>2. Refused.addr \in Whose /\ DOMAIN Refused = AnswerFields
    BY DEF Refused, NoAnswer, Whose, AnswerFields
  <2>3. ServedAddrs \subseteq Whose
    BY SendAssumption DEF Whose
  <2>4. \A a : [Refused EXCEPT !.ok = TRUE, !.addr = a].addr = a
    BY <2>2, Zenon DEF AnswerFields
  <2> QED BY <2>1, <2>2, <2>3, <2>4
<1> QED BY <1>1, <1>2

LEMMA HeadersListed == ASSUME ChainOk PROVE Headers \in Lists
<1>1. /\ Len(chain) \in Nat /\ DOMAIN chain = 1..Len(chain) /\ Len(chain) <= Len(Founding) + MaxGrowth
  BY Bounds, SeqDomain DEF ChainOk
<1>2. \A i \in 1..Len(chain) : chain[i].ver \in Nat
  <2>1. \A i \in 1..Len(chain) : chain[i] \in Block
    BY ElementOfSeq DEF ChainOk
  <2> QED BY <2>1 DEF Block
<1>3. Headers \in [1..Len(chain) -> Nat]
  BY <1>1, <1>2 DEF Headers
<1>4. Headers \in Seq(Nat) /\ Len(Headers) = Len(chain)
  BY <1>1, <1>3
<1> QED BY <1>1, <1>4 DEF Lists

\* The chain, the epoch and the endpoints change.
LEMMA WorldTypes ==
    ASSUME IInv, TInv, \/ \E r \in Records : Mine(r)
                       \/ Reorg \/ EpochBegins \/ EndpointChanged \/ UNCHANGED vars
    PROVE  TInv'
<1>1. UNCHANGED <<seen, call, card, armed, submitting, reviews>>
  BY DEF Mine, Reorg, EpochBegins, EndpointChanged, popup, vars
<1>2. /\ hints' \in {hints, NoCache} /\ spvGen' \in Gens
      /\ events' = events \/ (events < MaxEvents /\ events' = events + 1)
  BY DEF Mine, Reorg, EpochBegins, EndpointChanged, Happens, popup, vars, TInv, WorldTyped
<1>3. CacheTyped'
  BY <1>2 DEF TInv, CacheTyped, NoCache, Epochs, Gens, Whose
<1>4. WorldTyped'
  BY <1>1, <1>2, Bounds DEF TInv, WorldTyped
<1> QED BY <1>1, <1>3, <1>4 DEF TInv, CallsTyped, PopupTyped

\* A step of a call that leaves the rest of the popup alone.
LEMMA CallStepTypes ==
    ASSUME IInv, TInv, NEW c \in Calls, NEW k, call' = [call EXCEPT ![c] = k], Typed(k, reviews),
           UNCHANGED <<world, hints, seen, popup>>
    PROVE  TInv'
<1>1. CallsTyped'
  BY CallTyped DEF TInv, popup
<1> QED BY <1>1 DEF TInv, WorldTyped, CacheTyped, PopupTyped, world, popup

\* The fields of a call as EXCEPT leaves them.
LEMMA CallFields == ASSUME IInv, NEW c \in Calls PROVE DOMAIN call[c] = Fields /\ DOMAIN call[c].answer = AnswerFields
  BY DEF IInv, CallsOk, Shape

LEMMA TakeSourceTypes == ASSUME IInv, TInv, NEW c \in Calls, TakeSource(c) PROVE TInv'
<1> DEFINE taken == [call[c] EXCEPT !.gen = spvGen, !.pc = "verify"]
           gone == Answered(c, Refused)
<1>1. /\ UNCHANGED <<world, seen, hints, popup>>
      /\ call' = [call EXCEPT ![c] = taken] \/ call' = [call EXCEPT ![c] = gone]
  BY Zenon DEF TakeSource, IInv, CallsOk
<1>2. Typed(taken, reviews)
  <2>1. /\ taken.pc = "verify" /\ taken.gen = spvGen /\ taken.id = call[c].id
        /\ taken.found = call[c].found /\ taken.cache = call[c].cache /\ taken.answer = call[c].answer
    BY CallFields, Zenon DEF Fields
  <2>2. Typed(call[c], reviews) /\ spvGen \in Gens
    BY DEF TInv, CallsTyped, WorldTyped
  <2> HIDE DEF taken
  <2> QED BY <2>1, <2>2 DEF Typed, Pcs
<1>3. Typed(gone, reviews)
  BY AnsweredTyped DEF Refused, NoAnswer, Whose
<1> HIDE DEF taken, gone
<1> QED BY <1>1, <1>2, <1>3, CallStepTypes

LEMMA VerifyTypes == ASSUME IInv, TInv, NEW c \in Calls, Verify(c) PROVE TInv'
<1>1. records \in Chains /\ epoch \in Epochs /\ UNCHANGED <<world, hints, popup>>
  BY RecordsAreAChain DEF IInv, ChainOk, Verify
<1>2. PICK held \in {Headers} \cup (IF Len(seen[call[c].gen]) >= Len(chain) THEN {seen[call[c].gen]} ELSE {}),
           floored \in {FALSE, epoch = 1}, unbound \in Unbound :
         /\ seen' = [seen EXCEPT ![call[c].gen] = held]
         /\ \E v \in VerdictsOn[records][unbound][epoch] : Concludes(c, v, floored)
  BY Zenon DEF Verify
<1>3. PICK v \in VerdictsOn[records][unbound][epoch] : Concludes(c, v, floored)
  BY <1>2
<1>4. PICK a \in Answers(records) : v = verifyNameUnion(a[1], a[2], records, unbound, epoch)
  BY <1>1, <1>2, <1>3 DEF VerdictsOn
<1>5. v.kind \in VerdictKinds /\ v.addr \in Whose
  BY <1>1, <1>4, VerdictTyped
<1>6. call[c].gen \in Gens /\ Typed(call[c], reviews)
  BY DEF TInv, CallsTyped, Typed
<1>7. seen' \in [Gens -> Lists]
  <2>1. Headers \in Lists
    BY HeadersListed DEF IInv
  <2> QED BY <1>2, <1>6, <2>1 DEF TInv, WorldTyped
<1>8. Points \in Whose
  <2>1. Served(Mined)
    BY <1>1, ChainIsServed DEF Mined
  <2> QED BY <2>1, AddrTyped DEF Points
<1>9. ASSUME v.kind = "union" PROVE CallsTyped'
  <2> DEFINE k == [call[c] EXCEPT !.found = v, !.answer.truth = Points, !.pc = "remember"]
             t == [call[c].answer EXCEPT !.truth = Points]
  <2>1. call' = [call EXCEPT ![c] = k]
    BY <1>3, <1>9, Zenon DEF IInv, CallsOk, Concludes
  <2>2. t.addr = call[c].answer.addr
    BY CallFields, Zenon DEF AnswerFields
  <2> HIDE DEF t
  <2>3. /\ k.pc = "remember" /\ k.found = v /\ k.answer = t
        /\ k.id = call[c].id /\ k.gen = call[c].gen /\ k.cache = call[c].cache
    BY CallFields, Zenon DEF Fields, t
  <2> HIDE DEF k
  <2>4. Typed(k, reviews)
    BY <1>5, <1>6, <2>2, <2>3 DEF Typed, Pcs
  <2> QED BY <1>1, <2>1, <2>4, CallTyped DEF TInv, popup
<1>10. ASSUME v.kind # "union" PROVE CallsTyped'
  <2>1. PICK ans \in Resolutions(v, v.kind = "lapsed" /\ (v.sources = 2 \/ floored)) :
           LET truth == IF ans.verified THEN Points ELSE NoOne
           IN  call' = [call EXCEPT ![c] = Answered(c, [ans EXCEPT !.truth = truth])]
    BY <1>3, <1>10, Zenon DEF Concludes
  <2> DEFINE truth == IF ans.verified THEN Points ELSE NoOne
             told == [ans EXCEPT !.truth = truth]
             k == Answered(c, told)
  <2>2. DOMAIN ans = AnswerFields
    BY ResolutionsAre
  <2>3. ans.addr \in Whose
    BY <1>5, ResolutionsTyped
  <2>4. told.addr = ans.addr
    BY <2>2, TruthIs
  <2>5. call' = [call EXCEPT ![c] = k]
    BY <2>1
  <2> HIDE DEF told
  <2>6. Typed(k, reviews)
    BY <2>3, <2>4, AnsweredTyped
  <2> HIDE DEF k
  <2> QED BY <1>1, <2>5, <2>6, CallTyped DEF TInv, popup
<1> QED BY <1>1, <1>7, <1>9, <1>10 DEF TInv, WorldTyped, CacheTyped, PopupTyped, world, popup

LEMMA VerifyFailsTypes == ASSUME IInv, TInv, NEW c \in Calls, VerifyFails(c) PROVE TInv'
<1>1. PICK ans \in Resolutions(NoVerdict, FALSE) : call' = [call EXCEPT ![c] = Answered(c, ans)]
  BY Zenon DEF VerifyFails
<1> DEFINE k == Answered(c, ans)
<1>2. Typed(k, reviews)
  <2>1. NoVerdict.addr \in Whose
    BY DEF NoVerdict, Whose
  <2> QED BY <2>1, ResolutionsTyped, AnsweredTyped
<1>3. call' = [call EXCEPT ![c] = k] /\ UNCHANGED <<world, seen, hints, popup>>
  BY <1>1 DEF VerifyFails
<1> HIDE DEF k
<1> QED BY <1>2, <1>3, CallStepTypes

LEMMA RememberTypes == ASSUME IInv, TInv, NEW c \in Calls, Remember(c) PROVE TInv'
<1> DEFINE ans == [Proven(call[c].found.addr) EXCEPT !.truth = call[c].answer.truth]
           k == Answered(c, ans)
<1>1. call' = [call EXCEPT ![c] = k] /\ UNCHANGED <<world, seen, popup>>
  BY Zenon DEF Remember, IInv, CallsOk
<1>2. Typed(call[c], reviews)
  BY DEF TInv, CallsTyped
<1>3. Typed(k, reviews)
  <2>1. ans.addr = call[c].found.addr
    BY DEF Proven, NoAnswer
  <2> HIDE DEF ans
  <2> QED BY <1>2, <2>1, AnsweredTyped DEF Typed
<1> HIDE DEF k
<1>4. CallsTyped'
  BY <1>1, <1>3, CallTyped DEF TInv, popup
<1>5. CacheTyped'
  <2>1. hints' = hints \/ hints' = Entry(c)
    BY Zenon DEF Remember
  <2>2. Entry(c).addr = call[c].found.addr /\ Entry(c).epoch = epoch /\ Entry(c).gen = call[c].gen
    BY DEF Entry
  <2> QED BY <1>2, <2>1, <2>2 DEF TInv, CacheTyped, Typed, IInv, ChainOk
<1> QED BY <1>1, <1>4, <1>5 DEF TInv, WorldTyped, PopupTyped, world, popup

LEMMA ReadHintsTypes == ASSUME IInv, TInv, NEW c \in Calls, ReadHints(c) PROVE TInv'
<1> DEFINE skip(x) == [call[c] EXCEPT !.pc = "skip", !.answer.truth = x]
           k == Resolve(c)
<1>1. /\ \/ call' = [call EXCEPT ![c] = k]
         \/ \E x : call' = [call EXCEPT ![c] = skip(x)]
      /\ UNCHANGED <<world, seen, hints, popup>>
  BY Zenon DEF ReadHints
<1>2. ASSUME NEW x PROVE Typed(skip(x), reviews)
  <2> DEFINE t == [call[c].answer EXCEPT !.truth = x]
             s == skip(x)
  <2>1. t.addr = call[c].answer.addr
    BY CallFields, Zenon DEF AnswerFields
  <2> HIDE DEF t
  <2>2. /\ s.pc = "skip" /\ s.answer = t /\ s.found = call[c].found
        /\ s.id = call[c].id /\ s.gen = call[c].gen /\ s.cache = call[c].cache
    BY CallFields, Zenon DEF Fields, t
  <2>3. Typed(call[c], reviews)
    BY DEF TInv, CallsTyped
  <2> HIDE DEF s
  <2>4. Typed(s, reviews)
    BY <2>1, <2>2, <2>3 DEF Typed, Pcs
  <2> QED BY <2>4 DEF s
<1>3. Typed(k, reviews)
  BY ResolveTypes
<1> HIDE DEF k, skip
<1> QED BY <1>1, <1>2, <1>3, CallStepTypes

LEMMA SkipTypes == ASSUME IInv, TInv, NEW c \in Calls, SkipProof(c) PROVE TInv'
<1> DEFINE late == epoch > resolve(call[c].cache.hints).paid
           ans == [Proven(call[c].cache.addr) EXCEPT !.skip = TRUE, !.overdue = late,
                                                     !.truth = call[c].answer.truth]
           gone == Answered(c, ans)
           again == Resolve(c)
<1>1. /\ call' = [call EXCEPT ![c] = gone] \/ call' = [call EXCEPT ![c] = again]
      /\ UNCHANGED <<world, seen, hints, popup>>
  BY Zenon DEF SkipProof
<1>2. Typed(gone, reviews)
  <2> HIDE DEF late
  <2>1. ans.addr = call[c].cache.addr
    BY DEF Proven, NoAnswer
  <2>2. call[c].cache.addr \in Whose
    BY DEF TInv, CallsTyped, Typed
  <2> HIDE DEF ans
  <2> QED BY <2>1, <2>2, AnsweredTyped
<1>3. Typed(again, reviews)
  BY ResolveTypes
<1> HIDE DEF gone, again, late, ans
<1> QED BY <1>1, <1>2, <1>3, CallStepTypes

\* Calls left behind keep their types, and one begins or ends.
LEMMA SupersedingTypes ==
    ASSUME IInv, TInv, NEW kinds, NEW c \in Calls, NEW k, call' = [Superseded(kinds) EXCEPT ![c] = k],
           Typed(k, reviews'), reviews' \in Nat, reviews <= reviews'
    PROVE  CallsTyped'
<1> SUFFICES ASSUME NEW d \in Calls PROVE Typed(call'[d], reviews')
  BY Zenon DEF CallsTyped
<1> DEFINE left == [call[d] EXCEPT !.current = FALSE]
<1>1. call'[d] \in {k, left, call[d]}
  BY Zenon DEF Superseded
<1>2. /\ left.pc = call[d].pc /\ left.id = call[d].id /\ left.gen = call[d].gen
      /\ left.found = call[d].found /\ left.cache = call[d].cache /\ left.answer = call[d].answer
  BY CallFields, Zenon DEF Fields
<1> HIDE DEF left
<1>3. Typed(call[d], reviews')
  BY Bounds DEF TInv, CallsTyped, PopupTyped, Typed
<1>4. Typed(left, reviews')
  BY <1>2, <1>3 DEF Typed
<1> QED BY <1>1, <1>3, <1>4

LEMMA ReviewTypes == ASSUME IInv, TInv, NEW c \in Calls, Review(c) PROVE TInv'
<1> DEFINE k == [Off EXCEPT !.pc = "source", !.id = reviews + 1, !.current = TRUE]
<1>1. /\ call' = [Superseded({"review"}) EXCEPT ![c] = k]
      /\ reviews < MaxReviews /\ reviews' = reviews + 1
      /\ UNCHANGED <<world, seen, hints, card, armed, submitting>>
  BY Zenon DEF Review
<1>2. reviews \in Nat /\ reviews' \in Nat /\ reviews' \in 0..MaxReviews /\ reviews <= reviews'
  BY <1>1, Bounds DEF TInv, PopupTyped
<1>3. Typed(k, reviews')
  <2>1. /\ k.pc = "source" /\ k.id = reviews + 1 /\ k.gen = Off.gen /\ k.found = Off.found
        /\ k.cache = Off.cache /\ k.answer = Off.answer
    BY DEF Off
  <2>2. Typed(Off, reviews') /\ reviews + 1 \in 0..reviews'
    BY <1>1, <1>2, OffTyped
  <2> HIDE DEF k
  <2> QED BY <2>1, <2>2 DEF Typed, Pcs
<1> HIDE DEF k
<1>4. CallsTyped'
  BY <1>1, <1>2, <1>3, SupersedingTypes
<1>5. card'.id \in 0..reviews'
  BY <1>1, <1>2 DEF TInv, PopupTyped
<1> QED BY <1>1, <1>2, <1>4, <1>5 DEF TInv, WorldTyped, CacheTyped, PopupTyped, world

\* The card goes, or is frozen from a review that has answered.
LEMMA CardTypes ==
    ASSUME TInv, \/ card' = card
                 \/ card' = NoCard
                 \/ \E c \in Calls : card'.id = call[c].id,
           armed' \in BOOLEAN, submitting' \in BOOLEAN, reviews' = reviews
    PROVE  PopupTyped'
<1>1. reviews \in 0..MaxReviews /\ card.id \in 0..reviews /\ \A c \in Calls : call[c].id \in 0..reviews
  BY DEF TInv, PopupTyped, CallsTyped, Typed
<1>2. NoCard.id \in 0..reviews
  BY <1>1, Bounds DEF NoCard
<1> QED BY <1>1, <1>2 DEF PopupTyped

LEMMA EndTypes ==
    ASSUME IInv, TInv, NEW c \in Calls,
           ShowReview(c) \/ Submit(c) \/ Refuse(c) \/ ReviewGone(c) \/ Outcome(c)
    PROVE  TInv'
<1> DEFINE sent == [call[c] EXCEPT !.pc = "sending"]
<1>1. UNCHANGED <<world, seen, hints, reviews>>
  BY DEF ShowReview, Submit, Refuse, ReviewGone, Outcome, popup
<1>2. CallsTyped'
  <2>1. \/ call' = [call EXCEPT ![c] = Off]
        \/ call' = [call EXCEPT ![c] = sent]
        \/ call' = [Superseded({"review"}) EXCEPT ![c] = Off]
    BY Zenon DEF ShowReview, Submit, Refuse, ReviewGone, Outcome, IInv, CallsOk
  <2>2. Typed(Off, reviews) /\ Typed(Off, reviews') /\ reviews' \in Nat /\ reviews <= reviews'
    BY <1>1, OffTyped, Bounds DEF TInv, PopupTyped
  <2>3. Typed(sent, reviews)
    <3>1. /\ sent.pc = "sending" /\ sent.id = call[c].id /\ sent.gen = call[c].gen
          /\ sent.found = call[c].found /\ sent.cache = call[c].cache /\ sent.answer = call[c].answer
      BY CallFields, Zenon DEF Fields
    <3>2. Typed(call[c], reviews)
      BY DEF TInv, CallsTyped
    <3> HIDE DEF sent
    <3> QED BY <3>1, <3>2 DEF Typed, Pcs
  <2> HIDE DEF sent
  <2>4. TInv /\ CallsTyped
    BY DEF TInv
  <2> QED BY <1>1, <2>1, <2>2, <2>3, <2>4, CallTyped, SupersedingTypes
<1>3. PopupTyped'
  <2>1. \/ card' = card
        \/ card' = NoCard
        \/ card'.id = call[c].id
    BY DEF ShowReview, Submit, Refuse, ReviewGone, Outcome, Drop, popup
  <2>2. armed' \in BOOLEAN
    <3>1. armed' \in {armed, FALSE, ~submitting}
      BY DEF ShowReview, Submit, Refuse, ReviewGone, Outcome, Drop, popup
    <3> QED BY <3>1 DEF TInv, PopupTyped
  <2>3. submitting' \in BOOLEAN
    BY DEF ShowReview, Submit, Refuse, ReviewGone, Outcome, popup, TInv, PopupTyped
  <2> QED BY <1>1, <2>1, <2>2, <2>3, CardTypes
<1> QED BY <1>1, <1>2, <1>3 DEF TInv, WorldTyped, CacheTyped, world

LEMMA LeaveTypes == ASSUME IInv, TInv, Leave PROVE TInv'
<1>1. /\ call' = Superseded({"review"}) /\ card' = NoCard /\ armed' = FALSE
      /\ UNCHANGED <<world, seen, hints, submitting, reviews>>
  BY DEF Leave, Drop
<1>2. CallsTyped'
  <2> SUFFICES ASSUME NEW d \in Calls PROVE Typed(call'[d], reviews')
    BY Zenon DEF CallsTyped
  <2> DEFINE k == call'[d]
  <2>1. call' = [Superseded({"review"}) EXCEPT ![d] = k]
    BY <1>1 DEF Superseded
  <2>2. \/ k = call[d]
        \/ k = [call[d] EXCEPT !.current = FALSE]
    BY <1>1 DEF Superseded
  <2>3. /\ k.pc = call[d].pc /\ k.id = call[d].id /\ k.gen = call[d].gen
        /\ k.found = call[d].found /\ k.cache = call[d].cache /\ k.answer = call[d].answer
    BY <2>2, CallFields, Zenon DEF Fields
  <2>4. Typed(call[d], reviews)
    BY DEF TInv, CallsTyped
  <2> QED BY <1>1, <2>3, <2>4 DEF Typed
<1>3. PopupTyped'
  BY <1>1, CardTypes DEF TInv, PopupTyped
<1> QED BY <1>1, <1>2, <1>3 DEF TInv, WorldTyped, CacheTyped, world

LEMMA ConfirmTypes == ASSUME IInv, TInv, NEW c \in Calls, Confirm(c) PROVE TInv'
<1> DEFINE k == [Off EXCEPT !.kind = "confirm", !.current = TRUE, !.snap = card, !.cache = hints,
                            !.gen = IF hints = NoCache THEN 0 ELSE spvGen,
                            !.pc = IF hints = NoCache THEN "source" ELSE "hints"]
<1>1. /\ call' = [Superseded({"confirm"}) EXCEPT ![c] = k] /\ armed' = FALSE
      /\ UNCHANGED <<world, seen, hints, card, submitting, reviews>>
  BY Zenon DEF Confirm
<1>2. /\ k.pc \in {"source", "hints"} /\ k.id = Off.id /\ k.gen \in {0, spvGen} /\ k.found = Off.found
      /\ k.cache = hints /\ k.answer = Off.answer
  BY DEF Off
<1> HIDE DEF k
<1>3. reviews' \in Nat /\ reviews <= reviews' /\ Typed(Off, reviews')
  BY <1>1, OffTyped, Bounds DEF TInv, PopupTyped
<1>4. Typed(k, reviews')
  BY <1>2, <1>3 DEF Typed, Pcs, Gens, TInv, WorldTyped, CacheTyped
<1>5. CallsTyped'
  BY <1>1, <1>3, <1>4, SupersedingTypes
<1>6. PopupTyped'
  BY <1>1, CardTypes DEF TInv, PopupTyped
<1> QED BY <1>1, <1>5, <1>6 DEF TInv, WorldTyped, CacheTyped, world

LEMMA InitTyped == Init => TInv
<1> SUFFICES ASSUME Init PROVE TInv
  OBVIOUS
<1>1. WorldTyped
  <2>1. <<>> \in Lists
    BY Bounds DEF Lists
  <2> QED BY <2>1, Bounds DEF Init, WorldTyped, Gens
<1>2. CacheTyped
  BY DEF Init, CacheTyped, NoCache, Epochs, Gens, Whose
<1>3. CallsTyped
  <2>1. reviews = 0 /\ \A c \in Calls : call[c] = Off
    BY DEF Init
  <2> QED BY <2>1, OffTyped, Zenon DEF CallsTyped
<1>4. PopupTyped
  <2>1. card = NoCard /\ reviews = 0 /\ armed = FALSE /\ submitting = FALSE
    BY Zenon DEF Init
  <2>2. NoCard.id = 0
    BY DEF NoCard
  <2>3. card.id \in 0..reviews /\ reviews \in 0..MaxReviews
    BY <2>1, <2>2, Bounds
  <2>4. {armed, submitting} \subseteq BOOLEAN
    BY <2>1, Zenon
  <2> QED BY <2>3, <2>4 DEF PopupTyped
<1> QED BY <1>1, <1>2, <1>3, <1>4 DEF TInv

LEMMA StepTyped == IInv /\ TInv /\ [Next]_vars => TInv'
<1> SUFFICES ASSUME IInv, TInv, [Next]_vars PROVE TInv'
  OBVIOUS
<1>1. CASE \/ \E r \in Records : Mine(r)
           \/ Reorg \/ EpochBegins \/ EndpointChanged \/ UNCHANGED vars
  BY <1>1, WorldTypes
<1>2. CASE Leave
  BY <1>2, LeaveTypes
<1>3. ASSUME NEW c \in Calls,
             \/ TakeSource(c) \/ Verify(c) \/ VerifyFails(c) \/ Remember(c)
             \/ ReadHints(c) \/ SkipProof(c)
      PROVE  TInv'
  BY <1>3, TakeSourceTypes, VerifyTypes, VerifyFailsTypes, RememberTypes, ReadHintsTypes, SkipTypes
<1>4. ASSUME NEW c \in Calls,
             \/ Review(c) \/ ShowReview(c) \/ Confirm(c)
             \/ Submit(c) \/ Refuse(c) \/ ReviewGone(c) \/ Outcome(c)
      PROVE  TInv'
  BY <1>4, ReviewTypes, ConfirmTypes, EndTypes
<1> QED BY <1>1, <1>2, <1>3, <1>4 DEF Next

\* What the popup remembers, verifies and shows is well typed: whatever the services
\* serve, an address that was looked up is one the name's records name, the source holds
\* no more headers than there are blocks, and a cached proof still is one
\* (namespv.ts verifyNameUnion, namecache.ts rememberHintSet, popup-sendflow.ts).
THEOREM LookupsHold == Spec => []LookupInv
<1>1. IInv /\ TInv => TypeOK
  <2> SUFFICES ASSUME IInv, TInv PROVE TypeOK
    OBVIOUS
  <2>1. records \in Chains /\ epoch \in Epochs
    BY RecordsAreAChain DEF IInv, ChainOk
  <2>2. \A g \in Gens : Len(seen[g]) <= Len(Founding) + MaxGrowth
    BY DEF TInv, WorldTyped, Lists
  <2> QED BY <2>1, <2>2
          DEF TypeOK, TInv, WorldTyped, CacheTyped, CallsTyped, PopupTyped, Typed, Pcs, Whose
<1>2. Spec => []TInv
  BY Inductive, InitTyped, StepTyped, PTL DEF Spec
<1>3. TypeOK /\ CacheIsAProof /\ RepointRefused => LookupInv
  BY DEF LookupInv
<1> QED BY <1>1, <1>2, <1>3, Inductive, CacheProves, RepointedIsNotSigned, PTL
==============================================================================
