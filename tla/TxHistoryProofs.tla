---------------------------- MODULE TxHistoryProofs ----------------------------
(***************************************************************************)
(* Theorems about TxHistory.  IInv is the inductive invariant.  Its heart  *)
(* is what the promise chain gives: the head writes back the list that is  *)
(* still stored (HeadOk), two jobs that would undo each other never stand  *)
(* in the wrong order (Ordered), and every row is bound for the list of    *)
(* the account its transaction was signed with (RowsOk).  On these rest    *)
(* that a filed transaction keeps a copy (KeptOk), and that nothing erased *)
(* comes back (GoneOk, OldOk).  There is one lemma per action.             *)
(***************************************************************************)
EXTENDS TxHistory, TLAPS, SequenceTheorems, FiniteSetTheorems, FunctionTheorems

-----------------------------------------------------------------------------
(* Sequences as the sets of their elements: appending, popping, selecting *)

LEMMA SeqIs ==
    ASSUME NEW S, NEW n \in Nat, NEW f \in [1..n -> S]
    PROVE  f \in Seq(S) /\ Len(f) = n /\ DOMAIN f = 1..n
  BY SMT

LEMMA ElemsTyped == ASSUME NEW S, NEW q \in Seq(S) PROVE ToSet(q) \subseteq S
  BY ElementOfSeq, LenProperties DEF ToSet

LEMMA NoElems == ToSet(<<>>) = {}
  BY EmptySeq, LenProperties DEF ToSet

LEMMA ElemsAppend ==
    ASSUME NEW S, NEW q \in Seq(S), NEW x \in S
    PROVE  Append(q, x) \in Seq(S) /\ ToSet(Append(q, x)) = ToSet(q) \cup {x}
  BY SMT, AppendProperties, LenProperties DEF ToSet

LEMMA ElemsTail ==
    ASSUME NEW S, NEW q \in Seq(S), q # <<>>
    PROVE  /\ Tail(q) \in Seq(S) /\ q[1] \in S
           /\ ToSet(q) = {q[1]} \cup ToSet(Tail(q))
<1>1. /\ Len(q) \in Nat \ {0} /\ DOMAIN q = 1..Len(q)
      /\ Tail(q) \in Seq(S) /\ Len(Tail(q)) = Len(q) - 1 /\ DOMAIN Tail(q) = 1..(Len(q) - 1)
      /\ \A i \in 1..(Len(q) - 1) : Tail(q)[i] = q[i + 1]
  BY EmptySeq, LenProperties, HeadTailProperties
<1>2. q[1] \in S
  BY <1>1, ElementOfSeq
<1>3. ToSet(Tail(q)) \subseteq ToSet(q) /\ q[1] \in ToSet(q)
  BY <1>1 DEF ToSet
<1>4. ASSUME NEW x \in ToSet(q) PROVE x = q[1] \/ x \in ToSet(Tail(q))
  <2>1. PICK i \in 1..Len(q) : x = q[i]
    BY <1>1 DEF ToSet
  <2>2. i # 1 => i - 1 \in 1..(Len(q) - 1) /\ x = Tail(q)[i - 1]
    BY <1>1, <2>1
  <2> QED BY <1>1, <2>1, <2>2 DEF ToSet
<1> QED BY <1>1, <1>2, <1>3, <1>4

LEMMA HeadIs ==
    ASSUME NEW S, NEW q \in Seq(S), q # <<>>
    PROVE  /\ Head(q) \in S /\ Head(q) \in ToSet(q) /\ Tail(q) \in Seq(S)
           /\ ToSet(q) = {Head(q)} \cup ToSet(Tail(q))
<1>1. Head(q) = q[1]
  BY HeadTailProperties, EmptySeq, LenProperties
<1> QED BY <1>1, ElemsTail

\* What At selects is exactly what stands at the indices asked for: the ranks of
\* the members of I are 1..Cardinality(I), each once.
LEMMA ElemsAt ==
    ASSUME NEW S, NEW q \in Seq(S), NEW I \in SUBSET DOMAIN q
    PROVE  At(q, I) \in Seq(S) /\ ToSet(At(q, I)) = {q[i] : i \in I}
<1> DEFINE Upto(i) == {j \in I : j <= i}
           rank == [i \in I |-> Cardinality(Upto(i))]
           n == Cardinality(I)
           who(k) == CHOOSE i \in I : Cardinality(Upto(i)) = k
<1>1. DOMAIN q = 1..Len(q) /\ Len(q) \in Nat
  BY LenProperties
<1>2. IsFiniteSet(I) /\ n \in Nat
  <2>1. IsFiniteSet(1..Len(q))
    BY <1>1, FS_Interval
  <2>2. IsFiniteSet(I)
    BY <1>1, <2>1, FS_Subset
  <2> QED BY <2>2, FS_CardinalityType
<1>3. \A i \in I : IsFiniteSet(Upto(i)) /\ Cardinality(Upto(i)) \in 1..n
  <2> TAKE i \in I
  <2>1. Upto(i) \in SUBSET I /\ Upto(i) # {}
    BY <1>1
  <2>2. IsFiniteSet(Upto(i)) /\ Cardinality(Upto(i)) <= n
    BY <1>2, <2>1, FS_Subset
  <2>3. Cardinality(Upto(i)) \in Nat /\ Cardinality(Upto(i)) # 0
    BY <2>1, <2>2, FS_CardinalityType, FS_EmptySet
  <2> QED BY <1>2, <2>2, <2>3
<1>4. \A i, j \in I : i < j => Cardinality(Upto(i)) # Cardinality(Upto(j))
  <2> SUFFICES ASSUME NEW i \in I, NEW j \in I, i < j,
                      Cardinality(Upto(i)) = Cardinality(Upto(j))
               PROVE  FALSE
    OBVIOUS
  <2>1. Upto(i) \in SUBSET Upto(j) /\ j \in Upto(j) /\ j \notin Upto(i)
    BY <1>1
  <2>2. Upto(i) = Upto(j)
    <3> HIDE DEF Upto
    <3> QED BY <1>3, <2>1, FS_Subset
  <2> QED BY <2>1, <2>2
<1> HIDE DEF Upto
<1>5. rank \in Injection(I, 1..n)
  BY <1>1, <1>3, <1>4 DEF Injection, IsInjective
<1>6. rank \in Surjection(I, 1..n)
  <2>1. IsFiniteSet(1..n) /\ Cardinality(1..n) = n
    BY <1>2, FS_Interval
  <2> HIDE DEF rank
  <2> QED BY <1>2, <1>5, <2>1, FS_Injection
<1>7. \A k \in 1..n : \E i \in I : Cardinality(Upto(i)) = k
  BY <1>6 DEF Surjection
<1>8. \A k \in 1..n : who(k) \in I
  BY <1>7
<1>9. \A i \in I : who(Cardinality(Upto(i))) = i
  BY <1>1, <1>4
<1>10. At(q, I) = [k \in 1..n |-> q[who(k)]]
  BY DEF At, Upto
<1> HIDE DEF who, n
<1>11. At(q, I) \in [1..n -> S]
  BY <1>1, <1>8, <1>10, ElementOfSeq
<1>12. At(q, I) \in Seq(S) /\ DOMAIN At(q, I) = 1..n
  BY <1>2, <1>11, SeqIs
<1>13. ToSet(At(q, I)) = {q[i] : i \in I}
  BY <1>3, <1>8, <1>9, <1>10, <1>12 DEF ToSet
<1> QED BY <1>12, <1>13

-----------------------------------------------------------------------------
(* The inductive invariant *)

Edits == {"clear", "latch", "settle"}
InWork == {"sent", "recording", "latching"}

\* What the code guarantees of each queued job.
JobOk(j) ==
    /\ j.kind = "record" => /\ j.tx \in Txs /\ key[j.tx] = j.k /\ flow[j.tx] = "recording"
                            /\ outcome[j.tx] = IF j.maybe THEN "maybe" ELSE "ok"
    /\ j.kind \in Edits \cup {"record", "purge"} => j.k \in Accounts
    /\ j.kind = "wipe" => exists /\ ~unlocked /\ wiped /\ resetting = "no"

\* What never stands behind what: one wipe, no removal behind it; one record of a
\* transaction; one removal of an account, and then nothing that writes its list.
Clash(x, y) ==
    \/ x.kind = "wipe" /\ y.kind \in {"wipe", "purge"}
    \/ x.kind = "record" /\ y.kind = "record" /\ x.tx = y.tx
    \/ x.kind = "purge" /\ y.kind = "purge" /\ x.k = y.k
    \/ UserWaits /\ x.kind = "purge" /\ y.kind \in Edits \cup {"record"} /\ x.k = y.k
Ordered(q) == \A i, j \in DOMAIN q : i < j => ~Clash(q[i], q[j])

ChainOk == Ordered(chain) /\ \A j \in ToSet(chain) : JobOk(j)

WalletOk ==
    /\ resetting # "no" => exists /\ wiped /\ \A j \in ToSet(chain) : j.kind # "wipe"
    /\ resetting = "locked" => ~unlocked
    /\ unlocked => exists
    /\ exists => active \in Accounts
    /\ ~exists => Unpurged = {}
    /\ accounts \cap Unpurged = {}

\* The head writes what is still stored; only a drain holds rows; a deletion has
\* forgotten the parked rows it is about.
HeadOk ==
    /\ at # "start" => chain # <<>>
    /\ at = "next" => Head(chain).kind = "drain"
    /\ held # <<>> => at # "start" /\ Head(chain).kind = "drain"
    /\ at = "write" =>
          /\ Head(chain).kind \in Edits \cup {"record"} => snap = stored[Head(chain).k]
          /\ Head(chain).kind = "drain" => held # <<>> /\ snap = stored[Head(held).k]
          /\ Head(chain).kind = "purge" =>
                /\ \A p \in ToSet(pend) : p.k # Head(chain).k
                /\ \A t \in filed : key[t] = Head(chain).k => t \in excused
          /\ Head(chain).kind = "wipe" => pend = <<>> /\ filed \subseteq excused

\* Every row is of a transaction signed with the key of the list it is in or bound for.
Belongs(t, k) == key[t] = k /\ flow[t] # "new"
RowsOk ==
    /\ \A p \in ToSet(pend) \cup ToSet(held) : Belongs(p.row.tx, p.k)
    /\ \A k \in Accounts : \A r \in ToSet(stored[k]) : Belongs(r.tx, k)
    /\ \A t \in Txs : IF flow[t] = "new" THEN t \notin filed ELSE key[t] \in Accounts

\* A filed transaction has a copy, and if its answer was definite, a definite one.
Says(t, r) == r.tx = t /\ (outcome[t] = "ok" => ~r.maybe)
Copied(t) ==
    \/ t \in BeingFiled
    \/ \E p \in ToSet(pend) \cup ToSet(held) : Says(t, p.row)
    \/ \E r \in ToSet(stored[key[t]]) : Says(t, r)
KeptOk == /\ wiped => Erasing
          /\ \A t \in filed \ excused : Copied(t)

\* Nothing in the wallet is of an account that was removed, but what is queued in
\* front of the removal.
Gone == purged \cup Unpurged
GoneOk ==
    /\ purged \cap Unpurged = {} /\ active \notin Gone /\ accounts \cap purged = {}
    /\ \A t \in Txs : flow[t] \in InWork => key[t] \notin Gone
    /\ \A j \in ToSet(chain) : j.kind \in Edits \cup {"record"} => j.k \notin purged
    /\ \A p \in ToSet(pend) \cup ToSet(held) : p.k \notin purged
    /\ \A k \in purged : stored[k] = <<>>

\* A transaction of an erased wallet has no row, and a flow of it is one that a
\* locked and wiped wallet will drop.
OldOk ==
    /\ \A t \in old : flow[t] \in InWork => ~exists /\ wiped
    /\ \A p \in ToSet(pend) \cup ToSet(held) : p.row.tx \notin old
    /\ \A k \in Accounts : \A r \in ToSet(stored[k]) : r.tx \notin old
    /\ at = "write" /\ Head(chain).kind = "record" => Head(chain).tx \notin old

IInv ==
    /\ TypeOK /\ NoDuplicateRows
    /\ WalletOk /\ ChainOk /\ HeadOk /\ RowsOk
    /\ "resetFails" \notin Ops => KeptOk
    /\ UserWaits => GoneOk /\ OldOk

-----------------------------------------------------------------------------
(* Lists of rows *)

Unique(h) == \A i, j \in DOMAIN h : h[i].tx = h[j].tx => i = j

LEMMA RowsIn == ASSUME NEW h \in Seq(Row)
                PROVE  /\ Len(h) \in Nat /\ DOMAIN h = 1..Len(h)
                       /\ \A i \in DOMAIN h : h[i] \in Row /\ h[i] \in ToSet(h)
                       /\ \A r \in ToSet(h) : r \in Row /\ \E i \in DOMAIN h : r = h[i]
                       /\ TxsOf(h) = {r.tx : r \in ToSet(h)}
  BY LenProperties, ElementOfSeq DEF ToSet, TxsOf

\* Clearing the maybe flag of a transaction.
LEMMA ClearKeeps ==
    ASSUME NEW h \in Seq(Row), NEW t \in Txs
    PROVE  LET f == ClearMaybeOf(h, t) IN
           /\ f \in Seq(Row) /\ Len(f) = Len(h) /\ DOMAIN f = DOMAIN h
           /\ \A i \in DOMAIN h : /\ f[i].tx = h[i].tx /\ f[i].confirmed = h[i].confirmed
                                  /\ f[i].maybe => h[i].maybe /\ h[i].tx # t
<1> DEFINE f == ClearMaybeOf(h, t)
<1>1. \A i \in 1..Len(h) : h[i] \in Row
  BY RowsIn
<1>2. Len(h) \in Nat /\ DOMAIN h = 1..Len(h)
  BY RowsIn
<1>3. f \in [1..Len(h) -> Row]
  BY <1>1, <1>2 DEF ClearMaybeOf, Definite, Row
<1>4. f \in Seq(Row) /\ Len(f) = Len(h) /\ DOMAIN f = 1..Len(h)
  <2> HIDE DEF f
  <2> QED BY <1>2, <1>3, SeqIs
<1>5. \A i \in DOMAIN h : /\ f[i].tx = h[i].tx /\ f[i].confirmed = h[i].confirmed
                          /\ f[i].maybe => h[i].maybe /\ h[i].tx # t
  BY <1>1, <1>2 DEF ClearMaybeOf, Definite, Row
<1> QED BY <1>2, <1>4, <1>5

\* The newest row in front, the oldest evicted.
LEMMA CappedIs ==
    ASSUME NEW h \in Seq(Row), NEW row \in Row
    PROVE  LET f == Capped(<<row>> \o h) IN
           /\ f \in Seq(Row) /\ Len(f) <= MaxRows /\ 1 \in DOMAIN f /\ f[1] = row
           /\ \A i \in DOMAIN f : i # 1 => i - 1 \in DOMAIN h /\ f[i] = h[i - 1]
<1> DEFINE g == <<row>> \o h
           n == IF Len(g) < MaxRows THEN Len(g) ELSE MaxRows
           f == Capped(g)
<1>1. Len(h) \in Nat /\ DOMAIN h = 1..Len(h) /\ \A i \in 1..Len(h) : h[i] \in Row
  BY RowsIn
<1>2. <<row>> \in Seq(Row) /\ Len(<<row>>) = 1 /\ <<row>>[1] = row
  BY SMT
<1>3. /\ g \in Seq(Row) /\ Len(g) = 1 + Len(h)
      /\ \A i \in 1..(1 + Len(h)) : g[i] = IF i <= 1 THEN <<row>>[i] ELSE h[i - 1]
  BY <1>2, ConcatProperties
<1>4. n \in 1..Len(g)
  BY <1>1, <1>3, HistoryAssumption
<1>5. f = SubSeq(g, 1, n)
  BY DEF Capped
<1> HIDE DEF g, f, n
<1>6. f \in Seq(Row) /\ Len(f) = n /\ \A i \in 1..n : f[i] = g[i]
  BY <1>3, <1>4, <1>5, SubSeqProperties
<1>7. DOMAIN f = 1..n /\ n <= MaxRows
  BY <1>1, <1>3, <1>6, LenProperties, HistoryAssumption DEF n
<1>8. f[1] = row
  BY <1>1, <1>2, <1>3, <1>4, <1>6
<1>9. \A i \in 1..n : i # 1 => i - 1 \in 1..Len(h) /\ f[i] = h[i - 1]
  BY <1>1, <1>3, <1>4, <1>6
<1> QED BY <1>1, <1>4, <1>6, <1>7, <1>8, <1>9 DEF g, f

\* doRecordTx: one row per transaction, no definite one made ambiguous again, no
\* confirmation lost, and the row asked for is there.
LEMMA FiledKeeps ==
    ASSUME NEW h \in Seq(Row), Len(h) <= MaxRows, Unique(h), NEW row \in Row
    PROVE  LET f == Filed(h, row) IN
           /\ f \in Seq(Row) /\ Len(f) <= MaxRows /\ Unique(f)
           /\ \A r \in ToSet(f) : r.tx = row.tx \/ \E s \in ToSet(h) : r.tx = s.tx
           /\ \E r \in ToSet(f) : r.tx = row.tx /\ (row.maybe \/ ~r.maybe)
           /\ \A s \in ToSet(h) : s.tx \in TxsOf(f) =>
                 \E r \in ToSet(f) : r.tx = s.tx /\ (r.maybe => s.maybe)
           /\ \A i \in DOMAIN h : \A j \in DOMAIN f :
                 h[i].tx = f[j].tx /\ h[i].confirmed => f[j].confirmed
<1> DEFINE f == Filed(h, row)
           c == ClearMaybeOf(h, row.tx)
           g == Capped(<<row>> \o h)
<1>1. row.tx \in Txs /\ row.maybe \in BOOLEAN
  BY DEF Row
<1>2. CASE row.tx \in TxsOf(h) /\ row.maybe
  <2>1. f = h
    BY <1>2 DEF Filed
  <2> QED BY <1>2, <2>1, RowsIn DEF Unique
<1>3. CASE row.tx \in TxsOf(h) /\ ~row.maybe
  <2>1. f = c
    BY <1>3 DEF Filed
  <2>2. /\ c \in Seq(Row) /\ Len(c) = Len(h) /\ DOMAIN c = DOMAIN h
        /\ \A i \in DOMAIN h : /\ c[i].tx = h[i].tx /\ c[i].confirmed = h[i].confirmed
                               /\ c[i].maybe => h[i].maybe /\ h[i].tx # row.tx
    BY <1>1, ClearKeeps
  <2> HIDE DEF f, c
  <2>3. \A i \in DOMAIN h : h[i] \in ToSet(h) /\ c[i] \in ToSet(c)
    BY <2>2, RowsIn
  <2>4. \A r \in ToSet(h) : \E i \in DOMAIN h : r = h[i]
    BY RowsIn
  <2>5. \A r \in ToSet(c) : \E i \in DOMAIN h : r = c[i]
    BY <2>2 DEF ToSet
  <2>6. PICK i \in DOMAIN h : h[i].tx = row.tx
    BY <1>3 DEF TxsOf
  <2>7. Unique(c)
    BY <2>2 DEF Unique
  <2>8. \E r \in ToSet(c) : r.tx = row.tx /\ (row.maybe \/ ~r.maybe)
    BY <2>2, <2>3, <2>6
  <2>9. \A s \in ToSet(h) : \E r \in ToSet(c) : r.tx = s.tx /\ (r.maybe => s.maybe)
    BY <2>2, <2>3, <2>4
  <2>10. \A r \in ToSet(c) : \E s \in ToSet(h) : r.tx = s.tx
    BY <2>2, <2>3, <2>5
  <2>11. \A n \in DOMAIN h : \A j \in DOMAIN c : h[n].tx = c[j].tx /\ h[n].confirmed => c[j].confirmed
    BY <2>2 DEF Unique
  <2> QED BY <2>1, <2>2, <2>7, <2>8, <2>9, <2>10, <2>11 DEF f
<1>4. CASE row.tx \notin TxsOf(h)
  <2>1. f = g
    BY <1>4 DEF Filed
  <2>2. /\ g \in Seq(Row) /\ Len(g) <= MaxRows /\ 1 \in DOMAIN g /\ g[1] = row
        /\ \A i \in DOMAIN g : i # 1 => i - 1 \in DOMAIN h /\ g[i] = h[i - 1]
    BY CappedIs
  <2> HIDE DEF f, g
  <2>3. /\ DOMAIN h \subseteq Nat /\ DOMAIN g \subseteq Nat
        /\ \A i \in DOMAIN h : h[i] \in ToSet(h) /\ h[i].tx # row.tx
        /\ \A i \in DOMAIN g : g[i] \in ToSet(g)
    BY <1>4, <2>2, RowsIn DEF TxsOf
  <2>4. \A r \in ToSet(h) : \E i \in DOMAIN h : r = h[i]
    BY RowsIn
  <2>5. \A r \in ToSet(g) : \E i \in DOMAIN g : r = g[i]
    BY <2>2, RowsIn
  <2>6. Unique(g)
    <3> SUFFICES ASSUME NEW i \in DOMAIN g, NEW j \in DOMAIN g, g[i].tx = g[j].tx PROVE i = j
      BY DEF Unique
    <3>1. i # 1 /\ j # 1 => i - 1 = j - 1
      BY <2>2 DEF Unique
    <3>2. i = 1 <=> j = 1
      BY <2>2, <2>3
    <3> QED BY <2>3, <3>1, <3>2
  <2>7. \A r \in ToSet(g) : r.tx = row.tx \/ \E s \in ToSet(h) : r.tx = s.tx
    BY <2>2, <2>3, <2>5
  <2>8. \E r \in ToSet(g) : r.tx = row.tx /\ (row.maybe \/ ~r.maybe)
    BY <1>1, <2>2, <2>3
  <2>9. ASSUME NEW s \in ToSet(h), s.tx \in TxsOf(g)
        PROVE  \E r \in ToSet(g) : r.tx = s.tx /\ (r.maybe => s.maybe)
    <3>1. PICK i \in DOMAIN g : g[i].tx = s.tx
      BY <2>9 DEF TxsOf
    <3>2. PICK n \in DOMAIN h : s = h[n]
      BY <2>4
    <3>3. i # 1 /\ g[i] = h[i - 1] /\ i - 1 \in DOMAIN h
      BY <2>2, <2>3, <3>1, <3>2
    <3>4. i - 1 = n
      BY <3>1, <3>2, <3>3 DEF Unique
    <3> QED BY <2>3, <3>1, <3>2, <3>3, <3>4
  <2>10. ASSUME NEW n \in DOMAIN h, NEW j \in DOMAIN g, h[n].tx = g[j].tx, h[n].confirmed
         PROVE  g[j].confirmed
    <3>1. j # 1 /\ j - 1 \in DOMAIN h /\ g[j] = h[j - 1]
      BY <2>2, <2>3, <2>10
    <3>2. j - 1 = n
      BY <2>10, <3>1 DEF Unique
    <3> QED BY <2>10, <3>1, <3>2
  <2> QED BY <2>1, <2>2, <2>6, <2>7, <2>8, <2>9, <2>10 DEF f
<1> QED BY <1>1, <1>2, <1>3, <1>4

\* clearMaybe, the latch and the refresh change rows in place, one way only.
LEMMA EditedKeeps ==
    ASSUME NEW h \in Seq(Row), NEW j \in Job, j.kind \in Edits
    PROVE  LET f == Edited(h, j) IN
           /\ f \in Seq(Row) /\ Len(f) = Len(h) /\ DOMAIN f = DOMAIN h
           /\ \A i \in DOMAIN h : /\ f[i].tx = h[i].tx
                                  /\ f[i].maybe => h[i].maybe
                                  /\ h[i].confirmed => f[i].confirmed
<1> DEFINE f == Edited(h, j)
<1>1. Len(h) \in Nat /\ DOMAIN h = 1..Len(h) /\ \A i \in DOMAIN h : h[i] \in Row
  BY RowsIn
<1>2. \A r \in Row : /\ Resolved(r, j) \in Row /\ Resolved(r, j).tx = r.tx
                     /\ ~Resolved(r, j).maybe /\ (r.confirmed => Resolved(r, j).confirmed)
  BY DEF Row, Resolved
<1>3. \A i \in DOMAIN h : f[i] \in {h[i], Resolved(h[i], j)}
  BY DEF Edited
<1>4. f \in [1..Len(h) -> Row]
  <2>1. \A i \in 1..Len(h) : f[i] \in Row
    BY <1>1, <1>2, <1>3
  <2> QED BY <1>1, <2>1 DEF Edited
<1> HIDE DEF f
<1>5. f \in Seq(Row) /\ Len(f) = Len(h) /\ DOMAIN f = 1..Len(h)
  BY <1>1, <1>4, SeqIs
<1>6. ASSUME NEW i \in DOMAIN h
      PROVE  f[i].tx = h[i].tx /\ (f[i].maybe => h[i].maybe) /\ (h[i].confirmed => f[i].confirmed)
  BY <1>1, <1>2, <1>3
<1> QED BY <1>1, <1>5, <1>6 DEF f

-----------------------------------------------------------------------------
(* The parked rows and the queue *)

LEMMA SupersededIs ==
    ASSUME pend \in Seq(Parked), NEW j
    PROVE  /\ Superseded(j) \in Seq(Parked)
           /\ ToSet(Superseded(j)) = {p \in ToSet(pend) : ~Twin(p, j)}
<1> DEFINE I == {i \in DOMAIN pend : ~Twin(pend[i], j)}
<1>1. Superseded(j) = At(pend, I)
  BY DEF Superseded
<1>2. {pend[i] : i \in I} = {p \in ToSet(pend) : ~Twin(p, j)}
  BY DEF ToSet
<1>3. I \in SUBSET DOMAIN pend
  OBVIOUS
<1> HIDE DEF I
<1> QED BY <1>1, <1>2, <1>3, ElemsAt

LEMMA KeptAfterIs ==
    ASSUME pend \in Seq(Parked), NEW j
    PROVE  /\ KeptAfter(j) \in Seq(Parked)
           /\ ToSet(KeptAfter(j)) = {p \in ToSet(pend) : j.kind # "wipe" /\ p.k # j.k}
           /\ j.kind = "wipe" => KeptAfter(j) = <<>>
<1> DEFINE I == {i \in DOMAIN pend : pend[i].k # j.k}
<1>1. CASE j.kind = "wipe"
  BY <1>1, NoElems, EmptySeq DEF KeptAfter
<1>2. CASE j.kind # "wipe"
  <2>1. KeptAfter(j) = At(pend, I)
    BY <1>2 DEF KeptAfter
  <2>2. {pend[i] : i \in I} = {p \in ToSet(pend) : p.k # j.k}
    BY DEF ToSet
  <2>3. I \in SUBSET DOMAIN pend
    OBVIOUS
  <2> HIDE DEF I
  <2> QED BY <1>2, <2>1, <2>2, <2>3, ElemsAt
<1> QED BY <1>1, <1>2

LEMMA ClearParkedIs ==
    ASSUME pend \in Seq(Parked), NEW t
    PROVE  /\ ClearParked(t) \in Seq(Parked) /\ (pend = <<>> => ClearParked(t) = <<>>)
           /\ \A p \in ToSet(ClearParked(t)) :
                 \E q \in ToSet(pend) : p.k = q.k /\ p.row.tx = q.row.tx
           /\ \A q \in ToSet(pend) : \E p \in ToSet(ClearParked(t)) :
                 p.k = q.k /\ p.row.tx = q.row.tx /\ (p.row.maybe => q.row.maybe)
<1> DEFINE f == ClearParked(t)
<1>1. Len(pend) \in Nat /\ DOMAIN pend = 1..Len(pend) /\ \A i \in DOMAIN pend : pend[i] \in Parked
  BY LenProperties, ElementOfSeq
<1>2. \A i \in DOMAIN pend :
        /\ f[i] \in Parked /\ f[i].k = pend[i].k /\ f[i].row.tx = pend[i].row.tx
        /\ f[i].row.maybe => pend[i].row.maybe
  BY <1>1 DEF ClearParked, Definite, Parked, Row
<1>3. f \in [1..Len(pend) -> Parked]
  BY <1>1, <1>2 DEF ClearParked
<1> HIDE DEF f
<1>4. f \in Seq(Parked) /\ Len(f) = Len(pend) /\ DOMAIN f = DOMAIN pend
  BY <1>1, <1>3, SeqIs
<1>5. pend = <<>> => f = <<>>
  BY <1>4, EmptySeq
<1>6. /\ \A p \in ToSet(f) : \E q \in ToSet(pend) : p.k = q.k /\ p.row.tx = q.row.tx
      /\ \A q \in ToSet(pend) : \E p \in ToSet(f) :
                 p.k = q.k /\ p.row.tx = q.row.tx /\ (p.row.maybe => q.row.maybe)
  BY <1>2, <1>4 DEF ToSet
<1> QED BY <1>4, <1>5, <1>6 DEF f

LEMMA PushIs ==
    ASSUME NEW q \in Seq(Job), NEW j \in Job
    PROVE  /\ Append(q, j) \in Seq(Job) /\ Append(q, j) # <<>>
           /\ ToSet(Append(q, j)) = ToSet(q) \cup {j}
           /\ q # <<>> => Head(Append(q, j)) = Head(q)
           /\ Ordered(q) /\ (\A x \in ToSet(q) : ~Clash(x, j)) => Ordered(Append(q, j))
<1> DEFINE r == Append(q, j)
<1>1. /\ r \in Seq(Job) /\ Len(r) = Len(q) + 1 /\ Len(q) \in Nat
      /\ DOMAIN r = 1..(Len(q) + 1) /\ DOMAIN q = 1..Len(q)
      /\ r[Len(q) + 1] = j /\ \A i \in 1..Len(q) : r[i] = q[i]
  BY AppendProperties, LenProperties
<1>2. q # <<>> => Len(q) > 0
  BY <1>1, EmptySeq
<1>3. r # <<>>
  BY <1>1, EmptySeq
<1>4. \A i \in 1..Len(q) : q[i] \in ToSet(q)
  BY <1>1 DEF ToSet
<1> HIDE DEF r
<1>5. q # <<>> => Head(r) = Head(q)
  BY <1>1, <1>2, <1>3, HeadTailProperties
<1>6. ASSUME Ordered(q), \A x \in ToSet(q) : ~Clash(x, j)
      PROVE  Ordered(r)
  <2> SUFFICES ASSUME NEW m \in 1..(Len(q) + 1), NEW n \in 1..(Len(q) + 1), m < n
               PROVE  ~Clash(r[m], r[n])
    BY <1>1 DEF Ordered
  <2>1. m \in 1..Len(q) /\ r[m] = q[m]
    BY <1>1
  <2>2. CASE n = Len(q) + 1
    BY <1>1, <1>4, <1>6, <2>1, <2>2
  <2>3. CASE n \in 1..Len(q)
    BY <1>1, <1>6, <2>1, <2>3 DEF Ordered
  <2> QED BY <1>1, <2>2, <2>3
<1> QED BY <1>1, <1>3, <1>5, <1>6, ElemsAppend DEF r

LEMMA PopIs ==
    ASSUME NEW q \in Seq(Job), q # <<>>, Ordered(q)
    PROVE  Ordered(Tail(q)) /\ \A x \in ToSet(Tail(q)) : ~Clash(Head(q), x)
<1>1. /\ Len(q) \in Nat \ {0} /\ DOMAIN q = 1..Len(q) /\ Head(q) = q[1]
      /\ Tail(q) \in Seq(Job) /\ DOMAIN Tail(q) = 1..(Len(q) - 1)
      /\ \A i \in 1..(Len(q) - 1) : Tail(q)[i] = q[i + 1]
  BY EmptySeq, LenProperties, HeadTailProperties
<1>2. \A i \in 1..(Len(q) - 1) : ~Clash(Head(q), Tail(q)[i])
  BY <1>1 DEF Ordered
<1>3. Ordered(Tail(q))
  BY <1>1 DEF Ordered
<1> QED BY <1>1, <1>2, <1>3 DEF ToSet

-----------------------------------------------------------------------------
(* The initial state, and steps that leave rows and the head alone *)

LEMMA Typing ==
    ASSUME TypeOK
    PROVE  /\ \A p \in ToSet(pend) \cup ToSet(held) :
                 /\ p \in Parked /\ p.k \in Accounts /\ p.row \in Row
                 /\ p.row.tx \in Txs /\ p.row.maybe \in BOOLEAN
           /\ \A k \in Accounts : \A r \in ToSet(stored[k]) : r \in Row /\ r.tx \in Txs
           /\ \A k \in Accounts : stored[k] \in Seq(Row) /\ Len(stored[k]) <= MaxRows
           /\ \A j \in ToSet(chain) : j \in Job
           /\ filed \subseteq Txs
<1>1. /\ ToSet(pend) \subseteq Parked /\ ToSet(held) \subseteq Parked /\ ToSet(chain) \subseteq Job
      /\ \A k \in Accounts : stored[k] \in Seq(Row) /\ Len(stored[k]) <= MaxRows
  BY ElemsTyped DEF TypeOK
<1>2. \A k \in Accounts : ToSet(stored[k]) \subseteq Row
  BY <1>1, ElemsTyped
<1>3. /\ \A p \in Parked : p.k \in Accounts /\ p.row \in Row
      /\ \A r \in Row : r.tx \in Txs /\ r.maybe \in BOOLEAN
  BY DEF Parked, Row
<1> QED BY <1>1, <1>2, <1>3 DEF TypeOK

LEMMA InitHolds == Init => IInv
<1> SUFFICES ASSUME Init PROVE IInv
  OBVIOUS
<1>1. /\ ToSet(pend) = {} /\ ToSet(held) = {} /\ ToSet(chain) = {}
      /\ \A k \in Accounts : stored[k] = <<>> /\ ToSet(stored[k]) = {} /\ DOMAIN stored[k] = {}
  BY NoElems, LenProperties, EmptySeq DEF Init
<1>2. TypeOK
  <2>1. /\ <<>> \in Seq(Row) /\ <<>> \in Seq(Parked) /\ <<>> \in Seq(Job) /\ Len(<<>>) = 0
    BY EmptySeq
  <2>2. MaxRows \in Nat /\ MaxMishaps \in Nat
    BY HistoryAssumption
  <2>3. stored \in [Accounts -> Seq(Row)] /\ \A k \in Accounts : Len(stored[k]) <= MaxRows
    BY <2>1, <2>2 DEF Init
  <2>4. /\ exists \in BOOLEAN /\ unlocked \in BOOLEAN /\ wiped \in BOOLEAN /\ opening \in BOOLEAN
        /\ accounts \subseteq Accounts /\ active \in Accounts \cup {None}
        /\ resetting \in {"no", "reading", "locked"} /\ at \in {"start", "next", "write"}
    BY DEF Init
  <2>5. /\ pend \in Seq(Parked) /\ chain \in Seq(Job) /\ snap \in Seq(Row) /\ held \in Seq(Parked)
    BY <2>1 DEF Init
  <2>6. /\ key \in [Txs -> Accounts \cup {None}]
        /\ flow \in [Txs -> {"new", "sent", "recording", "latching", "done"}]
        /\ outcome \in [Txs -> {"none", "ok", "maybe", "duplicate", "refused"}]
        /\ spends \in [Txs -> SUBSET Merges]
    BY DEF Init
  <2>7. /\ mined \subseteq Txs /\ filed \subseteq Txs /\ excused \subseteq Txs /\ old \subseteq Txs
        /\ purged \subseteq Accounts /\ mishaps \in 0..MaxMishaps
    BY <2>2 DEF Init
  <2> QED BY <2>3, <2>4, <2>5, <2>6, <2>7 DEF TypeOK
<1>3. NoDuplicateRows
  BY <1>1 DEF NoDuplicateRows
<1>4. Unpurged = {}
  BY <1>1 DEF Unpurged
<1>5. WalletOk
  BY <1>1, <1>4 DEF Init, WalletOk
<1>6. ChainOk
  BY <1>1, LenProperties, EmptySeq DEF Init, ChainOk, Ordered
<1>7. HeadOk /\ RowsOk
  BY <1>1 DEF Init, HeadOk, RowsOk
<1>8. KeptOk
  BY DEF Init, KeptOk
<1>9. GoneOk /\ OldOk
  BY <1>1, <1>4 DEF Init, GoneOk, OldOk, Gone, InWork
<1> QED BY <1>2, <1>3, <1>5, <1>6, <1>7, <1>8, <1>9 DEF IInv

Quiet ==
    /\ UNCHANGED <<stored, pend, at, snap, held, key, outcome, filed, excused>>
    /\ \A t \in Txs : flow'[t] = "new" <=> flow[t] = "new"
    /\ ToSet(chain) \subseteq ToSet(chain')
    /\ chain # <<>> => chain' # <<>> /\ Head(chain') = Head(chain)

LEMMA QuietKeeps ==
    ASSUME IInv, Quiet
    PROVE  /\ NoDuplicateRows' /\ HeadOk' /\ RowsOk'
           /\ (\A t \in filed \ excused : Copied(t)) => (\A t \in filed \ excused : Copied(t))'
<1> USE DEF Quiet
<1>1. NoDuplicateRows'
  BY DEF IInv, NoDuplicateRows
<1>2. HeadOk'
  BY DEF IInv, HeadOk
<1>3. RowsOk'
  BY Typing DEF IInv, RowsOk, Belongs
<1>4. BeingFiled \subseteq BeingFiled'
  BY DEF BeingFiled
<1>5. \A t : Copied(t) => Copied(t)'
  BY <1>4 DEF Copied, Says
<1> QED BY <1>1, <1>2, <1>3, <1>5

-----------------------------------------------------------------------------
(* The user, the browser and the parts of unlock and reset outside the chain *)

LEMMA Conjuncts ==
    ASSUME TypeOK', NoDuplicateRows', WalletOk', ChainOk', HeadOk', RowsOk',
           "resetFails" \notin Ops => KeptOk', UserWaits => GoneOk' /\ OldOk'
    PROVE  IInv'
  BY DEF IInv

\* The steps that touch neither the chain nor the rows.
LEMMA WalletKeeps ==
    ASSUME IInv, mishaps' \in 0..MaxMishaps,
           Lock \/ Unlock \/ UnlockThrows \/ Switch \/ ResetLocks \/ Reset
    PROVE  IInv'
<1> USE DEF wallet, work, flows, ghosts
<1>1. UNCHANGED <<stored, exists, accounts, work, flows, ghosts>>
  BY DEF Lock, Unlock, UnlockThrows, Switch, ResetLocks, Reset
<1>2. Quiet
  BY <1>1 DEF Quiet
<1>3. /\ unlocked' \in BOOLEAN /\ wiped' \in BOOLEAN /\ opening' \in BOOLEAN
      /\ active' \in Accounts \cup {None} /\ resetting' \in {"no", "reading", "locked"}
  BY DEF IInv, TypeOK, Lock, Unlock, UnlockThrows, Switch, ResetLocks, Reset
<1>4. TypeOK'
  BY <1>1, <1>3 DEF IInv, TypeOK
<1>5. WalletOk'
  <2>1. Unpurged' = Unpurged
    BY <1>1 DEF Unpurged
  <2> QED BY <1>1, <2>1 DEF IInv, TypeOK, WalletOk, Lock, Unlock, UnlockThrows, Switch, ResetLocks,
                            Reset, Erasing
<1>6. ChainOk'
  <2>1. \A x \in ToSet(chain) : JobOk(x)'
    BY <1>1 DEF IInv, ChainOk, JobOk, WalletOk, Lock, Unlock, UnlockThrows, Switch, ResetLocks,
                Reset, Erasing
  <2> QED BY <1>1, <2>1 DEF IInv, ChainOk
<1>7. (wiped => Erasing) => (wiped => Erasing)'
  BY <1>1 DEF Lock, Unlock, UnlockThrows, Switch, ResetLocks, Reset, Erasing
<1>8. "resetFails" \notin Ops => KeptOk'
  BY <1>2, <1>7, QuietKeeps DEF IInv, KeptOk
<1>9. ASSUME UserWaits PROVE GoneOk' /\ OldOk'
  <2>1. GoneOk /\ OldOk
    BY <1>9 DEF IInv
  <2>2. Gone' = Gone /\ Unpurged' = Unpurged
    BY <1>1 DEF Gone, Unpurged
  <2>3. active' \notin Gone
    BY <1>1, <2>1 DEF IInv, WalletOk, GoneOk, Gone, Lock, Unlock, UnlockThrows, Switch, ResetLocks,
                      Reset
  <2>4. GoneOk'
    BY <1>1, <2>1, <2>2, <2>3 DEF GoneOk
  <2>5. wiped => wiped'
    BY DEF Lock, Unlock, UnlockThrows, Switch, ResetLocks, Reset
  <2> QED BY <1>1, <2>1, <2>4, <2>5 DEF OldOk
<1> QED BY <1>2, <1>4, <1>5, <1>6, <1>8, <1>9, QuietKeeps, Conjuncts

\* A step that queues one job, other than a record.
LEMMA QueueKeeps ==
    ASSUME IInv, NEW j \in Job, chain' = Append(chain, j), j.kind # "record",
           UNCHANGED <<stored, pend, at, snap, held, key, outcome, filed, excused>>,
           \A t \in Txs : flow'[t] = "new" <=> flow[t] = "new"
    PROVE  /\ Quiet /\ chain' \in Seq(Job) /\ ToSet(chain') = ToSet(chain) \cup {j}
           /\ Unpurged' = Unpurged \cup (IF j.kind = "purge" THEN {j.k} ELSE {})
           /\ (\A x \in ToSet(chain) : ~Clash(x, j)) => Ordered(chain')
<1>1. /\ chain' \in Seq(Job) /\ ToSet(chain') = ToSet(chain) \cup {j} /\ chain' # <<>>
      /\ chain # <<>> => Head(chain') = Head(chain)
      /\ Ordered(chain) /\ (\A x \in ToSet(chain) : ~Clash(x, j)) => Ordered(chain')
  BY PushIs DEF IInv, TypeOK
<1>2. Quiet
  BY <1>1 DEF Quiet
<1> QED BY <1>1, <1>2 DEF IInv, ChainOk, Unpurged

LEMMA MineKeeps ==
    ASSUME IInv, mishaps' \in 0..MaxMishaps, NEW t \in Txs, Mine(t)
    PROVE  IInv'
<1> USE DEF wallet, work, ghosts, Mine
<1>1. /\ Quiet /\ TypeOK'
      /\ UNCHANGED <<stored, wallet, work, key, flow, outcome, spends, ghosts>>
  BY DEF Quiet, IInv, TypeOK
<1>2. UNCHANGED <<Unpurged, Gone>>
  BY <1>1 DEF Unpurged, Gone
<1>3. WalletOk' /\ ChainOk'
  BY <1>1, <1>2 DEF IInv, WalletOk, ChainOk, JobOk
<1>4. "resetFails" \notin Ops => KeptOk'
  BY <1>1, QuietKeeps DEF IInv, KeptOk, Erasing
<1>5. UserWaits => GoneOk' /\ OldOk'
  BY <1>1, <1>2 DEF IInv, GoneOk, OldOk
<1> QED BY <1>1, <1>3, <1>4, <1>5, QuietKeeps, Conjuncts

LEMMA UnlockDrainsKeeps ==
    ASSUME IInv, mishaps' \in 0..MaxMishaps, UnlockDrains
    PROVE  IInv'
<1> USE DEF wallet, work, flows, ghosts, UnlockDrains
<1>1. UNCHANGED <<stored, exists, accounts, active, unlocked, wiped, resetting,
                  pend, at, snap, held, flows, ghosts>>
  OBVIOUS
<1>2. DrainJob \in Job /\ DrainJob.kind = "drain"
  BY DEF DrainJob, Job
<1>3. /\ Quiet /\ chain' \in Seq(Job) /\ Unpurged' = Unpurged /\ Ordered(chain')
      /\ ToSet(chain) \subseteq ToSet(chain')
      /\ \A x \in ToSet(chain') : x \in ToSet(chain) \/ x.kind = "drain"
  <2>1. CASE pend # <<>>
    <3>1. \A x : ~Clash(x, DrainJob)
      BY <1>2 DEF Clash, Edits
    <3> QED BY <1>1, <1>2, <2>1, <3>1, QueueKeeps
  <2>2. CASE pend = <<>>
    BY <1>1, <2>2 DEF Quiet, IInv, TypeOK, ChainOk, Unpurged
  <2> QED BY <2>1, <2>2
<1>4. TypeOK'
  BY <1>1, <1>3 DEF IInv, TypeOK
<1>5. WalletOk'
  BY <1>1, <1>3 DEF IInv, WalletOk
<1>6. ChainOk'
  BY <1>1, <1>3 DEF IInv, ChainOk, JobOk, Edits
<1>7. "resetFails" \notin Ops => KeptOk'
  BY <1>1, <1>3, QuietKeeps DEF IInv, KeptOk, Erasing
<1>8. UserWaits => GoneOk' /\ OldOk'
  <2>1. Gone' = Gone
    BY <1>1, <1>3 DEF Gone
  <2>2. at = "write" => Head(chain') = Head(chain)
    BY <1>3 DEF IInv, HeadOk, Quiet
  <2> QED BY <1>1, <1>3, <2>1, <2>2 DEF IInv, GoneOk, OldOk, Edits
<1> QED BY <1>3, <1>4, <1>5, <1>6, <1>7, <1>8, QuietKeeps, Conjuncts

\* A latch or a refresh: a job that marks rows of an account still here.
LEMMA MarksKeep ==
    ASSUME IInv, mishaps' \in 0..MaxMishaps, NEW t \in Txs, Refresh \/ LatchSpent(t)
    PROVE  IInv'
<1> USE DEF wallet, work, flows, ghosts
<1>1. /\ UNCHANGED <<stored, wallet, pend, at, snap, held, key, outcome, spends, mined, ghosts>>
      /\ flow' \in [Txs -> {"new", "sent", "recording", "latching", "done"}]
      /\ \A u \in Txs : \/ flow'[u] = flow[u]
                        \/ flow[u] = "latching" /\ flow'[u] = "done"
  BY DEF Refresh, LatchSpent, IInv, TypeOK
<1>2. PICK j \in Job : /\ chain' = Append(chain, j) /\ j.kind \in {"latch", "settle"}
                       /\ j.k \in Accounts /\ (UserWaits => j.k \notin Gone)
  <2>1. CASE Refresh
    <3>1. PICK s \in SUBSET mined : chain' = Append(chain, MarkJob("settle", active, s))
      BY <2>1 DEF Refresh
    <3>2. active \in Accounts /\ s \in SUBSET Txs
      BY <2>1 DEF Refresh, IInv, WalletOk, TypeOK
    <3>3. active \in Accounts \cup {None} /\ (UserWaits => active \notin Gone)
      BY <3>2 DEF IInv, GoneOk
    <3>4. MarkJob("settle", active, s) \in Job
      BY <3>2, <3>3 DEF MarkJob, Job
    <3>5. /\ MarkJob("settle", active, s).kind = "settle"
          /\ MarkJob("settle", active, s).k = active
      BY DEF MarkJob
    <3> QED BY <3>1, <3>2, <3>3, <3>4, <3>5
  <2>2. CASE LatchSpent(t)
    <3>1. key[t] \in Accounts /\ spends[t] \in SUBSET Txs
      BY <2>2, HistoryAssumption DEF LatchSpent, IInv, RowsOk, TypeOK
    <3>2. UserWaits => key[t] \notin Gone
      BY <2>2 DEF LatchSpent, IInv, GoneOk, InWork
    <3>3. MarkJob("latch", key[t], spends[t]) \in Job
      BY <3>1 DEF MarkJob, Job
    <3>4. /\ MarkJob("latch", key[t], spends[t]).kind = "latch"
          /\ MarkJob("latch", key[t], spends[t]).k = key[t]
      BY DEF MarkJob
    <3>5. chain' = Append(chain, MarkJob("latch", key[t], spends[t]))
      BY <2>2 DEF LatchSpent
    <3> QED BY <3>1, <3>2, <3>3, <3>4, <3>5
  <2> QED BY <2>1, <2>2
<1>3. \A x \in ToSet(chain) : ~Clash(x, j)
  BY <1>2 DEF Clash, Edits, Gone, Unpurged
<1>4. \A u \in Txs : flow'[u] = "new" <=> flow[u] = "new"
  BY <1>1
<1>5. /\ Quiet /\ chain' \in Seq(Job) /\ Unpurged' = Unpurged /\ Ordered(chain')
      /\ ToSet(chain') = ToSet(chain) \cup {j}
  BY <1>1, <1>2, <1>3, <1>4, QueueKeeps
<1>6. TypeOK'
  BY <1>1, <1>5 DEF IInv, TypeOK
<1>7. WalletOk'
  BY <1>1, <1>2, <1>5 DEF IInv, WalletOk
<1>8. ChainOk'
  <2>1. \A x \in ToSet(chain) : JobOk(x)'
    BY <1>1 DEF IInv, ChainOk, JobOk
  <2>2. JobOk(j)'
    BY <1>2 DEF JobOk
  <2> QED BY <1>5, <2>1, <2>2 DEF ChainOk
<1>9. "resetFails" \notin Ops => KeptOk'
  BY <1>1, <1>5, QuietKeeps DEF IInv, KeptOk, Erasing
<1>10. UserWaits => GoneOk' /\ OldOk'
  <2>1. Gone' = Gone
    BY <1>1, <1>5 DEF Gone
  <2>2. at = "write" => Head(chain') = Head(chain)
    BY <1>5 DEF IInv, HeadOk, Quiet
  <2>3. UserWaits => GoneOk'
    BY <1>1, <1>2, <1>5, <2>1 DEF IInv, GoneOk, Edits, InWork, Gone
  <2>4. UserWaits => OldOk'
    <3>1. old \subseteq Txs
      BY DEF IInv, TypeOK
    <3> QED BY <1>1, <1>5, <2>2, <3>1 DEF IInv, OldOk, InWork
  <2> QED BY <2>3, <2>4
<1> QED BY <1>5, <1>6, <1>7, <1>8, <1>9, <1>10, QuietKeeps, Conjuncts

LEMMA RemoveKeeps ==
    ASSUME IInv, mishaps' \in 0..MaxMishaps, RemoveAccount
    PROVE  IInv'
<1> USE DEF wallet, work, flows, ghosts
<1>1. UNCHANGED <<stored, exists, unlocked, wiped, opening, resetting, pend, at, snap, held, flows, ghosts>>
  BY DEF RemoveAccount
<1>2. PICK k \in accounts : /\ accounts' = accounts \ {k}
                            /\ active' \in (IF active = k THEN accounts' ELSE {active})
                            /\ chain' = Append(chain, PurgeJob(k))
  BY DEF RemoveAccount
<1>3. k \in Accounts /\ unlocked /\ exists /\ active' \in Accounts /\ active' # k
  BY <1>2 DEF RemoveAccount, IInv, TypeOK, WalletOk
<1>4. PurgeJob(k) \in Job /\ PurgeJob(k).kind = "purge" /\ PurgeJob(k).k = k
  BY <1>3 DEF PurgeJob, Job
<1>5. \A x \in ToSet(chain) : ~Clash(x, PurgeJob(k))
  <2>1. k \notin Unpurged
    BY DEF IInv, WalletOk
  <2> QED BY <1>3, <1>4, <2>1 DEF IInv, ChainOk, JobOk, Clash, Edits, Unpurged
<1>6. /\ Quiet /\ chain' \in Seq(Job) /\ Unpurged' = Unpurged \cup {k} /\ Ordered(chain')
      /\ ToSet(chain') = ToSet(chain) \cup {PurgeJob(k)}
  BY <1>1, <1>2, <1>4, <1>5, QueueKeeps
<1>7. TypeOK'
  BY <1>1, <1>2, <1>3, <1>6 DEF IInv, TypeOK
<1>8. WalletOk'
  BY <1>1, <1>2, <1>3, <1>4, <1>6 DEF IInv, WalletOk
<1>9. ChainOk'
  <2>1. \A x \in ToSet(chain) : JobOk(x)'
    BY <1>1 DEF IInv, ChainOk, JobOk
  <2>2. JobOk(PurgeJob(k))'
    BY <1>3, <1>4, <1>6 DEF JobOk, PurgeJob
  <2> QED BY <1>6, <2>1, <2>2 DEF ChainOk
<1>10. "resetFails" \notin Ops => KeptOk'
  BY <1>1, <1>6, QuietKeeps DEF IInv, KeptOk, Erasing
<1>11. ASSUME UserWaits PROVE GoneOk' /\ OldOk'
  <2>1. GoneOk /\ OldOk
    BY <1>11 DEF IInv
  <2>2. Gone' = Gone \cup {k}
    BY <1>1, <1>6 DEF Gone
  <2>3. at = "write" => Head(chain') = Head(chain)
    BY <1>6 DEF IInv, HeadOk, Quiet
  <2>4. \A t \in Txs : flow[t] \notin InWork
    BY <1>11 DEF RemoveAccount, Free, InFlight, InWork
  <2>5. k \notin purged /\ active' \notin Gone
    BY <1>2, <2>1 DEF IInv, GoneOk, WalletOk, Gone
  <2>6. GoneOk'
    BY <1>1, <1>2, <1>3, <1>4, <1>6, <2>1, <2>2, <2>4, <2>5 DEF GoneOk, Edits
  <2> QED BY <1>1, <2>1, <2>3, <2>6 DEF OldOk
<1> QED BY <1>6, <1>7, <1>8, <1>9, <1>10, <1>11, QuietKeeps, Conjuncts

LEMMA ResetQueuesKeeps ==
    ASSUME IInv, mishaps' \in 0..MaxMishaps, ResetQueues
    PROVE  IInv'
<1> USE DEF wallet, work, flows, ghosts
<1> DEFINE j == WipeJob(accounts)
<1>1. /\ UNCHANGED <<stored, exists, accounts, active, unlocked, wiped, opening,
                     pend, at, snap, held, flows, ghosts>>
      /\ chain' = Append(chain, j) /\ resetting = "locked" /\ resetting' = "no"
  BY DEF ResetQueues
<1>2. j \in Job /\ j.kind = "wipe"
  BY DEF WipeJob, Job, IInv, TypeOK
<1>3. \A x \in ToSet(chain) : x.kind # "wipe"
  BY <1>1 DEF IInv, WalletOk
<1>4. \A x \in ToSet(chain) : ~Clash(x, j)
  BY <1>2, <1>3 DEF Clash, Edits
<1> HIDE DEF j
<1>5. /\ Quiet /\ chain' \in Seq(Job) /\ Unpurged' = Unpurged /\ Ordered(chain')
      /\ ToSet(chain') = ToSet(chain) \cup {j}
  BY <1>1, <1>2, <1>4, QueueKeeps
<1>6. TypeOK'
  BY <1>1, <1>5 DEF IInv, TypeOK
<1>7. WalletOk'
  BY <1>1, <1>5 DEF IInv, WalletOk
<1>8. ChainOk'
  <2>1. \A x \in ToSet(chain) : JobOk(x)'
    BY <1>1, <1>3 DEF IInv, ChainOk, JobOk
  <2>2. PICK y \in Job : y = j
    BY <1>2
  <2>3. JobOk(y)'
    BY <1>1, <1>2, <2>2 DEF JobOk, Edits, IInv, WalletOk
  <2> QED BY <1>5, <2>1, <2>2, <2>3 DEF ChainOk
<1>9. Erasing'
  BY <1>2, <1>5 DEF Erasing
<1>10. "resetFails" \notin Ops => KeptOk'
  BY <1>5, <1>9, QuietKeeps DEF IInv, KeptOk
<1>11. UserWaits => GoneOk' /\ OldOk'
  <2>1. Gone' = Gone
    BY <1>1, <1>5 DEF Gone
  <2>2. at = "write" => Head(chain') = Head(chain)
    BY <1>5 DEF IInv, HeadOk, Quiet
  <2> QED BY <1>1, <1>2, <1>5, <2>1, <2>2 DEF IInv, GoneOk, OldOk, Edits
<1> QED BY <1>5, <1>6, <1>7, <1>8, <1>10, <1>11, QuietKeeps, Conjuncts

LEMMA CreateKeeps ==
    ASSUME IInv, mishaps' \in 0..MaxMishaps, Create
    PROVE  IInv'
<1> USE DEF wallet, work, flows, ghosts
<1>1. /\ UNCHANGED <<stored, opening, resetting, work, flows, filed, excused, old>>
      /\ ~exists /\ exists' /\ unlocked' /\ ~wiped' /\ exists' \in BOOLEAN /\ unlocked' \in BOOLEAN
      /\ wiped' \in BOOLEAN
      /\ active' \in Accounts /\ accounts' = {active'} /\ purged' = purged \ accounts'
  BY DEF Create
<1>2. Quiet /\ Unpurged' = {} /\ Unpurged = {}
  BY <1>1 DEF Quiet, Unpurged, IInv, WalletOk
<1>3. resetting = "no"
  BY <1>1 DEF IInv, WalletOk
<1>4. TypeOK'
  BY <1>1 DEF IInv, TypeOK
<1>5. WalletOk'
  BY <1>1, <1>2, <1>3 DEF WalletOk
<1>6. \A x \in ToSet(chain) : JobOk(x)'
  BY <1>1 DEF IInv, ChainOk, JobOk
<1>7. ChainOk'
  BY <1>1, <1>6 DEF IInv, ChainOk
<1>8. "resetFails" \notin Ops => KeptOk'
  BY <1>1, <1>2, QuietKeeps DEF IInv, KeptOk
<1>9. ASSUME UserWaits PROVE GoneOk' /\ OldOk'
  <2>1. GoneOk /\ OldOk
    BY <1>9 DEF IInv
  <2>2. \A t \in Txs : flow[t] \notin InWork
    BY <1>9 DEF Create, Free, InFlight, InWork
  <2>3. Gone' = purged \ accounts'
    BY <1>1, <1>2 DEF Gone
  <2>4. GoneOk'
    BY <1>1, <1>2, <2>1, <2>2, <2>3 DEF GoneOk
  <2>5. old \subseteq Txs
    BY DEF IInv, TypeOK
  <2> QED BY <1>1, <2>1, <2>2, <2>4, <2>5 DEF OldOk
<1> QED BY <1>2, <1>4, <1>5, <1>7, <1>8, <1>9, QuietKeeps, Conjuncts

-----------------------------------------------------------------------------
(* Flows *)

\* A new transaction has no row and no job; a retry keeps its key.
LEMMA SignKeeps ==
    ASSUME IInv, mishaps' \in 0..MaxMishaps, NEW t \in Txs, Sign(t)
    PROVE  IInv'
<1> USE DEF wallet, work
<1>1. /\ UNCHANGED <<stored, wallet, work, outcome, mined, filed, excused, purged>>
      /\ key' = [key EXCEPT ![t] = active] /\ flow' = [flow EXCEPT ![t] = "sent"]
      /\ old' = old \ {t} /\ unlocked
      /\ flow[t] = "new" \/ (flow[t] = "done" /\ key[t] = active)
  BY DEF Sign
<1>2. active \in Accounts /\ active # None
  BY <1>1, HistoryAssumption DEF IInv, WalletOk
<1>3. /\ key'[t] = active /\ flow'[t] = "sent"
      /\ \A u \in Txs : u # t => key'[u] = key[u] /\ flow'[u] = flow[u]
      /\ \A u \in Txs : flow[u] # "new" => key'[u] = key[u]
  BY <1>1 DEF IInv, TypeOK
<1>4. spends' \in [Txs -> SUBSET Merges]
  BY DEF Sign, IInv, TypeOK
<1>5. TypeOK'
  BY <1>1, <1>2, <1>4 DEF IInv, TypeOK
<1>6. NoDuplicateRows'
  BY <1>1 DEF IInv, NoDuplicateRows
<1>7. Unpurged' = Unpurged /\ BeingFiled' = BeingFiled
  BY <1>1 DEF Unpurged, BeingFiled
<1>8. WalletOk'
  BY <1>1, <1>7 DEF IInv, WalletOk
<1>9. \A x \in ToSet(chain) : JobOk(x)'
  BY <1>1, <1>3 DEF IInv, ChainOk, JobOk
<1>10. ChainOk'
  BY <1>1, <1>9 DEF IInv, ChainOk
<1>11. filed \subseteq Txs /\ \A u \in filed : flow[u] # "new" /\ key'[u] = key[u]
  BY <1>3 DEF IInv, TypeOK, RowsOk
<1>12. HeadOk'
  BY <1>1, <1>11 DEF IInv, HeadOk
<1>13. RowsOk'
  <2>1. \A u \in Txs : \A k : Belongs(u, k) => Belongs(u, k)'
    BY <1>3 DEF Belongs
  <2>2. \A p \in ToSet(pend) \cup ToSet(held) : Belongs(p.row.tx, p.k)'
    BY <2>1, Typing DEF IInv, RowsOk
  <2>3. \A k \in Accounts : \A r \in ToSet(stored[k]) : Belongs(r.tx, k)'
    BY <2>1, Typing DEF IInv, RowsOk
  <2>4. \A u \in Txs : IF flow'[u] = "new" THEN u \notin filed ELSE key'[u] \in Accounts
    BY <1>2, <1>3 DEF IInv, RowsOk
  <2> QED BY <1>1, <2>2, <2>3, <2>4 DEF RowsOk
<1>14. "resetFails" \notin Ops => KeptOk'
  <2>1. \A u \in filed : Copied(u) => Copied(u)'
    BY <1>1, <1>7, <1>11 DEF Copied, Says
  <2> QED BY <1>1, <2>1 DEF IInv, KeptOk, Erasing
<1>15. ASSUME UserWaits PROVE GoneOk' /\ OldOk'
  <2>1. GoneOk /\ OldOk
    BY <1>15 DEF IInv
  <2>2. Gone' = Gone
    BY <1>1, <1>7 DEF Gone
  <2>3. GoneOk'
    BY <1>1, <1>3, <1>7, <2>1, <2>2 DEF GoneOk
  <2>4. old \subseteq Txs
    BY DEF IInv, TypeOK
  <2> QED BY <1>1, <1>3, <2>1, <2>3, <2>4 DEF OldOk
<1> QED BY <1>5, <1>6, <1>8, <1>10, <1>12, <1>13, <1>14, <1>15, Conjuncts

\* An answer: jobs are queued behind the others, and parked rows may be cleared.
Answering(t) ==
    /\ UNCHANGED <<stored, wallet, at, snap, held, key, spends, mined, ghosts>>
    /\ flow[t] = "sent" /\ flow'[t] # "new"
    /\ flow' \in [Txs -> {"new", "sent", "recording", "latching", "done"}]
    /\ outcome' \in [Txs -> {"none", "ok", "maybe", "duplicate", "refused"}]
    /\ \A u \in Txs \ {t} : flow'[u] = flow[u] /\ outcome'[u] = outcome[u]
    /\ pend' \in Seq(Parked) /\ (pend = <<>> => pend' = <<>>)
    /\ \A p \in ToSet(pend') : \E q \in ToSet(pend) : p.k = q.k /\ p.row.tx = q.row.tx
    /\ \A q \in ToSet(pend) : \E p \in ToSet(pend') :
          p.k = q.k /\ p.row.tx = q.row.tx /\ (p.row.maybe => q.row.maybe)
    /\ chain' \in Seq(Job) /\ Ordered(chain')
    /\ chain # <<>> => chain' # <<>> /\ Head(chain') = Head(chain)
    /\ ToSet(chain) \subseteq ToSet(chain')
    /\ \A x \in ToSet(chain') \ ToSet(chain) :
          /\ x.kind \in {"record", "clear", "drain"}
          /\ x.kind # "drain" => x.k = key[t]
          /\ x.kind = "record" => /\ x.tx = t /\ flow'[t] = "recording"
                                  /\ outcome'[t] = IF x.maybe THEN "maybe" ELSE "ok"
    /\ outcome'[t] = "ok" => \E x \in ToSet(chain') : x.kind = "record" /\ x.tx = t

LEMMA AnsweringKeeps ==
    ASSUME IInv, mishaps' \in 0..MaxMishaps, NEW t \in Txs, Answering(t)
    PROVE  IInv'
<1> USE DEF wallet, ghosts
<1>1. /\ UNCHANGED <<stored, wallet, at, snap, held, key, spends, mined, ghosts>>
      /\ \A u \in Txs : flow'[u] = "new" <=> flow[u] = "new"
      /\ key[t] \in Accounts
  BY DEF Answering, IInv, RowsOk
<1>2. TypeOK'
  BY <1>1 DEF Answering, IInv, TypeOK
<1>3. NoDuplicateRows'
  BY <1>1 DEF IInv, NoDuplicateRows
<1>4. Unpurged' = Unpurged /\ BeingFiled \subseteq BeingFiled'
  BY DEF Answering, Unpurged, BeingFiled
<1>5. WalletOk'
  <2>1. \A x \in ToSet(chain') : x \in ToSet(chain) \/ x.kind # "wipe"
    BY DEF Answering
  <2> QED BY <1>1, <1>4, <2>1 DEF IInv, WalletOk
<1>6. ChainOk'
  <2>1. ASSUME NEW x \in ToSet(chain) PROVE JobOk(x)'
    <3>1. JobOk(x)
      BY DEF IInv, ChainOk
    <3>2. x.kind = "record" => x.tx \in Txs \ {t}
      BY <3>1 DEF JobOk, Answering
    <3> QED BY <1>1, <3>1, <3>2 DEF JobOk, Answering
  <2>2. ASSUME NEW x \in ToSet(chain') \ ToSet(chain) PROVE JobOk(x)'
    <3>1. /\ x.kind \in {"record", "clear", "drain"} /\ (x.kind # "drain" => x.k = key[t])
          /\ x.kind = "record" => /\ x.tx = t /\ flow'[t] = "recording"
                                  /\ outcome'[t] = IF x.maybe THEN "maybe" ELSE "ok"
      BY DEF Answering
    <3> QED BY <1>1, <3>1 DEF JobOk, Edits
  <2>3. \A x \in ToSet(chain') : JobOk(x)'
    BY <2>1, <2>2
  <2> QED BY <2>3 DEF Answering, ChainOk
<1>7. HeadOk'
  BY <1>1 DEF Answering, IInv, HeadOk
<1>8. RowsOk'
  <2>1. \A u \in Txs : \A k : Belongs(u, k) => Belongs(u, k)'
    BY <1>1 DEF Belongs
  <2>2. ASSUME NEW p \in ToSet(pend') \cup ToSet(held) PROVE Belongs(p.row.tx, p.k)'
    <3>1. PICK q \in ToSet(pend) \cup ToSet(held) : p.k = q.k /\ p.row.tx = q.row.tx
      BY DEF Answering
    <3>2. Belongs(q.row.tx, q.k) /\ q.row.tx \in Txs
      BY Typing DEF IInv, RowsOk
    <3>3. Belongs(q.row.tx, q.k)'
      BY <2>1, <3>2
    <3> QED BY <3>1, <3>3
  <2>3. \A k \in Accounts : \A r \in ToSet(stored[k]) : Belongs(r.tx, k)'
    BY <2>1, Typing DEF IInv, RowsOk
  <2>4. \A u \in Txs : IF flow'[u] = "new" THEN u \notin filed ELSE key[u] \in Accounts
    BY <1>1 DEF IInv, RowsOk
  <2> QED BY <1>1, <2>2, <2>3, <2>4 DEF RowsOk
<1>9. ASSUME "resetFails" \notin Ops PROVE KeptOk'
  <2>1. (wiped => Erasing) /\ \A u \in filed \ excused : Copied(u)
    BY <1>9 DEF IInv, KeptOk
  <2>2. (wiped => Erasing)'
    BY <1>1, <2>1 DEF Erasing, Answering
  <2>3. ASSUME NEW u \in filed \ excused PROVE Copied(u)'
    <3>1. Copied(u) /\ u \in Txs
      BY <2>1 DEF IInv, TypeOK
    <3>2. CASE u \in BeingFiled
      BY <1>4, <3>2 DEF Copied
    <3>3. CASE u = t /\ outcome'[t] = "ok"
      BY <3>3 DEF Copied, BeingFiled, Answering
    <3>4. CASE u # t \/ outcome'[t] # "ok"
      <4>1. \A r : Says(u, r) => Says(u, r)'
        BY <3>1, <3>4 DEF Says, Answering
      <4>2. \A p \in ToSet(pend) : Says(u, p.row) => \E q \in ToSet(pend') : Says(u, q.row)
        BY DEF Says, Answering
      <4>3. ASSUME NEW p \in ToSet(pend), Says(u, p.row)
            PROVE  \E q \in ToSet(pend') : Says(u, q.row)'
        <5>1. PICK q \in ToSet(pend') : Says(u, q.row)
          BY <4>2, <4>3
        <5> QED BY <4>1, <5>1
      <4> QED BY <1>1, <1>4, <3>1, <4>1, <4>3 DEF Copied
    <3> QED BY <3>3, <3>4
  <2> QED BY <1>1, <2>2, <2>3 DEF KeptOk
<1>10. ASSUME UserWaits PROVE GoneOk' /\ OldOk'
  <2>1. GoneOk /\ OldOk
    BY <1>10 DEF IInv
  <2>2. Gone' = Gone /\ key[t] \notin Gone
    BY <1>1, <1>4, <2>1 DEF Gone, GoneOk, InWork, Answering
  <2>3. \A u \in Txs : flow'[u] \in InWork => flow[u] \in InWork
    BY DEF Answering, InWork
  <2>4. \A x \in ToSet(chain') : x.kind \in Edits \cup {"record"} => x.k \notin purged
    <3>1. \A x \in ToSet(chain') \ ToSet(chain) : x.kind \in Edits \cup {"record"} => x.k = key[t]
      BY DEF Answering, Edits
    <3> QED BY <2>1, <2>2, <3>1 DEF GoneOk, Gone
  <2>5. \A p \in ToSet(pend') \cup ToSet(held) : p.k \notin purged /\ p.row.tx \notin old
    <3>1. \A p \in ToSet(pend') \cup ToSet(held) : \E q \in ToSet(pend) \cup ToSet(held) :
              p.k = q.k /\ p.row.tx = q.row.tx
      BY DEF Answering
    <3> QED BY <2>1, <3>1 DEF GoneOk, OldOk
  <2>6. at = "write" => Head(chain') = Head(chain)
    BY DEF IInv, HeadOk, Answering
  <2>7. GoneOk'
    BY <1>1, <1>4, <2>1, <2>2, <2>3, <2>4, <2>5 DEF GoneOk
  <2>8. old \subseteq Txs
    BY DEF IInv, TypeOK
  <2> QED BY <1>1, <2>1, <2>3, <2>5, <2>6, <2>7, <2>8 DEF OldOk
<1> QED BY <1>2, <1>3, <1>5, <1>6, <1>7, <1>8, <1>9, <1>10, Conjuncts

LEMMA AnswerKeeps ==
    ASSUME IInv, mishaps' \in 0..MaxMishaps, NEW t \in Txs, Answer(t)
    PROVE  IInv'
<1> USE DEF wallet, ghosts
<1>1. PICK a \in {"ok", "maybe", "duplicate", "refused"} :
        /\ outcome' = [outcome EXCEPT ![t] = a]
        /\ a = "ok" => Record(t, FALSE)
        /\ a = "maybe" => Record(t, TRUE)
        /\ a = "duplicate" => /\ pend' = ClearParked(t)
                              /\ chain' = Append(chain, ClearJob(t))
                              /\ flow' = [flow EXCEPT ![t] = "done"]
        /\ a = "refused" => flow' = [flow EXCEPT ![t] = "done"] /\ UNCHANGED <<pend, chain>>
  BY DEF Answer
<1>2. /\ UNCHANGED <<stored, wallet, at, snap, held, key, spends, mined, ghosts>>
      /\ flow[t] = "sent"
  BY DEF Answer
<1>3. /\ outcome' \in [Txs -> {"none", "ok", "maybe", "duplicate", "refused"}]
      /\ outcome'[t] = a /\ \A u \in Txs \ {t} : outcome'[u] = outcome[u]
  BY <1>1 DEF IInv, TypeOK
<1>4. ASSUME NEW f \in {"recording", "done"}, flow' = [flow EXCEPT ![t] = f]
      PROVE  /\ flow' \in [Txs -> {"new", "sent", "recording", "latching", "done"}]
             /\ flow'[t] = f /\ \A u \in Txs \ {t} : flow'[u] = flow[u]
  BY <1>4 DEF IInv, TypeOK
<1>5. key[t] \in Accounts /\ (UserWaits => key[t] \notin Gone)
  BY <1>2 DEF IInv, RowsOk, GoneOk, InWork
<1>6. /\ chain \in Seq(Job) /\ Ordered(chain) /\ pend \in Seq(Parked)
      /\ \A x \in ToSet(chain) : JobOk(x)
  BY DEF IInv, TypeOK, ChainOk
<1>7. CASE a \in {"ok", "maybe"}
  <2> DEFINE b == a = "maybe"
             j == RecordJob(t, b)
             own == Append(chain, j)
  <2>1. Record(t, b) /\ b \in BOOLEAN
    BY <1>1, <1>7
  <2>2. /\ j \in Job /\ j.kind = "record" /\ j.k = key[t] /\ j.tx = t /\ j.maybe = b
    BY <1>5, <2>1 DEF RecordJob, Job
  <2>3. DrainJob \in Job /\ DrainJob.kind = "drain"
    BY DEF DrainJob, Job
  <2>4. /\ chain' = IF pend = <<>> THEN own ELSE Append(own, DrainJob)
        /\ flow' = [flow EXCEPT ![t] = "recording"] /\ pend' = pend
    BY <2>1 DEF Record
  <2>5. \A x \in ToSet(chain) : ~Clash(x, j)
    BY <1>2, <1>5, <1>6, <2>2 DEF Clash, JobOk, Gone, Unpurged, Edits
  <2>6. \A x : ~Clash(x, DrainJob)
    BY <2>3 DEF Clash, Edits
  <2> HIDE DEF j, b
  <2>7. /\ own \in Seq(Job) /\ own # <<>> /\ ToSet(own) = ToSet(chain) \cup {j} /\ Ordered(own)
        /\ chain # <<>> => Head(own) = Head(chain)
    BY <1>6, <2>2, <2>5, PushIs
  <2> HIDE DEF own
  <2>8. /\ Append(own, DrainJob) \in Seq(Job) /\ Append(own, DrainJob) # <<>>
        /\ ToSet(Append(own, DrainJob)) = ToSet(own) \cup {DrainJob}
        /\ Ordered(Append(own, DrainJob)) /\ Head(Append(own, DrainJob)) = Head(own)
    BY <2>3, <2>6, <2>7, PushIs
  <2>9. /\ chain' \in Seq(Job) /\ Ordered(chain') /\ chain' # <<>>
        /\ chain # <<>> => Head(chain') = Head(chain)
        /\ ToSet(chain) \cup {j} \subseteq ToSet(chain')
        /\ ToSet(chain') \subseteq ToSet(chain) \cup {j, DrainJob}
    BY <2>4, <2>7, <2>8
  <2>10. outcome'[t] = IF j.maybe THEN "maybe" ELSE "ok"
    BY <1>3, <1>7, <2>2 DEF b
  <2>11. /\ flow'[t] = "recording" /\ \A u \in Txs \ {t} : flow'[u] = flow[u]
         /\ flow' \in [Txs -> {"new", "sent", "recording", "latching", "done"}]
    BY <1>4, <2>4
  <2>12. \A x \in ToSet(chain') \ ToSet(chain) :
          /\ x.kind \in {"record", "clear", "drain"}
          /\ x.kind # "drain" => x.k = key[t]
          /\ x.kind = "record" => /\ x.tx = t /\ flow'[t] = "recording"
                                  /\ outcome'[t] = IF x.maybe THEN "maybe" ELSE "ok"
    BY <2>2, <2>3, <2>9, <2>10, <2>11
  <2>13. Answering(t)
    BY <1>2, <1>3, <1>6, <2>2, <2>4, <2>9, <2>11, <2>12 DEF Answering
  <2> QED BY <2>13, AnsweringKeeps
<1>8. CASE a = "duplicate"
  <2> DEFINE j == ClearJob(t)
  <2>1. j \in Job /\ j.kind = "clear" /\ j.k = key[t]
    BY <1>5 DEF ClearJob, Job
  <2>2. \A x \in ToSet(chain) : ~Clash(x, j)
    BY <1>5, <2>1 DEF Clash, Gone, Unpurged
  <2>3. chain' = Append(chain, j) /\ pend' = ClearParked(t) /\ flow' = [flow EXCEPT ![t] = "done"]
    BY <1>1, <1>8
  <2> HIDE DEF j
  <2>4. /\ chain' \in Seq(Job) /\ chain' # <<>> /\ ToSet(chain') = ToSet(chain) \cup {j}
        /\ Ordered(chain') /\ (chain # <<>> => Head(chain') = Head(chain))
    BY <1>6, <2>1, <2>2, <2>3, PushIs
  <2>5. /\ pend' \in Seq(Parked) /\ (pend = <<>> => pend' = <<>>)
        /\ \A p \in ToSet(pend') : \E q \in ToSet(pend) : p.k = q.k /\ p.row.tx = q.row.tx
        /\ \A q \in ToSet(pend) : \E p \in ToSet(pend') :
              p.k = q.k /\ p.row.tx = q.row.tx /\ (p.row.maybe => q.row.maybe)
    BY <1>6, <2>3, ClearParkedIs
  <2>6. /\ flow'[t] = "done" /\ \A u \in Txs \ {t} : flow'[u] = flow[u]
        /\ flow' \in [Txs -> {"new", "sent", "recording", "latching", "done"}]
    BY <1>4, <2>3
  <2>7. Answering(t)
    BY <1>2, <1>3, <1>8, <2>1, <2>4, <2>5, <2>6 DEF Answering
  <2> QED BY <2>7, AnsweringKeeps
<1>9. CASE a = "refused"
  <2>1. pend' = pend /\ chain' = chain /\ flow' = [flow EXCEPT ![t] = "done"]
    BY <1>1, <1>9
  <2>2. /\ flow'[t] = "done" /\ \A u \in Txs \ {t} : flow'[u] = flow[u]
        /\ flow' \in [Txs -> {"new", "sent", "recording", "latching", "done"}]
    BY <1>4, <2>1
  <2>3. Answering(t)
    BY <1>2, <1>3, <1>6, <1>9, <2>1, <2>2 DEF Answering
  <2> QED BY <2>3, AnsweringKeeps
<1> QED BY <1>7, <1>8, <1>9

\* The death of the worker keeps the store and nothing else.
LEMMA RestartKeeps ==
    ASSUME IInv, mishaps' \in 0..MaxMishaps, Restart
    PROVE  IInv'
<1>1. /\ UNCHANGED <<stored, exists, key, outcome, spends, mined, filed, purged, old>>
      /\ accounts' = accounts \cup Unpurged /\ active' \in {active} \cup Unpurged
      /\ unlocked' \in {FALSE, unlocked} /\ wiped' = FALSE /\ opening' = FALSE /\ resetting' = "no"
      /\ pend' = <<>> /\ chain' = <<>> /\ at' = "start" /\ snap' = <<>> /\ held' = <<>>
      /\ flow' = [t \in Txs |-> IF flow[t] = "new" THEN "new" ELSE "done"]
      /\ excused' = excused \cup InMemory \cup {t \in filed : t \notin TxsOf(stored[key[t]])}
  BY DEF Restart
<1>2. Unpurged \subseteq Accounts
  BY DEF IInv, ChainOk, JobOk, Unpurged
<1>3. ToSet(pend') = {} /\ ToSet(held') = {} /\ ToSet(chain') = {} /\ Unpurged' = {}
  BY <1>1, NoElems DEF Unpurged
<1>4. InMemory \subseteq Txs
  <2>1. BeingFiled \subseteq Txs
    BY DEF BeingFiled, IInv, ChainOk, JobOk
  <2>2. \A k \in Accounts : ParkedTxs(k) \subseteq Txs /\ HeldTxs(k) \subseteq Txs
    BY Typing DEF IInv, ParkedTxs, HeldTxs
  <2> QED BY <2>1, <2>2 DEF InMemory
<1>5. TypeOK'
  <2>1. /\ <<>> \in Seq(Row) /\ <<>> \in Seq(Parked) /\ <<>> \in Seq(Job)
    BY EmptySeq
  <2>2. /\ accounts' \subseteq Accounts /\ active' \in Accounts \cup {None} /\ unlocked' \in BOOLEAN
        /\ flow' \in [Txs -> {"new", "sent", "recording", "latching", "done"}]
        /\ excused' \subseteq Txs
    BY <1>1, <1>2, <1>4 DEF IInv, TypeOK
  <2> QED BY <1>1, <2>1, <2>2 DEF IInv, TypeOK
<1>6. NoDuplicateRows'
  BY <1>1 DEF IInv, NoDuplicateRows
<1>7. WalletOk'
  <2>1. unlocked' => unlocked
    BY <1>1
  <2>2. exists' => active' \in Accounts
    BY <1>1, <1>2 DEF IInv, WalletOk
  <2> QED BY <1>1, <1>3, <2>1, <2>2 DEF IInv, WalletOk
<1>8. ChainOk'
  BY <1>1, <1>3, EmptySeq, LenProperties DEF ChainOk, Ordered
<1>9. \A t \in Txs : flow'[t] = "new" <=> flow[t] = "new"
  BY <1>1
<1>10. HeadOk' /\ RowsOk'
  BY <1>1, <1>3, <1>9, Typing DEF HeadOk, RowsOk, Belongs, IInv
<1>11. "resetFails" \notin Ops => KeptOk'
  <2> SUFFICES ASSUME "resetFails" \notin Ops, NEW t \in filed, t \notin excused'
               PROVE  Copied(t)'
    BY <1>1 DEF KeptOk
  <2>1. Copied(t) /\ t \in Txs
    BY <1>1 DEF IInv, KeptOk, TypeOK
  <2>2. t \notin InMemory /\ t \in TxsOf(stored[key[t]]) /\ key[t] \in Accounts
    BY <1>1 DEF IInv, RowsOk, TypeOK
  <2>3. t \notin BeingFiled
    BY <2>2 DEF InMemory
  <2>4. \A p \in ToSet(pend) \cup ToSet(held) : p.row.tx # t
    <3>1. \A p \in ToSet(pend) \cup ToSet(held) :
             p.k \in Accounts /\ p.row.tx \in ParkedTxs(p.k) \cup HeldTxs(p.k)
      BY Typing DEF IInv, ParkedTxs, HeldTxs
    <3> QED BY <2>2, <3>1 DEF InMemory
  <2>5. \E r \in ToSet(stored[key[t]]) : Says(t, r)
    BY <2>1, <2>3, <2>4 DEF Copied, Says
  <2> QED BY <1>1, <2>5 DEF Copied, Says
<1>12. ASSUME UserWaits PROVE GoneOk' /\ OldOk'
  <2>1. GoneOk /\ OldOk
    BY <1>12 DEF IInv
  <2>2. Gone' = purged
    BY <1>1, <1>3 DEF Gone
  <2>3. \A t \in Txs : flow'[t] \notin InWork
    BY <1>1 DEF InWork
  <2>4. GoneOk'
    BY <1>1, <1>3, <2>1, <2>2, <2>3 DEF GoneOk, Gone
  <2>5. old \subseteq Txs
    BY DEF IInv, TypeOK
  <2> QED BY <1>1, <1>3, <2>1, <2>3, <2>4, <2>5 DEF OldOk
<1> QED BY <1>5, <1>6, <1>7, <1>8, <1>10, <1>11, <1>12, Conjuncts

-----------------------------------------------------------------------------
(* The head of the chain *)

\* What FinishJob does to the queue, to the flows and to what is filed.
LEMMA Popped ==
    ASSUME IInv, chain # <<>>, FinishJob
    PROVE  /\ Head(chain) \in Job /\ Head(chain) \in ToSet(chain) /\ JobOk(Head(chain))
           /\ chain' \in Seq(Job) /\ ToSet(chain) = {Head(chain)} \cup ToSet(chain')
           /\ Ordered(chain') /\ \A x \in ToSet(chain') : ~Clash(Head(chain), x)
           /\ \A x \in ToSet(chain') : x.kind # "wipe" \/ wallet' = wallet => JobOk(x)'
           /\ at' = "start" /\ snap' = <<>> /\ held' = <<>> /\ ToSet(held') = {}
           /\ flow' \in [Txs -> {"new", "sent", "recording", "latching", "done"}]
           /\ \A t \in Txs : flow'[t] = "new" <=> flow[t] = "new"
           /\ \A t \in Txs : flow'[t] \in InWork => flow[t] \in InWork
           /\ filed' = filed \cup (IF Head(chain).kind = "record" THEN {Head(chain).tx} ELSE {})
           /\ filed' \subseteq Txs /\ \A t \in filed' : flow[t] # "new"
<1> DEFINE j == Head(chain)
<1>1. /\ j \in Job /\ j \in ToSet(chain) /\ chain' = Tail(chain) /\ chain' \in Seq(Job)
      /\ ToSet(chain) = {j} \cup ToSet(chain')
  BY HeadIs DEF IInv, TypeOK, FinishJob
<1>2. Ordered(chain') /\ \A x \in ToSet(chain') : ~Clash(j, x)
  BY <1>1, PopIs DEF IInv, TypeOK, ChainOk
<1>3. /\ JobOk(j) /\ \A x \in ToSet(chain') : JobOk(x)
  BY <1>1 DEF IInv, ChainOk
<1>4. /\ at' = "start" /\ snap' = <<>> /\ held' = <<>> /\ UNCHANGED <<key, outcome>>
      /\ j.kind = "record" => /\ flow' = [flow EXCEPT ![j.tx] =
                                      IF @ = "recording" THEN AfterRecord(j.tx) ELSE @]
                              /\ filed' = filed \cup {j.tx}
      /\ j.kind # "record" => UNCHANGED <<flow, filed>>
  BY DEF FinishJob
<1>5. ToSet(held') = {}
  BY <1>4, NoElems
<1>6. /\ flow' \in [Txs -> {"new", "sent", "recording", "latching", "done"}]
      /\ \A t \in Txs : flow'[t] = flow[t] \/ (j.kind = "record" /\ t = j.tx)
      /\ j.kind = "record" => j.tx \in Txs /\ flow'[j.tx] \in {"latching", "done"}
  <2>1. flow \in [Txs -> {"new", "sent", "recording", "latching", "done"}]
    BY DEF IInv, TypeOK
  <2>2. CASE j.kind = "record"
    <3>1. j.tx \in Txs /\ flow[j.tx] = "recording" /\ AfterRecord(j.tx) \in {"latching", "done"}
      BY <1>3, <2>2 DEF JobOk, AfterRecord
    <3>2. flow' = [flow EXCEPT ![j.tx] = AfterRecord(j.tx)]
      BY <1>4, <2>1, <2>2, <3>1
    <3> HIDE DEF j
    <3> QED BY <2>1, <2>2, <3>1, <3>2
  <2> QED BY <1>4, <2>1, <2>2
<1>7. j.kind = "record" => j.tx \in Txs /\ flow[j.tx] = "recording"
  BY <1>3 DEF JobOk
<1> HIDE DEF j
<1>8. /\ \A t \in Txs : flow'[t] = "new" <=> flow[t] = "new"
      /\ \A t \in Txs : flow'[t] \in InWork => flow[t] \in InWork
  BY <1>6, <1>7 DEF InWork
<1>9. filed' \subseteq Txs /\ \A t \in filed' : flow[t] # "new"
  BY <1>4, <1>7 DEF IInv, TypeOK, RowsOk
<1>10. ASSUME NEW x \in ToSet(chain') PROVE x.kind = "record" => flow'[x.tx] = flow[x.tx]
  <2>1. ~Clash(j, x) /\ JobOk(x)
    BY <1>2, <1>3
  <2> QED BY <1>6, <2>1 DEF Clash, JobOk
<1>11. \A x \in ToSet(chain') : x.kind # "wipe" \/ wallet' = wallet => JobOk(x)'
  BY <1>3, <1>4, <1>10 DEF JobOk, wallet
<1>12. filed' = filed \cup (IF j.kind = "record" THEN {j.tx} ELSE {})
  BY <1>4
<1>13. /\ at' = "start" /\ snap' = <<>> /\ held' = <<>>
       /\ flow' \in [Txs -> {"new", "sent", "recording", "latching", "done"}]
  BY <1>4, <1>6
<1> QED BY <1>1, <1>2, <1>3, <1>5, <1>8, <1>9, <1>11, <1>12, <1>13 DEF j

\* A step of the head that leaves the wallet alone: it is done, or goes on.
Moved ==
    /\ UNCHANGED <<wallet, key, outcome, spends, mined>> /\ chain # <<>>
    /\ UNCHANGED <<chain, flow, filed>> \/ FinishJob

LEMMA MovedIs ==
    ASSUME IInv, Moved
    PROVE  /\ WalletOk' /\ ChainOk' /\ chain' \in Seq(Job) /\ Unpurged' \subseteq Unpurged
           /\ ToSet(chain') \subseteq ToSet(chain)
           /\ flow' \in [Txs -> {"new", "sent", "recording", "latching", "done"}]
           /\ \A t \in Txs : flow'[t] = "new" <=> flow[t] = "new"
           /\ \A t \in Txs : flow'[t] \in InWork => flow[t] \in InWork
           /\ filed' \subseteq Txs /\ \A t \in filed' : flow[t] # "new"
<1> USE DEF wallet
<1>1. UNCHANGED <<wallet, key, outcome>>
  BY DEF Moved
<1>2. CASE UNCHANGED <<chain, flow, filed>>
  <2>1. WalletOk' /\ Unpurged' = Unpurged
    BY <1>1, <1>2 DEF IInv, WalletOk, Unpurged
  <2>2. ChainOk'
    BY <1>1, <1>2 DEF IInv, ChainOk, JobOk
  <2>3. filed \subseteq Txs /\ \A t \in filed : flow[t] # "new"
    BY DEF IInv, TypeOK, RowsOk
  <2> QED BY <1>2, <2>1, <2>2, <2>3 DEF IInv, TypeOK
<1>3. CASE FinishJob
  <2>1. chain # <<>>
    BY DEF Moved
  <2>2. /\ chain' \in Seq(Job) /\ ToSet(chain') \subseteq ToSet(chain)
        /\ Ordered(chain') /\ \A x \in ToSet(chain') : JobOk(x)'
    BY <1>1, <1>3, <2>1, Popped
  <2>3. Unpurged' \subseteq Unpurged
    BY <2>2 DEF Unpurged
  <2>4. WalletOk'
    BY <1>1, <2>2, <2>3 DEF IInv, WalletOk
  <2>5. ChainOk'
    BY <2>2 DEF ChainOk
  <2> QED BY <1>3, <2>1, <2>2, <2>3, <2>4, <2>5, Popped
<1> QED BY <1>2, <1>3 DEF Moved

\* Where the rows of a transaction may stand.
Fits(t, k) == Belongs(t, k) /\ (UserWaits => k \notin purged /\ t \notin old)
ListFits(h, k) == /\ h \in Seq(Row) /\ Len(h) <= MaxRows /\ Unique(h)
                  /\ \A r \in ToSet(h) : Fits(r.tx, k)
ParkedFit(q) == q \in Seq(Parked) /\ \A p \in ToSet(q) : Fits(p.row.tx, p.k)

LEMMA FitsNow ==
    ASSUME IInv
    PROVE  /\ \A k \in Accounts : ListFits(stored[k], k)
           /\ ParkedFit(pend) /\ ParkedFit(held)
<1>1. UserWaits => GoneOk /\ OldOk
  BY DEF IInv
<1>2. \A p \in ToSet(pend) \cup ToSet(held) : Fits(p.row.tx, p.k)
  BY <1>1 DEF IInv, RowsOk, Fits, GoneOk, OldOk
<1>3. ASSUME NEW k \in Accounts, NEW r \in ToSet(stored[k]) PROVE Fits(r.tx, k)
  <2>1. Belongs(r.tx, k)
    BY DEF IInv, RowsOk
  <2>2. UserWaits => r.tx \notin old
    BY <1>1 DEF OldOk
  <2>3. UserWaits => k \notin purged
    BY <1>1, NoElems DEF GoneOk
  <2> QED BY <2>1, <2>2, <2>3 DEF Fits
<1>4. \A k \in Accounts : stored[k] \in Seq(Row) /\ Len(stored[k]) <= MaxRows /\ Unique(stored[k])
  BY DEF IInv, TypeOK, NoDuplicateRows, Unique
<1>5. pend \in Seq(Parked) /\ held \in Seq(Parked)
  BY DEF IInv, TypeOK
<1> QED BY <1>2, <1>3, <1>4, <1>5 DEF ListFits, ParkedFit

LEMMA Nothing == ASSUME NEW h \in Seq(Row), ToSet(h) = {} PROVE h = <<>>
<1>1. Len(h) \in Nat /\ DOMAIN h = 1..Len(h) /\ \A i \in DOMAIN h : h[i] \in ToSet(h)
  BY RowsIn
<1>2. Len(h) # 0 => 1 \in DOMAIN h
  BY <1>1
<1>3. Len(h) = 0
  BY <1>1, <1>2
<1> QED BY <1>3, EmptySeq

\* What a step of the head must see to, for the invariant to hold after it.
LEMMA RunKeeps ==
    ASSUME IInv, mishaps' \in 0..MaxMishaps, Moved, UNCHANGED <<purged, old>>,
           stored' \in [Accounts -> Seq(Row)], \A k \in Accounts : ListFits(stored'[k], k),
           ParkedFit(pend'), ParkedFit(held'), snap' \in Seq(Row), at' \in {"start", "next", "write"},
           excused' \subseteq Txs, HeadOk',
           UserWaits /\ at' = "write" /\ Head(chain').kind = "record" => Head(chain').tx \notin old,
           "resetFails" \notin Ops => /\ chain' = chain \/ Head(chain).kind # "wipe"
                                     /\ \A t \in filed' \ excused' : Copied(t)'
    PROVE  IInv'
<1> USE DEF wallet
<1>1. /\ UNCHANGED <<wallet, key, outcome, spends, mined, purged, old>>
      /\ WalletOk' /\ ChainOk' /\ chain' \in Seq(Job) /\ Unpurged' \subseteq Unpurged
      /\ ToSet(chain') \subseteq ToSet(chain)
      /\ flow' \in [Txs -> {"new", "sent", "recording", "latching", "done"}]
      /\ \A t \in Txs : flow'[t] = "new" <=> flow[t] = "new"
      /\ \A t \in Txs : flow'[t] \in InWork => flow[t] \in InWork
      /\ filed' \subseteq Txs /\ \A t \in filed' : flow[t] # "new"
  BY MovedIs DEF Moved
<1>2. /\ \A k \in Accounts : stored'[k] \in Seq(Row) /\ Len(stored'[k]) <= MaxRows
      /\ pend' \in Seq(Parked) /\ held' \in Seq(Parked)
  BY DEF ListFits, ParkedFit
<1>3. TypeOK'
  BY <1>1, <1>2 DEF IInv, TypeOK
<1>4. NoDuplicateRows'
  BY DEF ListFits, Unique, NoDuplicateRows
<1>5. /\ \A p \in ToSet(pend') \cup ToSet(held') : Fits(p.row.tx, p.k)
      /\ \A k \in Accounts : \A r \in ToSet(stored'[k]) : Fits(r.tx, k)
  BY DEF ListFits, ParkedFit
<1>6. RowsOk'
  <2>1. \A t \in Txs : \A k : Belongs(t, k) => Belongs(t, k)'
    BY <1>1 DEF Belongs
  <2>2. /\ \A p \in ToSet(pend') \cup ToSet(held') : p.row.tx \in Txs
        /\ \A k \in Accounts : \A r \in ToSet(stored'[k]) : r.tx \in Txs
    <3>1. /\ ToSet(pend') \subseteq Parked /\ ToSet(held') \subseteq Parked
          /\ \A k \in Accounts : ToSet(stored'[k]) \subseteq Row
      BY <1>2, ElemsTyped
    <3> QED BY <3>1 DEF Parked, Row
  <2>3. /\ \A p \in ToSet(pend') \cup ToSet(held') : Belongs(p.row.tx, p.k)'
        /\ \A k \in Accounts : \A r \in ToSet(stored'[k]) : Belongs(r.tx, k)'
    BY <1>5, <2>1, <2>2 DEF Fits
  <2>4. \A t \in Txs : IF flow'[t] = "new" THEN t \notin filed' ELSE key'[t] \in Accounts
    BY <1>1 DEF IInv, RowsOk
  <2> QED BY <2>3, <2>4 DEF RowsOk
<1>7. ASSUME "resetFails" \notin Ops PROVE KeptOk'
  <2>1. wiped => Erasing
    BY <1>7 DEF IInv, KeptOk
  <2>2. \A x \in ToSet(chain) : x.kind = "wipe" => x \in ToSet(chain')
    <3>1. CASE chain' = chain
      BY <3>1
    <3>2. CASE FinishJob /\ Head(chain).kind # "wipe"
      BY <3>2, Popped DEF Moved
    <3> QED BY <1>7, <3>1, <3>2 DEF Moved
  <2>3. Erasing => Erasing'
    BY <1>1, <2>2 DEF Erasing
  <2> QED BY <1>1, <1>7, <2>1, <2>3 DEF KeptOk
<1>8. ASSUME UserWaits PROVE GoneOk' /\ OldOk'
  <2>1. GoneOk /\ OldOk
    BY <1>8 DEF IInv
  <2>2. Gone' \subseteq Gone
    BY <1>1 DEF Gone
  <2>3. \A k \in purged : stored'[k] = <<>>
    <3>1. \A k \in purged : k \in Accounts
      BY DEF IInv, TypeOK
    <3>2. \A k \in purged : ToSet(stored'[k]) = {}
      BY <1>5, <1>8, <3>1 DEF Fits
    <3> QED BY <1>2, <3>1, <3>2, Nothing
  <2>4. \A p \in ToSet(pend') \cup ToSet(held') : p.k \notin purged /\ p.row.tx \notin old
    BY <1>5, <1>8 DEF Fits
  <2>5. GoneOk'
    BY <1>1, <2>1, <2>2, <2>3, <2>4 DEF GoneOk
  <2>6. \A k \in Accounts : \A r \in ToSet(stored'[k]) : r.tx \notin old
    BY <1>5, <1>8 DEF Fits
  <2>7. old \subseteq Txs
    BY DEF IInv, TypeOK
  <2> QED BY <1>1, <1>8, <2>1, <2>4, <2>5, <2>6, <2>7 DEF OldOk
<1> QED BY <1>1, <1>3, <1>4, <1>6, <1>7, <1>8, Conjuncts

\* What is known of the job at the head, and of its transaction if it is a record.
LEMMA HeadJob ==
    ASSUME IInv, chain # <<>>
    PROVE  /\ Head(chain) \in Job /\ Head(chain) \in ToSet(chain) /\ JobOk(Head(chain))
           /\ at = "start" => held = <<>> /\ ToSet(held) = {}
           /\ Head(chain).kind = "record" =>
                 /\ Head(chain).tx \in BeingFiled /\ Head(chain).tx \in Txs
                 /\ Head(chain).k \in Accounts
                 /\ NewRow(Head(chain).tx, Head(chain).maybe) \in Row
                 /\ Says(Head(chain).tx, NewRow(Head(chain).tx, Head(chain).maybe))
                 /\ unlocked \/ ~wiped \/ at = "write" => Fits(Head(chain).tx, Head(chain).k)
<1> DEFINE j == Head(chain)
<1>1. j \in Job /\ j \in ToSet(chain) /\ JobOk(j)
  BY HeadIs DEF IInv, TypeOK, ChainOk
<1>2. at = "start" => held = <<>> /\ ToSet(held) = {}
  BY NoElems DEF IInv, HeadOk
<1>3. ASSUME j.kind = "record"
      PROVE  /\ j.tx \in BeingFiled /\ j.tx \in Txs /\ j.k \in Accounts
             /\ key[j.tx] = j.k /\ flow[j.tx] = "recording" /\ j.maybe \in BOOLEAN
             /\ outcome[j.tx] = IF j.maybe THEN "maybe" ELSE "ok"
  BY <1>1, <1>3 DEF JobOk, BeingFiled, Edits, Job
<1>4. ASSUME j.kind = "record"
      PROVE  NewRow(j.tx, j.maybe) \in Row /\ Says(j.tx, NewRow(j.tx, j.maybe))
  BY <1>3, <1>4 DEF NewRow, Row, Says
<1>5. ASSUME j.kind = "record", unlocked \/ ~wiped \/ at = "write" PROVE Fits(j.tx, j.k)
  <2>1. Belongs(j.tx, j.k)
    BY <1>3, <1>5 DEF Belongs
  <2>2. ASSUME UserWaits PROVE j.k \notin purged /\ j.tx \notin old
    <3>1. GoneOk /\ OldOk /\ (unlocked => exists)
      BY <2>2 DEF IInv, WalletOk
    <3>2. j.k \notin purged
      BY <1>1, <1>5, <3>1 DEF GoneOk
    <3>3. j.tx \notin old
      BY <1>3, <1>5, <3>1 DEF OldOk, InWork
    <3> QED BY <3>2, <3>3
  <2> QED BY <2>1, <2>2 DEF Fits
<1> QED BY <1>1, <1>2, <1>3, <1>4, <1>5

LEMMA StillFiling ==
    ASSUME IInv, Moved, NEW t \in BeingFiled,
           chain' = chain \/ Head(chain).kind # "record" \/ Head(chain).tx # t
    PROVE  t \in BeingFiled'
<1>1. PICK x \in ToSet(chain) : x.kind = "record" /\ x.tx = t
  BY DEF BeingFiled
<1>2. x \in ToSet(chain')
  BY <1>1, Popped DEF Moved
<1> QED BY <1>1, <1>2 DEF BeingFiled

\* A copy stays a copy, unless the step takes it away.
LEMMA StillCopied ==
    ASSUME IInv, Moved, NEW t \in filed \ excused, Copied(t),
           chain' = chain \/ Head(chain).kind # "record" \/ Head(chain).tx # t,
           \A p \in ToSet(pend) \cup ToSet(held) : Says(t, p.row) =>
               \/ \E q \in ToSet(pend') \cup ToSet(held') : q.row = p.row
               \/ \E r \in ToSet(stored'[key[t]]) : Says(t, r),
           \A r \in ToSet(stored[key[t]]) : Says(t, r) =>
               \E s \in ToSet(stored'[key[t]]) : s.tx = t /\ (s.maybe => r.maybe)
    PROVE  Copied(t)'
<1>1. \A r : Says(t, r) => Says(t, r)'
  BY DEF Says, Moved
<1>2. key' = key
  BY DEF Moved
<1>3. CASE t \in BeingFiled
  BY <1>3, StillFiling DEF Copied
<1>4. CASE \E r \in ToSet(stored'[key[t]]) : Says(t, r)
  BY <1>1, <1>2, <1>4 DEF Copied
<1>5. CASE \E r \in ToSet(stored[key[t]]) : Says(t, r)
  <2>1. \E r \in ToSet(stored'[key[t]]) : Says(t, r)
    BY <1>5 DEF Says
  <2> QED BY <1>4, <2>1
<1>6. CASE \E p \in ToSet(pend) \cup ToSet(held) : Says(t, p.row)
  <2>1. \/ \E q \in ToSet(pend') \cup ToSet(held') : Says(t, q.row)
        \/ \E r \in ToSet(stored'[key[t]]) : Says(t, r)
    BY <1>6
  <2> QED BY <1>1, <1>4, <2>1 DEF Copied
<1> QED BY <1>3, <1>5, <1>6 DEF Copied

LEMMA StoredAsIs ==
    ASSUME IInv, UNCHANGED stored
    PROVE  /\ stored' \in [Accounts -> Seq(Row)] /\ \A k \in Accounts : ListFits(stored'[k], k)
  BY FitsNow DEF IInv, TypeOK

LEMMA StartRecordKeeps ==
    ASSUME IInv, mishaps' \in 0..MaxMishaps, StartRecord
    PROVE  IInv'
<1> DEFINE j == Head(chain)
<1>1. /\ chain # <<>> /\ at = "start" /\ j.kind = "record"
      /\ UNCHANGED <<stored, wallet, purged, old>>
  BY DEF StartRecord
<1>2. /\ JobOk(j) /\ held = <<>> /\ ToSet(held) = {} /\ j.tx \in BeingFiled /\ j.tx \in Txs
      /\ j.k \in Accounts /\ NewRow(j.tx, j.maybe) \in Row /\ Says(j.tx, NewRow(j.tx, j.maybe))
      /\ unlocked \/ ~wiped => Fits(j.tx, j.k)
  BY <1>1, HeadJob
<1>3. pend \in Seq(Parked) /\ held \in Seq(Parked) /\ excused \subseteq Txs
  BY DEF IInv, TypeOK
<1>4. ASSUME "resetFails" \notin Ops PROVE (wiped => Erasing) /\ \A t \in filed \ excused : Copied(t)
  BY <1>4 DEF IInv, KeptOk
<1>5. /\ ParkedFit(pend) /\ ParkedFit(held)
      /\ stored' \in [Accounts -> Seq(Row)] /\ \A k \in Accounts : ListFits(stored'[k], k)
  BY <1>1, FitsNow, StoredAsIs
<1>6. CASE unlocked
  <2>1. /\ pend' = Superseded(j) /\ at' = "write" /\ snap' = stored[j.k]
        /\ UNCHANGED <<chain, held, flows, filed, excused>>
    BY <1>6 DEF StartRecord
  <2>2. Moved
    BY <1>1, <2>1 DEF Moved, flows
  <2>3. pend' \in Seq(Parked) /\ ToSet(pend') = {p \in ToSet(pend) : ~Twin(p, j)}
    BY <1>3, <2>1, SupersededIs
  <2>4. ParkedFit(pend') /\ ParkedFit(held')
    BY <1>5, <2>1, <2>3 DEF ParkedFit
  <2>5. snap' \in Seq(Row)
    BY <1>2, <2>1 DEF IInv, TypeOK
  <2>6. HeadOk'
    BY <1>1, <1>2, <2>1 DEF HeadOk, Edits
  <2>7. j.tx \notin old \/ ~UserWaits
    BY <1>2, <1>6 DEF Fits
  <2>8. ASSUME "resetFails" \notin Ops, NEW t \in filed' \ excused' PROVE Copied(t)'
    <3>1. t \in filed \ excused /\ Copied(t)
      BY <1>4, <2>1, <2>8
    <3>2. CASE t = j.tx
      BY <1>2, <2>2, <2>1, <3>1, <3>2, StillFiling DEF Copied
    <3>3. CASE t # j.tx
      <4>1. \A p \in ToSet(pend) : Says(t, p.row) => p \in ToSet(pend')
        BY <2>3, <3>3 DEF Says, Twin
      <4> QED BY <1>1, <2>1, <2>2, <3>1, <4>1, StillCopied DEF Says
    <3> QED BY <3>2, <3>3
  <2> QED BY <1>1, <1>3, <1>5, <2>1, <2>2, <2>4, <2>5, <2>6, <2>7, <2>8, RunKeeps
<1>7. CASE ~unlocked
  <2>1. /\ pend' = ParkUnlessWiped(j) /\ FinishJob
        /\ excused' = excused \cup (IF wiped /\ Erasing THEN {j.tx} ELSE {})
    BY <1>7 DEF StartRecord
  <2>2. Moved
    BY <1>1, <2>1 DEF Moved, FinishJob
  <2>3. /\ at' = "start" /\ snap' = <<>> /\ held' = <<>> /\ ToSet(held') = {}
        /\ filed' = filed \cup {j.tx}
    BY <1>1, <2>1, Popped
  <2> DEFINE p == [k |-> j.k, row |-> NewRow(j.tx, j.maybe)]
  <2>4. p \in Parked /\ p.k = j.k /\ p.row = NewRow(j.tx, j.maybe) /\ p.row.tx = j.tx
    BY <1>2 DEF Parked, NewRow
  <2>5. /\ wiped => pend' = pend
        /\ ~wiped => pend' = Append(pend, p)
    BY <2>1 DEF ParkUnlessWiped, ParkRow
  <2> HIDE DEF p
  <2>6. Append(pend, p) \in Seq(Parked) /\ ToSet(Append(pend, p)) = ToSet(pend) \cup {p}
    BY <1>3, <2>4, ElemsAppend
  <2>7. ParkedFit(pend') /\ ParkedFit(held')
    <3>1. ParkedFit(Append(pend, p)) \/ wiped
      BY <1>2, <1>5, <2>4, <2>6 DEF ParkedFit
    <3>2. ParkedFit(held')
      BY <2>3, EmptySeq DEF ParkedFit
    <3> QED BY <1>5, <2>5, <3>1, <3>2
  <2>8. HeadOk'
    BY <2>3 DEF HeadOk
  <2>9. excused' \subseteq Txs /\ snap' \in Seq(Row)
    BY <1>2, <1>3, <2>1, <2>3, EmptySeq
  <2>10. ASSUME "resetFails" \notin Ops, NEW t \in filed' \ excused' PROVE Copied(t)'
    <3>1. CASE t = j.tx
      <4>1. ~wiped
        BY <1>4, <2>1, <2>10, <3>1
      <4>2. p \in ToSet(pend') /\ Says(t, p.row)
        BY <1>2, <2>4, <2>5, <2>6, <3>1, <4>1
      <4> QED BY <2>2, <4>2 DEF Copied, Says, Moved
    <3>2. CASE t # j.tx
      <4>1. t \in filed \ excused /\ Copied(t)
        BY <1>4, <2>1, <2>3, <2>10, <3>2
      <4>2. ToSet(pend) \subseteq ToSet(pend')
        BY <2>5, <2>6
      <4> QED BY <1>1, <1>2, <2>2, <3>2, <4>1, <4>2, StillCopied DEF Says
    <3> QED BY <3>1, <3>2
  <2> QED BY <1>1, <1>5, <2>2, <2>3, <2>7, <2>8, <2>9, <2>10, RunKeeps
<1> QED BY <1>6, <1>7

\* The head ends, or goes on to a later step, without touching a row.
LEMMA IdleKeeps ==
    ASSUME IInv, mishaps' \in 0..MaxMishaps, chain # <<>>,
           UNCHANGED <<stored, wallet, pend, excused, purged, old>>,
           FinishJob, held = <<>>, Head(chain).kind # "record",
           Head(chain).kind # "wipe" \/ "resetFails" \in Ops
    PROVE  IInv'
<1>1. Moved
  BY DEF Moved, FinishJob
<1>2. at' = "start" /\ snap' = <<>> /\ held' = <<>> /\ filed' = filed
  BY Popped
<1>3. /\ ParkedFit(pend') /\ ParkedFit(held') /\ snap' \in Seq(Row)
  BY <1>2, FitsNow, EmptySeq
<1>4. HeadOk'
  BY <1>2 DEF HeadOk
<1>5. ASSUME "resetFails" \notin Ops, NEW t \in filed' \ excused' PROVE Copied(t)'
  <2>1. t \in filed \ excused /\ Copied(t)
    BY <1>2, <1>5 DEF IInv, KeptOk
  <2>2. \A p \in ToSet(pend) \cup ToSet(held) : p \in ToSet(pend') \cup ToSet(held')
    BY <1>2
  <2> QED BY <1>1, <2>1, <2>2, StillCopied DEF Says
<1>6. excused' \subseteq Txs
  BY DEF IInv, TypeOK
<1> QED BY <1>1, <1>2, <1>3, <1>4, <1>5, <1>6, StoredAsIs, RunKeeps

\* The head reads the list it will write.
LEMMA ReadingKeeps ==
    ASSUME IInv, mishaps' \in 0..MaxMishaps, chain # <<>>,
           UNCHANGED <<stored, wallet, pend, excused, purged, old, chain, held, flows, filed>>,
           at' = "write", NEW k \in Accounts, snap' = stored[k],
           \/ Head(chain).kind \in Edits /\ Head(chain).k = k /\ held = <<>>
           \/ Head(chain).kind = "drain" /\ held # <<>> /\ Head(held).k = k
    PROVE  IInv'
<1>1. Moved
  BY DEF Moved, flows
<1>2. ParkedFit(pend') /\ ParkedFit(held')
  BY FitsNow
<1>3. HeadOk'
  BY DEF HeadOk, Edits
<1>4. ASSUME "resetFails" \notin Ops, NEW t \in filed' \ excused' PROVE Copied(t)'
  <2>1. t \in filed \ excused /\ Copied(t)
    BY <1>4 DEF IInv, KeptOk
  <2> QED BY <1>1, <2>1, StillCopied DEF Says
<1>5. excused' \subseteq Txs /\ snap' \in Seq(Row)
  BY DEF IInv, TypeOK
<1>6. Head(chain').kind # "record"
  BY DEF Edits
<1> QED BY <1>1, <1>2, <1>3, <1>4, <1>5, <1>6, StoredAsIs, RunKeeps

LEMMA StartEditKeeps ==
    ASSUME IInv, mishaps' \in 0..MaxMishaps, StartEdit
    PROVE  IInv'
<1>1. /\ chain # <<>> /\ at = "start" /\ Head(chain).kind \in Edits /\ held = <<>>
      /\ UNCHANGED <<stored, wallet, pend, excused, purged, old>>
      /\ Head(chain).k \in Accounts
  BY HeadJob DEF StartEdit, Edits, JobOk
<1>2. CASE unlocked
  BY <1>1, <1>2, ReadingKeeps DEF StartEdit, Edits
<1>3. CASE ~unlocked
  <2>1. FinishJob
    BY <1>3 DEF StartEdit
  <2>2. Head(chain).kind # "record" /\ Head(chain).kind # "wipe"
    BY <1>1 DEF Edits
  <2> QED BY <1>1, <2>1, <2>2, IdleKeeps
<1> QED BY <1>2, <1>3

LEMMA StartDrainKeeps ==
    ASSUME IInv, mishaps' \in 0..MaxMishaps, StartDrain
    PROVE  IInv'
<1>1. /\ chain # <<>> /\ at = "start" /\ Head(chain).kind = "drain"
      /\ held = <<>> /\ ToSet(held) = {}
      /\ UNCHANGED <<stored, wallet, excused, purged, old>>
  BY HeadJob DEF StartDrain
<1>2. CASE unlocked
  <2>1. held' = pend /\ pend' = <<>> /\ at' = "next" /\ UNCHANGED <<chain, snap, flows, filed>>
    BY <1>2 DEF StartDrain
  <2>2. Moved
    BY <1>1, <2>1 DEF Moved, flows
  <2>3. ParkedFit(pend') /\ ParkedFit(held') /\ snap' \in Seq(Row) /\ excused' \subseteq Txs
    <3>1. ParkedFit(pend) /\ ParkedFit(held)
      BY FitsNow
    <3> QED BY <1>1, <2>1, <3>1 DEF IInv, TypeOK
  <2>4. HeadOk'
    BY <1>1, <2>1 DEF HeadOk
  <2>5. ASSUME "resetFails" \notin Ops, NEW t \in filed' \ excused' PROVE Copied(t)'
    <3>1. t \in filed \ excused /\ Copied(t)
      BY <1>1, <2>1, <2>5 DEF IInv, KeptOk
    <3>2. \A p \in ToSet(pend) \cup ToSet(held) : p \in ToSet(held')
      BY <1>1, <2>1
    <3> QED BY <1>1, <2>1, <2>2, <3>1, <3>2, StillCopied DEF Says
  <2> QED BY <1>1, <2>1, <2>2, <2>3, <2>4, <2>5, StoredAsIs, RunKeeps
<1>3. CASE ~unlocked
  <2>1. FinishJob /\ UNCHANGED pend
    BY <1>3 DEF StartDrain
  <2> QED BY <1>1, <2>1, IdleKeeps
<1> QED BY <1>2, <1>3

LEMMA DrainNextKeeps ==
    ASSUME IInv, mishaps' \in 0..MaxMishaps, DrainNext
    PROVE  IInv'
<1>1. /\ chain # <<>> /\ Head(chain).kind = "drain"
      /\ UNCHANGED <<stored, wallet, pend, excused, purged, old>>
  BY DEF DrainNext, IInv, HeadOk
<1>2. CASE held = <<>>
  BY <1>1, <1>2, IdleKeeps DEF DrainNext
<1>3. CASE held # <<>>
  <2>1. at' = "write" /\ snap' = stored[Head(held).k] /\ UNCHANGED <<chain, held, flows, filed>>
    BY <1>3 DEF DrainNext
  <2>2. Head(held).k \in Accounts
    <3>1. Head(held) \in Parked
      BY <1>3, HeadIs DEF IInv, TypeOK
    <3> QED BY <3>1 DEF Parked
  <2> QED BY <1>1, <1>3, <2>1, <2>2, ReadingKeeps
<1> QED BY <1>2, <1>3

LEMMA StartDeleteKeeps ==
    ASSUME IInv, mishaps' \in 0..MaxMishaps, StartDelete
    PROVE  IInv'
<1> DEFINE j == Head(chain)
<1>1. /\ chain # <<>> /\ at = "start" /\ j.kind \in {"purge", "wipe"} /\ pend' = KeptAfter(j)
      /\ excused' = excused \cup {t \in filed : j.kind = "wipe" \/ key[t] = j.k}
      /\ at' = "write" /\ UNCHANGED <<stored, wallet, chain, snap, held, flows, filed, purged, old>>
  BY DEF StartDelete
<1>2. held = <<>> /\ ToSet(held) = {}
  BY <1>1, HeadJob
<1>3. Moved
  BY <1>1 DEF Moved, flows
<1>4. pend \in Seq(Parked) /\ snap' \in Seq(Row) /\ excused' \subseteq Txs /\ key' = key
  BY <1>1 DEF IInv, TypeOK, flows
<1>5. /\ pend' \in Seq(Parked)
      /\ ToSet(pend') = {p \in ToSet(pend) : j.kind # "wipe" /\ p.k # j.k}
      /\ j.kind = "wipe" => pend' = <<>>
  BY <1>1, <1>4, KeptAfterIs
<1>6. ParkedFit(pend') /\ ParkedFit(held')
  <2>1. ParkedFit(pend) /\ ParkedFit(held)
    BY FitsNow
  <2> QED BY <1>1, <1>5, <2>1 DEF ParkedFit
<1>7. HeadOk'
  BY <1>1, <1>2, <1>4, <1>5 DEF HeadOk, Edits
<1>8. ASSUME "resetFails" \notin Ops, NEW t \in filed' \ excused' PROVE Copied(t)'
  <2>1. t \in filed \ excused /\ Copied(t) /\ j.kind # "wipe" /\ key[t] # j.k
    BY <1>1, <1>8 DEF IInv, KeptOk
  <2>2. ASSUME NEW p \in ToSet(pend), Says(t, p.row) PROVE p \in ToSet(pend')
    <3>1. key[t] = p.k
      BY <2>2 DEF IInv, RowsOk, Belongs, Says
    <3> QED BY <1>5, <2>1, <3>1
  <2> QED BY <1>1, <1>2, <1>3, <2>1, <2>2, StillCopied DEF Says
<1>9. at' = "write" /\ Head(chain').kind # "record"
  BY <1>1
<1> QED BY <1>1, <1>3, <1>4, <1>6, <1>7, <1>8, <1>9, StoredAsIs, RunKeeps

-----------------------------------------------------------------------------
(* Writing and deleting *)

\* What a later state of the store has not undone.
NoneUnconfirmed ==
    \A k \in Accounts : \A m \in DOMAIN stored[k] : \A n \in DOMAIN stored'[k] :
        stored[k][m].tx = stored'[k][n].tx /\ stored[k][m].confirmed => stored'[k][n].confirmed

\* A write of a row, by a record or by a drain.
LEMMA Written ==
    ASSUME IInv, NEW k \in Accounts, NEW row \in Row, snap = stored[k], Fits(row.tx, k),
           WriteRow(k, row)
    PROVE  /\ stored' \in [Accounts -> Seq(Row)] /\ \A u \in Accounts : ListFits(stored'[u], u)
           /\ excused' \subseteq Txs /\ excused \subseteq excused'
           /\ \E r \in ToSet(stored'[k]) : r.tx = row.tx /\ (row.maybe \/ ~r.maybe)
           /\ \A u \in Accounts : \A r \in ToSet(stored[u]) : r.tx \notin excused' =>
                 \E s \in ToSet(stored'[u]) : s.tx = r.tx /\ (s.maybe => r.maybe)
           /\ NoneUnconfirmed
<1> DEFINE h == stored[k]
           f == Filed(h, row)
<1>1. /\ stored' = [stored EXCEPT ![k] = f]
      /\ excused' = excused \cup (TxsOf(h) \ TxsOf(f))
  BY DEF WriteRow
<1>2. /\ h \in Seq(Row) /\ Len(h) <= MaxRows /\ Unique(h) /\ \A r \in ToSet(h) : Fits(r.tx, k)
  BY FitsNow DEF ListFits
<1>3. stored \in [Accounts -> Seq(Row)] /\ excused \subseteq Txs
  BY DEF IInv, TypeOK
<1>4. \A r \in ToSet(h) : r \in Row /\ r.tx \in TxsOf(h)
  BY <1>2, RowsIn
<1>5. /\ f \in Seq(Row) /\ Len(f) <= MaxRows /\ Unique(f)
      /\ \A r \in ToSet(f) : r.tx = row.tx \/ \E s \in ToSet(h) : r.tx = s.tx
      /\ \E r \in ToSet(f) : r.tx = row.tx /\ (row.maybe \/ ~r.maybe)
      /\ \A s \in ToSet(h) : s.tx \in TxsOf(f) =>
            \E r \in ToSet(f) : r.tx = s.tx /\ (r.maybe => s.maybe)
      /\ \A m \in DOMAIN h : \A n \in DOMAIN f :
            h[m].tx = f[n].tx /\ h[m].confirmed => f[n].confirmed
  BY <1>2, FiledKeeps
<1> HIDE DEF h, f
<1>6. ListFits(f, k)
  BY <1>2, <1>5 DEF ListFits
<1>7. /\ stored' \in [Accounts -> Seq(Row)] /\ stored'[k] = f
      /\ \A u \in Accounts \ {k} : stored'[u] = stored[u]
  BY <1>1, <1>3, <1>5
<1>8. \A u \in Accounts : ListFits(stored'[u], u)
  BY <1>6, <1>7, FitsNow
<1>9. excused' \subseteq Txs
  <2>1. \A r \in ToSet(h) : r.tx \in Txs
    BY <1>4 DEF Row
  <2>2. TxsOf(h) \subseteq Txs
    BY <1>2, <2>1, RowsIn
  <2> QED BY <1>1, <1>3, <2>2
<1>10. ASSUME NEW u \in Accounts, NEW r \in ToSet(stored[u]), r.tx \notin excused'
       PROVE  \E s \in ToSet(stored'[u]) : s.tx = r.tx /\ (s.maybe => r.maybe)
  <2>1. CASE u = k
    <3>1. r \in ToSet(h)
      BY <2>1 DEF h
    <3>2. r.tx \in TxsOf(f)
      BY <1>1, <1>4, <1>10, <3>1
    <3> QED BY <1>5, <1>7, <2>1, <3>1, <3>2
  <2>2. CASE u # k
    BY <1>7, <2>2
  <2> QED BY <2>1, <2>2
<1>11. ASSUME NEW u \in Accounts, NEW m \in DOMAIN stored[u], NEW n \in DOMAIN stored'[u],
              stored[u][m].tx = stored'[u][n].tx, stored[u][m].confirmed
       PROVE  stored'[u][n].confirmed
  <2>1. CASE u = k
    BY <1>5, <1>7, <1>11, <2>1 DEF h
  <2>2. CASE u # k
    <3>1. Unique(stored[u]) /\ stored'[u] = stored[u]
      BY <1>7, <2>2, FitsNow DEF ListFits
    <3>2. m = n
      BY <1>11, <3>1 DEF Unique
    <3> QED BY <1>11, <3>1, <3>2
  <2> QED BY <2>1, <2>2
<1> QED BY <1>1, <1>5, <1>7, <1>8, <1>9, <1>10, <1>11 DEF NoneUnconfirmed

LEMMA WriteRecordKeeps ==
    ASSUME IInv, mishaps' \in 0..MaxMishaps, WriteRecord
    PROVE  IInv' /\ NoneUnconfirmed
<1> DEFINE j == Head(chain)
           row == NewRow(j.tx, j.maybe)
<1>1. /\ at = "write" /\ j.kind = "record" /\ chain # <<>> /\ snap = stored[j.k] /\ held = <<>>
      /\ WriteRow(j.k, row) /\ FinishJob /\ UNCHANGED <<wallet, pend, purged, old>>
  BY DEF WriteRecord, IInv, HeadOk, Edits
<1>2. j.k \in Accounts /\ row \in Row /\ j.tx \in Txs /\ Says(j.tx, row) /\ Fits(j.tx, j.k)
  BY <1>1, HeadJob
<1>3. row.tx = j.tx
  BY DEF NewRow
<1> HIDE DEF row
<1>4. /\ stored' \in [Accounts -> Seq(Row)] /\ \A u \in Accounts : ListFits(stored'[u], u)
      /\ excused' \subseteq Txs /\ excused \subseteq excused'
      /\ \E r \in ToSet(stored'[j.k]) : r.tx = row.tx /\ (row.maybe \/ ~r.maybe)
      /\ \A u \in Accounts : \A r \in ToSet(stored[u]) : r.tx \notin excused' =>
            \E s \in ToSet(stored'[u]) : s.tx = r.tx /\ (s.maybe => r.maybe)
      /\ NoneUnconfirmed
  BY <1>1, <1>2, <1>3, Written
<1>5. Moved
  BY <1>1 DEF Moved, FinishJob
<1>6. at' = "start" /\ snap' = <<>> /\ held' = <<>> /\ filed' = filed \cup {j.tx}
  BY <1>1, Popped
<1>7. ParkedFit(pend') /\ ParkedFit(held') /\ snap' \in Seq(Row) /\ HeadOk'
  BY <1>1, <1>6, FitsNow, EmptySeq DEF HeadOk
<1>8. ASSUME "resetFails" \notin Ops, NEW t \in filed' \ excused' PROVE Copied(t)'
  <2>1. CASE t = j.tx
    <3>1. PICK r \in ToSet(stored'[j.k]) : r.tx = row.tx /\ (row.maybe \/ ~r.maybe)
      BY <1>4
    <3>2. Says(t, r) /\ key[t] = j.k
      BY <1>2, <1>3, <2>1, <3>1 DEF Says, Fits, Belongs
    <3> QED BY <1>5, <3>1, <3>2 DEF Copied, Says, Moved
  <2>2. CASE t # j.tx
    <3>1. t \in filed \ excused /\ Copied(t) /\ key[t] \in Accounts
      BY <1>4, <1>6, <1>8, <2>2 DEF IInv, KeptOk, TypeOK, RowsOk
    <3>2. \A p \in ToSet(pend) \cup ToSet(held) : p \in ToSet(pend') \cup ToSet(held')
      BY <1>1, <1>6
    <3>3. ASSUME NEW r \in ToSet(stored[key[t]]), Says(t, r)
          PROVE  \E s \in ToSet(stored'[key[t]]) : s.tx = t /\ (s.maybe => r.maybe)
      <4>1. r.tx = t /\ t \notin excused'
        BY <1>8, <3>3 DEF Says
      <4> QED BY <1>4, <3>1, <4>1
    <3> QED BY <1>5, <2>2, <3>1, <3>2, <3>3, StillCopied
  <2> QED BY <2>1, <2>2
<1>9. IInv'
  BY <1>1, <1>4, <1>5, <1>6, <1>7, <1>8, RunKeeps
<1> QED BY <1>4, <1>9

LEMMA WriteDrainedKeeps ==
    ASSUME IInv, mishaps' \in 0..MaxMishaps, WriteDrained
    PROVE  IInv' /\ NoneUnconfirmed
<1> DEFINE p == Head(held)
<1>1. /\ at = "write" /\ Head(chain).kind = "drain" /\ chain # <<>>
      /\ held # <<>> /\ snap = stored[p.k]
      /\ WriteRow(p.k, p.row) /\ held' = Tail(held) /\ at' = "next" /\ snap' = <<>>
      /\ UNCHANGED <<wallet, pend, chain, flows, filed, purged, old>>
  BY DEF WriteDrained, IInv, HeadOk
<1>2. /\ p \in ToSet(held) /\ p \in Parked /\ held' \in Seq(Parked)
      /\ ToSet(held) = {p} \cup ToSet(held')
  BY <1>1, HeadIs DEF IInv, TypeOK
<1>3. p.k \in Accounts /\ p.row \in Row
  BY <1>2 DEF Parked
<1>4. ParkedFit(pend) /\ ParkedFit(held) /\ Fits(p.row.tx, p.k)
  BY <1>2, FitsNow DEF ParkedFit
<1> HIDE DEF p
<1>5. /\ stored' \in [Accounts -> Seq(Row)] /\ \A u \in Accounts : ListFits(stored'[u], u)
      /\ excused' \subseteq Txs /\ excused \subseteq excused'
      /\ \E r \in ToSet(stored'[p.k]) : r.tx = p.row.tx /\ (p.row.maybe \/ ~r.maybe)
      /\ \A u \in Accounts : \A r \in ToSet(stored[u]) : r.tx \notin excused' =>
            \E s \in ToSet(stored'[u]) : s.tx = r.tx /\ (s.maybe => r.maybe)
      /\ NoneUnconfirmed
  BY <1>1, <1>3, <1>4, Written
<1>6. Moved
  BY <1>1 DEF Moved, flows
<1>7. ParkedFit(pend') /\ ParkedFit(held') /\ snap' \in Seq(Row)
  BY <1>1, <1>2, <1>4, EmptySeq DEF ParkedFit
<1>8. HeadOk'
  BY <1>1 DEF HeadOk
<1>9. ASSUME "resetFails" \notin Ops, NEW t \in filed' \ excused' PROVE Copied(t)'
  <2>1. t \in filed \ excused /\ Copied(t) /\ key[t] \in Accounts
    BY <1>1, <1>5, <1>9 DEF IInv, KeptOk, TypeOK, RowsOk
  <2>2. ASSUME Says(t, p.row) PROVE \E r \in ToSet(stored'[key[t]]) : Says(t, r)
    <3>1. p.row.tx = t /\ key[t] = p.k
      BY <1>4, <2>2 DEF Says, Fits, Belongs
    <3> QED BY <1>5, <2>2, <3>1 DEF Says
  <2>3. \A q \in ToSet(pend) \cup ToSet(held) : q = p \/ q \in ToSet(pend') \cup ToSet(held')
    BY <1>1, <1>2
  <2>4. \A r \in ToSet(stored[key[t]]) : Says(t, r) =>
             \E s \in ToSet(stored'[key[t]]) : s.tx = t /\ (s.maybe => r.maybe)
    BY <1>5, <1>9, <2>1 DEF Says
  <2> QED BY <1>1, <1>6, <2>1, <2>2, <2>3, <2>4, StillCopied
<1>10. at' = "next" /\ chain' = chain
  BY <1>1
<1>11. IInv'
  BY <1>1, <1>5, <1>6, <1>7, <1>8, <1>9, <1>10, RunKeeps
<1> QED BY <1>5, <1>11

LEMMA WriteEditKeeps ==
    ASSUME IInv, mishaps' \in 0..MaxMishaps, WriteEdit
    PROVE  IInv' /\ NoneUnconfirmed
<1> DEFINE j == Head(chain)
           k == j.k
           h == stored[k]
           f == Edited(h, j)
<1>1. /\ at = "write" /\ j.kind \in Edits /\ chain # <<>> /\ snap = h /\ held = <<>>
      /\ stored' = [stored EXCEPT ![k] = Edited(snap, j)] /\ FinishJob
      /\ UNCHANGED <<wallet, pend, excused, purged, old>>
  BY DEF WriteEdit, IInv, HeadOk, Edits
<1>2. j \in Job /\ k \in Accounts /\ j.kind # "record" /\ j.kind # "wipe"
  BY <1>1, HeadJob DEF JobOk, Edits
<1>3. /\ h \in Seq(Row) /\ Len(h) <= MaxRows /\ Unique(h) /\ \A r \in ToSet(h) : Fits(r.tx, k)
      /\ DOMAIN h = 1..Len(h) /\ \A r \in ToSet(h) : \E i \in DOMAIN h : r = h[i]
      /\ \A i \in DOMAIN h : h[i] \in ToSet(h)
  BY <1>2, FitsNow, RowsIn DEF ListFits
<1>4. /\ f \in Seq(Row) /\ Len(f) = Len(h) /\ DOMAIN f = DOMAIN h
      /\ \A i \in DOMAIN h : /\ f[i].tx = h[i].tx
                             /\ f[i].maybe => h[i].maybe
                             /\ h[i].confirmed => f[i].confirmed
  BY <1>1, <1>2, <1>3, EditedKeeps
<1>5. /\ \A r \in ToSet(f) : \E i \in DOMAIN h : r = f[i]
      /\ \A i \in DOMAIN h : f[i] \in ToSet(f)
  BY <1>4 DEF ToSet
<1>6. /\ stored' \in [Accounts -> Seq(Row)] /\ stored'[k] = f
      /\ \A u \in Accounts \ {k} : stored'[u] = stored[u]
  <2>1. stored \in [Accounts -> Seq(Row)] /\ stored' = [stored EXCEPT ![k] = f]
    BY <1>1 DEF IInv, TypeOK
  <2> HIDE DEF f, k, h
  <2> QED BY <1>2, <1>4, <2>1
<1> HIDE DEF f, h, k, j
<1>7. ListFits(f, k)
  BY <1>3, <1>4, <1>5 DEF ListFits, Unique
<1>8. \A u \in Accounts : ListFits(stored'[u], u)
  BY <1>6, <1>7, FitsNow
<1>9. ASSUME NEW u \in Accounts, NEW r \in ToSet(stored[u])
      PROVE  \E s \in ToSet(stored'[u]) : s.tx = r.tx /\ (s.maybe => r.maybe)
  <2>1. CASE u = k
    <3>1. PICK i \in DOMAIN h : r = h[i]
      BY <1>3, <2>1 DEF h
    <3>2. f[i] \in ToSet(f) /\ f[i].tx = r.tx /\ (f[i].maybe => r.maybe)
      BY <1>4, <1>5, <3>1
    <3> QED BY <1>6, <2>1, <3>2
  <2>2. CASE u # k
    BY <1>6, <2>2
  <2> QED BY <2>1, <2>2
<1>10. NoneUnconfirmed
  <2> SUFFICES ASSUME NEW u \in Accounts, NEW m \in DOMAIN stored[u], NEW n \in DOMAIN stored'[u],
                      stored[u][m].tx = stored'[u][n].tx, stored[u][m].confirmed
               PROVE  stored'[u][n].confirmed
    BY DEF NoneUnconfirmed
  <2>1. CASE u = k
    <3>1. m \in DOMAIN h /\ n \in DOMAIN h /\ h[m].tx = h[n].tx
      BY <1>4, <1>6, <2>1 DEF h
    <3>2. m = n
      BY <1>3, <3>1 DEF Unique
    <3> QED BY <1>4, <1>6, <2>1, <3>1, <3>2 DEF h
  <2>2. CASE u # k
    <3>1. Unique(stored[u]) /\ stored'[u] = stored[u]
      BY <1>6, <2>2, FitsNow DEF ListFits
    <3> QED BY <3>1 DEF Unique
  <2> QED BY <2>1, <2>2
<1>11. Moved
  BY <1>1 DEF Moved, FinishJob
<1>12. at' = "start" /\ snap' = <<>> /\ held' = <<>> /\ filed' = filed
  BY <1>1, <1>2, Popped DEF j
<1>13. /\ ParkedFit(pend') /\ ParkedFit(held') /\ snap' \in Seq(Row) /\ HeadOk'
       /\ excused' \subseteq Txs
  BY <1>1, <1>12, FitsNow, EmptySeq DEF HeadOk, IInv, TypeOK
<1>14. ASSUME "resetFails" \notin Ops, NEW t \in filed' \ excused' PROVE Copied(t)'
  <2>1. t \in filed \ excused /\ Copied(t) /\ key[t] \in Accounts
    BY <1>1, <1>12, <1>14 DEF IInv, KeptOk, TypeOK, RowsOk
  <2>2. \A p \in ToSet(pend) \cup ToSet(held) : p \in ToSet(pend') \cup ToSet(held')
    BY <1>1, <1>12
  <2>3. \A r \in ToSet(stored[key[t]]) : Says(t, r) =>
             \E s \in ToSet(stored'[key[t]]) : s.tx = t /\ (s.maybe => r.maybe)
    BY <1>9, <2>1 DEF Says
  <2> QED BY <1>2, <1>11, <2>1, <2>2, <2>3, StillCopied DEF j
<1>15. IInv'
  BY <1>1, <1>2, <1>6, <1>8, <1>11, <1>12, <1>13, <1>14, RunKeeps DEF j
<1> QED BY <1>10, <1>15

LEMMA EmptyFits ==
    ASSUME NEW k PROVE ListFits(<<>>, k) /\ <<>> \in Seq(Row)
<1>1. <<>> \in Seq(Row) /\ Len(<<>>) = 0 /\ DOMAIN <<>> = {}
  BY EmptySeq, LenProperties
<1> QED BY <1>1, NoElems, HistoryAssumption DEF ListFits, Unique

\* The store with some lists erased.
Emptied(ks) == [k \in Accounts |-> IF k \in ks THEN <<>> ELSE stored[k]]

LEMMA EmptiedIs ==
    ASSUME IInv, NEW ks, stored' = Emptied(ks)
    PROVE  /\ stored' \in [Accounts -> Seq(Row)] /\ \A k \in Accounts : ListFits(stored'[k], k)
           /\ \A k \in Accounts : IF k \in ks THEN stored'[k] = <<>> /\ ToSet(stored'[k]) = {}
                                              ELSE stored'[k] = stored[k]
           /\ NoneUnconfirmed
<1>1. \A k \in Accounts : IF k \in ks THEN stored'[k] = <<>> /\ ToSet(stored'[k]) = {}
                                      ELSE stored'[k] = stored[k]
  BY NoElems DEF Emptied
<1>2. \A k \in Accounts : ListFits(stored'[k], k) /\ stored'[k] \in Seq(Row)
  BY <1>1, FitsNow, EmptyFits DEF ListFits
<1>3. stored' \in [Accounts -> Seq(Row)]
  BY <1>2 DEF Emptied
<1>4. NoneUnconfirmed
  <2> SUFFICES ASSUME NEW u \in Accounts, NEW m \in DOMAIN stored[u], NEW n \in DOMAIN stored'[u],
                      stored[u][m].tx = stored'[u][n].tx, stored[u][m].confirmed
               PROVE  stored'[u][n].confirmed
    BY DEF NoneUnconfirmed
  <2>1. u \notin ks /\ stored'[u] = stored[u]
    BY <1>1, EmptySeq, LenProperties
  <2>2. Unique(stored[u])
    BY FitsNow DEF ListFits
  <2> QED BY <2>1, <2>2 DEF Unique
<1> QED BY <1>1, <1>2, <1>3, <1>4

LEMMA SameConfirmed == ASSUME IInv, UNCHANGED stored PROVE NoneUnconfirmed
<1>1. \A k \in Accounts : Unique(stored[k])
  BY FitsNow DEF ListFits
<1> QED BY <1>1 DEF Unique, NoneUnconfirmed

\* A row is parked by the job at the head, which ends or goes on with a drain.
LEMMA ParkingKeeps ==
    ASSUME IInv, mishaps' \in 0..MaxMishaps, Moved, NEW p \in Parked, Fits(p.row.tx, p.k),
           UNCHANGED <<stored, wallet, excused, purged, old>>, pend' = Append(pend, p),
           ParkedFit(held'), snap' \in Seq(Row), at' \in {"start", "next"}, HeadOk',
           chain' = chain \/ Head(chain).kind # "wipe",
           \A q \in ToSet(held) : q = p \/ q \in ToSet(held'),
           \A t \in filed' : \/ t \in filed /\ (chain' = chain \/ Head(chain).kind # "record"
                                                 \/ Head(chain).tx # t)
                             \/ Says(t, p.row)
    PROVE  IInv'
<1>1. pend \in Seq(Parked) /\ excused' \subseteq Txs /\ ParkedFit(pend)
  BY FitsNow DEF IInv, TypeOK
<1>2. pend' \in Seq(Parked) /\ ToSet(pend') = ToSet(pend) \cup {p}
  BY <1>1, ElemsAppend
<1>3. ParkedFit(pend')
  BY <1>1, <1>2 DEF ParkedFit
<1>4. ASSUME "resetFails" \notin Ops, NEW t \in filed' \ excused' PROVE Copied(t)'
  <2>1. CASE Says(t, p.row)
    BY <1>2, <2>1 DEF Copied, Says, Moved
  <2>2. CASE ~Says(t, p.row)
    <3>1. /\ t \in filed \ excused /\ Copied(t)
          /\ chain' = chain \/ Head(chain).kind # "record" \/ Head(chain).tx # t
      BY <1>4, <2>2 DEF IInv, KeptOk
    <3>2. \A q \in ToSet(pend) \cup ToSet(held) : q \in ToSet(pend') \cup ToSet(held')
      BY <1>2
    <3> QED BY <3>1, <3>2, StillCopied DEF Says
  <2> QED BY <2>1, <2>2
<1> QED BY <1>1, <1>3, <1>4, StoredAsIs, RunKeeps

LEMMA StoreFailsKeeps ==
    ASSUME IInv, mishaps' \in 0..MaxMishaps, StoreFails
    PROVE  IInv' /\ NoneUnconfirmed
<1> DEFINE j == Head(chain)
<1>1. at = "write" /\ chain # <<>> /\ UNCHANGED <<wallet, excused, purged, old>>
  BY DEF StoreFails, IInv, HeadOk
<1>2. JobOk(j) /\ pend \in Seq(Parked) /\ <<>> \in Seq(Row) /\ excused \subseteq Txs
  BY <1>1, HeadJob, EmptySeq DEF IInv, TypeOK
<1>3. /\ held # <<>> => j.kind = "drain"
      /\ j.kind = "drain" => held # <<>>
  BY <1>1 DEF IInv, HeadOk
<1>4. CASE j.kind = "record" /\ pend' = ParkRow(j) /\ FinishJob /\ UNCHANGED stored
  <2> DEFINE p == [k |-> j.k, row |-> NewRow(j.tx, j.maybe)]
  <2>1. /\ j.k \in Accounts /\ NewRow(j.tx, j.maybe) \in Row /\ Says(j.tx, NewRow(j.tx, j.maybe))
        /\ Fits(j.tx, j.k)
    BY <1>1, <1>4, HeadJob
  <2>2. p \in Parked /\ p.row = NewRow(j.tx, j.maybe) /\ p.row.tx = j.tx /\ p.k = j.k
    BY <2>1 DEF Parked, NewRow
  <2>3. pend' = Append(pend, p)
    BY <1>4 DEF ParkRow
  <2> HIDE DEF p
  <2>4. at' = "start" /\ snap' = <<>> /\ held' = <<>> /\ filed' = filed \cup {j.tx} /\ held = <<>>
    BY <1>1, <1>3, <1>4, Popped
  <2>5. Moved
    BY <1>1, <1>4 DEF Moved, FinishJob
  <2>6. ParkedFit(held') /\ HeadOk'
    BY <2>4, FitsNow DEF HeadOk
  <2>7. \A t \in filed' : (t \in filed /\ j.tx # t) \/ Says(t, p.row)
    BY <2>1, <2>2, <2>4
  <2> QED BY <1>1, <1>2, <1>4, <2>1, <2>2, <2>3, <2>4, <2>5, <2>6, <2>7, ParkingKeeps, SameConfirmed
<1>5. CASE /\ j.kind = "drain" /\ Park(Head(held)) /\ held' = Tail(held) /\ at' = "next"
           /\ snap' = <<>> /\ UNCHANGED <<stored, chain, flows, filed>>
  <2> DEFINE p == Head(held)
  <2>1. p \in ToSet(held) /\ p \in Parked /\ ToSet(held) = {p} \cup ToSet(held')
        /\ held' \in Seq(Parked)
    BY <1>3, <1>5, HeadIs DEF IInv, TypeOK
  <2>2. Fits(p.row.tx, p.k) /\ ParkedFit(held')
    BY <2>1, FitsNow DEF ParkedFit
  <2>3. pend' = Append(pend, p)
    BY <1>5 DEF Park
  <2>4. HeadOk'
    BY <1>1, <1>5 DEF HeadOk
  <2>5. Moved
    BY <1>1, <1>5 DEF Moved, flows
  <2>6. \A q \in ToSet(held) : q = p \/ q \in ToSet(held')
    BY <2>1
  <2>7. chain' = chain /\ filed' = filed /\ snap' \in Seq(Row) /\ at' = "next"
    BY <1>2, <1>5
  <2> HIDE DEF p
  <2> QED BY <1>1, <1>5, <2>1, <2>2, <2>3, <2>4, <2>5, <2>6, <2>7, ParkingKeeps, SameConfirmed
<1>6. CASE j.kind \in {"clear", "latch", "settle", "purge"} /\ FinishJob /\ UNCHANGED <<stored, pend>>
  <2>1. j.kind # "record" /\ j.kind # "wipe" /\ held = <<>>
    BY <1>3, <1>6
  <2> QED BY <1>1, <1>6, <2>1, IdleKeeps, SameConfirmed
<1>7. CASE /\ j.kind = "wipe" /\ "resetFails" \in Ops
           /\ \E s \in SUBSET j.ks : stored' = Emptied(s)
           /\ FinishJob /\ UNCHANGED pend
  <2>1. PICK s \in SUBSET j.ks : stored' = Emptied(s)
    BY <1>7
  <2>2. /\ stored' \in [Accounts -> Seq(Row)] /\ \A k \in Accounts : ListFits(stored'[k], k)
        /\ NoneUnconfirmed
    BY <2>1, EmptiedIs
  <2>3. Moved
    BY <1>1, <1>7 DEF Moved, FinishJob
  <2>4. at' = "start" /\ snap' = <<>> /\ held' = <<>> /\ held = <<>>
    BY <1>1, <1>3, <1>7, Popped
  <2>5. ParkedFit(pend') /\ ParkedFit(held') /\ HeadOk'
    BY <1>7, <2>4, FitsNow DEF HeadOk
  <2> QED BY <1>1, <1>2, <1>7, <2>2, <2>3, <2>4, <2>5, RunKeeps
<1>8. ASSUME \E s \in SUBSET j.ks : stored' = [k \in Accounts |-> IF k \in s THEN <<>> ELSE stored[k]]
      PROVE  \E s \in SUBSET j.ks : stored' = Emptied(s)
  BY <1>8 DEF Emptied
<1> QED BY <1>4, <1>5, <1>6, <1>7, <1>8 DEF StoreFails

\* A removal ends: nothing of the account is left, and nothing behind writes its list.
LEMMA PurgeKeeps ==
    ASSUME IInv, mishaps' \in 0..MaxMishaps, at = "write", Head(chain).kind = "purge",
           stored' = [stored EXCEPT ![Head(chain).k] = <<>>],
           purged' = purged \cup {Head(chain).k},
           UNCHANGED <<wallet, old, pend, excused>>, FinishJob
    PROVE  IInv' /\ NoneUnconfirmed
<1> USE DEF wallet
<1> DEFINE k == Head(chain).k
<1>1. /\ chain # <<>> /\ held = <<>>
      /\ \A p \in ToSet(pend) : p.k # k
      /\ \A t \in filed : key[t] = k => t \in excused
  BY DEF IInv, HeadOk
<1>2. k \in Accounts /\ k \in Unpurged
  BY <1>1, HeadJob DEF JobOk, Unpurged
<1>3. Moved
  BY <1>1 DEF Moved, FinishJob
<1>4. /\ WalletOk' /\ ChainOk' /\ chain' \in Seq(Job) /\ Unpurged' \subseteq Unpurged
      /\ flow' \in [Txs -> {"new", "sent", "recording", "latching", "done"}]
      /\ \A t \in Txs : flow'[t] = "new" <=> flow[t] = "new"
      /\ \A t \in Txs : flow'[t] \in InWork => flow[t] \in InWork
  BY <1>3, MovedIs
<1>5. /\ ToSet(chain') \subseteq ToSet(chain)
      /\ \A x \in ToSet(chain') : ~Clash(Head(chain), x)
      /\ at' = "start" /\ snap' = <<>> /\ held' = <<>> /\ ToSet(held') = {} /\ filed' = filed
      /\ \A x \in ToSet(chain) : x.kind # "purge" => x \in ToSet(chain')
      /\ UNCHANGED <<key, outcome, spends, mined>>
  BY <1>1, Popped DEF FinishJob
<1>6. stored' = Emptied({k})
  BY DEF Emptied, IInv, TypeOK
<1>7. /\ stored' \in [Accounts -> Seq(Row)] /\ \A u \in Accounts : ListFits(stored'[u], u)
      /\ stored'[k] = <<>> /\ \A u \in Accounts \ {k} : stored'[u] = stored[u]
      /\ \A u \in Accounts : ToSet(stored'[u]) \subseteq ToSet(stored[u])
      /\ NoneUnconfirmed
  BY <1>2, <1>6, EmptiedIs
<1> HIDE DEF k
<1>8. TypeOK'
  <2>1. /\ \A u \in Accounts : Len(stored'[u]) <= MaxRows
        /\ snap' \in Seq(Row) /\ held' \in Seq(Parked) /\ purged' \subseteq Accounts
    BY <1>2, <1>5, <1>7, EmptySeq DEF IInv, TypeOK, ListFits, k
  <2> QED BY <1>4, <1>5, <1>7, <2>1 DEF IInv, TypeOK
<1>9. NoDuplicateRows'
  BY <1>7 DEF ListFits, Unique, NoDuplicateRows
<1>10. HeadOk'
  BY <1>5 DEF HeadOk
<1>11. RowsOk'
  <2>1. \A t \in Txs : \A u : Belongs(t, u) => Belongs(t, u)'
    BY <1>4, <1>5 DEF Belongs
  <2>2. \A p \in ToSet(pend') \cup ToSet(held') : Belongs(p.row.tx, p.k)'
    BY <1>5, <2>1, Typing DEF IInv, RowsOk
  <2>3. \A u \in Accounts : \A r \in ToSet(stored'[u]) : Belongs(r.tx, u)'
    BY <1>7, <2>1, Typing DEF IInv, RowsOk
  <2>4. \A t \in Txs : IF flow'[t] = "new" THEN t \notin filed' ELSE key'[t] \in Accounts
    BY <1>4, <1>5 DEF IInv, RowsOk
  <2> QED BY <2>2, <2>3, <2>4 DEF RowsOk
<1>12. ASSUME "resetFails" \notin Ops PROVE KeptOk'
  <2>1. (wiped => Erasing) /\ \A t \in filed \ excused : Copied(t)
    BY <1>12 DEF IInv, KeptOk
  <2>2. Erasing => Erasing'
    BY <1>5 DEF Erasing
  <2>3. ASSUME NEW t \in filed \ excused PROVE Copied(t)'
    <3>1. Copied(t) /\ key[t] \in Accounts \ {k}
      BY <1>1, <2>1 DEF IInv, RowsOk, TypeOK, k
    <3>2. t \in BeingFiled => t \in BeingFiled'
      BY <1>5 DEF BeingFiled
    <3>3. \A r : Says(t, r) => Says(t, r)'
      BY <1>5 DEF Says
    <3>4. \A p \in ToSet(pend) \cup ToSet(held) : p \in ToSet(pend')
      BY <1>1, NoElems
    <3> QED BY <1>5, <1>7, <3>1, <3>2, <3>3, <3>4 DEF Copied
  <2> QED BY <1>5, <2>1, <2>2, <2>3 DEF KeptOk
<1>13. ASSUME UserWaits PROVE GoneOk' /\ OldOk'
  <2>1. GoneOk /\ OldOk
    BY <1>13 DEF IInv
  <2>2. k \notin Unpurged'
    BY <1>5 DEF Unpurged, Clash, k
  <2>3. Gone' \subseteq Gone /\ purged' = purged \cup {k} /\ k \in Gone
    BY <1>2, <1>4 DEF Gone, k
  <2>4. purged' \cap Unpurged' = {} /\ active' \notin Gone' /\ accounts' \cap purged' = {}
    BY <1>2, <1>4, <2>1, <2>2, <2>3 DEF GoneOk, IInv, WalletOk, k
  <2>5. \A t \in Txs : flow'[t] \in InWork => key'[t] \notin Gone'
    BY <1>4, <1>5, <2>1, <2>3 DEF GoneOk
  <2>6. \A x \in ToSet(chain') : x.kind \in Edits \cup {"record"} => x.k \notin purged'
    BY <1>5, <1>13, <2>1, <2>3 DEF GoneOk, Clash, k
  <2>7. \A p \in ToSet(pend') \cup ToSet(held') : p.k \notin purged'
    BY <1>1, <1>5, <2>1, <2>3 DEF GoneOk, k
  <2>8. \A u \in purged' : stored'[u] = <<>>
    BY <1>7, <2>1, <2>3 DEF GoneOk, IInv, TypeOK
  <2>9. GoneOk'
    BY <2>4, <2>5, <2>6, <2>7, <2>8 DEF GoneOk
  <2>10. old \subseteq Txs
    BY DEF IInv, TypeOK
  <2> QED BY <1>4, <1>5, <1>7, <2>1, <2>9, <2>10 DEF OldOk
<1> QED BY <1>4, <1>7, <1>8, <1>9, <1>10, <1>11, <1>12, <1>13, Conjuncts

\* A reset ends: the rows of every account it read are gone.
LEMMA WipeKeeps ==
    ASSUME IInv, mishaps' \in 0..MaxMishaps, at = "write", Head(chain).kind = "wipe",
           stored' = Emptied(Head(chain).ks), exists' = FALSE, accounts' = {}, active' = None,
           old' = {t \in Txs : key[t] \in Head(chain).ks},
           UNCHANGED <<unlocked, wiped, opening, resetting, purged, pend, excused>>, FinishJob
    PROVE  IInv' /\ NoneUnconfirmed
<1> DEFINE ks == Head(chain).ks
<1>1. chain # <<>> /\ held = <<>> /\ pend = <<>> /\ filed \subseteq excused
  BY DEF IInv, HeadOk
<1>2. exists /\ ~unlocked /\ wiped /\ resetting = "no"
  BY <1>1, HeadJob DEF JobOk
<1>3. /\ chain' \in Seq(Job) /\ ToSet(chain') \subseteq ToSet(chain)
      /\ Ordered(chain') /\ \A x \in ToSet(chain') : ~Clash(Head(chain), x)
      /\ \A x \in ToSet(chain') : x.kind # "wipe" => JobOk(x)'
      /\ at' = "start" /\ snap' = <<>> /\ held' = <<>> /\ ToSet(held') = {} /\ filed' = filed
      /\ flow' \in [Txs -> {"new", "sent", "recording", "latching", "done"}]
      /\ \A t \in Txs : flow'[t] = "new" <=> flow[t] = "new"
      /\ \A t \in Txs : flow'[t] \in InWork => flow[t] \in InWork
      /\ UNCHANGED <<key, outcome, spends, mined>>
  BY <1>1, Popped DEF FinishJob
<1>4. \A x \in ToSet(chain') : x.kind \notin {"wipe", "purge"}
  BY <1>3 DEF Clash
<1>5. Unpurged' = {}
  BY <1>4 DEF Unpurged
<1>6. /\ stored' \in [Accounts -> Seq(Row)] /\ \A u \in Accounts : ListFits(stored'[u], u)
      /\ \A u \in Accounts : IF u \in ks THEN stored'[u] = <<>> /\ ToSet(stored'[u]) = {}
                                         ELSE stored'[u] = stored[u]
      /\ NoneUnconfirmed
  BY EmptiedIs
<1>7. TypeOK'
  <2>1. /\ \A u \in Accounts : Len(stored'[u]) <= MaxRows
        /\ snap' \in Seq(Row) /\ held' \in Seq(Parked) /\ old' \subseteq Txs
    BY <1>3, <1>6, EmptySeq DEF ListFits
  <2> QED BY <1>3, <1>6, <2>1 DEF IInv, TypeOK
<1>8. NoDuplicateRows'
  BY <1>6 DEF ListFits, Unique, NoDuplicateRows
<1>9. WalletOk'
  BY <1>2, <1>5 DEF WalletOk
<1>10. ChainOk'
  BY <1>3, <1>4 DEF ChainOk
<1>11. HeadOk'
  BY <1>3 DEF HeadOk
<1>12. RowsOk'
  <2>1. \A t \in Txs : \A u : Belongs(t, u) => Belongs(t, u)'
    BY <1>3 DEF Belongs
  <2>2. ToSet(pend') = {} /\ ToSet(held') = {}
    BY <1>1, <1>3, NoElems
  <2>3. \A u \in Accounts : \A r \in ToSet(stored'[u]) : Belongs(r.tx, u)'
    BY <1>6, <2>1, Typing DEF IInv, RowsOk
  <2>4. \A t \in Txs : IF flow'[t] = "new" THEN t \notin filed' ELSE key'[t] \in Accounts
    BY <1>3 DEF IInv, RowsOk
  <2> QED BY <2>2, <2>3, <2>4 DEF RowsOk
<1>13. KeptOk'
  BY <1>1, <1>3 DEF KeptOk, Erasing
<1>14. ASSUME UserWaits PROVE GoneOk' /\ OldOk'
  <2>1. GoneOk /\ OldOk
    BY <1>14 DEF IInv
  <2>2. ToSet(pend') = {} /\ ToSet(held') = {} /\ Gone' = purged
    BY <1>1, <1>3, <1>5, NoElems DEF Gone
  <2>3. active' \notin purged
    BY HistoryAssumption DEF IInv, TypeOK
  <2>4. \A u \in purged : stored'[u] = <<>>
    BY <1>6, <2>1 DEF GoneOk, IInv, TypeOK
  <2>5. \A t \in Txs : flow'[t] \in InWork => key'[t] \notin Gone'
    BY <1>3, <2>1, <2>2 DEF GoneOk, Gone
  <2>6. GoneOk'
    BY <1>3, <1>5, <2>1, <2>2, <2>3, <2>4, <2>5 DEF GoneOk
  <2>7. \A u \in Accounts : \A r \in ToSet(stored'[u]) : r.tx \notin old'
    <3>1. ASSUME NEW u \in Accounts, NEW r \in ToSet(stored'[u]) PROVE r.tx \notin old'
      <4>1. u \notin ks /\ r \in ToSet(stored[u])
        BY <1>6, <3>1
      <4>2. key[r.tx] = u
        BY <4>1 DEF IInv, RowsOk, Belongs
      <4> QED BY <4>1, <4>2
    <3> QED BY <3>1
  <2> QED BY <1>2, <1>3, <2>2, <2>6, <2>7 DEF OldOk
<1> QED BY <1>6, <1>7, <1>8, <1>9, <1>10, <1>11, <1>12, <1>13, <1>14, Conjuncts

LEMMA DeleteKeeps ==
    ASSUME IInv, mishaps' \in 0..MaxMishaps, Delete
    PROVE  IInv' /\ NoneUnconfirmed
<1>1. at = "write" /\ FinishJob /\ UNCHANGED <<pend, excused>>
  BY DEF Delete
<1>2. CASE Head(chain).kind = "purge"
  BY <1>1, <1>2, PurgeKeeps DEF Delete
<1>3. CASE Head(chain).kind = "wipe"
  BY <1>1, <1>3, WipeKeeps DEF Delete, Emptied
<1> QED BY <1>2, <1>3 DEF Delete

-----------------------------------------------------------------------------
(* The invariant of every behaviour, and what it says *)

LEMMA HeadKeeps ==
    ASSUME IInv, mishaps' \in 0..MaxMishaps,
           \/ StartRecord \/ StartEdit \/ StartDrain \/ DrainNext \/ StartDelete
           \/ WriteRecord \/ WriteDrained \/ WriteEdit \/ Delete \/ StoreFails
    PROVE  IInv' /\ NoneUnconfirmed
<1>1. CASE StartRecord
  BY <1>1, StartRecordKeeps, SameConfirmed DEF StartRecord
<1>2. CASE StartEdit
  BY <1>2, StartEditKeeps, SameConfirmed DEF StartEdit
<1>3. CASE StartDrain
  BY <1>3, StartDrainKeeps, SameConfirmed DEF StartDrain
<1>4. CASE DrainNext
  BY <1>4, DrainNextKeeps, SameConfirmed DEF DrainNext
<1>5. CASE StartDelete
  BY <1>5, StartDeleteKeeps, SameConfirmed DEF StartDelete
<1>6. CASE WriteRecord
  BY <1>6, WriteRecordKeeps
<1>7. CASE WriteDrained
  BY <1>7, WriteDrainedKeeps
<1>8. CASE WriteEdit
  BY <1>8, WriteEditKeeps
<1>9. CASE Delete
  BY <1>9, DeleteKeeps
<1>10. CASE StoreFails
  BY <1>10, StoreFailsKeeps
<1> QED BY <1>1, <1>2, <1>3, <1>4, <1>5, <1>6, <1>7, <1>8, <1>9, <1>10

LEMMA AroundKeeps ==
    ASSUME IInv, mishaps' \in 0..MaxMishaps,
           \/ \E t \in Txs : Sign(t) \/ Answer(t) \/ LatchSpent(t) \/ Mine(t)
           \/ Refresh \/ Unlock \/ UnlockDrains \/ ResetLocks \/ ResetQueues \/ Create
           \/ Lock \/ UnlockThrows \/ Switch \/ RemoveAccount \/ Reset \/ Restart
    PROVE  IInv' /\ NoneUnconfirmed
<1>1. CASE Lock \/ Unlock \/ UnlockThrows \/ Switch \/ ResetLocks \/ Reset
  <2>1. UNCHANGED stored
    BY <1>1 DEF Lock, Unlock, UnlockThrows, Switch, ResetLocks, Reset
  <2> QED BY <1>1, <2>1, WalletKeeps, SameConfirmed
<1>2. ASSUME NEW t \in Txs, Sign(t) \/ Answer(t) \/ LatchSpent(t) \/ Mine(t)
      PROVE  IInv' /\ NoneUnconfirmed
  <2>1. UNCHANGED stored
    BY <1>2 DEF Sign, Answer, LatchSpent, Mine
  <2>2. CASE Sign(t)
    BY <2>1, <2>2, SignKeeps, SameConfirmed
  <2>3. CASE Answer(t)
    BY <2>1, <2>3, AnswerKeeps, SameConfirmed
  <2>4. CASE LatchSpent(t)
    BY <2>1, <2>4, MarksKeep, SameConfirmed
  <2>5. CASE Mine(t)
    BY <2>1, <2>5, MineKeeps, SameConfirmed
  <2> QED BY <1>2, <2>2, <2>3, <2>4, <2>5
<1>3. CASE Refresh
  <2>1. \E t : t \in mined
    <3>1. \E s \in (SUBSET mined) \ {{}} : TRUE
      BY <1>3 DEF Refresh
    <3> QED BY <3>1
  <2> PICK t : t \in mined
    BY <2>1
  <2>2. t \in Txs /\ UNCHANGED stored
    BY <1>3, <2>1 DEF Refresh, IInv, TypeOK
  <2> QED BY <1>3, <2>2, MarksKeep, SameConfirmed
<1>4. CASE UnlockDrains
  BY <1>4, UnlockDrainsKeeps, SameConfirmed DEF UnlockDrains
<1>5. CASE ResetQueues
  BY <1>5, ResetQueuesKeeps, SameConfirmed DEF ResetQueues
<1>6. CASE Create
  BY <1>6, CreateKeeps, SameConfirmed DEF Create
<1>7. CASE RemoveAccount
  BY <1>7, RemoveKeeps, SameConfirmed DEF RemoveAccount
<1>8. CASE Restart
  BY <1>8, RestartKeeps, SameConfirmed DEF Restart
<1> QED BY <1>1, <1>2, <1>3, <1>4, <1>5, <1>6, <1>7, <1>8

LEMMA NextKeeps == IInv /\ Next => IInv' /\ NoneUnconfirmed
<1> SUFFICES ASSUME IInv, Next PROVE IInv' /\ NoneUnconfirmed
  OBVIOUS
<1>1. mishaps' \in 0..MaxMishaps
  <2>1. UNCHANGED mishaps \/ Mishap
    BY DEF Next, RunJob
  <2> QED BY <2>1, HistoryAssumption DEF Mishap, IInv, TypeOK
<1> QED BY <1>1, HeadKeeps, AroundKeeps DEF Next, RunJob

LEMMA StutterKeeps == IInv /\ UNCHANGED vars => IInv'
<1> SUFFICES ASSUME IInv, UNCHANGED vars PROVE IInv'
  OBVIOUS
<1>1. /\ UNCHANGED <<stored, exists, accounts, active, unlocked, wiped, opening, resetting>>
      /\ UNCHANGED <<pend, chain, at, snap, held, key, flow, outcome, spends, mined>>
      /\ UNCHANGED <<filed, excused, purged, old, mishaps>>
  BY DEF vars, wallet, work, flows, ghosts
<1>2. UNCHANGED <<Unpurged, Gone, BeingFiled, Erasing>>
  BY <1>1 DEF Unpurged, Gone, BeingFiled, Erasing
<1>3. TypeOK' /\ NoDuplicateRows'
  BY <1>1 DEF IInv, TypeOK, NoDuplicateRows
<1>4. WalletOk' /\ ChainOk' /\ HeadOk'
  BY <1>1, <1>2 DEF IInv, WalletOk, ChainOk, JobOk, HeadOk
<1>5. RowsOk'
  BY <1>1 DEF IInv, RowsOk, Belongs
<1>6. "resetFails" \notin Ops => KeptOk'
  BY <1>1, <1>2 DEF IInv, KeptOk, Copied, Says
<1>7. UserWaits => GoneOk' /\ OldOk'
  BY <1>1, <1>2 DEF IInv, GoneOk, OldOk
<1> QED BY <1>3, <1>4, <1>5, <1>6, <1>7, Conjuncts

\* The invariant the four theorems below rest on.
THEOREM Inductive == Spec => []IInv
<1>1. IInv /\ [Next]_vars => IInv'
  BY NextKeeps, StutterKeeps
<1> QED BY InitHolds, <1>1, PTL DEF Spec

\* A recorded transaction always has its row: stored, parked, held by the drain
\* or in the job that files it (recordTx, "the double-pay backstop").  A reset
\* whose deletion fails half-way is the exception: it leaves the wallet wiped,
\* and a late row is dropped although the wallet is still there
\* (history_failed_reset.cfg).
THEOREM RowsAreKept == ASSUME "resetFails" \notin Ops PROVE Spec => []RowsKept
<1>1. IInv => RowsKept
  <2> SUFFICES ASSUME IInv, NEW t \in filed \ excused
               PROVE  t \in History(key[t]) \cup HeldTxs(key[t]) \cup BeingFiled
    BY DEF RowsKept
  <2>1. Copied(t) /\ t \in Txs /\ key[t] \in Accounts
    BY DEF IInv, KeptOk, TypeOK, RowsOk
  <2>2. ASSUME NEW p \in ToSet(pend) \cup ToSet(held), Says(t, p.row)
        PROVE  t \in ParkedTxs(key[t]) \cup HeldTxs(key[t])
    <3>1. key[t] = p.k /\ p.row.tx = t
      BY <2>2 DEF Says, IInv, RowsOk, Belongs
    <3> QED BY <3>1 DEF ParkedTxs, HeldTxs
  <2>3. ASSUME NEW r \in ToSet(stored[key[t]]), Says(t, r) PROVE t \in TxsOf(stored[key[t]])
    <3>1. stored[key[t]] \in Seq(Row)
      BY <2>1 DEF IInv, TypeOK
    <3> QED BY <2>3, <3>1, RowsIn DEF Says
  <2> QED BY <2>1, <2>2, <2>3 DEF Copied, History
<1> QED BY Inductive, <1>1, PTL

\* Once the record of a definite answer is written, no row of the transaction still
\* says "maybe", in whatever order the records and the drains ran.
THEOREM DefiniteAnswersResolve == ASSUME "resetFails" \notin Ops PROVE Spec => []DefiniteResolves
<1>1. IInv => DefiniteResolves
  <2> SUFFICES ASSUME IInv, NEW t \in filed \ (excused \cup InMemory), outcome[t] = "ok",
                      NEW i \in DOMAIN stored[key[t]], stored[key[t]][i].tx = t
               PROVE  ~stored[key[t]][i].maybe
    BY DEF DefiniteResolves
  <2>1. Copied(t) /\ t \in Txs /\ key[t] \in Accounts /\ t \notin BeingFiled
    BY DEF IInv, KeptOk, TypeOK, RowsOk, InMemory
  <2>2. ASSUME NEW p \in ToSet(pend) \cup ToSet(held), p.row.tx = t PROVE FALSE
    <3>1. p.k \in Accounts
      BY Typing DEF IInv
    <3>2. t \in ParkedTxs(p.k) \cup HeldTxs(p.k)
      BY <2>2 DEF ParkedTxs, HeldTxs
    <3> QED BY <3>1, <3>2 DEF InMemory
  <2>3. PICK r \in ToSet(stored[key[t]]) : r.tx = t /\ ~r.maybe
    BY <2>1, <2>2 DEF Copied, Says
  <2>4. PICK n \in DOMAIN stored[key[t]] : r = stored[key[t]][n]
    BY DEF ToSet
  <2>5. n = i
    BY <2>1, <2>3, <2>4 DEF IInv, NoDuplicateRows
  <2> QED BY <2>3, <2>4, <2>5
<1> QED BY Inductive, <1>1, PTL

\* What the user removed or reset away stays away, whatever is answered later, if
\* no flow was under way; with one under way a removed account's row does come back
\* (history_removed_returns.cfg).
THEOREM ErasedIsErased == ASSUME UserWaits PROVE Spec => []ErasedStaysErased
<1>1. IInv => ErasedStaysErased
  <2> SUFFICES ASSUME IInv PROVE ErasedStaysErased
    OBVIOUS
  <2>1. TypeOK /\ NoDuplicateRows /\ GoneOk /\ OldOk
    BY DEF IInv
  <2>2. PurgedStaysGone
    BY <2>1 DEF GoneOk, PurgedStaysGone, ParkedTxs
  <2>3. WipedStaysWiped
    <3> SUFFICES ASSUME NEW t \in old, NEW k \in Accounts
                 PROVE  t \notin TxsOf(stored[k]) \cup ParkedTxs(k) \cup HeldTxs(k)
      BY DEF WipedStaysWiped, History
    <3>1. t \notin TxsOf(stored[k])
      <4>1. stored[k] \in Seq(Row)
        BY <2>1 DEF TypeOK
      <4> QED BY <2>1, <4>1, RowsIn DEF OldOk
    <3>2. t \notin ParkedTxs(k) \cup HeldTxs(k)
      BY <2>1 DEF OldOk, ParkedTxs, HeldTxs
    <3> QED BY <3>1, <3>2
  <2> QED BY <2>1, <2>2, <2>3 DEF ErasedStaysErased
<1> QED BY Inductive, <1>1, PTL

\* No job writes back a list it read before another job's write: a row once
\* confirmed stays confirmed for as long as it is listed.
THEOREM ConfirmedStays == Spec => ConfirmedIsFinal
<1>1. IInv /\ [Next]_vars =>
        [\A k \in Accounts : \A i \in DOMAIN stored[k] : \A j \in DOMAIN stored'[k] :
            (stored[k][i].tx = stored'[k][j].tx /\ stored[k][i].confirmed) =>
                stored'[k][j].confirmed]_vars
  BY NextKeeps DEF NoneUnconfirmed
<1> QED BY Inductive, <1>1, PTL DEF Spec, ConfirmedIsFinal
==============================================================================
