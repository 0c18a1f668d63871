-------------------------- MODULE HeaderSyncProofs --------------------------
(***************************************************************************)
(* What HeaderSync promises for every chain, chunk size, number of sources *)
(* and answers of the nodes: a source's account of itself is true, the     *)
(* floor of the tip was earned, and nothing proven is lost.                *)
(*                                                                         *)
(* The hard part of the invariant is Solid.  A source says it has stored   *)
(* its chain up to `persisted` as soon as it hands the records over, while *)
(* two writes may still wait, one under way and one merged from all those  *)
(* after it.  So Solid is about the store as it will be once both have     *)
(* landed (Landed), and only for a source no other has written under       *)
(* (sole).  mergeStoreWrites keeps it because a merged write leaves stored *)
(* what its two parts would have left (MergeKeeps).                        *)
(* WorkOk says from where work is counted: from the anchor, whatever the   *)
(* light client was rebuilt from.  The pin counts from there too (PinIs),  *)
(* so a reseed and the pin compare like with like.  Steps is what each     *)
(* point of the opening knows: what was read back is whole chunks that are *)
(* still stored as read (Whole, ReadBack), so the shortcut by the pin and  *)
(* the restore with every check walk the same chain (Parity).              *)
(*                                                                         *)
(* The module goes from the arithmetic of chunks, through headers, the     *)
(* clock and what a client reaches by a list of headers, to the restore,   *)
(* the writes and then one lemma per step.                                 *)
(***************************************************************************)
EXTENDS HeaderSync, TLAPS, SequenceTheorems, FiniteSetTheorems, WellFoundedInduction

-----------------------------------------------------------------------------
(* Numbers *)

\* A non-empty family of subsets of a finite set has a smallest member.
LEMMA SmallestSet ==
    ASSUME NEW S, IsFiniteSet(S), NEW B \in SUBSET SUBSET S, B # {}
    PROVE  \E T \in B : \A U \in B : U \subseteq T => U = T
<1>1. IsWellFoundedOn(StrictSubsetOrdering(S), SUBSET S)
  BY FS_StrictSubsetOrderingWellFounded, FS_FiniteSubsetsOfFinite
<1>2. \E T \in B : \A U \in B : <<U, T>> \notin StrictSubsetOrdering(S)
  BY <1>1, WFMin
<1> QED BY <1>2 DEF StrictSubsetOrdering

LEMMA Least == ASSUME NEW S \in SUBSET Nat, S # {} PROVE \E n \in S : \A m \in S : n <= m
<1>1. PICK n \in S : TRUE
  OBVIOUS
<1> DEFINE I == 0..n
           B == {0..k : k \in {i \in S : i <= n}}
<1>2. PICK A \in B : \A U \in B : U \subseteq A => U = A
  <2>1. B \in SUBSET SUBSET I /\ B # {}
    <3>1. n \in {i \in S : i <= n}
      OBVIOUS
    <3> QED BY <3>1
  <2>2. IsFiniteSet(I)
    BY FS_Interval
  <2> HIDE DEF B, I
  <2> QED BY <2>1, <2>2, SmallestSet
<1>3. PICK k \in S : k <= n /\ A = 0..k
  OBVIOUS
<1>4. ASSUME NEW m \in S, m < k PROVE FALSE
  <2>1. m <= n /\ 0..m \in B
    BY <1>3, <1>4
  <2>2. 0..m \subseteq 0..k /\ k \in 0..k /\ k \notin 0..m
    BY <1>3, <1>4
  <2> QED BY <1>2, <1>3, <2>1, <2>2
<1> QED BY <1>3, <1>4

LEMMA MinIs == ASSUME NEW S \in SUBSET Nat, S # {} PROVE Min(S) \in S /\ \A m \in S : Min(S) <= m
  BY Least DEF Min

LEMMA MaxIs ==
    ASSUME NEW S \in SUBSET Nat, S # {}, NEW n \in Nat, \A s \in S : s <= n
    PROVE  Max(S) \in S /\ \A m \in S : m <= Max(S)
<1> DEFINE T == {n - s : s \in S}
<1>1. T \in SUBSET Nat /\ T # {}
  <2>1. \A s \in S : n - s \in Nat
    OBVIOUS
  <2> QED BY <2>1
<1>2. PICK t \in T : \A u \in T : t <= u
  <2> HIDE DEF T
  <2> QED BY <1>1, Least
<1>3. PICK s \in S : t = n - s
  OBVIOUS
<1>4. \A m \in S : s >= m
  <2> SUFFICES ASSUME NEW m \in S PROVE s >= m
    OBVIOUS
  <2>1. n - m \in T
    OBVIOUS
  <2> QED BY <1>2, <1>3, <2>1
<1> QED BY <1>4 DEF Max

LEMMA Max2 == ASSUME NEW a \in Int, NEW b \in Int PROVE Max({a, b}) = IF a >= b THEN a ELSE b
<1> DEFINE m == IF a >= b THEN a ELSE b
<1>1. m \in {a, b} /\ \A y \in {a, b} : m >= y
  OBVIOUS
<1>2. \A x \in {a, b} : (\A y \in {a, b} : x >= y) => x = m
  OBVIOUS
<1> QED BY <1>1, <1>2 DEF Max

LEMMA Min2 == ASSUME NEW a \in Int, NEW b \in Int PROVE Min({a, b}) = IF a <= b THEN a ELSE b
<1> DEFINE m == IF a <= b THEN a ELSE b
<1>1. m \in {a, b} /\ \A y \in {a, b} : m <= y
  OBVIOUS
<1>2. \A x \in {a, b} : (\A y \in {a, b} : x <= y) => x = m
  OBVIOUS
<1> QED BY <1>1, <1>2 DEF Min

LEMMA Constants ==
    /\ SPV_CHUNK \in Nat /\ SPV_CHUNK > 0 /\ Newest \in Nat /\ Newest = SPV_CHUNK - 1
    /\ Fork \in Nat /\ Newest <= Fork /\ SEED \in Nat /\ 1 <= SEED /\ SEED <= SPV_CHUNK
    /\ PAGE \in Nat /\ PAGE > 0 /\ SYNC_PERSIST_WINDOW \in Nat /\ SYNC_PERSIST_WINDOW > 0
    /\ {FLOOR_SLACK, MIGRATE_MAX} \subseteq Nat
    /\ AnchorBase \in Nat /\ AnchorBase = SPV_CHUNK - SEED /\ AnchorBase <= Newest
  BY ChainAssumption, SyncAssumption DEF Newest, AnchorBase

-----------------------------------------------------------------------------
(* Chunks *)

FirstOf(k) == k * SPV_CHUNK

LEMMA ChunkEnds ==
    ASSUME NEW k \in Nat
    PROVE  /\ FirstOf(k) \in Nat /\ TopOf(k) \in Nat /\ FirstOf(k) <= TopOf(k)
           /\ FirstOf(k + 1) = TopOf(k) + 1
<1>1. k * SPV_CHUNK \in Nat /\ (k + 1) * SPV_CHUNK = k * SPV_CHUNK + SPV_CHUNK
  BY Constants
<1> QED BY <1>1, Constants DEF FirstOf, TopOf

LEMMA ChunkOrder == ASSUME NEW j \in Nat, NEW k \in Nat, j < k PROVE TopOf(j) < FirstOf(k)
<1>1. (j + 1) * SPV_CHUNK <= k * SPV_CHUNK
  BY Constants
<1> QED BY <1>1, ChunkEnds, Constants DEF FirstOf, TopOf

LEMMA ChunkZero == FirstOf(0) = 0 /\ TopOf(0) = Newest
  BY Constants DEF FirstOf, TopOf

LEMMA ChunkHolds ==
    ASSUME NEW h \in Nat
    PROVE  chunkOf(h) \in Nat /\ FirstOf(chunkOf(h)) <= h /\ h <= TopOf(chunkOf(h))
<1> DEFINE q == h \div SPV_CHUNK
<1>1. q \in Nat
  BY Constants
<1>2. h >= SPV_CHUNK * q /\ h < SPV_CHUNK * q + SPV_CHUNK
  BY Constants, SMT
<1>3. SPV_CHUNK * q = q * SPV_CHUNK /\ q * SPV_CHUNK \in Nat
  BY <1>1, Constants
<1>4. chunkOf(h) = q
  BY DEF chunkOf
<1> HIDE DEF q
<1> QED BY <1>1, <1>2, <1>3, <1>4, Constants DEF FirstOf, TopOf

LEMMA ChunkUp ==
    ASSUME NEW h \in Nat, NEW k \in Nat
    PROVE  (k <= chunkOf(h) <=> FirstOf(k) <= h) /\ (chunkOf(h) <= k <=> h <= TopOf(k))
<1>1. chunkOf(h) \in Nat /\ FirstOf(chunkOf(h)) <= h /\ h <= TopOf(chunkOf(h))
  BY ChunkHolds
<1>2. \A j \in Nat : FirstOf(j) \in Nat /\ TopOf(j) \in Nat /\ FirstOf(j) <= TopOf(j)
  BY ChunkEnds
<1>3. chunkOf(h) < k => TopOf(chunkOf(h)) < FirstOf(k)
  BY <1>1, ChunkOrder
<1>4. k < chunkOf(h) => TopOf(k) < FirstOf(chunkOf(h))
  BY <1>1, ChunkOrder
<1> QED BY <1>1, <1>2, <1>3, <1>4

LEMMA AnchorChunk == chunkOf(Newest) = 0
<1>1. chunkOf(Newest) <= 0 /\ chunkOf(Newest) \in Nat
  BY ChunkUp, ChunkHolds, ChunkZero, Constants
<1> QED BY <1>1

\* The chunks reach as far as any chain.
LEMMA ChunksFit ==
    /\ \E n \in Nat : Chunks = 0..n
    /\ \A c \in Chains : chunkOf(c.h) \in Chunks
    /\ \A x \in Old \ {None} : chunkOf(x.h) \in Chunks
<1> DEFINE T == Chains \cup (Old \ {None})
           Higher(x) == {y \in T : y.h > x.h}
           B == {Higher(x) : x \in T}
           H == {c.h : c \in Chains} \cup {x.h : x \in Old \ {None}}
<1>1. IsFiniteSet(T) /\ \A x \in T : x.h \in Nat
  <2>1. IsFiniteSet(Chains) /\ IsFiniteSet(Old) /\ Old \ {None} \in SUBSET Old
    BY SyncAssumption
  <2>2. IsFiniteSet(Old \ {None})
    BY <2>1, FS_Subset
  <2>3. \A x \in T : x \in Headers
    BY SyncAssumption
  <2> QED BY <2>1, <2>2, <2>3, FS_Union DEF Headers, Records
<1>2. T # {}
  BY SyncAssumption
<1>3. PICK A \in B : \A U \in B : U \subseteq A => U = A
  <2>1. B \in SUBSET SUBSET T /\ B # {}
    BY <1>2
  <2> HIDE DEF B, T
  <2> QED BY <1>1, <2>1, SmallestSet
<1>4. PICK t \in T : A = Higher(t)
  OBVIOUS
<1>5. \A y \in T : y.h <= t.h
  <2> SUFFICES ASSUME NEW y \in T, y.h > t.h PROVE FALSE
    BY <1>1
  <2>1. Higher(y) \subseteq Higher(t) /\ y \in Higher(t) /\ y \notin Higher(y) /\ Higher(y) \in B
    BY <1>1
  <2> QED BY <1>3, <1>4, <2>1
<1>6. H \in SUBSET Nat /\ t.h \in H /\ H # {} /\ t.h \in Nat /\ \A h \in H : h <= t.h
  BY <1>1, <1>5
<1>7. Max(H) \in Nat /\ \A h \in H : h <= Max(H)
  <2> HIDE DEF H
  <2> QED BY <1>6, MaxIs
<1>8. Chunks = 0..chunkOf(Max(H))
  BY DEF Chunks
<1>9. \A h \in H : chunkOf(h) \in 0..chunkOf(Max(H))
  <2> HIDE DEF H
  <2> SUFFICES ASSUME NEW h \in H PROVE chunkOf(h) \in 0..chunkOf(Max(H))
    OBVIOUS
  <2>1. h \in Nat /\ h <= Max(H) /\ Max(H) \in Nat
    BY <1>6, <1>7
  <2>2. chunkOf(h) \in Nat /\ chunkOf(Max(H)) \in Nat /\ Max(H) <= TopOf(chunkOf(Max(H)))
    BY <2>1, ChunkHolds
  <2>3. TopOf(chunkOf(Max(H))) \in Nat
    BY <2>2, ChunkEnds
  <2>4. h <= TopOf(chunkOf(Max(H)))
    BY <2>1, <2>2, <2>3
  <2>5. chunkOf(h) <= chunkOf(Max(H))
    BY <2>1, <2>2, <2>4, ChunkUp
  <2> QED BY <2>2, <2>5
<1>10. chunkOf(Max(H)) \in Nat
  <2> HIDE DEF H
  <2> QED BY <1>7, ChunkHolds
<1>11. (\A c \in Chains : c.h \in H) /\ (\A x \in Old \ {None} : x.h \in H)
  OBVIOUS
<1> HIDE DEF H
<1> QED BY <1>8, <1>9, <1>10, <1>11

Fits(h) == chunkOf(h) \in Chunks

LEMMA FitsBelow ==
    ASSUME NEW h \in Nat, NEW j \in Nat, Fits(h), j <= h
    PROVE  Fits(j) /\ chunkOf(j) <= chunkOf(h) /\ \A k \in 0..chunkOf(h) : k \in Chunks
<1>1. PICK n \in Nat : Chunks = 0..n
  BY ChunksFit
<1>2. chunkOf(j) \in Nat /\ chunkOf(h) \in Nat /\ h <= TopOf(chunkOf(h)) /\ TopOf(chunkOf(h)) \in Nat
  BY ChunkHolds, ChunkEnds
<1>3. chunkOf(j) <= chunkOf(h)
  BY <1>2, ChunkUp
<1> QED BY <1>1, <1>2, <1>3 DEF Fits

-----------------------------------------------------------------------------
(* Headers and the chains they name *)

LEMMA HeaderIs ==
    ASSUME NEW x \in Headers
    PROVE  x.h \in Nat /\ x.b \in Branches \cup {Shared} /\ x.b # Junk /\ x = [h |-> x.h, b |-> x.b]
           /\ (x.b = Shared <=> x.h <= Fork)
  BY ChainAssumption DEF Headers, Records

LEMMA AtIs == \A x, j : At(x, j).h = j /\ At(x, j).b = IF j <= Fork THEN Shared ELSE x.b
  BY DEF At, Hdr

LEMMA AtHeader ==
    ASSUME NEW x \in Headers, NEW j \in Nat, j <= x.h
    PROVE  At(x, j) \in Headers /\ At(x, j).h = j /\ At(x, j).b # Junk
  BY HeaderIs, ChainAssumption DEF At, Hdr, Headers, Records

LEMMA AtSelf == ASSUME NEW x \in Headers PROVE At(x, x.h) = x
  BY HeaderIs, ChainAssumption DEF At, Hdr

LEMMA AtAt == ASSUME NEW x, NEW i \in Int, NEW j \in Int, i <= j PROVE At(At(x, j), i) = At(x, i)
  BY ChainAssumption DEF At, Hdr

LEMMA ExtendsSelf == ASSUME NEW x \in Headers PROVE Extends(x, x)
  BY HeaderIs, AtSelf DEF Extends

LEMMA ExtendsAt ==
    ASSUME NEW y, NEW x \in Headers, Extends(y, x), NEW j \in Int, j <= x.h
    PROVE  At(y, j) = At(x, j)
<1>1. At(y, x.h) = x /\ x.h \in Int
  BY HeaderIs DEF Extends
<1> QED BY <1>1, AtAt

LEMMA ExtendsTrans ==
    ASSUME NEW z \in Headers, NEW y \in Headers, NEW x \in Headers, Extends(z, y), Extends(y, x)
    PROVE  Extends(z, x)
<1>1. z.h \in Nat /\ y.h \in Nat /\ x.h \in Nat
  BY HeaderIs
<1>2. x.h <= y.h /\ y.h <= z.h /\ At(y, x.h) = x /\ z.b # Junk
  BY <1>1 DEF Extends
<1>3. At(z, x.h) = At(y, x.h)
  BY <1>1, <1>2, ExtendsAt
<1> QED BY <1>1, <1>2, <1>3 DEF Extends

\* A chain extends what lies on it, also what another chain has of it.
LEMMA ExtendsBelow ==
    ASSUME NEW x \in Headers, NEW i \in Nat, NEW j \in Nat, i <= j, j <= x.h
    PROVE  Extends(At(x, j), At(x, i))
<1>1. At(x, j).h = j /\ At(x, i).h = i /\ At(x, j).b # Junk /\ x.h \in Nat
  BY AtHeader, AtIs, HeaderIs
<1>2. At(At(x, j), i) = At(x, i)
  BY AtAt
<1> QED BY <1>1, <1>2 DEF Extends

LEMMA WorkIs ==
    ASSUME NEW x \in Headers, NEW j \in Int, -1 <= j, j <= x.h
    PROVE  /\ Work(At(x, j)) = IF j <= Fork THEN j + 1 ELSE Fork + 1 + (j - Fork) * Effort[x.b]
           /\ Work(At(x, j)) \in Nat
<1>1. x.h \in Nat /\ Fork \in Nat
  BY HeaderIs, Constants
<1>2. CASE j <= Fork
  <2>1. At(x, j).h = j /\ Min({j, Fork}) = j
    BY <1>1, <1>2, AtIs, Min2
  <2> QED BY <1>1, <1>2, <2>1 DEF Work
<1>3. CASE j > Fork
  <2>1. At(x, j).h = j /\ At(x, j).b = x.b /\ Min({j, Fork}) = Fork
    BY <1>1, <1>3, AtIs, Min2
  <2>2. x.b \in Branches
    BY <1>1, <1>3, HeaderIs
  <2>3. Effort[x.b] \in Nat
    BY <2>2, ChainAssumption
  <2>4. (j - Fork) * Effort[x.b] \in Nat
    BY <1>1, <1>3, <2>3
  <2>5. Work(At(x, j)) = Fork + 1 + (j - Fork) * Effort[x.b]
    BY <1>1, <1>3, <2>1 DEF Work
  <2> QED BY <1>1, <1>3, <2>4, <2>5
<1> QED BY <1>1, <1>2, <1>3

LEMMA WorkGrows ==
    ASSUME NEW x \in Headers, NEW i \in Int, NEW j \in Int, -1 <= i, i <= j, j <= x.h
    PROVE  Work(At(x, i)) <= Work(At(x, j))
<1>1. x.h \in Nat /\ Fork \in Nat
  BY HeaderIs, Constants
<1>2. /\ Work(At(x, i)) = IF i <= Fork THEN i + 1 ELSE Fork + 1 + (i - Fork) * Effort[x.b]
      /\ Work(At(x, j)) = IF j <= Fork THEN j + 1 ELSE Fork + 1 + (j - Fork) * Effort[x.b]
      /\ Work(At(x, i)) \in Nat /\ Work(At(x, j)) \in Nat
  BY <1>1, WorkIs
<1>3. CASE j <= Fork
  BY <1>1, <1>2, <1>3
<1>4. CASE j > Fork
  <2>1. Effort[x.b] \in Nat
    BY <1>1, <1>4, HeaderIs, ChainAssumption
  <2>2. (j - Fork) * Effort[x.b] \in Nat
    BY <1>1, <1>4, <2>1
  <2>3. CASE i <= Fork
    BY <1>1, <1>2, <1>4, <2>2, <2>3
  <2>4. CASE i > Fork
    <3>1. (i - Fork) * Effort[x.b] <= (j - Fork) * Effort[x.b] /\ (i - Fork) * Effort[x.b] \in Nat
      BY <1>1, <1>4, <2>1, <2>4
    <3>2. /\ Work(At(x, i)) = Fork + 1 + (i - Fork) * Effort[x.b]
          /\ Work(At(x, j)) = Fork + 1 + (j - Fork) * Effort[x.b]
      BY <1>1, <1>2, <1>4, <2>4
    <3> QED BY <1>1, <2>2, <3>1, <3>2
  <2> QED BY <1>1, <2>3, <2>4
<1> QED BY <1>1, <1>3, <1>4

LEMMA WorkExtends ==
    ASSUME NEW y \in Headers, NEW x \in Headers, Extends(y, x)
    PROVE  Work(x) <= Work(y) /\ Work(x) \in Nat /\ Work(y) \in Nat
<1>1. y.h \in Nat /\ x.h \in Nat /\ x.h <= y.h /\ At(y, x.h) = x /\ At(y, y.h) = y
  BY HeaderIs, AtSelf DEF Extends
<1>2. Work(At(y, x.h)) <= Work(At(y, y.h)) /\ Work(At(y, x.h)) \in Nat /\ Work(At(y, y.h)) \in Nat
  BY <1>1, WorkGrows, WorkIs
<1> QED BY <1>1, <1>2

LEMMA AnchorIs == /\ Anchor \in Headers /\ Anchor.h = Newest /\ chunkOf(Newest) = 0 /\ Fits(Newest)
                  /\ \A x \in Headers : x.h >= Newest => Extends(x, Anchor)
<1>1. Anchor \in Headers /\ Anchor.h = Newest
  BY Constants, ChainAssumption DEF Anchor, Hdr, Headers, Records
<1>2. chunkOf(Newest) = 0
  BY AnchorChunk
<1>3. Fits(Newest)
  BY <1>2, ChunksFit DEF Fits
<1>4. ASSUME NEW x \in Headers, x.h >= Newest PROVE Extends(x, Anchor)
  BY <1>1, <1>4, HeaderIs, Constants DEF Extends, Anchor, At, Hdr
<1> QED BY <1>1, <1>2, <1>3, <1>4

(* What the clock lets through *)

LEMMA TimelyIs ==
    ASSUME NEW x \in Headers, NEW from \in Nat, from <= x.h, NEW slow
    PROVE  \E m \in from..x.h : Timely(x, from, slow) = At(x, m)
<1> DEFINE late == {h \in Late : from < h /\ h <= x.h}
<1>1. x.h \in Nat /\ Late \subseteq Nat /\ At(x, x.h) = x
  BY HeaderIs, AtSelf, ChainAssumption
<1>2. CASE slow /\ late # {}
  <2>1. late \in SUBSET Nat
    BY <1>1
  <2>2. Min(late) \in late
    <3> HIDE DEF late
    <3> QED BY <1>2, <2>1, MinIs
  <2>3. Min(late) \in Nat /\ from < Min(late) /\ Min(late) <= x.h
    BY <1>1, <2>2
  <2>4. Min(late) - 1 \in from..x.h
    <3> HIDE DEF late
    <3> QED BY <1>1, <2>3
  <2> QED BY <1>2, <2>4 DEF Timely
<1>3. CASE ~(slow /\ late # {})
  BY <1>1, <1>3 DEF Timely
<1> QED BY <1>2, <1>3

\* When the clock passes the first part of a chain, it is asked about the rest only.
LEMMA TimelyRest ==
    ASSUME NEW x \in Headers, NEW from \in Nat, NEW mid \in Nat, from <= mid, mid <= x.h,
           NEW slow, Timely(At(x, mid), from, slow) = At(x, mid)
    PROVE  Timely(x, from, slow) = Timely(x, mid, slow)
<1> DEFINE late(y, a) == {h \in Late : a < h /\ h <= y.h}
           y == At(x, mid)
<1>1. x.h \in Nat /\ Late \subseteq Nat /\ y.h = mid
  BY HeaderIs, AtIs, ChainAssumption
<1>2. slow => late(y, from) = {}
  <2> SUFFICES ASSUME slow, late(y, from) # {} PROVE FALSE
    OBVIOUS
  <2>1. late(y, from) \in SUBSET Nat /\ \A h \in late(y, from) : h <= mid
    BY <1>1
  <2>2. Min(late(y, from)) \in Nat /\ Min(late(y, from)) <= mid
    <3> HIDE DEF late
    <3>1. Min(late(y, from)) \in late(y, from)
      BY <2>1, MinIs
    <3> QED BY <2>1, <3>1
  <2>3. Timely(y, from, slow) = At(y, Min(late(y, from)) - 1)
    BY DEF Timely
  <2>4. At(y, Min(late(y, from)) - 1).h = Min(late(y, from)) - 1
    BY AtIs
  <2> HIDE DEF late, y
  <2>5. y.h = Min(late(y, from)) - 1
    BY <2>3, <2>4 DEF y
  <2> QED BY <1>1, <2>2, <2>5
<1>3. slow => late(x, from) = late(x, mid)
  <2> SUFFICES ASSUME slow, NEW h \in Late PROVE from < h /\ h <= x.h <=> mid < h /\ h <= x.h
    OBVIOUS
  <2>1. ~(from < h /\ h <= mid)
    BY <1>1, <1>2
  <2> QED BY <1>1, <2>1
<1> QED BY <1>3 DEF Timely

(* What a client reaches by a sequence of stored headers *)

Stored == {x \in Records : x.b = Junk \/ x \in Headers}
Links(x, segs, m) == \A j \in 1..m : Extends(segs[j], Under(x, segs, j))
LinksTo(x, segs, m) == /\ m \in 0..Len(segs) /\ Links(x, segs, m)
                       /\ m < Len(segs) => ~Extends(segs[m + 1], Under(x, segs, m + 1))

LEMMA LinksExist == ASSUME NEW x, NEW segs \in Seq(Stored) PROVE \E m : LinksTo(x, segs, m)
<1> DEFINE Broken == {j \in 1..Len(segs) : ~Extends(segs[j], Under(x, segs, j))}
<1>1. Len(segs) \in Nat
  OBVIOUS
<1>2. CASE Broken = {}
  <2>1. LinksTo(x, segs, Len(segs))
    BY <1>1, <1>2 DEF LinksTo, Links
  <2> QED BY <2>1
<1>3. CASE Broken # {}
  <2>1. PICK j \in Broken : \A i \in Broken : j <= i
    <3>1. Broken \in SUBSET Nat
      OBVIOUS
    <3> HIDE DEF Broken
    <3> QED BY <1>3, <3>1, Least
  <2>2. j - 1 \in 0..Len(segs) /\ (j - 1) + 1 = j /\ ~Extends(segs[j], Under(x, segs, j))
    BY <1>1
  <2>3. \A i \in 1..(j - 1) : Extends(segs[i], Under(x, segs, i))
    BY <1>1, <2>1
  <2>4. LinksTo(x, segs, j - 1)
    BY <2>2, <2>3 DEF LinksTo, Links
  <2> QED BY <2>4
<1> QED BY <1>2, <1>3

LEMMA ReachedIs ==
    ASSUME NEW x, NEW segs \in Seq(Stored), NEW m, LinksTo(x, segs, m)
    PROVE  Reached(x, segs) = Under(x, segs, m + 1)
<1>1. m \in Nat /\ m <= Len(segs) /\ Len(segs) \in Nat
  BY DEF LinksTo
<1>2. Linked(x, segs) = 1..m
  <2>1. DOMAIN segs = 1..Len(segs)
    OBVIOUS
  <2>2. ASSUME NEW i \in 1..m PROVE i \in Linked(x, segs)
    BY <1>1, <2>1 DEF LinksTo, Links, Linked
  <2>3. ASSUME NEW i \in Linked(x, segs) PROVE i \in 1..m
    <3>1. i \in 1..Len(segs) /\ \A j \in 1..i : Extends(segs[j], Under(x, segs, j))
      BY <2>1 DEF Linked
    <3>2. ASSUME i > m PROVE FALSE
      <4>1. m + 1 \in 1..i /\ m < Len(segs)
        BY <1>1, <3>1, <3>2
      <4> QED BY <3>1, <4>1 DEF LinksTo
    <3> QED BY <1>1, <3>1, <3>2
  <2> QED BY <2>2, <2>3
<1>3. CASE m = 0
  BY <1>2, <1>3 DEF Reached, Under
<1>4. CASE m > 0
  <2>1. 1..m # {} /\ 1..m \in SUBSET Nat /\ \A s \in 1..m : s <= m
    BY <1>1, <1>4
  <2>2. Max(1..m) \in 1..m /\ \A s \in 1..m : s <= Max(1..m)
    <3> DEFINE S == 1..m
    <3> HIDE DEF S
    <3> QED BY <1>1, <2>1, MaxIs DEF S
  <2>3. Max(1..m) = m
    BY <1>1, <1>4, <2>2
  <2> QED BY <1>1, <1>2, <1>4, <2>1, <2>3 DEF Reached, Under
<1> QED BY <1>1, <1>3, <1>4

\* The last header that links extends everything below it.
LEMMA LinksUp ==
    ASSUME NEW x \in Headers, NEW segs \in Seq(Stored), NEW m \in 0..Len(segs), Links(x, segs, m)
    PROVE  \A j \in 1..(m + 1) : /\ Under(x, segs, j) \in Headers
                                 /\ Extends(Under(x, segs, m + 1), Under(x, segs, j))
<1> DEFINE u(j) == Under(x, segs, j)
<1>1. Len(segs) \in Nat /\ m \in Nat
  OBVIOUS
<1>2. \A j \in 1..m : u(j + 1) = segs[j] /\ Extends(u(j + 1), u(j))
  BY <1>1 DEF Links, Under
<1>3. \A j \in 1..(m + 1) : u(j) \in Headers
  <2> SUFFICES ASSUME NEW j \in 1..(m + 1) PROVE u(j) \in Headers
    OBVIOUS
  <2>1. CASE j = 1
    BY <2>1 DEF Under
  <2>2. CASE j > 1
    <3>1. j - 1 \in 1..m /\ j - 1 \in 1..Len(segs) /\ (j - 1) + 1 = j
      BY <1>1, <2>2
    <3>2. u(j) = segs[j - 1] /\ segs[j - 1] \in Stored /\ Extends(u(j), u(j - 1))
      BY <1>2, <3>1
    <3> QED BY <3>2 DEF Stored, Extends
  <2> QED BY <1>1, <2>1, <2>2
<1> DEFINE Bad == {i \in 0..m : ~Extends(u(m + 1), u(m + 1 - i))}
<1>4. Bad = {}
  <2> SUFFICES ASSUME Bad # {} PROVE FALSE
    OBVIOUS
  <2>1. PICK i \in Bad : \A k \in Bad : i <= k
    <3>1. Bad \in SUBSET Nat
      BY <1>1
    <3> HIDE DEF Bad
    <3> QED BY <3>1, Least
  <2>2. i # 0 /\ i \in 0..m
    <3>1. Extends(u(m + 1), u(m + 1))
      <4>1. m + 1 \in 1..(m + 1)
        BY <1>1
      <4>2. u(m + 1) \in Headers
        BY <1>3, <4>1
      <4> HIDE DEF u
      <4> QED BY <4>2, ExtendsSelf
    <3> QED BY <1>1, <3>1
  <2>3. i - 1 \in 0..m /\ i - 1 \notin Bad
    <3>1. i - 1 \in 0..m /\ ~(i <= i - 1)
      BY <1>1, <2>2
    <3> HIDE DEF Bad
    <3> QED BY <2>1, <3>1
  <2> DEFINE j == m + 1 - i
  <2>4. j \in 1..m /\ j + 1 = m + 1 - (i - 1) /\ j \in 1..(m + 1) /\ j + 1 \in 1..(m + 1) /\ m + 1 \in 1..(m + 1)
    BY <1>1, <2>2
  <2>5. Extends(u(m + 1), u(j + 1))
    BY <2>3, <2>4
  <2>6. Extends(u(j + 1), u(j))
    BY <1>2, <2>4
  <2>7. u(m + 1) \in Headers /\ u(j + 1) \in Headers /\ u(j) \in Headers
    BY <1>3, <2>4
  <2>8. Extends(u(m + 1), u(j))
    <3> HIDE DEF u, j
    <3> QED BY <2>5, <2>6, <2>7, ExtendsTrans
  <2> QED BY <2>8
<1>5. \A j \in 1..(m + 1) : Extends(u(m + 1), u(j))
  <2> SUFFICES ASSUME NEW j \in 1..(m + 1) PROVE Extends(u(m + 1), u(j))
    OBVIOUS
  <2>1. m + 1 - j \in 0..m /\ m + 1 - (m + 1 - j) = j
    BY <1>1
  <2> QED BY <1>4, <2>1
<1> QED BY <1>3, <1>5

-----------------------------------------------------------------------------
(* The inductive invariant *)

Fields == {"pc", "store", "keys", "lg", "migErr", "rd", "rp", "held", "base", "workBase", "persisted",
           "want", "tip", "leg", "fresh", "seen", "job", "pend", "sole"}
Opening == {"off", "anchor", "read"}
Migrating == {"commit", "drop"}
Serving == {"idle", "sync", "reseed", "last", "done"}

\* A stored record: headers up to a height of the chunk, or bytes that are none.
Chunk(k) == {x \in Stored : FirstOf(k) <= x.h /\ x.h <= TopOf(k)}
\* A chain the wallet may hold, above the anchor and within the chunks.
Held(x) == x \in Headers /\ Newest <= x.h /\ Fits(x.h)
\* What a write puts into chunks.
IsWrite(w) == /\ w \in [put : [DOMAIN w.put -> Records], above : Nat, head : Headers]
              /\ DOMAIN w.put \subseteq Chunks /\ \A k \in DOMAIN w.put : w.put[k] \in Chunk(k)

SourceType(r) ==
    /\ DOMAIN r = Fields /\ r.pc \in Opening \cup Migrating \cup Serving
    /\ r.store \in BOOLEAN /\ r.sole \in BOOLEAN /\ r.migErr \in BOOLEAN
    /\ Held(r.held) /\ Held(r.fresh) /\ r.persisted \in Newest..r.held.h
    /\ r.lg \in Old /\ r.keys \subseteq Chunks
    /\ r.want \in Nat /\ r.tip \in Nat /\ r.leg \in Nat /\ r.seen \in Nat
    /\ (r.job = None \/ IsWrite(r.job)) /\ (r.pend = None \/ IsWrite(r.pend)) /\ (r.pend # None => r.job # None)

\* What it read back while it opens: whole chunks, the last one perhaps not, and
\* still what is stored when nobody else has written since.
Whole(rd) ==
    /\ rd \in Seq(Stored)
    /\ \A i \in 1..Len(rd) : i \in Chunks /\ rd[i] \in Chunk(i) /\ (i < Len(rd) => rd[i].h = TopOf(i))
ReadBack(r, stored) == Whole(r.rd) /\ (r.sole => \A i \in 1..Len(r.rd) : stored[i] = r.rd[i])
Steps(r, stored) ==
    /\ r.pc \in Opening \cup Migrating => r.job = None
    /\ r.pc = "read" => ReadBack(r, stored)
    /\ r.pc = "anchor" => r.rd = <<>>
    /\ r.pc = "sync" => r.held.h < r.want /\ r.held.h < r.leg
    /\ r.pc = "drop" => r.store /\ r.persisted = r.held.h

\* Work is counted from the anchor, whatever the light client is based on.
WorkOk(r) ==
    r.pc \notin Opening => /\ r.base \in AnchorBase..r.held.h
                           /\ r.workBase = Work(At(r.held, r.base - 1)) - AnchorBase

\* Once the writes under way have landed, what counts as stored is stored.
HoldsIn(stored, k, x) ==
    LET h == Min({TopOf(k), x.h}) IN stored[k] # None /\ stored[k].h >= h /\ At(stored[k], h) = At(x, h)
HoldsUpTo(stored, x) == \A k \in 1..chunkOf(x.h) : HoldsIn(stored, k, x)
After(stored, w) == IF w = None THEN stored ELSE Apply(stored, w)
Landed(stored, r) == After(After(stored, r.job), r.pend)
Solid(r, stored) == r.pc \notin Opening /\ r.store /\ r.sole => HoldsUpTo(Landed(stored, r), At(r.held, r.persisted))

SourceOk(r, stored) == SourceType(r) /\ Steps(r, stored) /\ WorkOk(r) /\ Solid(r, stored)
Earned(r, most) == r.held.h <= most /\ r.seen <= most + FLOOR_SLACK

PinIs(p) == p # None => /\ p.tip \in Headers /\ p.tip.h - Newest >= SEED
                        /\ p.work = Work(p.tip) - AnchorBase
StoreOk(stored) == /\ stored \in [Chunks -> Records \cup {None}]
                   /\ \A k \in Chunks : stored[k] # None => stored[k] \in Chunk(k)
DiskOk == StoreOk(chunks) /\ floor \in Nat /\ attempts \in 0..MIGRATE_MAX /\ legacy \in Old
WorldOk ==
    /\ served \in [Sources -> Chains] /\ behind \in BOOLEAN /\ cur \in Sources
    /\ best \in Nat /\ Newest <= best /\ floor <= best + FLOOR_SLACK
    /\ DOMAIN src = Sources /\ \A s \in Sources : Earned(src[s], best)
IInv == DiskOk /\ WorldOk /\ PinIs(pin) /\ \A s \in Sources : SourceOk(src[s], chunks)

-----------------------------------------------------------------------------
(* The restore *)

LEMMA OldIs == ASSUME NEW x \in Old, x # None PROVE Held(x)
  BY SyncAssumption, ChunksFit, Constants DEF Held, Fits

LEMMA ChunkIs ==
    ASSUME NEW k \in Chunks, NEW x \in Chunk(k)
    PROVE  /\ k \in Nat /\ x.h \in Nat /\ chunkOf(x.h) = k /\ Fits(x.h) /\ x \in Stored
           /\ k >= 1 => x.h >= Newest + 1
<1>1. k \in Nat
  BY ChunksFit
<1>2. x.h \in Nat /\ FirstOf(k) <= x.h /\ x.h <= TopOf(k) /\ x \in Stored
  BY DEF Chunk, Stored, Records
<1>3. chunkOf(x.h) \in Nat /\ chunkOf(x.h) <= k /\ k <= chunkOf(x.h)
  BY <1>1, <1>2, ChunkUp, ChunkHolds
<1>4. k >= 1 => x.h >= Newest + 1
  <2> SUFFICES ASSUME k >= 1 PROVE x.h >= Newest + 1
    OBVIOUS
  <2>1. TopOf(0) < FirstOf(k) /\ FirstOf(k) \in Nat /\ 0 \in Nat
    BY <1>1, ChunkOrder, ChunkEnds
  <2> QED BY <1>2, <2>1, ChunkZero, Constants
<1> QED BY <1>1, <1>2, <1>3, <1>4 DEF Fits

TopIn(rd) == IF rd = <<>> THEN Newest ELSE Last(rd).h

LEMMA WholeIs ==
    ASSUME NEW rd, Whole(rd)
    PROVE  /\ Len(rd) \in Nat /\ TopIn(rd) \in Nat /\ FirstOf(Len(rd)) <= TopIn(rd) /\ TopIn(rd) <= TopOf(Len(rd))
           /\ Newest <= TopIn(rd) /\ (Len(rd) = 0 => TopIn(rd) = Newest)
           /\ \A i \in 1..Len(rd) : i < Len(rd) => rd[i].h = TopOf(i)
           /\ Len(rd) > 0 => rd[Len(rd)].h = TopIn(rd)
<1>1. Len(rd) \in Nat /\ rd \in Seq(Stored)
  BY DEF Whole
<1>2. CASE rd = <<>>
  <2>1. Len(rd) = 0 /\ TopIn(rd) = Newest
    BY <1>2 DEF TopIn
  <2> QED BY <2>1, ChunkZero, Constants
<1>3. CASE rd # <<>>
  <2>1. Len(rd) \in 1..Len(rd) /\ Len(rd) > 0
    BY <1>1, <1>3
  <2>2. TopIn(rd) = rd[Len(rd)].h /\ rd[Len(rd)] \in Chunk(Len(rd)) /\ Len(rd) \in Chunks
    BY <1>3, <2>1 DEF TopIn, Last, Whole
  <2>3. TopIn(rd) \in Nat /\ TopIn(rd) >= Newest + 1 /\ FirstOf(Len(rd)) <= TopIn(rd) /\ TopIn(rd) <= TopOf(Len(rd))
    BY <2>1, <2>2, ChunkIs DEF Chunk
  <2>4. \A i \in 1..Len(rd) : i < Len(rd) => rd[i].h = TopOf(i)
    BY DEF Whole
  <2> QED BY <1>1, <2>1, <2>2, <2>3, <2>4, Constants
<1> QED BY <1>2, <1>3

\* The headers of a walk through whole chunks, and after them the old snapshot.
Walk(rd, segs) == \/ segs = rd
                  \/ \E x \in Old \ {None} : x.h > TopIn(rd) /\ segs = rd \o <<x>>

LEMMA WalkIs ==
    ASSUME NEW rd, Whole(rd), NEW segs, Walk(rd, segs)
    PROVE  /\ segs \in Seq(Stored) /\ Len(segs) \in Nat /\ Len(rd) <= Len(segs) /\ Len(segs) <= Len(rd) + 1
           /\ \A i \in 1..Len(segs) : Fits(segs[i].h) /\ (i <= Len(rd) => segs[i] = rd[i])
<1> DEFINE WalksOn ==
             /\ segs \in Seq(Stored) /\ Len(segs) \in Nat /\ Len(rd) <= Len(segs) /\ Len(segs) <= Len(rd) + 1
             /\ \A i \in 1..Len(segs) : Fits(segs[i].h) /\ (i <= Len(rd) => segs[i] = rd[i])
<1>1. rd \in Seq(Stored) /\ \A i \in 1..Len(rd) : Fits(rd[i].h)
  BY ChunkIs DEF Whole
<1>2. CASE segs = rd
  BY <1>1, <1>2
<1>3. ASSUME NEW x \in Old \ {None}, segs = rd \o <<x>> PROVE WalksOn
  <2>1. x \in Headers /\ x.h \in Nat /\ Fits(x.h)
    BY OldIs, HeaderIs DEF Held
  <2>2. x \in Stored /\ <<x>> \in Seq(Stored) /\ Len(<<x>>) = 1 /\ <<x>>[1] = x
    <3>1. x \in Stored
      BY <2>1, HeaderIs DEF Stored, Records
    <3> QED BY <3>1
  <2>3. /\ segs \in Seq(Stored) /\ Len(segs) = Len(rd) + 1
        /\ \A i \in 1..(Len(rd) + 1) : segs[i] = IF i <= Len(rd) THEN rd[i] ELSE <<x>>[i - Len(rd)]
    BY <1>1, <1>3, <2>2, ConcatProperties
  <2>4. \A i \in 1..Len(segs) : (i <= Len(rd) => segs[i] = rd[i]) /\ (i > Len(rd) => segs[i] = x)
    <3> SUFFICES ASSUME NEW i \in 1..Len(segs) PROVE (i <= Len(rd) => segs[i] = rd[i]) /\ (i > Len(rd) => segs[i] = x)
      OBVIOUS
    <3>1. i > Len(rd) => i - Len(rd) = 1
      BY <1>1, <2>3
    <3> QED BY <1>1, <2>2, <2>3, <3>1
  <2>5. \A i \in 1..Len(segs) : Fits(segs[i].h)
    <3> SUFFICES ASSUME NEW i \in 1..Len(segs) PROVE Fits(segs[i].h)
      OBVIOUS
    <3>1. CASE i <= Len(rd)
      BY <1>1, <2>4, <3>1
    <3>2. CASE i > Len(rd)
      BY <2>1, <2>4, <3>2
    <3> QED BY <1>1, <3>1, <3>2
  <2> QED BY <1>1, <2>3, <2>4, <2>5
<1> QED BY <1>2, <1>3 DEF Walk

\* What a restore with every check ends with: a chain the wallet may hold, of which the
\* chunks that were read hold all that counts as stored.
LEMMA FullWalk ==
    ASSUME NEW rd, Whole(rd), NEW segs, Walk(rd, segs), NEW slow,
           NEW x, x = Ingest(Anchor, segs, slow),
           NEW top, top = Min({TopIn(rd), x.h})
    PROVE  /\ Held(x) /\ top \in Newest..x.h
           /\ chunkOf(top) <= Len(rd) /\ HoldsUpTo(rd, At(x, top))
<1>0. Anchor \in Headers /\ Anchor.h = Newest /\ Newest \in Nat /\ Fits(Newest)
  BY AnchorIs, Constants
<1>1. segs \in Seq(Stored) /\ Len(rd) \in Nat /\ Len(segs) \in Nat
  BY WalkIs, WholeIs
<1>2. PICK m : LinksTo(Anchor, segs, m)
  BY <1>1, LinksExist
<1> DEFINE R == Under(Anchor, segs, m + 1)
<1>3. m \in 0..Len(segs) /\ m \in Nat /\ Links(Anchor, segs, m)
  BY <1>1, <1>2 DEF LinksTo
<1>4. \A j \in 1..(m + 1) : Under(Anchor, segs, j) \in Headers /\ Extends(R, Under(Anchor, segs, j))
  BY <1>1, <1>3, LinksUp, <1>0
<1>5. Reached(Anchor, segs) = R
  BY <1>1, <1>2, ReachedIs
<1>6. Under(Anchor, segs, 1) = Anchor /\ \A j \in 1..m : Under(Anchor, segs, j + 1) = segs[j]
  BY <1>3 DEF Under
<1>7. R \in Headers /\ Extends(R, Anchor)
  BY <1>3, <1>4, <1>6
<1>8. R.h \in Nat /\ R.h >= Newest
  BY <1>7, HeaderIs, <1>0 DEF Extends
<1>9. Fits(R.h)
  <2>1. CASE m = 0
    BY <1>6, <2>1, <1>0
  <2>2. CASE m > 0
    <3>1. m \in 1..m /\ m \in 1..Len(segs)
      BY <1>1, <1>3, <2>2
    <3> QED BY <1>1, <1>6, <3>1, WalkIs
  <2> QED BY <1>3, <2>1, <2>2
<1> HIDE DEF R
<1>10. PICK n \in Newest..R.h : x = At(R, n)
  <2>1. x = Timely(R, Newest, slow)
    BY <1>0, <1>5 DEF Ingest
  <2> QED BY <1>7, <1>8, <2>1, TimelyIs, <1>0
<1>11. x \in Headers /\ x.h = n /\ n \in Nat
  BY <1>7, <1>8, <1>10, AtHeader, <1>0
<1>12. Held(x)
  BY <1>8, <1>9, <1>10, <1>11, FitsBelow DEF Held
<1>13. TopIn(rd) \in Nat /\ Newest <= TopIn(rd) /\ TopIn(rd) <= TopOf(Len(rd))
  BY WholeIs
<1>14. top = (IF TopIn(rd) <= n THEN TopIn(rd) ELSE n) /\ top \in Nat /\ top \in Newest..n
  BY <1>10, <1>11, <1>13, Min2
<1>15. chunkOf(top) \in Nat /\ chunkOf(top) <= Len(rd)
  <2>1. TopOf(Len(rd)) \in Nat
    BY <1>1, ChunkEnds
  <2>2. top <= TopOf(Len(rd))
    BY <1>11, <1>13, <1>14, <2>1
  <2> QED BY <1>1, <1>14, <2>2, ChunkUp, ChunkHolds
<1> DEFINE y == At(x, top)
<1>16. y.h = top /\ \A h \in Nat : h <= top => At(y, h) = At(R, h)
  <2>1. y.h = top
    BY AtIs
  <2>2. ASSUME NEW h \in Nat, h <= top PROVE At(y, h) = At(R, h)
    <3>1. At(y, h) = At(x, h)
      BY <1>14, <2>2, AtAt
    <3>2. h <= n /\ At(x, h) = At(R, h)
      BY <1>10, <1>14, <2>2, AtAt
    <3> QED BY <3>1, <3>2
  <2> QED BY <2>1, <2>2
<1>17. ASSUME NEW k \in 1..chunkOf(top) PROVE HoldsIn(rd, k, y)
  <2>1. k \in Nat /\ k \in 1..Len(rd) /\ k <= Len(rd) /\ TopOf(k) \in Nat /\ FirstOf(k) \in Nat
    BY <1>1, <1>15, ChunkEnds
  <2> DEFINE h == Min({TopOf(k), y.h})
  <2>2. h = (IF TopOf(k) <= top THEN TopOf(k) ELSE top) /\ h \in Nat /\ h <= top /\ h <= TopOf(k)
    <3>1. h = Min({TopOf(k), top})
      BY <1>16
    <3>2. TopOf(k) \in Int /\ top \in Int /\ TopOf(k) \in Nat /\ top \in Nat
      BY <1>14, <2>1
    <3>3. Min({TopOf(k), top}) = IF TopOf(k) <= top THEN TopOf(k) ELSE top
      BY <3>2, Min2
    <3> HIDE DEF h
    <3> QED BY <3>1, <3>2, <3>3
  <2>3. rd[k] \in Stored /\ segs[k] = rd[k] /\ k \in 1..Len(segs)
    BY <1>1, <2>1, WalkIs DEF Whole
  <2>4. rd[k].h \in Nat /\ rd[k].h >= h
    <3>1. CASE k < Len(rd)
      BY <2>1, <2>2, <3>1, WholeIs
    <3>2. CASE k = Len(rd)
      BY <1>11, <1>13, <1>14, <2>1, <2>2, <3>2, WholeIs
    <3> QED BY <2>1, <3>1, <3>2
  <2>5. k <= m
    <3> SUFFICES ASSUME k > m PROVE FALSE
      BY <1>3, <2>1
    <3>1. FirstOf(k) <= top
      BY <1>14, <2>1, ChunkUp
    <3>2. m < k /\ TopOf(m) < FirstOf(k) /\ TopOf(m) \in Nat
      BY <1>3, <2>1, ChunkOrder, ChunkEnds
    <3>3. R.h <= TopOf(m)
      <4>1. CASE m = 0
        BY <1>6, <4>1, ChunkZero, <1>0 DEF R
      <4>2. CASE m > 0
        <5>1. m \in 1..Len(rd) /\ m \in 1..m /\ m \in 1..Len(segs) /\ m <= Len(rd)
          BY <1>1, <1>3, <2>1, <3>2, <4>2
        <5>2. R = rd[m]
          BY <1>6, <5>1, WalkIs DEF R
        <5>3. rd[m] \in Chunk(m)
          BY <5>1 DEF Whole
        <5> QED BY <5>2, <5>3 DEF Chunk
      <4> QED BY <1>3, <4>1, <4>2
    <3> QED BY <1>8, <1>10, <1>14, <2>1, <3>1, <3>2, <3>3
  <2>6. Under(Anchor, segs, k + 1) = rd[k] /\ k + 1 \in 1..(m + 1)
    BY <1>3, <1>6, <2>1, <2>3, <2>5
  <2>7. rd[k] \in Headers /\ Extends(R, rd[k])
    BY <1>4, <2>6
  <2>8. At(rd[k], h) = At(R, h)
    <3> HIDE DEF h
    <3> QED BY <1>7, <2>2, <2>4, <2>7, ExtendsAt
  <2>9. rd[k] # None
    BY <2>3, ChainAssumption DEF Stored, Records
  <2> QED BY <1>16, <2>2, <2>4, <2>8, <2>9 DEF HoldsIn
<1> QED BY <1>11, <1>12, <1>14, <1>15, <1>16, <1>17 DEF HoldsUpTo

IsRest(t, s, c) == /\ t \in Seq(Stored) /\ Len(t) = Len(s) - c + 1
                   /\ \A j \in 1..(Len(s) - c + 1) : t[j] = s[c + j - 1]
LEMMA DropSeq ==
    ASSUME NEW s \in Seq(Stored), NEW c \in Nat, 1 <= c, c <= Len(s) + 1
    PROVE  IsRest(SubSeq(s, c, Len(s)), s, c)
<1> DEFINE t == SubSeq(s, c, Len(s))  S == Stored
<1>1. (\A i \in c..Len(s) : s[i] \in S) /\ c \in Int /\ Len(s) \in Int
  OBVIOUS
<1>2. /\ t \in Seq(S) /\ Len(t) = IF c <= Len(s) THEN Len(s) - c + 1 ELSE 0
      /\ \A j \in 1..(Len(s) - c + 1) : t[j] = s[c + j - 1]
  BY <1>1, SubSeqProperties
<1> QED BY <1>1, <1>2 DEF IsRest

\* The shortcut by a pin ends where the walk from the anchor ends.
LEMMA Shortcut ==
    ASSUME NEW rd, Whole(rd), NEW p \in Headers, p.h > Newest, NEW slow, NEW above,
           above = SubSeq(rd, chunkOf(p.h + 1), Len(rd)),
           LET x == Ingest(Anchor, rd, FALSE) IN x.h >= p.h /\ At(x, p.h) = p,
           Timely(p, Newest, slow) = p
    PROVE  Ingest(p, above, slow) = Ingest(Anchor, rd, slow) /\ Extends(Ingest(p, above, slow), p)
<1>0. Anchor \in Headers /\ Anchor.h = Newest /\ Newest \in Nat
  BY AnchorIs, Constants
<1>1. rd \in Seq(Stored) /\ Len(rd) \in Nat /\ p.h \in Nat
  BY WholeIs, HeaderIs DEF Whole
<1>2. PICK m : LinksTo(Anchor, rd, m)
  BY <1>1, LinksExist
<1> DEFINE R == Under(Anchor, rd, m + 1)
           c == chunkOf(p.h + 1)
           n == m + 1 - c
<1>3. m \in 0..Len(rd) /\ m \in Nat /\ Links(Anchor, rd, m)
  BY <1>1, <1>2 DEF LinksTo
<1>4. \A j \in 1..(m + 1) : Under(Anchor, rd, j) \in Headers /\ Extends(R, Under(Anchor, rd, j))
  BY <1>1, <1>3, LinksUp, <1>0
<1>5. Reached(Anchor, rd) = R
  BY <1>1, <1>2, ReachedIs
<1>6. Under(Anchor, rd, 1) = Anchor /\ \A j \in 1..m : Under(Anchor, rd, j + 1) = rd[j]
  BY <1>3 DEF Under
<1>7. R \in Headers /\ R.h \in Nat
  <2>1. R \in Headers
    BY <1>3, <1>4
  <2> HIDE DEF R
  <2> QED BY <2>1, HeaderIs
<1>8. R.h >= p.h /\ At(R, p.h) = p
  BY <1>5 DEF Ingest, Timely
<1>9. m >= 1 /\ R = rd[m] /\ m \in 1..Len(rd)
  <2>1. m # 0
    BY <1>1, <1>6, <1>8, <1>0
  <2> QED BY <1>3, <1>6, <2>1
<1>10. R.h <= TopOf(m) /\ TopOf(m) \in Nat /\ TopOf(m) + 1 = FirstOf(m + 1)
  <2>1. rd[m] \in Chunk(m)
    BY <1>9 DEF Whole
  <2> QED BY <1>3, <1>9, <2>1, ChunkEnds DEF Chunk
<1> HIDE DEF R
<1>11. p.h + 1 \in Nat /\ c \in Nat /\ FirstOf(c) <= p.h + 1 /\ p.h + 1 <= TopOf(c) /\ TopOf(c) \in Nat /\ FirstOf(c) \in Nat
  <2>1. p.h + 1 \in Nat
    BY <1>1
  <2> QED BY <2>1, ChunkHolds, ChunkEnds
<1>12. c >= 1
  <2>1. FirstOf(1) = Newest + 1
    <3>1. FirstOf(0 + 1) = TopOf(0) + 1
      BY ChunkEnds
    <3> QED BY <3>1, ChunkZero
  <2>2. 1 <= c <=> FirstOf(1) <= p.h + 1
    BY <1>11, ChunkUp
  <2> QED BY <1>1, <2>1, <2>2, <1>0
<1>13. c <= m + 1
  <2>1. FirstOf(m + 1) <= TopOf(m + 1) /\ m + 1 \in Nat /\ FirstOf(m + 1) \in Nat /\ TopOf(m + 1) \in Nat
    BY <1>3, ChunkEnds
  <2>2. p.h + 1 <= TopOf(m + 1)
    BY <1>1, <1>7, <1>8, <1>10, <2>1
  <2> QED BY <1>11, <2>1, <2>2, ChunkUp
<1> HIDE DEF c
<1>14. /\ above \in Seq(Stored) /\ Len(above) = Len(rd) - c + 1
       /\ \A j \in 1..(Len(rd) - c + 1) : above[j] = rd[c + j - 1]
  <2>1. above = SubSeq(rd, c, Len(rd))
    BY DEF c
  <2>2. c <= Len(rd) + 1
    BY <1>3, <1>11, <1>13
  <2>3. c \in Nat /\ 1 <= c
    BY <1>11, <1>12
  <2>4. IsRest(above, rd, c)
    BY <1>1, <2>1, <2>2, <2>3, DropSeq
  <2> QED BY <2>4 DEF IsRest
<1>15. n \in 0..Len(above) /\ n \in Nat
  BY <1>1, <1>3, <1>11, <1>12, <1>13, <1>14
\* The next stored header after the pin extends it.
<1>16. c <= m => Extends(rd[c], p)
  <2> SUFFICES ASSUME c <= m PROVE Extends(rd[c], p)
    OBVIOUS
  <2>1. c \in 1..m /\ c + 1 \in 1..(m + 1) /\ c \in 1..Len(rd)
    BY <1>1, <1>3, <1>11, <1>12
  <2>2. rd[c] \in Headers /\ Extends(R, rd[c])
    BY <1>4, <1>6, <2>1
  <2>3. rd[c].h >= p.h /\ rd[c].h \in Nat
    <3>1. CASE c < Len(rd)
      BY <1>1, <1>11, <2>1, <3>1 DEF Whole
    <3>2. CASE c = Len(rd)
      BY <1>3, <1>8, <1>9, <2>1, <3>2, <1>7
    <3> QED BY <1>1, <2>1, <3>1, <3>2
  <2>4. At(rd[c], p.h) = At(R, p.h)
    BY <1>1, <2>2, <2>3, ExtendsAt
  <2> QED BY <1>8, <2>2, <2>3, <2>4, HeaderIs DEF Extends
<1>17. c = m + 1 => p = R
  <2> SUFFICES ASSUME c = m + 1 PROVE p = R
    OBVIOUS
  <2>1. p.h = R.h
    BY <1>1, <1>7, <1>8, <1>10, <1>11
  <2> QED BY <1>7, <1>8, <2>1, AtSelf
<1>18. \A j \in 1..(n + 1) : Under(p, above, j) = IF j = 1 THEN p ELSE rd[c + j - 2]
  <2> SUFFICES ASSUME NEW j \in 1..(n + 1), j # 1 PROVE Under(p, above, j) = rd[c + j - 2]
    BY DEF Under
  <2>1. j - 1 \in 1..(Len(rd) - c + 1) /\ c + (j - 1) - 1 = c + j - 2
    BY <1>1, <1>11, <1>14, <1>15
  <2> QED BY <1>14, <2>1 DEF Under
<1>19. Links(p, above, n)
  <2> SUFFICES ASSUME NEW j \in 1..n PROVE Extends(above[j], Under(p, above, j))
    BY DEF Links
  <2>1. j \in 1..(Len(rd) - c + 1) /\ j \in 1..(n + 1) /\ c + j - 1 \in 1..m
    BY <1>1, <1>3, <1>11, <1>12, <1>14, <1>15
  <2>2. above[j] = rd[c + j - 1]
    BY <1>14, <2>1
  <2>3. CASE j = 1
    <3>1. c + j - 1 = c /\ c <= m
      BY <1>3, <1>11, <2>1, <2>3
    <3> QED BY <1>16, <1>18, <2>1, <2>2, <2>3, <3>1
  <2>4. CASE j # 1
    <3>1. c + j - 2 \in 1..m /\ (c + j - 2) + 1 = c + j - 1
      BY <1>3, <1>11, <1>12, <2>1, <2>4
    <3>2. Extends(rd[c + j - 1], Under(Anchor, rd, c + j - 1))
      BY <1>3, <2>1 DEF Links
    <3>3. Under(Anchor, rd, c + j - 1) = rd[c + j - 2]
      BY <1>6, <3>1
    <3> QED BY <1>18, <2>1, <2>2, <2>4, <3>2, <3>3
  <2> QED BY <2>3, <2>4
<1>20. Under(p, above, n + 1) = R
  <2>1. n + 1 \in 1..(n + 1)
    BY <1>15
  <2>2. CASE n = 0
    <3>1. c = m + 1
      BY <1>3, <1>11, <2>2
    <3> QED BY <1>17, <1>18, <2>1, <2>2, <3>1
  <2>3. CASE n # 0
    <3>1. n + 1 # 1 /\ c + (n + 1) - 2 = m
      BY <1>3, <1>11, <1>15, <2>3
    <3> QED BY <1>9, <1>18, <2>1, <3>1
  <2> QED BY <2>2, <2>3
<1>21. n < Len(above) => ~Extends(above[n + 1], Under(p, above, n + 1))
  <2> SUFFICES ASSUME n < Len(above) PROVE ~Extends(above[n + 1], Under(p, above, n + 1))
    OBVIOUS
  <2>1. n \in Nat /\ n < Len(rd) - c + 1 /\ c + n = m + 1
    BY <1>3, <1>11, <1>14, <1>15
  <2> HIDE DEF n
  <2>5. n + 1 \in 1..(Len(rd) - c + 1) /\ c + (n + 1) - 1 = m + 1 /\ m < Len(rd)
    BY <1>1, <1>3, <1>11, <2>1
  <2>2. above[n + 1] = rd[m + 1]
    BY <1>14, <2>5
  <2>3. ~Extends(rd[m + 1], Under(Anchor, rd, m + 1))
    BY <1>2, <2>5 DEF LinksTo
  <2> QED BY <1>20, <2>2, <2>3 DEF R
<1>22. LinksTo(p, above, n)
  BY <1>15, <1>19, <1>21 DEF LinksTo
<1> HIDE DEF n
<1>23. Reached(p, above) = R
  BY <1>14, <1>20, <1>22, ReachedIs
<1>24. Timely(R, Newest, slow) = Timely(R, p.h, slow)
  <2>1. Newest <= p.h
    BY <1>1, <1>0
  <2> QED BY <1>1, <1>7, <1>8, <2>1, TimelyRest, <1>0
<1>25. Extends(Timely(R, p.h, slow), p)
  <2>1. PICK k \in p.h..R.h : Timely(R, p.h, slow) = At(R, k)
    BY <1>1, <1>7, <1>8, TimelyIs
  <2>2. Extends(At(R, k), At(R, p.h))
    BY <1>1, <1>7, <2>1, ExtendsBelow
  <2> QED BY <1>8, <2>1, <2>2
<1> QED BY <1>5, <1>23, <1>24, <1>25, <1>0 DEF Ingest

LEMMA SuffixIs ==
    ASSUME NEW r, r.lg \in Old, Whole(r.rd)
    PROVE  Walk(r.rd, Suffix(r)) /\ storedTip(r) = TopIn(r.rd)
<1>1. storedTip(r) = TopIn(r.rd)
  BY DEF storedTip, TopIn
<1>2. r.rd \in Seq(Stored)
  BY DEF Whole
<1>3. CASE r.lg # None /\ r.lg.h > storedTip(r)
  BY <1>1, <1>3 DEF Walk, Suffix
<1>4. CASE ~(r.lg # None /\ r.lg.h > storedTip(r))
  <2>1. Suffix(r) = r.rd \o <<>>
    BY <1>4 DEF Suffix
  <2>2. Suffix(r) = r.rd
    BY <1>2, <2>1, ConcatEmptySeq
  <2> QED BY <1>1, <2>2 DEF Walk
<1> QED BY <1>3, <1>4

\* The restore: the chain a restore with every check gives, work counted from the anchor.
LEMMA RestoredOk ==
    ASSUME NEW r, DOMAIN r = Fields, r.lg \in Old, Whole(r.rd), PinIs(pin),
           NEW q, q = Restored(r)
    PROVE  /\ q.held = FullRestore(r) /\ q.base \in AnchorBase..q.held.h
           /\ q.workBase = Work(At(q.held, q.base - 1)) - AnchorBase
           /\ DOMAIN q = Fields /\ \A f \in Fields \ {"held", "base", "workBase", "rp"} : q[f] = r[f]
<1>1. Walk(r.rd, Suffix(r)) /\ storedTip(r) = TopIn(r.rd) /\ Anchor.h = Newest
  BY SuffixIs, AnchorIs
<1>2. Held(FullRestore(r))
  <2> DEFINE x == FullRestore(r)
             top == Min({TopIn(r.rd), x.h})
  <2>1. x = Ingest(Anchor, Suffix(r), behind)
    BY DEF FullRestore
  <2>2. top = Min({TopIn(r.rd), x.h})
    OBVIOUS
  <2> HIDE DEF x, top
  <2>3. Held(x)
    BY <1>1, <2>1, <2>2, FullWalk
  <2> QED BY <2>3 DEF x
<1>3. CASE ~Pinned(r)
  <2>1. q = [r EXCEPT !.held = FullRestore(r), !.base = AnchorBase, !.workBase = 0, !.rp = q.rp]
    BY <1>3 DEF Restored, Fields
  <2>2. /\ q.held = FullRestore(r) /\ q.base = AnchorBase /\ q.workBase = 0 /\ DOMAIN q = Fields
        /\ \A f \in Fields \ {"held", "base", "workBase", "rp"} : q[f] = r[f]
    BY <2>1 DEF Fields
  <2>3. q.held \in Headers /\ q.held.h \in Nat /\ Newest <= q.held.h
    BY <1>2, <2>2, HeaderIs DEF Held
  <2>4. Work(At(q.held, AnchorBase - 1)) = AnchorBase
    <3>1. AnchorBase - 1 \in Int /\ -1 <= AnchorBase - 1 /\ AnchorBase - 1 <= q.held.h /\ AnchorBase - 1 <= Fork
      BY <2>3, Constants
    <3> QED BY <2>3, <3>1, WorkIs, Constants
  <2> QED BY <2>2, <2>3, <2>4, Constants
<1>4. CASE Pinned(r)
  <2> DEFINE p == pin.tip
             above == AbovePin(r, p)
             base == p.h - SEED + 1
  <2>1. pin # None /\ p \in Headers /\ p.h - Newest >= SEED /\ pin.work = Work(p) - AnchorBase /\ p.h \in Nat
    BY <1>4, HeaderIs DEF Pinned, PinIs
  <2>2. ~(r.lg # None /\ r.lg.h > storedTip(r)) /\ Suffix(r) = r.rd
    <3>1. ~(r.lg # None /\ r.lg.h > storedTip(r))
      BY <1>4 DEF Pinned
    <3>2. Suffix(r) = r.rd \o <<>> /\ r.rd \in Seq(Stored)
      BY <3>1 DEF Suffix, Whole
    <3> QED BY <3>1, <3>2, ConcatEmptySeq
  <2>3. above = SubSeq(r.rd, chunkOf(p.h + 1), Len(r.rd))
    BY DEF AbovePin
  <2>4. LET x == Ingest(Anchor, r.rd, FALSE) IN x.h >= p.h /\ At(x, p.h) = p
    BY <1>4 DEF Pinned, Walks
  <2>5. Timely(p, Newest, behind) = p
    BY <1>4 DEF Pinned, latestTimeHolds
  <2>6. Ingest(p, above, behind) = Ingest(Anchor, r.rd, behind) /\ Extends(Ingest(p, above, behind), p)
    <3>1. p.h > Newest
      BY <2>1, Constants
    <3> HIDE DEF p, above
    <3> QED BY <2>1, <2>3, <2>4, <2>5, <3>1, Shortcut
  <2>7. /\ q.held = Ingest(p, above, behind) /\ q.base = base /\ q.workBase = pin.work - LcWork(p, base)
        /\ DOMAIN q = Fields /\ \A f \in Fields \ {"held", "base", "workBase", "rp"} : q[f] = r[f]
    BY <1>4 DEF Restored, Fields
  <2>8. q.held = FullRestore(r)
    BY <2>2, <2>6, <2>7 DEF FullRestore
  <2>9. q.held \in Headers /\ q.held.h \in Nat /\ Extends(q.held, p)
    BY <1>2, <2>6, <2>7, <2>8, HeaderIs DEF Held
  <2>10. base \in AnchorBase..q.held.h /\ base - 1 \in Int /\ base - 1 <= p.h /\ -1 <= base - 1
    BY <2>1, <2>9, Constants DEF Extends
  <2> HIDE DEF base, p, above
  <2>11. At(q.held, base - 1) = At(p, base - 1)
    BY <2>1, <2>9, <2>10, ExtendsAt
  <2>12. Work(p) \in Nat /\ Work(At(p, base - 1)) \in Nat
    <3>1. Work(At(p, p.h)) \in Nat /\ At(p, p.h) = p
      BY <2>1, WorkIs, AtSelf
    <3> QED BY <2>1, <2>10, <3>1, WorkIs
  <2>13. LcWork(p, base) = Work(p) - Work(At(p, base - 1))
    BY DEF LcWork
  <2> QED BY <2>1, <2>7, <2>8, <2>10, <2>11, <2>12, <2>13, Constants
<1> QED BY <1>3, <1>4

-----------------------------------------------------------------------------
(* The writes of the store *)

LEMMA NoneIs ==
    /\ \A x \in Stored : x # None
    /\ \A w : IsWrite(w) => w # None
<1>1. \A x \in Stored : x # None
  BY ChainAssumption DEF Stored
<1>2. ASSUME NEW w, IsWrite(w) PROVE w # None
  <2>1. DOMAIN w.put \in SUBSET Chunks /\ w \in [put : [DOMAIN w.put -> Records], above : Nat, head : Headers]
    BY <1>2 DEF IsWrite
  <2> QED BY <2>1, WriteAssumption
<1> QED BY <1>1, <1>2

\* A write of the headers above a stored height begins with the chunk of the next one.
LEMMA SuffixWriteIs ==
    ASSUME NEW x, Held(x), NEW above \in Newest..x.h, above < x.h, NEW w, w = SuffixWrite(x, above)
    PROVE  LET c == chunkOf(above + 1) IN
           /\ w.put = [k \in c..chunkOf(x.h) |-> At(x, Min({TopOf(k), x.h}))]
           /\ w.above = chunkOf(x.h) /\ IsWrite(w)
           /\ c \in Nat /\ 1 <= c /\ above <= TopOf(c) /\ TopOf(c - 1) <= above
<1> DEFINE c == chunkOf(above + 1)
           put == [k \in c..chunkOf(x.h) |-> At(x, Min({TopOf(k), x.h}))]
<1>1. x \in Headers /\ x.h \in Nat /\ above \in Nat /\ above + 1 \in Nat /\ Fits(x.h) /\ Newest \in Nat
  BY HeaderIs, Constants DEF Held
<1>2. c \in Nat /\ FirstOf(c) <= above + 1 /\ above + 1 <= TopOf(c) /\ FirstOf(c) \in Nat /\ TopOf(c) \in Nat
      /\ FirstOf(c) <= TopOf(c)
  BY <1>1, ChunkHolds, ChunkEnds
<1>3. TopOf(0) = Newest /\ FirstOf(1) = Newest + 1
  <2>1. FirstOf(0 + 1) = TopOf(0) + 1
    BY ChunkEnds
  <2> QED BY <2>1, ChunkZero
<1>4. 1 <= c
  <2>1. 1 <= c <=> FirstOf(1) <= above + 1
    BY <1>1, ChunkUp
  <2> QED BY <1>1, <1>3, <2>1
<1>5. TopOf(c - 1) + 1 = FirstOf(c) /\ TopOf(c - 1) \in Nat
  <2>1. c - 1 \in Nat /\ (c - 1) + 1 = c
    BY <1>2, <1>4
  <2> QED BY <2>1, ChunkEnds
<1>6. FirstOf(c) >= Newest + 1
  <2>1. 0 < c /\ 0 \in Nat
    BY <1>2, <1>4
  <2>2. TopOf(0) < FirstOf(c)
    BY <1>2, <2>1, ChunkOrder
  <2> QED BY <1>1, <1>2, <1>3, <2>2
<1>7. Max({FirstOf(c), Newest + 1}) = FirstOf(c)
  BY <1>1, <1>2, <1>6, Max2
<1>8. chunkOf(FirstOf(c)) = c
  <2>1. chunkOf(FirstOf(c)) \in Nat /\ c <= chunkOf(FirstOf(c)) /\ chunkOf(FirstOf(c)) <= c
    BY <1>2, ChunkUp, ChunkHolds
  <2> QED BY <1>2, <2>1
<1>9. w = [put |-> put, above |-> chunkOf(x.h), head |-> x]
  <2>1. chunkOf(above + 1) * SPV_CHUNK = FirstOf(c)
    BY DEF FirstOf
  <2> HIDE DEF c
  <2>2. chunkOf(Max({chunkOf(above + 1) * SPV_CHUNK, Newest + 1})) = c
    BY <1>7, <1>8, <2>1
  <2> QED BY <2>2 DEF SuffixWrite
<1>10. chunkOf(x.h) \in Nat /\ \A k \in 0..chunkOf(x.h) : k \in Chunks
  BY <1>1, ChunkHolds, FitsBelow
<1>11. ASSUME NEW k \in c..chunkOf(x.h) PROVE put[k] \in Records /\ put[k] \in Chunk(k) /\ k \in Chunks
  <2>1. k \in Nat /\ k \in Chunks /\ FirstOf(k) <= x.h /\ FirstOf(k) \in Nat /\ TopOf(k) \in Nat /\ FirstOf(k) <= TopOf(k)
    <3>1. k \in Nat /\ k \in 0..chunkOf(x.h) /\ k <= chunkOf(x.h)
      BY <1>2, <1>10
    <3> QED BY <1>1, <1>10, <3>1, ChunkUp, ChunkEnds
  <2>2. Min({TopOf(k), x.h}) = IF TopOf(k) <= x.h THEN TopOf(k) ELSE x.h
    BY <1>1, <2>1, Min2
  <2> DEFINE h == Min({TopOf(k), x.h})
  <2>3. h \in Nat /\ h <= x.h /\ FirstOf(k) <= h /\ h <= TopOf(k)
    BY <1>1, <2>1, <2>2
  <2>4. put[k] = At(x, h)
    OBVIOUS
  <2> HIDE DEF h, put
  <2>5. At(x, h) \in Headers /\ At(x, h).h = h
    BY <1>1, <2>3, AtHeader
  <2>6. At(x, h) \in Records /\ At(x, h) \in Stored
    BY <2>5 DEF Headers, Stored
  <2> QED BY <2>1, <2>3, <2>4, <2>5, <2>6 DEF Chunk
<1>12. IsWrite(w)
  <2>1. w.put = put /\ w.above = chunkOf(x.h) /\ w.head = x /\ DOMAIN put = c..chunkOf(x.h)
    BY <1>9
  <2> HIDE DEF put, c
  <2>2. put \in [DOMAIN put -> Records] /\ DOMAIN put \subseteq Chunks /\ \A k \in DOMAIN put : put[k] \in Chunk(k)
    <3>1. put = [k \in c..chunkOf(x.h) |-> put[k]]
      BY <2>1 DEF put
    <3> QED BY <1>11, <2>1, <3>1
  <2> QED BY <1>1, <1>9, <1>10, <2>1, <2>2 DEF IsWrite
<1> QED BY <1>1, <1>2, <1>4, <1>5, <1>9, <1>12

LEMMA ApplyOk ==
    ASSUME NEW st, StoreOk(st), NEW w, IsWrite(w)
    PROVE  StoreOk(Apply(st, w))
<1>1. DOMAIN st = Chunks /\ \A k \in Chunks : st[k] \in Records \cup {None} /\ (st[k] # None => st[k] \in Chunk(k))
  BY DEF StoreOk
<1>2. \A k \in DOMAIN w.put : w.put[k] \in Records /\ w.put[k] \in Chunk(k)
  BY DEF IsWrite
<1> QED BY <1>1, <1>2 DEF StoreOk, Apply

LEMMA MergeOk == ASSUME NEW o, IsWrite(o), NEW n, IsWrite(n) PROVE IsWrite(mergeStoreWrites(o, n))
<1> DEFINE kept == {k \in DOMAIN o.put : k <= n.above}
           D == kept \cup DOMAIN n.put
           put == [k \in D |-> IF k \in DOMAIN n.put THEN n.put[k] ELSE o.put[k]]
           w == mergeStoreWrites(o, n)
<1>1. w = [n EXCEPT !.put = put]
  BY DEF mergeStoreWrites
<1>2. /\ \A k \in DOMAIN o.put : o.put[k] \in Records /\ o.put[k] \in Chunk(k) /\ k \in Chunks
      /\ \A k \in DOMAIN n.put : n.put[k] \in Records /\ n.put[k] \in Chunk(k) /\ k \in Chunks
  BY DEF IsWrite
<1>3. put \in [D -> Records] /\ D \subseteq Chunks /\ \A k \in D : put[k] \in Chunk(k)
  BY <1>2
<1>4. n \in [put : [DOMAIN n.put -> Records], above : Nat, head : Headers]
  BY DEF IsWrite
<1>5. w.put = put /\ w \in [put : [D -> Records], above : Nat, head : Headers] /\ DOMAIN w.put = D
  <2> HIDE DEF D, w
  <2>1. DOMAIN put = D
    OBVIOUS
  <2> HIDE DEF put
  <2> QED BY <1>1, <1>3, <1>4, <2>1
<1> HIDE DEF D, w, put
<1>6. IsWrite(w)
  BY <1>3, <1>5 DEF IsWrite
<1> QED BY <1>6 DEF w

\* Merging waiting writes loses nothing that would be stored after both.
LEMMA MergeKeeps ==
    ASSUME NEW st, DOMAIN st = Chunks, NEW o, IsWrite(o), NEW n, IsWrite(n), NEW k \in Chunks,
           Apply(Apply(st, o), n)[k] # None
    PROVE  Apply(st, mergeStoreWrites(o, n))[k] = Apply(Apply(st, o), n)[k]
<1> DEFINE kept == {j \in DOMAIN o.put : j <= n.above}
           D == kept \cup DOMAIN n.put
           put == [j \in D |-> IF j \in DOMAIN n.put THEN n.put[j] ELSE o.put[j]]
           w == mergeStoreWrites(o, n)
<1>1. w.put = put /\ w.above = n.above
  <2>1. w = [n EXCEPT !.put = put]
    BY DEF mergeStoreWrites
  <2>2. DOMAIN n = {"put", "above", "head"}
    BY DEF IsWrite
  <2> HIDE DEF put, w
  <2> QED BY <2>1, <2>2
<1>2. k \in Nat /\ n.above \in Nat
  BY ChunksFit DEF IsWrite
<1>3. \A m, v : DOMAIN m = Chunks => /\ DOMAIN Apply(m, v) = Chunks
                                     /\ Apply(m, v)[k] = IF k \in DOMAIN v.put THEN v.put[k]
                                                         ELSE IF k > v.above THEN None ELSE m[k]
  BY DEF Apply
<1>4. Apply(st, w)[k] = IF k \in D THEN put[k] ELSE IF k > n.above THEN None ELSE st[k]
  <2>1. DOMAIN put = D
    OBVIOUS
  <2> HIDE DEF w, put, D
  <2> QED BY <1>1, <1>3, <2>1
<1>5. CASE k \in DOMAIN n.put
  BY <1>3, <1>4, <1>5
<1>6. CASE k \notin DOMAIN n.put
  <2>1. ~(k > n.above) /\ Apply(Apply(st, o), n)[k] = Apply(st, o)[k] /\ k <= n.above
    BY <1>2, <1>3, <1>6
  <2>2. CASE k \in DOMAIN o.put
    BY <1>3, <1>4, <1>6, <2>1, <2>2
  <2>3. CASE k \notin DOMAIN o.put
    BY <1>3, <1>4, <1>6, <2>1, <2>3
  <2> QED BY <2>2, <2>3
<1> QED BY <1>5, <1>6

LEMMA HoldsKeeps ==
    ASSUME NEW st, NEW most, NEW x, Held(x), HoldsUpTo(most, x), \A k \in Chunks : k >= 1 /\ most[k] # None => st[k] = most[k]
    PROVE  HoldsUpTo(st, x)
<1> SUFFICES ASSUME NEW k \in 1..chunkOf(x.h) PROVE HoldsIn(st, k, x)
  BY DEF HoldsUpTo
<1>1. HoldsIn(most, k, x)
  BY DEF HoldsUpTo
<1>2. k \in Chunks /\ k >= 1
  <2>1. x.h \in Nat /\ Fits(x.h) /\ chunkOf(x.h) \in Nat
    BY HeaderIs, ChunkHolds DEF Held
  <2>2. k \in 0..chunkOf(x.h) /\ k >= 1
    BY <2>1
  <2> QED BY <2>1, <2>2, FitsBelow
<1>3. st[k] = most[k]
  BY <1>1, <1>2 DEF HoldsIn
<1> QED BY <1>1, <1>3 DEF HoldsIn

\* After a write of the headers above what was stored, the whole chain is.
LEMMA WriteHolds ==
    ASSUME NEW x, Held(x), NEW above \in Newest..x.h, above < x.h, NEW st, DOMAIN st = Chunks,
           HoldsUpTo(st, At(x, above)), NEW w, w = SuffixWrite(x, above)
    PROVE  HoldsUpTo(Apply(st, w), x)
<1> DEFINE c == chunkOf(above + 1)
<1>1. x \in Headers /\ x.h \in Nat /\ Fits(x.h) /\ above \in Nat /\ chunkOf(x.h) \in Nat
  BY HeaderIs, Constants, ChunkHolds DEF Held
<1>2. /\ w.put = [k \in c..chunkOf(x.h) |-> At(x, Min({TopOf(k), x.h}))] /\ w.above = chunkOf(x.h)
      /\ c \in Nat /\ 1 <= c /\ above <= TopOf(c) /\ TopOf(c - 1) <= above
  BY SuffixWriteIs
<1> HIDE DEF c
<1> SUFFICES ASSUME NEW k \in 1..chunkOf(x.h) PROVE HoldsIn(Apply(st, w), k, x)
  BY DEF HoldsUpTo
<1>3. k \in Nat /\ k \in Chunks /\ TopOf(k) \in Nat
  <2>1. k \in 0..chunkOf(x.h) /\ k \in Nat
    BY <1>1
  <2>2. k \in Chunks
    BY <1>1, <2>1, FitsBelow
  <2> QED BY <2>1, <2>2, ChunkEnds
<1>4. Apply(st, w)[k] = IF k \in DOMAIN w.put THEN w.put[k] ELSE IF k > w.above THEN None ELSE st[k]
  BY <1>3 DEF Apply
<1> DEFINE h == Min({TopOf(k), x.h})
<1>5. h = (IF TopOf(k) <= x.h THEN TopOf(k) ELSE x.h) /\ h \in Nat /\ h <= x.h /\ h <= TopOf(k)
  <2>1. h = IF TopOf(k) <= x.h THEN TopOf(k) ELSE x.h
    BY <1>1, <1>3, Min2
  <2> HIDE DEF h
  <2> QED BY <1>1, <1>3, <2>1
<1>6. CASE k >= c
  <2>1. k \in c..chunkOf(x.h)
    BY <1>1, <1>2, <1>3, <1>6
  <2>2. Apply(st, w)[k] = At(x, h)
    BY <1>2, <1>4, <2>1
  <2> HIDE DEF h
  <2>3. At(x, h) \in Headers /\ At(x, h).h = h /\ At(At(x, h), h) = At(x, h)
    <3>1. h \in Nat /\ h \in Int /\ h <= x.h /\ h <= h
      BY <1>5
    <3>2. At(At(x, h), h) = At(x, h)
      BY <3>1, AtAt
    <3> QED BY <1>1, <3>1, <3>2, AtHeader
  <2>4. At(x, h) # None
    BY <2>3, ChainAssumption DEF Headers
  <2> QED BY <1>5, <2>2, <2>3, <2>4 DEF HoldsIn, h
<1>7. CASE k < c
  <2>1. k \notin c..chunkOf(x.h) /\ ~(k > w.above)
    BY <1>1, <1>2, <1>3, <1>7
  <2>2. Apply(st, w)[k] = st[k]
    BY <1>2, <1>4, <2>1
  <2>3. TopOf(k) <= above
    <3>1. CASE k = c - 1
      BY <1>2, <3>1
    <3>2. CASE k # c - 1
      <4>1. c - 1 \in Nat /\ k < c - 1
        BY <1>2, <1>3, <1>7, <3>2
      <4>2. TopOf(k) < FirstOf(c - 1) /\ FirstOf(c - 1) <= TopOf(c - 1) /\ FirstOf(c - 1) \in Nat /\ TopOf(c - 1) \in Nat
        BY <1>3, <4>1, ChunkOrder, ChunkEnds
      <4> QED BY <1>1, <1>2, <1>3, <4>2
    <3> QED BY <3>1, <3>2
  <2> DEFINE y == At(x, above)
  <2>4. y.h = above
    BY AtIs
  <2>5. k <= chunkOf(above)
    <3>1. FirstOf(k) <= above
      BY <1>1, <1>3, <2>3, ChunkEnds
    <3> QED BY <1>1, <1>3, <3>1, ChunkUp
  <2>6. HoldsIn(st, k, y)
    <3>1. k \in 1..chunkOf(y.h)
      BY <1>1, <1>3, <2>4, <2>5, ChunkHolds
    <3> QED BY <3>1 DEF HoldsUpTo
  <2>7. h = TopOf(k) /\ Min({TopOf(k), y.h}) = TopOf(k)
    BY <1>1, <1>3, <1>5, <2>3, <2>4, Min2
  <2>8. At(y, TopOf(k)) = At(x, TopOf(k))
    BY <1>1, <1>3, <2>3, AtAt
  <2> HIDE DEF y, h
  <2>9. st[k] # None /\ st[k].h >= TopOf(k) /\ At(st[k], TopOf(k)) = At(x, TopOf(k))
    BY <2>6, <2>7, <2>8 DEF HoldsIn
  <2> QED BY <2>2, <2>7, <2>9 DEF HoldsIn, h
<1> QED BY <1>2, <1>3, <1>6, <1>7

-----------------------------------------------------------------------------
(* A source, field by field *)

\* q is r but for the fields fs.
Same(r, q, fs) == DOMAIN q = Fields /\ \A f \in Fields \ fs : q[f] = r[f]
\* What holds of a source once it is restored.
Body(r, st) == SourceType(r) /\ r.pc \notin Opening /\ WorkOk(r) /\ Solid(r, st)

LEMMA HeldIs ==
    ASSUME NEW x, Held(x)
    PROVE  /\ x \in Headers /\ x.h \in Nat /\ Newest \in Nat /\ Newest <= x.h /\ Fits(x.h) /\ At(x, x.h) = x
           /\ \A j \in Newest..x.h : Held(At(x, j)) /\ At(x, j).h = j
<1>1. x \in Headers /\ x.h \in Nat /\ Newest \in Nat /\ Newest <= x.h /\ Fits(x.h) /\ At(x, x.h) = x
  BY HeaderIs, AtSelf, Constants DEF Held
<1>2. ASSUME NEW j \in Newest..x.h PROVE Held(At(x, j)) /\ At(x, j).h = j
  <2>1. j \in Nat /\ j <= x.h /\ Newest <= j
    BY <1>1
  <2>2. At(x, j) \in Headers /\ At(x, j).h = j /\ Fits(j)
    BY <1>1, <2>1, AtHeader, FitsBelow
  <2> QED BY <2>1, <2>2 DEF Held
<1> QED BY <1>1, <1>2

LEMMA LandedOk ==
    ASSUME NEW st, StoreOk(st), NEW r, SourceType(r)
    PROVE  StoreOk(Landed(st, r)) /\ DOMAIN Landed(st, r) = Chunks
<1>1. StoreOk(After(st, r.job))
  BY ApplyOk DEF After, SourceType
<1>2. StoreOk(After(After(st, r.job), r.pend))
  BY <1>1, ApplyOk DEF After, SourceType
<1> QED BY <1>2 DEF Landed, StoreOk

\* A detached write, alone or merged into the one that waits, lands after the others.
LEMMA DetachedOk ==
    ASSUME NEW st, StoreOk(st), NEW r, SourceType(r), NEW w, IsWrite(w), NEW q, q = detachStoreWrite(r, w)
    PROVE  /\ Same(r, q, {"job", "pend"})
           /\ (q.job = None \/ IsWrite(q.job)) /\ (q.pend = None \/ IsWrite(q.pend)) /\ (q.pend # None => q.job # None)
           /\ \A k \in Chunks : LET now == Apply(Landed(st, r), w)[k] IN now # None => Landed(st, q)[k] = now
<1>1. DOMAIN r = Fields /\ (r.job = None \/ IsWrite(r.job)) /\ (r.pend = None \/ IsWrite(r.pend)) /\ (r.pend # None => r.job # None)
  BY DEF SourceType
<1>2. w # None
  BY NoneIs
<1>3. CASE r.job = None
  <2>1. q = [r EXCEPT !.job = w]
    BY <1>3 DEF detachStoreWrite
  <2>2. Same(r, q, {"job", "pend"}) /\ q.job = w /\ q.pend = None
    BY <1>1, <1>3, <2>1 DEF Same, Fields
  <2>3. Landed(st, r) = st /\ Landed(st, q) = Apply(st, w)
    BY <1>1, <1>2, <1>3, <2>2 DEF Landed, After
  <2> QED BY <2>2, <2>3
<1>4. CASE r.job # None /\ r.pend = None
  <2>1. q = [r EXCEPT !.pend = w]
    BY <1>4 DEF detachStoreWrite
  <2>2. Same(r, q, {"job", "pend"}) /\ q.job = r.job /\ q.pend = w
    BY <1>1, <1>4, <2>1 DEF Same, Fields
  <2>3. Landed(st, r) = Apply(st, r.job) /\ Landed(st, q) = Apply(Apply(st, r.job), w)
    BY <1>1, <1>2, <1>4, <2>2 DEF Landed, After
  <2> QED BY <1>1, <1>4, <2>2, <2>3
<1>5. CASE r.job # None /\ r.pend # None
  <2> DEFINE m == mergeStoreWrites(r.pend, w)
  <2>1. q = [r EXCEPT !.pend = m]
    BY <1>5 DEF detachStoreWrite
  <2>2. IsWrite(m)
    BY <1>1, <1>5, MergeOk
  <2>3. m # None
    BY <2>2, NoneIs
  <2> DEFINE base == Apply(st, r.job)
  <2>4. StoreOk(base) /\ DOMAIN base = Chunks
    BY <1>1, <1>5, ApplyOk DEF StoreOk
  <2>5. \A k \in Chunks : Apply(Apply(base, r.pend), w)[k] # None => Apply(base, m)[k] = Apply(Apply(base, r.pend), w)[k]
    <3>1. IsWrite(r.pend)
      BY <1>1, <1>5
    <3> HIDE DEF base
    <3> QED BY <2>4, <3>1, MergeKeeps
  <2> HIDE DEF m
  <2>6. Same(r, q, {"job", "pend"}) /\ q.job = r.job /\ q.pend = m
    BY <1>1, <1>5, <2>1 DEF Same, Fields
  <2>7. Landed(st, r) = Apply(base, r.pend) /\ Landed(st, q) = Apply(base, m)
    BY <1>5, <2>3, <2>6 DEF Landed, After
  <2> HIDE DEF base
  <2> QED BY <1>1, <1>5, <2>2, <2>5, <2>6, <2>7
<1> QED BY <1>3, <1>4, <1>5

LEMMA PersistOk ==
    ASSUME NEW st, StoreOk(st), NEW r, Body(r, st), NEW q, q = Persist(r)
    PROVE  Body(q, st) /\ Same(r, q, {"job", "pend", "persisted"})
<1>1. SourceType(r) /\ DOMAIN r = Fields /\ Held(r.held) /\ r.persisted \in Newest..r.held.h
  BY DEF Body, SourceType
<1>2. CASE ~Dirty(r)
  BY <1>1, <1>2 DEF Persist, Same
<1>3. CASE Dirty(r)
  <2> DEFINE w == SuffixWrite(r.held, r.persisted)
             d == detachStoreWrite(r, w)
  <2>1. r.persisted < r.held.h /\ r.store
    BY <1>1, <1>3, HeldIs DEF Dirty
  <2>2. IsWrite(w)
    <3> HIDE DEF w
    <3> QED BY <1>1, <2>1, SuffixWriteIs DEF w
  <2>3. q = [d EXCEPT !.persisted = r.held.h]
    BY <1>3 DEF Persist
  <2>4. /\ Same(r, d, {"job", "pend"})
        /\ (d.job = None \/ IsWrite(d.job)) /\ (d.pend = None \/ IsWrite(d.pend)) /\ (d.pend # None => d.job # None)
        /\ \A k \in Chunks : LET now == Apply(Landed(st, r), w)[k] IN now # None => Landed(st, d)[k] = now
    <3> HIDE DEF w
    <3> QED BY <1>1, <2>2, DetachedOk
  <2> HIDE DEF d
  <2>5. Same(r, q, {"job", "pend", "persisted"}) /\ q.job = d.job /\ q.pend = d.pend /\ q.persisted = r.held.h
    BY <2>3, <2>4 DEF Same, Fields
  <2>6. Landed(st, q) = Landed(st, d)
    BY <2>5 DEF Landed
  <2> HIDE DEF w
  <2>7. /\ q.pc = r.pc /\ q.store = r.store /\ q.sole = r.sole /\ q.held = r.held /\ q.base = r.base
        /\ q.workBase = r.workBase /\ q.fresh = r.fresh /\ q.lg = r.lg /\ q.keys = r.keys /\ q.migErr = r.migErr
        /\ q.want = r.want /\ q.tip = r.tip /\ q.leg = r.leg /\ q.seen = r.seen /\ DOMAIN q = Fields
    BY <2>5 DEF Same, Fields
  <2>8. SourceType(q)
    <3>1. q.persisted \in Newest..q.held.h
      BY <1>1, <2>1, <2>5, <2>7, HeldIs
    <3> QED BY <1>1, <2>4, <2>5, <2>7, <3>1 DEF SourceType
  <2>9. WorkOk(q) /\ q.pc \notin Opening
    BY <2>7 DEF WorkOk, Body
  <2>10. Solid(q, st)
    <3> SUFFICES ASSUME q.store, q.sole PROVE HoldsUpTo(Landed(st, q), At(q.held, q.persisted))
      BY DEF Solid
    <3>1. HoldsUpTo(Landed(st, r), At(r.held, r.persisted))
      BY <2>7 DEF Solid, Body
    <3>2. At(q.held, q.persisted) = r.held
      BY <1>1, <2>5, <2>7, HeldIs
    <3> DEFINE landed == Landed(st, r)
    <3>3. DOMAIN landed = Chunks
      BY <1>1, LandedOk
    <3>4. HoldsUpTo(Apply(landed, w), r.held)
      <4> HIDE DEF landed
      <4> QED BY <1>1, <2>1, <3>1, <3>3, WriteHolds DEF w, landed
    <3>5. HoldsUpTo(Landed(st, d), r.held)
      <4> DEFINE most == Apply(landed, w)  now == Landed(st, d)
      <4>1. \A k \in Chunks : k >= 1 /\ most[k] # None => now[k] = most[k]
        BY <2>4
      <4> HIDE DEF most, now
      <4> QED BY <1>1, <3>4, <4>1, HoldsKeeps DEF most, now
    <3> QED BY <2>6, <3>2, <3>5
  <2> QED BY <2>5, <2>8, <2>9, <2>10 DEF Body
<1> QED BY <1>2, <1>3

\* A pin names a header of the held chain and the work up to it.
LEMMA PinForOk ==
    ASSUME PinIs(pin), NEW r, r.held \in Headers, r.base \in AnchorBase..r.held.h,
           r.workBase = Work(At(r.held, r.base - 1)) - AnchorBase, NEW h \in Nat, h <= r.held.h
    PROVE  PinIs(PinFor(r, h))
<1> DEFINE x == At(r.held, h)
<1>1. r.held.h \in Nat /\ x \in Headers /\ x.h = h /\ AnchorBase \in Nat /\ r.base \in Nat /\ SEED \in Nat /\ Newest \in Nat
  BY HeaderIs, AtHeader, Constants
<1> HIDE DEF x
<1>2. CASE h < r.base \/ h - Newest < SEED \/ (r.rp # None /\ r.rp.tip = x)
  BY <1>2 DEF PinFor, x
<1>3. CASE ~(h < r.base \/ h - Newest < SEED \/ (r.rp # None /\ r.rp.tip = x))
  <2>1. PinFor(r, h) = [tip |-> x, work |-> LcWork(x, r.base) + r.workBase]
    BY <1>3 DEF PinFor, x
  <2>2. At(x, r.base - 1) = At(r.held, r.base - 1)
    BY <1>1, <1>3, AtAt DEF x
  <2>3. Work(x) \in Nat /\ Work(At(r.held, r.base - 1)) \in Nat
    <3>1. -1 <= r.base - 1 /\ r.base - 1 \in Int /\ r.base - 1 <= r.held.h
      BY <1>1, <1>3
    <3>2. Work(At(r.held, r.base - 1)) \in Nat
      BY <3>1, WorkIs
    <3>3. Work(x) \in Nat
      BY <1>1, WorkIs DEF x
    <3> QED BY <3>2, <3>3
  <2>4. LcWork(x, r.base) + r.workBase = Work(x) - AnchorBase
    BY <1>1, <2>2, <2>3 DEF LcWork
  <2> QED BY <1>1, <1>3, <2>1, <2>4 DEF PinIs
<1> QED BY <1>2, <1>3

LEMMA PinAfterOk ==
    ASSUME PinIs(pin), NEW r, NEW st, Body(r, st)
    PROVE  PinIs(PinAfter(r))
<1>1. /\ r.held \in Headers /\ r.held.h \in Nat /\ r.base \in AnchorBase..r.held.h
      /\ r.workBase = Work(At(r.held, r.base - 1)) - AnchorBase
  BY HeldIs DEF Body, SourceType, WorkOk
<1>2. PinIs(PinFor(r, r.held.h))
  BY <1>1, PinForOk
<1> QED BY <1>2 DEF PinAfter

\* A step of a restored source that leaves its store and what it counts from alone, and
\* keeps the chain it holds or extends it.
LEMMA ServeOk ==
    ASSUME NEW st, NEW r, Body(r, st), NEW q,
           Same(r, q, {"pc", "held", "want", "tip", "leg", "fresh", "seen", "lg", "migErr", "rp", "rd"}),
           q.pc \in Migrating \cup Serving, Held(q.held), Extends(q.held, r.held), Held(q.fresh),
           q.want \in Nat, q.tip \in Nat, q.leg \in Nat, q.seen \in Nat, q.lg \in Old, q.migErr \in BOOLEAN
    PROVE  Body(q, st)
<1>1. /\ q.store = r.store /\ q.sole = r.sole /\ q.base = r.base /\ q.workBase = r.workBase
      /\ q.keys = r.keys /\ q.persisted = r.persisted /\ q.job = r.job /\ q.pend = r.pend /\ DOMAIN q = Fields
  BY DEF Same, Fields
<1>2. /\ r.held \in Headers /\ r.held.h \in Nat /\ q.held \in Headers /\ q.held.h \in Nat /\ r.held.h <= q.held.h
      /\ r.persisted \in Newest..r.held.h /\ Newest \in Nat
  BY HeldIs DEF Body, SourceType, Extends
<1>3. SourceType(q)
  <2>1. q.persisted \in Newest..q.held.h
    BY <1>1, <1>2
  <2> QED BY <1>1, <2>1 DEF SourceType, Body
<1>4. q.pc \notin Opening
  BY DEF Migrating, Serving, Opening
<1>5. WorkOk(q)
  <2>1. r.base \in AnchorBase..r.held.h /\ r.workBase = Work(At(r.held, r.base - 1)) - AnchorBase /\ AnchorBase \in Nat
    BY Constants DEF Body, WorkOk
  <2>2. q.base \in AnchorBase..q.held.h
    BY <1>1, <1>2, <2>1
  <2>3. At(q.held, q.base - 1) = At(r.held, r.base - 1)
    <3>1. r.base - 1 \in Int /\ r.base - 1 <= r.held.h
      BY <1>2, <2>1
    <3> QED BY <1>1, <1>2, <3>1, ExtendsAt
  <2> QED BY <1>1, <2>1, <2>2, <2>3 DEF WorkOk
<1>6. Solid(q, st)
  <2>1. At(q.held, q.persisted) = At(r.held, r.persisted)
    <3>1. r.persisted \in Int /\ r.persisted <= r.held.h
      BY <1>2
    <3> QED BY <1>1, <1>2, <3>1, ExtendsAt
  <2>2. Landed(st, q) = Landed(st, r)
    BY <1>1 DEF Landed
  <2> QED BY <1>1, <2>1, <2>2 DEF Solid, Body
<1> QED BY <1>3, <1>4, <1>5, <1>6 DEF Body

\* An adopted chain: nothing of it counts as stored yet, and its work from the anchor.
LEMMA AdoptedOk ==
    ASSUME NEW st, NEW r, Body(r, st), NEW q, q = Adopted(r)
    PROVE  Body(q, st) /\ Same(r, q, {"held", "base", "workBase", "persisted"}) /\ q.held = r.fresh
<1>1. DOMAIN r = Fields /\ Held(r.fresh)
  BY DEF Body, SourceType
<1>2. /\ Same(r, q, {"held", "base", "workBase", "persisted"}) /\ q.held = r.fresh /\ q.base = AnchorBase
      /\ q.workBase = 0 /\ q.persisted = Newest
  BY <1>1 DEF Adopted, Same, Fields
<1>3. /\ q.pc = r.pc /\ q.store = r.store /\ q.sole = r.sole /\ q.fresh = r.fresh /\ q.lg = r.lg /\ q.keys = r.keys
      /\ q.migErr = r.migErr /\ q.want = r.want /\ q.tip = r.tip /\ q.leg = r.leg /\ q.seen = r.seen
      /\ q.job = r.job /\ q.pend = r.pend /\ DOMAIN q = Fields
  BY <1>2 DEF Same, Fields
<1>4. q.held \in Headers /\ q.held.h \in Nat /\ Newest <= q.held.h /\ Newest \in Nat /\ AnchorBase \in Nat /\ AnchorBase <= Newest
      /\ Newest <= Fork /\ Fork \in Nat
  BY <1>1, <1>2, HeldIs, Constants
<1>5. SourceType(q)
  <2>1. q.persisted \in Newest..q.held.h
    BY <1>2, <1>4
  <2> QED BY <1>1, <1>2, <1>3, <2>1 DEF SourceType, Body
<1>6. WorkOk(q)
  <2>1. AnchorBase - 1 \in Int /\ -1 <= AnchorBase - 1 /\ AnchorBase - 1 <= q.held.h /\ AnchorBase - 1 <= Fork
    BY <1>4
  <2>2. Work(At(q.held, AnchorBase - 1)) = AnchorBase
    BY <1>4, <2>1, WorkIs
  <2> QED BY <1>2, <1>4, <2>2 DEF WorkOk
<1>7. Solid(q, st)
  <2>1. At(q.held, q.persisted).h = Newest
    BY <1>2, AtIs
  <2> QED BY <2>1, AnchorIs DEF Solid, HoldsUpTo
<1> QED BY <1>2, <1>3, <1>5, <1>6, <1>7 DEF Body

-----------------------------------------------------------------------------
(* The steps *)

LEMMA OffOk == \A st : SourceOk(Off, st) /\ Off.pc = "off" /\ Off.held = Anchor /\ Off.seen = 0
<1>1. Held(Anchor) /\ Anchor.h = Newest /\ Newest \in Nat /\ None \in Old
  BY AnchorIs, Constants, SyncAssumption DEF Held
<1>2. /\ DOMAIN Off = Fields /\ Off.pc = "off" /\ Off.store = FALSE /\ Off.keys = {} /\ Off.lg = None /\ Off.migErr = FALSE
      /\ Off.held = Anchor /\ Off.persisted = Newest /\ Off.want = 0 /\ Off.tip = 0 /\ Off.leg = 0 /\ Off.fresh = Anchor
      /\ Off.seen = 0 /\ Off.job = None /\ Off.pend = None /\ Off.sole = FALSE
  BY DEF Off, Fields
<1>3. SourceType(Off)
  <2>1. Held(Off.held) /\ Held(Off.fresh) /\ Off.persisted \in Newest..Off.held.h /\ Off.lg \in Old /\ Off.keys \subseteq Chunks
    BY <1>1, <1>2
  <2>2. Off.want \in Nat /\ Off.tip \in Nat /\ Off.leg \in Nat /\ Off.seen \in Nat
    BY <1>2
  <2>3. Off.store \in BOOLEAN /\ Off.sole \in BOOLEAN /\ Off.migErr \in BOOLEAN /\ Off.pc \in Opening
    BY <1>2 DEF Opening
  <2> QED BY <1>2, <2>1, <2>2, <2>3 DEF SourceType
<1>4. \A st : Steps(Off, st) /\ WorkOk(Off) /\ Solid(Off, st)
  BY <1>2 DEF Steps, WorkOk, Solid, Opening
<1> QED BY <1>2, <1>3, <1>4 DEF SourceOk

\* What the first chunk holds is nobody's business but an opening source's.
LEMMA StoreShift ==
    ASSUME NEW st, StoreOk(st), NEW now, StoreOk(now), \A k \in Chunks : k >= 1 => now[k] = st[k], NEW r, SourceOk(r, st)
    PROVE  SourceOk(r, now)
<1>1. SourceType(r) /\ WorkOk(r)
  BY DEF SourceOk
<1>2. Steps(r, now)
  <2>1. r.pc = "read" => ReadBack(r, now)
    <3> SUFFICES ASSUME r.pc = "read" PROVE ReadBack(r, now)
      OBVIOUS
    <3>1. ReadBack(r, st)
      BY DEF SourceOk, Steps
    <3>2. \A i \in 1..Len(r.rd) : i \in Chunks /\ i >= 1
      BY <3>1 DEF ReadBack, Whole
    <3> QED BY <3>1, <3>2 DEF ReadBack
  <2> QED BY <2>1 DEF SourceOk, Steps
<1>3. Solid(r, now)
  <2> SUFFICES ASSUME r.pc \notin Opening, r.store, r.sole PROVE HoldsUpTo(Landed(now, r), At(r.held, r.persisted))
    BY DEF Solid
  <2> DEFINE x == At(r.held, r.persisted)
  <2>1. HoldsUpTo(Landed(st, r), x)
    BY DEF SourceOk, Solid
  <2>2. Held(x)
    BY <1>1, HeldIs DEF SourceType
  <2>3. \A w, k : k \in Chunks /\ k >= 1 => After(st, w)[k] = After(now, w)[k]
    BY DEF After, Apply, StoreOk
  <2>4. \A w : DOMAIN After(st, w) = Chunks /\ DOMAIN After(now, w) = Chunks
    BY DEF After, Apply, StoreOk
  <2>5. \A k \in Chunks : k >= 1 => Landed(now, r)[k] = Landed(st, r)[k]
    <3> DEFINE a == After(st, r.job)  b == After(now, r.job)
    <3>1. DOMAIN a = Chunks /\ DOMAIN b = Chunks /\ \A k \in Chunks : k >= 1 => a[k] = b[k]
      BY <2>3, <2>4
    <3>2. Landed(st, r) = After(a, r.pend) /\ Landed(now, r) = After(b, r.pend)
      BY DEF Landed
    <3> HIDE DEF a, b
    <3> QED BY <3>1, <3>2 DEF After, Apply
  <2> HIDE DEF x
  <2>6. HoldsUpTo(Landed(now, r), x)
    <3> DEFINE a == Landed(st, r)  b == Landed(now, r)
    <3>1. \A k \in Chunks : k >= 1 /\ a[k] # None => b[k] = a[k]
      BY <2>5
    <3>2. HoldsUpTo(a, x)
      BY <2>1
    <3> HIDE DEF a, b
    <3>3. HoldsUpTo(b, x)
      BY <2>2, <3>1, <3>2, HoldsKeeps
    <3> QED BY <3>3 DEF b
  <2> QED BY <2>6 DEF x
<1> QED BY <1>1, <1>2, <1>3 DEF SourceOk

\* Every step but one from a read to a running source; and never to less work.
Onward(r, q) == /\ r.pc \in Serving /\ q.pc \in Serving => Work(q.held) >= Work(r.held)
                /\ r.pc = "read" => q.pc \notin {"idle", "commit"}
Forward == \A t \in Sources : Onward(src[t], src'[t])

LEMMA ForwardIs ==
    ASSUME IInv, NEW s \in Sources, NEW q, Onward(src[s], q),
           \A t \in Sources : src'[t] = src[t] \/ src'[t] = Off \/ (t = s /\ src'[t] = q)
    PROVE  Forward
<1> SUFFICES ASSUME NEW t \in Sources PROVE Onward(src[t], src'[t])
  BY DEF Forward
<1>1. CASE src'[t] = src[t]
  <2>1. Held(src[t].held)
    BY DEF IInv, SourceOk, SourceType
  <2>2. src[t].held \in Headers /\ Extends(src[t].held, src[t].held)
    BY <2>1, ExtendsSelf, HeldIs
  <2>3. Work(src[t].held) \in Nat
    BY <2>2, WorkExtends
  <2> QED BY <1>1, <2>3 DEF Onward
<1>2. CASE src'[t] = Off
  BY <1>2, OffOk DEF Onward, Serving
<1>3. CASE t = s /\ src'[t] = q
  BY <1>3
<1> QED BY <1>1, <1>2, <1>3

LEMMA Within == \A a, b, c, d \in Nat : b <= c => (a <= b => a <= c) /\ (a <= b + d => a <= c + d)
  OBVIOUS

\* A source becomes q, or is off when it was an old one with nothing left to do.
LEMMA BecomesOk ==
    ASSUME IInv, NEW s \in Sources, NEW q, Becomes(s, q), SourceOk(q, chunks'), q.seen <= best + FLOOR_SLACK,
           UNCHANGED env, StoreOk(chunks'), \A k \in Chunks : k >= 1 => chunks'[k] = chunks[k],
           floor' \in Nat, floor' <= best + FLOOR_SLACK, attempts' \in 0..MIGRATE_MAX, legacy' \in Old, PinIs(pin')
    PROVE  IInv' /\ \A t \in Sources : src'[t] = src[t] \/ src'[t] = Off \/ (t = s /\ src'[t] = q)
<1>1. /\ best \in Nat /\ Newest <= best /\ Newest \in Nat /\ FLOOR_SLACK \in Nat /\ DOMAIN src = Sources
      /\ \A t \in Sources : Earned(src[t], best) /\ SourceOk(src[t], chunks)
  BY Constants DEF IInv, WorldOk
<1> DEFINE p == Kept(s, q)
<1>2. p = q \/ p = Off
  BY DEF Kept, Retired
<1>3. src' = [src EXCEPT ![s] = p] /\ best' = Max({best, p.held.h})
  BY DEF Becomes
<1> HIDE DEF p
<1>4. SourceOk(p, chunks') /\ p.seen <= best + FLOOR_SLACK /\ p.held.h \in Nat /\ p.seen \in Nat
  <2>1. SourceOk(p, chunks') /\ p.seen <= best + FLOOR_SLACK
    BY <1>1, <1>2, OffOk
  <2>2. Held(p.held) /\ p.seen \in Nat
    BY <2>1 DEF SourceOk, SourceType
  <2> QED BY <2>1, <2>2, HeldIs
<1>5. best' \in Nat /\ best <= best' /\ p.held.h <= best'
  BY <1>1, <1>3, <1>4, Max2
<1>6. \A t \in Sources : src'[t] = IF t = s THEN p ELSE src[t]
  BY <1>1, <1>3
<1>7. \A t \in Sources : SourceOk(src'[t], chunks')
  <2> SUFFICES ASSUME NEW t \in Sources PROVE SourceOk(src'[t], chunks')
    OBVIOUS
  <2>1. CASE t = s
    BY <1>4, <1>6, <2>1
  <2>2. CASE t # s
    <3>1. src'[t] = src[t] /\ SourceOk(src[t], chunks) /\ StoreOk(chunks)
      BY <1>1, <1>6, <2>2 DEF IInv, DiskOk
    <3>2. SourceOk(src[t], chunks')
      BY <3>1, StoreShift
    <3> QED BY <3>1, <3>2
  <2> QED BY <2>1, <2>2
<1>8. \A t \in Sources : Earned(src'[t], best')
  <2> SUFFICES ASSUME NEW t \in Sources PROVE Earned(src'[t], best')
    OBVIOUS
  <2>1. CASE t = s
    BY <1>1, <1>4, <1>5, <1>6, <2>1 DEF Earned
  <2>2. CASE t # s
    <3>1. src'[t] = src[t] /\ Earned(src[t], best) /\ Held(src[t].held) /\ src[t].seen \in Nat
      BY <1>1, <1>6, <2>2 DEF SourceOk, SourceType
    <3>2. src[t].held.h \in Nat
      BY <3>1, HeldIs
    <3> QED BY <1>1, <1>5, <3>1, <3>2 DEF Earned
  <2> QED BY <2>1, <2>2
<1>9. WorldOk'
  <2>1. DOMAIN src' = Sources
    BY <1>1, <1>3
  <2>2. served' \in [Sources -> Chains] /\ behind' \in BOOLEAN /\ cur' \in Sources
    BY DEF IInv, WorldOk, env
  <2>3. Newest <= best' /\ floor' <= best' + FLOOR_SLACK
    <3>1. floor' \in Nat /\ floor' <= best + FLOOR_SLACK /\ best \in Nat /\ best' \in Nat /\ best <= best'
      BY <1>1, <1>5
    <3>2. Newest \in Nat /\ FLOOR_SLACK \in Nat /\ Newest <= best
      BY <1>1
    <3> QED BY <3>1, <3>2, Within
  <2> QED BY <1>5, <1>8, <2>1, <2>2, <2>3 DEF WorldOk
<1>10. IInv'
  BY <1>7, <1>9 DEF IInv, DiskOk
<1>11. \A t \in Sources : src'[t] = src[t] \/ src'[t] = Off \/ (t = s /\ src'[t] = q)
  BY <1>2, <1>6
<1> QED BY <1>10, <1>11

\* The same, when the disk stays.
LEMMA QuietOk ==
    ASSUME IInv, NEW s \in Sources, NEW q, Becomes(s, q), SourceOk(q, chunks), q.seen <= best + FLOOR_SLACK,
           UNCHANGED <<env, disk>>, PinIs(pin'), Onward(src[s], q)
    PROVE  IInv' /\ Forward
<1>1. /\ chunks' = chunks /\ floor' = floor /\ attempts' = attempts /\ legacy' = legacy /\ UNCHANGED env
      /\ StoreOk(chunks) /\ floor \in Nat /\ attempts \in 0..MIGRATE_MAX /\ legacy \in Old /\ floor <= best + FLOOR_SLACK
  BY DEF disk, IInv, DiskOk, WorldOk
<1>2. SourceOk(q, chunks') /\ StoreOk(chunks') /\ \A k \in Chunks : k >= 1 => chunks'[k] = chunks[k]
  BY <1>1
<1>3. IInv' /\ \A t \in Sources : src'[t] = src[t] \/ src'[t] = Off \/ (t = s /\ src'[t] = q)
  BY <1>1, <1>2, BecomesOk
<1> QED BY <1>3, ForwardIs


LEMMA SourceIs ==
    ASSUME IInv, NEW s \in Sources
    PROVE  /\ SourceOk(src[s], chunks) /\ SourceType(src[s]) /\ DOMAIN src[s] = Fields /\ Earned(src[s], best)
           /\ StoreOk(chunks) /\ PinIs(pin) /\ legacy \in Old /\ served[s] \in Chains
           /\ floor \in Nat /\ floor <= best + FLOOR_SLACK /\ best \in Nat /\ FLOOR_SLACK \in Nat
           /\ src[s].pc \notin Opening => Body(src[s], chunks)
           /\ src[s].seen \in Nat /\ src[s].seen <= best + FLOOR_SLACK
           /\ Held(src[s].held) /\ Work(src[s].held) \in Nat /\ Extends(src[s].held, src[s].held)
<1>1. SourceOk(src[s], chunks) /\ SourceType(src[s]) /\ DOMAIN src[s] = Fields /\ Earned(src[s], best) /\ src[s].seen \in Nat
  BY DEF IInv, WorldOk, SourceOk, SourceType
<1>2. Held(src[s].held) /\ src[s].held \in Headers
  BY <1>1, HeldIs DEF SourceType
<1>3. Work(src[s].held) \in Nat /\ Extends(src[s].held, src[s].held)
  BY <1>2, ExtendsSelf, WorkExtends
<1>4. src[s].pc \notin Opening => Body(src[s], chunks)
  BY <1>1 DEF SourceOk, Body
<1> QED BY <1>1, <1>2, <1>3, <1>4, Constants DEF IInv, DiskOk, WorldOk, Earned

(* The build *)

LEMMA StartStep == ASSUME IInv, NEW s \in Sources, NEW opens \in BOOLEAN, Start(s, opens) PROVE IInv' /\ Forward
<1> DEFINE keys == IF opens THEN {k \in Chunks : chunks[k] # None} ELSE {}
           q == [Off EXCEPT !.pc = "anchor", !.store = opens, !.lg = legacy, !.sole = TRUE, !.keys = keys]
<1>1. src[s].pc = "off" /\ Becomes(s, q) /\ UNCHANGED <<env, disk>> /\ pin' = pin
  BY DEF Start
<1>2. SourceType(Off) /\ DOMAIN Off = Fields /\ Off.seen = 0 /\ Off.job = None /\ Off.rd = <<>>
  BY OffOk DEF SourceOk, SourceType, Off
<1>3. keys \subseteq Chunks
  OBVIOUS
<1> HIDE DEF keys
<1>4. /\ Same(Off, q, {"pc", "store", "lg", "sole", "keys"}) /\ q.pc = "anchor" /\ q.store = opens /\ q.lg = legacy
      /\ q.sole = TRUE /\ q.keys = keys
  BY <1>2 DEF Same, Fields
<1> HIDE DEF q
<1>5. /\ DOMAIN q = Fields /\ q.migErr = Off.migErr /\ q.held = Off.held /\ q.fresh = Off.fresh /\ q.persisted = Off.persisted
      /\ q.want = Off.want /\ q.tip = Off.tip /\ q.leg = Off.leg /\ q.seen = Off.seen /\ q.job = Off.job
      /\ q.pend = Off.pend /\ q.rd = Off.rd
  BY <1>4 DEF Same, Fields
<1>6. SourceType(q)
  BY <1>2, <1>3, <1>4, <1>5, SourceIs DEF SourceType, Opening
<1>7. SourceOk(q, chunks)
  BY <1>2, <1>4, <1>5, <1>6 DEF SourceOk, Steps, WorkOk, Solid, Opening
<1>8. Onward(src[s], q) /\ q.seen <= best + FLOOR_SLACK /\ PinIs(pin')
  <2>1. 0 <= best + FLOOR_SLACK
    BY SourceIs
  <2> QED BY <1>1, <1>2, <1>4, <1>5, <2>1, SourceIs DEF Onward, Serving
<1> QED BY <1>1, <1>7, <1>8, QuietOk

\* The walk over the chunks may begin.
LEMMA ReadOk ==
    ASSUME NEW r, SourceType(r), r.pc = "anchor", r.rd = <<>>, r.job = None, NEW q, NEW st,
           Same(r, q, {"pc", "migErr"}), q.pc = "read", q.migErr \in BOOLEAN
    PROVE  SourceOk(q, st) /\ q.seen = r.seen
<1>1. /\ DOMAIN q = Fields /\ q.store = r.store /\ q.sole = r.sole /\ q.keys = r.keys /\ q.lg = r.lg /\ q.rd = r.rd
      /\ q.held = r.held /\ q.fresh = r.fresh /\ q.persisted = r.persisted /\ q.want = r.want /\ q.tip = r.tip
      /\ q.leg = r.leg /\ q.seen = r.seen /\ q.job = r.job /\ q.pend = r.pend
  BY DEF Same, Fields
<1>2. SourceType(q)
  BY <1>1 DEF SourceType, Opening
<1>3. ReadBack(q, st)
  <2>1. <<>> \in Seq(Stored) /\ Len(<<>>) = 0
    OBVIOUS
  <2> QED BY <1>1, <2>1 DEF ReadBack, Whole
<1> QED BY <1>1, <1>2, <1>3 DEF SourceOk, Steps, WorkOk, Solid, Opening

LEMMA FirstChunk ==
    ASSUME NEW st, StoreOk(st), NEW x, x = Anchor \/ x = None
    PROVE  LET now == [st EXCEPT ![0] = x] IN StoreOk(now) /\ \A k \in Chunks : k >= 1 => now[k] = st[k]
<1> DEFINE now == [st EXCEPT ![0] = x]
<1>1. Anchor \in Records /\ Anchor \in Chunk(0)
  <2>1. Anchor \in Headers /\ Anchor.h = Newest /\ FirstOf(0) = 0 /\ TopOf(0) = Newest /\ Newest \in Nat
    BY AnchorIs, ChunkZero, Constants
  <2> QED BY <2>1 DEF Chunk, Stored, Headers
<1>2. 0 \in Int /\ \A k \in Chunks : k \in Nat
  BY ChunksFit
<1>3. DOMAIN st = Chunks /\ \A k \in Chunks : st[k] \in Records \cup {None} /\ (st[k] # None => st[k] \in Chunk(k))
  BY DEF StoreOk
<1>4. DOMAIN now = Chunks /\ \A k \in Chunks : now[k] = IF k = 0 THEN x ELSE st[k]
  BY <1>3
<1>5. now = [k \in Chunks |-> now[k]]
  BY <1>4
<1> HIDE DEF now
<1>6. now \in [Chunks -> Records \cup {None}] /\ \A k \in Chunks : now[k] # None => now[k] \in Chunk(k)
  BY <1>1, <1>3, <1>4, <1>5
<1>7. \A k \in Chunks : k >= 1 => now[k] = st[k]
  BY <1>2, <1>4
<1> QED BY <1>6, <1>7 DEF StoreOk, now

LEMMA AnchorStep ==
    ASSUME IInv, NEW s \in Sources, NEW x, x = Anchor \/ x = None, src[s].pc = "anchor",
           chunks' = chunks \/ chunks' = [chunks EXCEPT ![0] = x],
           NEW q, q = Off \/ (Same(src[s], q, {"pc", "migErr"}) /\ q.pc = "read" /\ q.migErr \in BOOLEAN),
           Becomes(s, q), UNCHANGED <<env, head, floor, legacy, attempts, pin>>
    PROVE  IInv' /\ Forward
<1>1. StoreOk(chunks') /\ \A k \in Chunks : k >= 1 => chunks'[k] = chunks[k]
  <2> DEFINE now == [chunks EXCEPT ![0] = x]
  <2>1. StoreOk(chunks) /\ StoreOk(now) /\ \A k \in Chunks : k >= 1 => now[k] = chunks[k]
    BY SourceIs, FirstChunk
  <2> HIDE DEF now
  <2> QED BY <2>1 DEF now
<1>2. SourceOk(q, chunks') /\ q.seen <= best + FLOOR_SLACK
  <2>1. CASE q = Off
    <3>1. 0 <= best + FLOOR_SLACK
      BY SourceIs
    <3> QED BY <2>1, <3>1, OffOk
  <2>2. CASE Same(src[s], q, {"pc", "migErr"}) /\ q.pc = "read" /\ q.migErr \in BOOLEAN
    <3>1. src[s].rd = <<>> /\ src[s].job = None /\ SourceType(src[s])
      BY SourceIs DEF SourceOk, Steps, Opening
    <3>2. SourceOk(q, chunks') /\ q.seen = src[s].seen
      BY <2>2, <3>1, ReadOk
    <3> QED BY <3>2, SourceIs
  <2> QED BY <2>1, <2>2
<1>3. Onward(src[s], q)
  BY DEF Onward, Serving
<1>4. floor' \in Nat /\ floor' <= best + FLOOR_SLACK /\ attempts' \in 0..MIGRATE_MAX /\ legacy' \in Old /\ PinIs(pin') /\ UNCHANGED env
  BY SourceIs DEF IInv, DiskOk
<1>5. IInv' /\ \A t \in Sources : src'[t] = src[t] \/ src'[t] = Off \/ (t = s /\ src'[t] = q)
  BY <1>1, <1>2, <1>4, BecomesOk
<1> QED BY <1>3, <1>5, ForwardIs

LEMMA MigrateAnchorStep ==
    ASSUME IInv, NEW s \in Sources, NEW ok \in BOOLEAN, MigrateAnchor(s, ok) PROVE IInv' /\ Forward
<1> DEFINE q == [src[s] EXCEPT !.pc = "read", !.migErr = ~ok]
<1>1. src[s].pc = "anchor" /\ Becomes(s, q) /\ UNCHANGED <<env, head, floor, legacy, attempts, pin>>
      /\ (chunks' = chunks \/ chunks' = [chunks EXCEPT ![0] = Anchor])
  BY DEF MigrateAnchor
<1>2. Same(src[s], q, {"pc", "migErr"}) /\ q.pc = "read" /\ q.migErr \in BOOLEAN
  BY SourceIs DEF Same, Fields
<1> HIDE DEF q
<1> QED BY <1>1, <1>2, AnchorStep

LEMMA AcquireAnchorStep ==
    ASSUME IInv, NEW s \in Sources, NEW got \in BOOLEAN, NEW stored \in BOOLEAN, AcquireAnchor(s, got, stored)
    PROVE  IInv' /\ Forward
<1> DEFINE q == IF got THEN [src[s] EXCEPT !.pc = "read"] ELSE Off
           x == IF stored THEN Anchor ELSE None
<1>1. src[s].pc = "anchor" /\ Becomes(s, q) /\ UNCHANGED <<env, head, floor, legacy, attempts, pin>>
      /\ (chunks' = chunks \/ chunks' = [chunks EXCEPT ![0] = x])
  BY DEF AcquireAnchor
<1>2. q = Off \/ (Same(src[s], q, {"pc", "migErr"}) /\ q.pc = "read" /\ q.migErr \in BOOLEAN)
  BY SourceIs DEF Same, Fields, SourceType
<1>3. x = Anchor \/ x = None
  OBVIOUS
<1> HIDE DEF q, x
<1> QED BY <1>1, <1>2, <1>3, AnchorStep

LEMMA ReadChunkStep ==
    ASSUME IInv, NEW s \in Sources, NEW ok \in BOOLEAN, ReadChunk(s, ok) PROVE IInv' /\ Forward
<1> DEFINE r == src[s]
           c == chunks[NextChunk(r)]
           q == IF ok /\ c # None THEN [r EXCEPT !.rd = Append(@, c)] ELSE [r EXCEPT !.keys = {}]
<1>1. r.pc = "read" /\ More(r) /\ Becomes(s, q) /\ UNCHANGED <<env, disk>> /\ pin' = pin
  BY DEF ReadChunk
<1>2. SourceType(r) /\ DOMAIN r = Fields /\ ReadBack(r, chunks) /\ r.job = None /\ Whole(r.rd) /\ r.rd \in Seq(Stored)
  BY <1>1, SourceIs DEF SourceOk, Steps, ReadBack, Whole, Opening
<1> DEFINE rd == IF ok /\ c # None THEN Append(r.rd, c) ELSE r.rd
           keys == IF ok /\ c # None THEN r.keys ELSE {}
<1>3. Same(r, q, {"rd", "keys"}) /\ q.rd = rd /\ q.keys = keys
  BY <1>2 DEF Same, Fields
<1>4. Whole(rd) /\ (r.sole => \A i \in 1..Len(rd) : chunks[i] = rd[i])
  <2>1. CASE ~(ok /\ c # None)
    BY <1>2, <2>1 DEF ReadBack
  <2>2. CASE ok /\ c # None
    <3> DEFINE n == Len(r.rd)
    <3>1. n \in Nat /\ NextChunk(r) = n + 1 /\ n + 1 \in Chunks
      BY <1>1, <1>2 DEF More, NextChunk, SourceType
    <3>2. chunks[n + 1] \in Chunk(n + 1) /\ c = chunks[n + 1] /\ c \in Stored
      BY <2>2, <3>1, SourceIs DEF StoreOk, Chunk
    <3>3. rd = Append(r.rd, c)
      BY <2>2
    <3> HIDE DEF c, rd
    <3>4. /\ rd \in Seq(Stored) /\ Len(rd) = n + 1 /\ rd[n + 1] = c
          /\ \A i \in 1..n : rd[i] = r.rd[i]
      BY <1>2, <3>1, <3>2, <3>3
    <3>5. n > 0 => r.rd[n].h = TopOf(n)
      <4> SUFFICES ASSUME n > 0 PROVE r.rd[n].h = TopOf(n)
        OBVIOUS
      <4>1. r.rd # <<>> /\ storedTip(r) = TopOf(n)
        BY <1>1, <1>2 DEF More
      <4> QED BY <4>1 DEF storedTip, Last
    <3>6. ASSUME NEW i \in 1..(n + 1)
          PROVE  /\ i \in Chunks /\ rd[i] \in Chunk(i) /\ (i < n + 1 => rd[i].h = TopOf(i))
                 /\ r.sole => chunks[i] = rd[i]
      <4>1. CASE i = n + 1
        BY <3>1, <3>2, <3>4, <4>1
      <4>2. CASE i \in 1..n
        <5>1. i \in Chunks /\ r.rd[i] \in Chunk(i) /\ (i < n => r.rd[i].h = TopOf(i)) /\ (r.sole => chunks[i] = r.rd[i])
          BY <1>2, <4>2 DEF Whole, ReadBack
        <5>2. i = n \/ i < n
          BY <3>1, <4>2
        <5> QED BY <3>1, <3>4, <3>5, <4>2, <5>1, <5>2
      <4> QED BY <3>1, <4>1, <4>2
    <3> QED BY <3>4, <3>6 DEF Whole
  <2> QED BY <2>1, <2>2
<1>5. keys \subseteq Chunks
  BY <1>2 DEF SourceType
<1> HIDE DEF q, rd, keys, c
<1>6. /\ DOMAIN q = Fields /\ q.pc = "read" /\ q.store = r.store /\ q.sole = r.sole /\ q.lg = r.lg /\ q.migErr = r.migErr
      /\ q.held = r.held /\ q.fresh = r.fresh /\ q.persisted = r.persisted /\ q.want = r.want /\ q.tip = r.tip
      /\ q.leg = r.leg /\ q.seen = r.seen /\ q.job = r.job /\ q.pend = r.pend
  BY <1>1, <1>3 DEF Same, Fields
<1> HIDE DEF r
<1>7. SourceType(q)
  BY <1>2, <1>3, <1>5, <1>6 DEF SourceType, Opening
<1>8. SourceOk(q, chunks)
  BY <1>2, <1>3, <1>4, <1>6, <1>7 DEF SourceOk, Steps, WorkOk, Solid, Opening, ReadBack
<1>9. Onward(r, q) /\ q.seen <= best + FLOOR_SLACK /\ PinIs(pin')
  BY <1>1, <1>6, SourceIs DEF Onward, Serving, r
<1> QED BY <1>1, <1>8, <1>9, QuietOk DEF r

\* The restore ends where a restore with every check would end.
LEMMA RestoreStep ==
    ASSUME IInv, NEW s \in Sources, Restore(s)
    PROVE  /\ IInv' /\ \A t \in Sources : t # s => Onward(src[t], src'[t])
           /\ src[s].pc = "read" /\ src'[s].pc \in {"idle", "commit"} => src'[s].held = FullRestore(src[s])
<1> DEFINE r == src[s]
           r0 == Restored(r)
           r1 == [r0 EXCEPT !.persisted = PersistedAt(r0), !.rd = <<>>, !.keys = {}]
           q == IF r1.lg # None THEN [r1 EXCEPT !.pc = "commit"] ELSE [r1 EXCEPT !.pc = "idle", !.seen = floor]
<1>1. /\ r.pc = "read" /\ Becomes(s, q) /\ UNCHANGED <<env, disk>>
      /\ pin' = pin \/ pin' = PinFor(r1, r1.persisted)
  BY DEF Restore
<1>2. SourceType(r) /\ DOMAIN r = Fields /\ ReadBack(r, chunks) /\ r.job = None /\ Whole(r.rd) /\ r.lg \in Old /\ PinIs(pin)
  BY <1>1, SourceIs DEF SourceOk, Steps, ReadBack, SourceType, Opening
<1>3. /\ r0.held = FullRestore(r) /\ r0.base \in AnchorBase..r0.held.h
      /\ r0.workBase = Work(At(r0.held, r0.base - 1)) - AnchorBase
      /\ DOMAIN r0 = Fields /\ \A f \in Fields \ {"held", "base", "workBase", "rp"} : r0[f] = r[f]
  <2> HIDE DEF r, r0
  <2> QED BY <1>2, RestoredOk DEF r0
<1> DEFINE top == PersistedAt(r0)
<1>4. /\ Held(r0.held) /\ top \in Newest..r0.held.h /\ HoldsUpTo(r.rd, At(r0.held, top)) /\ chunkOf(top) <= Len(r.rd)
  <2>1. Walk(r.rd, Suffix(r)) /\ storedTip(r) = TopIn(r.rd)
    BY <1>2, SuffixIs
  <2>2. r0.held = Ingest(Anchor, Suffix(r), behind)
    BY <1>3 DEF FullRestore
  <2>3. top = Min({TopIn(r.rd), r0.held.h})
    <3>1. r0.rd = r.rd
      BY <1>3 DEF Fields
    <3> QED BY <2>1, <3>1 DEF PersistedAt, storedTip
  <2> HIDE DEF r0, top, r
  <2> QED BY <1>2, <2>1, <2>2, <2>3, FullWalk
<1> HIDE DEF r0, top
<1>5. /\ Same(r, r1, {"held", "base", "workBase", "rp", "persisted", "rd", "keys"}) /\ r1.held = r0.held /\ r1.base = r0.base
      /\ r1.workBase = r0.workBase /\ r1.persisted = top /\ r1.keys = {}
  BY <1>3 DEF Same, Fields, top
<1> HIDE DEF r1
<1>6. /\ Same(r1, q, {"pc", "seen"}) /\ (q.pc = "commit" \/ q.pc = "idle") /\ (q.seen = r.seen \/ q.seen = floor)
  BY <1>5 DEF Same, Fields
<1> HIDE DEF q
<1>7. /\ DOMAIN q = Fields /\ q.store = r.store /\ q.sole = r.sole /\ q.lg = r.lg /\ q.migErr = r.migErr
      /\ q.held = r0.held /\ q.fresh = r.fresh /\ q.persisted = top /\ q.want = r.want /\ q.tip = r.tip
      /\ q.leg = r.leg /\ q.job = r.job /\ q.pend = r.pend /\ q.keys = {} /\ q.base = r0.base /\ q.workBase = r0.workBase
  BY <1>5, <1>6 DEF Same, Fields
<1>8. q.pend = None /\ q.job = None
  BY <1>2, <1>7 DEF SourceType
<1>9. SourceType(q)
  <2>1. q.seen \in Nat /\ q.pc \in Migrating \cup Serving
    BY <1>2, <1>6, SourceIs DEF Migrating, Serving, SourceType
  <2> QED BY <1>2, <1>4, <1>7, <1>8, <2>1 DEF SourceType
<1>10. Solid(q, chunks)
  <2> SUFFICES ASSUME q.sole PROVE HoldsUpTo(chunks, At(r0.held, top))
    BY <1>7, <1>8 DEF Solid, Landed, After
  <2>1. \A i \in 1..Len(r.rd) : chunks[i] = r.rd[i]
    BY <1>2, <1>7 DEF ReadBack
  <2>2. At(r0.held, top).h = top /\ top \in Nat /\ chunkOf(top) \in Nat /\ Len(r.rd) \in Nat
    <3>1. top \in Nat
      BY <1>4, HeldIs
    <3> QED BY <1>2, <3>1, AtIs, ChunkHolds, WholeIs
  <2>3. \A k \in 1..chunkOf(top) : chunks[k] = r.rd[k]
    BY <1>4, <2>1, <2>2
  <2> QED BY <1>4, <2>2, <2>3 DEF HoldsUpTo, HoldsIn
<1>11. SourceOk(q, chunks)
  BY <1>3, <1>6, <1>7, <1>8, <1>9, <1>10 DEF SourceOk, Steps, WorkOk, Opening
<1>12. PinIs(pin')
  <2>1. r0.held \in Headers /\ top \in Nat /\ top <= r0.held.h
    BY <1>4, HeldIs
  <2>2. PinIs(PinFor(r1, r1.persisted))
    BY <1>2, <1>3, <1>5, <2>1, PinForOk
  <2> QED BY <1>1, <1>2, <2>2
<1>13. q.seen <= best + FLOOR_SLACK
  BY <1>6, SourceIs
<1>14. IInv' /\ \A t \in Sources : src'[t] = src[t] \/ src'[t] = Off \/ (t = s /\ src'[t] = q)
  <2>1. /\ chunks' = chunks /\ floor' = floor /\ attempts' = attempts /\ legacy' = legacy /\ UNCHANGED env
        /\ attempts \in 0..MIGRATE_MAX
    BY <1>1 DEF disk, IInv, DiskOk
  <2>2. SourceOk(q, chunks') /\ StoreOk(chunks') /\ \A k \in Chunks : k >= 1 => chunks'[k] = chunks[k]
    BY <1>11, <2>1, SourceIs
  <2> QED BY <1>1, <1>12, <1>13, <2>1, <2>2, SourceIs, BecomesOk
<1>15. \A t \in Sources : t # s => Onward(src[t], src'[t])
  <2> SUFFICES ASSUME NEW t \in Sources, t # s PROVE Onward(src[t], src'[t])
    OBVIOUS
  <2>1. CASE src'[t] = src[t]
    BY <2>1, SourceIs DEF Onward
  <2>2. CASE src'[t] = Off
    BY <2>2, OffOk DEF Onward, Serving
  <2> QED BY <1>14, <2>1, <2>2
<1>16. src'[s].pc \in {"idle", "commit"} => src'[s].held = FullRestore(src[s])
  BY <1>1, <1>3, <1>7, <1>14, OffOk DEF r
<1> QED BY <1>14, <1>15, <1>16

(* The old snapshot *)

\* Each source stands in the new store: the rest of a step that names every source.
LEMMA StandsOk ==
    ASSUME IInv, DOMAIN src' = Sources, \A t \in Sources : SourceOk(src'[t], chunks') /\ Earned(src'[t], best),
           best' = best, floor' = floor, attempts' = attempts, legacy' = legacy, StoreOk(chunks'), PinIs(pin'),
           served' \in [Sources -> Chains], behind' \in BOOLEAN, cur' \in Sources
    PROVE  IInv'
<1>1. DiskOk' /\ PinIs(pin)' /\ \A t \in Sources : SourceOk(src[t], chunks)'
  BY DEF IInv, DiskOk
<1>2. WorldOk'
  BY DEF IInv, WorldOk
<1> QED BY <1>1, <1>2 DEF IInv

\* A source that shares the store with another writer promises nothing of it.
LEMMA UnsoleOk ==
    ASSUME NEW r, NEW st, NEW now, SourceOk(r, st), NEW q, q = [r EXCEPT !.sole = FALSE]
    PROVE  /\ SourceOk(q, now) /\ q.held = r.held /\ q.seen = r.seen /\ q.pc = r.pc
           /\ \A most : Earned(r, most) => Earned(q, most)
<1>1. SourceType(r) /\ DOMAIN r = Fields
  BY DEF SourceOk, SourceType
<1>2. Same(r, q, {"sole"}) /\ q.sole = FALSE
  BY <1>1 DEF Same, Fields
<1>3. /\ q.pc = r.pc /\ q.store = r.store /\ q.lg = r.lg /\ q.migErr = r.migErr /\ q.rd = r.rd /\ q.base = r.base
      /\ q.workBase = r.workBase /\ q.held = r.held /\ q.fresh = r.fresh /\ q.persisted = r.persisted
      /\ q.want = r.want /\ q.tip = r.tip /\ q.leg = r.leg /\ q.seen = r.seen /\ q.job = r.job /\ q.pend = r.pend
      /\ q.keys = r.keys /\ DOMAIN q = Fields
  BY <1>2 DEF Same, Fields
<1>4. SourceType(q)
  BY <1>1, <1>2, <1>3 DEF SourceType
<1>5. Steps(q, now)
  <2>1. q.pc = "read" => ReadBack(q, now)
    BY <1>2, <1>3 DEF SourceOk, Steps, ReadBack
  <2> QED BY <1>3, <2>1 DEF SourceOk, Steps
<1>6. WorkOk(q) /\ Solid(q, now)
  BY <1>2, <1>3 DEF SourceOk, WorkOk, Solid
<1> QED BY <1>3, <1>4, <1>5, <1>6 DEF SourceOk, Earned

LEMMA CommitLegacyStep == ASSUME IInv, NEW s \in Sources, CommitLegacy(s) PROVE IInv' /\ Forward
<1> DEFINE r == src[s]
           q == [r EXCEPT !.pc = "drop", !.persisted = Max({@, r.held.h})]
           w == SuffixWrite(r.held, r.persisted)
           un(t) == [src[t] EXCEPT !.sole = FALSE]
<1>1. /\ r.pc = "commit" /\ r.store /\ chunks' = IF Dirty(r) THEN Apply(chunks, w) ELSE chunks
      /\ pin' = PinAfter(r) /\ src' = [t \in Sources |-> IF t = s THEN q ELSE un(t)]
      /\ UNCHANGED <<env, floor, legacy, attempts, best>>
  BY DEF CommitLegacy
<1>2. /\ SourceType(r) /\ DOMAIN r = Fields /\ Body(r, chunks) /\ r.job = None /\ r.pend = None /\ Held(r.held)
      /\ r.persisted \in Newest..r.held.h
  BY <1>1, SourceIs DEF SourceOk, Steps, SourceType, Opening, Migrating
<1>3. r.held.h \in Nat /\ r.persisted \in Nat /\ Newest \in Nat /\ r.persisted <= r.held.h /\ At(r.held, r.held.h) = r.held
      /\ Newest <= r.held.h
  BY <1>2, HeldIs
<1>4. Same(r, q, {"pc", "persisted"}) /\ q.pc = "drop" /\ q.persisted = r.held.h
  <2>1. Max({r.persisted, r.held.h}) = r.held.h
    BY <1>3, Max2
  <2> QED BY <1>2, <2>1 DEF Same, Fields
<1> HIDE DEF q, w
<1>5. StoreOk(chunks')
  <2>1. CASE Dirty(r)
    <3>1. r.persisted < r.held.h
      BY <1>3, <2>1 DEF Dirty
    <3>2. IsWrite(w)
      BY <1>2, <3>1, SuffixWriteIs DEF w
    <3> QED BY <1>1, <2>1, <3>2, SourceIs, ApplyOk
  <2>2. CASE ~Dirty(r)
    BY <1>1, <2>2, SourceIs
  <2> QED BY <2>1, <2>2
<1>6. r.sole => HoldsUpTo(chunks', r.held)
  <2> SUFFICES ASSUME r.sole PROVE HoldsUpTo(chunks', r.held)
    OBVIOUS
  <2>1. HoldsUpTo(chunks, At(r.held, r.persisted))
    BY <1>1, <1>2 DEF Body, Solid, Landed, After
  <2>2. CASE Dirty(r)
    <3>1. r.persisted < r.held.h /\ DOMAIN chunks = Chunks
      BY <1>3, <2>2, SourceIs DEF Dirty, StoreOk
    <3>2. HoldsUpTo(Apply(chunks, w), r.held)
      BY <1>2, <2>1, <3>1, WriteHolds DEF w
    <3> QED BY <1>1, <2>2, <3>2
  <2>3. CASE ~Dirty(r)
    <3>1. r.persisted = r.held.h
      BY <1>1, <1>3, <2>3 DEF Dirty
    <3> QED BY <1>1, <1>3, <2>1, <2>3, <3>1
  <2> QED BY <2>2, <2>3
<1>7. /\ DOMAIN q = Fields /\ q.store = r.store /\ q.sole = r.sole /\ q.lg = r.lg /\ q.migErr = r.migErr /\ q.base = r.base
      /\ q.workBase = r.workBase /\ q.held = r.held /\ q.fresh = r.fresh /\ q.want = r.want /\ q.tip = r.tip
      /\ q.leg = r.leg /\ q.seen = r.seen /\ q.job = r.job /\ q.pend = r.pend /\ q.keys = r.keys
  BY <1>4 DEF Same, Fields
<1>8. SourceType(q)
  <2>1. q.persisted \in Newest..q.held.h
    BY <1>3, <1>4, <1>7
  <2> QED BY <1>2, <1>4, <1>7, <2>1 DEF SourceType, Migrating
<1>9. SourceOk(q, chunks')
  <2>1. Steps(q, chunks')
    BY <1>1, <1>2, <1>4, <1>7 DEF Steps
  <2>2. WorkOk(q)
    BY <1>2, <1>7 DEF WorkOk, Body
  <2>3. Solid(q, chunks')
    BY <1>2, <1>3, <1>4, <1>6, <1>7 DEF Solid, Landed, After
  <2> QED BY <1>8, <2>1, <2>2, <2>3 DEF SourceOk
<1>10. Earned(q, best)
  BY <1>7, SourceIs DEF Earned
<1>11. PinIs(pin')
  BY <1>1, <1>2, SourceIs, PinAfterOk
<1>12. \A t \in Sources : /\ src'[t] = IF t = s THEN q ELSE un(t)
                          /\ t # s => SourceOk(un(t), chunks') /\ Earned(un(t), best) /\ un(t).pc = src[t].pc /\ un(t).held = src[t].held
  <2> SUFFICES ASSUME NEW t \in Sources
               PROVE  /\ src'[t] = IF t = s THEN q ELSE un(t)
                      /\ SourceOk(un(t), chunks') /\ Earned(un(t), best) /\ un(t).pc = src[t].pc /\ un(t).held = src[t].held
    OBVIOUS
  <2>1. SourceOk(src[t], chunks) /\ Earned(src[t], best)
    BY SourceIs
  <2>2. src'[t] = IF t = s THEN q ELSE un(t)
    BY <1>1
  <2> DEFINE u == un(t)  rt == src[t]
  <2>3. u = [rt EXCEPT !.sole = FALSE] /\ SourceOk(rt, chunks) /\ Earned(rt, best)
    BY <2>1
  <2> HIDE DEF u, rt
  <2>4. SourceOk(u, chunks') /\ Earned(u, best) /\ u.pc = rt.pc /\ u.held = rt.held
    BY <2>3, UnsoleOk
  <2> QED BY <2>2, <2>4 DEF u, rt
<1> HIDE DEF un
<1>13. IInv'
  <2>1. DOMAIN src' = Sources /\ \A t \in Sources : SourceOk(src'[t], chunks') /\ Earned(src'[t], best)
    BY <1>1, <1>9, <1>10, <1>12
  <2>2. served' \in [Sources -> Chains] /\ behind' \in BOOLEAN /\ cur' \in Sources
    BY <1>1 DEF IInv, WorldOk, env
  <2> QED BY <1>1, <1>5, <1>11, <2>1, <2>2, StandsOk
<1>14. \A t \in Sources : Onward(src[t], src'[t])
  <2> SUFFICES ASSUME NEW t \in Sources PROVE Onward(src[t], src'[t])
    OBVIOUS
  <2>1. Work(src[t].held) \in Nat
    BY SourceIs
  <2>2. src'[t].held = src[t].held /\ (t # s => src'[t].pc = src[t].pc) /\ (t = s => src'[t].pc = "drop")
    BY <1>4, <1>7, <1>12
  <2> QED BY <2>1, <2>2 DEF Onward, Serving
<1> QED BY <1>13, <1>14 DEF Forward

LEMMA OpenedOk ==
    ASSUME NEW r, NEW st, Body(r, st), floor \in Nat, NEW q, q = Opened(r)
    PROVE  SourceOk(q, st) /\ q.seen = floor /\ q.pc = "idle" /\ q.held = r.held
<1>1. SourceType(r) /\ DOMAIN r = Fields /\ Held(r.held) /\ Held(r.fresh) /\ None \in Old
  BY SyncAssumption DEF Body, SourceType
<1>2. /\ Same(r, q, {"pc", "lg", "seen", "migErr"}) /\ q.pc = "idle" /\ q.lg = None /\ q.seen = floor /\ q.migErr = FALSE
  BY <1>1 DEF Opened, Same, Fields
<1>3. q.held = r.held /\ q.fresh = r.fresh /\ q.want = r.want /\ q.tip = r.tip /\ q.leg = r.leg
  BY <1>2 DEF Same, Fields
<1>4. Extends(q.held, r.held)
  BY <1>1, <1>3, HeldIs, ExtendsSelf
<1>5. Body(q, st)
  <2>1. Same(r, q, {"pc", "held", "want", "tip", "leg", "fresh", "seen", "lg", "migErr", "rp", "rd"})
    BY <1>2 DEF Same
  <2> QED BY <1>1, <1>2, <1>3, <1>4, <2>1, ServeOk DEF SourceType, Serving
<1>6. Steps(q, st)
  BY <1>2 DEF Steps, Opening, Migrating
<1> QED BY <1>2, <1>3, <1>5, <1>6 DEF SourceOk, Body

\* Opening ends in use of the store, whatever became of the old snapshot.
LEMMA OpenedStep ==
    ASSUME IInv, NEW s \in Sources, src[s].pc \in Migrating, Becomes(s, Opened(src[s])), PinIs(pin'),
           UNCHANGED <<env, chunks, floor>>, legacy' \in Old, attempts' \in 0..MIGRATE_MAX
    PROVE  IInv' /\ Forward
<1> DEFINE q == Opened(src[s])
<1>1. Body(src[s], chunks) /\ floor \in Nat
  BY SourceIs DEF Opening, Migrating
<1>2. SourceOk(q, chunks) /\ q.seen = floor
  BY <1>1, OpenedOk
<1>3. Becomes(s, q)
  OBVIOUS
<1>4. Onward(src[s], q)
  BY DEF Onward, Migrating, Serving
<1> HIDE DEF q
<1>5. /\ SourceOk(q, chunks') /\ q.seen <= best + FLOOR_SLACK /\ StoreOk(chunks')
      /\ (\A k \in Chunks : k >= 1 => chunks'[k] = chunks[k]) /\ floor' \in Nat /\ floor' <= best + FLOOR_SLACK /\ UNCHANGED env
  BY <1>2, SourceIs
<1>6. IInv' /\ \A t \in Sources : src'[t] = src[t] \/ src'[t] = Off \/ (t = s /\ src'[t] = q)
  BY <1>3, <1>5, BecomesOk
<1> QED BY <1>4, <1>6, ForwardIs

LEMMA MigrationFailsStep ==
    ASSUME IInv, NEW s \in Sources, MigrationFails(s)
    PROVE  /\ IInv' /\ Forward
           /\ legacy # None /\ legacy' = None => attempts + 1 >= MIGRATE_MAX
<1>1. /\ src[s].pc = "commit" /\ Becomes(s, Opened(src[s])) /\ (pin' = PinAfter(src[s]) \/ pin' = pin)
      /\ UNCHANGED <<env, chunks, head, floor>>
      /\ IF attempts + 1 >= MIGRATE_MAX THEN legacy' = None /\ attempts' = 0
         ELSE attempts' = attempts + 1 /\ legacy' = legacy
  BY DEF MigrationFails
<1>2. src[s].pc \in Migrating /\ Body(src[s], chunks) /\ PinIs(pin)
  BY <1>1, SourceIs DEF Opening, Migrating
<1>3. PinIs(pin')
  BY <1>1, <1>2, PinAfterOk
<1>4. attempts' \in 0..MIGRATE_MAX /\ legacy' \in Old /\ (legacy # None /\ legacy' = None => attempts + 1 >= MIGRATE_MAX)
  <2>1. attempts \in 0..MIGRATE_MAX /\ MIGRATE_MAX \in Nat /\ None \in Old /\ legacy \in Old
    BY Constants, SyncAssumption DEF IInv, DiskOk
  <2> QED BY <1>1, <2>1
<1> QED BY <1>1, <1>2, <1>3, <1>4, OpenedStep

LEMMA DropLegacyStep ==
    ASSUME IInv, NEW s \in Sources, NEW ok \in BOOLEAN, DropLegacy(s, ok)
    PROVE  /\ IInv' /\ Forward
           /\ src[s].pc = "drop" /\ (src[s].sole => \A k \in 1..chunkOf(src[s].held.h) : Holds(k, src[s].held))
<1>1. /\ src[s].pc = "drop" /\ Becomes(s, Opened(src[s])) /\ pin' = pin /\ UNCHANGED <<env, chunks, head, floor>>
      /\ (legacy' = None \/ legacy' = legacy) /\ attempts' = 0
  BY DEF DropLegacy
<1>2. IInv' /\ Forward
  <2>1. src[s].pc \in Migrating /\ PinIs(pin') /\ legacy' \in Old /\ attempts' \in 0..MIGRATE_MAX
    BY <1>1, SourceIs, Constants, SyncAssumption DEF Migrating
  <2> QED BY <1>1, <2>1, OpenedStep
<1>3. src[s].sole => \A k \in 1..chunkOf(src[s].held.h) : Holds(k, src[s].held)
  <2> DEFINE r == src[s]
  <2>1. /\ r.job = None /\ r.pend = None /\ r.store /\ r.persisted = r.held.h /\ Solid(r, chunks) /\ r.pc \notin Opening
        /\ At(r.held, r.held.h) = r.held
    BY <1>1, SourceIs, HeldIs DEF SourceOk, Steps, SourceType, Opening, Migrating
  <2>2. r.sole => HoldsUpTo(chunks, r.held)
    BY <2>1 DEF Solid, Landed, After
  <2> QED BY <2>2 DEF HoldsUpTo, HoldsIn, Holds
<1> QED BY <1>1, <1>2, <1>3

(* Serving *)

LEMMA ServedStep ==
    ASSUME IInv, NEW s \in Sources, src[s].pc \in Serving, NEW q, Becomes(s, q), Body(q, chunks), q.pc \in Serving,
           q.pc = "sync" => q.held.h < q.want /\ q.held.h < q.leg, q.seen = src[s].seen,
           Work(q.held) >= Work(src[s].held), UNCHANGED <<env, disk>>, PinIs(pin')
    PROVE  IInv' /\ Forward
<1>1. SourceOk(q, chunks)
  <2>1. Steps(q, chunks)
    BY DEF Steps, Serving, Opening, Migrating
  <2> QED BY <2>1 DEF SourceOk, Body
<1>2. Onward(src[s], q)
  BY DEF Onward, Serving
<1>3. q.seen <= best + FLOOR_SLACK
  BY SourceIs
<1> QED BY <1>1, <1>2, <1>3, QuietOk

\* The fields a step of a serving source may change.
Call == {"pc", "held", "want", "tip", "leg", "fresh", "seen", "lg", "migErr", "rp", "rd"}

LEMMA EndedOk ==
    ASSUME NEW st, NEW r, Body(r, st), NEW q, q = Ended(r)
    PROVE  Body(q, st) /\ Same(r, q, {"pc", "want", "tip", "leg", "fresh"}) /\ q.pc = "idle"
           /\ q.held = r.held /\ q.seen = r.seen
<1>1. SourceType(r) /\ DOMAIN r = Fields /\ Held(r.held) /\ Held(Anchor)
  BY OffOk DEF Body, SourceType, SourceOk
<1>2. /\ Same(r, q, {"pc", "want", "tip", "leg", "fresh"}) /\ q.pc = "idle" /\ q.want = 0 /\ q.tip = 0 /\ q.leg = 0
      /\ q.fresh = Anchor
  BY <1>1 DEF Ended, Same, Fields
<1>3. q.held = r.held /\ q.seen = r.seen /\ q.lg = r.lg /\ q.migErr = r.migErr /\ Same(r, q, Call)
  BY <1>2 DEF Same, Fields, Call
<1>4. Extends(q.held, r.held) /\ q.seen \in Nat /\ q.lg \in Old /\ q.migErr \in BOOLEAN
  BY <1>1, <1>3, HeldIs, ExtendsSelf DEF SourceType
<1>5. Body(q, st)
  BY <1>1, <1>2, <1>3, <1>4, ServeOk DEF Serving, Call
<1> QED BY <1>2, <1>3, <1>5

LEMMA ReadTipStep ==
    ASSUME IInv, NEW s \in Sources, NEW reach \in Reaches, NEW t \in Tips(s), ReadTip(s, reach, t)
    PROVE  IInv' /\ Forward
<1> DEFINE r == src[s]
           want == IF t = 0 THEN r.held.h ELSE Min({t, reach})
           asked == [r EXCEPT !.want = want, !.tip = t]
           q == IF want <= r.held.h THEN [asked EXCEPT !.pc = "done"]
                ELSE [asked EXCEPT !.pc = "sync", !.leg = r.held.h + SYNC_PERSIST_WINDOW]
<1>1. r.pc = "idle" /\ Becomes(s, q) /\ UNCHANGED <<env, disk>> /\ pin' = pin
  BY DEF ReadTip
<1>2. /\ SourceType(r) /\ DOMAIN r = Fields /\ Body(r, chunks) /\ Held(r.held) /\ Held(r.fresh) /\ r.held.h \in Nat
      /\ Extends(r.held, r.held) /\ PinIs(pin) /\ Work(r.held) \in Nat /\ r.seen \in Nat
  BY <1>1, SourceIs, HeldIs DEF Opening, SourceType
<1>3. t \in Nat /\ reach \in Nat
  <2>1. served[s].h \in Nat /\ \A d \in Lies : d \in Int
    BY SourceIs, SyncAssumption, HeaderIs
  <2>2. \A d \in Lies : served[s].h + d \in Int
    BY <2>1
  <2>3. t = 0 \/ (t > 0 /\ \E d \in Lies : t = served[s].h + d)
    BY DEF Tips
  <2> QED BY <2>2, <2>3, SyncAssumption
<1>4. want \in Nat
  BY <1>2, <1>3, Min2
<1> HIDE DEF want
<1>5. /\ Same(r, q, {"pc", "want", "tip", "leg"}) /\ q.want = want /\ q.tip = t
      /\ want <= r.held.h => q.pc = "done" /\ q.leg = r.leg
      /\ ~(want <= r.held.h) => q.pc = "sync" /\ q.leg = r.held.h + SYNC_PERSIST_WINDOW
  BY <1>2 DEF Same, Fields
<1> HIDE DEF q
<1>6. /\ q.held = r.held /\ q.seen = r.seen /\ q.lg = r.lg /\ q.migErr = r.migErr /\ q.fresh = r.fresh /\ Same(r, q, Call)
  BY <1>5 DEF Same, Fields, Call
<1>7. q.leg \in Nat /\ q.pc \in {"done", "sync"} /\ (q.pc = "sync" => q.held.h < q.want /\ q.held.h < q.leg)
  BY <1>2, <1>4, <1>5, <1>6, Constants DEF SourceType
<1>8. Body(q, chunks)
  BY <1>2, <1>3, <1>4, <1>5, <1>6, <1>7, ServeOk DEF SourceType, Serving, Call
<1>9. r.pc \in Serving /\ q.pc \in Serving /\ Work(q.held) >= Work(r.held) /\ PinIs(pin')
  BY <1>1, <1>2, <1>6, <1>7 DEF Serving
<1> QED BY <1>1, <1>6, <1>7, <1>8, <1>9, ServedStep

LEMMA PageEndIs ==
    ASSUME NEW x, x.h \in Nat, NEW goal \in Nat, x.h < goal
    PROVE  PageEnd(x, goal) \in Nat /\ x.h < PageEnd(x, goal) /\ PageEnd(x, goal) <= goal
<1> DEFINE n == x.h + 1
           m == n % PAGE
           e == n - m + PAGE - 1
<1>1. n \in Nat /\ PAGE \in Nat /\ PAGE > 0
  BY Constants
<1>2. m \in 0..(PAGE - 1)
  <2> HIDE DEF n
  <2> QED BY <1>1
<1> HIDE DEF m
<1>3. e \in Int /\ n <= e
  BY <1>1, <1>2
<1>4. PageEnd(x, goal) = Min({goal, e})
  BY DEF PageEnd, m
<1> HIDE DEF e
<1>5. PageEnd(x, goal) = IF goal <= e THEN goal ELSE e
  BY <1>3, <1>4, Min2
<1> QED BY <1>1, <1>3, <1>5

\* Whatever a request brings, the client keeps what it has or goes on from there.
LEMMA AnswerIs ==
    ASSUME NEW s \in Sources, served[s] \in Chains, NEW x, Held(x), NEW goal \in Nat, x.h < goal, NEW a \in Answers(s, x, goal)
    PROVE  Held(a.x) /\ Extends(a.x, x) /\ a.x.h <= goal
<1> DEFINE e == PageEnd(x, goal)
           c == served[s]
           d == At(c, e)
           y == Timely(d, x.h, behind)
<1>1. x \in Headers /\ x.h \in Nat /\ Newest \in Nat /\ Newest <= x.h /\ Extends(x, x)
  BY HeldIs, ExtendsSelf
<1>2. c \in Headers /\ c.h \in Nat /\ Fits(c.h)
  BY SyncAssumption, ChunksFit, HeaderIs DEF Fits
<1>3. e \in Nat /\ x.h < e /\ e <= goal
  BY <1>1, PageEndIs
<1>4. a.x = x \/ (a.x = y /\ e <= c.h /\ Extends(c, x))
  <2>1. CASE a \in [x : {x}, why : {"transient", "structural"}]
    BY <2>1
  <2>2. CASE a = Answer(s, x, goal)
    <3>1. CASE e > c.h
      BY <2>2, <3>1 DEF Answer
    <3>2. CASE ~(e > c.h) /\ ~Extends(c, x)
      BY <2>2, <3>2 DEF Answer
    <3>3. CASE ~(e > c.h) /\ Extends(c, x)
      <4>1. a.x = y
        BY <2>2, <3>3 DEF Answer
      <4> HIDE DEF e, c, y
      <4> QED BY <1>2, <1>3, <3>3, <4>1
    <3> QED BY <3>1, <3>2, <3>3
  <2> QED BY <2>1, <2>2 DEF Answers
<1>5. CASE a.x = x
  BY <1>1, <1>5
<1>6. CASE a.x = y /\ e <= c.h /\ Extends(c, x)
  <2> HIDE DEF e, c
  <2>1. d \in Headers /\ d.h = e /\ At(c, x.h) = x
    BY <1>2, <1>3, <1>6, AtHeader DEF Extends
  <2>2. Fits(e)
    BY <1>2, <1>3, <1>6, FitsBelow
  <2>3. Held(d)
    BY <1>1, <1>3, <2>1, <2>2 DEF Held
  <2>4. At(d, x.h) = x
    BY <1>1, <1>3, <2>1, AtAt
  <2> HIDE DEF d
  <2>5. PICK m \in x.h..d.h : y = At(d, m)
    BY <1>1, <1>3, <2>1, TimelyIs
  <2>6. Held(At(d, m)) /\ At(d, m).h = m
    BY <1>1, <1>3, <2>1, <2>3, <2>5, HeldIs
  <2>7. Extends(At(d, m), At(d, x.h))
    BY <1>1, <1>3, <2>1, <2>5, ExtendsBelow
  <2>8. m <= goal
    BY <1>1, <1>3, <2>1, <2>5
  <2> QED BY <1>6, <2>4, <2>5, <2>6, <2>7, <2>8
<1> QED BY <1>4, <1>5, <1>6

LEMMA SyncPageStep == ASSUME IInv, NEW s \in Sources, SyncPage(s) PROVE IInv' /\ Forward
<1> DEFINE r == src[s]
           goal == IF r.leg < r.want THEN r.leg ELSE r.want
<1>1. /\ r.pc = "sync" /\ SourceOk(r, chunks) /\ SourceType(r) /\ DOMAIN r = Fields /\ Body(r, chunks) /\ Held(r.held)
      /\ r.held.h \in Nat /\ r.want \in Nat /\ r.leg \in Nat /\ r.held.h < r.want /\ r.held.h < r.leg /\ PinIs(pin)
      /\ UNCHANGED <<env, disk>> /\ served[s] \in Chains /\ Work(r.held) \in Nat /\ r.seen \in Nat
  BY SourceIs, HeldIs DEF SyncPage, SourceOk, Steps, SourceType, Opening
<1>2. goal \in Nat /\ r.held.h < goal /\ goal <= r.leg /\ goal <= r.want
  BY <1>1
<1>3. PICK a \in Answers(s, r.held, goal) :
         LET got == [r EXCEPT !.held = a.x]
             kept == Persist(got) IN
         IF a.why = "ok" /\ a.x.h < goal THEN Becomes(s, got) /\ UNCHANGED pin
         ELSE /\ pin' = PinAfter(got)
              /\ Becomes(s, CASE a.why = "ok" /\ a.x.h < r.want -> [kept EXCEPT !.leg = @ + SYNC_PERSIST_WINDOW]
                              [] a.why = "ok" /\ a.x.h >= r.want -> [kept EXCEPT !.pc = "done"]
                              [] a.why = "structural" -> [kept EXCEPT !.pc = "reseed", !.fresh = Anchor]
                              [] OTHER -> Ended(kept))
  BY DEF SyncPage
<1> DEFINE got == [r EXCEPT !.held = a.x]
           kept == Persist(got)
<1> HIDE DEF goal
<1>4. Held(a.x) /\ Extends(a.x, r.held) /\ a.x.h <= goal /\ a.x.h \in Nat /\ a.x \in Headers
  <2>1. Held(a.x) /\ Extends(a.x, r.held) /\ a.x.h <= goal
    BY <1>1, <1>2, AnswerIs
  <2> QED BY <2>1, HeldIs
<1>5. Same(r, got, {"held"}) /\ got.held = a.x
  BY <1>1 DEF Same, Fields
<1>6. /\ got.pc = r.pc /\ got.want = r.want /\ got.tip = r.tip /\ got.leg = r.leg /\ got.fresh = r.fresh
      /\ got.seen = r.seen /\ got.lg = r.lg /\ got.migErr = r.migErr /\ Same(r, got, Call)
  BY <1>5 DEF Same, Fields, Call
<1>7. Work(a.x) >= Work(r.held) /\ Held(Anchor)
  <2>1. Held(Anchor)
    BY OffOk DEF SourceOk, SourceType
  <2> QED BY <1>1, <1>4, <2>1, HeldIs, WorkExtends
<1> HIDE DEF got
<1>8. Body(got, chunks)
  BY <1>1, <1>4, <1>5, <1>6, ServeOk DEF SourceType, Serving, Call
<1>9. Body(kept, chunks) /\ Same(got, kept, {"job", "pend", "persisted"}) /\ PinIs(PinAfter(got))
  BY <1>8, PersistOk, PinAfterOk, SourceIs
<1>10. /\ kept.pc = r.pc /\ kept.want = r.want /\ kept.tip = r.tip /\ kept.leg = r.leg /\ kept.fresh = r.fresh
       /\ kept.seen = r.seen /\ kept.lg = r.lg /\ kept.migErr = r.migErr /\ kept.held = a.x /\ DOMAIN kept = Fields
  BY <1>5, <1>6, <1>9 DEF Same, Fields
<1> HIDE DEF kept
<1>11. r.pc \in Serving
  BY <1>1 DEF Serving
<1>12. CASE a.why = "ok" /\ a.x.h < goal
  <2>1. Becomes(s, got) /\ PinIs(pin')
    BY <1>1, <1>3, <1>12 DEF got
  <2>2. got.held.h < got.want /\ got.held.h < got.leg
    BY <1>1, <1>2, <1>4, <1>5, <1>6, <1>12
  <2> QED BY <1>1, <1>5, <1>6, <1>7, <1>8, <1>11, <2>1, <2>2, ServedStep
<1>13. CASE ~(a.why = "ok" /\ a.x.h < goal)
  <2>1. PinIs(pin')
    BY <1>3, <1>9, <1>13 DEF got, kept
  <2>2. ASSUME NEW q, Becomes(s, q), Same(kept, q, {"pc", "leg", "fresh"}), q.leg \in Nat, Held(q.fresh),
               q.pc \in {"sync", "reseed", "done"}, q.pc = "sync" => q.held.h < q.want /\ q.held.h < q.leg
        PROVE  IInv' /\ Forward
    <3>1. /\ q.held = kept.held /\ q.want = kept.want /\ q.tip = kept.tip /\ q.seen = kept.seen /\ q.lg = kept.lg
          /\ q.migErr = kept.migErr /\ Same(kept, q, Call)
      BY <2>2 DEF Same, Fields, Call
    <3>2. Extends(kept.held, kept.held)
      BY <1>4, <1>10, ExtendsSelf
    <3>3. Body(q, chunks)
      BY <1>1, <1>4, <1>9, <1>10, <2>2, <3>1, <3>2, ServeOk DEF SourceType, Serving, Call
    <3>4. q.pc \in Serving /\ q.seen = r.seen /\ Work(q.held) >= Work(r.held)
      BY <1>7, <1>10, <2>2, <3>1 DEF Serving
    <3> QED BY <1>1, <1>11, <2>1, <2>2, <3>3, <3>4, ServedStep
  <2>3. CASE a.why = "ok" /\ a.x.h < r.want
    <3> DEFINE q == [kept EXCEPT !.leg = @ + SYNC_PERSIST_WINDOW]
    <3>1. Becomes(s, q)
      BY <1>1, <1>3, <1>4, <1>13, <2>3 DEF got, kept
    <3>2. Same(kept, q, {"leg"}) /\ q.leg = r.leg + SYNC_PERSIST_WINDOW
      BY <1>10 DEF Same, Fields
    <3>3. /\ q.pc = "sync" /\ q.held = a.x /\ q.want = r.want /\ q.fresh = r.fresh /\ Same(kept, q, {"pc", "leg", "fresh"})
      BY <1>1, <1>10, <3>2 DEF Same, Fields
    <3> HIDE DEF q
    <3>4. q.leg \in Nat /\ q.held.h < q.want /\ q.held.h < q.leg
      BY <1>1, <1>2, <1>4, <2>3, <3>2, <3>3, Constants
    <3>5. Held(q.fresh)
      BY <1>1, <3>3 DEF SourceType
    <3> QED BY <2>2, <3>1, <3>3, <3>4, <3>5
  <2>4. CASE a.why = "ok" /\ ~(a.x.h < r.want)
    <3> DEFINE q == [kept EXCEPT !.pc = "done"]
    <3>1. Becomes(s, q)
      BY <1>1, <1>3, <1>4, <1>13, <2>4 DEF got, kept
    <3>2. Same(kept, q, {"pc", "leg", "fresh"}) /\ q.pc = "done" /\ q.leg = r.leg /\ q.fresh = r.fresh
      BY <1>10 DEF Same, Fields
    <3> HIDE DEF q
    <3>3. Held(q.fresh)
      BY <1>1, <3>2 DEF SourceType
    <3> QED BY <1>1, <2>2, <3>1, <3>2, <3>3
  <2>5. CASE a.why = "structural"
    <3> DEFINE q == [kept EXCEPT !.pc = "reseed", !.fresh = Anchor]
    <3>1. Becomes(s, q)
      BY <1>3, <1>13, <2>5 DEF got, kept
    <3>2. Same(kept, q, {"pc", "leg", "fresh"}) /\ q.pc = "reseed" /\ q.leg = r.leg /\ q.fresh = Anchor
      BY <1>10 DEF Same, Fields
    <3> HIDE DEF q
    <3> QED BY <1>1, <1>7, <2>2, <3>1, <3>2
  <2>6. CASE a.why # "ok" /\ a.why # "structural"
    <3>1. Becomes(s, Ended(kept))
      BY <1>3, <1>13, <2>6 DEF got, kept
    <3>2. /\ Body(Ended(kept), chunks) /\ Ended(kept).pc = "idle" /\ Ended(kept).held = a.x /\ Ended(kept).seen = r.seen
      BY <1>9, <1>10, EndedOk
    <3> DEFINE q == Ended(kept)
    <3> HIDE DEF q
    <3>3. q.pc \in Serving /\ q.pc # "sync" /\ Body(q, chunks) /\ q.held = a.x /\ q.seen = r.seen /\ Becomes(s, q)
      BY <3>1, <3>2 DEF q, Serving
    <3> QED BY <1>1, <1>7, <1>11, <2>1, <3>3, ServedStep
  <2> QED BY <2>3, <2>4, <2>5, <2>6
<1> QED BY <1>12, <1>13

\* The work a source compares by is the work of the chain it holds, from the anchor.
LEMMA HeldWorkOk ==
    ASSUME NEW x \in Headers, x.h >= Newest, NEW r, r.held \in Headers, r.base \in AnchorBase..r.held.h,
           r.workBase = Work(At(r.held, r.base - 1)) - AnchorBase
    PROVE  /\ LcWork(x, AnchorBase) = Work(x) - AnchorBase /\ Work(x) \in Nat
           /\ heldWork(r) = Work(r.held) - AnchorBase /\ Work(r.held) \in Nat
<1>1. x.h \in Nat /\ r.held.h \in Nat /\ r.base \in Nat /\ AnchorBase \in Nat /\ AnchorBase <= Newest /\ Newest \in Nat
      /\ Newest <= Fork /\ Fork \in Nat
  BY HeaderIs, Constants
<1>2. Work(x) \in Nat /\ Work(r.held) \in Nat
  BY ExtendsSelf, WorkExtends
<1>3. Work(At(x, AnchorBase - 1)) = AnchorBase
  <2>1. AnchorBase - 1 \in Int /\ -1 <= AnchorBase - 1 /\ AnchorBase - 1 <= x.h /\ AnchorBase - 1 <= Fork
    BY <1>1
  <2> QED BY <1>1, <2>1, WorkIs
<1>4. Work(At(r.held, r.base - 1)) \in Nat
  <2>1. r.base - 1 \in Int /\ -1 <= r.base - 1 /\ r.base - 1 <= r.held.h
    BY <1>1
  <2> QED BY <2>1, WorkIs
<1> QED BY <1>1, <1>2, <1>3, <1>4 DEF LcWork, heldWork

LEMMA ReseedPageStep == ASSUME IInv, NEW s \in Sources, ReseedPage(s) PROVE IInv' /\ Forward
<1> DEFINE r == src[s]
           goal == IF r.pc = "reseed" THEN r.want ELSE r.tip
<1>1. /\ r.pc \in {"reseed", "last"} /\ SourceType(r) /\ DOMAIN r = Fields /\ Body(r, chunks) /\ Held(r.held)
      /\ r.want \in Nat /\ r.tip \in Nat /\ Held(r.fresh) /\ PinIs(pin) /\ pin' = pin /\ UNCHANGED <<env, disk>>
      /\ served[s] \in Chains /\ Work(r.held) \in Nat /\ r.fresh.h < goal /\ Extends(r.held, r.held)
  BY SourceIs DEF ReseedPage, SourceType, Opening
<1>2. goal \in Nat /\ r.pc \in Serving
  BY <1>1 DEF Serving
<1>3. PICK a \in Answers(s, r.fresh, goal) : Becomes(s, IF a.why = "ok" THEN [r EXCEPT !.fresh = a.x] ELSE Ended(r))
  BY DEF ReseedPage
<1> HIDE DEF goal
<1>4. Held(a.x)
  BY <1>1, <1>2, AnswerIs
<1>5. CASE a.why = "ok"
  <2> DEFINE q == [r EXCEPT !.fresh = a.x]
  <2>1. Becomes(s, q)
    BY <1>3, <1>5
  <2>2. Same(r, q, {"fresh"}) /\ q.fresh = a.x
    BY <1>1 DEF Same, Fields
  <2> HIDE DEF q
  <2>3. /\ q.pc = r.pc /\ q.held = r.held /\ q.want = r.want /\ q.tip = r.tip /\ q.leg = r.leg /\ q.seen = r.seen
        /\ q.lg = r.lg /\ q.migErr = r.migErr /\ Same(r, q, Call)
    BY <2>2 DEF Same, Fields, Call
  <2>4. Body(q, chunks)
    BY <1>1, <1>2, <1>4, <2>2, <2>3, ServeOk DEF SourceType, Call
  <2> QED BY <1>1, <1>2, <2>1, <2>3, <2>4, ServedStep
<1>6. CASE a.why # "ok"
  <2> DEFINE q == Ended(r)
  <2>1. Becomes(s, q) /\ Body(q, chunks) /\ q.pc = "idle" /\ q.held = r.held /\ q.seen = r.seen
    BY <1>1, <1>3, <1>6, EndedOk
  <2> HIDE DEF q
  <2> QED BY <1>1, <1>2, <2>1, ServedStep DEF Serving
<1> QED BY <1>5, <1>6

LEMMA ReseedStep == ASSUME IInv, NEW s \in Sources, Reseed(s) PROVE IInv' /\ Forward
<1> DEFINE r == src[s]
           ad == Adopted(r)
           p == Persist(ad)
           q == [p EXCEPT !.pc = "done", !.fresh = Anchor]
           l == [r EXCEPT !.pc = "last"]
<1>1. /\ r.pc \in {"reseed", "last"} /\ SourceType(r) /\ DOMAIN r = Fields /\ Body(r, chunks) /\ Held(r.held) /\ Held(r.fresh)
      /\ PinIs(pin) /\ UNCHANGED <<env, disk>> /\ StoreOk(chunks) /\ Work(r.held) \in Nat /\ Extends(r.held, r.held)
      /\ r.pc \in Serving
  BY SourceIs DEF Reseed, SourceType, Opening, Serving
<1>2. CASE reseedAdopts(r)
  <2>1. pin' = PinAfter(ad) /\ Becomes(s, q)
    BY <1>2 DEF Reseed
  <2>2. Body(ad, chunks) /\ Same(r, ad, {"held", "base", "workBase", "persisted"}) /\ ad.held = r.fresh
    BY <1>1, AdoptedOk
  <2> HIDE DEF ad
  <2>3. Body(p, chunks) /\ Same(ad, p, {"job", "pend", "persisted"}) /\ PinIs(PinAfter(ad))
    BY <1>1, <2>2, PersistOk, PinAfterOk
  <2> HIDE DEF p
  <2>4. /\ p.held = r.fresh /\ p.want = r.want /\ p.tip = r.tip /\ p.leg = r.leg /\ p.seen = r.seen /\ p.lg = r.lg
        /\ p.migErr = r.migErr /\ DOMAIN p = Fields
    BY <2>2, <2>3 DEF Same, Fields
  <2>5. Same(p, q, {"pc", "fresh"}) /\ q.pc = "done" /\ q.fresh = Anchor
    BY <2>4 DEF Same, Fields
  <2> HIDE DEF q
  <2>6. /\ q.held = r.fresh /\ q.want = r.want /\ q.tip = r.tip /\ q.leg = r.leg /\ q.seen = r.seen /\ q.lg = r.lg
        /\ q.migErr = r.migErr /\ Same(p, q, Call)
    BY <2>4, <2>5 DEF Same, Fields, Call
  <2>7. Held(Anchor) /\ Extends(r.fresh, r.fresh) /\ r.fresh \in Headers /\ r.fresh.h >= Newest
    BY <1>1, OffOk, HeldIs, ExtendsSelf DEF SourceOk, SourceType
  <2>8. Body(q, chunks)
    BY <1>1, <2>3, <2>4, <2>5, <2>6, <2>7, ServeOk DEF SourceType, Serving, Call
  <2>9. Work(r.fresh) > Work(r.held)
    <3>1. /\ r.held \in Headers /\ r.base \in AnchorBase..r.held.h
          /\ r.workBase = Work(At(r.held, r.base - 1)) - AnchorBase
      BY <1>1, HeldIs DEF Body, WorkOk
    <3>2. /\ LcWork(r.fresh, AnchorBase) = Work(r.fresh) - AnchorBase /\ Work(r.fresh) \in Nat
          /\ heldWork(r) = Work(r.held) - AnchorBase /\ Work(r.held) \in Nat
      BY <2>7, <3>1, HeldWorkOk
    <3> QED BY <1>2, <3>2, Constants DEF reseedAdopts
  <2>10. Work(q.held) >= Work(r.held) /\ q.pc \in Serving /\ q.pc # "sync"
    <3>1. Work(r.fresh) \in Nat
      BY <2>7, WorkExtends
    <3> QED BY <1>1, <2>5, <2>6, <2>9, <3>1 DEF Serving
  <2> QED BY <1>1, <2>1, <2>3, <2>6, <2>8, <2>10, ServedStep
<1>3. CASE ~reseedAdopts(r) /\ r.pc = "reseed" /\ ComparesAtTip(r)
  <2>1. pin' = pin /\ Becomes(s, l)
    BY <1>3 DEF Reseed
  <2>2. Same(r, l, {"pc"}) /\ l.pc = "last"
    BY <1>1 DEF Same, Fields
  <2> HIDE DEF l
  <2>3. /\ l.held = r.held /\ l.want = r.want /\ l.tip = r.tip /\ l.leg = r.leg /\ l.seen = r.seen /\ l.lg = r.lg
        /\ l.migErr = r.migErr /\ l.fresh = r.fresh /\ Same(r, l, Call)
    BY <2>2 DEF Same, Fields, Call
  <2>4. Body(l, chunks)
    BY <1>1, <2>2, <2>3, ServeOk DEF SourceType, Serving, Call
  <2> QED BY <1>1, <2>1, <2>2, <2>3, <2>4, ServedStep DEF Serving
<1>4. CASE ~reseedAdopts(r) /\ ~(r.pc = "reseed" /\ ComparesAtTip(r))
  <2> DEFINE e == Ended(r)
  <2>1. pin' = pin /\ Becomes(s, e) /\ Body(e, chunks) /\ e.pc = "idle" /\ e.held = r.held /\ e.seen = r.seen
    BY <1>1, <1>4, EndedOk DEF Reseed
  <2> HIDE DEF e
  <2> QED BY <1>1, <2>1, ServedStep DEF Serving
<1> QED BY <1>2, <1>3, <1>4

\* What the wallet remembers of the tip is never more than the cushion above what it verified.
LEMMA FloorIs ==
    ASSUME NEW seen \in Nat, NEW tip \in Nat, NEW verified \in Nat, NEW most \in Nat,
           seen <= most + FLOOR_SLACK, verified <= most, NEW f, f = floorAdvance(seen, tip, verified)
    PROVE  f \in Nat /\ f <= most + FLOOR_SLACK
<1> DEFINE v == verified + FLOOR_SLACK
           m == Min({tip, v})
<1>1. FLOOR_SLACK \in Nat /\ v \in Nat /\ v <= most + FLOOR_SLACK
  BY Constants
<1> HIDE DEF v
<1>2. m = IF tip <= v THEN tip ELSE v
  BY <1>1, Min2
<1>3. m \in Nat /\ m <= v
  <2> HIDE DEF m
  <2> QED BY <1>1, <1>2
<1>4. f = Max({seen, m})
  BY DEF floorAdvance, v
<1> HIDE DEF m
<1>5. f = IF seen >= m THEN seen ELSE m
  BY <1>3, <1>4, Max2
<1> QED BY <1>1, <1>3, <1>5

LEMMA FinishStep == ASSUME IInv, NEW s \in Sources, Finish(s) PROVE IInv' /\ Forward
<1> DEFINE r == src[s]
           f == floorAdvance(r.seen, r.tip, r.held.h)
           e == Ended(r)
           q == [e EXCEPT !.seen = f]
<1>1. /\ r.pc = "done" /\ SourceType(r) /\ DOMAIN r = Fields /\ Body(r, chunks) /\ Held(r.held) /\ r.held.h \in Nat /\ Earned(r, best)
      /\ r.seen \in Nat /\ r.tip \in Nat /\ PinIs(pin) /\ best \in Nat /\ floor \in Nat /\ floor <= best + FLOOR_SLACK
      /\ StoreOk(chunks) /\ Work(r.held) \in Nat
  BY SourceIs, HeldIs DEF Finish, SourceType, Opening
<1>2. /\ floor' = (IF f > r.seen THEN f ELSE floor) /\ Becomes(s, q)
      /\ UNCHANGED <<env, chunks, head, legacy, attempts, pin>>
  BY DEF Finish
<1>3. f \in Nat /\ f <= best + FLOOR_SLACK
  BY <1>1, FloorIs DEF Earned
<1> HIDE DEF f
<1>4. /\ Body(e, chunks) /\ Same(r, e, {"pc", "want", "tip", "leg", "fresh"}) /\ e.pc = "idle" /\ e.held = r.held
  BY <1>1, EndedOk
<1> HIDE DEF e
<1>5. SourceType(e) /\ DOMAIN e = Fields
  BY <1>4 DEF Body, SourceType
<1>6. Same(e, q, {"seen"}) /\ q.seen = f
  BY <1>5 DEF Same, Fields
<1> HIDE DEF q
<1>7. /\ q.pc = "idle" /\ q.held = r.held /\ q.want = e.want /\ q.tip = e.tip /\ q.leg = e.leg /\ q.lg = e.lg
      /\ q.migErr = e.migErr /\ q.fresh = e.fresh /\ Same(e, q, Call)
  BY <1>4, <1>5, <1>6 DEF Same, Fields, Call
<1>8. SourceOk(q, chunks)
  <2>1. Extends(q.held, e.held)
    BY <1>1, <1>4, <1>7, HeldIs, ExtendsSelf
  <2>2. Body(q, chunks)
    BY <1>1, <1>3, <1>4, <1>5, <1>6, <1>7, <2>1, ServeOk DEF SourceType, Serving, Call
  <2>3. Steps(q, chunks)
    BY <1>7 DEF Steps, Opening, Migrating
  <2> QED BY <2>2, <2>3 DEF SourceOk, Body
<1>9. Onward(r, q)
  BY <1>1, <1>7 DEF Onward
<1>10. /\ SourceOk(q, chunks') /\ q.seen <= best + FLOOR_SLACK /\ StoreOk(chunks')
      /\ (\A k \in Chunks : k >= 1 => chunks'[k] = chunks[k]) /\ floor' \in Nat /\ floor' <= best + FLOOR_SLACK /\ UNCHANGED env
      /\ PinIs(pin') /\ attempts' \in 0..MIGRATE_MAX /\ legacy' \in Old
  BY <1>1, <1>2, <1>3, <1>6, <1>8 DEF IInv, DiskOk
<1>11. IInv' /\ \A t \in Sources : src'[t] = src[t] \/ src'[t] = Off \/ (t = s /\ src'[t] = q)
  BY <1>2, <1>10, BecomesOk
<1> QED BY <1>9, <1>11, ForwardIs

(* Detached writes and the surroundings *)

\* A step that leaves every source its chain, and its place or none.
LEMMA StillForward ==
    ASSUME IInv, \A t \in Sources : src'[t] = Off \/ (src'[t].held = src[t].held /\ src'[t].pc = src[t].pc)
    PROVE  Forward
<1> SUFFICES ASSUME NEW t \in Sources PROVE Onward(src[t], src'[t])
  BY DEF Forward
<1>1. Work(src[t].held) \in Nat
  BY SourceIs
<1>2. CASE src'[t] = Off
  BY <1>2, OffOk DEF Onward, Serving
<1>3. CASE src'[t].held = src[t].held /\ src'[t].pc = src[t].pc
  BY <1>1, <1>3 DEF Onward
<1> QED BY <1>2, <1>3

LEMMA OffEarned == ASSUME IInv PROVE Earned(Off, best)
<1>1. best \in Nat /\ Newest <= best /\ FLOOR_SLACK \in Nat /\ Anchor.h = Newest
  BY Constants, AnchorIs DEF IInv, WorldOk
<1> QED BY <1>1, OffOk DEF Earned

\* The write under way has landed, or failed.
LEMMA WrittenOk ==
    ASSUME NEW st, NEW r, SourceOk(r, st), r.job # None, NEW ok \in BOOLEAN,
           NEW now, now = IF ok THEN Apply(st, r.job) ELSE st,
           NEW q, Same(r, q, {"job", "pend", "sole"}), q.job = r.pend, q.pend = None,
           q.sole \in BOOLEAN, q.sole => r.sole /\ ok
    PROVE  SourceOk(q, now) /\ q.held = r.held /\ q.seen = r.seen /\ q.pc = r.pc
<1>1. SourceType(r) /\ r.pc \notin Opening \cup Migrating
  BY DEF SourceOk, SourceType, Steps
<1>2. /\ q.pc = r.pc /\ q.store = r.store /\ q.lg = r.lg /\ q.migErr = r.migErr /\ q.rd = r.rd /\ q.base = r.base
      /\ q.workBase = r.workBase /\ q.held = r.held /\ q.fresh = r.fresh /\ q.persisted = r.persisted
      /\ q.want = r.want /\ q.tip = r.tip /\ q.leg = r.leg /\ q.seen = r.seen /\ q.keys = r.keys /\ DOMAIN q = Fields
  BY DEF Same, Fields
<1>3. SourceType(q)
  BY <1>1, <1>2 DEF SourceType
<1>4. Steps(q, now)
  BY <1>1, <1>2 DEF SourceOk, Steps, Opening, Migrating
<1>5. WorkOk(q)
  BY <1>2 DEF SourceOk, WorkOk
<1>6. Solid(q, now)
  <2> SUFFICES ASSUME q.store, q.sole PROVE HoldsUpTo(Landed(now, q), At(q.held, q.persisted))
    BY DEF Solid
  <2>1. HoldsUpTo(Landed(st, r), At(r.held, r.persisted))
    BY <1>1, <1>2 DEF SourceOk, Solid
  <2>2. Landed(now, q) = Landed(st, r)
    BY DEF Landed, After
  <2> QED BY <1>2, <2>1, <2>2
<1> QED BY <1>2, <1>3, <1>4, <1>5, <1>6 DEF SourceOk

\* Another source of the worker finds its store written, or not.
LEMMA BesideOk ==
    ASSUME NEW st, NEW r, SourceOk(r, st), NEW ok \in BOOLEAN, NEW now, ~ok => now = st,
           NEW q, q = [r EXCEPT !.sole = @ /\ ~ok]
    PROVE  SourceOk(q, now) /\ q.held = r.held /\ q.seen = r.seen /\ q.pc = r.pc
<1>1. DOMAIN r = Fields /\ r.sole \in BOOLEAN /\ "sole" \in Fields
  BY DEF SourceOk, SourceType, Fields
<1>2. CASE ok
  <2>1. (r.sole /\ ~ok) = FALSE
    BY <1>2
  <2>2. q = [r EXCEPT !.sole = FALSE]
    BY <2>1
  <2> QED BY <2>2, UnsoleOk
<1>3. CASE ~ok
  <2>1. (r.sole /\ ~ok) = r.sole
    BY <1>1, <1>3
  <2>2. q = [r EXCEPT !.sole = r.sole]
    BY <2>1
  <2>3. Same(r, q, {})
    BY <1>1, <2>2 DEF Same
  <2>4. /\ q.pc = r.pc /\ q.store = r.store /\ q.lg = r.lg /\ q.migErr = r.migErr /\ q.rd = r.rd /\ q.base = r.base
        /\ q.workBase = r.workBase /\ q.held = r.held /\ q.fresh = r.fresh /\ q.persisted = r.persisted /\ q.want = r.want
        /\ q.tip = r.tip /\ q.leg = r.leg /\ q.seen = r.seen /\ q.job = r.job /\ q.pend = r.pend /\ q.keys = r.keys
        /\ q.sole = r.sole /\ DOMAIN q = Fields
    BY <2>3 DEF Same, Fields
  <2>5. SourceType(q) /\ Steps(q, st) /\ WorkOk(q) /\ Solid(q, st)
    BY <2>4 DEF SourceOk, SourceType, Steps, ReadBack, WorkOk, Solid, Landed
  <2> QED BY <1>3, <2>4, <2>5 DEF SourceOk
<1> QED BY <1>2, <1>3

LEMMA StoreWriteStep ==
    ASSUME IInv, NEW s \in Sources, NEW ok \in BOOLEAN, StoreWrite(s, ok) PROVE IInv' /\ Forward
<1> DEFINE r == src[s]
           q == [r EXCEPT !.job = r.pend, !.pend = None, !.sole = @ /\ ok]
           beside(t) == [src[t] EXCEPT !.sole = @ /\ ~ok]
<1>1. /\ r.job # None /\ chunks' = (IF ok THEN Apply(chunks, r.job) ELSE chunks)
      /\ src' = [t \in Sources |-> IF t = s THEN Kept(s, q) ELSE beside(t)]
      /\ UNCHANGED <<env, floor, legacy, attempts, pin, best>>
  BY DEF StoreWrite
<1>2. SourceOk(r, chunks) /\ SourceType(r) /\ StoreOk(chunks) /\ Earned(r, best) /\ PinIs(pin)
  BY SourceIs
<1>3. StoreOk(chunks')
  <2>1. IsWrite(r.job)
    BY <1>1, <1>2 DEF SourceType
  <2> QED BY <1>1, <1>2, <2>1, ApplyOk
<1>4. SourceOk(q, chunks') /\ q.held = r.held /\ q.seen = r.seen /\ q.pc = r.pc
  <2> DEFINE sole == r.sole /\ ok
  <2>1. DOMAIN r = Fields /\ r.sole \in BOOLEAN
    BY <1>2 DEF SourceType
  <2>2. q = [r EXCEPT !.job = r.pend, !.pend = None, !.sole = sole] /\ sole \in BOOLEAN /\ (sole => r.sole /\ ok)
    OBVIOUS
  <2> HIDE DEF sole, q
  <2>3. Same(r, q, {"job", "pend", "sole"}) /\ q.job = r.pend /\ q.pend = None /\ q.sole = sole
    BY <2>1, <2>2 DEF Same, Fields
  <2>4. q.sole \in BOOLEAN /\ (q.sole => r.sole /\ ok)
    BY <2>2, <2>3
  <2> QED BY <1>1, <1>2, <2>3, <2>4, WrittenOk
<1> HIDE DEF q
<1>5. Kept(s, q) = q \/ Kept(s, q) = Off
  BY DEF Kept, Retired
<1>6. \A t \in Sources : SourceOk(beside(t), chunks') /\ beside(t).held = src[t].held /\ beside(t).seen = src[t].seen
                         /\ beside(t).pc = src[t].pc
  <2> SUFFICES ASSUME NEW t \in Sources
               PROVE  SourceOk(beside(t), chunks') /\ beside(t).held = src[t].held /\ beside(t).seen = src[t].seen
                      /\ beside(t).pc = src[t].pc
    OBVIOUS
  <2> DEFINE b == beside(t)  o == src[t]
  <2>1. SourceOk(o, chunks) /\ b = [o EXCEPT !.sole = @ /\ ~ok] /\ (~ok => chunks' = chunks)
    BY <1>1, SourceIs
  <2> HIDE DEF b, o
  <2>2. SourceOk(b, chunks') /\ b.held = o.held /\ b.seen = o.seen /\ b.pc = o.pc
    BY <2>1, BesideOk
  <2> QED BY <2>2 DEF b, o
<1> HIDE DEF beside
<1>7. \A t \in Sources : /\ src'[t] = Off \/ (src'[t].held = src[t].held /\ src'[t].pc = src[t].pc /\ src'[t].seen = src[t].seen)
                         /\ SourceOk(src'[t], chunks')
  BY <1>1, <1>4, <1>5, <1>6, OffOk
<1>8. \A t \in Sources : Earned(src'[t], best)
  BY <1>7, OffEarned, SourceIs DEF Earned
<1>9. IInv'
  <2>1. DOMAIN src' = Sources /\ served' \in [Sources -> Chains] /\ behind' \in BOOLEAN /\ cur' \in Sources
    BY <1>1 DEF IInv, WorldOk, env
  <2> QED BY <1>1, <1>2, <1>3, <1>7, <1>8, <2>1, StandsOk
<1> QED BY <1>7, <1>9, StillForward

\* The sources and the disk stay as they are.
LEMMA AroundStep ==
    ASSUME IInv, UNCHANGED <<disk, pin, src, best>>, served' \in [Sources -> Chains], behind' \in BOOLEAN, cur' \in Sources
    PROVE  IInv' /\ Forward
<1>1. /\ chunks' = chunks /\ floor' = floor /\ attempts' = attempts /\ legacy' = legacy /\ pin' = pin /\ src' = src /\ best' = best
      /\ StoreOk(chunks') /\ PinIs(pin') /\ DOMAIN src' = Sources
  BY DEF disk, IInv, DiskOk, WorldOk
<1>2. \A t \in Sources : SourceOk(src'[t], chunks') /\ Earned(src'[t], best)
  BY <1>1, SourceIs
<1>3. IInv'
  BY <1>1, <1>2, StandsOk
<1>4. \A t \in Sources : src'[t].held = src[t].held /\ src'[t].pc = src[t].pc
  BY <1>1
<1> QED BY <1>3, <1>4, StillForward

LEMMA MoveStep == ASSUME IInv, NEW s \in Sources, Move(s) PROVE IInv' /\ Forward
<1>1. PICK c \in Chains : served' = [served EXCEPT ![s] = c]
  BY DEF Move
<1>2. UNCHANGED <<disk, pin, src, best>> /\ behind' = behind /\ cur' = cur
  BY DEF Move
<1>3. served' \in [Sources -> Chains] /\ behind' \in BOOLEAN /\ cur' \in Sources
  BY <1>1, <1>2 DEF IInv, WorldOk
<1> QED BY <1>2, <1>3, AroundStep

LEMMA SetClockStep == ASSUME IInv, SetClock PROVE IInv' /\ Forward
<1>1. UNCHANGED <<disk, pin, src, best>> /\ served' = served /\ behind' = ~behind /\ cur' = cur
  BY DEF SetClock
<1>2. served' \in [Sources -> Chains] /\ behind' \in BOOLEAN /\ cur' \in Sources
  BY <1>1 DEF IInv, WorldOk
<1> QED BY <1>1, <1>2, AroundStep

LEMMA RotStep == ASSUME IInv, NEW k \in Chunks, Rot(k) PROVE IInv' /\ Forward
<1> DEFINE x == [h |-> TopOf(k), b |-> Junk]
           un(t) == [src[t] EXCEPT !.sole = FALSE]
<1>1. /\ chunks' = [chunks EXCEPT ![k] = x] /\ src' = [t \in Sources |-> un(t)]
      /\ UNCHANGED <<env, head, floor, legacy, attempts, pin, best>>
  BY DEF Rot
<1>2. x \in Records /\ x \in Chunk(k)
  <2>1. k \in Nat
    BY ChunksFit
  <2>2. TopOf(k) \in Nat /\ FirstOf(k) <= TopOf(k)
    BY <2>1, ChunkEnds
  <2>3. x \in Records /\ x.h = TopOf(k) /\ x.b = Junk
    BY <2>2 DEF Records
  <2> QED BY <2>2, <2>3 DEF Chunk, Stored
<1> HIDE DEF x
<1>3. StoreOk(chunks') /\ PinIs(pin')
  <2>1. StoreOk(chunks) /\ PinIs(pin)
    BY DEF IInv, DiskOk
  <2> QED BY <1>1, <1>2, <2>1 DEF StoreOk
<1>4. \A t \in Sources : SourceOk(un(t), chunks') /\ un(t).held = src[t].held /\ un(t).pc = src[t].pc /\ Earned(un(t), best)
  <2> SUFFICES ASSUME NEW t \in Sources
               PROVE  SourceOk(un(t), chunks') /\ un(t).held = src[t].held /\ un(t).pc = src[t].pc /\ Earned(un(t), best)
    OBVIOUS
  <2> DEFINE u == un(t)  o == src[t]
  <2>1. SourceOk(o, chunks) /\ Earned(o, best) /\ u = [o EXCEPT !.sole = FALSE]
    BY SourceIs
  <2> HIDE DEF u, o
  <2>2. SourceOk(u, chunks') /\ u.held = o.held /\ u.pc = o.pc /\ Earned(u, best)
    BY <2>1, UnsoleOk
  <2> QED BY <2>2 DEF u, o
<1> HIDE DEF un
<1>5. IInv'
  <2>1. DOMAIN src' = Sources /\ served' \in [Sources -> Chains] /\ behind' \in BOOLEAN /\ cur' \in Sources
    BY <1>1 DEF IInv, WorldOk, env
  <2>2. \A t \in Sources : SourceOk(src'[t], chunks') /\ Earned(src'[t], best)
    BY <1>1, <1>4
  <2> QED BY <1>1, <1>3, <2>1, <2>2, StandsOk
<1>6. \A t \in Sources : src'[t].held = src[t].held /\ src'[t].pc = src[t].pc
  BY <1>1, <1>4
<1> QED BY <1>5, <1>6, StillForward

\* Some sources end, the others go on.
LEMMA EndStep ==
    ASSUME IInv, DOMAIN src' = Sources, \A t \in Sources : src'[t] = src[t] \/ src'[t] = Off,
           UNCHANGED <<disk, best>>, PinIs(pin'), served' \in [Sources -> Chains], behind' = behind, cur' \in Sources
    PROVE  IInv' /\ Forward
<1>1. chunks' = chunks /\ floor' = floor /\ attempts' = attempts /\ legacy' = legacy /\ best' = best /\ StoreOk(chunks') /\ behind' \in BOOLEAN
  BY DEF disk, IInv, DiskOk, WorldOk
<1>2. \A t \in Sources : SourceOk(src'[t], chunks') /\ Earned(src'[t], best)
  BY <1>1, SourceIs, OffOk, OffEarned
<1>3. IInv'
  BY <1>1, <1>2, StandsOk
<1> QED BY <1>3, StillForward

LEMMA ChangeEndpointStep == ASSUME IInv, NEW c \in Chains, ChangeEndpoint(c) PROVE IInv' /\ Forward
<1>1. /\ cur + 1 \in Sources /\ cur' = cur + 1 /\ served' = [served EXCEPT ![cur'] = c]
      /\ src' = [src EXCEPT ![cur] = Retired(src[cur])] /\ behind' = behind /\ pin' = pin /\ UNCHANGED <<disk, best>>
  BY DEF ChangeEndpoint
<1>2. Retired(src[cur]) = src[cur] \/ Retired(src[cur]) = Off
  BY DEF Retired
<1>3. DOMAIN src = Sources /\ served \in [Sources -> Chains] /\ PinIs(pin)
  BY DEF IInv, WorldOk
<1>4. DOMAIN src' = Sources /\ (\A t \in Sources : src'[t] = src[t] \/ src'[t] = Off) /\ served' \in [Sources -> Chains]
  BY <1>1, <1>2, <1>3
<1> QED BY <1>1, <1>3, <1>4, EndStep

LEMMA DieStep == ASSUME IInv, NEW closed \in BOOLEAN, Die(closed) PROVE IInv' /\ Forward
<1>1. /\ src' = [s \in Sources |-> Off] /\ (pin' = None \/ pin' = pin) /\ UNCHANGED <<disk, best>>
      /\ served' = served /\ behind' = behind /\ cur' = cur
  BY DEF Die
<1>2. PinIs(pin') /\ served' \in [Sources -> Chains] /\ cur' \in Sources
  BY <1>1 DEF IInv, WorldOk, PinIs
<1>3. DOMAIN src' = Sources /\ \A t \in Sources : src'[t] = src[t] \/ src'[t] = Off
  BY <1>1
<1> QED BY <1>1, <1>2, <1>3, EndStep

-----------------------------------------------------------------------------
(* The theorems *)

LEMMA InitOk == Init => IInv
<1> SUFFICES ASSUME Init PROVE IInv
  OBVIOUS
<1>1. /\ served = [s \in Sources |-> First] /\ behind = FALSE /\ chunks = [k \in Chunks |-> None] /\ floor = 0
      /\ legacy \in Old /\ attempts = 0 /\ pin = None /\ cur = 1 /\ src = [s \in Sources |-> Off] /\ best = Newest
  BY DEF Init
<1>2. First \in Chains /\ 1 \in Sources /\ MIGRATE_MAX \in Nat /\ Newest \in Nat /\ FLOOR_SLACK \in Nat
  BY SyncAssumption, Constants
<1>3. DiskOk
  BY <1>1, <1>2 DEF DiskOk, StoreOk
<1>4. \A s \in Sources : src[s] = Off /\ SourceOk(src[s], chunks) /\ Earned(src[s], best)
  <2>1. Off.held.h = Newest /\ Off.seen = 0
    BY OffOk, AnchorIs
  <2>2. Earned(Off, best)
    BY <1>1, <1>2, <2>1 DEF Earned
  <2> QED BY <1>1, <2>2, OffOk
<1>5. WorldOk
  <2>1. served \in [Sources -> Chains] /\ behind \in BOOLEAN /\ cur \in Sources /\ DOMAIN src = Sources
    BY <1>1, <1>2
  <2>2. best \in Nat /\ Newest <= best /\ floor <= best + FLOOR_SLACK
    BY <1>1, <1>2
  <2> QED BY <1>4, <2>1, <2>2 DEF WorldOk
<1> QED BY <1>1, <1>3, <1>4, <1>5 DEF IInv, PinIs

\* How the old snapshot may go.
Migrated ==
    legacy # None /\ legacy' = None =>
       \/ attempts + 1 >= MIGRATE_MAX
       \/ \E s \in Sources : src[s].pc = "drop"
             /\ (src[s].sole => \A k \in 1..chunkOf(src[s].held.h) : Holds(k, src[s].held))
\* What a restore ends with.
Parity == \A s \in Sources : src[s].pc = "read" /\ src'[s].pc \in {"idle", "commit"} => src'[s].held = FullRestore(src[s])

\* What the held chain gives way to.
Grows == \A s \in Sources : src[s].pc \in Serving /\ src'[s].pc \in Serving => Work(src'[s].held) >= Work(src[s].held)
GoodStep == IInv' /\ Migrated /\ Parity /\ Grows

LEMMA NextOk == ASSUME IInv, [Next]_vars PROVE GoodStep
<1>1. ASSUME IInv' /\ Forward, legacy' = legacy PROVE GoodStep
  BY <1>1 DEF GoodStep, Forward, Onward, Migrated, Parity, Grows
<1>2. ASSUME NEW s \in Sources, SourceStep(s) PROVE GoodStep
  <2>1. ASSUME NEW ok \in BOOLEAN, Start(s, ok) PROVE GoodStep
    BY <1>1, <2>1, StartStep DEF Start, disk
  <2>2. ASSUME NEW ok \in BOOLEAN, MigrateAnchor(s, ok) PROVE GoodStep
    BY <1>1, <2>2, MigrateAnchorStep DEF MigrateAnchor
  <2>3. ASSUME NEW got \in BOOLEAN, NEW stored \in BOOLEAN, AcquireAnchor(s, got, stored) PROVE GoodStep
    BY <1>1, <2>3, AcquireAnchorStep DEF AcquireAnchor
  <2>4. ASSUME NEW ok \in BOOLEAN, ReadChunk(s, ok) PROVE GoodStep
    BY <1>1, <2>4, ReadChunkStep DEF ReadChunk, disk
  <2>5. CASE Restore(s)
    <3>1. /\ IInv' /\ \A t \in Sources : t # s => Onward(src[t], src'[t])
          /\ src[s].pc = "read" /\ src'[s].pc \in {"idle", "commit"} => src'[s].held = FullRestore(src[s])
      BY <2>5, RestoreStep
    <3>2. src[s].pc = "read" /\ legacy' = legacy
      BY <2>5 DEF Restore, disk
    <3> QED BY <3>1, <3>2 DEF GoodStep, Grows, Onward, Migrated, Parity, Serving
  <2>6. CASE CommitLegacy(s)
    BY <1>1, <2>6, CommitLegacyStep DEF CommitLegacy
  <2>7. CASE MigrationFails(s)
    BY <2>7, MigrationFailsStep DEF GoodStep, Grows, Forward, Onward, Migrated, Parity
  <2>8. ASSUME NEW ok \in BOOLEAN, DropLegacy(s, ok) PROVE GoodStep
    BY <2>8, DropLegacyStep DEF GoodStep, Grows, Forward, Onward, Migrated, Parity
  <2>9. ASSUME NEW reach \in Reaches, NEW t \in Tips(s), ReadTip(s, reach, t) PROVE GoodStep
    BY <1>1, <2>9, ReadTipStep DEF ReadTip, disk
  <2>10. CASE SyncPage(s)
    BY <1>1, <2>10, SyncPageStep DEF SyncPage, disk
  <2>11. CASE ReseedPage(s)
    BY <1>1, <2>11, ReseedPageStep DEF ReseedPage, disk
  <2>12. CASE Reseed(s)
    BY <1>1, <2>12, ReseedStep DEF Reseed, disk
  <2>13. CASE Finish(s)
    BY <1>1, <2>13, FinishStep DEF Finish
  <2>14. ASSUME NEW ok \in BOOLEAN, StoreWrite(s, ok) PROVE GoodStep
    BY <1>1, <2>14, StoreWriteStep DEF StoreWrite
  <2> QED BY <1>2, <2>1, <2>2, <2>3, <2>4, <2>5, <2>6, <2>7, <2>8, <2>9, <2>10, <2>11, <2>12, <2>13, <2>14 DEF SourceStep
<1>3. ASSUME NEW s \in Sources, Move(s) PROVE GoodStep
  BY <1>1, <1>3, MoveStep DEF Move, disk
<1>4. CASE SetClock
  BY <1>1, <1>4, SetClockStep DEF SetClock, disk
<1>5. ASSUME NEW k \in Chunks, Rot(k) PROVE GoodStep
  BY <1>1, <1>5, RotStep DEF Rot
<1>6. ASSUME NEW c \in Chains, ChangeEndpoint(c) PROVE GoodStep
  BY <1>1, <1>6, ChangeEndpointStep DEF ChangeEndpoint, disk
<1>7. ASSUME NEW closed \in BOOLEAN, Die(closed) PROVE GoodStep
  BY <1>1, <1>7, DieStep DEF Die, disk
<1>8. CASE UNCHANGED vars
  <2>1. UNCHANGED <<disk, pin, src, best>> /\ served' = served /\ behind' = behind /\ cur' = cur /\ legacy' = legacy
    BY <1>8 DEF vars, disk
  <2>2. served' \in [Sources -> Chains] /\ behind' \in BOOLEAN /\ cur' \in Sources
    BY <2>1 DEF IInv, WorldOk
  <2> QED BY <1>1, <2>1, <2>2, AroundStep
<1>9. CASE Next
  BY <1>2, <1>3, <1>4, <1>5, <1>6, <1>7, <1>9, Zenon DEF Next
<1> QED BY <1>8, <1>9

\* The inductive invariant: the shape of every source and of the store, what a source
\* counts as stored, from where it counts work, and that the pin counts from there too.
THEOREM Inductive == Spec => []IInv
<1>1. IInv /\ [Next]_vars => IInv'
  BY NextOk DEF GoodStep
<1> QED BY InitOk, <1>1, PTL DEF Spec

\* The state of every source in every history of restores, pages, failed writes and stops:
\* types, the work compared is the work of the held chain, and what a source that has the
\* store to itself counts as stored is stored (heldWork, persistedTip, mergeStoreWrites).
THEOREM SourcesHold == Spec => []SourceInv
<1>1. IInv => SourceInv
  <2> SUFFICES ASSUME IInv PROVE SourceInv
    OBVIOUS
  <2>1. TypeOK
    <3>1. served \in [Sources -> Chains] /\ behind \in BOOLEAN /\ floor \in Nat /\ attempts \in 0..MIGRATE_MAX /\ legacy \in Old /\ cur \in Sources
      BY DEF IInv, DiskOk, WorldOk
    <3>2. ASSUME NEW k \in Chunks, chunks[k] # None PROVE chunks[k].h \in k * SPV_CHUNK..TopOf(k)
      <4>1. k \in Nat /\ chunks[k] \in Chunk(k)
        BY <3>2, ChunksFit DEF IInv, DiskOk, StoreOk
      <4>2. chunks[k].h \in Nat /\ FirstOf(k) <= chunks[k].h /\ chunks[k].h <= TopOf(k)
        BY <4>1 DEF Chunk, Stored, Records
      <4>3. FirstOf(k) \in Nat /\ TopOf(k) \in Nat /\ FirstOf(k) = k * SPV_CHUNK
        BY <4>1, ChunkEnds DEF FirstOf
      <4> QED BY <4>2, <4>3
    <3>3. ASSUME NEW s \in Sources
          PROVE  /\ src[s].pc \in {"off", "anchor", "read", "commit", "drop", "idle", "sync", "reseed", "last", "done"}
                 /\ src[s].held.b \in Branches \cup {Shared} /\ src[s].held.h >= Newest
                 /\ src[s].persisted \in Newest..src[s].held.h
                 /\ src[s].pend # None => src[s].job # None
      <4>1. SourceType(src[s]) /\ src[s].held \in Headers /\ src[s].held.h \in Nat /\ Newest \in Nat /\ Newest <= src[s].held.h
        BY SourceIs, HeldIs
      <4>2. src[s].held.b \in Branches \cup {Shared}
        BY <4>1, HeaderIs
      <4> QED BY <4>1, <4>2 DEF SourceType, Opening, Migrating, Serving
    <3> QED BY <3>1, <3>2, <3>3 DEF TypeOK
  <2>2. HeldWorkIsTrue
    <3> SUFFICES ASSUME NEW s \in Sources, Built(s) PROVE heldWork(src[s]) = LcWork(src[s].held, AnchorBase)
      BY DEF HeldWorkIsTrue
    <3> DEFINE r == src[s]
    <3>1. /\ r.held \in Headers /\ r.held.h >= Newest /\ r.held.h \in Nat /\ r.base \in AnchorBase..r.held.h
          /\ r.workBase = Work(At(r.held, r.base - 1)) - AnchorBase
      <4>1. Body(r, chunks) /\ Held(r.held)
        BY SourceIs DEF Built, Opening
      <4> QED BY <4>1, HeldIs DEF Body, WorkOk
    <3>2. LcWork(r.held, AnchorBase) = Work(r.held) - AnchorBase /\ heldWork(r) = Work(r.held) - AnchorBase
      <4> HIDE DEF r
      <4> QED BY <3>1, HeldWorkOk
    <3> QED BY <3>2
  <2>3. StoreIsHeld
    <3> SUFFICES ASSUME NEW s \in Sources, Built(s), src[s].store, src[s].sole, src[s].job = None, src[s].pend = None,
                        NEW k \in 1..chunkOf(src[s].persisted)
                 PROVE  Holds(k, At(src[s].held, src[s].persisted))
      BY DEF StoreIsHeld
    <3> DEFINE r == src[s]
    <3>1. HoldsUpTo(chunks, At(r.held, r.persisted))
      <4>1. Solid(r, chunks) /\ r.pc \notin Opening
        BY SourceIs DEF Built, Opening, Body
      <4> QED BY <4>1 DEF Solid, Landed, After
    <3>2. At(r.held, r.persisted).h = r.persisted
      BY AtIs
    <3> QED BY <3>1, <3>2 DEF HoldsUpTo, HoldsIn, Holds
  <2> QED BY <2>1, <2>2, <2>3 DEF SourceInv
<1> QED BY Inductive, <1>1, PTL

\* What the wallet trusts of the tip across sessions stays within the cushion of what it
\* has verified, whatever nodes report (floorAdvance).
THEOREM FloorEarned == Spec => []FloorIsEarned
<1>1. IInv => FloorIsEarned
  BY DEF IInv, WorldOk, FloorIsEarned
<1> QED BY Inductive, <1>1, PTL

\* The held chain never gives way to less work, the shortcut by the pin restores what a
\* restore with every check would, and the old snapshot goes only when the store holds its
\* chain or after MIGRATE_MAX failures (reseedAdopts, walkToPin, latestTimeHolds, commitLegacy).
THEOREM NothingLost == Spec => NothingProvenIsLost
<1>1. IInv /\ [Next]_vars =>
        [\A s \in Sources : Built(s) /\ Built(s)' => Work(src'[s].held) >= Work(src[s].held)]_vars
  BY NextOk DEF GoodStep, Grows, Built, Serving
<1>2. IInv /\ [Next]_vars =>
        [\A s \in Sources : src[s].pc = "read" /\ src'[s].pc \in {"idle", "commit"} => src'[s].held = FullRestore(src[s])]_vars
  BY NextOk DEF GoodStep, Parity
<1>3. IInv /\ [Next]_vars =>
        [legacy # None /\ legacy' = None =>
            \/ attempts + 1 >= MIGRATE_MAX
            \/ \E s \in Sources : src[s].pc = "drop"
                  /\ (src[s].sole => \A k \in 1..chunkOf(src[s].held.h) : Holds(k, src[s].held))]_vars
  BY NextOk DEF GoodStep, Migrated
<1> QED BY Inductive, <1>1, <1>2, <1>3, PTL DEF Spec, NothingProvenIsLost, WorkNeverFalls, RestoreParity, LegacyIsMigrated
=============================================================================
