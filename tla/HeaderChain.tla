------------------------------ MODULE HeaderChain ------------------------------
(***************************************************************************)
(* Block headers as the wallet's light client sees them, and the chunks    *)
(* they are stored in (src/core/headerstore.ts, spvanchors.ts, the         *)
(* vendored LightClient).  The chain forks once.  A header names, by its   *)
(* hash, everything below it, so a chain is given by its last header.      *)
(***************************************************************************)
EXTENDS Integers, Sequences, FiniteSets, FiniteSetsExt, SequencesExt

CONSTANTS
    SPV_CHUNK,   \* headers of one stored chunk
    Fork,        \* the last height the branches share
    Branches,    \* what miners built above it
    Shared, Junk,\* the branch of the headers at and below Fork; bytes that are no headers
    Effort,      \* the work of one header of a branch; of a shared one it is 1
    Late,        \* heights whose header a clock that is behind finds too far in the future
    None

Newest == SPV_CHUNK - 1   \* the newest anchor: the last header of chunk 0, whose hash is in the release
Records == [h : Nat, b : Branches \cup {Shared, Junk}]   \* what a chunk may end with

ASSUME ChainAssumption ==
    /\ SPV_CHUNK \in Nat \ {0} /\ Fork \in Nat /\ Fork >= Newest
    /\ Effort \in [Branches -> Nat \ {0}] /\ {Shared, Junk} \cap Branches = {} /\ Shared # Junk
    /\ None \notin Records
    /\ Late \subseteq Nat /\ \A h \in Late : h > Newest

Hdr(b, h) == [h |-> h, b |-> IF h <= Fork THEN Shared ELSE b]
At(x, h) == Hdr(x.b, h)                            \* the header at height h of the chain that ends in x
Headers == {x \in Records : x.b # Junk /\ (x.b = Shared <=> x.h <= Fork)}
Anchor == Hdr(Shared, Newest)
Extends(y, x) == y.b # Junk /\ y.h >= x.h /\ At(y, x.h) = x
\* chainwork of the headers 0 to x.h
Work(x) == Min({x.h, Fork}) + 1 + (IF x.h > Fork THEN (x.h - Fork) * Effort[x.b] ELSE 0)

chunkOf(h) == h \div SPV_CHUNK
TopOf(k) == k * SPV_CHUNK + SPV_CHUNK - 1

\* ingest: the light client takes headers while they link to what it holds and,
\* when the clock is behind, up to the first that is too late.
Timely(x, from, behind) ==
    LET late == {h \in Late : from < h /\ h <= x.h} IN
    IF behind /\ late # {} THEN At(x, Min(late) - 1) ELSE x
Under(x, segs, i) == IF i = 1 THEN x ELSE segs[i - 1]
Linked(x, segs) == {i \in DOMAIN segs : \A j \in 1..i : Extends(segs[j], Under(x, segs, j))}
Reached(x, segs) == IF Linked(x, segs) = {} THEN x ELSE segs[Max(Linked(x, segs))]
Ingest(x, segs, behind) == Timely(Reached(x, segs), x.h, behind)

\* A write of the store: chunk contents, the chunks above one deleted, the head.
SuffixWrite(x, above) ==
    LET lo == Max({chunkOf(above + 1) * SPV_CHUNK, Newest + 1}) IN
    [put   |-> [k \in chunkOf(lo)..chunkOf(x.h) |-> At(x, Min({TopOf(k), x.h}))],
     above |-> chunkOf(x.h), head |-> x]
mergeStoreWrites(older, newer) ==
    LET kept == {k \in DOMAIN older.put : k <= newer.above} IN
    [newer EXCEPT !.put = [k \in kept \cup DOMAIN newer.put |->
                              IF k \in DOMAIN newer.put THEN newer.put[k] ELSE older.put[k]]]
Apply(stored, w) ==
    [k \in DOMAIN stored |-> IF k \in DOMAIN w.put THEN w.put[k]
                             ELSE IF k > w.above THEN None ELSE stored[k]]
=============================================================================
