------------------------------ MODULE HeaderSync ------------------------------
(***************************************************************************)
(* The verified headers of the wallet (src/core/namespv.ts, restoreSpv-    *)
(* Source and prepare, with headerstore.ts and spvpin.ts): one light       *)
(* client per source, built from the header store, from a session pin or   *)
(* from the snapshot of an older release, synced page by page from a       *)
(* served chain, and written back by writes nobody waits for.              *)
(*                                                                         *)
(* The served chain changes between the pages, pages fail or are forged,   *)
(* writes fail, stored bytes rot, the clock is behind, Chrome stops the    *)
(* worker between any two steps, and after a change of endpoint the old    *)
(* source ends its calls beside the new one, over the same store and pin.  *)
(***************************************************************************)
EXTENDS HeaderChain

CONSTANTS
    Sources,     \* 1, and after changes of endpoint 2, ...
    Chains,      \* the chains a node serves, each by its last header
    First,       \* the one it serves at first
    Old,         \* the snapshots an older release may have left, or None
    Reaches,     \* what callers need: a record's height and CONF_BUFFER
    PAGE, SYNC_PERSIST_WINDOW,
    SEED,        \* headers that seed a light client
    FLOOR_SLACK, MIGRATE_MAX,
    Lies,        \* how far a reported tip is off
    MaxMishaps   \* bound: changes of a served chain or of the endpoint, failed or forged answers,
                 \* failed writes, rotten chunks, the clock set back, stops of the worker

ASSUME SyncAssumption ==
    /\ 1 \in Sources /\ Sources \subseteq Nat /\ First \in Chains
    /\ IsFiniteSet(Chains) /\ \A c \in Chains : c \in Headers /\ c.h > Fork
    /\ IsFiniteSet(Old) /\ None \in Old /\ \A x \in Old \ {None} : x \in Headers /\ x.h >= Newest
    /\ Reaches \subseteq Nat
    /\ {PAGE, SYNC_PERSIST_WINDOW, SEED, FLOOR_SLACK, MIGRATE_MAX, MaxMishaps} \subseteq Nat
    /\ PAGE > 0 /\ SYNC_PERSIST_WINDOW > 0 /\ SEED \in 1..SPV_CHUNK /\ Lies \subseteq Int

Chunks == 0..chunkOf(Max({c.h : c \in Chains} \cup {x.h : x \in Old \ {None}}))
ASSUME WriteAssumption == \A D \in SUBSET Chunks : None \notin [put : [D -> Records], above : Nat, head : Headers]

VARIABLES
    served,           \* what the node of each source serves
    behind,           \* the computer's clock is behind
    chunks, head,     \* the header store
    floor,            \* spvNodeTipFloor
    legacy, attempts, \* the old snapshot, and failed migrations
    pin,              \* the session pin
    cur,              \* the source new callers get
    src,              \* the sources of the worker
    best,             \* history: the highest header any source verified
    mishaps

disk == <<chunks, head, floor, legacy, attempts>>
env == <<served, behind, cur>>
vars == <<served, behind, disk, pin, cur, src, best>>

Off == [pc |-> "off", store |-> FALSE, keys |-> {}, lg |-> None, migErr |-> FALSE, rd |-> <<>>, rp |-> None,
        held |-> Anchor, base |-> 0, workBase |-> 0, persisted |-> Newest,
        want |-> 0, tip |-> 0, leg |-> 0, fresh |-> Anchor, seen |-> 0,
        job |-> None, pend |-> None, sole |-> FALSE]
Built(s) == src[s].pc \in {"idle", "sync", "reseed", "last", "done"}

Init ==
    /\ served = [s \in Sources |-> First]
    /\ behind = FALSE
    /\ chunks = [k \in Chunks |-> None] /\ head = None /\ floor = 0
    /\ legacy \in Old /\ attempts = 0
    /\ pin = None /\ cur = 1 /\ src = [s \in Sources |-> Off]
    /\ best = Newest
    /\ mishaps = 0

Mishap == mishaps < MaxMishaps /\ mishaps' = mishaps + 1
NoMishap == UNCHANGED mishaps
Outcome(ok) == IF ok THEN NoMishap ELSE Mishap
\* An old source ends with its call and its writes.
Retired(r) == IF r.pc = "idle" /\ r.job = None THEN Off ELSE r
Kept(s, r) == IF s = cur THEN r ELSE Retired(r)
Becomes(s, r) ==
    \E q \in {Kept(s, r)} :
       /\ src' = [src EXCEPT ![s] = q]
       /\ best' = Max({best, q.held.h})

\* ---- work, pin, store writes
LcWork(x, base) == Work(x) - Work(At(x, base - 1))
heldWork(r) == LcWork(r.held, r.base) + r.workBase
AnchorBase == Newest - SEED + 1
PinFor(r, h) ==
    LET x == At(r.held, h) IN
    IF h < r.base \/ h - Newest < SEED \/ (r.rp # None /\ r.rp.tip = x) THEN pin
    ELSE [tip |-> x, work |-> LcWork(x, r.base) + r.workBase]

Dirty(r) == r.store /\ r.held.h > r.persisted
detachStoreWrite(r, w) ==
    IF r.job = None THEN [r EXCEPT !.job = w]
    ELSE [r EXCEPT !.pend = IF r.pend = None THEN w ELSE mergeStoreWrites(r.pend, w)]
Persist(r) == IF Dirty(r) THEN [detachStoreWrite(r, SuffixWrite(r.held, r.persisted)) EXCEPT !.persisted = r.held.h]
              ELSE r
PinAfter(r) == IF Dirty(r) THEN PinFor(r, r.held.h) ELSE pin

\* ---- the build of a source: liveSpvSource, restoreSpvSource
Start(s, opens) ==
    /\ s = cur /\ src[s].pc = "off" /\ Outcome(opens)
    /\ Becomes(s, [Off EXCEPT !.pc = "anchor", !.store = opens, !.lg = legacy, !.sole = TRUE,
                              !.keys = IF opens THEN {k \in Chunks : chunks[k] # None} ELSE {}])
    /\ UNCHANGED <<env, disk, pin>>

Migrates(s) == src[s].lg # None /\ ~(src[s].store /\ head # None)
MigrateAnchor(s, ok) ==
    /\ src[s].pc = "anchor" /\ Migrates(s)
    /\ LET puts == src[s].store /\ 0 \notin src[s].keys IN
       /\ ok \/ puts
       /\ Outcome(ok)
       /\ chunks' = IF puts /\ ok THEN [chunks EXCEPT ![0] = Anchor] ELSE chunks
    /\ Becomes(s, [src[s] EXCEPT !.pc = "read", !.migErr = ~ok])
    /\ UNCHANGED <<env, head, floor, legacy, attempts, pin>>
\* acquire: the stored chunk when it verifies, else the served one, which a detached write
\* stores; only another build reads it, so the write is taken here, and lands or not.
AcquireAnchor(s, got, stored) ==
    /\ src[s].pc = "anchor" /\ ~Migrates(s)
    /\ LET had == IF src[s].store THEN chunks[0] ELSE None IN
       /\ had = Anchor => got /\ stored
       /\ stored => got
       /\ Outcome(got /\ (stored \/ ~src[s].store))
       /\ chunks' = IF ~src[s].store THEN chunks ELSE [chunks EXCEPT ![0] = IF stored THEN Anchor ELSE None]
       /\ Becomes(s, IF got THEN [src[s] EXCEPT !.pc = "read"] ELSE Off)
    /\ UNCHANGED <<env, head, floor, legacy, attempts, pin>>

NextChunk(r) == 1 + Len(r.rd)
storedTip(r) == IF r.rd = <<>> THEN Newest ELSE Last(r.rd).h
More(r) == NextChunk(r) \in r.keys /\ storedTip(r) = TopOf(Len(r.rd))
ReadChunk(s, ok) ==
    /\ src[s].pc = "read" /\ More(src[s]) /\ Outcome(ok)
    /\ LET r == chunks[NextChunk(src[s])] IN
       Becomes(s, IF ok /\ r # None THEN [src[s] EXCEPT !.rd = Append(@, r)] ELSE [src[s] EXCEPT !.keys = {}])
    /\ UNCHANGED <<env, disk, pin>>

Suffix(r) == r.rd \o (IF r.lg # None /\ r.lg.h > storedTip(r) THEN <<r.lg>> ELSE <<>>)
FullRestore(r) == Ingest(Anchor, Suffix(r), behind)
\* Mutant of latestTimeHolds: the walked headers are not held against today's clock.
NoTimeCheck(p) == TRUE
latestTimeHolds(p) == Timely(p, Newest, behind) = p
\* walkToPin: the stored records hash-link to the pin.
Walks(r, p) == LET x == Ingest(Anchor, r.rd, FALSE) IN x.h >= p.h /\ At(x, p.h) = p
Pinned(r) == /\ pin # None /\ ~(r.lg # None /\ r.lg.h > storedTip(r))
             /\ pin.tip.h - Newest >= SEED /\ pin.tip.h <= storedTip(r)
             /\ Walks(r, pin.tip) /\ latestTimeHolds(pin.tip)
AbovePin(r, p) == SubSeq(r.rd, chunkOf(p.h + 1), Len(r.rd))
Restored(r) ==
    IF Pinned(r)
    THEN LET base == pin.tip.h - SEED + 1 IN
         [r EXCEPT !.held = Ingest(pin.tip, AbovePin(r, pin.tip), behind), !.base = base,
                   !.workBase = pin.work - LcWork(pin.tip, base), !.rp = pin]
    ELSE [r EXCEPT !.held = FullRestore(r), !.base = AnchorBase, !.workBase = 0,
                   !.rp = IF r.lg # None /\ r.lg.h > storedTip(r) THEN None ELSE pin]
PersistedAt(r) == Min({storedTip(r), r.held.h})
Restore(s) ==
    /\ src[s].pc = "read" /\ ~More(src[s])
    /\ LET r0 == Restored(src[s])
           r == [r0 EXCEPT !.persisted = PersistedAt(r0), !.rd = <<>>, !.keys = {}] IN
       IF r.lg # None
       THEN Becomes(s, [r EXCEPT !.pc = "commit"]) /\ UNCHANGED pin
       ELSE Becomes(s, [r EXCEPT !.pc = "idle", !.seen = floor]) /\ pin' = PinFor(r, r.persisted)
    /\ NoMishap /\ UNCHANGED <<env, disk>>

\* The old snapshot: one awaited write of its headers, then its removal.
Opened(r) == [r EXCEPT !.pc = "idle", !.lg = None, !.seen = floor, !.migErr = FALSE]
CommitLegacy(s) ==
    /\ src[s].pc = "commit" /\ src[s].store /\ ~src[s].migErr
    /\ LET r == src[s] IN
       /\ IF Dirty(r) THEN chunks' = Apply(chunks, SuffixWrite(r.held, r.persisted)) ELSE UNCHANGED chunks
       /\ head' = r.held
       /\ pin' = PinAfter(r)
       /\ src' = [t \in Sources |-> IF t = s THEN [r EXCEPT !.pc = "drop", !.persisted = Max({@, r.held.h})]
                                   ELSE [src[t] EXCEPT !.sole = FALSE]]
    /\ NoMishap /\ UNCHANGED <<env, floor, legacy, attempts, best>>
MigrationFails(s) ==
    /\ src[s].pc = "commit"
    /\ LET r == src[s] IN
       /\ IF r.store /\ ~r.migErr THEN Mishap /\ pin' = PinAfter(r) ELSE NoMishap /\ UNCHANGED pin
       /\ Becomes(s, Opened(r))
    /\ IF attempts + 1 >= MIGRATE_MAX THEN legacy' = None /\ attempts' = 0
       ELSE attempts' = attempts + 1 /\ UNCHANGED legacy
    /\ UNCHANGED <<env, chunks, head, floor>>
DropLegacy(s, ok) ==
    /\ src[s].pc = "drop" /\ Outcome(ok)
    /\ legacy' = IF ok THEN None ELSE legacy
    /\ attempts' = 0
    /\ Becomes(s, Opened(src[s]))
    /\ UNCHANGED <<env, chunks, head, floor, pin>>

\* ---- prepare
Tips(s) == {t \in {served[s].h + d : d \in Lies} : t > 0} \cup {0}   \* 0: the tip read failed
ReadTip(s, reach, t) ==
    /\ src[s].pc = "idle" /\ s = cur
    /\ Outcome(t = served[s].h)
    /\ LET r == src[s]
           want == IF t = 0 THEN r.held.h ELSE Min({t, reach})
           asked == [r EXCEPT !.want = want, !.tip = t] IN
       Becomes(s, IF want <= r.held.h THEN [asked EXCEPT !.pc = "done"]
                  ELSE [asked EXCEPT !.pc = "sync", !.leg = r.held.h + SYNC_PERSIST_WINDOW])
    /\ UNCHANGED <<env, disk, pin>>

\* What one request of syncAligned brings to a client that holds x and goes on to goal.
PageEnd(x, goal) == Min({goal, (x.h + 1) - ((x.h + 1) % PAGE) + PAGE - 1})
Answer(s, x, goal) ==
    LET e == PageEnd(x, goal)  c == served[s] IN
    IF e > c.h THEN [x |-> x, why |-> "transient"]
    ELSE IF ~Extends(c, x) THEN [x |-> x, why |-> "structural"]
    ELSE LET y == Timely(At(c, e), x.h, behind) IN [x |-> y, why |-> IF y.h < e THEN "clock" ELSE "ok"]
Answers(s, x, goal) == {Answer(s, x, goal)} \cup [x : {x}, why : {"transient", "structural"}]
Ended(r) == [r EXCEPT !.pc = "idle", !.want = 0, !.tip = 0, !.leg = 0, !.fresh = Anchor]

SyncPage(s) ==
    /\ src[s].pc = "sync"
    /\ LET r == src[s]
           goal == IF r.leg < r.want THEN r.leg ELSE r.want IN
       \E a \in Answers(s, r.held, goal) :
          /\ Outcome(a = Answer(s, r.held, goal))
          /\ LET got == [r EXCEPT !.held = a.x]
                 kept == Persist(got) IN
             IF a.why = "ok" /\ a.x.h < goal THEN Becomes(s, got) /\ UNCHANGED pin
             ELSE /\ pin' = PinAfter(got)
                  /\ Becomes(s, CASE a.why = "ok" /\ a.x.h < r.want -> [kept EXCEPT !.leg = @ + SYNC_PERSIST_WINDOW]
                                  [] a.why = "ok" /\ a.x.h >= r.want -> [kept EXCEPT !.pc = "done"]
                                  [] a.why = "structural" -> [kept EXCEPT !.pc = "reseed", !.fresh = Anchor]
                                  [] OTHER -> Ended(kept))
    /\ UNCHANGED <<env, disk>>

\* A client seeded from the anchor takes the served chain again.
\* Mutant of ComparesAtTip: the comparison is made at want (the source's MUTATE_RESEED_TO_TIP).
ComparesAtWant(r) == FALSE
ComparesAtTip(r) == r.tip > r.fresh.h
reseedAdopts(r) == LcWork(r.fresh, AnchorBase) > heldWork(r)
ReseedPage(s) ==
    /\ src[s].pc \in {"reseed", "last"}
    /\ LET r == src[s]
           goal == IF r.pc = "reseed" THEN r.want ELSE r.tip IN
       /\ r.fresh.h < goal
       /\ \E a \in Answers(s, r.fresh, goal) :
             /\ Outcome(a = Answer(s, r.fresh, goal))
             /\ Becomes(s, IF a.why = "ok" THEN [r EXCEPT !.fresh = a.x] ELSE Ended(r))
    /\ UNCHANGED <<env, disk, pin>>
\* Mutant of Adopted: the work of a pin outlives the chain it was counted on.
AdoptedOverPin(r) == [r EXCEPT !.held = r.fresh, !.base = AnchorBase, !.persisted = Newest]
Adopted(r) == [r EXCEPT !.held = r.fresh, !.base = AnchorBase, !.workBase = 0, !.persisted = Newest]
Reseed(s) ==
    /\ src[s].pc \in {"reseed", "last"}
    /\ LET r == src[s] IN
       /\ r.fresh.h >= IF r.pc = "reseed" THEN r.want ELSE r.tip
       /\ IF reseedAdopts(r)
          THEN pin' = PinAfter(Adopted(r)) /\ Becomes(s, [Persist(Adopted(r)) EXCEPT !.pc = "done", !.fresh = Anchor])
          ELSE /\ UNCHANGED pin
               /\ Becomes(s, IF r.pc = "reseed" /\ ComparesAtTip(r) THEN [r EXCEPT !.pc = "last"] ELSE Ended(r))
    /\ NoMishap /\ UNCHANGED <<env, disk>>

\* Mutant of floorAdvance: the reported tip is kept as it is.
FloorAsReported(seen, tip, verified) == Max({seen, tip})
floorAdvance(seen, tip, verified) == Max({seen, Min({tip, verified + FLOOR_SLACK})})
Finish(s) ==
    /\ src[s].pc = "done"
    /\ LET r == src[s]  f == floorAdvance(r.seen, r.tip, r.held.h) IN
       /\ floor' = IF f > r.seen THEN f ELSE floor
       /\ Becomes(s, [Ended(r) EXCEPT !.seen = f])
    /\ NoMishap /\ UNCHANGED <<env, chunks, head, legacy, attempts, pin>>

\* ---- the detached writes
StoreWrite(s, ok) ==
    /\ src[s].job # None /\ Outcome(ok)
    /\ LET w == src[s].job IN
       IF ok THEN chunks' = Apply(chunks, w) /\ head' = w.head ELSE UNCHANGED <<chunks, head>>
    /\ src' = [t \in Sources |->
                  IF t = s THEN Kept(s, [src[s] EXCEPT !.job = src[s].pend, !.pend = None, !.sole = @ /\ ok])
                  ELSE [src[t] EXCEPT !.sole = @ /\ ~ok]]
    /\ UNCHANGED <<env, floor, legacy, attempts, pin, best>>

\* ---- the surroundings
Move(s) ==
    /\ s = cur /\ Mishap
    /\ \E c \in Chains : c # served[s] /\ served' = [served EXCEPT ![s] = c]
    /\ UNCHANGED <<behind, disk, pin, cur, src, best>>
SetClock ==
    /\ Late # {} /\ (IF behind THEN NoMishap ELSE Mishap) /\ behind' = ~behind
    /\ UNCHANGED <<served, disk, pin, cur, src, best>>
Rot(k) ==
    /\ chunks[k] # None /\ Mishap
    /\ chunks' = [chunks EXCEPT ![k] = [h |-> TopOf(k), b |-> Junk]]
    /\ src' = [s \in Sources |-> [src[s] EXCEPT !.sole = FALSE]]
    /\ UNCHANGED <<env, head, floor, legacy, attempts, pin, best>>
\* endpointChanged: new callers get a new source; the old one may still be in a call.
ChangeEndpoint(c) ==
    /\ cur + 1 \in Sources /\ Built(cur) /\ Mishap
    /\ cur' = cur + 1
    /\ served' = [served EXCEPT ![cur'] = c]
    /\ src' = [src EXCEPT ![cur] = Retired(src[cur])]
    /\ UNCHANGED <<behind, disk, pin, best>>
\* Chrome stops the worker; closing the browser empties the session store too.
Die(closed) ==
    /\ Mishap
    /\ \E s \in Sources : src[s].pc # "off"
    /\ src' = [s \in Sources |-> Off]
    /\ pin' = IF closed THEN None ELSE pin
    /\ UNCHANGED <<served, behind, disk, cur, best>>

SourceStep(s) ==
    \/ \E ok \in BOOLEAN : Start(s, ok) \/ MigrateAnchor(s, ok) 
                           \/ ReadChunk(s, ok) \/ DropLegacy(s, ok) \/ StoreWrite(s, ok)
    \/ \E got, stored \in BOOLEAN : AcquireAnchor(s, got, stored)
    \/ Restore(s) \/ CommitLegacy(s) \/ MigrationFails(s)
    \/ \E reach \in Reaches, t \in Tips(s) : ReadTip(s, reach, t)
    \/ SyncPage(s) \/ ReseedPage(s) \/ Reseed(s) \/ Finish(s)
Next ==
    \/ \E s \in Sources : SourceStep(s) \/ Move(s)
    \/ SetClock
    \/ \E k \in Chunks : Rot(k)
    \/ \E c \in Chains : ChangeEndpoint(c)
    \/ \E closed \in BOOLEAN : Die(closed)

\* Callers keep coming to the current source, and what it began goes on.  Such
\* a step is always enabled, so this is its weak fairness.
Fairness == []<><<SourceStep(cur)>>_vars
Spec == Init /\ [][Next]_vars /\ Fairness

-----------------------------------------------------------------------------
TypeOK ==
    /\ served \in [Sources -> Chains] /\ behind \in BOOLEAN
    /\ \A k \in Chunks : chunks[k] # None => chunks[k].h \in k * SPV_CHUNK..TopOf(k)
    /\ floor \in Nat /\ attempts \in 0..MIGRATE_MAX /\ legacy \in Old /\ cur \in Sources
    /\ \A s \in Sources :
          /\ src[s].pc \in {"off", "anchor", "read", "commit", "drop", "idle", "sync", "reseed", "last", "done"}
          /\ src[s].held.b \in Branches \cup {Shared} /\ src[s].held.h >= Newest
          /\ src[s].persisted \in Newest..src[s].held.h
          /\ src[s].pend # None => src[s].job # None

\* The work a source compares competing chains by is the work of the chain it holds,
\* counted from the anchor, however often it was restored from a pin and reseeded
\* (heldWork, workBase).
HeldWorkIsTrue == \A s \in Sources : Built(s) => heldWork(src[s]) = LcWork(src[s].held, AnchorBase)

\* While a source lives, the chain it holds never gives way to one with less work,
\* whatever is served, in whatever order (reseedAdopts).
WorkNeverFalls == [][\A s \in Sources : Built(s) /\ Built(s)' => Work(src'[s].held) >= Work(src[s].held)]_vars

\* A restart inside a browser session ends with the chain a restore with every check
\* would end with: the shortcut by the pin hides no header today's clock refuses, and no
\* mix of chunks two sources wrote (walkToPin, latestTimeHolds).
RestoreParity ==
    [][\A s \in Sources : src[s].pc = "read" /\ src'[s].pc \in {"idle", "commit"} => src'[s].held = FullRestore(src[s])]_vars

\* Once its writes have landed, a source that had the store for itself finds there every
\* header it counts as stored: merging waiting writes loses no chunk (suffixWrite,
\* mergeStoreWrites, persistedTip).
Holds(k, x) == LET h == Min({TopOf(k), x.h}) IN chunks[k] # None /\ chunks[k].h >= h /\ At(chunks[k], h) = At(x, h)
StoreIsHeld ==
    \A s \in Sources :
       LET r == src[s] IN
       (Built(s) /\ r.store /\ r.sole /\ r.job = None /\ r.pend = None /\ r.persisted > Newest)
          => \A k \in 1..chunkOf(r.persisted) : Holds(k, At(r.held, r.persisted))

\* The old snapshot goes only when the store holds the chain it gave, or after MIGRATE_MAX
\* failed attempts.
LegacyIsMigrated ==
    [][legacy # None /\ legacy' = None =>
          \/ attempts + 1 >= MIGRATE_MAX
          \/ \E s \in Sources : src[s].pc = "drop"
                /\ (src[s].sole => \A k \in 1..chunkOf(src[s].held.h) : Holds(k, src[s].held))]_vars

\* What the wallet trusts across sessions never exceeds the proof of work it has seen by
\* more than the cushion, whatever tips were reported (floorAdvance).
FloorIsEarned == floor <= best + FLOOR_SLACK

\* When the node serves a longer chain with more work than the held one, and callers ask
\* above it, the wallet comes to hold it, also when what they ask for lies below the height
\* where the served chain overtakes (prepare, MUTATE_RESEED_TO_TIP).
Overtaken ==
    /\ Built(cur) /\ ~behind
    /\ \A reach \in Reaches : src[cur].held.h < reach
    /\ served[cur].h > src[cur].held.h /\ Work(served[cur]) > Work(src[cur].held)
Heals == Overtaken ~> ~Overtaken

\* The state invariant of the sources and their store: types, the work compared is
\* the work held, what counts as stored is stored.
SourceInv == TypeOK /\ HeldWorkIsTrue /\ StoreIsHeld

\* No restore, adoption or migration leaves the wallet with less than it could prove.
NothingProvenIsLost == WorkNeverFalls /\ RestoreParity /\ LegacyIsMigrated
=============================================================================
