---------------------------- MODULE PendingContent ----------------------------
(***************************************************************************)
(* The queue of bodies whose anchoring transaction is paid and not yet     *)
(* mined: pendingContent in src/core/wallet.ts.  cairnPost broadcasts the  *)
(* anchor and then adds the body (addPending); flushPending, started by    *)
(* the alarm and by every post, asks the node for each entry and registers *)
(* the mined ones with the Cairn API.                                      *)
(*                                                                         *)
(* The queue is one stored list of entries that differ by txid, so it is a *)
(* set of posts here.  addPending and flushPending each read it and write  *)
(* it whole with an await in between, and nothing orders the two.          *)
(***************************************************************************)
EXTENDS Naturals, FiniteSets

CONSTANTS
    Posts,        \* the posts of this instance
    Flushes,      \* bound: the flushes that may be in flight at once
    MaxRestarts,  \* bound: how often the service worker dies, or is reset
    Overlap,      \* bound: FALSE leaves out a write of the queue that lands between
                  \*   another's read and write; content_race shows what it does
    NoPost

ASSUME ContentAssumption ==
    MaxRestarts \in Nat /\ Overlap \in BOOLEAN /\ NoPost \notin Posts

VARIABLES
    stored,        \* pendingContent in the store
    post,          \* each cairnPost call
    snap,          \* the list each addPending has read
    flush,         \* each flushPending call
    latch,         \* flushInFlight
    anchored, old, \* anchors on the chain; entries queued for more than 7 days
    registered,    \* bodies the API holds
    restarts

contentVars == <<stored, post, snap, flush, latch, anchored, old, registered, restarts>>
world == <<anchored, old, registered, restarts>>

Off == [pc |-> "off", todo |-> {}, seen |-> {}, keep |-> {}, now |-> {}, asks |-> NoPost]
Flush == [pc: {"off", "list", "next", "register", "reread", "write"},
          todo: SUBSET Posts, seen: SUBSET Posts, keep: SUBSET Posts, now: SUBSET Posts,
          asks: Posts \cup {NoPost}]

ContentTypeOK ==
    /\ stored \in SUBSET Posts
    /\ post \in [Posts -> {"new", "paid", "write", "done"}]
    /\ snap \in [Posts -> SUBSET Posts]
    /\ flush \in [Flushes -> Flush]
    /\ latch \in BOOLEAN
    /\ anchored \in SUBSET Posts /\ old \in SUBSET Posts /\ registered \in SUBSET Posts
    /\ restarts \in 0..MaxRestarts

ContentInit ==
    /\ stored = {} /\ post = [p \in Posts |-> "new"] /\ snap = [p \in Posts |-> {}]
    /\ flush = [f \in Flushes |-> Off] /\ latch = FALSE
    /\ anchored = {} /\ old = {} /\ registered = {} /\ restarts = 0

-----------------------------------------------------------------------------
\* Whether somebody is between the read and the write of a write-back.
MidWrite == \/ \E p \in Posts : post[p] = "write"
            \/ \E f \in Flushes : flush[f].pc = "write"
MayRead == Overlap \/ ~MidWrite

Free == ~latch

Begins(f) == /\ flush[f].pc = "off" /\ Free
             /\ flush' = [flush EXCEPT ![f].pc = "list"]
             /\ latch' = TRUE

\* A refused propose queues nothing; a sent one, and one that may have been sent,
\* goes on to addPending.
Broadcast(p) ==
    /\ post[p] = "new"
    /\ \E after \in {"paid", "done"} : post' = [post EXCEPT ![p] = after]
    /\ UNCHANGED <<stored, snap, flush, latch, world>>

AddReads(p) ==
    /\ post[p] = "paid" /\ MayRead
    /\ snap' = [snap EXCEPT ![p] = stored]
    /\ post' = [post EXCEPT ![p] = "write"]
    /\ UNCHANGED <<stored, flush, latch, world>>

\* The write, and the flush cairnPost starts after it.
AddWrites(p) ==
    /\ post[p] = "write"
    /\ stored' = snap[p] \cup {p}
    /\ post' = [post EXCEPT ![p] = "done"] /\ snap' = [snap EXCEPT ![p] = {}]
    /\ \/ \E f \in Flushes : Begins(f)
       \/ latch /\ UNCHANGED <<flush, latch>>
    /\ UNCHANGED world

\* Caught in cairnPost: the post is made, its body is not queued.
AddFails(p) ==
    /\ post[p] = "write"
    /\ post' = [post EXCEPT ![p] = "done"] /\ snap' = [snap EXCEPT ![p] = {}]
    /\ \/ \E f \in Flushes : Begins(f)
       \/ latch /\ UNCHANGED <<flush, latch>>
    /\ UNCHANGED <<stored, world>>

-----------------------------------------------------------------------------
\* The startup drain and the one-minute alarm.
Alarm(f) == Begins(f) /\ UNCHANGED <<stored, post, snap, world>>

ListRead(f) ==
    /\ flush[f].pc = "list"
    /\ IF stored = {}
       THEN flush' = [flush EXCEPT ![f] = Off] /\ latch' = FALSE
       ELSE /\ flush' = [flush EXCEPT ![f].pc = "next", ![f].todo = stored]
            /\ UNCHANGED latch
    /\ UNCHANGED <<stored, post, snap, world>>

Drop(f, p) == [flush[f] EXCEPT !.todo = @ \ {p}, !.seen = @ \cup {p}]
Keep(f, p) == [Drop(f, p) EXCEPT !.keep = @ \cup {p}, !.pc = "next", !.asks = NoPost]

\* Mutant of Expired: the retention bounds nothing.
ExpiredNever(p) == FALSE
Expired(p) == p \in old

\* An entry past its retention is dropped; of the others the node is asked.  Not
\* mined, or no answer, keeps the entry for the next alarm.
Examine(f, p) ==
    /\ flush[f].pc = "next" /\ p \in flush[f].todo
    /\ \/ Expired(p) /\ flush' = [flush EXCEPT ![f] = Drop(f, p)]
       \/ ~Expired(p) /\ flush' = [flush EXCEPT ![f] = Keep(f, p)]
       \/ /\ ~Expired(p) /\ p \in anchored
          /\ flush' = [flush EXCEPT ![f].pc = "register", ![f].asks = p]
    /\ UNCHANGED <<stored, post, snap, latch, world>>

\* A refused registration keeps the entry.
NotRegistered(f) == Keep(f, flush[f].asks)

Register(f) ==
    /\ flush[f].pc = "register"
    /\ \/ /\ registered' = registered \cup {flush[f].asks}
          /\ flush' = [flush EXCEPT ![f] = [Drop(f, flush[f].asks) EXCEPT !.pc = "next", !.asks = NoPost]]
       \/ UNCHANGED registered /\ flush' = [flush EXCEPT ![f] = NotRegistered(f)]
    /\ UNCHANGED <<stored, post, snap, latch, anchored, old, restarts>>

ReRead(f) ==
    /\ flush[f].pc = "next" /\ flush[f].todo = {} /\ MayRead
    /\ flush' = [flush EXCEPT ![f].pc = "write", ![f].now = stored]
    /\ UNCHANGED <<stored, post, snap, latch, world>>

\* Mutant of Merged: only what the flush kept is written back.
MergedKeptOnly(f) == flush[f].keep
Merged(f) == flush[f].keep \cup (flush[f].now \ flush[f].seen)

WriteBack(f) ==
    /\ flush[f].pc = "write"
    /\ stored' = Merged(f)
    /\ flush' = [flush EXCEPT ![f] = Off] /\ latch' = FALSE
    /\ UNCHANGED <<post, snap, world>>

\* The store rejects: flushPending throws, its finally clause runs.
WriteFails(f) ==
    /\ flush[f].pc = "write"
    /\ flush' = [flush EXCEPT ![f] = Off] /\ latch' = FALSE
    /\ UNCHANGED <<stored, post, snap, world>>

-----------------------------------------------------------------------------
AnchorMined(p) == /\ post[p] # "new" /\ p \notin anchored
                  /\ anchored' = anchored \cup {p}
                  /\ UNCHANGED <<stored, post, snap, flush, latch, old, registered, restarts>>

Age(p) == /\ p \in stored \ old
          /\ old' = old \cup {p}
          /\ UNCHANGED <<stored, post, snap, flush, latch, anchored, registered, restarts>>

\* The worker dies: every call in flight dies with it, the store stays.
Restart ==
    /\ restarts < MaxRestarts
    /\ restarts' = restarts + 1
    /\ flush' = [f \in Flushes |-> Off] /\ latch' = FALSE
    /\ post' = [p \in Posts |-> IF post[p] = "new" THEN "new" ELSE "done"]
    /\ snap' = [p \in Posts |-> {}]
    /\ UNCHANGED <<stored, anchored, old, registered>>

\* reset deletes the queue and stops no call.
WalletReset ==
    /\ restarts < MaxRestarts /\ stored # {}
    /\ restarts' = restarts + 1
    /\ stored' = {}
    /\ UNCHANGED <<post, snap, flush, latch, anchored, old, registered>>

Works(f) == \/ ListRead(f) \/ Register(f) \/ ReRead(f) \/ WriteBack(f) \/ WriteFails(f)
            \/ \E p \in Posts : Examine(f, p)
AddPending(p) == AddReads(p) \/ AddWrites(p) \/ AddFails(p)

ContentNext ==
    \/ \E p \in Posts : Broadcast(p) \/ AddPending(p) \/ AnchorMined(p) \/ Age(p)
    \/ \E f \in Flushes : Alarm(f) \/ Works(f)
    \/ Restart \/ WalletReset

ContentSpec == ContentInit /\ [][ContentNext]_contentVars

\* Awaits settle, the alarm rings every minute, seven days pass, and the store does
\* not reject for ever.
ContentFairSpec ==
    /\ ContentSpec
    /\ \A f \in Flushes : WF_contentVars(Works(f)) /\ SF_contentVars(WriteBack(f))
    /\ WF_contentVars(\E f \in Flushes : Alarm(f))
    /\ \A p \in Posts : WF_contentVars(AddPending(p)) /\ WF_contentVars(Age(p))

-----------------------------------------------------------------------------
\* A queued body leaves the queue once the API holds it, when its seven days are
\* over, or with the wallet (F-QUEUE-1: a failed registration keeps the entry).
BodiesKept ==
    [][\A p \in stored \ stored' :
          p \in registered \/ p \in old \/ WalletReset]_contentVars

\* An entry enters the queue by its own post: a flush writes back no entry that
\* another flush has settled (F-QUEUE-2, the latch).
SettledStaysOut ==
    [][restarts = 0 => \A p \in stored' \ stored : post[p] = "write"]_contentVars

\* The queue changes for these reasons only: no body is lost, none comes back.
QueueIsFaithful == []ContentTypeOK /\ BodiesKept /\ SettledStaysOut

\* No body waits for ever: it is registered or its retention ends, whatever the
\* node and the API answer, because the alarm goes on flushing.
QueueDrains == \A p \in Posts : p \in stored ~> p \notin stored

\* "entries queued DURING this flush survive the write-back" (wallet.ts).
QueuedSurviveFlush ==
    [][\A f \in Flushes :
          WriteBack(f) => \A p \in stored \ flush[f].seen : p \in stored']_contentVars
=============================================================================
