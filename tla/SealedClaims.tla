----------------------------- MODULE SealedClaims -----------------------------
(***************************************************************************)
(* Commit-reveal records (src/core/claims.ts) and the two calls that use   *)
(* them, sealClaim and revealClaim of src/core/wallet.ts.  A record is the *)
(* only copy of the nonce of a paid commit: it is parked in memory first   *)
(* and leaves there once the account's stored list holds it.               *)
(*                                                                         *)
(* All writes of the lists run on sealChain ("jobs", the head running, its *)
(* progress in "run"); sealClaim and revealClaim run beside it.  Records   *)
(* written by releases before the encryption are read the same way and     *)
(* re-encrypted by every write, and are left out.  So is the death of the  *)
(* worker, which takes the parked records with it.                         *)
(***************************************************************************)
EXTENDS Naturals, Sequences, FiniteSets, SequencesExt, Subsequences

CONSTANTS
    Accounts,
    Seals,      \* the sealClaim calls of this instance, named by their commit
    Cap,        \* SEAL_CAP
    MaxJobs,    \* bound: length of the chain; locks wait for room in it
    Ops,        \* bound: what this instance offers beyond sealing
    None

ASSUME SealAssumption ==
    /\ None \notin Accounts \cup Seals
    /\ Cap \in Nat /\ MaxJobs \in Nat \ {0}

VARIABLES
    unlocked, active, wiped,  \* the wallet
    list,                     \* the stored lists, newest first
    parked,                   \* pendingSeals
    jobs, run,                \* sealChain, and the progress of its head
    seal, reveal,             \* the sealClaim call of each commit; its revealClaim call
    mined, public,            \* commits on the chain; claims the API published
    owed                      \* history variable: paid commits of this wallet, not revealed

vars == <<unlocked, active, wiped, list, parked, jobs, run, seal, reveal, mined, public, owed>>
wallet == <<unlocked, active, wiped>>
store == <<list, parked, jobs, run>>
chain == <<mined, public>>

Rec == [seal: Seals, revealed: BOOLEAN]
Parked == [acct: Accounts, seal: Seals, revealed: BOOLEAN]
Job == [kind: {"persist", "reveal", "wipe"}, seal: Seals \cup {None}, acct: Accounts \cup {None}]
Still == [pc |-> "start", todo |-> {}, acct |-> None, list |-> <<>>]
Reading(todo) == [pc |-> "read", todo |-> todo, acct |-> None, list |-> <<>>]
Writing(a, q) == [pc |-> "write", todo |-> {}, acct |-> a, list |-> q]

TypeOK ==
    /\ unlocked \in BOOLEAN /\ wiped \in BOOLEAN /\ active \in Accounts
    /\ list \in [Accounts -> Seq(Rec)]
    /\ parked \in Seq(Parked) /\ jobs \in Seq(Job)
    /\ run \in [pc: {"start", "read", "write"}, todo: SUBSET Accounts,
                acct: Accounts \cup {None}, list: Seq(Rec)]
    /\ seal \in [Seals -> [pc: {"new", "sent", "over", "refused"}, acct: Accounts \cup {None}]]
    /\ reveal \in [Seals -> [pc: {"idle", "ask", "post", "write"}, acct: Accounts \cup {None}]]
    /\ mined \in SUBSET Seals /\ public \in SUBSET Seals /\ owed \in SUBSET Seals

Init ==
    /\ unlocked = TRUE /\ active \in Accounts /\ wiped = FALSE
    /\ list = [a \in Accounts |-> <<>>] /\ parked = <<>>
    /\ jobs = <<>> /\ run = Still
    /\ seal = [s \in Seals |-> [pc |-> "new", acct |-> None]]
    /\ reveal = [s \in Seals |-> [pc |-> "idle", acct |-> None]]
    /\ mined = {} /\ public = {} /\ owed = {}

-----------------------------------------------------------------------------
Named(q) == {q[i].seal : i \in DOMAIN q}
Room == Len(jobs) < MaxJobs
Mark(q, s) == [i \in DOMAIN q |-> IF q[i].seal = s THEN [q[i] EXCEPT !.revealed = TRUE] ELSE q[i]]
AsRec(p) == [seal |-> p.seal, revealed |-> p.revealed]

\* Mutant of CapSeals: the oldest go, revealed or not.
CapSealsOldest(q) == SubSeq(q, 1, IF Len(q) < Cap THEN Len(q) ELSE Cap)
\* Evicts the oldest revealed records, as many as the list is over its cap.
CapSeals(q) ==
    LET over == Len(q) - Cap
        Evicted(i) == /\ q[i].revealed /\ Len(q) > Cap
                      /\ Cardinality({j \in DOMAIN q : j > i /\ q[j].revealed}) < over
    IN  At(q, {i \in DOMAIN q : ~Evicted(i)})

-----------------------------------------------------------------------------
\* The account and its key are captured, and the preimage encrypted, before the
\* commit is sent.
SealClaim(s) ==
    /\ seal[s].pc = "new" /\ unlocked
    /\ seal' = [seal EXCEPT ![s] = [pc |-> "sent", acct |-> active]]
    /\ UNCHANGED <<wallet, store, reveal, chain, owed>>

\* Mutant of FilesUnder: the account that is active once the node has answered.
FilesUnderActive(s) == active
FilesUnder(s) == seal[s].acct

\* Sent, or maybe sent: the record is persisted, whatever the wallet did meanwhile.
SealAnswered(s) ==
    /\ seal[s].pc = "sent"
    /\ seal' = [seal EXCEPT ![s].pc = "over"]
    /\ jobs' = Append(jobs, [kind |-> "persist", seal |-> s, acct |-> FilesUnder(s)])
    /\ owed' = IF wiped THEN owed ELSE owed \cup {s}
    /\ UNCHANGED <<wallet, list, parked, run, reveal, chain>>

SealRefused(s) ==
    /\ seal[s].pc = "sent"
    /\ seal' = [seal EXCEPT ![s].pc = "refused"]
    /\ UNCHANGED <<wallet, store, reveal, chain, owed>>

-----------------------------------------------------------------------------
Running(kind, pc) == jobs # <<>> /\ jobs[1].kind = kind /\ run.pc = pc
Done == jobs' = Tail(jobs) /\ run' = Still

Adds(j) == j.seal # None /\ j.seal \notin Named(parked)
Park(j) == Append(parked, [acct |-> j.acct, seal |-> j.seal, revealed |-> FALSE])

\* Parked first; a locked wallet leaves it at that.
PersistStarts ==
    /\ Running("persist", "start")
    /\ LET j == jobs[1]
           now == IF Adds(j) THEN Park(j) ELSE parked
       IN  IF Adds(j) /\ wiped
           THEN Done /\ UNCHANGED parked
           ELSE /\ parked' = now
                /\ IF unlocked /\ now # <<>>
                   THEN /\ run' = Reading({now[i].acct : i \in DOMAIN now})
                        /\ UNCHANGED jobs
                   ELSE Done
    /\ UNCHANGED <<wallet, list, seal, reveal, chain, owed>>

\* The account's parked records are put in front of the list just read.
NewSeals(a) == {i \in DOMAIN parked : parked[i].acct = a /\ parked[i].seal \notin Named(list[a])}

PersistReads(a) ==
    /\ Running("persist", "read") /\ a \in run.todo
    /\ LET new == At(parked, NewSeals(a))
       IN  run' = [run EXCEPT !.pc = "write", !.acct = a,
                       !.list = Reverse([i \in DOMAIN new |-> AsRec(new[i])]) \o list[a]]
    /\ UNCHANGED <<wallet, list, parked, jobs, seal, reveal, chain, owed>>

NextKey == IF run.todo = {run.acct}
           THEN Done
           ELSE /\ run' = Reading(run.todo \ {run.acct})
                /\ UNCHANGED jobs

Unparked == At(parked, {i \in DOMAIN parked : parked[i].acct # run.acct})

PersistWrites ==
    /\ Running("persist", "write")
    /\ list' = [list EXCEPT ![run.acct] = CapSeals(run.list)]
    /\ parked' = Unparked
    /\ NextKey
    /\ UNCHANGED <<wallet, seal, reveal, chain, owed>>

\* Reading, encrypting or writing failed: the record stays parked.
PersistFails ==
    /\ "fails" \in Ops /\ Running("persist", "write")
    /\ NextKey
    /\ UNCHANGED <<wallet, list, parked, seal, reveal, chain, owed>>

-----------------------------------------------------------------------------
\* revealClaim finds the record in the active account's list, or parked.
RevealClaim(s) ==
    /\ "reveal" \in Ops /\ reveal[s].pc = "idle" /\ unlocked /\ s \notin public
    /\ s \in Named(list[active])
          \/ \E i \in DOMAIN parked : parked[i].acct = active /\ parked[i].seal = s
    /\ reveal' = [reveal EXCEPT ![s] = [pc |-> "ask", acct |-> active]]
    /\ UNCHANGED <<wallet, store, seal, chain, owed>>

RevealEnds(s) == reveal' = [reveal EXCEPT ![s] = [pc |-> "idle", acct |-> None]]

MayPublish(s) == s \in mined

\* The node is asked; then the preimage is opened with the key, if it is there.
RevealAsks(s) ==
    /\ reveal[s].pc = "ask"
    /\ \/ /\ MayPublish(s) /\ unlocked
          /\ reveal' = [reveal EXCEPT ![s].pc = "post"]
       \/ RevealEnds(s)
    /\ UNCHANGED <<wallet, store, seal, chain, owed>>

\* The API registers the claim, or does not.
RevealPosts(s) ==
    /\ reveal[s].pc = "post"
    /\ \/ /\ public' = public \cup {s} /\ owed' = owed \ {s}
          /\ jobs' = Append(jobs, [kind |-> "reveal", seal |-> s, acct |-> reveal[s].acct])
          /\ reveal' = [reveal EXCEPT ![s].pc = "write"]
       \/ /\ RevealEnds(s)
          /\ UNCHANGED <<public, owed, jobs>>
    /\ UNCHANGED <<wallet, list, parked, run, seal, mined>>

\* The flag: on the parked record at once, on the stored one by a fresh read.
FlagStarts ==
    /\ Running("reveal", "start")
    /\ LET j == jobs[1]
       IN  IF unlocked
           THEN /\ parked' = Mark(parked, j.seal)
                /\ IF j.seal \in Named(list[j.acct])
                   THEN /\ run' = Writing(j.acct, Mark(list[j.acct], j.seal))
                        /\ UNCHANGED <<jobs, reveal>>
                   ELSE Done /\ RevealEnds(j.seal)
           ELSE Done /\ RevealEnds(j.seal) /\ UNCHANGED parked
    /\ UNCHANGED <<wallet, list, seal, chain, owed>>

FlagWrites ==
    /\ Running("reveal", "write")
    /\ \/ list' = [list EXCEPT ![run.acct] = run.list]
       \/ "fails" \in Ops /\ UNCHANGED list
    /\ Done /\ RevealEnds(jobs[1].seal)
    /\ UNCHANGED <<wallet, parked, seal, chain, owed>>

-----------------------------------------------------------------------------
\* Locking keeps what waits in memory (AW-SEAL-LOCK-1).
AfterLock == parked

Lock ==
    /\ "lock" \in Ops /\ unlocked
    /\ unlocked' = FALSE
    /\ parked' = AfterLock
    /\ UNCHANGED <<active, wiped, list, jobs, run, seal, reveal, chain, owed>>

\* Mutant of UnlockDrains: parked records wait for the next seal.
UnlockDrainsNot == FALSE
UnlockDrains == parked # <<>>

Unlock ==
    /\ ~unlocked /\ ~wiped /\ Room
    /\ unlocked' = TRUE
    /\ jobs' = IF UnlockDrains
               THEN Append(jobs, [kind |-> "persist", seal |-> None, acct |-> None])
               ELSE jobs
    /\ UNCHANGED <<active, wiped, list, parked, run, seal, reveal, chain, owed>>

Switch(a) ==
    /\ "switch" \in Ops /\ unlocked /\ a # active
    /\ active' = a
    /\ UNCHANGED <<unlocked, wiped, store, seal, reveal, chain, owed>>

\* reset waits for the chain and deletes lists and parked records.
Reset ==
    /\ "reset" \in Ops /\ ~wiped
    /\ wiped' = TRUE /\ unlocked' = FALSE
    /\ jobs' = Append(jobs, [kind |-> "wipe", seal |-> None, acct |-> None])
    /\ owed' = {}
    /\ UNCHANGED <<active, list, parked, run, seal, reveal, chain>>

Wipe ==
    /\ Running("wipe", "start")
    /\ parked' = <<>> /\ list' = [a \in Accounts |-> <<>>]
    /\ Done
    /\ UNCHANGED <<wallet, seal, reveal, chain, owed>>

\* create, restore or importKey, once the old vault is gone.
Create ==
    /\ wiped /\ \A i \in DOMAIN jobs : jobs[i].kind # "wipe"
    /\ wiped' = FALSE /\ unlocked' = TRUE
    /\ UNCHANGED <<active, store, seal, reveal, chain, owed>>

Mine(s) == /\ seal[s].pc \in {"sent", "over"} /\ s \notin mined
           /\ mined' = mined \cup {s}
           /\ UNCHANGED <<wallet, store, seal, reveal, public, owed>>

-----------------------------------------------------------------------------
Work == \/ PersistStarts \/ (\E a \in Accounts : PersistReads(a))
        \/ FlagStarts \/ FlagWrites \/ PersistWrites \/ PersistFails \/ Wipe

Next ==
    \/ \E s \in Seals : \/ SealClaim(s) \/ SealAnswered(s) \/ SealRefused(s) \/ Mine(s)
                        \/ RevealClaim(s) \/ RevealAsks(s) \/ RevealPosts(s)
    \/ \E a \in Accounts : Switch(a)
    \/ Work \/ Lock \/ Unlock \/ Reset \/ Create

Spec == Init /\ [][Next]_vars

\* Awaits settle and the store does not reject for ever; the idle lock rings, the
\* user unlocks again, which is when parked records are written, and the next lock
\* is minutes away when that write starts.
FairSpec ==
    /\ Spec /\ WF_vars(Work) /\ SF_vars(PersistWrites)
    /\ WF_vars(Lock) /\ SF_vars(Unlock) /\ SF_vars(unlocked /\ PersistStarts)

-----------------------------------------------------------------------------
Held == Named(parked) \cup UNION {Named(list[a]) : a \in Accounts}
Queued == {jobs[i].seal : i \in {n \in DOMAIN jobs : jobs[n].kind = "persist"}}

\* The preimage of a paid commit that is not revealed is in memory, in the store,
\* or queued to be parked: across locks, switches, failed writes and the cap.
PaidSealsHeld == owed \subseteq Held \cup Queued

\* A record is filed under the account that signed its commit, whatever account
\* the user switched to while the commit was sent.
FiledUnderSigner ==
    \A a \in Accounts : \A s \in Named(list[a]) : seal[s].acct = a

\* A claim becomes public only once its commit is mined.
RevealedOnlyMined == public \subseteq mined

\* The state invariant of the records: types, the right owner, and no claim
\* published before its commit is mined.
SealInv == TypeOK /\ FiledUnderSigner /\ RevealedOnlyMined

\* Parked records reach the store, or are dropped with the wallet: again and again
\* none is left waiting, whatever failed before.
ParkedIsWritten == []<>(Named(parked) = {})
=============================================================================
