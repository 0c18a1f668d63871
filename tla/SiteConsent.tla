----------------------------- MODULE SiteConsent -----------------------------
(***************************************************************************)
(* What sites learn of the wallet: the connectedOrigins map of             *)
(* src/background.ts, the calls that read it and write it, and the         *)
(* accountsChanged events a connected page gets when it loses access.      *)
(*                                                                         *)
(* The map is one stored object.  Every write of it is a read and a write  *)
(* with awaits in between, queued on consentChain ("jobs", the head        *)
(* running).  Reads do not queue.  A call is one page request or one popup *)
(* call; it interleaves with the others at every await.                    *)
(*                                                                         *)
(* The approval itself is ApprovalQueue's: here a connect request appears  *)
(* when it has been approved, with the account the window displayed.  The  *)
(* idle auto-lock sends the same events as lock and is not repeated.       *)
(***************************************************************************)
EXTENDS Naturals, Sequences, FiniteSets, SequencesExt

CONSTANTS
    Calls,     \* bound: the calls that may be in flight at once
    Origins,   \* sites with an identity; opaque ones are never stored
    Accounts,
    Asking,    \* bound: the sites that ask silently and revoke their own consent
    Ops,       \* bound: the calls this instance offers
    None

ASSUME ConsentAssumption ==
    /\ Asking \subseteq Origins
    /\ None \notin Calls \cup Origins \cup Accounts

Consents == [Origins -> Accounts \cup {None}]
NoConsents == [o \in Origins |-> None]

VARIABLES
    unlocked, acct,   \* the wallet
    consents,         \* connectedOrigins in chrome.storage.local
    calls,             \* the calls in flight
    jobs,             \* consentChain, its head running
    knows,            \* the address each page believes it has access to
    given             \* history variable: <<site, account>> the user approved

consentVars == <<unlocked, acct, consents, calls, jobs, knows, given>>

Ids == {"getAddress", "getPermissions", "connect", "revoke", "disconnect",
        "lock", "switch", "add", "reset"}
Call == [op: Ids \cup {"none"},
         pc: {"idle", "addr", "unlocked", "consents", "queued", "tell"},
         site: Origins \cup {None}, addr: Accounts \cup {None}]
Job == [of: Calls, kind: {"grant", "revoke", "wipe"}, site: Origins \cup {None},
        addr: Accounts \cup {None}, at: {"read", "write", "dead"}, snap: Consents]
NoCall == [op |-> "none", pc |-> "idle", site |-> None, addr |-> None]

ConsentTypeOK ==
    /\ unlocked \in BOOLEAN /\ acct \in Accounts
    /\ consents \in Consents
    /\ calls \in [Calls -> Call]
    /\ jobs \in Seq(Job)
    /\ knows \in Consents
    /\ given \subseteq Origins \X Accounts

ConsentInit ==
    /\ unlocked = TRUE /\ acct \in Accounts
    /\ consents = NoConsents
    /\ calls = [c \in Calls |-> NoCall] /\ jobs = <<>>
    /\ knows = NoConsents /\ given = {}

-----------------------------------------------------------------------------
At(c, op, pc) == calls[c].op = op /\ calls[c].pc = pc
Begin(c, op, pc, o, a) ==
    /\ op \in Ops /\ calls[c] = NoCall
    /\ calls' = [calls EXCEPT ![c] = [op |-> op, pc |-> pc, site |-> o, addr |-> a]]
Goes(c, pc) == calls' = [calls EXCEPT ![c].pc = pc]
Ends(c) == calls' = [calls EXCEPT ![c] = NoCall]
Enqueue(c, kind, o, a) ==
    jobs' = Append(jobs, [of |-> c, kind |-> kind, site |-> o, addr |-> a,
                          at |-> "read", snap |-> NoConsents])
Calm == \A c \in Calls : calls[c] = NoCall

\* A page learns an address; an accountsChanged event takes it away.
Learns(o, a) == knows' = [knows EXCEPT ![o] = a]
Loses(os) == knows' = [o \in Origins |-> IF o \in os THEN None ELSE knows[o]]
Connected == {o \in Origins : consents[o] # None}

-----------------------------------------------------------------------------
\* connect or getAddress from a page: the silent path.  status() reads the
\* address, then whether the wallet is unlocked; the consent is read after it.
AskAddress(c, o) ==
    /\ o \in Asking
    /\ Begin(c, "getAddress", "addr", o, None)
    /\ UNCHANGED <<unlocked, acct, consents, jobs, knows, given>>

\* Mutant of Reviewed: the account is not compared with the one displayed.
ReviewedAny(c) == TRUE
Reviewed(c) == calls[c].op = "connect" => calls[c].addr = acct

ReadAddr(c) ==
    /\ calls[c].op \in {"getAddress", "connect"} /\ calls[c].pc = "addr"
    /\ IF ~Reviewed(c)
       THEN Ends(c)
       ELSE calls' = [calls EXCEPT ![c].pc = "unlocked", ![c].addr = acct]
    /\ UNCHANGED <<unlocked, acct, consents, jobs, knows, given>>

\* A locked wallet queues the request for approval, or tells an approver so.
ReadUnlocked(c) ==
    /\ calls[c].op \in {"getAddress", "getPermissions"} /\ calls[c].pc = "unlocked"
    /\ IF unlocked THEN Goes(c, "consents") ELSE Ends(c)
    /\ UNCHANGED <<unlocked, acct, consents, jobs, knows, given>>

MaySee(o, a) == consents[o] = a

AnswerAddress(c) ==
    /\ At(c, "getAddress", "consents")
    /\ IF MaySee(calls[c].site, calls[c].addr)
       THEN Learns(calls[c].site, calls[c].addr) ELSE UNCHANGED knows
    /\ Ends(c)
    /\ UNCHANGED <<unlocked, acct, consents, jobs, given>>

AskPermissions(c, o) ==
    /\ o \in Asking
    /\ Begin(c, "getPermissions", "unlocked", o, None)
    /\ UNCHANGED <<unlocked, acct, consents, jobs, knows, given>>

AnswerPermissions(c) ==
    /\ At(c, "getPermissions", "consents")
    /\ IF consents[calls[c].site] # None
       THEN Learns(calls[c].site, consents[calls[c].site]) ELSE UNCHANGED knows
    /\ Ends(c)
    /\ UNCHANGED <<unlocked, acct, consents, jobs, given>>

\* The user approves a connection that displayed account a: resolvePending.
ApproveConnect(c, o, a) ==
    /\ Begin(c, "connect", "addr", o, a)
    /\ given' = given \cup {<<o, a>>}
    /\ UNCHANGED <<unlocked, acct, consents, jobs, knows>>

Grant(c) ==
    /\ At(c, "connect", "unlocked")
    /\ IF unlocked
       THEN Goes(c, "queued") /\ Enqueue(c, "grant", calls[c].site, calls[c].addr)
       ELSE Ends(c) /\ UNCHANGED jobs
    /\ UNCHANGED <<unlocked, acct, consents, knows, given>>

\* revokePermissions from the page, disconnectSite from the popup.
Revoke(c, o, op) ==
    /\ op = "disconnect" \/ (op = "revoke" /\ o \in Asking)
    /\ Begin(c, op, "queued", o, None)
    /\ Enqueue(c, "revoke", o, None)
    /\ UNCHANGED <<unlocked, acct, consents, knows, given>>

-----------------------------------------------------------------------------
\* Mutant of Runs: the writes of the map do not wait for each other.
RunsUnchained(i) == i \in DOMAIN jobs
Runs(i) == i = 1 /\ jobs # <<>>

JobReads(i) ==
    /\ Runs(i) /\ jobs[i].at = "read"
    /\ jobs' = [jobs EXCEPT ![i].at = "write", ![i].snap = consents]
    /\ UNCHANGED <<unlocked, acct, consents, calls, knows, given>>

Without(m, o) == [m EXCEPT ![o] = None]

\* What a finished job's caller does: the page is answered, or told it lost access.
Settles(j) ==
    CASE j.kind = "grant"  -> Learns(j.site, j.addr) /\ Ends(j.of)
      [] j.kind = "revoke" -> Loses({j.site}) /\ Ends(j.of)
      [] j.kind = "wipe"   -> UNCHANGED knows /\ Goes(j.of, "unlocked")

JobWrites(i) ==
    /\ Runs(i) /\ jobs[i].at = "write"
    /\ LET j == jobs[i]
       IN  /\ consents' = CASE j.kind = "grant"  -> [j.snap EXCEPT ![j.site] = j.addr]
                            [] j.kind = "revoke" -> Without(j.snap, j.site)
                            [] j.kind = "wipe"   -> NoConsents
           /\ Settles(j)
    /\ jobs' = RemoveAt(jobs, i)
    /\ UNCHANGED <<unlocked, acct, given>>

\* The store rejects: the caller throws, and the next job starts all the same.
\* Mutant of AfterFailure: a rejected job stops the chain.
AfterFailureStuck == [jobs EXCEPT ![1].at = "dead"]
AfterFailure == Tail(jobs)

JobFails ==
    /\ "fails" \in Ops /\ jobs # <<>> /\ jobs[1].at # "dead"
    /\ Ends(jobs[1].of)
    /\ jobs' = AfterFailure
    /\ UNCHANGED <<unlocked, acct, consents, knows, given>>

-----------------------------------------------------------------------------
\* lock and switchAccount change the wallet, then tell every connected site.
Lock(c) ==
    /\ Begin(c, "lock", "tell", None, None)
    /\ unlocked' = FALSE
    /\ UNCHANGED <<acct, consents, jobs, knows, given>>

Switch(c, a) ==
    /\ unlocked /\ a # acct
    /\ Begin(c, "switch", "tell", None, None)
    /\ acct' = a
    /\ UNCHANGED <<unlocked, consents, jobs, knows, given>>

EmitConnected(c) ==
    /\ calls[c].op \in {"lock", "switch"} /\ calls[c].pc = "tell"
    /\ Loses(Connected)
    /\ Ends(c)
    /\ UNCHANGED <<unlocked, acct, consents, jobs, given>>

\* addAccount and importAccount make the new account the active one.
AddAccount(a) ==
    /\ "add" \in Ops /\ unlocked /\ a # acct
    /\ acct' = a
    /\ UNCHANGED <<unlocked, consents, calls, jobs, knows, given>>

Unlock ==
    /\ "unlock" \in Ops /\ ~unlocked
    /\ unlocked' = TRUE
    /\ UNCHANGED <<acct, consents, calls, jobs, knows, given>>

\* reset: the consents first, then the wallet.
Reset(c) ==
    /\ Begin(c, "reset", "queued", None, None)
    /\ Enqueue(c, "wipe", None, None)
    /\ UNCHANGED <<unlocked, acct, consents, knows, given>>

ResetWallet(c) ==
    /\ At(c, "reset", "unlocked")
    /\ unlocked' = FALSE
    /\ Ends(c)
    /\ UNCHANGED <<acct, consents, jobs, knows, given>>

-----------------------------------------------------------------------------
Step(c) == \/ ReadAddr(c) \/ ReadUnlocked(c) \/ AnswerAddress(c) \/ AnswerPermissions(c)
           \/ Grant(c) \/ EmitConnected(c) \/ ResetWallet(c)
Works == \/ \E i \in DOMAIN jobs : JobReads(i) \/ JobWrites(i)
         \/ JobFails

ConsentNext ==
    \/ \E c \in Calls :
          \/ Step(c) \/ Lock(c) \/ Reset(c)
          \/ \E a \in Accounts : Switch(c, a)
          \/ \E o \in Origins :
                \/ AskAddress(c, o) \/ AskPermissions(c, o)
                \/ \E op \in {"revoke", "disconnect"} : Revoke(c, o, op)
                \/ \E a \in Accounts : ApproveConnect(c, o, a)
    \/ \E a \in Accounts : AddAccount(a)
    \/ Works \/ Unlock

ConsentSpec == ConsentInit /\ [][ConsentNext]_consentVars

\* Storage calls settle, and a settled job starts the next.
ConsentFairSpec == ConsentSpec /\ WF_consentVars(Works)

-----------------------------------------------------------------------------
\* A page holds an address only if the user approved this account for this site,
\* in a window that displayed it, whatever the user switched to meanwhile (F11).
KnowsOnlyApproved ==
    \A o \in Origins : knows[o] # None => <<o, knows[o]>> \in given

\* The stored consents are approvals too, so the silent path rests on them.
ConsentWasGiven ==
    \A o \in Origins : consents[o] # None => <<o, consents[o]>> \in given

\* The state invariant of the consents: what is stored and what is known was
\* approved.
ConsentInv == ConsentTypeOK /\ ConsentWasGiven /\ KnowsOnlyApproved

\* A site the user removed is never written back by another site's read and
\* write: a consent appears only by the running grant of that very site.
NoWriteBack ==
    [][\A o \in Origins :
          consents'[o] \notin {None, consents[o]} =>
              \E i \in DOMAIN jobs : /\ jobs[i].kind = "grant" /\ jobs[i].site = o
                                     /\ jobs[i].addr = consents'[o]]_consentVars

\* Every queued change of the consents is answered, a rejected write before it or
\* not (inConsentChain's two settle paths).
ConsentCallsEnd == \A c \in Calls : calls[c].pc = "queued" ~> calls[c].pc # "queued"

\* accountsChanged is sent when the active account changes: once every call is
\* answered, no page still believes in the account that was active before.
SitesHearOfSwitch ==
    Calm => \A o \in Origins : knows[o] \in {None, acct}

\* "Consent is wiped on reset": when the reset returns, no consent is stored, and
\* none approved before it is still on its way to the store.
ResetForgetsSites ==
    [][\A c \in Calls : ResetWallet(c) =>
          consents' = NoConsents /\ \A i \in DOMAIN jobs : jobs[i].kind # "grant"]_consentVars
=============================================================================
