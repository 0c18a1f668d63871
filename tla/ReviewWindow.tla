---------------------------- MODULE ReviewWindow ----------------------------
(***************************************************************************)
(* What an approval window shows about the request it has painted, and     *)
(* when its Approve and Reject buttons answer (src/popup/approve.ts),      *)
(* composed with the queue and the window of ApprovalQueue.                *)
(*                                                                         *)
(* Each paint starts reads of its own: the recipient warnings, the balance *)
(* and the quote of a token fill.  The verdict on an nfinalize is read     *)
(* once and then kept current by the poll and by a click.  They all land   *)
(* later, in any order: after a lock, after the unlock has painted the     *)
(* same request again, after the user has clicked.  The script keeps what  *)
(* it remembers of a request (rs(id), nfin...) across paints; what is on   *)
(* the screen it does not.                                                 *)
(*                                                                         *)
(* Time is left out: whether a verdict is old enough to be read again is   *)
(* open.  So are the texts, the previews of a revealed claim and of a CSD  *)
(* fill, which no button waits for, and a second click while one awaits    *)
(* the verdict.                                                            *)
(***************************************************************************)
EXTENDS ApprovalQueue

CONSTANTS
    PreviewsOf,     \* which of Previews the card of a request has
    Quotes,         \* what the offer service may say a token fill costs
    LastTip,        \* bound: the tips of the chain are 0..LastTip
    Mine, Open,     \* the tips at which the reservation is the signer's, and at
                    \* which it can be finalized
    Watched,        \* bound: the windows whose cards this instance follows
    CardOps         \* bound: of Ops, what goes on while a request has a card

\* verdict: an nfinalize's, kept current; standing: an nrenew's or nset's, read once.
Gates == {"verdict", "standing"}
Previews == Gates \cup {"warnings", "balance", "quote"}
Tips == 0..LastTip

ASSUME ReviewAssumption ==
    /\ PreviewsOf \in [Requests -> SUBSET Previews]
    /\ LastTip \in Nat /\ Mine \subseteq Tips /\ Open \subseteq Tips
    /\ Watched \subseteq Windows
    /\ None \notin Quotes \cup Tips /\ None \notin {"block", "warn", "pass"}
    \* A token fill is no name action.
    /\ \A r \in Requests : "quote" \in PreviewsOf[r] => PreviewsOf[r] \cap Gates = {}

VARIABLES
    height,         \* the node's tip
    card            \* [Windows -> what the page remembers and shows of its request]

rvars == <<vars, height, card>>

NoRead == [at |-> "no", from |-> 0, void |-> FALSE, tip |-> None]
NoClick == [at |-> "no", from |-> 0, void |-> FALSE, req |-> None, signer |-> None]

\* due: the reads of this paint ("now") and of earlier ones ("old") still under way.
\* preview, quote, short, record, recTip and verdict are remembered; amount, box
\* and note are on the screen.  last: which of the two reads of the tip started last.
\* since is history: the node's tip when the read behind the verdict started.
NoCard == [paints |-> "none", due |-> {}, armed |-> FALSE,
           preview |-> "none", quote |-> None, amount |-> None,
           short |-> FALSE, box |-> FALSE,
           gate |-> "off", record |-> None, recTip |-> None,
           verdict |-> None, since |-> 0, note |-> None,
           refresh |-> NoRead, click |-> NoClick, last |-> None]

ReviewTypeOK ==
    /\ height \in Tips
    /\ \A w \in Windows :
          /\ card[w].paints \in {"none", "first", "again"}
          /\ card[w].due \subseteq (Previews \ Gates) \X {"now", "old"}
          /\ card[w].preview \in {"none", "loading", "ready", "error"}
          /\ {card[w].quote, card[w].amount} \subseteq Quotes \cup {None}
          /\ card[w].gate \in {"off", "check", "checkOnce", "live", "once"}
          /\ {card[w].verdict, card[w].note} \subseteq {None, "block", "warn", "pass"}
          /\ card[w].refresh.at \in {"no", "tip", "record"}
          /\ card[w].click.at \in {"no", "gate", "tip"}

RInit == Init /\ height = 0 /\ card = [w \in Windows |-> NoCard]

Painted(w) == w \in Watched /\ Showing(w) /\ paint[w] # None
Shows(w, p) == Painted(w) /\ p \in PreviewsOf[paint[w].req]

\* The bounds: pages send one request in all, the worker lives on, and while a
\* request has a card only CardOps happen beside it.
Alone == \A q \in Requests : phase[q] = "new"
Allowed(op) == \/ op \in CardOps
               \/ \A r \in Requests : PreviewsOf[r] # {} => phase[r] = "new"

\* Whatever closes or forgets a window forgets its card.
Forgets == card' = [w \in Windows |-> IF shown'[w] = "open" THEN card[w] ELSE NoCard]
Queueing(act) == act /\ Forgets /\ UNCHANGED height

-----------------------------------------------------------------------------
(* A paint and the reads it starts *)

\* What the verdict says is put back on a screen that was rebuilt.
Reattached(c) == IF c.verdict = "pass" THEN None ELSE c.verdict

\* render()'s rebuild: the screen is new, every latch but the verdict's starts
\* again, and the reads of an earlier paint go on.
Rebuilt(c, r) ==
    LET reads == PreviewsOf[r] \ Gates
    IN  [c EXCEPT !.paints = IF @ = "none" THEN "first" ELSE "again",
                  !.due = {<<d[1], "old">> : d \in @} \cup (reads \X {"now"}),
                  !.armed = FALSE, !.amount = None, !.box = FALSE, !.short = FALSE,
                  !.preview = IF "quote" \in reads THEN "loading" ELSE @,
                  !.gate = IF @ # "off" \/ PreviewsOf[r] \cap Gates = {} THEN @
                           ELSE IF "verdict" \in PreviewsOf[r] THEN "check" ELSE "checkOnce",
                  !.note = Reattached(c)]

Show(w) ==
    /\ ShowRequest(w)
    /\ card' = [card EXCEPT ![w] = IF w \in Watched THEN Rebuilt(@, seen[w].head) ELSE @]
    /\ UNCHANGED height

\* A read acts for the paint that started it, while its request is rendered.
\* Mutant of Live: a read of an earlier paint of the same request will do.
LiveRequest(w, d) == Painted(w)
Live(w, d) == Painted(w) /\ d[2] = "now"

Reads(w, p) == {d \in card[w].due : d[1] = p}
Ended(c, d) == [c EXCEPT !.due = @ \ {d}]

\* fillSendWarning settles, painted or failed.
WarningsLand(w) ==
    /\ \E d \in Reads(w, "warnings") : card' = [card EXCEPT ![w] = Ended(@, d)]
    /\ UNCHANGED <<vars, height>>

\* fillBalance: the debit exceeds what can be spent, or not, or the read failed.
BalanceLands(w) ==
    /\ \E d \in Reads(w, "balance"), short \in BOOLEAN :
          card' = [card EXCEPT ![w] =
              IF Live(w, d) THEN [Ended(@, d) EXCEPT !.short = short, !.box = short] ELSE Ended(@, d)]
    /\ UNCHANGED <<vars, height>>

\* fillTokenSim: the quote is remembered and put in the box of the paint that asked;
\* None after three failures.
QuoteLands(w) ==
    /\ \E d \in Reads(w, "quote"), q \in Quotes \cup {None} :
          card' = [card EXCEPT ![w] =
              IF ~Live(w, d) THEN Ended(@, d)
              ELSE [Ended(@, d) EXCEPT !.quote = q, !.preview = IF q = None THEN "error" ELSE "ready",
                                       !.amount = IF d[2] = "now" THEN q ELSE @]]
    /\ UNCHANGED <<vars, height>>

\* armButtons: both wait for the warnings of this paint, Approve for the quote too;
\* an earlier paint of the same request may arm Reject, which asks for no paintGen.
Waits(w, ps) == \E p \in ps : <<p, "now">> \in card[w].due
Arms(w) ==
    /\ Painted(w) /\ ~card[w].armed /\ ~Waits(w, {"warnings", "quote"})
    /\ card' = [card EXCEPT ![w].armed = TRUE]
    /\ UNCHANGED <<vars, height>>

RejectLive(w) == ~Waits(w, {"warnings"}) \/ card[w].paints = "again"
ApproveLive(w) ==
    /\ card[w].armed /\ ~card[w].short /\ card[w].verdict # "block"
    /\ Shows(w, "quote") => card[w].preview = "ready"

-----------------------------------------------------------------------------
(* The verdict on an nfinalize *)

\* nfinalizeApproveGate over the record fetched and the tip: open if either is missing.
Verdict(record, t) ==
    IF record = None \/ t = None THEN "warn"
    ELSE IF record = "mine" /\ t \in Open THEN "pass" ELSE "block"

\* readNameRecord, answered at this moment: whose reservation it is, or no answer.
Fetched == {IF height \in Mine THEN "mine" ELSE "gone", None}

\* applyNfin: the verdict is kept whatever is on the screen, the note goes on a
\* screen that shows the request.
Applied(w, c, v, from) ==
    [c EXCEPT !.verdict = v, !.since = from,
              !.note = IF ~Painted(w) THEN @ ELSE IF v = "pass" THEN None ELSE v]

\* A read of the tip lands: one that started later makes the other void.
\* Mutant of Voids: the start order is not looked at.
VoidsNot(c, which) == c
Voids(c, which) == IF c.last # which THEN c
                   ELSE [c EXCEPT !.refresh.void = TRUE, !.click.void = TRUE]

\* resolve() sends the approval; the page forgets what it will not need again.
Kept(c) == [NoCard EXCEPT !.preview = c.preview, !.quote = c.quote]
Decided(w, c) ==
    IF c.verdict = "block"
    THEN card' = [card EXCEPT ![w] = [c EXCEPT !.click = NoClick]] /\ UNCHANGED vars
    ELSE /\ card' = [card EXCEPT ![w] = Kept(c)]
         /\ Sends(w, [win |-> w, req |-> c.click.req, approve |-> TRUE,
                      signer |-> c.click.signer, ack |-> None])

\* The first verdict lands; a click that waits for it goes on at once.
FirstVerdict(w, c) == IF c.click.at = "gate" THEN Decided(w, c)
                      ELSE card' = [card EXCEPT ![w] = c] /\ UNCHANGED vars

\* checkNfinalize: the record, then the tip.
CheckLands(w) ==
    /\ card[w].gate = "check"
    /\ \E record \in Fetched, t \in {height, None} :
          FirstVerdict(w, Applied(w, [card[w] EXCEPT !.gate = "live", !.record = record],
                                  Verdict(record, t), height))
    /\ UNCHANGED height

\* checkNameAct: nameActApproveGate judges the record alone.
ActVerdict(record) == CASE record = None -> "warn" [] record = "mine" -> "pass" [] OTHER -> "block"
ActLands(w) ==
    /\ card[w].gate = "checkOnce"
    /\ \E record \in Fetched :
          FirstVerdict(w, Applied(w, [card[w] EXCEPT !.gate = "once"], ActVerdict(record), height))
    /\ UNCHANGED height

\* refreshNfinalize is started by the poll that reads the queue, locked or not.
Polled(w) ==
    /\ PollQueue(w)
    /\ \/ UNCHANGED card
       \/ /\ card[w].gate = "live" /\ card[w].refresh.at = "no" /\ pending # <<>>
          /\ card' = [card EXCEPT ![w].last = "refresh",
                          ![w].refresh = [NoRead EXCEPT !.at = "tip", !.from = height]]
    /\ UNCHANGED height

\* A void refresh changes nothing; another one judges the record at its tip.
Refreshed(w, record, recTip, t) ==
    LET c == [card[w] EXCEPT !.refresh = NoRead]
    IN  IF card[w].refresh.void THEN c
        ELSE Applied(w, [Voids(c, "refresh") EXCEPT !.record = record, !.recTip = recTip],
                     Verdict(record, t), card[w].refresh.from)

\* The tip is read; the record is read again when the tip may have moved since.
RefreshTip(w) ==
    LET r == card[w].refresh
    IN  /\ r.at = "tip"
        /\ \E t \in (r.from..height) \cup {None} :
              card' = [card EXCEPT ![w] =
                  IF t = None THEN [@ EXCEPT !.refresh = NoRead]
                  ELSE IF t # @.recTip \/ @.record = None
                  THEN [@ EXCEPT !.refresh.at = "record", !.refresh.tip = t]
                  ELSE Refreshed(w, @.record, @.recTip, t)]
        /\ UNCHANGED <<vars, height>>

\* A record that does not come keeps the last one, and its tip.
RefreshRecord(w) ==
    LET r == card[w].refresh
    IN  /\ r.at = "record"
        /\ \E f \in Fetched :
              card' = [card EXCEPT ![w] =
                  IF f = None THEN Refreshed(w, @.record, @.recTip, r.tip)
                              ELSE Refreshed(w, f, r.tip, r.tip)]
        /\ UNCHANGED <<vars, height>>

\* nfinAtClick: the tip is read again unless the verdict is fresh.
Aims(w) == [NoClick EXCEPT !.from = height, !.req = paint[w].req, !.signer = paint[w].signer]

ApproveVerdict(w) ==
    /\ \E g \in Gates : Shows(w, g)
    /\ ApproveLive(w) /\ card[w].click.at = "no"
    /\ LET c == [card[w] EXCEPT !.click = Aims(w)]
       IN  \/ /\ c.gate \in {"check", "checkOnce"}
              /\ card' = [card EXCEPT ![w] = [c EXCEPT !.click.at = "gate"]]
              /\ UNCHANGED vars
           \/ /\ c.gate = "live"
              /\ card' = [card EXCEPT ![w] = [c EXCEPT !.click.at = "tip", !.last = "click"]]
              /\ UNCHANGED vars
           \/ c.gate \in {"live", "once"} /\ Decided(w, c)
    /\ UNCHANGED height

ClickTip(w) ==
    LET k == card[w].click
    IN  /\ k.at = "tip"
        /\ \E t \in (k.from..height) \cup {None} :
              Decided(w, IF t = None \/ k.void THEN card[w]
                         ELSE Applied(w, Voids(card[w], "click"), Verdict(card[w].record, t), k.from))
        /\ UNCHANGED height

-----------------------------------------------------------------------------
\* The other answers, and a card that has no verdict to wait for.
ApproveNow(w) ==
    /\ Answered(w, TRUE)
    /\ w \in Watched => ApproveLive(w) /\ \A g \in Gates : ~Shows(w, g)
    /\ card' = [card EXCEPT ![w] = Kept(@)]
    /\ UNCHANGED height

Reject(w) ==
    /\ Answered(w, FALSE)
    /\ w \in Watched => RejectLive(w)
    /\ card' = [card EXCEPT ![w] = NoCard]
    /\ UNCHANGED height

TipAdvances ==
    /\ height < LastTip
    /\ \E w \in Windows : card[w].gate # "off"
    /\ height' = height + 1
    /\ UNCHANGED <<vars, card>>

Lands(w) == WarningsLand(w) \/ BalanceLands(w) \/ QuoteLands(w) \/ Arms(w)
Judges(w) == CheckLands(w) \/ ActLands(w) \/ RefreshTip(w) \/ RefreshRecord(w) \/ ClickTip(w)
Polling(w) == Queueing(PollStatus(w) \/ CloseEmpty(w)) \/ Polled(w) \/ Show(w)
Hears(w) == Queueing(Events(w))
Working(r) == Queueing(Worker(r))
Chooses(w) == \/ Queueing(Allowed("close") /\ CloseByUser(w))
              \/ ApproveVerdict(w) \/ ApproveNow(w) \/ Reject(w)
Told == Queueing(\E c \in replies : Outcome(c))
Resolves == Queueing(\E c \in clicks : Resolve(c))

RNext ==
    \/ \E r \in Requests : Queueing(Alone /\ Queue(r)) \/ Working(r)
    \/ \E w \in Windows : Lands(w) \/ Judges(w) \/ Polling(w) \/ Hears(w) \/ Chooses(w)
    \/ Told \/ Resolves \/ TipAdvances
    \/ Queueing(Allowed("review") /\ Review) \/ Queueing(Allowed("lock") /\ WalletMoves)

RSpec == RInit /\ [][RNext]_rvars

\* Awaits settle; Chrome delivers its callbacks and messages (there is one request,
\* so one condition covers them all); a window polls; the reads of a card end (all but
\* the balance have a timeout, and no button waits for the balance); and the user,
\* shown a window, eventually answers it or closes it.
RFairSpec ==
    /\ RSpec /\ WF_rvars(\E r \in Requests : Working(r)) /\ WF_rvars(\E w \in Windows : Hears(w))
    /\ WF_rvars(Told) /\ WF_rvars(Resolves)
    /\ \A w \in Windows : WF_rvars(Polling(w)) /\ WF_rvars(Chooses(w))
    /\ \A w \in Watched : WF_rvars(Lands(w)) /\ WF_rvars(Judges(w))

-----------------------------------------------------------------------------
\* With the cards between the queue and the click, one window holds the queue and
\* one approval signs once.
WindowInv == ReviewTypeOK /\ SignedOnce /\ OneWindow

\* A paint shows what the script goes by: the quote it will send, the shortfall that
\* keeps Approve down, the verdict that refuses.  A repaint of the same request
\* after an unlock never leaves a warning off a screen whose buttons answer.
ScreenIsTheReview ==
    \A w \in Watched : Painted(w) =>
       /\ card[w].preview = "ready" => card[w].amount = card[w].quote
       /\ card[w].short = card[w].box
       /\ card[w].verdict \in {"block", "warn"} => card[w].note = card[w].verdict

\* An approval that leaves the window carries the quote on the screen, read for this
\* very paint (RT-W2); a refusal on record when it leaves was overruled by a read of
\* the tip that started after the one behind the refusal; and no verdict is replaced
\* by one whose read started earlier, so what the click or the refresh found is not
\* undone by the older answer of the other (nfinAtClick, refreshNfinalize).
ApprovesWhatIsShown ==
    [][/\ \A c \in clicks' \ clicks : c.win \in Watched /\ c.approve =>
             LET k == card[c.win]
             IN  /\ "quote" \in PreviewsOf[c.req] => k.amount # None /\ k.quote = k.amount
                 /\ k.verdict = "block" => k.click.at = "tip" /\ k.click.from >= k.since
       /\ \A w \in Watched : card'[w].verdict # None => card'[w].since >= card[w].since]_rvars
=============================================================================
