--------------------------- MODULE TestnetTrader ---------------------------
(***************************************************************************)
(* The Binance spot testnet trader (app/services/testnet/trader.py): one   *)
(* asyncio task that quotes both sides of a book with real post-only       *)
(* orders on an exchange it can only reach through calls that fail.        *)
(*                                                                         *)
(* Every exchange call is one step: its effect on the exchange, the answer,*)
(* and what the code does with the answer up to its next await.  Between   *)
(* two steps the exchange may fill an order or be wiped, the kill switch   *)
(* may flip, the lab may be told to stop, and the process may crash.       *)
(*                                                                         *)
(* Data kept: an order has a side and a size of Size units; the exchange   *)
(* reports trades of one unit at one price; fees and prices are dropped,   *)
(* so "the target moved" is a free choice.  The record state "open" stands *)
(* for the code's open and partially_filled, which it treats alike.        *)
(* A signed request dies at the exchange after RECV_WINDOW_MS (5 s), before*)
(* the client gives up on it (10 s): a request never takes effect late.    *)
(***************************************************************************)
EXTENDS Integers, FiniteSets, SequencesExt, FiniteSetsExt

CONSTANTS
    MaxOrders,        \* orders the trader may place in a behaviour
    Size,             \* units per order
    StartBase,        \* testnet_initial_base
    StartQuote,       \* initial_quote_balance
    MaxBase,          \* max_position_base
    ConfirmAttempts,  \* _CANCEL_CONFIRM_ATTEMPTS
    StopAttempts,     \* tries of shutdown()
    Faults,           \* the kinds of failing call that may happen
    MaxFaults,        \* how many calls fail
    MaxKills,         \* how often the kill switch flips
    MaxResets,        \* how often the exchange is wiped
    MaxCrashes        \* how often the process dies and is started again

FaultKinds == { "get",           \* a GET is not answered
                "delete",        \* a DELETE is not answered, executed or not
                "post_lost",     \* a POST times out, executed or not
                "post_dropped",  \* the connection breaks after a POST was executed
                "post_refused",  \* the connection breaks before it is
                "rate", "rate_post",  \* 429 on a GET or DELETE, on a POST
                "auth",          \* the keys are revoked
                "stop_slow" }    \* stop() gives up waiting for the task

ASSUME TraderConstants ==
    /\ MaxOrders \in Nat \ {0} /\ Size \in Nat \ {0}
    /\ StartBase \in Nat /\ StartQuote \in Nat /\ MaxBase \in Nat
    /\ ConfirmAttempts \in Nat \ {0} /\ StopAttempts \in Nat \ {0}
    /\ Faults \subseteq FaultKinds
    /\ MaxFaults \in Nat /\ MaxKills \in Nat /\ MaxResets \in Nat /\ MaxCrashes \in Nat

VARIABLES
    \* the exchange
    ex,        \* ex[c]: the order with client id c, status "none" when it has no such order
    tape,      \* the account's trades: tape[i] is the order that trade i filled by one unit
    purged,    \* trades up to this id were deleted by a reset
    wiped,     \* history: the exchange was reset since the session opened
    \* the trader
    pc,        \* the call or the local step the task is at
    fr,        \* the locals of the functions on its stack
    state,     \* _state, what the status endpoint shows
    session,   \* _session: "none", "open", or "ended" (ended_at set, still current)
    orders,    \* _orders: the records of this session ("none": no record)
    next,      \* the next client order id
    ledger,    \* _last_trade_id, _first_trade_id (0: None) and _inventory
    needRec,   \* _need_reconcile
    live,      \* live sessions without an end in the repository
    \* its surroundings
    kill,      \* the kill switch
    stopping,  \* _stopping
    authOk,    \* the exchange accepts the keys
    left       \* what is left of the bounds

exvars == << ex, tape, purged >>
booked == << session, live, wiped, ledger >>
world == << kill, stopping, authOk >>
vars == << ex, tape, purged, wiped, pc, fr, state, session, orders, next,
           ledger, needRec, live, kill, stopping, authOk, left >>

Ids == 1..MaxOrders
Sides == {"bid", "ask"}
OpenStates == {"new", "open", "unknown"}                     \* OPEN_ORDER_STATES
FinalStates == {"filled", "cancelled", "rejected"}
NoOrder == [side |-> "bid", status |-> "none", done |-> 0]
NoRecord == [side |-> "bid", state |-> "none", known |-> FALSE, filled |-> 0]
Live == {c \in Ids : ex[c].status = "NEW"}
OpenRecords == {c \in Ids : orders[c].state \in OpenStates}  \* open_orders

\* The locals: who called cancel_all, which except clause is outermost, the
\* attempts left, the rest of the list being walked and the walk's sequel.
NoFrame == [caller |-> "iterate", scope |-> "step", again |-> FALSE, tries |-> 0,
            confirms |-> 0, todo |-> {}, listed |-> {}, then |-> "", cur |-> 0,
            side |-> "bid", targets |-> {}, kept |-> FALSE]

\* Every variable holds a value of its kind; above all the virtual balances
\* never go negative, whatever the exchange fills, and no order is booked
\* beyond its size (_apply_fill).
TypeOK ==
    /\ ex \in [Ids -> [side : Sides, status : {"none", "NEW", "FILLED", "CANCELED"},
                       done : 0..Size]]
    /\ tape \in Seq(Ids) /\ purged \in 0..Len(tape) /\ wiped \in BOOLEAN
    /\ fr \in [caller : {"iterate", "shutdown"}, scope : {"step", "reconcile", "cancel_all"},
               again : BOOLEAN, tries : 0..StopAttempts, confirms : 0..ConfirmAttempts,
               todo : SUBSET Ids, listed : SUBSET Ids,
               then : {"", "open", "resolve", "quote", "rec_history", "side", "ca_orders",
                       "ca_remaining", "ca_return"},
               cur : 0..MaxOrders, side : Sides, targets : SUBSET Sides, kept : BOOLEAN]
    /\ state \in {"starting", "running", "paused", "cancel_pending", "rate_limited",
                  "unavailable", "auth_failed", "stopped"}
    /\ session \in {"none", "open", "ended"}
    /\ orders \in [Ids -> [side : Sides, state : {"none"} \union OpenStates \union FinalStates,
                           known : BOOLEAN, filled : 0..Size]]
    /\ next \in 1..(MaxOrders + 1)
    /\ ledger \in [last : 0..Len(tape), first : 0..Len(tape), base : Nat, quote : Nat]
    /\ needRec \in BOOLEAN /\ live \in Nat
    /\ kill \in BOOLEAN /\ stopping \in BOOLEAN /\ authOk \in BOOLEAN
    /\ left \in [faults : 0..MaxFaults, kills : 0..MaxKills, resets : 0..MaxResets,
                 crashes : 0..MaxCrashes]

FreshLedger(last) == [last |-> last, first |-> 0, base |-> StartBase, quote |-> StartQuote]

Init ==
    /\ ex = [c \in Ids |-> NoOrder] /\ tape = << >> /\ purged = 0 /\ wiped = FALSE
    /\ pc = "loop" /\ fr = NoFrame /\ state = "starting" /\ session = "none"
    /\ orders = [c \in Ids |-> NoRecord] /\ next = 1 /\ ledger = FreshLedger(0)
    /\ needRec = FALSE /\ live = 0
    /\ kill = FALSE /\ stopping = FALSE /\ authOk = TRUE
    /\ left = [faults |-> MaxFaults, kills |-> MaxKills, resets |-> MaxResets,
               crashes |-> MaxCrashes]

-----------------------------------------------------------------------------
\* What the handlers do with an answer.

Goto(p) == pc' = p /\ fr' = fr
Enter(p, f) == pc' = p /\ fr' = f

\* _apply_fill, for n trades of one unit: the order's record.
ApplyFills(o, n) ==
    LET got == o.filled + n
    IN IF n = 0 THEN o
       ELSE [o EXCEPT !.filled = got,
                      !.state = IF got >= Size THEN "filled"
                                ELSE IF o.state = "unknown" THEN "open" ELSE o.state]

\* InventoryTracker.apply_fill for one unit: a fill that the virtual balance
\* cannot fund is refused, and _apply_fill ignores the refusal.
Settle(held, side) ==
    LET funded == IF side = "bid" THEN held.quote >= 1 ELSE held.base >= 1
        bought == IF ~funded THEN 0 ELSE IF side = "bid" THEN 1 ELSE -1
    IN [base |-> held.base + bought, quote |-> held.quote - bought]

\* The first trade id _read_fills asks for: fromId = _last_trade_id + 1.
FromIdTooHigh == Max({ledger.last, purged}) + 2   \* mutant
FromId == Max({ledger.last, purged}) + 1

\* _read_fills: every trade after _last_trade_id moves the cursor; the ones of
\* an order whose exchange id is not recorded are skipped for good.
Unread(c) == {i \in FromId..Len(tape) : tape[i] = c}
ReadFills(recs) ==
    LET fresh == {i \in FromId..Len(tape) : recs[tape[i]].known}
        held == FoldLeft(LAMBDA h, c : IF recs[c].known THEN Settle(h, recs[c].side) ELSE h,
                         [base |-> ledger.base, quote |-> ledger.quote],
                         SubSeq(tape, FromId, Len(tape)))
    IN [orders |-> [c \in Ids |-> IF recs[c].known
                                  THEN ApplyFills(recs[c], Cardinality(Unread(c))) ELSE recs[c]],
        ledger |-> [last |-> IF FromId <= Len(tape) THEN Len(tape) ELSE ledger.last,
                    first |-> IF ledger.first = 0 /\ fresh # {} THEN Min(fresh) ELSE ledger.first,
                    base |-> held.base, quote |-> held.quote]]

\* _apply_exchange_state.  A FILLED order whose fills have not all been read
\* keeps its state: "Fills arrive through myTrades".
ApplyExchangeStateNoCancel(o, status) ==   \* mutant: CANCELED is not in _STATUS_FINAL
    [o EXCEPT !.known = TRUE,
              !.state = IF status = "FILLED" /\ o.filled >= Size THEN "filled"
                        ELSE IF o.state = "unknown" THEN "open" ELSE o.state]
ApplyExchangeState(o, status) ==
    [o EXCEPT !.known = TRUE,
              !.state = CASE status = "NEW" -> IF o.state = "unknown" THEN "open" ELSE o.state
                          [] status = "FILLED" -> IF o.filled < Size THEN o.state ELSE "filled"
                          [] OTHER -> "cancelled"]

\* _adopt: the order is listed as open.
Adopt(o) == [o EXCEPT !.known = TRUE, !.state = IF o.state = "unknown" THEN "open" ELSE o.state]

\* The exchange's answer to a DELETE: a live order is cancelled, any other one
\* is an UnknownOrder error.
CancelAtExchange(c) == [ex EXCEPT ![c].status = IF @ = "NEW" THEN "CANCELED" ELSE @]
PlaceAtExchange(c) == [ex EXCEPT ![c] = [side |-> orders[c].side, status |-> "NEW", done |-> 0]]

\* filter_quotes_by_position_limit on a bid and an ask of Size units.
BidUnlimited == ledger.quote >= Size   \* mutant: the position cap is forgotten
BidAllowed == ledger.base + Size <= MaxBase /\ ledger.quote >= Size
AskAllowed == /\ ledger.base >= Size
              /\ (IF BidAllowed THEN ledger.base ELSE ledger.base - Size) <= MaxBase
Approved == {s \in Sides : IF s = "bid" THEN BidAllowed ELSE AskAllowed}

\* save_testnet_session with ended_at set; an ended one is written again as it is.
EndSession == session' = "ended" /\ live' = IF session = "open" THEN live - 1 ELSE live

\* cancel_all returns to _iterate or to shutdown; st is the state it left.
CancelAllReturns(ok, st) ==
    IF fr.caller = "iterate"
    THEN /\ state' = IF kill THEN (IF ok THEN "paused" ELSE "cancel_pending") ELSE st
         /\ Enter("loop", NoFrame) /\ UNCHANGED << session, live >>
    ELSE IF ok \/ fr.tries = 1
    THEN /\ state' = IF st # "cancel_pending" THEN "stopped" ELSE st
         /\ Enter("ended", NoFrame) /\ EndSession
    ELSE /\ state' = st
         /\ Enter("cancel_all", [fr EXCEPT !.tries = @ - 1, !.again = FALSE])
         /\ UNCHANGED << session, live >>

\* Where an exception of the given kind goes: the except clause of _cancel_all,
\* else the ones of _run.  AuthFailed passes through both and ends the task;
\* only startup's first signed call turns the state to auth_failed.
Raise(kind) ==
    CASE kind = "auth" ->
           /\ state' = IF pc = "account" THEN "auth_failed" ELSE state
           /\ Enter(IF fr.caller = "shutdown" THEN "ended" ELSE "shutdown", NoFrame)
           /\ UNCHANGED << session, live, needRec >>
      [] kind # "auth" /\ fr.scope = "cancel_all" ->
           needRec' = TRUE /\ CancelAllReturns(FALSE, "cancel_pending")
      [] kind = "rate" /\ fr.scope # "cancel_all" ->
           /\ state' = "rate_limited" /\ Enter("loop", NoFrame)
           /\ UNCHANGED << session, live, needRec >>
      [] kind = "unavailable" /\ fr.scope # "cancel_all" ->
           /\ state' = "unavailable" /\ needRec' = TRUE /\ Enter("loop", NoFrame)
           /\ UNCHANGED << session, live >>

\* _testnet_reset up to its first exchange call.
TestnetReset(recs) ==
    /\ orders' = [c \in Ids |-> IF recs[c].state \in OpenStates
                                THEN [recs[c] EXCEPT !.state = "cancelled"] ELSE recs[c]]
    /\ EndSession /\ Goto("reset_account")

-----------------------------------------------------------------------------
\* The steps of the task.  Calm: what no step of the trader changes; Local:
\* what a step without an exchange call leaves alone too.
Calm == UNCHANGED << tape, purged, kill, stopping, authOk >>
Local == Calm /\ UNCHANGED << ex, wiped, ledger, left >>

\* The while loop of _run, between two waits.
\* Mutant: the loop does not look at _stopping.
LoopForever ==
    /\ pc = "loop"
    /\ IF session = "none" THEN Goto("account") /\ state' = "starting"
       ELSE Goto("iterate") /\ UNCHANGED state
    /\ Local /\ UNCHANGED << session, orders, next, needRec, live >>
Loop ==
    /\ pc = "loop"
    /\ IF stopping THEN Goto("shutdown") /\ UNCHANGED state
       ELSE IF session = "none" THEN Goto("account") /\ state' = "starting"
       ELSE Goto("iterate") /\ UNCHANGED state
    /\ Local /\ UNCHANGED << session, orders, next, needRec, live >>

\* startup: sync_time, exchange_info and account; then the sessions an earlier
\* process left open in the repository are ended (_close_previous_sessions).
\* Mutant: they are not.
StartupAccountOnly ==
    /\ pc = "account" /\ authOk /\ Goto("leftovers")
    /\ Local /\ UNCHANGED << state, session, orders, next, needRec, live >>
StartupAccount ==
    /\ pc = "account" /\ authOk
    /\ Goto("leftovers") /\ live' = 0
    /\ Local /\ UNCHANGED << state, session, orders, next, needRec >>

\* _cancel_leftovers reads openOrders.
Leftovers ==
    /\ pc = "leftovers" /\ authOk
    /\ Enter("stray", [fr EXCEPT !.todo = Live, !.then = "open"])
    /\ Local /\ UNCHANGED << state, session, orders, next, needRec, live >>

\* The DELETE of one tagged order that has no record, in _cancel_leftovers and
\* _sync_orders; an UnknownOrder answer is skipped.
Stray ==
    /\ pc = "stray"
    /\ \/ /\ fr.todo # {} /\ authOk
          /\ LET c == Min(fr.todo)
             IN ex' = CancelAtExchange(c) /\ Enter("stray", [fr EXCEPT !.todo = @ \ {c}])
       \/ /\ fr.todo = {} /\ ex' = ex
          /\ Enter(fr.then, [fr EXCEPT
                !.then = IF fr.then = "resolve" THEN "quote" ELSE "",
                !.todo = IF fr.then = "resolve"
                         THEN {c \in Ids : orders[c].state \in {"open", "unknown"}} ELSE {}])
    /\ Calm /\ UNCHANGED << wiped, state, session, orders, next, ledger, needRec, live, left >>

\* _open_session: the newest trade id, then a fresh ledger and no records.
OpenSession ==
    /\ ledger' = FreshLedger(IF purged < Len(tape) THEN Len(tape) ELSE 0)
    /\ orders' = [c \in Ids |-> NoRecord]
    /\ session' = "open" /\ live' = live + 1 /\ wiped' = FALSE

StartupOpen ==
    /\ pc = "open" /\ authOk
    /\ OpenSession /\ state' = "running" /\ Enter("iterate", NoFrame)
    /\ Calm /\ UNCHANGED << ex, next, needRec, left >>

\* _iterate looks at the kill switch and at _stopping here and nowhere else.
\* Mutant: only at _stopping.
IterateUnlessStopping ==
    /\ pc = "iterate"
    /\ IF stopping THEN Enter("cancel_all", [fr EXCEPT !.scope = "cancel_all"])
       ELSE Goto("depth")
    /\ Local /\ UNCHANGED << state, session, orders, next, needRec, live >>
Iterate ==
    /\ pc = "iterate"
    /\ IF kill \/ stopping THEN Enter("cancel_all", [fr EXCEPT !.scope = "cancel_all"])
       ELSE Goto("depth")
    /\ Local /\ UNCHANGED << state, session, orders, next, needRec, live >>

\* GET depth, a public call.
Depth ==
    /\ pc = "depth" /\ Goto("fills")
    /\ Local /\ UNCHANGED << state, session, orders, next, needRec, live >>

Fills ==
    /\ pc = "fills" /\ authOk /\ Goto("list")
    /\ orders' = ReadFills(orders).orders /\ ledger' = ReadFills(orders).ledger
    /\ Calm /\ UNCHANGED << ex, wiped, state, session, next, needRec, live, left >>

\* _sync_orders reads openOrders; tagged orders without a record are strays.
List ==
    /\ pc = "list" /\ authOk
    /\ Enter("stray", [fr EXCEPT !.listed = Live, !.then = "resolve",
                                 !.todo = {c \in Live : orders[c].state = "none"}])
    /\ Local /\ UNCHANGED << state, session, orders, next, needRec, live >>

\* An order whose answer was lost and that the exchange does not know.
NeverReachedIfNew(o) == o.state = "new"   \* mutant
NeverReached(o) == o.state = "unknown" /\ ~o.known

\* One record of the walk that _sync_orders, _reconcile_once and _cancel_all
\* end with: a listed one is adopted, any other one is asked for
\* (_resolve_missing).
Resolve ==
    /\ pc = "resolve"
    /\ \/ /\ fr.todo # {} /\ Min(fr.todo) \in fr.listed
          /\ LET c == Min(fr.todo)
             IN /\ orders' = [orders EXCEPT ![c] = Adopt(@)]
                /\ Enter("resolve", [fr EXCEPT !.todo = @ \ {c}])
          /\ UNCHANGED << session, live >>
       \/ /\ fr.todo # {} /\ Min(fr.todo) \notin fr.listed /\ authOk
          /\ LET c == Min(fr.todo) IN
             IF ex[c].status # "none"
             THEN /\ orders' = [orders EXCEPT ![c] = ApplyExchangeState(@, ex[c].status)]
                  /\ Enter("resolve", [fr EXCEPT !.todo = @ \ {c}])
                  /\ UNCHANGED << session, live >>
             ELSE IF NeverReached(orders[c])
             THEN /\ orders' = [orders EXCEPT ![c].state = "rejected"]
                  /\ Enter("resolve", [fr EXCEPT !.todo = @ \ {c}])
                  /\ UNCHANGED << session, live >>
             ELSE TestnetReset(orders)
       \/ /\ fr.todo = {}
          /\ Enter(fr.then, [fr EXCEPT !.then = "", !.listed = {}])
          /\ UNCHANGED << orders, session, live >>
    /\ Local /\ UNCHANGED << state, next, needRec >>

\* _quote: the targets are the approved quotes that pass the minimums and are
\* fundable.  They are computed once, before the first cancel.
Quote ==
    /\ pc = "quote"
    /\ \E targets \in SUBSET Approved :
         /\ Cardinality(targets) <= MaxOrders - next + 1
         /\ Enter("side", [fr EXCEPT !.targets = targets, !.side = "bid", !.kept = FALSE,
                             !.todo = {c \in OpenRecords : orders[c].side = "bid"}])
    /\ Local /\ UNCHANGED << state, session, orders, next, needRec, live >>

\* The resting order the side loop of _quote is at: left alone while unknown,
\* kept if it is the first one near the target, else cancelled.
Resting ==
    /\ pc = "side" /\ fr.todo # {}
    /\ LET c == Min(fr.todo)
           rest == [fr EXCEPT !.todo = @ \ {c}]
       IN IF orders[c].state = "unknown" THEN Enter("side", rest)
          ELSE \/ Enter("delete", [rest EXCEPT !.cur = c, !.then = "side"])
               \/ /\ fr.side \in fr.targets /\ ~fr.kept
                  /\ Enter("side", [rest EXCEPT !.kept = TRUE])
    /\ Local /\ UNCHANGED << state, session, orders, next, needRec, live >>

NextSide ==
    IF fr.side = "bid"
    THEN Enter("side", [fr EXCEPT !.side = "ask", !.kept = FALSE, !.cur = 0,
                          !.todo = {c \in OpenRecords : orders[c].side = "ask"}])
    ELSE Enter("due", NoFrame)

\* The side is done: _place records a new order before it sends it, unless the
\* side has an order that is kept or whose fate is unknown.
\* Mutant: a kept order does not stop the side from placing.
WantsPlaceBesideKept ==
    /\ fr.side \in fr.targets
    /\ \A c \in Ids : ~(orders[c].side = fr.side /\ orders[c].state = "unknown")
WantsPlace ==
    /\ fr.side \in fr.targets /\ ~fr.kept
    /\ \A c \in Ids : ~(orders[c].side = fr.side /\ orders[c].state = "unknown")

SideDone ==
    /\ pc = "side" /\ fr.todo = {}
    /\ IF WantsPlace
       THEN /\ orders' = [orders EXCEPT ![next] = [NoRecord EXCEPT !.side = fr.side, !.state = "new"]]
            /\ next' = next + 1 /\ Enter("post", [fr EXCEPT !.cur = next])
       ELSE NextSide /\ UNCHANGED << orders, next >>
    /\ Local /\ UNCHANGED << state, session, needRec, live >>

\* POST order: acknowledged, or rejected by the exchange (post-only, filters,
\* balance; the last asks for a reconciliation).
Post ==
    /\ pc = "post" /\ authOk
    /\ \/ /\ ex' = PlaceAtExchange(fr.cur)
          /\ orders' = [orders EXCEPT ![fr.cur].state = "open", ![fr.cur].known = TRUE]
          /\ UNCHANGED needRec
       \/ /\ orders' = [orders EXCEPT ![fr.cur].state = "rejected"]
          /\ needRec' \in {needRec, TRUE} /\ ex' = ex
    /\ NextSide
    /\ Calm /\ UNCHANGED << wiped, state, session, next, ledger, live, left >>

\* _cancel: DELETE; when the order is not open any more, GET order tells why.
Delete ==
    /\ pc = "delete" /\ authOk
    /\ ex' = CancelAtExchange(fr.cur)
    /\ IF ex[fr.cur].status = "NEW"
       THEN /\ orders' = [orders EXCEPT ![fr.cur].state = "cancelled"]
            /\ Enter(fr.then, [fr EXCEPT !.then = ""])
       ELSE Goto("query") /\ UNCHANGED orders
    /\ Calm /\ UNCHANGED << wiped, state, session, next, ledger, needRec, live, left >>

Query ==
    /\ pc = "query" /\ authOk
    /\ LET status == ex[fr.cur].status IN
       CASE status = "none" -> TestnetReset(orders)
         [] status = "FILLED" -> Goto("refill") /\ UNCHANGED << orders, session, live >>
         [] OTHER -> /\ orders' = [orders EXCEPT ![fr.cur] = ApplyExchangeState(@, status)]
                     /\ Enter(fr.then, [fr EXCEPT !.then = ""])
                     /\ UNCHANGED << session, live >>
    /\ Local /\ UNCHANGED << state, next, needRec >>

\* cancel_too_late: the fills are read, then the answer of GET order applies.
Refill ==
    /\ pc = "refill" /\ authOk
    /\ LET read == ReadFills(orders)
       IN /\ orders' = [read.orders EXCEPT ![fr.cur] = ApplyExchangeState(@, "FILLED")]
          /\ ledger' = read.ledger
    /\ Enter(fr.then, [fr EXCEPT !.then = ""])
    /\ Calm /\ UNCHANGED << ex, wiped, state, session, next, needRec, live, left >>

\* The end of _iterate: a reconciliation when one is needed or due.
Due ==
    /\ pc = "due"
    /\ \/ /\ Enter("rec_account", [fr EXCEPT !.scope = "reconcile"])
          /\ needRec' = FALSE /\ UNCHANGED state
       \/ /\ ~needRec /\ Enter("loop", NoFrame) /\ state' = "running" /\ UNCHANGED needRec
    /\ Local /\ UNCHANGED << session, orders, next, live >>

\* _reconcile_once: sync_time and account, the orders of unknown fate, then
\* the session's first trade, which only a reset can remove.
ReconcileAccount ==
    /\ pc = "rec_account" /\ authOk
    /\ Enter("resolve", [fr EXCEPT !.then = "rec_history",
          !.todo = {c \in OpenRecords : orders[c].state = "unknown" \/ ~orders[c].known}])
    /\ Local /\ UNCHANGED << state, session, orders, next, needRec, live >>

ReconcileHistory ==
    /\ pc = "rec_history" /\ (ledger.first # 0 => authOk)
    /\ IF ledger.first # 0 /\ purged >= ledger.first
       THEN TestnetReset(orders) /\ UNCHANGED state
       ELSE /\ Enter("loop", NoFrame) /\ state' = "running"
            /\ UNCHANGED << orders, session, live >>
    /\ Local /\ UNCHANGED << next, needRec >>

-----------------------------------------------------------------------------
\* cancel_all and its callers.

StartCancelAll ==
    /\ pc = "cancel_all"
    /\ Enter("ca_orders", [fr EXCEPT !.scope = "cancel_all", !.todo = OpenRecords,
                                     !.confirms = ConfirmAttempts])
    /\ Local /\ UNCHANGED << state, session, orders, next, needRec, live >>

\* The recorded orders first, except the ones of unknown fate.
CancelRecorded ==
    /\ pc = "ca_orders"
    /\ IF fr.todo = {} THEN Goto("ca_confirm")
       ELSE LET c == Min(fr.todo)
                rest == [fr EXCEPT !.todo = @ \ {c}]
            IN IF orders[c].state = "unknown" THEN Enter("ca_orders", rest)
               ELSE Enter("delete", [rest EXCEPT !.cur = c, !.then = "ca_orders"])
    /\ Local /\ UNCHANGED << state, session, orders, next, needRec, live >>

\* Then openOrders, until it lists no tagged order.
\* Mutant: the recorded orders were cancelled, so none can be left.
ConfirmUnasked ==
    /\ pc = "ca_confirm" /\ authOk
    /\ Enter("resolve", [fr EXCEPT !.todo = OpenRecords, !.then = "ca_return"])
    /\ Local /\ UNCHANGED << state, session, orders, next, needRec, live >>
Confirm ==
    /\ pc = "ca_confirm" /\ authOk
    /\ IF Live = {} THEN Enter("resolve", [fr EXCEPT !.todo = OpenRecords, !.then = "ca_return"])
       ELSE Enter("ca_remaining", [fr EXCEPT !.todo = Live, !.confirms = @ - 1])
    /\ Local /\ UNCHANGED << state, session, orders, next, needRec, live >>

CancelRemaining ==
    /\ pc = "ca_remaining"
    /\ IF fr.todo = {}
       THEN /\ ex' = ex /\ UNCHANGED orders
            /\ IF fr.confirms > 0 THEN Goto("ca_confirm") /\ UNCHANGED << state, session, live >>
               ELSE CancelAllReturns(FALSE, "cancel_pending")
       ELSE LET c == Min(fr.todo)
                rest == [fr EXCEPT !.todo = @ \ {c}]
            IN /\ IF orders[c].state # "none"
                  THEN Enter("delete", [rest EXCEPT !.cur = c, !.then = "ca_remaining"]) /\ ex' = ex
                  ELSE authOk /\ ex' = CancelAtExchange(c) /\ Enter("ca_remaining", rest)
               /\ UNCHANGED << state, orders, session, live >>
    /\ Calm /\ UNCHANGED << wiped, next, ledger, needRec, left >>

CancelAllDone ==
    /\ pc = "ca_return" /\ CancelAllReturns(TRUE, state)
    /\ Local /\ UNCHANGED << orders, next, needRec >>

Shutdown ==
    /\ pc = "shutdown"
    /\ IF session = "none"
       THEN /\ state' = IF state # "auth_failed" THEN "stopped" ELSE state
            /\ Enter("ended", NoFrame)
       ELSE /\ Enter("cancel_all", [NoFrame EXCEPT !.caller = "shutdown", !.tries = StopAttempts])
            /\ UNCHANGED state
    /\ Local /\ UNCHANGED << session, orders, next, needRec, live >>

\* _testnet_reset after the old session was ended: account, then my_trades
\* inside _open_session, then _SessionReset is raised.
ResetAccount ==
    /\ pc = "reset_account" /\ authOk /\ Goto("reset_open")
    /\ Local /\ UNCHANGED << state, session, orders, next, needRec, live >>

ResetOpen ==
    /\ pc = "reset_open" /\ authOk /\ OpenSession
    /\ CASE fr.scope = "step" -> Enter("loop", NoFrame) /\ UNCHANGED state
         [] fr.scope = "reconcile" -> Enter("loop", NoFrame) /\ state' = "running"
         [] fr.scope = "cancel_all" /\ ~fr.again ->
              Enter("cancel_all", [fr EXCEPT !.again = TRUE]) /\ UNCHANGED state
         [] fr.scope = "cancel_all" /\ fr.again ->
              /\ Enter(IF fr.caller = "shutdown" THEN "ended" ELSE "loop", NoFrame)
              /\ UNCHANGED state
    /\ Calm /\ UNCHANGED << ex, next, needRec, left >>

-----------------------------------------------------------------------------
\* Calls that fail.
Spend(kind) == /\ kind \in Faults /\ left.faults > 0
               /\ left' = [left EXCEPT !.faults = @ - 1]

Asking == pc = "resolve" /\ fr.todo # {} /\ Min(fr.todo) \notin fr.listed
AtSignedGet == \/ pc \in {"account", "leftovers", "open", "fills", "list", "query", "refill",
                          "rec_account", "ca_confirm", "reset_account", "reset_open"}
               \/ Asking
               \/ pc = "rec_history" /\ ledger.first # 0
AtGet == AtSignedGet \/ pc = "depth"
AtDelete == \/ pc = "delete" \/ (pc = "stray" /\ fr.todo # {})
            \/ pc = "ca_remaining" /\ fr.todo # {} /\ orders[Min(fr.todo)].state = "none"
DeleteTarget == IF pc = "delete" THEN fr.cur ELSE Min(fr.todo)

GetFails ==
    /\ AtGet /\ Spend("get") /\ Raise("unavailable")
    /\ Calm /\ UNCHANGED << ex, wiped, orders, next, ledger >>

\* Mutant: an unanswered DELETE is recorded as a cancellation.
DeleteFailsOptimistic ==
    /\ AtDelete /\ Spend("delete") /\ Raise("unavailable")
    /\ ex' \in {ex, CancelAtExchange(DeleteTarget)}
    /\ orders' = [orders EXCEPT ![DeleteTarget].state = "cancelled"]
    /\ Calm /\ UNCHANGED << wiped, next, ledger >>
DeleteFails ==
    /\ AtDelete /\ Spend("delete") /\ Raise("unavailable")
    /\ ex' \in {ex, CancelAtExchange(DeleteTarget)}
    /\ Calm /\ UNCHANGED << wiped, orders, next, ledger >>

CallRateLimited ==
    /\ \/ (AtGet \/ AtDelete) /\ Spend("rate")
       \/ pc = "post" /\ Spend("rate_post")
    /\ Raise("rate")
    /\ Calm /\ UNCHANGED << ex, wiped, orders, next, ledger >>

\* _place catches TestnetUnavailable: a timeout leaves the order unknown, any
\* other transport error is taken to mean that it was not executed.
PostFails ==
    /\ pc = "post"
    /\ \/ /\ Spend("post_lost") /\ orders' = [orders EXCEPT ![fr.cur].state = "unknown"]
          /\ ex' \in {ex, PlaceAtExchange(fr.cur)}
       \/ /\ Spend("post_dropped") /\ orders' = [orders EXCEPT ![fr.cur].state = "rejected"]
          /\ ex' = PlaceAtExchange(fr.cur)
       \/ /\ Spend("post_refused") /\ orders' = [orders EXCEPT ![fr.cur].state = "rejected"]
          /\ ex' = ex
    /\ Raise("unavailable")
    /\ Calm /\ UNCHANGED << wiped, next, ledger >>

\* stop() waits 20 s for the task, then cancels it at the call it is at, which
\* may have been executed: _run goes to shutdown, and shutdown is cut short.
StopTimesOut ==
    /\ stopping /\ (AtGet \/ AtDelete \/ pc = "post") /\ Spend("stop_slow")
    /\ \/ ex' = ex
       \/ AtDelete /\ authOk /\ ex' = CancelAtExchange(DeleteTarget)
       \/ pc = "post" /\ authOk /\ ex' = PlaceAtExchange(fr.cur)
    /\ Enter(IF fr.caller = "shutdown" THEN "ended" ELSE "shutdown", NoFrame)
    /\ Calm /\ UNCHANGED << wiped, state, session, orders, next, ledger, needRec, live >>

AuthFails ==
    /\ ~authOk /\ (AtSignedGet \/ AtDelete \/ pc = "post") /\ Raise("auth")
    /\ Calm /\ UNCHANGED << ex, wiped, orders, next, ledger, left >>

-----------------------------------------------------------------------------
\* The surroundings.
Still == UNCHANGED << pc, fr, state, session, orders, next, ledger, needRec, live >>

Fill ==
    /\ \E c \in Live :
         /\ ex' = [ex EXCEPT ![c].done = @ + 1,
                             ![c].status = IF ex[c].done + 1 = Size THEN "FILLED" ELSE @]
         /\ tape' = Append(tape, c)
    /\ Still /\ UNCHANGED << purged, wiped, kill, stopping, authOk, left >>

\* The testnet deletes every order and the trade history.
ExchangeReset ==
    /\ left.resets > 0 /\ left' = [left EXCEPT !.resets = @ - 1]
    /\ ex' = [c \in Ids |-> NoOrder] /\ purged' = Len(tape) /\ wiped' = TRUE
    /\ Still /\ UNCHANGED << tape, kill, stopping, authOk >>

ToggleKill ==
    /\ left.kills > 0 /\ left' = [left EXCEPT !.kills = @ - 1] /\ kill' = ~kill
    /\ Still /\ UNCHANGED << ex, tape, purged, wiped, stopping, authOk >>

Stop ==
    /\ ~stopping /\ stopping' = TRUE
    /\ Still /\ UNCHANGED << ex, tape, purged, wiped, kill, authOk, left >>

RevokeKeys ==
    /\ "auth" \in Faults /\ authOk /\ authOk' = FALSE
    /\ Still /\ UNCHANGED << ex, tape, purged, wiped, kill, stopping, left >>

\* The process dies (a POST on the wire may still be executed) and is started
\* again: everything in memory is gone, the kill switch included.
Crash ==
    /\ left.crashes > 0 /\ left' = [left EXCEPT !.crashes = @ - 1]
    /\ ex' \in {ex} \union (IF pc = "post" /\ authOk THEN {PlaceAtExchange(fr.cur)} ELSE {})
    /\ pc' = "loop" /\ fr' = NoFrame /\ state' = "starting" /\ session' = "none"
    /\ orders' = [c \in Ids |-> NoRecord] /\ ledger' = FreshLedger(0) /\ needRec' = FALSE
    /\ kill' = FALSE /\ stopping' = FALSE
    /\ UNCHANGED << tape, purged, wiped, next, live, authOk >>

\* The task has returned; nothing runs any more.
Ended == pc = "ended" /\ UNCHANGED vars

Answered ==
    \/ Loop \/ StartupAccount \/ Leftovers \/ Stray \/ StartupOpen \/ Iterate
    \/ Depth \/ Fills \/ List \/ Resolve \/ Quote \/ Resting \/ SideDone \/ Post
    \/ Delete \/ Query \/ Refill \/ Due \/ ReconcileAccount \/ ReconcileHistory
    \/ StartCancelAll \/ CancelRecorded \/ Confirm \/ CancelRemaining \/ CancelAllDone
    \/ Shutdown \/ ResetAccount \/ ResetOpen
Failed == GetFails \/ DeleteFails \/ CallRateLimited \/ PostFails \/ AuthFails \/ StopTimesOut
Trader == Answered \/ Failed
World == Fill \/ ExchangeReset \/ ToggleKill \/ Stop \/ RevokeKeys \/ Crash

Next == Trader \/ World \/ Ended
Spec == Init /\ [][Next]_vars
\* A task on the event loop runs when it can, and every call ends: it is
\* answered or fails within the client's timeout.
FairSpec == Spec /\ WF_vars(Trader)

-----------------------------------------------------------------------------
\* Properties.

\* At most one lab order per side is live at the exchange: _quote never places
\* beside an order it has kept, failed to cancel, or not heard of again.
OneOrderPerSide ==
    \A c, d \in Live : ex[c].side = ex[d].side => c = d

\* An order whose record says filled, cancelled or rejected is not live at the
\* exchange: nothing the trader has written off can still trade.
WrittenOffIsDead ==
    \A c \in Live : orders[c].state \notin FinalStates

\* FR-010: every trade of a session's order that _last_trade_id has passed was
\* booked on that order, once.  The cursor never skips a fill; only one that a
\* reset deleted before it was read may be missing.
Passed(c, from) == Cardinality({i \in from..ledger.last : tape[i] = c})
NoFillSkipped ==
    \A c \in Ids : orders[c].state # "none" =>
        orders[c].filled \in Passed(c, purged + 1)..Passed(c, 1)

\* The position stays within max_position_base plus one order: the targets of
\* _quote, computed before its cancels, may be one fill out of date, never two
\* (FR-009 allows no excess at all).
OvershootBounded == ledger.base <= Max({MaxBase, StartBase}) + Size

\* FR-015: the status turns to paused, or to stopped after a session, only
\* when the exchange holds no lab order.
QuietOnlyWhenConfirmed ==
    [][(/\ state' # state /\ state' \in {"paused", "stopped"}
        /\ session # "none") => Live' = {}]_vars

\* FR-016: a session ends for a reset only if the exchange was reset during it.
ResetsAreReal == pc = "reset_account" => wiped

\* FR-016, FR-024: the repository never holds two live sessions without an end.
OneLiveSession == live <= 1

\* FR-015: a kill switch that stays on clears the exchange and is confirmed.
KillClears ==
    <>[](kill /\ ~stopping /\ authOk) => <>[](Live = {} /\ state = "paused")

\* stop() ends the task: no failed call and no reset keeps shutdown waiting.
StopEnds == stopping ~> (pc = "ended" \/ ~stopping)

\* SC-001: a recorded order that is no longer live at the exchange is settled,
\* unless the task ends first, the kill switch keeps the trader from reading
\* fills, or the cursor has skipped one of the order's.
OrdersSettle ==
    \A c \in Ids : (orders[c].state \in {"open", "unknown"} /\ c \notin Live)
        ~> \/ orders[c].state \notin {"open", "unknown"}
           \/ orders[c].filled < Passed(c, 1) \/ kill \/ pc = "ended"
=============================================================================
