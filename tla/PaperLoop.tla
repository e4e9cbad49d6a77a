------------------------------ MODULE PaperLoop ------------------------------
(***************************************************************************)
(* The paper market-maker loop (app/services/market_maker_loop.py) with    *)
(* its broker (execution/paper_broker.py, fill_model.py), risk limits,     *)
(* kill switch and the operator's live pair switch.                        *)
(*                                                                         *)
(* Everything runs on one asyncio event loop, so an action is the code     *)
(* between two awaits.  The loop awaits the order book, the DEX reads, the *)
(* V3 read and the flash-arb simulation; what follows the last of them     *)
(* (fills, quotes, persist_tick, commit) runs without a suspension and is  *)
(* one step here.  Cancelling the task ends it at the await it is in.      *)
(*                                                                         *)
(* Sizes are whole lots.  Cash is counted in ten-thousandths of the quote  *)
(* currency, so that a fee in basis points is a whole number.              *)
(***************************************************************************)
EXTENDS Integers, FiniteSets

CONSTANTS
  Pairs, FirstPair,       \* tradable pairs; the one in the SYMBOL setting
  Operators,              \* concurrent POST /live/pair requests
  Prices,                 \* prices a book or a quote may show
  QuoteSize,              \* settings.quote_size, in lots
  InitialQuote,           \* settings.initial_quote_balance
  MakerFeeBps, MaxPositionBase, MaxPositionNotional,
  FillMode,               \* "full", "partial", "latency" or "calibrated"
  FillLatency,            \* settings.fill_latency_ticks
  CertainFill,            \* fill_probability = 1
  Venues,                 \* which of "dex", "v3", "arb" the settings enable
  MaxErrors,              \* _max_consecutive_errors
  MaxTicks, MaxSwitches   \* bounds of the exploration

Modes == {"full", "partial", "latency", "calibrated"}

ASSUME LoopConstants ==
  /\ FirstPair \in Pairs
  /\ Prices \subseteq Nat \ {0}
  /\ QuoteSize \in Nat \ {0}
  /\ InitialQuote \in Nat
  /\ MakerFeeBps \in 0..10000
  /\ MaxPositionBase \in Nat
  /\ MaxPositionNotional \in Nat
  /\ FillMode \in Modes
  /\ FillLatency \in Nat \ {0}
  /\ CertainFill \in BOOLEAN
  /\ Venues \in {{}, {"dex"}, {"dex", "v3"}, {"dex", "v3", "arb"}}
  /\ MaxErrors \in Nat \ {0}
  /\ MaxTicks \in Nat
  /\ MaxSwitches \in Nat

VARIABLES
  pair,       \* _settings.symbol; strategy and data source are built for it
  broker,     \* _broker: base, quote, open quotes by side, side listed first
  kill,       \* _kill_switch.active
  running,    \* _running
  errors,     \* _consecutive_errors
  tick,       \* the task: where it waits, its locals
  snapshot,   \* _last_snapshot
  lp,         \* _lp_book: how many fresh observations it has absorbed
  lpSaved,    \* the latest lp_state row, in the same measure
  drift,      \* auxiliary: observations left in the LP book since that row
  saved,      \* the position this broker last persisted (fresh before any)
  request,    \* live pair requests in progress
  ticks, switches   \* counters of the exploration

vars == <<pair, broker, kill, running, errors, tick, snapshot, lp, lpSaved,
          drift, saved, request, ticks, switches>>

-----------------------------------------------------------------------------
(* Order books, quotes and the broker. *)

Sides == {"bid", "ask"}

NoBook == [stale |-> TRUE, bid |-> 0, ask |-> 0, bidSize |-> 0, askSize |-> 0]

(* A usable book has both sides and its best bid below its best ask; a live *)
(* one may also come back with a side missing, a stale one with no levels.  *)
FullBooks ==
  {b \in [stale : BOOLEAN, bid : Prices, ask : Prices,
          bidSize : 1..QuoteSize, askSize : 1..QuoteSize] : b.bid < b.ask}

Books == FullBooks \cup {NoBook, [NoBook EXCEPT !.stale = FALSE]}

HasMid(b) == b.bid > 0 /\ b.ask > 0

NoQuote == [pair |-> FirstPair, price |-> 0, size |-> 0, streak |-> 0]

NoQuotes == [s \in Sides |-> NoQuote]

Resting(b, s) == b.open[s].size > 0

FreshBroker ==
  [base |-> 0, quote |-> InitialQuote, open |-> NoQuotes, first |-> "bid"]

Position(b) == [base |-> b.base, quote |-> b.quote]

Cost(price, n) == (10000 + MakerFeeBps) * (price * n)

Proceeds(price, n) == (10000 - MakerFeeBps) * (price * n)

CancelAllQuotes(b) == [b EXCEPT !.open = NoQuotes]

-----------------------------------------------------------------------------
(* Fills: detect_fills and _book_fills. *)

Crossed(s, q, book) ==
  /\ HasMid(book)
  /\ IF s = "bid" THEN book.ask <= q.price ELSE book.bid >= q.price

(* Every resting quote is evaluated against the book: its crossing streak   *)
(* grows, or starts again from zero.                                        *)
Evaluate(b, book) ==
  [b EXCEPT !.open = [s \in Sides |->
     IF Resting(b, s)
       THEN [b.open[s] EXCEPT !.streak =
               IF Crossed(s, b.open[s], book) THEN @ + 1 ELSE 0]
       ELSE b.open[s]]]

LatencyMet(q) == q.streak >= FillLatency

TopOfBook(s, q, book) ==
  LET opposing == IF s = "bid" THEN book.askSize ELSE book.bidSize
  IN  IF q.size <= opposing THEN q.size ELSE opposing

(* The sizes an evaluated quote may fill for; 0 is no fill.  The draws of   *)
(* the latency and the calibrated model are left open.                      *)
FillSizes(s, q, book) ==
  CASE q.size = 0 \/ ~HasMid(book) -> {0}
    [] q.size > 0 /\ HasMid(book) /\ ~Crossed(s, q, book) ->
         IF FillMode = "calibrated" THEN {0, q.size} ELSE {0}
    [] q.size > 0 /\ HasMid(book) /\ Crossed(s, q, book) ->
         CASE FillMode \in {"full", "calibrated"} -> {q.size}
           [] FillMode = "partial" -> {TopOfBook(s, q, book)}
           [] FillMode = "latency" ->
                IF ~LatencyMet(q) THEN {0}
                ELSE IF CertainFill THEN {TopOfBook(s, q, book)}
                ELSE {0, TopOfBook(s, q, book)}

Remainder(q, n) ==
  IF q.size > n THEN [q EXCEPT !.size = @ - n, !.streak = 0] ELSE NoQuote

(* InventoryTracker.apply_fill: a fill the balances cannot pay is refused   *)
(* and the quote stays.                                                     *)
ApplyFill(b, s, n) ==
  LET q == b.open[s] IN
  IF \/ n = 0
     \/ s = "bid" /\ b.quote < Cost(q.price, n)
     \/ s = "ask" /\ b.base < n
    THEN b
    ELSE [b EXCEPT
            !.base = IF s = "bid" THEN @ + n ELSE @ - n,
            !.quote = IF s = "bid" THEN @ - Cost(q.price, n)
                                   ELSE @ + Proceeds(q.price, n),
            !.open[s] = Remainder(q, n)]

Other(s) == IF s = "bid" THEN "ask" ELSE "bid"

(* The fills are booked in the order of the open-quote list. *)
BookFills(b, sizes) ==
  ApplyFill(ApplyFill(b, b.first, sizes[b.first]),
            Other(b.first), sizes[Other(b.first)])

-----------------------------------------------------------------------------
(* Quotes: filter_quotes_by_position_limit and submit_quotes. *)

Abs(n) == IF n < 0 THEN -n ELSE n

WithinLimits(base, price) ==
  Abs(base) <= MaxPositionBase /\ Abs(base * price) <= MaxPositionNotional

(* Mutant: the fee is not reserved. *)
BidApprovedBeforeFee(b, price) ==
  WithinLimits(b.base + QuoteSize, price) /\ b.quote >= 10000 * (price * QuoteSize)

(* Mutant: the caps are checked on the position before the fill. *)
BidApprovedOnPosition(b, price) ==
  WithinLimits(b.base, price) /\ b.quote >= Cost(price, QuoteSize)

BidApproved(b, price) ==
  /\ WithinLimits(b.base + QuoteSize, price)
  /\ b.quote >= Cost(price, QuoteSize)

(* The ask is checked after the bid, from the position the bid would give.  *)
AskApproved(b, bidPrice, price) ==
  /\ WithinLimits((IF BidApproved(b, bidPrice) THEN b.base + QuoteSize
                                               ELSE b.base) - QuoteSize, price)
  /\ b.base >= QuoteSize

(* Mutant: every tick replaces every quote. *)
KeptNever(b, s) == FALSE

(* Only the latency model keeps a crossed quote resting. *)
Kept(b, s) == FillMode = "latency" /\ b.open[s].streak > 0

Submit(b, approved, price) ==
  [b EXCEPT
     !.open = [s \in Sides |->
        IF Kept(b, s) THEN b.open[s]
        ELSE IF s \in approved
          THEN [pair |-> tick.pair, price |-> price[s], size |-> QuoteSize,
                streak |-> 0]
          ELSE NoQuote],
     !.first = IF Kept(b, "ask") /\ ~Kept(b, "bid") THEN "ask" ELSE "bid"]

(* A strategy quotes one bid below one ask around the mid; where exactly    *)
(* (spread, inventory skew, volatility) is left open.                       *)
Quoted(b, book) ==
  IF ~HasMid(book)
    THEN {Submit(b, {}, [s \in Sides |-> 0])}
    ELSE {Submit(b,
            {s \in Sides : IF s = "bid" THEN BidApproved(b, p.bid)
                                        ELSE AskApproved(b, p.bid, p.ask)},
            p) : p \in {p \in [Sides -> Prices] : p.bid < p.ask}}

(* The brokers that the fill, quote and cancel part of a tick may leave.    *)
AfterTick(book) ==
  IF book.stale
    THEN {CancelAllQuotes(broker)}
    ELSE LET seen == Evaluate(broker, book)
             filled == {BookFills(seen, [s \in Sides |->
                            IF s = "bid" THEN f[1] ELSE f[2]]) :
                          f \in FillSizes("bid", seen.open["bid"], book)
                                \X FillSizes("ask", seen.open["ask"], book)}
         IN  IF kill
               THEN {CancelAllQuotes(b) : b \in filled}
               ELSE UNION {Quoted(b, book) : b \in filled}

-----------------------------------------------------------------------------
(* The task. *)

NoCheckpoint == -1

AtIdle == [at |-> "idle", pair |-> FirstPair, book |-> NoBook,
           checkpoint |-> NoCheckpoint]

AtOff == [AtIdle EXCEPT !.at = "off"]

Idle == [phase |-> "none", target |-> FirstPair, was |-> FALSE]

Init ==
  /\ pair = FirstPair
  /\ broker = FreshBroker
  /\ kill = FALSE
  /\ running = TRUE
  /\ errors = 0
  /\ tick = AtIdle
  /\ snapshot = NoBook
  /\ lp = 0
  /\ lpSaved = 0
  /\ drift = 0
  /\ saved = Position(FreshBroker)
  /\ request = [o \in Operators |-> Idle]
  /\ ticks = 0
  /\ switches = 0

(* _run after a failed tick: back off, or give up after MaxErrors in a row. *)
GivesUp(n) == n >= MaxErrors

TickFailed ==
  /\ errors' = errors + 1
  /\ IF GivesUp(errors + 1)
       THEN running' = FALSE /\ tick' = AtOff
       ELSE tick' = AtIdle /\ UNCHANGED running

(* Mutant: a failed tick leaves the broker as the tick made it. *)
RestoreNothing(checkpoint, dirty) == dirty

RestoreCheckpoint(checkpoint, dirty) == checkpoint

(* Mutant: a failed tick leaves the LP book stepped. *)
RestoreLpNothing(checkpoint, book) == book

RestoreLp(checkpoint, book) == IF checkpoint = NoCheckpoint THEN book ELSE checkpoint

(* persist_tick: every row of the tick in one transaction.  Of the rows only *)
(* the position and, when the tick has one, the LP state are read back.      *)
PersistTick(after, mem, check) ==
  /\ saved' = Position(after)
  /\ lpSaved' = IF check = NoCheckpoint THEN lpSaved ELSE mem
  /\ drift' = IF check = NoCheckpoint THEN drift ELSE 0

(* The end of _tick_once: book the tick on the broker, write it in one      *)
(* transaction and commit, or restore both books and fail.  `book` is the   *)
(* tick's snapshot, `mem` the LP book, `check` its checkpoint (none when    *)
(* the tick has no LP state to write).                                      *)
Conclude(book, mem, check) ==
  \E after \in AfterTick(book) :
    \/ /\ broker' = after
       /\ lp' = mem
       /\ PersistTick(after, mem, check)
       /\ errors' = 0
       /\ tick' = AtIdle
       /\ UNCHANGED running
    \/ /\ broker' = RestoreCheckpoint(broker, after)
       /\ lp' = RestoreLp(check, mem)
       /\ TickFailed
       /\ UNCHANGED <<saved, lpSaved, drift>>

StartTick ==
  /\ tick.at = "idle" /\ running
  /\ ticks < MaxTicks
  /\ ticks' = ticks + 1
  /\ tick' = [AtIdle EXCEPT !.at = "book", !.pair = pair]
  /\ UNCHANGED <<pair, broker, kill, running, errors, snapshot, lp, lpSaved,
                 drift, saved, request, switches>>

FetchBook ==
  /\ tick.at = "book"
  /\ \E b \in Books :
       /\ snapshot' = b
       /\ IF "dex" \in Venues
            THEN /\ tick' = [tick EXCEPT !.at = "dex", !.book = b]
                 /\ UNCHANGED <<broker, running, errors, lp, lpSaved, drift, saved>>
            ELSE Conclude(b, lp, NoCheckpoint)
  /\ UNCHANGED <<pair, kill, request, ticks, switches>>

FetchDex ==
  /\ tick.at = "dex"
  /\ IF "v3" \in Venues
       THEN /\ tick' = [tick EXCEPT !.at = "v3"]
            /\ UNCHANGED <<broker, running, errors, lp, lpSaved, drift, saved>>
       ELSE Conclude(tick.book, lp, NoCheckpoint)
  /\ UNCHANGED <<pair, kill, snapshot, request, ticks, switches>>

FetchFails ==
  /\ tick.at \in {"book", "dex"}
  /\ TickFailed
  /\ UNCHANGED <<pair, broker, kill, snapshot, lp, lpSaved, drift, saved, request,
                 ticks, switches>>

(* _v3_step: no snapshot, or one the LP book steps on after a checkpoint;   *)
(* only a fresh observation moves the book.                                 *)
FetchV3 ==
  /\ tick.at = "v3"
  /\ \/ Conclude(tick.book, lp, NoCheckpoint)
     \/ \E mem \in {lp, lp + 1} :
          IF "arb" \in Venues
            THEN /\ tick' = [tick EXCEPT !.at = "arb", !.checkpoint = lp]
                 /\ lp' = mem
                 /\ UNCHANGED <<broker, running, errors, lpSaved, drift, saved>>
            ELSE Conclude(tick.book, mem, lp)
  /\ UNCHANGED <<pair, kill, snapshot, request, ticks, switches>>

(* _v3_step catches nothing: the fetch, lp_book.step (also after it has      *)
(* accrued) or the scan behind it may raise out of the tick, before the      *)
(* part that restores the books.                                            *)
V3StepFails ==
  /\ tick.at = "v3"
  /\ \E mem \in {lp, lp + 1} :
       /\ lp' = mem
       /\ drift' = drift + (mem - lp)
  /\ TickFailed
  /\ UNCHANGED <<pair, broker, kill, snapshot, lpSaved, saved, request, ticks,
                 switches>>

(* The simulation ends in its thread; it never fails the tick. *)
FlashArb ==
  /\ tick.at = "arb"
  /\ Conclude(tick.book, lp, tick.checkpoint)
  /\ UNCHANGED <<pair, kill, snapshot, request, ticks, switches>>

-----------------------------------------------------------------------------
(* The operator. *)

(* What the tick in progress has put into the LP book.  Cancelled in the     *)
(* flash-arb wait, a tick leaves it there.                                   *)
Stepped == IF tick.at = "arb" THEN lp - tick.checkpoint ELSE 0

(* Mutant: quotes are left to the next tick. *)
SetKillSwitchOnly(active) ==
  /\ tick.at # "closed"
  /\ kill' = active
  /\ UNCHANGED <<pair, broker, running, errors, tick, snapshot, lp, lpSaved,
                 drift, saved, request, ticks, switches>>

SetKillSwitch(active) ==
  /\ tick.at # "closed"
  /\ kill' = active
  /\ broker' = IF active THEN CancelAllQuotes(broker) ELSE broker
  /\ UNCHANGED <<pair, running, errors, tick, snapshot, lp, lpSaved, drift, saved,
                 request, ticks, switches>>

(* switch_symbol up to its probe of the new pair: the task is cancelled.    *)
SwitchBegin(o, target) ==
  /\ tick.at # "closed" /\ switches < MaxSwitches
  /\ request[o].phase = "none"
  /\ target # pair
  /\ switches' = switches + 1
  /\ request' = [request EXCEPT ![o] =
                   [phase |-> "probing", target |-> target, was |-> running]]
  /\ running' = FALSE
  /\ tick' = AtOff
  /\ drift' = drift + Stepped
  /\ UNCHANGED <<pair, broker, kill, errors, snapshot, lp, lpSaved, saved, ticks>>

(* Mutant: asks whether the loop runs after having stopped it. *)
RestartsIfRunning(o) == running

Restarts(o) == request[o].was /\ ~running

(* The probe has answered or failed; either way the pair is replaced.  The  *)
(* scale keeps quote size and position limit in proportion, so both stay    *)
(* what they are when counted in lots.                                      *)
SwitchFinish(o) ==
  /\ request[o].phase = "probing"
  /\ pair' = request[o].target
  /\ broker' = FreshBroker
  /\ saved' = Position(FreshBroker)
  /\ snapshot' = NoBook
  /\ request' = [request EXCEPT ![o] = Idle]
  /\ IF Restarts(o)
       THEN running' = TRUE /\ tick' = AtIdle
       ELSE UNCHANGED <<running, tick>>
  /\ UNCHANGED <<kill, errors, lp, lpSaved, drift, ticks, switches>>

(* The server lets running requests finish before it stops the loop. *)
Stop ==
  /\ tick.at # "closed"
  /\ \A o \in Operators : request[o].phase = "none"
  /\ running' = FALSE
  /\ tick' = [AtIdle EXCEPT !.at = "closed"]
  /\ drift' = drift + Stepped
  /\ UNCHANGED <<pair, broker, kill, errors, snapshot, lp, lpSaved, saved,
                 request, ticks, switches>>

Stopped == tick.at = "closed" /\ UNCHANGED vars

Task == \/ StartTick \/ FetchBook \/ FetchDex \/ FetchFails
        \/ FetchV3 \/ V3StepFails \/ FlashArb

Next ==
  \/ Task
  \/ \E active \in BOOLEAN : SetKillSwitch(active)
  \/ \E o \in Operators : (\E target \in Pairs : SwitchBegin(o, target))
                          \/ SwitchFinish(o)
  \/ Stop \/ Stopped

Spec == Init /\ [][Next]_vars

(* A ready task is run and a probe is answered (it has its own timeouts).   *)
FairSpec ==
  Spec /\ WF_vars(Task) /\ \A o \in Operators : WF_vars(SwitchFinish(o))

-----------------------------------------------------------------------------
(* Properties. *)

Quotes == [pair : Pairs, price : Prices \cup {0}, size : 0..QuoteSize, streak : Nat]

Brokers == [base : Nat, quote : Nat, open : [Sides -> Quotes], first : Sides]

(* Every variable holds a value of its kind: balances are never negative,   *)
(* no quote is larger than the quote size, and the error count never goes   *)
(* past the limit at which the loop gives up.                               *)
TypeOK ==
  /\ pair \in Pairs
  /\ broker \in Brokers
  /\ kill \in BOOLEAN
  /\ running \in BOOLEAN
  /\ errors \in 0..MaxErrors
  /\ tick \in [at : {"off", "idle", "book", "dex", "v3", "arb", "closed"},
               pair : Pairs, book : Books, checkpoint : Nat \cup {NoCheckpoint}]
  /\ snapshot \in Books
  /\ lp \in Nat /\ lpSaved \in Nat /\ drift \in Nat
  /\ saved \in [base : Nat, quote : Nat]
  /\ request \in [Operators -> [phase : {"none", "probing"}, target : Pairs,
                                was : BOOLEAN]]
  /\ ticks \in 0..MaxTicks /\ switches \in 0..MaxSwitches

Funded(b) ==
  /\ Resting(b, "bid") =>
       b.quote >= Cost(b.open["bid"].price, b.open["bid"].size)
  /\ Resting(b, "ask") => b.base >= b.open["ask"].size

(* Cumulative cash reservation: whatever rests in the book can be paid for, *)
(* fees included, so apply_fill never refuses a detected fill, in every     *)
(* fill mode and also for quotes kept from earlier ticks.                   *)
RestingIsFunded == Funded(broker)

Capped(b) ==
  /\ b.base <= MaxPositionBase
  /\ Resting(b, "bid") =>
       WithinLimits(b.base + b.open["bid"].size, b.open["bid"].price)

(* The position caps hold for the position and for what it becomes when the *)
(* resting bid fills, although the filter only looks at each tick's quotes  *)
(* and the latency model keeps quotes of earlier ticks.                     *)
PositionCapped == Capped(broker)

(* While the kill switch is on no quote rests, through failed ticks that    *)
(* restore the broker, ticks in flight when it is set and pair switches.    *)
KillMeansNoQuotes == kill => broker.open = NoQuotes

(* The broker's balances are those of the last persisted tick: a tick that  *)
(* fails leaves no trace in memory.                                         *)
BookIsSaved == Position(broker) = saved

(* The LP book is ahead of its last row by what the tick in progress has put *)
(* into it and by what ticks that raised in their V3 step, or were cancelled *)
(* behind it, have left there since that row; a refused commit leaves nothing*)
(* ("the LP book gets the same checkpoint/restore on a failed persist"), and *)
(* the next row written with an LP state catches up with all of it.          *)
LpIsSaved == lp = lpSaved + drift + Stepped

(* In the latency model a quote the market has crossed stays, one tick      *)
(* older, although the strategy re-quotes on every tick, until a fill, the  *)
(* end of the cross, the kill switch, a stale tick or a pair switch takes   *)
(* it away; with certain fills it fills on its FillLatency-th crossed tick. *)
CrossedQuoteMatures ==
  [][\A s \in Sides :
       LET q == broker.open[s]  r == broker'.open[s] IN
       FillMode = "latency" /\ q.size > 0 /\ r # q =>
         \/ /\ r = [q EXCEPT !.streak = @ + 1]
            /\ CertainFill => r.streak < FillLatency
         \/ Position(broker') # Position(broker)
         \/ kill' \/ snapshot'.stale \/ pair' # pair
         \/ ~Crossed(s, q, snapshot')]_vars

(* A pair switch that found the loop running sets it running again.         *)
SwitchRestarts ==
  \A o \in Operators :
    (request[o].phase = "probing" /\ request[o].was) ~> running
=============================================================================
