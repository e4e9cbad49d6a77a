----------------------------- MODULE ShadowEval -----------------------------
(* The paper shadow books of a testnet session, the recording made of it, and *)
(* what is computed from the recording afterwards (app/services/testnet:      *)
(* shadow.py, recorded.py, replay.py, comparison.py; app/execution:           *)
(* fill_model.py, fill_calibration.py; TestnetTrader._iterate).               *)
(*                                                                            *)
(* A session takes snapshots of the exchange's book and, between them, places *)
(* and cancels orders, which the exchange fills when it likes.  Every         *)
(* snapshot is shown to one shadow book per fill model and is saved as a      *)
(* tick; the shadows' fills are saved later in the same iteration.  After the *)
(* session, replaying the ticks must give the fills the shadows made, and the *)
(* looks at an order are labelled by its first real fill to fit the model.    *)
(*                                                                            *)
(* Orders are marked when they change and written by a flush at the end of an *)
(* iteration; fills are written as they are read.  Any of these writes may    *)
(* fail, and none is tried again: the marks are dropped and the cursor moved  *)
(* before it.                                                                 *)
(*                                                                            *)
(* Prices are ticks of the book, volatility is left squared, and a chance is  *)
(* a number of Units that grows with time, volatility and nearness, as        *)
(* 1 - exp(-rate * dt) does.  Lost answers to orders are in TestnetTrader.    *)
EXTENDS Integers, Sequences, FiniteSets, FiniteSetsExt, SequencesExt

CONSTANTS
  MaxOrders,            \* orders of a session
  MaxTicks,             \* snapshots of a session
  MaxTime,              \* bound of the clock
  MaxFailures,          \* calls and writes that fail
  OrderSize,            \* size of an order
  Prices,               \* Prices[side]: the prices the strategy may ask for
  Books,                \* snapshots of the book the exchange may return
  Latency,              \* settings.fill_latency_ticks
  Probability,          \* settings.fill_probability, in Units
  Units,                \* the draws are in 0 .. Units - 1
  Calibrated,           \* whether there is a calibration file
  TouchRate,            \* FillCalibration.touch_rate_per_sec
  MaxInterval,          \* MAX_INTERVAL_SEC
  VolatilityWindow,     \* VOLATILITY_WINDOW_SEC
  Draw(_, _)            \* _deterministic_unit_random

ASSUME SizesAssumption == /\ MaxOrders \in Nat /\ MaxTicks \in Nat /\ MaxTime \in Nat
                          /\ MaxFailures \in Nat /\ OrderSize \in Nat \ {0} /\ MaxInterval \in Nat \ {0}
                          /\ Books \subseteq [bid : Int, ask : Int, bidSize : Int, askSize : Int]

VARIABLES
  now, orders, trades,  \* the clock, the orders' records, the exchange's trades
  read,                 \* trades the trader has read (_last_trade_id)
  dirty,                \* orders marked since the last flush (_dirty)
  rows,                 \* orders that have a row in the database
  unsaved,              \* trades read whose fills could not be saved
  pc, snap,             \* the iteration: "idle", "synced", "quoting", "stopped"
  books, points,        \* the shadow books and their volatility measure
  seq, lastSnapAt,      \* TestnetTrader._tick_seq, _last_snapshot_at
  fills,                \* the shadow fills of this iteration, not yet saved
  ticks, stored,        \* the ticks and the shadow fills in the database
  lost, gap,            \* ticks whose fills were not saved; the first tick not saved
  failures              \* calls and writes that failed

exchange == <<now, trades>>
shadows == <<books, points, seq, lastSnapAt>>
records == <<orders, read, dirty, unsaved>>
saved == <<ticks, stored, lost, gap>>
vars == <<now, orders, trades, read, dirty, rows, unsaved, pc, snap, books, points,
          seq, lastSnapAt, fills, ticks, stored, lost, gap, failures>>

None == -1
FillModels == {"full_cross", "partial", "latency_prob", "calibrated"}
LegacyShadowModels == FillModels \ {"calibrated"}
FinalStates == {"filled", "cancelled"}

MinOf(a, b) == IF a < b THEN a ELSE b
MaxOf(a, b) == IF a > b THEN a ELSE b

-----------------------------------------------------------------------------
(* The exchange: an order trades until it is filled or cancelled.             *)

TradedOf(o) == LET sizes == [i \in DOMAIN trades |-> trades[i].size]
               IN  SumFunctionOnSet(sizes, {i \in DOMAIN trades : trades[i].order = o})

Unfilled(o) == orders[o].size - TradedOf(o)

Resting(o) == orders[o].state # "cancelled" /\ Unfilled(o) > 0

Trade(o, size) ==
  /\ pc # "stopped" /\ Resting(o) /\ size <= Unfilled(o)
  /\ trades' = Append(trades, [order |-> o, size |-> size, at |-> now])
  /\ UNCHANGED <<now, records, rows, pc, snap, shadows, fills, saved, failures>>

Advance ==
  /\ pc # "stopped" /\ now < MaxTime
  /\ now' = now + 1
  /\ UNCHANGED <<trades, records, rows, pc, snap, shadows, fills, saved, failures>>

-----------------------------------------------------------------------------
(* Volatility of the mid over the last VolatilityWindow.                      *)

TwoSided(book) == book.bid # None /\ book.ask # None

WithPoint(ps, at, book) ==
  IF ~TwoSided(book) THEN ps
  ELSE LET point == [at |-> at, mid |-> book.bid + book.ask]
       IN  IF ps = << >> \/ at > Last(ps).at THEN Append(ps, point)
           ELSE IF at = Last(ps).at THEN Append(Front(ps), point) ELSE ps

Update(ps, at, book) ==
  SelectSeq(WithPoint(ps, at, book), LAMBDA p : at - p.at <= VolatilityWindow)

Volatility(ps) ==
  IF Len(ps) < 2 \/ Last(ps).at <= Head(ps).at THEN None
  ELSE LET moves == [i \in 2 .. Len(ps) |-> (ps[i].mid - ps[i - 1].mid) * (ps[i].mid - ps[i - 1].mid)]
       IN  SumFunction(moves) \div (Last(ps).at - Head(ps).at)

-----------------------------------------------------------------------------
(* detect_fills: what a fill model makes of one quote on one snapshot.        *)

Crossed(q, book) == IF q.side = "bid" THEN book.ask <= q.price ELSE book.bid >= q.price

Distance(q, book) == IF q.side = "bid" THEN book.ask - q.price ELSE q.price - book.bid

VolatilityFactor(volatility) == IF volatility = None THEN 1 ELSE MinOf(volatility, 2)

FillChance(distance, dt, volatility) ==
  (TouchRate * VolatilityFactor(volatility) * MinOf(MaxOf(0, dt), MaxInterval))
     \div (1 + MaxOf(0, distance))

\* calibrated: the price may have touched the quote and come back between two looks.
Touched(q, s, n, volatility) ==
  Draw(<<q.side, q.price, q.stamp>>, n)
     < FillChance(Distance(q, s.book), s.at - q.last, volatility)

\* latency_prob: crossed on enough looks in a row, and the draw.
LatencyMet(q, n) == q.streak + 1 >= MaxOf(1, Latency) /\ Draw(<<q.order>>, n) <= Probability

Opposing(q, book) == IF q.side = "bid" THEN book.askSize ELSE book.bidSize

FillSizeForCross(m, q, book) ==
  IF m \in {"partial", "latency_prob"} THEN MinOf(q.size, MaxOf(0, Opposing(q, book))) ELSE q.size

DetectFill(m, calibrated, q, s, n, volatility) ==
  IF ~TwoSided(s.book) THEN 0
  ELSE IF Crossed(q, s.book)
       THEN IF m = "latency_prob" => LatencyMet(q, n) THEN FillSizeForCross(m, q, s.book) ELSE 0
       ELSE IF m = "calibrated" /\ calibrated /\ Touched(q, s, n, volatility) THEN q.size ELSE 0

\* The quote as detect_fills leaves it: its streak and the time of the look.
Looked(q, s) ==
  IF ~TwoSided(s.book) THEN [q EXCEPT !.streak = 0]
  ELSE [q EXCEPT !.streak = IF Crossed(q, s.book) THEN @ + 1 ELSE 0, !.last = s.at]

-----------------------------------------------------------------------------
(* ShadowBook: the open quotes of one fill model and what it has filled.      *)

EmptyBook == [quotes |-> << >>, filled |-> [o \in 1 .. MaxOrders |-> 0]]

OpenQuote(o, order, size) ==
  [order |-> o, side |-> order.side, price |-> order.price, size |-> size,
   stamp |-> order.acked, last |-> order.acked, streak |-> 0]

RemainingForgotten(b, o, order) == order.size

Remaining(b, o, order) == order.size - b.filled[o]

\* The quotes a snapshot is evaluated on: kept, or opened for an order with something left.
Batch(b, window, os) ==
  [o \in {x \in window : x \in DOMAIN b.quotes \/ Remaining(b, x, os[x]) > 0} |->
     IF o \in DOMAIN b.quotes THEN b.quotes[o] ELSE OpenQuote(o, os[o], Remaining(b, o, os[o]))]

FillsOfBatch(m, calibrated, batch, s, n, volatility) ==
  [o \in DOMAIN batch |-> DetectFill(m, calibrated, batch[o], s, n, volatility)]

AfterFills(b, batch, size, s) ==
  [quotes |-> [o \in {x \in DOMAIN batch : size[x] < batch[x].size} |->
                 IF size[o] = 0 THEN Looked(batch[o], s)
                 ELSE [batch[o] EXCEPT !.size = @ - size[o], !.streak = 0, !.last = s.at]],
   filled |-> [o \in DOMAIN b.filled |-> b.filled[o] + IF o \in DOMAIN size THEN size[o] ELSE 0]]

EvaluateBook(m, b, batch, size, s, n) ==
  [book |-> AfterFills(b, batch, size, s),
   fills |-> {[model |-> m, order |-> o, tick |-> n, size |-> size[o], price |-> batch[o].price,
               at |-> s.at] : o \in {x \in DOMAIN size : size[x] > 0}}]

BookStep(m, calibrated, b, batch, s, n, volatility) ==
  EvaluateBook(m, b, batch, FillsOfBatch(m, calibrated, batch, s, n, volatility), s, n)

\* Every snapshot feeds the volatility measure and every book.
EvaluateOn(bs, ps, calibrated, s, window, os, n) ==
  [points |-> ps,
   step |-> [m \in DOMAIN bs |->
               BookStep(m, calibrated, bs[m], Batch(bs[m], window, os), s, n, Volatility(ps))]]

Evaluate(bs, ps, calibrated, s, window, os, n) ==
  EvaluateOn(bs, Update(ps, s.at, s.book), calibrated, s, window, os, n)

FillsOfStep(step) == UNION {step[m].fills : m \in DOMAIN step}
BooksOfStep(step) == [m \in DOMAIN step |-> step[m].book]

-----------------------------------------------------------------------------
(* The session: TestnetTrader's iteration around the shadows.                 *)

FilledLikeCancelled(order, at, previous) ==
  /\ order.acked <= at
  /\ order.state \notin FinalStates \/ order.ended > at

\* Acknowledged before the snapshot; still open, or filled since the previous one.
InWindow(order, at, previous) ==
  /\ order.acked <= at
  /\ \/ order.state \notin FinalStates
     \/ order.state = "filled" /\ (previous = None \/ order.ended > previous)
     \/ order.state = "cancelled" /\ order.ended > at

\* _apply_fill for one trade.
ApplyFill(os, trade) ==
  LET size == os[trade.order].filled + trade.size
  IN  [os EXCEPT ![trade.order].filled = size,
                 ![trade.order].state = IF size >= os[trade.order].size THEN "filled"
                                        ELSE IF @ = "open" THEN "partially_filled" ELSE @,
                 ![trade.order].ended = IF size >= os[trade.order].size /\ @ = None
                                        THEN trade.at ELSE @]

AfterTrades(os) ==
  LET after[n \in read .. Len(trades)] ==
        IF n = read THEN os ELSE ApplyFill(after[n - 1], trades[n])
  IN  after

ReadFills(os) == AfterTrades(os)[Len(trades)]

Fails == failures < MaxFailures /\ failures' = failures + 1

NewTrades == (read + 1) .. Len(trades)

\* _read_fills: the cursor moves and the orders are changed and marked; then the fills are
\* saved, unless that fails.
ReadTrades(ok) ==
  /\ orders' = ReadFills(orders) /\ read' = Len(trades)
  /\ dirty' = dirty \cup {trades[i].order : i \in NewTrades}
  /\ unsaved' = IF ok THEN unsaved ELSE unsaved \cup NewTrades

\* _flush: the marks are dropped, then the marked orders are written.  A row is known by its
\* order alone: what is read of it later does not change after the order was placed.
Flush(marked, ok) ==
  /\ ok \/ marked # {}
  /\ dirty' = {} /\ rows' = IF ok THEN rows \cup marked ELSE rows
  /\ IF ok THEN UNCHANGED failures ELSE Fails

NoSnapshot == [at |-> None, book |-> [bid |-> None, ask |-> None, bidSize |-> 0, askSize |-> 0]]

\* An iteration: the wait since the last one, then the book as it is now.
Snapshot(book) ==
  /\ pc = "idle" /\ seq < MaxTicks /\ now < MaxTime
  /\ pc' = "synced" /\ now' = now + 1
  /\ snap' = [at |-> now + 1, book |-> book]
  /\ UNCHANGED <<trades, records, rows, shadows, fills, saved, failures>>

\* The orders cannot be read, or the fills not be saved, or a later call of _sync_orders
\* fails: the iteration ends before the shadows see the snapshot.
SyncFails ==
  /\ Fails
  /\ pc = "synced" /\ pc' = "idle" /\ snap' = NoSnapshot
  /\ UNCHANGED records \/ \E ok \in BOOLEAN : ReadTrades(ok)
  /\ UNCHANGED <<exchange, rows, shadows, fills, saved>>

TickRecord(n, s, window) == [seq |-> n, at |-> s.at, book |-> s.book, open |-> window]

\* save_testnet_tick, which may fail.
Recorded(n, s, window, ok) == IF ok THEN Append(ticks, TickRecord(n, s, window)) ELSE ticks

\* _sync_orders, _evaluate_shadows, then the tick is saved.
ShowShadows(os, window, ok) ==
  LET result == Evaluate(books, points, Calibrated, snap, window, os, seq + 1)
  IN  /\ books' = BooksOfStep(result.step) /\ points' = result.points
      /\ fills' = IF ok THEN FillsOfStep(result.step) ELSE {}
      /\ ticks' = Recorded(seq + 1, snap, window, ok)

EvaluateShadows(ok) ==
  /\ pc = "synced" /\ IF ok THEN UNCHANGED failures ELSE Fails
  /\ ReadTrades(TRUE)
  /\ ShowShadows(orders', {o \in DOMAIN orders : InWindow(orders'[o], snap.at, lastSnapAt)}, ok)
  /\ seq' = seq + 1 /\ lastSnapAt' = snap.at /\ snap' = NoSnapshot
  /\ pc' = IF ok THEN "quoting" ELSE "idle"
  /\ gap' = IF ok \/ gap # None THEN gap ELSE seq + 1
  /\ UNCHANGED <<exchange, rows, stored, lost>>

Open(o) == orders[o].state \notin FinalStates

Late(o) == Open(o) /\ Unfilled(o) <= 0

\* _cancel: the order is marked; one that has filled is too late to cancel, and the fills are read.
Cancel(o) ==
  /\ pc = "quoting" /\ Open(o)
  /\ \/ Late(o) /\ ReadTrades(TRUE)
     \/ /\ ~Late(o)
        /\ orders' = [orders EXCEPT ![o].state = "cancelled", ![o].ended = now]
        /\ dirty' = dirty \cup {o} /\ UNCHANGED <<read, unsaved>>
  /\ UNCHANGED <<exchange, rows, pc, snap, shadows, fills, saved, failures>>

Place(side, price) ==
  /\ pc = "quoting" /\ Len(orders) < MaxOrders
  /\ \A o \in DOMAIN orders : orders[o].side = side => ~Open(o)
  /\ orders' = Append(orders, [side |-> side, price |-> price, size |-> OrderSize,
                               state |-> "open", filled |-> 0, acked |-> now, ended |-> None])
  /\ dirty' = dirty \cup {Len(orders) + 1}
  /\ UNCHANGED <<exchange, read, unsaved, rows, pc, snap, shadows, fills, saved, failures>>

\* save_testnet_shadow_fills: one more row for each fill.
StoredWith(shadowFills) == stored \cup shadowFills

\* The rest of the iteration: only now are the shadows' fills saved, then the orders.
SaveShadowFills(ok) ==
  /\ pc = "quoting" /\ pc' = "idle"
  /\ stored' = StoredWith(fills) /\ fills' = {}
  /\ Flush(dirty, ok)
  /\ UNCHANGED <<exchange, orders, read, unsaved, snap, shadows, ticks, lost, gap>>

\* A call or write of _quote, of reconcile, or the save of the shadows' fills fails: the
\* exception passes the saves that follow it.
QuoteFails ==
  /\ Fails
  /\ pc = "quoting" /\ pc' = "idle"
  /\ \/ UNCHANGED records
     \/ /\ \E o \in DOMAIN orders : Open(o) /\ dirty' = dirty \cup {o}
        /\ UNCHANGED <<orders, read, unsaved>>
     \/ (\E o \in DOMAIN orders : Late(o)) /\ ReadTrades(FALSE)
  /\ lost' = (IF fills = {} THEN lost ELSE lost \cup {seq}) /\ fills' = {}
  /\ UNCHANGED <<exchange, rows, snap, shadows, ticks, stored, gap>>

Reached(n) == {o \in DOMAIN orders : o <= n /\ Open(o)}

\* cancel_all, over the orders up to the n-th: what still rests is cancelled; if something
\* had filled, the fills are read.
CancelUpTo(n, ok) ==
  LET late == \E o \in Reached(n) : Late(o)
      os == IF late THEN ReadFills(orders) ELSE orders
  IN  /\ orders' = [o \in DOMAIN os |-> IF o \in Reached(n) /\ ~Late(o)
                                        THEN [os[o] EXCEPT !.state = "cancelled", !.ended = now]
                                        ELSE os[o]]
      /\ read' = IF late THEN Len(trades) ELSE read
      /\ unsaved' = IF late /\ ~ok THEN unsaved \cup NewTrades ELSE unsaved

\* What is marked by then.
MarkedUpTo(n) ==
  dirty \cup Reached(n)
    \cup {trades[i].order : i \in {j \in NewTrades : \E o \in Reached(n) : Late(o)}}

\* cancel_all, and a flush; or the fills of the first order that had filled cannot be saved,
\* which no handler of cancel_all catches.
CancelAll ==
  \/ CancelUpTo(Len(orders), TRUE) /\ \E ok \in BOOLEAN : Flush(MarkedUpTo(Len(orders)), ok)
  \/ /\ Fails
     /\ \E n \in DOMAIN orders :
          /\ Late(n) /\ \A o \in 1 .. n - 1 : ~Late(o)
          /\ CancelUpTo(n, FALSE) /\ dirty' = MarkedUpTo(n)
     /\ UNCHANGED rows

\* An iteration with the kill switch on.
Pause ==
  /\ pc = "idle" /\ MarkedUpTo(Len(orders)) # {} /\ CancelAll
  /\ UNCHANGED <<exchange, pc, snap, shadows, fills, saved>>

\* stop, shutdown: the session is over and can be exported.
Stop ==
  /\ pc = "idle" /\ pc' = "stopped" /\ CancelAll
  /\ UNCHANGED <<exchange, snap, shadows, fills, saved>>

Init ==
  /\ now = 0 /\ orders = << >> /\ trades = << >> /\ read = 0
  /\ dirty = {} /\ rows = {} /\ unsaved = {}
  /\ pc = "idle" /\ snap = NoSnapshot
  /\ books = [m \in FillModels |-> EmptyBook] /\ points = << >>
  /\ seq = 0 /\ lastSnapAt = None
  /\ fills = {} /\ ticks = << >> /\ stored = {} /\ lost = {} /\ gap = None /\ failures = 0

Next ==
  \/ Advance
  \/ \E o \in DOMAIN orders, size \in 1 .. OrderSize : Trade(o, size)
  \/ \E book \in Books : Snapshot(book)
  \/ SyncFails
  \/ \E ok \in BOOLEAN : EvaluateShadows(ok)
  \/ \E o \in DOMAIN orders : Cancel(o)
  \/ \E side \in {"bid", "ask"} : \E price \in Prices[side] : Place(side, price)
  \/ \E ok \in BOOLEAN : SaveShadowFills(ok)
  \/ QuoteFails
  \/ Pause
  \/ Stop

Spec == Init /\ [][Next]_vars

-----------------------------------------------------------------------------
(* The recording: what export_session writes and replay reads back.           *)

\* A replay that skips the ticks without an open order.
ReplayOpenTick(os, st, tick, calibrated) ==
  LET result == Evaluate(st.books, st.points, calibrated, [at |-> tick.at, book |-> tick.book],
                         tick.open \cap DOMAIN os, os, tick.seq)
  IN  IF tick.open = {} THEN st
      ELSE [books |-> BooksOfStep(result.step), points |-> result.points,
            fills |-> st.fills \cup FillsOfStep(result.step)]

\* replay_shadows: the books of some models walked over the recorded ticks.
ReplayTick(os, st, tick, calibrated) ==
  LET result == Evaluate(st.books, st.points, calibrated, [at |-> tick.at, book |-> tick.book],
                         tick.open \cap DOMAIN os, os, tick.seq)
  IN  [books |-> BooksOfStep(result.step), points |-> result.points,
       fills |-> st.fills \cup FillsOfStep(result.step)]

NewShadows(models) == [books |-> [m \in models |-> EmptyBook], points |-> << >>, fills |-> {}]

ReplayedTicks(os, ts, models, calibrated) ==
  LET replayed[n \in 0 .. Len(ts)] ==
        IF n = 0 THEN NewShadows(models) ELSE ReplayTick(os, replayed[n - 1], ts[n], calibrated)
  IN  replayed

\* The orders as the recording has them.
SavedOrders == [o \in rows |-> orders[o]]

ReplayShadows(models, calibrated) ==
  ReplayedTicks(SavedOrders, ticks, models, calibrated)[Len(ticks)].fills

\* complete_recording: the models a recording was made without are replayed.
CompleteRecording(models) ==
  {f \in stored : f.model \in models} \cup ReplayShadows(FillModels \ models, Calibrated)

\* replay_mismatches: fills that only the recording has, or only its replay.
ReplayMismatches(recorded) ==
  LET replayed == ReplayShadows(FillModels, Calibrated)
  IN  (recorded \ replayed) \cup (replayed \ recorded)

RecordedFills(o) == {i \in (1 .. read) \ unsaved : trades[i].order = o}

\* The first recorded fill of an order, None without one.
FirstFill(o) ==
  IF RecordedFills(o) = {} THEN None ELSE Min({trades[i].at : i \in RecordedFills(o)})

Event(first, since, at) ==
  IF first # None /\ first <= since THEN "after" ELSE IF first # None /\ first <= at THEN "fill" ELSE "none"

\* evaluations: one look per recorded order and two-sided tick, from the look before.
LookAt(st, tick, o) ==
  LET since == IF st.last[o] = None THEN orders[o].acked ELSE st.last[o]
  IN  [order |-> o, tick |-> tick.seq, since |-> since, at |-> tick.at,
       dt |-> MinOf(MaxInterval, MaxOf(0, tick.at - since)),
       distance |-> Distance(orders[o], tick.book), crossed |-> Crossed(orders[o], tick.book),
       event |-> Event(FirstFill(o), since, tick.at)]

EvaluateTick(st, tick) ==
  IF ~TwoSided(tick.book) THEN st
  ELSE [last |-> [o \in DOMAIN st.last |-> IF o \in tick.open THEN tick.at ELSE st.last[o]],
        looks |-> st.looks \cup {LookAt(st, tick, o) : o \in tick.open \cap rows}]

EvaluatedTicks ==
  LET evaluated[n \in 0 .. Len(ticks)] ==
        IF n = 0 THEN [last |-> [o \in rows |-> None], looks |-> {}]
        ELSE EvaluateTick(evaluated[n - 1], ticks[n])
  IN  evaluated

Evaluations == EvaluatedTicks[Len(ticks)].looks

\* compare: the size a model, and the exchange, filled of an order.
PaperSize(paper, m, o) ==
  LET own == {f \in paper : f.model = m /\ f.order = o}
  IN  SumFunctionOnSet([f \in own |-> f.size], own)

RealSize(o) == SumFunctionOnSet([i \in RecordedFills(o) |-> trades[i].size], RecordedFills(o))

\* compare: matched, paper_only, real_only, neither.
OutcomeOf(paper, m, o) ==
  CASE PaperSize(paper, m, o) > 0 /\ RealSize(o) > 0 -> "matched"
    [] PaperSize(paper, m, o) > 0 /\ RealSize(o) = 0 -> "paper_only"
    [] PaperSize(paper, m, o) = 0 /\ RealSize(o) > 0 -> "real_only"
    [] OTHER -> "neither"

-----------------------------------------------------------------------------
(* Properties of the session that was exported.                               *)

\* Replaying the recording reproduces the stored shadow fills of every model, and a
\* recording without the calibrated model can be completed to the same fills (replay.py,
\* specs/006 FR-009, FR-012): up to the first tick that could not be saved, and but for the
\* fills of iterations that failed after their tick was saved, which are not stored, and those
\* of an order whose row never was, which replay skips.
ReplayReproduces ==
  pc = "stopped" =>
    \A recorded \in {stored, CompleteRecording(LegacyShadowModels)} :
      \A f \in ReplayMismatches(recorded) :
        f.tick \in lost \/ (gap # None /\ f.tick >= gap) \/ f.order \notin rows

TicksFrom(first) == {t \in ToSet(ticks) : t.at >= first}
FirstTick(ts) == CHOOSE t \in ts : \A u \in ts : t.seq <= u.seq

\* The first real fill of a recorded order whose own row could be saved is the event of exactly
\* one look (replay.evaluations): the first snapshot at or after it labels it, however late
\* the trader read the fill, whichever fills before or after it could not be saved, if
\* every tick was saved, that snapshot has both sides, the fill came after the
\* acknowledgement, and the order was not cancelled before the snapshot.
FillsAreLabelled ==
  pc = "stopped" /\ gap = None =>
    \A o \in rows :
      LET first == FirstFill(o)
          later == TicksFrom(first)
          tick == FirstTick(later)
      IN  /\ first > orders[o].acked /\ later # {}
          /\ TwoSided(tick.book)
          /\ orders[o].state = "filled" \/ orders[o].ended > tick.at
          => {l.tick : l \in {x \in Evaluations : x.order = o /\ x.event = "fill"}} = {tick.seq}

\* Whatever the session, a stricter fill model never fills more of an order than a looser
\* one, and none fills more than the order (comparison.py compares the four on this scale):
\* latency_prob <= partial <= full_cross <= calibrated <= size, and calibrated without a
\* calibration is full_cross (specs/006 FR-004).  So a looser model misses no more real fills.
ModelsAreOrdered ==
  pc = "stopped" =>
    LET paper == ReplayShadows(FillModels, Calibrated)
        plain == ReplayShadows({"calibrated"}, FALSE)
    IN  \A o \in DOMAIN orders :
          /\ PaperSize(paper, "latency_prob", o) <= PaperSize(paper, "partial", o)
          /\ PaperSize(paper, "partial", o) <= PaperSize(paper, "full_cross", o)
          /\ PaperSize(paper, "full_cross", o) <= PaperSize(paper, "calibrated", o)
          /\ PaperSize(paper, "calibrated", o) <= orders[o].size
          /\ PaperSize(plain, "calibrated", o) = PaperSize(paper, "full_cross", o)
          /\ OutcomeOf(paper, "calibrated", o) = "real_only" => OutcomeOf(paper, "partial", o) = "real_only"
=============================================================================
