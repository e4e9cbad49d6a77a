--------------------------- MODULE PaperLoopProofs ---------------------------
(***************************************************************************)
(* Proofs about the paper loop.  The argument is about brokers first: each *)
(* stage of a tick (evaluate, book the fills, requote or cancel) takes a   *)
(* sound broker to a sound broker, where sound means well-typed, funded    *)
(* and capped.  Funded alone is inductive only because the filter reserves *)
(* the fee and a kept quote keeps the reservation of the tick it came from.*)
(***************************************************************************)
EXTENDS PaperLoop, TLAPS

Sound(b) == b \in Brokers /\ Funded(b) /\ Capped(b)

(* Cash and position arithmetic: cost grows with size, splits over a        *)
(* partial fill, and selling never costs.                                   *)
LEMMA CostFacts ==
  ASSUME NEW p \in Nat, NEW n \in Nat, NEW m \in Nat, n <= m
  PROVE  /\ Cost(p, n) \in Nat /\ Cost(p, m) \in Nat
         /\ Proceeds(p, n) \in Nat
         /\ Cost(p, m - n) = Cost(p, m) - Cost(p, n)
         /\ Cost(p, n) <= Cost(p, m)
<1> DEFINE a == p * n
           b == p * m
           k == 10000 + MakerFeeBps
           l == 10000 - MakerFeeBps
<1>1. k \in Nat /\ l \in Nat
  BY LoopConstants
<1>2. a \in Nat /\ b \in Nat /\ p * (m - n) \in Nat /\ p * (m - n) = b - a
  BY SMT
<1>3. k * a \in Nat /\ k * b \in Nat /\ l * a \in Nat
  BY <1>1, <1>2, SMT
<1>4. k * (b - a) = k * b - k * a /\ k * (b - a) \in Nat
  BY <1>1, <1>2, SMT
<1> QED
  BY <1>1, <1>2, <1>3, <1>4 DEF Cost, Proceeds

(* A smaller position is within the limits whenever a larger one is. *)
LEMMA LimitsShrink ==
  ASSUME NEW p \in Nat, NEW n \in Nat, NEW m \in Nat, n <= m,
         WithinLimits(m, p)
  PROVE  WithinLimits(n, p)
<1>1. n * p \in Nat /\ m * p \in Nat /\ n * p <= m * p
  BY SMT
<1> QED
  BY <1>1, LoopConstants DEF WithinLimits, Abs

(* A quote's fields are natural numbers, its size at most the quote size. *)
LEMMA QuoteFields ==
  ASSUME NEW q \in Quotes
  PROVE  /\ q.pair \in Pairs /\ q.price \in Prices \cup {0}
         /\ q.price \in Nat /\ q.size \in Nat
         /\ q.size <= QuoteSize /\ q.streak \in Nat
<1>1. q.price \in Prices \cup {0} /\ q.size \in 0..QuoteSize
      /\ q.streak \in Nat /\ q.pair \in Pairs
  BY DEF Quotes
<1>2. Prices \subseteq Nat /\ QuoteSize \in Nat /\ 0 \in Nat
  BY LoopConstants
<1>3. q.price \in Nat
  BY <1>1, <1>2, Zenon
<1>4. q.size \in Nat /\ q.size <= QuoteSize
  BY <1>1, <1>2, SMT
<1> QED
  BY <1>1, <1>3, <1>4, Zenon

(* Prices and sizes of a broker's quotes are natural numbers. *)
LEMMA QuoteTypes ==
  ASSUME NEW b \in Brokers, NEW s \in Sides
  PROVE  /\ b.open[s] \in Quotes
         /\ b.open[s].price \in Nat /\ b.open[s].size \in Nat
         /\ b.open[s].size <= QuoteSize /\ b.open[s].streak \in Nat
<1>1. b.open[s] \in Quotes
  BY DEF Brokers
<1> QED
  BY <1>1, QuoteFields

(* A broker with no quotes is sound as soon as its position is capped. *)
LEMMA CancelIsSound ==
  ASSUME NEW b, Sound(b)
  PROVE  Sound(CancelAllQuotes(b)) /\ CancelAllQuotes(b).open = NoQuotes
<1>1. NoQuote \in Quotes /\ QuoteSize \in Nat
  BY LoopConstants DEF NoQuote, Quotes
<1>2. NoQuotes \in [Sides -> Quotes]
  BY <1>1 DEF NoQuotes
<1>3. CancelAllQuotes(b) \in Brokers /\ CancelAllQuotes(b).open = NoQuotes
      /\ CancelAllQuotes(b).base = b.base
  BY <1>2 DEF CancelAllQuotes, Brokers, Sound
<1>4. \A s \in Sides : ~Resting(CancelAllQuotes(b), s)
  BY <1>3 DEF Resting, NoQuotes, NoQuote
<1> QED
  BY <1>3, <1>4 DEF Sound, Funded, Capped, Sides

(* Evaluating quotes only moves their crossing streaks. *)
LEMMA EvaluateIsSound ==
  ASSUME NEW b, Sound(b), NEW book
  PROVE  Sound(Evaluate(b, book))
<1> DEFINE e == Evaluate(b, book)
<1>1. \A s \in Sides : /\ e.open[s] \in Quotes
                       /\ e.open[s].size = b.open[s].size
                       /\ e.open[s].price = b.open[s].price
  <2> SUFFICES ASSUME NEW s \in Sides
               PROVE  /\ e.open[s] \in Quotes
                      /\ e.open[s].size = b.open[s].size
                      /\ e.open[s].price = b.open[s].price
    OBVIOUS
  <2>1. b.open[s] \in Quotes /\ b.open[s].streak \in Nat
    BY QuoteTypes DEF Sound
  <2>2. e.open[s] = IF Resting(b, s)
                      THEN [b.open[s] EXCEPT !.streak =
                              IF Crossed(s, b.open[s], book) THEN @ + 1 ELSE 0]
                      ELSE b.open[s]
    BY DEF Evaluate, Sound, Brokers
  <2> QED
    BY <2>1, <2>2 DEF Quotes
<1>2. e \in Brokers /\ e.base = b.base /\ e.quote = b.quote
  <2>1. e = [b EXCEPT !.open = e.open] /\ e.open = [s \in Sides |-> e.open[s]]
    BY DEF Evaluate, Sound, Brokers
  <2>2. e.open \in [Sides -> Quotes]
    BY <1>1, <2>1
  <2> QED
    BY <2>1, <2>2 DEF Sound, Brokers
<1> HIDE DEF e
<1>3. Funded(e) /\ Capped(e)
  BY <1>1, <1>2 DEF Sound, Funded, Capped, Resting, Sides
<1> QED
  BY <1>2, <1>3 DEF Sound, e

(* A fill of no more than the quote's size keeps the broker sound and       *)
(* leaves the other side alone.                                             *)
LEMMA FillIsSound ==
  ASSUME NEW b, Sound(b), NEW s \in Sides, NEW n \in 0..b.open[s].size
  PROVE  /\ Sound(ApplyFill(b, s, n))
         /\ ApplyFill(b, s, n).open[Other(s)] = b.open[Other(s)]
<1> DEFINE q == b.open[s]
           a == ApplyFill(b, s, n)
           r == Remainder(q, n)
<1>1. /\ q \in Quotes /\ q.price \in Nat /\ q.size \in Nat /\ n \in Nat
      /\ n <= q.size /\ q.size <= QuoteSize
  BY QuoteTypes DEF Sound
<1>2. /\ Cost(q.price, n) \in Nat /\ Proceeds(q.price, n) \in Nat
      /\ Cost(q.price, q.size - n) = Cost(q.price, q.size) - Cost(q.price, n)
      /\ Cost(q.price, q.size) \in Nat
      /\ Cost(q.price, n) <= Cost(q.price, q.size)
  <2> HIDE DEF q
  <2> QED
    BY <1>1, CostFacts
<1>3. /\ r \in Quotes
      /\ r.size > 0 => r.size = q.size - n /\ r.price = q.price
  <2> HIDE DEF q
  <2>1. CASE q.size > n
    <3>1. r = [pair |-> q.pair, price |-> q.price, size |-> q.size - n, streak |-> 0]
      BY <2>1, <1>1 DEF Remainder, Quotes
    <3>2. q.size - n \in 0..QuoteSize
      BY <2>1, <1>1, LoopConstants
    <3> QED
      BY <3>1, <3>2, <1>1, QuoteFields DEF Quotes
  <2>2. CASE ~(q.size > n)
    BY <2>2, LoopConstants DEF Remainder, Quotes, NoQuote
  <2> QED
    BY <2>1, <2>2
<1>4. b.base \in Nat /\ b.quote \in Nat /\ b.open \in [Sides -> Quotes]
  BY DEF Sound, Brokers
<1>5. CASE \/ n = 0
           \/ s = "bid" /\ b.quote < Cost(q.price, n)
           \/ s = "ask" /\ b.base < n
  BY <1>5 DEF ApplyFill
<1>6. CASE s = "bid" /\ n # 0 /\ ~(b.quote < Cost(q.price, n))
  <2>1. a = [b EXCEPT !.base = b.base + n, !.quote = b.quote - Cost(q.price, n),
                      !.open = [b.open EXCEPT !["bid"] = r]]
    BY <1>6, <1>4 DEF ApplyFill, Sound, Brokers
  <2>2. /\ a.base = b.base + n /\ a.quote = b.quote - Cost(q.price, n)
        /\ a.open["bid"] = r /\ a.open["ask"] = b.open["ask"]
    BY <2>1, <1>4 DEF Sound, Brokers, Sides
  <2>3. a \in Brokers
    <3>1. b.quote - Cost(q.price, n) \in Nat /\ b.base + n \in Nat
      BY <1>1, <1>2, <1>4, <1>6
    <3>2. [b.open EXCEPT !["bid"] = r] \in [Sides -> Quotes]
      BY <1>3, <1>4
    <3> HIDE DEF q, r
    <3> QED
      BY <2>1, <3>1, <3>2 DEF Sound, Brokers
  <2>4. q.size > 0
    BY <1>1, <1>6
  <2>5. b.quote >= Cost(q.price, q.size) /\ WithinLimits(b.base + q.size, q.price)
    BY <2>4, <1>6 DEF Sound, Funded, Capped, Resting
  <2>6. Funded(a)
    BY <2>2, <2>5, <1>1, <1>2, <1>3, <1>4, QuoteTypes DEF Funded, Resting, Sound, Sides
  <2>7. WithinLimits(b.base + n, q.price)
    <3>1. b.base + n \in Nat /\ b.base + q.size \in Nat /\ b.base + n <= b.base + q.size
      BY <1>1, <1>4
    <3> HIDE DEF q
    <3> QED
      BY <3>1, <2>5, <1>1, LimitsShrink
  <2>8. Capped(a)
    <3>1. b.base + n \in Nat
      BY <1>1, <1>4
    <3>2. a.base <= MaxPositionBase
      BY <2>2, <2>7, <3>1, LoopConstants DEF WithinLimits, Abs
    <3>3. r.size > 0 => WithinLimits(b.base + n + r.size, r.price)
      <4>1. r.size > 0 => b.base + n + r.size = b.base + q.size
        BY <1>1, <1>3, <1>4
      <4> QED
        BY <4>1, <1>3, <2>5
    <3> QED
      BY <3>2, <3>3, <2>2 DEF Capped, Resting
  <2> QED
    BY <2>2, <2>3, <2>6, <2>8, <1>6 DEF Sound, Other
<1>7. CASE s = "ask" /\ n # 0 /\ ~(b.base < n)
  <2>1. a = [b EXCEPT !.base = b.base - n, !.quote = b.quote + Proceeds(q.price, n),
                      !.open = [b.open EXCEPT !["ask"] = r]]
    BY <1>7, <1>4 DEF ApplyFill, Sound, Brokers
  <2>2. /\ a.base = b.base - n /\ a.quote = b.quote + Proceeds(q.price, n)
        /\ a.open["ask"] = r /\ a.open["bid"] = b.open["bid"]
    BY <2>1, <1>4 DEF Sound, Brokers, Sides
  <2>3. a \in Brokers
    <3>1. b.quote + Proceeds(q.price, n) \in Nat /\ b.base - n \in Nat
      BY <1>1, <1>2, <1>4, <1>7
    <3>2. [b.open EXCEPT !["ask"] = r] \in [Sides -> Quotes]
      BY <1>3, <1>4
    <3> HIDE DEF q, r
    <3> QED
      BY <2>1, <3>1, <3>2 DEF Sound, Brokers
  <2>4. q.size > 0
    BY <1>1, <1>7
  <2>5. b.base >= q.size
    BY <2>4, <1>7 DEF Sound, Funded, Resting
  <2>6. Funded(a)
    <3>1. b.open["bid"].price \in Nat /\ b.open["bid"].size \in Nat
      BY QuoteTypes DEF Sound, Sides
    <3>2. Cost(b.open["bid"].price, b.open["bid"].size) \in Nat
      BY <3>1, CostFacts
    <3> QED
      BY <2>2, <2>5, <3>2, <1>1, <1>2, <1>3, <1>4 DEF Funded, Resting, Sound
  <2>7. Capped(a)
    <3>1. b.open["bid"].price \in Nat /\ b.open["bid"].size \in Nat
      BY QuoteTypes DEF Sound, Sides
    <3> DEFINE z == b.open["bid"].size
               p == b.open["bid"].price
    <3>2. a.base + z \in Nat /\ b.base + z \in Nat /\ a.base + z <= b.base + z
      BY <3>1, <2>2, <1>1, <1>4, <1>7
    <3>3. a.base <= MaxPositionBase
      BY <2>2, <1>1, <1>4, LoopConstants DEF Sound, Capped
    <3>4. z > 0 => WithinLimits(b.base + z, p)
      BY DEF Sound, Capped, Resting
    <3> HIDE DEF z, p
    <3>5. z > 0 => WithinLimits(a.base + z, p)
      BY <3>1, <3>2, <3>4, LimitsShrink DEF p
    <3> QED
      BY <3>3, <3>5, <2>2 DEF Capped, Resting, z, p
  <2> QED
    BY <2>2, <2>3, <2>6, <2>7, <1>7 DEF Sound, Other
<1> QED
  BY <1>5, <1>6, <1>7 DEF Sides

(* Constants as the provers need them. *)
LEMMA SizeTypes == QuoteSize \in Nat /\ QuoteSize > 0 /\ Prices \subseteq Nat
BY LoopConstants

(* A book that has both sides shows sizes up to the quote size. *)
LEMMA BookSizes ==
  ASSUME NEW book \in Books, HasMid(book)
  PROVE  book.bidSize \in Nat /\ book.askSize \in Nat
<1>1. book \in FullBooks
  BY SizeTypes DEF Books, HasMid, NoBook
<1> QED
  BY <1>1, SizeTypes DEF FullBooks

(* No model fills a quote for more than its size. *)
LEMMA FillSizesBound ==
  ASSUME NEW s \in Sides, NEW q \in Quotes, NEW book \in Books,
         NEW n \in FillSizes(s, q, book)
  PROVE  n \in 0..q.size
<1>1. q.size \in Nat
  BY QuoteFields
<1>2. HasMid(book) => TopOfBook(s, q, book) \in 0..q.size
  BY <1>1, BookSizes DEF TopOfBook
<1>3. 0 \in 0..q.size /\ q.size \in 0..q.size
  BY <1>1
<1>4. FillMode \in Modes
  BY LoopConstants
<1>5. n \in {0, q.size} \/ (HasMid(book) /\ n = TopOfBook(s, q, book))
  <2>1. CASE q.size = 0 \/ ~HasMid(book)
    BY <2>1, <1>1 DEF FillSizes
  <2>2. CASE q.size > 0 /\ HasMid(book) /\ ~Crossed(s, q, book)
    BY <2>2, <1>1 DEF FillSizes
  <2>3. CASE q.size > 0 /\ HasMid(book) /\ Crossed(s, q, book)
    BY <2>3, <1>1, <1>4 DEF FillSizes, Modes
  <2> QED
    BY <2>1, <2>2, <2>3, <1>1
<1> QED
  BY <1>2, <1>3, <1>5

(* Booking both fills, in either order, keeps the broker sound. *)
LEMMA BookFillsIsSound ==
  ASSUME NEW b, Sound(b), NEW sizes,
         \A s \in Sides : sizes[s] \in 0..b.open[s].size
  PROVE  Sound(BookFills(b, sizes))
<1> DEFINE f == b.first
           a == ApplyFill(b, f, sizes[f])
<1>1. f \in Sides /\ Other(f) \in Sides
  BY DEF Sound, Brokers, Sides, Other
<1>2. Sound(a) /\ a.open[Other(f)] = b.open[Other(f)]
  BY <1>1, FillIsSound
<1>3. sizes[Other(f)] \in 0..a.open[Other(f)].size
  BY <1>1, <1>2
<1>4. BookFills(b, sizes) = ApplyFill(a, Other(f), sizes[Other(f)])
  BY DEF BookFills
<1> HIDE DEF a, f
<1>5. Sound(ApplyFill(a, Other(f), sizes[Other(f)]))
  BY <1>1, <1>2, <1>3, FillIsSound
<1> QED
  BY <1>4, <1>5

(* New quotes that passed the filter, beside the quotes that are kept,      *)
(* leave a sound broker.                                                    *)
LEMMA SubmitIsSound ==
  ASSUME NEW b, Sound(b), tick.pair \in Pairs,
         NEW approved, NEW price, price \in [Sides -> Prices \cup {0}],
         "bid" \in approved => BidApproved(b, price["bid"]),
         "ask" \in approved => b.base >= QuoteSize
  PROVE  Sound(Submit(b, approved, price))
<1> DEFINE c == Submit(b, approved, price)
           Fresh(s) == [pair |-> tick.pair, price |-> price[s],
                        size |-> QuoteSize, streak |-> 0]
           opened == [s \in Sides |-> IF Kept(b, s) THEN b.open[s]
                                      ELSE IF s \in approved THEN Fresh(s) ELSE NoQuote]
           listed == IF Kept(b, "ask") /\ ~Kept(b, "bid") THEN "ask" ELSE "bid"
<1>0. c = [b EXCEPT !.open = opened, !.first = listed]
  BY DEF Submit
<1>1. /\ c.base = b.base /\ c.quote = b.quote
      /\ c.open = opened /\ c.first = listed
      /\ c = [base |-> c.base, quote |-> c.quote, open |-> c.open, first |-> c.first]
  <2> HIDE DEF c, opened, listed
  <2> QED
    BY <1>0 DEF Sound, Brokers
<1> HIDE DEF c
<1>2. NoQuote \in Quotes /\ NoQuote.size = 0
  BY SizeTypes, LoopConstants DEF NoQuote, Quotes
<1>3. \A s \in Sides : Fresh(s) \in Quotes
  BY SizeTypes DEF Quotes
<1>4. \A s \in Sides : b.open[s] \in Quotes
  BY QuoteTypes DEF Sound
<1>5. \A s \in Sides : c.open[s] \in {b.open[s], NoQuote}
                       \/ (s \in approved /\ c.open[s] = Fresh(s))
  BY <1>1
<1>6. c \in Brokers
  <2>1. c.open \in [Sides -> Quotes]
    BY <1>1, <1>2, <1>3, <1>4, <1>5
  <2>2. c.first \in Sides
    BY <1>1 DEF Sides
  <2> QED
    BY <1>1, <2>1, <2>2 DEF Brokers, Sound
<1>7. (Resting(c, "bid") => c.quote >= Cost(c.open["bid"].price, c.open["bid"].size)
                            /\ WithinLimits(c.base + c.open["bid"].size,
                                            c.open["bid"].price))
  <2>1. CASE c.open["bid"] = b.open["bid"]
    BY <2>1, <1>1 DEF Sound, Funded, Capped, Resting
  <2>2. CASE c.open["bid"] = NoQuote
    BY <2>2, <1>2 DEF Resting
  <2>3. CASE "bid" \in approved /\ c.open["bid"] = Fresh("bid")
    BY <2>3, <1>1 DEF BidApproved
  <2> QED
    BY <2>1, <2>2, <2>3, <1>5 DEF Sides
<1>8. Resting(c, "ask") => c.base >= c.open["ask"].size
  <2>1. CASE c.open["ask"] = b.open["ask"]
    BY <2>1, <1>1 DEF Sound, Funded, Resting
  <2>2. CASE c.open["ask"] = NoQuote
    BY <2>2, <1>2 DEF Resting
  <2>3. CASE "ask" \in approved /\ c.open["ask"] = Fresh("ask")
    BY <2>3, <1>1
  <2> QED
    BY <2>1, <2>2, <2>3, <1>5 DEF Sides
<1> QED
  BY <1>1, <1>6, <1>7, <1>8 DEF Sound, Funded, Capped, c

(* Whatever a strategy quotes, the filtered result is sound. *)
LEMMA QuotedIsSound ==
  ASSUME NEW b, Sound(b), tick.pair \in Pairs, NEW book,
         NEW c \in Quoted(b, book)
  PROVE  Sound(c)
<1>1. CASE ~HasMid(book)
  <2> DEFINE zero == [s \in Sides |-> 0]
  <2>1. c = Submit(b, {}, zero)
    BY <1>1 DEF Quoted
  <2>2. zero \in [Sides -> Prices \cup {0}]
    OBVIOUS
  <2> HIDE DEF zero
  <2> QED
    BY <2>1, <2>2, SubmitIsSound
<1>2. CASE HasMid(book)
  <2> DEFINE ok(p) == {s \in Sides : IF s = "bid" THEN BidApproved(b, p.bid)
                                     ELSE AskApproved(b, p.bid, p.ask)}
  <2>1. PICK p \in [Sides -> Prices] : c = Submit(b, ok(p), p)
    BY <1>2 DEF Quoted
  <2>2. p \in [Sides -> Prices \cup {0}]
    BY <2>1
  <2>3. "bid" \in ok(p) => BidApproved(b, p["bid"])
    OBVIOUS
  <2>4. "ask" \in ok(p) => b.base >= QuoteSize
    BY DEF AskApproved
  <2> HIDE DEF ok
  <2> QED
    BY <2>1, <2>2, <2>3, <2>4, SubmitIsSound
<1> QED
  BY <1>1, <1>2

(* A tick takes a sound broker to a sound broker, and to one without quotes *)
(* when the kill switch is on.                                              *)
LEMMA TickIsSound ==
  ASSUME Sound(broker), tick.pair \in Pairs, NEW book \in Books,
         NEW after \in AfterTick(book)
  PROVE  Sound(after) /\ (kill => after.open = NoQuotes)
<1>1. CASE book.stale
  BY <1>1, CancelIsSound DEF AfterTick
<1>2. CASE ~book.stale
  <2> DEFINE seen == Evaluate(broker, book)
             sizes(f) == [s \in Sides |-> IF s = "bid" THEN f[1] ELSE f[2]]
             fills == FillSizes("bid", seen.open["bid"], book)
                      \X FillSizes("ask", seen.open["ask"], book)
             filled == {BookFills(seen, sizes(f)) : f \in fills}
  <2>1. Sound(seen)
    BY EvaluateIsSound
  <2>2. \A b \in filled : Sound(b)
    <3> SUFFICES ASSUME NEW f \in fills PROVE Sound(BookFills(seen, sizes(f)))
      OBVIOUS
    <3>1. f[1] \in FillSizes("bid", seen.open["bid"], book)
          /\ f[2] \in FillSizes("ask", seen.open["ask"], book)
      OBVIOUS
    <3>2. seen.open["bid"] \in Quotes /\ seen.open["ask"] \in Quotes
      BY <2>1, QuoteTypes DEF Sound, Sides
    <3> HIDE DEF seen
    <3>3. f[1] \in 0..seen.open["bid"].size /\ f[2] \in 0..seen.open["ask"].size
      BY <3>1, <3>2, FillSizesBound DEF Sides
    <3>4. \A s \in Sides : sizes(f)[s] \in 0..seen.open[s].size
      BY <3>3 DEF Sides
    <3> HIDE DEF sizes
    <3> QED
      BY <2>1, <3>4, BookFillsIsSound
  <2>3. after \in IF kill THEN {CancelAllQuotes(b) : b \in filled}
                          ELSE UNION {Quoted(b, book) : b \in filled}
    BY <1>2 DEF AfterTick
  <2> HIDE DEF filled
  <2>4. CASE kill
    BY <2>2, <2>3, <2>4, CancelIsSound
  <2>5. CASE ~kill
    <3>1. PICK b \in filled : after \in Quoted(b, book)
      BY <2>3, <2>5
    <3> QED
      BY <3>1, <2>2, <2>5, QuotedIsSound
  <2> QED
    BY <2>4, <2>5
<1> QED
  BY <1>1, <1>2

-----------------------------------------------------------------------------
(* The inductive invariant. *)

(* There is a task exactly while _running is set. *)
TaskRuns == running <=> tick.at \in {"idle", "book", "dex", "v3", "arb"}

(* At most one pending pair switch will restart the loop, and none does     *)
(* while it runs.                                                           *)
OneRestart ==
  \A o \in Operators : request[o].was =>
    /\ ~running
    /\ request[o].phase = "probing"
    /\ \A r \in Operators : request[r].was => r = o

(* A loop that runs or will be restarted has not used up its errors. *)
ErrorsLeft ==
  (running \/ \E o \in Operators : request[o].was) => errors < MaxErrors

(* The LP book of a tick that awaits the flash-arb simulation is its         *)
(* checkpoint or ahead of it.                                                *)
CheckpointBehind ==
  tick.at = "arb" => tick.checkpoint \in Nat /\ tick.checkpoint <= lp

LoopInv ==
  /\ TypeOK /\ RestingIsFunded /\ PositionCapped
  /\ KillMeansNoQuotes /\ BookIsSaved
  /\ TaskRuns /\ OneRestart /\ ErrorsLeft /\ CheckpointBehind

(* The resting states of the task are well typed. *)
LEMMA TaskTypes ==
  LET T == [at : {"off", "idle", "book", "dex", "v3", "arb", "closed"},
            pair : Pairs, book : Books, checkpoint : Nat \cup {NoCheckpoint}]
  IN  /\ AtIdle \in T /\ AtIdle.at = "idle"
      /\ AtOff \in T /\ AtOff.at = "off"
      /\ [AtIdle EXCEPT !.at = "closed"] \in T
      /\ [AtIdle EXCEPT !.at = "closed"].at = "closed"
BY LoopConstants DEF AtIdle, AtOff, Books

(* A fresh broker is sound. *)
LEMMA FreshIsSound ==
  Sound(FreshBroker) /\ FreshBroker.open = NoQuotes
<1>1. NoQuote \in Quotes /\ NoQuote.size = 0
  BY SizeTypes, LoopConstants DEF NoQuote, Quotes
<1>2. NoQuotes \in [Sides -> Quotes]
  BY <1>1 DEF NoQuotes
<1>3. FreshBroker \in Brokers /\ FreshBroker.open = NoQuotes /\ FreshBroker.base = 0
  BY <1>2, LoopConstants DEF FreshBroker, Brokers, Sides
<1>4. \A s \in Sides : ~Resting(FreshBroker, s)
  BY <1>1, <1>3 DEF Resting, NoQuotes
<1> QED
  BY <1>3, <1>4, LoopConstants DEF Sound, Funded, Capped, Sides

(* Soundness of the broker and the variables a tick may change. *)
TickVarsOK ==
  /\ Sound(broker) /\ (kill => broker.open = NoQuotes)
  /\ saved = Position(broker)
  /\ lp \in Nat /\ lpSaved \in Nat /\ drift \in Nat
  /\ errors \in 0..MaxErrors /\ running \in BOOLEAN
  /\ running => errors < MaxErrors
  /\ tick \in {AtIdle, AtOff}
  /\ running <=> tick = AtIdle

(* A failed tick either leaves errors to spare or ends the task. *)
LEMMA FailureIsCounted ==
  ASSUME LoopInv, running, TickFailed
  PROVE  /\ errors' \in 0..MaxErrors /\ running' \in BOOLEAN
         /\ running' => errors' < MaxErrors
         /\ tick' \in {AtIdle, AtOff}
         /\ running' <=> tick' = AtIdle
<1>1. MaxErrors \in Nat /\ errors \in 0..MaxErrors /\ errors < MaxErrors
  BY LoopConstants DEF LoopInv, TypeOK, ErrorsLeft
<1>2. errors' = errors + 1 /\ errors' \in 0..MaxErrors
  BY <1>1 DEF TickFailed
<1>3. AtIdle # AtOff
  BY TaskTypes
<1>4. CASE GivesUp(errors + 1)
  BY <1>2, <1>3, <1>4 DEF TickFailed
<1>5. CASE ~GivesUp(errors + 1)
  BY <1>1, <1>2, <1>3, <1>5 DEF TickFailed, GivesUp
<1> QED
  BY <1>4, <1>5

(* Both ends of a tick, the commit and the restore, keep the books right. *)
LEMMA ConcludeIsSound ==
  ASSUME LoopInv, running, NEW book \in Books, NEW mem \in Nat,
         NEW check \in Nat \cup {NoCheckpoint},
         Conclude(book, mem, check), kill' = kill
  PROVE  TickVarsOK'
<1>1. Sound(broker) /\ tick.pair \in Pairs /\ lpSaved \in Nat /\ MaxErrors \in Nat
      /\ MaxErrors > 0 /\ drift \in Nat
  BY LoopConstants DEF LoopInv, TypeOK, RestingIsFunded, PositionCapped, Sound
<1>2. PICK after \in AfterTick(book) :
        \/ /\ broker' = after
           /\ saved' = Position(after)
           /\ lp' = mem
           /\ lpSaved' = IF check = NoCheckpoint THEN lpSaved ELSE mem
           /\ drift' = IF check = NoCheckpoint THEN drift ELSE 0
           /\ errors' = 0
           /\ tick' = AtIdle
           /\ UNCHANGED running
        \/ /\ broker' = RestoreCheckpoint(broker, after)
           /\ lp' = RestoreLp(check, mem)
           /\ TickFailed
           /\ UNCHANGED <<saved, lpSaved, drift>>
  BY DEF Conclude, PersistTick
<1>3. Sound(after) /\ (kill => after.open = NoQuotes)
  BY <1>1, TickIsSound
<1>4. CASE broker' = after /\ saved' = Position(after) /\ lp' = mem
           /\ lpSaved' = (IF check = NoCheckpoint THEN lpSaved ELSE mem)
           /\ drift' = (IF check = NoCheckpoint THEN drift ELSE 0)
           /\ errors' = 0 /\ tick' = AtIdle /\ running' = running
  <2>1. Sound(broker)' /\ (kill' => broker'.open = NoQuotes)
        /\ saved' = Position(broker)'
    BY <1>3, <1>4 DEF Sound, Brokers, Quotes, Funded, Capped, Resting, Position,
                      WithinLimits, Cost, Abs
  <2>2. lp' \in Nat /\ lpSaved' \in Nat /\ drift' \in Nat
    BY <1>1, <1>4
  <2>3. errors' \in 0..MaxErrors /\ errors' < MaxErrors
    BY <1>1, <1>4
  <2> QED
    BY <2>1, <2>2, <2>3, <1>4 DEF TickVarsOK
<1>5. CASE broker' = broker /\ lp' = RestoreLp(check, mem) /\ TickFailed
           /\ UNCHANGED <<saved, lpSaved, drift>>
  <2>1. Sound(broker)' /\ (kill' => broker'.open = NoQuotes)
        /\ saved' = Position(broker)'
    BY <1>1, <1>5 DEF Sound, Funded, Capped, Resting, Position, LoopInv,
                      KillMeansNoQuotes, BookIsSaved
  <2>2. lp' \in Nat /\ lpSaved' \in Nat /\ drift' \in Nat
    BY <1>1, <1>5 DEF RestoreLp, NoCheckpoint
  <2> QED
    BY <2>1, <2>2, <1>5, FailureIsCounted DEF TickVarsOK
<1> QED
  BY <1>2, <1>4, <1>5 DEF RestoreCheckpoint

(* The conclusion of a tick preserves the invariant. *)
LEMMA TickVarsPreserve ==
  ASSUME LoopInv, running, TickVarsOK', snapshot' \in Books,
         UNCHANGED <<pair, kill, request, ticks, switches>>
  PROVE  LoopInv'
<1>1. TypeOK'
  BY TaskTypes DEF TickVarsOK, LoopInv, TypeOK, Sound, Brokers, Position
<1>2. RestingIsFunded' /\ PositionCapped' /\ KillMeansNoQuotes' /\ BookIsSaved'
  BY DEF TickVarsOK, Sound, RestingIsFunded, PositionCapped, KillMeansNoQuotes, BookIsSaved
<1>3. TaskRuns'
  BY TaskTypes DEF TickVarsOK, TaskRuns
<1>4. OneRestart' /\ ErrorsLeft' /\ CheckpointBehind'
  <2>1. \A o \in Operators : ~request[o].was
    BY DEF LoopInv, OneRestart
  <2> QED
    BY <2>1, TaskTypes DEF OneRestart, ErrorsLeft, TickVarsOK, CheckpointBehind
<1> QED
  BY <1>1, <1>2, <1>3, <1>4 DEF LoopInv

LEMMA LoopInvInit == Init => LoopInv
<1> SUFFICES ASSUME Init PROVE LoopInv
  OBVIOUS
<1>1. Sound(broker) /\ broker.open = NoQuotes
  BY FreshIsSound DEF Init
<1>2. TypeOK
  <2>1. Position(FreshBroker) \in [base : Nat, quote : Nat]
    BY LoopConstants DEF Position, FreshBroker
  <2>2. NoBook \in Books /\ Idle \in [phase : {"none", "probing"}, target : Pairs, was : BOOLEAN]
    BY LoopConstants DEF Books, Idle
  <2>3. request \in [Operators -> [phase : {"none", "probing"}, target : Pairs, was : BOOLEAN]]
    BY <2>2 DEF Init
  <2>4. 0 \in 0..MaxErrors /\ 0 \in 0..MaxTicks /\ 0 \in 0..MaxSwitches /\ FirstPair \in Pairs
    BY LoopConstants
  <2> QED
    BY <1>1, <2>1, <2>2, <2>3, <2>4, TaskTypes DEF Init, TypeOK, Sound
<1>3. RestingIsFunded /\ PositionCapped /\ KillMeansNoQuotes /\ BookIsSaved
  BY <1>1 DEF Init, Sound, RestingIsFunded, PositionCapped, KillMeansNoQuotes, BookIsSaved
<1>4. TaskRuns /\ OneRestart /\ ErrorsLeft /\ CheckpointBehind
  BY TaskTypes, LoopConstants DEF Init, TaskRuns, OneRestart, ErrorsLeft, Idle,
                                  CheckpointBehind
<1> QED
  BY <1>2, <1>3, <1>4 DEF LoopInv

(* A task step that neither concludes nor fails the tick. *)
LEMMA WaitPreserves ==
  ASSUME LoopInv, running, running' = running, lp' \in Nat, snapshot' \in Books,
         tick' \in [at : {"off", "idle", "book", "dex", "v3", "arb", "closed"},
                    pair : Pairs, book : Books, checkpoint : Nat \cup {NoCheckpoint}],
         tick'.at \in {"idle", "book", "dex", "v3", "arb"},
         ticks' \in 0..MaxTicks,
         CheckpointBehind',
         UNCHANGED <<pair, broker, kill, errors, lpSaved, drift, saved, request, switches>>
  PROVE  LoopInv'
<1>1. TypeOK'
  BY DEF LoopInv, TypeOK
<1>2. RestingIsFunded' /\ PositionCapped' /\ KillMeansNoQuotes' /\ BookIsSaved'
  BY DEF LoopInv, RestingIsFunded, PositionCapped, KillMeansNoQuotes, BookIsSaved
<1>3. TaskRuns' /\ OneRestart' /\ ErrorsLeft'
  BY DEF LoopInv, TaskRuns, OneRestart, ErrorsLeft
<1> QED
  BY <1>1, <1>2, <1>3 DEF LoopInv

(* What a cancelled tick leaves in the LP book is an observation or none.   *)
LEMMA SteppedIsNat ==
  ASSUME LoopInv
  PROVE  Stepped \in Nat
BY DEF LoopInv, TypeOK, CheckpointBehind, Stepped

LEMMA LoopInvNext == LoopInv /\ [Next]_vars => LoopInv'
<1> SUFFICES ASSUME LoopInv, [Next]_vars PROVE LoopInv'
  OBVIOUS
<1> DEFINE T == [at : {"off", "idle", "book", "dex", "v3", "arb", "closed"},
                 pair : Pairs, book : Books, checkpoint : Nat \cup {NoCheckpoint}]
<1>0. tick \in T /\ TypeOK /\ lp \in Nat /\ snapshot \in Books /\ ticks \in 0..MaxTicks
  BY DEF LoopInv, TypeOK
<1>1. CASE StartTick
  <2>1. running
    BY <1>1 DEF StartTick
  <2>2. tick' \in T /\ tick'.at = "book"
    BY <1>0, <1>1, TaskTypes DEF StartTick, AtIdle, TypeOK
  <2>3. ticks' \in 0..MaxTicks
    BY <1>0, <1>1, LoopConstants DEF StartTick
  <2> QED
    BY <1>0, <1>1, <2>1, <2>2, <2>3, WaitPreserves DEF StartTick, CheckpointBehind
<1>2. CASE FetchBook
  <2>1. running
    BY <1>2 DEF FetchBook, LoopInv, TaskRuns
  <2>2. PICK b \in Books :
          /\ snapshot' = b
          /\ IF "dex" \in Venues
               THEN /\ tick' = [tick EXCEPT !.at = "dex", !.book = b]
                    /\ UNCHANGED <<broker, running, errors, lp, lpSaved, drift, saved>>
               ELSE Conclude(b, lp, NoCheckpoint)
    BY <1>2 DEF FetchBook
  <2>3. CASE "dex" \in Venues
    <3>1. tick' \in T /\ tick'.at = "dex"
      BY <1>0, <2>2, <2>3
    <3> QED
      BY <1>0, <1>2, <2>1, <2>2, <2>3, <3>1, WaitPreserves DEF FetchBook, CheckpointBehind
  <2>4. CASE "dex" \notin Venues
    <3>1. TickVarsOK'
      BY <1>0, <1>2, <2>1, <2>2, <2>4, ConcludeIsSound DEF FetchBook
    <3> QED
      BY <1>2, <2>1, <2>2, <3>1, TickVarsPreserve DEF FetchBook
  <2> QED
    BY <2>3, <2>4
<1>3. CASE FetchDex
  <2>1. running
    BY <1>3 DEF FetchDex, LoopInv, TaskRuns
  <2>2. CASE "v3" \in Venues
    <3>1. tick' \in T /\ tick'.at = "v3"
      BY <1>0, <1>3, <2>2 DEF FetchDex
    <3> QED
      BY <1>0, <1>3, <2>1, <2>2, <3>1, WaitPreserves DEF FetchDex, CheckpointBehind
  <2>3. CASE "v3" \notin Venues
    <3>1. tick.book \in Books
      BY <1>0
    <3>2. TickVarsOK'
      BY <1>0, <1>3, <2>1, <2>3, <3>1, ConcludeIsSound DEF FetchDex
    <3> QED
      BY <1>0, <1>3, <2>1, <3>2, TickVarsPreserve DEF FetchDex
  <2> QED
    BY <2>2, <2>3
<1>4. CASE FetchFails
  <2>1. running
    BY <1>4 DEF FetchFails, LoopInv, TaskRuns
  <2>2. Sound(broker)' /\ (kill' => broker'.open = NoQuotes) /\ saved' = Position(broker)'
    BY <1>4 DEF FetchFails, LoopInv, TypeOK, Sound, RestingIsFunded, PositionCapped,
                KillMeansNoQuotes, BookIsSaved, Position
  <2>3. TickVarsOK'
    BY <1>4, <2>1, <2>2, FailureIsCounted DEF FetchFails, TickVarsOK, LoopInv, TypeOK
  <2> QED
    BY <1>0, <1>4, <2>1, <2>3, TickVarsPreserve DEF FetchFails
<1>5. CASE FetchV3
  <2>1. running /\ tick.book \in Books
    BY <1>0, <1>5 DEF FetchV3, LoopInv, TaskRuns
  <2>2. CASE Conclude(tick.book, lp, NoCheckpoint)
    <3>1. TickVarsOK'
      BY <1>0, <1>5, <2>1, <2>2, ConcludeIsSound DEF FetchV3
    <3> QED
      BY <1>0, <1>5, <2>1, <3>1, TickVarsPreserve DEF FetchV3
  <2>3. ASSUME NEW mem \in {lp, lp + 1},
               IF "arb" \in Venues
                 THEN /\ tick' = [tick EXCEPT !.at = "arb", !.checkpoint = lp]
                      /\ lp' = mem
                      /\ UNCHANGED <<broker, running, errors, lpSaved, drift, saved>>
                 ELSE Conclude(tick.book, mem, lp)
        PROVE  LoopInv'
    <3>0. mem \in Nat
      BY <1>0
    <3>1. CASE "arb" \in Venues
      <4>1. tick' \in T /\ tick'.at = "arb" /\ lp' \in Nat /\ CheckpointBehind'
        <5>1. tick' \in T /\ tick'.at = "arb" /\ tick'.checkpoint = lp /\ lp' = mem
          BY <1>0, <2>3, <3>1
        <5>2. lp <= mem
          BY <1>0, <3>0
        <5> QED
          BY <1>0, <3>0, <5>1, <5>2 DEF CheckpointBehind
      <4>2. tick'.at \in {"idle", "book", "dex", "v3", "arb"}
        BY <4>1
      <4>3. UNCHANGED <<pair, broker, kill, errors, lpSaved, drift, saved, request,
                        switches, running, snapshot, ticks>>
        BY <1>5, <2>3, <3>1 DEF FetchV3
      <4> QED
        BY <1>0, <2>1, <4>1, <4>2, <4>3, WaitPreserves
    <3>2. CASE "arb" \notin Venues
      <4>1. TickVarsOK'
        BY <1>0, <1>5, <2>1, <2>3, <3>0, <3>2, ConcludeIsSound DEF FetchV3
      <4> QED
        BY <1>0, <1>5, <2>1, <4>1, TickVarsPreserve DEF FetchV3
    <3> QED
      BY <3>1, <3>2
  <2> QED
    BY <1>5, <2>2, <2>3 DEF FetchV3
<1>6. CASE FlashArb
  <2>1. running /\ tick.book \in Books /\ tick.checkpoint \in Nat \cup {NoCheckpoint}
    BY <1>0, <1>6 DEF FlashArb, LoopInv, TaskRuns
  <2>2. TickVarsOK'
    BY <1>0, <1>6, <2>1, ConcludeIsSound DEF FlashArb
  <2> QED
    BY <1>0, <1>6, <2>1, <2>2, TickVarsPreserve DEF FlashArb
<1>7. ASSUME NEW active \in BOOLEAN, SetKillSwitch(active) PROVE LoopInv'
  <2>1. Sound(broker)
    BY DEF LoopInv, TypeOK, Sound, RestingIsFunded, PositionCapped
  <2>2. Sound(CancelAllQuotes(broker)) /\ CancelAllQuotes(broker).open = NoQuotes
        /\ Position(CancelAllQuotes(broker)) = Position(broker)
    BY <2>1, CancelIsSound DEF CancelAllQuotes, Position, Sound, Brokers
  <2>3. /\ broker' \in Brokers /\ RestingIsFunded' /\ PositionCapped'
        /\ KillMeansNoQuotes' /\ BookIsSaved'
    <3>1. CASE active
      <4>1. broker' = CancelAllQuotes(broker) /\ saved' = saved
        BY <1>7, <3>1 DEF SetKillSwitch
      <4> QED
        BY <2>2, <4>1 DEF Sound, RestingIsFunded, PositionCapped, KillMeansNoQuotes,
                          BookIsSaved, LoopInv
    <3>2. CASE ~active
      BY <1>7, <2>1, <3>2 DEF SetKillSwitch, Sound, RestingIsFunded, PositionCapped,
                          KillMeansNoQuotes, BookIsSaved, LoopInv
    <3> QED
      BY <3>1, <3>2
  <2>4. TypeOK' /\ TaskRuns' /\ OneRestart' /\ ErrorsLeft' /\ CheckpointBehind'
    BY <1>7, <2>3 DEF SetKillSwitch, LoopInv, TypeOK, TaskRuns, OneRestart, ErrorsLeft,
                      CheckpointBehind
  <2> QED
    BY <2>3, <2>4 DEF LoopInv
<1>8. ASSUME NEW o \in Operators, NEW target \in Pairs, SwitchBegin(o, target)
      PROVE  LoopInv'
  <2> DEFINE new == [phase |-> "probing", target |-> target, was |-> running]
  <2>1. request' = [request EXCEPT ![o] = new] /\ running' = FALSE /\ tick' = AtOff
    BY <1>8 DEF SwitchBegin
  <2>2. \A r \in Operators : request'[r] = IF r = o THEN new ELSE request[r]
    BY <2>1 DEF LoopInv, TypeOK
  <2>3. TypeOK'
    <3>1. request' \in [Operators -> [phase : {"none", "probing"}, target : Pairs,
                                      was : BOOLEAN]]
      BY <2>1 DEF LoopInv, TypeOK
    <3>2. switches' \in 0..MaxSwitches
      BY <1>8, LoopConstants DEF SwitchBegin, LoopInv, TypeOK
    <3>3. drift' \in Nat
      <4>1. Stepped \in Nat /\ drift \in Nat /\ drift' = drift + Stepped
        BY <1>8, SteppedIsNat DEF SwitchBegin, LoopInv, TypeOK
      <4> QED
        BY <4>1
    <3> QED
      BY <1>8, <2>1, <3>1, <3>2, <3>3, TaskTypes DEF SwitchBegin, LoopInv, TypeOK
  <2>4. RestingIsFunded' /\ PositionCapped' /\ KillMeansNoQuotes' /\ BookIsSaved'
    BY <1>8 DEF SwitchBegin, LoopInv, RestingIsFunded, PositionCapped,
                KillMeansNoQuotes, BookIsSaved
  <2>5. TaskRuns'
    BY <2>1, TaskTypes DEF TaskRuns
  <2>6. request[o].was = FALSE /\ (running => \A r \in Operators : ~request[r].was)
    <3>1. request[o].was \in BOOLEAN
      BY DEF LoopInv, TypeOK
    <3> QED
      BY <1>8, <3>1 DEF SwitchBegin, LoopInv, OneRestart
  <2>7. OneRestart'
    BY <2>1, <2>2, <2>6 DEF LoopInv, OneRestart
  <2>8. ErrorsLeft'
    BY <1>8, <2>1, <2>2 DEF SwitchBegin, LoopInv, ErrorsLeft
  <2>9. CheckpointBehind'
    BY <2>1, TaskTypes DEF CheckpointBehind
  <2> QED
    BY <2>3, <2>4, <2>5, <2>7, <2>8, <2>9 DEF LoopInv
<1>9. ASSUME NEW o \in Operators, SwitchFinish(o) PROVE LoopInv'
  <2>1. /\ request' = [request EXCEPT ![o] = Idle]
        /\ broker' = FreshBroker /\ saved' = Position(FreshBroker)
        /\ pair' = request[o].target /\ snapshot' = NoBook
    BY <1>9 DEF SwitchFinish
  <2>2. \A r \in Operators : request'[r] = IF r = o THEN Idle ELSE request[r]
    BY <2>1 DEF LoopInv, TypeOK
  <2>3. \/ Restarts(o) /\ running' = TRUE /\ tick' = AtIdle
        \/ ~Restarts(o) /\ running' = running /\ tick' = tick
    BY <1>9 DEF SwitchFinish
  <2>4. TypeOK'
    <3>1. request' \in [Operators -> [phase : {"none", "probing"}, target : Pairs,
                                      was : BOOLEAN]]
      BY <2>1, LoopConstants DEF LoopInv, TypeOK, Idle
    <3>2. broker' \in Brokers /\ saved' \in [base : Nat, quote : Nat]
      BY <2>1, FreshIsSound, LoopConstants DEF Sound, Position, FreshBroker
    <3>3. tick' \in T /\ running' \in BOOLEAN
      BY <1>0, <2>3, TaskTypes DEF TypeOK
    <3>4. pair' \in Pairs /\ snapshot' \in Books
      BY <2>1, <1>9 DEF LoopInv, TypeOK, Books
    <3> QED
      BY <1>9, <3>1, <3>2, <3>3, <3>4 DEF SwitchFinish, LoopInv, TypeOK
  <2>5. RestingIsFunded' /\ PositionCapped' /\ KillMeansNoQuotes' /\ BookIsSaved'
    BY <2>1, FreshIsSound DEF Sound, RestingIsFunded, PositionCapped, KillMeansNoQuotes,
                              BookIsSaved
  <2>6. TaskRuns'
    BY <2>3, TaskTypes DEF LoopInv, TaskRuns
  <2>7. OneRestart'
    BY <2>2, <2>3 DEF LoopInv, OneRestart, Restarts, Idle
  <2>8. ErrorsLeft'
    BY <1>9, <2>2, <2>3 DEF SwitchFinish, LoopInv, ErrorsLeft, Restarts, Idle
  <2>9. CheckpointBehind'
    BY <1>9, <2>3, TaskTypes DEF SwitchFinish, LoopInv, CheckpointBehind
  <2> QED
    BY <2>4, <2>5, <2>6, <2>7, <2>8, <2>9 DEF LoopInv
<1>10. CASE Stop
  <2>1. TypeOK' /\ TaskRuns' /\ CheckpointBehind'
    <3>1. drift' \in Nat
      <4>1. Stepped \in Nat /\ drift \in Nat /\ drift' = drift + Stepped
        BY <1>10, SteppedIsNat DEF Stop, LoopInv, TypeOK
      <4> QED
        BY <4>1
    <3> QED
      BY <1>10, <3>1, TaskTypes DEF Stop, LoopInv, TypeOK, TaskRuns, CheckpointBehind
  <2>2. RestingIsFunded' /\ PositionCapped' /\ KillMeansNoQuotes' /\ BookIsSaved'
    BY <1>10 DEF Stop, LoopInv, RestingIsFunded, PositionCapped, KillMeansNoQuotes,
                 BookIsSaved
  <2>3. OneRestart' /\ ErrorsLeft'
    BY <1>10 DEF Stop, LoopInv, OneRestart, ErrorsLeft
  <2> QED
    BY <2>1, <2>2, <2>3 DEF LoopInv
<1>11. CASE UNCHANGED vars
  BY <1>11 DEF vars, LoopInv, TypeOK, RestingIsFunded, PositionCapped,
               KillMeansNoQuotes, BookIsSaved, TaskRuns, OneRestart, ErrorsLeft,
               CheckpointBehind
<1>12. CASE V3StepFails
  <2>1. running /\ lp' \in Nat /\ drift' \in Nat
    BY <1>0, <1>12 DEF V3StepFails, LoopInv, TaskRuns, TypeOK
  <2>2. Sound(broker)' /\ (kill' => broker'.open = NoQuotes) /\ saved' = Position(broker)'
    BY <1>12 DEF V3StepFails, LoopInv, TypeOK, Sound, RestingIsFunded, PositionCapped,
                 KillMeansNoQuotes, BookIsSaved, Position
  <2>3. TickVarsOK'
    BY <1>12, <2>1, <2>2, FailureIsCounted DEF V3StepFails, TickVarsOK, LoopInv, TypeOK
  <2> QED
    BY <1>0, <1>12, <2>1, <2>3, TickVarsPreserve DEF V3StepFails
<1> QED
  BY <1>1, <1>2, <1>3, <1>4, <1>5, <1>6, <1>7, <1>8, <1>9, <1>10, <1>11, <1>12
  DEF Next, Task, Stopped

(* The invariant holds in every reachable state, for every fill mode, every *)
(* set of venues, pairs and operators and every bound.                      *)
THEOREM LoopInvariant == Spec => []LoopInv
BY LoopInvInit, LoopInvNext, PTL DEF Spec

(* Type correctness of the loop: balances never go negative and the error   *)
(* count never passes the limit, concurrent pair switches included.         *)
THEOREM LoopTypeCorrect == Spec => []TypeOK
<1>1. LoopInv => TypeOK
  BY DEF LoopInv
<1> QED
  BY <1>1, LoopInvariant, PTL

(* Everything resting can be paid for: apply_fill never refuses a fill.     *)
THEOREM LoopRestingIsFunded == Spec => []RestingIsFunded
<1>1. LoopInv => RestingIsFunded
  BY DEF LoopInv
<1> QED
  BY <1>1, LoopInvariant, PTL

(* The position caps hold, also for what the resting bid may add.           *)
THEOREM LoopPositionCapped == Spec => []PositionCapped
<1>1. LoopInv => PositionCapped
  BY DEF LoopInv
<1> QED
  BY <1>1, LoopInvariant, PTL

(* No quote rests while the kill switch is on.                              *)
THEOREM LoopKillMeansNoQuotes == Spec => []KillMeansNoQuotes
<1>1. LoopInv => KillMeansNoQuotes
  BY DEF LoopInv
<1> QED
  BY <1>1, LoopInvariant, PTL

(* The broker is always the one the last persisted tick describes.          *)
THEOREM LoopBookIsSaved == Spec => []BookIsSaved
<1>1. LoopInv => BookIsSaved
  BY DEF LoopInv
<1> QED
  BY <1>1, LoopInvariant, PTL
-----------------------------------------------------------------------------
(* The LP book and its row.                                                 *)

(* The two ends of a tick: a row written with an LP state catches up with   *)
(* the book, a refused one leaves the book where the tick found it.         *)
LEMMA ConcludeSavesLp ==
  ASSUME LoopInv, NEW book, NEW mem \in Nat, NEW check \in Nat \cup {NoCheckpoint},
         Conclude(book, mem, check),
         check = NoCheckpoint => mem = lpSaved + drift,
         check # NoCheckpoint => check = lpSaved + drift
  PROVE  LpIsSaved'
<1>0. lpSaved \in Nat /\ drift \in Nat
  BY DEF LoopInv, TypeOK
<1>1. PICK after \in AfterTick(book) :
        \/ /\ lp' = mem
           /\ lpSaved' = IF check = NoCheckpoint THEN lpSaved ELSE mem
           /\ drift' = IF check = NoCheckpoint THEN drift ELSE 0
           /\ tick' = AtIdle
        \/ /\ lp' = RestoreLp(check, mem)
           /\ TickFailed
           /\ UNCHANGED <<saved, lpSaved, drift>>
  BY DEF Conclude, PersistTick
<1>2. Stepped' = 0
  BY <1>1, TaskTypes DEF TickFailed, Stepped
<1> QED
  BY <1>0, <1>1, <1>2 DEF RestoreLp, LpIsSaved

(* What a tick awaits does not move the row, and what it leaves is counted. *)
LEMMA LpIsSavedNext ==
  ASSUME LoopInv, LpIsSaved, [Next]_vars
  PROVE  LpIsSaved'
<1> USE TaskTypes DEF LpIsSaved, Stepped
<1>0. /\ tick \in [at : {"off", "idle", "book", "dex", "v3", "arb", "closed"},
                   pair : Pairs, book : Books, checkpoint : Nat \cup {NoCheckpoint}]
      /\ lp \in Nat /\ lpSaved \in Nat /\ drift \in Nat
      /\ NoCheckpoint \notin Nat /\ NoCheckpoint \in Nat \cup {NoCheckpoint}
      /\ tick.at = "arb" => tick.checkpoint \in Nat
  BY DEF LoopInv, TypeOK, NoCheckpoint, CheckpointBehind
<1>1. CASE StartTick
  BY <1>0, <1>1 DEF StartTick, AtIdle
<1>2. CASE FetchBook
  <2>1. CASE "dex" \in Venues
    BY <1>0, <1>2, <2>1 DEF FetchBook
  <2>2. CASE "dex" \notin Venues
    BY <1>0, <1>2, <2>2, ConcludeSavesLp DEF FetchBook
  <2> QED
    BY <2>1, <2>2
<1>3. CASE FetchDex
  <2>1. CASE "v3" \in Venues
    BY <1>0, <1>3, <2>1 DEF FetchDex
  <2>2. CASE "v3" \notin Venues
    BY <1>0, <1>3, <2>2, ConcludeSavesLp DEF FetchDex
  <2> QED
    BY <2>1, <2>2
<1>4. CASE FetchFails
  BY <1>0, <1>4 DEF FetchFails, TickFailed
<1>5. CASE FetchV3
  <2>1. CASE Conclude(tick.book, lp, NoCheckpoint)
    BY <1>0, <1>5, <2>1, ConcludeSavesLp DEF FetchV3
  <2>2. ASSUME NEW mem \in {lp, lp + 1}, "arb" \notin Venues, Conclude(tick.book, mem, lp)
        PROVE  LpIsSaved'
    <3>1. mem \in Nat /\ lp = lpSaved + drift /\ lp # NoCheckpoint
      BY <1>0, <1>5, <2>2 DEF FetchV3
    <3> QED
      BY <1>0, <2>2, <3>1, ConcludeSavesLp
  <2>3. ASSUME NEW mem \in {lp, lp + 1}, "arb" \in Venues,
               tick' = [tick EXCEPT !.at = "arb", !.checkpoint = lp], lp' = mem,
               UNCHANGED <<broker, running, errors, lpSaved, drift, saved>>
        PROVE  LpIsSaved'
    BY <1>0, <1>5, <2>3 DEF FetchV3
  <2> QED
    BY <1>5, <2>1, <2>2, <2>3 DEF FetchV3
<1>6. CASE FlashArb
  <2>1. tick.checkpoint \in Nat /\ tick.checkpoint # NoCheckpoint
        /\ tick.checkpoint = lpSaved + drift
    BY <1>0, <1>6 DEF FlashArb
  <2> QED
    BY <1>0, <1>6, <2>1, ConcludeSavesLp DEF FlashArb
<1>7. ASSUME NEW active \in BOOLEAN, SetKillSwitch(active) PROVE LpIsSaved'
  BY <1>7 DEF SetKillSwitch
<1>8. ASSUME NEW o \in Operators, NEW target \in Pairs, SwitchBegin(o, target)
      PROVE  LpIsSaved'
  BY <1>0, <1>8 DEF SwitchBegin
<1>9. ASSUME NEW o \in Operators, SwitchFinish(o) PROVE LpIsSaved'
  BY <1>0, <1>9 DEF SwitchFinish, Restarts, LoopInv, TaskRuns
<1>10. CASE Stop
  BY <1>0, <1>10 DEF Stop
<1>11. CASE UNCHANGED vars
  BY <1>11 DEF vars
<1>12. CASE V3StepFails
  BY <1>0, <1>12 DEF V3StepFails, TickFailed
<1> QED
  BY <1>1, <1>2, <1>3, <1>4, <1>5, <1>6, <1>7, <1>8, <1>9, <1>10, <1>11, <1>12
  DEF Next, Task, Stopped

(* The LP book is its last row plus what the tick in progress, ticks that   *)
(* raised in their V3 step and ticks cancelled behind it have put into it,  *)
(* and nothing else: not through refused commits, stale reads or failing    *)
(* fetches, for every set of venues and operators, pair switches and the    *)
(* stop of the loop at any of its awaits included.                          *)
THEOREM LoopLpIsSaved == Spec => []LpIsSaved
<1>1. Init => LpIsSaved
  BY TaskTypes DEF Init, LpIsSaved, Stepped
<1>2. LoopInv /\ LpIsSaved /\ [Next]_vars => LpIsSaved'
  BY LpIsSavedNext
<1> QED
  BY <1>1, <1>2, LoopInvariant, PTL DEF Spec
-----------------------------------------------------------------------------
(* The latency model: a crossed quote matures.                              *)

(* A fill of a sound broker is never refused.                               *)
LEMMA FillIsBooked ==
  ASSUME NEW b, Sound(b), NEW s \in Sides, NEW n \in 0..b.open[s].size
  PROVE  LET a == ApplyFill(b, s, n)
             p == b.open[s].price
         IN  /\ a.base = b.base + (IF s = "bid" THEN n ELSE -n)
             /\ a.quote = b.quote + (IF s = "bid" THEN -Cost(p, n) ELSE Proceeds(p, n))
             /\ n = 0 => a = b
<1> DEFINE q == b.open[s]
<1>1. /\ q.price \in Nat /\ q.size \in Nat /\ n \in Nat /\ n <= q.size
      /\ b.base \in Nat /\ b.quote \in Nat /\ b.open \in [Sides -> Quotes]
  BY QuoteTypes DEF Sound, Brokers
<1>2. /\ Cost(q.price, n) \in Nat /\ Cost(q.price, q.size) \in Nat
      /\ Cost(q.price, n) <= Cost(q.price, q.size) /\ Proceeds(q.price, n) \in Nat
  <2> HIDE DEF q
  <2> QED
    BY <1>1, CostFacts
<1>3. CASE n = 0
  <2>1. \A p \in Nat : p * 0 = 0 /\ Cost(p, 0) = 0 /\ Proceeds(p, 0) = 0
    <3>1. \A p \in Nat : p * 0 = 0
      BY SMT
    <3>2. \A k \in Int : k * 0 = 0
      BY SMT
    <3>3. 10000 + MakerFeeBps \in Int /\ 10000 - MakerFeeBps \in Int
      BY LoopConstants
    <3> QED
      BY <3>1, <3>2, <3>3 DEF Cost, Proceeds
  <2>2. ApplyFill(b, s, n) = b
    BY <1>3 DEF ApplyFill
  <2> QED
    BY <1>1, <1>3, <2>1, <2>2
<1>4. CASE n > 0
  <2>1. ~(s = "bid" /\ b.quote < Cost(q.price, n)) /\ ~(s = "ask" /\ b.base < n)
    BY <1>1, <1>2, <1>4 DEF Sound, Funded, Resting
  <2> DEFINE r == Remainder(q, n)
             a == ApplyFill(b, s, n)
  <2>2. CASE s = "bid"
    <3>1. a = [b EXCEPT !.base = b.base + n, !.quote = b.quote - Cost(q.price, n),
                        !.open = [b.open EXCEPT !["bid"] = r]]
      BY <1>1, <1>4, <2>1, <2>2 DEF ApplyFill, Sound, Brokers
    <3> HIDE DEF a, r
    <3>2. a.base = b.base + n /\ a.quote = b.quote - Cost(q.price, n)
      BY <3>1 DEF Sound, Brokers
    <3> QED
      BY <1>1, <1>2, <1>4, <2>2, <3>2 DEF a
  <2>3. CASE s = "ask"
    <3>1. a = [b EXCEPT !.base = b.base - n, !.quote = b.quote + Proceeds(q.price, n),
                        !.open = [b.open EXCEPT !["ask"] = r]]
      BY <1>1, <1>4, <2>1, <2>3 DEF ApplyFill, Sound, Brokers
    <3> HIDE DEF a, r
    <3>2. a.base = b.base - n /\ a.quote = b.quote + Proceeds(q.price, n)
      BY <3>1 DEF Sound, Brokers
    <3> QED
      BY <1>1, <1>2, <1>4, <2>3, <3>2 DEF a
  <2> QED
    BY <2>2, <2>3 DEF Sides
<1> QED
  BY <1>1, <1>3, <1>4

(* Cost and proceeds are natural numbers. *)
LEMMA CostTypes ==
  ASSUME NEW p \in Nat, NEW n \in Nat
  PROVE  Cost(p, n) \in Nat /\ Proceeds(p, n) \in Nat
<1>1. n <= n
  OBVIOUS
<1> QED
  BY <1>1, CostFacts

(* Booking both fills moves the balances by both, in either order, and      *)
(* leaves a quote that does not fill alone.                                 *)
LEMMA BookFillsMoves ==
  ASSUME NEW b, Sound(b), NEW sizes,
         \A s \in Sides : sizes[s] \in 0..b.open[s].size
  PROVE  LET a == BookFills(b, sizes)
         IN  /\ a.base = b.base + sizes["bid"] - sizes["ask"]
             /\ a.quote = b.quote - Cost(b.open["bid"].price, sizes["bid"])
                                  + Proceeds(b.open["ask"].price, sizes["ask"])
             /\ \A s \in Sides : sizes[s] = 0 => a.open[s] = b.open[s]
<1> DEFINE f == b.first
           g == Other(f)
           c == ApplyFill(b, f, sizes[f])
           a == BookFills(b, sizes)
<1>1. f \in Sides /\ g \in Sides /\ Other(g) = f
      /\ ((f = "bid" /\ g = "ask") \/ (f = "ask" /\ g = "bid"))
  BY DEF Sound, Brokers, Sides, Other
<1>2. Sound(c) /\ c.open[g] = b.open[g]
  BY <1>1, FillIsSound
<1>3. a = ApplyFill(c, g, sizes[g])
  BY DEF BookFills
<1>4. sizes[g] \in 0..c.open[g].size
  BY <1>1, <1>2
<1>5. /\ c.base = b.base + (IF f = "bid" THEN sizes[f] ELSE -sizes[f])
      /\ c.quote = b.quote + (IF f = "bid" THEN -Cost(b.open[f].price, sizes[f])
                              ELSE Proceeds(b.open[f].price, sizes[f]))
      /\ sizes[f] = 0 => c = b
  BY <1>1, FillIsBooked
<1> HIDE DEF c, f, g
<1>6. /\ a.base = c.base + (IF g = "bid" THEN sizes[g] ELSE -sizes[g])
      /\ a.quote = c.quote + (IF g = "bid" THEN -Cost(c.open[g].price, sizes[g])
                              ELSE Proceeds(c.open[g].price, sizes[g]))
      /\ sizes[g] = 0 => a = c
      /\ a.open[f] = c.open[f]
  BY <1>1, <1>2, <1>3, <1>4, FillIsBooked, FillIsSound
<1>7. /\ sizes["bid"] \in Nat /\ sizes["ask"] \in Nat /\ b.base \in Nat /\ b.quote \in Nat
      /\ Cost(b.open["bid"].price, sizes["bid"]) \in Nat
      /\ Proceeds(b.open["ask"].price, sizes["ask"]) \in Nat
  <2>1. /\ sizes["bid"] \in Nat /\ sizes["ask"] \in Nat /\ b.base \in Nat /\ b.quote \in Nat
        /\ b.open["bid"].price \in Nat /\ b.open["ask"].price \in Nat
    BY QuoteTypes DEF Sound, Brokers, Sides
  <2> QED
    BY <2>1, CostTypes
<1>8. \A s \in Sides : sizes[s] = 0 => a.open[s] = b.open[s]
  BY <1>1, <1>2, <1>5, <1>6 DEF Sides
<1> HIDE DEF a
<1> QED
  BY <1>1, <1>2, <1>5, <1>6, <1>7, <1>8 DEF a

(* Selling below the price one buys at loses money, fees or not. *)
LEMMA SpreadIsPaid ==
  ASSUME NEW x \in Nat, NEW y \in Nat, x < y, NEW n \in Nat, n > 0
  PROVE  Proceeds(x, n) < Cost(y, n)
<1> DEFINE a == x * n
           b == y * n
           f == MakerFeeBps
<1>1. f \in 0..10000
  BY LoopConstants
<1>2. a \in Nat /\ b \in Nat /\ a < b
  BY SMT
<1> HIDE DEF a, b, f
<1>3. f * a \in Nat /\ f * b \in Nat
  BY <1>1, <1>2
<1>4. (10000 - f) * a = 10000 * a - f * a /\ (10000 + f) * b = 10000 * b + f * b
  BY <1>1, <1>2
<1>5. (10000 - f) * a < (10000 + f) * b
  BY <1>2, <1>3, <1>4
<1> QED
  BY <1>5 DEF Proceeds, Cost, a, b, f

(* So a fill is visible in the balances, also when both sides fill for the  *)
(* same size: a book crosses both only if the bid is above the ask.         *)
LEMMA FillsAreSeen ==
  ASSUME NEW b, Sound(b), NEW book \in Books, NEW sizes,
         \A s \in Sides : sizes[s] \in 0..b.open[s].size,
         \A s \in Sides : sizes[s] > 0 => Crossed(s, b.open[s], book),
         NEW t \in Sides, sizes[t] > 0
  PROVE  Position(BookFills(b, sizes)) # Position(b)
<1> DEFINE n == sizes["bid"]
           m == sizes["ask"]
           p == b.open["bid"].price
           r == b.open["ask"].price
           a == BookFills(b, sizes)
<1>1. n \in Nat /\ m \in Nat /\ p \in Nat /\ r \in Nat /\ b.base \in Nat /\ b.quote \in Nat
      /\ (n > 0 \/ m > 0)
  BY QuoteTypes DEF Sound, Brokers, Sides
<1>2. a.base = b.base + n - m /\ a.quote = b.quote - Cost(p, n) + Proceeds(r, m)
  BY BookFillsMoves
<1>3. CASE n # m
  <2> HIDE DEF a, n, m
  <2>1. Position(a) # Position(b)
    BY <1>1, <1>2, <1>3 DEF Position
  <2> QED
    BY <2>1 DEF a
<1>4. CASE n = m
  <2>1. r < p
    <3>1. Crossed("bid", b.open["bid"], book) /\ Crossed("ask", b.open["ask"], book)
      BY <1>1, <1>4 DEF Sides
    <3>2. book \in FullBooks
      BY <3>1, SizeTypes DEF Books, HasMid, NoBook, Crossed
    <3>3. book.bid \in Nat /\ book.ask \in Nat /\ book.bid < book.ask
      BY <3>2, SizeTypes DEF FullBooks
    <3> QED
      BY <1>1, <3>1, <3>3 DEF Crossed
  <2> HIDE DEF a, n, m, p, r
  <2>2. Proceeds(r, m) < Cost(p, n)
    BY <1>1, <1>4, <2>1, SpreadIsPaid
  <2>3. Proceeds(r, m) \in Nat /\ Cost(p, n) \in Nat
    BY <1>1, CostTypes
  <2>4. Position(a) # Position(b)
    BY <1>1, <1>2, <2>2, <2>3 DEF Position
  <2> QED
    BY <2>4 DEF a
<1> QED
  BY <1>1, <1>3, <1>4

(* The latency model fills crossed quotes only; with certain fills it fills *)
(* every quote that has been crossed for FillLatency ticks.                 *)
LEMMA LatencyFills ==
  ASSUME FillMode = "latency", NEW s \in Sides, NEW q \in Quotes, NEW book \in Books,
         NEW n \in FillSizes(s, q, book)
  PROVE  /\ n > 0 => Crossed(s, q, book)
         /\ (n = 0 /\ q.size > 0 /\ Crossed(s, q, book) /\ CertainFill) => q.streak < FillLatency
<1>1. q.size \in Nat /\ q.streak \in Nat /\ FillLatency \in Nat /\ n \in 0..q.size
  BY QuoteFields, FillSizesBound, LoopConstants
<1>2. CASE q.size = 0 \/ ~HasMid(book)
  BY <1>1, <1>2 DEF FillSizes, Crossed
<1>3. CASE q.size > 0 /\ HasMid(book) /\ ~Crossed(s, q, book)
  BY <1>1, <1>3 DEF FillSizes
<1>4. CASE q.size > 0 /\ HasMid(book) /\ Crossed(s, q, book)
  <2>1. book \in FullBooks
    BY <1>4, SizeTypes DEF Books, HasMid, NoBook
  <2>2. TopOfBook(s, q, book) > 0
    BY <1>1, <1>4, <2>1, SizeTypes DEF TopOfBook, FullBooks
  <2>3. n \in IF ~LatencyMet(q) THEN {0}
              ELSE IF CertainFill THEN {TopOfBook(s, q, book)}
              ELSE {0, TopOfBook(s, q, book)}
    BY <1>1, <1>4 DEF FillSizes
  <2> QED
    BY <1>1, <1>4, <2>2, <2>3 DEF LatencyMet
<1> QED
  BY <1>1, <1>2, <1>3, <1>4

(* Requoting moves no balance and keeps a quote that is being crossed. *)
LEMMA QuotedKeeps ==
  ASSUME FillMode = "latency", NEW b, Sound(b), NEW book, NEW c \in Quoted(b, book),
         NEW s \in Sides
  PROVE  Position(c) = Position(b) /\ (b.open[s].streak > 0 => c.open[s] = b.open[s])
<1>1. PICK approved, price : c = Submit(b, approved, price)
  BY DEF Quoted
<1> DEFINE opened == [t \in Sides |->
              IF Kept(b, t) THEN b.open[t]
              ELSE IF t \in approved
                THEN [pair |-> tick.pair, price |-> price[t], size |-> QuoteSize, streak |-> 0]
                ELSE NoQuote]
           listed == IF Kept(b, "ask") /\ ~Kept(b, "bid") THEN "ask" ELSE "bid"
<1>2. c = [b EXCEPT !.open = opened, !.first = listed]
  BY <1>1 DEF Submit
<1>3. b.open[s].streak > 0 => opened[s] = b.open[s]
  BY DEF Kept
<1> HIDE DEF opened, listed
<1>4. c.base = b.base /\ c.quote = b.quote /\ c.open = opened
  BY <1>2 DEF Sound, Brokers
<1> QED
  BY <1>3, <1>4 DEF Position

(* A live tick with the kill switch off: a crossed quote is one tick older  *)
(* afterwards, and below the latency if fills are certain, or a fill shows. *)
LEMMA TickMatures ==
  ASSUME FillMode = "latency", Sound(broker), NEW book \in Books, ~book.stale, ~kill,
         NEW after \in AfterTick(book), NEW s \in Sides,
         broker.open[s].size > 0, Crossed(s, broker.open[s], book)
  PROVE  \/ /\ after.open[s] = [broker.open[s] EXCEPT !.streak = @ + 1]
            /\ CertainFill => after.open[s].streak < FillLatency
         \/ Position(after) # Position(broker)
<1> DEFINE q == broker.open[s]
           seen == Evaluate(broker, book)
           sizes(f) == [t \in Sides |-> IF t = "bid" THEN f[1] ELSE f[2]]
           fills == FillSizes("bid", seen.open["bid"], book)
                    \X FillSizes("ask", seen.open["ask"], book)
<1>1. Sound(seen)
  BY EvaluateIsSound
<1>2. Position(seen) = Position(broker)
  BY DEF Evaluate, Position, Sound, Brokers
<1>3. /\ seen.open[s] = [q EXCEPT !.streak = @ + 1] /\ q \in Quotes /\ q.streak \in Nat
      /\ q.size > 0
  <2>1. q \in Quotes /\ q.streak \in Nat
    BY QuoteTypes DEF Sound
  <2>2. seen.open = [t \in Sides |->
                       IF Resting(broker, t)
                         THEN [broker.open[t] EXCEPT !.streak =
                                 IF Crossed(t, broker.open[t], book) THEN @ + 1 ELSE 0]
                         ELSE broker.open[t]]
    BY DEF Evaluate, Sound, Brokers
  <2>3. Resting(broker, s)
    BY DEF Resting
  <2> QED
    BY <2>1, <2>2, <2>3
<1>4. PICK f \in fills : after \in Quoted(BookFills(seen, sizes(f)), book)
  BY DEF AfterTick
<1> HIDE DEF seen
<1>5. \A t \in Sides : seen.open[t] \in Quotes
  BY <1>1, QuoteTypes DEF Sound
<1>6. \A t \in Sides : sizes(f)[t] \in FillSizes(t, seen.open[t], book)
  BY <1>4 DEF Sides
<1> HIDE DEF sizes, fills
<1>7. /\ \A t \in Sides : sizes(f)[t] \in 0..seen.open[t].size
      /\ \A t \in Sides : sizes(f)[t] > 0 => Crossed(t, seen.open[t], book)
  BY <1>5, <1>6, FillSizesBound, LatencyFills
<1> DEFINE b == BookFills(seen, sizes(f))
<1>8. Sound(b)
  BY <1>1, <1>7, BookFillsIsSound
<1>9. Position(after) = Position(b) /\ (b.open[s].streak > 0 => after.open[s] = b.open[s])
  <2> HIDE DEF b
  <2> QED
    BY <1>4, <1>8, QuotedKeeps DEF b
<1>10. CASE sizes(f)[s] > 0
  <2>1. Position(b) # Position(seen)
    BY <1>1, <1>7, <1>10, FillsAreSeen
  <2> QED
    BY <1>2, <1>9, <2>1
<1>11. CASE sizes(f)[s] = 0
  <2>1. b.open[s] = seen.open[s]
    BY <1>1, <1>7, <1>11, BookFillsMoves
  <2>2. seen.open[s].streak > 0 /\ seen.open[s].size = q.size /\ seen.open[s].price = q.price
    BY <1>3 DEF Quotes
  <2>3. Crossed(s, seen.open[s], book)
    BY <2>2 DEF Crossed
  <2>4. CertainFill => seen.open[s].streak < FillLatency
    BY <1>3, <1>5, <1>6, <1>11, <2>2, <2>3, LatencyFills
  <2> QED
    BY <1>3, <1>9, <2>1, <2>2, <2>4
<1>12. sizes(f)[s] > 0 \/ sizes(f)[s] = 0
  <2>1. seen.open[s].size \in Nat
    BY <1>5, QuoteFields
  <2> QED
    BY <1>7, <2>1
<1> QED
  BY <1>10, <1>11, <1>12

(* The book a tick works on is the last snapshot, unless a pair switch has  *)
(* forgotten it meanwhile.                                                  *)
BookIsSnapshot ==
  tick.at \in {"dex", "v3", "arb"} => tick.book = snapshot \/ snapshot = NoBook

(* What CrossedQuoteMatures says of one step. *)
Matures ==
  \A s \in Sides :
    LET q == broker.open[s]  r == broker'.open[s] IN
    FillMode = "latency" /\ q.size > 0 /\ r # q =>
      \/ /\ r = [q EXCEPT !.streak = @ + 1]
         /\ CertainFill => r.streak < FillLatency
      \/ Position(broker') # Position(broker)
      \/ kill' \/ snapshot'.stale \/ pair' # pair
      \/ ~Crossed(s, q, snapshot')

(* The end of a tick, committed or restored. *)
LEMMA ConcludeMatures ==
  ASSUME LoopInv, NEW book \in Books, NEW mem, NEW check, Conclude(book, mem, check),
         kill' = kill, snapshot' = book \/ snapshot' = NoBook
  PROVE  Matures
<1>1. PICK after \in AfterTick(book) : broker' = after \/ broker' = broker
  BY DEF Conclude, RestoreCheckpoint
<1>2. Sound(broker)
  BY DEF LoopInv, TypeOK, RestingIsFunded, PositionCapped, Sound
<1>3. NoBook.stale
  BY DEF NoBook
<1> QED
  BY <1>1, <1>2, <1>3, TickMatures DEF Matures

LEMMA StepMatures ==
  ASSUME LoopInv, BookIsSnapshot, [Next]_vars
  PROVE  Matures /\ BookIsSnapshot'
<1> USE DEF BookIsSnapshot
<1>0. /\ tick \in [at : {"off", "idle", "book", "dex", "v3", "arb", "closed"},
                   pair : Pairs, book : Books, checkpoint : Nat \cup {NoCheckpoint}]
      /\ NoBook.stale
  BY DEF LoopInv, TypeOK, NoBook
<1>1. ASSUME NEW book, NEW mem, NEW check, Conclude(book, mem, check)
      PROVE  tick'.at \in {"idle", "off"}
  BY <1>1, TaskTypes DEF Conclude, TickFailed
<1>2. CASE StartTick
  BY <1>2 DEF StartTick, Matures, AtIdle
<1>3. CASE FetchBook
  <2>1. PICK b \in Books :
          /\ snapshot' = b
          /\ IF "dex" \in Venues
               THEN /\ tick' = [tick EXCEPT !.at = "dex", !.book = b]
                    /\ UNCHANGED <<broker, running, errors, lp, lpSaved, drift, saved>>
               ELSE Conclude(b, lp, NoCheckpoint)
    BY <1>3 DEF FetchBook
  <2>2. CASE "dex" \in Venues
    BY <1>0, <2>1, <2>2 DEF Matures
  <2>3. CASE "dex" \notin Venues
    BY <1>1, <1>3, <2>1, <2>3, ConcludeMatures DEF FetchBook
  <2> QED
    BY <2>2, <2>3
<1>4. CASE FetchDex
  <2>1. CASE "v3" \in Venues
    BY <1>0, <1>4, <2>1 DEF FetchDex, Matures
  <2>2. CASE "v3" \notin Venues
    BY <1>0, <1>1, <1>4, <2>2, ConcludeMatures DEF FetchDex
  <2> QED
    BY <2>1, <2>2
<1>5. CASE FetchFails
  BY <1>5, TaskTypes DEF FetchFails, TickFailed, Matures
<1>6. CASE FetchV3
  <2>1. CASE Conclude(tick.book, lp, NoCheckpoint)
    BY <1>0, <1>1, <1>6, <2>1, ConcludeMatures DEF FetchV3
  <2>2. ASSUME NEW mem, Conclude(tick.book, mem, lp) PROVE Matures /\ BookIsSnapshot'
    BY <1>0, <1>1, <1>6, <2>2, ConcludeMatures DEF FetchV3
  <2>3. CASE tick' = [tick EXCEPT !.at = "arb", !.checkpoint = lp] /\ broker' = broker
    BY <1>0, <1>6, <2>3 DEF FetchV3, Matures
  <2> QED
    BY <1>6, <2>1, <2>2, <2>3 DEF FetchV3
<1>7. CASE FlashArb
  BY <1>0, <1>1, <1>7, ConcludeMatures DEF FlashArb
<1>8. ASSUME NEW active \in BOOLEAN, SetKillSwitch(active) PROVE Matures /\ BookIsSnapshot'
  BY <1>8 DEF SetKillSwitch, Matures
<1>9. ASSUME NEW o \in Operators, NEW target \in Pairs, SwitchBegin(o, target)
      PROVE  Matures /\ BookIsSnapshot'
  BY <1>9, TaskTypes DEF SwitchBegin, Matures
<1>10. ASSUME NEW o \in Operators, SwitchFinish(o) PROVE Matures /\ BookIsSnapshot'
  BY <1>0, <1>10, TaskTypes DEF SwitchFinish, Matures
<1>11. CASE Stop
  BY <1>11, TaskTypes DEF Stop, Matures
<1>12. CASE UNCHANGED vars
  BY <1>12 DEF vars, Matures
<1>13. CASE V3StepFails
  BY <1>13, TaskTypes DEF V3StepFails, TickFailed, Matures
<1> QED
  BY <1>2, <1>3, <1>4, <1>5, <1>6, <1>7, <1>8, <1>9, <1>10, <1>11, <1>12, <1>13
  DEF Next, Task, Stopped

(* In the latency model a crossed quote matures, for every latency, every   *)
(* draw, every price set and every interleaving of pair switches: it stays  *)
(* and grows one tick older until something named takes it away.            *)
THEOREM LoopCrossedQuoteMatures == Spec => CrossedQuoteMatures
<1>1. Init => BookIsSnapshot
  BY TaskTypes DEF Init, BookIsSnapshot
<1>2. LoopInv /\ BookIsSnapshot /\ [Next]_vars => BookIsSnapshot'
  BY StepMatures
<1>3. LoopInv /\ BookIsSnapshot /\ [Next]_vars => [Matures]_vars
  BY StepMatures
<1> QED
  BY <1>1, <1>2, <1>3, LoopInvariant, PTL DEF Spec, CrossedQuoteMatures, Matures
=============================================================================
