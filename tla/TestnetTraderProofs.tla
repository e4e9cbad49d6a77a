------------------------- MODULE TestnetTraderProofs -------------------------
(***************************************************************************)
(* Theorems about TestnetTrader's sessions and its shutdown, for every     *)
(* number of orders, failed calls, kills, resets and crashes, and every    *)
(* kind of failing call; then about its orders, what it books, and what is *)
(* live at the exchange.  What a failing call may do to those depends on   *)
(* its kind: each theorem names the kinds it excludes.                     *)
(***************************************************************************)
EXTENDS TestnetTrader, WellFoundedInduction, FiniteSetTheorems, TLAPS

Sequels == {"", "open", "resolve", "quote", "rec_history", "side", "ca_orders", "ca_remaining",
            "ca_return"}
Frame == [caller : {"iterate", "shutdown"}, scope : {"step", "reconcile", "cancel_all"},
          again : BOOLEAN, tries : Int, confirms : Int, todo : SUBSET Ids,
          listed : SUBSET Ids, then : Sequels, cur : Int, side : Sides,
          targets : SUBSET Sides, kept : BOOLEAN]

\* Where a walk may go on when its list is done.
WalkOK ==
    /\ pc = "stray" => fr.then \in {"open", "resolve"}
    /\ pc = "resolve" => fr.then \in {"quote", "rec_history", "ca_return"}
    /\ pc \in {"delete", "query", "refill"} => fr.then \in {"side", "ca_orders", "ca_remaining"}

\* startup runs without a session, and everything else but the outer loop and
\* shutdown's first look with one.
Cleared == pc \in {"leftovers", "open"} \/ (pc = "stray" /\ fr.then = "open")
Starting == pc = "account" \/ Cleared
Outside == pc \in {"loop", "shutdown", "ended"}
SessionOK ==
    /\ Starting => session = "none"
    /\ ~Starting /\ ~Outside => session # "none"
    /\ fr.caller = "shutdown" => session # "none"
    /\ pc \in {"reset_account", "reset_open"} => session = "ended"

\* The repository's open sessions are the current one's, or an earlier process's
\* until startup has ended them.
LiveOK ==
    /\ live \in Nat /\ session \in {"none", "open", "ended"}
    /\ session = "open" => live = 1
    /\ session = "ended" => live = 0
    /\ session = "none" => live <= 1
    /\ Cleared => live = 0

\* cancel_all is on its way to success only while nothing is live.
QuietOK == pc = "ca_return" \/ (pc = "resolve" /\ fr.then = "ca_return") => Live = {}

ControlInv == fr \in Frame /\ next \in Nat /\ WalkOK /\ SessionOK /\ LiveOK /\ QuietOK

LEMMA NoFrameOK == NoFrame \in Frame /\ NoFrame.caller = "iterate" /\ NoFrame.then = ""
BY DEF NoFrame, Frame, Sequels, Sides

LEMMA MinOfNaturals ==
    ASSUME NEW S \in SUBSET Nat, S # {}
    PROVE  Min(S) \in S /\ \A y \in S : Min(S) <= y
<1>1. \E x \in S : \A y \in S : ~(<< y, x >> \in OpToRel(<, Nat))
  BY NatLessThanWellFounded, WFMin
<1>2. \A x, y \in S : ~(<< y, x >> \in OpToRel(<, Nat)) => x <= y
  BY DEF OpToRel
<1>3. \E x \in S : \A y \in S : x <= y
  BY <1>1, <1>2
<1> QED
  BY <1>3 DEF Min

LEMMA MinInside ==
    ASSUME NEW S \in SUBSET Ids, S # {}
    PROVE  Min(S) \in S /\ \A y \in S : Min(S) <= y
<1>1. S \in SUBSET Nat
  BY TraderConstants DEF Ids
<1> QED
  BY <1>1, MinOfNaturals

LEMMA FrameSide ==
    ASSUME NEW f \in Frame, NEW T \in SUBSET Ids
    PROVE  LET g == [f EXCEPT !.side = "ask", !.kept = FALSE, !.cur = 0, !.todo = T]
           IN g \in Frame /\ g.caller = f.caller
<1>1. ASSUME NEW side \in Sides, NEW kept \in BOOLEAN, NEW cur \in Int
      PROVE  LET g == [f EXCEPT !.side = side, !.kept = kept, !.cur = cur, !.todo = T]
             IN g \in Frame /\ g.caller = f.caller
  BY DEF Frame
<1>2. "ask" \in Sides /\ FALSE \in BOOLEAN /\ 0 \in Int
  BY DEF Sides
<1> QED
  BY <1>1, <1>2, Zenon

LEMMA FrameQuote ==
    ASSUME NEW f \in Frame, NEW T \in SUBSET Ids, NEW targets \in SUBSET Sides
    PROVE  LET g == [f EXCEPT !.targets = targets, !.side = "bid", !.kept = FALSE, !.todo = T]
           IN g \in Frame /\ g.caller = f.caller
BY DEF Frame, Sides

LEMMA FrameCounts ==
    ASSUME NEW f \in Frame, NEW n \in Int
    PROVE  /\ LET g == [f EXCEPT !.cur = n] IN g \in Frame /\ g.caller = f.caller
           /\ [f EXCEPT !.caller = "shutdown", !.tries = n] \in Frame
BY DEF Frame

LEMMA FrameConfirms ==
    ASSUME NEW f \in Frame, NEW T \in SUBSET Ids, NEW n \in Int
    PROVE  /\ LET g == [f EXCEPT !.scope = "cancel_all", !.todo = T, !.confirms = n]
              IN g \in Frame /\ g.caller = f.caller
           /\ LET g == [f EXCEPT !.todo = T, !.confirms = n] IN g \in Frame /\ g.caller = f.caller
BY DEF Frame

LEMMA FrameTries ==
    ASSUME NEW f \in Frame, NEW tries \in Int, NEW again \in BOOLEAN
    PROVE  LET g == [f EXCEPT !.tries = tries, !.again = again]
           IN g \in Frame /\ g.caller = f.caller
BY DEF Frame

LEMMA FrameTurns ==
    ASSUME NEW f \in Frame, NEW T \in SUBSET Ids, NEW t \in Sequels
    PROVE  /\ [f EXCEPT !.then = t, !.todo = T] \in Frame
           /\ [f EXCEPT !.then = t, !.todo = T].then = t
           /\ [f EXCEPT !.then = t, !.todo = T].caller = f.caller
BY DEF Frame

\* Where cancel_all, a failed call and a stop leave the task: in the outer loop, at
\* shutdown, at its end or at another cancel_all.
Landed ==
    /\ fr' \in Frame /\ pc' \in {"loop", "shutdown", "ended", "cancel_all"}
    /\ fr'.caller = "shutdown" \/ pc' = "cancel_all" => session' # "none"
    /\ live' \in Nat /\ session' \in {"none", "open", "ended"}
    /\ session' = "open" => live' = 1
    /\ session' = "ended" => live' = 0
    /\ session' = "none" => live' <= 1

LEMMA LandedOK == ASSUME Landed, next' \in Nat PROVE ControlInv'
BY DEF Landed, ControlInv, WalkOK, SessionOK, LiveOK, QuietOK, Starting, Outside, Cleared

LEMMA SessionFacts ==
    ASSUME ControlInv
    PROVE  /\ fr \in Frame /\ live \in Nat /\ session \in {"none", "open", "ended"}
           /\ session = "open" => live = 1
           /\ session = "ended" => live = 0
           /\ session = "none" => live <= 1
           /\ fr.caller = "shutdown" => session # "none"
BY DEF ControlInv, SessionOK, LiveOK

LEMMA CancelAllLands ==
    ASSUME ControlInv, NEW ok, NEW st, CancelAllReturns(ok, st)
    PROVE  Landed
<1>1. CASE fr.caller = "iterate"
  <2>1. pc' = "loop" /\ fr' = NoFrame /\ UNCHANGED << session, live >>
    BY <1>1 DEF CancelAllReturns, Enter
  <2> QED
    BY <2>1, SessionFacts, NoFrameOK DEF Landed
<1>2. CASE fr.caller # "iterate" /\ (ok \/ fr.tries = 1)
  <2>1. pc' = "ended" /\ fr' = NoFrame /\ session' = "ended"
        /\ live' = IF session = "open" THEN live - 1 ELSE live
    BY <1>2 DEF CancelAllReturns, Enter, EndSession
  <2>2. fr.caller = "shutdown"
    BY <1>2, SessionFacts DEF Frame
  <2>3. live' = 0
    BY <2>1, <2>2, SessionFacts
  <2>4. pc' = "ended" /\ fr' = NoFrame /\ session' = "ended"
    BY <2>1
  <2> QED
    BY <2>3, <2>4, NoFrameOK DEF Landed
<1>3. CASE fr.caller # "iterate" /\ ~(ok \/ fr.tries = 1)
  <2>1. pc' = "cancel_all" /\ fr' = [fr EXCEPT !.tries = @ - 1, !.again = FALSE]
        /\ UNCHANGED << session, live >>
    BY <1>3 DEF CancelAllReturns, Enter
  <2>2. fr \in Frame
    BY SessionFacts
  <2>3. fr.caller = "shutdown"
    BY <1>3, <2>2 DEF Frame
  <2>4. fr.tries - 1 \in Int
    BY <2>2 DEF Frame
  <2>5. fr' \in Frame /\ fr'.caller = fr.caller
    BY <2>1, <2>2, <2>4, FrameTries, Zenon
  <2> QED
    BY <2>1, <2>3, <2>5, SessionFacts DEF Landed
<1> QED
  BY <1>1, <1>2, <1>3

LEMMA RaiseLands ==
    ASSUME ControlInv, NEW kind \in {"auth", "rate", "unavailable"}, Raise(kind)
    PROVE  Landed
<1>1. CASE kind = "auth"
  <2>1. /\ pc' \in {"ended", "shutdown"} /\ fr' = NoFrame /\ UNCHANGED << session, live >>
    BY <1>1 DEF Raise, Enter
  <2> QED
    BY <2>1, SessionFacts, NoFrameOK DEF Landed
<1>2. CASE kind # "auth" /\ fr.scope = "cancel_all"
  <2>1. CancelAllReturns(FALSE, "cancel_pending")
    BY <1>2 DEF Raise
  <2> QED
    BY <2>1, CancelAllLands
<1>3. CASE kind # "auth" /\ fr.scope # "cancel_all"
  <2>1. /\ pc' = "loop" /\ fr' = NoFrame /\ UNCHANGED << session, live >>
    BY <1>3 DEF Raise, Enter
  <2> QED
    BY <2>1, SessionFacts, NoFrameOK DEF Landed
<1> QED
  BY <1>1, <1>2, <1>3

\* A step that ends the session for a reset.
LEMMA ResetControl ==
    ASSUME ControlInv, session # "none", TestnetReset(orders), next' = next
    PROVE  ControlInv'
<1>1. pc' = "reset_account" /\ fr' = fr /\ session' = "ended"
      /\ live' = IF session = "open" THEN live - 1 ELSE live
  BY DEF TestnetReset, Goto, EndSession
<1>2. live' = 0
  BY <1>1, SessionFacts
<1> QED
  BY <1>1, <1>2, SessionFacts DEF ControlInv, WalkOK, SessionOK, LiveOK, QuietOK, Starting,
     Outside, Cleared


LEMMA ControlStep == ASSUME ControlInv, Next PROVE ControlInv'
<1> USE DEF Local, Calm, Goto, Enter
<1>0. /\ fr \in Frame /\ next \in Nat /\ Live \subseteq Ids /\ OpenRecords \subseteq Ids
      /\ Ids \subseteq Int
  BY DEF ControlInv, Live, OpenRecords, Ids
<1>s. {c \in OpenRecords : orders[c].side = "ask"} \in SUBSET Ids
  BY <1>0
<1>i. /\ next \in Int /\ ConfirmAttempts \in Int /\ StopAttempts \in Int /\ fr.confirms - 1 \in Int
      /\ Live \in SUBSET Ids /\ OpenRecords \in SUBSET Ids
  BY <1>0, TraderConstants DEF Frame
<1>m. fr.todo # {} => Min(fr.todo) \in fr.todo /\ Min(fr.todo) \in Int
  BY <1>0, MinInside DEF Frame
<1>1. CASE Loop
  <2>1. CASE stopping
    <3>1. /\ pc = "loop" /\ pc' = "shutdown"
          /\ fr' = fr
          /\ UNCHANGED << session, live, next >>
      BY <1>1, <2>1 DEF Loop
    <3>2. /\ fr' \in Frame
          /\ fr'.caller = fr.caller /\ fr'.then = fr.then
      BY <1>0, <3>1 DEF Frame, Sequels, Sides
    <3> QED
      BY <2>1, <3>1, <3>2 DEF ControlInv, WalkOK, SessionOK, LiveOK, QuietOK, Starting, Outside,
         Cleared
  <2>2. CASE ~stopping /\ session = "none"
    <3>1. /\ pc = "loop" /\ pc' = "account"
          /\ fr' = fr
          /\ UNCHANGED << session, live, next >>
      BY <1>1, <2>2 DEF Loop
    <3>2. /\ fr' \in Frame
          /\ fr'.caller = fr.caller /\ fr'.then = fr.then
      BY <1>0, <3>1 DEF Frame, Sequels, Sides
    <3> QED
      BY <2>2, <3>1, <3>2 DEF ControlInv, WalkOK, SessionOK, LiveOK, QuietOK, Starting, Outside,
         Cleared
  <2>3. CASE ~stopping /\ session # "none"
    <3>1. /\ pc = "loop" /\ pc' = "iterate"
          /\ fr' = fr
          /\ UNCHANGED << session, live, next >>
      BY <1>1, <2>3 DEF Loop
    <3>2. /\ fr' \in Frame
          /\ fr'.caller = fr.caller /\ fr'.then = fr.then
      BY <1>0, <3>1 DEF Frame, Sequels, Sides
    <3> QED
      BY <2>3, <3>1, <3>2 DEF ControlInv, WalkOK, SessionOK, LiveOK, QuietOK, Starting, Outside,
         Cleared
  <2> QED
    BY <2>1, <2>2, <2>3
<1>2. CASE Leftovers
  <2>1. /\ pc = "leftovers" /\ pc' = "stray"
        /\ fr' = [fr EXCEPT !.todo = Live, !.then = "open"]
        /\ UNCHANGED << session, live, next >>
    BY <1>2 DEF Leftovers
  <2>2. /\ fr' \in Frame
        /\ fr'.caller = fr.caller /\ fr'.then = "open"
    BY <1>0, <2>1 DEF Frame, Sequels, Sides
  <2> QED
    BY <2>1, <2>2 DEF ControlInv, WalkOK, SessionOK, LiveOK, QuietOK, Starting, Outside, Cleared
<1>3. CASE Iterate
  <2>1. CASE kill \/ stopping
    <3>1. /\ pc = "iterate" /\ pc' = "cancel_all"
          /\ fr' = [fr EXCEPT !.scope = "cancel_all"]
          /\ UNCHANGED << session, live, next >>
      BY <1>3, <2>1 DEF Iterate
    <3>2. /\ fr' \in Frame
          /\ fr'.caller = fr.caller
      BY <1>0, <3>1 DEF Frame, Sequels, Sides
    <3> QED
      BY <2>1, <3>1, <3>2 DEF ControlInv, WalkOK, SessionOK, LiveOK, QuietOK, Starting, Outside,
         Cleared
  <2>2. CASE ~(kill \/ stopping)
    <3>1. /\ pc = "iterate" /\ pc' = "depth"
          /\ fr' = fr
          /\ UNCHANGED << session, live, next >>
      BY <1>3, <2>2 DEF Iterate
    <3>2. /\ fr' \in Frame
          /\ fr'.caller = fr.caller
      BY <1>0, <3>1 DEF Frame, Sequels, Sides
    <3> QED
      BY <2>2, <3>1, <3>2 DEF ControlInv, WalkOK, SessionOK, LiveOK, QuietOK, Starting, Outside,
         Cleared
  <2> QED
    BY <2>1, <2>2
<1>4. CASE Depth
  <2>1. /\ pc = "depth" /\ pc' = "fills"
        /\ fr' = fr
        /\ UNCHANGED << session, live, next >>
    BY <1>4 DEF Depth
  <2>2. /\ fr' \in Frame
        /\ fr'.caller = fr.caller
    BY <1>0, <2>1 DEF Frame, Sequels, Sides
  <2> QED
    BY <2>1, <2>2 DEF ControlInv, WalkOK, SessionOK, LiveOK, QuietOK, Starting, Outside, Cleared
<1>5. CASE Fills
  <2>1. /\ pc = "fills" /\ pc' = "list"
        /\ fr' = fr
        /\ UNCHANGED << session, live, next >>
    BY <1>5 DEF Fills
  <2>2. /\ fr' \in Frame
        /\ fr'.caller = fr.caller
    BY <1>0, <2>1 DEF Frame, Sequels, Sides
  <2> QED
    BY <2>1, <2>2 DEF ControlInv, WalkOK, SessionOK, LiveOK, QuietOK, Starting, Outside, Cleared
<1>6. CASE List
  <2>1. /\ pc = "list" /\ pc' = "stray"
        /\ fr' = [fr EXCEPT !.listed = Live, !.then = "resolve",
                      !.todo = {c \in Live : orders[c].state = "none"}]
        /\ UNCHANGED << session, live, next >>
    BY <1>6 DEF List
  <2>2. /\ fr' \in Frame
        /\ fr'.caller = fr.caller /\ fr'.then = "resolve"
    BY <1>0, <2>1 DEF Frame, Sequels, Sides
  <2> QED
    BY <2>1, <2>2 DEF ControlInv, WalkOK, SessionOK, LiveOK, QuietOK, Starting, Outside, Cleared
<1>7. CASE Resting
  <2>1. CASE orders[Min(fr.todo)].state = "unknown"
    <3>1. /\ pc = "side" /\ pc' = "side"
          /\ fr' = [fr EXCEPT !.todo = @ \ {Min(fr.todo)}]
          /\ UNCHANGED << session, live, next >>
      BY <1>7, <2>1 DEF Resting
    <3>2. /\ fr' \in Frame
          /\ fr'.caller = fr.caller
      BY <1>0, <3>1 DEF Frame, Sequels, Sides
    <3> QED
      BY <2>1, <3>1, <3>2 DEF ControlInv, WalkOK, SessionOK, LiveOK, QuietOK, Starting, Outside,
         Cleared
  <2>2. CASE /\ orders[Min(fr.todo)].state # "unknown"
                  /\ pc' = "delete"
    <3>1. /\ pc = "side" /\ pc' = "delete" /\ fr.todo # {}
          /\ fr' = [[fr EXCEPT !.todo = @ \ {Min(fr.todo)}]
                       EXCEPT !.cur = Min(fr.todo), !.then = "side"]
          /\ UNCHANGED << session, live, next >>
      BY <1>7, <2>2 DEF Resting
    <3>2. /\ fr' \in Frame
          /\ fr'.caller = fr.caller /\ fr'.then = "side"
      BY <1>0, <3>1, <1>m DEF Frame, Sequels, Sides
    <3> QED
      BY <2>2, <3>1, <3>2 DEF ControlInv, WalkOK, SessionOK, LiveOK, QuietOK, Starting, Outside,
         Cleared
  <2>3. CASE /\ orders[Min(fr.todo)].state # "unknown"
                  /\ pc' # "delete"
    <3>1. /\ pc = "side" /\ pc' = "side"
          /\ fr' = [[fr EXCEPT !.todo = @ \ {Min(fr.todo)}] EXCEPT !.kept = TRUE]
          /\ UNCHANGED << session, live, next >>
      BY <1>7, <2>3 DEF Resting
    <3>2. /\ fr' \in Frame
          /\ fr'.caller = fr.caller
      BY <1>0, <3>1 DEF Frame, Sequels, Sides
    <3> QED
      BY <2>3, <3>1, <3>2 DEF ControlInv, WalkOK, SessionOK, LiveOK, QuietOK, Starting, Outside,
         Cleared
  <2> QED
    BY <2>1, <2>2, <2>3
<1>8. CASE SideDone
  <2>1. CASE WantsPlace
    <3>1. /\ pc = "side" /\ pc' = "post"
          /\ fr' = [fr EXCEPT !.cur = next]
          /\ UNCHANGED << session, live >> /\ next' \in Nat
      BY <1>8, <2>1, <1>0 DEF SideDone, NextSide
    <3>2. /\ fr' \in Frame
          /\ fr'.caller = fr.caller
      BY <1>0, <1>s, <1>i, <3>1, FrameCounts, Zenon
    <3> QED
      BY <2>1, <3>1, <3>2 DEF ControlInv, WalkOK, SessionOK, LiveOK, QuietOK, Starting, Outside,
         Cleared
  <2>2. CASE ~WantsPlace /\ fr.side = "bid"
    <3>1. /\ pc = "side" /\ pc' = "side"
          /\ fr' = [fr EXCEPT !.side = "ask", !.kept = FALSE, !.cur = 0,
                       !.todo = {c \in OpenRecords : orders[c].side = "ask"}]
          /\ UNCHANGED << session, live >> /\ next' \in Nat
      BY <1>8, <2>2, <1>0 DEF SideDone, NextSide
    <3>2. /\ fr' \in Frame
          /\ fr'.caller = fr.caller
      BY <1>0, <1>s, <1>i, <3>1, FrameSide, Zenon
    <3> QED
      BY <2>2, <3>1, <3>2 DEF ControlInv, WalkOK, SessionOK, LiveOK, QuietOK, Starting, Outside,
         Cleared
  <2>3. CASE ~WantsPlace /\ fr.side # "bid"
    <3>1. /\ pc = "side" /\ pc' = "due"
          /\ fr' = NoFrame
          /\ UNCHANGED << session, live >> /\ next' \in Nat
      BY <1>8, <2>3, <1>0 DEF SideDone, NextSide
    <3>2. /\ fr' \in Frame
          /\ fr'.caller = "iterate"
      BY <1>0, <3>1, NoFrameOK DEF Frame, Sequels, Sides
    <3> QED
      BY <2>3, <3>1, <3>2 DEF ControlInv, WalkOK, SessionOK, LiveOK, QuietOK, Starting, Outside,
         Cleared
  <2> QED
    BY <2>1, <2>2, <2>3
<1>9. CASE Post
  <2>1. CASE fr.side = "bid"
    <3>1. /\ pc = "post" /\ pc' = "side"
          /\ fr' = [fr EXCEPT !.side = "ask", !.kept = FALSE, !.cur = 0,
                       !.todo = {c \in OpenRecords : orders[c].side = "ask"}]
          /\ UNCHANGED << session, live, next >>
      BY <1>9, <2>1 DEF Post, NextSide
    <3>2. /\ fr' \in Frame
          /\ fr'.caller = fr.caller
      BY <1>0, <1>s, <1>i, <3>1, FrameSide, Zenon
    <3> QED
      BY <2>1, <3>1, <3>2 DEF ControlInv, WalkOK, SessionOK, LiveOK, QuietOK, Starting, Outside,
         Cleared
  <2>2. CASE fr.side # "bid"
    <3>1. /\ pc = "post" /\ pc' = "due"
          /\ fr' = NoFrame
          /\ UNCHANGED << session, live, next >>
      BY <1>9, <2>2 DEF Post, NextSide
    <3>2. /\ fr' \in Frame
          /\ fr'.caller = "iterate"
      BY <1>0, <3>1, NoFrameOK DEF Frame, Sequels, Sides
    <3> QED
      BY <2>2, <3>1, <3>2 DEF ControlInv, WalkOK, SessionOK, LiveOK, QuietOK, Starting, Outside,
         Cleared
  <2> QED
    BY <2>1, <2>2
<1>10. CASE Delete
  <2>1. CASE ex[fr.cur].status = "NEW"
    <3>1. /\ pc = "delete" /\ pc' = fr.then
          /\ fr' = [fr EXCEPT !.then = ""]
          /\ UNCHANGED << session, live, next >>
      BY <1>10, <2>1 DEF Delete
    <3>2. /\ fr' \in Frame
          /\ fr'.caller = fr.caller
      BY <1>0, <3>1 DEF Frame, Sequels, Sides
    <3> QED
      BY <2>1, <3>1, <3>2 DEF ControlInv, WalkOK, SessionOK, LiveOK, QuietOK, Starting, Outside,
         Cleared
  <2>2. CASE ex[fr.cur].status # "NEW"
    <3>1. /\ pc = "delete" /\ pc' = "query"
          /\ fr' = fr
          /\ UNCHANGED << session, live, next >>
      BY <1>10, <2>2 DEF Delete
    <3>2. /\ fr' \in Frame
          /\ fr'.caller = fr.caller /\ fr'.then = fr.then
      BY <1>0, <3>1 DEF Frame, Sequels, Sides
    <3> QED
      BY <2>2, <3>1, <3>2 DEF ControlInv, WalkOK, SessionOK, LiveOK, QuietOK, Starting, Outside,
         Cleared
  <2> QED
    BY <2>1, <2>2
<1>11. CASE Refill
  <2>1. /\ pc = "refill" /\ pc' = fr.then
        /\ fr' = [fr EXCEPT !.then = ""]
        /\ UNCHANGED << session, live, next >>
    BY <1>11 DEF Refill
  <2>2. /\ fr' \in Frame
        /\ fr'.caller = fr.caller
    BY <1>0, <2>1 DEF Frame, Sequels, Sides
  <2> QED
    BY <2>1, <2>2 DEF ControlInv, WalkOK, SessionOK, LiveOK, QuietOK, Starting, Outside, Cleared
<1>12. CASE Due
  <2>1. CASE pc' = "rec_account"
    <3>1. /\ pc = "due" /\ pc' = "rec_account"
          /\ fr' = [fr EXCEPT !.scope = "reconcile"]
          /\ UNCHANGED << session, live, next >>
      BY <1>12, <2>1 DEF Due
    <3>2. /\ fr' \in Frame
          /\ fr'.caller = fr.caller
      BY <1>0, <3>1 DEF Frame, Sequels, Sides
    <3> QED
      BY <2>1, <3>1, <3>2 DEF ControlInv, WalkOK, SessionOK, LiveOK, QuietOK, Starting, Outside,
         Cleared
  <2>2. CASE pc' # "rec_account"
    <3>1. /\ pc = "due" /\ pc' = "loop"
          /\ fr' = NoFrame
          /\ UNCHANGED << session, live, next >>
      BY <1>12, <2>2 DEF Due
    <3>2. /\ fr' \in Frame
          /\ fr'.caller = "iterate"
      BY <1>0, <3>1, NoFrameOK DEF Frame, Sequels, Sides
    <3> QED
      BY <2>2, <3>1, <3>2 DEF ControlInv, WalkOK, SessionOK, LiveOK, QuietOK, Starting, Outside,
         Cleared
  <2> QED
    BY <2>1, <2>2
<1>13. CASE ReconcileAccount
  <2>1. /\ pc = "rec_account" /\ pc' = "resolve"
        /\ fr' = [fr EXCEPT !.then = "rec_history",
             !.todo = {c \in OpenRecords : orders[c].state = "unknown" \/ ~orders[c].known}]
        /\ UNCHANGED << session, live, next >>
    BY <1>13 DEF ReconcileAccount
  <2>2. /\ fr' \in Frame
        /\ fr'.caller = fr.caller /\ fr'.then = "rec_history"
    BY <1>0, <2>1 DEF Frame, Sequels, Sides
  <2> QED
    BY <2>1, <2>2 DEF ControlInv, WalkOK, SessionOK, LiveOK, QuietOK, Starting, Outside, Cleared
<1>14. CASE StartCancelAll
  <2>1. /\ pc = "cancel_all" /\ pc' = "ca_orders"
        /\ fr' = [fr EXCEPT !.scope = "cancel_all", !.todo = OpenRecords,
                      !.confirms = ConfirmAttempts]
        /\ UNCHANGED << session, live, next >>
    BY <1>14 DEF StartCancelAll
  <2>2. /\ fr' \in Frame
        /\ fr'.caller = fr.caller
    BY <1>0, <1>s, <1>i, <2>1, FrameConfirms, Zenon
  <2> QED
    BY <2>1, <2>2 DEF ControlInv, WalkOK, SessionOK, LiveOK, QuietOK, Starting, Outside, Cleared
<1>15. CASE CancelRecorded
  <2>1. CASE fr.todo = {}
    <3>1. /\ pc = "ca_orders" /\ pc' = "ca_confirm"
          /\ fr' = fr
          /\ UNCHANGED << session, live, next >>
      BY <1>15, <2>1 DEF CancelRecorded
    <3>2. /\ fr' \in Frame
          /\ fr'.caller = fr.caller
      BY <1>0, <3>1 DEF Frame, Sequels, Sides
    <3> QED
      BY <2>1, <3>1, <3>2 DEF ControlInv, WalkOK, SessionOK, LiveOK, QuietOK, Starting, Outside,
         Cleared
  <2>2. CASE fr.todo # {} /\ orders[Min(fr.todo)].state = "unknown"
    <3>1. /\ pc = "ca_orders" /\ pc' = "ca_orders"
          /\ fr' = [fr EXCEPT !.todo = @ \ {Min(fr.todo)}]
          /\ UNCHANGED << session, live, next >>
      BY <1>15, <2>2 DEF CancelRecorded
    <3>2. /\ fr' \in Frame
          /\ fr'.caller = fr.caller
      BY <1>0, <3>1 DEF Frame, Sequels, Sides
    <3> QED
      BY <2>2, <3>1, <3>2 DEF ControlInv, WalkOK, SessionOK, LiveOK, QuietOK, Starting, Outside,
         Cleared
  <2>3. CASE fr.todo # {} /\ orders[Min(fr.todo)].state # "unknown"
    <3>1. /\ pc = "ca_orders" /\ pc' = "delete" /\ fr.todo # {}
          /\ fr' = [[fr EXCEPT !.todo = @ \ {Min(fr.todo)}]
                       EXCEPT !.cur = Min(fr.todo), !.then = "ca_orders"]
          /\ UNCHANGED << session, live, next >>
      BY <1>15, <2>3 DEF CancelRecorded
    <3>2. /\ fr' \in Frame
          /\ fr'.caller = fr.caller /\ fr'.then = "ca_orders"
      BY <1>0, <3>1, <1>m DEF Frame, Sequels, Sides
    <3> QED
      BY <2>3, <3>1, <3>2 DEF ControlInv, WalkOK, SessionOK, LiveOK, QuietOK, Starting, Outside,
         Cleared
  <2> QED
    BY <2>1, <2>2, <2>3
<1>16. CASE Confirm
  <2>1. CASE Live = {}
    <3>1. /\ pc = "ca_confirm" /\ pc' = "resolve" /\ ex' = ex
          /\ fr' = [fr EXCEPT !.todo = OpenRecords, !.then = "ca_return"]
          /\ UNCHANGED << session, live, next >>
      BY <1>16, <2>1 DEF Confirm
    <3>2. /\ fr' \in Frame
          /\ fr'.caller = fr.caller /\ fr'.then = "ca_return"
      BY <1>0, <3>1 DEF Frame, Sequels, Sides
    <3> QED
      BY <2>1, <3>1, <3>2 DEF ControlInv, WalkOK, SessionOK, LiveOK, QuietOK, Starting, Outside,
         Cleared, Live
  <2>2. CASE Live # {}
    <3>1. /\ pc = "ca_confirm" /\ pc' = "ca_remaining"
          /\ fr' = [fr EXCEPT !.todo = Live, !.confirms = @ - 1]
          /\ UNCHANGED << session, live, next >>
      BY <1>16, <2>2 DEF Confirm
    <3>2. /\ fr' \in Frame
          /\ fr'.caller = fr.caller
      BY <1>0, <1>s, <1>i, <3>1, FrameConfirms, Zenon
    <3> QED
      BY <2>2, <3>1, <3>2 DEF ControlInv, WalkOK, SessionOK, LiveOK, QuietOK, Starting, Outside,
         Cleared
  <2> QED
    BY <2>1, <2>2
<1>17. CASE ResetAccount
  <2>1. /\ pc = "reset_account" /\ pc' = "reset_open"
        /\ fr' = fr
        /\ UNCHANGED << session, live, next >>
    BY <1>17 DEF ResetAccount
  <2>2. /\ fr' \in Frame
        /\ fr'.caller = fr.caller
    BY <1>0, <2>1 DEF Frame, Sequels, Sides
  <2> QED
    BY <2>1, <2>2 DEF ControlInv, WalkOK, SessionOK, LiveOK, QuietOK, Starting, Outside, Cleared
<1>h1. CASE Quote
  <2>1. PICK targets \in SUBSET Approved :
          fr' = [fr EXCEPT !.targets = targets, !.side = "bid", !.kept = FALSE,
                           !.todo = {c \in OpenRecords : orders[c].side = "bid"}]
    BY <1>h1 DEF Quote
  <2>2. targets \in SUBSET Sides /\ {c \in OpenRecords : orders[c].side = "bid"} \in SUBSET Ids
    BY <1>0 DEF Approved
  <2>3. fr' \in Frame /\ fr'.caller = fr.caller
    BY <1>0, <2>1, <2>2, FrameQuote, Zenon
  <2>4. pc = "quote" /\ pc' = "side" /\ UNCHANGED << session, live, next >>
    BY <1>h1 DEF Quote
  <2> QED
    BY <2>3, <2>4 DEF ControlInv, WalkOK, SessionOK, LiveOK, QuietOK, Starting, Outside, Cleared
<1>h2. CASE StartupAccount
  <2>1. /\ pc = "account" /\ pc' = "leftovers" /\ fr' = fr /\ live' = 0
        /\ UNCHANGED << session, next >>
    BY <1>h2 DEF StartupAccount
  <2> QED
    BY <2>1 DEF ControlInv, WalkOK, SessionOK, LiveOK, QuietOK, Starting, Outside, Cleared
<1>h3. CASE Stray
  <2>1. CASE fr.todo # {}
    <3>1. /\ pc = "stray" /\ pc' = "stray" /\ fr' = [fr EXCEPT !.todo = @ \ {Min(fr.todo)}]
          /\ UNCHANGED << session, live, next >>
      BY <1>h3, <2>1 DEF Stray
    <3>2. fr' \in Frame /\ fr'.caller = fr.caller /\ fr'.then = fr.then
      BY <1>0, <3>1 DEF Frame
    <3> QED
      BY <3>1, <3>2 DEF ControlInv, WalkOK, SessionOK, LiveOK, QuietOK, Starting, Outside, Cleared
  <2>2. CASE fr.todo = {}
    <3> DEFINE then == IF fr.then = "resolve" THEN "quote" ELSE ""
               todo == IF fr.then = "resolve"
                       THEN {c \in Ids : orders[c].state \in {"open", "unknown"}} ELSE {}
    <3>1. /\ pc = "stray" /\ pc' = fr.then /\ fr' = [fr EXCEPT !.then = then, !.todo = todo]
          /\ UNCHANGED << session, live, next >>
      BY <1>h3, <2>2 DEF Stray
    <3>2. then \in Sequels /\ todo \in SUBSET Ids /\ then # "ca_return"
          /\ (fr.then = "resolve" => then = "quote")
      BY DEF Sequels
    <3> HIDE DEF then, todo
    <3>3. fr' \in Frame /\ fr'.caller = fr.caller /\ fr'.then = then
      BY <1>0, <3>1, <3>2, FrameTurns, Zenon
    <3> QED
      BY <3>1, <3>2, <3>3 DEF ControlInv, WalkOK, SessionOK, LiveOK, QuietOK, Starting, Outside,
         Cleared
  <2> QED
    BY <2>1, <2>2
<1>h4. CASE StartupOpen
  <2>1. /\ pc = "open" /\ pc' = "iterate" /\ fr' = NoFrame /\ session' = "open"
        /\ live' = live + 1 /\ next' = next
    BY <1>h4 DEF StartupOpen, OpenSession
  <2>2. live' = 1
    BY <2>1 DEF ControlInv, LiveOK, Cleared
  <2>3. pc' = "iterate" /\ fr' = NoFrame /\ session' = "open" /\ next' = next
    BY <2>1
  <2> QED
    BY <1>0, <2>2, <2>3, NoFrameOK DEF ControlInv, WalkOK, SessionOK, LiveOK, QuietOK, Starting,
       Outside, Cleared
<1>h5. CASE Resolve
  <2>0. pc = "resolve" /\ next' = next /\ session # "none" /\ ex' = ex
    BY <1>h5 DEF Resolve, ControlInv, SessionOK, Starting, Outside, Cleared
  <2>1. CASE TestnetReset(orders)
    BY <2>0, <2>1, ResetControl
  <2>2. CASE fr.todo # {} /\ ~TestnetReset(orders)
    <3>1. /\ pc' = "resolve" /\ fr' = [fr EXCEPT !.todo = @ \ {Min(fr.todo)}]
          /\ UNCHANGED << session, live >>
      BY <1>h5, <2>2 DEF Resolve
    <3>2. fr' \in Frame /\ fr'.caller = fr.caller /\ fr'.then = fr.then
      BY <1>0, <3>1 DEF Frame
    <3> QED
      BY <2>0, <3>1, <3>2 DEF ControlInv, WalkOK, SessionOK, LiveOK, QuietOK, Starting, Outside,
         Cleared, Live
  <2>3. CASE fr.todo = {}
    <3>1. /\ pc' = fr.then /\ fr' = [fr EXCEPT !.then = "", !.listed = {}]
          /\ UNCHANGED << session, live >>
      BY <1>h5, <2>3 DEF Resolve
    <3>2. fr' \in Frame /\ fr'.caller = fr.caller /\ fr'.then = ""
      BY <1>0, <3>1 DEF Frame, Sequels
    <3> QED
      BY <2>0, <3>1, <3>2 DEF ControlInv, WalkOK, SessionOK, LiveOK, QuietOK, Starting, Outside,
         Cleared, Live
  <2> QED
    BY <2>1, <2>2, <2>3
<1>h6. CASE Query
  <2>0. pc = "query" /\ next' = next /\ session # "none"
    BY <1>h6 DEF Query, ControlInv, SessionOK, Starting, Outside, Cleared
  <2>1. CASE ex[fr.cur].status = "none"
    <3>1. TestnetReset(orders)
      BY <1>h6, <2>1 DEF Query
    <3> QED
      BY <2>0, <3>1, ResetControl
  <2>2. CASE ex[fr.cur].status = "FILLED"
    <3>1. pc' = "refill" /\ fr' = fr /\ UNCHANGED << session, live >>
      BY <1>h6, <2>2 DEF Query
    <3> QED
      BY <2>0, <3>1 DEF ControlInv, WalkOK, SessionOK, LiveOK, QuietOK, Starting, Outside, Cleared
  <2>3. CASE ex[fr.cur].status \notin {"none", "FILLED"}
    <3>1. pc' = fr.then /\ fr' = [fr EXCEPT !.then = ""] /\ UNCHANGED << session, live >>
      BY <1>h6, <2>3 DEF Query
    <3>2. fr' \in Frame /\ fr'.caller = fr.caller /\ fr'.then = ""
      BY <1>0, <3>1 DEF Frame, Sequels
    <3> QED
      BY <2>0, <3>1, <3>2 DEF ControlInv, WalkOK, SessionOK, LiveOK, QuietOK, Starting, Outside,
         Cleared
  <2> QED
    BY <2>1, <2>2, <2>3
<1>h7. CASE ReconcileHistory
  <2>0. pc = "rec_history" /\ next' = next /\ session # "none"
    BY <1>h7 DEF ReconcileHistory, ControlInv, SessionOK, Starting, Outside, Cleared
  <2>1. CASE TestnetReset(orders)
    BY <2>0, <2>1, ResetControl
  <2>2. CASE ~TestnetReset(orders)
    <3>1. pc' = "loop" /\ fr' = NoFrame /\ UNCHANGED << session, live >>
      BY <1>h7, <2>2 DEF ReconcileHistory
    <3>2. Landed
      BY <3>1, SessionFacts, NoFrameOK DEF Landed
    <3> QED
      BY <1>0, <2>0, <3>2, LandedOK
  <2> QED
    BY <2>1, <2>2
<1>h8. CASE CancelRemaining
  <2>0. pc = "ca_remaining" /\ next' = next
    BY <1>h8 DEF CancelRemaining
  <2>1. CASE fr.todo = {} /\ fr.confirms > 0
    <3>1. pc' = "ca_confirm" /\ fr' = fr /\ UNCHANGED << session, live >>
      BY <1>h8, <2>1 DEF CancelRemaining
    <3> QED
      BY <2>0, <3>1 DEF ControlInv, WalkOK, SessionOK, LiveOK, QuietOK, Starting, Outside, Cleared
  <2>2. CASE fr.todo = {} /\ ~(fr.confirms > 0)
    <3>1. CancelAllReturns(FALSE, "cancel_pending")
      BY <1>h8, <2>2 DEF CancelRemaining
    <3> QED
      BY <1>0, <2>0, <3>1, CancelAllLands, LandedOK
  <2>3. CASE fr.todo # {} /\ orders[Min(fr.todo)].state # "none"
    <3>1. /\ pc' = "delete" /\ UNCHANGED << session, live >>
          /\ fr' = [[fr EXCEPT !.todo = @ \ {Min(fr.todo)}]
                       EXCEPT !.cur = Min(fr.todo), !.then = "ca_remaining"]
      BY <1>h8, <2>3 DEF CancelRemaining
    <3>2. fr' \in Frame /\ fr'.caller = fr.caller /\ fr'.then = "ca_remaining"
      BY <1>0, <1>m, <2>3, <3>1 DEF Frame, Sequels
    <3> QED
      BY <2>0, <3>1, <3>2 DEF ControlInv, WalkOK, SessionOK, LiveOK, QuietOK, Starting, Outside,
         Cleared
  <2>4. CASE fr.todo # {} /\ orders[Min(fr.todo)].state = "none"
    <3>1. /\ pc' = "ca_remaining" /\ UNCHANGED << session, live >>
          /\ fr' = [fr EXCEPT !.todo = @ \ {Min(fr.todo)}]
      BY <1>h8, <2>4 DEF CancelRemaining
    <3>2. fr' \in Frame /\ fr'.caller = fr.caller
      BY <1>0, <3>1 DEF Frame
    <3> QED
      BY <2>0, <3>1, <3>2 DEF ControlInv, WalkOK, SessionOK, LiveOK, QuietOK, Starting, Outside,
         Cleared
  <2> QED
    BY <2>1, <2>2, <2>3, <2>4
<1>h9. CASE CancelAllDone
  BY <1>0, <1>h9, CancelAllLands, LandedOK DEF CancelAllDone
<1>h10. CASE Shutdown
  <2>0. pc = "shutdown" /\ UNCHANGED << session, live, next >>
    BY <1>h10 DEF Shutdown
  <2>1. CASE session = "none"
    <3>1. pc' = "ended" /\ fr' = NoFrame
      BY <1>h10, <2>1 DEF Shutdown
    <3>2. Landed
      BY <2>0, <3>1, SessionFacts, NoFrameOK DEF Landed
    <3> QED
      BY <1>0, <2>0, <3>2, LandedOK
  <2>2. CASE session # "none"
    <3>1. /\ pc' = "cancel_all"
          /\ fr' = [NoFrame EXCEPT !.caller = "shutdown", !.tries = StopAttempts]
      BY <1>h10, <2>2 DEF Shutdown
    <3>2. fr' \in Frame
      BY <1>i, <3>1, NoFrameOK, FrameCounts, Zenon
    <3>3. Landed
      BY <2>0, <2>2, <3>1, <3>2, SessionFacts DEF Landed
    <3> QED
      BY <1>0, <2>0, <3>3, LandedOK
  <2> QED
    BY <2>1, <2>2
<1>h11. CASE ResetOpen
  <2>1. /\ session = "ended" /\ live = 0
    BY <1>h11 DEF ResetOpen, ControlInv, SessionOK, LiveOK
  <2>2. session' = "open" /\ live' = live + 1 /\ next' = next
    BY <1>h11 DEF ResetOpen, OpenSession
  <2>3. live' = 1
    BY <2>1, <2>2
  <2>4. \/ pc' \in {"loop", "ended"} /\ fr' = NoFrame
        \/ pc' = "cancel_all" /\ fr' = [fr EXCEPT !.again = TRUE]
    BY <1>0, <1>h11 DEF ResetOpen, Frame
  <2>5. fr' \in Frame /\ pc' \in {"loop", "ended", "cancel_all"}
    BY <1>0, <2>4, NoFrameOK DEF Frame
  <2>6. session' = "open" /\ next' = next
    BY <2>2
  <2>7. Landed
    BY <2>3, <2>5, <2>6 DEF Landed
  <2> QED
    BY <1>0, <2>6, <2>7, LandedOK
<1>h12. CASE Failed
  <2>1. next' = next
    BY <1>h12 DEF Failed, GetFails, DeleteFails, CallRateLimited, PostFails, AuthFails, StopTimesOut
  <2>2. CASE StopTimesOut
    <3>1. pc' \in {"ended", "shutdown"} /\ fr' = NoFrame /\ UNCHANGED << session, live >>
      BY <2>2 DEF StopTimesOut
    <3> QED
      BY <1>0, <2>1, <3>1, SessionFacts, NoFrameOK, LandedOK DEF Landed
  <2>3. CASE GetFails \/ DeleteFails \/ PostFails
    <3>1. Raise("unavailable")
      BY <2>3 DEF GetFails, DeleteFails, PostFails
    <3> QED
      BY <1>0, <2>1, <3>1, RaiseLands, LandedOK
  <2>4. CASE CallRateLimited \/ AuthFails
    <3>1. Raise("rate") \/ Raise("auth")
      BY <2>4 DEF CallRateLimited, AuthFails
    <3> QED
      BY <1>0, <2>1, <3>1, RaiseLands, LandedOK
  <2> QED
    BY <1>h12, <2>2, <2>3, <2>4 DEF Failed
<1>h13. CASE Crash
  <2>1. pc' = "loop" /\ fr' = NoFrame /\ session' = "none" /\ UNCHANGED << next, live >>
    BY <1>h13 DEF Crash
  <2>2. live \in Nat /\ live <= 1
    BY SessionFacts
  <2>3. Landed
    BY <2>1, <2>2, NoFrameOK DEF Landed
  <2> QED
    BY <1>0, <2>1, <2>3, LandedOK
<1>h14. CASE Fill \/ ExchangeReset \/ ToggleKill \/ Stop \/ RevokeKeys \/ Ended
  <2>1. UNCHANGED << pc, fr, session, live, next >>
    BY <1>h14 DEF Fill, ExchangeReset, ToggleKill, Stop, RevokeKeys, Ended, Still, vars
  <2>2. Live = {} => Live' = {}
    <3>1. CASE Fill
      BY <3>1 DEF Fill
    <3>2. CASE ExchangeReset
      BY <3>2 DEF ExchangeReset, Live, NoOrder
    <3>3. CASE ToggleKill \/ Stop \/ RevokeKeys \/ Ended
      BY <3>3 DEF ToggleKill, Stop, RevokeKeys, Ended, vars, Live
    <3> QED
      BY <1>h14, <3>1, <3>2, <3>3
  <2> QED
    BY <2>1, <2>2 DEF ControlInv, WalkOK, SessionOK, LiveOK, QuietOK, Starting, Outside, Cleared
<1> QED
  BY <1>1, <1>2, <1>3, <1>4, <1>5, <1>6, <1>7, <1>8, <1>9, <1>10, <1>11, <1>12, <1>13, <1>14,
     <1>15, <1>16, <1>17, <1>h1, <1>h2, <1>h3, <1>h4, <1>h5, <1>h6, <1>h7, <1>h8, <1>h9, <1>h10,
     <1>h11, <1>h12, <1>h13, <1>h14 DEF Next, Trader, Answered, Failed, World

\* What the place in the code says of the rest, whatever calls fail: which session is
\* open or has ended, and that nothing is live where cancel_all is about to succeed
\* (startup, _iterate, cancel_all, _testnet_reset).
THEOREM TraderControl == Spec => []ControlInv
<1>1. Init => ControlInv
  <2> SUFFICES ASSUME Init PROVE ControlInv
    OBVIOUS
  <2>1. /\ pc = "loop" /\ fr = NoFrame /\ session = "none"
        /\ next \in Nat /\ live \in Nat /\ live <= 1
    BY DEF Init
  <2> QED
    BY <2>1, NoFrameOK DEF ControlInv, WalkOK, SessionOK, LiveOK, QuietOK, Starting, Outside,
       Cleared
<1>2. ControlInv /\ [Next]_vars => ControlInv'
  <2>1. CASE UNCHANGED vars
    BY <2>1 DEF vars, ControlInv, WalkOK, SessionOK, LiveOK, QuietOK, Starting, Outside, Cleared,
       Live
  <2> QED
    BY <2>1, ControlStep
<1> QED
  BY <1>1, <1>2, PTL DEF Spec

\* FR-016, FR-024: the repository never holds two live sessions without an end,
\* wherever a crash, a reset or a failed call leaves the one that was open.
THEOREM TraderOneLiveSession == Spec => []OneLiveSession
<1>1. ControlInv => OneLiveSession
  BY DEF ControlInv, LiveOK, OneLiveSession
<1> QED
  BY <1>1, TraderControl, PTL

\* FR-015: the status turns to paused, or to stopped after a session, only when the
\* exchange holds no lab order: cancel_all succeeds only after openOrders listed
\* none, and nothing is placed between that answer and the new status.
THEOREM TraderQuietOnlyWhenConfirmed == Spec => QuietOnlyWhenConfirmed
<1> DEFINE Confirmed == (/\ state' # state /\ state' \in {"paused", "stopped"}
                         /\ session # "none") => Live' = {}
<1>1. ControlInv /\ [Next]_vars => [Confirmed]_vars
  <2> SUFFICES ASSUME ControlInv, Next, state' # state, state' \in {"paused", "stopped"},
                      session # "none"
               PROVE  Live' = {}
    BY DEF vars
  <2>1. ~CancelAllReturns(FALSE, "cancel_pending")
    BY DEF CancelAllReturns
  <2>2. ASSUME NEW kind \in {"auth", "rate", "unavailable"} PROVE ~Raise(kind)
    BY <2>1 DEF Raise
  <2>3. ~Failed
    BY <2>2 DEF Failed, GetFails, DeleteFails, CallRateLimited, PostFails, AuthFails, StopTimesOut
  <2>4. CASE CancelAllDone
    <3>1. Live = {} /\ ex' = ex
      BY <2>4 DEF CancelAllDone, ControlInv, QuietOK, Local
    <3> QED
      BY <3>1 DEF Live
  <2>5. ~World /\ ~Ended
    BY DEF World, Fill, ExchangeReset, ToggleKill, Stop, RevokeKeys, Crash, Still, Ended, vars
  <2>6. /\ ~Loop /\ ~StartupAccount /\ ~Leftovers /\ ~Stray /\ ~StartupOpen /\ ~Iterate /\ ~Depth
        /\ ~Fills /\ ~List /\ ~Quote /\ ~Resting /\ ~SideDone /\ ~Post /\ ~Delete
    BY DEF Loop, StartupAccount, Leftovers, Stray, StartupOpen, Iterate, Depth, Fills, List, Quote,
       Resting, SideDone, Post, Delete
  <2>7. /\ ~Resolve /\ ~Query /\ ~Refill /\ ~Due /\ ~ReconcileAccount /\ ~ReconcileHistory
        /\ ~StartCancelAll /\ ~CancelRecorded /\ ~Confirm /\ ~Shutdown /\ ~ResetAccount
    BY DEF Resolve, Query, Refill, Due, ReconcileAccount, ReconcileHistory, StartCancelAll,
       CancelRecorded, Confirm, Shutdown, ResetAccount
  <2>8. ~CancelRemaining
    BY <2>1 DEF CancelRemaining
  <2>9. ~ResetOpen
    <3>1. fr \in Frame
      BY DEF ControlInv
    <3>2. fr.scope \in {"step", "reconcile", "cancel_all"} /\ fr.again \in BOOLEAN
      BY <3>1 DEF Frame
    <3> QED
      BY <3>2 DEF ResetOpen
  <2> QED
    BY <2>3, <2>4, <2>5, <2>6, <2>7, <2>8, <2>9 DEF Next, Trader, Answered
<1> QED
  BY <1>1, TraderControl, PTL DEF Spec, QuietOnlyWhenConfirmed

-----------------------------------------------------------------------------
(* Orders *)

RecordStates == {"none"} \union OpenStates \union FinalStates
Record == [side : Sides, state : RecordStates, known : BOOLEAN, filled : Nat]
Statuses == {"none", "NEW", "FILLED", "CANCELED"}
Placed == [side : Sides, status : Statuses, done : Nat]

-----------------------------------------------------------------------------
\* What the handlers make of a record.

LEMMA RecordState ==
    ASSUME NEW o \in Record, NEW st \in RecordStates
    PROVE  LET g == [o EXCEPT !.state = st]
           IN /\ g \in Record /\ g.state = st
              /\ g.side = o.side /\ g.known = o.known /\ g.filled = o.filled
BY DEF Record

LEMMA RecordKnown ==
    ASSUME NEW o \in Record, NEW k \in BOOLEAN, NEW st \in RecordStates
    PROVE  LET g == [o EXCEPT !.known = k, !.state = st]
           IN /\ g \in Record /\ g.state = st /\ g.known = k
              /\ g.side = o.side /\ g.filled = o.filled
BY DEF Record

LEMMA StateNames ==
    /\ {"new", "open", "unknown", "filled", "cancelled", "rejected", "none"} \subseteq RecordStates
    /\ \A st : st \in RecordStates <=>
         st \in {"new", "open", "unknown", "filled", "cancelled", "rejected", "none"}
BY DEF RecordStates, OpenStates, FinalStates

LEMMA AdoptFacts ==
    ASSUME NEW o \in Record
    PROVE  LET g == Adopt(o)
           IN /\ g \in Record /\ g.known = TRUE /\ g.side = o.side /\ g.filled = o.filled
              /\ g.state = IF o.state = "unknown" THEN "open" ELSE o.state
<1> DEFINE st == IF o.state = "unknown" THEN "open" ELSE o.state
<1>1. st \in RecordStates
  BY StateNames DEF Record
<1>2. Adopt(o) = [o EXCEPT !.known = TRUE, !.state = st]
  BY DEF Adopt
<1>3. TRUE \in BOOLEAN
  OBVIOUS
<1> HIDE DEF st
<1>4. LET g == [o EXCEPT !.known = TRUE, !.state = st]
      IN /\ g \in Record /\ g.state = st /\ g.known = TRUE
         /\ g.side = o.side /\ g.filled = o.filled
  BY <1>1, <1>3, RecordKnown, Zenon
<1> QED
  BY <1>2, <1>4, Zenon DEF st

LEMMA ApplyStateFacts ==
    ASSUME NEW o \in Record, NEW status \in {"NEW", "FILLED", "CANCELED"}
    PROVE  LET g == ApplyExchangeState(o, status)
           IN /\ g \in Record /\ g.known = TRUE /\ g.side = o.side /\ g.filled = o.filled
              /\ status = "NEW" => g.state = IF o.state = "unknown" THEN "open" ELSE o.state
              /\ status = "FILLED" => g.state = IF o.filled < Size THEN o.state ELSE "filled"
              /\ status = "CANCELED" => g.state = "cancelled"
<1> DEFINE st == CASE status = "NEW" -> IF o.state = "unknown" THEN "open" ELSE o.state
                   [] status = "FILLED" -> IF o.filled < Size THEN o.state ELSE "filled"
                   [] OTHER -> "cancelled"
<1>1. /\ st \in RecordStates
      /\ status = "NEW" => st = IF o.state = "unknown" THEN "open" ELSE o.state
      /\ status = "FILLED" => st = IF o.filled < Size THEN o.state ELSE "filled"
      /\ status = "CANCELED" => st = "cancelled"
  BY StateNames DEF Record
<1>2. ApplyExchangeState(o, status) = [o EXCEPT !.known = TRUE, !.state = st]
  BY DEF ApplyExchangeState
<1>3. TRUE \in BOOLEAN
  OBVIOUS
<1> HIDE DEF st
<1>4. LET g == [o EXCEPT !.known = TRUE, !.state = st]
      IN /\ g \in Record /\ g.state = st /\ g.known = TRUE
         /\ g.side = o.side /\ g.filled = o.filled
  BY <1>1, <1>3, RecordKnown, Zenon
<1> QED
  BY <1>1, <1>2, <1>4

LEMMA ApplyFillsFacts ==
    ASSUME NEW o \in Record, NEW n \in Nat
    PROVE  LET g == ApplyFills(o, n)
           IN /\ g \in Record /\ g.known = o.known /\ g.side = o.side /\ g.filled = o.filled + n
              /\ g.state = IF n = 0 THEN o.state ELSE IF o.filled + n >= Size THEN "filled"
                           ELSE IF o.state = "unknown" THEN "open" ELSE o.state
<1>1. CASE n = 0
  <2>1. ApplyFills(o, n) = o /\ o.filled + n = o.filled
    BY <1>1 DEF ApplyFills, Record
  <2> QED
    BY <1>1, <2>1
<1>2. CASE n # 0
  <2> DEFINE got == o.filled + n
  <2> DEFINE st == IF got >= Size THEN "filled"
                   ELSE IF o.state = "unknown" THEN "open" ELSE o.state
  <2>1. st \in RecordStates /\ got \in Nat
    BY StateNames DEF Record
  <2>2. ApplyFills(o, n) = [o EXCEPT !.filled = got, !.state = st]
    BY <1>2 DEF ApplyFills
  <2>3. st = IF n = 0 THEN o.state ELSE IF o.filled + n >= Size THEN "filled"
             ELSE IF o.state = "unknown" THEN "open" ELSE o.state
    BY <1>2
  <2>4. got = o.filled + n
    OBVIOUS
  <2> HIDE DEF st, got
  <2>5. LET g == [o EXCEPT !.filled = got, !.state = st]
        IN /\ g \in Record /\ g.state = st /\ g.filled = got
           /\ g.side = o.side /\ g.known = o.known
    BY <2>1 DEF Record
  <2> QED
    BY <2>2, <2>3, <2>4, <2>5, Zenon
<1> QED
  BY <1>1, <1>2

LEMMA NoRecordFacts ==
    /\ NoRecord \in Record /\ NoRecord.state = "none" /\ NoRecord.known = FALSE
    /\ NoRecord.filled = 0
    /\ NoOrder \in Placed /\ NoOrder.status = "none" /\ NoOrder.done = 0
BY StateNames DEF NoRecord, NoOrder, Record, Placed, Sides, Statuses

-----------------------------------------------------------------------------
\* What reading the fills does: the records and the trade cursor.

LEMMA MaxPair ==
    ASSUME NEW a \in Int, NEW b \in Int
    PROVE  Max({a, b}) \in {a, b} /\ Max({a, b}) >= a /\ Max({a, b}) >= b
<1>1. \E x \in {a, b} : \A y \in {a, b} : x >= y
  OBVIOUS
<1> QED
  BY <1>1 DEF Max

LedgerOK ==
    /\ tape \in Seq(Ids) /\ purged \in 0..Len(tape)
    /\ ledger.last \in 0..Len(tape) /\ ledger.first \in Nat

LEMMA FromIdOK ==
    ASSUME LedgerOK
    PROVE  /\ FromId \in Nat /\ FromId >= 1 /\ Len(tape) \in Nat
           /\ FromId = IF ledger.last >= purged THEN ledger.last + 1 ELSE purged + 1
           /\ \A i \in FromId..Len(tape) : i > purged /\ i > ledger.last /\ tape[i] \in Ids
           /\ \A c : Unread(c) \in SUBSET (FromId..Len(tape)) /\ IsFiniteSet(Unread(c))
                     /\ Cardinality(Unread(c)) \in Nat
<1>1. Len(tape) \in Nat /\ purged \in Int /\ ledger.last \in Int /\ purged >= 0 /\ ledger.last >= 0
  BY DEF LedgerOK
<1>2. /\ Max({ledger.last, purged}) \in {ledger.last, purged}
      /\ Max({ledger.last, purged}) >= ledger.last /\ Max({ledger.last, purged}) >= purged
  BY <1>1, MaxPair
<1>3. FromId = IF ledger.last >= purged THEN ledger.last + 1 ELSE purged + 1
  BY <1>1, <1>2 DEF FromId
<1>4. FromId \in Nat /\ FromId >= 1
  BY <1>1, <1>3
<1>5. \A i \in FromId..Len(tape) : i > purged /\ i > ledger.last /\ i \in 1..Len(tape)
  BY <1>1, <1>3
<1>6. \A i \in 1..Len(tape) : tape[i] \in Ids
  BY DEF LedgerOK
<1>7. IsFiniteSet(FromId..Len(tape))
  BY <1>1, <1>4, FS_Interval
<1>8. ASSUME NEW c
      PROVE  /\ Unread(c) \in SUBSET (FromId..Len(tape)) /\ IsFiniteSet(Unread(c))
             /\ Cardinality(Unread(c)) \in Nat
  <2>1. Unread(c) \in SUBSET (FromId..Len(tape))
    BY DEF Unread
  <2> QED
    BY <2>1, <1>7, FS_Subset, FS_CardinalityType
<1> QED
  BY <1>1, <1>3, <1>4, <1>5, <1>6, <1>8

LEMMA ReadOrders ==
    ASSUME LedgerOK, orders \in [Ids -> Record], NEW r, r = ReadFills(orders).orders
    PROVE  /\ r \in [Ids -> Record]
           /\ \A c \in Ids :
                /\ r[c].known = orders[c].known /\ r[c].side = orders[c].side
                /\ ~orders[c].known => r[c] = orders[c]
                /\ orders[c].known => r[c] = ApplyFills(orders[c], Cardinality(Unread(c)))
                /\ orders[c].known => r[c].filled = orders[c].filled + Cardinality(Unread(c))
                /\ r[c].state = orders[c].state \/ r[c].state \in {"open", "filled"}
                /\ r[c].state = orders[c].state \/ orders[c].known
                /\ r[c].state = orders[c].state \/ Unread(c) # {}
                /\ r[c].state = "open" => orders[c].state \in {"open", "unknown"}
                /\ r[c].state = "filled" /\ orders[c].state # "filled" => r[c].filled >= Size
<1>1. r = [c \in Ids |-> IF orders[c].known
                         THEN ApplyFills(orders[c], Cardinality(Unread(c))) ELSE orders[c]]
  BY DEF ReadFills
<1>2. ASSUME NEW c \in Ids
      PROVE  /\ r[c] \in Record
             /\ r[c].known = orders[c].known /\ r[c].side = orders[c].side
             /\ ~orders[c].known => r[c] = orders[c]
             /\ orders[c].known => r[c] = ApplyFills(orders[c], Cardinality(Unread(c)))
             /\ orders[c].known => r[c].filled = orders[c].filled + Cardinality(Unread(c))
             /\ r[c].state = orders[c].state \/ r[c].state \in {"open", "filled"}
             /\ r[c].state = orders[c].state \/ orders[c].known
             /\ r[c].state = orders[c].state \/ Unread(c) # {}
             /\ r[c].state = "open" => orders[c].state \in {"open", "unknown"}
             /\ r[c].state = "filled" /\ orders[c].state # "filled" => r[c].filled >= Size
  <2>1. orders[c] \in Record
    OBVIOUS
  <2>2. Cardinality(Unread(c)) \in Nat /\ (Unread(c) = {} => Cardinality(Unread(c)) = 0)
    BY FromIdOK, FS_EmptySet
  <2>3. CASE orders[c].known
    <3>1. r[c] = ApplyFills(orders[c], Cardinality(Unread(c)))
      BY <1>1, <2>3
    <3> DEFINE n == Cardinality(Unread(c))
               g == ApplyFills(orders[c], n)
    <3>2. /\ g \in Record /\ g.known = orders[c].known /\ g.side = orders[c].side
          /\ g.filled = orders[c].filled + n
          /\ g.state = IF n = 0 THEN orders[c].state ELSE IF orders[c].filled + n >= Size THEN "filled"
                       ELSE IF orders[c].state = "unknown" THEN "open" ELSE orders[c].state
      BY <2>1, <2>2, ApplyFillsFacts, Zenon
    <3>3. r[c] = g
      BY <3>1
    <3>4. n \in Nat /\ (Unread(c) = {} => n = 0)
      BY <2>2
    <3> HIDE DEF g, n
    <3> QED
      BY <2>3, <3>2, <3>3, <3>4 DEF g, n
  <2>4. CASE ~orders[c].known
    <3>1. r[c] = orders[c]
      BY <1>1, <2>4
    <3> QED
      BY <2>1, <2>4, <3>1
  <2> QED
    BY <2>3, <2>4
<1>3. r \in [Ids -> Record]
  BY <1>1, <1>2
<1> QED
  BY <1>2, <1>3

LEMMA ReadLedger ==
    ASSUME LedgerOK, NEW l, l = ReadFills(orders).ledger
    PROVE  /\ l.last = IF FromId <= Len(tape) THEN Len(tape) ELSE ledger.last
           /\ l.last \in 0..Len(tape) /\ l.last >= ledger.last
           /\ l.first \in Nat
           /\ l.first = ledger.first \/ l.first > purged
<1> DEFINE fresh == {i \in FromId..Len(tape) : orders[tape[i]].known}
<1>1. /\ l.last = IF FromId <= Len(tape) THEN Len(tape) ELSE ledger.last
      /\ l.first = IF ledger.first = 0 /\ fresh # {} THEN Min(fresh) ELSE ledger.first
  BY DEF ReadFills
<1>2. Len(tape) \in Nat /\ ledger.last \in 0..Len(tape) /\ ledger.first \in Nat
  BY FromIdOK DEF LedgerOK
<1>3. fresh \in SUBSET Nat /\ \A i \in fresh : i > purged
  BY FromIdOK
<1> HIDE DEF fresh
<1>4. fresh # {} => Min(fresh) \in Nat /\ Min(fresh) > purged
  BY <1>3, MinOfNaturals
<1> QED
  BY <1>1, <1>2, <1>4

-----------------------------------------------------------------------------
\* A session ends for a reset only if there was one.  The invariant: while no reset
\* happened, an order that is open or has an exchange id is known to the exchange.

RecordsReal ==
    \A c \in Ids : ~wiped /\ (orders[c].known \/ orders[c].state = "open") => ex[c].status # "none"

\* The session's first trade is deleted by a reset only.
HistoryOK == ledger.first = 0 \/ wiped \/ ledger.first > purged

DataReal ==
    /\ ex \in [Ids -> Placed] /\ orders \in [Ids -> Record] /\ wiped \in BOOLEAN /\ LedgerOK
    /\ authOk = TRUE /\ RecordsReal /\ HistoryOK

\* A record is new only while its POST is on the wire.
NoneNew == \A c \in Ids : orders[c].state = "new" => pc = "post" /\ fr.cur = c

\* The answer of openOrders is kept for one pass of _sync_orders only.
ListedOK ==
    /\ fr.listed = {} \/ (/\ fr.scope = "step" /\ (pc = "stray" => fr.then = "resolve")
                          /\ pc \in {"stray", "resolve", "reset_account", "reset_open"})
    /\ \A c \in fr.listed : ~wiped => ex[c].status # "none"
    /\ pc \in {"loop", "iterate", "depth", "fills", "list"} => fr.scope = "step"

\* The orders a walk has still to cancel or to ask for.
Walks(p) == pc = p \/ (pc \in {"delete", "query", "refill"} /\ fr.then = p)
WalkedOK ==
    /\ Walks("side") \/ Walks("ca_orders") =>
         \A c \in fr.todo :
            /\ orders[c].state # "none"
            /\ ~wiped => ex[c].status # "none" \/ orders[c].state = "unknown"
    /\ Walks("ca_remaining") => \A c \in fr.todo : ~wiped => ex[c].status # "none"
    /\ pc = "resolve" => \A c \in fr.todo : orders[c].state \in OpenStates
    /\ pc \in {"delete", "query", "refill"} =>
         /\ fr.cur \in Ids /\ orders[fr.cur].state # "none"
         /\ ~wiped => ex[fr.cur].status # "none"

PostOK ==
    pc = "post" => \A c \in Ids : c = fr.cur =>
        orders[c].state = "new" /\ orders[c].side = fr.side /\ ~orders[c].known

RealInv == DataReal /\ NoneNew /\ ListedOK /\ WalkedOK /\ PostOK /\ ResetsAreReal

\* What every step but a reset does to the exchange's orders.
ExStep ==
    /\ ex' \in [Ids -> Placed]
    /\ \A c \in Ids : ex[c].status # "none" => ex'[c].status # "none"

LEMMA SameExchange == ASSUME ex \in [Ids -> Placed], ex' = ex PROVE ExStep
BY DEF ExStep

LEMMA CancelStep ==
    ASSUME ex \in [Ids -> Placed], NEW d, ex' = CancelAtExchange(d)
    PROVE  /\ ExStep
           /\ \A c \in Ids : c # d \/ ex[c].status # "NEW" => ex'[c] = ex[c]
           /\ \A c \in Ids : ex'[c].side = ex[c].side /\ ex'[c].done = ex[c].done
           /\ d \in Ids => ex'[d].status # "NEW"
<1> USE DEF ExStep, CancelAtExchange, Placed, Statuses
<1>1. CASE d \in Ids
  BY <1>1
<1>2. CASE d \notin Ids
  <2>1. ex' = ex
    BY <1>2
  <2> QED
    BY <1>2, <2>1
<1> QED
  BY <1>1, <1>2

LEMMA PlaceStep ==
    ASSUME ex \in [Ids -> Placed], orders \in [Ids -> Record], NEW d, ex' = PlaceAtExchange(d)
    PROVE  /\ ExStep
           /\ \A c \in Ids : c # d => ex'[c] = ex[c]
           /\ d \in Ids => /\ ex'[d].status = "NEW" /\ ex'[d].done = 0
                           /\ ex'[d].side = orders[d].side
<1> USE DEF ExStep, PlaceAtExchange, Placed, Statuses, Record
<1>1. CASE d \in Ids
  BY <1>1
<1>2. CASE d \notin Ids
  <2>1. ex' = ex
    BY <1>2
  <2> QED
    BY <1>2, <2>1
<1> QED
  BY <1>1, <1>2

LEMMA FillStep ==
    ASSUME ex \in [Ids -> Placed], NEW d \in Live,
           ex' = [ex EXCEPT ![d].done = @ + 1,
                            ![d].status = IF ex[d].done + 1 = Size THEN "FILLED" ELSE @]
    PROVE  /\ ExStep
           /\ \A c \in Ids : c # d => ex'[c] = ex[c]
           /\ \A c \in Ids : ex'[c].side = ex[c].side
           /\ ex'[d].done = ex[d].done + 1
           /\ ex'[d].status = IF ex[d].done + 1 = Size THEN "FILLED" ELSE "NEW"
<1> DEFINE st == IF ex[d].done + 1 = Size THEN "FILLED" ELSE "NEW"
           n == ex[d].done + 1
           g == [ex[d] EXCEPT !.done = n, !.status = st]
<1>1. d \in Ids /\ ex[d] \in Placed /\ ex[d].status = "NEW"
  BY DEF Live
<1>2. ex' = [ex EXCEPT ![d] = g]
  BY <1>1 DEF Placed
<1>3. n \in Nat /\ st \in Statuses /\ st # "none"
  BY <1>1 DEF Placed, Statuses
<1>4. n = ex[d].done + 1 /\ st = IF ex[d].done + 1 = Size THEN "FILLED" ELSE "NEW"
  OBVIOUS
<1> HIDE DEF n, st
<1>5. g \in Placed /\ g.done = n /\ g.status = st /\ g.side = ex[d].side
  BY <1>1, <1>3 DEF Placed
<1> HIDE DEF g
<1>6. ex' \in [Ids -> Placed] /\ \A c \in Ids : ex'[c] = IF c = d THEN g ELSE ex[c]
  BY <1>1, <1>2, <1>5
<1> QED
  BY <1>1, <1>3, <1>4, <1>5, <1>6 DEF ExStep

LEMMA QuietData ==
    ASSUME DataReal, ExStep, orders' = orders, UNCHANGED << wiped, tape, purged, ledger, authOk >>
    PROVE  DataReal'
BY DEF DataReal, ExStep, LedgerOK, RecordsReal, HistoryOK

LEMMA LocalData == ASSUME DataReal, Local, orders' = orders PROVE DataReal'
<1>1. /\ orders' = orders /\ UNCHANGED << wiped, tape, purged, ledger, authOk >>
      /\ ex' = ex
  BY DEF Local, Calm
<1>2. ExStep
  BY <1>1, SameExchange DEF DataReal
<1> QED
  BY <1>1, <1>2, QuietData

\* Where a walk is not under way.
Idle == {"loop", "shutdown", "ended", "cancel_all", "account", "leftovers", "open", "iterate",
         "depth", "fills", "list", "due", "rec_account", "rec_history", "quote", "ca_confirm",
         "ca_return"}
Unlisted == fr'.listed = {} /\ (pc' \in {"loop", "iterate", "depth", "fills", "list"} => fr'.scope = "step")

LEMMA IdleReal ==
    ASSUME DataReal', pc' \in Idle, Unlisted, \A c \in Ids : orders'[c].state # "new"
    PROVE  RealInv'
BY DEF RealInv, NoneNew, ListedOK, WalkedOK, Walks, PostOK, ResetsAreReal, Idle, Unlisted

LEMMA NoFrameUnlisted == NoFrame.listed = {} /\ NoFrame.scope = "step" /\ NoFrame.todo = {}
BY DEF NoFrame

LEMMA ReturnsIdle ==
    ASSUME fr \in Frame, fr.listed = {}, NEW ok, NEW st, CancelAllReturns(ok, st)
    PROVE  pc' \in Idle /\ Unlisted
<1>1. \/ pc' \in {"loop", "ended"} /\ fr' = NoFrame
      \/ pc' = "cancel_all" /\ fr' = [fr EXCEPT !.tries = @ - 1, !.again = FALSE]
  BY DEF CancelAllReturns, Enter
<1>2. [fr EXCEPT !.tries = @ - 1, !.again = FALSE].listed = fr.listed
  BY DEF Frame
<1> QED
  BY <1>1, <1>2, NoFrameUnlisted DEF Idle, Unlisted

LEMMA RaiseIdle ==
    ASSUME ControlInv, ListedOK, NEW kind \in {"auth", "rate", "unavailable"}, Raise(kind)
    PROVE  pc' \in Idle /\ Unlisted
<1>1. CASE kind # "auth" /\ fr.scope = "cancel_all"
  <2>1. CancelAllReturns(FALSE, "cancel_pending") /\ fr.listed = {}
    BY <1>1 DEF Raise, ListedOK
  <2> QED
    BY <2>1, ReturnsIdle DEF ControlInv
<1>2. CASE ~(kind # "auth" /\ fr.scope = "cancel_all")
  <2>1. pc' \in {"loop", "shutdown", "ended"} /\ fr' = NoFrame
    BY <1>2 DEF Raise, Enter
  <2> QED
    BY <2>1, NoFrameUnlisted DEF Idle, Unlisted
<1> QED
  BY <1>1, <1>2

LEMMA NoneNewElsewhere ==
    ASSUME RealInv, pc # "post", orders' = orders
    PROVE  \A c \in Ids : orders'[c].state # "new"
BY DEF RealInv, NoneNew

\* A failed call other than a POST, and cancel_all's return.
LEMMA IdleStep ==
    ASSUME RealInv, pc # "post", orders' = orders, DataReal', pc' \in Idle, Unlisted
    PROVE  RealInv'
BY NoneNewElsewhere, IdleReal

\* _testnet_reset, when the exchange really was reset.
LEMMA ResetReal ==
    ASSUME RealInv, wiped, TestnetReset(orders), pc \in {"resolve", "query", "rec_history"}, Local
    PROVE  RealInv'
<1>1. /\ pc' = "reset_account" /\ fr' = fr
      /\ UNCHANGED << wiped, tape, purged, ledger, authOk, ex >>
      /\ orders' = [c \in Ids |-> IF orders[c].state \in OpenStates
                                  THEN [orders[c] EXCEPT !.state = "cancelled"] ELSE orders[c]]
  BY DEF TestnetReset, Goto, Local, Calm
<1>2. ASSUME NEW c \in Ids
      PROVE  orders'[c] \in Record /\ orders'[c].state # "new"
  <2>1. orders[c] \in Record /\ "cancelled" \in RecordStates
    BY StateNames DEF RealInv, DataReal
  <2>2. CASE orders[c].state \in OpenStates
    <3>1. orders'[c] = [orders[c] EXCEPT !.state = "cancelled"]
      BY <1>1, <2>2
    <3>2. [orders[c] EXCEPT !.state = "cancelled"] \in Record
          /\ [orders[c] EXCEPT !.state = "cancelled"].state = "cancelled"
      BY <2>1, RecordState, Zenon
    <3> QED
      BY <3>1, <3>2
  <2>3. CASE orders[c].state \notin OpenStates
    <3>1. orders'[c] = orders[c]
      BY <1>1, <2>3
    <3> QED
      BY <2>1, <2>3, <3>1 DEF OpenStates
  <2> QED
    BY <2>2, <2>3
<1>3. orders' \in [Ids -> Record]
  BY <1>1, <1>2
<1>4. DataReal'
  BY <1>1, <1>3 DEF RealInv, DataReal, LedgerOK, RecordsReal, HistoryOK
<1> QED
  BY <1>1, <1>2, <1>4 DEF RealInv, NoneNew, ListedOK, WalkedOK, Walks, PostOK, ResetsAreReal

\* _open_session starts over.
LEMMA OpenReal ==
    ASSUME RealInv, OpenSession, Calm, ex' = ex, pc' \in Idle, Unlisted
    PROVE  RealInv'
<1>1. /\ ledger' = FreshLedger(IF purged < Len(tape) THEN Len(tape) ELSE 0)
      /\ orders' = [c \in Ids |-> NoRecord] /\ wiped' = FALSE
      /\ UNCHANGED << tape, purged, authOk, ex >>
  BY DEF OpenSession, Calm
<1>2. ledger'.last \in 0..Len(tape) /\ ledger'.first = 0
  <2>1. Len(tape) \in Nat
    BY DEF RealInv, DataReal, LedgerOK
  <2> QED
    BY <1>1, <2>1 DEF FreshLedger
<1>3. orders' \in [Ids -> Record] /\ \A c \in Ids : orders'[c].state = "none" /\ ~orders'[c].known
  BY <1>1, NoRecordFacts
<1>4. LedgerOK' /\ HistoryOK'
  BY <1>1, <1>2 DEF RealInv, DataReal, LedgerOK, HistoryOK
<1>5. RecordsReal' /\ wiped' \in BOOLEAN
  BY <1>1, <1>3 DEF RecordsReal
<1>6. ex' \in [Ids -> Placed] /\ authOk' = TRUE
  BY <1>1 DEF RealInv, DataReal
<1>7. DataReal'
  BY <1>3, <1>4, <1>5, <1>6 DEF DataReal
<1> QED
  BY <1>3, <1>7, IdleReal

\* The steps that leave the records alone and start or end no walk.
LEMMA RealIdleSteps ==
    ASSUME ControlInv, RealInv,
           \/ Loop \/ StartupAccount \/ StartupOpen \/ Iterate \/ Depth \/ Due \/ CancelAllDone
           \/ Shutdown
    PROVE  RealInv'
<1> USE DEF Goto, Enter
<1>0. fr \in Frame /\ DataReal
  BY DEF ControlInv, RealInv
<1>l. /\ pc \notin {"stray", "resolve", "reset_account", "reset_open"} => fr.listed = {}
      /\ pc \in {"loop", "iterate", "depth", "fills", "list"} => fr.scope = "step"
  BY DEF RealInv, ListedOK
<1>1. CASE Loop
  <2>1. pc = "loop" /\ pc' \in {"shutdown", "account", "iterate"} /\ fr' = fr /\ orders' = orders /\ Local
    BY <1>1 DEF Loop
  <2> QED
    BY <2>1, <1>0, <1>l, LocalData, IdleStep DEF Idle, Unlisted
<1>2. CASE StartupAccount
  <2>1. pc = "account" /\ pc' = "leftovers" /\ fr' = fr /\ orders' = orders /\ Local
    BY <1>2 DEF StartupAccount
  <2> QED
    BY <2>1, <1>0, <1>l, LocalData, IdleStep DEF Idle, Unlisted
<1>3. CASE StartupOpen
  <2>1. pc = "open" /\ pc' = "iterate" /\ fr' = NoFrame /\ OpenSession /\ Calm /\ ex' = ex
    BY <1>3 DEF StartupOpen
  <2> QED
    BY <2>1, NoFrameUnlisted, OpenReal DEF Idle, Unlisted
<1>4. CASE Iterate
  <2>1. /\ pc = "iterate" /\ orders' = orders /\ Local
        /\ \/ pc' = "cancel_all" /\ fr' = [fr EXCEPT !.scope = "cancel_all"]
           \/ pc' = "depth" /\ fr' = fr
    BY <1>4 DEF Iterate
  <2>2. [fr EXCEPT !.scope = "cancel_all"].listed = fr.listed
    BY <1>0 DEF Frame
  <2> QED
    BY <2>1, <2>2, <1>0, <1>l, LocalData, IdleStep DEF Idle, Unlisted
<1>5. CASE Depth
  <2>1. pc = "depth" /\ pc' = "fills" /\ fr' = fr /\ orders' = orders /\ Local
    BY <1>5 DEF Depth
  <2> QED
    BY <2>1, <1>0, <1>l, LocalData, IdleStep DEF Idle, Unlisted
<1>6. CASE Due
  <2>1. /\ pc = "due" /\ orders' = orders /\ Local
        /\ \/ pc' = "rec_account" /\ fr' = [fr EXCEPT !.scope = "reconcile"]
           \/ pc' = "loop" /\ fr' = NoFrame
    BY <1>6 DEF Due
  <2>2. [fr EXCEPT !.scope = "reconcile"].listed = fr.listed
    BY <1>0 DEF Frame
  <2> QED
    BY <2>1, <2>2, <1>0, <1>l, LocalData, NoFrameUnlisted, IdleStep DEF Idle, Unlisted
<1>7. CASE CancelAllDone
  <2>1. pc = "ca_return" /\ CancelAllReturns(TRUE, state) /\ orders' = orders /\ Local
    BY <1>7 DEF CancelAllDone
  <2>2. pc' \in Idle /\ Unlisted
    BY <2>1, <1>0, <1>l, ReturnsIdle
  <2> QED
    BY <2>1, <2>2, <1>0, LocalData, IdleStep
<1>8. CASE Shutdown
  <2>1. /\ pc = "shutdown" /\ orders' = orders /\ Local
        /\ \/ pc' = "ended" /\ fr' = NoFrame
           \/ pc' = "cancel_all"
              /\ fr' = [NoFrame EXCEPT !.caller = "shutdown", !.tries = StopAttempts]
    BY <1>8 DEF Shutdown
  <2>2. [NoFrame EXCEPT !.caller = "shutdown", !.tries = StopAttempts].listed = NoFrame.listed
    BY NoFrameOK DEF Frame
  <2> QED
    BY <2>1, <2>2, <1>0, LocalData, NoFrameUnlisted, IdleStep DEF Idle, Unlisted
<1> QED
  BY <1>1, <1>2, <1>3, <1>4, <1>5, <1>6, <1>7, <1>8

\* The walks' moves: past an order, past one that is kept, and into its DELETE.
LEMMA StepOver ==
    ASSUME fr \in Frame, NEW d, fr' = [fr EXCEPT !.todo = @ \ {d}]
    PROVE  /\ fr'.todo = fr.todo \ {d} /\ fr'.listed = fr.listed /\ fr'.scope = fr.scope
           /\ fr'.then = fr.then /\ fr'.cur = fr.cur /\ fr'.side = fr.side /\ fr'.kept = fr.kept
BY DEF Frame

LEMMA KeepOver ==
    ASSUME fr \in Frame, NEW d, fr' = [[fr EXCEPT !.todo = @ \ {d}] EXCEPT !.kept = TRUE]
    PROVE  /\ fr'.todo = fr.todo \ {d} /\ fr'.listed = fr.listed /\ fr'.scope = fr.scope
           /\ fr'.side = fr.side /\ fr'.kept
BY DEF Frame

LEMMA TurnTo ==
    ASSUME fr \in Frame, NEW d, NEW t,
           fr' = [[fr EXCEPT !.todo = @ \ {d}] EXCEPT !.cur = d, !.then = t]
    PROVE  /\ fr'.todo = fr.todo \ {d} /\ fr'.listed = fr.listed /\ fr'.scope = fr.scope
           /\ fr'.then = t /\ fr'.cur = d /\ fr'.side = fr.side /\ fr'.kept = fr.kept
BY DEF Frame

\* The steps that start a walk or go on with one, and leave the records alone.
LEMMA RealWalkSteps ==
    ASSUME ControlInv, RealInv,
           \/ Leftovers \/ Stray \/ List \/ Quote \/ Resting \/ ReconcileAccount
           \/ StartCancelAll \/ CancelRecorded \/ Confirm \/ CancelRemaining \/ ResetAccount
    PROVE  RealInv'
<1> USE DEF Goto, Enter
<1>f. fr \in Frame /\ DataReal /\ ex \in [Ids -> Placed] /\ fr.todo \in SUBSET Ids
  BY DEF ControlInv, RealInv, DataReal, Frame
<1>l. /\ pc \notin {"stray", "resolve", "reset_account", "reset_open"} => fr.listed = {}
      /\ pc \in {"loop", "iterate", "depth", "fills", "list"} => fr.scope = "step"
  BY DEF RealInv, ListedOK
<1>m. fr.todo # {} => Min(fr.todo) \in fr.todo
  BY <1>f, MinInside
<1>o. ASSUME NEW c \in OpenRecords, pc # "post"
      PROVE  /\ c \in Ids /\ orders[c].state # "none"
             /\ ~wiped => ex[c].status # "none" \/ orders[c].state = "unknown"
  BY <1>o DEF OpenRecords, OpenStates, RealInv, NoneNew, DataReal, RecordsReal
<1>v. ASSUME NEW c \in Live PROVE c \in Ids /\ ex[c].status # "none"
  BY DEF Live
<1>1. CASE Leftovers
  <2>1. /\ pc = "leftovers" /\ pc' = "stray" /\ fr' = [fr EXCEPT !.todo = Live, !.then = "open"]
        /\ orders' = orders /\ Local
    BY <1>1 DEF Leftovers
  <2>2. fr'.listed = {}
    BY <2>1, <1>f, <1>l DEF Frame
  <2>3. DataReal' /\ \A c \in Ids : orders'[c].state # "new"
    BY <2>1, <1>f, LocalData, NoneNewElsewhere
  <2> QED
    BY <2>1, <2>2, <2>3 DEF RealInv, NoneNew, ListedOK, WalkedOK, Walks, PostOK, ResetsAreReal
<1>2. CASE Stray
  <2>1. /\ pc = "stray" /\ orders' = orders /\ UNCHANGED << wiped, tape, purged, ledger, authOk >>
    BY <1>2 DEF Stray, Calm
  <2>2. \A c \in Ids : orders'[c].state # "new"
    BY <2>1, NoneNewElsewhere
  <2>3. CASE fr.todo # {}
    <3>1. /\ ex' = CancelAtExchange(Min(fr.todo)) /\ pc' = "stray"
          /\ fr' = [fr EXCEPT !.todo = @ \ {Min(fr.todo)}]
      BY <1>2, <2>3 DEF Stray
    <3>2. fr'.listed = fr.listed /\ fr'.scope = fr.scope /\ fr.listed \in SUBSET Ids
      BY <3>1, <1>f DEF Frame
    <3>3. ExStep
      BY <3>1, <1>f, CancelStep
    <3>4. DataReal'
      BY <2>1, <3>3, <1>f, QuietData
    <3> QED
      BY <2>1, <2>2, <3>1, <3>2, <3>3, <3>4
      DEF RealInv, NoneNew, ListedOK, WalkedOK, Walks, PostOK, ResetsAreReal, ExStep
  <2>4. CASE fr.todo = {}
    <3>1. /\ ex' = ex /\ pc' = fr.then
          /\ fr' = [fr EXCEPT !.then = IF fr.then = "resolve" THEN "quote" ELSE "",
                              !.todo = IF fr.then = "resolve"
                                       THEN {c \in Ids : orders[c].state \in {"open", "unknown"}}
                                       ELSE {}]
      BY <1>2, <2>4 DEF Stray
    <3>2. /\ fr'.listed = fr.listed /\ fr'.scope = fr.scope /\ fr.listed \in SUBSET Ids
          /\ fr.then = "resolve" => fr'.todo = {c \in Ids : orders[c].state \in {"open", "unknown"}}
      BY <3>1, <1>f DEF Frame
    <3>3. DataReal'
      BY <2>1, <3>1, <1>f, SameExchange, QuietData
    <3>4. CASE fr.then = "resolve"
      BY <2>1, <2>2, <3>1, <3>2, <3>3, <3>4
      DEF RealInv, NoneNew, ListedOK, WalkedOK, Walks, PostOK, ResetsAreReal, OpenStates
    <3>5. CASE fr.then = "open"
      <4>1. fr.listed = {}
        BY <3>5, <2>1 DEF RealInv, ListedOK
      <4> QED
        BY <2>1, <2>2, <3>1, <3>2, <3>3, <3>5, <4>1, IdleReal DEF Idle, Unlisted
    <3> QED
      BY <2>1, <3>4, <3>5 DEF ControlInv, WalkOK
  <2> QED
    BY <2>3, <2>4
<1>3. CASE List
  <2>1. /\ pc = "list" /\ pc' = "stray" /\ orders' = orders /\ Local
        /\ fr' = [fr EXCEPT !.listed = Live, !.then = "resolve",
                            !.todo = {c \in Live : orders[c].state = "none"}]
    BY <1>3 DEF List
  <2>2. fr'.listed = Live /\ fr'.scope = fr.scope /\ fr'.then = "resolve"
    BY <2>1, <1>f DEF Frame
  <2>3. DataReal' /\ (\A c \in Ids : orders'[c].state # "new") /\ ex' = ex /\ wiped' = wiped
    BY <2>1, <1>f, LocalData, NoneNewElsewhere DEF Local
  <2> QED
    BY <2>1, <2>2, <2>3, <1>l, <1>v
    DEF RealInv, NoneNew, ListedOK, WalkedOK, Walks, PostOK, ResetsAreReal
<1>4. CASE Quote
  <2> DEFINE bids == {c \in OpenRecords : orders[c].side = "bid"}
  <2>1. /\ pc = "quote" /\ pc' = "side" /\ orders' = orders /\ Local
        /\ \E targets : fr' = [fr EXCEPT !.targets = targets, !.side = "bid", !.kept = FALSE,
                                         !.todo = bids]
    BY <1>4 DEF Quote
  <2>2. fr'.listed = {} /\ fr'.todo = bids
    <3>1. ASSUME NEW targets, NEW S, NEW sd, NEW k
          PROVE  LET g == [fr EXCEPT !.targets = targets, !.side = sd, !.kept = k, !.todo = S]
                 IN g.listed = fr.listed /\ g.todo = S
      BY <1>f DEF Frame
    <3> QED
      BY <2>1, <3>1, <1>l
  <2>3. DataReal' /\ (\A c \in Ids : orders'[c].state # "new") /\ ex' = ex /\ wiped' = wiped
    BY <2>1, <1>f, LocalData, NoneNewElsewhere DEF Local
  <2> QED
    BY <2>1, <2>2, <2>3, <1>o
    DEF RealInv, NoneNew, ListedOK, WalkedOK, Walks, PostOK, ResetsAreReal
<1>5. CASE Resting
  <2> DEFINE d == Min(fr.todo)
  <2>1. /\ pc = "side" /\ fr.todo # {} /\ orders' = orders /\ Local
        /\ \/ pc' = "side" /\ fr' = [fr EXCEPT !.todo = @ \ {d}]
           \/ pc' = "side" /\ fr' = [[fr EXCEPT !.todo = @ \ {d}] EXCEPT !.kept = TRUE]
           \/ /\ pc' = "delete" /\ orders[d].state # "unknown"
              /\ fr' = [[fr EXCEPT !.todo = @ \ {d}] EXCEPT !.cur = d, !.then = "side"]
    BY <1>5 DEF Resting
  <2>2. d \in fr.todo /\ d \in Ids
    BY <2>1, <1>f, <1>m
  <2> HIDE DEF d
  <2>3. /\ fr'.listed = {} /\ fr'.todo = fr.todo \ {d}
        /\ pc' = "delete" => fr'.cur = d /\ fr'.then = "side"
    <3>1. CASE fr' = [fr EXCEPT !.todo = @ \ {d}] /\ pc' = "side"
      BY <2>1, <3>1, <1>f, <1>l, StepOver
    <3>2. CASE fr' = [[fr EXCEPT !.todo = @ \ {d}] EXCEPT !.kept = TRUE] /\ pc' = "side"
      BY <2>1, <3>2, <1>f, <1>l, KeepOver
    <3>3. CASE fr' = [[fr EXCEPT !.todo = @ \ {d}] EXCEPT !.cur = d, !.then = "side"]
      BY <2>1, <3>3, <1>f, <1>l, TurnTo
    <3> QED
      BY <2>1, <3>1, <3>2, <3>3
  <2>4. DataReal' /\ (\A c \in Ids : orders'[c].state # "new") /\ ex' = ex /\ wiped' = wiped
    BY <2>1, <1>f, LocalData, NoneNewElsewhere DEF Local
  <2>5. \A c \in fr.todo : /\ orders[c].state # "none"
                           /\ ~wiped => ex[c].status # "none" \/ orders[c].state = "unknown"
    BY <2>1 DEF RealInv, WalkedOK, Walks
  <2> QED
    BY <2>1, <2>2, <2>3, <2>4, <2>5
    DEF RealInv, NoneNew, ListedOK, WalkedOK, Walks, PostOK, ResetsAreReal
<1>6. CASE ReconcileAccount
  <2> DEFINE asked == {c \in OpenRecords : orders[c].state = "unknown" \/ ~orders[c].known}
  <2>1. /\ pc = "rec_account" /\ pc' = "resolve" /\ orders' = orders /\ Local
        /\ fr' = [fr EXCEPT !.then = "rec_history", !.todo = asked]
    BY <1>6 DEF ReconcileAccount
  <2>2. fr'.listed = {} /\ fr'.todo = asked
    BY <2>1, <1>f, <1>l DEF Frame
  <2>3. DataReal' /\ (\A c \in Ids : orders'[c].state # "new")
    BY <2>1, <1>f, LocalData, NoneNewElsewhere
  <2> QED
    BY <2>1, <2>2, <2>3
    DEF RealInv, NoneNew, ListedOK, WalkedOK, Walks, PostOK, ResetsAreReal, OpenRecords
<1>7. CASE StartCancelAll
  <2>1. /\ pc = "cancel_all" /\ pc' = "ca_orders" /\ orders' = orders /\ Local
        /\ fr' = [fr EXCEPT !.scope = "cancel_all", !.todo = OpenRecords,
                            !.confirms = ConfirmAttempts]
    BY <1>7 DEF StartCancelAll
  <2>2. fr'.listed = {} /\ fr'.todo = OpenRecords
    <3>1. ASSUME NEW k, NEW S, NEW n
          PROVE  LET g == [fr EXCEPT !.scope = k, !.todo = S, !.confirms = n]
                 IN g.listed = fr.listed /\ g.todo = S
      BY <1>f DEF Frame
    <3> QED
      BY <2>1, <3>1, <1>l
  <2>3. DataReal' /\ (\A c \in Ids : orders'[c].state # "new") /\ ex' = ex /\ wiped' = wiped
    BY <2>1, <1>f, LocalData, NoneNewElsewhere DEF Local
  <2> QED
    BY <2>1, <2>2, <2>3, <1>o
    DEF RealInv, NoneNew, ListedOK, WalkedOK, Walks, PostOK, ResetsAreReal
<1>8. CASE CancelRecorded
  <2> DEFINE d == Min(fr.todo)
  <2>1. /\ pc = "ca_orders" /\ orders' = orders /\ Local
        /\ \/ fr.todo = {} /\ pc' = "ca_confirm" /\ fr' = fr
           \/ fr.todo # {} /\ pc' = "ca_orders" /\ fr' = [fr EXCEPT !.todo = @ \ {d}]
           \/ /\ fr.todo # {} /\ pc' = "delete" /\ orders[d].state # "unknown"
              /\ fr' = [[fr EXCEPT !.todo = @ \ {d}] EXCEPT !.cur = d, !.then = "ca_orders"]
    BY <1>8 DEF CancelRecorded
  <2>2. fr.todo # {} => d \in fr.todo /\ d \in Ids
    BY <1>f, <1>m
  <2> HIDE DEF d
  <2>3. /\ fr'.listed = {} /\ (pc' # "ca_confirm" => fr'.todo = fr.todo \ {d})
        /\ pc' = "delete" => fr'.cur = d /\ fr'.then = "ca_orders"
    <3>1. CASE fr' = fr /\ pc' = "ca_confirm"
      BY <2>1, <3>1, <1>l
    <3>2. CASE fr' = [fr EXCEPT !.todo = @ \ {d}] /\ pc' = "ca_orders"
      BY <2>1, <3>2, <1>f, <1>l, StepOver
    <3>3. CASE fr' = [[fr EXCEPT !.todo = @ \ {d}] EXCEPT !.cur = d, !.then = "ca_orders"]
      BY <2>1, <3>3, <1>f, <1>l, TurnTo
    <3> QED
      BY <2>1, <3>1, <3>2, <3>3
  <2>4. DataReal' /\ (\A c \in Ids : orders'[c].state # "new") /\ ex' = ex /\ wiped' = wiped
    BY <2>1, <1>f, LocalData, NoneNewElsewhere DEF Local
  <2>5. \A c \in fr.todo : /\ orders[c].state # "none"
                           /\ ~wiped => ex[c].status # "none" \/ orders[c].state = "unknown"
    BY <2>1 DEF RealInv, WalkedOK, Walks
  <2> QED
    BY <2>1, <2>2, <2>3, <2>4, <2>5
    DEF RealInv, NoneNew, ListedOK, WalkedOK, Walks, PostOK, ResetsAreReal
<1>9. CASE Confirm
  <2>1. /\ pc = "ca_confirm" /\ orders' = orders /\ Local
        /\ \/ pc' = "resolve" /\ fr' = [fr EXCEPT !.todo = OpenRecords, !.then = "ca_return"]
           \/ pc' = "ca_remaining" /\ fr' = [fr EXCEPT !.todo = Live, !.confirms = @ - 1]
    BY <1>9 DEF Confirm
  <2>2. /\ fr'.listed = {} /\ (pc' = "resolve" => fr'.todo = OpenRecords)
        /\ pc' = "ca_remaining" => fr'.todo = Live
    <3>1. CASE fr' = [fr EXCEPT !.todo = OpenRecords, !.then = "ca_return"] /\ pc' = "resolve"
      BY <2>1, <3>1, <1>f, <1>l DEF Frame
    <3>2. CASE fr' = [fr EXCEPT !.todo = Live, !.confirms = @ - 1] /\ pc' = "ca_remaining"
      BY <2>1, <3>2, <1>f, <1>l DEF Frame
    <3> QED
      BY <2>1, <3>1, <3>2
  <2>3. DataReal' /\ (\A c \in Ids : orders'[c].state # "new") /\ ex' = ex /\ wiped' = wiped
    BY <2>1, <1>f, LocalData, NoneNewElsewhere DEF Local
  <2> QED
    BY <2>1, <2>2, <2>3, <1>v
    DEF RealInv, NoneNew, ListedOK, WalkedOK, Walks, PostOK, ResetsAreReal, OpenRecords
<1>10. CASE CancelRemaining
  <2> DEFINE d == Min(fr.todo)
  <2>1. /\ pc = "ca_remaining" /\ orders' = orders
        /\ UNCHANGED << wiped, tape, purged, ledger, authOk >>
        /\ \/ ex' = ex /\ pc' = "ca_confirm" /\ fr' = fr
           \/ ex' = ex /\ CancelAllReturns(FALSE, "cancel_pending")
           \/ /\ fr.todo # {} /\ ex' = ex /\ pc' = "delete" /\ orders[d].state # "none"
              /\ fr' = [[fr EXCEPT !.todo = @ \ {d}] EXCEPT !.cur = d, !.then = "ca_remaining"]
           \/ /\ fr.todo # {} /\ ex' = CancelAtExchange(d) /\ pc' = "ca_remaining"
              /\ fr' = [fr EXCEPT !.todo = @ \ {d}]
    BY <1>10 DEF CancelRemaining, Calm
  <2>2. (fr.todo # {} => d \in fr.todo /\ d \in Ids) /\ fr.listed = {}
    BY <2>1, <1>f, <1>m, <1>l
  <2> HIDE DEF d
  <2>3. ExStep
    BY <2>1, <1>f, SameExchange, CancelStep
  <2>4. DataReal' /\ (\A c \in Ids : orders'[c].state # "new")
    BY <2>1, <2>3, <1>f, QuietData, NoneNewElsewhere
  <2>5. \A c \in fr.todo : c \in Ids /\ (~wiped => ex'[c].status # "none")
    BY <2>1, <2>3, <1>f DEF RealInv, WalkedOK, Walks, ExStep
  <2>7. CASE ex' = ex /\ pc' = "ca_confirm" /\ fr' = fr
    BY <2>1, <2>2, <2>4, <2>7, IdleReal DEF Idle, Unlisted
  <2>8. CASE CancelAllReturns(FALSE, "cancel_pending")
    BY <2>2, <2>4, <2>8, <1>f, ReturnsIdle, IdleReal
  <2>9. CASE /\ fr.todo # {} /\ pc' = "delete" /\ orders[d].state # "none"
             /\ fr' = [[fr EXCEPT !.todo = @ \ {d}] EXCEPT !.cur = d, !.then = "ca_remaining"]
    <3>1. fr'.listed = {} /\ fr'.todo = fr.todo \ {d} /\ fr'.cur = d /\ fr'.then = "ca_remaining"
      BY <2>2, <2>9, <1>f, TurnTo
    <3> QED
      BY <2>1, <2>2, <2>4, <2>5, <2>9, <3>1
      DEF RealInv, NoneNew, ListedOK, WalkedOK, Walks, PostOK, ResetsAreReal
  <2>10. CASE fr.todo # {} /\ pc' = "ca_remaining" /\ fr' = [fr EXCEPT !.todo = @ \ {d}]
    <3>1. fr'.listed = {} /\ fr'.todo = fr.todo \ {d}
      BY <2>2, <2>10, <1>f, StepOver
    <3> QED
      BY <2>1, <2>4, <2>5, <2>10, <3>1
      DEF RealInv, NoneNew, ListedOK, WalkedOK, Walks, PostOK, ResetsAreReal
  <2> QED
    BY <2>1, <2>7, <2>8, <2>9, <2>10
<1>11. CASE ResetAccount
  <2>1. /\ pc = "reset_account" /\ pc' = "reset_open" /\ fr' = fr /\ orders' = orders /\ Local
    BY <1>11 DEF ResetAccount
  <2>2. DataReal' /\ (\A c \in Ids : orders'[c].state # "new") /\ ex' = ex /\ wiped' = wiped
    BY <2>1, <1>f, LocalData, NoneNewElsewhere DEF Local
  <2> QED
    BY <2>1, <2>2
    DEF RealInv, NoneNew, ListedOK, WalkedOK, Walks, PostOK, ResetsAreReal
<1> QED
  BY <1>1, <1>2, <1>3, <1>4, <1>5, <1>6, <1>7, <1>8, <1>9, <1>10, <1>11

-----------------------------------------------------------------------------
\* The edits of one record.
LEMMA OneRecord ==
    ASSUME orders \in [Ids -> Record], NEW d, NEW g \in Record, orders' = [orders EXCEPT ![d] = g]
    PROVE  /\ orders' \in [Ids -> Record]
           /\ \A c \in Ids : orders'[c] = IF c = d THEN g ELSE orders[c]
OBVIOUS

LEMMA StateEdit ==
    ASSUME orders \in [Ids -> Record], NEW d, NEW st \in RecordStates,
           orders' = [orders EXCEPT ![d].state = st]
    PROVE  /\ orders' \in [Ids -> Record]
           /\ \A c \in Ids : c # d => orders'[c] = orders[c]
           /\ \A c \in Ids : /\ orders'[c].side = orders[c].side
                             /\ orders'[c].known = orders[c].known
                             /\ orders'[c].filled = orders[c].filled
           /\ d \in Ids => orders'[d].state = st
<1>1. CASE d \in Ids
  <2>1. orders' = [orders EXCEPT ![d] = [orders[d] EXCEPT !.state = st]]
    OBVIOUS
  <2> DEFINE g == [orders[d] EXCEPT !.state = st]
  <2>2. orders[d] \in Record
    BY <1>1
  <2>3. /\ g \in Record /\ g.state = st /\ g.side = orders[d].side /\ g.known = orders[d].known
        /\ g.filled = orders[d].filled
    BY <2>2, RecordState, Zenon
  <2>4. orders' = [orders EXCEPT ![d] = g]
    BY <2>1
  <2> HIDE DEF g
  <2>5. orders' \in [Ids -> Record] /\ \A c \in Ids : orders'[c] = IF c = d THEN g ELSE orders[c]
    BY <2>3, <2>4, OneRecord
  <2> QED
    BY <1>1, <2>3, <2>5
<1>2. CASE d \notin Ids
  <2>1. orders' = orders
    BY <1>2
  <2> QED
    BY <1>2, <2>1
<1> QED
  BY <1>1, <1>2

LEMMA Acknowledged ==
    ASSUME orders \in [Ids -> Record], NEW d,
           orders' = [orders EXCEPT ![d].state = "open", ![d].known = TRUE]
    PROVE  /\ orders' \in [Ids -> Record]
           /\ \A c \in Ids : c # d => orders'[c] = orders[c]
           /\ \A c \in Ids : /\ orders'[c].side = orders[c].side
                             /\ orders'[c].filled = orders[c].filled
           /\ d \in Ids => orders'[d].state = "open" /\ orders'[d].known = TRUE
<1>1. CASE d \in Ids
  <2>1. ASSUME NEW k \in BOOLEAN, NEW o \in Record
        PROVE  LET g == [[o EXCEPT !.state = "open"] EXCEPT !.known = k]
               IN /\ g \in Record /\ g.state = "open" /\ g.known = k /\ g.side = o.side
                  /\ g.filled = o.filled
    BY StateNames DEF Record
  <2> DEFINE g == [[orders[d] EXCEPT !.state = "open"] EXCEPT !.known = TRUE]
  <2>2. orders[d] \in Record /\ TRUE \in BOOLEAN
    BY <1>1
  <2>3. /\ g \in Record /\ g.state = "open" /\ g.known = TRUE /\ g.side = orders[d].side
        /\ g.filled = orders[d].filled
    BY <2>1, <2>2, Zenon
  <2>4. orders' = [orders EXCEPT ![d] = g]
    BY <1>1
  <2> HIDE DEF g
  <2>5. orders' \in [Ids -> Record] /\ \A c \in Ids : orders'[c] = IF c = d THEN g ELSE orders[c]
    BY <2>3, <2>4, OneRecord
  <2> QED
    BY <1>1, <2>3, <2>5
<1>2. CASE d \notin Ids
  <2>1. orders' = orders
    BY <1>2
  <2> QED
    BY <1>2, <2>1
<1> QED
  BY <1>1, <1>2

\* A new record, before its POST.
LEMMA NewRecord ==
    ASSUME orders \in [Ids -> Record], NEW d, NEW sd \in Sides,
           orders' = [orders EXCEPT ![d] = [NoRecord EXCEPT !.side = sd, !.state = "new"]]
    PROVE  /\ orders' \in [Ids -> Record]
           /\ \A c \in Ids : c # d => orders'[c] = orders[c]
           /\ d \in Ids => /\ orders'[d].state = "new" /\ ~orders'[d].known
                           /\ orders'[d].side = sd /\ orders'[d].filled = 0
<1> DEFINE g == [NoRecord EXCEPT !.side = sd, !.state = "new"]
<1>1. g \in Record /\ g.state = "new" /\ ~g.known /\ g.side = sd /\ g.filled = 0
  <2>1. ASSUME NEW st \in RecordStates, NEW o \in Record
        PROVE  LET h == [o EXCEPT !.side = sd, !.state = st]
               IN h \in Record /\ h.state = st /\ h.known = o.known /\ h.side = sd
                  /\ h.filled = o.filled
    BY DEF Record
  <2>2. "new" \in RecordStates
    BY StateNames
  <2>3. g \in Record /\ g.state = "new" /\ g.known = NoRecord.known /\ g.side = sd
        /\ g.filled = NoRecord.filled
    BY <2>1, <2>2, NoRecordFacts, Zenon
  <2> QED
    BY <2>3, NoRecordFacts
<1>2. orders' = [orders EXCEPT ![d] = g]
  OBVIOUS
<1> HIDE DEF g
<1>3. orders' \in [Ids -> Record] /\ \A c \in Ids : orders'[c] = IF c = d THEN g ELSE orders[c]
  BY <1>1, <1>2, OneRecord
<1> QED
  BY <1>1, <1>3

\* The side loop's next side.
LEMMA NextSideFacts ==
    ASSUME fr \in Frame, NextSide
    PROVE  \/ /\ pc' = "side" /\ fr.side = "bid" /\ fr'.listed = fr.listed /\ fr'.side = "ask"
              /\ fr'.kept = FALSE /\ fr'.scope = fr.scope
              /\ fr'.todo = {c \in OpenRecords : orders[c].side = "ask"}
           \/ pc' = "due" /\ fr' = NoFrame /\ fr.side = "ask"
<1>1. CASE fr.side = "bid"
  <2> DEFINE T == {c \in OpenRecords : orders[c].side = "ask"}
  <2>1. pc' = "side" /\ fr' = [fr EXCEPT !.side = "ask", !.kept = FALSE, !.cur = 0, !.todo = T]
    BY <1>1 DEF NextSide, Enter
  <2> HIDE DEF T
  <2>2. fr'.listed = fr.listed /\ fr'.side = "ask" /\ fr'.scope = fr.scope /\ fr'.todo = T
    BY <2>1 DEF Frame
  <2>3. fr'.kept = FALSE
    <3>1. ASSUME NEW k, NEW n
          PROVE  [fr EXCEPT !.side = "ask", !.kept = k, !.cur = n, !.todo = T].kept = k
      BY DEF Frame
    <3>2. [fr EXCEPT !.side = "ask", !.kept = FALSE, !.cur = 0, !.todo = T].kept = FALSE
      BY <3>1, Zenon
    <3> QED
      BY <2>1, <3>2
  <2> QED
    BY <1>1, <2>1, <2>2, <2>3 DEF T
<1>2. CASE fr.side = "ask"
  BY <1>2 DEF NextSide, Enter
<1> QED
  BY <1>1, <1>2 DEF Frame, Sides

\* Reading the fills keeps what the invariant says of the records and of the ledger.
LEMMA ReadReal ==
    ASSUME DataReal, NEW r, r = ReadFills(orders).orders, ledger' = ReadFills(orders).ledger,
           UNCHANGED << wiped, tape, purged >>
    PROVE  /\ LedgerOK' /\ HistoryOK' /\ r \in [Ids -> Record]
           /\ \A c \in Ids : ~wiped /\ (r[c].known \/ r[c].state = "open") => ex[c].status # "none"
           /\ \A c \in Ids : r[c].state = orders[c].state
                             \/ (r[c].state \in {"open", "filled"} /\ (~wiped => ex[c].status # "none"))
<1>1. LedgerOK /\ orders \in [Ids -> Record] /\ RecordsReal /\ HistoryOK
  BY DEF DataReal
<1>2. LedgerOK' /\ HistoryOK'
  <2>1. /\ ledger'.last \in 0..Len(tape) /\ ledger'.first \in Nat
        /\ ledger'.first = ledger.first \/ ledger'.first > purged
    BY <1>1, ReadLedger
  <2> QED
    BY <1>1, <2>1 DEF LedgerOK, HistoryOK
<1>3. /\ r \in [Ids -> Record]
      /\ \A c \in Ids :
           /\ r[c].known = orders[c].known
           /\ r[c].state = orders[c].state \/ r[c].state \in {"open", "filled"}
           /\ r[c].state = orders[c].state \/ orders[c].known
  BY <1>1, ReadOrders
<1> QED
  BY <1>1, <1>2, <1>3 DEF RecordsReal

\* An answered GET order, or a listed order, gives the record its exchange id.
LEMMA KnownReal ==
    ASSUME RealInv, pc # "post", NEW d \in Ids, ~wiped => ex[d].status # "none",
           NEW g \in Record, g.state # "new", orders' = [orders EXCEPT ![d] = g], Local
    PROVE  DataReal' /\ \A c \in Ids : orders'[c].state # "new" /\ (c # d => orders'[c] = orders[c])
<1>1. UNCHANGED << ex, wiped, tape, purged, ledger, authOk >> /\ DataReal
  BY DEF Local, Calm, RealInv
<1>2. orders' \in [Ids -> Record] /\ \A c \in Ids : orders'[c] = IF c = d THEN g ELSE orders[c]
  BY <1>1, OneRecord DEF DataReal
<1>3. \A c \in Ids : orders[c].state # "new"
  BY DEF RealInv, NoneNew
<1> QED
  BY <1>1, <1>2, <1>3 DEF DataReal, LedgerOK, RecordsReal, HistoryOK

LEMMA RealRecordSteps ==
    ASSUME ControlInv, RealInv,
           \/ Fills \/ Resolve \/ SideDone \/ Post \/ Delete \/ Query \/ Refill
           \/ ReconcileHistory \/ ResetOpen
    PROVE  RealInv'
<1> USE DEF Goto, Enter
<1>f. /\ fr \in Frame /\ DataReal /\ ex \in [Ids -> Placed] /\ orders \in [Ids -> Record]
      /\ fr.todo \in SUBSET Ids /\ fr.listed \in SUBSET Ids
  BY DEF ControlInv, RealInv, DataReal, Frame
<1>l. /\ pc \notin {"stray", "resolve", "reset_account", "reset_open"} => fr.listed = {}
      /\ pc \in {"loop", "iterate", "depth", "fills", "list"} => fr.scope = "step"
  BY DEF RealInv, ListedOK
<1>m. fr.todo # {} => Min(fr.todo) \in fr.todo
  BY <1>f, MinInside
<1>n. pc # "post" => \A c \in Ids : orders[c].state # "new"
  BY DEF RealInv, NoneNew
<1>1. CASE Fills
  <2>1. /\ pc = "fills" /\ pc' = "list" /\ fr' = fr
        /\ orders' = ReadFills(orders).orders /\ ledger' = ReadFills(orders).ledger
        /\ UNCHANGED << ex, wiped, tape, purged, authOk >>
    BY <1>1 DEF Fills, Calm
  <2>2. /\ LedgerOK' /\ HistoryOK' /\ orders' \in [Ids -> Record] /\ RecordsReal'
        /\ \A c \in Ids : orders'[c].state # "new"
    BY <2>1, <1>f, <1>n, ReadReal DEF RecordsReal
  <2>3. DataReal'
    BY <2>1, <2>2, <1>f DEF DataReal
  <2> QED
    BY <2>1, <2>2, <2>3, <1>l, IdleReal DEF Idle, Unlisted
<1>2. CASE Resolve
  <2>1. pc = "resolve" /\ Local
    BY <1>2 DEF Resolve
  <2> DEFINE d == Min(fr.todo)
  <2>2. CASE fr.todo = {}
    <3>1. /\ pc' = fr.then /\ fr' = [fr EXCEPT !.then = "", !.listed = {}] /\ orders' = orders
      BY <1>2, <2>2 DEF Resolve
    <3>2. fr'.listed = {}
      BY <3>1, <1>f DEF Frame
    <3>3. fr.then \in {"quote", "rec_history", "ca_return"}
      BY <2>1 DEF ControlInv, WalkOK
    <3>4. DataReal' /\ \A c \in Ids : orders'[c].state # "new"
      BY <2>1, <3>1, <1>f, LocalData, NoneNewElsewhere
    <3> QED
      BY <3>1, <3>2, <3>3, <3>4, IdleReal DEF Idle, Unlisted
  <2>3. ASSUME fr.todo # {}, NEW g \in Record, g.state # "new", ~wiped => ex[d].status # "none",
               orders' = [orders EXCEPT ![d] = g], pc' = "resolve",
               fr' = [fr EXCEPT !.todo = @ \ {d}]
        PROVE  RealInv'
    <3>1. d \in Ids /\ d \in fr.todo
      BY <2>3, <1>f, <1>m
    <3> HIDE DEF d
    <3>2. fr'.todo = fr.todo \ {d} /\ fr'.listed = fr.listed /\ fr'.scope = fr.scope
      BY <2>3, <1>f, StepOver
    <3>3. DataReal' /\ \A c \in Ids : orders'[c].state # "new" /\ (c # d => orders'[c] = orders[c])
      BY <2>1, <2>3, <3>1, KnownReal
    <3>4. UNCHANGED << ex, wiped >>
      BY <2>1 DEF Local
    <3> QED
      BY <2>1, <2>3, <3>2, <3>3, <3>4, <1>f
      DEF RealInv, NoneNew, ListedOK, WalkedOK, Walks, PostOK, ResetsAreReal
  <2>4. CASE fr.todo # {} /\ d \in fr.listed
    <3>1. /\ orders' = [orders EXCEPT ![d] = Adopt(@)]
          /\ pc' = "resolve" /\ fr' = [fr EXCEPT !.todo = @ \ {d}]
      BY <1>2, <2>4 DEF Resolve
    <3>2. d \in Ids /\ d \in fr.todo /\ orders[d] \in Record /\ orders[d].state # "new"
      BY <2>1, <2>4, <1>f, <1>m, <1>n
    <3>3. Adopt(orders[d]) \in Record /\ Adopt(orders[d]).state # "new"
      BY <3>2, AdoptFacts
    <3>4. ~wiped => ex[d].status # "none"
      BY <2>4 DEF RealInv, ListedOK
    <3>5. orders' = [orders EXCEPT ![d] = Adopt(orders[d])]
      BY <3>1, <3>2
    <3> HIDE DEF d
    <3> QED
      BY <2>3, <2>4, <3>1, <3>3, <3>4, <3>5
  <2>5. CASE fr.todo # {} /\ d \notin fr.listed /\ ex[d].status # "none"
    <3>1. /\ orders' = [orders EXCEPT ![d] = ApplyExchangeState(@, ex[d].status)]
          /\ pc' = "resolve" /\ fr' = [fr EXCEPT !.todo = @ \ {d}]
      BY <1>2, <2>5 DEF Resolve
    <3>2. d \in Ids /\ d \in fr.todo /\ orders[d] \in Record /\ orders[d].state # "new"
      BY <2>1, <2>5, <1>f, <1>m, <1>n
    <3> HIDE DEF d
    <3>3. ex[d].status \in {"NEW", "FILLED", "CANCELED"}
      BY <2>5, <3>2, <1>f DEF Placed, Statuses
    <3> DEFINE g == ApplyExchangeState(orders[d], ex[d].status)
    <3>4. g \in Record /\ g.state # "new"
      BY <3>2, <3>3, ApplyStateFacts
    <3>5. orders' = [orders EXCEPT ![d] = g]
      BY <3>1, <3>2
    <3> HIDE DEF g
    <3> QED
      BY <2>3, <2>5, <3>1, <3>4, <3>5
  <2>6. CASE fr.todo # {} /\ d \notin fr.listed /\ ex[d].status = "none" /\ NeverReached(orders[d])
    <3>1. /\ orders' = [orders EXCEPT ![d].state = "rejected"]
          /\ pc' = "resolve" /\ fr' = [fr EXCEPT !.todo = @ \ {d}]
      BY <1>2, <2>6 DEF Resolve
    <3>2. d \in Ids /\ d \in fr.todo /\ ~orders[d].known
      BY <2>1, <2>6, <1>f, <1>m DEF NeverReached
    <3> HIDE DEF d
    <3>3. fr'.todo = fr.todo \ {d} /\ fr'.listed = fr.listed /\ fr'.scope = fr.scope
      BY <3>1, <1>f, StepOver
    <3>4. UNCHANGED << ex, wiped, tape, purged, ledger, authOk >>
      BY <2>1 DEF Local, Calm
    <3>5. /\ orders' \in [Ids -> Record] /\ orders'[d].state = "rejected" /\ ~orders'[d].known
          /\ \A c \in Ids : c # d => orders'[c] = orders[c]
      BY <3>1, <3>2, <1>f, StateNames, StateEdit
    <3>6. DataReal'
      BY <3>4, <3>5, <1>f DEF DataReal, LedgerOK, RecordsReal, HistoryOK
    <3> QED
      BY <2>1, <3>1, <3>3, <3>4, <3>5, <3>6, <1>f, <1>n
      DEF RealInv, NoneNew, ListedOK, WalkedOK, Walks, PostOK, ResetsAreReal
  <2>7. CASE fr.todo # {} /\ d \notin fr.listed /\ ex[d].status = "none" /\ ~NeverReached(orders[d])
    <3>1. TestnetReset(orders)
      BY <1>2, <2>7 DEF Resolve
    <3>2. d \in Ids /\ d \in fr.todo
      BY <2>7, <1>f, <1>m
    <3> HIDE DEF d
    <3>3. orders[d].state \in {"open", "unknown"} /\ (orders[d].state = "unknown" => orders[d].known)
      BY <2>1, <2>7, <3>2, <1>n DEF RealInv, WalkedOK, OpenStates, NeverReached
    <3>4. wiped
      BY <2>7, <3>2, <3>3, <1>f DEF DataReal, RecordsReal
    <3> QED
      BY <2>1, <3>1, <3>4, ResetReal
  <2> QED
    BY <2>2, <2>4, <2>5, <2>6, <2>7
<1>3. CASE SideDone
  <2>1. pc = "side" /\ fr.todo = {} /\ Local
    BY <1>3 DEF SideDone
  <2>2. CASE WantsPlace
    <3>1. /\ orders' = [orders EXCEPT ![next] = [NoRecord EXCEPT !.side = fr.side, !.state = "new"]]
          /\ pc' = "post" /\ fr' = [fr EXCEPT !.cur = next]
      BY <1>3, <2>2 DEF SideDone
    <3>2. fr'.cur = next /\ fr'.listed = fr.listed /\ fr'.side = fr.side /\ fr.side \in Sides
      BY <3>1, <1>f DEF Frame
    <3>3. /\ orders' \in [Ids -> Record]
          /\ \A c \in Ids : c # next => orders'[c] = orders[c]
          /\ next \in Ids => /\ orders'[next].state = "new" /\ ~orders'[next].known
                             /\ orders'[next].side = fr.side
      BY <3>1, <3>2, <1>f, NewRecord
    <3>4. UNCHANGED << ex, wiped, tape, purged, ledger, authOk >>
      BY <2>1 DEF Local, Calm
    <3>5. DataReal'
      BY <3>3, <3>4, <1>f DEF DataReal, LedgerOK, RecordsReal, HistoryOK
    <3> QED
      BY <2>1, <3>1, <3>2, <3>3, <3>5, <1>l, <1>n
      DEF RealInv, NoneNew, ListedOK, WalkedOK, Walks, PostOK, ResetsAreReal
  <2>3. CASE ~WantsPlace
    <3>1. NextSide /\ orders' = orders /\ UNCHANGED << ex, wiped >>
      BY <1>3, <2>1, <2>3 DEF SideDone, Local
    <3>2. DataReal' /\ \A c \in Ids : orders'[c].state # "new"
      BY <2>1, <3>1, <1>f, LocalData, NoneNewElsewhere
    <3>3. CASE pc' = "due" /\ fr' = NoFrame
      BY <3>2, <3>3, NoFrameUnlisted, IdleReal DEF Idle, Unlisted
    <3>4. CASE /\ pc' = "side" /\ fr'.listed = fr.listed
               /\ fr'.todo = {c \in OpenRecords : orders[c].side = "ask"}
      <4>1. \A c \in fr'.todo : /\ orders[c].state # "none"
                                /\ ~wiped => ex[c].status # "none" \/ orders[c].state = "unknown"
        BY <2>1, <3>4, <1>n, <1>f DEF OpenRecords, OpenStates, DataReal, RecordsReal
      <4> QED
        BY <2>1, <3>1, <3>2, <3>4, <4>1, <1>l
        DEF RealInv, NoneNew, ListedOK, WalkedOK, Walks, PostOK, ResetsAreReal
    <3> QED
      BY <3>1, <3>3, <3>4, <1>f, NextSideFacts
  <2> QED
    BY <2>2, <2>3
<1>4. CASE Post
  <2>1. pc = "post" /\ NextSide /\ UNCHANGED << wiped, tape, purged, ledger, authOk >>
    BY <1>4 DEF Post, Calm
  <2>2. /\ \A c \in Ids : c = fr.cur => orders[c].side = fr.side
        /\ \A c \in Ids : orders[c].state = "new" => c = fr.cur
    BY <2>1 DEF RealInv, PostOK, NoneNew
  <2>3. /\ DataReal' /\ ExStep /\ orders' \in [Ids -> Record]
        /\ \A c \in Ids : c # fr.cur => orders'[c] = orders[c]
        /\ \A c \in Ids : orders'[c].state # "new"
    <3>1. CASE ex' = PlaceAtExchange(fr.cur)
               /\ orders' = [orders EXCEPT ![fr.cur].state = "open", ![fr.cur].known = TRUE]
      <4>1. ExStep /\ (fr.cur \in Ids => ex'[fr.cur].status = "NEW")
        BY <3>1, <1>f, PlaceStep
      <4>2. /\ orders' \in [Ids -> Record]
            /\ \A c \in Ids : c # fr.cur => orders'[c] = orders[c]
            /\ fr.cur \in Ids => orders'[fr.cur].state = "open"
        BY <3>1, <1>f, Acknowledged
      <4>3. RecordsReal'
        BY <2>1, <4>1, <4>2, <1>f DEF DataReal, RecordsReal, ExStep
      <4> QED
        BY <2>1, <2>2, <4>1, <4>2, <4>3, <1>f DEF DataReal, ExStep, LedgerOK, HistoryOK
    <3>2. CASE orders' = [orders EXCEPT ![fr.cur].state = "rejected"] /\ ex' = ex
      <4>1. ExStep
        BY <3>2, <1>f, SameExchange
      <4>2. /\ orders' \in [Ids -> Record]
            /\ \A c \in Ids : c # fr.cur => orders'[c] = orders[c]
            /\ \A c \in Ids : orders'[c].known = orders[c].known
            /\ fr.cur \in Ids => orders'[fr.cur].state = "rejected"
        BY <3>2, <1>f, StateNames, StateEdit
      <4>3. RecordsReal'
        BY <2>1, <3>2, <4>2, <1>f DEF DataReal, RecordsReal
      <4> QED
        BY <2>1, <2>2, <4>1, <4>2, <4>3, <1>f DEF DataReal, ExStep, LedgerOK, HistoryOK
    <3> QED
      BY <1>4, <3>1, <3>2 DEF Post
  <2>4. CASE pc' = "due" /\ fr' = NoFrame
    BY <2>3, <2>4, NoFrameUnlisted, IdleReal DEF Idle, Unlisted
  <2>5. CASE /\ pc' = "side" /\ fr.side = "bid" /\ fr'.listed = fr.listed
             /\ fr'.todo = {c \in OpenRecords : orders[c].side = "ask"}
    <3>1. \A c \in fr'.todo : c \in Ids /\ c # fr.cur /\ orders[c].state \in {"open", "unknown"}
      BY <2>2, <2>5 DEF OpenRecords, OpenStates
    <3>2. \A c \in fr'.todo : /\ orders'[c].state # "none"
                              /\ ~wiped => ex'[c].status # "none" \/ orders'[c].state = "unknown"
      BY <2>3, <3>1, <1>f DEF DataReal, RecordsReal, ExStep
    <3> QED
      BY <2>1, <2>3, <2>5, <3>2, <1>l
      DEF RealInv, NoneNew, ListedOK, WalkedOK, Walks, PostOK, ResetsAreReal
  <2> QED
    BY <2>1, <2>4, <2>5, <1>f, NextSideFacts
<1>5. CASE Delete
  <2>1. /\ pc = "delete" /\ ex' = CancelAtExchange(fr.cur)
        /\ UNCHANGED << wiped, tape, purged, ledger, authOk >>
    BY <1>5 DEF Delete, Calm
  <2>2. ExStep
    BY <2>1, <1>f, CancelStep
  <2>3. fr.cur \in Ids /\ fr.listed = {} /\ fr.then \in {"side", "ca_orders", "ca_remaining"}
    BY <2>1, <1>l DEF RealInv, WalkedOK, ControlInv, WalkOK
  <2>4. CASE ex[fr.cur].status = "NEW"
    <3>1. /\ orders' = [orders EXCEPT ![fr.cur].state = "cancelled"]
          /\ pc' = fr.then /\ fr' = [fr EXCEPT !.then = ""]
      BY <1>5, <2>4 DEF Delete
    <3>2. fr'.todo = fr.todo /\ fr'.listed = fr.listed
      BY <3>1, <1>f DEF Frame
    <3>3. /\ orders' \in [Ids -> Record]
          /\ \A c \in Ids : c # fr.cur => orders'[c] = orders[c]
          /\ \A c \in Ids : orders'[c].known = orders[c].known
          /\ orders'[fr.cur].state = "cancelled"
      BY <2>3, <3>1, <1>f, StateNames, StateEdit
    <3>4. RecordsReal'
      BY <2>1, <2>2, <3>3, <1>f DEF DataReal, RecordsReal, ExStep
    <3>5. DataReal'
      BY <2>1, <2>2, <3>3, <3>4, <1>f DEF DataReal, ExStep, LedgerOK, HistoryOK
    <3>6. ex'[fr.cur].status # "none"
      BY <2>2, <2>3, <2>4 DEF ExStep
    <3>7. \A c \in fr.todo :
            /\ orders[c].state # "none" => orders'[c].state # "none"
            /\ ex[c].status # "none" => ex'[c].status # "none"
            /\ orders[c].state = "unknown" => ex'[c].status # "none" \/ orders'[c].state = "unknown"
      BY <2>2, <3>3, <3>6, <1>f DEF ExStep
    <3> QED
      BY <2>1, <2>3, <3>1, <3>2, <3>3, <3>5, <3>7, <1>n
      DEF RealInv, NoneNew, ListedOK, WalkedOK, Walks, PostOK, ResetsAreReal, ExStep
  <2>5. CASE ex[fr.cur].status # "NEW"
    <3>1. pc' = "query" /\ fr' = fr /\ orders' = orders
      BY <1>5, <2>5 DEF Delete
    <3>2. DataReal'
      BY <2>1, <2>2, <3>1, <1>f, QuietData
    <3> QED
      BY <2>1, <2>2, <2>3, <3>1, <3>2, <1>f, <1>n
      DEF RealInv, NoneNew, ListedOK, WalkedOK, Walks, PostOK, ResetsAreReal, ExStep
  <2> QED
    BY <2>4, <2>5
<1>6. CASE Query
  <2>1. pc = "query" /\ Local /\ UNCHANGED << ex, wiped >>
    BY <1>6 DEF Query, Local
  <2>2. /\ fr.cur \in Ids /\ fr.listed = {} /\ fr.then \in {"side", "ca_orders", "ca_remaining"}
        /\ orders[fr.cur].state # "none" /\ (~wiped => ex[fr.cur].status # "none")
    BY <2>1, <1>l DEF RealInv, WalkedOK, ControlInv, WalkOK
  <2>3. CASE ex[fr.cur].status = "none"
    <3>1. TestnetReset(orders)
      BY <1>6, <2>3 DEF Query
    <3>2. wiped
      BY <2>2, <2>3, <1>f DEF DataReal
    <3> QED
      BY <2>1, <3>1, <3>2, ResetReal
  <2>4. CASE ex[fr.cur].status = "FILLED"
    <3>1. pc' = "refill" /\ fr' = fr /\ orders' = orders
      BY <1>6, <2>4 DEF Query
    <3>2. DataReal'
      BY <2>1, <3>1, <1>f, LocalData
    <3> QED
      BY <2>1, <2>2, <3>1, <3>2, <1>f, <1>n
      DEF RealInv, NoneNew, ListedOK, WalkedOK, Walks, PostOK, ResetsAreReal
  <2>5. CASE ex[fr.cur].status \notin {"none", "FILLED"}
    <3>1. /\ orders' = [orders EXCEPT ![fr.cur] = ApplyExchangeState(@, ex[fr.cur].status)]
          /\ pc' = fr.then /\ fr' = [fr EXCEPT !.then = ""]
      BY <1>6, <2>5 DEF Query
    <3>2. fr'.todo = fr.todo /\ fr'.listed = fr.listed
      BY <3>1, <1>f DEF Frame
    <3>3. ex[fr.cur].status \in {"NEW", "FILLED", "CANCELED"} /\ orders[fr.cur] \in Record
          /\ orders[fr.cur].state \notin {"new", "none"}
      BY <2>1, <2>2, <2>5, <1>f, <1>n DEF Placed, Statuses
    <3> DEFINE g == ApplyExchangeState(orders[fr.cur], ex[fr.cur].status)
    <3>4. g \in Record /\ g.state \notin {"new", "none"}
      BY <3>3, ApplyStateFacts
    <3>5. orders' = [orders EXCEPT ![fr.cur] = g]
      BY <2>2, <3>1, <1>f
    <3> HIDE DEF g
    <3>6. DataReal' /\ \A c \in Ids : orders'[c].state # "new"
                                      /\ (c # fr.cur => orders'[c] = orders[c])
      BY <2>1, <2>2, <3>4, <3>5, KnownReal
    <3>7. orders'[fr.cur].state # "none"
      BY <2>2, <3>4, <3>5, <1>f
    <3> QED
      BY <2>1, <2>2, <3>1, <3>2, <3>6, <3>7, <1>f
      DEF RealInv, NoneNew, ListedOK, WalkedOK, Walks, PostOK, ResetsAreReal
  <2> QED
    BY <2>3, <2>4, <2>5
<1>7. CASE Refill
  <2> DEFINE r == ReadFills(orders).orders
  <2>1. /\ pc = "refill" /\ UNCHANGED << ex, wiped, tape, purged, authOk >>
        /\ orders' = [r EXCEPT ![fr.cur] = ApplyExchangeState(@, "FILLED")]
        /\ ledger' = ReadFills(orders).ledger
        /\ pc' = fr.then /\ fr' = [fr EXCEPT !.then = ""]
    BY <1>7 DEF Refill, Calm
  <2>2. /\ fr.cur \in Ids /\ fr.listed = {} /\ fr.then \in {"side", "ca_orders", "ca_remaining"}
        /\ orders[fr.cur].state # "none" /\ (~wiped => ex[fr.cur].status # "none")
    BY <2>1, <1>l DEF RealInv, WalkedOK, ControlInv, WalkOK
  <2>3. fr'.todo = fr.todo /\ fr'.listed = fr.listed
    BY <2>1, <1>f DEF Frame
  <2>4. /\ LedgerOK' /\ HistoryOK' /\ r \in [Ids -> Record]
        /\ \A c \in Ids : ~wiped /\ (r[c].known \/ r[c].state = "open") => ex[c].status # "none"
        /\ \A c \in Ids : r[c].state = orders[c].state
                          \/ (r[c].state \in {"open", "filled"} /\ (~wiped => ex[c].status # "none"))
    BY <2>1, <1>f, ReadReal
  <2> HIDE DEF r
  <2> DEFINE g == ApplyExchangeState(r[fr.cur], "FILLED")
  <2>5. \A c \in Ids : r[c].state # "new"
    BY <2>1, <2>4, <1>n
  <2>6. g \in Record /\ g.state \notin {"new", "none"}
    <3>1. r[fr.cur] \in Record /\ r[fr.cur].state \notin {"new", "none"}
          /\ "FILLED" \in {"NEW", "FILLED", "CANCELED"}
      BY <2>2, <2>4, <2>5
    <3>2. /\ g \in Record
          /\ g.state = IF r[fr.cur].filled < Size THEN r[fr.cur].state ELSE "filled"
      BY <3>1, ApplyStateFacts, Zenon
    <3> QED
      BY <3>1, <3>2
  <2>7. orders' = [r EXCEPT ![fr.cur] = g]
    BY <2>1, <2>2, <2>4
  <2> HIDE DEF g
  <2>8. orders' \in [Ids -> Record] /\ \A c \in Ids : orders'[c] = IF c = fr.cur THEN g ELSE r[c]
    BY <2>2, <2>4, <2>6, <2>7
  <2>9. RecordsReal' /\ \A c \in Ids : orders'[c].state # "new"
    BY <2>1, <2>2, <2>4, <2>5, <2>6, <2>8 DEF RecordsReal
  <2>10. DataReal'
    BY <2>1, <2>4, <2>8, <2>9, <1>f DEF DataReal
  <2>11. \A c \in fr.todo :
            /\ orders[c].state # "none" => orders'[c].state # "none"
            /\ (~wiped => ex[c].status # "none" \/ orders[c].state = "unknown")
               => (~wiped => ex[c].status # "none" \/ orders'[c].state = "unknown")
    BY <2>2, <2>4, <2>6, <2>8, <1>f
  <2> QED
    BY <2>1, <2>2, <2>3, <2>9, <2>10, <2>11, <1>f
    DEF RealInv, NoneNew, ListedOK, WalkedOK, Walks, PostOK, ResetsAreReal
<1>8. CASE ReconcileHistory
  <2>1. pc = "rec_history" /\ Local
    BY <1>8 DEF ReconcileHistory
  <2>2. CASE ledger.first # 0 /\ purged >= ledger.first
    <3>1. TestnetReset(orders)
      BY <1>8, <2>2 DEF ReconcileHistory
    <3>2. wiped
      BY <2>2, <1>f DEF DataReal, LedgerOK, HistoryOK
    <3> QED
      BY <2>1, <3>1, <3>2, ResetReal
  <2>3. CASE ~(ledger.first # 0 /\ purged >= ledger.first)
    <3>1. pc' = "loop" /\ fr' = NoFrame /\ orders' = orders
      BY <1>8, <2>3 DEF ReconcileHistory
    <3> QED
      BY <2>1, <3>1, <1>f, LocalData, NoFrameUnlisted, IdleStep DEF Idle, Unlisted
  <2> QED
    BY <2>2, <2>3
<1>9. CASE ResetOpen
  <2>1. pc = "reset_open" /\ OpenSession /\ Calm /\ ex' = ex
    BY <1>9 DEF ResetOpen
  <2>2. pc' \in Idle /\ Unlisted
    <3>1. CASE fr.scope = "cancel_all" /\ ~fr.again
      <4>1. pc' = "cancel_all" /\ fr' = [fr EXCEPT !.again = TRUE]
        BY <1>9, <3>1 DEF ResetOpen
      <4>2. fr'.listed = fr.listed /\ fr.listed = {}
        BY <3>1, <4>1, <1>f DEF Frame, RealInv, ListedOK
      <4> QED
        BY <4>1, <4>2 DEF Idle, Unlisted
    <3>2. CASE ~(fr.scope = "cancel_all" /\ ~fr.again)
      <4>1. pc' \in {"loop", "ended"} /\ fr' = NoFrame
        BY <1>9, <3>2, <1>f DEF ResetOpen, Frame
      <4> QED
        BY <4>1, NoFrameUnlisted DEF Idle, Unlisted
    <3> QED
      BY <3>1, <3>2
  <2> QED
    BY <2>1, <2>2, OpenReal
<1> QED
  BY <1>1, <1>2, <1>3, <1>4, <1>5, <1>6, <1>7, <1>8, <1>9

\* The calls that fail, and the surroundings.  A 429 on a POST, revoked keys and a
\* stop that times out are what may leave a record new behind a lost POST.
LEMMA RealOtherSteps ==
    ASSUME ControlInv, RealInv, Faults \cap {"rate_post", "auth", "stop_slow"} = {},
           \/ GetFails \/ DeleteFails \/ CallRateLimited \/ PostFails \/ AuthFails \/ StopTimesOut
           \/ Fill \/ ExchangeReset \/ ToggleKill \/ Stop \/ RevokeKeys \/ Crash
    PROVE  RealInv'
<1>f. /\ fr \in Frame /\ DataReal /\ ex \in [Ids -> Placed] /\ orders \in [Ids -> Record] /\ ListedOK
      /\ fr.todo \in SUBSET Ids /\ fr.listed \in SUBSET Ids
  BY DEF ControlInv, RealInv, DataReal, Frame
<1>1. CASE GetFails
  <2>1. /\ Raise("unavailable") /\ orders' = orders /\ ex' = ex /\ pc # "post"
        /\ UNCHANGED << wiped, tape, purged, ledger, authOk >>
    BY <1>1 DEF GetFails, AtGet, AtSignedGet, Asking, Calm
  <2> QED
    BY <2>1, <1>f, RaiseIdle, SameExchange, QuietData, IdleStep
<1>2. CASE DeleteFails
  <2>1. /\ Raise("unavailable") /\ orders' = orders /\ ex' \in {ex, CancelAtExchange(DeleteTarget)}
        /\ pc # "post" /\ UNCHANGED << wiped, tape, purged, ledger, authOk >>
    BY <1>2 DEF DeleteFails, AtDelete, Calm
  <2>2. ExStep
    BY <2>1, <1>f, SameExchange, CancelStep
  <2> QED
    BY <2>1, <2>2, <1>f, RaiseIdle, QuietData, IdleStep
<1>3. CASE CallRateLimited
  <2>1. /\ Raise("rate") /\ orders' = orders /\ ex' = ex /\ pc # "post"
        /\ UNCHANGED << wiped, tape, purged, ledger, authOk >>
    BY <1>3 DEF CallRateLimited, AtGet, AtSignedGet, Asking, AtDelete, Calm, Spend
  <2> QED
    BY <2>1, <1>f, RaiseIdle, SameExchange, QuietData, IdleStep
<1>4. CASE PostFails
  <2>1. /\ pc = "post" /\ Raise("unavailable") /\ UNCHANGED << wiped, tape, purged, ledger, authOk >>
        /\ \E st \in {"unknown", "rejected"} : orders' = [orders EXCEPT ![fr.cur].state = st]
        /\ ex' \in {ex, PlaceAtExchange(fr.cur)}
    BY <1>4 DEF PostFails, Calm
  <2>2. ExStep
    BY <2>1, <1>f, SameExchange, PlaceStep
  <2>3. /\ orders' \in [Ids -> Record]
        /\ \A c \in Ids : c # fr.cur => orders'[c] = orders[c]
        /\ \A c \in Ids : orders'[c].known = orders[c].known
        /\ fr.cur \in Ids => orders'[fr.cur].state \in {"unknown", "rejected"}
    <3>1. PICK st \in {"unknown", "rejected"} : orders' = [orders EXCEPT ![fr.cur].state = st]
      BY <2>1
    <3>2. st \in RecordStates
      BY StateNames
    <3> QED
      BY <3>1, <3>2, <1>f, StateEdit
  <2>4. RecordsReal'
    BY <2>1, <2>2, <2>3, <1>f DEF DataReal, RecordsReal, ExStep
  <2>5. DataReal'
    BY <2>1, <2>2, <2>3, <2>4, <1>f DEF DataReal, ExStep, LedgerOK, HistoryOK
  <2>6. \A c \in Ids : orders'[c].state # "new"
    BY <2>3 DEF RealInv, NoneNew
  <2> QED
    BY <2>1, <2>5, <2>6, <1>f, RaiseIdle, IdleReal
<1>5. CASE AuthFails
  BY <1>5, <1>f DEF AuthFails, DataReal
<1>6. CASE StopTimesOut
  BY <1>6 DEF StopTimesOut, Spend
<1>7. CASE Fill
  <2>1. PICK c \in Live :
          /\ ex' = [ex EXCEPT ![c].done = @ + 1,
                              ![c].status = IF ex[c].done + 1 = Size THEN "FILLED" ELSE @]
          /\ tape' = Append(tape, c)
    BY <1>7 DEF Fill
  <2>2. /\ UNCHANGED << pc, fr, orders, ledger, purged, wiped, authOk >>
    BY <1>7 DEF Fill, Still
  <2>3. ExStep
    BY <2>1, <1>f, FillStep
  <2>4. LedgerOK' /\ HistoryOK'
    BY <2>1, <2>2, <1>f DEF DataReal, LedgerOK, HistoryOK, Live
  <2>5. DataReal'
    BY <2>2, <2>3, <2>4, <1>f DEF DataReal, ExStep, RecordsReal
  <2> QED
    BY <2>2, <2>3, <2>5, <1>f
    DEF RealInv, NoneNew, ListedOK, WalkedOK, Walks, PostOK, ResetsAreReal, ExStep
<1>8. CASE ExchangeReset
  <2>1. /\ ex' = [c \in Ids |-> NoOrder] /\ purged' = Len(tape) /\ wiped'
        /\ wiped' \in BOOLEAN /\ UNCHANGED << pc, fr, orders, ledger, tape, authOk >>
    BY <1>8 DEF ExchangeReset, Still
  <2>2. LedgerOK' /\ ex' \in [Ids -> Placed]
    BY <2>1, <1>f, NoRecordFacts DEF DataReal, LedgerOK
  <2>3. DataReal'
    BY <2>1, <2>2, <1>f DEF DataReal, RecordsReal, HistoryOK
  <2> QED
    BY <2>1, <2>3, <1>f
    DEF RealInv, NoneNew, ListedOK, WalkedOK, Walks, PostOK, ResetsAreReal
<1>9. CASE ToggleKill \/ Stop \/ RevokeKeys
  <2>1. /\ UNCHANGED << pc, fr, orders, ledger, ex, tape, purged, wiped, authOk >>
    BY <1>9 DEF ToggleKill, Stop, RevokeKeys, Still
  <2>2. DataReal'
    BY <2>1, <1>f DEF DataReal, RecordsReal, HistoryOK, LedgerOK
  <2> QED
    BY <2>1, <2>2, <1>f
    DEF RealInv, NoneNew, ListedOK, WalkedOK, Walks, PostOK, ResetsAreReal
<1>10. CASE Crash
  <2>1. /\ ex' \in {ex, PlaceAtExchange(fr.cur)} /\ pc' = "loop" /\ fr' = NoFrame
        /\ orders' = [c \in Ids |-> NoRecord] /\ ledger' = FreshLedger(0)
        /\ UNCHANGED << wiped, tape, purged, authOk >>
    BY <1>10 DEF Crash
  <2>2. ExStep
    BY <2>1, <1>f, SameExchange, PlaceStep
  <2>3. orders' \in [Ids -> Record] /\ \A c \in Ids : orders'[c].state = "none" /\ ~orders'[c].known
    BY <2>1, NoRecordFacts
  <2>4. ledger'.last = 0 /\ ledger'.first = 0
    BY <2>1 DEF FreshLedger
  <2>5. LedgerOK' /\ HistoryOK' /\ RecordsReal'
    BY <2>1, <2>3, <2>4, <1>f DEF DataReal, LedgerOK, HistoryOK, RecordsReal
  <2>6. DataReal'
    BY <2>1, <2>2, <2>3, <2>5, <1>f DEF DataReal, ExStep
  <2> QED
    BY <2>1, <2>3, <2>6, NoFrameUnlisted, IdleReal DEF Idle, Unlisted
<1> QED
  BY <1>1, <1>2, <1>3, <1>4, <1>5, <1>6, <1>7, <1>8, <1>9, <1>10

LEMMA RealInit == Init => RealInv
<1> SUFFICES ASSUME Init PROVE RealInv
  OBVIOUS
<1>1. /\ ex = [c \in Ids |-> NoOrder] /\ orders = [c \in Ids |-> NoRecord] /\ tape = << >>
      /\ purged = 0 /\ wiped \in BOOLEAN /\ authOk = TRUE /\ ledger = FreshLedger(0)
      /\ pc = "loop" /\ fr = NoFrame
  BY DEF Init
<1>2. ex \in [Ids -> Placed] /\ orders \in [Ids -> Record]
      /\ \A c \in Ids : orders[c].state = "none" /\ ~orders[c].known
  BY <1>1, NoRecordFacts
<1>3. LedgerOK /\ HistoryOK
  BY <1>1 DEF LedgerOK, HistoryOK, FreshLedger
<1>4. DataReal
  BY <1>1, <1>2, <1>3 DEF DataReal, RecordsReal
<1> QED
  BY <1>1, <1>2, <1>4, NoFrameUnlisted
  DEF RealInv, NoneNew, ListedOK, WalkedOK, Walks, PostOK, ResetsAreReal

LEMMA RealStep ==
    ASSUME ControlInv, RealInv, Faults \cap {"rate_post", "auth", "stop_slow"} = {}, [Next]_vars
    PROVE  RealInv'
<1>1. CASE UNCHANGED vars
  <2>1. UNCHANGED << ex, tape, purged, wiped, pc, fr, orders, ledger, authOk >>
    BY <1>1 DEF vars
  <2> QED
    BY <2>1 DEF RealInv, DataReal, LedgerOK, RecordsReal, HistoryOK, NoneNew, ListedOK, WalkedOK,
       Walks, PostOK, ResetsAreReal
<1>2. CASE Next
  BY <1>1, <1>2, RealIdleSteps, RealWalkSteps, RealRecordSteps, RealOtherSteps
  DEF Next, Trader, Answered, Failed, World, Ended
<1> QED
  BY <1>1, <1>2

\* The inductive invariant behind the next theorem: without a 429 on a POST, revoked
\* keys or a stop that times out, an order of the session that is open or has an
\* exchange id is unknown to the exchange only after a reset, and so is every order a
\* walk of _sync_orders, _quote or cancel_all has still to ask about.
THEOREM TraderReal ==
    ASSUME Faults \cap {"rate_post", "auth", "stop_slow"} = {}
    PROVE  Spec => []RealInv
<1>1. ControlInv /\ RealInv /\ [Next]_vars => RealInv'
  BY RealStep
<1> QED
  BY <1>1, RealInit, TraderControl, PTL DEF Spec

\* FR-016: whatever calls time out, are refused or are lost, however often the exchange
\* is reset and the process dies, _testnet_reset ends a session only if the exchange was
\* reset since that session opened.
THEOREM TraderResetsAreReal ==
    ASSUME Faults \cap {"rate_post", "auth", "stop_slow"} = {}
    PROVE  Spec => []ResetsAreReal
<1>1. RealInv => ResetsAreReal
  BY DEF RealInv
<1> QED
  BY <1>1, TraderReal, PTL

-----------------------------------------------------------------------------
\* Counting trades.

OnTape(c, a, b) == {i \in a..b : tape[i] = c}

LEMMA OnTapeFinite ==
    ASSUME NEW c, NEW a \in Int, NEW b \in Int
    PROVE  IsFiniteSet(OnTape(c, a, b)) /\ Cardinality(OnTape(c, a, b)) \in Nat
<1>1. IsFiniteSet(a..b) /\ OnTape(c, a, b) \in SUBSET (a..b)
  BY FS_Interval DEF OnTape
<1> QED
  BY <1>1, FS_Subset, FS_CardinalityType

LEMMA OnTapeSplit ==
    ASSUME NEW c, NEW a \in Int, NEW m \in Int, NEW b \in Int, a <= m + 1, m <= b
    PROVE  Cardinality(OnTape(c, a, b)) = Cardinality(OnTape(c, a, m)) + Cardinality(OnTape(c, m + 1, b))
<1> DEFINE S == OnTape(c, a, m)
           T == OnTape(c, m + 1, b)
<1>1. OnTape(c, a, b) = S \union T /\ S \cap T = {}
  BY DEF OnTape
<1>2. IsFiniteSet(S) /\ IsFiniteSet(T) /\ Cardinality(S) \in Nat /\ Cardinality(T) \in Nat
  BY OnTapeFinite
<1>3. Cardinality(S \union T) = Cardinality(S) + Cardinality(T) - Cardinality(S \cap T)
  BY <1>2, FS_Union
<1>4. Cardinality(S \cap T) = 0
  BY <1>1, FS_EmptySet
<1> HIDE DEF S, T
<1> QED
  BY <1>1, <1>2, <1>3, <1>4 DEF S, T

LEMMA OnTapeEmpty ==
    ASSUME NEW c, NEW a \in Int, NEW b \in Int, \A i \in a..b : tape[i] # c
    PROVE  Cardinality(OnTape(c, a, b)) = 0
<1>1. OnTape(c, a, b) = {}
  BY DEF OnTape
<1> QED
  BY <1>1, FS_EmptySet

\* What the cursor has passed and what it has not make up the tape.
LEMMA PassedAndUnread ==
    ASSUME LedgerOK, NEW c
    PROVE  /\ Passed(c, 1) \in Nat /\ Passed(c, purged + 1) \in Nat
           /\ Passed(c, 1) = Cardinality(OnTape(c, 1, ledger.last))
           /\ Passed(c, purged + 1) = Cardinality(OnTape(c, purged + 1, ledger.last))
           /\ Unread(c) = OnTape(c, FromId, Len(tape))
           /\ Passed(c, 1) + Cardinality(Unread(c)) <= Cardinality(OnTape(c, 1, Len(tape)))
           /\ FromId <= Len(tape) =>
                Cardinality(OnTape(c, purged + 1, Len(tape)))
                  <= Passed(c, purged + 1) + Cardinality(Unread(c))
           /\ FromId > Len(tape) => Unread(c) = {} /\ Cardinality(Unread(c)) = 0
<1>1. /\ Len(tape) \in Nat /\ purged \in Int /\ ledger.last \in Int /\ purged >= 0
      /\ ledger.last >= 0 /\ purged <= Len(tape) /\ ledger.last <= Len(tape)
  BY DEF LedgerOK
<1>2. /\ FromId \in Nat /\ FromId = IF ledger.last >= purged THEN ledger.last + 1 ELSE purged + 1
  BY FromIdOK
<1>3. /\ Passed(c, 1) = Cardinality(OnTape(c, 1, ledger.last))
      /\ Passed(c, purged + 1) = Cardinality(OnTape(c, purged + 1, ledger.last))
      /\ Unread(c) = OnTape(c, FromId, Len(tape))
  BY DEF Passed, OnTape, Unread
<1>4. /\ Cardinality(OnTape(c, 1, ledger.last)) \in Nat
      /\ Cardinality(OnTape(c, purged + 1, ledger.last)) \in Nat
      /\ Cardinality(OnTape(c, ledger.last + 1, purged)) \in Nat
      /\ Cardinality(OnTape(c, purged + 1, Len(tape))) \in Nat
      /\ Cardinality(OnTape(c, ledger.last + 1, Len(tape))) \in Nat
  <2>1. purged + 1 \in Int /\ ledger.last + 1 \in Int /\ Len(tape) \in Int /\ 1 \in Int
    BY <1>1
  <2> QED
    BY <1>1, <2>1, OnTapeFinite
<1>5. FromId > Len(tape) => Unread(c) = {} /\ Cardinality(Unread(c)) = 0
  <2>1. FromId > Len(tape) => OnTape(c, FromId, Len(tape)) = {}
    BY <1>1, <1>2 DEF OnTape
  <2> QED
    BY <1>3, <2>1, FS_EmptySet
<1>6. Cardinality(OnTape(c, 1, Len(tape)))
        = Cardinality(OnTape(c, 1, ledger.last)) + Cardinality(OnTape(c, ledger.last + 1, Len(tape)))
  BY <1>1, OnTapeSplit
<1>7. CASE ledger.last >= purged
  <2>1. FromId = ledger.last + 1
    BY <1>2, <1>7
  <2>2. Cardinality(OnTape(c, purged + 1, Len(tape)))
          = Cardinality(OnTape(c, purged + 1, ledger.last))
            + Cardinality(OnTape(c, ledger.last + 1, Len(tape)))
    <3>1. purged + 1 \in Int /\ purged + 1 <= ledger.last + 1
      BY <1>1, <1>7
    <3> QED
      BY <1>1, <3>1, OnTapeSplit
  <2>3. Cardinality(Unread(c)) = Cardinality(OnTape(c, ledger.last + 1, Len(tape)))
    BY <1>3, <2>1
  <2> QED
    BY <1>3, <1>4, <1>5, <1>6, <2>2, <2>3
<1>8. CASE ~(ledger.last >= purged)
  <2>1. FromId = purged + 1
    BY <1>2, <1>8
  <2>2. Cardinality(OnTape(c, ledger.last + 1, Len(tape)))
          = Cardinality(OnTape(c, ledger.last + 1, purged)) + Cardinality(OnTape(c, purged + 1, Len(tape)))
    <3>1. ledger.last + 1 \in Int /\ ledger.last + 1 <= purged + 1
      BY <1>1, <1>8
    <3> QED
      BY <1>1, <3>1, OnTapeSplit
  <2>3. Cardinality(Unread(c)) = Cardinality(OnTape(c, purged + 1, Len(tape)))
    BY <1>3, <2>1
  <2> QED
    BY <1>3, <1>4, <1>5, <1>6, <2>2, <2>3
<1> QED
  BY <1>1, <1>7, <1>8

-----------------------------------------------------------------------------
\* What a step of the task can do to the exchange and to the records.

Lenient == Faults \cap {"rate_post", "auth", "stop_slow"} = {}

ExShape ==
    \/ ex' = ex
    \/ \E d : ex' = CancelAtExchange(d)
    \/ (Post \/ PostFails) /\ ex' = PlaceAtExchange(fr.cur)

LEMMA TraderShape ==
    ASSUME ControlInv, RealInv, Lenient, Trader, ~SideDone
    PROVE  /\ UNCHANGED << tape, purged, next >> /\ ExShape
           /\ left' = left \/ left' = [left EXCEPT !.faults = @ - 1]
           /\ wiped' = wiped \/ wiped' = FALSE
           /\ pc' # "post" /\ (pc' = "reset_open" => ResetAccount)
<1> USE DEF Goto, Enter, Calm, Local, ExShape
<1> DEFINE Away == pc' \notin {"post", "reset_open"}
<1>f. fr \in Frame /\ authOk = TRUE
  BY DEF ControlInv, RealInv, DataReal
<1>w. /\ pc = "stray" => fr.then \in {"open", "resolve"}
      /\ pc = "resolve" => fr.then \in {"quote", "rec_history", "ca_return"}
      /\ pc \in {"delete", "query", "refill"} => fr.then \in {"side", "ca_orders", "ca_remaining"}
  BY DEF ControlInv, WalkOK
<1>n. NextSide => Away
  BY DEF NextSide
<1>c. ASSUME NEW ok, NEW st, CancelAllReturns(ok, st) PROVE Away
  BY <1>c DEF CancelAllReturns
<1>r. ASSUME NEW kind \in {"auth", "rate", "unavailable"}, Raise(kind) PROVE Away
  BY <1>r, RaiseLands DEF Landed
<1>t. TestnetReset(orders) => Away
  BY DEF TestnetReset
<1>1. CASE Loop \/ StartupAccount \/ Leftovers \/ StartupOpen \/ Iterate \/ Depth \/ Fills \/ List
  BY <1>1 DEF Loop, StartupAccount, Leftovers, StartupOpen, OpenSession, Iterate, Depth, Fills, List
<1>2. CASE Stray
  BY <1>2, <1>w DEF Stray
<1>3. CASE Resolve
  BY <1>3, <1>w, <1>t DEF Resolve
<1>4. CASE Quote \/ Resting \/ Due \/ ReconcileAccount \/ StartCancelAll \/ CancelRecorded \/ Confirm
  BY <1>4 DEF Quote, Resting, Due, ReconcileAccount, StartCancelAll, CancelRecorded, Confirm
<1>5. CASE Post
  BY <1>5, <1>n DEF Post
<1>6. CASE Delete
  BY <1>6, <1>w DEF Delete
<1>7. CASE Query
  BY <1>7, <1>w, <1>t DEF Query
<1>8. CASE Refill
  BY <1>8, <1>w DEF Refill
<1>9. CASE ReconcileHistory
  BY <1>9, <1>t DEF ReconcileHistory
<1>10. CASE CancelRemaining
  BY <1>10, <1>c DEF CancelRemaining
<1>11. CASE CancelAllDone
  BY <1>11, <1>c DEF CancelAllDone
<1>12. CASE Shutdown \/ ResetAccount
  BY <1>12 DEF Shutdown, ResetAccount
<1>13. CASE ResetOpen
  <2>1. fr.scope \in {"step", "reconcile", "cancel_all"} /\ fr.again \in BOOLEAN
    BY <1>f DEF Frame
  <2> QED
    BY <1>13, <2>1 DEF ResetOpen, OpenSession
<1>14. CASE GetFails
  BY <1>14, <1>r DEF GetFails, Spend
<1>15. CASE DeleteFails
  BY <1>15, <1>r DEF DeleteFails, Spend
<1>16. CASE CallRateLimited
  BY <1>16, <1>r DEF CallRateLimited, Spend
<1>17. CASE PostFails
  BY <1>17, <1>r DEF PostFails, Spend
<1>18. CASE AuthFails \/ StopTimesOut
  BY <1>18, <1>f DEF AuthFails, StopTimesOut, Spend, Lenient
<1> QED
  BY <1>1, <1>2, <1>3, <1>4, <1>5, <1>6, <1>7, <1>8, <1>9, <1>10, <1>11, <1>12, <1>13, <1>14,
     <1>15, <1>16, <1>17, <1>18 DEF Trader, Answered, Failed

\* Only reading fills books anything; a record keeps its exchange id, and only
\* _place makes one.
RecordsKeep ==
    \A c \in Ids : /\ orders'[c].filled = orders[c].filled /\ orders'[c].side = orders[c].side
                   /\ orders[c].known => orders'[c].known
                   /\ orders'[c].known => orders[c].known \/ orders[c].state # "none"
                   /\ orders[c].state = "none" <=> orders'[c].state = "none"

LEMMA KeepSame == ASSUME orders' = orders PROVE RecordsKeep
BY DEF RecordsKeep

LEMMA KeepState ==
    ASSUME orders \in [Ids -> Record], NEW d, NEW st \in RecordStates \ {"none"},
           orders' = [orders EXCEPT ![d].state = st], d \in Ids => orders[d].state # "none"
    PROVE  RecordsKeep
BY StateEdit DEF RecordsKeep

LEMMA KeepOne ==
    ASSUME orders \in [Ids -> Record], NEW d \in Ids, orders[d].state # "none",
           NEW g \in Record, g.state # "none", g.known, g.side = orders[d].side,
           g.filled = orders[d].filled, orders' = [orders EXCEPT ![d] = g]
    PROVE  RecordsKeep
<1>1. \A c \in Ids : orders'[c] = IF c = d THEN g ELSE orders[c]
  BY OneRecord
<1> QED
  BY <1>1 DEF RecordsKeep

LEMMA KeepReset == ASSUME orders \in [Ids -> Record], TestnetReset(orders) PROVE RecordsKeep
<1>1. orders' = [c \in Ids |-> IF orders[c].state \in OpenStates
                               THEN [orders[c] EXCEPT !.state = "cancelled"] ELSE orders[c]]
  BY DEF TestnetReset
<1>2. ASSUME NEW c \in Ids
      PROVE  /\ orders'[c].filled = orders[c].filled /\ orders'[c].side = orders[c].side
             /\ orders'[c].known = orders[c].known
             /\ orders[c].state = "none" <=> orders'[c].state = "none"
  <2>1. orders[c] \in Record /\ "cancelled" \in RecordStates
    BY StateNames
  <2>2. CASE orders[c].state \in OpenStates
    <3>1. orders'[c] = [orders[c] EXCEPT !.state = "cancelled"]
      BY <1>1, <2>2
    <3> DEFINE g == [orders[c] EXCEPT !.state = "cancelled"]
    <3>2. /\ g.state = "cancelled" /\ g.side = orders[c].side /\ g.known = orders[c].known
          /\ g.filled = orders[c].filled
      BY <2>1, RecordState, Zenon
    <3> QED
      BY <2>2, <3>1, <3>2 DEF OpenStates
  <2>3. CASE orders[c].state \notin OpenStates
    BY <1>1, <2>3
  <2> QED
    BY <2>2, <2>3
<1> QED
  BY <1>2 DEF RecordsKeep

LEMMA RecordShape ==
    ASSUME ControlInv, RealInv, Lenient, Trader, ~SideDone
    PROVE  \/ ledger' = ledger /\ RecordsKeep
           \/ (StartupOpen \/ ResetOpen) /\ \A c \in Ids : orders'[c] = NoRecord
           \/ Fills \/ Refill
<1> USE DEF Goto, Enter, Calm, Local
<1>f. /\ fr \in Frame /\ authOk = TRUE /\ orders \in [Ids -> Record] /\ ex \in [Ids -> Placed]
      /\ fr.todo \in SUBSET Ids
  BY DEF ControlInv, RealInv, DataReal, Frame
<1>m. fr.todo # {} => Min(fr.todo) \in fr.todo
  BY <1>f, MinInside
<1>n. {"open", "unknown", "rejected", "cancelled"} \subseteq RecordStates \ {"none"}
  BY StateNames
<1>1. CASE Loop \/ StartupAccount \/ Leftovers \/ Iterate \/ Depth \/ List \/ Stray
  BY <1>1, KeepSame DEF Loop, StartupAccount, Leftovers, Iterate, Depth, List, Stray
<1>2. CASE StartupOpen \/ ResetOpen
  BY <1>2 DEF StartupOpen, ResetOpen, OpenSession
<1>3. CASE Resolve
  <2> DEFINE d == Min(fr.todo)
  <2>1. pc = "resolve" /\ ledger' = ledger
    BY <1>3 DEF Resolve
  <2>2. fr.todo # {} => d \in Ids /\ orders[d] \in Record /\ orders[d].state \in OpenStates
    BY <2>1, <1>f, <1>m DEF RealInv, WalkedOK
  <2>3. \/ fr.todo = {} /\ orders' = orders
        \/ fr.todo # {} /\ orders' = [orders EXCEPT ![d] = Adopt(@)]
        \/ /\ fr.todo # {} /\ ex[d].status # "none"
           /\ orders' = [orders EXCEPT ![d] = ApplyExchangeState(@, ex[d].status)]
        \/ fr.todo # {} /\ orders' = [orders EXCEPT ![d].state = "rejected"]
        \/ TestnetReset(orders)
    BY <1>3 DEF Resolve
  <2> HIDE DEF d
  <2>4. CASE fr.todo # {} /\ orders' = [orders EXCEPT ![d] = Adopt(@)]
    <3> DEFINE g == Adopt(orders[d])
    <3>1. /\ g \in Record /\ g.known /\ g.side = orders[d].side /\ g.filled = orders[d].filled
          /\ g.state # "none"
      BY <2>2, <2>4, AdoptFacts DEF OpenStates
    <3>2. orders' = [orders EXCEPT ![d] = g]
      BY <2>2, <2>4
    <3> HIDE DEF g
    <3> QED
      BY <2>1, <2>2, <2>4, <3>1, <3>2, <1>f, KeepOne DEF OpenStates
  <2>5. CASE /\ fr.todo # {} /\ ex[d].status # "none"
             /\ orders' = [orders EXCEPT ![d] = ApplyExchangeState(@, ex[d].status)]
    <3> DEFINE g == ApplyExchangeState(orders[d], ex[d].status)
    <3>1. ex[d].status \in {"NEW", "FILLED", "CANCELED"}
      BY <2>2, <2>5, <1>f DEF Placed, Statuses
    <3>2. /\ g \in Record /\ g.known /\ g.side = orders[d].side /\ g.filled = orders[d].filled
          /\ g.state # "none"
      BY <2>2, <2>5, <3>1, ApplyStateFacts DEF OpenStates
    <3>3. orders' = [orders EXCEPT ![d] = g]
      BY <2>2, <2>5
    <3> HIDE DEF g
    <3> QED
      BY <2>1, <2>2, <2>5, <3>2, <3>3, <1>f, KeepOne DEF OpenStates
  <2>6. CASE fr.todo # {} /\ orders' = [orders EXCEPT ![d].state = "rejected"]
    BY <2>1, <2>2, <2>6, <1>f, <1>n, KeepState DEF OpenStates
  <2> QED
    BY <2>1, <2>3, <2>4, <2>5, <2>6, <1>f, KeepSame, KeepReset
<1>4. CASE Quote \/ Resting \/ Due \/ ReconcileAccount \/ StartCancelAll \/ CancelRecorded \/ Confirm
           \/ CancelRemaining \/ CancelAllDone \/ Shutdown \/ ResetAccount
  BY <1>4, KeepSame DEF Quote, Resting, Due, ReconcileAccount, StartCancelAll, CancelRecorded,
     Confirm, CancelRemaining, CancelAllDone, Shutdown, ResetAccount
<1>5. CASE Post
  <2>1. /\ pc = "post" /\ ledger' = ledger
        /\ \/ orders' = [orders EXCEPT ![fr.cur].state = "open", ![fr.cur].known = TRUE]
           \/ orders' = [orders EXCEPT ![fr.cur].state = "rejected"]
    BY <1>5 DEF Post
  <2>2. fr.cur \in Ids => orders[fr.cur].state = "new"
    BY <2>1 DEF RealInv, PostOK
  <2>3. CASE orders' = [orders EXCEPT ![fr.cur].state = "open", ![fr.cur].known = TRUE]
    <3>1. /\ \A c \in Ids : c # fr.cur => orders'[c] = orders[c]
          /\ \A c \in Ids : /\ orders'[c].side = orders[c].side
                            /\ orders'[c].filled = orders[c].filled
          /\ fr.cur \in Ids => orders'[fr.cur].state = "open" /\ orders'[fr.cur].known
      BY <2>3, <1>f, Acknowledged
    <3> QED
      BY <2>1, <2>2, <3>1 DEF RecordsKeep
  <2>4. CASE orders' = [orders EXCEPT ![fr.cur].state = "rejected"]
    BY <2>1, <2>2, <2>4, <1>f, <1>n, KeepState
  <2> QED
    BY <2>1, <2>3, <2>4
<1>6. CASE Delete \/ Query
  <2>1. /\ pc \in {"delete", "query"} /\ ledger' = ledger
        /\ \/ orders' = orders
           \/ orders' = [orders EXCEPT ![fr.cur].state = "cancelled"]
           \/ TestnetReset(orders)
           \/ /\ ex[fr.cur].status \notin {"none", "FILLED"}
              /\ orders' = [orders EXCEPT ![fr.cur] = ApplyExchangeState(@, ex[fr.cur].status)]
    BY <1>6 DEF Delete, Query
  <2>2. fr.cur \in Ids /\ orders[fr.cur] \in Record /\ orders[fr.cur].state # "none"
    BY <2>1, <1>f DEF RealInv, WalkedOK
  <2>3. CASE orders' = [orders EXCEPT ![fr.cur].state = "cancelled"]
    BY <2>1, <2>2, <2>3, <1>f, <1>n, KeepState
  <2>4. CASE /\ ex[fr.cur].status \notin {"none", "FILLED"}
             /\ orders' = [orders EXCEPT ![fr.cur] = ApplyExchangeState(@, ex[fr.cur].status)]
    <3> DEFINE g == ApplyExchangeState(orders[fr.cur], ex[fr.cur].status)
    <3>1. ex[fr.cur].status \in {"NEW", "FILLED", "CANCELED"}
      BY <2>2, <2>4, <1>f DEF Placed, Statuses
    <3>2. /\ g \in Record /\ g.known /\ g.side = orders[fr.cur].side
          /\ g.filled = orders[fr.cur].filled /\ g.state # "none"
      BY <2>2, <3>1, ApplyStateFacts
    <3>3. orders' = [orders EXCEPT ![fr.cur] = g]
      BY <2>2, <2>4
    <3> HIDE DEF g
    <3> QED
      BY <2>1, <2>2, <3>2, <3>3, <1>f, KeepOne
  <2> QED
    BY <2>1, <2>3, <2>4, <1>f, KeepSame, KeepReset
<1>7. CASE ReconcileHistory
  <2>1. ledger' = ledger /\ (orders' = orders \/ TestnetReset(orders))
    BY <1>7 DEF ReconcileHistory
  <2> QED
    BY <2>1, <1>f, KeepSame, KeepReset
<1>8. CASE GetFails \/ DeleteFails \/ CallRateLimited
  BY <1>8, KeepSame DEF GetFails, DeleteFails, CallRateLimited
<1>9. CASE PostFails
  <2>1. /\ pc = "post" /\ ledger' = ledger
        /\ \E st \in {"unknown", "rejected"} : orders' = [orders EXCEPT ![fr.cur].state = st]
    BY <1>9 DEF PostFails
  <2>2. fr.cur \in Ids => orders[fr.cur].state = "new"
    BY <2>1 DEF RealInv, PostOK
  <2> QED
    BY <2>1, <2>2, <1>f, <1>n, KeepState
<1>10. CASE AuthFails \/ StopTimesOut
  BY <1>10, <1>f DEF AuthFails, StopTimesOut, Spend, Lenient
<1> QED
  BY <1>1, <1>2, <1>3, <1>4, <1>5, <1>6, <1>7, <1>8, <1>9, <1>10 DEF Trader, Answered, Failed

\* An order has an exchange id only with a record.
NamedOK == \A c \in Ids : orders[c].known => orders[c].state # "none"

\* Fills and Refill: the records and the cursor after _read_fills.
LEMMA ReadShape ==
    ASSUME ControlInv, RealInv, NamedOK, Fills \/ Refill
    PROVE  /\ ledger' = ReadFills(orders).ledger /\ UNCHANGED << ex, tape, purged, next >>
           /\ \A c \in Ids :
                /\ orders'[c].filled = orders[c].filled
                                       + (IF orders[c].known THEN Cardinality(Unread(c)) ELSE 0)
                /\ orders'[c].side = orders[c].side
                /\ orders[c].known => orders'[c].known
                /\ orders'[c].known => orders[c].known \/ orders[c].state # "none"
                /\ orders[c].state = "none" <=> orders'[c].state = "none"
<1> DEFINE r == ReadFills(orders).orders
<1>1. LedgerOK /\ orders \in [Ids -> Record]
  BY DEF RealInv, DataReal
<1>2. /\ r \in [Ids -> Record]
      /\ \A c \in Ids :
           /\ r[c].filled = orders[c].filled + (IF orders[c].known THEN Cardinality(Unread(c)) ELSE 0)
           /\ r[c].side = orders[c].side /\ r[c].known = orders[c].known
  <2>1. /\ r \in [Ids -> Record]
        /\ \A c \in Ids :
             /\ r[c].known = orders[c].known /\ r[c].side = orders[c].side
             /\ ~orders[c].known => r[c] = orders[c]
             /\ orders[c].known => r[c].filled = orders[c].filled + Cardinality(Unread(c))
    BY <1>1, ReadOrders
  <2>2. \A c \in Ids : orders[c].filled \in Nat
    BY <1>1 DEF Record
  <2> QED
    BY <2>1, <2>2
<1>3. \A c \in Ids : orders[c].state = "none" <=> r[c].state = "none"
  <2>1. \A c \in Ids : /\ ~orders[c].known => r[c] = orders[c]
                       /\ r[c].state = orders[c].state \/ r[c].state \in {"open", "filled"}
    BY <1>1, ReadOrders
  <2> QED
    BY <2>1 DEF NamedOK
<1> HIDE DEF r
<1>4. CASE Fills
  BY <1>2, <1>3, <1>4 DEF Fills, Calm, r
<1>5. CASE Refill
  <2>1. /\ pc = "refill" /\ orders' = [r EXCEPT ![fr.cur] = ApplyExchangeState(@, "FILLED")]
        /\ ledger' = ReadFills(orders).ledger /\ UNCHANGED << ex, tape, purged, next >>
    BY <1>5 DEF Refill, Calm, r
  <2>2. fr.cur \in Ids /\ orders[fr.cur].state # "none"
    BY <2>1 DEF RealInv, WalkedOK
  <2> DEFINE g == ApplyExchangeState(r[fr.cur], "FILLED")
  <2>3. r[fr.cur] \in Record /\ "FILLED" \in {"NEW", "FILLED", "CANCELED"}
    BY <1>2, <2>2
  <2>4. /\ g.known = TRUE /\ g.side = r[fr.cur].side /\ g.filled = r[fr.cur].filled
        /\ g.state = IF r[fr.cur].filled < Size THEN r[fr.cur].state ELSE "filled"
    BY <2>3, ApplyStateFacts, Zenon
  <2>5. orders' = [r EXCEPT ![fr.cur] = g]
    BY <1>2, <2>1, <2>2
  <2> HIDE DEF g
  <2>6. \A c \in Ids : orders'[c] = IF c = fr.cur THEN g ELSE r[c]
    BY <1>2, <2>2, <2>5
  <2> QED
    BY <1>2, <1>3, <2>1, <2>2, <2>4, <2>6
<1> QED
  BY <1>4, <1>5

\* The cursor after a read: at the end of the tape.
LEMMA ReadPassed ==
    ASSUME LedgerOK, ledger' = ReadFills(orders).ledger, UNCHANGED << tape, purged >>, NEW c
    PROVE  /\ Passed(c, 1) + Cardinality(Unread(c)) <= Passed(c, 1)'
           /\ Passed(c, purged + 1)' <= Passed(c, purged + 1) + Cardinality(Unread(c))
<1>1. ledger'.last = IF FromId <= Len(tape) THEN Len(tape) ELSE ledger.last
  BY ReadLedger
<1>2. /\ Passed(c, 1)' = Cardinality(OnTape(c, 1, ledger'.last))
      /\ Passed(c, purged + 1)' = Cardinality(OnTape(c, purged + 1, ledger'.last))
  BY DEF Passed, OnTape
<1>3. FromId \in Nat /\ Len(tape) \in Nat
  BY FromIdOK
<1>4. CASE FromId <= Len(tape)
  BY <1>1, <1>2, <1>4, PassedAndUnread
<1>5. CASE FromId > Len(tape)
  <2>1. ledger'.last = ledger.last
    BY <1>1, <1>3, <1>5
  <2> QED
    BY <1>2, <1>5, <2>1, PassedAndUnread
<1> QED
  BY <1>3, <1>4, <1>5

LEMMA ReadPassedNat ==
    ASSUME LedgerOK, ledger' = ReadFills(orders).ledger, UNCHANGED << tape, purged >>, NEW c
    PROVE  Passed(c, purged + 1)' \in Nat
<1>1. ledger'.last \in Int /\ purged + 1 \in Int
  BY ReadLedger DEF LedgerOK
<1>2. Passed(c, purged + 1)' = Cardinality(OnTape(c, purged + 1, ledger'.last))
  BY DEF Passed, OnTape
<1> QED
  BY <1>1, <1>2, OnTapeFinite

\* A fill is appended behind the cursor.
LEMMA FillPassed ==
    ASSUME LedgerOK, NEW d \in Ids, tape' = Append(tape, d), ledger' = ledger, purged' = purged,
           NEW c
    PROVE  /\ Passed(c, 1)' = Passed(c, 1)
           /\ Passed(c, purged + 1)' = Passed(c, purged + 1)
           /\ Len(tape') = Len(tape) + 1 /\ tape'[Len(tape) + 1] = d
           /\ \A i \in 1..Len(tape) : tape'[i] = tape[i]
<1>1. /\ Len(tape') = Len(tape) + 1 /\ tape'[Len(tape) + 1] = d
      /\ \A i \in 1..Len(tape) : tape'[i] = tape[i]
  BY DEF LedgerOK
<1>2. Len(tape) \in Nat /\ ledger.last \in 0..Len(tape) /\ purged \in 0..Len(tape)
  BY DEF LedgerOK
<1>3. /\ {i \in 1..ledger.last : tape'[i] = c} = {i \in 1..ledger.last : tape[i] = c}
      /\ {i \in (purged + 1)..ledger.last : tape'[i] = c} = {i \in (purged + 1)..ledger.last : tape[i] = c}
  BY <1>1, <1>2
<1> QED
  BY <1>1, <1>3 DEF Passed

-----------------------------------------------------------------------------
\* No fill is booked twice, because an id is sent once.

\* A client id is used once: the exchange has neither an order nor a trade of one
\* that is still to be sent.
FreshOK ==
    /\ \A c \in Ids : c >= next \/ (pc = "post" /\ c = fr.cur) =>
         ex[c].status = "none" /\ \A i \in 1..Len(tape) : tape[i] # c
    /\ pc = "post" => fr.cur < next

\* No fill is booked twice.
CountOK == \A c \in Ids : orders[c].filled <= Passed(c, 1)
CountInv == NamedOK /\ FreshOK /\ CountOK

LEMMA PassedAfter == ASSUME LedgerOK', NEW c PROVE Passed(c, 1)' \in Nat
<1> DEFINE S == 1..ledger'.last
           T == {i \in S : tape'[i] = c}
<1>1. ledger'.last \in Int
  BY DEF LedgerOK
<1>2. IsFiniteSet(S) /\ T \in SUBSET S
  BY <1>1, FS_Interval
<1> HIDE DEF S
<1>3. IsFiniteSet(T)
  BY <1>2, FS_Subset
<1> HIDE DEF T
<1>4. Cardinality(T) \in Nat
  BY <1>3, FS_CardinalityType
<1> QED
  BY <1>4 DEF Passed, S, T

\* A crash and a new session start without records.
LEMMA CountEmpty ==
    ASSUME LedgerOK', \A c \in Ids : orders'[c] = NoRecord
    PROVE  NamedOK' /\ CountOK'
<1>1. \A c \in Ids : Passed(c, 1)' \in Nat
  BY PassedAfter
<1> QED
  BY <1>1, NoRecordFacts DEF NamedOK, CountOK

LEMMA FreshKept ==
    ASSUME RealInv, FreshOK, ExShape \/ (Crash /\ ex' \in {ex, PlaceAtExchange(fr.cur)}),
           pc' # "post", UNCHANGED << tape, next >>, next \in Nat,
           Crash => ex' = ex \/ pc = "post"
    PROVE  FreshOK'
<1>1. ex \in [Ids -> Placed] /\ orders \in [Ids -> Record]
  BY DEF RealInv, DataReal
<1>2. ASSUME NEW c \in Ids, c >= next PROVE ex'[c].status = "none"
  <2>1. ex[c].status = "none" /\ (pc = "post" => c # fr.cur)
    BY <1>2, TraderConstants DEF FreshOK, Ids
  <2>2. CASE ex' = ex
    BY <2>1, <2>2
  <2>3. ASSUME NEW d, ex' = CancelAtExchange(d) PROVE ex'[c].status = "none"
    BY <1>1, <2>1, <2>3, CancelStep
  <2>4. CASE pc = "post" /\ ex' = PlaceAtExchange(fr.cur)
    BY <1>1, <2>1, <2>4, PlaceStep
  <2> QED
    BY <2>2, <2>3, <2>4 DEF ExShape, Post, PostFails
<1> QED
  BY <1>2 DEF FreshOK

LEMMA CountTrader ==
    ASSUME ControlInv, RealInv, LedgerOK', Lenient, CountInv, Trader
    PROVE  CountInv'
<1>0. next \in Nat /\ fr \in Frame /\ LedgerOK /\ orders \in [Ids -> Record]
  BY DEF ControlInv, RealInv, DataReal
<1>1. CASE SideDone
  <2>1. UNCHANGED << ex, tape, purged, ledger >>
    BY <1>1 DEF SideDone, Local, Calm
  <2>2. CASE WantsPlace
    <3>1. /\ orders' = [orders EXCEPT ![next] = [NoRecord EXCEPT !.side = fr.side, !.state = "new"]]
          /\ next' = next + 1 /\ pc' = "post" /\ fr' = [fr EXCEPT !.cur = next]
      BY <1>1, <2>2 DEF SideDone, Enter
    <3>2. fr'.cur = next /\ fr.side \in Sides
      BY <1>0, <3>1 DEF Frame
    <3>3. /\ \A c \in Ids : c # next => orders'[c] = orders[c]
          /\ next \in Ids => /\ orders'[next].state = "new" /\ ~orders'[next].known
                             /\ orders'[next].filled = 0
      BY <1>0, <3>1, <3>2, NewRecord
    <3>4. FreshOK'
      <4>1. \A c \in Ids : c \in Int
        BY DEF Ids
      <4>2. next + 1 > next /\ \A c \in Ids : c >= next + 1 \/ c = next => c >= next
        BY <1>0, <4>1
      <4> QED
        BY <2>1, <3>1, <3>2, <4>2 DEF CountInv, FreshOK
    <3>5. NamedOK'
      BY <3>3 DEF CountInv, NamedOK
    <3>6. CountOK'
      <4>1. ASSUME NEW c \in Ids PROVE Passed(c, 1)' = Passed(c, 1) /\ Passed(c, 1) \in Nat
        BY <1>0, <2>1, PassedAndUnread DEF Passed
      <4> QED
        BY <3>3, <4>1 DEF CountInv, CountOK
    <3> QED
      BY <3>4, <3>5, <3>6 DEF CountInv
  <2>3. CASE ~WantsPlace
    <3>1. NextSide /\ orders' = orders /\ next' = next
      BY <1>1, <2>3 DEF SideDone
    <3>2. pc' # "post"
      BY <3>1 DEF NextSide, Enter
    <3>3. FreshOK'
      BY <2>1, <3>1, <3>2 DEF CountInv, FreshOK
    <3> QED
      BY <2>1, <3>1, <3>3 DEF CountInv, NamedOK, CountOK, Passed
  <2> QED
    BY <2>2, <2>3
<1>2. CASE ~SideDone
  <2>1. UNCHANGED << tape, purged, next >> /\ pc' # "post" /\ ExShape
    BY <1>2, TraderShape
  <2>2. FreshOK'
    <3>1. Crash => ex' = ex \/ pc = "post"
      BY DEF Crash
    <3> QED
      BY <1>0, <2>1, <3>1, FreshKept DEF CountInv
  <2>3. CASE ledger' = ledger /\ RecordsKeep
    BY <2>1, <2>2, <2>3 DEF CountInv, NamedOK, CountOK, Passed, RecordsKeep
  <2>4. CASE \A c \in Ids : orders'[c] = NoRecord
    BY <2>2, <2>4, CountEmpty DEF CountInv
  <2>5. CASE Fills \/ Refill
    <3>1. /\ ledger' = ReadFills(orders).ledger
          /\ \A c \in Ids :
               /\ orders'[c].filled = orders[c].filled
                                      + (IF orders[c].known THEN Cardinality(Unread(c)) ELSE 0)
               /\ orders'[c].known => orders[c].known \/ orders[c].state # "none"
               /\ orders[c].state = "none" <=> orders'[c].state = "none"
      BY <2>5, ReadShape DEF CountInv
    <3>2. NamedOK'
      BY <3>1 DEF CountInv, NamedOK
    <3>3. ASSUME NEW c \in Ids PROVE orders'[c].filled <= Passed(c, 1)'
      <4>1. Passed(c, 1) + Cardinality(Unread(c)) <= Passed(c, 1)'
        BY <1>0, <2>1, <3>1, ReadPassed
      <4>2. /\ Passed(c, 1) \in Nat /\ Cardinality(Unread(c)) \in Nat /\ orders[c].filled \in Nat
            /\ orders[c].filled <= Passed(c, 1)
        BY <1>0, PassedAndUnread, FromIdOK DEF CountInv, CountOK, Record
      <4>3. Passed(c, 1)' \in Nat
        BY PassedAfter
      <4>4. orders'[c].filled \in {orders[c].filled + Cardinality(Unread(c)), orders[c].filled}
        BY <3>1, <4>2
      <4> QED
        BY <4>1, <4>2, <4>3, <4>4
    <3> QED
      BY <2>2, <3>2, <3>3 DEF CountInv, CountOK
  <2> QED
    BY <1>2, <2>3, <2>4, <2>5, RecordShape
<1> QED
  BY <1>1, <1>2

LEMMA CountStep ==
    ASSUME ControlInv, RealInv, RealInv', Lenient, CountInv, [Next]_vars
    PROVE  CountInv'
<1>0. /\ next \in Nat /\ LedgerOK /\ LedgerOK' /\ ex \in [Ids -> Placed] /\ Live \subseteq Ids
      /\ orders \in [Ids -> Record]
  BY DEF ControlInv, RealInv, DataReal, Live
<1>1. CASE Trader
  BY <1>0, <1>1, CountTrader
<1>2. CASE Fill
  <2>1. PICK d \in Live :
          /\ ex' = [ex EXCEPT ![d].done = @ + 1,
                              ![d].status = IF ex[d].done + 1 = Size THEN "FILLED" ELSE @]
          /\ tape' = Append(tape, d)
    BY <1>2 DEF Fill
  <2>2. UNCHANGED << pc, fr, orders, next, ledger, purged >>
    BY <1>2 DEF Fill, Still
  <2>3. /\ d \in Ids /\ ex[d].status = "NEW"
        /\ \A c \in Ids : c # d => ex'[c] = ex[c]
    BY <1>0, <2>1, FillStep DEF Live
  <2>4. /\ Len(tape') = Len(tape) + 1 /\ tape'[Len(tape) + 1] = d
        /\ \A i \in 1..Len(tape) : tape'[i] = tape[i]
    BY <1>0, <2>1, <2>2, <2>3, FillPassed
  <2>5. Len(tape) \in Nat
    BY <1>0 DEF LedgerOK
  <2>6. FreshOK'
    <3>1. ASSUME NEW c \in Ids, c >= next \/ (pc = "post" /\ c = fr.cur)
          PROVE  ex'[c].status = "none" /\ \A i \in 1..Len(tape') : tape'[i] # c
      <4>1. ex[c].status = "none" /\ \A i \in 1..Len(tape) : tape[i] # c
        BY <3>1 DEF CountInv, FreshOK
      <4>2. c # d
        BY <2>3, <4>1
      <4>3. \A i \in 1..Len(tape') : i \in 1..Len(tape) \/ i = Len(tape) + 1
        BY <2>4, <2>5
      <4> QED
        BY <2>3, <2>4, <4>1, <4>2, <4>3
    <3> QED
      BY <2>2, <3>1 DEF CountInv, FreshOK
  <2>7. \A c \in Ids : Passed(c, 1)' = Passed(c, 1)
    BY <1>0, <2>1, <2>2, <2>3, FillPassed
  <2> QED
    BY <2>2, <2>6, <2>7 DEF CountInv, NamedOK, CountOK
<1>3. CASE ExchangeReset
  <2>1. /\ ex' = [c \in Ids |-> NoOrder] /\ UNCHANGED << pc, fr, orders, next, ledger, tape >>
    BY <1>3 DEF ExchangeReset, Still
  <2> QED
    BY <2>1, NoRecordFacts DEF CountInv, NamedOK, CountOK, FreshOK, Passed
<1>4. CASE ToggleKill \/ Stop \/ RevokeKeys \/ UNCHANGED vars
  <2>1. UNCHANGED << ex, pc, fr, orders, next, ledger, tape >>
    BY <1>4 DEF ToggleKill, Stop, RevokeKeys, Still, vars
  <2> QED
    BY <2>1 DEF CountInv, NamedOK, CountOK, FreshOK, Passed
<1>5. CASE Crash
  <2>1. /\ ex' \in {ex, PlaceAtExchange(fr.cur)} /\ (ex' = ex \/ pc = "post") /\ pc' = "loop"
        /\ UNCHANGED << tape, next >> /\ \A c \in Ids : orders'[c] = NoRecord
    BY <1>5 DEF Crash
  <2>2. FreshOK'
    BY <1>0, <1>5, <2>1, FreshKept DEF CountInv
  <2> QED
    BY <1>0, <2>1, <2>2, CountEmpty DEF CountInv
<1> QED
  BY <1>1, <1>2, <1>3, <1>4, <1>5 DEF Next, World, Ended

LEMMA CountInit == Init => CountInv
<1> SUFFICES ASSUME Init PROVE CountInv
  OBVIOUS
<1>1. /\ ex = [c \in Ids |-> NoOrder] /\ orders = [c \in Ids |-> NoRecord] /\ tape = << >>
      /\ pc = "loop"
  BY DEF Init
<1>2. LedgerOK
  BY RealInit DEF RealInv, DataReal
<1>3. \A c \in Ids : Passed(c, 1) \in Nat
  BY <1>2, PassedAndUnread
<1>4. 1..Len(tape) = {}
  BY <1>1
<1> QED
  BY <1>1, <1>3, <1>4, NoRecordFacts DEF CountInv, NamedOK, FreshOK, CountOK

\* A client id is used once, and no fill is booked twice: the records never show more
\* of an order filled than the trades the cursor of _read_fills has passed, through
\* resets, crashes and POSTs of unknown fate.
THEOREM TraderCounts == ASSUME Lenient PROVE Spec => []CountInv
<1>1. ControlInv /\ RealInv /\ RealInv' /\ CountInv /\ [Next]_vars => CountInv'
  BY CountStep
<1>2. Spec => []RealInv
  BY TraderReal DEF Lenient
<1> QED
  BY <1>1, <1>2, CountInit, TraderControl, PTL DEF Spec

-----------------------------------------------------------------------------
\* Every fill the cursor passes is booked, when every POST is answered or refused.

Answering == Lenient /\ Faults \cap {"post_lost", "post_dropped"} = {}

\* An order without an exchange id never reached the exchange.
UnheardOK ==
    \A c \in Ids : orders[c].state # "none" /\ ~orders[c].known =>
        ex[c].status = "none" /\ \A i \in 1..Len(tape) : tape[i] # c
BookedOK == \A c \in Ids : orders[c].state # "none" => Passed(c, purged + 1) <= orders[c].filled
SkipInv == UnheardOK /\ BookedOK

LEMMA SkipEmpty ==
    ASSUME \A c \in Ids : orders'[c] = NoRecord
    PROVE  SkipInv'
BY NoRecordFacts DEF SkipInv, UnheardOK, BookedOK

LEMMA SkipTrader ==
    ASSUME ControlInv, RealInv, Answering, CountInv, SkipInv, Trader
    PROVE  SkipInv'
<1>0. /\ next \in Nat /\ fr \in Frame /\ LedgerOK /\ orders \in [Ids -> Record] /\ Lenient
      /\ ex \in [Ids -> Placed]
  BY DEF ControlInv, RealInv, DataReal, Answering
<1>1. CASE SideDone
  <2>1. UNCHANGED << ex, tape, purged, ledger >>
    BY <1>1 DEF SideDone, Local, Calm
  <2>2. CASE WantsPlace
    <3>1. orders' = [orders EXCEPT ![next] = [NoRecord EXCEPT !.side = fr.side, !.state = "new"]]
      BY <1>1, <2>2 DEF SideDone
    <3>2. fr.side \in Sides
      BY <1>0 DEF Frame
    <3>3. /\ \A c \in Ids : c # next => orders'[c] = orders[c]
          /\ next \in Ids => orders'[next].filled = 0
      BY <1>0, <3>1, <3>2, NewRecord
    <3>4. next \in Ids => ex[next].status = "none" /\ \A i \in 1..Len(tape) : tape[i] # next
      BY <1>0 DEF CountInv, FreshOK
    <3>5. UnheardOK'
      BY <2>1, <3>3, <3>4 DEF SkipInv, UnheardOK
    <3>6. next \in Ids => Passed(next, purged + 1) = 0
      <4>1. ledger.last \in 0..Len(tape) /\ purged \in 0..Len(tape) /\ Len(tape) \in Nat
        BY <1>0 DEF LedgerOK
      <4>2. next \in Ids => \A i \in (purged + 1)..ledger.last : tape[i] # next
        BY <3>4, <4>1
      <4>3. purged + 1 \in Int /\ ledger.last \in Int
        BY <4>1
      <4> QED
        BY <1>0, <4>2, <4>3, OnTapeEmpty, PassedAndUnread
    <3>7. \A c \in Ids : Passed(c, purged + 1)' = Passed(c, purged + 1)
      BY <2>1 DEF Passed
    <3>8. BookedOK'
      BY <3>3, <3>6, <3>7 DEF SkipInv, BookedOK
    <3> QED
      BY <3>5, <3>8 DEF SkipInv
  <2>3. CASE ~WantsPlace
    <3>1. orders' = orders
      BY <1>1, <2>3 DEF SideDone
    <3> QED
      BY <2>1, <3>1 DEF SkipInv, UnheardOK, BookedOK, Passed
  <2> QED
    BY <2>2, <2>3
<1>2. CASE ~SideDone
  <2>1. UNCHANGED << tape, purged >> /\ ExShape
    BY <1>0, <1>2, TraderShape
  <2>2. CASE ledger' = ledger /\ RecordsKeep
    <3>1. ASSUME NEW c \in Ids, orders'[c].state # "none", ~orders'[c].known
          PROVE  ex'[c].status = "none" /\ \A i \in 1..Len(tape) : tape[i] # c
      <4>1. ex[c].status = "none" /\ \A i \in 1..Len(tape) : tape[i] # c
        BY <2>2, <3>1 DEF RecordsKeep, SkipInv, UnheardOK
      <4>2. CASE ex' = ex
        BY <4>1, <4>2
      <4>3. ASSUME NEW d, ex' = CancelAtExchange(d) PROVE ex'[c].status = "none"
        BY <1>0, <4>1, <4>3, CancelStep
      <4>4. CASE Post /\ ex' # ex
        <5>1. /\ ex' = PlaceAtExchange(fr.cur)
              /\ orders' = [orders EXCEPT ![fr.cur].state = "open", ![fr.cur].known = TRUE]
          BY <4>4 DEF Post
        <5>2. c # fr.cur
          BY <1>0, <3>1, <5>1, Acknowledged
        <5> QED
          BY <1>0, <4>1, <5>1, <5>2, PlaceStep
      <4>5. CASE PostFails
        <5>1. ex' = ex
          BY <4>5 DEF PostFails, Spend, Answering
        <5> QED
          BY <4>1, <5>1
      <4> QED
        BY <2>1, <4>1, <4>2, <4>3, <4>4, <4>5 DEF ExShape
    <3>2. UnheardOK'
      BY <2>1, <3>1 DEF UnheardOK
    <3>3. BookedOK'
      BY <2>1, <2>2 DEF SkipInv, BookedOK, RecordsKeep, Passed
    <3> QED
      BY <3>2, <3>3 DEF SkipInv
  <2>3. CASE \A c \in Ids : orders'[c] = NoRecord
    BY <2>3, SkipEmpty
  <2>4. CASE Fills \/ Refill
    <3>1. /\ ledger' = ReadFills(orders).ledger /\ ex' = ex
          /\ \A c \in Ids :
               /\ orders'[c].filled = orders[c].filled
                                      + (IF orders[c].known THEN Cardinality(Unread(c)) ELSE 0)
               /\ orders[c].known => orders'[c].known
               /\ orders[c].state = "none" <=> orders'[c].state = "none"
      BY <2>4, ReadShape DEF CountInv
    <3>2. UnheardOK'
      BY <2>1, <3>1 DEF SkipInv, UnheardOK
    <3>3. ASSUME NEW c \in Ids, orders'[c].state # "none"
          PROVE  Passed(c, purged + 1)' <= orders'[c].filled
      <4>1. Passed(c, purged + 1)' <= Passed(c, purged + 1) + Cardinality(Unread(c))
        BY <1>0, <2>1, <3>1, ReadPassed
      <4>2. /\ Passed(c, purged + 1) \in Nat /\ Cardinality(Unread(c)) \in Nat
            /\ orders[c].filled \in Nat /\ Passed(c, purged + 1) <= orders[c].filled
        BY <1>0, <3>1, <3>3, PassedAndUnread, FromIdOK DEF SkipInv, BookedOK, Record
      <4>3. Passed(c, purged + 1)' \in Nat
        BY <1>0, <2>1, <3>1, ReadPassedNat
      <4>4. CASE orders[c].known
        BY <3>1, <4>1, <4>2, <4>3, <4>4
      <4>5. CASE ~orders[c].known
        <5>1. \A i \in 1..Len(tape) : tape[i] # c
          BY <3>1, <3>3, <4>5 DEF SkipInv, UnheardOK
        <5>2. \A i \in FromId..Len(tape) : i \in 1..Len(tape)
          BY <1>0, FromIdOK
        <5>3. Unread(c) = {}
          BY <5>1, <5>2 DEF Unread
        <5>4. Cardinality(Unread(c)) = 0
          BY <5>3, FS_EmptySet
        <5> QED
          BY <3>1, <4>1, <4>2, <4>3, <4>5, <5>4
      <4> QED
        BY <4>4, <4>5
    <3> QED
      BY <3>2, <3>3 DEF SkipInv, BookedOK
  <2> QED
    BY <1>0, <1>2, <2>2, <2>3, <2>4, RecordShape
<1> QED
  BY <1>1, <1>2

LEMMA SkipStep ==
    ASSUME ControlInv, RealInv, Answering, CountInv, SkipInv, [Next]_vars
    PROVE  SkipInv'
<1>0. /\ LedgerOK /\ ex \in [Ids -> Placed] /\ Live \subseteq Ids /\ orders \in [Ids -> Record]
  BY DEF RealInv, DataReal, Live
<1>1. CASE Trader
  BY <1>1, SkipTrader
<1>2. CASE Fill
  <2>1. PICK d \in Live :
          /\ ex' = [ex EXCEPT ![d].done = @ + 1,
                              ![d].status = IF ex[d].done + 1 = Size THEN "FILLED" ELSE @]
          /\ tape' = Append(tape, d)
    BY <1>2 DEF Fill
  <2>2. UNCHANGED << orders, ledger, purged >>
    BY <1>2 DEF Fill, Still
  <2>3. /\ d \in Ids /\ ex[d].status = "NEW"
        /\ \A c \in Ids : c # d => ex'[c] = ex[c]
    BY <1>0, <2>1, FillStep DEF Live
  <2>4. /\ Len(tape') = Len(tape) + 1 /\ tape'[Len(tape) + 1] = d
        /\ \A i \in 1..Len(tape) : tape'[i] = tape[i]
    BY <1>0, <2>1, <2>2, <2>3, FillPassed
  <2>5. Len(tape) \in Nat
    BY <1>0 DEF LedgerOK
  <2>6. UnheardOK'
    <3>1. ASSUME NEW c \in Ids, orders[c].state # "none", ~orders[c].known
          PROVE  ex'[c].status = "none" /\ \A i \in 1..Len(tape') : tape'[i] # c
      <4>1. ex[c].status = "none" /\ \A i \in 1..Len(tape) : tape[i] # c
        BY <3>1 DEF SkipInv, UnheardOK
      <4>2. c # d
        BY <2>3, <4>1
      <4>3. \A i \in 1..Len(tape') : i \in 1..Len(tape) \/ i = Len(tape) + 1
        BY <2>4, <2>5
      <4> QED
        BY <2>3, <2>4, <4>1, <4>2, <4>3
    <3> QED
      BY <2>2, <3>1 DEF UnheardOK
  <2>7. \A c \in Ids : Passed(c, purged + 1)' = Passed(c, purged + 1)
    BY <1>0, <2>1, <2>2, <2>3, FillPassed
  <2> QED
    BY <2>2, <2>6, <2>7 DEF SkipInv, BookedOK
<1>3. CASE ExchangeReset
  <2>1. /\ ex' = [c \in Ids |-> NoOrder] /\ UNCHANGED << orders, ledger, tape >>
        /\ purged' = Len(tape)
    BY <1>3 DEF ExchangeReset, Still
  <2>2. UnheardOK'
    BY <2>1, NoRecordFacts DEF SkipInv, UnheardOK
  <2>3. ASSUME NEW c \in Ids PROVE Passed(c, purged + 1)' = 0
    <3>1. Len(tape) \in Nat /\ ledger.last \in 0..Len(tape)
      BY <1>0 DEF LedgerOK
    <3>2. {i \in (Len(tape) + 1)..ledger.last : tape[i] = c} = {}
      BY <3>1
    <3>3. Passed(c, purged + 1)' = Cardinality({i \in (Len(tape) + 1)..ledger.last : tape[i] = c})
      BY <2>1 DEF Passed
    <3> QED
      BY <3>2, <3>3, FS_EmptySet
  <2>4. BookedOK'
    BY <1>0, <2>1, <2>3 DEF BookedOK, Record
  <2> QED
    BY <2>2, <2>4 DEF SkipInv
<1>4. CASE ToggleKill \/ Stop \/ RevokeKeys \/ UNCHANGED vars
  <2>1. UNCHANGED << ex, orders, ledger, tape, purged >>
    BY <1>4 DEF ToggleKill, Stop, RevokeKeys, Still, vars
  <2> QED
    BY <2>1 DEF SkipInv, UnheardOK, BookedOK, Passed
<1>5. CASE Crash
  <2>1. \A c \in Ids : orders'[c] = NoRecord
    BY <1>5 DEF Crash
  <2> QED
    BY <2>1, SkipEmpty
<1> QED
  BY <1>1, <1>2, <1>3, <1>4, <1>5 DEF Next, World, Ended

\* FR-010: when every POST is answered or refused, every trade of the session's orders
\* that _last_trade_id has passed was booked on its order, once, however many other
\* calls fail, the exchange is reset and the process dies: only a trade a reset deleted
\* before it was read may be missing.
THEOREM TraderNoFillSkipped == ASSUME Answering PROVE Spec => []NoFillSkipped
<1>1. Init => SkipInv
  BY NoRecordFacts DEF Init, SkipInv, UnheardOK, BookedOK
<1>2. ControlInv /\ RealInv /\ CountInv /\ SkipInv /\ [Next]_vars => SkipInv'
  BY SkipStep
<1>3. RealInv /\ CountInv /\ SkipInv => NoFillSkipped
  <2> SUFFICES ASSUME RealInv, CountInv, SkipInv, NEW c \in Ids, orders[c].state # "none"
               PROVE  orders[c].filled \in Passed(c, purged + 1)..Passed(c, 1)
    BY DEF NoFillSkipped
  <2>1. LedgerOK /\ orders[c].filled \in Nat
    BY DEF RealInv, DataReal, Record
  <2>2. Passed(c, 1) \in Nat /\ Passed(c, purged + 1) \in Nat
    BY <2>1, PassedAndUnread
  <2> QED
    BY <2>1, <2>2 DEF CountInv, CountOK, SkipInv, BookedOK
<1>4. (Spec => []RealInv) /\ (Spec => []CountInv)
  BY TraderReal, TraderCounts DEF Answering, Lenient
<1> QED
  BY <1>1, <1>2, <1>3, <1>4, TraderControl, PTL DEF Spec

-----------------------------------------------------------------------------
\* What is live at the exchange, when it is never reset and no POST is executed
\* behind a broken connection.

Undisturbed == Lenient /\ "post_dropped" \notin Faults /\ MaxResets = 0

NeverReset ==
    /\ left \in [faults : Int, kills : Int, resets : Int, crashes : Int] /\ left.resets = 0
    /\ wiped = FALSE /\ pc # "reset_open"

\* The exchange's order and its trades agree.
DoneOK ==
    \A c \in Ids : /\ ex[c].done = Cardinality(OnTape(c, 1, Len(tape)))
                   /\ ex[c].status = "NEW" => ex[c].done < Size

\* An order of unknown fate that has an exchange id was found filled.
UnknownOK == \A c \in Ids : orders[c].state = "unknown" /\ orders[c].known => ex[c].status = "FILLED"

\* A session's live orders are its own; startup cancels what was there before.
OwnedOK ==
    /\ session # "none" => \A c \in Live : orders[c].state # "none" /\ orders[c].side = ex[c].side
    /\ pc = "stray" /\ fr.then = "open" => Live \subseteq fr.todo
    /\ pc = "open" => Live = {}

\* The side loop of _quote places only where nothing is live any more.
SideOK ==
    /\ Walks("side") => \A c \in Live : ex[c].side = fr.side =>
         c \in fr.todo \/ orders[c].state = "unknown" \/ fr.kept \/ (pc = "delete" /\ c = fr.cur)
    /\ pc = "query" => ex[fr.cur].status # "NEW"
    /\ pc = "refill" => ex[fr.cur].status = "FILLED"
    /\ pc = "post" => \A c \in Live : ex[c].side # fr.side

DeadInv == NeverReset /\ DoneOK /\ UnknownOK /\ WrittenOffIsDead /\ OwnedOK /\ SideOK /\ OneOrderPerSide

\* _testnet_reset is never entered: RealInv has no reset without a wipe.
LEMMA NoTestnetReset ==
    ASSUME RealInv, RealInv', wiped = FALSE, wiped' = FALSE
    PROVE  pc # "reset_account" /\ pc' # "reset_account" /\ ~TestnetReset(orders)
BY DEF RealInv, ResetsAreReal, TestnetReset, Goto

LEMMA LeftSpent ==
    ASSUME left \in [faults : Int, kills : Int, resets : Int, crashes : Int],
           \/ left' = left \/ left' = [left EXCEPT !.faults = @ - 1]
           \/ left' = [left EXCEPT !.kills = @ - 1] \/ left' = [left EXCEPT !.crashes = @ - 1]
    PROVE  left' \in [faults : Int, kills : Int, resets : Int, crashes : Int]
           /\ left'.resets = left.resets
OBVIOUS

LEMMA NeverResetStep ==
    ASSUME ControlInv, RealInv, NeverReset, Lenient, [Next]_vars
    PROVE  NeverReset'
<1>0. /\ authOk = TRUE /\ pc # "reset_account" /\ pc # "reset_open"
      /\ left \in [faults : Int, kills : Int, resets : Int, crashes : Int] /\ left.resets = 0
  BY DEF RealInv, DataReal, NeverReset, ResetsAreReal
<1>1. CASE Trader
  <2>1. CASE SideDone
    <3>1. left' = left /\ wiped' = wiped /\ pc' # "reset_open"
      BY <2>1 DEF SideDone, NextSide, Local, Calm, Enter
    <3> QED
      BY <1>0, <3>1 DEF NeverReset
  <2>2. CASE ~SideDone
    <3>1. /\ left' = left \/ left' = [left EXCEPT !.faults = @ - 1]
          /\ wiped' = wiped \/ wiped' = FALSE
          /\ pc' = "reset_open" => ResetAccount
      BY <1>1, <2>2, TraderShape
    <3>2. pc' # "reset_open"
      BY <1>0, <3>1 DEF ResetAccount
    <3>3. left' \in [faults : Int, kills : Int, resets : Int, crashes : Int] /\ left'.resets = left.resets
      BY <1>0, <3>1, LeftSpent
    <3> QED
      BY <1>0, <3>1, <3>2, <3>3 DEF NeverReset
  <2> QED
    BY <2>1, <2>2
<1>2. CASE ~Trader
  <2>1. /\ \/ left' = left
           \/ left' = [left EXCEPT !.kills = @ - 1] \/ left' = [left EXCEPT !.crashes = @ - 1]
        /\ wiped' = wiped /\ pc' \in {pc, "loop"}
    <3>1. ~ExchangeReset
      BY <1>0 DEF ExchangeReset
    <3>2. CASE Fill \/ ToggleKill \/ Stop \/ RevokeKeys \/ UNCHANGED vars
      BY <3>2 DEF Fill, ToggleKill, Stop, RevokeKeys, Still, vars
    <3>3. CASE Crash
      BY <3>3 DEF Crash
    <3> QED
      BY <1>2, <3>1, <3>2, <3>3 DEF Next, World, Ended
  <2>2. left' \in [faults : Int, kills : Int, resets : Int, crashes : Int] /\ left'.resets = left.resets
    BY <1>0, <2>1, LeftSpent
  <2> QED
    BY <1>0, <2>1, <2>2 DEF NeverReset
<1> QED
  BY <1>1, <1>2

\* What a step of the task does to the orders at the exchange: it places the one
\* of _place, and cancels.
LEMMA ExFate ==
    ASSUME ControlInv, RealInv, Lenient, CountInv, Trader, NEW c \in Ids
    PROVE  /\ ex[c].status \in {"FILLED", "CANCELED"} => ex'[c] = ex[c]
           /\ ex'[c].status = "NEW" /\ ex'[c] # ex[c] =>
                /\ pc = "post" /\ c = fr.cur /\ (Post \/ PostFails)
                /\ ex'[c].side = fr.side
           /\ \/ ex'[c].done = ex[c].done /\ (ex'[c].status = "NEW" => ex[c].status = "NEW")
              \/ pc = "post" /\ c = fr.cur /\ ex'[c].done = 0
<1>0. ex \in [Ids -> Placed] /\ orders \in [Ids -> Record]
  BY DEF RealInv, DataReal
<1>1. CASE ex' = ex
  BY <1>1
<1>2. ASSUME NEW d, ex' = CancelAtExchange(d)
      PROVE  /\ ex[c].status \in {"FILLED", "CANCELED"} => ex'[c] = ex[c]
             /\ ex'[c].status = "NEW" => ex'[c] = ex[c]
             /\ ex'[c].done = ex[c].done
  BY <1>0, <1>2, CancelStep
<1>3. CASE (Post \/ PostFails) /\ ex' = PlaceAtExchange(fr.cur)
  <2>1. pc = "post"
    BY <1>3 DEF Post, PostFails
  <2>2. /\ \A e \in Ids : e # fr.cur => ex'[e] = ex[e]
        /\ fr.cur \in Ids => ex'[fr.cur].done = 0 /\ ex'[fr.cur].side = orders[fr.cur].side
    BY <1>0, <1>3, PlaceStep
  <2>3. c = fr.cur => ex[c].status = "none" /\ orders[c].side = fr.side
    BY <2>1 DEF CountInv, FreshOK, RealInv, PostOK
  <2> QED
    BY <1>3, <2>1, <2>2, <2>3
<1>4. SideDone => ex' = ex
  BY DEF SideDone, Local
<1>5. ~SideDone => ExShape
  BY TraderShape
<1> QED
  BY <1>1, <1>2, <1>3, <1>4, <1>5 DEF ExShape

\* An order that is still live has not been filled as far as its size.
LEMMA ReadFate ==
    ASSUME RealInv, CountInv, DoneOK, NEW r, r = ReadFills(orders).orders, NEW c \in Ids
    PROVE  /\ ex[c].status = "NEW" /\ r[c].state = "filled" => orders[c].state = "filled"
           /\ r[c].state \in {orders[c].state, "open", "filled"}
           /\ r[c].state = "unknown" => orders[c].state = "unknown"
           /\ r[c].known = orders[c].known
           /\ ~orders[c].known => r[c] = orders[c]
<1>1. LedgerOK /\ orders \in [Ids -> Record]
  BY DEF RealInv, DataReal
<1>2. /\ r[c].known = orders[c].known
      /\ ~orders[c].known => r[c] = orders[c]
      /\ orders[c].known => r[c].filled = orders[c].filled + Cardinality(Unread(c))
      /\ r[c].state = orders[c].state \/ r[c].state \in {"open", "filled"}
      /\ r[c].state = "filled" /\ orders[c].state # "filled" => r[c].filled >= Size
  BY <1>1, ReadOrders
<1>3. ASSUME ex[c].status = "NEW", orders[c].known PROVE ~(r[c].filled >= Size)
  <2>1. /\ Passed(c, 1) \in Nat
        /\ Passed(c, 1) + Cardinality(Unread(c)) <= Cardinality(OnTape(c, 1, Len(tape)))
    BY <1>1, PassedAndUnread
  <2>2. Cardinality(Unread(c)) \in Nat /\ Len(tape) \in Int
    BY <1>1, FromIdOK
  <2>3. orders[c].filled \in Nat /\ orders[c].filled <= Passed(c, 1)
    BY <1>1 DEF CountInv, CountOK, Record
  <2>4. Cardinality(OnTape(c, 1, Len(tape))) \in Nat /\ Cardinality(OnTape(c, 1, Len(tape))) < Size
    BY <1>3, <2>2, OnTapeFinite DEF DoneOK
  <2>5. r[c].filled = orders[c].filled + Cardinality(Unread(c))
    BY <1>2, <1>3
  <2> QED
    BY <2>1, <2>2, <2>3, <2>4, <2>5, TraderConstants
<1> QED
  BY <1>2, <1>3

\* What a step of the task does to the records: it writes an order off only when the
\* exchange no longer works it.
WroteOff(c) ==
    /\ orders'[c].state \in FinalStates => orders[c].state \in FinalStates \/ ex'[c].status # "NEW"
    /\ orders'[c].state = "unknown" /\ orders'[c].known =>
         (orders[c].state = "unknown" /\ orders[c].known) \/ ex'[c].status = "FILLED"

LEMMA RecordFate ==
    ASSUME ControlInv, RealInv, RealInv', Undisturbed, CountInv, NeverReset, NeverReset', DoneOK,
           SideOK, Trader, NEW c \in Ids
    PROVE  WroteOff(c)
<1> USE DEF Goto, Enter, Calm, Local
<1>f. /\ fr \in Frame /\ authOk = TRUE /\ orders \in [Ids -> Record] /\ ex \in [Ids -> Placed]
      /\ fr.todo \in SUBSET Ids /\ orders[c] \in Record
  BY DEF ControlInv, RealInv, DataReal, Frame
<1>m. fr.todo # {} => Min(fr.todo) \in fr.todo
  BY <1>f, MinInside
<1>n. {"open", "unknown", "rejected", "cancelled"} \subseteq RecordStates
  BY StateNames
<1>r. ~TestnetReset(orders) /\ pc # "reset_open"
  BY NoTestnetReset DEF NeverReset
<1>s. ASSUME orders'[c] = orders[c] PROVE WroteOff(c)
  BY <1>s DEF WroteOff
<1>1. CASE Loop \/ StartupAccount \/ Leftovers \/ Iterate \/ Depth \/ List \/ Stray
  BY <1>1, <1>s DEF Loop, StartupAccount, Leftovers, Iterate, Depth, List, Stray
<1>2. CASE StartupOpen \/ ResetOpen
  <2>1. orders'[c] = NoRecord
    BY <1>2 DEF StartupOpen, ResetOpen, OpenSession
  <2> QED
    BY <2>1, NoRecordFacts DEF WroteOff, FinalStates
<1>3. CASE Resolve
  <2> DEFINE d == Min(fr.todo)
  <2>1. pc = "resolve" /\ ex' = ex
    BY <1>3 DEF Resolve
  <2>2. fr.todo # {} => d \in Ids /\ orders[d] \in Record /\ orders[d].state \in OpenStates
    BY <2>1, <1>f, <1>m DEF RealInv, WalkedOK
  <2>3. \/ fr.todo = {} /\ orders' = orders
        \/ fr.todo # {} /\ orders' = [orders EXCEPT ![d] = Adopt(@)]
        \/ /\ fr.todo # {} /\ ex[d].status # "none"
           /\ orders' = [orders EXCEPT ![d] = ApplyExchangeState(@, ex[d].status)]
        \/ fr.todo # {} /\ ex[d].status = "none" /\ orders' = [orders EXCEPT ![d].state = "rejected"]
    BY <1>3, <1>r DEF Resolve
  <2> HIDE DEF d
  <2>4. CASE fr.todo # {} /\ orders' = [orders EXCEPT ![d] = Adopt(@)]
    <3> DEFINE g == Adopt(orders[d])
    <3>1. /\ g \in Record /\ g.state = IF orders[d].state = "unknown" THEN "open" ELSE orders[d].state
      BY <2>2, <2>4, AdoptFacts
    <3>2. orders' = [orders EXCEPT ![d] = g]
      BY <2>2, <2>4
    <3> HIDE DEF g
    <3>3. orders'[c] = IF c = d THEN g ELSE orders[c]
      BY <3>1, <3>2, <1>f, OneRecord
    <3> QED
      BY <2>2, <2>4, <3>1, <3>3, <1>s DEF WroteOff, OpenStates, FinalStates
  <2>5. CASE /\ fr.todo # {} /\ ex[d].status # "none"
             /\ orders' = [orders EXCEPT ![d] = ApplyExchangeState(@, ex[d].status)]
    <3> DEFINE g == ApplyExchangeState(orders[d], ex[d].status)
    <3>1. ex[d].status \in {"NEW", "FILLED", "CANCELED"}
      BY <2>2, <2>5, <1>f DEF Placed, Statuses
    <3>2. /\ g \in Record
          /\ ex[d].status = "NEW" => g.state = IF orders[d].state = "unknown" THEN "open" ELSE orders[d].state
          /\ ex[d].status = "CANCELED" => g.state = "cancelled"
      BY <2>2, <2>5, <3>1, ApplyStateFacts
    <3>3. orders' = [orders EXCEPT ![d] = g]
      BY <2>2, <2>5
    <3> HIDE DEF g
    <3>4. orders'[c] = IF c = d THEN g ELSE orders[c]
      BY <3>2, <3>3, <1>f, OneRecord
    <3> QED
      BY <2>1, <2>2, <2>5, <3>1, <3>2, <3>4, <1>s DEF WroteOff, OpenStates, FinalStates
  <2>6. CASE fr.todo # {} /\ ex[d].status = "none" /\ orders' = [orders EXCEPT ![d].state = "rejected"]
    BY <2>1, <2>2, <2>6, <1>f, <1>n, <1>s, StateEdit DEF WroteOff
  <2> QED
    BY <2>3, <2>4, <2>5, <2>6, <1>s
<1>4. CASE Quote \/ Resting \/ Due \/ ReconcileAccount \/ StartCancelAll \/ CancelRecorded \/ Confirm
           \/ CancelRemaining \/ CancelAllDone \/ Shutdown \/ ResetAccount
  BY <1>4, <1>s DEF Quote, Resting, Due, ReconcileAccount, StartCancelAll, CancelRecorded,
     Confirm, CancelRemaining, CancelAllDone, Shutdown, ResetAccount
<1>5. CASE Post
  <2>1. /\ pc = "post"
        /\ \/ orders' = [orders EXCEPT ![fr.cur].state = "open", ![fr.cur].known = TRUE]
           \/ ex' = ex /\ orders' = [orders EXCEPT ![fr.cur].state = "rejected"]
    BY <1>5 DEF Post
  <2>2. CASE orders' = [orders EXCEPT ![fr.cur].state = "open", ![fr.cur].known = TRUE]
    BY <2>2, <1>f, <1>s, Acknowledged DEF WroteOff, FinalStates
  <2>3. CASE ex' = ex /\ orders' = [orders EXCEPT ![fr.cur].state = "rejected"]
    <3>1. c = fr.cur => ex[c].status = "none"
      BY <2>1 DEF CountInv, FreshOK
    <3> QED
      BY <2>3, <3>1, <1>f, <1>n, <1>s, StateEdit DEF WroteOff
  <2> QED
    BY <2>1, <2>2, <2>3
<1>6. CASE Delete
  <2>1. /\ pc = "delete" /\ ex' = CancelAtExchange(fr.cur)
        /\ orders' = orders \/ orders' = [orders EXCEPT ![fr.cur].state = "cancelled"]
    BY <1>6 DEF Delete
  <2>2. fr.cur \in Ids => ex'[fr.cur].status # "NEW"
    BY <2>1, <1>f, CancelStep
  <2>3. CASE orders' = [orders EXCEPT ![fr.cur].state = "cancelled"]
    BY <2>2, <2>3, <1>f, <1>n, <1>s, StateEdit DEF WroteOff
  <2> QED
    BY <2>1, <2>3, <1>s
<1>7. CASE Query
  <2>1. /\ pc = "query" /\ ex' = ex
        /\ \/ orders' = orders
           \/ /\ ex[fr.cur].status \notin {"none", "FILLED"}
              /\ orders' = [orders EXCEPT ![fr.cur] = ApplyExchangeState(@, ex[fr.cur].status)]
    BY <1>7, <1>r DEF Query
  <2>2. fr.cur \in Ids /\ orders[fr.cur] \in Record /\ ex[fr.cur].status # "NEW"
    BY <2>1, <1>f DEF RealInv, WalkedOK, SideOK
  <2>3. CASE /\ ex[fr.cur].status \notin {"none", "FILLED"}
             /\ orders' = [orders EXCEPT ![fr.cur] = ApplyExchangeState(@, ex[fr.cur].status)]
    <3> DEFINE g == ApplyExchangeState(orders[fr.cur], ex[fr.cur].status)
    <3>1. ex[fr.cur].status = "CANCELED"
      BY <2>2, <2>3, <1>f DEF Placed, Statuses
    <3>2. g \in Record /\ g.state = "cancelled"
      <4>1. ex[fr.cur].status \in {"NEW", "FILLED", "CANCELED"}
        BY <3>1
      <4> QED
        BY <2>2, <3>1, <4>1, ApplyStateFacts
    <3>3. orders' = [orders EXCEPT ![fr.cur] = g]
      BY <2>2, <2>3
    <3> HIDE DEF g
    <3>4. orders'[c] = IF c = fr.cur THEN g ELSE orders[c]
      BY <3>2, <3>3, <1>f, OneRecord
    <3> QED
      BY <2>1, <2>2, <3>2, <3>4, <1>s DEF WroteOff
  <2> QED
    BY <2>1, <2>3, <1>s
<1>8. CASE Fills \/ Refill
  <2> DEFINE r == ReadFills(orders).orders
  <2>0. r \in [Ids -> Record]
    BY <1>f, ReadOrders DEF RealInv, DataReal
  <2> HIDE DEF r
  <2>1. /\ ex[c].status = "NEW" /\ r[c].state = "filled" => orders[c].state = "filled"
        /\ r[c].state \in {orders[c].state, "open", "filled"}
        /\ r[c].known = orders[c].known
        /\ r[c].state = "unknown" => orders[c].state = "unknown"
    BY ReadFate DEF r
  <2>2. ASSUME orders'[c] = r[c], ex' = ex PROVE WroteOff(c)
    BY <2>1, <2>2 DEF WroteOff, FinalStates
  <2>3. CASE Fills
    BY <2>2, <2>3 DEF Fills, r
  <2>4. CASE Refill
    <3>1. /\ pc = "refill" /\ ex' = ex
          /\ orders' = [r EXCEPT ![fr.cur] = ApplyExchangeState(@, "FILLED")]
      BY <2>4 DEF Refill, r
    <3>2. ex[fr.cur].status = "FILLED"
      BY <3>1 DEF SideOK
    <3>3. c # fr.cur => orders'[c] = r[c]
      BY <2>0, <3>1
    <3>4. c = fr.cur => WroteOff(c)
      BY <3>1, <3>2 DEF WroteOff
    <3> QED
      BY <2>2, <3>1, <3>3, <3>4
  <2> QED
    BY <1>8, <2>3, <2>4
<1>9. CASE ReconcileHistory
  BY <1>9, <1>r, <1>s DEF ReconcileHistory
<1>10. CASE GetFails \/ DeleteFails \/ CallRateLimited
  BY <1>10, <1>s DEF GetFails, DeleteFails, CallRateLimited
<1>11. CASE PostFails
  <2>1. /\ pc = "post"
        /\ \/ orders' = [orders EXCEPT ![fr.cur].state = "unknown"]
           \/ orders' = [orders EXCEPT ![fr.cur].state = "rejected"] /\ ex' = ex
    BY <1>11 DEF PostFails, Spend, Undisturbed
  <2>2. c = fr.cur => ex[c].status = "none" /\ orders[c].known = FALSE
    BY <2>1, <1>f DEF CountInv, FreshOK, RealInv, PostOK, Record
  <2>3. CASE orders' = [orders EXCEPT ![fr.cur].state = "unknown"]
    BY <2>2, <2>3, <1>f, <1>n, <1>s, StateEdit DEF WroteOff, FinalStates
  <2>4. CASE orders' = [orders EXCEPT ![fr.cur].state = "rejected"] /\ ex' = ex
    BY <2>2, <2>4, <1>f, <1>n, <1>s, StateEdit DEF WroteOff
  <2> QED
    BY <2>1, <2>3, <2>4
<1>12. CASE AuthFails \/ StopTimesOut
  BY <1>12, <1>f DEF AuthFails, StopTimesOut, Spend, Lenient, Undisturbed
<1>13. CASE SideDone
  <2>1. \/ orders' = orders
        \/ orders' = [orders EXCEPT ![next] = [NoRecord EXCEPT !.side = fr.side, !.state = "new"]]
    BY <1>13 DEF SideDone
  <2>2. fr.side \in Sides
    BY <1>f DEF Frame
  <2> QED
    BY <2>1, <2>2, <1>f, <1>s, NewRecord DEF WroteOff, FinalStates
<1> QED
  BY <1>1, <1>2, <1>3, <1>4, <1>5, <1>6, <1>7, <1>8, <1>9, <1>10, <1>11, <1>12, <1>13
     DEF Trader, Answered, Failed

\* Which steps lead to the calls and walks that OwnedOK and SideOK speak of.
Arrivals ==
    /\ pc' = "stray" => Leftovers \/ Stray \/ List
    /\ pc' = "open" => Stray
    /\ pc' = "side" => Quote \/ Resting \/ SideDone \/ Post \/ Delete \/ Query \/ Refill
    /\ pc' = "delete" => Resting \/ CancelRecorded \/ CancelRemaining
    /\ pc' = "query" => Delete
    /\ pc' = "refill" => Query
    /\ pc' = "post" => SideDone

LEMMA WhereTo ==
    ASSUME ControlInv, RealInv, RealInv', NeverReset, NeverReset', Lenient, Trader
    PROVE  /\ Arrivals
           /\ session' # "none" => session # "none" \/ StartupOpen
<1> USE DEF Goto, Enter, Calm, Local
<1> DEFINE Places == {"stray", "open", "side", "delete", "query", "refill", "post"}
           Elsewhere == pc' \notin Places
<1>f. fr \in Frame /\ authOk = TRUE /\ pc # "reset_open" /\ (fr.caller = "shutdown" => session # "none")
  BY DEF ControlInv, SessionOK, RealInv, DataReal, NeverReset
<1>w. /\ pc = "stray" => fr.then \in {"open", "resolve"}
      /\ pc = "resolve" => fr.then \in {"quote", "rec_history", "ca_return"}
      /\ pc \in {"delete", "query", "refill"} => fr.then \in {"side", "ca_orders", "ca_remaining"}
  BY DEF ControlInv, WalkOK
<1>e. Elsewhere => Arrivals
  BY DEF Arrivals
<1>n. NextSide => pc' \in {"side", "due"}
  BY DEF NextSide
<1>c. ASSUME NEW ok, NEW st, CancelAllReturns(ok, st)
      PROVE  Elsewhere /\ (session' # "none" => session # "none")
  <2>1. fr.caller \in {"iterate", "shutdown"}
    BY <1>f DEF Frame
  <2> QED
    BY <1>c, <1>f, <2>1 DEF CancelAllReturns
<1>r. ASSUME NEW kind \in {"auth", "rate", "unavailable"}, Raise(kind)
      PROVE  Elsewhere /\ (session' # "none" => session # "none")
  <2>1. pc' \in {"loop", "shutdown", "ended", "cancel_all"}
    BY <1>r, RaiseLands DEF Landed
  <2> HIDE DEF Elsewhere
  <2>2. session' # "none" => session # "none"
    BY <1>c, <1>r DEF Raise
  <2> QED
    BY <2>1, <2>2 DEF Elsewhere
<1>t. ~TestnetReset(orders)
  BY NoTestnetReset DEF NeverReset
<1> HIDE DEF Elsewhere
<1>1. CASE Loop \/ StartupAccount \/ StartupOpen \/ Iterate \/ Depth \/ Fills
  <2>1. Elsewhere
    BY <1>1 DEF Loop, StartupAccount, StartupOpen, Iterate, Depth, Fills, Elsewhere
  <2>2. session' # "none" => session # "none" \/ StartupOpen
    BY <1>1 DEF Loop, StartupAccount, Iterate, Depth, Fills
  <2> QED
    BY <1>e, <2>1, <2>2
<1>2. CASE Leftovers \/ List
  BY <1>2 DEF Leftovers, List, Arrivals
<1>3. CASE Stray
  BY <1>3, <1>w DEF Stray, Arrivals
<1>4. CASE Resolve
  BY <1>4, <1>w, <1>t, <1>e DEF Resolve, Elsewhere
<1>5. CASE Due \/ ReconcileAccount \/ StartCancelAll \/ Confirm \/ Shutdown \/ ResetAccount
  BY <1>5, <1>e DEF Due, ReconcileAccount, StartCancelAll, Confirm, Shutdown, ResetAccount, Elsewhere
<1>6. CASE Quote \/ Resting
  BY <1>6 DEF Quote, Resting, Arrivals
<1>7. CASE CancelRecorded
  BY <1>7 DEF CancelRecorded, Arrivals
<1>8. CASE SideDone
  BY <1>8, <1>n DEF SideDone, Arrivals
<1>9. CASE Post
  BY <1>9, <1>n DEF Post, Arrivals
<1>10. CASE Delete
  BY <1>10, <1>w DEF Delete, Arrivals
<1>11. CASE Query
  BY <1>11, <1>w, <1>t DEF Query, Arrivals
<1>12. CASE Refill
  BY <1>12, <1>w DEF Refill, Arrivals
<1>13. CASE ReconcileHistory
  BY <1>13, <1>t, <1>e DEF ReconcileHistory, Elsewhere
<1>14. CASE CancelRemaining
  <2>1. CASE CancelAllReturns(FALSE, "cancel_pending")
    BY <1>c, <1>e, <2>1
  <2>2. CASE /\ pc' \in {"ca_confirm", "delete", "ca_remaining"} /\ session' = session
    BY <1>14, <2>2 DEF Arrivals
  <2> QED
    BY <1>14, <2>1, <2>2 DEF CancelRemaining
<1>15. CASE CancelAllDone
  BY <1>15, <1>c, <1>e DEF CancelAllDone
<1>16. CASE ResetOpen
  BY <1>16, <1>f DEF ResetOpen
<1>17. CASE GetFails \/ DeleteFails \/ CallRateLimited \/ PostFails
  BY <1>17, <1>r, <1>e DEF GetFails, DeleteFails, CallRateLimited, PostFails
<1>18. CASE AuthFails \/ StopTimesOut
  BY <1>18, <1>f DEF AuthFails, StopTimesOut, Spend, Lenient
<1> QED
  BY <1>1, <1>2, <1>3, <1>4, <1>5, <1>6, <1>7, <1>8, <1>9, <1>10, <1>11, <1>12, <1>13, <1>14,
     <1>15, <1>16, <1>17, <1>18 DEF Trader, Answered, Failed

\* A live order after a step of the task was live before it, or is the one just sent.
LEMMA LiveAfter ==
    ASSUME ControlInv, RealInv, Lenient, CountInv, Trader, NEW c \in Live'
    PROVE  /\ c \in Ids /\ ex'[c].status = "NEW"
           /\ \/ ex'[c] = ex[c] /\ c \in Live
              \/ pc = "post" /\ c = fr.cur /\ ex'[c].side = fr.side /\ (Post \/ PostFails)
<1>1. c \in Ids /\ ex'[c].status = "NEW"
  BY DEF Live
<1>2. ex'[c] # ex[c] => pc = "post" /\ c = fr.cur /\ (Post \/ PostFails) /\ ex'[c].side = fr.side
  BY <1>1, ExFate
<1> QED
  BY <1>1, <1>2 DEF Live

LEMMA DeadDone ==
    ASSUME ControlInv, RealInv, Lenient, CountInv, DoneOK, Trader
    PROVE  DoneOK'
<1>1. tape' = tape
  <2>1. SideDone => tape' = tape
    BY DEF SideDone, Local, Calm
  <2> QED
    BY <2>1, TraderShape
<1>2. ASSUME NEW c \in Ids
      PROVE  /\ ex'[c].done = Cardinality(OnTape(c, 1, Len(tape)))
             /\ ex'[c].status = "NEW" => ex'[c].done < Size
  <2>1. CASE ex'[c].done = ex[c].done /\ (ex'[c].status = "NEW" => ex[c].status = "NEW")
    BY <2>1 DEF DoneOK
  <2>2. CASE pc = "post" /\ c = fr.cur /\ ex'[c].done = 0
    <3>1. \A i \in 1..Len(tape) : tape[i] # c
      BY <2>2 DEF CountInv, FreshOK
    <3>2. Len(tape) \in Int
      BY DEF RealInv, DataReal, LedgerOK
    <3>3. Cardinality(OnTape(c, 1, Len(tape))) = 0
      BY <3>1, <3>2, OnTapeEmpty
    <3> QED
      BY <2>2, <3>3, TraderConstants
  <2> QED
    BY <2>1, <2>2, ExFate
<1> QED
  BY <1>1, <1>2 DEF DoneOK, OnTape

LEMMA DeadRecords ==
    ASSUME ControlInv, RealInv, RealInv', Undisturbed, CountInv, DeadInv, NeverReset', Trader
    PROVE  UnknownOK' /\ WrittenOffIsDead' /\ OneOrderPerSide'
<1>0. Lenient /\ NeverReset /\ DoneOK /\ SideOK /\ UnknownOK /\ WrittenOffIsDead /\ OneOrderPerSide
  BY DEF DeadInv, Undisturbed
<1>1. ASSUME NEW c \in Ids PROVE WroteOff(c)
  BY <1>0, RecordFate
<1>2. UnknownOK'
  <2>1. ASSUME NEW c \in Ids, orders'[c].state = "unknown", orders'[c].known
        PROVE  ex'[c].status = "FILLED"
    <3>1. (orders[c].state = "unknown" /\ orders[c].known) \/ ex'[c].status = "FILLED"
      BY <1>1, <2>1 DEF WroteOff
    <3>2. ex[c].status = "FILLED" => ex'[c] = ex[c]
      BY <1>0, ExFate
    <3> QED
      BY <1>0, <3>1, <3>2 DEF UnknownOK
  <2> QED
    BY <2>1 DEF UnknownOK
<1>3. WrittenOffIsDead'
  <2>1. ASSUME NEW c \in Live' PROVE orders'[c].state \notin FinalStates
    <3>1. /\ c \in Ids /\ ex'[c].status = "NEW"
          /\ c \in Live \/ (pc = "post" /\ c = fr.cur)
      BY <1>0, LiveAfter
    <3>2. orders[c].state \notin FinalStates
      BY <1>0, <3>1 DEF WrittenOffIsDead, RealInv, PostOK, FinalStates
    <3> QED
      BY <1>1, <3>1, <3>2 DEF WroteOff
  <2> QED
    BY <2>1 DEF WrittenOffIsDead
<1>4. OneOrderPerSide'
  <2>1. ASSUME NEW c \in Live', NEW d \in Live', ex'[c].side = ex'[d].side PROVE c = d
    <3>1. /\ \/ ex'[c] = ex[c] /\ c \in Live
             \/ pc = "post" /\ c = fr.cur /\ ex'[c].side = fr.side
          /\ \/ ex'[d] = ex[d] /\ d \in Live
             \/ pc = "post" /\ d = fr.cur /\ ex'[d].side = fr.side
      BY <1>0, LiveAfter
    <3>2. pc = "post" => \A e \in Live : ex[e].side # fr.side
      BY <1>0 DEF SideOK
    <3> QED
      BY <1>0, <2>1, <3>1, <3>2 DEF OneOrderPerSide
  <2> QED
    BY <2>1 DEF OneOrderPerSide
<1> QED
  BY <1>2, <1>3, <1>4

LEMMA DeadOwned ==
    ASSUME ControlInv, RealInv, RealInv', Undisturbed, CountInv, DeadInv, NeverReset', Trader
    PROVE  OwnedOK'
<1>0. /\ Lenient /\ NeverReset /\ OwnedOK /\ fr \in Frame /\ next \in Nat
      /\ ex \in [Ids -> Placed] /\ orders \in [Ids -> Record]
      /\ fr.todo \in SUBSET Ids
  BY DEF DeadInv, Undisturbed, ControlInv, RealInv, DataReal, Frame
<1>1. Arrivals /\ (session' # "none" => session # "none" \/ StartupOpen)
  BY <1>0, WhereTo
<1>2. ASSUME session' # "none", NEW c \in Live'
      PROVE  orders'[c].state # "none" /\ orders'[c].side = ex'[c].side
  <2>1. /\ c \in Ids /\ ex'[c].status = "NEW"
        /\ \/ ex'[c] = ex[c] /\ c \in Live
           \/ pc = "post" /\ c = fr.cur /\ ex'[c].side = fr.side
    BY <1>0, LiveAfter
  <2>2. ~StartupOpen
    BY <1>0, <2>1 DEF StartupOpen, OwnedOK
  <2>3. orders[c].state # "none" /\ orders[c].side = ex'[c].side
    BY <1>0, <1>1, <1>2, <2>1, <2>2 DEF OwnedOK, RealInv, PostOK
  <2>4. CASE SideDone
    <3>1. /\ ex' = ex
          /\ \/ orders' = orders
             \/ orders' = [orders EXCEPT ![next] = [NoRecord EXCEPT !.side = fr.side, !.state = "new"]]
      BY <2>4 DEF SideDone, Local
    <3>2. c # next
      BY <1>0, <2>1, <3>1 DEF CountInv, FreshOK
    <3>3. fr.side \in Sides
      BY <1>0 DEF Frame
    <3> QED
      BY <1>0, <2>1, <2>3, <3>1, <3>2, <3>3, NewRecord
  <2>5. CASE ~SideDone
    <3>1. ~ResetOpen
      BY <1>0 DEF ResetOpen, NeverReset
    <3>2. RecordsKeep \/ Fills \/ Refill
      BY <1>0, <2>2, <2>5, <3>1, RecordShape
    <3>3. Fills \/ Refill => /\ orders'[c].side = orders[c].side
                             /\ orders[c].state = "none" <=> orders'[c].state = "none"
      BY <2>1, ReadShape DEF CountInv
    <3> QED
      BY <2>1, <2>3, <3>2, <3>3 DEF RecordsKeep
  <2> QED
    BY <2>4, <2>5
<1>3. ASSUME Stray
      PROVE  /\ pc' = "stray" /\ fr'.then = "open" => Live' \subseteq fr'.todo
             /\ pc' = "open" => Live' = {}
  <2>1. pc = "stray" /\ fr.then \in {"open", "resolve"}
    BY <1>3 DEF Stray, ControlInv, WalkOK
  <2>2. CASE fr.todo # {}
    <3> DEFINE d == Min(fr.todo)
    <3>1. d \in fr.todo
      BY <1>0, <2>2, MinInside
    <3>2. ex' = CancelAtExchange(d) /\ pc' = "stray" /\ fr' = [fr EXCEPT !.todo = @ \ {d}]
      BY <1>3, <2>2 DEF Stray, Enter
    <3> HIDE DEF d
    <3>3. fr'.todo = fr.todo \ {d} /\ fr'.then = fr.then
      BY <1>0, <3>2, StepOver
    <3>4. \A c \in Live' : c \in Live /\ c # d
      BY <1>0, <3>1, <3>2, CancelStep DEF Live
    <3> QED
      BY <1>0, <2>1, <3>2, <3>3, <3>4 DEF OwnedOK
  <2>3. CASE fr.todo = {}
    <3>1. ex' = ex /\ pc' = fr.then
      BY <1>3, <2>3 DEF Stray, Enter
    <3> QED
      BY <1>0, <2>1, <2>3, <3>1 DEF OwnedOK, Live
  <2> QED
    BY <2>2, <2>3
<1>4. CASE Leftovers
  <2>1. ex' = ex /\ pc' = "stray" /\ fr' = [fr EXCEPT !.todo = Live, !.then = "open"]
    BY <1>4 DEF Leftovers, Local, Enter
  <2>2. fr'.todo = Live
    BY <1>0, <2>1 DEF Frame
  <2> QED
    BY <1>2, <2>1, <2>2 DEF OwnedOK, Live
<1>5. CASE List
  <2>1. /\ pc' = "stray"
        /\ fr' = [fr EXCEPT !.listed = Live, !.then = "resolve",
                            !.todo = {c \in Live : orders[c].state = "none"}]
    BY <1>5 DEF List, Enter
  <2>2. fr'.then = "resolve"
    BY <1>0, <2>1 DEF Frame
  <2> QED
    BY <1>2, <2>1, <2>2 DEF OwnedOK
<1> QED
  BY <1>1, <1>2, <1>3, <1>4, <1>5 DEF OwnedOK, Arrivals

\* The records of a session list every live order.
LEMMA LiveIsOpen ==
    ASSUME RealInv, DeadInv, session # "none", NEW c \in Live
    PROVE  c \in OpenRecords /\ orders[c].side = ex[c].side
<1>1. c \in Ids /\ orders[c].state \in RecordStates
  BY DEF Live, RealInv, DataReal, Record
<1>2. orders[c].state # "none" /\ orders[c].state \notin FinalStates /\ orders[c].side = ex[c].side
  BY DEF DeadInv, OwnedOK, WrittenOffIsDead
<1> QED
  BY <1>1, <1>2 DEF RecordStates, OpenRecords

\* The walk over the resting orders of a side goes on.
LEMMA DeadWalk ==
    ASSUME RealInv, SideOK, Walks("side"), fr'.side = fr.side, fr.kept => fr'.kept,
           ex' = ex \/ ex' = CancelAtExchange(fr.cur),
           \A c \in fr.todo : \/ c \in fr'.todo \/ orders[c].state = "unknown" \/ fr'.kept
                              \/ (pc' = "delete" /\ c = fr'.cur),
           pc = "delete" => ex' = CancelAtExchange(fr.cur),
           \A c \in Live' : orders[c].state = "unknown" => orders'[c].state = "unknown"
    PROVE  \A c \in Live' : ex'[c].side = fr'.side =>
             \/ c \in fr'.todo \/ orders'[c].state = "unknown" \/ fr'.kept
             \/ (pc' = "delete" /\ c = fr'.cur)
<1>0. ex \in [Ids -> Placed]
  BY DEF RealInv, DataReal
<1> SUFFICES ASSUME NEW c \in Live', ex'[c].side = fr'.side
             PROVE  \/ c \in fr'.todo \/ orders'[c].state = "unknown" \/ fr'.kept
                    \/ (pc' = "delete" /\ c = fr'.cur)
  OBVIOUS
<1>1. c \in Live /\ ex[c].side = ex'[c].side /\ (pc = "delete" => c # fr.cur)
  BY <1>0, CancelStep DEF Live
<1> QED
  BY <1>1 DEF SideOK

LEMMA DeadSide ==
    ASSUME ControlInv, RealInv, RealInv', Undisturbed, CountInv, DeadInv, NeverReset', Trader
    PROVE  SideOK'
<1> DEFINE Covered ==
        \A c \in Live' : ex'[c].side = fr'.side =>
          \/ c \in fr'.todo \/ orders'[c].state = "unknown" \/ fr'.kept
          \/ (pc' = "delete" /\ c = fr'.cur)
<1>0. /\ Lenient /\ NeverReset /\ OwnedOK /\ SideOK /\ UnknownOK /\ DoneOK /\ fr \in Frame
      /\ ex \in [Ids -> Placed] /\ orders \in [Ids -> Record]
      /\ fr.todo \in SUBSET Ids /\ fr.side \in Sides
  BY DEF DeadInv, Undisturbed, ControlInv, RealInv, DataReal, Frame
<1>1. Arrivals
  BY <1>0, WhereTo
<1>2. pc \in {"quote", "side", "post", "delete", "query", "refill"} => session # "none"
  BY DEF ControlInv, SessionOK, Starting, Cleared, Outside
<1>3. ASSUME NEW c \in Live, session # "none" PROVE c \in OpenRecords /\ orders[c].side = ex[c].side
  BY <1>3, LiveIsOpen
<1>m. fr.todo # {} => Min(fr.todo) \in fr.todo
  BY <1>0, MinInside
\* The first side, and then the other one.
<1>4. CASE Quote
  <2>1. /\ pc = "quote" /\ pc' = "side" /\ ex' = ex
        /\ \E targets : fr' = [fr EXCEPT !.targets = targets, !.side = "bid", !.kept = FALSE,
                                 !.todo = {c \in OpenRecords : orders[c].side = "bid"}]
    BY <1>4 DEF Quote, Enter, Local
  <2>2. fr'.side = "bid" /\ fr'.todo = {c \in OpenRecords : orders[c].side = "bid"}
    BY <1>0, <2>1 DEF Frame
  <2>3. Live' = Live
    BY <2>1 DEF Live
  <2> QED
    BY <1>2, <1>3, <2>1, <2>2, <2>3 DEF SideOK
<1>5. ASSUME NextSide, pc \in {"side", "post"},
             \A c \in Live' : \/ ex'[c] = ex[c] /\ c \in Live
                              \/ ex'[c].side = fr.side
      PROVE  SideOK'
  <2>1. \/ /\ pc' = "side" /\ fr.side = "bid" /\ fr'.side = "ask"
           /\ fr'.todo = {c \in OpenRecords : orders[c].side = "ask"}
        \/ pc' = "due"
    BY <1>0, <1>5, NextSideFacts
  <2>2. CASE pc' = "due"
    BY <2>2 DEF SideOK, Walks
  <2>3. CASE /\ pc' = "side" /\ fr.side = "bid" /\ fr'.side = "ask"
             /\ fr'.todo = {c \in OpenRecords : orders[c].side = "ask"}
    <3>1. \A c \in Live' : ex'[c].side = "ask" => c \in fr'.todo
      BY <1>2, <1>3, <1>5, <2>3
    <3> QED
      BY <2>3, <3>1 DEF SideOK
  <2> QED
    BY <2>1, <2>2, <2>3
<1>6. CASE Post
  <2>1. NextSide /\ pc = "post"
    BY <1>6 DEF Post
  <2>2. \A c \in Live' : (ex'[c] = ex[c] /\ c \in Live) \/ ex'[c].side = fr.side
    BY <1>0, LiveAfter
  <2> QED
    BY <1>5, <2>1, <2>2
<1>7. CASE SideDone
  <2>1. pc = "side" /\ fr.todo = {} /\ ex' = ex
    BY <1>7 DEF SideDone, Local
  <2>2. Live' = Live
    BY <2>1 DEF Live
  <2>3. CASE ~WantsPlace
    <3>1. NextSide
      BY <1>7, <2>3 DEF SideDone
    <3> QED
      BY <1>5, <2>1, <2>2, <3>1
  <2>4. CASE WantsPlace
    <3>1. pc' = "post" /\ fr' = [fr EXCEPT !.cur = next]
      BY <1>7, <2>4 DEF SideDone, Enter
    <3>2. fr'.side = fr.side
      BY <1>0, <3>1 DEF Frame
    <3>3. ASSUME NEW c \in Live, ex[c].side = fr.side PROVE FALSE
      <4>1. c \in Ids /\ orders[c].side = fr.side
        BY <1>2, <1>3, <2>1, <3>3 DEF Live
      <4>2. orders[c].state # "unknown" /\ ~fr.kept
        BY <2>4, <4>1 DEF WantsPlace
      <4> QED
        BY <1>0, <2>1, <3>3, <4>2 DEF SideOK, Walks
    <3> QED
      BY <2>1, <2>2, <3>1, <3>2, <3>3 DEF SideOK, Walks
  <2> QED
    BY <2>3, <2>4
\* The walk over one side.
<1>8. CASE Resting
  <2> DEFINE d == Min(fr.todo)
  <2>1. pc = "side" /\ fr.todo # {} /\ ex' = ex /\ orders' = orders
    BY <1>8 DEF Resting, Local
  <2>2. \/ /\ orders[d].state = "unknown" /\ pc' = "side" /\ fr' = [fr EXCEPT !.todo = @ \ {d}]
        \/ /\ pc' = "delete"
           /\ fr' = [[fr EXCEPT !.todo = @ \ {d}] EXCEPT !.cur = d, !.then = "side"]
        \/ pc' = "side" /\ fr' = [[fr EXCEPT !.todo = @ \ {d}] EXCEPT !.kept = TRUE]
    BY <1>8 DEF Resting, Enter
  <2> HIDE DEF d
  <2>3. /\ pc' \in {"side", "delete"} /\ fr'.todo = fr.todo \ {d} /\ fr'.side = fr.side
        /\ fr.kept => fr'.kept
        /\ \/ orders[d].state = "unknown" \/ fr'.kept \/ (pc' = "delete" /\ d = fr'.cur)
    BY <1>0, <2>2, StepOver, KeepOver, TurnTo
  <2>4. Covered
    <3>1. Walks("side")
      BY <2>1 DEF Walks
    <3>2. \A c \in fr.todo : \/ c \in fr'.todo \/ orders[c].state = "unknown" \/ fr'.kept
                             \/ (pc' = "delete" /\ c = fr'.cur)
      BY <2>3
    <3> QED
      BY <1>0, <2>1, <2>3, <3>1, <3>2, DeadWalk
  <2> QED
    BY <2>3, <2>4 DEF SideOK
<1>9. ASSUME fr.then = "side", pc \in {"delete", "query", "refill"},
             fr' = fr \/ fr' = [fr EXCEPT !.then = ""],
             ex' = ex \/ ex' = CancelAtExchange(fr.cur),
             pc = "delete" => ex' = CancelAtExchange(fr.cur),
             \A c \in Live' : orders[c].state = "unknown" => orders'[c].state = "unknown"
      PROVE  Covered
  <2>1. /\ fr'.side = fr.side /\ fr'.todo = fr.todo /\ fr'.kept = fr.kept
    BY <1>0, <1>9 DEF Frame
  <2>2. Walks("side")
    BY <1>9 DEF Walks
  <2>3. fr.kept => fr'.kept
    BY <2>1
  <2>4. \A c \in fr.todo : \/ c \in fr'.todo \/ orders[c].state = "unknown" \/ fr'.kept
                           \/ (pc' = "delete" /\ c = fr'.cur)
    BY <2>1
  <2> QED
    BY <1>0, <1>9, <2>1, <2>2, <2>3, <2>4, DeadWalk
<1>10. ASSUME fr' = [fr EXCEPT !.then = ""], pc \in {"delete", "query", "refill"},
              pc' = fr.then, fr.then = "side" => Covered
       PROVE  SideOK'
  <2>1. fr.then \in {"side", "ca_orders", "ca_remaining"}
    BY <1>10 DEF ControlInv, WalkOK
  <2> HIDE DEF Covered
  <2> QED
    BY <1>10, <2>1 DEF SideOK, Walks, Covered
<1>11. CASE Delete
  <2>1. /\ pc = "delete" /\ ex' = CancelAtExchange(fr.cur)
        /\ \/ /\ ex[fr.cur].status = "NEW" /\ pc' = fr.then /\ fr' = [fr EXCEPT !.then = ""]
              /\ orders' = [orders EXCEPT ![fr.cur].state = "cancelled"]
           \/ pc' = "query" /\ fr' = fr /\ orders' = orders
    BY <1>11 DEF Delete, Goto, Enter
  <2>2. fr.cur \in Ids /\ ex'[fr.cur].status # "NEW"
    <3>1. fr.cur \in Ids
      BY <2>1 DEF RealInv, WalkedOK
    <3> QED
      BY <1>0, <2>1, <3>1, CancelStep
  <2>3. \A c \in Ids : c # fr.cur => orders'[c] = orders[c]
    <3>1. "cancelled" \in RecordStates
      BY StateNames
    <3> QED
      BY <1>0, <2>1, <3>1, StateEdit
  <2>4. \A c \in Live' : orders[c].state = "unknown" => orders'[c].state = "unknown"
    BY <2>2, <2>3 DEF Live
  <2>5. fr.then = "side" => Covered
    BY <1>9, <2>1, <2>4
  <2> HIDE DEF Covered
  <2>6. CASE pc' = fr.then /\ fr' = [fr EXCEPT !.then = ""]
    BY <1>10, <2>1, <2>5, <2>6
  <2>7. CASE pc' = "query" /\ fr' = fr
    BY <2>2, <2>5, <2>7 DEF SideOK, Walks, Covered
  <2> QED
    BY <2>1, <2>6, <2>7
<1>12. CASE Query
  <2>1. /\ pc = "query" /\ ex' = ex
        /\ \/ ex[fr.cur].status = "FILLED" /\ pc' = "refill" /\ fr' = fr /\ orders' = orders
           \/ /\ pc' = fr.then /\ fr' = [fr EXCEPT !.then = ""]
              /\ orders' = [orders EXCEPT ![fr.cur] = ApplyExchangeState(@, ex[fr.cur].status)]
    <3>1. ~TestnetReset(orders)
      BY <1>0, NoTestnetReset DEF NeverReset
    <3> QED
      BY <1>12, <3>1 DEF Query, Goto, Enter, Local
  <2>2. ex[fr.cur].status # "NEW"
    BY <1>0, <2>1 DEF SideOK
  <2>3. \A c \in Ids : c # fr.cur => orders'[c] = orders[c]
    BY <1>0, <2>1
  <2>4. \A c \in Live' : orders[c].state = "unknown" => orders'[c].state = "unknown"
    BY <2>1, <2>2, <2>3 DEF Live
  <2>5. fr.then = "side" => Covered
    BY <1>9, <2>1, <2>4
  <2> HIDE DEF Covered
  <2>6. CASE pc' = fr.then /\ fr' = [fr EXCEPT !.then = ""]
    BY <1>10, <2>1, <2>5, <2>6
  <2>7. CASE ex[fr.cur].status = "FILLED" /\ pc' = "refill" /\ fr' = fr
    BY <2>1, <2>5, <2>7 DEF SideOK, Walks, Covered
  <2> QED
    BY <2>1, <2>6, <2>7
<1>13. CASE Refill
  <2> DEFINE r == ReadFills(orders).orders
  <2>1. /\ pc = "refill" /\ ex' = ex /\ pc' = fr.then /\ fr' = [fr EXCEPT !.then = ""]
        /\ orders' = [r EXCEPT ![fr.cur] = ApplyExchangeState(@, "FILLED")]
    BY <1>13 DEF Refill, Enter
  <2>2. r \in [Ids -> Record]
    BY <1>0, ReadOrders DEF RealInv, DataReal
  <2>3. \A c \in Ids : ~orders[c].known => r[c] = orders[c]
    BY <1>0, ReadFate
  <2> HIDE DEF r
  <2>4. ex[fr.cur].status = "FILLED"
    BY <1>0, <2>1 DEF SideOK
  <2>5. ASSUME NEW c \in Live', orders[c].state = "unknown" PROVE orders'[c].state = "unknown"
    <3>1. c \in Ids /\ ex[c].status = "NEW"
      BY <2>1, <2>5 DEF Live
    <3>2. ~orders[c].known
      BY <1>0, <2>5, <3>1 DEF UnknownOK
    <3>3. orders'[c] = r[c]
      BY <2>1, <2>2, <2>4, <3>1
    <3> QED
      BY <2>3, <2>5, <3>1, <3>2, <3>3
  <2>6. fr.then = "side" => Covered
    BY <1>9, <2>1, <2>5
  <2> HIDE DEF Covered
  <2> QED
    BY <1>10, <2>1, <2>6
\* cancel_all walks no side.
<1>14. CASE CancelRecorded \/ CancelRemaining
  <2>1. pc \in {"ca_orders", "ca_remaining"}
    BY <1>14 DEF CancelRecorded, CancelRemaining
  <2>2. pc' \notin {"side", "query", "refill", "post"}
    BY <1>1, <2>1 DEF Arrivals, Quote, Resting, SideDone, Post, Delete, Query, Refill
  <2>3. pc' = "delete" => fr'.then # "side"
    <3> DEFINE d == Min(fr.todo)
    <3>1. pc' = "delete" =>
            \E t \in {"ca_orders", "ca_remaining"} :
               fr' = [[fr EXCEPT !.todo = @ \ {d}] EXCEPT !.cur = d, !.then = t]
      <4>1. CancelRemaining /\ pc' = "delete" => ~CancelAllReturns(FALSE, "cancel_pending")
        BY CancelAllLands DEF Landed
      <4> QED
        BY <1>14, <4>1 DEF CancelRecorded, CancelRemaining, Enter, Goto
    <3> HIDE DEF d
    <3> QED
      BY <1>0, <3>1, TurnTo
  <2> QED
    BY <2>2, <2>3 DEF SideOK, Walks
<1> QED
  <2>1. CASE pc' \notin {"side", "delete", "query", "refill", "post"}
    BY <2>1 DEF SideOK, Walks
  <2> QED
    BY <1>1, <1>4, <1>6, <1>7, <1>8, <1>11, <1>12, <1>13, <1>14, <2>1 DEF Arrivals

\* A trade is one more unit of its order.
LEMMA FillDone ==
    ASSUME LedgerOK, NEW d \in Ids, tape' = Append(tape, d), NEW c \in Ids
    PROVE  Cardinality({i \in 1..Len(tape') : tape'[i] = c})
             = Cardinality(OnTape(c, 1, Len(tape))) + (IF c = d THEN 1 ELSE 0)
<1> DEFINE S == OnTape(c, 1, Len(tape))
           T == {i \in 1..Len(tape') : tape'[i] = c}
           x == Len(tape) + 1
<1>1. /\ Len(tape) \in Nat /\ Len(tape') = x /\ tape'[x] = d
      /\ \A i \in 1..Len(tape) : tape'[i] = tape[i]
  BY DEF LedgerOK
<1>2. IsFiniteSet(S) /\ Cardinality(S) \in Nat
  BY <1>1, OnTapeFinite
<1>3. x \notin S /\ T = IF c = d THEN S \union {x} ELSE S
  <2>1. 1..Len(tape') = (1..Len(tape)) \union {x} /\ x \notin 1..Len(tape)
    BY <1>1
  <2> QED
    BY <1>1, <2>1 DEF OnTape
<1> HIDE DEF S, T, x
<1>4. Cardinality(S \union {x}) = Cardinality(S) + 1
  BY <1>2, <1>3, FS_AddElement
<1>5. Cardinality(T) = Cardinality(S) + (IF c = d THEN 1 ELSE 0)
  BY <1>2, <1>3, <1>4
<1> QED
  BY <1>5 DEF S, T

LEMMA DeadFill ==
    ASSUME RealInv, DeadInv, NeverReset', Fill
    PROVE  DeadInv'
<1>0. /\ LedgerOK /\ ex \in [Ids -> Placed] /\ DoneOK /\ UnknownOK /\ WrittenOffIsDead /\ OwnedOK
      /\ SideOK /\ OneOrderPerSide
  BY DEF RealInv, DataReal, DeadInv
<1>1. PICK d \in Live :
        /\ ex' = [ex EXCEPT ![d].done = @ + 1,
                            ![d].status = IF ex[d].done + 1 = Size THEN "FILLED" ELSE @]
        /\ tape' = Append(tape, d)
  BY DEF Fill
<1>2. UNCHANGED << pc, fr, orders, session >>
  BY DEF Fill, Still
<1>3. d \in Ids /\ ex[d].status = "NEW"
  BY DEF Live
<1>4. /\ \A c \in Ids : c # d => ex'[c] = ex[c]
      /\ \A c \in Ids : ex'[c].side = ex[c].side
      /\ ex'[d].done = ex[d].done + 1
      /\ ex'[d].status = IF ex[d].done + 1 = Size THEN "FILLED" ELSE "NEW"
  BY <1>0, <1>1, FillStep
<1>5. \A c \in Live' : c \in Live /\ c \in Ids
  BY <1>3, <1>4 DEF Live
<1>6. DoneOK'
  <2>1. ASSUME NEW c \in Ids
        PROVE  /\ ex'[c].done = Cardinality({i \in 1..Len(tape') : tape'[i] = c})
               /\ ex'[c].status = "NEW" => ex'[c].done < Size
    <3>1. Cardinality({i \in 1..Len(tape') : tape'[i] = c})
            = Cardinality(OnTape(c, 1, Len(tape))) + (IF c = d THEN 1 ELSE 0)
      BY <1>0, <1>1, <1>3, FillDone
    <3>2. /\ ex[c].done = Cardinality(OnTape(c, 1, Len(tape))) /\ ex[c].done \in Nat
          /\ ex[c].status = "NEW" => ex[c].done < Size
      BY <1>0 DEF DoneOK, Placed
    <3>3. CASE c = d
      BY <1>3, <1>4, <3>1, <3>2, <3>3, TraderConstants
    <3>4. CASE c # d
      BY <1>4, <3>1, <3>2, <3>4
    <3> QED
      BY <3>3, <3>4
  <2> QED
    BY <2>1 DEF DoneOK, OnTape
<1>7. UnknownOK' /\ WrittenOffIsDead' /\ OwnedOK' /\ OneOrderPerSide'
  <2>1. UnknownOK'
    BY <1>0, <1>2, <1>3, <1>4 DEF UnknownOK
  <2>2. WrittenOffIsDead'
    BY <1>0, <1>2, <1>5 DEF WrittenOffIsDead
  <2>3. OwnedOK'
    BY <1>0, <1>2, <1>4, <1>5 DEF OwnedOK
  <2>4. OneOrderPerSide'
    BY <1>0, <1>4, <1>5 DEF OneOrderPerSide
  <2> QED
    BY <2>1, <2>2, <2>3, <2>4
<1>8. SideOK'
  <2>1. pc \in {"query", "refill"} => fr.cur \in Ids /\ fr.cur # d
    BY <1>0, <1>3 DEF SideOK, RealInv, WalkedOK
  <2>2. /\ pc = "query" => ex'[fr.cur].status # "NEW"
        /\ pc = "refill" => ex'[fr.cur].status = "FILLED"
    BY <1>0, <1>4, <2>1 DEF SideOK
  <2>3. Walks("side")' => Walks("side")
    BY <1>2 DEF Walks
  <2> QED
    BY <1>0, <1>2, <1>4, <1>5, <2>2, <2>3 DEF SideOK
<1> QED
  BY <1>6, <1>7, <1>8 DEF DeadInv

LEMMA DeadCrash ==
    ASSUME RealInv, CountInv, DeadInv, NeverReset', Crash
    PROVE  DeadInv'
<1>0. /\ LedgerOK /\ ex \in [Ids -> Placed] /\ orders \in [Ids -> Record] /\ DoneOK /\ SideOK
      /\ OneOrderPerSide
  BY DEF RealInv, DataReal, DeadInv
<1>1. /\ ex' = ex \/ (pc = "post" /\ ex' = PlaceAtExchange(fr.cur))
      /\ tape' = tape
      /\ pc' = "loop" /\ session' = "none" /\ \A c \in Ids : orders'[c] = NoRecord
  BY DEF Crash
<1>2. UnknownOK' /\ WrittenOffIsDead' /\ OwnedOK' /\ SideOK'
  BY <1>1, NoRecordFacts DEF UnknownOK, WrittenOffIsDead, OwnedOK, SideOK, Walks, FinalStates, Live
<1>3. CASE ex' = ex
  <2>1. DoneOK'
    BY <1>0, <1>1, <1>3 DEF DoneOK, OnTape
  <2>2. OneOrderPerSide'
    BY <1>0, <1>3 DEF OneOrderPerSide, Live
  <2> QED
    BY <1>2, <2>1, <2>2 DEF DeadInv
<1>4. CASE pc = "post" /\ ex' = PlaceAtExchange(fr.cur)
  <2>1. /\ \A c \in Ids : c # fr.cur => ex'[c] = ex[c]
        /\ fr.cur \in Ids => ex'[fr.cur].done = 0 /\ ex'[fr.cur].side = orders[fr.cur].side
    BY <1>0, <1>4, PlaceStep
  <2>2. fr.cur \in Ids => orders[fr.cur].side = fr.side /\ \A i \in 1..Len(tape) : tape[i] # fr.cur
    BY <1>4 DEF CountInv, FreshOK, RealInv, PostOK
  <2>3. DoneOK'
    <3>1. ASSUME NEW c \in Ids
          PROVE  /\ ex'[c].done = Cardinality(OnTape(c, 1, Len(tape)))
                 /\ ex'[c].status = "NEW" => ex'[c].done < Size
      <4>1. CASE c # fr.cur
        BY <1>0, <2>1, <4>1 DEF DoneOK
      <4>2. CASE c = fr.cur
        <5>1. Len(tape) \in Int
          BY <1>0 DEF LedgerOK
        <5>2. Cardinality(OnTape(c, 1, Len(tape))) = 0
          BY <2>2, <4>2, <5>1, OnTapeEmpty
        <5> QED
          BY <2>1, <4>2, <5>2, TraderConstants
      <4> QED
        BY <4>1, <4>2
    <3> QED
      BY <1>1, <3>1 DEF DoneOK, OnTape
  <2>4. \A c \in Live' : (ex'[c] = ex[c] /\ c \in Live) \/ (c = fr.cur /\ ex'[c].side = fr.side)
    BY <2>1, <2>2 DEF Live
  <2>5. OneOrderPerSide'
    BY <1>0, <1>4, <2>4 DEF OneOrderPerSide, SideOK
  <2> QED
    BY <1>2, <2>3, <2>5 DEF DeadInv
<1> QED
  BY <1>1, <1>3, <1>4

LEMMA DeadStep ==
    ASSUME ControlInv, RealInv, RealInv', Undisturbed, CountInv, DeadInv, [Next]_vars
    PROVE  DeadInv'
<1>1. Lenient /\ NeverReset /\ DoneOK
  BY DEF Undisturbed, DeadInv
<1>2. NeverReset'
  BY <1>1, NeverResetStep
<1>3. CASE Trader
  BY <1>1, <1>2, <1>3, DeadDone, DeadRecords, DeadOwned, DeadSide DEF DeadInv
<1>4. CASE Fill
  BY <1>2, <1>4, DeadFill
<1>5. CASE Crash
  BY <1>2, <1>5, DeadCrash
<1>6. CASE ToggleKill \/ Stop \/ RevokeKeys \/ UNCHANGED vars
  <2>1. UNCHANGED << ex, pc, fr, orders, session, tape >>
    BY <1>6 DEF ToggleKill, Stop, RevokeKeys, Still, vars
  <2>2. DoneOK' /\ UnknownOK'
    BY <2>1 DEF DeadInv, DoneOK, UnknownOK, OnTape
  <2>3. WrittenOffIsDead' /\ OneOrderPerSide'
    BY <2>1 DEF DeadInv, WrittenOffIsDead, OneOrderPerSide, Live
  <2>4. OwnedOK' /\ SideOK'
    BY <2>1 DEF DeadInv, OwnedOK, SideOK, Walks, Live
  <2> QED
    BY <1>2, <2>2, <2>3, <2>4 DEF DeadInv
<1>7. ~ExchangeReset
  BY <1>1 DEF ExchangeReset, NeverReset
<1> QED
  BY <1>3, <1>4, <1>5, <1>6, <1>7 DEF Next, World, Ended

LEMMA DeadInit == ASSUME MaxResets = 0 PROVE Init => DeadInv
<1> SUFFICES ASSUME Init PROVE DeadInv
  OBVIOUS
<1>1. /\ ex = [c \in Ids |-> NoOrder] /\ tape = << >> /\ wiped = FALSE /\ pc = "loop"
      /\ orders = [c \in Ids |-> NoRecord] /\ session = "none"
      /\ left = [faults |-> MaxFaults, kills |-> MaxKills, resets |-> MaxResets, crashes |-> MaxCrashes]
  BY DEF Init
<1>2. NeverReset
  BY <1>1, TraderConstants DEF NeverReset
<1>3. Live = {}
  BY <1>1, NoRecordFacts DEF Live
<1>4. DoneOK
  <2>1. ASSUME NEW c \in Ids PROVE Cardinality(OnTape(c, 1, Len(tape))) = 0
    <3>1. Len(tape) \in Int /\ 1..Len(tape) = {}
      BY <1>1
    <3> QED
      BY <3>1, OnTapeEmpty
  <2> QED
    BY <1>1, <2>1, NoRecordFacts DEF DoneOK
<1>5. UnknownOK
  BY <1>1, NoRecordFacts DEF UnknownOK
<1> QED
  BY <1>1, <1>2, <1>3, <1>4, <1>5 DEF DeadInv, WrittenOffIsDead, OneOrderPerSide, OwnedOK, SideOK, Walks

\* What the records and the exchange agree on while the exchange is not reset: an order
\* has as many units done as it has trades, the session's records list every live order,
\* and the side loop of _quote has met every live order of its side before it places.
THEOREM TraderAgrees == ASSUME Undisturbed PROVE Spec => []DeadInv
<1>1. ControlInv /\ RealInv /\ RealInv' /\ CountInv /\ DeadInv /\ [Next]_vars => DeadInv'
  BY DeadStep
<1>2. (Spec => []RealInv) /\ (Spec => []CountInv)
  BY TraderReal, TraderCounts DEF Undisturbed, Lenient
<1>3. Init => DeadInv
  BY DeadInit DEF Undisturbed
<1> QED
  BY <1>1, <1>2, <1>3, TraderControl, PTL DEF Spec

\* At most one lab order per side is live at the exchange, however many GETs, DELETEs
\* and POSTs fail or time out, orders fill and processes crash.
THEOREM TraderOneOrderPerSide == ASSUME Undisturbed PROVE Spec => []OneOrderPerSide
<1>1. DeadInv => OneOrderPerSide
  BY DEF DeadInv
<1> QED
  BY <1>1, TraderAgrees, PTL

\* Nothing the trader has written off as filled, cancelled or rejected can still trade.
THEOREM TraderWrittenOffIsDead == ASSUME Undisturbed PROVE Spec => []WrittenOffIsDead
<1>1. DeadInv => WrittenOffIsDead
  BY DEF DeadInv
<1> QED
  BY <1>1, TraderAgrees, PTL

-----------------------------------------------------------------------------
\* What _read_fills does to the virtual balance: a fold over the trades it has not read.

\* A set that holds 0, and the next of each of its numbers below n, holds all up to n.
LEMMA UpTo ==
    ASSUME NEW n \in Nat, NEW S, 0 \in S, \A m \in 0..n : m \in S /\ m < n => m + 1 \in S
    PROVE  0..n \subseteq S
<1> DEFINE Bad == {k \in Nat : k <= n /\ k \notin S}
<1>1. SUFFICES ASSUME Bad # {} PROVE FALSE
  OBVIOUS
<1>2. Min(Bad) \in Bad /\ \A j \in Bad : Min(Bad) <= j
  <2>1. Bad \in SUBSET Nat
    OBVIOUS
  <2> HIDE DEF Bad
  <2> QED
    BY <1>1, <2>1, MinOfNaturals
<1> DEFINE k == Min(Bad)
<1>3. k \in Nat /\ k <= n /\ k \notin S /\ \A j \in Bad : k <= j
  BY <1>2
<1> HIDE DEF k
<1>4. k # 0
  BY <1>3
<1>5. k - 1 \in Nat /\ k - 1 \in 0..n /\ k - 1 < n /\ ~(k <= k - 1) /\ (k - 1) + 1 = k
  BY <1>3, <1>4
<1>6. k - 1 \in S
  BY <1>3, <1>5
<1> QED
  BY <1>3, <1>5, <1>6

LEMMA MaxInside ==
    ASSUME NEW n \in Nat, NEW s \in SUBSET (1..n), s # {}
    PROVE  Max(s) \in s
<1> DEFINE T == {k \in Nat : n - k \in s}
<1>1. T \in SUBSET Nat /\ T # {}
  <2>1. PICK x \in s : TRUE
    OBVIOUS
  <2>2. n - x \in Nat /\ n - (n - x) = x
    OBVIOUS
  <2> QED
    BY <2>2
<1>2. Min(T) \in T /\ \A y \in T : Min(T) <= y
  <2> HIDE DEF T
  <2> QED
    BY <1>1, MinOfNaturals
<1> DEFINE x == n - Min(T)
<1>3. x \in s /\ Min(T) \in Nat
  BY <1>2
<1>4. ASSUME NEW y \in s PROVE x >= y
  <2>1. n - y \in T
    <3>1. n - y \in Nat /\ n - (n - y) = y
      OBVIOUS
    <3> QED
      BY <3>1
  <2>2. Min(T) <= n - y /\ y \in Int
    BY <1>2, <2>1
  <2> QED
    BY <1>3, <2>2
<1>5. \E z \in s : \A y \in s : z >= y
  BY <1>3, <1>4
<1> QED
  BY <1>5 DEF Max

\* One trade of the walk.
BookOne(recs, h, c) == IF recs[c].known THEN Settle(h, recs[c].side) ELSE h

\* The books after the trades of a set, the last of them booked last.
BooksOf(g, recs, start, seq, s) ==
    IF s = {} THEN start ELSE BookOne(recs, g[s \ {Max(s)}], seq[Max(s)])
IsBooks(g, recs, start, seq, n) ==
    g = [s \in SUBSET (1..n) |-> BooksOf(g, recs, start, seq, s)]

Sized(s, n) ==
    /\ IsFiniteSet(s) /\ Cardinality(s) \in Nat /\ Cardinality(s) <= n
    /\ s # {} => /\ Max(s) \in s /\ s \ {Max(s)} \in SUBSET (1..n)
                 /\ Cardinality(s \ {Max(s)}) = Cardinality(s) - 1
    /\ Cardinality(s) = 0 => s = {}

LEMMA Subsets == ASSUME NEW n \in Nat PROVE \A s \in SUBSET (1..n) : Sized(s, n)
<1> SUFFICES ASSUME NEW s \in SUBSET (1..n) PROVE Sized(s, n)
  OBVIOUS
<1>1. IsFiniteSet(1..n) /\ Cardinality(1..n) = n
  <2>1. 1 \in Int /\ n \in Int /\ n - 1 + 1 = n
    OBVIOUS
  <2> QED
    BY <2>1, FS_Interval
<1>2. IsFiniteSet(s) /\ Cardinality(s) \in Nat /\ Cardinality(s) <= n
  BY <1>1, FS_Subset, FS_CardinalityType
<1>3. s # {} => Max(s) \in s
  BY MaxInside
<1>4. \A x \in s : Cardinality(s \ {x}) = Cardinality(s) - 1
  BY <1>2, FS_RemoveElement
<1>5. Cardinality(s) = 0 <=> s = {}
  BY <1>2, FS_EmptySet
<1> DEFINE x == Max(s)
<1>6. s # {} => x \in s /\ s \ {x} \in SUBSET (1..n) /\ Cardinality(s \ {x}) = Cardinality(s) - 1
  <2>1. s # {} => x \in s
    BY <1>3
  <2> HIDE DEF x
  <2> QED
    BY <1>4, <2>1
<1> HIDE DEF x
<1> QED
  BY <1>2, <1>5, <1>6 DEF Sized, x

LEMMA BooksExist ==
    ASSUME NEW n \in Nat, NEW recs, NEW start, NEW seq
    PROVE  \E g : IsBooks(g, recs, start, seq, n)
<1> DEFINE All == SUBSET (1..n)
           Small(m) == {s \in All : Cardinality(s) <= m}
           Body(g, s) == BooksOf(g, recs, start, seq, s)
           Good == {m \in 0..n : \E g : g = [s \in Small(m) |-> Body(g, s)]}
<1>s. \A s \in All : Sized(s, n)
  BY Subsets
<1>1. 0 \in Good
  <2> DEFINE h == [s \in Small(0) |-> start]
  <2>1. \A s \in Small(0) : s = {}
    <3>1. ASSUME NEW s \in Small(0) PROVE s = {}
      <4>1. Sized(s, n) /\ Cardinality(s) <= 0
        BY <1>s
      <4> QED
        BY <4>1 DEF Sized
    <3> QED
      BY <3>1
  <2>2. \A s \in Small(0) : h[s] = Body(h, s)
    BY <2>1 DEF BooksOf
  <2>3. h = [s \in Small(0) |-> Body(h, s)]
    <3> HIDE DEF Body, Small
    <3> QED
      BY <2>2
  <2> HIDE DEF h, Body, Small
  <2> QED
    BY <2>3
<1>2. ASSUME NEW m \in 0..n, m \in Good, m < n PROVE m + 1 \in Good
  <2>1. PICK g : g = [s \in Small(m) |-> Body(g, s)]
    BY <1>2
  <2> DEFINE h == [s \in Small(m + 1) |-> Body(g, s)]
  <2>2. ASSUME NEW s \in Small(m + 1), s # {} PROVE s \ {Max(s)} \in Small(m)
    <3>1. Sized(s, n) /\ s \in All /\ Cardinality(s) <= m + 1
      BY <1>s
    <3> QED
      BY <2>2, <3>1 DEF Sized
  <2>3. ASSUME NEW s \in Small(m) PROVE s \in Small(m + 1) /\ h[s] = g[s]
    <3>1. s \in Small(m + 1)
      <4>1. Sized(s, n) /\ s \in All /\ Cardinality(s) <= m
        BY <1>s
      <4> QED
        BY <4>1 DEF Sized
    <3> HIDE DEF Body, Small
    <3>2. g[s] = Body(g, s)
      BY <2>1, <2>3
    <3> QED
      BY <3>1, <3>2
  <2>4. ASSUME NEW s \in Small(m + 1) PROVE h[s] = Body(h, s)
    <3>1. h[s] = Body(g, s)
      <4> HIDE DEF Body, Small
      <4> QED
        OBVIOUS
    <3>2. s # {} => h[s \ {Max(s)}] = g[s \ {Max(s)}]
      <4> HIDE DEF h, Small
      <4> QED
        BY <2>2, <2>3
    <3> HIDE DEF h
    <3> QED
      BY <3>1, <3>2 DEF BooksOf
  <2>5. h = [s \in Small(m + 1) |-> Body(h, s)]
    <3> HIDE DEF Body, Small
    <3> QED
      BY <2>4
  <2>6. m + 1 \in 0..n
    BY <1>2
  <2> HIDE DEF h, Body, Small
  <2> QED
    BY <2>5, <2>6
<1>3. n \in Good
  <2>1. 0..n \subseteq Good
    <3> HIDE DEF Good
    <3> QED
      BY <1>1, <1>2, UpTo
  <2> HIDE DEF Good
  <2> QED
    BY <2>1
<1>4. Small(n) = All
  BY <1>s DEF Sized
<1> HIDE DEF Body, Small
<1>5. PICK g : g = [s \in All |-> Body(g, s)]
  BY <1>3, <1>4
<1> QED
  BY <1>5 DEF IsBooks, Body

LEMMA SettleBase ==
    ASSUME NEW recs, NEW h, h.base \in Int, NEW c
    PROVE  /\ BookOne(recs, h, c).base \in Int
           /\ BookOne(recs, h, c).base <= h.base + 1
           /\ ~(recs[c].known /\ recs[c].side = "bid") => BookOne(recs, h, c).base <= h.base
BY DEF BookOne, Settle

\* The base bought is at most the units bought.
LEMMA BooksBound ==
    ASSUME NEW n \in Nat, NEW recs, NEW start, start.base \in Int, NEW seq, NEW g,
           IsBooks(g, recs, start, seq, n), NEW bought,
           \A i \in 1..n : recs[seq[i]].known /\ recs[seq[i]].side = "bid" => i \in bought
    PROVE  g[1..n].base \in Int /\ g[1..n].base <= start.base + Cardinality(bought \cap (1..n))
<1> DEFINE Bound(s) == g[s].base \in Int /\ g[s].base <= start.base + Cardinality(bought \cap s)
           Good == {m \in 0..n : \A s \in SUBSET (1..n) : Cardinality(s) <= m => Bound(s)}
<1>0. \A s \in SUBSET (1..n) : g[s] = BooksOf(g, recs, start, seq, s)
  BY DEF IsBooks
<1>s. \A s \in SUBSET (1..n) : Sized(s, n)
  BY Subsets
<1>1. Bound({})
  <2>1. g[{}] = start /\ bought \cap {} = {}
    BY <1>0 DEF BooksOf
  <2>2. Cardinality(bought \cap {}) = 0
    BY <2>1, FS_EmptySet
  <2> QED
    BY <2>1, <2>2
<1>2. 0 \in Good
  <2>1. ASSUME NEW s \in SUBSET (1..n), Cardinality(s) <= 0 PROVE Bound(s)
    <3>1. Sized(s, n)
      BY <1>s
    <3>2. s = {}
      BY <2>1, <3>1 DEF Sized
    <3> HIDE DEF Bound
    <3> QED
      BY <1>1, <3>2
  <2>2. 0 \in 0..n
    OBVIOUS
  <2> HIDE DEF Bound
  <2> QED
    BY <2>1, <2>2
<1>3. ASSUME NEW m \in 0..n, m \in Good, m < n PROVE m + 1 \in Good
  <2>1. ASSUME NEW s \in SUBSET (1..n), Cardinality(s) <= m + 1 PROVE Bound(s)
    <3>1. CASE s = {}
      BY <1>1, <3>1
    <3>2. CASE s # {}
      <4> DEFINE x == Max(s)
                 r == s \ {x}
      <4>1. x \in s /\ r \in SUBSET (1..n) /\ Cardinality(r) <= m /\ IsFiniteSet(s)
        BY <2>1, <3>2, <1>s DEF Sized
      <4>2. Bound(r)
        <5> HIDE DEF Bound, r
        <5> QED
          BY <1>3, <4>1
      <4>3. g[s] = BookOne(recs, g[r], seq[x])
        BY <1>0, <3>2 DEF BooksOf
      <4> HIDE DEF x
      <4> DEFINE B == bought \cap s
                 C == bought \cap r
      <4>4. IsFiniteSet(B) /\ IsFiniteSet(C) /\ Cardinality(C) \in Nat /\ Cardinality(B) \in Nat
        <5>1. B \in SUBSET s /\ C \in SUBSET s
          OBVIOUS
        <5> QED
          BY <4>1, <5>1, FS_Subset, FS_CardinalityType
      <4>5. x \in bought => Cardinality(B) = Cardinality(C) + 1
        <5>1. x \in bought => B = C \union {x}
          BY <4>1
        <5>2. x \notin C
          OBVIOUS
        <5> HIDE DEF B, C
        <5> QED
          BY <4>4, <5>1, <5>2, FS_AddElement
      <4>6. x \notin bought => B = C
        BY <4>1
      <4>7. x \in 1..n
        BY <4>1
      <4>8. recs[seq[x]].known /\ recs[seq[x]].side = "bid" => x \in bought
        BY <4>7
      <4> DEFINE h == g[r]
      <4>9. /\ g[s].base \in Int /\ g[s].base <= h.base + 1 /\ h.base \in Int
            /\ x \notin bought => g[s].base <= h.base
        <5>1. h.base \in Int
          BY <4>2
        <5> HIDE DEF h
        <5> QED
          BY <4>3, <4>8, <5>1, SettleBase DEF h
      <4>10. h.base <= start.base + Cardinality(C)
        BY <4>2
      <4>11. g[s].base <= start.base + Cardinality(B)
        <5> HIDE DEF h, B, C
        <5>1. CASE x \in bought
          BY <4>4, <4>5, <4>9, <4>10, <5>1
        <5>2. CASE x \notin bought
          BY <4>4, <4>6, <4>9, <4>10, <5>2
        <5> QED
          BY <5>1, <5>2
      <4> QED
        BY <4>9, <4>11
    <3> QED
      BY <3>1, <3>2
  <2>2. m + 1 \in 0..n
    BY <1>3
  <2> HIDE DEF Bound
  <2> QED
    BY <2>1, <2>2
<1>4. n \in Good
  <2>1. 0..n \subseteq Good
    <3> HIDE DEF Good
    <3> QED
      BY <1>2, <1>3, UpTo
  <2> HIDE DEF Good
  <2> QED
    BY <2>1
<1>5. Bound(1..n)
  <2>1. 1..n \in SUBSET (1..n) /\ Cardinality(1..n) <= n
    BY <1>s DEF Sized
  <2> HIDE DEF Bound
  <2> QED
    BY <1>4, <2>1
<1> QED
  BY <1>5

\* What _read_fills adds to the base balance is at most the units that its bids bought.
LEMMA ReadBase ==
    ASSUME LedgerOK, ledger.base \in Int, NEW l, l = ReadFills(orders).ledger,
           NEW bids \in SUBSET (FromId..Len(tape)),
           \A i \in FromId..Len(tape) :
             orders[tape[i]].known /\ orders[tape[i]].side = "bid" => i \in bids
    PROVE  l.base \in Int /\ l.base <= ledger.base + Cardinality(bids)
<1> DEFINE seq == SubSeq(tape, FromId, Len(tape))
           start == [base |-> ledger.base, quote |-> ledger.quote]
           n == (Len(tape) - FromId) + 1
           f == CHOOSE g : g = [s \in SUBSET (DOMAIN seq) |-> BooksOf(g, orders, start, seq, s)]
           bought == {k \in 1..n : (FromId + k) - 1 \in bids}
<1>1. l.base = f[DOMAIN seq].base
  BY DEF ReadFills, FoldLeft, MapThenFoldSet, BooksOf, BookOne
<1>2. FromId \in Nat /\ FromId >= 1 /\ Len(tape) \in Nat /\ FromId <= Len(tape) + 1 /\ tape \in Seq(Ids)
  BY FromIdOK DEF LedgerOK
<1>3. n \in Nat
  BY <1>2
<1>4. DOMAIN seq = 1..n /\ \A k \in 1..n : seq[k] = tape[(FromId + k) - 1]
  BY <1>2
<1> HIDE DEF seq
<1>5. f = CHOOSE g : IsBooks(g, orders, start, seq, n)
  BY <1>4 DEF IsBooks
<1>6. IsBooks(f, orders, start, seq, n)
  <2>1. \E g : IsBooks(g, orders, start, seq, n)
    <3> HIDE DEF start, n
    <3> QED
      BY <1>3, BooksExist
  <2> HIDE DEF f, start, n
  <2> QED
    BY <1>5, <2>1
<1>7. \A k \in 1..n : orders[seq[k]].known /\ orders[seq[k]].side = "bid" => k \in bought
  <2>1. ASSUME NEW k \in 1..n PROVE (FromId + k) - 1 \in FromId..Len(tape)
    BY <1>2
  <2> QED
    BY <1>4, <2>1
<1>8. start.base = ledger.base
  OBVIOUS
<1>9. f[1..n].base \in Int /\ f[1..n].base <= start.base + Cardinality(bought \cap (1..n))
  <2> HIDE DEF f, start, n, bought
  <2> QED
    BY <1>3, <1>6, <1>7, <1>8, BooksBound
<1>10. bought \cap (1..n) = bought
  OBVIOUS
<1>11. Cardinality(bought) <= Cardinality(bids) /\ Cardinality(bids) \in Int /\ Cardinality(bought) \in Int
  <2>1. IsFiniteSet(FromId..Len(tape)) /\ IsFiniteSet(1..n)
    <3>1. FromId \in Int /\ Len(tape) \in Int /\ n \in Int /\ 1 \in Int
      BY <1>2, <1>3
    <3> HIDE DEF n
    <3> QED
      BY <3>1, FS_Interval
  <2>2. IsFiniteSet(bids) /\ IsFiniteSet(bought)
    <3>1. bought \in SUBSET (1..n)
      OBVIOUS
    <3> HIDE DEF n, bought
    <3> QED
      BY <2>1, <3>1, FS_Subset
  <2> DEFINE m == [k \in bought |-> (FromId + k) - 1]
  <2>3. m \in Injection(bought, bids)
    <3>1. \A k \in bought : m[k] \in bids /\ k \in Int
      OBVIOUS
    <3>2. \A k, j \in bought : m[k] = m[j] => k = j
      BY <1>2, <3>1
    <3> HIDE DEF bought
    <3> QED
      BY <3>1, <3>2 DEF Injection, IsInjective
  <2> HIDE DEF bought, m
  <2> QED
    BY <2>2, <2>3, FS_Injection, FS_CardinalityType
<1> HIDE DEF f, n, bought, start
<1>12. f[DOMAIN seq] = f[1..n] /\ Cardinality(bought \cap (1..n)) = Cardinality(bought)
  BY <1>4, <1>10
<1>13. l.base = f[1..n].base
  BY <1>1, <1>12
<1> QED
  BY <1>8, <1>9, <1>11, <1>12, <1>13

-----------------------------------------------------------------------------
\* The position.  What the trader holds, what its bids have bought and it has not read, and
\* what its live bid may still buy: nothing but a new bid adds to the three together.

\* The trades of bids that _read_fills has not read.
BidsAhead == {i \in FromId..Len(tape) : ex[tape[i]].side = "bid"}
Within(b) ==
    /\ ledger.base + Cardinality(BidsAhead) <= b
    /\ \A c \in Live : ex[c].side = "bid" =>
         ledger.base + Cardinality(BidsAhead) + (Size - ex[c].done) <= b
Highest == Max({MaxBase, StartBase})

\* The bid side of _quote has a target and has not been placed.
BidDue == fr.side = "bid" /\ ((Walks("side") /\ "bid" \in fr.targets) \/ pc = "post")

\* Between the reading of fills and _quote no order is placed: what may be bought or read
\* comes from one bid.
Synced == \/ pc \in {"list", "quote"} \/ (pc = "stray" /\ fr.then = "resolve")
          \/ (pc = "resolve" /\ fr.then = "quote")
Ahead == {c \in Ids : ex[c].side = "bid" /\ (c \in Live \/ Unread(c) # {})}
OneAhead == \A c, d \in Ahead : c = d

\* A session's order is on the side its record says.
SameSide == \A c \in Ids : orders[c].state # "none" /\ ex[c].status # "none" => orders[c].side = ex[c].side
SizeOK == \A c \in Ids : ex[c].done <= Size

HeldInv ==
    /\ ledger.base \in Int /\ ledger.base <= Highest + Size
    /\ SameSide /\ SizeOK
    /\ session # "none" => Within(Highest + Size)
    /\ BidDue => Within(MaxBase)
    /\ Synced => OneAhead

LEMMA HighestOK == Highest \in Int /\ Highest >= MaxBase /\ Highest >= StartBase
<1>1. MaxBase \in Int /\ StartBase \in Int
  BY TraderConstants
<1> QED
  BY <1>1, MaxPair DEF Highest

LEMMA AheadCount ==
    ASSUME LedgerOK
    PROVE  /\ IsFiniteSet(BidsAhead) /\ Cardinality(BidsAhead) \in Nat
           /\ BidsAhead \in SUBSET (FromId..Len(tape))
<1>1. IsFiniteSet(FromId..Len(tape)) /\ BidsAhead \in SUBSET (FromId..Len(tape))
  <2>1. FromId \in Int /\ Len(tape) \in Int
    BY FromIdOK
  <2> QED
    BY <2>1, FS_Interval DEF BidsAhead
<1> QED
  BY <1>1, FS_Subset, FS_CardinalityType

LEMMA FromIdNext ==
    ASSUME LedgerOK'
    PROVE  (FromId') = IF ledger'.last >= purged' THEN ledger'.last + 1 ELSE purged' + 1
<1>1. ledger'.last \in Int /\ purged' \in Int
  BY DEF LedgerOK
<1>2. /\ Max({ledger'.last, purged'}) \in {ledger'.last, purged'}
      /\ Max({ledger'.last, purged'}) >= ledger'.last /\ Max({ledger'.last, purged'}) >= purged'
  BY <1>1, MaxPair
<1> QED
  BY <1>1, <1>2 DEF FromId

LEMMA AheadSame ==
    ASSUME LedgerOK, UNCHANGED << tape, purged >>, ledger'.last = ledger.last,
           \A i \in 1..Len(tape) : ex'[tape[i]].side = ex[tape[i]].side
    PROVE  BidsAhead' = BidsAhead /\ \A c : Unread(c)' = Unread(c)
<1>1. FromId' = FromId
  BY DEF FromId
<1>2. \A i \in FromId..Len(tape) : i \in 1..Len(tape)
  BY FromIdOK
<1> QED
  BY <1>1, <1>2 DEF BidsAhead, Unread

LEMMA AheadRead ==
    ASSUME LedgerOK, LedgerOK', UNCHANGED << tape, purged >>,
           ledger'.last = IF FromId <= Len(tape) THEN Len(tape) ELSE ledger.last
    PROVE  BidsAhead' = {} /\ \A c : Unread(c)' = {}
<1>1. (FromId') = IF ledger'.last >= purged THEN ledger'.last + 1 ELSE purged + 1
  BY FromIdNext
<1>2. /\ FromId \in Nat /\ Len(tape) \in Nat /\ ledger.last \in Int /\ purged \in Int /\ purged <= Len(tape)
      /\ FromId = IF ledger.last >= purged THEN ledger.last + 1 ELSE purged + 1
  BY FromIdOK DEF LedgerOK
<1>3. (FromId') > Len(tape) /\ FromId' \in Int
  BY <1>1, <1>2
<1>4. (FromId')..Len(tape') = {}
  BY <1>2, <1>3
<1> QED
  BY <1>4 DEF BidsAhead, Unread

\* What a step of the task does to an order at the exchange.
LEMMA ExSides ==
    ASSUME ControlInv, RealInv, Lenient, CountInv, Trader, NEW c \in Ids
    PROVE  \/ /\ ex'[c].side = ex[c].side /\ ex'[c].done = ex[c].done
              /\ ex'[c].status = "none" <=> ex[c].status = "none"
           \/ /\ pc = "post" /\ c = fr.cur /\ ex'[c].side = orders[c].side
              /\ ex'[c].done = 0 /\ ex'[c].status = "NEW"
<1>0. ex \in [Ids -> Placed] /\ orders \in [Ids -> Record]
  BY DEF RealInv, DataReal
<1>1. CASE ex' = ex
  BY <1>1
<1>2. ASSUME NEW d, ex' = CancelAtExchange(d)
      PROVE  /\ ex'[c].side = ex[c].side /\ ex'[c].done = ex[c].done
             /\ ex'[c].status = "none" <=> ex[c].status = "none"
  <2>1. /\ ExStep /\ ex'[c].side = ex[c].side /\ ex'[c].done = ex[c].done
        /\ ex[c].status # "NEW" => ex'[c] = ex[c]
    BY <1>0, <1>2, CancelStep
  <2> QED
    BY <2>1 DEF ExStep
<1>3. CASE (Post \/ PostFails) /\ ex' = PlaceAtExchange(fr.cur)
  <2>1. pc = "post"
    BY <1>3 DEF Post, PostFails
  <2>2. /\ \A e \in Ids : e # fr.cur => ex'[e] = ex[e]
        /\ fr.cur \in Ids => /\ ex'[fr.cur].status = "NEW" /\ ex'[fr.cur].done = 0
                             /\ ex'[fr.cur].side = orders[fr.cur].side
    BY <1>0, <1>3, PlaceStep
  <2> QED
    BY <1>3, <2>1, <2>2
<1>4. SideDone => ex' = ex
  BY DEF SideDone, Local
<1>5. ~SideDone => ExShape
  BY TraderShape
<1> QED
  BY <1>1, <1>2, <1>3, <1>4, <1>5 DEF ExShape

\* A step that books nothing: only a bid sent to the exchange adds to what may be held.
LEMMA WithinKept ==
    ASSUME ControlInv, RealInv, Lenient, CountInv, Trader, UNCHANGED << ledger, tape, purged >>,
           ledger.base \in Int, NEW b \in Int, Within(b), NEW e \in Int, e >= b,
           pc = "post" /\ fr.side = "bid" => e >= b + Size
    PROVE  Within(e)'
<1>0. LedgerOK /\ ex \in [Ids -> Placed] /\ Size \in Nat
  BY TraderConstants DEF RealInv, DataReal
<1>1. \A i \in 1..Len(tape) : ex'[tape[i]].side = ex[tape[i]].side
  <2>1. ASSUME NEW i \in 1..Len(tape) PROVE ex'[tape[i]].side = ex[tape[i]].side
    <3>1. tape[i] \in Ids
      BY <1>0 DEF LedgerOK
    <3>2. ~(pc = "post" /\ tape[i] = fr.cur)
      BY <3>1 DEF CountInv, FreshOK
    <3> QED
      BY <3>1, <3>2, ExSides
  <2> QED
    BY <2>1
<1> DEFINE n == Cardinality(BidsAhead)
<1>2. BidsAhead' = BidsAhead
  BY <1>0, <1>1, AheadSame
<1>3. n \in Nat /\ Cardinality(BidsAhead)' = n /\ ledger'.base = ledger.base
  BY <1>0, <1>2, AheadCount
<1>4. ledger.base + n <= b
  BY DEF Within
<1>5. ASSUME NEW c \in Live', ex'[c].side = "bid"
      PROVE  \/ ledger.base + n + (Size - ex'[c].done) <= b /\ ex'[c].done \in Nat
             \/ pc = "post" /\ fr.side = "bid" /\ ex'[c].done = 0
  <2>1. /\ c \in Ids /\ ex'[c].status = "NEW"
        /\ \/ ex'[c] = ex[c] /\ c \in Live
           \/ pc = "post" /\ c = fr.cur /\ ex'[c].side = fr.side /\ (Post \/ PostFails)
    BY LiveAfter
  <2>2. CASE ex'[c] = ex[c] /\ c \in Live
    BY <1>0, <1>5, <2>1, <2>2 DEF Within, Placed
  <2>3. CASE pc = "post" /\ c = fr.cur /\ ex'[c].side = fr.side
    <3>1. ex[c].status = "none"
      BY <2>1, <2>3 DEF CountInv, FreshOK
    <3> QED
      BY <1>5, <2>1, <2>3, <3>1, ExSides
  <2> QED
    BY <2>1, <2>2, <2>3
<1> HIDE DEF n
<1>6. ledger'.base + Cardinality(BidsAhead)' <= e
  BY <1>0, <1>3, <1>4
<1>7. ASSUME NEW c \in Live', ex'[c].side = "bid"
      PROVE  ledger'.base + Cardinality(BidsAhead)' + (Size - ex'[c].done) <= e
  BY <1>0, <1>3, <1>4, <1>5, <1>7
<1> QED
  BY <1>6, <1>7 DEF Within

\* _read_fills moves what was ahead into the balance.
LEMMA WithinRead ==
    ASSUME ControlInv, RealInv, RealInv', CountInv, NeverReset, SameSide, ledger.base \in Int,
           Fills \/ Refill
    PROVE  /\ ledger'.base \in Int /\ ex' = ex
           /\ \A c : Unread(c)' = {}
           /\ \A b \in Int : Within(b) => ledger'.base <= b /\ Within(b)'
<1>0. LedgerOK /\ LedgerOK' /\ ex \in [Ids -> Placed] /\ RecordsReal /\ wiped = FALSE /\ NamedOK
  BY DEF RealInv, DataReal, NeverReset, CountInv
<1>1. ledger' = ReadFills(orders).ledger /\ UNCHANGED << ex, tape, purged >>
  BY <1>0, ReadShape
<1>2. BidsAhead \in SUBSET (FromId..Len(tape)) /\ Cardinality(BidsAhead) \in Nat
  BY <1>0, AheadCount
<1>3. \A i \in FromId..Len(tape) :
        orders[tape[i]].known /\ orders[tape[i]].side = "bid" => i \in BidsAhead
  <2>1. ASSUME NEW i \in FromId..Len(tape), orders[tape[i]].known PROVE ex[tape[i]].side = orders[tape[i]].side
    <3>1. tape[i] \in Ids
      BY <1>0, FromIdOK
    <3>2. orders[tape[i]].state # "none" /\ ex[tape[i]].status # "none"
      BY <1>0, <2>1, <3>1 DEF RecordsReal, NamedOK
    <3> QED
      BY <3>1, <3>2 DEF SameSide
  <2> QED
    BY <2>1 DEF BidsAhead
<1>4. ledger'.base \in Int /\ ledger'.base <= ledger.base + Cardinality(BidsAhead)
  BY <1>0, <1>1, <1>2, <1>3, ReadBase
<1>5. BidsAhead' = {} /\ \A c : Unread(c)' = {}
  <2>1. ledger'.last = IF FromId <= Len(tape) THEN Len(tape) ELSE ledger.last
    BY <1>0, <1>1, ReadLedger
  <2> QED
    BY <1>0, <1>1, <2>1, AheadRead
<1>6. Cardinality(BidsAhead)' = 0
  BY <1>5, FS_EmptySet
<1>7. ASSUME NEW b \in Int, Within(b) PROVE ledger'.base <= b /\ Within(b)'
  <2>1. ledger'.base <= b /\ ledger'.base + Cardinality(BidsAhead)' <= b
    BY <1>2, <1>4, <1>6, <1>7 DEF Within
  <2>2. ASSUME NEW c \in Live', ex'[c].side = "bid"
        PROVE  ledger'.base + Cardinality(BidsAhead)' + (Size - ex'[c].done) <= b
    <3>1. c \in Live /\ ex[c].side = "bid" /\ ex'[c].done = ex[c].done /\ ex[c].done \in Nat
      BY <1>0, <1>1, <2>2 DEF Live, Placed
    <3>2. ledger.base + Cardinality(BidsAhead) + (Size - ex[c].done) <= b
      BY <1>7, <3>1 DEF Within
    <3> QED
      BY <1>2, <1>4, <1>6, <3>1, <3>2, TraderConstants
  <2> QED
    BY <2>1, <2>2 DEF Within
<1> QED
  BY <1>1, <1>4, <1>5, <1>7

\* _quote looks at the balance when one bid at most may be ahead of it: what that bid has
\* bought and what it may still buy is one order.
LEMMA QuoteWithin ==
    ASSUME RealInv, DoneOK, SizeOK, OneAhead, ledger.base \in Int, BidAllowed
    PROVE  Within(MaxBase)
<1>0. /\ LedgerOK /\ ex \in [Ids -> Placed] /\ Size \in Nat /\ MaxBase \in Nat
      /\ ledger.base + Size <= MaxBase
  BY TraderConstants DEF RealInv, DataReal, BidAllowed
<1>1. /\ IsFiniteSet(BidsAhead) /\ Cardinality(BidsAhead) \in Nat
      /\ BidsAhead \in SUBSET (FromId..Len(tape))
  BY <1>0, AheadCount
<1>2. \A i \in BidsAhead : tape[i] \in Ahead /\ i \in Unread(tape[i])
  <2>1. ASSUME NEW i \in BidsAhead PROVE tape[i] \in Ahead /\ i \in Unread(tape[i])
    <3>1. i \in FromId..Len(tape) /\ ex[tape[i]].side = "bid" /\ tape[i] \in Ids
      BY <1>0, <1>1, FromIdOK DEF BidsAhead
    <3>2. i \in Unread(tape[i])
      BY <3>1 DEF Unread
    <3> QED
      BY <3>1, <3>2 DEF Ahead
  <2> QED
    BY <2>1
<1>3. ASSUME NEW c \in Ahead PROVE Cardinality(BidsAhead) <= ex[c].done
  <2>1. c \in Ids
    BY DEF Ahead
  <2>2. /\ Passed(c, 1) \in Nat /\ Unread(c) = OnTape(c, FromId, Len(tape))
        /\ Passed(c, 1) + Cardinality(Unread(c)) <= Cardinality(OnTape(c, 1, Len(tape)))
    BY <1>0, PassedAndUnread
  <2>3. IsFiniteSet(Unread(c)) /\ Cardinality(Unread(c)) \in Nat
    BY <1>0, FromIdOK
  <2>4. BidsAhead \subseteq Unread(c)
    BY <1>2, <1>3 DEF OneAhead
  <2>5. Cardinality(BidsAhead) <= Cardinality(Unread(c))
    BY <2>3, <2>4, FS_Subset
  <2>6. ex[c].done = Cardinality(OnTape(c, 1, Len(tape))) /\ ex[c].done \in Nat
    BY <1>0, <2>1 DEF DoneOK, Placed
  <2> QED
    BY <1>1, <2>2, <2>3, <2>5, <2>6
<1>4. ledger.base + Cardinality(BidsAhead) <= MaxBase
  <2>1. CASE BidsAhead = {}
    <3>1. Cardinality(BidsAhead) = 0
      BY <2>1, FS_EmptySet
    <3> QED
      BY <1>0, <3>1
  <2>2. CASE BidsAhead # {}
    <3>1. PICK c \in Ahead : TRUE
      BY <1>2, <2>2
    <3>2. ex[c].done \in Nat /\ ex[c].done <= Size
      BY <1>0 DEF Ahead, SizeOK, Placed
    <3> QED
      BY <1>0, <1>1, <1>3, <3>2
  <2> QED
    BY <2>1, <2>2
<1>5. ASSUME NEW c \in Live, ex[c].side = "bid"
      PROVE  ledger.base + Cardinality(BidsAhead) + (Size - ex[c].done) <= MaxBase
  <2>1. c \in Ahead /\ ex[c].done \in Nat
    BY <1>0, <1>5 DEF Ahead, Live, Placed
  <2> QED
    BY <1>0, <1>1, <1>3, <2>1
<1> QED
  BY <1>4, <1>5 DEF Within

\* A bid comes due in _quote, from the balance it looks at there.
LEMMA BidFrom ==
    ASSUME ControlInv, RealInv, RealInv', NeverReset, NeverReset', Lenient, Trader, BidDue'
    PROVE  (Quote /\ BidAllowed) \/ (BidDue /\ pc # "post")
<1> USE DEF Goto, Enter
<1>0. fr \in Frame /\ Arrivals
  BY WhereTo DEF ControlInv
<1>1. fr'.side = "bid" /\ pc' \in {"side", "delete", "query", "refill", "post"}
      /\ (pc' \in {"delete", "query", "refill"} => fr'.then = "side")
      /\ (pc' # "post" => "bid" \in fr'.targets)
  BY DEF BidDue, Walks
<1>2. ASSUME NextSide PROVE FALSE
  <2>1. pc' = "side" /\ fr' = [fr EXCEPT !.side = "ask", !.kept = FALSE, !.cur = 0,
                          !.todo = {c \in OpenRecords : orders[c].side = "ask"}]
    BY <1>1, <1>2 DEF NextSide
  <2>2. fr'.side = "ask"
    BY <1>0, <2>1 DEF Frame
  <2> QED
    BY <1>1, <2>2
<1>3. CASE Quote
  <2>1. PICK targets \in SUBSET Approved :
          fr' = [fr EXCEPT !.targets = targets, !.side = "bid", !.kept = FALSE,
                           !.todo = {c \in OpenRecords : orders[c].side = "bid"}]
    BY <1>3 DEF Quote
  <2>2. fr'.targets = targets /\ pc' = "side"
    BY <1>0, <1>3, <2>1 DEF Frame, Quote
  <2>3. "bid" \in Approved
    BY <1>1, <2>1, <2>2
  <2> QED
    BY <1>3, <2>3 DEF Approved
<1>4. CASE Resting
  <2> DEFINE d == Min(fr.todo)
             rest == [fr EXCEPT !.todo = @ \ {d}]
  <2>1. /\ pc = "side"
        /\ \/ fr' = rest \/ fr' = [rest EXCEPT !.cur = d, !.then = "side"]
           \/ fr' = [rest EXCEPT !.kept = TRUE]
    BY <1>4 DEF Resting
  <2>2. pc' # "post"
    BY <1>4 DEF Resting
  <2> HIDE DEF d
  <2>3. fr'.side = fr.side /\ fr'.targets = fr.targets
    BY <1>0, <2>1 DEF Frame
  <2> QED
    BY <1>1, <2>1, <2>2, <2>3 DEF BidDue, Walks
<1>5. CASE SideDone
  <2>1. CASE WantsPlace
    <3>1. pc = "side" /\ fr' = [fr EXCEPT !.cur = next] /\ fr.side \in fr.targets
      BY <1>5, <2>1 DEF SideDone, WantsPlace
    <3>2. fr'.side = fr.side
      BY <1>0, <3>1 DEF Frame
    <3> QED
      BY <1>1, <3>1, <3>2 DEF BidDue, Walks
  <2>2. CASE ~WantsPlace
    BY <1>2, <1>5, <2>2 DEF SideDone
  <2> QED
    BY <2>1, <2>2
<1>6. CASE Post
  BY <1>2, <1>6 DEF Post
<1>7. CASE Delete \/ Query \/ Refill
  <2>1. ~TestnetReset(orders)
    BY NoTestnetReset DEF NeverReset
  <2>2. /\ pc \in {"delete", "query", "refill"}
        /\ \/ pc' \in {"query", "refill"} /\ fr' = fr
           \/ pc' = fr.then /\ fr' = [fr EXCEPT !.then = ""]
    BY <1>7, <2>1 DEF Delete, Query, Refill
  <2>3. fr'.side = fr.side /\ fr'.targets = fr.targets
    BY <1>0, <2>2 DEF Frame
  <2>4. fr.then = "side"
    <3>1. fr.then \in {"side", "ca_orders", "ca_remaining"}
      BY <2>2 DEF ControlInv, WalkOK
    <3> QED
      BY <1>1, <2>2, <3>1
  <2>5. "bid" \in fr'.targets
    BY <1>1, <2>2, <2>4
  <2> QED
    BY <1>1, <2>2, <2>3, <2>4, <2>5 DEF BidDue, Walks
<1>8. CASE CancelRecorded \/ CancelRemaining
  <2>1. pc \in {"ca_orders", "ca_remaining"}
    BY <1>8 DEF CancelRecorded, CancelRemaining
  <2>2. pc' = "delete"
    BY <1>0, <1>1, <2>1 DEF Arrivals, Quote, Resting, SideDone, Post, Delete, Query, Refill
  <2> DEFINE d == Min(fr.todo)
  <2>3. \E t \in {"ca_orders", "ca_remaining"} :
           fr' = [[fr EXCEPT !.todo = @ \ {d}] EXCEPT !.cur = d, !.then = t]
    <3>1. ~CancelAllReturns(FALSE, "cancel_pending")
      BY <2>2, CancelAllLands DEF Landed
    <3> QED
      BY <1>8, <2>2, <3>1 DEF CancelRecorded, CancelRemaining
  <2> HIDE DEF d
  <2>4. fr'.then # "side"
    BY <1>0, <2>3, TurnTo
  <2> QED
    BY <1>1, <2>2, <2>4
<1> QED
  BY <1>0, <1>1, <1>3, <1>4, <1>5, <1>6, <1>7, <1>8 DEF Arrivals

\* _iterate comes from its reading of fills to _quote without placing an order.
LEMMA SyncedFrom ==
    ASSUME ControlInv, RealInv, RealInv', NeverReset, NeverReset', Lenient, Trader, Synced'
    PROVE  Fills \/ (Synced /\ pc # "post")
<1> USE DEF Goto, Enter
<1> DEFINE Apart == pc' \notin {"list", "quote", "stray", "resolve"}
<1>f. fr \in Frame /\ authOk = TRUE /\ pc # "reset_open"
  BY DEF ControlInv, RealInv, DataReal, NeverReset
<1>w. /\ pc = "stray" => fr.then \in {"open", "resolve"}
      /\ pc = "resolve" => fr.then \in {"quote", "rec_history", "ca_return"}
      /\ pc \in {"delete", "query", "refill"} => fr.then \in {"side", "ca_orders", "ca_remaining"}
  BY DEF ControlInv, WalkOK
<1>a. ~Apart
  BY DEF Synced
<1>n. NextSide => Apart
  BY DEF NextSide
<1>c. ASSUME NEW ok, NEW st, CancelAllReturns(ok, st) PROVE Apart
  BY <1>c DEF CancelAllReturns
<1>r. ASSUME NEW kind \in {"auth", "rate", "unavailable"}, Raise(kind) PROVE Apart
  BY <1>r, RaiseLands DEF Landed
<1>t. ~TestnetReset(orders)
  BY NoTestnetReset DEF NeverReset
<1>1. CASE Loop \/ StartupAccount \/ StartupOpen \/ Iterate \/ Depth \/ StartCancelAll \/ CancelRecorded
           \/ Shutdown \/ ResetAccount \/ Due \/ Quote \/ Resting
  BY <1>1, <1>a DEF Loop, StartupAccount, StartupOpen, Iterate, Depth, StartCancelAll, CancelRecorded,
     Shutdown, ResetAccount, Due, Quote, Resting
<1>2. CASE Leftovers
  <2>1. pc' = "stray" /\ fr' = [fr EXCEPT !.todo = Live, !.then = "open"]
    BY <1>2 DEF Leftovers
  <2>2. fr'.then = "open"
    BY <1>f, <2>1 DEF Frame
  <2> QED
    BY <2>1, <2>2 DEF Synced
<1>3. CASE List
  BY <1>3 DEF List, Synced
<1>4. CASE Stray
  <2>1. pc = "stray"
    BY <1>4 DEF Stray
  <2>2. CASE fr.then = "open"
    <3> DEFINE d == Min(fr.todo)
    <3>1. \/ pc' = "stray" /\ fr' = [fr EXCEPT !.todo = @ \ {d}]
          \/ pc' = "open"
      BY <1>4, <2>2 DEF Stray
    <3> HIDE DEF d
    <3>2. pc' = "stray" => fr'.then = "open"
      BY <1>f, <2>2, <3>1 DEF Frame
    <3> QED
      BY <3>1, <3>2 DEF Synced
  <2>3. CASE fr.then = "resolve"
    BY <2>1, <2>3 DEF Synced
  <2> QED
    BY <1>w, <2>1, <2>2, <2>3
<1>5. CASE Resolve
  <2> DEFINE d == Min(fr.todo)
  <2>1. /\ pc = "resolve"
        /\ \/ pc' = "resolve" /\ fr' = [fr EXCEPT !.todo = @ \ {d}]
           \/ pc' = fr.then
    BY <1>5, <1>t DEF Resolve
  <2> HIDE DEF d
  <2>2. pc' = "resolve" => fr'.then = fr.then
    BY <1>f, <1>w, <2>1 DEF Frame
  <2>3. fr.then = "quote"
    BY <1>w, <2>1, <2>2 DEF Synced
  <2> QED
    BY <2>1, <2>3 DEF Synced
<1>6. CASE ReconcileAccount \/ Confirm
  <2>1. \/ pc' = "ca_remaining"
        \/ /\ pc' = "resolve"
           /\ \E s \in SUBSET Ids, t \in {"rec_history", "ca_return"} :
                \/ fr' = [fr EXCEPT !.then = t, !.todo = s]
                \/ fr' = [fr EXCEPT !.todo = s, !.then = t]
    BY <1>6 DEF ReconcileAccount, Confirm, OpenRecords
  <2>2. pc' = "resolve" => fr'.then \in {"rec_history", "ca_return"}
    BY <1>f, <2>1 DEF Frame
  <2> QED
    BY <2>1, <2>2 DEF Synced
<1>7. CASE SideDone \/ Post
  BY <1>7, <1>n, <1>a DEF SideDone, Post
<1>8. CASE Delete \/ Query \/ Refill
  BY <1>8, <1>w, <1>t, <1>a DEF Delete, Query, Refill
<1>9. CASE ReconcileHistory
  BY <1>9, <1>t, <1>a DEF ReconcileHistory
<1>10. CASE CancelRemaining \/ CancelAllDone
  BY <1>10, <1>c, <1>a DEF CancelRemaining, CancelAllDone
<1>11. CASE ResetOpen
  BY <1>11, <1>f DEF ResetOpen
<1>12. CASE GetFails \/ DeleteFails \/ CallRateLimited \/ PostFails
  BY <1>12, <1>r, <1>a DEF GetFails, DeleteFails, CallRateLimited, PostFails
<1>13. CASE AuthFails \/ StopTimesOut
  BY <1>13, <1>f DEF AuthFails, StopTimesOut, Spend, Lenient
<1> QED
  BY <1>1, <1>2, <1>3, <1>4, <1>5, <1>6, <1>7, <1>8, <1>9, <1>10, <1>11, <1>12, <1>13
     DEF Trader, Answered, Failed

\* A step that reads no fills and opens no session.
LEMMA HeldSame ==
    ASSUME ControlInv, RealInv, RealInv', Lenient, CountInv, NeverReset, NeverReset', DoneOK, HeldInv,
           Trader, ~StartupOpen, ~Fills, ~Refill, UNCHANGED << ledger, tape, purged >>, SameSide'
    PROVE  HeldInv'
<1>0. /\ LedgerOK /\ ex \in [Ids -> Placed] /\ Size \in Nat /\ MaxBase \in Nat
      /\ SizeOK /\ SameSide /\ ledger.base \in Int
      /\ Highest + Size \in Int /\ Highest + Size >= MaxBase + Size /\ Highest + Size >= MaxBase
  BY TraderConstants, HighestOK DEF RealInv, DataReal, HeldInv
<1>1. ledger'.base \in Int /\ ledger'.base <= Highest + Size
  BY DEF HeldInv
<1>2. SizeOK'
  BY <1>0, ExSides DEF SizeOK
<1>3. ASSUME session' # "none" PROVE Within(Highest + Size)'
  <2>1. session # "none"
    BY <1>3, WhereTo
  <2>2. CASE pc = "post" /\ fr.side = "bid"
    <3>1. Within(MaxBase)
      BY <2>2 DEF HeldInv, BidDue
    <3> QED
      BY <1>0, <3>1, WithinKept
  <2>3. CASE ~(pc = "post" /\ fr.side = "bid")
    <3>1. Within(Highest + Size)
      BY <2>1 DEF HeldInv
    <3> QED
      BY <1>0, <2>3, <3>1, WithinKept
  <2> QED
    BY <2>2, <2>3
<1>4. ASSUME BidDue' PROVE Within(MaxBase)'
  <2>1. (Quote /\ BidAllowed) \/ (BidDue /\ pc # "post")
    BY <1>4, BidFrom
  <2>2. pc # "post" /\ Within(MaxBase)
    <3>1. CASE BidDue /\ pc # "post"
      BY <3>1 DEF HeldInv
    <3>2. CASE Quote /\ BidAllowed
      <4>1. pc = "quote" /\ OneAhead
        BY <3>2 DEF Quote, HeldInv, Synced
      <4> QED
        BY <1>0, <3>2, <4>1, QuoteWithin
    <3> QED
      BY <2>1, <3>1, <3>2
  <2> QED
    BY <1>0, <2>2, WithinKept
<1>5. ASSUME Synced' PROVE OneAhead'
  <2>1. OneAhead /\ pc # "post"
    BY <1>5, SyncedFrom DEF HeldInv
  <2>2. \A c \in Ids : ex'[c].side = ex[c].side
    BY <2>1, ExSides
  <2>3. \A i \in 1..Len(tape) : ex'[tape[i]].side = ex[tape[i]].side
    BY <1>0, <2>2 DEF LedgerOK
  <2>4. \A c : Unread(c)' = Unread(c)
    BY <1>0, <2>3, AheadSame
  <2>5. \A c \in Live' : c \in Live
    BY <2>1, LiveAfter
  <2>6. \A c \in Ahead' : c \in Ahead
    BY <2>2, <2>4, <2>5 DEF Ahead
  <2> QED
    BY <2>1, <2>6 DEF OneAhead
<1> QED
  BY <1>1, <1>2, <1>3, <1>4, <1>5 DEF HeldInv

LEMMA HeldRead ==
    ASSUME ControlInv, RealInv, RealInv', Lenient, CountInv, NeverReset, NeverReset', OneOrderPerSide, HeldInv,
           Fills \/ Refill
    PROVE  HeldInv'
<1>0. /\ SizeOK /\ SameSide /\ ledger.base \in Int /\ MaxBase \in Int /\ Highest + Size \in Int /\ NamedOK
  BY TraderConstants, HighestOK DEF HeldInv, CountInv
<1>1. /\ ledger'.base \in Int /\ ex' = ex
      /\ \A c : Unread(c)' = {}
      /\ \A b \in Int : Within(b) => ledger'.base <= b /\ Within(b)'
  BY <1>0, WithinRead
<1>2. session # "none"
  BY DEF ControlInv, SessionOK, Starting, Cleared, Outside, Fills, Refill
<1>3. ledger'.base <= Highest + Size /\ Within(Highest + Size)'
  BY <1>0, <1>1, <1>2 DEF HeldInv
<1>4. SameSide' /\ SizeOK'
  <2>1. \A c \in Ids : /\ orders'[c].side = orders[c].side
                       /\ orders[c].state = "none" <=> orders'[c].state = "none"
    BY <1>0, ReadShape
  <2> QED
    BY <1>0, <1>1, <2>1 DEF SameSide, SizeOK
<1>5. ASSUME BidDue' PROVE Within(MaxBase)'
  <2>1. Trader /\ ~Quote
    BY DEF Trader, Answered, Fills, Refill, Quote
  <2>2. BidDue
    BY <1>5, <2>1, BidFrom
  <2> QED
    BY <1>0, <1>1, <2>2 DEF HeldInv
<1>6. OneAhead'
  BY <1>1 DEF OneAhead, Ahead, Live, OneOrderPerSide
<1> QED
  BY <1>1, <1>3, <1>4, <1>5, <1>6 DEF HeldInv

\* _open_session: a fresh balance, and no trade and no order ahead of it.
LEMMA HeldOpen ==
    ASSUME RealInv, RealInv', OwnedOK, HeldInv, StartupOpen
    PROVE  HeldInv'
<1>0. LedgerOK /\ LedgerOK' /\ SizeOK /\ Size \in Nat /\ StartBase \in Nat
  BY TraderConstants DEF RealInv, DataReal, HeldInv
<1>1. /\ pc = "open" /\ pc' = "iterate" /\ UNCHANGED << ex, tape, purged >>
      /\ ledger' = FreshLedger(IF purged < Len(tape) THEN Len(tape) ELSE 0)
      /\ \A c \in Ids : orders'[c] = NoRecord
  BY DEF StartupOpen, OpenSession, Enter, Calm
<1>2. ledger'.base = StartBase /\ ledger'.last = IF purged < Len(tape) THEN Len(tape) ELSE 0
  BY <1>1 DEF FreshLedger
<1>3. SameSide' /\ SizeOK'
  BY <1>0, <1>1, NoRecordFacts DEF SameSide, SizeOK
<1>4. Live' = {}
  BY <1>1 DEF OwnedOK, Live
<1>5. BidsAhead' = {}
  <2>1. Len(tape) \in Nat /\ purged \in 0..Len(tape)
    BY <1>0 DEF LedgerOK
  <2>2. (FromId') = IF ledger'.last >= purged THEN ledger'.last + 1 ELSE purged + 1
    BY <1>0, <1>1, FromIdNext
  <2>3. (FromId') > Len(tape) /\ FromId' \in Int
    BY <1>2, <2>1, <2>2
  <2>4. (FromId')..Len(tape') = {}
    BY <1>1, <2>1, <2>3
  <2> QED
    BY <2>4 DEF BidsAhead
<1>6. Cardinality(BidsAhead)' = 0
  BY <1>5, FS_EmptySet
<1>7. /\ ledger'.base \in Int /\ ledger'.base <= Highest + Size
      /\ ledger'.base + Cardinality(BidsAhead)' <= Highest + Size
  BY <1>0, <1>2, <1>6, HighestOK
<1>8. Within(Highest + Size)'
  BY <1>4, <1>7 DEF Within
<1>9. ~BidDue' /\ ~Synced'
  BY <1>1 DEF BidDue, Synced, Walks
<1> QED
  BY <1>3, <1>7, <1>8, <1>9 DEF HeldInv

LEMMA HeldTrader ==
    ASSUME ControlInv, RealInv, RealInv', Undisturbed, CountInv, DeadInv, NeverReset', HeldInv, Trader
    PROVE  HeldInv'
<1>0. /\ Lenient /\ NeverReset /\ DoneOK /\ OwnedOK /\ OneOrderPerSide /\ SameSide
      /\ orders \in [Ids -> Record] /\ fr \in Frame /\ next \in Nat
  BY DEF Undisturbed, DeadInv, HeldInv, RealInv, DataReal, ControlInv
<1>1. CASE StartupOpen
  BY <1>0, <1>1, HeldOpen
<1>2. CASE Fills \/ Refill
  BY <1>0, <1>2, HeldRead
<1>3. CASE SideDone
  <2>1. UNCHANGED << ex, ledger, tape, purged >> /\ pc = "side"
    BY <1>3 DEF SideDone, Local, Calm
  <2>2. ~StartupOpen /\ ~Fills /\ ~Refill
    BY <2>1 DEF StartupOpen, Fills, Refill
  <2>3. SameSide'
    <3>1. \/ orders' = orders
          \/ orders' = [orders EXCEPT ![next] = [NoRecord EXCEPT !.side = fr.side, !.state = "new"]]
      BY <1>3 DEF SideDone
    <3>2. fr.side \in Sides
      BY <1>0 DEF Frame
    <3>3. \A c \in Ids : c # next => orders'[c] = orders[c]
      BY <1>0, <3>1, <3>2, NewRecord
    <3>4. next \in Ids => ex[next].status = "none"
      BY <1>0 DEF CountInv, FreshOK
    <3> QED
      BY <1>0, <2>1, <3>3, <3>4 DEF SameSide
  <2> QED
    BY <1>0, <2>1, <2>2, <2>3, HeldSame
<1>4. CASE ~StartupOpen /\ ~Fills /\ ~Refill /\ ~SideDone
  <2>1. UNCHANGED << tape, purged >>
    BY <1>0, <1>4, TraderShape
  <2>2. ~ResetOpen
    BY <1>0 DEF NeverReset, ResetOpen
  <2>3. ledger' = ledger /\ RecordsKeep
    BY <1>0, <1>4, <2>2, RecordShape
  <2>4. SameSide'
    <3>1. ASSUME NEW c \in Ids, orders'[c].state # "none", ex'[c].status # "none"
          PROVE  orders'[c].side = ex'[c].side
      <4>1. orders'[c].side = orders[c].side /\ orders[c].state # "none"
        BY <2>3, <3>1 DEF RecordsKeep
      <4> QED
        BY <1>0, <3>1, <4>1, ExSides DEF SameSide
    <3> QED
      BY <3>1 DEF SameSide
  <2> QED
    BY <1>0, <1>4, <2>1, <2>3, <2>4, HeldSame
<1> QED
  BY <1>1, <1>2, <1>3, <1>4

\* A fill moves a unit from what the live bid may buy to what it has bought.
LEMMA HeldFill ==
    ASSUME RealInv, DoneOK, OneOrderPerSide, HeldInv, Fill
    PROVE  HeldInv'
<1>0. /\ LedgerOK /\ ex \in [Ids -> Placed] /\ Size \in Nat /\ MaxBase \in Int /\ Highest + Size \in Int
      /\ SizeOK /\ SameSide /\ ledger.base \in Int
  BY TraderConstants, HighestOK DEF RealInv, DataReal, HeldInv
<1>1. PICK d \in Live :
        /\ ex' = [ex EXCEPT ![d].done = @ + 1,
                            ![d].status = IF ex[d].done + 1 = Size THEN "FILLED" ELSE @]
        /\ tape' = Append(tape, d)
  BY DEF Fill
<1>2. UNCHANGED << pc, fr, orders, session, ledger, purged >>
  BY DEF Fill, Still
<1>3. d \in Ids /\ ex[d].status = "NEW" /\ ex[d].done \in Nat /\ ex[d].done < Size
  BY <1>0 DEF Live, DoneOK, Placed
<1>4. /\ \A c \in Ids : c # d => ex'[c] = ex[c]
      /\ \A c \in Ids : ex'[c].side = ex[c].side
      /\ ex'[d].done = ex[d].done + 1
      /\ ex'[d].status = IF ex[d].done + 1 = Size THEN "FILLED" ELSE "NEW"
  BY <1>0, <1>1, FillStep
<1>5. \A c \in Live' : c \in Live /\ c \in Ids
  BY <1>3, <1>4 DEF Live
<1> DEFINE x == Len(tape) + 1
           n == Cardinality(BidsAhead)
<1>6. /\ Len(tape') = x /\ tape'[x] = d /\ Len(tape) \in Nat /\ FromId \in Nat /\ FromId <= x
      /\ FromId' = FromId /\ FromId >= 1
      /\ \A i \in 1..Len(tape) : tape'[i] = tape[i] /\ tape[i] \in Ids
  <2>1. /\ Len(tape') = x /\ tape'[x] = d /\ \A i \in 1..Len(tape) : tape'[i] = tape[i]
    BY <1>0, <1>1, <1>2, <1>3, FillPassed
  <2>2. /\ FromId \in Nat /\ FromId >= 1 /\ Len(tape) \in Nat
        /\ FromId = IF ledger.last >= purged THEN ledger.last + 1 ELSE purged + 1
    BY <1>0, FromIdOK
  <2>3. ledger.last \in 0..Len(tape) /\ purged \in 0..Len(tape) /\ \A i \in 1..Len(tape) : tape[i] \in Ids
    BY <1>0 DEF LedgerOK
  <2>4. FromId' = FromId
    BY <1>2 DEF FromId
  <2> QED
    BY <2>1, <2>2, <2>3, <2>4
<1>7. /\ (FromId..Len(tape')) = (FromId..Len(tape)) \union {x} /\ x \notin FromId..Len(tape)
      /\ \A i \in FromId..Len(tape) : i \in 1..Len(tape)
  BY <1>6
<1> HIDE DEF x
<1>8. BidsAhead' = IF ex[d].side = "bid" THEN BidsAhead \union {x} ELSE BidsAhead
  <2>1. BidsAhead' = {i \in FromId..Len(tape') : ex'[tape'[i]].side = "bid"}
    BY <1>6 DEF BidsAhead
  <2>2. \A i \in FromId..Len(tape) : ex'[tape'[i]].side = ex[tape[i]].side
    BY <1>4, <1>6, <1>7
  <2>3. ex'[tape'[x]].side = ex[d].side
    BY <1>3, <1>4, <1>6
  <2> QED
    BY <1>7, <2>1, <2>2, <2>3 DEF BidsAhead
<1>9. /\ n \in Nat
      /\ Cardinality(BidsAhead)' = IF ex[d].side = "bid" THEN n + 1 ELSE n
  <2>1. IsFiniteSet(BidsAhead) /\ n \in Nat /\ x \notin BidsAhead
    BY <1>0, <1>7, AheadCount DEF BidsAhead
  <2>2. Cardinality(BidsAhead \union {x}) = n + 1
    BY <2>1, FS_AddElement
  <2> QED
    BY <1>8, <2>1, <2>2
<1> HIDE DEF n
<1>10. ASSUME NEW b \in Int, Within(b) PROVE Within(b)'
  <2>1. ledger.base + n <= b /\ ledger'.base = ledger.base
    BY <1>2, <1>10 DEF Within, n
  <2>2. \A c \in Live : ex[c].side = "bid" => ledger.base + n + (Size - ex[c].done) <= b
    BY <1>10 DEF Within, n
  <2>3. CASE ex[d].side = "bid"
    <3>1. Cardinality(BidsAhead)' = n + 1 /\ ledger.base + n + (Size - ex[d].done) <= b
      BY <1>9, <2>2, <2>3
    <3>2. ledger'.base + Cardinality(BidsAhead)' <= b
      BY <1>0, <1>3, <1>9, <2>1, <3>1
    <3>3. ASSUME NEW c \in Live', ex'[c].side = "bid"
          PROVE  ledger'.base + Cardinality(BidsAhead)' + (Size - ex'[c].done) <= b
      <4>1. c = d
        BY <1>4, <1>5, <2>3, <3>3 DEF OneOrderPerSide
      <4> QED
        BY <1>0, <1>3, <1>4, <1>9, <2>1, <3>1, <4>1
    <3> QED
      BY <3>2, <3>3 DEF Within
  <2>4. CASE ex[d].side # "bid"
    <3>1. Cardinality(BidsAhead)' = n
      BY <1>9, <2>4
    <3>2. ASSUME NEW c \in Live', ex'[c].side = "bid"
          PROVE  c \in Live /\ ex'[c] = ex[c]
      BY <1>4, <1>5, <2>4, <3>2
    <3> QED
      BY <2>1, <2>2, <3>1, <3>2 DEF Within
  <2> QED
    BY <2>3, <2>4
<1>11. Synced' => OneAhead'
  <2>1. ASSUME NEW c \in Ids, c # d PROVE Unread(c)' = Unread(c)
    <3>1. Unread(c)' = {i \in FromId..Len(tape') : tape'[i] = c}
      BY <1>6 DEF Unread
    <3> QED
      BY <1>6, <1>7, <2>1, <3>1 DEF Unread
  <2>2. \A c \in Ahead' : c \in Ahead
    BY <1>3, <1>4, <1>5, <2>1 DEF Ahead
  <2>3. Synced' => Synced
    BY <1>2 DEF Synced
  <2> QED
    BY <2>2, <2>3 DEF OneAhead, HeldInv
<1>12. SameSide' /\ SizeOK'
  <2>1. SizeOK'
    BY <1>0, <1>3, <1>4 DEF SizeOK
  <2>2. SameSide'
    BY <1>0, <1>2, <1>3, <1>4 DEF SameSide
  <2> QED
    BY <2>1, <2>2
<1>13. BidDue' => BidDue
  BY <1>2 DEF BidDue, Walks
<1> QED
  BY <1>0, <1>2, <1>10, <1>11, <1>12, <1>13 DEF HeldInv

LEMMA HeldCrash ==
    ASSUME RealInv, HeldInv, Crash
    PROVE  HeldInv'
<1>0. ex \in [Ids -> Placed] /\ orders \in [Ids -> Record] /\ SizeOK /\ Size \in Nat /\ StartBase \in Nat
  BY TraderConstants DEF RealInv, DataReal, HeldInv
<1>1. /\ ex' = ex \/ ex' = PlaceAtExchange(fr.cur)
      /\ pc' = "loop" /\ session' = "none" /\ ledger' = FreshLedger(0)
      /\ \A c \in Ids : orders'[c] = NoRecord
  BY DEF Crash
<1>2. ledger'.base = StartBase
  BY <1>1 DEF FreshLedger
<1>3. ledger'.base \in Int /\ ledger'.base <= Highest + Size
  BY <1>0, <1>2, HighestOK
<1>4. SameSide'
  BY <1>1, NoRecordFacts DEF SameSide
<1>5. SizeOK'
  <2>1. CASE ex' = ex
    BY <1>0, <2>1 DEF SizeOK
  <2>2. CASE ex' = PlaceAtExchange(fr.cur)
    <3>1. /\ \A c \in Ids : c # fr.cur => ex'[c] = ex[c]
          /\ fr.cur \in Ids => ex'[fr.cur].done = 0
      BY <1>0, <2>2, PlaceStep
    <3> QED
      BY <1>0, <3>1 DEF SizeOK
  <2> QED
    BY <1>1, <2>1, <2>2
<1> QED
  BY <1>1, <1>3, <1>4, <1>5 DEF HeldInv, BidDue, Synced, Walks

LEMMA HeldStep ==
    ASSUME ControlInv, RealInv, RealInv', Undisturbed, CountInv, DeadInv, HeldInv, [Next]_vars
    PROVE  HeldInv'
<1>1. Lenient /\ NeverReset /\ DoneOK /\ OneOrderPerSide
  BY DEF Undisturbed, DeadInv
<1>2. NeverReset'
  BY <1>1, NeverResetStep
<1>3. CASE Trader
  BY <1>2, <1>3, HeldTrader
<1>4. CASE Fill
  BY <1>1, <1>4, HeldFill
<1>5. CASE Crash
  BY <1>5, HeldCrash
<1>6. CASE ToggleKill \/ Stop \/ RevokeKeys \/ UNCHANGED vars
  <2>1. UNCHANGED << ex, pc, fr, orders, session, tape, ledger, purged >>
    BY <1>6 DEF ToggleKill, Stop, RevokeKeys, Still, vars
  <2>2. LedgerOK
    BY DEF RealInv, DataReal
  <2>3. BidsAhead' = BidsAhead /\ \A c : Unread(c)' = Unread(c)
    BY <2>1, <2>2, AheadSame
  <2>4. Live' = Live
    BY <2>1 DEF Live
  <2>5. \A b \in Int : Within(b) => Within(b)'
    BY <2>1, <2>3, <2>4 DEF Within
  <2>6. OneAhead => OneAhead'
    <3>1. Ahead' = Ahead
      BY <2>1, <2>3, <2>4 DEF Ahead
    <3> QED
      BY <3>1 DEF OneAhead
  <2>7. SameSide' /\ SizeOK'
    BY <2>1 DEF HeldInv, SameSide, SizeOK
  <2>8. (BidDue' => BidDue) /\ (Synced' => Synced)
    BY <2>1 DEF BidDue, Synced, Walks
  <2>9. MaxBase \in Int /\ Highest + Size \in Int
    BY TraderConstants, HighestOK
  <2> QED
    BY <2>1, <2>5, <2>6, <2>7, <2>8, <2>9 DEF HeldInv
<1>7. ~ExchangeReset
  BY <1>1 DEF ExchangeReset, NeverReset
<1> QED
  BY <1>3, <1>4, <1>5, <1>6, <1>7 DEF Next, World, Ended

LEMMA HeldInit == Init => HeldInv
<1> SUFFICES ASSUME Init PROVE HeldInv
  OBVIOUS
<1>1. /\ ex = [c \in Ids |-> NoOrder] /\ orders = [c \in Ids |-> NoRecord] /\ pc = "loop"
      /\ session = "none" /\ ledger.base = StartBase
  BY DEF Init, FreshLedger
<1>2. ledger.base \in Int /\ ledger.base <= Highest + Size
  BY <1>1, TraderConstants, HighestOK
<1>3. SameSide /\ SizeOK
  BY <1>1, NoRecordFacts, TraderConstants DEF SameSide, SizeOK
<1> QED
  BY <1>1, <1>2, <1>3 DEF HeldInv, BidDue, Synced, Walks

\* The position with what is ahead of it, while the exchange is not reset: from the moment
\* _quote has approved a bid until it is placed, the balance, the trades of bids that
\* _read_fills has not read and the rest of the live bid stay within max_position_base, and
\* with the bid within one order more, however many calls fail and whatever is filled between
\* the two awaits.  It needs that between a reading of fills and _quote one bid at most is
\* live or unread.
THEOREM TraderHeld == ASSUME Undisturbed PROVE Spec => []HeldInv
<1>1. ControlInv /\ RealInv /\ RealInv' /\ CountInv /\ DeadInv /\ HeldInv /\ [Next]_vars => HeldInv'
  BY HeldStep
<1>2. (Spec => []RealInv) /\ (Spec => []CountInv)
  BY TraderReal, TraderCounts DEF Undisturbed, Lenient
<1> QED
  BY <1>1, <1>2, HeldInit, TraderControl, TraderAgrees, PTL DEF Spec

\* The position stays within max_position_base, or what the session started with, plus one
\* order: the targets of _quote may be one fill out of date, never two.
THEOREM TraderOvershootBounded == ASSUME Undisturbed PROVE Spec => []OvershootBounded
<1>1. HeldInv => OvershootBounded
  BY DEF HeldInv, OvershootBounded, Highest
<1> QED
  BY <1>1, TraderHeld, PTL
=============================================================================
