--------------------------- MODULE MempoolWatcher ---------------------------
(***************************************************************************)
(* The mempool watcher (app/services/mempool): pending swaps are recorded, *)
(* predicted against the newest tracked block and checked against every    *)
(* block that arrives; the state of the pools is rolled forward block by   *)
(* block, and back when the chain is reorganised.                          *)
(*                                                                         *)
(* The three tasks (intake, predict, blocks) interleave at their awaits.   *)
(* The block task has a program counter; its stack holds the headers of    *)
(* the nested calls of _apply that a reorganisation makes.  A block is an  *)
(* id, its number and its transactions.  The state of the pools is the id  *)
(* of the block it is the end state of.  What verify_included finds out    *)
(* about an included swap (reverted, no event, errors in basis points) is  *)
(* one status, "included".  MEMPOOL_MODE is auto.                          *)
(***************************************************************************)
EXTENDS Integers, FiniteSets, Sequences, FiniteSetsExt

CONSTANTS
    Txs,             \* the swaps
    Rivals,          \* sets of swaps with the same sender and nonce
    QueueSize,       \* mempool_queue_size
    ResolveBlocks,   \* mempool_resolve_blocks
    DeferBlocks,     \* blocks a nonce check may be put off, 3 in _nonce
    ReanchorBlocks,  \* mempool_reanchor_blocks
    Alongside,       \* mempool_replay_alongside
    MaxReorgDepth,   \* _MAX_REORG_DEPTH
    MaxCatchUp,      \* _MAX_CATCH_UP
    Checkpoints,     \* max_checkpoints, and the 16 blocks resolved swaps are kept
    HeadLag,         \* head_lag_blocks
    Faults,          \* what may go wrong, of FaultKinds
    MaxFaults,       \* bound: failing calls of the block task, and windows left
    MaxBlocks,       \* bound: blocks ever made
    MaxReorgs,       \* bound: reorganisations
    MaxDrop,         \* bound: blocks one reorganisation removes
    MaxSwitches,     \* bound: losses of the pending feed
    MaxRestarts      \* bound: restarts of the process

FaultKinds == {
    "rpc",        \* a call of the block task fails outside the redo of a reorganisation
    "rpc_redo",   \* ... and inside one
    "window",     \* the price leaves the window of ticks the state was loaded with
    "budget",     \* the call budget of a block is spent
    "late_feed",  \* a swap is announced as pending after it was mined
    "predict",    \* the prediction of a swap raises
    "after",      \* _after_block raises between the swaps it resolves and their rows
    "db"}         \* a database call fails; the code logs it and goes on

ASSUME WatcherConstants ==
    /\ Txs # {} /\ \A r \in Rivals : r \subseteq Txs
    /\ QueueSize \in Nat \ {0} /\ ResolveBlocks \in Nat \ {0} /\ DeferBlocks \in Nat
    /\ ReanchorBlocks \in Nat \ {0} /\ Alongside \in BOOLEAN
    /\ MaxReorgDepth \in Nat /\ MaxCatchUp \in Nat \ {0} /\ Checkpoints \in Nat \ {0}
    /\ HeadLag \in Nat /\ Faults \subseteq FaultKinds
    /\ MaxFaults \in Nat /\ MaxBlocks \in Nat /\ MaxReorgs \in Nat /\ MaxDrop \in Nat
    /\ MaxSwitches \in Nat /\ MaxRestarts \in Nat

VARIABLES
    \* the chain, as the endpoint shows it
    chain,      \* block number -> the block
    made,       \* blocks ever made; a block's id is its turn
    \* the intake and predict tasks
    mode,       \* _mode
    recorded,   \* _recorded
    queue,      \* _queue
    pred,       \* the predict task: pc, its swap, the number of the block it predicts on
    watched,    \* _watched: swap -> seen_head_block, 0 when it is not watched
    byNonce,    \* the values of _by_nonce, at most one of a set of rivals
    dropped,    \* the swaps counted by dropped_queue and dropped_budget
    \* the block task
    pc,         \* where it is
    stack,      \* the headers of the calls of _apply in progress
    anchor,     \* the id in the header _anchor_at has read
    bt,         \* its other locals
    tracker,    \* PoolStateTracker._blocks: number -> id and the state it stands for
    sinceAnchor,\* blocks_since_anchor
    lastBlock,  \* _last_block, 0 when None
    resolvedBy, \* _resolved_by_block: number -> the watched swaps it resolved
    \* the database and the bounds
    db,         \* mempool_swaps: the row of a swap
    used,       \* how much of each bound is used
    \* auxiliary: what goes wrong without a trace in the variables above
    lost,       \* swaps whose final row an error kept from being written, or a late
                \* "pending" overwrote
    hidden      \* an anchor took the place of another tracked block unseen, or
                \* blocks were left out to catch up

chainVars == << chain, made >>
intakeVars == << mode, recorded, queue >>
predictVars == << pred, dropped >>
blockVars == << pc, stack, anchor, bt, tracker, sinceAnchor, lastBlock, resolvedBy >>
auxVars == << lost, hidden >>
vars == << chainVars, intakeVars, predictVars, watched, byNonce, blockVars, db, used, auxVars >>

\* The swaps with t's sender and nonce, t among them.
Slot(t) == {t} \union UNION {r \in Rivals : t \in r}

Numbers == 1..MaxBlocks
Statuses == {"none", "pending", "no_state", "included", "replaced", "not_included"}
NoRow == [mode |-> "none", status |-> "none", block |-> 0]
Live(status, block) == [mode |-> "live", status |-> status, block |-> block]
Replayed(block) == [mode |-> "replay", status |-> "included", block |-> block]

Empty == [x \in {} |-> 0]
NoLocals == [num |-> 0, head |-> 0, why |-> "none", todo |-> Empty, done |-> Empty, replays |-> {}]
IdlePred == [pc |-> "idle", tx |-> CHOOSE t \in Txs : TRUE, head |-> 0]

\* The newest tracked block; 0 when there is none.
Latest(tr) == IF DOMAIN tr = {} THEN 0 ELSE Max(DOMAIN tr)
Header(n) == [num |-> n, id |-> chain[n].id, parent |-> IF n = 1 THEN 0 ELSE chain[n - 1].id,
              txs |-> chain[n].txs]
Top == stack[Len(stack)]
OnChain(id) == \E n \in DOMAIN chain : chain[n].id = id

\* The head, less the lag, and one before it exist from the start.
FirstLength == HeadLag + 2
Init ==
    /\ chain = [n \in 1..FirstLength |-> [id |-> n, txs |-> {}]] /\ made = FirstLength
    /\ mode = "live" /\ recorded = {} /\ queue = << >>
    /\ pred = IdlePred /\ dropped = {}
    /\ watched = [t \in Txs |-> 0] /\ byNonce = {}
    /\ pc = "poll" /\ stack = << >> /\ anchor = 0 /\ bt = NoLocals /\ tracker = Empty /\ sinceAnchor = 0 /\ lastBlock = 0
    /\ resolvedBy = Empty
    /\ db = [t \in Txs |-> NoRow]
    /\ used = [faults |-> 0, reorgs |-> 0, switches |-> 0, restarts |-> 0]
    /\ lost = {} /\ hidden = FALSE

-----------------------------------------------------------------------------
\* The chain.

Mined == UNION {chain[n].txs : n \in DOMAIN chain}

\* A block is made; of rivals, one is ever on a chain.
Mine(txs) ==
    /\ made < MaxBlocks
    /\ \A t \in txs : Slot(t) \intersect Mined = {} /\ Slot(t) \intersect txs = {t}
    /\ made' = made + 1
    /\ chain' = Append(chain, [id |-> made + 1, txs |-> txs])
    /\ UNCHANGED << intakeVars, predictVars, watched, byNonce, blockVars, db, used,
                    auxVars >>

\* The newest k blocks are given up; others are made in their place.
Reorg(k) ==
    /\ used.reorgs < MaxReorgs /\ Len(chain) - k >= FirstLength
    /\ chain' = SubSeq(chain, 1, Len(chain) - k)
    /\ used' = [used EXCEPT !.reorgs = @ + 1]
    /\ UNCHANGED << made, intakeVars, predictVars, watched, byNonce, blockVars, db, auxVars >>

-----------------------------------------------------------------------------
\* The intake task.

\* A write may fail: _persist_swaps logs it and goes on.
Writes == IF "db" \in Faults THEN BOOLEAN ELSE {TRUE}

\* A row written while the predict task's "pending" of the swap is on its way to
\* the database is overwritten by it.
Overtaken == IF pred.pc = "pending" THEN {pred.tx} ELSE {}

\* The final rows of these swaps are written, or not.
FinalRows(txs, ok) == lost' = IF ok THEN (lost \ txs) \union (txs \intersect Overtaken)
                                    ELSE lost \union txs

\* put_nowait, unless the queue is full.
QueueFull(q) == Len(q) = QueueSize

\* on_pending, with _replace_same_nonce, for a swap that decodes: a watched
\* rival is closed at once.  A swap seen before only shows that the feed lives.
OnPending(t) ==
    LET new == watched[t] = 0 /\ t \notin recorded
        old == {u \in byNonce \intersect (Slot(t) \ {t}) : watched[u] # 0}
    IN /\ (new \/ mode = "replay")
       /\ t \in Mined => "late_feed" \in Faults
       /\ mode' = "live"
       /\ recorded' = recorded \union {t}
       /\ IF new
          THEN /\ watched' = [u \in Txs |-> IF u \in old THEN 0 ELSE watched[u]]
               /\ \E ok \in Writes :
                     /\ db' = [u \in Txs |-> IF ok /\ u \in old THEN Live("replaced", 0)
                                             ELSE db[u]]
                     /\ FinalRows(old, ok)
               /\ IF QueueFull(queue)
                  THEN dropped' = dropped \union {t} /\ queue' = queue
                  ELSE queue' = Append(queue, t) /\ dropped' = dropped
          ELSE UNCHANGED << watched, db, lost, queue, dropped >>
       /\ UNCHANGED << chainVars, pred, byNonce, blockVars, used, hidden >>

\* _set_mode("replay", ...).
ToReplay ==
    /\ mode = "live" /\ used.switches < MaxSwitches
    /\ mode' = "replay" /\ used' = [used EXCEPT !.switches = @ + 1]
    /\ UNCHANGED << chainVars, recorded, queue, predictVars, watched, byNonce, blockVars, db,
                    auxVars >>

\* _intake_loop: every source refuses.
SourcesRefuse == ToReplay

\* _check_grace, at the end of a round of the block task.
CheckGrace == pc = "poll" /\ ToReplay

-----------------------------------------------------------------------------
\* The predict task.

PredictNext(p) ==
    /\ pred' = p
    /\ UNCHANGED << chainVars, mode, recorded, byNonce, blockVars, used, hidden >>

\* _predict_item takes the newest tracked state, or waits for one.
PredictTake ==
    /\ pred.pc = "idle" /\ queue # << >>
    /\ queue' = Tail(queue)
    /\ PredictNext([pc |-> IF tracker = Empty THEN "wait" ELSE "predict",
                    tx |-> Head(queue), head |-> Latest(tracker)])
    /\ UNCHANGED << dropped, watched, db, lost >>

PredictWait ==
    /\ pred.pc = "wait" /\ tracker # Empty
    /\ PredictNext([pred EXCEPT !.pc = "predict", !.head = Latest(tracker)])
    /\ UNCHANGED << queue, dropped, watched, db, lost >>

\* 15 s without a state, or the quote of an earlier hop failed.
PredictNoState ==
    /\ \/ pred.pc = "wait" /\ tracker = Empty
       \/ pred.pc = "predict" /\ "rpc" \in Faults
    /\ PredictNext([pred EXCEPT !.pc = "no_state"])
    /\ UNCHANGED << queue, dropped, watched, db, lost >>

PredictOverBudget ==
    /\ pred.pc = "predict" /\ "budget" \in Faults
    /\ dropped' = dropped \union {pred.tx}
    /\ PredictNext(IdlePred)
    /\ UNCHANGED << queue, watched, db, lost >>

\* _predict_loop logs whatever else the quotes, the scan or the prediction raise:
\* the swap is neither watched nor counted and has no row.
PredictFails ==
    /\ pred.pc = "predict" /\ "predict" \in Faults
    /\ lost' = lost \union {pred.tx}
    /\ PredictNext(IdlePred)
    /\ UNCHANGED << queue, dropped, watched, db >>

\* The prediction is made: the swap is watched, on the block read at the start.
PredictStore ==
    /\ pred.pc = "predict"
    /\ watched' = [watched EXCEPT ![pred.tx] = pred.head]
    /\ byNonce' = (byNonce \ Slot(pred.tx)) \union {pred.tx}
    /\ pred' = [pred EXCEPT !.pc = "pending"]
    /\ UNCHANGED << chainVars, intakeVars, dropped, blockVars, db, used, auxVars >>

\* _persist_swaps in a thread.  A swap without its row "pending" is watched
\* nevertheless.
PredictPersist ==
    /\ pred.pc \in {"pending", "no_state"}
    /\ \E ok \in Writes :
          /\ db' = IF ok THEN [db EXCEPT ![pred.tx] = Live(pred.pc, 0)] ELSE db
          /\ IF pred.pc = "no_state" THEN FinalRows({pred.tx}, ok) ELSE lost' = lost
    /\ PredictNext(IdlePred)
    /\ UNCHANGED << queue, dropped, watched >>

-----------------------------------------------------------------------------
\* The tracker.

\* _trim.
Trim(tr) ==
    LET kept == {n \in DOMAIN tr : Cardinality({m \in DOMAIN tr : m > n}) < Checkpoints}
    IN [n \in kept |-> tr[n]]

\* anchor: later blocks go.  The id comes from the header, the state from later
\* reads of the same number, taken as one: no block comes back once it is given
\* up, so reads that mix two blocks are, like those of another block, wrong only
\* for an id that has left the chain.
Anchored(tr, n, id, state) ==
    Trim([m \in {k \in DOMAIN tr : k < n} \union {n} |->
            IF m = n THEN [id |-> id, state |-> state] ELSE tr[m]])

RewindTo(tr, n) == [m \in {k \in DOMAIN tr : k <= n} |-> tr[m]]

\* apply_block: StateGap, ReorgDetected, or the block's events on the state before it.
Follows(tr, h) == h.num - 1 \in DOMAIN tr /\ \A m \in DOMAIN tr : m < h.num
SameParentAny(tr, h) == TRUE   \* mutant
SameParent(tr, h) == h.parent = tr[h.num - 1].id
Applies(tr, h) == Follows(tr, h) /\ SameParent(tr, h)
Applied(tr, h) ==
    LET state == IF tr[h.num - 1].state = h.parent THEN h.id ELSE 0
    IN Trim([m \in DOMAIN tr \union {h.num} |->
               IF m = h.num THEN [id |-> h.id, state |-> state] ELSE tr[m]])

\* needs_reanchor: no state, an old anchor, or the price has left the window that
\* the newest state was loaded with (window_is_safe).
NeedsReanchor(left) == tracker = Empty \/ sinceAnchor >= ReanchorBlocks \/ left

-----------------------------------------------------------------------------
\* The block task.

\* _restore_from: the swaps resolved by blocks >= n are watched again.
RestoredLate(n) == UNION {resolvedBy[m] : m \in {k \in DOMAIN resolvedBy : k > n}}   \* mutant
Restored(n) == UNION {resolvedBy[m] : m \in {k \in DOMAIN resolvedBy : k >= n}}
RestoreFrom(n) ==
    /\ watched' = [t \in Txs |-> IF \E r \in Restored(n) : r.tx = t
                                 THEN (CHOOSE r \in Restored(n) : r.tx = t).head
                                 ELSE watched[t]]
    /\ resolvedBy' = [m \in {k \in DOMAIN resolvedBy : k < n} |-> resolvedBy[m]]

\* An exception, or BlockNotReady: back to the poll.
GiveUp == pc' = "poll" /\ stack' = << >> /\ anchor' = 0 /\ bt' = NoLocals

\* _after_block walks a snapshot of the watched swaps; only those that are in
\* the block or overdue make it await.  After the last one the swaps to replay
\* are chosen.
Overdue(h, seen) == h.num - seen >= ResolveBlocks
Todo(h, w) ==
    LET due == {t \in Txs : w[t] # 0 /\ (t \in h.txs \/ Overdue(h, w[t]))}
    IN [t \in due |-> w[t]]
Verifying(h, w, todo, done) ==
    LET last == DOMAIN todo = {}
    IN /\ pc' = IF last THEN "persist" ELSE "verify"
       /\ anchor' = 0
       /\ bt' = [bt EXCEPT !.todo = todo, !.done = done,
                           !.replays = IF last /\ (mode = "replay" \/ Alongside)
                                       THEN {t \in h.txs : t \notin DOMAIN done /\ w[t] = 0} ELSE {}]

\* apply_block succeeds on tracker tr and _after_block begins, or it raises.
ApplyTo(tr, since, w, calls) ==
    LET h == calls[Len(calls)]
    IN IF Applies(tr, h)
       THEN /\ tracker' = Applied(tr, h) /\ sinceAnchor' = since + 1
            /\ stack' = calls /\ Verifying(h, w, Todo(h, w), Empty)
       ELSE GiveUp /\ tracker' = tr /\ sinceAnchor' = since

Alone == UNCHANGED << chainVars, intakeVars, predictVars >>
BlockStep == Alone /\ UNCHANGED used

\* The anchor takes the place of another block: anchor() compares the states of
\* the two, not their ids.
Replaces(n) == n \in DOMAIN tracker /\ tracker[n].id # anchor

\* _block_loop: the head; too far behind, the watcher starts at the head.
ToHeader(n, head) ==
    pc' = "header" /\ stack' = << >> /\ anchor' = 0 /\ bt' = [NoLocals EXCEPT !.num = n, !.head = head]
Poll ==
    LET head == Len(chain) - HeadLag
        far == lastBlock # 0 /\ head - lastBlock > MaxCatchUp
        last == IF lastBlock = 0 \/ far THEN head - 1 ELSE lastBlock
    IN /\ pc = "poll" /\ last < head
       /\ lastBlock' = last /\ ToHeader(last + 1, head)
       /\ hidden' = (hidden \/ far)
       /\ BlockStep /\ UNCHANGED << watched, byNonce, tracker, sinceAnchor, resolvedBy, db, lost >>

\* _apply up to the logs.
ReadHeader ==
    /\ pc = "header"
    /\ \/ bt.num \notin DOMAIN chain /\ GiveUp /\ used' = used
       \/ /\ bt.num \in DOMAIN chain
          /\ \E left \in BOOLEAN :
                /\ left => "window" \in Faults /\ used.faults < MaxFaults
                /\ used' = [used EXCEPT !.faults = IF left THEN @ + 1 ELSE @]
                /\ pc' = IF NeedsReanchor(left) THEN "anchor" ELSE "logs"
          /\ stack' = Append(stack, Header(bt.num))
          /\ bt' = [bt EXCEPT !.why = "before"] /\ anchor' = anchor
    /\ Alone /\ UNCHANGED << watched, byNonce, tracker, sinceAnchor, lastBlock, resolvedBy, db,
                                 auxVars >>

\* The predecessor is to be anchored.
ToAnchor(why) ==
    /\ pc' = "anchor" /\ bt' = [bt EXCEPT !.why = why]
    /\ UNCHANGED << stack, anchor, watched, resolvedBy, tracker >>

\* The blocks from h's predecessor on are dropped, and it is read again.
RedoNothing(h) == GiveUp /\ UNCHANGED << watched, resolvedBy, tracker >>   \* mutant
Redo(h) ==
    /\ tracker' = RewindTo(tracker, h.num - 2)
    /\ RestoreFrom(h.num - 1)
    /\ pc' = "header" /\ bt' = [bt EXCEPT !.num = h.num - 1]
    /\ UNCHANGED << stack, anchor >>

\* _apply with the logs: the block is applied, or its predecessor is anchored
\* after a gap, or after a reorganisation the predecessor is processed first.
ApplyBlock ==
    /\ pc = "logs"
    /\ \/ /\ Applies(tracker, Top)
          /\ ApplyTo(tracker, sinceAnchor, watched, stack)
          /\ UNCHANGED << watched, resolvedBy >>
       \/ /\ ~Follows(tracker, Top)
          /\ ToAnchor("gap") /\ UNCHANGED sinceAnchor
       \/ /\ Follows(tracker, Top) /\ ~SameParent(tracker, Top)
          /\ IF Len(stack) > MaxReorgDepth \/ Top.num - 2 \notin DOMAIN tracker
             THEN ToAnchor("reorg") ELSE Redo(Top)
          /\ UNCHANGED sinceAnchor
    /\ BlockStep /\ UNCHANGED << byNonce, lastBlock, db, auxVars >>

\* _anchor_at(number - 1): the header, then the pools.
AnchorHeader ==
    LET n == Top.num - 1
    IN /\ pc = "anchor"
       /\ IF n \notin DOMAIN chain THEN GiveUp
          ELSE pc' = "load" /\ anchor' = chain[n].id /\ UNCHANGED << stack, bt >>
       /\ BlockStep /\ UNCHANGED << watched, byNonce, tracker, sinceAnchor, lastBlock, resolvedBy,
                                    db, auxVars >>

AnchorLoad ==
    LET n == Top.num - 1
        tr == Anchored(tracker, n, anchor, chain[n].id)
    IN /\ pc = "load"
       /\ \/ n \notin DOMAIN chain /\ GiveUp /\ UNCHANGED << tracker, sinceAnchor, watched, resolvedBy >>
          \/ /\ n \in DOMAIN chain /\ bt.why = "before"
             /\ tracker' = tr /\ sinceAnchor' = 0
             /\ pc' = "logs" /\ anchor' = 0
             /\ UNCHANGED << stack, bt, watched, resolvedBy >>
          \/ /\ n \in DOMAIN chain /\ bt.why = "gap"
             /\ ApplyTo(tr, 0, watched, stack)
             /\ UNCHANGED << watched, resolvedBy >>
          \/ /\ n \in DOMAIN chain /\ bt.why = "reorg"
             /\ RestoreFrom(n)
             /\ ApplyTo(tr, 0, watched', stack)
       /\ hidden' = (hidden \/ (n \in DOMAIN chain /\ bt.why # "reorg" /\ Replaces(n)))
       /\ BlockStep /\ UNCHANGED << byNonce, lastBlock, db, lost >>

\* An exception in _after_block takes with it what the block has resolved so far.
Abandon == GiveUp /\ lost' = lost \union DOMAIN bt.done

\* The answer about one swap is there: it is resolved.  A swap that is no
\* longer watched by then makes the del raise.
Resolve(t, row) ==
    /\ IF watched[t] = 0
       THEN Abandon /\ UNCHANGED << watched, byNonce >>
       ELSE /\ lost' = lost
            /\ watched' = [watched EXCEPT ![t] = 0]
            /\ byNonce' = byNonce \ Slot(t)
            /\ stack' = stack
            /\ Verifying(Top, watched',
                         [u \in DOMAIN bt.todo \ {t} |-> bt.todo[u]],
                         [u \in DOMAIN bt.done \union {t} |->
                             IF u = t THEN [head |-> bt.todo[t], row |-> row] ELSE bt.done[u]])
    /\ BlockStep /\ UNCHANGED << tracker, sinceAnchor, lastBlock, resolvedBy, db, hidden >>

VerifyIncluded(t) ==
    /\ pc = "verify" /\ t \in DOMAIN bt.todo /\ t \in Top.txs
    /\ Resolve(t, Live("included", Top.id))

\* resolve_unincluded on the sender's nonce: replaced when it has moved on.
NonceMoved(t, n) == \E m \in DOMAIN chain : m <= n /\ chain[m].txs \intersect Slot(t) # {}
CheckNonce(t) ==
    /\ pc = "verify" /\ t \in DOMAIN bt.todo /\ t \notin Top.txs
    /\ Resolve(t, Live(IF NonceMoved(t, Top.num) THEN "replaced" ELSE "not_included", 0))

\* _nonce without an answer: put off, until the swap is long overdue.
LongOverdue(h, seen) == h.num - seen >= ResolveBlocks + DeferBlocks
DeferredGone(t) == [watched EXCEPT ![t] = 0]   \* mutant
Deferred(t) == watched
NonceUnanswered(t) ==
    /\ pc = "verify" /\ t \in DOMAIN bt.todo /\ t \notin Top.txs
    /\ Faults \intersect {"budget", "rpc"} # {}
    /\ IF LongOverdue(Top, bt.todo[t]) THEN Resolve(t, Live("not_included", 0))
       ELSE /\ watched' = Deferred(t)
            /\ stack' = stack
            /\ Verifying(Top, watched',
                         [u \in DOMAIN bt.todo \ {t} |-> bt.todo[u]], bt.done)
            /\ BlockStep /\ UNCHANGED << byNonce, tracker, sinceAnchor, lastBlock, resolvedBy, db,
                                         auxVars >>

\* The receipt, verify_included, replay_block or block_visibility raises.
AfterBlockFails ==
    /\ pc \in {"verify", "persist"} /\ "after" \in Faults
    /\ used.faults < MaxFaults /\ used' = [used EXCEPT !.faults = @ + 1]
    /\ Abandon
    /\ UNCHANGED << chainVars, intakeVars, predictVars, watched, byNonce, tracker, sinceAnchor,
                    lastBlock, resolvedBy, db, hidden >>

\* The end of _after_block: rows, originals, and then the caller: the rest of
\* the outer _apply, or the next number, or the poll.
PersistBlock ==
    LET h == Top
        outer == SubSeq(stack, 1, Len(stack) - 1)
        originals == {[tx |-> t, head |-> bt.done[t].head] : t \in DOMAIN bt.done}
        kept == {n \in DOMAIN resolvedBy : n >= h.num - Checkpoints}
    IN /\ pc = "persist"
       /\ \E ok \in Writes :
             /\ db' = [t \in Txs |->
                          IF ok /\ t \in DOMAIN bt.done THEN bt.done[t].row
                          ELSE IF ok /\ t \in bt.replays THEN Replayed(h.id) ELSE db[t]]
             /\ FinalRows(DOMAIN bt.done, ok)
       /\ resolvedBy' = [n \in kept \union {h.num} |->
                            IF n = h.num THEN originals ELSE resolvedBy[n]]
       /\ lastBlock' = h.num
       /\ IF outer # << >> THEN ApplyTo(tracker, sinceAnchor, watched, outer)
          ELSE /\ IF h.num < bt.head THEN ToHeader(h.num + 1, bt.head) ELSE GiveUp
               /\ UNCHANGED << tracker, sinceAnchor >>
       /\ BlockStep /\ UNCHANGED << watched, byNonce, hidden >>

\* A call of the block task fails; _block_loop waits and polls again.
Redoing == Len(stack) > 1 \/ (stack # << >> /\ pc = "header")
BlockFails ==
    /\ pc \in {"header", "anchor", "load", "logs"}
    /\ (IF Redoing THEN "rpc_redo" ELSE "rpc") \in Faults
    /\ used.faults < MaxFaults /\ used' = [used EXCEPT !.faults = @ + 1]
    /\ GiveUp
    /\ UNCHANGED << chainVars, intakeVars, predictVars, watched, byNonce, tracker, sinceAnchor,
                    lastBlock, resolvedBy, db, auxVars >>

\* The process ends and starts again: _close_stale_records, unless it cannot read
\* the rows, and nothing else is left.
Restart ==
    /\ used.restarts < MaxRestarts
    /\ used' = [used EXCEPT !.restarts = @ + 1]
    /\ mode' = "live" /\ recorded' = {} /\ queue' = << >> /\ pred' = IdlePred /\ dropped' = {}
    /\ watched' = [t \in Txs |-> 0] /\ byNonce' = {} /\ GiveUp
    /\ tracker' = Empty /\ sinceAnchor' = 0 /\ lastBlock' = 0 /\ resolvedBy' = Empty
    /\ \E ok \in Writes :
          /\ db' = [t \in Txs |-> IF ok /\ db[t].status = "pending"
                                  THEN [db[t] EXCEPT !.status = "no_state"] ELSE db[t]]
          /\ lost' = IF ok THEN {} ELSE {t \in Txs : db[t].status = "pending"}
    /\ UNCHANGED << chainVars, hidden >>

Intake == (\E t \in Txs : OnPending(t)) \/ SourcesRefuse \/ CheckGrace
Predict == PredictTake \/ PredictWait \/ PredictNoState \/ PredictOverBudget
           \/ PredictFails \/ PredictStore \/ PredictPersist
Blocks ==
    \/ Poll \/ ReadHeader \/ ApplyBlock \/ AnchorHeader \/ AnchorLoad \/ PersistBlock
    \/ \E t \in Txs : VerifyIncluded(t) \/ CheckNonce(t) \/ NonceUnanswered(t)
Chain == (\E txs \in SUBSET Txs : Mine(txs)) \/ (\E k \in 1..MaxDrop : Reorg(k))

Next == Chain \/ Intake \/ Predict \/ Blocks \/ BlockFails \/ AfterBlockFails \/ Restart

Spec == Init /\ [][Next]_vars

\* The tasks run when they can; calls end.
FairSpec == Spec /\ WF_vars(Blocks) /\ WF_vars(Predict)

-----------------------------------------------------------------------------
\* Properties.

\* Every variable holds a value of its kind, and the queue is no longer than
\* mempool_queue_size (FR-019).
TypeOK ==
    /\ made \in Numbers /\ Len(chain) <= made
    /\ \A n \in DOMAIN chain : chain[n].id \in 1..made /\ chain[n].txs \subseteq Txs
    /\ mode \in {"live", "replay"} /\ recorded \subseteq Txs /\ dropped \subseteq Txs
    /\ Len(queue) <= QueueSize /\ \A i \in DOMAIN queue : queue[i] \in Txs
    /\ pred \in [pc : {"idle", "wait", "predict", "pending", "no_state"}, tx : Txs, head : 0..MaxBlocks]
    /\ watched \in [Txs -> 0..MaxBlocks] /\ byNonce \subseteq Txs
    /\ pc \in {"poll", "header", "anchor", "load", "logs", "verify", "persist"}
    /\ DOMAIN tracker \subseteq Numbers /\ Cardinality(DOMAIN tracker) <= Checkpoints
    /\ lastBlock \in 0..MaxBlocks /\ DOMAIN resolvedBy \subseteq Numbers
    /\ db \in [Txs -> [mode : {"none", "live", "replay"}, status : Statuses, block : 0..MaxBlocks]]
    /\ lost \subseteq Txs /\ hidden \in BOOLEAN

\* Whatever reorganisations, gaps and half-done reads happen, the state that is
\* tracked for a block of the chain is the state of that block: predictions are
\* made against the pools as they are (apply_block's check of the parent hash).
PoolStateIsExact ==
    \A n \in DOMAIN tracker :
        n \in DOMAIN chain /\ chain[n].id = tracker[n].id => tracker[n].state = tracker[n].id

\* Between blocks, when the newest block processed is on the chain, a swap that
\* was verified in a block that is not is watched again (FR-014; _restore_from).
\* A restart forgets what the process before it verified, and an anchor or a
\* catch-up may pass over a reorganisation unseen (hidden).
InSync ==
    /\ pc = "poll" /\ lastBlock # 0 /\ Latest(tracker) = lastBlock
    /\ lastBlock \in DOMAIN chain /\ chain[lastBlock].id = tracker[lastBlock].id
RedoneAfterReorg ==
    InSync /\ used.restarts = 0 /\ ~hidden =>
        \A t \in Txs : db[t].mode = "live" /\ db[t].status = "included" =>
            OnChain(db[t].block) \/ watched[t] # 0 \/ t \in lost

\* A swap that was taken up is queued, being predicted, watched, being resolved,
\* counted as dropped, or has a final row; and no row says "pending" of a swap
\* that nobody follows (SC-003, FR-019; _after_block deletes before it persists).
\* The exceptions are the swaps whose prediction or verification raised, whose
\* final row the database refused, or whose "pending" row came after the final one.
Followed(t) ==
    \/ \E i \in DOMAIN queue : queue[i] = t
    \/ pred.pc # "idle" /\ pred.tx = t
    \/ watched[t] # 0 \/ t \in DOMAIN bt.done
NothingLost ==
    \A t \in Txs :
        /\ db[t].status = "pending" => Followed(t) \/ t \in lost
        /\ t \in recorded => \/ Followed(t) \/ t \in dropped \/ db[t].status # "none"
                             \/ t \in lost

\* "replaced" is said only of a swap that has a rival (FR-005).
ReplacedHasRival == \A t \in Txs : db[t].status = "replaced" => Slot(t) # {t}

\* After the last block the watcher is at the head, whatever failed on the way
\* (_block_loop, _apply).
CatchesUp == <>[](lastBlock >= Len(chain) - HeadLag)
=============================================================================
