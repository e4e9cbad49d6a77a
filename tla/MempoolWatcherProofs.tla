------------------------ MODULE MempoolWatcherProofs ------------------------
(***************************************************************************)
(* Theorems about MempoolWatcher, for every chain, every number of         *)
(* reorganisations, failures, swaps and restarts: the pool state tracked   *)
(* for a block of the chain is that block's, and a swap that was taken up  *)
(* is not lost.  For one reorganisation of bounded depth: what the blocks  *)
(* it gives up had resolved is watched again.                              *)
(***************************************************************************)
EXTENDS MempoolWatcher, SequenceTheorems, FiniteSetTheorems, WellFoundedInduction, TLAPS

Block == [id : Nat, txs : SUBSET Txs]
BlockHeader == [num : Nat, id : Nat, parent : Nat, txs : SUBSET Txs]

\* Ids are handed out in order, so a new block never has the id of an old one.
ChainOK ==
    /\ made \in Nat /\ chain \in Seq(Block) /\ Len(chain) <= made
    /\ \A n \in 1..Len(chain) : chain[n].id <= made

\* A header in flight whose block is still on the chain names the block before it.
HeaderOK(h) ==
    /\ h \in BlockHeader /\ h.id <= made /\ h.num <= made
    /\ h.num \in 1..Len(chain) /\ h.num - 1 \in 1..Len(chain) /\ chain[h.num].id = h.id
          => h.parent = chain[h.num - 1].id
StackOK ==
    /\ stack \in Seq(BlockHeader) /\ \A i \in 1..Len(stack) : HeaderOK(stack[i])
    /\ pc \in {"anchor", "load", "logs", "verify", "persist"} => stack # << >>

\* What is tracked under a number, and its exactness.
EntryOK(n, e) ==
    /\ n \in Nat \ {0} /\ n <= made /\ e.id \in Nat /\ e.id <= made
    /\ n \in 1..Len(chain) /\ chain[n].id = e.id => e.state = e.id
TrackerOK(tr) == \A n \in DOMAIN tr : EntryOK(n, tr[n])

\* The inductive invariant: the exactness of the tracker rests on the headers
\* in flight, and these on the order of the ids.
TrackerInv ==
    /\ ChainOK /\ StackOK /\ anchor \in Nat /\ anchor <= made /\ TrackerOK(tracker)

-----------------------------------------------------------------------------
\* _trim only forgets.
LEMMA TrimOK ==
    ASSUME NEW tr, TrackerOK(tr)
    PROVE  TrackerOK(Trim(tr))
  BY DEF TrackerOK, Trim

\* An anchor read is exact unless the chain changed between its two reads.
LEMMA AnchoredOK ==
    ASSUME TrackerInv, NEW n \in 1..Len(chain)
    PROVE  TrackerOK(Anchored(tracker, n, anchor, chain[n].id))
<1> DEFINE tr == [m \in {k \in DOMAIN tracker : k < n} \union {n} |->
                    IF m = n THEN [id |-> anchor, state |-> chain[n].id] ELSE tracker[m]]
<1>1. ASSUME NEW m \in DOMAIN tr
      PROVE  EntryOK(m, tr[m])
  <2>1. CASE m = n
    <3>1. tr[m].id = anchor /\ tr[m].state = chain[n].id
      BY <2>1
    <3>2. n \in Nat \ {0} /\ n <= made
      BY DEF TrackerInv, ChainOK
    <3> QED
      BY <2>1, <3>1, <3>2 DEF EntryOK, TrackerInv
  <2>2. CASE m # n
    BY <1>1, <2>2 DEF EntryOK, TrackerInv, TrackerOK
  <2> QED
    BY <2>1, <2>2
<1>2. TrackerOK(tr)
  BY <1>1 DEF TrackerOK
<1> HIDE DEF tr
<1>3. TrackerOK(Trim(tr))
  BY <1>2, TrimOK
<1> QED
  BY <1>3 DEF Anchored, tr

\* apply_block keeps the tracker exact: the block's parent is the block it is
\* applied to, so if the block is on the chain the state before it was exact.
LEMMA AppliedOK ==
    ASSUME ChainOK, NEW tr, TrackerOK(tr), NEW h, HeaderOK(h), Applies(tr, h)
    PROVE  TrackerOK(Applied(tr, h))
<1> DEFINE state == IF tr[h.num - 1].state = h.parent THEN h.id ELSE 0
           new == [m \in DOMAIN tr \union {h.num} |->
                     IF m = h.num THEN [id |-> h.id, state |-> state] ELSE tr[m]]
<1>1. h.num - 1 \in DOMAIN tr /\ h.parent = tr[h.num - 1].id
  BY DEF Applies, Follows, SameParent
<1>2. /\ h.num \in Nat /\ h.num <= made /\ h.id \in Nat /\ h.id <= made
      /\ h.num - 1 \in Nat \ {0}
  BY <1>1 DEF HeaderOK, BlockHeader, TrackerOK, EntryOK
<1>3. h.num \in 1..Len(chain) /\ chain[h.num].id = h.id => state = h.id
  BY <1>1, <1>2 DEF HeaderOK, TrackerOK, EntryOK, ChainOK
<1>4. ASSUME NEW m \in DOMAIN new
      PROVE  EntryOK(m, new[m])
  <2>1. CASE m = h.num
    <3>1. new[m].id = h.id /\ new[m].state = state
      BY <2>1
    <3> QED
      BY <1>2, <1>3, <2>1, <3>1 DEF EntryOK
  <2>2. CASE m # h.num
    BY <1>4, <2>2 DEF TrackerOK
  <2> QED
    BY <2>1, <2>2
<1>5. TrackerOK(new)
  BY <1>4 DEF TrackerOK
<1> HIDE DEF new
<1>6. TrackerOK(Trim(new))
  BY <1>5, TrimOK
<1> QED
  BY <1>6 DEF Applied, new, state

\* The same for the step as a whole: applied, or given up.
LEMMA ApplyToOK ==
    ASSUME TrackerInv, NEW tr, TrackerOK(tr), NEW since, NEW w, NEW calls \in Seq(BlockHeader),
           calls # << >>, \A i \in 1..Len(calls) : HeaderOK(calls[i]),
           ApplyTo(tr, since, w, calls), UNCHANGED chainVars
    PROVE  TrackerInv'
<1> DEFINE h == calls[Len(calls)]
<1>1. HeaderOK(h)
  OBVIOUS
<1>2. ChainOK' /\ made' = made /\ chain' = chain
  BY DEF TrackerInv, ChainOK, chainVars
<1>3. CASE Applies(tr, h)
  <2>1. tracker' = Applied(tr, h) /\ stack' = calls /\ anchor' = 0
    BY <1>3 DEF ApplyTo, Verifying
  <2>2. TrackerOK(Applied(tr, h))
    BY <1>1, <1>3, AppliedOK DEF TrackerInv
  <2>3. TrackerOK(tracker)'
    BY <1>2, <2>1, <2>2 DEF TrackerOK, EntryOK
  <2>4. StackOK'
    BY <1>2, <2>1 DEF StackOK, HeaderOK
  <2> QED
    BY <1>2, <2>1, <2>3, <2>4 DEF TrackerInv, ChainOK
<1>4. CASE ~Applies(tr, h)
  <2>1. tracker' = tr /\ stack' = << >> /\ anchor' = 0 /\ pc' = "poll"
    BY <1>4 DEF ApplyTo, GiveUp
  <2>2. TrackerOK(tracker)'
    BY <1>2, <2>1 DEF TrackerOK, EntryOK
  <2>3. StackOK'
    BY <2>1 DEF StackOK
  <2> QED
    BY <1>2, <2>1, <2>2, <2>3 DEF TrackerInv, ChainOK
<1> QED
  BY <1>3, <1>4

\* A step that gives up, or leaves the stack alone, on the same chain and with
\* the same tracker or part of it.
LEMMA QuietOK ==
    ASSUME TrackerInv, UNCHANGED chainVars,
           DOMAIN tracker' \subseteq DOMAIN tracker,
           \A n \in DOMAIN tracker' : tracker'[n] = tracker[n],
           anchor' \in {anchor, 0},
           \/ pc' = "poll" /\ stack' = << >>
           \/ pc' = "header" /\ stack' \in {stack, << >>}
           \/ stack' = stack /\ stack # << >>
           \/ stack' = stack /\ pc' = pc
    PROVE  TrackerInv'
<1>1. made' = made /\ chain' = chain
  BY DEF chainVars
<1>2. ChainOK' /\ (anchor \in Nat)' /\ (anchor <= made)'
  BY <1>1 DEF TrackerInv, ChainOK
<1>3. TrackerOK(tracker)'
  BY <1>1 DEF TrackerInv, TrackerOK, EntryOK
<1>4. StackOK'
  <2>1. CASE stack' = << >> /\ pc' \in {"poll", "header"}
    BY <2>1 DEF StackOK
  <2>2. CASE stack' = stack /\ (stack # << >> \/ pc' = pc \/ pc' \in {"poll", "header"})
    BY <1>1, <2>2 DEF TrackerInv, StackOK, HeaderOK
  <2> QED
    BY <2>1, <2>2
<1> QED
  BY <1>2, <1>3, <1>4 DEF TrackerInv

\* The top of the stack, where the code has one.
LEMMA TopOK ==
    ASSUME TrackerInv, pc \in {"anchor", "load", "logs", "verify", "persist"}
    PROVE  stack # << >> /\ stack \in Seq(BlockHeader) /\ HeaderOK(Top) /\ Top.num \in Nat
  BY DEF TrackerInv, StackOK, Top, HeaderOK, BlockHeader

\* A new block has a new id: nothing tracked and no header in flight is it.
LEMMA MineOK ==
    ASSUME TrackerInv, NEW txs \in SUBSET Txs, Mine(txs)
    PROVE  TrackerInv'
<1> DEFINE new == [id |-> made + 1, txs |-> txs]
<1>1. made' = made + 1 /\ chain' = Append(chain, new) /\ UNCHANGED << pc, stack, anchor, tracker >>
  BY DEF Mine, blockVars
<1>2. made \in Nat /\ chain \in Seq(Block) /\ new \in Block /\ new.id = made + 1
  BY DEF TrackerInv, ChainOK, Block
<1> HIDE DEF new
<1>3. /\ chain' \in Seq(Block) /\ Len(chain') = Len(chain) + 1 /\ Len(chain) \in Nat
      /\ chain'[Len(chain) + 1] = new
      /\ \A n \in 1..Len(chain) : chain'[n] = chain[n]
  BY <1>1, <1>2
<1>4. ChainOK'
  <2>1. \A n \in 1..Len(chain) : chain[n].id \in Nat /\ chain[n].id <= made
    <3>1. \A n \in 1..Len(chain) : chain[n] \in Block
      BY <1>2
    <3> QED
      BY <3>1 DEF TrackerInv, ChainOK, Block
  <2>2. ASSUME NEW n \in 1..Len(chain')
        PROVE  chain'[n].id <= made'
    <3>1. CASE n \in 1..Len(chain)
      BY <1>1, <1>2, <1>3, <2>1, <3>1
    <3>2. CASE n = Len(chain) + 1
      BY <1>1, <1>2, <1>3, <3>2
    <3> QED
      BY <1>3, <3>1, <3>2
  <2>3. made' \in Nat /\ Len(chain') <= made'
    BY <1>1, <1>2, <1>3 DEF TrackerInv, ChainOK
  <2> QED
    BY <1>3, <2>2, <2>3 DEF ChainOK
<1>5. ASSUME NEW n \in DOMAIN tracker
      PROVE  EntryOK(n, tracker[n])'
  <2>1. EntryOK(n, tracker[n])
    BY DEF TrackerInv, TrackerOK
  <2> QED
    BY <1>1, <1>2, <1>3, <2>1 DEF EntryOK
<1>6. ASSUME NEW h, HeaderOK(h)
      PROVE  HeaderOK(h)'
  BY <1>1, <1>2, <1>3, <1>6 DEF HeaderOK, BlockHeader
<1>7. StackOK'
  BY <1>1, <1>6 DEF TrackerInv, StackOK
<1> QED
  BY <1>1, <1>2, <1>4, <1>5, <1>7 DEF TrackerInv, TrackerOK

\* A reorganisation shortens the chain and changes no block that stays.
LEMMA ReorgOK ==
    ASSUME TrackerInv, NEW k \in 1..MaxDrop, Reorg(k)
    PROVE  TrackerInv'
<1>1. made' = made /\ chain' = SubSeq(chain, 1, Len(chain) - k)
      /\ UNCHANGED << pc, stack, anchor, tracker >> /\ Len(chain) - k >= FirstLength
  BY DEF Reorg, blockVars
<1>2. made \in Nat /\ chain \in Seq(Block) /\ Len(chain) \in Nat /\ k \in Nat
  BY WatcherConstants DEF TrackerInv, ChainOK
<1>3. Len(chain) - k \in 0..Len(chain)
  BY <1>1, <1>2, WatcherConstants DEF FirstLength
<1>4. /\ chain' \in Seq(Block) /\ Len(chain') = Len(chain) - k
      /\ \A n \in 1..Len(chain') : n \in 1..Len(chain) /\ chain'[n] = chain[n]
  BY <1>1, <1>2, <1>3
<1>5. ChainOK'
  BY <1>1, <1>4 DEF TrackerInv, ChainOK
<1>6. TrackerOK(tracker)'
  BY <1>1, <1>4 DEF TrackerInv, TrackerOK, EntryOK
<1>7. ASSUME NEW h, HeaderOK(h)
      PROVE  HeaderOK(h)'
  BY <1>1, <1>4, <1>7 DEF HeaderOK
<1>8. StackOK'
  BY <1>1, <1>7 DEF TrackerInv, StackOK
<1> QED
  BY <1>1, <1>5, <1>6, <1>8 DEF TrackerInv

\* A header that is read is that of a block of the chain.
LEMMA ReadHeaderOK ==
    ASSUME TrackerInv, ReadHeader
    PROVE  TrackerInv'
<1>1. UNCHANGED chainVars /\ UNCHANGED tracker
  BY DEF ReadHeader, Alone
<1>2. CASE bt.num \notin DOMAIN chain
  BY <1>1, <1>2, QuietOK DEF ReadHeader, GiveUp
<1>3. CASE bt.num \in DOMAIN chain
  <2>1. made' = made /\ chain' = chain /\ anchor' = anchor /\ tracker' = tracker
        /\ stack' = Append(stack, Header(bt.num))
    BY <1>1, <1>3 DEF ReadHeader, chainVars
  <2>2. chain \in Seq(Block) /\ bt.num \in 1..Len(chain) /\ bt.num \in Nat /\ Len(chain) \in Nat
    BY <1>3 DEF TrackerInv, ChainOK
  <2>3. Header(bt.num) \in BlockHeader
    <3>1. chain[bt.num] \in Block
      BY <2>2
    <3>2. bt.num # 1 => chain[bt.num - 1] \in Block
      BY <2>2
    <3> QED
      BY <2>2, <3>1, <3>2 DEF Header, BlockHeader, Block
  <2>4. HeaderOK(Header(bt.num))
    BY <2>2, <2>3 DEF TrackerInv, ChainOK, HeaderOK, Header
  <2>5. /\ stack \in Seq(BlockHeader) /\ stack' \in Seq(BlockHeader) /\ stack' # << >>
        /\ Len(stack) \in Nat /\ Len(stack') = Len(stack) + 1
        /\ \A i \in 1..Len(stack) : stack'[i] = stack[i]
        /\ stack'[Len(stack) + 1] = Header(bt.num)
    BY <2>1, <2>3 DEF TrackerInv, StackOK
  <2>6. ASSUME NEW i \in 1..Len(stack')
        PROVE  HeaderOK(stack'[i])
    <3>1. CASE i \in 1..Len(stack)
      BY <2>5, <3>1 DEF TrackerInv, StackOK
    <3>2. CASE i = Len(stack) + 1
      BY <2>4, <2>5, <3>2
    <3> QED
      BY <2>5, <3>1, <3>2
  <2>7. StackOK'
    BY <2>1, <2>5, <2>6 DEF StackOK, HeaderOK
  <2>8. ChainOK' /\ TrackerOK(tracker)'
    BY <2>1 DEF TrackerInv, ChainOK, TrackerOK, EntryOK
  <2> QED
    BY <2>1, <2>7, <2>8 DEF TrackerInv
<1> QED
  BY <1>2, <1>3

\* A block is applied, its predecessor is to be anchored, or the tracker rewinds.
LEMMA ApplyBlockOK ==
    ASSUME TrackerInv, ApplyBlock
    PROVE  TrackerInv'
<1>1. UNCHANGED chainVars /\ pc = "logs"
  BY DEF ApplyBlock, BlockStep, Alone
<1>2. stack # << >> /\ stack \in Seq(BlockHeader)
  BY <1>1, TopOK
<1>3. CASE Applies(tracker, Top) /\ ApplyTo(tracker, sinceAnchor, watched, stack)
  <2>1. TrackerOK(tracker) /\ \A i \in 1..Len(stack) : HeaderOK(stack[i])
    BY DEF TrackerInv, StackOK
  <2> QED
    BY <1>1, <1>2, <1>3, <2>1, ApplyToOK
<1>4. ASSUME NEW why, ToAnchor(why)
      PROVE  TrackerInv'
  <2>1. pc' = "anchor" /\ UNCHANGED << stack, anchor, tracker >>
    BY <1>4 DEF ToAnchor
  <2> QED
    BY <1>1, <1>2, <2>1, QuietOK
<1>5. CASE Redo(Top)
  <2>1. /\ pc' = "header" /\ UNCHANGED << stack, anchor >>
        /\ tracker' = RewindTo(tracker, Top.num - 2)
    BY <1>5 DEF Redo
  <2>2. DOMAIN tracker' \subseteq DOMAIN tracker /\ \A n \in DOMAIN tracker' : tracker'[n] = tracker[n]
    BY <2>1 DEF RewindTo
  <2> QED
    BY <1>1, <2>1, <2>2, QuietOK
<1> QED
  BY <1>3, <1>4, <1>5 DEF ApplyBlock

\* The header read for an anchor is that of a block of the chain.
LEMMA AnchorHeaderOK ==
    ASSUME TrackerInv, AnchorHeader
    PROVE  TrackerInv'
<1> DEFINE n == Top.num - 1
<1>1. UNCHANGED chainVars /\ UNCHANGED tracker /\ pc = "anchor"
  BY DEF AnchorHeader, BlockStep, Alone
<1>2. stack # << >>
  BY <1>1, TopOK
<1>3. CASE n \notin DOMAIN chain
  <2>1. pc' = "poll" /\ stack' = << >> /\ anchor' = 0
    BY <1>3 DEF AnchorHeader, GiveUp
  <2> QED
    BY <1>1, <2>1, QuietOK
<1>4. CASE n \in DOMAIN chain
  <2>1. pc' = "load" /\ anchor' = chain[n].id /\ stack' = stack
        /\ made' = made /\ chain' = chain /\ tracker' = tracker
    BY <1>1, <1>4 DEF AnchorHeader, chainVars
  <2>2. n \in 1..Len(chain) /\ chain[n] \in Block
    BY <1>4 DEF TrackerInv, ChainOK
  <2>3. anchor' \in Nat /\ anchor' <= made'
    BY <2>1, <2>2 DEF TrackerInv, ChainOK, Block
  <2>4. ChainOK' /\ TrackerOK(tracker)' /\ StackOK'
    BY <1>2, <2>1 DEF TrackerInv, ChainOK, TrackerOK, EntryOK, StackOK, HeaderOK
  <2> QED
    BY <2>3, <2>4 DEF TrackerInv
<1> QED
  BY <1>3, <1>4

\* The state read for an anchor belongs to the header read before, or the
\* header's block has left the chain.
LEMMA AnchorLoadOK ==
    ASSUME TrackerInv, AnchorLoad
    PROVE  TrackerInv'
<1> DEFINE n == Top.num - 1
           tr == Anchored(tracker, n, anchor, chain[n].id)
<1>1. UNCHANGED chainVars /\ pc = "load"
  BY DEF AnchorLoad, BlockStep, Alone
<1>2. stack # << >> /\ stack \in Seq(BlockHeader) /\ \A i \in 1..Len(stack) : HeaderOK(stack[i])
  BY <1>1, TopOK DEF TrackerInv, StackOK
<1>3. n \in DOMAIN chain => TrackerOK(tr)
  <2>1. DOMAIN chain = 1..Len(chain)
    BY DEF TrackerInv, ChainOK
  <2> QED
    BY <2>1, AnchoredOK
<1>4. CASE n \notin DOMAIN chain
  <2>1. pc' = "poll" /\ stack' = << >> /\ anchor' = 0 /\ tracker' = tracker
    BY <1>4 DEF AnchorLoad, GiveUp
  <2> QED
    BY <1>1, <2>1, QuietOK
<1>5. CASE n \in DOMAIN chain /\ bt.why = "before"
  <2>1. tracker' = tr /\ pc' = "logs" /\ anchor' = 0 /\ stack' = stack
        /\ made' = made /\ chain' = chain
    BY <1>1, <1>5 DEF AnchorLoad, chainVars
  <2>2. TrackerOK(tracker)'
    BY <1>3, <1>5, <2>1 DEF TrackerOK, EntryOK
  <2>3. ChainOK' /\ StackOK'
    BY <1>2, <2>1 DEF TrackerInv, ChainOK, StackOK, HeaderOK
  <2> QED
    BY <2>1, <2>2, <2>3 DEF TrackerInv, ChainOK
<1>6. ASSUME NEW w, n \in DOMAIN chain, ApplyTo(tr, 0, w, stack)
      PROVE  TrackerInv'
  <2> HIDE DEF tr
  <2> QED
    BY <1>1, <1>2, <1>3, <1>6, ApplyToOK
<1> QED
  BY <1>4, <1>5, <1>6 DEF AnchorLoad

\* The calls below the one that ends.
LEMMA OuterIs ==
    ASSUME NEW calls \in Seq(BlockHeader), calls # << >>
    PROVE  LET outer == SubSeq(calls, 1, Len(calls) - 1)
           IN  /\ outer \in Seq(BlockHeader) /\ Len(outer) = Len(calls) - 1
               /\ \A i \in 1..Len(outer) : i \in 1..Len(calls) /\ outer[i] = calls[i]
<1> DEFINE outer == SubSeq(calls, 1, Len(calls) - 1)
<1>1. Len(calls) \in Nat \ {0}
  OBVIOUS
<1>2. Len(calls) - 1 \in 0..Len(calls) /\ Len(calls) - 1 \in Nat
  BY <1>1
<1>3. \A i \in 1..Len(calls) - 1 : i \in 1..Len(calls) /\ calls[i] \in BlockHeader
  BY <1>1
<1>4. /\ outer \in Seq(BlockHeader)
      /\ Len(outer) = (IF 1 <= Len(calls) - 1 THEN (Len(calls) - 1) - 1 + 1 ELSE 0)
      /\ \A i \in 1..(Len(calls) - 1) - 1 + 1 : outer[i] = calls[1 + i - 1]
  BY <1>2, <1>3, SubSeqProperties
<1> HIDE DEF outer
<1>5. Len(outer) = Len(calls) - 1
  <2>1. Len(outer) = IF 1 <= Len(calls) - 1 THEN (Len(calls) - 1) - 1 + 1 ELSE 0
    BY <1>4, Zenon
  <2>2. CASE 1 <= Len(calls) - 1
    <3>1. Len(outer) = (Len(calls) - 1) - 1 + 1
      BY <2>1, <2>2, Zenon
    <3> QED
      BY <1>1, <3>1
  <2>3. CASE ~(1 <= Len(calls) - 1)
    <3>1. Len(outer) = 0
      BY <2>1, <2>3, Zenon
    <3>2. \A l \in Nat \ {0} : ~(1 <= l - 1) => 0 = l - 1
      OBVIOUS
    <3>3. 0 = Len(calls) - 1
      BY <1>1, <2>3, <3>2, Zenon
    <3> QED
      BY <3>1, <3>3, Zenon
  <2> QED
    BY <2>2, <2>3, Zenon
<1>6. ASSUME NEW i \in 1..Len(calls) - 1
      PROVE  outer[i] = calls[i]
  <2>1. i \in 1..(Len(calls) - 1) - 1 + 1 /\ 1 + i - 1 = i
    BY <1>1
  <2> QED
    BY <1>4, <2>1
<1>7. outer \in Seq(BlockHeader) /\ Len(outer) = Len(calls) - 1
      /\ \A i \in 1..Len(outer) : i \in 1..Len(calls) /\ outer[i] = calls[i]
  BY <1>3, <1>4, <1>5, <1>6
<1> QED
  BY <1>7 DEF outer

\* A block is done: the call below it goes on, the next number, or the poll.
LEMMA PersistBlockOK ==
    ASSUME TrackerInv, PersistBlock
    PROVE  TrackerInv'
<1> DEFINE outer == SubSeq(stack, 1, Len(stack) - 1)
<1>1. UNCHANGED chainVars /\ pc = "persist"
  BY DEF PersistBlock, BlockStep, Alone
<1>2. stack # << >> /\ stack \in Seq(BlockHeader) /\ \A i \in 1..Len(stack) : HeaderOK(stack[i])
  BY <1>1, TopOK DEF TrackerInv, StackOK
<1>3. Len(stack) \in Nat \ {0}
  BY <1>2
<1>4. CASE outer # << >> /\ ApplyTo(tracker, sinceAnchor, watched, outer)
  <2>1. /\ outer \in Seq(BlockHeader) /\ Len(outer) = Len(stack) - 1
        /\ \A i \in 1..Len(outer) : i \in 1..Len(stack) /\ outer[i] = stack[i]
    BY <1>2, OuterIs
  <2>2. \A i \in 1..Len(outer) : HeaderOK(outer[i])
    BY <1>2, <2>1
  <2>3. TrackerOK(tracker)
    BY DEF TrackerInv
  <2> HIDE DEF outer
  <2> QED
    BY <1>1, <1>4, <2>1, <2>2, <2>3, ApplyToOK
<1>5. CASE /\ stack' = << >> /\ pc' \in {"poll", "header"} /\ anchor' = 0
           /\ tracker' = tracker
  BY <1>1, <1>5, QuietOK
<1>6. \/ outer # << >> /\ ApplyTo(tracker, sinceAnchor, watched, outer)
      \/ /\ stack' = << >> /\ pc' \in {"poll", "header"} /\ anchor' = 0
         /\ tracker' = tracker
  BY DEF PersistBlock, ToHeader, GiveUp
<1> QED
  BY <1>4, <1>5, <1>6

\* Resolving a swap touches neither the chain nor the tracker.
LEMMA VerifyOK ==
    ASSUME TrackerInv, NEW t \in Txs,
           VerifyIncluded(t) \/ CheckNonce(t) \/ NonceUnanswered(t)
    PROVE  TrackerInv'
<1>1. pc = "verify"
  BY DEF VerifyIncluded, CheckNonce, NonceUnanswered
<1>2. ASSUME NEW row, Resolve(t, row)
      PROVE  /\ UNCHANGED chainVars /\ tracker' = tracker /\ anchor' = 0
             /\ (pc' = "poll" /\ stack' = << >>) \/ stack' = stack
  BY <1>2 DEF Resolve, Abandon, GiveUp, Verifying, BlockStep, Alone
<1>3. /\ UNCHANGED chainVars /\ tracker' = tracker /\ anchor' = 0
      /\ (pc' = "poll" /\ stack' = << >>) \/ stack' = stack
  <2>1. CASE VerifyIncluded(t)
    BY <1>2, <2>1 DEF VerifyIncluded
  <2>2. CASE CheckNonce(t)
    BY <1>2, <2>2 DEF CheckNonce
  <2>3. CASE NonceUnanswered(t)
    <3>1. CASE LongOverdue(Top, bt.todo[t])
      BY <1>2, <2>3, <3>1 DEF NonceUnanswered
    <3>2. CASE ~LongOverdue(Top, bt.todo[t])
      BY <2>3, <3>2 DEF NonceUnanswered, Verifying, BlockStep, Alone
    <3> QED
      BY <3>1, <3>2
  <2> QED
    BY <2>1, <2>2, <2>3
<1> QED
  BY <1>1, <1>3, TopOK, QuietOK

\* The intake and predict tasks do not touch what the block task tracks.
LEMMA OthersOK ==
    ASSUME TrackerInv, Intake \/ Predict
    PROVE  TrackerInv'
<1>1. UNCHANGED << chainVars, blockVars >>
  <2>1. CASE Intake
    BY <2>1 DEF Intake, OnPending, SourcesRefuse, CheckGrace, ToReplay
  <2>2. CASE Predict
    BY <2>2 DEF Predict, PredictTake, PredictWait, PredictNoState, PredictOverBudget,
                PredictFails, PredictStore, PredictPersist, PredictNext
  <2> QED
    BY <2>1, <2>2
<1>2. UNCHANGED << pc, stack, anchor, tracker >>
  BY <1>1 DEF blockVars
<1> QED
  BY <1>1, <1>2, QuietOK

LEMMA TrackerInvInit ==
    ASSUME Init
    PROVE  TrackerInv
<1>1. FirstLength \in Nat
  BY WatcherConstants DEF FirstLength
<1>2. chain \in Seq(Block) /\ Len(chain) = FirstLength /\ \A n \in 1..Len(chain) : chain[n].id = n
  <2>1. chain \in [1..FirstLength -> Block]
    BY <1>1 DEF Init, Block
  <2>2. chain \in Seq(Block) /\ Len(chain) = FirstLength
    BY <1>1, <2>1
  <2> QED
    BY <2>2 DEF Init
<1>3. ChainOK
  BY <1>1, <1>2 DEF Init, ChainOK
<1>4. StackOK
  BY DEF Init, StackOK
<1>5. TrackerOK(tracker)
  BY DEF Init, TrackerOK, Empty
<1> QED
  BY <1>3, <1>4, <1>5 DEF Init, TrackerInv, ChainOK

LEMMA TrackerInvNext ==
    ASSUME TrackerInv, [Next]_vars
    PROVE  TrackerInv'
<1>1. CASE Chain
  BY <1>1, MineOK, ReorgOK DEF Chain
<1>2. CASE Intake \/ Predict
  BY <1>2, OthersOK
<1>3. CASE Poll
  <2>1. UNCHANGED chainVars /\ tracker' = tracker /\ pc' = "header" /\ stack' = << >> /\ anchor' = 0
    BY <1>3 DEF Poll, ToHeader, BlockStep, Alone
  <2> QED
    BY <2>1, QuietOK
<1>4. CASE ReadHeader
  BY <1>4, ReadHeaderOK
<1>5. CASE ApplyBlock
  BY <1>5, ApplyBlockOK
<1>6. CASE AnchorHeader
  BY <1>6, AnchorHeaderOK
<1>7. CASE AnchorLoad
  BY <1>7, AnchorLoadOK
<1>8. CASE PersistBlock
  BY <1>8, PersistBlockOK
<1>9. CASE \E t \in Txs : VerifyIncluded(t) \/ CheckNonce(t) \/ NonceUnanswered(t)
  BY <1>9, VerifyOK
<1>10. CASE BlockFails \/ AfterBlockFails
  <2>1. UNCHANGED chainVars /\ tracker' = tracker /\ pc' = "poll" /\ stack' = << >> /\ anchor' = 0
    BY <1>10 DEF BlockFails, AfterBlockFails, Abandon, GiveUp
  <2> QED
    BY <2>1, QuietOK
<1>11. CASE Restart
  <2>1. UNCHANGED chainVars /\ tracker' = Empty /\ pc' = "poll" /\ stack' = << >> /\ anchor' = 0
    BY <1>11 DEF Restart, GiveUp
  <2>2. DOMAIN tracker' = {}
    BY <2>1 DEF Empty
  <2> QED
    BY <2>1, <2>2, QuietOK
<1>12. CASE UNCHANGED vars
  <2>1. UNCHANGED chainVars /\ UNCHANGED << pc, stack, anchor, tracker >>
    BY <1>12 DEF vars, blockVars
  <2> QED
    BY <2>1, QuietOK
<1> QED
  BY <1>1, <1>2, <1>3, <1>4, <1>5, <1>6, <1>7, <1>8, <1>9, <1>10, <1>11, <1>12 DEF Next, Blocks

\* Every behaviour keeps the invariant: ids in order, headers in flight that
\* name their true parents, and exact entries (watcher.py _apply, pool_state.py).
THEOREM WatcherInvariant == Spec => []TrackerInv
<1>1. Init => TrackerInv
  BY TrackerInvInit
<1>2. TrackerInv /\ [Next]_vars => TrackerInv'
  BY TrackerInvNext
<1> QED
  BY <1>1, <1>2, PTL DEF Spec

\* Whatever reorganisations and failures happen, at whatever depth, predictions
\* and verifications start from the true state of the block they name
\* (PoolStateTracker.apply_block and anchor).
THEOREM WatcherPoolStateIsExact == Spec => []PoolStateIsExact
<1>1. TrackerInv => PoolStateIsExact
  BY DEF TrackerInv, ChainOK, TrackerOK, EntryOK, PoolStateIsExact
<1> QED
  BY <1>1, WatcherInvariant, PTL
-----------------------------------------------------------------------------
\* Nothing is lost but by an error that is named (lost), whoever shares a nonce
\* and however the writes overtake each other.

Row == [mode : {"none", "live", "replay"}, status : Statuses, block : Nat]
PredStates == {"idle", "wait", "predict", "pending", "no_state"}
IsMap(tr) == tr = [n \in DOMAIN tr |-> tr[n]]
LocalNames == {"num", "head", "why", "todo", "done", "replays"}

\* The swap waits for its prediction, or is being predicted.
InHand(t) == (\E i \in 1..Len(queue) : queue[i] = t) \/ (pred.pc # "idle" /\ pred.tx = t)

FollowTypes ==
    /\ queue \in Seq(Txs) /\ pred \in [pc : PredStates, tx : Txs, head : Nat]
    /\ watched \in [Txs -> Nat] /\ db \in [Txs -> Row]
    /\ DOMAIN bt = LocalNames /\ IsMap(tracker)

\* A swap is in hand once.
OnceOK ==
    /\ \A i, j \in 1..Len(queue) : queue[i] = queue[j] => i = j
    /\ pred.pc # "idle" => \A i \in 1..Len(queue) : queue[i] # pred.tx

\* ... and before its "pending" row is written, but for a row that a failed write
\* has left over from an earlier process.
EarlyOK ==
    \A t \in Txs : /\ InHand(t) => t \in recorded
                   /\ InHand(t) /\ db[t].status = "pending" => t \in lost
                   /\ db[t].status = "pending" => t \in recorded \/ t \in lost

\* A prediction is made on a block, and the swap is watched before its row is
\* written; the row may come after the final one.
HeadOK ==
    /\ pred.pc = "predict" => pred.head # 0
    /\ pred.pc = "pending" => watched[pred.tx] # 0 \/ pred.tx \in DOMAIN bt.done \union lost

\* A swap is resolved in memory only while its block is being verified, and
\* its row is then final.
Resolved(x) == x.head \in Nat \ {0} /\ x.row \in Row /\ x.row.status \notin {"none", "pending"}
Verifies(at) == at \in {"verify", "persist"}
DoneOK ==
    /\ ~Verifies(pc) => DOMAIN bt.done = {}
    /\ \A t \in DOMAIN bt.done : t \in Txs /\ Resolved(bt.done[t])

\* What is still to be verified was watched; without rivals it still is, and no del
\* raises.
TodoOK ==
    pc = "verify" =>
        \A t \in DOMAIN bt.todo : /\ t \in Txs /\ bt.todo[t] \in Nat \ {0}
                                  /\ Rivals = {} => watched[t] # 0

\* What a reorganisation restores is watched again.
KeptOK == \A n \in DOMAIN resolvedBy : \A r \in resolvedBy[n] : r.tx \in Txs /\ r.head \in Nat \ {0}

\* The inductive invariant of NothingLost.
FollowInv ==
    FollowTypes /\ OnceOK /\ EarlyOK /\ HeadOK /\ DoneOK /\ TodoOK /\ KeptOK /\ NothingLost

\* A set of naturals with a bound has a greatest element.
LEMMA MaxOfBounded ==
    ASSUME NEW B \in Nat, NEW S \in SUBSET (0..B), S # {}
    PROVE  Max(S) \in S
<1> DEFINE D == {B - x : x \in S}
<1>1. D \in SUBSET Nat /\ D # {}
  <2>1. \A x \in S : B - x \in Nat
    OBVIOUS
  <2>2. PICK x \in S : TRUE
    OBVIOUS
  <2>3. B - x \in D
    OBVIOUS
  <2> QED
    BY <2>1, <2>3
<1>2. \E d \in D : \A e \in D : ~(<< e, d >> \in OpToRel(<, Nat))
  <2> HIDE DEF D
  <2> QED
    BY <1>1, NatLessThanWellFounded, WFMin
<1>3. PICK d \in D : \A e \in D : ~(<< e, d >> \in OpToRel(<, Nat))
  BY <1>2
<1>4. \A e \in D : d <= e
  <2>1. ASSUME NEW e \in D
        PROVE  d <= e
    <3>1. d \in Nat /\ e \in Nat
      BY <1>1
    <3>2. ~(e < d)
      <4>1. << e, d >> \in Nat \X Nat /\ << e, d >>[1] = e /\ << e, d >>[2] = d
        BY <3>1
      <4> HIDE DEF D
      <4> QED
        BY <1>3, <4>1 DEF OpToRel
    <3> QED
      BY <3>1, <3>2
  <2> QED
    BY <2>1
<1>5. PICK x \in S : d = B - x
  OBVIOUS
<1>6. \A y \in S : x >= y
  <2>1. ASSUME NEW y \in S
        PROVE  x >= y
    <3>1. B - x <= B - y
      BY <1>4, <1>5
    <3> QED
      BY <3>1
  <2> QED
    BY <2>1
<1> QED
  BY <1>5, <1>6 DEF Max

\* The newest tracked block has a number.
LEMMA LatestOK ==
    ASSUME TrackerInv
    PROVE  /\ Latest(tracker) \in Nat
           /\ IsMap(tracker) /\ tracker # Empty => Latest(tracker) # 0
<1>1. made \in Nat /\ \A n \in DOMAIN tracker : n \in 0..made /\ n # 0
  BY DEF TrackerInv, ChainOK, TrackerOK, EntryOK
<1>2. CASE DOMAIN tracker = {}
  <2>1. IsMap(tracker) => tracker = Empty
    BY <1>2 DEF IsMap, Empty
  <2> QED
    BY <1>2, <2>1 DEF Latest
<1>3. CASE DOMAIN tracker # {}
  <2>1. Max(DOMAIN tracker) \in DOMAIN tracker
    BY <1>1, <1>3, MaxOfBounded
  <2> QED
    BY <1>1, <1>3, <2>1 DEF Latest
<1> QED
  BY <1>2, <1>3

\* The tracker's operations give functions.
LEMMA MapOK ==
    /\ \A tr : IsMap(Trim(tr)) /\ \A h : IsMap(Applied(tr, h))
    /\ \A tr, n : IsMap(RewindTo(tr, n)) /\ \A id, state : IsMap(Anchored(tr, n, id, state))
    /\ IsMap(Empty)
<1>1. IsMap(Empty)
  BY DEF IsMap, Empty
<1>2. ASSUME NEW tr PROVE IsMap(Trim(tr))
  BY DEF IsMap, Trim
<1>3. ASSUME NEW tr, NEW n PROVE IsMap(RewindTo(tr, n))
  BY DEF IsMap, RewindTo
<1>4. ASSUME NEW tr, NEW h PROVE IsMap(Applied(tr, h))
  BY <1>2 DEF Applied
<1>5. ASSUME NEW tr, NEW n, NEW id, NEW state PROVE IsMap(Anchored(tr, n, id, state))
  BY <1>2 DEF Anchored
<1> QED
  BY <1>1, <1>2, <1>3, <1>4, <1>5

\* Init.
LEMMA FollowInit ==
    ASSUME Init
    PROVE  FollowInv
<1>1. /\ queue = << >> /\ pred.pc = "idle" /\ pred \in [pc : PredStates, tx : Txs, head : Nat]
      /\ recorded = {} /\ pc = "poll" /\ bt = NoLocals /\ resolvedBy = Empty /\ tracker = Empty
  BY WatcherConstants DEF Init, IdlePred, PredStates
<1>2. watched = [t \in Txs |-> 0] /\ db = [t \in Txs |-> NoRow]
  BY DEF Init
<1>3. NoRow \in Row /\ NoRow.status = "none"
  BY DEF NoRow, Row, Statuses
<1>4. DOMAIN NoLocals = LocalNames /\ DOMAIN NoLocals.done = {} /\ DOMAIN Empty = {}
  BY DEF NoLocals, LocalNames, Empty
<1>5. FollowTypes
  BY <1>1, <1>2, <1>3, <1>4, MapOK DEF FollowTypes
<1>6. \A t \in Txs : db[t].status = "none"
  BY <1>2, <1>3
<1> QED
  BY <1>1, <1>4, <1>5, <1>6 DEF FollowInv, OnceOK, EarlyOK, InHand, HeadOK, DoneOK, Verifies, TodoOK,
        KeptOK, NothingLost

\* A step that leaves alone what the invariant is about.
LEMMA FollowStutter ==
    ASSUME FollowInv, UNCHANGED << queue, pred, watched, db, recorded, dropped, lost, pc, bt, tracker,
                                       resolvedBy >>
    PROVE  FollowInv'
  BY DEF FollowInv, FollowTypes, OnceOK, EarlyOK, InHand, HeadOK, DoneOK, TodoOK, KeptOK,
         NothingLost, Followed

\* A swap that is new is queued or counted as dropped; a rival that is closed has
\* its final row, or its row is lost.
LEMMA FollowOnPending ==
    ASSUME FollowInv, NEW t \in Txs, OnPending(t)
    PROVE  FollowInv'
<1> DEFINE new == watched[t] = 0 /\ t \notin recorded
           old == {u \in byNonce \intersect (Slot(t) \ {t}) : watched[u] # 0}
<1>1. /\ recorded' = recorded \union {t} /\ UNCHANGED << pred, pc, bt, tracker, resolvedBy >>
      /\ watched \in [Txs -> Nat] /\ db \in [Txs -> Row] /\ queue \in Seq(Txs) /\ pred.tx \in Txs
  BY DEF OnPending, blockVars, FollowInv, FollowTypes
<1>2. CASE ~new
  <2>1. UNCHANGED << watched, db, lost, queue, dropped >>
    BY <1>2 DEF OnPending
  <2>2. watched[t] # 0 \/ t \in recorded
    BY <1>2
  <2> QED
    BY <1>1, <2>1, <2>2 DEF FollowInv, FollowTypes, OnceOK, EarlyOK, InHand, HeadOK, DoneOK,
          TodoOK, KeptOK, NothingLost, Followed
<1>3. CASE new
  <2>1. PICK ok \in Writes :
           /\ db' = [u \in Txs |-> IF ok /\ u \in old THEN Live("replaced", 0) ELSE db[u]]
           /\ FinalRows(old, ok)
    BY <1>3 DEF OnPending
  <2>2. watched' = [u \in Txs |-> IF u \in old THEN 0 ELSE watched[u]]
    BY <1>3 DEF OnPending
  <2>3. \/ queue' = queue /\ dropped' = dropped \union {t}
        \/ queue' = Append(queue, t) /\ dropped' = dropped
    BY <1>3 DEF OnPending
  <2>4. t \notin recorded
    BY <1>3
  <2> HIDE DEF old, new
  <2>5. Live("replaced", 0) \in Row /\ Live("replaced", 0).status = "replaced"
    BY DEF Live, Row, Statuses
  <2>6. /\ db' \in [Txs -> Row] /\ watched' \in [Txs -> Nat]
        /\ \A u \in Txs : \/ db'[u] = db[u] /\ (u \in lost => u \in lost')
                          \/ u \in old /\ db'[u].status = "replaced"
    BY <1>1, <2>1, <2>2, <2>5 DEF FinalRows
  <2>7. \A u \in Txs : \/ watched'[u] = watched[u]
                       \/ u \in old /\ (db'[u].status = "replaced" \/ u \in lost')
    BY <1>1, <2>1, <2>2, <2>5 DEF FinalRows
  <2>8. pred.pc = "pending" /\ watched'[pred.tx] # watched[pred.tx] => pred.tx \in lost'
    BY <1>1, <2>1, <2>2 DEF FinalRows, Overtaken
  <2>9. pred.pc = "pending" /\ pred.tx \in lost => pred.tx \in lost'
    BY <1>1, <2>1 DEF FinalRows, Overtaken
  <2>10. /\ queue' \in Seq(Txs) /\ \A u \in Txs : InHand(u)' <=> InHand(u) \/ (u = t /\ queue' # queue)
         /\ OnceOK'
    <3>1. CASE queue' = queue
      BY <1>1, <3>1 DEF InHand, FollowInv, OnceOK
    <3>2. CASE queue' = Append(queue, t)
      <4>1. /\ queue' \in Seq(Txs) /\ Len(queue) \in Nat
            /\ Len(queue') = Len(queue) + 1 /\ queue'[Len(queue) + 1] = t
            /\ \A i \in 1..Len(queue) : queue'[i] = queue[i]
        BY <1>1, <3>2
      <4>2. \A i : i \in 1..Len(queue') <=> i \in 1..Len(queue) \/ i = Len(queue) + 1
        BY <4>1
      <4>3. \A u \in Txs : InHand(u)' <=> InHand(u) \/ u = t
        BY <1>1, <4>1, <4>2 DEF InHand
      <4>4. queue' # queue
        BY <4>1
      <4>5. ~InHand(t)
        BY <2>4 DEF FollowInv, EarlyOK
      <4>6. OnceOK'
        BY <1>1, <4>1, <4>2, <4>5 DEF FollowInv, OnceOK, InHand
      <4> QED
        BY <4>1, <4>3, <4>4, <4>6
    <3> QED
      BY <2>3, <3>1, <3>2
  <2>11. \A u \in Txs : \/ Followed(u)' \/ ~Followed(u)
                        \/ u \in old /\ (db'[u].status = "replaced" \/ u \in lost')
    <3>1. /\ DOMAIN queue = 1..Len(queue) /\ DOMAIN queue' = 1..Len(queue')
      BY <1>1, <2>10
    <3> QED
      BY <1>1, <2>7, <2>10, <3>1 DEF InHand, Followed
  <2>12. EarlyOK'
    BY <1>1, <2>4, <2>6, <2>10 DEF FollowInv, EarlyOK
  <2>13. HeadOK'
    BY <1>1, <2>8, <2>9 DEF FollowInv, HeadOK
  <2>16. TodoOK'
    <3>1. Rivals = {} => old = {}
      BY DEF Slot, old
    <3> QED
      BY <1>1, <2>2, <3>1 DEF FollowInv, TodoOK
  <2>14. Followed(t)' \/ t \in dropped'
    <3>1. CASE queue' = queue /\ dropped' = dropped \union {t}
      BY <3>1
    <3>2. CASE queue' = Append(queue, t)
      <4>1. Len(queue) + 1 \in DOMAIN queue' /\ queue'[Len(queue) + 1] = t
        BY <1>1, <3>2
      <4> QED
        BY <4>1 DEF Followed
    <3> QED
      BY <2>3, <3>1, <3>2
  <2>15. NothingLost'
    <3>1. ASSUME NEW u \in Txs
          PROVE  /\ db'[u].status = "pending" => Followed(u)' \/ u \in lost'
                 /\ u \in recorded' => \/ Followed(u)' \/ u \in dropped' \/ db'[u].status # "none"
                                       \/ u \in lost'
      <4>1. db[u].status = "pending" => Followed(u) \/ u \in lost
        BY DEF FollowInv, NothingLost
      <4>2. u \in recorded => Followed(u) \/ u \in dropped \/ db[u].status # "none" \/ u \in lost
        BY DEF FollowInv, NothingLost
      <4> QED
        BY <1>1, <2>3, <2>6, <2>11, <2>14, <4>1, <4>2
    <3> QED
      BY <3>1 DEF NothingLost
  <2> QED
    BY <1>1, <2>6, <2>10, <2>12, <2>13, <2>15, <2>16 DEF FollowInv, FollowTypes, DoneOK, KeptOK
<1> QED
  BY <1>2, <1>3

\* A swap leaves the queue for the prediction of it.
LEMMA FollowTake ==
    ASSUME TrackerInv, FollowInv, PredictTake
    PROVE  FollowInv'
<1>1. /\ queue # << >> /\ queue' = Tail(queue) /\ pred.pc = "idle"
      /\ pred' = [pc |-> IF tracker = Empty THEN "wait" ELSE "predict", tx |-> Head(queue),
                  head |-> Latest(tracker)]
      /\ UNCHANGED << watched, db, recorded, dropped, lost, pc, bt, tracker, resolvedBy >>
  BY DEF PredictTake, PredictNext, blockVars
<1>2. /\ queue \in Seq(Txs) /\ queue' \in Seq(Txs) /\ Len(queue) \in Nat \ {0}
      /\ Len(queue') = Len(queue) - 1 /\ Head(queue) = queue[1] /\ queue[1] \in Txs
      /\ \A i \in 1..Len(queue') : queue'[i] = queue[i + 1]
      /\ DOMAIN queue = 1..Len(queue) /\ DOMAIN queue' = 1..Len(queue')
  BY <1>1 DEF FollowInv, FollowTypes
<1>3. /\ pred' \in [pc : PredStates, tx : Txs, head : Nat]
      /\ pred'.pc \in {"wait", "predict"} /\ pred'.tx = queue[1]
      /\ pred'.pc = "predict" => pred'.head # 0
  BY <1>1, <1>2, LatestOK DEF FollowInv, FollowTypes, PredStates
<1>4. \A i \in 1..Len(queue') : i + 1 \in 1..Len(queue) /\ i + 1 # 1
  BY <1>2
<1>5. \A i \in 1..Len(queue) : i = 1 \/ (i - 1 \in 1..Len(queue') /\ queue'[i - 1] = queue[i])
  <2>1. ASSUME NEW i \in 1..Len(queue), i # 1
        PROVE  i - 1 \in 1..Len(queue') /\ (i - 1) + 1 = i
    BY <1>2, <2>1
  <2> QED
    BY <1>2, <2>1
<1>6. OnceOK'
  <2>1. ASSUME NEW i \in 1..Len(queue'), NEW j \in 1..Len(queue'), queue'[i] = queue'[j]
        PROVE  i = j
    <3>1. i + 1 = j + 1
      BY <1>2, <1>4, <2>1 DEF FollowInv, OnceOK
    <3> QED
      BY <3>1
  <2>2. \A i \in 1..Len(queue') : queue'[i] # pred'.tx
    BY <1>2, <1>3, <1>4 DEF FollowInv, OnceOK
  <2> QED
    BY <2>1, <2>2 DEF OnceOK
<1>7. \A u \in Txs : (InHand(u)' => InHand(u)) /\ (Followed(u) => Followed(u)')
  <2>1. ASSUME NEW u \in Txs, InHand(u)'
        PROVE  InHand(u)
    <3>1. CASE pred'.tx = u
      <4>1. 1 \in 1..Len(queue)
        BY <1>2
      <4> QED
        BY <1>3, <3>1, <4>1 DEF InHand
    <3>2. CASE \E i \in 1..Len(queue') : queue'[i] = u
      BY <1>2, <1>4, <3>2 DEF InHand
    <3> QED
      BY <2>1, <3>1, <3>2 DEF InHand
  <2>2. ASSUME NEW u \in Txs, Followed(u)
        PROVE  Followed(u)'
    <3>1. CASE \E i \in DOMAIN queue : queue[i] = u
      BY <1>2, <1>3, <1>5, <3>1 DEF Followed
    <3>2. CASE watched[u] # 0 \/ u \in DOMAIN bt.done
      BY <1>1, <3>2 DEF Followed
    <3> QED
      BY <1>1, <2>2, <3>1, <3>2 DEF Followed
  <2> QED
    BY <2>1, <2>2
<1>8. EarlyOK' /\ NothingLost'
  BY <1>1, <1>7 DEF FollowInv, EarlyOK, NothingLost
<1>9. HeadOK'
  BY <1>3 DEF HeadOK
<1> QED
  BY <1>1, <1>2, <1>3, <1>6, <1>8, <1>9 DEF FollowInv, FollowTypes, DoneOK, TodoOK, KeptOK

\* The prediction goes on with the same swap.
LEMMA FollowGoesOn ==
    ASSUME FollowInv, pred' \in [pc : PredStates, tx : Txs, head : Nat], pred'.tx = pred.tx,
           pred.pc # "idle", pred'.pc \in {"predict", "no_state"},
           pred'.pc = "predict" => pred'.head # 0,
           UNCHANGED << queue, watched, db, recorded, dropped, lost, pc, bt, tracker, resolvedBy >>
    PROVE  FollowInv'
<1>1. \A u \in Txs : (InHand(u)' <=> InHand(u)) /\ (Followed(u) <=> Followed(u)')
  BY DEF InHand, Followed
<1>2. OnceOK' /\ EarlyOK' /\ NothingLost'
  BY <1>1 DEF FollowInv, OnceOK, EarlyOK, NothingLost
<1>3. HeadOK'
  BY DEF HeadOK
<1> QED
  BY <1>2, <1>3 DEF FollowInv, FollowTypes, DoneOK, TodoOK, KeptOK

LEMMA FollowWait ==
    ASSUME TrackerInv, FollowInv, PredictWait \/ PredictNoState
    PROVE  FollowInv'
<1>1. /\ pred \in [pc : PredStates, tx : Txs, head : Nat] /\ IsMap(tracker)
      /\ UNCHANGED << queue, watched, db, recorded, dropped, lost, pc, bt, tracker, resolvedBy >>
  BY DEF PredictWait, PredictNoState, PredictNext, blockVars, FollowInv, FollowTypes
<1>2. CASE PredictWait
  <2>1. /\ pred.pc = "wait" /\ tracker # Empty
        /\ pred' = [pred EXCEPT !.pc = "predict", !.head = Latest(tracker)]
    BY <1>2 DEF PredictWait, PredictNext
  <2>2. /\ pred' \in [pc : PredStates, tx : Txs, head : Nat] /\ pred'.tx = pred.tx
        /\ pred'.pc = "predict" /\ pred'.head # 0
    BY <1>1, <2>1, LatestOK DEF PredStates
  <2> QED
    BY <1>1, <2>1, <2>2, FollowGoesOn
<1>3. CASE PredictNoState
  <2>1. pred.pc \in {"wait", "predict"} /\ pred' = [pred EXCEPT !.pc = "no_state"]
    BY <1>3 DEF PredictNoState, PredictNext
  <2>2. /\ pred' \in [pc : PredStates, tx : Txs, head : Nat] /\ pred'.tx = pred.tx
        /\ pred'.pc = "no_state"
    BY <1>1, <2>1 DEF PredStates
  <2> QED
    BY <1>1, <2>1, <2>2, FollowGoesOn
<1> QED
  BY <1>2, <1>3

\* The prediction ends: the swap has a row, is counted as dropped, or lost.
LEMMA FollowEnds ==
    ASSUME FollowInv, PredictOverBudget \/ PredictFails \/ PredictPersist
    PROVE  FollowInv'
<1>1. /\ pred' = IdlePred /\ UNCHANGED << queue, watched, recorded, pc, bt, tracker, resolvedBy >>
      /\ pred.pc # "idle"
  BY DEF PredictOverBudget, PredictFails, PredictPersist, PredictNext, blockVars
<1>2. pred' \in [pc : PredStates, tx : Txs, head : Nat] /\ pred'.pc = "idle"
  BY <1>1, WatcherConstants DEF IdlePred, PredStates
<1>3. pred.tx \in Txs /\ pred.pc \in PredStates /\ db \in [Txs -> Row]
  BY DEF FollowInv, FollowTypes
<1>4. \A u \in Txs : /\ InHand(u)' => InHand(u) /\ u # pred.tx
                     /\ Followed(u) => Followed(u)' \/ u = pred.tx
  BY <1>1, <1>2 DEF InHand, Followed, FollowInv, OnceOK
<1>5. /\ InHand(pred.tx) /\ pred.tx \in recorded
      /\ db[pred.tx].status = "pending" => pred.tx \in lost
  BY <1>1, <1>3 DEF InHand, FollowInv, EarlyOK
<1>6. CASE PredictOverBudget \/ PredictFails
  <2>1. /\ dropped \subseteq dropped' /\ lost \subseteq lost' /\ db' = db
        /\ pred.tx \in dropped' \union lost'
    BY <1>6 DEF PredictOverBudget, PredictFails
  <2>2. EarlyOK' /\ NothingLost'
    BY <1>1, <1>4, <1>5, <2>1 DEF FollowInv, EarlyOK, NothingLost
  <2>3. OnceOK' /\ HeadOK'
    BY <1>1, <1>2 DEF FollowInv, OnceOK, HeadOK
  <2> QED
    BY <1>1, <1>2, <2>1, <2>2, <2>3 DEF FollowInv, FollowTypes, DoneOK, TodoOK, KeptOK
<1>7. CASE PredictPersist
  <2>1. PICK ok \in Writes :
           /\ db' = IF ok THEN [db EXCEPT ![pred.tx] = Live(pred.pc, 0)] ELSE db
           /\ IF pred.pc = "no_state" THEN FinalRows({pred.tx}, ok) ELSE lost' = lost
    BY <1>7 DEF PredictPersist
  <2>2. pred.pc \in {"pending", "no_state"} /\ dropped' = dropped
    BY <1>7 DEF PredictPersist
  <2>3. Live(pred.pc, 0) \in Row /\ Live(pred.pc, 0).status = pred.pc
    BY <2>2 DEF Live, Row, Statuses
  <2>4. /\ db' \in [Txs -> Row] /\ (db'[pred.tx] = db[pred.tx] \/ db'[pred.tx].status = pred.pc)
        /\ \A u \in Txs : u # pred.tx => db'[u] = db[u]
    BY <1>3, <2>1, <2>3
  <2>5. \A u \in Txs : u # pred.tx => (u \in lost <=> u \in lost')
    BY <2>1 DEF FinalRows, Overtaken
  <2>6. pred.pc = "no_state" => db'[pred.tx].status = "no_state" \/ pred.tx \in lost'
    BY <1>3, <2>1, <2>3 DEF FinalRows
  <2>7. pred.pc = "pending" => watched'[pred.tx] # 0 \/ pred.tx \in DOMAIN bt'.done \/ pred.tx \in lost'
    <3>1. pred.pc = "pending" => lost' = lost
      BY <2>1
    <3> QED
      BY <1>1, <3>1 DEF FollowInv, HeadOK
  <2>8. EarlyOK'
    BY <1>1, <1>4, <1>5, <2>4, <2>5 DEF FollowInv, EarlyOK
  <2>9. NothingLost'
    <3>1. ASSUME NEW u \in Txs
          PROVE  /\ db'[u].status = "pending" => Followed(u)' \/ u \in lost'
                 /\ u \in recorded' => \/ Followed(u)' \/ u \in dropped' \/ db'[u].status # "none"
                                       \/ u \in lost'
      <4>1. CASE u = pred.tx
        <5>1. CASE pred.pc = "pending"
          BY <2>7, <4>1, <5>1 DEF Followed
        <5>2. CASE pred.pc = "no_state"
          BY <2>6, <4>1, <5>2
        <5> QED
          BY <2>2, <5>1, <5>2
      <4>2. CASE u # pred.tx
        BY <1>1, <1>4, <2>2, <2>4, <2>5, <4>2 DEF FollowInv, NothingLost
      <4> QED
        BY <4>1, <4>2
    <3> QED
      BY <3>1 DEF NothingLost
  <2>10. OnceOK' /\ HeadOK'
    BY <1>1, <1>2 DEF FollowInv, OnceOK, HeadOK
  <2> QED
    BY <1>1, <1>2, <2>4, <2>8, <2>9, <2>10 DEF FollowInv, FollowTypes, DoneOK, TodoOK, KeptOK
<1> QED
  BY <1>6, <1>7

\* The swap is watched on the block its prediction started from.
LEMMA FollowStore ==
    ASSUME FollowInv, PredictStore
    PROVE  FollowInv'
<1>1. /\ pred.pc = "predict" /\ watched' = [watched EXCEPT ![pred.tx] = pred.head]
      /\ pred' = [pred EXCEPT !.pc = "pending"]
      /\ UNCHANGED << queue, db, recorded, dropped, lost, pc, bt, tracker, resolvedBy >>
  BY DEF PredictStore, blockVars, intakeVars, auxVars
<1>2. /\ pred \in [pc : PredStates, tx : Txs, head : Nat] /\ watched \in [Txs -> Nat]
      /\ pred.head # 0
  BY <1>1 DEF FollowInv, FollowTypes, HeadOK
<1>3. /\ pred' \in [pc : PredStates, tx : Txs, head : Nat] /\ pred'.tx = pred.tx /\ pred'.pc = "pending"
      /\ watched' \in [Txs -> Nat] /\ watched'[pred.tx] # 0
      /\ \A u \in Txs : watched[u] # 0 => watched'[u] # 0
  BY <1>1, <1>2 DEF PredStates
<1>4. \A u \in Txs : (InHand(u)' <=> InHand(u)) /\ (Followed(u) => Followed(u)')
  BY <1>1, <1>3 DEF InHand, Followed
<1>5. OnceOK' /\ EarlyOK' /\ NothingLost'
  BY <1>1, <1>3, <1>4 DEF FollowInv, OnceOK, EarlyOK, NothingLost
<1>6. HeadOK'
  BY <1>3 DEF HeadOK
<1>7. TodoOK'
  BY <1>1, <1>3 DEF FollowInv, TodoOK
<1> QED
  BY <1>1, <1>3, <1>5, <1>6, <1>7 DEF FollowInv, FollowTypes, DoneOK, KeptOK

\* Outside the verification of a block the block task changes what is watched
\* only by watching more.
LEMMA FollowOutside ==
    ASSUME FollowInv, ~Verifies(pc), ~Verifies(pc'), DOMAIN bt' = LocalNames, DOMAIN bt'.done = {},
           UNCHANGED << queue, pred, db, recorded, dropped, lost >>,
           watched' \in [Txs -> Nat], \A t \in Txs : watched[t] # 0 => watched'[t] # 0,
           KeptOK', IsMap(tracker)'
    PROVE  FollowInv'
<1>1. DOMAIN bt.done = {} /\ pred.tx \in Txs
  BY DEF FollowInv, DoneOK, FollowTypes
<1>2. \A u \in Txs : (InHand(u)' <=> InHand(u)) /\ (Followed(u) => Followed(u)')
  BY <1>1 DEF InHand, Followed
<1>3. OnceOK' /\ EarlyOK' /\ NothingLost'
  BY <1>2 DEF FollowInv, OnceOK, EarlyOK, NothingLost
<1>4. HeadOK'
  BY <1>1 DEF FollowInv, HeadOK
<1>5. DoneOK' /\ TodoOK'
  BY DEF DoneOK, TodoOK, Verifies
<1> QED
  BY <1>3, <1>4, <1>5 DEF FollowInv, FollowTypes

\* _restore_from only watches more.
LEMMA RestoreOK ==
    ASSUME FollowInv, NEW n \in Int, RestoreFrom(n)
    PROVE  /\ watched' \in [Txs -> Nat] /\ KeptOK'
           /\ \A t \in Txs : watched[t] # 0 => watched'[t] # 0
<1> DEFINE again(t) == (CHOOSE r \in Restored(n) : r.tx = t).head
<1>1. /\ watched' = [t \in Txs |-> IF \E r \in Restored(n) : r.tx = t THEN again(t) ELSE watched[t]]
      /\ resolvedBy' = [m \in {k \in DOMAIN resolvedBy : k < n} |-> resolvedBy[m]]
  BY DEF RestoreFrom
<1>2. \A r \in Restored(n) : r.tx \in Txs /\ r.head \in Nat \ {0}
  BY DEF Restored, FollowInv, KeptOK
<1>3. ASSUME NEW t \in Txs, \E r \in Restored(n) : r.tx = t
      PROVE  again(t) \in Nat \ {0}
  <2>1. PICK r \in Restored(n) : r.tx = t
    BY <1>3
  <2>2. (CHOOSE x \in Restored(n) : x.tx = t) \in Restored(n)
    BY <2>1
  <2> QED
    BY <1>2, <2>2
<1>4. watched \in [Txs -> Nat]
  BY DEF FollowInv, FollowTypes
<1> HIDE DEF again
<1>5. KeptOK'
  BY <1>1 DEF FollowInv, KeptOK
<1>6. \A t \in Txs : watched'[t] = IF \E r \in Restored(n) : r.tx = t THEN again(t) ELSE watched[t]
  BY <1>1
<1>7. \A t \in Txs : watched'[t] \in Nat /\ (watched[t] # 0 => watched'[t] # 0)
  BY <1>3, <1>4, <1>6
<1> QED
  BY <1>1, <1>5, <1>7

\* What _after_block leaves in its locals.
LEMMA LocalsOK ==
    ASSUME DOMAIN bt = LocalNames, NEW h, NEW w, NEW todo, NEW done, Verifying(h, w, todo, done)
    PROVE  /\ bt'.todo = todo /\ bt'.done = done /\ DOMAIN bt' = LocalNames
           /\ pc' \in {"verify", "persist"}
<1>1. PICK replays : bt' = [bt EXCEPT !.todo = todo, !.done = done, !.replays = replays]
  BY DEF Verifying
<1>2. pc' \in {"verify", "persist"}
  BY DEF Verifying
<1> QED
  BY <1>1, <1>2 DEF LocalNames

\* The verification of a block begins with what is watched, or the block task gives up.
LEMMA FollowApplyTo ==
    ASSUME FollowTypes', OnceOK', EarlyOK', KeptOK', NEW tr, NEW since, NEW calls,
           ApplyTo(tr, since, watched', calls), DOMAIN bt = LocalNames,
           pred'.pc = "predict" => pred'.head # 0,
           pred'.pc = "pending" => watched'[pred'.tx] # 0 \/ pred'.tx \in lost',
           \A t \in Txs : /\ db'[t].status = "pending" => InHand(t)' \/ watched'[t] # 0 \/ t \in lost'
                          /\ t \in recorded' => \/ InHand(t)' \/ watched'[t] # 0 \/ t \in lost'
                                                \/ t \in dropped' \/ db'[t].status # "none"
    PROVE  FollowInv'
<1> DEFINE h == calls[Len(calls)]
<1>1. DOMAIN bt'.done = {}
  <2>1. CASE Applies(tr, h)
    <3>1. bt'.done = Empty
      BY <2>1, LocalsOK DEF ApplyTo
    <3> QED
      BY <3>1 DEF Empty
  <2>2. CASE ~Applies(tr, h)
    <3>1. bt'.done = Empty
      BY <2>2 DEF ApplyTo, GiveUp, NoLocals
    <3> QED
      BY <3>1 DEF Empty
  <2> QED
    BY <2>1, <2>2
<1>2. DoneOK'
  BY <1>1 DEF DoneOK
<1>3. TodoOK'
  <2>1. CASE Applies(tr, h)
    <3>1. bt'.todo = Todo(h, watched')
      BY <2>1, LocalsOK DEF ApplyTo
    <3>2. \A t \in DOMAIN Todo(h, watched') :
             t \in Txs /\ watched'[t] # 0 /\ Todo(h, watched')[t] = watched'[t]
      BY DEF Todo
    <3> QED
      BY <3>1, <3>2 DEF TodoOK, FollowTypes
  <2>2. CASE ~Applies(tr, h)
    BY <2>2 DEF ApplyTo, GiveUp, TodoOK
  <2> QED
    BY <2>1, <2>2
<1>4. HeadOK'
  BY DEF HeadOK
<1>5. \A t \in Txs : InHand(t)' \/ watched'[t] # 0 => Followed(t)'
  <2>1. DOMAIN queue' = 1..Len(queue')
    BY DEF FollowTypes
  <2> QED
    BY <2>1 DEF InHand, Followed
<1>6. NothingLost'
  BY <1>5 DEF NothingLost
<1> QED
  BY <1>2, <1>3, <1>4, <1>6 DEF FollowInv

\* ... from outside the verification of a block.
LEMMA FollowBegins ==
    ASSUME FollowInv, ~Verifies(pc), NEW tr, NEW since, NEW calls,
           ApplyTo(tr, since, watched', calls), IsMap(tr),
           UNCHANGED << queue, pred, db, recorded, dropped, lost >>,
           watched' \in [Txs -> Nat], \A t \in Txs : watched[t] # 0 => watched'[t] # 0, KeptOK'
    PROVE  FollowInv'
<1>1. DOMAIN bt.done = {} /\ pred.tx \in Txs /\ DOMAIN queue = 1..Len(queue) /\ DOMAIN bt = LocalNames
  BY DEF FollowInv, DoneOK, FollowTypes
<1>2. \A u \in Txs : InHand(u)' <=> InHand(u)
  BY DEF InHand
<1>3. DOMAIN bt' = LocalNames
  BY <1>1 DEF ApplyTo, Verifying, GiveUp, NoLocals, LocalNames
<1>4. IsMap(tracker)'
  <2>1. tracker' = tr \/ \E h : tracker' = Applied(tr, h)
    BY DEF ApplyTo
  <2>2. IsMap(tracker')
    BY <2>1, MapOK
  <2> QED
    BY <2>2 DEF IsMap
<1>5. FollowTypes' /\ OnceOK' /\ EarlyOK'
  BY <1>2, <1>3, <1>4 DEF FollowInv, FollowTypes, OnceOK, EarlyOK
<1>6. /\ pred'.pc = "predict" => pred'.head # 0
      /\ pred'.pc = "pending" => watched'[pred'.tx] # 0 \/ pred'.tx \in lost'
  BY <1>1 DEF FollowInv, HeadOK
<1>7. \A t \in Txs : Followed(t) => InHand(t)' \/ watched'[t] # 0
  BY <1>1 DEF Followed, InHand
<1>8. \A t \in Txs : /\ db'[t].status = "pending" => InHand(t)' \/ watched'[t] # 0 \/ t \in lost'
                     /\ t \in recorded' => \/ InHand(t)' \/ watched'[t] # 0 \/ t \in lost'
                                           \/ t \in dropped' \/ db'[t].status # "none"
  BY <1>7 DEF FollowInv, NothingLost
<1> QED
  BY <1>1, <1>5, <1>6, <1>8, FollowApplyTo

LEMMA FollowApplyBlock ==
    ASSUME TrackerInv, FollowInv, ApplyBlock
    PROVE  FollowInv'
<1>1. /\ pc = "logs" /\ UNCHANGED << queue, pred, db, recorded, dropped, lost >>
      /\ ~Verifies(pc)
  BY DEF ApplyBlock, BlockStep, Alone, auxVars, intakeVars, predictVars, Verifies
<1>2. /\ DOMAIN bt = LocalNames /\ DOMAIN bt.done = {} /\ IsMap(tracker) /\ watched \in [Txs -> Nat]
      /\ KeptOK
  BY <1>1 DEF FollowInv, FollowTypes, DoneOK
<1>3. CASE ApplyTo(tracker, sinceAnchor, watched, stack) /\ UNCHANGED << watched, resolvedBy >>
  <2>1. ApplyTo(tracker, sinceAnchor, watched', stack)
    BY <1>3
  <2>2. KeptOK'
    BY <1>2, <1>3 DEF KeptOK
  <2> QED
    BY <1>1, <1>2, <1>3, <2>1, <2>2, FollowBegins
<1>4. ASSUME NEW why, ToAnchor(why)
      PROVE  FollowInv'
  <2>1. /\ pc' = "anchor" /\ bt' = [bt EXCEPT !.why = why] /\ UNCHANGED << watched, resolvedBy, tracker >>
    BY <1>4 DEF ToAnchor
  <2>2. DOMAIN bt' = LocalNames /\ bt'.done = bt.done
    BY <1>2, <2>1 DEF LocalNames
  <2>3. ~Verifies(pc') /\ KeptOK' /\ IsMap(tracker)'
    BY <1>2, <2>1 DEF Verifies, KeptOK, IsMap
  <2> QED
    BY <1>1, <1>2, <2>1, <2>2, <2>3, FollowOutside
<1>5. CASE Redo(Top)
  <2>1. /\ pc' = "header" /\ bt' = [bt EXCEPT !.num = Top.num - 1]
        /\ tracker' = RewindTo(tracker, Top.num - 2) /\ RestoreFrom(Top.num - 1)
    BY <1>5 DEF Redo
  <2>2. DOMAIN bt' = LocalNames /\ bt'.done = bt.done
    BY <1>2, <2>1 DEF LocalNames
  <2>3. Top.num - 1 \in Int
    BY <1>1, TopOK
  <2>4. /\ watched' \in [Txs -> Nat] /\ KeptOK'
        /\ \A t \in Txs : watched[t] # 0 => watched'[t] # 0
    BY <2>1, <2>3, RestoreOK
  <2>5. ~Verifies(pc') /\ IsMap(tracker')
    BY <2>1, MapOK DEF Verifies
  <2>6. IsMap(tracker)'
    BY <2>5 DEF IsMap
  <2> QED
    BY <1>1, <1>2, <2>2, <2>4, <2>5, <2>6, FollowOutside
<1> QED
  BY <1>3, <1>4, <1>5 DEF ApplyBlock

\* The poll, the reads of headers and a failing call change nothing of a swap.
LEMMA FollowReads ==
    ASSUME FollowInv, Poll \/ ReadHeader \/ AnchorHeader \/ BlockFails
    PROVE  FollowInv'
<1>1. /\ UNCHANGED << queue, pred, db, recorded, dropped, lost, watched, tracker, resolvedBy >>
  BY DEF Poll, ReadHeader, AnchorHeader, BlockFails, BlockStep, Alone, auxVars, intakeVars, predictVars
<1>2. ~Verifies(pc)
  BY DEF Poll, ReadHeader, AnchorHeader, BlockFails, Verifies
<1>3. DOMAIN bt = LocalNames /\ DOMAIN bt.done = {} /\ watched \in [Txs -> Nat] /\ KeptOK /\ IsMap(tracker)
  BY <1>2 DEF FollowInv, FollowTypes, DoneOK
<1>4. DOMAIN NoLocals = LocalNames /\ DOMAIN NoLocals.done = {}
  BY DEF NoLocals, LocalNames, Empty
<1>5. ~Verifies(pc') /\ DOMAIN bt' = LocalNames /\ DOMAIN bt'.done = {}
  <2>1. CASE Poll
    <3>1. PICK n, head : pc' = "header" /\ bt' = [NoLocals EXCEPT !.num = n, !.head = head]
      BY <2>1 DEF Poll, ToHeader
    <3> QED
      BY <1>4, <3>1 DEF Verifies, LocalNames
  <2>2. CASE ReadHeader
    <3>1. CASE pc' \in {"anchor", "logs"} /\ bt' = [bt EXCEPT !.why = "before"]
      BY <1>3, <3>1 DEF Verifies, LocalNames
    <3>2. CASE pc' = "poll" /\ bt' = NoLocals
      BY <1>4, <3>2 DEF Verifies
    <3> QED
      BY <2>2, <3>1, <3>2 DEF ReadHeader, GiveUp
  <2>3. CASE AnchorHeader
    <3>1. (pc' = "load" /\ bt' = bt) \/ (pc' = "poll" /\ bt' = NoLocals)
      BY <2>3 DEF AnchorHeader, GiveUp
    <3> QED
      BY <1>3, <1>4, <3>1 DEF Verifies
  <2>4. CASE BlockFails
    BY <1>4, <2>4 DEF BlockFails, GiveUp, Verifies
  <2> QED
    BY <2>1, <2>2, <2>3, <2>4
<1>6. KeptOK' /\ IsMap(tracker)'
  BY <1>1, <1>3 DEF KeptOK, IsMap
<1> QED
  BY <1>1, <1>2, <1>3, <1>5, <1>6, FollowOutside

LEMMA FollowAnchorLoad ==
    ASSUME TrackerInv, FollowInv, AnchorLoad
    PROVE  FollowInv'
<1> DEFINE n == Top.num - 1
           tr == Anchored(tracker, n, anchor, chain[n].id)
<1>1. /\ pc = "load" /\ UNCHANGED << queue, pred, db, recorded, dropped, lost >>
      /\ ~Verifies(pc)
  BY DEF AnchorLoad, BlockStep, Alone, intakeVars, predictVars, Verifies
<1>2. /\ DOMAIN bt = LocalNames /\ DOMAIN bt.done = {} /\ IsMap(tracker) /\ watched \in [Txs -> Nat]
      /\ KeptOK
  BY <1>1 DEF FollowInv, FollowTypes, DoneOK
<1>3. IsMap(tr) /\ n \in Int
  <2>1. IsMap(tr)
    BY MapOK
  <2>2. n \in Int
    BY <1>1, TopOK
  <2> QED
    BY <2>1, <2>2
<1>4. CASE GiveUp /\ UNCHANGED << tracker, sinceAnchor, watched, resolvedBy >>
  <2>1. ~Verifies(pc') /\ DOMAIN bt' = LocalNames /\ DOMAIN bt'.done = {}
    BY <1>4 DEF GiveUp, NoLocals, LocalNames, Empty, Verifies
  <2>2. KeptOK' /\ IsMap(tracker)'
    BY <1>2, <1>4 DEF KeptOK, IsMap
  <2> QED
    BY <1>1, <1>2, <1>4, <2>1, <2>2, FollowOutside
<1>5. CASE tracker' = tr /\ pc' = "logs" /\ UNCHANGED << stack, bt, watched, resolvedBy >>
  <2>1. ~Verifies(pc') /\ KeptOK'
    BY <1>2, <1>5 DEF KeptOK, Verifies
  <2>2. IsMap(tracker)'
    <3> HIDE DEF tr
    <3> QED
      BY <1>3, <1>5 DEF IsMap
  <2> QED
    BY <1>1, <1>2, <1>5, <2>1, <2>2, FollowOutside
<1>6. CASE ApplyTo(tr, 0, watched, stack) /\ UNCHANGED << watched, resolvedBy >>
  <2> HIDE DEF tr
  <2>1. ApplyTo(tr, 0, watched', stack)
    BY <1>6
  <2>2. KeptOK'
    BY <1>2, <1>6 DEF KeptOK
  <2> QED
    BY <1>1, <1>2, <1>3, <1>6, <2>1, <2>2, FollowBegins
<1>7. CASE RestoreFrom(n) /\ ApplyTo(tr, 0, watched', stack)
  <2> HIDE DEF tr, n
  <2>1. /\ watched' \in [Txs -> Nat] /\ KeptOK'
        /\ \A t \in Txs : watched[t] # 0 => watched'[t] # 0
    BY <1>3, <1>7, RestoreOK
  <2> QED
    BY <1>1, <1>3, <1>7, <2>1, FollowBegins
<1> QED
  BY <1>4, <1>5, <1>6, <1>7 DEF AnchorLoad

\* What an exception takes with it is lost.
LEMMA FollowAbandon ==
    ASSUME FollowInv, Abandon,
           UNCHANGED << queue, pred, watched, db, recorded, dropped, tracker, resolvedBy >>
    PROVE  FollowInv'
<1>1. pc' = "poll" /\ bt' = NoLocals /\ lost' = lost \union DOMAIN bt.done
  BY DEF Abandon, GiveUp
<1>2. DOMAIN NoLocals = LocalNames /\ DOMAIN NoLocals.done = {}
  BY DEF NoLocals, LocalNames, Empty
<1>3. \A u \in Txs : (InHand(u)' <=> InHand(u)) /\ (Followed(u) => Followed(u)' \/ u \in lost')
  BY <1>1 DEF InHand, Followed
<1>4. OnceOK' /\ EarlyOK' /\ NothingLost' /\ HeadOK'
  BY <1>1, <1>3 DEF FollowInv, OnceOK, EarlyOK, NothingLost, HeadOK
<1>5. FollowTypes' /\ KeptOK'
  BY <1>1, <1>2 DEF FollowInv, FollowTypes, KeptOK, IsMap
<1> QED
  BY <1>1, <1>2, <1>4, <1>5 DEF FollowInv, DoneOK, TodoOK, Verifies

\* A swap is resolved: from watched to resolved in memory, with a final row.
LEMMA FollowResolve ==
    ASSUME FollowInv, pc = "verify", NEW t \in DOMAIN bt.todo, NEW row \in Row,
           row.status \notin {"none", "pending"}, Resolve(t, row)
    PROVE  FollowInv'
<1> DEFINE todo == [u \in DOMAIN bt.todo \ {t} |-> bt.todo[u]]
           done == [u \in DOMAIN bt.done \union {t} |->
                       IF u = t THEN [head |-> bt.todo[t], row |-> row] ELSE bt.done[u]]
<1>1. t \in Txs /\ bt.todo[t] \in Nat \ {0} /\ watched \in [Txs -> Nat]
      /\ DOMAIN bt = LocalNames /\ pred.tx \in Txs
  BY DEF FollowInv, TodoOK, FollowTypes
<1>13. UNCHANGED << queue, pred, db, recorded, dropped, tracker, resolvedBy >>
  BY DEF Resolve, BlockStep, Alone, intakeVars, predictVars
<1>14. CASE watched[t] = 0
  <2>1. Abandon /\ watched' = watched
    BY <1>14 DEF Resolve
  <2> QED
    BY <1>13, <2>1, FollowAbandon
<1> SUFFICES ASSUME watched[t] # 0 PROVE FollowInv'
  BY <1>14
<1>2. /\ watched' = [watched EXCEPT ![t] = 0] /\ Verifying(Top, watched', todo, done)
      /\ UNCHANGED << queue, pred, db, recorded, dropped, lost, tracker, resolvedBy >>
  BY <1>13 DEF Resolve
<1>3. /\ bt'.todo = todo /\ bt'.done = done /\ DOMAIN bt' = LocalNames
      /\ pc' \in {"verify", "persist"}
  <2> HIDE DEF todo, done
  <2> QED
    BY <1>1, <1>2, LocalsOK
<1>4. /\ watched' \in [Txs -> Nat] /\ \A u \in Txs : u # t => watched'[u] = watched[u]
  BY <1>1, <1>2
<1>5. /\ DOMAIN todo = DOMAIN bt.todo \ {t} /\ \A u \in DOMAIN todo : todo[u] = bt.todo[u]
  OBVIOUS
<1>6. /\ DOMAIN done = DOMAIN bt.done \union {t} /\ \A u \in DOMAIN bt.done : u # t => done[u] = bt.done[u]
      /\ done[t].head = bt.todo[t] /\ done[t].row = row
  OBVIOUS
<1> HIDE DEF todo, done
<1>7. \A u \in Txs : (InHand(u)' <=> InHand(u)) /\ (Followed(u) => Followed(u)')
  BY <1>2, <1>3, <1>4, <1>6 DEF InHand, Followed
<1>8. OnceOK' /\ EarlyOK' /\ NothingLost'
  BY <1>2, <1>7 DEF FollowInv, OnceOK, EarlyOK, NothingLost
<1>9. HeadOK'
  BY <1>1, <1>2, <1>3, <1>4, <1>6 DEF FollowInv, HeadOK
<1>10. DoneOK'
  <2>1. ASSUME NEW u \in DOMAIN bt'.done
        PROVE  u \in Txs /\ Resolved(bt'.done[u])
    <3>1. CASE u = t
      BY <1>1, <1>3, <1>6, <3>1 DEF Resolved
    <3>2. CASE u # t
      BY <1>3, <1>6, <3>2 DEF FollowInv, DoneOK
    <3> QED
      BY <3>1, <3>2
  <2> QED
    BY <1>3, <2>1 DEF DoneOK, Verifies
<1>11. TodoOK'
  BY <1>3, <1>4, <1>5 DEF FollowInv, TodoOK
<1>12. FollowTypes' /\ KeptOK'
  BY <1>2, <1>3, <1>4 DEF FollowInv, FollowTypes, KeptOK, IsMap
<1> QED
  BY <1>8, <1>9, <1>10, <1>11, <1>12 DEF FollowInv

\* The answers about a swap.
LEMMA FollowVerify ==
    ASSUME TrackerInv, FollowInv, NEW t \in Txs,
           VerifyIncluded(t) \/ CheckNonce(t) \/ NonceUnanswered(t)
    PROVE  FollowInv'
<1>1. pc = "verify" /\ t \in DOMAIN bt.todo
  BY DEF VerifyIncluded, CheckNonce, NonceUnanswered
<1>2. Top.id \in Nat
  BY <1>1, TopOK DEF HeaderOK, BlockHeader
<1>3. ASSUME NEW status \in {"included", "replaced", "not_included"}, NEW block \in Nat,
             Resolve(t, Live(status, block))
      PROVE  FollowInv'
  <2>1. Live(status, block) \in Row /\ Live(status, block).status \notin {"none", "pending"}
    BY DEF Live, Row, Statuses
  <2> QED
    BY <1>1, <1>3, <2>1, FollowResolve
<1>4. CASE VerifyIncluded(t)
  BY <1>2, <1>3, <1>4 DEF VerifyIncluded
<1>5. CASE CheckNonce(t)
  BY <1>3, <1>5 DEF CheckNonce
<1>6. CASE NonceUnanswered(t) /\ LongOverdue(Top, bt.todo[t])
  BY <1>3, <1>6 DEF NonceUnanswered
<1>7. CASE NonceUnanswered(t) /\ ~LongOverdue(Top, bt.todo[t])
  <2> DEFINE todo == [u \in DOMAIN bt.todo \ {t} |-> bt.todo[u]]
  <2>1. /\ watched' = watched /\ Verifying(Top, watched', todo, bt.done)
        /\ UNCHANGED << queue, pred, db, recorded, dropped, lost, tracker, resolvedBy >>
    BY <1>7 DEF NonceUnanswered, Deferred, BlockStep, Alone, auxVars, intakeVars, predictVars
  <2>2. DOMAIN bt = LocalNames
    BY DEF FollowInv, FollowTypes
  <2>3. /\ bt'.todo = todo /\ bt'.done = bt.done /\ DOMAIN bt' = LocalNames
        /\ pc' \in {"verify", "persist"}
    <3> HIDE DEF todo
    <3> QED
      BY <2>1, <2>2, LocalsOK
  <2>4. \A u \in DOMAIN todo : u \in DOMAIN bt.todo /\ todo[u] = bt.todo[u]
    OBVIOUS
  <2> HIDE DEF todo
  <2>5. \A u \in Txs : (InHand(u)' <=> InHand(u)) /\ (Followed(u) <=> Followed(u)')
    BY <2>1, <2>3 DEF InHand, Followed
  <2>6. OnceOK' /\ EarlyOK' /\ NothingLost' /\ HeadOK'
    BY <2>1, <2>3, <2>5 DEF FollowInv, OnceOK, EarlyOK, NothingLost, HeadOK
  <2>7. DoneOK' /\ TodoOK'
    BY <1>1, <2>1, <2>3, <2>4 DEF FollowInv, DoneOK, TodoOK, Verifies
  <2>8. FollowTypes' /\ KeptOK'
    BY <2>1, <2>3 DEF FollowInv, FollowTypes, KeptOK, IsMap
  <2> QED
    BY <2>6, <2>7, <2>8 DEF FollowInv
<1> QED
  BY <1>4, <1>5, <1>6, <1>7

\* The rows of the resolved swaps are written: what was resolved in memory is final
\* in the database, or lost.
LEMMA FollowPersist ==
    ASSUME TrackerInv, FollowInv, PersistBlock
    PROVE  FollowInv'
<1> DEFINE outer == SubSeq(stack, 1, Len(stack) - 1)
           originals == {[tx |-> t, head |-> bt.done[t].head] : t \in DOMAIN bt.done}
           kept == {n \in DOMAIN resolvedBy : n >= Top.num - Checkpoints}
<1>1. /\ pc = "persist" /\ UNCHANGED << queue, pred, recorded, dropped, watched >>
  BY DEF PersistBlock, BlockStep, Alone, intakeVars, predictVars
<1>2. resolvedBy' = [n \in kept \union {Top.num} |->
                            IF n = Top.num THEN originals ELSE resolvedBy[n]]
  BY DEF PersistBlock
<1>15. PICK ok \in Writes :
          /\ db' = [t \in Txs |->
                       IF ok /\ t \in DOMAIN bt.done THEN bt.done[t].row
                       ELSE IF ok /\ t \in bt.replays THEN Replayed(Top.id) ELSE db[t]]
          /\ FinalRows(DOMAIN bt.done, ok)
  BY DEF PersistBlock
<1>3. \/ ApplyTo(tracker, sinceAnchor, watched, outer)
      \/ (ToHeader(Top.num + 1, bt.head) \/ GiveUp) /\ tracker' = tracker
  BY DEF PersistBlock
<1>4. /\ DOMAIN bt = LocalNames /\ watched \in [Txs -> Nat] /\ db \in [Txs -> Row] /\ IsMap(tracker)
      /\ pred.tx \in Txs /\ DOMAIN queue = 1..Len(queue)
      /\ \A t \in DOMAIN bt.done : t \in Txs /\ Resolved(bt.done[t])
  BY DEF FollowInv, FollowTypes, DoneOK
<1>5. Replayed(Top.id) \in Row /\ Replayed(Top.id).status = "included"
  <2>1. Top.id \in Nat
    BY <1>1, TopOK DEF HeaderOK, BlockHeader
  <2> QED
    BY <2>1 DEF Replayed, Row, Statuses
<1>6. ASSUME NEW t \in Txs
      PROVE  /\ db'[t] \in Row
             /\ db'[t].status \in {"none", "pending"} => db'[t] = db[t]
             /\ t \in lost \union DOMAIN bt.done /\ db'[t].status \in {"none", "pending"} => t \in lost'
  <2>1. CASE ok /\ t \in DOMAIN bt.done
    BY <1>4, <1>15, <2>1 DEF Resolved
  <2>2. CASE t \notin DOMAIN bt.done
    BY <1>4, <1>5, <1>15, <2>2 DEF FinalRows
  <2>3. CASE ~ok
    BY <1>4, <1>15, <2>3 DEF FinalRows
  <2> QED
    BY <2>1, <2>2, <2>3
<1>7. db' \in [Txs -> Row]
  BY <1>6, <1>15
<1>8. KeptOK'
  <2>1. \A r \in originals : r.tx \in Txs /\ r.head \in Nat \ {0}
    BY <1>4 DEF Resolved
  <2> HIDE DEF originals
  <2>2. ASSUME NEW n \in DOMAIN resolvedBy', NEW r \in resolvedBy'[n]
        PROVE  r.tx \in Txs /\ r.head \in Nat \ {0}
    <3>1. CASE n = Top.num
      BY <1>2, <2>1, <2>2, <3>1
    <3>2. CASE n # Top.num
      <4>1. n \in DOMAIN resolvedBy /\ resolvedBy'[n] = resolvedBy[n]
        BY <1>2, <3>2
      <4> QED
        BY <2>2, <4>1 DEF FollowInv, KeptOK
    <3> QED
      BY <3>1, <3>2
  <2> QED
    BY <2>2 DEF KeptOK
<1>9. \A u \in Txs : InHand(u)' <=> InHand(u)
  BY <1>1 DEF InHand
<1>10. OnceOK' /\ EarlyOK'
  BY <1>1, <1>6, <1>9 DEF FollowInv, OnceOK, EarlyOK
<1>11. \A t \in Txs : /\ db'[t].status = "pending" => InHand(t)' \/ watched'[t] # 0 \/ t \in lost'
                      /\ t \in recorded' => \/ InHand(t)' \/ watched'[t] # 0 \/ t \in lost'
                                            \/ t \in dropped' \/ db'[t].status # "none"
  <2>1. ASSUME NEW t \in Txs, Followed(t)
        PROVE  InHand(t) \/ watched[t] # 0 \/ t \in DOMAIN bt.done
    BY <1>4, <2>1 DEF Followed, InHand
  <2> QED
    BY <1>1, <1>6, <1>9, <2>1 DEF FollowInv, NothingLost
<1>12. /\ pred'.pc = "predict" => pred'.head # 0
       /\ pred'.pc = "pending" => watched'[pred'.tx] # 0 \/ pred'.tx \in lost'
  BY <1>1, <1>15 DEF FollowInv, HeadOK, FinalRows, Overtaken
<1>13. CASE ApplyTo(tracker, sinceAnchor, watched, outer)
  <2> HIDE DEF outer
  <2>1. ApplyTo(tracker, sinceAnchor, watched', outer)
    BY <1>1, <1>13
  <2>2. DOMAIN bt' = LocalNames
    <3>1. bt' = NoLocals \/ \E h, w, todo, done : Verifying(h, w, todo, done)
      BY <1>13 DEF ApplyTo, GiveUp
    <3>2. DOMAIN NoLocals = LocalNames
      BY DEF NoLocals, LocalNames
    <3> QED
      BY <1>4, <3>1, <3>2, LocalsOK
  <2>3. IsMap(tracker)'
    <3>1. tracker' = tracker \/ \E h : tracker' = Applied(tracker, h)
      BY <1>13 DEF ApplyTo
    <3>2. IsMap(tracker')
      BY <1>4, <3>1, MapOK
    <3> QED
      BY <3>2 DEF IsMap
  <2>4. FollowTypes'
    BY <1>1, <1>4, <1>7, <2>2, <2>3 DEF FollowInv, FollowTypes
  <2> QED
    BY <1>4, <1>8, <1>10, <1>11, <1>12, <2>1, <2>4, FollowApplyTo
<1>14. CASE (ToHeader(Top.num + 1, bt.head) \/ GiveUp) /\ tracker' = tracker
  <2>1. ~Verifies(pc') /\ DOMAIN bt' = LocalNames /\ DOMAIN bt'.done = {}
    <3>1. DOMAIN NoLocals = LocalNames /\ DOMAIN NoLocals.done = {}
      BY DEF NoLocals, LocalNames, Empty
    <3>2. ASSUME NEW n, NEW head
          PROVE  /\ DOMAIN [NoLocals EXCEPT !.num = n, !.head = head] = LocalNames
                 /\ [NoLocals EXCEPT !.num = n, !.head = head].done = NoLocals.done
      BY <3>1 DEF LocalNames
    <3> QED
      <4>1. CASE ToHeader(Top.num + 1, bt.head)
        <5>1. pc' = "header" /\ bt' = [NoLocals EXCEPT !.num = Top.num + 1, !.head = bt.head]
          BY <4>1 DEF ToHeader
        <5>2. DOMAIN bt' = LocalNames /\ bt'.done = NoLocals.done
          BY <3>2, <5>1, Zenon
        <5> QED
          BY <3>1, <5>1, <5>2 DEF Verifies
      <4>2. CASE GiveUp
        BY <3>1, <4>2 DEF GiveUp, Verifies
      <4> QED
        BY <1>14, <4>1, <4>2
  <2>2. FollowTypes'
    BY <1>1, <1>4, <1>7, <1>14, <2>1 DEF FollowInv, FollowTypes, IsMap
  <2>3. HeadOK' /\ DoneOK' /\ TodoOK'
    BY <1>12, <2>1 DEF HeadOK, DoneOK, TodoOK, Verifies
  <2>4. NothingLost'
    <3>1. \A t \in Txs : InHand(t)' \/ watched'[t] # 0 => Followed(t)'
      BY <1>1, <1>4 DEF InHand, Followed
    <3> QED
      BY <1>11, <3>1 DEF NothingLost
  <2> QED
    BY <1>8, <1>10, <2>2, <2>3, <2>4 DEF FollowInv
<1> QED
  BY <1>3, <1>13, <1>14

\* A restart closes the rows nobody follows any more, unless it fails to.
LEMMA FollowRestart ==
    ASSUME FollowInv, Restart
    PROVE  FollowInv'
<1>1. /\ queue' = << >> /\ pred' = IdlePred /\ recorded' = {} /\ watched' = [t \in Txs |-> 0]
      /\ pc' = "poll" /\ bt' = NoLocals /\ tracker' = Empty /\ resolvedBy' = Empty
  BY DEF Restart, GiveUp
<1>2. pred' \in [pc : PredStates, tx : Txs, head : Nat] /\ pred'.pc = "idle"
  BY <1>1, WatcherConstants DEF IdlePred, PredStates
<1>3. db' \in [Txs -> Row] /\ \A t \in Txs : db'[t].status = "pending" => t \in lost'
  <2>1. PICK ok \in Writes :
           /\ db' = [t \in Txs |-> IF ok /\ db[t].status = "pending"
                                   THEN [db[t] EXCEPT !.status = "no_state"] ELSE db[t]]
           /\ lost' = IF ok THEN {} ELSE {t \in Txs : db[t].status = "pending"}
    BY DEF Restart
  <2>2. ASSUME NEW t \in Txs
        PROVE  db'[t] \in Row /\ (db'[t].status = "pending" => t \in lost')
    <3>1. db[t] \in Row
      BY DEF FollowInv, FollowTypes
    <3>2. [db[t] EXCEPT !.status = "no_state"] \in Row
          /\ [db[t] EXCEPT !.status = "no_state"].status = "no_state"
      BY <3>1 DEF Row, Statuses
    <3> QED
      BY <2>1, <3>1, <3>2
  <2> QED
    BY <2>1, <2>2
<1>4. DOMAIN NoLocals = LocalNames /\ DOMAIN NoLocals.done = {} /\ DOMAIN Empty = {}
  BY DEF NoLocals, LocalNames, Empty
<1>5. FollowTypes'
  <2>1. IsMap(tracker)'
    BY <1>1, MapOK DEF IsMap
  <2> QED
    BY <1>1, <1>2, <1>3, <1>4, <2>1 DEF FollowTypes
<1> QED
  BY <1>1, <1>2, <1>3, <1>4, <1>5 DEF FollowInv, OnceOK, EarlyOK, InHand, HeadOK, DoneOK, Verifies,
        TodoOK, KeptOK, NothingLost

LEMMA FollowNext ==
    ASSUME TrackerInv, FollowInv, [Next]_vars
    PROVE  FollowInv'
<1>1. CASE Chain \/ SourcesRefuse \/ CheckGrace \/ UNCHANGED vars
  <2>1. UNCHANGED << queue, pred, watched, db, recorded, dropped, lost, pc, bt, tracker, resolvedBy >>
    BY <1>1 DEF Chain, Mine, Reorg, SourcesRefuse, CheckGrace, ToReplay, vars, intakeVars, predictVars,
                blockVars, auxVars
  <2> QED
    BY <2>1, FollowStutter
<1>2. CASE \E t \in Txs : OnPending(t)
  BY <1>2, FollowOnPending
<1>3. CASE Predict
  BY <1>3, FollowTake, FollowWait, FollowEnds, FollowStore DEF Predict
<1>4. CASE Poll \/ ReadHeader \/ AnchorHeader \/ BlockFails
  BY <1>4, FollowReads
<1>5. CASE ApplyBlock
  BY <1>5, FollowApplyBlock
<1>6. CASE AnchorLoad
  BY <1>6, FollowAnchorLoad
<1>7. CASE PersistBlock
  BY <1>7, FollowPersist
<1>8. CASE \E t \in Txs : VerifyIncluded(t) \/ CheckNonce(t) \/ NonceUnanswered(t)
  BY <1>8, FollowVerify
<1>9. CASE Restart
  BY <1>9, FollowRestart
<1>10. CASE AfterBlockFails
  <2>1. Abandon /\ UNCHANGED << queue, pred, watched, db, recorded, dropped, tracker, resolvedBy >>
    BY <1>10 DEF AfterBlockFails, intakeVars, predictVars
  <2> QED
    BY <2>1, FollowAbandon
<1> QED
  BY <1>1, <1>2, <1>3, <1>4, <1>5, <1>6, <1>7, <1>8, <1>9, <1>10 DEF Next, Intake, Blocks

\* Every behaviour keeps a swap in one place on its way from the queue to its
\* final row, over rivals, overtaken and failing writes, raising predictions and
\* verifications, reorganisations and restarts, or it is among those that an error
\* has lost (watcher.py on_pending to _after_block).
THEOREM WatcherFollows == Spec => []FollowInv
<1>1. Init => FollowInv
  BY FollowInit
<1>2. TrackerInv /\ FollowInv /\ [Next]_vars => FollowInv'
  BY FollowNext
<1> QED
  BY <1>1, <1>2, WatcherInvariant, PTL DEF Spec

\* ... so a swap that was taken up is followed, counted as dropped, has a final
\* row or was lost by one of the errors named, and no other row says "pending" of
\* a swap that nobody follows.
THEOREM WatcherNothingLost == Spec => []NothingLost
<1>1. FollowInv => NothingLost
  BY DEF FollowInv
<1> QED
  BY <1>1, WatcherFollows, PTL
-----------------------------------------------------------------------------
\* What a reorganisation leaves to be done again.  Below there is one
\* reorganisation, no deeper than the nested calls of _apply and the tracker's
\* history, no call fails while it is being redone, and nothing raises in
\* _after_block, as a rival's replacement could make it: otherwise a dead block can
\* be forgotten with what it resolved (README).  Anchors may be renewed at any block,
\* for their age or because the price has left the window.
OneReorg ==
    /\ MaxReorgs <= 1 /\ Faults \intersect {"rpc_redo", "after"} = {} /\ Rivals = {}
    /\ MaxDrop <= MaxReorgDepth /\ MaxDrop <= Checkpoints

\* The block with this id is on the chain under this number; or it was, on the
\* chain "old" that the reorganisation cut back to its first f blocks.
On(n, id) == n \in 1..Len(chain) /\ chain[n].id = id
Dead(old, f, n, id) == n \in f + 1 .. Len(old) /\ old[n].id = id

Branches(old, f) ==
    /\ old \in Seq(Block) /\ f \in Nat /\ f <= Len(chain) /\ f <= Len(old) /\ Len(old) <= f + MaxDrop
    /\ FirstLength <= Len(chain)
    /\ used.reorgs = 0 => old = << >>
    /\ \A m, n \in 1..Len(chain) : m < n => chain[m].id < chain[n].id
    /\ \A n \in 1..f : old[n].id = chain[n].id
    /\ \A n \in f + 1 .. Len(old) :
          old[n].id <= made /\ \A m \in 1..Len(chain) : chain[m].id # old[n].id

\* A header in flight is that of a block of the chain, or of a dead one.
OnHeader(h) == On(h.num, h.id) /\ h.parent = chain[h.num - 1].id
DeadHeader(old, f, h) == Dead(old, f, h.num, h.id) /\ h.parent = old[h.num - 1].id

\* What is tracked is a stretch of one of the two chains: once an entry is dead, the
\* later ones are.
Stretch(old, f, tr) ==
    /\ \A n \in DOMAIN tr : On(n, tr[n].id) \/ Dead(old, f, n, tr[n].id)
    /\ \A n, m \in DOMAIN tr : n < m /\ Dead(old, f, n, tr[n].id) => Dead(old, f, m, tr[m].id)
    /\ \A n, m \in DOMAIN tr : \A k \in n..m : k \in DOMAIN tr
Greatest(tr, e) == e \in DOMAIN tr /\ \A m \in DOMAIN tr : m <= e

\* A reorganisation is being redone: the calls of _apply nest, and the headers of
\* all of them are on the chain.
Nests(calls, at) == Len(calls) > 1 \/ (calls # << >> /\ at = "header")
Nested == Nests(stack, pc)
Chained(old, f, calls, nested) ==
    /\ \A i \in 1..Len(calls) :
          /\ calls[i].num >= 2 /\ calls[i].num = calls[1].num - (i - 1)
          /\ OnHeader(calls[i]) \/ (DeadHeader(old, f, calls[i]) /\ ~nested)
    /\ nested => used.reorgs # 0 /\ calls[1].num <= Len(old) + 1

\* The number of the last block that is done with, from the block task's place.
Edge == IF stack = << >> THEN lastBlock ELSE IF pc = "header" THEN Top.num - 2 ELSE Top.num - 1
Place ==
    /\ lastBlock \in Nat /\ \A m \in DOMAIN resolvedBy : m \in Nat /\ m <= Edge
    /\ stack = << >> => pc \in {"poll", "header"}
    /\ stack # << >> => pc # "poll"
    /\ lastBlock = 0 => DOMAIN tracker = {} /\ pc = "poll"
    /\ pc = "header" => bt.num = Edge + 1
    /\ pc \in {"anchor", "load", "logs"} /\ ~Nested => Top.num = lastBlock + 1

\* ... and so the newest of the tracked ones.
Newest ==
    \/ DOMAIN tracker = {} /\ ~Nested /\ pc \in {"poll", "header", "anchor", "load"}
    \/ Greatest(tracker, IF Verifies(pc) THEN Edge + 1 ELSE Edge)
Anchoring(old, f) ==
    /\ pc \in {"anchor", "load"} =>
          \/ bt.why = "before" /\ (DOMAIN tracker = {} \/ Greatest(tracker, Top.num - 1))
          \/ bt.why = "reorg" /\ DOMAIN tracker # {} /\ Top.num - 2 \notin DOMAIN tracker
    /\ pc = "load" =>
          On(Top.num - 1, anchor) \/ (Dead(old, f, Top.num - 1, anchor) /\ ~Nested)
    /\ pc \in {"anchor", "load", "logs"} /\ ~OnHeader(Top) =>
          \/ Top.num - 2 \notin DOMAIN tracker
          \/ Top.num - 1 \in DOMAIN tracker /\ tracker[Top.num - 1].id = Top.parent
    /\ Verifies(pc) => tracker[Top.num].id = Top.id

\* Where a block cannot be given up any more.
Settled(n) == used.reorgs = 0 => n + MaxDrop <= Len(chain)
\* The tracker still has the block, and _resolved_by_block what it resolved.
Recorded(tr, by, t, id) ==
    \E m \in DOMAIN tr \intersect DOMAIN by : tr[m].id = id /\ \E r \in by[m] : r.tx = t
SettledIn(id) == \E n \in 1..Len(chain) : chain[n].id = id /\ Settled(n)
Verified(t) == db[t].mode = "live" /\ db[t].status = "included"
Held ==
    /\ \A t \in Txs : Verified(t) =>
          \/ watched[t] # 0 \/ t \in DOMAIN bt.done \/ t \in lost
          \/ Recorded(tracker, resolvedBy, t, db[t].block) \/ SettledIn(db[t].block)
    /\ Verifies(pc) => \A t \in DOMAIN bt.done :
          bt.done[t].row.status = "included" => bt.done[t].row.block = Top.id

RedoInv(old, f) ==
    /\ Branches(old, f) /\ Stretch(old, f, tracker) /\ Chained(old, f, stack, Nested)
    /\ Place /\ Newest /\ Anchoring(old, f) /\ Held

\* The inductive invariant of RedoneAfterReorg, in a process that was not restarted
\* and as long as no anchor and no catch-up has passed over the reorganisation.
Redoable ==
    /\ used \in [faults : Nat, reorgs : Nat, switches : Nat, restarts : Nat]
    /\ used.restarts = 0 /\ ~hidden => \E old, f : RedoInv(old, f)

\* The blocks of a chain.
LEMMA BlockFacts ==
    ASSUME NEW s \in Seq(Block)
    PROVE  Len(s) \in Nat /\ \A n \in 1..Len(s) : s[n] \in Block /\ s[n].id \in Nat
<1>1. Len(s) \in Nat /\ \A n \in 1..Len(s) : s[n] \in Block
  OBVIOUS
<1>2. \A b \in Block : b.id \in Nat
  BY DEF Block
<1> QED
  BY <1>1, <1>2

LEMMA ChainFacts ==
    ASSUME TrackerInv
    PROVE  /\ made \in Nat /\ chain \in Seq(Block) /\ Len(chain) \in Nat /\ Len(chain) <= made
           /\ DOMAIN chain = 1..Len(chain)
           /\ \A n \in 1..Len(chain) : chain[n] \in Block /\ chain[n].id \in Nat /\ chain[n].id <= made
           /\ MaxDrop \in Nat /\ FirstLength \in Nat /\ FirstLength >= 2
           /\ Checkpoints \in Nat \ {0}
<1>1. /\ made \in Nat /\ chain \in Seq(Block) /\ Len(chain) <= made
      /\ \A n \in 1..Len(chain) : chain[n].id <= made
  BY DEF TrackerInv, ChainOK
<1>2. MaxDrop \in Nat /\ FirstLength \in Nat /\ FirstLength >= 2 /\ Checkpoints \in Nat \ {0}
  BY WatcherConstants DEF FirstLength
<1> QED
  BY <1>1, <1>2, BlockFacts

\* A step that leaves the chain alone leaves alone where blocks and headers are.
LEMMA SameBranches ==
    ASSUME NEW old, NEW f, Branches(old, f), UNCHANGED chainVars, used'.reorgs = used.reorgs
    PROVE  /\ Branches(old, f)' /\ \A tr : Stretch(old, f, tr)' <=> Stretch(old, f, tr)
           /\ \A n, id : (On(n, id)' <=> On(n, id)) /\ (Dead(old, f, n, id)' <=> Dead(old, f, n, id))
           /\ \A h : (OnHeader(h)' <=> OnHeader(h)) /\ (DeadHeader(old, f, h)' <=> DeadHeader(old, f, h))
           /\ \A calls, nested : Chained(old, f, calls, nested)' <=> Chained(old, f, calls, nested)
           /\ \A id : SettledIn(id)' <=> SettledIn(id)
<1>1. chain' = chain /\ made' = made
  BY DEF chainVars
<1>2. \A n, id : (On(n, id)' <=> On(n, id)) /\ (Dead(old, f, n, id)' <=> Dead(old, f, n, id))
  BY <1>1 DEF On, Dead
<1>3. \A h : (OnHeader(h)' <=> OnHeader(h)) /\ (DeadHeader(old, f, h)' <=> DeadHeader(old, f, h))
  BY <1>1, <1>2 DEF OnHeader, DeadHeader
<1>4. Branches(old, f)'
  BY <1>1 DEF Branches
<1>5. \A tr : Stretch(old, f, tr)' <=> Stretch(old, f, tr)
  BY <1>2 DEF Stretch
<1>6. \A calls, nested : Chained(old, f, calls, nested)' <=> Chained(old, f, calls, nested)
  BY <1>3 DEF Chained
<1>7. \A id : SettledIn(id)' <=> SettledIn(id)
  BY <1>1 DEF SettledIn, Settled
<1> QED
  BY <1>2, <1>3, <1>4, <1>5, <1>6, <1>7

\* A block of the one branch is not of the other.
LEMMA NotBoth ==
    ASSUME NEW old, NEW f, Branches(old, f), NEW n, NEW m, NEW id, On(n, id)
    PROVE  ~Dead(old, f, m, id)
  BY DEF Branches, On, Dead

\* An entry as many numbers below the newest as the history is long cannot be given
\* up any more: the reorganisation does not reach it, or it is past.
LEMMA Aged ==
    ASSUME OneReorg, TrackerInv, NEW old, NEW f, Branches(old, f), NEW tr, Stretch(old, f, tr),
           NEW e \in Int, NEW n \in DOMAIN tr, n \in Int, e \in DOMAIN tr, e - n >= Checkpoints
    PROVE  SettledIn(tr[n].id)
<1>1. /\ Checkpoints \in Nat \ {0} /\ MaxDrop \in Nat /\ MaxDrop <= Checkpoints
      /\ chain \in Seq(Block) /\ Len(chain) \in Nat
  BY WatcherConstants DEF OneReorg, TrackerInv, ChainOK
<1>2. old \in Seq(Block) /\ Len(old) \in Nat /\ f \in Nat /\ Len(old) <= f + MaxDrop
  BY DEF Branches
<1>3. ~Dead(old, f, n, tr[n].id)
  <2>1. SUFFICES ASSUME Dead(old, f, n, tr[n].id) PROVE FALSE
    OBVIOUS
  <2>2. n < e
    BY <1>1
  <2>3. Dead(old, f, e, tr[e].id)
    BY <2>1, <2>2 DEF Stretch
  <2> QED
    BY <1>1, <1>2, <2>1, <2>3 DEF Dead
<1>4. On(n, tr[n].id)
  BY <1>3 DEF Stretch
<1>5. used.reorgs = 0 => n + MaxDrop <= Len(chain)
  <2>1. SUFFICES ASSUME used.reorgs = 0 PROVE n + MaxDrop <= Len(chain)
    OBVIOUS
  <2>2. Len(old) = 0
    BY <2>1 DEF Branches
  <2>3. ~Dead(old, f, e, tr[e].id)
    BY <1>2, <2>2 DEF Dead
  <2>4. On(e, tr[e].id)
    BY <2>3 DEF Stretch
  <2> QED
    BY <1>1, <2>4 DEF On
<1> QED
  BY <1>4, <1>5 DEF SettledIn, Settled, On

\* _trim keeps the newest entries, as many as the history is long or more.
LEMMA TrimKeeps ==
    ASSUME NEW tr, DOMAIN tr \subseteq Nat, NEW e \in Nat, Greatest(tr, e)
    PROVE  /\ Greatest(Trim(tr), e) /\ DOMAIN Trim(tr) \subseteq DOMAIN tr
           /\ \A n \in DOMAIN Trim(tr) : Trim(tr)[n] = tr[n]
           /\ \A n \in DOMAIN tr \ DOMAIN Trim(tr) : e - n >= Checkpoints
           /\ \A n \in DOMAIN Trim(tr), m \in DOMAIN tr : n < m => m \in DOMAIN Trim(tr)
<1> DEFINE above(n) == {m \in DOMAIN tr : m > n}
<1>1. Checkpoints \in Nat \ {0}
  BY WatcherConstants
<1>2. /\ DOMAIN Trim(tr) = {n \in DOMAIN tr : Cardinality(above(n)) < Checkpoints}
      /\ \A n \in DOMAIN Trim(tr) : Trim(tr)[n] = tr[n]
  BY DEF Trim
<1>3. ASSUME NEW n \in DOMAIN tr
      PROVE  /\ IsFiniteSet(above(n)) /\ Cardinality(above(n)) \in Nat
             /\ Cardinality(above(n)) <= e - n
  <2>1. n \in Nat /\ n <= e
    BY DEF Greatest
  <2>2. IsFiniteSet(n + 1 .. e) /\ Cardinality(n + 1 .. e) = e - n
    <3>1. /\ IsFiniteSet(n + 1 .. e)
          /\ Cardinality(n + 1 .. e) = IF n + 1 > e THEN 0 ELSE e - (n + 1) + 1
      <4>1. n + 1 \in Int /\ e \in Int
        BY <2>1
      <4> QED
        BY <4>1, FS_Interval, Zenon
    <3> QED
      BY <2>1, <3>1
  <2>3. above(n) \in SUBSET (n + 1 .. e)
    BY <2>1 DEF Greatest
  <2> HIDE DEF above
  <2>4. IsFiniteSet(above(n)) /\ Cardinality(above(n)) <= Cardinality(n + 1 .. e)
    BY <2>2, <2>3, FS_Subset
  <2>5. Cardinality(above(n)) \in Nat
    BY <2>4, FS_CardinalityType
  <2> QED
    BY <2>2, <2>4, <2>5
<1>4. Cardinality(above(e)) = 0
  <2>1. above(e) = {}
    BY DEF Greatest
  <2> QED
    BY <2>1, FS_EmptySet
<1>5. ASSUME NEW n \in DOMAIN Trim(tr), NEW m \in DOMAIN tr, n < m
      PROVE  m \in DOMAIN Trim(tr)
  <2>1. n \in DOMAIN tr /\ n \in Nat /\ m \in Nat /\ Cardinality(above(n)) < Checkpoints
    BY <1>2
  <2>2. above(m) \in SUBSET above(n)
    BY <1>5, <2>1
  <2>3. IsFiniteSet(above(n)) /\ Cardinality(above(n)) \in Nat /\ Cardinality(above(m)) \in Nat
    BY <1>3, <2>1
  <2> HIDE DEF above
  <2>4. Cardinality(above(m)) <= Cardinality(above(n))
    BY <2>2, <2>3, FS_Subset
  <2> QED
    BY <1>1, <1>2, <2>1, <2>3, <2>4
<1> HIDE DEF above
<1>6. e \in DOMAIN Trim(tr)
  BY <1>1, <1>2, <1>4 DEF Greatest
<1>7. ASSUME NEW n \in DOMAIN tr \ DOMAIN Trim(tr)
      PROVE  e - n >= Checkpoints
  <2>1. ~(Cardinality(above(n)) < Checkpoints)
    BY <1>2
  <2>2. n \in Nat
    OBVIOUS
  <2> QED
    BY <1>1, <1>3, <2>1, <2>2
<1> QED
  BY <1>2, <1>5, <1>6, <1>7 DEF Greatest

\* ... so that the newest block is one more of the stretch, and what is forgotten
\* cannot be given up any more.
LEMMA StretchApplied ==
    ASSUME OneReorg, TrackerInv, NEW old, NEW f, Branches(old, f), NEW tr, Stretch(old, f, tr),
           NEW h, h.num \in Nat, OnHeader(h) \/ DeadHeader(old, f, h),
           Applies(tr, h), Greatest(tr, h.num - 1)
    PROVE  LET new == Applied(tr, h)
           IN  /\ Stretch(old, f, new) /\ Greatest(new, h.num) /\ new[h.num].id = h.id
               /\ \A n \in DOMAIN tr : \/ n \in DOMAIN new /\ new[n] = tr[n]
                                       \/ SettledIn(tr[n].id)
<1> DEFINE state == IF tr[h.num - 1].state = h.parent THEN h.id ELSE 0
           more == [m \in DOMAIN tr \union {h.num} |->
                      IF m = h.num THEN [id |-> h.id, state |-> state] ELSE tr[m]]
           e == h.num
<1>1. /\ DOMAIN more = DOMAIN tr \union {h.num} /\ more[h.num].id = h.id
      /\ \A m \in DOMAIN tr : m # h.num => more[m] = tr[m]
  OBVIOUS
<1>2. /\ \A m \in DOMAIN tr : m \in Nat /\ m >= 1 /\ m <= h.num - 1
      /\ h.num - 1 \in DOMAIN tr
  <2>1. f \in Nat
    BY DEF Branches
  <2> QED
    BY <2>1 DEF Stretch, On, Dead, Greatest
<1>3. \A m \in DOMAIN tr : m # h.num /\ more[m] = tr[m]
  BY <1>1, <1>2
<1> HIDE DEF more
<1>4. h.parent = tr[h.num - 1].id
  BY DEF Applies, SameParent
<1>5. On(h.num, h.id) \/ Dead(old, f, h.num, h.id)
  BY DEF OnHeader, DeadHeader
<1>6. ASSUME Dead(old, f, h.num - 1, tr[h.num - 1].id)
      PROVE  Dead(old, f, h.num, h.id)
  <2>1. SUFFICES ASSUME OnHeader(h) PROVE FALSE
    BY DEF DeadHeader
  <2>2. On(h.num - 1, h.parent)
    BY <1>2, <2>1 DEF OnHeader, On
  <2> QED
    BY <1>4, <1>6, <2>2, NotBoth
<1>7. ASSUME NEW n \in DOMAIN tr, Dead(old, f, n, tr[n].id)
      PROVE  Dead(old, f, h.num, h.id)
  <2>1. n = h.num - 1 \/ n < h.num - 1
    BY <1>2
  <2>2. Dead(old, f, h.num - 1, tr[h.num - 1].id)
    BY <1>2, <1>7, <2>1 DEF Stretch
  <2> QED
    BY <1>6, <2>2
<1>8. Stretch(old, f, more)
  <2>1. \A n \in DOMAIN more : On(n, more[n].id) \/ Dead(old, f, n, more[n].id)
    BY <1>1, <1>3, <1>5 DEF Stretch
  <2>2. ASSUME NEW n \in DOMAIN more, NEW m \in DOMAIN more, n < m, Dead(old, f, n, more[n].id)
        PROVE  Dead(old, f, m, more[m].id)
    <3>1. n \in DOMAIN tr /\ Dead(old, f, n, tr[n].id)
      BY <1>1, <1>2, <1>3, <2>2
    <3>2. CASE m = h.num
      BY <1>1, <1>7, <3>1, <3>2
    <3>3. CASE m # h.num
      BY <1>1, <1>3, <2>2, <3>1, <3>3 DEF Stretch
    <3> QED
      BY <3>2, <3>3
  <2>3. ASSUME NEW n \in DOMAIN more, NEW m \in DOMAIN more, NEW k \in n..m
        PROVE  k \in DOMAIN more
    <3>1. k \in Int /\ n \in Nat /\ m \in Nat /\ n <= k /\ k <= m
      BY <1>1, <1>2
    <3>2. CASE k = h.num
      BY <1>1, <3>2
    <3>3. CASE k # h.num
      <4>1. m <= h.num /\ n <= h.num - 1
        BY <1>1, <1>2, <3>1, <3>3
      <4>2. n \in DOMAIN tr /\ k \in n .. h.num - 1
        BY <1>1, <3>1, <3>3, <4>1
      <4> QED
        BY <1>1, <1>2, <4>2 DEF Stretch
    <3> QED
      BY <3>2, <3>3
  <2> QED
    BY <2>1, <2>2, <2>3 DEF Stretch
<1>9. Greatest(more, e) /\ DOMAIN more \subseteq Nat /\ e \in Nat
  BY <1>1, <1>2 DEF Greatest
<1>10. /\ Greatest(Trim(more), e) /\ DOMAIN Trim(more) \subseteq DOMAIN more
       /\ \A n \in DOMAIN Trim(more) : Trim(more)[n] = more[n]
       /\ \A n \in DOMAIN more \ DOMAIN Trim(more) : e - n >= Checkpoints
       /\ \A n \in DOMAIN Trim(more), m \in DOMAIN more : n < m => m \in DOMAIN Trim(more)
  <2> HIDE DEF e
  <2> QED
    BY <1>9, TrimKeeps
<1>11. Stretch(old, f, Trim(more))
  <2>1. ASSUME NEW n \in DOMAIN Trim(more), NEW m \in DOMAIN Trim(more), NEW k \in n..m
        PROVE  k \in DOMAIN Trim(more)
    <3>1. k \in DOMAIN more /\ n \in Nat /\ m \in Nat
      BY <1>8, <1>9, <1>10 DEF Stretch
    <3>2. k = n \/ n < k
      BY <3>1
    <3> QED
      BY <1>10, <3>1, <3>2
  <2> QED
    BY <1>8, <1>10, <2>1 DEF Stretch
<1>12. ASSUME NEW n \in DOMAIN tr
       PROVE  \/ n \in DOMAIN Trim(more) /\ Trim(more)[n] = tr[n]
              \/ SettledIn(tr[n].id)
  <2>1. CASE n \in DOMAIN Trim(more)
    BY <1>3, <1>10, <2>1
  <2>2. CASE n \notin DOMAIN Trim(more)
    <3>1. n \in DOMAIN more /\ n \in Int /\ e - n >= Checkpoints
      BY <1>1, <1>2, <1>10, <2>2
    <3>2. SettledIn(more[n].id)
      <4> HIDE DEF e
      <4>1. e \in Int /\ e \in DOMAIN more
        BY <1>9 DEF Greatest
      <4> QED
        BY <1>8, <3>1, <4>1, Aged
    <3> QED
      BY <1>3, <3>2
  <2> QED
    BY <2>1, <2>2
<1>13. Applied(tr, h) = Trim(more)
  BY DEF Applied, more
<1>14. Trim(more)[h.num].id = h.id
  BY <1>1, <1>10 DEF Greatest
<1> QED
  BY <1>10, <1>11, <1>12, <1>13, <1>14

\* The beginning: nothing is tracked and nothing was given up.
LEMMA RedoInit ==
    ASSUME Init
    PROVE  Redoable
<1>1. TrackerInv /\ Len(chain) = FirstLength /\ \A n \in 1..Len(chain) : chain[n].id = n
  <2>1. FirstLength \in Nat
    BY WatcherConstants DEF FirstLength
  <2>2. TrackerInv /\ chain \in Seq(Block)
    BY TrackerInvInit DEF TrackerInv, ChainOK
  <2>3. chain = [n \in 1..FirstLength |-> [id |-> n, txs |-> {}]]
    BY DEF Init
  <2>4. Len(chain) = FirstLength
    BY <2>1, <2>2, <2>3
  <2> QED
    BY <2>2, <2>3, <2>4
<1>2. Len(chain) \in Nat /\ << >> \in Seq(Block) /\ Len(<< >>) = 0 /\ MaxDrop \in Nat
  BY <1>1, WatcherConstants DEF TrackerInv, ChainOK
<1>3. /\ pc = "poll" /\ stack = << >> /\ tracker = Empty /\ lastBlock = 0 /\ resolvedBy = Empty
      /\ DOMAIN Empty = {} /\ used = [faults |-> 0, reorgs |-> 0, switches |-> 0, restarts |-> 0]
  BY DEF Init, Empty
<1>4. Branches(<< >>, 0)
  BY <1>1, <1>2 DEF Branches
<1>5. Stretch(<< >>, 0, tracker)
  BY <1>3 DEF Stretch
<1>6. ~Nested
  BY <1>3 DEF Nested, Nests
<1>7. Chained(<< >>, 0, stack, Nested)
  BY <1>3, <1>6 DEF Chained
<1>8. Place /\ Newest /\ Anchoring(<< >>, 0)
  BY <1>3, <1>6 DEF Place, Newest, Anchoring, Verifies, Edge
<1>9. Held
  <2>1. \A t \in Txs : db[t].mode = "none"
    BY DEF Init, NoRow
  <2> QED
    BY <1>3, <2>1 DEF Held, Verified, Verifies
<1>10. RedoInv(<< >>, 0)
  BY <1>4, <1>5, <1>7, <1>8, <1>9 DEF RedoInv
<1> QED
  BY <1>3, <1>10 DEF Redoable

\* Steps of the other tasks: no row is written that says "included", and nothing
\* that is watched is given up.
LEMMA RedoOthers ==
    ASSUME NEW old, NEW f, RedoInv(old, f), UNCHANGED << chainVars, blockVars >>,
           used'.reorgs = used.reorgs,
           \A t \in Txs : Verified(t)' => Verified(t) /\ db'[t] = db[t] /\ (t \in lost => t \in lost'),
           \A t \in Txs : watched[t] # 0 => watched'[t] # 0
    PROVE  RedoInv(old, f)'
<1>1. UNCHANGED << pc, stack, anchor, bt, tracker, lastBlock, resolvedBy >>
  BY DEF blockVars
<1>2. Branches(old, f)' /\ Stretch(old, f, tracker)' /\ Chained(old, f, stack, Nested)'
  <2>1. Nested' <=> Nested
    BY <1>1 DEF Nested
  <2>2. Branches(old, f) /\ Stretch(old, f, tracker) /\ Chained(old, f, stack, Nested)
    BY DEF RedoInv
  <2> QED
    BY <1>1, <2>1, <2>2, SameBranches DEF Stretch, Chained
<1>3. Place' /\ Newest'
  BY <1>1 DEF RedoInv, Place, Newest, Edge, Top, Nested
<1>4. Anchoring(old, f)'
  <2>1. chain' = chain
    BY DEF chainVars
  <2> QED
    BY <1>1, <2>1 DEF RedoInv, Anchoring, Top, Nested, On, Dead, OnHeader
<1>5. Held'
  <2>1. \A id : SettledIn(id)' <=> SettledIn(id)
    BY SameBranches DEF RedoInv
  <2>2. \A t, id : Recorded(tracker, resolvedBy, t, id)' <=> Recorded(tracker, resolvedBy, t, id)
    BY <1>1 DEF Recorded
  <2>3. ASSUME NEW t \in Txs, Verified(t)'
        PROVE  \/ watched'[t] # 0 \/ t \in DOMAIN bt'.done \/ t \in lost'
               \/ Recorded(tracker, resolvedBy, t, db[t].block)' \/ SettledIn(db[t].block)'
    <3>1. Verified(t) /\ db'[t] = db[t] /\ (t \in lost => t \in lost')
      BY <2>3
    <3>2. \/ watched[t] # 0 \/ t \in DOMAIN bt.done \/ t \in lost
          \/ Recorded(tracker, resolvedBy, t, db[t].block) \/ SettledIn(db[t].block)
      BY <3>1 DEF RedoInv, Held
    <3>3. Recorded(tracker, resolvedBy, t, db[t].block) => Recorded(tracker, resolvedBy, t, db[t].block)'
      BY <1>1, <3>1 DEF Recorded
    <3>4. SettledIn(db[t].block) => SettledIn(db[t].block)'
      BY <2>1, <3>1 DEF SettledIn
    <3> QED
      BY <1>1, <2>3, <3>1, <3>2, <3>3, <3>4
  <2>4. Verifies(pc') => \A t \in DOMAIN bt'.done :
          bt'.done[t].row.status = "included" => bt'.done[t].row.block = Top'.id
    BY <1>1 DEF RedoInv, Held, Top
  <2> QED
    BY <2>3, <2>4 DEF Held
<1> QED
  BY <1>2, <1>3, <1>4, <1>5 DEF RedoInv

LEMMA RedoIntake ==
    ASSUME Rivals = {}, FollowInv, NEW old, NEW f, RedoInv(old, f), Redoable, Intake \/ Predict
    PROVE  RedoInv(old, f)'
<1>1. watched \in [Txs -> Nat] /\ db \in [Txs -> Row] /\ pred.tx \in Txs
  BY DEF FollowInv, FollowTypes
<1>2. UNCHANGED << chainVars, blockVars >> /\ used'.reorgs = used.reorgs
  <2>1. CASE Intake
    BY <2>1 DEF Intake, OnPending, SourcesRefuse, CheckGrace, ToReplay, Redoable
  <2>2. CASE Predict
    BY <2>2 DEF Predict, PredictTake, PredictWait, PredictNoState, PredictOverBudget,
                PredictFails, PredictStore, PredictPersist, PredictNext
  <2> QED
    BY <2>1, <2>2
<1>3. /\ \A t \in Txs : Verified(t)' => Verified(t) /\ db'[t] = db[t] /\ (t \in lost => t \in lost')
      /\ \A t \in Txs : watched[t] # 0 => watched'[t] # 0
  <2>1. CASE UNCHANGED << watched, db >> /\ lost \subseteq lost'
    BY <2>1 DEF Verified
  <2>2. ASSUME NEW t \in Txs, OnPending(t) PROVE UNCHANGED << watched, db, lost >>
    <3> DEFINE gone == {u \in byNonce \intersect (Slot(t) \ {t}) : watched[u] # 0}
    <3>1. gone = {}
      BY DEF Slot
    <3>2. \/ UNCHANGED << watched, db, lost >>
          \/ /\ watched' = [u \in Txs |-> IF u \in gone THEN 0 ELSE watched[u]]
             /\ \E ok \in Writes :
                   /\ db' = [u \in Txs |-> IF ok /\ u \in gone THEN Live("replaced", 0) ELSE db[u]]
                   /\ FinalRows(gone, ok)
      BY <2>2 DEF OnPending
    <3> HIDE DEF gone
    <3>3. ASSUME NEW ok, FinalRows(gone, ok) PROVE lost' = lost
      BY <3>1, <3>3 DEF FinalRows
    <3> QED
      BY <1>1, <3>1, <3>2, <3>3
  <2>3. CASE PredictStore
    <3>1. /\ watched' = [watched EXCEPT ![pred.tx] = pred.head] /\ pred.head # 0 /\ db' = db
          /\ lost' = lost
      BY <2>3 DEF PredictStore, FollowInv, HeadOK, auxVars
    <3> QED
      BY <1>1, <3>1 DEF Verified
  <2>4. CASE PredictPersist
    <3>1. PICK ok \in Writes :
             /\ db' = IF ok THEN [db EXCEPT ![pred.tx] = Live(pred.pc, 0)] ELSE db
             /\ IF pred.pc = "no_state" THEN FinalRows({pred.tx}, ok) ELSE lost' = lost
      BY <2>4 DEF PredictPersist
    <3>2. watched' = watched /\ pred.pc \in {"pending", "no_state"}
      BY <2>4 DEF PredictPersist
    <3>3. Live(pred.pc, 0).status # "included"
      BY <3>2 DEF Live
    <3>4. \A t \in Txs : t \in lost => t \in lost' \/ (t = pred.tx /\ ok)
      BY <3>1 DEF FinalRows
    <3>5. CASE ok
      BY <1>1, <3>1, <3>2, <3>3, <3>4, <3>5 DEF Verified
    <3>6. CASE ~ok
      <4>1. db' = db /\ lost \subseteq lost'
        BY <3>1, <3>6 DEF FinalRows
      <4> QED
        BY <2>1, <3>2, <4>1
    <3> QED
      BY <3>5, <3>6
  <2>5. \/ UNCHANGED << watched, db >> /\ lost \subseteq lost'
        \/ \E t \in Txs : OnPending(t)
        \/ PredictStore \/ PredictPersist
    BY DEF Intake, SourcesRefuse, CheckGrace, ToReplay, auxVars, Predict, PredictTake, PredictWait,
           PredictNoState, PredictOverBudget, PredictFails
  <2> QED
    BY <2>1, <2>2, <2>3, <2>4, <2>5
<1> QED
  BY <1>2, <1>3, RedoOthers
\* A new block goes on top of the chain; no dead block has its id.
LEMMA RedoMine ==
    ASSUME TrackerInv, NEW old, NEW f, RedoInv(old, f), NEW txs \in SUBSET Txs, Mine(txs)
    PROVE  RedoInv(old, f)'
<1> DEFINE new == [id |-> made + 1, txs |-> txs]
<1>1. /\ made' = made + 1 /\ chain' = Append(chain, new)
      /\ UNCHANGED << pc, stack, anchor, bt, tracker, lastBlock, resolvedBy, watched, db, lost, used >>
  BY DEF Mine, blockVars, auxVars
<1>2. /\ made \in Nat /\ chain \in Seq(Block) /\ new \in Block /\ new.id = made + 1
      /\ Len(chain) \in Nat /\ \A n \in 1..Len(chain) : chain[n] \in Block
  <2>1. new \in Block /\ new.id = made + 1
    BY ChainFacts DEF Block
  <2> QED
    BY <2>1, ChainFacts
<1> HIDE DEF new
<1>3. /\ Len(chain') = Len(chain) + 1 /\ chain'[Len(chain) + 1] = new
      /\ \A n \in 1..Len(chain) : chain'[n] = chain[n] /\ chain[n].id \in Nat /\ chain[n].id <= made
  BY <1>1, <1>2, ChainFacts
<1>4. \A n, id : (On(n, id) => On(n, id)') /\ (Dead(old, f, n, id)' <=> Dead(old, f, n, id))
  BY <1>2, <1>3 DEF On, Dead
<1>5. \A h : (h.num >= 2 /\ OnHeader(h) => OnHeader(h)')
             /\ (DeadHeader(old, f, h)' <=> DeadHeader(old, f, h))
  BY <1>2, <1>3, <1>4 DEF OnHeader, DeadHeader, On
<1>6. Branches(old, f)'
  <2>1. /\ old \in Seq(Block) /\ f \in Nat /\ f <= Len(chain) /\ f <= Len(old) /\ Len(old) <= f + MaxDrop
        /\ FirstLength <= Len(chain)
        /\ used.reorgs = 0 => old = << >>
        /\ \A n \in 1..f : old[n].id = chain[n].id
    BY DEF RedoInv, Branches
  <2>2. FirstLength \in Nat
    BY WatcherConstants DEF FirstLength
  <2>3. ASSUME NEW m \in 1..Len(chain'), NEW n \in 1..Len(chain'), m < n
        PROVE  chain'[m].id < chain'[n].id
    <3>1. m \in 1..Len(chain) /\ chain'[m] = chain[m] /\ chain[m].id \in Nat /\ chain[m].id <= made
      BY <1>2, <1>3, <2>3
    <3>2. CASE n \in 1..Len(chain)
      BY <1>3, <2>3, <3>1, <3>2 DEF RedoInv, Branches
    <3>3. CASE n = Len(chain) + 1
      BY <1>2, <1>3, <3>1, <3>3
    <3> QED
      BY <1>2, <1>3, <3>2, <3>3
  <2>4. \A n \in 1..f : old[n].id = chain'[n].id
    BY <1>2, <1>3, <2>1
  <2>5. ASSUME NEW n \in f + 1 .. Len(old)
        PROVE  old[n].id <= made' /\ \A m \in 1..Len(chain') : chain'[m].id # old[n].id
    <3>1. old[n].id <= made /\ \A m \in 1..Len(chain) : chain[m].id # old[n].id
      BY DEF RedoInv, Branches
    <3>2. old[n].id \in Nat
      <4>1. n \in 1..Len(old)
        BY <2>1
      <4> QED
        BY <2>1, <4>1, BlockFacts
    <3>3. old[n].id # made + 1
      BY <1>2, <3>1, <3>2
    <3> QED
      BY <1>1, <1>2, <1>3, <3>1, <3>2, <3>3
  <2>6. f <= Len(chain') /\ FirstLength <= Len(chain')
    BY <1>2, <1>3, <2>1, <2>2
  <2> QED
    BY <1>1, <2>1, <2>3, <2>4, <2>5, <2>6 DEF Branches
<1>7. Stretch(old, f, tracker)'
  BY <1>1, <1>4 DEF RedoInv, Stretch
<1>8. Nested' <=> Nested
  BY <1>1 DEF Nested
<1>9. Chained(old, f, stack, Nested)'
  BY <1>1, <1>5, <1>8 DEF RedoInv, Chained
<1>10. Place' /\ Newest'
  BY <1>1, <1>8 DEF RedoInv, Place, Newest, Edge, Top
<1>11. Anchoring(old, f)'
  <2>1. Top' = Top
    BY <1>1 DEF Top
  <2>2. pc \in {"anchor", "load", "logs"} => (OnHeader(Top) => OnHeader(Top)')
    <3>1. SUFFICES ASSUME pc \in {"anchor", "load", "logs"} PROVE OnHeader(Top) => OnHeader(Top)'
      OBVIOUS
    <3>2. Top.num >= 2
      BY <3>1, TopOK DEF RedoInv, Chained, Top
    <3> QED
      BY <1>5, <2>1, <3>2 DEF OnHeader, On
  <2> QED
    BY <1>1, <1>4, <1>8, <2>1, <2>2 DEF RedoInv, Anchoring, On, Dead
<1>12. Held'
  <2>1. \A id : SettledIn(id) => SettledIn(id)'
    <3>1. MaxDrop \in Nat
      BY WatcherConstants
    <3> QED
      BY <1>1, <1>2, <1>3, <3>1 DEF SettledIn, Settled
  <2>2. ASSUME NEW t \in Txs, Verified(t)'
        PROVE  \/ watched'[t] # 0 \/ t \in DOMAIN bt'.done \/ t \in lost'
               \/ Recorded(tracker, resolvedBy, t, db[t].block)' \/ SettledIn(db[t].block)'
    <3>1. \/ watched[t] # 0 \/ t \in DOMAIN bt.done \/ t \in lost
          \/ Recorded(tracker, resolvedBy, t, db[t].block) \/ SettledIn(db[t].block)
      BY <1>1, <2>2 DEF RedoInv, Held, Verified
    <3>2. SettledIn(db[t].block) => SettledIn(db[t].block)'
      BY <1>1, <2>1 DEF SettledIn
    <3> QED
      BY <1>1, <3>1, <3>2 DEF Recorded
  <2> QED
    BY <1>1, <2>2 DEF RedoInv, Held, Top
<1> QED
  BY <1>6, <1>7, <1>9, <1>10, <1>11, <1>12 DEF RedoInv

\* The reorganisation: until it happens everything is on the chain; then the blocks
\* it drops are dead, and what they resolved is recorded.
LEMMA RedoReorg ==
    ASSUME OneReorg, Redoable, TrackerInv, NEW old, NEW f, RedoInv(old, f),
           NEW k \in 1..MaxDrop, Reorg(k)
    PROVE  (\E o, g : RedoInv(o, g))'
<1>0. PICK o, g : o = chain /\ g = Len(chain) - k
  OBVIOUS
<1>1. /\ made' = made /\ chain' = SubSeq(chain, 1, g) /\ g >= FirstLength
      /\ UNCHANGED << pc, stack, anchor, bt, tracker, lastBlock, resolvedBy, watched, db, lost >>
      /\ used' = [used EXCEPT !.reorgs = used.reorgs + 1] /\ used.reorgs < MaxReorgs
  BY <1>0 DEF Reorg, blockVars, auxVars
<1>2. used.reorgs = 0 /\ used'.reorgs = 1
  <2>1. used.reorgs \in Nat /\ MaxReorgs \in Nat /\ MaxReorgs <= 1
    BY WatcherConstants DEF OneReorg, Redoable
  <2>2. used'.reorgs = used.reorgs + 1
    BY <1>1 DEF Redoable
  <2> QED
    BY <1>1, <2>1, <2>2
<1>3. /\ made \in Nat /\ chain \in Seq(Block) /\ Len(chain) \in Nat /\ k \in Nat /\ k >= 1 /\ k <= MaxDrop
      /\ MaxDrop \in Nat /\ FirstLength \in Nat
      /\ \A n \in 1..Len(chain) : chain[n].id \in Nat /\ chain[n].id <= made
  BY ChainFacts
<1>4. g \in Nat /\ g <= Len(chain) /\ g < Len(chain) /\ Len(chain) <= g + MaxDrop /\ g \in 0..Len(chain)
  BY <1>0, <1>1, <1>3
<1>5. /\ Len(chain') = g /\ \A n \in 1..g : chain'[n] = chain[n]
  BY <1>1, <1>3, <1>4
<1>6. old = << >> /\ Len(old) = 0
  BY <1>2 DEF RedoInv, Branches
<1>7. \A n, id : ~Dead(old, f, n, id)
  <2>1. f \in Nat
    BY DEF RedoInv, Branches
  <2> QED
    BY <1>6, <2>1 DEF Dead
<1>8. ASSUME NEW n, NEW id, On(n, id)
      PROVE  On(n, id)' \/ Dead(o, g, n, id)
  BY <1>0, <1>3, <1>4, <1>5, <1>8 DEF On, Dead
<1>9. ASSUME NEW n, NEW m, NEW id, On(n, id)'
      PROVE  On(n, id) /\ ~Dead(o, g, m, id)
  <2>1. n \in 1..g /\ n \in 1..Len(chain) /\ chain[n].id = id
    BY <1>3, <1>4, <1>5, <1>9 DEF On
  <2>2. ASSUME Dead(o, g, m, id) PROVE FALSE
    <3>1. m \in 1..Len(chain) /\ n < m /\ chain[m].id = id
      BY <1>0, <1>3, <1>4, <2>1, <2>2 DEF Dead
    <3>2. chain[n].id < chain[m].id
      BY <2>1, <3>1 DEF RedoInv, Branches
    <3> QED
      BY <1>3, <2>1, <3>1, <3>2
  <2> QED
    BY <2>1, <2>2 DEF On
<1>10. ASSUME NEW h, h.num >= 2, OnHeader(h)
       PROVE  OnHeader(h)' \/ DeadHeader(o, g, h)
  <2>1. h.num \in 1..Len(chain) /\ h.num - 1 \in 1..Len(chain) /\ chain[h.num].id = h.id
        /\ h.parent = chain[h.num - 1].id
    BY <1>3, <1>10 DEF OnHeader, On
  <2>2. CASE h.num <= g
    <3>1. h.num \in 1..g /\ h.num - 1 \in 1..g
      BY <1>4, <2>1, <2>2
    <3> QED
      BY <1>5, <2>1, <3>1 DEF OnHeader, On
  <2>3. CASE h.num > g
    <3>1. h.num \in g + 1 .. Len(o)
      BY <1>0, <1>4, <2>1, <2>3
    <3> QED
      BY <1>0, <2>1, <3>1 DEF DeadHeader, Dead
  <2> QED
    BY <1>4, <2>1, <2>2, <2>3
<1>11. ~Nested /\ (Nested' <=> Nested)
  BY <1>1, <1>2 DEF RedoInv, Chained, Nested
<1>12. RedoInv(o, g)'
  <2>1. Branches(o, g)'
    <3>1. ASSUME NEW n \in g + 1 .. Len(chain)
          PROVE  chain[n].id <= made /\ \A m \in 1..Len(chain') : chain'[m].id # chain[n].id
      <4>1. n \in 1..Len(chain)
        BY <1>4
      <4>2. ASSUME NEW m \in 1..Len(chain') PROVE chain'[m].id # chain[n].id
        <5>1. PICK id : id = chain'[m].id
          OBVIOUS
        <5>2. On(m, id)'
          BY <5>1 DEF On
        <5>3. Dead(o, g, n, chain[n].id)
          BY <1>0 DEF Dead
        <5> QED
          BY <1>9, <5>1, <5>2, <5>3
      <4> QED
        BY <1>3, <4>1, <4>2
    <3>2. ASSUME NEW m \in 1..Len(chain'), NEW n \in 1..Len(chain'), m < n
          PROVE  chain'[m].id < chain'[n].id
      <4>1. m \in 1..Len(chain) /\ n \in 1..Len(chain) /\ m \in 1..g /\ n \in 1..g
        BY <1>3, <1>4, <1>5
      <4>2. chain'[m] = chain[m] /\ chain'[n] = chain[n]
        BY <1>5, <4>1
      <4>3. chain[m].id < chain[n].id
        BY <3>2, <4>1 DEF RedoInv, Branches
      <4> QED
        BY <4>2, <4>3
    <3>3. used'.reorgs # 0
      BY <1>2
    <3>4. /\ o \in Seq(Block) /\ g <= Len(chain') /\ g <= Len(o) /\ Len(o) <= g + MaxDrop
          /\ FirstLength <= Len(chain')
      BY <1>0, <1>1, <1>3, <1>4, <1>5
    <3>5. \A n \in 1..g : o[n].id = chain'[n].id
      BY <1>0, <1>5
    <3>6. \A n \in g + 1 .. Len(o) :
             o[n].id <= made' /\ \A m \in 1..Len(chain') : chain'[m].id # o[n].id
      BY <1>0, <1>1, <3>1
    <3> QED
      BY <1>4, <3>2, <3>3, <3>4, <3>5, <3>6 DEF Branches
  <2>2. Stretch(o, g, tracker)'
    <3>1. \A n \in DOMAIN tracker : On(n, tracker[n].id)
      BY <1>7 DEF RedoInv, Stretch
    <3>2. ASSUME NEW n \in DOMAIN tracker
          PROVE  On(n, tracker[n].id)' \/ Dead(o, g, n, tracker[n].id)
      <4>1. PICK id : id = tracker[n].id
        OBVIOUS
      <4>2. On(n, id)' \/ Dead(o, g, n, id)
        BY <1>8, <3>1, <4>1
      <4> QED
        BY <1>1, <4>1, <4>2 DEF On
    <3>3. ASSUME NEW n \in DOMAIN tracker, NEW m \in DOMAIN tracker, n < m,
                 Dead(o, g, n, tracker[n].id)
          PROVE  Dead(o, g, m, tracker[m].id)
      <4>1. m \in 1..Len(chain) /\ n \in g + 1 .. Len(chain) /\ chain[m].id = tracker[m].id
        BY <1>0, <3>1, <3>3 DEF On, Dead
      <4> QED
        BY <1>0, <1>3, <1>4, <3>3, <4>1 DEF Dead
    <3>5. \A n, id : Dead(o, g, n, id)' <=> Dead(o, g, n, id)
      BY <1>0 DEF Dead
    <3>6. \A n, m \in DOMAIN tracker : \A j \in n..m : j \in DOMAIN tracker
      BY DEF RedoInv, Stretch
    <3> QED
      BY <1>1, <3>2, <3>3, <3>5, <3>6 DEF Stretch, On
  <2>3. \A n, id : Dead(o, g, n, id)' <=> Dead(o, g, n, id)
    BY <1>0 DEF Dead
  <2>4. \A h : DeadHeader(o, g, h)' <=> DeadHeader(o, g, h)
    BY <1>0, <2>3 DEF DeadHeader
  <2>5. Chained(o, g, stack, Nested)'
    <3>1. ASSUME NEW i \in 1..Len(stack)
          PROVE  /\ stack[i].num >= 2 /\ stack[i].num = stack[1].num - (i - 1)
                 /\ OnHeader(stack[i])' \/ DeadHeader(o, g, stack[i])'
      <4>1. /\ stack[i].num >= 2 /\ stack[i].num = stack[1].num - (i - 1)
            /\ OnHeader(stack[i])
        BY <1>7 DEF RedoInv, Chained, DeadHeader
      <4>2. ASSUME NEW h, h = stack[i] PROVE OnHeader(h)' \/ DeadHeader(o, g, h)'
        BY <1>10, <2>4, <4>1, <4>2
      <4>3. ASSUME NEW h, h = stack[i]
            PROVE  (OnHeader(h)' <=> OnHeader(stack[i])') /\ (DeadHeader(o, g, h)' <=> DeadHeader(o, g, stack[i])')
        BY <1>1, <4>3 DEF OnHeader, DeadHeader, On, Dead
      <4> QED
        BY <4>1, <4>2, <4>3
    <3> QED
      BY <1>1, <1>11, <3>1 DEF Chained
  <2>6. Place' /\ Newest'
    BY <1>1, <1>11 DEF RedoInv, Place, Newest, Edge, Top
  <2>7. Anchoring(o, g)'
    <3>1. Top' = Top
      BY <1>1 DEF Top
    <3>2. pc = "load" => On(Top.num - 1, anchor)' \/ Dead(o, g, Top.num - 1, anchor)'
      <4>1. SUFFICES ASSUME pc = "load" PROVE On(Top.num - 1, anchor)' \/ Dead(o, g, Top.num - 1, anchor)'
        OBVIOUS
      <4>2. On(Top.num - 1, anchor)
        BY <1>7, <4>1 DEF RedoInv, Anchoring
      <4>3. ASSUME NEW n, NEW id, n = Top.num - 1, id = anchor
            PROVE  On(n, id)' \/ Dead(o, g, n, id)'
        BY <1>8, <2>3, <4>2, <4>3
      <4> QED
        BY <1>1, <3>1, <4>3 DEF On, Dead
    <3>3. pc \in {"anchor", "load", "logs"} =>
            \/ Top.num - 2 \notin DOMAIN tracker
            \/ Top.num - 1 \in DOMAIN tracker /\ tracker[Top.num - 1].id = Top.parent
      <4>1. SUFFICES ASSUME pc \in {"anchor", "load", "logs"}, Top.num - 2 \in DOMAIN tracker
                     PROVE  Top.num - 1 \in DOMAIN tracker /\ tracker[Top.num - 1].id = Top.parent
        BY Zenon
      <4>2. stack # << >> /\ Len(stack) \in 1..Len(stack) /\ Top = stack[Len(stack)]
        BY <4>1, TopOK DEF Top
      <4>3. OnHeader(Top)
        BY <1>7, <4>2 DEF RedoInv, Chained, DeadHeader
      <4>4. Greatest(tracker, Top.num - 1)
        BY <4>1, <4>2 DEF RedoInv, Newest, Edge, Verifies
      <4>5. On(Top.num - 1, tracker[Top.num - 1].id)
        BY <1>7, <4>4 DEF RedoInv, Stretch, Greatest
      <4> QED
        BY <4>3, <4>4, <4>5 DEF OnHeader, On, Greatest
    <3>4. Verifies(pc) => tracker[Top.num].id = Top.id
      BY DEF RedoInv, Anchoring
    <3>5. pc \in {"anchor", "load"} =>
            \/ bt.why = "before" /\ (DOMAIN tracker = {} \/ Greatest(tracker, Top.num - 1))
            \/ bt.why = "reorg" /\ DOMAIN tracker # {} /\ Top.num - 2 \notin DOMAIN tracker
      BY DEF RedoInv, Anchoring
    <3> QED
      BY <1>1, <1>11, <3>1, <3>2, <3>3, <3>4, <3>5 DEF Anchoring
  <2>8. Held'
    <3>1. ASSUME NEW id, SettledIn(id) PROVE SettledIn(id)'
      <4>1. PICK n \in 1..Len(chain) : chain[n].id = id /\ n + MaxDrop <= Len(chain)
        BY <1>2, <3>1 DEF SettledIn, Settled
      <4>2. n \in 1..g
        BY <1>3, <1>4, <4>1
      <4> QED
        BY <1>2, <1>5, <4>1, <4>2 DEF SettledIn, Settled
    <3>2. ASSUME NEW t \in Txs, Verified(t)'
          PROVE  \/ watched'[t] # 0 \/ t \in DOMAIN bt'.done \/ t \in lost'
                 \/ Recorded(tracker, resolvedBy, t, db[t].block)' \/ SettledIn(db[t].block)'
      <4>1. \/ watched[t] # 0 \/ t \in DOMAIN bt.done \/ t \in lost
            \/ Recorded(tracker, resolvedBy, t, db[t].block) \/ SettledIn(db[t].block)
        BY <1>1, <3>2 DEF RedoInv, Held, Verified
      <4>2. SettledIn(db[t].block) => SettledIn(db[t].block)'
        <5>1. ASSUME NEW id, id = db[t].block, SettledIn(id) PROVE SettledIn(db[t].block)'
          BY <1>1, <3>1, <5>1 DEF SettledIn
        <5> QED
          BY <5>1
      <4> QED
        BY <1>1, <4>1, <4>2 DEF Recorded
    <3> QED
      BY <1>1, <3>2 DEF RedoInv, Held, Top
  <2> QED
    BY <2>1, <2>2, <2>5, <2>6, <2>7, <2>8 DEF RedoInv
<1> QED
  BY <1>12

\* Outside the verification of a block the rows stay; what is recorded no longer is
\* watched again.
LEMMA HeldOutside ==
    ASSUME FollowInv, NEW old, NEW f, RedoInv(old, f), UNCHANGED chainVars,
           used'.reorgs = used.reorgs, UNCHANGED << db, lost >>, ~Verifies(pc), ~Verifies(pc'),
           \A t \in Txs : watched[t] # 0 => watched'[t] # 0,
           \A t \in Txs, id \in Nat : Recorded(tracker, resolvedBy, t, id) =>
                  watched'[t] # 0 \/ Recorded(tracker', resolvedBy', t, id) \/ SettledIn(id)
    PROVE  Held'
<1>1. DOMAIN bt.done = {} /\ db \in [Txs -> Row]
  BY DEF FollowInv, DoneOK, FollowTypes
<1>2. \A id : SettledIn(id)' <=> SettledIn(id)
  BY SameBranches DEF RedoInv
<1>3. ASSUME NEW t \in Txs, Verified(t)'
      PROVE  \/ watched'[t] # 0 \/ t \in DOMAIN bt'.done \/ t \in lost'
             \/ Recorded(tracker, resolvedBy, t, db[t].block)' \/ SettledIn(db[t].block)'
  <2>1. PICK id : id = db[t].block
    OBVIOUS
  <2>2. id \in Nat /\ db'[t].block = id
    BY <1>1, <2>1 DEF Row
  <2>3. watched[t] # 0 \/ t \in lost \/ Recorded(tracker, resolvedBy, t, id) \/ SettledIn(id)
    BY <1>1, <1>3, <2>1 DEF RedoInv, Held, Verified
  <2>4. watched'[t] # 0 \/ t \in lost' \/ Recorded(tracker', resolvedBy', t, id) \/ SettledIn(id)'
    BY <1>2, <2>2, <2>3
  <2>5. Recorded(tracker', resolvedBy', t, id) => Recorded(tracker, resolvedBy, t, db[t].block)'
    BY <2>2 DEF Recorded
  <2>6. SettledIn(id)' => SettledIn(db[t].block)'
    BY <2>2 DEF SettledIn
  <2> QED
    BY <2>4, <2>5, <2>6
<1> QED
  BY <1>3 DEF Held

\* The places of the block task outside the verification.
LEMMA PlaceFacts ==
    ASSUME TrackerInv, NEW old, NEW f, RedoInv(old, f)
    PROVE  /\ stack \in Seq(BlockHeader) /\ Len(stack) \in Nat
           /\ stack # << >> => /\ Len(stack) >= 1 /\ Top = stack[Len(stack)] /\ Top.num \in Nat
                               /\ Top.num >= 2 /\ Top \in BlockHeader /\ stack[1].num \in Nat
                               /\ Top.num = stack[1].num - (Len(stack) - 1)
                               /\ OnHeader(Top) \/ (DeadHeader(old, f, Top) /\ ~Nested)
           /\ lastBlock \in Nat /\ Edge \in Int
           /\ pc \in {"anchor", "load", "logs", "verify", "persist"} => stack # << >>
           /\ \A n \in DOMAIN tracker : n \in Nat /\ n >= 1
<1>1. /\ stack \in Seq(BlockHeader) /\ Len(stack) \in Nat
      /\ \A i \in 1..Len(stack) : stack[i] \in BlockHeader /\ stack[i].num \in Nat
      /\ pc \in {"anchor", "load", "logs", "verify", "persist"} => stack # << >>
  <2>1. stack \in Seq(BlockHeader) /\ \A b \in BlockHeader : b.num \in Nat
    BY DEF TrackerInv, StackOK, BlockHeader
  <2> QED
    BY <2>1 DEF TrackerInv, StackOK
<1>2. stack # << >> => Len(stack) >= 1 /\ Len(stack) \in 1..Len(stack) /\ 1 \in 1..Len(stack)
  BY <1>1
<1>3. stack # << >> => /\ Len(stack) >= 1 /\ Top = stack[Len(stack)] /\ Top.num \in Nat
                       /\ Top.num >= 2 /\ Top \in BlockHeader /\ stack[1].num \in Nat
                       /\ Top.num = stack[1].num - (Len(stack) - 1)
                       /\ OnHeader(Top) \/ (DeadHeader(old, f, Top) /\ ~Nested)
  BY <1>1, <1>2 DEF RedoInv, Chained, Top
<1>4. lastBlock \in Nat
  BY DEF RedoInv, Place
<1>5. Edge \in Int
  BY <1>3, <1>4 DEF Edge
<1>6. \A n \in DOMAIN tracker : n \in Nat /\ n >= 1
  BY DEF TrackerInv, TrackerOK, EntryOK
<1> QED
  BY <1>1, <1>3, <1>4, <1>5, <1>6

\* Giving up outside a redo leaves things as they are between blocks.
LEMMA RedoGivesUp ==
    ASSUME TrackerInv, FollowInv, NEW old, NEW f, RedoInv(old, f), ~Nested, GiveUp,
           pc \in {"header", "anchor", "load", "logs"},
           UNCHANGED << chainVars, watched, db, lost, tracker, lastBlock, resolvedBy >>,
           used'.reorgs = used.reorgs
    PROVE  RedoInv(old, f)'
<1>1. pc' = "poll" /\ stack' = << >>
  BY DEF GiveUp
<1>2. stack # << >> => pc # "header"
  BY DEF Nested, Nests
<1>3. Edge = lastBlock /\ Edge' = lastBlock
  <2>1. CASE stack = << >>
    BY <1>1, <2>1 DEF Edge
  <2>2. CASE stack # << >>
    <3>1. Top.num = lastBlock + 1 /\ pc # "header"
      BY <1>2, <2>2 DEF RedoInv, Place
    <3> QED
      BY <1>1, <2>2, <3>1, PlaceFacts DEF Edge
  <2> QED
    BY <2>1, <2>2
<1>4. ~Nested' /\ ~Verifies(pc) /\ ~Verifies(pc')
  BY <1>1 DEF Nested, Nests, Verifies
<1>5. Branches(old, f)' /\ Stretch(old, f, tracker)'
  <2>1. Branches(old, f) /\ Stretch(old, f, tracker)
    BY DEF RedoInv
  <2> QED
    BY <2>1, SameBranches DEF Stretch
<1>6. Chained(old, f, stack, Nested)'
  BY <1>1, <1>4 DEF Chained
<1>7. Place' /\ Newest'
  BY <1>1, <1>3, <1>4 DEF RedoInv, Place, Newest
<1>8. Anchoring(old, f)'
  BY <1>1, <1>4 DEF Anchoring
<1>9. Held'
  BY <1>4, HeldOutside
<1> QED
  BY <1>5, <1>6, <1>7, <1>8, <1>9 DEF RedoInv

\* The poll goes on behind the last block, or at the head when there is none yet; no
\* block is left out.
LEMMA RedoPoll ==
    ASSUME TrackerInv, FollowInv, NEW old, NEW f, RedoInv(old, f), Poll, ~hidden'
    PROVE  RedoInv(old, f)'
<1> DEFINE head == Len(chain) - HeadLag
           last == IF lastBlock = 0 \/ head - lastBlock > MaxCatchUp THEN head - 1 ELSE lastBlock
<1>1. /\ pc = "poll" /\ lastBlock' = last /\ pc' = "header" /\ stack' = << >>
      /\ bt' = [NoLocals EXCEPT !.num = last + 1, !.head = head]
      /\ UNCHANGED << chainVars, watched, db, lost, tracker, resolvedBy, used >>
      /\ hidden' = (hidden \/ (lastBlock # 0 /\ head - lastBlock > MaxCatchUp))
  BY DEF Poll, ToHeader, BlockStep, Alone
<1>2. stack = << >> /\ lastBlock \in Nat
  BY <1>1 DEF RedoInv, Place
<1>3. head \in Int /\ head - 1 >= 1
  <2>1. Len(chain) >= HeadLag + 2
    BY DEF RedoInv, Branches, FirstLength
  <2> QED
    BY <2>1, ChainFacts, WatcherConstants
<1>4. bt'.num = last + 1
  BY <1>1 DEF NoLocals
<1>5. IF lastBlock = 0 THEN last = head - 1 ELSE last = lastBlock
  <2>1. MaxCatchUp \in Nat
    BY WatcherConstants
  <2> QED
    BY <1>1, <1>2, <1>3, <2>1
<1> HIDE DEF head, last
<1>6. last \in Nat /\ last >= 1 /\ lastBlock <= last
  BY <1>2, <1>3, <1>5
<1>7. ~Nested' /\ ~Nested /\ ~Verifies(pc) /\ ~Verifies(pc')
  BY <1>1, <1>2 DEF Nested, Nests, Verifies
<1>8. Edge = lastBlock /\ Edge' = last
  BY <1>1, <1>2 DEF Edge
<1>9. Branches(old, f)' /\ Stretch(old, f, tracker)'
  <2>1. Branches(old, f) /\ Stretch(old, f, tracker)
    BY DEF RedoInv
  <2> QED
    BY <1>1, <2>1, SameBranches DEF Stretch
<1>10. Chained(old, f, stack, Nested)' /\ Anchoring(old, f)'
  BY <1>1, <1>7 DEF Chained, Anchoring
<1>11. Place'
  <2>1. \A m \in DOMAIN resolvedBy : m \in Nat /\ m <= last
    BY <1>2, <1>6, <1>8 DEF RedoInv, Place
  <2> QED
    BY <1>1, <1>4, <1>6, <1>7, <1>8, <2>1 DEF Place
<1>12. Newest'
  <2>1. CASE DOMAIN tracker = {}
    BY <1>1, <1>7, <2>1 DEF Newest
  <2>2. CASE DOMAIN tracker # {}
    <3>1. lastBlock # 0
      BY <2>2 DEF RedoInv, Place
    <3>2. Greatest(tracker, lastBlock)
      BY <1>7, <1>8, <2>2 DEF RedoInv, Newest
    <3> QED
      BY <1>1, <1>5, <1>7, <1>8, <3>1, <3>2 DEF Newest
  <2> QED
    BY <2>1, <2>2
<1>13. Held'
  BY <1>1, <1>7, HeldOutside
<1> QED
  BY <1>9, <1>10, <1>11, <1>12, <1>13 DEF RedoInv

\* A header is read: the next block's, or inside a redo the predecessor's, which is
\* there because the block above it is on the chain.
LEMMA RedoReadHeader ==
    ASSUME TrackerInv, FollowInv, Redoable, NEW old, NEW f, RedoInv(old, f), ReadHeader
    PROVE  RedoInv(old, f)'
<1>1. /\ pc = "header" /\ UNCHANGED << chainVars, watched, db, lost, tracker, lastBlock, resolvedBy >>
      /\ used'.reorgs = used.reorgs
  BY DEF ReadHeader, Alone, auxVars, Redoable
<1>2. bt.num = Edge + 1 /\ ~Verifies(pc) /\ lastBlock # 0
  BY <1>1 DEF RedoInv, Place, Verifies
<1>3. Nested <=> stack # << >>
  <2>1. stack = << >> => Len(stack) = 0
    OBVIOUS
  <2> QED
    BY <1>1, <2>1 DEF Nested, Nests
<1>4. Nested => /\ OnHeader(Top) /\ bt.num = Top.num - 1 /\ Edge = Top.num - 2
                /\ Top.num - 1 \in 1..Len(chain) /\ Greatest(tracker, Edge)
  <2>1. SUFFICES ASSUME Nested
                 PROVE  /\ OnHeader(Top) /\ bt.num = Top.num - 1 /\ Edge = Top.num - 2
                        /\ Top.num - 1 \in 1..Len(chain) /\ Greatest(tracker, Edge)
    OBVIOUS
  <2>2. OnHeader(Top) /\ Top.num \in Nat /\ Top.num >= 2
    BY <1>3, <2>1, PlaceFacts
  <2>3. Edge = Top.num - 2
    BY <1>1, <1>3, <2>1 DEF Edge
  <2>4. Top.num - 1 \in 1..Len(chain)
    BY <2>2, ChainFacts DEF OnHeader, On
  <2>5. Greatest(tracker, Edge)
    BY <1>2, <2>1 DEF RedoInv, Newest
  <2> QED
    BY <1>2, <2>2, <2>3, <2>4, <2>5
<1>5. CASE bt.num \notin DOMAIN chain
  <2>1. ~Nested
    BY <1>4, <1>5, ChainFacts
  <2>2. GiveUp
    BY <1>5 DEF ReadHeader
  <2> QED
    BY <1>1, <2>1, <2>2, RedoGivesUp
<1>6. CASE bt.num \in DOMAIN chain
  <2> DEFINE h == Header(bt.num)
  <2>1. /\ pc' \in {"anchor", "logs"} /\ (DOMAIN tracker = {} => pc' = "anchor")
        /\ stack' = Append(stack, h)
        /\ bt' = [bt EXCEPT !.why = "before"] /\ anchor' = anchor
    <3>1. IsMap(tracker)
      BY DEF FollowInv, FollowTypes
    <3>2. DOMAIN tracker = {} => tracker = Empty
      BY <3>1 DEF IsMap, Empty
    <3> QED
      BY <1>6, <3>2 DEF ReadHeader, NeedsReanchor
  <2>2. bt.num \in 1..Len(chain) /\ bt.num \in Nat /\ bt.num >= 2
    <3>1. bt.num \in 1..Len(chain) /\ bt.num \in Nat
      BY <1>6, ChainFacts
    <3>2. CASE stack = << >>
      <4>1. Edge = lastBlock
        BY <3>2 DEF Edge
      <4> QED
        BY <1>2, <3>1, <4>1, PlaceFacts
    <3>3. CASE stack # << >>
      BY <1>2, <1>3, <1>4, <3>1, <3>3, PlaceFacts DEF Greatest
    <3> QED
      BY <3>1, <3>2, <3>3
  <2>3. h.num = bt.num /\ h.id = chain[bt.num].id /\ h.parent = chain[bt.num - 1].id
    BY <2>2 DEF Header
  <2>4. OnHeader(h)
    BY <2>2, <2>3 DEF OnHeader, On
  <2>5. /\ stack \in Seq(BlockHeader) /\ Len(stack) \in Nat /\ stack' # << >>
        /\ Len(stack') = Len(stack) + 1 /\ stack'[Len(stack) + 1] = h
        /\ \A i \in 1..Len(stack) : stack'[i] = stack[i]
    <3> HIDE DEF h
    <3>1. stack \in Seq(BlockHeader)
      BY PlaceFacts
    <3> QED
      BY <2>1, <3>1
  <2> HIDE DEF h
  <2>6. Top' = h
    BY <2>5 DEF Top
  <2>7. Nested' <=> Nested
    <3>1. Nested' <=> Len(stack') > 1
      BY <2>1 DEF Nested, Nests
    <3>2. stack # << >> <=> Len(stack) > 0
      BY <2>5
    <3> QED
      BY <1>3, <2>5, <3>1, <3>2
  <2>8. Edge' = Edge /\ Edge' = h.num - 1
    <3>1. Edge' = Top'.num - 1
      BY <2>1, <2>5 DEF Edge
    <3> QED
      BY <1>2, <2>2, <2>3, <2>6, <3>1, PlaceFacts
  <2>9. Branches(old, f)' /\ Stretch(old, f, tracker)'
    <3>1. Branches(old, f) /\ Stretch(old, f, tracker)
      BY DEF RedoInv
    <3> QED
      BY <1>1, <3>1, SameBranches DEF Stretch
  <2>10. \A x : (OnHeader(x)' <=> OnHeader(x)) /\ (DeadHeader(old, f, x)' <=> DeadHeader(old, f, x))
    BY <1>1, SameBranches DEF RedoInv
  <2>11. Chained(old, f, stack', Nested)
    <3>1. ASSUME NEW i \in 1..Len(stack')
          PROVE  /\ stack'[i].num >= 2 /\ stack'[i].num = stack'[1].num - (i - 1)
                 /\ OnHeader(stack'[i]) \/ (DeadHeader(old, f, stack'[i]) /\ ~Nested)
      <4>1. CASE i \in 1..Len(stack)
        <5>1. 1 \in 1..Len(stack)
          BY <2>5, <4>1
        <5> QED
          BY <2>5, <4>1, <5>1 DEF RedoInv, Chained
      <4>2. CASE i = Len(stack) + 1
        <5>1. stack'[i] = h /\ h.num >= 2 /\ OnHeader(h)
          BY <2>2, <2>3, <2>4, <2>5, <4>2
        <5>2. CASE stack = << >>
          <6>1. Len(stack) = 0 /\ i = 1
            BY <4>2, <5>2
          <6> QED
            BY <2>2, <2>3, <5>1, <6>1
        <5>3. CASE stack # << >>
          <6>1. Top.num = stack[1].num - (Len(stack) - 1) /\ stack[1].num \in Nat /\ Top.num \in Nat
            BY <5>3, PlaceFacts
          <6>2. h.num = Top.num - 1 /\ stack'[1] = stack[1]
            BY <1>3, <1>4, <2>3, <2>5, <5>3
          <6> QED
            BY <2>5, <4>2, <5>1, <6>1, <6>2
        <5> QED
          BY <5>2, <5>3
      <4> QED
        BY <2>5, <4>1, <4>2
    <3>2. Nested => used.reorgs # 0 /\ stack'[1].num <= Len(old) + 1
      <4>1. SUFFICES ASSUME Nested PROVE used.reorgs # 0 /\ stack'[1].num <= Len(old) + 1
        OBVIOUS
      <4>2. stack'[1] = stack[1]
        BY <1>3, <2>5, <4>1
      <4> QED
        BY <4>1, <4>2 DEF RedoInv, Chained
    <3> QED
      BY <3>1, <3>2 DEF Chained
  <2>12. Chained(old, f, stack, Nested)'
    BY <1>1, <2>7, <2>10, <2>11 DEF Chained
  <2>13. Place'
    <3>1. pc' \in {"anchor", "logs"}
      BY <2>1
    <3>2. ~Nested => Top'.num = lastBlock + 1
      <4>1. ~Nested => Edge = lastBlock
        BY <1>3 DEF Edge
      <4> QED
        BY <1>2, <2>3, <2>6, <4>1
    <3> QED
      BY <1>1, <1>2, <2>5, <2>7, <2>8, <3>1, <3>2 DEF RedoInv, Place
  <2>15. Newest'
    <3>1. ~Verifies(pc')
      BY <2>1 DEF Verifies
    <3>2. CASE DOMAIN tracker = {}
      <4>1. ~Nested
        BY <1>4, <3>2 DEF Greatest
      <4>2. pc' = "anchor"
        BY <2>1, <3>2
      <4> QED
        BY <1>1, <2>7, <3>2, <4>1, <4>2 DEF Newest
    <3>3. CASE DOMAIN tracker # {}
      <4>1. Greatest(tracker, Edge)
        BY <1>2, <3>3 DEF RedoInv, Newest
      <4> QED
        BY <1>1, <2>8, <3>1, <4>1 DEF Newest
    <3> QED
      BY <3>2, <3>3
  <2>16. Anchoring(old, f)'
    <3>1. bt'.why = "before"
      BY <2>1 DEF FollowInv, FollowTypes, LocalNames
    <3>2. DOMAIN tracker' = {} \/ Greatest(tracker', Top'.num - 1)
      <4>1. Edge = Top'.num - 1
        BY <2>6, <2>8
      <4> QED
        BY <1>1, <1>2, <4>1 DEF RedoInv, Newest
    <3>4. OnHeader(Top)'
      <4>1. chain' = chain
        BY <1>1 DEF chainVars
      <4> QED
        BY <2>4, <2>6, <4>1 DEF OnHeader, On
    <3>5. pc' \in {"anchor", "logs"}
      BY <2>1
    <3> QED
      <4>1. (OnHeader(Top) <=> OnHeader(Top))'
        OBVIOUS
      <4> QED
        BY <3>1, <3>2, <3>4, <3>5 DEF Anchoring, Verifies, Greatest
  <2>17. Held'
    <3>1. ~Verifies(pc')
      BY <2>1 DEF Verifies
    <3> QED
      BY <1>1, <1>2, <3>1, HeldOutside
  <2> QED
    BY <2>9, <2>12, <2>13, <2>15, <2>16, <2>17 DEF RedoInv
<1> QED
  BY <1>5, <1>6

\* The header of the predecessor is read.  Inside a redo it is there, since the block
\* above it is on the chain.
LEMMA RedoAnchorHeader ==
    ASSUME TrackerInv, FollowInv, NEW old, NEW f, RedoInv(old, f), AnchorHeader
    PROVE  RedoInv(old, f)'
<1> DEFINE n == Top.num - 1
<1>1. /\ pc = "anchor"
      /\ UNCHANGED << chainVars, watched, db, lost, tracker, lastBlock, resolvedBy, used >>
  BY DEF AnchorHeader, BlockStep, Alone, auxVars
<1>2. stack # << >> /\ ~Verifies(pc) /\ Top.num \in Nat /\ Top.num >= 2
  BY <1>1, PlaceFacts DEF Verifies
<1>3. CASE n \notin DOMAIN chain
  <2>1. GiveUp
    BY <1>3 DEF AnchorHeader
  <2>2. ~Nested
    <3>1. SUFFICES ASSUME Nested PROVE FALSE
      OBVIOUS
    <3>2. OnHeader(Top)
      BY <1>2, <3>1, PlaceFacts
    <3> QED
      BY <1>2, <1>3, <3>2, ChainFacts DEF OnHeader, On
  <2> QED
    BY <1>1, <2>1, <2>2, RedoGivesUp
<1>4. CASE n \in DOMAIN chain
  <2>1. pc' = "load" /\ anchor' = chain[n].id /\ UNCHANGED << stack, bt >>
    BY <1>4 DEF AnchorHeader
  <2>2. Branches(old, f)' /\ Stretch(old, f, tracker)' /\ Chained(old, f, stack, Nested)'
    <3>1. Nested' <=> Nested
      BY <1>1, <2>1 DEF Nested, Nests
    <3>2. Branches(old, f) /\ Stretch(old, f, tracker) /\ Chained(old, f, stack, Nested)
      BY DEF RedoInv
    <3> QED
      BY <1>1, <2>1, <3>1, <3>2, SameBranches DEF Stretch, Chained
  <2>3. Top' = Top /\ Edge' = Edge /\ (Nested' <=> Nested)
    BY <1>1, <2>1 DEF Top, Edge, Nested, Nests
  <2>4. Place'
    BY <1>1, <1>2, <2>1, <2>3 DEF RedoInv, Place
  <2>5. Newest'
    BY <1>1, <2>1, <2>3 DEF RedoInv, Newest, Verifies
  <2>6. Anchoring(old, f)'
    <3>1. On(Top.num - 1, anchor)'
      <4>1. chain' = chain
        BY <1>1 DEF chainVars
      <4> QED
        BY <1>4, <2>1, <2>3, <4>1, ChainFacts DEF On
    <3>2. OnHeader(Top)' <=> OnHeader(Top)
      BY <1>1, <2>3 DEF OnHeader, On, chainVars
    <3> QED
      BY <1>1, <2>1, <2>3, <3>1, <3>2 DEF RedoInv, Anchoring, Verifies, Greatest
  <2>7. Held'
    <3>1. ~Verifies(pc')
      BY <2>1 DEF Verifies
    <3> QED
      BY <1>1, <1>2, <3>1, HeldOutside
  <2> QED
    BY <2>2, <2>4, <2>5, <2>6, <2>7 DEF RedoInv
<1> QED
  BY <1>3, <1>4

\* No call fails inside a redo.
LEMMA RedoBlockFails ==
    ASSUME OneReorg, TrackerInv, FollowInv, Redoable, NEW old, NEW f, RedoInv(old, f), BlockFails
    PROVE  RedoInv(old, f)'
<1>1. /\ GiveUp /\ pc \in {"header", "anchor", "load", "logs"}
      /\ UNCHANGED << chainVars, watched, db, lost, tracker, lastBlock, resolvedBy >>
      /\ used' = [used EXCEPT !.faults = @ + 1]
  BY DEF BlockFails, auxVars
<1>2. used'.reorgs = used.reorgs
  BY <1>1 DEF Redoable
<1>3. ~Nested
  BY DEF BlockFails, OneReorg, Redoing, Nested, Nests
<1> QED
  BY <1>1, <1>2, <1>3, RedoGivesUp

\* A block is applied and its verification begins, whatever led to it.
LEMMA RedoBegins ==
    ASSUME OneReorg, TrackerInv, NEW old, NEW f, Branches(old, f),
           UNCHANGED chainVars, used'.reorgs = used.reorgs, DOMAIN bt = LocalNames,
           NEW tr, NEW since, NEW w, NEW calls \in Seq(BlockHeader), calls # << >>,
           ApplyTo(tr, since, w, calls), Applies(tr, calls[Len(calls)]),
           Stretch(old, f, tr), Greatest(tr, calls[Len(calls)].num - 1),
           Chained(old, f, calls, Len(calls) > 1),
           lastBlock' \in Nat \ {0},
           \A m \in DOMAIN resolvedBy' : m \in Nat /\ m <= calls[Len(calls)].num - 1,
           \A t \in Txs : Verified(t)' => \/ watched'[t] # 0 \/ t \in lost' \/ SettledIn(db'[t].block)
                                          \/ Recorded(tr, resolvedBy', t, db'[t].block)
    PROVE  RedoInv(old, f)'
<1> DEFINE h == calls[Len(calls)]
           new == Applied(tr, h)
<1>1. /\ tracker' = new /\ stack' = calls /\ Verifying(h, w, Todo(h, w), Empty)
  BY DEF ApplyTo
<1>2. bt'.done = Empty /\ pc' \in {"verify", "persist"}
  BY <1>1, LocalsOK
<1>3. Len(calls) \in Nat /\ Len(calls) >= 1 /\ Len(calls) \in 1..Len(calls)
  OBVIOUS
<1>4. h \in BlockHeader /\ h.num \in Nat /\ h.num >= 2 /\ (OnHeader(h) \/ DeadHeader(old, f, h))
  <2>1. h \in BlockHeader /\ \A b \in BlockHeader : b.num \in Nat
    <3>1. h \in BlockHeader
      BY <1>3
    <3> QED
      BY <3>1 DEF BlockHeader
  <2> QED
    BY <1>3, <2>1 DEF Chained
<1>5. /\ Stretch(old, f, new) /\ Greatest(new, h.num) /\ new[h.num].id = h.id
      /\ \A n \in DOMAIN tr : \/ n \in DOMAIN new /\ new[n] = tr[n]
                              \/ SettledIn(tr[n].id)
  <2> HIDE DEF h
  <2>1. Applies(tr, h) /\ Greatest(tr, h.num - 1)
    BY DEF h
  <2> QED
    BY <1>4, <2>1, StretchApplied
<1>6. Top' = h
  BY <1>1 DEF Top
<1> HIDE DEF h, new
<1>7. Nested' <=> Len(calls) > 1
  BY <1>1, <1>2 DEF Nested, Nests
<1>8. Edge' = h.num - 1 /\ Verifies(pc') /\ stack' # << >>
  BY <1>1, <1>2, <1>6 DEF Edge, Verifies
<1>9. Branches(old, f)' /\ Stretch(old, f, tracker)' /\ Chained(old, f, stack, Nested)'
  BY <1>1, <1>5, <1>7, SameBranches DEF Stretch, Chained
<1>10. Place'
  BY <1>2, <1>8 DEF Place, h
<1>11. Newest'
  <2>1. Edge' + 1 = h.num
    BY <1>4, <1>8
  <2> QED
    BY <1>1, <1>5, <1>8, <2>1 DEF Newest
<1>12. Anchoring(old, f)'
  BY <1>1, <1>2, <1>5, <1>6 DEF Anchoring
<1>13. Held'
  <2>1. ASSUME NEW t \in Txs, Verified(t)'
        PROVE  \/ watched'[t] # 0 \/ t \in lost'
               \/ Recorded(tracker, resolvedBy, t, db[t].block)' \/ SettledIn(db[t].block)'
    <3>1. PICK id : id = db'[t].block
      OBVIOUS
    <3>2. SettledIn(id) => SettledIn(db[t].block)'
      <4>1. SettledIn(id)' <=> SettledIn(id)
        BY SameBranches
      <4> QED
        BY <3>1, <4>1 DEF SettledIn
    <3>3. Recorded(tr, resolvedBy', t, id) =>
             Recorded(tracker, resolvedBy, t, db[t].block)' \/ SettledIn(id)
      <4>1. SUFFICES ASSUME NEW m \in DOMAIN tr \intersect DOMAIN resolvedBy', tr[m].id = id,
                            \E r \in resolvedBy'[m] : r.tx = t, ~SettledIn(id)
                     PROVE  Recorded(tracker, resolvedBy, t, db[t].block)'
        BY DEF Recorded
      <4>2. m \in DOMAIN new /\ new[m].id = id
        BY <1>5, <4>1
      <4> QED
        BY <1>1, <3>1, <4>1, <4>2 DEF Recorded
    <3> QED
      BY <2>1, <3>1, <3>2, <3>3
  <2>2. DOMAIN bt'.done = {}
    BY <1>2 DEF Empty
  <2> QED
    BY <2>1, <2>2 DEF Held
<1> QED
  BY <1>9, <1>10, <1>11, <1>12, <1>13 DEF RedoInv

\* What _restore_from does not watch again stays recorded.
LEMMA RestoreKeeps ==
    ASSUME FollowInv, NEW n \in Int, RestoreFrom(n), \A m \in DOMAIN resolvedBy : m \in Nat,
           NEW tr, NEW t \in Txs, NEW id, Recorded(tr, resolvedBy, t, id)
    PROVE  \/ watched'[t] # 0
           \/ \E m \in DOMAIN tr \intersect DOMAIN resolvedBy' :
                 m < n /\ tr[m].id = id /\ \E r \in resolvedBy'[m] : r.tx = t
<1> DEFINE again(u) == (CHOOSE r \in Restored(n) : r.tx = u).head
<1>1. /\ watched' = [u \in Txs |-> IF \E r \in Restored(n) : r.tx = u THEN again(u) ELSE watched[u]]
      /\ resolvedBy' = [m \in {k \in DOMAIN resolvedBy : k < n} |-> resolvedBy[m]]
  BY DEF RestoreFrom
<1>2. PICK m \in DOMAIN tr \intersect DOMAIN resolvedBy :
         tr[m].id = id /\ \E r \in resolvedBy[m] : r.tx = t
  BY DEF Recorded
<1>3. CASE m < n
  BY <1>1, <1>2, <1>3
<1>4. CASE ~(m < n)
  <2>1. m >= n
    BY <1>2, <1>4
  <2>2. PICK r \in resolvedBy[m] : r.tx = t
    BY <1>2
  <2>3. r \in Restored(n)
    BY <1>2, <2>1, <2>2 DEF Restored
  <2>4. (CHOOSE x \in Restored(n) : x.tx = t) \in Restored(n)
    BY <2>2, <2>3
  <2>5. \A x \in Restored(n) : x.head # 0
    BY DEF Restored, FollowInv, KeptOK
  <2>6. again(t) # 0
    BY <2>4, <2>5
  <2> HIDE DEF again
  <2> QED
    BY <1>1, <2>2, <2>3, <2>6
<1> QED
  BY <1>3, <1>4

\* The block that does not fit has a dead one below it: the dead blocks are as many
\* as the calls, or more, so they can all be redone.
LEMMA RedoShallow ==
    ASSUME OneReorg, TrackerInv, NEW old, NEW f, RedoInv(old, f), pc = "logs",
           ~SameParent(tracker, Top), Top.num - 2 \in DOMAIN tracker, Top.num - 1 \in DOMAIN tracker
    PROVE  /\ Len(stack) <= MaxReorgDepth /\ OnHeader(Top) /\ used.reorgs # 0
           /\ stack[1].num <= Len(old) + 1
<1>1. /\ stack # << >> /\ Top.num \in Nat /\ stack[1].num \in Nat /\ Len(stack) \in Nat
      /\ Len(stack) >= 1 /\ Top = stack[Len(stack)] /\ Top.num = stack[1].num - (Len(stack) - 1)
  BY PlaceFacts
<1>2. /\ f \in Nat /\ Len(old) \in Nat /\ Len(old) <= f + MaxDrop
      /\ MaxDrop \in Nat /\ MaxReorgDepth \in Nat /\ MaxDrop <= MaxReorgDepth
      /\ used.reorgs = 0 => Len(old) = 0
  BY WatcherConstants DEF RedoInv, Branches, OneReorg
<1>3. tracker[Top.num - 1].id # Top.parent
  BY DEF SameParent
<1>4. OnHeader(Top)
  BY <1>3 DEF RedoInv, Anchoring
<1>5. Dead(old, f, Top.num - 1, tracker[Top.num - 1].id)
  <2>1. ~On(Top.num - 1, tracker[Top.num - 1].id)
    BY <1>3, <1>4 DEF OnHeader, On
  <2> QED
    BY <2>1 DEF RedoInv, Stretch
<1>6. Top.num - 1 >= f + 1 /\ Top.num - 1 <= Len(old)
  BY <1>1, <1>2, <1>5 DEF Dead
<1>7. used.reorgs # 0
  BY <1>1, <1>2, <1>6
<1>8. stack[1].num <= Len(old) + 1
  <2>1. CASE Len(stack) = 1
    BY <1>1, <1>2, <1>6, <2>1
  <2>2. CASE Len(stack) # 1
    <3>1. Len(stack) >= 1 /\ \A l \in Nat : l >= 1 /\ l # 1 => l > 1
      BY <1>1
    <3>2. Len(stack) > 1
      BY <1>1, <2>2, <3>1, Zenon
    <3>3. Nested
      BY <3>2 DEF Nested, Nests
    <3> QED
      BY <3>3 DEF RedoInv, Chained
  <2> QED
    BY <2>1, <2>2
<1>9. Len(stack) <= MaxReorgDepth
  BY <1>1, <1>2, <1>6, <1>8
<1> QED
  BY <1>4, <1>7, <1>8, <1>9

LEMMA RedoApplyBlock ==
    ASSUME OneReorg, TrackerInv, FollowInv, NEW old, NEW f, RedoInv(old, f), ApplyBlock
    PROVE  RedoInv(old, f)'
<1>1. pc = "logs" /\ UNCHANGED << chainVars, used, lastBlock, db, lost >>
  BY DEF ApplyBlock, BlockStep, Alone, auxVars
<1>2. /\ stack # << >> /\ stack \in Seq(BlockHeader) /\ Top = stack[Len(stack)] /\ Len(stack) \in Nat
      /\ Top.num \in Nat /\ Top.num >= 2 /\ ~Verifies(pc) /\ Len(stack) >= 1
  BY <1>1, PlaceFacts DEF Verifies
<1>3. Edge = Top.num - 1
  BY <1>1, <1>2 DEF Edge
<1>4. Greatest(tracker, Top.num - 1)
  BY <1>1, <1>2, <1>3 DEF RedoInv, Newest
<1>5. \A n \in DOMAIN tracker : n \in Nat /\ n <= Top.num - 1
  BY <1>4, PlaceFacts DEF Greatest
<1>6. Follows(tracker, Top)
  BY <1>2, <1>4, <1>5 DEF Follows, Greatest
<1>7. Nested <=> Len(stack) > 1
  BY <1>1 DEF Nested, Nests
<1>8. /\ Branches(old, f) /\ Stretch(old, f, tracker) /\ Chained(old, f, stack, Nested)
      /\ lastBlock \in Nat \ {0} /\ \A m \in DOMAIN resolvedBy : m \in Nat /\ m <= Top.num - 1
  BY <1>1, <1>3 DEF RedoInv, Place
<1>9. DOMAIN bt = LocalNames /\ DOMAIN bt.done = {}
  BY <1>2 DEF FollowInv, FollowTypes, DoneOK
<1>10. CASE /\ Applies(tracker, Top) /\ ApplyTo(tracker, sinceAnchor, watched, stack)
            /\ UNCHANGED << watched, resolvedBy >>
  <2>1. \A t \in Txs : Verified(t)' => \/ watched'[t] # 0 \/ t \in lost' \/ SettledIn(db'[t].block)
                                       \/ Recorded(tracker, resolvedBy', t, db'[t].block)
    <3>1. \A t \in Txs : Verified(t) => \/ watched[t] # 0 \/ t \in lost \/ SettledIn(db[t].block)
                                        \/ Recorded(tracker, resolvedBy, t, db[t].block)
      BY <1>9 DEF RedoInv, Held
    <3>2. /\ db' = db /\ lost' = lost /\ watched' = watched /\ resolvedBy' = resolvedBy
          /\ \A t : Verified(t)' <=> Verified(t)
      BY <1>1, <1>10 DEF Verified
    <3> QED
      BY <3>1, <3>2
  <2>2. Chained(old, f, stack, Len(stack) > 1)
    BY <1>7, <1>8 DEF Chained
  <2> QED
    BY <1>1, <1>2, <1>4, <1>8, <1>9, <1>10, <2>1, <2>2, RedoBegins
<1>11. CASE ToAnchor("reorg") /\ Top.num - 2 \notin DOMAIN tracker
  <2>1. /\ pc' = "anchor" /\ bt' = [bt EXCEPT !.why = "reorg"]
        /\ UNCHANGED << stack, anchor, watched, resolvedBy, tracker >>
    BY <1>11 DEF ToAnchor
  <2>2. bt'.why = "reorg" /\ Top' = Top /\ Edge' = Edge /\ (Nested' <=> Nested)
    BY <1>1, <1>9, <2>1 DEF LocalNames, Top, Edge, Nested, Nests
  <2>3. Branches(old, f)' /\ Stretch(old, f, tracker)' /\ Chained(old, f, stack, Nested)'
    BY <1>1, <1>8, <2>1, <2>2, SameBranches DEF Stretch, Chained
  <2>4. Place' /\ Newest'
    BY <1>1, <1>2, <1>3, <1>4, <2>1, <2>2 DEF RedoInv, Place, Newest, Verifies
  <2>5. Anchoring(old, f)'
    BY <1>4, <1>11, <2>1, <2>2 DEF Anchoring, Verifies, Greatest
  <2>6. Held'
    <3>1. ~Verifies(pc')
      BY <2>1 DEF Verifies
    <3> QED
      BY <1>1, <1>2, <2>1, <3>1, HeldOutside
  <2> QED
    BY <2>3, <2>4, <2>5, <2>6 DEF RedoInv
<1>12. CASE Redo(Top) /\ ~SameParent(tracker, Top) /\ Top.num - 2 \in DOMAIN tracker
  <2>1. /\ tracker' = RewindTo(tracker, Top.num - 2) /\ RestoreFrom(Top.num - 1)
        /\ pc' = "header" /\ bt' = [bt EXCEPT !.num = Top.num - 1] /\ UNCHANGED << stack, anchor >>
    BY <1>12 DEF Redo
  <2>2. OnHeader(Top) /\ used.reorgs # 0 /\ stack[1].num <= Len(old) + 1
    BY <1>1, <1>4, <1>12, RedoShallow DEF Greatest
  <2>3. /\ DOMAIN tracker' = {n \in DOMAIN tracker : n <= Top.num - 2}
        /\ \A n \in DOMAIN tracker' : tracker'[n] = tracker[n]
    BY <2>1 DEF RewindTo
  <2>4. /\ bt'.num = Top.num - 1 /\ Top' = Top /\ Edge' = Top.num - 2 /\ Nested'
    BY <1>2, <1>9, <2>1 DEF LocalNames, Top, Edge, Nested, Nests
  <2>5. Stretch(old, f, tracker')
    <3>1. ASSUME NEW n \in DOMAIN tracker', NEW m \in DOMAIN tracker', NEW k \in n..m
          PROVE  k \in DOMAIN tracker'
      <4>1. k \in DOMAIN tracker /\ m \in Nat /\ n \in Nat /\ m <= Top.num - 2
        BY <1>5, <1>8, <2>3 DEF Stretch
      <4> QED
        BY <1>2, <2>3, <4>1
    <3> QED
      BY <1>8, <2>3, <3>1 DEF Stretch
  <2>6. Chained(old, f, stack, TRUE)
    <3>1. \A i \in 1..Len(stack) : OnHeader(stack[i])
      <4>1. CASE Len(stack) = 1
        BY <1>2, <2>2, <4>1
      <4>2. CASE Len(stack) > 1
        BY <1>7, <1>8, <4>2 DEF Chained
      <4>3. \A l \in Nat : l >= 1 => l = 1 \/ l > 1
        OBVIOUS
      <4>4. Len(stack) = 1 \/ Len(stack) > 1
        BY <1>2, <4>3, Zenon
      <4> QED
        BY <4>1, <4>2, <4>4
    <3> QED
      BY <1>8, <2>2, <3>1 DEF Chained
  <2>7. Branches(old, f)' /\ Stretch(old, f, tracker)' /\ Chained(old, f, stack, Nested)'
    BY <1>1, <1>8, <2>1, <2>4, <2>5, <2>6, SameBranches DEF Stretch, Chained
  <2>8. Place'
    <3>1. \A m \in DOMAIN resolvedBy' : m \in Nat /\ m <= Top.num - 2
      <4>1. DOMAIN resolvedBy' = {k \in DOMAIN resolvedBy : k < Top.num - 1}
        BY <2>1 DEF RestoreFrom
      <4> QED
        BY <1>2, <1>8, <4>1
    <3>2. bt'.num = Edge' + 1
      BY <1>2, <2>4
    <3> QED
      BY <1>1, <1>2, <1>8, <2>1, <2>4, <3>1, <3>2 DEF Place
  <2>9. Newest'
    <3>1. Greatest(tracker', Top.num - 2)
      BY <1>2, <1>12, <2>3 DEF Greatest
    <3> QED
      BY <2>1, <2>4, <3>1 DEF Newest, Verifies
  <2>10. Anchoring(old, f)'
    BY <2>1 DEF Anchoring, Verifies
  <2>11. Held'
    <3>1. ~Verifies(pc') /\ Top.num - 1 \in Int
      BY <1>2, <2>1 DEF Verifies
    <3>2. \A t \in Txs : watched[t] # 0 => watched'[t] # 0
      BY <2>1, <3>1, RestoreOK
    <3>3. ASSUME NEW t \in Txs, NEW id \in Nat, Recorded(tracker, resolvedBy, t, id)
          PROVE  watched'[t] # 0 \/ Recorded(tracker', resolvedBy', t, id)
      <4>1. \/ watched'[t] # 0
            \/ \E m \in DOMAIN tracker \intersect DOMAIN resolvedBy' :
                 m < Top.num - 1 /\ tracker[m].id = id /\ \E r \in resolvedBy'[m] : r.tx = t
        BY <1>8, <2>1, <3>1, <3>3, RestoreKeeps
      <4>2. \A m \in DOMAIN tracker : m < Top.num - 1 => m \in DOMAIN tracker' /\ tracker'[m] = tracker[m]
        BY <1>2, <1>5, <2>3
      <4> QED
        BY <4>1, <4>2 DEF Recorded
    <3> QED
      BY <1>1, <1>2, <3>1, <3>2, <3>3, HeldOutside
  <2> QED
    BY <2>7, <2>8, <2>9, <2>10, <2>11 DEF RedoInv
<1> QED
  <2>1. CASE SameParent(tracker, Top)
    BY <1>6, <1>10, <2>1 DEF ApplyBlock, Applies
  <2>2. CASE ~SameParent(tracker, Top)
    <3>1. IF Len(stack) > MaxReorgDepth \/ Top.num - 2 \notin DOMAIN tracker
          THEN ToAnchor("reorg") ELSE Redo(Top)
      BY <1>6, <2>2 DEF ApplyBlock, Applies
    <3>2. Top.num - 2 \in DOMAIN tracker => ~(Len(stack) > MaxReorgDepth)
      <4>1. Top.num - 2 \in DOMAIN tracker => Len(stack) <= MaxReorgDepth
        BY <1>1, <1>4, <2>2, RedoShallow DEF Greatest
      <4> QED
        BY <1>2, <4>1, WatcherConstants
    <3> QED
      BY <1>11, <1>12, <2>2, <3>1, <3>2
  <2> QED
    BY <2>1, <2>2

\* _trim forgets only what cannot be given up any more.
LEMMA StretchTrimmed ==
    ASSUME OneReorg, TrackerInv, NEW old, NEW f, Branches(old, f), NEW tr, Stretch(old, f, tr),
           DOMAIN tr \subseteq Nat, NEW e \in Nat, Greatest(tr, e)
    PROVE  /\ Stretch(old, f, Trim(tr)) /\ Greatest(Trim(tr), e)
           /\ DOMAIN Trim(tr) \subseteq DOMAIN tr /\ \A n \in DOMAIN Trim(tr) : Trim(tr)[n] = tr[n]
           /\ \A n \in DOMAIN tr \ DOMAIN Trim(tr) : SettledIn(tr[n].id)
<1>1. /\ Greatest(Trim(tr), e) /\ DOMAIN Trim(tr) \subseteq DOMAIN tr
      /\ \A n \in DOMAIN Trim(tr) : Trim(tr)[n] = tr[n]
      /\ \A n \in DOMAIN tr \ DOMAIN Trim(tr) : e - n >= Checkpoints
      /\ \A n \in DOMAIN Trim(tr), m \in DOMAIN tr : n < m => m \in DOMAIN Trim(tr)
  BY TrimKeeps
<1>2. ASSUME NEW n \in DOMAIN Trim(tr), NEW m \in DOMAIN Trim(tr), NEW k \in n..m
      PROVE  k \in DOMAIN Trim(tr)
  <2>1. k \in DOMAIN tr /\ n \in Nat /\ m \in Nat
    BY <1>1 DEF Stretch
  <2>2. k = n \/ n < k
    BY <2>1
  <2> QED
    BY <1>1, <2>1, <2>2
<1>3. Stretch(old, f, Trim(tr))
  BY <1>1, <1>2 DEF Stretch
<1>4. ASSUME NEW n \in DOMAIN tr \ DOMAIN Trim(tr)
      PROVE  SettledIn(tr[n].id)
  <2>1. n \in DOMAIN tr /\ n \in Int /\ e \in Int /\ e \in DOMAIN tr /\ e - n >= Checkpoints
    BY <1>1 DEF Greatest
  <2> QED
    BY <2>1, Aged
<1> QED
  BY <1>1, <1>3, <1>4

\* The predecessor is anchored again while it is tracked: an anchor that does not
\* hide a reorganisation is the same block, and the tracker stays as it was.
LEMMA RedoAnchorAgain ==
    ASSUME OneReorg, TrackerInv, FollowInv, NEW old, NEW f, RedoInv(old, f), pc = "load",
           NEW n, n = Top.num - 1, Greatest(tracker, n), tracker[n].id = anchor,
           NEW state, tracker' = Anchored(tracker, n, anchor, state),
           pc' = "logs", UNCHANGED << stack, bt, watched, resolvedBy, db, lost, lastBlock >>,
           UNCHANGED chainVars, used' = used
    PROVE  RedoInv(old, f)'
<1> DEFINE more == [m \in {k \in DOMAIN tracker : k < n} \union {n} |->
                      IF m = n THEN [id |-> anchor, state |-> state] ELSE tracker[m]]
<1>1. /\ stack # << >> /\ Top.num \in Nat /\ Top.num >= 2 /\ ~Verifies(pc) /\ n \in Nat /\ n >= 1
      /\ Top.num - 2 = n - 1
      /\ \A m \in DOMAIN tracker : m \in Nat
  BY PlaceFacts DEF Verifies
<1>2. Edge = n
  BY <1>1 DEF Edge
<1>3. /\ Branches(old, f) /\ Stretch(old, f, tracker) /\ Chained(old, f, stack, Nested)
  BY DEF RedoInv
<1>4. DOMAIN more = DOMAIN tracker /\ \A m \in DOMAIN tracker : more[m].id = tracker[m].id
  <2>1. \A m \in DOMAIN tracker : m = n \/ m < n
    BY <1>1 DEF Greatest
  <2>2. n \in DOMAIN tracker
    BY DEF Greatest
  <2>3. {k \in DOMAIN tracker : k < n} \union {n} = DOMAIN tracker
    BY <2>1, <2>2
  <2>4. ASSUME NEW m \in DOMAIN tracker
        PROVE  more[m].id = tracker[m].id
    <3>1. CASE m = n
      BY <2>3, <3>1
    <3>2. CASE m # n
      BY <2>3, <3>2
    <3> QED
      BY <3>1, <3>2
  <2> QED
    BY <2>3, <2>4
<1> HIDE DEF more
<1>5. tracker' = Trim(more)
  BY DEF Anchored, more
<1>6. Stretch(old, f, more)
  BY <1>3, <1>4 DEF Stretch
<1>7. Greatest(more, n) /\ DOMAIN more \subseteq Nat
  BY <1>1, <1>4 DEF Greatest
<1>8. /\ Stretch(old, f, tracker') /\ Greatest(tracker', n) /\ DOMAIN tracker' \subseteq DOMAIN tracker
      /\ \A m \in DOMAIN tracker' : tracker'[m].id = tracker[m].id
      /\ \A m \in DOMAIN tracker \ DOMAIN tracker' : SettledIn(tracker[m].id)
  <2>1. /\ Stretch(old, f, Trim(more)) /\ Greatest(Trim(more), n) /\ DOMAIN Trim(more) \subseteq DOMAIN more
        /\ \A m \in DOMAIN Trim(more) : Trim(more)[m] = more[m]
        /\ \A m \in DOMAIN more \ DOMAIN Trim(more) : SettledIn(more[m].id)
    BY <1>1, <1>3, <1>6, <1>7, StretchTrimmed
  <2> QED
    BY <1>4, <1>5, <2>1
<1>9. Top' = Top /\ Edge' = n /\ (Nested' <=> Nested)
  BY <1>1, <1>2 DEF Top, Edge, Nested, Nests
<1>10. Branches(old, f)' /\ Stretch(old, f, tracker)' /\ Chained(old, f, stack, Nested)'
  BY <1>3, <1>8, <1>9, SameBranches DEF Stretch, Chained
<1>11. Place'
  <2>1. Place
    BY DEF RedoInv
  <2> QED
    BY <1>1, <1>2, <1>9, <2>1 DEF Place
<1>12. Newest'
  BY <1>8, <1>9 DEF Newest, Verifies
<1>13. Anchoring(old, f)'
  <2>1. ASSUME ~OnHeader(Top)
        PROVE  \/ n - 1 \notin DOMAIN tracker'
               \/ n \in DOMAIN tracker' /\ tracker'[n].id = Top.parent
    <3>1. \/ n - 1 \notin DOMAIN tracker
          \/ n \in DOMAIN tracker /\ tracker[n].id = Top.parent
      BY <1>1, <2>1 DEF RedoInv, Anchoring
    <3>2. n \in DOMAIN tracker' /\ tracker'[n].id = tracker[n].id
      BY <1>8 DEF Greatest
    <3> QED
      BY <1>8, <3>1, <3>2
  <2>2. OnHeader(Top)' <=> OnHeader(Top)
    BY <1>3, <1>9, SameBranches
  <2>3. ~OnHeader(Top)' => \/ Top'.num - 2 \notin DOMAIN tracker'
                           \/ /\ Top'.num - 1 \in DOMAIN tracker'
                              /\ tracker'[Top'.num - 1].id = Top'.parent
    BY <1>1, <1>9, <2>1, <2>2
  <2> QED
    BY <2>3 DEF Anchoring, Verifies
<1>14. Held'
  <2>1. ~Verifies(pc')
    BY DEF Verifies
  <2>2. ASSUME NEW t \in Txs, NEW id \in Nat, Recorded(tracker, resolvedBy, t, id)
        PROVE  Recorded(tracker', resolvedBy', t, id) \/ SettledIn(id)
    <3>1. PICK m \in DOMAIN tracker \intersect DOMAIN resolvedBy :
             tracker[m].id = id /\ \E x \in resolvedBy[m] : x.tx = t
      BY <2>2 DEF Recorded
    <3>2. CASE m \in DOMAIN tracker'
      <4>1. tracker'[m].id = id
        BY <1>8, <3>1, <3>2
      <4> QED
        BY <3>1, <3>2, <4>1 DEF Recorded
    <3>3. CASE m \notin DOMAIN tracker'
      <4>1. SettledIn(tracker[m].id)
        BY <1>8, <3>1, <3>3
      <4> QED
        BY <3>1, <4>1
    <3> QED
      BY <3>2, <3>3
  <2> QED
    BY <1>1, <2>1, <2>2, HeldOutside
<1> QED
  BY <1>10, <1>11, <1>12, <1>13, <1>14 DEF RedoInv

\* The predecessor is anchored: before anything is tracked, when the reorganisation
\* goes below what is, or again.
LEMMA RedoAnchorLoad ==
    ASSUME OneReorg, TrackerInv, FollowInv, NEW old, NEW f, RedoInv(old, f), AnchorLoad, ~hidden'
    PROVE  RedoInv(old, f)'
<1> DEFINE n == Top.num - 1
           tr == Anchored(tracker, n, anchor, chain[n].id)
<1>1. pc = "load" /\ UNCHANGED << chainVars, used, lastBlock, db, lost >>
  BY DEF AnchorLoad, BlockStep, Alone
<1>2. /\ stack # << >> /\ stack \in Seq(BlockHeader) /\ Top = stack[Len(stack)] /\ Len(stack) \in Nat
      /\ Top.num \in Nat /\ Top.num >= 2 /\ ~Verifies(pc) /\ Len(stack) >= 1
      /\ n \in Nat /\ n >= 1 /\ Top.num - 2 = n - 1
      /\ OnHeader(Top) \/ (DeadHeader(old, f, Top) /\ ~Nested)
  BY <1>1, PlaceFacts DEF Verifies
<1>3. Edge = n
  BY <1>1, <1>2 DEF Edge
<1>4. DOMAIN tracker # {} => Greatest(tracker, n)
  BY <1>2, <1>3 DEF RedoInv, Newest
<1>5. /\ Branches(old, f) /\ Stretch(old, f, tracker) /\ Chained(old, f, stack, Nested)
      /\ lastBlock \in Nat \ {0} /\ \A m \in DOMAIN resolvedBy : m \in Nat /\ m <= n
  BY <1>1, <1>3 DEF RedoInv, Place
<1>6. \/ bt.why = "before" /\ (DOMAIN tracker = {} \/ Greatest(tracker, n))
      \/ DOMAIN tracker # {} /\ bt.why = "reorg" /\ n - 1 \notin DOMAIN tracker
  BY <1>1, <1>2 DEF RedoInv, Anchoring
<1>7. DOMAIN tracker = {} \/ bt.why = "reorg" => \A k \in DOMAIN tracker : ~(k < n)
  <2>1. SUFFICES ASSUME NEW k \in DOMAIN tracker, bt.why = "reorg", k < n PROVE FALSE
    OBVIOUS
  <2>2. k \in Nat /\ n \in DOMAIN tracker /\ n - 1 \notin DOMAIN tracker
    BY <1>4, <1>6, <2>1, PlaceFacts DEF Greatest
  <2>3. n - 1 \in k..n
    BY <1>2, <2>1, <2>2
  <2> QED
    BY <1>5, <2>2, <2>3 DEF Stretch
<1>8. On(n, anchor) \/ (Dead(old, f, n, anchor) /\ ~Nested)
  BY <1>1 DEF RedoInv, Anchoring
<1>9. DOMAIN tracker = {} \/ bt.why = "reorg" => DOMAIN tr = {n} /\ tr[n].id = anchor
  <2> SUFFICES ASSUME DOMAIN tracker = {} \/ bt.why = "reorg"
               PROVE  DOMAIN tr = {n} /\ tr[n].id = anchor
    OBVIOUS
  <2> DEFINE more == [m \in {k \in DOMAIN tracker : k < n} \union {n} |->
                        IF m = n THEN [id |-> anchor, state |-> chain[n].id] ELSE tracker[m]]
  <2> HIDE DEF n
  <2>1. DOMAIN more = {n} /\ more[n].id = anchor
    BY <1>7
  <2> HIDE DEF more
  <2>2. Cardinality({m \in DOMAIN more : m > n}) < Checkpoints
    <3>1. {m \in DOMAIN more : m > n} = {}
      BY <1>2, <2>1
    <3>2. Cardinality({m \in DOMAIN more : m > n}) = 0
      BY <3>1, FS_EmptySet, Zenon
    <3> QED
      BY <3>2, WatcherConstants
  <2>3. DOMAIN Trim(more) = {n} /\ Trim(more)[n] = more[n]
    BY <2>1, <2>2 DEF Trim
  <2>4. tr = Trim(more)
    BY DEF Anchored, more
  <2> QED
    BY <2>1, <2>3, <2>4
<1>10. Nested <=> Len(stack) > 1
  BY <1>1 DEF Nested, Nests
<1>11. DOMAIN bt = LocalNames /\ DOMAIN bt.done = {}
  BY <1>2 DEF FollowInv, FollowTypes, DoneOK
<1>12. ~Nested => Top.num = lastBlock + 1 /\ n = lastBlock
  BY <1>1, <1>2, <1>5 DEF RedoInv, Place
<1> HIDE DEF tr
<1>13. DOMAIN tracker = {} \/ bt.why = "reorg" => Stretch(old, f, tr) /\ Greatest(tr, n)
  <2>1. \A k \in n..n : k = n
    BY <1>2
  <2>2. ~(n < n)
    BY <1>2
  <2> HIDE DEF n
  <2> QED
    BY <1>8, <1>9, <2>1, <2>2, <1>2 DEF Stretch, Greatest
<1>14. CASE n \notin DOMAIN chain
  <2>1. GiveUp /\ UNCHANGED << tracker, sinceAnchor, watched, resolvedBy >>
    BY <1>14 DEF AnchorLoad
  <2>2. ~Nested
    BY <1>2, <1>14, ChainFacts DEF OnHeader, On
  <2> QED
    BY <1>1, <2>1, <2>2, RedoGivesUp
<1>15. CASE n \in DOMAIN chain /\ bt.why = "before" /\ DOMAIN tracker = {}
  <2>1. /\ tracker' = tr /\ pc' = "logs" /\ anchor' = 0 /\ UNCHANGED << stack, bt, watched, resolvedBy >>
    BY <1>15 DEF AnchorLoad, tr
  <2>2. DOMAIN tracker = {} /\ ~Nested
    BY <1>15 DEF RedoInv, Newest, Greatest
  <2>3. Top' = Top /\ Edge' = n /\ (Nested' <=> Nested)
    BY <1>1, <1>3, <2>1 DEF Top, Edge, Nested, Nests
  <2>4. Branches(old, f)' /\ Stretch(old, f, tracker)' /\ Chained(old, f, stack, Nested)'
    BY <1>1, <1>5, <1>13, <2>1, <2>2, <2>3, SameBranches DEF Stretch, Chained
  <2>5. Place'
    BY <1>1, <1>2, <1>5, <1>12, <2>1, <2>2, <2>3 DEF Place
  <2>6. Newest'
    BY <1>13, <2>1, <2>2, <2>3 DEF Newest, Verifies
  <2>7. Anchoring(old, f)'
    <3>1. n - 1 \notin DOMAIN tr
      BY <1>2, <1>9, <2>2
    <3> QED
      BY <1>2, <2>1, <2>3, <3>1 DEF Anchoring, Verifies
  <2>8. Held'
    <3>1. ~Verifies(pc') /\ \A t, id : ~Recorded(tracker, resolvedBy, t, id)
      BY <2>1, <2>2 DEF Verifies, Recorded
    <3> QED
      BY <1>1, <1>2, <2>1, <3>1, HeldOutside
  <2> QED
    BY <2>4, <2>5, <2>6, <2>7, <2>8 DEF RedoInv
<1>16. CASE n \in DOMAIN chain /\ bt.why = "reorg"
  <2>1. RestoreFrom(n) /\ ApplyTo(tr, 0, watched', stack)
    BY <1>16 DEF AnchorLoad, tr
  <2>2. \A m \in DOMAIN resolvedBy' : m \in Nat /\ m <= n
    <3>1. DOMAIN resolvedBy' \subseteq DOMAIN resolvedBy
      BY <2>1 DEF RestoreFrom
    <3> QED
      BY <1>5, <3>1
  <2>3. \A t \in Txs, id \in Nat : Recorded(tracker, resolvedBy, t, id) => watched'[t] # 0
    <3> HIDE DEF n
    <3>1. n \in Int /\ \A m \in DOMAIN resolvedBy : m \in Nat
      BY <1>2, <1>5
    <3> QED
      BY <1>7, <1>16, <2>1, <3>1, RestoreKeeps
  <2>4. \A t \in Txs : watched[t] # 0 => watched'[t] # 0
    <3> HIDE DEF n
    <3>1. n \in Int
      BY <1>2
    <3> QED
      BY <2>1, <3>1, RestoreOK
  <2>5. CASE Applies(tr, Top)
    <3>1. \A t \in Txs : Verified(t)' => \/ watched'[t] # 0 \/ t \in lost' \/ SettledIn(db'[t].block)
                                         \/ Recorded(tr, resolvedBy', t, db'[t].block)
      <4>1. \A t \in Txs : Verified(t) => \/ watched[t] # 0 \/ t \in lost \/ SettledIn(db[t].block)
                                          \/ Recorded(tracker, resolvedBy, t, db[t].block)
        BY <1>11 DEF RedoInv, Held
      <4>2. db' = db /\ lost' = lost /\ \A t : Verified(t)' <=> Verified(t)
        BY <1>1 DEF Verified
      <4>3. \A t \in Txs : db[t].block \in Nat
        BY DEF FollowInv, FollowTypes, Row
      <4> QED
        BY <2>3, <2>4, <4>1, <4>2, <4>3
    <3>2. Chained(old, f, stack, Len(stack) > 1)
      BY <1>5, <1>10 DEF Chained
    <3>3. Greatest(tr, Top.num - 1) /\ lastBlock' \in Nat \ {0}
          /\ \A m \in DOMAIN resolvedBy' : m \in Nat /\ m <= Top.num - 1
      BY <1>1, <1>5, <1>13, <1>16, <2>2
    <3> HIDE DEF n
    <3> QED
      BY <1>1, <1>2, <1>5, <1>11, <1>13, <1>16, <2>1, <2>5, <3>1, <3>2, <3>3, RedoBegins
  <2>6. CASE ~Applies(tr, Top)
    <3>1. ~Nested
      <4>1. SUFFICES ASSUME Nested PROVE Applies(tr, Top)
        BY <2>6
      <4>2. Top.parent = anchor
        BY <1>2, <1>8, <4>1 DEF OnHeader, On
      <4> QED
        BY <1>2, <1>9, <1>16, <4>2 DEF Applies, Follows, SameParent
    <3>2. GiveUp /\ tracker' = tr
      BY <1>2, <2>1, <2>6 DEF ApplyTo
    <3>3. pc' = "poll" /\ stack' = << >> /\ ~Nested' /\ Edge' = n
      BY <1>1, <1>12, <3>1, <3>2 DEF GiveUp, Nested, Nests, Edge
    <3>4. Branches(old, f)' /\ Stretch(old, f, tracker)'
      BY <1>1, <1>5, <1>13, <1>16, <3>2, SameBranches DEF Stretch
    <3>5. Chained(old, f, stack, Nested)' /\ Anchoring(old, f)'
      BY <3>3 DEF Chained, Anchoring, Verifies
    <3>6. Place'
      BY <1>1, <1>5, <2>2, <3>3 DEF Place
    <3>7. Newest'
      BY <1>13, <1>16, <3>2, <3>3 DEF Newest, Verifies
    <3>8. Held'
      <4>1. ~Verifies(pc')
        BY <3>3 DEF Verifies
      <4> QED
        BY <1>1, <1>2, <2>3, <2>4, <4>1, HeldOutside
    <3> QED
      BY <3>4, <3>5, <3>6, <3>7, <3>8 DEF RedoInv
  <2> QED
    BY <2>5, <2>6
<1>17. CASE n \in DOMAIN chain /\ bt.why = "before" /\ Greatest(tracker, n)
  <2>1. /\ tracker' = tr /\ pc' = "logs" /\ UNCHANGED << stack, bt, watched, resolvedBy >>
    BY <1>17 DEF AnchorLoad, tr
  <2>2. tracker[n].id = anchor
    BY <1>17 DEF AnchorLoad, Replaces, Greatest
  <2>3. tracker' = Anchored(tracker, n, anchor, chain[n].id)
    BY <2>1 DEF tr
  <2>4. n = Top.num - 1
    OBVIOUS
  <2> HIDE DEF n
  <2> QED
    BY <1>1, <1>17, <2>1, <2>2, <2>3, <2>4, RedoAnchorAgain
<1> QED
  BY <1>6, <1>14, <1>15, <1>16, <1>17

\* The verification of a block goes on: what is no longer watched is resolved in it.
LEMMA RedoGoesOn ==
    ASSUME TrackerInv, NEW old, NEW f, RedoInv(old, f), pc = "verify", pc' \in {"verify", "persist"},
           UNCHANGED << chainVars, used, stack, tracker, lastBlock, resolvedBy, db, lost >>,
           \A u \in Txs : watched[u] # 0 \/ u \in DOMAIN bt.done =>
                             watched'[u] # 0 \/ u \in DOMAIN bt'.done,
           \A u \in DOMAIN bt'.done :
              bt'.done[u].row.status = "included" => bt'.done[u].row.block = Top.id
    PROVE  RedoInv(old, f)'
<1>1. Top' = Top /\ (Nested' <=> Nested) /\ Edge' = Edge
  BY DEF Top, Nested, Nests, Edge
<1>2. Branches(old, f)' /\ Stretch(old, f, tracker)' /\ Chained(old, f, stack, Nested)'
  <2>1. Branches(old, f) /\ Stretch(old, f, tracker) /\ Chained(old, f, stack, Nested)
    BY DEF RedoInv
  <2> QED
    BY <1>1, <2>1, SameBranches DEF Stretch, Chained
<1>3. stack # << >>
  BY PlaceFacts
<1>4. Place' /\ Newest' /\ Anchoring(old, f)'
  BY <1>1, <1>3 DEF RedoInv, Place, Newest, Anchoring, Verifies
<1>5. Held'
  <2>1. \A id : SettledIn(id)' <=> SettledIn(id)
    BY SameBranches DEF RedoInv
  <2>2. ASSUME NEW u \in Txs, Verified(u)'
        PROVE  \/ watched'[u] # 0 \/ u \in DOMAIN bt'.done \/ u \in lost'
               \/ Recorded(tracker, resolvedBy, u, db[u].block)' \/ SettledIn(db[u].block)'
    <3>1. \/ watched[u] # 0 \/ u \in DOMAIN bt.done \/ u \in lost
          \/ Recorded(tracker, resolvedBy, u, db[u].block) \/ SettledIn(db[u].block)
      BY <2>2 DEF RedoInv, Held, Verified
    <3>2. Recorded(tracker, resolvedBy, u, db[u].block) => Recorded(tracker, resolvedBy, u, db[u].block)'
      BY DEF Recorded
    <3>3. SettledIn(db[u].block) => SettledIn(db[u].block)'
      BY <2>1 DEF SettledIn
    <3> QED
      BY <3>1, <3>2, <3>3
  <2> QED
    BY <1>1, <2>2 DEF Held
<1> QED
  BY <1>2, <1>4, <1>5 DEF RedoInv

LEMMA RedoResolve ==
    ASSUME Rivals = {}, TrackerInv, FollowInv, NEW old, NEW f, RedoInv(old, f), pc = "verify",
           NEW t \in DOMAIN bt.todo, NEW row, row.status = "included" => row.block = Top.id,
           Resolve(t, row)
    PROVE  RedoInv(old, f)'
<1> DEFINE todo == [u \in DOMAIN bt.todo \ {t} |-> bt.todo[u]]
           done == [u \in DOMAIN bt.done \union {t} |->
                       IF u = t THEN [head |-> bt.todo[t], row |-> row] ELSE bt.done[u]]
<1>1. t \in Txs /\ watched[t] # 0 /\ watched \in [Txs -> Nat] /\ DOMAIN bt = LocalNames
  BY DEF FollowInv, TodoOK, FollowTypes
<1>2. /\ watched' = [watched EXCEPT ![t] = 0] /\ Verifying(Top, watched', todo, done)
      /\ UNCHANGED << chainVars, used, stack, tracker, lastBlock, resolvedBy, db, lost >>
  BY <1>1 DEF Resolve, BlockStep, Alone
<1>3. bt'.done = done /\ pc' \in {"verify", "persist"}
  <2> HIDE DEF todo, done
  <2> QED
    BY <1>1, <1>2, LocalsOK
<1>4. /\ DOMAIN done = DOMAIN bt.done \union {t} /\ \A u \in DOMAIN bt.done : u # t => done[u] = bt.done[u]
      /\ done[t].row = row
  OBVIOUS
<1> HIDE DEF done
<1>5. \A u \in Txs : watched[u] # 0 \/ u \in DOMAIN bt.done => watched'[u] # 0 \/ u \in DOMAIN bt'.done
  BY <1>1, <1>2, <1>3, <1>4
<1>6. ASSUME NEW u \in DOMAIN bt'.done, bt'.done[u].row.status = "included"
      PROVE  bt'.done[u].row.block = Top.id
  <2>1. CASE u = t
    BY <1>3, <1>4, <1>6, <2>1
  <2>2. CASE u # t
    BY <1>3, <1>4, <1>6, <2>2 DEF RedoInv, Held, Verifies
  <2> QED
    BY <2>1, <2>2
<1> QED
  BY <1>2, <1>3, <1>5, <1>6, RedoGoesOn

\* The answers about a swap: one that is included is in this block.
LEMMA RedoVerify ==
    ASSUME Rivals = {}, TrackerInv, FollowInv, NEW old, NEW f, RedoInv(old, f), NEW t \in Txs,
           VerifyIncluded(t) \/ CheckNonce(t) \/ NonceUnanswered(t)
    PROVE  RedoInv(old, f)'
<1>1. pc = "verify" /\ t \in DOMAIN bt.todo
  BY DEF VerifyIncluded, CheckNonce, NonceUnanswered
<1>2. ASSUME NEW status, NEW block, status = "included" => block = Top.id,
             Resolve(t, Live(status, block))
      PROVE  RedoInv(old, f)'
  <2>1. Live(status, block).status = "included" => Live(status, block).block = Top.id
    BY <1>2 DEF Live
  <2> QED
    BY <1>1, <1>2, <2>1, RedoResolve
<1>3. CASE VerifyIncluded(t)
  BY <1>2, <1>3 DEF VerifyIncluded
<1>4. CASE CheckNonce(t)
  <2>1. PICK status \in {"replaced", "not_included"} : Resolve(t, Live(status, 0))
    BY <1>4 DEF CheckNonce
  <2>2. status # "included"
    BY <2>1
  <2> QED
    BY <1>2, <2>1, <2>2
<1>5. CASE NonceUnanswered(t) /\ LongOverdue(Top, bt.todo[t])
  BY <1>2, <1>5 DEF NonceUnanswered
<1>6. CASE NonceUnanswered(t) /\ ~LongOverdue(Top, bt.todo[t])
  <2> DEFINE todo == [u \in DOMAIN bt.todo \ {t} |-> bt.todo[u]]
  <2>1. /\ watched' = watched /\ Verifying(Top, watched', todo, bt.done)
        /\ UNCHANGED << chainVars, used, stack, tracker, lastBlock, resolvedBy, db, lost >>
    BY <1>6 DEF NonceUnanswered, Deferred, BlockStep, Alone, auxVars
  <2>2. DOMAIN bt = LocalNames
    BY DEF FollowInv, FollowTypes
  <2>3. bt'.done = bt.done /\ pc' \in {"verify", "persist"}
    <3> HIDE DEF todo
    <3> QED
      BY <2>1, <2>2, LocalsOK
  <2>4. \A u \in DOMAIN bt'.done :
              bt'.done[u].row.status = "included" => bt'.done[u].row.block = Top.id
    BY <1>1, <2>3 DEF RedoInv, Held, Verifies
  <2> QED
    BY <1>1, <2>1, <2>3, <2>4, RedoGoesOn
<1> QED
  BY <1>3, <1>4, <1>5, <1>6

\* The rows are written and what they resolved is recorded; what is no longer recorded
\* is as old as the history is long.
LEMMA RedoRecords ==
    ASSUME OneReorg, TrackerInv, FollowInv, NEW old, NEW f, RedoInv(old, f), PersistBlock,
           NEW t \in Txs, Verified(t)'
    PROVE  \/ watched'[t] # 0 \/ t \in lost' \/ SettledIn(db'[t].block)
           \/ Recorded(tracker, resolvedBy', t, db'[t].block)
<1> DEFINE originals == {[tx |-> u, head |-> bt.done[u].head] : u \in DOMAIN bt.done}
           kept == {n \in DOMAIN resolvedBy : n >= Top.num - Checkpoints}
<1>1. /\ pc = "persist" /\ watched' = watched
      /\ resolvedBy' = [n \in kept \union {Top.num} |->
                            IF n = Top.num THEN originals ELSE resolvedBy[n]]
  BY DEF PersistBlock
<1>2. PICK ok \in Writes :
         /\ db' = [u \in Txs |-> IF ok /\ u \in DOMAIN bt.done THEN bt.done[u].row
                                 ELSE IF ok /\ u \in bt.replays THEN Replayed(Top.id) ELSE db[u]]
         /\ FinalRows(DOMAIN bt.done, ok)
  BY DEF PersistBlock
<1>3. stack # << >> /\ Verifies(pc) /\ Top.num \in Nat
  BY <1>1, PlaceFacts DEF Verifies
<1>4. Edge = Top.num - 1
  BY <1>1, <1>3 DEF Edge
<1>5. Greatest(tracker, Top.num) /\ tracker[Top.num].id = Top.id
  <2>1. Edge + 1 = Top.num
    BY <1>3, <1>4
  <2> QED
    BY <1>1, <1>3, <2>1 DEF RedoInv, Newest, Anchoring, Verifies
<1>6. CASE t \in DOMAIN bt.done /\ ~ok
  BY <1>2, <1>6 DEF FinalRows
<1>7. CASE t \in DOMAIN bt.done /\ ok
  <2>1. db'[t] = bt.done[t].row
    BY <1>7, <1>2
  <2>2. db'[t].block = Top.id
    BY <1>3, <1>7, <2>1 DEF RedoInv, Held, Verified
  <2>3. \E r \in originals : r.tx = t
    <3>1. [tx |-> t, head |-> bt.done[t].head] \in originals
      BY <1>7
    <3> QED
      BY <3>1
  <2> HIDE DEF originals
  <2>4. Top.num \in DOMAIN resolvedBy' /\ resolvedBy'[Top.num] = originals
    BY <1>1
  <2> QED
    BY <1>5, <2>2, <2>3, <2>4 DEF Recorded, Greatest
<1>8. CASE t \notin DOMAIN bt.done /\ ok /\ t \in bt.replays
  <2>1. db'[t] = Replayed(Top.id)
    BY <1>8, <1>2
  <2> QED
    BY <2>1 DEF Verified, Replayed
<1>9. CASE t \notin DOMAIN bt.done /\ ~(ok /\ t \in bt.replays)
  <2>1. db'[t] = db[t]
    BY <1>9, <1>2
  <2>2. Verified(t)
    BY <2>1 DEF Verified
  <2>3. watched[t] # 0 \/ t \in lost \/ Recorded(tracker, resolvedBy, t, db[t].block) \/ SettledIn(db[t].block)
    BY <1>9, <2>2 DEF RedoInv, Held
  <2>4. CASE Recorded(tracker, resolvedBy, t, db[t].block)
    <3>1. PICK m \in DOMAIN tracker \intersect DOMAIN resolvedBy :
             tracker[m].id = db[t].block /\ \E r \in resolvedBy[m] : r.tx = t
      BY <2>4 DEF Recorded
    <3>2. m \in Nat /\ m <= Top.num - 1 /\ Checkpoints \in Nat
      BY <1>4, WatcherConstants DEF RedoInv, Place
    <3>3. CASE m >= Top.num - Checkpoints
      <4>1. m \in DOMAIN resolvedBy' /\ resolvedBy'[m] = resolvedBy[m]
        <5>1. m # Top.num
          BY <1>3, <3>2
        <5> HIDE DEF originals
        <5> QED
          BY <1>1, <3>1, <3>3, <5>1
      <4> QED
        BY <2>1, <3>1, <4>1 DEF Recorded
    <3>4. CASE ~(m >= Top.num - Checkpoints)
      <4>1. Top.num - m >= Checkpoints /\ m \in Int /\ Top.num \in Int
        BY <1>3, <3>2, <3>4
      <4>2. Branches(old, f) /\ Stretch(old, f, tracker) /\ Top.num \in DOMAIN tracker
        BY <1>5 DEF RedoInv, Greatest
      <4>3. SettledIn(tracker[m].id)
        <5>1. PICK e \in Int : e = Top.num
          BY <4>1
        <5> QED
          BY <3>1, <4>1, <4>2, <5>1, Aged
      <4> QED
        BY <2>1, <3>1, <4>3
    <3> QED
      BY <3>3, <3>4
  <2>5. t \in lost => t \in lost'
    BY <1>9, <1>2 DEF FinalRows
  <2> QED
    BY <1>1, <2>1, <2>3, <2>4, <2>5
<1> QED
  BY <1>7, <1>8, <1>9, <1>6

\* The end of a block: inside a redo the block above it fits and is applied; outside,
\* the block is the last one done with.
LEMMA RedoPersist ==
    ASSUME OneReorg, TrackerInv, FollowInv, NEW old, NEW f, RedoInv(old, f), PersistBlock
    PROVE  RedoInv(old, f)'
<1> DEFINE outer == SubSeq(stack, 1, Len(stack) - 1)
           below == outer[Len(outer)]
<1>1. /\ pc = "persist" /\ UNCHANGED << chainVars, used, watched >> /\ lastBlock' = Top.num
      /\ DOMAIN resolvedBy' \subseteq DOMAIN resolvedBy \union {Top.num}
      /\ IF outer # << >> THEN ApplyTo(tracker, sinceAnchor, watched, outer)
         ELSE /\ IF Top.num < bt.head THEN ToHeader(Top.num + 1, bt.head) ELSE GiveUp
              /\ UNCHANGED << tracker, sinceAnchor >>
  BY DEF PersistBlock, BlockStep, Alone
<1>2. /\ stack # << >> /\ stack \in Seq(BlockHeader) /\ Top = stack[Len(stack)] /\ Len(stack) \in Nat
      /\ Top.num \in Nat /\ Top.num >= 2 /\ Verifies(pc) /\ Len(stack) >= 1 /\ stack[1].num \in Nat
      /\ Top.num = stack[1].num - (Len(stack) - 1)
      /\ OnHeader(Top) \/ (DeadHeader(old, f, Top) /\ ~Nested)
  BY <1>1, PlaceFacts DEF Verifies
<1>3. Edge = Top.num - 1
  BY <1>1, <1>2 DEF Edge
<1>4. Greatest(tracker, Top.num) /\ tracker[Top.num].id = Top.id
  <2>1. Edge + 1 = Top.num
    BY <1>2, <1>3
  <2> QED
    BY <1>1, <1>2, <2>1 DEF RedoInv, Newest, Anchoring, Verifies
<1>5. /\ Branches(old, f) /\ Stretch(old, f, tracker) /\ Chained(old, f, stack, Nested)
  BY DEF RedoInv
<1>6. \A m \in DOMAIN resolvedBy' : m \in Nat /\ m <= Top.num
  <2>1. \A m \in DOMAIN resolvedBy : m \in Nat /\ m <= Top.num - 1
    BY <1>3 DEF RedoInv, Place
  <2>2. \A m \in DOMAIN resolvedBy : m \in Nat /\ m <= Top.num
    BY <1>2, <2>1
  <2> QED
    BY <1>1, <1>2, <2>2
<1>7. \A t \in Txs : Verified(t)' => \/ watched'[t] # 0 \/ t \in lost' \/ SettledIn(db'[t].block)
                                     \/ Recorded(tracker, resolvedBy', t, db'[t].block)
  BY RedoRecords
<1>8. /\ outer \in Seq(BlockHeader) /\ Len(outer) = Len(stack) - 1
      /\ \A i \in 1..Len(outer) : i \in 1..Len(stack) /\ outer[i] = stack[i]
  BY <1>2, OuterIs
<1>9. CASE outer # << >>
  <2> HIDE DEF outer
  <2>1. Len(outer) \in Nat /\ Len(outer) >= 1 /\ Len(outer) = Len(stack) - 1
    BY <1>8, <1>9
  <2>2. Nested
    BY <1>2, <2>1 DEF Nested, Nests
  <2>3. \A i \in 1..Len(stack) : /\ OnHeader(stack[i]) /\ stack[i].num >= 2
                                 /\ stack[i].num = stack[1].num - (i - 1)
    BY <1>5, <2>2 DEF Chained
  <2>4. Len(outer) \in 1..Len(outer) /\ 1 \in 1..Len(outer)
    BY <2>1
  <2>5. below = stack[Len(outer)] /\ OnHeader(below) /\ below.num = Top.num + 1 /\ outer[1] = stack[1]
    <3>1. below = stack[Len(outer)] /\ Len(outer) \in 1..Len(stack) /\ outer[1] = stack[1]
      BY <1>8, <2>4
    <3>2. OnHeader(below) /\ below.num = stack[1].num - (Len(outer) - 1)
      BY <2>3, <3>1
    <3> QED
      BY <1>2, <2>1, <3>1, <3>2
  <2> HIDE DEF below
  <2>6. Applies(tracker, below)
    <3>1. below.num - 1 = Top.num
      BY <1>2, <2>5
    <3>2. below.parent = Top.id
      BY <1>2, <2>2, <2>5, <3>1 DEF OnHeader, On
    <3>3. \A m \in DOMAIN tracker : m < below.num
      BY <1>2, <1>4, <2>5, PlaceFacts DEF Greatest
    <3> QED
      BY <1>4, <3>1, <3>2, <3>3 DEF Applies, Follows, SameParent, Greatest
  <2>7. Chained(old, f, outer, Len(outer) > 1)
    <3>1. \A i \in 1..Len(outer) : /\ OnHeader(outer[i]) /\ outer[i].num >= 2
                                   /\ outer[i].num = outer[1].num - (i - 1)
      BY <1>8, <2>3, <2>5
    <3>2. used.reorgs # 0 /\ outer[1].num <= Len(old) + 1
      BY <1>5, <2>2, <2>5 DEF Chained
    <3> QED
      BY <3>1, <3>2 DEF Chained
  <2>8. ApplyTo(tracker, sinceAnchor, watched, outer) /\ Applies(tracker, outer[Len(outer)])
    BY <1>1, <1>9, <2>6 DEF below
  <2>9. below.num - 1 = Top.num /\ lastBlock' \in Nat \ {0}
    BY <1>1, <1>2, <2>5
  <2>10. /\ Greatest(tracker, outer[Len(outer)].num - 1)
         /\ \A m \in DOMAIN resolvedBy' : m \in Nat /\ m <= outer[Len(outer)].num - 1
    BY <1>4, <1>6, <2>9 DEF below
  <2>11. DOMAIN bt = LocalNames
    BY DEF FollowInv, FollowTypes
  <2> QED
    BY <1>1, <1>5, <1>7, <1>8, <1>9, <2>7, <2>8, <2>9, <2>10, <2>11, RedoBegins
<1>10. CASE outer = << >>
  <2>1. /\ stack' = << >> /\ tracker' = tracker /\ pc' \in {"poll", "header"}
        /\ pc' = "header" => bt' = [NoLocals EXCEPT !.num = Top.num + 1, !.head = bt.head]
    BY <1>1, <1>10 DEF ToHeader, GiveUp
  <2>2. pc' = "header" => bt'.num = Top.num + 1
    <3>1. [NoLocals EXCEPT !.num = Top.num + 1, !.head = bt.head].num = Top.num + 1
      BY DEF NoLocals
    <3> QED
      BY <2>1, <3>1, Zenon
  <2>3. ~Nested' /\ Edge' = Top.num /\ ~Verifies(pc')
    BY <1>1, <2>1 DEF Nested, Nests, Edge, Verifies
  <2>4. Branches(old, f)' /\ Stretch(old, f, tracker)'
    BY <1>1, <1>5, <2>1, SameBranches DEF Stretch
  <2>5. Chained(old, f, stack, Nested)' /\ Anchoring(old, f)'
    BY <2>1, <2>3 DEF Chained, Anchoring
  <2>6. Place'
    BY <1>1, <1>2, <1>6, <2>1, <2>2, <2>3 DEF Place
  <2>7. Newest'
    BY <1>4, <2>1, <2>3 DEF Newest
  <2>8. Held'
    <3>1. ASSUME NEW t \in Txs, Verified(t)'
          PROVE  \/ watched'[t] # 0 \/ t \in lost'
                 \/ Recorded(tracker, resolvedBy, t, db[t].block)' \/ SettledIn(db[t].block)'
      <4>1. PICK id : id = db'[t].block
        OBVIOUS
      <4>2. SettledIn(id) => SettledIn(db[t].block)'
        <5>1. SettledIn(id)' <=> SettledIn(id)
          BY <1>1, <1>5, SameBranches
        <5> QED
          BY <4>1, <5>1 DEF SettledIn
      <4>3. Recorded(tracker, resolvedBy', t, id) => Recorded(tracker, resolvedBy, t, db[t].block)'
        BY <2>1, <4>1 DEF Recorded
      <4> QED
        BY <1>7, <3>1, <4>1, <4>2, <4>3
    <3> QED
      BY <2>3, <3>1 DEF Held
  <2> QED
    BY <2>4, <2>5, <2>6, <2>7, <2>8 DEF RedoInv
<1> QED
  BY <1>9, <1>10

\* Every step; after a restart, or once a reorganisation may have been passed over
\* unseen, nothing is claimed.
LEMMA RedoNext ==
    ASSUME OneReorg, TrackerInv, FollowInv, Redoable, [Next]_vars
    PROVE  Redoable'
<1> DEFINE Bounds == [faults : Nat, reorgs : Nat, switches : Nat, restarts : Nat]
<1>1. /\ used' \in Bounds /\ (used'.restarts = 0 => used.restarts = 0)
      /\ Restart => used'.restarts # 0
  <2>1. \/ UNCHANGED used \/ used' = [used EXCEPT !.reorgs = @ + 1]
        \/ used' = [used EXCEPT !.switches = @ + 1] \/ used' = [used EXCEPT !.faults = @ + 1]
        \/ used' = [used EXCEPT !.restarts = @ + 1]
    <3>1. Blocks => UNCHANGED used \/ used' = [used EXCEPT !.faults = @ + 1]
      <4>1. ReadHeader => UNCHANGED used \/ used' = [used EXCEPT !.faults = @ + 1]
        <5>1. used \in Bounds
          BY DEF Redoable
        <5>2. [used EXCEPT !.faults = used.faults] = used
          BY <5>1
        <5>3. ASSUME ReadHeader
              PROVE  \/ used' = used \/ used' = [used EXCEPT !.faults = used.faults]
                     \/ used' = [used EXCEPT !.faults = used.faults + 1]
          BY <5>3 DEF ReadHeader
        <5> QED
          BY <5>2, <5>3
      <4> QED
        BY <4>1 DEF Blocks, Poll, ApplyBlock, AnchorHeader, AnchorLoad, PersistBlock,
             VerifyIncluded, CheckNonce, NonceUnanswered, Resolve, BlockStep
    <3>2. Predict => UNCHANGED used
      BY DEF Predict, PredictTake, PredictWait, PredictNoState, PredictOverBudget, PredictFails,
             PredictStore, PredictPersist, PredictNext
    <3>3. Intake => UNCHANGED used \/ used' = [used EXCEPT !.switches = @ + 1]
      BY DEF Intake, OnPending, SourcesRefuse, CheckGrace, ToReplay
    <3>4. Chain => UNCHANGED used \/ used' = [used EXCEPT !.reorgs = @ + 1]
      BY DEF Chain, Mine, Reorg
    <3>5. BlockFails \/ AfterBlockFails => used' = [used EXCEPT !.faults = @ + 1]
      BY DEF BlockFails, AfterBlockFails
    <3>6. Restart => used' = [used EXCEPT !.restarts = @ + 1]
      BY DEF Restart
    <3> QED
      BY <3>1, <3>2, <3>3, <3>4, <3>5, <3>6 DEF Next, vars
  <2>2. Restart => used' = [used EXCEPT !.restarts = @ + 1]
    BY DEF Restart
  <2> QED
    BY <2>1, <2>2 DEF Redoable
<1>2. ASSUME used'.restarts = 0, ~hidden'
      PROVE  (\E o, g : RedoInv(o, g))'
  <2>0. ~hidden
    <3>1. hidden => hidden'
      BY DEF Next, Chain, Mine, Reorg, Intake, OnPending, SourcesRefuse, CheckGrace, ToReplay, Predict,
             PredictTake, PredictWait, PredictNoState, PredictOverBudget, PredictFails, PredictStore,
             PredictPersist, PredictNext, Blocks, Poll, ReadHeader, ApplyBlock, AnchorHeader, AnchorLoad,
             PersistBlock, VerifyIncluded, CheckNonce, NonceUnanswered, Resolve, BlockFails,
             AfterBlockFails, Restart, auxVars, vars
    <3> QED
      BY <1>2, <3>1
  <2>1. PICK old, f : RedoInv(old, f)
    BY <1>1, <1>2, <2>0 DEF Redoable
  <2>2. CASE \E k \in 1..MaxDrop : Reorg(k)
    BY <2>1, <2>2, RedoReorg
  <2>3. CASE RedoInv(old, f)'
    BY <2>3
  <2>4. CASE UNCHANGED vars
    <3>1. /\ UNCHANGED << chainVars, blockVars, used, watched, db, lost >>
      BY <2>4 DEF vars, auxVars
    <3>2. \A t \in Txs : Verified(t)' => Verified(t)
      BY <3>1 DEF Verified
    <3> QED
      BY <2>1, <3>1, <3>2, RedoOthers, <2>3
  <2>5. CASE Next /\ ~(\E k \in 1..MaxDrop : Reorg(k))
    <3> Rivals = {}
      BY DEF OneReorg
    <3>1. CASE \E txs \in SUBSET Txs : Mine(txs)
      BY <2>1, <2>3, <3>1, RedoMine
    <3>2. CASE Intake \/ Predict
      BY <2>1, <2>3, <3>2, RedoIntake
    <3>3. CASE Poll
      BY <1>2, <2>1, <2>3, <3>3, RedoPoll
    <3>4. CASE ReadHeader
      BY <2>1, <2>3, <3>4, RedoReadHeader
    <3>5. CASE ApplyBlock
      BY <2>1, <2>3, <3>5, RedoApplyBlock
    <3>6. CASE AnchorHeader
      BY <2>1, <2>3, <3>6, RedoAnchorHeader
    <3>7. CASE AnchorLoad
      BY <1>2, <2>1, <2>3, <3>7, RedoAnchorLoad
    <3>8. CASE PersistBlock
      BY <2>1, <2>3, <3>8, RedoPersist
    <3>9. CASE \E t \in Txs : VerifyIncluded(t) \/ CheckNonce(t) \/ NonceUnanswered(t)
      BY <2>1, <2>3, <3>9, RedoVerify
    <3>10. CASE BlockFails
      BY <2>1, <2>3, <3>10, RedoBlockFails
    <3>11. ~Restart
      BY <1>1, <1>2
    <3>12. ~AfterBlockFails
      BY DEF AfterBlockFails, OneReorg
    <3> QED
      BY <2>5, <3>1, <3>2, <3>3, <3>4, <3>5, <3>6, <3>7, <3>8, <3>9, <3>10, <3>11, <3>12
         DEF Next, Chain, Blocks
  <2> QED
    BY <2>2, <2>4, <2>5
<1> QED
  BY <1>1, <1>2 DEF Redoable

\* Between blocks, with the newest block processed on the chain, everything tracked is
\* on the chain, so a swap verified in a block that is not is watched again.
LEMMA RedoableRedone ==
    ASSUME TrackerInv, FollowInv, Redoable
    PROVE  RedoneAfterReorg
<1>1. SUFFICES ASSUME InSync, used.restarts = 0, ~hidden, NEW t \in Txs, Verified(t),
                      watched[t] = 0, t \notin lost
               PROVE  OnChain(db[t].block)
  BY DEF RedoneAfterReorg, Verified
<1>2. PICK old, f : RedoInv(old, f)
  BY <1>1 DEF Redoable
<1>3. pc = "poll" /\ lastBlock # 0 /\ On(lastBlock, tracker[lastBlock].id)
  BY <1>1, ChainFacts DEF InSync, On
<1>4. stack = << >> /\ DOMAIN bt.done = {} /\ ~Verifies(pc)
  BY <1>2, <1>3 DEF RedoInv, Place, FollowInv, DoneOK, Verifies
<1>5. SettledIn(db[t].block) => OnChain(db[t].block)
  BY ChainFacts DEF SettledIn, OnChain
<1>6. CASE Recorded(tracker, resolvedBy, t, db[t].block)
  <2>1. PICK m \in DOMAIN tracker : tracker[m].id = db[t].block
    BY <1>6 DEF Recorded
  <2>2. Greatest(tracker, lastBlock) /\ m \in Nat /\ lastBlock \in Nat
    <3>1. Edge = lastBlock
      BY <1>4 DEF Edge
    <3> QED
      BY <1>2, <1>4, <2>1, <3>1, PlaceFacts DEF RedoInv, Newest
  <2>3. ~Dead(old, f, m, tracker[m].id)
    <3>1. ~Dead(old, f, lastBlock, tracker[lastBlock].id)
      BY <1>2, <1>3, NotBoth DEF RedoInv
    <3>2. m = lastBlock \/ m < lastBlock
      BY <2>1, <2>2 DEF Greatest
    <3> QED
      BY <1>2, <2>1, <2>2, <3>1, <3>2 DEF RedoInv, Stretch, Greatest
  <2>4. On(m, tracker[m].id)
    BY <1>2, <2>1, <2>3 DEF RedoInv, Stretch
  <2> QED
    BY <2>1, <2>4, ChainFacts DEF On, OnChain
<1> QED
  BY <1>1, <1>2, <1>4, <1>5, <1>6 DEF RedoInv, Held

\* One reorganisation that is no deeper than the nested calls and the history, and that
\* no anchor and no catch-up passes over unseen, leaves every swap that a dead block
\* resolved recorded under it, until _restore_from has watched it again (_apply,
\* _restore_from, _after_block).
THEOREM WatcherRedoable ==
    ASSUME OneReorg
    PROVE  Spec => []Redoable
<1>1. Init => Redoable
  BY RedoInit
<1>2. TrackerInv /\ FollowInv /\ Redoable /\ [Next]_vars => Redoable'
  BY RedoNext
<1> QED
  BY <1>1, <1>2, WatcherInvariant, WatcherFollows, PTL DEF Spec

\* ... so between blocks a swap that was verified in a block that is not on the chain
\* is watched again.
THEOREM WatcherRedoneAfterReorg ==
    ASSUME OneReorg
    PROVE  Spec => []RedoneAfterReorg
<1>1. TrackerInv /\ FollowInv /\ Redoable => RedoneAfterReorg
  BY RedoableRedone
<1> QED
  BY <1>1, WatcherInvariant, WatcherFollows, WatcherRedoable, PTL
=============================================================================
