------------------------------ MODULE RunLedger ------------------------------
(***************************************************************************)
(* What the simulation lab promises a visitor, whatever it does inside: a  *)
(* run is accepted only when the visitor has none open, an open run is     *)
(* over sooner or later unless the lab closes, a run that is over never    *)
(* opens again, and only a run that is over is forgotten.  SimLab          *)
(* implements it (Ledger in SimLab).                                       *)
(***************************************************************************)
EXTENDS Integers

CONSTANTS Visitors, MaxRuns   \* who submits; bound of the runs

VARIABLES asked,    \* runs accepted
          owner,    \* owner[r]: who asked for run r
          state,    \* state[r]: "open", "over" or "gone"
          closed    \* the lab has stopped

vars == << asked, owner, state, closed >>

States == {"open", "over", "gone"}

Init == asked = 0 /\ owner = [r \in 1..asked |-> {}] /\ state = [r \in 1..asked |-> {}] /\ closed = FALSE

\* The runs of before: each is as it was, or was over and is forgotten.
OnlyForgets ==
    \A r \in 1..asked : state'[r] # state[r] => state[r] = "over" /\ state'[r] = "gone"

Accept(v) ==
    /\ ~closed /\ \A r \in 1..asked : owner[r] = v => state[r] # "open"
    /\ asked' = asked + 1
    /\ owner' = [r \in 1..(asked + 1) |-> IF r = asked + 1 THEN v ELSE owner[r]]
    /\ state' \in [1..(asked + 1) -> States]
    /\ OnlyForgets /\ state'[asked + 1] # "gone"
    /\ UNCHANGED closed

Forget ==
    /\ ~closed /\ state' \in [1..asked -> States] /\ OnlyForgets
    /\ UNCHANGED << asked, owner, closed >>

Finish(r) ==
    /\ ~closed /\ state[r] = "open"
    /\ state' = [state EXCEPT ![r] = "over"]
    /\ UNCHANGED << asked, owner, closed >>

Close ==
    /\ ~closed /\ closed' = TRUE
    /\ UNCHANGED << asked, owner, state >>

Next ==
    \/ \E v \in Visitors : Accept(v)
    \/ Forget
    \/ \E r \in 1..asked : Finish(r)
    \/ Close

SafeSpec == Init /\ [][Next]_vars

Open(r) == r \in 1..asked /\ state[r] = "open"
Spec == SafeSpec /\ \A r \in 1..MaxRuns : Open(r) ~> (~Open(r) \/ closed)
=============================================================================
