---------------------------- MODULE WindowBudget ----------------------------
(***************************************************************************)
(* What strategy J promises of the money it puts into one window, whatever *)
(* its thresholds decide: a capped deployment on one thesis, a capped      *)
(* hedge once there is a thesis, one sale that cuts the loss, and no new   *)
(* deployment after the window was halted for chop.                        *)
(***************************************************************************)
EXTENDS Naturals

CONSTANTS MaxDeployed, MaxHedged

VARIABLES
  deployed,   \* dollars on the thesis, less what the sale was released at
  hedged,     \* dollars on the other side
  committed,  \* a thesis was bought
  cut,        \* the loss was cut
  halted      \* no new deployment

budget == <<deployed, hedged, committed, cut, halted>>

Init ==
  /\ deployed = 0 /\ hedged = 0
  /\ committed = FALSE /\ cut = FALSE /\ halted = FALSE

Deploy ==
  /\ ~halted
  /\ deployed' \in deployed..MaxDeployed
  /\ committed' = TRUE
  /\ UNCHANGED <<hedged, cut, halted>>

Hedge ==
  /\ committed
  /\ hedged' \in hedged..MaxHedged
  /\ UNCHANGED <<deployed, committed, cut, halted>>

CutLoss ==
  /\ committed /\ ~cut
  /\ cut' = TRUE
  /\ deployed' \in 0..deployed
  /\ UNCHANGED <<hedged, committed, halted>>

Halt ==
  /\ halted' = TRUE
  /\ UNCHANGED <<deployed, hedged, committed, cut>>

Next == Deploy \/ Hedge \/ CutLoss \/ Halt

Spec == Init /\ [][Next]_budget
=============================================================================
