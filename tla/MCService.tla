----------------------------- MODULE MCService ------------------------------
(***************************************************************************)
(* The parts around the dispatch core, for TLC: the limiter, the admin     *)
(* access, the access-list healer and the monitor.  They share no state,   *)
(* so each behaviour is about one of them, its scene, while the others     *)
(* stay as they began.                                                     *)
(***************************************************************************)
EXTENDS AdminApi, AclHealer, Monitor

CONSTANT MaxChanges   \* bound: how often the world changes

VARIABLES scene, changes

serviceVars == <<limiterVars, adminVars, healVars, monitorVars, scene, changes>>

Calm ==
  [dispatched |-> 0, claimed |-> 0, needsOperator |-> 0, manualVault |-> 0, failed |-> 0,
   sol |-> 2, balance |-> 2, reserved |-> 0, reviews |-> 0, oldestReview |-> Never,
   oldestDispatch |-> Never, anchoredAt |-> 0, anchorConfirmed |-> TRUE, headSeq |-> 1,
   emptySignatures |-> 0]

\* All is well, or two conditions hold: one of the float, at once, and one of the
\* database, when a review has grown old.
TwoWorlds == {Calm, [Calm EXCEPT !.balance = 0, !.reviews = 1, !.oldestReview = 0]}

Reposts == [n \in AlertNames |-> IF n = "float-low" THEN 6 ELSE 4]

Limits == [failures |-> 1, sol |-> 1, refill |-> 1, cap |-> 3, reviews |-> 2, sla |-> 3,
           stall |-> 3, anchors |-> TRUE, cadence |-> 20]

Init ==
  /\ LimiterInit /\ AdminInit /\ HealInit /\ MonitorInit
  /\ scene \in {"limiter", "admin", "healer", "monitor"}
  /\ changes = 0
  /\ scene # "admin" => mode = "absent"
  /\ scene # "healer" => registered = {"cold"}
  /\ scene # "monitor" => world = Calm

MonitorStep ==
  /\ MonitorNext
  /\ changes' = (IF world' = world THEN changes ELSE changes + 1) /\ changes' <= MaxChanges

Next ==
  /\ \/ scene = "limiter" /\ LimiterNext /\ LimiterBound' /\ UNCHANGED <<adminVars, healVars, monitorVars>>
     \/ scene = "admin" /\ AdminNext /\ UNCHANGED <<limiterVars, healVars, monitorVars>>
     \/ scene = "healer" /\ HealNext /\ UNCHANGED <<limiterVars, adminVars, monitorVars>>
     \/ scene = "monitor" /\ MonitorStep /\ UNCHANGED <<limiterVars, adminVars, healVars>>
  /\ scene # "monitor" => UNCHANGED changes
  /\ UNCHANGED scene

Spec == Init /\ [][Next]_serviceVars /\ HealFairness
=============================================================================
