------------------------------- MODULE Monitor ------------------------------
(***************************************************************************)
(* The monitoring half of the dispatch worker's loop                       *)
(* (cli/dispatch-worker.ts): a tick dispatches, sweeps and, on a cadence   *)
(* of its own, reads the two balances and the database, evaluates the      *)
(* alerts (ops/alerts.ts) and posts those that are due                     *)
(* (ops/alert-slack.ts).  Dispatching is Worker's and sweeping AclHealer's.*)
(*                                                                         *)
(* A tick takes time: dispatching waits for confirmations, one claim after *)
(* the other, then the sweep, and only then is the cadence looked at; a    *)
(* monitoring pass reads the balances first and the database last.  Slack  *)
(* itself is not modelled: a post is one that was handed to the notifier,  *)
(* which nothing waits for.                                                *)
(***************************************************************************)
EXTENDS Integers, FiniteSets, FiniteSetsExt

CONSTANTS
  Worlds,           \* what the database and the chain may hold
  Poll,             \* pollIntervalMs
  MonitorInterval,  \* monitorIntervalMs
  RepostInterval,   \* repostIntervalMs of each alert, its override applied
  Thresholds,       \* AlertThresholds and the float policy
  MaxWork,          \* bound: the longest runOnce and sweep of a tick together, each
                    \* claim that does not confirm taking confirmTimeoutMs of it
  MaxRead,          \* bound: the longest that the reads of a monitoring pass take
  MaxClock, MaxFaults

VARIABLES
  clock,
  world,        \* an element of Worlds
  stage,        \* what the loop waits for: its sleep, runOnce and the sweep, or the reads
  wake,         \* when that is over
  lastMonitor,  \* lastMonitorAt, Never for -Infinity
  balances,     \* the alerts on balances that fire by what the pass under way has read
  lastPosted,   \* the router's memory: time of the last post of an alert, or Never
  faults,       \* how many faults there were
  since,        \* history: since when the alert's condition holds and nothing that
                \* the alert needs has failed, or Never
  posted,       \* history: time of the last post, over restarts and lulls
  passed,       \* history: when the last pass that reached the router began, or Never
  lull          \* history: alerts a pass found quiet, or a restart forgot, since their last post

monitorVars ==
  <<clock, world, stage, wake, lastMonitor, balances, lastPosted, faults,
    since, posted, passed, lull>>

Never == -1

OfDatabase ==
  {"reconciliation-mismatch", "dispatch-needs-operator", "vault-manual-delivery-queue",
   "dispatch-failure", "big-claim-queue-growing", "big-claim-queue-sla-breach",
   "dispatch-stalled", "anchor-failure", "anchor-unconfirmed", "audit-unsigned-backlog"}
OfFloat    == {"float-low", "float-over-cap"}
OfSol      == {"dispenser-sol-low"}
OfBalances == OfFloat \cup OfSol
AlertNames == OfDatabase \cup OfBalances

ASSUME MonitorAssumption ==
  /\ Poll \in Nat \ {0} /\ MonitorInterval \in Nat /\ MaxWork \in Nat /\ MaxRead \in Nat
  /\ MaxClock \in Nat /\ MaxFaults \in Nat
  /\ RepostInterval \in [AlertNames -> Nat]

-----------------------------------------------------------------------------
(***************************************************************************)
(* collectDbMetrics, FloatManager.status and evaluateAlerts.  An event of  *)
(* the world carries its time, and Never if there is none.                 *)
(***************************************************************************)

Age(event) == clock - event

OverAge(event, limit) == event # Never /\ Age(event) > limit

Available(w) == IF w.balance > w.reserved THEN w.balance - w.reserved ELSE 0

\* Whether evaluateAlerts names n when the balances it depends on were read.  The
\* backlog counts rows whose signature is empty; the placeholder appendAudit
\* writes, 64 zero bytes, is not.
Fires(n, w) ==
  CASE n = "reconciliation-mismatch"     -> w.dispatched # w.claimed
    [] n = "dispatch-needs-operator"     -> w.needsOperator > 0
    [] n = "vault-manual-delivery-queue" -> w.manualVault > 0
    [] n = "dispatch-failure"            -> w.failed >= Thresholds.failures
    [] n = "dispenser-sol-low"           -> w.sol < Thresholds.sol
    [] n = "float-low"                   -> Available(w) < Thresholds.refill
    [] n = "float-over-cap"              -> w.balance > Thresholds.cap
    [] n = "big-claim-queue-growing"     -> w.reviews >= Thresholds.reviews
    [] n = "big-claim-queue-sla-breach"  -> OverAge(w.oldestReview, Thresholds.sla)
    [] n = "dispatch-stalled"            -> OverAge(w.oldestDispatch, Thresholds.stall)
    [] n = "anchor-failure"              ->
         /\ Thresholds.anchors
         /\ IF w.anchoredAt = Never THEN w.headSeq > 0
            ELSE Age(w.anchoredAt) > 2 * Thresholds.cadence
    [] n = "anchor-unconfirmed"          ->
         /\ Thresholds.anchors /\ w.anchoredAt # Never /\ ~w.anchorConfirmed
         /\ Age(w.anchoredAt) <= 2 * Thresholds.cadence
    [] n = "audit-unsigned-backlog"      -> w.emptySignatures > 0

Firing == {n \in AlertNames : Fires(n, world)}

\* A balance that could not be read takes its alerts out of this pass only.
EvaluateAlerts(missed) == ((Firing \ OfBalances) \cup balances) \ missed

-----------------------------------------------------------------------------
(***************************************************************************)
(* SlackAlertRouter.                                                       *)
(***************************************************************************)

\* Mutant: an alert that stops firing keeps its quiet window.
RememberedAlways(firing) == lastPosted

\* The router forgets what does not fire in this pass.
Remembered(firing) == [n \in AlertNames |-> IF n \in firing THEN lastPosted[n] ELSE Never]

\* Mutant: every alert has the quiet window of the shortest.
DueByShortest(n) ==
  lastPosted[n] = Never \/ clock - lastPosted[n] >= Min({RepostInterval[m] : m \in AlertNames})

\* Still within the quiet window?
Due(n) == lastPosted[n] = Never \/ clock - lastPosted[n] >= RepostInterval[n]

Posts(firing) == {n \in firing : Due(n)}

-----------------------------------------------------------------------------
(***************************************************************************)
(* The loop.                                                               *)
(***************************************************************************)

MonitorInit ==
  /\ clock = 0 /\ world \in Worlds
  /\ stage = "asleep" /\ wake = 0 /\ lastMonitor = Never /\ balances = {}
  /\ lastPosted = [n \in AlertNames |-> Never]
  /\ faults = 0
  /\ since = [n \in AlertNames |-> IF n \in Firing THEN 0 ELSE Never]
  /\ posted = [n \in AlertNames |-> Never]
  /\ passed = Never
  /\ lull = {}

\* History of conditions.
Observe ==
  since' = [n \in AlertNames |-> IF n \notin Firing' THEN Never
                                 ELSE IF since[n] = Never THEN clock' ELSE since[n]]

ShouldMonitor == lastMonitor = Never \/ clock - lastMonitor >= MonitorInterval

\* What the alerts in names need has failed just now.
Hinder(names) ==
  since' = [n \in AlertNames |-> IF n \in names /\ since[n] # Never THEN clock ELSE since[n]]

\* The loop goes on to a stage that takes some of longest.
Enter(next, longest) ==
  /\ stage' = next
  /\ \E duration \in longest : wake' = clock + duration

SleepAgain == Enter("asleep", {Poll})

Over(current) == stage = current /\ clock = wake

\* A tick begins: worker.runOnce(), then the healer's sweep.
StartTick ==
  /\ Over("asleep")
  /\ Enter("working", 0 .. MaxWork)
  /\ UNCHANGED <<clock, world, lastMonitor, balances, lastPosted, faults,
                 since, posted, passed, lull>>

\* runOnce throws: the whole tick is given up, the monitoring with it.
TickFails ==
  /\ Over("working") /\ faults < MaxFaults
  /\ SleepAgain
  /\ faults' = faults + 1
  /\ Hinder(AlertNames)
  /\ UNCHANGED <<clock, world, lastMonitor, balances, lastPosted, posted, passed, lull>>

TickOnly ==
  /\ Over("working") /\ ~ShouldMonitor
  /\ SleepAgain
  /\ UNCHANGED <<clock, world, lastMonitor, balances, lastPosted, faults,
                 since, posted, passed, lull>>

\* A monitoring pass begins, with the balances.
StartMonitoring ==
  /\ Over("working") /\ ShouldMonitor
  /\ Enter("reading", 0 .. MaxRead)
  /\ lastMonitor' = clock
  /\ balances' = Firing \cap OfBalances
  /\ UNCHANGED <<clock, world, lastPosted, faults, since, posted, passed, lull>>

\* It ends with the database; the balances of the alerts in missed were not read.
TickAndMonitor(missed) ==
  LET firing == EvaluateAlerts(missed)
  IN /\ Over("reading")
     /\ missed # {} => faults < MaxFaults
     /\ faults' = IF missed = {} THEN faults ELSE faults + 1
     /\ SleepAgain
     /\ balances' = {}
     /\ lastPosted' = [n \in AlertNames |->
                         IF n \in Posts(firing) THEN clock ELSE Remembered(firing)[n]]
     /\ posted' = [n \in AlertNames |-> IF n \in Posts(firing) THEN clock ELSE posted[n]]
     /\ lull' = (lull \cup (AlertNames \ firing)) \ Posts(firing)
     /\ passed' = lastMonitor
     /\ Hinder(missed)
     /\ UNCHANGED <<clock, world, lastMonitor>>

\* collectMetrics throws: emitAlerts returns before it reaches the router.
MonitorFails ==
  /\ Over("reading") /\ faults < MaxFaults
  /\ faults' = faults + 1
  /\ SleepAgain
  /\ balances' = {}
  /\ Hinder(AlertNames)
  /\ UNCHANGED <<clock, world, lastMonitor, lastPosted, posted, passed, lull>>

PassTime ==
  /\ clock < wake /\ clock < MaxClock
  /\ clock' = clock + 1
  /\ UNCHANGED <<world, stage, wake, lastMonitor, balances, lastPosted, faults,
                 posted, passed, lull>>
  /\ Observe

\* The claims, the balances or the anchors change.
Change ==
  /\ world' \in Worlds \ {world}
  /\ UNCHANGED <<clock, stage, wake, lastMonitor, balances, lastPosted, faults,
                 posted, passed, lull>>
  /\ Observe

\* The process is killed, in whatever stage, and started again; the router was in
\* memory.
RestartWorker ==
  /\ faults < MaxFaults
  /\ faults' = faults + 1
  /\ stage' = "asleep" /\ wake' = clock /\ lastMonitor' = Never /\ balances' = {}
  /\ lastPosted' = [n \in AlertNames |-> Never]
  /\ lull' = AlertNames
  /\ Hinder(AlertNames)
  /\ UNCHANGED <<clock, world, posted, passed>>

MonitorNext ==
  \/ StartTick \/ TickFails \/ TickOnly \/ StartMonitoring \/ MonitorFails
  \/ PassTime \/ Change \/ RestartWorker
  \/ \E missed \in {{}, OfFloat, OfSol, OfBalances} : TickAndMonitor(missed)

MonitorSpec == MonitorInit /\ [][MonitorNext]_monitorVars

-----------------------------------------------------------------------------
(***************************************************************************)
(* Properties.                                                             *)
(***************************************************************************)

\* From a pass to the end of the next: the cadence, or the reads if they take
\* longer, then the sleep and the dispatching of the tick that finds it due, and
\* the reads of that tick.
Latency == Max({MonitorInterval, MaxRead}) + Poll + MaxWork + MaxRead

\* An alert whose condition has held undisturbed for a while was posted, since it was last
\* found quiet and lately.  Neither the cadence nor the quiet window, which a
\* restart starts anew, hides a lasting condition for longer than their sum, a
\* sleep, and what one tick may take with its dispatching and its reads; and a
\* balance that cannot be read delays the alerts on that balance only.
ReportedInTime ==
  \A n \in AlertNames :
    /\ since[n] # Never /\ clock >= since[n] + Latency
    /\ clock < wake   \* what is due now is over
    => /\ posted[n] # Never /\ n \notin lull
       /\ clock - posted[n] < RepostInterval[n] + Latency

\* A condition that lasts is not posted again within its quiet window, however
\* monitoring and time interleave, unless a pass found it quiet, which is how one
\* without the balance it needs sees it, or the process was restarted.
NotFlooded ==
  [][\A n \in AlertNames \ lull :
       posted'[n] # posted[n] /\ posted[n] # Never
       => clock - posted[n] >= RepostInterval[n]]_monitorVars
=============================================================================
