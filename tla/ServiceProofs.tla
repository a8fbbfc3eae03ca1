---------------------------- MODULE ServiceProofs ---------------------------
(***************************************************************************)
(* Theorems about the parts around the dispatch core: the monitoring half  *)
(* of the worker's loop, access to the operator's routes, the repair of    *)
(* access lists, and the limiter in front of every route.                  *)
(***************************************************************************)
EXTENDS AdminApi, AclHealer, Monitor, Collections

-----------------------------------------------------------------------------
(***************************************************************************)
(* Monitor: for any worlds and thresholds, any poll, monitoring and repost *)
(* intervals, ticks of any length, any number of faults and for all time.  *)
(***************************************************************************)

\* What a clock showed, or Never.
Time == Nat \cup {Never}

MonitorTypeOK ==
  /\ clock \in Nat /\ wake \in Nat /\ lastMonitor \in Time /\ lastMonitor <= clock
  /\ balances \subseteq OfBalances
  /\ lastPosted \in [AlertNames -> Time] /\ posted \in [AlertNames -> Time]
  /\ since \in [AlertNames -> Time] /\ passed \in Time /\ passed <= clock
  /\ \A n \in AlertNames : posted[n] <= clock /\ since[n] <= clock
  /\ lull \subseteq AlertNames

\* The longest time from one pass to the start of the last sleep before the next.
Gap == Max({MonitorInterval, MaxRead})

\* Each stage ends in time.
StagesEnd ==
  /\ clock <= wake
  /\ \/ stage = "asleep" /\ wake <= clock + Poll
     \/ stage = "working" /\ wake <= clock + MaxWork
     \/ /\ stage = "reading" /\ lastMonitor # Never
        /\ wake <= clock + MaxRead /\ wake <= lastMonitor + MaxRead

\* The condition of n began to hold no earlier than t, or the last pass did.
Recent(n, t) == since[n] >= t \/ passed >= t

\* What holds was seen, or will be seen soon.
PassesAreFrequent ==
  \A n \in AlertNames : since[n] # Never =>
    /\ stage = "asleep"  => Recent(n, wake - Poll - Gap)
    /\ stage = "working" => Recent(n, wake - MaxWork - Poll - Gap)
    /\ stage = "reading" => Recent(n, wake - MaxRead - MaxWork - Poll - Gap)
    /\ stage # "reading" /\ lastMonitor # Never => passed = lastMonitor \/ since[n] >= lastMonitor

\* The pass under way has seen the balances that were low when it began.
BalancesAreSeen ==
  stage = "reading" =>
    \A n \in OfBalances : since[n] # Never /\ since[n] < lastMonitor => n \in balances

\* The histories agree with the world and with the router's memory.
MemoryIsTrue ==
  \A n \in AlertNames :
    /\ since[n] # Never <=> n \in Firing
    /\ lastPosted[n] # Never => posted[n] = lastPosted[n] /\ n \notin lull
    /\ lastPosted[n] = Never /\ posted[n] # Never => n \in lull

\* What the last pass saw is reported.
SeenIsPosted ==
  \A n \in AlertNames :
    since[n] # Never /\ passed > since[n] =>
      /\ posted[n] # Never /\ n \notin lull
      /\ passed <= posted[n] \/ passed - posted[n] < RepostInterval[n]

MonitorInv ==
  /\ MonitorTypeOK /\ StagesEnd /\ PassesAreFrequent /\ BalancesAreSeen
  /\ MemoryIsTrue /\ SeenIsPosted

LEMMA MaxOfTwo ==
  ASSUME NEW a \in Int, NEW b \in Int
  PROVE  Max({a, b}) \in {a, b} /\ a <= Max({a, b}) /\ b <= Max({a, b})
<1>1. \E x \in {a, b} : \A y \in {a, b} : y <= x
  OBVIOUS
<1> QED
  BY <1>1 DEF Max

LEMMA GapIsLong == Gap \in Nat /\ MonitorInterval <= Gap /\ MaxRead <= Gap
BY MaxOfTwo, MonitorAssumption DEF Gap

LEMMA SameFiring == ASSUME UNCHANGED <<clock, world>> PROVE Firing' = Firing
BY DEF Firing, Fires, OverAge, Age, Available

LEMMA MonitorInitial == MonitorInit => MonitorInv
<1> SUFFICES ASSUME MonitorInit PROVE MonitorInv
  OBVIOUS
<1> USE MonitorAssumption, GapIsLong
<1>1. MonitorTypeOK
  BY DEF MonitorInit, MonitorTypeOK, Time, Never
<1>2. StagesEnd /\ PassesAreFrequent /\ BalancesAreSeen
  BY DEF MonitorInit, StagesEnd, PassesAreFrequent, BalancesAreSeen, Recent, Never
<1>3. MemoryIsTrue
  BY DEF MonitorInit, MemoryIsTrue, Never
<1>4. SeenIsPosted
  BY DEF MonitorInit, SeenIsPosted, Never
<1> QED
  BY <1>1, <1>2, <1>3, <1>4 DEF MonitorInv

LEMMA StillInTime == \A w, a, b, d \in Nat : a <= b /\ w <= a + d => w <= b + d
OBVIOUS

\* Time passes or the world changes, in whatever stage.
LEMMA ObservingKeeps ==
  ASSUME MonitorInv, Observe, clock' \in Nat, clock <= clock', clock' <= wake,
         UNCHANGED <<stage, wake, lastMonitor, balances, lastPosted, posted, passed, lull>>
  PROVE  MonitorInv'
<1> USE MonitorAssumption, GapIsLong
<1>0. /\ MonitorTypeOK /\ StagesEnd /\ PassesAreFrequent /\ BalancesAreSeen
      /\ MemoryIsTrue /\ SeenIsPosted
  BY DEF MonitorInv
<1>1. /\ since' \in [AlertNames -> Time]
      /\ \A n \in AlertNames : /\ since'[n] \in {Never, clock', since[n]}
                               /\ since'[n] # Never <=> n \in Firing'
  BY <1>0 DEF Observe, MonitorTypeOK, Time, Never
<1>2. MonitorTypeOK'
  BY <1>0, <1>1 DEF MonitorTypeOK, Time, Never
<1>3. StagesEnd'
  <2>1. clock \in Nat /\ wake \in Nat
    BY <1>0 DEF MonitorTypeOK
  <2>2. Poll \in Nat /\ MaxWork \in Nat /\ MaxRead \in Nat
    OBVIOUS
  <2>3. ASSUME NEW d \in Nat, wake <= clock + d PROVE wake <= clock' + d
    BY <2>1, <2>3, StillInTime, Zenon
  <2> QED
    BY <1>0, <2>2, <2>3, Zenon DEF StagesEnd
<1>4. PassesAreFrequent'
  <2> SUFFICES ASSUME NEW n \in AlertNames, since'[n] # Never
               PROVE  /\ stage = "asleep"  => Recent(n, wake - Poll - Gap)'
                      /\ stage = "working" => Recent(n, wake - MaxWork - Poll - Gap)'
                      /\ stage = "reading" => Recent(n, wake - MaxRead - MaxWork - Poll - Gap)'
                      /\ stage # "reading" /\ lastMonitor # Never =>
                           passed = lastMonitor \/ since'[n] >= lastMonitor
    BY DEF PassesAreFrequent
  <2>1. CASE since'[n] = since[n]
    <3>1. /\ stage = "asleep"  => Recent(n, wake - Poll - Gap)
          /\ stage = "working" => Recent(n, wake - MaxWork - Poll - Gap)
          /\ stage = "reading" => Recent(n, wake - MaxRead - MaxWork - Poll - Gap)
          /\ stage # "reading" /\ lastMonitor # Never => passed = lastMonitor \/ since[n] >= lastMonitor
      BY <1>0, <2>1 DEF PassesAreFrequent
    <3> QED
      BY <2>1, <3>1 DEF Recent
  <2>2. CASE since'[n] = clock'
    BY <1>0, <2>2 DEF StagesEnd, MonitorTypeOK, Recent, Time, Never
  <2> QED
    BY <1>1, <2>1, <2>2
<1>5. BalancesAreSeen'
  <2>1. \A n \in OfBalances : n \in AlertNames
    BY DEF AlertNames
  <2> QED
    BY <1>0, <1>1, <2>1 DEF BalancesAreSeen, MonitorTypeOK, Time, Never
<1>6. MemoryIsTrue'
  BY <1>0, <1>1 DEF MemoryIsTrue
<1>7. SeenIsPosted'
  BY <1>0, <1>1 DEF SeenIsPosted, MonitorTypeOK, Time, Never
<1> QED
  BY <1>2, <1>3, <1>4, <1>5, <1>6, <1>7 DEF MonitorInv

\* A tick begins, or a pass.
LEMMA StartTickKeeps ==
  ASSUME MonitorInv, StartTick
  PROVE  MonitorInv'
<1> USE MonitorAssumption, GapIsLong
<1>0. /\ MonitorTypeOK /\ StagesEnd /\ PassesAreFrequent /\ BalancesAreSeen
      /\ MemoryIsTrue /\ SeenIsPosted
  BY DEF MonitorInv
<1>1. PICK duration \in 0 .. MaxWork :
        /\ stage = "asleep" /\ clock = wake /\ stage' = "working" /\ wake' = clock + duration
        /\ UNCHANGED <<clock, world, lastMonitor, balances, lastPosted, since, posted, passed, lull>>
  BY DEF StartTick, Enter, Over
<1>2. MonitorTypeOK'
  BY <1>0, <1>1 DEF MonitorTypeOK
<1>3. StagesEnd'
  BY <1>0, <1>1 DEF StagesEnd, MonitorTypeOK
<1>4. PassesAreFrequent'
  BY <1>0, <1>1 DEF PassesAreFrequent, MonitorTypeOK, Recent, Time, Never
<1>5. BalancesAreSeen' /\ SeenIsPosted'
  BY <1>0, <1>1 DEF BalancesAreSeen, SeenIsPosted
<1>6. MemoryIsTrue'
  BY <1>0, <1>1, SameFiring DEF MemoryIsTrue
<1> QED
  BY <1>2, <1>3, <1>4, <1>5, <1>6 DEF MonitorInv

LEMMA StartMonitoringKeeps ==
  ASSUME MonitorInv, StartMonitoring
  PROVE  MonitorInv'
<1> USE MonitorAssumption, GapIsLong
<1>0. /\ MonitorTypeOK /\ StagesEnd /\ PassesAreFrequent /\ BalancesAreSeen
      /\ MemoryIsTrue /\ SeenIsPosted
  BY DEF MonitorInv
<1>1. PICK duration \in 0 .. MaxRead :
        /\ stage = "working" /\ clock = wake /\ stage' = "reading" /\ wake' = clock + duration
        /\ lastMonitor' = clock /\ balances' = Firing \cap OfBalances
        /\ UNCHANGED <<clock, world, lastPosted, since, posted, passed, lull>>
  BY DEF StartMonitoring, Enter, Over
<1>2. MonitorTypeOK'
  BY <1>0, <1>1 DEF MonitorTypeOK, Time
<1>3. StagesEnd'
  BY <1>0, <1>1 DEF StagesEnd, MonitorTypeOK, Never
<1>4. PassesAreFrequent'
  BY <1>0, <1>1 DEF PassesAreFrequent, MonitorTypeOK, Recent, Time, Never
<1>5. BalancesAreSeen'
  BY <1>0, <1>1 DEF BalancesAreSeen, MemoryIsTrue, AlertNames
<1>6. SeenIsPosted'
  BY <1>0, <1>1 DEF SeenIsPosted
<1>7. MemoryIsTrue'
  BY <1>0, <1>1, SameFiring DEF MemoryIsTrue
<1> QED
  BY <1>2, <1>3, <1>4, <1>5, <1>6, <1>7 DEF MonitorInv

\* A tick without a pass that was not due.
LEMMA TickOnlyKeeps ==
  ASSUME MonitorInv, TickOnly
  PROVE  MonitorInv'
<1> USE MonitorAssumption, GapIsLong
<1>0. /\ MonitorTypeOK /\ StagesEnd /\ PassesAreFrequent /\ BalancesAreSeen
      /\ MemoryIsTrue /\ SeenIsPosted
  BY DEF MonitorInv
<1>1. /\ stage = "working" /\ clock = wake /\ stage' = "asleep" /\ wake' = clock + Poll
      /\ lastMonitor # Never /\ ~(clock - lastMonitor >= MonitorInterval)
      /\ UNCHANGED <<clock, world, lastMonitor, balances, lastPosted, since, posted, passed, lull>>
  BY DEF TickOnly, SleepAgain, Enter, Over, ShouldMonitor
<1>2. MonitorTypeOK'
  BY <1>0, <1>1 DEF MonitorTypeOK
<1>3. StagesEnd'
  BY <1>0, <1>1 DEF StagesEnd, MonitorTypeOK
<1>4. PassesAreFrequent'
  <2> SUFFICES ASSUME NEW n \in AlertNames, since[n] # Never
               PROVE  Recent(n, wake' - Poll - Gap) /\ (passed = lastMonitor \/ since[n] >= lastMonitor)
    BY <1>1 DEF PassesAreFrequent, Recent
  <2>1. passed = lastMonitor \/ since[n] >= lastMonitor
    BY <1>0, <1>1 DEF PassesAreFrequent
  <2> QED
    BY <1>0, <1>1, <2>1 DEF MonitorTypeOK, Recent, Time, Never
<1>5. BalancesAreSeen' /\ SeenIsPosted'
  BY <1>0, <1>1 DEF BalancesAreSeen, SeenIsPosted
<1>6. MemoryIsTrue'
  BY <1>0, <1>1, SameFiring DEF MemoryIsTrue
<1> QED
  BY <1>2, <1>3, <1>4, <1>5, <1>6 DEF MonitorInv

\* What holds, holds undisturbed from now on only.
LEMMA Hindered ==
  ASSUME MonitorInv, NEW names \in SUBSET AlertNames, Hinder(names)
  PROVE  /\ since' \in [AlertNames -> Time]
         /\ \A n \in AlertNames : /\ since'[n] # Never <=> since[n] # Never
                                  /\ n \in names /\ since[n] # Never => since'[n] = clock
                                  /\ n \notin names => since'[n] = since[n]
                                  /\ since'[n] <= clock
BY DEF Hinder, MonitorInv, MonitorTypeOK, Time, Never

\* A tick that fails, in its work or in its reads: all alerts were hindered.
LEMMA FailureKeeps ==
  ASSUME MonitorInv, clock = wake, SleepAgain, Hinder(AlertNames),
         balances' \in {balances, {}},
         UNCHANGED <<clock, world, lastMonitor, lastPosted, posted, passed, lull>>
  PROVE  MonitorInv'
<1> USE MonitorAssumption, GapIsLong
<1>0. /\ MonitorTypeOK /\ StagesEnd /\ PassesAreFrequent /\ BalancesAreSeen
      /\ MemoryIsTrue /\ SeenIsPosted
  BY DEF MonitorInv
<1>1. stage' = "asleep" /\ wake' = clock + Poll
  BY DEF SleepAgain, Enter
<1>2. /\ since' \in [AlertNames -> Time]
      /\ \A n \in AlertNames : /\ since'[n] # Never <=> since[n] # Never
                               /\ since[n] # Never => since'[n] = clock
                               /\ since'[n] <= clock
  BY Hindered
<1>3. MonitorTypeOK'
  BY <1>0, <1>1, <1>2 DEF MonitorTypeOK
<1>4. StagesEnd'
  BY <1>0, <1>1 DEF StagesEnd, MonitorTypeOK
<1>5. PassesAreFrequent'
  BY <1>0, <1>1, <1>2 DEF PassesAreFrequent, MonitorTypeOK, Recent, Time, Never
<1>6. BalancesAreSeen'
  BY <1>1 DEF BalancesAreSeen
<1>7. SeenIsPosted'
  BY <1>0, <1>2 DEF SeenIsPosted, MonitorTypeOK, Time, Never
<1>8. MemoryIsTrue'
  BY <1>0, <1>2, SameFiring DEF MemoryIsTrue
<1> QED
  BY <1>3, <1>4, <1>5, <1>6, <1>7, <1>8 DEF MonitorInv

LEMMA PassKeeps ==
  ASSUME MonitorInv, NEW missed \in SUBSET AlertNames, TickAndMonitor(missed)
  PROVE  MonitorInv'
<1> USE MonitorAssumption, GapIsLong
<1>0. /\ MonitorTypeOK /\ StagesEnd /\ PassesAreFrequent /\ BalancesAreSeen
      /\ MemoryIsTrue /\ SeenIsPosted
  BY DEF MonitorInv
<1>1. PICK firing : firing = EvaluateAlerts(missed)
  OBVIOUS
<1>2. /\ stage = "reading" /\ clock = wake /\ stage' = "asleep" /\ wake' = clock + Poll
      /\ balances' = {} /\ passed' = lastMonitor
      /\ lastPosted' = [n \in AlertNames |-> IF n \in Posts(firing) THEN clock ELSE Remembered(firing)[n]]
      /\ posted' = [n \in AlertNames |-> IF n \in Posts(firing) THEN clock ELSE posted[n]]
      /\ lull' = (lull \cup (AlertNames \ firing)) \ Posts(firing)
      /\ Hinder(missed) /\ UNCHANGED <<clock, world, lastMonitor>>
  BY <1>1 DEF TickAndMonitor, SleepAgain, Enter, Over
<1>3. /\ since' \in [AlertNames -> Time]
      /\ \A n \in AlertNames : /\ since'[n] # Never <=> since[n] # Never
                               /\ n \in missed /\ since[n] # Never => since'[n] = clock
                               /\ n \notin missed => since'[n] = since[n]
                               /\ since'[n] <= clock
  BY <1>2, Hindered
<1>reading. /\ lastMonitor # Never /\ lastMonitor \in Nat /\ lastMonitor <= clock
            /\ clock <= lastMonitor + MaxRead /\ clock \in Nat
  BY <1>0, <1>2 DEF StagesEnd, MonitorTypeOK, Time
\* An alert fires and is due, fires within its quiet window, or does not fire.
<1>4. ASSUME NEW n \in AlertNames
      PROVE  \/ /\ n \in firing /\ n \in Posts(firing)
                /\ lastPosted'[n] = clock /\ posted'[n] = clock /\ n \notin lull'
             \/ /\ n \in firing /\ n \notin Posts(firing)
                /\ lastPosted[n] # Never /\ clock - lastPosted[n] < RepostInterval[n]
                /\ lastPosted'[n] = lastPosted[n] /\ posted'[n] = posted[n]
                /\ n \in lull' <=> n \in lull
             \/ /\ n \notin firing /\ lastPosted'[n] = Never /\ posted'[n] = posted[n] /\ n \in lull'
  <2>1. CASE n \in firing /\ n \in Posts(firing)
    BY <1>2, <2>1
  <2>2. CASE n \in firing /\ n \notin Posts(firing)
    <3>1. ~Due(n)
      BY <2>2 DEF Posts
    <3>2. lastPosted[n] # Never /\ clock - lastPosted[n] < RepostInterval[n]
      BY <1>0, <3>1 DEF Due, MonitorTypeOK, Time, Never
    <3> QED
      BY <1>2, <2>2, <3>2 DEF Remembered
  <2>3. CASE n \notin firing
    BY <1>2, <2>3 DEF Remembered, Posts
  <2> QED
    BY <2>1, <2>2, <2>3
<1>5. MonitorTypeOK'
  <2>1. lastPosted' \in [AlertNames -> Time] /\ posted' \in [AlertNames -> Time]
    <3>1. Remembered(firing) \in [AlertNames -> Time]
      BY <1>0 DEF Remembered, MonitorTypeOK, Time
    <3> QED
      BY <1>0, <1>2, <3>1 DEF MonitorTypeOK, Time
  <2>2. \A n \in AlertNames : posted'[n] <= clock
    BY <1>0, <1>4 DEF MonitorTypeOK, Time, Never
  <2>3. lull' \subseteq AlertNames
    BY <1>0, <1>2 DEF MonitorTypeOK
  <2>4. wake' \in Nat /\ passed' \in Time /\ passed' <= clock /\ balances' \subseteq OfBalances
    BY <1>2, <1>reading DEF Time
  <2> QED
    BY <1>0, <1>2, <1>3, <2>1, <2>2, <2>3, <2>4 DEF MonitorTypeOK
<1>6. StagesEnd' /\ BalancesAreSeen'
  BY <1>0, <1>2 DEF StagesEnd, BalancesAreSeen, MonitorTypeOK
<1>7. PassesAreFrequent'
  <2>1. passed' >= wake' - Poll - Gap
    BY <1>2, <1>reading
  <2> QED
    BY <1>2, <2>1 DEF PassesAreFrequent, Recent
<1>8. MemoryIsTrue'
  <2>1. Firing' = Firing
    BY <1>2, SameFiring
  <2>2. clock # Never
    BY <1>reading DEF Never
  <2> QED
    BY <1>0, <1>3, <1>4, <2>1, <2>2 DEF MemoryIsTrue
<1>9. SeenIsPosted'
  <2> SUFFICES ASSUME NEW n \in AlertNames, since'[n] # Never, lastMonitor > since'[n]
               PROVE  /\ posted'[n] # Never /\ n \notin lull'
                      /\ lastMonitor <= posted'[n] \/ lastMonitor - posted'[n] < RepostInterval[n]
    BY <1>2 DEF SeenIsPosted
  <2>1. n \notin missed /\ since'[n] = since[n] /\ since[n] # Never /\ since[n] < lastMonitor
    BY <1>3, <1>reading
  <2>2. n \in firing
    <3>1. CASE n \in OfBalances
      BY <1>0, <1>1, <1>2, <2>1, <3>1 DEF BalancesAreSeen, EvaluateAlerts
    <3>2. CASE n \notin OfBalances
      BY <1>0, <1>1, <2>1, <3>2 DEF MemoryIsTrue, EvaluateAlerts
    <3> QED
      BY <3>1, <3>2
  <2>3. lastPosted[n] # Never => posted[n] = lastPosted[n] /\ n \notin lull
    BY <1>0 DEF MemoryIsTrue
  <2>4. lastPosted[n] \in Time /\ RepostInterval[n] \in Nat
    BY <1>0 DEF MonitorTypeOK
  <2>5. CASE posted'[n] = clock /\ n \notin lull'
    BY <1>reading, <2>5 DEF Never
  <2>6. CASE /\ lastPosted[n] # Never /\ clock - lastPosted[n] < RepostInterval[n]
             /\ posted'[n] = posted[n] /\ (n \in lull' <=> n \in lull)
    BY <1>reading, <2>3, <2>4, <2>6 DEF Time
  <2> QED
    BY <1>4, <2>2, <2>5, <2>6
<1> QED
  BY <1>5, <1>6, <1>7, <1>8, <1>9 DEF MonitorInv

LEMMA RestartKeeps ==
  ASSUME MonitorInv, RestartWorker
  PROVE  MonitorInv'
<1> USE MonitorAssumption, GapIsLong
<1>0. MonitorTypeOK /\ MemoryIsTrue
  BY DEF MonitorInv
<1>1. /\ stage' = "asleep" /\ wake' = clock /\ lastMonitor' = Never /\ balances' = {}
      /\ lull' = AlertNames /\ lastPosted' = [n \in AlertNames |-> Never]
      /\ UNCHANGED <<clock, world, posted, passed>>
  BY DEF RestartWorker
<1>2. /\ since' \in [AlertNames -> Time]
      /\ \A n \in AlertNames : /\ since'[n] # Never <=> since[n] # Never
                               /\ since[n] # Never => since'[n] = clock
                               /\ since'[n] <= clock
  BY Hindered DEF RestartWorker
<1>3. MonitorTypeOK'
  BY <1>0, <1>1, <1>2 DEF MonitorTypeOK, Time, Never
<1>4. StagesEnd' /\ BalancesAreSeen'
  BY <1>0, <1>1 DEF StagesEnd, BalancesAreSeen, MonitorTypeOK
<1>5. PassesAreFrequent'
  BY <1>0, <1>1, <1>2 DEF PassesAreFrequent, MonitorTypeOK, Recent
<1>6. MemoryIsTrue'
  BY <1>0, <1>1, <1>2, SameFiring DEF MemoryIsTrue
<1>7. SeenIsPosted'
  BY <1>0, <1>1, <1>2 DEF SeenIsPosted, MonitorTypeOK, Time, Never
<1> QED
  BY <1>3, <1>4, <1>5, <1>6, <1>7 DEF MonitorInv

LEMMA MonitorInvariant == MonitorSpec => []MonitorInv
<1>1. ASSUME MonitorInv, [MonitorNext]_monitorVars PROVE MonitorInv'
  <2>0. MonitorTypeOK /\ StagesEnd
    BY <1>1 DEF MonitorInv
  <2>1. CASE StartTick
    BY <1>1, <2>1, StartTickKeeps
  <2>2. CASE TickFails
    <3>1. /\ clock = wake /\ SleepAgain /\ Hinder(AlertNames) /\ balances' \in {balances, {}}
          /\ UNCHANGED <<clock, world, lastMonitor, lastPosted, posted, passed, lull>>
      BY <2>2 DEF TickFails, Over
    <3> QED
      BY <1>1, <3>1, FailureKeeps
  <2>3. CASE TickOnly
    BY <1>1, <2>3, TickOnlyKeeps
  <2>4. CASE StartMonitoring
    BY <1>1, <2>4, StartMonitoringKeeps
  <2>5. CASE MonitorFails
    <3>1. /\ clock = wake /\ SleepAgain /\ Hinder(AlertNames) /\ balances' \in {balances, {}}
          /\ UNCHANGED <<clock, world, lastMonitor, lastPosted, posted, passed, lull>>
      BY <2>5 DEF MonitorFails, Over
    <3> QED
      BY <1>1, <3>1, FailureKeeps
  <2>6. CASE PassTime
    <3>1. /\ clock < wake /\ clock' = clock + 1 /\ Observe
          /\ UNCHANGED <<stage, wake, lastMonitor, balances, lastPosted, posted, passed, lull>>
      BY <2>6 DEF PassTime
    <3>2. clock' \in Nat /\ clock <= clock' /\ clock' <= wake
      BY <2>0, <3>1 DEF MonitorTypeOK
    <3> QED
      BY <1>1, <3>1, <3>2, ObservingKeeps
  <2>7. CASE Change
    <3>1. /\ Observe
          /\ UNCHANGED <<clock, stage, wake, lastMonitor, balances, lastPosted, posted, passed, lull>>
      BY <2>7 DEF Change
    <3>2. clock' \in Nat /\ clock <= clock' /\ clock' <= wake
      BY <2>0, <3>1 DEF MonitorTypeOK, StagesEnd
    <3> QED
      BY <1>1, <3>1, <3>2, ObservingKeeps
  <2>8. CASE RestartWorker
    BY <1>1, <2>8, RestartKeeps
  <2>9. ASSUME NEW missed \in {{}, OfFloat, OfSol, OfBalances}, TickAndMonitor(missed)
        PROVE  MonitorInv'
    <3>1. missed \in SUBSET AlertNames
      BY DEF AlertNames, OfBalances
    <3> QED
      BY <1>1, <2>9, <3>1, PassKeeps
  <2>10. CASE UNCHANGED monitorVars
    <3>1. UNCHANGED <<clock, world, stage, wake, lastMonitor, balances, lastPosted, since, posted, passed, lull>>
      BY <2>10 DEF monitorVars
    <3>2. MonitorTypeOK' /\ StagesEnd' /\ BalancesAreSeen' /\ SeenIsPosted'
      BY <1>1, <3>1 DEF MonitorInv, MonitorTypeOK, StagesEnd, BalancesAreSeen, SeenIsPosted
    <3>3. PassesAreFrequent'
      BY <1>1, <3>1 DEF MonitorInv, PassesAreFrequent, Recent
    <3>4. MemoryIsTrue'
      BY <1>1, <3>1, SameFiring DEF MonitorInv, MemoryIsTrue
    <3> QED
      BY <3>2, <3>3, <3>4 DEF MonitorInv
  <2> QED
    BY <1>1, <2>1, <2>2, <2>3, <2>4, <2>5, <2>6, <2>7, <2>8, <2>9, <2>10 DEF MonitorNext
<1> QED
  BY <1>1, MonitorInitial, PTL DEF MonitorSpec

-----------------------------------------------------------------------------

\* The cadence of shouldMonitor and the quiet window of SlackAlertRouter never
\* hide a lasting condition for longer than their sum, a sleep, and the dispatching
\* and the reads of one tick, however long these take, and whatever fails, restarts
\* or cannot be read in between.
THEOREM LastingConditionsAreReported == MonitorSpec => []ReportedInTime
<1> USE MonitorAssumption, GapIsLong
<1>1. ASSUME MonitorInv, NEW n \in AlertNames, since[n] # Never, clock < wake,
             clock >= since[n] + Latency
      PROVE  /\ posted[n] # Never /\ n \notin lull
             /\ clock - posted[n] < RepostInterval[n] + Latency
  <2>0. /\ clock \in Nat /\ wake \in Nat /\ since[n] \in Nat /\ posted[n] \in Int /\ passed \in Int
        /\ RepostInterval[n] \in Nat
    BY <1>1 DEF MonitorInv, MonitorTypeOK, Time, Never
  <2>1. Latency = Gap + Poll + MaxWork + MaxRead
    BY DEF Latency, Gap
  <2>2. PICK late \in Int : wake - late > clock - Latency /\ wake - late >= clock - Latency
                            /\ (since[n] >= wake - late \/ passed >= wake - late)
    <3>1. CASE stage = "asleep"
      <4>1. since[n] >= wake - (Poll + Gap) \/ passed >= wake - (Poll + Gap)
        BY <1>1, <2>0, <3>1 DEF MonitorInv, PassesAreFrequent, Recent
      <4> QED
        BY <1>1, <2>0, <2>1, <4>1
    <3>2. CASE stage = "working"
      <4>1. since[n] >= wake - (MaxWork + Poll + Gap) \/ passed >= wake - (MaxWork + Poll + Gap)
        BY <1>1, <2>0, <3>2 DEF MonitorInv, PassesAreFrequent, Recent
      <4> QED
        BY <1>1, <2>0, <2>1, <4>1
    <3>3. CASE stage = "reading"
      <4>1. \/ since[n] >= wake - (MaxRead + MaxWork + Poll + Gap)
            \/ passed >= wake - (MaxRead + MaxWork + Poll + Gap)
        BY <1>1, <2>0, <3>3 DEF MonitorInv, PassesAreFrequent, Recent
      <4> QED
        BY <1>1, <2>0, <2>1, <4>1
    <3> QED
      BY <1>1, <3>1, <3>2, <3>3 DEF MonitorInv, StagesEnd
  <2>3. passed > since[n] /\ clock - passed < Latency
    BY <1>1, <2>0, <2>1, <2>2
  <2>4. /\ posted[n] # Never /\ n \notin lull
        /\ passed <= posted[n] \/ passed - posted[n] < RepostInterval[n]
    BY <1>1, <2>3 DEF MonitorInv, SeenIsPosted
  <2>5. clock - posted[n] < RepostInterval[n] + Latency
    BY <2>0, <2>1, <2>3, <2>4
  <2> QED
    BY <2>4, <2>5
<1>2. MonitorInv => ReportedInTime
  BY <1>1 DEF ReportedInTime
<1> QED
  BY <1>2, MonitorInvariant, PTL

\* The router posts a condition that lasts once per quiet window at most.
THEOREM LastingConditionsDoNotFlood == MonitorSpec => NotFlooded
<1>1. ASSUME MonitorInv, [MonitorNext]_monitorVars, NEW n \in AlertNames \ lull,
             posted'[n] # posted[n], posted[n] # Never
      PROVE  clock - posted[n] >= RepostInterval[n]
  <2>1. PICK missed : TickAndMonitor(missed)
    BY <1>1 DEF MonitorNext, StartTick, TickFails, TickOnly, StartMonitoring, MonitorFails, PassTime,
                Change, RestartWorker, monitorVars
  <2>2. PICK firing : /\ posted' = [m \in AlertNames |-> IF m \in Posts(firing) THEN clock ELSE posted[m]]
    BY <2>1 DEF TickAndMonitor
  <2>3. n \in Posts(firing)
    BY <1>1, <2>2
  <2>4. Due(n)
    BY <2>3 DEF Posts
  <2>5. lastPosted[n] # Never /\ posted[n] = lastPosted[n]
    BY <1>1 DEF MonitorInv, MemoryIsTrue
  <2> QED
    BY <2>4, <2>5 DEF Due
<1>2. MonitorInv /\ [MonitorNext]_monitorVars =>
        [\A n \in AlertNames \ lull :
           posted'[n] # posted[n] /\ posted[n] # Never
           => clock - posted[n] >= RepostInterval[n]]_monitorVars
  BY <1>1
<1> QED
  BY <1>2, MonitorInvariant, PTL DEF MonitorSpec, NotFlooded

-----------------------------------------------------------------------------
(***************************************************************************)
(* AdminApi: for any callers, any limiter, any lifetimes and any cap.      *)
(***************************************************************************)

\* A nonce is unused, or being checked, or used, and each of them once.
NoncesAreSpent ==
  /\ \A e \in live : e.id \in 1 .. issued
  /\ \A r \in checking : r.nonce \in 1 .. issued /\ \A e \in live : e.id # r.nonce
  /\ \A r, q \in checking : r.nonce = q.nonce => r = q
  /\ \A w \in writes : /\ w.nonce \in 1 .. issued
                       /\ \A e \in live : e.id # w.nonce
                       /\ \A r \in checking : r.nonce # w.nonce
  /\ \A w, v \in writes : w.nonce = v.nonce => w = v

\* Nobody but the wallet signs.
WalletSigned ==
  /\ \A r \in checking : r.sig \in wallet
  /\ \A w \in writes : <<w.action, w.nonce>> \in wallet

\* A read token stems from a session.
TokensAreSessions ==
  \A e \in tokens : \E w \in writes : w.action = "session" /\ w.n = e.id /\ e.exp = w.at + ReadTtl

ReadingIsAllowed ==
  reading # None =>
    \E w \in writes : w.action = "session" /\ w.n = reading /\ time < w.at + ReadTtl

AdminInv ==
  /\ issued \in Nat /\ NoncesAreSpent /\ WalletSigned /\ TokensAreSessions /\ ReadingIsAllowed

LEMMA GcOnlyDrops == ASSUME NEW store PROVE GcStore(store) \subseteq store
BY DEF GcStore, Unexpired, Newest

LEMMA AdminInitial == AdminInit => AdminInv
BY DEF AdminInit, AdminInv, NoncesAreSpent, WalletSigned, TokensAreSessions, ReadingIsAllowed

\* Steps that spend no nonce and carry nothing out.
LEMMA NothingSpent ==
  ASSUME AdminInv, live' \subseteq live, tokens' \subseteq tokens, checking' \subseteq checking,
         wallet \subseteq wallet', reading' = None, UNCHANGED <<issued, writes>>
  PROVE  AdminInv'
<1>1. NoncesAreSpent'
  BY DEF AdminInv, NoncesAreSpent
<1>2. WalletSigned' /\ TokensAreSessions' /\ ReadingIsAllowed'
  BY DEF AdminInv, WalletSigned, TokensAreSessions, ReadingIsAllowed
<1> QED
  BY <1>1, <1>2 DEF AdminInv

LEMMA ChallengeKeeps ==
  ASSUME AdminInv, NEW ip, GetChallenge(ip)
  PROVE  AdminInv'
<1>1. PICK e : e = [id |-> issued + 1, exp |-> time + NonceTtl]
  OBVIOUS
<1>2. /\ e.id = issued + 1 /\ issued' = issued + 1 /\ reading' = None
      /\ live' \subseteq live \cup {e} /\ tokens' \subseteq tokens
      /\ UNCHANGED <<wallet, checking, writes>>
  BY <1>1, GcOnlyDrops DEF GetChallenge, IssueNonce
<1>3. issued \in Nat /\ \A i \in 1 .. issued : i \in 1 .. issued + 1 /\ i # issued + 1
  BY DEF AdminInv
<1>4. NoncesAreSpent'
  <2>1. \A f \in live' : f = e \/ f \in live
    BY <1>2
  <2>2. \A f \in live' : f.id \in 1 .. issued'
    BY <1>2, <1>3, <2>1 DEF AdminInv, NoncesAreSpent
  <2>3. \A r \in checking : r.nonce \in 1 .. issued' /\ \A f \in live' : f.id # r.nonce
    BY <1>2, <1>3, <2>1 DEF AdminInv, NoncesAreSpent
  <2>4. \A w \in writes : w.nonce \in 1 .. issued' /\ \A f \in live' : f.id # w.nonce
    BY <1>2, <1>3, <2>1 DEF AdminInv, NoncesAreSpent
  <2> QED
    BY <1>2, <2>2, <2>3, <2>4 DEF AdminInv, NoncesAreSpent
<1>5. WalletSigned' /\ TokensAreSessions' /\ ReadingIsAllowed'
  BY <1>2 DEF AdminInv, WalletSigned, TokensAreSessions, ReadingIsAllowed
<1> QED
  BY <1>2, <1>3, <1>4, <1>5 DEF AdminInv

LEMMA PostKeeps ==
  ASSUME AdminInv, NEW ip, NEW action, NEW id \in 1 .. issued, NEW signature \in wallet,
         PostAdmin(ip, action, id, signature)
  PROVE  AdminInv'
<1>1. /\ live' = {e \in live : e.id # id} /\ reading' = None
      /\ UNCHANGED <<tokens, issued, wallet, writes>>
  BY DEF PostAdmin, Consumed
<1>2. CASE ~Usable(id)
  <2>1. checking' = checking
    BY <1>2 DEF PostAdmin
  <2> QED
    BY <1>1, <2>1, NothingSpent
<1>3. CASE Usable(id)
  <2>1. PICK q : q = [action |-> action, nonce |-> id, sig |-> signature]
    OBVIOUS
  <2>2. checking' = checking \cup {q} /\ q.nonce = id /\ q.sig = signature
    BY <1>3, <2>1 DEF PostAdmin
  <2>3. PICK e \in live : e.id = id
    BY <1>3 DEF Usable, Ids
  <2>4. (\A r \in checking : r.nonce # id) /\ (\A w \in writes : w.nonce # id)
    BY <2>3 DEF AdminInv, NoncesAreSpent
  <2>5. NoncesAreSpent'
    <3>1. \A f \in live' : f \in live /\ f.id # id
      BY <1>1
    <3>2. \A r \in checking' : r = q \/ r \in checking
      BY <2>2
    <3>3. \A r \in checking' : r.nonce \in 1 .. issued /\ \A f \in live' : f.id # r.nonce
      BY <2>2, <3>1, <3>2 DEF AdminInv, NoncesAreSpent
    <3>4. \A r, p \in checking' : r.nonce = p.nonce => r = p
      BY <2>2, <2>4, <3>2 DEF AdminInv, NoncesAreSpent
    <3>5. \A w \in writes : /\ w.nonce \in 1 .. issued /\ (\A f \in live' : f.id # w.nonce)
                            /\ \A r \in checking' : r.nonce # w.nonce
      BY <2>2, <2>4, <3>1, <3>2 DEF AdminInv, NoncesAreSpent
    <3> QED
      BY <1>1, <3>1, <3>3, <3>4, <3>5 DEF AdminInv, NoncesAreSpent
  <2>6. WalletSigned'
    BY <1>1, <2>2 DEF AdminInv, WalletSigned
  <2>7. TokensAreSessions' /\ ReadingIsAllowed'
    BY <1>1 DEF AdminInv, TokensAreSessions, ReadingIsAllowed
  <2> QED
    BY <1>1, <2>5, <2>6, <2>7 DEF AdminInv
<1> QED
  BY <1>2, <1>3

LEMMA AuthorizeKeeps ==
  ASSUME AdminInv, NEW r \in checking, Authorize(r)
  PROVE  AdminInv'
<1>1. PICK n : n = Cardinality(writes) + 1
  OBVIOUS
<1>2. PICK w : w = [action |-> r.action, nonce |-> r.nonce, at |-> time, n |-> n]
  OBVIOUS
<1>3. /\ r.sig = <<r.action, r.nonce>> /\ checking' = checking \ {r} /\ reading' = None
      /\ writes' = writes \cup {w} /\ UNCHANGED <<time, issued, wallet>>
  BY <1>1, <1>2 DEF Authorize, Verifies
<1>4. w.action = r.action /\ w.nonce = r.nonce /\ w.at = time /\ w.n = n
  BY <1>2
<1>5. /\ live' \subseteq live
      /\ \A e \in tokens' : e \in tokens \/ (r.action = "session" /\ e.id = n /\ e.exp = time + ReadTtl)
  <2>1. CASE r.action = "session"
    BY <1>1, <2>1, GcOnlyDrops DEF Authorize, IssueToken
  <2>2. CASE r.action # "session"
    BY <2>2 DEF Authorize
  <2> QED
    BY <2>1, <2>2
<1>6. NoncesAreSpent'
  <2>1. \A v \in writes' : v = w \/ v \in writes
    BY <1>3
  <2>2. /\ r.nonce \in 1 .. issued /\ (\A e \in live : e.id # r.nonce)
        /\ (\A q \in checking' : q \in checking /\ q.nonce # r.nonce)
        /\ (\A v \in writes : v.nonce # r.nonce)
    BY <1>3 DEF AdminInv, NoncesAreSpent
  <2>3. \A v \in writes' : /\ v.nonce \in 1 .. issued /\ (\A e \in live' : e.id # v.nonce)
                           /\ \A q \in checking' : q.nonce # v.nonce
    BY <1>4, <1>5, <2>1, <2>2 DEF AdminInv, NoncesAreSpent
  <2>4. \A u, v \in writes' : u.nonce = v.nonce => u = v
    BY <1>4, <2>1, <2>2 DEF AdminInv, NoncesAreSpent
  <2>5. /\ \A e \in live' : e.id \in 1 .. issued
        /\ \A q \in checking' : q.nonce \in 1 .. issued /\ \A e \in live' : e.id # q.nonce
        /\ \A q, p \in checking' : q.nonce = p.nonce => q = p
    BY <1>5, <2>2 DEF AdminInv, NoncesAreSpent
  <2> QED
    BY <1>3, <2>3, <2>4, <2>5 DEF NoncesAreSpent
<1>7. WalletSigned'
  BY <1>3, <1>4 DEF AdminInv, WalletSigned
<1>8. TokensAreSessions'
  BY <1>3, <1>4, <1>5 DEF AdminInv, TokensAreSessions
<1>9. ReadingIsAllowed'
  BY <1>3 DEF ReadingIsAllowed
<1> QED
  BY <1>3, <1>6, <1>7, <1>8, <1>9 DEF AdminInv

LEMMA StatusKeeps ==
  ASSUME AdminInv, NEW ip, NEW id, GetStatus(ip, id)
  PROVE  AdminInv'
<1>1. tokens' \subseteq tokens /\ UNCHANGED <<time, live, issued, wallet, checking, writes>>
  BY DEF GetStatus
<1>2. NoncesAreSpent' /\ WalletSigned' /\ TokensAreSessions'
  BY <1>1 DEF AdminInv, NoncesAreSpent, WalletSigned, TokensAreSessions
<1>3. ReadingIsAllowed'
  <2>1. CASE ~TokenGood(id)
    BY <2>1 DEF GetStatus, ReadingIsAllowed
  <2>2. CASE TokenGood(id)
    <3>1. reading' = id
      BY <2>2 DEF GetStatus
    <3>2. PICK e \in tokens : e.id = id /\ e.exp > time
      BY <2>2 DEF TokenGood, Ids, EntryOf
    <3>3. PICK w \in writes : w.action = "session" /\ w.n = e.id /\ e.exp = w.at + ReadTtl
      BY DEF AdminInv, TokensAreSessions
    <3>4. time < w.at + ReadTtl
      BY <3>2, <3>3
    <3> QED
      BY <1>1, <3>1, <3>2, <3>3, <3>4 DEF ReadingIsAllowed
  <2> QED
    BY <2>1, <2>2
<1> QED
  BY <1>1, <1>2, <1>3 DEF AdminInv

\* However requests to the operator's routes are repeated, reordered or sent to
\* another route, each is carried out only with a signature of the wallet for
\* that route over a nonce that counts once, and a read only within the lifetime
\* of the session it belongs to.
THEOREM OnlyTheWalletOperates == AdminSpec => []AccessComesFromTheWallet
<1>1. ASSUME AdminInv, [AdminNext]_adminVars PROVE AdminInv'
  <2>1. ASSUME NEW ip \in Addresses, GetChallenge(ip) PROVE AdminInv'
    BY <1>1, <2>1, ChallengeKeeps
  <2>2. ASSUME NEW ip \in Addresses, NEW action \in Actions, Refuse(ip, action) PROVE AdminInv'
    BY <1>1, <2>2, NothingSpent DEF Refuse
  <2>3. ASSUME NEW ip \in Addresses, NEW id, GetStatus(ip, id) PROVE AdminInv'
    BY <1>1, <2>3, StatusKeeps
  <2>4. ASSUME NEW ip \in Addresses, NEW id \in 1 .. issued, NEW action \in Actions,
               NEW signature \in wallet, PostAdmin(ip, action, id, signature)
        PROVE  AdminInv'
    BY <1>1, <2>4, PostKeeps
  <2>5. ASSUME NEW action, NEW id, WalletSigns(action, id) PROVE AdminInv'
    BY <1>1, <2>5, NothingSpent DEF WalletSigns
  <2>6. ASSUME NEW r \in checking, Authorize(r) PROVE AdminInv'
    BY <1>1, <2>6, AuthorizeKeeps
  <2>7. ASSUME NEW r \in checking, RejectSignature(r) PROVE AdminInv'
    BY <1>1, <2>7, NothingSpent DEF RejectSignature
  <2>8. CASE Later
    BY <1>1, <2>8, NothingSpent DEF Later
  <2>9. CASE RestartAdmin
    BY <1>1, <2>9, NothingSpent DEF RestartAdmin
  <2>10. CASE UNCHANGED adminVars
    BY <1>1, <2>10 DEF adminVars, AdminInv, NoncesAreSpent, WalletSigned, TokensAreSessions, ReadingIsAllowed
  <2> QED
    BY <1>1, <2>1, <2>2, <2>3, <2>4, <2>5, <2>6, <2>7, <2>8, <2>9, <2>10 DEF AdminNext
<1>2. AdminInv => AccessComesFromTheWallet
  BY DEF AdminInv, NoncesAreSpent, WalletSigned, ReadingIsAllowed, AccessComesFromTheWallet
<1> QED
  BY <1>1, <1>2, AdminInitial, PTL DEF AdminSpec

-----------------------------------------------------------------------------
(***************************************************************************)
(* AclHealer: for any ANTs, any number of healers, any page capacity, any  *)
(* batch and any number of attempts, crashes and runs of the CLI.          *)
(***************************************************************************)

Owners == {"cold", "claimant", "other"}
Listed == Ants \cup {"own"} \cup {SetToSeq(Ants)[i] : i \in 1 .. Cardinality(Ants)}
Asset  == [owner : Owners, known : Owners, stale : BOOLEAN]
Item   == [ant : Ants, attempts : Nat]
Notes  == {"", "healed", "already", "aborted", "gave up"}
Row    == [place : Nat, attempts : Nat, note : Notes]

HealTypeOK ==
  /\ owner \in [Ants -> Owners] /\ known \in [Ants -> Owners]
  /\ acl \in [cold : Seq(Seq(Listed)), claimant : Seq(Seq(Listed))]
  /\ \A t \in sent : t.ant \in Ants
  /\ row \in [Ants -> Row]
  /\ \E m \in Nat : \A a \in Ants : row[a].place <= m
  /\ work \in [Healers -> Seq(Item)]
  /\ step \in [Healers -> {Start, [pc |-> "sent"]} \cup {[pc |-> "read", asset |-> x] : x \in Asset}]

\* Only ANTs that were transferred are looked at.
WorkIsConfirmed ==
  /\ \A a \in Ants : row[a].place > 0 \/ row[a].note # "" => owner[a] # "cold"
  /\ \A h \in Healers : \A i \in DOMAIN work[h] : owner[work[h][i].ant] # "cold"
  /\ \A h \in Healers : step[h] # Start => work[h] # <<>>

\* An asset read in order stays so while the claimant has it.
ReadStillHolds ==
  \A h \in Healers :
    /\ step[h].pc = "read" /\ step[h].asset.known = "claimant" /\ ~step[h].asset.stale
    /\ owner[Ant(h)] = "claimant"
    => known[Ant(h)] = "claimant" /\ Ant(h) \notin delegated

HealInv == HealTypeOK /\ WorkIsConfirmed /\ ReadStillHolds /\ HealedStaysHealed

LEMMA GreatestOne ==
  ASSUME NEW n \in Nat, NEW T \in SUBSET (0 .. n), T # {}
  PROVE  Max(T) \in T /\ \A y \in T : y <= Max(T)
<1> DEFINE U == {n - x : x \in T}
           R == OpToRel(<, Nat)
<1>1. U \subseteq Nat /\ U # {}
  <2>1. \A x \in T : n - x \in Nat
    OBVIOUS
  <2> QED
    BY <2>1
<1>2. \E m \in U : \A k \in U : ~(<<k, m>> \in R)
  BY <1>1, NatLessThanWellFounded, WFMin
<1>3. \A k, m \in Nat : k < m => <<k, m>> \in R
  BY DEF OpToRel
<1> HIDE DEF R
<1>4. PICK m \in U : \A k \in U : ~(k < m)
  BY <1>1, <1>2, <1>3
<1>5. PICK x \in T : m = n - x
  BY <1>4
<1>6. \A y \in T : ~(n - y < n - x)
  BY <1>4, <1>5
<1> HIDE DEF U
<1>7. \A y \in T : x >= y
  <2>1. \A k, y, z \in Nat : ~(k - y < k - z) => z >= y
    OBVIOUS
  <2>2. \A y \in T : y \in Nat
    OBVIOUS
  <2> QED
    BY <1>6, <2>1, <2>2
<1> QED
  BY <1>7 DEF Max

LEMMA HealInitial == HealInit => HealInv
<1> SUFFICES ASSUME HealInit PROVE HealInv
  OBVIOUS
<1>1. Cardinality(Ants) \in Nat
  BY HealerAssumption, FS_CardinalityType
<1>2. ColdPages \in Seq(Seq(Listed))
  <2>1. \A i \in 1 .. Cardinality(Ants) : <<SetToSeq(Ants)[i]>> \in Seq(Listed)
    BY DEF Listed
  <2>2. PICK n \in Nat : n = Cardinality(Ants)
    BY <1>1
  <2>3. ColdPages \in [1 .. n -> Seq(Listed)]
    BY <2>1, <2>2 DEF ColdPages
  <2> QED
    BY <2>3
<1>3. acl \in [cold : Seq(Seq(Listed)), claimant : Seq(Seq(Listed))]
  <2>1. <<>> \in Seq(Listed) /\ <<"own">> \in Seq(Listed)
    BY DEF Listed
  <2>2. <<>> \in Seq(Seq(Listed)) /\ <<<<>>>> \in Seq(Seq(Listed)) /\ <<<<"own">>>> \in Seq(Seq(Listed))
    BY <2>1
  <2>3. PICK pages \in Seq(Seq(Listed)) : acl = [cold |-> ColdPages, claimant |-> pages]
    BY <2>2 DEF HealInit
  <2> QED
    BY <1>2, <2>3
<1>4. /\ row = [a \in Ants |-> [place |-> 0, attempts |-> 0, note |-> ""]]
      /\ work = [h \in Healers |-> <<>>] /\ step = [h \in Healers |-> Start]
      /\ owner = [a \in Ants |-> "cold"] /\ known = [a \in Ants |-> "cold"] /\ sent = {}
  BY DEF HealInit
<1>a. \A a \in Ants : row[a].place = 0 /\ row[a].note = ""
  BY <1>4
<1>b. \A h \in Healers : work[h] = <<>> /\ step[h] = Start
  BY <1>4
<1>5. HealTypeOK
  <2>1. \E m \in Nat : \A a \in Ants : row[a].place <= m
    <3>1. 0 \in Nat /\ 0 <= 0
      OBVIOUS
    <3>2. \A a \in Ants : row[a].place <= 0
      BY <1>a, <3>1
    <3> QED
      BY <3>1, <3>2
  <2>2. row \in [Ants -> Row]
    <3>1. [place |-> 0, attempts |-> 0, note |-> ""] \in Row
      BY DEF Row, Notes
    <3> QED
      BY <1>4, <3>1
  <2>4. work \in [Healers -> Seq(Item)]
    <3>1. <<>> \in Seq(Item)
      OBVIOUS
    <3> QED
      BY <1>4, <3>1
  <2>3. owner \in [Ants -> Owners] /\ known \in [Ants -> Owners]
    BY <1>4 DEF Owners
  <2> QED
    BY <1>3, <1>4, <2>1, <2>2, <2>3, <2>4 DEF HealTypeOK
<1>6. WorkIsConfirmed
  <2>1. \A a \in Ants : ~(row[a].place > 0) /\ row[a].note = ""
    <3>1. ~(0 > 0)
      OBVIOUS
    <3> QED
      BY <1>a, <3>1
  <2>2. \A h \in Healers : DOMAIN work[h] = {} /\ step[h] = Start
    BY <1>b
  <2> QED
    BY <2>1, <2>2 DEF WorkIsConfirmed
<1>7. ReadStillHolds
  BY <1>4 DEF ReadStillHolds, Start
<1>8. HealedStaysHealed
  BY <1>4 DEF HealedStaysHealed
<1> QED
  BY <1>5, <1>6, <1>7, <1>8 DEF HealInv

LEMMA SwapRemovedIsFewer ==
  ASSUME NEW S, NEW list \in Seq(S), NEW a, a \in ToSet(list)
  PROVE  SwapRemoved(list, a) \in Seq(S) /\ ToSet(SwapRemoved(list, a)) \subseteq ToSet(list)
<1>1. PICK n \in Nat : n = Len(list) /\ n # 0 /\ DOMAIN list = 1 .. n
  BY DEF ToSet
<1>2. PICK i \in 1 .. n : i = CHOOSE j \in 1 .. n : list[j] = a
  BY <1>1 DEF ToSet
<1>3. PICK l : l = [list EXCEPT ![i] = list[n]]
  OBVIOUS
<1>4. l \in Seq(S) /\ Len(l) = n /\ \A j \in 1 .. n : l[j] \in ToSet(list)
  <2>1. \A j \in 1 .. n : list[j] \in S
    BY <1>1
  <2>2. l \in [1 .. n -> S]
    BY <1>1, <1>3, <2>1
  <2>3. l \in Seq(S) /\ Len(l) = n
    BY <1>1, <2>2
  <2> QED
    BY <1>1, <1>3, <2>3 DEF ToSet
<1>5. SwapRemoved(list, a) = SubSeq(l, 1, n - 1)
  BY <1>1, <1>2, <1>3 DEF SwapRemoved
<1>6. PICK m \in Seq(S) : m = SubSeq(l, 1, n - 1) /\ Len(m) = n - 1 /\ \A j \in 1 .. n - 1 : m[j] = l[j]
  <2>1. PICK k \in Nat : k = n - 1
    BY <1>1
  <2>2. SubSeq(l, 1, k) \in Seq(S)
    BY <1>4, <2>1
  <2>3. Len(SubSeq(l, 1, k)) = k /\ \A j \in 1 .. k : SubSeq(l, 1, k)[j] = l[j]
    BY <1>1, <1>4, <2>1
  <2> QED
    BY <2>1, <2>2, <2>3
<1>7. ToSet(m) \subseteq ToSet(list)
  <2>1. \A j \in DOMAIN m : j \in 1 .. n - 1
    BY <1>6
  <2>2. \A j \in DOMAIN m : m[j] \in {l[k] : k \in 1 .. n}
    BY <1>1, <1>6, <2>1
  <2>3. {l[k] : k \in 1 .. n} \subseteq ToSet(list)
    BY <1>1, <1>4 DEF ToSet
  <2> QED
    BY <2>2, <2>3 DEF ToSet
<1> QED
  BY <1>5, <1>6, <1>7


\* Agreement is a matter of the chain alone.
LEMMA SameChain ==
  ASSUME UNCHANGED <<owner, known, delegated, acl>>
  PROVE  \A a \in Ants : InSync(a)' <=> InSync(a)
BY DEF InSync, PagesWith

LEMMA ItemsAreAnts ==
  ASSUME HealTypeOK, NEW h \in Healers, NEW i \in DOMAIN work[h] PROVE work[h][i].ant \in Ants
<1>1. work[h] \in Seq(Item)
  BY DEF HealTypeOK
<1>2. work[h][i] \in Item
  BY <1>1
<1> QED
  BY <1>2 DEF Item

\* A healer at work has an ANT before it that was transferred.
LEMMA AtWork ==
  ASSUME HealInv, NEW h \in Healers, step[h] # Start \/ work[h] # <<>>
  PROVE  /\ work[h] # <<>> /\ Head(work[h]) \in Item
         /\ Ant(h) \in Ants /\ owner[Ant(h)] # "cold"
<1>1. work[h] \in Seq(Item) /\ work[h] # <<>>
  BY DEF HealInv, HealTypeOK, WorkIsConfirmed
<1>2. 1 \in DOMAIN work[h] /\ work[h][1] = Head(work[h]) /\ Head(work[h]) \in Item
  BY <1>1
<1>3. owner[work[h][1].ant] # "cold"
  BY <1>2 DEF HealInv, WorkIsConfirmed
<1>4. Head(work[h]).ant \in Ants
  BY <1>2 DEF Item
<1> QED
  BY <1>1, <1>2, <1>3, <1>4 DEF Ant

\* What a step that only takes up or drops work has to keep.
LEMMA WorkKeeps ==
  ASSUME HealInv, UNCHANGED <<owner, known, delegated, acl, row>>,
         \A t \in sent' : t.ant \in Ants,
         work' \in [Healers -> Seq(Item)],
         step' \in [Healers -> {Start, [pc |-> "sent"]} \cup {[pc |-> "read", asset |-> x] : x \in Asset}],
         \A h \in Healers : \A i \in DOMAIN work'[h] : owner[work'[h][i].ant] # "cold",
         \A h \in Healers : step'[h] # Start => work'[h] # <<>>,
         \A h \in Healers :
            \/ work'[h] = work[h] /\ step'[h] = step[h]
            \/ step'[h].pc # "read"
            \/ /\ work'[h] = work[h]
               /\ step'[h].asset.known = known[Ant(h)]
               /\ step'[h].asset.stale = (Ant(h) \in delegated)
  PROVE  HealInv'
<1>1. HealTypeOK'
  BY DEF HealInv, HealTypeOK
<1>2. WorkIsConfirmed'
  BY DEF HealInv, WorkIsConfirmed
<1>3. ReadStillHolds'
  BY DEF HealInv, ReadStillHolds, Ant
<1>4. HealedStaysHealed'
  BY SameChain DEF HealInv, HealedStaysHealed
<1> QED
  BY <1>1, <1>2, <1>3, <1>4 DEF HealInv

\* What finishing an item has to keep.
LEMMA FinishKeeps ==
  ASSUME HealInv, NEW h \in Healers, work[h] # <<>>, Done(h),
         UNCHANGED <<owner, known, delegated, acl, sent>>,
         row' \in [Ants -> Row], \A a \in Ants : row'[a].place = row[a].place,
         \A a \in Ants : row'[a].note = row[a].note \/ a = Ant(h),
         row'[Ant(h)].note \in {"healed", "already"} =>
           (owner[Ant(h)] = "claimant" => InSync(Ant(h)))
  PROVE  HealInv'
<1>1. Ant(h) \in Ants /\ owner[Ant(h)] # "cold"
  BY AtWork
<1>2. PICK rest \in Seq(Item) :
        /\ rest = Tail(work[h])
        /\ \A i \in DOMAIN rest : i + 1 \in DOMAIN work[h] /\ rest[i] = work[h][i + 1]
  <2>1. PICK w \in Seq(Item) : w = work[h]
    BY DEF HealInv, HealTypeOK
  <2>2. Tail(w) \in Seq(Item) /\ Len(Tail(w)) = Len(w) - 1 /\ Len(w) \in Nat \ {0}
    BY <2>1
  <2>3. \A i \in 1 .. Len(w) - 1 : i + 1 \in 1 .. Len(w) /\ Tail(w)[i] = w[i + 1]
    BY <2>1, <2>2
  <2>4. DOMAIN w = 1 .. Len(w) /\ DOMAIN Tail(w) = 1 .. Len(w) - 1
    BY <2>2
  <2> QED
    BY <2>1, <2>2, <2>3, <2>4
<1>3. /\ work' = [work EXCEPT ![h] = rest] /\ step' = [step EXCEPT ![h] = Start]
      /\ work \in [Healers -> Seq(Item)]
      /\ step \in [Healers -> {Start, [pc |-> "sent"]} \cup {[pc |-> "read", asset |-> x] : x \in Asset}]
  BY <1>2 DEF Done, HealInv, HealTypeOK
<1>4. HealTypeOK'
  <2>1. work' \in [Healers -> Seq(Item)]
    BY <1>3
  <2>2. step' \in [Healers -> {Start, [pc |-> "sent"]} \cup {[pc |-> "read", asset |-> x] : x \in Asset}]
    BY <1>3
  <2>3. \E m \in Nat : \A a \in Ants : row'[a].place <= m
    BY DEF HealInv, HealTypeOK
  <2> QED
    BY <2>1, <2>2, <2>3 DEF HealInv, HealTypeOK
<1>5. WorkIsConfirmed'
  <2>1. \A a \in Ants : row'[a].place > 0 \/ row'[a].note # "" => owner'[a] # "cold"
    BY <1>1 DEF HealInv, WorkIsConfirmed
  <2>2. ASSUME NEW g \in Healers, NEW i \in DOMAIN work'[g] PROVE owner'[work'[g][i].ant] # "cold"
    <3>1. \A j \in DOMAIN work[g] : owner[work[g][j].ant] # "cold"
      BY DEF HealInv, WorkIsConfirmed
    <3>2. CASE g = h
      BY <1>2, <1>3, <2>2, <3>1, <3>2
    <3>3. CASE g # h
      BY <1>3, <2>2, <3>1, <3>3
    <3> QED
      BY <3>2, <3>3
  <2>3. \A g \in Healers : step'[g] # Start => work'[g] # <<>>
    BY <1>3 DEF HealInv, WorkIsConfirmed
  <2> QED
    BY <2>1, <2>2, <2>3 DEF WorkIsConfirmed
<1>6. ReadStillHolds'
  <2>1. step'[h].pc # "read"
    BY <1>3 DEF Start
  <2>2. \A g \in Healers : g # h => step'[g] = step[g] /\ work'[g] = work[g]
    BY <1>3
  <2> QED
    BY <2>1, <2>2 DEF HealInv, ReadStillHolds, Ant
<1>7. HealedStaysHealed'
  BY <1>1, SameChain DEF HealInv, HealedStaysHealed
<1> QED
  BY <1>4, <1>5, <1>6, <1>7 DEF HealInv


LEMMA Finishing ==
  ASSUME HealInv, NEW h \in Healers,
         Abort(h) \/ Already(h) \/ Verified(h) \/ Unverified(h) \/ RpcFails(h)
  PROVE  HealInv'
<1>1. step[h] # Start \/ work[h] # <<>>
  BY DEF Abort, Already, Verified, Unverified, RpcFails, Start
<1>2. work[h] # <<>> /\ Ant(h) \in Ants /\ Head(work[h]) \in Item
  BY <1>1, AtWork
<1>3. row \in [Ants -> Row]
  BY DEF HealInv, HealTypeOK
<1>4. PICK b \in Ants : b = Ant(h)
  BY <1>2
<1>5. row[b].note \in {"healed", "already"} => (owner[b] = "claimant" => InSync(b))
  BY DEF HealInv, HealedStaysHealed
<1>6. Done(h) /\ UNCHANGED <<owner, known, delegated, acl, sent>>
  BY DEF Abort, Already, Verified, Unverified, RpcFails
<1>7. \A n \in Notes : MarkDone(h, n) =>
        /\ row' \in [Ants -> Row] /\ \A a \in Ants : row'[a].place = row[a].place
        /\ \A a \in Ants : row'[a].note = row[a].note \/ a = Ant(h)
        /\ row'[b].note = row[b].note \/ row'[b].note = n
  <2> SUFFICES ASSUME NEW n \in Notes, MarkDone(h, n)
               PROVE  /\ row' \in [Ants -> Row] /\ \A a \in Ants : row'[a].place = row[a].place
                      /\ \A a \in Ants : row'[a].note = row[a].note \/ a = Ant(h)
                      /\ row'[b].note = row[b].note \/ row'[b].note = n
    OBVIOUS
  <2>1. row' = row \/ row' = [row EXCEPT ![b].note = n]
    BY <1>4 DEF MarkDone
  <2>2. CASE row' = row
    BY <1>3, <2>2
  <2>3. CASE row' = [row EXCEPT ![b].note = n]
    <3>1. PICK r \in Row : r = [row[b] EXCEPT !.note = n]
      BY <1>3 DEF Row
    <3>2. row' = [row EXCEPT ![b] = r] /\ r.note = n /\ r.place = row[b].place
      BY <1>3, <2>3, <3>1 DEF Row
    <3> QED
      BY <1>3, <1>4, <3>2
  <2> QED
    BY <2>1, <2>2, <2>3
<1>8. RecordFailure(h) =>
        /\ row' \in [Ants -> Row] /\ \A a \in Ants : row'[a].place = row[a].place
        /\ \A a \in Ants : row'[a].note = row[a].note \/ a = Ant(h)
        /\ row'[b].note = row[b].note \/ row'[b].note = "gave up"
  <2> SUFFICES ASSUME RecordFailure(h)
               PROVE  /\ row' \in [Ants -> Row] /\ \A a \in Ants : row'[a].place = row[a].place
                      /\ \A a \in Ants : row'[a].note = row[a].note \/ a = Ant(h)
                      /\ row'[b].note = row[b].note \/ row'[b].note = "gave up"
    OBVIOUS
  <2>1. PICK k \in Nat : k = Head(work[h]).attempts + 1
    BY <1>2 DEF Item
  <2>2. PICK n \in Notes : n = (IF k >= MaxAttempts THEN "gave up" ELSE row[b].note)
    BY <1>3 DEF Row, Notes
  <2>3. row' = row \/ row' = [row EXCEPT ![b].attempts = k, ![b].note = n]
    BY <1>3, <1>4, <2>1, <2>2 DEF RecordFailure, Failure, Row
  <2>4. CASE row' = row
    BY <1>3, <2>4
  <2>5. CASE row' = [row EXCEPT ![b].attempts = k, ![b].note = n]
    <3>1. PICK r \in Row : r = [row[b] EXCEPT !.attempts = k, !.note = n]
      BY <1>3 DEF Row
    <3>2. row' = [row EXCEPT ![b] = r] /\ r.note = n /\ r.place = row[b].place
      BY <1>3, <2>5, <3>1 DEF Row
    <3> QED
      BY <1>3, <1>4, <2>2, <3>2
  <2> QED
    BY <2>3, <2>4, <2>5
<1>9. CASE Abort(h)
  <2>1. MarkDone(h, "aborted") /\ "aborted" \in Notes
    BY <1>9 DEF Abort, Notes
  <2> QED
    BY <1>2, <1>4, <1>5, <1>6, <1>7, <2>1, FinishKeeps
<1>10. CASE Verified(h)
  <2>1. MarkDone(h, "healed") /\ "healed" \in Notes /\ InSync(b)
    BY <1>4, <1>10 DEF Verified, Notes
  <2> QED
    BY <1>2, <1>4, <1>5, <1>6, <1>7, <2>1, FinishKeeps
<1>11. CASE Unverified(h) \/ RpcFails(h)
  <2>1. RecordFailure(h)
    BY <1>11 DEF Unverified, RpcFails
  <2> QED
    BY <1>2, <1>4, <1>5, <1>6, <1>8, <2>1, FinishKeeps
<1>12. CASE Already(h)
  <2>1. /\ MarkDone(h, "already") /\ "already" \in Notes
        /\ step[h].pc = "read" /\ NothingToDo(PlanOf(h))
    BY <1>12 DEF Already, Notes
  <2>2. /\ ReadOwnerAcl("cold", b).entry = 0
        /\ ReadOwnerAcl("claimant", b).entry = 0 => TargetPage(ReadOwnerAcl("claimant", b)) = 0
        /\ step[h].asset.known = "claimant" /\ ~step[h].asset.stale
    BY <1>4, <2>1 DEF NothingToDo, PlanOf, PlanAclHeal
  <2>3. acl \in [cold : Seq(Seq(Listed)), claimant : Seq(Seq(Listed))]
    BY DEF HealInv, HealTypeOK
  <2>4. PagesWith("cold", b) = {}
    <3>1. PICK n \in Nat : DOMAIN acl["cold"] = 1 .. n
      BY <2>3
    <3>2. PagesWith("cold", b) \subseteq 1 .. n
      BY <3>1 DEF PagesWith
    <3>3. ASSUME PagesWith("cold", b) # {} PROVE Max(PagesWith("cold", b)) \in 1 .. n
      <4>1. PICK T \in SUBSET (0 .. n) : T = PagesWith("cold", b)
        BY <3>2
      <4>2. Max(T) \in T
        BY <3>3, <4>1, GreatestOne
      <4> QED
        BY <3>2, <4>1, <4>2
    <3> QED
      BY <2>2, <3>3 DEF ReadOwnerAcl
  <2>5. PagesWith("claimant", b) # {}
    <3>1. Len(acl["claimant"]) + 1 # 0
      BY <2>3
    <3>2. TargetPage(ReadOwnerAcl("claimant", b)) # 0
      BY <3>1 DEF TargetPage, ReadOwnerAcl
    <3> QED
      BY <2>2, <3>2 DEF ReadOwnerAcl
  <2>6. owner[b] = "claimant" => known[b] = "claimant" /\ b \notin delegated
    BY <1>4, <2>1, <2>2 DEF HealInv, ReadStillHolds
  <2>7. owner[b] = "claimant" => InSync(b)
    BY <2>4, <2>5, <2>6 DEF InSync
  <2> QED
    BY <1>2, <1>4, <1>5, <1>6, <1>7, <2>1, <2>7, FinishKeeps
<1> QED
  BY <1>9, <1>10, <1>11, <1>12


\* Taking up work, reading, sending, and losing the work in a crash.
LEMMA Working ==
  ASSUME HealInv, NEW h \in Healers, Read1(h) \/ Apply(h) \/ CrashHealer(h)
  PROVE  HealInv'
<1> DEFINE Steps == {Start, [pc |-> "sent"]} \cup {[pc |-> "read", asset |-> x] : x \in Asset}
<1>1. /\ work \in [Healers -> Seq(Item)] /\ step \in [Healers -> Steps]
      /\ \A t \in sent : t.ant \in Ants
      /\ \A g \in Healers : \A i \in DOMAIN work[g] : owner[work[g][i].ant] # "cold"
      /\ \A g \in Healers : step[g] # Start => work[g] # <<>>
      /\ owner \in [Ants -> Owners] /\ known \in [Ants -> Owners]
  BY DEF HealInv, HealTypeOK, WorkIsConfirmed
<1>2. CASE Read1(h)
  <2>1. Ant(h) \in Ants
    BY <1>2, AtWork DEF Read1
  <2>2. PICK x \in Asset : x = ReadAsset(Ant(h))
    <3>1. PICK o \in Owners, k \in Owners : o = owner[Ant(h)] /\ k = known[Ant(h)]
      BY <1>1, <2>1
    <3>2. \A d \in BOOLEAN : [owner |-> o, known |-> k, stale |-> d] \in Asset
      BY DEF Asset
    <3>3. ReadAsset(Ant(h)) \in Asset
      <4>1. CASE Ant(h) \in delegated
        <5>1. ReadAsset(Ant(h)) = [owner |-> o, known |-> k, stale |-> TRUE]
          BY <3>1, <4>1 DEF ReadAsset
        <5> QED
          BY <3>2, <5>1
      <4>2. CASE Ant(h) \notin delegated
        <5>0. (Ant(h) \in delegated) = FALSE
          BY <4>2, SMT
        <5>1. ReadAsset(Ant(h)) = [owner |-> o, known |-> k, stale |-> FALSE]
          BY <3>1, <5>0, Zenon DEF ReadAsset
        <5> QED
          BY <3>2, <5>1
      <4> QED
        BY <4>1, <4>2
    <3> QED
      BY <3>3
  <2>3. x.known = known[Ant(h)] /\ x.stale = (Ant(h) \in delegated)
    BY <2>2 DEF ReadAsset
  <2>4. PICK s \in Steps : s = [pc |-> "read", asset |-> x]
    OBVIOUS
  <2>5. s.asset.known = known[Ant(h)] /\ s.asset.stale = (Ant(h) \in delegated)
    BY <2>3, <2>4
  <2>6. step' = [step EXCEPT ![h] = s] /\ work[h] # <<>>
        /\ UNCHANGED <<owner, known, delegated, acl, registered, sent, row, work, troubles>>
    BY <1>2, <2>2, <2>4 DEF Read1
  <2>7. step' \in [Healers -> Steps]
    BY <1>1, <2>6
  <2>8. step'[h] = s /\ \A g \in Healers : g # h => step'[g] = step[g]
    BY <1>1, <2>6
  <2> HIDE DEF Steps
  <2> QED
    BY <1>1, <2>5, <2>6, <2>7, <2>8, WorkKeeps DEF Steps
<1>3. CASE Apply(h)
  <2>1. step[h].pc = "read"
    BY <1>3 DEF Apply
  <2>2. step[h] # Start
    BY <2>1 DEF Start
  <2>3. Ant(h) \in Ants /\ work[h] # <<>>
    BY <2>2, AtWork
  <2>4. PICK s \in Steps : s = [pc |-> "sent"]
    OBVIOUS
  <2>5. s.pc # "read"
    BY <2>4
  <2>6. step' = [step EXCEPT ![h] = s]
        /\ UNCHANGED <<owner, known, delegated, acl, row, work>>
    BY <1>3, <2>4 DEF Apply
  <2>7. step' \in [Healers -> Steps]
    BY <1>1, <2>6
  <2>8. step'[h] = s /\ \A g \in Healers : g # h => step'[g] = step[g]
    BY <1>1, <2>6
  <2>9. \A t \in sent' : t.ant \in Ants
    BY <1>1, <1>3, <2>3 DEF Apply
  <2> HIDE DEF Steps
  <2> QED
    BY <1>1, <2>3, <2>5, <2>6, <2>7, <2>8, <2>9, WorkKeeps DEF Steps
<1>4. CASE CrashHealer(h)
  <2>1. /\ work' = [work EXCEPT ![h] = <<>>] /\ step' = [step EXCEPT ![h] = Start]
        /\ UNCHANGED <<owner, known, delegated, acl, row, sent>>
    BY <1>4 DEF CrashHealer
  <2>2. PICK e \in Seq(Item) : e = <<>> /\ DOMAIN e = {}
    <3>1. <<>> \in Seq(Item)
      OBVIOUS
    <3>2. DOMAIN <<>> = {}
      OBVIOUS
    <3> QED
      BY <3>1, <3>2
  <2>3. work' \in [Healers -> Seq(Item)] /\ step' \in [Healers -> Steps]
    BY <1>1, <2>1, <2>2
  <2>4. work'[h] = e /\ step'[h] = Start
    BY <1>1, <2>1, <2>2
  <2>5. \A g \in Healers : g # h => step'[g] = step[g] /\ work'[g] = work[g]
    BY <1>1, <2>1
  <2>6. Start.pc # "read"
    BY DEF Start
  <2>7. \A g \in Healers : \A i \in DOMAIN work'[g] : owner[work'[g][i].ant] # "cold"
    BY <1>1, <2>2, <2>4, <2>5
  <2>8. \A g \in Healers : step'[g] # Start => work'[g] # <<>>
    BY <1>1, <2>4, <2>5
  <2> HIDE DEF Steps
  <2> QED
    BY <1>1, <2>1, <2>3, <2>4, <2>5, <2>6, <2>7, <2>8, WorkKeeps DEF Steps
<1> QED
  BY <1>2, <1>3, <1>4

\* A sweep, or a run of the CLI: work on ANTs whose claims are confirmed.
LEMMA Starting ==
  ASSUME HealInv, NEW h \in Healers, work[h] = <<>>,
         UNCHANGED <<owner, known, delegated, acl, sent, row, step>>,
         NEW w \in Seq(Item), work' = [work EXCEPT ![h] = w],
         \A i \in DOMAIN w : row[w[i].ant].place > 0
  PROVE  HealInv'
<1>1. /\ work \in [Healers -> Seq(Item)] /\ step[h] = Start
      /\ step \in [Healers -> {Start, [pc |-> "sent"]} \cup {[pc |-> "read", asset |-> x] : x \in Asset}]
      /\ \A t \in sent : t.ant \in Ants
      /\ \A g \in Healers : \A i \in DOMAIN work[g] : owner[work[g][i].ant] # "cold"
      /\ \A g \in Healers : step[g] # Start => work[g] # <<>>
  BY DEF HealInv, HealTypeOK, WorkIsConfirmed
<1>2. work' \in [Healers -> Seq(Item)] /\ work'[h] = w
      /\ \A g \in Healers : g # h => work'[g] = work[g]
  BY <1>1
<1>3. \A i \in DOMAIN w : owner[w[i].ant] # "cold"
  <2>1. \A i \in DOMAIN w : w[i] \in Item
    OBVIOUS
  <2> QED
    BY <2>1 DEF Item, HealInv, WorkIsConfirmed
<1>4. Start.pc # "read"
  BY DEF Start
<1>5. \A g \in Healers : \A i \in DOMAIN work'[g] : owner[work'[g][i].ant] # "cold"
  BY <1>1, <1>2, <1>3
<1>6. \A g \in Healers : step'[g] # Start => work'[g] # <<>>
  BY <1>1, <1>2
<1> QED
  BY <1>1, <1>2, <1>4, <1>5, <1>6, WorkKeeps


LEMMA SweepKeeps == ASSUME HealInv, Sweep PROVE HealInv'
<1>1. row \in [Ants -> Row] /\ work \in [Healers -> Seq(Item)]
  BY DEF HealInv, HealTypeOK
<1>2. PICK batch \in InOrder :
        work' = [work EXCEPT !["worker"] =
          [i \in DOMAIN batch |-> [ant |-> batch[i], attempts |-> row[batch[i]].attempts]]]
  BY DEF Sweep
<1>3. PICK n \in Nat : n = Min({Batch, Cardinality(Pending)})
  <2>1. PICK c \in Nat : c = Cardinality(Pending)
    <3>1. IsFiniteSet(Pending)
      BY HealerAssumption, FS_Subset DEF Pending
    <3> QED
      BY <3>1, FS_CardinalityType
  <2>2. PICK b \in Nat : b = Batch
    BY HealerAssumption
  <2>3. \E x \in {b, c} : \A y \in {b, c} : x <= y
    <3>1. b <= c \/ c <= b
      OBVIOUS
    <3>2. b <= b /\ c <= c
      OBVIOUS
    <3> QED
      BY <3>1, <3>2
  <2>4. Min({b, c}) \in {b, c}
    BY <2>3 DEF Min
  <2> QED
    BY <2>1, <2>2, <2>4
<1>4. batch \in [1 .. n -> Pending]
  BY <1>2, <1>3 DEF InOrder
<1>5. PICK w \in Seq(Item) :
        /\ w = [i \in DOMAIN batch |-> [ant |-> batch[i], attempts |-> row[batch[i]].attempts]]
        /\ \A i \in DOMAIN w : row[w[i].ant].place > 0
  <2>1. \A i \in 1 .. n : batch[i] \in Ants /\ row[batch[i]].place > 0
    BY <1>4 DEF Pending
  <2>2. \A i \in 1 .. n : row[batch[i]].attempts \in Nat
    BY <1>1, <2>1 DEF Row
  <2>3. \A i \in 1 .. n : [ant |-> batch[i], attempts |-> row[batch[i]].attempts] \in Item
    BY <2>1, <2>2 DEF Item
  <2>4. PICK w : w = [i \in 1 .. n |-> [ant |-> batch[i], attempts |-> row[batch[i]].attempts]]
    OBVIOUS
  <2>5. w \in [1 .. n -> Item] /\ \A i \in 1 .. n : w[i].ant = batch[i]
    BY <2>3, <2>4
  <2>6. w \in Seq(Item) /\ DOMAIN w = 1 .. n
    BY <2>5
  <2> QED
    BY <1>4, <2>1, <2>4, <2>5, <2>6
<1>6. /\ work' = [work EXCEPT !["worker"] = w] /\ work["worker"] = <<>>
      /\ UNCHANGED <<owner, known, delegated, acl, registered, sent, row, step, troubles>>
  BY <1>2, <1>5 DEF Sweep
<1>7. CASE "worker" \in Healers
  BY <1>5, <1>6, <1>7, Starting
<1>8. CASE "worker" \notin Healers
  <2>1. work' = work
    BY <1>1, <1>6, <1>8
  <2>2. /\ \A t \in sent' : t.ant \in Ants
        /\ work' \in [Healers -> Seq(Item)]
        /\ step' \in [Healers -> {Start, [pc |-> "sent"]} \cup {[pc |-> "read", asset |-> x] : x \in Asset}]
    BY <1>6, <2>1 DEF HealInv, HealTypeOK
  <2>3. /\ \A h \in Healers : \A i \in DOMAIN work'[h] : owner[work'[h][i].ant] # "cold"
        /\ \A h \in Healers : step'[h] # Start => work'[h] # <<>>
    BY <1>6, <2>1 DEF HealInv, WorkIsConfirmed
  <2> QED
    BY <1>6, <2>1, <2>2, <2>3, WorkKeeps
<1> QED
  BY <1>7, <1>8

LEMMA RunCliKeeps == ASSUME HealInv, NEW h \in Healers, NEW a \in Ants, RunCli(h, a) PROVE HealInv'
<1>1. PICK e \in Item : e = [ant |-> a, attempts |-> 0]
  BY DEF Item
<1>2. PICK w \in Seq(Item) : w = <<e>>
  <2>1. <<e>> \in Seq(Item)
    BY <1>1
  <2> QED
    BY <2>1
<1>3. DOMAIN w = {1} /\ w[1] = e /\ e.ant = a
  BY <1>1, <1>2
<1>4. /\ work' = [work EXCEPT ![h] = w] /\ work[h] = <<>> /\ row[a].place > 0
      /\ UNCHANGED <<owner, known, delegated, acl, sent, row, step>>
  BY <1>1, <1>2 DEF RunCli
<1>5. \A i \in DOMAIN w : row[w[i].ant].place > 0
  BY <1>3, <1>4
<1> QED
  BY <1>4, <1>5, Starting

\* The transfers: an ANT the healers have not met changes hands, or one that
\* leaves the claimant, to whom no promise is kept then.
LEMMA ConfirmKeeps == ASSUME HealInv, NEW a \in Ants, ConfirmAnt(a) PROVE HealInv'
<1>1. /\ owner \in [Ants -> Owners] /\ row \in [Ants -> Row] /\ owner[a] = "cold"
      /\ owner' = [owner EXCEPT ![a] = "claimant"]
      /\ UNCHANGED <<known, delegated, acl, registered, sent, work, step, troubles>>
  BY DEF HealInv, HealTypeOK, ConfirmAnt
<1>2. PICK m \in Nat : \A b \in Ants : row[b].place <= m
  BY DEF HealInv, HealTypeOK
<1>3. PICK k \in Nat : k = Max({row[b].place : b \in Ants}) + 1
  <2>1. \A b \in Ants : row[b].place \in 0 .. m
    BY <1>1, <1>2 DEF Row
  <2>2. PICK T \in SUBSET (0 .. m) : T = {row[b].place : b \in Ants}
    BY <2>1
  <2>3. T # {}
    BY <2>2
  <2>4. Max(T) \in T
    BY <2>3, GreatestOne
  <2>5. PICK j \in T : j = Max(T)
    BY <2>4
  <2>6. j + 1 \in Nat
    BY <2>5
  <2>7. j + 1 = Max({row[b].place : b \in Ants}) + 1
    BY <2>2, <2>5
  <2> QED
    BY <2>6, <2>7
<1>4. PICK r \in Row : r = [row[a] EXCEPT !.place = k]
  BY <1>1 DEF Row
<1>5. row' = [row EXCEPT ![a] = r] /\ r.note = row[a].note /\ r.place = k
  BY <1>1, <1>3, <1>4 DEF ConfirmAnt, Row
<1>6. /\ owner' \in [Ants -> Owners] /\ owner'[a] = "claimant"
      /\ \A b \in Ants : b # a => owner'[b] = owner[b]
  BY <1>1 DEF Owners
<1>7. row' \in [Ants -> Row] /\ row'[a] = r /\ \A b \in Ants : b # a => row'[b] = row[b]
  BY <1>1, <1>5
<1>8. row[a].note = "" /\ \A h \in Healers : \A i \in DOMAIN work[h] : work[h][i].ant # a
  BY <1>1 DEF HealInv, WorkIsConfirmed
<1>9. HealTypeOK'
  <2>1. \E n \in Nat : \A b \in Ants : row'[b].place <= n
    <3>1. PICK n \in Nat : n = m + k
      OBVIOUS
    <3>2. \A b \in Ants : row[b].place \in Nat
      BY <1>1 DEF Row
    <3>3. \A b \in Ants : b # a => row'[b].place <= n
      BY <1>2, <1>7, <3>1, <3>2
    <3>4. row'[a].place <= n
      BY <1>5, <1>7, <3>1
    <3> QED
      BY <3>3, <3>4
  <2> QED
    BY <1>1, <1>6, <1>7, <2>1 DEF HealInv, HealTypeOK
<1>10. WorkIsConfirmed'
  <2>1. \A b \in Ants : row'[b].place > 0 \/ row'[b].note # "" => owner'[b] # "cold"
    BY <1>6, <1>7 DEF HealInv, WorkIsConfirmed
  <2>2. \A h \in Healers : \A i \in DOMAIN work[h] : work[h][i].ant \in Ants
    BY ItemsAreAnts DEF HealInv
  <2> QED
    BY <1>1, <1>6, <2>1, <2>2 DEF HealInv, WorkIsConfirmed
<1>11. ReadStillHolds'
  <2>1. ASSUME NEW h \in Healers, step[h].pc = "read" PROVE Ant(h) \in Ants /\ Ant(h) # a
    <3>1. step[h] # Start
      BY <2>1 DEF Start
    <3> QED
      BY <1>1, <3>1, AtWork
  <2> QED
    BY <1>1, <1>6, <2>1 DEF HealInv, ReadStillHolds, Ant
<1>12. HealedStaysHealed'
  BY <1>1, <1>5, <1>6, <1>7, <1>8 DEF HealInv, HealedStaysHealed, InSync, PagesWith
<1> QED
  BY <1>9, <1>10, <1>11, <1>12 DEF HealInv

LEMMA MoveOnKeeps == ASSUME HealInv, NEW a \in Ants, MoveOn(a) PROVE HealInv'
<1>1. /\ owner \in [Ants -> Owners] /\ owner' = [owner EXCEPT ![a] = "other"]
      /\ UNCHANGED <<known, delegated, acl, registered, sent, row, work, step, troubles>>
  BY DEF HealInv, HealTypeOK, MoveOn
<1>2. /\ owner' \in [Ants -> Owners] /\ owner'[a] = "other"
      /\ \A b \in Ants : b # a => owner'[b] = owner[b]
  BY <1>1 DEF Owners
<1>3. HealTypeOK'
  BY <1>1, <1>2 DEF HealInv, HealTypeOK
<1>4. WorkIsConfirmed'
  <2>1. \A h \in Healers : \A i \in DOMAIN work[h] : work[h][i].ant \in Ants
    BY ItemsAreAnts DEF HealInv
  <2> QED
    BY <1>1, <1>2, <2>1 DEF HealInv, WorkIsConfirmed
<1>5. ReadStillHolds'
  <2>1. ASSUME NEW h \in Healers, step[h].pc = "read" PROVE Ant(h) \in Ants
    <3>1. step[h] # Start
      BY <2>1 DEF Start
    <3> QED
      BY <3>1, AtWork
  <2> QED
    BY <1>1, <1>2, <2>1 DEF HealInv, ReadStillHolds, Ant
<1>6. HealedStaysHealed'
  BY <1>1, <1>2 DEF HealInv, HealedStaysHealed, InSync, PagesWith
<1> QED
  BY <1>3, <1>4, <1>5, <1>6 DEF HealInv


\* A heal transaction landing: entries of ANTs leave the cold wallet's pages
\* and join the claimant's, never the other way.
LEMMA PagesMoveOneWay ==
  ASSUME HealInv, NEW t \in sent, Land(t)
  PROVE  /\ acl' \in [cold : Seq(Seq(Listed)), claimant : Seq(Seq(Listed))]
         /\ \A b \in Ants : PagesWith("cold", b) = {} => PagesWith("cold", b)' = {}
         /\ \A b \in Ants : PagesWith("claimant", b) # {} => PagesWith("claimant", b)' # {}
<1>1. PICK a \in Ants : a = t.ant
  BY DEF HealInv, HealTypeOK
<1>2. PICK p : p = t.plan
  OBVIOUS
<1>3. PICK cold \in Seq(Seq(Listed)) : cold = acl["cold"]
  BY DEF HealInv, HealTypeOK
<1>4. PICK claimant \in Seq(Seq(Listed)) : claimant = acl["claimant"]
  BY DEF HealInv, HealTypeOK
<1>5. a \in Listed
  BY DEF Listed
<1>6. Executes(a, p)
  BY <1>1, <1>2 DEF Land
<1>7. PICK left : left = IF p.remove = 0 THEN cold ELSE RemovedFrom(cold, p.remove, a)
  OBVIOUS
<1>8. /\ left \in Seq(Seq(Listed)) /\ DOMAIN left = DOMAIN cold
      /\ \A j \in DOMAIN cold : ToSet(left[j]) \subseteq ToSet(cold[j])
  <2>1. CASE p.remove = 0
    BY <1>7, <2>1
  <2>2. CASE p.remove # 0
    <3>1. PICK i \in DOMAIN cold : i = p.remove /\ a \in ToSet(cold[i])
      BY <1>3, <1>6, <2>2 DEF Executes, PagesWith
    <3>2. PICK n \in Nat : n = Len(cold) /\ DOMAIN cold = 1 .. n
      OBVIOUS
    <3>3. cold[i] \in Seq(Listed)
      BY <3>1
    <3>4. PICK l \in Seq(Listed) : l = SwapRemoved(cold[i], a) /\ ToSet(l) \subseteq ToSet(cold[i])
      BY <3>1, <3>3, SwapRemovedIsFewer
    <3>5. left = [cold EXCEPT ![i] = l]
      BY <1>7, <2>2, <3>1, <3>4 DEF RemovedFrom
    <3>6. cold \in [1 .. n -> Seq(Listed)]
      BY <3>2
    <3>7. left \in [1 .. n -> Seq(Listed)]
      BY <3>5, <3>6
    <3>8. left \in Seq(Seq(Listed)) /\ DOMAIN left = 1 .. n
      BY <3>7
    <3>9. \A j \in 1 .. n : ToSet(left[j]) \subseteq ToSet(cold[j])
      BY <3>2, <3>4, <3>5
    <3> QED
      BY <3>2, <3>8, <3>9
  <2> QED
    BY <2>1, <2>2
<1>9. PICK pages : pages = CreatedIn(claimant, p.create)
  OBVIOUS
<1>10. /\ pages \in Seq(Seq(Listed)) /\ DOMAIN claimant \subseteq DOMAIN pages
       /\ \A j \in DOMAIN claimant : pages[j] = claimant[j]
  <2>1. CASE p.create = 0
    BY <1>9, <2>1 DEF CreatedIn
  <2>2. CASE p.create # 0
    <3>1. <<>> \in Seq(Listed)
      OBVIOUS
    <3>2. PICK e \in Seq(Listed) : e = <<>>
      BY <3>1
    <3>3. pages = Append(claimant, e)
      BY <1>9, <2>2, <3>2 DEF CreatedIn
    <3> QED
      BY <3>3
  <2> QED
    BY <2>1, <2>2
<1>11. PICK more : more = IF p.record = 0 THEN pages ELSE [pages EXCEPT ![p.record] = Append(@, a)]
  OBVIOUS
<1>12. /\ more \in Seq(Seq(Listed)) /\ DOMAIN more = DOMAIN pages
       /\ \A j \in DOMAIN pages : ToSet(pages[j]) \subseteq ToSet(more[j])
  <2>1. CASE p.record = 0
    BY <1>10, <1>11, <2>1
  <2>2. CASE p.record # 0
    <3>1. PICK n \in Nat : DOMAIN pages = 1 .. n
      BY <1>10
    <3>2. pages \in [1 .. n -> Seq(Listed)]
      BY <1>10, <3>1
    <3>3. PICK r : r = p.record
      OBVIOUS
    <3>4. more = [pages EXCEPT ![r] = Append(pages[r], a)]
      BY <1>11, <2>2, <3>3
    <3>5. /\ DOMAIN more = 1 .. n
          /\ \A j \in 1 .. n : more[j] = IF j = r THEN Append(pages[j], a) ELSE pages[j]
      BY <3>2, <3>4
    <3>6. \A q \in Seq(Listed) : Append(q, a) \in Seq(Listed) /\ ToSet(q) \subseteq ToSet(Append(q, a))
      <4> SUFFICES ASSUME NEW q \in Seq(Listed)
                   PROVE  Append(q, a) \in Seq(Listed) /\ ToSet(q) \subseteq ToSet(Append(q, a))
        OBVIOUS
      <4>0. Append(q, a) \in Seq(Listed)
        BY <1>5
      <4>1. PICK v \in Seq(Listed) : v = Append(q, a)
        BY <4>0
      <4>2. \A j \in DOMAIN q : j \in DOMAIN v /\ v[j] = q[j]
        BY <1>5, <4>1
      <4> QED
        BY <4>1, <4>2 DEF ToSet
    <3>7. \A j \in 1 .. n : more[j] \in Seq(Listed) /\ ToSet(pages[j]) \subseteq ToSet(more[j])
      BY <3>2, <3>5, <3>6
    <3>8. more \in [1 .. n -> Seq(Listed)]
      <4>1. more = [j \in 1 .. n |-> IF j = r THEN Append(pages[j], a) ELSE pages[j]]
        BY <3>2, <3>4
      <4> QED
        BY <3>5, <3>7, <4>1
    <3>9. more \in Seq(Seq(Listed))
      BY <3>8
    <3> QED
      BY <3>1, <3>5, <3>7, <3>9
  <2> QED
    BY <2>1, <2>2
<1>13. acl' = [cold |-> left, claimant |-> more]
  BY <1>1, <1>2, <1>3, <1>4, <1>7, <1>9, <1>11 DEF Land
<1>14. acl'["cold"] = left /\ acl'["claimant"] = more
  BY <1>13
<1>15. \A b \in Ants : PagesWith("cold", b) = {} => PagesWith("cold", b)' = {}
  BY <1>3, <1>8, <1>14 DEF PagesWith
<1>16. \A b \in Ants : PagesWith("claimant", b) # {} => PagesWith("claimant", b)' # {}
  <2>1. \A j \in DOMAIN claimant : j \in DOMAIN more /\ ToSet(claimant[j]) \subseteq ToSet(more[j])
    BY <1>10, <1>12
  <2> QED
    BY <1>4, <1>14, <2>1 DEF PagesWith
<1> QED
  BY <1>8, <1>12, <1>13, <1>15, <1>16

LEMMA LandKeeps == ASSUME HealInv, NEW t \in sent, Land(t) PROVE HealInv'
<1>1. PICK a \in Ants : a = t.ant
  BY DEF HealInv, HealTypeOK
<1>2. owner \in [Ants -> Owners] /\ known \in [Ants -> Owners]
  BY DEF HealInv, HealTypeOK
<1>3. /\ known' = known \/ known' = [known EXCEPT ![a] = owner[a]]
      /\ delegated' \subseteq delegated /\ sent' \subseteq sent
      /\ UNCHANGED <<owner, row, work, step>>
  BY <1>1 DEF Land
<1>4. known' \in [Ants -> Owners]
  BY <1>2, <1>3
<1>5. \A b \in Ants : known'[b] = known[b] \/ known'[b] = owner[b]
  BY <1>2, <1>3
<1>6. HealTypeOK'
  BY <1>3, <1>4, PagesMoveOneWay DEF HealInv, HealTypeOK
<1>7. WorkIsConfirmed'
  BY <1>3 DEF HealInv, WorkIsConfirmed
<1>8. ReadStillHolds'
  <2>1. ASSUME NEW h \in Healers, step[h].pc = "read" PROVE Ant(h) \in Ants
    <3>1. step[h] # Start
      BY <2>1 DEF Start
    <3> QED
      BY <3>1, AtWork
  <2> QED
    BY <1>3, <1>5, <2>1 DEF HealInv, ReadStillHolds, Ant
<1>9. HealedStaysHealed'
  <2>1. \A b \in Ants : InSync(b) => InSync(b)'
    BY <1>3, <1>5, PagesMoveOneWay DEF InSync
  <2> QED
    BY <1>3, <2>1 DEF HealInv, HealedStaysHealed
<1> QED
  BY <1>6, <1>7, <1>8, <1>9 DEF HealInv

\* Whatever the sweep, the operator's runs, crashes and transactions that land
\* late do, an ANT that was marked healed, or found healed, agrees with its owner
\* for as long as the claimant keeps it.
THEOREM HealedAntsStayHealed == HealSafety => []HealedStaysHealed
<1>1. ASSUME HealInv, [HealNext]_healVars PROVE HealInv'
  <2>1. ASSUME NEW a \in Ants, ConfirmAnt(a) PROVE HealInv'
    BY <1>1, <2>1, ConfirmKeeps
  <2>2. ASSUME NEW a \in Ants, MoveOn(a) PROVE HealInv'
    BY <1>1, <2>2, MoveOnKeeps
  <2>3. CASE Sweep
    BY <1>1, <2>3, SweepKeeps
  <2>4. ASSUME NEW h \in Healers, HealStep(h) \/ RpcFails(h) \/ CrashHealer(h) PROVE HealInv'
    BY <1>1, <2>4, Finishing, Working DEF HealStep
  <2>5. ASSUME NEW h \in Healers, NEW a \in Ants, RunCli(h, a) PROVE HealInv'
    BY <1>1, <2>5, RunCliKeeps
  <2>6. ASSUME NEW t \in sent, Land(t) PROVE HealInv'
    BY <1>1, <2>6, LandKeeps
  <2>7. ASSUME NEW t \in sent, Vanish(t) PROVE HealInv'
    <3>1. sent' \subseteq sent /\ UNCHANGED <<owner, known, delegated, acl, row, work, step>>
      BY <2>7 DEF Vanish
    <3>2. \A b \in Ants : InSync(b)' <=> InSync(b)
      BY <3>1, SameChain
    <3> QED
      BY <1>1, <3>1, <3>2
         DEF HealInv, HealTypeOK, WorkIsConfirmed, ReadStillHolds, Ant, HealedStaysHealed
  <2>8. CASE UNCHANGED healVars
    <3>1. UNCHANGED <<owner, known, delegated, acl, row, work, step, sent>>
      BY <2>8 DEF healVars
    <3>2. \A b \in Ants : InSync(b)' <=> InSync(b)
      BY <3>1, SameChain
    <3> QED
      BY <1>1, <3>1, <3>2
         DEF HealInv, HealTypeOK, WorkIsConfirmed, ReadStillHolds, Ant, HealedStaysHealed
  <2> QED
    BY <1>1, <2>1, <2>2, <2>3, <2>4, <2>5, <2>6, <2>7, <2>8 DEF HealNext
<1>2. HealInv => HealedStaysHealed
  BY DEF HealInv
<1> QED
  BY <1>1, <1>2, HealInitial, PTL DEF HealSafety

-----------------------------------------------------------------------------
(***************************************************************************)
(* RateLimiter: for any windows, limits, callers and traffic.              *)
(***************************************************************************)

Times == 0 .. MaxTime

Bucket == [key : Keys, count : Nat \ {0}, start : Times]

\* A map within its cap: one bucket for a key.
GoodBuckets(bs) ==
  /\ bs \in Seq(Bucket)
  /\ Len(bs) <= MaxKeys
  /\ \A i, j \in DOMAIN bs : bs[i].key = bs[j].key => i = j

LimiterTypeOK ==
  /\ now \in Times
  /\ GoodBuckets(buckets)
  /\ \A b \in ToSet(buckets) : b.start <= now
  /\ allowed \in [Times -> Nat]
  /\ forgotten \in BOOLEAN

\* With a the hits let through at each time: their number in the times T, or none.
Hits(a, T)   == SumFunctionOnSet(a, T)
Silent(a, T) == \A s \in T : a[s] = 0

Since(t)      == {s \in Times : s >= t}
Between(t, u) == {s \in Times : t < s /\ s < u}
SpanTo(t)     == {s \in Times : s <= t /\ s > t - Window}

Halved(a) == \A t \in Times : Hits(a, SpanTo(t)) < 2 * Limit

\* The bucket counts what was let through since it began, and it began with a hit;
\* the time before it was not full.
Counts(a, b) ==
  /\ Hits(a, Since(b.start)) <= b.count /\ Hits(a, Since(b.start)) <= Limit
  /\ a[b.start] >= 1
  /\ Silent(a, Since(b.start + Window))
  /\ Hits(a, Between(b.start - Window, b.start)) < Limit

\* There is room for a window that begins at t.
Rested(a, t) == Silent(a, Since(t)) /\ Hits(a, Since(t - Window + 1)) < Limit

LimiterInv ==
  /\ LimiterTypeOK
  /\ Silent(allowed, Since(now + 1))
  /\ ~forgotten =>
       /\ Halved(allowed)
       /\ \A b \in ToSet(buckets) : b.key = Observed => Counts(allowed, b)
       /\ Observed \notin KeysOf(buckets) => Rested(allowed, now)

(***************************************************************************)
(* check() and gc() on a map of buckets.                                   *)
(***************************************************************************)

LEMMA PutLeaves ==
  ASSUME NEW bs, GoodBuckets(bs), NEW b \in Bucket
  PROVE  LET p == Put(bs, b)
         IN /\ p \in Seq(Bucket)
            /\ \A i, j \in DOMAIN p : p[i].key = p[j].key => i = j
            /\ b \in ToSet(p)
            /\ \A x \in ToSet(p) : x = b \/ (x.key # b.key /\ x \in ToSet(bs))
            /\ \A x \in ToSet(bs) : x.key # b.key => x \in ToSet(p)
            /\ Len(p) <= MaxKeys \/ (Len(p) = MaxKeys + 1 /\ p[Len(p)] = b)
<1> DEFINE p == Put(bs, b)
<1> USE LimiterAssumption DEF GoodBuckets
<1>0. \A i \in DOMAIN bs : bs[i] \in Bucket
  OBVIOUS
<1>1. CASE b.key \in KeysOf(bs)
  <2>1. p = [i \in 1 .. Len(bs) |-> IF bs[i].key = b.key THEN b ELSE bs[i]]
    BY <1>1 DEF Put
  <2> HIDE DEF p
  <2>2. p \in Seq(Bucket) /\ Len(p) = Len(bs) /\ DOMAIN p = 1 .. Len(bs) /\ DOMAIN bs = 1 .. Len(bs)
    BY <1>0, <2>1
  <2>3. \A i \in DOMAIN p : p[i] = IF bs[i].key = b.key THEN b ELSE bs[i]
    BY <2>1, <2>2
  <2>4. \A i \in DOMAIN p : p[i].key = bs[i].key
    BY <2>3
  <2>5. \A i, j \in DOMAIN p : p[i].key = p[j].key => i = j
    BY <2>2, <2>4
  <2>6. b \in ToSet(p)
    BY <1>1, <2>2, <2>3 DEF KeysOf, ToSet
  <2>7. \A x \in ToSet(p) : x = b \/ (x.key # b.key /\ x \in ToSet(bs))
    BY <2>2, <2>3 DEF ToSet
  <2>8. \A x \in ToSet(bs) : x.key # b.key => x \in ToSet(p)
    BY <2>2, <2>3 DEF ToSet
  <2> QED
    BY <2>2, <2>5, <2>6, <2>7, <2>8 DEF p
<1>2. CASE b.key \notin KeysOf(bs)
  <2>1. p = Append(bs, b)
    BY <1>2 DEF Put
  <2>2. /\ p \in Seq(Bucket) /\ Len(p) = Len(bs) + 1 /\ p[Len(p)] = b
        /\ \A i \in 1 .. Len(bs) : p[i] = bs[i]
        /\ DOMAIN p = 1 .. Len(bs) + 1 /\ DOMAIN bs = 1 .. Len(bs) /\ Len(bs) \in Nat
    BY <2>1
  <2> HIDE DEF p
  <2>3. \A i \in DOMAIN p : i \in DOMAIN bs \/ i = Len(p)
    BY <2>2
  <2>4. \A i \in DOMAIN bs : i \in DOMAIN p /\ p[i] = bs[i] /\ bs[i].key # b.key /\ i # Len(p)
    BY <1>2, <2>2 DEF KeysOf
  <2>5. \A i, j \in DOMAIN p : p[i].key = p[j].key => i = j
    BY <2>2, <2>3, <2>4
  <2>6. Len(p) \in DOMAIN p /\ b \in ToSet(p)
    BY <2>2 DEF ToSet
  <2>7. \A x \in ToSet(p) : x = b \/ (x.key # b.key /\ x \in ToSet(bs))
    BY <2>2, <2>3, <2>4 DEF ToSet
  <2>8. \A x \in ToSet(bs) : x \in ToSet(p)
    BY <2>4 DEF ToSet
  <2>9. Len(p) <= MaxKeys \/ (Len(p) = MaxKeys + 1 /\ p[Len(p)] = b)
    BY <2>2
  <2> QED
    BY <2>2, <2>5, <2>6, <2>7, <2>8, <2>9 DEF p
<1> QED
  BY <1>1, <1>2

\* gc() keeps the last bucket of a map over its cap, and every bucket whose window
\* is open of a map within it.
LEMMA GcLeaves ==
  ASSUME NEW bs \in Seq(Bucket), \A i, j \in DOMAIN bs : bs[i].key = bs[j].key => i = j,
         Len(bs) <= MaxKeys + 1, NEW t \in Int, NEW b \in ToSet(bs), ~WindowOver(b, t),
         Len(bs) <= MaxKeys \/ bs[Len(bs)] = b
  PROVE  /\ GoodBuckets(Gc(bs, t))
         /\ b \in ToSet(Gc(bs, t)) /\ ToSet(Gc(bs, t)) \subseteq ToSet(bs)
<1> DEFINE g == Gc(bs, t)
<1> USE LimiterAssumption
<1>0. DOMAIN bs = 1 .. Len(bs) /\ Len(bs) \in Nat
  OBVIOUS
<1>1. CASE Len(bs) > MaxKeys
  <2>0. Len(bs) = MaxKeys + 1 /\ Len(bs) - MaxKeys + 1 = 2
    <3>1. \A m, n \in Nat : m > n /\ m <= n + 1 => m = n + 1 /\ m - n + 1 = 2
      OBVIOUS
    <3>2. Len(bs) \in Nat /\ MaxKeys \in Nat
      BY <1>0
    <3> QED
      BY <1>1, <3>1, <3>2
  <2>1. g = SubSeq(bs, 2, Len(bs)) /\ Len(bs) = MaxKeys + 1
    BY <1>1, <2>0 DEF Gc
  <2>2. /\ g \in Seq(Bucket) /\ Len(g) = MaxKeys /\ DOMAIN g = 1 .. MaxKeys
        /\ \A i \in 1 .. MaxKeys : g[i] = bs[i + 1]
    <3>1. Len(g) = Len(bs) - 1
      BY <1>0, <2>1
    <3>2. g \in Seq(Bucket)
      BY <1>0, <2>1
    <3>3. \A i \in 1 .. Len(g) : g[i] = bs[i + 1]
      BY <1>0, <2>1
    <3> QED
      BY <2>1, <3>1, <3>2, <3>3
  <2> HIDE DEF g
  <2>3. \A i \in DOMAIN g : i + 1 \in DOMAIN bs /\ g[i] = bs[i + 1]
    BY <1>0, <2>1, <2>2
  <2>4. \A i, j \in DOMAIN g : g[i].key = g[j].key => i = j
    <3>1. SUFFICES ASSUME NEW i \in DOMAIN g, NEW j \in DOMAIN g, g[i].key = g[j].key
                   PROVE  i = j
      OBVIOUS
    <3>2. bs[i + 1].key = bs[j + 1].key /\ i + 1 \in DOMAIN bs /\ j + 1 \in DOMAIN bs
      BY <2>3, <3>1
    <3>3. i + 1 = j + 1
      BY <3>2
    <3> QED
      BY <2>2, <3>3
  <2>5. MaxKeys \in DOMAIN g /\ g[MaxKeys] = b
    BY <1>1, <2>1, <2>2
  <2> QED
    BY <2>2, <2>3, <2>4, <2>5 DEF g, GoodBuckets, ToSet
<1>2. CASE ~(Len(bs) > MaxKeys) /\ 2 * Len(bs) > MaxKeys
  <2> DEFINE I == {i \in DOMAIN bs : ~WindowOver(bs[i], t)}
  <2>1. g = KeepAt(bs, I)
    BY <1>2 DEF Gc
  <2>2. I \in SUBSET (1 .. Len(bs))
    BY <1>0
  <2>3. PICK i0 \in I : bs[i0] = b
    BY DEF ToSet
  <2>4. bs \in Seq(Bucket) /\ I \in SUBSET DOMAIN bs
    OBVIOUS
  <2> HIDE DEF I
  <2>6. PICK p : KeptBy(p, Bucket, bs, I)
    BY <2>4, KeptOfSeq
  <2>7. PICK n \in Nat : n = Cardinality(I)
    BY <2>6 DEF KeptBy
  <2>8. /\ g \in Seq(Bucket) /\ DOMAIN g = 1 .. n /\ Len(g) = n /\ n <= Len(bs)
        /\ \A j \in 1 .. n : g[j] = bs[p[j]] /\ p[j] \in DOMAIN bs
        /\ \A i \in I : \E j \in 1 .. n : p[j] = i
        /\ \A j, k \in 1 .. n : j < k => p[j] < p[k]
    BY <2>1, <2>4, <2>6, <2>7 DEF KeptBy
  <2> HIDE DEF g
  <2>10. Len(g) <= MaxKeys
    BY <1>0, <1>2, <2>8
  <2>11. \A j, k \in DOMAIN g : g[j].key = g[k].key => j = k
    <3>1. \A j, k \in 1 .. n : p[j] = p[k] => j = k
      <4>1. \A j, k \in 1 .. n : j < k => p[j] < p[k]
        BY <2>8
      <4>2. \A j \in 1 .. n : p[j] \in Int
        BY <1>0, <2>8
      <4> QED
        BY <4>1, <4>2
    <3>2. SUFFICES ASSUME NEW j \in 1 .. n, NEW k \in 1 .. n, g[j].key = g[k].key
                   PROVE  j = k
      BY <2>8
    <3>3. /\ g[j] = bs[p[j]] /\ g[k] = bs[p[k]]
          /\ p[j] \in DOMAIN bs /\ p[k] \in DOMAIN bs
      BY <2>8
    <3>4. p[j] = p[k]
      BY <3>2, <3>3
    <3> QED
      BY <3>1, <3>4
  <2>12. b \in ToSet(g)
    <3>1. PICK j \in 1 .. n : p[j] = i0
      BY <2>3, <2>8
    <3>2. g[j] = bs[p[j]] /\ j \in DOMAIN g
      BY <2>8
    <3>3. g[j] = b
      BY <2>3, <3>1, <3>2
    <3> QED
      BY <3>2, <3>3 DEF ToSet
  <2>13. ToSet(g) \subseteq ToSet(bs)
    <3>1. \A j \in DOMAIN g : g[j] = bs[p[j]] /\ p[j] \in DOMAIN bs
      BY <2>8
    <3>2. \A j \in DOMAIN g : g[j] \in ToSet(bs)
      BY <3>1 DEF ToSet
    <3> QED
      BY <3>2 DEF ToSet
  <2> QED
    BY <2>8, <2>10, <2>11, <2>12, <2>13 DEF g, GoodBuckets
<1>3. CASE ~(Len(bs) > MaxKeys) /\ ~(2 * Len(bs) > MaxKeys)
  <2>1. g = bs /\ Len(bs) <= MaxKeys
    BY <1>0, <1>3 DEF Gc
  <2> QED
    BY <2>1 DEF GoodBuckets
<1> QED
  BY <1>1, <1>2, <1>3

\* b is the bucket of k that the outcome c of check() holds: begun at t, as none is
\* open, or counted up.
Holds(c, b, bs, k, t) ==
  /\ b \in ToSet(c.buckets) /\ b.key = k /\ c.allowed = WithinLimit(b)
  /\ \A x \in ToSet(c.buckets) : x.key = k => x = b
  /\ \/ /\ b = [key |-> k, count |-> 1, start |-> t]
        /\ \A x \in ToSet(bs) : x.key = k => WindowOver(x, t)
     \/ \E x \in ToSet(bs) :
          /\ x.key = k /\ ~WindowOver(x, t)
          /\ b = [x EXCEPT !.count = @ + 1]

\* The buckets of others stay as they are, or go.
LEMMA CheckLeaves ==
  ASSUME Limit > 0, NEW bs, GoodBuckets(bs), NEW k \in Keys, NEW t \in Times,
         NEW c, c = Check(bs, k, t)
  PROVE  /\ GoodBuckets(c.buckets)
         /\ \A x \in ToSet(c.buckets) : x.key # k => x \in ToSet(bs)
         /\ \E b : Holds(c, b, bs, k, t)
<1> DEFINE fresh == k \notin KeysOf(bs) \/ WindowOver(BucketOf(bs, k), t)
           one   == [key |-> k, count |-> 1, start |-> t]
           two   == [BucketOf(bs, k) EXCEPT !.count = @ + 1]
<1>0. ~(Limit <= 0)
  BY LimiterAssumption
<1>1. \A i \in DOMAIN bs : bs[i] \in Bucket
  BY DEF GoodBuckets
<1>2. \A x, y \in ToSet(bs) : x \in Bucket /\ (x.key = y.key => x = y)
  BY <1>1 DEF GoodBuckets, ToSet
<1>3. k \in KeysOf(bs) => BucketOf(bs, k) \in ToSet(bs) /\ BucketOf(bs, k).key = k
  BY DEF KeysOf, ToSet, BucketOf
<1>4. CASE fresh
  <2>0. c = [allowed |-> WithinLimit(one), buckets |-> Gc(Put(bs, one), t)]
    BY <1>0, <1>4, Zenon DEF Check
  <2>1. c.allowed = WithinLimit(one) /\ c.buckets = Gc(Put(bs, one), t)
    BY <2>0
  <2>2. one \in Bucket
    BY DEF Bucket
  <2>3. one.key = k /\ one.start = t
    OBVIOUS
  <2> HIDE DEF one, fresh
  <2>4. PICK p : p = Put(bs, one)
    OBVIOUS
  <2>5. /\ p \in Seq(Bucket)
        /\ \A i, j \in DOMAIN p : p[i].key = p[j].key => i = j
        /\ one \in ToSet(p)
        /\ \A x \in ToSet(p) : x = one \/ (x.key # k /\ x \in ToSet(bs))
        /\ Len(p) <= MaxKeys \/ (Len(p) = MaxKeys + 1 /\ p[Len(p)] = one)
    BY <2>2, <2>3, <2>4, PutLeaves
  <2>6. ~WindowOver(one, t) /\ t \in Int
    BY <2>3, LimiterAssumption DEF WindowOver, Times
  <2>7. Len(p) <= MaxKeys + 1
    BY <2>5, LimiterAssumption
  <2>8. GoodBuckets(Gc(p, t)) /\ one \in ToSet(Gc(p, t)) /\ ToSet(Gc(p, t)) \subseteq ToSet(p)
    BY <2>5, <2>6, <2>7, GcLeaves
  <2>9. GoodBuckets(c.buckets) /\ one \in ToSet(c.buckets) /\ ToSet(c.buckets) \subseteq ToSet(p)
    BY <2>1, <2>4, <2>8
  <2>10. \A x \in ToSet(bs) : x.key = k => WindowOver(x, t)
    <3>1. ASSUME NEW x \in ToSet(bs), x.key = k PROVE WindowOver(x, t)
      <4>1. k \in KeysOf(bs)
        BY <3>1 DEF KeysOf, ToSet
      <4>2. x = BucketOf(bs, k)
        BY <1>2, <1>3, <3>1, <4>1
      <4> QED
        BY <1>4, <4>1, <4>2 DEF fresh
    <3> QED
      BY <3>1
  <2> QED
    BY <2>1, <2>3, <2>5, <2>9, <2>10 DEF one, Holds
<1>5. CASE ~fresh
  <2>0. c = [allowed |-> WithinLimit(two), buckets |-> Put(bs, two)]
    BY <1>0, <1>5, Zenon DEF Check
  <2>1. c.allowed = WithinLimit(two) /\ c.buckets = Put(bs, two)
    BY <2>0
  <2>2. PICK x \in ToSet(bs) : x = BucketOf(bs, k) /\ x.key = k /\ ~WindowOver(x, t)
    BY <1>3, <1>5
  <2>3. x \in Bucket
    BY <1>2
  <2>4. two = [x EXCEPT !.count = @ + 1]
    BY <2>2
  <2> HIDE DEF two, fresh
  <2>5. two \in Bucket /\ two.key = k
    BY <2>2, <2>3, <2>4 DEF Bucket
  <2>6. PICK p : p = Put(bs, two)
    OBVIOUS
  <2>7. k \in KeysOf(bs)
    BY <2>2 DEF KeysOf, ToSet
  <2>8. /\ p \in Seq(Bucket)
        /\ \A i, j \in DOMAIN p : p[i].key = p[j].key => i = j
        /\ two \in ToSet(p)
        /\ \A y \in ToSet(p) : y = two \/ (y.key # k /\ y \in ToSet(bs))
    BY <2>5, <2>6, PutLeaves
  <2>9. Len(p) <= MaxKeys
    <3>1. p = [i \in DOMAIN bs |-> IF bs[i].key = two.key THEN two ELSE bs[i]]
      BY <2>5, <2>6, <2>7 DEF Put
    <3>2. bs \in Seq(Bucket) /\ Len(bs) <= MaxKeys
      BY DEF GoodBuckets
    <3>3. DOMAIN p = 1 .. Len(bs) /\ Len(bs) \in Nat
      BY <3>1, <3>2
    <3>4. Len(p) = Len(bs)
      BY <2>8, <3>3
    <3> QED
      BY <3>2, <3>4
  <2>10. GoodBuckets(c.buckets) /\ c.buckets = p
    BY <2>1, <2>6, <2>8, <2>9 DEF GoodBuckets
  <2> QED
    BY <2>1, <2>2, <2>4, <2>5, <2>8, <2>10 DEF Holds
<1> QED
  BY <1>4, <1>5

(***************************************************************************)
(* What one more hit does to the sums.                                     *)
(***************************************************************************)

LEMMA TimeIsFinite == \A T \in SUBSET Times : IsFiniteSet(T)
<1>1. IsFiniteSet(Times)
  BY LimiterAssumption, FS_Interval DEF Times
<1> QED
  BY <1>1, FS_Subset

LEMMA HitsIsNat ==
  ASSUME NEW a \in [Times -> Nat], NEW T \in SUBSET Times
  PROVE  Hits(a, T) \in Nat
BY TimeIsFinite, SumNat DEF Hits

LEMMA FewerTimes ==
  ASSUME NEW a \in [Times -> Nat], NEW T \in SUBSET Times, NEW S \in SUBSET T
  PROVE  Hits(a, S) <= Hits(a, T)
<1>1. IsFiniteSet(T)
  BY TimeIsFinite
<1>2. (\A x \in S : a[x] \in Int /\ a[x] <= a[x]) /\ (\A x \in T : a[x] \in Nat)
  OBVIOUS
<1> QED
  BY <1>1, <1>2, SumMonotone DEF Hits

\* From a to e one more hit was let through, at u.
Adds(a, e, u) ==
  /\ e \in [Times -> Nat] /\ e[u] = a[u] + 1
  /\ \A y \in Times : y # u => e[y] = a[y]

LEMMA OneMore ==
  ASSUME NEW a \in [Times -> Nat], NEW u \in Times, NEW T \in SUBSET Times,
         NEW e, Adds(a, e, u)
  PROVE  /\ u \in T => Hits(e, T) = Hits(a, T) + 1
         /\ u \notin T => Hits(e, T) = Hits(a, T)
<1>2. e \in [Times -> Nat] /\ e[u] = a[u] + 1 /\ \A y \in Times : y # u => e[y] = a[y]
  BY DEF Adds
<1>3. IsFiniteSet(T)
  BY TimeIsFinite
<1>4. Hits(a, T) \in Nat
  BY HitsIsNat
<1>5. ASSUME u \in T PROVE Hits(e, T) = Hits(a, T) + 1
  <2>1. \A y \in T : a[y] \in Int /\ e[y] \in Int
    BY <1>2
  <2>2. \A y \in T : y # u => e[y] = a[y]
    BY <1>2
  <2>3. Hits(e, T) = Hits(a, T) - a[u] + e[u]
    BY <1>3, <1>5, <2>1, <2>2, SumChange DEF Hits
  <2>4. a[u] \in Nat
    OBVIOUS
  <2> QED
    BY <1>2, <1>4, <2>3, <2>4
<1>6. ASSUME u \notin T PROVE Hits(e, T) = Hits(a, T)
  <2>1. \A y \in T : e[y] = a[y]
    BY <1>2, <1>6
  <2> QED
    BY <1>3, <2>1, SumSame DEF Hits
<1> QED
  BY <1>5, <1>6

LEMMA TimesAre ==
  /\ \A t \in Int : Since(t) \in SUBSET Times /\ SpanTo(t) \in SUBSET Times
  /\ \A t, u \in Int : Between(t, u) \in SUBSET Times
BY DEF Since, SpanTo, Between

\* A window that ended leaves room for the next.
LEMMA EndedRests ==
  ASSUME NEW a \in [Times -> Nat], NEW b \in Bucket, Counts(a, b), NEW t \in Times, WindowOver(b, t)
  PROVE  Rested(a, t)
<1>1. b.start \in Times /\ b.start \in Int /\ Window \in Nat \ {0} /\ t \in Int /\ Limit \in Int
  BY LimiterAssumption DEF Bucket, Times
<1>2. t >= b.start + Window
  BY <1>1 DEF WindowOver
<1>3. Silent(a, Since(t))
  <2>1. Since(t) \subseteq Since(b.start + Window)
    BY <1>1, <1>2 DEF Since, Times
  <2> QED
    BY <2>1 DEF Counts, Silent
<1>4. PICK S : S = Since(b.start)
  OBVIOUS
<1>5. S \in SUBSET Times /\ b.start \in S /\ IsFiniteSet(S)
  BY <1>1, <1>4, TimeIsFinite DEF Since
<1>6. Since(t - Window + 1) \in SUBSET (S \ {b.start})
  BY <1>1, <1>2, <1>4 DEF Since, Times
<1>7. Hits(a, S) = a[b.start] + Hits(a, S \ {b.start})
  BY <1>5, SumRemove DEF Hits
<1>8. Hits(a, Since(t - Window + 1)) <= Hits(a, S \ {b.start})
  <2>1. S \ {b.start} \in SUBSET Times
    BY <1>5
  <2> QED
    BY <1>6, <2>1, FewerTimes
<1>9. Hits(a, S) <= Limit /\ a[b.start] >= 1 /\ a[b.start] \in Nat
  BY <1>1, <1>4 DEF Counts
<1>10. Hits(a, S \ {b.start}) \in Nat /\ Hits(a, Since(t - Window + 1)) \in Nat
  BY <1>5, <1>6, HitsIsNat
<1>11. Hits(a, Since(t - Window + 1)) < Limit
  BY <1>1, <1>7, <1>8, <1>9, <1>10
<1> QED
  BY <1>3, <1>11 DEF Rested

\* A window that begins with a hit at t.
LEMMA FreshHit ==
  ASSUME Limit > 0, NEW a \in [Times -> Nat], NEW t \in Times,
         Rested(a, t), Halved(a),
         NEW b, b.start = t, b.count = 1,
         NEW e, Adds(a, e, t)
  PROVE  Counts(e, b) /\ Halved(e)
<1>1. t \in Int /\ Window \in Nat \ {0} /\ Limit \in Int /\ Limit > 0 /\ t + Window \in Int
      /\ t - Window \in Int /\ t - Window + 1 \in Int
  BY LimiterAssumption DEF Times
<1>2. e \in [Times -> Nat] /\ e[t] = a[t] + 1 /\ a[t] \in Nat /\ \A y \in Times : y # t => e[y] = a[y]
  BY DEF Adds
<1>3. \A s \in Since(t) : a[s] = 0
  BY DEF Rested, Silent
<1>4. PICK S \in SUBSET Times : S = Since(t - Window + 1)
  BY <1>1, TimesAre
<1>5. t \in S /\ t \in Since(t)
  BY <1>1, <1>4 DEF Since
<1>6. Hits(e, S) = Hits(a, S) + 1 /\ Hits(a, S) < Limit
  BY <1>4, <1>5, OneMore DEF Rested
<1>7. Hits(e, S) \in Nat /\ Hits(a, S) \in Nat
  BY <1>2, HitsIsNat
<1>8. Hits(e, S) <= Limit
  BY <1>1, <1>6, <1>7
<1>9. Hits(e, Since(t)) = 1
  <2>1. PICK V \in SUBSET Times : V = Since(t)
    BY <1>1, TimesAre
  <2>2. IsFiniteSet(V) /\ IsFiniteSet(V \ {t}) /\ t \in V
    BY <1>5, <2>1, TimeIsFinite, FS_Subset
  <2>3. Hits(e, V) = e[t] + Hits(e, V \ {t})
    <3>1. \A y \in V : e[y] \in Int
      BY <1>2
    <3> QED
      BY <2>2, <3>1, SumRemove DEF Hits
  <2>5. Hits(e, V \ {t}) = 0
    <3>1. \A y \in V \ {t} : e[y] = 0
      BY <1>2, <1>3, <2>1
    <3>2. \A y \in V \ {t} : e[y] \in Int /\ e[y] <= 0
      BY <3>1
    <3>3. \A y \in {} : e[y] \in Nat
      OBVIOUS
    <3>4. Hits(e, V \ {t}) <= Hits(e, {})
      <4>1. PICK m : m = [y \in Times |-> y]
        OBVIOUS
      <4>2. \A x, y \in V \ {t} : m[x] = m[y] => x = y
        BY <4>1
      <4>3. \A x \in V \ {t} : e[x] \in Int /\ (e[x] <= 0 \/ (m[x] \in {} /\ e[x] <= e[m[x]]))
        BY <3>2
      <4>4. IsFiniteSet({})
        BY FS_EmptySet
      <4> QED
        BY <2>2, <3>3, <4>2, <4>3, <4>4, SumInjects DEF Hits
    <3>5. Hits(e, {}) = 0
      BY SumEmpty DEF Hits
    <3>6. Hits(e, V \ {t}) \in Nat
      BY <1>2, HitsIsNat
    <3> QED
      BY <3>4, <3>5, <3>6
  <2>6. e[t] = 1
    BY <1>2, <1>3, <1>5
  <2> QED
    BY <2>1, <2>3, <2>5, <2>6
<1>10. Silent(e, Since(t + Window))
  <2>1. \A s \in Since(t + Window) : s \in Since(t) /\ s # t /\ s \in Times
    BY <1>1 DEF Since, Times
  <2> QED
    BY <1>2, <1>3, <2>1 DEF Silent
<1>11. Hits(e, Between(t - Window, t)) < Limit
  <2>1. PICK V \in SUBSET Times : V = Between(t - Window, t)
    BY <1>1, TimesAre
  <2>2. t \notin V /\ V \in SUBSET S
    BY <1>1, <1>4, <2>1 DEF Between, Since, Times
  <2>3. Hits(e, V) = Hits(a, V)
    BY <2>2, OneMore
  <2>5. Hits(a, V) <= Hits(a, S) /\ Hits(a, V) \in Nat
    BY <2>2, FewerTimes, HitsIsNat
  <2>4. Hits(e, V) < Limit
    BY <1>1, <1>6, <1>7, <2>3, <2>5
  <2> QED
    BY <2>1, <2>4
<1>12. Counts(e, b)
  <2>1. Hits(e, Since(b.start)) <= b.count /\ Hits(e, Since(b.start)) <= Limit
    BY <1>1, <1>9
  <2>2. e[b.start] >= 1
    BY <1>2
  <2> QED
    BY <1>10, <1>11, <2>1, <2>2 DEF Counts
<1>13. ASSUME NEW u \in Times PROVE Hits(e, SpanTo(u)) < 2 * Limit
  <2>1. PICK V \in SUBSET Times : V = SpanTo(u)
    BY TimesAre DEF Times
  <2>2. CASE t \notin V
    <3>1. Hits(e, V) = Hits(a, V)
      BY <2>2, OneMore
    <3> QED
      BY <2>1, <3>1 DEF Halved
  <2>3. CASE t \in V
    <3>1. V \in SUBSET S
      BY <1>1, <1>4, <2>1, <2>3 DEF SpanTo, Since, Times
    <3>2. Hits(e, V) <= Hits(e, S) /\ Hits(e, V) \in Nat
      BY <1>2, <3>1, FewerTimes, HitsIsNat
    <3> QED
      BY <1>1, <1>7, <1>8, <2>1, <3>2
  <2> QED
    BY <2>2, <2>3
<1> QED
  BY <1>12, <1>13 DEF Halved

\* A hit within the window, and within its allowance.
LEMMA CountedHit ==
  ASSUME Limit > 0, NEW a \in [Times -> Nat], NEW t \in Times, Halved(a),
         NEW x \in Bucket, x.start <= t, ~WindowOver(x, t), Counts(a, x),
         NEW b, b.start = x.start, b.count = x.count + 1, b.count <= Limit,
         NEW e, Adds(a, e, t)
  PROVE  Counts(e, b) /\ Halved(e)
<1>1. /\ t \in Int /\ Window \in Nat \ {0} /\ Limit \in Int /\ Limit > 0 /\ x.count \in Nat
      /\ x.start \in Int /\ x.start \in Times /\ x.start + Window \in Int /\ x.start - Window \in Int
  BY LimiterAssumption DEF Times, Bucket
<1>2. e \in [Times -> Nat] /\ a[x.start] \in Nat /\ e[x.start] \in Nat /\ e[x.start] >= a[x.start]
  <2>1. e \in [Times -> Nat] /\ e[t] = a[t] + 1 /\ \A y \in Times : y # t => e[y] = a[y]
    BY DEF Adds
  <2>2. a[x.start] \in Nat /\ e[x.start] \in Nat /\ a[t] \in Nat
    BY <1>1, <2>1
  <2> QED
    BY <1>1, <2>1, <2>2
<1>3. t < x.start + Window /\ x.start <= t
  BY <1>1 DEF WindowOver
<1>4. PICK S \in SUBSET Times : S = Since(x.start)
  BY <1>1, TimesAre
<1>5. PICK V \in SUBSET Times : V = Between(x.start - Window, x.start)
  BY <1>1, TimesAre
<1>6. t \in S /\ t \notin V /\ S \cap V = {}
  BY <1>1, <1>3, <1>4, <1>5 DEF Since, Between, Times
<1>7. Hits(e, S) = Hits(a, S) + 1 /\ Hits(e, V) = Hits(a, V)
  BY <1>6, OneMore
<1>8. Hits(a, S) <= x.count /\ Hits(a, V) < Limit /\ a[x.start] >= 1
  BY <1>4, <1>5 DEF Counts
<1>9. Hits(a, S) \in Nat /\ Hits(e, S) \in Nat /\ Hits(e, V) \in Nat
  BY <1>2, HitsIsNat
<1>10. Hits(e, S) <= b.count /\ Hits(e, S) <= Limit
  BY <1>1, <1>7, <1>8, <1>9
<1>11. Silent(e, Since(x.start + Window))
  <2>1. \A s \in Since(x.start + Window) : s # t /\ s \in Times /\ a[s] = 0
    BY <1>1, <1>3 DEF Since, Counts, Silent, Times
  <2>2. \A y \in Times : y # t => e[y] = a[y]
    BY DEF Adds
  <2> QED
    BY <2>1, <2>2 DEF Silent
<1>12. Counts(e, b)
  BY <1>1, <1>2, <1>4, <1>5, <1>7, <1>8, <1>10, <1>11 DEF Counts
<1>13. ASSUME NEW u \in Times PROVE Hits(e, SpanTo(u)) < 2 * Limit
  <2>1. PICK U \in SUBSET Times : U = SpanTo(u)
    BY TimesAre DEF Times
  <2>2. CASE t \notin U
    <3>1. Hits(e, U) = Hits(a, U)
      BY <2>2, OneMore
    <3> QED
      BY <2>1, <3>1 DEF Halved
  <2>3. CASE t \in U
    <3>1. U \in SUBSET (S \cup V)
      BY <1>1, <1>3, <1>4, <1>5, <2>1, <2>3 DEF SpanTo, Since, Between, Times
    <3>2. Hits(e, S \cup V) = Hits(e, S) + Hits(e, V)
      <4>1. IsFiniteSet(S) /\ IsFiniteSet(V)
        BY TimeIsFinite
      <4>2. \A y \in S \cup V : e[y] \in Int
        BY <1>2
      <4> QED
        BY <1>6, <4>1, <4>2, SumUnion DEF Hits
    <3>3. S \cup V \in SUBSET Times
      OBVIOUS
    <3>4. Hits(e, U) <= Hits(e, S \cup V) /\ Hits(e, U) \in Nat
      BY <1>2, <3>1, <3>3, FewerTimes, HitsIsNat
    <3> QED
      BY <1>1, <1>7, <1>8, <1>9, <1>10, <2>1, <3>2, <3>4
  <2> QED
    BY <2>2, <2>3
<1> QED
  BY <1>12, <1>13 DEF Halved

(***************************************************************************)
(* The invariant.                                                          *)
(***************************************************************************)

LEMMA LimiterStarts == Limit > 0 /\ LimiterInit => LimiterInv
<1> SUFFICES ASSUME Limit > 0, LimiterInit PROVE LimiterInv
  OBVIOUS
<1>1. now \in Times /\ now = 0 /\ 0 \in Times
  BY LimiterAssumption DEF LimiterInit, Times
<1>2. allowed \in [Times -> Nat] /\ \A s \in Times : allowed[s] = 0
  BY DEF LimiterInit, Times
<1>3. GoodBuckets(buckets) /\ ToSet(buckets) = {} /\ KeysOf(buckets) = {}
  <2>1. buckets \in Seq(Bucket) /\ Len(buckets) = 0 /\ DOMAIN buckets = {}
    BY DEF LimiterInit
  <2> QED
    BY <2>1, LimiterAssumption DEF GoodBuckets, ToSet, KeysOf
<1>4. LimiterTypeOK
  BY <1>1, <1>2, <1>3 DEF LimiterTypeOK, LimiterInit
<1>5. ASSUME NEW T \in SUBSET Times PROVE Hits(allowed, T) = 0
  <2>1. PICK m : m = [y \in Times |-> y]
    OBVIOUS
  <2>2. \A x, y \in T : m[x] = m[y] => x = y
    BY <2>1
  <2>3. \A x \in T : allowed[x] \in Int /\ (allowed[x] <= 0 \/ (m[x] \in {} /\ allowed[x] <= allowed[m[x]]))
    BY <1>2
  <2>4. IsFiniteSet({}) /\ IsFiniteSet(T) /\ \A y \in {} : allowed[y] \in Nat
    BY FS_EmptySet, TimeIsFinite
  <2>5. Hits(allowed, T) <= Hits(allowed, {})
    BY <2>2, <2>3, <2>4, SumInjects DEF Hits
  <2>6. Hits(allowed, T) \in Nat /\ Hits(allowed, {}) = 0
    BY <1>2, HitsIsNat, SumEmpty DEF Hits
  <2> QED
    BY <2>5, <2>6
<1>6. Silent(allowed, Since(now + 1)) /\ Silent(allowed, Since(now))
  BY <1>2 DEF Silent, Since
<1>7. Halved(allowed)
  <2>1. ASSUME NEW t \in Times PROVE Hits(allowed, SpanTo(t)) < 2 * Limit
    <3>1. t \in Int
      BY DEF Times
    <3>2. SpanTo(t) \in SUBSET Times
      BY <3>1, TimesAre
    <3> QED
      BY <1>5, <3>2, LimiterAssumption
  <2> QED
    BY <2>1 DEF Halved
<1>8. Rested(allowed, now)
  <2>1. now - Window + 1 \in Int
    BY <1>1, LimiterAssumption
  <2>2. Since(now - Window + 1) \in SUBSET Times
    BY <2>1, TimesAre
  <2> QED
    BY <1>5, <1>6, <2>2, LimiterAssumption DEF Rested
<1> QED
  BY <1>3, <1>4, <1>6, <1>7, <1>8 DEF LimiterInv

LEMMA HitKeepsInv ==
  ASSUME Limit > 0, LimiterInv, NEW k \in Keys, Hit(k)
  PROVE  LimiterInv'
<1>0. PICK c : c = Check(buckets, k, now)
  OBVIOUS
<1>1. /\ now \in Times /\ now' = now /\ GoodBuckets(buckets) /\ allowed \in [Times -> Nat]
      /\ forgotten \in BOOLEAN /\ forgotten' \in BOOLEAN
      /\ \A b \in ToSet(buckets) : b.start <= now
  BY DEF LimiterInv, LimiterTypeOK, Hit
<1>2. buckets' = c.buckets
  BY <1>0 DEF Hit
<1>17. PICK b : Holds(c, b, buckets, k, now)
  BY <1>0, <1>1, CheckLeaves
<1>3. /\ b \in ToSet(buckets') /\ b.key = k /\ c.allowed = WithinLimit(b)
      /\ \A x \in ToSet(buckets') : x.key = k => x = b
      /\ \/ /\ b = [key |-> k, count |-> 1, start |-> now]
            /\ \A x \in ToSet(buckets) : x.key = k => WindowOver(x, now)
         \/ \E x \in ToSet(buckets) :
              /\ x.key = k /\ ~WindowOver(x, now)
              /\ b = [x EXCEPT !.count = @ + 1]
  BY <1>2, <1>17 DEF Holds
<1>4. GoodBuckets(buckets') /\ \A x \in ToSet(buckets') : x.key # k => x \in ToSet(buckets)
  BY <1>0, <1>1, <1>2, CheckLeaves
<1>5. allowed' = IF WithinLimit(b) /\ k = Observed THEN [allowed EXCEPT ![now] = @ + 1] ELSE allowed
  BY <1>0, <1>3 DEF Hit
<1>6. ~forgotten' =>
        /\ ~forgotten
        /\ \A x \in ToSet(buckets) :
             x.key = Observed /\ ~WindowOver(x, now) => Observed \in KeysOf(buckets')
  BY <1>0, <1>2 DEF Hit
<1>7. /\ \A x \in ToSet(buckets) : x \in Bucket /\ x.key \in KeysOf(buckets)
      /\ \A x \in ToSet(buckets') : x \in Bucket /\ x.key \in KeysOf(buckets')
      /\ \A y \in KeysOf(buckets) : \E x \in ToSet(buckets) : x.key = y
  BY <1>1, <1>4 DEF GoodBuckets, ToSet, KeysOf
<1>8. b.start <= now
  <2>1. now <= now
    BY <1>1 DEF Times
  <2>2. ASSUME NEW x \in ToSet(buckets), b = [x EXCEPT !.count = @ + 1]
        PROVE  b.start <= now
    <3>1. x \in Bucket
      BY <1>7
    <3>2. b.start = x.start
      BY <2>2, <3>1 DEF Bucket
    <3> QED
      BY <1>1, <3>2
  <2>3. ASSUME b = [key |-> k, count |-> 1, start |-> now] PROVE b.start <= now
    BY <2>1, <2>3
  <2> QED
    BY <1>3, <2>2, <2>3
<1>9. Adds(allowed, [allowed EXCEPT ![now] = @ + 1], now)
  BY <1>1 DEF Adds
<1>10. LimiterTypeOK'
  <2>1. allowed' \in [Times -> Nat]
    BY <1>1, <1>5, <1>9 DEF Adds
  <2>2. \A x \in ToSet(buckets') : x.start <= now
    BY <1>1, <1>3, <1>4, <1>8
  <2> QED
    BY <1>1, <1>4, <2>1, <2>2 DEF LimiterTypeOK
<1>11. Silent(allowed', Since(now' + 1))
  <2>1. \A s \in Since(now + 1) : s \in Times /\ s # now /\ allowed[s] = 0
    BY <1>1 DEF LimiterInv, Silent, Since, Times
  <2> QED
    BY <1>1, <1>5, <1>9, <2>1 DEF Adds, Silent
<1>12. SUFFICES ASSUME ~forgotten'
                PROVE  /\ Halved(allowed')
                       /\ \A x \in ToSet(buckets') : x.key = Observed => Counts(allowed', x)
                       /\ Observed \notin KeysOf(buckets') => Rested(allowed', now')
  BY <1>10, <1>11 DEF LimiterInv
<1>13. /\ Halved(allowed)
       /\ \A x \in ToSet(buckets) : x.key = Observed => Counts(allowed, x)
       /\ Observed \notin KeysOf(buckets) => Rested(allowed, now)
  BY <1>6, <1>12 DEF LimiterInv
<1>14. (\A x \in ToSet(buckets) : x.key = Observed => WindowOver(x, now)) => Rested(allowed, now)
  <2>1. ASSUME NEW x \in ToSet(buckets), x.key = Observed, WindowOver(x, now)
        PROVE  Rested(allowed, now)
    BY <1>1, <1>7, <1>13, <2>1, EndedRests
  <2> QED
    BY <1>7, <1>13, <2>1
<1>15. CASE k # Observed
  <2>1. allowed' = allowed
    BY <1>5, <1>15
  <2>2. \A x \in ToSet(buckets') : x.key = Observed => Counts(allowed', x)
    BY <1>3, <1>4, <1>13, <1>15, <2>1
  <2>3. Observed \notin KeysOf(buckets') => Rested(allowed', now')
    BY <1>1, <1>6, <1>12, <1>14, <2>1
  <2> QED
    BY <1>13, <2>1, <2>2, <2>3
<1>16. CASE k = Observed
  <2>1. Observed \in KeysOf(buckets')
    BY <1>3, <1>7, <1>16
  <2>2. SUFFICES Halved(allowed') /\ Counts(allowed', b)
    BY <1>3, <1>16, <2>1
  <2>3. ASSUME b = [key |-> k, count |-> 1, start |-> now],
               \A x \in ToSet(buckets) : x.key = k => WindowOver(x, now)
        PROVE  Halved(allowed') /\ Counts(allowed', b)
    <3>1. b.start = now /\ b.count = 1 /\ WithinLimit(b)
      BY <2>3, LimiterAssumption DEF WithinLimit
    <3>2. Adds(allowed, allowed', now)
      BY <1>5, <1>9, <1>16, <3>1
    <3>3. Rested(allowed, now)
      BY <1>14, <1>16, <2>3
    <3> QED
      BY <1>1, <1>13, <3>1, <3>2, <3>3, FreshHit
  <2>4. ASSUME NEW x \in ToSet(buckets), x.key = k, ~WindowOver(x, now),
               b = [x EXCEPT !.count = @ + 1]
        PROVE  Halved(allowed') /\ Counts(allowed', b)
    <3>1. x \in Bucket /\ x.start <= now /\ Counts(allowed, x)
      BY <1>1, <1>7, <1>13, <1>16, <2>4
    <3>2. b.start = x.start /\ b.count = x.count + 1 /\ x.count \in Nat
      BY <2>4, <3>1 DEF Bucket
    <3>3. CASE b.count <= Limit
      <4>1. Adds(allowed, allowed', now)
        BY <1>5, <1>9, <1>16, <3>3 DEF WithinLimit
      <4> QED
        BY <1>1, <1>13, <2>4, <3>1, <3>2, <3>3, <4>1, CountedHit
    <3>4. CASE ~(b.count <= Limit)
      <4>1. allowed' = allowed
        BY <1>5, <3>4 DEF WithinLimit
      <4>2. PICK S \in SUBSET Times : S = Since(x.start)
        BY DEF Since
      <4>3. Hits(allowed, S) \in Nat /\ Hits(allowed, S) <= x.count /\ Hits(allowed, S) <= Limit
        BY <1>1, <3>1, <4>2, HitsIsNat DEF Counts
      <4>4. Hits(allowed, S) <= b.count
        BY <3>2, <4>3
      <4> QED
        BY <1>13, <3>1, <3>2, <4>1, <4>2, <4>3, <4>4 DEF Counts
    <3> QED
      BY <3>3, <3>4
  <2> QED
    BY <1>3, <2>3, <2>4
<1> QED
  BY <1>15, <1>16

LEMMA PassKeepsInv ==
  ASSUME Limit > 0, LimiterInv, Pass
  PROVE  LimiterInv'
<1>1. /\ now \in Times /\ now' \in Times /\ now' = now + 1 /\ now \in Int
      /\ buckets' = buckets /\ allowed' = allowed /\ forgotten' = forgotten
  BY LimiterAssumption DEF LimiterInv, LimiterTypeOK, Pass, Times
<1>2. \A b \in ToSet(buckets) : b.start <= now' /\ b.start <= now
  <2>1. \A b \in ToSet(buckets) : b.start \in Int /\ b.start <= now
    <3>1. buckets \in Seq(Bucket) /\ \A b \in ToSet(buckets) : b.start <= now
      BY DEF LimiterInv, LimiterTypeOK, GoodBuckets
    <3>2. \A b \in ToSet(buckets) : b \in Bucket
      BY <3>1 DEF ToSet
    <3> QED
      BY <3>1, <3>2 DEF Bucket, Times
  <2> QED
    BY <1>1, <2>1
<1>3. LimiterTypeOK'
  BY <1>1, <1>2 DEF LimiterInv, LimiterTypeOK
<1>4. Silent(allowed', Since(now' + 1)) /\ Silent(allowed', Since(now'))
  BY <1>1 DEF LimiterInv, Silent, Since, Times
<1>5. Rested(allowed, now) => Rested(allowed', now')
  <2>1. SUFFICES ASSUME Rested(allowed, now)
                 PROVE  Hits(allowed, Since(now' - Window + 1)) < Limit
    BY <1>1, <1>4 DEF Rested
  <2>2. now - Window + 1 \in Int /\ now' - Window + 1 \in Int
    BY <1>1, LimiterAssumption
  <2>3. PICK S \in SUBSET Times : S = Since(now - Window + 1)
    BY <2>2, TimesAre
  <2>4. PICK T \in SUBSET Times : T = Since(now' - Window + 1)
    BY <2>2, TimesAre
  <2>5. T \in SUBSET S
    BY <1>1, <2>2, <2>3, <2>4, LimiterAssumption DEF Since, Times
  <2>6. allowed \in [Times -> Nat]
    BY DEF LimiterInv, LimiterTypeOK
  <2>7. Hits(allowed, T) <= Hits(allowed, S) /\ Hits(allowed, T) \in Nat /\ Hits(allowed, S) \in Nat
    BY <2>5, <2>6, FewerTimes, HitsIsNat
  <2>8. Hits(allowed, S) < Limit
    BY <2>1, <2>3 DEF Rested
  <2> QED
    BY <2>4, <2>7, <2>8, LimiterAssumption
<1> QED
  BY <1>1, <1>3, <1>4, <1>5 DEF LimiterInv

\* However a caller's requests fall around the edge of the limiter's fixed window
\* (check() of api/rate-limit.ts), no span of one window lets through twice the
\* allowance, for any window, allowance, cap, callers and traffic.  A limiter with
\* no allowance lets everything through, hence Limit > 0.
THEOREM AtMostTwiceTheLimit ==
  ASSUME Limit > 0
  PROVE  LimiterSpec => []LessThanTwiceTheLimit
<1>1. LimiterInit => LimiterInv
  BY LimiterStarts
<1>2. LimiterInv /\ [LimiterNext]_limiterVars => LimiterInv'
  <2> SUFFICES ASSUME LimiterInv, [LimiterNext]_limiterVars PROVE LimiterInv'
    OBVIOUS
  <2>1. CASE Pass
    BY <2>1, PassKeepsInv
  <2>2. ASSUME NEW k \in Keys, Hit(k) PROVE LimiterInv'
    BY <2>2, HitKeepsInv
  <2>3. CASE UNCHANGED limiterVars
    <3>1. now' = now /\ buckets' = buckets /\ allowed' = allowed /\ forgotten' = forgotten
      BY <2>3 DEF limiterVars
    <3> QED
      BY <3>1 DEF LimiterInv, LimiterTypeOK
  <2> QED
    BY <2>1, <2>2, <2>3 DEF LimiterNext
<1>3. LimiterInv => LessThanTwiceTheLimit
  BY DEF LimiterInv, Halved, Hits, SpanTo, Times, LessThanTwiceTheLimit, AllowedUpTo
<1> QED
  BY <1>1, <1>2, <1>3, PTL DEF LimiterSpec

=============================================================================
