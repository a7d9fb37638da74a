--------------------------- MODULE EnumRetryProofs ---------------------------
(***************************************************************************)
(* Proofs about EnumRetry, for every width of the clock, every wait, scan  *)
(* interval and off time, and every reading the clock starts from:         *)
(*   - TypeOK and CycleInTime are invariants,                              *)
(*   - CycleAfterWait holds of every step, if no session ends while the    *)
(*     wait counts (FreshSession, as in the run).                          *)
(***************************************************************************)
EXTENDS EnumRetry, TLAPS

\* What EnumRetry measures: the clock's distance from the start of the wait.
Age == Elapsed(retry.since)

\* Nothing seen of the bus yet, or a device at the last look.
Fresh == real <= quiet /\ real <= ScanEvery + 1

\* The wait counts: it was not over at the last scan, scans are not overdue,
\* and it began at the first scan after the bus was last known good.
Counted ==
  /\ retry.counting
  /\ Age < retry.wait + quiet /\ Age <= retry.wait + ScanEvery
  /\ real <= Age + ScanEvery + 1

\* The port is off: the wait counts from the moment it was switched off.
Off == up /\ device = "none" /\ retry.counting /\ Age + cycling <= OffTime

Timing ==
  /\ up /\ cycling = Idle => Fresh \/ Counted
  /\ cycling # Idle => Off

\* In a session that began with no wait under way, the wait is never ahead of
\* the true time since the bus was last known good.
Whole == FreshSession /\ retry.counting => up /\ (cycling = Idle => Counted /\ Age <= real)

IInv == TypeOK /\ Timing /\ Whole

----------------------------------------------------------------------------
(* The clock.                                                              *)

\* Modulo the clock's width, two readings differ by less than that width.
LEMMA Apart ==
  ASSUME NEW a \in 0 .. Wrap - 1, NEW b \in 0 .. Wrap - 1
  PROVE  (a + Wrap - b) % Wrap = IF a >= b THEN a - b ELSE a + Wrap - b
<1>1. Wrap \in Nat \ {0}
  BY RetryTimes
<1>2. CASE a >= b
  <2>1. (a + Wrap - b) % Wrap = a - b
    BY <1>1, <1>2, SMT
  <2> QED
    BY <1>2, <2>1
<1>3. CASE a < b
  <2>1. (a + Wrap - b) % Wrap = a + Wrap - b
    BY <1>1, <1>3, SMT
  <2> QED
    BY <1>1, <1>3, <2>1
<1> QED
  BY <1>1, <1>2, <1>3

\* The unsigned difference is the time passed, across one wrap too.
LEMMA ElapsedIs ==
  ASSUME now \in 0 .. Wrap - 1, NEW then \in 0 .. Wrap - 1
  PROVE  /\ Elapsed(then) = IF now >= then THEN now - then ELSE now + Wrap - then
         /\ Elapsed(then) \in 0 .. Wrap - 1
BY Apart, RetryTimes DEF Elapsed

\* A tick later the difference is one more, until it wraps itself.
LEMMA Older ==
  ASSUME TypeOK, now' = (now + 1) % Wrap, retry' = retry
  PROVE  /\ now' \in 0 .. Wrap - 1
         /\ Age \in Nat /\ Age' \in Nat
         /\ Age + 1 < Wrap => Age' = Age + 1
<1>1. Wrap \in Nat \ {0} /\ now \in 0 .. Wrap - 1 /\ retry.since \in 0 .. Wrap - 1
  BY RetryTimes DEF TypeOK
<1>2. now' = IF now + 1 = Wrap THEN 0 ELSE now + 1
  <2>1. CASE now + 1 = Wrap
    <3>1. (now + 1) % Wrap = 0
      BY <1>1, <2>1, SMT
    <3> QED
      BY <2>1, <3>1
  <2>2. CASE now + 1 # Wrap
    <3>1. (now + 1) % Wrap = now + 1
      BY <1>1, <2>2, SMT
    <3> QED
      BY <2>2, <3>1
  <2> QED
    BY <2>1, <2>2
<1>3. now' \in 0 .. Wrap - 1
  BY <1>1, <1>2
<1>4. PICK next : next = now'
  OBVIOUS
<1>5. /\ Age = IF now >= retry.since THEN now - retry.since ELSE now + Wrap - retry.since
      /\ Age \in 0 .. Wrap - 1
  BY <1>1, ElapsedIs DEF Age
<1>6. Age' = (next + Wrap - retry.since) % Wrap
  BY <1>4 DEF Age, Elapsed
<1>7. Age' = IF next >= retry.since THEN next - retry.since ELSE next + Wrap - retry.since
  BY <1>1, <1>3, <1>4, <1>6, Apart
<1> QED
  BY <1>1, <1>2, <1>3, <1>4, <1>5, <1>7

\* A wait that begins now has not lasted.
LEMMA Restarted ==
  ASSUME TypeOK, now' = now, retry'.since = now
  PROVE  Age' = 0
<1>1. Wrap \in Nat \ {0} /\ now \in 0 .. Wrap - 1
  BY RetryTimes DEF TypeOK
<1>2. Elapsed(now) = 0
  BY <1>1, ElapsedIs
<1> QED
  BY <1>2 DEF Age, Elapsed

LEMMA Times ==
  /\ Wrap \in Nat \ {0} /\ FirstWait \in Nat \ {0} /\ MaxWait \in Nat \ {0}
  /\ ScanEvery \in Nat \ {0} /\ OffTime \in Nat \ {0}
  /\ FirstWait <= MaxWait /\ OffTime < FirstWait
  /\ MaxWait + OffTime + 2 * ScanEvery < Wrap
  /\ Idle \notin Nat
BY RetryTimes, RetryDiscipline

LEMMA AgeTyped == ASSUME TypeOK PROVE Age \in Nat
<1>1. now \in 0 .. Wrap - 1 /\ retry.since \in 0 .. Wrap - 1 /\ Wrap \in Nat
  BY Times DEF TypeOK
<1> QED
  BY <1>1, ElapsedIs DEF Age

----------------------------------------------------------------------------
(* Types.                                                                  *)

LEMMA RetryTyped ==
  ASSUME TypeOK, DevicePresent \/ NoDevice \/ retry' = [retry EXCEPT !.since = now]
  PROVE  /\ retry' \in [counting: BOOLEAN, since: 0..(Wrap - 1), wait: FirstWait..MaxWait]
         /\ NoDevice => /\ retry'.counting
                        /\ retry'.since = IF ~retry.counting \/ Due THEN now ELSE retry.since
                        /\ ~retry.counting \/ ~Due => retry'.wait = retry.wait
         /\ DevicePresent => ~retry'.counting
         /\ retry' = [retry EXCEPT !.since = now] =>
              retry'.since = now /\ retry'.wait = retry.wait /\ retry'.counting = retry.counting
<1>1. /\ retry \in [counting: BOOLEAN, since: 0..(Wrap - 1), wait: FirstWait..MaxWait]
      /\ now \in 0 .. Wrap - 1
  BY DEF TypeOK
<1>2. Least(2 * retry.wait, MaxWait) \in FirstWait .. MaxWait
  BY <1>1, Times DEF Least
<1>3. FirstWait \in FirstWait .. MaxWait
  BY Times
<1>4. CASE DevicePresent
  <2>1. retry' = [retry EXCEPT !.counting = FALSE, !.wait = FirstWait]
    BY <1>4 DEF DevicePresent
  <2>2. ~retry'.counting /\ retry' \in [counting: BOOLEAN, since: 0..(Wrap - 1), wait: FirstWait..MaxWait]
    BY <1>1, <1>3, <2>1
  <2>3. ~NoDevice
    <3>1. NoDevice => retry'.counting
      BY <1>1 DEF NoDevice, Due
    <3> QED
      BY <2>2, <3>1
  <2>4. retry' = [retry EXCEPT !.since = now] =>
              retry'.since = now /\ retry'.wait = retry.wait /\ retry'.counting = retry.counting
    BY <1>1
  <2> QED
    BY <2>2, <2>3, <2>4
<1>5. CASE NoDevice
  <2>1. CASE ~retry.counting
    <3>1. retry' = [retry EXCEPT !.counting = TRUE, !.since = now]
      BY <1>5, <2>1 DEF NoDevice
    <3> QED
      BY <1>1, <2>1, <3>1 DEF DevicePresent
  <2>2. CASE retry.counting /\ Due
    <3>1. retry' = [retry EXCEPT !.since = now, !.wait = Least(2 * retry.wait, MaxWait)]
      BY <1>5, <2>2 DEF NoDevice
    <3> QED
      BY <1>1, <1>2, <2>2, <3>1 DEF DevicePresent
  <2>3. CASE retry.counting /\ ~Due
    <3>1. retry' = retry
      BY <1>5, <2>3 DEF NoDevice
    <3> QED
      BY <1>1, <2>3, <3>1 DEF DevicePresent
  <2> QED
    BY <2>1, <2>2, <2>3
<1>6. CASE retry' = [retry EXCEPT !.since = now] /\ ~NoDevice /\ ~DevicePresent
  BY <1>1, <1>6
<1> QED
  BY <1>4, <1>5, <1>6

LEMMA TypeStep == ASSUME TypeOK, [Next]_vars PROVE TypeOK'
<1>1. /\ Slack \in Nat /\ Cap \in Nat /\ 0 \in 0 .. Cap /\ 0 \in 0 .. OffTime
  BY Times DEF Slack, Cap
<1>2. CASE Tick
  <2>1. now' \in 0 .. Wrap - 1
    BY <1>2, Older DEF Tick
  <2>2. real' \in 0 .. Cap /\ quiet' \in 0 .. Cap
    BY <1>1, <1>2 DEF Tick, TypeOK, Least
  <2>3. cycling' \in (0 .. OffTime) \cup {Idle}
    BY <1>2, Times DEF Tick, TypeOK
  <2> QED
    BY <1>2, <2>1, <2>2, <2>3 DEF Tick, TypeOK
<1>3. CASE Scan
  <2>1. OffTime \in 0 .. OffTime
    BY Times
  <2>2. retry' \in [counting: BOOLEAN, since: 0..(Wrap - 1), wait: FirstWait..MaxWait]
    BY <1>3, RetryTyped DEF Scan
  <2> QED
    BY <1>1, <1>3, <2>1, <2>2 DEF Scan, TypeOK
<1>4. CASE SeeOpen
  BY <1>1, <1>4, RetryTyped DEF SeeOpen, TypeOK
<1>5. CASE PowerBack
  BY <1>1, <1>5, RetryTyped DEF PowerBack, TypeOK
<1>6. CASE Bus
  BY <1>6 DEF Bus, TypeOK
<1>7. CASE HostUp
  BY <1>1, <1>7 DEF HostUp, TypeOK
<1>8. CASE HostDown
  BY <1>8 DEF HostDown, TypeOK
<1>9. CASE UNCHANGED vars
  BY <1>9 DEF vars, TypeOK
<1> QED
  BY <1>2, <1>3, <1>4, <1>5, <1>6, <1>7, <1>8, <1>9 DEF Next

LEMMA InitType == ASSUME Init PROVE TypeOK
<1>1. 0 \in 0 .. Cap /\ 0 \in 0 .. Wrap - 1 /\ FirstWait \in FirstWait .. MaxWait
  BY Times DEF Cap, Slack
<1>2. retry \in [counting: BOOLEAN, since: 0..(Wrap - 1), wait: FirstWait..MaxWait]
  BY <1>1 DEF Init
<1> QED
  BY <1>1, <1>2 DEF Init, TypeOK

----------------------------------------------------------------------------
(* Time passes.                                                            *)

LEMMA TickTimes ==
  ASSUME IInv, Tick PROVE Timing' /\ Whole'
<1>1. /\ retry' = retry /\ up' = up /\ device' = device /\ cycling # 0
      /\ real' = Least(real + 1, Cap) /\ quiet' = Least(quiet + 1, Cap)
      /\ cycling' = IF cycling = Idle THEN Idle ELSE cycling - 1
      /\ up /\ cycling = Idle => quiet <= ScanEvery
  BY DEF Tick
<1>2. /\ real \in Nat /\ quiet \in Nat /\ retry.wait \in Nat /\ retry.wait <= MaxWait
      /\ cycling \in (0 .. OffTime) \cup {Idle} /\ Cap \in Nat
      /\ Cap = MaxWait + 2 * ScanEvery + 2
  BY Times DEF IInv, TypeOK, Cap, Slack
<1>3. Age \in Nat /\ (Age + 1 < Wrap => Age' = Age + 1)
  BY Older DEF IInv, Tick
<1>4. real' <= real + 1 /\ real' \in Nat /\ (real + 1 <= Cap => real' = real + 1) /\ (real + 1 > Cap => real' = Cap)
  BY <1>1, <1>2 DEF Least
<1>5. (cycling' = Idle <=> cycling = Idle) /\ (cycling # Idle => cycling \in Nat /\ cycling' = cycling - 1)
  BY <1>1, <1>2, Times
<1>6. CASE up /\ cycling = Idle
  <2>1. quiet' = quiet + 1 /\ quiet <= ScanEvery
    BY <1>1, <1>2, <1>6, Times DEF Least
  <2>2. Fresh => Fresh'
    BY <1>2, <1>4, <2>1, Times DEF Fresh
  <2>3. Counted => Counted' /\ Age' = Age + 1 /\ Age + 1 <= Cap
    <3> SUFFICES ASSUME Counted PROVE Counted' /\ Age' = Age + 1 /\ Age + 1 <= Cap
      OBVIOUS
    <3>1. Age < retry.wait + quiet /\ real <= Age + ScanEvery + 1
      BY DEF Counted
    <3>2. Age + 1 <= retry.wait + ScanEvery
      BY <1>2, <1>3, <2>1, <3>1, Times
    <3>3. Age' = Age + 1 /\ Age + 1 <= Cap
      BY <1>2, <1>3, <3>2, Times
    <3>4. Age' < retry.wait + quiet' /\ real' <= Age' + ScanEvery + 1
      BY <1>2, <1>3, <1>4, <2>1, <3>1, <3>3, Times
    <3> QED
      BY <1>1, <3>2, <3>3, <3>4 DEF Counted
  <2>4. Timing'
    BY <1>1, <1>5, <1>6, <2>2, <2>3 DEF IInv, Timing
  <2>5. Counted /\ Age <= real => Age' <= real'
    BY <1>2, <1>3, <1>4, <2>3
  <2>6. Whole'
    BY <1>1, <1>5, <1>6, <2>3, <2>5 DEF IInv, Whole
  <2> QED
    BY <2>4, <2>6
<1>7. CASE cycling # Idle
  <2>1. up /\ device = "none" /\ retry.counting /\ Age + cycling <= OffTime
    BY <1>7 DEF IInv, Timing, Off
  <2>2. Age' = Age + 1
    BY <1>2, <1>3, <1>5, <1>7, <2>1, Times
  <2>3. Age' + cycling' <= OffTime
    BY <1>3, <1>5, <1>7, <2>1, <2>2, Times
  <2> QED
    BY <1>1, <1>5, <1>7, <2>1, <2>3 DEF Timing, Off, Whole
<1>8. CASE ~up /\ cycling = Idle
  BY <1>1, <1>5, <1>8 DEF IInv, Timing, Whole
<1> QED
  BY <1>6, <1>7, <1>8

----------------------------------------------------------------------------
(* Scans.                                                                  *)

\* The wait is not over while the port is off.
LEMMA OffNotDue == ASSUME TypeOK, Off, cycling # Idle PROVE ~Due
<1>1. Age + cycling <= OffTime /\ cycling \in Nat /\ retry.wait >= FirstWait /\ retry.wait \in Nat
  BY Times DEF TypeOK, Off
<1>2. Age \in Nat
  BY AgeTyped
<1> QED
  BY <1>1, <1>2, Times DEF Due, Age

LEMMA ScanTimes ==
  ASSUME IInv, Scan
  PROVE  /\ Timing' /\ Whole'
         /\ FreshSession /\ cycling = Idle /\ cycling' # Idle => real >= retry.wait
<1>1. /\ up /\ quiet' = 0 /\ UNCHANGED <<now, up, device>>
  BY DEF Scan
<1>2. /\ real \in Nat /\ quiet \in Nat /\ retry.wait \in Nat /\ retry.wait >= FirstWait
      /\ retry \in [counting: BOOLEAN, since: 0..(Wrap - 1), wait: FirstWait..MaxWait]
  BY Times DEF IInv, TypeOK
<1>3. Age \in Nat /\ (Due <=> retry.counting /\ Age >= retry.wait)
  BY AgeTyped DEF IInv, Due, Age
<1>4. CASE device # "none"
  <2>1. DevicePresent /\ real' = 0 /\ cycling' = cycling
    BY <1>4 DEF Scan
  <2>2. ~retry'.counting /\ cycling = Idle
    BY <1>4, <2>1, RetryTyped DEF IInv, Timing, Off
  <2>3. Fresh'
    BY <1>1, <2>1, Times DEF Fresh
  <2> QED
    BY <2>1, <2>2, <2>3 DEF Timing, Whole
<1>5. CASE device = "none" /\ Due
  <2>1. /\ NoDevice /\ cycling = Idle /\ cycling' = OffTime /\ real' = 0
    BY <1>5 DEF Scan
  <2>2. retry'.counting /\ retry'.since = now
    BY <1>5, <2>1, RetryTyped DEF IInv
  <2>3. Age' = 0
    BY <1>1, <2>2, Restarted DEF IInv
  <2>4. cycling' # Idle /\ Off'
    BY <1>1, <1>5, <2>1, <2>2, <2>3, Times DEF Off
  <2>5. FreshSession => real >= retry.wait
    BY <1>2, <1>3, <1>5, <2>1 DEF IInv, Whole
  <2> QED
    BY <1>1, <2>2, <2>4, <2>5 DEF Timing, Whole
<1>6. CASE device = "none" /\ ~Due
  <2>1. NoDevice /\ UNCHANGED <<cycling, real>>
    BY <1>6 DEF Scan
  <2>2. retry'.counting /\ retry'.wait = retry.wait
    BY <1>6, <2>1, RetryTyped DEF IInv
  <2>3. CASE ~retry.counting
    <3>1. Age' = 0
      BY <1>1, <2>1, <2>3, RetryTyped, Restarted DEF IInv
    <3>2. cycling = Idle /\ Fresh
      BY <1>1, <2>3 DEF IInv, Timing, Off, Counted
    <3>3. Counted'
      BY <1>1, <1>2, <2>1, <2>2, <3>1, <3>2, Times DEF Counted, Fresh
    <3> QED
      BY <1>1, <1>2, <2>1, <3>1, <3>2, <3>3 DEF Timing, Whole
  <2>4. CASE retry.counting
    <3>1. retry' = retry
      BY <1>6, <2>1, <2>4 DEF NoDevice
    <3>2. Age' = Age /\ Age < retry.wait
      BY <1>1, <1>2, <1>3, <1>6, <2>4, <3>1 DEF Age, Elapsed
    <3>3. CASE cycling = Idle
      <4>1. real <= Age + ScanEvery + 1
        BY <1>1, <1>2, <1>3, <3>3, Times DEF IInv, Timing, Fresh, Counted
      <4>2. Counted'
        BY <1>1, <1>2, <1>3, <2>1, <2>2, <3>2, <4>1, Times DEF Counted
      <4> QED
        BY <1>1, <2>1, <2>4, <3>1, <3>2, <3>3, <4>2 DEF IInv, Timing, Whole
    <3>4. CASE cycling # Idle
      BY <1>1, <2>1, <3>1, <3>2, <3>4 DEF IInv, Timing, Whole, Off
    <3> QED
      BY <3>3, <3>4
  <2> QED
    BY <2>3, <2>4
<1> QED
  BY <1>4, <1>5, <1>6

----------------------------------------------------------------------------
(* The other steps.                                                        *)

LEMMA OtherTimes ==
  ASSUME IInv, SeeOpen \/ PowerBack \/ Bus \/ HostUp \/ HostDown \/ UNCHANGED vars
  PROVE  Timing' /\ Whole'
<1>1. /\ real \in Nat /\ quiet \in Nat /\ retry.wait \in Nat \ {0} /\ 0 # Idle
  BY Times DEF IInv, TypeOK
<1>2. CASE SeeOpen
  <2>1. ~retry'.counting /\ cycling = Idle /\ cycling' = cycling
    BY <1>2, RetryTyped DEF SeeOpen, IInv, Timing, Off
  <2>2. Fresh'
    BY <1>2, Times DEF SeeOpen, Fresh
  <2> QED
    BY <2>1, <2>2 DEF Timing, Whole
<1>3. CASE PowerBack
  <2>1. /\ cycling = 0 /\ cycling' = Idle /\ real' = 0 /\ UNCHANGED <<now, up, quiet>>
        /\ retry' = [retry EXCEPT !.since = now]
    BY <1>3 DEF PowerBack
  <2>2. up /\ retry.counting
    BY <1>1, <2>1 DEF IInv, Timing, Off
  <2>3. retry'.since = now /\ retry'.wait = retry.wait /\ retry'.counting
    BY <2>1, <2>2, RetryTyped DEF IInv
  <2>4. Age' = 0
    BY <2>1, <2>3, Restarted DEF IInv
  <2>5. Counted' /\ Age' <= real'
    BY <1>1, <2>1, <2>3, <2>4, Times DEF Counted
  <2> QED
    BY <2>1, <2>2, <2>5 DEF Timing, Whole
<1>4. CASE Bus
  <2>1. /\ UNCHANGED <<now, retry, up, cycling, real, quiet>> /\ (device = "none" => cycling = Idle)
    BY <1>4 DEF Bus
  <2>2. Age' = Age
    BY <2>1 DEF Age, Elapsed
  <2>3. cycling = Idle
    BY <2>1 DEF IInv, Timing, Off
  <2> QED
    BY <2>1, <2>2, <2>3 DEF IInv, Timing, Whole, Fresh, Counted
<1>5. CASE HostUp
  <2>1. ~up /\ UNCHANGED <<retry, cycling>> /\ real' = 0 /\ quiet' = 0
    BY <1>5 DEF HostUp
  <2>2. cycling = Idle /\ Fresh' /\ (FreshSession => ~retry.counting)
    BY <2>1, Times DEF IInv, Timing, Off, Fresh, Whole
  <2> QED
    BY <2>1, <2>2 DEF Timing, Whole
<1>6. CASE HostDown
  BY <1>6 DEF HostDown, Timing, Whole
<1>7. CASE UNCHANGED vars
  <2>1. Age' = Age
    BY <1>7 DEF vars, Age, Elapsed
  <2> QED
    BY <1>7, <2>1 DEF vars, IInv, Timing, Whole, Fresh, Counted, Off
<1> QED
  BY <1>2, <1>3, <1>4, <1>5, <1>6, <1>7

LEMMA InitTimes == ASSUME Init PROVE Timing /\ Whole
BY DEF Init, Timing, Whole

LEMMA Inductive == ASSUME IInv, [Next]_vars PROVE IInv'
BY TypeStep, TickTimes, ScanTimes, OtherTimes DEF IInv, Next

LEMMA Invariance == Spec => []IInv
<1>1. Init => IInv
  BY InitType, InitTimes DEF IInv
<1>2. IInv /\ [Next]_vars => IInv'
  BY Inductive
<1> QED
  BY <1>1, <1>2, PTL DEF Spec

----------------------------------------------------------------------------

\* Every variable has the shape its declaration says.
THEOREM TypeSafe == Spec => []TypeOK
BY Invariance, PTL DEF IInv

\* An empty bus never waits longer than the wait and the two scan intervals it
\* begins and ends in: the port is cycled, whatever the clock reads.
THEOREM CycledInTime == Spec => []CycleInTime
<1>1. IInv => CycleInTime
  <2> SUFFICES ASSUME IInv, up, cycling = Idle PROVE real <= retry.wait + Slack
    BY DEF CycleInTime
  <2>1. real \in Nat /\ retry.wait \in Nat /\ Age \in Nat
    BY AgeTyped, Times DEF IInv, TypeOK
  <2>2. CASE Fresh
    BY <2>1, <2>2, Times DEF Fresh, Slack
  <2>3. CASE Counted
    BY <2>1, <2>3, Times DEF Counted, Slack
  <2> QED
    BY <2>2, <2>3 DEF IInv, Timing
<1> QED
  BY <1>1, Invariance, PTL

\* The port is cycled only after the bus had no device for the whole wait, if no
\* session ends while the wait counts; a clock that wraps changes nothing.
THEOREM CycledAfterWait == ASSUME FreshSession PROVE Spec => CycleAfterWait
<1>1. IInv /\ [Next]_vars => [cycling = Idle /\ cycling' # Idle => real >= retry.wait]_vars
  <2> SUFFICES ASSUME IInv, [Next]_vars, cycling = Idle, cycling' # Idle
               PROVE  real >= retry.wait
    OBVIOUS
  <2>1. Scan
    BY DEF Next, Tick, SeeOpen, PowerBack, Bus, HostUp, HostDown, vars
  <2> QED
    BY <2>1, ScanTimes
<1> QED
  BY <1>1, Invariance, PTL DEF Spec, CycleAfterWait
=============================================================================
