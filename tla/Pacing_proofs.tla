--------------------------- MODULE Pacing_proofs ----------------------------
(***************************************************************************)
(* Facts, for every input, about the functions the dialer computes with:   *)
(* the pacing formulas, then the calendar and its clock.                   *)
(***************************************************************************)
EXTENDS Pacing, Calendar, TLAPS

\* AtLeast and AtMost bound their argument from below and from above.
LEMMA BoundsAreInts ==
  ASSUME NEW x \in Int, NEW y \in Int
  PROVE  /\ AtLeast(x, y) \in Int /\ AtLeast(x, y) >= x /\ AtLeast(x, y) >= y
         /\ AtMost(x, y) \in Int /\ AtMost(x, y) <= x /\ AtMost(x, y) <= y
BY DEF AtLeast, AtMost

\* Power and Predictive: what computeOverdialSlots allows on top of the calls in
\* flight never exceeds the cap, however many agents are free, however high the
\* ratio, and even when more calls are in flight than the cap allows.
LEMMA OverdialWithinCap ==
  ASSUME NEW free \in Int, NEW dialing \in Nat, NEW waiting \in Int,
         NEW ratio \in Int, NEW cap \in Nat
  PROVE  /\ computeOverdialSlots(free, dialing, waiting, ratio, cap) \in Nat
         /\ computeOverdialSlots(free, dialing, waiting, ratio, cap)
              <= AtLeast(0, cap - dialing)
<1> DEFINE held     == AtLeast(0, waiting)
           effFree  == AtLeast(0, AtLeast(0, free) - held)
           byTarget == RoundHundredths(ratio * effFree) - dialing
           byCap    == cap - dialing - held
<1>1. held \in Nat
  BY DEF AtLeast
<1>2. effFree \in Nat
  BY DEF AtLeast
<1>3. ratio * effFree \in Int
  BY <1>2
<1>4. byTarget \in Int
  BY <1>3 DEF RoundHundredths
<1>5. byCap \in Int /\ byCap <= cap - dialing
  BY <1>1
<1>6. AtMost(byCap, byTarget) \in Int /\ AtMost(byCap, byTarget) <= byCap
  BY <1>4, <1>5, BoundsAreInts
<1>7. computeOverdialSlots(free, dialing, waiting, ratio, cap)
        = AtLeast(0, AtMost(byCap, byTarget))
  BY DEF computeOverdialSlots
<1> HIDE DEF byTarget, byCap
<1>8. QED
  BY <1>5, <1>6, <1>7 DEF AtLeast

\* Progressive: the same bound for one call per free agent.
LEMMA ProgressiveWithinCap ==
  ASSUME NEW free \in Int, NEW dialing \in Nat, NEW concurrency \in Nat
  PROVE  /\ AtLeast(0, progressiveSlots(free, dialing, concurrency)) \in Nat
         /\ AtLeast(0, progressiveSlots(free, dialing, concurrency))
              <= AtLeast(0, concurrency - dialing)
BY DEF progressiveSlots, AtLeast, AtMost

\* pacing.ts:9: at ratio 1, with no caller waiting, Power starts exactly as many
\* calls as Progressive does.
THEOREM RatioOneIsProgressive ==
  ASSUME NEW free \in Int, NEW dialing \in Nat, NEW cap \in Nat
  PROVE  computeOverdialSlots(free, dialing, 0, 100, cap)
           = AtLeast(0, progressiveSlots(free, dialing, cap))
BY DEF computeOverdialSlots, progressiveSlots, RoundHundredths, AtLeast, AtMost

\* The Predictive ratio stays between 1 and the ceiling, whatever the counters
\* say, so it is always a ratio that computeOverdialSlots was made for.
THEOREM RatioInRange ==
  ASSUME NEW dialed \in Nat, NEW answered \in Nat, NEW abandoned \in Nat,
         NEW prevRatio \in Int, NEW target \in Nat, NEW maxRatio \in Nat,
         NEW minSample \in Nat, maxRatio >= 100
  PROVE  computePredictiveRatio(dialed, answered, abandoned, prevRatio,
                                target, maxRatio, minSample) \in 100..maxRatio
<1> DEFINE prev == Clamp(prevRatio, 100, maxRatio)
           next == CASE overTarget(answered, abandoned, target)
                          -> (prev * 8) \div 10
                     [] wellUnderTarget(answered, abandoned, target)
                          -> AtMost(maxRatio, baseRatio(dialed, answered))
                     [] OTHER -> prev
<1>1. ASSUME NEW x \in Int
      PROVE  Clamp(x, 100, maxRatio) \in 100..maxRatio
  BY <1>1 DEF Clamp, AtLeast, AtMost
<1>2. prev \in 100..maxRatio
  BY <1>1
<1>3. baseRatio(dialed, answered) \in Int
  <2>1. CASE 10 * answered <= dialed
    BY <2>1 DEF baseRatio
  <2>2. CASE ~(10 * answered <= dialed) /\ answered >= dialed
    BY <2>2 DEF baseRatio
  <2>3. CASE ~(10 * answered <= dialed) /\ ~(answered >= dialed)
    <3>1. answered \in Nat \ {0}
      BY <2>3
    <3>2. (100 * dialed) \div answered \in Int
      BY <3>1
    <3>3. QED
      BY <2>3, <3>2 DEF baseRatio
  <2>4. QED
    BY <2>1, <2>2, <2>3
<1>4. AtMost(maxRatio, baseRatio(dialed, answered)) \in Int
  BY <1>3, BoundsAreInts
<1>5. (prev * 8) \div 10 \in Int
  BY <1>2
<1>6. next \in Int
  BY <1>2, <1>4, <1>5
<1>7. computePredictiveRatio(dialed, answered, abandoned, prevRatio, target, maxRatio, minSample)
        = IF dialed < minSample THEN prev ELSE Clamp(next, 100, maxRatio)
  BY DEF computePredictiveRatio
<1>8. QED
  BY <1>1, <1>2, <1>6, <1>7

-----------------------------------------------------------------------------
(* When a campaign may dial, and what the dashboard's trend counts.        *)

\* dialer.service.ts:1236, "the window may wrap midnight": read either way, a window is
\* the minutes from its start to its end, going forward around the clock.
THEOREM WindowIsOneInterval ==
  ASSUME NEW ws \in Minutes, NEW we \in Minutes, NEW hhmm \in Minutes
  PROVE  inWindow(ws, we, hhmm) <=> (hhmm - ws) % Day <= (we - ws) % Day
<1>1. \A x \in Minutes, y \in Minutes :
        (x - y) % Day = IF y <= x THEN x - y ELSE x - y + Day
  BY DEF Day, Minutes
<1>2. (hhmm - ws) % Day = (IF ws <= hhmm THEN hhmm - ws ELSE hhmm - ws + Day)
  BY <1>1
<1>3. (we - ws) % Day = (IF ws <= we THEN we - ws ELSE we - ws + Day)
  BY <1>1
<1>4. QED
  BY <1>2, <1>3 DEF inWindow, Day, Minutes

\* A window that is open closes only when its last minute is over: the loop stops a run
\* (dialer.service.ts:791-794) at no other time of day.
THEOREM ClosesAfterItsEnd ==
  ASSUME NEW ws \in Minutes, NEW we \in Minutes, NEW hhmm \in Minutes,
         inWindow(ws, we, hhmm), ~inWindow(ws, we, (hhmm + 1) % Day)
  PROVE  hhmm = we
<1>. DEFINE next == (hhmm + 1) % Day
<1>1. CASE hhmm = Day - 1
  <2>1. next = 0
    BY <1>1 DEF Day
  <2>2. QED
    BY <1>1, <2>1 DEF inWindow, Day, Minutes
<1>2. CASE hhmm < Day - 1
  <2>1. next = hhmm + 1
    BY <1>2 DEF Day, Minutes
  <2>2. ~inWindow(ws, we, hhmm + 1)
    BY <2>1
  <2>3. QED
    BY <1>2, <2>2 DEF inWindow, Day, Minutes
<1>3. QED
  BY <1>1, <1>2 DEF Day, Minutes

\* A schedule that has ended stays ended, so agents who press Play again get no new run
\* of the campaign, whatever its window.
THEOREM EndedForGood ==
  ASSUME NEW c \in Campaigns, NEW now \in Int, NEW later \in Int, now <= later,
         scheduleBlockReason(c, now) = "ended"
  PROVE  scheduleBlockReason(c, later) # "none"
<1>1. HasEnded(c, now)
  BY DEF scheduleBlockReason
<1>2. PICK e \in c.scheduleEnd : now > e
  BY <1>1 DEF HasEnded
<1>3. e \in Int
  BY <1>2 DEF Campaigns, Optional
<1>4. HasEnded(c, later)
  BY <1>2, <1>3 DEF HasEnded
<1>5. QED
  BY <1>4 DEF scheduleBlockReason

\* dashboard.module.ts:167: on a server that keeps UTC, every attempt from the trend's
\* beginning until now is counted in one of the 14 bars.
THEOREM TrendComplete ==
  ASSUME NEW now \in Int, NEW a \in Int, since(now, 0) <= a, a <= now
  PROVE  barOf(a) \in byDay(now, 0)
<1> DEFINE today == now \div Day
           i     == a \div Day - (today - 13)
<1>1. since(now, 0) = (today - 13) * Day /\ today \in Int
  BY DEF since, Day
<1>2. i \in 0..13
  BY <1>1 DEF Day
<1>3. (since(now, 0) + i * Day) \div Day = a \div Day
  BY <1>1, <1>2 DEF Day
<1>4. QED
  BY <1>2, <1>3 DEF byDay, barOf

\* On a server ahead of UTC the bars are those of the UTC dates one earlier, and attempts
\* are missing from the trend once the day is as old as the zone is ahead: from one in
\* the morning on in Lagos, where today's calls show in no bar.
THEOREM TrendDropsToday ==
  ASSUME NEW now \in Int, NEW zone \in 1..(Day - 1), zone <= nowHHmm(now, zone)
  PROVE  barOf(now) \notin byDay(now, zone)
<1> DEFINE today == (now + zone) \div Day
           hhmm  == nowHHmm(now, zone)
<1>1. today \in Int /\ hhmm \in Int /\ now + zone = today * Day + hhmm
  BY DEF nowHHmm, Day
<1>2. zone <= hhmm /\ hhmm < Day /\ zone \in Int /\ zone >= 1
  BY DEF nowHHmm, Day
<1> HIDE DEF today, hhmm
<1>3. today * Day <= now /\ now < today * Day + Day
  BY <1>1, <1>2 DEF Day
<1>4. barOf(now) = today
  BY <1>1, <1>3 DEF barOf, Day
<1>5. since(now, zone) = today * Day - zone - 13 * Day
  BY DEF since, today
<1>6. ASSUME NEW i \in 0..13
      PROVE  (since(now, zone) + i * Day) \div Day < today
  <2>1. since(now, zone) + i * Day < today * Day
    BY <1>1, <1>2, <1>5 DEF Day
  <2>2. since(now, zone) + i * Day \in Int
    BY <1>1, <1>2, <1>5 DEF Day
  <2>3. QED
    BY <1>1, <2>1, <2>2 DEF Day
<1>7. \A b \in byDay(now, zone) : b < today
  BY <1>6 DEF byDay
<1>8. QED
  BY <1>1, <1>4, <1>7
=============================================================================
