------------------------------- MODULE Pacing -------------------------------
(***************************************************************************)
(* dialer/pacing.ts: how many new calls the dialer may start in one tick,  *)
(* and the live over-dial ratio of a Predictive run.  Both functions are   *)
(* pure.  A ratio is a whole number of hundredths (100 is 1.0, the code's  *)
(* lower clamp), so the arithmetic below is the code's to that precision.  *)
(***************************************************************************)
EXTENDS Integers

AtLeast(lo, x) == IF x < lo THEN lo ELSE x
AtMost(hi, x) == IF x > hi THEN hi ELSE x
Clamp(x, lo, hi) == AtLeast(lo, AtMost(hi, x))

\* Math.round of a non-negative number of hundredths: halves go up.
RoundHundredths(x) == (x + 50) \div 100

(***************************************************************************)
(* Calls to start, given the free agents, the calls already dialing, the   *)
(* answered callers already waiting, the ratio and the concurrency cap.    *)
(***************************************************************************)
computeOverdialSlots(free, dialing, waiting, ratio, cap) ==
  LET held     == AtLeast(0, waiting)
      effFree  == AtLeast(0, AtLeast(0, free) - held)
      byTarget == RoundHundredths(ratio * effFree) - dialing
      byCap    == cap - dialing - held
  IN  AtLeast(0, AtMost(byCap, byTarget))

\* Progressive pacing: one call per free agent not already claimed by a call.
progressiveSlots(free, dialing, concurrency) ==
  AtMost(concurrency - dialing, AtLeast(0, free - dialing))

(***************************************************************************)
(* The ratio for the next tick from the outcomes of the run so far: hold   *)
(* until minSample dials have resolved, then back off above the abandon    *)
(* target, lean in to one connect per agent well below it, else hold.      *)
(* targetPermille is the target abandon rate in thousandths.               *)
(***************************************************************************)
baseRatio(dialed, answered) ==       \* 1 / clamp(answered / dialed, 0.1, 1)
  CASE 10 * answered <= dialed -> 1000
    [] answered >= dialed      -> 100
    [] OTHER                   -> (100 * dialed) \div answered

overTarget(answered, abandoned, targetPermille) ==
  1000 * abandoned > targetPermille * AtLeast(1, answered)

wellUnderTarget(answered, abandoned, targetPermille) ==
  2000 * abandoned < targetPermille * AtLeast(1, answered)

\* Mutant: the result is not clamped to [1, maxRatio].
ratioUnclamped(dialed, answered, abandoned, prevRatio, targetPermille, maxRatio, minSample) ==
  CASE dialed < minSample -> prevRatio
    [] dialed >= minSample /\ overTarget(answered, abandoned, targetPermille)
         -> (prevRatio * 8) \div 10
    [] dialed >= minSample /\ wellUnderTarget(answered, abandoned, targetPermille)
         -> baseRatio(dialed, answered)
    [] OTHER -> prevRatio

\* Mutant: over the target the ratio is four fifths of the base ratio.
ratioFromBase(dialed, answered, abandoned, prevRatio, targetPermille, maxRatio, minSample) ==
  IF dialed < minSample THEN prevRatio
  ELSE Clamp(IF overTarget(answered, abandoned, targetPermille)
               THEN (baseRatio(dialed, answered) * 8) \div 10
               ELSE AtMost(maxRatio, baseRatio(dialed, answered)),
             100, maxRatio)

computePredictiveRatio(dialed, answered, abandoned, prevRatio, targetPermille, maxRatio, minSample) ==
  LET prev == Clamp(prevRatio, 100, maxRatio)
  IN  IF dialed < minSample THEN prev
      ELSE Clamp(CASE overTarget(answered, abandoned, targetPermille)
                        -> (prev * 8) \div 10
                   [] wellUnderTarget(answered, abandoned, targetPermille)
                        -> AtMost(maxRatio, baseRatio(dialed, answered))
                   [] OTHER -> prev,
                 100, maxRatio)
=============================================================================
