------------------------------ MODULE Calendar ------------------------------
(***************************************************************************)
(* Two computations on dates.  When a campaign may dial, which startRun    *)
(* asks once and the dial loop on every tick (DialLoop's window opens and  *)
(* closes as the environment likes): times of day are minutes since        *)
(* midnight, which compare as the code's "HH:mm" strings do.  And the bars *)
(* of the dashboard's 14-day trend.  Moments are minutes since the epoch;  *)
(* a timezone is a fixed number of minutes ahead of UTC.                   *)
(***************************************************************************)
EXTENDS Integers

Day     == 24 * 60
Minutes == 0..(Day - 1)

\* The wall clock in the campaign's timezone, without seconds.
nowHHmm(now, zone) == (now + zone) % Day

\* Both ends belong to the window, which may wrap midnight.
inWindow(ws, we, hhmm) ==
  IF ws <= we THEN ws <= hhmm /\ hhmm <= we ELSE ws <= hhmm \/ hhmm <= we

\* A campaign's dates and window; each is a set of at most one, empty when not set.
Optional(S) == {{}} \cup {{x} : x \in S}
Campaigns   == [scheduleStart : Optional(Int), scheduleEnd : Optional(Int),
                callWindowStart : Optional(Minutes), callWindowEnd : Optional(Minutes), timezone : Int]

NotStarted(c, now) == \E s \in c.scheduleStart : now < s
HasEnded(c, now)   == \E e \in c.scheduleEnd : now > e
Outside(c, now)    == \E ws \in c.callWindowStart, we \in c.callWindowEnd :
                        ~inWindow(ws, we, nowHHmm(now, c.timezone))

\* Why the campaign c may not dial now, or "none".
scheduleBlockReason(c, now) ==
  IF NotStarted(c, now) THEN "not started"
  ELSE IF HasEnded(c, now) THEN "ended"
  ELSE IF Outside(c, now) THEN "outside" ELSE "none"

-----------------------------------------------------------------------------
\* The trend begins at the server's midnight, 13 days ago.
since(now, zone) == ((now + zone) \div Day) * Day - zone - 13 * Day

\* Its bars, one for the UTC date of each of the server's 14 midnights, and the bar that an
\* attempt of the moment a is counted in.
byDay(now, zone) == {(since(now, zone) + i * Day) \div Day : i \in 0..13}
barOf(a)         == a \div Day
=============================================================================
