----------------------------- MODULE TimeSlots ------------------------------
(***************************************************************************)
(* When the approved tweets of a bot are posted: autoScheduleForBot takes  *)
(* a batch of them and calculateTimeSlots gives each a time, from the      *)
(* window and the frequency of the bot.  Time is in minutes of the day of  *)
(* the call, in UTC; a minute beyond 1440 belongs to the day after.        *)
(***************************************************************************)
EXTENDS Integers, Sequences

CONSTANTS
  Minutes,      \* inputs: when the scheduler runs
  Hours,        \* inputs: scheduleStartHour and scheduleEndHour
  Frequencies,  \* inputs: postingFrequency, 1..100 in the DTO
  Approved,     \* inputs: how many tweets are approved and have no row
  Quotas,       \* inputs: what is left of the daily limit
  Jitters       \* inputs: minutes that are added at random, 0..4

ASSUME TimesAssumption ==
  /\ Minutes \subseteq 0..1439 /\ Hours \subseteq 0..24
  /\ Frequencies \subseteq 1..100 /\ Jitters \subseteq 0..4
  /\ Approved \subseteq Nat /\ Quotas \subseteq Nat

VARIABLES
  minute, startHour, endHour, frequency,
  wanted,   \* tweets of the batch
  jobs,     \* posting jobs that were added for them
  times     \* the times in the rows that were written for them

slotVars == <<minute, startHour, endHour, frequency, wanted, jobs, times>>

Least(a, b) == IF a <= b THEN a ELSE b
RoundUp(a, b) == -((-a) \div b)

(* A window starts at 0..23 and ends at 1..24; nothing compares the two.   *)
SlotsInit ==
  /\ minute \in Minutes /\ startHour \in Hours \ {24} /\ endHour \in Hours \ {0}
  /\ frequency \in Frequencies
  /\ wanted = 0 /\ jobs = 0 /\ times = <<>>

Opens == 60 * startHour
Closes == 60 * endHour

(* Mutant of Interval: the minutes of the day, not of the window.          *)
IntervalOfDay == 1440 \div frequency

(* Mutant of Interval: hours are divided before they become minutes.       *)
IntervalOfHours == 60 * ((endHour - startHour) \div frequency)

Interval == (Closes - Opens) \div frequency

(* Mutant of NextSlot: rounded down.                                       *)
NextSlotBefore == Opens + ((minute - Opens) \div Interval) * Interval

(* The next boundary of an interval, today.                                *)
NextSlot == Opens + RoundUp(minute - Opens, Interval) * Interval

BaseTime ==
  IF minute >= Closes THEN Opens + 1440
  ELSE IF minute < Opens THEN Opens ELSE NextSlot

(* Within a window, an interval of zero minutes makes every slot an        *)
(* invalid date.                                                           *)
ValidSlots == Opens <= minute /\ minute < Closes => Interval > 0

(* scheduleTweet fails at its first use of the slot that an empty window   *)
(* does not give.  It adds the job of an invalid date before the row of it *)
(* throws: the job has no delay.  Both errors are only logged.             *)
AutoScheduleForBot ==
  /\ wanted = 0
  /\ \E n \in Approved, q \in Quotas :
       /\ wanted' = Least(Least(n, frequency), q)
       /\ jobs' = IF startHour < endHour THEN wanted' ELSE 0
       /\ IF startHour < endHour /\ ValidSlots
          THEN \E jitter \in [1..wanted' -> Jitters] :
                 times' = [i \in 1..wanted' |->
                             BaseTime + (i - 1) * Interval + jitter[i]]
          ELSE times' = <<>>
  /\ UNCHANGED <<minute, startHour, endHour, frequency>>

SlotsNext == AutoScheduleForBot

SlotsSpec == SlotsInit /\ [][SlotsNext]_slotVars

-----------------------------------------------------------------------------
(* No tweet gets a time that has passed.                                   *)
SlotsAhead == \A i \in DOMAIN times : times[i] >= minute

(* A batch that is planned while the window is closed fits the next one:   *)
(* rounding and the cap on the batch leave room for all of it.             *)
ClosedWindowFits ==
  \/ Opens <= minute /\ minute < Closes
  \/ LET day == IF minute < Opens THEN 0 ELSE 1440 IN
     \A i \in DOMAIN times : /\ day + Opens <= times[i]
                             /\ times[i] < day + Closes + 5

(* With one post per minute of the window at most, every job has a row     *)
(* with its time, and no tweet of the batch is left out.                   *)
EveryTweetTimed ==
  frequency <= Closes - Opens => Len(times) = wanted /\ jobs = wanted

(* "Distributes tweets evenly across active hours": no post outside them.  *)
SlotsInWindow ==
  \A i \in DOMAIN times : \E day \in {0, 1440} :
     day + Opens <= times[i] /\ times[i] <= day + Closes
=============================================================================
