--------------------------- MODULE RangedTimeout ---------------------------
(***************************************************************************)
(* The class RangedTimeout (snitun/utils/asyncio.py): a timer that is put  *)
(* off by activity, but moved only when it has run down to the minimum.    *)
(* Time is counted in ticks.  Of _when only the time until then counts.    *)
(***************************************************************************)
EXTENDS Integers

CONSTANTS MinTimeout, MaxTimeout

ASSUME TimeoutAssumption ==
    /\ {MinTimeout, MaxTimeout} \subseteq Nat \ {0}
    /\ MinTimeout < MaxTimeout

VARIABLES
    armed,     \* _timer is set
    remaining, \* time until _when, which cancel() leaves as it is; 0 if over
    idle       \* history: time that it has run since the last reschedule()

timerVars == <<armed, remaining, idle>>

TimerTypeOK ==
    /\ armed \in BOOLEAN
    /\ remaining \in 0 .. MaxTimeout
    /\ idle \in 0 .. MaxTimeout

TimerInit == armed = FALSE /\ remaining = 0 /\ idle = 0

\* Mutant: the timer is left alone as long as it runs.
RescheduleOnlyIfOver ==
    /\ idle' = 0
    /\ \/ remaining > 0 /\ UNCHANGED <<armed, remaining>>
       \/ remaining = 0 /\ armed' = TRUE /\ remaining' = MaxTimeout

\* reschedule, and __init__, which calls it
Reschedule ==
    /\ idle' = 0
    /\ \/ remaining > MinTimeout /\ UNCHANGED <<armed, remaining>>
       \/ /\ remaining <= MinTimeout
          /\ armed' = TRUE
          /\ remaining' = MaxTimeout

\* cancel
CancelTimer == armed' = FALSE /\ UNCHANGED <<remaining, idle>>

\* The timer calls back.
Fire ==
    /\ armed
    /\ remaining = 0
    /\ armed' = FALSE
    /\ UNCHANGED <<remaining, idle>>

\* Time passes; a timer that is due has called back first.
Tick ==
    /\ armed => remaining > 0
    /\ remaining' = IF remaining > 0 THEN remaining - 1 ELSE 0
    /\ idle' = IF armed THEN idle + 1 ELSE idle
    /\ UNCHANGED armed

-----------------------------------------------------------------------------
\* The timer alone, with activity at any moment.
TimerNext == Reschedule \/ CancelTimer \/ Fire \/ Tick
\* An object is created with its timer running.
TimerSpec ==
    armed = TRUE /\ remaining = MaxTimeout /\ idle = 0 /\ [][TimerNext]_timerVars

\* "The timeout callback will be called at some time between the minimum and
\* maximum timeout" (asyncio.py:50-52): however activity and time interleave,
\* a running timer is due no sooner and no later than that after the last
\* activity, although most calls of reschedule() do not touch it.
TimerInRange == armed => idle + remaining \in MinTimeout .. MaxTimeout
=============================================================================
