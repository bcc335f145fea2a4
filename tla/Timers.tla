------------------------------- MODULE Timers -------------------------------
(***************************************************************************)
(* src/ptimer.c and the timer_* functions of src/common.c: the timers for  *)
(* the time the application runs and the time it is paused.  A timer is    *)
(* started while its _startT has not been reset; a stop adds the time that *)
(* has passed to a total and resets it.  A stop without a start would add  *)
(* the whole time stamp counter, a second start would forget the first.    *)
(***************************************************************************)
EXTENDS Naturals

VARIABLE started

TimerNames == {"app", "paused"}

TimersInit == started = {}

TimerStart(timer) == started' = started \cup {timer}
TimerStop(timer)  == started' = started \ {timer}

----------------------------------------------------------------------------
(* getFrequency: the ratio in bits 15:8 of MSR CEh, times 100 MHz.         *)
GetFrequency(msr) == ((msr \div 256) % 256) * 100

(* What readMSR returns when it cannot read the register, by its comment   *)
(* an approximation of the frequency in MHz.                               *)
FallbackMSR == 2200
=============================================================================
