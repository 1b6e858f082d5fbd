---------------------------- MODULE TimeoutSource ----------------------------
(***************************************************************************)
(* Glib::TimeoutSource (glib/glibmm/main.cc): when the source is ready,    *)
(* how long the main loop may sleep and when the timeout is due again.     *)
(*                                                                         *)
(* Time is counted in units of which UsPerMs make a millisecond.  An       *)
(* attached source sees the time of its context, which GLib caches:        *)
(* "when checking multiple sources, GLib can cache a single value instead  *)
(* of having to repeatedly get the system monotonic time" (main.h).  The   *)
(* cache is refreshed when an iteration begins and after a poll that was   *)
(* allowed to sleep.                                                       *)
(***************************************************************************)
EXTENDS Integers

CONSTANTS
  UsPerMs,      \* 1000 in the code
  MaxInt,       \* G_MAXINT
  Intervals,    \* arguments of create(), in milliseconds
  MaxNow,       \* bound on the clock
  MaxSetbacks   \* bound on the number of times the clock is set back

ASSUME TimeoutSourceAssumption ==
  /\ UsPerMs \in Nat \ {0}
  /\ MaxInt \in Nat \ {0}
  /\ Intervals \subseteq Nat
  /\ MaxNow \in Nat
  /\ MaxSetbacks \in Nat

VARIABLES
  now,        \* the clock
  cached,     \* the time the context returns
  interval,   \* interval_
  expiration, \* expiration_
  phase,      \* where the main loop is
  timeout,    \* what prepare() returned
  ready,      \* prepare() or check() returned true
  slept,      \* the clock when the poll began
  setbacks    \* times the clock has been set back

timeoutVars == <<now, cached, interval, expiration, phase, timeout, ready, slept, setbacks>>

Phases == {"detached", "prepare", "poll", "check", "dispatch", "gone"}

(***************************************************************************)
(* timeout is an int and never negative: the loop does not wait forever.   *)
(***************************************************************************)
TimeoutTypeOK ==
  /\ now \in 0..MaxNow
  /\ cached \in 0..MaxNow
  /\ interval \in Intervals
  /\ expiration \in Nat
  /\ phase \in Phases
  /\ timeout \in 0..MaxInt
  /\ ready \in BOOLEAN
  /\ slept \in 0..MaxNow
  /\ setbacks \in 0..MaxSetbacks

ms2us(ms) == ms * UsPerMs

AtMost(x, y) == IF x <= y THEN x ELSE y

\* The constructor: the source has no context yet and asks the clock.
TimeoutInit ==
  /\ now \in 0..MaxNow
  /\ cached = now
  /\ interval \in Intervals
  /\ expiration = now + ms2us(interval)
  /\ phase = "detached"
  /\ timeout = 0
  /\ ready = FALSE
  /\ slept = now
  /\ setbacks = 0

\* attach().
AttachTimeout ==
  /\ phase = "detached"
  /\ phase' = "prepare"
  /\ cached' = now
  /\ UNCHANGED <<now, interval, expiration, timeout, ready, slept, setbacks>>

\* The timeout is due, or further away than it can be: the clock was set back.
\* Mutants: nobody looks, or microseconds are compared with milliseconds.
Expired == expiration - cached <= 0

SetBackNever == FALSE

SetBackInMs == expiration - cached > interval

SetBack == expiration - cached > ms2us(interval)

\* The whole milliseconds left.
Remaining == AtMost(MaxInt, (expiration - cached) \div UsPerMs)

\* prepare(): if the clock was set back, wait for one interval from now.
Prepare ==
  /\ phase = "prepare"
  /\ IF Expired
       THEN timeout' = 0 /\ UNCHANGED expiration
       ELSE IF SetBack
         THEN /\ expiration' = cached + ms2us(interval)
              /\ timeout' = AtMost(MaxInt, interval)
         ELSE timeout' = Remaining /\ UNCHANGED expiration
  /\ ready' = (timeout' = 0)
  /\ phase' = "poll"
  /\ slept' = now
  /\ UNCHANGED <<now, cached, interval, setbacks>>

\* The poll returns: at once if the timeout is 0, after the timeout, or earlier
\* because another source is ready.
PollReturns ==
  /\ phase = "poll"
  /\ phase' = "check"
  /\ cached' = IF timeout = 0 THEN cached ELSE now
  /\ UNCHANGED <<now, interval, expiration, timeout, ready, slept, setbacks>>

\* check() is not called for a source that prepare() found ready.  The mutant
\* calls a timeout due that has a millisecond left.
IsDueSoon == expiration - UsPerMs <= cached

IsDue == expiration <= cached

Check ==
  /\ phase = "check"
  /\ ready' = (ready \/ IsDue)
  /\ phase' = IF ready' THEN "dispatch" ELSE "prepare"
  /\ cached' = IF ready' THEN cached ELSE now
  /\ UNCHANGED <<now, interval, expiration, timeout, slept, setbacks>>

\* The slot has returned true: the next timeout is due one interval later.
Rearm == cached + ms2us(interval)

\* dispatch() calls the slot, which takes its time (Tick).
Dispatch(again) ==
  /\ phase = "dispatch"
  /\ expiration' = IF again THEN Rearm ELSE expiration
  /\ phase' = IF again THEN "prepare" ELSE "gone"
  /\ cached' = now
  /\ ready' = FALSE
  /\ UNCHANGED <<now, interval, timeout, slept, setbacks>>

\* The clock goes on, whatever the loop does, or is set back.
Tick ==
  /\ now < MaxNow
  /\ now' = now + 1
  /\ UNCHANGED <<cached, interval, expiration, phase, timeout, ready, slept, setbacks>>

SetClockBack(t) ==
  /\ setbacks < MaxSetbacks
  /\ t < now
  /\ now' = t
  /\ setbacks' = setbacks + 1
  /\ UNCHANGED <<cached, interval, expiration, phase, timeout, ready, slept>>

TimeoutNext ==
  \/ AttachTimeout
  \/ Prepare
  \/ PollReturns
  \/ Check
  \/ \E again \in BOOLEAN : Dispatch(again)
  \/ Tick
  \/ \E t \in 0..MaxNow : SetClockBack(t)

TimeoutSpec == TimeoutInit /\ [][TimeoutNext]_timeoutVars

-----------------------------------------------------------------------------

(***************************************************************************)
(* The loop is never told to sleep past the time at which the source is    *)
(* due, nor for longer than one interval: setting the clock back delays a  *)
(* timeout but does not make the loop hang ("this at least avoids hanging  *)
(* for long periods of time").                                             *)
(***************************************************************************)
NoOversleep ==
  phase = "poll" /\ timeout > 0 =>
    /\ cached + ms2us(timeout) <= expiration
    /\ timeout <= interval

(***************************************************************************)
(* "A slot to call when interval has elapsed" (main.h): prepare() rounds   *)
(* the remaining time down, so that a slot may be called before, but by    *)
(* less than a millisecond of the clock that decided that it is ready.     *)
(***************************************************************************)
NotMuchTooEarly ==
  [][ready' /\ ~ready => expiration' - cached' < UsPerMs]_timeoutVars

(***************************************************************************)
(* While the clock is not set back, a timeout that has been armed is not   *)
(* moved before it is dispatched, however often the loop wakes up early.   *)
(***************************************************************************)
NeverPostponed ==
  [][expiration' # expiration => phase = "dispatch" \/ setbacks > 0]_timeoutVars

=============================================================================
