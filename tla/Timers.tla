------------------------------- MODULE Timers -------------------------------
(***************************************************************************)
(* The two timers of util/timer.py.  A timer is a record: running is the   *)
(* flag of a PeriodicTimer, live counts the handles that the event loop    *)
(* still has for it, and not only the last one, which the code remembers.  *)
(* A one-shot timer has no flag.                                           *)
(***************************************************************************)
EXTENDS Integers

(* A periodic timer: _schedule makes one more handle while the flag is set. *)
Handle(r, n) == [running |-> r, live |-> n]
Stopped == Handle(FALSE, 0)
Schedule(t) == IF t.running THEN Handle(TRUE, t.live + 1) ELSE t

StartAgain(t) == Schedule(Handle(TRUE, t.live))   \* mutant: a running timer is started
StartTimer(t) == IF t.running THEN t ELSE Schedule(Handle(TRUE, t.live))

(* cancel takes the last handle, if the event loop still has it. *)
StopTimer(t) == Handle(FALSE, IF t.live > 0 THEN t.live - 1 ELSE 0)

(* _fire: the handle is gone when the callback runs, which may start or    *)
(* stop its own timer and leaves it as u; then the next handle is made.    *)
Fired(t) == Handle(t.running, t.live - 1)
Fire(t, u) == IF t.running THEN Schedule(u) ELSE Fired(t)

(* A one-shot timer. *)
Once == Handle(FALSE, 1)
=============================================================================
