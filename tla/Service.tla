------------------------------ MODULE Service ------------------------------
(***************************************************************************)
(* BaseService as the message handler embeds it, under a manager whose     *)
(* goroutines start, stop and reset it.  A service is the record of its    *)
(* two atomic flags and its quit channel; Reset changes the flag `stopped' *)
(* before it makes a new channel, so it takes two steps.                   *)
(*                                                                         *)
(* `routine' is what OnStart has spawned and Stop waits for: DeliverMsg,   *)
(* one slot per instance alive.  A routine enters the wait group itself,   *)
(* so a spawned one is not waited for yet.                                 *)
(***************************************************************************)
EXTENDS Naturals, FiniteSets

CONSTANTS Slots      \* instances of DeliverMsg that may be alive together

NewService == [started |-> FALSE, stopped |-> FALSE, quit |-> "open"]

IsRunning(s) == s.started /\ ~s.stopped

\* Whether Start gets to OnStart; when it does not, `started' is set all the same.
Starts(s) == ~s.started /\ ~s.stopped

Start(s) == [s EXCEPT !.started = TRUE]

\* Stop closes the channel unless another Stop did; closing a closed one panics.
Stop(s) ==
  IF s.stopped THEN s
  ELSE [s EXCEPT !.stopped = TRUE, !.quit = IF @ = "open" THEN "closed" ELSE "panic"]

\* Reset: the flag first ...
CanReset(s) == s.stopped
ResetFlag(s) == [s EXCEPT !.stopped = FALSE]

\* ... then `started' and the channel.
ResetRest(s) == [s EXCEPT !.started = FALSE, !.quit = "open"]

Free(routine) == {r \in Slots : routine[r] = "none"}

\* OnStart spawns the routine into a free slot.
OnStart(routine) ==
  LET r == CHOOSE r \in Free(routine) : TRUE
  IN  [routine EXCEPT ![r] = "spawned"]

\* AllRoutineExitWg: those that have entered the wait group have left it.
AllRoutineExit(routine) == \A r \in Slots : routine[r] \in {"none", "spawned"}

ServiceType ==
  [started : BOOLEAN, stopped : BOOLEAN, quit : {"open", "closed", "panic"}]
=============================================================================
