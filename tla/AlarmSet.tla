------------------------------ MODULE AlarmSet ------------------------------
(***************************************************************************)
(* What the alarm service promises: a set of registered alarms, each with  *)
(* the tick it is due at. A tick calls every alarm that is due, once and   *)
(* on time, and the next tick comes when all of them have been called.     *)
(***************************************************************************)
EXTENDS Integers, Functions

CONSTANTS Alarms, Intervals, Periods

VARIABLES
  now,     \* ticks counted
  due,     \* for each registered alarm, the tick of its next call
  calling  \* the alarms the running tick has still to call

setVars == <<now, due, calling>>

Init == now = 0 /\ calling = {} /\ due = <<>>

Without(a) == Restrict(due, DOMAIN due \ {a})

Start(a) ==
  /\ a \notin DOMAIN due
  /\ \E n \in Intervals :
       due' = [b \in DOMAIN due \cup {a} |-> IF b = a THEN now + n + 1 ELSE due[b]]
  /\ UNCHANGED <<now, calling>>

\* A stopped alarm is called no more, not even by a tick that has begun.
Stop(a) ==
  /\ due' = Without(a) /\ calling' = calling \ {a}
  /\ UNCHANGED now

Tick ==
  /\ calling = {} /\ now' = now + 1
  /\ calling' = {a \in DOMAIN due : due[a] <= now'}
  /\ UNCHANGED due

\* The call of an alarm gives the period to its next one; no period removes it.
Call(a) ==
  /\ a \in calling /\ due[a] = now
  /\ calling' = calling \ {a}
  /\ due' = Without(a) \/ \E p \in Periods \ {0} : due' = [due EXCEPT ![a] = @ + p]
  /\ UNCHANGED now

Next == Tick \/ \E a \in Alarms : Start(a) \/ Stop(a) \/ Call(a)

Spec == Init /\ [][Next]_setVars
=============================================================================
