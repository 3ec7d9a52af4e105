----------------------------- MODULE AlarmList ------------------------------
(***************************************************************************)
(* The alarms of the HAL: a doubly linked list of alarm structures with a  *)
(* head element, alt_alarm_start and alt_alarm_stop, and alt_tick, which   *)
(* walks the list at interrupt level and calls the alarms that are due.    *)
(*                                                                         *)
(* start and stop change the list with interrupts disabled, so that each is*)
(* one step for the application. The walk is interrupted by nothing, but   *)
(* the callbacks it makes start and stop alarms under its feet.            *)
(*                                                                         *)
(* A definition named Mut... is the one after it with a plausible bug in.  *)
(***************************************************************************)
EXTENDS Integers, FiniteSets, Functions

CONSTANTS
  Alarms,      \* alarm structures of the application and the drivers
  Head, Null,  \* alt_alarm_list, and the pointer of a structure not yet used
  Intervals,   \* nticks arguments of alt_alarm_start
  Periods,     \* values callbacks return
  StopsNext,   \* whether a callback may stop the alarm that follows its own
  MaxTicks     \* bound: ticks counted

ASSUME AlarmAssumption ==
  /\ Head \notin Alarms /\ Null \notin Alarms /\ Head # Null /\ IsFiniteSet(Alarms)
  /\ Intervals \subseteq Nat /\ Periods \subseteq Nat
  /\ StopsNext \in BOOLEAN /\ MaxTicks \in Nat

VARIABLES
  next, previous,  \* llist of each alarm and of the head
  time,            \* the tick each alarm is due at
  nticks,          \* _alt_nticks
  tickRate,        \* whether _alt_tick_rate is set
  pc,              \* "idle", or where alt_tick is
  alarm, saved,    \* alt_tick's alarm and next
  registered       \* history: the alarms started and not stopped since

llist == <<next, previous>>
walk == <<pc, alarm, saved>>
vars == <<llist, time, nticks, tickRate, walk, registered>>

Nodes == Alarms \cup {Head}

Init ==
  /\ next = [x \in Nodes |-> IF x = Head THEN Head ELSE Null] /\ previous = next
  /\ time = [a \in Alarms |-> 0] /\ nticks = 0 /\ tickRate = FALSE
  /\ pc = "idle" /\ alarm = Head /\ saved = Head
  /\ registered = {}

-----------------------------------------------------------------------------
(* alt_llist_insert and alt_llist_remove, assignment by assignment *)

\* entry becomes the first of the list.
MutInsert(entry) ==
  LET first == next[Head]
  IN  /\ previous' = [[previous EXCEPT ![entry] = Head] EXCEPT ![first] = entry]
      /\ next' = [next EXCEPT ![Head] = entry]
Insert(entry) ==
  LET first == next[Head]
  IN  /\ previous' = [[previous EXCEPT ![entry] = Head] EXCEPT ![first] = entry]
      /\ next' = [[next EXCEPT ![entry] = first] EXCEPT ![Head] = entry]

\* The neighbours of entry are linked, and entry to itself, so that removing it once
\* more is harmless.
MutRemove(entry) ==
  /\ previous' = [previous EXCEPT ![next[entry]] = previous[entry]]
  /\ next' = [next EXCEPT ![previous[entry]] = next[entry]]
Remove(entry) ==
  /\ previous' = [[previous EXCEPT ![next[entry]] = previous[entry]]
                            EXCEPT ![entry] = entry]
  /\ next' = [[next EXCEPT ![previous[entry]] = next[entry]] EXCEPT ![entry] = entry]

-----------------------------------------------------------------------------
(* The application, and the callbacks *)

\* The system clock driver announces itself (alt_sysclk_init).
SysclkInit ==
  /\ pc = "idle" /\ ~tickRate /\ tickRate' = TRUE
  /\ UNCHANGED <<llist, time, nticks, walk, registered>>

\* The tick an alarm started now with n is due at: at least n whole ticks away.
DueAt(n) == n + nticks + 1

\* alt_alarm_start fails, and changes nothing, while there is no system clock. An
\* alarm is started only while it is not registered, and not by its own callback,
\* which returns a period instead.
AlarmStart(a, n) ==
  /\ pc \in {"idle", "callback"} /\ tickRate /\ a \notin registered
  /\ pc = "callback" => a # alarm
  /\ Insert(a) /\ time' = [time EXCEPT ![a] = DueAt(n)]
  /\ registered' = registered \cup {a}
  /\ UNCHANGED <<nticks, tickRate, walk>>

\* alt_alarm_stop, on an alarm started before, registered or not.
AlarmStop(a) ==
  /\ pc \in {"idle", "callback"} /\ next[a] # Null
  /\ pc = "callback" /\ a = saved => StopsNext
  /\ Remove(a) /\ registered' = registered \ {a}
  /\ UNCHANGED <<time, nticks, tickRate, walk>>

-----------------------------------------------------------------------------
(* alt_tick *)

\* Count the tick; alarm = alt_alarm_list.next.
Tick ==
  /\ pc = "idle" /\ tickRate /\ nticks < MaxTicks
  /\ nticks' = nticks + 1
  /\ pc' = "walk" /\ alarm' = next[Head]
  /\ UNCHANGED <<llist, time, tickRate, saved, registered>>

\* next is read before the callback, which may take alarm off the list.
Visit ==
  /\ pc = "walk" /\ alarm # Head
  /\ IF time[alarm] <= nticks
     THEN pc' = "callback" /\ saved' = next[alarm] /\ UNCHANGED alarm
     ELSE alarm' = next[alarm] /\ UNCHANGED <<pc, saved>>
  /\ UNCHANGED <<llist, time, nticks, tickRate, registered>>

\* The callback returns p; zero stops the alarm.
MutCallbackReturns(p) ==
  /\ pc = "callback"
  /\ IF p = 0
     THEN Remove(alarm) /\ registered' = registered \ {alarm} /\ UNCHANGED time
     ELSE time' = [time EXCEPT ![alarm] = @ + p] /\ UNCHANGED <<llist, registered>>
  /\ pc' = "walk" /\ alarm' = next'[alarm] /\ saved' = Head
  /\ UNCHANGED <<nticks, tickRate>>
CallbackReturns(p) ==
  /\ pc = "callback"
  /\ IF p = 0
     THEN Remove(alarm) /\ registered' = registered \ {alarm} /\ UNCHANGED time
     ELSE time' = [time EXCEPT ![alarm] = @ + p] /\ UNCHANGED <<llist, registered>>
  /\ pc' = "walk" /\ alarm' = saved /\ saved' = Head
  /\ UNCHANGED <<nticks, tickRate>>

TickDone ==
  /\ pc = "walk" /\ alarm = Head /\ pc' = "idle"
  /\ UNCHANGED <<llist, time, nticks, tickRate, alarm, saved, registered>>

-----------------------------------------------------------------------------
Call == \E a \in Alarms : AlarmStop(a) \/ \E n \in Intervals : AlarmStart(a, n)
Walk == Visit \/ (\E p \in Periods : CallbackReturns(p)) \/ TickDone
Next == SysclkInit \/ Call \/ Tick \/ Walk

Spec == Init /\ [][Next]_vars

\* The processor runs the tick on, and callbacks return.
FairSpec == Spec /\ WF_vars(Walk)

-----------------------------------------------------------------------------
(* Properties *)

\* Pointers point to nodes, and the clock, the walk and the alarms have their types.
TypeOK ==
  /\ next \in [Nodes -> Nodes \cup {Null}] /\ previous \in [Nodes -> Nodes \cup {Null}]
  /\ time \in [Alarms -> Nat] /\ nticks \in 0 .. MaxTicks /\ tickRate \in BOOLEAN
  /\ pc \in {"idle", "walk", "callback"} /\ alarm \in Nodes /\ saved \in Nodes
  /\ registered \subseteq Alarms

\* Whatever the application and the callbacks start and stop, the list holds exactly
\* the registered alarms, each once, and its two directions agree: the head and the
\* registered alarms link each other, and only all of them are a ring.
Linked == registered \cup {Head}
TwoWays ==
  \A x \in Linked :
    /\ next[x] \in Linked /\ previous[x] \in Linked
    /\ previous[next[x]] = x /\ next[previous[x]] = x
OneRing == \A S \in SUBSET Linked : Head \in S /\ (\A x \in S : next[x] \in S) => S = Linked
ListIsRegistered == TwoWays /\ OneRing

\* Only a registered alarm is called: alt_alarm_stop removes an alarm for good.
OnlyRegisteredCalled ==
  [][pc = "walk" /\ pc' = "callback" => alarm \in registered]_vars

\* A tick ends.
TickEnds == pc # "idle" ~> pc = "idle"

\* The alarms a walk from node x meets before the head; at most all of them.
From(x) ==
  LET path[k \in 0 .. Cardinality(Alarms)] ==
        IF k = 0 THEN x ELSE IF path[k - 1] = Head THEN Head ELSE next[path[k - 1]]
  IN  {path[k] : k \in DOMAIN path} \ {Head}

\* The tick's list walk makes the calls of the abstract alarm set: those due alarms
\* the cursor has yet to meet, the one whose callback runs included.
Waiting ==
  CASE pc = "idle" -> {}
    [] pc = "walk" -> {a \in From(alarm) : time[a] <= nticks}
    [] pc = "callback" ->
         {a \in From(saved) \cup ({alarm} \cap registered) : time[a] <= nticks}

Abstract == INSTANCE AlarmSet WITH
  now <- nticks, due <- Restrict(time, registered), calling <- Waiting

\* The list and its walk implement the set of alarms.
ImplementsAlarmSet == Abstract!Spec
=============================================================================
