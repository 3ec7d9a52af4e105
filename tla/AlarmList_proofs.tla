-------------------------- MODULE AlarmList_proofs ---------------------------
(***************************************************************************)
(* Proofs about the alarm list, for any number of alarms, any intervals    *)
(* and any callbacks: what alt_llist_insert and alt_llist_remove do to the *)
(* pointers, and that a walk stays on the list while its callbacks change  *)
(* it.                                                                     *)
(***************************************************************************)
EXTENDS AlarmList, TLAPS

\* An alarm off the list is linked to itself, or has never been started.
OffInv ==
  \A a \in Alarms \ registered :
    (next[a] = Null /\ previous[a] = Null) \/ (next[a] = a /\ previous[a] = a)

\* The cursor is at something linked; a callback is an alarm's.
WalkInv ==
  /\ next[alarm] # Null /\ next[saved] # Null
  /\ pc = "callback" => alarm # Head

IInv == TypeOK /\ ListIsRegistered /\ OffInv /\ WalkInv

LEMMA InitInv == Init => IInv
<1> SUFFICES ASSUME Init PROVE IInv OBVIOUS
<1> USE AlarmAssumption DEF Nodes
<1>1. TypeOK
  <2>1. next \in [Nodes -> Nodes \cup {Null}] BY DEF Init
  <2>2. previous \in [Nodes -> Nodes \cup {Null}] BY <2>1 DEF Init
  <2>3. time \in [Alarms -> Nat] /\ nticks \in 0 .. MaxTicks BY DEF Init
  <2> QED BY <2>1, <2>2, <2>3 DEF Init, TypeOK
<1>2. \A x \in Nodes : next[x] = (IF x = Head THEN Head ELSE Null) /\ previous[x] = next[x]
  BY DEF Init
<1>3. TwoWays /\ OneRing BY <1>2 DEF Init, TwoWays, OneRing, Linked
<1>4. OffInv BY <1>2 DEF OffInv
<1>5. WalkInv BY <1>2 DEF Init, WalkInv
<1> QED BY <1>1, <1>3, <1>4, <1>5 DEF IInv, ListIsRegistered

-----------------------------------------------------------------------------
(* The pointers *)

LEMMA LinkedNodes ==
  ASSUME IInv
  PROVE  /\ Linked \subseteq Nodes /\ Head \in Linked
         /\ \A x \in Linked : next[x] # Null /\ previous[x] # Null
BY AlarmAssumption DEF IInv, TypeOK, ListIsRegistered, TwoWays, Linked, Nodes

LEMMA InsertLinks ==
  ASSUME IInv, NEW a \in Alarms \ registered, Insert(a), registered' = registered \cup {a}
  PROVE  /\ next' \in [Nodes -> Nodes \cup {Null}] /\ previous' \in [Nodes -> Nodes \cup {Null}]
         /\ ListIsRegistered' /\ OffInv'
         /\ \A x \in Nodes : next[x] # Null => next'[x] # Null
<1> USE AlarmAssumption
<1> DEFINE first == next[Head]
<1>1. first \in Linked /\ first \in Nodes /\ a \in Nodes /\ Head \in Nodes /\ a \notin Linked
      /\ first # a /\ a # Head
  BY LinkedNodes DEF IInv, ListIsRegistered, TwoWays, Linked, Nodes
<1>2. /\ next' \in [Nodes -> Nodes \cup {Null}]
      /\ previous' \in [Nodes -> Nodes \cup {Null}]
  BY <1>1 DEF Insert, IInv, TypeOK
<1>3. \A x \in Nodes :
        /\ next'[x] = IF x = Head THEN a ELSE IF x = a THEN first ELSE next[x]
        /\ previous'[x] = IF x = first THEN a ELSE IF x = a THEN Head ELSE previous[x]
  BY <1>1 DEF Insert, IInv, TypeOK
<1>4. Linked' = Linked \cup {a} BY DEF Linked
<1>5. TwoWays'
  <2> SUFFICES ASSUME NEW x \in Linked'
               PROVE  /\ next'[x] \in Linked' /\ previous'[x] \in Linked'
                      /\ previous'[next'[x]] = x /\ next'[previous'[x]] = x
    BY DEF TwoWays
  <2>1. \A y \in Linked : /\ next[y] \in Linked /\ previous[y] \in Linked
                          /\ previous[next[y]] = y /\ next[previous[y]] = y
    BY DEF IInv, ListIsRegistered, TwoWays
  <2>2. Linked \subseteq Nodes /\ Head \in Linked BY LinkedNodes
  <2>3. CASE x = a BY <1>1, <1>3, <1>4, <2>1, <2>2, <2>3
  <2>4. CASE x = Head BY <1>1, <1>3, <1>4, <2>1, <2>2, <2>4
  <2>5. CASE x = first BY <1>1, <1>3, <1>4, <2>1, <2>2, <2>5
  <2>6. CASE x \in Linked \ {Head, first} BY <1>1, <1>3, <1>4, <2>1, <2>2, <2>6
  <2> QED BY <1>4, <2>3, <2>4, <2>5, <2>6
<1>6. OneRing'
  <2> SUFFICES ASSUME NEW S \in SUBSET Linked', Head \in S, \A x \in S : next'[x] \in S
               PROVE  S = Linked'
    BY DEF OneRing
  <2>1. Linked \subseteq Nodes /\ Head \in Linked BY LinkedNodes
  <2>2. a \in S /\ first \in S BY <1>1, <1>3
  <2>3. S \ {a} \in SUBSET Linked /\ Head \in S \ {a} BY <1>1, <1>4
  <2>4. ASSUME NEW x \in S \ {a} PROVE next[x] \in S \ {a}
    <3>1. x \in Linked /\ next[x] \in Linked
      BY <2>3 DEF IInv, ListIsRegistered, TwoWays
    <3>2. next[x] \in S BY <1>1, <1>3, <2>1, <2>2, <3>1
    <3> QED BY <1>1, <3>1, <3>2
  <2>5. S \ {a} = Linked BY <2>3, <2>4 DEF IInv, ListIsRegistered, OneRing
  <2> QED BY <1>4, <2>2, <2>5
<1>7. OffInv' BY <1>1, <1>3 DEF IInv, OffInv, Linked, Nodes
<1>8. \A x \in Nodes : next[x] # Null => next'[x] # Null
  BY <1>1, <1>3, LinkedNodes DEF Nodes
<1> QED BY <1>2, <1>5, <1>6, <1>7, <1>8 DEF ListIsRegistered

\* Removing an alarm that is off the list already changes nothing.
LEMMA RemoveTwice ==
  ASSUME IInv, NEW a \in Alarms \ registered, next[a] # Null, Remove(a)
  PROVE  next' = next /\ previous' = previous
<1>1. next[a] = a /\ previous[a] = a BY DEF IInv, OffInv
<1>2. a \in Nodes BY DEF Nodes
<1> QED BY <1>1, <1>2 DEF Remove, IInv, TypeOK

LEMMA RemoveLinks ==
  ASSUME IInv, NEW a \in registered, Remove(a), registered' = registered \ {a}
  PROVE  /\ next' \in [Nodes -> Nodes \cup {Null}] /\ previous' \in [Nodes -> Nodes \cup {Null}]
         /\ ListIsRegistered' /\ OffInv'
         /\ \A x \in Nodes : next[x] # Null => next'[x] # Null
<1> USE AlarmAssumption
<1> DEFINE n == next[a]
           p == previous[a]
<1>1. a \in Linked /\ a \in Nodes /\ a # Head /\ a \in Alarms BY DEF IInv, TypeOK, Linked, Nodes
<1>2. \A y \in Linked : /\ next[y] \in Linked /\ previous[y] \in Linked
                        /\ previous[next[y]] = y /\ next[previous[y]] = y
  BY DEF IInv, ListIsRegistered, TwoWays
<1>3. n \in Linked /\ p \in Linked /\ n \in Nodes /\ p \in Nodes BY <1>1, <1>2, LinkedNodes
<1>4. /\ next' \in [Nodes -> Nodes \cup {Null}]
      /\ previous' \in [Nodes -> Nodes \cup {Null}]
  BY <1>1, <1>3 DEF Remove, IInv, TypeOK
<1>5. \A x \in Nodes :
        /\ next'[x] = IF x = a THEN a ELSE IF x = p THEN n ELSE next[x]
        /\ previous'[x] = IF x = a THEN a ELSE IF x = n THEN p ELSE previous[x]
  BY <1>1, <1>3 DEF Remove, IInv, TypeOK
<1>6. Linked' = Linked \ {a} /\ Head \in Linked' BY <1>1 DEF Linked
\* An alarm that follows itself would leave the head a ring without it.
<1>7. n # a /\ p # a
  <2> SUFFICES ASSUME n = a PROVE FALSE BY <1>1, <1>2
  <2>1. Linked \ {a} \in SUBSET Linked /\ Head \in Linked \ {a} BY <1>6
  <2>2. \A x \in Linked \ {a} : next[x] \in Linked \ {a} BY <1>1, <1>2
  <2>3. Linked \ {a} = Linked BY <2>1, <2>2 DEF IInv, ListIsRegistered, OneRing
  <2> QED BY <1>1, <2>3
<1>8. TwoWays'
  <2> SUFFICES ASSUME NEW x \in Linked \ {a}
               PROVE  /\ next'[x] \in Linked \ {a} /\ previous'[x] \in Linked \ {a}
                      /\ previous'[next'[x]] = x /\ next'[previous'[x]] = x
    BY <1>6 DEF TwoWays
  <2>1. Linked \subseteq Nodes BY LinkedNodes
  <2>2. next'[x] \in Linked \ {a} /\ previous'[next'[x]] = x
    <3>1. CASE x = p BY <1>1, <1>2, <1>3, <1>5, <1>7, <2>1, <3>1
    <3>2. CASE x # p BY <1>1, <1>2, <1>3, <1>5, <1>7, <2>1, <3>2
    <3> QED BY <3>1, <3>2
  <2>3. previous'[x] \in Linked \ {a} /\ next'[previous'[x]] = x
    <3>1. CASE x = n BY <1>1, <1>2, <1>3, <1>5, <1>7, <2>1, <3>1
    <3>2. CASE x # n BY <1>1, <1>2, <1>3, <1>5, <1>7, <2>1, <3>2
    <3> QED BY <3>1, <3>2
  <2> QED BY <2>2, <2>3
<1>9. OneRing'
  <2> SUFFICES ASSUME NEW S \in SUBSET (Linked \ {a}), Head \in S, \A x \in S : next'[x] \in S
               PROVE  S = Linked \ {a}
    BY <1>6 DEF OneRing
  <2>1. Linked \subseteq Nodes BY LinkedNodes
  <2>2. CASE p \in S
    <3>1. n \in S BY <1>1, <1>3, <1>5, <1>7, <2>2
    <3>2. ASSUME NEW x \in S \cup {a} PROVE next[x] \in S \cup {a}
      <4>1. CASE x = a BY <3>1, <4>1
      <4>2. CASE x = p BY <1>1, <1>2, <4>2
      <4>3. CASE x \in S \ {a, p} BY <1>5, <2>1, <4>3
      <4> QED BY <3>2, <4>1, <4>2, <4>3
    <3>3. S \cup {a} \in SUBSET Linked /\ Head \in S \cup {a} BY <1>1
    <3>4. S \cup {a} = Linked BY <3>2, <3>3 DEF IInv, ListIsRegistered, OneRing
    <3> QED BY <3>4
  <2>3. CASE p \notin S
    <3>1. \A x \in S : next[x] \in S BY <1>5, <2>1, <2>3
    <3>2. S = Linked BY <3>1 DEF IInv, ListIsRegistered, OneRing
    <3> QED BY <1>1, <3>2
  <2> QED BY <2>2, <2>3
<1>10. OffInv'
  <2> SUFFICES ASSUME NEW b \in Alarms \ registered'
               PROVE  \/ next'[b] = Null /\ previous'[b] = Null
                      \/ next'[b] = b /\ previous'[b] = b
    BY DEF OffInv
  <2>1. CASE b = a BY <1>1, <1>5, <2>1
  <2>2. CASE b # a
    <3>1. b \notin Linked /\ b \in Nodes BY <2>2 DEF Linked, Nodes
    <3>2. next'[b] = next[b] /\ previous'[b] = previous[b] BY <1>3, <1>5, <2>2, <3>1
    <3> QED BY <2>2, <3>2 DEF IInv, OffInv
  <2> QED BY <2>1, <2>2
<1>11. \A x \in Nodes : next[x] # Null => next'[x] # Null
  BY <1>1, <1>3, <1>5 DEF Nodes
<1> QED BY <1>4, <1>8, <1>9, <1>10, <1>11 DEF ListIsRegistered

\* Both together: alt_alarm_stop and the end of a callback.
LEMMA RemoveKeeps ==
  ASSUME IInv, NEW a \in Alarms, next[a] # Null, Remove(a), registered' = registered \ {a}
  PROVE  /\ next' \in [Nodes -> Nodes \cup {Null}] /\ previous' \in [Nodes -> Nodes \cup {Null}]
         /\ ListIsRegistered' /\ OffInv'
         /\ \A x \in Nodes : next[x] # Null => next'[x] # Null
<1>1. CASE a \in registered BY <1>1, RemoveLinks
<1>2. CASE a \notin registered
  <2>1. next' = next /\ previous' = previous BY <1>2, RemoveTwice
  <2>2. registered' = registered BY <1>2
  <2> QED BY <2>1, <2>2
    DEF IInv, TypeOK, ListIsRegistered, TwoWays, OneRing, Linked, OffInv
<1> QED BY <1>1, <1>2

-----------------------------------------------------------------------------
(* The steps *)

LEMMA StartInv ==
  ASSUME IInv, NEW a \in Alarms, NEW n \in Intervals, AlarmStart(a, n)
  PROVE  IInv'
<1>1. a \in Alarms \ registered /\ Insert(a) /\ registered' = registered \cup {a}
  BY DEF AlarmStart
<1>2. /\ next' \in [Nodes -> Nodes \cup {Null}] /\ previous' \in [Nodes -> Nodes \cup {Null}]
      /\ ListIsRegistered' /\ OffInv' /\ \A x \in Nodes : next[x] # Null => next'[x] # Null
  BY <1>1, InsertLinks
<1>3. TypeOK' BY <1>1, <1>2, AlarmAssumption DEF AlarmStart, DueAt, IInv, TypeOK, walk
<1>4. WalkInv' BY <1>2 DEF AlarmStart, IInv, TypeOK, WalkInv, walk
<1> QED BY <1>2, <1>3, <1>4 DEF IInv

LEMMA StopInv ==
  ASSUME IInv, NEW a \in Alarms, AlarmStop(a)
  PROVE  IInv'
<1>1. /\ next' \in [Nodes -> Nodes \cup {Null}] /\ previous' \in [Nodes -> Nodes \cup {Null}]
      /\ ListIsRegistered' /\ OffInv' /\ \A x \in Nodes : next[x] # Null => next'[x] # Null
  BY RemoveKeeps DEF AlarmStop
<1>2. TypeOK' BY <1>1 DEF AlarmStop, IInv, TypeOK, walk
<1>3. WalkInv' BY <1>1 DEF AlarmStop, IInv, TypeOK, WalkInv, walk
<1> QED BY <1>1, <1>2, <1>3 DEF IInv

LEMMA TickInv ==
  ASSUME IInv, SysclkInit \/ Tick \/ TickDone
  PROVE  IInv'
<1>1. UNCHANGED <<llist, registered, time>> BY DEF SysclkInit, Tick, TickDone
<1>2. ListIsRegistered' /\ OffInv'
  BY <1>1 DEF IInv, ListIsRegistered, TwoWays, OneRing, Linked, OffInv, llist
<1>3. next[Head] \in Nodes /\ next[next[Head]] # Null
  BY LinkedNodes DEF IInv, ListIsRegistered, TwoWays
<1>4. TypeOK'
  <2> USE <1>1, <1>3, AlarmAssumption DEF IInv, TypeOK, llist, walk
  <2>1. CASE SysclkInit BY <2>1 DEF SysclkInit
  <2>2. CASE Tick BY <2>2 DEF Tick
  <2>3. CASE TickDone BY <2>3 DEF TickDone
  <2> QED BY <2>1, <2>2, <2>3
<1>5. WalkInv' BY <1>1, <1>3 DEF SysclkInit, Tick, TickDone, IInv, WalkInv, llist, walk
<1> QED BY <1>2, <1>4, <1>5 DEF IInv

\* What something linked points to is linked.
LEMMA NextLinked ==
  ASSUME IInv, NEW x \in Nodes, next[x] # Null
  PROVE  next[x] \in Nodes /\ next[next[x]] # Null
<1>1. CASE x \in Linked BY <1>1, LinkedNodes DEF IInv, ListIsRegistered, TwoWays
<1>2. CASE x \notin Linked
  <2>1. next[x] = x BY <1>2 DEF IInv, OffInv, Linked, Nodes
  <2> QED BY <2>1
<1> QED BY <1>1, <1>2

LEMMA VisitInv ==
  ASSUME IInv, Visit
  PROVE  IInv'
<1>1. UNCHANGED <<llist, registered, time, nticks, tickRate>> BY DEF Visit
<1>2. ListIsRegistered' /\ OffInv'
  BY <1>1 DEF IInv, ListIsRegistered, TwoWays, OneRing, Linked, OffInv, llist
<1>3. next[alarm] \in Nodes /\ next[next[alarm]] # Null
  BY NextLinked DEF IInv, WalkInv, TypeOK
<1>4. TypeOK' BY <1>1, <1>3 DEF Visit, IInv, TypeOK, llist
<1>5. WalkInv' BY <1>1, <1>3 DEF Visit, IInv, WalkInv, llist
<1> QED BY <1>2, <1>4, <1>5 DEF IInv

LEMMA ReturnInv ==
  ASSUME IInv, NEW p \in Periods, CallbackReturns(p)
  PROVE  IInv'
<1>1. alarm \in Alarms /\ next[alarm] # Null /\ saved \in Nodes /\ Head \in Nodes
  BY DEF CallbackReturns, IInv, TypeOK, WalkInv, Nodes
<1>2. /\ next' \in [Nodes -> Nodes \cup {Null}] /\ previous' \in [Nodes -> Nodes \cup {Null}]
      /\ ListIsRegistered' /\ OffInv' /\ \A x \in Nodes : next[x] # Null => next'[x] # Null
  <2>1. CASE p = 0 BY <1>1, <2>1, RemoveKeeps DEF CallbackReturns
  <2>2. CASE p # 0
    <3>1. UNCHANGED <<next, previous, registered>> BY <2>2 DEF CallbackReturns, llist
    <3> QED BY <3>1 DEF IInv, TypeOK, ListIsRegistered, TwoWays, OneRing, Linked, OffInv
  <2> QED BY <2>1, <2>2
<1>3. time' \in [Alarms -> Nat] BY <1>1, AlarmAssumption DEF CallbackReturns, IInv, TypeOK
<1>4. TypeOK' BY <1>1, <1>2, <1>3 DEF CallbackReturns, IInv, TypeOK
<1>5. next[Head] # Null BY LinkedNodes
<1>6. WalkInv' BY <1>1, <1>2, <1>5 DEF CallbackReturns, IInv, WalkInv
<1> QED BY <1>2, <1>4, <1>6 DEF IInv

LEMMA StepInv ==
  ASSUME IInv, [Next]_vars
  PROVE  IInv'
<1>1. CASE UNCHANGED vars
  BY <1>1 DEF vars, llist, walk, IInv, TypeOK, ListIsRegistered, TwoWays, OneRing, Linked,
              OffInv, WalkInv
<1>2. ASSUME NEW a \in Alarms, AlarmStop(a) PROVE IInv' BY <1>2, StopInv
<1>3. ASSUME NEW a \in Alarms, NEW n \in Intervals, AlarmStart(a, n) PROVE IInv'
  BY <1>3, StartInv
<1>4. CASE SysclkInit \/ Tick \/ TickDone BY <1>4, TickInv
<1>5. CASE Visit BY <1>5, VisitInv
<1>6. ASSUME NEW p \in Periods, CallbackReturns(p) PROVE IInv' BY <1>6, ReturnInv
<1> QED BY <1>1, <1>2, <1>3, <1>4, <1>5, <1>6 DEF Next, Call, Walk

THEOREM Invariance == Spec => []IInv
<1> QED BY InitInv, StepInv, PTL DEF Spec

\* Pointers point to nodes: no start, stop or callback leaves a null pointer on the list or
\* the cursor on a structure that was never used.
THEOREM TypeCorrect == Spec => []TypeOK
<1>1. IInv => TypeOK BY DEF IInv
<1> QED BY <1>1, Invariance, PTL

\* The list is exactly the registered alarms (alt_alarm_start, alt_alarm_stop, alt_tick), also
\* where callbacks stop the alarm that follows their own.
THEOREM ListSound == Spec => []ListIsRegistered
<1>1. IInv => ListIsRegistered BY DEF IInv
<1> QED BY <1>1, Invariance, PTL

-----------------------------------------------------------------------------
(* The walk, where no callback stops the alarm that follows its own *)

\* The cursor, or what it goes on with after a callback, is on the list.
OnList ==
  /\ pc = "walk" => alarm \in Linked
  /\ pc = "callback" => saved \in Linked \ {alarm}

LEMMA NotItsOwnNext ==
  ASSUME IInv, NEW a \in registered
  PROVE  next[a] \in Linked \ {a}
<1>1. a \in Linked /\ Head \in Linked \ {a} BY AlarmAssumption DEF IInv, TypeOK, Linked
<1>2. \A y \in Linked : /\ next[y] \in Linked /\ previous[next[y]] = y
  BY DEF IInv, ListIsRegistered, TwoWays
<1> SUFFICES ASSUME next[a] = a PROVE FALSE BY <1>1, <1>2
<1>3. \A x \in Linked \ {a} : next[x] \in Linked \ {a} BY <1>1, <1>2
<1>4. Linked \ {a} = Linked BY <1>1, <1>3 DEF IInv, ListIsRegistered, OneRing
<1> QED BY <1>1, <1>4

LEMMA StepOnList ==
  ASSUME ~StopsNext, IInv, OnList, [Next]_vars
  PROVE  OnList' /\ (pc = "walk" /\ pc' = "callback" => alarm \in registered)
<1>1. CASE UNCHANGED vars BY <1>1 DEF vars, walk, OnList, Linked
<1>2. ASSUME NEW a \in Alarms, AlarmStop(a) PROVE OnList' /\ pc' = pc
  BY <1>2, AlarmAssumption DEF AlarmStop, OnList, Linked, walk
<1>3. ASSUME NEW a \in Alarms, NEW n \in Intervals, AlarmStart(a, n) PROVE OnList' /\ pc' = pc
  BY <1>3 DEF AlarmStart, OnList, Linked, walk
<1>4. CASE Tick
  BY <1>4, LinkedNodes DEF Tick, OnList, IInv, ListIsRegistered, TwoWays, Linked
<1>5. CASE SysclkInit \/ TickDone BY <1>5 DEF SysclkInit, TickDone, OnList, Linked, walk
<1>6. CASE Visit
  <2>1. pc = "walk" /\ alarm \in registered BY <1>6 DEF Visit, OnList, Linked
  <2>2. next[alarm] \in Linked \ {alarm} BY <2>1, NotItsOwnNext
  <2> QED BY <1>6, <2>1, <2>2 DEF Visit, OnList, Linked
<1>7. ASSUME NEW p \in Periods, CallbackReturns(p) PROVE OnList' /\ pc # "walk"
  BY <1>7 DEF CallbackReturns, OnList, Linked
<1> QED BY <1>1, <1>2, <1>3, <1>4, <1>5, <1>6, <1>7 DEF Next, Call, Walk

\* Where no callback stops the alarm that follows its own, only registered alarms are called
\* (alt_tick): that one call is the only way to an alarm that was stopped for good.
THEOREM RegisteredCalled == ~StopsNext => (Spec => OnlyRegisteredCalled)
<1> SUFFICES ASSUME ~StopsNext PROVE Spec => OnlyRegisteredCalled OBVIOUS
<1>1. Init => OnList BY DEF Init, OnList
<1>2. IInv /\ OnList /\ [Next]_vars =>
        OnList' /\ [pc = "walk" /\ pc' = "callback" => alarm \in registered]_vars
  BY StepOnList
<1> QED BY <1>1, <1>2, Invariance, PTL DEF Spec, OnlyRegisteredCalled
=============================================================================
