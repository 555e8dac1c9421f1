---------------------------- MODULE TimerManager ----------------------------
(***************************************************************************)
(* The timers of the fiber library (fiber/timer.cpp, timer.h): a set that  *)
(* is ordered by the time a timer is due.                                  *)
(*                                                                         *)
(* Time is relative: a timer has the time left until it is due instead of  *)
(* next_, and never less than 0, so that all overdue timers look alike.    *)
(* The set is a sequence in the order of Timer::Comparator; timers due at  *)
(* the same time are ordered by address, that is, in any way.              *)
(*                                                                         *)
(* The operators below are the critical sections of TimerManager; IOManager*)
(* and Hook make actions of them.  rollover is absent: GetElapsedMS never  *)
(* goes back for a single worker (see README).                             *)
(***************************************************************************)
EXTENDS Integers, Sequences, FiniteSets, Functions

CONSTANTS TimerId,  \* the Timer objects of the program
          Callback, \* what a timer may have to call
          MaxDelay  \* bound: the longest delay in use, in units of time

\* An int holds every delay: no conversion of a time to milliseconds overflows, and
\* the (int) that idle() casts the time to the next timer to is that time.
IntMax == 2147483647
ASSUME DelayAssumption == MaxDelay \in Nat \ {0} /\ MaxDelay <= IntMax

VARIABLES timers,  \* timers_
          armed,   \* the Timer objects with a callback (cb_ is not null)
          tickled  \* tickled_: the insertion of a first timer was announced

timerVars == <<timers, armed, tickled>>

Delay == 0 .. MaxDelay
Timer == [id : TimerId, left : Delay, ms : Delay, recurring : BOOLEAN, cb : Callback]

TimersTypeOK ==
  /\ timers \in Seq(Timer)
  /\ armed \subseteq TimerId
  /\ tickled \in BOOLEAN

TimersInit ==
  /\ timers = <<>>
  /\ armed = {}
  /\ tickled = FALSE

-----------------------------------------------------------------------------

AtMost(a, b) == IF a < b THEN a ELSE b
AtLeast0(a)  == IF a < 0 THEN 0 ELSE a

\* timers_ with the timers at the places K of ts: they are in the order in which
\* they are due.  Those at the places old keep their order, the others were
\* inserted, before or behind timers that are due at the same time.
Ordered(ts, K, old) ==
  {[n \in 1 .. Cardinality(K) |-> ts[p[n]]] :
     p \in {p \in Bijection(1 .. Cardinality(K), K) :
              \A m, n \in 1 .. Cardinality(K) : m < n =>
                /\ ts[p[m]].left <= ts[p[n]].left
                /\ p[m] \in old /\ p[n] \in old => p[m] < p[n]}}

IsQueued(id) == \E k \in DOMAIN timers : timers[k].id = id
QueuedTimer(id) == timers[CHOOSE k \in DOMAIN timers : timers[k].id = id]

\* Where timers_.find(..) does not find id, and another timer in its place.
Others(id) == {k \in DOMAIN timers : timers[k].id # id}
Replaced(id, t) == [k \in DOMAIN timers |-> IF timers[k].id = id THEN t ELSE timers[k]]

\* addTimer(val, lock), where ts has the val of this id besides the timers at the
\* places old.  front: whether OnTimerInsertedAtFront is called once the lock is
\* released.
Insert(ts, old, id, front) ==
  /\ timers' \in Ordered(ts, DOMAIN ts, old)
  /\ front = (timers'[1].id = id /\ ~tickled)
  /\ tickled' = (tickled \/ front)

\* addTimer and addConditionTimer.
AddTimer(id, ms, recurring, cb, front) ==
  /\ Insert(Append(timers, [id |-> id, left |-> ms, ms |-> ms, recurring |-> recurring,
                            cb |-> cb]),
            DOMAIN timers, id, front)
  /\ armed' = armed \cup {id}

\* Timer::cancel.  It erases what find(this) returns without asking whether
\* that is end(): see ArmedIsQueued.
Cancel(id) ==
  /\ armed' = armed \ {id}
  /\ IF id \in armed THEN timers' \in Ordered(timers, Others(id), Others(id))
                     ELSE UNCHANGED timers
  /\ UNCHANGED tickled

\* Timer::refresh: the whole delay starts again; nobody is told.
Refresh(id) ==
  /\ IF id \in armed /\ IsQueued(id)
     THEN LET t == QueuedTimer(id)
          IN  timers' \in Ordered(Replaced(id, [t EXCEPT !.left = t.ms]), DOMAIN timers,
                                  Others(id))
     ELSE UNCHANGED timers
  /\ UNCHANGED <<armed, tickled>>

\* Timer::reset with another delay, counted from now or from the last start.
Reset(id, ms, fromNow, front) ==
  IF id \in armed /\ IsQueued(id) /\ (fromNow \/ ms # QueuedTimer(id).ms)
  THEN LET t    == QueuedTimer(id)
           left == IF fromNow THEN ms ELSE AtLeast0(t.left - t.ms + ms)
       IN  /\ Insert(Replaced(id, [t EXCEPT !.left = left, !.ms = ms]), Others(id), id, front)
           /\ UNCHANGED armed
  ELSE /\ front = FALSE
       /\ UNCHANGED timerVars

\* getNextTimer: the time until the first timer is due, capped by most (~0ull,
\* for no timer, is later than anything).
NextTimer(most) == IF timers = <<>> THEN most ELSE AtMost(timers[1].left, most)
\* Mutant: the next insertion at the front is not announced.
GetNextTimerTickled == UNCHANGED timerVars
GetNextTimer == tickled' = FALSE /\ UNCHANGED <<timers, armed>>

\* Mutant: once the first timer is due, all are taken for due.
ExpiredTogether == IF timers # <<>> /\ timers[1].left = 0 THEN timers ELSE <<>>

\* listExpiredCb: the timers that are due are the first ones; those that recur are
\* queued again, the others lose their callback.
Due == {k \in DOMAIN timers : timers[k].left = 0}
Expired == SubSeq(timers, 1, Cardinality(Due))
\* Mutant: an expired timer keeps its callback.
ListExpiredArmed ==
  /\ timers' = SubSeq(timers, Cardinality(Due) + 1, Len(timers))
  /\ UNCHANGED <<armed, tickled>>
ListExpired ==
  LET again == {k \in Due : timers[k].recurring}
      ts    == [k \in DOMAIN timers |-> IF k \in Due
                                         THEN [timers[k] EXCEPT !.left = timers[k].ms]
                                         ELSE timers[k]]
  IN  /\ timers' \in Ordered(ts, (DOMAIN timers \ Due) \cup again, DOMAIN timers \ Due)
      /\ armed' = armed \ {timers[k].id : k \in Due \ again}
      /\ UNCHANGED tickled

\* A unit of time goes by.
Sooner(ts) == [k \in DOMAIN ts |-> [ts[k] EXCEPT !.left = AtLeast0(@ - 1)]]

-----------------------------------------------------------------------------

\* A Timer has a callback exactly as long as timers_ holds it: cancel() never
\* erases end(), and no expired timer is put back by reset or refresh (the
\* unchecked erase of timer.cpp:34 depends on listExpiredCb, cancel, reset and
\* every caller to keep the two together).
ArmedIsQueued == \A id \in TimerId : id \in armed <=> IsQueued(id)

=============================================================================
