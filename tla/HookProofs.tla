----------------------------- MODULE HookProofs -----------------------------
(***************************************************************************)
(* Proofs about the fiber library (scheduler.cpp, iomanager.cpp, hook.cpp  *)
(* over timer.cpp) with one worker thread, for any fibers, sockets, timers *)
(* and scripts: FiberInv of HookInvariants is invariant, and with it every *)
(* waiting fiber is resumed once, no assertion fails, no timer is          *)
(* overslept, no call is cut short and stop() leaves nothing behind.  A    *)
(* part of the invariant has a lemma ..Step that says that every step      *)
(* keeps it, with one case per action:                                     *)
(*   types      SchedTypesStep, EventTypesStep, IdleTypesStep,             *)
(*              FiberTypesStep                                             *)
(*   worker     WorkersStep                                                *)
(*   timers     TimersStep (timers_ and its callbacks, TimerManagerProofs) *)
(*   events     PendingStep, EventsStep                                    *)
(*   queues     TasksStep, NoPanicStep, MainStep                           *)
(*   fibers     FibersStep, from SchedulingFibers, RunningFibers,          *)
(*              OutsideFibers                                              *)
(*   time       KnownStep (TimersKnown), LimitsStep (DelaysKept and        *)
(*              LatesFirst, from SchedulingKept, RunningKept, TimeoutKept, *)
(*              MainKept, TickKept)                                        *)
(*   stopping   StopStep                                                   *)
(***************************************************************************)
EXTENDS HookInvariants, TimerManagerProofs

-----------------------------------------------------------------------------
\* Sequences of tasks: whether one holds a task of a set, and one only.

In(s, S)   == \E k \in DOMAIN s : s[k] \in S
Once(s, S) == \A j, k \in DOMAIN s : s[j] \in S /\ s[k] \in S => j = k

\* Two sequences one after the other.
LEMMA ConcatFacts ==
  ASSUME NEW T, NEW s \in Seq(T), NEW u \in Seq(T), NEW S
  PROVE  /\ s \o u \in Seq(T)
         /\ In(s \o u, S) <=> In(s, S) \/ In(u, S)
         /\ Once(s, S) /\ Once(u, S) /\ ~(In(s, S) /\ In(u, S)) => Once(s \o u, S)
<1> DEFINE v == s \o u
           m == Len(s)
           n == Len(u)
<1>1. /\ v \in Seq(T) /\ m \in Nat /\ n \in Nat /\ Len(v) = m + n
      /\ DOMAIN s = 1 .. m /\ DOMAIN u = 1 .. n /\ DOMAIN v = 1 .. m + n
      /\ \A i \in 1 .. m + n : v[i] = IF i <= m THEN s[i] ELSE u[i - m]
  BY ConcatProperties, LenProperties
<1> HIDE DEF v, m, n
<1>2. \A i \in 1 .. m : i \in 1 .. m + n /\ v[i] = s[i]
  BY <1>1
<1>3. \A i \in 1 .. n : m + i \in 1 .. m + n /\ v[m + i] = u[i]
  BY <1>1
<1>4. \A i \in 1 .. m + n : \/ i \in 1 .. m /\ v[i] = s[i]
                            \/ i - m \in 1 .. n /\ v[i] = u[i - m]
  BY <1>1
<1>5. In(v, S) <=> In(s, S) \/ In(u, S)
  <2>1. ASSUME In(s, S) PROVE In(v, S)
    BY <1>1, <1>2, <2>1 DEF In
  <2>2. ASSUME In(u, S) PROVE In(v, S)
    BY <1>1, <1>3, <2>2 DEF In
  <2>3. ASSUME In(v, S) PROVE In(s, S) \/ In(u, S)
    BY <1>1, <1>4, <2>3 DEF In
  <2> QED
    BY <2>1, <2>2, <2>3
<1>6. ASSUME Once(s, S), Once(u, S), ~(In(s, S) /\ In(u, S)) PROVE Once(v, S)
  <2> SUFFICES ASSUME NEW j \in 1 .. m + n, NEW k \in 1 .. m + n, v[j] \in S, v[k] \in S
               PROVE  j = k
    BY <1>1 DEF Once
  <2>1. CASE j \in 1 .. m /\ v[j] = s[j] /\ k \in 1 .. m /\ v[k] = s[k]
    BY <1>1, <1>6, <2>1 DEF Once
  <2>2. CASE j - m \in 1 .. n /\ v[j] = u[j - m] /\ k - m \in 1 .. n /\ v[k] = u[k - m]
    <3>1. j - m = k - m
      BY <1>1, <1>6, <2>2 DEF Once
    <3> QED
      BY <1>1, <3>1
  <2>3. CASE j \in 1 .. m /\ v[j] = s[j] /\ k - m \in 1 .. n /\ v[k] = u[k - m]
    BY <1>1, <1>6, <2>3 DEF In
  <2>4. CASE k \in 1 .. m /\ v[k] = s[k] /\ j - m \in 1 .. n /\ v[j] = u[j - m]
    BY <1>1, <1>6, <2>4 DEF In
  <2> QED
    BY <1>4, <2>1, <2>2, <2>3, <2>4
<1> QED
  BY <1>1, <1>5, <1>6 DEF v

\* The rest of a sequence behind its first element.
LEMMA TailFacts ==
  ASSUME NEW T, NEW s \in Seq(T), s # <<>>, NEW S
  PROVE  /\ Head(s) \in T /\ Tail(s) \in Seq(T)
         /\ In(s, S) <=> Head(s) \in S \/ In(Tail(s), S)
         /\ Once(s, S) => Once(Tail(s), S) /\ ~(Head(s) \in S /\ In(Tail(s), S))
<1> DEFINE v == Tail(s)
           m == Len(s)
<1>1. /\ v \in Seq(T) /\ Len(v) = m - 1 /\ Head(s) = s[1] /\ Head(s) \in T
      /\ m \in Nat /\ m > 0 /\ DOMAIN s = 1 .. m /\ DOMAIN v = 1 .. m - 1
      /\ \A i \in 1 .. m - 1 : v[i] = s[i + 1]
  BY HeadTailProperties, LenProperties, EmptySeq
<1> HIDE DEF v, m
<1>2. \A i \in 1 .. m - 1 : i + 1 \in 1 .. m /\ i + 1 # 1
  BY <1>1
<1>3. \A i \in 1 .. m : i = 1 \/ (i - 1 \in 1 .. m - 1 /\ v[i - 1] = s[i])
  BY <1>1
<1>4. 1 \in 1 .. m
  BY <1>1
<1>5. In(s, S) <=> Head(s) \in S \/ In(v, S)
  BY <1>1, <1>2, <1>3, <1>4 DEF In
<1>6. ASSUME Once(s, S) PROVE Once(v, S) /\ ~(Head(s) \in S /\ In(v, S))
  <2>1. Once(v, S)
    <3> SUFFICES ASSUME NEW j \in 1 .. m - 1, NEW k \in 1 .. m - 1, v[j] \in S, v[k] \in S
                 PROVE  j = k
      BY <1>1 DEF Once
    <3>1. j + 1 = k + 1
      BY <1>1, <1>2, <1>6 DEF Once
    <3> QED
      BY <3>1
  <2>2. ASSUME Head(s) \in S, NEW i \in 1 .. m - 1, v[i] \in S PROVE FALSE
    BY <1>1, <1>2, <1>4, <1>6, <2>2 DEF Once
  <2> QED
    BY <1>1, <2>1, <2>2 DEF In
<1> QED
  BY <1>1, <1>5, <1>6 DEF v

\* Sequences of one element and of none.
LEMMA SingleFacts ==
  ASSUME NEW S, NEW t
  PROVE  /\ \A T : t \in T => <<t>> \in Seq(T)
         /\ In(<<t>>, S) <=> t \in S
         /\ Once(<<t>>, S) /\ ~In(<<>>, S) /\ Once(<<>>, S)
<1>1. DOMAIN <<t>> = {1} /\ <<t>>[1] = t /\ DOMAIN <<>> = {}
  BY EmptySeq, LenProperties
<1> QED
  BY <1>1 DEF In, Once

-----------------------------------------------------------------------------
\* Types.  The counters and the timers come with the invariants they belong to.

SchedTypes ==
  /\ tasks \in Seq(Task)
  /\ state \in [Fiber -> {"NEW", "READY", "RUNNING", "TERM"}]
  /\ stopped \in BOOLEAN /\ pipe \in BOOLEAN /\ panicked \in BOOLEAN
  /\ at \in [Worker -> Places]
  /\ hand \in [Worker -> Task \cup {NoTask}]
  /\ idleTerm \in [Worker -> BOOLEAN]

EventTypes ==
  /\ regs \in [Fd -> [Event -> Fiber \cup {NoFiber}]]
  /\ ready \in [Fd -> SUBSET (Event \cup {HUP})]
  /\ edge \in [Fd -> SUBSET (Event \cup {HUP})]

IdleTypes ==
  /\ wait \in [Worker -> 0 .. MaxTimeout]
  /\ due \in [Worker -> Seq(Task)]
  /\ got \in [Worker -> [Fd -> SUBSET (Event \cup {HUP})]]
  /\ told \in [Worker -> BOOLEAN]

FiberTypes ==
  /\ line \in [Fiber -> Nat] /\ \A f \in Fiber : line[f] \in 1 .. Len(Script[f]) + 1
  /\ step \in [Fiber -> {"call", "try", "kernel", "event", "yield", "woken"}]
  /\ limit \in [Fiber -> Delay \cup {NoLimit}]
  /\ cancelled \in [Fiber -> BOOLEAN]
  /\ result \in [Fiber -> Result]
  /\ since \in [Fiber -> Delay]
  /\ sock \in [Fd -> [open : BOOLEAN, nonblock : BOOLEAN, limit : [Event -> Delay \cup {NoLimit}],
             blocks : BOOLEAN, timed : SUBSET Event]]
  /\ mainAt \in 1 .. Len(MainScript) + 4

Types == TimersTypeOK /\ SchedTypes /\ EventTypes /\ IdleTypes /\ FiberTypes

CountTypes == /\ active \in 0 .. Cardinality(Worker) /\ idleCnt \in 0 .. Cardinality(Worker)
              /\ pending \in 0 .. Cardinality(Fiber)

\* The types of Hook, variable group by variable group.
LEMMA TypeOKParts == TypeOK <=> Types /\ CountTypes
BY DEF TypeOK, Types, CountTypes, SchedTypes, EventTypes, IdleTypes, FiberTypes

\* What the calls of a fiber are made of.
LEMMA ScriptFacts ==
  ASSUME NEW f \in Fiber
  PROVE  /\ Script[f] \in Seq(Call) /\ Len(Script[f]) \in Nat
         /\ DOMAIN Script[f] = 1 .. Len(Script[f])
         /\ \A k \in DOMAIN Script[f] :
              /\ Script[f][k] \in Call
              /\ Script[f][k].op = "sleep" => /\ Script[f][k].time \in Time
                                              /\ Millis(Script[f][k].time) \in Delay
              /\ Script[f][k].op = "setsockopt" => /\ Millis(Script[f][k].time) \in Delay
                                                   /\ Script[f][k].event \in Event
              /\ Script[f][k].op \in {"fcntl", "ioctl"} => Script[f][k].nonblock \in BOOLEAN
              /\ Script[f][k].op # "sleep" => Script[f][k].fd \in Fd
              /\ Script[f][k].op = "io" => Script[f][k].event \in Event
              /\ Script[f][k].op \in {"io", "connect"} => Awaited(Script[f][k]) \in Event
<1>1. Script[f] \in Seq(Call)
  BY HookAssumption
<1>2. Len(Script[f]) \in Nat /\ DOMAIN Script[f] = 1 .. Len(Script[f])
  BY <1>1, LenProperties
<1>3. \A k \in DOMAIN Script[f] : Script[f][k] \in Call
  BY <1>1, <1>2, ElementOfSeq
<1>4. ASSUME NEW c \in Call
      PROVE  /\ c.op = "sleep" => c.time \in Time /\ Millis(c.time) \in Delay
             /\ c.op = "setsockopt" => Millis(c.time) \in Delay /\ c.event \in Event
             /\ c.op \in {"fcntl", "ioctl"} => c.nonblock \in BOOLEAN
             /\ c.op # "sleep" => c.fd \in Fd
             /\ c.op = "io" => c.event \in Event
             /\ c.op \in {"io", "connect"} => Awaited(c) \in Event
  <2>1. WRITE \in Event
    BY DEF Event
  <2> QED
    BY <2>1 DEF Call, Awaited
<1> QED
  BY <1>1, <1>2, <1>3, <1>4

\* The call that a fiber is at, if it is not at its end.
LEMMA CallsFacts ==
  ASSUME FiberTypes, NEW f \in Fiber, line[f] <= Len(Script[f])
  PROVE  line[f] \in DOMAIN Script[f] /\ Op(f) = Script[f][line[f]]
<1>1. line[f] \in 1 .. Len(Script[f]) + 1 /\ Len(Script[f]) \in Nat
      /\ DOMAIN Script[f] = 1 .. Len(Script[f])
  BY ScriptFacts DEF FiberTypes
<1> QED
  BY <1>1 DEF Op

\* The tasks that are handed to the scheduler.
LEMMA TaskFacts ==
  /\ UserTask \in Task
  /\ \A f \in Fiber : FiberTask(f) \in Task /\ WakeTask(f) \in Task
  /\ \A f \in Fiber : \A k \in DOMAIN Script[f] : TimeoutTask(f, k) \in Task
  /\ \A t \in Task : /\ t.kind \in {"fiber", "wake", "user", "timeout"}
                     /\ t.kind = "fiber" => t.fiber \in Fiber /\ t = FiberTask(t.fiber)
                     /\ t.kind = "wake" => t.fiber \in Fiber /\ t = WakeTask(t.fiber)
                     /\ t.kind = "timeout" => t.fiber \in Fiber /\ t.call \in DOMAIN Script[t.fiber]
                     /\ t # NoTask
<1>1. /\ UserTask \in Task
      /\ \A f \in Fiber : FiberTask(f) \in Task /\ WakeTask(f) \in Task
      /\ \A f \in Fiber : \A k \in DOMAIN Script[f] : TimeoutTask(f, k) \in Task
  BY DEF Task
<1>2. ASSUME NEW t \in Task
      PROVE  \/ t = UserTask
             \/ \E f \in Fiber : t = FiberTask(f)
             \/ \E f \in Fiber : t = WakeTask(f)
             \/ \E f \in Fiber : \E k \in DOMAIN Script[f] : t = TimeoutTask(f, k)
  BY DEF Task
<1>3. ASSUME NEW t \in Task
      PROVE  /\ t.kind \in {"fiber", "wake", "user", "timeout"}
             /\ t.kind = "fiber" => t.fiber \in Fiber /\ t = FiberTask(t.fiber)
             /\ t.kind = "wake" => t.fiber \in Fiber /\ t = WakeTask(t.fiber)
             /\ t.kind = "timeout" => t.fiber \in Fiber /\ t.call \in DOMAIN Script[t.fiber]
             /\ t # NoTask
  <2>1. CASE t = UserTask
    BY <2>1 DEF UserTask, NoTask
  <2>2. CASE \E f \in Fiber : t = FiberTask(f)
    BY <2>2 DEF FiberTask, NoTask
  <2>3. CASE \E f \in Fiber : t = WakeTask(f)
    BY <2>3 DEF WakeTask, NoTask
  <2>4. CASE \E f \in Fiber : \E k \in DOMAIN Script[f] : t = TimeoutTask(f, k)
    BY <2>4 DEF TimeoutTask, NoTask
  <2> QED
    BY <1>2, <2>1, <2>2, <2>3, <2>4
<1> QED
  BY <1>1, <1>3

\* Tasks of different kinds or fibers differ.
LEMMA TasksDiffer ==
  ASSUME NEW f, NEW g, NEW k
  PROVE  /\ FiberTask(f) = FiberTask(g) <=> f = g
         /\ WakeTask(f) = WakeTask(g) <=> f = g
         /\ FiberTask(f) # WakeTask(g) /\ FiberTask(f) # UserTask /\ WakeTask(f) # UserTask
         /\ TimeoutTask(f, k) # FiberTask(g) /\ TimeoutTask(f, k) # WakeTask(g)
         /\ FiberTask(f) # NoTask /\ WakeTask(f) # NoTask
         /\ FiberTask(f).kind = "fiber" /\ FiberTask(f).fiber = f
         /\ WakeTask(f).kind = "wake" /\ WakeTask(f).fiber = f
         /\ TimeoutTask(f, k).kind = "timeout"
         /\ UserTask.kind = "user" /\ NoTask.kind = "none"
BY DEF FiberTask, WakeTask, TimeoutTask, UserTask, NoTask

\* A new task, and one taken away.
LEMMA ScheduleType ==
  ASSUME tasks \in Seq(Task), pipe \in BOOLEAN, NEW new \in Seq(Task), Schedule(new)
  PROVE  tasks' \in Seq(Task) /\ pipe' \in BOOLEAN
BY ConcatProperties DEF Schedule, Tickle

\* The fibers that wait for the events es of d, once each if one fiber does not
\* wait for both.
LEMMA WokenType ==
  ASSUME EventTypes, NEW d \in Fd, NEW es, es \subseteq Waiting(d)
  PROVE  /\ Woken(d, es) \in Seq(Task)
         /\ \A S : In(Woken(d, es), S) <=> \E e \in es : FiberTask(regs[d][e]) \in S
         /\ \A S : (FiberTask(regs[d][READ]) \in S /\ FiberTask(regs[d][WRITE]) \in S => es # Event)
                     => Once(Woken(d, es), S)
<1> DEFINE one(e) == IF e \in es THEN <<FiberTask(regs[d][e])>> ELSE <<>>
<1>1. Woken(d, es) = one(READ) \o one(WRITE)
  BY DEF Woken
<1>2. es \subseteq Event /\ Event = {READ, WRITE}
  BY DEF Waiting, Event
<1>3. \A e \in es : regs[d][e] \in Fiber
  BY <1>2 DEF Waiting, EventTypes
<1>4. ASSUME NEW e, NEW S
      PROVE  /\ one(e) \in Seq(Task) /\ Once(one(e), S)
             /\ In(one(e), S) <=> e \in es /\ FiberTask(regs[d][e]) \in S
  <2>1. CASE e \in es
    <3>1. one(e) = <<FiberTask(regs[d][e])>> /\ FiberTask(regs[d][e]) \in Task
      BY <1>3, <2>1, TaskFacts
    <3> QED
      BY <2>1, <3>1, SingleFacts
  <2>2. CASE e \notin es
    <3>1. one(e) = <<>>
      BY <2>2
    <3> QED
      BY <2>2, <3>1, SingleFacts, EmptySeq
  <2> QED
    BY <2>1, <2>2
<1> HIDE DEF one
<1>5. Woken(d, es) \in Seq(Task)
  <2>1. one(READ) \in Seq(Task) /\ one(WRITE) \in Seq(Task)
    BY <1>4
  <2> QED
    BY <1>1, <2>1, ConcatProperties
<1>6. ASSUME NEW S
      PROVE  In(Woken(d, es), S) <=> \E e \in es : FiberTask(regs[d][e]) \in S
  <2>1. In(Woken(d, es), S) <=> In(one(READ), S) \/ In(one(WRITE), S)
    BY <1>1, <1>4, ConcatFacts
  <2>2. (\E e \in es : FiberTask(regs[d][e]) \in S)
          <=> \/ READ \in es /\ FiberTask(regs[d][READ]) \in S
              \/ WRITE \in es /\ FiberTask(regs[d][WRITE]) \in S
    BY <1>2
  <2> QED
    BY <1>4, <2>1, <2>2
<1>7. ASSUME NEW S, FiberTask(regs[d][READ]) \in S /\ FiberTask(regs[d][WRITE]) \in S => es # Event
      PROVE  Once(Woken(d, es), S)
  <2>1. ~(In(one(READ), S) /\ In(one(WRITE), S))
    BY <1>2, <1>4, <1>7
  <2> QED
    BY <1>1, <1>4, <2>1, ConcatFacts
<1> QED
  BY <1>5, <1>6, <1>7

\* triggerEvent keeps the types.
LEMMA TriggerType ==
  ASSUME SchedTypes, EventTypes, NEW d \in Fd, NEW es, es \subseteq Waiting(d), Trigger(d, es)
  PROVE  /\ tasks' \in Seq(Task) /\ pipe' \in BOOLEAN
         /\ regs' \in [Fd -> [Event -> Fiber \cup {NoFiber}]]
         /\ edge' \in [Fd -> SUBSET (Event \cup {HUP})]
<1>1. tasks' \in Seq(Task) /\ pipe' \in BOOLEAN
  BY WokenType, ScheduleType DEF Trigger, SchedTypes
<1>2. regs' \in [Fd -> [Event -> Fiber \cup {NoFiber}]]
  BY DEF Trigger, EventTypes
<1>3. Rearmed(d, Waiting(d) \ es) \subseteq Event \cup {HUP}
  BY DEF Rearmed, EventTypes
<1>4. edge' \in [Fd -> SUBSET (Event \cup {HUP})]
  BY <1>3 DEF Trigger, EventTypes
<1> QED
  BY <1>1, <1>2, <1>4

\* So does cancelEvent.
LEMMA CancelEventType ==
  ASSUME SchedTypes, EventTypes, NEW d \in Fd, NEW es, CancelEvent(d, es)
  PROVE  /\ tasks' \in Seq(Task) /\ pipe' \in BOOLEAN
         /\ regs' \in [Fd -> [Event -> Fiber \cup {NoFiber}]]
         /\ edge' \in [Fd -> SUBSET (Event \cup {HUP})]
<1>1. Waiting(d) \cap es \subseteq Waiting(d)
  OBVIOUS
<1>2. CASE Waiting(d) \cap es # {}
  BY <1>1, <1>2, TriggerType DEF CancelEvent
<1>3. CASE Waiting(d) \cap es = {}
  BY <1>3 DEF CancelEvent, SchedTypes, EventTypes
<1> QED
  BY <1>2, <1>3

-----------------------------------------------------------------------------
\* The steps of a program with one worker, and what their guards say.

LEMMA NextCases ==
  ASSUME NEW w, Worker = {w}, Next
  PROVE  \/ Scheduling(w) /\ UNCHANGED <<fiberVars, since, sock, mainAt>>
         \/ RunTimeout(w) \/ CancelOfTimeout(w)
         \/ \E f \in Fiber : Running(w, f)
         \/ Main \/ Tick
         \/ \E d \in Fd, e \in Event \cup {HUP} : Arrive(d, e)
BY DEF Next, Works

\* The task that a worker has in hand is one it may run at its place.
LEMMA HandFacts ==
  ASSUME SchedTypes, WorkersFit, TasksFit, NEW w \in Worker
  PROVE  /\ hand[w] \in Task \cup {NoTask}
         /\ at[w] \in {"resume", "fiber", "cancel"} => hand[w] \in Task
         /\ hand[w].kind = "fiber" => /\ hand[w].fiber \in Fiber
                                      /\ hand[w] = FiberTask(hand[w].fiber)
         /\ hand[w].kind = "wake" => /\ hand[w].fiber \in Fiber
                                     /\ hand[w] = WakeTask(hand[w].fiber)
         /\ hand[w].kind = "timeout" =>
              LET call == Script[hand[w].fiber][hand[w].call]
              IN  /\ hand[w].fiber \in Fiber
                  /\ call.op \in {"io", "connect"} /\ call.fd \in Fd /\ Awaited(call) \in Event
         /\ at[w] = "cancel" => hand[w].kind = "timeout"
         /\ at[w] = "fiber" => hand[w].kind = "fiber"
<1>1. hand[w] \in Task \cup {NoTask}
  BY DEF SchedTypes
<1>2. at[w] \in {"resume", "fiber", "cancel"} => hand[w] \in Task
  BY <1>1 DEF WorkersFit
<1>3. hand[w] = NoTask \/ hand[w] \in Task
  BY <1>1
<1>4. hand[w].kind \in {"fiber", "wake", "timeout"} => hand[w] \in Task
  BY <1>3 DEF NoTask
<1>5. ASSUME hand[w].kind = "timeout"
      PROVE  LET call == Script[hand[w].fiber][hand[w].call]
             IN  /\ hand[w].fiber \in Fiber
                 /\ call.op \in {"io", "connect"} /\ call.fd \in Fd /\ Awaited(call) \in Event
  <2> DEFINE g == hand[w].fiber
             k == hand[w].call
  <2>1. g \in Fiber /\ k \in DOMAIN Script[g]
    BY <1>4, <1>5, TaskFacts
  <2>2. Script[g][k].op \in {"io", "connect"}
    BY <1>5 DEF TasksFit, LimitFits
  <2> HIDE DEF g, k
  <2>3. Script[g][k].fd \in Fd /\ Awaited(Script[g][k]) \in Event
    BY <2>1, <2>2, ScriptFacts
  <2> QED
    BY <2>1, <2>2, <2>3 DEF g, k
<1> QED
  BY <1>1, <1>2, <1>4, <1>5, TaskFacts DEF WorkersFit

\* A fiber that is in the middle of a call: what that call is.
LEMMA CallsUse ==
  ASSUME FiberTypes, NEW w, NEW f \in Fiber, NEW kind, NEW place, Calls(w, f, kind, place)
  PROVE  /\ line[f] \in DOMAIN Script[f] /\ line[f] <= Len(Script[f])
         /\ line[f] + 1 \in 1 .. Len(Script[f]) + 1
         /\ Op(f) \in Call /\ Op(f).op = kind
         /\ kind = "sleep" => Op(f).time \in Time /\ Millis(Op(f).time) \in Delay
         /\ kind = "setsockopt" => Millis(Op(f).time) \in Delay /\ Op(f).event \in Event
         /\ kind \in {"fcntl", "ioctl"} => Op(f).nonblock \in BOOLEAN
         /\ kind \in {"io", "connect", "close", "setsockopt", "fcntl", "ioctl"} => Op(f).fd \in Fd
         /\ kind = "io" => Op(f).event \in Event
         /\ kind \in {"io", "connect"} => WaitsFor(f) \in Event
         /\ at[w] = "fiber" /\ hand[w] = FiberTask(f) /\ step[f] = place
<1>1. line[f] <= Len(Script[f]) /\ Op(f).op = kind
      /\ at[w] = "fiber" /\ hand[w] = FiberTask(f) /\ step[f] = place
  BY DEF Calls
<1>2. line[f] \in DOMAIN Script[f] /\ Op(f) = Script[f][line[f]]
  BY <1>1, CallsFacts
<1>3. line[f] + 1 \in 1 .. Len(Script[f]) + 1
  BY <1>1, <1>2, ScriptFacts
<1> QED
  BY <1>1, <1>2, <1>3, ScriptFacts DEF WaitsFor

\* The call that the main thread is at.
LEMMA MainFacts ==
  ASSUME FiberTypes, mainAt <= Len(MainScript)
  PROVE  /\ mainAt \in DOMAIN MainScript /\ MainOp \in MainCall
         /\ MainOp.op = "scheduler" => MainOp.fiber \in Fiber
         /\ MainOp.op \in {"addTimer", "refresh", "cancel", "reset"} => MainOp.timer \in UserTimer
         /\ MainOp.op = "addTimer" => MainOp.ms \in Delay /\ MainOp.recurring \in BOOLEAN
         /\ MainOp.op = "reset" => MainOp.ms \in Delay /\ MainOp.fromNow \in BOOLEAN
<1>1. MainScript \in Seq(MainCall)
  BY HookAssumption
<1>2. Len(MainScript) \in Nat /\ DOMAIN MainScript = 1 .. Len(MainScript)
  BY <1>1, LenProperties
<1>3. mainAt \in DOMAIN MainScript
  BY <1>2 DEF FiberTypes
<1>4. MainOp \in MainCall
  BY <1>1, <1>2, <1>3, ElementOfSeq DEF MainOp
<1>5. ASSUME NEW c \in MainCall
      PROVE  /\ c.op = "scheduler" => c.fiber \in Fiber
             /\ c.op \in {"addTimer", "refresh", "cancel", "reset"} => c.timer \in UserTimer
             /\ c.op = "addTimer" => c.ms \in Delay /\ c.recurring \in BOOLEAN
             /\ c.op = "reset" => c.ms \in Delay /\ c.fromNow \in BOOLEAN
  BY DEF MainCall
<1> QED
  BY <1>3, <1>4, <1>5

-----------------------------------------------------------------------------
\* Types

\* The variables of the scheduler.
LEMMA SchedTypesStep ==
  ASSUME Types, WorkersFit, TasksFit, NEW w, Worker = {w}, Next
  PROVE  SchedTypes'
<1> USE DEF SchedTypes, schedVars
<1>1. w \in Worker
  OBVIOUS
<1>2. SchedTypes /\ EventTypes /\ IdleTypes /\ FiberTypes
  BY DEF Types
<1> DEFINE Tickled == tasks' = tasks /\ pipe' \in BOOLEAN
<1>3. \A needed : Tickle(needed) => pipe' \in BOOLEAN
  BY DEF Tickle
<1>4. ASSUME NEW place \in Places, Goto(w, place) PROVE at' \in [Worker -> Places]
  BY <1>2, <1>4 DEF Goto
<1>5. ASSUME HandBack(w)
      PROVE  at' \in [Worker -> Places] /\ hand' \in [Worker -> Task \cup {NoTask}]
  BY <1>2, <1>5 DEF HandBack, Goto, Places
<1>10. CASE Scheduling(w) /\ UNCHANGED <<fiberVars, since, sock, mainAt>>
  <2>1. CASE TakeTask(w)
    <3>1. tasks # <<>>
      BY <2>1 DEF TakeTask
    <3>2. Head(tasks) \in Task /\ Tail(tasks) \in Seq(Task)
      BY <1>2, <3>1, HeadTailProperties
    <3> QED
      BY <1>2, <1>3, <2>1, <3>2 DEF TakeTask, Goto, Places
  <2>2. CASE RunWake(w)
    <3>1. FiberTask(hand[w].fiber) \in Task
      BY <1>1, <1>2, <2>2, HandFacts, TaskFacts DEF RunWake
    <3>2. <<FiberTask(hand[w].fiber)>> \in Seq(Task)
      BY <3>1, SingleFacts
    <3>3. tasks' \in Seq(Task) /\ pipe' \in BOOLEAN
      BY <1>2, <2>2, <3>2, ScheduleType DEF RunWake
    <3> QED
      BY <1>2, <1>5, <2>2, <3>3 DEF RunWake
  <2>3. CASE PushExpired(w)
    <3>1. CASE due[w] # <<>>
      <4>1. Head(due[w]) \in Task
        BY <1>1, <1>2, <3>1, HeadTailProperties DEF IdleTypes
      <4>2. <<Head(due[w])>> \in Seq(Task)
        BY <4>1, SingleFacts
      <4>3. tasks' \in Seq(Task) /\ pipe' \in BOOLEAN
        BY <1>2, <2>3, <3>1, <4>2, ScheduleType DEF PushExpired
      <4> QED
        BY <1>2, <2>3, <3>1, <4>3 DEF PushExpired
    <3>2. CASE due[w] = <<>>
      BY <1>2, <2>3, <3>2 DEF PushExpired, Goto, Places
    <3> QED
      BY <3>1, <3>2
  <2>4. CASE \E d \in Fd : HandleEvent(w, d)
    <3>1. PICK d \in Fd : HandleEvent(w, d)
      BY <2>4
    <3> DEFINE real == (got[w][d] \ {HUP}) \cup (IF HUP \in got[w][d] THEN Waiting(d) ELSE {})
    <3>2. UNCHANGED <<state, stopped, at, hand, idleTerm>> /\ panicked' \in BOOLEAN
      BY <1>2, <3>1 DEF HandleEvent
    <3>3. UNCHANGED <<tasks, pipe>> \/ (real \subseteq Waiting(d) /\ Trigger(d, real))
      BY <3>1 DEF HandleEvent
    <3> HIDE DEF real
    <3>4. tasks' \in Seq(Task) /\ pipe' \in BOOLEAN
      BY <1>2, <3>3, TriggerType
    <3> QED
      BY <1>2, <3>2, <3>4
  <2>5. CASE FindNothing(w) \/ ResumeFiber(w) \/ Rest(w) \/ Idle(w) \/ WaitOrStop(w)
    BY <1>2, <2>5 DEF FindNothing, ResumeFiber, Rest, Idle, WaitOrStop, Goto, Places
  <2>6. CASE EpollWait(w) \/ Expire(w) \/ ReadPipe(w) \/ LeaveIdle(w)
    BY <1>2, <2>6 DEF EpollWait, Expire, ReadPipe, LeaveIdle, Goto, Places
  <2>7. CASE RunUser(w)
    BY <1>2, <1>5, <2>7 DEF RunUser
  <2> QED
    BY <1>10, <2>1, <2>2, <2>3, <2>4, <2>5, <2>6, <2>7 DEF Scheduling
<1>11. CASE RunTimeout(w)
  BY <1>2, <1>5, <1>11 DEF RunTimeout, Goto, Places
<1>12. CASE CancelOfTimeout(w)
  <2> DEFINE call == Script[hand[w].fiber][hand[w].call]
  <2>1. call.fd \in Fd
    BY <1>1, <1>2, <1>12, HandFacts DEF CancelOfTimeout
  <2>2. CancelEvent(call.fd, {Awaited(call)}) /\ HandBack(w)
        /\ UNCHANGED <<state, stopped, idleTerm, panicked>>
    BY <1>12 DEF CancelOfTimeout
  <2> HIDE DEF call
  <2>3. tasks' \in Seq(Task) /\ pipe' \in BOOLEAN
    BY <1>2, <2>1, <2>2, CancelEventType
  <2> QED
    BY <1>2, <1>5, <2>2, <2>3
<1>13. CASE \E f \in Fiber : Running(w, f)
  <2>1. PICK f \in Fiber : Running(w, f)
    BY <1>13
  <2>2. CASE Sleep(w, f) \/ WakeFromSleep(w, f) \/ BeginIo(w, f) \/ WakeFromEvent(w, f) \/ SetTimeLimit(w, f) \/ SetNonblock(w, f)
    BY <1>2, <1>3, <2>2 DEF Sleep, WakeFromSleep, BeginIo, WakeFromEvent, SetTimeLimit, SetNonblock, SetTimer, ioVars
  <2>3. CASE TryIo(w, f) \/ TryConnect(w, f) \/ LeaveKernel(w, f)
    BY <1>2, <1>3, <2>3 DEF TryIo, TryConnect, LeaveKernel, SetTimer, SetLimit
  <2>4. CASE AwaitEvent(w, f)
    BY <1>2, <2>4 DEF AwaitEvent, AddEvent
  <2>5. CASE YieldInCall(w, f) \/ EndFiber(w, f)
    BY <1>2, <1>5, <2>5 DEF YieldInCall, EndFiber, Yield
  <2>6. CASE Close(w, f)
    <3>1. Op(f).fd \in Fd
      BY <1>2, <2>6, CallsUse DEF Close
    <3>2. CancelEvent(Op(f).fd, Event) /\ UNCHANGED <<state, at, hand, stopped, idleTerm, panicked>>
      BY <2>6 DEF Close
    <3>3. tasks' \in Seq(Task) /\ pipe' \in BOOLEAN
      BY <1>2, <3>1, <3>2, CancelEventType
    <3> QED
      BY <1>2, <3>2, <3>3
  <2> QED
    BY <2>1, <2>2, <2>3, <2>4, <2>5, <2>6 DEF Running
<1>14. CASE Main
  <2>1. CASE Submit
    <3>1. FiberTask(MainOp.fiber) \in Task
      BY <1>2, <2>1, MainFacts, TaskFacts DEF Submit, Does, MainOp
    <3>2. <<FiberTask(MainOp.fiber)>> \in Seq(Task)
      BY <3>1, SingleFacts
    <3>3. tasks' \in Seq(Task) /\ pipe' \in BOOLEAN
      BY <1>2, <2>1, <3>2, ScheduleType DEF Submit
    <3> QED
      BY <1>2, <2>1, <3>3 DEF Submit
  <2>2. CASE UseTimer
    BY <1>2, <1>3, <2>2 DEF UseTimer
  <2>3. CASE Stop \/ SetStopped \/ TickleAll \/ Join
    BY <1>2, <1>3, <2>3 DEF Stop, SetStopped, TickleAll, Join, ioVars
  <2> QED
    BY <1>14, <2>1, <2>2, <2>3 DEF Main
<1>15. CASE Tick
  BY <1>2, <1>15 DEF Tick
<1>16. CASE \E d \in Fd, e \in Event \cup {HUP} : Arrive(d, e)
  BY <1>2, <1>16 DEF Arrive
<1> QED
  BY <1>10, <1>11, <1>12, <1>13, <1>14, <1>15, <1>16, NextCases

\* Sockets, and what epoll knows of them.
LEMMA EventTypesStep ==
  ASSUME Types, WorkersFit, TasksFit, NEW w, Worker = {w}, Next
  PROVE  EventTypes'
<1> USE DEF EventTypes, eventVars, ioVars
<1>1. w \in Worker
  OBVIOUS
<1>2. SchedTypes /\ EventTypes /\ IdleTypes /\ FiberTypes
  BY DEF Types
<1>3. ASSUME NEW d, NEW e, Take(d, e) PROVE ready' \in [Fd -> SUBSET (Event \cup {HUP})]
  BY <1>2, <1>3 DEF Take
<1>10. CASE Scheduling(w) /\ UNCHANGED <<fiberVars, since, sock, mainAt>>
  <2>1. CASE \E d \in Fd : HandleEvent(w, d)
    <3>1. PICK d \in Fd : HandleEvent(w, d)
      BY <2>1
    <3> DEFINE real == (got[w][d] \ {HUP}) \cup (IF HUP \in got[w][d] THEN Waiting(d) ELSE {})
    <3>2. UNCHANGED ready
      BY <3>1 DEF HandleEvent
    <3>3. UNCHANGED <<regs, edge>> \/ (real \subseteq Waiting(d) /\ Trigger(d, real))
      BY <3>1 DEF HandleEvent
    <3> HIDE DEF real
    <3> QED
      BY <1>2, <3>2, <3>3, TriggerType
  <2>2. CASE EpollWait(w)
    BY <1>2, <2>2 DEF EpollWait
  <2>3. CASE TakeTask(w) \/ FindNothing(w) \/ ResumeFiber(w) \/ RunWake(w) \/ RunUser(w) \/ Rest(w) \/ Idle(w)
    BY <1>2, <2>3 DEF TakeTask, FindNothing, ResumeFiber, RunWake, RunUser, Rest, Idle
  <2>4. CASE WaitOrStop(w) \/ Expire(w) \/ PushExpired(w) \/ ReadPipe(w) \/ LeaveIdle(w)
    BY <1>2, <2>4 DEF WaitOrStop, Expire, PushExpired, ReadPipe, LeaveIdle
  <2> QED
    BY <1>10, <2>1, <2>2, <2>3, <2>4 DEF Scheduling
<1>11. CASE RunTimeout(w)
  BY <1>2, <1>11 DEF RunTimeout
<1>12. CASE CancelOfTimeout(w)
  <2> DEFINE call == Script[hand[w].fiber][hand[w].call]
  <2>1. call.fd \in Fd
    BY <1>1, <1>2, <1>12, HandFacts DEF CancelOfTimeout
  <2>2. CancelEvent(call.fd, {Awaited(call)}) /\ UNCHANGED ready
    BY <1>12 DEF CancelOfTimeout
  <2> HIDE DEF call
  <2> QED
    BY <1>2, <2>1, <2>2, CancelEventType
<1>13. CASE \E f \in Fiber : Running(w, f)
  <2>1. PICK f \in Fiber : Running(w, f)
    BY <1>13
  <2>2. CASE BeginIo(w, f) \/ TryIo(w, f) \/ LeaveKernel(w, f)
    <3>1. ready' \in [Fd -> SUBSET (Event \cup {HUP})]
      BY <1>2, <1>3, <2>2 DEF BeginIo, TryIo, LeaveKernel
    <3> QED
      BY <1>2, <2>2, <3>1 DEF BeginIo, TryIo, LeaveKernel
  <2>3. CASE AwaitEvent(w, f)
    <3>1. PICK kind \in {"io", "connect"} : Calls(w, f, kind, "event")
      BY <2>3 DEF AwaitEvent
    <3>2. Op(f).fd \in Fd /\ WaitsFor(f) \in Event
      BY <1>2, <3>1, CallsUse
    <3>3. AddEvent(Op(f).fd, WaitsFor(f), f)
      BY <2>3 DEF AwaitEvent
    <3>4. \A d \in Fd : \A es : Rearmed(d, es) \subseteq Event \cup {HUP}
      BY <1>2 DEF Rearmed
    <3>5. CASE regs[Op(f).fd][WaitsFor(f)] # NoFiber
      BY <1>2, <3>3, <3>5 DEF AddEvent
    <3>6. CASE regs[Op(f).fd][WaitsFor(f)] = NoFiber
      <4>1. PICK d, e, R : d = Op(f).fd /\ e = WaitsFor(f) /\ R = Rearmed(d, Waiting(d) \cup {e})
        OBVIOUS
      <4>2. /\ regs' = [regs EXCEPT ![d][e] = f] /\ edge' = [edge EXCEPT ![d] = R] /\ ready' = ready
            /\ d \in Fd /\ e \in Event /\ R \in SUBSET (Event \cup {HUP})
        BY <3>2, <3>3, <3>4, <3>6, <4>1 DEF AddEvent
      <4>3. edge' \in [Fd -> SUBSET (Event \cup {HUP})]
        BY <1>2, <4>2
      <4>4. regs' \in [Fd -> [Event -> Fiber \cup {NoFiber}]]
        <5>1. regs[d] \in [Event -> Fiber \cup {NoFiber}] /\ regs' = [regs EXCEPT ![d] = [regs[d] EXCEPT ![e] = f]]
          BY <1>2, <4>2
        <5>2. [regs[d] EXCEPT ![e] = f] \in [Event -> Fiber \cup {NoFiber}]
          BY <5>1
        <5> QED
          BY <1>2, <5>1, <5>2
      <4> QED
        BY <1>2, <4>2, <4>3, <4>4
    <3> QED
      BY <3>5, <3>6
  <2>4. CASE Close(w, f)
    <3>1. Op(f).fd \in Fd
      <4>1. Calls(w, f, "close", "call")
        BY <2>4 DEF Close
      <4> QED
        BY <1>2, <4>1, CallsUse
    <3>2. CancelEvent(Op(f).fd, Event) /\ UNCHANGED ready
      BY <2>4 DEF Close
    <3> QED
      BY <1>2, <3>1, <3>2, CancelEventType
  <2>5. CASE Sleep(w, f) \/ WakeFromSleep(w, f) \/ TryConnect(w, f) \/ WakeFromEvent(w, f) \/ SetTimeLimit(w, f) \/ SetNonblock(w, f)
    BY <1>2, <2>5 DEF Sleep, WakeFromSleep, TryConnect, WakeFromEvent, SetTimeLimit, SetNonblock
  <2>6. CASE YieldInCall(w, f) \/ EndFiber(w, f)
    BY <1>2, <2>6 DEF YieldInCall, EndFiber, Yield
  <2> QED
    BY <2>1, <2>2, <2>3, <2>4, <2>5, <2>6 DEF Running
<1>14. CASE Main
  <2>1. CASE Submit \/ UseTimer
    BY <1>2, <2>1 DEF Submit, UseTimer
  <2>2. CASE Stop \/ SetStopped \/ TickleAll \/ Join
    BY <1>2, <2>2 DEF Stop, SetStopped, TickleAll, Join
  <2> QED
    BY <1>14, <2>1, <2>2 DEF Main
<1>15. CASE Tick
  BY <1>2, <1>15 DEF Tick
<1>16. CASE \E d \in Fd, e \in Event \cup {HUP} : Arrive(d, e)
  <2>1. PICK d \in Fd, e \in Event \cup {HUP} : Arrive(d, e)
    BY <1>16
  <2>2. ready' \in [Fd -> SUBSET (Event \cup {HUP})]
    BY <1>2, <2>1 DEF Arrive
  <2>3. Waiting(d) \subseteq Event
    BY DEF Waiting
  <2>4. edge' \in [Fd -> SUBSET (Event \cup {HUP})]
    BY <1>2, <2>1, <2>2, <2>3 DEF Arrive
  <2> QED
    BY <1>2, <2>1, <2>2, <2>4 DEF Arrive
<1> QED
  BY <1>10, <1>11, <1>12, <1>13, <1>14, <1>15, <1>16, NextCases

\* What a worker knows in idle().
LEMMA IdleTypesStep ==
  ASSUME Types, WellOrdered(timers), NEW w, Worker = {w}, Next
  PROVE  IdleTypes'
<1> USE DEF IdleTypes, idleVars, ioVars
<1>1. w \in Worker
  OBVIOUS
<1>2. TimersTypeOK /\ EventTypes /\ IdleTypes
  BY DEF Types
<1>3. NextTimer(MaxTimeout) \in 0 .. MaxTimeout
  <2>1. CASE timers = <<>>
    BY <2>1, IOManagerAssumption DEF NextTimer
  <2>2. CASE timers # <<>>
    <3>1. timers[1] \in Timer
      BY <1>2, <2>2, HeadTailProperties DEF TimersTypeOK
    <3> QED
      BY <2>2, <3>1, IOManagerAssumption, DelayAssumption DEF NextTimer, AtMost, Timer, Delay
  <2> QED
    BY <2>1, <2>2
<1>10. CASE Scheduling(w) /\ UNCHANGED <<fiberVars, since, sock, mainAt>>
  <2>1. CASE Idle(w)
    BY <1>2, <1>3, <2>1 DEF Idle
  <2>2. CASE WaitOrStop(w)
    BY <1>2, <2>2, IOManagerAssumption DEF WaitOrStop
  <2>3. CASE EpollWait(w)
    <3>1. pipe \in BOOLEAN
      BY DEF Types, SchedTypes
    <3> QED
      BY <1>2, <2>3, <3>1, IOManagerAssumption DEF EpollWait, EventTypes
  <2>4. CASE Expire(w)
    <3> DEFINE cbs == [k \in DOMAIN Expired |-> Expired[k].cb]
    <3>1. /\ Cardinality(Due) \in 0 .. Len(timers)
          /\ Expired = [k \in 1 .. Cardinality(Due) |-> timers[k]]
      BY <1>2, ExpiredFacts
    <3>2. /\ Len(timers) \in Nat /\ DOMAIN timers = 1 .. Len(timers)
          /\ \A k \in DOMAIN timers : timers[k] \in Timer
      BY <1>2, QueueFacts
    <3>3. \A k \in 1 .. Cardinality(Due) : timers[k] \in Timer
      BY <3>1, <3>2
    <3>4. \A k \in 1 .. Cardinality(Due) : Expired[k].cb \in Task
      BY <3>1, <3>3, HookAssumption DEF Timer
    <3>5. cbs = [k \in 1 .. Cardinality(Due) |-> Expired[k].cb]
      BY <3>1
    <3>6. Cardinality(Due) \in Nat
      BY <3>1
    <3> HIDE DEF cbs
    <3>7. cbs \in Seq(Task)
      BY <3>4, <3>5, <3>6, IsASeq
    <3>8. due' = [due EXCEPT ![w] = cbs]
      BY <2>4 DEF Expire, cbs
    <3> QED
      BY <1>2, <2>4, <3>7, <3>8 DEF Expire
  <2>5. CASE PushExpired(w)
    <3>1. due[w] # <<>> => Tail(due[w]) \in Seq(Task)
      BY <1>1, <1>2, HeadTailProperties
    <3> QED
      BY <1>2, <2>5, <3>1 DEF PushExpired
  <2>6. CASE \E d \in Fd : HandleEvent(w, d)
    BY <1>2, <2>6 DEF HandleEvent
  <2>7. CASE ReadPipe(w)
    BY <1>2, <2>7 DEF ReadPipe
  <2>8. CASE TakeTask(w) \/ FindNothing(w) \/ ResumeFiber(w) \/ RunWake(w) \/
             RunUser(w) \/ Rest(w) \/ LeaveIdle(w)
    BY <1>2, <2>8 DEF TakeTask, FindNothing, ResumeFiber, RunWake, RunUser, Rest, LeaveIdle
  <2> QED
    BY <1>10, <2>1, <2>2, <2>3, <2>4, <2>5, <2>6, <2>7, <2>8 DEF Scheduling
<1>11. CASE RunTimeout(w) \/ CancelOfTimeout(w)
  BY <1>2, <1>11 DEF RunTimeout, CancelOfTimeout
<1>13. CASE \E f \in Fiber : Running(w, f)
  <2>1. PICK f \in Fiber : Running(w, f)
    BY <1>13
  <2>2. CASE Sleep(w, f) \/ WakeFromSleep(w, f) \/ BeginIo(w, f) \/ TryIo(w, f) \/ TryConnect(w, f) \/ LeaveKernel(w, f)
    BY <1>2, <2>2 DEF Sleep, WakeFromSleep, BeginIo, TryIo, TryConnect, LeaveKernel
  <2>3. CASE AwaitEvent(w, f) \/ WakeFromEvent(w, f) \/ Close(w, f) \/ SetTimeLimit(w, f) \/ SetNonblock(w, f)
    BY <1>2, <2>3 DEF AwaitEvent, WakeFromEvent, Close, SetTimeLimit, SetNonblock
  <2>4. CASE YieldInCall(w, f) \/ EndFiber(w, f)
    BY <1>2, <2>4 DEF YieldInCall, EndFiber, Yield
  <2> QED
    BY <2>1, <2>2, <2>3, <2>4 DEF Running
<1>14. CASE Main
  <2>1. CASE Submit \/ UseTimer
    BY <1>2, <2>1 DEF Submit, UseTimer
  <2>2. CASE Stop \/ SetStopped \/ TickleAll \/ Join
    BY <1>2, <2>2 DEF Stop, SetStopped, TickleAll, Join
  <2> QED
    BY <1>14, <2>1, <2>2 DEF Main
<1>15. CASE Tick
  <2>1. \A v \in Worker : (IF at[v] = "epoll" THEN AtLeast0(wait[v] - 1) ELSE wait[v]) \in 0 .. MaxTimeout
    BY <1>2, IOManagerAssumption DEF AtLeast0
  <2> QED
    BY <1>2, <1>15, <2>1 DEF Tick
<1>16. CASE \E d \in Fd, e \in Event \cup {HUP} : Arrive(d, e)
  BY <1>2, <1>16 DEF Arrive
<1> QED
  BY <1>10, <1>11, <1>13, <1>14, <1>15, <1>16, NextCases

\* A call that returns leaves the fiber at its next call.
LEMMA ReturnType ==
  ASSUME FiberTypes, NEW f \in Fiber, NEW value \in Result, Return(f, value),
         line[f] + 1 \in 1 .. Len(Script[f]) + 1
  PROVE  /\ line' \in [Fiber -> Nat] /\ \A g \in Fiber : line'[g] \in 1 .. Len(Script[g]) + 1
         /\ step' \in [Fiber -> {"call", "try", "kernel", "event", "yield", "woken"}]
         /\ limit' \in [Fiber -> Delay \cup {NoLimit}]
         /\ cancelled' \in [Fiber -> BOOLEAN]
         /\ result' \in [Fiber -> Result]
         /\ since' \in [Fiber -> Delay]
<1>1. line' \in [Fiber -> Nat] /\ \A g \in Fiber : line'[g] \in 1 .. Len(Script[g]) + 1
  <2>1. line[f] + 1 \in Nat
    BY DEF FiberTypes
  <2> QED
    BY <2>1 DEF Return, FiberTypes
<1> QED
  BY <1>1, DelayAssumption DEF Return, Proceed, FiberTypes, Delay

\* Fibers, their sockets, and the main thread.
LEMMA FiberTypesStep ==
  ASSUME Types, NEW w, Worker = {w}, Next
  PROVE  FiberTypes'
<1> USE DEF fiberVars
<1>2. FiberTypes
  BY DEF Types
<1> DEFINE T ==
      /\ line \in [Fiber -> Nat] /\ \A g \in Fiber : line[g] \in 1 .. Len(Script[g]) + 1
      /\ step \in [Fiber -> {"call", "try", "kernel", "event", "yield", "woken"}]
      /\ limit \in [Fiber -> Delay \cup {NoLimit}]
      /\ cancelled \in [Fiber -> BOOLEAN]
      /\ result \in [Fiber -> Result]
      /\ since \in [Fiber -> Delay]
<1>3. T
  BY <1>2 DEF FiberTypes
<1>4. ASSUME T', UNCHANGED <<sock, mainAt>> PROVE FiberTypes'
  BY <1>2, <1>4 DEF FiberTypes
<1>5. ASSUME NEW f \in Fiber, NEW value \in Result, Return(f, value), line[f] + 1 \in 1 .. Len(Script[f]) + 1
      PROVE  T'
  BY <1>2, <1>5, ReturnType
<1>6. \A f \in Fiber : \A ms, cb : SetTimer(f, ms, cb) => since' \in [Fiber -> Delay]
  BY <1>3, DelayAssumption DEF SetTimer, Delay
<1>7. \A f \in Fiber : \A to : SetLimit(f, to) => since' \in [Fiber -> Delay]
  BY <1>3, <1>6 DEF SetLimit
<1>10. CASE Scheduling(w) /\ UNCHANGED <<fiberVars, since, sock, mainAt>>
  BY <1>2, <1>10 DEF FiberTypes
<1>11. CASE RunTimeout(w)
  <2>1. T'
    BY <1>3, <1>11 DEF RunTimeout
  <2> QED
    BY <1>4, <1>11, <2>1 DEF RunTimeout
<1>12. CASE CancelOfTimeout(w)
  BY <1>2, <1>12 DEF CancelOfTimeout, FiberTypes
<1>13. CASE \E f \in Fiber : Running(w, f)
  <2>1. PICK f \in Fiber : Running(w, f)
    BY <1>13
  <2>2. CASE Sleep(w, f)
    <3>1. T'
      BY <1>3, <1>6, <2>2 DEF Sleep, Proceed
    <3> QED
      BY <1>4, <2>2, <3>1 DEF Sleep
  <2>3. CASE WakeFromSleep(w, f)
    <3>1. T'
      BY <1>2, <1>5, <2>3, CallsUse DEF WakeFromSleep, Result
    <3> QED
      BY <1>4, <2>3, <3>1 DEF WakeFromSleep
  <2>4. CASE BeginIo(w, f)
    <3>1. Calls(w, f, "io", "call") /\ UNCHANGED <<sock, mainAt>>
      BY <2>4 DEF BeginIo
    <3>2. /\ line[f] + 1 \in 1 .. Len(Script[f]) + 1
          /\ Op(f).fd \in Fd /\ Op(f).event \in Event
      BY <1>2, <3>1, CallsUse
    <3>3. ASSUME NEW value \in Result, Return(f, value) PROVE T'
      BY <1>5, <3>2, <3>3
    <3>4. ASSUME limit' = [limit EXCEPT ![f] = sock[Op(f).fd].limit[Op(f).event]],
                 Proceed(f, "try"), UNCHANGED <<line, cancelled, result, since>>
          PROVE  T'
      <4>1. sock[Op(f).fd].limit[Op(f).event] \in Delay \cup {NoLimit}
        BY <1>2, <3>2 DEF FiberTypes
      <4> QED
        BY <1>3, <3>4, <4>1 DEF Proceed
    <3>5. T'
      BY <2>4, <3>3, <3>4 DEF BeginIo, Result
    <3> QED
      BY <1>4, <3>1, <3>5
  <2>5. CASE TryIo(w, f)
    <3>1. Calls(w, f, "io", "try") /\ UNCHANGED <<sock, mainAt>>
      BY <2>5 DEF TryIo
    <3>2. line[f] + 1 \in 1 .. Len(Script[f]) + 1
      BY <1>2, <3>1, CallsUse
    <3>3. ASSUME NEW value \in Result, Return(f, value) PROVE T'
      BY <1>5, <3>2, <3>3
    <3>4. ASSUME SetLimit(f, limit[f]), Proceed(f, "event"), UNCHANGED <<line, limit, cancelled, result>>
          PROVE  T'
      BY <1>3, <1>7, <3>4 DEF Proceed
    <3>5. ASSUME Proceed(f, "kernel"), UNCHANGED <<line, limit, cancelled, result, since>> PROVE T'
      BY <1>3, <3>5 DEF Proceed
    <3>6. T'
      BY <2>5, <3>3, <3>4, <3>5 DEF TryIo, Result
    <3> QED
      BY <1>4, <3>1, <3>6
  <2>6. CASE TryConnect(w, f)
    <3>1. Calls(w, f, "connect", "call") /\ UNCHANGED <<sock, mainAt>>
      BY <2>6 DEF TryConnect
    <3>2. line[f] + 1 \in 1 .. Len(Script[f]) + 1
      BY <1>2, <3>1, CallsUse
    <3>3. ASSUME NEW value \in Result, Return(f, value) PROVE T'
      BY <1>5, <3>2, <3>3
    <3>4. ASSUME NEW place \in {"kernel", "event"}, Proceed(f, place), UNCHANGED <<line, cancelled, result>>,
                 limit' = [limit EXCEPT ![f] = ConnectTimeout], since' \in [Fiber -> Delay]
          PROVE  T'
      BY <1>3, <3>4, HookAssumption DEF Proceed
    <3>5. \/ \E value \in Result : Return(f, value)
          \/ /\ \E place \in {"kernel", "event"} : Proceed(f, place)
             /\ UNCHANGED <<line, cancelled, result>>
             /\ limit' = [limit EXCEPT ![f] = ConnectTimeout]
             /\ UNCHANGED since \/ SetLimit(f, ConnectTimeout)
      BY <2>6 DEF TryConnect, AtOnce, Result
    <3>6. T'
      BY <1>3, <1>7, <3>3, <3>4, <3>5
    <3> QED
      BY <1>4, <3>1, <3>6
  <2>7. CASE AwaitEvent(w, f)
    <3>1. T'
      BY <1>3, <2>7 DEF AwaitEvent, Proceed
    <3> QED
      BY <1>4, <2>7, <3>1 DEF AwaitEvent
  <2>8. CASE YieldInCall(w, f)
    <3>1. T'
      BY <1>3, <2>8 DEF YieldInCall, Proceed
    <3> QED
      BY <1>4, <2>8, <3>1 DEF YieldInCall
  <2>9. CASE WakeFromEvent(w, f)
    <3>1. line[f] + 1 \in 1 .. Len(Script[f]) + 1
      BY <1>2, <2>9, CallsUse DEF WakeFromEvent
    <3>2. ASSUME NEW value \in Result, Return(f, value) PROVE T'
      BY <1>5, <3>1, <3>2
    <3>3. ASSUME Proceed(f, "try"), UNCHANGED <<line, limit, cancelled, result, since>> PROVE T'
      BY <1>3, <3>3 DEF Proceed
    <3>4. T'
      BY <2>9, <3>2, <3>3 DEF WakeFromEvent, Result
    <3> QED
      BY <1>4, <2>9, <3>4 DEF WakeFromEvent
  <2>10. CASE Close(w, f)
    <3>1. T'
      BY <1>2, <1>5, <2>10, CallsUse DEF Close, Result
    <3>2. sock' \in [Fd -> [open : BOOLEAN, nonblock : BOOLEAN, limit : [Event -> Delay \cup {NoLimit}],
             blocks : BOOLEAN, timed : SUBSET Event]]
      BY <1>2, <2>10 DEF Close, FiberTypes
    <3> QED
      BY <1>2, <2>10, <3>1, <3>2 DEF Close, FiberTypes
  <2>11. CASE SetTimeLimit(w, f) \/ SetNonblock(w, f)
    <3>1. T'
      BY <1>2, <1>5, <2>11, CallsUse DEF SetTimeLimit, SetNonblock, Result
    <3>2. sock' \in [Fd -> [open : BOOLEAN, nonblock : BOOLEAN, limit : [Event -> Delay \cup {NoLimit}],
                            blocks : BOOLEAN, timed : SUBSET Event]]
      <4>1. CASE UNCHANGED sock
        BY <1>2, <4>1 DEF FiberTypes
      <4>2. CASE SetTimeLimit(w, f) /\ sock' # sock
        <5> DEFINE d == Op(f).fd
                   e == Op(f).event
                   timed == IF Op(f).time = [sec |-> 0, nsec |-> 0] THEN sock[d].timed \ {e}
                                                                   ELSE sock[d].timed \cup {e}
        <5>1. Millis(Op(f).time) \in Delay /\ e \in Event /\ d \in Fd
          BY <1>2, <4>2, CallsUse DEF SetTimeLimit
        <5>2. sock' = [sock EXCEPT ![d].limit[e] = Millis(Op(f).time), ![d].timed = timed]
          BY <1>2, <4>2, <5>1 DEF SetTimeLimit, FiberTypes
        <5>3. timed \in SUBSET Event
          BY <1>2, <5>1 DEF FiberTypes
        <5> HIDE DEF d, e, timed
        <5> QED
          BY <1>2, <5>1, <5>2, <5>3 DEF FiberTypes
      <4>3. CASE SetNonblock(w, f) /\ sock' # sock
        <5>1. Op(f).nonblock \in BOOLEAN /\ Op(f).fd \in Fd
          BY <1>2, <4>3, CallsUse DEF SetNonblock
        <5>2. PICK b : b = (Op(f).op = "ioctl" /\ ~Op(f).nonblock)
          OBVIOUS
        <5>3. b \in BOOLEAN
          BY <5>2
        <5>4. sock' = [sock EXCEPT ![Op(f).fd].nonblock = Op(f).nonblock, ![Op(f).fd].blocks = b]
          BY <4>3, <5>2 DEF SetNonblock
        <5> QED
          BY <1>2, <5>1, <5>3, <5>4 DEF FiberTypes
      <4> QED
        BY <2>11, <4>1, <4>2, <4>3
    <3> QED
      BY <1>2, <2>11, <3>1, <3>2 DEF SetTimeLimit, SetNonblock, FiberTypes
  <2>13. CASE LeaveKernel(w, f)
    <3>1. /\ \E kind \in {"io", "connect"} : Calls(w, f, kind, "kernel")
          /\ UNCHANGED <<sock, mainAt>>
      BY <2>13 DEF LeaveKernel
    <3>2. line[f] + 1 \in 1 .. Len(Script[f]) + 1
      BY <1>2, <3>1, CallsUse
    <3>3. ASSUME NEW value \in Result, Return(f, value) PROVE T'
      BY <1>5, <3>2, <3>3
    <3>4. ASSUME SetLimit(f, limit[f]), Proceed(f, "event"), UNCHANGED <<line, limit, cancelled, result>>
          PROVE  T'
      BY <1>3, <1>7, <3>4 DEF Proceed
    <3>5. T'
      BY <2>13, <3>3, <3>4 DEF LeaveKernel, Result
    <3> QED
      BY <1>4, <3>1, <3>5
  <2>12. CASE EndFiber(w, f)
    BY <1>2, <2>12 DEF EndFiber, FiberTypes
  <2> QED
    BY <2>1, <2>2, <2>3, <2>4, <2>5, <2>6, <2>7, <2>8, <2>9, <2>10, <2>11, <2>12, <2>13 DEF Running
<1>14. CASE Main
  <2>1. Len(MainScript) \in Nat
    BY HookAssumption, LenProperties
  <2>2. UNCHANGED <<fiberVars, since, sock>> /\ NextLine /\ mainAt <= Len(MainScript) + 3
    <3>1. CASE Submit \/ UseTimer \/ Stop
      BY <1>2, <2>1, <3>1 DEF Submit, UseTimer, Stop, Does, FiberTypes
    <3>2. CASE SetStopped
      BY <2>1, <3>2 DEF SetStopped
    <3>3. CASE TickleAll
      BY <2>1, <3>3 DEF TickleAll
    <3>4. CASE Join
      BY <2>1, <3>4 DEF Join, ioVars
    <3> QED
      BY <1>14, <3>1, <3>2, <3>3, <3>4 DEF Main
  <2>3. mainAt' \in 1 .. Len(MainScript) + 4
    BY <1>2, <2>1, <2>2 DEF FiberTypes, NextLine
  <2> QED
    BY <1>2, <2>2, <2>3 DEF FiberTypes
<1>15. CASE Tick
  <2>1. \A f \in Fiber : AtMost(since[f] + 1, MaxDelay) \in Delay
    BY <1>3, DelayAssumption DEF AtMost, Delay
  <2>2. T'
    BY <1>3, <1>15, <2>1 DEF Tick
  <2> QED
    BY <1>4, <1>15, <2>2 DEF Tick
<1>16. CASE \E d \in Fd, e \in Event \cup {HUP} : Arrive(d, e)
  BY <1>2, <1>16 DEF Arrive, FiberTypes
<1> QED
  BY <1>10, <1>11, <1>12, <1>13, <1>14, <1>15, <1>16, NextCases

-----------------------------------------------------------------------------
\* The worker: its place, the task in hand, and the counters.
LEMMA WorkersStep ==
  ASSUME Types, WorkersFit, TasksFit, NEW w, Worker = {w}, Next
  PROVE  WorkersFit'
<1> DEFINE Fits ==
      /\ hand[w] # NoTask <=> at[w] \in {"resume", "fiber", "cancel"}
      /\ at[w] = "fiber" => hand[w].kind = "fiber"
      /\ at[w] = "cancel" => hand[w].kind = "timeout"
      /\ due[w] # <<>> => at[w] = "push"
      /\ active = IF hand[w] # NoTask THEN 1 ELSE 0
      /\ idleCnt = IF at[w] \in Inside THEN 1 ELSE 0
<1>1. w \in Worker
  OBVIOUS
<1>2. /\ SchedTypes /\ IdleTypes
      /\ at \in [Worker -> Places] /\ hand \in [Worker -> Task \cup {NoTask}]
      /\ due \in [Worker -> Seq(Task)]
  BY DEF Types, SchedTypes, IdleTypes
<1>3. Fits
  BY <1>1 DEF WorkersFit
<1>4. SUFFICES Fits'
  BY DEF WorkersFit, Inside
<1>5. ASSUME UNCHANGED <<at, hand, due, active, idleCnt>> PROVE Fits'
  BY <1>3, <1>5 DEF Inside
<1>6. ASSUME HandBack(w), UNCHANGED <<due, idleCnt>>, at[w] \in {"resume", "fiber", "cancel"}
      PROVE  Fits'
  BY <1>1, <1>2, <1>3, <1>6 DEF HandBack, Goto, Inside
<1>10. CASE Scheduling(w) /\ UNCHANGED <<fiberVars, since, sock, mainAt>>
  <2>1. CASE TakeTask(w)
    <3>1. CASE UNCHANGED <<tasks, active, at, hand, pipe>>
      BY <1>5, <2>1, <3>1 DEF TakeTask, idleVars
    <3>2. CASE /\ active' = active + 1 /\ hand' = [hand EXCEPT ![w] = Head(tasks)]
               /\ Goto(w, "resume")
      <4>1. tasks # <<>> /\ at[w] = "look" /\ UNCHANGED <<due, idleCnt>>
        BY <2>1 DEF TakeTask, idleVars
      <4>2. Head(tasks) \in Task
        BY <1>2, <4>1, HeadTailProperties DEF SchedTypes
      <4>3. Head(tasks) # NoTask
        BY <4>2, TaskFacts
      <4>4. hand'[w] = Head(tasks) /\ at'[w] = "resume"
        BY <1>1, <1>2, <3>2 DEF Goto
      <4> QED
        BY <1>3, <3>2, <4>1, <4>3, <4>4 DEF Inside
    <3> QED
      BY <2>1, <3>1, <3>2 DEF TakeTask
  <2>2. CASE FindNothing(w)
    <3>1. /\ at[w] = "look" /\ at'[w] \in {"exit", "rest"}
          /\ UNCHANGED <<hand, due, active, idleCnt>>
      BY <1>1, <1>2, <2>2 DEF FindNothing, Goto, idleVars
    <3> QED
      BY <1>3, <3>1 DEF Inside
  <2>3. CASE ResumeFiber(w)
    <3>1. /\ at[w] = "resume" /\ hand[w].kind = "fiber" /\ at'[w] \in {"resume", "fiber"}
          /\ UNCHANGED <<hand, due, active, idleCnt>>
      BY <1>1, <1>2, <2>3 DEF ResumeFiber, Goto, idleVars
    <3> QED
      BY <1>3, <3>1 DEF Inside
  <2>4. CASE RunWake(w) \/ RunUser(w)
    BY <1>6, <2>4 DEF RunWake, RunUser, idleVars
  <2>5. CASE Rest(w)
    <3>1. at[w] = "rest" /\ at'[w] = "idle" /\ idleCnt' = idleCnt + 1 /\ UNCHANGED <<hand, due, active>>
      BY <1>1, <1>2, <2>5 DEF Rest, Goto, idleVars
    <3> QED
      BY <1>3, <3>1 DEF Inside
  <2>6. CASE Idle(w)
    <3>1. at[w] = "idle" /\ at'[w] \in {"asked", "epoll"} /\ UNCHANGED <<hand, due, active, idleCnt>>
      BY <1>1, <1>2, <2>6 DEF Idle, Goto
    <3> QED
      BY <1>3, <3>1 DEF Inside
  <2>7. CASE WaitOrStop(w)
    <3>1. at[w] = "asked" /\ UNCHANGED <<hand, due, active>>
      BY <2>7 DEF WaitOrStop
    <3>2. \/ at'[w] = "look" /\ idleCnt' = idleCnt - 1
          \/ at'[w] = "epoll" /\ idleCnt' = idleCnt
      BY <1>1, <1>2, <2>7 DEF WaitOrStop, Goto
    <3> QED
      BY <1>3, <3>1, <3>2 DEF Inside
  <2>8. CASE EpollWait(w)
    <3>1. at[w] = "epoll" /\ at'[w] = "expire" /\ UNCHANGED <<hand, due, active, idleCnt>>
      BY <1>1, <1>2, <2>8 DEF EpollWait, Goto
    <3> QED
      BY <1>3, <3>1 DEF Inside
  <2>9. CASE Expire(w)
    <3>1. at[w] = "expire" /\ at'[w] = "push" /\ UNCHANGED <<hand, active, idleCnt>>
      BY <1>1, <1>2, <2>9 DEF Expire, Goto
    <3> QED
      BY <1>3, <3>1 DEF Inside
  <2>10. CASE PushExpired(w)
    <3>1. at[w] = "push" /\ UNCHANGED <<hand, active, idleCnt>>
      BY <2>10 DEF PushExpired
    <3>2. \/ UNCHANGED at
          \/ at'[w] = "events" /\ due[w] = <<>> /\ UNCHANGED due
      BY <1>1, <1>2, <2>10 DEF PushExpired, Goto
    <3> QED
      BY <1>3, <3>1, <3>2 DEF Inside
  <2>11. CASE ReadPipe(w) \/ \E d \in Fd : HandleEvent(w, d)
    BY <1>5, <2>11 DEF ReadPipe, HandleEvent, schedVars
  <2>12. CASE LeaveIdle(w)
    <3>1. /\ at[w] = "events" /\ at'[w] = "look" /\ idleCnt' = idleCnt - 1
          /\ UNCHANGED <<hand, due, active>>
      BY <1>1, <1>2, <2>12 DEF LeaveIdle, Goto, idleVars
    <3> QED
      BY <1>3, <3>1 DEF Inside
  <2> QED
    BY <1>10, <2>1, <2>2, <2>3, <2>4, <2>5, <2>6, <2>7, <2>8, <2>9, <2>10, <2>11, <2>12
    DEF Scheduling
<1>11. CASE RunTimeout(w)
  <2>1. at[w] = "resume" /\ hand[w].kind = "timeout" /\ UNCHANGED <<due, idleCnt>>
    BY <1>11 DEF RunTimeout, idleVars
  <2>2. CASE HandBack(w)
    BY <1>6, <2>1, <2>2
  <2>3. CASE Goto(w, "cancel") /\ UNCHANGED <<active, hand>>
    <3>1. at'[w] = "cancel"
      BY <1>1, <1>2, <2>3 DEF Goto
    <3> QED
      BY <1>3, <2>1, <2>3, <3>1 DEF Inside
  <2> QED
    BY <1>11, <2>2, <2>3 DEF RunTimeout
<1>12. CASE CancelOfTimeout(w)
  BY <1>6, <1>12 DEF CancelOfTimeout, idleVars
<1>13. CASE \E f \in Fiber : Running(w, f)
  <2>1. PICK f \in Fiber : Running(w, f)
    BY <1>13
  <2>2. CASE Sleep(w, f) \/ WakeFromSleep(w, f) \/ BeginIo(w, f) \/ TryIo(w, f) \/ TryConnect(w, f) \/ LeaveKernel(w, f)
    BY <1>5, <2>2 DEF Sleep, WakeFromSleep, BeginIo, TryIo, TryConnect, LeaveKernel, ioVars, schedVars, idleVars
  <2>3. CASE AwaitEvent(w, f) \/ WakeFromEvent(w, f) \/ Close(w, f) \/ SetTimeLimit(w, f) \/ SetNonblock(w, f)
    BY <1>5, <2>3 DEF AwaitEvent, WakeFromEvent, Close, SetTimeLimit, SetNonblock, ioVars, schedVars, idleVars
  <2>4. CASE YieldInCall(w, f) \/ EndFiber(w, f)
    BY <1>6, <2>4 DEF YieldInCall, EndFiber, Yield, Calls, idleVars
  <2> QED
    BY <2>1, <2>2, <2>3, <2>4 DEF Running
<1>14. CASE Main
  <2>1. CASE Submit \/ UseTimer
    BY <1>5, <2>1 DEF Submit, UseTimer, schedVars, idleVars
  <2>2. CASE Stop \/ SetStopped \/ TickleAll \/ Join
    BY <1>5, <2>2 DEF Stop, SetStopped, TickleAll, Join, ioVars, schedVars, idleVars
  <2> QED
    BY <1>14, <2>1, <2>2 DEF Main
<1>15. CASE Tick
  BY <1>5, <1>15 DEF Tick, schedVars
<1>16. CASE \E d \in Fd, e \in Event \cup {HUP} : Arrive(d, e)
  BY <1>5, <1>16 DEF Arrive, schedVars, idleVars
<1> QED
  BY <1>10, <1>11, <1>12, <1>13, <1>14, <1>15, <1>16, NextCases

-----------------------------------------------------------------------------
\* The events that are registered, and their number.

LEMMA EventFinite == IsFiniteSet(Event)
<1>1. Event = {READ} \cup {WRITE}
  BY DEF Event
<1> QED
  BY <1>1, FS_Singleton, FS_AddElement

\* The sockets of a set of events es of d.
LEMMA OfSocket ==
  ASSUME NEW d, NEW es, es \subseteq Event
  PROVE  IsFiniteSet({d} \X es) /\ Cardinality({d} \X es) = Cardinality(es)
<1>1. IsFiniteSet(es)
  BY EventFinite, FS_Subset
<1>2. IsFiniteSet({d}) /\ Cardinality({d}) = 1
  BY FS_Singleton
<1>3. Cardinality(es) \in Nat
  BY <1>1, FS_CardinalityType
<1> QED
  BY <1>1, <1>2, <1>3, FS_Product

\* pendingEventCnt_ goes down by the number of events that are triggered.
LEMMA TriggerPending ==
  ASSUME EventTypes, PendingFits, NEW d \in Fd, NEW es, es \subseteq Waiting(d), Trigger(d, es),
         NoFiber \notin Fiber
  PROVE  PendingFits'
<1>1. es \subseteq Event /\ \A e \in es : regs[d][e] # NoFiber
  BY DEF Waiting
<1>2. \A c \in Fd, e \in Event : regs'[c][e] = IF c = d /\ e \in es THEN NoFiber ELSE regs[c][e]
  BY DEF Trigger, EventTypes
<1>3. Registered' = Registered \ ({d} \X es)
  BY <1>1, <1>2 DEF Registered
<1>4. {d} \X es \subseteq Registered
  BY <1>1 DEF Registered
<1>5. IsFiniteSet({d} \X es) /\ Cardinality({d} \X es) = Cardinality(es)
  BY <1>1, OfSocket
<1>6. IsFiniteSet(Registered) /\ pending = Cardinality(Registered)
  BY DEF PendingFits
<1>7. /\ IsFiniteSet(Registered \ ({d} \X es))
      /\ Cardinality(Registered \ ({d} \X es))
           = Cardinality(Registered) - Cardinality(Registered \cap ({d} \X es))
  BY <1>5, <1>6, FS_Difference
<1>8. Registered \cap ({d} \X es) = {d} \X es
  BY <1>4
<1>9. pending' = pending - Cardinality(es)
  BY DEF Trigger
<1> QED
  BY <1>3, <1>5, <1>6, <1>7, <1>8, <1>9 DEF PendingFits

\* So it does when they are cancelled.
LEMMA CancelPending ==
  ASSUME EventTypes, PendingFits, NEW d \in Fd, NEW es, CancelEvent(d, es)
  PROVE  PendingFits'
<1>1. CASE Waiting(d) \cap es # {}
  <2>1. Trigger(d, Waiting(d) \cap es) /\ Waiting(d) \cap es \subseteq Waiting(d)
    BY <1>1 DEF CancelEvent
  <2> QED
    BY <2>1, TriggerPending, IOManagerAssumption
<1>2. CASE Waiting(d) \cap es = {}
  <2>1. UNCHANGED <<regs, pending>>
    BY <1>2 DEF CancelEvent
  <2>2. Registered' = Registered
    BY <2>1 DEF Registered
  <2> QED
    BY <2>1, <2>2 DEF PendingFits
<1> QED
  BY <1>1, <1>2

\* pendingEventCnt_ is the number of the registered events in every step.
LEMMA PendingStep ==
  ASSUME Types, WorkersFit, TasksFit, PendingFits, NEW w, Worker = {w}, Next
  PROVE  PendingFits'
<1>1. w \in Worker
  OBVIOUS
<1>2. SchedTypes /\ EventTypes /\ FiberTypes
  BY DEF Types
<1>3. ASSUME UNCHANGED <<regs, pending>> PROVE PendingFits'
  <2>1. Registered' = Registered
    BY <1>3 DEF Registered
  <2> QED
    BY <1>3, <2>1 DEF PendingFits
<1>10. CASE Scheduling(w) /\ UNCHANGED <<fiberVars, since, sock, mainAt>>
  <2>1. CASE \E d \in Fd : HandleEvent(w, d)
    <3>1. PICK d \in Fd : HandleEvent(w, d)
      BY <2>1
    <3> DEFINE real == (got[w][d] \ {HUP}) \cup (IF HUP \in got[w][d] THEN Waiting(d) ELSE {})
    <3>3. UNCHANGED <<regs, pending>> \/ (real \subseteq Waiting(d) /\ Trigger(d, real))
      BY <3>1 DEF HandleEvent
    <3> HIDE DEF real
    <3> QED
      BY <1>2, <1>3, <3>3, TriggerPending, IOManagerAssumption
  <2>3. CASE TakeTask(w) \/ FindNothing(w) \/ ResumeFiber(w) \/ RunWake(w) \/ RunUser(w) \/ Rest(w) \/ Idle(w)
    BY <1>3, <2>3 DEF TakeTask, FindNothing, ResumeFiber, RunWake, RunUser, Rest, Idle, eventVars
  <2>4. CASE WaitOrStop(w) \/ EpollWait(w) \/ Expire(w) \/ PushExpired(w) \/ ReadPipe(w) \/ LeaveIdle(w)
    BY <1>3, <2>4 DEF WaitOrStop, EpollWait, Expire, PushExpired, ReadPipe, LeaveIdle, eventVars
  <2> QED
    BY <1>10, <2>1, <2>3, <2>4 DEF Scheduling
<1>11. CASE RunTimeout(w)
  BY <1>3, <1>11 DEF RunTimeout, eventVars
<1>12. CASE CancelOfTimeout(w)
  <2> DEFINE call == Script[hand[w].fiber][hand[w].call]
  <2>1. call.fd \in Fd
    BY <1>1, <1>2, <1>12, HandFacts DEF CancelOfTimeout
  <2>2. CancelEvent(call.fd, {Awaited(call)})
    BY <1>12 DEF CancelOfTimeout
  <2> HIDE DEF call
  <2> QED
    BY <1>2, <2>1, <2>2, CancelPending
<1>13. CASE \E f \in Fiber : Running(w, f)
  <2>1. PICK f \in Fiber : Running(w, f)
    BY <1>13
  <2>2. CASE AwaitEvent(w, f)
    <3> DEFINE d == Op(f).fd
               e == WaitsFor(f)
    <3>1. PICK kind \in {"io", "connect"} : Calls(w, f, kind, "event")
      BY <2>2 DEF AwaitEvent
    <3>2. d \in Fd /\ e \in Event
      BY <1>2, <3>1, CallsUse
    <3>3. AddEvent(d, e, f)
      BY <2>2 DEF AwaitEvent
    <3> HIDE DEF d, e
    <3>4. CASE regs[d][e] # NoFiber
      BY <1>3, <3>3, <3>4 DEF AddEvent, eventVars
    <3>5. CASE regs[d][e] = NoFiber
      <4>1. regs' = [regs EXCEPT ![d][e] = f] /\ pending' = pending + 1
        BY <3>3, <3>5 DEF AddEvent
      <4>2. \A c \in Fd, e2 \in Event : regs'[c][e2] = IF c = d /\ e2 = e THEN f ELSE regs[c][e2]
        BY <1>2, <4>1 DEF EventTypes
      <4>3. f # NoFiber
        BY IOManagerAssumption
      <4>4. <<d, e>> \notin Registered
        BY <3>5 DEF Registered
      <4>5. Registered' = Registered \cup {<<d, e>>}
        BY <3>2, <4>2, <4>3 DEF Registered
      <4>6. IsFiniteSet(Registered) /\ pending = Cardinality(Registered)
        BY DEF PendingFits
      <4>7. IsFiniteSet(Registered') /\ Cardinality(Registered') = Cardinality(Registered) + 1
        BY <4>4, <4>5, <4>6, FS_AddElement
      <4> QED
        BY <4>1, <4>6, <4>7 DEF PendingFits
    <3> QED
      BY <3>4, <3>5
  <2>3. CASE Close(w, f)
    <3>1. Op(f).fd \in Fd
      <4>1. Calls(w, f, "close", "call")
        BY <2>3 DEF Close
      <4> QED
        BY <1>2, <4>1, CallsUse
    <3>2. CancelEvent(Op(f).fd, Event)
      BY <2>3 DEF Close
    <3> QED
      BY <1>2, <3>1, <3>2, CancelPending
  <2>4. CASE Sleep(w, f) \/ WakeFromSleep(w, f) \/ BeginIo(w, f) \/ TryIo(w, f) \/ TryConnect(w, f) \/ LeaveKernel(w, f)
    BY <1>3, <2>4 DEF Sleep, WakeFromSleep, BeginIo, TryIo, TryConnect, LeaveKernel, ioVars, eventVars
  <2>5. CASE YieldInCall(w, f) \/ WakeFromEvent(w, f) \/ SetTimeLimit(w, f) \/ SetNonblock(w, f) \/ EndFiber(w, f)
    BY <1>3, <2>5 DEF YieldInCall, WakeFromEvent, SetTimeLimit, SetNonblock, EndFiber, Yield, ioVars, eventVars
  <2> QED
    BY <2>1, <2>2, <2>3, <2>4, <2>5 DEF Running
<1>14. CASE Main
  <2>1. CASE Submit \/ UseTimer
    BY <1>3, <2>1 DEF Submit, UseTimer, eventVars
  <2>2. CASE Stop \/ SetStopped \/ TickleAll \/ Join
    BY <1>3, <2>2 DEF Stop, SetStopped, TickleAll, Join, ioVars, eventVars
  <2> QED
    BY <1>14, <2>1, <2>2 DEF Main
<1>15. CASE Tick
  BY <1>3, <1>15 DEF Tick, eventVars
<1>16. CASE \E d \in Fd, e \in Event \cup {HUP} : Arrive(d, e)
  BY <1>3, <1>16 DEF Arrive
<1> QED
  BY <1>10, <1>11, <1>12, <1>13, <1>14, <1>15, <1>16, NextCases

-----------------------------------------------------------------------------
\* Timers

LEMMA HeldView ==
  /\ TimersFit <=> WellOrdered(timers) /\ \A t \in Held(timers) : TimerFits(t)
  /\ TimersFit' <=> WellOrdered(timers') /\ \A t \in Held(timers') : TimerFits(t)'
  /\ \A id : IsQueued(id) <=> \E t \in Held(timers) : t.id = id
  /\ \A id : IsQueued(id)' <=> \E t \in Held(timers') : t.id = id
BY DEF TimersFit, WellOrdered, Held, IsQueued

\* A timer goes on fitting as long as its fiber stays in its call.
LEMMA FitsKeep ==
  ASSUME NEW t, TimerFits(t),
         t.id \in Fiber => line'[t.id] = line[t.id] /\ step'[t.id] \in {"event", "yield", "woken"}
  PROVE  TimerFits(t)'
BY DEF TimerFits, CallbackOf, Op

\* A fiber runs: it is RUNNING, and nothing will resume it unless it is about to
\* yield.
LEMMA RunningFacts ==
  ASSUME FibersFit, NEW w \in Worker, NEW f \in Fiber, NEW kind, NEW place, Calls(w, f, kind, place)
  PROVE  /\ state[f] = "RUNNING" /\ step[f] = place /\ Op(f).op = kind
         /\ place # "yield" => Only(f, "nowhere")
         /\ place = "yield" /\ kind = "sleep" => Only(f, "timers")
         /\ place = "yield" /\ kind # "sleep" => Only(f, "regs")
<1>1. Runs(f) /\ step[f] = place /\ Op(f).op = kind
  BY DEF Runs, Calls
<1>2. state[f] = "RUNNING" /\ \E p \in Allowed(f) : Only(f, p)
  BY <1>1 DEF FibersFit
<1>3. Allowed(f) = IF place = "yield" THEN {IF kind = "sleep" THEN "timers" ELSE "regs"} ELSE {"nowhere"}
  BY <1>1, <1>2 DEF Allowed
<1> QED
  BY <1>1, <1>2, <1>3

\* A fiber at the beginning of a call, or about to end a sleep, has no timer.
LEMMA NoTimer ==
  ASSUME TimersFit, FibersFit, NEW w \in Worker, NEW f \in Fiber, NEW kind, NEW place,
         Calls(w, f, kind, place), place \in {"call", "try", "kernel"} \/ (place = "woken" /\ kind = "sleep")
  PROVE  \A t \in Held(timers) : t.id # f
<1>1. step[f] = place /\ Op(f).op = kind /\ Only(f, "nowhere")
  BY RunningFacts
<1>2. \A t \in Held(timers) : TimerFits(t)
  BY HeldView
<1>3. \A t \in Held(timers) : t.cb # WakeTask(f)
  BY <1>1 DEF Only, InTimers, Held
<1> QED
  BY <1>1, <1>2, <1>3 DEF TimerFits, CallbackOf

\* A timer of f's call is set.
LEMMA SetTimerFacts ==
  ASSUME TimersTypeOK, ArmedIsQueued, TimersFit, NEW f \in Fiber, \A t \in Held(timers) : t.id # f,
         NEW ms \in Delay, NEW cb \in Task, SetTimer(f, ms, cb),
         UNCHANGED line, NEW place \in {"event", "yield"}, Proceed(f, place),
         step \in [Fiber -> {"call", "try", "kernel", "event", "yield", "woken"}],
         line[f] \in DOMAIN Script[f], cb = CallbackOf(f)
  PROVE  /\ TimersTypeOK' /\ ArmedIsQueued' /\ TimersFit'
         /\ \E t : t.cb = cb /\ Held(timers') = Held(timers) \cup {t}
<1>1. PICK front \in BOOLEAN : AddTimer(f, ms, FALSE, cb, front)
  BY DEF SetTimer
<1> DEFINE t == [id |-> f, left |-> ms, ms |-> ms, recurring |-> FALSE, cb |-> cb]
<1>2. f \in TimerId /\ cb \in Callback /\ ~IsQueued(f) /\ WellOrdered(timers)
  BY HookAssumption, HeldView
<1>3. /\ timers' \in Seq(Timer) /\ WellOrdered(timers')
      /\ Held(timers') = Held(timers) \cup {t} /\ armed' = armed \cup {f}
  BY <1>1, <1>2, AddTimerFacts
<1>4. tickled' \in BOOLEAN
  BY <1>1 DEF AddTimer, Insert, TimersTypeOK
<1>5. ArmedIsQueued'
  <2>1. t.id = f
    OBVIOUS
  <2> HIDE DEF t
  <2>2. \A id : IsQueued(id)' <=> IsQueued(id) \/ id = f
    BY <1>3, <2>1, HeldView
  <2> QED
    BY <1>2, <1>3, <2>2 DEF ArmedIsQueued
<1>6. ASSUME NEW u \in Held(timers') PROVE TimerFits(u)'
  <2>1. CASE u \in Held(timers)
    <3>1. TimerFits(u) /\ u.id # f
      BY <2>1, HeldView
    <3>2. u.id \in Fiber => line'[u.id] = line[u.id] /\ step'[u.id] \in {"event", "yield", "woken"}
      BY <3>1 DEF TimerFits, Proceed
    <3> QED
      BY <3>1, <3>2, FitsKeep
  <2>2. CASE u = t
    <3>1. step'[f] = place /\ CallbackOf(f)' = cb
      BY DEF Proceed, CallbackOf, Op
    <3> QED
      BY <2>2, <3>1, HookAssumption DEF TimerFits, Delay
  <2> QED
    BY <1>3, <2>1, <2>2
<1>7. t.cb = cb
  OBVIOUS
<1> HIDE DEF t
<1> QED
  BY <1>2, <1>3, <1>4, <1>5, <1>6, <1>7, HeldView DEF TimersTypeOK

\* The timers stay, and with them the calls of the fibers they belong to.
LEMMA TimersFrame ==
  ASSUME TimersTypeOK, ArmedIsQueued, TimersFit, UNCHANGED <<timers, armed>>, tickled' \in BOOLEAN,
         \A t \in Held(timers) : t.id \in Fiber =>
           line'[t.id] = line[t.id] /\ step'[t.id] \in {"event", "yield", "woken"}
  PROVE  TimersTypeOK' /\ ArmedIsQueued' /\ TimersFit'
<1>1. TimersTypeOK' /\ ArmedIsQueued'
  BY DEF TimersTypeOK, ArmedIsQueued, IsQueued
<1>2. WellOrdered(timers') /\ \A t \in Held(timers') : TimerFits(t)'
  BY HeldView, FitsKeep
<1> QED
  BY <1>1, <1>2, HeldView

\* A fiber that has no timer goes on.
LEMMA TimersGoOn ==
  ASSUME TimersTypeOK, ArmedIsQueued, TimersFit, UNCHANGED timerVars, NEW f,
         \A t \in Held(timers) : t.id # f,
         \A g \in Fiber : g # f => line'[g] = line[g] /\ step'[g] = step[g]
  PROVE  TimersTypeOK' /\ ArmedIsQueued' /\ TimersFit'
<1>1. \A t \in Held(timers) : TimerFits(t) /\ t.id # f
  BY HeldView
<1>2. \A t \in Held(timers) : t.id \in Fiber =>
           line'[t.id] = line[t.id] /\ step'[t.id] \in {"event", "yield", "woken"}
  BY <1>1 DEF TimerFits
<1> QED
  BY <1>2, TimersFrame DEF timerVars, TimersTypeOK

\* The timers stay, and so do the fibers.
LEMMA TimersStay ==
  ASSUME TimersTypeOK, ArmedIsQueued, TimersFit, UNCHANGED <<timers, armed, line, step>>,
         tickled' \in BOOLEAN
  PROVE  TimersTypeOK' /\ ArmedIsQueued' /\ TimersFit'
<1>1. \A t \in Held(timers) : TimerFits(t)
  BY HeldView
<1>2. \A t \in Held(timers) : t.id \in Fiber =>
           line'[t.id] = line[t.id] /\ step'[t.id] \in {"event", "yield", "woken"}
  BY <1>1 DEF TimerFits
<1> QED
  BY <1>2, TimersFrame

\* Return and Proceed are about one fiber.
LEMMA OneMoves ==
  ASSUME FiberTypes, NEW f \in Fiber
  PROVE  /\ \A value : Return(f, value) =>
              /\ \A g \in Fiber : g # f => line'[g] = line[g] /\ step'[g] = step[g]
              /\ line'[f] = line[f] + 1 /\ step'[f] = "call"
         /\ \A place : Proceed(f, place) =>
              /\ \A g \in Fiber : g # f => step'[g] = step[g]
              /\ step'[f] = place
BY DEF Return, Proceed, FiberTypes

\* Timers are removed, of fibers and of the main thread.
LEMMA CancelTimers ==
  ASSUME TimersTypeOK, ArmedIsQueued, TimersFit, NEW id \in TimerId, Cancel(id),
         \A g \in Fiber : g # id => line'[g] = line[g] /\ step'[g] = step[g]
  PROVE  /\ TimersTypeOK' /\ ArmedIsQueued' /\ TimersFit'
         /\ Held(timers') = {t \in Held(timers) : t.id # id}
<1>1. WellOrdered(timers)
  BY HeldView
<1>2. /\ timers' \in Seq(Timer) /\ WellOrdered(timers')
      /\ Held(timers') = {t \in Held(timers) : t.id # id} /\ armed' = armed \ {id}
  BY <1>1, CancelFacts
<1>3. tickled' \in BOOLEAN
  BY DEF Cancel, TimersTypeOK
<1>4. ArmedIsQueued'
  BY <1>2, HeldView DEF ArmedIsQueued
<1>5. ASSUME NEW t \in Held(timers') PROVE TimerFits(t)'
  <2>1. t \in Held(timers) /\ t.id # id
    BY <1>2
  <2>2. TimerFits(t)
    BY <2>1, HeldView
  <2> QED
    BY <2>1, <2>2, FitsKeep DEF TimerFits
<1> QED
  BY <1>2, <1>3, <1>4, <1>5, HeldView DEF TimersTypeOK

\* addTimer of the main thread makes a new Timer.
LEMMA AddedIsNew ==
  ASSUME FiberTypes, MainFits, ProperUse, ArmedIsQueued, Does("addTimer"), NEW id, id = MainOp.timer
  PROVE  id \in UserTimer /\ id \notin armed /\ ~IsQueued(id)
<1>1. mainAt \in DOMAIN MainScript /\ MainOp.op = "addTimer" /\ id \in UserTimer /\ mainAt \in Int
  BY MainFacts DEF Does, MainOp, FiberTypes
<1>2. ASSUME id \in armed PROVE FALSE
  <2>1. PICK c \in Done("addTimer") : c.timer = id
    BY <1>1, <1>2 DEF MainFits
  <2>2. PICK k \in DOMAIN MainScript : k < mainAt /\ MainScript[k].op = "addTimer" /\ MainScript[k].timer = id
    BY <2>1 DEF Done
  <2>3. k = mainAt
    BY <1>1, <2>2 DEF ProperUse, MainOp
  <2> QED
    BY <1>1, <2>2, <2>3
<1> QED
  BY <1>1, <1>2, HookAssumption DEF ArmedIsQueued

\* Whatever is added, refreshed, reset, cancelled or expires: timers_ is in order,
\* and the timer of a fiber belongs to the call that the fiber is at.
LEMMA TimersStep ==
  ASSUME Types, ProperUse, ArmedIsQueued, TimersFit, FibersFit, MainFits, NEW w, Worker = {w}, Next
  PROVE  TimersTypeOK' /\ ArmedIsQueued' /\ TimersFit'
<1>1. w \in Worker
  OBVIOUS
<1>2. TimersTypeOK /\ SchedTypes /\ FiberTypes /\ WellOrdered(timers)
  BY HeldView DEF Types
<1>3. timers \in Seq(Timer) /\ tickled \in BOOLEAN
  BY <1>2 DEF TimersTypeOK
<1>10. CASE Scheduling(w) /\ UNCHANGED <<fiberVars, since, sock, mainAt>>
  <2>1. CASE Idle(w)
    BY <1>2, <1>10, <2>1, TimersStay DEF Idle, GetNextTimer, fiberVars
  <2>2. CASE Expire(w)
    <3>1. ListExpired
      BY <2>2 DEF Expire
    <3> DEFINE again == {[t EXCEPT !.left = t.ms] : t \in {t \in Held(timers) : t.left = 0 /\ t.recurring}}
    <3>2. /\ timers' \in Seq(Timer) /\ WellOrdered(timers')
          /\ Held(timers') = {t \in Held(timers) : t.left # 0} \cup again
          /\ armed' = armed \ {t.id : t \in {t \in Held(timers) : t.left = 0 /\ ~t.recurring}}
      BY <1>2, <3>1, ListExpiredFacts
    <3>3. tickled' \in BOOLEAN
      BY <1>3, <3>1 DEF ListExpired
    <3>4. \A t \in Held(timers) : t \in Timer /\ TimerFits(t)
      BY <1>3, HeldView, LenProperties, ElementOfSeq DEF Held
    <3>5. \A t \in Held(timers) : t.recurring \in BOOLEAN
      BY <3>4 DEF Timer
    <3>6. ASSUME NEW id
          PROVE  IsQueued(id)' <=> \E t \in Held(timers) : t.id = id /\ (t.left # 0 \/ t.recurring)
      <4>1. (\E u \in again : u.id = id)
              <=> \E t \in Held(timers) : t.left = 0 /\ t.recurring /\ t.id = id
        <5>1. \A t \in Held(timers) : [t EXCEPT !.left = t.ms].id = t.id
          BY <3>4 DEF Timer
        <5> DEFINE New(t) == [t EXCEPT !.left = t.ms]
        <5>2. \A u : u \in again <=> \E t \in Held(timers) : t.left = 0 /\ t.recurring /\ u = New(t)
          OBVIOUS
        <5>3. \A t \in Held(timers) : New(t).id = t.id
          BY <5>1
        <5> HIDE DEF again, New
        <5> QED
          BY ONLY <5>2, <5>3
      <4>2. IsQueued(id)' <=> \E u \in Held(timers') : u.id = id
        BY HeldView
      <4> HIDE DEF again
      <4>3. \A u : u \in Held(timers') <=> (u \in Held(timers) /\ u.left # 0) \/ u \in again
        BY <3>2
      <4> QED
        BY ONLY <4>1, <4>2, <4>3
    <3>7. \A t, u \in Held(timers) : t.id = u.id => t = u
      BY <1>2 DEF Held, WellOrdered
    <3>8. ArmedIsQueued'
      <4> SUFFICES ASSUME NEW id \in TimerId PROVE id \in armed' <=> IsQueued(id)'
        BY DEF ArmedIsQueued
      <4>1. id \in armed <=> \E t \in Held(timers) : t.id = id
        BY HeldView DEF ArmedIsQueued
      <4>2. id \in armed' <=> id \in armed /\ ~\E t \in Held(timers) : t.left = 0 /\ ~t.recurring /\ t.id = id
        BY <3>2
      <4> QED
        BY <3>6, <3>7, <4>1, <4>2
    <3>9. ASSUME NEW u \in Held(timers') PROVE TimerFits(u)'
      <4>1. CASE u \in Held(timers)
        <5>1. TimerFits(u)
          BY <3>4, <4>1
        <5>2. u.id \in Fiber => line'[u.id] = line[u.id] /\ step'[u.id] \in {"event", "yield", "woken"}
          BY <1>10, <5>1 DEF TimerFits, fiberVars
        <5> QED
          BY <5>1, <5>2, FitsKeep
      <4>2. CASE u \in again
        <5>1. PICK t \in Held(timers) : t.recurring /\ u = [t EXCEPT !.left = t.ms]
          BY <4>2
        <5>2. t \in Timer /\ TimerFits(t)
          BY <3>4
        <5>3. u.id = t.id /\ u.cb = t.cb /\ u.left = t.ms /\ u.ms = t.ms
          BY <5>1, <5>2 DEF Timer
        <5>4. t.id \notin Fiber
          BY <5>1, <5>2 DEF TimerFits
        <5>5. t.ms \in Nat
          BY <5>2 DEF Timer, Delay
        <5> QED
          BY <5>2, <5>3, <5>4, <5>5 DEF TimerFits
      <4> QED
        BY <3>2, <4>1, <4>2
    <3> HIDE DEF again
    <3>10. armed' \subseteq TimerId
      BY <1>2, <3>2 DEF TimersTypeOK
    <3> QED
      BY <3>2, <3>3, <3>8, <3>9, <3>10, HeldView DEF TimersTypeOK
  <2>3. CASE TakeTask(w) \/ FindNothing(w) \/ ResumeFiber(w) \/ RunWake(w) \/ RunUser(w) \/ Rest(w)
    BY <1>2, <1>3, <1>10, <2>3, TimersStay
    DEF TakeTask, FindNothing, ResumeFiber, RunWake, RunUser, Rest, timerVars, fiberVars
  <2>4. CASE WaitOrStop(w) \/ EpollWait(w) \/ PushExpired(w) \/ ReadPipe(w) \/ LeaveIdle(w)
    BY <1>2, <1>3, <1>10, <2>4, TimersStay
    DEF WaitOrStop, EpollWait, PushExpired, ReadPipe, LeaveIdle, timerVars, fiberVars
  <2>5. CASE \E d \in Fd : HandleEvent(w, d)
    BY <1>2, <1>3, <1>10, <2>5, TimersStay DEF HandleEvent, timerVars, fiberVars
  <2> QED
    BY <1>10, <2>1, <2>2, <2>3, <2>4, <2>5 DEF Scheduling
<1>11. CASE RunTimeout(w) \/ CancelOfTimeout(w)
  BY <1>2, <1>3, <1>11, TimersStay DEF RunTimeout, CancelOfTimeout, timerVars, fiberVars
<1>13. CASE \E f \in Fiber : Running(w, f)
  <2>1. PICK f \in Fiber : Running(w, f)
    BY <1>13
  <2>2. CASE Sleep(w, f)
    <3>1. Calls(w, f, "sleep", "call") /\ SetTimer(f, Millis(Op(f).time), WakeTask(f)) /\ Proceed(f, "yield")
          /\ UNCHANGED line
      BY <2>2 DEF Sleep
    <3>2. \A t \in Held(timers) : t.id # f
      BY <1>1, <3>1, NoTimer
    <3>3. Millis(Op(f).time) \in Delay /\ WakeTask(f) \in Task /\ line[f] \in DOMAIN Script[f] /\ Op(f).op = "sleep"
      <4>1. Millis(Op(f).time) \in Delay /\ line[f] \in DOMAIN Script[f] /\ Op(f).op = "sleep"
        BY <1>2, <3>1, CallsUse
      <4> QED
        BY <4>1, TaskFacts
    <3>4. WakeTask(f) = CallbackOf(f) /\ step \in [Fiber -> {"call", "try", "kernel", "event", "yield", "woken"}]
      BY <1>2, <3>3 DEF CallbackOf, FiberTypes
    <3> QED
      BY <1>2, <3>1, <3>2, <3>3, <3>4, SetTimerFacts
  <2>3. CASE TryIo(w, f) \/ TryConnect(w, f) \/ LeaveKernel(w, f)
    <3>1. PICK kind \in {"io", "connect"}, place \in {"call", "try", "kernel"} : Calls(w, f, kind, place)
      BY <2>3 DEF TryIo, TryConnect, LeaveKernel
    <3>2. \A t \in Held(timers) : t.id # f
      BY <1>1, <3>1, NoTimer
    <3>3. line[f] \in DOMAIN Script[f] /\ Op(f).op \in {"io", "connect"}
      BY <1>2, <3>1, CallsUse
    <3>4. step \in [Fiber -> {"call", "try", "kernel", "event", "yield", "woken"}] /\ limit[f] \in Delay \cup {NoLimit}
      BY <1>2 DEF FiberTypes
    <3>5. \/ \E value : Return(f, value) /\ UNCHANGED timerVars
          \/ \E to \in Delay \cup {NoLimit} : SetLimit(f, to) /\ Proceed(f, "event") /\ UNCHANGED line
          \/ Proceed(f, "kernel") /\ UNCHANGED <<timerVars, line>>
      BY <2>3, <3>4, HookAssumption DEF TryIo, TryConnect, LeaveKernel
    <3>6. CASE \E value : Return(f, value) /\ UNCHANGED timerVars
      BY <1>2, <3>2, <3>6, TimersGoOn, OneMoves
    <3>7. CASE \E to \in Delay \cup {NoLimit} : SetLimit(f, to) /\ Proceed(f, "event") /\ UNCHANGED line
      <4>1. PICK to \in Delay \cup {NoLimit} : SetLimit(f, to) /\ Proceed(f, "event") /\ UNCHANGED line
        BY <3>7
      <4>2. CASE to = NoLimit
        <5>1. UNCHANGED timerVars
          BY <4>1, <4>2 DEF SetLimit
        <5> QED
          BY <1>2, <3>2, <4>1, <5>1, TimersGoOn, OneMoves
      <4>3. CASE to # NoLimit
        <5>1. to \in Delay /\ SetTimer(f, to, TimeoutTask(f, line[f]))
          BY <4>1, <4>3 DEF SetLimit
        <5>2. TimeoutTask(f, line[f]) \in Task /\ TimeoutTask(f, line[f]) = CallbackOf(f)
          BY <3>3, TaskFacts DEF CallbackOf
        <5> QED
          BY <1>2, <3>2, <3>3, <3>4, <4>1, <5>1, <5>2, SetTimerFacts
      <4> QED
        BY <4>2, <4>3
    <3>8. CASE Proceed(f, "kernel") /\ UNCHANGED <<timerVars, line>>
      BY <1>2, <3>2, <3>8, TimersGoOn, OneMoves
    <3> QED
      BY <3>5, <3>6, <3>7, <3>8
  <2>4. CASE BeginIo(w, f) \/ WakeFromSleep(w, f) \/ Close(w, f) \/ SetTimeLimit(w, f) \/ SetNonblock(w, f)
    <3>1. \E kind, place : Calls(w, f, kind, place)
                           /\ (place \in {"call", "try", "kernel"} \/ (place = "woken" /\ kind = "sleep"))
      BY <2>4 DEF BeginIo, WakeFromSleep, Close, SetTimeLimit, SetNonblock
    <3>2. \A t \in Held(timers) : t.id # f
      BY <1>1, <3>1, NoTimer
    <3>3. /\ UNCHANGED timerVars
          /\ (\E value : Return(f, value)) \/ (Proceed(f, "try") /\ UNCHANGED line)
      BY <2>4 DEF BeginIo, WakeFromSleep, Close, SetTimeLimit, SetNonblock
    <3>4. \A g \in Fiber : g # f => line'[g] = line[g] /\ step'[g] = step[g]
      BY <1>2, <3>3, OneMoves
    <3> QED
      BY <1>2, <3>2, <3>3, <3>4, TimersGoOn
  <2>5. CASE AwaitEvent(w, f) \/ YieldInCall(w, f)
    <3>1. UNCHANGED <<timerVars, line>> /\ \E place \in {"yield", "woken"} : Proceed(f, place)
      BY <2>5 DEF AwaitEvent, YieldInCall, Yield
    <3>2. \A t \in Held(timers) : TimerFits(t)
      BY HeldView
    <3>3. \A t \in Held(timers) : t.id \in Fiber =>
            line'[t.id] = line[t.id] /\ step'[t.id] \in {"event", "yield", "woken"}
      BY <1>2, <3>1, <3>2, OneMoves DEF TimerFits
    <3> QED
      BY <1>2, <1>3, <3>1, <3>3, TimersFrame DEF timerVars
  <2>6. CASE WakeFromEvent(w, f)
    <3>1. Cancel(f) /\ f \in TimerId
      BY <2>6, HookAssumption DEF WakeFromEvent
    <3>2. (\E value : Return(f, value)) \/ (Proceed(f, "try") /\ UNCHANGED line)
      BY <2>6 DEF WakeFromEvent
    <3>3. \A g \in Fiber : g # f => line'[g] = line[g] /\ step'[g] = step[g]
      BY <1>2, <3>2, OneMoves
    <3> QED
      BY <1>2, <3>1, <3>3, CancelTimers
  <2>7. CASE EndFiber(w, f)
    BY <1>2, <1>3, <2>7, TimersStay DEF EndFiber, Yield, timerVars, fiberVars
  <2> QED
    BY <2>1, <2>2, <2>3, <2>4, <2>5, <2>6, <2>7 DEF Running
<1>14. CASE Main
  <2>1. CASE Submit \/ Stop \/ SetStopped \/ TickleAll \/ Join
    BY <1>2, <1>3, <2>1, TimersStay
    DEF Submit, Stop, SetStopped, TickleAll, Join, GetNextTimer, timerVars, fiberVars
  <2>2. CASE UseTimer
    <3>0. PICK id : id = MainOp.timer
      OBVIOUS
    <3>1. UNCHANGED <<line, step>>
      BY <2>2 DEF UseTimer, fiberVars
    <3>2. mainAt <= Len(MainScript)
      BY <2>2 DEF UseTimer, Does
    <3>3. /\ mainAt \in DOMAIN MainScript
          /\ MainOp.op \in {"addTimer", "refresh", "cancel", "reset"} => id \in UserTimer
          /\ MainOp.op = "addTimer" => MainOp.ms \in Delay /\ MainOp.recurring \in BOOLEAN
          /\ MainOp.op = "reset" => MainOp.ms \in Delay /\ MainOp.fromNow \in BOOLEAN
      BY <1>2, <3>0, <3>2, MainFacts
    <3>4. \/ /\ MainOp.op = "addTimer"
             /\ \E front \in BOOLEAN : AddTimer(id, MainOp.ms, MainOp.recurring, UserTask, front)
          \/ MainOp.op = "refresh" /\ Refresh(id)
          \/ MainOp.op = "reset" /\ \E front \in BOOLEAN : Reset(id, MainOp.ms, MainOp.fromNow, front)
          \/ MainOp.op = "cancel" /\ Cancel(id)
      BY <2>2, <3>0 DEF UseTimer, Does, MainOp
    <3>5. id \in UserTimer /\ id \in TimerId /\ id \notin Fiber
      BY <3>3, <3>4, HookAssumption
    <3>6. ASSUME NEW u, NEW H, timers' \in Seq(Timer), WellOrdered(timers'), tickled' \in BOOLEAN,
                 Held(timers') = H \cup {u}, \A t \in H : t \in Held(timers),
                 u.id = id, u.left <= u.ms, u.cb = UserTask, armed' \subseteq TimerId,
                 \A j : j # id => (IsQueued(j)' <=> IsQueued(j)) /\ (j \in armed' <=> j \in armed),
                 id \in armed'
          PROVE  TimersTypeOK' /\ ArmedIsQueued' /\ TimersFit'
      <4>1. IsQueued(id)'
        BY <3>6, HeldView
      <4>2. ArmedIsQueued'
        BY <3>6, <4>1 DEF ArmedIsQueued
      <4>3. ASSUME NEW t \in Held(timers') PROVE TimerFits(t)'
        <5>1. CASE t \in H
          <6>1. TimerFits(t)
            BY <3>6, <5>1, HeldView
          <6> QED
            BY <3>1, <6>1, FitsKeep DEF TimerFits
        <5>2. CASE t = u
          BY <3>5, <3>6, <5>2 DEF TimerFits
        <5> QED
          BY <3>6, <4>3, <5>1, <5>2
      <4> QED
        BY <3>6, <4>2, <4>3, HeldView DEF TimersTypeOK
    <3>7. CASE /\ MainOp.op = "addTimer"
               /\ \E front \in BOOLEAN : AddTimer(id, MainOp.ms, MainOp.recurring, UserTask, front)
      <4>1. PICK front \in BOOLEAN : AddTimer(id, MainOp.ms, MainOp.recurring, UserTask, front)
        BY <3>7
      <4> DEFINE ms == MainOp.ms
                 recurring == MainOp.recurring
                 u == [id |-> id, left |-> ms, ms |-> ms, recurring |-> recurring, cb |-> UserTask]
      <4>2. Does("addTimer")
        BY <3>2, <3>7 DEF Does, MainOp
      <4>3. ~IsQueued(id)
        BY <1>2, <3>0, <4>2, AddedIsNew
      <4>4. ms \in Delay /\ recurring \in BOOLEAN /\ UserTask \in Callback
        BY <3>3, <3>7, TaskFacts, HookAssumption
      <4> HIDE DEF ms, recurring
      <4>5. /\ timers' \in Seq(Timer) /\ WellOrdered(timers')
            /\ Held(timers') = Held(timers) \cup {u} /\ armed' = armed \cup {id}
        BY <1>2, <3>5, <4>1, <4>3, <4>4, AddTimerFacts DEF ms, recurring
      <4>6. tickled' \in BOOLEAN
        BY <1>3, <4>1 DEF AddTimer, Insert
      <4>7. u.id = id /\ u.left <= u.ms /\ u.cb = UserTask
        BY <4>4 DEF Delay
      <4> HIDE DEF u
      <4>8. \A j : j # id => (IsQueued(j)' <=> IsQueued(j)) /\ (j \in armed' <=> j \in armed)
        BY <4>5, <4>7, HeldView
      <4>9. armed' \subseteq TimerId /\ id \in armed'
        BY <1>2, <3>5, <4>5 DEF TimersTypeOK
      <4> QED
        BY <3>6, <4>5, <4>6, <4>7, <4>8, <4>9
    <3>8. ASSUME NEW u \in Timer, u.id = id, u.left <= u.ms, u.cb = UserTask, IsQueued(id),
                 timers' \in Ordered(Replaced(id, u), DOMAIN timers, Others(id)), UNCHANGED armed,
                 tickled' \in BOOLEAN
          PROVE  TimersTypeOK' /\ ArmedIsQueued' /\ TimersFit'
      <4> DEFINE H == {t \in Held(timers) : t.id # id}
      <4>1. /\ timers' \in Seq(Timer) /\ WellOrdered(timers')
            /\ Held(timers') = H \cup {u}
        BY <1>2, <3>5, <3>8, ReplacedFacts
      <4>2. \A t \in H : t \in Held(timers)
        OBVIOUS
      <4>3. \A t : t \in H <=> t \in Held(timers) /\ t.id # id
        OBVIOUS
      <4> HIDE DEF H
      <4>4. \A j : j # id => (IsQueued(j)' <=> IsQueued(j)) /\ (j \in armed' <=> j \in armed)
        BY <3>8, <4>1, <4>3, HeldView
      <4>5. id \in armed' /\ armed' \subseteq TimerId
        BY <1>2, <3>5, <3>8 DEF ArmedIsQueued, TimersTypeOK
      <4> QED
        BY <3>6, <3>8, <4>1, <4>2, <4>4, <4>5
    <3>9. ASSUME IsQueued(id)
          PROVE  /\ QueuedTimer(id) \in Timer /\ QueuedTimer(id).id = id
                 /\ QueuedTimer(id).cb = UserTask /\ QueuedTimer(id).left <= QueuedTimer(id).ms
      <4>1. QueuedTimer(id) \in Held(timers) /\ QueuedTimer(id).id = id
        BY <3>9, QueuedTimerFacts
      <4>2. TimerFits(QueuedTimer(id))
        BY <4>1, HeldView
      <4>3. QueuedTimer(id) \in Timer
        BY <1>2, <4>1, QueueFacts DEF Held
      <4> QED
        BY <3>5, <4>1, <4>2, <4>3 DEF TimerFits
    <3>10. CASE MainOp.op = "refresh" /\ Refresh(id)
      <4>1. CASE ~(id \in armed /\ IsQueued(id))
        BY <1>2, <1>3, <3>1, <3>10, <4>1, TimersStay DEF Refresh
      <4>2. CASE id \in armed /\ IsQueued(id)
        <5> DEFINE t == QueuedTimer(id)
                   u == [t EXCEPT !.left = t.ms]
        <5>1. t \in Timer /\ t.id = id /\ t.cb = UserTask
          BY <3>9, <4>2
        <5>2. timers' \in Ordered(Replaced(id, u), DOMAIN timers, Others(id)) /\ UNCHANGED <<armed, tickled>>
          BY <3>10, <4>2 DEF Refresh
        <5> HIDE DEF t
        <5>3. u \in Timer /\ u.id = id /\ u.left <= u.ms /\ u.cb = UserTask
          BY <5>1 DEF Timer, Delay
        <5> QED
          BY <1>3, <3>8, <4>2, <5>2, <5>3
      <4> QED
        BY <4>1, <4>2
    <3>11. CASE MainOp.op = "reset" /\ \E front \in BOOLEAN : Reset(id, MainOp.ms, MainOp.fromNow, front)
      <4> DEFINE ms == MainOp.ms
                 fromNow == MainOp.fromNow
      <4>1. PICK front \in BOOLEAN : Reset(id, ms, fromNow, front)
        BY <3>11
      <4>2. ms \in Delay
        BY <3>3, <3>11
      <4> HIDE DEF ms, fromNow
      <4>3. CASE ~(id \in armed /\ IsQueued(id) /\ (fromNow \/ ms # QueuedTimer(id).ms))
        BY <1>2, <1>3, <3>1, <4>1, <4>3, TimersStay DEF Reset, timerVars
      <4>4. CASE id \in armed /\ IsQueued(id) /\ (fromNow \/ ms # QueuedTimer(id).ms)
        <5> DEFINE t == QueuedTimer(id)
                   left == IF fromNow THEN ms ELSE AtLeast0(t.left - t.ms + ms)
                   u == [t EXCEPT !.left = left, !.ms = ms]
        <5>1. t \in Timer /\ t.id = id /\ t.cb = UserTask /\ t.left <= t.ms
          BY <3>9, <4>4
        <5>2. Insert(Replaced(id, u), Others(id), id, front) /\ UNCHANGED armed
          BY <4>1, <4>4 DEF Reset
        <5>3. DOMAIN Replaced(id, u) = DOMAIN timers
          BY DEF Replaced
        <5> HIDE DEF t
        <5>4. left \in Delay /\ left <= ms
          BY <4>2, <5>1, DelayAssumption DEF Timer, Delay, AtLeast0
        <5> HIDE DEF left
        <5>5. u \in Timer /\ u.id = id /\ u.left <= u.ms /\ u.cb = UserTask
          BY <4>2, <5>1, <5>4 DEF Timer
        <5> HIDE DEF u
        <5>6. timers' \in Ordered(Replaced(id, u), DOMAIN timers, Others(id)) /\ tickled' \in BOOLEAN
          BY <1>3, <5>2, <5>3 DEF Insert
        <5> QED
          BY <3>8, <4>4, <5>2, <5>5, <5>6
      <4> QED
        BY <4>3, <4>4
    <3>12. CASE MainOp.op = "cancel" /\ Cancel(id)
      BY <1>2, <3>1, <3>5, <3>12, CancelTimers
    <3> QED
      BY <3>4, <3>7, <3>10, <3>11, <3>12
  <2> QED
    BY <1>14, <2>1, <2>2 DEF Main
<1>15. CASE Tick
  <2>1. /\ timers' \in Seq(Timer) /\ WellOrdered(timers')
        /\ Held(timers') = {[t EXCEPT !.left = AtLeast0(t.left - 1)] : t \in Held(timers)}
    BY <1>2, <1>15, SoonerFacts DEF Tick
  <2>2. \A t \in Held(timers) : t \in Timer /\ TimerFits(t)
    BY <1>2, QueueFacts, HeldView DEF Held
  <2>3. \A t \in Held(timers) : [t EXCEPT !.left = AtLeast0(t.left - 1)].id = t.id
    BY <2>2 DEF Timer
  <2>4. \A id : IsQueued(id)' <=> IsQueued(id)
    <3>1. \A id : (\E t \in Held(timers') : t.id = id) <=> \E t \in Held(timers) : t.id = id
      BY <2>1, <2>3
    <3> QED
      BY <3>1, HeldView
  <2>5. UNCHANGED <<armed, tickled, line, step>>
    BY <1>15 DEF Tick, fiberVars
  <2>6. ASSUME NEW u \in Held(timers') PROVE TimerFits(u)'
    <3>1. PICK t \in Held(timers) : u = [t EXCEPT !.left = AtLeast0(t.left - 1)]
      BY <2>1
    <3>2. t \in Timer /\ TimerFits(t)
      BY <2>2
    <3>3. TimerFits(t)'
      BY <2>5, <3>2, FitsKeep DEF TimerFits
    <3>4. u.id = t.id /\ u.cb = t.cb /\ u.ms = t.ms /\ u.recurring = t.recurring
          /\ u.left = AtLeast0(t.left - 1)
      BY <3>1, <3>2 DEF Timer
    <3>5. u.left <= u.ms
      BY <3>2, <3>4 DEF Timer, Delay, AtLeast0, TimerFits
    <3> QED
      BY <3>3, <3>4, <3>5 DEF TimerFits
  <2>7. ArmedIsQueued'
    BY <2>4, <2>5 DEF ArmedIsQueued
  <2> QED
    BY <1>2, <2>1, <2>5, <2>6, <2>7, HeldView DEF TimersTypeOK
<1>16. CASE \E d \in Fd, e \in Event \cup {HUP} : Arrive(d, e)
  BY <1>2, <1>3, <1>16, TimersStay DEF Arrive, timerVars, fiberVars
<1> QED
  BY <1>10, <1>11, <1>13, <1>14, <1>15, <1>16, NextCases

-----------------------------------------------------------------------------
\* What a step does to the registered events.

Awaits(g, d, e) == /\ line[g] \in DOMAIN Script[g] /\ Op(g).op \in {"io", "connect"}
                   /\ Op(g).fd = d /\ WaitsFor(g) = e
RegsFit == \A d \in Fd, e \in Event : \A g : regs[d][e] = g /\ g # NoFiber => Awaits(g, d, e)
EdgesFit == \A d \in Fd : edge[d] \subseteq Waiting(d) \cup {HUP}
GotFits == \A w \in Worker, d \in Fd :
             /\ got[w][d] \subseteq Waiting(d) \cup {HUP}
             /\ got[w][d] # {} => at[w] \in {"expire", "push", "events"}

\* The registered events, what epoll may report and what it has reported apart.
LEMMA EventsParts ==
  /\ EventsFit <=> RegsFit /\ EdgesFit /\ GotFits
  /\ EventsFit' <=> RegsFit' /\ EdgesFit' /\ GotFits'
  /\ \A g, d, e : Awaits(g, d, e) /\ line'[g] = line[g] => Awaits(g, d, e)'
<1>1. EventsFit <=> RegsFit /\ EdgesFit /\ GotFits
  BY DEF EventsFit, RegsFit, EdgesFit, GotFits, Awaits
<1>2. EventsFit' <=> RegsFit' /\ EdgesFit' /\ GotFits'
  BY DEF EventsFit, RegsFit, EdgesFit, GotFits, Awaits
<1>3. \A g, d, e : Awaits(g, d, e) /\ line'[g] = line[g] => Awaits(g, d, e)'
  BY DEF Awaits, Op, WaitsFor
<1> QED
  BY <1>1, <1>2, <1>3

\* What triggerEvent leaves of the registered events.
LEMMA TriggerRegs ==
  ASSUME EventTypes, NEW d \in Fd, NEW es, es \subseteq Waiting(d), Trigger(d, es)
  PROVE  /\ \A c \in Fd, e \in Event : regs'[c][e] = IF c = d /\ e \in es THEN NoFiber ELSE regs[c][e]
         /\ \A c \in Fd : Waiting(c)' = IF c = d THEN Waiting(d) \ es ELSE Waiting(c)
         /\ \A c \in Fd : edge'[c] = IF c = d THEN Rearmed(d, Waiting(d) \ es) ELSE edge[c]
<1>1. \A c \in Fd, e \in Event : regs'[c][e] = IF c = d /\ e \in es THEN NoFiber ELSE regs[c][e]
  BY DEF Trigger, EventTypes
<1>2. ASSUME NEW c \in Fd PROVE Waiting(c)' = IF c = d THEN Waiting(d) \ es ELSE Waiting(c)
  BY <1>1 DEF Waiting
<1>3. \A c \in Fd : edge'[c] = IF c = d THEN Rearmed(d, Waiting(d) \ es) ELSE edge[c]
  BY DEF Trigger, EventTypes
<1> QED
  BY <1>1, <1>2, <1>3

\* epoll goes on reporting only what somebody waits for.
LEMMA TriggerEvents ==
  ASSUME EventTypes, RegsFit, EdgesFit, NEW d \in Fd, NEW es, es \subseteq Waiting(d), Trigger(d, es)
  PROVE  EdgesFit' /\ (UNCHANGED line => RegsFit')
<1>1. EdgesFit'
  <2> SUFFICES ASSUME NEW c \in Fd PROVE edge'[c] \subseteq Waiting(c)' \cup {HUP}
    BY DEF EdgesFit
  <2>1. edge[c] \subseteq Waiting(c) \cup {HUP}
    BY DEF EdgesFit
  <2>2. Waiting(c)' = IF c = d THEN Waiting(d) \ es ELSE Waiting(c)
    BY TriggerRegs
  <2>3. edge'[c] = IF c = d THEN Rearmed(d, Waiting(d) \ es) ELSE edge[c]
    BY DEF Trigger, EventTypes
  <2>4. Rearmed(d, Waiting(d) \ es) \subseteq (Waiting(d) \ es) \cup {HUP}
    BY DEF Rearmed
  <2>5. CASE c = d
    BY <2>2, <2>3, <2>4, <2>5
  <2>6. CASE c # d
    BY <2>1, <2>2, <2>3, <2>6
  <2> QED
    BY <2>5, <2>6
<1>2. ASSUME UNCHANGED line PROVE RegsFit'
  <2>1. \A c \in Fd, e \in Event : regs'[c][e] = IF c = d /\ e \in es THEN NoFiber ELSE regs[c][e]
    BY TriggerRegs
  <2> QED
    BY <1>2, <2>1, EventsParts DEF RegsFit
<1> QED
  BY <1>1, <1>2

\* A fiber whose event is not registered goes on.
LEMMA RegsKeep ==
  ASSUME RegsFit, NEW f \in Fiber, ~InRegs(f), EventTypes,
         \A c \in Fd, e \in Event : regs'[c][e] \in {NoFiber, regs[c][e]},
         \A g \in Fiber : g # f => line'[g] = line[g]
  PROVE  RegsFit'
<1> SUFFICES ASSUME NEW c \in Fd, NEW e \in Event, NEW g, regs'[c][e] = g, g # NoFiber
             PROVE  Awaits(g, c, e)'
  BY DEF RegsFit
<1>1. regs[c][e] = g
  OBVIOUS
<1>2. g \in Fiber /\ g # f
  BY <1>1 DEF EventTypes, InRegs
<1> QED
  BY <1>1, <1>2, EventsParts DEF RegsFit

\* Nothing that epoll or a fiber knows of changes.
LEMMA EventsStay ==
  ASSUME EventsFit, UNCHANGED <<regs, edge, line>>, GotFits'
  PROVE  EventsFit'
<1>1. RegsFit' /\ EdgesFit'
  BY EventsParts DEF RegsFit, EdgesFit, Waiting
<1> QED
  BY <1>1, EventsParts

\* A registered event belongs to the call that its fiber is at, in every step.
LEMMA EventsStep ==
  ASSUME Types, WorkersFit, TasksFit, FibersFit, EventsFit, NEW w, Worker = {w}, Next
  PROVE  EventsFit'
<1>1. w \in Worker
  OBVIOUS
<1>2. SchedTypes /\ EventTypes /\ IdleTypes /\ FiberTypes
  BY DEF Types
<1>3. RegsFit /\ EdgesFit /\ GotFits
  BY EventsParts
<1> DEFINE G == \A d \in Fd : /\ got[w][d] \subseteq Waiting(d) \cup {HUP}
                              /\ got[w][d] # {} => at[w] \in {"expire", "push", "events"}
<1>4. G /\ (G' => GotFits')
  BY <1>3 DEF GotFits, Waiting
<1>5. ASSUME UNCHANGED <<got, regs>>, at' = at \/ at'[w] \in {"expire", "push", "events"}
      PROVE  GotFits'
  BY <1>4, <1>5 DEF Waiting
<1>6. ASSUME UNCHANGED got, at[w] \notin {"expire", "push", "events"} PROVE GotFits'
  BY <1>4, <1>6 DEF Waiting
<1>7. at \in [Worker -> Places]
  BY <1>2 DEF SchedTypes
<1>8. EventsFit' <=> RegsFit' /\ EdgesFit' /\ GotFits'
  BY EventsParts
<1>10. CASE Scheduling(w) /\ UNCHANGED <<fiberVars, since, sock, mainAt>>
  <2>1. CASE TakeTask(w) \/ FindNothing(w) \/ ResumeFiber(w) \/ RunWake(w) \/ RunUser(w)
    <3>1. at[w] \notin {"expire", "push", "events"} /\ UNCHANGED <<got, regs, edge, line>>
      BY <1>10, <2>1 DEF TakeTask, FindNothing, ResumeFiber, RunWake, RunUser, eventVars, idleVars, fiberVars
    <3> QED
      BY <1>6, <3>1, EventsStay
  <2>2. CASE Rest(w) \/ Idle(w) \/ WaitOrStop(w)
    <3>1. at[w] \notin {"expire", "push", "events"} /\ UNCHANGED <<got, regs, edge, line>>
      BY <1>10, <2>2 DEF Rest, Idle, WaitOrStop, eventVars, idleVars, fiberVars
    <3> QED
      BY <1>6, <3>1, EventsStay
  <2>3. CASE Expire(w) \/ PushExpired(w)
    <3>1. UNCHANGED <<got, regs, edge, line>>
      BY <1>10, <2>3 DEF Expire, PushExpired, eventVars, fiberVars
    <3>2. at' = at \/ at'[w] \in {"expire", "push", "events"}
      BY <1>1, <1>7, <2>3 DEF Expire, PushExpired, Goto
    <3> QED
      BY <1>5, <3>1, <3>2, EventsStay
  <2>4. CASE ReadPipe(w)
    BY <1>5, <1>10, <2>4, EventsStay DEF ReadPipe, schedVars, eventVars, fiberVars
  <2>5. CASE LeaveIdle(w)
    <3>1. UNCHANGED <<got, regs, edge, line>> /\ \A d \in Fd : got[w][d] = {}
      BY <1>10, <2>5 DEF LeaveIdle, idleVars, eventVars, fiberVars
    <3>2. G'
      BY <3>1
    <3> QED
      BY <1>4, <3>1, <3>2, EventsStay
  <2>6. CASE EpollWait(w)
    <3>1. got' = [got EXCEPT ![w] = edge] /\ edge' = [d \in Fd |-> {}] /\ at' = [at EXCEPT ![w] = "expire"]
          /\ UNCHANGED <<regs, line>>
      BY <1>10, <2>6 DEF EpollWait, Goto, fiberVars
    <3>2. got'[w] = edge /\ at'[w] = "expire"
      BY <1>1, <1>2, <1>7, <3>1 DEF IdleTypes
    <3>3. G'
      BY <1>3, <3>1, <3>2 DEF EdgesFit, Waiting
    <3>4. RegsFit' /\ EdgesFit'
      BY <1>3, <3>1, EventsParts DEF RegsFit, EdgesFit, Waiting
    <3> QED
      BY <1>4, <1>8, <3>3, <3>4
  <2>7. CASE \E d \in Fd : HandleEvent(w, d)
    <3>1. PICK d \in Fd : HandleEvent(w, d)
      BY <2>7
    <3>2. PICK real : real = (got[w][d] \ {HUP}) \cup (IF HUP \in got[w][d] THEN Waiting(d) ELSE {})
      OBVIOUS
    <3>3. \/ UNCHANGED <<regs, edge>>
          \/ real \subseteq Waiting(d) /\ Trigger(d, real)
      BY <3>1, <3>2 DEF HandleEvent
    <3>4. /\ got' = [got EXCEPT ![w][d] = {}] /\ UNCHANGED <<at, line>>
          /\ at[w] = "events"
      BY <1>10, <3>1 DEF HandleEvent, fiberVars
    <3>5. \A c \in Fd : got'[w][c] = IF c = d THEN {} ELSE got[w][c]
      BY <1>1, <1>2, <3>4 DEF IdleTypes
    <3>6. CASE UNCHANGED <<regs, edge>>
      <4>1. G'
        BY <1>4, <3>4, <3>5, <3>6 DEF Waiting
      <4> QED
        BY <1>4, <3>4, <3>6, <4>1, EventsStay
    <3>7. CASE real \subseteq Waiting(d) /\ Trigger(d, real)
      <4>1. \A c \in Fd : Waiting(c)' = IF c = d THEN Waiting(d) \ real ELSE Waiting(c)
        BY <1>2, <3>7, TriggerRegs
      <4>2. G'
        BY <1>4, <3>4, <3>5, <4>1
      <4>3. EdgesFit' /\ RegsFit'
        BY <1>2, <1>3, <3>4, <3>7, TriggerEvents
      <4> QED
        BY <1>4, <1>8, <4>2, <4>3
    <3> QED
      BY <3>3, <3>6, <3>7
  <2> QED
    BY <1>10, <2>1, <2>2, <2>3, <2>4, <2>5, <2>6, <2>7 DEF Scheduling
<1>11. CASE RunTimeout(w)
  <2>1. at[w] \notin {"expire", "push", "events"} /\ UNCHANGED <<got, regs, edge, line>>
    BY <1>11 DEF RunTimeout, eventVars, idleVars
  <2> QED
    BY <1>6, <2>1, EventsStay
<1>9. ASSUME NEW d \in Fd, NEW es, CancelEvent(d, es)
      PROVE  /\ EdgesFit' /\ (UNCHANGED line => RegsFit')
             /\ \A c \in Fd, e \in Event : regs'[c][e] \in {NoFiber, regs[c][e]}
  <2>1. CASE Waiting(d) \cap es # {}
    <3>1. PICK es2 : es2 = Waiting(d) \cap es
      OBVIOUS
    <3>2. es2 \subseteq Waiting(d) /\ Trigger(d, es2)
      BY <1>9, <2>1, <3>1 DEF CancelEvent
    <3>3. EdgesFit' /\ (UNCHANGED line => RegsFit')
      BY <1>2, <1>3, <3>2, TriggerEvents
    <3>4. \A c \in Fd, e \in Event : regs'[c][e] = IF c = d /\ e \in es2 THEN NoFiber ELSE regs[c][e]
      BY <1>2, <3>2, TriggerRegs
    <3> QED
      BY <3>3, <3>4
  <2>2. CASE Waiting(d) \cap es = {}
    <3>1. UNCHANGED <<regs, edge>>
      BY <1>9, <2>2 DEF CancelEvent
    <3> QED
      BY <1>3, <3>1, EventsParts DEF RegsFit, EdgesFit, Waiting
  <2> QED
    BY <2>1, <2>2
<1>12. CASE CancelOfTimeout(w)
  <2> DEFINE call == Script[hand[w].fiber][hand[w].call]
  <2>1. call.fd \in Fd
    BY <1>1, <1>2, <1>12, HandFacts DEF CancelOfTimeout
  <2>2. CancelEvent(call.fd, {Awaited(call)}) /\ at[w] = "cancel" /\ UNCHANGED <<got, line>>
    BY <1>12 DEF CancelOfTimeout, idleVars, fiberVars
  <2> HIDE DEF call
  <2>3. EdgesFit' /\ RegsFit'
    BY <1>9, <2>1, <2>2
  <2>4. GotFits'
    BY <1>6, <2>2
  <2> QED
    BY <1>8, <2>3, <2>4
<1>13. CASE \E f \in Fiber : Running(w, f)
  <2>1. PICK f \in Fiber : Running(w, f)
    BY <1>13
  <2>2. PICK kind, place : Calls(w, f, kind, place) \/ EndFiber(w, f)
    BY <2>1
    DEF Running, Sleep, WakeFromSleep, BeginIo, TryIo, TryConnect, LeaveKernel, AwaitEvent, YieldInCall, WakeFromEvent,
        Close, SetTimeLimit, SetNonblock
  <2>3. at[w] = "fiber"
    BY <2>2 DEF Calls, EndFiber
  <2>4. UNCHANGED got
    <3>1. CASE Sleep(w, f) \/ WakeFromSleep(w, f) \/ BeginIo(w, f) \/ TryIo(w, f) \/ TryConnect(w, f) \/ LeaveKernel(w, f)
      BY <3>1 DEF Sleep, WakeFromSleep, BeginIo, TryIo, TryConnect, LeaveKernel, ioVars, idleVars
    <3>2. CASE AwaitEvent(w, f) \/ YieldInCall(w, f) \/ WakeFromEvent(w, f) \/
               Close(w, f) \/ SetTimeLimit(w, f) \/ SetNonblock(w, f) \/ EndFiber(w, f)
      BY <3>2 DEF AwaitEvent, YieldInCall, WakeFromEvent, Close, SetTimeLimit, SetNonblock, EndFiber, Yield, ioVars, idleVars
    <3> QED
      BY <2>1, <3>1, <3>2 DEF Running
  <2>5. GotFits'
    BY <1>6, <2>3, <2>4
  <2>6. CASE AwaitEvent(w, f)
    <3>1. PICK kind2 \in {"io", "connect"} : Calls(w, f, kind2, "event")
      BY <2>6 DEF AwaitEvent
    <3>2. PICK d, e : d = Op(f).fd /\ e = WaitsFor(f)
      OBVIOUS
    <3>3. /\ d \in Fd /\ e \in Event /\ line[f] \in DOMAIN Script[f] /\ Op(f).op \in {"io", "connect"}
      BY <1>2, <3>1, <3>2, CallsUse
    <3>4. AddEvent(d, e, f) /\ UNCHANGED line
      BY <2>6, <3>2 DEF AwaitEvent
    <3>5. CASE regs[d][e] # NoFiber
      BY <2>5, <3>4, <3>5, EventsStay DEF AddEvent, eventVars
    <3>6. CASE regs[d][e] = NoFiber
      <4>1. regs' = [regs EXCEPT ![d][e] = f] /\ edge' = [edge EXCEPT ![d] = Rearmed(d, Waiting(d) \cup {e})]
        BY <3>4, <3>6 DEF AddEvent
      <4>2. \A c \in Fd, e2 \in Event : regs'[c][e2] = IF c = d /\ e2 = e THEN f ELSE regs[c][e2]
        BY <1>2, <4>1 DEF EventTypes
      <4>3. f # NoFiber
        BY IOManagerAssumption
      <4>4. \A c \in Fd : Waiting(c)' = IF c = d THEN Waiting(d) \cup {e} ELSE Waiting(c)
        BY <3>3, <4>2, <4>3 DEF Waiting
      <4>5. EdgesFit'
        BY <1>2, <1>3, <3>3, <4>1, <4>4 DEF EdgesFit, Rearmed, EventTypes
      <4>6. Awaits(f, d, e)
        BY <3>2, <3>3 DEF Awaits
      <4>7. RegsFit'
        BY <1>3, <3>4, <4>2, <4>6, EventsParts DEF RegsFit
      <4> QED
        BY <1>8, <2>5, <4>5, <4>7
    <3> QED
      BY <3>5, <3>6
  <2>7. CASE Close(w, f)
    <3>1. Calls(w, f, "close", "call") /\ CancelEvent(Op(f).fd, Event) /\ Return(f, "ok")
      BY <2>7 DEF Close
    <3>2. Op(f).fd \in Fd /\ ~InRegs(f)
      <4>1. Op(f).fd \in Fd
        BY <1>2, <3>1, CallsUse
      <4>2. Only(f, "nowhere")
        BY <1>1, <3>1, RunningFacts
      <4> QED
        BY <4>1, <4>2 DEF Only
    <3>3. EdgesFit' /\ \A c \in Fd, e \in Event : regs'[c][e] \in {NoFiber, regs[c][e]}
      BY <1>9, <3>1, <3>2
    <3>4. RegsFit'
      BY <1>2, <1>3, <3>1, <3>2, <3>3, OneMoves, RegsKeep
    <3> QED
      BY <1>8, <2>5, <3>3, <3>4
  <2>8. CASE Sleep(w, f) \/ YieldInCall(w, f) \/ EndFiber(w, f)
    <3>1. UNCHANGED <<regs, edge, line>>
      BY <2>8 DEF Sleep, YieldInCall, EndFiber, Yield, eventVars, fiberVars
    <3> QED
      BY <2>5, <3>1, EventsStay
  <2>9. CASE BeginIo(w, f) \/ TryIo(w, f) \/ TryConnect(w, f) \/ LeaveKernel(w, f) \/ WakeFromSleep(w, f) \/
             WakeFromEvent(w, f) \/ SetTimeLimit(w, f) \/ SetNonblock(w, f)
    <3>1. PICK kind2, place2 : Calls(w, f, kind2, place2) /\ place2 # "yield"
      BY <2>9 DEF BeginIo, TryIo, TryConnect, LeaveKernel, WakeFromSleep, WakeFromEvent, SetTimeLimit, SetNonblock
    <3>2. ~InRegs(f)
      BY <1>1, <3>1, RunningFacts DEF Only
    <3>3. UNCHANGED <<regs, edge>>
      BY <2>9 DEF BeginIo, TryIo, TryConnect, LeaveKernel, WakeFromSleep, WakeFromEvent, SetTimeLimit, SetNonblock, ioVars, eventVars
    <3>4. (\E value : Return(f, value)) \/ UNCHANGED line
      BY <2>9 DEF BeginIo, TryIo, TryConnect, LeaveKernel, WakeFromSleep, WakeFromEvent, SetTimeLimit, SetNonblock
    <3>5. \A g \in Fiber : g # f => line'[g] = line[g]
      BY <1>2, <3>4, OneMoves
    <3>6. RegsFit'
      BY <1>2, <1>3, <3>2, <3>3, <3>5, RegsKeep
    <3>7. EdgesFit'
      BY <1>3, <3>3 DEF EdgesFit, Waiting
    <3> QED
      BY <1>8, <2>5, <3>6, <3>7
  <2> QED
    BY <2>1, <2>6, <2>7, <2>8, <2>9 DEF Running
<1>14. CASE Main
  <2>1. UNCHANGED <<got, regs, edge, line, at>>
    <3>1. CASE Submit \/ UseTimer
      BY <3>1 DEF Submit, UseTimer, schedVars, idleVars, eventVars, fiberVars
    <3>2. CASE Stop \/ SetStopped \/ TickleAll \/ Join
      BY <3>2 DEF Stop, SetStopped, TickleAll, Join, ioVars, schedVars, idleVars, eventVars, fiberVars
    <3> QED
      BY <1>14, <3>1, <3>2 DEF Main
  <2> QED
    BY <1>5, <2>1, EventsStay
<1>15. CASE Tick
  BY <1>5, <1>15, EventsStay DEF Tick, schedVars, eventVars, fiberVars
<1>16. CASE \E d \in Fd, e \in Event \cup {HUP} : Arrive(d, e)
  <2>1. PICK d \in Fd, e \in Event \cup {HUP} : Arrive(d, e)
    BY <1>16
  <2>2. UNCHANGED <<got, regs, line, at>>
    BY <2>1 DEF Arrive, schedVars, idleVars, fiberVars
  <2>3. edge' = [edge EXCEPT ![d] = IF Waiting(d) = {} THEN {}
                                    ELSE @ \cup (ready'[d] \cap (Waiting(d) \cup {HUP}))]
    BY <2>1 DEF Arrive
  <2>4. \A c \in Fd : edge'[c] \subseteq Waiting(c) \cup {HUP}
    BY <1>2, <1>3, <2>3 DEF EdgesFit, EventTypes
  <2>5. EdgesFit' /\ RegsFit'
    BY <1>3, <2>2, <2>4, EventsParts DEF EdgesFit, RegsFit, Waiting
  <2> QED
    BY <1>5, <1>8, <2>2, <2>5
<1> QED
  BY <1>10, <1>11, <1>12, <1>13, <1>14, <1>15, <1>16, NextCases

-----------------------------------------------------------------------------
\* Where something waits that will resume a fiber.

\* With one worker.
LEMMA Spots ==
  ASSUME NEW w, Worker = {w}, NEW f
  PROVE  /\ InTasks(f) <=> In(tasks, Wakes(f))
         /\ InHand(f) <=> hand[w] \in Wakes(f) /\ at[w] # "fiber"
         /\ InDue(f) <=> In(due[w], {WakeTask(f)})
         /\ Runs(f) <=> at[w] = "fiber" /\ hand[w] = FiberTask(f)
         /\ InTasks(f)' <=> In(tasks', Wakes(f))
         /\ InHand(f)' <=> hand'[w] \in Wakes(f) /\ at'[w] # "fiber"
         /\ InDue(f)' <=> In(due'[w], {WakeTask(f)})
         /\ Runs(f)' <=> at'[w] = "fiber" /\ hand'[w] = FiberTask(f)
BY DEF InTasks, InHand, InDue, Runs, In, Wakes

\* A sleeping fiber has a timer that will resume it as long as its Timer has a
\* callback.
SleepersFit ==
  \A f \in Fiber :
    /\ InTimers(f) <=> f \in armed /\ Op(f).op = "sleep"
    /\ \A t \in Held(timers) : t.cb = WakeTask(f) <=> t.id = f /\ Op(f).op = "sleep"

\* It follows from what timers and callbacks are.
LEMMA Sleepers == TimersTypeOK /\ ArmedIsQueued /\ TimersFit => SleepersFit
<1> SUFFICES ASSUME TimersTypeOK, ArmedIsQueued, TimersFit, NEW f \in Fiber
             PROVE  /\ InTimers(f) <=> f \in armed /\ Op(f).op = "sleep"
                    /\ \A t \in Held(timers) : t.cb = WakeTask(f) <=> t.id = f /\ Op(f).op = "sleep"
  BY DEF SleepersFit
<1>1. f \in TimerId /\ f \notin UserTimer /\ TimerId = Fiber \cup UserTimer
  BY HookAssumption
<1>2. ASSUME NEW t \in Held(timers)
      PROVE  t.cb = WakeTask(f) <=> t.id = f /\ Op(f).op = "sleep"
  <2>1. TimerFits(t) /\ t \in Timer
    BY HeldView, QueueFacts DEF Held
  <2>2. CASE t.id \in Fiber
    <3>1. t.cb = IF Op(t.id).op = "sleep" THEN WakeTask(t.id) ELSE TimeoutTask(t.id, line[t.id])
      BY <2>1, <2>2 DEF TimerFits, CallbackOf
    <3> QED
      BY <3>1, TasksDiffer
  <2>3. CASE t.id \in UserTimer
    BY <1>1, <2>1, <2>3, TasksDiffer DEF TimerFits
  <2> QED
    BY <1>1, <2>1, <2>2, <2>3 DEF Timer
<1>3. InTimers(f) <=> \E t \in Held(timers) : t.cb = WakeTask(f)
  BY DEF InTimers, Held
<1>4. f \in armed <=> \E t \in Held(timers) : t.id = f
  BY <1>1, HeldView DEF ArmedIsQueued
<1> QED
  BY <1>2, <1>3, <1>4

\* The same after a step.
LEMMA SleepersNext == TimersTypeOK' /\ ArmedIsQueued' /\ TimersFit' => SleepersFit'
BY Sleepers, PTL

\* A task in the queue, or in hand, to resume f is the only one there is.
LEMMA SpotFacts ==
  ASSUME FibersFit, SchedTypes, NEW f \in Fiber
  PROVE  /\ InTasks(f) => state[f] = "READY" /\ Only(f, "tasks")
         /\ InHand(f) => state[f] = "READY" /\ Only(f, "hand")
         /\ InDue(f) => state[f] = "READY" /\ Only(f, "due")
         /\ InRegs(f) => /\ Only(f, "regs") /\ state[f] \in {"READY", "RUNNING"}
                         /\ state[f] = "READY" => Op(f).op # "sleep"
                         /\ state[f] = "RUNNING" => step[f] = "yield"
         /\ InTimers(f) => /\ Only(f, "timers") /\ state[f] \in {"READY", "RUNNING"}
                           /\ state[f] = "RUNNING" => step[f] = "yield"
         /\ state[f] \in {"NEW", "TERM"} => Only(f, "nowhere")
<1>1. PICK p \in Allowed(f) : Only(f, p)
  BY DEF FibersFit
<1>2. state[f] \in {"NEW", "READY", "RUNNING", "TERM"}
  BY DEF SchedTypes
<1>3. p \in {"tasks", "timers", "regs", "hand", "due", "nowhere"}
  BY <1>1 DEF Allowed
<1>4. CASE state[f] \in {"NEW", "TERM"}
  BY <1>1, <1>4 DEF Allowed, Only
<1>5. CASE state[f] = "RUNNING"
  BY <1>1, <1>5 DEF Allowed, Only
<1>6. CASE state[f] = "READY"
  <2>1. p \in IF step[f] = "call" THEN {"tasks", "hand"}
              ELSE IF Op(f).op = "sleep" THEN {"timers", "due", "tasks", "hand"}
              ELSE {"regs", "tasks", "hand"}
    BY <1>1, <1>6 DEF Allowed
  <2> QED
    BY <1>1, <1>3, <1>6, <2>1 DEF Only
<1> QED
  BY <1>2, <1>4, <1>5, <1>6

\* Tasks that are no time-out of a call that waits: there are none.
Unfit == {t \in Task : ~LimitFits(t)}
Undue == {t \in Task : ~LimitFits(t) \/ t.kind = "fiber"}

QueuesFit(ts, task, ds) ==
  /\ \A f \in Fiber : Once(ts, Wakes(f)) /\ Once(ds, {WakeTask(f)})
  /\ ~In(ts, Unfit) /\ LimitFits(task) /\ ~In(ds, Undue)

\* TasksFit of the one worker.
LEMMA TasksView ==
  ASSUME NEW w, Worker = {w}
  PROVE  /\ tasks \in Seq(Task) /\ due[w] \in Seq(Task) =>
              (TasksFit <=> QueuesFit(tasks, hand[w], due[w]))
         /\ tasks' \in Seq(Task) /\ due'[w] \in Seq(Task) =>
              (TasksFit' <=> QueuesFit(tasks', hand'[w], due'[w]))
<1>1. ASSUME NEW s \in Seq(Task)
      PROVE  ~In(s, Unfit) <=> \A k \in DOMAIN s : LimitFits(s[k])
  BY LenProperties, ElementOfSeq DEF In, Unfit
<1>5. ASSUME NEW s \in Seq(Task)
      PROVE  ~In(s, Undue) <=> \A k \in DOMAIN s : LimitFits(s[k]) /\ s[k].kind # "fiber"
  BY LenProperties, ElementOfSeq DEF In, Undue
<1>2. \A s, f : Once(s, {WakeTask(f)})
                  <=> \A j, k \in DOMAIN s : s[j] = WakeTask(f) /\ s[k] = WakeTask(f) => j = k
  BY DEF Once
<1>3. ASSUME tasks \in Seq(Task), due[w] \in Seq(Task)
      PROVE  TasksFit <=> QueuesFit(tasks, hand[w], due[w])
  <2>1. (\A k \in DOMAIN tasks : LimitFits(tasks[k])) <=> ~In(tasks, Unfit)
    BY <1>1, <1>3
  <2>2. (\A k \in DOMAIN due[w] : LimitFits(due[w][k]) /\ due[w][k].kind # "fiber") <=> ~In(due[w], Undue)
    BY <1>5, <1>3
  <2> QED
    BY <1>2, <2>1, <2>2 DEF TasksFit, QueuesFit, Once
<1>4. ASSUME tasks' \in Seq(Task), due'[w] \in Seq(Task)
      PROVE  TasksFit' <=> QueuesFit(tasks', hand'[w], due'[w])
  <2>1. (\A k \in DOMAIN tasks' : LimitFits(tasks'[k])) <=> ~In(tasks', Unfit)
    BY <1>1, <1>4
  <2>2. (\A k \in DOMAIN due'[w] : LimitFits(due'[w][k]) /\ due'[w][k].kind # "fiber") <=> ~In(due'[w], Undue)
    BY <1>5, <1>4
  <2> QED
    BY <1>2, <2>1, <2>2 DEF TasksFit, QueuesFit, Once
<1> QED
  BY <1>3, <1>4

\* A task is handed over: it is in the queue, once if it was not there before.
LEMMA ScheduleOne ==
  ASSUME tasks \in Seq(Task), NEW t \in Task, Schedule(<<t>>)
  PROVE  /\ \A f : In(tasks', Wakes(f)) <=> In(tasks, Wakes(f)) \/ t \in Wakes(f)
         /\ \A f : Once(tasks, Wakes(f)) /\ ~(In(tasks, Wakes(f)) /\ t \in Wakes(f))
                     => Once(tasks', Wakes(f))
         /\ ~In(tasks, Unfit) /\ LimitFits(t) => ~In(tasks', Unfit)
<1>1. <<t>> \in Seq(Task) /\ tasks' = tasks \o <<t>>
  BY SingleFacts DEF Schedule
<1>2. ASSUME NEW S
      PROVE  /\ In(tasks', S) <=> In(tasks, S) \/ t \in S
             /\ Once(tasks, S) /\ ~(In(tasks, S) /\ t \in S) => Once(tasks', S)
  <2>1. (In(<<t>>, S) <=> t \in S) /\ Once(<<t>>, S)
    BY SingleFacts
  <2>2. PICK u : u = <<t>>
    OBVIOUS
  <2> QED
    BY <1>1, <2>1, <2>2, ConcatFacts
<1>3. t \in Unfit <=> ~LimitFits(t)
  BY DEF Unfit
<1> QED
  BY <1>2, <1>3

\* The fibers that wait for events are handed over: each was registered for one.
LEMMA TriggerTasks ==
  ASSUME SchedTypes, EventTypes, FibersFit, RegsFit, NEW d \in Fd, NEW es, es \subseteq Waiting(d),
         Trigger(d, es)
  PROVE  /\ \A f \in Fiber : In(tasks', Wakes(f)) <=> In(tasks, Wakes(f)) \/ \E e \in es : regs[d][e] = f
         /\ \A f \in Fiber : Once(tasks, Wakes(f)) => Once(tasks', Wakes(f))
         /\ ~In(tasks, Unfit) => ~In(tasks', Unfit)
<1>1. /\ Woken(d, es) \in Seq(Task) /\ tasks \in Seq(Task)
      /\ tasks' = tasks \o Woken(d, es)
  BY WokenType DEF Trigger, Schedule, SchedTypes
<1>2. es \subseteq Event /\ \A e \in es : regs[d][e] \in Fiber
  BY DEF Waiting, EventTypes
<1>3. \A f, g : FiberTask(g) \in Wakes(f) <=> g = f
  BY TasksDiffer DEF Wakes
<1>4. \A g : LimitFits(FiberTask(g))
  BY TasksDiffer DEF LimitFits
<1>5. ASSUME NEW S PROVE In(Woken(d, es), S) <=> \E e \in es : FiberTask(regs[d][e]) \in S
  BY WokenType
<1>6. ASSUME NEW f \in Fiber
      PROVE  /\ In(tasks', Wakes(f)) <=> In(tasks, Wakes(f)) \/ \E e \in es : regs[d][e] = f
             /\ Once(tasks, Wakes(f)) => Once(tasks', Wakes(f))
  <2>1. In(Woken(d, es), Wakes(f)) <=> \E e \in es : regs[d][e] = f
    BY <1>3, <1>5
  <2>2. In(tasks', Wakes(f)) <=> In(tasks, Wakes(f)) \/ In(Woken(d, es), Wakes(f))
    BY <1>1, ConcatFacts
  <2>3. Once(Woken(d, es), Wakes(f))
    <3>1. READ # WRITE /\ READ \in Event /\ WRITE \in Event
      BY DEF READ, WRITE, Event
    <3>2. ~(regs[d][READ] = f /\ regs[d][WRITE] = f)
      <4>1. f # NoFiber
        BY IOManagerAssumption
      <4> QED
        BY <3>1, <4>1 DEF RegsFit, Awaits
    <3> QED
      BY <1>3, <3>2, WokenType
  <2>4. ~(In(tasks, Wakes(f)) /\ In(Woken(d, es), Wakes(f)))
    <3>1. In(tasks, Wakes(f)) => InTasks(f)
      BY DEF In, InTasks
    <3>2. In(Woken(d, es), Wakes(f)) => InRegs(f)
      BY <1>2, <2>1 DEF InRegs
    <3>3. ~(InTasks(f) /\ InRegs(f))
      BY SpotFacts DEF Only
    <3> QED
      BY <3>1, <3>2, <3>3
  <2> QED
    BY <1>1, <2>1, <2>2, <2>3, <2>4, ConcatFacts
<1>7. In(Woken(d, es), Unfit) => FALSE
  BY <1>4, <1>5 DEF Unfit
<1>8. In(tasks', Unfit) <=> In(tasks, Unfit) \/ In(Woken(d, es), Unfit)
  BY <1>1, ConcatFacts
<1> QED
  BY <1>6, <1>7, <1>8

\* cancelEvent and cancelAll hand over who waits for one of the events es.
LEMMA CancelTasks ==
  ASSUME SchedTypes, EventTypes, FibersFit, RegsFit, NEW d \in Fd, NEW es, CancelEvent(d, es)
  PROVE  /\ \A f \in Fiber : In(tasks', Wakes(f))
                               <=> In(tasks, Wakes(f)) \/ \E e \in Waiting(d) \cap es : regs[d][e] = f
         /\ \A f \in Fiber : Once(tasks, Wakes(f)) => Once(tasks', Wakes(f))
         /\ ~In(tasks, Unfit) => ~In(tasks', Unfit)
<1> DEFINE es2 == Waiting(d) \cap es
<1>1. es2 \subseteq Waiting(d)
  OBVIOUS
<1>2. Trigger(d, es2) \/ (es2 = {} /\ UNCHANGED tasks)
  BY DEF CancelEvent
<1> HIDE DEF es2
<1>3. CASE Trigger(d, es2)
  <2>1. /\ \A f \in Fiber : In(tasks', Wakes(f)) <=> In(tasks, Wakes(f)) \/ \E e \in es2 : regs[d][e] = f
        /\ \A f \in Fiber : Once(tasks, Wakes(f)) => Once(tasks', Wakes(f))
        /\ ~In(tasks, Unfit) => ~In(tasks', Unfit)
    BY <1>1, <1>3, TriggerTasks
  <2> QED
    BY <2>1 DEF es2
<1>4. CASE es2 = {} /\ UNCHANGED tasks
  BY <1>4 DEF es2
<1> QED
  BY <1>2, <1>3, <1>4

\* The main thread hands over fibers that were not before.
LEMMA SubmitNew ==
  ASSUME FiberTypes, SchedTypes, MainFits, ProperUse, Does("scheduler"), NEW f \in Fiber, f = MainOp.fiber
  PROVE  state[f] = "NEW"
<1>1. mainAt \in DOMAIN MainScript /\ mainAt \in Int
  BY MainFacts DEF Does, FiberTypes
<1>2. ASSUME state[f] # "NEW" PROVE FALSE
  <2>1. PICK c \in Done("scheduler") : c.fiber = f
    BY <1>2 DEF MainFits
  <2>2. PICK k \in DOMAIN MainScript : k < mainAt /\ MainScript[k].op = "scheduler" /\ MainScript[k].fiber = f
    BY <2>1 DEF Done
  <2>3. k = mainAt
    BY <1>1, <2>2 DEF ProperUse, MainOp, Does
  <2> QED
    BY <1>1, <2>2, <2>3
<1> QED
  BY <1>2

\* The queue and what workers have taken from it.
LEMMA TasksStep ==
  ASSUME Types, WorkersFit, ArmedIsQueued, TimersFit, EventsFit, FibersFit, TasksFit, MainFits, ProperUse,
         NEW w, Worker = {w}, Next
  PROVE  TasksFit'
<1>1. w \in Worker
  OBVIOUS
<1>2. /\ TimersTypeOK /\ SchedTypes /\ EventTypes /\ IdleTypes /\ FiberTypes
      /\ RegsFit /\ WellOrdered(timers) /\ SleepersFit
  BY EventsParts, HeldView, Sleepers DEF Types
<1>3. tasks \in Seq(Task) /\ due[w] \in Seq(Task) /\ due \in [Worker -> Seq(Task)]
      /\ hand \in [Worker -> Task \cup {NoTask}]
  BY <1>2 DEF SchedTypes, IdleTypes
<1>4. QueuesFit(tasks, hand[w], due[w])
  BY <1>3, TasksView
<1>5. tasks' \in Seq(Task) /\ due'[w] \in Seq(Task)
  <2>1. SchedTypes' /\ IdleTypes'
    BY <1>2, SchedTypesStep, IdleTypesStep
  <2> QED
    BY <2>1 DEF SchedTypes, IdleTypes
<1>6. SUFFICES QueuesFit(tasks', hand'[w], due'[w])
  BY <1>5, TasksView
<1>7. ASSUME UNCHANGED <<tasks, hand, due>> PROVE QueuesFit(tasks', hand'[w], due'[w])
  BY <1>4, <1>7
<1>8. LimitFits(NoTask)
  BY TasksDiffer DEF LimitFits
<1>9. ASSUME HandBack(w), UNCHANGED <<tasks, due>> PROVE QueuesFit(tasks', hand'[w], due'[w])
  BY <1>1, <1>3, <1>4, <1>8, <1>9 DEF HandBack, QueuesFit
<1>10. CASE Scheduling(w) /\ UNCHANGED <<fiberVars, since, sock, mainAt>>
  <2>1. CASE TakeTask(w)
    <3>1. CASE UNCHANGED <<tasks, active, at, hand, pipe>>
      BY <1>7, <2>1, <3>1 DEF TakeTask, idleVars
    <3>2. CASE tasks' = Tail(tasks) /\ hand' = [hand EXCEPT ![w] = Head(tasks)]
      <4>1. tasks # <<>> /\ UNCHANGED due
        BY <2>1 DEF TakeTask, idleVars
      <4>2. \A S : /\ In(tasks, S) <=> Head(tasks) \in S \/ In(Tail(tasks), S)
                   /\ Once(tasks, S) => Once(Tail(tasks), S)
        BY <1>3, <4>1, TailFacts
      <4>3. Head(tasks) \in Task
        BY <1>3, <4>1, HeadTailProperties
      <4>4. LimitFits(Head(tasks))
        BY <1>4, <4>2, <4>3 DEF QueuesFit, Unfit
      <4>5. hand'[w] = Head(tasks)
        BY <1>1, <1>3, <3>2
      <4> QED
        BY <1>4, <3>2, <4>1, <4>2, <4>4, <4>5 DEF QueuesFit
    <3> QED
      BY <2>1, <3>1, <3>2 DEF TakeTask
  <2>2. CASE RunWake(w)
    <3>1. PICK f : f = hand[w].fiber
      OBVIOUS
    <3>2. /\ at[w] = "resume" /\ hand[w].kind = "wake" /\ Schedule(<<FiberTask(f)>>) /\ HandBack(w)
          /\ UNCHANGED due
      BY <2>2, <3>1 DEF RunWake, idleVars
    <3>3. f \in Fiber /\ hand[w] = WakeTask(f)
      BY <1>1, <1>2, <3>1, <3>2, HandFacts
    <3>4. FiberTask(f) \in Task /\ LimitFits(FiberTask(f))
      BY <3>3, TaskFacts, TasksDiffer DEF LimitFits
    <3>5. \A g : FiberTask(f) \in Wakes(g) <=> g = f
      BY TasksDiffer DEF Wakes
    <3>6. ~In(tasks, Wakes(f))
      <4>1. InHand(f)
        BY <3>2, <3>3, Spots DEF Wakes
      <4>2. Only(f, "hand")
        BY <1>2, <3>3, <4>1, SpotFacts
      <4> QED
        BY <4>2, Spots DEF Only
    <3>7. /\ \A g \in Fiber : Once(tasks', Wakes(g))
          /\ ~In(tasks', Unfit)
      BY <1>3, <1>4, <3>2, <3>4, <3>5, <3>6, ScheduleOne DEF QueuesFit
    <3>8. hand'[w] = NoTask
      BY <1>1, <1>3, <3>2 DEF HandBack
    <3> QED
      BY <1>4, <1>8, <3>2, <3>7, <3>8 DEF QueuesFit
  <2>3. CASE RunUser(w)
    BY <1>9, <2>3 DEF RunUser, idleVars
  <2>4. CASE Expire(w)
    <3>1. PICK n : n = Cardinality(Due)
      OBVIOUS
    <3>2. n \in 0 .. Len(timers) /\ Expired = [k \in 1 .. n |-> timers[k]] /\ Len(timers) \in Nat
          /\ DOMAIN timers = 1 .. Len(timers)
      BY <1>2, <3>1, ExpiredFacts, QueueFacts
    <3>3. PICK cbs : cbs = [k \in DOMAIN Expired |-> Expired[k].cb]
      OBVIOUS
    <3>4. cbs = [k \in 1 .. n |-> timers[k].cb] /\ \A k \in 1 .. n : k \in DOMAIN timers
      BY <3>2, <3>3
    <3>5. due'[w] = cbs /\ UNCHANGED <<tasks, hand>>
      BY <1>1, <1>3, <2>4, <3>3 DEF Expire
    <3>6. ASSUME NEW f \in Fiber PROVE Once(cbs, {WakeTask(f)})
      <4> SUFFICES ASSUME NEW j \in 1 .. n, NEW k \in 1 .. n,
                          timers[j].cb = WakeTask(f), timers[k].cb = WakeTask(f)
                   PROVE  j = k
        BY <3>4 DEF Once
      <4>1. timers[j] \in Held(timers) /\ timers[k] \in Held(timers)
        BY <3>4 DEF Held
      <4>2. timers[j].id = f /\ timers[k].id = f
        BY <1>2, <4>1 DEF SleepersFit
      <4> QED
        BY <1>2, <3>4, <4>2 DEF WellOrdered
    <3>7. ~In(cbs, Undue)
      <4> SUFFICES ASSUME NEW k \in 1 .. n PROVE LimitFits(timers[k].cb) /\ timers[k].cb.kind # "fiber"
        BY <3>4 DEF In, Undue
      <4>1. PICK t : t = timers[k]
        OBVIOUS
      <4>2. t \in Timer /\ t \in Held(timers) /\ TimerFits(t)
        BY <1>2, <3>4, <4>1, HeldView, QueueFacts DEF Held
      <4>3. CASE t.id \in UserTimer
        BY <4>1, <4>2, <4>3, TasksDiffer DEF TimerFits, LimitFits
      <4>4. CASE t.id \in Fiber
        <5>1. PICK f \in Fiber : f = t.id
          BY <4>4
        <5>2. /\ step[f] \in {"event", "yield", "woken"} /\ line[f] \in DOMAIN Script[f]
              /\ t.cb = CallbackOf(f)
          BY <4>2, <5>1 DEF TimerFits
        <5>3. Op(f).op \in {"sleep", "io", "connect"}
          BY <5>2 DEF FibersFit, StepFits
        <5>4. CASE Op(f).op = "sleep"
          BY <4>1, <5>2, <5>4, TasksDiffer DEF CallbackOf, LimitFits
        <5>5. CASE Op(f).op \in {"io", "connect"}
          <6>1. t.cb = TimeoutTask(f, line[f])
            BY <5>2, <5>5 DEF CallbackOf
          <6> QED
            BY <4>1, <5>5, <6>1 DEF LimitFits, TimeoutTask, Op
        <5> QED
          BY <5>3, <5>4, <5>5
      <4> QED
        BY <4>2, <4>3, <4>4, HookAssumption DEF Timer
    <3> QED
      BY <1>4, <3>5, <3>6, <3>7 DEF QueuesFit
  <2>5. CASE PushExpired(w)
    <3>1. CASE due[w] = <<>>
      BY <1>7, <2>5, <3>1 DEF PushExpired
    <3>2. CASE due[w] # <<>>
      <4>1. PICK t : t = Head(due[w])
        OBVIOUS
      <4>2. Schedule(<<t>>) /\ due' = [due EXCEPT ![w] = Tail(due[w])] /\ UNCHANGED hand
        BY <2>5, <3>2, <4>1 DEF PushExpired
      <4>3. due'[w] = Tail(due[w])
        BY <1>1, <1>3, <4>2
      <4>4. /\ t \in Task
            /\ \A S : /\ In(due[w], S) <=> t \in S \/ In(Tail(due[w]), S)
                      /\ Once(due[w], S) => Once(Tail(due[w]), S)
        BY <1>3, <3>2, <4>1, TailFacts
      <4>5. LimitFits(t) /\ t.kind # "fiber"
        BY <1>4, <4>4 DEF QueuesFit, Undue
      <4>6. ASSUME NEW f \in Fiber, t \in Wakes(f) PROVE ~In(tasks, Wakes(f))
        <5>1. t \in {WakeTask(f)}
          BY <4>5, <4>6, TasksDiffer DEF Wakes
        <5>2. InDue(f)
          BY <4>4, <5>1, Spots
        <5>3. Only(f, "due")
          BY <1>2, <5>2, SpotFacts
        <5> QED
          BY <5>3, Spots DEF Only
      <4>7. (\A f \in Fiber : Once(tasks', Wakes(f))) /\ ~In(tasks', Unfit)
        BY <1>3, <1>4, <4>2, <4>4, <4>5, <4>6, ScheduleOne DEF QueuesFit
      <4> QED
        BY <1>4, <4>2, <4>3, <4>4, <4>7 DEF QueuesFit
    <3> QED
      BY <3>1, <3>2
  <2>6. CASE \E d \in Fd : HandleEvent(w, d)
    <3>1. PICK d \in Fd : HandleEvent(w, d)
      BY <2>6
    <3> DEFINE real == (got[w][d] \ {HUP}) \cup (IF HUP \in got[w][d] THEN Waiting(d) ELSE {})
    <3>2. UNCHANGED <<hand, due>>
      BY <3>1 DEF HandleEvent
    <3>3. UNCHANGED tasks \/ (real \subseteq Waiting(d) /\ Trigger(d, real))
      BY <3>1 DEF HandleEvent
    <3> HIDE DEF real
    <3>4. CASE real \subseteq Waiting(d) /\ Trigger(d, real)
      <4>1. (\A f \in Fiber : Once(tasks', Wakes(f))) /\ ~In(tasks', Unfit)
        BY <1>2, <1>4, <3>4, TriggerTasks DEF QueuesFit
      <4> QED
        BY <1>4, <3>2, <4>1 DEF QueuesFit
    <3> QED
      BY <1>7, <3>2, <3>3, <3>4
  <2>7. CASE FindNothing(w) \/ ResumeFiber(w) \/ Rest(w) \/ Idle(w) \/ WaitOrStop(w)
    BY <1>7, <2>7 DEF FindNothing, ResumeFiber, Rest, Idle, WaitOrStop, idleVars
  <2>8. CASE EpollWait(w) \/ ReadPipe(w) \/ LeaveIdle(w)
    BY <1>7, <2>8 DEF EpollWait, ReadPipe, LeaveIdle, idleVars, schedVars
  <2> QED
    BY <1>10, <2>1, <2>2, <2>3, <2>4, <2>5, <2>6, <2>7, <2>8 DEF Scheduling
<1>11. CASE RunTimeout(w)
  <2>1. UNCHANGED <<tasks, due>> /\ (HandBack(w) \/ UNCHANGED hand)
    BY <1>11 DEF RunTimeout, idleVars
  <2> QED
    BY <1>7, <1>9, <2>1
<1>20. ASSUME NEW d \in Fd, NEW es, CancelEvent(d, es), UNCHANGED due, hand'[w] = hand[w] \/ hand'[w] = NoTask
       PROVE  QueuesFit(tasks', hand'[w], due'[w])
  <2>1. (\A f \in Fiber : Once(tasks', Wakes(f))) /\ ~In(tasks', Unfit)
    BY <1>2, <1>4, <1>20, CancelTasks DEF QueuesFit
  <2> QED
    BY <1>4, <1>8, <1>20, <2>1 DEF QueuesFit
<1>12. CASE CancelOfTimeout(w)
  <2> DEFINE call == Script[hand[w].fiber][hand[w].call]
  <2>1. call.fd \in Fd
    BY <1>1, <1>2, <1>12, HandFacts DEF CancelOfTimeout
  <2>2. CancelEvent(call.fd, {Awaited(call)}) /\ UNCHANGED due /\ HandBack(w)
    BY <1>12 DEF CancelOfTimeout, idleVars
  <2>3. hand'[w] = NoTask
    BY <1>1, <1>3, <2>2 DEF HandBack
  <2> HIDE DEF call
  <2> QED
    BY <1>20, <2>1, <2>2, <2>3
<1>13. CASE \E f \in Fiber : Running(w, f)
  <2>1. PICK f \in Fiber : Running(w, f)
    BY <1>13
  <2>2. CASE Close(w, f)
    <3>1. Calls(w, f, "close", "call") /\ CancelEvent(Op(f).fd, Event) /\ UNCHANGED <<due, hand>>
      BY <2>2 DEF Close, idleVars
    <3>2. Op(f).fd \in Fd
      BY <1>2, <3>1, CallsUse
    <3> QED
      BY <1>20, <3>1, <3>2
  <2>3. CASE YieldInCall(w, f) \/ EndFiber(w, f)
    BY <1>9, <2>3 DEF YieldInCall, EndFiber, Yield, idleVars
  <2>4. CASE Sleep(w, f) \/ WakeFromSleep(w, f) \/ BeginIo(w, f) \/ TryIo(w, f) \/ TryConnect(w, f) \/ LeaveKernel(w, f)
    BY <1>7, <2>4 DEF Sleep, WakeFromSleep, BeginIo, TryIo, TryConnect, LeaveKernel, ioVars, schedVars, idleVars
  <2>5. CASE AwaitEvent(w, f) \/ WakeFromEvent(w, f) \/ SetTimeLimit(w, f) \/ SetNonblock(w, f)
    BY <1>7, <2>5 DEF AwaitEvent, WakeFromEvent, SetTimeLimit, SetNonblock, ioVars, schedVars, idleVars
  <2> QED
    BY <2>1, <2>2, <2>3, <2>4, <2>5 DEF Running
<1>14. CASE Main
  <2>1. CASE Submit
    <3>1. PICK f : f = MainOp.fiber
      OBVIOUS
    <3>2. Schedule(<<FiberTask(f)>>) /\ UNCHANGED <<hand, due>> /\ Does("scheduler")
      BY <2>1, <3>1 DEF Submit, idleVars
    <3>3. f \in Fiber
      BY <1>2, <3>1, <3>2, MainFacts DEF Does, MainOp
    <3>4. state[f] = "NEW"
      BY <1>2, <3>1, <3>2, <3>3, SubmitNew
    <3>5. FiberTask(f) \in Task /\ LimitFits(FiberTask(f))
      BY <3>3, TaskFacts, TasksDiffer DEF LimitFits
    <3>6. \A g : FiberTask(f) \in Wakes(g) <=> g = f
      BY TasksDiffer DEF Wakes
    <3>7. ~In(tasks, Wakes(f))
      BY <1>2, <3>3, <3>4, SpotFacts, Spots DEF Only
    <3>8. (\A g \in Fiber : Once(tasks', Wakes(g))) /\ ~In(tasks', Unfit)
      BY <1>3, <1>4, <3>2, <3>5, <3>6, <3>7, ScheduleOne DEF QueuesFit
    <3> QED
      BY <1>4, <3>2, <3>8 DEF QueuesFit
  <2>2. CASE UseTimer \/ Stop \/ SetStopped \/ TickleAll \/ Join
    BY <1>7, <2>2 DEF UseTimer, Stop, SetStopped, TickleAll, Join, ioVars, schedVars, idleVars
  <2> QED
    BY <1>14, <2>1, <2>2 DEF Main
<1>15. CASE Tick
  BY <1>7, <1>15 DEF Tick, schedVars
<1>16. CASE \E d \in Fd, e \in Event \cup {HUP} : Arrive(d, e)
  BY <1>7, <1>16 DEF Arrive, schedVars, idleVars
<1> QED
  BY <1>10, <1>11, <1>12, <1>13, <1>14, <1>15, <1>16, NextCases

-----------------------------------------------------------------------------
\* No assertion fails.
LEMMA NoPanicStep ==
  ASSUME Types, NoPanic, ProperUse, WorkersFit, EventsFit, FibersFit, TasksFit, NEW w, Worker = {w}, Next
  PROVE  NoPanic'
<1>1. w \in Worker
  OBVIOUS
<1>2. /\ SchedTypes /\ EventTypes /\ IdleTypes /\ FiberTypes /\ RegsFit /\ GotFits
  BY EventsParts DEF Types
<1>3. UNCHANGED panicked => NoPanic'
  BY DEF NoPanic
<1>10. CASE Scheduling(w) /\ UNCHANGED <<fiberVars, since, sock, mainAt>>
  <2>1. CASE TakeTask(w)
    <3>1. tasks # <<>> /\ tasks \in Seq(Task)
      BY <1>2, <2>1 DEF TakeTask, SchedTypes
    <3>2. PICK t : t = Head(tasks)
      OBVIOUS
    <3>3. t \in Task /\ \A S : t \in S => In(tasks, S)
      BY <3>1, <3>2, TailFacts
    <3>4. ASSUME t.kind = "fiber" PROVE state[t.fiber] = "READY"
      <4>1. PICK f \in Fiber : f = t.fiber /\ t = FiberTask(f)
        BY <3>3, <3>4, TaskFacts
      <4>2. InTasks(f)
        BY <3>3, <4>1, Spots DEF Wakes
      <4> QED
        BY <1>2, <4>1, <4>2, SpotFacts
    <3>5. UNCHANGED panicked
      BY <2>1, <3>2, <3>4 DEF TakeTask
    <3> QED
      BY <1>3, <3>5
  <2>2. CASE ResumeFiber(w)
    <3>1. PICK f : f = hand[w].fiber
      OBVIOUS
    <3>2. at[w] = "resume" /\ hand[w].kind = "fiber"
      BY <2>2 DEF ResumeFiber
    <3>3. f \in Fiber /\ hand[w] = FiberTask(f)
      BY <1>1, <1>2, <3>1, <3>2, HandFacts
    <3>4. InHand(f)
      BY <3>2, <3>3, Spots DEF Wakes
    <3>5. state[f] = "READY"
      BY <1>2, <3>3, <3>4, SpotFacts
    <3>6. UNCHANGED panicked
      BY <2>2, <3>1, <3>5 DEF ResumeFiber
    <3> QED
      BY <1>3, <3>6
  <2>3. CASE \E d \in Fd : HandleEvent(w, d)
    <3>1. PICK d \in Fd : HandleEvent(w, d)
      BY <2>3
    <3>2. (got[w][d] \ {HUP}) \cup (IF HUP \in got[w][d] THEN Waiting(d) ELSE {}) \subseteq Waiting(d)
      BY <1>1, <1>2 DEF GotFits
    <3>3. UNCHANGED panicked
      BY <3>1, <3>2 DEF HandleEvent
    <3> QED
      BY <1>3, <3>3
  <2>4. CASE FindNothing(w) \/ RunWake(w) \/ RunUser(w) \/ Rest(w) \/ Idle(w) \/ WaitOrStop(w)
    BY <1>3, <2>4 DEF FindNothing, RunWake, RunUser, Rest, Idle, WaitOrStop
  <2>5. CASE EpollWait(w) \/ Expire(w) \/ PushExpired(w) \/ ReadPipe(w) \/ LeaveIdle(w)
    BY <1>3, <2>5 DEF EpollWait, Expire, PushExpired, ReadPipe, LeaveIdle
  <2> QED
    BY <1>10, <2>1, <2>2, <2>3, <2>4, <2>5 DEF Scheduling
<1>11. CASE RunTimeout(w) \/ CancelOfTimeout(w)
  BY <1>3, <1>11 DEF RunTimeout, CancelOfTimeout
<1>13. CASE \E f \in Fiber : Running(w, f)
  <2>1. PICK f \in Fiber : Running(w, f)
    BY <1>13
  <2>2. CASE AwaitEvent(w, f)
    <3>1. PICK kind \in {"io", "connect"} : Calls(w, f, kind, "event")
      BY <2>2 DEF AwaitEvent
    <3>2. PICK d, e : d = Op(f).fd /\ e = WaitsFor(f)
      OBVIOUS
    <3>3. /\ d \in Fd /\ e \in Event /\ line[f] \in DOMAIN Script[f] /\ Op(f).op \in {"io", "connect"}
      BY <1>2, <3>1, <3>2, CallsUse
    <3>4. ASSUME regs[d][e] # NoFiber PROVE FALSE
      <4>1. PICK g : g = regs[d][e]
        OBVIOUS
      <4>2. g \in Fiber /\ Awaits(g, d, e)
        BY <1>2, <3>3, <3>4, <4>1 DEF RegsFit, EventTypes
      <4>3. Op(g) \in Waits(g) /\ Op(f) \in Waits(f)
        BY <3>3, <4>2 DEF Awaits, Waits, Op
      <4>4. Op(g).fd = Op(f).fd /\ Awaited(Op(g)) = Awaited(Op(f))
        BY <3>2, <4>2 DEF Awaits, WaitsFor
      <4>5. g = f
        BY <4>2, <4>3, <4>4 DEF ProperUse
      <4>6. InRegs(f)
        BY <3>3, <4>1, <4>5 DEF InRegs
      <4>7. Only(f, "nowhere")
        BY <1>1, <3>1, RunningFacts
      <4> QED
        BY <4>6, <4>7 DEF Only
    <3>5. AddEvent(d, e, f)
      BY <2>2, <3>2 DEF AwaitEvent
    <3> QED
      BY <1>3, <3>4, <3>5 DEF AddEvent
  <2>3. CASE Sleep(w, f) \/ WakeFromSleep(w, f) \/ BeginIo(w, f) \/ TryIo(w, f) \/ TryConnect(w, f) \/ LeaveKernel(w, f)
    BY <1>3, <2>3 DEF Sleep, WakeFromSleep, BeginIo, TryIo, TryConnect, LeaveKernel, ioVars
  <2>4. CASE YieldInCall(w, f) \/ WakeFromEvent(w, f) \/ Close(w, f) \/ SetTimeLimit(w, f) \/ SetNonblock(w, f) \/ EndFiber(w, f)
    BY <1>3, <2>4 DEF YieldInCall, WakeFromEvent, Close, SetTimeLimit, SetNonblock, EndFiber, Yield, ioVars
  <2> QED
    BY <2>1, <2>2, <2>3, <2>4 DEF Running
<1>14. CASE Main
  BY <1>3, <1>14 DEF Main, Submit, UseTimer, Stop, SetStopped, TickleAll, Join, ioVars
<1>15. CASE Tick
  BY <1>3, <1>15 DEF Tick
<1>16. CASE \E d \in Fd, e \in Event \cup {HUP} : Arrive(d, e)
  BY <1>3, <1>16 DEF Arrive
<1> QED
  BY <1>10, <1>11, <1>13, <1>14, <1>15, <1>16, NextCases

-----------------------------------------------------------------------------
\* What the main thread has not done yet nobody else has.
LEMMA MainStep ==
  ASSUME Types, MainFits, FibersFit, NEW w, Worker = {w}, Next
  PROVE  MainFits'
<1>1. w \in Worker
  OBVIOUS
<1>2. FiberTypes /\ TimersTypeOK /\ SchedTypes /\ state \in [Fiber -> {"NEW", "READY", "RUNNING", "TERM"}]
  BY DEF Types, SchedTypes
<1>3. mainAt \in Int
  BY <1>2 DEF FiberTypes
<1>4. ASSUME mainAt' = mainAt \/ mainAt' = mainAt + 1
      PROVE  \A what : \A c \in Done(what) : c \in Done(what)'
  <2>1. \A k \in DOMAIN MainScript : k < mainAt => k < mainAt'
    <3>1. \A k \in DOMAIN MainScript : k \in Int
      BY HookAssumption, LenProperties
    <3> QED
      BY <1>3, <1>4, <3>1
  <2> QED
    BY <2>1 DEF Done
<1>5. ASSUME mainAt' = mainAt + 1, NEW what, Does(what), MainOp.op = what
      PROVE  MainOp \in Done(what)'
  <2>1. mainAt \in DOMAIN MainScript
    BY <1>2, <1>5, MainFacts DEF Does
  <2> QED
    BY <1>3, <1>5, <2>1 DEF Done, MainOp
<1>6. ASSUME mainAt' = mainAt \/ mainAt' = mainAt + 1,
             \A f \in Fiber : state'[f] # "NEW" => state[f] # "NEW",
             \A id \in UserTimer : id \in armed' => id \in armed
      PROVE  MainFits'
  BY <1>4, <1>6 DEF MainFits
<1>7. \A f, ms, cb, to : f \in Fiber /\ (SetTimer(f, ms, cb) \/ SetLimit(f, to)) =>
         \A id \in UserTimer : id \in armed' => id \in armed
  BY HookAssumption DEF SetTimer, SetLimit, AddTimer, timerVars
<1>10. CASE Scheduling(w) /\ UNCHANGED <<fiberVars, since, sock, mainAt>>
  <2>1. CASE ResumeFiber(w)
    <3>1. UNCHANGED armed /\ \/ UNCHANGED state
                             \/ /\ state[hand[w].fiber] = "READY"
                                /\ state' = [state EXCEPT ![hand[w].fiber] = "RUNNING"]
      BY <2>1 DEF ResumeFiber, timerVars
    <3> QED
      BY <1>2, <1>6, <1>10, <3>1
  <2>2. CASE Expire(w)
    BY <1>6, <1>10, <2>2 DEF Expire, ListExpired
  <2>3. CASE \E d \in Fd : HandleEvent(w, d)
    BY <1>6, <1>10, <2>3 DEF HandleEvent, timerVars
  <2>4. CASE TakeTask(w) \/ FindNothing(w) \/ RunWake(w) \/ RunUser(w) \/ Rest(w) \/ Idle(w)
    BY <1>6, <1>10, <2>4 DEF TakeTask, FindNothing, RunWake, RunUser, Rest, Idle, GetNextTimer, timerVars
  <2>5. CASE WaitOrStop(w) \/ EpollWait(w) \/ PushExpired(w) \/ ReadPipe(w) \/ LeaveIdle(w)
    BY <1>6, <1>10, <2>5 DEF WaitOrStop, EpollWait, PushExpired, ReadPipe, LeaveIdle, schedVars, timerVars
  <2> QED
    BY <1>10, <2>1, <2>2, <2>3, <2>4, <2>5 DEF Scheduling
<1>11. CASE RunTimeout(w) \/ CancelOfTimeout(w)
  BY <1>6, <1>11 DEF RunTimeout, CancelOfTimeout, timerVars
<1>13. CASE \E f \in Fiber : Running(w, f)
  <2>1. PICK f \in Fiber : Running(w, f)
    BY <1>13
  <2>2. CASE Sleep(w, f) \/ TryIo(w, f) \/ TryConnect(w, f) \/ LeaveKernel(w, f)
    <3>1. UNCHANGED <<state, mainAt>>
      BY <2>2 DEF Sleep, TryIo, TryConnect, LeaveKernel, schedVars
    <3>2. UNCHANGED armed \/ \E ms, cb, to : SetTimer(f, ms, cb) \/ SetLimit(f, to)
      BY <2>2 DEF Sleep, TryIo, TryConnect, LeaveKernel, timerVars
    <3> QED
      BY <1>6, <1>7, <3>1, <3>2
  <2>3. CASE YieldInCall(w, f) \/ EndFiber(w, f)
    <3>1. Runs(f)
      BY <1>1, <2>3 DEF YieldInCall, EndFiber, Calls, Runs
    <3>2. state[f] # "NEW"
      BY <3>1 DEF FibersFit
    <3>3. UNCHANGED <<armed, mainAt>> /\ \E how : state' = [state EXCEPT ![f] = how]
      BY <2>3 DEF YieldInCall, EndFiber, Yield, timerVars
    <3> QED
      BY <1>2, <1>6, <3>2, <3>3
  <2>4. CASE WakeFromEvent(w, f)
    BY <1>6, <2>4 DEF WakeFromEvent, Cancel, ioVars, schedVars
  <2>5. CASE WakeFromSleep(w, f) \/ BeginIo(w, f) \/ AwaitEvent(w, f) \/ Close(w, f) \/ SetTimeLimit(w, f) \/ SetNonblock(w, f)
    BY <1>6, <2>5 DEF WakeFromSleep, BeginIo, AwaitEvent, Close, SetTimeLimit, SetNonblock, ioVars, schedVars, timerVars
  <2> QED
    BY <2>1, <2>2, <2>3, <2>4, <2>5 DEF Running
<1>14. CASE Main
  <2>1. CASE Submit
    <3>1. Does("scheduler") /\ MainOp.op = "scheduler" /\ mainAt' = mainAt + 1 /\ UNCHANGED armed
          /\ state' = [state EXCEPT ![MainOp.fiber] = "READY"]
      BY <2>1 DEF Submit, Does, MainOp, NextLine, timerVars
    <3>2. MainOp \in Done("scheduler")'
      BY <1>5, <3>1
    <3>3. \A f \in Fiber : state'[f] # "NEW" => state[f] # "NEW" \/ f = MainOp.fiber
      BY <1>2, <3>1
    <3> QED
      BY <1>4, <3>1, <3>2, <3>3 DEF MainFits
  <2>2. CASE UseTimer
    <3>1. UNCHANGED state /\ mainAt' = mainAt + 1
      BY <2>2 DEF UseTimer, NextLine, schedVars
    <3>2. CASE Does("addTimer") /\ \E front \in BOOLEAN :
                 AddTimer(MainOp.timer, MainOp.ms, MainOp.recurring, UserTask, front)
      <4>1. MainOp.op = "addTimer" /\ armed' = armed \cup {MainOp.timer}
        BY <3>2 DEF Does, MainOp, AddTimer
      <4>2. MainOp \in Done("addTimer")'
        BY <1>5, <3>1, <3>2, <4>1
      <4> QED
        BY <1>4, <3>1, <4>1, <4>2 DEF MainFits
    <3>3. CASE UNCHANGED armed \/ armed' = armed \ {MainOp.timer}
      BY <1>6, <3>1, <3>3
    <3> QED
      BY <2>2, <3>2, <3>3 DEF UseTimer, Refresh, Reset, Cancel, timerVars
  <2>3. CASE Stop \/ SetStopped \/ TickleAll \/ Join
    BY <1>6, <2>3 DEF Stop, SetStopped, TickleAll, Join, GetNextTimer, NextLine, ioVars, schedVars, timerVars
  <2> QED
    BY <1>14, <2>1, <2>2, <2>3 DEF Main
<1>15. CASE Tick
  BY <1>6, <1>15 DEF Tick, schedVars
<1>16. CASE \E d \in Fd, e \in Event \cup {HUP} : Arrive(d, e)
  BY <1>6, <1>16 DEF Arrive, schedVars, timerVars
<1> QED
  BY <1>10, <1>11, <1>13, <1>14, <1>15, <1>16, NextCases

-----------------------------------------------------------------------------
\* Fibers: where what will resume a fiber is after a step.

FiberFits(f) == /\ state[f] = "RUNNING" <=> Runs(f)
                /\ StepFits(f)
                /\ \E p \in Allowed(f) : Only(f, p)

\* FibersFit fiber by fiber.
LEMMA FibersView == (FibersFit <=> \A f \in Fiber : FiberFits(f))
                    /\ (FibersFit' <=> \A f \in Fiber : FiberFits(f)')
BY DEF FibersFit, FiberFits

\* Nothing changes for f.
LEMMA FiberStays ==
  ASSUME FibersFit, NEW f \in Fiber,
         state'[f] = state[f], step'[f] = step[f], line'[f] = line[f],
         Runs(f)' <=> Runs(f), InTasks(f)' <=> InTasks(f), InTimers(f)' <=> InTimers(f),
         InRegs(f)' <=> InRegs(f), InHand(f)' <=> InHand(f), InDue(f)' <=> InDue(f)
  PROVE  FiberFits(f)'
<1>1. FiberFits(f)
  BY FibersView
<1>2. Op(f)' = Op(f) /\ Allowed(f)' = Allowed(f)
  BY DEF Op, Allowed
<1>3. StepFits(f)'
  BY <1>1, <1>2 DEF FiberFits, StepFits
<1>4. \A p : Only(f, p) => Only(f, p)'
  BY DEF Only
<1> QED
  BY <1>1, <1>2, <1>3, <1>4 DEF FiberFits

\* The task that will resume a fiber which has yielded goes on its way.
LEMMA FiberMoves ==
  ASSUME FibersFit, NEW f \in Fiber, state[f] = "READY",
         state'[f] = state[f], step'[f] = step[f], line'[f] = line[f], ~Runs(f)',
         NEW q, q \in {"tasks", "hand"} \/ (q = "due" /\ step[f] # "call" /\ Op(f).op = "sleep"),
         Only(f, q)'
  PROVE  FiberFits(f)'
<1>1. FiberFits(f)
  BY FibersView
<1>2. Op(f)' = Op(f)
  BY DEF Op
<1>3. StepFits(f)'
  BY <1>1, <1>2 DEF FiberFits, StepFits
<1>4. q \in Allowed(f)'
  BY <1>2 DEF Allowed
<1> QED
  BY <1>3, <1>4 DEF FiberFits

\* A step that leaves f alone.
LEMMA Untouched ==
  ASSUME FibersFit, SleepersFit, SleepersFit', NEW w, Worker = {w}, NEW f \in Fiber,
         state'[f] = state[f], step'[f] = step[f], line'[f] = line[f],
         f \in armed' <=> f \in armed,
         In(tasks', Wakes(f)) <=> In(tasks, Wakes(f)),
         InRegs(f)' <=> InRegs(f),
         In(due'[w], {WakeTask(f)}) <=> In(due[w], {WakeTask(f)}),
         \/ UNCHANGED <<at, hand>>
         \/ hand[w] \notin Wakes(f) /\ hand'[w] \notin Wakes(f)
  PROVE  FiberFits(f)'
<1>1. InTimers(f)' <=> InTimers(f)
  BY DEF SleepersFit, Op
<1>2. FiberTask(f) \in Wakes(f)
  BY DEF Wakes
<1>3. (Runs(f)' <=> Runs(f)) /\ (InHand(f)' <=> InHand(f))
  BY <1>2, Spots
<1>4. (InTasks(f)' <=> InTasks(f)) /\ (InDue(f)' <=> InDue(f))
  BY Spots
<1> QED
  BY <1>1, <1>3, <1>4, FiberStays

\* Whether the task in hand will resume f.
LEMMA Hands ==
  ASSUME SchedTypes, WorkersFit, TasksFit, NEW w \in Worker, NEW f
  PROVE  /\ hand[w] \in Wakes(f) <=> hand[w].kind \in {"fiber", "wake"} /\ hand[w].fiber = f
         /\ NoTask \notin Wakes(f) /\ UserTask \notin Wakes(f)
         /\ at[w] \notin {"resume", "fiber", "cancel"} => hand[w] = NoTask
         /\ FiberTask(f) \in Wakes(f) /\ WakeTask(f) \in Wakes(f)
<1>1. hand[w] \in Wakes(f) <=> hand[w].kind \in {"fiber", "wake"} /\ hand[w].fiber = f
  BY HandFacts, TasksDiffer DEF Wakes
<1> QED
  BY <1>1, TasksDiffer DEF Wakes, WorkersFit

\* A running fiber goes on to another call.
LEMMA Returns ==
  ASSUME FiberTypes, FibersFit, SleepersFit', NEW w, Worker = {w}, NEW f \in Fiber, NEW kind, NEW place,
         Calls(w, f, kind, place), place # "yield", NEW value, Return(f, value),
         UNCHANGED <<state, at, hand, due>>, f \notin armed', InRegs(f)' => InRegs(f),
         In(tasks', Wakes(f)) <=> In(tasks, Wakes(f))
  PROVE  FiberFits(f)'
<1>1. state[f] = "RUNNING" /\ Only(f, "nowhere") /\ Runs(f)
  BY RunningFacts DEF Runs, Calls
<1>2. step'[f] = "call"
  BY OneMoves
<1>3. /\ InTasks(f)' <=> InTasks(f)
      /\ InHand(f)' <=> InHand(f)
      /\ InDue(f)' <=> InDue(f)
      /\ Runs(f)' <=> Runs(f)
  BY Spots
<1>4. ~InTimers(f)'
  BY DEF SleepersFit
<1>5. Only(f, "nowhere")'
  BY <1>1, <1>3, <1>4 DEF Only
<1>6. StepFits(f)'
  BY <1>1, <1>2 DEF StepFits
<1>7. "nowhere" \in Allowed(f)'
  BY <1>1, <1>2 DEF Allowed
<1> QED
  BY <1>1, <1>3, <1>5, <1>6, <1>7 DEF FiberFits

\* A running fiber goes on in its call.
LEMMA Proceeds ==
  ASSUME FiberTypes, FibersFit, NEW w, Worker = {w}, NEW f \in Fiber, NEW kind, NEW place,
         Calls(w, f, kind, place), NEW next, Proceed(f, next), UNCHANGED <<line, state, at, hand>>,
         next = "try" => kind = "io", next \in {"kernel", "event"} => kind \in {"io", "connect"},
         next = "yield" => kind \in {"sleep", "io", "connect"}, next \in {"try", "kernel", "event", "yield"},
         NEW q, Only(f, q)',
         q = IF next # "yield" THEN "nowhere" ELSE IF kind = "sleep" THEN "timers" ELSE "regs"
  PROVE  FiberFits(f)'
<1>1. state[f] = "RUNNING" /\ Op(f).op = kind /\ Runs(f) /\ line[f] \in DOMAIN Script[f]
  BY RunningFacts, CallsUse DEF Runs, Calls
<1>2. step'[f] = next /\ Op(f)' = Op(f)
  BY OneMoves DEF Op
<1>3. Runs(f)' <=> Runs(f)
  BY Spots
<1>6. StepFits(f)'
  BY <1>1, <1>2 DEF StepFits
<1>7. q \in Allowed(f)'
  BY <1>1, <1>2 DEF Allowed
<1> QED
  BY <1>1, <1>3, <1>6, <1>7 DEF FiberFits

\* Those who wait for an event are handed over.
LEMMA TriggerFibers ==
  ASSUME SchedTypes, EventTypes, FibersFit, RegsFit, SleepersFit, SleepersFit', NEW w, Worker = {w},
         NEW d \in Fd, NEW es, es \subseteq Waiting(d), Trigger(d, es),
         NEW f \in Fiber, ~Runs(f), UNCHANGED <<state, due, armed>>, step'[f] = step[f], line'[f] = line[f],
         UNCHANGED <<at, hand>> \/ (hand[w] \notin Wakes(f) /\ hand'[w] \notin Wakes(f))
  PROVE  FiberFits(f)'
<1>1. InTasks(f)' <=> InTasks(f) \/ \E e \in es : regs[d][e] = f
  <2>1. In(tasks', Wakes(f)) <=> In(tasks, Wakes(f)) \/ \E e \in es : regs[d][e] = f
    BY TriggerTasks, Zenon
  <2> QED
    BY <2>1, Spots
<1>2. \A c \in Fd, e \in Event : regs'[c][e] = IF c = d /\ e \in es THEN NoFiber ELSE regs[c][e]
  BY DEF Trigger, EventTypes
<1>3. f # NoFiber /\ es \subseteq Event
  BY IOManagerAssumption DEF Waiting
<1>4. CASE \E e \in es : regs[d][e] = f
  <2>1. InRegs(f)
    BY <1>3, <1>4 DEF InRegs
  <2>2. Only(f, "regs") /\ state[f] = "READY"
    <3>1. state[f] # "RUNNING"
      BY FibersView DEF FiberFits
    <3> QED
      BY <2>1, <3>1, SpotFacts
  <2>3. ~InRegs(f)'
    BY <1>2, <1>3, <1>4 DEF InRegs, RegsFit, Awaits
  <2>4. ~InHand(f)' /\ ~Runs(f)' /\ ~InDue(f)'
    BY <2>2, Spots DEF Only, Wakes
  <2>5. ~InTimers(f)'
    BY <2>2 DEF SleepersFit, Op, Only
  <2>6. Only(f, "tasks")'
    BY <1>1, <1>4, <2>3, <2>4, <2>5 DEF Only
  <2> QED
    BY <2>2, <2>4, <2>6, FiberMoves
<1>5. CASE ~\E e \in es : regs[d][e] = f
  <2>1. InRegs(f)' <=> InRegs(f)
    BY <1>2, <1>3, <1>5 DEF InRegs
  <2>2. In(tasks', Wakes(f)) <=> In(tasks, Wakes(f))
    BY <1>1, <1>5, Spots
  <2> QED
    BY <2>1, <2>2, Untouched
<1> QED
  BY <1>4, <1>5

\* The same if the events are cancelled.
LEMMA CancelFibers ==
  ASSUME SchedTypes, EventTypes, FibersFit, RegsFit, SleepersFit, SleepersFit', NEW w, Worker = {w},
         NEW d \in Fd, NEW es, CancelEvent(d, es),
         NEW f \in Fiber, ~Runs(f), UNCHANGED <<state, due, armed>>, step'[f] = step[f], line'[f] = line[f],
         UNCHANGED <<at, hand>> \/ (hand[w] \notin Wakes(f) /\ hand'[w] \notin Wakes(f))
  PROVE  FiberFits(f)'
<1>1. CASE Waiting(d) \cap es # {}
  <2>1. PICK es2 : es2 = Waiting(d) \cap es
    OBVIOUS
  <2>2. es2 \subseteq Waiting(d) /\ Trigger(d, es2)
    BY <1>1, <2>1 DEF CancelEvent
  <2> QED
    BY <2>2, TriggerFibers
<1>2. CASE Waiting(d) \cap es = {}
  <2>1. UNCHANGED <<tasks, regs>>
    BY <1>2 DEF CancelEvent
  <2>2. InRegs(f)' <=> InRegs(f)
    BY <2>1 DEF InRegs
  <2> QED
    BY <2>1, <2>2, Untouched
<1> QED
  BY <1>1, <1>2

\* All that the invariant says, part by part.
LEMMA InvParts ==
  ASSUME Types, FibersAgree
  PROVE  /\ TimersTypeOK /\ SchedTypes /\ EventTypes /\ IdleTypes /\ FiberTypes
         /\ NoPanic /\ ArmedIsQueued /\ WorkersFit /\ TimersFit /\ EventsFit /\ PendingFits
         /\ FibersFit /\ TasksFit /\ MainFits
         /\ RegsFit /\ EdgesFit /\ GotFits /\ WellOrdered(timers) /\ SleepersFit
<1>1. RegsFit /\ EdgesFit /\ GotFits
  BY EventsParts DEF FibersAgree
<1>2. WellOrdered(timers) /\ SleepersFit
  BY HeldView, Sleepers DEF FibersAgree, Types
<1> QED
  BY <1>1, <1>2 DEF FibersAgree, Types

\* A timer that is due goes from timers_ to the callbacks of idle().
LEMMA ExpireFibers ==
  ASSUME Types, FibersAgree, SleepersFit', NEW w, Worker = {w}, Expire(w), UNCHANGED fiberVars,
         NEW g \in Fiber
  PROVE  FiberFits(g)'
<1>1. /\ TimersTypeOK /\ SchedTypes /\ IdleTypes /\ WorkersFit /\ TasksFit /\ TimersFit /\ ArmedIsQueued
      /\ FibersFit /\ SleepersFit /\ WellOrdered(timers) /\ w \in Worker
  BY InvParts
<1>2. /\ at[w] = "expire" /\ at'[w] = "push" /\ UNCHANGED <<tasks, state, hand, regs, line, step>>
      /\ ListExpired
      /\ due' = [due EXCEPT ![w] = [k \in DOMAIN Expired |-> Expired[k].cb]]
  BY <1>1 DEF Expire, Goto, SchedTypes, eventVars, fiberVars
<1>3. hand[w] = NoTask /\ due[w] = <<>> /\ NoTask \notin Wakes(g)
  <2>1. hand[w] = NoTask /\ NoTask \notin Wakes(g)
    BY <1>1, <1>2, Hands
  <2> QED
    BY <1>1, <1>2, <2>1 DEF WorkersFit
<1>4. PICK n : n = Cardinality(Due)
  OBVIOUS
<1>5. n \in 0 .. Len(timers) /\ Expired = [k \in 1 .. n |-> timers[k]] /\ Len(timers) \in Nat
      /\ DOMAIN timers = 1 .. Len(timers) /\ Due = 1 .. n
  BY <1>1, <1>4, ExpiredFacts, QueueFacts
<1>6. due'[w] = [k \in 1 .. n |-> timers[k].cb]
  BY <1>1, <1>2, <1>5 DEF IdleTypes
<1>7. In(due'[w], {WakeTask(g)}) <=> \E t \in Held(timers) : t.left = 0 /\ t.cb = WakeTask(g)
  <2>1. In(due'[w], {WakeTask(g)}) <=> \E k \in Due : timers[k].cb = WakeTask(g)
    BY <1>5, <1>6 DEF In
  <2> QED
    BY <2>1 DEF Due, Held
<1>8. armed' = armed \ {t.id : t \in {t \in Held(timers) : t.left = 0 /\ ~t.recurring}}
  BY <1>1, <1>2, ListExpiredFacts
<1>9. \A t \in Held(timers) : t.id = g => ~t.recurring
  BY <1>1, HeldView DEF TimerFits
<1>10. g \in armed' <=> g \in armed /\ ~\E t \in Held(timers) : t.left = 0 /\ t.id = g
  BY <1>8, <1>9
<1>11. \A t \in Held(timers) : t.cb = WakeTask(g) <=> t.id = g /\ Op(g).op = "sleep"
  BY <1>1 DEF SleepersFit
<1>12. InTimers(g) <=> g \in armed /\ Op(g).op = "sleep"
  BY <1>1 DEF SleepersFit
<1>13. InTimers(g)' <=> g \in armed' /\ Op(g).op = "sleep"
  <2>1. Op(g)' = Op(g)
    BY <1>2 DEF Op
  <2> QED
    BY <2>1 DEF SleepersFit
<1>14. /\ InTasks(g)' <=> InTasks(g)
       /\ InRegs(g)' <=> InRegs(g)
       /\ ~InHand(g) /\ ~InHand(g)' /\ ~Runs(g) /\ ~Runs(g)'
  <2>1. InRegs(g)' <=> InRegs(g)
    BY <1>2 DEF InRegs
  <2>2. hand'[w] = NoTask
    BY <1>2, <1>3
  <2> QED
    BY <1>2, <1>3, <2>1, <2>2, Spots
<1>15. CASE \E t \in Held(timers) : t.left = 0 /\ t.cb = WakeTask(g)
  <2>1. InTimers(g)
    BY <1>15 DEF InTimers, Held
  <2>2. state[g] = "READY" /\ Only(g, "timers") /\ Op(g).op = "sleep"
    <3>1. state[g] # "RUNNING"
      BY <1>1, <1>14 DEF FibersFit
    <3> QED
      BY <1>1, <1>12, <2>1, <3>1, SpotFacts
  <2>3. step[g] # "call"
    BY <1>1, <2>2 DEF FibersFit, Allowed, Only
  <2>4. g \notin armed'
    BY <1>10, <1>11, <1>15
  <2>5. InDue(g)'
    BY <1>7, <1>15, Spots
  <2>6. Only(g, "due")'
    BY <1>13, <1>14, <2>2, <2>4, <2>5 DEF Only
  <2> QED
    BY <1>1, <1>2, <1>14, <2>2, <2>3, <2>6, FiberMoves
<1>16. CASE ~\E t \in Held(timers) : t.left = 0 /\ t.cb = WakeTask(g)
  <2>1. ~InDue(g)'
    BY <1>7, <1>16, Spots
  <2>2. ~InDue(g)
    <3>1. ~In(<<>>, {WakeTask(g)})
      BY SingleFacts
    <3> QED
      BY <1>3, <3>1, Spots
  <2>3. InTimers(g)' <=> InTimers(g)
    BY <1>10, <1>11, <1>12, <1>13, <1>16
  <2> QED
    BY <1>1, <1>2, <1>14, <2>1, <2>2, <2>3, FiberStays
<1> QED
  BY <1>15, <1>16

\* What a worker does but for the code of fibers.
LEMMA SchedulingFibers ==
  ASSUME Types, FibersAgree, NoPanic', SleepersFit', NEW w, Worker = {w}, Scheduling(w), UNCHANGED fiberVars,
         NEW g \in Fiber
  PROVE  FiberFits(g)'
<1>1. /\ TimersTypeOK /\ SchedTypes /\ IdleTypes /\ EventTypes /\ WorkersFit /\ TasksFit /\ FibersFit
      /\ SleepersFit /\ RegsFit /\ NoPanic /\ w \in Worker
  BY InvParts
<1>2. tasks \in Seq(Task) /\ due \in [Worker -> Seq(Task)] /\ due[w] \in Seq(Task)
      /\ at \in [Worker -> Places] /\ hand \in [Worker -> Task \cup {NoTask}]
      /\ state \in [Fiber -> {"NEW", "READY", "RUNNING", "TERM"}]
  BY <1>1 DEF SchedTypes, IdleTypes
<1>3. UNCHANGED <<line, step>>
  BY DEF fiberVars
<1>4. /\ hand[w] \in Wakes(g) <=> hand[w].kind \in {"fiber", "wake"} /\ hand[w].fiber = g
      /\ NoTask \notin Wakes(g) /\ UserTask \notin Wakes(g)
      /\ at[w] \notin {"resume", "fiber", "cancel"} => hand[w] = NoTask
      /\ FiberTask(g) \in Wakes(g) /\ WakeTask(g) \in Wakes(g)
  BY <1>1, Hands
<1>5. FiberFits(g)
  BY <1>1, FibersView
<1>6. ASSUME UNCHANGED <<tasks, state, regs, due, armed>>,
             UNCHANGED <<at, hand>> \/ (hand[w] \notin Wakes(g) /\ hand'[w] \notin Wakes(g))
      PROVE  FiberFits(g)'
  <2>1. InRegs(g)' <=> InRegs(g)
    BY <1>6 DEF InRegs
  <2> QED
    BY <1>1, <1>3, <1>6, <2>1, Untouched
<1>7. HandBack(w) => hand'[w] = NoTask /\ at'[w] = "look"
  BY <1>1, <1>2 DEF HandBack, Goto
<1>8. QueuesFit(tasks, hand[w], due[w])
  BY <1>1, <1>2, TasksView
<1>11. CASE TakeTask(w)
  <2>1. PICK t : t = Head(tasks)
    OBVIOUS
  <2>2. at[w] = "look" /\ tasks # <<>> /\ UNCHANGED <<state, regs, due, armed>>
    BY <1>11 DEF TakeTask, eventVars, idleVars, timerVars
  <2>3. CASE UNCHANGED <<tasks, active, at, hand, pipe>>
    BY <1>6, <2>2, <2>3
  <2>4. CASE tasks' = Tail(tasks) /\ hand' = [hand EXCEPT ![w] = t] /\ Goto(w, "resume")
    <3>1. hand'[w] = t /\ at'[w] = "resume"
      BY <1>1, <1>2, <2>4 DEF Goto
    <3>2. t \in Task /\ \A S : /\ In(tasks, S) <=> t \in S \/ In(tasks', S)
                               /\ Once(tasks, S) => ~(t \in S /\ In(tasks', S))
      BY <1>2, <2>1, <2>2, <2>4, TailFacts
    <3>3. CASE t \in Wakes(g)
      <4>1. In(tasks, Wakes(g)) /\ ~In(tasks', Wakes(g))
        BY <1>8, <3>2, <3>3 DEF QueuesFit
      <4>2. InTasks(g)
        BY <4>1, Spots
      <4>3. state[g] = "READY" /\ Only(g, "tasks")
        BY <1>1, <4>2, SpotFacts
      <4>4. ~InTasks(g)' /\ InHand(g)' /\ ~Runs(g)'
        BY <3>1, <3>3, <4>1, Spots
      <4>5. InRegs(g)' <=> InRegs(g)
        BY <2>2 DEF InRegs
      <4>6. InTimers(g)' <=> InTimers(g)
        BY <1>1, <1>3, <2>2 DEF SleepersFit, Op
      <4>7. InDue(g)' <=> InDue(g)
        BY <2>2, Spots
      <4>8. Only(g, "hand")'
        BY <4>3, <4>4, <4>5, <4>6, <4>7 DEF Only
      <4> QED
        BY <1>1, <1>3, <2>2, <4>3, <4>4, <4>8, FiberMoves
    <3>4. CASE t \notin Wakes(g)
      <4>1. In(tasks', Wakes(g)) <=> In(tasks, Wakes(g))
        BY <3>2, <3>4
      <4>2. hand[w] \notin Wakes(g) /\ hand'[w] \notin Wakes(g)
        BY <1>4, <2>2, <3>1, <3>4
      <4>3. InRegs(g)' <=> InRegs(g)
        BY <2>2 DEF InRegs
      <4> QED
        BY <1>1, <1>3, <2>2, <4>1, <4>2, <4>3, Untouched
    <3> QED
      BY <3>3, <3>4
  <2> QED
    BY <1>11, <2>1, <2>3, <2>4 DEF TakeTask
<1>12. CASE ResumeFiber(w)
  <2>1. PICK f : f = hand[w].fiber
    OBVIOUS
  <2>2. at[w] = "resume" /\ hand[w].kind = "fiber" /\ UNCHANGED <<tasks, hand, regs, due, armed>>
    BY <1>12 DEF ResumeFiber, eventVars, idleVars, timerVars
  <2>3. f \in Fiber /\ hand[w] = FiberTask(f)
    BY <1>1, <2>1, <2>2, HandFacts
  <2>4. state' = [state EXCEPT ![f] = "RUNNING"] /\ Goto(w, "fiber")
    BY <1>12, <2>1 DEF ResumeFiber, NoPanic
  <2>5. InRegs(g)' <=> InRegs(g)
    BY <2>2 DEF InRegs
  <2>6. CASE g # f
    <3>1. hand[w] \notin Wakes(g) /\ hand'[w] \notin Wakes(g) /\ state'[g] = state[g]
      BY <1>2, <1>4, <2>1, <2>2, <2>4, <2>6
    <3> QED
      BY <1>1, <1>3, <2>2, <2>5, <3>1, Untouched
  <2>7. CASE g = f
    <3>1. InHand(g)
      BY <1>4, <2>2, <2>3, <2>7, Spots
    <3>2. state[g] = "READY" /\ Only(g, "hand")
      BY <1>1, <3>1, SpotFacts
    <3>3. at'[w] = "fiber" /\ hand'[w] = FiberTask(g) /\ state'[g] = "RUNNING"
      BY <1>1, <1>2, <2>2, <2>3, <2>4, <2>7 DEF Goto
    <3>4. Runs(g)' /\ ~InHand(g)' /\ (InTasks(g)' <=> InTasks(g)) /\ (InDue(g)' <=> InDue(g))
      BY <2>2, <3>3, Spots
    <3>5. InTimers(g)' <=> InTimers(g)
      BY <1>1, <1>3, <2>2 DEF SleepersFit, Op
    <3>6. Only(g, "nowhere")'
      BY <2>5, <3>2, <3>4, <3>5 DEF Only
    <3>7. step'[g] # "yield" /\ StepFits(g)'
      BY <1>3, <1>5, <3>2, <3>3 DEF FiberFits, StepFits, Op
    <3>8. "nowhere" \in Allowed(g)'
      BY <3>3, <3>7 DEF Allowed
    <3> QED
      BY <3>3, <3>4, <3>6, <3>7, <3>8 DEF FiberFits
  <2> QED
    BY <2>6, <2>7
<1>13. CASE RunWake(w)
  <2>1. PICK f : f = hand[w].fiber
    OBVIOUS
  <2>2. /\ at[w] = "resume" /\ hand[w].kind = "wake" /\ Schedule(<<FiberTask(f)>>) /\ HandBack(w)
        /\ UNCHANGED <<state, regs, due, armed>>
    BY <1>13, <2>1 DEF RunWake, eventVars, idleVars, timerVars
  <2>3. f \in Fiber /\ hand[w] = WakeTask(f)
    BY <1>1, <2>1, <2>2, HandFacts
  <2>4. FiberTask(f) \in Task /\ (FiberTask(f) \in Wakes(g) <=> g = f)
    BY <2>3, TaskFacts, TasksDiffer DEF Wakes
  <2>5. In(tasks', Wakes(g)) <=> In(tasks, Wakes(g)) \/ g = f
    BY <1>2, <2>2, <2>4, ScheduleOne
  <2>6. InRegs(g)' <=> InRegs(g)
    BY <2>2 DEF InRegs
  <2>7. CASE g # f
    <3>1. hand[w] \notin Wakes(g) /\ hand'[w] \notin Wakes(g)
      BY <1>4, <1>7, <2>1, <2>2, <2>7
    <3> QED
      BY <1>1, <1>3, <2>2, <2>5, <2>6, <2>7, <3>1, Untouched
  <2>8. CASE g = f
    <3>1. InHand(g)
      BY <1>4, <2>2, <2>3, <2>8, Spots
    <3>2. state[g] = "READY" /\ Only(g, "hand")
      BY <1>1, <3>1, SpotFacts
    <3>3. InTasks(g)' /\ ~InHand(g)' /\ ~Runs(g)' /\ (InDue(g)' <=> InDue(g))
      BY <1>4, <1>7, <2>2, <2>5, <2>8, Spots
    <3>4. InTimers(g)' <=> InTimers(g)
      BY <1>1, <1>3, <2>2 DEF SleepersFit, Op
    <3>5. Only(g, "tasks")'
      BY <2>6, <3>2, <3>3, <3>4 DEF Only
    <3> QED
      BY <1>1, <1>3, <2>2, <3>2, <3>3, <3>5, FiberMoves
  <2> QED
    BY <2>7, <2>8
<1>14. CASE RunUser(w)
  <2>1. hand[w] \notin Wakes(g) /\ hand'[w] \notin Wakes(g)
    BY <1>4, <1>7, <1>14 DEF RunUser
  <2> QED
    BY <1>6, <1>14, <2>1 DEF RunUser, eventVars, idleVars, timerVars
<1>15. CASE Expire(w)
  BY <1>15, ExpireFibers
<1>16. CASE PushExpired(w)
  <2>1. at[w] = "push" /\ UNCHANGED <<state, hand, regs, armed>>
    BY <1>16 DEF PushExpired, eventVars, timerVars
  <2>2. hand[w] \notin Wakes(g) /\ hand'[w] \notin Wakes(g)
    BY <1>4, <2>1
  <2>3. CASE due[w] = <<>>
    <3>1. UNCHANGED <<tasks, due>>
      BY <1>16, <2>3 DEF PushExpired
    <3> QED
      BY <1>6, <2>1, <2>2, <3>1
  <2>4. CASE due[w] # <<>>
    <3>1. PICK t : t = Head(due[w])
      OBVIOUS
    <3>2. Schedule(<<t>>) /\ due' = [due EXCEPT ![w] = Tail(due[w])] /\ UNCHANGED at
      BY <1>16, <2>4, <3>1 DEF PushExpired
    <3>3. due'[w] = Tail(due[w])
      BY <1>1, <1>2, <3>2
    <3>4. t \in Task /\ \A S : /\ In(due[w], S) <=> t \in S \/ In(due'[w], S)
                               /\ Once(due[w], S) => ~(t \in S /\ In(due'[w], S))
      BY <1>2, <2>4, <3>1, <3>3, TailFacts
    <3>5. t.kind # "fiber"
      BY <1>8, <3>4 DEF QueuesFit, Undue
    <3>6. In(tasks', Wakes(g)) <=> In(tasks, Wakes(g)) \/ t \in Wakes(g)
      BY <1>2, <3>2, <3>4, ScheduleOne
    <3>7. t \in Wakes(g) <=> t \in {WakeTask(g)}
      BY <3>5, TasksDiffer DEF Wakes
    <3>8. InRegs(g)' <=> InRegs(g)
      BY <2>1 DEF InRegs
    <3>9. CASE t \in Wakes(g)
      <4>1. In(due[w], {WakeTask(g)}) /\ ~In(due'[w], {WakeTask(g)})
        BY <1>8, <3>4, <3>7, <3>9 DEF QueuesFit
      <4>2. InDue(g)
        BY <4>1, Spots
      <4>3. state[g] = "READY" /\ Only(g, "due")
        BY <1>1, <4>2, SpotFacts
      <4>4. InTasks(g)' /\ ~InDue(g)' /\ ~Runs(g)' /\ (InHand(g)' <=> InHand(g))
        BY <2>1, <3>2, <3>6, <3>9, <4>1, Spots DEF Wakes
      <4>5. InTimers(g)' <=> InTimers(g)
        BY <1>1, <1>3, <2>1 DEF SleepersFit, Op
      <4>6. Only(g, "tasks")'
        BY <3>8, <4>3, <4>4, <4>5 DEF Only
      <4> QED
        BY <1>1, <1>3, <2>1, <4>3, <4>4, <4>6, FiberMoves
    <3>10. CASE t \notin Wakes(g)
      <4>1. In(due'[w], {WakeTask(g)}) <=> In(due[w], {WakeTask(g)})
        BY <3>4, <3>7, <3>10
      <4>2. In(tasks', Wakes(g)) <=> In(tasks, Wakes(g))
        BY <3>6, <3>10
      <4> QED
        BY <1>1, <1>3, <2>1, <2>2, <3>8, <4>1, <4>2, Untouched
    <3> QED
      BY <3>9, <3>10
  <2> QED
    BY <2>3, <2>4
<1>17. CASE \E d \in Fd : HandleEvent(w, d)
  <2>1. PICK d \in Fd : HandleEvent(w, d)
    BY <1>17
  <2> DEFINE real == (got[w][d] \ {HUP}) \cup (IF HUP \in got[w][d] THEN Waiting(d) ELSE {})
  <2>2. at[w] = "events" /\ UNCHANGED <<state, at, hand, armed, due>>
    BY <2>1 DEF HandleEvent, timerVars
  <2>3. UNCHANGED <<tasks, regs>> \/ (real \subseteq Waiting(d) /\ Trigger(d, real))
    BY <2>1 DEF HandleEvent
  <2> HIDE DEF real
  <2>4. ~Runs(g)
    BY <2>2, Spots
  <2>5. CASE real \subseteq Waiting(d) /\ Trigger(d, real)
    BY <1>1, <1>3, <2>2, <2>4, <2>5, TriggerFibers
  <2> QED
    BY <1>6, <2>2, <2>3, <2>5
<1>18. CASE FindNothing(w) \/ Rest(w) \/ Idle(w) \/ WaitOrStop(w)
  <2>1. hand[w] \notin Wakes(g) /\ hand' = hand
    BY <1>4, <1>18 DEF FindNothing, Rest, Idle, WaitOrStop
  <2>2. UNCHANGED <<tasks, state, regs, due, armed>>
    BY <1>18 DEF FindNothing, Rest, Idle, WaitOrStop, GetNextTimer, timerVars, eventVars, idleVars
  <2> QED
    BY <1>6, <2>1, <2>2
<1>19. CASE EpollWait(w) \/ ReadPipe(w) \/ LeaveIdle(w)
  <2>1. hand[w] \notin Wakes(g) /\ hand' = hand
    BY <1>4, <1>19 DEF EpollWait, ReadPipe, LeaveIdle, schedVars
  <2>2. UNCHANGED <<tasks, state, regs, due, armed>>
    BY <1>19 DEF EpollWait, ReadPipe, LeaveIdle, schedVars, timerVars, eventVars, idleVars
  <2> QED
    BY <1>6, <2>1, <2>2
<1> QED
  BY <1>11, <1>12, <1>13, <1>14, <1>15, <1>16, <1>17, <1>18, <1>19 DEF Scheduling

\* What a fiber does, for the fiber itself and for the others.
LEMMA RunningFibers ==
  ASSUME Types, FibersAgree, NoPanic', SleepersFit', NEW w, Worker = {w}, NEW f \in Fiber, Running(w, f),
         NEW g \in Fiber
  PROVE  FiberFits(g)'
<1>1. /\ TimersTypeOK /\ SchedTypes /\ EventTypes /\ FiberTypes /\ WorkersFit /\ TasksFit /\ FibersFit
      /\ SleepersFit /\ RegsFit /\ NoPanic /\ w \in Worker /\ ArmedIsQueued /\ TimersFit
  BY InvParts
<1>2. /\ at \in [Worker -> Places] /\ hand \in [Worker -> Task \cup {NoTask}]
      /\ state \in [Fiber -> {"NEW", "READY", "RUNNING", "TERM"}]
      /\ f \in TimerId /\ f # NoFiber /\ g # NoFiber
  BY <1>1, HookAssumption, IOManagerAssumption DEF SchedTypes
<1>3. at[w] = "fiber" /\ hand[w] = FiberTask(f)
  BY DEF Running, Sleep, WakeFromSleep, BeginIo, TryIo, TryConnect, LeaveKernel, AwaitEvent, YieldInCall,
         WakeFromEvent, Close, SetTimeLimit, SetNonblock, EndFiber, Calls
<1>4. /\ \A h : FiberTask(f) \in Wakes(h) <=> h = f
      /\ NoTask \notin Wakes(g)
  BY TasksDiffer DEF Wakes
<1>5. FiberFits(f) /\ FiberFits(g)
  BY <1>1, FibersView
\* Another fiber.
<1>6. ASSUME g # f, UNCHANGED <<tasks, regs, due>>, state'[g] = state[g], step'[g] = step[g],
             line'[g] = line[g], g \in armed' <=> g \in armed, hand'[w] \in {hand[w], NoTask}
      PROVE  FiberFits(g)'
  <2>1. InRegs(g)' <=> InRegs(g)
    BY <1>6 DEF InRegs
  <2>2. hand[w] \notin Wakes(g) /\ hand'[w] \notin Wakes(g)
    BY <1>3, <1>4, <1>6
  <2> QED
    BY <1>1, <1>6, <2>1, <2>2, Untouched
\* The fiber at the beginning of a call, or at the end of a sleep, has no timer.
<1>7. ASSUME NEW kind, NEW place, Calls(w, f, kind, place),
             place \in {"call", "try", "kernel"} \/ (place = "woken" /\ kind = "sleep")
      PROVE  f \notin armed
  <2>1. \A t \in Held(timers) : t.id # f
    BY <1>1, <1>7, NoTimer
  <2> QED
    BY <1>1, <1>2, <2>1, HeldView DEF ArmedIsQueued
<1>8. \A value : Return(f, value) /\ g # f => step'[g] = step[g] /\ line'[g] = line[g]
  BY <1>1, OneMoves
<1>9. \A place : Proceed(f, place) /\ g # f => step'[g] = step[g]
  BY <1>1, OneMoves
\* The fiber comes to the end of its call.
<1>10. ASSUME NEW kind, NEW place, Calls(w, f, kind, place), place # "yield", NEW value, Return(f, value),
              UNCHANGED <<state, at, hand, due, tasks, regs>>, f \notin armed',
              g # f => (g \in armed' <=> g \in armed)
       PROVE  FiberFits(g)'
  <2>1. CASE g = f
    <3>1. InRegs(f)' => InRegs(f)
      BY <1>10 DEF InRegs
    <3>2. In(tasks', Wakes(f)) <=> In(tasks, Wakes(f))
      BY <1>10
    <3>3. FiberFits(f)'
      BY <1>1, <1>10, <3>1, <3>2, Returns
    <3> QED
      BY <2>1, <3>3
  <2> QED
    BY <1>6, <1>8, <1>10, <2>1
\* The fiber goes on in its call, and nothing is to resume it yet.
<1>11. ASSUME NEW kind, NEW place, Calls(w, f, kind, place), place # "yield", NEW next, Proceed(f, next),
              next = "try" => kind = "io", next \in {"kernel", "event"} => kind \in {"io", "connect"},
              next \in {"try", "kernel", "event"}, kind # "sleep",
              UNCHANGED <<line, state, at, hand, due, tasks, regs>>,
              g # f => (g \in armed' <=> g \in armed)
       PROVE  FiberFits(g)'
  <2>1. CASE g = f
    <3>1. Only(f, "nowhere") /\ Op(f).op = kind
      BY <1>1, <1>11, RunningFacts
    <3>2. ~InTimers(f)'
      BY <1>11, <3>1 DEF SleepersFit, Op
    <3>3. InRegs(f)' <=> InRegs(f)
      BY <1>11 DEF InRegs
    <3>4. (InTasks(f)' <=> InTasks(f)) /\ (InHand(f)' <=> InHand(f)) /\ (InDue(f)' <=> InDue(f))
      BY <1>11, Spots
    <3>5. Only(f, "nowhere")'
      BY <3>1, <3>2, <3>3, <3>4 DEF Only
    <3>6. FiberFits(f)'
      BY <1>1, <1>11, <3>5, Proceeds
    <3> QED
      BY <2>1, <3>6
  <2> QED
    BY <1>6, <1>9, <1>11, <2>1
\* The fiber yields, or ends.
<1>12. ASSUME NEW how, Yield(w, f, how)
       PROVE  /\ hand'[w] = NoTask /\ at'[w] = "look" /\ state'[f] = how
              /\ g # f => state'[g] = state[g]
              /\ UNCHANGED <<tasks, regs, due, armed>>
  BY <1>1, <1>2, <1>12 DEF Yield, HandBack, Goto, eventVars, idleVars, timerVars
<1>13. ASSUME NEW how, Yield(w, f, how), UNCHANGED line, NEW p, Only(f, p)
       PROVE  /\ Only(f, p)'
              /\ ~Runs(f)'
  <2>1. hand'[w] = NoTask /\ UNCHANGED <<tasks, regs, due, armed>> /\ at'[w] = "look"
    BY <1>12, <1>13
  <2>2. InRegs(f)' <=> InRegs(f)
    BY <2>1 DEF InRegs
  <2>3. InTimers(f)' <=> InTimers(f)
    BY <1>1, <1>13, <2>1 DEF SleepersFit, Op
  <2>4. NoTask \notin Wakes(f) /\ FiberTask(f) \in Wakes(f)
    BY TasksDiffer DEF Wakes
  <2>5. ~InHand(f) /\ ~InHand(f)' /\ (InTasks(f)' <=> InTasks(f)) /\ (InDue(f)' <=> InDue(f)) /\ ~Runs(f)'
    BY <1>3, <2>1, <2>4, Spots
  <2> QED
    BY <1>13, <2>2, <2>3, <2>5 DEF Only
<1>20. CASE Sleep(w, f)
  <2>1. /\ Calls(w, f, "sleep", "call") /\ SetTimer(f, Millis(Op(f).time), WakeTask(f)) /\ Proceed(f, "yield")
        /\ UNCHANGED <<tasks, state, at, hand, regs, due, line>>
    BY <1>20 DEF Sleep, schedVars, eventVars, idleVars
  <2>2. armed' = armed \cup {f}
    BY <2>1 DEF SetTimer, AddTimer
  <2>3. CASE g = f
    <3>1. Only(f, "nowhere") /\ Op(f).op = "sleep"
      BY <1>1, <2>1, RunningFacts
    <3>2. InTimers(f)'
      BY <2>1, <2>2, <3>1 DEF SleepersFit, Op
    <3>3. InRegs(f)' <=> InRegs(f)
      BY <2>1 DEF InRegs
    <3>4. (InTasks(f)' <=> InTasks(f)) /\ (InHand(f)' <=> InHand(f)) /\ (InDue(f)' <=> InDue(f))
      BY <2>1, Spots
    <3>5. Only(f, "timers")'
      BY <3>1, <3>2, <3>3, <3>4 DEF Only
    <3>6. FiberFits(f)'
      BY <1>1, <2>1, <3>5, Proceeds
    <3> QED
      BY <2>3, <3>6
  <2> QED
    BY <1>6, <1>9, <2>1, <2>2, <2>3
<1>21. CASE WakeFromSleep(w, f)
  <2>1. Calls(w, f, "sleep", "woken") /\ Return(f, "ok")
        /\ UNCHANGED <<tasks, state, at, hand, regs, due, armed>>
    BY <1>21 DEF WakeFromSleep, ioVars, schedVars, eventVars, idleVars, timerVars
  <2>2. f \notin armed
    BY <1>7, <2>1
  <2> QED
    BY <1>10, <2>1, <2>2
<1>22. CASE BeginIo(w, f)
  <2>1. /\ Calls(w, f, "io", "call") /\ UNCHANGED <<tasks, state, at, hand, regs, due, armed>>
        /\ (\E value : Return(f, value)) \/ (Proceed(f, "try") /\ UNCHANGED line)
    BY <1>22 DEF BeginIo, schedVars, idleVars, timerVars
  <2>2. f \notin armed
    BY <1>7, <2>1
  <2>3. CASE \E value : Return(f, value)
    BY <1>10, <2>1, <2>2, <2>3
  <2>4. CASE Proceed(f, "try") /\ UNCHANGED line
    BY <1>11, <2>1, <2>4
  <2> QED
    BY <2>1, <2>3, <2>4
<1>23. CASE TryIo(w, f) \/ TryConnect(w, f) \/ LeaveKernel(w, f)
  <2>1. PICK kind \in {"io", "connect"}, place \in {"call", "try", "kernel"} : Calls(w, f, kind, place)
    BY <1>23 DEF TryIo, TryConnect, LeaveKernel
  <2>2. /\ UNCHANGED <<tasks, state, at, hand, regs, due>>
        /\ \/ (\E value : Return(f, value)) /\ UNCHANGED armed
           \/ Proceed(f, "event") /\ UNCHANGED line /\ \E to : SetLimit(f, to)
           \/ Proceed(f, "kernel") /\ UNCHANGED <<line, armed>>
    BY <1>23 DEF TryIo, TryConnect, LeaveKernel, schedVars, idleVars, eventVars, timerVars
  <2>3. f \notin armed
    BY <1>7, <2>1
  <2>4. CASE (\E value : Return(f, value)) /\ UNCHANGED armed
    BY <1>10, <2>1, <2>2, <2>3, <2>4
  <2>5. CASE Proceed(f, "event") /\ UNCHANGED line /\ \E to : SetLimit(f, to)
    <3>1. g # f => (g \in armed' <=> g \in armed)
      BY <2>5 DEF SetLimit, SetTimer, AddTimer, timerVars
    <3> QED
      BY <1>11, <2>1, <2>2, <2>5, <3>1
  <2>6. CASE Proceed(f, "kernel") /\ UNCHANGED <<line, armed>>
    BY <1>11, <2>1, <2>2, <2>6
  <2> QED
    BY <2>2, <2>4, <2>5, <2>6
<1>24. CASE AwaitEvent(w, f)
  <2>1. PICK kind \in {"io", "connect"} : Calls(w, f, kind, "event")
    BY <1>24 DEF AwaitEvent
  <2>2. PICK d, e : d = Op(f).fd /\ e = WaitsFor(f)
    OBVIOUS
  <2>3. d \in Fd /\ e \in Event
    BY <1>1, <2>1, <2>2, CallsUse
  <2>4. AddEvent(d, e, f) /\ Proceed(f, "yield") /\ UNCHANGED <<tasks, state, at, hand, due, line, armed>>
    BY <1>24, <2>2 DEF AwaitEvent, schedVars, idleVars, timerVars
  <2>5. regs[d][e] = NoFiber /\ regs' = [regs EXCEPT ![d][e] = f]
    BY <2>4 DEF AddEvent, NoPanic
  <2>6. \A c \in Fd, k \in Event : regs'[c][k] = IF c = d /\ k = e THEN f ELSE regs[c][k]
    BY <1>1, <2>3, <2>5 DEF EventTypes
  <2>7. CASE g = f
    <3>1. Only(f, "nowhere") /\ Op(f).op = kind
      BY <1>1, <2>1, RunningFacts
    <3>2. ~InTimers(f)'
      BY <2>1, <2>4, <3>1 DEF SleepersFit, Op
    <3>3. InRegs(f)'
      BY <2>3, <2>6 DEF InRegs
    <3>4. (InTasks(f)' <=> InTasks(f)) /\ (InHand(f)' <=> InHand(f)) /\ (InDue(f)' <=> InDue(f))
      BY <2>4, Spots
    <3>5. Only(f, "regs")'
      BY <3>1, <3>2, <3>3, <3>4 DEF Only
    <3>6. FiberFits(f)'
      BY <1>1, <2>1, <2>4, <3>5, Proceeds
    <3> QED
      BY <2>7, <3>6
  <2>8. CASE g # f
    <3>1. InRegs(g)' <=> InRegs(g)
      BY <1>2, <2>3, <2>5, <2>6, <2>8 DEF InRegs
    <3>2. step'[g] = step[g]
      BY <1>9, <2>4, <2>8
    <3> QED
      BY <1>1, <2>4, <3>1, <3>2, Untouched
  <2> QED
    BY <2>7, <2>8
<1>25. CASE YieldInCall(w, f)
  <2>1. PICK kind \in {"sleep", "io", "connect"} : Calls(w, f, kind, "yield")
    BY <1>25 DEF YieldInCall
  <2>2. Yield(w, f, "READY") /\ Proceed(f, "woken") /\ UNCHANGED line
    BY <1>25 DEF YieldInCall
  <2>3. CASE g = f
    <3>1. PICK q : q = IF kind = "sleep" THEN "timers" ELSE "regs"
      OBVIOUS
    <3>2. Only(f, q) /\ Op(f).op = kind
      BY <1>1, <2>1, <3>1, RunningFacts
    <3>3. Only(f, q)' /\ ~Runs(f)'
      BY <1>13, <2>2, <3>2
    <3>4. state'[f] = "READY" /\ step'[f] = "woken" /\ Op(f)' = Op(f)
      BY <1>1, <1>12, <2>2, OneMoves DEF Op
    <3>5. line[f] \in DOMAIN Script[f]
      BY <1>1, <2>1, CallsUse
    <3>6. StepFits(f)'
      BY <2>2, <3>2, <3>4, <3>5 DEF StepFits
    <3>7. q \in Allowed(f)'
      BY <3>1, <3>2, <3>4 DEF Allowed
    <3>8. FiberFits(f)'
      BY <3>3, <3>4, <3>6, <3>7 DEF FiberFits
    <3> QED
      BY <2>3, <3>8
  <2> QED
    BY <1>6, <1>9, <1>12, <2>2, <2>3
<1>26. CASE WakeFromEvent(w, f)
  <2>1. PICK kind \in {"io", "connect"} : Calls(w, f, kind, "woken")
    BY <1>26 DEF WakeFromEvent
  <2>2. Cancel(f) /\ UNCHANGED <<tasks, state, at, hand, regs, due>>
    BY <1>26 DEF WakeFromEvent, ioVars, schedVars, eventVars, idleVars
  <2>3. f \notin armed' /\ (g # f => (g \in armed' <=> g \in armed))
    BY <2>2 DEF Cancel
  <2>4. (\E value : Return(f, value)) \/ (Proceed(f, "try") /\ UNCHANGED line /\ Op(f).op = "io")
    BY <1>26 DEF WakeFromEvent
  <2>5. CASE \E value : Return(f, value)
    BY <1>10, <2>1, <2>2, <2>3, <2>5
  <2>6. CASE Proceed(f, "try") /\ UNCHANGED line /\ Op(f).op = "io"
    <3>1. kind = "io"
      BY <2>1, <2>6 DEF Calls
    <3> QED
      BY <1>11, <2>1, <2>2, <2>3, <2>6, <3>1
  <2> QED
    BY <2>4, <2>5, <2>6
<1>27. CASE Close(w, f)
  <2>1. PICK d : d = Op(f).fd
    OBVIOUS
  <2>2. /\ Calls(w, f, "close", "call") /\ CancelEvent(d, Event) /\ Return(f, "ok")
        /\ UNCHANGED <<state, at, hand, due, armed>>
    BY <1>27, <2>1 DEF Close, idleVars, timerVars
  <2>3. d \in Fd
    BY <1>1, <2>1, <2>2, CallsUse
  <2>4. CASE g = f
    <3>1. Only(f, "nowhere")
      BY <1>1, <2>2, RunningFacts
    <3>2. ~InRegs(f)
      BY <3>1 DEF Only
    <3>3. In(tasks', Wakes(f)) <=> In(tasks, Wakes(f)) \/ \E e \in Waiting(d) \cap Event : regs[d][e] = f
      BY <1>1, <2>2, <2>3, CancelTasks
    <3>4. In(tasks', Wakes(f)) <=> In(tasks, Wakes(f))
      BY <2>3, <3>2, <3>3 DEF InRegs
    <3>5. \A c \in Fd, e \in Event : regs'[c][e] \in {NoFiber, regs[c][e]}
      BY <1>1, <2>2, <2>3 DEF CancelEvent, Trigger, EventTypes
    <3>6. InRegs(f)' => InRegs(f)
      BY <1>2, <3>5 DEF InRegs
    <3>7. f \notin armed
      BY <1>7, <2>2
    <3>8. FiberFits(f)'
      BY <1>1, <2>2, <3>4, <3>6, <3>7, Returns
    <3> QED
      BY <2>4, <3>8
  <2>5. CASE g # f
    <3>1. ~Runs(g)
      <4>1. FiberTask(g) # FiberTask(f)
        BY <1>4, <2>5 DEF Wakes
      <4> QED
        BY <1>3, <4>1, Spots
    <3>2. step'[g] = step[g] /\ line'[g] = line[g]
      BY <1>8, <2>2, <2>5
    <3> QED
      BY <1>1, <2>2, <2>3, <3>1, <3>2, CancelFibers
  <2> QED
    BY <2>4, <2>5
<1>28. CASE SetTimeLimit(w, f) \/ SetNonblock(w, f)
  <2>1. /\ \E kind : Calls(w, f, kind, "call")
        /\ \E value : Return(f, value)
        /\ UNCHANGED <<tasks, state, at, hand, regs, due, armed>>
    BY <1>28 DEF SetTimeLimit, SetNonblock, ioVars, schedVars, eventVars, idleVars, timerVars
  <2>2. f \notin armed
    BY <1>7, <2>1
  <2> QED
    BY <1>10, <2>1, <2>2
<1>29. CASE EndFiber(w, f)
  <2>1. line[f] > Len(Script[f]) /\ Yield(w, f, "TERM") /\ UNCHANGED <<line, step>>
    BY <1>29 DEF EndFiber, fiberVars
  <2>2. CASE g = f
    <3>1. step[f] = "call"
      <4>1. line[f] \notin DOMAIN Script[f]
        BY <2>1, ScriptFacts
      <4> QED
        BY <1>5, <4>1 DEF FiberFits, StepFits
    <3>2. state[f] = "RUNNING"
      BY <1>3, <1>5, Spots DEF FiberFits
    <3>3. Only(f, "nowhere")
      BY <1>5, <3>1, <3>2 DEF FiberFits, Allowed
    <3>4. Only(f, "nowhere")' /\ ~Runs(f)'
      BY <1>13, <2>1, <3>3
    <3>5. state'[f] = "TERM" /\ step'[f] = "call"
      BY <1>12, <2>1, <3>1
    <3>6. StepFits(f)' /\ "nowhere" \in Allowed(f)'
      BY <3>5 DEF StepFits, Allowed
    <3>7. FiberFits(f)'
      BY <3>4, <3>5, <3>6 DEF FiberFits
    <3> QED
      BY <2>2, <3>7
  <2> QED
    BY <1>6, <1>12, <2>1, <2>2
<1> QED
  BY <1>20, <1>21, <1>22, <1>23, <1>24, <1>25, <1>26, <1>27, <1>28, <1>29 DEF Running

\* The main thread, time and the kernel.
LEMMA OutsideFibers ==
  ASSUME Types, FibersAgree, ProperUse, SleepersFit', NEW w, Worker = {w}, NEW g \in Fiber,
         Main \/ Tick \/ \E d \in Fd, e \in Event \cup {HUP} : Arrive(d, e)
  PROVE  FiberFits(g)'
<1>1. /\ TimersTypeOK /\ SchedTypes /\ FiberTypes /\ FibersFit /\ SleepersFit /\ MainFits
  BY InvParts
<1>2. tasks \in Seq(Task) /\ state \in [Fiber -> {"NEW", "READY", "RUNNING", "TERM"}]
  BY <1>1 DEF SchedTypes
<1>3. ASSUME UNCHANGED <<tasks, state, at, hand, regs, due, line, step>>, g \in armed' <=> g \in armed
      PROVE  FiberFits(g)'
  <2>1. InRegs(g)' <=> InRegs(g)
    BY <1>3 DEF InRegs
  <2> QED
    BY <1>1, <1>3, <2>1, Untouched
<1>4. CASE Submit
  <2>1. PICK f : f = MainOp.fiber
    OBVIOUS
  <2>2. /\ Does("scheduler") /\ state' = [state EXCEPT ![f] = "READY"] /\ Schedule(<<FiberTask(f)>>)
        /\ UNCHANGED <<at, hand, regs, due, line, step, armed>>
    BY <1>4, <2>1 DEF Submit, eventVars, idleVars, timerVars, fiberVars
  <2>3. f \in Fiber
    BY <1>1, <2>1, <2>2, MainFacts DEF Does, MainOp
  <2>4. state[f] = "NEW"
    BY <1>1, <2>1, <2>2, <2>3, SubmitNew
  <2>5. FiberTask(f) \in Task /\ (FiberTask(f) \in Wakes(g) <=> g = f)
    BY <2>3, TaskFacts, TasksDiffer DEF Wakes
  <2>6. In(tasks', Wakes(g)) <=> In(tasks, Wakes(g)) \/ g = f
    BY <1>2, <2>2, <2>5, ScheduleOne
  <2>7. InRegs(g)' <=> InRegs(g)
    BY <2>2 DEF InRegs
  <2>8. CASE g # f
    <3>1. state'[g] = state[g]
      BY <1>2, <2>2, <2>8
    <3> QED
      BY <1>1, <2>2, <2>6, <2>7, <2>8, <3>1, Untouched
  <2>9. CASE g = f
    <3>1. Only(g, "nowhere") /\ step[g] = "call" /\ ~Runs(g)
      <4>1. FiberFits(g)
        BY <1>1, FibersView
      <4>2. step[g] = "call" /\ ~Runs(g)
        BY <2>4, <2>9, <4>1 DEF FiberFits, StepFits
      <4> QED
        BY <1>1, <2>4, <2>9, <4>2, SpotFacts
    <3>2. InTasks(g)' /\ (InHand(g)' <=> InHand(g)) /\ (InDue(g)' <=> InDue(g)) /\ ~Runs(g)'
      BY <2>2, <2>6, <2>9, <3>1, Spots
    <3>3. InTimers(g)' <=> InTimers(g)
      BY <1>1, <2>2 DEF SleepersFit, Op
    <3>4. Only(g, "tasks")'
      BY <2>7, <3>1, <3>2, <3>3 DEF Only
    <3>5. state'[g] = "READY" /\ step'[g] = "call"
      BY <1>2, <2>2, <2>3, <2>9, <3>1
    <3>6. StepFits(g)' /\ "tasks" \in Allowed(g)'
      BY <3>5 DEF StepFits, Allowed
    <3> QED
      BY <3>2, <3>4, <3>5, <3>6 DEF FiberFits
  <2> QED
    BY <2>8, <2>9
<1>5. CASE UseTimer
  <2>1. PICK id : id = MainOp.timer
    OBVIOUS
  <2>2. mainAt <= Len(MainScript) /\ MainOp.op \in {"addTimer", "refresh", "reset", "cancel"}
    BY <1>5 DEF UseTimer, Does, MainOp
  <2>3. id \in UserTimer
    BY <1>1, <2>1, <2>2, MainFacts
  <2>4. g # id
    BY <2>3, HookAssumption
  <2>5. armed' \in {armed, armed \cup {id}, armed \ {id}}
    BY <1>5, <2>1 DEF UseTimer, AddTimer, Refresh, Reset, Cancel, timerVars
  <2> QED
    BY <1>3, <1>5, <2>4, <2>5 DEF UseTimer, schedVars, eventVars, idleVars, fiberVars
<1>6. CASE Stop \/ SetStopped \/ TickleAll \/ Join
  BY <1>3, <1>6 DEF Stop, SetStopped, TickleAll, Join, GetNextTimer, timerVars, ioVars, schedVars,
                    eventVars, idleVars, fiberVars
<1>7. CASE Tick
  BY <1>3, <1>7 DEF Tick, schedVars, eventVars, fiberVars
<1>8. CASE \E d \in Fd, e \in Event \cup {HUP} : Arrive(d, e)
  BY <1>3, <1>8 DEF Arrive, timerVars, schedVars, idleVars, fiberVars
<1> QED
  BY <1>4, <1>5, <1>6, <1>7, <1>8 DEF Main

\* In every step, what will resume a waiting fiber is in one place, and in none
\* for a fiber that does not wait.
LEMMA FibersStep ==
  ASSUME Types, FibersAgree, ProperUse, NEW w, Worker = {w}, Next
  PROVE  FibersFit'
<1>1. /\ SchedTypes /\ FibersFit /\ TasksFit /\ WorkersFit /\ RegsFit /\ EventTypes
      /\ ArmedIsQueued /\ TimersFit /\ MainFits /\ EventsFit /\ NoPanic /\ w \in Worker
  BY InvParts
<1>2. SleepersFit'
  <2>1. TimersTypeOK' /\ ArmedIsQueued' /\ TimersFit'
    BY <1>1, TimersStep
  <2> QED
    BY <2>1, SleepersNext
<1>3. NoPanic'
  BY <1>1, NoPanicStep
<1>4. SUFFICES ASSUME NEW g \in Fiber PROVE FiberFits(g)'
  BY FibersView
<1>5. CASE Scheduling(w) /\ UNCHANGED <<fiberVars, since, sock, mainAt>>
  BY <1>2, <1>3, <1>5, SchedulingFibers
<1>6. ASSUME UNCHANGED <<tasks, state, regs, due, armed, line, step>>,
             hand[w] \notin Wakes(g) /\ hand'[w] \notin Wakes(g)
      PROVE  FiberFits(g)'
  <2>1. SleepersFit /\ (InRegs(g)' <=> InRegs(g))
    BY <1>6, InvParts DEF InRegs
  <2> QED
    BY <1>1, <1>2, <1>6, <2>1, Untouched
<1>7. /\ hand[w].kind = "timeout" => hand[w] \notin Wakes(g)
      /\ HandBack(w) => hand'[w] \notin Wakes(g)
  <2>1. /\ hand[w] \in Wakes(g) <=> hand[w].kind \in {"fiber", "wake"} /\ hand[w].fiber = g
        /\ NoTask \notin Wakes(g)
    BY <1>1, Hands
  <2>2. HandBack(w) => hand'[w] = NoTask
    BY <1>1 DEF HandBack, SchedTypes
  <2> QED
    BY <2>1, <2>2
<1>8. CASE RunTimeout(w)
  <2>1. hand[w].kind = "timeout" /\ (HandBack(w) \/ UNCHANGED hand)
        /\ UNCHANGED <<tasks, state, regs, due, armed, line, step>>
    BY <1>8 DEF RunTimeout, timerVars, eventVars, idleVars
  <2> QED
    BY <1>6, <1>7, <2>1
<1>9. CASE CancelOfTimeout(w)
  <2>1. PICK d, es : d = Script[hand[w].fiber][hand[w].call].fd
                     /\ es = {Awaited(Script[hand[w].fiber][hand[w].call])}
    OBVIOUS
  <2>2. /\ at[w] = "cancel" /\ CancelEvent(d, es) /\ HandBack(w)
        /\ UNCHANGED <<state, due, armed, line, step>>
    BY <1>9, <2>1 DEF CancelOfTimeout, timerVars, idleVars, fiberVars
  <2>3. hand[w].kind = "timeout" /\ d \in Fd
    BY <1>1, <2>1, <2>2, HandFacts
  <2>4. hand[w] \notin Wakes(g) /\ hand'[w] \notin Wakes(g) /\ ~Runs(g)
    BY <1>7, <2>2, <2>3, Spots
  <2>5. SleepersFit
    BY InvParts
  <2> QED
    BY <1>1, <1>2, <2>2, <2>3, <2>4, <2>5, CancelFibers
<1>10. CASE \E f \in Fiber : Running(w, f)
  BY <1>2, <1>3, <1>10, RunningFibers
<1>11. CASE Main \/ Tick \/ \E d \in Fd, e \in Event \cup {HUP} : Arrive(d, e)
  BY <1>2, <1>11, OutsideFibers
<1> QED
  BY <1>5, <1>8, <1>9, <1>10, <1>11, NextCases

-----------------------------------------------------------------------------
\* The invariant, and what follows from it.

\* In the beginning nothing waits.
LEMMA InitFits ==
  ASSUME Init, NEW w, Worker = {w}
  PROVE  Types /\ FibersAgree
<1> USE DEF Init, IOInit, TimersInit
<1>1. /\ timers = <<>> /\ tasks = <<>> /\ DOMAIN <<>> = {}
      /\ \A T : <<>> \in Seq(T)
  BY EmptySeq
<1>2. \A f \in Fiber : Len(Script[f]) \in Nat
  BY ScriptFacts
<1>3. Len(MainScript) \in Nat
  BY HookAssumption, LenProperties
<1>4. TimersTypeOK
  BY <1>1 DEF TimersTypeOK
<1>5. SchedTypes
  BY <1>1 DEF SchedTypes, Places
<1>6. EventTypes
  BY DEF EventTypes
<1>7. IdleTypes
  BY <1>1, IOManagerAssumption DEF IdleTypes
<1>8. FiberTypes
  BY <1>2, <1>3, DelayAssumption DEF FiberTypes, Delay, NoLimit, Result
<1>9. WorkersFit
  BY DEF WorkersFit, Inside, NoTask
<1>10. TimersFit /\ ArmedIsQueued
  BY <1>1 DEF TimersFit, ArmedIsQueued, IsQueued
<1>11. EventsFit
  BY DEF EventsFit, Waiting
<1>12. PendingFits
  <2>1. Registered = {}
    BY DEF Registered
  <2> QED
    BY <2>1, FS_EmptySet DEF PendingFits
<1>13. FibersFit
  <2> SUFFICES ASSUME NEW f \in Fiber PROVE FiberFits(f)
    BY FibersView
  <2>1. ~InTasks(f) /\ ~InTimers(f)
    BY <1>1 DEF InTasks, InTimers
  <2>2. ~InRegs(f)
    BY IOManagerAssumption DEF InRegs
  <2>3. ~InHand(f)
    BY TasksDiffer DEF InHand, Wakes
  <2>4. ~InDue(f)
    BY <1>1 DEF InDue
  <2>5. ~Runs(f)
    BY DEF Runs
  <2>6. Only(f, "nowhere") /\ "nowhere" \in Allowed(f)
    BY <2>1, <2>2, <2>3, <2>4 DEF Only, Allowed
  <2>7. StepFits(f)
    BY DEF StepFits
  <2> QED
    BY <2>5, <2>6, <2>7 DEF FiberFits
<1>14. TasksFit
  BY <1>1, TasksDiffer DEF TasksFit, LimitFits
<1>15. MainFits
  BY DEF MainFits
<1> QED
  BY <1>4, <1>5, <1>6, <1>7, <1>8, <1>9, <1>10, <1>11, <1>12, <1>13, <1>14, <1>15
  DEF Types, FibersAgree, NoPanic

\* Every step keeps the invariant.
LEMMA NextFits ==
  ASSUME Types, FibersAgree, ProperUse, NEW w, Worker = {w}, Next
  PROVE  Types' /\ FibersAgree'
<1>1. /\ WorkersFit /\ TasksFit /\ FibersFit /\ EventsFit /\ PendingFits /\ MainFits
      /\ NoPanic /\ ArmedIsQueued /\ TimersFit /\ WellOrdered(timers)
  BY InvParts
<1>2. TimersTypeOK' /\ ArmedIsQueued' /\ TimersFit'
  BY <1>1, TimersStep
<1>3. SchedTypes' /\ EventTypes' /\ IdleTypes' /\ FiberTypes'
  BY <1>1, SchedTypesStep, EventTypesStep, IdleTypesStep, FiberTypesStep
<1>4. WorkersFit' /\ EventsFit' /\ PendingFits'
  BY <1>1, WorkersStep, EventsStep, PendingStep
<1>5. TasksFit' /\ MainFits'
  BY <1>1, TasksStep, MainStep
<1>6. NoPanic'
  BY <1>1, NoPanicStep
<1>7. FibersFit'
  BY FibersStep
<1> QED
  BY <1>2, <1>3, <1>4, <1>5, <1>6, <1>7 DEF Types, FibersAgree

\* So does a step that changes nothing.
LEMMA StutterFits == Types /\ FibersAgree /\ UNCHANGED vars => Types' /\ FibersAgree'
<1> SUFFICES ASSUME Types, FibersAgree, UNCHANGED vars PROVE Types' /\ FibersAgree'
  OBVIOUS
<1> USE DEF vars, timerVars, ioVars, schedVars, eventVars, idleVars, fiberVars
<1>1. Types'
  BY DEF Types, TimersTypeOK, SchedTypes, EventTypes, IdleTypes, FiberTypes
<1>2. NoPanic' /\ ArmedIsQueued' /\ TimersFit' /\ WorkersFit'
  BY DEF FibersAgree, NoPanic, ArmedIsQueued, IsQueued, TimersFit, TimerFits, CallbackOf, Op, WorkersFit
<1>3. EventsFit' /\ PendingFits'
  <2>1. EventsFit /\ PendingFits
    BY DEF FibersAgree
  <2>2. GotFits'
    BY <2>1, EventsParts DEF GotFits, Waiting
  <2>3. Registered' = Registered
    BY DEF Registered
  <2> QED
    BY <2>1, <2>2, <2>3, EventsStay DEF PendingFits
<1>4. FibersFit'
  <2> SUFFICES ASSUME NEW f \in Fiber PROVE FiberFits(f)'
    BY FibersView
  <2>1. (Runs(f)' <=> Runs(f)) /\ (InTasks(f)' <=> InTasks(f)) /\ (InTimers(f)' <=> InTimers(f))
    BY DEF Runs, InTasks, InTimers
  <2>2. (InRegs(f)' <=> InRegs(f)) /\ (InHand(f)' <=> InHand(f)) /\ (InDue(f)' <=> InDue(f))
    BY DEF InRegs, InHand, InDue
  <2> QED
    BY <2>1, <2>2, FiberStays DEF FibersAgree
<1>5. TasksFit' /\ MainFits'
  BY DEF FibersAgree, TasksFit, LimitFits, MainFits, Done
<1> QED
  BY <1>1, <1>2, <1>3, <1>4, <1>5 DEF FibersAgree

\* The worker thread.
LEMMA OneThread == OneWorker => \E w : Worker = {w}
BY IOManagerAssumption, FS_Singleton DEF OneWorker

\* Types and agreement of timers, tasks, events and fibers, for any program that
\* uses the library properly and one worker thread.
THEOREM FibersKept == OneWorker /\ ProperUse /\ Spec => [](Types /\ FibersAgree)
<1> SUFFICES ASSUME OneWorker, ProperUse PROVE Spec => [](Types /\ FibersAgree)
  OBVIOUS
<1>1. Init => Types /\ FibersAgree
  BY OneThread, InitFits
<1>2. (Types /\ FibersAgree) /\ [Next]_vars => (Types /\ FibersAgree)'
  BY OneThread, NextFits, StutterFits
<1> QED
  BY <1>1, <1>2, PTL DEF Spec

\* At most as many events are registered as there are fibers.
LEMMA CountsFit ==
  ASSUME Types, FibersAgree, NEW w, Worker = {w}
  PROVE  CountTypes
<1>1. /\ WorkersFit /\ PendingFits /\ RegsFit /\ EventTypes /\ w \in Worker
  BY InvParts
<1>2. Cardinality(Worker) = 1
  BY FS_Singleton
<1>3. active \in 0 .. 1 /\ idleCnt \in 0 .. 1
  BY <1>1 DEF WorkersFit
<1> DEFINE by == [x \in Registered |-> regs[x[1]][x[2]]]
<1>4. by \in Injection(Registered, Fiber)
  <2>1. \A x \in Registered : by[x] \in Fiber /\ x = <<x[1], x[2]>> /\ Awaits(by[x], x[1], x[2])
    BY <1>1 DEF Registered, EventTypes, RegsFit
  <2>2. \A x, y \in Registered : by[x] = by[y] => x = y
    BY <2>1 DEF Awaits
  <2> HIDE DEF by
  <2>3. by \in [Registered -> Fiber]
    BY <2>1 DEF by
  <2> QED
    BY <2>2, <2>3 DEF Injection, IsInjective
<1> HIDE DEF by
<1>5. Cardinality(Registered) <= Cardinality(Fiber) /\ IsFiniteSet(Registered)
  BY <1>4, FS_Injection, IOManagerAssumption
<1>6. Cardinality(Registered) \in Nat /\ Cardinality(Fiber) \in Nat
  BY <1>5, FS_CardinalityType, IOManagerAssumption
<1> QED
  BY <1>1, <1>2, <1>3, <1>5, <1>6 DEF CountTypes, PendingFits

\* A set with at most one element.
LEMMA CountOne ==
  ASSUME NEW S, \A x, y \in S : x = y
  PROVE  Count(S) = IF S = {} THEN 0 ELSE 1
<1>1. CASE S = {}
  BY <1>1, FS_EmptySet DEF Count
<1>2. CASE S # {}
  <2>1. PICK x : S = {x}
    BY <1>2
  <2> QED
    BY <2>1, FS_Singleton DEF Count
<1> QED
  BY <1>1, <1>2

\* What ResumedOnce counts is whether something waits at each of the five places.
LEMMA ResumersCounted ==
  ASSUME Types, FibersAgree, NEW w, Worker = {w}, NEW f \in Fiber
  PROVE  Resumers(f) = (IF InTasks(f) THEN 1 ELSE 0) + (IF InTimers(f) THEN 1 ELSE 0)
                       + (IF InRegs(f) THEN 1 ELSE 0) + (IF InHand(f) THEN 1 ELSE 0)
                       + (IF InDue(f) THEN 1 ELSE 0)
<1>1. /\ TasksFit /\ SleepersFit /\ WellOrdered(timers) /\ RegsFit /\ f # NoFiber
  BY InvParts, IOManagerAssumption
<1> DEFINE A == {k \in DOMAIN tasks : tasks[k] \in {FiberTask(f), WakeTask(f)}}
           B == {k \in DOMAIN timers : timers[k].cb = WakeTask(f)}
           C == {x \in Fd \X Event : regs[x[1]][x[2]] = f}
           D == {v \in Worker : hand[v] \in {FiberTask(f), WakeTask(f)} /\ at[v] # "fiber"}
           E == UNION {{<<v, k>> : k \in {k \in DOMAIN due[v] : due[v][k] = WakeTask(f)}} : v \in Worker}
<1>2. Count(A) = IF InTasks(f) THEN 1 ELSE 0
  <2>1. (\A j, k \in A : j = k) /\ (A = {} <=> ~InTasks(f))
    BY <1>1 DEF TasksFit, InTasks, Wakes
  <2> QED
    BY <2>1, CountOne
<1>3. Count(B) = IF InTimers(f) THEN 1 ELSE 0
  <2>1. \A k \in B : timers[k] \in Held(timers) /\ timers[k].id = f
    BY <1>1 DEF SleepersFit, Held
  <2>2. (\A j, k \in B : j = k) /\ (B = {} <=> ~InTimers(f))
    BY <1>1, <2>1 DEF WellOrdered, InTimers
  <2> QED
    BY <2>2, CountOne
<1>4. Count(C) = IF InRegs(f) THEN 1 ELSE 0
  <2>1. \A x \in C : x = <<x[1], x[2]>> /\ Awaits(f, x[1], x[2])
    BY <1>1 DEF RegsFit
  <2>2. \A x, y \in C : x = y
    BY <2>1 DEF Awaits
  <2>3. C = {} <=> ~InRegs(f)
    <3>1. \A d \in Fd, e \in Event : regs[d][e] = f => <<d, e>> \in C
      OBVIOUS
    <3>2. \A x \in C : x[1] \in Fd /\ x[2] \in Event /\ regs[x[1]][x[2]] = f
      OBVIOUS
    <3> HIDE DEF C
    <3> QED
      BY <3>1, <3>2 DEF InRegs
  <2> QED
    BY <2>2, <2>3, CountOne
<1>5. Count(D) = IF InHand(f) THEN 1 ELSE 0
  <2>1. (\A u, v \in D : u = v) /\ (D = {} <=> ~InHand(f))
    BY DEF InHand, Wakes
  <2> QED
    BY <2>1, CountOne
<1>6. Count(E) = IF InDue(f) THEN 1 ELSE 0
  <2>1. \A x \in E : \E k \in DOMAIN due[w] : x = <<w, k>> /\ due[w][k] = WakeTask(f)
    OBVIOUS
  <2>2. \A x, y \in E : x = y
    BY <1>1, <2>1 DEF TasksFit
  <2>3. E = {} <=> ~InDue(f)
    <3>1. \A k \in DOMAIN due[w] : due[w][k] = WakeTask(f) => <<w, k>> \in E
      OBVIOUS
    <3> HIDE DEF E
    <3> QED
      BY <2>1, <3>1 DEF InDue
  <2> QED
    BY <2>2, <2>3, CountOne
<1>7. Resumers(f) = Count(A) + Count(B) + Count(C) + Count(D) + Count(E)
  BY DEF Resumers
<1> HIDE DEF A, B, C, D, E
<1> QED
  BY <1>2, <1>3, <1>4, <1>5, <1>6, <1>7

\* A waiting fiber is in one of them.
LEMMA OnceInAll ==
  ASSUME Types, FibersAgree, NEW w, Worker = {w}
  PROVE  ResumedOnce
<1> SUFFICES ASSUME NEW f \in Fiber
             PROVE  /\ state[f] = "READY" => Resumers(f) = 1
                    /\ state[f] = "RUNNING" => Resumers(f) <= 1
                    /\ state[f] \in {"NEW", "TERM"} => Resumers(f) = 0
  BY DEF ResumedOnce
<1>1. PICK p \in Allowed(f) : Only(f, p)
  BY InvParts DEF FibersFit
<1>2. Resumers(f) = (IF InTasks(f) THEN 1 ELSE 0) + (IF InTimers(f) THEN 1 ELSE 0)
                    + (IF InRegs(f) THEN 1 ELSE 0) + (IF InHand(f) THEN 1 ELSE 0)
                    + (IF InDue(f) THEN 1 ELSE 0)
  BY ResumersCounted
<1>3. /\ state[f] = "READY" => p \in {"tasks", "timers", "regs", "hand", "due"}
      /\ state[f] \in {"NEW", "TERM"} => p = "nowhere"
  BY <1>1 DEF Allowed
<1>4. Resumers(f) = IF p \in {"tasks", "timers", "regs", "hand", "due"} THEN 1 ELSE 0
  BY <1>1, <1>2 DEF Only
<1> QED
  BY <1>3, <1>4

\* Every variable of the fiber library keeps its type; among others no more
\* events are pending than there are fibers, and no queue is read past its end.
THEOREM FiberTypeCorrect == OneWorker /\ ProperUse /\ Spec => []TypeOK
<1> SUFFICES ASSUME OneWorker, ProperUse PROVE Spec => []TypeOK
  OBVIOUS
<1>1. Types /\ FibersAgree => TypeOK
  BY OneThread, CountsFit, TypeOKParts
<1>2. Spec => [](Types /\ FibersAgree)
  BY FibersKept
<1> QED
  BY <1>1, <1>2, PTL

\* None of the assertions of scheduler.cpp, iomanager.cpp and fiber.cpp fails that
\* the model has as panicked.
THEOREM NoAssertionFails == OneWorker /\ ProperUse /\ Spec => []NoPanic
<1>1. FibersAgree => NoPanic
  BY DEF FibersAgree
<1> QED
  BY <1>1, FibersKept, PTL

\* A timer has a callback exactly as long as it is in timers_, so that cancel,
\* refresh and reset never work with an iterator past the end (timer.cpp:29).
THEOREM CallbacksAreQueued == OneWorker /\ ProperUse /\ Spec => []ArmedIsQueued
<1>1. FibersAgree => ArmedIsQueued
  BY DEF FibersAgree
<1> QED
  BY <1>1, FibersKept, PTL

\* A fiber that has yielded will be resumed by one thing: its timer, its event, the
\* task they put into the queue, or the worker that has taken it (a time-out that
\* races with the event included, hook.cpp:96); and a fiber that has ended by none.
THEOREM FibersResumedOnce == OneWorker /\ ProperUse /\ Spec => []ResumedOnce
<1> SUFFICES ASSUME OneWorker, ProperUse PROVE Spec => []ResumedOnce
  OBVIOUS
<1>1. Types /\ FibersAgree => ResumedOnce
  BY OneThread, OnceInAll
<1>2. Spec => [](Types /\ FibersAgree)
  BY FibersKept
<1> QED
  BY <1>1, <1>2, PTL

\* The first timer is due first.
LEMMA FirstFacts ==
  ASSUME TimersTypeOK, WellOrdered(timers)
  PROVE  /\ \A t \in Held(timers) : t.left \in Nat /\ t.ms \in Nat
         /\ timers # <<>> => timers[1] \in Held(timers) /\ \A t \in Held(timers) : timers[1].left <= t.left
         /\ timers = <<>> <=> Held(timers) = {}
<1>1. Len(timers) \in Nat /\ DOMAIN timers = 1 .. Len(timers) /\ \A k \in DOMAIN timers : timers[k] \in Timer
  BY QueueFacts
<1>2. \A t \in Held(timers) : t.left \in Nat /\ t.ms \in Nat
  BY <1>1 DEF Held, Timer, Delay
<1>3. timers # <<>> => 1 \in DOMAIN timers
  BY <1>1, EmptySeq DEF TimersTypeOK
<1>4. timers # <<>> => timers[1] \in Held(timers) /\ \A t \in Held(timers) : timers[1].left <= t.left
  <2> SUFFICES ASSUME timers # <<>>, NEW k \in DOMAIN timers PROVE timers[1].left <= timers[k].left
    BY <1>3 DEF Held
  <2>1. timers[1] \in Held(timers)
    BY <1>3 DEF Held
  <2>2. k = 1 \/ 1 < k
    BY <1>1
  <2> QED
    BY <1>2, <1>3, <2>1, <2>2 DEF WellOrdered
<1>5. timers = <<>> <=> Held(timers) = {}
  <2>1. timers = <<>> => DOMAIN timers = {}
    BY <1>1, EmptySeq
  <2> QED
    BY <1>3, <2>1 DEF Held
<1> QED
  BY <1>2, <1>4, <1>5

\* What TimersKnown says of a worker.
Knows(w) ==
  /\ at[w] = "asked" /\ ~pipe => ~tickled /\ Held(timers) = {}
  /\ at[w] = "epoll" /\ ~pipe => ~tickled /\ \A t \in Held(timers) : wait[w] <= t.left

\* TimersKnown of the one worker.
LEMMA KnownView ==
  ASSUME NEW w, Worker = {w}, TimersTypeOK, WellOrdered(timers), TimersTypeOK', WellOrdered(timers')
  PROVE  (TimersKnown <=> Knows(w)) /\ (TimersKnown' <=> Knows(w)')
<1>1. timers = <<>> <=> Held(timers) = {}
  BY FirstFacts
<1>2. timers' = <<>> <=> Held(timers') = {}
  <2>1. \A s : s = <<>> => DOMAIN s = {}
    BY EmptySeq
  <2>2. timers' # <<>> => 1 \in DOMAIN timers'
    BY EmptySeq, LenProperties DEF TimersTypeOK
  <2> QED
    BY <2>1, <2>2 DEF Held
<1> QED
  BY <1>1, <1>2 DEF TimersKnown, Knows, Held

\* A timer of the program or of a fiber that comes first is announced.
LEMMA InsertKnown ==
  ASSUME NEW w, Worker = {w}, WorkersFit, Knows(w), at[w] \in {"asked", "epoll"}, UNCHANGED <<at, wait>>,
         wait[w] \in Nat, TimersTypeOK', NEW ts, NEW old, NEW id, NEW front, Insert(ts, old, id, front),
         Tickle(front), tickled \in BOOLEAN, front \in BOOLEAN, pipe \in BOOLEAN, WellOrdered(timers'),
         Held(timers') # {},
         \A t \in Held(timers') : t.id # id => t \in Held(timers)
  PROVE  Knows(w)'
<1>1. idleCnt = 1
  BY DEF WorkersFit, Inside
<1>2. pipe' = (pipe \/ front) /\ front = (timers'[1].id = id /\ ~tickled) /\ tickled' = (tickled \/ front)
  BY <1>1 DEF Tickle, Insert
<1>3. CASE pipe \/ front
  BY <1>2, <1>3 DEF Knows
<1>4. CASE ~pipe /\ ~front
  <2>1. ~tickled /\ timers'[1].id # id /\ ~tickled'
    BY <1>2, <1>4 DEF Knows
  <2>2. timers'[1] \in Held(timers') /\ \A t \in Held(timers') : timers'[1].left <= t.left
        /\ t.left \in Nat
    <3>1. \A k \in DOMAIN timers' : timers'[k] \in Timer /\ (k = 1 \/ 1 < k)
      BY LenProperties, ElementOfSeq DEF TimersTypeOK
    <3>2. 1 \in DOMAIN timers'
      BY LenProperties DEF TimersTypeOK, Held
    <3>3. \A k \in DOMAIN timers' : timers'[k].left \in Nat
      BY <3>1 DEF Timer, Delay
    <3>4. \A k \in DOMAIN timers' : timers'[1].left <= timers'[k].left
      BY <3>1, <3>2, <3>3 DEF WellOrdered
    <3> QED
      BY <3>2, <3>3, <3>4 DEF Held
  <2>3. timers'[1] \in Held(timers)
    BY <2>1, <2>2
  <2>4. CASE at[w] = "asked"
    BY <1>4, <2>3, <2>4 DEF Knows
  <2>5. CASE at[w] = "epoll"
    <3>1. wait[w] <= timers'[1].left
      BY <1>4, <2>3, <2>5 DEF Knows
    <3>2. \A t \in Held(timers') : wait'[w] <= t.left
      BY <2>2, <3>1
    <3> QED
      BY <1>2, <1>4, <2>1, <2>5, <3>2 DEF Knows
  <2> QED
    BY <2>4, <2>5
<1> QED
  BY <1>3, <1>4

\* Every step keeps TimersKnown: whoever inserts a timer that is due earlier fills
\* the pipe, unless tickled_ says that somebody has done so already.
LEMMA KnownStep ==
  ASSUME Types, FibersAgree, Types', FibersAgree', TimersKnown, ProperUse, NEW w, Worker = {w}, Next
  PROVE  TimersKnown'
<1>1. /\ TimersTypeOK /\ WellOrdered(timers) /\ SchedTypes /\ IdleTypes
      /\ FiberTypes /\ WorkersFit /\ w \in Worker
      /\ ArmedIsQueued /\ MainFits /\ TimersFit
  BY InvParts
<1>2. TimersTypeOK' /\ WellOrdered(timers')
  BY HeldView DEF Types, FibersAgree
<1>3. Knows(w)
  BY <1>1, <1>2, KnownView
<1>4. SUFFICES Knows(w)'
  BY <1>1, <1>2, KnownView
<1>5. /\ at \in [Worker -> Places] /\ wait \in [Worker -> 0 .. MaxTimeout] /\ wait[w] \in Nat
      /\ tickled \in BOOLEAN /\ pipe \in BOOLEAN
      /\ \A t \in Held(timers) : t.left \in Nat /\ t.ms \in Nat
  BY <1>1, IOManagerAssumption, FirstFacts DEF SchedTypes, IdleTypes, TimersTypeOK
<1>6. at'[w] \notin {"asked", "epoll"} => Knows(w)'
  BY DEF Knows
<1>7. ASSUME UNCHANGED <<at, wait>>, ~pipe' => ~pipe, ~tickled => ~tickled',
             \A t \in Held(timers') : \E u \in Held(timers) : u.left <= t.left /\ t.left \in Nat
      PROVE  Knows(w)'
  <2>1. ASSUME at[w] = "asked", ~pipe' PROVE ~tickled' /\ Held(timers') = {}
    BY <1>3, <1>7, <2>1 DEF Knows
  <2>2. ASSUME at[w] = "epoll", ~pipe', NEW t \in Held(timers') PROVE wait[w] <= t.left
    <3>1. PICK u \in Held(timers) : u.left <= t.left /\ t.left \in Nat
      BY <1>7
    <3>2. wait[w] <= u.left
      BY <1>3, <1>7, <2>2 DEF Knows
    <3> QED
      BY <1>5, <3>1, <3>2
  <2>3. at[w] = "epoll" /\ ~pipe' => ~tickled'
    BY <1>3, <1>7 DEF Knows
  <2> QED
    BY <1>7, <2>1, <2>2, <2>3 DEF Knows
<1>8. ASSUME UNCHANGED <<at, wait, timers>>, ~pipe' => ~pipe, ~tickled => ~tickled' PROVE Knows(w)'
  <2>1. \A t \in Held(timers') : \E u \in Held(timers) : u.left <= t.left /\ t.left \in Nat
    BY <1>5, <1>8
  <2> QED
    BY <1>7, <1>8, <2>1
<1>10. CASE Scheduling(w) /\ UNCHANGED <<fiberVars, since, sock, mainAt>>
  <2>1. CASE Idle(w)
    <3>1. /\ UNCHANGED timers /\ tickled' = FALSE
          /\ wait'[w] = NextTimer(MaxTimeout) /\ at'[w] = IF timers = <<>> THEN "asked" ELSE "epoll"
      BY <1>1, <1>5, <2>1 DEF Idle, GetNextTimer, Goto
    <3>2. CASE timers = <<>>
      <4>1. Held(timers) = {}
        BY <1>1, <3>2, FirstFacts
      <4> QED
        BY <3>1, <3>2, <4>1 DEF Knows
    <3>3. CASE timers # <<>>
      <4>1. timers[1] \in Held(timers) /\ \A t \in Held(timers) : timers[1].left <= t.left
        BY <1>1, <3>3, FirstFacts
      <4>2. wait'[w] \in Int /\ wait'[w] <= timers[1].left
        BY <1>5, <3>1, <3>3, <4>1, IOManagerAssumption DEF NextTimer, AtMost
      <4>3. \A t \in Held(timers') : wait'[w] <= t.left
        BY <1>5, <3>1, <4>1, <4>2
      <4> QED
        BY <3>1, <3>3, <4>3 DEF Knows
    <3> QED
      BY <3>2, <3>3
  <2>2. CASE WaitOrStop(w)
    <3>1. at[w] = "asked" /\ UNCHANGED <<timers, tickled, pipe>>
      BY <2>2 DEF WaitOrStop, timerVars
    <3>2. Held(timers) = {} \/ pipe
      BY <1>3, <3>1 DEF Knows
    <3>3. at'[w] \in {"look", "epoll"}
      BY <1>1, <1>5, <2>2 DEF WaitOrStop, Goto
    <3> QED
      BY <1>3, <3>1, <3>2, <3>3 DEF Knows
  <2>3. CASE TakeTask(w) \/ FindNothing(w) \/ ResumeFiber(w) \/ RunWake(w) \/ RunUser(w) \/ Rest(w)
    BY <1>1, <1>5, <1>6, <2>3 DEF TakeTask, FindNothing, ResumeFiber, RunWake, RunUser, Rest, HandBack, Goto
  <2>4. CASE EpollWait(w) \/ Expire(w) \/ PushExpired(w) \/ ReadPipe(w) \/ LeaveIdle(w)
    BY <1>1, <1>5, <1>6, <2>4 DEF EpollWait, Expire, PushExpired, ReadPipe, LeaveIdle, Goto, schedVars
  <2>5. CASE \E d \in Fd : HandleEvent(w, d)
    BY <1>1, <1>5, <1>6, <2>5 DEF HandleEvent
  <2> QED
    BY <1>10, <2>1, <2>2, <2>3, <2>4, <2>5 DEF Scheduling
<1>11. CASE RunTimeout(w) \/ CancelOfTimeout(w)
  BY <1>1, <1>5, <1>6, <1>11 DEF RunTimeout, CancelOfTimeout, HandBack, Goto
<1>13. CASE \E f \in Fiber : Running(w, f)
  <2>1. PICK f \in Fiber : Running(w, f)
    BY <1>13
  <2>2. at[w] = "fiber" /\ (UNCHANGED at \/ HandBack(w))
    BY <2>1 DEF Running, Sleep, WakeFromSleep, BeginIo, TryIo, TryConnect, LeaveKernel, AwaitEvent, YieldInCall,
           WakeFromEvent, Close, SetTimeLimit, SetNonblock, EndFiber, Calls, Yield, ioVars, schedVars
  <2> QED
    BY <1>1, <1>5, <1>6, <2>2 DEF HandBack, Goto
<1>14. CASE Main
  <2>1. CASE Submit
    BY <1>8, <2>1 DEF Submit, Schedule, Tickle, timerVars, idleVars
  <2>2. CASE UseTimer
    <3>1. PICK id : id = MainOp.timer
      OBVIOUS
    <3>2. UNCHANGED <<at, wait>> /\ MainOp.op \in {"addTimer", "refresh", "reset", "cancel"}
          /\ mainAt <= Len(MainScript)
      BY <2>2 DEF UseTimer, schedVars, idleVars, Does, MainOp
    <3>3. id \in UserTimer /\ id \in TimerId
      BY <1>1, <3>1, <3>2, MainFacts, HookAssumption
    <3>4. CASE at[w] \notin {"asked", "epoll"}
      BY <1>6, <3>2, <3>4
    <3>5. CASE at[w] \in {"asked", "epoll"} /\ Does("addTimer")
      <4>1. PICK front \in BOOLEAN : AddTimer(id, MainOp.ms, MainOp.recurring, UserTask, front) /\ Tickle(front)
        BY <2>2, <3>1, <3>5 DEF UseTimer, Does
      <4>2. ~IsQueued(id)
        BY <1>1, <3>1, <3>5, AddedIsNew
      <4>3. MainOp.ms \in Delay /\ MainOp.recurring \in BOOLEAN
        BY <1>1, <3>2, <3>5, MainFacts DEF Does, MainOp
      <4>4. UserTask \in Callback
        BY TaskFacts, HookAssumption
      <4> DEFINE u == [id |-> id, left |-> MainOp.ms, ms |-> MainOp.ms, recurring |-> MainOp.recurring,
                       cb |-> UserTask]
      <4>5. Held(timers') = Held(timers) \cup {u}
        BY <1>1, <3>3, <4>1, <4>2, <4>3, <4>4, AddTimerFacts
      <4>6. u.id = id
        OBVIOUS
      <4> HIDE DEF u
      <4>7. Held(timers') # {} /\ \A t \in Held(timers') : t.id # id => t \in Held(timers)
        BY <4>5, <4>6
      <4>8. \E ts, old : Insert(ts, old, id, front)
        BY <4>1 DEF AddTimer
      <4> QED
        BY <1>1, <1>2, <1>3, <1>5, <3>2, <3>5, <4>1, <4>7, <4>8, InsertKnown
    <3>6. CASE at[w] \in {"asked", "epoll"} /\ Does("refresh")
      <4>1. Refresh(id) /\ UNCHANGED pipe
        BY <2>2, <3>1, <3>6 DEF UseTimer, Does
      <4>2. CASE ~(id \in armed /\ IsQueued(id))
        BY <1>8, <3>2, <4>1, <4>2 DEF Refresh
      <4>3. CASE id \in armed /\ IsQueued(id)
        <5> DEFINE t == QueuedTimer(id)
                   u == [t EXCEPT !.left = t.ms]
        <5>1. t \in Held(timers) /\ t \in Timer /\ t.id = id /\ t.left <= t.ms
          <6>1. t \in Held(timers) /\ t.id = id
            BY <4>3, QueuedTimerFacts
          <6> HIDE DEF t
          <6>2. t \in Timer /\ TimerFits(t)
            BY <1>1, <6>1, HeldView, QueueFacts DEF Held
          <6> QED
            BY <6>1, <6>2 DEF TimerFits
        <5>2. timers' \in Ordered(Replaced(id, u), DOMAIN timers, Others(id)) /\ UNCHANGED tickled
          BY <4>1, <4>3 DEF Refresh
        <5> HIDE DEF t
        <5>3. u \in Timer /\ u.id = id /\ u.left = t.ms
          BY <5>1 DEF Timer
        <5> HIDE DEF u
        <5>4. Held(timers') = {v \in Held(timers) : v.id # id} \cup {u}
          BY <1>1, <3>3, <4>3, <5>2, <5>3, ReplacedFacts
        <5>5. \A v \in Held(timers') : \E x \in Held(timers) : x.left <= v.left /\ v.left \in Nat
          BY <1>5, <5>1, <5>3, <5>4
        <5> QED
          BY <1>7, <3>2, <4>1, <5>2, <5>5
      <4> QED
        BY <4>2, <4>3
    <3>7. CASE at[w] \in {"asked", "epoll"} /\ Does("reset")
      <4> DEFINE ms == MainOp.ms
                 fromNow == MainOp.fromNow
      <4>1. PICK front \in BOOLEAN : Reset(id, ms, fromNow, front) /\ Tickle(front)
        BY <2>2, <3>1, <3>7 DEF UseTimer, Does
      <4>2. ms \in Delay
        BY <1>1, <3>2, <3>7, MainFacts DEF Does, MainOp
      <4> HIDE DEF ms, fromNow
      <4>3. CASE ~(id \in armed /\ IsQueued(id) /\ (fromNow \/ ms # QueuedTimer(id).ms))
        BY <1>8, <3>2, <4>1, <4>3 DEF Reset, timerVars, Tickle
      <4>4. CASE id \in armed /\ IsQueued(id) /\ (fromNow \/ ms # QueuedTimer(id).ms)
        <5> DEFINE t == QueuedTimer(id)
                   left == IF fromNow THEN ms ELSE AtLeast0(t.left - t.ms + ms)
                   u == [t EXCEPT !.left = left, !.ms = ms]
        <5>1. t \in Timer /\ t.id = id /\ t.left <= t.ms
          <6>1. t \in Held(timers) /\ t.id = id
            BY <4>4, QueuedTimerFacts
          <6> HIDE DEF t
          <6>2. t \in Timer /\ TimerFits(t)
            BY <1>1, <6>1, HeldView, QueueFacts DEF Held
          <6> QED
            BY <6>1, <6>2 DEF TimerFits
        <5>2. Insert(Replaced(id, u), Others(id), id, front)
          BY <4>1, <4>4 DEF Reset
        <5>3. DOMAIN Replaced(id, u) = DOMAIN timers
          BY DEF Replaced
        <5> HIDE DEF t
        <5>4. left \in Delay
          BY <4>2, <5>1, DelayAssumption DEF Timer, Delay, AtLeast0
        <5> HIDE DEF left
        <5>5. u \in Timer /\ u.id = id
          BY <4>2, <5>1, <5>4 DEF Timer
        <5> HIDE DEF u
        <5>6. timers' \in Ordered(Replaced(id, u), DOMAIN timers, Others(id))
          BY <5>2, <5>3 DEF Insert
        <5>7. Held(timers') = {v \in Held(timers) : v.id # id} \cup {u}
          BY <1>1, <3>3, <4>4, <5>5, <5>6, ReplacedFacts
        <5>8. Held(timers') # {} /\ \A v \in Held(timers') : v.id # id => v \in Held(timers)
          BY <5>5, <5>7
        <5> QED
          BY <1>1, <1>2, <1>3, <1>5, <3>2, <3>7, <4>1, <5>2, <5>8, InsertKnown
      <4> QED
        BY <4>3, <4>4
    <3>8. CASE at[w] \in {"asked", "epoll"} /\ Does("cancel")
      <4>1. Cancel(id) /\ UNCHANGED pipe
        BY <2>2, <3>1, <3>8 DEF UseTimer, Does
      <4>2. Held(timers') = {t \in Held(timers) : t.id # id} /\ UNCHANGED tickled
        BY <1>1, <3>3, <4>1, CancelFacts DEF Cancel
      <4>3. \A v \in Held(timers') : \E x \in Held(timers) : x.left <= v.left /\ v.left \in Nat
        BY <1>5, <4>2
      <4> QED
        BY <1>7, <3>2, <4>1, <4>2, <4>3
    <3>9. Does("addTimer") \/ Does("refresh") \/ Does("reset") \/ Does("cancel")
      BY <2>2 DEF UseTimer
    <3> QED
      BY <3>4, <3>5, <3>6, <3>7, <3>8, <3>9
  <2>3. CASE Stop \/ SetStopped \/ TickleAll \/ Join
    BY <1>8, <2>3 DEF Stop, SetStopped, TickleAll, Join, GetNextTimer, Tickle, timerVars, ioVars,
                      schedVars, idleVars
  <2> QED
    BY <1>14, <2>1, <2>2, <2>3 DEF Main
<1>15. CASE Tick
  <2>1. /\ Held(timers') = {[t EXCEPT !.left = AtLeast0(t.left - 1)] : t \in Held(timers)}
        /\ UNCHANGED <<at, tickled, pipe>>
        /\ wait'[w] = IF at[w] = "epoll" THEN AtLeast0(wait[w] - 1) ELSE wait[w]
    BY <1>1, <1>15, SoonerFacts DEF Tick, schedVars
  <2>2. ASSUME at[w] = "asked", ~pipe PROVE ~tickled /\ Held(timers') = {}
    BY <1>3, <2>1, <2>2 DEF Knows
  <2>3. ASSUME at[w] = "epoll", ~pipe, NEW u \in Held(timers') PROVE wait'[w] <= u.left
    <3>1. PICK t \in Held(timers) : u = [t EXCEPT !.left = AtLeast0(t.left - 1)]
      BY <2>1
    <3>2. u.left = AtLeast0(t.left - 1)
      <4>1. t \in Timer
        BY <1>1, QueueFacts DEF Held
      <4> QED
        BY <3>1, <4>1 DEF Timer
    <3>3. wait[w] <= t.left
      BY <1>3, <2>3 DEF Knows
    <3> QED
      BY <1>5, <2>1, <2>3, <3>2, <3>3 DEF AtLeast0
  <2> QED
    BY <1>3, <2>1, <2>2, <2>3 DEF Knows
<1>16. CASE \E d \in Fd, e \in Event \cup {HUP} : Arrive(d, e)
  BY <1>8, <1>16 DEF Arrive, timerVars, schedVars, idleVars
<1> QED
  BY <1>10, <1>11, <1>13, <1>14, <1>15, <1>16, NextCases

-----------------------------------------------------------------------------
\* Stopping

\* A timer of the main thread counts as kept until it is cancelled.
LEMMA KeptStays ==
  ASSUME mainAt \in Int, mainAt' \in {mainAt, mainAt + 1},
         NEW id \in Kept,
         mainAt' = mainAt \/ ~Does("cancel") \/ MainOp.timer # id
  PROVE  id \in Kept'
<1>1. PICK j \in DOMAIN MainScript :
         /\ j < mainAt /\ MainScript[j].op = "addTimer" /\ MainScript[j].timer = id
         /\ \A k \in DOMAIN MainScript :
              j < k /\ k < mainAt /\ MainScript[k].op = "cancel" => MainScript[k].timer # id
  BY DEF Kept
<1>2. DOMAIN MainScript = 1 .. Len(MainScript) /\ Len(MainScript) \in Nat
  BY HookAssumption, LenProperties
<1>3. ASSUME NEW k \in DOMAIN MainScript, j < k, k < mainAt', MainScript[k].op = "cancel"
      PROVE  MainScript[k].timer # id
  <2>1. CASE k < mainAt
    BY <1>1, <1>3, <2>1
  <2>2. CASE k = mainAt
    BY <1>2, <1>3, <2>2 DEF Does, MainOp
  <2> QED
    BY <1>2, <1>3, <2>1, <2>2
<1>4. j < mainAt' /\ id \in UserTimer
  BY <1>1, <1>2 DEF Kept
<1> QED
  BY <1>1, <1>3, <1>4 DEF Kept

\* None is kept in the end if the program cancels its timers.
LEMMA NoneKept ==
  ASSUME TimersCancelled, mainAt \in Int, mainAt > Len(MainScript) + 1
  PROVE  Kept = {}
<1> SUFFICES ASSUME NEW id \in Kept PROVE FALSE
  OBVIOUS
<1>1. PICK j \in DOMAIN MainScript :
         /\ j < mainAt /\ MainScript[j].op = "addTimer" /\ MainScript[j].timer = id
         /\ \A k \in DOMAIN MainScript :
              j < k /\ k < mainAt /\ MainScript[k].op = "cancel" => MainScript[k].timer # id
  BY DEF Kept
<1>2. DOMAIN MainScript = 1 .. Len(MainScript) /\ Len(MainScript) \in Nat
  BY HookAssumption, LenProperties
<1>3. PICK k \in DOMAIN MainScript : /\ j < k /\ MainScript[k].op = "cancel"
                                     /\ MainScript[k].timer = MainScript[j].timer
  BY <1>1 DEF TimersCancelled
<1> QED
  BY <1>1, <1>2, <1>3

\* What StopFits says of a worker.
Ends(w) == /\ at[w] = "asked" => armed \subseteq UserTimer
           /\ at[w] = "exit" => idleTerm[w]
           /\ idleTerm[w] => /\ at[w] \in {"look", "exit"} /\ stopped
                             /\ tasks = <<>> /\ pending = 0
                             /\ TimersCancelled => armed = {}

\* Every step keeps StopFits.
LEMMA StopStep ==
  ASSUME Types, FibersAgree, StopFits, ProperUse, NEW w, Worker = {w}, Next
  PROVE  StopFits'
<1>1. /\ TimersTypeOK /\ SchedTypes /\ EventTypes /\ FiberTypes /\ WellOrdered(timers)
      /\ ArmedIsQueued /\ WorkersFit /\ TasksFit /\ w \in Worker
  BY InvParts
<1>2. /\ mainAt \in Int /\ Len(MainScript) \in Nat /\ armed \subseteq TimerId
      /\ at \in [Worker -> Places] /\ idleTerm \in [Worker -> BOOLEAN] /\ stopped \in BOOLEAN
      /\ Fiber \cap UserTimer = {}
  BY <1>1, HookAssumption, LenProperties DEF FiberTypes, SchedTypes, TimersTypeOK
<1>3. Ends(w) /\ (stopped => mainAt > Len(MainScript) + 1) /\ UserTimer \cap armed \subseteq Kept
  BY <1>1 DEF StopFits, Ends
<1>4. ASSUME stopped' => mainAt' > Len(MainScript) + 1, UserTimer \cap armed' \subseteq Kept', Ends(w)'
      PROVE  StopFits'
  BY <1>4 DEF StopFits, Ends
<1>5. ASSUME UNCHANGED <<mainAt, stopped>>, UserTimer \cap armed' \subseteq armed, Ends(w)'
      PROVE  StopFits'
  <2>1. Kept' = Kept
    BY <1>5 DEF Kept
  <2> QED
    BY <1>3, <1>4, <1>5, <2>1
<1>10. CASE Scheduling(w) /\ UNCHANGED <<fiberVars, since, sock, mainAt>>
  <2>1. CASE Idle(w)
    <3>1. timers = <<>> => armed = {}
      <4>1. timers = <<>> => \A id : ~IsQueued(id)
        BY SingleFacts DEF IsQueued
      <4> QED
        BY <1>1, <1>2, <4>1 DEF ArmedIsQueued
    <3>2. /\ UNCHANGED <<armed, idleTerm, stopped, tasks, pending>> /\ at[w] = "idle"
          /\ at'[w] = IF timers = <<>> THEN "asked" ELSE "epoll"
      BY <1>1, <1>2, <2>1 DEF Idle, GetNextTimer, Goto, eventVars
    <3>3. Ends(w)'
      BY <1>3, <3>1, <3>2 DEF Ends
    <3> QED
      BY <1>5, <1>10, <3>2, <3>3
  <2>2. CASE WaitOrStop(w)
    <3>1. /\ UNCHANGED <<armed, stopped, tasks, pending>> /\ at[w] = "asked"
      BY <2>2 DEF WaitOrStop, timerVars, eventVars
    <3>2. CASE Stopping
      <4>1. at'[w] = "look" /\ pending = 0 /\ stopped /\ tasks = <<>>
        BY <1>1, <1>2, <2>2, <3>2 DEF WaitOrStop, Stopping, Goto
      <4>2. TimersCancelled => armed = {}
        BY <1>2, <1>3, <3>1, <4>1, NoneKept DEF Ends
      <4>3. Ends(w)'
        BY <3>1, <4>1, <4>2 DEF Ends
      <4> QED
        BY <1>5, <1>10, <3>1, <4>3
    <3>3. CASE ~Stopping
      <4>1. at'[w] = "epoll" /\ UNCHANGED idleTerm
        BY <1>1, <1>2, <2>2, <3>3 DEF WaitOrStop, Goto
      <4>2. Ends(w)'
        BY <1>3, <3>1, <4>1 DEF Ends
      <4> QED
        BY <1>5, <1>10, <3>1, <4>2
    <3> QED
      BY <3>2, <3>3
  <2>3. CASE FindNothing(w)
    <3>1. /\ UNCHANGED <<armed, stopped, tasks, pending, idleTerm>> /\ at[w] = "look"
          /\ at'[w] = IF idleTerm[w] THEN "exit" ELSE "rest"
      BY <1>1, <1>2, <2>3 DEF FindNothing, Goto, timerVars, eventVars
    <3>2. Ends(w)'
      BY <1>3, <3>1 DEF Ends
    <3> QED
      BY <1>5, <1>10, <3>1, <3>2
  <2>4. ASSUME UNCHANGED <<stopped, idleTerm>>, armed' \subseteq armed,
               at'[w] \notin {"asked", "exit"}, at[w] \notin {"look", "exit"} \/ tasks # <<>>
        PROVE  StopFits'
    <3>1. ~idleTerm[w]
      BY <1>3, <2>4 DEF Ends
    <3>2. Ends(w)'
      BY <2>4, <3>1 DEF Ends
    <3> QED
      BY <1>5, <1>10, <2>4, <3>2
  <2>5. CASE Expire(w)
    <3>1. armed' \subseteq armed
      BY <1>1, <2>5, ListExpiredFacts DEF Expire
    <3> QED
      BY <1>1, <1>2, <2>4, <2>5, <3>1 DEF Expire, Goto
  <2>6. CASE TakeTask(w) \/ ResumeFiber(w) \/ RunWake(w) \/ RunUser(w) \/ Rest(w) \/ LeaveIdle(w)
    BY <1>1, <1>2, <2>4, <2>6
       DEF TakeTask, ResumeFiber, RunWake, RunUser, Rest, LeaveIdle, HandBack, Goto, timerVars
  <2>7. CASE EpollWait(w) \/ PushExpired(w) \/ ReadPipe(w)
    BY <1>1, <1>2, <2>4, <2>7 DEF EpollWait, PushExpired, ReadPipe, Goto, timerVars, schedVars
  <2>8. CASE \E d \in Fd : HandleEvent(w, d)
    BY <1>1, <1>2, <2>4, <2>8 DEF HandleEvent, timerVars
  <2> QED
    BY <1>10, <2>1, <2>2, <2>3, <2>5, <2>6, <2>7, <2>8 DEF Scheduling
<1>6. ASSUME UNCHANGED <<mainAt, stopped, idleTerm>>, at[w] \in {"resume", "cancel", "fiber"},
             at'[w] \in {"resume", "cancel", "fiber", "look"}, UserTimer \cap armed' \subseteq armed
      PROVE  StopFits'
  <2>1. ~idleTerm[w]
    BY <1>3, <1>6 DEF Ends
  <2>2. Ends(w)'
    BY <1>6, <2>1 DEF Ends
  <2> QED
    BY <1>5, <1>6, <2>2
<1>11. CASE RunTimeout(w)
  BY <1>1, <1>2, <1>6, <1>11 DEF RunTimeout, HandBack, Goto, timerVars
<1>12. CASE CancelOfTimeout(w)
  BY <1>1, <1>2, <1>6, <1>12 DEF CancelOfTimeout, HandBack, Goto, timerVars
<1>13. ASSUME NEW f \in Fiber, Running(w, f) PROVE StopFits'
  <2>1. UNCHANGED <<mainAt, stopped, idleTerm>> /\ at[w] = "fiber"
    BY <1>13 DEF Running, Sleep, WakeFromSleep, BeginIo, TryIo, TryConnect, LeaveKernel, AwaitEvent, YieldInCall,
                WakeFromEvent, Close, SetTimeLimit, SetNonblock, EndFiber, Yield, Calls, schedVars, ioVars
  <2>2. at'[w] \in {"fiber", "look"}
    BY <1>1, <1>2, <1>13, <2>1 DEF Running, Sleep, WakeFromSleep, BeginIo, TryIo, TryConnect, LeaveKernel, AwaitEvent,
                YieldInCall, WakeFromEvent, Close, SetTimeLimit, SetNonblock, EndFiber, Yield, HandBack, Goto,
                schedVars, ioVars
  <2>3. armed' \subseteq armed \cup {f}
    <3>1. \A ms, cb : SetTimer(f, ms, cb) => armed' = armed \cup {f}
      BY DEF SetTimer, AddTimer
    <3>2. \A to : SetLimit(f, to) => armed' \subseteq armed \cup {f}
      BY <3>1 DEF SetLimit, timerVars
    <3> QED
      BY <1>13, <3>1, <3>2 DEF Running, Sleep, WakeFromSleep, BeginIo, TryIo, TryConnect, LeaveKernel, AwaitEvent,
                YieldInCall, WakeFromEvent, Close, SetTimeLimit, SetNonblock, EndFiber, Yield, Cancel, timerVars
  <2> QED
    BY <1>2, <1>6, <2>1, <2>2, <2>3
<1>14. CASE Main
  <2>1. CASE Submit \/ UseTimer
    <3>1. mainAt <= Len(MainScript) /\ mainAt' = mainAt + 1 /\ ~stopped /\ ~idleTerm[w]
          /\ UNCHANGED <<stopped, at, idleTerm>>
      BY <1>2, <1>3, <2>1 DEF Submit, UseTimer, Does, NextLine, schedVars, Ends
    <3>2. ASSUME armed' \subseteq armed \cup UserTimer, UserTimer \cap armed' \subseteq Kept' PROVE StopFits'
      <4>1. Ends(w)'
        BY <1>3, <3>1, <3>2 DEF Ends
      <4> QED
        BY <1>4, <3>1, <3>2, <4>1
    <3>3. ASSUME armed' \subseteq armed, ~Does("cancel") PROVE StopFits'
      <4>1. Kept \subseteq Kept'
        BY <1>2, <3>1, <3>3, KeptStays
      <4> QED
        BY <1>3, <3>2, <3>3, <4>1
    <3>4. CASE Submit
      BY <3>3, <3>4 DEF Submit, Does, timerVars
    <3>5. CASE UseTimer
      <4>1. PICK id : id = MainOp.timer
        OBVIOUS
      <4>2. CASE Does("addTimer")
        <5>1. armed' = armed \cup {id} /\ id \in UserTimer
          BY <1>1, <3>5, <4>1, <4>2, MainFacts DEF UseTimer, Does, MainOp, AddTimer
        <5>2. Kept \subseteq Kept'
          BY <1>2, <3>1, <4>2, KeptStays DEF Does
        <5>3. id \in Kept'
          <6>1. mainAt \in DOMAIN MainScript /\ MainOp.op = "addTimer"
            BY <1>1, <3>1, <4>2, MainFacts DEF Does, MainOp
          <6>2. DOMAIN MainScript \subseteq Int
            BY HookAssumption, LenProperties
          <6> QED
            BY <1>2, <3>1, <4>1, <5>1, <6>1, <6>2 DEF Kept, MainOp
        <5> QED
          BY <1>3, <3>2, <5>1, <5>2, <5>3
      <4>3. CASE Does("cancel")
        <5>1. armed' = armed \ {id}
          BY <3>5, <4>1, <4>3 DEF UseTimer, Does, Cancel
        <5>2. \A x \in Kept : x # id => x \in Kept'
          BY <1>2, <3>1, <4>1, KeptStays
        <5> QED
          BY <1>3, <3>2, <5>1, <5>2
      <4>4. CASE Does("refresh") \/ Does("reset")
        <5>1. armed' = armed /\ ~Does("cancel")
          BY <3>5, <4>4 DEF UseTimer, Does, Refresh, Reset, Insert, timerVars
        <5> QED
          BY <3>3, <5>1
      <4> QED
        BY <3>5, <4>2, <4>3, <4>4 DEF UseTimer
    <3> QED
      BY <2>1, <3>4, <3>5
  <2>2. CASE Stop \/ SetStopped \/ TickleAll \/ Join
    <3>1. /\ UNCHANGED <<armed, at, idleTerm, tasks, pending>> /\ mainAt' = mainAt + 1
          /\ ~Does("cancel")
      <4>1. CASE Stop
        <5>1. UNCHANGED <<armed, at, idleTerm, tasks, pending>> /\ mainAt' = mainAt + 1
          BY <4>1 DEF Stop, GetNextTimer, NextLine, ioVars, schedVars, eventVars
        <5>2. ~Does("cancel")
          BY <4>1 DEF Stop, Does
        <5> QED
          BY <5>1, <5>2
      <4>2. CASE SetStopped \/ TickleAll \/ Join
        <5>1. UNCHANGED <<armed, at, idleTerm, tasks, pending>> /\ mainAt' = mainAt + 1
          <6>1. CASE SetStopped
            BY <6>1 DEF SetStopped, NextLine, eventVars, timerVars
          <6>2. CASE TickleAll
            BY <6>2 DEF TickleAll, NextLine, schedVars, eventVars, timerVars
          <6>3. CASE Join
            BY <6>3 DEF Join, NextLine, ioVars, schedVars, eventVars, timerVars
          <6> QED
            BY <4>2, <6>1, <6>2, <6>3
        <5>2. \/ mainAt = Len(MainScript) + 1 \/ mainAt = Len(MainScript) + 2
              \/ mainAt = Len(MainScript) + 3
          BY <4>2, Zenon DEF SetStopped, TickleAll, Join
        <5>3. ~(mainAt <= Len(MainScript))
          BY <1>2, <5>2
        <5>4. ~Does("cancel")
          BY <5>3 DEF Does
        <5> QED
          BY <5>1, <5>4
      <4> QED
        BY <2>2, <4>1, <4>2
    <3>6. stopped' = stopped \/ (stopped' = TRUE /\ mainAt = Len(MainScript) + 1)
      BY <2>2 DEF Stop, SetStopped, TickleAll, Join, ioVars, schedVars
    <3>2. stopped => stopped'
      BY <3>6
    <3>3. Kept \subseteq Kept'
      BY <1>2, <3>1, KeptStays
    <3>4. Ends(w)'
      BY <1>3, <3>1, <3>2 DEF Ends
    <3>5. stopped' => mainAt' > Len(MainScript) + 1
      <4>1. CASE stopped' = stopped
        BY <1>2, <1>3, <3>1, <4>1
      <4>2. CASE mainAt = Len(MainScript) + 1
        BY <1>2, <3>1, <4>2
      <4> QED
        BY <3>6, <4>1, <4>2
    <3> QED
      BY <1>3, <1>4, <3>1, <3>3, <3>4, <3>5
  <2> QED
    BY <1>14, <2>1, <2>2 DEF Main
<1>15. CASE Tick \/ \E d \in Fd, e \in Event \cup {HUP} : Arrive(d, e)
  <2>1. UNCHANGED <<armed, stopped, at, idleTerm, tasks, pending, mainAt>>
    BY <1>15 DEF Tick, Arrive, schedVars, eventVars, timerVars
  <2>2. Ends(w)'
    BY <1>3, <2>1 DEF Ends
  <2> QED
    BY <1>5, <2>1, <2>2
<1> QED
  BY <1>10, <1>11, <1>12, <1>13, <1>14, <1>15, NextCases

-----------------------------------------------------------------------------
\* Waiting no shorter than asked for

\* A queue in which the callback of a call's timer is ahead of what resumes the
\* fiber of the call.
Order(s) == \A j, k \in DOMAIN s :
              s[j].kind = "fiber" /\ s[k].kind = "timeout" /\ s[j].fiber = s[k].fiber => k < j

\* Two such queues one after the other.
LEMMA OrderConcat ==
  ASSUME NEW T, NEW s \in Seq(T), NEW u \in Seq(T)
  PROVE  /\ Held(s \o u) = Held(s) \cup Held(u)
         /\ Order(s) /\ Order(u)
            /\ (\A a \in Held(s), b \in Held(u) :
                  ~(a.kind = "fiber" /\ b.kind = "timeout" /\ a.fiber = b.fiber))
              => Order(s \o u)
<1> DEFINE v == s \o u
           m == Len(s)
           n == Len(u)
<1>1. /\ v \in Seq(T) /\ m \in Nat /\ n \in Nat /\ Len(v) = m + n
      /\ DOMAIN s = 1 .. m /\ DOMAIN u = 1 .. n /\ DOMAIN v = 1 .. m + n
  BY ConcatProperties, LenProperties
<1>2. \A k \in 1 .. m + n : v[k] = IF k <= m THEN s[k] ELSE u[k - m]
  BY ConcatProperties
<1> HIDE DEF v, m, n
<1>3. \A k \in 1 .. m : k \in 1 .. m + n /\ v[k] = s[k]
  BY <1>1, <1>2
<1>4. \A k \in 1 .. n : m + k \in 1 .. m + n /\ v[m + k] = u[k]
  BY <1>1, <1>2
<1>5. \A k \in 1 .. m + n : k \in 1 .. m \/ (k - m \in 1 .. n /\ v[k] = u[k - m] /\ k > m)
  BY <1>1, <1>2
<1>6. Held(v) = Held(s) \cup Held(u)
  <2>1. Held(v) \subseteq Held(s) \cup Held(u)
    BY <1>1, <1>3, <1>5 DEF Held
  <2>2. Held(s) \subseteq Held(v)
    BY <1>1, <1>3 DEF Held
  <2>3. Held(u) \subseteq Held(v)
    BY <1>1, <1>4 DEF Held
  <2> QED
    BY <2>1, <2>2, <2>3
<1>7. ASSUME Order(s), Order(u),
             \A a \in Held(s), b \in Held(u) :
               ~(a.kind = "fiber" /\ b.kind = "timeout" /\ a.fiber = b.fiber)
      PROVE  Order(v)
  <2> SUFFICES ASSUME NEW j \in 1 .. m + n, NEW k \in 1 .. m + n,
                      v[j].kind = "fiber", v[k].kind = "timeout", v[j].fiber = v[k].fiber
               PROVE  k < j
    BY <1>1 DEF Order
  <2>1. CASE j \in 1 .. m /\ k \in 1 .. m
    BY <1>1, <1>3, <1>7, <2>1 DEF Order
  <2>2. CASE j \in 1 .. m /\ k - m \in 1 .. n /\ v[k] = u[k - m]
    <3>1. v[j] \in Held(s)
      BY <1>1, <1>3, <2>2 DEF Held
    <3>2. v[k] \in Held(u)
      BY <1>1, <2>2 DEF Held
    <3> QED
      BY <1>7, <3>1, <3>2
  <2>3. CASE k \in 1 .. m /\ j > m
    BY <1>1, <2>3
  <2>4. CASE k - m \in 1 .. n /\ v[k] = u[k - m] /\ j - m \in 1 .. n /\ v[j] = u[j - m]
    <3>1. k - m < j - m
      BY <1>1, <1>7, <2>4 DEF Order
    <3> QED
      BY <1>1, <3>1
  <2> QED
    BY <1>5, <2>1, <2>2, <2>3, <2>4
<1> QED
  BY <1>6, <1>7 DEF v

\* Behind a fiber at the head there is no callback of its timer.
LEMMA OrderTail ==
  ASSUME NEW T, NEW s \in Seq(T), s # <<>>
  PROVE  /\ Head(s) \in Held(s) /\ Held(Tail(s)) \subseteq Held(s)
         /\ Order(s) => /\ Order(Tail(s))
                        /\ Head(s).kind = "fiber" =>
                             \A t \in Held(Tail(s)) : t.kind = "timeout" => t.fiber # Head(s).fiber
<1> DEFINE v == Tail(s)
           m == Len(s)
<1>1. /\ v \in Seq(T) /\ Len(v) = m - 1 /\ Head(s) = s[1] /\ m \in Nat /\ m > 0
      /\ DOMAIN s = 1 .. m /\ DOMAIN v = 1 .. m - 1
  BY HeadTailProperties, LenProperties, EmptySeq
<1>2. \A k \in 1 .. m - 1 : k + 1 \in 1 .. m /\ v[k] = s[k + 1]
  BY <1>1, HeadTailProperties
<1> HIDE DEF v, m
<1>3. Head(s) \in Held(s) /\ Held(v) \subseteq Held(s)
  <2>1. 1 \in DOMAIN s
    BY <1>1
  <2>2. Head(s) \in Held(s)
    BY <1>1, <2>1 DEF Held
  <2>3. \A k \in DOMAIN v : v[k] \in Held(s)
    BY <1>1, <1>2 DEF Held
  <2> QED
    BY <2>2, <2>3 DEF Held
<1>4. ASSUME Order(s) PROVE Order(v)
  <2> SUFFICES ASSUME NEW j \in 1 .. m - 1, NEW k \in 1 .. m - 1,
                      v[j].kind = "fiber", v[k].kind = "timeout", v[j].fiber = v[k].fiber
               PROVE  k < j
    BY <1>1 DEF Order
  <2>1. k + 1 < j + 1
    BY <1>1, <1>2, <1>4 DEF Order
  <2> QED
    BY <1>1, <2>1
<1>5. ASSUME Order(s), s[1].kind = "fiber", NEW t \in Held(v), t.kind = "timeout"
      PROVE  t.fiber # s[1].fiber
  <2>1. PICK k \in 1 .. m - 1 : t = s[k + 1]
    BY <1>1, <1>2 DEF Held
  <2>2. ~(k + 1 < 1) /\ k + 1 \in DOMAIN s /\ 1 \in DOMAIN s
    BY <1>1, <1>2
  <2> QED
    BY <1>5, <2>1, <2>2 DEF Order
<1> QED
  BY <1>1, <1>3, <1>4, <1>5 DEF v

\* Nothing but fibers is added to the queue, behind what is there.
FibersAdded == /\ \A t \in Held(tasks') : t \in Held(tasks) \/ t.kind = "fiber"
               /\ Order(tasks) => Order(tasks')

\* Fibers are handed over.
LEMMA AddFibers ==
  ASSUME tasks \in Seq(Task), NEW u \in Seq(Task), \A t \in Held(u) : t.kind = "fiber", Schedule(u)
  PROVE  FibersAdded /\ Held(tasks') = Held(tasks) \cup Held(u)
<1>1. tasks' = tasks \o u
  BY DEF Schedule
<1>2. Order(u)
  BY DEF Order, Held
<1>3. /\ Held(tasks \o u) = Held(tasks) \cup Held(u)
      /\ Order(tasks) => Order(tasks \o u)
  BY <1>2, OrderConcat
<1> QED
  BY <1>1, <1>3 DEF FibersAdded

\* One fiber.
LEMMA AddOne ==
  ASSUME tasks \in Seq(Task), NEW f \in Fiber, Schedule(<<FiberTask(f)>>)
  PROVE  FibersAdded /\ \A t \in Held(tasks') : t \in Held(tasks) \/ t = FiberTask(f)
<1>1. FiberTask(f) \in Task /\ FiberTask(f).kind = "fiber"
  BY TaskFacts, TasksDiffer
<1>2. <<FiberTask(f)>> \in Seq(Task) /\ \A t \in Held(<<FiberTask(f)>>) : t = FiberTask(f)
  BY <1>1, SingleFacts DEF Held
<1> QED
  BY <1>1, <1>2, AddFibers

\* Fibers that wait for events, when the events are triggered ...
LEMMA AddWoken ==
  ASSUME SchedTypes, EventTypes, NEW d \in Fd, NEW es, es \subseteq Waiting(d), Trigger(d, es)
  PROVE  FibersAdded
<1>1. Woken(d, es) \in Seq(Task) /\ tasks \in Seq(Task) /\ Schedule(Woken(d, es))
  BY WokenType DEF Trigger, SchedTypes
<1>2. ASSUME NEW t \in Held(Woken(d, es)) PROVE t.kind = "fiber"
  <2>1. In(Woken(d, es), {t})
    BY DEF In, Held
  <2>2. \E e \in es : FiberTask(regs[d][e]) \in {t}
    BY <2>1, WokenType
  <2> QED
    BY <2>2, TasksDiffer
<1> QED
  BY <1>1, <1>2, AddFibers

\* ... or cancelled.
LEMMA AddCancelled ==
  ASSUME SchedTypes, EventTypes, NEW d \in Fd, NEW es, CancelEvent(d, es)
  PROVE  FibersAdded
<1>1. CASE Trigger(d, Waiting(d) \cap es)
  BY <1>1, AddWoken
<1>2. CASE UNCHANGED tasks
  BY <1>2 DEF FibersAdded
<1> QED
  BY <1>1, <1>2 DEF CancelEvent

\* What DelaysKept says of the call of f.
CallCounts(f) ==
  /\ step[f] = "woken" /\ Op(f).op = "sleep" /\ f \notin armed => since[f] >= Wanted(f)
  /\ cancelled[f] => step[f] = "woken" /\ since[f] >= limit[f]

\* DelaysKept of the one worker.
LEMMA DelaysView ==
  ASSUME NEW w, Worker = {w}
  PROVE  /\ DelaysKept <=> /\ \A t \in Held(timers) : Counts(t)
                           /\ \A f \in Fiber : CallCounts(f)
                           /\ \A t \in Held(tasks) : LateFits(t)
                           /\ LateFits(hand[w])
                           /\ \A t \in Held(due[w]) : LateFits(t)
         /\ DelaysKept' <=> /\ \A t \in Held(timers') : Counts(t)'
                            /\ \A f \in Fiber : CallCounts(f)'
                            /\ \A t \in Held(tasks') : LateFits(t)'
                            /\ LateFits(hand[w])'
                            /\ \A t \in Held(due'[w]) : LateFits(t)'
BY DEF DelaysKept, CallCounts, Held

\* LatesFirst of the one worker.
LEMMA LatesView ==
  ASSUME NEW w, Worker = {w}
  PROVE  /\ LatesFirst <=>
              /\ Order(tasks)
              /\ hand[w].kind = "fiber" =>
                   \A t \in Held(tasks) : t.kind = "timeout" => t.fiber # hand[w].fiber
              /\ at[w] \in Resting => \A t \in Held(tasks) : t.kind = "fiber" => step[t.fiber] = "call"
         /\ LatesFirst' <=>
              /\ Order(tasks')
              /\ hand'[w].kind = "fiber" =>
                   \A t \in Held(tasks') : t.kind = "timeout" => t.fiber # hand'[w].fiber
              /\ at'[w] \in Resting => \A t \in Held(tasks') : t.kind = "fiber" => step'[t.fiber] = "call"
BY DEF LatesFirst, Order, Held

\* Time-outs and timers of fibers that the step leaves alone.
LEMMA StillCounts ==
  ASSUME NEW g, line'[g] = line[g], step'[g] = step[g], since'[g] = since[g], limit'[g] = limit[g]
  PROVE  /\ \A t : t.id = g /\ Counts(t) => Counts(t)'
         /\ \A t : t.fiber = g /\ LateFits(t) => LateFits(t)'
         /\ CallCounts(g) /\ cancelled'[g] = cancelled[g] /\ (g \in armed => g \in armed') => CallCounts(g)'
<1>1. Op(g)' = Op(g) /\ Wanted(g)' = Wanted(g)
  BY DEF Op, Wanted
<1>2. ASSUME NEW t, t.id = g, Counts(t) PROVE Counts(t)'
  BY <1>1, <1>2 DEF Counts
<1>3. ASSUME NEW t, t.fiber = g, LateFits(t) PROVE LateFits(t)'
  BY <1>3 DEF LateFits
<1>4. CallCounts(g) /\ cancelled'[g] = cancelled[g] /\ (g \in armed => g \in armed') => CallCounts(g)'
  BY <1>1 DEF CallCounts
<1> QED
  BY <1>2, <1>3, <1>4

\* The tasks that are in the queue or that a worker has.
LEMMA HeldTasks ==
  ASSUME NEW s \in Seq(Task), NEW t \in Held(s)
  PROVE  t \in Task /\ (t.kind = "timeout" => t.fiber \in Fiber)
BY LenProperties, ElementOfSeq, TaskFacts DEF Held

\* The running fiber f goes on: none of the callbacks of its timers is left.
LEMMA RunningDelays ==
  ASSUME Types, FibersAgree, DelaysKept, LatesFirst, NEW w, Worker = {w}, NEW f \in Fiber,
         at[w] = "fiber", hand[w] = FiberTask(f),
         \A g \in Fiber : g # f => /\ line'[g] = line[g] /\ step'[g] = step[g] /\ since'[g] = since[g]
                                   /\ limit'[g] = limit[g] /\ cancelled'[g] = cancelled[g]
                                   /\ g \in armed => g \in armed',
         \A t \in Held(timers') : (t \in Held(timers) /\ t.id # f) \/ Counts(t)',
         CallCounts(f)', FibersAdded, UNCHANGED due,
         UNCHANGED <<at, hand>> \/ (at'[w] = "look" /\ hand'[w] = NoTask)
  PROVE  DelaysKept' /\ LatesFirst'
<1>1. SchedTypes /\ WorkersFit /\ w \in Worker /\ TimersTypeOK
  BY InvParts
<1>2. /\ \A t \in Held(timers) : Counts(t)
      /\ \A g \in Fiber : CallCounts(g)
      /\ \A t \in Held(tasks) : LateFits(t)
  BY DelaysView
<1>3. FiberTask(f).kind = "fiber" /\ FiberTask(f).fiber = f /\ NoTask.kind = "none"
  BY TasksDiffer
<1>4. Order(tasks) /\ \A t \in Held(tasks) : t.kind = "timeout" => t.fiber # f
  BY <1>3, LatesView
<1>5. \A g \in Fiber : CallCounts(g)'
  BY <1>2, StillCounts
<1>6. ASSUME NEW t \in Held(timers') PROVE Counts(t)'
  <2>1. CASE t \in Held(timers) /\ t.id # f /\ t.id \in Fiber
    BY <1>2, <2>1, StillCounts
  <2>2. CASE t.id \notin Fiber
    BY <2>2 DEF Counts
  <2> QED
    BY <2>1, <2>2
<1>7. ASSUME NEW t \in Held(tasks') PROVE LateFits(t)'
  <2>1. CASE t.kind = "timeout"
    <3>1. t \in Held(tasks) /\ t.fiber # f /\ t.fiber \in Fiber
      BY <1>1, <1>4, <2>1, HeldTasks DEF FibersAdded, SchedTypes
    <3> QED
      BY <1>2, <3>1, StillCounts
  <2> QED
    BY <2>1 DEF LateFits
<1>8. LateFits(hand[w])'
  <2>1. hand'[w].kind # "timeout"
    BY <1>3
  <2> QED
    BY <2>1 DEF LateFits
<1>9. Held(due'[w]) = {}
  <2>1. due[w] = <<>>
    BY <1>1 DEF WorkersFit
  <2> QED
    BY <2>1, SingleFacts DEF Held
<1>10. DelaysKept'
  BY <1>5, <1>6, <1>7, <1>8, <1>9, DelaysView
<1>11. Order(tasks') /\ \A t \in Held(tasks') : t.kind = "timeout" => t.fiber # f
  BY <1>4 DEF FibersAdded
<1>12. at'[w] \notin Resting /\ (hand'[w].kind = "fiber" => hand'[w].fiber = f)
  BY <1>3 DEF Resting
<1> QED
  BY <1>10, <1>11, <1>12, LatesView

\* A step in which no call goes on.
LEMMA QuietDelays ==
  ASSUME Types, FibersAgree, DelaysKept, LatesFirst, NEW w, Worker = {w},
         UNCHANGED <<line, step, since, limit, cancelled, due>>,
         \A t \in Held(timers') : t.id \in Fiber => t \in Held(timers),
         \A g \in Fiber : g \in armed => g \in armed',
         FibersAdded, hand'[w] \in {hand[w], NoTask},
         at'[w] \in Resting => \/ at[w] \in Resting /\ UNCHANGED tasks
                               \/ \A t \in Held(tasks') : t.kind = "fiber" => step[t.fiber] = "call"
  PROVE  DelaysKept' /\ LatesFirst'
<1>1. SchedTypes /\ IdleTypes /\ WorkersFit /\ w \in Worker /\ TimersTypeOK
  BY InvParts
<1>2. /\ \A t \in Held(timers) : Counts(t)
      /\ \A g \in Fiber : CallCounts(g)
      /\ \A t \in Held(tasks) : LateFits(t)
      /\ LateFits(hand[w])
      /\ \A t \in Held(due[w]) : LateFits(t)
  BY DelaysView
<1>3. \A t : (Counts(t) => Counts(t)') /\ (LateFits(t) => LateFits(t)')
  BY StillCounts DEF Counts, LateFits
<1>4. \A g \in Fiber : CallCounts(g)'
  BY <1>2, StillCounts
<1>5. ASSUME NEW t \in Held(timers') PROVE Counts(t)'
  BY <1>2, <1>3 DEF Counts
<1>6. ASSUME NEW t \in Held(tasks') PROVE LateFits(t)'
  BY <1>2, <1>3 DEF FibersAdded, LateFits
<1>7. LateFits(hand[w])'
  <2>1. CASE hand'[w] = hand[w]
    BY <1>2, <2>1 DEF LateFits
  <2>2. CASE hand'[w] = NoTask
    BY <2>2, TasksDiffer DEF LateFits
  <2> QED
    BY <2>1, <2>2
<1>8. \A t \in Held(due'[w]) : LateFits(t)'
  BY <1>2, <1>3
<1>9. DelaysKept'
  BY <1>4, <1>5, <1>6, <1>7, <1>8, DelaysView
<1>10. /\ Order(tasks)
       /\ hand[w].kind = "fiber" => \A t \in Held(tasks) : t.kind = "timeout" => t.fiber # hand[w].fiber
       /\ at[w] \in Resting => \A t \in Held(tasks) : t.kind = "fiber" => step[t.fiber] = "call"
  BY LatesView
<1>11. Order(tasks')
  BY <1>10 DEF FibersAdded
<1>12. hand'[w].kind = "fiber" => \A t \in Held(tasks') : t.kind = "timeout" => t.fiber # hand'[w].fiber
  BY <1>10, TasksDiffer DEF FibersAdded
<1>13. at'[w] \in Resting => \A t \in Held(tasks') : t.kind = "fiber" => step'[t.fiber] = "call"
  BY <1>10
<1> QED
  BY <1>9, <1>11, <1>12, <1>13, LatesView

\* A timer of f's call is set, and f has waited for nothing yet.
LEMMA SetTimerCounts ==
  ASSUME TimersTypeOK, ArmedIsQueued, WellOrdered(timers), FiberTypes, NEW f \in Fiber,
         \A t \in Held(timers) : t.id # f, NEW ms \in Delay, NEW cb \in Task, SetTimer(f, ms, cb),
         Wanted(f)' = ms
  PROVE  /\ \A t \in Held(timers') : (t \in Held(timers) /\ t.id # f) \/ Counts(t)'
         /\ armed' = armed \cup {f}
         /\ \A g \in Fiber : g # f => since'[g] = since[g]
<1>1. PICK front \in BOOLEAN : AddTimer(f, ms, FALSE, cb, front)
  BY DEF SetTimer
<1>2. since' = [since EXCEPT ![f] = 0] /\ since \in [Fiber -> Delay]
  BY DEF SetTimer, FiberTypes
<1> DEFINE t == [id |-> f, left |-> ms, ms |-> ms, recurring |-> FALSE, cb |-> cb]
<1>3. f \in TimerId /\ cb \in Callback /\ ~IsQueued(f)
  BY HookAssumption, HeldView
<1>4. Held(timers') = Held(timers) \cup {t} /\ armed' = armed \cup {f}
  BY <1>1, <1>3, AddTimerFacts
<1>5. t.id = f /\ t.ms = ms /\ t.left = ms
  OBVIOUS
<1> HIDE DEF t
<1>6. Counts(t)'
  BY <1>2, <1>5, DelayAssumption DEF Counts, Delay
<1> QED
  BY <1>2, <1>4, <1>6

\* A condition timer is set if the call has a limit.
LEMMA SetLimitCounts ==
  ASSUME TimersTypeOK, ArmedIsQueued, WellOrdered(timers), FiberTypes, NEW f \in Fiber,
         \A t \in Held(timers) : t.id # f, NEW to \in Delay \cup {NoLimit}, SetLimit(f, to),
         line[f] \in DOMAIN Script[f], Wanted(f)' = to
  PROVE  /\ \A t \in Held(timers') : (t \in Held(timers) /\ t.id # f) \/ Counts(t)'
         /\ \A g \in Fiber : g # f => since'[g] = since[g] /\ (g \in armed => g \in armed')
<1>1. CASE to # NoLimit
  <2>1. TimeoutTask(f, line[f]) \in Task /\ to \in Delay /\ SetTimer(f, to, TimeoutTask(f, line[f]))
    BY <1>1, TaskFacts DEF SetLimit
  <2> QED
    BY <2>1, SetTimerCounts
<1>2. CASE to = NoLimit
  BY <1>2 DEF SetLimit, timerVars
<1> QED
  BY <1>1, <1>2

\* Every step of a running fiber keeps DelaysKept and LatesFirst.
LEMMA RunningKept ==
  ASSUME Types, FibersAgree, FibersAgree', DelaysKept, LatesFirst,
         NEW w, Worker = {w}, NEW f \in Fiber, Running(w, f)
  PROVE  DelaysKept' /\ LatesFirst'
<1>1. /\ TimersTypeOK /\ SchedTypes /\ EventTypes /\ FiberTypes /\ w \in Worker
      /\ ArmedIsQueued /\ WellOrdered(timers) /\ TimersFit /\ FibersFit
  BY InvParts
<1>2. /\ step \in [Fiber -> {"call", "try", "kernel", "event", "yield", "woken"}]
      /\ limit \in [Fiber -> Delay \cup {NoLimit}] /\ cancelled \in [Fiber -> BOOLEAN]
      /\ since \in [Fiber -> Delay] /\ hand \in [Worker -> Task \cup {NoTask}] /\ at \in [Worker -> Places]
      /\ tasks \in Seq(Task)
  BY <1>1 DEF FiberTypes, SchedTypes
<1>3. /\ \A t \in Held(timers) : Counts(t)
      /\ \A g \in Fiber : CallCounts(g)
  BY DelaysView
<1>4. step[f] # "woken" => cancelled[f] = FALSE
  BY <1>2, <1>3 DEF CallCounts
<1>5. step'[f] # "woken" /\ cancelled'[f] = FALSE => CallCounts(f)'
  BY DEF CallCounts
<1>6. at[w] = "fiber" /\ hand[w] = FiberTask(f)
  BY DEF Running, Sleep, WakeFromSleep, BeginIo, TryIo, TryConnect, LeaveKernel, AwaitEvent, YieldInCall,
         WakeFromEvent, Close, SetTimeLimit, SetNonblock, EndFiber, Calls
<1>7. UNCHANGED tasks => FibersAdded
  BY DEF FibersAdded
<1> DEFINE Alone(g) == /\ line'[g] = line[g] /\ step'[g] = step[g] /\ since'[g] = since[g]
                       /\ limit'[g] = limit[g] /\ cancelled'[g] = cancelled[g]
           Own(g) == g \in armed => g \in armed'
           Timed == \A t \in Held(timers') : (t \in Held(timers) /\ t.id # f) \/ Counts(t)'
           Stays == UNCHANGED <<at, hand>> \/ (at'[w] = "look" /\ hand'[w] = NoTask)
<1>8. ASSUME \A g \in Fiber : g # f => Alone(g) /\ Own(g), Timed, CallCounts(f)', FibersAdded,
             UNCHANGED due, Stays
      PROVE  DelaysKept' /\ LatesFirst'
  BY <1>6, <1>8, RunningDelays
<1>9. ASSUME NEW value, Return(f, value)
      PROVE  /\ \A g \in Fiber : g # f => Alone(g)
             /\ step'[f] = "call" /\ cancelled'[f] = FALSE /\ CallCounts(f)'
  BY <1>1, <1>2, <1>5, <1>9 DEF Return, Proceed, FiberTypes
<1>10. ASSUME UNCHANGED timers, \A t \in Held(timers) : t.id # f PROVE Timed
  BY <1>10
<1> HIDE DEF Alone, Own, Timed, Stays
\* The call returns, and nothing was set for it.
<1>11. ASSUME NEW kind, NEW place, Calls(w, f, kind, place), place \in {"call", "try", "kernel"} \/ kind = "sleep",
              place # "yield", NEW value, Return(f, value), UNCHANGED <<timers, armed, due, at, hand>>,
              FibersAdded
       PROVE  DelaysKept' /\ LatesFirst'
  <2>1. \A t \in Held(timers) : t.id # f
    <3>1. place \in {"call", "try", "kernel", "woken"}
      BY <1>1, <1>2, <1>11, CallsUse, RunningFacts DEF FibersFit, StepFits
    <3> QED
      BY <1>1, <1>11, <3>1, NoTimer
  <2>2. \A g \in Fiber : Own(g)
    BY <1>11 DEF Own
  <2>3. Stays
    BY <1>11 DEF Stays
  <2> QED
    BY <1>8, <1>9, <1>10, <1>11, <2>1, <2>2, <2>3
\* The call goes on, or f itself waits or ends.
<1>12. ASSUME UNCHANGED <<line, limit, cancelled, since, timers, armed, due>>,
              NEW place, Proceed(f, place), CallCounts(f)', FibersAdded, Stays
       PROVE  DelaysKept' /\ LatesFirst'
  <2>1. \A g \in Fiber : g # f => Alone(g) /\ Own(g)
    BY <1>1, <1>12, OneMoves DEF Alone, Own
  <2>2. ASSUME NEW t \in Held(timers') PROVE (t \in Held(timers) /\ t.id # f) \/ Counts(t)'
    <3>1. Counts(t)
      BY <1>3, <1>12
    <3>2. Wanted(t.id)' = Wanted(t.id)
      BY <1>12 DEF Wanted, Op
    <3> QED
      BY <1>12, <3>1, <3>2 DEF Counts
  <2> QED
    BY <1>8, <1>12, <2>1, <2>2 DEF Timed
<1>20. CASE Sleep(w, f)
  <2>1. /\ Calls(w, f, "sleep", "call") /\ SetTimer(f, Millis(Op(f).time), WakeTask(f)) /\ Proceed(f, "yield")
        /\ UNCHANGED <<line, limit, cancelled, due, tasks, at, hand>>
    BY <1>20 DEF Sleep, schedVars, idleVars
  <2>2. \A t \in Held(timers) : t.id # f
    BY <1>1, <2>1, NoTimer
  <2>3. Op(f).op = "sleep" /\ Millis(Op(f).time) \in Delay /\ step[f] = "call" /\ WakeTask(f) \in Task
    <3>1. Op(f).op = "sleep" /\ Millis(Op(f).time) \in Delay /\ step[f] = "call"
      BY <1>1, <2>1, CallsUse
    <3> QED
      BY <3>1, TaskFacts
  <2>4. Wanted(f)' = Millis(Op(f).time)
    BY <2>1, <2>3 DEF Wanted, Op
  <2>5. /\ Timed
        /\ armed' = armed \cup {f}
        /\ \A g \in Fiber : g # f => since'[g] = since[g]
    BY <1>1, <2>1, <2>2, <2>3, <2>4, SetTimerCounts DEF Timed
  <2>6. \A g \in Fiber : g # f => Alone(g) /\ Own(g)
    BY <1>1, <2>1, <2>5, OneMoves DEF Alone, Own
  <2>7. step'[f] = "yield" /\ cancelled'[f] = FALSE
    BY <1>1, <1>4, <2>1, <2>3, OneMoves
  <2> QED
    BY <1>5, <1>7, <1>8, <2>1, <2>5, <2>6, <2>7 DEF Stays
<1>21. CASE WakeFromSleep(w, f)
  <2>1. /\ Calls(w, f, "sleep", "woken") /\ Return(f, "ok")
        /\ UNCHANGED <<timers, armed, due, tasks, at, hand>>
    BY <1>21 DEF WakeFromSleep, timerVars, ioVars, schedVars, idleVars
  <2> QED
    BY <1>7, <1>11, <2>1
<1>22. CASE BeginIo(w, f)
  <2>1. Calls(w, f, "io", "call") /\ UNCHANGED <<timers, armed, due, tasks, at, hand>>
    BY <1>22 DEF BeginIo, timerVars, schedVars, idleVars
  <2>2. CASE \E value : Return(f, value)
    BY <1>7, <1>11, <2>1, <2>2
  <2>3. CASE /\ limit' = [limit EXCEPT ![f] = sock[Op(f).fd].limit[Op(f).event]] /\ Proceed(f, "try")
             /\ UNCHANGED <<line, cancelled, since>>
    <3>1. (\A g \in Fiber : g # f => Alone(g) /\ Own(g)) /\ step'[f] = "try"
      BY <1>1, <1>2, <2>1, <2>3, OneMoves DEF Alone, Own
    <3>2. step[f] = "call" /\ \A t \in Held(timers) : t.id # f
      BY <1>1, <2>1, NoTimer, CallsUse
    <3>3. CallCounts(f)'
      BY <1>4, <1>5, <2>3, <3>1, <3>2
    <3> QED
      BY <1>7, <1>8, <1>10, <2>1, <3>1, <3>2, <3>3 DEF Stays
  <2> QED
    BY <1>22, <2>2, <2>3 DEF BeginIo
\* A condition timer is set, or the call stays in the kernel without one.
<1>13. ASSUME NEW kind \in {"io", "connect"}, NEW place \in {"call", "try", "kernel"},
              Calls(w, f, kind, place), NEW to \in Delay \cup {NoLimit}, SetLimit(f, to),
              limit' = [limit EXCEPT ![f] = to], Proceed(f, "event"), UNCHANGED <<line, cancelled>>,
              UNCHANGED <<due, tasks, at, hand>>
       PROVE  DelaysKept' /\ LatesFirst'
  <2>1. \A t \in Held(timers) : t.id # f
    BY <1>1, <1>13, NoTimer
  <2>2. step[f] = place /\ line[f] \in DOMAIN Script[f] /\ Op(f).op = kind
    BY <1>1, <1>13, CallsUse
  <2>3. Wanted(f)' = to
    BY <1>2, <1>13, <2>2 DEF Wanted, Op
  <2>4. Timed /\ \A g \in Fiber : g # f => since'[g] = since[g] /\ Own(g)
    BY <1>1, <1>13, <2>1, <2>2, <2>3, SetLimitCounts DEF Timed, Own
  <2>5. (\A g \in Fiber : g # f => Alone(g)) /\ step'[f] = "event"
    BY <1>1, <1>2, <1>13, <2>4, OneMoves DEF Alone
  <2>6. CallCounts(f)'
    BY <1>4, <1>5, <1>13, <2>2, <2>5
  <2> QED
    BY <1>7, <1>8, <1>13, <2>4, <2>5, <2>6 DEF Stays
<1>14. ASSUME NEW kind \in {"io", "connect"}, NEW place \in {"call", "try"}, Calls(w, f, kind, place),
              NEW to, limit' = [limit EXCEPT ![f] = to], Proceed(f, "kernel"),
              UNCHANGED <<line, cancelled, since, timers, armed, due, tasks, at, hand>>
       PROVE  DelaysKept' /\ LatesFirst'
  <2>1. (\A g \in Fiber : g # f => Alone(g) /\ Own(g)) /\ step'[f] = "kernel"
    BY <1>1, <1>2, <1>14, OneMoves DEF Alone, Own
  <2>2. step[f] = place /\ \A t \in Held(timers) : t.id # f
    BY <1>1, <1>14, NoTimer, CallsUse
  <2>3. CallCounts(f)'
    BY <1>4, <1>5, <1>14, <2>1, <2>2
  <2> QED
    BY <1>7, <1>8, <1>10, <1>14, <2>1, <2>2, <2>3 DEF Stays
<1>15. limit[f] \in Delay \cup {NoLimit} /\ limit = [limit EXCEPT ![f] = limit[f]]
  BY <1>2
<1>23. CASE TryIo(w, f)
  <2>1. Calls(w, f, "io", "try") /\ UNCHANGED <<due, tasks, at, hand>>
    BY <1>23 DEF TryIo, schedVars, idleVars
  <2>2. CASE UNCHANGED timerVars /\ \E value : Return(f, value)
    BY <1>7, <1>11, <2>1, <2>2 DEF timerVars
  <2>3. CASE SetLimit(f, limit[f]) /\ Proceed(f, "event") /\ UNCHANGED <<line, limit, cancelled>>
    BY <1>13, <1>15, <2>1, <2>3
  <2>4. CASE Proceed(f, "kernel") /\ UNCHANGED <<line, limit, cancelled, since, timerVars>>
    BY <1>14, <1>15, <2>1, <2>4 DEF timerVars
  <2> QED
    BY <1>23, <2>2, <2>3, <2>4 DEF TryIo
<1>24. CASE TryConnect(w, f)
  <2>1. Calls(w, f, "connect", "call") /\ UNCHANGED <<due, tasks, at, hand>>
    BY <1>24 DEF TryConnect, schedVars, idleVars
  <2>2. CASE UNCHANGED timerVars /\ \E value : Return(f, value)
    BY <1>7, <1>11, <2>1, <2>2 DEF timerVars
  <2>3. CASE /\ SetLimit(f, ConnectTimeout) /\ limit' = [limit EXCEPT ![f] = ConnectTimeout]
             /\ Proceed(f, "event") /\ UNCHANGED <<line, cancelled>>
    BY <1>13, <2>1, <2>3, HookAssumption
  <2>4. CASE /\ Proceed(f, "kernel") /\ limit' = [limit EXCEPT ![f] = ConnectTimeout]
             /\ UNCHANGED <<line, cancelled, since, timerVars>>
    BY <1>14, <2>1, <2>4 DEF timerVars
  <2> QED
    BY <1>24, <2>2, <2>3, <2>4 DEF TryConnect
<1>31. CASE LeaveKernel(w, f)
  <2>1. PICK kind \in {"io", "connect"} : Calls(w, f, kind, "kernel")
    BY <1>31 DEF LeaveKernel
  <2>2. UNCHANGED <<due, tasks, at, hand>>
    BY <1>31 DEF LeaveKernel, schedVars, idleVars
  <2>3. CASE UNCHANGED timerVars /\ \E value : Return(f, value)
    BY <1>7, <1>11, <2>1, <2>2, <2>3 DEF timerVars
  <2>4. CASE SetLimit(f, limit[f]) /\ Proceed(f, "event") /\ UNCHANGED <<line, limit, cancelled>>
    BY <1>13, <1>15, <2>1, <2>2, <2>4
  <2> QED
    BY <1>31, <2>3, <2>4 DEF LeaveKernel
<1>25. CASE AwaitEvent(w, f)
  <2>1. /\ step[f] = "event" /\ Proceed(f, "yield")
        /\ UNCHANGED <<line, limit, cancelled, since, timers, armed, due, tasks, at, hand>>
    BY <1>25 DEF AwaitEvent, Calls, timerVars, schedVars, idleVars
  <2>2. CallCounts(f)'
    BY <1>1, <1>4, <1>5, <2>1, OneMoves
  <2> QED
    BY <1>7, <1>12, <2>1, <2>2 DEF Stays
<1>26. CASE YieldInCall(w, f)
  <2>1. PICK kind \in {"sleep", "io", "connect"} : Calls(w, f, kind, "yield")
    BY <1>26 DEF YieldInCall
  <2>2. /\ Proceed(f, "woken") /\ HandBack(w)
        /\ UNCHANGED <<line, limit, cancelled, since, timers, armed, due, tasks>>
    BY <1>26 DEF YieldInCall, Yield, timerVars, idleVars
  <2>3. step[f] = "yield" /\ (Op(f).op = "sleep" => InTimers(f))
    BY <1>1, <2>1, RunningFacts DEF Only
  <2>4. Op(f).op = "sleep" => f \in armed
    BY <2>3, InvParts DEF SleepersFit
  <2>5. CallCounts(f)'
    BY <1>4, <2>2, <2>3, <2>4 DEF CallCounts, Op
  <2>6. Stays
    BY <1>2, <2>2 DEF HandBack, Goto, Stays
  <2> QED
    BY <1>7, <1>12, <2>2, <2>5, <2>6
<1>27. CASE WakeFromEvent(w, f)
  <2>1. step[f] = "woken" /\ Cancel(f) /\ UNCHANGED <<due, tasks, at, hand>>
    BY <1>27 DEF WakeFromEvent, Calls, ioVars, schedVars, idleVars
  <2>2. Held(timers') = {t \in Held(timers) : t.id # f} /\ armed' = armed \ {f}
    BY <1>1, <2>1, HookAssumption, CancelFacts
  <2>3. Timed /\ \A g \in Fiber : g # f => Own(g)
    BY <2>2 DEF Timed, Own
  <2>4. CASE \E value : Return(f, value)
    BY <1>7, <1>8, <1>9, <2>1, <2>3, <2>4 DEF Stays
  <2>5. CASE ~cancelled[f] /\ Proceed(f, "try") /\ UNCHANGED <<line, limit, cancelled, since>>
    <3>1. (\A g \in Fiber : g # f => Alone(g)) /\ step'[f] = "try" /\ cancelled'[f] = FALSE
      BY <1>1, <1>2, <2>5, OneMoves DEF Alone
    <3> QED
      BY <1>5, <1>7, <1>8, <2>1, <2>3, <3>1 DEF Stays
  <2> QED
    BY <1>27, <2>4, <2>5 DEF WakeFromEvent
<1>28. CASE Close(w, f)
  <2>1. /\ Calls(w, f, "close", "call") /\ Return(f, "ok") /\ CancelEvent(Op(f).fd, Event)
        /\ UNCHANGED <<timers, armed, due, at, hand>>
    BY <1>28 DEF Close, timerVars, idleVars
  <2>2. Op(f).fd \in Fd
    BY <1>1, <2>1, CallsUse
  <2>3. FibersAdded
    BY <1>1, <2>1, <2>2, AddCancelled
  <2> QED
    BY <1>11, <2>1, <2>3
<1>29. CASE SetTimeLimit(w, f) \/ SetNonblock(w, f)
  <2>1. /\ \E kind : Calls(w, f, kind, "call")
        /\ \E value : Return(f, value)
        /\ UNCHANGED <<timers, armed, due, tasks, at, hand>>
    BY <1>29 DEF SetTimeLimit, SetNonblock, timerVars, ioVars, schedVars, idleVars
  <2> QED
    BY <1>7, <1>11, <2>1
<1>30. CASE EndFiber(w, f)
  <2>1. /\ HandBack(w) /\ UNCHANGED <<line, step, limit, cancelled, since, timers, armed, due, tasks>>
    BY <1>30 DEF EndFiber, Yield, fiberVars, timerVars, idleVars
  <2>2. Stays
    BY <1>2, <2>1 DEF HandBack, Goto, Stays
  <2>3. CallCounts(f)'
    BY <1>3, <2>1, StillCounts
  <2>4. Proceed(f, step[f])
    BY <1>2, <2>1 DEF Proceed
  <2> QED
    BY <1>7, <1>12, <2>1, <2>2, <2>3, <2>4
<1> QED
  BY <1>20, <1>21, <1>22, <1>23, <1>24, <1>25, <1>26, <1>27, <1>28, <1>29, <1>30, <1>31 DEF Running

\* What expires goes from timers_ to idle(): the delay of a call is over.
LEMMA ExpireKept ==
  ASSUME Types, FibersAgree, DelaysKept, LatesFirst, NEW w, Worker = {w}, Expire(w),
         UNCHANGED <<fiberVars, since>>
  PROVE  DelaysKept' /\ LatesFirst'
<1>1. /\ TimersTypeOK /\ SchedTypes /\ FiberTypes /\ IdleTypes /\ WellOrdered(timers) /\ w \in Worker
      /\ WorkersFit /\ ArmedIsQueued /\ FibersFit /\ SleepersFit
      /\ \A t \in Held(timers) : TimerFits(t) /\ Counts(t)
  BY InvParts, HeldView, DelaysView
<1>2. /\ at[w] = "expire" /\ at'[w] = "push" /\ UNCHANGED <<tasks, hand>> /\ ListExpired
      /\ due'[w] = [k \in DOMAIN Expired |-> Expired[k].cb]
      /\ UNCHANGED <<line, step, limit, cancelled, since>>
  BY <1>1 DEF Expire, Goto, SchedTypes, IdleTypes, fiberVars
<1>3. /\ Held(timers') = {t \in Held(timers) : t.left # 0}
                         \cup {[t EXCEPT !.left = t.ms] : t \in {t \in Held(timers) : t.left = 0 /\ t.recurring}}
      /\ armed' = armed \ {t.id : t \in {t \in Held(timers) : t.left = 0 /\ ~t.recurring}}
  BY <1>1, <1>2, ListExpiredFacts
<1>4. /\ \A t \in Held(timers) : Counts(t)
      /\ \A g \in Fiber : CallCounts(g)
      /\ \A t \in Held(tasks) : LateFits(t)
      /\ LateFits(hand[w])
  BY DelaysView
<1>5. \A t \in Held(timers) : /\ t.id \in TimerId /\ t.left \in Nat /\ t.ms \in Nat
                              /\ [t EXCEPT !.left = t.ms].id = t.id
  BY <1>1, QueueFacts DEF Held, Timer, Delay
\* The delay of a fiber whose timer expires is over, and the fiber is not running.
<1>6. ASSUME NEW t \in Held(timers), t.left = 0, NEW f \in Fiber, t.id = f
      PROVE  since[f] >= Wanted(f) /\ step[f] = "woken" /\ t.cb = CallbackOf(f) /\ ~t.recurring
  <2>1. /\ step[f] \in {"event", "yield", "woken"} /\ t.cb = CallbackOf(f) /\ ~t.recurring
        /\ t.ms = Wanted(f) /\ since[f] + t.left >= t.ms
    BY <1>1, <1>6 DEF TimerFits, Counts
  <2>2. since[f] >= Wanted(f)
    BY <1>1, <1>5, <1>6, <2>1 DEF FiberTypes, Delay
  <2>3. ~Runs(f)
    BY <1>2 DEF Runs
  <2>4. state[f] # "RUNNING" /\ StepFits(f) /\ state[f] \in {"NEW", "READY", "RUNNING", "TERM"}
    BY <1>1, <2>3 DEF FibersFit, SchedTypes
  <2> QED
    BY <2>1, <2>2, <2>4 DEF StepFits
<1>7. ASSUME NEW t \in Held(timers') PROVE Counts(t)'
  <2>1. CASE t \in Held(timers)
    BY <1>2, <1>4, <2>1, StillCounts DEF Counts
  <2>2. CASE \E u \in Held(timers) : u.left = 0 /\ u.recurring /\ t = [u EXCEPT !.left = u.ms]
    <3>1. t.id \notin Fiber
      BY <1>5, <1>6, <2>2
    <3> QED
      BY <3>1 DEF Counts
  <2> QED
    BY <1>3, <2>1, <2>2
<1>8. ASSUME NEW g \in Fiber PROVE CallCounts(g)'
  <2>1. CASE g \in armed => g \in armed'
    BY <1>2, <1>4, <2>1, StillCounts
  <2>2. CASE g \in armed /\ g \notin armed'
    <3>1. PICK t \in Held(timers) : t.left = 0 /\ t.id = g
      BY <1>3, <2>2
    <3>2. since[g] >= Wanted(g)
      BY <1>6, <3>1
    <3> QED
      BY <1>2, <1>4, <3>2 DEF CallCounts, Wanted, Op
  <2> QED
    BY <2>1, <2>2
<1>9. ASSUME NEW t \in Held(due'[w]) PROVE LateFits(t)'
  <2>1. PICK k \in DOMAIN Expired : t = Expired[k].cb
    BY <1>2 DEF Held
  <2>2. k \in Due /\ Expired[k] = timers[k]
    BY <1>1, <2>1, ExpiredFacts
  <2>3. PICK u : u = timers[k]
    OBVIOUS
  <2>4. u \in Held(timers) /\ u.left = 0 /\ t = u.cb
    BY <2>1, <2>2, <2>3 DEF Due, Held
  <2>5. CASE u.id \in Fiber
    <3>1. PICK f \in Fiber : f = u.id
      BY <2>5
    <3>2. since[f] >= Wanted(f) /\ step[f] = "woken" /\ t = CallbackOf(f)
      BY <1>6, <2>4, <3>1
    <3>3. CASE Op(f).op = "sleep"
      <4>1. t.kind = "wake"
        BY <3>2, <3>3, TasksDiffer DEF CallbackOf
      <4> QED
        BY <4>1 DEF LateFits
    <3>4. CASE Op(f).op # "sleep"
      <4>1. t.kind = "timeout" /\ t.fiber = f /\ t.call = line[f]
        BY <3>2, <3>4 DEF CallbackOf, TimeoutTask
      <4> QED
        BY <1>2, <3>2, <3>4, <4>1 DEF LateFits, Wanted
    <3> QED
      BY <3>3, <3>4
  <2>6. CASE u.id \in UserTimer
    <3>1. t.kind = "user"
      BY <1>1, <2>4, <2>6, TasksDiffer DEF TimerFits
    <3> QED
      BY <3>1 DEF LateFits
  <2> QED
    BY <1>5, <2>4, <2>5, <2>6, HookAssumption
<1>10. (\A t \in Held(tasks') : LateFits(t)') /\ LateFits(hand[w])'
  BY <1>2, <1>4 DEF LateFits
<1>11. DelaysKept'
  BY <1>7, <1>8, <1>9, <1>10, DelaysView
<1>12. LatesFirst'
  BY <1>2, LatesView DEF Resting
<1> QED
  BY <1>11, <1>12

\* Every step of the loop of run() and of idle() keeps the two.
LEMMA SchedulingKept ==
  ASSUME Types, FibersAgree, FibersAgree', DelaysKept, LatesFirst, NEW w, Worker = {w},
         Scheduling(w), UNCHANGED <<fiberVars, since, sock, mainAt>>
  PROVE  DelaysKept' /\ LatesFirst'
<1>1. /\ TimersTypeOK /\ SchedTypes /\ EventTypes /\ IdleTypes /\ w \in Worker /\ WorkersFit /\ TasksFit
      /\ GotFits
  BY InvParts
<1>2. /\ tasks \in Seq(Task) /\ due[w] \in Seq(Task) /\ at \in [Worker -> Places]
      /\ hand \in [Worker -> Task \cup {NoTask}] /\ due \in [Worker -> Seq(Task)]
      /\ UNCHANGED <<line, step, since, limit, cancelled>>
  BY <1>1 DEF SchedTypes, IdleTypes, fiberVars
<1>3. /\ \A t \in Held(timers) : Counts(t)
      /\ \A g \in Fiber : CallCounts(g)
      /\ \A t \in Held(tasks) : LateFits(t)
      /\ LateFits(hand[w])
      /\ \A t \in Held(due[w]) : LateFits(t)
  BY DelaysView
<1>4. /\ Order(tasks)
      /\ hand[w].kind = "fiber" => \A t \in Held(tasks) : t.kind = "timeout" => t.fiber # hand[w].fiber
      /\ at[w] \in Resting => \A t \in Held(tasks) : t.kind = "fiber" => step[t.fiber] = "call"
  BY LatesView
<1>5. UNCHANGED tasks => FibersAdded
  BY DEF FibersAdded
<1>6. tasks = <<>> => Held(tasks) = {}
  BY SingleFacts DEF Held
<1>7. ~panicked'
  BY DEF FibersAgree, NoPanic
\* Neither timers nor time-outs change.
<1>8. ASSUME UNCHANGED <<timers, armed, due>>, FibersAdded, hand'[w] \in {hand[w], NoTask},
             at'[w] \in Resting => (at[w] \in Resting \/ tasks = <<>>) /\ UNCHANGED tasks
      PROVE  DelaysKept' /\ LatesFirst'
  BY <1>2, <1>4, <1>6, <1>8, QuietDelays
\* The timers that are there, and the calls, stay as they are.
<1>9. ASSUME UNCHANGED <<timers, armed>>
      PROVE  /\ \A t \in Held(timers') : Counts(t)'
             /\ \A g \in Fiber : CallCounts(g)'
             /\ \A t : LateFits(t) => LateFits(t)'
  <2>1. \A t : (Counts(t) => Counts(t)') /\ (LateFits(t) => LateFits(t)')
    BY <1>2, StillCounts DEF Counts, LateFits
  <2>2. \A g \in Fiber : CallCounts(g)'
    BY <1>2, <1>3, <1>9, StillCounts
  <2> QED
    BY <1>3, <1>9, <2>1, <2>2
<1>10. CASE TakeTask(w)
  <2>1. /\ at[w] = "look" /\ tasks # <<>> /\ tasks' = Tail(tasks) /\ hand'[w] = Head(tasks)
        /\ at'[w] = "resume" /\ UNCHANGED <<timers, armed, due>>
    BY <1>1, <1>2, <1>7, <1>10 DEF TakeTask, Goto, timerVars, idleVars
  <2>2. /\ Head(tasks) \in Held(tasks) /\ Held(tasks') \subseteq Held(tasks) /\ Order(tasks')
        /\ Head(tasks).kind = "fiber" =>
             \A t \in Held(tasks') : t.kind = "timeout" => t.fiber # Head(tasks).fiber
    BY <1>2, <1>4, <2>1, OrderTail
  <2>3. LateFits(Head(tasks))
    BY <1>3, <2>2
  <2>4. LateFits(hand[w])'
    BY <1>2, <2>1, <2>3 DEF LateFits
  <2>5. DelaysKept'
    BY <1>3, <1>9, <2>1, <2>2, <2>4, DelaysView
  <2>6. LatesFirst'
    BY <2>1, <2>2, LatesView DEF Resting
  <2> QED
    BY <2>5, <2>6
<1>11. CASE FindNothing(w) \/ ResumeFiber(w) \/ Rest(w) \/ LeaveIdle(w)
  BY <1>1, <1>2, <1>5, <1>8, <1>11
     DEF FindNothing, ResumeFiber, Rest, LeaveIdle, Goto, timerVars, idleVars, Resting
<1>12. CASE Idle(w) \/ WaitOrStop(w) \/ EpollWait(w) \/ ReadPipe(w)
  BY <1>1, <1>2, <1>5, <1>8, <1>12
     DEF Idle, WaitOrStop, EpollWait, ReadPipe, GetNextTimer, Goto, timerVars, schedVars, Resting
<1>13. CASE RunWake(w)
  <2>1. Schedule(<<FiberTask(hand[w].fiber)>>) /\ hand[w].kind = "wake"
    BY <1>13 DEF RunWake
  <2>2. hand[w].fiber \in Fiber
    BY <1>1, <2>1, HandFacts
  <2>3. FibersAdded
    BY <1>2, <2>1, <2>2, AddOne
  <2> QED
    BY <1>1, <1>2, <1>8, <1>13, <2>3 DEF RunWake, HandBack, Goto, timerVars, idleVars, Resting
<1>14. CASE RunUser(w)
  BY <1>1, <1>2, <1>5, <1>8, <1>14 DEF RunUser, HandBack, Goto, timerVars, idleVars, Resting
<1>15. CASE \E d \in Fd : HandleEvent(w, d)
  <2>1. PICK d \in Fd : HandleEvent(w, d)
    BY <1>15
  <2>2. at[w] = "events" /\ UNCHANGED <<timers, armed, due, at, hand>>
    BY <2>1 DEF HandleEvent, timerVars
  <2>3. \/ UNCHANGED tasks
        \/ \E es : es \subseteq Waiting(d) /\ Trigger(d, es)
    BY <1>7, <2>1 DEF HandleEvent
  <2>4. FibersAdded
    BY <1>1, <1>5, <2>3, AddWoken
  <2> QED
    BY <1>8, <2>2, <2>4 DEF Resting
<1>16. CASE PushExpired(w)
  <2>1. at[w] = "push" /\ UNCHANGED <<timers, armed, hand>>
    BY <1>16 DEF PushExpired, timerVars
  <2>2. CASE due[w] = <<>>
    BY <1>1, <1>2, <1>5, <1>8, <1>16, <2>1, <2>2 DEF PushExpired, Goto, Resting
  <2>3. CASE due[w] # <<>>
    <3>1. PICK h : h = Head(due[w])
      OBVIOUS
    <3>2. Schedule(<<h>>) /\ due'[w] = Tail(due[w]) /\ UNCHANGED at
      BY <1>1, <1>2, <1>16, <2>3, <3>1 DEF PushExpired
    <3>3. h \in Held(due[w]) /\ Held(due'[w]) \subseteq Held(due[w])
      BY <1>2, <2>3, <3>1, <3>2, OrderTail
    <3>4. h \in Task /\ LateFits(h) /\ h.kind # "fiber"
      <4>1. h \in Task
        BY <1>2, <3>3, HeldTasks
      <4>2. h.kind # "fiber"
        BY <1>1, <3>3 DEF TasksFit, Held
      <4> QED
        BY <1>3, <3>3, <4>1, <4>2
    <3>5. tasks' = tasks \o <<h>> /\ <<h>> \in Seq(Task) /\ Held(<<h>>) = {h}
      BY <3>2, <3>4, SingleFacts DEF Schedule, Held
    <3>6. Order(<<h>>)
      BY <3>4, SingleFacts DEF Order
    <3>7. \A a \in Held(tasks), b \in Held(<<h>>) :
            ~(a.kind = "fiber" /\ b.kind = "timeout" /\ a.fiber = b.fiber)
      <4>1. \A t \in Held(tasks) : t.kind = "fiber" => step[t.fiber] = "call"
        BY <1>4, <2>1 DEF Resting
      <4>2. h.kind = "timeout" => step[h.fiber] = "woken"
        BY <3>4 DEF LateFits
      <4>3. \A t \in Held(tasks) : ~(t.kind = "fiber" /\ h.kind = "timeout" /\ t.fiber = h.fiber)
        BY <4>1, <4>2
      <4> QED
        BY <3>5, <4>3
    <3>8. Held(tasks') = Held(tasks) \cup {h} /\ Order(tasks')
      <4>1. PICK u \in Seq(Task) : u = <<h>>
        BY <3>5
      <4>2. Order(u) /\ Held(u) = {h} /\ tasks' = tasks \o u
        BY <3>5, <3>6, <4>1
      <4>3. \A a \in Held(tasks), b \in Held(u) :
              ~(a.kind = "fiber" /\ b.kind = "timeout" /\ a.fiber = b.fiber)
        BY <3>7, <4>1
      <4>4. tasks \in Seq(Task) /\ Order(tasks)
        BY <1>2, <1>4
      <4>5. Held(tasks \o u) = Held(tasks) \cup Held(u) /\ Order(tasks \o u)
        BY ONLY <4>1, <4>2, <4>3, <4>4, OrderConcat
      <4> QED
        BY <4>2, <4>5
    <3>9. \A t \in Held(due'[w]) : LateFits(t)'
      BY <1>3, <1>9, <2>1, <3>3
    <3>10. \A t \in Held(tasks') : LateFits(t)'
      BY <1>3, <1>9, <2>1, <3>4, <3>8
    <3>11. LateFits(hand[w])'
      BY <1>2, <1>3, <2>1 DEF LateFits
    <3>12. DelaysKept'
      BY <1>9, <2>1, <3>9, <3>10, <3>11, DelaysView
    <3>13. hand[w] = NoTask
      BY <1>1, <2>1 DEF WorkersFit
    <3>14. \A t \in Held(tasks') : t.kind = "fiber" => step'[t.fiber] = "call"
      BY <1>2, <1>4, <2>1, <3>4, <3>8 DEF Resting
    <3>15. LatesFirst'
      BY <2>1, <3>8, <3>13, <3>14, TasksDiffer, LatesView
    <3> QED
      BY <3>12, <3>15
  <2> QED
    BY <2>2, <2>3
<1>17. CASE Expire(w)
  BY <1>17, ExpireKept
<1> QED
  BY <1>10, <1>11, <1>12, <1>13, <1>14, <1>15, <1>16, <1>17 DEF Scheduling

\* The main thread leaves the timers of fibers alone.
LEMMA FiberTimersStay ==
  ASSUME Types, FibersAgree, ProperUse, UseTimer
  PROVE  /\ \A t \in Held(timers') : t.id \in Fiber => t \in Held(timers)
         /\ \A g \in Fiber : g \in armed => g \in armed'
<1>1. /\ TimersTypeOK /\ FiberTypes /\ MainFits /\ ArmedIsQueued /\ WellOrdered(timers)
      /\ \A t \in Held(timers) : TimerFits(t)
  BY InvParts, HeldView
<1>2. PICK id : id = MainOp.timer
  OBVIOUS
<1>3. mainAt <= Len(MainScript)
  BY DEF UseTimer, Does
<1>4. id \in UserTimer /\ id \in TimerId /\ id \notin Fiber
  <2>1. MainOp.op \in {"addTimer", "refresh", "cancel", "reset"}
    BY DEF UseTimer, Does, MainOp
  <2> QED
    BY <1>1, <1>2, <1>3, <2>1, MainFacts, HookAssumption
<1>5. ASSUME IsQueued(id), NEW u \in Timer, u.id = id, UNCHANGED armed,
             timers' \in Ordered(Replaced(id, u), DOMAIN timers, Others(id))
      PROVE  /\ \A t \in Held(timers') : t.id \in Fiber => t \in Held(timers)
             /\ \A g \in Fiber : g \in armed => g \in armed'
  BY <1>1, <1>4, <1>5, ReplacedFacts
<1>6. IsQueued(id) => QueuedTimer(id) \in Timer /\ QueuedTimer(id).id = id /\ QueuedTimer(id).left <= QueuedTimer(id).ms
  BY <1>1, QueuedTimerFacts, QueueFacts DEF Held, TimerFits
<1>10. CASE /\ Does("addTimer")
            /\ \E front \in BOOLEAN : AddTimer(id, MainOp.ms, MainOp.recurring, UserTask, front)
  <2>1. ~IsQueued(id)
    BY <1>1, <1>2, <1>10, AddedIsNew
  <2>2. MainOp.ms \in Delay /\ MainOp.recurring \in BOOLEAN /\ UserTask \in Callback
    BY <1>1, <1>3, <1>10, MainFacts, TaskFacts, HookAssumption DEF Does, MainOp
  <2>3. PICK front \in BOOLEAN : AddTimer(id, MainOp.ms, MainOp.recurring, UserTask, front)
    BY <1>10
  <2>4. PICK t : t = [id |-> id, left |-> MainOp.ms, ms |-> MainOp.ms, recurring |-> MainOp.recurring,
                      cb |-> UserTask]
    OBVIOUS
  <2>5. Held(timers') = Held(timers) \cup {t} /\ armed' = armed \cup {id}
    BY <1>1, <1>4, <2>1, <2>2, <2>3, <2>4, AddTimerFacts
  <2>6. t.id = id
    BY <2>4
  <2> QED
    BY <1>4, <2>5, <2>6
<1>11. CASE Refresh(id)
  <2>1. CASE id \in armed /\ IsQueued(id)
    <3> DEFINE t == QueuedTimer(id)
               u == [t EXCEPT !.left = t.ms]
    <3>1. timers' \in Ordered(Replaced(id, u), DOMAIN timers, Others(id)) /\ UNCHANGED armed
      BY <1>11, <2>1 DEF Refresh
    <3>2. t \in Timer /\ t.id = id
      BY <1>6, <2>1
    <3> HIDE DEF t
    <3>3. u \in Timer /\ u.id = id
      BY <3>2 DEF Timer, Delay
    <3> QED
      BY <1>5, <2>1, <3>1, <3>3
  <2> QED
    BY <1>11, <2>1 DEF Refresh
<1>12. CASE Does("reset") /\ \E front \in BOOLEAN : Reset(id, MainOp.ms, MainOp.fromNow, front)
  <2> DEFINE ms == MainOp.ms
             fromNow == MainOp.fromNow
  <2>1. PICK front \in BOOLEAN : Reset(id, ms, fromNow, front)
    BY <1>12
  <2>2. ms \in Delay
    BY <1>1, <1>3, <1>12, MainFacts DEF Does, MainOp
  <2> HIDE DEF ms, fromNow
  <2>3. CASE id \in armed /\ IsQueued(id) /\ (fromNow \/ ms # QueuedTimer(id).ms)
    <3> DEFINE t == QueuedTimer(id)
               left == IF fromNow THEN ms ELSE AtLeast0(t.left - t.ms + ms)
               u == [t EXCEPT !.left = left, !.ms = ms]
    <3>1. t \in Timer /\ t.id = id /\ t.left <= t.ms
      BY <1>6, <2>3
    <3>2. Insert(Replaced(id, u), Others(id), id, front) /\ UNCHANGED armed
      BY <2>1, <2>3 DEF Reset
    <3>3. DOMAIN Replaced(id, u) = DOMAIN timers
      BY DEF Replaced
    <3> HIDE DEF t
    <3>4. left \in Delay
      BY <2>2, <3>1, DelayAssumption DEF Timer, Delay, AtLeast0
    <3> HIDE DEF left
    <3>5. u \in Timer /\ u.id = id
      BY <2>2, <3>1, <3>4 DEF Timer
    <3> HIDE DEF u
    <3>6. timers' \in Ordered(Replaced(id, u), DOMAIN timers, Others(id))
      BY <3>2, <3>3 DEF Insert
    <3> QED
      BY <1>5, <2>3, <3>2, <3>5, <3>6
  <2> QED
    BY <2>1, <2>3 DEF Reset, timerVars
<1>13. CASE Cancel(id)
  BY <1>1, <1>4, <1>13, CancelFacts
<1> QED
  BY <1>2, <1>10, <1>11, <1>12, <1>13 DEF UseTimer

\* Time goes by for a timer and for the fiber that waits for it.
LEMMA TickKept ==
  ASSUME Types, FibersAgree, DelaysKept, LatesFirst, NEW w, Worker = {w}, Tick
  PROVE  DelaysKept' /\ LatesFirst'
<1>1. /\ TimersTypeOK /\ FiberTypes /\ SchedTypes /\ IdleTypes /\ WellOrdered(timers) /\ w \in Worker
      /\ \A t \in Held(timers) : TimerFits(t)
  BY InvParts, HeldView
<1>2. /\ since' = [f \in Fiber |-> AtMost(since[f] + 1, MaxDelay)]
      /\ timers' = Sooner(timers)
      /\ UNCHANGED <<line, step, limit, cancelled, armed, tasks, hand, at, due>>
  BY DEF Tick, fiberVars, schedVars
<1>3. /\ \A t \in Held(timers) : Counts(t)
      /\ \A f \in Fiber : CallCounts(f)
      /\ \A t \in Held(tasks) : LateFits(t)
      /\ LateFits(hand[w])
      /\ \A t \in Held(due[w]) : LateFits(t)
  BY DelaysView
<1>4. /\ since \in [Fiber -> Delay] /\ limit \in [Fiber -> Delay \cup {NoLimit}] /\ MaxDelay \in Nat
      /\ tasks \in Seq(Task) /\ due[w] \in Seq(Task) /\ hand[w] \in Task \cup {NoTask}
  BY <1>1, DelayAssumption DEF FiberTypes, SchedTypes, IdleTypes
<1>5. ASSUME NEW f \in Fiber
      PROVE  /\ Op(f)' = Op(f) /\ Wanted(f)' = Wanted(f)
             /\ since'[f] = AtMost(since[f] + 1, MaxDelay)
             /\ since'[f] >= since[f] /\ since[f] \in Delay /\ since'[f] \in Delay
  BY <1>2, <1>4 DEF Op, Wanted, AtMost, Delay
<1>6. ASSUME NEW x \in Int, NEW f \in Fiber, since[f] >= x PROVE since'[f] >= x
  BY <1>5, <1>6 DEF Delay
<1>7. ASSUME NEW u \in Held(timers') PROVE Counts(u)'
  <2>1. PICK t \in Held(timers) : u = [t EXCEPT !.left = AtLeast0(t.left - 1)]
    BY <1>1, <1>2, SoonerFacts
  <2>2. t \in Timer /\ t.left <= t.ms /\ Counts(t)
    BY <1>1, <1>3, <2>1, QueueFacts DEF Held, TimerFits
  <2>3. /\ u.id = t.id /\ u.ms = t.ms /\ u.left = AtLeast0(t.left - 1)
        /\ t.left \in Delay /\ t.ms \in Delay
    BY <2>1, <2>2 DEF Timer
  <2>4. ASSUME t.id \in Fiber PROVE u.ms = Wanted(t.id)' /\ since'[t.id] + u.left >= u.ms
    <3>1. t.ms = Wanted(t.id) /\ since[t.id] + t.left >= t.ms
      BY <2>2, <2>4 DEF Counts
    <3>2. since'[t.id] = AtMost(since[t.id] + 1, MaxDelay) /\ since[t.id] \in Delay
      BY <1>5, <2>4
    <3>3. since'[t.id] + u.left >= u.ms
      BY <1>4, <2>2, <2>3, <3>1, <3>2 DEF Delay, AtMost, AtLeast0
    <3> QED
      BY <1>5, <2>3, <2>4, <3>1, <3>3
  <2> QED
    BY <2>3, <2>4 DEF Counts
<1>8. ASSUME NEW f \in Fiber PROVE CallCounts(f)'
  <2>1. CallCounts(f) /\ limit[f] \in Int
    BY <1>3, <1>4 DEF Delay, NoLimit
  <2>2. cancelled'[f] => step'[f] = "woken" /\ since'[f] >= limit'[f]
    BY <1>2, <1>6, <2>1 DEF CallCounts
  <2>3. ASSUME step'[f] = "woken", Op(f)'.op = "sleep", f \notin armed' PROVE since'[f] >= Wanted(f)'
    <3>1. Op(f).op = "sleep" /\ since[f] >= Wanted(f)
      BY <1>2, <1>5, <2>1, <2>3 DEF CallCounts
    <3>2. Wanted(f) \in Int
      <4>1. step[f] # "call"
        BY <1>2, <2>3
      <4>2. line[f] \in DOMAIN Script[f]
        BY <4>1, InvParts DEF FibersFit, StepFits
      <4>3. Millis(Op(f).time) \in Delay
        BY <3>1, <4>2, ScriptFacts DEF Op
      <4> QED
        BY <3>1, <4>3 DEF Delay, Wanted
    <3> QED
      BY <1>5, <1>6, <3>1, <3>2
  <2> QED
    BY <2>2, <2>3 DEF CallCounts
<1>9. ASSUME NEW t \in Task \cup {NoTask}, LateFits(t) PROVE LateFits(t)'
  <2>1. ASSUME t.kind = "timeout"
        PROVE  t.call = line'[t.fiber] /\ step'[t.fiber] = "woken" /\ since'[t.fiber] >= limit'[t.fiber]
    <3>1. t.fiber \in Fiber
      BY <2>1, TaskFacts, TasksDiffer
    <3>2. limit[t.fiber] \in Int
      BY <1>4, <3>1 DEF Delay, NoLimit
    <3> QED
      BY <1>2, <1>6, <1>9, <2>1, <3>1, <3>2 DEF LateFits
  <2> QED
    BY <2>1 DEF LateFits
<1>10. (\A t \in Held(tasks') : LateFits(t)') /\ LateFits(hand[w])' /\ \A t \in Held(due'[w]) : LateFits(t)'
  <2>1. \A t \in Held(tasks) : t \in Task
    BY <1>4, HeldTasks
  <2>2. \A t \in Held(due[w]) : t \in Task
    BY <1>4, HeldTasks
  <2>3. LateFits(hand[w])'
    <3>1. LateFits(hand[w]) /\ hand[w] \in Task \cup {NoTask} /\ hand'[w] = hand[w]
      BY <1>2, <1>3, <1>4
    <3> QED
      BY <1>9, <3>1 DEF LateFits
  <2> QED
    BY <1>2, <1>3, <1>9, <2>1, <2>2, <2>3
<1>11. DelaysKept'
  BY <1>7, <1>8, <1>10, DelaysView
<1>12. LatesFirst'
  BY <1>2 DEF LatesFirst
<1> QED
  BY <1>11, <1>12

\* The callback of a time limit, which marks a call that has waited for as long.
LEMMA TimeoutKept ==
  ASSUME Types, FibersAgree, DelaysKept, LatesFirst, NEW w, Worker = {w}, RunTimeout(w)
  PROVE  DelaysKept' /\ LatesFirst'
<1>1. /\ SchedTypes /\ FiberTypes /\ WorkersFit /\ TasksFit /\ w \in Worker
      /\ at[w] = "resume" /\ hand[w].kind = "timeout"
  BY InvParts DEF RunTimeout
<1>2. PICK f : f = hand[w].fiber
  OBVIOUS
<1>3. f \in Fiber
  BY <1>1, <1>2, HandFacts
<1>4. UNCHANGED <<timers, armed, tasks, due, line, step, limit, since>>
  BY DEF RunTimeout, timerVars, idleVars
<1>5. FibersAdded
  BY <1>4 DEF FibersAdded
<1>6. CASE HandBack(w) /\ UNCHANGED cancelled
  <2>1. hand'[w] = NoTask /\ at'[w] = "look"
    BY <1>1, <1>6 DEF HandBack, Goto, SchedTypes
  <2>2. /\ \A t \in Held(timers') : t.id \in Fiber => t \in Held(timers)
        /\ \A g \in Fiber : g \in armed => g \in armed'
    BY <1>4
  <2>3. at'[w] \notin Resting
    BY <2>1 DEF Resting
  <2> QED
    BY <1>4, <1>5, <1>6, <2>1, <2>2, <2>3, QuietDelays
<1>7. CASE /\ line[f] = hand[w].call /\ cancelled' = [cancelled EXCEPT ![f] = TRUE]
           /\ Goto(w, "cancel") /\ UNCHANGED hand
  <2>1. /\ \A t \in Held(timers) : Counts(t)
        /\ \A g \in Fiber : CallCounts(g)
        /\ \A t \in Held(tasks) : LateFits(t)
        /\ LateFits(hand[w])
        /\ \A t \in Held(due[w]) : LateFits(t)
    BY DelaysView
  <2>2. step[f] = "woken" /\ since[f] >= limit[f]
    BY <1>1, <1>2, <2>1 DEF LateFits
  <2>3. \A t : (Counts(t) => Counts(t)') /\ (LateFits(t) => LateFits(t)')
    BY <1>4, StillCounts DEF Counts, LateFits
  <2>4. ASSUME NEW g \in Fiber PROVE CallCounts(g)'
    <3>1. CASE g = f
      <4>1. step[f] = "woken" /\ Op(f).op = "sleep" /\ f \notin armed => since[f] >= Wanted(f)
        BY <1>3, <2>1 DEF CallCounts
      <4>2. Op(f)' = Op(f) /\ Wanted(f)' = Wanted(f)
        BY <1>4 DEF Op, Wanted
      <4> QED
        BY <1>4, <2>2, <3>1, <4>1, <4>2 DEF CallCounts
    <3>2. CASE g # f
      <4>1. cancelled'[g] = cancelled[g]
        BY <1>1, <1>7, <3>2 DEF FiberTypes
      <4> QED
        BY <1>4, <2>1, <4>1, StillCounts
    <3> QED
      BY <3>1, <3>2
  <2>5. LateFits(hand[w])'
    BY <1>4, <1>7, <2>1 DEF LateFits
  <2>6. DelaysKept'
    <3>1. \A t \in Held(timers') : Counts(t)'
      BY <1>4, <2>1, <2>3
    <3>2. \A t \in Held(tasks') : LateFits(t)'
      BY <1>4, <2>1, <2>3
    <3>3. \A t \in Held(due'[w]) : LateFits(t)'
      BY <1>4, <2>1, <2>3
    <3> QED
      BY <2>4, <2>5, <3>1, <3>2, <3>3, DelaysView
  <2>7. at'[w] = "cancel"
    BY <1>1, <1>7 DEF Goto, SchedTypes
  <2>8. Order(tasks') /\ hand'[w].kind # "fiber" /\ at'[w] \notin Resting
    <3>1. Order(tasks)
      BY LatesView
    <3> QED
      BY <1>1, <1>4, <1>7, <2>7, <3>1 DEF Resting
  <2>9. LatesFirst'
    BY <2>8, LatesView
  <2> QED
    BY <2>6, <2>9
<1> QED
  BY <1>2, <1>6, <1>7 DEF RunTimeout

\* The main thread hands over fibers that are at the beginning of their calls.
LEMMA MainKept ==
  ASSUME Types, FibersAgree, ProperUse, DelaysKept, LatesFirst, NEW w, Worker = {w}, Main
  PROVE  DelaysKept' /\ LatesFirst'
<1>1. /\ SchedTypes /\ FiberTypes /\ MainFits /\ FibersFit /\ w \in Worker /\ tasks \in Seq(Task)
  BY InvParts DEF SchedTypes
<1>2. UNCHANGED <<line, step, since, limit, cancelled, due, hand, at>>
  <2>1. UNCHANGED <<fiberVars, since, due, hand, at>>
    BY DEF Main, Submit, UseTimer, Stop, SetStopped, TickleAll, Join, ioVars, schedVars, idleVars
  <2> QED
    BY <2>1 DEF fiberVars
<1>3. /\ \A t \in Held(timers') : t.id \in Fiber => t \in Held(timers)
      /\ \A g \in Fiber : g \in armed => g \in armed'
  <2>1. CASE UseTimer
    BY <2>1, FiberTimersStay
  <2>2. CASE ~UseTimer
    <3>1. UNCHANGED <<timers, armed>>
      BY <2>2 DEF Main, Submit, Stop, SetStopped, TickleAll, Join, GetNextTimer, timerVars
    <3> QED
      BY <3>1
  <2> QED
    BY <2>1, <2>2
<1>4. CASE Submit
  <2>1. PICK f : f = MainOp.fiber
    OBVIOUS
  <2>2. Does("scheduler") /\ Schedule(<<FiberTask(f)>>)
    BY <1>4, <2>1 DEF Submit
  <2>3. f \in Fiber
    BY <1>1, <2>1, <2>2, MainFacts DEF Does, MainOp
  <2>4. FibersAdded /\ \A t \in Held(tasks') : t \in Held(tasks) \/ t = FiberTask(f)
    BY <1>1, <2>2, <2>3, AddOne
  <2>5. step[f] = "call"
    <3>1. state[f] = "NEW"
      BY <1>1, <2>1, <2>2, <2>3, SubmitNew
    <3> QED
      BY <1>1, <2>3, <3>1 DEF FibersFit, StepFits
  <2>6. at[w] \in Resting => \A t \in Held(tasks) : t.kind = "fiber" => step[t.fiber] = "call"
    BY LatesView
  <2>7. FiberTask(f).fiber = f
    BY TasksDiffer
  <2>8. at'[w] \in Resting => \A t \in Held(tasks') : t.kind = "fiber" => step[t.fiber] = "call"
    BY <1>2, <2>4, <2>5, <2>6, <2>7
  <2> QED
    BY <1>2, <1>3, <2>4, <2>8, QuietDelays
<1>5. CASE ~Submit
  <2>1. UNCHANGED tasks
    BY <1>5 DEF Main, UseTimer, Stop, SetStopped, TickleAll, Join, ioVars, schedVars
  <2>2. FibersAdded
    BY <2>1 DEF FibersAdded
  <2> QED
    BY <1>2, <1>3, <2>1, <2>2, QuietDelays
<1> QED
  BY <1>4, <1>5

\* Every step keeps DelaysKept and LatesFirst.
LEMMA LimitsStep ==
  ASSUME Types, FibersAgree, FibersAgree', ProperUse, DelaysKept, LatesFirst,
         NEW w, Worker = {w}, Next
  PROVE  DelaysKept' /\ LatesFirst'
<1>1. CASE Scheduling(w) /\ UNCHANGED <<fiberVars, since, sock, mainAt>>
  BY <1>1, SchedulingKept
<1>2. CASE RunTimeout(w)
  BY <1>2, TimeoutKept
<1>3. CASE CancelOfTimeout(w)
  <2>1. /\ SchedTypes /\ EventTypes /\ WorkersFit /\ TasksFit /\ w \in Worker
    BY InvParts
  <2>2. PICK c : c = Script[hand[w].fiber][hand[w].call]
    OBVIOUS
  <2>3. CancelEvent(c.fd, {Awaited(c)})
    BY <1>3, <2>2 DEF CancelOfTimeout
  <2>4. hand'[w] = NoTask /\ at'[w] \notin Resting
    BY <1>3, <2>1 DEF CancelOfTimeout, HandBack, Goto, SchedTypes, Resting
  <2>5. c.fd \in Fd
    BY <1>3, <2>1, <2>2, HandFacts DEF CancelOfTimeout
  <2>6. FibersAdded
    BY <2>1, <2>3, <2>5, AddCancelled
  <2>7. UNCHANGED <<timers, armed, line, step, since, limit, cancelled, due>>
    BY <1>3 DEF CancelOfTimeout, timerVars, fiberVars, idleVars
  <2>8. /\ \A t \in Held(timers') : t.id \in Fiber => t \in Held(timers)
        /\ \A g \in Fiber : g \in armed => g \in armed'
    BY <2>7
  <2> QED
    BY <2>4, <2>6, <2>7, <2>8, QuietDelays
<1>4. CASE \E f \in Fiber : Running(w, f)
  BY <1>4, RunningKept
<1>5. CASE Main
  BY <1>5, MainKept
<1>6. CASE Tick
  BY <1>6, TickKept
<1>7. CASE \E d \in Fd, e \in Event \cup {HUP} : Arrive(d, e)
  <2>1. UNCHANGED <<timers, armed, tasks, line, step, since, limit, cancelled, due, hand, at>>
    BY <1>7 DEF Arrive, timerVars, schedVars, fiberVars, idleVars
  <2>2. /\ \A t \in Held(timers') : t.id \in Fiber => t \in Held(timers)
        /\ \A g \in Fiber : g \in armed => g \in armed'
    BY <2>1
  <2>3. FibersAdded
    BY <2>1 DEF FibersAdded
  <2> QED
    BY <2>1, <2>2, <2>3, QuietDelays
<1> QED
  BY <1>1, <1>2, <1>3, <1>4, <1>5, <1>6, <1>7, NextCases

-----------------------------------------------------------------------------
\* The whole invariant: what a worker has found out about the timers, what it
\* leaves behind and how long calls wait, besides what timers, tasks, events and
\* fibers say of each other.
More == TimersKnown /\ StopFits /\ DelaysKept /\ LatesFirst

\* In the beginning nothing waits, and nothing has been found out.
LEMMA InitMore == Init => More
<1> SUFFICES ASSUME Init PROVE More
  OBVIOUS
<1> USE DEF Init, IOInit, TimersInit
<1>1. timers = <<>> /\ tasks = <<>> /\ DOMAIN <<>> = {} /\ NoTask.kind = "none"
  BY EmptySeq, TasksDiffer
<1>2. TimersKnown
  BY DEF TimersKnown
<1>3. StopFits
  BY DEF StopFits
<1>4. DelaysKept
  BY <1>1 DEF DelaysKept, LateFits
<1>5. LatesFirst
  BY <1>1 DEF LatesFirst
<1> QED
  BY <1>2, <1>3, <1>4, <1>5 DEF More

\* A step that changes nothing.
LEMMA StutterMore == More /\ UNCHANGED vars => More'
<1> SUFFICES ASSUME More, UNCHANGED vars PROVE More'
  OBVIOUS
<1> USE DEF vars, timerVars, ioVars, schedVars, eventVars, idleVars, fiberVars
<1>1. TimersKnown'
  BY DEF More, TimersKnown
<1>2. StopFits'
  BY DEF More, StopFits, Kept
<1>3. DelaysKept'
  BY DEF More, DelaysKept, Counts, Wanted, LateFits, Op
<1>4. LatesFirst'
  BY DEF More, LatesFirst
<1> QED
  BY <1>1, <1>2, <1>3, <1>4 DEF More

\* The inductive invariant of the fiber library.
THEOREM FiberInvariant == OneWorker /\ ProperUse /\ Spec => []FiberInv
<1> SUFFICES ASSUME OneWorker, ProperUse PROVE Spec => []FiberInv
  OBVIOUS
<1> DEFINE Agree == Types /\ FibersAgree
<1>1. Spec => []Agree
  BY FibersKept
<1>2. Init => More
  BY InitMore
<1>3. More /\ Agree /\ Agree' /\ [Next]_vars => More'
  <2>1. PICK w : Worker = {w}
    BY OneThread
  <2>2. CASE Next
    BY <2>1, <2>2, KnownStep, StopStep, LimitsStep DEF More
  <2>3. CASE UNCHANGED vars
    BY <2>3, StutterMore
  <2> QED
    BY <2>2, <2>3
<1>4. Agree /\ More => FiberInv
  BY OneThread, CountsFit, TypeOKParts DEF FiberInv, More
<1> HIDE DEF Agree
<1> QED
  BY <1>1, <1>2, <1>3, <1>4, PTL DEF Spec

\* As long as the worker sleeps in epoll_wait and nothing is there to wake it, it
\* gets up no later than the first timer is due.
THEOREM TimersNotOverslept == OneWorker /\ ProperUse /\ Spec => []NoTimerOverslept
<1> SUFFICES ASSUME OneWorker, ProperUse PROVE Spec => []NoTimerOverslept
  OBVIOUS
<1>1. FiberInv => NoTimerOverslept
  <2> SUFFICES ASSUME FiberInv, NEW w \in Worker, at[w] = "epoll", ~pipe, timers # <<>>
               PROVE  wait[w] <= timers[1].left
    BY DEF NoTimerOverslept
  <2>1. timers \in Seq(Timer)
    BY DEF FiberInv, TypeOK, TimersTypeOK
  <2>2. 1 \in DOMAIN timers
    BY <2>1, EmptySeq
  <2> QED
    BY <2>2 DEF FiberInv, TimersKnown
<1> QED
  BY <1>1, FiberInvariant, PTL

\* When the worker has left run(), every fiber that was handed over has ended, and
\* no timer, event or task is left, if the program has cancelled its timers.
THEOREM StopDrains == OneWorker /\ ProperUse /\ TimersCancelled /\ Spec => []StoppedIsDrained
<1> SUFFICES ASSUME OneWorker, ProperUse, TimersCancelled PROVE Spec => []StoppedIsDrained
  OBVIOUS
<1>1. FiberInv => StoppedIsDrained
  <2> SUFFICES ASSUME FiberInv, \A w \in Worker : at[w] = "exit"
               PROVE  /\ \A f \in Fiber : state[f] \in {"NEW", "TERM"}
                      /\ timers = <<>> /\ tasks = <<>> /\ \A d \in Fd : Waiting(d) = {}
    BY DEF StoppedIsDrained
  <2>1. PICK w : Worker = {w}
    BY OneThread
  <2>2. Types /\ FibersAgree
    BY TypeOKParts DEF FiberInv
  <2>3. /\ SchedTypes /\ EventTypes /\ WorkersFit /\ FibersFit /\ PendingFits /\ ArmedIsQueued
        /\ TimersTypeOK /\ WellOrdered(timers)
    BY <2>2, InvParts
  <2>4. at[w] = "exit" /\ tasks = <<>> /\ pending = 0 /\ armed = {}
    BY <2>1 DEF FiberInv, StopFits
  <2>5. timers = <<>>
    <3>1. \A t \in Held(timers) : t.id \in TimerId /\ IsQueued(t.id)
      BY <2>3, HeldView, QueueFacts DEF Held, Timer
    <3>2. Held(timers) = {}
      BY <2>3, <2>4, <3>1 DEF ArmedIsQueued
    <3> QED
      BY <2>3, <3>2, FirstFacts
  <2>6. \A d \in Fd, e \in Event : regs[d][e] = NoFiber
    <3>1. Registered = {}
      BY <2>3, <2>4, FS_EmptySet DEF PendingFits
    <3> SUFFICES ASSUME NEW d \in Fd, NEW e \in Event, regs[d][e] # NoFiber PROVE FALSE
      OBVIOUS
    <3>2. <<d, e>> \in Registered
      BY DEF Registered
    <3> QED
      BY <3>1, <3>2
  <2>7. ASSUME NEW f \in Fiber PROVE state[f] \in {"NEW", "TERM"}
    <3>1. hand[w] = NoTask /\ due[w] = <<>>
      BY <2>1, <2>3, <2>4 DEF WorkersFit
    <3>2. ~Runs(f) /\ ~InHand(f)
      BY <2>1, <2>4, <3>1, TasksDiffer DEF Runs, InHand, Wakes
    <3>3. ~InTasks(f) /\ ~InTimers(f) /\ ~InDue(f)
      BY <2>1, <2>4, <2>5, <3>1, SingleFacts DEF InTasks, InTimers, InDue
    <3>4. ~InRegs(f)
      BY <2>6, IOManagerAssumption DEF InRegs
    <3>5. state[f] # "RUNNING" /\ \E p \in Allowed(f) : Only(f, p)
      BY <2>3, <3>2 DEF FibersFit
    <3>6. state[f] # "READY"
      BY <3>2, <3>3, <3>4, <3>5 DEF Allowed, Only
    <3>7. state[f] \in {"NEW", "READY", "RUNNING", "TERM"}
      BY <2>3 DEF SchedTypes
    <3> QED
      BY <3>5, <3>6, <3>7
  <2> QED
    BY <2>4, <2>5, <2>6, <2>7 DEF Waiting
<1> QED
  BY <1>1, FiberInvariant, PTL

\* The conversion to milliseconds loses less than one.
LEMMA CutShort ==
  ASSUME NEW t \in Time, NEW passed \in Nat, passed >= Millis(t)
  PROVE  t.nsec < (passed + 1 - t.sec * 1000) * 1000000
<1>1. t.sec \in Nat /\ t.nsec \in Nat
  BY SMT DEF Time
<1>2. t.nsec \div 1000000 \in Int /\ t.nsec < (t.nsec \div 1000000 + 1) * 1000000
  BY <1>1, SMT
<1>3. passed + 1 - t.sec * 1000 >= t.nsec \div 1000000 + 1
  BY <1>1, <1>2, SMT DEF Millis
<1> QED
  BY <1>1, <1>2, <1>3, SMT

\* In every step a sleep that returns has slept for its time, less what its
\* conversion to milliseconds loses, and a call that
\* returns ETIMEDOUT has waited for its limit.
LEMMA ReturnsLate ==
  ASSUME Types, FibersAgree, DelaysKept, NEW w, Worker = {w}, Next,
         NEW f \in Fiber, line'[f] > line[f]
  PROVE  /\ Op(f).op = "sleep" => LET t == Op(f).time
                                   IN  t.nsec < (since[f] + 1 - t.sec * 1000) * 1000000
         /\ result'[f] = "ETIMEDOUT" => since[f] >= limit[f]
<1>1. /\ FiberTypes /\ TimersFit /\ FibersFit /\ ArmedIsQueued /\ w \in Worker
      /\ CallCounts(f) /\ line[f] \in Nat
  BY InvParts, DelaysView DEF FiberTypes
<1>2. line'[f] # line[f]
  BY <1>1
<1>3. PICK g \in Fiber : Running(w, g)
  <2>1. UNCHANGED line => FALSE
    BY <1>2
  <2>2. ~(Scheduling(w) /\ UNCHANGED <<fiberVars, since, sock, mainAt>>)
    BY <2>1 DEF fiberVars
  <2>3. ~RunTimeout(w) /\ ~CancelOfTimeout(w)
    BY <2>1 DEF RunTimeout, CancelOfTimeout, fiberVars
  <2>4. ~Main
    BY <2>1 DEF Main, Submit, UseTimer, Stop, SetStopped, TickleAll, Join, fiberVars
  <2>5. ~Tick /\ ~\E d \in Fd, e \in Event \cup {HUP} : Arrive(d, e)
    BY <2>1 DEF Tick, Arrive, fiberVars
  <2> QED
    BY <2>2, <2>3, <2>4, <2>5, NextCases
<1>4. PICK value : Return(g, value)
  <2>1. UNCHANGED line => FALSE
    BY <1>2
  <2> QED
    BY <1>3, <2>1 DEF Running, Sleep, WakeFromSleep, BeginIo, TryIo, TryConnect, LeaveKernel, AwaitEvent,
                      YieldInCall, WakeFromEvent, Close, SetTimeLimit, SetNonblock, EndFiber, fiberVars
<1>5. g = f /\ result'[f] = value
  BY <1>1, <1>2, <1>4 DEF Return, FiberTypes
<1>6. ASSUME Op(f).op = "sleep"
      PROVE  Op(f).time.nsec < (since[f] + 1 - Op(f).time.sec * 1000) * 1000000
  <2>1. Calls(w, f, "sleep", "woken")
    <3>1. ~Sleep(w, f)
      BY <1>2 DEF Sleep
    <3>2. /\ ~BeginIo(w, f) /\ ~TryIo(w, f) /\ ~TryConnect(w, f) /\ ~LeaveKernel(w, f) /\ ~AwaitEvent(w, f)
          /\ ~WakeFromEvent(w, f) /\ ~Close(w, f) /\ ~SetTimeLimit(w, f) /\ ~SetNonblock(w, f)
      BY <1>6 DEF BeginIo, TryIo, TryConnect, LeaveKernel, AwaitEvent, WakeFromEvent, Close,
                    SetTimeLimit, SetNonblock, Calls
    <3>3. ~YieldInCall(w, f) /\ ~EndFiber(w, f)
      BY <1>2 DEF YieldInCall, EndFiber, fiberVars
    <3> QED
      BY <1>3, <1>5, <3>1, <3>2, <3>3 DEF Running, WakeFromSleep
  <2>2. f \notin armed
    <3>1. \A t \in Held(timers) : t.id # f
      BY <1>1, <2>1, NoTimer
    <3> QED
      BY <1>1, <3>1, HeldView, HookAssumption DEF ArmedIsQueued
  <2>3. step[f] = "woken" /\ Op(f).time \in Time
    BY <1>1, <2>1, CallsUse
  <2>4. since[f] \in Nat /\ since[f] >= Millis(Op(f).time)
    BY <1>1, <1>6, <2>2, <2>3 DEF CallCounts, Wanted, FiberTypes, Delay
  <2> QED
    BY <2>3, <2>4, CutShort
<1>7. ASSUME result'[f] = "ETIMEDOUT" PROVE since[f] >= limit[f]
  <2>1. cancelled[f]
    <3>1. \A v : Return(f, v) => v = "ETIMEDOUT"
      BY <1>1, <1>7 DEF Return, FiberTypes
    <3>2. WakeFromEvent(w, f)
      <4>1. ~(Sleep(w, f) \/ AwaitEvent(w, f) \/ YieldInCall(w, f) \/ EndFiber(w, f))
        BY <1>2 DEF Sleep, AwaitEvent, YieldInCall, EndFiber, fiberVars
      <4>2. ~(WakeFromSleep(w, f) \/ Close(w, f) \/ SetTimeLimit(w, f) \/ SetNonblock(w, f))
        BY <3>1 DEF WakeFromSleep, Close, SetTimeLimit, SetNonblock
      <4>3. ~BeginIo(w, f) /\ ~TryIo(w, f)
        BY <1>2, <3>1 DEF BeginIo, TryIo
      <4>4. ~TryConnect(w, f)
        BY <1>2, <3>1 DEF TryConnect, AtOnce
      <4>5. ~LeaveKernel(w, f)
        BY <1>2, <3>1 DEF LeaveKernel
      <4> QED
        BY <1>3, <1>5, <4>1, <4>2, <4>3, <4>4, <4>5 DEF Running
    <3> QED
      BY <1>2, <3>1, <3>2 DEF WakeFromEvent
  <2> QED
    BY <1>1, <2>1 DEF CallCounts
<1> QED
  BY <1>5, <1>6, <1>7

\* No call is cut short but by its conversion to milliseconds: a sleep by less than
\* one, a limit not at all; not by a time-out that was meant for an earlier wait, and
\* not by another fiber's.
THEOREM NothingEarly == OneWorker /\ ProperUse /\ Spec => NotEarly
<1> SUFFICES ASSUME OneWorker, ProperUse PROVE Spec => NotEarly
  OBVIOUS
<1> DEFINE Late == \A f \in Fiber : line'[f] > line[f] =>
                     /\ Op(f).op = "sleep" => LET t == Op(f).time
                                              IN  t.nsec < (since[f] + 1 - t.sec * 1000) * 1000000
                     /\ result'[f] = "ETIMEDOUT" => since[f] >= limit[f]
<1>1. FiberInv /\ [Next]_vars => [Late]_vars
  <2> SUFFICES ASSUME FiberInv, Next PROVE Late
    OBVIOUS
  <2>1. PICK w : Worker = {w}
    BY OneThread
  <2>2. Types /\ FibersAgree /\ DelaysKept
    BY TypeOKParts DEF FiberInv
  <2> QED
    BY <2>1, <2>2, ReturnsLate
<1>2. Spec => []FiberInv
  BY FiberInvariant
<1> QED
  BY <1>1, <1>2, PTL DEF Spec, NotEarly

=============================================================================
