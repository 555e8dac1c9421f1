------------------------------ MODULE IOManager -----------------------------
(***************************************************************************)
(* The scheduler of fibers (fiber/scheduler.cpp, scheduler.h) with its     *)
(* idle fiber that waits in epoll (fiber/iomanager.cpp): worker threads    *)
(* take tasks from one queue, and wait for ready file descriptors, due     *)
(* timers and new tasks when there are none.                               *)
(*                                                                         *)
(* A worker thread is in one of the steps of run() and idle():             *)
(*   look    the head of the loop of run()                                 *)
(*   resume  has a task in hand                                            *)
(*   fiber   the fiber of the task runs (module Hook)                      *)
(*   cancel  the callback of a condition timer runs                        *)
(*   rest    found no task, is not yet counted as idle                     *)
(*   idle    in idle(), before stopping()                                  *)
(*   asked   in stopping(), has found that there is no timer               *)
(*   epoll   in epoll_wait                                                 *)
(*   expire, push, events   what idle() does when epoll_wait returns       *)
(*   exit    has left run()                                                *)
(*                                                                         *)
(* A fiber that was handed over as a function and one that was handed over *)
(* as a Fiber are alike: run() wraps the first in a new fiber.  No caller  *)
(* pins a task to a thread, so thread_ is left out.                        *)
(***************************************************************************)
EXTENDS TimerManager

CONSTANTS Worker,     \* the threads of the pool
          Fiber,      \* the functions handed to scheduler()
          Fd,         \* sockets
          NoFiber,    \* no waiting fiber, no fiber in hand
          MaxTimeout  \* MAX_TIMEOUT of idle(), in units of time

ASSUME IOManagerAssumption ==
  /\ MaxTimeout \in Nat \ {0}
  /\ IsFiniteSet(Worker) /\ IsFiniteSet(Fiber)
  /\ NoFiber \notin Fiber

VARIABLES
  tasks,    \* tasks_
  state,    \* Fiber::state_ (NEW before the task is handed over)
  active,   \* activeThreadCnt_
  idleCnt,  \* idleThreadCnt_
  stopped,  \* isStopped_
  at,       \* where a worker is
  hand,     \* the task a worker has taken
  idleTerm, \* the worker's idle fiber has ended
  regs,     \* FdContext: the fiber that waits for an event of a socket
  pending,  \* pendingEventCnt_
  ready,    \* kernel: what a socket is ready for
  edge,     \* kernel: what epoll has still to report of a socket
  pipe,     \* kernel: epoll has still to report the tickle pipe
  wait,     \* how long a worker still waits in epoll_wait
  due,      \* cbs of idle()
  got,      \* events of idle(): what epoll_wait reported of the sockets
  told,     \* and of the tickle pipe
  panicked  \* a CondPanic failed: the process is gone

schedVars == <<tasks, state, active, idleCnt, stopped, at, hand, idleTerm>>
eventVars == <<regs, pending, ready, edge>>
idleVars  == <<wait, due, got, told>>
ioVars    == <<schedVars, eventVars, idleVars, pipe, panicked>>

READ  == "READ"
WRITE == "WRITE"
HUP   == "HUP"   \* EPOLLERR | EPOLLHUP: reported to whoever registered anything
Event == {READ, WRITE}

\* Tasks: a fiber to resume; the callback of a sleeper's timer, which hands the
\* fiber over; the callback of the condition timer of the call-th call of a
\* fiber; a callback of the embedding program.
FiberTask(f)         == [kind |-> "fiber", fiber |-> f]
WakeTask(f)          == [kind |-> "wake", fiber |-> f]
TimeoutTask(f, call) == [kind |-> "timeout", fiber |-> f, call |-> call]
UserTask             == [kind |-> "user"]

NoTask == [kind |-> "none"]

Places == {"look", "resume", "fiber", "cancel", "rest", "idle", "asked", "epoll",
           "expire", "push", "events", "exit"}

IOInit ==
  /\ TimersInit
  /\ tasks = <<>>
  /\ state = [f \in Fiber |-> "NEW"]
  /\ active = 0 /\ idleCnt = 0 /\ stopped = FALSE
  /\ at = [w \in Worker |-> "look"]
  /\ hand = [w \in Worker |-> NoTask]
  /\ idleTerm = [w \in Worker |-> FALSE]
  /\ regs = [d \in Fd |-> [e \in Event |-> NoFiber]]
  /\ pending = 0
  /\ ready = [d \in Fd |-> {}]
  /\ edge = [d \in Fd |-> {}]
  /\ pipe = FALSE
  /\ wait = [w \in Worker |-> 0]
  /\ due = [w \in Worker |-> <<>>]
  /\ got = [w \in Worker |-> [d \in Fd |-> {}]]
  /\ told = [w \in Worker |-> FALSE]
  /\ panicked = FALSE

-----------------------------------------------------------------------------
\* Handing over a task, and waking a worker

Goto(w, place) == at' = [at EXCEPT ![w] = place]

\* IOManager::tickle: the pipe is written only if some worker counts as idle.
Tickle(needed) == pipe' = (pipe \/ (needed /\ idleCnt > 0))

\* scheduler(task): a worker is woken for the first task of an empty queue.
\* Queue and pipe are written in one step: a tickle that comes later finds a
\* worker idle that looked at the queue in between, and wakes it in vain.
Schedule(new) ==
  /\ tasks' = tasks \o new
  /\ Tickle(tasks = <<>> /\ new # <<>>)

-----------------------------------------------------------------------------
\* The loop of run()

\* The first task leaves the queue; a fiber in it has to be READY.
TakeTask(w) ==
  LET task == Head(tasks)
  IN  /\ at[w] = "look" /\ tasks # <<>>
      /\ IF task.kind = "fiber" /\ state[task.fiber] # "READY"
         THEN /\ panicked' = TRUE
              /\ UNCHANGED <<tasks, active, at, hand, pipe>>
         ELSE /\ tasks' = Tail(tasks)
              /\ active' = active + 1
              /\ hand' = [hand EXCEPT ![w] = task]
              /\ Goto(w, "resume")
              /\ Tickle(Tail(tasks) # <<>>)
              /\ UNCHANGED panicked
      /\ UNCHANGED <<state, idleCnt, stopped, idleTerm, timerVars, eventVars, idleVars>>

\* Nothing to do: the worker ends when its idle fiber has, or rests.
FindNothing(w) ==
  /\ at[w] = "look" /\ tasks = <<>>
  /\ Goto(w, IF idleTerm[w] THEN "exit" ELSE "rest")
  /\ UNCHANGED <<tasks, state, active, idleCnt, stopped, hand, idleTerm, timerVars,
                 eventVars, idleVars, pipe, panicked>>

\* Mutant: the thread is still counted as active.
HandBackActive(w) ==
  /\ hand' = [hand EXCEPT ![w] = NoTask]
  /\ Goto(w, "look")
  /\ UNCHANGED active
\* Back in run(): the task is done with, for now.
HandBack(w) ==
  /\ active' = active - 1
  /\ hand' = [hand EXCEPT ![w] = NoTask]
  /\ Goto(w, "look")

\* Fiber::resume, which panics for a fiber that runs or has ended.
ResumeFiber(w) ==
  LET f == hand[w].fiber
  IN  /\ at[w] = "resume" /\ hand[w].kind = "fiber"
      /\ IF state[f] # "READY"
         THEN panicked' = TRUE /\ UNCHANGED <<state, at>>
         ELSE /\ state' = [state EXCEPT ![f] = "RUNNING"]
              /\ Goto(w, "fiber")
              /\ UNCHANGED panicked
      /\ UNCHANGED <<tasks, active, idleCnt, stopped, hand, idleTerm, timerVars, eventVars,
                     idleVars, pipe>>

\* The callback of a sleeper's timer: scheduler(fiber).
RunWake(w) ==
  /\ at[w] = "resume" /\ hand[w].kind = "wake"
  /\ Schedule(<<FiberTask(hand[w].fiber)>>)
  /\ HandBack(w)
  /\ UNCHANGED <<state, idleCnt, stopped, idleTerm, timerVars, eventVars, idleVars, panicked>>

RunUser(w) ==
  /\ at[w] = "resume" /\ hand[w].kind = "user"
  /\ HandBack(w)
  /\ UNCHANGED <<tasks, state, idleCnt, stopped, idleTerm, timerVars, eventVars, idleVars,
                 pipe, panicked>>

-----------------------------------------------------------------------------
\* Events of sockets

Waiting(d) == {e \in Event : regs[d][e] # NoFiber}

\* What epoll reports of a socket at once when its events become es.
Rearmed(d, es) == IF es = {} THEN {} ELSE ready[d] \cap (es \cup {HUP})

\* addEvent for the running fiber f; panics if another fiber waits already.
AddEvent(d, e, f) ==
  IF regs[d][e] # NoFiber
  THEN panicked' = TRUE /\ UNCHANGED eventVars
  ELSE /\ regs' = [regs EXCEPT ![d][e] = f]
       /\ edge' = [edge EXCEPT ![d] = Rearmed(d, Waiting(d) \cup {e})]
       /\ pending' = pending + 1
       /\ UNCHANGED <<ready, panicked>>

\* triggerEvent for the events es, READ first: the fibers become tasks.
Woken(d, es) ==
  LET one(e) == IF e \in es THEN <<FiberTask(regs[d][e])>> ELSE <<>>
  IN  one(READ) \o one(WRITE)
\* Mutants: the context keeps its fiber; the counter of pending events stays.
TriggerKeeping(d, es) ==
  /\ Schedule(Woken(d, es))
  /\ edge' = [edge EXCEPT ![d] = {}]
  /\ pending' = pending - Cardinality(es)
  /\ UNCHANGED regs
TriggerUncounted(d, es) ==
  /\ Schedule(Woken(d, es))
  /\ regs' = [regs EXCEPT ![d] = [e \in Event |-> IF e \in es THEN NoFiber ELSE @[e]]]
  /\ edge' = [edge EXCEPT ![d] = Rearmed(d, Waiting(d) \ es)]
  /\ UNCHANGED pending
Trigger(d, es) ==
  /\ Schedule(Woken(d, es))
  /\ regs' = [regs EXCEPT ![d] = [e \in Event |-> IF e \in es THEN NoFiber ELSE @[e]]]
  /\ edge' = [edge EXCEPT ![d] = Rearmed(d, Waiting(d) \ es)]
  /\ pending' = pending - Cardinality(es)

\* cancelEvent and cancelAll: whoever waits is resumed.
CancelEvent(d, es) ==
  IF Waiting(d) \cap es # {}
  THEN Trigger(d, Waiting(d) \cap es)
  ELSE UNCHANGED <<tasks, pipe, regs, edge, pending>>

-----------------------------------------------------------------------------
\* idle()

\* ++idleThreadCnt_ and the switch to the idle fiber.
Rest(w) ==
  /\ at[w] = "rest"
  /\ idleCnt' = idleCnt + 1
  /\ Goto(w, "idle")
  /\ UNCHANGED <<tasks, state, active, stopped, hand, idleTerm, timerVars, eventVars, idleVars,
                 pipe, panicked>>

\* Mutant: a worker that knows of timers may stop as well.
IdleIgnoringTimers(w) ==
  /\ at[w] = "idle"
  /\ GetNextTimer
  /\ wait' = [wait EXCEPT ![w] = NextTimer(MaxTimeout)]
  /\ Goto(w, "asked")
  /\ UNCHANGED <<tasks, state, active, idleCnt, stopped, hand, idleTerm, eventVars, due, got,
                 told, pipe, panicked>>

\* stopping(next_timeout) asks for the timers first.  With a timer idle() goes on to
\* wait until the first one is due, at most MaxTimeout.
Idle(w) ==
  /\ at[w] = "idle"
  /\ GetNextTimer
  /\ wait' = [wait EXCEPT ![w] = NextTimer(MaxTimeout)]
  /\ Goto(w, IF timers = <<>> THEN "asked" ELSE "epoll")
  /\ UNCHANGED <<tasks, state, active, idleCnt, stopped, hand, idleTerm, eventVars, due, got,
                 told, pipe, panicked>>

\* The rest of stopping: without an event, a task or a thread at work, the idle fiber
\* ends once stop() was called.
Stopping == pending = 0 /\ stopped /\ tasks = <<>> /\ active = 0
WaitOrStop(w) ==
  /\ at[w] = "asked"
  /\ IF Stopping
     THEN /\ idleTerm' = [idleTerm EXCEPT ![w] = TRUE]
          /\ idleCnt' = idleCnt - 1
          /\ wait' = [wait EXCEPT ![w] = 0]
          /\ Goto(w, "look")
     ELSE Goto(w, "epoll") /\ UNCHANGED <<idleTerm, idleCnt, wait>>
  /\ UNCHANGED <<tasks, state, active, stopped, hand, timerVars, eventVars, due, got, told, pipe,
                 panicked>>

\* Mutant: without a timer epoll_wait has no time limit.
EpollWaitUncapped(w) ==
  /\ at[w] = "epoll"
  /\ pipe \/ (wait[w] = 0 /\ timers # <<>>) \/ \E d \in Fd : edge[d] # {}
  /\ got' = [got EXCEPT ![w] = edge]
  /\ edge' = [d \in Fd |-> {}]
  /\ told' = [told EXCEPT ![w] = pipe]
  /\ pipe' = FALSE
  /\ wait' = [wait EXCEPT ![w] = 0]
  /\ Goto(w, "expire")
  /\ UNCHANGED <<tasks, state, active, idleCnt, stopped, hand, idleTerm, timerVars, regs,
                 pending, ready, due, panicked>>

\* epoll_wait returns: something is reported, or the time has passed.
EpollWait(w) ==
  /\ at[w] = "epoll"
  /\ pipe \/ wait[w] = 0 \/ \E d \in Fd : edge[d] # {}
  /\ got' = [got EXCEPT ![w] = edge]
  /\ edge' = [d \in Fd |-> {}]
  /\ told' = [told EXCEPT ![w] = pipe]
  /\ pipe' = FALSE
  /\ wait' = [wait EXCEPT ![w] = 0]
  /\ Goto(w, "expire")
  /\ UNCHANGED <<tasks, state, active, idleCnt, stopped, hand, idleTerm, timerVars, regs,
                 pending, ready, due, panicked>>

Expire(w) ==
  /\ at[w] = "expire"
  /\ ListExpired
  /\ due' = [due EXCEPT ![w] = [k \in DOMAIN Expired |-> Expired[k].cb]]
  /\ Goto(w, "push")
  /\ UNCHANGED <<tasks, state, active, idleCnt, stopped, hand, idleTerm, eventVars, wait, got,
                 told, pipe, panicked>>

\* One scheduler(cb) for each of them.
PushExpired(w) ==
  /\ at[w] = "push"
  /\ IF due[w] # <<>>
     THEN Schedule(<<Head(due[w])>>) /\ due' = [due EXCEPT ![w] = Tail(@)] /\ UNCHANGED at
     ELSE Goto(w, "events") /\ UNCHANGED <<tasks, pipe, due>>
  /\ UNCHANGED <<state, active, idleCnt, stopped, hand, idleTerm, timerVars, eventVars, wait,
                 got, told, panicked>>

\* One reported socket.  An error or hang-up stands for all events somebody
\* waits for now; of the others, what was reported counts, and triggerEvent
\* panics if one of them is no longer waited for.
HandleEvent(w, d) ==
  LET real == (got[w][d] \ {HUP}) \cup (IF HUP \in got[w][d] THEN Waiting(d) ELSE {})
  IN  /\ at[w] = "events" /\ got[w][d] # {}
      /\ got' = [got EXCEPT ![w][d] = {}]
      /\ IF real \cap Waiting(d) = {}
         THEN UNCHANGED <<tasks, regs, edge, pending, pipe, panicked>>
         ELSE IF real \subseteq Waiting(d)
              THEN Trigger(d, real) /\ UNCHANGED panicked
              ELSE panicked' = TRUE /\ UNCHANGED <<tasks, regs, edge, pending, pipe>>
      /\ UNCHANGED <<state, active, idleCnt, stopped, at, hand, idleTerm, timerVars, ready, wait,
                     due, told>>

\* The pipe is emptied, of later tickles too: epoll does not report those any more.
ReadPipe(w) ==
  /\ at[w] = "events" /\ told[w]
  /\ told' = [told EXCEPT ![w] = FALSE]
  /\ pipe' = FALSE
  /\ UNCHANGED <<schedVars, timerVars, eventVars, wait, due, got, panicked>>

\* The idle fiber yields and run() looks for tasks again.
LeaveIdle(w) ==
  /\ at[w] = "events" /\ ~told[w] /\ \A d \in Fd : got[w][d] = {}
  /\ idleCnt' = idleCnt - 1
  /\ Goto(w, "look")
  /\ UNCHANGED <<tasks, state, active, stopped, hand, idleTerm, timerVars, eventVars, idleVars,
                 pipe, panicked>>

-----------------------------------------------------------------------------
\* What a worker does next, but for the code of fibers (module Hook).

Scheduling(w) ==
  \/ TakeTask(w) \/ FindNothing(w)
  \/ ResumeFiber(w) \/ RunWake(w) \/ RunUser(w)
  \/ Rest(w) \/ Idle(w) \/ WaitOrStop(w) \/ EpollWait(w) \/ Expire(w) \/ PushExpired(w)
  \/ ReadPipe(w) \/ (\E d \in Fd : HandleEvent(w, d)) \/ LeaveIdle(w)

=============================================================================
