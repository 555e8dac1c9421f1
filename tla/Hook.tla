-------------------------------- MODULE Hook --------------------------------
(***************************************************************************)
(* The fiber library as a program uses it: fibers that call the hooked     *)
(* system calls (fiber/hook.cpp, fdmanager.cpp) on the workers of an       *)
(* IOManager, a main thread that hands over fibers, sets timers and stops  *)
(* the scheduler, sockets that become ready, and time.                     *)
(*                                                                         *)
(* A fiber runs a script of calls; Script and MainScript are constants, and*)
(* a system call is one of                                                 *)
(*   sleep    sleep, usleep, nanosleep                                     *)
(*   io       read, recv, accept, ... (READ), write, send, ... (WRITE)     *)
(*   connect, close, setsockopt (a time limit), fcntl (O_NONBLOCK) and     *)
(*   ioctl (FIONBIO)                                                       *)
(*                                                                         *)
(* A program states times in seconds, micro- or nanoseconds; the library   *)
(* counts whole milliseconds, and so does the clock it reads.  The unit of *)
(* time of TimerManager is that millisecond.                               *)
(***************************************************************************)
EXTENDS IOManager

CONSTANTS UserTimer,     \* timers of the main thread
          Script,        \* the calls of every fiber
          MainScript,    \* what the main thread does, ending with stop()
          ConnectTimeout \* s_connect_timeout

NoLimit == -1

\* A time as sleep (sec), usleep and a timeval (sec and nsec, whole microseconds)
\* and a timespec state it, and the milliseconds that the calls make of it:
\* seconds * 1000, usec / 1000, tv_sec * 1000 + tv_nsec / 1000 / 1000.  That none of
\* them overflows is the bound MaxDelay.
Time == [sec : Nat, nsec : Nat]
Millis(time) == time.sec * 1000 + time.nsec \div 1000000

\* The calls of fibers, and what the main thread does.
Call == [op : {"sleep"}, time : {t \in Time : Millis(t) \in Delay}]
        \cup [op : {"io"}, fd : Fd, event : Event]
        \cup [op : {"connect", "close"}, fd : Fd]
        \cup [op : {"setsockopt"}, fd : Fd, event : Event, time : {t \in Time : Millis(t) \in Delay}]
        \cup [op : {"fcntl", "ioctl"}, fd : Fd, nonblock : BOOLEAN]

MainCall == [op : {"scheduler"}, fiber : Fiber]
            \cup [op : {"addTimer"}, timer : UserTimer, ms : Delay, recurring : BOOLEAN]
            \cup [op : {"refresh", "cancel"}, timer : UserTimer]
            \cup [op : {"reset"}, timer : UserTimer, ms : Delay, fromNow : BOOLEAN]
            \cup [op : {"stop"}]

\* The event that a call to io or connect waits for.
Awaited(call) == IF call.op = "connect" THEN WRITE ELSE call.event

Task == {FiberTask(f) : f \in Fiber} \cup {WakeTask(f) : f \in Fiber} \cup {UserTask}
        \cup UNION {{TimeoutTask(f, k) : k \in DOMAIN Script[f]} : f \in Fiber}

ASSUME HookAssumption ==
  /\ TimerId = Fiber \cup UserTimer /\ Fiber \cap UserTimer = {}
  /\ Callback = Task
  /\ ConnectTimeout \in Delay
  /\ Script \in [Fiber -> Seq(Call)] /\ MainScript \in Seq(MainCall)

VARIABLES
  line,      \* the call a fiber is at
  step,      \* how far it is in that call: call, try, kernel, event, yield, woken
  limit,     \* to of do_io: the time limit when the call began
  cancelled, \* tinfo->cnacelled of the call
  result,    \* what the last call returned
  since,     \* history: what the clock has advanced since the timer of the call was set
  sock,      \* FdCtx of every socket: open, user_nonblock and the time limits; kernel:
             \* whether its calls block, and for which events they have a time limit
  mainAt     \* the next line of MainScript

fiberVars == <<line, step, limit, cancelled, result>>
vars == <<timerVars, ioVars, fiberVars, since, sock, mainAt>>

Init ==
  /\ IOInit
  /\ line = [f \in Fiber |-> 1]
  /\ step = [f \in Fiber |-> "call"]
  /\ limit = [f \in Fiber |-> NoLimit]
  /\ cancelled = [f \in Fiber |-> FALSE]
  /\ result = [f \in Fiber |-> "none"]
  /\ since = [f \in Fiber |-> 0]
  /\ sock = [d \in Fd |-> [open |-> TRUE, nonblock |-> FALSE,
                           limit |-> [e \in Event |-> NoLimit],
                           blocks |-> FALSE, timed |-> {}]]
  /\ mainAt = 1

-----------------------------------------------------------------------------
\* The code of fibers

Op(f) == Script[f][line[f]]

\* w runs f, whose next call is of the given kind and has come to this step.
Calls(w, f, kind, place) ==
  /\ at[w] = "fiber" /\ hand[w] = FiberTask(f)
  /\ line[f] <= Len(Script[f]) /\ Op(f).op = kind
  /\ step[f] = place

Proceed(f, place) == step' = [step EXCEPT ![f] = place]

Return(f, value) ==
  /\ line' = [line EXCEPT ![f] = @ + 1]
  /\ Proceed(f, "call")
  /\ cancelled' = [cancelled EXCEPT ![f] = FALSE]
  /\ result' = [result EXCEPT ![f] = value]
  /\ since' = [since EXCEPT ![f] = 0]
  /\ UNCHANGED limit

\* Fiber::yield, and run() counts the task as done.
Yield(w, f, how) ==
  /\ state' = [state EXCEPT ![f] = how]
  /\ HandBack(w)
  /\ UNCHANGED <<tasks, idleCnt, stopped, idleTerm, timerVars, eventVars, idleVars, pipe,
                 panicked>>

\* Mutant: the timer recurs.
SetTimerRecurring(f, ms, cb) ==
  /\ \E front \in BOOLEAN : AddTimer(f, ms, TRUE, cb, front) /\ Tickle(front)
  /\ since' = [since EXCEPT ![f] = 0]

\* Sets the timer of f's call; a worker is woken if it is the first to be due.
SetTimer(f, ms, cb) ==
  /\ \E front \in BOOLEAN : AddTimer(f, ms, FALSE, cb, front) /\ Tickle(front)
  /\ since' = [since EXCEPT ![f] = 0]

\* The condition timer of a call that has a limit.
SetLimit(f, to) ==
  IF to # NoLimit
  THEN SetTimer(f, to, TimeoutTask(f, line[f]))
  ELSE UNCHANGED <<timerVars, pipe, since>>

\* The system call takes what the socket holds.
Take(d, e) == ready' = [ready EXCEPT ![d] = IF HUP \in @ THEN @ ELSE @ \ {e}]

\* sleep, usleep, nanosleep: a timer of whole milliseconds hands the fiber over to
\* the scheduler.
Sleep(w, f) ==
  /\ Calls(w, f, "sleep", "call")
  /\ SetTimer(f, Millis(Op(f).time), WakeTask(f))
  /\ Proceed(f, "yield")
  /\ UNCHANGED <<schedVars, eventVars, idleVars, panicked, line, limit, cancelled, result, sock,
                 mainAt>>

WakeFromSleep(w, f) ==
  /\ Calls(w, f, "sleep", "woken")
  /\ Return(f, "ok")
  /\ UNCHANGED <<timerVars, ioVars, sock, mainAt>>

\* do_io up to retry: what is known of the socket decides whether the call can
\* make the fiber wait, and for how long.
BeginIo(w, f) ==
  LET d == Op(f).fd
      e == Op(f).event
  IN  /\ Calls(w, f, "io", "call")
      /\ \/ /\ ~sock[d].open
            /\ Return(f, "EBADF")
            /\ UNCHANGED ready
         \/ /\ sock[d].open /\ sock[d].nonblock
            /\ IF e \in ready[d] THEN Return(f, "ok") /\ Take(d, e)
                                 ELSE Return(f, "EAGAIN") /\ UNCHANGED ready
         \/ /\ sock[d].open /\ ~sock[d].nonblock
            /\ limit' = [limit EXCEPT ![f] = sock[d].limit[e]]
            /\ Proceed(f, "try")
            /\ UNCHANGED <<line, cancelled, result, since, ready>>
      /\ UNCHANGED <<timerVars, schedVars, regs, pending, edge, idleVars, pipe, panicked, sock,
                     mainAt>>

\* do_io from retry: the system call.  If there is nothing, it stays in the kernel
\* for a socket that ioctl has made blocking again; otherwise a condition timer is
\* set when the call has a limit.
TryIo(w, f) ==
  LET d == Op(f).fd
      e == Op(f).event
  IN  /\ Calls(w, f, "io", "try")
      /\ \/ /\ ~sock[d].open
            /\ Return(f, "EBADF")
            /\ UNCHANGED <<timerVars, ready, pipe>>
         \/ /\ sock[d].open /\ e \in ready[d]
            /\ Return(f, "ok") /\ Take(d, e)
            /\ UNCHANGED <<timerVars, pipe>>
         \/ /\ sock[d].open /\ e \notin ready[d] /\ sock[d].blocks
            /\ Proceed(f, "kernel")
            /\ UNCHANGED <<line, limit, cancelled, result, since, timerVars, ready, pipe>>
         \/ /\ sock[d].open /\ e \notin ready[d] /\ ~sock[d].blocks
            /\ SetLimit(f, limit[f])
            /\ Proceed(f, "event")
            /\ UNCHANGED <<line, limit, cancelled, result, ready>>
      /\ UNCHANGED <<schedVars, regs, pending, edge, idleVars, panicked, sock, mainAt>>

\* What connect_f answers without waiting: an error of its own it may have always.
AtOnce(d) ==
  IF ~sock[d].open THEN {"EBADF"}
  ELSE IF WRITE \in ready[d] /\ HUP \notin ready[d] THEN {"ok"}
  ELSE IF sock[d].nonblock THEN {"EINPROGRESS", "refused"} ELSE {"refused"}

\* connect_with_timeout up to its addEvent.  It waits only for a connection that is
\* in progress, on a socket that the program itself has not made non-blocking.
TryConnect(w, f) ==
  LET d == Op(f).fd
  IN  /\ Calls(w, f, "connect", "call")
      /\ \/ /\ \E answer \in AtOnce(d) : Return(f, answer)
            /\ UNCHANGED <<timerVars, pipe>>
         \/ /\ AtOnce(d) = {"refused"}
            /\ limit' = [limit EXCEPT ![f] = ConnectTimeout]
            /\ IF sock[d].blocks
               THEN Proceed(f, "kernel") /\ UNCHANGED <<since, timerVars, pipe>>
               ELSE Proceed(f, "event") /\ SetLimit(f, ConnectTimeout)
            /\ UNCHANGED <<line, cancelled, result>>
      /\ UNCHANGED <<schedVars, eventVars, idleVars, panicked, sock, mainAt>>

WaitsFor(f) == Awaited(Op(f))

\* A call that blocks in the kernel, and with it the worker: it ends with what it
\* waits for, or with EAGAIN or EINPROGRESS when the socket has a time limit in the
\* kernel too; the hook then goes on as for a socket that never blocks.
LeaveKernel(w, f) ==
  LET d == Op(f).fd
      e == WaitsFor(f)
  IN  /\ \E kind \in {"io", "connect"} : Calls(w, f, kind, "kernel")
      /\ \/ /\ e \in ready[d]
            /\ Return(f, IF Op(f).op = "connect" /\ HUP \in ready[d] THEN "refused" ELSE "ok")
            /\ IF Op(f).op = "io" THEN Take(d, e) ELSE UNCHANGED ready
            /\ UNCHANGED <<timerVars, pipe>>
         \/ /\ e \in sock[d].timed
            /\ SetLimit(f, limit[f])
            /\ Proceed(f, "event")
            /\ UNCHANGED <<line, limit, cancelled, result, ready>>
      /\ UNCHANGED <<schedVars, regs, pending, edge, idleVars, panicked, sock, mainAt>>

\* addEvent in do_io and connect_with_timeout.
AwaitEvent(w, f) ==
  /\ \E kind \in {"io", "connect"} : Calls(w, f, kind, "event")
  /\ AddEvent(Op(f).fd, WaitsFor(f), f)
  /\ Proceed(f, "yield")
  /\ UNCHANGED <<timerVars, schedVars, idleVars, pipe, line, limit, cancelled, result, since,
                 sock, mainAt>>

\* Every waiting call yields once what will resume it is in place.
YieldInCall(w, f) ==
  /\ \E kind \in {"sleep", "io", "connect"} : Calls(w, f, kind, "yield")
  /\ Yield(w, f, "READY")
  /\ Proceed(f, "woken")
  /\ UNCHANGED <<line, limit, cancelled, result, since, sock, mainAt>>

\* The fiber is resumed, by its event, by the callback of its timer or because
\* the socket was closed: the timer is cancelled, and do_io tries again unless
\* that callback ran; connect asks for the error of the socket.
WakeFromEvent(w, f) ==
  /\ \E kind \in {"io", "connect"} : Calls(w, f, kind, "woken")
  /\ Cancel(f)
  /\ \/ cancelled[f] /\ Return(f, "ETIMEDOUT")
     \/ /\ ~cancelled[f] /\ Op(f).op = "io"
        /\ Proceed(f, "try")
        /\ UNCHANGED <<line, limit, cancelled, result, since>>
     \/ /\ ~cancelled[f] /\ Op(f).op = "connect"
        /\ Return(f, IF ~sock[Op(f).fd].open THEN "EBADF"
                     ELSE IF HUP \in ready[Op(f).fd] THEN "refused" ELSE "ok")
  /\ UNCHANGED <<ioVars, sock, mainAt>>

\* The callback of the condition timer of a call that is still going on marks it
\* as timed out, then resumes the fiber if it still waits.
RunTimeout(w) ==
  LET f == hand[w].fiber
  IN  /\ at[w] = "resume" /\ hand[w].kind = "timeout"
      /\ IF line[f] = hand[w].call /\ ~cancelled[f]
         THEN /\ cancelled' = [cancelled EXCEPT ![f] = TRUE]
              /\ Goto(w, "cancel")
              /\ UNCHANGED <<active, hand>>
         ELSE HandBack(w) /\ UNCHANGED cancelled
      /\ UNCHANGED <<timerVars, tasks, state, idleCnt, stopped, idleTerm, eventVars, idleVars,
                     pipe, panicked, line, step, limit, result, since, sock, mainAt>>

CancelOfTimeout(w) ==
  LET op == Script[hand[w].fiber][hand[w].call]
  IN  /\ at[w] = "cancel"
      /\ CancelEvent(op.fd, {Awaited(op)})
      /\ HandBack(w)
      /\ UNCHANGED <<timerVars, state, idleCnt, stopped, idleTerm, ready, idleVars, panicked,
                     fiberVars, since, sock, mainAt>>

\* close: whoever waits for the socket is resumed before it is closed.
Close(w, f) ==
  LET d == Op(f).fd
  IN  /\ Calls(w, f, "close", "call")
      /\ CancelEvent(d, Event)
      /\ sock' = [sock EXCEPT ![d].open = FALSE]
      /\ Return(f, "ok")
      /\ UNCHANGED <<timerVars, state, active, idleCnt, stopped, at, hand, idleTerm, ready,
                     idleVars, panicked, mainAt>>

\* setsockopt with SO_RCVTIMEO or SO_SNDTIMEO.  The kernel is told as well; it knows
\* times below a millisecond, and takes 0 for no limit.
SetTimeLimit(w, f) ==
  LET d == Op(f).fd
      e == Op(f).event
  IN  /\ Calls(w, f, "setsockopt", "call")
      /\ IF sock[d].open
         THEN /\ sock' = [sock EXCEPT
                   ![d].limit[e] = Millis(Op(f).time),
                   ![d].timed = IF Op(f).time = [sec |-> 0, nsec |-> 0] THEN @ \ {e} ELSE @ \cup {e}]
              /\ Return(f, "ok")
         ELSE Return(f, "EBADF") /\ UNCHANGED sock
      /\ UNCHANGED <<timerVars, ioVars, mainAt>>

\* fcntl (F_SETFL) and ioctl (FIONBIO) note what the program wants.  fcntl leaves the
\* socket itself non-blocking (sysNonblock), ioctl hands the wish on to the kernel.
SetNonblock(w, f) ==
  LET d == Op(f).fd
  IN  /\ \E kind \in {"fcntl", "ioctl"} : Calls(w, f, kind, "call")
      /\ IF sock[d].open
         THEN /\ sock' = [sock EXCEPT ![d].nonblock = Op(f).nonblock,
                                      ![d].blocks = Op(f).op = "ioctl" /\ ~Op(f).nonblock]
              /\ Return(f, "ok")
         ELSE Return(f, "EBADF") /\ UNCHANGED sock
      /\ UNCHANGED <<timerVars, ioVars, mainAt>>

\* Fiber::MainFunc after the function of the fiber.
EndFiber(w, f) ==
  /\ at[w] = "fiber" /\ hand[w] = FiberTask(f) /\ line[f] > Len(Script[f])
  /\ Yield(w, f, "TERM")
  /\ UNCHANGED <<fiberVars, since, sock, mainAt>>

\* What workers do for f.
Running(w, f) ==
  \/ Sleep(w, f) \/ WakeFromSleep(w, f)
  \/ BeginIo(w, f) \/ TryIo(w, f) \/ TryConnect(w, f) \/ LeaveKernel(w, f)
  \/ AwaitEvent(w, f) \/ YieldInCall(w, f) \/ WakeFromEvent(w, f)
  \/ Close(w, f) \/ SetTimeLimit(w, f) \/ SetNonblock(w, f) \/ EndFiber(w, f)

-----------------------------------------------------------------------------
\* The main thread

Does(what) == mainAt <= Len(MainScript) /\ MainScript[mainAt].op = what
MainOp == MainScript[mainAt]
NextLine == mainAt' = mainAt + 1

Submit ==
  /\ Does("scheduler")
  /\ state' = [state EXCEPT ![MainOp.fiber] = "READY"]
  /\ Schedule(<<FiberTask(MainOp.fiber)>>)
  /\ NextLine
  /\ UNCHANGED <<timerVars, active, idleCnt, stopped, at, hand, idleTerm, eventVars, idleVars,
                 panicked, fiberVars, since, sock>>

\* Timers of the main thread: set, put off, changed and cancelled.
UseTimer ==
  /\ \/ /\ Does("addTimer")
        /\ \E front \in BOOLEAN :
             /\ AddTimer(MainOp.timer, MainOp.ms, MainOp.recurring, UserTask, front)
             /\ Tickle(front)
     \/ Does("refresh") /\ Refresh(MainOp.timer) /\ UNCHANGED pipe
     \/ /\ Does("reset")
        /\ \E front \in BOOLEAN :
             Reset(MainOp.timer, MainOp.ms, MainOp.fromNow, front) /\ Tickle(front)
     \/ Does("cancel") /\ Cancel(MainOp.timer) /\ UNCHANGED pipe
  /\ NextLine
  /\ UNCHANGED <<schedVars, eventVars, idleVars, panicked, fiberVars, since, sock>>

\* stop() asks stopping(), and with it getNextTimer, sets the flag, tickles every
\* worker and joins them.
Stop ==
  /\ Does("stop")
  /\ GetNextTimer
  /\ NextLine
  /\ UNCHANGED <<ioVars, fiberVars, since, sock>>

SetStopped ==
  /\ mainAt = Len(MainScript) + 1
  /\ stopped' = TRUE
  /\ NextLine
  /\ UNCHANGED <<timerVars, tasks, state, active, idleCnt, at, hand, idleTerm, eventVars,
                 idleVars, pipe, panicked, fiberVars, since, sock>>

TickleAll ==
  /\ mainAt = Len(MainScript) + 2
  /\ Tickle(TRUE)
  /\ NextLine
  /\ UNCHANGED <<timerVars, schedVars, eventVars, idleVars, panicked, fiberVars, since, sock>>

Join ==
  /\ mainAt = Len(MainScript) + 3
  /\ \A w \in Worker : at[w] = "exit"
  /\ NextLine
  /\ UNCHANGED <<timerVars, ioVars, fiberVars, since, sock>>

Main == Submit \/ UseTimer \/ Stop \/ SetStopped \/ TickleAll \/ Join
Joined == mainAt = Len(MainScript) + 4

-----------------------------------------------------------------------------
\* The kernel, and time

\* Data or a connection arrives, or buffer space gets free; or the peer is gone.
Arrive(d, e) ==
  /\ sock[d].open /\ e \notin ready[d]
  /\ ready' = [ready EXCEPT ![d] = IF e = HUP THEN Event \cup {HUP} ELSE @ \cup {e}]
  /\ edge' = [edge EXCEPT ![d] = IF Waiting(d) = {} THEN {}
                                 ELSE @ \cup (ready'[d] \cap (Waiting(d) \cup {HUP}))]
  /\ UNCHANGED <<timerVars, schedVars, regs, pending, idleVars, pipe, panicked, fiberVars, since,
                 sock, mainAt>>

Tick ==
  /\ timers' = Sooner(timers)
  /\ wait' = [w \in Worker |-> IF at[w] = "epoll" THEN AtLeast0(wait[w] - 1) ELSE wait[w]]
  /\ since' = [f \in Fiber |-> AtMost(since[f] + 1, MaxDelay)]
  /\ UNCHANGED <<armed, tickled, schedVars, eventVars, due, got, told, pipe, panicked, fiberVars, sock,
                 mainAt>>

-----------------------------------------------------------------------------

\* A worker, until the process is gone.
Works(w) ==
  /\ ~panicked
  /\ \/ Scheduling(w) /\ UNCHANGED <<fiberVars, since, sock, mainAt>>
     \/ RunTimeout(w) \/ CancelOfTimeout(w)
     \/ \E f \in Fiber : Running(w, f)

Next ==
  \/ \E w \in Worker : Works(w)
  \/ ~panicked /\ (Main \/ Tick)
  \/ ~panicked /\ \E d \in Fd, e \in Event \cup {HUP} : Arrive(d, e)

Spec == Init /\ [][Next]_vars

\* The operating system runs every thread again and again, and time goes by.
\* Nothing is assumed of the sockets.
FairSpec ==
  /\ Spec
  /\ \A w \in Worker : WF_vars(Works(w))
  /\ WF_vars(~panicked /\ Main)
  /\ WF_vars(~panicked /\ Tick)

-----------------------------------------------------------------------------
\* Properties

\* What a call returns.
Result == {"none", "ok", "EBADF", "EAGAIN", "EINPROGRESS", "refused", "ETIMEDOUT"}

\* Types of all variables of the fiber library.
TypeOK ==
  /\ TimersTypeOK
  /\ tasks \in Seq(Task)
  /\ state \in [Fiber -> {"NEW", "READY", "RUNNING", "TERM"}]
  /\ active \in 0 .. Cardinality(Worker) /\ idleCnt \in 0 .. Cardinality(Worker)
  /\ stopped \in BOOLEAN /\ pipe \in BOOLEAN /\ panicked \in BOOLEAN
  /\ at \in [Worker -> Places]
  /\ hand \in [Worker -> Task \cup {NoTask}]
  /\ idleTerm \in [Worker -> BOOLEAN]
  /\ regs \in [Fd -> [Event -> Fiber \cup {NoFiber}]]
  /\ pending \in 0 .. Cardinality(Fiber)
  /\ ready \in [Fd -> SUBSET (Event \cup {HUP})]
  /\ edge \in [Fd -> SUBSET (Event \cup {HUP})]
  /\ wait \in [Worker -> 0 .. MaxTimeout]
  /\ due \in [Worker -> Seq(Task)]
  /\ got \in [Worker -> [Fd -> SUBSET (Event \cup {HUP})]]
  /\ line \in [Fiber -> Nat] /\ \A f \in Fiber : line[f] \in 1 .. Len(Script[f]) + 1
  /\ step \in [Fiber -> {"call", "try", "kernel", "event", "yield", "woken"}]
  /\ limit \in [Fiber -> Delay \cup {NoLimit}]
  /\ cancelled \in [Fiber -> BOOLEAN]
  /\ result \in [Fiber -> Result]
  /\ sock \in [Fd -> [open : BOOLEAN, nonblock : BOOLEAN, limit : [Event -> Delay \cup {NoLimit}],
                      blocks : BOOLEAN, timed : SUBSET Event]]
  /\ since \in [Fiber -> Delay]
  /\ told \in [Worker -> BOOLEAN]
  /\ mainAt \in 1 .. Len(MainScript) + 4

\* Four assertions of the library, which end the process, do not fail: a fiber taken
\* from the queue is READY (scheduler.cpp:111) and so is one that is resumed
\* (fiber.cpp:72), an event is triggered only while it is registered
\* (iomanager.cpp:24) and registered only while it is not (iomanager.cpp:94).  It
\* depends on a fiber's call, its timer and its event resuming the fiber once in all.
NoPanic == ~panicked

\* In how many places something waits that will resume f.
Count(S) == Cardinality(S)
Resumers(f) ==
  LET wakes == {FiberTask(f), WakeTask(f)}
  IN  Count({k \in DOMAIN tasks : tasks[k] \in wakes})
      + Count({k \in DOMAIN timers : timers[k].cb = WakeTask(f)})
      + Count({x \in Fd \X Event : regs[x[1]][x[2]] = f})
      + Count({w \in Worker : hand[w] \in wakes /\ at[w] # "fiber"})
      + Count(UNION {{<<w, k>> : k \in {k \in DOMAIN due[w] : due[w][k] = WakeTask(f)}} :
                       w \in Worker})

\* A fiber that has yielded is resumed by exactly one thing: it is in the queue,
\* or a worker has it in hand, or one timer or one event will hand it over.  No
\* fiber is lost and none is resumed twice, whatever the order in which timer,
\* event, close() and the callback of the limit come.
ResumedOnce ==
  \A f \in Fiber : /\ state[f] = "READY" => Resumers(f) = 1
                   /\ state[f] = "RUNNING" => Resumers(f) <= 1
                   /\ state[f] \in {"NEW", "TERM"} => Resumers(f) = 0

\* As long as all workers sleep in epoll_wait and nothing is there to wake one,
\* one of them gets up no later than the first timer is due: whoever inserts an
\* earlier timer, also while a worker is on its way to epoll_wait, tells them
\* (tickled_, OnTimerInsertedAtFront, getNextTimer).
NoTimerOverslept ==
  (/\ \A w \in Worker : at[w] \in {"epoll", "exit"}
   /\ \E w \in Worker : at[w] = "epoll"
   /\ ~pipe /\ timers # <<>>)
  => \E w \in Worker : at[w] = "epoll" /\ wait[w] <= timers[1].left

\* When the last worker has left run(), stop() has drained the scheduler: every
\* fiber that was handed over has ended, no timer, event or task is left
\* (IOManager::stopping asks for the timers, the events, the queue and the
\* active count one after the other).
StoppedIsDrained ==
  (\A w \in Worker : at[w] = "exit") =>
    /\ \A f \in Fiber : state[f] \in {"NEW", "TERM"}
    /\ timers = <<>> /\ tasks = <<>> /\ \A d \in Fd : Waiting(d) = {}

\* A call that returns because time has passed, a sleep or a time-out, is cut short
\* by nothing but the conversion to milliseconds: when a sleep returns the clock has
\* advanced to within less than a millisecond of the time asked for, and by the whole
\* limit at a time-out.  No callback that was meant for an earlier wait, and no timer
\* taken out too soon, ends it before.
NotEarly ==
  [][\A f \in Fiber : line'[f] > line[f] =>
       /\ Op(f).op = "sleep" => LET t == Op(f).time
                                IN  t.nsec < (since[f] + 1 - t.sec * 1000) * 1000000
       /\ result'[f] = "ETIMEDOUT" => since[f] >= limit[f]]_vars

\* A fiber that was handed over comes to its end when its calls have limits, even
\* if no socket ever gets ready: a task that nobody announced is found after
\* MAX_TIMEOUT, and time-outs reach the calls they are set for.
FibersEnd == \A f \in Fiber : state[f] = "READY" ~> state[f] = "TERM"

\* stop() returns, also when its tickles find no worker idle.
StopReturns == stopped ~> Joined

=============================================================================
