--------------------------- MODULE HookInvariants ---------------------------
(***************************************************************************)
(* Why a fiber that waits is resumed once and for as long as it asked, why *)
(* no assertion of the fiber library fails and stop() leaves nothing       *)
(* behind: the inductive invariant behind the safety properties of Hook,   *)
(* for a scheduler with one worker thread.  With a second one the event of *)
(* a fiber may be triggered before the fiber has yielded                   *)
(* (scheduler.cpp:111).                                                    *)
(***************************************************************************)
EXTENDS Hook

\* What the library asks of the program, which it asserts (iomanager.cpp:94,
\* scheduler.cpp:111) or takes for granted: an event of a socket has one waiting
\* fiber, a fiber is handed over once, addTimer makes a new Timer.
Waits(f) == {Script[f][k] : k \in {k \in DOMAIN Script[f] : Script[f][k].op \in {"io", "connect"}}}

ProperUse ==
  /\ \A f, g \in Fiber : \A c \in Waits(f), d \in Waits(g) :
       c.fd = d.fd /\ Awaited(c) = Awaited(d) => f = g
  /\ \A j, k \in DOMAIN MainScript :
       MainScript[j].op = "scheduler" /\ MainScript[k].op = "scheduler"
       /\ MainScript[j].fiber = MainScript[k].fiber => j = k
  /\ \A j, k \in DOMAIN MainScript :
       MainScript[j].op = "addTimer" /\ MainScript[k].op = "addTimer"
       /\ MainScript[j].timer = MainScript[k].timer => j = k

OneWorker == Cardinality(Worker) = 1

-----------------------------------------------------------------------------
\* Workers

\* A worker has a task in hand from taking it until it looks for another one, due
\* timers and reported events only on its way through idle(), and is counted as
\* active, or as idle, for just as long.
Inside == {"idle", "asked", "epoll", "expire", "push", "events"}

WorkersFit ==
  \A w \in Worker :
    /\ hand[w] # NoTask <=> at[w] \in {"resume", "fiber", "cancel"}
    /\ at[w] = "fiber" => hand[w].kind = "fiber"
    /\ at[w] = "cancel" => hand[w].kind = "timeout"
    /\ due[w] # <<>> => at[w] = "push"
    /\ active = IF hand[w] # NoTask THEN 1 ELSE 0
    /\ idleCnt = IF at[w] \in Inside THEN 1 ELSE 0

-----------------------------------------------------------------------------
\* Timers

\* The callback that the timer of f's call has.
CallbackOf(f) == IF Op(f).op = "sleep" THEN WakeTask(f) ELSE TimeoutTask(f, line[f])

\* The timer of a fiber belongs to the call the fiber is at, and is set between
\* the first attempt of that call and its end.
TimerFits(t) ==
  /\ t.left <= t.ms
  /\ t.id \in UserTimer => t.cb = UserTask
  /\ t.id \in Fiber => /\ line[t.id] \in DOMAIN Script[t.id]
                       /\ step[t.id] \in {"event", "yield", "woken"}
                       /\ t.cb = CallbackOf(t.id) /\ ~t.recurring

TimersFit ==
  /\ \A j, k \in DOMAIN timers : /\ j < k => timers[j].left <= timers[k].left
                                 /\ timers[j].id = timers[k].id => j = k
  /\ \A k \in DOMAIN timers : TimerFits(timers[k])

-----------------------------------------------------------------------------
\* Sockets

\* A fiber waits for the event of the call it is at; epoll has reported or will
\* report nothing but what somebody waits for; what was reported is still waited
\* for when idle() comes to it.
EventsFit ==
  /\ \A d \in Fd, e \in Event :
       LET f == regs[d][e] IN
       f # NoFiber => /\ line[f] \in DOMAIN Script[f] /\ Op(f).op \in {"io", "connect"}
                      /\ Op(f).fd = d /\ WaitsFor(f) = e
  /\ \A d \in Fd : edge[d] \subseteq Waiting(d) \cup {HUP}
  /\ \A w \in Worker, d \in Fd :
       /\ got[w][d] \subseteq Waiting(d) \cup {HUP}
       /\ got[w][d] # {} => at[w] \in {"expire", "push", "events"}

Registered == {x \in Fd \X Event : regs[x[1]][x[2]] # NoFiber}
PendingFits == IsFiniteSet(Registered) /\ pending = Cardinality(Registered)

-----------------------------------------------------------------------------
\* Fibers

\* The places where something waits that will resume f, and that it waits in one
\* place only.
Wakes(f) == {FiberTask(f), WakeTask(f)}

InTasks(f)  == \E k \in DOMAIN tasks : tasks[k] \in Wakes(f)
InTimers(f) == \E k \in DOMAIN timers : timers[k].cb = WakeTask(f)
InRegs(f)   == \E d \in Fd, e \in Event : regs[d][e] = f
InHand(f)   == \E w \in Worker : hand[w] \in Wakes(f) /\ at[w] # "fiber"
InDue(f)    == \E w \in Worker : \E k \in DOMAIN due[w] : due[w][k] = WakeTask(f)

Only(f, p) == /\ InTasks(f) <=> p = "tasks"
              /\ InTimers(f) <=> p = "timers"
              /\ InRegs(f) <=> p = "regs"
              /\ InHand(f) <=> p = "hand"
              /\ InDue(f) <=> p = "due"

\* Where that may be: nowhere before the fiber is handed over, while it runs and
\* after its end; but once the timer or the event of its call is in place, there.
Allowed(f) ==
  LET sleeps == Op(f).op = "sleep" IN
  IF state[f] \in {"NEW", "TERM"} THEN {"nowhere"}
  ELSE IF state[f] = "RUNNING"
  THEN IF step[f] = "yield" THEN {IF sleeps THEN "timers" ELSE "regs"} ELSE {"nowhere"}
  ELSE IF step[f] = "call" THEN {"tasks", "hand"}
  ELSE IF sleeps THEN {"timers", "due", "tasks", "hand"} ELSE {"regs", "tasks", "hand"}

\* How far a fiber is in its call.
StepFits(f) ==
  /\ state[f] \in {"NEW", "TERM"} => step[f] = "call"
  /\ state[f] = "READY" => step[f] \in {"call", "woken"}
  /\ step[f] # "call" => line[f] \in DOMAIN Script[f]
  /\ step[f] = "try" => Op(f).op = "io"
  /\ step[f] \in {"kernel", "event"} => Op(f).op \in {"io", "connect"}
  /\ step[f] \in {"yield", "woken"} => Op(f).op \in {"sleep", "io", "connect"}

Runs(f) == \E w \in Worker : at[w] = "fiber" /\ hand[w] = FiberTask(f)

FibersFit ==
  \A f \in Fiber : /\ state[f] = "RUNNING" <=> Runs(f)
                   /\ StepFits(f)
                   /\ \E p \in Allowed(f) : Only(f, p)

\* Nothing is twice in a queue, and a time-out belongs to a call that waits.
LimitFits(task) == task.kind = "timeout" => Script[task.fiber][task.call].op \in {"io", "connect"}

TasksFit ==
  /\ \A f \in Fiber : \A j, k \in DOMAIN tasks :
       tasks[j] \in Wakes(f) /\ tasks[k] \in Wakes(f) => j = k
  /\ \A f \in Fiber, w \in Worker : \A j, k \in DOMAIN due[w] :
       due[w][j] = WakeTask(f) /\ due[w][k] = WakeTask(f) => j = k
  /\ \A k \in DOMAIN tasks : LimitFits(tasks[k])
  /\ \A w \in Worker :
       LimitFits(hand[w]) /\ \A k \in DOMAIN due[w] : LimitFits(due[w][k]) /\ due[w][k].kind # "fiber"

-----------------------------------------------------------------------------
\* The main thread

\* What the main thread has not done yet nobody else has.
Done(what) == {MainScript[k] : k \in {k \in DOMAIN MainScript : k < mainAt /\ MainScript[k].op = what}}

MainFits ==
  /\ \A f \in Fiber : state[f] # "NEW" => \E c \in Done("scheduler") : c.fiber = f
  /\ \A id \in UserTimer : id \in armed => \E c \in Done("addTimer") : c.timer = id

\* Timers, tasks, registered events and the states of fibers agree: whatever
\* expires, arrives, is closed or cancelled in between, there is one thing that
\* will resume a fiber that waits, and none for one that does not.
FibersAgree ==
  /\ NoPanic /\ ArmedIsQueued
  /\ WorkersFit /\ TimersFit /\ EventsFit /\ PendingFits /\ FibersFit /\ TasksFit /\ MainFits

-----------------------------------------------------------------------------
\* What a worker on its way to epoll_wait has found out about the timers still
\* holds, unless it is told that it does not: an earlier timer fills the pipe, and
\* tickled_ is set by nothing that does not.
TimersKnown ==
  \A w \in Worker :
    /\ at[w] = "asked" /\ ~pipe => ~tickled /\ timers = <<>>
    /\ at[w] = "epoll" /\ ~pipe => ~tickled /\ \A k \in DOMAIN timers : wait[w] <= timers[k].left

-----------------------------------------------------------------------------
\* What stop() leaves behind.  A worker that has found no timer ends although one
\* may have been set since: the main thread has to cancel its timers before.
TimersCancelled ==
  \A j \in DOMAIN MainScript : MainScript[j].op = "addTimer" =>
    \E k \in DOMAIN MainScript : /\ j < k /\ MainScript[k].op = "cancel"
                                 /\ MainScript[k].timer = MainScript[j].timer

\* The timers that the main thread has set and not cancelled yet.
Kept ==
  {id \in UserTimer :
     \E j \in DOMAIN MainScript :
       /\ j < mainAt /\ MainScript[j].op = "addTimer" /\ MainScript[j].timer = id
       /\ \A k \in DOMAIN MainScript :
            j < k /\ k < mainAt /\ MainScript[k].op = "cancel" => MainScript[k].timer # id}

\* No fiber sets a timer while the worker asks stopping(), and a worker whose idle
\* fiber has ended finds nothing to do any more.
StopFits ==
  /\ stopped => mainAt > Len(MainScript) + 1
  /\ UserTimer \cap armed \subseteq Kept
  /\ \A w \in Worker :
       /\ at[w] = "asked" => armed \subseteq UserTimer
       /\ at[w] = "exit" => idleTerm[w]
       /\ idleTerm[w] => /\ at[w] \in {"look", "exit"} /\ stopped
                         /\ tasks = <<>> /\ pending = 0
                         /\ TimersCancelled => armed = {}

-----------------------------------------------------------------------------
\* Why no call is cut short.  How long the call of f waits.
Wanted(f) == IF Op(f).op = "sleep" THEN Millis(Op(f).time) ELSE limit[f]

\* A timer that counts from when its call began to wait.
Counts(t) == t.id \in Fiber => t.ms = Wanted(t.id) /\ since[t.id] + t.left >= t.ms

\* The callback of a condition timer that is due, of a call that has waited for it.
LateFits(task) ==
  task.kind = "timeout" => LET f == task.fiber
                           IN  task.call = line[f] /\ step[f] = "woken" /\ since[f] >= limit[f]

DelaysKept ==
  /\ \A k \in DOMAIN timers : Counts(timers[k])
  /\ \A f \in Fiber :
       /\ step[f] = "woken" /\ Op(f).op = "sleep" /\ f \notin armed => since[f] >= Wanted(f)
       /\ cancelled[f] => step[f] = "woken" /\ since[f] >= limit[f]
  /\ \A k \in DOMAIN tasks : LateFits(tasks[k])
  /\ \A w \in Worker :
       LateFits(hand[w]) /\ \A k \in DOMAIN due[w] : LateFits(due[w][k])

\* idle() hands over what is due before it handles events, and comes to that with
\* no task left: the callback of a call's timer is ahead of whatever else resumes
\* its fiber, so that none is left when the fiber waits again in the same call.
Resting == {"rest", "idle", "asked", "epoll", "expire", "push"}

LatesFirst ==
  /\ \A j, k \in DOMAIN tasks :
       tasks[j].kind = "fiber" /\ tasks[k].kind = "timeout" /\ tasks[j].fiber = tasks[k].fiber
       => k < j
  /\ \A w \in Worker :
       /\ hand[w].kind = "fiber" =>
            \A k \in DOMAIN tasks : tasks[k].kind = "timeout" => tasks[k].fiber # hand[w].fiber
       /\ at[w] \in Resting =>
            \A k \in DOMAIN tasks : tasks[k].kind = "fiber" => step[tasks[k].fiber] = "call"

-----------------------------------------------------------------------------
FiberInv == /\ TypeOK /\ FibersAgree /\ TimersKnown
            /\ StopFits /\ DelaysKept /\ LatesFirst

=============================================================================
