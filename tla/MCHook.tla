------------------------------- MODULE MCHook -------------------------------
(***************************************************************************)
(* Instances of Hook for TLC: the calls of the fibers and of the main      *)
(* thread.                                                                 *)
(***************************************************************************)
EXTENDS HookInvariants, TLC

CONSTANTS a, b, \* fibers
          x,    \* a socket
          m     \* a timer of the main thread

Callbacks == Task
Timers    == Fiber \cup {m}

Io(d, e)        == [op |-> "io", fd |-> d, event |-> e]
Connecting(d)   == [op |-> "connect", fd |-> d]
Closing(d)      == [op |-> "close", fd |-> d]
Micros(us)      == [sec |-> 0, nsec |-> us * 1000]
Limit(d, e, us) == [op |-> "setsockopt", fd |-> d, event |-> e, time |-> Micros(us)]
Nonblocking(d)  == [op |-> "fcntl", fd |-> d, nonblock |-> TRUE]
Blocking(d)     == [op |-> "ioctl", fd |-> d, nonblock |-> FALSE]
Sleeping(us)    == [op |-> "sleep", time |-> Micros(us)]

\* a sleeps and then reads x with a limit, for times that are no whole
\* milliseconds; b connects x meanwhile, reads from it without waiting, so that
\* a may be woken and find nothing, makes it really blocking, so that a may wait
\* in the kernel, and closes it, whoever waits for it.
ReaderAndCloser ==
  [f \in {a, b} |->
     CASE f = a -> <<Sleeping(1500), Limit(x, READ, 2300), Io(x, READ)>>
       [] f = b -> <<Connecting(x), Nonblocking(x), Io(x, READ), Blocking(x), Closing(x)>>]

HandOver(f) == [op |-> "scheduler", fiber |-> f]

\* The main thread uses a timer, hands over two fibers and stops.
HandOverAndStop ==
  << [op |-> "addTimer", timer |-> m, ms |-> 2, recurring |-> TRUE],
     [op |-> "refresh", timer |-> m],
     [op |-> "reset", timer |-> m, ms |-> 1, fromNow |-> TRUE],
     HandOver(a),
     [op |-> "cancel", timer |-> m],
     HandOver(b),
     [op |-> "stop"] >>

=============================================================================
