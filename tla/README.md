# A verification model of cpp_Raft

TLA+ modules for the key/value store in this repository: a Raft library
(`src/src/RaftCore`), the key/value service on top of it, its client, and the
RPC and fiber libraries below. The modules are translated from the code; where
code and comments disagree, the model does what the code does and a run shows
the difference.

State of the development: the consensus core, the key/value service with its
client, the RPC library with its messages and the fiber library are modelled and
model-checked. Proved for every size of the system are the safety of elections,
what a leader may believe of logs and acknowledgements, the assertions of
raft.cpp, what the service tells its clients, and whose reply an RPC returns
(section 4). What is left out is listed in section 6, further theorems are
planned in section 5.

## 1. The system

| component | code | state | operations | talks to |
|---|---|---|---|---|
| Raft | `RaftCore/raft.cpp` | term, vote, log, commitIndex, lastApplied, nextIndex, matchIndex, all under `m_mtx` | doElection, RequestVote, sendRequestVote; doHeartBeat, AppendEntries1, sendAppendEntries; StartConses; applierTicker; init; the snapshot functions | peers (RPC), KvServer (`applyChan`), Persister |
| Persister | `Persister.cpp` | one file for the Raft state, one for the snapshot | SaveRaftState, ReadRaftState, Save, ReadSnapshot | called by Raft under `m_mtx` |
| RaftRpc | `raftRpc.cpp` | a stub per peer | one blocking call per RPC | RPC channel |
| KvServer | `kvServer.cpp` | `m_kvDB`, `m_lastRequestId`, `waitApplyCh` under its own `m_mtx` | Get, PutAppend (RPC threads), ReadRaftApplyCommandLoop | Raft (StartConses, GetState), clerks |
| Clerk | `raftClerk/*.cpp` | request number, last known leader | Get, Put, Append with retries | KvServer (RPC) |
| LockQueue | `common/include/util.h` | a queue with lock and condition | Push, Pop, timeOutPop | applyChan and the wait queues |
| RPC channel | `rpc/mprpcchannel.cpp` | one socket per stub, without a lock | CallMethod, newConnect | RPC provider (TCP) |
| RPC provider | `rpc/rpcprovider.cpp` | service table | OnMessage, SendRpcResponse | calls Raft and KvServer in 4 threads |
| Fiber scheduler | `fiber/scheduler.cpp`, `fiber.cpp` | task queue, idle and active counts | scheduler, run, idle, tickle, stop | IOManager |
| Timer manager | `fiber/timer.cpp` | ordered set of timers | addTimer, cancel, refresh, reset, listExpiredCb | IOManager |
| IOManager, hooks | `fiber/iomanager.cpp`, `hook.cpp` | events per descriptor | addEvent, delEvent, cancelEvent, idle; hooked sleep, read, write, connect | runs the heartbeat ticker and the applier |

How they interact: a clerk's request reaches `KvServer::Get` or `PutAppend` in
an RPC thread, which appends to the leader's log (`StartConses`) and waits on a
queue for that index. The heartbeat ticker sends the log to the peers, one
detached thread per peer; the replies advance `m_commitIndex`; the applier
pushes what is committed into `applyChan`; the apply loop executes it and wakes
the waiting RPC thread.

What makes this hard, and what makes each part correct:

- *Raft.* Tickers, RPC threads and callers interleave at `m_mtx`. Replies arrive late, in
  any order, in a later term or after the caller changed its role. Correct: one
  leader per term, votes never taken back, committed entries never lost, the
  assertions in the code (which exit the process) always true, progress.
- *Persister.* Crash between any two steps. Correct: what is read back is what
  was written last.
- *KvServer and Clerk.* A request is retried while its first copy may be
  executed. Correct: an answered write took effect exactly once, reads are not
  stale, no thread waits on a deleted queue.
- *RPC.* Threads share a socket. Correct: a caller reads the reply to its own
  call; every call ends.
- *Fibers, timers, events.* Lost wake-ups, timers removed while they expire,
  an event racing with its timeout. Correct: a queued task runs, a timer fires
  at most once per period and never after its cancellation, a waiting fiber is
  resumed exactly once.

`PROJECT.json` lists the hazards one by one with the line where each bites.

## 2. The modules

| module | what it is |
|---|---|
| `Raft` | the specification: state, one action per handler and branch, fairness, properties |
| `RaftInvariants` | the inductive invariant `ElectionInv` about votes |
| `MCRaft` | instances for TLC: bounds, symmetry, reductions, schedules |
| `RaftElectionProofs` | `TypeCorrect`, `ElectionInvariant`, `AtMostOneLeader`, `VotesAreFinal` |
| `RaftLogInvariants` | the inductive invariant `LogInv` about single log entries |
| `RaftLogProofs` | `LogInvariant`, `AssertionsNeverFail`, `AcksAreTrue`, `LogsNeverShrink` |
| `RaftCommitInvariants` | what is lost and what is not: `CleanSpec`, the inductive invariants `CommitInv` about whole logs and `QuorumInv` about what a leader has counted, the refinement mapping to `ReplicatedLog` |
| `RaftCommitProofs` | `CommitInvariant`, `LeadersAreComplete`, `StateMachinesAgree`, `CommittedNeverChanges`, `RaftImplementsReplicatedLog`, `QuorumInvariant`, `QuorumsAreCommitted` |
| `ReplicatedLog` | what Raft promises to the service: one growing sequence of commands, handed to every server in order |
| `KvServer` | the key/value service and its clerks, on top of `ReplicatedLog` |
| `KvServerInvariants` | the inductive invariant `KvInv`: what a server's counters, queues and database say of the log |
| `MCKvServer` | instances for TLC: what the clients ask and how often they retry |
| `KvServerProofs` | `KvTypeCorrect`, `QueuesAreOwned`, `AnswersAreChosen`, `DatabasesAreLogOnce` |
| `KvReadProofs` | `KvInvariant`, `ReadsSeeAnswered` |
| `Wire` | the twelve messages of the two services, serialised and parsed |
| `RpcChannel` | `MprpcChannel` and `RpcProvider` with the connections between them, on top of `Wire` |
| `RpcChannelInvariants` | the inductive invariant `ChannelInv`: whose a connection is; what is assumed of the wire |
| `MCRpcChannel` | instances for TLC: who calls what, and what handlers answer |
| `RpcChannelProofs` | `ChannelTypeCorrect`, `ChannelInvariant`, `RequestsHandledOnce`, `RepliesAreOwn` |
| `TimerManager` | the ordered set of timers |
| `IOManager` | the workers of a scheduler, its task queue, events and the idle loop, on top of `TimerManager` |
| `Hook` | fibers in hooked system calls, the main thread, the kernel and time, on top of `IOManager` |
| `HookInvariants` | the inductive invariant `FiberInv`: where what will resume a fiber waits, and since when; what the library asks of a program |
| `MCHook` | the instance for TLC: what fibers and the main thread do |
| `TimerManagerProofs` | what adding, cancelling, resetting and expiring do to the sorted sequence of timers |
| `HookProofs` | `FiberInvariant`, `FibersResumedOnce`, `NoAssertionFails`, `CallbacksAreQueued`, `TimersNotOverslept`, `NothingEarly`, `StopDrains` |

`KvServer` extends `ReplicatedLog` and takes its variables `chosen` and
`delivered` as the whole of Raft's log. `RaftCommitInvariants` instantiates the same
module with what Raft's servers know to be committed and what each pushed into
`applyChan`; `raft_commit` checks that Raft implements it, and
`RaftImplementsReplicatedLog` proves it for `CleanSpec`. That result is
bounded by Raft's two flaws: `raft_stale_suffix` and `raft_restart_forgets` are
behaviours in which Raft does not keep the promise, and what is shown of
`KvServer` is shown for a Raft that does.

The three layers of the fiber library are one state machine: `TimerManager` and
`IOManager` declare their variables and operations, and `Hook` has `Init` and
`Next`. Raft and the service run above both libraries, but are not composed with
them in one state space: what they see of the RPC library is that a call is
answered, fails or never ends, and may have a wrong answer only where
`rpc_shared` shows it; what they see of the fiber library is that the two
tickers run again and again.

Definitions whose names end in a slip (`MergeEntriesTruncating`, `MayGrantAlways`
and so on) are wrong variants used only to show that a property would notice
such a mistake; no action uses them.

### How Raft.tla corresponds to raft.cpp

- *One action per handler run.* Every handler holds `m_mtx` from its first to
  its last access to the state, so its body is one step. An RPC is three steps:
  the caller puts a record into `requestVoteArgs` or `appendEntriesArgs`, the
  peer replaces it by a reply, the caller's thread consumes the reply. Any step
  may come between. A call may fail before or after the peer handled it
  (`VoteCallFails`, `AppendCallFails`); an RPC that was never answered is one
  that stays where it is.
- *Branches.* `RequestVote` is `RefuseExpiredVote` and `RequestVote`;
  `AppendEntries1` is `RefuseExpiredEntries`, `RefuseGap`, `RefuseMismatch`,
  `AcceptEntries`; `sendRequestVote` after its call is `VoteReplyNewerTerm`,
  `VoteReplyCounted`, `BecomeLeader`; `sendAppendEntries` is
  `AppendReplyNewerTerm`, `AppendReplyStale`, `AppendReplyFailure`,
  `AppendReplySuccess`.
- *Shared counters.* `votedNum` and `appendNums` are the `shared_ptr<int>`s that
  the threads of one election or one heartbeat round share. An old election's
  counter is not read again, since its replies have an older term; a round's
  counter lives as long as one of its calls, hence rounds.
- *Data.* `m_logs` is a sequence whose position is the log index. `AppState`,
  `VoteState` and the leader id in AppendEntries are not stored by anyone and
  are left out. A reply carries what the calling thread still has in its hands:
  the term of the vote call, and for an AppendEntries its end index and the
  term of its last entry.
- *Assertions.* `myAssert` exits the process. Their conditions guard the
  actions, and `AssertionsHold` says that they are true whenever the code
  reaches them.
- *Persistence.* `persist()` writes term, vote and log together at the end of
  the handler. A step-down by an AppendEntries reply does not persist, and
  neither does the model. `Restart` is a new process running `init`: it reads
  back `disk` if `DiskSurvives`, else nothing, which is what the truncating
  constructor of Persister leaves; the code is `DiskSurvives = FALSE`.
- *History.* `voteRecord` is not in the code; it remembers every vote given so
  that properties can speak of it. `boot` is the incarnation of a process, by
  which a reply to a dead process is recognised: its socket died with it.
- *Timers.* Clocks are abstracted: the election timer of any server and the
  heartbeat timer of a leader may fire at any moment. Safety cannot depend on
  them; liveness is stated for runs in which terms stop changing.

### How KvServer.tla corresponds to kvServer.cpp and clerk.cpp

- *Threads.* A member of `handlers` is an RPC thread running `Get` or
  `PutAppend`; its `pc` says which critical section comes next. Each section
  under `m_mtx`, each call into Raft and each pop is one action: `StartRequest`,
  `RegisterQueue`, `PopCommand` or `PopTimesOut`, `ReadLeadership`,
  `ReadAfterTimeout` or `WriteAfterTimeout`, `ExecuteGetOpOnKVDB`, `EraseQueue`.
  A handler does not notice that its clerk has gone. The apply loop has three
  sections per command: `GetCommandFromRaft` (pop and duplicate test),
  `ExecuteOp`, `SendMessageToWaitChan`.
- *Raft underneath.* `StartConses` returns an index that is free in the
  server's own log. Logs never get shorter (`LogNeverShrinks` in
  `raft_replication`), so a server never hands out an index twice, but two
  servers may hand out the same one, and either entry may be committed there.
  Leadership is not a variable: since it may change between any two steps, what
  `StartConses` and `GetState` find is left open.
- *Clerk.* `CallFails` is everything that makes a clerk try again without an
  answer: an error goes on to the next server, an empty reply (`recv` returned
  0) to the same one. The old request or reply is lost (`Lost`) or still being
  served.
- *Wait queues.* `waitApplyCh` maps an index to a queue or to `NoQueue`. A pop
  may time out although the queue is no longer empty, since `wait_until` reports
  a timeout after taking the lock back.
- *Data.* One key. A value is the sequence of the writes that made it, so that a
  write executed twice or not at all shows in it. `client` is the clerk;
  `ClientId` gives the `m_clientId` by which servers know it, and only that is
  compared.
- *History.* `answered` and a clerk's `before` remember which writes were
  answered OK, and which of them before a Get was called.

### How Wire.tla and RpcChannel.tla correspond to the RPC library

- *Messages.* protoc writes the same `Clear`, `_InternalSerialize` and
  `_InternalParse` for every message, differing in the fields, their numbers and
  types. `Wire` has one schema per message and one operator per function. What
  matters is kept: a field with its default value is not written, an unknown one
  is put aside, the last of several wins, a repeated field is written entry by
  entry, and nothing on the wire says which message it is. `RoundTrip` is an
  assumption of `MCRpcChannel`, so TLC evaluates it at the start of every run:
  every message with up to three values per field comes back as it was.
- *Sizes* are counted in items (written fields) instead of bytes. `header_size`
  and `args_size` are kept, so that `Understood` can be wrong in the ways
  `OnMessage` can: too few items, a header cut short, an empty `args_size`.
- *Steps of a call.* One action per system call of `CallMethod` and one per read
  of `m_clientFd`, since it is shared without a lock: `Start`, `NewConnect`,
  `Send`, `SendFails`, `CloseSocket`, `Recv`, then `Take`, `TakeNothing` or
  `RecvFails`. A handler may answer anything in `Answers`.
- *The server* takes all that arrived (`retrieveAllAsString`) and handles the
  first request of it: `OnMessage` chooses how many whole requests came and how
  much of another one. `SendRpcResponse` is the handler's end.
- *TCP* keeps order, may join requests or hand them over in pieces, loses what
  was under way when the server dies, and lets one `send()` to a closed peer
  succeed before the reset comes back. Replies are not cut by it, they are
  shorter than a segment; the channel's own buffer of 1024 bytes does cut them.
- *History.* `seen` and `answer` are with which arguments a call was handled and
  what its handler said. `disturbed` are connections on which two calls
  overlapped or something was cut.

### How TimerManager.tla, IOManager.tla and Hook.tla correspond to the fiber library

- *Workers.* `at[w]` is where a worker is: in `run()`, resuming a task, in a
  fiber, or in the idle fiber. Each critical section, each system call and each
  access to an atomic counter that another thread reads is a step of its own:
  `TakeTask`, `ResumeFiber`, `HandBack`; `Idle` (the first half of `stopping()`,
  which reads the timers), `WaitOrStop` (its second half), `EpollWait`,
  `Expire`, `PushExpired`, `ReadPipe`, `HandleEvent`, `LeaveIdle`.
- *Merged steps.* Queueing a task and the `tickle()` that may follow are one
  step, and so are inserting a timer and announcing it. A worker cannot do
  anything between the two that it could not do before or after them: a tickle
  only writes to the pipe, if a worker is idle.
- *One worker.* The program runs `FIBER_THREAD_NUM = 1` worker (config.h), and
  the instance has one. The module is written for any number. With two, TLC finds
  within seconds that the condition at scheduler.cpp:111 fails: an event may be
  triggered by one worker between `addEvent` and `yield` on the other, so that
  a fiber is queued that still runs.
- *Time* is relative: a timer holds the time left, `Tick` lets one unit go by.
  A sleep in `epoll_wait` is cut by `MaxTimeout` (`MAX_TIMEOUT`). Timers due at
  the same moment are ordered by their address in the code, hence any order in
  `Ordered`, and `front`.
- *Milliseconds.* A program asks for seconds, micro- or nanoseconds (`Time`), the
  hooks set a timer of whole milliseconds (`Millis`: hook.cpp:158, 177, 191) and
  the clock counts them. A hooked `usleep(1500)` sleeps for 1 ms and `usleep(999)`
  not at all, although hook.cpp:163 says that `usleep` pauses for the given number of
  microseconds ("usleep 在指定的微妙数内暂停线程运行") and the system call that it replaces never
  returns early; the heartbeat ticker (raft.cpp:440) sleeps for such times in the fiber
  thread. `NotEarly` is what is true instead. `DelayAssumption` says
  that an `int` holds every delay. Beyond that (24 days) `seconds * 1000`
  wraps at hook.cpp:158, the `int` of hook.cpp:191 overflows, and `(int)next_timeout`
  is negative at iomanager.cpp:271, so that `epoll_wait` has no limit; the
  program uses none of the kind.
- *Hooked calls.* A call of a fiber has the steps call, try, event, yield and
  woken. `TryIo`, `AwaitEvent`, `YieldInCall` and `WakeFromEvent` are `do_io`
  from its label `retry`, with its goto; `TryConnect` is
  `connect_with_timeout`. `RunTimeout` and `CancelOfTimeout` are the lambda of
  the condition timer: it may still be queued when its call has ended or waits
  again, and `line[f] = hand[w].call` is the lock() of its weak pointer. `AtOnce` is
  what `connect` answers without waiting, errors other than EINPROGRESS included.
- *Blocking in the kernel.* The library makes every socket non-blocking. `fcntl`
  keeps it so, whatever the program wants (hook.cpp:374); `ioctl` does not
  (hook.cpp:453), and a call that then finds nothing stops in the kernel with the
  whole worker: step `kernel`, which `LeaveKernel` ends when the socket gets ready or
  the time limit of the kernel passes, which may be at any moment.
- *Sockets.* `ready` is what the kernel has for a socket, `edge` what epoll has
  not reported yet (EPOLLET); `got` and `due` are what a worker took out of
  epoll_wait and of the timers and has not gone through. Sockets are opened once:
  the reuse of a descriptor after close() is not modelled.
- *History.* `since` is the time since the timer of a call was set.

## 3. What the runs check

The first seven pass; the last five show, as counterexamples, where the code does
not do what its comments say.

| run | properties | instance |
|---|---|---|
| `raft_elections` | `TypeOK`, `ElectionInv`, `ElectionSafety`, `VoteIsFinal` | 3 servers, 2 terms, one restart from a surviving disk, 4 RPCs in flight, empty logs |
| `raft_replication` | `LogInv`, `AssertionsHold`, `AckedEntryHeld`, `QuorumAckedIsCommitted`, `LogNeverShrinks` | 3 servers, 2 terms, of which one server stands in the first and all in the second, logs up to 2, leaders write distinguishable commands, 3 RPCs in flight |
| `raft_commit` | `LeaderCompleteness`, `StateMachineSafety`, `CommittedIsFinal`, `ImplementsReplicatedLog` | 3 servers, 4 terms of two alternating candidates, logs of length 1, 2 commands |
| `raft_progress` | `EntriesGetApplied` | 3 servers, 2 terms, logs up to 2; the second leader is ahead of one follower, fairness |
| `kv_requests` | `TypeOK`, `KvInv`, `StateIsLogOnce`, `QueueIsOwned`, `AnsweredIsChosen`, `ReadsAreCurrent`, `HandlersEnd` | 2 servers; one client appends, with a retry, another overwrites the key, reads it and overwrites it; 2 handlers at once, 3 log entries, fairness |
| `fibers` | `FiberInv`, `NoPanic`, `ArmedIsQueued`, `ResumedOnce`, `NoTimerOverslept`, `StoppedIsDrained`, `NotEarly`, `FibersEnd`, `StopReturns` | one worker, 2 fibers on one socket, a timer of the main thread, delays up to 2 ms, fairness |
| `rpc_calls` | `TypeOK`, `ChannelInv`, `OwnReply`, `HandledOnce`, `CallReturns` | two concurrent calls of a Raft server, or three successive ones of a clerk; 3 connections, 2 crashes of the server, one request in pieces, fairness |
| `raft_stale_suffix` | `LeaderCompleteness` (violated) | 5 terms, a schedule that leads to the counterexample |
| `raft_restart_forgets` | `ElectionSafety` (violated) | one restart with the code's Persister |
| `kv_late_get` | `DuplicatesNotExecuted` (violated) | 2 servers, one client that reads and then appends |
| `kv_same_id` | `ReadsAreCurrent` (violated) | 2 servers, a client that appends and reads and one that overwrites, with one id |
| `rpc_shared` | `OwnReplyAlways` (violated) | a heartbeat and a vote call on one connection |

Why the bounds are enough, and where they are not:

- *Two terms* give the two leaders whose messages cross. Old votes, old entries
  and old replies are all of "the previous term"; a third term adds nothing to
  the properties of `raft_elections` and `raft_replication`, which relate at
  most two terms. The classic loss of an entry of an old term that was committed
  directly needs four terms, and `raft_commit` has them; one log position is
  enough for it.
- *`raft_commit` passes because its logs have length one.* With longer logs
  leader completeness does not hold in this code. `raft_stale_suffix` is the
  counterexample, which needs three entries and five terms: s3 leaves three
  entries of term 1 at a follower that had received an entry of term 2 in
  front of them; the entry is replaced in place (raft.cpp:86) and what follows
  stays, so the follower's *last* term is 1. After the entry of a newer term in
  front is committed on a majority including that follower, the follower still
  grants its vote to a candidate without it, because `UpToDate` looks at the
  last entry only. The schedule in `StaleSuffixSchedule` only prunes: every step
  TLC takes is a step of `Raft`.
- *Rounds.* One heartbeat round in flight per server (`MaxRounds = 1`): a
  leader starts the next one when all calls of the last have ended or failed. In
  the program rounds overlap when a peer takes longer than 25 ms. They then share
  a socket without a lock, so that a call may return the reply to another one
  (`rpc_shared`); what Raft does with such replies is not modelled.
- *RPCs in flight* are bounded by `FewInFlight`, a constraint on the states that
  are explored further, so that a full broadcast (two calls) always meets at
  least one older call or reply.
- *Two servers for the service.* A handler meets other servers only through the
  log, where what matters is whether its entry, a copy of it or something else
  is chosen at its index; one other server gives all three. Raft's majorities
  are not part of this module.
- *Two handlers at once* are the one the clerk waits for and a late one, or
  those of two clients. Requests are sent up to twice and there are three log
  entries, room for a request and its copy next to another client's.
- *The clients of `kv_requests`.* One sends its Append twice. The other does what
  the program's client does in a loop (servicecaller.cpp): it writes, reads and writes
  again, each request in one attempt. With a second attempt a client that writes after
  a Get can be hurt: a Get that the clerk gave up on and had answered by a retry is
  still in its thread, and when it executes (kvServer.cpp:45) it puts
  `m_lastRequestId` back to its own number, below an Append executed since; a second
  copy of that Append is then executed too (`kv_late_get`).
- *`kv_same_id`* has the ids that the clerk's constructor produces in two
  processes. `rand()` is never seeded, so they are equal, and
  servers take one client's request for the other's.

- *`fibers`.* One fiber sleeps for 1.5 ms and reads with a limit of 2.3 ms; the other
  connects, reads without waiting, makes the socket really blocking and closes it under
  the first. Between them they take every path of the hooks, and event, time-out,
  close and hang-up meet in every order; the first may be woken for data that the
  second has taken, and then waits again in the same call, or stops in the kernel.
  The main thread sets, puts off, moves and cancels a recurring timer
  between handing over the two, and then stops. Delays of 1 and 2 with a
  `MaxTimeout` of 2 give timers that are due before, together with and after
  each other and the end of `epoll_wait`. The main thread cancels its timer
  before it stops (`TimersCancelled`): one that sets a timer right before `stop()`
  can leave it behind, since `stopping()` reads the timers before it reads `isStopped_`
  (iomanager.cpp:371), and `StoppedIsDrained` is then violated.
- *`rpc_calls`.* Two calls suffice for one to meet the request or reply of
  another, or a third connection after two crashes; the clerk has three calls in
  a row, so that one follows a call that failed. `OwnReply` makes no claim for
  calls that overlapped: `rpc_shared` shows why. `CallReturns` leaves out answers
  that serialise to nothing (`InstallSnapshot` on an outdated snapshot), for
  which the caller waits in `recv` without end, and calls that lost their
  request or reply to another one.

Reductions. `VIEW LiveState` identifies states that differ only in what no
later step reads: the count of an election that has no call outstanding, the
indices of a server that does not lead. `raft_elections` adds `voteRecord`,
which its properties read. `ElectionInv` reads the vote count also when no call
is outstanding, so under the view it is evaluated for one representative only;
it is also proved. `LogInv` in `raft_replication` reads `voteRecord` to know who
was elected. Under `OwnCommands` an entry names the leader that wrote it, and
requests and replies name the one that sent them, so the view determines every
election the log parts of `LogInv` ask about; two of its parts,
`VotesForCandidates` and `LateVotesAreFew`, are evaluated for one representative.
They, too, are proved. `DeadRepliesFirst` and `ApplyFirst` order steps that commute
with everything else: reading a reply that changes nothing and applying what is
committed. `StandsInOrder` names the only candidate of each term where a run
needs many terms. In `raft_replication` it leaves one candidate to the first term: which
one makes no difference, and elections with several candidates are those of the
second term. `Symmetry` permutes servers and commands, `FollowerSymmetry` the servers that
do not stand first; they are not used with schedules or liveness.

The liveness runs use none of the reductions, and the bounds of `KvServer` are
guards of its actions, so `HandlersEnd` in `kv_requests` covers every fair
behaviour of its instance; the same goes for `fibers` and `rpc_calls`. `raft_progress` does have the constraints: `StandsInOrder` leaves s1
as the only candidate of term 1 and s2 of term 2, `FewInFlight` with two RPCs leaves
out the behaviours in which a vote call of the election is still open when the leader
sends its heartbeats, and `NewLeaderAhead` lets s2 stand once it has an entry that s3
has not and nothing is committed. So the first heartbeat of s2 is refused by s3, and
`m_nextIndex` has to move back; s1 may have taken a second entry in term 1, which
that of s2 replaces. A refusal excuses nothing unless it leaves
`m_nextIndex` where it was (`Idles`): a hint that is one too high is noticed. Deadlock is not checked because
every bound (terms, log length) is a place where the model stops and the program
would go on.

### Fairness

`FairSpec` assumes weak fairness of the heartbeat of each server, of its
applier, and of the RPC threads at both ends of a call. The heartbeat ticker and
the applier are endless loops (raft.cpp:429, 146) of which both sleep through a
hooked call, so that neither keeps the single fiber thread; each RPC runs in a
thread of its own or of the provider. Nothing is assumed of elections, clients
or failures: `EntriesGetApplied` says that an entry is applied everywhere unless
calls fail infinitely often or some server reaches a newer term.

In `KvServer`, `FairSpec` assumes weak fairness of each RPC thread. `timeOutPop`
waits 500 ms at most, so a handler's step is always enabled. Nothing is assumed
of the apply loop, of commits, leadership, clerks or the network.

In `Hook`, it assumes weak fairness of each worker, of the main thread (both are
threads of the operating system) and of time. Nothing is assumed of the sockets:
`FibersEnd` holds for fibers whose calls have limits even if no socket gets
ready; the weak fairness of a worker includes that the kernel ends a blocking call
whose time limit it knows. Without limits neither `FibersEnd` nor `StopReturns` can be
expected: one read of a socket made blocking by `ioctl` stops the worker. In `RpcChannel`, it assumes weak fairness of each calling thread and of
each connection's loop and handler in a running server. Nothing is assumed of
crashes and restarts; a server that stays down has closed its connections.

## 4. What is proved

Everything here holds of `Spec` for every finite set of servers, every set of
commands, clients, scripts, calls and connections and all values of the bounds,
within the named assumptions of the modules. What a theorem assumes beyond those
is said with it.

| theorem | states | assumes |
|---|---|---|
| `TypeCorrect` (RaftElectionProofs) | `TypeOK` | |
| `ElectionInvariant`, `AtMostOneLeader`, `VotesAreFinal` (RaftElectionProofs) | `ElectionInv`, `ElectionSafety`, `VoteIsFinal` | `VotesSurviveRestart` |
| `LogInvariant`, `AssertionsNeverFail`, `AcksAreTrue`, `LogsNeverShrink` (RaftLogProofs) | `LogInv`, `AssertionsHold`, `AckedEntryHeld`, `LogNeverShrinks` | `VotesSurviveRestart` |
| `CommitInvariant`, `LeadersAreComplete`, `StateMachinesAgree`, `CommittedNeverChanges` (RaftCommitProofs) | `CommitInv`, `LeaderCompleteness`, `StateMachineSafety`, `CommittedIsFinal` | `VotesSurviveRestart`, and `CleanSpec` instead of `Spec` |
| `RaftImplementsReplicatedLog` (RaftCommitProofs) | `ImplementsReplicatedLog` | `MaxBoots = 0`, and `CleanSpec` instead of `Spec` |
| `QuorumInvariant`, `QuorumsAreCommitted` (RaftCommitProofs) | `QuorumInv`, `QuorumAckedIsCommitted` | `VotesSurviveRestart`, `Cardinality(Server) <= 3` |
| `KvTypeCorrect`, `QueuesAreOwned` (KvServerProofs) | `TypeOK`, `QueueIsOwned` | |
| `AnswersAreChosen` (KvServerProofs) | `AnsweredIsChosen` | `DistinctIds` |
| `DatabasesAreLogOnce` (KvServerProofs), `KvInvariant`, `ReadsSeeAnswered` (KvReadProofs) | `StateIsLogOnce`, `KvInv`, `ReadsAreCurrent` | `DistinctIds`, and `OrderedSpec` instead of `Spec` |
| `ChannelTypeCorrect`, `ChannelInvariant`, `RequestsHandledOnce`, `RepliesAreOwn` (RpcChannelProofs) | `TypeOK`, `ChannelInv`, `HandledOnce`, `OwnReply` | `RequestsTravel`, `RepliesTravel` |
| `FiberInvariant`, `FiberTypeCorrect`, `FibersResumedOnce`, `NoAssertionFails`, `CallbacksAreQueued`, `TimersNotOverslept` (HookProofs) | `FiberInv`, `TypeOK`, `ResumedOnce`, `NoPanic`, `ArmedIsQueued`, `NoTimerOverslept` | `OneWorker`, `ProperUse` |
| `NothingEarly` (HookProofs) | `NotEarly` | `OneWorker`, `ProperUse` |
| `StopDrains` (HookProofs) | `StoppedIsDrained` | `OneWorker`, `ProperUse`, `TimersCancelled` |

`VotesSurviveRestart` says that the disk
survives or no server restarts: `raft_restart_forgets` shows that it is needed,
and that the repository's Persister does not meet it. `CleanSpec` is `Spec` without
the steps `KeepsStaleSuffix`, in which a follower replaces an entry and keeps
others behind the last one it was sent (raft.cpp:86): `raft_stale_suffix` is a
behaviour with such a step that loses a committed entry. The code does nothing to
prevent these steps, so theorems about `CleanSpec` are not promises of the program: they
say that these steps are the only way in which it loses what it has committed. `MaxBoots = 0` leaves
restarts out of the refinement, since a service that starts again is handed the
log from the start, which `ReplicatedLog` has no step for; the other theorems of
`CleanSpec` include restarts from a surviving disk. The number of servers is
an argument of the program (run.cpp:27); three is the smallest cluster that
survives a failure. With five `QuorumAckedIsCommitted` is false: each of two rounds
may reach one follower, and their successes are not added up. `DistinctIds` (no two
clerks share an id) is what `kv_same_id` breaks. `OrderedSpec` is `Spec` without the
steps `ForgetsWrite`, in which a Get that its clerk gave up on executes after a
later write of the same clerk was executed on that server and takes `m_lastRequestId`
back below it (kvServer.cpp:45): `kv_late_get` is a behaviour with such a step. Nothing
is asked of the clients, which may read and write in any order and as often as they
like; as with `CleanSpec`, the code does nothing to prevent the steps, and the
theorems say that only they put databases and reads wrong. `RequestsTravel` and `RepliesTravel`
say that a request that came whole is understood and that a response is parsed
as it was written; `MCRpcChannel` has TLC evaluate them for the messages of its
instance, and `RoundTrip` for others. `OneWorker` is what the program sets
(`FIBER_THREAD_NUM = 1`, config.h); with two workers `NoPanic` is false
(section 2). `ProperUse` is what the library asserts or takes for granted of its
callers: no two fibers wait for one event of a socket (iomanager.cpp:94), a fiber
is handed over once (scheduler.cpp:111), `addTimer` makes a new `Timer`
(timer.cpp:88). `TimersCancelled` asks of the main thread that it cancels the timers
it sets before it calls `stop()`; section 3 says what happens otherwise.

### Raft: elections

`ElectionSafety` is not inductive: a leader's majority is counted
in a private integer, from votes that are only messages. `ElectionInv` ties the
four places together. `VotesRemembered`: whatever was voted is in memory and on
disk until the term is over, and neither knows less than what was voted; this is
what a restart and the unpersisted step-down must not break. `VoteCallsGenuine`
and `AskedOnce`: a granted reply is a recorded vote, and a callee is asked once
per election. `CountIsHonest`: the count of a candidate is at most the number of
its voters whose answer it has already read. `LeaderWasElected`: a leader has a
majority in `voteRecord`. Two majorities share a server, and a server has one
entry per term in `voteRecord`, so two leaders of one term are one.

### Raft: logs

The textbook argument starts from Log Matching: logs that agree at an index agree
before it. That is false in this code. A follower keeps what its log holds behind
the last entry it was sent (raft.cpp:86), so an entry of a newer term may be
followed by older ones, and two logs may agree at an index and differ before it;
`raft_stale_suffix` shows where that ends. `LogInv` is therefore about single
entries and says only what survives:

- An entry's term had an elected leader (`EntryHasLeader`), term and index
  determine it wherever it is, in a log or a request (`EntryIsUnique`), and its
  leader has it as long as that term is in the leader's memory or on its disk
  (`LeaderHasEntry`). "Elected" is a majority in `voteRecord`, so that these parts
  outlive the leader's step-down, and "in its term" includes the disk, so that
  they outlive its crash: a step-down on a reply does not persist, and a restart
  brings back an older term.
- A request carries a part of its sender's log (`AppendCallsGenuine`). An
  acknowledgement, on its way or already in `m_matchIndex`, means that the
  follower has the leader's entry at that index *while both are in the term*; it
  says nothing of what is before it, and that is why `AckedEntryHeld` holds of
  every behaviour and `LeaderCompleteness` does not.
- The assertions need three more facts. Hints and `m_nextIndex` stay inside the
  leader's log because that log does not get shorter while the term lasts. One
  index and term never hold two commands (raft.cpp:77) because of
  `EntryIsUnique`. And a leader that goes on counting votes never reaches a
  second majority (raft.cpp:699): what it counts later comes on top of a majority
  of the same servers (`LateVotesAreFew`).

`LogsNeverShrink` is an action property from the same invariant: no handler
truncates, a restart reads back the log that every handler persisted, and a
leader finds its own entries unchanged.

### Raft: commitment

When no follower keeps a stale suffix, logs are what the textbook says: whoever
has an entry has all that its leader had before it. The rest of
the argument still differs from the textbook's, because the code forgets what it
needs. A server that learns a newer term from a reply does not persist it, a leader counts successes in an integer that its threads share, and what
it commits is the end of the call it counted last. `CommitInv` therefore says that
there is a history (which terms had a leader, what the log of each leader was,
how far each server accepted it) that explains the present state:

- *Logs are copies* (`LogsCopied`, `LeaderLogs`, `TermsAscend`, `CopiesLeader`). Each
  entry of a log was copied from the leader of its term, with all before it.
  This is what a stale suffix would break.
- *Fates are final.* An entry that a leader wrote in its own term is held by a
  majority (`ChosenAt`), or a majority has gone on to later terms without it
  (`NeverChosen`), or it is still open. `NeverChosen` counts a server only if its
  memory and its disk both have passed the term, for otherwise a crash would bring
  it back. `AcceptedKept`: what a server accepted it keeps, unless it was in vain.
- *Later leaders have it* (`VotesForNewer`, `CallsOfCandidate`, `LaterLeaders`). A
  voter compares the end of the candidate's log when the call was sent; since a
  candidate takes no entries before its term has a leader, that is the end of its
  log also when it is elected. An entry that is not in vain was accepted by one of
  the majority that voted, so the new leader's log is as new and, being a copy,
  has it.
- *Counters are honest* (`RoundsApart`, `RoundsHonest`). The calls of one round say
  the same, and `appendNums` is at most the number of servers that accepted and
  whose answer is not still to come. So when the counter reaches a majority, a
  majority has accepted, and what is then committed is `ChosenAt`
  (`CommitsBacked`).

Two servers that consider an index committed have it from leaders one of which
has all the other committed: that gives `StateMachineSafety`, `CommittedIsFinal`
and, with `AppliedCommitted`, the refinement. With logs of one
entry, as in `raft_commit`, nothing can stay behind the last entry sent.

`CommitInv` quantifies over histories, which is more than TLC can enumerate in a
run. Before the proof it was checked with the history as explicit variables,
changed by the steps as the proof changes it: 3 servers, 3 terms, logs up to 2,
2.67 million states without a violation.

### Raft: what a majority acknowledges

`leaderUpdateCommitIndex` (raft.cpp:483), which would look for a majority in
`m_matchIndex`, is never called. `sendAppendEntries` counts the successes of one
round instead (raft.cpp:777 to 793) and forgets them when the round has its
majority or the next begins. That this loses nothing among three servers is not
obvious: successes may come after the round was counted, in any order, or from a
call that carried nothing. `QuorumInv` says that whatever `m_matchIndex` and
`m_nextIndex` stand for is `Settled`, that is, the leader's own entries up to there
are committed, and that what a call on its way will make known is settled or will
be:

- before a round's majority its counter is above zero, so that the first success
  to come back is the second server and completes it; afterwards its counter is
  zero and its end is settled (`RequestSettled`, `ReplySettled`);
- a request that ends in an entry of an older term commits nothing, and settles
  nothing either, for then the leader's log has no entry of its own up to there
  (`WritesLast`);
- hints point back to where a request started, which was settled when it was sent;
- a new leader has written nothing in its term (`WritesLater`).

It needs neither clean behaviour nor a history. TLC checked it on the
instance of `raft_replication`, with any candidates in the first term as well (1.17
million states), and found no violation in 3.6 million
states of a larger one, with two rounds at once and a restart, that was not
exhausted.

### The service

Theorems about `KvServer` are theorems about the service on top of a Raft that
keeps its promise (`ReplicatedLog`).

A server decides by one number per client, `m_lastRequestId`, whether a request
was executed. That number is set by the apply loop and by RPC threads that may
be late, and it is compared with `<=`.

- *Queues* (`ThreadInv`): a handler has its index to itself from `StartConses`
  until it erased the queue, because logs do not get shorter (`LogNeverShrinks`)
  and so a server never hands out an index twice.
- *Answers* (`RequestInv`): `m_lastRequestId` stands for itself and for all
  requests below. That holds because a clerk asks one thing after the other, so
  that its requests are chosen in order (`ChosenInOrder`), although copies of an
  old one may be chosen again later. A queue holds the command that was executed
  at its index (`QueuesHoldExecuted`), so what is popped is chosen.
- *Databases* (`StateInv`): the number also misses no write that was executed
  (`ExecutedIsKnown`), which is where a late Get must not put it back (`ForgetsWrite`). Then the
  duplicate test lets nothing through that is in the log already
  (`ExecutesOnce`), and the database is `StateAfter` of the executed prefix.
- *Reads* (`ReadInv`): what was answered before the clerk's latest request was
  called precedes that request in the log, in `m_lastRequestId` and in every
  handler that serves it. A Get that timed out reads the local database only if
  the number already covers it, also on a server that is no longer the leader.

### The RPC library

Nothing on the wire says whose a reply is, and the socket is shared without a
lock. `ConnsBelong`: a connection on which no calls overlapped and nothing was
cut is idle or belongs to one call, and what is under way on it is that call's
request, its execution or its answer. Who sends finds it quiet: if somebody else
had been pending, the calls would overlap, and if a call had left without its
answer, the channel would have left the connection, too. Who takes something is
the only one pending, and so takes its own answer. Who leaves takes all there
is, or leaves a connection that is closed, or one that `m_clientFd` no longer
names; connections are never reopened. `RequestsAreOnce`: the loop that sends again
does so only after a `send()` that failed, so a call has one request under way
in all, and it has not been handled as long as it is there.

### The fiber library

A fiber that yields leaves behind one thing that will resume it: a timer for a
sleep, an event for the other calls. That thing becomes a callback in the hands of
`idle()`, a task in the queue, and the task that a worker has in hand, while
time-outs, hang-ups, `close()` and `cancel()` try to do the same. `FiberInv` names
the five places (`InTimers`, `InRegs`, `InDue`, `InTasks`, `InHand`), and says
which one a fiber's place in its call allows (`Allowed`) and that it is in no
other (`Only`). Three things are needed besides:

- *Timers belong to calls* (`TimersFit`): a timer of a fiber belongs to the call the
  fiber is at and has the callback of that call, so that what expires late cannot
  meet another call; `timers_` is sorted, and no timer is in it twice.
- *Events belong to calls* (`EventsFit`, `PendingFits`): what epoll reports or will
  report is waited for. A worker that is in a fiber has nothing reported left to
  go through, and so `triggerEvent` finds the event it was told of. This is where
  a second worker breaks the argument.
- *Nothing is lost before epoll_wait* (`TimersKnown`): a worker that has read the
  timers keeps the right picture of them until it sleeps, or the pipe is full. A
  timer that is inserted first is announced unless `tickled_` is set, and
  `tickled_` is set only by an insertion that filled the pipe after the timers were
  read.

Two more parts are about time and about the end:

- *No call is cut short* (`DelaysKept`, `LatesFirst`): a timer counts from when its
  call began to wait, and the callback of a limit belongs to a call that has waited
  for as long. The second is not inductive alone: `do_io` waits again in the same
  call with the same `tinfo`, so a callback left from the wait before would find it
  alive and not cancelled. None is left, because `idle()` hands over what has expired
  before it handles any event, and comes to that only when the queue holds nothing
  that resumes a fiber which has waited: a callback of a time limit is ahead of
  whatever else resumes its fiber, and has run when the fiber does.
- *Nothing is left* (`StopFits`): a worker asks for the events, the queue and the
  active count after it has found no timer, and in between only the main thread can
  set one, for no fiber runs. `stopped` is read last but for the queue, and is set
  when the main thread has done all else.

Timers that are due at the same moment may be in any order: `Ordered` takes the
places of the timers that stay and lets those that are inserted anew go anywhere
among equals, so that adding, resetting and putting back recurring timers are one
operator, and one lemma (`OrderedFacts`).

### How the proofs are laid out

One lemma per action, or per group of actions and part of the invariant; steps
that touch nothing of interest are dealt with once (`QuietStep`,
`RequestsStayStill` and so on). The inductive invariants are themselves checked by
TLC in a run of their component, except `CommitInv` and `QuorumInv`, of which the
sections above say how they were. For `CommitInv`
`NextHistory` gives the history after a step (an acceptance, a command or an election
changes it), and one lemma per part of `Explains` shows that it explains the next
state. That `StateAfter` exists for every prefix, and that
prefixes agree on it, is shown with a least counterexample, since the provers
cannot apply an induction theorem.

### Only model-checked

- *Liveness*, which TLAPS does not handle under fairness.
- *The wire format*: `RoundTrip`, `RequestsTravel` and `RepliesTravel` are
  statements about folds over schemas, which the provers cannot do by induction.

## 5. Plan

The operations of Raft, the service, the RPC library and the fiber library that
the program runs are modelled, and the safety properties of the passing runs are
proved, those of the wire format excepted: for every value of the constants, or
under the condition without which they are false.

To extend the models: overlapping heartbeat rounds whose replies are exchanged
as in `rpc_shared`, and a restart of the service.

## 6. Not modelled

- *Snapshots* (`Snapshot`, `InstallSnapshot`, `leaderSendSnapShot`,
  `CondInstallSnapshot`, the service's part of them). The program never takes
  one: `IfNeedToSendSnapShotCommand` (kvServer.cpp:348) compares with
  `RaftStateSize()`, which returns a member that nothing ever sets
  (Persister.cpp). A model would have to start the pipeline by fiat. The
  assertions and conditions on `m_lastSnapshotIncludeIndex` are in `Raft` with
  its only value, 0.
- *The streams of Persister.* Its constructor truncates the files, so nothing
  that was written is ever read by a later process; their position and buffer
  have no effect. `raft_restart_forgets` shows what follows.
- *Fibers.* `delEvent` and `addEvent` with a callback, which no hook uses; tasks
  pinned to a thread and a caller thread that takes part in scheduling, which
  the program does not ask for; failures of `epoll_ctl`, EINTR, the reuse of a
  descriptor, the clock being set back (it is monotonic), stacks and contexts.
- *Generated code* beyond clearing, serialising, parsing and the dispatch to
  services: accessors, arenas, merging, reflection and descriptor tables.
- *Starting up.* Configuration parsing (`mprpcconfig.cpp`) is input read once;
  `RpcProvider::Run` writes the address into a file; the wrappers over pthread
  locks and threads appear as the extent of the actions, and `src/src/thread` is
  a second copy that the build does not link.
- *Logging*, including the unlocked reads that only feed log lines
  (raft.cpp:665), and `leaderUpdateCommitIndex`, which is never called.

The example programs start as many servers as they are asked for; the instances of
`Raft` have three.
