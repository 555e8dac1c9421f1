------------------------------ MODULE KvServer ------------------------------
(***************************************************************************)
(* The key/value service, class KvServer of src/src/RaftCore/kvServer.cpp, *)
(* its client, class Clerk of src/src/raftClerk/clerk.cpp, and the queues  *)
(* of common/include/util.h between the threads of a server.               *)
(*                                                                         *)
(* A request runs in an RPC thread of the server, its handler, which puts  *)
(* the request into the log and waits for it to come back through the      *)
(* apply loop.  Both threads take m_mtx in short sections; each section is *)
(* an action.  The clerk gives up on a call only when its connection       *)
(* breaks; the handler of an abandoned call goes on, next to the handlers  *)
(* of its retries.                                                         *)
(*                                                                         *)
(* Raft appears as what ReplicatedLog promises, plus what StartConses and  *)
(* GetState return.  Leadership comes and goes at any moment, and several  *)
(* servers may take themselves for the leader, so both may find it either  *)
(* way.  There is one key: keys do not interact.  No server restarts.      *)
(* Snapshots are left out, as the program never takes one.                 *)
(***************************************************************************)
EXTENDS Integers, FiniteSets, ReplicatedLog

CONSTANTS Client,
          ClientId,     \* m_clientId of each client, by which servers know it
          Script,       \* for each client, the operations it calls, in order
          NextServer,   \* (server + 1) % m_servers.size(), as a function
          FirstServer,  \* m_servers[0], where a new clerk starts
          MaxAttempts,  \* bound: how often each clerk sends one request
          MaxIndex,     \* bound: log indices that StartConses hands out
          MaxHandlers,  \* bound: handlers at work at once, in the whole cluster
          NoQueue       \* no entry in waitApplyCh

ASSUME ScriptAssumption ==
  Script \in [Client -> Seq({"Put", "Append", "Get"})]
ASSUME ClientIdAssumption == ClientId \in [Client -> Client]
ASSUME RingAssumption == NextServer \in [Server -> Server] /\ FirstServer \in Server
ASSUME BoundAssumption == MaxAttempts \in [Client -> Nat] /\ MaxIndex \in Nat /\ MaxHandlers \in Nat

VARIABLES
  issued,         \* the last log index StartConses of a server handed out
  proposed,       \* entries in the log of some leader, [index, op]
  kvDB,           \* m_kvDB: the value of the key, a sequence of what was appended
  lastRequestId,  \* m_lastRequestId; 0 for a client it does not know
  waitApplyCh,    \* waitApplyCh: a LockQueue, or none, for each index
  loop,           \* where GetCommandFromRaft of each server is
  handlers,       \* the RPC threads that run Get or PutAppend
  clerk,          \* the clerks
  answered        \* history: the writes whose clerk was told OK

raftVars  == <<issued, proposed, chosen>>
storeVars == <<kvDB, lastRequestId>>
vars == <<raftVars, delivered, storeVars, waitApplyCh, loop, handlers, clerk, answered>>

-----------------------------------------------------------------------------
\* Types

Index == 1 .. MaxIndex
Op == [client : Client, id : Nat, type : {"Put", "Append", "Get"}]
ASSUME NoQueueAssumption == NoQueue \notin Seq(Op)
\* Every request writes a value of its own.
Written == [client : Client, id : Nat]
Value   == Seq(Written)
Err     == {"none", "OK", "ErrNoKey", "ErrWrongLeader"}

\* A handler: the request, which attempt of the clerk it serves, the index
\* StartConses returned, the leadership it read, and its reply.
Handler ==
  [server : Server, op : Op, attempt : Nat, index : 0 .. MaxIndex,
   pc : {"start", "register", "wait", "timedOut", "check", "execute", "erase", "reply"},
   leader : BOOLEAN, err : Err, value : Value]

Clerk ==
  [calling : BOOLEAN, id : Nat, server : Server, attempt : Nat,
   recentLeader : Server, value : Value, before : SUBSET Written]

TypeOK ==
  /\ issued \in [Server -> 0 .. MaxIndex]
  /\ proposed \subseteq [index : Index, op : Op]
  /\ chosen \in Seq(Op)
  /\ delivered \in [Server -> Seq(Op)]
  /\ kvDB \in [Server -> Value]
  /\ lastRequestId \in [Server -> [Client -> Nat]]
  /\ waitApplyCh \in [Server -> [Index -> Seq(Op) \cup {NoQueue}]]
  /\ loop \in [Server -> {"pop", "execute", "send"}]
  /\ handlers \subseteq Handler
  /\ clerk \in [Client -> Clerk]
  /\ answered \subseteq Written

Init ==
  /\ LogInit
  /\ issued = [i \in Server |-> 0]
  /\ proposed = {}
  /\ kvDB = [i \in Server |-> <<>>]
  /\ lastRequestId = [i \in Server |-> [c \in Client |-> 0]]
  /\ waitApplyCh = [i \in Server |-> [k \in Index |-> NoQueue]]
  /\ loop = [i \in Server |-> "pop"]
  /\ handlers = {}
  /\ clerk = [c \in Client |->
       [calling |-> FALSE, id |-> 0, server |-> FirstServer, attempt |-> 0,
        recentLeader |-> FirstServer, value |-> <<>>, before |-> {}]]
  /\ answered = {}

-----------------------------------------------------------------------------
\* Raft

\* Entries become committed in the order of their indices.
CommitEntry ==
  /\ \E p \in proposed : /\ p.index = Len(chosen) + 1
                         /\ chosen' = Append(chosen, p.op)
  /\ proposed' = {p \in proposed : p.index > Len(chosen')}
  /\ UNCHANGED <<issued, delivered, storeVars, waitApplyCh, loop, handlers,
                 clerk, answered>>

\* Indices that StartConses of i may return.  Its log has no gaps, holds what
\* it handed out or applied before, and never gets shorter.
Reachable(k) == k <= Len(chosen) + 1 \/ \E j \in Server : k <= issued[j] + 1
FreshIndexReused(i) == {k \in Index : Reachable(k) /\ k > Len(delivered[i])}
FreshIndexOfLast(i) ==
  {k \in 0 .. MaxIndex : Reachable(k) /\ k >= issued[i] /\ k >= Len(delivered[i])}
FreshIndex(i) ==
  {k \in Index : Reachable(k) /\ k > issued[i] /\ k > Len(delivered[i])}

-----------------------------------------------------------------------------
\* The clerk

OpOf(c, id) == [client |-> c, id |-> id, type |-> Script[c][id]]
WriteOf(op) == [client |-> op.client, id |-> op.id]

\* CallMethod: the request goes to the server, where a thread will run it.
Called(op, server, attempt) ==
  [server |-> server, op |-> op, attempt |-> attempt, index |-> 0, pc |-> "start",
   leader |-> FALSE, err |-> "none", value |-> <<>>]

\* Get, Put or Append of the clerk, up to its first call.
ClerkCalls(c) ==
  LET id == clerk[c].id + 1  server == clerk[c].recentLeader IN
  /\ ~clerk[c].calling
  /\ id <= Len(Script[c])
  /\ Cardinality(handlers) < MaxHandlers
  /\ clerk' = [clerk EXCEPT ![c].calling = TRUE, ![c].id = id, ![c].server = server,
                            ![c].attempt = 1, ![c].value = <<>>, 
                            ![c].before = IF Script[c][id] = "Get" THEN answered ELSE {}]
  /\ handlers' = handlers \cup {Called(OpOf(c, id), server, 1)}
  /\ UNCHANGED <<raftVars, delivered, storeVars, waitApplyCh, loop, answered>>

\* The retry: the same request, with the same number, to some server.
Retries(c, server) ==
  LET attempt == clerk[c].attempt + 1 IN
  /\ attempt <= MaxAttempts[c]
  /\ clerk' = [clerk EXCEPT ![c].server = server, ![c].attempt = attempt]

Retry(c, server) == Called(OpOf(c, clerk[c].id), server, clerk[c].attempt + 1)

\* The handler whose reply the clerk is waiting for.
Serves(h, c) ==
  /\ clerk[c].calling
  /\ h.op.client = c /\ h.op.id = clerk[c].id /\ h.attempt = clerk[c].attempt

\* The connection breaks.  With an error the clerk tries the next server; when
\* recv returns 0 it finds an empty reply and calls the same server again.
CallFails(c) ==
  /\ clerk[c].calling
  /\ Cardinality(handlers) < MaxHandlers
  /\ \E server \in {clerk[c].server, NextServer[clerk[c].server]} :
       /\ Retries(c, server)
       /\ handlers' = handlers \cup {Retry(c, server)}
  /\ UNCHANGED <<raftVars, delivered, storeVars, waitApplyCh, loop, answered>>

\* The clerk reads a reply.
WrongLeader(c, h) ==
  LET server == NextServer[clerk[c].server] IN
  /\ Serves(h, c) /\ h.pc = "reply" /\ h.err = "ErrWrongLeader"
  /\ Retries(c, server)
  /\ handlers' = (handlers \ {h}) \cup {Retry(c, server)}
  /\ UNCHANGED <<raftVars, delivered, storeVars, waitApplyCh, loop, answered>>

Answered(c, h) ==
  /\ Serves(h, c) /\ h.pc = "reply" /\ h.err \in {"OK", "ErrNoKey"}
  /\ clerk' = [clerk EXCEPT
       ![c].calling = FALSE, ![c].attempt = 0, ![c].value = h.value,
       ![c].recentLeader = IF h.err = "OK" THEN clerk[c].server ELSE @]
  /\ answered' = IF h.op.type = "Get" THEN answered ELSE answered \cup {WriteOf(h.op)}
  /\ handlers' = handlers \ {h}
  /\ UNCHANGED <<raftVars, delivered, storeVars, waitApplyCh, loop>>

\* A request or reply on a connection that broke is lost.
Lost(h) ==
  /\ h.pc \in {"start", "reply"}
  /\ ~Serves(h, h.op.client)
  /\ handlers' = handlers \ {h}
  /\ UNCHANGED <<raftVars, delivered, storeVars, waitApplyCh, loop, clerk, answered>>

-----------------------------------------------------------------------------
\* The handlers Get and PutAppend

Step(h, g) == handlers' = (handlers \ {h}) \cup {g}

\* StartConses, which takes Raft's lock and not the service's.
RefuseRequest(h) ==
  /\ h.pc = "start"
  /\ Step(h, [h EXCEPT !.pc = "reply", !.err = "ErrWrongLeader"])
  /\ UNCHANGED <<raftVars, delivered, storeVars, waitApplyCh, loop, clerk, answered>>

StartRequest(h) ==
  LET i == h.server IN
  /\ h.pc = "start"
  /\ \E k \in FreshIndex(i) :
       /\ issued' = [issued EXCEPT ![i] = k]
       /\ proposed' = proposed \cup {[index |-> k, op |-> h.op]}
       /\ Step(h, [h EXCEPT !.pc = "register", !.index = k])
  /\ UNCHANGED <<chosen, delivered, storeVars, waitApplyCh, loop, clerk, answered>>

\* The queue for the index; the entry may have been applied before this.
RegisterQueue(h) ==
  LET i == h.server IN
  /\ h.pc = "register"
  /\ waitApplyCh' = [waitApplyCh EXCEPT ![i][h.index] = IF @ = NoQueue THEN <<>> ELSE @]
  /\ Step(h, [h EXCEPT !.pc = "wait"])
  /\ UNCHANGED <<raftVars, delivered, storeVars, loop, clerk, answered>>

\* What a handler compares to tell its request from another.
SameRequest(op1, op2) == ClientId[op1.client] = ClientId[op2.client] /\ op1.id = op2.id

\* timeOutPop: it returns what was applied at the index, perhaps another
\* request, or gives up; wait_until may report a timeout although a push came
\* just before it got the lock back.
PopCommand(h) ==
  LET i == h.server  queue == waitApplyCh[i][h.index] IN
  /\ h.pc = "wait" /\ queue # <<>>
  /\ waitApplyCh' = [waitApplyCh EXCEPT ![i][h.index] = Tail(@)]
  /\ \/ /\ ~SameRequest(Head(queue), h.op)
        /\ Step(h, [h EXCEPT !.pc = "erase", !.err = "ErrWrongLeader"])
     \/ /\ SameRequest(Head(queue), h.op) /\ h.op.type # "Get"
        /\ Step(h, [h EXCEPT !.pc = "erase", !.err = "OK"])
     \/ /\ SameRequest(Head(queue), h.op) /\ h.op.type = "Get"
        /\ Step(h, [h EXCEPT !.pc = "execute"])
  /\ UNCHANGED <<raftVars, delivered, storeVars, loop, clerk, answered>>

NeverTimesOut(h) == FALSE
PopTimesOut(h) ==
  /\ h.pc = "wait"
  /\ Step(h, [h EXCEPT !.pc = "timedOut"])
  /\ UNCHANGED <<raftVars, delivered, storeVars, waitApplyCh, loop, clerk, answered>>

\* GetState, for a Get that timed out.
ReadLeadership(h) ==
  /\ h.pc = "timedOut" /\ h.op.type = "Get"
  /\ \E leader \in BOOLEAN : Step(h, [h EXCEPT !.pc = "check", !.leader = leader])
  /\ UNCHANGED <<raftVars, delivered, storeVars, waitApplyCh, loop, clerk, answered>>

\* ifRequestDuplicate: has this request, or a later one, been executed here?
IfRequestOlder(i, op) == op.id < lastRequestId[i][ClientId[op.client]]
IfRequestDuplicate(i, op) == op.id <= lastRequestId[i][ClientId[op.client]]

\* What a timed-out handler makes of it.
ReadsAnyway(h) == h.leader
ReadsIfExecuted(h) == IfRequestDuplicate(h.server, h.op) /\ h.leader
ReadAfterTimeout(h) ==
  /\ h.pc = "check"
  /\ \/ ReadsIfExecuted(h) /\ Step(h, [h EXCEPT !.pc = "execute"])
     \/ ~ReadsIfExecuted(h) /\ Step(h, [h EXCEPT !.pc = "erase", !.err = "ErrWrongLeader"])
  /\ UNCHANGED <<raftVars, delivered, storeVars, waitApplyCh, loop, clerk, answered>>

TimeoutErrAlwaysOK(h) == "OK"
TimeoutErr(h) == IF IfRequestDuplicate(h.server, h.op) THEN "OK" ELSE "ErrWrongLeader"
WriteAfterTimeout(h) ==
  /\ h.pc = "timedOut" /\ h.op.type # "Get"
  /\ Step(h, [h EXCEPT !.pc = "erase", !.err = TimeoutErr(h)])
  /\ UNCHANGED <<raftVars, delivered, storeVars, waitApplyCh, loop, clerk, answered>>

\* ExecuteGetOpOnKVDB, in the RPC thread, whatever was executed meanwhile.
ExecuteGetOpOnKVDB(h) ==
  LET i == h.server IN
  /\ h.pc = "execute"
  /\ lastRequestId' = [lastRequestId EXCEPT ![i][ClientId[h.op.client]] = h.op.id]
  /\ Step(h, [h EXCEPT !.pc = "erase", !.value = kvDB[i],
                       !.err = IF kvDB[i] = <<>> THEN "ErrNoKey" ELSE "OK"])
  /\ UNCHANGED <<raftVars, delivered, kvDB, waitApplyCh, loop, clerk, answered>>

\* The queue is looked up again by its index and deleted.
EraseQueue(h) ==
  /\ h.pc = "erase"
  /\ waitApplyCh' = [waitApplyCh EXCEPT ![h.server][h.index] = NoQueue]
  /\ Step(h, [h EXCEPT !.pc = "reply", !.index = 0, !.leader = FALSE])
  /\ UNCHANGED <<raftVars, delivered, storeVars, loop, clerk, answered>>

-----------------------------------------------------------------------------
\* ReadRaftApplyCommandLoop: one thread per server, three sections per command

Current(i) == Last(delivered[i])

\* Pop from applyChan, and ifRequestDuplicate.  A Get is not executed here.
SkipsNothing(i, op) == op.type = "Get"
Skips(i, op) == op.type = "Get" \/ IfRequestDuplicate(i, op)
GetCommandFromRaft(i) ==
  /\ loop[i] = "pop"
  /\ Len(delivered[i]) < Len(chosen)
  /\ LET op == chosen[Len(delivered[i]) + 1] IN
       /\ delivered' = [delivered EXCEPT ![i] = Append(@, op)]
       /\ loop' = [loop EXCEPT ![i] = IF Skips(i, op) THEN "send" ELSE "execute"]
  /\ UNCHANGED <<raftVars, storeVars, waitApplyCh, handlers, clerk, answered>>

\* ExecutePutOpOnKVDB and ExecuteAppendOpOnKVDB on the value of the key.
Effect(value, op) ==
  IF op.type = "Put" THEN <<WriteOf(op)>> ELSE Append(value, WriteOf(op))

ExecuteOp(i) ==
  LET op == Current(i) IN
  /\ loop[i] = "execute"
  /\ kvDB' = [kvDB EXCEPT ![i] = Effect(@, op)]
  /\ lastRequestId' = [lastRequestId EXCEPT ![i][ClientId[op.client]] = op.id]
  /\ loop' = [loop EXCEPT ![i] = "send"]
  /\ UNCHANGED <<raftVars, delivered, waitApplyCh, handlers, clerk, answered>>

SendMessageToWaitChan(i) ==
  LET k == Len(delivered[i]) IN
  /\ loop[i] = "send"
  /\ waitApplyCh' = [waitApplyCh EXCEPT ![i][k] =
                       IF @ = NoQueue THEN @ ELSE Append(@, Current(i))]
  /\ loop' = [loop EXCEPT ![i] = "pop"]
  /\ UNCHANGED <<raftVars, delivered, storeVars, handlers, clerk, answered>>

-----------------------------------------------------------------------------
HandlerStep(h) ==
  \/ RefuseRequest(h) \/ StartRequest(h) \/ RegisterQueue(h) \/ PopCommand(h)
  \/ PopTimesOut(h) \/ ReadLeadership(h) \/ ReadAfterTimeout(h)
  \/ WriteAfterTimeout(h) \/ ExecuteGetOpOnKVDB(h) \/ EraseQueue(h)

LoopStep(i) == GetCommandFromRaft(i) \/ ExecuteOp(i) \/ SendMessageToWaitChan(i)

Next ==
  \/ CommitEntry
  \/ \E i \in Server : LoopStep(i)
  \/ \E c \in Client : ClerkCalls(c) \/ CallFails(c)
  \/ \E h \in handlers : \/ HandlerStep(h) \/ Lost(h)
                         \/ WrongLeader(h.op.client, h) \/ Answered(h.op.client, h)

Spec == Init /\ [][Next]_vars

\* The thread of one attempt of a request.
Runs(h, c, id, n) == h.op.client = c /\ h.op.id = id /\ h.attempt = n

\* Every RPC thread gets to run, a wait ends by its timeout at the latest.
Fairness ==
  \A c \in Client : \A id \in DOMAIN Script[c], n \in 1 .. MaxAttempts[c] :
    WF_vars(\E h \in handlers : Runs(h, c, id, n) /\ HandlerStep(h))

FairSpec == Spec /\ Fairness

-----------------------------------------------------------------------------
\* Properties

\* What the first n chosen commands make of the key when a request that was
\* retried counts once: what a client may take the store to be.
StateAfter[n \in 0 .. Len(chosen)] ==
  IF n = 0 THEN <<>>
  ELSE IF \/ chosen[n].type = "Get"
          \/ \E m \in 1 .. n - 1 : WriteOf(chosen[m]) = WriteOf(chosen[n])
       THEN StateAfter[n - 1]
       ELSE Effect(StateAfter[n - 1], chosen[n])

\* Every server's database is the log with each write taken once, between any
\* two commands of its apply loop, however often requests were sent again.
StateIsLogOnce ==
  \A i \in Server : loop[i] = "pop" => kvDB[i] = StateAfter[Len(delivered[i])]

\* "duplicate command will not be exed": no write shows twice in a database.
DuplicatesNotExecuted ==
  \A i \in Server : \A m, n \in DOMAIN kvDB[i] : kvDB[i][m] = kvDB[i][n] => m = n

\* A write that its clerk was told OK is in the log for good, whichever of its
\* attempts was answered, by a pop or by a timeout that found it executed.
AnsweredIsChosen ==
  \A w \in answered : \E n \in DOMAIN chosen : WriteOf(chosen[n]) = w

\* A Get returns the state after a prefix of the log that has every write
\* answered before the Get was called: also a Get that timed out and was
\* answered from the local database of a server that once was the leader.
ReadsAreCurrent ==
  \A c \in Client :
    ~clerk[c].calling /\ clerk[c].id > 0 /\ Script[c][clerk[c].id] = "Get" =>
      \E n \in 0 .. Len(chosen) :
        /\ clerk[c].value = StateAfter[n]
        /\ \A w \in clerk[c].before : \E m \in 1 .. n : WriteOf(chosen[m]) = w

\* A handler's queue is there, and is its own, from its registration until it
\* deletes it: nobody pops from, pushes to or deletes a deleted queue.
QueueIsOwned ==
  \A h \in handlers :
    h.pc \in {"wait", "timedOut", "check", "execute", "erase"} =>
      /\ waitApplyCh[h.server][h.index] # NoQueue
      /\ \A g \in handlers : g.server = h.server /\ g.index = h.index => g = h

\* No handler waits for ever, whether its entry is committed, replaced or
\* applied before it has registered its queue.
HandlersEnd ==
  \A c \in Client : \A id \in DOMAIN Script[c], n \in 1 .. MaxAttempts[c] :
    (\E h \in handlers : Runs(h, c, id, n) /\ h.pc = "register")
      ~> (\E h \in handlers : Runs(h, c, id, n) /\ h.pc = "reply")

=============================================================================
