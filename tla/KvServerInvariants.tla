------------------------- MODULE KvServerInvariants -------------------------
(***************************************************************************)
(* Why what a clerk is told is true: the inductive invariants behind       *)
(* QueueIsOwned, AnsweredIsChosen, StateIsLogOnce and ReadsAreCurrent of   *)
(* KvServer.                                                               *)
(*                                                                         *)
(* A server decides with one number per client, m_lastRequestId, whether a *)
(* request has been executed.  That number is set by the apply loop and by *)
(* RPC threads that may be late; the invariants say what it tells of the   *)
(* log.                                                                    *)
(***************************************************************************)
EXTENDS KvServer

\* What is assumed of the clients: ids of their own.
DistinctIds == \A c, d \in Client : ClientId[c] = ClientId[d] => c = d

-----------------------------------------------------------------------------
\* Threads and queues

\* A handler has an index from StartConses until it has erased its queue.
HandlersInStep ==
  \A h \in handlers :
    /\ IF h.pc \in {"start", "reply"} THEN h.index = 0 ELSE h.index \in 1 .. issued[h.server]
    /\ h.pc \in {"check", "execute"} => h.op.type = "Get"

IndexIsOwned ==
  \A g, h \in handlers : g.server = h.server /\ g.index = h.index /\ h.index # 0 => g = h

QueueIsRegistered ==
  \A h \in handlers :
    h.pc \in {"wait", "timedOut", "check", "execute", "erase"}
      => waitApplyCh[h.server][h.index] # NoQueue

LoopHasCommand == \A i \in Server : loop[i] # "pop" => delivered[i] # <<>>

ClerkInScript ==
  \A c \in Client : /\ clerk[c].id <= Len(Script[c])
                    /\ clerk[c].calling => clerk[c].id > 0

\* RPC threads, the apply loop and the clerks do not get in each other's way.
ThreadInv ==
  /\ HandlersInStep /\ IndexIsOwned /\ QueueIsRegistered
  /\ LoopHasCommand /\ ClerkInScript

-----------------------------------------------------------------------------
\* Requests

\* Whatever bears a client's name is a request that the client has made.
Genuine(op) == op.id \in 1 .. clerk[op.client].id /\ op.type = Script[op.client][op.id]

OpsAreGenuine ==
  /\ \A h \in handlers : Genuine(h.op)
  /\ \A p \in proposed : Genuine(p.op)
  /\ \A n \in DOMAIN chosen : Genuine(chosen[n])

DeliveredIsChosen ==
  \A i \in Server : /\ Len(delivered[i]) <= Len(chosen)
                    /\ \A n \in DOMAIN delivered[i] : delivered[i][n] = chosen[n]

\* A clerk makes its requests one after the other.
AnsweredInOrder ==
  \A c \in Client : \A k \in 1 .. clerk[c].id :
    Script[c][k] # "Get" /\ (k < clerk[c].id \/ ~clerk[c].calling)
      => [client |-> c, id |-> k] \in answered

\* The first n chosen commands have a write; they have all that c made before
\* its request id.
LogHas(w, n) == \E m \in 1 .. n : WriteOf(chosen[m]) = w
LogHasBelow(c, id, n) ==
  \A k \in 1 .. id - 1 : Script[c][k] # "Get" => LogHas([client |-> c, id |-> k], n)

\* So they are chosen one after the other, too.
ChosenInOrder ==
  \A n \in DOMAIN chosen : LogHasBelow(chosen[n].client, chosen[n].id, n - 1)

\* What the apply loop of a server is through with.
Executed(i) == IF loop[i] = "execute" THEN Len(delivered[i]) - 1 ELSE Len(delivered[i])

QueuesHoldExecuted ==
  \A i \in Server, k \in Index : waitApplyCh[i][k] # NoQueue =>
    \A n \in DOMAIN waitApplyCh[i][k] :
      k <= Executed(i) /\ waitApplyCh[i][k][n] = chosen[k]

\* m_lastRequestId of a client stands for itself and all below.
Known(i, c) == lastRequestId[i][ClientId[c]]
KnownIsExecuted ==
  \A i \in Server, c \in Client : /\ Known(i, c) <= clerk[c].id
                                  /\ LogHasBelow(c, Known(i, c) + 1, Executed(i))

\* A Get about to read the database has its client's writes in it.
ReadersAreBehind ==
  \A h \in handlers :
    h.pc = "execute" => LogHasBelow(h.op.client, h.op.id, Executed(h.server))

RepliesAreTrue ==
  \A h \in handlers : h.err \in {"OK", "ErrNoKey"} /\ h.op.type # "Get"
    => LogHas(WriteOf(h.op), Len(chosen))

\* What m_lastRequestId, queues and replies say of a request is true of the log.
RequestInv ==
  /\ OpsAreGenuine /\ DeliveredIsChosen /\ AnsweredInOrder /\ AnsweredIsChosen
  /\ ChosenInOrder /\ QueuesHoldExecuted /\ KnownIsExecuted
  /\ ReadersAreBehind /\ RepliesAreTrue

-----------------------------------------------------------------------------
\* Databases

\* m_lastRequestId misses no write that was executed.
ExecutedIsKnown ==
  \A i \in Server : \A n \in 1 .. Executed(i) :
    chosen[n].type # "Get" => chosen[n].id <= Known(i, chosen[n].client)

\* Nothing is executed that was executed before, by the time it is executed.
ExecutesOnce ==
  \A i \in Server : loop[i] = "execute" =>
    /\ Current(i).type # "Get"
    /\ ~LogHas(WriteOf(Current(i)), Len(delivered[i]) - 1)

DatabaseIsExecuted == \A i \in Server : kvDB[i] = StateAfter[Executed(i)]

\* Every database is its part of the log, each write taken once.
StateInv == ExecutedIsKnown /\ ExecutesOnce /\ DatabaseIsExecuted

\* What breaks it: an attempt of a Get that its clerk gave up executes behind a
\* later write of the same clerk, and takes m_lastRequestId back below that write.
ForgetsWrite(h) ==
  /\ ExecuteGetOpOnKVDB(h)
  /\ \E n \in 1 .. Executed(h.server) :
       chosen[n].client = h.op.client /\ chosen[n].type # "Get" /\ h.op.id < chosen[n].id

\* The behaviours in which that does not happen.
OrderedSpec == Init /\ [][Next /\ ~\E h \in handlers : ForgetsWrite(h)]_vars

-----------------------------------------------------------------------------
\* Reads

LogHasAll(W, n) == \A w \in W : LogHas(w, n)

BeforeIsAnswered == \A c \in Client : clerk[c].before \subseteq answered

\* The clerk's latest request comes after what was answered before it, in the
\* log, in m_lastRequestId and in the handlers that serve it.
ChosenAfterBefore ==
  \A n \in DOMAIN chosen : chosen[n].id = clerk[chosen[n].client].id
    => LogHasAll(clerk[chosen[n].client].before, n - 1)

KnownAfterBefore ==
  \A i \in Server, c \in Client : Known(i, c) = clerk[c].id
    => LogHasAll(clerk[c].before, Executed(i))

ReadSince(value, W) == \E n \in 0 .. Len(chosen) : value = StateAfter[n] /\ LogHasAll(W, n)

ReadersAreCurrent ==
  \A h \in handlers : h.op.id = clerk[h.op.client].id /\ h.op.type = "Get" =>
    /\ h.pc = "execute" => LogHasAll(clerk[h.op.client].before, Executed(h.server))
    /\ h.err \in {"OK", "ErrNoKey"} => ReadSince(h.value, clerk[h.op.client].before)

\* A read sees every write answered before it.
ReadInv ==
  /\ BeforeIsAnswered /\ ChosenAfterBefore /\ KnownAfterBefore /\ ReadersAreCurrent
  /\ ReadsAreCurrent

KvInv == ThreadInv /\ RequestInv /\ StateInv /\ ReadInv

=============================================================================
