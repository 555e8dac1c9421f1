------------------------ MODULE RpcChannelInvariants ------------------------
(***************************************************************************)
(* Why a call returns its own answer although nothing on the wire says     *)
(* whose it is: the inductive invariants behind HandledOnce and OwnReply   *)
(* of RpcChannel.                                                          *)
(***************************************************************************)
EXTENDS RpcChannel

\* What is assumed of the wire format, and checked for the messages of an
\* instance: a request that came whole is understood, and a response is read as
\* it was written.
IsSequence(s) == Len(s) \in Nat /\ s = [i \in 1 .. Len(s) |-> s[i]]

RequestsTravel ==
  \A l \in Loads : \A c \in DOMAIN l.method :
    LET request == Requests[l][c]
    IN  /\ IsSequence(request) /\ request # <<>>
        /\ Understood(request, Len(request)) = <<l.args[c]>>

RepliesTravel ==
  \A l \in Loads : \A c \in DOMAIN l.method :
    LET type == ResponseType[l.method[c]]
    IN  /\ Parse(type, <<>>) = Clear(type)
        /\ \A a \in Answers[l.method[c]] :
             /\ IsSequence(Serialize(type, a))
             /\ Parse(type, Serialize(type, a)) = a

-----------------------------------------------------------------------------
\* Calls

\* What a call has done of a call.  Once it waits on another connection than it
\* sent on, the channel has left the one it sent on for good.
CallsInStep ==
  \A c \in Call :
    /\ pc[c] # "idle" => c \in DOMAIN load.method
    /\ pc[c] \in {"idle", "connect", "send", "close", "redo"} => sentOn[c] = None
    /\ pc[c] \in {"recv", "wait"} => sentOn[c] # None
    /\ pc[c] = "wait" => recvOn[c] # None
    /\ pc[c] \notin {"wait", "done"} => recvOn[c] = None
    /\ recvOn[c] # None => sentOn[c] # None
    /\ reply[c].ok => pc[c] = "done" /\ recvOn[c] # None
    /\ recvOn[c] \notin {None, sentOn[c]} => m_clientFd # sentOn[c]

\* One request of a call is under way at most, and only until it is handled.
RequestsAreOnce ==
  /\ \A k \in Conn : \A i \in DOMAIN up[k] :
       /\ sentOn[up[k][i].call] = k
       /\ \A j \in DOMAIN up[k] : up[k][i].call = up[k][j].call => i = j
       /\ ~up[k][i].rest => seen[up[k][i].call] = <<>>
  /\ \A k \in Conn : serving[k] # None =>
       /\ sentOn[serving[k]] = k
       /\ seen[serving[k]] # <<>> /\ answer[serving[k]] = NoAnswer
  /\ \A c \in Call : /\ seen[c] # <<>> => sentOn[c] # None /\ seen[c] = <<seen[c][1]>>
                     /\ answer[c] # NoAnswer =>
                          seen[c] # <<>> /\ \E a \in Answers[Method(c)] : answer[c] = <<a>>

-----------------------------------------------------------------------------
\* Connections

Unused(k) == /\ m_clientFd # k /\ up[k] = <<>> /\ down[k] = <<>>
             /\ \A c \in Call : k \notin {sentOn[c], recvOn[c]}

ConnsInStep ==
  \A k \in Conn : /\ status[k] = "new" => Unused(k)
                  /\ status[k] # "open" => up[k] = <<>> /\ serving[k] = None

\* Nothing is under way on k.
Quiet(k) == up[k] = <<>> /\ serving[k] = None /\ down[k] = <<>>

\* What is under way on k is the request, the execution or the answer of c.
Carries(k, c) ==
  \/ /\ up[k] = <<[call |-> c, rest |-> FALSE]>> /\ serving[k] = None /\ down[k] = <<>>
  \/ /\ up[k] = <<>> /\ serving[k] = c /\ down[k] = <<>>
  \/ /\ up[k] = <<>> /\ serving[k] = None /\ answer[c] # NoAnswer
     /\ down[k] = Serialize(ResponseType[Method(c)], answer[c][1])

\* A connection belongs to one call after the other, as long as it is not
\* disturbed: who comes finds it quiet, and who leaves leaves it quiet or for good.
Belongs(k, c) ==
  /\ Carries(k, c) /\ sentOn[c] = k /\ Pending(k) \subseteq {c}
  /\ Pending(k) = {} => m_clientFd # k
Idle(k) == Quiet(k) /\ \A c, d \in Pending(k) : c = d

ConnsBelong == \A k \in Conn \ disturbed : Idle(k) \/ \E c \in Call : Belongs(k, c)

ChannelInv ==
  /\ CallsInStep /\ RequestsAreOnce /\ ConnsInStep /\ ConnsBelong /\ HandledOnce /\ OwnReply

=============================================================================
