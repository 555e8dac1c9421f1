------------------------------ MODULE RpcChannel ----------------------------
(***************************************************************************)
(* The calls of a process to one server: MprpcChannel (rpc/mprpcchannel    *)
(* .cpp) on the side of the caller, RpcProvider (rpc/rpcprovider.cpp) on   *)
(* the side of the server, and a TCP connection between them that the      *)
(* threads of the caller share without a lock.                             *)
(*                                                                         *)
(* A call is a thread in CallMethod; it is in one of these steps:          *)
(*   idle     not yet begun                                                *)
(*   connect  m_clientFd is to be connected first                          *)
(*   send     before send(), which it repeats on a new connection          *)
(*   close    send() failed, the socket is to be closed                    *)
(*   redo     a new connection is to be made for send()                    *)
(*   recv     before recv(), which reads m_clientFd once more              *)
(*   wait     in recv()                                                    *)
(*   done     has returned                                                 *)
(*                                                                         *)
(* Connections are numbered in the order of connect(); m_clientFd is the   *)
(* number of one, or None.  TCP keeps the order of what is sent, may hand  *)
(* over requests in pieces or several at once, and does not cut a reply:   *)
(* each is far shorter than a segment.  What is left of a request whose    *)
(* beginning was taken away is not taken for the beginning of another one. *)
(***************************************************************************)
EXTENDS Wire, FiniteSets

CONSTANTS
  Call,        \* calls, each made by one thread
  None,        \* no connection, no call
  Loads,       \* what a process may call: the methods and arguments of its calls, and
               \* whether one thread makes them all, as a Clerk does
  Answers,     \* per method: what its handler may answer
  MaxConn,     \* bound: connections
  MaxCrash,    \* bound: crashes of the server
  MaxCut       \* bound: requests that TCP hands over in pieces

ASSUME ChannelAssumption == MaxConn \in Nat /\ MaxCrash \in Nat /\ MaxCut \in Nat
ASSUME NoneAssumption == None \notin Nat /\ None \notin Call

VARIABLES
  load,       \* what this process calls (one of Loads)
  m_clientFd, \* the connection of the channel
  pc,         \* how far a call is
  sentOn,     \* the connection its request went to
  recvOn,     \* the connection it waits for
  reply,      \* what it returned: failed, or the response
  status,     \* of a connection: new, open, closed by the server (fin), reset
  up,         \* requests under way on a connection
  down,       \* items of replies under way on a connection
  serving,    \* the call whose handler runs for a connection
  alive,      \* the server process runs
  crashes,    \* its crashes, cuts: requests handed over in pieces
  cuts,
  seen,       \* history: the arguments with which a call was handled
  answer,     \* history: what its handler answered
  disturbed   \* history: connections on which calls overlapped or a request was lost

callVars   == <<m_clientFd, pc, sentOn, recvOn, reply>>
netVars    == <<status, up, down>>
serverVars == <<serving, alive, crashes, cuts, seen, answer>>
vars       == <<load, callVars, netVars, serverVars, disturbed>>

Conn == 1 .. MaxConn
NoAnswer == <<>>
Failed == [ok |-> FALSE]
Ok(message) == [ok |-> TRUE, response |-> message]

Method(c) == load.method[c]
Args(c)   == load.args[c]

-----------------------------------------------------------------------------
\* Services

\* m_serviceMap after NotifyService for both services, as kvServer.cpp does.
m_serviceMap == [raftRpc     |-> {"AppendEntries", "InstallSnapshot", "RequestVote"},
                 kvServerRpc |-> {"PutAppend", "Get"}]

ServiceOf(method) == CHOOSE s \in DOMAIN m_serviceMap : method \in m_serviceMap[s]

\* GetRequestPrototype and GetResponsePrototype of the two services.
RaftRequestType ==
  [AppendEntries   |-> AppendEntriesArgs,
   InstallSnapshot |-> InstallSnapshotRequest,
   RequestVote     |-> RequestVoteArgs]
KvRequestType == [PutAppend |-> PutAppendArgs, Get |-> GetArgs]
RequestType == RaftRequestType @@ KvRequestType

RaftResponseType ==
  [AppendEntries   |-> AppendEntriesReply,
   InstallSnapshot |-> InstallSnapshotResponse,
   RequestVote     |-> RequestVoteReply]
KvResponseType == [PutAppend |-> PutAppendReply, Get |-> GetReply]
ResponseType == RaftResponseType @@ KvResponseType

\* Sizes are counted in items instead of bytes.
HeaderSize(n) == [size |-> n]

\* What CallMethod sends: the size of the header, the header, the arguments.
Request(method, args) ==
  LET items  == Serialize(RequestType[method], args)
      header == Serialize(RpcHeader, [service_name |-> ServiceOf(method),
                                      method_name  |-> method,
                                      args_size    |-> Len(items)])
  IN  <<HeaderSize(Len(header))>> \o header \o items

Smaller(m, n) == IF m < n THEN m ELSE n

\* The arguments with which OnMessage has a request handled of which n items came;
\* empty if it is dropped.  A header that ends before args_size stands for empty
\* arguments.
Understood(request, n) ==
  LET size   == request[1].size
      rest   == SubSeq(request, 2, n)
      header == Parse(RpcHeader, SubSeq(rest, 1, Smaller(size, Len(rest))))
      args   == SubSeq(rest, size + 1, Len(rest))
  IN  IF /\ header.service_name \in DOMAIN m_serviceMap
         /\ header.method_name \in m_serviceMap[header.service_name]
         /\ Len(args) >= header.args_size
      THEN <<Parse(RequestType[header.method_name], SubSeq(args, 1, header.args_size))>>
      ELSE <<>>

\* Understood for every call and every beginning of its request.
Requests == [l \in Loads |-> [c \in DOMAIN l.method |-> Request(l.method[c], l.args[c])]]
Handling == [l \in Loads |-> [c \in DOMAIN l.method |->
               [n \in DOMAIN Requests[l][c] |-> Understood(Requests[l][c], n)]]]

-----------------------------------------------------------------------------

\* The constructor may connect at once.
Init ==
  /\ load \in Loads
  /\ m_clientFd \in {None} \cup (Conn \cap {1})
  /\ pc = [c \in Call |-> "idle"]
  /\ sentOn = [c \in Call |-> None]
  /\ recvOn = [c \in Call |-> None]
  /\ reply = [c \in Call |-> Failed]
  /\ status = [k \in Conn |-> IF k = m_clientFd THEN "open" ELSE "new"]
  /\ up = [k \in Conn |-> <<>>]
  /\ down = [k \in Conn |-> <<>>]
  /\ serving = [k \in Conn |-> None]
  /\ alive = TRUE /\ crashes = 0 /\ cuts = 0
  /\ seen = [c \in Call |-> <<>>]
  /\ answer = [c \in Call |-> NoAnswer]
  /\ disturbed = {}

-----------------------------------------------------------------------------
\* The caller

Step(c, place) == pc' = [pc EXCEPT ![c] = place]

Return(c, result) ==
  /\ Step(c, "done")
  /\ reply' = [reply EXCEPT ![c] = result]

\* Calls that are between send() and the end of recv() on k.
Pending(k) == {c \in Call : pc[c] \in {"recv", "wait"} /\ k \in {sentOn[c], recvOn[c]}}
Overlap(k, others) ==
  disturbed' = IF others # {} THEN disturbed \cup {k} ELSE disturbed

Start(c) ==
  /\ pc[c] = "idle" /\ c \in DOMAIN load.method
  /\ load.oneThread => \A d \in Call : pc[d] \in {"idle", "done"}
  /\ Step(c, IF m_clientFd = None THEN "connect" ELSE "send")
  /\ UNCHANGED <<m_clientFd, sentOn, recvOn, reply, netVars, serverVars, disturbed>>

\* newConnect: it fails without a server, and for any other reason.
NewConnect(c) ==
  /\ pc[c] \in {"connect", "redo"}
  /\ \/ /\ m_clientFd' = None
        /\ Return(c, Failed)
        /\ UNCHANGED status
     \/ /\ alive
        /\ \E k \in Conn : /\ status[k] = "new" /\ \A j \in 1 .. k - 1 : status[j] # "new"
                           /\ status' = [status EXCEPT ![k] = "open"]
                           /\ m_clientFd' = k
        /\ Step(c, "send")
        /\ UNCHANGED reply
  /\ UNCHANGED <<sentOn, recvOn, up, down, serverVars, disturbed>>

\* send(): the kernel takes the request as long as it does not know that the
\* connection is gone; sending to a closed peer brings a reset back.
Send(c) ==
  LET k == m_clientFd
  IN  /\ pc[c] = "send" /\ k # None /\ status[k] # "reset"
      /\ IF status[k] = "open"
         THEN up' = [up EXCEPT ![k] = Append(@, [call |-> c, rest |-> FALSE])]
              /\ UNCHANGED status
         ELSE status' = [status EXCEPT ![k] = "reset"] /\ UNCHANGED up
      /\ sentOn' = [sentOn EXCEPT ![c] = k]
      /\ Step(c, "recv")
      /\ Overlap(k, Pending(k))
      /\ UNCHANGED <<m_clientFd, recvOn, reply, down, serverVars>>

\* send() returns -1.  The channel closes its socket, whichever that is by then.
SendFails(c) ==
  /\ pc[c] = "send"
  /\ m_clientFd # None => status[m_clientFd] = "reset"
  /\ Step(c, "close")
  /\ UNCHANGED <<m_clientFd, sentOn, recvOn, reply, netVars, serverVars, disturbed>>

CloseSocket(c) ==
  /\ pc[c] = "close"
  /\ m_clientFd' = None
  /\ Step(c, "redo")
  /\ UNCHANGED <<sentOn, recvOn, reply, netVars, serverVars, disturbed>>

\* recv() on the connection the channel has by now.
Recv(c) ==
  /\ pc[c] = "recv"
  /\ IF m_clientFd = None
     THEN Return(c, Failed) /\ UNCHANGED <<recvOn, disturbed>>
     ELSE /\ recvOn' = [recvOn EXCEPT ![c] = m_clientFd]
          /\ Step(c, "wait")
          /\ Overlap(m_clientFd, Pending(m_clientFd) \ {c})
          /\ UNCHANGED reply
  /\ UNCHANGED <<m_clientFd, sentOn, netVars, serverVars>>

\* A long value does not fit into the buffer of 1024 bytes.  Its rest, the bytes
\* of a value, is read as anything or cannot be parsed.
IsLong(item) == item.wire = "len" /\ item.value = "long"
Rest == [num |-> 0, wire |-> "rest"]

\* Mutant: the buffer has room for one field.
TakeOneItem(c) ==
  LET k == recvOn[c]
  IN  /\ pc[c] = "wait" /\ down[k] # <<>>
      /\ Return(c, Ok(Parse(ResponseType[Method(c)], <<Head(down[k])>>)))
      /\ down' = [down EXCEPT ![k] = Tail(@)]
      /\ UNCHANGED <<m_clientFd, sentOn, recvOn, status, up, serverVars, disturbed>>

\* recv() takes what has arrived, and it is parsed as the response of this call,
\* whoever it was for.
Take(c) ==
  LET k     == recvOn[c]
      items == down[k]
  IN  /\ pc[c] = "wait" /\ items # <<>>
      /\ \/ /\ \A i \in DOMAIN items : ~IsLong(items[i])
            /\ \/ Return(c, Ok(Parse(ResponseType[Method(c)], items)))
               \/ Rest \in Range(items) /\ Return(c, Failed)
            /\ down' = [down EXCEPT ![k] = <<>>]
            /\ UNCHANGED disturbed
         \/ \E i \in DOMAIN items :
               /\ IsLong(items[i]) /\ \A j \in 1 .. i - 1 : ~IsLong(items[j])
               /\ Return(c, Failed)
               /\ down' = [down EXCEPT ![k] = <<Rest>> \o SubSeq(@, i + 1, Len(@))]
               /\ disturbed' = disturbed \cup {k}
      /\ UNCHANGED <<m_clientFd, sentOn, recvOn, status, up, serverVars>>

\* Mutants: a closed connection leaves the response alone, makes the call be sent
\* once more, or is waited for.
TakeNothingUnparsed(c) ==
  /\ pc[c] = "wait" /\ down[recvOn[c]] = <<>> /\ status[recvOn[c]] = "fin"
  /\ Return(c, Ok(<<>>))
  /\ UNCHANGED <<m_clientFd, sentOn, recvOn, netVars, serverVars, disturbed>>
TakeNothingAgain(c) ==
  /\ pc[c] = "wait" /\ down[recvOn[c]] = <<>> /\ status[recvOn[c]] = "fin"
  /\ m_clientFd' = None
  /\ Step(c, "send")
  /\ UNCHANGED <<sentOn, recvOn, reply, netVars, serverVars, disturbed>>
TakeNothingWaits(c) ==
  /\ pc[c] = "wait" /\ down[recvOn[c]] = <<>> /\ status[recvOn[c]] = "fin"
  /\ UNCHANGED <<callVars, netVars, serverVars, disturbed>>

\* The server has closed the connection: recv() returns 0, and an empty buffer is
\* a message in which every field has its default.
TakeNothing(c) ==
  /\ pc[c] = "wait" /\ down[recvOn[c]] = <<>> /\ status[recvOn[c]] = "fin"
  /\ Return(c, Ok(Parse(ResponseType[Method(c)], <<>>)))
  /\ UNCHANGED <<m_clientFd, sentOn, recvOn, netVars, serverVars, disturbed>>

\* The connection was reset: recv() fails and the socket of the channel is closed.
RecvFails(c) ==
  /\ pc[c] = "wait" /\ down[recvOn[c]] = <<>> /\ status[recvOn[c]] = "reset"
  /\ m_clientFd' = None
  /\ Return(c, Failed)
  /\ UNCHANGED <<sentOn, recvOn, netVars, serverVars, disturbed>>

CallMethod(c) ==
  \/ Start(c) \/ NewConnect(c) \/ Send(c) \/ SendFails(c) \/ CloseSocket(c)
  \/ Recv(c) \/ Take(c) \/ TakeNothing(c) \/ RecvFails(c)

-----------------------------------------------------------------------------
\* The server

\* OnMessage takes all that has arrived: whole requests and some items of another
\* one.  It has the first handled and forgets the others.
OnMessage(k) ==
  LET first    == up[k][1]
      handling == Handling[load][first.call]
  IN  /\ alive /\ serving[k] = None /\ up[k] # <<>>
      /\ \E whole \in 0 .. Len(up[k]), items \in 0 .. Len(handling) - 1 :
           LET cut  == items > 0
               got  == IF first.rest THEN <<>>
                       ELSE handling[IF whole > 0 THEN Len(handling) ELSE items]
               left == SubSeq(up[k], whole + 1, Len(up[k]))
           IN  /\ whole > 0 \/ cut
               /\ cut => left # <<>> /\ cuts < MaxCut /\ (whole > 0 => items = 1)
               /\ up' = [up EXCEPT ![k] = IF cut THEN [left EXCEPT ![1].rest = TRUE] ELSE left]
               /\ cuts' = IF cut THEN cuts + 1 ELSE cuts
               /\ serving' = IF got = <<>> THEN serving ELSE [serving EXCEPT ![k] = first.call]
               /\ seen' = [seen EXCEPT ![first.call] = @ \o got]
               /\ disturbed' = IF whole > 1 \/ cut \/ first.rest THEN disturbed \cup {k}
                               ELSE disturbed
      /\ UNCHANGED <<callVars, status, down, alive, crashes, answer>>

\* The handler is done and SendRpcResponse sends its answer, which may be nothing.
SendRpcResponse(k) ==
  LET c == serving[k]
  IN  /\ c # None
      /\ \E a \in Answers[Method(c)] :
           /\ down' = [down EXCEPT ![k] = @ \o Serialize(ResponseType[Method(c)], a)]
           /\ answer' = [answer EXCEPT ![c] = <<a>>]
      /\ serving' = [serving EXCEPT ![k] = None]
      /\ UNCHANGED <<callVars, status, up, alive, crashes, cuts, seen, disturbed>>

\* The server dies; its connections are closed, or reset if it left data unread.
Crash ==
  /\ alive /\ crashes < MaxCrash
  /\ alive' = FALSE /\ crashes' = crashes + 1
  /\ \E how \in {"fin", "reset"} :
       status' = [k \in Conn |-> IF status[k] = "open" THEN how ELSE status[k]]
  /\ up' = [k \in Conn |-> <<>>]
  /\ serving' = [k \in Conn |-> None]
  /\ UNCHANGED <<callVars, down, cuts, seen, answer, disturbed>>

Restart ==
  /\ ~alive /\ alive' = TRUE
  /\ UNCHANGED <<callVars, netVars, serving, crashes, cuts, seen, answer, disturbed>>

Next ==
  /\ \/ \E c \in Call : CallMethod(c)
     \/ \E k \in Conn : OnMessage(k) \/ SendRpcResponse(k)
     \/ Crash \/ Restart
  /\ UNCHANGED load

Spec == Init /\ [][Next]_vars

\* Threads of the caller run, and so do the loops and handlers of a living server.
Fairness ==
  /\ \A c \in Call : WF_vars(CallMethod(c) /\ UNCHANGED load)
  /\ \A k \in Conn : WF_vars((OnMessage(k) \/ SendRpcResponse(k)) /\ UNCHANGED load)

FairSpec == Spec /\ Fairness

-----------------------------------------------------------------------------
\* Properties

\* Types of all variables.
TypeOK ==
  /\ load \in Loads
  /\ m_clientFd \in Conn \cup {None}
  /\ pc \in [Call -> {"idle", "connect", "send", "close", "redo", "recv", "wait", "done"}]
  /\ sentOn \in [Call -> Conn \cup {None}] /\ recvOn \in [Call -> Conn \cup {None}]
  /\ \A c \in Call : reply[c].ok => DOMAIN reply[c].response = DOMAIN Clear(ResponseType[Method(c)])
  /\ status \in [Conn -> {"new", "open", "fin", "reset"}]
  /\ up \in [Conn -> Seq([call : Call, rest : BOOLEAN])]
  /\ DOMAIN down = Conn /\ DOMAIN reply = Call /\ DOMAIN seen = Call /\ DOMAIN answer = Call
  /\ serving \in [Conn -> Call \cup {None}]
  /\ alive \in BOOLEAN /\ crashes \in 0 .. MaxCrash /\ cuts \in 0 .. MaxCut
  /\ disturbed \subseteq Conn

\* Nobody else used the connection of c in the meantime, before or since, and no
\* request or reply on it was cut.
Undisturbed(c) == sentOn[c] \notin disturbed /\ recvOn[c] \in {None, sentOn[c]}

\* A call that returns without an error has its own answer, over crashes, new
\* connections and failed calls before it, unless calls overlapped on the
\* connection or something was cut; or it has a message of defaults, when the
\* server closed the connection.
OwnReply ==
  \A c \in Call : reply[c].ok /\ Undisturbed(c) =>
    \/ answer[c] = <<reply[c].response>>
    \/ status[recvOn[c]] # "open" /\ reply[c].response = Clear(ResponseType[Method(c)])

\* What the comment of CallMethod says: when send() and recv() are over, the answer
\* to this request has come back, unless the server died.
OwnReplyAlways ==
  \A c \in Call : reply[c].ok =>
    \/ answer[c] = <<reply[c].response>>
    \/ status[recvOn[c]] # "open" /\ reply[c].response = Clear(ResponseType[Method(c)])

\* The loop that sends again after a failure never has a call handled twice, and
\* no call is handled with other arguments than its own, unless its request was cut.
HandledOnce ==
  \A c \in Call : /\ Len(seen[c]) <= 1
                  /\ seen[c] # <<>> /\ sentOn[c] \notin disturbed => seen[c] = <<Args(c)>>

\* The handler of c answered with a message of which nothing is sent.
SaysNothing(c) ==
  answer[c] # NoAnswer /\ Serialize(ResponseType[Method(c)], answer[c][1]) = <<>>

\* A call that was sent returns: recv() has no time limit, so the answer or the end
\* of the connection must come.  It does not for an answer whose fields all have
\* their default, of which nothing is sent, nor where calls disturb each other.
CallReturns ==
  \A c \in Call :
    pc[c] = "send" ~> pc[c] = "done" \/ ~Undisturbed(c) \/ SaysNothing(c)

=============================================================================
