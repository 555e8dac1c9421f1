-------------------------- MODULE RpcChannelProofs --------------------------
(***************************************************************************)
(* Theorems about RpcChannel, for every number of calls, connections,      *)
(* crashes and cuts: whatever threads share a channel, a request is        *)
(* handled once at most, and a call on a connection that nobody disturbed  *)
(* returns its own answer.                                                 *)
(***************************************************************************)
EXTENDS RpcChannelInvariants, SequenceTheorems, TLAPS

-----------------------------------------------------------------------------
\* Types

LEMMA ConnIsNotNone == \A k \in Conn : k # None
BY NoneAssumption, ChannelAssumption, SMT DEF Conn

LEMMA NamesOfMessages ==
  ASSUME NEW type, NEW items
  PROVE  DOMAIN Parse(type, items) = DOMAIN Clear(type)
BY Zenon DEF Parse, Clear

\* Requests under way, as OnMessage leaves them.
LEMMA LeftOver ==
  ASSUME NEW S, NEW s \in Seq(S), NEW n \in 0 .. Len(s)
  PROVE  /\ SubSeq(s, n + 1, Len(s)) \in Seq(S)
         /\ Len(SubSeq(s, n + 1, Len(s))) = Len(s) - n
         /\ Len(s) \in Nat
         /\ \A i \in 1 .. Len(s) - n : /\ SubSeq(s, n + 1, Len(s))[i] = s[n + i]
                                       /\ n + i \in 1 .. Len(s)
<1>1. Len(s) \in Nat /\ n + 1 \in Int /\ Len(s) \in Int /\ \A i \in n + 1 .. Len(s) : i \in 1 .. Len(s)
  BY LenProperties, SMT
<1>2. \A i \in n + 1 .. Len(s) : s[i] \in S
  BY <1>1, ElementOfSeq
<1>3. /\ SubSeq(s, n + 1, Len(s)) \in Seq(S)
      /\ Len(SubSeq(s, n + 1, Len(s))) = IF n + 1 <= Len(s) THEN Len(s) - (n + 1) + 1 ELSE 0
      /\ \A i \in 1 .. Len(s) - (n + 1) + 1 : SubSeq(s, n + 1, Len(s))[i] = s[n + 1 + i - 1]
  BY <1>1, <1>2, SubSeqProperties
<1>4. /\ (IF n + 1 <= Len(s) THEN Len(s) - (n + 1) + 1 ELSE 0) = Len(s) - n
      /\ Len(s) - (n + 1) + 1 = Len(s) - n
      /\ \A i \in 1 .. Len(s) - n : n + 1 + i - 1 = n + i /\ n + i \in 1 .. Len(s)
  BY <1>1, SMT
<1> QED
  BY <1>1, <1>3, <1>4

\* Of the first of the requests that are left, the beginning is taken.
LEMMA CutFirst ==
  ASSUME NEW s \in Seq([call : Call, rest : BOOLEAN]), s # <<>>
  PROVE  LET cut == [s EXCEPT ![1].rest = TRUE]
         IN  /\ cut \in Seq([call : Call, rest : BOOLEAN])
             /\ Len(cut) = Len(s)
             /\ cut[1].rest
             /\ \A i \in 1 .. Len(s) : cut[i].call = s[i].call /\ (i # 1 => cut[i] = s[i])
<1> DEFINE cut == [s EXCEPT ![1].rest = TRUE]
<1>1. Len(s) \in Nat /\ DOMAIN s = 1 .. Len(s) /\ 1 \in 1 .. Len(s)
  BY EmptySeq, LenProperties, SMT
<1>2. \A i \in 1 .. Len(s) : s[i] \in [call : Call, rest : BOOLEAN]
  BY <1>1, ElementOfSeq
<1>3. /\ cut[1].rest /\ cut[1].call = s[1].call
      /\ \A i \in 1 .. Len(s) : i # 1 => cut[i] = s[i]
      /\ cut[1] \in [call : Call, rest : BOOLEAN]
  BY <1>1, <1>2
<1>4. cut \in [1 .. Len(s) -> [call : Call, rest : BOOLEAN]]
  BY <1>1, <1>2, <1>3
<1>5. cut \in Seq([call : Call, rest : BOOLEAN]) /\ Len(cut) = Len(s)
  BY <1>1, <1>4, SeqDef, LenProperties
<1> QED
  BY <1>3, <1>5

\* What OnMessage has handled: nothing, or the arguments of one request.
AtMostOne(got) == got = <<>> \/ \E a : got = <<a>>

LEMMA HandlingType ==
  ASSUME RequestsTravel, load \in Loads
  PROVE  \A c, handling : c \in DOMAIN load.method /\ handling = Handling[load][c] =>
         /\ Len(handling) \in Nat \ {0}
         /\ handling[Len(handling)] = <<load.args[c]>>
         /\ \A n \in 1 .. Len(handling) : AtMostOne(handling[n])
<1> SUFFICES ASSUME NEW c \in DOMAIN load.method, NEW handling, handling = Handling[load][c]
             PROVE  /\ Len(handling) \in Nat \ {0}
                    /\ handling[Len(handling)] = <<load.args[c]>>
                    /\ \A n \in 1 .. Len(handling) :
                         AtMostOne(handling[n])
  BY Zenon
<1> DEFINE request == Requests[load][c]
<1>1. /\ IsSequence(request) /\ request # <<>>
      /\ Understood(request, Len(request)) = <<load.args[c]>>
  BY DEF RequestsTravel
<1>2. handling = [n \in DOMAIN request |-> Understood(request, n)]
  BY DEF Handling
<1> HIDE DEF request
<1>3. DOMAIN request = 1 .. Len(request) /\ Len(request) \in Nat
  BY <1>1 DEF IsSequence
<1>4. Len(request) # 0
  <2> SUFFICES ASSUME Len(request) = 0 PROVE FALSE
    OBVIOUS
  <2>1. request = [i \in 1 .. 0 |-> request[i]]
    BY <1>1 DEF IsSequence
  <2> QED
    BY <1>1, <2>1, SMT
<1>5. handling \in Seq({Understood(request, n) : n \in 1 .. Len(request)})
  BY <1>2, <1>3, SeqDef
<1>6. Len(handling) = Len(request)
  BY <1>2, <1>3, <1>5, LenProperties, SMT
<1>7. \A n \in 1 .. Len(handling) : handling[n] = Understood(request, n)
  BY <1>2, <1>3, <1>6
<1>8. \A n : AtMostOne(Understood(request, n))
  BY Zenon DEF Understood, AtMostOne
<1> QED
  BY <1>1, <1>3, <1>4, <1>6, <1>7, <1>8, SMT

LEMMA TypesInit ==
  ASSUME Init
  PROVE  TypeOK
<1>1. reply = [c \in Call |-> Failed] /\ up = [k \in Conn |-> <<>>] /\ cuts = 0 /\ crashes = 0
  BY DEF Init
<1>2. up \in [Conn -> Seq([call : Call, rest : BOOLEAN])]
  BY <1>1, EmptySeq
<1>3. crashes \in 0 .. MaxCrash /\ cuts \in 0 .. MaxCut
  BY <1>1, ChannelAssumption, SMT
<1>4. \A c \in Call : ~reply[c].ok
  BY <1>1 DEF Failed
<1> QED
  BY <1>2, <1>3, <1>4 DEF Init, TypeOK

\* A thread of the caller, and what it returns.
LEMMA CallMethodTypes ==
  ASSUME TypeOK, CallsInStep, NEW c \in Call, CallMethod(c), UNCHANGED load
  PROVE  TypeOK'
<1>1. /\ pc \in [Call -> {"idle", "connect", "send", "close", "redo", "recv", "wait", "done"}]
      /\ DOMAIN reply = Call /\ DOMAIN down = Conn
      /\ sentOn \in [Call -> Conn \cup {None}] /\ recvOn \in [Call -> Conn \cup {None}]
      /\ m_clientFd \in Conn \cup {None} /\ disturbed \subseteq Conn
      /\ status \in [Conn -> {"new", "open", "fin", "reset"}]
      /\ up \in [Conn -> Seq([call : Call, rest : BOOLEAN])]
  BY DEF TypeOK
<1>2. \A p \in {"connect", "send", "close", "redo", "recv", "wait", "done"} :
        Step(c, p) => pc' \in [Call -> {"idle", "connect", "send", "close", "redo", "recv",
                                        "wait", "done"}]
  BY <1>1 DEF Step
<1>3. ASSUME reply' = reply \/ (\E m : reply' = [reply EXCEPT ![c] = Ok(m)]
                                         /\ DOMAIN m = DOMAIN Clear(ResponseType[Method(c)]))
                            \/ reply' = [reply EXCEPT ![c] = Failed]
      PROVE  /\ DOMAIN reply' = Call
             /\ \A d \in Call : reply'[d].ok
                  => DOMAIN reply'[d].response = DOMAIN Clear(ResponseType[Method(d)]')
  <2>1. \A d : Method(d)' = Method(d)
    BY DEF Method
  <2>2. CASE reply' = reply
    BY <1>1, <2>1, <2>2 DEF TypeOK
  <2>3. CASE \E m : reply' = [reply EXCEPT ![c] = Ok(m)]
                      /\ DOMAIN m = DOMAIN Clear(ResponseType[Method(c)])
    <3>1. PICK m : reply' = [reply EXCEPT ![c] = Ok(m)]
                     /\ DOMAIN m = DOMAIN Clear(ResponseType[Method(c)])
      BY <2>3
    <3>2. reply'[c] = Ok(m) /\ \A d \in Call \ {c} : reply'[d] = reply[d]
      BY <1>1, <3>1
    <3>3. reply'[c].response = m
      BY <3>2 DEF Ok
    <3> QED
      BY <1>1, <2>1, <3>1, <3>2, <3>3 DEF TypeOK
  <2>4. CASE reply' = [reply EXCEPT ![c] = Failed]
    <3>1. reply'[c] = Failed /\ \A d \in Call \ {c} : reply'[d] = reply[d]
      BY <1>1, <2>4
    <3>2. ~reply'[c].ok
      BY <3>1 DEF Failed
    <3> QED
      BY <1>1, <2>1, <2>4, <3>1, <3>2 DEF TypeOK
  <2> QED
    BY <1>3, <2>2, <2>3, <2>4
<1>4. \A m : Return(c, m) => Step(c, "done") /\ reply' = [reply EXCEPT ![c] = m]
  BY DEF Return
<1>5. CASE Start(c)
  BY <1>2, <1>3, <1>5 DEF Start, TypeOK, netVars, serverVars
<1>6. CASE NewConnect(c)
  <2>1. m_clientFd' \in Conn \cup {None} /\ status' \in [Conn -> {"new", "open", "fin", "reset"}]
    BY <1>1, <1>6 DEF NewConnect
  <2>2. reply' = reply \/ reply' = [reply EXCEPT ![c] = Failed]
    BY <1>4, <1>6 DEF NewConnect
  <2>3. Step(c, "done") \/ Step(c, "send")
    BY <1>4, <1>6 DEF NewConnect
  <2> QED
    BY <1>2, <1>3, <1>6, <2>1, <2>2, <2>3 DEF NewConnect, TypeOK, serverVars
<1>7. CASE Send(c)
  <2>1. m_clientFd \in Conn
    BY <1>1, <1>7 DEF Send
  <2>2. status' \in [Conn -> {"new", "open", "fin", "reset"}]
    BY <1>1, <1>7, <2>1 DEF Send
  <2>3. up' \in [Conn -> Seq([call : Call, rest : BOOLEAN])]
    <3>1. PICK r : r = [call |-> c, rest |-> FALSE]
      OBVIOUS
    <3>2. r \in [call : Call, rest : BOOLEAN] /\ up[m_clientFd] \in Seq([call : Call, rest : BOOLEAN])
      BY <1>1, <2>1, <3>1
    <3>3. Append(up[m_clientFd], r) \in Seq([call : Call, rest : BOOLEAN])
      BY <3>2, AppendProperties
    <3>4. up' = up \/ up' = [up EXCEPT ![m_clientFd] = Append(up[m_clientFd], r)]
      BY <1>7, <3>1 DEF Send
    <3> QED
      BY <1>1, <2>1, <3>3, <3>4
  <2>4. sentOn' \in [Call -> Conn \cup {None}] /\ disturbed' \subseteq Conn /\ Step(c, "recv")
        /\ reply' = reply
    BY <1>1, <1>7, <2>1 DEF Send, Overlap
  <2> QED
    BY <1>2, <1>3, <1>7, <2>2, <2>3, <2>4 DEF Send, TypeOK, serverVars
<1>8. CASE SendFails(c)
  BY <1>2, <1>3, <1>8 DEF SendFails, TypeOK, netVars, serverVars
<1>9. CASE CloseSocket(c)
  BY <1>2, <1>3, <1>9 DEF CloseSocket, TypeOK, netVars, serverVars
<1>10. CASE Recv(c)
  <2>1. recvOn' \in [Call -> Conn \cup {None}] /\ disturbed' \subseteq Conn
    BY <1>1, <1>10 DEF Recv, Overlap
  <2>2. Step(c, "done") \/ Step(c, "wait")
    BY <1>4, <1>10 DEF Recv
  <2>3. reply' = reply \/ reply' = [reply EXCEPT ![c] = Failed]
    BY <1>4, <1>10 DEF Recv
  <2> QED
    BY <1>2, <1>3, <1>10, <2>1, <2>2, <2>3 DEF Recv, TypeOK, netVars, serverVars
<1>11. CASE Take(c)
  <2>1. recvOn[c] \in Conn
    BY <1>1, <1>11 DEF Take, CallsInStep
  <2>2. disturbed' \subseteq Conn /\ DOMAIN down' = Conn
    <3>1. disturbed' = disturbed \/ disturbed' = disturbed \cup {recvOn[c]}
      BY <1>11 DEF Take
    <3>2. DOMAIN down' = Conn
      BY <1>1, <1>11 DEF Take
    <3> QED
      BY <1>1, <2>1, <3>1, <3>2
  <2>3. Step(c, "done") /\ (reply' = [reply EXCEPT ![c] = Failed] \/
          reply' = [reply EXCEPT ![c] = Ok(Parse(ResponseType[Method(c)], down[recvOn[c]]))])
    BY <1>11, Zenon DEF Take, Return
  <2>4. TypeOK' <=> /\ pc' \in [Call -> {"idle", "connect", "send", "close", "redo", "recv",
                                         "wait", "done"}]
                    /\ DOMAIN reply' = Call
                    /\ \A d \in Call : reply'[d].ok
                         => DOMAIN reply'[d].response = DOMAIN Clear(ResponseType[Method(d)]')
    BY <1>11, <2>2, Zenon DEF Take, TypeOK, serverVars
  <2> QED
    BY <1>2, <1>3, <2>3, <2>4, NamesOfMessages
<1>12. CASE TakeNothing(c)
  <2>1. Step(c, "done") /\ reply' = [reply EXCEPT ![c] = Ok(Parse(ResponseType[Method(c)], <<>>))]
    BY <1>12 DEF TakeNothing, Return
  <2> QED
    BY <1>2, <1>3, <1>12, <2>1, NamesOfMessages, ZenonT(30) DEF TakeNothing, TypeOK, netVars, serverVars
<1>13. CASE RecvFails(c)
  BY <1>2, <1>3, <1>4, <1>13 DEF RecvFails, TypeOK, netVars, serverVars
<1> QED
  BY <1>5, <1>6, <1>7, <1>8, <1>9, <1>10, <1>11, <1>12, <1>13 DEF CallMethod

\* What OnMessage does to its connection, in cases: the first request of the queue
\* is handled if it is understood, whole requests go, and of the next one the
\* beginning goes.
Handles(k, first, left, got, handled, whole, items) ==
  /\ whole \in Nat /\ items \in Nat /\ alive /\ serving[k] = None /\ up[k] # <<>> /\ first = up[k][1]
  /\ first \in [call : Call, rest : BOOLEAN]
  /\ first.rest => got = <<>>
  /\ AtMostOne(got)
  /\ ~first.rest /\ whole > 0 => got = <<Args(first.call)>>
  /\ whole <= Len(up[k]) /\ left = SubSeq(up[k], whole + 1, Len(up[k]))
  /\ whole = 0 => items > 0
  /\ items > 0 => left # <<>> /\ cuts < MaxCut
  /\ handled = IF items > 0 THEN [left EXCEPT ![1].rest = TRUE] ELSE left
  /\ up' = [up EXCEPT ![k] = handled]
  /\ cuts' = IF items > 0 THEN cuts + 1 ELSE cuts
  /\ serving' = IF got = <<>> THEN serving ELSE [serving EXCEPT ![k] = first.call]
  /\ seen' = [seen EXCEPT ![first.call] = @ \o got]
  /\ disturbed' = IF whole > 1 \/ items > 0 \/ first.rest THEN disturbed \cup {k} ELSE disturbed

LEMMA OnMessageEffect ==
  ASSUME TypeOK, CallsInStep, RequestsAreOnce, RequestsTravel, NEW k \in Conn, OnMessage(k)
  PROVE  \E first, left, got, handled, whole, items :
           Handles(k, first, left, got, handled, whole, items)
<1>1. PICK first, handling : first = up[k][1] /\ handling = Handling[load][first.call]
  OBVIOUS
<1>2. up[k] \in Seq([call : Call, rest : BOOLEAN]) /\ up[k] # <<>>
  BY DEF TypeOK, OnMessage
<1>3. Len(up[k]) \in Nat /\ 1 \in 1 .. Len(up[k])
  BY <1>2, EmptySeq, SMT
<1>4. first \in [call : Call, rest : BOOLEAN] /\ sentOn[first.call] = k
  <2>1. first \in [call : Call, rest : BOOLEAN]
    BY <1>1, <1>2, <1>3, ElementOfSeq
  <2>2. 1 \in DOMAIN up[k]
    BY <1>2, <1>3, LenProperties
  <2> QED
    BY <1>1, <2>1, <2>2 DEF RequestsAreOnce
<1>5. first.call \in DOMAIN load.method
  BY <1>4, ConnIsNotNone DEF CallsInStep, TypeOK
<1>6. /\ Len(handling) \in Nat \ {0}
      /\ handling[Len(handling)] = <<Args(first.call)>>
      /\ \A n \in 1 .. Len(handling) : AtMostOne(handling[n])
  <2>1. load \in Loads
    BY DEF TypeOK
  <2> QED
    BY <1>1, <1>5, <2>1, HandlingType DEF Args
<1>7. PICK whole \in 0 .. Len(up[k]), items \in 0 .. Len(handling) - 1 :
        LET cut  == items > 0
            got  == IF first.rest THEN <<>>
                    ELSE handling[IF whole > 0 THEN Len(handling) ELSE items]
            left == SubSeq(up[k], whole + 1, Len(up[k]))
        IN  /\ whole > 0 \/ cut
            /\ cut => left # <<>> /\ cuts < MaxCut /\ (whole > 0 => items = 1)
            /\ up' = [up EXCEPT ![k] = IF cut THEN [left EXCEPT ![1].rest = TRUE] ELSE left]
            /\ cuts' = IF cut THEN cuts + 1 ELSE cuts
            /\ serving' = IF got = <<>> THEN serving ELSE [serving EXCEPT ![k] = first.call]
            /\ seen' = [seen EXCEPT ![first.call] = @ \o got]
            /\ disturbed' = IF whole > 1 \/ cut \/ first.rest THEN disturbed \cup {k}
                            ELSE disturbed
  BY <1>1, ZenonT(30) DEF OnMessage
<1>8. PICK got, left, handled :
        /\ got = IF first.rest THEN <<>>
                 ELSE handling[IF whole > 0 THEN Len(handling) ELSE items]
        /\ left = SubSeq(up[k], whole + 1, Len(up[k]))
        /\ handled = IF items > 0 THEN [left EXCEPT ![1].rest = TRUE] ELSE left
  OBVIOUS
<1>9. /\ whole > 0 \/ items > 0
      /\ items > 0 => left # <<>> /\ cuts < MaxCut
      /\ up' = [up EXCEPT ![k] = handled]
      /\ cuts' = IF items > 0 THEN cuts + 1 ELSE cuts
      /\ serving' = IF got = <<>> THEN serving ELSE [serving EXCEPT ![k] = first.call]
      /\ seen' = [seen EXCEPT ![first.call] = @ \o got]
      /\ disturbed' = IF whole > 1 \/ items > 0 \/ first.rest THEN disturbed \cup {k} ELSE disturbed
  BY <1>7, <1>8, Zenon
<1>10. whole \in Nat /\ items \in Nat /\ whole <= Len(up[k]) /\ (whole = 0 => items > 0)
  BY <1>3, <1>6, <1>9, SMT
<1>11. AtMostOne(got)
  <2> SUFFICES ASSUME ~first.rest PROVE AtMostOne(got)
    BY <1>8 DEF AtMostOne
  <2>1. CASE whole > 0
    BY <1>6, <1>8, <2>1
  <2>2. CASE ~(whole > 0)
    <3>1. items \in 1 .. Len(handling)
      BY <1>6, <1>10, <2>2, SMT
    <3>2. got = handling[items]
      BY <1>8, <2>2
    <3> QED
      BY <1>6, <3>1, <3>2
  <2> QED
    BY <2>1, <2>2
<1>12. ~first.rest /\ whole > 0 => got = <<Args(first.call)>>
  BY <1>6, <1>8
<1>13. alive /\ serving[k] = None /\ (first.rest => got = <<>>)
  BY <1>8 DEF OnMessage
<1>14. Handles(k, first, left, got, handled, whole, items)
  BY <1>1, <1>2, <1>4, <1>8, <1>9, <1>10, <1>11, <1>12, <1>13, Zenon DEF Handles
<1> QED
  BY <1>14

-----------------------------------------------------------------------------
\* The server

LEMMA OnMessageTypes ==
  ASSUME TypeOK, CallsInStep, RequestsAreOnce, RequestsTravel, NEW k \in Conn, OnMessage(k),
         UNCHANGED load
  PROVE  TypeOK'
<1>1. PICK first, left, got, handled, whole, items :
        Handles(k, first, left, got, handled, whole, items)
  BY OnMessageEffect
<1>2. /\ whole \in Nat /\ items \in Nat /\ whole <= Len(up[k]) /\ up[k] # <<>>
      /\ first \in [call : Call, rest : BOOLEAN]
      /\ left = SubSeq(up[k], whole + 1, Len(up[k]))
      /\ items > 0 => left # <<>> /\ cuts < MaxCut
      /\ handled = IF items > 0 THEN [left EXCEPT ![1].rest = TRUE] ELSE left
      /\ up' = [up EXCEPT ![k] = handled]
      /\ cuts' = IF items > 0 THEN cuts + 1 ELSE cuts
      /\ serving' = serving \/ serving' = [serving EXCEPT ![k] = first.call]
      /\ seen' = [seen EXCEPT ![first.call] = @ \o got]
      /\ disturbed' = disturbed \/ disturbed' = disturbed \cup {k}
  BY <1>1, Zenon DEF Handles
<1>3. handled \in Seq([call : Call, rest : BOOLEAN])
  <2>1. up[k] \in Seq([call : Call, rest : BOOLEAN])
    BY DEF TypeOK
  <2>2. whole \in 0 .. Len(up[k])
    BY <1>2, <2>1, LenProperties, SMT
  <2>3. left \in Seq([call : Call, rest : BOOLEAN])
    BY <1>2, <2>1, <2>2, LeftOver
  <2> QED
    BY <1>2, <2>3, CutFirst
<1>4. up' \in [Conn -> Seq([call : Call, rest : BOOLEAN])]
  BY <1>2, <1>3 DEF TypeOK
<1>5. cuts' \in 0 .. MaxCut
  BY <1>2, ChannelAssumption, SMT DEF TypeOK
<1>6. serving' \in [Conn -> Call \cup {None}] /\ disturbed' \subseteq Conn /\ DOMAIN seen' = Call
  BY <1>2 DEF TypeOK
<1>7. /\ UNCHANGED <<m_clientFd, pc, sentOn, recvOn, reply, status, down, alive, crashes, answer>>
      /\ \A c : Method(c)' = Method(c)
  BY DEF OnMessage, callVars, Method
<1> QED
  BY <1>4, <1>5, <1>6, <1>7 DEF TypeOK

LEMMA ServerTypes ==
  ASSUME TypeOK, UNCHANGED load, (\E k \in Conn : SendRpcResponse(k)) \/ Crash \/ Restart
  PROVE  TypeOK'
<1>1. \A c : Method(c)' = Method(c)
  BY DEF Method
<1>2. ASSUME NEW k \in Conn, SendRpcResponse(k)
      PROVE  TypeOK'
  <2>1. serving' \in [Conn -> Call \cup {None}] /\ DOMAIN down' = Conn /\ DOMAIN answer' = Call
    BY <1>2 DEF SendRpcResponse, TypeOK
  <2> QED
    BY <1>1, <1>2, <2>1 DEF SendRpcResponse, TypeOK, callVars
<1>3. CASE Crash
  <2>1. up' = [k \in Conn |-> <<>>] /\ crashes' = crashes + 1 /\ crashes < MaxCrash
    BY <1>3 DEF Crash
  <2>2. up' \in [Conn -> Seq([call : Call, rest : BOOLEAN])]
    BY <2>1, EmptySeq
  <2>3. crashes' \in 0 .. MaxCrash
    BY <2>1, ChannelAssumption, SMT DEF TypeOK
  <2>4. status' \in [Conn -> {"new", "open", "fin", "reset"}]
    BY <1>3 DEF Crash, TypeOK
  <2> QED
    BY <1>1, <1>3, <2>2, <2>3, <2>4 DEF Crash, TypeOK, callVars
<1>4. CASE Restart
  BY <1>1, <1>4 DEF Restart, TypeOK, callVars, netVars
<1> QED
  BY <1>2, <1>3, <1>4

-----------------------------------------------------------------------------
\* Calls

\* What a step of a thread does to the calls: it moves on, and does one thing more.
LEMMA CallsStay ==
  ASSUME TypeOK, CallsInStep, ConnsInStep, NEW c \in Call, CallMethod(c), UNCHANGED load
  PROVE  CallsInStep'
<1> DEFINE Held(d) ==
      /\ pc[d] # "idle" => d \in DOMAIN load.method
      /\ pc[d] \in {"idle", "connect", "send", "close", "redo"} => sentOn[d] = None
      /\ pc[d] \in {"recv", "wait"} => sentOn[d] # None
      /\ pc[d] = "wait" => recvOn[d] # None
      /\ pc[d] \notin {"wait", "done"} => recvOn[d] = None
      /\ recvOn[d] # None => sentOn[d] # None
      /\ reply[d].ok => pc[d] = "done" /\ recvOn[d] # None
      /\ recvOn[d] \notin {None, sentOn[d]} => m_clientFd # sentOn[d]
<1>1. /\ DOMAIN pc = Call /\ DOMAIN reply = Call /\ DOMAIN sentOn = Call /\ DOMAIN recvOn = Call
      /\ m_clientFd \in Conn \cup {None}
  BY DEF TypeOK
<1>2. \A d \in Call : Held(d)
  BY DEF CallsInStep
<1>3. load' = load
  OBVIOUS
<1>4. ~Failed.ok
  BY DEF Failed
<1> SUFFICES ASSUME NEW d \in Call PROVE Held(d)'
  BY DEF CallsInStep
<1>5. CASE Start(c)
  BY <1>1, <1>2, <1>3, <1>5 DEF Start, Step
<1>6. CASE NewConnect(c)
  <2>1. m_clientFd' # sentOn[d] \/ sentOn[d] = None
    <3>1. CASE m_clientFd' = None
      BY <3>1
    <3>2. CASE m_clientFd' # None
      <4>1. PICK k \in Conn : status[k] = "new" /\ m_clientFd' = k
        BY <1>6, <3>2 DEF NewConnect
      <4> QED
        BY <4>1 DEF ConnsInStep, Unused
    <3> QED
      BY <3>1, <3>2
  <2>2. \/ pc' = [pc EXCEPT ![c] = "done"] /\ reply' = [reply EXCEPT ![c] = Failed]
        \/ pc' = [pc EXCEPT ![c] = "send"] /\ reply' = reply
    BY <1>6 DEF NewConnect, Return, Step
  <2>3. pc[c] \in {"connect", "redo"} /\ UNCHANGED <<sentOn, recvOn>>
    BY <1>6 DEF NewConnect
  <2> QED
    BY <1>1, <1>2, <1>3, <1>4, <2>1, <2>2, <2>3
<1>7. CASE Send(c)
  BY <1>1, <1>2, <1>3, <1>7 DEF Send, Step
<1>8. CASE SendFails(c)
  BY <1>1, <1>2, <1>3, <1>8 DEF SendFails, Step
<1>9. CASE CloseSocket(c)
  BY <1>1, <1>2, <1>3, <1>9 DEF CloseSocket, Step
<1>10. CASE Recv(c)
  BY <1>1, <1>2, <1>3, <1>4, <1>10 DEF Recv, Step, Return
<1>11. ASSUME pc[c] = "wait", NEW r, Return(c, r), UNCHANGED <<sentOn, recvOn>>,
              m_clientFd' \in {m_clientFd, None}
       PROVE  Held(d)'
  BY <1>1, <1>2, <1>3, <1>11 DEF Return, Step
<1>12. CASE Take(c)
  <2>1. pc[c] = "wait" /\ UNCHANGED <<m_clientFd, sentOn, recvOn>> /\ \E r : Return(c, r)
    BY <1>12 DEF Take
  <2> QED
    BY <1>11, <2>1
<1>13. CASE TakeNothing(c)
  BY <1>11, <1>13 DEF TakeNothing
<1>14. CASE RecvFails(c)
  BY <1>11, <1>14 DEF RecvFails
<1> QED
  BY <1>5, <1>6, <1>7, <1>8, <1>9, <1>10, <1>12, <1>13, <1>14 DEF CallMethod

LEMMA CallsStayStill ==
  ASSUME CallsInStep, UNCHANGED <<load, callVars>>
  PROVE  CallsInStep'
BY DEF CallsInStep, callVars

-----------------------------------------------------------------------------
\* Requests

\* Only send() puts a request on its way.
LEMMA OthersSendNothing ==
  ASSUME NEW c \in Call, CallMethod(c), ~Send(c)
  PROVE  UNCHANGED <<sentOn, up, serving, seen, answer, alive>>
BY DEF CallMethod, Start, NewConnect, SendFails, CloseSocket, Recv, Take, TakeNothing, RecvFails,
       netVars, serverVars

LEMMA RequestsStayStill ==
  ASSUME RequestsAreOnce, UNCHANGED <<load, sentOn, up, serving, seen, answer>>
  PROVE  RequestsAreOnce'
<1>1. \A c : Method(c)' = Method(c)
  BY DEF Method
<1> QED
  BY <1>1 DEF RequestsAreOnce

LEMMA SendOnce ==
  ASSUME TypeOK, CallsInStep, RequestsAreOnce, NEW c \in Call, Send(c), UNCHANGED load
  PROVE  RequestsAreOnce'
<1> DEFINE k == m_clientFd
           new == [call |-> c, rest |-> FALSE]
<1>1. /\ k \in Conn /\ sentOn[c] = None /\ sentOn' = [sentOn EXCEPT ![c] = k]
      /\ up' = up \/ up' = [up EXCEPT ![k] = Append(up[k], new)]
      /\ UNCHANGED <<serving, seen, answer>>
  BY DEF Send, TypeOK, CallsInStep, serverVars
<1>2. sentOn'[c] = k /\ \A d \in Call \ {c} : sentOn'[d] = sentOn[d]
  BY <1>1 DEF TypeOK
<1>3. \A j \in Conn : /\ up[j] \in Seq([call : Call, rest : BOOLEAN])
                      /\ \A i \in DOMAIN up[j] : up[j][i].call \in Call \ {c}
  <2> SUFFICES ASSUME NEW j \in Conn
               PROVE  /\ up[j] \in Seq([call : Call, rest : BOOLEAN])
                      /\ \A i \in DOMAIN up[j] : up[j][i].call \in Call \ {c}
    OBVIOUS
  <2>1. up[j] \in Seq([call : Call, rest : BOOLEAN])
    BY DEF TypeOK
  <2>2. \A i \in DOMAIN up[j] : up[j][i] \in [call : Call, rest : BOOLEAN]
    BY <2>1, ElementOfSeq, LenProperties
  <2>3. \A i \in DOMAIN up[j] : sentOn[up[j][i].call] = j
    BY DEF RequestsAreOnce
  <2> QED
    BY <1>1, <2>1, <2>2, <2>3, ConnIsNotNone
<1>4. seen[c] = <<>>
  BY <1>1 DEF RequestsAreOnce
<1>5. \A j \in Conn : \A i \in DOMAIN up'[j] :
        \/ i \in DOMAIN up[j] /\ up'[j][i] = up[j][i]
        \/ j = k /\ i \notin DOMAIN up[j] /\ i = Len(up[j]) + 1 /\ up'[j][i] = new
  <2> SUFFICES ASSUME up' = [up EXCEPT ![k] = Append(up[k], new)]
               PROVE  \A i \in DOMAIN up'[k] :
                        \/ i \in DOMAIN up[k] /\ up'[k][i] = up[k][i]
                        \/ i \notin DOMAIN up[k] /\ i = Len(up[k]) + 1 /\ up'[k][i] = new
    BY <1>1 DEF TypeOK
  <2>0. new \in [call : Call, rest : BOOLEAN]
    OBVIOUS
  <2>1. up'[k] = Append(up[k], new) /\ up[k] \in Seq([call : Call, rest : BOOLEAN])
    BY <1>1 DEF TypeOK
  <2> HIDE DEF new, k
  <2>2. /\ DOMAIN up[k] = 1 .. Len(up[k]) /\ DOMAIN up'[k] = 1 .. Len(up[k]) + 1
        /\ Len(up[k]) \in Nat
        /\ \A i \in 1 .. Len(up[k]) : up'[k][i] = up[k][i]
        /\ up'[k][Len(up[k]) + 1] = new
    BY <2>0, <2>1, AppendProperties, LenProperties
  <2> QED
    BY <2>2, SMT
<1>6. new.call = c /\ ~new.rest
  OBVIOUS
<1> HIDE DEF new, k
<1>7. \A j \in Conn : \A i \in DOMAIN up'[j] :
        /\ sentOn'[up'[j][i].call] = j
        /\ \A l \in DOMAIN up'[j] : up'[j][i].call = up'[j][l].call => i = l
        /\ ~up'[j][i].rest => seen'[up'[j][i].call] = <<>>
  <2> SUFFICES ASSUME NEW j \in Conn, NEW i \in DOMAIN up'[j]
               PROVE  /\ sentOn'[up'[j][i].call] = j
                      /\ \A l \in DOMAIN up'[j] : up'[j][i].call = up'[j][l].call => i = l
                      /\ ~up'[j][i].rest => seen'[up'[j][i].call] = <<>>
    OBVIOUS
  <2>1. CASE i \in DOMAIN up[j] /\ up'[j][i] = up[j][i]
    <3>1. up[j][i].call \in Call \ {c}
      BY <1>3, <2>1
    <3> QED
      BY <1>1, <1>2, <1>3, <1>5, <1>6, <2>1, <3>1 DEF RequestsAreOnce
  <2>2. CASE j = k /\ i \notin DOMAIN up[j] /\ i = Len(up[j]) + 1 /\ up'[j][i] = new
    BY <1>1, <1>2, <1>3, <1>4, <1>5, <1>6, <2>2
  <2> QED
    BY <1>5, <2>1, <2>2
<1>8. \A j \in Conn : serving[j] # None => serving[j] \in Call \ {c} /\ sentOn'[serving[j]] = j
  BY <1>1, <1>2, ConnIsNotNone DEF RequestsAreOnce, TypeOK
<1>9. \A d \in Call : /\ seen[d] # <<>> => sentOn'[d] # None /\ seen[d] = <<seen[d][1]>>
                      /\ answer[d] # NoAnswer =>
                           seen[d] # <<>> /\ \E a \in Answers[Method(d)'] : answer[d] = <<a>>
  <2>1. \A d : Method(d)' = Method(d)
    BY DEF Method
  <2> QED
    BY <1>1, <1>2, <2>1, ConnIsNotNone DEF RequestsAreOnce
<1>10. \A j \in Conn : serving[j] # None => seen[serving[j]] # <<>> /\ answer[serving[j]] = NoAnswer
  BY DEF RequestsAreOnce
<1> QED
  BY <1>1, <1>7, <1>8, <1>9, <1>10 DEF RequestsAreOnce

\* OnMessage takes a request that has not been handled, and leaves others.
LEMMA OnMessageOnce ==
  ASSUME TypeOK, CallsInStep, RequestsAreOnce, HandledOnce, RequestsTravel,
         NEW k \in Conn, OnMessage(k), UNCHANGED load
  PROVE  RequestsAreOnce' /\ HandledOnce'
<1>1. PICK first, left, got, handled, whole, items :
        Handles(k, first, left, got, handled, whole, items)
  BY OnMessageEffect
<1>2. /\ whole \in Nat /\ items \in Nat /\ whole <= Len(up[k]) /\ up[k] # <<>>
      /\ first = up[k][1] /\ first \in [call : Call, rest : BOOLEAN]
      /\ serving[k] = None
      /\ left = SubSeq(up[k], whole + 1, Len(up[k]))
      /\ whole = 0 => items > 0
      /\ items > 0 => left # <<>>
      /\ handled = IF items > 0 THEN [left EXCEPT ![1].rest = TRUE] ELSE left
      /\ up' = [up EXCEPT ![k] = handled]
  BY <1>1, Zenon DEF Handles
<1>3. /\ first.rest => got = <<>>
      /\ AtMostOne(got)
      /\ ~first.rest /\ whole > 0 => got = <<Args(first.call)>>
      /\ serving' = IF got = <<>> THEN serving ELSE [serving EXCEPT ![k] = first.call]
      /\ seen' = [seen EXCEPT ![first.call] = @ \o got]
      /\ disturbed' = IF whole > 1 \/ items > 0 \/ first.rest THEN disturbed \cup {k} ELSE disturbed
  BY <1>1, Zenon DEF Handles
<1>4. UNCHANGED <<sentOn, answer>> /\ \A d : Method(d)' = Method(d) /\ Args(d)' = Args(d)
  BY DEF OnMessage, callVars, Method, Args
<1>5. up[k] \in Seq([call : Call, rest : BOOLEAN])
  BY DEF TypeOK
<1>6. /\ Len(up[k]) \in Nat /\ DOMAIN up[k] = 1 .. Len(up[k]) /\ 1 \in DOMAIN up[k]
      /\ whole \in 0 .. Len(up[k])
  BY <1>2, <1>5, EmptySeq, LenProperties, SMT
<1>7. /\ left \in Seq([call : Call, rest : BOOLEAN]) /\ Len(left) = Len(up[k]) - whole
      /\ \A i \in 1 .. Len(up[k]) - whole : left[i] = up[k][whole + i] /\ whole + i \in DOMAIN up[k]
  <2>1. LET rest == SubSeq(up[k], whole + 1, Len(up[k]))
        IN  /\ rest \in Seq([call : Call, rest : BOOLEAN]) /\ Len(rest) = Len(up[k]) - whole
            /\ \A i \in 1 .. Len(up[k]) - whole :
                 rest[i] = up[k][whole + i] /\ whole + i \in 1 .. Len(up[k])
    BY <1>5, <1>6, LeftOver
  <2> QED
    BY <1>2, <1>6, <2>1
<1>8. handled \in Seq([call : Call, rest : BOOLEAN]) /\ Len(handled) = Len(left)
  BY <1>2, <1>7, CutFirst
<1>9. \A i \in DOMAIN handled :
        /\ i \in 1 .. Len(up[k]) - whole /\ whole + i \in DOMAIN up[k]
        /\ handled[i].call = up[k][whole + i].call
        /\ handled[i] = up[k][whole + i] \/ handled[i].rest
        /\ whole + i = 1 => handled[i].rest
  <2> SUFFICES ASSUME NEW i \in DOMAIN handled
               PROVE  /\ i \in 1 .. Len(up[k]) - whole /\ whole + i \in DOMAIN up[k]
                      /\ handled[i].call = up[k][whole + i].call
                      /\ handled[i] = up[k][whole + i] \/ handled[i].rest
                      /\ whole + i = 1 => handled[i].rest
    OBVIOUS
  <2>1. i \in 1 .. Len(up[k]) - whole /\ i \in 1 .. Len(left)
    BY <1>7, <1>8, LenProperties
  <2>2. left[i] = up[k][whole + i] /\ whole + i \in DOMAIN up[k]
    BY <1>7, <2>1
  <2>3. CASE items > 0
    <3>1. handled[1].rest /\ handled[i].call = left[i].call /\ (i # 1 => handled[i] = left[i])
      BY <1>2, <1>7, <2>1, <2>3, CutFirst
    <3>2. whole + i = 1 => i = 1
      BY <1>6, <2>1, SMT
    <3> QED
      BY <2>1, <2>2, <3>1, <3>2
  <2>4. CASE ~(items > 0)
    <3>1. handled = left /\ whole # 0
      BY <1>2, <2>4
    <3>2. whole + i # 1
      BY <1>6, <2>1, <3>1, SMT
    <3> QED
      BY <2>1, <2>2, <3>1, <3>2
  <2> QED
    BY <2>3, <2>4
<1>10. \A j \in Conn : /\ DOMAIN up[j] = 1 .. Len(up[j])
                       /\ \A i \in DOMAIN up[j] : up[j][i].call \in Call /\ sentOn[up[j][i].call] = j
  <2> SUFFICES ASSUME NEW j \in Conn
               PROVE  /\ DOMAIN up[j] = 1 .. Len(up[j])
                      /\ \A i \in DOMAIN up[j] : up[j][i].call \in Call
    BY DEF RequestsAreOnce
  <2>1. up[j] \in Seq([call : Call, rest : BOOLEAN])
    BY DEF TypeOK
  <2>2. DOMAIN up[j] = 1 .. Len(up[j])
    BY <2>1, LenProperties
  <2>3. \A i \in DOMAIN up[j] : up[j][i] \in [call : Call, rest : BOOLEAN]
    BY <2>1, <2>2, ElementOfSeq
  <2> QED
    BY <2>2, <2>3
<1>11. /\ first.call \in Call /\ sentOn[first.call] = k
       /\ \A j \in Conn : \A i \in DOMAIN up[j] : up[j][i].call = first.call => j = k /\ i = 1
       /\ ~first.rest => seen[first.call] = <<>> /\ answer[first.call] = NoAnswer
  <2>1. first.call \in Call /\ sentOn[first.call] = k
    BY <1>2, <1>6, <1>10
  <2>2. \A j \in Conn : \A i \in DOMAIN up[j] : up[j][i].call = first.call => j = k
    BY <1>10, <2>1
  <2>3. \A i \in DOMAIN up[k] : up[k][i].call = first.call => i = 1
    BY <1>2, <1>6 DEF RequestsAreOnce
  <2>4. ~first.rest => seen[first.call] = <<>>
    BY <1>2, <1>6 DEF RequestsAreOnce
  <2>5. ~first.rest => answer[first.call] = NoAnswer
    BY <2>1, <2>4 DEF RequestsAreOnce
  <2> QED
    BY <2>1, <2>2, <2>3, <2>4, <2>5
\* What is seen: nothing new, or the first request for the first time.
<1>12. /\ \A d \in Call \ {first.call} : seen'[d] = seen[d]
       /\ got = <<>> => seen'[first.call] = seen[first.call]
       /\ got # <<>> => ~first.rest /\ seen'[first.call] = got /\ Len(got) = 1
  <2>1. \A d \in Call \ {first.call} : seen'[d] = seen[d]
    BY <1>3 DEF TypeOK
  <2>2. seen'[first.call] = seen[first.call] \o got
    BY <1>3, <1>11 DEF TypeOK
  <2>3. CASE got # <<>>
    <3>1. PICK a : got = <<a>>
      BY <1>3, <2>3 DEF AtMostOne
    <3>2. ~first.rest
      BY <1>3, <2>3
    <3>3. got \in Seq({a}) /\ Len(got) = 1 /\ got = <<got[1]>>
      BY <3>1
    <3>4. seen'[first.call] = got
      BY <1>11, <2>2, <3>2, <3>3, ConcatEmptySeq
    <3> QED
      BY <2>1, <2>3, <3>2, <3>3, <3>4
  <2>4. CASE got = <<>>
    <3>1. \E a : seen[first.call] \in Seq({a})
      <4>1. CASE seen[first.call] = <<>>
        BY <4>1, EmptySeq
      <4>2. CASE seen[first.call] # <<>>
        <5>1. PICK a : seen[first.call] = <<a>>
          BY <1>11, <4>2 DEF RequestsAreOnce
        <5>2. <<a>> \in Seq({a})
          OBVIOUS
        <5> QED
          BY <5>1, <5>2
      <4> QED
        BY <4>1, <4>2
    <3> QED
      BY <2>1, <2>2, <2>4, <3>1, ConcatEmptySeq
  <2> QED
    BY <2>3, <2>4
<1>13. \A j \in Conn : \A i \in DOMAIN up'[j] :
        /\ sentOn'[up'[j][i].call] = j
        /\ \A l \in DOMAIN up'[j] : up'[j][i].call = up'[j][l].call => i = l
        /\ ~up'[j][i].rest => seen'[up'[j][i].call] = <<>>
  <2>1. ASSUME NEW j \in Conn, j # k, NEW i \in DOMAIN up'[j]
        PROVE  /\ sentOn'[up'[j][i].call] = j
               /\ \A l \in DOMAIN up'[j] : up'[j][i].call = up'[j][l].call => i = l
               /\ ~up'[j][i].rest => seen'[up'[j][i].call] = <<>>
    <3>1. up'[j] = up[j]
      BY <1>2, <2>1 DEF TypeOK
    <3>2. up[j][i].call \in Call \ {first.call}
      BY <1>10, <1>11, <2>1, <3>1
    <3> QED
      BY <1>4, <1>12, <2>1, <3>1, <3>2 DEF RequestsAreOnce
  <2>2. ASSUME NEW i \in DOMAIN up'[k]
        PROVE  /\ sentOn'[up'[k][i].call] = k
               /\ \A l \in DOMAIN up'[k] : up'[k][i].call = up'[k][l].call => i = l
               /\ ~up'[k][i].rest => seen'[up'[k][i].call] = <<>>
    <3>1. up'[k] = handled
      BY <1>2 DEF TypeOK
    <3>2. sentOn'[up'[k][i].call] = k
      BY <1>4, <1>9, <1>10, <2>2, <3>1
    <3>3. \A l \in DOMAIN up'[k] : up'[k][i].call = up'[k][l].call => i = l
      <4> SUFFICES ASSUME NEW l \in DOMAIN handled, handled[i].call = handled[l].call PROVE i = l
        BY <3>1
      <4>1. /\ i \in 1 .. Len(up[k]) - whole /\ whole + i \in DOMAIN up[k]
            /\ handled[i].call = up[k][whole + i].call
        BY <1>9, <2>2, <3>1
      <4>2. /\ l \in 1 .. Len(up[k]) - whole /\ whole + l \in DOMAIN up[k]
            /\ handled[l].call = up[k][whole + l].call
        BY <1>9
      <4>3. PICK m, n : m = whole + i /\ n = whole + l
        OBVIOUS
      <4>4. m \in DOMAIN up[k] /\ n \in DOMAIN up[k] /\ up[k][m].call = up[k][n].call
        BY <4>1, <4>2, <4>3
      <4>5. m = n
        BY <4>4 DEF RequestsAreOnce
      <4> QED
        BY <1>6, <4>1, <4>2, <4>3, <4>5, SMT
    <3>4. ~up'[k][i].rest => seen'[up'[k][i].call] = <<>>
      <4> SUFFICES ASSUME ~handled[i].rest PROVE seen'[handled[i].call] = <<>>
        BY <3>1
      <4>1. /\ whole + i \in DOMAIN up[k] /\ whole + i # 1
            /\ handled[i] = up[k][whole + i]
        BY <1>9, <2>2, <3>1
      <4>2. handled[i].call # first.call /\ handled[i].call \in Call
        BY <1>10, <1>11, <4>1
      <4>3. seen[handled[i].call] = <<>>
        BY <4>1 DEF RequestsAreOnce
      <4> QED
        BY <1>12, <4>2, <4>3
    <3> QED
      BY <3>2, <3>3, <3>4
  <2> QED
    BY <2>1, <2>2
<1>14. \A j \in Conn : serving'[j] # None =>
         /\ sentOn'[serving'[j]] = j
         /\ seen'[serving'[j]] # <<>> /\ answer'[serving'[j]] = NoAnswer
  <2> SUFFICES ASSUME NEW j \in Conn, serving'[j] # None
               PROVE  /\ sentOn[serving'[j]] = j
                      /\ seen'[serving'[j]] # <<>> /\ answer[serving'[j]] = NoAnswer
    BY <1>4
  <2>1. CASE got # <<>> /\ j = k
    BY <1>3, <1>11, <1>12, <2>1 DEF TypeOK
  <2>2. CASE ~(got # <<>> /\ j = k)
    <3>1. serving'[j] = serving[j] /\ j # k
      BY <1>2, <1>3, <2>2 DEF TypeOK
    <3>2. sentOn[serving[j]] = j /\ seen[serving[j]] # <<>> /\ answer[serving[j]] = NoAnswer
          /\ serving[j] \in Call
      BY <3>1 DEF RequestsAreOnce, TypeOK
    <3> QED
      BY <1>11, <1>12, <3>1, <3>2
  <2> QED
    BY <2>1, <2>2
<1>15. \A d \in Call :
         /\ seen'[d] # <<>> => sentOn'[d] # None /\ seen'[d] = <<seen'[d][1]>>
         /\ answer'[d] # NoAnswer =>
              seen'[d] # <<>> /\ \E a \in Answers[Method(d)'] : answer'[d] = <<a>>
  <2>1. got # <<>> => got = <<got[1]>>
    BY <1>3 DEF AtMostOne
  <2>2. \A d \in Call : seen'[d] = seen[d] \/ (d = first.call /\ seen'[d] = got /\ got # <<>>)
    BY <1>12
  <2> QED
    BY <1>4, <1>11, <2>1, <2>2, ConnIsNotNone DEF RequestsAreOnce
<1>16. HandledOnce'
  <2> SUFFICES ASSUME NEW d \in Call
               PROVE  /\ Len(seen'[d]) <= 1
                      /\ seen'[d] # <<>> /\ sentOn'[d] \notin disturbed' => seen'[d] = <<load.args[d]>>
    BY DEF HandledOnce, Args
  <2>1. CASE seen'[d] = seen[d]
    <3>1. disturbed \subseteq disturbed'
      BY <1>3
    <3> QED
      BY <1>4, <2>1, <3>1 DEF HandledOnce, Args
  <2>2. CASE seen'[d] # seen[d]
    <3>1. d = first.call /\ seen'[d] = got /\ Len(got) = 1 /\ ~first.rest
      BY <1>12, <2>2
    <3>2. CASE items > 0
      BY <1>3, <1>4, <1>11, <3>1, <3>2
    <3>3. CASE ~(items > 0)
      <4>1. whole > 0
        BY <1>2, <3>3, SMT
      <4>2. got = <<load.args[d]>>
        BY <1>3, <3>1, <4>1 DEF Args
      <4> QED
        BY <3>1, <4>2, SMT
    <3> QED
      BY <3>2, <3>3
  <2> QED
    BY <2>1, <2>2
<1> QED
  BY <1>13, <1>14, <1>15, <1>16 DEF RequestsAreOnce

LEMMA SendRpcResponseOnce ==
  ASSUME TypeOK, CallsInStep, RequestsAreOnce, NEW k \in Conn, SendRpcResponse(k), UNCHANGED load
  PROVE  RequestsAreOnce'
<1> DEFINE c == serving[k]
<1>1. /\ c \in Call /\ sentOn[c] = k /\ seen[c] # <<>>
      /\ \A j \in Conn \ {k} : serving[j] # c
  BY DEF SendRpcResponse, TypeOK, RequestsAreOnce
<1>2. /\ \E a \in Answers[Method(c)] : answer' = [answer EXCEPT ![c] = <<a>>]
      /\ serving' = [serving EXCEPT ![k] = None]
      /\ UNCHANGED <<sentOn, up, seen>>
  BY DEF SendRpcResponse, callVars
<1>3. \A d : Method(d)' = Method(d)
  BY DEF Method
<1> HIDE DEF c
<1>4. \A d \in Call \ {c} : answer'[d] = answer[d]
  BY <1>1, <1>2 DEF TypeOK
<1>5. \E a \in Answers[Method(c)] : answer'[c] = <<a>>
  BY <1>1, <1>2 DEF TypeOK
<1>6. \A j \in Conn : serving'[j] # None =>
         serving'[j] = serving[j] /\ serving[j] \in Call \ {c}
  BY <1>1, <1>2 DEF TypeOK
<1>7. \A d \in Call : answer'[d] # NoAnswer =>
         seen[d] # <<>> /\ \E a \in Answers[Method(d)] : answer'[d] = <<a>>
  BY <1>1, <1>4, <1>5 DEF RequestsAreOnce
<1> QED
  BY <1>2, <1>3, <1>4, <1>6, <1>7 DEF RequestsAreOnce

LEMMA CrashOnce ==
  ASSUME RequestsAreOnce, Crash, UNCHANGED load
  PROVE  RequestsAreOnce'
<1>1. /\ UNCHANGED <<sentOn, seen, answer>>
      /\ \A k \in Conn : up'[k] = <<>> /\ serving'[k] = None
      /\ \A c : Method(c)' = Method(c)
  BY DEF Crash, callVars, Method
<1> QED
  BY <1>1 DEF RequestsAreOnce

LEMMA HandledOnceStays ==
  ASSUME TypeOK, CallsInStep, RequestsAreOnce, HandledOnce, NEW c \in Call,
         CallMethod(c), UNCHANGED load
  PROVE  HandledOnce'
<1>1. seen' = seen /\ disturbed \subseteq disturbed'
  BY DEF CallMethod, Start, NewConnect, Send, SendFails, CloseSocket, Recv, Take, TakeNothing,
         RecvFails, serverVars, Overlap
<1>2. \A d \in Call : seen[d] # <<>> => sentOn'[d] = sentOn[d]
  <2>1. CASE Send(c)
    <3>1. sentOn[c] = None /\ sentOn' = [sentOn EXCEPT ![c] = m_clientFd]
      BY <2>1 DEF Send, CallsInStep
    <3>2. seen[c] = <<>>
      BY <3>1 DEF RequestsAreOnce
    <3> QED
      BY <3>1, <3>2 DEF TypeOK
  <2> QED
    BY <2>1, OthersSendNothing
<1> QED
  BY <1>1, <1>2 DEF HandledOnce, Args

-----------------------------------------------------------------------------
\* Connections

\* What a step of a thread does to a connection, and to the channel.
LEMMA ThreadConns ==
  ASSUME TypeOK, CallsInStep, ConnsInStep, NEW c \in Call, CallMethod(c), UNCHANGED load
  PROVE  ConnsInStep'
<1>1. /\ m_clientFd \in Conn \cup {None} /\ DOMAIN status = Conn /\ DOMAIN up = Conn
      /\ DOMAIN down = Conn /\ DOMAIN sentOn = Call /\ DOMAIN recvOn = Call
  BY DEF TypeOK
<1>2. m_clientFd # None => status[m_clientFd] # "new"
  BY <1>1 DEF ConnsInStep, Unused
<1>3. UNCHANGED serving
  BY DEF CallMethod, Start, NewConnect, Send, SendFails, CloseSocket, Recv, Take, TakeNothing,
         RecvFails, serverVars
<1>4. ASSUME NEW k \in Conn, up'[k] = up[k], status'[k] = status[k], down'[k] = down[k],
             status[k] = "new" => /\ m_clientFd' # k
                                  /\ \A d \in Call : k \notin {sentOn'[d], recvOn'[d]}
      PROVE  /\ status'[k] = "new" => Unused(k)'
             /\ status'[k] # "open" => up'[k] = <<>> /\ serving'[k] = None
  BY <1>3, <1>4 DEF ConnsInStep, Unused
<1>5. \A k \in Conn : status[k] = "new" => Unused(k)
  BY DEF ConnsInStep
<1> SUFFICES ASSUME NEW k \in Conn
             PROVE  /\ status'[k] = "new" => Unused(k)'
                    /\ status'[k] # "open" => up'[k] = <<>> /\ serving'[k] = None
  BY DEF ConnsInStep
<1>6. status[k] = "new" => /\ m_clientFd # k /\ up[k] = <<>> /\ down[k] = <<>>
                           /\ \A d \in Call : k \notin {sentOn[d], recvOn[d]}
  BY <1>5 DEF Unused
<1>7. k # None
  BY ConnIsNotNone
<1>8. CASE Start(c)
  BY <1>4, <1>6, <1>8 DEF Start, netVars
<1>9. CASE NewConnect(c)
  <2>1. UNCHANGED <<sentOn, recvOn, up, down>>
    BY <1>9 DEF NewConnect
  <2>2. CASE m_clientFd' = None /\ UNCHANGED status
    BY <1>4, <1>6, <1>7, <2>1, <2>2
  <2>3. CASE \E j \in Conn : status' = [status EXCEPT ![j] = "open"] /\ m_clientFd' = j
    <3>1. PICK j \in Conn : status' = [status EXCEPT ![j] = "open"] /\ m_clientFd' = j
      BY <2>3
    <3>2. CASE j = k
      BY <1>1, <3>1, <3>2
    <3>3. CASE j # k
      BY <1>1, <1>4, <1>6, <2>1, <3>1, <3>3
    <3> QED
      BY <3>2, <3>3
  <2> QED
    BY <1>9, <2>2, <2>3 DEF NewConnect
<1>10. CASE Send(c)
  <2>1. /\ m_clientFd \in Conn /\ UNCHANGED <<m_clientFd, recvOn, down>>
        /\ sentOn' = [sentOn EXCEPT ![c] = m_clientFd]
    BY <1>1, <1>10 DEF Send
  <2>2. \/ status[m_clientFd] = "open" /\ UNCHANGED status
           /\ up' = [up EXCEPT ![m_clientFd] = Append(@, [call |-> c, rest |-> FALSE])]
        \/ status[m_clientFd] # "open" /\ UNCHANGED up
           /\ status' = [status EXCEPT ![m_clientFd] = "reset"]
    BY <1>10 DEF Send
  <2>3. CASE k # m_clientFd
    BY <1>1, <1>4, <1>6, <2>1, <2>2, <2>3
  <2>4. CASE k = m_clientFd /\ status[k] = "open"
    BY <2>2, <2>4
  <2>5. CASE k = m_clientFd /\ status[k] # "open"
    <3>1. status'[k] = "reset" /\ up'[k] = <<>> /\ serving[k] = None
      BY <1>1, <2>2, <2>5 DEF ConnsInStep
    <3> QED
      BY <1>3, <3>1
  <2> QED
    BY <2>3, <2>4, <2>5
<1>11. CASE SendFails(c)
  BY <1>4, <1>6, <1>11 DEF SendFails, netVars
<1>12. CASE CloseSocket(c)
  BY <1>4, <1>6, <1>7, <1>12 DEF CloseSocket, netVars
<1>13. CASE Recv(c)
  <2>1. recvOn' = recvOn \/ recvOn' = [recvOn EXCEPT ![c] = m_clientFd]
    BY <1>13 DEF Recv
  <2>2. UNCHANGED <<m_clientFd, sentOn, netVars>>
    BY <1>13 DEF Recv
  <2> QED
    BY <1>1, <1>4, <1>6, <2>1, <2>2 DEF netVars
<1>14. CASE Take(c)
  <2>1. recvOn[c] \in Conn /\ UNCHANGED <<m_clientFd, sentOn, recvOn, status, up>>
    BY <1>14 DEF Take, CallsInStep, TypeOK
  <2>2. \A j \in Conn : j # recvOn[c] => down'[j] = down[j]
    BY <1>1, <1>14 DEF Take
  <2>3. CASE k # recvOn[c]
    BY <1>4, <1>6, <2>1, <2>2, <2>3
  <2>4. CASE k = recvOn[c]
    <3>1. status[k] # "new"
      BY <1>6, <2>4
    <3> QED
      BY <1>3, <2>1, <3>1 DEF ConnsInStep
  <2> QED
    BY <2>3, <2>4
<1>15. CASE TakeNothing(c)
  BY <1>4, <1>6, <1>15 DEF TakeNothing, netVars
<1>16. CASE RecvFails(c)
  BY <1>4, <1>6, <1>7, <1>16 DEF RecvFails, netVars
<1> QED
  BY <1>8, <1>9, <1>10, <1>11, <1>12, <1>13, <1>14, <1>15, <1>16 DEF CallMethod

LEMMA ServerConns ==
  ASSUME TypeOK, ConnsInStep, UNCHANGED load,
         (\E k \in Conn : OnMessage(k) \/ SendRpcResponse(k)) \/ Crash \/ Restart
  PROVE  ConnsInStep'
<1>1. UNCHANGED <<m_clientFd, sentOn, recvOn>>
  BY DEF OnMessage, SendRpcResponse, Crash, Restart, callVars
<1>2. ASSUME NEW k \in Conn, OnMessage(k) \/ SendRpcResponse(k)
      PROVE  ConnsInStep'
  <2>1. status[k] = "open" /\ UNCHANGED status
    BY <1>2 DEF OnMessage, SendRpcResponse, ConnsInStep
  <2>2. \A j \in Conn \ {k} : up'[j] = up[j] /\ down'[j] = down[j] /\ serving'[j] = serving[j]
    BY <1>2 DEF OnMessage, SendRpcResponse, TypeOK
  <2> QED
    BY <1>1, <2>1, <2>2 DEF ConnsInStep, Unused
<1>3. CASE Crash
  BY <1>1, <1>3 DEF Crash, ConnsInStep, Unused
<1>4. CASE Restart
  BY <1>1, <1>4 DEF Restart, netVars, ConnsInStep, Unused
<1> QED
  BY <1>2, <1>3, <1>4

-----------------------------------------------------------------------------
\* Whose a connection is

LEMMA BelongsStays ==
  ASSUME NEW k \in Conn, NEW c \in Call, Belongs(k, c),
         up'[k] = up[k], serving'[k] = serving[k], down'[k] = down[k], answer'[c] = answer[c],
         load' = load, sentOn'[c] = sentOn[c], Pending(k)' \subseteq {c},
         Pending(k)' = {} => m_clientFd' # k
  PROVE  Belongs(k, c)'
<1>1. Method(c)' = Method(c)
  BY DEF Method
<1>2. Carries(k, c)'
  BY <1>1 DEF Belongs, Carries
<1> QED
  BY <1>2 DEF Belongs

LEMMA IdleStays ==
  ASSUME NEW k \in Conn, Idle(k),
         up'[k] = up[k], serving'[k] = serving[k], down'[k] = down[k],
         Pending(k)' \subseteq Pending(k) \/ \E c \in Call : Pending(k)' \subseteq {c}
  PROVE  Idle(k)'
BY DEF Idle, Quiet

\* A thread changes who is pending by itself only.
LEMMA PendingMoves ==
  ASSUME TypeOK, NEW c \in Call, CallMethod(c), NEW k \in Conn
  PROVE  /\ Pending(k)' \ {c} = Pending(k) \ {c}
         /\ c \in Pending(k)' <=> pc'[c] \in {"recv", "wait"} /\ k \in {sentOn'[c], recvOn'[c]}
<1>1. \A d \in Call \ {c} : pc'[d] = pc[d] /\ sentOn'[d] = sentOn[d] /\ recvOn'[d] = recvOn[d]
  BY DEF CallMethod, Start, NewConnect, Send, SendFails, CloseSocket, Recv, Take, TakeNothing,
         RecvFails, Step, Return, TypeOK
<1> QED
  BY <1>1 DEF Pending

\* A call leaves a connection that still belongs to it only when the channel has
\* left that connection, too.
LEMMA Leaves ==
  ASSUME TypeOK, CallsInStep, NEW c \in Call, CallMethod(c), pc[c] = "wait", pc'[c] = "done",
         NEW k \in Conn, k # recvOn[c], Idle(k) \/ \E d \in Call : Belongs(k, d),
         up'[k] = up[k], serving'[k] = serving[k], down'[k] = down[k], answer' = answer,
         load' = load, sentOn' = sentOn, m_clientFd' \in {m_clientFd, None}
  PROVE  Idle(k)' \/ \E d \in Call : Belongs(k, d)'
<1>1. Pending(k)' = Pending(k) \ {c}
  <2>1. c \notin Pending(k)'
    BY PendingMoves
  <2> QED
    BY <2>1, PendingMoves
<1>2. CASE Idle(k)
  BY <1>1, <1>2, IdleStays
<1>3. ASSUME NEW d \in Call, Belongs(k, d)
      PROVE  Belongs(k, d)'
  <2>1. Pending(k) \subseteq {d} /\ (Pending(k) = {} => m_clientFd # k)
    BY <1>3 DEF Belongs
  <2>2. Pending(k)' = {} => m_clientFd' # k
    <3> SUFFICES ASSUME Pending(k) \ {c} = {}, Pending(k) # {} PROVE m_clientFd # k
      BY <1>1, <2>1, ConnIsNotNone
    <3>1. c \in Pending(k)
      OBVIOUS
    <3>2. sentOn[c] = k
      BY <3>1 DEF Pending
    <3>3. recvOn[c] \notin {None, sentOn[c]}
      BY <3>2 DEF CallsInStep
    <3> QED
      BY <3>2, <3>3 DEF CallsInStep
  <2> QED
    BY <1>1, <1>3, <2>1, <2>2, BelongsStays
<1> QED
  BY <1>2, <1>3

\* Who takes something takes its own answer.
LEMMA TakesItsOwn ==
  ASSUME TypeOK, CallsInStep, ConnsBelong, NEW c \in Call, pc[c] = "wait",
         recvOn[c] \notin disturbed, down[recvOn[c]] # <<>>
  PROVE  /\ recvOn[c] \in Conn /\ Pending(recvOn[c]) = {c}
         /\ up[recvOn[c]] = <<>> /\ serving[recvOn[c]] = None /\ answer[c] # NoAnswer
         /\ down[recvOn[c]] = Serialize(ResponseType[Method(c)], answer[c][1])
<1> DEFINE k == recvOn[c]
<1>1. k \in Conn
  BY DEF CallsInStep, TypeOK
<1>2. c \in Pending(k)
  BY DEF Pending
<1>3. PICK d \in Call : Belongs(k, d)
  BY <1>1 DEF ConnsBelong, Idle, Quiet
<1>4. d = c /\ Pending(k) = {c}
  BY <1>2, <1>3 DEF Belongs
<1> QED
  BY <1>1, <1>3, <1>4 DEF Belongs, Carries

LEMMA ThreadBelongs ==
  ASSUME TypeOK, CallsInStep, RequestsAreOnce, ConnsInStep, ConnsBelong,
         NEW c \in Call, CallMethod(c), UNCHANGED load
  PROVE  ConnsBelong'
<1>1. /\ m_clientFd \in Conn \cup {None} /\ DOMAIN status = Conn /\ DOMAIN up = Conn
      /\ DOMAIN down = Conn /\ DOMAIN sentOn = Call /\ DOMAIN recvOn = Call /\ DOMAIN pc = Call
  BY DEF TypeOK
<1>2. UNCHANGED <<serving, answer, load>> /\ disturbed \subseteq disturbed'
  BY DEF CallMethod, Start, NewConnect, Send, SendFails, CloseSocket, Recv, Take, TakeNothing,
         RecvFails, serverVars, Overlap
<1> SUFFICES ASSUME NEW k \in Conn, k \notin disturbed'
             PROVE  Idle(k)' \/ \E d \in Call : Belongs(k, d)'
  BY DEF ConnsBelong
<1>3. Idle(k) \/ \E d \in Call : Belongs(k, d)
  BY <1>2 DEF ConnsBelong
<1>4. k # None
  BY ConnIsNotNone
<1>5. \A d \in Call : Belongs(k, d) =>
        sentOn[d] = k /\ Pending(k) \subseteq {d} /\ (Pending(k) = {} => m_clientFd # k)
  BY DEF Belongs
\* Steps that touch neither the connection nor who is pending.
<1>6. ASSUME UNCHANGED <<sentOn, up, down>>, Pending(k)' = Pending(k),
             \A d \in Call : sentOn[d] = k => m_clientFd' \in {m_clientFd, None} \/ m_clientFd' # k
      PROVE  Idle(k)' \/ \E d \in Call : Belongs(k, d)'
  <2>1. CASE Idle(k)
    BY <1>2, <1>6, <2>1, IdleStays
  <2>2. ASSUME NEW d \in Call, Belongs(k, d) PROVE Belongs(k, d)'
    BY <1>2, <1>4, <1>5, <1>6, <2>2, BelongsStays
  <2> QED
    BY <1>3, <2>1, <2>2
<1>7. CASE Start(c)
  <2>1. pc[c] = "idle" /\ pc'[c] \in {"connect", "send"} /\ UNCHANGED <<m_clientFd, sentOn, up, down>>
    BY <1>1, <1>7 DEF Start, Step, netVars
  <2>2. Pending(k)' = Pending(k)
    BY <2>1, PendingMoves DEF Pending
  <2> QED
    BY <1>6, <2>1, <2>2
<1>8. CASE NewConnect(c)
  <2>1. pc[c] \in {"connect", "redo"} /\ pc'[c] \in {"done", "send"} /\ UNCHANGED <<sentOn, up, down>>
    BY <1>1, <1>8 DEF NewConnect, Step, Return
  <2>2. Pending(k)' = Pending(k)
    BY <2>1, PendingMoves DEF Pending
  <2>3. m_clientFd' = None \/ \A d \in Call : sentOn[d] # m_clientFd'
    BY <1>8 DEF NewConnect, ConnsInStep, Unused
  <2> QED
    BY <1>6, <2>1, <2>2, <2>3
<1>9. CASE SendFails(c)
  <2>1. pc[c] = "send" /\ pc'[c] = "close" /\ UNCHANGED <<m_clientFd, sentOn, up, down>>
    BY <1>1, <1>9 DEF SendFails, Step, netVars
  <2>2. Pending(k)' = Pending(k)
    BY <2>1, PendingMoves DEF Pending
  <2> QED
    BY <1>6, <2>1, <2>2
<1>10. CASE CloseSocket(c)
  <2>1. /\ pc[c] = "close" /\ pc'[c] = "redo" /\ m_clientFd' = None
        /\ UNCHANGED <<sentOn, up, down>>
    BY <1>1, <1>10 DEF CloseSocket, Step, netVars
  <2>2. Pending(k)' = Pending(k)
    BY <2>1, PendingMoves DEF Pending
  <2> QED
    BY <1>6, <2>1, <2>2
<1>11. CASE Send(c)
  <2>1. /\ m_clientFd \in Conn /\ pc[c] = "send" /\ pc'[c] = "recv"
        /\ sentOn[c] = None /\ recvOn[c] = None
        /\ sentOn' = [sentOn EXCEPT ![c] = m_clientFd] /\ UNCHANGED <<m_clientFd, recvOn, down>>
    BY <1>1, <1>11 DEF Send, Step, CallsInStep
  <2>2. CASE k # m_clientFd
    <3>1. c \notin Pending(k) /\ c \notin Pending(k)'
      <4>1. c \notin Pending(k)
        BY <2>1 DEF Pending
      <4>2. sentOn'[c] = m_clientFd /\ recvOn'[c] = None
        BY <1>1, <2>1
      <4> QED
        BY <1>4, <2>2, <4>1, <4>2, PendingMoves
    <3>2. Pending(k)' = Pending(k)
      BY <3>1, PendingMoves
    <3>3. up'[k] = up[k]
      BY <1>1, <1>11, <2>2 DEF Send
    <3>4. CASE Idle(k)
      BY <1>2, <2>1, <3>2, <3>3, <3>4, IdleStays
    <3>5. ASSUME NEW d \in Call, Belongs(k, d) PROVE Belongs(k, d)'
      <4>1. d # c
        BY <1>4, <1>5, <2>1, <3>5
      <4>2. sentOn'[d] = sentOn[d]
        BY <1>1, <2>1, <4>1
      <4> QED
        BY <1>2, <1>5, <2>1, <3>2, <3>3, <3>5, <4>2, BelongsStays
    <3> QED
      BY <1>3, <3>4, <3>5
  <2>3. CASE k = m_clientFd
    <3>1. Pending(k) = {}
      BY <1>11, <2>3 DEF Send, Overlap
    <3>2. Quiet(k)
      BY <1>3, <1>5, <2>3, <3>1 DEF Idle
    <3>3. sentOn'[c] = k /\ Pending(k)' = {c}
      <4>1. sentOn'[c] = k
        BY <1>1, <2>1, <2>3
      <4>2. c \in Pending(k)'
        BY <2>1, <4>1, PendingMoves
      <4> QED
        BY <3>1, <4>1, <4>2, PendingMoves
    <3>4. CASE status[k] = "open"
      <4>1. up'[k] = <<[call |-> c, rest |-> FALSE]>>
        <5>1. up'[k] = Append(<<>>, [call |-> c, rest |-> FALSE])
          BY <1>1, <1>11, <2>3, <3>2, <3>4 DEF Send, Quiet
        <5> QED
          BY <5>1
      <4>2. Carries(k, c)'
        BY <1>2, <2>1, <3>2, <4>1 DEF Carries, Quiet
      <4> QED
        BY <3>3, <4>2 DEF Belongs
    <3>5. CASE status[k] # "open"
      <4>1. up'[k] = up[k]
        BY <1>11, <2>3, <3>5 DEF Send
      <4> QED
        BY <1>2, <2>1, <3>2, <3>3, <4>1 DEF Idle, Quiet
    <3> QED
      BY <3>4, <3>5
  <2> QED
    BY <2>2, <2>3
<1>12. CASE Recv(c)
  <2>1. /\ pc[c] = "recv" /\ recvOn[c] = None /\ UNCHANGED <<m_clientFd, sentOn, up, down>>
    BY <1>12 DEF Recv, netVars, CallsInStep
  <2>2. CASE m_clientFd = None
    <3>1. pc'[c] = "done"
      BY <1>1, <1>12, <2>2 DEF Recv, Return, Step
    <3>2. Pending(k)' \subseteq Pending(k)
      BY <3>1, PendingMoves
    <3>3. CASE Idle(k)
      BY <1>2, <2>1, <3>2, <3>3, IdleStays
    <3>4. ASSUME NEW d \in Call, Belongs(k, d) PROVE Belongs(k, d)'
      BY <1>2, <1>4, <1>5, <2>1, <2>2, <3>2, <3>4, BelongsStays
    <3> QED
      BY <1>3, <3>3, <3>4
  <2>3. CASE m_clientFd # None
    <3>1. pc'[c] = "wait" /\ recvOn'[c] = m_clientFd /\ sentOn'[c] = sentOn[c]
      BY <1>1, <1>12, <2>1, <2>3 DEF Recv, Step
    <3>2. CASE k # m_clientFd
      <4>1. c \in Pending(k)' <=> c \in Pending(k)
        BY <1>4, <2>1, <3>1, <3>2, PendingMoves DEF Pending
      <4>2. Pending(k)' = Pending(k)
        BY <4>1, PendingMoves
      <4> QED
        BY <1>6, <2>1, <4>2
    <3>3. CASE k = m_clientFd
      <4>1. Pending(k) \subseteq {c}
        BY <1>12, <2>3, <3>3 DEF Recv, Overlap
      <4>2. Pending(k)' = {c}
        <5>1. c \in Pending(k)'
          BY <3>1, <3>3, PendingMoves
        <5> QED
          BY <4>1, <5>1, PendingMoves
      <4>3. CASE Idle(k)
        BY <1>2, <2>1, <4>2, <4>3, IdleStays
      <4>4. ASSUME NEW d \in Call, Belongs(k, d) PROVE Belongs(k, d)'
        <5>1. d = c
          BY <1>5, <3>3, <4>1, <4>4
        <5> QED
          BY <1>2, <2>1, <4>2, <4>4, <5>1, BelongsStays
      <4> QED
        BY <1>3, <4>3, <4>4
    <3> QED
      BY <3>2, <3>3
  <2> QED
    BY <2>2, <2>3
<1>13. CASE Take(c)
  <2>1. /\ pc[c] = "wait" /\ pc'[c] = "done" /\ down[recvOn[c]] # <<>>
        /\ UNCHANGED <<m_clientFd, sentOn, recvOn, up>>
        /\ \A j \in Conn : j # recvOn[c] => down'[j] = down[j]
    BY <1>1, <1>13 DEF Take, Return, Step
  <2>2. CASE k # recvOn[c]
    BY <1>2, <1>3, <2>1, <2>2, Leaves
  <2>3. CASE k = recvOn[c]
    <3>1. Pending(k) = {c} /\ up[k] = <<>> /\ serving[k] = None
      BY <1>2, <2>1, <2>3, TakesItsOwn
    <3>2. down' = [down EXCEPT ![k] = <<>>]
      BY <1>13, <2>3, Zenon DEF Take
    <3>3. down'[k] = <<>>
      BY <1>1, <3>2
    <3>4. Pending(k)' = {}
      <4>1. c \notin Pending(k)'
        BY <2>1, PendingMoves
      <4> QED
        BY <3>1, <4>1, PendingMoves
    <3> QED
      BY <1>2, <2>1, <3>1, <3>3, <3>4 DEF Idle, Quiet
  <2> QED
    BY <2>2, <2>3
<1>14. ASSUME pc[c] = "wait", pc'[c] = "done", down[recvOn[c]] = <<>>, status[recvOn[c]] # "open",
              UNCHANGED <<sentOn, recvOn, up, down>>, m_clientFd' \in {m_clientFd, None}
       PROVE  Idle(k)' \/ \E d \in Call : Belongs(k, d)'
  <2>1. CASE k # recvOn[c]
    BY <1>2, <1>3, <1>14, <2>1, Leaves
  <2>2. CASE k = recvOn[c]
    <3>1. up[k] = <<>> /\ serving[k] = None
      BY <1>14, <2>2 DEF ConnsInStep
    <3>2. \A d, e \in Pending(k) : d = e
      BY <1>3, <1>5 DEF Idle
    <3>3. Pending(k)' \subseteq Pending(k)
      <4>1. c \notin Pending(k)'
        BY <1>14, PendingMoves
      <4> QED
        BY <4>1, PendingMoves
    <3> QED
      BY <1>2, <1>14, <2>2, <3>1, <3>2, <3>3 DEF Idle, Quiet
  <2> QED
    BY <2>1, <2>2
<1>15. CASE TakeNothing(c)
  BY <1>1, <1>14, <1>15 DEF TakeNothing, Return, Step, netVars
<1>16. CASE RecvFails(c)
  BY <1>1, <1>14, <1>16 DEF RecvFails, Return, Step, netVars
<1> QED
  BY <1>7, <1>8, <1>9, <1>10, <1>11, <1>12, <1>13, <1>15, <1>16 DEF CallMethod

LEMMA NothingBefore ==
  ASSUME NEW s, IsSequence(s)
  PROVE  <<>> \o s = s
<1>1. s \in Seq({s[i] : i \in 1 .. Len(s)})
  BY SeqDef DEF IsSequence
<1> QED
  BY <1>1, ConcatEmptySeq

LEMMA ServerBelongs ==
  ASSUME TypeOK, CallsInStep, RequestsAreOnce, ConnsInStep, ConnsBelong,
         RequestsTravel, RepliesTravel, UNCHANGED load,
         (\E k \in Conn : OnMessage(k) \/ SendRpcResponse(k)) \/ Crash \/ Restart
  PROVE  ConnsBelong'
<1>1. /\ UNCHANGED <<m_clientFd, pc, sentOn, recvOn, load>> /\ disturbed \subseteq disturbed'
      /\ DOMAIN up = Conn /\ DOMAIN down = Conn /\ DOMAIN serving = Conn
  BY ZenonT(30) DEF OnMessage, SendRpcResponse, Crash, Restart, callVars, TypeOK
<1>2. \A k \in Conn : Pending(k)' = Pending(k)
  BY <1>1 DEF Pending
<1> SUFFICES ASSUME NEW k \in Conn, k \notin disturbed'
             PROVE  Idle(k)' \/ \E d \in Call : Belongs(k, d)'
  BY DEF ConnsBelong
<1>3. Idle(k) \/ \E d \in Call : Belongs(k, d)
  BY <1>1 DEF ConnsBelong
<1>4. \A d \in Call : Belongs(k, d) =>
        sentOn[d] = k /\ Pending(k) \subseteq {d} /\ (Pending(k) = {} => m_clientFd # k)
  BY DEF Belongs
<1>5. ASSUME up'[k] = up[k], down'[k] = down[k], serving'[k] = serving[k],
             \A d \in Call : sentOn[d] = k => answer'[d] = answer[d]
      PROVE  Idle(k)' \/ \E d \in Call : Belongs(k, d)'
  <2>1. CASE Idle(k)
    BY <1>2, <1>5, <2>1, IdleStays
  <2>2. ASSUME NEW d \in Call, Belongs(k, d) PROVE Belongs(k, d)'
    BY <1>1, <1>2, <1>4, <1>5, <2>2, BelongsStays
  <2> QED
    BY <1>3, <2>1, <2>2
<1>6. ASSUME NEW j \in Conn, OnMessage(j)
      PROVE  Idle(k)' \/ \E d \in Call : Belongs(k, d)'
  <2>1. PICK first, left, got, handled, whole, items :
          Handles(j, first, left, got, handled, whole, items)
    BY <1>6, OnMessageEffect
  <2>2. /\ up' = [up EXCEPT ![j] = handled]
        /\ serving' = IF got = <<>> THEN serving ELSE [serving EXCEPT ![j] = first.call]
        /\ UNCHANGED <<down, answer>>
    BY <1>6, <2>1 DEF Handles, OnMessage
  <2>3. CASE k # j
    BY <1>1, <1>5, <2>2, <2>3
  <2>4. CASE k = j
    <3>1. ~(whole > 1) /\ ~(items > 0) /\ ~first.rest /\ handled = left
      BY <2>1, <2>4, Zenon DEF Handles
    <3>2. whole \in Nat /\ first = up[k][1] /\ left = SubSeq(up[k], whole + 1, Len(up[k]))
          /\ (whole = 0 => items > 0) /\ up[k] # <<>>
          /\ (~first.rest /\ whole > 0 => got = <<Args(first.call)>>)
      BY <2>1, <2>4, Zenon DEF Handles
    <3>3. whole = 1
      BY <3>1, <3>2, SMT
    <3>4. PICK d \in Call : Belongs(k, d)
      BY <1>3, <3>2 DEF Idle, Quiet
    <3>5. up[k] = <<[call |-> d, rest |-> FALSE]>> /\ down[k] = <<>>
      BY <3>2, <3>4 DEF Belongs, Carries
    <3>6. handled = <<>> /\ first.call = d
      BY <3>1, <3>2, <3>3, <3>5
    <3>7. got = <<load.args[d]>>
      BY <3>1, <3>2, <3>3, <3>6, SMT DEF Args
    <3>8. serving'[k] = d /\ up'[k] = <<>> /\ down'[k] = <<>>
      BY <1>1, <2>2, <2>4, <3>5, <3>6, <3>7
    <3> QED
      BY <1>1, <1>2, <1>4, <3>4, <3>8 DEF Belongs, Carries
  <2> QED
    BY <2>3, <2>4
<1>7. ASSUME NEW j \in Conn, SendRpcResponse(j)
      PROVE  Idle(k)' \/ \E d \in Call : Belongs(k, d)'
  <2> DEFINE c == serving[j]
  <2>1. c \in Call /\ sentOn[c] = j
    BY <1>7 DEF SendRpcResponse, TypeOK, RequestsAreOnce
  <2>2. PICK a \in Answers[Method(c)] :
          /\ down' = [down EXCEPT ![j] = @ \o Serialize(ResponseType[Method(c)], a)]
          /\ answer' = [answer EXCEPT ![c] = <<a>>]
    BY <1>7, Zenon DEF SendRpcResponse
  <2>3. up' = up /\ serving' = [serving EXCEPT ![j] = None]
    BY <1>7 DEF SendRpcResponse
  <2>4. CASE k # j
    BY <1>1, <1>5, <2>1, <2>2, <2>3, <2>4
  <2>5. CASE k = j
    <3>1. PICK d \in Call : Belongs(k, d)
      BY <1>3, <2>1, <2>5, NoneAssumption DEF Idle, Quiet
    <3>2. up[k] = <<>> /\ down[k] = <<>> /\ c = d
      BY <2>1, <2>5, <3>1, NoneAssumption DEF Belongs, Carries
    <3>3. down'[k] = Serialize(ResponseType[Method(c)], a)
      <4>1. IsSequence(Serialize(ResponseType[Method(c)], a))
        <5>1. c \in DOMAIN load.method
          BY <2>1, ConnIsNotNone DEF CallsInStep
        <5> QED
          BY <5>1 DEF RepliesTravel, Method, TypeOK
      <4>2. down'[k] = <<>> \o Serialize(ResponseType[Method(c)], a)
        BY <1>1, <2>2, <2>5, <3>2
      <4> QED
        BY <4>1, <4>2, NothingBefore
    <3>4. answer'[c] = <<a>> /\ up'[k] = <<>> /\ serving'[k] = None
      BY <1>1, <2>1, <2>2, <2>3, <2>5, <3>2 DEF TypeOK
    <3>5. answer'[c] # NoAnswer /\ answer'[c][1] = a
      BY <3>4 DEF NoAnswer
    <3>6. Carries(k, d)'
      BY <1>1, <3>2, <3>3, <3>4, <3>5 DEF Carries, Method
    <3> QED
      BY <1>1, <1>2, <1>4, <3>1, <3>6 DEF Belongs
  <2> QED
    BY <2>4, <2>5
<1>8. CASE Crash
  <2>1. up'[k] = <<>> /\ serving'[k] = None /\ UNCHANGED <<down, answer>>
    BY <1>8 DEF Crash
  <2>2. CASE Idle(k)
    BY <1>2, <2>1, <2>2 DEF Idle, Quiet
  <2>3. ASSUME NEW d \in Call, Belongs(k, d)
        PROVE  Idle(k)' \/ Belongs(k, d)'
    <3>1. CASE down[k] = <<>>
      BY <1>2, <1>4, <2>1, <2>3, <3>1 DEF Idle, Quiet
    <3>2. CASE down[k] # <<>>
      <4>1. Carries(k, d)'
        BY <1>1, <2>1, <2>3, <3>2 DEF Belongs, Carries, Method
      <4> QED
        BY <1>1, <1>2, <1>4, <2>3, <4>1 DEF Belongs
    <3> QED
      BY <3>1, <3>2
  <2> QED
    BY <1>3, <2>2, <2>3
<1>9. CASE Restart
  BY <1>5, <1>9 DEF Restart, netVars
<1> QED
  BY <1>6, <1>7, <1>8, <1>9

-----------------------------------------------------------------------------
\* Replies

LEMMA ThreadReplies ==
  ASSUME TypeOK, CallsInStep, RequestsAreOnce, ConnsInStep, ConnsBelong, OwnReply,
         RepliesTravel, NEW c \in Call, CallMethod(c), UNCHANGED load
  PROVE  OwnReply'
<1>1. /\ m_clientFd \in Conn \cup {None} /\ DOMAIN status = Conn /\ DOMAIN reply = Call
      /\ sentOn \in [Call -> Conn \cup {None}] /\ recvOn \in [Call -> Conn \cup {None}]
      /\ DOMAIN pc = Call
  BY DEF TypeOK
<1>2. UNCHANGED <<answer, load>> /\ disturbed \subseteq disturbed'
  BY DEF CallMethod, Start, NewConnect, Send, SendFails, CloseSocket, Recv, Take, TakeNothing,
         RecvFails, serverVars, Overlap
<1>3. \A d : Method(d)' = Method(d)
  BY DEF Method
<1>4. \A d \in Call : reply[d].ok => pc[d] = "done" /\ recvOn[d] # None
  BY DEF CallsInStep
<1>5. ~Failed.ok
  BY DEF Failed
<1> DEFINE OwnOf(d) == reply[d].ok /\ Undisturbed(d) =>
                         \/ answer[d] = <<reply[d].response>>
                         \/ status[recvOn[d]] # "open"
                            /\ reply[d].response = Clear(ResponseType[Method(d)])
<1> SUFFICES ASSUME NEW d \in Call PROVE OwnOf(d)'
  BY DEF OwnReply
<1>6. OwnOf(d)
  BY DEF OwnReply
<1>7. ASSUME d # c \/ ~reply'[c].ok, \A e \in Call \ {c} : /\ reply'[e] = reply[e]
                                         /\ sentOn'[e] = sentOn[e] /\ recvOn'[e] = recvOn[e],
             \A j \in Conn : (\E e \in Call : recvOn[e] = j) /\ status[j] # "open" => status'[j] # "open"
      PROVE  OwnOf(d)'
  <2>1. CASE d = c
    BY <1>7, <2>1
  <2>2. CASE d # c
    <3>1. reply'[d] = reply[d] /\ sentOn'[d] = sentOn[d] /\ recvOn'[d] = recvOn[d]
      BY <1>7, <2>2
    <3>2. Undisturbed(d)' => Undisturbed(d)
      BY <1>2, <3>1 DEF Undisturbed
    <3>3. reply[d].ok => recvOn[d] \in Conn
      BY <1>1, <1>4
    <3>4. reply[d].ok /\ status[recvOn[d]] # "open" => status'[recvOn[d]] # "open"
      BY <1>7, <3>3
    <3> QED
      BY <1>2, <1>3, <1>6, <3>1, <3>2, <3>4
  <2> QED
    BY <2>1, <2>2
<1>8. \A e \in Call \ {c} : /\ reply'[e] = reply[e] /\ sentOn'[e] = sentOn[e]
                            /\ recvOn'[e] = recvOn[e]
  BY <1>1 DEF CallMethod, Start, NewConnect, Send, SendFails, CloseSocket, Recv, Take, TakeNothing,
         RecvFails, Return
<1>9. ASSUME ~reply[c].ok, reply' = reply, UNCHANGED status
      PROVE  OwnOf(d)'
  BY <1>7, <1>8, <1>9
<1>10. pc[c] # "done" => ~reply[c].ok
  BY <1>4
<1>11. CASE Start(c)
  BY <1>9, <1>10, <1>11 DEF Start, netVars
<1>12. CASE NewConnect(c)
  <2>1. ~reply'[c].ok
    BY <1>1, <1>5, <1>10, <1>12 DEF NewConnect, Return
  <2>2. \A j \in Conn : (\E e \in Call : recvOn[e] = j) /\ status[j] # "open" => status'[j] # "open"
    <3>1. \A j \in Conn : (\E e \in Call : recvOn[e] = j) => status[j] # "new"
      BY DEF ConnsInStep, Unused
    <3>2. status' = status \/ \E k \in Conn : status[k] = "new"
                                              /\ status' = [status EXCEPT ![k] = "open"]
      BY <1>12 DEF NewConnect
    <3> QED
      BY <1>1, <3>1, <3>2
  <2> QED
    BY <1>7, <1>8, <2>1, <2>2
<1>13. CASE Send(c)
  <2>1. ~reply'[c].ok
    BY <1>10, <1>13 DEF Send
  <2>2. \A j \in Conn : status[j] # "open" => status'[j] # "open"
    BY <1>1, <1>13 DEF Send
  <2> QED
    BY <1>7, <1>8, <2>1, <2>2
<1>14. CASE SendFails(c)
  BY <1>9, <1>10, <1>14 DEF SendFails, netVars
<1>15. CASE CloseSocket(c)
  BY <1>9, <1>10, <1>15 DEF CloseSocket, netVars
<1>16. CASE Recv(c)
  <2>1. ~reply'[c].ok /\ status' = status
    BY <1>1, <1>5, <1>10, <1>16 DEF Recv, Return, netVars
  <2> QED
    BY <1>7, <1>8, <2>1
<1>17. CASE Take(c)
  <2>1. UNCHANGED <<sentOn, recvOn, status>> /\ pc[c] = "wait" /\ down[recvOn[c]] # <<>>
    BY <1>17 DEF Take
  <2>2. CASE reply' = [reply EXCEPT ![c] = Failed] \/ d # c
    BY <1>1, <1>5, <1>7, <1>8, <2>1, <2>2
  <2>3. CASE reply' = [reply EXCEPT ![c] = Ok(Parse(ResponseType[Method(c)], down[recvOn[c]]))]
              /\ d = c
    <3> SUFFICES ASSUME Undisturbed(c)' PROVE answer[c] = <<reply'[c].response>>
      BY <1>2, <2>3
    <3>1. recvOn[c] \notin disturbed
      BY <1>2, <2>1 DEF Undisturbed, CallsInStep
    <3>2. answer[c] # NoAnswer
          /\ down[recvOn[c]] = Serialize(ResponseType[Method(c)], answer[c][1])
      BY <2>1, <3>1, TakesItsOwn
    <3>3. PICK a \in Answers[Method(c)] : answer[c] = <<a>>
      BY <3>2 DEF RequestsAreOnce
    <3>4. Parse(ResponseType[Method(c)], Serialize(ResponseType[Method(c)], a)) = a
      <4>1. c \in DOMAIN load.method /\ load \in Loads
        BY <2>1 DEF CallsInStep, TypeOK
      <4> QED
        BY <4>1, <3>3 DEF RepliesTravel, Method
    <3>5. reply'[c] = Ok(a)
      BY <1>1, <2>3, <3>2, <3>3, <3>4
    <3> QED
      BY <3>3, <3>5 DEF Ok
  <2> QED
    BY <1>17, <2>2, <2>3, Zenon DEF Take, Return
<1>18. CASE TakeNothing(c)
  <2>1. /\ UNCHANGED <<sentOn, recvOn, status>> /\ pc[c] = "wait" /\ status[recvOn[c]] = "fin"
        /\ reply' = [reply EXCEPT ![c] = Ok(Parse(ResponseType[Method(c)], <<>>))]
    BY <1>18 DEF TakeNothing, Return, netVars
  <2>2. CASE d # c
    BY <1>7, <1>8, <2>1, <2>2
  <2>3. CASE d = c
    <3>1. Parse(ResponseType[Method(c)], <<>>) = Clear(ResponseType[Method(c)])
      <4>1. c \in DOMAIN load.method /\ load \in Loads
        BY <2>1 DEF CallsInStep, TypeOK
      <4> QED
        BY <4>1 DEF RepliesTravel, Method
    <3>2. reply'[c] = Ok(Clear(ResponseType[Method(c)]))
      BY <1>1, <2>1, <3>1
    <3> QED
      BY <1>3, <2>1, <2>3, <3>2 DEF Ok
  <2> QED
    BY <2>2, <2>3
<1>19. CASE RecvFails(c)
  <2>1. ~reply'[c].ok /\ status' = status
    BY <1>1, <1>5, <1>19 DEF RecvFails, Return, netVars
  <2> QED
    BY <1>7, <1>8, <2>1
<1> QED
  BY <1>11, <1>12, <1>13, <1>14, <1>15, <1>16, <1>17, <1>18, <1>19 DEF CallMethod

LEMMA ServerReplies ==
  ASSUME TypeOK, CallsInStep, RequestsAreOnce, ConnsInStep, OwnReply, UNCHANGED load,
         (\E k \in Conn : OnMessage(k) \/ SendRpcResponse(k)) \/ Crash \/ Restart
  PROVE  OwnReply'
<1>1. UNCHANGED <<sentOn, recvOn, reply>> /\ disturbed \subseteq disturbed'
  BY ZenonT(30) DEF OnMessage, SendRpcResponse, Crash, Restart, callVars
<1>2. \A k \in Conn : status[k] # "open" => status'[k] # "open"
  BY DEF OnMessage, SendRpcResponse, Crash, Restart, netVars, TypeOK
<1>3. \A c \in Call : Method(c)' = Method(c) /\ (Undisturbed(c)' => Undisturbed(c))
  BY <1>1 DEF Method, Undisturbed
<1>4. \A c \in Call : reply[c].ok => recvOn[c] \in Conn
  BY DEF CallsInStep, TypeOK
<1>5. ASSUME NEW c \in Call, answer[c] # NoAnswer
      PROVE  answer'[c] = answer[c]
  <2>1. ASSUME NEW k \in Conn, SendRpcResponse(k)
        PROVE  answer'[c] = answer[c]
    <3>1. serving[k] # c
      BY <1>5, <2>1 DEF SendRpcResponse, RequestsAreOnce
    <3> QED
      BY <2>1, <3>1 DEF SendRpcResponse, TypeOK
  <2>2. CASE ~\E k \in Conn : SendRpcResponse(k)
    BY <2>2 DEF OnMessage, Crash, Restart
  <2> QED
    BY <2>1, <2>2
<1> SUFFICES ASSUME NEW c \in Call, reply[c].ok, Undisturbed(c)
             PROVE  \/ answer'[c] = <<reply[c].response>>
                    \/ status'[recvOn[c]] # "open"
                       /\ reply[c].response = Clear(ResponseType[Method(c)])
  BY <1>1, <1>3 DEF OwnReply
<1>6. CASE answer[c] = <<reply[c].response>>
  <2>1. answer[c] # NoAnswer
    BY <1>6 DEF NoAnswer
  <2> QED
    BY <1>5, <1>6, <2>1
<1>7. CASE status[recvOn[c]] # "open" /\ reply[c].response = Clear(ResponseType[Method(c)])
  BY <1>2, <1>4, <1>7
<1> QED
  BY <1>6, <1>7 DEF OwnReply

-----------------------------------------------------------------------------
\* Theorems

LEMMA ChannelInvInit ==
  ASSUME Init
  PROVE  TypeOK /\ ChannelInv
<1>1. /\ m_clientFd \in {None} \cup (Conn \cap {1})
      /\ pc = [c \in Call |-> "idle"] /\ sentOn = [c \in Call |-> None]
      /\ recvOn = [c \in Call |-> None] /\ reply = [c \in Call |-> Failed]
      /\ status = [k \in Conn |-> IF k = m_clientFd THEN "open" ELSE "new"]
      /\ up = [k \in Conn |-> <<>>] /\ down = [k \in Conn |-> <<>>]
      /\ serving = [k \in Conn |-> None]
      /\ seen = [c \in Call |-> <<>>] /\ answer = [c \in Call |-> NoAnswer]
  BY DEF Init
<1>2. \A c \in Call : ~reply[c].ok
  BY <1>1 DEF Failed
<1>3. CallsInStep
  BY <1>1, <1>2 DEF CallsInStep
<1>4. RequestsAreOnce
  BY <1>1 DEF RequestsAreOnce
<1>5. ConnsInStep
  BY <1>1, ConnIsNotNone DEF ConnsInStep, Unused
<1>6. ConnsBelong
  BY <1>1, ConnIsNotNone DEF ConnsBelong, Idle, Quiet, Pending
<1>7. HandledOnce
  BY <1>1 DEF HandledOnce
<1>8. OwnReply
  BY <1>2 DEF OwnReply
<1> QED
  BY <1>3, <1>4, <1>5, <1>6, <1>7, <1>8, TypesInit DEF ChannelInv

LEMMA ChannelInvStep ==
  ASSUME RequestsTravel, RepliesTravel, TypeOK, ChannelInv, Next
  PROVE  TypeOK' /\ ChannelInv'
<1>1. UNCHANGED load
  BY DEF Next
<1>2. CallsInStep /\ RequestsAreOnce /\ ConnsInStep /\ ConnsBelong /\ HandledOnce /\ OwnReply
  BY DEF ChannelInv
<1>3. ASSUME NEW c \in Call, CallMethod(c)
      PROVE  TypeOK' /\ ChannelInv'
  <2>1. RequestsAreOnce'
    BY <1>1, <1>2, <1>3, SendOnce, OthersSendNothing, RequestsStayStill
  <2> QED
    BY <1>1, <1>2, <1>3, <2>1, CallMethodTypes, CallsStay, ThreadConns, ThreadBelongs,
       HandledOnceStays, ThreadReplies DEF ChannelInv
<1>4. ASSUME (\E k \in Conn : OnMessage(k) \/ SendRpcResponse(k)) \/ Crash \/ Restart
      PROVE  TypeOK' /\ ChannelInv'
  <2>1. TypeOK'
    BY <1>1, <1>2, <1>4, OnMessageTypes, ServerTypes
  <2>2. CallsInStep'
    <3>1. UNCHANGED callVars
      BY <1>4 DEF OnMessage, SendRpcResponse, Crash, Restart
    <3> QED
      BY <1>1, <1>2, <3>1, CallsStayStill
  <2>3. RequestsAreOnce' /\ HandledOnce'
    <3>1. CASE \E k \in Conn : OnMessage(k)
      BY <1>1, <1>2, <3>1, OnMessageOnce
    <3>2. CASE (\E k \in Conn : SendRpcResponse(k)) \/ Crash \/ Restart
      <4>1. HandledOnce'
        <5>1. UNCHANGED <<seen, sentOn, disturbed>>
          BY <3>2 DEF SendRpcResponse, Crash, Restart, callVars
        <5> QED
          BY <1>1, <1>2, <5>1 DEF HandledOnce, Args
      <4>2. RequestsAreOnce'
        <5>1. Restart => UNCHANGED <<sentOn, up, serving, seen, answer>>
          BY DEF Restart, callVars, netVars
        <5> QED
          BY <1>1, <1>2, <3>2, <5>1, SendRpcResponseOnce, CrashOnce, RequestsStayStill
      <4> QED
        BY <4>1, <4>2
    <3> QED
      BY <1>4, <3>1, <3>2
  <2>4. ConnsInStep' /\ ConnsBelong' /\ OwnReply'
    BY <1>1, <1>2, <1>4, ServerConns, ServerBelongs, ServerReplies
  <2> QED
    BY <2>1, <2>2, <2>3, <2>4 DEF ChannelInv
<1> QED
  BY <1>3, <1>4 DEF Next

LEMMA ChannelInvStutter ==
  ASSUME TypeOK, ChannelInv, UNCHANGED vars
  PROVE  TypeOK' /\ ChannelInv'
<1>1. UNCHANGED <<load, callVars, netVars, serverVars, disturbed>>
  BY DEF vars
<1>2. UNCHANGED <<load, m_clientFd, pc, sentOn, recvOn, reply, status, up, down, serving, alive,
                  crashes, cuts, seen, answer, disturbed>>
  BY <1>1 DEF callVars, netVars, serverVars
<1>3. \A c : Method(c)' = Method(c) /\ Args(c)' = Args(c)
  BY <1>2 DEF Method, Args
<1>4. TypeOK'
  BY <1>2, <1>3 DEF TypeOK
<1>5. CallsInStep' /\ HandledOnce'
  BY <1>2, <1>3 DEF ChannelInv, CallsInStep, HandledOnce
<1>6. RequestsAreOnce'
  BY <1>2, RequestsStayStill DEF ChannelInv
<1>7. ConnsInStep'
  BY <1>2 DEF ChannelInv, ConnsInStep, Unused
<1>8. ConnsBelong'
  <2>1. \A k \in Conn : Pending(k)' = Pending(k)
    BY <1>2 DEF Pending
  <2> SUFFICES ASSUME NEW k \in Conn, k \notin disturbed
               PROVE  Idle(k)' \/ \E c \in Call : Belongs(k, c)'
    BY <1>2 DEF ConnsBelong
  <2>2. CASE Idle(k)
    BY <1>2, <2>1, <2>2, IdleStays
  <2>3. ASSUME NEW c \in Call, Belongs(k, c) PROVE Belongs(k, c)'
    <3>1. Pending(k) \subseteq {c} /\ (Pending(k) = {} => m_clientFd # k)
      BY <2>3 DEF Belongs
    <3> QED
      BY <1>2, <2>1, <2>3, <3>1, BelongsStays
  <2> QED
    BY <2>2, <2>3 DEF ChannelInv, ConnsBelong
<1>9. OwnReply'
  BY <1>2, <1>3 DEF ChannelInv, OwnReply, Undisturbed
<1> QED
  BY <1>4, <1>5, <1>6, <1>7, <1>8, <1>9 DEF ChannelInv

\* For any number of threads, connections, crashes and cut requests, the variables
\* keep their types and ChannelInv holds: a connection of the channel that nobody
\* disturbed belongs to one call after the other.
THEOREM ChannelInvariant ==
  ASSUME RequestsTravel, RepliesTravel
  PROVE  Spec => [](TypeOK /\ ChannelInv)
<1>1. Init => TypeOK /\ ChannelInv
  BY ChannelInvInit
<1>2. TypeOK /\ ChannelInv /\ [Next]_vars => (TypeOK /\ ChannelInv)'
  BY ChannelInvStep, ChannelInvStutter
<1> QED
  BY <1>1, <1>2, PTL DEF Spec

\* The types of the variables of RpcChannel: what CallMethod and OnMessage keep.
THEOREM ChannelTypeCorrect ==
  ASSUME RequestsTravel, RepliesTravel
  PROVE  Spec => []TypeOK
BY ChannelInvariant, PTL

\* The loop of CallMethod that sends again after a failure never has a call handled
\* twice, and a call is handled with its own arguments unless its request was cut:
\* OnMessage takes whole requests and forgets what came with them.
THEOREM RequestsHandledOnce ==
  ASSUME RequestsTravel, RepliesTravel
  PROVE  Spec => []HandledOnce
<1>1. ChannelInv => HandledOnce
  BY DEF ChannelInv
<1> QED
  BY <1>1, ChannelInvariant, PTL

\* What CallMethod returns without an error is the answer to its own request, or a
\* message of defaults from a connection that the server closed, although nothing on
\* the wire says whose a reply is: unless calls overlapped on the connection, or
\* something on it was cut.
THEOREM RepliesAreOwn ==
  ASSUME RequestsTravel, RepliesTravel
  PROVE  Spec => []OwnReply
<1>1. ChannelInv => OwnReply
  BY DEF ChannelInv
<1> QED
  BY <1>1, ChannelInvariant, PTL

=============================================================================
