--------------------------- MODULE KvReadProofs ---------------------------
(***************************************************************************)
(* Proof that a read sees every write that was answered before it was      *)
(* called (ReadsAreCurrent of KvServer), for every number of servers and   *)
(* clients, from the invariants of KvServerProofs.                         *)
(***************************************************************************)
EXTENDS KvServerProofs

LEMMA LogHasAllMore ==
  ASSUME NEW W, NEW m \in Int, NEW n \in Int, m <= n, LogHasAll(W, m)
  PROVE  LogHasAll(W, n)
BY LogHasMore DEF LogHasAll

\* The states of an unchanged log.
LEMMA LogUnchanged ==
  ASSUME TypeOK, chosen' = chosen
  PROVE  /\ \A W, n : LogHasAll(W, n)' <=> LogHasAll(W, n)
         /\ \A value, W : ReadSince(value, W)' <=> ReadSince(value, W)
<1>1. StateAfter' = StateAfter
  BY StateAfterUnchanged
<1>2. \A W, n : LogHasAll(W, n)' <=> LogHasAll(W, n)
  BY Zenon DEF LogHasAll, LogHas
<1> HIDE DEF StateAfter
<1>3. \A value, W : ReadSince(value, W)' <=> ReadSince(value, W)
  BY <1>1, <1>2, Zenon DEF ReadSince
<1> QED
  BY <1>2, <1>3

\* What was read of the log stays so when the log grows.
LEMMA LogGrows ==
  ASSUME TypeOK, NEW op \in Op, chosen' = Append(chosen, op)
  PROVE  /\ \A W : \A n \in Int : n <= Len(chosen) => (LogHasAll(W, n)' <=> LogHasAll(W, n))
         /\ \A value, W : ReadSince(value, W) => ReadSince(value, W)'
<1>1. /\ Len(chosen) \in Nat /\ Len(chosen') = Len(chosen) + 1
      /\ \A w : \A n \in Int : n <= Len(chosen) => (LogHas(w, n)' <=> LogHas(w, n))
  BY ChosenGrows DEF TypeOK
<1>2. ASSUME NEW W, NEW n \in Int, n <= Len(chosen)
      PROVE  LogHasAll(W, n)' <=> LogHasAll(W, n)
  BY <1>1, <1>2, Zenon DEF LogHasAll
<1>3. \A n \in 0 .. Len(chosen) : StateAfter'[n] = StateAfter[n]
  BY StateAfterKeeps
<1> HIDE DEF StateAfter
<1>4. ASSUME NEW value, NEW W, ReadSince(value, W) PROVE ReadSince(value, W)'
  <2>1. PICK n \in 0 .. Len(chosen) : value = StateAfter[n] /\ LogHasAll(W, n)
    BY <1>4 DEF ReadSince
  <2>2. n \in 0 .. Len(chosen') /\ n \in Int /\ n <= Len(chosen)
    BY <1>1, SMT
  <2>3. value = StateAfter'[n] /\ LogHasAll(W, n)'
    BY <1>2, <1>3, <2>1, <2>2
  <2> QED
    BY <2>2, <2>3, Zenon DEF ReadSince
<1> QED
  BY <1>2, <1>4

\* ReadsAreCurrent in the words of ReadSince.
LEMMA ReadsAreSince ==
  ReadsAreCurrent <=>
    \A c \in Client :
      ~clerk[c].calling /\ clerk[c].id > 0 /\ Script[c][clerk[c].id] = "Get"
        => ReadSince(clerk[c].value, clerk[c].before)
BY Zenon DEF ReadsAreCurrent, ReadSince, LogHasAll, LogHas

\* Reads of the log before a step are reads of the log after it.
LEMMA ReadsGoOn ==
  ASSUME \A value, W : ReadSince(value, W) => ReadSince(value, W)',
         \A c \in Client :
           ~clerk'[c].calling /\ clerk'[c].id > 0 /\ Script[c][clerk'[c].id] = "Get"
             => ReadSince(clerk'[c].value, clerk'[c].before)
  PROVE  ReadsAreCurrent'
<1> HIDE DEF StateAfter
<1> SUFFICES ASSUME NEW c \in Client, ~clerk'[c].calling, clerk'[c].id > 0,
                    Script[c][clerk'[c].id] = "Get"
             PROVE  \E n \in 0 .. Len(chosen') :
                      /\ clerk'[c].value = StateAfter'[n]
                      /\ \A w \in clerk'[c].before : \E m \in 1 .. n : WriteOf(chosen'[m]) = w
  BY DEF ReadsAreCurrent
<1>1. PICK value, W : value = clerk'[c].value /\ W = clerk'[c].before
  OBVIOUS
<1>2. ReadSince(value, W)'
  BY <1>1
<1>3. PICK n \in 0 .. Len(chosen') : value = StateAfter'[n] /\ LogHasAll(W, n)'
  BY <1>2 DEF ReadSince
<1>4. \A w \in W : \E m \in 1 .. n : WriteOf(chosen'[m]) = w
  BY <1>3 DEF LogHasAll, LogHas
<1> QED
  BY <1>1, <1>3, <1>4

\* Servers work while the log and the clerks stay.
LEMMA ServersRead ==
  ASSUME TypeOK, ReadInv, UNCHANGED <<chosen, clerk, answered>>,
         KnownAfterBefore', ReadersAreCurrent'
  PROVE  ReadInv'
<1>1. BeforeIsAnswered' /\ ChosenAfterBefore'
  BY LogUnchanged DEF BeforeIsAnswered, ChosenAfterBefore, ReadInv
<1>2. ReadsAreCurrent'
  <2>1. StateAfter' = StateAfter /\ clerk' = clerk /\ chosen' = chosen /\ ReadsAreCurrent
    BY StateAfterUnchanged DEF ReadInv
  <2> HIDE DEF StateAfter
  <2> QED
    BY ONLY <2>1, SMT DEF ReadsAreCurrent
<1> QED
  BY <1>1, <1>2 DEF ReadInv

LEMMA KnownAfterUnchanged ==
  ASSUME TypeOK, KnownAfterBefore, UNCHANGED <<chosen, clerk, delivered, loop, lastRequestId>>
  PROVE  KnownAfterBefore'
BY LogUnchanged DEF KnownAfterBefore, Known, Executed

\* Only a handler moves.
LEMMA ReaderMoves ==
  ASSUME TypeOK, ReadInv, NEW h \in handlers, NEW g, Step(h, g),
         g.op = h.op, g.server = h.server,
         UNCHANGED <<chosen, delivered, loop, clerk, answered>>, KnownAfterBefore',
         h.op.id = clerk[h.op.client].id /\ h.op.type = "Get" =>
           /\ g.pc = "execute" => LogHasAll(clerk[h.op.client].before, Executed(h.server))
           /\ g.err \in {"OK", "ErrNoKey"} => ReadSince(g.value, clerk[h.op.client].before)
  PROVE  ReadInv'
<1>1. handlers' = (handlers \ {h}) \cup {g}
  BY DEF Step
<1>2. \A i : Executed(i)' = Executed(i)
  BY Zenon DEF Executed
<1>3. ReadersAreCurrent'
  <2> SUFFICES ASSUME NEW f \in handlers', f.op.id = clerk[f.op.client].id, f.op.type = "Get"
               PROVE  /\ f.pc = "execute"
                           => LogHasAll(clerk[f.op.client].before, Executed(f.server))
                      /\ f.err \in {"OK", "ErrNoKey"}
                           => ReadSince(f.value, clerk[f.op.client].before)
    BY <1>2, LogUnchanged DEF ReadersAreCurrent
  <2>1. CASE f \in handlers
    BY <2>1 DEF ReadersAreCurrent, ReadInv
  <2>2. CASE f = g
    BY <2>2
  <2> QED
    BY <1>1, <2>1, <2>2
<1> QED
  BY <1>3, ServersRead

\* The steps of a handler that neither pop nor read.
LEMMA QuietReads ==
  ASSUME TypeOK, ThreadInv, RequestInv, ReadInv, NEW h \in handlers,
         \/ RefuseRequest(h) \/ StartRequest(h) \/ RegisterQueue(h) \/ PopTimesOut(h)
         \/ ReadLeadership(h) \/ ReadAfterTimeout(h) \/ WriteAfterTimeout(h) \/ EraseQueue(h)
  PROVE  ReadInv'
<1>1. UNCHANGED <<chosen, delivered, lastRequestId, loop, clerk, answered>>
  BY DEF RefuseRequest, StartRequest, RegisterQueue, PopTimesOut, ReadLeadership,
     ReadAfterTimeout, WriteAfterTimeout, EraseQueue, raftVars, storeVars
<1>2. KnownAfterBefore'
  BY <1>1, KnownAfterUnchanged DEF ReadInv
<1>3. h \in Handler
  BY HandlerType
<1>4. ASSUME NEW g, Step(h, g), g.op = h.op, g.server = h.server, g.pc # "execute",
             g.err \notin {"OK", "ErrNoKey"} \/ (g.err = h.err /\ g.value = h.value)
      PROVE  ReadInv'
  <2>1. h.op.id = clerk[h.op.client].id /\ h.op.type = "Get"
          => /\ g.pc = "execute" => LogHasAll(clerk[h.op.client].before, Executed(h.server))
             /\ g.err \in {"OK", "ErrNoKey"} => ReadSince(g.value, clerk[h.op.client].before)
    BY <1>4 DEF ReadersAreCurrent, ReadInv
  <2> QED
    BY <1>1, <1>2, <1>4, <2>1, ReaderMoves
<1>5. CASE RefuseRequest(h) \/ Step(h, [h EXCEPT !.pc = "erase", !.err = "ErrWrongLeader"])
  <2>1. PICK pc \in {"reply", "erase"} : Step(h, [h EXCEPT !.pc = pc, !.err = "ErrWrongLeader"])
    BY <1>5 DEF RefuseRequest
  <2> DEFINE g == [h EXCEPT !.pc = pc, !.err = "ErrWrongLeader"]
  <2>2. g.op = h.op /\ g.server = h.server /\ g.pc = pc /\ g.err = "ErrWrongLeader"
    BY <1>3, Zenon DEF Handler
  <2>3. Step(h, g) /\ pc # "execute"
    BY <2>1
  <2> HIDE DEF g
  <2> QED
    BY <1>4, <2>2, <2>3
<1>6. CASE StartRequest(h)
  <2>1. PICK k \in FreshIndex(h.server) : Step(h, [h EXCEPT !.pc = "register", !.index = k])
    BY <1>6 DEF StartRequest
  <2> DEFINE g == [h EXCEPT !.pc = "register", !.index = k]
  <2>2. /\ g.op = h.op /\ g.server = h.server /\ g.pc = "register" /\ g.err = h.err
        /\ g.value = h.value
    BY <1>3, Zenon DEF Handler
  <2>3. Step(h, g)
    BY <2>1
  <2> HIDE DEF g
  <2> QED
    BY <1>4, <2>2, <2>3
<1>7. CASE RegisterQueue(h) \/ PopTimesOut(h)
  <2>1. PICK pc \in {"wait", "timedOut"} : Step(h, [h EXCEPT !.pc = pc])
    BY <1>7 DEF RegisterQueue, PopTimesOut
  <2> DEFINE g == [h EXCEPT !.pc = pc]
  <2>2. g.op = h.op /\ g.server = h.server /\ g.pc = pc /\ g.err = h.err /\ g.value = h.value
    BY <1>3, Zenon DEF Handler
  <2>3. Step(h, g) /\ pc # "execute"
    BY <2>1
  <2> HIDE DEF g
  <2> QED
    BY <1>4, <2>2, <2>3
<1>8. CASE ReadLeadership(h)
  <2>1. PICK leader \in BOOLEAN : Step(h, [h EXCEPT !.pc = "check", !.leader = leader])
    BY <1>8 DEF ReadLeadership
  <2> DEFINE g == [h EXCEPT !.pc = "check", !.leader = leader]
  <2>2. /\ g.op = h.op /\ g.server = h.server /\ g.pc = "check" /\ g.err = h.err
        /\ g.value = h.value
    BY <1>3, Zenon DEF Handler
  <2>3. Step(h, g)
    BY <2>1
  <2> HIDE DEF g
  <2> QED
    BY <1>4, <2>2, <2>3
<1>9. CASE EraseQueue(h)
  <2> DEFINE g == [h EXCEPT !.pc = "reply", !.index = 0, !.leader = FALSE]
  <2>1. /\ g.op = h.op /\ g.server = h.server /\ g.pc = "reply" /\ g.err = h.err
        /\ g.value = h.value
    BY <1>3, Zenon DEF Handler
  <2>2. Step(h, g)
    BY <1>9 DEF EraseQueue
  <2> HIDE DEF g
  <2> QED
    BY <1>4, <2>1, <2>2
<1>10. CASE ReadsIfExecuted(h) /\ Step(h, [h EXCEPT !.pc = "execute"])
  <2> DEFINE g == [h EXCEPT !.pc = "execute"]
  <2>1. g.op = h.op /\ g.server = h.server /\ g.err = h.err /\ g.value = h.value
    BY <1>3, Zenon DEF Handler
  <2>2. Step(h, g)
    BY <1>10
  <2>3. h.op.id <= Known(h.server, h.op.client)
    BY <1>10 DEF ReadsIfExecuted, IfRequestDuplicate, Known
  <2>4. ASSUME h.op.id = clerk[h.op.client].id
        PROVE  LogHasAll(clerk[h.op.client].before, Executed(h.server))
    <3>1. h.server \in Server /\ h.op.client \in Client
      BY HandlerType
    <3>2. Known(h.server, h.op.client) <= clerk[h.op.client].id
      BY <3>1 DEF KnownIsExecuted, RequestInv
    <3>3. Known(h.server, h.op.client) \in Nat /\ clerk[h.op.client].id \in Nat
      BY <3>1, ClerkType, ClientIdAssumption DEF Known, TypeOK
    <3>4. Known(h.server, h.op.client) = clerk[h.op.client].id
      BY <2>3, <2>4, <3>2, <3>3, SMT
    <3> QED
      BY <3>1, <3>4 DEF KnownAfterBefore, ReadInv
  <2>5. h.op.id = clerk[h.op.client].id /\ h.op.type = "Get"
          => /\ g.pc = "execute" => LogHasAll(clerk[h.op.client].before, Executed(h.server))
             /\ g.err \in {"OK", "ErrNoKey"} => ReadSince(g.value, clerk[h.op.client].before)
    BY <2>1, <2>4 DEF ReadersAreCurrent, ReadInv
  <2> HIDE DEF g
  <2> QED
    BY <1>1, <1>2, <2>1, <2>2, <2>5, ReaderMoves
<1>11. CASE WriteAfterTimeout(h)
  <2> DEFINE g == [h EXCEPT !.pc = "erase", !.err = TimeoutErr(h)]
  <2>1. g.op = h.op /\ g.server = h.server
    BY <1>3, Zenon DEF Handler
  <2>2. Step(h, g) /\ h.op.type # "Get"
    BY <1>11 DEF WriteAfterTimeout
  <2> HIDE DEF g
  <2> QED
    BY <1>1, <1>2, <2>1, <2>2, ReaderMoves
<1> QED
  BY <1>5, <1>6, <1>7, <1>8, <1>9, <1>10, <1>11 DEF ReadAfterTimeout

LEMMA PopCommandReads ==
  ASSUME DistinctIds, TypeOK, ThreadInv, RequestInv, ReadInv, NEW h \in handlers, PopCommand(h)
  PROVE  ReadInv'
<1> DEFINE i == h.server
           k == h.index
           q == waitApplyCh[i][k]
<1>1. /\ h.pc = "wait" /\ q # <<>>
      /\ UNCHANGED <<chosen, delivered, lastRequestId, loop, clerk, answered>>
  BY DEF PopCommand, raftVars, storeVars
<1>2. /\ i \in Server /\ k \in Nat \ {0} /\ k <= Executed(i) /\ Executed(i) \in Nat
      /\ Head(q) = chosen[k] /\ k \in DOMAIN chosen
  BY <1>1, PoppedIsChosen
<1>3. h \in Handler /\ h.op \in Op /\ Head(q) \in Op
  BY <1>2, HandlerType, ChosenType
<1>4. KnownAfterBefore'
  BY <1>1, KnownAfterUnchanged DEF ReadInv
<1>5. CASE Step(h, [h EXCEPT !.pc = "erase", !.err = "ErrWrongLeader"])
  <2> DEFINE g == [h EXCEPT !.pc = "erase", !.err = "ErrWrongLeader"]
  <2>1. g.op = h.op /\ g.server = h.server /\ g.pc = "erase" /\ g.err = "ErrWrongLeader"
    BY <1>3, Zenon DEF Handler
  <2>2. Step(h, g)
    BY <1>5
  <2> HIDE DEF g
  <2> QED
    BY <1>1, <1>4, <2>1, <2>2, ReaderMoves
<1>6. CASE h.op.type # "Get" /\ Step(h, [h EXCEPT !.pc = "erase", !.err = "OK"])
  <2> DEFINE g == [h EXCEPT !.pc = "erase", !.err = "OK"]
  <2>1. g.op = h.op /\ g.server = h.server
    BY <1>3, Zenon DEF Handler
  <2>2. Step(h, g)
    BY <1>6
  <2> HIDE DEF g
  <2> QED
    BY <1>1, <1>4, <1>6, <2>1, <2>2, ReaderMoves
<1>7. CASE SameRequest(Head(q), h.op) /\ Step(h, [h EXCEPT !.pc = "execute"])
  <2> DEFINE g == [h EXCEPT !.pc = "execute"]
             W == clerk[h.op.client].before
  <2>1. g.op = h.op /\ g.server = h.server /\ g.err = h.err /\ g.value = h.value
    BY <1>3, Zenon DEF Handler
  <2>2. Step(h, g)
    BY <1>7
  <2>3. ASSUME h.op.id = clerk[h.op.client].id
        PROVE  LogHasAll(W, Executed(i))
    <3>1. chosen[k].client = h.op.client /\ chosen[k].id = h.op.id
      BY <1>2, <1>3, <1>7, SameRequestIsSame
    <3>2. LogHasAll(W, k - 1)
      BY <1>2, <2>3, <3>1 DEF ChosenAfterBefore, ReadInv
    <3>3. k - 1 \in Int /\ Executed(i) \in Int /\ k - 1 <= Executed(i)
      BY <1>2, SMT
    <3> HIDE DEF W, k, i
    <3> QED
      BY <3>2, <3>3, LogHasAllMore
  <2>4. h.op.id = clerk[h.op.client].id /\ h.op.type = "Get"
          => /\ g.pc = "execute" => LogHasAll(W, Executed(i))
             /\ g.err \in {"OK", "ErrNoKey"} => ReadSince(g.value, W)
    BY <2>1, <2>3 DEF ReadersAreCurrent, ReadInv
  <2> HIDE DEF g
  <2> QED
    BY <1>1, <1>4, <2>1, <2>2, <2>4, ReaderMoves
<1> QED
  BY <1>5, <1>6, <1>7 DEF PopCommand

\* What is read is the state after what the server has executed.
LEMMA ExecuteGetReads ==
  ASSUME DistinctIds, TypeOK, ThreadInv, RequestInv, StateInv, ReadInv, NEW h \in handlers,
         ExecuteGetOpOnKVDB(h)
  PROVE  ReadInv'
<1> DEFINE i == h.server
           c == h.op.client
           g == [h EXCEPT !.pc = "erase", !.value = kvDB[i],
                          !.err = IF kvDB[i] = <<>> THEN "ErrNoKey" ELSE "OK"]
<1>1. /\ h.pc = "execute" /\ Step(h, g)
      /\ lastRequestId' = [lastRequestId EXCEPT ![i][ClientId[c]] = h.op.id]
      /\ UNCHANGED <<chosen, delivered, loop, clerk, answered>>
  BY DEF ExecuteGetOpOnKVDB, raftVars
<1>2. /\ h \in Handler /\ i \in Server /\ c \in Client /\ h.op.id \in Nat /\ h.op.type = "Get"
  BY <1>1, HandlerType DEF ThreadInv, HandlersInStep
<1>3. h.op.id = clerk[c].id => LogHasAll(clerk[c].before, Executed(i))
  BY <1>1, <1>2 DEF ReadersAreCurrent, ReadInv
<1>4. KnownAfterBefore'
  <2>1. \A j \in Server, d \in Client :
          Known(j, d)' = IF j = i /\ d = c THEN h.op.id ELSE Known(j, d)
    BY <1>1, <1>2, ClientIdAssumption DEF TypeOK, Known, DistinctIds
  <2>2. /\ \A j : Executed(j)' = Executed(j)
        /\ \A W, n : LogHasAll(W, n)' <=> LogHasAll(W, n)
    BY <1>1, Zenon DEF Executed, LogHasAll, LogHas
  <2> SUFFICES ASSUME NEW j \in Server, NEW d \in Client, Known(j, d)' = clerk[d].id
               PROVE  LogHasAll(clerk[d].before, Executed(j))
    BY <1>1, <2>2 DEF KnownAfterBefore
  <2>3. CASE j = i /\ d = c
    BY <1>3, <2>1, <2>3
  <2>4. CASE ~(j = i /\ d = c)
    BY <2>1, <2>4 DEF KnownAfterBefore, ReadInv
  <2> QED
    BY <2>3, <2>4
<1>5. g.op = h.op /\ g.server = h.server /\ g.pc = "erase" /\ g.value = kvDB[i]
  BY <1>2, Zenon DEF Handler
<1>6. h.op.id = clerk[c].id => ReadSince(g.value, clerk[c].before)
  <2>1. kvDB[i] = StateAfter[Executed(i)]
    BY <1>2 DEF DatabaseIsExecuted, StateInv
  <2>2. Executed(i) \in 0 .. Len(chosen)
    BY <1>2, ExecutedType, SMT DEF RequestInv
  <2> HIDE DEF StateAfter
  <2> QED
    BY <1>3, <1>5, <2>1, <2>2 DEF ReadSince
<1> HIDE DEF g
<1> QED
  BY <1>1, <1>4, <1>5, <1>6, ReaderMoves

LEMMA HandlerStepReads ==
  ASSUME DistinctIds, TypeOK, ThreadInv, RequestInv, StateInv, ReadInv, NEW h \in handlers,
         HandlerStep(h)
  PROVE  ReadInv'
BY QuietReads, PopCommandReads, ExecuteGetReads DEF HandlerStep

\* The loop goes on, and what it has executed only grows.
LEMMA LoopReads ==
  ASSUME TypeOK, ThreadInv, RequestInv, ReadInv,
         UNCHANGED <<chosen, handlers, clerk, answered>>,
         \A j \in Server : Executed(j)' \in Int /\ Executed(j) <= Executed(j)',
         \A j \in Server, d \in Client :
           \/ Known(j, d)' = Known(j, d)
           \/ Known(j, d)' = clerk[d].id => LogHasAll(clerk[d].before, Executed(j)')
  PROVE  ReadInv'
<1>1. ASSUME NEW j \in Server PROVE Executed(j) \in Int
  BY ExecutedType, SMT DEF RequestInv
<1>2. KnownAfterBefore'
  <2> SUFFICES ASSUME NEW j \in Server, NEW d \in Client, Known(j, d)' = clerk[d].id
               PROVE  LogHasAll(clerk[d].before, Executed(j)')
    BY LogUnchanged DEF KnownAfterBefore
  <2>1. CASE Known(j, d)' = Known(j, d)
    <3>1. LogHasAll(clerk[d].before, Executed(j))
      BY <2>1 DEF KnownAfterBefore, ReadInv
    <3> QED
      BY <1>1, <3>1, LogHasAllMore
  <2> QED
    BY <2>1
<1>3. ReadersAreCurrent'
  <2> SUFFICES ASSUME NEW h \in handlers, h.op.id = clerk[h.op.client].id, h.op.type = "Get",
                      NEW W, W = clerk[h.op.client].before
               PROVE  /\ h.pc = "execute" => LogHasAll(W, Executed(h.server)')
                      /\ h.err \in {"OK", "ErrNoKey"} => ReadSince(h.value, W)
    BY LogUnchanged DEF ReadersAreCurrent
  <2>1. /\ h.pc = "execute" => LogHasAll(W, Executed(h.server))
        /\ h.err \in {"OK", "ErrNoKey"} => ReadSince(h.value, W)
    BY DEF ReadersAreCurrent, ReadInv
  <2>2. h.server \in Server
    BY HandlerType
  <2> QED
    BY <1>1, <2>1, <2>2, LogHasAllMore
<1> QED
  BY <1>2, <1>3, ServersRead

LEMMA LoopStepReads ==
  ASSUME DistinctIds, TypeOK, ThreadInv, RequestInv, ReadInv, TypeOK', ThreadInv', RequestInv',
         NEW i \in Server, LoopStep(i)
  PROVE  ReadInv'
<1>1. UNCHANGED <<chosen, handlers, clerk, answered>>
  BY DEF LoopStep, GetCommandFromRaft, ExecuteOp, SendMessageToWaitChan, raftVars
<1>2. \A j \in Server : /\ delivered[j] \in Seq(Op) /\ Len(delivered[j]) \in Nat
                        /\ loop[j] = "execute" => Len(delivered[j]) > 0
  <2> SUFFICES ASSUME NEW j \in Server
               PROVE  /\ delivered[j] \in Seq(Op) /\ Len(delivered[j]) \in Nat
                      /\ loop[j] = "execute" => Len(delivered[j]) > 0
    OBVIOUS
  <2>1. /\ delivered[j] \in Seq(Op)
        /\ loop[j] = "execute" => delivered[j] # <<>>
    BY DEF TypeOK, ThreadInv, LoopHasCommand
  <2> QED
    BY <2>1, EmptySeq, LenProperties, SMT
<1>3. loop \in [Server -> {"pop", "execute", "send"}] /\ delivered \in [Server -> Seq(Op)]
  BY DEF TypeOK
<1>4. CASE GetCommandFromRaft(i)
  <2>1. PICK op : /\ op = chosen[Len(delivered[i]) + 1]
                  /\ delivered' = [delivered EXCEPT ![i] = Append(delivered[i], op)]
    BY <1>4 DEF GetCommandFromRaft
  <2>2. loop[i] = "pop" /\ Len(delivered[i]) < Len(chosen) /\ UNCHANGED lastRequestId
        /\ loop' = [loop EXCEPT ![i] = IF Skips(i, op) THEN "send" ELSE "execute"]
    BY <1>4, <2>1 DEF GetCommandFromRaft, storeVars
  <2>3. op \in Op
    <3>1. chosen \in Seq(Op) /\ Len(delivered[i]) + 1 \in 1 .. Len(chosen)
      BY <1>2, <2>2, LenProperties, SMT DEF TypeOK
    <3> QED
      BY <2>1, <3>1, ElementOfSeq
  <2>4. Len(delivered'[i]) = Len(delivered[i]) + 1
        /\ \A j \in Server \ {i} : delivered'[j] = delivered[j] /\ loop'[j] = loop[j]
    BY <1>2, <1>3, <2>1, <2>2, <2>3, AppendProperties
  <2>5. ASSUME NEW j \in Server PROVE Executed(j)' \in Int /\ Executed(j) <= Executed(j)'
    <3>1. CASE j = i
      BY <1>2, <2>2, <2>4, <3>1, SMT DEF Executed
    <3>2. CASE j # i
      BY <1>2, <2>4, <3>2, SMT DEF Executed
    <3> QED
      BY <3>1, <3>2
  <2>6. \A j, d : Known(j, d)' = Known(j, d)
    BY <2>2, Zenon DEF Known
  <2> QED
    BY <1>1, <2>5, <2>6, LoopReads
<1>5. CASE ExecuteOp(i)
  <2>1. PICK op, c, n : op = Current(i) /\ c = op.client /\ n = Len(delivered[i])
    OBVIOUS
  <2>2. /\ loop[i] = "execute" /\ loop' = [loop EXCEPT ![i] = "send"]
        /\ lastRequestId' = [lastRequestId EXCEPT ![i][ClientId[c]] = op.id]
        /\ UNCHANGED delivered
    BY <1>5, <2>1 DEF ExecuteOp
  <2>3. op = chosen[n] /\ n \in DOMAIN chosen /\ n \in Nat /\ c \in Client
    BY <2>1, <2>2, CurrentIsChosen
  <2>4. \A j \in Server, d \in Client :
          Known(j, d)' = IF j = i /\ d = c THEN op.id ELSE Known(j, d)
    BY <2>2, <2>3, ClientIdAssumption DEF TypeOK, Known, DistinctIds
  <2>5. Executed(i)' = n /\ \A j \in Server \ {i} : Executed(j)' = Executed(j)
    BY <1>3, <2>1, <2>2, Zenon DEF Executed
  <2>6. ASSUME NEW j \in Server PROVE Executed(j)' \in Int /\ Executed(j) <= Executed(j)'
    <3>1. CASE j = i
      BY <1>2, <2>1, <2>2, <2>5, <3>1, SMT DEF Executed
    <3>2. CASE j # i
      BY <1>2, <2>5, <3>2, SMT DEF Executed
    <3> QED
      BY <3>1, <3>2
  <2>7. op.id = clerk[c].id => LogHasAll(clerk[c].before, n)
    <3> SUFFICES ASSUME op.id = clerk[c].id PROVE LogHasAll(clerk[c].before, n)
      OBVIOUS
    <3>1. LogHasAll(clerk[c].before, n - 1)
      BY <2>1, <2>3 DEF ChosenAfterBefore, ReadInv
    <3>2. n - 1 \in Int /\ n \in Int /\ n - 1 <= n
      BY <2>3, SMT
    <3> QED
      BY <3>1, <3>2, LogHasAllMore
  <2>8. \A j \in Server, d \in Client :
           \/ Known(j, d)' = Known(j, d)
           \/ Known(j, d)' = clerk[d].id => LogHasAll(clerk[d].before, Executed(j)')
    BY <2>4, <2>5, <2>7
  <2> QED
    BY <1>1, <2>6, <2>8, LoopReads
<1>6. CASE SendMessageToWaitChan(i)
  <2>1. /\ loop[i] = "send" /\ loop' = [loop EXCEPT ![i] = "pop"]
        /\ UNCHANGED <<delivered, lastRequestId>>
    BY <1>6 DEF SendMessageToWaitChan, storeVars
  <2>2. \A j \in Server : Executed(j)' = Executed(j)
    BY <1>3, <2>1, Zenon DEF Executed
  <2>3. \A j \in Server : Executed(j) \in Nat
    BY ExecutedType DEF RequestInv
  <2>4. \A j \in Server : Executed(j)' \in Int /\ Executed(j) <= Executed(j)'
    BY <2>2, <2>3, SMT
  <2>5. \A j, d : Known(j, d)' = Known(j, d)
    BY <2>1, Zenon DEF Known
  <2> QED
    BY <1>1, <2>4, <2>5, LoopReads
<1> QED
  BY <1>4, <1>5, <1>6 DEF LoopStep

\* What is chosen next comes after all that was answered, since that is chosen.
LEMMA CommitEntryReads ==
  ASSUME TypeOK, ThreadInv, RequestInv, ReadInv, CommitEntry
  PROVE  ReadInv'
<1>1. PICK p \in proposed : p.index = Len(chosen) + 1 /\ chosen' = Append(chosen, p.op)
  BY DEF CommitEntry
<1>2. PICK L, op : L = Len(chosen) /\ op = p.op
  OBVIOUS
<1>3. op \in Op /\ chosen \in Seq(Op) /\ chosen' = Append(chosen, op)
  BY <1>1, <1>2 DEF TypeOK
<1>4. /\ Len(chosen') = L + 1 /\ L \in Nat
      /\ \A n \in 1 .. L : chosen'[n] = chosen[n]
      /\ DOMAIN chosen = 1 .. L /\ DOMAIN chosen' = 1 .. L + 1
  BY <1>2, <1>3, ChosenGrows, LenProperties
<1>5. /\ \A W : \A n \in Int : n <= L => (LogHasAll(W, n)' <=> LogHasAll(W, n))
      /\ \A value, W : ReadSince(value, W) => ReadSince(value, W)'
  BY <1>2, <1>3, LogGrows
<1>6. UNCHANGED <<delivered, lastRequestId, loop, handlers, clerk, answered>>
  BY DEF CommitEntry, storeVars
<1>7. ASSUME NEW i \in Server
      PROVE  Executed(i)' = Executed(i) /\ Executed(i) \in Int /\ Executed(i) <= L
  <2>1. Executed(i)' = Executed(i)
    BY <1>6, Zenon DEF Executed
  <2> QED
    BY <1>2, <2>1, ExecutedType, SMT DEF RequestInv
<1>8. BeforeIsAnswered'
  BY <1>6 DEF BeforeIsAnswered, ReadInv
<1>9. ChosenAfterBefore'
  <2> SUFFICES ASSUME NEW n \in DOMAIN chosen', NEW c, NEW m, c = chosen'[n].client, m = n - 1,
                      chosen'[n].id = clerk[c].id
               PROVE  LogHasAll(clerk[c].before, m)'
    BY <1>6 DEF ChosenAfterBefore
  <2>1. n \in 1 .. L + 1 /\ m \in Int /\ m <= L
    BY <1>4, SMT
  <2>2. CASE n \in 1 .. L
    <3>1. chosen'[n] = chosen[n] /\ n \in DOMAIN chosen
      BY <1>4, <2>2
    <3>2. LogHasAll(clerk[c].before, m)
      BY <3>1 DEF ChosenAfterBefore, ReadInv
    <3> QED
      BY <1>5, <1>6, <2>1, <3>2
  <2>3. CASE n \notin 1 .. L
    <3>1. m = L
      BY <1>4, <2>1, <2>3, SMT
    <3>2. c \in Client
      BY <1>2, <1>3, <1>4, <2>1, <2>3, AppendProperties, SMT DEF Op
    <3>3. LogHasAll(clerk[c].before, L)
      BY <1>4, <3>2 DEF BeforeIsAnswered, AnsweredIsChosen, ReadInv, RequestInv, LogHasAll, LogHas
    <3> QED
      BY <1>5, <1>6, <2>1, <3>1, <3>3
  <2> QED
    BY <2>2, <2>3
<1>10. KnownAfterBefore'
  <2>1. \A i, c : Known(i, c)' = Known(i, c)
    BY <1>6, Zenon DEF Known
  <2> SUFFICES ASSUME NEW i \in Server, NEW c \in Client, Known(i, c) = clerk[c].id
               PROVE  LogHasAll(clerk[c].before, Executed(i))'
    BY <1>6, <2>1 DEF KnownAfterBefore
  <2>2. LogHasAll(clerk[c].before, Executed(i))
    BY DEF KnownAfterBefore, ReadInv
  <2> QED
    BY <1>5, <1>6, <1>7, <2>2
<1>11. ReadersAreCurrent'
  <2> SUFFICES ASSUME NEW h \in handlers, h.op.id = clerk[h.op.client].id, h.op.type = "Get",
                      NEW W, W = clerk[h.op.client].before, NEW n, n = Executed(h.server),
                      NEW value, value = h.value
               PROVE  /\ h.pc = "execute" => LogHasAll(W, n)'
                      /\ h.err \in {"OK", "ErrNoKey"} => ReadSince(value, W)'
    BY <1>6, <1>7, HandlerType DEF ReadersAreCurrent
  <2>1. /\ h.pc = "execute" => LogHasAll(W, n)
        /\ h.err \in {"OK", "ErrNoKey"} => ReadSince(value, W)
    BY DEF ReadersAreCurrent, ReadInv
  <2>2. n \in Int /\ n <= L
    BY <1>7, HandlerType
  <2> QED
    BY <1>5, <2>1, <2>2
<1>12. ReadsAreCurrent'
  BY <1>5, <1>6, ReadsAreSince, ReadsGoOn DEF ReadInv
<1> QED
  BY <1>8, <1>9, <1>10, <1>11, <1>12 DEF ReadInv

\* A clerk goes on, with its request or with a new one that nothing has yet.
LEMMA ClerkReads ==
  ASSUME TypeOK, ThreadInv, RequestInv, ReadInv,
         UNCHANGED <<chosen, delivered, lastRequestId, loop>>, answered \subseteq answered',
         \A d \in Client : \/ clerk'[d].id = clerk[d].id /\ clerk'[d].before = clerk[d].before
                           \/ clerk'[d].id = clerk[d].id + 1 /\ clerk'[d].before \subseteq answered,
         \A f \in handlers' : f \in handlers \/ (f.pc = "start" /\ f.err = "none"),
         ReadsAreCurrent'
  PROVE  ReadInv'
<1>1. /\ \A W, n : LogHasAll(W, n)' <=> LogHasAll(W, n)
      /\ \A value, W : ReadSince(value, W)' <=> ReadSince(value, W)
      /\ \A i : Executed(i)' = Executed(i)
      /\ \A i, c : Known(i, c)' = Known(i, c)
  BY LogUnchanged, Zenon DEF Executed, Known
<1>2. ASSUME NEW d \in Client, NEW id \in Nat, id <= clerk[d].id, id = clerk'[d].id
      PROVE  id = clerk[d].id /\ clerk'[d].before = clerk[d].before
  <2>1. clerk[d].id \in Nat
    BY ClerkType
  <2> QED
    BY <1>2, <2>1, SMT
<1>3. BeforeIsAnswered'
  BY DEF BeforeIsAnswered, ReadInv
<1>4. ASSUME NEW op \in Op, Genuine(op)
      PROVE  op.client \in Client /\ op.id \in Nat /\ op.id <= clerk[op.client].id
  <2>1. op.client \in Client /\ op.id \in Nat /\ op.id \in 1 .. clerk[op.client].id
    BY <1>4 DEF Op, Genuine
  <2>2. clerk[op.client].id \in Nat
    BY <2>1, ClerkType
  <2> QED
    BY <2>1, <2>2, SMT
<1>5. ChosenAfterBefore'
  <2> SUFFICES ASSUME NEW n \in DOMAIN chosen, NEW c, c = chosen[n].client,
                      chosen[n].id = clerk'[c].id
               PROVE  LogHasAll(clerk'[c].before, n - 1)
    BY <1>1 DEF ChosenAfterBefore
  <2>1. c \in Client /\ chosen[n].id \in Nat /\ chosen[n].id <= clerk[c].id
    BY <1>4, ChosenType DEF OpsAreGenuine, RequestInv
  <2>2. chosen[n].id = clerk[c].id /\ clerk'[c].before = clerk[c].before
    BY <1>2, <2>1
  <2> QED
    BY <2>2 DEF ChosenAfterBefore, ReadInv
<1>6. KnownAfterBefore'
  <2> SUFFICES ASSUME NEW i \in Server, NEW c \in Client, Known(i, c) = clerk'[c].id
               PROVE  LogHasAll(clerk'[c].before, Executed(i))
    BY <1>1 DEF KnownAfterBefore
  <2>1. Known(i, c) \in Nat /\ Known(i, c) <= clerk[c].id
    BY ClientIdAssumption DEF Known, TypeOK, KnownIsExecuted, RequestInv
  <2>2. Known(i, c) = clerk[c].id /\ clerk'[c].before = clerk[c].before
    BY <1>2, <2>1
  <2> QED
    BY <2>2 DEF KnownAfterBefore, ReadInv
<1>7. ReadersAreCurrent'
  <2> SUFFICES ASSUME NEW h \in handlers', NEW c, c = h.op.client, h.op.id = clerk'[c].id,
                      h.op.type = "Get"
               PROVE  /\ h.pc = "execute" => LogHasAll(clerk'[c].before, Executed(h.server))
                      /\ h.err \in {"OK", "ErrNoKey"} => ReadSince(h.value, clerk'[c].before)
    BY <1>1 DEF ReadersAreCurrent
  <2>1. CASE h \in handlers
    <3>1. c \in Client /\ h.op.id \in Nat /\ h.op.id <= clerk[c].id
      BY <1>4, <2>1, HandlerOpGenuine
    <3>2. h.op.id = clerk[c].id /\ clerk'[c].before = clerk[c].before
      BY <1>2, <3>1
    <3> QED
      BY <2>1, <3>2 DEF ReadersAreCurrent, ReadInv
  <2>2. CASE h.pc = "start" /\ h.err = "none"
    BY <2>2
  <2> QED
    BY <2>1, <2>2
<1> QED
  BY <1>3, <1>5, <1>6, <1>7 DEF ReadInv

\* ReadsAreCurrent of the clerks that a step leaves as they are.
LEMMA OthersReadBefore ==
  ASSUME TypeOK, ReadInv, chosen' = chosen,
         \A d \in Client :
           ~clerk'[d].calling /\ clerk'[d].id > 0 /\ Script[d][clerk'[d].id] = "Get"
             => \/ /\ clerk'[d].calling = clerk[d].calling /\ clerk'[d].id = clerk[d].id
                   /\ clerk'[d].value = clerk[d].value /\ clerk'[d].before = clerk[d].before
                \/ ReadSince(clerk'[d].value, clerk'[d].before)
  PROVE  ReadsAreCurrent'
<1>1. \A value, W : ReadSince(value, W) => ReadSince(value, W)'
  BY LogUnchanged
<1> QED
  BY <1>1, ReadsAreSince, ReadsGoOn DEF ReadInv

LEMMA ClerkCallsReads ==
  ASSUME TypeOK, ThreadInv, RequestInv, ReadInv, NEW c \in Client, ClerkCalls(c)
  PROVE  ReadInv'
<1> DEFINE id == clerk[c].id + 1
           b == IF Script[c][id] = "Get" THEN answered ELSE {}
           new == [clerk[c] EXCEPT !.calling = TRUE, !.id = id, !.server = clerk[c].recentLeader,
                                   !.attempt = 1, !.value = <<>>, !.before = b]
<1>1. PICK f : f = Called(OpOf(c, id), clerk[c].recentLeader, 1)
  OBVIOUS
<1>2. /\ clerk' = [clerk EXCEPT ![c] = new] /\ handlers' = handlers \cup {f}
      /\ UNCHANGED <<chosen, delivered, lastRequestId, loop, answered>>
  BY <1>1 DEF ClerkCalls, raftVars, storeVars
<1>3. clerk \in [Client -> Clerk] /\ clerk[c] \in Clerk
  BY DEF TypeOK
<1>4. new.id = id /\ new.calling = TRUE /\ new.before = b
  BY <1>3, Zenon DEF Clerk
<1>5. f.pc = "start" /\ f.err = "none"
  BY <1>1 DEF Called
<1> HIDE DEF new
<1>6. /\ clerk'[c].id = clerk[c].id + 1 /\ clerk'[c].calling = TRUE
      /\ clerk'[c].before \subseteq answered
      /\ \A d \in Client \ {c} : clerk'[d] = clerk[d]
  BY <1>2, <1>3, <1>4
<1>7. ReadsAreCurrent'
  BY <1>2, <1>6, OthersReadBefore
<1> QED
  BY <1>2, <1>5, <1>6, <1>7, ClerkReads

LEMMA RetriesReads ==
  ASSUME TypeOK, ThreadInv, RequestInv, ReadInv, NEW c \in Client, NEW server,
         Retries(c, server), handlers' \subseteq handlers \cup {Retry(c, server)},
         UNCHANGED <<raftVars, delivered, storeVars, loop, answered>>
  PROVE  ReadInv'
<1> DEFINE new == [clerk[c] EXCEPT !.server = server, !.attempt = clerk[c].attempt + 1]
<1>1. /\ clerk' = [clerk EXCEPT ![c] = new]
      /\ UNCHANGED <<chosen, delivered, lastRequestId, loop, answered>>
  BY DEF Retries, raftVars, storeVars
<1>2. clerk \in [Client -> Clerk] /\ clerk[c] \in Clerk
  BY DEF TypeOK
<1>3. /\ new.id = clerk[c].id /\ new.calling = clerk[c].calling
      /\ new.value = clerk[c].value /\ new.before = clerk[c].before
  BY <1>2, Zenon DEF Clerk
<1>4. \A f \in handlers' : f \in handlers \/ (f.pc = "start" /\ f.err = "none")
  BY DEF Retry, Called
<1> HIDE DEF new
<1>5. \A d \in Client :
        /\ clerk'[d].id = clerk[d].id /\ clerk'[d].calling = clerk[d].calling
        /\ clerk'[d].value = clerk[d].value /\ clerk'[d].before = clerk[d].before
  BY <1>1, <1>2, <1>3
<1>6. ReadsAreCurrent'
  BY <1>1, <1>5, OthersReadBefore
<1> QED
  BY <1>1, <1>4, <1>5, <1>6, ClerkReads

LEMMA CallFailsReads ==
  ASSUME TypeOK, ThreadInv, RequestInv, ReadInv, NEW c \in Client, CallFails(c)
  PROVE  ReadInv'
<1>1. PICK server : Retries(c, server) /\ handlers' = handlers \cup {Retry(c, server)}
  BY DEF CallFails
<1>2. handlers' \subseteq handlers \cup {Retry(c, server)}
  BY <1>1
<1> QED
  BY <1>1, <1>2, RetriesReads DEF CallFails

LEMMA WrongLeaderReads ==
  ASSUME TypeOK, ThreadInv, RequestInv, ReadInv, NEW h \in handlers, WrongLeader(h.op.client, h)
  PROVE  ReadInv'
<1>1. PICK c, server : c = h.op.client /\ server = NextServer[clerk[c].server]
  OBVIOUS
<1>2. Retries(c, server) /\ handlers' \subseteq handlers \cup {Retry(c, server)}
  BY <1>1 DEF WrongLeader
<1>3. c \in Client
  BY <1>1, HandlerType
<1> QED
  BY <1>2, <1>3, RetriesReads DEF WrongLeader

\* A clerk is told what its handler has read.
LEMMA AnsweredReads ==
  ASSUME TypeOK, ThreadInv, RequestInv, ReadInv, NEW h \in handlers, Answered(h.op.client, h)
  PROVE  ReadInv'
<1>1. PICK c : c = h.op.client
  OBVIOUS
<1> DEFINE leader == IF h.err = "OK" THEN clerk[c].server ELSE clerk[c].recentLeader
           new == [clerk[c] EXCEPT !.calling = FALSE, !.attempt = 0, !.value = h.value,
                                   !.recentLeader = leader]
<1>2. /\ h.op.id = clerk[c].id /\ h.err \in {"OK", "ErrNoKey"}
      /\ clerk' = [clerk EXCEPT ![c] = new]
      /\ handlers' \subseteq handlers /\ answered \subseteq answered'
      /\ UNCHANGED <<chosen, delivered, lastRequestId, loop>>
  BY <1>1 DEF Answered, Serves, raftVars, storeVars
<1>3. c \in Client /\ clerk \in [Client -> Clerk] /\ clerk[c] \in Clerk
  BY <1>1, HandlerType DEF TypeOK
<1>4. new.id = clerk[c].id /\ new.value = h.value /\ new.before = clerk[c].before
  BY <1>3, Zenon DEF Clerk
<1> HIDE DEF new
<1>5. /\ clerk'[c].id = clerk[c].id /\ clerk'[c].value = h.value
      /\ clerk'[c].before = clerk[c].before
      /\ \A d \in Client \ {c} : clerk'[d] = clerk[d]
  BY <1>2, <1>3, <1>4
<1>6. Script[c][clerk[c].id] = "Get" => ReadSince(h.value, clerk[c].before)
  <2>1. h.op.type = Script[c][h.op.id]
    BY <1>1, HandlerOpGenuine DEF Genuine
  <2> QED
    BY <1>1, <1>2, <2>1 DEF ReadersAreCurrent, ReadInv
<1>7. ReadsAreCurrent'
  BY <1>2, <1>5, <1>6, OthersReadBefore
<1> QED
  BY <1>2, <1>5, <1>7, ClerkReads

LEMMA LostReads ==
  ASSUME TypeOK, ThreadInv, RequestInv, ReadInv, handlers' \subseteq handlers,
         UNCHANGED <<raftVars, delivered, storeVars, loop, clerk, answered>>
  PROVE  ReadInv'
<1>1. UNCHANGED <<chosen, delivered, lastRequestId, loop, clerk, answered>>
  BY DEF raftVars, storeVars
<1>2. ReadsAreCurrent'
  BY <1>1, OthersReadBefore
<1> QED
  BY <1>1, <1>2, ClerkReads

LEMMA ReadsStep ==
  ASSUME DistinctIds, TypeOK, ThreadInv, RequestInv, StateInv, ReadInv, [Next]_vars
  PROVE  ReadInv'
<1>1. TypeOK' /\ ThreadInv' /\ RequestInv'
  BY ThreadsStep, RequestsStep
<1>2. CASE UNCHANGED vars
  BY <1>2, LostReads DEF vars
<1>3. ASSUME NEW h \in handlers, Lost(h) PROVE ReadInv'
  BY <1>3, LostReads DEF Lost
<1>4. CASE Next
  BY <1>1, <1>3, <1>4, CommitEntryReads, LoopStepReads, ClerkCallsReads, CallFailsReads,
     HandlerStepReads, WrongLeaderReads, AnsweredReads DEF Next
<1> QED
  BY <1>2, <1>4

LEMMA ReadsInit ==
  ASSUME Init
  PROVE  ReadInv
<1>1. /\ chosen = <<>> /\ handlers = {} /\ answered = {}
      /\ \A c \in Client : clerk[c].id = 0 /\ clerk[c].before = {}
  BY DEF Init, LogInit
<1>2. ReadsAreCurrent
  BY <1>1, SMT DEF ReadsAreCurrent
<1>3. BeforeIsAnswered /\ ReadersAreCurrent
  BY <1>1 DEF BeforeIsAnswered, ReadersAreCurrent
<1>4. KnownAfterBefore
  BY <1>1 DEF KnownAfterBefore, LogHasAll
<1>5. ChosenAfterBefore
  BY <1>1 DEF ChosenAfterBefore
<1> QED
  BY <1>2, <1>3, <1>4, <1>5 DEF ReadInv

\* All that KvServerInvariants says of threads, requests, databases and reads holds
\* whatever clerks call, as long as no late Get takes m_lastRequestId back.
THEOREM KvInvariant == ASSUME DistinctIds PROVE OrderedSpec => [](TypeOK /\ KvInv)
<1>1. Init => TypeOK /\ KvInv
  BY ThreadsInit, RequestsInit, StatesInit, ReadsInit DEF KvInv
<1>2. /\ TypeOK /\ KvInv /\ [Next /\ ~\E h \in handlers : ForgetsWrite(h)]_vars
      => TypeOK' /\ KvInv'
  BY ThreadsStep, RequestsStep, StatesStep, ReadsStep DEF KvInv
<1> QED
  BY <1>1, <1>2, PTL DEF OrderedSpec

\* A read returns the state after some prefix of the log that has every write
\* answered before the read was called, also when it timed out and was answered
\* from the database of a server that had long lost its leadership.
THEOREM ReadsSeeAnswered == ASSUME DistinctIds PROVE OrderedSpec => []ReadsAreCurrent
<1>1. TypeOK /\ KvInv => ReadsAreCurrent
  BY DEF KvInv, ReadInv
<1> QED
  BY <1>1, KvInvariant, PTL

=============================================================================
