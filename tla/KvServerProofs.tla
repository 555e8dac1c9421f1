--------------------------- MODULE KvServerProofs ---------------------------
(***************************************************************************)
(* Theorems about KvServer, for every number of servers and clients, every *)
(* script and every value of the bounds.                                   *)
(***************************************************************************)
EXTENDS KvServerInvariants, FiniteSetTheorems, SequenceTheorems, TLAPS

-----------------------------------------------------------------------------
\* What the helpers return

LEMMA OpOfType ==
  ASSUME NEW c \in Client, NEW id \in 1 .. Len(Script[c])
  PROVE  OpOf(c, id) \in Op
<1>1. Script[c] \in Seq({"Put", "Append", "Get"})
  BY ScriptAssumption
<1>2. Script[c][id] \in {"Put", "Append", "Get"} /\ id \in Nat
  BY <1>1, ElementOfSeq, LenProperties, SMT
<1> QED
  BY <1>2, Zenon DEF OpOf, Op

LEMMA CalledType ==
  ASSUME NEW op \in Op, NEW server \in Server, NEW n \in Nat
  PROVE  Called(op, server, n) \in Handler
<1>1. 0 \in 0 .. MaxIndex /\ <<>> \in Value
  BY BoundAssumption, SMT DEF Value
<1> QED
  BY <1>1, SMT DEF Called, Handler, Err

LEMMA WriteOfType ==
  ASSUME NEW op \in Op
  PROVE  WriteOf(op) \in Written
BY SMT DEF WriteOf, Written, Op

LEMMA EffectType ==
  ASSUME NEW value \in Value, NEW op \in Op
  PROVE  Effect(value, op) \in Value
BY WriteOfType, AppendProperties, SMT DEF Effect, Value

LEMMA CurrentType ==
  ASSUME TypeOK, LoopHasCommand, NEW i \in Server, loop[i] # "pop"
  PROVE  /\ Current(i) = delivered[i][Len(delivered[i])]
         /\ Len(delivered[i]) \in Nat \ {0}
         /\ Current(i) \in Op
<1>1. delivered[i] \in Seq(Op) /\ delivered[i] # <<>>
  BY DEF TypeOK, LoopHasCommand
<1>2. Len(delivered[i]) \in Nat \ {0}
  BY <1>1, EmptySeq, LenProperties, SMT
<1>3. Current(i) = delivered[i][Len(delivered[i])]
  BY Zenon DEF Current, Last
<1> QED
  BY <1>1, <1>2, <1>3, ElementOfSeq, SMT

-----------------------------------------------------------------------------
\* Threads

\* A handler goes on with the index it has, or gives it back.
LEMMA HandlerMoves ==
  ASSUME TypeOK, ThreadInv, NEW h \in handlers, NEW g \in Handler, Step(h, g),
         g.server = h.server, g.index \in {0, h.index}, issued' = issued,
         IF g.pc \in {"start", "reply"} THEN g.index = 0 ELSE g.index \in 1 .. issued[g.server],
         g.pc \in {"check", "execute"} => g.op.type = "Get"
  PROVE  handlers' \subseteq Handler /\ HandlersInStep' /\ IndexIsOwned'
<1>1. handlers' = (handlers \ {h}) \cup {g} /\ handlers \subseteq Handler
  BY DEF Step, TypeOK
<1>2. handlers' \subseteq Handler
  BY <1>1
<1>3. HandlersInStep'
  BY <1>1, SMT DEF HandlersInStep, ThreadInv
<1>4. IndexIsOwned'
  <2> SUFFICES ASSUME NEW a \in handlers', NEW b \in handlers',
                      a.server = b.server, a.index = b.index, b.index # 0
               PROVE  a = b
    BY DEF IndexIsOwned
  <2>1. ASSUME NEW f \in handlers, f.server = g.server, f.index = g.index, g.index # 0
        PROVE  f = h
    BY <2>1 DEF IndexIsOwned, ThreadInv
  <2>2. ASSUME NEW f \in handlers \ {h} PROVE ~(f.server = g.server /\ f.index = g.index /\ g.index # 0)
    BY <2>1, <2>2
  <2>3. CASE a = g /\ b # g
    BY <1>1, <2>2, <2>3
  <2>4. CASE b = g /\ a # g
    BY <1>1, <2>2, <2>4
  <2>5. CASE a # g /\ b # g
    BY <1>1, <2>5 DEF IndexIsOwned, ThreadInv
  <2> QED
    BY <2>3, <2>4, <2>5
<1> QED
  BY <1>2, <1>3, <1>4

\* The queues of other handlers stay as they are when one handler moves.
LEMMA QueuesStay ==
  ASSUME ThreadInv, NEW h \in handlers, NEW g, Step(h, g),
         g.pc \in {"wait", "timedOut", "check", "execute", "erase"}
           => waitApplyCh'[g.server][g.index] # NoQueue,
         \A f \in handlers \ {h} :
           f.pc \in {"wait", "timedOut", "check", "execute", "erase"}
             => waitApplyCh'[f.server][f.index] # NoQueue
  PROVE  QueueIsRegistered'
BY DEF Step, QueueIsRegistered

LEMMA StartRequestThreads ==
  ASSUME TypeOK, ThreadInv, NEW h \in handlers, StartRequest(h)
  PROVE  TypeOK' /\ ThreadInv'
<1> DEFINE i == h.server
<1>1. PICK k \in FreshIndex(i) :
        /\ issued' = [issued EXCEPT ![i] = k]
        /\ proposed' = proposed \cup {[index |-> k, op |-> h.op]}
        /\ Step(h, [h EXCEPT !.pc = "register", !.index = k])
  BY DEF StartRequest
<1> DEFINE g == [h EXCEPT !.pc = "register", !.index = k]
<1>2. /\ k \in Index /\ k > issued[i] /\ k \in 1 .. MaxIndex /\ k \in 0 .. MaxIndex
      /\ h \in Handler /\ i \in Server /\ h.op \in Op /\ issued[i] \in Nat
  BY BoundAssumption, SMT DEF FreshIndex, Index, TypeOK, Handler
<1>3. g \in Handler /\ g.server = i /\ g.index = k /\ g.pc = "register"
  BY <1>2, Zenon DEF Handler
<1>4. handlers' = (handlers \ {h}) \cup {g} /\ handlers \subseteq Handler
  BY <1>1 DEF Step, TypeOK
<1>5. UNCHANGED <<chosen, delivered, kvDB, lastRequestId, waitApplyCh, loop, clerk, answered>>
  BY DEF StartRequest, storeVars
<1>6. TypeOK'
  <2>1. issued' \in [Server -> 0 .. MaxIndex]
    BY <1>1, <1>2 DEF TypeOK
  <2>2. proposed' \subseteq [index : Index, op : Op]
    BY <1>1, <1>2 DEF TypeOK
  <2>3. handlers' \subseteq Handler
    BY <1>3, <1>4
  <2> QED
    BY <1>5, <2>1, <2>2, <2>3 DEF TypeOK
<1>7. issued \in [Server -> 0 .. MaxIndex] /\ \A j \in Server : issued'[j] \in Nat /\ issued'[j] >= issued[j]
  BY <1>1, <1>2, BoundAssumption, SMT DEF TypeOK
<1>8. ASSUME NEW f \in handlers, f.server = i, f.index # 0 PROVE f.index < k
  BY <1>2, <1>8, <1>7, SMT DEF ThreadInv, HandlersInStep
<1>9. HandlersInStep'
  <2>1. ASSUME NEW f \in handlers
        PROVE  /\ IF f.pc \in {"start", "reply"} THEN f.index = 0 ELSE f.index \in 1 .. issued'[f.server]
               /\ f.pc \in {"check", "execute"} => f.op.type = "Get"
    <3>1. /\ IF f.pc \in {"start", "reply"} THEN f.index = 0 ELSE f.index \in 1 .. issued[f.server]
          /\ f.pc \in {"check", "execute"} => f.op.type = "Get"
      BY DEF ThreadInv, HandlersInStep
    <3>2. f.server \in Server
      BY <1>4 DEF Handler
    <3> QED
      BY <3>1, <3>2, <1>7, SMT
  <2>2. g.index \in 1 .. issued'[g.server]
    BY <1>1, <1>2, <1>3, SMT DEF TypeOK
  <2> QED
    BY <1>3, <1>4, <2>1, <2>2 DEF HandlersInStep
<1>10. IndexIsOwned'
  <2>1. ASSUME NEW f \in handlers PROVE ~(f.server = g.server /\ f.index = g.index)
    BY <1>2, <1>3, <1>8, SMT
  <2> QED
    BY <1>4, <2>1 DEF IndexIsOwned, ThreadInv
<1>11. QueueIsRegistered'
  BY <1>3, <1>4, <1>5 DEF QueueIsRegistered, ThreadInv
<1> QED
  BY <1>5, <1>6, <1>9, <1>10, <1>11 DEF ThreadInv, LoopHasCommand, ClerkInScript

\* The steps of a handler that neither start it nor touch its queue.
LEMMA QuietThreads ==
  ASSUME TypeOK, ThreadInv, NEW h \in handlers,
         \/ RefuseRequest(h) \/ PopTimesOut(h) \/ ReadLeadership(h) \/ ReadAfterTimeout(h)
         \/ WriteAfterTimeout(h) \/ ExecuteGetOpOnKVDB(h)
  PROVE  TypeOK' /\ ThreadInv'
<1>1. /\ h \in Handler /\ h.server \in Server /\ h.op \in Op
      /\ kvDB \in [Server -> Value] /\ lastRequestId \in [Server -> [Client -> Nat]]
  BY DEF TypeOK, Handler
<1>2. /\ UNCHANGED <<issued, proposed, chosen, delivered, kvDB, waitApplyCh, loop, clerk, answered>>
      /\ lastRequestId' \in [Server -> [Client -> Nat]]
  <2>1. ASSUME ExecuteGetOpOnKVDB(h) PROVE lastRequestId' \in [Server -> [Client -> Nat]]
    <3>1. ClientId[h.op.client] \in Client /\ h.op.id \in Nat
      BY <1>1, ClientIdAssumption DEF Op
    <3>2. lastRequestId' = [lastRequestId EXCEPT ![h.server][ClientId[h.op.client]] = h.op.id]
      BY <2>1 DEF ExecuteGetOpOnKVDB
    <3> QED
      BY <1>1, <3>1, <3>2
  <2> QED
    BY <1>1, <2>1 DEF RefuseRequest, PopTimesOut, ReadLeadership, ReadAfterTimeout,
       WriteAfterTimeout, ExecuteGetOpOnKVDB, raftVars, storeVars
<1>3. \E g \in Handler :
        /\ Step(h, g) /\ g.server = h.server /\ g.index = h.index
        /\ h.pc \in {"start", "reply"} <=> g.pc \in {"start", "reply"}
        /\ g.pc \in {"check", "execute"} => g.op.type = "Get"
        /\ g.pc \in {"wait", "timedOut", "check", "execute", "erase"}
             => h.pc \in {"wait", "timedOut", "check", "execute", "erase"}
  <2>0. h.pc \in {"check", "execute"} => h.op.type = "Get"
    BY DEF ThreadInv, HandlersInStep
  <2>1. CASE RefuseRequest(h)
    <3> DEFINE g == [h EXCEPT !.pc = "reply", !.err = "ErrWrongLeader"]
    <3>1. g \in Handler
      BY <1>1, Zenon DEF Handler, Err
    <3>2. Step(h, g)
      BY <2>1 DEF RefuseRequest
    <3> QED
      BY <1>1, <2>1, <3>1, <3>2 DEF RefuseRequest, Handler
  <2>2. CASE PopTimesOut(h)
    <3> DEFINE g == [h EXCEPT !.pc = "timedOut"]
    <3>1. g \in Handler /\ Step(h, g)
      BY <1>1, <2>2, SMT DEF PopTimesOut, Handler
    <3> QED
      BY <1>1, <2>2, <3>1 DEF PopTimesOut, Handler
  <2>3. CASE ReadLeadership(h)
    <3>1. PICK leader \in BOOLEAN : Step(h, [h EXCEPT !.pc = "check", !.leader = leader])
      BY <2>3 DEF ReadLeadership
    <3> DEFINE g == [h EXCEPT !.pc = "check", !.leader = leader]
    <3>2. g \in Handler
      BY <1>1, Zenon DEF Handler
    <3> QED
      BY <1>1, <2>0, <2>3, <3>1, <3>2 DEF ReadLeadership, Handler
  <2>4. CASE ReadAfterTimeout(h)
    <3> DEFINE g1 == [h EXCEPT !.pc = "execute"]
               g2 == [h EXCEPT !.pc = "erase", !.err = "ErrWrongLeader"]
    <3>1. g1 \in Handler
      BY <1>1, SMT DEF Handler
    <3>2. g2 \in Handler
      BY <1>1, Zenon DEF Handler, Err
    <3>3. Step(h, g1) \/ Step(h, g2)
      BY <2>4 DEF ReadAfterTimeout
    <3>4. CASE Step(h, g1)
      BY <1>1, <2>0, <2>4, <3>1, <3>4 DEF ReadAfterTimeout, Handler
    <3>5. CASE Step(h, g2)
      BY <1>1, <2>0, <2>4, <3>2, <3>5 DEF ReadAfterTimeout, Handler
    <3> QED
      BY <3>3, <3>4, <3>5
  <2>5. CASE WriteAfterTimeout(h)
    <3> DEFINE g == [h EXCEPT !.pc = "erase", !.err = TimeoutErr(h)]
    <3>1. TimeoutErr(h) \in Err
      BY Zenon DEF TimeoutErr, Err
    <3>2. g \in Handler
      BY <1>1, <3>1, Zenon DEF Handler
    <3>3. Step(h, g)
      BY <2>5 DEF WriteAfterTimeout
    <3> QED
      BY <1>1, <2>5, <3>2, <3>3 DEF WriteAfterTimeout, Handler
  <2>6. CASE ExecuteGetOpOnKVDB(h)
    <3> DEFINE g == [h EXCEPT !.pc = "erase", !.value = kvDB[h.server],
                              !.err = IF kvDB[h.server] = <<>> THEN "ErrNoKey" ELSE "OK"]
    <3>1. kvDB[h.server] \in Value
      BY <1>1
    <3>2. (IF kvDB[h.server] = <<>> THEN "ErrNoKey" ELSE "OK") \in Err
      BY Zenon DEF Err
    <3>3. g \in Handler
      BY <1>1, <3>1, <3>2, Zenon DEF Handler
    <3>4. Step(h, g)
      BY <2>6, Zenon DEF ExecuteGetOpOnKVDB
    <3> QED
      BY <1>1, <2>6, <3>3, <3>4 DEF ExecuteGetOpOnKVDB, Handler
  <2> QED
    BY <2>1, <2>2, <2>3, <2>4, <2>5, <2>6
<1>4. PICK g \in Handler :
        /\ Step(h, g) /\ g.server = h.server /\ g.index = h.index
        /\ h.pc \in {"start", "reply"} <=> g.pc \in {"start", "reply"}
        /\ g.pc \in {"check", "execute"} => g.op.type = "Get"
        /\ g.pc \in {"wait", "timedOut", "check", "execute", "erase"}
             => h.pc \in {"wait", "timedOut", "check", "execute", "erase"}
  BY <1>3
<1>5. IF g.pc \in {"start", "reply"} THEN g.index = 0 ELSE g.index \in 1 .. issued[g.server]
  BY <1>4 DEF ThreadInv, HandlersInStep
<1>6. handlers' \subseteq Handler /\ HandlersInStep' /\ IndexIsOwned'
  BY <1>2, <1>4, <1>5, HandlerMoves
<1>7. QueueIsRegistered'
  BY <1>2, <1>4, QueuesStay DEF ThreadInv, QueueIsRegistered
<1> QED
  BY <1>2, <1>6, <1>7 DEF TypeOK, ThreadInv, LoopHasCommand, ClerkInScript

LEMMA RegisterQueueThreads ==
  ASSUME TypeOK, ThreadInv, NEW h \in handlers, RegisterQueue(h)
  PROVE  TypeOK' /\ ThreadInv'
<1> DEFINE i == h.server
           g == [h EXCEPT !.pc = "wait"]
<1>1. /\ h \in Handler /\ i \in Server /\ h.pc = "register" /\ h.index \in 1 .. issued[i]
      /\ issued[i] \in 0 .. MaxIndex
  BY DEF TypeOK, Handler, RegisterQueue, ThreadInv, HandlersInStep
<1>2. h.index \in Index /\ h.index # 0
  BY <1>1, BoundAssumption, SMT DEF Index
<1>3. g \in Handler /\ g.server = i /\ g.index = h.index /\ g.pc = "wait" /\ g.op = h.op
  BY <1>1, Zenon DEF Handler
<1>4. Step(h, g) /\ UNCHANGED <<issued, proposed, chosen, delivered, kvDB, lastRequestId,
                                 loop, clerk, answered>>
  BY DEF RegisterQueue, raftVars, storeVars
<1>5. handlers' \subseteq Handler /\ HandlersInStep' /\ IndexIsOwned'
  BY <1>1, <1>3, <1>4, HandlerMoves
<1> DEFINE q == waitApplyCh[i][h.index]
           r == IF q = NoQueue THEN <<>> ELSE q
<1>6. waitApplyCh' = [waitApplyCh EXCEPT ![i][h.index] = r]
  BY DEF RegisterQueue
<1>7. q \in Seq(Op) \cup {NoQueue}
  BY <1>1, <1>2 DEF TypeOK
<1>8. r \in Seq(Op) /\ r # NoQueue
  BY <1>7, NoQueueAssumption, EmptySeq
<1> HIDE DEF r
<1>9. waitApplyCh \in [Server -> [Index -> Seq(Op) \cup {NoQueue}]]
  BY DEF TypeOK
<1>10. /\ waitApplyCh' \in [Server -> [Index -> Seq(Op) \cup {NoQueue}]]
       /\ waitApplyCh'[i][h.index] = r
       /\ \A j \in Server, k \in Index :
            waitApplyCh[j][k] # NoQueue => waitApplyCh'[j][k] # NoQueue
  BY <1>1, <1>2, <1>6, <1>8, <1>9, Zenon
<1>11. QueueIsRegistered'
  <2>1. ASSUME NEW f \in handlers \ {h},
               f.pc \in {"wait", "timedOut", "check", "execute", "erase"}
        PROVE  waitApplyCh'[f.server][f.index] # NoQueue
    <3>1. /\ f \in Handler /\ f.server \in Server /\ f.index \in 1 .. issued[f.server]
          /\ issued[f.server] \in 0 .. MaxIndex
      BY <2>1 DEF TypeOK, Handler, ThreadInv, HandlersInStep
    <3>2. f.index \in Index
      BY <3>1, BoundAssumption, SMT DEF Index
    <3> QED
      BY <1>10, <2>1, <3>1, <3>2 DEF ThreadInv, QueueIsRegistered
  <2> QED
    BY <1>3, <1>4, <1>8, <1>10, <2>1, QueuesStay
<1> QED
  BY <1>4, <1>5, <1>10, <1>11 DEF TypeOK, ThreadInv, LoopHasCommand, ClerkInScript

\* What a handler in its wait may rely on.
LEMMA HandlerHasQueue ==
  ASSUME TypeOK, ThreadInv, NEW h \in handlers,
         h.pc \in {"wait", "timedOut", "check", "execute", "erase"}
  PROVE  /\ h.server \in Server /\ h.index \in Index /\ h.index # 0
         /\ waitApplyCh[h.server][h.index] \in Seq(Op)
<1>1. /\ h \in Handler /\ h.server \in Server /\ h.index \in 1 .. issued[h.server]
      /\ issued[h.server] \in 0 .. MaxIndex
  BY DEF TypeOK, Handler, ThreadInv, HandlersInStep
<1>2. h.index \in Index /\ h.index # 0
  BY <1>1, BoundAssumption, SMT DEF Index
<1> QED
  BY <1>1, <1>2 DEF TypeOK, ThreadInv, QueueIsRegistered

LEMMA PopCommandThreads ==
  ASSUME TypeOK, ThreadInv, NEW h \in handlers, PopCommand(h)
  PROVE  TypeOK' /\ ThreadInv'
<1> DEFINE i == h.server
           q == waitApplyCh[i][h.index]
<1>1. /\ h \in Handler /\ h.pc = "wait" /\ q # <<>>
      /\ waitApplyCh' = [waitApplyCh EXCEPT ![i][h.index] = Tail(q)]
      /\ UNCHANGED <<issued, proposed, chosen, delivered, kvDB, lastRequestId, loop, clerk,
                     answered>>
  BY DEF PopCommand, TypeOK, raftVars, storeVars
<1>2. i \in Server /\ h.index \in Index /\ h.index # 0 /\ q \in Seq(Op)
  BY <1>1, HandlerHasQueue
<1>3. Tail(q) \in Seq(Op) /\ Tail(q) # NoQueue
  BY <1>1, <1>2, NoQueueAssumption, HeadTailProperties
<1>4. PICK g \in Handler : /\ Step(h, g) /\ g.server = i /\ g.index = h.index
                           /\ g.pc \in {"execute", "erase"}
                           /\ g.pc = "execute" => g.op.type = "Get"
  <2>1. /\ [h EXCEPT !.pc = "erase", !.err = "ErrWrongLeader"] \in Handler
        /\ [h EXCEPT !.pc = "erase", !.err = "OK"] \in Handler
        /\ [h EXCEPT !.pc = "execute"] \in Handler
    BY <1>1, Zenon DEF Handler, Err
  <2>2. CASE Step(h, [h EXCEPT !.pc = "erase", !.err = "ErrWrongLeader"])
    BY <1>1, <2>1, <2>2 DEF Handler
  <2>3. CASE Step(h, [h EXCEPT !.pc = "erase", !.err = "OK"])
    BY <1>1, <2>1, <2>3 DEF Handler
  <2>4. CASE Step(h, [h EXCEPT !.pc = "execute"]) /\ h.op.type = "Get"
    BY <1>1, <2>1, <2>4 DEF Handler
  <2> QED
    BY <2>2, <2>3, <2>4 DEF PopCommand
<1>5. g.index \in 1 .. issued[g.server]
  BY <1>1, <1>4 DEF ThreadInv, HandlersInStep
<1>6. handlers' \subseteq Handler /\ HandlersInStep' /\ IndexIsOwned'
  BY <1>1, <1>4, <1>5, HandlerMoves
<1>7. waitApplyCh \in [Server -> [Index -> Seq(Op) \cup {NoQueue}]]
  BY DEF TypeOK
<1> HIDE DEF q
<1>8. /\ waitApplyCh' \in [Server -> [Index -> Seq(Op) \cup {NoQueue}]]
      /\ waitApplyCh'[i][h.index] = Tail(q)
      /\ \A j \in Server, k \in Index :
           waitApplyCh[j][k] # NoQueue => waitApplyCh'[j][k] # NoQueue
  BY <1>1, <1>2, <1>3, <1>7, Zenon
<1>9. QueueIsRegistered'
  <2>1. ASSUME NEW f \in handlers \ {h},
               f.pc \in {"wait", "timedOut", "check", "execute", "erase"}
        PROVE  waitApplyCh'[f.server][f.index] # NoQueue
    BY <1>8, <2>1, HandlerHasQueue, NoQueueAssumption
  <2> QED
    BY <1>3, <1>4, <1>8, <2>1, QueuesStay
<1> QED
  BY <1>1, <1>6, <1>8, <1>9 DEF TypeOK, ThreadInv, LoopHasCommand, ClerkInScript

LEMMA EraseQueueThreads ==
  ASSUME TypeOK, ThreadInv, NEW h \in handlers, EraseQueue(h)
  PROVE  TypeOK' /\ ThreadInv'
<1> DEFINE i == h.server
           g == [h EXCEPT !.pc = "reply", !.index = 0, !.leader = FALSE]
<1>1. /\ h \in Handler /\ h.pc = "erase" /\ Step(h, g)
      /\ waitApplyCh' = [waitApplyCh EXCEPT ![i][h.index] = NoQueue]
      /\ UNCHANGED <<issued, proposed, chosen, delivered, kvDB, lastRequestId, loop, clerk,
                     answered>>
  BY DEF EraseQueue, TypeOK, raftVars, storeVars
<1>2. i \in Server /\ h.index \in Index /\ h.index # 0
  BY <1>1, HandlerHasQueue
<1>3. 0 \in 0 .. MaxIndex
  BY BoundAssumption, SMT
<1>4. g \in Handler /\ g.server = i /\ g.index = 0 /\ g.pc = "reply"
  BY <1>1, <1>3, Zenon DEF Handler
<1>5. handlers' \subseteq Handler /\ HandlersInStep' /\ IndexIsOwned'
  BY <1>1, <1>4, HandlerMoves
<1>6. waitApplyCh \in [Server -> [Index -> Seq(Op) \cup {NoQueue}]]
  BY DEF TypeOK
<1>7. /\ waitApplyCh' \in [Server -> [Index -> Seq(Op) \cup {NoQueue}]]
      /\ \A j \in Server, k \in Index :
           <<j, k>> # <<i, h.index>> => waitApplyCh'[j][k] = waitApplyCh[j][k]
  BY <1>1, <1>2, <1>6, Zenon
<1>8. QueueIsRegistered'
  <2>1. ASSUME NEW f \in handlers \ {h},
               f.pc \in {"wait", "timedOut", "check", "execute", "erase"}
        PROVE  waitApplyCh'[f.server][f.index] # NoQueue
    <3>1. <<f.server, f.index>> # <<i, h.index>>
      BY <1>2, <2>1 DEF ThreadInv, IndexIsOwned
    <3>2. f.server \in Server /\ f.index \in Index /\ waitApplyCh[f.server][f.index] \in Seq(Op)
      BY <2>1, HandlerHasQueue
    <3> QED
      BY <1>7, <3>1, <3>2, NoQueueAssumption
  <2> QED
    BY <1>1, <1>4, <2>1, QueuesStay
<1> QED
  BY <1>1, <1>5, <1>7, <1>8 DEF TypeOK, ThreadInv, LoopHasCommand, ClerkInScript

LEMMA CommitEntryThreads ==
  ASSUME TypeOK, ThreadInv, CommitEntry
  PROVE  TypeOK' /\ ThreadInv'
<1>1. PICK p \in proposed : p.index = Len(chosen) + 1 /\ chosen' = Append(chosen, p.op)
  BY DEF CommitEntry
<1>2. p.op \in Op /\ chosen \in Seq(Op)
  BY DEF TypeOK
<1>3. chosen' \in Seq(Op)
  BY <1>1, <1>2, AppendProperties
<1>4. UNCHANGED <<issued, delivered, kvDB, lastRequestId, waitApplyCh, loop, handlers, clerk,
                  answered>> /\ proposed' \subseteq proposed
  BY DEF CommitEntry, storeVars
<1>5. TypeOK'
  BY <1>3, <1>4 DEF TypeOK
<1> QED
  BY <1>4, <1>5 DEF ThreadInv, HandlersInStep, IndexIsOwned, QueueIsRegistered,
     LoopHasCommand, ClerkInScript

LEMMA LoopStepThreads ==
  ASSUME TypeOK, ThreadInv, NEW i \in Server, LoopStep(i)
  PROVE  TypeOK' /\ ThreadInv'
<1>1. ASSUME UNCHANGED <<issued, waitApplyCh, handlers, clerk>>
      PROVE  HandlersInStep' /\ IndexIsOwned' /\ QueueIsRegistered' /\ ClerkInScript'
  BY <1>1 DEF ThreadInv, HandlersInStep, IndexIsOwned, QueueIsRegistered, ClerkInScript
<1>2. CASE GetCommandFromRaft(i)
  <2> DEFINE op == chosen[Len(delivered[i]) + 1]
  <2>1. /\ Len(delivered[i]) < Len(chosen) /\ chosen \in Seq(Op) /\ delivered[i] \in Seq(Op)
        /\ delivered' = [delivered EXCEPT ![i] = Append(delivered[i], op)]
        /\ loop' = [loop EXCEPT ![i] = IF Skips(i, op) THEN "send" ELSE "execute"]
        /\ UNCHANGED <<issued, proposed, chosen, kvDB, lastRequestId, waitApplyCh, handlers,
                       clerk, answered>>
    BY <1>2 DEF GetCommandFromRaft, TypeOK, raftVars, storeVars
  <2>2. op \in Op
    BY <2>1, ElementOfSeq, LenProperties, SMT
  <2> HIDE DEF op
  <2>3. Append(delivered[i], op) \in Seq(Op) /\ Append(delivered[i], op) # <<>>
    BY <2>1, <2>2, AppendProperties, SMT
  <2>4. delivered \in [Server -> Seq(Op)] /\ loop \in [Server -> {"pop", "execute", "send"}]
    BY DEF TypeOK
  <2>5. /\ delivered' \in [Server -> Seq(Op)] /\ loop' \in [Server -> {"pop", "execute", "send"}]
        /\ delivered'[i] # <<>>
        /\ \A j \in Server \ {i} : delivered'[j] = delivered[j] /\ loop'[j] = loop[j]
    BY <2>1, <2>3, <2>4
  <2>6. TypeOK'
    BY <2>1, <2>5 DEF TypeOK
  <2>7. LoopHasCommand'
    BY <2>5 DEF LoopHasCommand, ThreadInv
  <2> QED
    BY <1>1, <2>1, <2>6, <2>7 DEF ThreadInv
<1>3. CASE ExecuteOp(i)
  <2>1. /\ loop[i] = "execute" /\ loop' = [loop EXCEPT ![i] = "send"]
        /\ kvDB' = [kvDB EXCEPT ![i] = Effect(@, Current(i))]
        /\ lastRequestId' = [lastRequestId EXCEPT ![i][ClientId[Current(i).client]] = Current(i).id]
        /\ UNCHANGED <<issued, proposed, chosen, delivered, waitApplyCh, handlers, clerk, answered>>
    BY <1>3 DEF ExecuteOp, raftVars
  <2>2. Current(i) \in Op
    BY <2>1, CurrentType DEF ThreadInv
  <2>3. /\ Effect(kvDB[i], Current(i)) \in Value
        /\ ClientId[Current(i).client] \in Client /\ Current(i).id \in Nat
    BY <2>2, EffectType, ClientIdAssumption DEF TypeOK, Op
  <2>4. /\ kvDB' \in [Server -> Value] /\ lastRequestId' \in [Server -> [Client -> Nat]]
        /\ loop' \in [Server -> {"pop", "execute", "send"}]
    BY <2>1, <2>3 DEF TypeOK
  <2>5. TypeOK'
    BY <2>1, <2>4 DEF TypeOK
  <2>6. LoopHasCommand'
    BY <2>1 DEF LoopHasCommand, ThreadInv, TypeOK
  <2> QED
    BY <1>1, <2>1, <2>5, <2>6 DEF ThreadInv
<1>4. CASE SendMessageToWaitChan(i)
  <2> DEFINE k == Len(delivered[i])
             q == waitApplyCh[i][k]
             r == IF q = NoQueue THEN q ELSE Append(q, Current(i))
  <2>1. /\ loop[i] = "send" /\ loop' = [loop EXCEPT ![i] = "pop"]
        /\ waitApplyCh' = [waitApplyCh EXCEPT ![i][k] = r]
        /\ UNCHANGED <<issued, proposed, chosen, delivered, kvDB, lastRequestId, handlers,
                       clerk, answered>>
    BY <1>4 DEF SendMessageToWaitChan, raftVars, storeVars
  <2>2. Current(i) \in Op
    BY <2>1, CurrentType DEF ThreadInv
  <2>3. waitApplyCh \in [Server -> [Index -> Seq(Op) \cup {NoQueue}]]
    BY DEF TypeOK
  <2>4. ASSUME k \in Index
        PROVE  r \in Seq(Op) \cup {NoQueue} /\ (q # NoQueue => r # NoQueue)
    <3>1. CASE q = NoQueue
      BY <3>1
    <3>2. CASE q # NoQueue
      <4>1. q \in Seq(Op)
        BY <2>3, <2>4, <3>2
      <4>2. r = Append(q, Current(i)) /\ Append(q, Current(i)) \in Seq(Op)
        BY <2>2, <3>2, <4>1, AppendProperties
      <4> QED
        BY <4>2, NoQueueAssumption
    <3> QED
      BY <3>1, <3>2
  <2> HIDE DEF r, k
  <2>5. /\ waitApplyCh' \in [Server -> [Index -> Seq(Op) \cup {NoQueue}]]
        /\ \A j \in Server, n \in Index :
             waitApplyCh[j][n] # NoQueue => waitApplyCh'[j][n] # NoQueue
    BY <2>1, <2>3, <2>4, Zenon
  <2>6. TypeOK'
    BY <2>1, <2>5 DEF TypeOK
  <2>7. LoopHasCommand'
    BY <2>1 DEF LoopHasCommand, ThreadInv, TypeOK
  <2>8. HandlersInStep' /\ IndexIsOwned' /\ ClerkInScript'
    BY <2>1 DEF ThreadInv, HandlersInStep, IndexIsOwned, ClerkInScript
  <2>9. QueueIsRegistered'
    <3>1. ASSUME NEW f \in handlers,
                 f.pc \in {"wait", "timedOut", "check", "execute", "erase"}
          PROVE  waitApplyCh'[f.server][f.index] # NoQueue
      BY <2>5, <3>1, HandlerHasQueue, NoQueueAssumption
    <3> QED
      BY <2>1, <3>1 DEF QueueIsRegistered
  <2> QED
    BY <2>6, <2>7, <2>8, <2>9 DEF ThreadInv
<1> QED
  BY <1>2, <1>3, <1>4 DEF LoopStep

\* Threads come, as new requests, and go.
LEMMA HandlersComeAndGo ==
  ASSUME TypeOK, ThreadInv, NEW H \in SUBSET Handler, handlers' \subseteq handlers \cup H,
         \A f \in H : f.pc = "start" /\ f.index = 0,
         UNCHANGED <<issued, waitApplyCh>>
  PROVE  handlers' \subseteq Handler /\ HandlersInStep' /\ IndexIsOwned' /\ QueueIsRegistered'
<1>1. handlers' \subseteq Handler
  BY DEF TypeOK
<1>2. HandlersInStep'
  BY DEF HandlersInStep, ThreadInv
<1>3. IndexIsOwned'
  BY DEF IndexIsOwned, ThreadInv
<1>4. QueueIsRegistered'
  BY DEF QueueIsRegistered, ThreadInv
<1> QED
  BY <1>1, <1>2, <1>3, <1>4

LEMMA ClerkType ==
  ASSUME TypeOK, ThreadInv, NEW c \in Client
  PROVE  /\ clerk[c] \in Clerk /\ clerk[c].id \in Nat /\ clerk[c].attempt \in Nat
         /\ clerk[c].server \in Server /\ clerk[c].recentLeader \in Server
         /\ clerk[c].before \subseteq Written /\ clerk[c].id \in 0 .. Len(Script[c])
         /\ clerk[c].calling => clerk[c].id \in 1 .. Len(Script[c])
         /\ Len(Script[c]) \in Nat /\ Script[c] \in Seq({"Put", "Append", "Get"})
<1>1. clerk[c] \in Clerk
  BY DEF TypeOK
<1>2. Script[c] \in Seq({"Put", "Append", "Get"})
  BY ScriptAssumption
<1>3. Len(Script[c]) \in Nat
  BY <1>2, LenProperties
<1>4. clerk[c].id <= Len(Script[c]) /\ (clerk[c].calling => clerk[c].id > 0)
  BY DEF ThreadInv, ClerkInScript
<1>5. /\ clerk[c].id \in Nat /\ clerk[c].attempt \in Nat
      /\ clerk[c].server \in Server /\ clerk[c].recentLeader \in Server
      /\ clerk[c].before \subseteq Written
  BY <1>1 DEF Clerk
<1>6. clerk[c].id \in 0 .. Len(Script[c])
  BY <1>3, <1>4, <1>5, SMT
<1>7. clerk[c].calling => clerk[c].id \in 1 .. Len(Script[c])
  BY <1>3, <1>4, <1>5, SMT
<1> QED
  BY <1>1, <1>2, <1>3, <1>5, <1>6, <1>7

LEMMA ClerkCallsThreads ==
  ASSUME TypeOK, ThreadInv, NEW c \in Client, ClerkCalls(c)
  PROVE  TypeOK' /\ ThreadInv'
<1> DEFINE id == clerk[c].id + 1
           server == clerk[c].recentLeader
           b == IF Script[c][id] = "Get" THEN answered ELSE {}
           new == [clerk[c] EXCEPT !.calling = TRUE, !.id = id, !.server = server,
                                   !.attempt = 1, !.value = <<>>, !.before = b]
           f == Called(OpOf(c, id), server, 1)
<1>1. /\ id <= Len(Script[c]) /\ clerk' = [clerk EXCEPT ![c] = new]
      /\ handlers' = handlers \cup {f}
      /\ UNCHANGED <<issued, proposed, chosen, delivered, kvDB, lastRequestId, waitApplyCh,
                     loop, answered>>
  BY DEF ClerkCalls, raftVars, storeVars
<1>2. id \in 1 .. Len(Script[c]) /\ id \in Nat /\ 1 \in Nat /\ server \in Server /\ clerk[c] \in Clerk
  BY <1>1, ClerkType, SMT
<1>3. f \in Handler /\ f.pc = "start" /\ f.index = 0
  BY <1>2, OpOfType, CalledType DEF Called
<1>4. b \in SUBSET Written /\ <<>> \in Value
  BY DEF TypeOK, Value
<1> HIDE DEF b, id, server
<1>5. new \in Clerk /\ new.id = id /\ new.calling = TRUE
  BY <1>2, <1>4, Zenon DEF Clerk
<1>6. handlers' \subseteq Handler /\ HandlersInStep' /\ IndexIsOwned' /\ QueueIsRegistered'
  <2>1. {f} \in SUBSET Handler
    BY <1>3
  <2> QED
    BY <1>1, <1>3, <2>1, HandlersComeAndGo
<1> HIDE DEF new
<1>7. clerk' \in [Client -> Clerk]
  BY <1>1, <1>5 DEF TypeOK
<1>8. ClerkInScript'
  <2>1. id > 0
    BY <1>2, SMT
  <2>2. \A d \in Client : clerk'[d] = IF d = c THEN new ELSE clerk[d]
    BY <1>1 DEF TypeOK
  <2> QED
    BY <1>1, <1>5, <2>1, <2>2 DEF ClerkInScript, ThreadInv
<1> QED
  BY <1>1, <1>6, <1>7, <1>8 DEF TypeOK, ThreadInv, LoopHasCommand

\* A retry.
LEMMA RetriesThreads ==
  ASSUME TypeOK, ThreadInv, NEW c \in Client, NEW server \in Server, clerk[c].calling,
         Retries(c, server), handlers' \subseteq handlers \cup {Retry(c, server)},
         UNCHANGED <<raftVars, delivered, storeVars, waitApplyCh, loop, answered>>
  PROVE  TypeOK' /\ ThreadInv'
<1> DEFINE n == clerk[c].attempt + 1
           new == [clerk[c] EXCEPT !.server = server, !.attempt = n]
           f == Retry(c, server)
<1>1. clerk' = [clerk EXCEPT ![c] = new]
  BY DEF Retries
<1>2. /\ clerk[c].id \in 1 .. Len(Script[c]) /\ n \in Nat /\ clerk[c] \in Clerk
  BY ClerkType, SMT
<1>3. f \in Handler /\ f.pc = "start" /\ f.index = 0
  BY <1>2, OpOfType, CalledType DEF Called, Retry
<1>4. UNCHANGED <<issued, proposed, chosen, delivered, kvDB, lastRequestId, waitApplyCh,
                  loop, answered>>
  BY DEF raftVars, storeVars
<1>5. handlers' \subseteq Handler /\ HandlersInStep' /\ IndexIsOwned' /\ QueueIsRegistered'
  <2>1. {f} \in SUBSET Handler
    BY <1>3
  <2> QED
    BY <1>3, <1>4, <2>1, HandlersComeAndGo
<1> HIDE DEF n
<1>6. new \in Clerk /\ new.id = clerk[c].id /\ new.calling = clerk[c].calling
  BY <1>2, Zenon DEF Clerk
<1> HIDE DEF new
<1>7. clerk' \in [Client -> Clerk]
  BY <1>1, <1>6 DEF TypeOK
<1>8. ClerkInScript'
  <2>1. \A d \in Client : clerk'[d] = IF d = c THEN new ELSE clerk[d]
    BY <1>1 DEF TypeOK
  <2> QED
    BY <1>6, <2>1 DEF ClerkInScript, ThreadInv
<1> QED
  BY <1>4, <1>5, <1>7, <1>8 DEF TypeOK, ThreadInv, LoopHasCommand

LEMMA CallFailsThreads ==
  ASSUME TypeOK, ThreadInv, NEW c \in Client, CallFails(c)
  PROVE  TypeOK' /\ ThreadInv'
<1>1. PICK server \in {clerk[c].server, NextServer[clerk[c].server]} :
        Retries(c, server) /\ handlers' = handlers \cup {Retry(c, server)}
  BY DEF CallFails
<1>2. server \in Server
  BY <1>1, ClerkType, RingAssumption
<1>3. handlers' \subseteq handlers \cup {Retry(c, server)}
  BY <1>1
<1> QED
  BY <1>1, <1>2, <1>3, RetriesThreads DEF CallFails

\* A handler names a client.
LEMMA HandlerType ==
  ASSUME TypeOK, NEW h \in handlers
  PROVE  /\ h \in Handler /\ h.server \in Server /\ h.op \in Op /\ h.op.client \in Client
         /\ h.op.id \in Nat /\ h.op.type \in {"Put", "Append", "Get"}
         /\ h.index \in 0 .. MaxIndex /\ h.value \in Value
<1>1. h \in Handler
  BY DEF TypeOK
<1>2. h.server \in Server /\ h.op \in Op /\ h.index \in 0 .. MaxIndex /\ h.value \in Value
  BY <1>1 DEF Handler
<1> QED
  BY <1>1, <1>2 DEF Op

LEMMA WrongLeaderThreads ==
  ASSUME TypeOK, ThreadInv, NEW h \in handlers, WrongLeader(h.op.client, h)
  PROVE  TypeOK' /\ ThreadInv'
<1> DEFINE c == h.op.client
           server == NextServer[clerk[c].server]
<1>1. c \in Client
  BY HandlerType
<1>2. server \in Server /\ clerk[c].calling
  BY <1>1, ClerkType, RingAssumption DEF WrongLeader, Serves
<1>3. Retries(c, server) /\ handlers' \subseteq handlers \cup {Retry(c, server)}
  BY DEF WrongLeader
<1> HIDE DEF server, c
<1> QED
  BY <1>1, <1>2, <1>3, RetriesThreads DEF WrongLeader

LEMMA AnsweredThreads ==
  ASSUME TypeOK, ThreadInv, NEW h \in handlers, Answered(h.op.client, h)
  PROVE  TypeOK' /\ ThreadInv'
<1> DEFINE c == h.op.client
           leader == IF h.err = "OK" THEN clerk[c].server ELSE clerk[c].recentLeader
           new == [clerk[c] EXCEPT !.calling = FALSE, !.attempt = 0, !.value = h.value,
                                   !.recentLeader = leader]
<1>1. c \in Client /\ h.value \in Value /\ h.op \in Op
  BY HandlerType
<1>2. /\ handlers' \subseteq handlers
      /\ clerk' = [clerk EXCEPT ![c] = new]
      /\ answered' = answered \/ answered' = answered \cup {WriteOf(h.op)}
      /\ UNCHANGED <<issued, proposed, chosen, delivered, kvDB, lastRequestId, waitApplyCh, loop>>
  BY DEF Answered, raftVars, storeVars
<1>3. leader \in Server /\ clerk[c] \in Clerk /\ 0 \in Nat
  BY <1>1, ClerkType
<1> HIDE DEF leader
<1>4. new \in Clerk /\ new.id = clerk[c].id /\ new.calling = FALSE
  BY <1>1, <1>3, Zenon DEF Clerk
<1> HIDE DEF new, c
<1>5. clerk' \in [Client -> Clerk] /\ answered' \subseteq Written
  BY <1>1, <1>2, <1>4, WriteOfType DEF TypeOK
<1>6. handlers' \subseteq Handler /\ HandlersInStep' /\ IndexIsOwned' /\ QueueIsRegistered'
  <2>1. {} \in SUBSET Handler /\ handlers' \subseteq handlers \cup {}
    BY <1>2
  <2> QED
    BY <1>2, <2>1, HandlersComeAndGo
<1>7. ClerkInScript'
  <2>1. \A d \in Client : clerk'[d] = IF d = c THEN new ELSE clerk[d]
    BY <1>2 DEF TypeOK
  <2> QED
    BY <1>4, <2>1 DEF ClerkInScript, ThreadInv
<1> QED
  BY <1>2, <1>5, <1>6, <1>7 DEF TypeOK, ThreadInv, LoopHasCommand

LEMMA LostThreads ==
  ASSUME TypeOK, ThreadInv, NEW h \in handlers, Lost(h)
  PROVE  TypeOK' /\ ThreadInv'
<1>1. /\ handlers' \subseteq handlers
      /\ UNCHANGED <<issued, proposed, chosen, delivered, kvDB, lastRequestId, waitApplyCh,
                     loop, clerk, answered>>
  BY DEF Lost, raftVars, storeVars
<1>2. handlers' \subseteq Handler /\ HandlersInStep' /\ IndexIsOwned' /\ QueueIsRegistered'
  <2>1. {} \in SUBSET Handler /\ handlers' \subseteq handlers \cup {}
    BY <1>1
  <2> QED
    BY <1>1, <2>1, HandlersComeAndGo
<1> QED
  BY <1>1, <1>2 DEF TypeOK, ThreadInv, LoopHasCommand, ClerkInScript

LEMMA HandlerStepThreads ==
  ASSUME TypeOK, ThreadInv, NEW h \in handlers, HandlerStep(h)
  PROVE  TypeOK' /\ ThreadInv'
BY StartRequestThreads, RegisterQueueThreads, PopCommandThreads, EraseQueueThreads,
   QuietThreads DEF HandlerStep

LEMMA ThreadsInit ==
  ASSUME Init
  PROVE  TypeOK /\ ThreadInv
<1>1. /\ chosen = <<>> /\ delivered = [i \in Server |-> <<>>]
      /\ issued = [i \in Server |-> 0] /\ proposed = {} /\ handlers = {} /\ answered = {}
      /\ kvDB = [i \in Server |-> <<>>]
      /\ lastRequestId = [i \in Server |-> [c \in Client |-> 0]]
      /\ waitApplyCh = [i \in Server |-> [k \in Index |-> NoQueue]]
      /\ loop = [i \in Server |-> "pop"]
  BY DEF Init, LogInit
<1>2. clerk = [c \in Client |->
        [calling |-> FALSE, id |-> 0, server |-> FirstServer, attempt |-> 0,
         recentLeader |-> FirstServer, value |-> <<>>, before |-> {}]]
  BY DEF Init
<1>3. 0 \in 0 .. MaxIndex
  BY BoundAssumption, SMT
<1>4. clerk \in [Client -> Clerk]
  <2>1. <<>> \in Value /\ 0 \in Nat
    BY DEF Value
  <2> QED
    BY <1>2, <2>1, RingAssumption, Zenon DEF Clerk
<1>5. TypeOK
  <2>1. chosen \in Seq(Op) /\ delivered \in [Server -> Seq(Op)] /\ kvDB \in [Server -> Value]
    BY <1>1, EmptySeq DEF Value
  <2>2. issued \in [Server -> 0 .. MaxIndex] /\ lastRequestId \in [Server -> [Client -> Nat]]
    BY <1>1, <1>3
  <2> QED
    BY <1>1, <1>4, <2>1, <2>2, Zenon DEF TypeOK
<1>6. ClerkInScript
  BY <1>2, ScriptAssumption, LenProperties, SMT DEF ClerkInScript
<1> QED
  BY <1>1, <1>5, <1>6 DEF ThreadInv, HandlersInStep, IndexIsOwned, QueueIsRegistered,
     LoopHasCommand

LEMMA ThreadsStep ==
  ASSUME TypeOK, ThreadInv, [Next]_vars
  PROVE  TypeOK' /\ ThreadInv'
<1>1. CASE UNCHANGED vars
  BY <1>1 DEF vars, raftVars, storeVars, TypeOK, ThreadInv, HandlersInStep, IndexIsOwned,
     QueueIsRegistered, LoopHasCommand, ClerkInScript
<1>2. CASE Next
  BY <1>2, CommitEntryThreads, LoopStepThreads, ClerkCallsThreads, CallFailsThreads,
     HandlerStepThreads, LostThreads, WrongLeaderThreads, AnsweredThreads DEF Next
<1> QED
  BY <1>1, <1>2

\* Every variable of the service, its clerks and its queues keeps its type.
THEOREM KvTypeCorrect == Spec => []TypeOK
<1>1. Init => TypeOK /\ ThreadInv
  BY ThreadsInit
<1>2. TypeOK /\ ThreadInv /\ [Next]_vars => TypeOK' /\ ThreadInv'
  BY ThreadsStep
<1> QED
  BY <1>1, <1>2, PTL DEF Spec

\* A handler's queue is there, and its own, from registration to deletion.
THEOREM QueuesAreOwned == Spec => []QueueIsOwned
<1>1. Init => TypeOK /\ ThreadInv
  BY ThreadsInit
<1>2. TypeOK /\ ThreadInv /\ [Next]_vars => TypeOK' /\ ThreadInv'
  BY ThreadsStep
<1>3. TypeOK /\ ThreadInv => QueueIsOwned
  <2> SUFFICES ASSUME TypeOK, ThreadInv, NEW h \in handlers,
                      h.pc \in {"wait", "timedOut", "check", "execute", "erase"}
               PROVE  /\ waitApplyCh[h.server][h.index] # NoQueue
                      /\ \A g \in handlers : g.server = h.server /\ g.index = h.index => g = h
    BY DEF QueueIsOwned
  <2> QED
    BY HandlerHasQueue, NoQueueAssumption DEF ThreadInv, IndexIsOwned
<1> QED
  BY <1>1, <1>2, <1>3, PTL DEF Spec

-----------------------------------------------------------------------------
\* Requests

LEMMA LogHasMore ==
  ASSUME NEW w, NEW m \in Int, NEW n \in Int, m <= n, LogHas(w, m)
  PROVE  LogHas(w, n)
BY SMT DEF LogHas

LEMMA LogHasBelowMore ==
  ASSUME NEW c, NEW id \in Int, NEW l \in Int, l <= id, NEW m \in Int, NEW n \in Int, m <= n,
         LogHasBelow(c, id, m)
  PROVE  LogHasBelow(c, l, n)
<1> SUFFICES ASSUME NEW k \in 1 .. l - 1, Script[c][k] # "Get"
             PROVE  LogHas([client |-> c, id |-> k], n)
  BY DEF LogHasBelow
<1>1. k \in 1 .. id - 1
  BY SMT
<1>2. LogHas([client |-> c, id |-> k], m)
  BY <1>1 DEF LogHasBelow
<1> QED
  BY <1>2, LogHasMore

\* The log only grows at its end, so that it keeps what it has.
LEMMA ChosenGrows ==
  ASSUME NEW op \in Op, chosen \in Seq(Op), chosen' = Append(chosen, op)
  PROVE  /\ chosen' \in Seq(Op) /\ Len(chosen') = Len(chosen) + 1
         /\ \A n \in 1 .. Len(chosen) : chosen'[n] = chosen[n]
         /\ chosen'[Len(chosen) + 1] = op
         /\ Len(chosen) \in Nat
         /\ \A w : \A n \in Int : n <= Len(chosen) => (LogHas(w, n)' <=> LogHas(w, n))
         /\ \A c : \A id \in Int : \A n \in Int :
              n <= Len(chosen) => (LogHasBelow(c, id, n)' <=> LogHasBelow(c, id, n))
<1>1. /\ chosen' \in Seq(Op) /\ Len(chosen') = Len(chosen) + 1 /\ Len(chosen) \in Nat
      /\ \A n \in 1 .. Len(chosen) : chosen'[n] = chosen[n]
      /\ chosen'[Len(chosen) + 1] = op
  BY AppendProperties, LenProperties
<1>2. ASSUME NEW w, NEW n \in Int, n <= Len(chosen)
      PROVE  LogHas(w, n)' <=> LogHas(w, n)
  <2>1. \A m \in 1 .. n : chosen'[m] = chosen[m]
    BY <1>1, <1>2, SMT
  <2> QED
    BY <2>1, Zenon DEF LogHas
<1>3. ASSUME NEW c, NEW id \in Int, NEW n \in Int, n <= Len(chosen)
      PROVE  LogHasBelow(c, id, n)' <=> LogHasBelow(c, id, n)
  BY <1>2, <1>3, Zenon DEF LogHasBelow
<1> QED
  BY <1>1, <1>2, <1>3

LEMMA ExecutedType ==
  ASSUME TypeOK, ThreadInv, DeliveredIsChosen, NEW i \in Server
  PROVE  /\ Executed(i) \in Nat /\ Executed(i) <= Len(delivered[i])
         /\ Len(delivered[i]) \in Nat /\ Len(chosen) \in Nat
         /\ Executed(i) <= Len(chosen) /\ Len(delivered[i]) <= Len(chosen)
<1>1. /\ delivered[i] \in Seq(Op) /\ chosen \in Seq(Op)
      /\ loop[i] = "execute" => delivered[i] # <<>>
  BY DEF TypeOK, ThreadInv, LoopHasCommand
<1>2. /\ Len(delivered[i]) \in Nat /\ Len(chosen) \in Nat
      /\ loop[i] = "execute" => Len(delivered[i]) > 0
  BY <1>1, EmptySeq, LenProperties, SMT
<1>3. Len(delivered[i]) <= Len(chosen)
  BY DEF DeliveredIsChosen
<1> QED
  BY <1>2, <1>3, SMT DEF Executed

LEMMA ChosenType ==
  ASSUME TypeOK, NEW n \in DOMAIN chosen
  PROVE  /\ n \in 1 .. Len(chosen) /\ n \in Nat /\ Len(chosen) \in Nat
         /\ chosen[n] \in Op /\ chosen[n].client \in Client /\ chosen[n].id \in Nat
         /\ chosen[n].type \in {"Put", "Append", "Get"}
<1>1. chosen \in Seq(Op)
  BY DEF TypeOK
<1>2. n \in 1 .. Len(chosen) /\ Len(chosen) \in Nat /\ n \in Nat
  BY <1>1, LenProperties, SMT
<1>3. chosen[n] \in Op
  BY <1>1, <1>2, ElementOfSeq
<1> QED
  BY <1>2, <1>3 DEF Op

\* Only a handler moves.
LEMMA RequestsMove ==
  ASSUME TypeOK, ThreadInv, RequestInv, NEW h \in handlers, NEW g, Step(h, g),
         g.op = h.op, g.server = h.server,
         UNCHANGED <<chosen, delivered, loop, clerk, answered>>,
         \A p \in proposed' : p \in proposed \/ p.op = h.op,
         g.pc = "execute" => LogHasBelow(g.op.client, g.op.id, Executed(g.server)),
         g.err \in {"OK", "ErrNoKey"} /\ g.op.type # "Get" => LogHas(WriteOf(g.op), Len(chosen)),
         QueuesHoldExecuted', KnownIsExecuted'
  PROVE  RequestInv'
<1>1. handlers' = (handlers \ {h}) \cup {g}
  BY DEF Step
<1>2. /\ \A op : Genuine(op)' <=> Genuine(op)
      /\ \A w, n : LogHas(w, n)' <=> LogHas(w, n)
      /\ \A c, id, n : LogHasBelow(c, id, n)' <=> LogHasBelow(c, id, n)
      /\ \A i : Executed(i)' = Executed(i)
  BY Zenon DEF Genuine, LogHas, LogHasBelow, Executed
<1>3. OpsAreGenuine'
  BY <1>1, <1>2 DEF OpsAreGenuine, RequestInv
<1>4. ReadersAreBehind'
  BY <1>1, <1>2 DEF ReadersAreBehind, RequestInv
<1>5. RepliesAreTrue'
  BY <1>1, <1>2 DEF RepliesAreTrue, RequestInv
<1>6. DeliveredIsChosen' /\ AnsweredInOrder' /\ AnsweredIsChosen'
  BY DEF DeliveredIsChosen, AnsweredInOrder, AnsweredIsChosen, RequestInv
<1>7. ChosenInOrder'
  BY <1>2 DEF ChosenInOrder, RequestInv
<1> QED
  BY <1>3, <1>4, <1>5, <1>6, <1>7 DEF RequestInv

\* Nothing that QueuesHoldExecuted or KnownIsExecuted speaks of has changed.
LEMMA QueuesUnchanged ==
  ASSUME QueuesHoldExecuted, UNCHANGED <<chosen, delivered, loop, waitApplyCh>>
  PROVE  QueuesHoldExecuted'
BY DEF QueuesHoldExecuted, Executed

LEMMA KnownUnchanged ==
  ASSUME KnownIsExecuted, UNCHANGED <<chosen, delivered, loop, clerk, lastRequestId>>
  PROVE  KnownIsExecuted'
BY DEF KnownIsExecuted, Known, LogHasBelow, LogHas, Executed

\* Queues of a server that got nothing new.
LEMMA QueuesLess ==
  ASSUME TypeOK, QueuesHoldExecuted, NEW i \in Server, NEW k \in Index,
         NEW q \in Seq(Op) \cup {NoQueue}, waitApplyCh' = [waitApplyCh EXCEPT ![i][k] = q],
         q # NoQueue => \A n \in DOMAIN q : k <= Executed(i) /\ q[n] = chosen[k],
         UNCHANGED <<chosen, delivered, loop>>
  PROVE  QueuesHoldExecuted'
<1>1. waitApplyCh \in [Server -> [Index -> Seq(Op) \cup {NoQueue}]]
  BY DEF TypeOK
<1>2. /\ waitApplyCh'[i][k] = q
      /\ \A j \in Server, l \in Index :
           <<j, l>> # <<i, k>> => waitApplyCh'[j][l] = waitApplyCh[j][l]
  BY <1>1, Zenon
<1>3. \A j : Executed(j)' = Executed(j)
  BY DEF Executed
<1> SUFFICES ASSUME NEW j \in Server, NEW l \in Index, waitApplyCh'[j][l] # NoQueue,
                    NEW n \in DOMAIN waitApplyCh'[j][l]
             PROVE  l <= Executed(j)' /\ waitApplyCh'[j][l][n] = chosen'[l]
  BY DEF QueuesHoldExecuted
<1>4. CASE <<j, l>> = <<i, k>>
  BY <1>2, <1>3, <1>4
<1>5. CASE <<j, l>> # <<i, k>>
  BY <1>2, <1>3, <1>5 DEF QueuesHoldExecuted
<1> QED
  BY <1>4, <1>5

\* The command at a handler's index is its own if it looks like it.
LEMMA SameRequestIsSame ==
  ASSUME DistinctIds, NEW op1 \in Op, NEW op2 \in Op, SameRequest(op1, op2)
  PROVE  op1.client = op2.client /\ op1.id = op2.id /\ WriteOf(op1) = WriteOf(op2)
BY DEF DistinctIds, SameRequest, Op, WriteOf

\* A handler pops what was chosen at its index, and executed by its server.
LEMMA PoppedIsChosen ==
  ASSUME TypeOK, ThreadInv, RequestInv, NEW h \in handlers, h.pc = "wait",
         NEW i, NEW k, NEW q, i = h.server, k = h.index, q = waitApplyCh[i][k], q # <<>>
  PROVE  /\ i \in Server /\ k \in Index /\ k \in Nat \ {0} /\ q \in Seq(Op) /\ q # NoQueue
         /\ k <= Executed(i) /\ Head(q) = chosen[k] /\ k \in DOMAIN chosen
         /\ Executed(i) \in Nat /\ Executed(i) <= Len(chosen) /\ Len(chosen) \in Nat
<1>1. i \in Server /\ k \in Index /\ q \in Seq(Op) /\ k \in Nat \ {0} /\ q # NoQueue
  <2>1. i \in Server /\ k \in Index /\ q \in Seq(Op)
    BY HandlerHasQueue
  <2> QED
    BY <2>1, NoQueueAssumption, BoundAssumption, SMT DEF Index
<1>2. 1 \in DOMAIN q /\ Head(q) = q[1]
  BY <1>1, EmptySeq, LenProperties, HeadTailProperties, SMT
<1>3. \A n \in DOMAIN q : k <= Executed(i) /\ q[n] = chosen[k]
  BY <1>1 DEF QueuesHoldExecuted, RequestInv
<1>4. k <= Executed(i) /\ Head(q) = chosen[k]
  BY <1>2, <1>3
<1>5. Executed(i) \in Nat /\ Executed(i) <= Len(chosen) /\ Len(chosen) \in Nat
  BY <1>1, ExecutedType DEF RequestInv
<1>6. DOMAIN chosen = 1 .. Len(chosen)
  BY LenProperties DEF TypeOK
<1>7. k \in DOMAIN chosen
  BY <1>1, <1>4, <1>5, <1>6, SMT
<1> QED
  BY <1>1, <1>3, <1>4, <1>5, <1>7

LEMMA PopCommandRequests ==
  ASSUME DistinctIds, TypeOK, ThreadInv, RequestInv, NEW h \in handlers, PopCommand(h)
  PROVE  RequestInv'
<1> DEFINE i == h.server
           k == h.index
           q == waitApplyCh[i][k]
<1>1. /\ h.pc = "wait" /\ q # <<>>
      /\ waitApplyCh' = [waitApplyCh EXCEPT ![i][k] = Tail(q)]
      /\ UNCHANGED <<proposed, chosen, delivered, lastRequestId, loop, clerk, answered>>
  BY DEF PopCommand, raftVars, storeVars
<1>2. i \in Server /\ k \in Index /\ q \in Seq(Op) /\ k \in Nat \ {0} /\ q # NoQueue
  BY <1>1, PoppedIsChosen
<1>4. \A n \in DOMAIN q : k <= Executed(i) /\ q[n] = chosen[k]
  BY <1>2 DEF QueuesHoldExecuted, RequestInv
<1>5. /\ k <= Executed(i) /\ Head(q) = chosen[k] /\ k \in DOMAIN chosen /\ Executed(i) \in Nat
      /\ Executed(i) <= Len(chosen) /\ Len(chosen) \in Nat
  BY <1>1, PoppedIsChosen
<1>6. QueuesHoldExecuted'
  <2>1. Tail(q) \in Seq(Op) /\ \A n \in DOMAIN Tail(q) : n + 1 \in DOMAIN q /\ Tail(q)[n] = q[n + 1]
    <3>1. /\ Tail(q) \in Seq(Op) /\ Len(Tail(q)) = Len(q) - 1
          /\ \A n \in 1 .. Len(Tail(q)) : Tail(q)[n] = q[n + 1]
      BY <1>1, <1>2, HeadTailProperties
    <3>2. Len(q) \in Nat /\ DOMAIN q = 1 .. Len(q) /\ DOMAIN Tail(q) = 1 .. Len(Tail(q))
      BY <1>2, <3>1, LenProperties
    <3> HIDE DEF q
    <3> QED
      BY <3>1, <3>2, SMT
  <2> HIDE DEF q
  <2>2. \A n \in DOMAIN Tail(q) : k <= Executed(i) /\ Tail(q)[n] = chosen[k]
    BY <1>4, <2>1
  <2> QED
    BY <1>1, <1>2, <2>1, <2>2, QueuesLess DEF RequestInv
<1>7. KnownIsExecuted'
  BY <1>1, KnownUnchanged DEF RequestInv
<1>8. h \in Handler /\ h.op \in Op /\ Head(q) \in Op
  BY <1>5, HandlerType, ChosenType
<1>9. ASSUME SameRequest(Head(q), h.op)
      PROVE  /\ LogHas(WriteOf(h.op), Len(chosen))
             /\ LogHasBelow(h.op.client, h.op.id, Executed(i))
  <2>1. chosen[k].client = h.op.client /\ chosen[k].id = h.op.id /\ WriteOf(chosen[k]) = WriteOf(h.op)
    BY <1>5, <1>8, <1>9, SameRequestIsSame
  <2>2. LogHas(WriteOf(h.op), Len(chosen))
    BY <1>2, <1>5, <2>1, SMT DEF LogHas
  <2>3. LogHasBelow(h.op.client, h.op.id, k - 1)
    BY <1>5, <2>1 DEF ChosenInOrder, RequestInv
  <2>4. h.op.id \in Int /\ k - 1 \in Int /\ Executed(i) \in Int /\ k - 1 <= Executed(i)
    BY <1>2, <1>5, HandlerType, SMT
  <2> HIDE DEF k, i
  <2>5. LogHasBelow(h.op.client, h.op.id, Executed(i))
    BY <2>3, <2>4, LogHasBelowMore
  <2> QED
    BY <2>2, <2>5
<1>10. CASE Step(h, [h EXCEPT !.pc = "erase", !.err = "ErrWrongLeader"])
  <2> DEFINE g == [h EXCEPT !.pc = "erase", !.err = "ErrWrongLeader"]
  <2>1. g.op = h.op /\ g.server = h.server /\ g.pc = "erase" /\ g.err = "ErrWrongLeader"
    BY <1>8, Zenon DEF Handler
  <2> HIDE DEF g
  <2> QED
    BY <1>1, <1>6, <1>7, <1>10, <2>1, RequestsMove DEF g
<1>11. CASE SameRequest(Head(q), h.op) /\ Step(h, [h EXCEPT !.pc = "erase", !.err = "OK"])
  <2> DEFINE g == [h EXCEPT !.pc = "erase", !.err = "OK"]
  <2>1. g.op = h.op /\ g.server = h.server /\ g.pc = "erase" /\ g.err = "OK"
    BY <1>8, Zenon DEF Handler
  <2>2. Step(h, g)
    BY <1>11
  <2> HIDE DEF g
  <2> QED
    BY <1>1, <1>6, <1>7, <1>9, <1>11, <2>1, <2>2, RequestsMove
<1>12. CASE SameRequest(Head(q), h.op) /\ h.op.type = "Get" /\ Step(h, [h EXCEPT !.pc = "execute"])
  <2> DEFINE g == [h EXCEPT !.pc = "execute"]
  <2>1. g.op = h.op /\ g.server = h.server
    BY <1>8, Zenon DEF Handler
  <2>2. Step(h, g)
    BY <1>12
  <2>3. g.op.type = "Get"
    BY <1>12, <2>1
  <2> HIDE DEF g
  <2> QED
    BY <1>1, <1>6, <1>7, <1>9, <1>12, <2>1, <2>2, <2>3, RequestsMove
<1> QED
  BY <1>10, <1>11, <1>12 DEF PopCommand

\* What a client knows to be executed is in the log.
LEMMA KnownIsInLog ==
  ASSUME TypeOK, ThreadInv, RequestInv, NEW i \in Server, NEW op \in Op, Genuine(op),
         op.id <= Known(i, op.client)
  PROVE  /\ op.type # "Get" => LogHas(WriteOf(op), Executed(i))
         /\ LogHasBelow(op.client, op.id, Executed(i))
<1>1. /\ op.client \in Client /\ op.id \in 1 .. clerk[op.client].id
      /\ op.type = Script[op.client][op.id] /\ op.id \in Nat
  BY DEF Genuine, Op
<1>2. LogHasBelow(op.client, Known(i, op.client) + 1, Executed(i))
  BY <1>1 DEF KnownIsExecuted, RequestInv
<1>3. Known(i, op.client) \in Nat /\ Executed(i) \in Nat
  BY <1>1, ClientIdAssumption, ExecutedType DEF Known, TypeOK, RequestInv
<1>4. LogHasBelow(op.client, op.id, Executed(i))
  <2>1. /\ Known(i, op.client) + 1 \in Int /\ op.id \in Int /\ op.id <= Known(i, op.client) + 1
        /\ Executed(i) \in Int /\ Executed(i) <= Executed(i)
    BY <1>1, <1>3, SMT
  <2> QED
    BY <1>2, <2>1, LogHasBelowMore
<1>5. ASSUME op.type # "Get" PROVE LogHas(WriteOf(op), Executed(i))
  <2>1. op.id \in 1 .. (Known(i, op.client) + 1) - 1
    BY <1>1, <1>3, SMT
  <2>2. LogHas([client |-> op.client, id |-> op.id], Executed(i))
    BY <1>1, <1>2, <1>5, <2>1 DEF LogHasBelow
  <2> QED
    BY <2>2 DEF WriteOf
<1> QED
  BY <1>4, <1>5

LEMMA HandlerOpGenuine ==
  ASSUME TypeOK, RequestInv, NEW h \in handlers
  PROVE  Genuine(h.op) /\ h.op \in Op
BY HandlerType DEF RequestInv, OpsAreGenuine

\* The steps of a handler that keep the log, the queues and the database.
LEMMA QuietRequests ==
  ASSUME TypeOK, ThreadInv, RequestInv, NEW h \in handlers,
         \/ RefuseRequest(h) \/ StartRequest(h) \/ PopTimesOut(h) \/ ReadLeadership(h)
         \/ ReadAfterTimeout(h) \/ WriteAfterTimeout(h)
  PROVE  RequestInv'
<1>1. UNCHANGED <<chosen, delivered, lastRequestId, waitApplyCh, loop, clerk, answered>>
  BY DEF RefuseRequest, StartRequest, PopTimesOut, ReadLeadership, ReadAfterTimeout,
     WriteAfterTimeout, raftVars, storeVars
<1>2. \A p \in proposed' : p \in proposed \/ p.op = h.op
  <2>1. CASE StartRequest(h)
    <3>1. PICK k : proposed' = proposed \cup {[index |-> k, op |-> h.op]}
      BY <2>1, Zenon DEF StartRequest
    <3> QED
      BY <3>1
  <2>2. CASE ~StartRequest(h)
    BY <2>2 DEF RefuseRequest, PopTimesOut, ReadLeadership, ReadAfterTimeout,
       WriteAfterTimeout, raftVars
  <2> QED
    BY <2>1, <2>2
<1>3. QueuesHoldExecuted' /\ KnownIsExecuted'
  BY <1>1, QueuesUnchanged, KnownUnchanged DEF RequestInv
<1>4. /\ h \in Handler /\ h.server \in Server /\ h.op \in Op /\ Genuine(h.op)
      /\ h.err \in {"OK", "ErrNoKey"} /\ h.op.type # "Get" => LogHas(WriteOf(h.op), Len(chosen))
  BY HandlerType, HandlerOpGenuine DEF RequestInv, RepliesAreTrue
<1>5. IfRequestDuplicate(h.server, h.op) => h.op.id <= Known(h.server, h.op.client)
  BY DEF IfRequestDuplicate, Known
<1>6. ASSUME NEW g, Step(h, g), g.op = h.op, g.server = h.server,
             g.pc # "execute", g.err \in {"ErrWrongLeader", h.err}
      PROVE  RequestInv'
  <2>1. g.err \in {"OK", "ErrNoKey"} /\ g.op.type # "Get" => LogHas(WriteOf(g.op), Len(chosen))
    BY <1>4, <1>6
  <2> QED
    BY <1>1, <1>2, <1>3, <1>6, <2>1, RequestsMove
<1>7. CASE RefuseRequest(h) \/ Step(h, [h EXCEPT !.pc = "erase", !.err = "ErrWrongLeader"])
  <2>1. PICK pc \in {"reply", "erase"} : Step(h, [h EXCEPT !.pc = pc, !.err = "ErrWrongLeader"])
    BY <1>7 DEF RefuseRequest
  <2> DEFINE g == [h EXCEPT !.pc = pc, !.err = "ErrWrongLeader"]
  <2>2. g.op = h.op /\ g.server = h.server /\ g.pc = pc /\ g.err = "ErrWrongLeader"
    BY <1>4, Zenon DEF Handler
  <2>3. Step(h, g) /\ pc # "execute"
    BY <2>1
  <2> HIDE DEF g
  <2> QED
    BY <1>6, <2>2, <2>3
<1>8. CASE StartRequest(h)
  <2>1. PICK k \in FreshIndex(h.server) : Step(h, [h EXCEPT !.pc = "register", !.index = k])
    BY <1>8 DEF StartRequest
  <2> DEFINE g == [h EXCEPT !.pc = "register", !.index = k]
  <2>2. g.op = h.op /\ g.server = h.server /\ g.pc = "register" /\ g.err = h.err
    BY <1>4, Zenon DEF Handler
  <2>3. Step(h, g)
    BY <2>1
  <2> HIDE DEF g
  <2> QED
    BY <1>6, <2>2, <2>3
<1>9. CASE PopTimesOut(h)
  <2> DEFINE g == [h EXCEPT !.pc = "timedOut"]
  <2>1. g.op = h.op /\ g.server = h.server /\ g.pc = "timedOut" /\ g.err = h.err
    BY <1>4, Zenon DEF Handler
  <2>2. Step(h, g)
    BY <1>9 DEF PopTimesOut
  <2> HIDE DEF g
  <2> QED
    BY <1>6, <2>1, <2>2
<1>10. CASE ReadLeadership(h)
  <2>1. PICK leader \in BOOLEAN : Step(h, [h EXCEPT !.pc = "check", !.leader = leader])
    BY <1>10 DEF ReadLeadership
  <2> DEFINE g == [h EXCEPT !.pc = "check", !.leader = leader]
  <2>2. g.op = h.op /\ g.server = h.server /\ g.pc = "check" /\ g.err = h.err
    BY <1>4, Zenon DEF Handler
  <2>3. Step(h, g)
    BY <2>1
  <2> HIDE DEF g
  <2> QED
    BY <1>6, <2>2, <2>3
<1>11. CASE ReadsIfExecuted(h) /\ Step(h, [h EXCEPT !.pc = "execute"])
  <2> DEFINE g == [h EXCEPT !.pc = "execute"]
  <2>1. g.op = h.op /\ g.server = h.server /\ g.err = h.err
    BY <1>4, Zenon DEF Handler
  <2>2. Step(h, g)
    BY <1>11
  <2>3. LogHasBelow(h.op.client, h.op.id, Executed(h.server))
    BY <1>4, <1>5, <1>11, KnownIsInLog DEF ReadsIfExecuted
  <2> HIDE DEF g
  <2> QED
    BY <1>1, <1>2, <1>3, <1>4, <2>1, <2>2, <2>3, RequestsMove
<1>12. CASE WriteAfterTimeout(h)
  <2> DEFINE g == [h EXCEPT !.pc = "erase", !.err = TimeoutErr(h)]
  <2>1. g.op = h.op /\ g.server = h.server /\ g.pc = "erase" /\ g.err = TimeoutErr(h)
    BY <1>4, Zenon DEF Handler
  <2>2. Step(h, g)
    BY <1>12 DEF WriteAfterTimeout
  <2>3. g.err \in {"OK", "ErrNoKey"} /\ g.op.type # "Get" => LogHas(WriteOf(g.op), Len(chosen))
    <3> SUFFICES ASSUME g.err \in {"OK", "ErrNoKey"}, h.op.type # "Get"
                 PROVE  LogHas(WriteOf(h.op), Len(chosen))
      BY <2>1
    <3>1. h.op.id <= Known(h.server, h.op.client)
      BY <1>5, <2>1 DEF TimeoutErr
    <3>2. LogHas(WriteOf(h.op), Executed(h.server))
      BY <1>4, <3>1, KnownIsInLog
    <3>3. Executed(h.server) \in Int /\ Len(chosen) \in Int /\ Executed(h.server) <= Len(chosen)
      BY <1>4, ExecutedType, SMT DEF RequestInv
    <3> QED
      BY <3>2, <3>3, LogHasMore
  <2> HIDE DEF g
  <2> QED
    BY <1>1, <1>2, <1>3, <2>1, <2>2, <2>3, RequestsMove
<1> QED
  BY <1>7, <1>8, <1>9, <1>10, <1>11, <1>12 DEF ReadAfterTimeout

LEMMA RegisterQueueRequests ==
  ASSUME TypeOK, ThreadInv, RequestInv, NEW h \in handlers, RegisterQueue(h)
  PROVE  RequestInv'
<1> DEFINE i == h.server
           k == h.index
           q == IF waitApplyCh[i][k] = NoQueue THEN <<>> ELSE waitApplyCh[i][k]
           g == [h EXCEPT !.pc = "wait"]
<1>1. /\ h.pc = "register" /\ Step(h, g) /\ waitApplyCh' = [waitApplyCh EXCEPT ![i][k] = q]
      /\ UNCHANGED <<proposed, chosen, delivered, lastRequestId, loop, clerk, answered>>
  BY DEF RegisterQueue, raftVars, storeVars
<1>2. h \in Handler /\ i \in Server /\ k \in Index
  <2>1. h \in Handler /\ i \in Server /\ k \in 1 .. issued[i] /\ issued[i] \in 0 .. MaxIndex
    BY <1>1, HandlerType DEF ThreadInv, HandlersInStep, TypeOK
  <2> QED
    BY <2>1, BoundAssumption, SMT DEF Index
<1>3. q \in Seq(Op) \cup {NoQueue} /\ \A n \in DOMAIN q : k <= Executed(i) /\ q[n] = chosen[k]
  <2>1. waitApplyCh[i][k] \in Seq(Op) \cup {NoQueue}
    BY <1>2 DEF TypeOK
  <2>2. CASE waitApplyCh[i][k] = NoQueue
    BY <2>2, EmptySeq, LenProperties, SMT
  <2>3. CASE waitApplyCh[i][k] # NoQueue
    BY <1>2, <2>1, <2>3 DEF QueuesHoldExecuted, RequestInv
  <2> QED
    BY <2>2, <2>3
<1> HIDE DEF q
<1>4. QueuesHoldExecuted'
  BY <1>1, <1>2, <1>3, QueuesLess DEF RequestInv
<1>5. KnownIsExecuted'
  BY <1>1, KnownUnchanged DEF RequestInv
<1>6. g.op = h.op /\ g.server = h.server /\ g.pc = "wait" /\ g.err = h.err
  BY <1>2, Zenon DEF Handler
<1>7. g.err \in {"OK", "ErrNoKey"} /\ g.op.type # "Get" => LogHas(WriteOf(g.op), Len(chosen))
  BY <1>6 DEF RepliesAreTrue, RequestInv
<1> HIDE DEF g
<1> QED
  BY <1>1, <1>4, <1>5, <1>6, <1>7, RequestsMove

LEMMA EraseQueueRequests ==
  ASSUME TypeOK, ThreadInv, RequestInv, NEW h \in handlers, EraseQueue(h)
  PROVE  RequestInv'
<1> DEFINE g == [h EXCEPT !.pc = "reply", !.index = 0, !.leader = FALSE]
<1>1. /\ h.pc = "erase" /\ Step(h, g)
      /\ waitApplyCh' = [waitApplyCh EXCEPT ![h.server][h.index] = NoQueue]
      /\ UNCHANGED <<proposed, chosen, delivered, lastRequestId, loop, clerk, answered>>
  BY DEF EraseQueue, raftVars, storeVars
<1>2. h \in Handler /\ h.server \in Server /\ h.index \in Index
  BY <1>1, HandlerHasQueue, HandlerType
<1>3. QueuesHoldExecuted'
  BY <1>1, <1>2, QueuesLess DEF RequestInv
<1>4. KnownIsExecuted'
  BY <1>1, KnownUnchanged DEF RequestInv
<1>5. g.op = h.op /\ g.server = h.server /\ g.pc = "reply" /\ g.err = h.err
  BY <1>2, Zenon DEF Handler
<1>6. g.err \in {"OK", "ErrNoKey"} /\ g.op.type # "Get" => LogHas(WriteOf(g.op), Len(chosen))
  BY <1>5 DEF RepliesAreTrue, RequestInv
<1> HIDE DEF g
<1> QED
  BY <1>1, <1>3, <1>4, <1>5, <1>6, RequestsMove

LEMMA ExecuteGetRequests ==
  ASSUME DistinctIds, TypeOK, ThreadInv, RequestInv, NEW h \in handlers, ExecuteGetOpOnKVDB(h)
  PROVE  RequestInv'
<1> DEFINE i == h.server
           c == h.op.client
           g == [h EXCEPT !.pc = "erase", !.value = kvDB[i],
                          !.err = IF kvDB[i] = <<>> THEN "ErrNoKey" ELSE "OK"]
<1>1. /\ h.pc = "execute" /\ Step(h, g)
      /\ lastRequestId' = [lastRequestId EXCEPT ![i][ClientId[c]] = h.op.id]
      /\ UNCHANGED <<proposed, chosen, delivered, waitApplyCh, loop, clerk, answered>>
  BY DEF ExecuteGetOpOnKVDB, raftVars
<1>2. /\ h \in Handler /\ i \in Server /\ c \in Client /\ h.op.id \in Nat /\ h.op.type = "Get"
      /\ Genuine(h.op)
  BY <1>1, HandlerType, HandlerOpGenuine DEF ThreadInv, HandlersInStep
<1>3. QueuesHoldExecuted'
  BY <1>1, QueuesUnchanged DEF RequestInv
<1>4. \A e, l, n : LogHasBelow(e, l, n)' <=> LogHasBelow(e, l, n)
  BY <1>1, Zenon DEF LogHasBelow, LogHas
<1>5. \A j \in Server, d \in Client :
        Known(j, d)' = IF j = i /\ d = c THEN h.op.id ELSE Known(j, d)
  BY <1>1, <1>2, ClientIdAssumption DEF TypeOK, Known, DistinctIds
<1>6. LogHasBelow(c, h.op.id + 1, Executed(i))
  <2> SUFFICES ASSUME NEW k \in 1 .. (h.op.id + 1) - 1, Script[c][k] # "Get"
               PROVE  LogHas([client |-> c, id |-> k], Executed(i))
    BY DEF LogHasBelow
  <2>1. k # h.op.id
    BY <1>2 DEF Genuine
  <2>2. k \in 1 .. h.op.id - 1
    BY <1>2, <2>1, SMT
  <2>3. LogHasBelow(c, h.op.id, Executed(i))
    BY <1>1 DEF ReadersAreBehind, RequestInv
  <2> QED
    BY <2>2, <2>3 DEF LogHasBelow
<1>7. KnownIsExecuted'
  <2> SUFFICES ASSUME NEW j \in Server, NEW d \in Client
               PROVE  Known(j, d)' <= clerk'[d].id /\ LogHasBelow(d, Known(j, d) + 1, Executed(j))'
    BY DEF KnownIsExecuted
  <2>1. Executed(j)' = Executed(j)
    BY <1>1 DEF Executed
  <2>2. CASE j = i /\ d = c
    <3>1. h.op.id <= clerk[c].id
      BY <1>2, ClerkType, SMT DEF Genuine
    <3> QED
      BY <1>1, <1>4, <1>5, <1>6, <2>1, <2>2, <3>1
  <2>3. CASE ~(j = i /\ d = c)
    BY <1>1, <1>4, <1>5, <2>1, <2>3 DEF KnownIsExecuted, RequestInv
  <2> QED
    BY <2>2, <2>3
<1>8. g.op = h.op /\ g.server = h.server /\ g.pc = "erase"
  BY <1>2, Zenon DEF Handler
<1> HIDE DEF g, c
<1> QED
  BY <1>1, <1>2, <1>3, <1>7, <1>8, RequestsMove

\* The apply loop goes on, and what was said of Executed holds of more.
LEMMA LoopGoesOn ==
  ASSUME TypeOK, ThreadInv, RequestInv,
         UNCHANGED <<proposed, chosen, handlers, clerk, answered>>,
         \A j \in Server : Executed(j)' \in Int /\ Executed(j) <= Executed(j)',
         DeliveredIsChosen', QueuesHoldExecuted', KnownIsExecuted'
  PROVE  RequestInv'
<1>1. OpsAreGenuine' /\ AnsweredInOrder' /\ AnsweredIsChosen' /\ RepliesAreTrue'
  BY DEF OpsAreGenuine, Genuine, AnsweredInOrder, AnsweredIsChosen, RepliesAreTrue, LogHas,
     RequestInv
<1>2. \A e, l, n : LogHasBelow(e, l, n)' <=> LogHasBelow(e, l, n)
  BY Zenon DEF LogHasBelow, LogHas
<1>3. ChosenInOrder'
  BY <1>2 DEF ChosenInOrder, RequestInv
<1>4. ReadersAreBehind'
  <2> SUFFICES ASSUME NEW h \in handlers, h.pc = "execute"
               PROVE  LogHasBelow(h.op.client, h.op.id, Executed(h.server)')
    BY <1>2 DEF ReadersAreBehind
  <2>1. h.server \in Server /\ h.op.id \in Int /\ h.op.id <= h.op.id
    BY HandlerType, SMT
  <2>2. Executed(h.server) \in Int
    BY <2>1, ExecutedType, SMT DEF RequestInv
  <2>3. LogHasBelow(h.op.client, h.op.id, Executed(h.server))
    BY DEF ReadersAreBehind, RequestInv
  <2> QED
    BY <2>1, <2>2, <2>3, LogHasBelowMore
<1> QED
  BY <1>1, <1>3, <1>4 DEF RequestInv

\* KnownIsExecuted of what has not changed while the loop goes on.
LEMMA KnownStays ==
  ASSUME TypeOK, ThreadInv, RequestInv, NEW i \in Server, NEW c \in Client,
         UNCHANGED <<chosen, clerk>>, Known(i, c)' = Known(i, c),
         Executed(i)' \in Int, Executed(i) <= Executed(i)'
  PROVE  Known(i, c)' <= clerk'[c].id /\ LogHasBelow(c, Known(i, c) + 1, Executed(i))'
<1>1. \A e, l, n : LogHasBelow(e, l, n)' <=> LogHasBelow(e, l, n)
  BY Zenon DEF LogHasBelow, LogHas
<1>2. Known(i, c) <= clerk[c].id /\ LogHasBelow(c, Known(i, c) + 1, Executed(i))
  BY DEF KnownIsExecuted, RequestInv
<1>3. Known(i, c) \in Nat /\ Executed(i) \in Nat
  BY ClientIdAssumption, ExecutedType DEF Known, TypeOK, RequestInv
<1>4. /\ Known(i, c) + 1 \in Int /\ Executed(i) \in Int /\ Executed(i)' \in Int
      /\ Known(i, c) + 1 <= Known(i, c) + 1
  BY <1>3, SMT
<1>5. LogHasBelow(c, Known(i, c) + 1, Executed(i)')
  BY <1>2, <1>4, LogHasBelowMore
<1> QED
  BY <1>1, <1>2, <1>5

LEMMA LoopStepRequests ==
  ASSUME DistinctIds, TypeOK, ThreadInv, RequestInv, TypeOK', ThreadInv', NEW i \in Server,
         LoopStep(i)
  PROVE  RequestInv'
<1>1. /\ Executed(i) \in Nat /\ Executed(i) <= Len(chosen) /\ Len(chosen) \in Nat
      /\ Len(delivered[i]) \in Nat /\ Len(delivered[i]) <= Len(chosen)
      /\ loop \in [Server -> {"pop", "execute", "send"}] /\ delivered \in [Server -> Seq(Op)]
      /\ delivered[i] \in Seq(Op)
  BY ExecutedType DEF RequestInv, TypeOK
<1>2. ASSUME NEW j \in Server PROVE Executed(j) \in Nat
  BY ExecutedType DEF RequestInv
<1>3. CASE GetCommandFromRaft(i)
  <2> DEFINE n == Len(delivered[i])
             op == chosen[n + 1]
  <2>1. /\ loop[i] = "pop" /\ n < Len(chosen)
        /\ delivered' = [delivered EXCEPT ![i] = Append(delivered[i], op)]
        /\ loop' = [loop EXCEPT ![i] = IF Skips(i, op) THEN "send" ELSE "execute"]
        /\ UNCHANGED <<proposed, chosen, lastRequestId, waitApplyCh, handlers, clerk, answered>>
    BY <1>3 DEF GetCommandFromRaft, raftVars, storeVars
  <2>2. op \in Op
    BY <1>1, <2>1, ElementOfSeq, SMT DEF TypeOK
  <2>3. /\ Append(delivered[i], op) \in Seq(Op) /\ Len(Append(delivered[i], op)) = n + 1
        /\ \A m \in 1 .. n : Append(delivered[i], op)[m] = delivered[i][m]
        /\ Append(delivered[i], op)[n + 1] = op
    BY <1>1, <2>2, AppendProperties
  <2>4. /\ delivered'[i] = Append(delivered[i], op) /\ loop'[i] \in {"send", "execute"}
        /\ \A j \in Server \ {i} : delivered'[j] = delivered[j] /\ loop'[j] = loop[j]
    BY <1>1, <2>1
  <2> HIDE DEF op
  <2>5. ASSUME NEW j \in Server PROVE Executed(j)' \in Int /\ Executed(j) <= Executed(j)'
    <3>1. CASE j = i
      BY <1>1, <2>1, <2>3, <2>4, <3>1, SMT DEF Executed
    <3>2. CASE j # i
      <4>1. Executed(j)' = Executed(j)
        BY <2>4, <3>2 DEF Executed
      <4> QED
        BY <1>2, <4>1, SMT
    <3> QED
      BY <3>1, <3>2
  <2>6. DeliveredIsChosen'
    <3>1. ASSUME NEW m \in DOMAIN (delivered'[i]) PROVE delivered'[i][m] = chosen[m]
      <4>1. m \in 1 .. n + 1 /\ DOMAIN delivered[i] = 1 .. n
        BY <1>1, <2>3, <2>4, <3>1, LenProperties
      <4>2. CASE m = n + 1
        BY <2>3, <2>4, <4>2 DEF op
      <4>3. CASE m # n + 1
        <5>1. m \in 1 .. n
          BY <1>1, <4>1, <4>3, SMT
        <5> QED
          BY <2>3, <2>4, <4>1, <5>1 DEF DeliveredIsChosen, RequestInv
      <4> QED
        BY <4>2, <4>3
    <3>2. Len(delivered'[i]) <= Len(chosen)
      BY <1>1, <2>1, <2>3, <2>4, SMT
    <3> QED
      BY <2>1, <2>4, <3>1, <3>2 DEF DeliveredIsChosen, RequestInv
  <2>7. QueuesHoldExecuted'
    <3> SUFFICES ASSUME NEW j \in Server, NEW k \in Index, waitApplyCh[j][k] # NoQueue,
                        NEW m \in DOMAIN waitApplyCh[j][k]
                 PROVE  k <= Executed(j)' /\ waitApplyCh[j][k][m] = chosen[k]
      BY <2>1 DEF QueuesHoldExecuted
    <3>1. k <= Executed(j) /\ waitApplyCh[j][k][m] = chosen[k]
      BY DEF QueuesHoldExecuted, RequestInv
    <3> QED
      BY <1>2, <2>5, <3>1, BoundAssumption, SMT DEF Index
  <2>8. KnownIsExecuted'
    <3>1. \A j, d : Known(j, d)' = Known(j, d)
      BY <2>1 DEF Known
    <3> QED
      BY <2>1, <2>5, <3>1, KnownStays DEF KnownIsExecuted
  <2> QED
    BY <2>1, <2>5, <2>6, <2>7, <2>8, LoopGoesOn
<1>4. CASE ExecuteOp(i)
  <2> DEFINE n == Len(delivered[i])
             op == Current(i)
  <2>1. /\ loop[i] = "execute" /\ loop' = [loop EXCEPT ![i] = "send"]
        /\ lastRequestId' = [lastRequestId EXCEPT ![i][ClientId[op.client]] = op.id]
        /\ UNCHANGED <<proposed, chosen, delivered, waitApplyCh, handlers, clerk, answered>>
    BY <1>4 DEF ExecuteOp, raftVars
  <2>2. op = chosen[n] /\ n \in DOMAIN chosen /\ n \in Nat \ {0}
    <3>1. op = delivered[i][n] /\ n \in Nat \ {0}
      BY <2>1, CurrentType DEF ThreadInv
    <3>2. n \in DOMAIN delivered[i] /\ n \in DOMAIN chosen
      BY <1>1, <3>1, LenProperties, SMT DEF TypeOK
    <3> QED
      BY <3>1, <3>2 DEF DeliveredIsChosen, RequestInv
  <2>3. /\ op \in Op /\ op.client \in Client /\ op.id \in Nat /\ Genuine(op)
        /\ LogHasBelow(op.client, op.id, n - 1)
    BY <2>2, ChosenType DEF RequestInv, OpsAreGenuine, ChosenInOrder
  <2> HIDE DEF op
  <2>4. /\ loop'[i] = "send" /\ Executed(i)' = n /\ Executed(i) = n - 1
        /\ \A j \in Server \ {i} : Executed(j)' = Executed(j)
    BY <1>1, <2>1, Zenon DEF Executed
  <2>5. ASSUME NEW j \in Server PROVE Executed(j)' \in Int /\ Executed(j) <= Executed(j)'
    BY <1>1, <1>2, <2>4, SMT
  <2>6. DeliveredIsChosen'
    BY <2>1 DEF DeliveredIsChosen, RequestInv
  <2>7. QueuesHoldExecuted'
    <3> SUFFICES ASSUME NEW j \in Server, NEW k \in Index, waitApplyCh[j][k] # NoQueue,
                        NEW m \in DOMAIN waitApplyCh[j][k]
                 PROVE  k <= Executed(j)' /\ waitApplyCh[j][k][m] = chosen[k]
      BY <2>1 DEF QueuesHoldExecuted
    <3>1. k <= Executed(j) /\ waitApplyCh[j][k][m] = chosen[k]
      BY DEF QueuesHoldExecuted, RequestInv
    <3> QED
      BY <1>2, <2>5, <3>1, BoundAssumption, SMT DEF Index
  <2>8. LogHasBelow(op.client, op.id + 1, n)
    <3> SUFFICES ASSUME NEW k \in 1 .. (op.id + 1) - 1, Script[op.client][k] # "Get"
                 PROVE  LogHas([client |-> op.client, id |-> k], n)
      BY DEF LogHasBelow
    <3>1. CASE k = op.id
      <4>1. WriteOf(chosen[n]) = [client |-> op.client, id |-> k]
        BY <2>2, <3>1 DEF WriteOf
      <4>2. n \in 1 .. n
        BY <2>2, SMT
      <4> HIDE DEF n
      <4> QED
        BY <4>1, <4>2 DEF LogHas
    <3>2. CASE k # op.id
      <4>1. k \in 1 .. op.id - 1
        BY <2>3, <3>2, SMT
      <4>2. LogHas([client |-> op.client, id |-> k], n - 1)
        BY <2>3, <4>1 DEF LogHasBelow
      <4>3. n - 1 \in Int /\ n \in Int /\ n - 1 <= n
        BY <2>2, SMT
      <4> HIDE DEF n
      <4> QED
        BY <4>2, <4>3, LogHasMore
    <3> QED
      BY <3>1, <3>2
  <2>9. \A j \in Server, d \in Client :
          Known(j, d)' = IF j = i /\ d = op.client THEN op.id ELSE Known(j, d)
    BY <2>1, <2>3, ClientIdAssumption DEF TypeOK, Known, DistinctIds
  <2>10. KnownIsExecuted'
    <3> SUFFICES ASSUME NEW j \in Server, NEW d \in Client
                 PROVE  Known(j, d)' <= clerk'[d].id /\ LogHasBelow(d, Known(j, d) + 1, Executed(j))'
      BY DEF KnownIsExecuted
    <3>1. \A e, l, m : LogHasBelow(e, l, m)' <=> LogHasBelow(e, l, m)
      BY <2>1, Zenon DEF LogHasBelow, LogHas
    <3>2. CASE j = i /\ d = op.client
      <4>1. op.id <= clerk[op.client].id
        BY <2>3, ClerkType, SMT DEF Genuine
      <4> QED
        BY <2>1, <2>4, <2>8, <2>9, <3>1, <3>2, <4>1
    <3>3. CASE ~(j = i /\ d = op.client)
      BY <2>1, <2>5, <2>9, <3>3, KnownStays
    <3> QED
      BY <3>2, <3>3
  <2> QED
    BY <2>1, <2>5, <2>6, <2>7, <2>10, LoopGoesOn
<1>5. CASE SendMessageToWaitChan(i)
  <2> DEFINE k == Len(delivered[i])
             q == waitApplyCh[i][k]
             op == Current(i)
             r == IF q = NoQueue THEN q ELSE Append(q, op)
  <2>1. /\ loop[i] = "send" /\ loop' = [loop EXCEPT ![i] = "pop"]
        /\ waitApplyCh' = [waitApplyCh EXCEPT ![i][k] = r]
        /\ UNCHANGED <<proposed, chosen, delivered, lastRequestId, handlers, clerk, answered>>
    BY <1>5 DEF SendMessageToWaitChan, raftVars, storeVars
  <2>2. op = chosen[k] /\ op \in Op /\ Executed(i) = k
    <3>1. op = delivered[i][k] /\ k \in Nat \ {0} /\ op \in Op
      BY <2>1, CurrentType DEF ThreadInv
    <3>2. k \in DOMAIN delivered[i]
      BY <1>1, <3>1, LenProperties, SMT
    <3> QED
      BY <2>1, <3>1, <3>2 DEF DeliveredIsChosen, RequestInv, Executed
  <2>3. \A j \in Server : Executed(j)' = Executed(j)
    BY <1>1, <2>1 DEF Executed
  <2>4. ASSUME NEW j \in Server PROVE Executed(j)' \in Int /\ Executed(j) <= Executed(j)'
    BY <1>2, <2>3, SMT
  <2>5. DeliveredIsChosen'
    BY <2>1 DEF DeliveredIsChosen, RequestInv
  <2>6. waitApplyCh \in [Server -> [Index -> Seq(Op) \cup {NoQueue}]]
    BY DEF TypeOK
  <2>7. ASSUME k \in Index, r # NoQueue, NEW m \in DOMAIN r PROVE k <= Executed(i) /\ r[m] = chosen[k]
    <3>1. q # NoQueue /\ q \in Seq(Op) /\ r = Append(q, op)
      BY <2>6, <2>7
    <3>2. /\ DOMAIN q = 1 .. Len(q) /\ m \in 1 .. Len(q) + 1 /\ Len(q) \in Nat
          /\ r[Len(q) + 1] = op /\ \A l \in 1 .. Len(q) : r[l] = q[l]
      BY <2>2, <2>7, <3>1, AppendProperties, LenProperties
    <3>3. CASE m = Len(q) + 1
      BY <1>1, <2>2, <3>2, <3>3, SMT
    <3>4. CASE m # Len(q) + 1
      <4>1. m \in 1 .. Len(q)
        BY <3>2, <3>4, SMT
      <4> QED
        BY <2>7, <3>1, <3>2, <4>1 DEF QueuesHoldExecuted, RequestInv
    <3> QED
      BY <3>3, <3>4
  <2> HIDE DEF r, k, op
  <2>8. QueuesHoldExecuted'
    <3> SUFFICES ASSUME NEW j \in Server, NEW l \in Index, waitApplyCh'[j][l] # NoQueue,
                        NEW m \in DOMAIN (waitApplyCh'[j][l])
                 PROVE  l <= Executed(j)' /\ waitApplyCh'[j][l][m] = chosen'[l]
      BY DEF QueuesHoldExecuted
    <3>1. CASE <<j, l>> = <<i, k>>
      <4>1. j = i /\ l = k /\ k \in Index /\ waitApplyCh'[i][k] = r
        BY <2>1, <2>6, <3>1
      <4> QED
        BY <2>1, <2>3, <2>7, <4>1
    <3>2. CASE <<j, l>> # <<i, k>>
      <4>1. waitApplyCh'[j][l] = waitApplyCh[j][l]
        BY <2>1, <2>6, <3>2
      <4> QED
        BY <2>1, <2>3, <4>1 DEF QueuesHoldExecuted, RequestInv
    <3> QED
      BY <3>1, <3>2
  <2>9. KnownIsExecuted'
    <3>1. \A j, d : Known(j, d)' = Known(j, d)
      BY <2>1 DEF Known
    <3> QED
      BY <2>1, <2>4, <3>1, KnownStays DEF KnownIsExecuted
  <2> QED
    BY <2>1, <2>4, <2>5, <2>8, <2>9, LoopGoesOn
<1> QED
  BY <1>3, <1>4, <1>5 DEF LoopStep

LEMMA CommitEntryRequests ==
  ASSUME TypeOK, ThreadInv, RequestInv, CommitEntry
  PROVE  RequestInv'
<1>1. PICK p \in proposed : p.index = Len(chosen) + 1 /\ chosen' = Append(chosen, p.op)
  BY DEF CommitEntry
<1> DEFINE op == p.op
           L == Len(chosen)
<1>2. /\ op \in Op /\ Genuine(op) /\ chosen \in Seq(Op) /\ op.client \in Client /\ op.id \in Nat
  BY DEF TypeOK, RequestInv, OpsAreGenuine, Op
<1>3. /\ chosen' \in Seq(Op) /\ Len(chosen') = L + 1 /\ L \in Nat
      /\ \A n \in 1 .. L : chosen'[n] = chosen[n]
      /\ chosen'[L + 1] = op
      /\ \A w : \A n \in Int : n <= L => (LogHas(w, n)' <=> LogHas(w, n))
      /\ \A c : \A id \in Int : \A n \in Int :
           n <= L => (LogHasBelow(c, id, n)' <=> LogHasBelow(c, id, n))
  BY <1>1, <1>2, ChosenGrows
<1>4. DOMAIN chosen = 1 .. L /\ DOMAIN chosen' = 1 .. L + 1
  BY <1>2, <1>3, LenProperties
<1>5. ASSUME NEW n \in DOMAIN chosen'
      PROVE  \/ n \in DOMAIN chosen /\ n \in 1 .. L /\ chosen'[n] = chosen[n]
             \/ n = L + 1 /\ chosen'[n] = op
  BY <1>3, <1>4, SMT
<1>6. UNCHANGED <<delivered, lastRequestId, waitApplyCh, loop, handlers, clerk, answered>>
      /\ proposed' \subseteq proposed
  BY DEF CommitEntry, storeVars
<1> HIDE DEF op, L
<1>7. OpsAreGenuine'
  <2>1. \A o : Genuine(o)' <=> Genuine(o)
    BY <1>6, Zenon DEF Genuine
  <2>2. \A n \in DOMAIN chosen' : Genuine(chosen'[n])
    BY <1>2, <1>5 DEF OpsAreGenuine, RequestInv
  <2> QED
    BY <1>6, <2>1, <2>2 DEF OpsAreGenuine, RequestInv
<1>8. DeliveredIsChosen'
  <2> SUFFICES ASSUME NEW i \in Server
               PROVE  /\ Len(delivered[i]) <= Len(chosen')
                      /\ \A n \in DOMAIN delivered[i] : delivered[i][n] = chosen'[n]
    BY <1>6 DEF DeliveredIsChosen
  <2>1. /\ Len(delivered[i]) <= L /\ Len(delivered[i]) \in Nat
        /\ DOMAIN delivered[i] = 1 .. Len(delivered[i])
    BY ExecutedType, LenProperties DEF RequestInv, TypeOK, L
  <2>2. \A n \in DOMAIN delivered[i] : n \in 1 .. L
    BY <1>3, <2>1, SMT
  <2>3. \A n \in DOMAIN delivered[i] : delivered[i][n] = chosen'[n]
    BY <1>3, <2>2 DEF DeliveredIsChosen, RequestInv
  <2> QED
    BY <1>3, <2>1, <2>3, SMT
<1>9. ASSUME NEW w \in answered PROVE LogHas(w, L)
  BY <1>4 DEF AnsweredIsChosen, LogHas, RequestInv
<1>10. AnsweredInOrder' /\ AnsweredIsChosen'
  <2>1. ASSUME NEW w \in answered PROVE \E n \in DOMAIN chosen' : WriteOf(chosen'[n]) = w
    <3>1. PICK n \in DOMAIN chosen : WriteOf(chosen[n]) = w
      BY DEF AnsweredIsChosen, RequestInv
    <3>2. n \in 1 .. L /\ n \in DOMAIN chosen'
      BY <1>3, <1>4, SMT
    <3> QED
      BY <1>3, <3>1, <3>2
  <2> QED
    BY <1>6, <2>1 DEF AnsweredInOrder, AnsweredIsChosen, RequestInv
<1>11. LogHasBelow(op.client, op.id, L)
  <2> SUFFICES ASSUME NEW k \in 1 .. op.id - 1, Script[op.client][k] # "Get"
               PROVE  LogHas([client |-> op.client, id |-> k], L)
    BY DEF LogHasBelow
  <2>1. clerk[op.client].id \in Nat /\ op.id \in 1 .. clerk[op.client].id
    BY <1>2, ClerkType DEF Genuine
  <2>2. k \in 1 .. clerk[op.client].id /\ k < clerk[op.client].id
    BY <1>2, <2>1, SMT
  <2>3. [client |-> op.client, id |-> k] \in answered
    BY <1>2, <2>2 DEF AnsweredInOrder, RequestInv
  <2> QED
    BY <1>9, <2>3
<1>12. ChosenInOrder'
  <2> SUFFICES ASSUME NEW n \in DOMAIN chosen', NEW c, NEW id, NEW m,
                      c = chosen'[n].client, id = chosen'[n].id, m = n - 1
               PROVE  LogHasBelow(c, id, m)'
    BY DEF ChosenInOrder
  <2>1. CASE n \in DOMAIN chosen /\ n \in 1 .. L /\ chosen'[n] = chosen[n]
    <3>1. LogHasBelow(c, id, m)
      BY <2>1 DEF ChosenInOrder, RequestInv
    <3>2. id \in Int /\ m \in Int /\ m <= L
      BY <1>3, <2>1, ChosenType, SMT
    <3> QED
      BY <1>3, <3>1, <3>2
  <2>2. CASE n = L + 1 /\ chosen'[n] = op
    <3>1. m = L /\ L \in Int /\ L <= L /\ id \in Int /\ c = op.client /\ id = op.id
      BY <1>2, <1>3, <2>2, SMT
    <3> QED
      BY <1>3, <1>11, <3>1
  <2> QED
    BY <1>5, <2>1, <2>2
<1>13. ASSUME NEW i \in Server
       PROVE  Executed(i)' = Executed(i) /\ Executed(i) \in Int /\ Executed(i) <= L
  <2>1. Executed(i)' = Executed(i)
    BY <1>6 DEF Executed
  <2> QED
    BY <2>1, ExecutedType, SMT DEF RequestInv, L
<1>14. QueuesHoldExecuted'
  <2> SUFFICES ASSUME NEW i \in Server, NEW k \in Index, waitApplyCh[i][k] # NoQueue,
                      NEW n \in DOMAIN waitApplyCh[i][k]
               PROVE  k <= Executed(i)' /\ waitApplyCh[i][k][n] = chosen'[k]
    BY <1>6 DEF QueuesHoldExecuted
  <2>1. k <= Executed(i) /\ waitApplyCh[i][k][n] = chosen[k]
    BY DEF QueuesHoldExecuted, RequestInv
  <2>2. k \in 1 .. L
    BY <1>3, <1>13, <2>1, BoundAssumption, SMT DEF Index
  <2> QED
    BY <1>3, <1>13, <2>1, <2>2
<1>15. KnownIsExecuted'
  <2> SUFFICES ASSUME NEW i \in Server, NEW c \in Client
               PROVE  Known(i, c)' <= clerk[c].id /\ LogHasBelow(c, Known(i, c) + 1, Executed(i))'
    BY <1>6 DEF KnownIsExecuted
  <2>1. Known(i, c)' = Known(i, c) /\ Known(i, c) + 1 \in Int
    <3>1. Known(i, c)' = Known(i, c) /\ Known(i, c) \in Nat
      BY <1>6, ClientIdAssumption DEF Known, TypeOK
    <3> QED
      BY <3>1, SMT
  <2>2. Known(i, c) <= clerk[c].id /\ LogHasBelow(c, Known(i, c) + 1, Executed(i))
    BY DEF KnownIsExecuted, RequestInv
  <2> QED
    BY <1>3, <1>13, <2>1, <2>2
<1>16. ReadersAreBehind'
  <2> SUFFICES ASSUME NEW h \in handlers, h.pc = "execute"
               PROVE  LogHasBelow(h.op.client, h.op.id, Executed(h.server))'
    BY <1>6 DEF ReadersAreBehind
  <2>1. LogHasBelow(h.op.client, h.op.id, Executed(h.server))
    BY DEF ReadersAreBehind, RequestInv
  <2>2. h.server \in Server /\ h.op.id \in Int
    BY HandlerType, SMT
  <2> QED
    BY <1>3, <1>13, <2>1, <2>2
<1>17. RepliesAreTrue'
  <2> SUFFICES ASSUME NEW h \in handlers, h.err \in {"OK", "ErrNoKey"}, h.op.type # "Get"
               PROVE  \E m \in 1 .. Len(chosen') : WriteOf(chosen'[m]) = WriteOf(h.op)
    BY <1>6 DEF RepliesAreTrue, LogHas
  <2>1. LogHas(WriteOf(h.op), L)
    BY DEF RepliesAreTrue, RequestInv, L
  <2>2. PICK m \in 1 .. L : WriteOf(chosen[m]) = WriteOf(h.op)
    BY <2>1 DEF LogHas
  <2>3. m \in 1 .. Len(chosen') /\ chosen'[m] = chosen[m]
    BY <1>3, SMT
  <2> QED
    BY <2>2, <2>3
<1> QED
  BY <1>7, <1>8, <1>10, <1>12, <1>14, <1>15, <1>16, <1>17 DEF RequestInv

\* A clerk goes on: its requests grow in number, its new threads serve one.
LEMMA ClerkGoesOn ==
  ASSUME TypeOK, ThreadInv, RequestInv, TypeOK',
         UNCHANGED <<raftVars, delivered, storeVars, waitApplyCh, loop>>,
         \A d \in Client : clerk[d].id <= clerk'[d].id,
         \A f \in handlers' : \/ f \in handlers
                              \/ f.pc = "start" /\ f.err = "none" /\ Genuine(f.op)',
         AnsweredInOrder', AnsweredIsChosen'
  PROVE  RequestInv'
<1>1. UNCHANGED <<proposed, chosen, delivered, lastRequestId, waitApplyCh, loop>>
  BY DEF raftVars, storeVars
<1>2. /\ \A w, n : LogHas(w, n)' <=> LogHas(w, n)
      /\ \A d, id, n : LogHasBelow(d, id, n)' <=> LogHasBelow(d, id, n)
      /\ \A i : Executed(i)' = Executed(i)
      /\ \A i, d : Known(i, d)' = Known(i, d)
  BY <1>1, Zenon DEF LogHas, LogHasBelow, Executed, Known
<1>3. ASSUME NEW op \in Op, Genuine(op) PROVE Genuine(op)'
  <2>1. op.client \in Client /\ op.id \in 1 .. clerk[op.client].id
        /\ op.type = Script[op.client][op.id]
    BY <1>3 DEF Op, Genuine
  <2>2. clerk[op.client].id \in Nat /\ clerk'[op.client].id \in Nat
    BY <2>1 DEF TypeOK, Clerk
  <2>3. clerk[op.client].id <= clerk'[op.client].id
    BY <2>1
  <2>4. op.id \in 1 .. clerk'[op.client].id
    BY <2>1, <2>2, <2>3, SMT
  <2> QED
    BY <2>1, <2>4 DEF Genuine
<1>4. OpsAreGenuine'
  <2>1. \A f \in handlers' : Genuine(f.op)'
    BY <1>3, HandlerOpGenuine
  <2>2. \A p \in proposed : Genuine(p.op)'
    BY <1>3 DEF TypeOK, OpsAreGenuine, RequestInv
  <2>3. \A n \in DOMAIN chosen : Genuine(chosen[n])'
    BY <1>1, <1>3, ChosenType DEF OpsAreGenuine, RequestInv
  <2> QED
    BY <1>1, <2>1, <2>2, <2>3 DEF OpsAreGenuine
<1>5. DeliveredIsChosen' /\ ChosenInOrder' /\ QueuesHoldExecuted'
  BY <1>1, <1>2 DEF DeliveredIsChosen, ChosenInOrder, QueuesHoldExecuted, RequestInv
<1>6. KnownIsExecuted'
  <2> SUFFICES ASSUME NEW i \in Server, NEW d \in Client
               PROVE  Known(i, d)' <= clerk'[d].id /\ LogHasBelow(d, Known(i, d) + 1, Executed(i))'
    BY DEF KnownIsExecuted
  <2>1. Known(i, d) <= clerk[d].id /\ LogHasBelow(d, Known(i, d) + 1, Executed(i))
    BY DEF KnownIsExecuted, RequestInv
  <2>2. Known(i, d) \in Nat /\ clerk[d].id \in Nat /\ clerk'[d].id \in Nat
    BY ClientIdAssumption DEF Known, TypeOK, Clerk
  <2>3. clerk[d].id <= clerk'[d].id
    OBVIOUS
  <2>4. Known(i, d) <= clerk'[d].id
    BY <2>1, <2>2, <2>3, SMT
  <2> QED
    BY <1>2, <2>1, <2>4
<1>7. ReadersAreBehind'
  BY <1>2 DEF ReadersAreBehind, RequestInv
<1>8. RepliesAreTrue'
  BY <1>1, <1>2 DEF RepliesAreTrue, RequestInv
<1> QED
  BY <1>4, <1>5, <1>6, <1>7, <1>8 DEF RequestInv

LEMMA ClerkCallsRequests ==
  ASSUME TypeOK, ThreadInv, RequestInv, TypeOK', NEW c \in Client, ClerkCalls(c)
  PROVE  RequestInv'
<1> DEFINE id == clerk[c].id + 1
<1>0. PICK f : f = Called(OpOf(c, id), clerk[c].recentLeader, 1)
  OBVIOUS
<1>1. /\ ~clerk[c].calling /\ clerk'[c].id = id /\ clerk'[c].calling = TRUE
      /\ \A d \in Client \ {c} : clerk'[d] = clerk[d]
      /\ handlers' = handlers \cup {f}
      /\ UNCHANGED <<raftVars, delivered, storeVars, waitApplyCh, loop, answered>>
  <2>1. clerk \in [Client -> Clerk] /\ clerk[c] \in Clerk
    BY DEF TypeOK
  <2> DEFINE b == IF Script[c][id] = "Get" THEN answered ELSE {}
             new == [clerk[c] EXCEPT !.calling = TRUE, !.id = id, !.server = clerk[c].recentLeader,
                                     !.attempt = 1, !.value = <<>>, !.before = b]
  <2>2. clerk' = [clerk EXCEPT ![c] = new]
    BY DEF ClerkCalls
  <2>3. new.id = id /\ new.calling = TRUE
    BY <2>1, Zenon DEF Clerk
  <2> HIDE DEF new
  <2>4. clerk'[c] = new /\ \A d \in Client \ {c} : clerk'[d] = clerk[d]
    BY <2>1, <2>2
  <2> QED
    BY <1>0, <2>3, <2>4 DEF ClerkCalls
<1>2. clerk[c].id \in Nat
  BY ClerkType
<1>3. \A d \in Client : clerk[d].id <= clerk'[d].id
  <2>1. \A d \in Client : clerk[d].id \in Nat
    BY ClerkType
  <2> QED
    BY <1>1, <2>1, SMT
<1>4. f.pc = "start" /\ f.err = "none" /\ f.op = [client |-> c, id |-> id, type |-> Script[c][id]]
  BY <1>0 DEF Called, OpOf
<1>5. Genuine(f.op)'
  <2>1. f.op.client = c /\ f.op.id = id /\ f.op.type = Script[c][id]
    BY <1>4
  <2>2. id \in 1 .. id
    BY <1>2, SMT
  <2> HIDE DEF id
  <2> QED
    BY <1>1, <2>1, <2>2 DEF Genuine
<1>6. AnsweredInOrder'
  <2> SUFFICES ASSUME NEW d \in Client, NEW k \in 1 .. clerk'[d].id, Script[d][k] # "Get",
                      k < clerk'[d].id \/ ~clerk'[d].calling
               PROVE  [client |-> d, id |-> k] \in answered'
    BY DEF AnsweredInOrder
  <2>1. CASE d = c
    <3>1. k \in 1 .. clerk[c].id
      BY <1>1, <1>2, <2>1, SMT
    <3> QED
      BY <1>1, <2>1, <3>1 DEF AnsweredInOrder, RequestInv
  <2>2. CASE d # c
    BY <1>1, <2>2 DEF AnsweredInOrder, RequestInv
  <2> QED
    BY <2>1, <2>2
<1>7. AnsweredIsChosen'
  BY <1>1 DEF AnsweredIsChosen, RequestInv, raftVars
<1>8. \A g \in handlers' : \/ g \in handlers
                           \/ g.pc = "start" /\ g.err = "none" /\ Genuine(g.op)'
  BY <1>1, <1>4, <1>5
<1> QED
  BY <1>1, <1>3, <1>6, <1>7, <1>8, ClerkGoesOn

LEMMA RetriesRequests ==
  ASSUME TypeOK, ThreadInv, RequestInv, TypeOK', NEW c \in Client, NEW server \in Server,
         clerk[c].calling, Retries(c, server), handlers' \subseteq handlers \cup {Retry(c, server)},
         UNCHANGED <<raftVars, delivered, storeVars, waitApplyCh, loop, answered>>
  PROVE  RequestInv'
<1>0. PICK f : f = Retry(c, server)
  OBVIOUS
<1>1. /\ clerk'[c].id = clerk[c].id /\ clerk'[c].calling = clerk[c].calling
      /\ \A d \in Client \ {c} : clerk'[d] = clerk[d]
  <2>1. clerk \in [Client -> Clerk] /\ clerk[c] \in Clerk
    BY DEF TypeOK
  <2> DEFINE new == [clerk[c] EXCEPT !.server = server, !.attempt = clerk[c].attempt + 1]
  <2>2. clerk' = [clerk EXCEPT ![c] = new]
    BY DEF Retries
  <2>3. new.id = clerk[c].id /\ new.calling = clerk[c].calling
    BY <2>1, Zenon DEF Clerk
  <2> HIDE DEF new
  <2>4. clerk'[c] = new /\ \A d \in Client \ {c} : clerk'[d] = clerk[d]
    BY <2>1, <2>2
  <2> QED
    BY <2>3, <2>4
<1>2. clerk[c].id \in Nat /\ clerk[c].id \in 1 .. clerk[c].id
  BY ClerkType, SMT
<1>3. \A d \in Client : clerk[d].id <= clerk'[d].id
  <2>1. \A d \in Client : clerk[d].id \in Nat
    BY ClerkType
  <2> QED
    BY <1>1, <2>1, SMT
<1>4. /\ f.pc = "start" /\ f.err = "none" /\ f.op.client = c /\ f.op.id = clerk[c].id
      /\ f.op.type = Script[c][clerk[c].id]
  BY <1>0 DEF Retry, Called, OpOf
<1>5. Genuine(f.op)'
  BY <1>1, <1>2, <1>4 DEF Genuine
<1>6. AnsweredInOrder'
  <2> SUFFICES ASSUME NEW d \in Client, NEW k \in 1 .. clerk'[d].id, Script[d][k] # "Get",
                      k < clerk'[d].id \/ ~clerk'[d].calling
               PROVE  [client |-> d, id |-> k] \in answered'
    BY DEF AnsweredInOrder
  <2>1. clerk'[d].id = clerk[d].id /\ clerk'[d].calling = clerk[d].calling
    BY <1>1
  <2> QED
    BY <2>1 DEF AnsweredInOrder, RequestInv
<1>7. AnsweredIsChosen'
  BY DEF AnsweredIsChosen, RequestInv, raftVars
<1>8. \A g \in handlers' : \/ g \in handlers
                           \/ g.pc = "start" /\ g.err = "none" /\ Genuine(g.op)'
  BY <1>0, <1>4, <1>5
<1> QED
  BY <1>3, <1>6, <1>7, <1>8, ClerkGoesOn

LEMMA CallFailsRequests ==
  ASSUME TypeOK, ThreadInv, RequestInv, TypeOK', NEW c \in Client, CallFails(c)
  PROVE  RequestInv'
<1>1. PICK server \in {clerk[c].server, NextServer[clerk[c].server]} :
        Retries(c, server) /\ handlers' = handlers \cup {Retry(c, server)}
  BY DEF CallFails
<1>2. server \in Server
  BY <1>1, ClerkType, RingAssumption
<1>3. handlers' \subseteq handlers \cup {Retry(c, server)}
  BY <1>1
<1> QED
  BY <1>1, <1>2, <1>3, RetriesRequests DEF CallFails

LEMMA WrongLeaderRequests ==
  ASSUME TypeOK, ThreadInv, RequestInv, TypeOK', NEW h \in handlers, WrongLeader(h.op.client, h)
  PROVE  RequestInv'
<1> DEFINE c == h.op.client
           server == NextServer[clerk[c].server]
<1>1. c \in Client
  BY HandlerType
<1>2. server \in Server /\ clerk[c].calling
  BY <1>1, ClerkType, RingAssumption DEF WrongLeader, Serves
<1>3. Retries(c, server) /\ handlers' \subseteq handlers \cup {Retry(c, server)}
  BY DEF WrongLeader
<1> HIDE DEF server, c
<1> QED
  BY <1>1, <1>2, <1>3, RetriesRequests DEF WrongLeader

LEMMA LostRequests ==
  ASSUME TypeOK, ThreadInv, RequestInv, TypeOK', NEW h \in handlers, Lost(h)
  PROVE  RequestInv'
<1>1. /\ handlers' \subseteq handlers
      /\ UNCHANGED <<raftVars, delivered, storeVars, waitApplyCh, loop, clerk, answered>>
  BY DEF Lost
<1>2. AnsweredInOrder' /\ AnsweredIsChosen'
  BY <1>1 DEF AnsweredInOrder, AnsweredIsChosen, RequestInv, raftVars
<1>3. \A d \in Client : clerk[d].id <= clerk'[d].id
  <2>1. \A d \in Client : clerk[d].id \in Nat
    BY ClerkType
  <2> QED
    BY <1>1, <2>1, SMT
<1> QED
  BY <1>1, <1>2, <1>3, ClerkGoesOn

LEMMA AnsweredRequests ==
  ASSUME TypeOK, ThreadInv, RequestInv, TypeOK', NEW h \in handlers, Answered(h.op.client, h)
  PROVE  RequestInv'
<1> DEFINE c == h.op.client
<1>1. c \in Client /\ h.op \in Op /\ Genuine(h.op)
  BY HandlerType, HandlerOpGenuine
<1>2. /\ h.op.id = clerk[c].id /\ h.err \in {"OK", "ErrNoKey"} /\ clerk[c].calling
      /\ handlers' \subseteq handlers
      /\ answered' = IF h.op.type = "Get" THEN answered ELSE answered \cup {WriteOf(h.op)}
      /\ UNCHANGED <<raftVars, delivered, storeVars, waitApplyCh, loop>>
  BY DEF Answered, Serves
<1>3. clerk'[c].id = clerk[c].id /\ \A d \in Client \ {c} : clerk'[d] = clerk[d]
  <2>1. clerk \in [Client -> Clerk] /\ clerk[c] \in Clerk
    BY <1>1 DEF TypeOK
  <2> DEFINE leader == IF h.err = "OK" THEN clerk[c].server ELSE clerk[c].recentLeader
             new == [clerk[c] EXCEPT !.calling = FALSE, !.attempt = 0, !.value = h.value,
                                     !.recentLeader = leader]
  <2>2. clerk' = [clerk EXCEPT ![c] = new]
    BY DEF Answered
  <2>3. new.id = clerk[c].id
    BY <2>1, Zenon DEF Clerk
  <2> HIDE DEF new
  <2>4. clerk'[c] = new /\ \A d \in Client \ {c} : clerk'[d] = clerk[d]
    BY <1>1, <2>1, <2>2
  <2> QED
    BY <2>3, <2>4
<1>4. h.op.type # "Get" => LogHas(WriteOf(h.op), Len(chosen))
  BY <1>2 DEF RepliesAreTrue, RequestInv
<1>5. \A d \in Client : clerk[d].id \in Nat /\ clerk[d].id <= clerk'[d].id
  <2>1. \A d \in Client : clerk[d].id \in Nat
    BY ClerkType
  <2> QED
    BY <1>3, <2>1, SMT
<1>6. AnsweredIsChosen'
  <2>1. DOMAIN chosen = 1 .. Len(chosen) /\ chosen' = chosen
    BY <1>2, LenProperties DEF TypeOK, raftVars
  <2>2. ASSUME NEW w \in answered' PROVE \E n \in DOMAIN chosen : WriteOf(chosen[n]) = w
    <3>1. CASE w \in answered
      BY <3>1 DEF AnsweredIsChosen, RequestInv
    <3>2. CASE h.op.type # "Get" /\ w = WriteOf(h.op)
      BY <1>4, <2>1, <3>2 DEF LogHas
    <3> QED
      BY <1>2, <3>1, <3>2
  <2> QED
    BY <2>1, <2>2 DEF AnsweredIsChosen
<1>7. AnsweredInOrder'
  <2> SUFFICES ASSUME NEW d \in Client, NEW k \in 1 .. clerk'[d].id, Script[d][k] # "Get",
                      k < clerk'[d].id \/ ~clerk'[d].calling
               PROVE  [client |-> d, id |-> k] \in answered'
    BY DEF AnsweredInOrder
  <2>1. CASE d # c
    BY <1>2, <1>3, <2>1 DEF AnsweredInOrder, RequestInv
  <2>2. CASE d = c /\ k < clerk[c].id
    BY <1>2, <1>3, <2>2 DEF AnsweredInOrder, RequestInv
  <2>3. CASE d = c /\ ~(k < clerk[c].id)
    <3>1. k = h.op.id
      BY <1>1, <1>2, <1>3, <1>5, <2>3, SMT
    <3>2. h.op.type # "Get"
      BY <1>1, <2>3, <3>1 DEF Genuine
    <3> QED
      BY <1>2, <2>3, <3>1, <3>2 DEF WriteOf
  <2> QED
    BY <2>1, <2>2, <2>3
<1> HIDE DEF c
<1> QED
  BY <1>2, <1>5, <1>6, <1>7, ClerkGoesOn

LEMMA HandlerStepRequests ==
  ASSUME DistinctIds, TypeOK, ThreadInv, RequestInv, NEW h \in handlers, HandlerStep(h)
  PROVE  RequestInv'
BY QuietRequests, RegisterQueueRequests, PopCommandRequests, EraseQueueRequests,
   ExecuteGetRequests DEF HandlerStep

LEMMA RequestsInit ==
  ASSUME Init
  PROVE  RequestInv
<1>1. /\ chosen = <<>> /\ delivered = [i \in Server |-> <<>>] /\ proposed = {}
      /\ handlers = {} /\ answered = {}
      /\ lastRequestId = [i \in Server |-> [c \in Client |-> 0]]
      /\ waitApplyCh = [i \in Server |-> [k \in Index |-> NoQueue]]
      /\ \A c \in Client : clerk[c].id = 0
  BY DEF Init, LogInit
<1>2. DOMAIN <<>> = {} /\ Len(<<>>) = 0
  OBVIOUS
<1>3. AnsweredInOrder
  BY <1>1, SMT DEF AnsweredInOrder
<1>4. KnownIsExecuted
  <2> SUFFICES ASSUME NEW i \in Server, NEW c \in Client
               PROVE  Known(i, c) <= clerk[c].id /\ LogHasBelow(c, Known(i, c) + 1, Executed(i))
    BY DEF KnownIsExecuted
  <2>1. Known(i, c) = 0
    BY <1>1, ClientIdAssumption DEF Known
  <2> QED
    BY <1>1, <2>1, SMT DEF LogHasBelow
<1>5. DeliveredIsChosen
  BY <1>1, <1>2, SMT DEF DeliveredIsChosen
<1> QED
  BY <1>1, <1>2, <1>3, <1>4, <1>5 DEF RequestInv, OpsAreGenuine, AnsweredIsChosen,
     ChosenInOrder, QueuesHoldExecuted, ReadersAreBehind, RepliesAreTrue

LEMMA RequestsStep ==
  ASSUME DistinctIds, TypeOK, ThreadInv, RequestInv, [Next]_vars
  PROVE  RequestInv'
<1>1. TypeOK' /\ ThreadInv'
  BY ThreadsStep
<1>2. CASE UNCHANGED vars
  <2>1. UNCHANGED <<raftVars, delivered, storeVars, waitApplyCh, loop, handlers, clerk, answered>>
    BY <1>2 DEF vars
  <2>2. AnsweredInOrder' /\ AnsweredIsChosen'
    BY <2>1 DEF AnsweredInOrder, AnsweredIsChosen, RequestInv, raftVars
  <2>3. \A d \in Client : clerk[d].id <= clerk'[d].id
    <3>1. \A d \in Client : clerk[d].id \in Nat
      BY ClerkType
    <3> QED
      BY <2>1, <3>1, SMT
  <2> QED
    BY <1>1, <2>1, <2>2, <2>3, ClerkGoesOn
<1>3. CASE Next
  BY <1>1, <1>3, CommitEntryRequests, LoopStepRequests, ClerkCallsRequests, CallFailsRequests,
     HandlerStepRequests, LostRequests, WrongLeaderRequests, AnsweredRequests DEF Next
<1> QED
  BY <1>2, <1>3

\* A write whose clerk was told OK is in the log, whichever attempt was answered
\* and by whichever of the two ways, if no two clerks share an id.
THEOREM AnswersAreChosen == ASSUME DistinctIds PROVE Spec => []AnsweredIsChosen
<1>1. Init => TypeOK /\ ThreadInv /\ RequestInv
  BY ThreadsInit, RequestsInit
<1>2. TypeOK /\ ThreadInv /\ RequestInv /\ [Next]_vars => TypeOK' /\ ThreadInv' /\ RequestInv'
  BY ThreadsStep, RequestsStep
<1>3. RequestInv => AnsweredIsChosen
  BY DEF RequestInv
<1> QED
  BY <1>1, <1>2, <1>3, PTL DEF Spec

-----------------------------------------------------------------------------
\* StateAfter

\* A set of numbers has a least one: take an element below which the set holds
\* a minimal (for inclusion) part of itself.
LEMMA LeastOfNumbers ==
  ASSUME NEW S \in SUBSET Nat, S # {}
  PROVE  \E x \in S : \A y \in S : x <= y
<1>1. PICK top \in S : TRUE
  OBVIOUS
<1> DEFINE T        == 0 .. top
           Below(x) == {y \in S : y <= top /\ y < x}
           Parts    == {Below(x) : x \in {y \in S : y <= top}}
<1>2. IsFiniteSet(T)
  BY FS_Interval, SMT
<1>3. Parts \subseteq FiniteSubsetsOf(T) /\ Parts # {}
  <2>1. ASSUME NEW x \in S PROVE Below(x) \in FiniteSubsetsOf(T)
    <3>1. Below(x) \in SUBSET T
      <4>1. ASSUME NEW y \in Below(x) PROVE y \in T
        BY SMT
      <4> QED
        BY <4>1, Zenon
    <3>2. IsFiniteSet(Below(x))
      BY <1>2, <3>1, FS_Subset
    <3> QED
      BY <3>1, <3>2 DEF FiniteSubsetsOf
  <2>2. top \in {y \in S : y <= top}
    BY SMT
  <2> QED
    BY <2>1, <2>2
<1>4. PICK P \in Parts : \A Q \in Parts : <<Q, P>> \notin StrictSubsetOrdering(T)
  BY <1>2, <1>3, FS_StrictSubsetOrderingWellFounded, WFMin
<1>5. PICK x \in {y \in S : y <= top} : P = Below(x)
  BY <1>4
<1>6. ASSUME NEW y \in S, y < x PROVE FALSE
  <2>0. y <= top
    BY <1>6, SMT
  <2>1. Below(y) \subseteq Below(x) /\ Below(y) # Below(x)
    <3>1. y \in Below(x) /\ y \notin Below(y)
      BY <1>6, <2>0, SMT
    <3>2. ASSUME NEW z \in Below(y) PROVE z \in Below(x)
      BY <1>6, SMT
    <3> QED
      BY <3>1, <3>2, Zenon
  <2>2. Below(y) \in SUBSET T /\ Below(x) \in SUBSET T
    <3>1. ASSUME NEW z \in S, z <= top PROVE z \in T
      BY <3>1, SMT
    <3> QED
      BY <3>1, Zenon
  <2>3. ASSUME NEW A \in SUBSET T, NEW B \in SUBSET T, A \subseteq B, A # B
        PROVE  <<A, B>> \in StrictSubsetOrdering(T)
    <3>1. <<A, B>> \in (SUBSET T) \X (SUBSET T) /\ <<A, B>>[1] = A /\ <<A, B>>[2] = B
      OBVIOUS
    <3> QED
      BY <2>3, <3>1, Zenon DEF StrictSubsetOrdering
  <2> HIDE DEF T
  <2>4. <<Below(y), Below(x)>> \in StrictSubsetOrdering(T)
    BY <2>1, <2>2, <2>3
  <2>5. Below(y) \in Parts
    BY <2>0
  <2> QED
    BY <1>4, <1>5, <2>4, <2>5
<1> QED
  BY <1>6, SMT

\* What the n-th command of a log makes of the states before it.
StateStep(log, f, n) ==
  IF n = 0 THEN <<>>
  ELSE IF \/ log[n].type = "Get"
          \/ \E m \in 1 .. n - 1 : WriteOf(log[m]) = WriteOf(log[n])
       THEN f[n - 1]
       ELSE Effect(f[n - 1], log[n])

AreStates(f, log, L) == \A n \in 0 .. L : f[n] = StateStep(log, f, n)

\* The states of a log are determined by the log as far as it goes.
LEMMA StatesAgree ==
  ASSUME NEW a, NEW b, NEW L \in Nat, NEW M \in Nat, L <= M, NEW f, NEW g,
         AreStates(f, a, L), AreStates(g, b, M),
         \A n \in 1 .. L : a[n] = b[n]
  PROVE  \A n \in 0 .. L : f[n] = g[n]
<1> DEFINE S == {n \in 0 .. L : f[n] # g[n]}
<1> SUFFICES ASSUME S # {} PROVE FALSE
  OBVIOUS
<1>1. S \in SUBSET Nat
  BY SMT
<1>2. PICK n \in S : \A y \in S : n <= y
  BY <1>1, LeastOfNumbers
<1>3. n \in 0 .. L /\ n \in 0 .. M /\ f[n] # g[n]
  BY SMT
<1>4. f[n] = StateStep(a, f, n) /\ g[n] = StateStep(b, g, n)
  BY <1>3, Zenon DEF AreStates
<1>5. n # 0
  BY <1>3, <1>4, Zenon DEF StateStep
<1>6. n - 1 \in 0 .. L /\ n \in 1 .. L /\ ~(n <= n - 1)
  BY <1>3, <1>5, SMT
<1>7. f[n - 1] = g[n - 1]
  BY <1>2, <1>6
<1>8. \A m \in 1 .. n - 1 : m \in 1 .. L
  BY <1>6, SMT
<1>9. a[n] = b[n] /\ \A m \in 1 .. n - 1 : a[m] = b[m]
  BY <1>6, <1>8
<1>10. StateStep(a, f, n) = StateStep(b, g, n)
  BY <1>7, <1>9, Zenon DEF StateStep
<1> QED
  BY <1>3, <1>4, <1>10

\* Every log has its states: the shortest that had none would have those of the
\* log without its last command, and one more.
LEMMA StatesExist ==
  ASSUME NEW log, NEW L \in Nat
  PROVE  \E f : f = [n \in 0 .. L |-> StateStep(log, f, n)]
<1> DEFINE S == {k \in Nat : ~\E f : f = [n \in 0 .. k |-> StateStep(log, f, n)]}
<1> SUFFICES ASSUME S # {} PROVE FALSE
  OBVIOUS
<1>1. PICK k \in S : \A y \in S : k <= y
  BY LeastOfNumbers
<1>2. CASE k = 0
  <2> DEFINE f == [n \in 0 .. 0 |-> <<>>]
  <2>1. ASSUME NEW n \in 0 .. 0 PROVE StateStep(log, f, n) = <<>>
    <3>1. n = 0
      BY SMT
    <3> QED
      BY <3>1, Zenon DEF StateStep
  <2>2. f = [n \in 0 .. 0 |-> StateStep(log, f, n)]
    BY <2>1
  <2> QED
    BY <1>2, <2>2
<1>3. CASE k # 0
  <2>1. k - 1 \in Nat /\ ~(k <= k - 1)
    BY <1>3, SMT
  <2>2. PICK f : f = [n \in 0 .. k - 1 |-> StateStep(log, f, n)]
    BY <1>1, <2>1
  <2>3. PICK g : g = [n \in 0 .. k |-> IF n = k THEN StateStep(log, f, k) ELSE f[n]]
    OBVIOUS
  <2>4. ASSUME NEW n \in 0 .. k PROVE g[n] = StateStep(log, g, n)
    <3>1. n = 0 \/ (n - 1 \in 0 .. k /\ n - 1 # k)
      BY SMT
    <3>2. n # 0 => g[n - 1] = f[n - 1]
      BY <2>3, <3>1
    <3>3. StateStep(log, g, n) = StateStep(log, f, n)
      BY <3>2, Zenon DEF StateStep
    <3>4. CASE n = k
      BY <2>3, <3>3, <3>4
    <3>5. CASE n # k
      <4>1. n \in 0 .. k - 1
        BY <3>5, SMT
      <4>2. f[n] = StateStep(log, f, n)
        BY <2>2, <4>1, Zenon
      <4> QED
        BY <2>3, <3>3, <3>5, <4>2
    <3> QED
      BY <3>4, <3>5
  <2>5. g = [n \in 0 .. k |-> g[n]]
    BY <2>3
  <2>6. g = [n \in 0 .. k |-> StateStep(log, g, n)]
    BY <2>4, <2>5
  <2> QED
    BY <2>6
<1> QED
  BY <1>2, <1>3

LEMMA StateAfterIsStates ==
  ASSUME Len(chosen) \in Nat
  PROVE  StateAfter = [n \in 0 .. Len(chosen) |-> StateStep(chosen, StateAfter, n)]
<1>1. \E f : f = [n \in 0 .. Len(chosen) |-> StateStep(chosen, f, n)]
  BY StatesExist
<1> QED
  BY <1>1, Zenon DEF StateAfter, StateStep

LEMMA StateAfterUnfolds ==
  ASSUME TypeOK
  PROVE  /\ StateAfter[0] = <<>>
         /\ \A n \in 1 .. Len(chosen) :
              StateAfter[n] = IF \/ chosen[n].type = "Get"
                                 \/ LogHas(WriteOf(chosen[n]), n - 1)
                              THEN StateAfter[n - 1]
                              ELSE Effect(StateAfter[n - 1], chosen[n])
<1>1. Len(chosen) \in Nat
  BY LenProperties DEF TypeOK
<1>2. StateAfter = [n \in 0 .. Len(chosen) |-> StateStep(chosen, StateAfter, n)]
  BY <1>1, StateAfterIsStates
<1>3. 0 \in 0 .. Len(chosen) /\ \A n \in 1 .. Len(chosen) : n \in 0 .. Len(chosen) /\ n # 0
  BY <1>1, SMT
<1>4. \A n \in 0 .. Len(chosen) : StateAfter[n] = StateStep(chosen, StateAfter, n)
  BY <1>2, Zenon
<1> HIDE DEF StateAfter
<1>5. StateAfter[0] = <<>>
  BY <1>3, <1>4, Zenon DEF StateStep
<1> QED
  BY <1>3, <1>4, <1>5, Zenon DEF StateStep, LogHas

\* What is chosen later leaves the earlier states as they are.
LEMMA StateAfterKeeps ==
  ASSUME TypeOK, NEW op \in Op, chosen' = Append(chosen, op)
  PROVE  \A n \in 0 .. Len(chosen) : StateAfter'[n] = StateAfter[n]
<1>1. /\ Len(chosen) \in Nat /\ Len(chosen') = Len(chosen) + 1
      /\ \A n \in 1 .. Len(chosen) : chosen[n] = chosen'[n]
  BY ChosenGrows DEF TypeOK
<1>2. PICK a, b, L, M : a = chosen /\ b = chosen' /\ L = Len(chosen) /\ M = Len(chosen')
  OBVIOUS
<1>3. L \in Nat /\ M \in Nat /\ L <= M /\ \A n \in 1 .. L : a[n] = b[n]
  BY <1>1, <1>2, SMT
<1>4. StateAfter = [n \in 0 .. Len(chosen) |-> StateStep(chosen, StateAfter, n)]
  BY <1>1, StateAfterIsStates
<1>5. StateAfter' = [n \in 0 .. Len(chosen') |-> StateStep(chosen', StateAfter', n)]
  <2>1. \E f : f = [n \in 0 .. M |-> StateStep(b, f, n)]
    BY <1>3, StatesExist
  <2>2. \E f : f = [n \in 0 .. Len(chosen') |-> StateStep(chosen', f, n)]
    BY <1>2, <2>1, Zenon
  <2> QED
    BY <2>2, Zenon DEF StateAfter, StateStep
<1> HIDE DEF StateAfter
<1>6. PICK f, g : f = StateAfter /\ g = StateAfter'
  OBVIOUS
<1>7. AreStates(f, a, L)
  BY <1>2, <1>4, <1>6, Zenon DEF AreStates
<1>8. AreStates(g, b, M)
  BY <1>2, <1>5, <1>6, Zenon DEF AreStates
<1>9. \A n \in 0 .. L : f[n] = g[n]
  BY ONLY <1>3, <1>7, <1>8, StatesAgree, SMT
<1> QED
  BY <1>2, <1>6, <1>9

-----------------------------------------------------------------------------
\* Databases

LEMMA StateAfterUnchanged ==
  ASSUME TypeOK, chosen' = chosen
  PROVE  StateAfter' = StateAfter
<1>1. PICK a, b, L : a = chosen /\ b = chosen' /\ L = Len(chosen) /\ L = Len(chosen')
  OBVIOUS
<1>2. L \in Nat /\ L <= L /\ \A n \in 1 .. L : a[n] = b[n]
  BY <1>1, LenProperties, SMT DEF TypeOK
<1>3. StateAfter = [n \in 0 .. L |-> StateStep(a, StateAfter, n)]
  BY <1>1, <1>2, StateAfterIsStates
<1>4. StateAfter' = [n \in 0 .. L |-> StateStep(b, StateAfter', n)]
  <2>1. \E f : f = [n \in 0 .. L |-> StateStep(b, f, n)]
    BY <1>2, StatesExist
  <2>2. \E f : f = [n \in 0 .. Len(chosen') |-> StateStep(chosen', f, n)]
    BY <1>1, <2>1, Zenon
  <2>3. StateAfter' = [n \in 0 .. Len(chosen') |-> StateStep(chosen', StateAfter', n)]
    BY <2>2, Zenon DEF StateAfter, StateStep
  <2> HIDE DEF StateAfter
  <2> QED
    BY <1>1, <2>3, Zenon
<1> HIDE DEF StateAfter
<1>5. PICK f, g : f = StateAfter /\ g = StateAfter'
  OBVIOUS
<1>6. AreStates(f, a, L) /\ AreStates(g, b, L)
  BY <1>3, <1>4, <1>5, Zenon DEF AreStates
<1>7. \A n \in 0 .. L : f[n] = g[n]
  BY ONLY <1>2, <1>6, StatesAgree, SMTT(30)
<1>8. f = [n \in 0 .. L |-> f[n]] /\ g = [n \in 0 .. L |-> g[n]]
  BY <1>3, <1>4, <1>5
<1> QED
  BY <1>5, <1>7, <1>8

LEMMA StatesUnchanged ==
  ASSUME TypeOK, StateInv, UNCHANGED <<chosen, delivered, loop, kvDB, lastRequestId>>
  PROVE  StateInv'
<1>1. StateAfter' = StateAfter
  BY StateAfterUnchanged
<1>2. /\ \A i : Executed(i)' = Executed(i) /\ Current(i)' = Current(i)
      /\ \A w, n : LogHas(w, n)' <=> LogHas(w, n)
      /\ \A i, c : Known(i, c)' = Known(i, c)
  BY Zenon DEF Executed, Current, LogHas, Known
<1>3. ExecutedIsKnown'
  BY <1>2 DEF ExecutedIsKnown, StateInv
<1>4. ExecutesOnce'
  BY <1>2 DEF ExecutesOnce, StateInv
<1>5. DatabaseIsExecuted'
  BY <1>1, <1>2 DEF DatabaseIsExecuted, StateInv
<1> QED
  BY <1>3, <1>4, <1>5 DEF StateInv

\* The command that the loop is about to execute.
LEMMA CurrentIsChosen ==
  ASSUME TypeOK, ThreadInv, RequestInv, NEW i \in Server, loop[i] # "pop"
  PROVE  /\ Len(delivered[i]) \in DOMAIN chosen /\ Len(delivered[i]) \in Nat \ {0}
         /\ Current(i) = chosen[Len(delivered[i])] /\ Current(i) \in Op /\ Genuine(Current(i))
         /\ Current(i).client \in Client /\ Current(i).id \in Nat
<1>1. /\ Current(i) = delivered[i][Len(delivered[i])] /\ Len(delivered[i]) \in Nat \ {0}
      /\ Current(i) \in Op
  BY CurrentType DEF ThreadInv
<1>2. Len(delivered[i]) \in DOMAIN delivered[i] /\ Len(delivered[i]) \in DOMAIN chosen
  BY <1>1, ExecutedType, LenProperties, SMT DEF TypeOK, RequestInv
<1>3. Current(i) = chosen[Len(delivered[i])]
  BY <1>1, <1>2 DEF DeliveredIsChosen, RequestInv
<1>4. Genuine(Current(i))
  BY <1>2, <1>3 DEF OpsAreGenuine, RequestInv
<1> QED
  BY <1>1, <1>2, <1>3, <1>4 DEF Op

\* A server that has executed a request has executed its client's writes before.
LEMMA ChosenBefore ==
  ASSUME TypeOK, ThreadInv, RequestInv, NEW n \in DOMAIN chosen, NEW op \in Op, Genuine(op),
         op.type # "Get", chosen[n].client = op.client, op.id < chosen[n].id
  PROVE  LogHas(WriteOf(op), n - 1)
<1>1. LogHasBelow(op.client, chosen[n].id, n - 1)
  BY DEF ChosenInOrder, RequestInv
<1>2. op.id \in 1 .. chosen[n].id - 1 /\ Script[op.client][op.id] # "Get"
  <2>1. op.id \in 1 .. clerk[op.client].id /\ op.type = Script[op.client][op.id] /\ op.id \in Nat
        /\ chosen[n].id \in Nat /\ op.client \in Client
    BY ChosenType DEF Genuine, Op
  <2>2. clerk[op.client].id \in Nat
    BY <2>1, ClerkType
  <2> QED
    BY <2>1, <2>2, SMT
<1> QED
  BY <1>1, <1>2 DEF LogHasBelow, WriteOf

LEMMA CommitEntryStates ==
  ASSUME TypeOK, ThreadInv, RequestInv, StateInv, CommitEntry
  PROVE  StateInv'
<1>1. PICK p \in proposed : p.index = Len(chosen) + 1 /\ chosen' = Append(chosen, p.op)
  BY DEF CommitEntry
<1>2. p.op \in Op /\ chosen \in Seq(Op)
  BY DEF TypeOK
<1>3. /\ \A n \in 1 .. Len(chosen) : chosen'[n] = chosen[n]
      /\ \A w : \A n \in Int : n <= Len(chosen) => (LogHas(w, n)' <=> LogHas(w, n))
  BY <1>1, <1>2, ChosenGrows
<1>4. \A n \in 0 .. Len(chosen) : StateAfter'[n] = StateAfter[n]
  BY <1>1, <1>2, StateAfterKeeps
<1>5. UNCHANGED <<delivered, lastRequestId, kvDB, loop>>
  BY DEF CommitEntry, storeVars
<1>6. /\ \A i : Executed(i)' = Executed(i) /\ Current(i)' = Current(i)
      /\ \A i, c : Known(i, c)' = Known(i, c)
  BY <1>5, Zenon DEF Executed, Current, Known
<1>7. ASSUME NEW i \in Server
      PROVE  /\ Executed(i) \in 0 .. Len(chosen) /\ \A n \in 1 .. Executed(i) : n \in 1 .. Len(chosen)
             /\ Len(delivered[i]) - 1 \in Int /\ Len(delivered[i]) - 1 <= Len(chosen)
  BY ExecutedType, SMT DEF RequestInv
<1>8. ExecutedIsKnown'
  <2> SUFFICES ASSUME NEW i \in Server, NEW n \in 1 .. Executed(i), chosen[n].type # "Get"
               PROVE  chosen[n].id <= Known(i, chosen[n].client)
    BY <1>3, <1>6, <1>7 DEF ExecutedIsKnown
  <2> QED
    BY DEF ExecutedIsKnown, StateInv
<1>9. ExecutesOnce'
  <2> SUFFICES ASSUME NEW i \in Server, loop[i] = "execute", NEW w, NEW n,
                      w = WriteOf(Current(i)), n = Len(delivered[i]) - 1
               PROVE  Current(i).type # "Get" /\ ~LogHas(w, n)'
    BY <1>5, <1>6 DEF ExecutesOnce
  <2> QED
    BY <1>3, <1>7 DEF ExecutesOnce, StateInv
<1>10. DatabaseIsExecuted'
  BY <1>4, <1>5, <1>6, <1>7 DEF DatabaseIsExecuted, StateInv
<1> QED
  BY <1>8, <1>9, <1>10 DEF StateInv

LEMMA ExecuteGetStates ==
  ASSUME DistinctIds, TypeOK, ThreadInv, RequestInv, StateInv, NEW h \in handlers,
         ExecuteGetOpOnKVDB(h), ~ForgetsWrite(h)
  PROVE  StateInv'
<1> DEFINE i == h.server
           c == h.op.client
<1>1. /\ h.pc = "execute"
      /\ lastRequestId' = [lastRequestId EXCEPT ![i][ClientId[c]] = h.op.id]
      /\ UNCHANGED <<chosen, delivered, kvDB, loop>>
  BY DEF ExecuteGetOpOnKVDB, raftVars
<1>2. /\ i \in Server /\ c \in Client /\ h.op.id \in Nat /\ h.op.type = "Get" /\ Genuine(h.op)
  BY <1>1, HandlerType, HandlerOpGenuine DEF ThreadInv, HandlersInStep
<1>3. StateAfter' = StateAfter
  BY <1>1, StateAfterUnchanged
<1>4. /\ \A j : Executed(j)' = Executed(j) /\ Current(j)' = Current(j)
      /\ \A w, n : LogHas(w, n)' <=> LogHas(w, n)
  BY <1>1, Zenon DEF Executed, Current, LogHas
<1>5. \A j \in Server, d \in Client :
        Known(j, d)' = IF j = i /\ d = c THEN h.op.id ELSE Known(j, d)
  BY <1>1, <1>2, ClientIdAssumption DEF TypeOK, Known, DistinctIds
<1>6. ASSUME NEW n \in 1 .. Executed(i), chosen[n].client = c, chosen[n].type # "Get"
      PROVE  chosen[n].id <= h.op.id
  <2>1. chosen[n].id \in Nat
    <3>1. n \in DOMAIN chosen
      BY <1>2, <1>6, ExecutedType, LenProperties, SMT DEF TypeOK, RequestInv
    <3> QED
      BY <3>1, ChosenType
  <2>2. ~(h.op.id < chosen[n].id)
    BY <1>6 DEF ForgetsWrite
  <2> QED
    BY <1>2, <2>1, <2>2, SMT
<1>7. ExecutedIsKnown'
  <2> SUFFICES ASSUME NEW j \in Server, NEW n \in 1 .. Executed(j), chosen[n].type # "Get"
               PROVE  chosen[n].id <= Known(j, chosen[n].client)'
    BY <1>1, <1>4 DEF ExecutedIsKnown
  <2>1. n \in DOMAIN chosen
    BY ExecutedType, LenProperties, SMT DEF TypeOK, RequestInv
  <2>2. PICK d : d = chosen[n].client
    OBVIOUS
  <2>3. d \in Client
    BY <2>1, <2>2, ChosenType
  <2>4. chosen[n].id <= Known(j, d)
    BY <2>2 DEF ExecutedIsKnown, StateInv
  <2>5. chosen[n].id <= Known(j, d)'
    BY <1>5, <1>6, <2>1, <2>2, <2>3, <2>4
  <2> QED
    BY <1>1, <2>2, <2>5
<1>8. ExecutesOnce'
  BY <1>1, <1>4 DEF ExecutesOnce, StateInv
<1>9. DatabaseIsExecuted'
  BY <1>1, <1>3, <1>4 DEF DatabaseIsExecuted, StateInv
<1> QED
  BY <1>7, <1>8, <1>9 DEF StateInv

\* The states after a command that is taken up: a Get or a write that the log
\* had before changes nothing.
LEMMA GetCommandStates ==
  ASSUME TypeOK, ThreadInv, RequestInv, StateInv, NEW i \in Server, GetCommandFromRaft(i)
  PROVE  StateInv'
<1> DEFINE n == Len(delivered[i])
           op == chosen[n + 1]
           c == op.client
<1>1. /\ loop[i] = "pop" /\ n < Len(chosen)
      /\ delivered' = [delivered EXCEPT ![i] = Append(delivered[i], op)]
      /\ loop' = [loop EXCEPT ![i] = IF Skips(i, op) THEN "send" ELSE "execute"]
      /\ UNCHANGED <<chosen, kvDB, lastRequestId>>
  BY DEF GetCommandFromRaft, raftVars, storeVars
<1>2. /\ loop \in [Server -> {"pop", "execute", "send"}] /\ delivered \in [Server -> Seq(Op)]
      /\ delivered[i] \in Seq(Op) /\ n \in Nat /\ Len(chosen) \in Nat /\ chosen \in Seq(Op)
  BY LenProperties DEF TypeOK
<1>3. /\ n + 1 \in DOMAIN chosen /\ n + 1 \in 1 .. Len(chosen) /\ (n + 1) - 1 = n
      /\ n \in 0 .. Len(chosen)
  BY <1>1, <1>2, LenProperties, SMT
<1>4. op \in Op /\ Genuine(op) /\ c \in Client /\ op.id \in Nat
  BY <1>3, ChosenType DEF OpsAreGenuine, RequestInv
<1>5. /\ delivered'[i] = Append(delivered[i], op) /\ Len(delivered'[i]) = n + 1
      /\ delivered'[i][n + 1] = op
      /\ loop'[i] = IF Skips(i, op) THEN "send" ELSE "execute"
      /\ \A j \in Server \ {i} : delivered'[j] = delivered[j] /\ loop'[j] = loop[j]
  BY <1>1, <1>2, <1>4, AppendProperties
<1>6. /\ Executed(i) = n /\ Executed(i)' = IF Skips(i, op) THEN n + 1 ELSE n
      /\ Current(i)' = op
  <2>1. Executed(i) = n
    BY <1>1 DEF Executed
  <2>2. Executed(i)' = IF Skips(i, op) THEN n + 1 ELSE n
    BY <1>3, <1>5 DEF Executed
  <2>3. Current(i)' = op
    BY <1>5 DEF Current, Last
  <2> QED
    BY <2>1, <2>2, <2>3
<1>7. \A j \in Server \ {i} : Executed(j)' = Executed(j) /\ Current(j)' = Current(j)
  BY <1>5 DEF Executed, Current, Last
<1>8. /\ StateAfter' = StateAfter
      /\ \A j, d : Known(j, d)' = Known(j, d)
      /\ \A w, m : LogHas(w, m)' <=> LogHas(w, m)
  BY <1>1, StateAfterUnchanged, Zenon DEF Known, LogHas
<1>9. IfRequestDuplicate(i, op) <=> op.id <= Known(i, c)
  BY DEF IfRequestDuplicate, Known
<1> HIDE DEF n, op, c
<1>10. ASSUME Skips(i, op) PROVE StateAfter[n + 1] = StateAfter[n]
  <2>1. op.type = "Get" \/ LogHas(WriteOf(op), n)
    <3>1. CASE op.type = "Get"
      BY <3>1
    <3>2. CASE op.type # "Get" /\ op.id <= Known(i, c)
      BY <1>4, <1>6, <3>2, KnownIsInLog DEF c
    <3> QED
      BY <1>9, <1>10, <3>1, <3>2 DEF Skips
  <2>2. StateAfter[n + 1] = IF \/ op.type = "Get" \/ LogHas(WriteOf(op), (n + 1) - 1)
                            THEN StateAfter[(n + 1) - 1]
                            ELSE Effect(StateAfter[(n + 1) - 1], op)
    BY <1>3, StateAfterUnfolds DEF op
  <2> QED
    BY <1>3, <2>1, <2>2
<1>11. ExecutedIsKnown'
  <2> SUFFICES ASSUME NEW j \in Server, NEW m \in 1 .. Executed(j)', chosen[m].type # "Get"
               PROVE  chosen[m].id <= Known(j, chosen[m].client)
    BY <1>1, <1>8 DEF ExecutedIsKnown
  <2>1. CASE m \in 1 .. Executed(j)
    BY <2>1 DEF ExecutedIsKnown, StateInv
  <2>2. CASE m \notin 1 .. Executed(j)
    <3>1. j = i
      BY <1>7, <2>2
    <3>2. Skips(i, op) /\ m = n + 1
      BY <1>2, <1>6, <2>2, <3>1, SMT
    <3>3. op.type # "Get"
      BY <3>2 DEF op
    <3> QED
      BY <1>9, <3>1, <3>2, <3>3 DEF Skips, op, c
  <2> QED
    BY <2>1, <2>2
<1>12. ExecutesOnce'
  <2> SUFFICES ASSUME NEW j \in Server, loop'[j] = "execute", NEW w, NEW m,
                      w = WriteOf(Current(j)'), m = Len(delivered'[j]) - 1
               PROVE  (Current(j)').type # "Get" /\ ~LogHas(w, m)
    BY <1>8 DEF ExecutesOnce, WriteOf
  <2>1. CASE j # i
    BY <1>5, <1>7, <2>1 DEF ExecutesOnce, StateInv
  <2>2. CASE j = i
    <3>1. ~Skips(i, op) /\ Current(j)' = op /\ m = n
      BY <1>3, <1>5, <1>6, <2>2
    <3>2. op.type # "Get" /\ ~(op.id <= Known(i, c))
      BY <1>9, <3>1 DEF Skips
    <3>3. ASSUME LogHas(w, n) PROVE FALSE
      <4>1. PICK l \in 1 .. n : WriteOf(chosen[l]) = WriteOf(op)
        BY <3>1, <3>3 DEF LogHas
      <4>2. chosen[l].client = c /\ chosen[l].id = op.id
        BY <4>1 DEF WriteOf, c
      <4>3. l \in DOMAIN chosen
        BY <1>2, <1>3, LenProperties, SMT
      <4>4. chosen[l].type # "Get"
        BY <1>4, <3>2, <4>2, <4>3 DEF OpsAreGenuine, Genuine, RequestInv, c
      <4>5. chosen[l].id <= Known(i, chosen[l].client)
        BY <1>6, <4>4 DEF ExecutedIsKnown, StateInv
      <4> QED
        BY <3>2, <4>2, <4>5
    <3> QED
      BY <3>1, <3>2, <3>3
  <2> QED
    BY <2>1, <2>2
<1>13. DatabaseIsExecuted'
  <2> SUFFICES ASSUME NEW j \in Server PROVE kvDB[j] = StateAfter[Executed(j)']
    BY <1>1, <1>8 DEF DatabaseIsExecuted
  <2>1. kvDB[j] = StateAfter[Executed(j)]
    BY DEF DatabaseIsExecuted, StateInv
  <2> QED
    BY <1>6, <1>7, <1>10, <2>1
<1> QED
  BY <1>11, <1>12, <1>13 DEF StateInv

LEMMA ExecuteOpStates ==
  ASSUME DistinctIds, TypeOK, ThreadInv, RequestInv, StateInv, NEW i \in Server, ExecuteOp(i)
  PROVE  StateInv'
<1> DEFINE n == Len(delivered[i])
           op == Current(i)
           c == op.client
<1>1. /\ loop[i] = "execute" /\ loop' = [loop EXCEPT ![i] = "send"]
      /\ kvDB' = [kvDB EXCEPT ![i] = Effect(kvDB[i], op)]
      /\ lastRequestId' = [lastRequestId EXCEPT ![i][ClientId[c]] = op.id]
      /\ UNCHANGED <<chosen, delivered>>
  BY DEF ExecuteOp, raftVars
<1>2. /\ op = chosen[n] /\ n \in DOMAIN chosen /\ n \in Nat \ {0} /\ op \in Op /\ Genuine(op)
      /\ c \in Client /\ op.id \in Nat
  BY <1>1, CurrentIsChosen
<1>3. op.type # "Get" /\ ~LogHas(WriteOf(op), n - 1)
  BY <1>1 DEF ExecutesOnce, StateInv
<1>4. n \in 1 .. Len(chosen) /\ Len(chosen) \in Nat /\ n - 1 \in Int
  BY <1>2, ChosenType, SMT
<1>5. loop \in [Server -> {"pop", "execute", "send"}] /\ kvDB \in [Server -> Value]
  BY DEF TypeOK
<1>6. /\ Executed(i) = n - 1 /\ Executed(i)' = n /\ loop'[i] = "send"
      /\ \A j \in Server \ {i} : Executed(j)' = Executed(j) /\ loop'[j] = loop[j]
  BY <1>1, <1>5, Zenon DEF Executed
<1>7. /\ kvDB'[i] = Effect(kvDB[i], op) /\ \A j \in Server \ {i} : kvDB'[j] = kvDB[j]
  BY <1>1, <1>5
<1>8. \A j \in Server, d \in Client :
        Known(j, d)' = IF j = i /\ d = c THEN op.id ELSE Known(j, d)
  BY <1>1, <1>2, ClientIdAssumption DEF TypeOK, Known, DistinctIds
<1>9. /\ StateAfter' = StateAfter
      /\ \A j : Current(j)' = Current(j)
      /\ \A w, m : LogHas(w, m)' <=> LogHas(w, m)
  BY <1>1, StateAfterUnchanged, Zenon DEF Current, LogHas
<1> HIDE DEF n, op, c
<1>10. ASSUME NEW m \in 1 .. n, chosen[m].client = c
       PROVE  chosen[m].id <= op.id
  <2>1. m \in DOMAIN chosen /\ m - 1 \in Int /\ m - 1 <= n - 1
    BY <1>4, LenProperties, SMT DEF TypeOK
  <2>2. chosen[m].id \in Nat
    BY <2>1, ChosenType
  <2>3. ASSUME op.id < chosen[m].id PROVE FALSE
    <3>1. LogHas(WriteOf(op), m - 1)
      BY <1>2, <1>3, <1>10, <2>1, <2>3, ChosenBefore DEF c
    <3>2. LogHas(WriteOf(op), n - 1)
      BY <1>4, <2>1, <3>1, LogHasMore
    <3> QED
      BY <1>3, <3>2
  <2> QED
    BY <1>2, <2>2, <2>3, SMT
<1>11. ExecutedIsKnown'
  <2> SUFFICES ASSUME NEW j \in Server, NEW m \in 1 .. Executed(j)', chosen[m].type # "Get",
                      NEW d, d = chosen[m].client
               PROVE  chosen[m].id <= Known(j, d)'
    BY <1>1 DEF ExecutedIsKnown
  <2>1. Executed(j)' \in 0 .. Len(chosen)
    BY <1>4, <1>6, ExecutedType, SMT DEF RequestInv
  <2>2. m \in DOMAIN chosen /\ d \in Client
    <3>1. m \in DOMAIN chosen
      BY <1>4, <2>1, LenProperties, SMT DEF TypeOK
    <3> QED
      BY <3>1, ChosenType
  <2>3. CASE j = i /\ d = c
    BY <1>6, <1>8, <1>10, <2>2, <2>3
  <2>4. CASE j = i /\ d # c
    <3>1. m # n
      BY <1>2, <2>4 DEF c
    <3>2. m \in 1 .. Executed(i)
      BY <1>2, <1>6, <2>4, <3>1, SMT
    <3> QED
      BY <1>8, <2>2, <2>4, <3>2 DEF ExecutedIsKnown, StateInv
  <2>5. CASE j # i
    BY <1>6, <1>8, <2>2, <2>5 DEF ExecutedIsKnown, StateInv
  <2> QED
    BY <2>3, <2>4, <2>5
<1>12. ExecutesOnce'
  <2> SUFFICES ASSUME NEW j \in Server, loop'[j] = "execute"
               PROVE  /\ Current(j).type # "Get"
                      /\ ~LogHas(WriteOf(Current(j)), Len(delivered[j]) - 1)
    BY <1>1, <1>9 DEF ExecutesOnce
  <2>1. j # i /\ loop[j] = "execute"
    BY <1>6
  <2> QED
    BY <2>1 DEF ExecutesOnce, StateInv
<1>13. DatabaseIsExecuted'
  <2> SUFFICES ASSUME NEW j \in Server PROVE kvDB'[j] = StateAfter[Executed(j)']
    BY <1>9 DEF DatabaseIsExecuted
  <2>1. kvDB[j] = StateAfter[Executed(j)]
    BY DEF DatabaseIsExecuted, StateInv
  <2>2. CASE j = i
    <3>1. StateAfter[n] = Effect(StateAfter[n - 1], op)
      BY <1>2, <1>3, <1>4, StateAfterUnfolds
    <3> QED
      BY <1>6, <1>7, <2>1, <2>2, <3>1
  <2>3. CASE j # i
    BY <1>6, <1>7, <2>1, <2>3
  <2> QED
    BY <2>2, <2>3
<1> QED
  BY <1>11, <1>12, <1>13 DEF StateInv

LEMMA SendMessageStates ==
  ASSUME TypeOK, ThreadInv, RequestInv, StateInv, NEW i \in Server, SendMessageToWaitChan(i)
  PROVE  StateInv'
<1>1. /\ loop[i] = "send" /\ loop' = [loop EXCEPT ![i] = "pop"]
      /\ UNCHANGED <<chosen, delivered, kvDB, lastRequestId>>
      /\ loop \in [Server -> {"pop", "execute", "send"}]
  BY DEF SendMessageToWaitChan, raftVars, storeVars, TypeOK
<1>2. /\ StateAfter' = StateAfter
      /\ \A j : Current(j)' = Current(j)
      /\ \A w, m : LogHas(w, m)' <=> LogHas(w, m)
      /\ \A j, d : Known(j, d)' = Known(j, d)
  BY <1>1, StateAfterUnchanged, Zenon DEF Current, LogHas, Known
<1>3. \A j \in Server : Executed(j)' = Executed(j) /\ (loop'[j] = "execute" => loop[j] = "execute")
  BY <1>1 DEF Executed
<1>4. ExecutedIsKnown'
  BY <1>1, <1>2, <1>3 DEF ExecutedIsKnown, StateInv
<1>5. ExecutesOnce'
  BY <1>1, <1>2, <1>3 DEF ExecutesOnce, StateInv
<1>6. DatabaseIsExecuted'
  BY <1>1, <1>2, <1>3 DEF DatabaseIsExecuted, StateInv
<1> QED
  BY <1>4, <1>5, <1>6 DEF StateInv

LEMMA StatesStep ==
  ASSUME DistinctIds, TypeOK, ThreadInv, RequestInv, StateInv,
         [Next /\ ~\E h \in handlers : ForgetsWrite(h)]_vars
  PROVE  StateInv'
<1>1. CASE UNCHANGED vars
  <2>1. UNCHANGED <<chosen, delivered, loop, kvDB, lastRequestId>>
    BY <1>1 DEF vars, raftVars, storeVars
  <2> QED
    BY <2>1, StatesUnchanged
<1>2. ASSUME NEW h \in handlers, HandlerStep(h), ~ForgetsWrite(h) PROVE StateInv'
  <2>1. CASE ExecuteGetOpOnKVDB(h)
    BY <1>2, <2>1, ExecuteGetStates
  <2>2. CASE ~ExecuteGetOpOnKVDB(h)
    <3>1. UNCHANGED <<chosen, delivered, loop, kvDB, lastRequestId>>
      BY <1>2, <2>2, Zenon DEF HandlerStep, RefuseRequest, StartRequest, RegisterQueue, PopCommand,
         PopTimesOut, ReadLeadership, ReadAfterTimeout, WriteAfterTimeout, EraseQueue,
         raftVars, storeVars
    <3> QED
      BY <3>1, StatesUnchanged
  <2> QED
    BY <2>1, <2>2
<1>3. ASSUME NEW c \in Client, ClerkCalls(c) \/ CallFails(c) PROVE StateInv'
  <2>1. UNCHANGED <<chosen, delivered, loop, kvDB, lastRequestId>>
    BY <1>3 DEF ClerkCalls, CallFails, raftVars, storeVars
  <2> QED
    BY <2>1, StatesUnchanged
<1>4. ASSUME NEW h \in handlers,
             Lost(h) \/ WrongLeader(h.op.client, h) \/ Answered(h.op.client, h)
      PROVE  StateInv'
  <2>1. UNCHANGED <<chosen, delivered, loop, kvDB, lastRequestId>>
    BY <1>4 DEF Lost, WrongLeader, Answered, raftVars, storeVars
  <2> QED
    BY <2>1, StatesUnchanged
<1>5. ASSUME NEW i \in Server, LoopStep(i) PROVE StateInv'
  BY <1>5, GetCommandStates, ExecuteOpStates, SendMessageStates DEF LoopStep
<1> QED
  BY <1>1, <1>2, <1>3, <1>4, <1>5, CommitEntryStates DEF Next

LEMMA StatesInit ==
  ASSUME Init
  PROVE  StateInv
<1>1. /\ chosen = <<>> /\ delivered = [i \in Server |-> <<>>]
      /\ kvDB = [i \in Server |-> <<>>] /\ loop = [i \in Server |-> "pop"]
  BY DEF Init, LogInit
<1>2. \A i \in Server : Executed(i) = 0 /\ loop[i] = "pop"
  BY <1>1 DEF Executed
<1>3. StateAfter[0] = <<>>
  BY ThreadsInit, StateAfterUnfolds
<1> HIDE DEF StateAfter
<1>4. DatabaseIsExecuted
  BY <1>1, <1>2, <1>3 DEF DatabaseIsExecuted
<1>5. ExecutedIsKnown
  BY <1>2, SMT DEF ExecutedIsKnown
<1> QED
  BY <1>2, <1>4, <1>5 DEF StateInv, ExecutesOnce

\* Every server's database is the log with each write taken once, however often
\* requests were sent again, and whatever clerks call in whatever order: if no two
\* of them share an id, and as long as no abandoned attempt of a Get executes behind
\* a later write of its clerk and takes m_lastRequestId back.
THEOREM DatabasesAreLogOnce ==
  ASSUME DistinctIds
  PROVE  OrderedSpec => []StateIsLogOnce
<1>1. Init => TypeOK /\ ThreadInv /\ RequestInv /\ StateInv
  BY ThreadsInit, RequestsInit, StatesInit
<1>2. /\ TypeOK /\ ThreadInv /\ RequestInv /\ StateInv
      /\ [Next /\ ~\E h \in handlers : ForgetsWrite(h)]_vars
      => TypeOK' /\ ThreadInv' /\ RequestInv' /\ StateInv'
  BY ThreadsStep, RequestsStep, StatesStep
<1>3. StateInv => StateIsLogOnce
  BY DEF StateInv, DatabaseIsExecuted, StateIsLogOnce, Executed
<1> QED
  BY <1>1, <1>2, <1>3, PTL DEF OrderedSpec

=============================================================================
