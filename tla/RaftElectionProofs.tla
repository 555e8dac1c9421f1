------------------------- MODULE RaftElectionProofs -------------------------
(***************************************************************************)
(* Theorems about Raft, for every number of servers, every set of commands *)
(* and every value of the bounds: its variables keep their types, there is *)
(* at most one leader per term, and no server votes twice in a term.  The  *)
(* last two hold provided that what persist() wrote survives a restart or  *)
(* that nobody restarts; then ElectionInv of RaftInvariants is inductive.  *)
(***************************************************************************)
EXTENDS RaftInvariants, FiniteSetTheorems, SequenceTheorems, TLAPS

-----------------------------------------------------------------------------
\* What the helpers return

LEMMA MaxOfPair ==
  ASSUME NEW a \in Int, NEW b \in Int
  PROVE  Max({a, b}) = IF a >= b THEN a ELSE b
<1>1. \E x \in {a, b} : \A y \in {a, b} : x >= y
  BY SMT
<1>2. /\ Max({a, b}) \in {a, b}
      /\ \A y \in {a, b} : Max({a, b}) >= y
  BY <1>1, Zenon DEF Max
<1> QED
  BY <1>2, SMT

LEMMA MinOfPair ==
  ASSUME NEW a \in Int, NEW b \in Int
  PROVE  Min({a, b}) = IF a <= b THEN a ELSE b
<1>1. \E x \in {a, b} : \A y \in {a, b} : x <= y
  BY SMT
<1>2. /\ Min({a, b}) \in {a, b}
      /\ \A y \in {a, b} : Min({a, b}) <= y
  BY <1>1, Zenon DEF Min
<1> QED
  BY <1>2, SMT

\* A finite set of numbers has a largest one: take an element above which the
\* set holds a minimal (for inclusion) part of itself.
LEMMA MaxOfFiniteSet ==
  ASSUME NEW S \in SUBSET Nat, IsFiniteSet(S), S # {}
  PROVE  Max(S) \in S /\ \A y \in S : Max(S) >= y
<1> DEFINE Above(x) == {y \in S : y > x}
           Parts    == {Above(x) : x \in S}
<1>1. Parts \subseteq FiniteSubsetsOf(S) /\ Parts # {}
  <2>1. ASSUME NEW x \in S PROVE Above(x) \in FiniteSubsetsOf(S)
    <3>1. Above(x) \in SUBSET S
      OBVIOUS
    <3>2. IsFiniteSet(Above(x))
      BY <3>1, FS_Subset
    <3> QED
      BY <3>1, <3>2 DEF FiniteSubsetsOf
  <2> QED
    BY <2>1
<1>2. \E P \in Parts : \A Q \in Parts : <<Q, P>> \notin StrictSubsetOrdering(S)
  BY <1>1, FS_StrictSubsetOrderingWellFounded, WFMin
<1>3. PICK x \in S : \A Q \in Parts : <<Q, Above(x)>> \notin StrictSubsetOrdering(S)
  BY <1>2
<1>4. \A y \in S : x >= y
  <2> SUFFICES ASSUME NEW y \in S, y > x PROVE FALSE
    BY SMT
  <2>1. Above(y) \subseteq Above(x) /\ Above(y) # Above(x)
    <3>1. y \in Above(x) /\ y \notin Above(y)
      BY SMT
    <3>2. ASSUME NEW z \in Above(y) PROVE z \in Above(x)
      BY SMT
    <3> QED
      BY <3>1, <3>2, Zenon
  <2>2. ASSUME NEW A \in SUBSET S, NEW B \in SUBSET S, A \subseteq B, A # B
        PROVE  <<A, B>> \in StrictSubsetOrdering(S)
    <3>1. <<A, B>> \in (SUBSET S) \X (SUBSET S) /\ <<A, B>>[1] = A /\ <<A, B>>[2] = B
      OBVIOUS
    <3> QED
      BY <2>2, <3>1, Zenon DEF StrictSubsetOrdering
  <2>3. <<Above(y), Above(x)>> \in StrictSubsetOrdering(S)
    BY <2>1, <2>2
  <2>4. Above(y) \in Parts
    OBVIOUS
  <2> QED
    BY <1>3, <2>3, <2>4
<1> QED
  BY <1>4, Zenon DEF Max

LEMMA TermAtType ==
  ASSUME NEW log \in Seq(Entry), NEW k
  PROVE  TermAt(log, k) \in Term
<1>1. 0 \in Term
  BY BoundAssumption, SMT DEF Term
<1>2. CASE k \in 1 .. Len(log)
  <2>1. log[k] \in Entry
    BY <1>2, ElementOfSeq
  <2>2. log[k].term \in Term
    BY <2>1 DEF Entry
  <2> QED
    BY <1>2, <2>2, Zenon DEF TermAt
<1>3. CASE k \notin 1 .. Len(log)
  BY <1>1, <1>3, Zenon DEF TermAt
<1> QED
  BY <1>2, <1>3

\* What a follower's log becomes is a log, and covers both what it was and
\* what was sent.
LEMMA MergeEntriesType ==
  ASSUME NEW log \in Seq(Entry), NEW entries \in Seq(Entry),
         NEW prev \in Nat, prev <= Len(log)
  PROVE  /\ MergeEntries(log, prev, entries) \in Seq(Entry)
         /\ Len(MergeEntries(log, prev, entries)) >= Len(log)
         /\ Len(MergeEntries(log, prev, entries)) >= prev + Len(entries)
<1> DEFINE n == Max({Len(log), prev + Len(entries)})
           e(k) == IF k <= prev \/ k > prev + Len(entries) THEN log[k]
                   ELSE IF k <= Len(log) /\ log[k].term = entries[k - prev].term
                   THEN log[k] ELSE entries[k - prev]
<1>1. /\ n = IF Len(log) >= prev + Len(entries) THEN Len(log) ELSE prev + Len(entries)
      /\ n \in Nat
  BY MaxOfPair, LenProperties, SMT
<1>2. ASSUME NEW k \in 1 .. n PROVE e(k) \in Entry
  BY <1>1, ElementOfSeq, LenProperties, SMT
<1>3. MergeEntries(log, prev, entries) = [k \in 1 .. n |-> e(k)]
  BY Zenon DEF MergeEntries
<1> HIDE DEF n, e
<1>4. [k \in 1 .. n |-> e(k)] \in Seq(Entry) /\ Len([k \in 1 .. n |-> e(k)]) = n
  BY <1>1, <1>2, SMT
<1> QED
  BY <1>1, <1>3, <1>4, LenProperties, SMT

LEMMA EntriesAfterType ==
  ASSUME NEW log \in Seq(Entry), NEW prev \in Nat
  PROVE  EntriesAfter(log, prev) \in Seq(Entry)
BY SubSeqProperties, ElementOfSeq, LenProperties, SMT DEF EntriesAfter

LEMMA ConflictNextIndexType ==
  ASSUME NEW log \in Seq(Entry), NEW prev \in Nat
  PROVE  ConflictNextIndex(log, prev) \in Nat
<1> DEFINE other == {k \in 0 .. prev : TermAt(log, k) # TermAt(log, prev)}
<1>1. other \in SUBSET Nat /\ IsFiniteSet(other)
  <2>1. other \in SUBSET (0 .. prev)
    BY Zenon
  <2>2. IsFiniteSet(0 .. prev)
    BY FS_Interval, SMT
  <2> HIDE DEF other
  <2>3. IsFiniteSet(other)
    BY <2>1, <2>2, FS_Subset
  <2> QED
    BY <2>1, <2>3, SMT
<1>2. ConflictNextIndex(log, prev) = IF other = {} THEN prev ELSE Max(other) + 1
  BY Zenon DEF ConflictNextIndex
<1> HIDE DEF other
<1>3. other # {} => Max(other) \in Nat
  BY <1>1, MaxOfFiniteSet
<1> QED
  BY <1>2, <1>3, SMT

LEMMA FollowerCommitType ==
  ASSUME NEW c \in Nat, NEW l \in Nat, NEW n \in Nat
  PROVE  FollowerCommit(c, l, n) \in Nat
BY MinOfPair, SMT DEF FollowerCommit

-----------------------------------------------------------------------------
\* Type correctness

LEMMA ZeroTerm == 0 \in Term
BY BoundAssumption, SMT DEF Term

LEMMA TypeInit == Init => TypeOK
<1> SUFFICES ASSUME Init PROVE TypeOK
  OBVIOUS
<1>1. <<>> \in Seq(Entry) /\ <<>> \in Seq(Command)
  OBVIOUS
<1>2. [term |-> 0, votedFor |-> NoVote, logs |-> <<>>] \in Saved
  BY <1>1, ZeroTerm DEF Saved, Vote
<1> QED
  BY <1>1, <1>2, ZeroTerm, SMT DEF Init, TypeOK, Vote

\* persist() writes well-formed state if the handler leaves it behind.
LEMMA PersistType ==
  ASSUME TypeOK, NEW i \in Server, Persist(i), currentTerm'[i] \in Term,
         votedFor'[i] \in Vote, logs'[i] \in Seq(Entry)
  PROVE  disk' \in [Server -> Saved]
<1>1. [term |-> currentTerm'[i], votedFor |-> votedFor'[i], logs |-> logs'[i]] \in Saved
  BY DEF Saved
<1> QED
  BY <1>1, Zenon DEF Persist, TypeOK

LEMMA StepDownType ==
  ASSUME TypeOK, NEW i \in Server, NEW term \in Term, StepDown(i, term)
  PROVE  /\ currentTerm' \in [Server -> Term]
         /\ votedFor' \in [Server -> Vote]
         /\ status' \in [Server -> {"Follower", "Candidate", "Leader"}]
<1>1. NoVote \in Vote
  BY DEF Vote
<1> QED
  BY <1>1, Zenon DEF StepDown, TypeOK

LEMMA DoElectionType ==
  ASSUME TypeOK, NEW i \in Server, DoElection(i)
  PROVE  TypeOK'
<1> DEFINE args(j) == [caller |-> i, callee |-> j, term |-> currentTerm[i] + 1,
         lastLogIndex |-> Len(logs[i]), lastLogTerm |-> LastTerm(logs[i]),
         boot |-> boot[i]]
<1>1. currentTerm[i] + 1 \in Term
  BY BoundAssumption, SMT DEF DoElection, TypeOK, Term
<1>2. ASSUME NEW j \in Server PROVE args(j) \in RequestVoteArgs
  <2>1. Len(logs[i]) \in Nat /\ boot[i] \in Nat
    BY LenProperties DEF TypeOK
  <2>2. LastTerm(logs[i]) \in Term
    BY TermAtType DEF LastTerm, TypeOK
  <2> QED
    BY <1>1, <2>1, <2>2 DEF RequestVoteArgs
<1>3. requestVoteArgs' \subseteq RequestVoteArgs
  <2>1. requestVoteArgs' = requestVoteArgs \cup {args(j) : j \in Server \ {i}}
    BY Zenon DEF DoElection
  <2> HIDE DEF args
  <2> QED
    BY <1>2, <2>1, Zenon DEF TypeOK
<1>4. /\ currentTerm' \in [Server -> Term]
      /\ votedFor' \in [Server -> Vote]
      /\ status' \in [Server -> {"Follower", "Candidate", "Leader"}]
      /\ votedNum' \in [Server -> Nat]
  BY <1>1, SMT DEF DoElection, TypeOK, Vote
<1>5. voteRecord' \in [Server -> [Term -> Vote]]
  BY <1>1, SMT DEF DoElection, TypeOK, Vote
<1>6. logs' = logs /\ Persist(i)
  BY DEF DoElection, logVars
<1>7. disk' \in [Server -> Saved]
  BY <1>4, <1>6, PersistType, Zenon DEF TypeOK
<1> QED
  BY <1>3, <1>4, <1>5, <1>7, Zenon
     DEF DoElection, TypeOK, logVars, applyVars, leaderVars, appendCalls

LEMMA AnswerVoteType ==
  ASSUME TypeOK, NEW m \in requestVoteArgs, NEW term \in Term,
         NEW granted \in BOOLEAN, AnswerVote(m, term, granted)
  PROVE  /\ requestVoteArgs' \subseteq RequestVoteArgs
         /\ requestVoteReply' \subseteq RequestVoteReply
<1>1. m \in RequestVoteArgs
  BY DEF TypeOK
<1>2. [caller |-> m.caller, callee |-> m.callee, callTerm |-> m.term,
       term |-> term, granted |-> granted, boot |-> m.boot] \in RequestVoteReply
  BY <1>1 DEF RequestVoteArgs, RequestVoteReply
<1> QED
  BY <1>2, Zenon DEF AnswerVote, TypeOK

LEMMA RefuseExpiredVoteType ==
  ASSUME TypeOK, NEW m \in requestVoteArgs, RefuseExpiredVote(m)
  PROVE  TypeOK'
<1>1. m.callee \in Server
  BY DEF TypeOK, RequestVoteArgs
<1>2. /\ requestVoteArgs' \subseteq RequestVoteArgs
      /\ requestVoteReply' \subseteq RequestVoteReply
  BY <1>1, AnswerVoteType DEF RefuseExpiredVote, TypeOK
<1>3. disk' \in [Server -> Saved]
  BY <1>1, PersistType DEF RefuseExpiredVote, TypeOK, electionVars, logVars
<1> QED
  BY <1>2, <1>3, Zenon
     DEF RefuseExpiredVote, TypeOK, electionVars, logVars, applyVars, leaderVars,
         appendCalls

LEMMA RequestVoteType ==
  ASSUME TypeOK, NEW m \in requestVoteArgs, RequestVote(m)
  PROVE  TypeOK'
<1> DEFINE i == m.callee
<1>1. i \in Server /\ m.caller \in Server /\ m.term \in Term
  BY DEF TypeOK, RequestVoteArgs
<1>2. MayGrant(i, m) \in BOOLEAN
  BY DEF MayGrant
<1>3. VoteInTerm(i, m.term) \in Vote
  BY <1>1 DEF VoteInTerm, TypeOK, Vote
<1>4. /\ requestVoteArgs' \subseteq RequestVoteArgs
      /\ requestVoteReply' \subseteq RequestVoteReply
  BY <1>1, <1>2, AnswerVoteType DEF RequestVote
<1>5. /\ currentTerm' \in [Server -> Term]
      /\ votedFor' \in [Server -> Vote]
      /\ status' \in [Server -> {"Follower", "Candidate", "Leader"}]
      /\ voteRecord' \in [Server -> [Term -> Vote]]
  <2>1. /\ currentTerm' = [currentTerm EXCEPT ![i] = m.term]
        /\ status' = [status EXCEPT ![i] =
                        IF m.term > currentTerm[i] THEN "Follower" ELSE @]
        /\ votedFor' = [votedFor EXCEPT ![i] =
                          IF MayGrant(i, m) THEN m.caller ELSE VoteInTerm(i, m.term)]
        /\ voteRecord' = IF MayGrant(i, m)
                         THEN [voteRecord EXCEPT ![i][m.term] = m.caller] ELSE voteRecord
    BY DEF RequestVote
  <2> HIDE DEF i
  <2>2. m.caller \in Vote
    BY <1>1 DEF Vote
  <2> QED
    BY <1>1, <1>3, <2>1, <2>2, Zenon DEF TypeOK
<1>6. logs' = logs /\ Persist(i)
  BY DEF RequestVote, logVars
<1>7. disk' \in [Server -> Saved]
  BY <1>1, <1>5, <1>6, PersistType DEF TypeOK
<1> QED
  BY <1>4, <1>5, <1>7, Zenon
     DEF RequestVote, TypeOK, logVars, applyVars, leaderVars, appendCalls

\* The three ways to read the reply to a RequestVote.
LEMMA HandleVoteReplyType ==
  ASSUME TypeOK, NEW m \in requestVoteReply, HandleVoteReply(m)
  PROVE  TypeOK'
<1> DEFINE i == m.caller
<1>1. i \in Server /\ m.term \in Term
  BY DEF TypeOK, RequestVoteReply
<1>2. VoteReplyArrives(m)
  BY DEF HandleVoteReply, VoteReplyNewerTerm, VoteReplyCounted, BecomeLeader
<1>3. requestVoteReply' \subseteq RequestVoteReply
  BY <1>2 DEF VoteReplyArrives, TypeOK
<1>4. CASE VoteReplyNewerTerm(m)
  <2>1. /\ currentTerm' \in [Server -> Term]
        /\ votedFor' \in [Server -> Vote]
        /\ status' \in [Server -> {"Follower", "Candidate", "Leader"}]
    BY <1>1, <1>4, StepDownType DEF VoteReplyNewerTerm
  <2>2. logs' = logs /\ Persist(i)
    BY <1>4 DEF VoteReplyNewerTerm, VoteReplyArrives, logVars
  <2>3. disk' \in [Server -> Saved]
    BY <1>1, <2>1, <2>2, PersistType DEF TypeOK
  <2> QED
    BY <1>3, <1>4, <2>1, <2>3, Zenon
       DEF VoteReplyNewerTerm, VoteReplyArrives, TypeOK, logVars, applyVars, appendCalls
<1>5. CASE VoteReplyCounted(m)
  <2>1. votedNum' \in [Server -> Nat]
    BY <1>1, <1>5, SMT DEF VoteReplyCounted, TypeOK
  <2> QED
    BY <1>3, <1>5, <2>1, Zenon
       DEF VoteReplyCounted, VoteReplyArrives, TypeOK, logVars, applyVars, appendCalls
<1>6. CASE BecomeLeader(m)
  <2>1. /\ votedNum' \in [Server -> Nat]
        /\ status' \in [Server -> {"Follower", "Candidate", "Leader"}]
    <3>1. /\ votedNum' = [votedNum EXCEPT ![i] = 0]
          /\ status' = [status EXCEPT ![i] = "Leader"]
      BY <1>6, Zenon DEF BecomeLeader, VotesAfterElection
    <3> QED
      BY <1>1, <3>1, SMTT(30) DEF TypeOK
  <2>2. Len(logs[i]) + 1 \in Nat
    BY <1>1, LenProperties, SMT DEF TypeOK
  <2>3. /\ nextIndex' \in [Server -> [Server -> Nat]]
        /\ matchIndex' \in [Server -> [Server -> Nat]]
    BY <1>1, <1>6, <2>2, SMT DEF BecomeLeader, TypeOK
  <2>4. logs' = logs /\ Persist(i) /\ currentTerm' = currentTerm /\ votedFor' = votedFor
    BY <1>6 DEF BecomeLeader, VoteReplyArrives, logVars
  <2>5. disk' \in [Server -> Saved]
    BY <1>1, <2>4, PersistType DEF TypeOK
  <2> QED
    BY <1>3, <1>6, <2>1, <2>3, <2>5, Zenon
       DEF BecomeLeader, VoteReplyArrives, TypeOK, logVars, applyVars, appendCalls
<1> QED
  BY <1>4, <1>5, <1>6 DEF HandleVoteReply

LEMMA StartConsesType ==
  ASSUME TypeOK, NEW i \in Server, NEW command \in Command, StartConses(i, command)
  PROVE  TypeOK'
<1>1. [term |-> currentTerm[i], command |-> command] \in Entry
  BY DEF TypeOK, Entry
<1>2. Append(logs[i], [term |-> currentTerm[i], command |-> command]) \in Seq(Entry)
  BY <1>1, AppendProperties DEF TypeOK
<1>3. logs' \in [Server -> Seq(Entry)]
  BY <1>2, Zenon DEF StartConses, TypeOK
<1>4. currentTerm' = currentTerm /\ votedFor' = votedFor /\ Persist(i)
  BY DEF StartConses, electionVars
<1>5. disk' \in [Server -> Saved]
  BY <1>3, <1>4, PersistType DEF TypeOK
<1> QED
  BY <1>3, <1>5, Zenon
     DEF StartConses, TypeOK, electionVars, applyVars, leaderVars, voteCalls, appendCalls

LEMMA DoHeartBeatType ==
  ASSUME TypeOK, NEW i \in Server, DoHeartBeat(i)
  PROVE  TypeOK'
<1>1. PICK r \in FreeRounds(i) :
        /\ appendNums' = [appendNums EXCEPT ![i][r] = 1]
        /\ appendEntriesArgs' = appendEntriesArgs \cup
             {HeartBeatArgs(i, j, r) : j \in Server \ {i}}
  BY DEF DoHeartBeat
<1>2. r \in Round
  BY DEF FreeRounds
<1>3. ASSUME NEW j \in Server \ {i} PROVE HeartBeatArgs(i, j, r) \in AppendEntriesArgs
  <2> DEFINE prev == nextIndex[i][j] - 1
  <2>1. prev \in Nat
    <3>1. nextIndex[i][j] \in 1 .. Len(logs[i]) + 1
      BY DEF DoHeartBeat, NextIndexInLog
    <3>2. nextIndex[i][j] \in Nat
      BY DEF TypeOK
    <3> QED
      BY <3>1, <3>2, LenProperties, SMT
  <2>2. logs[i] \in Seq(Entry) /\ currentTerm[i] \in Term
        /\ commitIndex[i] \in Nat /\ boot[i] \in Nat
    BY DEF TypeOK
  <2> HIDE DEF prev
  <2>3. TermAt(logs[i], prev) \in Term /\ EntriesAfter(logs[i], prev) \in Seq(Entry)
    BY <2>1, <2>2, TermAtType, EntriesAfterType
  <2>4. HeartBeatArgs(i, j, r) =
          [caller |-> i, callee |-> j, term |-> currentTerm[i],
           prevLogIndex |-> prev, prevLogTerm |-> TermAt(logs[i], prev),
           entries |-> EntriesAfter(logs[i], prev),
           leaderCommit |-> commitIndex[i], round |-> r, boot |-> boot[i]]
    BY Zenon DEF HeartBeatArgs, prev
  <2> QED
    BY <1>2, <2>1, <2>2, <2>3, <2>4 DEF AppendEntriesArgs
<1>4. appendEntriesArgs' \subseteq AppendEntriesArgs
  BY <1>1, <1>3, Zenon DEF TypeOK
<1>5. appendNums' \in [Server -> [Round -> Nat]]
  BY <1>1, <1>2, SMT DEF TypeOK
<1> QED
  BY <1>4, <1>5, Zenon
     DEF DoHeartBeat, TypeOK, electionVars, logVars, applyVars, voteCalls

LEMMA AnswerAppendType ==
  ASSUME TypeOK, NEW m \in appendEntriesArgs, NEW term \in Term,
         NEW success \in BOOLEAN, NEW hint \in Nat \cup {NoHint},
         AnswerAppend(m, term, success, hint)
  PROVE  /\ appendEntriesArgs' \subseteq AppendEntriesArgs
         /\ appendEntriesReply' \subseteq AppendEntriesReply
<1>1. m \in AppendEntriesArgs
  BY DEF TypeOK
<1>2. m.prevLogIndex + Len(m.entries) \in Nat /\ LastTerm(m.entries) \in Term
  <2>1. m.prevLogIndex \in Nat /\ m.entries \in Seq(Entry)
    BY <1>1 DEF AppendEntriesArgs
  <2>2. LastTerm(m.entries) \in Term
    BY <2>1, TermAtType DEF LastTerm
  <2> QED
    BY <2>1, <2>2, LenProperties, SMT
<1>3. /\ m.caller \in Server /\ m.callee \in Server
      /\ m.round \in Round /\ m.boot \in Nat
  BY <1>1 DEF AppendEntriesArgs
<1>4. [caller |-> m.caller, callee |-> m.callee, term |-> term,
       success |-> success, updateNextIndex |-> hint,
       upTo |-> m.prevLogIndex + Len(m.entries), lastTerm |-> LastTerm(m.entries),
       round |-> m.round, boot |-> m.boot] \in AppendEntriesReply
  BY <1>2, <1>3 DEF AppendEntriesReply
<1> QED
  BY <1>4, Zenon DEF AnswerAppend, TypeOK

LEMMA FollowLeaderType ==
  ASSUME TypeOK, NEW m \in appendEntriesArgs, FollowLeader(m)
  PROVE  /\ m.callee \in Server
         /\ m.term \in Term
         /\ currentTerm' \in [Server -> Term]
         /\ votedFor' \in [Server -> Vote]
         /\ status' \in [Server -> {"Follower", "Candidate", "Leader"}]
<1> DEFINE i == m.callee
<1>1. i \in Server /\ m.term \in Term
  BY DEF TypeOK, AppendEntriesArgs
<1>2. VoteInTerm(i, m.term) \in Vote
  BY <1>1 DEF VoteInTerm, TypeOK, Vote
<1>3. /\ currentTerm' = [currentTerm EXCEPT ![i] = m.term]
      /\ status' = [status EXCEPT ![i] = "Follower"]
      /\ votedFor' = [votedFor EXCEPT ![i] = VoteInTerm(i, m.term)]
  BY DEF FollowLeader
<1> QED
  BY <1>1, <1>2, <1>3, Zenon DEF TypeOK

\* The four answers to an AppendEntries.
LEMMA HandleAppendEntriesType ==
  ASSUME TypeOK, NEW m \in appendEntriesArgs, HandleAppendEntries(m)
  PROVE  TypeOK'
<1> DEFINE i == m.callee
<1>1. /\ i \in Server /\ m.term \in Term /\ m.prevLogIndex \in Nat
      /\ m.leaderCommit \in Nat /\ m.entries \in Seq(Entry)
  BY DEF TypeOK, AppendEntriesArgs
<1>2. logs[i] \in Seq(Entry) /\ Len(logs[i]) \in Nat
  BY <1>1, LenProperties DEF TypeOK
<1>3. CASE RefuseExpiredEntries(m)
  <2>1. AnswerAppend(m, currentTerm[i], FALSE, NoHint)
    BY <1>3 DEF RefuseExpiredEntries
  <2>2. currentTerm[i] \in Term
    BY <1>1 DEF TypeOK
  <2>3. /\ appendEntriesArgs' \subseteq AppendEntriesArgs
        /\ appendEntriesReply' \subseteq AppendEntriesReply
    BY <2>1, <2>2, AnswerAppendType
  <2> QED
    BY <1>3, <2>1, <2>3, Zenon
       DEF RefuseExpiredEntries, AnswerAppend, TypeOK, logVars, applyVars,
           leaderVars, voteCalls
<1>4. ASSUME NEW success \in BOOLEAN, NEW hint \in Nat \cup {NoHint},
             FollowLeader(m), AnswerAppend(m, m.term, success, hint), Persist(i),
             logs' \in [Server -> Seq(Entry)], commitIndex' \in [Server -> Nat]
      PROVE  TypeOK'
  <2>1. /\ currentTerm' \in [Server -> Term]
        /\ votedFor' \in [Server -> Vote]
        /\ status' \in [Server -> {"Follower", "Candidate", "Leader"}]
    BY <1>4, FollowLeaderType
  <2>2. /\ appendEntriesArgs' \subseteq AppendEntriesArgs
        /\ appendEntriesReply' \subseteq AppendEntriesReply
    BY <1>1, <1>4, AnswerAppendType
  <2>3. disk' \in [Server -> Saved]
    BY <1>1, <1>4, <2>1, PersistType
  <2> QED
    BY <1>4, <2>1, <2>2, <2>3, Zenon
       DEF AnswerAppend, TypeOK, applyVars, leaderVars, voteCalls
<1>5. CASE RefuseGap(m)
  <2>1. Len(logs[i]) + 1 \in Nat
    BY <1>2, SMT
  <2>2. logs' = logs /\ commitIndex' = commitIndex
    BY <1>5 DEF RefuseGap, logVars
  <2> QED
    BY <1>4, <1>5, <2>1, <2>2 DEF RefuseGap, TypeOK
<1>6. CASE RefuseMismatch(m)
  <2>1. ConflictNextIndex(logs[i], m.prevLogIndex) \in Nat
    BY <1>1, <1>2, ConflictNextIndexType
  <2>2. logs' = logs /\ commitIndex' = commitIndex
    BY <1>6 DEF RefuseMismatch, logVars
  <2> QED
    BY <1>4, <1>6, <2>1, <2>2 DEF RefuseMismatch, TypeOK
<1>7. CASE AcceptEntries(m)
  <2>1. m.prevLogIndex <= Len(logs[i])
    BY <1>7 DEF AcceptEntries, EntriesFit
  <2>2. MergeEntries(logs[i], m.prevLogIndex, m.entries) \in Seq(Entry)
    BY <1>1, <1>2, <2>1, MergeEntriesType
  <2>3. logs' \in [Server -> Seq(Entry)]
    BY <1>7, <2>2, Zenon DEF AcceptEntries, TypeOK
  <2>4. Len(logs'[i]) \in Nat /\ commitIndex[i] \in Nat
    BY <1>1, <2>3, LenProperties DEF TypeOK
  <2>5. FollowerCommit(commitIndex[i], m.leaderCommit, Len(logs'[i])) \in Nat
    BY <1>1, <2>4, FollowerCommitType
  <2>6. commitIndex' \in [Server -> Nat]
    BY <1>7, <2>5, Zenon DEF AcceptEntries, TypeOK
  <2> QED
    BY <1>4, <1>7, <2>3, <2>6 DEF AcceptEntries
<1> QED
  BY <1>3, <1>5, <1>6, <1>7 DEF HandleAppendEntries

\* The ways to read the reply to an AppendEntries.
LEMMA HandleAppendReplyType ==
  ASSUME TypeOK, NEW m \in appendEntriesReply, HandleAppendReply(m)
  PROVE  TypeOK'
<1> DEFINE i == m.caller
<1>1. /\ i \in Server /\ m.callee \in Server /\ m.term \in Term /\ m.upTo \in Nat
      /\ m.round \in Round /\ m.updateNextIndex \in Nat \cup {NoHint}
  BY DEF TypeOK, AppendEntriesReply
<1>2. AppendReplyArrives(m)
  BY DEF HandleAppendReply, AppendReplyNewerTerm, AppendReplyStale,
         AppendReplyFailure, AppendReplySuccess, AppendReplyInTerm
<1>3. appendEntriesReply' \subseteq AppendEntriesReply
  BY <1>2 DEF AppendReplyArrives, TypeOK
<1>4. CASE AppendReplyNewerTerm(m)
  <2>1. /\ currentTerm' \in [Server -> Term]
        /\ votedFor' \in [Server -> Vote]
        /\ status' \in [Server -> {"Follower", "Candidate", "Leader"}]
    BY <1>1, <1>4, StepDownType DEF AppendReplyNewerTerm
  <2> QED
    BY <1>2, <1>3, <1>4, <2>1, Zenon
       DEF AppendReplyNewerTerm, AppendReplyArrives, TypeOK, applyVars, leaderVars,
           voteCalls
<1>5. CASE AppendReplyStale(m)
  BY <1>2, <1>3, <1>5, Zenon
     DEF AppendReplyStale, AppendReplyArrives, TypeOK, applyVars, leaderVars, voteCalls
<1>6. CASE AppendReplyFailure(m)
  <2>1. nextIndex' \in [Server -> [Server -> Nat]]
    <3>1. nextIndex' = IF m.updateNextIndex = NoHint THEN nextIndex
                       ELSE [nextIndex EXCEPT ![i][m.callee] = m.updateNextIndex]
      BY <1>6 DEF AppendReplyFailure
    <3> QED
      BY <1>1, <3>1, Zenon DEF TypeOK
  <2> QED
    BY <1>2, <1>3, <1>6, <2>1, Zenon
       DEF AppendReplyFailure, AppendReplyInTerm, AppendReplyArrives, TypeOK,
           applyVars, voteCalls
<1>7. CASE AppendReplySuccess(m)
  <2> DEFINE match == AckedIndex(matchIndex[i][m.callee], m.upTo)
             acks  == appendNums[i][m.round] + 1
  <2>1. matchIndex[i][m.callee] \in Nat /\ appendNums[i][m.round] \in Nat
        /\ commitIndex[i] \in Nat
    BY <1>1 DEF TypeOK
  <2>2. match \in Nat /\ match + 1 \in Nat /\ acks \in Nat
    BY <1>1, <2>1, MaxOfPair, SMT DEF AckedIndex
  <2>3. LeaderCommit(i, m, commitIndex[i]) \in Nat
    BY <1>1, <2>1, MaxOfPair, SMT DEF LeaderCommit
  <2>4. /\ matchIndex' = [matchIndex EXCEPT ![i][m.callee] = match]
        /\ nextIndex' = [nextIndex EXCEPT ![i][m.callee] = match + 1]
        /\ \/ appendNums' = [appendNums EXCEPT ![i][m.round] = acks]
           \/ appendNums' = [appendNums EXCEPT ![i][m.round] = 0]
        /\ \/ commitIndex' = commitIndex
           \/ commitIndex' = [commitIndex EXCEPT ![i] = LeaderCommit(i, m, commitIndex[i])]
    BY <1>7, Zenon DEF AppendReplySuccess
  <2> HIDE DEF match, acks
  <2>5. /\ matchIndex' \in [Server -> [Server -> Nat]]
        /\ nextIndex' \in [Server -> [Server -> Nat]]
    BY <1>1, <2>2, <2>4, Zenon DEF TypeOK
  <2>6. appendNums' \in [Server -> [Round -> Nat]]
    <3>1. PICK n \in Nat : appendNums' = [appendNums EXCEPT ![i][m.round] = n]
      <4>1. 0 \in Nat
        OBVIOUS
      <4> QED
        BY <2>2, <2>4, <4>1, Zenon
    <3> HIDE DEF i
    <3> QED
      BY <1>1, <3>1, Zenon DEF TypeOK
  <2>7. commitIndex' \in [Server -> Nat]
    BY <1>1, <2>3, <2>4, ZenonT(30) DEF TypeOK
  <2> QED
    BY <1>2, <1>3, <1>7, <2>5, <2>6, <2>7, Zenon
       DEF AppendReplySuccess, AppendReplyInTerm, AppendReplyArrives, TypeOK,
           applyVars, voteCalls
<1> QED
  BY <1>4, <1>5, <1>6, <1>7 DEF HandleAppendReply

LEMMA ApplierTickerType ==
  ASSUME TypeOK, NEW i \in Server, ApplierTicker(i)
  PROVE  TypeOK'
<1> DEFINE n     == commitIndex[i] - lastApplied[i]
           fresh == [k \in 1 .. n |-> logs[i][lastApplied[i] + k].command]
<1>1. /\ lastApplied[i] \in Nat /\ commitIndex[i] \in Nat /\ logs[i] \in Seq(Entry)
      /\ applyChan[i] \in Seq(Command)
  BY DEF TypeOK
<1>2. n \in Nat /\ commitIndex[i] <= Len(logs[i])
  BY <1>1, SMT DEF ApplierTicker
<1>3. ASSUME NEW k \in 1 .. n PROVE logs[i][lastApplied[i] + k].command \in Command
  <2>1. lastApplied[i] + k \in 1 .. Len(logs[i])
    BY <1>1, <1>2, LenProperties, SMT
  <2>2. logs[i][lastApplied[i] + k] \in Entry
    BY <1>1, <2>1, ElementOfSeq
  <2> QED
    BY <2>2 DEF Entry
<1>4. fresh \in Seq(Command)
  <2> HIDE DEF n
  <2> QED
    BY <1>2, <1>3, SMT
<1>5. applyChan[i] \o fresh \in Seq(Command)
  <2> HIDE DEF fresh
  <2> QED
    BY <1>1, <1>4, ConcatProperties
<1>6. applyChan' = [applyChan EXCEPT ![i] = applyChan[i] \o fresh]
  BY Zenon DEF ApplierTicker
<1> HIDE DEF fresh
<1>7. applyChan' \in [Server -> Seq(Command)]
  BY <1>5, <1>6, Zenon DEF TypeOK
<1>8. lastApplied' \in [Server -> Nat]
  BY <1>1, Zenon DEF ApplierTicker, TypeOK
<1> QED
  BY <1>7, <1>8, Zenon
     DEF ApplierTicker, TypeOK, electionVars, logVars, leaderVars, voteCalls, appendCalls

LEMMA RestartType ==
  ASSUME TypeOK, NEW i \in Server, Restart(i)
  PROVE  TypeOK'
<1>1. EmptyDisk \in Saved
  BY ZeroTerm DEF EmptyDisk, Saved, Vote
<1>2. Recovered(i) \in Saved
  BY <1>1 DEF Recovered, TypeOK
<1>3. /\ Recovered(i).term \in Term /\ Recovered(i).votedFor \in Vote
      /\ Recovered(i).logs \in Seq(Entry)
  BY <1>2 DEF Saved
<1>4. /\ currentTerm' \in [Server -> Term]
      /\ votedFor' \in [Server -> Vote]
      /\ logs' \in [Server -> Seq(Entry)]
      /\ disk' \in [Server -> Saved]
  BY <1>2, <1>3, Zenon DEF Restart, TypeOK
<1>5. /\ status' \in [Server -> {"Follower", "Candidate", "Leader"}]
      /\ commitIndex' \in [Server -> Nat]
      /\ lastApplied' \in [Server -> Nat]
      /\ votedNum' \in [Server -> Nat]
      /\ boot' \in [Server -> Nat]
  BY SMT DEF Restart, TypeOK
<1>6. /\ nextIndex' \in [Server -> [Server -> Nat]]
      /\ matchIndex' \in [Server -> [Server -> Nat]]
      /\ appendNums' \in [Server -> [Round -> Nat]]
  BY SMT DEF Restart, TypeOK
<1>7. applyChan' \in [Server -> Seq(Command)]
  <2>1. <<>> \in Seq(Command)
    OBVIOUS
  <2> QED
    BY <2>1, Zenon DEF Restart, TypeOK
<1> QED
  BY <1>4, <1>5, <1>6, <1>7, Zenon DEF Restart, TypeOK, voteCalls, appendCalls

LEMMA CallFailsType ==
  ASSUME TypeOK, VoteCallFails \/ AppendCallFails
  PROVE  TypeOK'
<1>1. CASE VoteCallFails
  <2>1. requestVoteArgs' \subseteq requestVoteArgs /\ requestVoteReply' \subseteq requestVoteReply
    BY <1>1 DEF VoteCallFails
  <2> QED
    BY <1>1, <2>1 DEF VoteCallFails, TypeOK, electionVars, logVars, applyVars,
                      leaderVars, appendCalls
<1>2. CASE AppendCallFails
  <2>1. /\ appendEntriesArgs' \subseteq appendEntriesArgs
        /\ appendEntriesReply' \subseteq appendEntriesReply
    BY <1>2 DEF AppendCallFails
  <2> QED
    BY <1>2, <2>1 DEF AppendCallFails, TypeOK, electionVars, logVars, applyVars,
                      leaderVars, voteCalls
<1> QED
  BY <1>1, <1>2

LEMMA TypeNext == TypeOK /\ [Next]_vars => TypeOK'
<1> SUFFICES ASSUME TypeOK, [Next]_vars PROVE TypeOK'
  OBVIOUS
<1>1. ASSUME NEW m \in requestVoteArgs, HandleRequestVote(m) PROVE TypeOK'
  BY <1>1, RefuseExpiredVoteType, RequestVoteType DEF HandleRequestVote
<1>2. CASE UNCHANGED vars
  BY <1>2 DEF vars, TypeOK, electionVars, logVars, applyVars, leaderVars, voteCalls,
              appendCalls
<1> QED
  BY <1>1, <1>2, DoElectionType, DoHeartBeatType, ApplierTickerType, RestartType,
     StartConsesType, HandleVoteReplyType, HandleAppendEntriesType,
     HandleAppendReplyType, CallFailsType, Zenon DEF Next

\* Every state variable keeps its type over elections, replication, failing
\* calls and restarts; in particular what is read back from the disk is always
\* what a handler wrote.
THEOREM TypeCorrect == Spec => []TypeOK
<1>1. Init => TypeOK
  BY TypeInit
<1>2. TypeOK /\ [Next]_vars => TypeOK'
  BY TypeNext
<1> QED
  BY <1>1, <1>2, PTL DEF Spec

-----------------------------------------------------------------------------
\* Most steps give no vote and count none: they leave the election alone, or
\* take over a newer term, and some of them persist.
QuietStep(i) ==
  /\ voteRecord' = voteRecord /\ votedNum' = votedNum /\ boot' = boot
  /\ requestVoteArgs' \subseteq requestVoteArgs
  /\ requestVoteReply' \subseteq requestVoteReply
  /\ \A j \in Server \ {i} : /\ currentTerm'[j] = currentTerm[j]
                             /\ votedFor'[j] = votedFor[j]
                             /\ status'[j] = status[j]
                             /\ disk'[j] = disk[j]
  /\ \/ /\ currentTerm'[i] = currentTerm[i] /\ votedFor'[i] = votedFor[i]
        /\ status'[i] \in {status[i], "Follower"}
     \/ /\ currentTerm'[i] > currentTerm[i] /\ votedFor'[i] = NoVote
        /\ status'[i] = "Follower"
  /\ \/ disk'[i] = disk[i]
     \/ disk'[i].term = currentTerm'[i] /\ disk'[i].votedFor = votedFor'[i]

\* What persist() leaves on the disks.
LEMMA PersistWrites ==
  ASSUME TypeOK, NEW i \in Server, Persist(i)
  PROVE  /\ disk'[i].term = currentTerm'[i] /\ disk'[i].votedFor = votedFor'[i]
         /\ \A j \in Server \ {i} : disk'[j] = disk[j]
<1> DEFINE saved == [term |-> currentTerm'[i], votedFor |-> votedFor'[i], logs |-> logs'[i]]
<1>1. disk' = [disk EXCEPT ![i] = saved] /\ disk \in [Server -> Saved]
  BY DEF Persist, TypeOK
<1>2. saved.term = currentTerm'[i] /\ saved.votedFor = votedFor'[i]
  OBVIOUS
<1> HIDE DEF saved
<1>3. disk'[i] = saved /\ \A j \in Server \ {i} : disk'[j] = disk[j]
  BY <1>1
<1> QED
  BY <1>2, <1>3

LEMMA ReplyIsQuiet ==
  ASSUME TypeOK, NEW m \in requestVoteReply, VoteReplyNewerTerm(m)
  PROVE  QuietStep(m.caller)
<1> DEFINE i == m.caller
<1>1. i \in Server /\ m.term \in Term
  BY DEF TypeOK, RequestVoteReply
<1>2. /\ voteRecord' = voteRecord /\ votedNum' = votedNum /\ boot' = boot
      /\ requestVoteArgs' = requestVoteArgs
      /\ requestVoteReply' \subseteq requestVoteReply
  BY DEF VoteReplyNewerTerm, VoteReplyArrives
<1>3. /\ disk'[i].term = currentTerm'[i] /\ disk'[i].votedFor = votedFor'[i]
      /\ \A j \in Server \ {i} : disk'[j] = disk[j]
  BY <1>1, PersistWrites DEF VoteReplyNewerTerm
<1>4. /\ currentTerm'[i] = m.term /\ votedFor'[i] = NoVote /\ status'[i] = "Follower"
      /\ \A j \in Server \ {i} : /\ currentTerm'[j] = currentTerm[j]
                                 /\ votedFor'[j] = votedFor[j]
                                 /\ status'[j] = status[j]
  BY <1>1 DEF VoteReplyNewerTerm, StepDown, TypeOK
<1> QED
  BY <1>2, <1>3, <1>4 DEF QuietStep, VoteReplyNewerTerm

LEMMA AppendReplyIsQuiet ==
  ASSUME TypeOK, NEW m \in appendEntriesReply, HandleAppendReply(m)
  PROVE  QuietStep(m.caller)
<1> DEFINE i == m.caller
<1>1. i \in Server /\ m.term \in Term
  BY DEF TypeOK, AppendEntriesReply
<1>2. AppendReplyArrives(m) /\ disk' = disk
  BY DEF HandleAppendReply, AppendReplyNewerTerm, AppendReplyStale,
         AppendReplyFailure, AppendReplySuccess, AppendReplyInTerm
<1>3. CASE AppendReplyNewerTerm(m)
  <2>1. /\ currentTerm'[i] = m.term /\ votedFor'[i] = NoVote /\ status'[i] = "Follower"
        /\ \A j \in Server \ {i} : /\ currentTerm'[j] = currentTerm[j]
                                   /\ votedFor'[j] = votedFor[j]
                                   /\ status'[j] = status[j]
    BY <1>1, <1>3 DEF AppendReplyNewerTerm, StepDown, TypeOK
  <2> QED
    BY <1>2, <1>3, <2>1
       DEF QuietStep, AppendReplyNewerTerm, AppendReplyArrives, voteCalls
<1>4. CASE UNCHANGED <<currentTerm, votedFor, status>>
  BY <1>2, <1>4 DEF QuietStep, AppendReplyArrives, voteCalls
<1> QED
  BY <1>3, <1>4
     DEF HandleAppendReply, AppendReplyStale, AppendReplyFailure,
         AppendReplySuccess, AppendReplyInTerm

LEMMA AppendEntriesIsQuiet ==
  ASSUME TypeOK, NEW m \in appendEntriesArgs, HandleAppendEntries(m)
  PROVE  QuietStep(m.callee)
<1> DEFINE i == m.callee
<1>1. /\ i \in Server /\ m.term \in Term /\ currentTerm[i] \in Term
  BY DEF TypeOK, AppendEntriesArgs
<1>2. UNCHANGED <<votedNum, voteRecord, boot, requestVoteArgs, requestVoteReply>>
  BY DEF HandleAppendEntries, RefuseExpiredEntries, RefuseGap, RefuseMismatch,
         AcceptEntries, AnswerAppend, voteCalls
<1>3. CASE RefuseExpiredEntries(m)
  BY <1>2, <1>3 DEF QuietStep, RefuseExpiredEntries
<1>4. CASE FollowLeader(m) /\ Persist(i)
  <2>1. /\ disk'[i].term = currentTerm'[i] /\ disk'[i].votedFor = votedFor'[i]
        /\ \A j \in Server \ {i} : disk'[j] = disk[j]
    BY <1>1, <1>4, PersistWrites
  <2>2. /\ currentTerm'[i] = m.term /\ status'[i] = "Follower"
        /\ votedFor'[i] = VoteInTerm(i, m.term)
        /\ \A j \in Server \ {i} : /\ currentTerm'[j] = currentTerm[j]
                                   /\ votedFor'[j] = votedFor[j]
                                   /\ status'[j] = status[j]
    BY <1>1, <1>4 DEF FollowLeader, TypeOK
  <2>3. \/ currentTerm'[i] > currentTerm[i] /\ votedFor'[i] = NoVote
        \/ currentTerm'[i] = currentTerm[i] /\ votedFor'[i] = votedFor[i]
    BY <1>1, <1>4, <2>2, SMT DEF FollowLeader, VoteInTerm, Term
  <2> QED
    BY <1>2, <2>1, <2>2, <2>3 DEF QuietStep
<1> QED
  BY <1>3, <1>4
     DEF HandleAppendEntries, RefuseGap, RefuseMismatch, AcceptEntries

LEMMA LocalStepIsQuiet ==
  ASSUME TypeOK, NEW i \in Server,
         \/ DoHeartBeat(i) \/ ApplierTicker(i) \/ VoteCallFails \/ AppendCallFails
         \/ UNCHANGED vars
         \/ \E command \in Command : StartConses(i, command)
  PROVE  QuietStep(i)
<1>1. CASE DoHeartBeat(i)
  BY <1>1 DEF QuietStep, DoHeartBeat, electionVars, voteCalls
<1>2. CASE ApplierTicker(i)
  BY <1>2 DEF QuietStep, ApplierTicker, electionVars, voteCalls
<1>3. CASE VoteCallFails
  BY <1>3 DEF QuietStep, VoteCallFails, electionVars
<1>4. CASE AppendCallFails
  BY <1>4 DEF QuietStep, AppendCallFails, electionVars, voteCalls
<1>5. CASE UNCHANGED vars
  BY <1>5 DEF QuietStep, vars, electionVars, voteCalls
<1>6. ASSUME NEW command \in Command, StartConses(i, command) PROVE QuietStep(i)
  BY <1>6, PersistWrites DEF QuietStep, StartConses, electionVars, voteCalls
<1> QED
  BY <1>1, <1>2, <1>3, <1>4, <1>5, <1>6

\* Every step is quiet, or one of six.
LEMMA Steps ==
  ASSUME TypeOK, [Next]_vars
  PROVE  \/ \E i \in Server : QuietStep(i) \/ DoElection(i) \/ Restart(i)
         \/ \E m \in requestVoteArgs : RefuseExpiredVote(m) \/ RequestVote(m)
         \/ \E m \in requestVoteReply : VoteReplyCounted(m) \/ BecomeLeader(m)
<1>1. \A m \in requestVoteReply : VoteReplyNewerTerm(m) =>
        m.caller \in Server /\ QuietStep(m.caller)
  BY ReplyIsQuiet DEF TypeOK, RequestVoteReply
<1>2. \A m \in appendEntriesArgs : HandleAppendEntries(m) =>
        m.callee \in Server /\ QuietStep(m.callee)
  BY AppendEntriesIsQuiet DEF TypeOK, AppendEntriesArgs
<1>3. \A m \in appendEntriesReply : HandleAppendReply(m) =>
        m.caller \in Server /\ QuietStep(m.caller)
  BY AppendReplyIsQuiet DEF TypeOK, AppendEntriesReply
<1>4. PICK i \in Server : TRUE
  BY ServerAssumption
<1> QED
  BY <1>1, <1>2, <1>3, <1>4, LocalStepIsQuiet, Zenon
     DEF Next, HandleRequestVote, HandleVoteReply

-----------------------------------------------------------------------------
\* What is assumed of restarts.
VotesSurviveRestart == DiskSurvives \/ MaxBoots = 0

\* What each of the six steps does to the votes.
LEMMA DoElectionVotes ==
  ASSUME TypeOK, NEW i \in Server, DoElection(i)
  PROVE  /\ currentTerm[i] + 1 \in Term
         /\ currentTerm'[i] = currentTerm[i] + 1 /\ votedFor'[i] = i
         /\ voteRecord'[i] = [voteRecord[i] EXCEPT ![currentTerm[i] + 1] = i]
         /\ disk'[i].term = currentTerm'[i] /\ disk'[i].votedFor = votedFor'[i]
         /\ status'[i] = "Candidate" /\ votedNum'[i] = 1 /\ boot' = boot
         /\ \A j \in Server \ {i} :
              /\ currentTerm'[j] = currentTerm[j] /\ votedFor'[j] = votedFor[j]
              /\ voteRecord'[j] = voteRecord[j] /\ disk'[j] = disk[j]
              /\ status'[j] = status[j] /\ votedNum'[j] = votedNum[j]
<1>1. currentTerm[i] + 1 \in Term
  BY BoundAssumption, SMT DEF DoElection, TypeOK, Term
<1>2. /\ disk'[i].term = currentTerm'[i] /\ disk'[i].votedFor = votedFor'[i]
      /\ \A j \in Server \ {i} : disk'[j] = disk[j]
  BY PersistWrites DEF DoElection
<1> QED
  BY <1>1, <1>2 DEF DoElection, TypeOK

LEMMA RequestVoteVotes ==
  ASSUME TypeOK, NEW m \in requestVoteArgs, RequestVote(m)
  PROVE  LET i == m.callee IN
         /\ i \in Server /\ m.term \in Term /\ m.caller \in Server
         /\ currentTerm'[i] = m.term /\ m.term >= currentTerm[i]
         /\ votedFor'[i] = IF MayGrant(i, m) THEN m.caller ELSE VoteInTerm(i, m.term)
         /\ voteRecord'[i] = IF MayGrant(i, m)
                             THEN [voteRecord[i] EXCEPT ![m.term] = m.caller]
                             ELSE voteRecord[i]
         /\ disk'[i].term = currentTerm'[i] /\ disk'[i].votedFor = votedFor'[i]
         /\ status'[i] = IF m.term > currentTerm[i] THEN "Follower" ELSE status[i]
         /\ votedNum' = votedNum /\ boot' = boot
         /\ \A j \in Server \ {i} :
              /\ currentTerm'[j] = currentTerm[j] /\ votedFor'[j] = votedFor[j]
              /\ voteRecord'[j] = voteRecord[j] /\ disk'[j] = disk[j]
              /\ status'[j] = status[j]
<1> DEFINE i == m.callee
<1>1. i \in Server /\ m.term \in Term /\ m.caller \in Server
  BY DEF TypeOK, RequestVoteArgs
<1>2. /\ disk'[i].term = currentTerm'[i] /\ disk'[i].votedFor = votedFor'[i]
      /\ \A j \in Server \ {i} : disk'[j] = disk[j]
  BY <1>1, PersistWrites DEF RequestVote
<1>3. /\ currentTerm' = [currentTerm EXCEPT ![i] = m.term] /\ m.term >= currentTerm[i]
      /\ status' = [status EXCEPT ![i] =
                      IF m.term > currentTerm[i] THEN "Follower" ELSE @]
      /\ votedFor' = [votedFor EXCEPT ![i] =
                        IF MayGrant(i, m) THEN m.caller ELSE VoteInTerm(i, m.term)]
      /\ voteRecord' = IF MayGrant(i, m) THEN [voteRecord EXCEPT ![i][m.term] = m.caller]
                       ELSE voteRecord
      /\ votedNum' = votedNum /\ boot' = boot
  BY DEF RequestVote
<1> QED
  BY <1>1, <1>2, <1>3 DEF TypeOK

LEMMA RestartVotes ==
  ASSUME VotesSurviveRestart, TypeOK, NEW i \in Server, Restart(i)
  PROVE  /\ currentTerm'[i] = disk[i].term /\ votedFor'[i] = disk[i].votedFor
         /\ disk' = disk /\ voteRecord' = voteRecord
         /\ status'[i] = "Follower" /\ votedNum'[i] = 0 /\ boot'[i] = boot[i] + 1
         /\ \A j \in Server \ {i} :
              /\ currentTerm'[j] = currentTerm[j] /\ votedFor'[j] = votedFor[j]
              /\ status'[j] = status[j] /\ votedNum'[j] = votedNum[j]
              /\ boot'[j] = boot[j]
<1>1. DiskSurvives
  BY SMT DEF VotesSurviveRestart, Restart, TypeOK
<1>2. Recovered(i) = disk[i]
  BY <1>1 DEF Recovered
<1>3. disk' = disk
  BY <1>2 DEF Restart, TypeOK
<1> QED
  BY <1>2, <1>3 DEF Restart, TypeOK

\* Steps that give no vote, and leave terms and disks as they are.
LEMMA CountingVotes ==
  ASSUME TypeOK,
         \/ \E m \in requestVoteReply : VoteReplyCounted(m) \/ BecomeLeader(m)
         \/ \E m \in requestVoteArgs : RefuseExpiredVote(m)
  PROVE  /\ currentTerm' = currentTerm /\ votedFor' = votedFor
         /\ voteRecord' = voteRecord /\ boot' = boot
         /\ \A i \in Server :
              \/ disk'[i] = disk[i]
              \/ disk'[i].term = currentTerm'[i] /\ disk'[i].votedFor = votedFor'[i]
<1>1. ASSUME NEW m \in requestVoteReply, VoteReplyCounted(m) \/ BecomeLeader(m)
      PROVE  /\ currentTerm' = currentTerm /\ votedFor' = votedFor
             /\ voteRecord' = voteRecord /\ boot' = boot
             /\ disk' = disk \/ (m.caller \in Server /\ Persist(m.caller))
  BY <1>1 DEF VoteReplyCounted, BecomeLeader, VoteReplyArrives, TypeOK, RequestVoteReply
<1>2. ASSUME NEW m \in requestVoteArgs, RefuseExpiredVote(m)
      PROVE  /\ currentTerm' = currentTerm /\ votedFor' = votedFor
             /\ voteRecord' = voteRecord /\ boot' = boot
             /\ disk' = disk \/ (m.callee \in Server /\ Persist(m.callee))
  BY <1>2 DEF RefuseExpiredVote, electionVars, TypeOK, RequestVoteArgs
<1>3. ASSUME NEW i \in Server, Persist(i), NEW j \in Server
      PROVE  \/ disk'[j] = disk[j]
             \/ disk'[j].term = currentTerm'[j] /\ disk'[j].votedFor = votedFor'[j]
  BY <1>3, PersistWrites
<1> QED
  BY <1>1, <1>2, <1>3

-----------------------------------------------------------------------------
\* Votes are remembered, and never changed

LEMMA TermsAreNumbers == Term \subseteq Int
BY SMT DEF Term

LEMMA TermsOfServers ==
  ASSUME TypeOK, NEW j \in Server
  PROVE  /\ currentTerm[j] \in Term /\ currentTerm[j] \in Int
         /\ disk[j].term \in Term /\ disk[j].term \in Int
<1>1. currentTerm[j] \in Term /\ disk[j].term \in Term
  BY DEF TypeOK, Saved
<1> QED
  BY <1>1, TermsAreNumbers, Zenon

LEMMA TermsOfServersNext ==
  ASSUME TypeOK', NEW j \in Server
  PROVE  /\ currentTerm'[j] \in Term /\ currentTerm'[j] \in Int
         /\ disk'[j].term \in Term /\ disk'[j].term \in Int
<1>1. currentTerm'[j] \in Term /\ disk'[j].term \in Term
  BY DEF TypeOK, Saved
<1> QED
  BY <1>1, TermsAreNumbers, Zenon

\* What a later term, or a vote in this or a later term, does to the record.
LEMMA MatchesLater ==
  ASSUME NEW record, NEW a \in Term, NEW b \in Term, NEW vote,
         RecordMatches(record, a, vote), b > a
  PROVE  RecordMatches(record, b, NoVote)
BY TermsAreNumbers, SMT DEF RecordMatches

LEMMA MatchesVote ==
  ASSUME NEW record \in [Term -> Vote], NEW a \in Term, NEW b \in Term, NEW vote, NEW new,
         RecordMatches(record, a, vote), b >= a
  PROVE  RecordMatches([record EXCEPT ![b] = new], b, new)
<1>1. [record EXCEPT ![b] = new][b] = new
  OBVIOUS
<1>2. ASSUME NEW t \in Term, t > b PROVE [record EXCEPT ![b] = new][t] = NoVote
  <2>1. t > a /\ t # b
    BY <1>2, TermsAreNumbers, SMT
  <2>2. record[t] = NoVote
    BY <2>1 DEF RecordMatches
  <2> QED
    BY <2>1, <2>2, Zenon
<1> QED
  BY <1>1, <1>2, Zenon DEF RecordMatches

\* The memory and the disk of one server agree with the record.
Remembers(j) == /\ RecordMatches(voteRecord[j], currentTerm[j], votedFor[j])
                /\ disk[j].term <= currentTerm[j]
                /\ RecordMatches(voteRecord[j], disk[j].term, disk[j].votedFor)

\* It is enough to look at the memory if the disk is the memory.
LEMMA RemembersPersisted ==
  ASSUME NEW j \in Server, TypeOK',
         RecordMatches(voteRecord'[j], currentTerm'[j], votedFor'[j]),
         disk'[j].term = currentTerm'[j], disk'[j].votedFor = votedFor'[j]
  PROVE  Remembers(j)'
<1>1. disk'[j].term <= currentTerm'[j]
  <2>1. disk'[j].term \in Int
    BY TermsOfServersNext
  <2> QED
    BY <2>1, SMT
<1> QED
  BY <1>1, Zenon DEF Remembers

LEMMA RemembersQuiet ==
  ASSUME TypeOK, TypeOK', NEW i \in Server, NEW j \in Server, Remembers(j), QuietStep(i)
  PROVE  Remembers(j)'
<1>1. voteRecord' = voteRecord
  BY DEF QuietStep
<1>2. /\ currentTerm[j] \in Term /\ currentTerm'[j] \in Term /\ disk[j].term \in Term
      /\ currentTerm[j] \in Int /\ currentTerm'[j] \in Int /\ disk[j].term \in Int
  BY TermsOfServers, TermsOfServersNext
<1>3. CASE j # i
  BY <1>1, <1>3 DEF QuietStep, Remembers
<1>4. CASE j = i
  <2>1. \/ currentTerm'[i] = currentTerm[i] /\ votedFor'[i] = votedFor[i]
        \/ currentTerm'[i] > currentTerm[i] /\ votedFor'[i] = NoVote
    BY DEF QuietStep
  <2>2. RecordMatches(voteRecord'[i], currentTerm'[i], votedFor'[i])
    <3>1. CASE currentTerm'[i] > currentTerm[i] /\ votedFor'[i] = NoVote
      BY <1>1, <1>2, <1>4, <3>1, MatchesLater DEF Remembers
    <3> QED
      BY <1>1, <1>4, <2>1, <3>1, Zenon DEF Remembers
  <2>3. CASE disk'[i] = disk[i]
    <3>1. disk'[i].term <= currentTerm'[i]
      <4>1. disk[i].term <= currentTerm[i]
        BY <1>4 DEF Remembers
      <4> QED
        BY <1>2, <1>4, <2>1, <2>3, <4>1, SMT
    <3> QED
      BY <1>1, <1>4, <2>2, <2>3, <3>1, Zenon DEF Remembers
  <2>4. CASE disk'[i].term = currentTerm'[i] /\ disk'[i].votedFor = votedFor'[i]
    BY <1>4, <2>2, <2>4, RemembersPersisted
  <2> QED
    BY <2>3, <2>4 DEF QuietStep
<1> QED
  BY <1>3, <1>4

LEMMA RemembersElection ==
  ASSUME TypeOK, TypeOK', NEW i \in Server, NEW j \in Server, Remembers(j), DoElection(i)
  PROVE  Remembers(j)'
<1>1. /\ currentTerm[i] + 1 \in Term
      /\ currentTerm'[i] = currentTerm[i] + 1 /\ votedFor'[i] = i
      /\ voteRecord'[i] = [voteRecord[i] EXCEPT ![currentTerm[i] + 1] = i]
      /\ disk'[i].term = currentTerm'[i] /\ disk'[i].votedFor = votedFor'[i]
      /\ j # i => /\ currentTerm'[j] = currentTerm[j] /\ votedFor'[j] = votedFor[j]
                  /\ voteRecord'[j] = voteRecord[j] /\ disk'[j] = disk[j]
  BY DoElectionVotes
<1>2. CASE j # i
  BY <1>1, <1>2, Zenon DEF Remembers
<1>3. CASE j = i
  <2>1. currentTerm[i] \in Term /\ voteRecord[i] \in [Term -> Vote]
        /\ currentTerm[i] + 1 >= currentTerm[i]
    <3>1. currentTerm[i] \in Int /\ currentTerm[i] \in Term
      BY TermsOfServers
    <3>2. currentTerm[i] + 1 >= currentTerm[i]
      BY <3>1, SMT
    <3> QED
      BY <3>1, <3>2 DEF TypeOK
  <2>2. RecordMatches(voteRecord'[i], currentTerm'[i], votedFor'[i])
    BY <1>1, <1>3, <2>1, MatchesVote DEF Remembers
  <2> QED
    BY <1>1, <1>3, <2>2, RemembersPersisted
<1> QED
  BY <1>2, <1>3

LEMMA RemembersRequest ==
  ASSUME TypeOK, TypeOK', NEW m \in requestVoteArgs, NEW j \in Server, Remembers(j),
         RequestVote(m)
  PROVE  Remembers(j)'
<1> DEFINE i == m.callee
<1>1. /\ i \in Server /\ m.term \in Term /\ m.term >= currentTerm[i]
      /\ currentTerm'[i] = m.term
      /\ votedFor'[i] = IF MayGrant(i, m) THEN m.caller ELSE VoteInTerm(i, m.term)
      /\ voteRecord'[i] = IF MayGrant(i, m)
                          THEN [voteRecord[i] EXCEPT ![m.term] = m.caller]
                          ELSE voteRecord[i]
      /\ disk'[i].term = currentTerm'[i] /\ disk'[i].votedFor = votedFor'[i]
      /\ j # i => /\ currentTerm'[j] = currentTerm[j] /\ votedFor'[j] = votedFor[j]
                  /\ voteRecord'[j] = voteRecord[j] /\ disk'[j] = disk[j]
  BY RequestVoteVotes
<1>2. CASE j # i
  BY <1>1, <1>2, Zenon DEF Remembers
<1>3. CASE j = i
  <2>1. currentTerm[i] \in Term /\ voteRecord[i] \in [Term -> Vote]
    BY <1>1 DEF TypeOK
  <2>2. RecordMatches(voteRecord'[i], currentTerm'[i], votedFor'[i])
    <3>1. CASE MayGrant(i, m)
      BY <1>1, <1>3, <2>1, <3>1, MatchesVote DEF Remembers
    <3>2. CASE ~MayGrant(i, m) /\ m.term > currentTerm[i]
      <4>1. votedFor'[i] = NoVote
        BY <1>1, <3>2 DEF VoteInTerm
      <4> QED
        BY <1>1, <1>3, <2>1, <3>2, <4>1, MatchesLater DEF Remembers
    <3>3. CASE ~MayGrant(i, m) /\ ~(m.term > currentTerm[i])
      <4>1. m.term = currentTerm[i] /\ votedFor'[i] = votedFor[i]
        <5>1. currentTerm[i] \in Int /\ m.term \in Int
          BY <1>1, TermsOfServers, TermsAreNumbers
        <5> QED
          BY <1>1, <3>3, <5>1 DEF VoteInTerm
      <4> QED
        BY <1>1, <1>3, <3>3, <4>1, Zenon DEF Remembers
    <3> QED
      BY <3>1, <3>2, <3>3
  <2> QED
    BY <1>1, <1>3, <2>2, RemembersPersisted
<1> QED
  BY <1>2, <1>3

LEMMA RemembersRest ==
  ASSUME VotesSurviveRestart, TypeOK, TypeOK', NEW j \in Server, Remembers(j),
         \/ \E i \in Server : Restart(i)
         \/ \E m \in requestVoteReply : VoteReplyCounted(m) \/ BecomeLeader(m)
         \/ \E m \in requestVoteArgs : RefuseExpiredVote(m)
  PROVE  Remembers(j)'
<1>1. ASSUME NEW i \in Server, Restart(i) PROVE Remembers(j)'
  <2>1. /\ voteRecord' = voteRecord /\ disk' = disk
        /\ currentTerm'[i] = disk[i].term /\ votedFor'[i] = disk[i].votedFor
        /\ j # i => currentTerm'[j] = currentTerm[j] /\ votedFor'[j] = votedFor[j]
    BY <1>1, RestartVotes
  <2>2. disk[i].term <= disk[i].term
    <3>1. disk[i].term \in Int
      BY TermsOfServers
    <3> QED
      BY <3>1, SMT
  <2> QED
    BY <2>1, <2>2, Zenon DEF Remembers
<1>2. CASE \/ \E m \in requestVoteReply : VoteReplyCounted(m) \/ BecomeLeader(m)
           \/ \E m \in requestVoteArgs : RefuseExpiredVote(m)
  <2>1. /\ currentTerm' = currentTerm /\ votedFor' = votedFor /\ voteRecord' = voteRecord
        /\ \/ disk'[j] = disk[j]
           \/ disk'[j].term = currentTerm'[j] /\ disk'[j].votedFor = votedFor'[j]
    BY <1>2, CountingVotes
  <2>2. CASE disk'[j] = disk[j]
    BY <2>1, <2>2, Zenon DEF Remembers
  <2>3. CASE disk'[j].term = currentTerm'[j] /\ disk'[j].votedFor = votedFor'[j]
    BY <2>1, <2>3, RemembersPersisted DEF Remembers
  <2> QED
    BY <2>1, <2>2, <2>3
<1> QED
  BY <1>1, <1>2

LEMMA VotesRememberedNext ==
  ASSUME VotesSurviveRestart, TypeOK, TypeOK', VotesRemembered, [Next]_vars
  PROVE  VotesRemembered'
<1>1. ASSUME NEW j \in Server PROVE Remembers(j)'
  <2>1. Remembers(j)
    BY DEF VotesRemembered, Remembers
  <2> QED
    BY <2>1, Steps, RemembersQuiet, RemembersElection, RemembersRequest, RemembersRest
<1> QED
  BY <1>1 DEF VotesRemembered, Remembers

\* No step changes a vote that was given.
LEMMA VoteIsFinalStep ==
  ASSUME VotesSurviveRestart, TypeOK, VotesRemembered, [Next]_vars,
         NEW j \in Server, NEW t \in Term, voteRecord[j][t] # NoVote
  PROVE  voteRecord'[j][t] = voteRecord[j][t]
<1>1. /\ voteRecord[j][currentTerm[j]] = votedFor[j]
      /\ ~(t > currentTerm[j])
      /\ currentTerm[j] \in Int /\ t \in Int /\ voteRecord[j] \in [Term -> Vote]
  <2>1. currentTerm[j] \in Int /\ t \in Int
    BY TermsOfServers, TermsAreNumbers
  <2> QED
    BY <2>1 DEF VotesRemembered, RecordMatches, TypeOK
<1>2. ASSUME NEW i \in Server, QuietStep(i) PROVE voteRecord' = voteRecord
  BY <1>2 DEF QuietStep
<1>3. ASSUME NEW i \in Server, Restart(i) PROVE voteRecord' = voteRecord
  BY <1>3, RestartVotes
<1>4. ASSUME NEW i \in Server, DoElection(i) PROVE voteRecord'[j][t] = voteRecord[j][t]
  <2>1. /\ voteRecord'[i] = [voteRecord[i] EXCEPT ![currentTerm[i] + 1] = i]
        /\ j # i => voteRecord'[j] = voteRecord[j]
    BY <1>4, DoElectionVotes
  <2>2. t # currentTerm[j] + 1
    BY <1>1, SMT
  <2> QED
    BY <1>1, <2>1, <2>2
<1>5. ASSUME NEW m \in requestVoteArgs, RequestVote(m)
      PROVE  voteRecord'[j][t] = voteRecord[j][t]
  <2> DEFINE i == m.callee
  <2>1. /\ m.term \in Term /\ m.term >= currentTerm[i]
        /\ voteRecord'[i] = IF MayGrant(i, m)
                            THEN [voteRecord[i] EXCEPT ![m.term] = m.caller]
                            ELSE voteRecord[i]
        /\ j # i => voteRecord'[j] = voteRecord[j]
    BY <1>5, RequestVoteVotes
  <2>2. CASE j = i /\ t = m.term /\ MayGrant(i, m)
    <3>1. m.term = currentTerm[j]
      BY <1>1, <2>1, <2>2, SMT
    <3>2. VoteInTerm(j, m.term) = votedFor[j]
      BY <1>1, <3>1 DEF VoteInTerm
    <3>3. votedFor[j] = m.caller
      BY <1>1, <2>2, <3>1, <3>2 DEF MayGrant
    <3> QED
      BY <1>1, <2>1, <2>2, <3>1, <3>3
  <2>3. CASE ~(j = i /\ t = m.term /\ MayGrant(i, m))
    <3> HIDE DEF i
    <3> QED
      BY <1>1, <2>1, <2>3
  <2> QED
    BY <2>2, <2>3
<1>6. CASE \/ \E m \in requestVoteReply : VoteReplyCounted(m) \/ BecomeLeader(m)
           \/ \E m \in requestVoteArgs : RefuseExpiredVote(m)
  BY <1>6, CountingVotes
<1> QED
  BY <1>2, <1>3, <1>4, <1>5, <1>6, Steps

LEMMA VotesRememberedInit == Init => VotesRemembered
BY ZeroTerm, SMT DEF Init, VotesRemembered, RecordMatches

-----------------------------------------------------------------------------
\* Vote calls are genuine, and made once

\* Within one life of a server its term only grows.
LEMMA TermsGrow ==
  ASSUME VotesSurviveRestart, TypeOK, TypeOK', [Next]_vars, NEW j \in Server
  PROVE  /\ boot'[j] >= boot[j]
         /\ boot'[j] = boot[j] => currentTerm'[j] >= currentTerm[j]
<1>1. boot[j] \in Nat /\ currentTerm[j] \in Int /\ currentTerm'[j] \in Int
  BY TermsOfServers, TermsOfServersNext DEF TypeOK
<1>2. ASSUME NEW i \in Server, QuietStep(i)
      PROVE  boot'[j] = boot[j] /\ currentTerm'[j] >= currentTerm[j]
  <2>1. boot'[j] = boot[j]
    BY <1>2 DEF QuietStep
  <2>2. currentTerm'[j] = currentTerm[j] \/ currentTerm'[j] > currentTerm[j]
    BY <1>2 DEF QuietStep
  <2> QED
    BY <1>1, <2>1, <2>2, SMT
<1>3. ASSUME NEW i \in Server, DoElection(i)
      PROVE  boot'[j] = boot[j] /\ currentTerm'[j] >= currentTerm[j]
  <2>1. boot' = boot /\ (currentTerm'[j] = currentTerm[j] + 1 \/ currentTerm'[j] = currentTerm[j])
    BY <1>3, DoElectionVotes
  <2> QED
    BY <1>1, <2>1, SMT
<1>4. ASSUME NEW i \in Server, Restart(i)
      PROVE  \/ boot'[j] = boot[j] + 1
             \/ boot'[j] = boot[j] /\ currentTerm'[j] = currentTerm[j]
  BY <1>4, RestartVotes
<1>5. ASSUME NEW m \in requestVoteArgs, RequestVote(m)
      PROVE  boot'[j] = boot[j] /\ currentTerm'[j] >= currentTerm[j]
  <2>1. /\ boot' = boot
        /\ \/ currentTerm'[j] = currentTerm[j]
           \/ j = m.callee /\ currentTerm'[j] = m.term /\ m.term >= currentTerm[j]
    BY <1>5, RequestVoteVotes
  <2> QED
    BY <1>1, <2>1, SMT
<1>6. CASE \/ \E m \in requestVoteReply : VoteReplyCounted(m) \/ BecomeLeader(m)
           \/ \E m \in requestVoteArgs : RefuseExpiredVote(m)
  <2>1. boot' = boot /\ currentTerm' = currentTerm
    BY <1>6, CountingVotes
  <2> QED
    BY <1>1, <2>1, SMT
<1>7. \/ boot'[j] = boot[j] /\ currentTerm'[j] >= currentTerm[j]
      \/ boot'[j] = boot[j] + 1
  <2>1. currentTerm[j] >= currentTerm[j]
    BY <1>1, SMT
  <2> QED
    BY <1>2, <1>3, <1>4, <1>5, <1>6, <2>1, Steps, CountingVotes, Zenon
<1> QED
  BY <1>1, <1>7, SMT

\* A call that was genuine stays so.
LEMMA CallStaysGenuine ==
  ASSUME VotesSurviveRestart, TypeOK, TypeOK', VotesRemembered, [Next]_vars,
         NEW caller \in Server, NEW callee \in Server, NEW term \in Term,
         NEW callBoot \in Nat, CallIsGenuine(caller, callee, term, callBoot)
  PROVE  CallIsGenuine(caller, callee, term, callBoot)'
<1>1. voteRecord'[caller][term] = caller
  BY VoteIsFinalStep, NoVoteAssumption DEF CallIsGenuine
<1>2. /\ boot[caller] \in Nat /\ boot'[caller] \in Nat /\ term \in Int
      /\ currentTerm[caller] \in Int /\ currentTerm'[caller] \in Int
  BY TermsOfServers, TermsOfServersNext, TermsAreNumbers DEF TypeOK
<1>3. /\ boot'[caller] >= boot[caller]
      /\ boot'[caller] = boot[caller] => currentTerm'[caller] >= currentTerm[caller]
  BY TermsGrow
<1>4. callBoot <= boot'[caller]
  BY <1>2, <1>3, SMT DEF CallIsGenuine
<1>5. callBoot = boot'[caller] => term <= currentTerm'[caller]
  BY <1>2, <1>3, SMT DEF CallIsGenuine
<1> QED
  BY <1>1, <1>4, <1>5 DEF CallIsGenuine

\* What a step does to the calls: end some, open those of one election, or
\* answer one.
Opened(i) == {[caller |-> i, callee |-> j, term |-> currentTerm[i] + 1,
               lastLogIndex |-> Len(logs[i]), lastLogTerm |-> LastTerm(logs[i]),
               boot |-> boot[i]] : j \in Server \ {i}}
Reply(m, term, granted) ==
  [caller |-> m.caller, callee |-> m.callee, callTerm |-> m.term,
   term |-> term, granted |-> granted, boot |-> m.boot]

CallsEnd == requestVoteArgs' \subseteq requestVoteArgs
            /\ requestVoteReply' \subseteq requestVoteReply
CallsOpen(i) == /\ requestVoteArgs' = requestVoteArgs \cup Opened(i)
                /\ requestVoteReply' = requestVoteReply
CallAnswered(m, term, granted) ==
  /\ requestVoteArgs' = requestVoteArgs \ {m}
  /\ requestVoteReply' = requestVoteReply \cup {Reply(m, term, granted)}

LEMMA CallSteps ==
  ASSUME TypeOK, [Next]_vars
  PROVE  \/ CallsEnd
         \/ \E i \in Server : DoElection(i) /\ CallsOpen(i)
         \/ \E m \in requestVoteArgs :
              \/ CallAnswered(m, currentTerm[m.callee], FALSE)
              \/ RequestVote(m) /\ CallAnswered(m, m.term, MayGrant(m.callee, m))
<1>1. ASSUME NEW i \in Server, QuietStep(i) \/ Restart(i) PROVE CallsEnd
  BY <1>1 DEF QuietStep, Restart, voteCalls, CallsEnd
<1>2. ASSUME NEW i \in Server, DoElection(i) PROVE CallsOpen(i)
  BY <1>2, Zenon DEF DoElection, CallsOpen, Opened
<1>3. ASSUME NEW m \in requestVoteReply, VoteReplyCounted(m) \/ BecomeLeader(m) PROVE CallsEnd
  BY <1>3 DEF VoteReplyCounted, BecomeLeader, VoteReplyArrives, CallsEnd
<1>4. ASSUME NEW m \in requestVoteArgs, RefuseExpiredVote(m)
      PROVE  CallAnswered(m, currentTerm[m.callee], FALSE)
  BY <1>4, Zenon DEF RefuseExpiredVote, AnswerVote, CallAnswered, Reply
<1>5. ASSUME NEW m \in requestVoteArgs, RequestVote(m)
      PROVE  CallAnswered(m, m.term, MayGrant(m.callee, m))
  BY <1>5, Zenon DEF RequestVote, AnswerVote, CallAnswered, Reply
<1> QED
  BY <1>1, <1>2, <1>3, <1>4, <1>5, Steps, Zenon

LEMMA VoteCallsGenuineNext ==
  ASSUME VotesSurviveRestart, TypeOK, TypeOK', VotesRemembered, VoteCallsGenuine,
         [Next]_vars
  PROVE  VoteCallsGenuine'
<1>1. ASSUME NEW m \in requestVoteArgs
      PROVE  /\ CallIsGenuine(m.caller, m.callee, m.term, m.boot)'
             /\ m.caller \in Server /\ m.callee \in Server /\ m.term \in Term
  <2>1. m.caller \in Server /\ m.callee \in Server /\ m.term \in Term /\ m.boot \in Nat
    BY DEF TypeOK, RequestVoteArgs
  <2>2. CallIsGenuine(m.caller, m.callee, m.term, m.boot)
    BY DEF VoteCallsGenuine
  <2> QED
    BY <2>1, <2>2, CallStaysGenuine
<1>2. ASSUME NEW r \in requestVoteReply
      PROVE  /\ CallIsGenuine(r.caller, r.callee, r.callTerm, r.boot)'
             /\ r.granted => r.term = r.callTerm /\ voteRecord'[r.callee][r.term] = r.caller
  <2>1. /\ r.caller \in Server /\ r.callee \in Server /\ r.callTerm \in Term
        /\ r.term \in Term /\ r.boot \in Nat
    BY DEF TypeOK, RequestVoteReply
  <2>2. CallIsGenuine(r.caller, r.callee, r.callTerm, r.boot)
        /\ (r.granted => r.term = r.callTerm /\ voteRecord[r.callee][r.term] = r.caller)
    BY DEF VoteCallsGenuine
  <2> QED
    BY <2>1, <2>2, CallStaysGenuine, VoteIsFinalStep, NoVoteAssumption
<1>3. CASE CallsEnd
  BY <1>1, <1>2, <1>3 DEF CallsEnd, VoteCallsGenuine
<1>4. ASSUME NEW i \in Server, DoElection(i), CallsOpen(i) PROVE VoteCallsGenuine'
  <2>1. ASSUME NEW m \in Opened(i)
        PROVE  CallIsGenuine(m.caller, m.callee, m.term, m.boot)'
    <3>1. /\ m.caller = i /\ m.callee # i /\ m.term = currentTerm[i] + 1 /\ m.boot = boot[i]
      BY DEF Opened
    <3>2. /\ voteRecord'[i][currentTerm[i] + 1] = i
          /\ currentTerm'[i] = currentTerm[i] + 1 /\ boot' = boot
      <4>1. /\ currentTerm[i] + 1 \in Term
            /\ currentTerm'[i] = currentTerm[i] + 1 /\ boot' = boot
            /\ voteRecord'[i] = [voteRecord[i] EXCEPT ![currentTerm[i] + 1] = i]
        BY <1>4, DoElectionVotes
      <4>2. voteRecord[i] \in [Term -> Vote]
        BY DEF TypeOK
      <4> QED
        BY <4>1, <4>2
    <3>3. boot[i] \in Nat /\ currentTerm'[i] \in Int
      BY TermsOfServersNext DEF TypeOK
    <3>4. boot[i] <= boot'[i] /\ currentTerm[i] + 1 <= currentTerm'[i]
      BY <3>2, <3>3, SMT
    <3> QED
      BY <3>1, <3>2, <3>4 DEF CallIsGenuine
  <2> QED
    BY <1>1, <1>2, <1>4, <2>1 DEF CallsOpen, VoteCallsGenuine
<1>5. ASSUME NEW m \in requestVoteArgs, NEW term, NEW granted \in BOOLEAN,
             CallAnswered(m, term, granted),
             granted => term = m.term /\ voteRecord'[m.callee][m.term] = m.caller
      PROVE  VoteCallsGenuine'
  <2> DEFINE s == Reply(m, term, granted)
  <2>1. /\ s.caller = m.caller /\ s.callee = m.callee /\ s.callTerm = m.term
        /\ s.term = term /\ s.granted = granted /\ s.boot = m.boot
    BY DEF Reply
  <2> HIDE DEF s
  <2>2. /\ CallIsGenuine(s.caller, s.callee, s.callTerm, s.boot)'
        /\ s.granted => s.term = s.callTerm /\ voteRecord'[s.callee][s.term] = s.caller
    BY <1>1, <1>5, <2>1
  <2>3. requestVoteArgs' \subseteq requestVoteArgs
        /\ requestVoteReply' = requestVoteReply \cup {s}
    BY <1>5 DEF CallAnswered, s
  <2> QED
    BY <1>1, <1>2, <2>2, <2>3, Zenon DEF VoteCallsGenuine
<1>6. ASSUME NEW m \in requestVoteArgs, RequestVote(m), MayGrant(m.callee, m)
      PROVE  voteRecord'[m.callee][m.term] = m.caller
  <2>1. /\ m.callee \in Server /\ m.term \in Term
        /\ voteRecord'[m.callee] = [voteRecord[m.callee] EXCEPT ![m.term] = m.caller]
    BY <1>6, RequestVoteVotes
  <2>2. voteRecord[m.callee] \in [Term -> Vote]
    BY <2>1 DEF TypeOK
  <2> QED
    BY <2>1, <2>2
<1>7. ASSUME NEW m \in requestVoteArgs, RequestVote(m),
             CallAnswered(m, m.term, MayGrant(m.callee, m))
      PROVE  VoteCallsGenuine'
  <2>1. MayGrant(m.callee, m) \in BOOLEAN
    BY DEF MayGrant
  <2> QED
    BY <1>5, <1>6, <1>7, <2>1
<1>8. ASSUME NEW m \in requestVoteArgs, CallAnswered(m, currentTerm[m.callee], FALSE)
      PROVE  VoteCallsGenuine'
  BY <1>5, <1>8
<1> QED
  BY <1>3, <1>4, <1>7, <1>8, CallSteps

LEMMA AskedOnceNext ==
  ASSUME TypeOK, VoteCallsGenuine, AskedOnce, [Next]_vars
  PROVE  AskedOnce'
<1>1. CASE CallsEnd
  BY <1>1 DEF CallsEnd, AskedOnce
<1>2. ASSUME NEW i \in Server, DoElection(i), CallsOpen(i) PROVE AskedOnce'
  <2>1. currentTerm[i] \in Int
    BY TermsOfServers
  <2>2. ASSUME NEW m \in requestVoteArgs, m.caller = i, m.boot = boot[i]
        PROVE  m.term # currentTerm[i] + 1
    <3>1. m.term <= currentTerm[i] /\ m.term \in Term
      BY <2>2 DEF VoteCallsGenuine, CallIsGenuine, TypeOK, RequestVoteArgs
    <3> QED
      BY <2>1, <3>1, TermsAreNumbers, SMT
  <2>3. ASSUME NEW r \in requestVoteReply, r.caller = i, r.boot = boot[i]
        PROVE  r.callTerm # currentTerm[i] + 1
    <3>1. r.callTerm <= currentTerm[i] /\ r.callTerm \in Term
      BY <2>3 DEF VoteCallsGenuine, CallIsGenuine, TypeOK, RequestVoteReply
    <3> QED
      BY <2>1, <3>1, TermsAreNumbers, SMT
  <2>4. ASSUME NEW m \in Opened(i)
        PROVE  m.caller = i /\ m.term = currentTerm[i] + 1 /\ m.boot = boot[i]
    BY DEF Opened
  <2>5. ASSUME NEW m \in Opened(i), NEW n \in Opened(i), m.callee = n.callee PROVE m = n
    BY <2>5 DEF Opened
  <2> HIDE DEF Opened
  <2>6. ASSUME NEW m \in requestVoteArgs', NEW n \in requestVoteArgs', SameRequest(m, n)
        PROVE  m = n
    <3>1. m \in requestVoteArgs \cup Opened(i) /\ n \in requestVoteArgs \cup Opened(i)
      BY <1>2, <2>6 DEF CallsOpen
    <3> QED
      BY <2>2, <2>4, <2>5, <2>6, <3>1 DEF AskedOnce, SameRequest
  <2>7. ASSUME NEW m \in requestVoteArgs', NEW r \in requestVoteReply' PROVE ~Answers(r, m)
    <3>1. m \in requestVoteArgs \cup Opened(i) /\ r \in requestVoteReply
      BY <1>2, <2>7 DEF CallsOpen
    <3> QED
      BY <2>3, <2>4, <3>1 DEF AskedOnce, Answers
  <2> QED
    BY <1>2, <2>6, <2>7 DEF AskedOnce, CallsOpen
<1>3. ASSUME NEW m \in requestVoteArgs, NEW term, NEW granted, CallAnswered(m, term, granted)
      PROVE  AskedOnce'
  <2> DEFINE s == Reply(m, term, granted)
  <2>1. s.caller = m.caller /\ s.callee = m.callee /\ s.callTerm = m.term /\ s.boot = m.boot
    BY DEF Reply
  <2>2. requestVoteArgs' = requestVoteArgs \ {m}
        /\ requestVoteReply' = requestVoteReply \cup {s}
    BY <1>3 DEF CallAnswered
  <2> HIDE DEF s
  <2>3. ASSUME NEW n \in requestVoteArgs \ {m} PROVE ~Answers(s, n)
    BY <2>1 DEF AskedOnce, Answers, SameRequest
  <2>4. ASSUME NEW r \in requestVoteReply PROVE ~SameCall(r, s) /\ ~SameCall(s, r)
    BY <2>1 DEF AskedOnce, Answers, SameCall
  <2> QED
    BY <2>2, <2>3, <2>4 DEF AskedOnce
<1> QED
  BY <1>1, <1>2, <1>3, CallSteps

LEMMA CallsInit == Init => VoteCallsGenuine /\ AskedOnce
BY DEF Init, VoteCallsGenuine, AskedOnce

-----------------------------------------------------------------------------
\* Candidates count honestly

LEMMA VoterSets ==
  ASSUME NEW i, NEW t, NEW W
  PROVE  /\ Voters(i, t) \subseteq Server
         /\ IsFiniteSet(Voters(i, t) \ W)
         /\ Cardinality(Voters(i, t) \ W) \in Nat
<1>1. Voters(i, t) \subseteq Server
  BY DEF Voters
<1>2. IsFiniteSet(Voters(i, t) \ W)
  BY <1>1, ServerAssumption, FS_Subset
<1> QED
  BY <1>1, <1>2, FS_CardinalityType

LEMMA VoterSetsNext ==
  ASSUME NEW i, NEW t, NEW W
  PROVE  /\ Voters(i, t)' \subseteq Server
         /\ IsFiniteSet(Voters(i, t)' \ W)
         /\ Cardinality(Voters(i, t)' \ W) \in Nat
<1>1. Voters(i, t)' \subseteq Server
  BY DEF Voters
<1>2. IsFiniteSet(Voters(i, t)' \ W)
  BY <1>1, ServerAssumption, FS_Subset
<1> QED
  BY <1>1, <1>2, FS_CardinalityType

LEMMA VotersGrow ==
  ASSUME VotesSurviveRestart, TypeOK, VotesRemembered, [Next]_vars,
         NEW i \in Server, NEW t \in Term
  PROVE  Voters(i, t) \subseteq Voters(i, t)'
<1>1. ASSUME NEW j \in Server, voteRecord[j][t] = i PROVE voteRecord'[j][t] = i
  BY <1>1, VoteIsFinalStep, NoVoteAssumption
<1> QED
  BY <1>1 DEF Voters

\* As long as a candidate keeps its term and its life, and does not stand
\* again, nobody new is awaited.
LEMMA AwaitedShrinks ==
  ASSUME TypeOK, [Next]_vars, NEW j \in Server,
         currentTerm'[j] = currentTerm[j], boot'[j] = boot[j]
  PROVE  Awaited(j)' \subseteq Awaited(j)
<1>1. CASE CallsEnd
  BY <1>1 DEF CallsEnd, Awaited
<1>2. ASSUME NEW i \in Server, DoElection(i), CallsOpen(i)
      PROVE  Awaited(j)' \subseteq Awaited(j)
  <2>1. i # j
    <3>1. currentTerm'[i] = currentTerm[i] + 1 /\ currentTerm[i] \in Int
      BY <1>2, DoElectionVotes, TermsOfServers
    <3> QED
      BY <3>1, SMT
  <2>2. \A m \in Opened(i) : m.caller = i
    BY DEF Opened
  <2> QED
    BY <1>2, <2>1, <2>2 DEF CallsOpen, Awaited
<1>3. ASSUME NEW m \in requestVoteArgs, NEW term, NEW granted, CallAnswered(m, term, granted)
      PROVE  Awaited(j)' \subseteq Awaited(j)
  <2> DEFINE s == Reply(m, term, granted)
  <2>1. s.caller = m.caller /\ s.callee = m.callee /\ s.callTerm = m.term /\ s.boot = m.boot
    BY DEF Reply
  <2>2. requestVoteArgs' \subseteq requestVoteArgs
        /\ requestVoteReply' = requestVoteReply \cup {s}
    BY <1>3 DEF CallAnswered
  <2> HIDE DEF s
  <2> QED
    BY <2>1, <2>2 DEF Awaited
<1> QED
  BY <1>1, <1>2, <1>3, CallSteps

\* One server's count.
Honest(j) == votedFor[j] = j =>
  votedNum[j] <= Cardinality(Voters(j, currentTerm[j]) \ Awaited(j))

LEMMA HonestKept ==
  ASSUME VotesSurviveRestart, TypeOK, VotesRemembered, [Next]_vars, NEW j \in Server,
         Honest(j), currentTerm'[j] = currentTerm[j], boot'[j] = boot[j],
         votedFor'[j] = votedFor[j], votedNum'[j] = votedNum[j]
  PROVE  Honest(j)'
<1> DEFINE t == currentTerm[j]
           S == Voters(j, t) \ Awaited(j)
           T == Voters(j, t)' \ Awaited(j)'
<1>1. t \in Term /\ votedNum[j] \in Nat
  BY DEF TypeOK
<1>2. S \subseteq T
  BY <1>1, VotersGrow, AwaitedShrinks
<1>3. Cardinality(S) <= Cardinality(T) /\ Cardinality(S) \in Nat /\ Cardinality(T) \in Nat
  BY <1>2, VoterSets, VoterSetsNext, FS_Subset
<1>4. (Voters(j, currentTerm[j]) \ Awaited(j))' = T
  BY DEF Voters
<1> HIDE DEF S, T
<1>5. votedFor[j] = j => votedNum[j] <= Cardinality(S)
  BY DEF Honest, S
<1>6. votedFor[j] = j => votedNum[j] <= Cardinality(T)
  BY <1>1, <1>3, <1>5, SMT
<1> QED
  BY <1>4, <1>6, Zenon DEF Honest

\* A vote that can be counted was given, and is still awaited.
LEMMA VoteToCount ==
  ASSUME TypeOK, VotesRemembered, VoteCallsGenuine,
         NEW m \in requestVoteReply, m.boot = boot[m.caller],
         m.granted, m.term = currentTerm[m.caller]
  PROVE  /\ m.caller \in Server /\ m.callee \in Server
         /\ m.callTerm = currentTerm[m.caller] /\ votedFor[m.caller] = m.caller
         /\ m.callee \in Voters(m.caller, currentTerm[m.caller]) \cap Awaited(m.caller)
         /\ Cardinality(Voters(m.caller, currentTerm[m.caller]) \ Awaited(m.caller)) + 1
              <= Cardinality(Voters(m.caller, currentTerm[m.caller]))
<1> DEFINE i == m.caller
           j == m.callee
           V == Voters(i, currentTerm[i])
           S == V \ Awaited(i)
<1>1. /\ i \in Server /\ j \in Server /\ m.callTerm = currentTerm[i]
      /\ voteRecord[j][currentTerm[i]] = i /\ voteRecord[i][currentTerm[i]] = i
  BY DEF VoteCallsGenuine, CallIsGenuine, TypeOK, RequestVoteReply
<1>2. votedFor[i] = i
  BY <1>1 DEF VotesRemembered, RecordMatches
<1>3. j \in V /\ j \in Awaited(i)
  BY <1>1 DEF Awaited, Voters
<1>4. /\ IsFiniteSet(S) /\ IsFiniteSet(V \ {}) /\ V \ {} = V
      /\ Cardinality(S) \in Nat /\ Cardinality(V \ {}) \in Nat
  BY VoterSets
<1> HIDE DEF V
<1>5. j \notin S /\ S \cup {j} \subseteq V
  BY <1>3
<1> HIDE DEF S, i, j
<1>6. Cardinality(S \cup {j}) = Cardinality(S) + 1
  BY <1>4, <1>5, FS_AddElement
<1>7. Cardinality(S \cup {j}) <= Cardinality(V)
  BY <1>4, <1>5, FS_Subset
<1> QED
  BY <1>1, <1>2, <1>3, <1>6, <1>7 DEF i, j, V, S

\* Once its reply has been read, it is awaited no longer.
LEMMA VoteLeaves ==
  ASSUME TypeOK, VotesRemembered, VoteCallsGenuine, AskedOnce,
         NEW m \in requestVoteReply, VoteReplyArrives(m), currentTerm' = currentTerm,
         m.granted, m.term = currentTerm[m.caller]
  PROVE  Cardinality(Voters(m.caller, currentTerm[m.caller]) \ Awaited(m.caller)) + 1
           <= Cardinality(Voters(m.caller, currentTerm[m.caller]) \ Awaited(m.caller)')
<1> DEFINE i == m.caller
           j == m.callee
           S == Voters(i, currentTerm[i]) \ Awaited(i)
           T == Voters(i, currentTerm[i]) \ Awaited(i)'
<1>1. m.boot = boot[i]
  BY DEF VoteReplyArrives
<1>2. /\ m.callTerm = currentTerm[i]
      /\ j \in Voters(i, currentTerm[i]) /\ j \in Awaited(i)
  BY <1>1, VoteToCount
<1>3. /\ requestVoteArgs' = requestVoteArgs /\ requestVoteReply' = requestVoteReply \ {m}
      /\ boot' = boot
  BY DEF VoteReplyArrives
<1>4. j \notin Awaited(i)'
  <2>1. ASSUME NEW n \in requestVoteArgs, n.caller = i, n.callee = j,
               n.term = currentTerm[i], n.boot = boot[i]
        PROVE  FALSE
    BY <1>1, <1>2, <2>1 DEF AskedOnce, Answers
  <2>2. ASSUME NEW r \in requestVoteReply \ {m}, r.caller = i, r.callee = j,
               r.callTerm = currentTerm[i], r.boot = boot[i]
        PROVE  FALSE
    BY <1>1, <1>2, <2>2 DEF AskedOnce, SameCall
  <2> HIDE DEF i, j
  <2> QED
    BY <1>3, <2>1, <2>2 DEF Awaited
<1>5. Awaited(i)' \subseteq Awaited(i)
  BY <1>3 DEF Awaited
<1>6. j \notin S /\ S \cup {j} \subseteq T
  BY <1>2, <1>4, <1>5
<1>7. IsFiniteSet(S) /\ IsFiniteSet(T)
  BY VoterSets
<1> HIDE DEF S, T, i, j
<1>8. Cardinality(S \cup {j}) = Cardinality(S) + 1
  BY <1>6, <1>7, FS_AddElement
<1>9. Cardinality(S \cup {j}) <= Cardinality(T)
  BY <1>6, <1>7, FS_Subset
<1> QED
  BY <1>8, <1>9 DEF i, S, T

\* So it adds to the votes that were counted rightly.
LEMMA VoteArrives ==
  ASSUME TypeOK, VotesRemembered, VoteCallsGenuine, AskedOnce, CountIsHonest,
         NEW m \in requestVoteReply, VoteReplyArrives(m), currentTerm' = currentTerm,
         m.granted, m.term = currentTerm[m.caller]
  PROVE  votedNum[m.caller] + 1
           <= Cardinality(Voters(m.caller, currentTerm[m.caller]) \ Awaited(m.caller)')
<1> DEFINE i == m.caller
           s == Cardinality(Voters(i, currentTerm[i]) \ Awaited(i))
           t == Cardinality(Voters(i, currentTerm[i]) \ Awaited(i)')
<1>1. i \in Server /\ votedFor[i] = i
  BY VoteToCount DEF VoteReplyArrives
<1>2. votedNum[i] <= s /\ votedNum[i] \in Nat
  BY <1>1 DEF CountIsHonest, TypeOK
<1>3. s + 1 <= t /\ s \in Nat /\ t \in Nat
  BY VoteLeaves, VoterSets
<1> HIDE DEF i, s, t
<1>4. votedNum[i] + 1 <= t
  BY <1>2, <1>3, SMT
<1> QED
  BY <1>4 DEF i, t

LEMMA HonestQuiet ==
  ASSUME VotesSurviveRestart, TypeOK, VotesRemembered, [Next]_vars, NEW j \in Server,
         Honest(j), NEW i \in Server, QuietStep(i)
  PROVE  Honest(j)'
<1>1. boot'[j] = boot[j] /\ votedNum'[j] = votedNum[j]
  BY DEF QuietStep
<1>2. CASE currentTerm'[j] = currentTerm[j] /\ votedFor'[j] = votedFor[j]
  BY <1>1, <1>2, HonestKept
<1>3. CASE votedFor'[j] = NoVote
  BY <1>3, NoVoteAssumption DEF Honest
<1> QED
  BY <1>2, <1>3 DEF QuietStep

\* Whoever stands votes for itself, and does not ask itself.
LEMMA HonestElection ==
  ASSUME VotesSurviveRestart, TypeOK, VotesRemembered, VoteCallsGenuine',
         [Next]_vars, NEW j \in Server, Honest(j), NEW i \in Server, DoElection(i)
  PROVE  Honest(j)'
<1>1. /\ currentTerm[i] + 1 \in Term /\ currentTerm'[i] = currentTerm[i] + 1
      /\ voteRecord'[i] = [voteRecord[i] EXCEPT ![currentTerm[i] + 1] = i]
      /\ votedNum'[i] = 1 /\ boot' = boot
      /\ j # i => /\ currentTerm'[j] = currentTerm[j] /\ votedFor'[j] = votedFor[j]
                  /\ votedNum'[j] = votedNum[j]
  BY DoElectionVotes
<1>2. CASE j # i
  BY <1>1, <1>2, HonestKept
<1>3. CASE j = i
  <2> DEFINE S == (Voters(i, currentTerm[i]) \ Awaited(i))'
  <2>1. i \in S
    <3>1. voteRecord[i] \in [Term -> Vote]
      BY DEF TypeOK
    <3>2. voteRecord'[i][currentTerm'[i]] = i
      BY <1>1, <3>1
    <3>3. i \notin Awaited(i)'
      BY DEF Awaited, VoteCallsGenuine, CallIsGenuine
    <3> QED
      BY <3>2, <3>3 DEF Voters
  <2>2. IsFiniteSet(S)
    <3>1. S \subseteq Server
      BY DEF Voters
    <3> QED
      BY <3>1, ServerAssumption, FS_Subset
  <2> HIDE DEF S
  <2>3. 1 <= Cardinality(S)
    <3>1. Cardinality({i}) = 1 /\ {i} \subseteq S
      BY <2>1, FS_Singleton
    <3> QED
      BY <2>2, <3>1, FS_Subset
  <2> QED
    BY <1>1, <1>3, <2>3, Zenon DEF Honest, S
<1> QED
  BY <1>2, <1>3

LEMMA HonestRequest ==
  ASSUME VotesSurviveRestart, TypeOK, VotesRemembered, VoteCallsGenuine,
         [Next]_vars, NEW j \in Server, Honest(j),
         NEW m \in requestVoteArgs, RequestVote(m)
  PROVE  Honest(j)'
<1> DEFINE i == m.callee
<1>1. /\ m.term \in Term /\ m.term >= currentTerm[i] /\ i \in Server
      /\ currentTerm'[i] = m.term /\ votedNum' = votedNum /\ boot' = boot
      /\ votedFor'[i] = IF MayGrant(i, m) THEN m.caller ELSE VoteInTerm(i, m.term)
      /\ j # i => currentTerm'[j] = currentTerm[j] /\ votedFor'[j] = votedFor[j]
  BY RequestVoteVotes
<1>2. CASE j # i
  BY <1>1, <1>2, HonestKept
<1>3. CASE j = i /\ MayGrant(i, m)
  <2>1. m.caller # i
    BY DEF VoteCallsGenuine, CallIsGenuine
  <2>2. votedFor'[j] # j
    BY <1>1, <1>3, <2>1
  <2> QED
    BY <2>2 DEF Honest
<1>4. CASE j = i /\ ~MayGrant(i, m) /\ m.term > currentTerm[i]
  <2>1. votedFor'[j] # j
    BY <1>1, <1>4, NoVoteAssumption DEF VoteInTerm
  <2> QED
    BY <2>1 DEF Honest
<1>5. CASE j = i /\ ~MayGrant(i, m) /\ ~(m.term > currentTerm[i])
  <2>1. m.term \in Int /\ currentTerm[i] \in Int
    BY <1>1, TermsAreNumbers, TermsOfServers
  <2>2. m.term = currentTerm[i]
    BY <1>1, <1>5, <2>1, SMT
  <2>3. votedFor'[j] = votedFor[j]
    BY <1>1, <1>5 DEF VoteInTerm
  <2> QED
    BY <1>1, <1>5, <2>2, <2>3, HonestKept
<1> QED
  BY <1>2, <1>3, <1>4, <1>5

LEMMA HonestRestart ==
  ASSUME VotesSurviveRestart, TypeOK, VotesRemembered, [Next]_vars, NEW j \in Server,
         Honest(j), NEW i \in Server, Restart(i)
  PROVE  Honest(j)'
<1>1. /\ votedNum'[i] = 0
      /\ j # i => /\ currentTerm'[j] = currentTerm[j] /\ votedFor'[j] = votedFor[j]
                  /\ votedNum'[j] = votedNum[j] /\ boot'[j] = boot[j]
  BY RestartVotes
<1>2. CASE j # i
  BY <1>1, <1>2, HonestKept
<1>3. CASE j = i
  <2> DEFINE S == (Voters(i, currentTerm[i]) \ Awaited(i))'
  <2>1. Cardinality(S) \in Nat
    <3>1. S \subseteq Server
      BY DEF Voters
    <3> QED
      BY <3>1, ServerAssumption, FS_Subset, FS_CardinalityType
  <2> HIDE DEF S
  <2>2. 0 <= Cardinality(S)
    BY <2>1, SMT
  <2> QED
    BY <1>1, <1>3, <2>2, Zenon DEF Honest, S
<1> QED
  BY <1>2, <1>3

\* Reading a reply, or refusing an expired request.
LEMMA HonestCounting ==
  ASSUME VotesSurviveRestart, TypeOK, VotesRemembered, VoteCallsGenuine, AskedOnce,
         CountIsHonest, [Next]_vars, NEW j \in Server, Honest(j),
         \/ \E m \in requestVoteReply : VoteReplyCounted(m) \/ BecomeLeader(m)
         \/ \E m \in requestVoteArgs : RefuseExpiredVote(m)
  PROVE  Honest(j)'
<1>1. /\ currentTerm' = currentTerm /\ votedFor' = votedFor
      /\ voteRecord' = voteRecord /\ boot' = boot
  BY CountingVotes
<1>2. votedNum'[j] = votedNum[j] => Honest(j)'
  BY <1>1, HonestKept
<1>3. ASSUME NEW m \in requestVoteArgs, RefuseExpiredVote(m) PROVE Honest(j)'
  BY <1>2, <1>3 DEF RefuseExpiredVote, electionVars
<1>4. ASSUME NEW m \in requestVoteReply, VoteReplyCounted(m) PROVE Honest(j)'
  <2> DEFINE counts == m.term = currentTerm[m.caller] /\ m.granted
  <2>1. votedNum' = [votedNum EXCEPT ![m.caller] = IF counts THEN @ + 1 ELSE @]
    BY <1>4 DEF VoteReplyCounted
  <2>2. CASE ~(counts /\ j = m.caller)
    <3>1. votedNum'[j] = votedNum[j]
      BY <2>1, <2>2 DEF TypeOK
    <3> QED
      BY <1>2, <3>1
  <2>3. CASE counts /\ j = m.caller
    <3>1. votedNum'[j] = votedNum[j] + 1
      BY <2>1, <2>3 DEF TypeOK
    <3>2. VoteReplyArrives(m)
      BY <1>4 DEF VoteReplyCounted
    <3>3. votedNum[j] + 1 <= Cardinality(Voters(j, currentTerm[j]) \ Awaited(j)')
      BY <1>1, <2>3, <3>2, VoteArrives
    <3>4. Voters(j, currentTerm[j])' = Voters(j, currentTerm[j])
      BY <1>1 DEF Voters
    <3> QED
      BY <3>1, <3>3, <3>4, Zenon DEF Honest
  <2> QED
    BY <2>2, <2>3
<1>5. ASSUME NEW m \in requestVoteReply, BecomeLeader(m) PROVE Honest(j)'
  <2>1. votedNum' = [votedNum EXCEPT ![m.caller] = 0]
    BY <1>5, Zenon DEF BecomeLeader, VotesAfterElection
  <2>2. CASE j # m.caller
    <3>1. votedNum'[j] = votedNum[j]
      BY <2>1, <2>2 DEF TypeOK
    <3> QED
      BY <1>2, <3>1
  <2>3. CASE j = m.caller
    <3> DEFINE S == (Voters(j, currentTerm[j]) \ Awaited(j))'
    <3>1. votedNum'[j] = 0
      BY <2>1, <2>3 DEF TypeOK
    <3>2. Cardinality(S) \in Nat
      <4>1. S \subseteq Server
        BY DEF Voters
      <4> QED
        BY <4>1, ServerAssumption, FS_Subset, FS_CardinalityType
    <3> HIDE DEF S
    <3>3. 0 <= Cardinality(S)
      BY <3>2, SMT
    <3> QED
      BY <3>1, <3>3, Zenon DEF Honest, S
  <2> QED
    BY <2>2, <2>3
<1> QED
  BY <1>3, <1>4, <1>5

LEMMA CountIsHonestNext ==
  ASSUME VotesSurviveRestart, TypeOK, ElectionInv, VoteCallsGenuine', [Next]_vars
  PROVE  CountIsHonest'
<1>1. ASSUME NEW j \in Server PROVE Honest(j)'
  <2>1. Honest(j)
    BY DEF ElectionInv, CountIsHonest, Honest
  <2>2. VotesRemembered /\ VoteCallsGenuine /\ AskedOnce /\ CountIsHonest
    BY DEF ElectionInv
  <2> QED
    BY <2>1, <2>2, Steps, HonestQuiet, HonestElection, HonestRequest, HonestRestart,
       HonestCounting
<1> QED
  BY <1>1 DEF CountIsHonest, Honest

-----------------------------------------------------------------------------
\* Leaders were elected

ElectedIfLeader(j) == status[j] = "Leader" => Majority(Cardinality(Voters(j, currentTerm[j])))

LEMMA MajorityGrows ==
  ASSUME NEW m \in Int, NEW n \in Int, m <= n, Majority(m)
  PROVE  Majority(n)
<1>1. Cardinality(Server) \div 2 + 1 \in Int
  BY ServerAssumption, FS_CardinalityType, SMT
<1> QED
  BY <1>1, SMT DEF Majority

LEMMA ElectedKept ==
  ASSUME VotesSurviveRestart, TypeOK, VotesRemembered, [Next]_vars, NEW j \in Server,
         ElectedIfLeader(j),
         status'[j] = "Leader" => status[j] = "Leader" /\ currentTerm'[j] = currentTerm[j]
  PROVE  ElectedIfLeader(j)'
<1> SUFFICES ASSUME status'[j] = "Leader", status[j] = "Leader",
                    currentTerm'[j] = currentTerm[j]
             PROVE  Majority(Cardinality(Voters(j, currentTerm[j])'))
  BY DEF ElectedIfLeader, Majority
<1> DEFINE S == Voters(j, currentTerm[j])
           T == Voters(j, currentTerm[j])'
<1>1. S \subseteq T
  <2>1. currentTerm[j] \in Term
    BY DEF TypeOK
  <2> QED
    BY <2>1, VoteIsFinalStep, NoVoteAssumption DEF Voters
<1>2. S \subseteq Server /\ T \subseteq Server
  BY DEF Voters
<1>3. Majority(Cardinality(S))
  BY DEF ElectedIfLeader
<1> HIDE DEF S, T
<1>4. IsFiniteSet(S) /\ IsFiniteSet(T)
  BY <1>2, ServerAssumption, FS_Subset
<1>5. /\ Cardinality(S) <= Cardinality(T)
      /\ Cardinality(S) \in Int /\ Cardinality(T) \in Int
  BY <1>1, <1>4, FS_Subset, FS_CardinalityType
<1>6. Majority(Cardinality(T))
  BY <1>3, <1>5, MajorityGrows
<1> QED
  BY <1>6 DEF T

\* The vote that makes a leader completes a majority of recorded votes.
LEMMA ElectedNow ==
  ASSUME TypeOK, VotesRemembered, VoteCallsGenuine, AskedOnce, CountIsHonest,
         NEW m \in requestVoteReply, BecomeLeader(m)
  PROVE  ElectedIfLeader(m.caller)'
<1> DEFINE i == m.caller
           S == Voters(i, currentTerm[i])
           T == Voters(i, currentTerm[i]) \ Awaited(i)'
<1>1. /\ VoteReplyArrives(m) /\ currentTerm' = currentTerm /\ voteRecord' = voteRecord
      /\ m.granted /\ m.term = currentTerm[i] /\ Majority(votedNum[i] + 1)
  BY DEF BecomeLeader, VoteReplyArrives
<1>2. votedNum[i] + 1 <= Cardinality(T)
  BY <1>1, VoteArrives
<1>3. i \in Server /\ votedNum[i] \in Nat
  BY DEF TypeOK, RequestVoteReply
<1>4. S \subseteq Server /\ T \subseteq S
  BY DEF Voters
<1>5. (Voters(i, currentTerm[i]))' = S
  BY <1>1 DEF Voters
<1> HIDE DEF S, T
<1>6. IsFiniteSet(S)
  BY <1>4, ServerAssumption, FS_Subset
<1>7. IsFiniteSet(T) /\ Cardinality(T) <= Cardinality(S)
  BY <1>4, <1>6, FS_Subset
<1>8. Cardinality(S) \in Int /\ Cardinality(T) \in Int
  BY <1>6, <1>7, FS_CardinalityType
<1>9. votedNum[i] + 1 <= Cardinality(S) /\ votedNum[i] + 1 \in Int
  BY <1>2, <1>3, <1>7, <1>8, SMT
<1>10. Majority(Cardinality(S))
  BY <1>1, <1>8, <1>9, MajorityGrows
<1> QED
  BY <1>5, <1>10, Zenon DEF ElectedIfLeader, Majority

LEMMA LeaderWasElectedNext ==
  ASSUME VotesSurviveRestart, TypeOK, ElectionInv, [Next]_vars
  PROVE  LeaderWasElected'
<1>1. VotesRemembered /\ VoteCallsGenuine /\ AskedOnce /\ CountIsHonest
      /\ LeaderWasElected
  BY DEF ElectionInv
<1>2. ASSUME NEW j \in Server PROVE ElectedIfLeader(j)'
  <2>1. ElectedIfLeader(j)
    BY <1>1 DEF LeaderWasElected, ElectedIfLeader
  <2>2. (status'[j] = "Leader" => status[j] = "Leader" /\ currentTerm'[j] = currentTerm[j])
          => ElectedIfLeader(j)'
    BY <1>1, <2>1, ElectedKept
  <2>3. ASSUME NEW i \in Server, QuietStep(i) PROVE ElectedIfLeader(j)'
    BY <2>2, <2>3 DEF QuietStep
  <2>4. ASSUME NEW i \in Server, DoElection(i) PROVE ElectedIfLeader(j)'
    <3>1. /\ status'[i] = "Candidate"
          /\ j # i => status'[j] = status[j] /\ currentTerm'[j] = currentTerm[j]
      BY <2>4, DoElectionVotes
    <3> QED
      BY <2>2, <3>1
  <2>5. ASSUME NEW i \in Server, Restart(i) PROVE ElectedIfLeader(j)'
    <3>1. /\ status'[i] = "Follower"
          /\ j # i => status'[j] = status[j] /\ currentTerm'[j] = currentTerm[j]
      BY <2>5, RestartVotes
    <3> QED
      BY <2>2, <3>1
  <2>6. ASSUME NEW m \in requestVoteArgs, RequestVote(m) PROVE ElectedIfLeader(j)'
    <3> DEFINE i == m.callee
    <3>1. /\ i \in Server /\ m.term \in Term /\ m.term >= currentTerm[i]
          /\ currentTerm'[i] = m.term
          /\ status'[i] = IF m.term > currentTerm[i] THEN "Follower" ELSE status[i]
          /\ j # i => status'[j] = status[j] /\ currentTerm'[j] = currentTerm[j]
      BY <2>6, RequestVoteVotes
    <3>2. m.term \in Int /\ currentTerm[i] \in Int
      BY <3>1, TermsAreNumbers, TermsOfServers
    <3>3. m.term > currentTerm[i] \/ m.term = currentTerm[i]
      BY <3>1, <3>2, SMT
    <3> HIDE DEF i
    <3> QED
      BY <2>2, <3>1, <3>3
  <2>7. ASSUME NEW m \in requestVoteArgs, RefuseExpiredVote(m) PROVE ElectedIfLeader(j)'
    BY <2>2, <2>7 DEF RefuseExpiredVote, electionVars
  <2>8. ASSUME NEW m \in requestVoteReply, VoteReplyCounted(m) PROVE ElectedIfLeader(j)'
    BY <2>2, <2>8 DEF VoteReplyCounted
  <2>9. ASSUME NEW m \in requestVoteReply, BecomeLeader(m) PROVE ElectedIfLeader(j)'
    <3>1. CASE j = m.caller
      BY <1>1, <2>9, <3>1, ElectedNow
    <3>2. CASE j # m.caller
      BY <2>2, <2>9, <3>2 DEF BecomeLeader, TypeOK
    <3> QED
      BY <3>1, <3>2
  <2> HIDE DEF ElectedIfLeader
  <2> QED
    BY <2>3, <2>4, <2>5, <2>6, <2>7, <2>8, <2>9, Steps
<1> QED
  BY <1>2 DEF LeaderWasElected, ElectedIfLeader

-----------------------------------------------------------------------------
\* The theorems

LEMMA ElectionInvInit == Init => ElectionInv
<1> SUFFICES ASSUME Init PROVE ElectionInv
  OBVIOUS
<1>1. CountIsHonest
  BY NoVoteAssumption DEF Init, CountIsHonest
<1>2. LeaderWasElected
  BY DEF Init, LeaderWasElected
<1> QED
  BY <1>1, <1>2, VotesRememberedInit, CallsInit DEF ElectionInv

LEMMA ElectionInvNext ==
  ASSUME VotesSurviveRestart, TypeOK, ElectionInv, [Next]_vars
  PROVE  ElectionInv'
<1>1. TypeOK'
  BY TypeNext
<1>2. VotesRemembered /\ VoteCallsGenuine /\ AskedOnce
  BY DEF ElectionInv
<1>3. VotesRemembered'
  BY <1>1, <1>2, VotesRememberedNext
<1>4. VoteCallsGenuine'
  BY <1>1, <1>2, VoteCallsGenuineNext
<1>5. AskedOnce'
  BY <1>2, AskedOnceNext
<1>6. CountIsHonest'
  BY <1>4, CountIsHonestNext
<1>7. LeaderWasElected'
  BY LeaderWasElectedNext
<1> QED
  BY <1>3, <1>4, <1>5, <1>6, <1>7 DEF ElectionInv

\* Two majorities share a voter, and a voter has one vote.
LEMMA OneLeader ==
  ASSUME LeaderWasElected
  PROVE  ElectionSafety
<1> SUFFICES ASSUME NEW i \in Server, NEW j \in Server, status[i] = "Leader",
                    status[j] = "Leader", currentTerm[i] = currentTerm[j]
             PROVE  i = j
  BY DEF ElectionSafety
<1> DEFINE S == Voters(i, currentTerm[i])
           T == Voters(j, currentTerm[i])
           n == Cardinality(Server)
<1>1. S \subseteq Server /\ T \subseteq Server
  BY DEF Voters
<1>2. Majority(Cardinality(S)) /\ Majority(Cardinality(T))
  BY DEF LeaderWasElected
<1> HIDE DEF S, T
<1>3. IsFiniteSet(S) /\ IsFiniteSet(T) /\ IsFiniteSet(Server)
  BY <1>1, ServerAssumption, FS_Subset
<1>4. Cardinality(S) \in Nat /\ Cardinality(T) \in Nat /\ n \in Nat
  BY <1>3, FS_CardinalityType
<1>5. Cardinality(S) >= n \div 2 + 1 /\ Cardinality(T) >= n \div 2 + 1
  BY <1>2 DEF Majority
<1> HIDE DEF n
<1>6. Cardinality(S) + Cardinality(T) > n
  BY <1>4, <1>5, SMT
<1>7. S \cap T # {}
  BY <1>1, <1>3, <1>6, FS_MajoritiesIntersect DEF n
<1> QED
  BY <1>7 DEF S, T, Voters

\* The votes in memory, on disk, in messages and in counts always agree.
THEOREM ElectionInvariant ==
  ASSUME VotesSurviveRestart
  PROVE  Spec => []ElectionInv
<1>1. Init => TypeOK /\ ElectionInv
  BY TypeInit, ElectionInvInit
<1>2. TypeOK /\ ElectionInv /\ [Next]_vars => (TypeOK /\ ElectionInv)'
  BY TypeNext, ElectionInvNext
<1> QED
  BY <1>1, <1>2, PTL DEF Spec

\* sendRequestVote never makes two leaders of one term, although it asks for no
\* status and counts votes of an election that may be over.
THEOREM AtMostOneLeader ==
  ASSUME VotesSurviveRestart
  PROVE  Spec => []ElectionSafety
<1>1. ElectionInv => ElectionSafety
  BY OneLeader DEF ElectionInv
<1> QED
  BY <1>1, ElectionInvariant, PTL

\* No server takes a vote back, although one kind of step-down is not persisted.
THEOREM VotesAreFinal ==
  ASSUME VotesSurviveRestart
  PROVE  Spec => VoteIsFinal
<1>1. TypeOK /\ ElectionInv /\ [Next]_vars =>
        [\A i \in Server, t \in Term :
           voteRecord[i][t] # NoVote => voteRecord'[i][t] = voteRecord[i][t]]_voteRecord
  BY VoteIsFinalStep DEF ElectionInv
<1> QED
  BY <1>1, TypeCorrect, ElectionInvariant, PTL DEF Spec, VoteIsFinal

=============================================================================
