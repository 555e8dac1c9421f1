-------------------------------- MODULE Raft --------------------------------
(***************************************************************************)
(* The consensus core of the key/value store: class Raft of                *)
(* src/src/RaftCore/raft.cpp, one instance per server.                     *)
(*                                                                         *)
(* Every handler of the class runs under m_mtx from its first to its last  *)
(* access to the state, so each one is a single action.  What interleaves  *)
(* are the handlers: each RPC is a detached thread that sends outside the  *)
(* lock and takes it again when the reply arrives, so a call is split into *)
(* three steps (sending, handling at the peer, handling of the reply) that *)
(* any other step of any server may separate.  Timers are abstracted to    *)
(* "may fire now": the election and heartbeat tickers compare clocks that  *)
(* they read without the lock.                                             *)
(*                                                                         *)
(* Log compaction is left to another module: in the running program        *)
(* Persister::RaftStateSize is always 0, KvServer never takes a snapshot   *)
(* and m_lastSnapshotIncludeIndex stays 0, its value in this module.       *)
(***************************************************************************)
EXTENDS Integers, Sequences, FiniteSets, FiniteSetsExt

CONSTANTS Server,        \* the indices of m_peers
          Command,       \* what clients hand to StartConses
          NoVote,        \* the -1 of m_votedFor
          MaxTerm,       \* bound: no election is started beyond this term
          MaxLogLen,     \* bound: StartConses stops at this log length
          MaxRounds,     \* bound: heartbeat rounds of a server in flight at once
          MaxBoots,      \* bound: how often a server may be restarted
          DiskSurvives   \* FALSE: Persister's constructor truncates its files

ASSUME ServerAssumption == IsFiniteSet(Server) /\ Server # {}
ASSUME NoVoteAssumption == NoVote \notin Server
ASSUME BoundAssumption == MaxTerm \in Nat /\ MaxLogLen \in Nat
                          /\ MaxRounds \in Nat /\ MaxBoots \in Nat
ASSUME DiskAssumption == DiskSurvives \in BOOLEAN

VARIABLES
  currentTerm,   \* m_currentTerm
  votedFor,      \* m_votedFor
  status,        \* m_status
  logs,          \* m_logs: position = logindex, [term, command]
  commitIndex,   \* m_commitIndex
  lastApplied,   \* m_lastApplied
  applyChan,     \* the commands pushed into applyChan since the server started
  nextIndex,     \* m_nextIndex
  matchIndex,    \* m_matchIndex
  votedNum,      \* *votedNum of the server's latest election
  appendNums,    \* *appendNums of each heartbeat round still in flight
  disk,          \* what Persister last received from persist()
  boot,          \* incarnation of the process: its sockets die with it
  voteRecord     \* history: whom a server voted for in each term

VARIABLES        \* RPCs in flight: requests not yet handled, replies not yet read
  requestVoteArgs, requestVoteReply, appendEntriesArgs, appendEntriesReply

electionVars == <<currentTerm, votedFor, status, votedNum, voteRecord>>
logVars      == <<logs, commitIndex>>
applyVars    == <<lastApplied, applyChan>>
leaderVars   == <<nextIndex, matchIndex, appendNums>>
voteCalls    == <<requestVoteArgs, requestVoteReply>>
appendCalls  == <<appendEntriesArgs, appendEntriesReply>>
vars == <<electionVars, logVars, applyVars, leaderVars, disk, boot,
          voteCalls, appendCalls>>

-----------------------------------------------------------------------------
\* Types

Term   == 0 .. MaxTerm
Vote   == Server \cup {NoVote}
Round  == 1 .. MaxRounds
Entry  == [term : Term, command : Command]
Saved  == [term : Term, votedFor : Vote, logs : Seq(Entry)]

\* What getLastLogIndex and updatenextindex range over; -100 is "no hint".
NoHint == -100

RequestVoteArgs  == [caller : Server, callee : Server, term : Term,
                     lastLogIndex : Nat, lastLogTerm : Term, boot : Nat]
\* callTerm is args->term(), which the sending thread still holds.
RequestVoteReply == [caller : Server, callee : Server, callTerm : Term, term : Term,
                     granted : BOOLEAN, boot : Nat]
AppendEntriesArgs  == [caller : Server, callee : Server, term : Term,
                       prevLogIndex : Nat, prevLogTerm : Term,
                       entries : Seq(Entry), leaderCommit : Nat,
                       round : Round, boot : Nat]
\* upTo and lastTerm are what sendAppendEntries reads from its own args:
\* prevlogindex + entries_size, and the term of the last entry (0: no entry).
AppendEntriesReply == [caller : Server, callee : Server, term : Term,
                       success : BOOLEAN, updateNextIndex : Nat \cup {NoHint},
                       upTo : Nat, lastTerm : Term, round : Round, boot : Nat]

TypeOK ==
  /\ currentTerm \in [Server -> Term]
  /\ votedFor \in [Server -> Vote]
  /\ status \in [Server -> {"Follower", "Candidate", "Leader"}]
  /\ logs \in [Server -> Seq(Entry)]
  /\ commitIndex \in [Server -> Nat]
  /\ lastApplied \in [Server -> Nat]
  /\ applyChan \in [Server -> Seq(Command)]
  /\ nextIndex \in [Server -> [Server -> Nat]]
  /\ matchIndex \in [Server -> [Server -> Nat]]
  /\ votedNum \in [Server -> Nat]
  /\ appendNums \in [Server -> [Round -> Nat]]
  /\ disk \in [Server -> Saved]
  /\ boot \in [Server -> Nat]
  /\ voteRecord \in [Server -> [Term -> Vote]]
  /\ requestVoteArgs \subseteq RequestVoteArgs
  /\ requestVoteReply \subseteq RequestVoteReply
  /\ appendEntriesArgs \subseteq AppendEntriesArgs
  /\ appendEntriesReply \subseteq AppendEntriesReply

Init ==
  /\ currentTerm = [i \in Server |-> 0]
  /\ votedFor = [i \in Server |-> NoVote]
  /\ status = [i \in Server |-> "Follower"]
  /\ logs = [i \in Server |-> <<>>]
  /\ commitIndex = [i \in Server |-> 0]
  /\ lastApplied = [i \in Server |-> 0]
  /\ applyChan = [i \in Server |-> <<>>]
  /\ nextIndex = [i \in Server |-> [j \in Server |-> 0]]
  /\ matchIndex = [i \in Server |-> [j \in Server |-> 0]]
  /\ votedNum = [i \in Server |-> 0]
  /\ appendNums = [i \in Server |-> [r \in Round |-> 0]]
  /\ disk = [i \in Server |-> [term |-> 0, votedFor |-> NoVote, logs |-> <<>>]]
  /\ boot = [i \in Server |-> 0]
  /\ voteRecord = [i \in Server |-> [t \in Term |-> NoVote]]
  /\ requestVoteArgs = {} /\ requestVoteReply = {}
  /\ appendEntriesArgs = {} /\ appendEntriesReply = {}

-----------------------------------------------------------------------------
\* The log.  An operator whose name ends in a capitalised slip (…IgnoringTerm,
\* …Truncating) is a wrong variant of the operator after it; no action uses
\* it.  PROJECT.json substitutes it to show that a property notices.

\* getLogTermFromLogIndex; index 0 is the empty snapshot, of term 0.
TermAt(log, k) == IF k \in 1 .. Len(log) THEN log[k].term ELSE 0

LastTerm(log) == TermAt(log, Len(log))

\* UpToDate: is a candidate's log at least as new as this one?
UpToDateIgnoringTerm(log, index, term) == index >= Len(log)
UpToDate(log, index, term) ==
  \/ term > LastTerm(log)
  \/ term = LastTerm(log) /\ index >= Len(log)

\* matchLog, for an index inside the log.
MatchLog(log, index, term) == TermAt(log, index) = term

\* The loop over args->entries(): append what lies beyond the log, replace in
\* place an entry of another term, keep the others, and keep whatever the log
\* holds behind the last entry sent.
MergeEntriesAppending(log, prev, entries) ==
  [k \in 1 .. Max({Len(log), prev + Len(entries)}) |->
     IF k <= Len(log) THEN log[k] ELSE entries[k - prev]]
MergeEntriesTruncating(log, prev, entries) == SubSeq(log, 1, prev) \o entries
MergeEntries(log, prev, entries) ==
  [k \in 1 .. Max({Len(log), prev + Len(entries)}) |->
     IF k <= prev \/ k > prev + Len(entries) THEN log[k]
     ELSE IF k <= Len(log) /\ log[k].term = entries[k - prev].term THEN log[k]
     ELSE entries[k - prev]]

\* The assertion of that loop: one index and term, two commands.
NoClash(log, prev, entries) ==
  \A k \in DOMAIN entries :
    prev + k <= Len(log) /\ log[prev + k].term = entries[k].term
      => log[prev + k].command = entries[k].command

\* Where a mismatch at prev sends the leader back to: the first index of the
\* run of entries that have the term found at prev.
ConflictNextIndex(log, prev) ==
  LET other == {k \in 0 .. prev : TermAt(log, k) # TermAt(log, prev)}
  IN  IF other = {} THEN prev ELSE Max(other) + 1

\* Everything after prev, the entries of a heartbeat.
EntriesAfter(log, prev) == SubSeq(log, prev + 1, Len(log))

\* commitIndex of a follower that accepted the entries.
FollowerCommitBehind(commit, leaderCommit, last) ==
  IF leaderCommit > commit + 1 THEN Min({leaderCommit, last}) ELSE commit
FollowerCommit(commit, leaderCommit, last) ==
  IF leaderCommit > commit THEN Min({leaderCommit, last}) ELSE commit

\* m_peers.size() / 2 + 1.
Majority(n) == n >= Cardinality(Server) \div 2 + 1

-----------------------------------------------------------------------------
\* Persistence

EmptyDisk == [term |-> 0, votedFor |-> NoVote, logs |-> <<>>]

\* persist(): what the handler leaves in memory is what the disk receives.
PersistWithoutVote(i) ==
  disk' = [disk EXCEPT ![i] = [term |-> currentTerm'[i], votedFor |-> NoVote,
                               logs |-> logs'[i]]]
Persist(i) ==
  disk' = [disk EXCEPT ![i] = [term |-> currentTerm'[i],
                               votedFor |-> votedFor'[i], logs |-> logs'[i]]]

\* readPersist(ReadRaftState()) in a new process.  Persister's constructor has
\* opened the file with trunc, so nothing is read unless DiskSurvives.
Recovered(i) == IF DiskSurvives THEN disk[i] ELSE EmptyDisk

-----------------------------------------------------------------------------
\* Terms

\* "Three changes": what a newer term in a request or reply does.
StepDown(i, term) ==
  /\ currentTerm' = [currentTerm EXCEPT ![i] = term]
  /\ status' = [status EXCEPT ![i] = "Follower"]
  /\ votedFor' = [votedFor EXCEPT ![i] = NoVote]

\* m_votedFor once the term of a request has been taken over.
VoteInTermKeeping(i, term) == votedFor[i]
VoteInTerm(i, term) == IF term > currentTerm[i] THEN NoVote ELSE votedFor[i]

\* The grant decision of RequestVote, for a request that is not expired.
MayGrantAlways(i, m) == UpToDate(logs[i], m.lastLogIndex, m.lastLogTerm)
MayGrant(i, m) ==
  /\ UpToDate(logs[i], m.lastLogIndex, m.lastLogTerm)
  /\ VoteInTerm(i, m.term) \in {NoVote, m.caller}

-----------------------------------------------------------------------------
\* Elections

\* doElection, when electionTimeOutTicker finds the timer expired.
DoElection(i) ==
  /\ status[i] # "Leader"
  /\ currentTerm[i] < MaxTerm
  /\ currentTerm' = [currentTerm EXCEPT ![i] = @ + 1]
  /\ status' = [status EXCEPT ![i] = "Candidate"]
  /\ votedFor' = [votedFor EXCEPT ![i] = i]
  /\ voteRecord' = [voteRecord EXCEPT ![i][currentTerm[i] + 1] = i]
  /\ votedNum' = [votedNum EXCEPT ![i] = 1]
  /\ requestVoteArgs' = requestVoteArgs \cup
       {[caller |-> i, callee |-> j, term |-> currentTerm[i] + 1,
         lastLogIndex |-> Len(logs[i]), lastLogTerm |-> LastTerm(logs[i]),
         boot |-> boot[i]] : j \in Server \ {i}}
  /\ UNCHANGED <<logVars, applyVars, leaderVars, boot, requestVoteReply, appendCalls>>
  /\ Persist(i)

AnswerVote(m, term, granted) ==
  /\ requestVoteArgs' = requestVoteArgs \ {m}
  /\ requestVoteReply' = requestVoteReply \cup
       {[caller |-> m.caller, callee |-> m.callee, callTerm |-> m.term,
         term |-> term, granted |-> granted, boot |-> m.boot]}

\* RequestVote.  Even the expired path ends with persist(), which also writes
\* a term that an earlier step took over without persisting it.
RefuseExpiredVote(m) ==
  LET i == m.callee IN
  /\ m.term < currentTerm[i]
  /\ AnswerVote(m, currentTerm[i], FALSE)
  /\ UNCHANGED <<electionVars, logVars, applyVars, leaderVars, boot, appendCalls>>
  /\ Persist(i)

RequestVote(m) ==
  LET i     == m.callee
      newer == m.term > currentTerm[i]
      grant == MayGrant(i, m)
  IN
  /\ m.term >= currentTerm[i]
  /\ currentTerm' = [currentTerm EXCEPT ![i] = m.term]
  /\ status' = [status EXCEPT ![i] = IF newer THEN "Follower" ELSE @]
  /\ votedFor' = [votedFor EXCEPT ![i] =
                    IF grant THEN m.caller ELSE VoteInTerm(i, m.term)]
  /\ voteRecord' = IF grant THEN [voteRecord EXCEPT ![i][m.term] = m.caller]
                   ELSE voteRecord
  /\ AnswerVote(m, m.term, grant)
  /\ UNCHANGED <<votedNum, logVars, applyVars, leaderVars, boot, appendCalls>>
  /\ Persist(i)

\* sendRequestVote after its RPC returned.  A reply to an earlier incarnation
\* of the process has no socket to arrive on.
VoteReplyArrives(m) ==
  /\ m.boot = boot[m.caller]
  /\ requestVoteReply' = requestVoteReply \ {m}
  /\ UNCHANGED <<logVars, applyVars, appendNums, boot, voteRecord,
                 requestVoteArgs, appendCalls>>

VoteReplyNewerTerm(m) ==
  /\ VoteReplyArrives(m)
  /\ m.term > currentTerm[m.caller]
  /\ StepDown(m.caller, m.term)
  /\ UNCHANGED <<votedNum, nextIndex, matchIndex>>
  /\ Persist(m.caller)

\* An older term, a refusal, or a vote that does not complete a majority.
VoteReplyCounted(m) ==
  LET i == m.caller
      counts == m.term = currentTerm[i] /\ m.granted
  IN
  /\ VoteReplyArrives(m)
  /\ m.term <= currentTerm[i]
  /\ counts => ~Majority(votedNum[i] + 1)
  /\ votedNum' = [votedNum EXCEPT ![i] = IF counts THEN @ + 1 ELSE @]
  /\ UNCHANGED <<currentTerm, votedFor, status, nextIndex, matchIndex, disk>>

\* *votedNum after the majority: the votes still to come must not make one.
VotesAfterElectionKept(n) == n + 1
VotesAfterElectionMarked(n) == -1
VotesAfterElection(n) == 0

\* The vote that completes a majority.  The code asks for nothing but "not
\* already leader", an assertion; it does not ask whether it is a candidate.
BecomeLeader(m) ==
  LET i == m.caller IN
  /\ VoteReplyArrives(m)
  /\ m.term = currentTerm[i] /\ m.granted
  /\ Majority(votedNum[i] + 1)
  /\ status[i] # "Leader"
  /\ votedNum' = [votedNum EXCEPT ![i] = VotesAfterElection(@)]
  /\ status' = [status EXCEPT ![i] = "Leader"]
  /\ nextIndex' = [nextIndex EXCEPT ![i] = [j \in Server |-> Len(logs[i]) + 1]]
  /\ matchIndex' = [matchIndex EXCEPT ![i] = [j \in Server |-> 0]]
  /\ UNCHANGED <<currentTerm, votedFor>>
  /\ Persist(i)

-----------------------------------------------------------------------------
\* Replication

\* StartConses: only the leader takes a command, into its own log.
StartConses(i, command) ==
  /\ status[i] = "Leader"
  /\ Len(logs[i]) < MaxLogLen
  /\ logs' = [logs EXCEPT ![i] =
                Append(@, [term |-> currentTerm[i], command |-> command])]
  /\ UNCHANGED <<electionVars, commitIndex, applyVars, leaderVars, boot,
                 voteCalls, appendCalls>>
  /\ Persist(i)

\* The rounds of this incarnation of i no call of which is outstanding.
FreeRounds(i) ==
  {r \in Round : \A m \in appendEntriesArgs \cup appendEntriesReply :
     ~(m.caller = i /\ m.round = r /\ m.boot = boot[i])}

HeartBeatArgs(i, j, r) ==
  LET prev == nextIndex[i][j] - 1 IN
  [caller |-> i, callee |-> j, term |-> currentTerm[i],
   prevLogIndex |-> prev, prevLogTerm |-> TermAt(logs[i], prev),
   entries |-> EntriesAfter(logs[i], prev),
   leaderCommit |-> commitIndex[i], round |-> r, boot |-> boot[i]]

\* The assertions of doHeartBeat and getPrevLogInfo: what is sent starts
\* inside the log (or right behind it) and ends where the log ends.
NextIndexInLog(i) ==
  \A j \in Server \ {i} : nextIndex[i][j] \in 1 .. Len(logs[i]) + 1

\* doHeartBeat: one thread per peer, all sharing one counter of successes.
DoHeartBeat(i) ==
  /\ status[i] = "Leader"
  /\ NextIndexInLog(i)
  /\ \E r \in FreeRounds(i) :
       /\ \A s \in FreeRounds(i) : r <= s
       /\ appendNums' = [appendNums EXCEPT ![i][r] = 1]
       /\ appendEntriesArgs' = appendEntriesArgs \cup
            {HeartBeatArgs(i, j, r) : j \in Server \ {i}}
  /\ UNCHANGED <<electionVars, logVars, applyVars, nextIndex, matchIndex, disk,
                 boot, voteCalls, appendEntriesReply>>

AnswerAppend(m, term, success, hint) ==
  /\ appendEntriesArgs' = appendEntriesArgs \ {m}
  /\ appendEntriesReply' = appendEntriesReply \cup
       {[caller |-> m.caller, callee |-> m.callee, term |-> term,
         success |-> success, updateNextIndex |-> hint,
         upTo |-> m.prevLogIndex + Len(m.entries), lastTerm |-> LastTerm(m.entries),
         round |-> m.round, boot |-> m.boot]}
  /\ UNCHANGED <<votedNum, voteRecord, applyVars, leaderVars, boot, voteCalls>>

\* AppendEntries1 from a leader of an older term changes nothing.
RefuseExpiredEntries(m) ==
  LET i == m.callee IN
  /\ m.term < currentTerm[i]
  /\ AnswerAppend(m, currentTerm[i], FALSE, NoHint)
  /\ UNCHANGED <<currentTerm, votedFor, status, logVars, disk>>

\* From here on the sender is taken for the leader of its term, whether or
\* not its entries fit.
FollowLeader(m) ==
  LET i == m.callee IN
  /\ m.term >= currentTerm[i]
  /\ currentTerm' = [currentTerm EXCEPT ![i] = m.term]
  /\ status' = [status EXCEPT ![i] = "Follower"]
  /\ votedFor' = [votedFor EXCEPT ![i] = VoteInTerm(i, m.term)]

\* Mutant: the hint is one too high.
RefuseGapAbove(m) ==
  LET i == m.callee IN
  /\ m.prevLogIndex > Len(logs[i])
  /\ FollowLeader(m)
  /\ AnswerAppend(m, m.term, FALSE, Len(logs[i]) + 2)
  /\ UNCHANGED logVars
  /\ Persist(i)

\* prevlogindex lies beyond the log.
RefuseGap(m) ==
  LET i == m.callee IN
  /\ m.prevLogIndex > Len(logs[i])
  /\ FollowLeader(m)
  /\ AnswerAppend(m, m.term, FALSE, Len(logs[i]) + 1)
  /\ UNCHANGED logVars
  /\ Persist(i)

\* The entry at prevlogindex has another term.
RefuseMismatch(m) ==
  LET i == m.callee IN
  /\ m.prevLogIndex <= Len(logs[i])
  /\ ~MatchLog(logs[i], m.prevLogIndex, m.prevLogTerm)
  /\ FollowLeader(m)
  /\ AnswerAppend(m, m.term, FALSE, ConflictNextIndex(logs[i], m.prevLogIndex))
  /\ UNCHANGED logVars
  /\ Persist(i)

EntriesFit(m) ==
  LET i == m.callee IN
  /\ m.term >= currentTerm[i]
  /\ m.prevLogIndex <= Len(logs[i])
  /\ MatchLog(logs[i], m.prevLogIndex, m.prevLogTerm)

\* The assertions between the loop and the reply.
AcceptedLogCovers(m) ==
  LET i == m.callee
      log == MergeEntries(logs[i], m.prevLogIndex, m.entries)
  IN
  /\ NoClash(logs[i], m.prevLogIndex, m.entries)
  /\ Len(log) >= m.prevLogIndex + Len(m.entries)
  /\ Len(log) >= FollowerCommit(commitIndex[i], m.leaderCommit, Len(log))

AcceptEntries(m) ==
  LET i == m.callee IN
  /\ EntriesFit(m)
  /\ AcceptedLogCovers(m)
  /\ FollowLeader(m)
  /\ logs' = [logs EXCEPT ![i] = MergeEntries(@, m.prevLogIndex, m.entries)]
  /\ commitIndex' = [commitIndex EXCEPT ![i] =
                       FollowerCommit(@, m.leaderCommit, Len(logs'[i]))]
  /\ AnswerAppend(m, m.term, TRUE, NoHint)
  /\ Persist(i)

\* sendAppendEntries after its RPC returned.
AppendReplyArrives(m) ==
  /\ m.boot = boot[m.caller]
  /\ appendEntriesReply' = appendEntriesReply \ {m}
  /\ UNCHANGED <<votedNum, voteRecord, logs, applyVars, boot, voteCalls,
                 appendEntriesArgs>>

\* Unlike sendRequestVote, this step-down does not call persist().
AppendReplyNewerTerm(m) ==
  /\ AppendReplyArrives(m)
  /\ m.term > currentTerm[m.caller]
  /\ StepDown(m.caller, m.term)
  /\ UNCHANGED <<leaderVars, commitIndex, disk>>

AppendReplyStale(m) ==
  /\ AppendReplyArrives(m)
  /\ \/ m.term < currentTerm[m.caller]
     \/ m.term = currentTerm[m.caller] /\ status[m.caller] # "Leader"
  /\ UNCHANGED <<currentTerm, votedFor, status, leaderVars, commitIndex, disk>>

AppendReplyInTerm(m) ==
  /\ AppendReplyArrives(m)
  /\ m.term = currentTerm[m.caller] /\ status[m.caller] = "Leader"
  /\ UNCHANGED <<currentTerm, votedFor, status, disk>>

AppendReplyFailure(m) ==
  LET i == m.caller  hint == m.updateNextIndex IN
  /\ AppendReplyInTerm(m)
  /\ ~m.success
  /\ nextIndex' = IF hint = NoHint THEN nextIndex
                  ELSE [nextIndex EXCEPT ![i][m.callee] = hint]
  /\ UNCHANGED <<matchIndex, appendNums, commitIndex>>

\* m_matchIndex takes the maximum: a late reply acknowledges less.
AckedIndex(match, upTo) == Max({match, upTo})

\* commitIndex of a leader, when the success that was just counted is the one
\* that completes the round: taken from the args of that very call.
LeaderCommitAnyTerm(i, m, commit) ==
  IF m.lastTerm # 0 THEN Max({commit, m.upTo}) ELSE commit
LeaderCommitBehind(i, m, commit) ==
  IF m.lastTerm = currentTerm[i] THEN Max({commit, m.upTo - 1}) ELSE commit
LeaderCommit(i, m, commit) ==
  IF m.lastTerm = currentTerm[i] THEN Max({commit, m.upTo}) ELSE commit

AppendReplySuccess(m) ==
  LET i     == m.caller
      match == AckedIndex(matchIndex[i][m.callee], m.upTo)
      acks  == appendNums[i][m.round] + 1
  IN
  /\ AppendReplyInTerm(m)
  /\ m.success
  /\ match <= Len(logs[i])
  /\ matchIndex' = [matchIndex EXCEPT ![i][m.callee] = match]
  /\ nextIndex' = [nextIndex EXCEPT ![i][m.callee] = match + 1]
  /\ \/ /\ ~Majority(acks)
        /\ appendNums' = [appendNums EXCEPT ![i][m.round] = acks]
        /\ UNCHANGED commitIndex
     \/ /\ Majority(acks)
        /\ appendNums' = [appendNums EXCEPT ![i][m.round] = 0]
        /\ commitIndex' = [commitIndex EXCEPT ![i] = LeaderCommit(i, m, @)]
        /\ commitIndex'[i] <= Len(logs[i])

-----------------------------------------------------------------------------
\* Applying, restarting, losing calls

\* applierTicker: collect what is committed under the lock, then push it, in
\* order, from the only thread that runs the applier.
ApplierTicker(i) ==
  /\ lastApplied[i] < commitIndex[i]
  /\ commitIndex[i] <= Len(logs[i])
  /\ lastApplied' = [lastApplied EXCEPT ![i] = commitIndex[i]]
  /\ applyChan' = [applyChan EXCEPT ![i] = @ \o
       [k \in 1 .. commitIndex[i] - lastApplied[i] |->
          logs[i][lastApplied[i] + k].command]]
  /\ UNCHANGED <<electionVars, logVars, leaderVars, disk, boot, voteCalls,
                 appendCalls>>

\* The process dies, at any moment, and init() runs in a new one.
Restart(i) ==
  /\ boot[i] < MaxBoots
  /\ boot' = [boot EXCEPT ![i] = @ + 1]
  /\ currentTerm' = [currentTerm EXCEPT ![i] = Recovered(i).term]
  /\ votedFor' = [votedFor EXCEPT ![i] = Recovered(i).votedFor]
  /\ logs' = [logs EXCEPT ![i] = Recovered(i).logs]
  /\ disk' = [disk EXCEPT ![i] = Recovered(i)]
  /\ status' = [status EXCEPT ![i] = "Follower"]
  /\ commitIndex' = [commitIndex EXCEPT ![i] = 0]
  /\ lastApplied' = [lastApplied EXCEPT ![i] = 0]
  /\ applyChan' = [applyChan EXCEPT ![i] = <<>>]
  /\ nextIndex' = [nextIndex EXCEPT ![i] = [j \in Server |-> 0]]
  /\ matchIndex' = [matchIndex EXCEPT ![i] = [j \in Server |-> 0]]
  /\ votedNum' = [votedNum EXCEPT ![i] = 0]
  /\ appendNums' = [appendNums EXCEPT ![i] = [r \in Round |-> 0]]
  /\ UNCHANGED <<voteRecord, voteCalls, appendCalls>>

\* CallMethod fails, before or after the peer handled the request: the sending
\* thread sees !ok and ends.
VoteCallFails ==
  /\ \/ \E m \in requestVoteArgs : requestVoteArgs' = requestVoteArgs \ {m}
                                   /\ UNCHANGED requestVoteReply
     \/ \E m \in requestVoteReply : requestVoteReply' = requestVoteReply \ {m}
                                    /\ UNCHANGED requestVoteArgs
  /\ UNCHANGED <<electionVars, logVars, applyVars, leaderVars, disk, boot, appendCalls>>

AppendCallFails ==
  /\ \/ \E m \in appendEntriesArgs : appendEntriesArgs' = appendEntriesArgs \ {m}
                                     /\ UNCHANGED appendEntriesReply
     \/ \E m \in appendEntriesReply : appendEntriesReply' = appendEntriesReply \ {m}
                                      /\ UNCHANGED appendEntriesArgs
  /\ UNCHANGED <<electionVars, logVars, applyVars, leaderVars, disk, boot, voteCalls>>

-----------------------------------------------------------------------------
HandleRequestVote(m)   == RefuseExpiredVote(m) \/ RequestVote(m)
HandleVoteReply(m)     == VoteReplyNewerTerm(m) \/ VoteReplyCounted(m) \/ BecomeLeader(m)
HandleAppendEntries(m) == \/ RefuseExpiredEntries(m) \/ RefuseGap(m)
                          \/ RefuseMismatch(m) \/ AcceptEntries(m)
HandleAppendReply(m)   == \/ AppendReplyNewerTerm(m) \/ AppendReplyStale(m)
                          \/ AppendReplyFailure(m) \/ AppendReplySuccess(m)

Next ==
  \/ \E i \in Server : \/ DoElection(i) \/ DoHeartBeat(i) \/ ApplierTicker(i)
                       \/ Restart(i)
                       \/ \E command \in Command : StartConses(i, command)
  \/ \E m \in requestVoteArgs : HandleRequestVote(m)
  \/ \E m \in requestVoteReply : HandleVoteReply(m)
  \/ \E m \in appendEntriesArgs : HandleAppendEntries(m)
  \/ \E m \in appendEntriesReply : HandleAppendReply(m)
  \/ VoteCallFails \/ AppendCallFails

Spec == Init /\ [][Next]_vars

\* The heartbeat ticker and the applier loop for ever, and every RPC thread,
\* at the caller and in the peer's RPC server, gets to run.  Elections need no
\* fairness, and calls may fail.
Fairness ==
  \A i \in Server :
    /\ WF_vars(DoHeartBeat(i)) /\ WF_vars(ApplierTicker(i))
    /\ WF_vars(\E m \in requestVoteArgs : m.callee = i /\ HandleRequestVote(m))
    /\ WF_vars(\E m \in requestVoteReply : m.caller = i /\ HandleVoteReply(m))
    /\ WF_vars(\E m \in appendEntriesArgs : m.callee = i /\ HandleAppendEntries(m))
    /\ WF_vars(\E m \in appendEntriesReply : m.caller = i /\ HandleAppendReply(m))

FairSpec == Spec /\ Fairness

-----------------------------------------------------------------------------
\* Properties

\* No two servers lead in one term.  sendRequestVote makes a server leader
\* whatever its status is by then, on votes that arrived one by one, possibly
\* after it followed somebody else.
ElectionSafety ==
  \A i, j \in Server :
    status[i] = "Leader" /\ status[j] = "Leader" /\ currentTerm[i] = currentTerm[j]
      => i = j

\* A server gives its vote in a term to one candidate and never to another,
\* over steps taken down by replies, unpersisted terms and restarts.
VoteIsFinal ==
  [][\A i \in Server, t \in Term :
       voteRecord[i][t] # NoVote => voteRecord'[i][t] = voteRecord[i][t]]_voteRecord

\* None of the assertions of raft.cpp can exit the process: whichever handler
\* runs next finds its condition true.
AssertionsHold ==
  /\ \A i \in Server : /\ status[i] = "Leader" => NextIndexInLog(i)
                       /\ commitIndex[i] <= Len(logs[i])
  /\ \A m \in requestVoteReply :
       /\ m.boot = boot[m.caller] /\ m.term = currentTerm[m.caller]
       /\ m.granted /\ Majority(votedNum[m.caller] + 1)
       => status[m.caller] # "Leader"
  /\ \A m \in appendEntriesArgs : EntriesFit(m) => AcceptedLogCovers(m)
  /\ \A m \in appendEntriesReply :
       /\ m.boot = boot[m.caller] /\ m.term = currentTerm[m.caller]
       /\ status[m.caller] = "Leader" /\ m.success
       => m.upTo <= Len(logs[m.caller])

\* What m_matchIndex says of a follower stays true for as long as that follower
\* is in the leader's term: it holds the leader's entry at that index.
AckedEntryHeld ==
  \A i, j \in Server :
    LET k == matchIndex[i][j] IN
    status[i] = "Leader" /\ currentTerm[j] = currentTerm[i] /\ i # j /\ k > 0
      => k <= Len(logs[j]) /\ logs[j][k] = logs[i][k]

\* A log is only ever rewritten by what a leader sends, never shortened, and
\* a leader never rewrites its own.
LogNeverShrinks ==
  [][\A i \in Server :
       /\ Len(logs'[i]) >= Len(logs[i])
       /\ status[i] = "Leader" /\ currentTerm'[i] = currentTerm[i]
            => \A k \in DOMAIN logs[i] : logs'[i][k] = logs[i][k]]_logs

\* The leader of the newest term has every entry that any server has
\* committed.
LeaderCompleteness ==
  \A i, j \in Server :
    status[i] = "Leader" /\ currentTerm[i] >= currentTerm[j]
      => \A k \in 1 .. commitIndex[j] :
           k <= Len(logs[i]) /\ logs[i][k] = logs[j][k]

\* No two servers hand different commands to their state machines at the same
\* index.
StateMachineSafety ==
  \A i, j \in Server :
    \A k \in DOMAIN applyChan[i] \cap DOMAIN applyChan[j] :
      applyChan[i][k] = applyChan[j][k]

\* A committed entry stays as it is in the log of the server that committed it.
CommittedIsFinal ==
  [][\A i \in Server : boot'[i] = boot[i] =>
       \A k \in 1 .. commitIndex[i] : logs'[i][k] = logs[i][k]]_logs

\* A leader has committed every entry of its term that it knows on a majority.
\* The code does not look at m_matchIndex for this: it counts the successes of
\* one heartbeat round and takes the index from the call it counted last.  With up
\* to three servers that is as good; with five, two rounds may reach one follower each.
QuorumAckedIsCommitted ==
  \A i \in Server : \A k \in DOMAIN logs[i] :
    /\ status[i] = "Leader" /\ logs[i][k].term = currentTerm[i]
    /\ Majority(1 + Cardinality({j \in Server \ {i} : matchIndex[i][j] >= k}))
    => commitIndex[i] >= k

\* What a leader has taken into its log is applied by every server in the end, also
\* by one whose log is behind or differs and has to be found out by backing off,
\* unless calls to followers fail again and again or its term is over.  A refusal
\* that leaves nextIndex where it is does not count as a failed call.
Idles(m) == ~m.success /\ m.updateNextIndex \in {NoHint, nextIndex[m.caller][m.callee]}
EntriesGetApplied ==
  []<><<AppendCallFails /\ \A m \in appendEntriesReply : Idles(m) => m \in appendEntriesReply'>>_vars \/
  \A i \in Server, t \in Term, k \in 1 .. MaxLogLen :
    status[i] = "Leader" /\ currentTerm[i] = t /\ TermAt(logs[i], k) = t
      ~> \/ \A j \in Server : lastApplied[j] >= k
         \/ \E j \in Server : currentTerm[j] > t

=============================================================================
