--------------------------- MODULE RaftLogProofs ---------------------------
(***************************************************************************)
(* No assertion of raft.cpp fails, what m_matchIndex says stays true, and  *)
(* no log gets shorter, for any number of servers and any logs: LogInv of  *)
(* RaftLogInvariants is inductive, provided that what persist() wrote      *)
(* survives a restart or that nobody restarts.                             *)
(***************************************************************************)
EXTENDS RaftLogInvariants, RaftElectionProofs

-----------------------------------------------------------------------------
\* Elections

LEMMA MajorityOfVoters ==
  ASSUME NEW i, NEW t
  PROVE  /\ IsFiniteSet(Voters(i, t)) /\ Voters(i, t) \subseteq Server
         /\ Cardinality(Voters(i, t)) \in Nat /\ Cardinality(Server) \in Nat
         /\ Elected(i, t) <=> Cardinality(Voters(i, t)) >= Cardinality(Server) \div 2 + 1
<1>1. Voters(i, t) \subseteq Server
  BY DEF Voters
<1>2. IsFiniteSet(Voters(i, t)) /\ IsFiniteSet(Server)
  BY <1>1, ServerAssumption, FS_Subset
<1> QED
  BY <1>1, <1>2, FS_CardinalityType DEF Elected, Majority

LEMMA MajoritiesMeet ==
  ASSUME NEW S \in SUBSET Server, NEW T \in SUBSET Server,
         Majority(Cardinality(S)), Majority(Cardinality(T))
  PROVE  S \cap T # {}
<1> DEFINE n == Cardinality(Server)
<1>1. IsFiniteSet(S) /\ IsFiniteSet(T) /\ IsFiniteSet(Server)
  BY ServerAssumption, FS_Subset
<1>2. Cardinality(S) \in Nat /\ Cardinality(T) \in Nat /\ n \in Nat
  BY <1>1, FS_CardinalityType
<1>3. Cardinality(S) >= n \div 2 + 1 /\ Cardinality(T) >= n \div 2 + 1
  BY DEF Majority
<1> HIDE DEF n
<1>4. Cardinality(S) + Cardinality(T) > n
  BY <1>2, <1>3, SMT
<1> QED
  BY <1>1, <1>4, FS_MajoritiesIntersect DEF n

\* Two majorities share a voter, and a voter has one vote.
LEMMA OneElected ==
  ASSUME NEW i, NEW j, NEW t, Elected(i, t), Elected(j, t)
  PROVE  i = j
<1>1. Voters(i, t) \subseteq Server /\ Voters(j, t) \subseteq Server
  BY DEF Voters
<1>2. Voters(i, t) \cap Voters(j, t) # {}
  BY <1>1, MajoritiesMeet DEF Elected
<1> QED
  BY <1>2 DEF Voters

LEMMA OneElectedNext ==
  ASSUME NEW i, NEW j, NEW t, Elected(i, t)', Elected(j, t)'
  PROVE  i = j
<1>1. Voters(i, t)' \subseteq Server /\ Voters(j, t)' \subseteq Server
  BY DEF Voters
<1>2. Majority(Cardinality(Voters(i, t)')) /\ Majority(Cardinality(Voters(j, t)'))
  BY DEF Elected, Majority
<1>3. Voters(i, t)' \cap Voters(j, t)' # {}
  BY <1>1, <1>2, MajoritiesMeet
<1> QED
  BY <1>3 DEF Voters

\* Who was elected in a term has reached it, in memory and on disk.
LEMMA ElectedReached ==
  ASSUME TypeOK, VotesRemembered, VotesForCandidates, NEW i \in Server, NEW t \in Term,
         Elected(i, t)
  PROVE  Reached(i, t)
<1>1. Voters(i, t) # {}
  <2>1. Cardinality(Voters(i, t)) \in Nat /\ Cardinality(Server) \in Nat
        /\ Cardinality(Voters(i, t)) >= Cardinality(Server) \div 2 + 1
    BY MajorityOfVoters
  <2>2. Cardinality(Voters(i, t)) # 0
    BY <2>1, SMT
  <2> QED
    BY <2>2, FS_EmptySet
<1>2. voteRecord[i][t] = i
  BY <1>1 DEF Voters, VotesForCandidates
<1>3. ~(t > currentTerm[i]) /\ ~(t > disk[i].term)
  BY <1>2, NoVoteAssumption DEF VotesRemembered, RecordMatches
<1>4. t \in Int /\ currentTerm[i] \in Int /\ disk[i].term \in Int
  BY TermsOfServers, TermsAreNumbers
<1> QED
  BY <1>3, <1>4, SMT DEF Reached

\* An election is not undone.
LEMMA ElectedStays ==
  ASSUME VotesSurviveRestart, TypeOK, VotesRemembered, [Next]_vars,
         NEW i \in Server, NEW t \in Term, Elected(i, t)
  PROVE  Elected(i, t)'
<1> DEFINE S == Voters(i, t)
           T == Voters(i, t)'
<1>1. S \subseteq T /\ T \subseteq Server
  BY VotersGrow DEF Voters
<1>2. IsFiniteSet(S) /\ Cardinality(S) \in Nat /\ Majority(Cardinality(S))
  BY MajorityOfVoters DEF Elected
<1> HIDE DEF S, T
<1>3. IsFiniteSet(T) /\ Cardinality(T) \in Nat
  BY <1>1, ServerAssumption, FS_Subset, FS_CardinalityType
<1>4. Cardinality(S) <= Cardinality(T) /\ Cardinality(S) \in Int /\ Cardinality(T) \in Int
  BY <1>1, <1>2, <1>3, FS_Subset, SMT
<1>5. Majority(Cardinality(T))
  BY <1>2, <1>4, MajorityGrows
<1> QED
  BY <1>5 DEF Elected, Majority, T

-----------------------------------------------------------------------------
\* Terms pass

\* How a step moves the terms of a server: up, in memory first, or back to
\* what the disk holds.
LEMMA TermsMove ==
  ASSUME VotesSurviveRestart, TypeOK, TypeOK', VotesRemembered, [Next]_vars,
         NEW j \in Server
  PROVE  /\ currentTerm'[j] >= currentTerm[j] \/ currentTerm'[j] = disk[j].term
         /\ disk'[j].term = disk[j].term \/ disk'[j].term = currentTerm'[j]
<1>1. currentTerm[j] \in Int /\ currentTerm'[j] \in Int /\ disk[j].term \in Int
  BY TermsOfServers, TermsOfServersNext
<1>2. ASSUME NEW i \in Server, QuietStep(i)
      PROVE  /\ currentTerm'[j] = currentTerm[j] \/ currentTerm'[j] > currentTerm[j]
             /\ disk'[j].term = disk[j].term \/ disk'[j].term = currentTerm'[j]
  BY <1>2 DEF QuietStep
<1>3. ASSUME NEW i \in Server, DoElection(i)
      PROVE  /\ currentTerm'[j] = currentTerm[j] \/ currentTerm'[j] = currentTerm[j] + 1
             /\ disk'[j].term = disk[j].term \/ disk'[j].term = currentTerm'[j]
  BY <1>3, DoElectionVotes
<1>4. ASSUME NEW i \in Server, Restart(i)
      PROVE  /\ currentTerm'[j] = currentTerm[j] \/ currentTerm'[j] = disk[j].term
             /\ disk'[j].term = disk[j].term
  BY <1>4, RestartVotes
<1>5. ASSUME NEW m \in requestVoteArgs, RequestVote(m)
      PROVE  /\ \/ currentTerm'[j] = currentTerm[j]
                \/ currentTerm'[j] = m.term /\ m.term >= currentTerm[j]
             /\ disk'[j].term = disk[j].term \/ disk'[j].term = currentTerm'[j]
  BY <1>5, RequestVoteVotes
<1>6. CASE \/ \E m \in requestVoteReply : VoteReplyCounted(m) \/ BecomeLeader(m)
           \/ \E m \in requestVoteArgs : RefuseExpiredVote(m)
  <2>1. /\ currentTerm'[j] = currentTerm[j]
        /\ disk'[j].term = disk[j].term \/ disk'[j].term = currentTerm'[j]
    BY <1>6, CountingVotes
  <2> QED
    BY <1>1, <2>1, SMT
<1>7. ASSUME NEW i \in Server, QuietStep(i) \/ DoElection(i) \/ Restart(i)
      PROVE  /\ currentTerm'[j] >= currentTerm[j] \/ currentTerm'[j] = disk[j].term
             /\ disk'[j].term = disk[j].term \/ disk'[j].term = currentTerm'[j]
  BY <1>1, <1>2, <1>3, <1>4, <1>7, SMT
<1>8. ASSUME NEW m \in requestVoteArgs, RequestVote(m)
      PROVE  /\ currentTerm'[j] >= currentTerm[j] \/ currentTerm'[j] = disk[j].term
             /\ disk'[j].term = disk[j].term \/ disk'[j].term = currentTerm'[j]
  BY <1>1, <1>5, <1>8, SMT
<1> QED
  BY <1>6, <1>7, <1>8, Steps

\* A term that a server has reached stays reached, and one that is over for it
\* stays over.
LEMMA TermsPass ==
  ASSUME VotesSurviveRestart, TypeOK, TypeOK', VotesRemembered, [Next]_vars,
         NEW j \in Server, NEW t \in Term, Reached(j, t)
  PROVE  /\ Reached(j, t)'
         /\ InTerm(j, t)' => InTerm(j, t)
<1>1. /\ currentTerm[j] \in Int /\ currentTerm'[j] \in Int /\ t \in Int
      /\ disk[j].term \in Int /\ disk'[j].term \in Int
  BY TermsOfServers, TermsOfServersNext, TermsAreNumbers
<1>2. disk[j].term <= currentTerm[j]
  BY DEF VotesRemembered
<1>3. /\ currentTerm'[j] >= currentTerm[j] \/ currentTerm'[j] = disk[j].term
      /\ disk'[j].term = disk[j].term \/ disk'[j].term = currentTerm'[j]
  BY TermsMove
<1>4. currentTerm[j] >= t /\ disk[j].term >= t
  BY DEF Reached
<1>5. currentTerm'[j] >= t /\ disk'[j].term >= t
  BY <1>1, <1>3, <1>4, SMT
<1>6. currentTerm'[j] = t \/ disk'[j].term = t => currentTerm[j] = t \/ disk[j].term = t
  BY <1>1, <1>2, <1>3, <1>4, SMT
<1> QED
  BY <1>5, <1>6 DEF Reached, InTerm

-----------------------------------------------------------------------------
\* Logs and disks

LEMMA RestartLogs ==
  ASSUME VotesSurviveRestart, TypeOK, LogsOnDisk, NEW i \in Server, Restart(i)
  PROVE  logs' = logs /\ disk' = disk
<1>1. DiskSurvives
  BY SMT DEF VotesSurviveRestart, Restart, TypeOK
<1>2. Recovered(i) = disk[i] /\ disk[i].logs = logs[i]
  BY <1>1 DEF Recovered, LogsOnDisk
<1> QED
  BY <1>2 DEF Restart, TypeOK

\* Every step leaves the logs and the disks alone, or ends with persist().
LEMMA DiskSteps ==
  ASSUME VotesSurviveRestart, TypeOK, LogsOnDisk, [Next]_vars
  PROVE  \/ logs' = logs /\ disk' = disk
         \/ \E i \in Server : /\ Persist(i)
                              /\ \A j \in Server \ {i} : logs'[j] = logs[j]
<1> DEFINE Kept == logs' = logs /\ disk' = disk
           Saves == \E i \in Server : /\ Persist(i)
                                      /\ \A j \in Server \ {i} : logs'[j] = logs[j]
<1>1. ASSUME NEW i \in Server, DoElection(i) PROVE Saves
  BY <1>1 DEF DoElection, logVars
<1>2. ASSUME NEW i \in Server, DoHeartBeat(i) \/ ApplierTicker(i) PROVE Kept
  BY <1>2 DEF DoHeartBeat, ApplierTicker, logVars
<1>3. ASSUME NEW i \in Server, Restart(i) PROVE Kept
  BY <1>3, RestartLogs
<1>4. ASSUME NEW i \in Server, NEW command \in Command, StartConses(i, command) PROVE Saves
  BY <1>4 DEF StartConses, TypeOK
<1>5. ASSUME NEW m \in requestVoteArgs, HandleRequestVote(m) PROVE Saves
  <2>1. m.callee \in Server
    BY DEF TypeOK, RequestVoteArgs
  <2> QED
    BY <1>5, <2>1 DEF HandleRequestVote, RefuseExpiredVote, RequestVote, logVars
<1>6. ASSUME NEW m \in requestVoteReply, HandleVoteReply(m) PROVE Saves \/ Kept
  <2>1. m.caller \in Server
    BY DEF TypeOK, RequestVoteReply
  <2> QED
    BY <1>6, <2>1 DEF HandleVoteReply, VoteReplyNewerTerm, VoteReplyCounted,
                      BecomeLeader, VoteReplyArrives, logVars
<1>7. ASSUME NEW m \in appendEntriesArgs, HandleAppendEntries(m) PROVE Saves \/ Kept
  <2>1. m.callee \in Server
    BY DEF TypeOK, AppendEntriesArgs
  <2>2. CASE AcceptEntries(m)
    BY <2>1, <2>2 DEF AcceptEntries, TypeOK
  <2>3. CASE RefuseExpiredEntries(m) \/ RefuseGap(m) \/ RefuseMismatch(m)
    BY <2>1, <2>3 DEF RefuseExpiredEntries, RefuseGap, RefuseMismatch, logVars
  <2> QED
    BY <1>7, <2>2, <2>3 DEF HandleAppendEntries
<1>8. ASSUME NEW m \in appendEntriesReply, HandleAppendReply(m) PROVE Kept
  BY <1>8 DEF HandleAppendReply, AppendReplyNewerTerm, AppendReplyStale,
              AppendReplyFailure, AppendReplySuccess, AppendReplyInTerm, AppendReplyArrives
<1>9. ASSUME VoteCallFails \/ AppendCallFails \/ UNCHANGED vars PROVE Kept
  BY <1>9 DEF VoteCallFails, AppendCallFails, vars, logVars
<1> HIDE DEF Kept, Saves
<1>10. Kept \/ Saves
  BY <1>1, <1>2, <1>3, <1>4, <1>5, <1>6, <1>7, <1>8, <1>9, Zenon DEF Next
<1> QED
  BY <1>10 DEF Kept, Saves

LEMMA LogsOnDiskNext ==
  ASSUME VotesSurviveRestart, TypeOK, LogsOnDisk, [Next]_vars
  PROVE  LogsOnDisk'
<1>1. ASSUME NEW i \in Server, Persist(i), \A j \in Server \ {i} : logs'[j] = logs[j]
      PROVE  LogsOnDisk'
  <2>1. disk'[i].logs = logs'[i]
    <3> DEFINE saved == [term |-> currentTerm'[i], votedFor |-> votedFor'[i],
                         logs |-> logs'[i]]
    <3>1. disk' = [disk EXCEPT ![i] = saved] /\ saved.logs = logs'[i]
      BY <1>1 DEF Persist
    <3> HIDE DEF saved
    <3> QED
      BY <3>1 DEF TypeOK
  <2>2. \A j \in Server \ {i} : disk'[j] = disk[j]
    BY <1>1, PersistWrites
  <2> QED
    BY <1>1, <2>1, <2>2 DEF LogsOnDisk
<1>2. CASE logs' = logs /\ disk' = disk
  BY <1>2 DEF LogsOnDisk
<1> QED
  BY <1>1, <1>2, DiskSteps

\* Logs change by what a leader takes and by what a follower accepts.
LEMMA LogSteps ==
  ASSUME VotesSurviveRestart, TypeOK, LogsOnDisk, [Next]_vars
  PROVE  \/ logs' = logs
         \/ \E i \in Server, command \in Command : StartConses(i, command)
         \/ \E m \in appendEntriesArgs : AcceptEntries(m)
<1>1. ASSUME NEW i \in Server, DoElection(i) \/ DoHeartBeat(i) \/ ApplierTicker(i)
      PROVE  logs' = logs
  BY <1>1 DEF DoElection, DoHeartBeat, ApplierTicker, logVars
<1>2. ASSUME NEW i \in Server, Restart(i) PROVE logs' = logs
  BY <1>2, RestartLogs
<1>3. ASSUME NEW m \in requestVoteArgs, HandleRequestVote(m) PROVE logs' = logs
  BY <1>3 DEF HandleRequestVote, RefuseExpiredVote, RequestVote, logVars
<1>4. ASSUME NEW m \in requestVoteReply, HandleVoteReply(m) PROVE logs' = logs
  BY <1>4 DEF HandleVoteReply, VoteReplyNewerTerm, VoteReplyCounted,
              BecomeLeader, VoteReplyArrives, logVars
<1>5. ASSUME NEW m \in appendEntriesArgs, HandleAppendEntries(m)
      PROVE  logs' = logs \/ AcceptEntries(m)
  BY <1>5 DEF HandleAppendEntries, RefuseExpiredEntries, RefuseGap, RefuseMismatch, logVars
<1>6. ASSUME NEW m \in appendEntriesReply, HandleAppendReply(m) PROVE logs' = logs
  BY <1>6 DEF HandleAppendReply, AppendReplyNewerTerm, AppendReplyStale,
              AppendReplyFailure, AppendReplySuccess, AppendReplyInTerm, AppendReplyArrives
<1>7. CASE VoteCallFails \/ AppendCallFails \/ UNCHANGED vars
  BY <1>7 DEF VoteCallFails, AppendCallFails, vars, logVars
<1> QED
  BY <1>1, <1>2, <1>3, <1>4, <1>5, <1>6, <1>7, Zenon DEF Next

-----------------------------------------------------------------------------
\* What a follower's log becomes

\* Each entry of the new log was there, or was sent.
LEMMA MergedEntry ==
  ASSUME NEW log \in Seq(Entry), NEW entries \in Seq(Entry),
         NEW prev \in Nat, prev <= Len(log),
         NEW k \in 1 .. Len(MergeEntries(log, prev, entries))
  PROVE  \/ k \in 1 .. Len(log) /\ MergeEntries(log, prev, entries)[k] = log[k]
         \/ /\ k - prev \in 1 .. Len(entries)
            /\ MergeEntries(log, prev, entries)[k] = entries[k - prev]
<1> DEFINE n == Max({Len(log), prev + Len(entries)})
           e(x) == IF x <= prev \/ x > prev + Len(entries) THEN log[x]
                   ELSE IF x <= Len(log) /\ log[x].term = entries[x - prev].term
                   THEN log[x] ELSE entries[x - prev]
<1>1. /\ n = IF Len(log) >= prev + Len(entries) THEN Len(log) ELSE prev + Len(entries)
      /\ n \in Nat /\ Len(log) \in Nat /\ Len(entries) \in Nat
  BY MaxOfPair, LenProperties, SMT
<1>2. MergeEntries(log, prev, entries) = [x \in 1 .. n |-> e(x)]
  BY Zenon DEF MergeEntries
<1>3. k \in 1 .. n
  <2> HIDE DEF n, e
  <2>1. Len([x \in 1 .. n |-> e(x)]) = n
    BY <1>1, SMT
  <2> QED
    BY <1>2, <2>1
<1>4. MergeEntries(log, prev, entries)[k] = e(k)
  BY <1>2, <1>3, Zenon
<1>5. \/ k \in 1 .. Len(log) /\ e(k) = log[k]
      \/ k - prev \in 1 .. Len(entries) /\ e(k) = entries[k - prev]
  BY <1>1, <1>3, SMT
<1> QED
  BY <1>4, <1>5, Zenon

\* If the loop's assertion holds, the new log contains what was sent.
LEMMA MergedContainsSent ==
  ASSUME NEW log \in Seq(Entry), NEW entries \in Seq(Entry),
         NEW prev \in Nat, prev <= Len(log), NoClash(log, prev, entries),
         NEW k \in 1 .. Len(entries)
  PROVE  /\ prev + k \in 1 .. Len(MergeEntries(log, prev, entries))
         /\ MergeEntries(log, prev, entries)[prev + k] = entries[k]
<1> DEFINE n == Max({Len(log), prev + Len(entries)})
           e(x) == IF x <= prev \/ x > prev + Len(entries) THEN log[x]
                   ELSE IF x <= Len(log) /\ log[x].term = entries[x - prev].term
                   THEN log[x] ELSE entries[x - prev]
<1>1. /\ n = IF Len(log) >= prev + Len(entries) THEN Len(log) ELSE prev + Len(entries)
      /\ n \in Nat /\ Len(log) \in Nat /\ Len(entries) \in Nat
  BY MaxOfPair, LenProperties, SMT
<1>2. MergeEntries(log, prev, entries) = [x \in 1 .. n |-> e(x)]
  BY Zenon DEF MergeEntries
<1>3. prev + k \in 1 .. n
  BY <1>1, SMT
<1>4. prev + k \in 1 .. Len(MergeEntries(log, prev, entries))
  <2> HIDE DEF n, e
  <2>1. Len([x \in 1 .. n |-> e(x)]) = n
    BY <1>1, SMT
  <2> QED
    BY <1>2, <1>3, <2>1
<1>5. MergeEntries(log, prev, entries)[prev + k] = e(prev + k)
  BY <1>2, <1>3, Zenon
<1>6. e(prev + k) = entries[k]
  <2>1. /\ (prev + k) - prev = k
        /\ ~(prev + k <= prev \/ prev + k > prev + Len(entries))
    BY <1>1, SMT
  <2>2. ASSUME prev + k <= Len(log), log[prev + k].term = entries[k].term
        PROVE  log[prev + k] = entries[k]
    <3>1. prev + k \in 1 .. Len(log) /\ k \in DOMAIN entries
      BY <1>1, <2>2, LenProperties, SMT
    <3>2. log[prev + k] \in Entry /\ entries[k] \in Entry
      BY <3>1, ElementOfSeq
    <3>3. log[prev + k].command = entries[k].command
      BY <2>2, <3>1 DEF NoClash
    <3> QED
      BY <2>2, <3>2, <3>3 DEF Entry
  <2> QED
    BY <2>1, <2>2, Zenon
<1> QED
  BY <1>4, <1>5, <1>6

\* What accepting entries does to the follower's state.
LEMMA AcceptedLog ==
  ASSUME TypeOK, NEW m \in appendEntriesArgs, AcceptEntries(m)
  PROVE  LET j == m.callee IN
         /\ j \in Server /\ m.caller \in Server /\ m.term \in Term
         /\ m.prevLogIndex \in Nat /\ m.entries \in Seq(Entry) /\ logs[j] \in Seq(Entry)
         /\ m.prevLogIndex <= Len(logs[j])
         /\ logs'[j] = MergeEntries(logs[j], m.prevLogIndex, m.entries)
         /\ \A i \in Server \ {j} : logs'[i] = logs[i]
         /\ currentTerm'[j] = m.term /\ disk'[j].term = m.term
<1> DEFINE j == m.callee
<1>1. /\ j \in Server /\ m.caller \in Server /\ m.term \in Term
      /\ m.prevLogIndex \in Nat /\ m.entries \in Seq(Entry) /\ logs[j] \in Seq(Entry)
  BY DEF TypeOK, AppendEntriesArgs
<1>2. /\ m.prevLogIndex <= Len(logs[j])
      /\ logs' = [logs EXCEPT ![j] = MergeEntries(@, m.prevLogIndex, m.entries)]
      /\ currentTerm' = [currentTerm EXCEPT ![j] = m.term] /\ Persist(j)
  BY DEF AcceptEntries, EntriesFit, FollowLeader
<1>3. currentTerm'[j] = m.term
  BY <1>1, <1>2 DEF TypeOK
<1>4. disk'[j].term = currentTerm'[j]
  BY <1>1, <1>2, PersistWrites
<1>5. /\ logs'[j] = MergeEntries(logs[j], m.prevLogIndex, m.entries)
      /\ \A i \in Server \ {j} : logs'[i] = logs[i]
  BY <1>1, <1>2 DEF TypeOK
<1> QED
  BY <1>1, <1>2, <1>3, <1>4, <1>5

\* What taking a command does to the leader's.
LEMMA TakenCommand ==
  ASSUME TypeOK, NEW i \in Server, NEW command \in Command, StartConses(i, command)
  PROVE  LET new == [term |-> currentTerm[i], command |-> command] IN
         /\ logs[i] \in Seq(Entry) /\ Len(logs[i]) \in Nat
         /\ Len(logs'[i]) = Len(logs[i]) + 1
         /\ \A k \in 1 .. Len(logs[i]) : logs'[i][k] = logs[i][k]
         /\ logs'[i][Len(logs[i]) + 1] = new
         /\ \A j \in Server \ {i} : logs'[j] = logs[j]
         /\ currentTerm' = currentTerm /\ disk'[i].term = currentTerm[i]
         /\ status[i] = "Leader" /\ appendEntriesArgs' = appendEntriesArgs
<1> DEFINE new == [term |-> currentTerm[i], command |-> command]
<1>1. /\ logs[i] \in Seq(Entry) /\ Len(logs[i]) \in Nat /\ new \in Entry
  BY LenProperties DEF TypeOK, Entry
<1>2. logs'[i] = Append(logs[i], new) /\ \A j \in Server \ {i} : logs'[j] = logs[j]
  BY DEF StartConses, TypeOK
<1>3. /\ currentTerm' = currentTerm /\ appendEntriesArgs' = appendEntriesArgs
      /\ status[i] = "Leader" /\ Persist(i)
  BY DEF StartConses, electionVars, appendCalls
<1>4. disk'[i].term = currentTerm'[i]
  BY <1>3, PersistWrites
<1> HIDE DEF new
<1>5. /\ Len(Append(logs[i], new)) = Len(logs[i]) + 1
      /\ \A k \in 1 .. Len(logs[i]) : Append(logs[i], new)[k] = logs[i][k]
      /\ Append(logs[i], new)[Len(logs[i]) + 1] = new
  BY <1>1, AppendProperties
<1> QED
  BY <1>1, <1>2, <1>3, <1>4, <1>5 DEF new

-----------------------------------------------------------------------------
\* A leader's log only grows in its term

RaftInv == TypeOK /\ ElectionInv /\ LogInv

\* A leader does not accept entries of its own term: nobody else was elected in
\* it, and nobody sends to itself.
LEMMA LeaderLogGrows ==
  ASSUME VotesSurviveRestart, RaftInv, [Next]_vars, NEW i \in Server, NEW t \in Term,
         Elected(i, t), InTerm(i, t)'
  PROVE  /\ Len(logs[i]) \in Nat /\ Len(logs'[i]) \in Nat /\ Len(logs[i]) <= Len(logs'[i])
         /\ \A k \in 1 .. Len(logs[i]) : logs'[i][k] = logs[i][k]
<1>1. TypeOK /\ VotesRemembered /\ LogsOnDisk /\ AppendCallsGenuine
  BY DEF RaftInv, ElectionInv, LogInv
<1>2. Len(logs[i]) \in Nat
  BY <1>1, LenProperties DEF TypeOK
<1>3. CASE logs'[i] = logs[i]
  BY <1>2, <1>3, SMT
<1>4. ASSUME NEW j \in Server, NEW command \in Command, StartConses(j, command), j = i
      PROVE  /\ Len(logs'[i]) = Len(logs[i]) + 1
             /\ \A k \in 1 .. Len(logs[i]) : logs'[i][k] = logs[i][k]
  BY <1>1, <1>4, TakenCommand
<1>5. ASSUME NEW m \in appendEntriesArgs, AcceptEntries(m), m.callee = i PROVE FALSE
  <2>1. currentTerm'[i] = m.term /\ disk'[i].term = m.term
    BY <1>1, <1>5, AcceptedLog
  <2>2. m.term = t
    BY <2>1 DEF InTerm
  <2>3. Elected(m.caller, t) /\ m.caller # i
    BY <1>1, <1>5, <2>2 DEF AppendCallsGenuine, RequestIsGenuine
  <2> QED
    BY <2>3, OneElected
<1>6. \/ logs'[i] = logs[i]
      \/ \E command \in Command : StartConses(i, command)
  <2>1. ASSUME NEW j \in Server, NEW command \in Command, StartConses(j, command), j # i
        PROVE  logs'[i] = logs[i]
    BY <1>1, <2>1, TakenCommand
  <2>2. ASSUME NEW m \in appendEntriesArgs, AcceptEntries(m) PROVE logs'[i] = logs[i]
    BY <1>1, <1>5, <2>2, AcceptedLog
  <2> QED
    BY <1>1, <2>1, <2>2, LogSteps
<1>7. ASSUME NEW command \in Command, StartConses(i, command)
      PROVE  /\ Len(logs'[i]) = Len(logs[i]) + 1
             /\ \A k \in 1 .. Len(logs[i]) : logs'[i][k] = logs[i][k]
  BY <1>4, <1>7
<1>8. CASE \E command \in Command : StartConses(i, command)
  <2>1. /\ Len(logs'[i]) = Len(logs[i]) + 1
        /\ \A k \in 1 .. Len(logs[i]) : logs'[i][k] = logs[i][k]
    BY <1>7, <1>8
  <2> QED
    BY <1>2, <2>1, SMT
<1> QED
  BY <1>3, <1>6, <1>8

\* What the election invariant and the passing of terms say of who was elected.
LEMMA ElectedFacts ==
  ASSUME VotesSurviveRestart, RaftInv, [Next]_vars, NEW i \in Server, NEW t \in Term,
         Elected(i, t)
  PROVE  /\ Elected(i, t)' /\ Reached(i, t)
         /\ InTerm(i, t)' => InTerm(i, t)
<1>1. TypeOK /\ TypeOK' /\ VotesRemembered /\ VotesForCandidates
  BY TypeNext DEF RaftInv, ElectionInv, LogInv
<1>2. Reached(i, t)
  BY <1>1, ElectedReached
<1> QED
  BY <1>1, <1>2, ElectedStays, TermsPass

\* A server is in its current term, and a leader was elected in it.
LEMMA LeaderFacts ==
  ASSUME RaftInv, NEW i \in Server
  PROVE  /\ currentTerm[i] \in Term /\ InTerm(i, currentTerm[i])
         /\ status[i] = "Leader" => Elected(i, currentTerm[i])
BY DEF RaftInv, ElectionInv, LeaderWasElected, Elected, InTerm, TypeOK

-----------------------------------------------------------------------------
\* Acknowledgements stay true

\* What a follower accepts in the term of i agrees with the log of i, so the
\* entry that it acknowledged earlier stays.
LEMMA AckedStays ==
  ASSUME VotesSurviveRestart, RaftInv, [Next]_vars, NEW i \in Server, NEW j \in Server,
         NEW k \in Nat, NEW t \in Term, i # j, Acked(i, j, k, t)
  PROVE  Acked(i, j, k, t)'
<1>1. TypeOK /\ TypeOK' /\ VotesRemembered /\ LogsOnDisk /\ AppendCallsGenuine
  BY TypeNext DEF RaftInv, ElectionInv, LogInv
<1>2. Elected(i, t) /\ Elected(i, t)' /\ (InTerm(i, t)' => InTerm(i, t))
  BY ElectedFacts DEF Acked
<1>3. Reached(j, t)' /\ (InTerm(j, t)' => InTerm(j, t))
  BY <1>1, TermsPass DEF Acked
<1> SUFFICES ASSUME InTerm(i, t)'
             PROVE  /\ k <= Len(logs'[i])
                    /\ k > 0 /\ InTerm(j, t)' => k <= Len(logs'[j]) /\ logs'[j][k] = logs'[i][k]
  BY <1>2, <1>3 DEF Acked
<1>4. /\ Len(logs[i]) \in Nat /\ Len(logs'[i]) \in Nat /\ Len(logs[i]) <= Len(logs'[i])
      /\ \A x \in 1 .. Len(logs[i]) : logs'[i][x] = logs[i][x]
  BY <1>2, LeaderLogGrows
<1>5. k <= Len(logs[i])
  BY <1>2 DEF Acked
<1>6. k <= Len(logs'[i])
  BY <1>4, <1>5, SMT
<1>7. ASSUME k > 0, InTerm(j, t)' PROVE k <= Len(logs'[j]) /\ logs'[j][k] = logs'[i][k]
  <2>1. k <= Len(logs[j]) /\ logs[j][k] = logs[i][k]
    BY <1>2, <1>3, <1>7 DEF Acked
  <2>2. k \in 1 .. Len(logs[i]) /\ logs'[i][k] = logs[i][k]
    BY <1>4, <1>5, <1>7, SMT
  <2>3. Len(logs[j]) \in Nat /\ k \in 1 .. Len(logs[j])
    <3>1. Len(logs[j]) \in Nat
      BY <1>1, LenProperties DEF TypeOK
    <3> QED
      BY <1>7, <2>1, <3>1, SMT
  <2>4. CASE logs'[j] = logs[j]
    BY <2>1, <2>2, <2>4
  <2>5. ASSUME NEW c \in Server, NEW command \in Command, StartConses(c, command)
        PROVE  k <= Len(logs'[j]) /\ logs'[j][k] = logs[j][k]
    <3>1. CASE c # j
      <4>1. j \in Server \ {c}
        BY <3>1
      <4>2. logs'[j] = logs[j]
        BY <1>1, <2>5, <4>1, TakenCommand
      <4> QED
        BY <2>1, <4>2
    <3>2. CASE c = j
      <4>1. /\ Len(logs'[j]) = Len(logs[j]) + 1
            /\ \A x \in 1 .. Len(logs[j]) : logs'[j][x] = logs[j][x]
        BY <1>1, <2>5, <3>2, TakenCommand
      <4> QED
        BY <2>3, <4>1, SMT
    <3> QED
      BY <3>1, <3>2
  <2>6. ASSUME NEW m \in appendEntriesArgs, AcceptEntries(m), m.callee = j
        PROVE  k <= Len(logs'[j]) /\ logs'[j][k] = logs[i][k]
    <3>1. /\ m.prevLogIndex \in Nat /\ m.entries \in Seq(Entry) /\ logs[j] \in Seq(Entry)
          /\ m.prevLogIndex <= Len(logs[j])
          /\ logs'[j] = MergeEntries(logs[j], m.prevLogIndex, m.entries)
          /\ currentTerm'[j] = m.term /\ disk'[j].term = m.term
      BY <1>1, <2>6, AcceptedLog
    <3>2. m.term = t
      BY <1>7, <3>1 DEF InTerm
    <3>3. RequestIsGenuine(m)
      BY <1>1 DEF AppendCallsGenuine
    <3>4. m.caller = i
      BY <1>2, <3>2, <3>3, OneElected DEF RequestIsGenuine
    <3>5. CopiesLog(m)
      BY <1>2, <3>2, <3>3, <3>4 DEF RequestIsGenuine
    <3>6. Len(logs'[j]) >= Len(logs[j]) /\ Len(logs'[j]) \in Nat
      BY <1>1, <3>1, MergeEntriesType, LenProperties DEF TypeOK
    <3>7. k \in 1 .. Len(logs'[j])
      BY <2>3, <3>6, SMT
    <3>8. \/ logs'[j][k] = logs[j][k]
          \/ k - m.prevLogIndex \in 1 .. Len(m.entries) /\ logs'[j][k] = m.entries[k - m.prevLogIndex]
      BY <3>1, <3>7, MergedEntry, SMTT(30)
    <3>9. ASSUME k - m.prevLogIndex \in 1 .. Len(m.entries)
          PROVE  m.entries[k - m.prevLogIndex] = logs[i][k]
      <4>1. k - m.prevLogIndex \in DOMAIN m.entries /\ m.prevLogIndex + (k - m.prevLogIndex) = k
        BY <3>1, <3>9, LenProperties, SMT
      <4> QED
        BY <3>4, <3>5, <4>1 DEF CopiesLog
    <3> QED
      BY <2>1, <3>7, <3>8, <3>9, SMT
  <2>7. ASSUME NEW m \in appendEntriesArgs, AcceptEntries(m), m.callee # j
        PROVE  logs'[j] = logs[j]
    BY <1>1, <2>7, AcceptedLog
  <2> QED
    BY <1>1, <2>1, <2>2, <2>4, <2>5, <2>6, <2>7, LogSteps
<1> QED
  BY <1>6, <1>7

-----------------------------------------------------------------------------
\* Requests and replies stay genuine

\* Requests are added by heartbeats, replies by the peers' handlers.
LEMMA AppendCallSteps ==
  ASSUME TypeOK, [Next]_vars
  PROVE  /\ \/ appendEntriesArgs' \subseteq appendEntriesArgs
            \/ \E i \in Server : DoHeartBeat(i)
         /\ \/ appendEntriesReply' \subseteq appendEntriesReply
            \/ \E m \in appendEntriesArgs : HandleAppendEntries(m)
<1> DEFINE NoRequest == appendEntriesArgs' \subseteq appendEntriesArgs
           NoReply   == appendEntriesReply' \subseteq appendEntriesReply
<1>1. ASSUME NEW i \in Server, DoElection(i) \/ ApplierTicker(i) \/ Restart(i)
      PROVE  NoRequest /\ NoReply
  BY <1>1 DEF DoElection, ApplierTicker, Restart, appendCalls
<1>2. ASSUME NEW i \in Server, NEW command \in Command, StartConses(i, command)
      PROVE  NoRequest /\ NoReply
  BY <1>2 DEF StartConses, appendCalls
<1>3. ASSUME NEW i \in Server, DoHeartBeat(i) PROVE NoReply
  BY <1>3 DEF DoHeartBeat
<1>4. ASSUME NEW m \in requestVoteArgs, HandleRequestVote(m) PROVE NoRequest /\ NoReply
  BY <1>4 DEF HandleRequestVote, RefuseExpiredVote, RequestVote, appendCalls
<1>5. ASSUME NEW m \in requestVoteReply, HandleVoteReply(m) PROVE NoRequest /\ NoReply
  BY <1>5 DEF HandleVoteReply, VoteReplyNewerTerm, VoteReplyCounted,
              BecomeLeader, VoteReplyArrives, appendCalls
<1>6. ASSUME NEW m \in appendEntriesArgs, HandleAppendEntries(m) PROVE NoRequest
  BY <1>6 DEF HandleAppendEntries, RefuseExpiredEntries, RefuseGap, RefuseMismatch,
              AcceptEntries, AnswerAppend
<1>7. ASSUME NEW m \in appendEntriesReply, HandleAppendReply(m) PROVE NoRequest /\ NoReply
  BY <1>7 DEF HandleAppendReply, AppendReplyNewerTerm, AppendReplyStale,
              AppendReplyFailure, AppendReplySuccess, AppendReplyInTerm, AppendReplyArrives
<1>8. ASSUME VoteCallFails \/ AppendCallFails \/ UNCHANGED vars PROVE NoRequest /\ NoReply
  BY <1>8 DEF VoteCallFails, AppendCallFails, vars, appendCalls
<1> HIDE DEF NoRequest, NoReply
<1>9. /\ NoRequest \/ \E i \in Server : DoHeartBeat(i)
      /\ NoReply \/ \E m \in appendEntriesArgs : HandleAppendEntries(m)
  BY <1>1, <1>2, <1>3, <1>4, <1>5, <1>6, <1>7, <1>8, Zenon DEF Next
<1> QED
  BY <1>9 DEF NoRequest, NoReply

\* A part of a log that only grows stays a part of it.
LEMMA CopyStays ==
  ASSUME TypeOK, NEW m \in AppendEntriesArgs, CopiesLog(m),
         Len(logs[m.caller]) \in Nat, Len(logs'[m.caller]) \in Nat,
         Len(logs[m.caller]) <= Len(logs'[m.caller]),
         \A k \in 1 .. Len(logs[m.caller]) : logs'[m.caller][k] = logs[m.caller][k]
  PROVE  CopiesLog(m)'
<1> DEFINE i == m.caller
<1>1. /\ m.prevLogIndex \in Nat /\ m.entries \in Seq(Entry) /\ Len(m.entries) \in Nat
      /\ DOMAIN m.entries = 1 .. Len(m.entries)
  BY LenProperties DEF AppendEntriesArgs
<1>2. m.prevLogIndex + Len(m.entries) <= Len(logs'[i])
  BY <1>1, SMT DEF CopiesLog
<1>3. m.prevLogTerm = TermAt(logs'[i], m.prevLogIndex)
  <2>1. m.prevLogIndex \in 1 .. Len(logs[i]) <=> m.prevLogIndex \in 1 .. Len(logs'[i])
    BY <1>1, <1>2, SMT DEF CopiesLog
  <2> QED
    BY <2>1 DEF CopiesLog, TermAt
<1>4. ASSUME NEW k \in DOMAIN m.entries PROVE m.entries[k] = logs'[i][m.prevLogIndex + k]
  <2>1. m.prevLogIndex + k \in 1 .. Len(logs[i])
    BY <1>1, SMT DEF CopiesLog
  <2> QED
    BY <2>1 DEF CopiesLog
<1> QED
  BY <1>2, <1>3, <1>4 DEF CopiesLog

LEMMA RequestStaysGenuine ==
  ASSUME VotesSurviveRestart, RaftInv, [Next]_vars, NEW m \in appendEntriesArgs
  PROVE  RequestIsGenuine(m)'
<1>1. TypeOK /\ RequestIsGenuine(m) /\ m \in AppendEntriesArgs
      /\ m.caller \in Server /\ m.term \in Term
  BY DEF RaftInv, LogInv, AppendCallsGenuine, TypeOK, AppendEntriesArgs
<1>2. /\ Elected(m.caller, m.term)'
      /\ InTerm(m.caller, m.term)' => InTerm(m.caller, m.term)
  BY <1>1, ElectedFacts DEF RequestIsGenuine
<1>3. ASSUME InTerm(m.caller, m.term)' PROVE CopiesLog(m)'
  BY <1>1, <1>2, <1>3, LeaderLogGrows, CopyStays DEF RequestIsGenuine
<1> QED
  BY <1>1, <1>2, <1>3 DEF RequestIsGenuine

\* What a heartbeat sends is a part of the leader's log.
LEMMA HeartBeatIsGenuine ==
  ASSUME VotesSurviveRestart, RaftInv, [Next]_vars, NEW i \in Server, DoHeartBeat(i),
         NEW j \in Server \ {i}, NEW r, NEW m, m = HeartBeatArgs(i, j, r)
  PROVE  RequestIsGenuine(m)'
<1> DEFINE prev == nextIndex[i][j] - 1
<1>1. /\ m.caller = i /\ m.callee = j /\ m.term = currentTerm[i]
      /\ m.prevLogIndex = prev /\ m.prevLogTerm = TermAt(logs[i], prev)
      /\ m.entries = SubSeq(logs[i], prev + 1, Len(logs[i]))
  BY DEF HeartBeatArgs, EntriesAfter
<1>2. /\ logs[i] \in Seq(Entry) /\ Len(logs[i]) \in Nat
      /\ nextIndex[i][j] \in 1 .. Len(logs[i]) + 1
  BY LenProperties DEF RaftInv, TypeOK, DoHeartBeat, NextIndexInLog
<1>3. prev \in Nat /\ prev <= Len(logs[i])
  BY <1>2, SMT
<1>4. logs' = logs
  BY DEF DoHeartBeat, logVars
<1>5. Elected(i, m.term)'
  <2>1. status[i] = "Leader"
    BY DEF DoHeartBeat
  <2>2. m.term \in Term /\ Elected(i, m.term)
    BY <1>1, <2>1, LeaderFacts
  <2> QED
    BY <2>2, ElectedFacts
<1> HIDE DEF prev
<1>6. m.prevLogIndex = 0 => m.prevLogTerm = 0
  BY <1>1, SMT DEF TermAt
<1>7. /\ Len(m.entries) = Len(logs[i]) - prev
      /\ \A k \in 1 .. Len(m.entries) : m.entries[k] = logs[i][prev + k]
      /\ DOMAIN m.entries = 1 .. Len(m.entries)
  <2> DEFINE log == logs[i]
  <2> HIDE DEF log
  <2>1. log \in Seq(Entry) /\ prev + 1 \in 1 .. Len(log) + 1 /\ Len(log) \in Nat
    BY <1>2, <1>3, SMT DEF log
  <2>2. /\ Len(SubSeq(log, prev + 1, Len(log))) = Len(log) - prev
        /\ \A k \in 1 .. Len(log) - prev : SubSeq(log, prev + 1, Len(log))[k] = log[prev + k]
        /\ DOMAIN SubSeq(log, prev + 1, Len(log)) = 1 .. Len(log) - prev
    BY <1>3, <2>1, SMT
  <2> QED
    BY <1>1, <2>2 DEF log
<1>8. CopiesLog(m)'
  <2>1. m.prevLogIndex + Len(m.entries) <= Len(logs[i])
    BY <1>1, <1>2, <1>3, <1>7, SMT
  <2> QED
    BY <1>1, <1>4, <1>7, <2>1 DEF CopiesLog, TermAt
<1> QED
  BY <1>1, <1>5, <1>6, <1>8 DEF RequestIsGenuine

\* Logs and requests place their entries.
LEMMA LogPlaces ==
  ASSUME NEW i \in Server, logs[i] \in Seq(Entry), NEW k \in 1 .. Len(logs[i])
  PROVE  [index |-> k, entry |-> logs[i][k]] \in Placed
<1>1. k \in DOMAIN logs[i]
  BY LenProperties
<1>2. [index |-> k, entry |-> logs[i][k]] \in InLog(i)
  BY <1>1 DEF InLog
<1> QED
  BY <1>2 DEF Placed

LEMMA RequestPlaces ==
  ASSUME NEW m \in appendEntriesArgs, m.entries \in Seq(Entry), NEW k \in 1 .. Len(m.entries)
  PROVE  [index |-> m.prevLogIndex + k, entry |-> m.entries[k]] \in Placed
<1>1. k \in DOMAIN m.entries
  BY LenProperties
<1>2. [index |-> m.prevLogIndex + k, entry |-> m.entries[k]] \in InRequest(m)
  BY <1>1 DEF InRequest
<1> QED
  BY <1>2 DEF Placed

\* Two logs with entries of one term at an index have the same entry there.
LEMMA SameTermSameEntry ==
  ASSUME TypeOK, EntryIsUnique, NEW i \in Server, NEW j \in Server,
         NEW k \in 1 .. Len(logs[i]), k \in 1 .. Len(logs[j]), logs[i][k].term = logs[j][k].term
  PROVE  logs[i][k] = logs[j][k]
<1> DEFINE p == [index |-> k, entry |-> logs[i][k]]
           q == [index |-> k, entry |-> logs[j][k]]
<1>1. p \in Placed /\ q \in Placed
  BY LogPlaces DEF TypeOK
<1>2. p.index = q.index /\ p.entry = logs[i][k] /\ q.entry = logs[j][k]
  OBVIOUS
<1> HIDE DEF p, q
<1> QED
  BY <1>1, <1>2 DEF EntryIsUnique

LEMMA HintStays ==
  ASSUME VotesSurviveRestart, RaftInv, [Next]_vars, NEW i \in Server, NEW t \in Term,
         NEW hint, HintInLog(i, t, hint)
  PROVE  HintInLog(i, t, hint)'
<1>1. Elected(i, t)' /\ (InTerm(i, t)' => InTerm(i, t))
  BY ElectedFacts DEF HintInLog
<1>2. ASSUME InTerm(i, t)' PROVE hint \in 1 .. Len(logs'[i]) + 1
  <2>1. Len(logs[i]) \in Nat /\ Len(logs'[i]) \in Nat /\ Len(logs[i]) <= Len(logs'[i])
    BY <1>2, LeaderLogGrows DEF HintInLog
  <2>2. hint \in 1 .. Len(logs[i]) + 1
    BY <1>1, <1>2 DEF HintInLog
  <2> QED
    BY <2>1, <2>2, SMT
<1> QED
  BY <1>1, <1>2 DEF HintInLog

LEMMA ReplyStaysGenuine ==
  ASSUME VotesSurviveRestart, RaftInv, [Next]_vars, NEW m \in appendEntriesReply
  PROVE  ReplyIsGenuine(m)'
<1>1. /\ ReplyIsGenuine(m) /\ m.caller \in Server /\ m.callee \in Server
      /\ m.term \in Term /\ m.upTo \in Nat
  BY DEF RaftInv, LogInv, AppendCallsGenuine, TypeOK, AppendEntriesReply
<1>2. m.success => Acked(m.caller, m.callee, m.upTo, m.term)'
  BY <1>1, AckedStays DEF ReplyIsGenuine
<1>3. ~m.success /\ m.updateNextIndex # NoHint
        => HintInLog(m.caller, m.term, m.updateNextIndex)'
  BY <1>1, HintStays DEF ReplyIsGenuine
<1> QED
  BY <1>1, <1>2, <1>3 DEF ReplyIsGenuine

\* Where a mismatch sends the leader back to lies within what it has sent.
LEMMA ConflictNextIndexRange ==
  ASSUME NEW log \in Seq(Entry), NEW prev \in Nat, prev # 0
  PROVE  ConflictNextIndex(log, prev) \in 1 .. prev
<1> DEFINE other == {k \in 0 .. prev : TermAt(log, k) # TermAt(log, prev)}
<1>1. other \subseteq 0 .. prev /\ prev \notin other
  OBVIOUS
<1>2. ConflictNextIndex(log, prev) = IF other = {} THEN prev ELSE Max(other) + 1
  BY Zenon DEF ConflictNextIndex
<1> HIDE DEF other
<1>3. ASSUME other # {} PROVE Max(other) \in other
  <2>1. IsFiniteSet(0 .. prev)
    BY FS_Interval, SMT
  <2>2. IsFiniteSet(other)
    BY <1>1, <2>1, FS_Subset
  <2>3. other \in SUBSET Nat
    BY <1>1, SMT
  <2> QED
    BY <1>3, <2>2, <2>3, MaxOfFiniteSet
<1>4. CASE other = {}
  BY <1>2, <1>4, SMT
<1>5. CASE other # {}
  <2>1. Max(other) \in 0 .. prev /\ Max(other) # prev
    BY <1>1, <1>3, <1>5
  <2>2. Max(other) + 1 \in 1 .. prev
    BY <2>1, SMT
  <2> QED
    BY <1>2, <1>5, <2>2
<1> QED
  BY <1>4, <1>5

\* The reply that a handler leaves for request m.
AppendReply(m, term, success, hint) ==
  [caller |-> m.caller, callee |-> m.callee, term |-> term, success |-> success,
   updateNextIndex |-> hint, upTo |-> m.prevLogIndex + Len(m.entries),
   lastTerm |-> LastTerm(m.entries), round |-> m.round, boot |-> m.boot]

\* A follower that sends the leader back sends it to an index of its log.
LEMMA RefusalIsGenuine ==
  ASSUME VotesSurviveRestart, RaftInv, [Next]_vars, NEW m \in appendEntriesArgs,
         NEW s,
         \/ /\ RefuseGap(m)
            /\ s = AppendReply(m, m.term, FALSE, Len(logs[m.callee]) + 1)
         \/ /\ RefuseMismatch(m)
            /\ s = AppendReply(m, m.term, FALSE,
                               ConflictNextIndex(logs[m.callee], m.prevLogIndex))
  PROVE  ReplyIsGenuine(s)'
<1> DEFINE i == m.caller
           j == m.callee
           prev == m.prevLogIndex
<1>1. /\ TypeOK /\ RequestIsGenuine(m)
      /\ i \in Server /\ j \in Server /\ m.term \in Term /\ prev \in Nat
      /\ m.entries \in Seq(Entry) /\ Len(m.entries) \in Nat
      /\ logs[j] \in Seq(Entry) /\ Len(logs[j]) \in Nat
  BY LenProperties DEF RaftInv, LogInv, AppendCallsGenuine, TypeOK, AppendEntriesArgs
<1>2. /\ s.caller = i /\ s.callee = j /\ s.term = m.term /\ ~s.success
  BY DEF AppendReply
<1>3. s.updateNextIndex \in Int /\ 1 <= s.updateNextIndex /\ s.updateNextIndex <= prev
  <2>1. CASE RefuseGap(m) /\ s = AppendReply(m, m.term, FALSE, Len(logs[j]) + 1)
    <3>1. s.updateNextIndex = Len(logs[j]) + 1 /\ prev > Len(logs[j])
      BY <2>1 DEF AppendReply, RefuseGap
    <3> QED
      BY <1>1, <3>1, SMT
  <2>2. CASE /\ RefuseMismatch(m)
             /\ s = AppendReply(m, m.term, FALSE, ConflictNextIndex(logs[j], prev))
    <3>1. s.updateNextIndex = ConflictNextIndex(logs[j], prev)
      BY <2>2 DEF AppendReply
    <3>2. prev # 0
      <4>1. prev = 0 => TermAt(logs[j], prev) = 0
        BY SMT DEF TermAt
      <4> QED
        BY <1>1, <2>2, <4>1 DEF RefuseMismatch, MatchLog, RequestIsGenuine
    <3>3. ConflictNextIndex(logs[j], prev) \in 1 .. prev
      BY <1>1, <3>2, ConflictNextIndexRange
    <3> QED
      BY <1>1, <3>1, <3>3, SMT
  <2> QED
    BY <2>1, <2>2
<1>4. Elected(i, m.term) /\ Elected(i, m.term)' /\ (InTerm(i, m.term)' => InTerm(i, m.term))
  BY <1>1, ElectedFacts DEF RequestIsGenuine
<1>5. ASSUME InTerm(i, m.term)' PROVE s.updateNextIndex \in 1 .. Len(logs'[i]) + 1
  <2>1. prev + Len(m.entries) <= Len(logs[i])
    BY <1>1, <1>4, <1>5 DEF RequestIsGenuine, CopiesLog
  <2>2. Len(logs[i]) \in Nat /\ Len(logs'[i]) \in Nat /\ Len(logs[i]) <= Len(logs'[i])
    BY <1>1, <1>4, <1>5, LeaderLogGrows
  <2> QED
    BY <1>1, <1>3, <2>1, <2>2, SMTT(30)
<1>6. HintInLog(i, m.term, s.updateNextIndex)'
  BY <1>4, <1>5 DEF HintInLog
<1> HIDE DEF i, j
<1> QED
  BY <1>1, <1>2, <1>6 DEF ReplyIsGenuine, RequestIsGenuine, i, j

\* A follower that accepts holds what the leader sent, and the entry before it.
LEMMA AcceptanceIsGenuine ==
  ASSUME VotesSurviveRestart, RaftInv, [Next]_vars, NEW m \in appendEntriesArgs,
         AcceptEntries(m), NEW s, s = AppendReply(m, m.term, TRUE, NoHint)
  PROVE  ReplyIsGenuine(s)'
<1> DEFINE i == m.caller
           j == m.callee
           prev == m.prevLogIndex
           n == Len(m.entries)
<1>1. /\ TypeOK /\ EntryIsUnique /\ RequestIsGenuine(m)
  BY DEF RaftInv, LogInv, AppendCallsGenuine
<1>2. /\ j \in Server /\ i \in Server /\ m.term \in Term
      /\ prev \in Nat /\ m.entries \in Seq(Entry) /\ logs[j] \in Seq(Entry)
      /\ prev <= Len(logs[j]) /\ logs'[j] = MergeEntries(logs[j], prev, m.entries)
      /\ \A c \in Server \ {j} : logs'[c] = logs[c]
      /\ currentTerm'[j] = m.term /\ disk'[j].term = m.term
  BY <1>1, AcceptedLog
<1>3. n \in Nat /\ Len(logs[j]) \in Nat /\ Len(logs[i]) \in Nat /\ m.term \in Int
      /\ DOMAIN m.entries = 1 .. n
  BY <1>1, <1>2, LenProperties, TermsAreNumbers DEF TypeOK
<1>4. NoClash(logs[j], prev, m.entries) /\ MatchLog(logs[j], prev, m.prevLogTerm)
  BY DEF AcceptEntries, AcceptedLogCovers, EntriesFit
<1>5. i # j /\ logs'[i] = logs[i]
  BY <1>1, <1>2 DEF RequestIsGenuine
<1>6. Elected(i, m.term) /\ Elected(i, m.term)' /\ (InTerm(i, m.term)' => InTerm(i, m.term))
  BY <1>1, <1>2, ElectedFacts DEF RequestIsGenuine
<1>7. Reached(j, m.term)'
  BY <1>2, <1>3, SMT DEF Reached
<1>8. ASSUME InTerm(i, m.term)'
      PROVE  /\ prev + n <= Len(logs[i])
             /\ prev + n > 0 =>
                  prev + n <= Len(logs'[j]) /\ logs'[j][prev + n] = logs[i][prev + n]
  <2>1. CopiesLog(m)
    BY <1>1, <1>6, <1>8 DEF RequestIsGenuine
  <2>2. prev + n <= Len(logs[i])
    BY <2>1 DEF CopiesLog
  <2>3. CASE n > 0
    <3>1. n \in 1 .. Len(m.entries)
      BY <1>3, <2>3, SMT
    <3>2. prev + n \in 1 .. Len(logs'[j]) /\ logs'[j][prev + n] = m.entries[n]
      <4> HIDE DEF n
      <4> QED
        BY <1>2, <1>4, <3>1, MergedContainsSent
    <3>3. m.entries[n] = logs[i][prev + n]
      BY <1>3, <2>1, <3>1 DEF CopiesLog
    <3> QED
      BY <2>2, <3>2, <3>3, SMT
  <2>4. CASE n = 0 /\ prev > 0
    <3>1. prev + n = prev /\ prev \in 1 .. Len(logs[i]) /\ prev \in 1 .. Len(logs[j])
      BY <1>2, <1>3, <2>2, <2>4, SMT
    <3>2. logs[i][prev].term = logs[j][prev].term
      BY <1>4, <2>1, <3>1 DEF MatchLog, CopiesLog, TermAt
    <3>3. logs[i][prev] = logs[j][prev]
      BY <1>1, <1>2, <3>1, <3>2, SameTermSameEntry
    <3>4. Len(logs'[j]) \in Nat /\ Len(logs'[j]) >= Len(logs[j])
      BY <1>2, MergeEntriesType, LenProperties
    <3>5. prev \in 1 .. Len(logs'[j]) /\ ~(prev - prev \in 1 .. n)
      BY <2>4, <3>1, <3>4, <1>3, SMT
    <3>6. logs'[j][prev] = logs[j][prev]
      BY <1>2, <3>5, MergedEntry
    <3>7. prev <= Len(logs'[j]) /\ logs'[j][prev] = logs[i][prev]
      BY <3>3, <3>5, <3>6
    <3> QED
      BY <2>2, <3>1, <3>7, Zenon
  <2> QED
    BY <1>2, <1>3, <2>2, <2>3, <2>4, SMT
<1>9. Acked(i, j, prev + n, m.term)'
  BY <1>5, <1>6, <1>7, <1>8 DEF Acked
<1>10. s.caller = i /\ s.callee = j /\ s.term = m.term /\ s.success /\ s.upTo = prev + n
  BY DEF AppendReply
<1> HIDE DEF i, j, prev, n
<1> QED
  BY <1>5, <1>9, <1>10 DEF ReplyIsGenuine

LEMMA NewReplyIsGenuine ==
  ASSUME VotesSurviveRestart, RaftInv, [Next]_vars, NEW m \in appendEntriesArgs,
         HandleAppendEntries(m), NEW r \in appendEntriesReply', r \notin appendEntriesReply
  PROVE  ReplyIsGenuine(r)'
<1>1. RequestIsGenuine(m)
  BY DEF RaftInv, LogInv, AppendCallsGenuine
<1>2. CASE RefuseExpiredEntries(m)
  <2> DEFINE s == AppendReply(m, currentTerm[m.callee], FALSE, NoHint)
  <2>1. appendEntriesReply' = appendEntriesReply \cup {s}
    BY <1>2, Zenon DEF RefuseExpiredEntries, AnswerAppend, AppendReply
  <2>2. /\ s.caller = m.caller /\ s.callee = m.callee /\ ~s.success
        /\ s.updateNextIndex = NoHint
    BY DEF AppendReply
  <2> HIDE DEF s
  <2>3. r = s
    BY <2>1
  <2> QED
    BY <1>1, <2>2, <2>3 DEF ReplyIsGenuine, RequestIsGenuine
<1>3. CASE RefuseGap(m)
  <2> DEFINE s == AppendReply(m, m.term, FALSE, Len(logs[m.callee]) + 1)
  <2>1. appendEntriesReply' = appendEntriesReply \cup {s}
    BY <1>3, Zenon DEF RefuseGap, AnswerAppend, AppendReply
  <2>2. r = s
    <3> HIDE DEF s
    <3> QED
      BY <2>1
  <2> QED
    BY <1>3, <2>2, RefusalIsGenuine
<1>4. CASE RefuseMismatch(m)
  <2> DEFINE s == AppendReply(m, m.term, FALSE,
                              ConflictNextIndex(logs[m.callee], m.prevLogIndex))
  <2>1. appendEntriesReply' = appendEntriesReply \cup {s}
    BY <1>4, Zenon DEF RefuseMismatch, AnswerAppend, AppendReply
  <2>2. r = s
    <3> HIDE DEF s
    <3> QED
      BY <2>1
  <2> QED
    BY <1>4, <2>2, RefusalIsGenuine
<1>5. CASE AcceptEntries(m)
  <2> DEFINE s == AppendReply(m, m.term, TRUE, NoHint)
  <2>1. appendEntriesReply' = appendEntriesReply \cup {s}
    BY <1>5, Zenon DEF AcceptEntries, AnswerAppend, AppendReply
  <2>2. r = s
    <3> HIDE DEF s
    <3> QED
      BY <2>1
  <2> QED
    BY <1>5, <2>2, AcceptanceIsGenuine
<1> QED
  BY <1>2, <1>3, <1>4, <1>5 DEF HandleAppendEntries

LEMMA AppendCallsGenuineNext ==
  ASSUME VotesSurviveRestart, RaftInv, [Next]_vars
  PROVE  AppendCallsGenuine'
<1>1. TypeOK
  BY DEF RaftInv
<1>2. ASSUME NEW m \in appendEntriesArgs' PROVE RequestIsGenuine(m)'
  <2>1. CASE m \in appendEntriesArgs
    BY <2>1, RequestStaysGenuine
  <2>2. CASE m \notin appendEntriesArgs
    <3>1. PICK i \in Server : DoHeartBeat(i)
      BY <1>1, <2>2, AppendCallSteps
    <3>2. PICK r \in FreeRounds(i) :
            appendEntriesArgs' = appendEntriesArgs \cup
              {HeartBeatArgs(i, j, r) : j \in Server \ {i}}
      BY <3>1, Zenon DEF DoHeartBeat
    <3>3. PICK j \in Server \ {i} : m = HeartBeatArgs(i, j, r)
      BY <2>2, <3>2
    <3> QED
      BY <3>1, <3>3, HeartBeatIsGenuine
  <2> QED
    BY <2>1, <2>2
<1>3. ASSUME NEW r \in appendEntriesReply' PROVE ReplyIsGenuine(r)'
  <2>1. CASE r \in appendEntriesReply
    BY <2>1, ReplyStaysGenuine
  <2>2. CASE r \notin appendEntriesReply
    <3>1. PICK m \in appendEntriesArgs : HandleAppendEntries(m)
      BY <1>1, <2>2, AppendCallSteps
    <3> QED
      BY <2>2, <3>1, NewReplyIsGenuine
  <2> QED
    BY <2>1, <2>2
<1> QED
  BY <1>2, <1>3 DEF AppendCallsGenuine

-----------------------------------------------------------------------------
\* Entries

\* The only new entry is the one a leader takes.
LEMMA NewPlace ==
  ASSUME VotesSurviveRestart, RaftInv, [Next]_vars, NEW p \in Placed', p \notin Placed
  PROVE  \E i \in Server, command \in Command :
           /\ StartConses(i, command)
           /\ p = [index |-> Len(logs[i]) + 1,
                   entry |-> [term |-> currentTerm[i], command |-> command]]
<1> DEFINE Taken(i, command) ==
             /\ StartConses(i, command)
             /\ p = [index |-> Len(logs[i]) + 1,
                     entry |-> [term |-> currentTerm[i], command |-> command]]
<1>1. TypeOK /\ TypeOK' /\ LogsOnDisk
  BY TypeNext DEF RaftInv, LogInv
<1>2. ASSUME NEW j \in Server, NEW k \in 1 .. Len(logs'[j]),
             p = [index |-> k, entry |-> logs'[j][k]]
      PROVE  \E i \in Server, command \in Command : Taken(i, command)
  <2>1. ASSUME k \in 1 .. Len(logs[j]), logs'[j][k] = logs[j][k] PROVE FALSE
    BY <1>1, <1>2, <2>1, LogPlaces DEF TypeOK
  <2>2. logs'[j] # logs[j]
    BY <1>2, <2>1
  <2>3. ASSUME NEW m \in appendEntriesArgs, AcceptEntries(m) PROVE FALSE
    <3> DEFINE prev == m.prevLogIndex
    <3>1. /\ m.callee = j
          /\ prev \in Nat /\ m.entries \in Seq(Entry) /\ logs[j] \in Seq(Entry)
          /\ prev <= Len(logs[j]) /\ logs'[j] = MergeEntries(logs[j], prev, m.entries)
      BY <1>1, <2>2, <2>3, AcceptedLog
    <3>2. k - prev \in 1 .. Len(m.entries) /\ logs'[j][k] = m.entries[k - prev]
      BY <1>2, <2>1, <3>1, MergedEntry
    <3>3. [index |-> prev + (k - prev), entry |-> m.entries[k - prev]] \in Placed
      BY <3>1, <3>2, RequestPlaces
    <3>4. prev + (k - prev) = k
      BY <3>1, SMT
    <3> QED
      BY <1>2, <3>2, <3>3, <3>4
  <2>4. ASSUME NEW i \in Server, NEW command \in Command, StartConses(i, command)
        PROVE  Taken(i, command)
    <3>1. i = j
      BY <1>1, <2>2, <2>4, TakenCommand
    <3>2. /\ Len(logs[i]) \in Nat /\ Len(logs'[i]) = Len(logs[i]) + 1
          /\ \A x \in 1 .. Len(logs[i]) : logs'[i][x] = logs[i][x]
          /\ logs'[i][Len(logs[i]) + 1] = [term |-> currentTerm[i], command |-> command]
      BY <1>1, <2>4, TakenCommand
    <3>3. k = Len(logs[i]) + 1
      <4>1. k \notin 1 .. Len(logs[i])
        BY <2>1, <3>1, <3>2
      <4>2. k \in 1 .. Len(logs[i]) + 1
        BY <3>1, <3>2
      <4> QED
        BY <3>2, <4>1, <4>2, SMT
    <3> QED
      BY <1>2, <2>4, <3>1, <3>2, <3>3
  <2> QED
    BY <1>1, <2>2, <2>3, <2>4, LogSteps
<1>3. ASSUME NEW m \in appendEntriesArgs', NEW k \in DOMAIN m.entries,
             p = [index |-> m.prevLogIndex + k, entry |-> m.entries[k]]
      PROVE  FALSE
  <2>1. m.entries \in Seq(Entry) /\ m.prevLogIndex \in Nat /\ Len(m.entries) \in Nat
    BY <1>1, LenProperties DEF TypeOK, AppendEntriesArgs
  <2>2. k \in 1 .. Len(m.entries)
    BY <2>1, LenProperties
  <2>3. m \notin appendEntriesArgs
    BY <1>3, <2>1, <2>2, RequestPlaces
  <2>4. PICK i \in Server : DoHeartBeat(i)
    BY <1>1, <2>3, AppendCallSteps
  <2>5. PICK r \in FreeRounds(i) :
          appendEntriesArgs' = appendEntriesArgs \cup
            {HeartBeatArgs(i, j, r) : j \in Server \ {i}}
    BY <2>4, Zenon DEF DoHeartBeat
  <2>6. PICK j \in Server \ {i} : m = HeartBeatArgs(i, j, r)
    BY <2>3, <2>5
  <2>7. RequestIsGenuine(m)'
    BY <2>4, <2>6, HeartBeatIsGenuine
  <2>8. /\ m.caller = i /\ m.term = currentTerm[i]
        /\ logs' = logs /\ currentTerm' = currentTerm
    BY <2>4, <2>6 DEF HeartBeatArgs, DoHeartBeat, logVars, electionVars
  <2>9. CopiesLog(m)
    BY <2>7, <2>8 DEF RequestIsGenuine, InTerm, CopiesLog, TermAt
  <2>10. /\ m.prevLogIndex + Len(m.entries) <= Len(logs[i])
         /\ m.entries[k] = logs[i][m.prevLogIndex + k]
    BY <1>3, <2>8, <2>9 DEF CopiesLog
  <2>11. logs[i] \in Seq(Entry) /\ Len(logs[i]) \in Nat
    BY <1>1, LenProperties DEF TypeOK
  <2>12. m.prevLogIndex + k \in 1 .. Len(logs[i])
    BY <2>1, <2>2, <2>10, <2>11, SMT
  <2> QED
    BY <1>3, <2>10, <2>11, <2>12, LogPlaces
<1>4. \/ \E j \in Server : \E k \in DOMAIN logs'[j] : p = [index |-> k, entry |-> logs'[j][k]]
      \/ \E m \in appendEntriesArgs' : \E k \in DOMAIN m.entries :
           p = [index |-> m.prevLogIndex + k, entry |-> m.entries[k]]
  BY DEF Placed, InLog, InRequest
<1>5. \A j \in Server : DOMAIN logs'[j] = 1 .. Len(logs'[j])
  BY <1>1, LenProperties DEF TypeOK
<1> HIDE DEF Taken
<1>6. \E i \in Server, command \in Command : Taken(i, command)
  BY <1>2, <1>3, <1>4, <1>5
<1> QED
  BY <1>6 DEF Taken

LEMMA PlacedType ==
  ASSUME TypeOK, NEW p \in Placed
  PROVE  p.index \in Nat /\ p.entry \in Entry /\ p.entry.term \in Term
<1>1. ASSUME NEW i \in Server, NEW k \in DOMAIN logs[i],
             p = [index |-> k, entry |-> logs[i][k]]
      PROVE  p.index \in Nat /\ p.entry \in Entry
  <2>1. logs[i] \in Seq(Entry)
    BY DEF TypeOK
  <2>2. k \in 1 .. Len(logs[i]) /\ k \in Nat
    BY <2>1, LenProperties, SMT
  <2> QED
    BY <1>1, <2>1, <2>2, ElementOfSeq
<1>2. ASSUME NEW m \in appendEntriesArgs, NEW k \in DOMAIN m.entries,
             p = [index |-> m.prevLogIndex + k, entry |-> m.entries[k]]
      PROVE  p.index \in Nat /\ p.entry \in Entry
  <2>1. m.entries \in Seq(Entry) /\ m.prevLogIndex \in Nat
    BY DEF TypeOK, AppendEntriesArgs
  <2>2. k \in 1 .. Len(m.entries) /\ m.prevLogIndex + k \in Nat
    BY <2>1, LenProperties, SMT
  <2> QED
    BY <1>2, <2>1, <2>2, ElementOfSeq
<1>3. p.index \in Nat /\ p.entry \in Entry
  BY <1>1, <1>2 DEF Placed, InLog, InRequest
<1> QED
  BY <1>3 DEF Entry

LEMMA EntryHasLeaderNext ==
  ASSUME VotesSurviveRestart, RaftInv, [Next]_vars
  PROVE  EntryHasLeader'
<1> SUFFICES ASSUME NEW p \in Placed' PROVE \E i \in Server : Elected(i, p.entry.term)'
  BY DEF EntryHasLeader
<1>1. CASE p \in Placed
  <2>1. PICK i \in Server : Elected(i, p.entry.term)
    BY <1>1 DEF RaftInv, LogInv, EntryHasLeader
  <2>2. p.entry.term \in Term
    BY <1>1, PlacedType DEF RaftInv
  <2> QED
    BY <2>1, <2>2, ElectedFacts
<1>2. CASE p \notin Placed
  <2>1. PICK i \in Server, command \in Command :
          /\ StartConses(i, command)
          /\ p = [index |-> Len(logs[i]) + 1,
                  entry |-> [term |-> currentTerm[i], command |-> command]]
    BY <1>2, NewPlace
  <2>2. status[i] = "Leader" /\ p.entry.term = currentTerm[i]
    BY <2>1 DEF StartConses
  <2>3. p.entry.term \in Term /\ Elected(i, p.entry.term)
    BY <2>2, LeaderFacts
  <2> QED
    BY <2>3, ElectedFacts
<1> QED
  BY <1>1, <1>2

\* A leader has every entry of its term, so the next index is free for a new one.
LEMMA EntryIsUniqueNext ==
  ASSUME VotesSurviveRestart, RaftInv, [Next]_vars
  PROVE  EntryIsUnique'
<1> DEFINE New(i, command) == [index |-> Len(logs[i]) + 1,
                               entry |-> [term |-> currentTerm[i], command |-> command]]
<1>1. TypeOK /\ EntryIsUnique /\ LeaderHasEntry
  BY DEF RaftInv, LogInv
<1>2. ASSUME NEW i \in Server, NEW command \in Command, StartConses(i, command),
             NEW q \in Placed, q.index = Len(logs[i]) + 1, q.entry.term = currentTerm[i]
      PROVE  FALSE
  <2>1. Elected(i, currentTerm[i]) /\ InTerm(i, currentTerm[i])
    BY <1>2, LeaderFacts DEF StartConses
  <2>2. q.index \in DOMAIN logs[i]
    BY <1>1, <1>2, <2>1 DEF LeaderHasEntry
  <2>3. Len(logs[i]) \in Nat /\ DOMAIN logs[i] = 1 .. Len(logs[i])
    BY <1>1, LenProperties DEF TypeOK
  <2> QED
    BY <1>2, <2>2, <2>3, SMT
<1>3. ASSUME NEW i \in Server, NEW c \in Command, StartConses(i, c),
             NEW j \in Server, NEW d \in Command, StartConses(j, d)
      PROVE  New(i, c) = New(j, d)
  <2>1. /\ Len(logs[i]) \in Nat /\ Len(logs'[i]) = Len(logs[i]) + 1
        /\ logs'[i][Len(logs[i]) + 1] = [term |-> currentTerm[i], command |-> c]
    BY <1>1, <1>3, TakenCommand
  <2>2. i # j => logs'[i] = logs[i]
    BY <1>1, <1>3, TakenCommand
  <2>3. i = j
    BY <2>1, <2>2, SMT
  <2>4. logs'[j][Len(logs[j]) + 1] = [term |-> currentTerm[j], command |-> d]
    BY <1>1, <1>3, TakenCommand
  <2> QED
    BY <2>1, <2>3, <2>4
<1> SUFFICES ASSUME NEW p \in Placed', NEW q \in Placed', p.index = q.index,
                    p.entry.term = q.entry.term
             PROVE  p.entry = q.entry
  BY DEF EntryIsUnique
<1>4. ASSUME NEW x \in Placed', x \notin Placed
      PROVE  \E i \in Server, c \in Command :
               /\ StartConses(i, c) /\ x = New(i, c)
               /\ x.index = Len(logs[i]) + 1 /\ x.entry.term = currentTerm[i]
  BY <1>4, NewPlace
<1> HIDE DEF New
<1>5. CASE p \in Placed /\ q \in Placed
  BY <1>1, <1>5 DEF EntryIsUnique
<1>6. CASE p \notin Placed /\ q \in Placed
  BY <1>2, <1>4, <1>6
<1>7. CASE p \in Placed /\ q \notin Placed
  BY <1>2, <1>4, <1>7
<1>8. CASE p \notin Placed /\ q \notin Placed
  BY <1>3, <1>4, <1>8
<1> QED
  BY <1>5, <1>6, <1>7, <1>8

LEMMA LeaderHasEntryNext ==
  ASSUME VotesSurviveRestart, RaftInv, [Next]_vars
  PROVE  LeaderHasEntry'
<1> SUFFICES ASSUME NEW i \in Server, NEW p \in Placed',
                    Elected(i, p.entry.term)', InTerm(i, p.entry.term)'
             PROVE  p.index \in DOMAIN logs'[i] /\ logs'[i][p.index] = p.entry
  BY DEF LeaderHasEntry
<1> DEFINE t == p.entry.term
<1>1. TypeOK /\ TypeOK' /\ EntryHasLeader /\ LeaderHasEntry
  BY TypeNext DEF RaftInv, LogInv
<1>2. DOMAIN logs[i] = 1 .. Len(logs[i]) /\ DOMAIN logs'[i] = 1 .. Len(logs'[i])
  BY <1>1, LenProperties DEF TypeOK
<1>3. CASE p \in Placed
  <2>1. PICK c \in Server : Elected(c, t)
    BY <1>1, <1>3 DEF EntryHasLeader
  <2>2. t \in Term
    BY <1>1, <1>3, PlacedType
  <2>3. Elected(c, t)'
    BY <2>1, <2>2, ElectedFacts
  <2>4. c = i
    BY <2>3, OneElectedNext
  <2>5. Elected(i, t) /\ InTerm(i, t)
    BY <2>1, <2>2, <2>4, ElectedFacts
  <2>6. p.index \in 1 .. Len(logs[i]) /\ logs[i][p.index] = p.entry
    BY <1>1, <1>2, <1>3, <2>5 DEF LeaderHasEntry
  <2>7. /\ Len(logs[i]) \in Nat /\ Len(logs'[i]) \in Nat /\ Len(logs[i]) <= Len(logs'[i])
        /\ \A k \in 1 .. Len(logs[i]) : logs'[i][k] = logs[i][k]
    BY <2>2, <2>5, LeaderLogGrows
  <2>8. p.index \in 1 .. Len(logs'[i])
    BY <2>6, <2>7, SMT
  <2> QED
    BY <1>2, <2>6, <2>7, <2>8
<1>4. CASE p \notin Placed
  <2>1. PICK c \in Server, command \in Command :
          /\ StartConses(c, command)
          /\ p = [index |-> Len(logs[c]) + 1,
                  entry |-> [term |-> currentTerm[c], command |-> command]]
    BY <1>4, NewPlace
  <2>2. t = currentTerm[c] /\ status[c] = "Leader"
    BY <2>1 DEF StartConses
  <2>3. t \in Term /\ Elected(c, t)
    BY <2>2, LeaderFacts
  <2>4. Elected(c, t)'
    BY <2>3, ElectedFacts
  <2>5. c = i
    BY <2>4, OneElectedNext
  <2>6. /\ Len(logs[i]) \in Nat /\ Len(logs'[i]) = Len(logs[i]) + 1
        /\ logs'[i][Len(logs[i]) + 1] = [term |-> currentTerm[i], command |-> command]
    BY <1>1, <2>1, <2>5, TakenCommand
  <2>7. Len(logs[i]) + 1 \in 1 .. Len(logs'[i])
    BY <2>6, SMT
  <2> QED
    BY <1>2, <2>1, <2>5, <2>6, <2>7
<1> QED
  BY <1>3, <1>4

-----------------------------------------------------------------------------
\* Votes, leaders' indices and commit indices

LEMMA VotesForCandidatesNext ==
  ASSUME VotesSurviveRestart, RaftInv, [Next]_vars
  PROVE  VotesForCandidates'
<1>1. TypeOK /\ TypeOK' /\ VotesRemembered /\ VoteCallsGenuine /\ VotesForCandidates
  BY TypeNext DEF RaftInv, ElectionInv, LogInv
<1> SUFFICES ASSUME NEW i \in Server, NEW j \in Server, NEW t \in Term,
                    voteRecord'[j][t] = i
             PROVE  voteRecord'[i][t] = i
  BY DEF VotesForCandidates
<1>2. CASE voteRecord[i][t] = i
  BY <1>1, <1>2, VoteIsFinalStep, NoVoteAssumption
<1>3. CASE voteRecord[j][t] = i
  BY <1>1, <1>2, <1>3 DEF VotesForCandidates
<1>4. ASSUME NEW c \in Server, DoElection(c), voteRecord[j][t] # i PROVE i = j
  <2>1. /\ voteRecord'[c] = [voteRecord[c] EXCEPT ![currentTerm[c] + 1] = c]
        /\ j # c => voteRecord'[j] = voteRecord[j]
    BY <1>1, <1>4, DoElectionVotes
  <2>2. voteRecord[c] \in [Term -> Vote]
    BY <1>1 DEF TypeOK
  <2> QED
    BY <1>4, <2>1, <2>2
<1>5. ASSUME NEW m \in requestVoteArgs, RequestVote(m), voteRecord[j][t] # i
      PROVE  voteRecord[i][t] = i
  <2>1. /\ voteRecord'[m.callee] = IF MayGrant(m.callee, m)
                                   THEN [voteRecord[m.callee] EXCEPT ![m.term] = m.caller]
                                   ELSE voteRecord[m.callee]
        /\ j # m.callee => voteRecord'[j] = voteRecord[j]
        /\ m.callee \in Server
    BY <1>1, <1>5, RequestVoteVotes
  <2>2. voteRecord[m.callee] \in [Term -> Vote]
    BY <1>1, <2>1 DEF TypeOK
  <2>3. t = m.term /\ i = m.caller
    BY <1>5, <2>1, <2>2
  <2> QED
    BY <1>1, <2>3 DEF VoteCallsGenuine, CallIsGenuine
<1>6. ASSUME NEW c \in Server, QuietStep(c) PROVE voteRecord' = voteRecord
  BY <1>6 DEF QuietStep
<1>7. ASSUME NEW c \in Server, Restart(c) PROVE voteRecord' = voteRecord
  BY <1>1, <1>7, RestartVotes
<1>8. ASSUME \/ \E m \in requestVoteReply : VoteReplyCounted(m) \/ BecomeLeader(m)
             \/ \E m \in requestVoteArgs : RefuseExpiredVote(m)
      PROVE  voteRecord' = voteRecord
  BY <1>1, <1>8, CountingVotes
<1>9. \/ voteRecord[j][t] = i \/ voteRecord[i][t] = i \/ i = j
  BY <1>1, <1>4, <1>5, <1>6, <1>7, <1>8, Steps
<1> QED
  BY <1>2, <1>3, <1>9

\* No step shortens a log.
LEMMA LogsGrow ==
  ASSUME VotesSurviveRestart, TypeOK, LogsOnDisk, [Next]_vars, NEW i \in Server
  PROVE  Len(logs[i]) \in Nat /\ Len(logs'[i]) \in Nat /\ Len(logs'[i]) >= Len(logs[i])
<1>1. Len(logs[i]) \in Nat /\ Len(logs'[i]) \in Nat
  BY TypeNext, LenProperties DEF TypeOK
<1>2. CASE logs'[i] = logs[i]
  BY <1>1, <1>2, SMT
<1>3. ASSUME NEW j \in Server, NEW command \in Command, StartConses(j, command)
      PROVE  logs'[i] = logs[i] \/ Len(logs'[i]) = Len(logs[i]) + 1
  BY <1>3, TakenCommand
<1>4. ASSUME NEW m \in appendEntriesArgs, AcceptEntries(m)
      PROVE  logs'[i] = logs[i] \/ Len(logs'[i]) >= Len(logs[i])
  <2>1. CASE m.callee # i
    BY <1>4, <2>1, AcceptedLog
  <2>2. CASE m.callee = i
    <3>1. /\ m.prevLogIndex \in Nat /\ m.entries \in Seq(Entry) /\ logs[i] \in Seq(Entry)
          /\ m.prevLogIndex <= Len(logs[i])
          /\ logs'[i] = MergeEntries(logs[i], m.prevLogIndex, m.entries)
      BY <1>4, <2>2, AcceptedLog
    <3> QED
      BY <3>1, MergeEntriesType
  <2> QED
    BY <2>1, <2>2
<1>5. logs'[i] = logs[i] \/ Len(logs'[i]) = Len(logs[i]) + 1 \/ Len(logs'[i]) >= Len(logs[i])
  BY <1>3, <1>4, LogSteps
<1> QED
  BY <1>1, <1>2, <1>5, SMT

\* Who leads after a step led before it, or has just been elected; what a leader
\* knows of its peers changes by their replies only.
LEMMA LeaderSteps ==
  ASSUME TypeOK, [Next]_vars, NEW i \in Server, status'[i] = "Leader"
  PROVE  \/ \E m \in requestVoteReply : BecomeLeader(m) /\ m.caller = i
         \/ /\ status[i] = "Leader" /\ currentTerm'[i] = currentTerm[i]
            /\ \/ nextIndex'[i] = nextIndex[i] /\ matchIndex'[i] = matchIndex[i]
               \/ \E m \in appendEntriesReply :
                    /\ m.caller = i
                    /\ AppendReplyFailure(m) \/ AppendReplySuccess(m)
<1> DEFINE Same == /\ status[i] = "Leader" /\ currentTerm'[i] = currentTerm[i]
                   /\ nextIndex'[i] = nextIndex[i] /\ matchIndex'[i] = matchIndex[i]
<1>1. ASSUME NEW j \in Server, DoElection(j) PROVE Same
  <2>1. j # i
    BY <1>1, DoElectionVotes
  <2> QED
    BY <1>1, <2>1, DoElectionVotes DEF DoElection, leaderVars
<1>2. ASSUME NEW j \in Server, DoHeartBeat(j) \/ ApplierTicker(j) PROVE Same
  BY <1>2 DEF DoHeartBeat, ApplierTicker, electionVars, leaderVars
<1>3. ASSUME NEW j \in Server, Restart(j) PROVE Same
  BY <1>3 DEF Restart, TypeOK
<1>4. ASSUME NEW j \in Server, NEW command \in Command, StartConses(j, command) PROVE Same
  BY <1>4 DEF StartConses, electionVars, leaderVars
<1>5. ASSUME NEW m \in requestVoteArgs, RefuseExpiredVote(m) PROVE Same
  BY <1>5 DEF RefuseExpiredVote, electionVars, leaderVars
<1>6. ASSUME NEW m \in requestVoteArgs, RequestVote(m) PROVE Same
  <2>1. /\ m.callee \in Server /\ m.term \in Term /\ m.term >= currentTerm[m.callee]
        /\ currentTerm'[m.callee] = m.term
        /\ status'[m.callee] = IF m.term > currentTerm[m.callee] THEN "Follower"
                               ELSE status[m.callee]
        /\ i # m.callee => currentTerm'[i] = currentTerm[i] /\ status'[i] = status[i]
    BY <1>6, RequestVoteVotes
  <2>2. m.term \in Int /\ currentTerm[m.callee] \in Int
    BY <2>1, TermsAreNumbers, TermsOfServers
  <2>3. CASE i = m.callee
    <3>1. ~(m.term > currentTerm[m.callee])
      BY <2>1, <2>3
    <3>2. m.term = currentTerm[m.callee]
      BY <2>1, <2>2, <3>1, SMT
    <3> QED
      BY <1>6, <2>1, <2>3, <3>1, <3>2 DEF RequestVote, leaderVars
  <2>4. CASE i # m.callee
    BY <1>6, <2>1, <2>4 DEF RequestVote, leaderVars
  <2> QED
    BY <2>3, <2>4
<1>7. ASSUME NEW m \in requestVoteReply, VoteReplyNewerTerm(m) PROVE Same
  <2>1. m.caller \in Server
    BY DEF TypeOK, RequestVoteReply
  <2> QED
    BY <1>7, <2>1 DEF VoteReplyNewerTerm, StepDown, TypeOK
<1>8. ASSUME NEW m \in requestVoteReply, VoteReplyCounted(m) PROVE Same
  BY <1>8 DEF VoteReplyCounted
<1>9. ASSUME NEW m \in requestVoteReply, BecomeLeader(m), m.caller # i PROVE Same
  BY <1>9 DEF BecomeLeader, TypeOK, RequestVoteReply
<1>10. ASSUME NEW m \in appendEntriesArgs, HandleAppendEntries(m) PROVE Same
  <2>1. m.callee \in Server
    BY DEF TypeOK, AppendEntriesArgs
  <2>2. nextIndex' = nextIndex /\ matchIndex' = matchIndex
    BY <1>10 DEF HandleAppendEntries, RefuseExpiredEntries, RefuseGap, RefuseMismatch,
                 AcceptEntries, AnswerAppend, leaderVars
  <2>3. FollowLeader(m) \/ (status' = status /\ currentTerm' = currentTerm)
    BY <1>10 DEF HandleAppendEntries, RefuseExpiredEntries, RefuseGap, RefuseMismatch,
                 AcceptEntries
  <2>4. ASSUME FollowLeader(m) PROVE status[i] = "Leader" /\ currentTerm'[i] = currentTerm[i]
    BY <2>1, <2>4 DEF FollowLeader, TypeOK
  <2> QED
    BY <2>2, <2>3, <2>4
<1>11. ASSUME NEW m \in appendEntriesReply, AppendReplyNewerTerm(m) PROVE Same
  <2>1. m.caller \in Server
    BY DEF TypeOK, AppendEntriesReply
  <2> QED
    BY <1>11, <2>1 DEF AppendReplyNewerTerm, StepDown, TypeOK, leaderVars
<1>12. ASSUME NEW m \in appendEntriesReply, AppendReplyStale(m) PROVE Same
  BY <1>12 DEF AppendReplyStale, leaderVars
<1>13. ASSUME NEW m \in appendEntriesReply, AppendReplyFailure(m) \/ AppendReplySuccess(m)
       PROVE  /\ status[i] = "Leader" /\ currentTerm'[i] = currentTerm[i]
              /\ m.caller # i => nextIndex'[i] = nextIndex[i] /\ matchIndex'[i] = matchIndex[i]
  BY <1>13 DEF AppendReplyFailure, AppendReplySuccess, AppendReplyInTerm, TypeOK,
               AppendEntriesReply
<1>14. ASSUME VoteCallFails \/ AppendCallFails \/ UNCHANGED vars PROVE Same
  BY <1>14 DEF VoteCallFails, AppendCallFails, vars, electionVars, leaderVars
<1>15. \/ Same
       \/ \E m \in requestVoteReply : BecomeLeader(m) /\ m.caller = i
       \/ \E m \in appendEntriesReply :
            /\ m.caller = i
            /\ AppendReplyFailure(m) \/ AppendReplySuccess(m)
       \/ \E m \in appendEntriesReply :
            /\ m.caller # i
            /\ AppendReplyFailure(m) \/ AppendReplySuccess(m)
  <2> HIDE DEF Same
  <2> QED
    BY <1>1, <1>2, <1>3, <1>4, <1>5, <1>6, <1>7, <1>8, <1>9, <1>10, <1>11, <1>12, <1>14,
       Zenon
       DEF Next, HandleRequestVote, HandleVoteReply, HandleAppendReply
<1> QED
  BY <1>13, <1>15

LEMMA LeaderKnowsNext ==
  ASSUME VotesSurviveRestart, RaftInv, [Next]_vars
  PROVE  LeaderKnows'
<1>1. TypeOK /\ TypeOK' /\ LogsOnDisk /\ LeaderKnows /\ AppendCallsGenuine
  BY TypeNext DEF RaftInv, LogInv
<1> SUFFICES ASSUME NEW i \in Server, status'[i] = "Leader"
             PROVE  /\ \A j \in Server \ {i} : nextIndex'[i][j] \in 1 .. Len(logs'[i]) + 1
                    /\ \A j \in Server \ {i} : matchIndex'[i][j] > 0 =>
                         Acked(i, j, matchIndex[i][j], currentTerm[i])'
  BY DEF LeaderKnows, NextIndexInLog
<1>2. Len(logs[i]) \in Nat /\ Len(logs'[i]) \in Nat /\ Len(logs'[i]) >= Len(logs[i])
  BY <1>1, LogsGrow
<1>3. ASSUME NEW m \in requestVoteReply, BecomeLeader(m), m.caller = i
      PROVE  \A j \in Server \ {i} :
               nextIndex'[i][j] = Len(logs[i]) + 1 /\ matchIndex'[i][j] = 0
  BY <1>1, <1>3 DEF BecomeLeader, TypeOK
<1>4. CASE \E m \in requestVoteReply : BecomeLeader(m) /\ m.caller = i
  <2>1. \A j \in Server \ {i} : nextIndex'[i][j] = Len(logs[i]) + 1 /\ matchIndex'[i][j] = 0
    BY <1>3, <1>4
  <2>2. Len(logs[i]) + 1 \in 1 .. Len(logs'[i]) + 1 /\ ~(0 > 0)
    BY <1>2, SMT
  <2> QED
    BY <2>1, <2>2, Zenon
<1>5. ASSUME status[i] = "Leader", currentTerm'[i] = currentTerm[i],
             NEW j \in Server \ {i}, NEW n \in 1 .. Len(logs[i]) + 1, NEW k \in Nat,
             nextIndex'[i][j] = n, matchIndex'[i][j] = k,
             k > 0 => Acked(i, j, k, currentTerm[i])
      PROVE  /\ nextIndex'[i][j] \in 1 .. Len(logs'[i]) + 1
             /\ matchIndex'[i][j] > 0 => Acked(i, j, matchIndex[i][j], currentTerm[i])'
  <2>1. n \in 1 .. Len(logs'[i]) + 1
    BY <1>2, SMT
  <2>2. ASSUME NEW t \in Term, t = currentTerm[i], k > 0, Acked(i, j, k, t)
        PROVE  Acked(i, j, k, t)'
    BY <2>2, AckedStays
  <2>3. currentTerm[i] \in Term
    BY <1>1 DEF TypeOK
  <2>4. ASSUME k > 0 PROVE Acked(i, j, matchIndex[i][j], currentTerm[i])'
    <3>1. PICK t \in Term : t = currentTerm[i]
      BY <2>3
    <3>2. Acked(i, j, k, t)'
      BY <1>5, <2>2, <2>4, <3>1
    <3> QED
      BY <1>5, <3>1, <3>2 DEF Acked, Elected, Majority, Voters, Reached, InTerm
  <2> QED
    BY <1>5, <2>1, <2>4
<1>6. ASSUME status[i] = "Leader", NEW j \in Server \ {i}
      PROVE  /\ nextIndex[i][j] \in 1 .. Len(logs[i]) + 1
             /\ matchIndex[i][j] \in Nat
             /\ matchIndex[i][j] > 0 => Acked(i, j, matchIndex[i][j], currentTerm[i])
  BY <1>1, <1>6 DEF LeaderKnows, NextIndexInLog, TypeOK
<1>7. CASE /\ status[i] = "Leader" /\ currentTerm'[i] = currentTerm[i]
           /\ nextIndex'[i] = nextIndex[i] /\ matchIndex'[i] = matchIndex[i]
  BY <1>5, <1>6, <1>7
<1>8. ASSUME NEW m \in appendEntriesReply, m.caller = i,
             status[i] = "Leader", currentTerm'[i] = currentTerm[i],
             AppendReplyFailure(m)
      PROVE  /\ \A j \in Server \ {i} : nextIndex'[i][j] \in 1 .. Len(logs'[i]) + 1
             /\ \A j \in Server \ {i} : matchIndex'[i][j] > 0 =>
                  Acked(i, j, matchIndex[i][j], currentTerm[i])'
  <2>1. /\ matchIndex' = matchIndex
        /\ nextIndex' = IF m.updateNextIndex = NoHint THEN nextIndex
                        ELSE [nextIndex EXCEPT ![i][m.callee] = m.updateNextIndex]
        /\ m.term = currentTerm[i] /\ ~m.success
    BY <1>8 DEF AppendReplyFailure, AppendReplyInTerm
  <2>2. m.updateNextIndex # NoHint => m.updateNextIndex \in 1 .. Len(logs[i]) + 1
    BY <1>1, <1>8, <2>1, LeaderFacts DEF AppendCallsGenuine, ReplyIsGenuine, HintInLog
  <2>3. ASSUME NEW j \in Server \ {i} PROVE nextIndex'[i][j] \in 1 .. Len(logs[i]) + 1
    <3>1. \/ nextIndex'[i][j] = nextIndex[i][j]
          \/ m.updateNextIndex # NoHint /\ nextIndex'[i][j] = m.updateNextIndex
      <4>1. nextIndex \in [Server -> [Server -> Nat]] /\ m.callee \in Server
        BY <1>1 DEF TypeOK, AppendEntriesReply
      <4>2. CASE m.updateNextIndex # NoHint
        <5>1. nextIndex' = [nextIndex EXCEPT ![i][m.callee] = m.updateNextIndex]
          BY <2>1, <4>2
        <5> QED
          BY <4>1, <4>2, <5>1
      <4> QED
        BY <2>1, <4>2
    <3> QED
      BY <1>6, <1>8, <2>2, <3>1
  <2> QED
    BY <1>5, <1>6, <1>8, <2>1, <2>3
<1>9. ASSUME NEW m \in appendEntriesReply, m.caller = i,
             status[i] = "Leader", currentTerm'[i] = currentTerm[i],
             AppendReplySuccess(m)
      PROVE  /\ \A j \in Server \ {i} : nextIndex'[i][j] \in 1 .. Len(logs'[i]) + 1
             /\ \A j \in Server \ {i} : matchIndex'[i][j] > 0 =>
                  Acked(i, j, matchIndex[i][j], currentTerm[i])'
  <2> DEFINE match == AckedIndex(matchIndex[i][m.callee], m.upTo)
  <2>1. /\ matchIndex' = [matchIndex EXCEPT ![i][m.callee] = match]
        /\ nextIndex' = [nextIndex EXCEPT ![i][m.callee] = match + 1]
        /\ match <= Len(logs[i]) /\ m.term = currentTerm[i] /\ m.success
    BY <1>9 DEF AppendReplySuccess, AppendReplyInTerm
  <2>2. m.callee \in Server \ {i} /\ m.upTo \in Nat
    BY <1>1, <1>9 DEF AppendCallsGenuine, ReplyIsGenuine, TypeOK, AppendEntriesReply
  <2>3. matchIndex[i][m.callee] \in Nat
    BY <1>6, <1>9, <2>2
  <2>4. match \in Nat /\ (match = matchIndex[i][m.callee] \/ match = m.upTo)
    BY <2>2, <2>3, MaxOfPair DEF AckedIndex
  <2>5. match > 0 => Acked(i, m.callee, match, currentTerm[i])
    <3>1. Acked(i, m.callee, m.upTo, currentTerm[i])
      BY <1>1, <1>9, <2>1 DEF AppendCallsGenuine, ReplyIsGenuine
    <3> HIDE DEF match
    <3> QED
      BY <1>6, <1>9, <2>2, <2>4, <3>1
  <2> HIDE DEF match
  <2>6. match + 1 \in 1 .. Len(logs[i]) + 1
    BY <1>2, <2>1, <2>4, SMT
  <2>7. ASSUME NEW j \in Server \ {i}
        PROVE  \/ j = m.callee /\ nextIndex'[i][j] = match + 1 /\ matchIndex'[i][j] = match
               \/ nextIndex'[i][j] = nextIndex[i][j] /\ matchIndex'[i][j] = matchIndex[i][j]
    BY <1>1, <2>1 DEF TypeOK
  <2> QED
    BY <1>5, <1>6, <1>9, <2>4, <2>5, <2>6, <2>7
<1> QED
  BY <1>1, <1>4, <1>7, <1>8, <1>9, LeaderSteps

\* Every handler that raises a commit index looks at the log's length.
LEMMA CommitInLogNext ==
  ASSUME VotesSurviveRestart, RaftInv, [Next]_vars
  PROVE  CommitInLog'
<1>1. TypeOK /\ TypeOK' /\ LogsOnDisk /\ CommitInLog
  BY TypeNext DEF RaftInv, LogInv
<1> SUFFICES ASSUME NEW i \in Server PROVE commitIndex'[i] <= Len(logs'[i])
  BY DEF CommitInLog
<1> DEFINE Same == commitIndex'[i] = commitIndex[i]
           Safe == commitIndex'[i] <= Len(logs'[i])
<1>2. /\ Len(logs[i]) \in Nat /\ Len(logs'[i]) \in Nat /\ Len(logs'[i]) >= Len(logs[i])
      /\ commitIndex[i] \in Nat /\ commitIndex[i] <= Len(logs[i])
  BY <1>1, LogsGrow DEF TypeOK, CommitInLog
<1>3. ASSUME NEW j \in Server, DoElection(j) \/ DoHeartBeat(j) \/ ApplierTicker(j)
      PROVE  Same
  BY <1>3 DEF DoElection, DoHeartBeat, ApplierTicker, logVars
<1>4. ASSUME NEW j \in Server, Restart(j) PROVE commitIndex'[i] = 0 \/ Same
  BY <1>1, <1>4 DEF Restart, TypeOK
<1>5. ASSUME NEW j \in Server, NEW command \in Command, StartConses(j, command) PROVE Same
  BY <1>5 DEF StartConses
<1>6. ASSUME NEW m \in requestVoteArgs, HandleRequestVote(m) PROVE Same
  BY <1>6 DEF HandleRequestVote, RefuseExpiredVote, RequestVote, logVars
<1>7. ASSUME NEW m \in requestVoteReply, HandleVoteReply(m) PROVE Same
  BY <1>7 DEF HandleVoteReply, VoteReplyNewerTerm, VoteReplyCounted,
              BecomeLeader, VoteReplyArrives, logVars
<1>8. ASSUME NEW m \in appendEntriesArgs, HandleAppendEntries(m) PROVE Same \/ Safe
  <2>1. CASE RefuseExpiredEntries(m) \/ RefuseGap(m) \/ RefuseMismatch(m)
    BY <2>1 DEF RefuseExpiredEntries, RefuseGap, RefuseMismatch, logVars
  <2>2. CASE AcceptEntries(m) /\ m.callee # i
    BY <1>1, <2>2 DEF AcceptEntries, TypeOK
  <2>3. CASE AcceptEntries(m) /\ m.callee = i
    <3>1. logs'[i] = MergeEntries(logs[i], m.prevLogIndex, m.entries)
      BY <1>1, <2>3, AcceptedLog
    <3>2. commitIndex'[i] = FollowerCommit(commitIndex[i], m.leaderCommit, Len(logs'[i]))
      BY <1>1, <2>3 DEF AcceptEntries, TypeOK
    <3>3. Len(MergeEntries(logs[i], m.prevLogIndex, m.entries))
            >= FollowerCommit(commitIndex[i], m.leaderCommit,
                              Len(MergeEntries(logs[i], m.prevLogIndex, m.entries)))
      BY <2>3 DEF AcceptEntries, AcceptedLogCovers
    <3>4. m.leaderCommit \in Nat
      BY <1>1 DEF TypeOK, AppendEntriesArgs
    <3>5. FollowerCommit(commitIndex[i], m.leaderCommit, Len(logs'[i])) \in Nat
      BY <1>2, <3>4, FollowerCommitType
    <3>6. Len(logs'[i]) >= commitIndex'[i] /\ commitIndex'[i] \in Nat
      BY <3>1, <3>2, <3>3, <3>5
    <3> QED
      BY <1>2, <3>6, SMT
  <2> QED
    BY <1>8, <2>1, <2>2, <2>3 DEF HandleAppendEntries
<1>9. ASSUME NEW m \in appendEntriesReply, HandleAppendReply(m) PROVE Same \/ Safe
  <2>1. CASE AppendReplyNewerTerm(m) \/ AppendReplyStale(m) \/ AppendReplyFailure(m)
    BY <2>1 DEF AppendReplyNewerTerm, AppendReplyStale, AppendReplyFailure
  <2>2. CASE AppendReplySuccess(m)
    <3>1. logs' = logs
      BY <2>2 DEF AppendReplySuccess, AppendReplyInTerm, AppendReplyArrives
    <3>2. \/ commitIndex' = commitIndex
          \/ /\ commitIndex' = [commitIndex EXCEPT ![m.caller] = LeaderCommit(m.caller, m, @)]
             /\ commitIndex'[m.caller] <= Len(logs[m.caller])
      BY <2>2, Zenon DEF AppendReplySuccess
    <3> QED
      BY <1>1, <3>1, <3>2 DEF TypeOK
  <2> QED
    BY <1>9, <2>1, <2>2 DEF HandleAppendReply
<1>10. ASSUME VoteCallFails \/ AppendCallFails \/ UNCHANGED vars PROVE Same
  BY <1>10 DEF VoteCallFails, AppendCallFails, vars, logVars
<1>11. Same \/ Safe \/ commitIndex'[i] = 0
  <2> HIDE DEF Same, Safe
  <2> QED
    BY <1>3, <1>4, <1>5, <1>6, <1>7, <1>8, <1>9, <1>10, Zenon DEF Next
<1> QED
  BY <1>2, <1>11, SMT

\* Who leads votes for itself.
LEMMA LeaderVotesForItself ==
  ASSUME RaftInv, NEW i \in Server, NEW t \in Term, Elected(i, t)
  PROVE  voteRecord[i][t] = i
<1>1. Majority(Cardinality(Voters(i, t))) /\ Majority(Cardinality(Server))
  <2>1. Cardinality(Server) >= Cardinality(Server) \div 2 + 1
    <3>1. Cardinality(Server) \in Nat /\ Cardinality(Server) # 0
      BY ServerAssumption, FS_CardinalityType, FS_EmptySet
    <3> QED
      BY <3>1, SMT
  <2> QED
    BY <2>1 DEF Elected, Majority
<1>2. Voters(i, t) \cap Server # {}
  BY <1>1, MajoritiesMeet DEF Voters
<1> QED
  BY <1>2 DEF Voters, RaftInv, LogInv, VotesForCandidates

\* A leader's late votes, one server at a time.
FewLate(i) == status[i] = "Leader" =>
  votedNum[i] + (Cardinality(Server) \div 2 + 1)
    <= Cardinality(Voters(i, currentTerm[i]) \ Awaited(i))

\* What is counted is no longer awaited.
LEMMA FewLateKept ==
  ASSUME VotesSurviveRestart, RaftInv, [Next]_vars, NEW i \in Server, FewLate(i),
         status[i] = "Leader", currentTerm'[i] = currentTerm[i], boot'[i] = boot[i],
         votedNum'[i] = votedNum[i]
  PROVE  FewLate(i)'
<1> DEFINE t == currentTerm[i]
           S == Voters(i, t) \ Awaited(i)
           T == Voters(i, t)' \ Awaited(i)'
           h == Cardinality(Server) \div 2 + 1
<1>1. TypeOK /\ VotesRemembered /\ t \in Term /\ votedNum[i] \in Nat
  BY DEF RaftInv, ElectionInv, TypeOK
<1>2. S \subseteq T
  BY <1>1, VotersGrow, AwaitedShrinks
<1>3. Cardinality(S) <= Cardinality(T) /\ Cardinality(S) \in Nat /\ Cardinality(T) \in Nat
  BY <1>2, VoterSets, VoterSetsNext, FS_Subset
<1>4. (Voters(i, currentTerm[i]) \ Awaited(i))' = T
  BY DEF Voters
<1>5. h \in Int
  BY ServerAssumption, FS_CardinalityType, SMT
<1> HIDE DEF S, T, h
<1>6. votedNum[i] + h <= Cardinality(S)
  BY DEF FewLate, S, h
<1>7. votedNum[i] + h <= Cardinality(T)
  BY <1>1, <1>3, <1>5, <1>6, SMT
<1> QED
  BY <1>4, <1>7, Zenon DEF FewLate, h

\* The election itself leaves a count of 0 and a majority that was counted.
LEMMA FewLateElected ==
  ASSUME RaftInv, NEW m \in requestVoteReply, BecomeLeader(m)
  PROVE  FewLate(m.caller)'
<1> DEFINE i == m.caller
           T == Voters(i, currentTerm[i]) \ Awaited(i)'
           h == Cardinality(Server) \div 2 + 1
<1>1. /\ TypeOK /\ VotesRemembered /\ VoteCallsGenuine /\ AskedOnce /\ CountIsHonest
      /\ i \in Server
  BY DEF RaftInv, ElectionInv, TypeOK, RequestVoteReply
<1>2. /\ VoteReplyArrives(m) /\ currentTerm' = currentTerm /\ voteRecord' = voteRecord
      /\ m.granted /\ m.term = currentTerm[i] /\ votedNum[i] + 1 >= h
  BY DEF BecomeLeader, VoteReplyArrives, Majority
<1>3. votedNum'[i] = 0
  BY <1>1 DEF BecomeLeader, VotesAfterElection, TypeOK
<1>4. votedNum[i] + 1 <= Cardinality(T)
  BY <1>1, <1>2, VoteArrives
<1>5. votedNum[i] \in Nat /\ Cardinality(T) \in Nat /\ h \in Int
  <2>1. h \in Int
    BY ServerAssumption, FS_CardinalityType, SMT
  <2> QED
    BY <1>1, <2>1, VoterSets DEF TypeOK
<1>6. (Voters(i, currentTerm[i]) \ Awaited(i))' = T
  BY <1>2 DEF Voters
<1> HIDE DEF T, h, i
<1>7. 0 + h <= Cardinality(T)
  BY <1>2, <1>4, <1>5, SMT
<1> QED
  BY <1>3, <1>6, <1>7, Zenon DEF FewLate, h, i

LEMMA FewLateCounted ==
  ASSUME RaftInv, NEW m \in requestVoteReply, VoteReplyCounted(m), FewLate(m.caller),
         m.granted, m.term = currentTerm[m.caller]
  PROVE  FewLate(m.caller)'
<1> DEFINE i == m.caller
           S == Voters(i, currentTerm[i]) \ Awaited(i)
           T == Voters(i, currentTerm[i]) \ Awaited(i)'
           h == Cardinality(Server) \div 2 + 1
<1>1. /\ TypeOK /\ VotesRemembered /\ VoteCallsGenuine /\ AskedOnce /\ i \in Server
  BY DEF RaftInv, ElectionInv, TypeOK, RequestVoteReply
<1>2. /\ VoteReplyArrives(m) /\ currentTerm' = currentTerm /\ voteRecord' = voteRecord
      /\ status' = status
  BY DEF VoteReplyCounted, VoteReplyArrives
<1>3. votedNum'[i] = votedNum[i] + 1
  BY <1>1 DEF VoteReplyCounted, TypeOK
<1>4. Cardinality(S) + 1 <= Cardinality(T)
  BY <1>1, <1>2, VoteLeaves
<1>5. votedNum[i] \in Nat /\ Cardinality(S) \in Nat /\ Cardinality(T) \in Nat /\ h \in Int
  <2>1. h \in Int
    BY ServerAssumption, FS_CardinalityType, SMT
  <2> QED
    BY <1>1, <2>1, VoterSets DEF TypeOK
<1>6. (Voters(i, currentTerm[i]) \ Awaited(i))' = T
  BY <1>2 DEF Voters
<1>7. status[i] = "Leader" => votedNum[i] + h <= Cardinality(S)
  BY DEF FewLate
<1> HIDE DEF S, T, h, i
<1>8. status[i] = "Leader" => votedNum[i] + 1 + h <= Cardinality(T)
  BY <1>4, <1>5, <1>7, SMT
<1> QED
  BY <1>2, <1>3, <1>6, <1>8, Zenon DEF FewLate, h, i

LEMMA LateVotesAreFewNext ==
  ASSUME VotesSurviveRestart, RaftInv, [Next]_vars
  PROVE  LateVotesAreFew'
<1>1. TypeOK /\ LateVotesAreFew
  BY DEF RaftInv, LogInv
<1> SUFFICES ASSUME NEW i \in Server PROVE FewLate(i)'
  BY DEF LateVotesAreFew, FewLate
<1>2. FewLate(i)
  BY <1>1 DEF LateVotesAreFew, FewLate
<1> DEFINE Same == /\ status[i] = "Leader" /\ currentTerm'[i] = currentTerm[i]
                   /\ boot'[i] = boot[i] /\ votedNum'[i] = votedNum[i]
<1>3. status'[i] # "Leader" => FewLate(i)'
  BY DEF FewLate
<1>4. Same => FewLate(i)'
  BY <1>2, FewLateKept
<1>5. ASSUME NEW j \in Server, QuietStep(j), status'[i] = "Leader" PROVE Same
  BY <1>5 DEF QuietStep
<1>6. ASSUME NEW j \in Server, DoElection(j), status'[i] = "Leader" PROVE Same
  BY <1>1, <1>6, DoElectionVotes
<1>7. ASSUME NEW j \in Server, Restart(j), status'[i] = "Leader" PROVE Same
  BY <1>1, <1>7, RestartVotes
<1>8. ASSUME NEW m \in requestVoteArgs, RefuseExpiredVote(m), status'[i] = "Leader" PROVE Same
  BY <1>8 DEF RefuseExpiredVote, electionVars
<1>9. ASSUME NEW m \in requestVoteArgs, RequestVote(m), status'[i] = "Leader" PROVE Same
  <2>1. status[i] = "Leader" /\ currentTerm'[i] = currentTerm[i]
    <3>1. ASSUME NEW n \in requestVoteReply, BecomeLeader(n) PROVE FALSE
      BY <1>9, <3>1 DEF RequestVote, BecomeLeader, VoteReplyArrives, AnswerVote
    <3> QED
      BY <1>1, <1>9, <3>1, LeaderSteps
  <2> QED
    BY <1>1, <1>9, <2>1, RequestVoteVotes
<1>10. ASSUME NEW m \in requestVoteReply, VoteReplyCounted(m) PROVE FewLate(i)'
  <2>1. CASE i = m.caller /\ m.granted /\ m.term = currentTerm[i]
    BY <1>2, <1>10, <2>1, FewLateCounted
  <2>2. CASE ~(i = m.caller /\ m.granted /\ m.term = currentTerm[i])
    <3>1. votedNum'[i] = votedNum[i] /\ status' = status /\ currentTerm' = currentTerm
          /\ boot' = boot
      BY <1>1, <1>10, <2>2 DEF VoteReplyCounted, VoteReplyArrives, TypeOK
    <3> QED
      BY <1>3, <1>4, <3>1
  <2> QED
    BY <2>1, <2>2
<1>11. ASSUME NEW m \in requestVoteReply, BecomeLeader(m) PROVE FewLate(i)'
  <2>1. CASE i = m.caller
    BY <1>11, <2>1, FewLateElected
  <2>2. CASE i # m.caller
    <3>1. votedNum'[i] = votedNum[i] /\ status'[i] = status[i] /\ currentTerm' = currentTerm
          /\ boot' = boot
      BY <1>1, <1>11, <2>2 DEF BecomeLeader, VoteReplyArrives, TypeOK
    <3> QED
      BY <1>3, <1>4, <3>1
  <2> QED
    BY <2>1, <2>2
<1> HIDE DEF Same
<1> QED
  BY <1>1, <1>3, <1>4, <1>5, <1>6, <1>7, <1>8, <1>9, <1>10, <1>11, Steps

-----------------------------------------------------------------------------
\* The theorems

LEMMA LogInvInit == Init => LogInv
<1> SUFFICES ASSUME Init PROVE LogInv
  OBVIOUS
<1>1. \A i \in Server : Len(logs[i]) = 0 /\ DOMAIN logs[i] = {}
  <2>1. \A i \in Server : logs[i] = <<>>
    BY DEF Init
  <2> QED
    BY <2>1, EmptySeq, LenProperties
<1>2. Placed = {}
  BY <1>1 DEF Init, Placed, InLog
<1>3. VotesForCandidates
  BY NoVoteAssumption DEF Init, VotesForCandidates
<1>4. LogsOnDisk /\ LateVotesAreFew /\ LeaderKnows
  BY DEF Init, LogsOnDisk, LateVotesAreFew, LeaderKnows
<1>5. EntryHasLeader /\ EntryIsUnique /\ LeaderHasEntry
  BY <1>2 DEF EntryHasLeader, EntryIsUnique, LeaderHasEntry
<1>6. AppendCallsGenuine
  BY DEF Init, AppendCallsGenuine
<1>7. CommitInLog
  BY <1>1, SMT DEF Init, CommitInLog
<1> QED
  BY <1>3, <1>4, <1>5, <1>6, <1>7 DEF LogInv

LEMMA LogInvNext ==
  ASSUME VotesSurviveRestart, RaftInv, [Next]_vars
  PROVE  LogInv'
<1>1. LogsOnDisk'
  BY LogsOnDiskNext DEF RaftInv, LogInv
<1> QED
  BY <1>1, VotesForCandidatesNext, EntryHasLeaderNext, EntryIsUniqueNext,
     LeaderHasEntryNext, AppendCallsGenuineNext, LeaderKnowsNext, CommitInLogNext,
     LateVotesAreFewNext
     DEF LogInv

\* Everything that logs, disks, requests, replies and indices say of an entry
\* agrees.
THEOREM LogInvariant ==
  ASSUME VotesSurviveRestart
  PROVE  Spec => []LogInv
<1>1. Init => RaftInv
  BY TypeInit, ElectionInvInit, LogInvInit DEF RaftInv
<1>2. RaftInv /\ [Next]_vars => RaftInv'
  BY TypeNext, ElectionInvNext, LogInvNext DEF RaftInv
<1>3. RaftInv => LogInv
  BY DEF RaftInv
<1> QED
  BY <1>1, <1>2, <1>3, PTL DEF Spec

\* What m_matchIndex says of a follower is true while that follower is in the
\* leader's term.
THEOREM AcksAreTrue ==
  ASSUME VotesSurviveRestart
  PROVE  Spec => []AckedEntryHeld
<1>1. RaftInv => AckedEntryHeld
  <2> SUFFICES ASSUME RaftInv, NEW i \in Server, NEW j \in Server, status[i] = "Leader",
                      currentTerm[j] = currentTerm[i], i # j, matchIndex[i][j] > 0
               PROVE  /\ matchIndex[i][j] <= Len(logs[j])
                      /\ logs[j][matchIndex[i][j]] = logs[i][matchIndex[i][j]]
    BY DEF AckedEntryHeld
  <2>1. Acked(i, j, matchIndex[i][j], currentTerm[i])
    BY DEF RaftInv, LogInv, LeaderKnows
  <2> QED
    BY <2>1 DEF Acked, InTerm
<1>2. TypeOK /\ ElectionInv /\ LogInv => AckedEntryHeld
  BY <1>1 DEF RaftInv
<1> QED
  BY <1>2, TypeCorrect, ElectionInvariant, LogInvariant, PTL

\* AppendEntries1 never truncates a log, a restart brings back all of it, and
\* no leader rewrites an entry of its own log while its term lasts.
THEOREM LogsNeverShrink ==
  ASSUME VotesSurviveRestart
  PROVE  Spec => LogNeverShrinks
<1> DEFINE Kept == \A i \in Server :
                     /\ Len(logs'[i]) >= Len(logs[i])
                     /\ status[i] = "Leader" /\ currentTerm'[i] = currentTerm[i]
                          => \A k \in DOMAIN logs[i] : logs'[i][k] = logs[i][k]
<1>1. ASSUME RaftInv, [Next]_vars PROVE Kept
  <2> SUFFICES ASSUME NEW i \in Server
               PROVE  /\ Len(logs'[i]) >= Len(logs[i])
                      /\ status[i] = "Leader" /\ currentTerm'[i] = currentTerm[i]
                           => \A k \in DOMAIN logs[i] : logs'[i][k] = logs[i][k]
    OBVIOUS
  <2>1. Len(logs'[i]) >= Len(logs[i])
    BY <1>1, LogsGrow DEF RaftInv, LogInv
  <2>2. DOMAIN logs[i] = 1 .. Len(logs[i])
    BY <1>1, LenProperties DEF RaftInv, TypeOK
  <2>3. ASSUME status[i] = "Leader", currentTerm'[i] = currentTerm[i]
        PROVE  \A k \in 1 .. Len(logs[i]) : logs'[i][k] = logs[i][k]
    <3>1. PICK t \in Term : t = currentTerm[i]
      BY <1>1, LeaderFacts
    <3>2. Elected(i, t) /\ InTerm(i, t)'
      BY <1>1, <2>3, <3>1, LeaderFacts DEF InTerm
    <3> QED
      BY <1>1, <3>2, LeaderLogGrows
  <2> QED
    BY <2>1, <2>2, <2>3
<1>2. TypeOK /\ ElectionInv /\ LogInv /\ [Next]_vars => [Kept]_logs
  BY <1>1 DEF RaftInv
<1> QED
  BY <1>2, TypeCorrect, ElectionInvariant, LogInvariant, PTL DEF Spec, LogNeverShrinks

-----------------------------------------------------------------------------
\* The assertions of raft.cpp

\* AppendEntries1: no clash in the loop, and a log that reaches as far as the
\* request and the new commit index say.
LEMMA AcceptedLogAlwaysCovers ==
  ASSUME RaftInv, NEW m \in appendEntriesArgs, EntriesFit(m)
  PROVE  AcceptedLogCovers(m)
<1> DEFINE i == m.callee
           prev == m.prevLogIndex
           log == MergeEntries(logs[i], prev, m.entries)
<1>1. /\ TypeOK /\ EntryIsUnique /\ CommitInLog
      /\ i \in Server /\ prev \in Nat /\ m.entries \in Seq(Entry) /\ m.leaderCommit \in Nat
      /\ logs[i] \in Seq(Entry) /\ commitIndex[i] \in Nat
  BY DEF RaftInv, LogInv, TypeOK, AppendEntriesArgs
<1>2. prev <= Len(logs[i])
  BY DEF EntriesFit
<1>3. NoClash(logs[i], prev, m.entries)
  <2> SUFFICES ASSUME NEW k \in DOMAIN m.entries, prev + k <= Len(logs[i]),
                      logs[i][prev + k].term = m.entries[k].term
               PROVE  logs[i][prev + k].command = m.entries[k].command
    BY DEF NoClash
  <2> DEFINE p == [index |-> prev + k, entry |-> logs[i][prev + k]]
             q == [index |-> prev + k, entry |-> m.entries[k]]
  <2>1. k \in 1 .. Len(m.entries) /\ prev + k \in 1 .. Len(logs[i])
    BY <1>1, LenProperties, SMT
  <2>2. p \in Placed
    BY <1>1, <2>1, LogPlaces
  <2>3. q \in Placed
    BY <1>1, <2>1, RequestPlaces
  <2>4. /\ p.index = q.index
        /\ p.entry = logs[i][prev + k] /\ q.entry = m.entries[k]
    OBVIOUS
  <2> HIDE DEF p, q
  <2>5. p.entry = q.entry
    BY <1>1, <2>2, <2>3, <2>4 DEF EntryIsUnique
  <2> QED
    BY <2>4, <2>5
<1>4. /\ log \in Seq(Entry) /\ Len(log) >= Len(logs[i])
      /\ Len(log) >= prev + Len(m.entries)
  BY <1>1, <1>2, MergeEntriesType
<1>5. commitIndex[i] <= Len(logs[i])
  BY <1>1 DEF CommitInLog
<1>6. Len(log) \in Nat /\ Len(logs[i]) \in Nat
  BY <1>1, <1>4, LenProperties
<1> HIDE DEF log
<1>7. FollowerCommit(commitIndex[i], m.leaderCommit, Len(log)) <= Len(log)
  BY <1>1, <1>4, <1>5, <1>6, MinOfPair, SMTT(30) DEF FollowerCommit
<1>8. FollowerCommit(commitIndex[i], m.leaderCommit, Len(log)) \in Nat
  BY <1>1, <1>6, FollowerCommitType
<1>9. Len(log) >= FollowerCommit(commitIndex[i], m.leaderCommit, Len(log))
  BY <1>6, <1>7, <1>8, SMT
<1> QED
  BY <1>3, <1>4, <1>9 DEF AcceptedLogCovers, log

\* sendRequestVote: a leader never counts a second majority in its election.
LEMMA NoSecondMajority ==
  ASSUME RaftInv, NEW m \in requestVoteReply, m.boot = boot[m.caller],
         m.term = currentTerm[m.caller], m.granted, Majority(votedNum[m.caller] + 1)
  PROVE  status[m.caller] # "Leader"
<1> SUFFICES ASSUME status[m.caller] = "Leader" PROVE FALSE
  OBVIOUS
<1> DEFINE i == m.caller
           V == Voters(i, currentTerm[i])
           s == Cardinality(V \ Awaited(i))
           n == Cardinality(Server)
<1>1. TypeOK /\ VotesRemembered /\ VoteCallsGenuine /\ LateVotesAreFew
  BY DEF RaftInv, ElectionInv, LogInv
<1>2. i \in Server /\ s + 1 <= Cardinality(V)
  BY <1>1, VoteToCount
<1>3. votedNum[i] + (n \div 2 + 1) <= s
  BY <1>1, <1>2 DEF LateVotesAreFew
<1>4. votedNum[i] + 1 >= n \div 2 + 1
  BY DEF Majority
<1>5. Cardinality(V) <= n /\ Cardinality(V) \in Nat /\ n \in Nat
  BY MajorityOfVoters, ServerAssumption, FS_Subset
<1>6. votedNum[i] \in Nat /\ s \in Nat
  BY <1>1, <1>2, VoterSets DEF TypeOK
<1> HIDE DEF i, V, s, n
<1> QED
  BY <1>2, <1>3, <1>4, <1>5, <1>6, SMT

\* No assertion of raft.cpp can exit a process, whatever was lost, delayed or
\* reordered.
THEOREM AssertionsNeverFail ==
  ASSUME VotesSurviveRestart
  PROVE  Spec => []AssertionsHold
<1>1. ASSUME RaftInv PROVE AssertionsHold
  <2>1. \A i \in Server : /\ status[i] = "Leader" => NextIndexInLog(i)
                          /\ commitIndex[i] <= Len(logs[i])
    BY <1>1 DEF RaftInv, LogInv, LeaderKnows, CommitInLog
  <2>2. ASSUME NEW m \in appendEntriesReply, m.term = currentTerm[m.caller], m.success
        PROVE  m.upTo <= Len(logs[m.caller])
    BY <1>1, <2>2
       DEF RaftInv, LogInv, AppendCallsGenuine, ReplyIsGenuine, Acked, InTerm
  <2> QED
    BY <1>1, <2>1, <2>2, NoSecondMajority, AcceptedLogAlwaysCovers DEF AssertionsHold
<1>2. TypeOK /\ ElectionInv /\ LogInv => AssertionsHold
  BY <1>1 DEF RaftInv
<1> QED
  BY <1>2, TypeCorrect, ElectionInvariant, LogInvariant, PTL

=============================================================================
