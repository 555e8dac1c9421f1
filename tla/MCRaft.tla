------------------------------- MODULE MCRaft -------------------------------
(***************************************************************************)
(* Instances of Raft for TLC: bounds, reductions and schedules.            *)
(***************************************************************************)
EXTENDS RaftCommitInvariants, TLC

CONSTANTS s1, s2, s3,  \* three servers, for the schedules below
          MaxInFlight, \* bound: RPCs outstanding in the whole cluster
          Standing     \* a sequence: the only candidate of each of the first terms

\* Neither servers nor commands are ordered by anything in Raft.
Symmetry == Permutations(Server) \cup Permutations(Command)
FollowerSymmetry == Permutations(Server \ {s1})   \* where s1 stands first
CommandSymmetry == Permutations(Command)

-----------------------------------------------------------------------------
\* Bounds on the states that are explored further

FewInFlight ==
  Cardinality(requestVoteArgs) + Cardinality(requestVoteReply)
  + Cardinality(appendEntriesArgs) + Cardinality(appendEntriesReply) <= MaxInFlight

\* One restart in the whole cluster.
OneRestart == FoldSet(LAMBDA i, n : boot[i] + n, 0, Server) <= 1

StandsInOrder ==
  \A i \in Server, t \in Term \cap DOMAIN Standing :
    voteRecord[i][t] \in {NoVote, Standing[t]}

\* With Command = Server: every leader takes commands of its own, so that the
\* entries of two leaders never look alike.
OwnCommands ==
  \A i \in Server :
    status'[i] = "Leader" /\ Len(logs'[i]) > Len(logs[i])
      => logs'[i][Len(logs'[i])].command = i

\* s2 stands in term 2 with an entry that s3 has not: the first heartbeat of the
\* new leader does not fit s3, and fits s1 only in part if s1 took another entry.
NewLeaderAhead ==
  currentTerm[s2] = 1 /\ currentTerm'[s2] = 2 =>
    Len(logs[s2]) = 1 /\ logs[s3] = <<>> /\ \A i \in Server : commitIndex[i] = 0

Anyone    == <<>>
FirstS1   == <<s1>>
Alternate == <<s1, s2, s1, s2>>

-----------------------------------------------------------------------------
\* Reductions

\* The state without what no step reads again: counters whose last thread has
\* ended, indices of a server that does not lead, the history of votes.
LiveElection(i) ==
  \/ \E m \in requestVoteArgs :
       m.caller = i /\ m.boot = boot[i] /\ m.term = currentTerm[i]
  \/ \E m \in requestVoteReply :
       m.caller = i /\ m.boot = boot[i] /\ m.callTerm = currentTerm[i]

LiveState ==
  << <<currentTerm, votedFor, status, logVars, applyVars, disk, boot, voteCalls,
       appendCalls>>,
     [i \in Server |-> IF LiveElection(i) THEN votedNum[i] ELSE 0],
     [i \in Server |->
        IF status[i] = "Leader"
        THEN [next  |-> [j \in Server \ {i} |-> nextIndex[i][j]],
              match |-> [j \in Server \ {i} |-> matchIndex[i][j]],
              acks  |-> [r \in Round \ FreeRounds(i) |-> appendNums[i][r]]]
        ELSE {}] >>

\* For properties that read the history of votes.
LiveStateAndVotes == <<LiveState, voteRecord>>

\* Reading a reply that can no longer change anything, and applying what is
\* committed, commute with the steps of the other servers: they come first.
DeadVoteReply(m) ==
  \/ m.boot # boot[m.caller]
  \/ m.term < currentTerm[m.caller]
  \/ m.term = currentTerm[m.caller] /\ ~m.granted
DeadAppendReply(m) ==
  \/ m.boot # boot[m.caller]
  \/ m.term < currentTerm[m.caller]
  \/ m.term = currentTerm[m.caller] /\ status[m.caller] # "Leader"

DeadRepliesFirst ==
  \/ \E m \in requestVoteReply : DeadVoteReply(m) /\ m \notin requestVoteReply'
  \/ \E m \in appendEntriesReply : DeadAppendReply(m) /\ m \notin appendEntriesReply'
  \/ /\ \A m \in requestVoteReply : ~DeadVoteReply(m)
     /\ \A m \in appendEntriesReply : ~DeadAppendReply(m)

ApplyFirst ==
  \/ \A i \in Server : lastApplied[i] = commitIndex[i]
  \/ lastApplied' # lastApplied

-----------------------------------------------------------------------------
\* The schedule in which a stale suffix loses a committed entry.  s3 leads
\* terms 1, 3 and 5, s1 leads terms 2 and 4; s3 takes three commands in term 1
\* that reach s2 only in term 3, s1 takes one command in term 2 and one in
\* term 4.

TwoRivals == <<s3, s1, s3, s1, s3>>
Commands  == <<3, 1, 0, 1, 0>>

OfTerm(i, t) == {k \in DOMAIN logs[i] : logs[i][k].term = t}

StaleSuffixSchedule ==
  /\ \A i \in Server, t \in DOMAIN Commands : Cardinality(OfTerm(i, t)) <= Commands[t]
  /\ \A i \in Server : status[i] = "Candidate" /\ currentTerm[i] > 1 =>
       \E j \in Server : Cardinality(OfTerm(j, currentTerm[i] - 1))
                         = Commands[currentTerm[i] - 1]
  /\ \A k \in DOMAIN logs[s1] : logs[s1][k].term \in {2, 4}
  /\ \A k \in DOMAIN logs[s3] : logs[s3][k].term = 1
  /\ logs[s2] # <<>> => currentTerm[s2] >= 3
  /\ \A i \in Server : commitIndex[i] > 0 => currentTerm[i] >= 4

=============================================================================
