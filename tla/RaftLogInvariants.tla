------------------------- MODULE RaftLogInvariants -------------------------
(***************************************************************************)
(* Why a leader may trust what its log and m_matchIndex say, and why no    *)
(* assertion of raft.cpp fails: the inductive invariant behind             *)
(* AssertionsHold, AckedEntryHeld and LogNeverShrinks of Raft.             *)
(*                                                                         *)
(* It is about single entries.  The code keeps what a follower's log holds *)
(* behind the last entry sent, so two logs that agree at an index need not *)
(* agree before it, and Raft's Log Matching property is not part of it.    *)
(***************************************************************************)
EXTENDS RaftInvariants

\* A majority voted for i in t.  No election has two such candidates.
Elected(i, t) == Majority(Cardinality(Voters(i, t)))

\* A term is over for a server once neither its memory nor its disk holds it;
\* before it begins, one of them holds an older one.
InTerm(i, t)  == currentTerm[i] = t \/ disk[i].term = t
Reached(i, t) == currentTerm[i] >= t /\ disk[i].term >= t

\* Who gets a vote has voted for itself.
VotesForCandidates ==
  \A i, j \in Server, t \in Term : voteRecord[j][t] = i => voteRecord[i][t] = i

\* Every handler that changes the log persists it.
LogsOnDisk == \A i \in Server : disk[i].logs = logs[i]

\* The entries of all logs and of all requests under way, each with its index.
InLog(i)     == {[index |-> k, entry |-> logs[i][k]] : k \in DOMAIN logs[i]}
InRequest(m) ==
  {[index |-> m.prevLogIndex + k, entry |-> m.entries[k]] : k \in DOMAIN m.entries}
Placed == (UNION {InLog(i) : i \in Server})
          \cup (UNION {InRequest(m) : m \in appendEntriesArgs})

\* An entry's term had a leader, an index and a term determine the entry, and
\* a leader has, while its term lasts, all entries of that term.
EntryHasLeader == \A p \in Placed : \E i \in Server : Elected(i, p.entry.term)

EntryIsUnique ==
  \A p, q \in Placed :
    p.index = q.index /\ p.entry.term = q.entry.term => p.entry = q.entry

LeaderHasEntry ==
  \A i \in Server, p \in Placed :
    Elected(i, p.entry.term) /\ InTerm(i, p.entry.term)
      => p.index \in DOMAIN logs[i] /\ logs[i][p.index] = p.entry

\* What a request carries is a part of its sender's log, while the sender's
\* term lasts.
CopiesLog(m) ==
  LET log == logs[m.caller] IN
  /\ m.prevLogIndex + Len(m.entries) <= Len(log)
  /\ m.prevLogTerm = TermAt(log, m.prevLogIndex)
  /\ \A k \in DOMAIN m.entries : m.entries[k] = log[m.prevLogIndex + k]

RequestIsGenuine(m) ==
  /\ m.caller # m.callee /\ Elected(m.caller, m.term)
  /\ m.prevLogIndex = 0 => m.prevLogTerm = 0
  /\ InTerm(m.caller, m.term) => CopiesLog(m)

\* Server j has told the leader i of t that its log reaches to k: while both
\* are in t, they have the same entry there.
Acked(i, j, k, t) ==
  /\ Elected(i, t) /\ Reached(j, t)
  /\ InTerm(i, t) =>
       /\ k <= Len(logs[i])
       /\ k > 0 /\ InTerm(j, t) => k <= Len(logs[j]) /\ logs[j][k] = logs[i][k]

\* Where server i of term t may be told to go back to.
HintInLog(i, t, hint) ==
  /\ Elected(i, t)
  /\ InTerm(i, t) => hint \in 1 .. Len(logs[i]) + 1

ReplyIsGenuine(m) ==
  /\ m.caller # m.callee
  /\ m.success => Acked(m.caller, m.callee, m.upTo, m.term)
  /\ ~m.success /\ m.updateNextIndex # NoHint
       => HintInLog(m.caller, m.term, m.updateNextIndex)

AppendCallsGenuine ==
  /\ \A m \in appendEntriesArgs : RequestIsGenuine(m)
  /\ \A m \in appendEntriesReply : ReplyIsGenuine(m)

LeaderKnows ==
  \A i \in Server : status[i] = "Leader" =>
    /\ NextIndexInLog(i)
    /\ \A j \in Server \ {i} :
         matchIndex[i][j] > 0 => Acked(i, j, matchIndex[i][j], currentTerm[i])

CommitInLog == \A i \in Server : commitIndex[i] <= Len(logs[i])

\* The votes a leader counts after its election come on top of a majority that
\* it has counted already, so they are never a majority themselves.
LateVotesAreFew ==
  \A i \in Server : status[i] = "Leader" =>
    votedNum[i] + (Cardinality(Server) \div 2 + 1)
      <= Cardinality(Voters(i, currentTerm[i]) \ Awaited(i))

\* What servers, disks, requests, replies and a leader's indices say of an
\* entry agrees, whoever has crashed, stepped down or been elected since.
LogInv ==
  /\ VotesForCandidates /\ LogsOnDisk
  /\ EntryHasLeader /\ EntryIsUnique /\ LeaderHasEntry
  /\ AppendCallsGenuine /\ LeaderKnows /\ CommitInLog /\ LateVotesAreFew

=============================================================================
