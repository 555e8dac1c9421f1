--------------------------- MODULE RaftInvariants ---------------------------
(***************************************************************************)
(* Why two servers never lead in one term: the inductive invariant behind  *)
(* ElectionSafety and VoteIsFinal of Raft.  It relates four places where a *)
(* vote can be: a server's memory, its disk, a message, a candidate's      *)
(* count.                                                                  *)
(***************************************************************************)
EXTENDS Raft

\* Every vote ever given is in memory and on disk until the term is over, and
\* no vote was given in a term that the memory, or the disk, does not know.
RecordMatches(record, term, vote) ==
  /\ record[term] = vote
  /\ \A t \in Term : t > term => record[t] = NoVote

VotesRemembered ==
  \A i \in Server : /\ RecordMatches(voteRecord[i], currentTerm[i], votedFor[i])
                    /\ disk[i].term <= currentTerm[i]
                    /\ RecordMatches(voteRecord[i], disk[i].term, disk[i].votedFor)

\* A vote call belongs to an election that its caller held, in this or an
\* earlier life, and is made to somebody else.
CallIsGenuine(caller, callee, term, callBoot) ==
  /\ caller # callee
  /\ voteRecord[caller][term] = caller
  /\ callBoot <= boot[caller]
  /\ callBoot = boot[caller] => term <= currentTerm[caller]

VoteCallsGenuine ==
  /\ \A m \in requestVoteArgs : CallIsGenuine(m.caller, m.callee, m.term, m.boot)
  /\ \A m \in requestVoteReply :
       /\ CallIsGenuine(m.caller, m.callee, m.callTerm, m.boot)
       /\ m.granted => m.term = m.callTerm /\ voteRecord[m.callee][m.term] = m.caller

\* Two requests, or two replies, of one call; r is the reply to request m.
SameRequest(m, n) ==
  m.caller = n.caller /\ m.callee = n.callee /\ m.term = n.term /\ m.boot = n.boot
SameCall(r, s) ==
  r.caller = s.caller /\ r.callee = s.callee /\ r.callTerm = s.callTerm /\ r.boot = s.boot
Answers(r, m) ==
  r.caller = m.caller /\ r.callee = m.callee /\ r.callTerm = m.term /\ r.boot = m.boot

\* Nobody is asked twice in one election, so nobody is counted twice.
AskedOnce ==
  /\ \A m, n \in requestVoteArgs : SameRequest(m, n) => m = n
  /\ \A m \in requestVoteArgs, r \in requestVoteReply : ~Answers(r, m)
  /\ \A r, s \in requestVoteReply : SameCall(r, s) => r = s

\* The servers that voted for i in a term; those whose answer to its current
\* election is still to come.
Voters(i, t) == {j \in Server : voteRecord[j][t] = i}
Awaited(i) ==
  {j \in Server :
     \/ \E m \in requestVoteArgs :
          m.caller = i /\ m.callee = j /\ m.term = currentTerm[i] /\ m.boot = boot[i]
     \/ \E m \in requestVoteReply :
          m.caller = i /\ m.callee = j /\ m.callTerm = currentTerm[i] /\ m.boot = boot[i]}

\* A candidate counts nobody who did not vote for it and nobody whose answer it
\* has not read.
CountIsHonest ==
  \A i \in Server : votedFor[i] = i =>
    votedNum[i] <= Cardinality(Voters(i, currentTerm[i]) \ Awaited(i))

LeaderWasElected ==
  \A i \in Server : status[i] = "Leader" =>
    Majority(Cardinality(Voters(i, currentTerm[i])))

\* A vote is never in doubt: what a server remembers, what its disk holds, what
\* messages claim and what candidates count agree, through unpersisted
\* step-downs, late replies, lost calls and restarts.
ElectionInv ==
  /\ VotesRemembered /\ VoteCallsGenuine /\ AskedOnce
  /\ CountIsHonest /\ LeaderWasElected

=============================================================================
