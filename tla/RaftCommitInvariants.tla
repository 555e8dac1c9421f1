----------------------- MODULE RaftCommitInvariants ------------------------
(***************************************************************************)
(* Why a committed entry is never lost as long as no follower keeps a      *)
(* stale suffix: the inductive invariant behind LeaderCompleteness,        *)
(* StateMachineSafety, CommittedIsFinal and ImplementsReplicatedLog.       *)
(*                                                                         *)
(* It speaks of what the code forgets: which terms had a leader, how far   *)
(* the log of each leader reached, and how far each server once followed   *)
(* it.  The invariant says that there is such a history that explains the  *)
(* present state; no variable holds it.                                    *)
(*                                                                         *)
(* The last section is the invariant behind QuorumAckedIsCommitted, which  *)
(* needs neither a history nor clean behaviour, but no more than three     *)
(* servers.                                                                *)
(***************************************************************************)
EXTENDS RaftLogInvariants

\* AcceptEntries replaces an entry and leaves others behind the last one sent,
\* which the leader that sent them need not have.
KeepsStaleSuffix ==
  \E m \in appendEntriesArgs :
    LET log == logs[m.callee] IN
    /\ AcceptEntries(m)
    /\ \E k \in DOMAIN m.entries :
         m.prevLogIndex + k <= Len(log) /\ log[m.prevLogIndex + k].term # m.entries[k].term
    /\ m.prevLogIndex + Len(m.entries) < Len(log)

\* The behaviours in which no follower ever does that.
CleanSpec == Init /\ [][Next /\ ~KeepsStaleSuffix]_vars

-----------------------------------------------------------------------------
\* What some server takes to be committed, as far as any server does.
Chosen ==
  LET i == CHOOSE i \in Server : \A j \in Server : commitIndex[j] <= commitIndex[i]
  IN  [k \in 1 .. commitIndex[i] |-> logs[i][k].command]

RL == INSTANCE ReplicatedLog WITH chosen <- Chosen, delivered <- applyChan

\* Raft hands all servers one growing sequence of commands, and hands over
\* nothing that it takes back: AppendEntries1, leaderUpdateCommitIndex and
\* applierTicker implement ReplicatedLog while no server restarts.
ImplementsReplicatedLog == RL!LogSpec

-----------------------------------------------------------------------------
\* A history: the terms that had a leader, the log of each leader as it was
\* last in its term, and the index up to which a server once accepted it.
History == [led : SUBSET Term, log : [Term -> Seq(Entry)],
            accepted : [Server -> [Term -> Nat]]]

\* Two logs have the same first k entries.
SameUpTo(a, b, k) == k <= Len(a) /\ k <= Len(b) /\ \A n \in 1 .. k : a[n] = b[n]

\* An entry of the leader's own term: the only ones that are counted.
Own(h, k, t) == k \in 1 .. Len(h.log[t]) /\ h.log[t][k].term = t

\* The servers that once held the log of the leader of t up to k; those that
\* have gone on to a later term without.
Holders(h, k, t) == {j \in Server : h.accepted[j][t] >= k}
Beyond(j, t)     == currentTerm[j] > t /\ disk[j].term > t
Missed(h, k, t)  == {j \in Server : Beyond(j, t) /\ h.accepted[j][t] < k}

\* A majority holds it, or a majority never will: both are final.
ChosenAt(h, k, t)  == Majority(Cardinality(Holders(h, k, t)))
NeverChosen(h, k, t) == Majority(Cardinality(Missed(h, k, t)))

\* Every entry of a log was copied from the leader of its term, together with
\* everything before it.
Copied(h, log) ==
  \A n \in 1 .. Len(log) : log[n].term \in h.led /\ SameUpTo(log, h.log[log[n].term], n)

\* The terms that had a leader are terms that somebody was elected in.
LedTerms(h) ==
  /\ \A j \in Server : voteRecord[j][0] = NoVote
  /\ \A t \in h.led : \E i \in Server : Elected(i, t)
  /\ \A t \in Term \ h.led : h.log[t] = <<>> /\ \A j \in Server : h.accepted[j][t] = 0
  /\ \A i \in Server : status[i] = "Leader" => currentTerm[i] \in h.led

\* As long as it is in its term, a leader's log is the log of the term.
LeaderLogs(h) ==
  \A i \in Server, t \in h.led : Elected(i, t) =>
    /\ InTerm(i, t) => logs[i] = h.log[t]
    /\ h.accepted[i][t] = Len(h.log[t])

\* Logs are copies, and no entry is newer than its server's disk.
LogsCopied(h) ==
  /\ \A i \in Server : /\ Copied(h, logs[i])
                       /\ \A n \in 1 .. Len(logs[i]) : logs[i][n].term <= disk[i].term
  /\ \A t \in h.led : Copied(h, h.log[t])

\* The terms in a leader's log ascend up to its own.
TermsAscend(h) ==
  \A t \in h.led : \A n \in 1 .. Len(h.log[t]) :
    /\ h.log[t][n].term <= t
    /\ \A k \in 1 .. n : h.log[t][k].term <= h.log[t][n].term

\* Nobody accepted what the leader did not have, or before reaching its term.
AcceptedOnce(h) ==
  \A j \in Server, t \in h.led : h.accepted[j][t] > 0 =>
    /\ h.accepted[j][t] <= Len(h.log[t])
    /\ Reached(j, t)

\* What a server accepted it still has, unless it was in vain.
AcceptedKept(h) ==
  \A j \in Server, t \in h.led : \A k \in 1 .. h.accepted[j][t] :
    Own(h, k, t) => NeverChosen(h, k, t) \/ SameUpTo(logs[j], h.log[t], k)

\* UpToDate, seen from the candidate: its log is no older than an entry of t at k.
AtLeast(log, k, t) == LastTerm(log) > t \/ (LastTerm(log) = t /\ Len(log) >= k)

\* Who votes for a candidate finds the candidate's log as new as what the voter
\* accepted, unless that was in vain.
VotesForNewer(h) ==
  \A j, c \in Server, u \in Term \ h.led :
    voteRecord[j][u] = c /\ InTerm(c, u) =>
      \A t \in h.led : \A k \in 1 .. h.accepted[j][t] :
        t < u /\ Own(h, k, t) => NeverChosen(h, k, t) \/ AtLeast(logs[c], k, t)

\* A candidate's calls describe the log it still has: it takes no entries before
\* its term has a leader.
CallsOfCandidate(h) ==
  \A m \in requestVoteArgs :
    m.term \notin h.led /\ InTerm(m.caller, m.term) =>
      m.lastLogIndex = Len(logs[m.caller]) /\ m.lastLogTerm = LastTerm(logs[m.caller])

\* A later leader has all that an earlier one may have committed.
LaterLeaders(h) ==
  \A t, u \in h.led : \A k \in 1 .. Len(h.log[t]) :
    t < u /\ Own(h, k, t) => NeverChosen(h, k, t) \/ SameUpTo(h.log[u], h.log[t], k)

\* The first c entries of a log belong to what a leader of a term up to u has
\* got a majority to accept.
Backed(h, log, c, u) ==
  c > 0 => \E t \in h.led : \E k \in 1 .. Len(h.log[t]) :
    /\ t <= u /\ c <= k
    /\ Own(h, k, t) /\ ChosenAt(h, k, t) /\ SameUpTo(log, h.log[t], c)

\* The last index a request speaks of.
Sent(m) == m.prevLogIndex + Len(m.entries)

\* A request is a piece of the log of its leader; what it says is committed was
\* accepted by a majority.  A success says that the follower accepted so much.
RequestCopied(h, m) ==
  /\ m.term \in h.led
  /\ Sent(m) <= Len(h.log[m.term])
  /\ m.prevLogTerm = TermAt(h.log[m.term], m.prevLogIndex)
  /\ \A k \in 1 .. Len(m.entries) : m.entries[k] = h.log[m.term][m.prevLogIndex + k]
  /\ m.leaderCommit <= Sent(m)
  /\ Backed(h, h.log[m.term], m.leaderCommit, m.term)

ReplyCopied(h, m) ==
  /\ m.term \in h.led
  /\ m.upTo <= h.accepted[m.callee][m.term]
  /\ m.lastTerm # 0 => m.upTo > 0 /\ h.log[m.term][m.upTo].term = m.lastTerm

CopiesLeader(h) ==
  /\ \A m \in appendEntriesArgs : RequestCopied(h, m)
  /\ \A m \in appendEntriesReply : m.success => ReplyCopied(h, m)

\* The calls of one round of one incarnation, and who has still to answer.
SameRound(m, n) == m.caller = n.caller /\ m.round = n.round /\ m.boot = n.boot
AppendCalls == appendEntriesArgs \cup appendEntriesReply
Outstanding(i, r) ==
  {j \in Server : \E m \in AppendCalls :
     m.caller = i /\ m.callee = j /\ m.round = r /\ m.boot = boot[i]}

\* The calls of a round say the same, one to each follower.
RoundsApart ==
  /\ \A m \in AppendCalls : m.boot <= boot[m.caller]
  /\ \A m, n \in appendEntriesArgs : SameRound(m, n) =>
       m.term = n.term /\ Sent(m) = Sent(n) /\ (m.callee = n.callee => m = n)
  /\ \A m, n \in appendEntriesReply : SameRound(m, n) =>
       /\ m.success /\ n.success => m.term = n.term /\ m.upTo = n.upTo
       /\ m.callee = n.callee => m = n
  /\ \A m \in appendEntriesArgs, n \in appendEntriesReply : SameRound(m, n) =>
       /\ n.success => m.term = n.term /\ Sent(m) = n.upTo
       /\ m.callee # n.callee

\* A round's counter counts nobody who has not accepted and nobody whose answer
\* is still to come.
Counted(h, i, r, k, t) ==
  appendNums[i][r] <= Cardinality(Holders(h, k, t) \ Outstanding(i, r))

RoundsHonest(h) ==
  /\ \A m \in appendEntriesArgs : m.boot = boot[m.caller] =>
       Counted(h, m.caller, m.round, Sent(m), m.term)
  /\ \A m \in appendEntriesReply : m.boot = boot[m.caller] /\ m.success =>
       Counted(h, m.caller, m.round, m.upTo, m.term)

\* No server takes for committed what no majority has accepted.
CommitsBacked(h) ==
  \A i \in Server : Backed(h, logs[i], commitIndex[i], currentTerm[i])

\* What was handed to the service is the committed part of the log.
AppliedCommitted ==
  \A i \in Server : /\ lastApplied[i] = Len(applyChan[i]) /\ lastApplied[i] <= commitIndex[i]
                    /\ \A k \in 1 .. Len(applyChan[i]) : applyChan[i][k] = logs[i][k].command

\* The history explains the present state.
Explains(h) ==
  /\ LedTerms(h) /\ LeaderLogs(h) /\ LogsCopied(h) /\ TermsAscend(h) /\ AcceptedOnce(h)
  /\ AcceptedKept(h) /\ VotesForNewer(h) /\ CallsOfCandidate(h) /\ LaterLeaders(h)
  /\ CopiesLeader(h) /\ RoundsApart /\ RoundsHonest(h) /\ CommitsBacked(h) /\ AppliedCommitted

\* Some history does: what is committed anywhere was accepted by a majority from
\* one leader, and every later leader has it.
CommitInv == \E h \in History : Explains(h)

-----------------------------------------------------------------------------
\* Why, with up to three servers, a leader has committed what m_matchIndex puts on
\* a majority, although the code asks only for the successes of one round
\* (QuorumAckedIsCommitted).  This part needs no clean behaviour and no history.

\* The leader has all of the first n entries, and has committed its own among them.
Settled(i, n) ==
  /\ n <= Len(logs[i])
  /\ \A k \in 1 .. n : logs[i][k].term = currentTerm[i] => commitIndex[i] >= k

\* A call that its sender, still the leader it was, will count.
StillCounts(m) ==
  /\ status[m.caller] = "Leader" /\ m.boot = boot[m.caller]
  /\ m.term = currentTerm[m.caller]

\* Whoever may still become leader of its term has written nothing in it.
WritesLater ==
  \A i \in Server : status[i] # "Leader" /\ Elected(i, currentTerm[i]) /\ Awaited(i) # {} =>
    \A k \in 1 .. Len(logs[i]) : logs[i][k].term # currentTerm[i]

\* A leader has peers, and its own entries are the last ones of its log.
WritesLast(i) ==
  /\ \E j \in Server : j # i
  /\ \A n \in 1 .. Len(logs[i]) : \A k \in 1 .. n :
       logs[i][k].term = currentTerm[i] => logs[i][n].term = currentTerm[i]

\* What a follower is known to have, or is not sent again, is settled.
IndicesSettled(i) ==
  \A j \in Server \ {i} : Settled(i, matchIndex[i][j]) /\ Settled(i, nextIndex[i][j] - 1)

\* So is what a call may make known: where it starts, and where it ends once its
\* round has had its majority.  Before that, the counter is not zero, and the first
\* success is the second server.
RequestSettled(m) ==
  /\ Settled(m.caller, m.prevLogIndex)
  /\ appendNums[m.caller][m.round] = 0 => Settled(m.caller, Sent(m))

ReplySettled(m) ==
  /\ m.success => \/ m.lastTerm = m.term /\ appendNums[m.caller][m.round] > 0
                  \/ Settled(m.caller, m.upTo)
  /\ ~m.success /\ m.updateNextIndex # NoHint => Settled(m.caller, m.updateNextIndex - 1)

QuorumInv ==
  /\ RoundsApart /\ WritesLater
  /\ \A i \in Server : status[i] = "Leader" => WritesLast(i) /\ IndicesSettled(i)
  /\ \A m \in appendEntriesArgs : StillCounts(m) => RequestSettled(m)
  /\ \A m \in appendEntriesReply : StillCounts(m) => ReplySettled(m)
=============================================================================
