-------------------------- MODULE RaftCommitProofs --------------------------
(***************************************************************************)
(* A committed entry is never lost unless a follower keeps a stale suffix, *)
(* for any number of servers and logs of any length: some history explains *)
(* every state, in the sense of RaftCommitInvariants.  And with at most    *)
(* three servers, counting one round at a time commits all a majority has. *)
(***************************************************************************)
EXTENDS RaftCommitInvariants, RaftLogProofs

-----------------------------------------------------------------------------
\* Prefixes

\* What a history is made of.
LEMMA HistoryType ==
  ASSUME NEW h \in History
  PROVE  /\ h.led \subseteq Term
         /\ \A t \in Term : /\ h.log[t] \in Seq(Entry) /\ Len(h.log[t]) \in Nat
                            /\ \A n \in 1 .. Len(h.log[t]) : h.log[t][n] \in Entry
         /\ \A j \in Server, t \in Term : h.accepted[j][t] \in Nat
<1>1. /\ h.led \subseteq Term /\ h.log \in [Term -> Seq(Entry)]
      /\ h.accepted \in [Server -> [Term -> Nat]]
  BY DEF History
<1>2. ASSUME NEW t \in Term
      PROVE  /\ h.log[t] \in Seq(Entry) /\ Len(h.log[t]) \in Nat
             /\ \A n \in 1 .. Len(h.log[t]) : h.log[t][n] \in Entry
  <2>1. h.log[t] \in Seq(Entry)
    BY <1>1
  <2> QED
    BY <2>1, LenProperties, ElementOfSeq
<1> QED
  BY <1>1, <1>2

\* SameUpTo is an equivalence on the logs that reach so far, and holds of every
\* shorter prefix.
LEMMA SameSelf ==
  ASSUME NEW a, NEW k, k <= Len(a)
  PROVE  SameUpTo(a, a, k)
BY DEF SameUpTo

LEMMA SameBack ==
  ASSUME NEW a, NEW b, NEW k, SameUpTo(a, b, k)
  PROVE  SameUpTo(b, a, k)
BY DEF SameUpTo

LEMMA SameAlong ==
  ASSUME NEW a, NEW b, NEW c, NEW k, SameUpTo(a, b, k), SameUpTo(b, c, k)
  PROVE  SameUpTo(a, c, k)
BY DEF SameUpTo

LEMMA SameBefore ==
  ASSUME NEW a, NEW b, NEW k \in Int, NEW n \in Int, SameUpTo(a, b, k), n <= k,
         Len(a) \in Int, Len(b) \in Int
  PROVE  SameUpTo(a, b, n)
BY SMT DEF SameUpTo

\* What a log is made of.
LEMMA LogType ==
  ASSUME TypeOK, NEW i \in Server
  PROVE  /\ logs[i] \in Seq(Entry) /\ Len(logs[i]) \in Nat
         /\ \A n \in 1 .. Len(logs[i]) : logs[i][n] \in Entry /\ logs[i][n].term \in Term
<1>1. logs[i] \in Seq(Entry)
  BY DEF TypeOK
<1>2. \A n \in 1 .. Len(logs[i]) : logs[i][n] \in Entry
  BY <1>1, ElementOfSeq
<1> QED
  BY <1>1, <1>2, LenProperties DEF Entry

\* Two logs that were copied from the leaders agree before a place where they
\* have the same term.
LEMMA CopiesMatch ==
  ASSUME NEW h, NEW a, NEW b, NEW n \in Int, Copied(h, a), Copied(h, b),
         n \in 1 .. Len(a), n \in 1 .. Len(b), a[n].term = b[n].term
  PROVE  SameUpTo(a, b, n)
<1>1. SameUpTo(a, h.log[a[n].term], n) /\ SameUpTo(b, h.log[a[n].term], n)
  BY DEF Copied
<1> QED
  BY <1>1, SameBack, SameAlong

\* A prefix of a copied log is copied.
LEMMA PrefixCopied ==
  ASSUME NEW h, NEW a, NEW b, NEW k \in Nat, Len(a) = k, SameUpTo(a, b, k), Copied(h, b),
         Len(b) \in Nat
  PROVE  Copied(h, a)
<1> SUFFICES ASSUME NEW n \in 1 .. Len(a)
             PROVE  a[n].term \in h.led /\ SameUpTo(a, h.log[a[n].term], n)
  BY DEF Copied
<1>1. n \in 1 .. k /\ n \in Int /\ n <= k /\ n \in 1 .. Len(b)
  BY SMT DEF SameUpTo
<1>2. a[n] = b[n]
  BY <1>1 DEF SameUpTo
<1>3. b[n].term \in h.led /\ SameUpTo(b, h.log[b[n].term], n)
  BY <1>1 DEF Copied
<1>4. SameUpTo(a, b, n)
  BY <1>1, SameBefore
<1> QED
  BY <1>2, <1>3, <1>4, SameAlong

\* The terms of a copied log ascend.
LEMMA CopyAscends ==
  ASSUME NEW h \in History, TermsAscend(h), NEW a, Copied(h, a), NEW n \in 1 .. Len(a),
         NEW k \in 1 .. n
  PROVE  a[k].term <= a[n].term
<1> DEFINE t == a[n].term
<1>1. t \in h.led /\ SameUpTo(a, h.log[t], n)
  BY DEF Copied
<1>2. Len(h.log[t]) \in Nat /\ n \in 1 .. Len(h.log[t]) /\ n \in Nat
  <2>1. Len(h.log[t]) \in Nat
    BY <1>1, HistoryType
  <2> QED
    BY <1>1, <2>1, SMT DEF SameUpTo
<1>3. h.log[t][k].term <= h.log[t][n].term
  BY <1>1, <1>2 DEF TermsAscend
<1>4. n \in 1 .. n
  BY <1>2, SMT
<1>5. a[k] = h.log[t][k] /\ a[n] = h.log[t][n]
  BY <1>1, <1>4 DEF SameUpTo
<1> QED
  BY <1>3, <1>5

-----------------------------------------------------------------------------
\* The histories before and after a step.  Three kinds of step change what
\* there is to remember: a term gets its leader, a leader takes a command, a
\* server accepts entries.

Crowned(h, g, i, u) ==
  /\ i \in Server /\ u \in Term \ h.led
  /\ currentTerm[i] = u /\ Elected(i, u) /\ logs' = logs
  /\ g.led = h.led \cup {u}
  /\ g.log[u] = logs[i] /\ \A t \in Term : t # u => g.log[t] = h.log[t]
  /\ g.accepted[i][u] = Len(logs[i])
  /\ \A j \in Server, t \in Term : j # i \/ t # u => g.accepted[j][t] = h.accepted[j][t]

Extended(h, g, i, t) ==
  /\ i \in Server /\ t \in h.led
  /\ currentTerm[i] = t /\ Elected(i, t) /\ logs[i] = h.log[t]
  /\ currentTerm'[i] = t /\ disk'[i].term = t
  /\ Len(logs'[i]) = Len(logs[i]) + 1 /\ SameUpTo(logs'[i], logs[i], Len(logs[i]))
  /\ logs'[i][Len(logs[i]) + 1].term = t
  /\ \A j \in Server : j # i => logs'[j] = logs[j]
  /\ g.led = h.led
  /\ g.log[t] = logs'[i] /\ \A u \in Term : u # t => g.log[u] = h.log[u]
  /\ g.accepted[i][t] = Len(logs'[i])
  /\ \A j \in Server, u \in Term : j # i \/ u # t => g.accepted[j][u] = h.accepted[j][u]

Accepted(h, g, j, u, k) ==
  /\ j \in Server /\ u \in h.led /\ k \in Nat
  /\ ~Elected(j, u)
  /\ currentTerm[j] <= u /\ currentTerm'[j] = u /\ disk'[j].term = u
  /\ SameUpTo(logs'[j], h.log[u], k)
  /\ logs'[j] = logs[j] \/ (Len(logs[j]) <= k /\ Len(logs'[j]) = k)
  /\ \A i \in Server : i # j => logs'[i] = logs[i]
  /\ g.led = h.led /\ g.log = h.log
  /\ g.accepted[j][u] >= h.accepted[j][u] /\ g.accepted[j][u] >= k
  /\ g.accepted[j][u] = h.accepted[j][u] \/ g.accepted[j][u] = k
  /\ \A i \in Server, t \in Term : i # j \/ t # u => g.accepted[i][t] = h.accepted[i][t]

Remembered(h, g) ==
  \/ g = h /\ logs' = logs
  \/ \E i \in Server, u \in Term : Crowned(h, g, i, u)
  \/ \E i \in Server, t \in Term : Extended(h, g, i, t)
  \/ \E j \in Server, u \in Term, k \in Nat : Accepted(h, g, j, u, k)

\* What all of them have in common.
Later(h, g) ==
  /\ h.led \subseteq g.led
  /\ \A t \in Term : SameUpTo(g.log[t], h.log[t], Len(h.log[t]))
  /\ \A j \in Server, t \in Term :
       /\ g.accepted[j][t] >= h.accepted[j][t]
       /\ Beyond(j, t) => g.accepted[j][t] = h.accepted[j][t]

\* Whatever a step adds to the history, terms, logs and acceptances only grow, and
\* nobody accepts anything of a term that it is beyond.
LEMMA RememberedLater ==
  ASSUME RaftInv, NEW h \in History, NEW g \in History, Explains(h), Remembered(h, g)
  PROVE  Later(h, g)
<1>0. TypeOK
  BY DEF RaftInv
<1>1. CASE g = h
  <2>1. \A t \in Term : SameUpTo(g.log[t], h.log[t], Len(h.log[t]))
    BY <1>1, HistoryType, SMT DEF SameUpTo
  <2>2. \A j \in Server, t \in Term : g.accepted[j][t] >= h.accepted[j][t]
    BY <1>1, HistoryType, SMT
  <2> QED
    BY <1>1, <2>1, <2>2 DEF Later
<1>2. ASSUME NEW i \in Server, NEW u \in Term, Crowned(h, g, i, u) PROVE Later(h, g)
  <2>1. h.log[u] = <<>> /\ \A j \in Server : h.accepted[j][u] = 0
    BY <1>2 DEF Crowned, Explains, LedTerms
  <2>2. ASSUME NEW t \in Term PROVE SameUpTo(g.log[t], h.log[t], Len(h.log[t]))
    <3>1. CASE t = u
      <4>1. Len(h.log[u]) = 0 /\ Len(g.log[u]) \in Nat
        BY <2>1, HistoryType
      <4> QED
        BY <3>1, <4>1, SMT DEF SameUpTo
    <3>2. CASE t # u
      BY <1>2, <3>2, HistoryType, SMT DEF Crowned, SameUpTo
    <3> QED
      BY <3>1, <3>2
  <2>3. ASSUME NEW j \in Server, NEW t \in Term
        PROVE  /\ g.accepted[j][t] >= h.accepted[j][t]
               /\ Beyond(j, t) => g.accepted[j][t] = h.accepted[j][t]
    <3>1. CASE j = i /\ t = u
      <4>1. currentTerm[i] \in Int /\ currentTerm[i] = u
        BY <1>0, <1>2, TermsOfServers DEF Crowned
      <4>2. ~Beyond(j, t)
        BY <3>1, <4>1, SMT DEF Beyond
      <4> QED
        BY <2>1, <3>1, <4>2, HistoryType, SMT
    <3>2. CASE ~(j = i /\ t = u)
      <4>1. g.accepted[j][t] = h.accepted[j][t]
        BY <1>2, <3>2 DEF Crowned
      <4> QED
        BY <4>1, HistoryType, SMT
    <3> QED
      BY <3>1, <3>2
  <2> QED
    BY <1>2, <2>2, <2>3 DEF Later, Crowned
<1>3. ASSUME NEW i \in Server, NEW u \in Term, Extended(h, g, i, u) PROVE Later(h, g)
  <2>1. ASSUME NEW t \in Term PROVE SameUpTo(g.log[t], h.log[t], Len(h.log[t]))
    <3>1. CASE t = u
      BY <1>3, <3>1 DEF Extended
    <3>2. CASE t # u
      BY <1>3, <3>2, HistoryType, SMT DEF Extended, SameUpTo
    <3> QED
      BY <3>1, <3>2
  <2>2. ASSUME NEW j \in Server, NEW t \in Term
        PROVE  /\ g.accepted[j][t] >= h.accepted[j][t]
               /\ Beyond(j, t) => g.accepted[j][t] = h.accepted[j][t]
    <3>1. CASE j = i /\ t = u
      <4>1. currentTerm[i] \in Int /\ currentTerm[i] = u
        BY <1>0, <1>3, TermsOfServers DEF Extended
      <4>2. ~Beyond(j, t)
        BY <3>1, <4>1, SMT DEF Beyond
      <4>3. h.accepted[i][u] = Len(logs[i])
        BY <1>3 DEF Extended, Explains, LeaderLogs
      <4>4. Len(logs'[i]) = Len(logs[i]) + 1 /\ Len(logs[i]) \in Nat
            /\ g.accepted[i][u] = Len(logs'[i])
        BY <1>0, <1>3, LogType DEF Extended
      <4> QED
        BY <3>1, <4>2, <4>3, <4>4, SMT
    <3>2. CASE ~(j = i /\ t = u)
      <4>1. g.accepted[j][t] = h.accepted[j][t]
        BY <1>3, <3>2 DEF Extended
      <4> QED
        BY <4>1, HistoryType, SMT
    <3> QED
      BY <3>1, <3>2
  <2> QED
    BY <1>3, <2>1, <2>2 DEF Later, Extended
<1>4. ASSUME NEW i \in Server, NEW u \in Term, NEW k \in Nat, Accepted(h, g, i, u, k)
      PROVE  Later(h, g)
  <2>1. \A t \in Term : SameUpTo(g.log[t], h.log[t], Len(h.log[t]))
    BY <1>4, HistoryType, SMT DEF Accepted, SameUpTo
  <2>2. ASSUME NEW j \in Server, NEW t \in Term
        PROVE  /\ g.accepted[j][t] >= h.accepted[j][t]
               /\ Beyond(j, t) => g.accepted[j][t] = h.accepted[j][t]
    <3>1. CASE j = i /\ t = u
      <4>1. currentTerm[i] \in Int /\ currentTerm[i] <= u /\ u \in Int
        BY <1>0, <1>4, TermsOfServers, TermsAreNumbers DEF Accepted
      <4>2. ~Beyond(j, t)
        BY <3>1, <4>1, SMT DEF Beyond
      <4> QED
        BY <1>4, <3>1, <4>2 DEF Accepted
    <3>2. CASE ~(j = i /\ t = u)
      <4>1. g.accepted[j][t] = h.accepted[j][t]
        BY <1>4, <3>2 DEF Accepted
      <4> QED
        BY <4>1, HistoryType, SMT
    <3> QED
      BY <3>1, <3>2
  <2> QED
    BY <1>4, <2>1, <2>2 DEF Later, Accepted
<1> QED
  BY <1>1, <1>2, <1>3, <1>4 DEF Remembered

-----------------------------------------------------------------------------
\* What a later history keeps

\* Who is added to a majority leaves it one.
LEMMA MoreIsMajority ==
  ASSUME NEW S \in SUBSET Server, NEW T \in SUBSET Server, S \subseteq T,
         Majority(Cardinality(S))
  PROVE  Majority(Cardinality(T))
<1>1. IsFiniteSet(T) /\ IsFiniteSet(S) /\ IsFiniteSet(Server)
  BY ServerAssumption, FS_Subset
<1>2. Cardinality(S) <= Cardinality(T) /\ Cardinality(S) \in Nat /\ Cardinality(T) \in Nat
      /\ Cardinality(Server) \in Nat
  BY <1>1, FS_Subset, FS_CardinalityType
<1> QED
  BY <1>2, SMT DEF Majority

\* Server j stays beyond a term that its memory and its disk have left.
LEMMA BeyondStays ==
  ASSUME VotesSurviveRestart, RaftInv, [Next]_vars, NEW j \in Server, NEW t \in Term,
         Beyond(j, t)
  PROVE  Beyond(j, t)'
<1>1. TypeOK /\ TypeOK' /\ VotesRemembered
  BY TypeNext DEF RaftInv, ElectionInv
<1>2. /\ currentTerm'[j] >= currentTerm[j] \/ currentTerm'[j] = disk[j].term
      /\ disk'[j].term = disk[j].term \/ disk'[j].term = currentTerm'[j]
  BY <1>1, TermsMove
<1>3. /\ currentTerm[j] \in Int /\ currentTerm'[j] \in Int
      /\ disk[j].term \in Int /\ disk'[j].term \in Int /\ t \in Int
  BY <1>1, TermsOfServers, TermsOfServersNext, TermsAreNumbers
<1> QED
  BY <1>2, <1>3, SMT DEF Beyond

\* What a majority has accepted stays accepted by a majority.
LEMMA ChosenStays ==
  ASSUME NEW h \in History, NEW g \in History, Later(h, g), NEW k \in Int, NEW t \in Term,
         ChosenAt(h, k, t)
  PROVE  ChosenAt(g, k, t)
<1>1. Holders(h, k, t) \subseteq Holders(g, k, t)
  <2> SUFFICES ASSUME NEW j \in Server, h.accepted[j][t] >= k PROVE g.accepted[j][t] >= k
    BY DEF Holders
  <2>1. g.accepted[j][t] >= h.accepted[j][t]
    BY DEF Later
  <2>2. g.accepted[j][t] \in Nat /\ h.accepted[j][t] \in Nat
    BY HistoryType
  <2> QED
    BY <2>1, <2>2, SMT
<1>2. Holders(h, k, t) \in SUBSET Server /\ Holders(g, k, t) \in SUBSET Server
  BY DEF Holders
<1> QED
  BY <1>1, <1>2, MoreIsMajority DEF ChosenAt

\* What a majority has missed stays missed: none of it returns to the term.
LEMMA NeverStays ==
  ASSUME VotesSurviveRestart, RaftInv, [Next]_vars,
         NEW h \in History, NEW g \in History, Later(h, g), NEW k \in Int, NEW t \in Term,
         NeverChosen(h, k, t)
  PROVE  NeverChosen(g, k, t)'
<1> DEFINE S == Missed(h, k, t)
           T == Missed(g, k, t)'
<1>1. S \subseteq T
  <2> SUFFICES ASSUME NEW j \in Server, Beyond(j, t), h.accepted[j][t] < k
               PROVE  Beyond(j, t)' /\ g.accepted[j][t] < k
    BY DEF Missed
  <2>1. g.accepted[j][t] = h.accepted[j][t]
    BY DEF Later
  <2> QED
    BY <2>1, BeyondStays
<1>2. S \in SUBSET Server /\ T \in SUBSET Server
  BY DEF Missed
<1>3. Majority(Cardinality(S))
  BY DEF NeverChosen
<1>4. Majority(Cardinality(T))
  BY <1>1, <1>2, <1>3, MoreIsMajority
<1> QED
  BY <1>4 DEF NeverChosen, Majority

\* What was chosen is not never chosen: a majority holds it, and a majority that
\* has missed it would have a server in common with that one.
LEMMA ChosenOrNever ==
  ASSUME NEW h \in History, NEW k \in Int, NEW t \in Term, ChosenAt(h, k, t),
         NeverChosen(h, k, t)
  PROVE  FALSE
<1>1. Holders(h, k, t) \in SUBSET Server /\ Missed(h, k, t) \in SUBSET Server
  BY DEF Holders, Missed
<1>2. PICK j \in Server : j \in Holders(h, k, t) /\ j \in Missed(h, k, t)
  BY <1>1, MajoritiesMeet DEF ChosenAt, NeverChosen
<1>3. h.accepted[j][t] >= k /\ h.accepted[j][t] < k /\ h.accepted[j][t] \in Int
  BY <1>2, HistoryType, SMT DEF Holders, Missed
<1> QED
  BY <1>3, SMT

\* Entries, prefixes, copies and what is backed by a leader stay so.
LEMMA OwnStays ==
  ASSUME NEW h \in History, NEW g \in History, Later(h, g), NEW k \in Int, NEW t \in Term,
         k \in 1 .. Len(h.log[t])
  PROVE  /\ k \in 1 .. Len(g.log[t]) /\ g.log[t][k] = h.log[t][k]
         /\ Own(g, k, t) <=> Own(h, k, t)
<1>1. SameUpTo(g.log[t], h.log[t], Len(h.log[t]))
  BY DEF Later
<1>2. Len(h.log[t]) \in Nat /\ Len(g.log[t]) \in Nat
  BY HistoryType
<1>3. k \in 1 .. Len(g.log[t]) /\ g.log[t][k] = h.log[t][k]
  BY <1>1, <1>2, SMT DEF SameUpTo
<1> QED
  BY <1>3 DEF Own

LEMMA SameStays ==
  ASSUME NEW h \in History, NEW g \in History, Later(h, g), NEW a, NEW k \in Int,
         NEW t \in Term, SameUpTo(a, h.log[t], k)
  PROVE  SameUpTo(a, g.log[t], k)
<1>1. SameUpTo(g.log[t], h.log[t], Len(h.log[t]))
  BY DEF Later
<1>2. Len(h.log[t]) \in Nat /\ Len(g.log[t]) \in Nat /\ k <= Len(h.log[t])
  BY HistoryType DEF SameUpTo
<1>3. SameUpTo(g.log[t], h.log[t], k)
  BY <1>1, <1>2, SameBefore, SMT
<1> QED
  BY <1>3, SameBack, SameAlong

LEMMA CopiedStays ==
  ASSUME NEW h \in History, NEW g \in History, Later(h, g), NEW a, Len(a) \in Nat, Copied(h, a)
  PROVE  Copied(g, a)
<1> SUFFICES ASSUME NEW n \in 1 .. Len(a)
             PROVE  a[n].term \in g.led /\ SameUpTo(a, g.log[a[n].term], n)
  BY DEF Copied
<1>1. a[n].term \in h.led /\ SameUpTo(a, h.log[a[n].term], n)
  BY DEF Copied
<1>2. a[n].term \in Term /\ a[n].term \in g.led
  BY <1>1, HistoryType DEF Later
<1> QED
  BY <1>1, <1>2, SameStays

LEMMA BackedStays ==
  ASSUME NEW h \in History, NEW g \in History, Later(h, g), NEW a, NEW b, NEW c \in Nat,
         NEW u \in Term, NEW v \in Term, u <= v, Backed(h, a, c, u), SameUpTo(b, a, c)
  PROVE  Backed(g, b, c, v)
<1> SUFFICES ASSUME c > 0
             PROVE  \E t \in g.led : \E k \in 1 .. Len(g.log[t]) :
                      /\ t <= v /\ c <= k
                      /\ Own(g, k, t) /\ ChosenAt(g, k, t) /\ SameUpTo(b, g.log[t], c)
  BY DEF Backed
<1>1. PICK t \in h.led : \E k \in 1 .. Len(h.log[t]) :
        /\ t <= u /\ c <= k
        /\ Own(h, k, t) /\ ChosenAt(h, k, t) /\ SameUpTo(a, h.log[t], c)
  BY DEF Backed
<1>2. PICK k \in 1 .. Len(h.log[t]) :
        /\ t <= u /\ c <= k
        /\ Own(h, k, t) /\ ChosenAt(h, k, t) /\ SameUpTo(a, h.log[t], c)
  BY <1>1
<1>3. t \in Term /\ t \in g.led /\ t \in Int /\ u \in Int /\ v \in Int
  BY HistoryType, TermsAreNumbers DEF Later
<1>4. t <= v
  BY <1>2, <1>3, SMT
<1>5. k \in 1 .. Len(g.log[t]) /\ Own(g, k, t)
  BY <1>2, <1>3, OwnStays
<1>6. ChosenAt(g, k, t)
  <2>1. k \in Int
    BY SMT
  <2> QED
    BY <1>2, <1>3, <2>1, ChosenStays
<1>7. SameUpTo(b, h.log[t], c)
  BY <1>2, SameAlong
<1>8. SameUpTo(b, g.log[t], c)
  <2>1. c \in Int
    BY SMT
  <2> QED
    BY <1>3, <1>7, <2>1, SameStays
<1> QED
  BY <1>2, <1>3, <1>4, <1>5, <1>6, <1>8

\* The entries of its own that a leader adds.
LEMMA NewOwn ==
  ASSUME RaftInv, NEW h \in History, NEW g \in History, Explains(h), Remembered(h, g),
         NEW t \in g.led, NEW k \in Int, Own(g, k, t)
  PROVE  \/ t \in h.led /\ Own(h, k, t)
         \/ \E i \in Server : /\ Extended(h, g, i, t) /\ k = Len(logs[i]) + 1
<1>0. TypeOK /\ t \in Term
  BY HistoryType DEF RaftInv
<1>1. CASE g = h
  BY <1>1
<1>2. ASSUME NEW i \in Server, NEW u \in Term, Crowned(h, g, i, u)
      PROVE  t \in h.led /\ Own(h, k, t)
  <2>1. CASE t = u
    <3>1. k \in 1 .. Len(logs[i]) /\ logs[i][k].term = u
      BY <1>2, <2>1 DEF Crowned, Own
    <3>2. Copied(h, logs[i])
      BY DEF Explains, LogsCopied
    <3>3. u \in h.led
      BY <3>1, <3>2 DEF Copied
    <3> QED
      BY <1>2, <3>3 DEF Crowned
  <2>2. CASE t # u
    BY <1>0, <1>2, <2>2 DEF Crowned, Own
  <2> QED
    BY <2>1, <2>2
<1>3. ASSUME NEW i \in Server, NEW u \in Term, Extended(h, g, i, u)
      PROVE  \/ t \in h.led /\ Own(h, k, t)
             \/ Extended(h, g, i, t) /\ k = Len(logs[i]) + 1
  <2>1. CASE t = u
    <3>1. /\ k \in 1 .. Len(logs'[i]) /\ logs'[i][k].term = u /\ u \in h.led
          /\ Len(logs'[i]) = Len(logs[i]) + 1 /\ SameUpTo(logs'[i], logs[i], Len(logs[i]))
          /\ logs[i] = h.log[u] /\ Len(logs[i]) \in Nat
      BY <1>0, <1>3, <2>1, LogType DEF Extended, Own
    <3>2. CASE k = Len(logs[i]) + 1
      BY <1>3, <2>1, <3>2
    <3>3. CASE k # Len(logs[i]) + 1
      <4>1. k \in 1 .. Len(logs[i])
        BY <3>1, <3>3, SMT
      <4>2. logs'[i][k] = logs[i][k]
        BY <3>1, <4>1 DEF SameUpTo
      <4> QED
        BY <2>1, <3>1, <4>1, <4>2 DEF Own
    <3> QED
      BY <3>2, <3>3
  <2>2. CASE t # u
    BY <1>0, <1>3, <2>2 DEF Extended, Own
  <2> QED
    BY <2>1, <2>2
<1>4. ASSUME NEW i \in Server, NEW u \in Term, NEW n \in Nat, Accepted(h, g, i, u, n)
      PROVE  t \in h.led /\ Own(h, k, t)
  BY <1>4 DEF Accepted, Own
<1> QED
  BY <1>1, <1>2, <1>3, <1>4 DEF Remembered

-----------------------------------------------------------------------------
\* A step on which no follower keeps a stale suffix, with the histories before
\* and after it.
CleanStep(h, g) ==
  /\ VotesSurviveRestart /\ RaftInv /\ RaftInv' /\ [Next]_vars
  /\ h \in History /\ g \in History /\ Explains(h) /\ Remembered(h, g) /\ Later(h, g)
  /\ \A i \in Server : status'[i] = "Leader" => currentTerm'[i] \in g.led
  /\ \A m \in appendEntriesArgs :
       AcceptEntries(m) => Accepted(h, g, m.callee, m.term, Sent(m))

\* A history that differs from h in what it knows of one server and one term.
Differs(h, g, led, i, u, log, n) ==
  /\ g.led = led
  /\ g.log[u] = log /\ \A t \in Term : t # u => g.log[t] = h.log[t]
  /\ g.accepted[i][u] = n
  /\ \A j \in Server, t \in Term : j # i \/ t # u => g.accepted[j][t] = h.accepted[j][t]

\* Such a history exists.
LEMMA HistoryWith ==
  ASSUME NEW h \in History, NEW led \in SUBSET Term, NEW i \in Server, NEW u \in Term,
         NEW log \in Seq(Entry), NEW n \in Nat
  PROVE  \E g \in History : Differs(h, g, led, i, u, log, n)
<1> DEFINE L == [t \in Term |-> IF t = u THEN log ELSE h.log[t]]
           A == [j \in Server |-> [t \in Term |->
                   IF j = i /\ t = u THEN n ELSE h.accepted[j][t]]]
           g == [led |-> led, log |-> L, accepted |-> A]
<1>1. L \in [Term -> Seq(Entry)]
  BY HistoryType
<1>2. A \in [Server -> [Term -> Nat]]
  BY HistoryType
<1>3. L[u] = log /\ \A t \in Term : t # u => L[t] = h.log[t]
  OBVIOUS
<1>4. A[i][u] = n /\ \A j \in Server, t \in Term : j # i \/ t # u => A[j][t] = h.accepted[j][t]
  OBVIOUS
<1> HIDE DEF L, A
<1>5. g.led = led /\ g.log = L /\ g.accepted = A
  OBVIOUS
<1>6. g \in History
  BY <1>1, <1>2 DEF History
<1> HIDE DEF g
<1> QED
  BY <1>3, <1>4, <1>5, <1>6 DEF Differs

\* What a follower's log is after it has accepted the entries of a request.
LEMMA CleanAcceptance ==
  ASSUME RaftInv, ~KeepsStaleSuffix, NEW h \in History, Explains(h),
         NEW m \in appendEntriesArgs, AcceptEntries(m)
  PROVE  LET j == m.callee IN
         /\ m.term \in h.led /\ Sent(m) \in Nat
         /\ SameUpTo(logs'[j], h.log[m.term], Sent(m))
         /\ logs'[j] = logs[j] \/ (Len(logs[j]) <= Sent(m) /\ Len(logs'[j]) = Sent(m))
<1> DEFINE j == m.callee  u == m.term  prev == m.prevLogIndex  new == logs'[j]
<1>1. TypeOK
  BY DEF RaftInv
<1>2. /\ j \in Server /\ u \in Term /\ prev \in Nat /\ m.entries \in Seq(Entry)
      /\ logs[j] \in Seq(Entry) /\ prev <= Len(logs[j])
      /\ new = MergeEntries(logs[j], prev, m.entries)
  BY <1>1, AcceptedLog
<1>3. Len(logs[j]) \in Nat /\ Len(m.entries) \in Nat
  BY <1>2, LenProperties
<1>4. Sent(m) \in Nat
  BY <1>2, <1>3, SMT DEF Sent
<1>5. /\ u \in h.led /\ Sent(m) <= Len(h.log[u])
      /\ m.prevLogTerm = TermAt(h.log[u], prev)
      /\ \A k \in 1 .. Len(m.entries) : m.entries[k] = h.log[u][prev + k]
  BY DEF Explains, CopiesLeader, RequestCopied
<1>6. Len(h.log[u]) \in Nat
  BY <1>2, HistoryType
<1>7. SameUpTo(logs[j], h.log[u], prev)
  <2>1. prev <= Len(logs[j]) /\ prev <= Len(h.log[u]) /\ prev \in Int
    BY <1>2, <1>3, <1>5, <1>6, SMT DEF Sent
  <2>2. CASE prev = 0
    BY <2>1, <2>2, SMT DEF SameUpTo
  <2>3. CASE prev # 0
    <3>1. prev \in 1 .. Len(logs[j]) /\ prev \in 1 .. Len(h.log[u])
      BY <1>2, <1>3, <1>6, <2>1, <2>3, SMT
    <3>2. TermAt(logs[j], prev) = m.prevLogTerm
      BY DEF AcceptEntries, EntriesFit, MatchLog
    <3>3. logs[j][prev].term = h.log[u][prev].term
      BY <1>5, <3>1, <3>2 DEF TermAt
    <3>4. Copied(h, logs[j]) /\ Copied(h, h.log[u])
      BY <1>2, <1>5 DEF Explains, LogsCopied
    <3> QED
      BY <2>1, <3>1, <3>3, <3>4, CopiesMatch
  <2> QED
    BY <2>2, <2>3
<1>8. Max({Len(logs[j]), Sent(m)}) =
        IF Len(logs[j]) >= Sent(m) THEN Len(logs[j]) ELSE Sent(m)
  BY <1>3, <1>4, MaxOfPair, SMT
<1>9. /\ DOMAIN new = 1 .. Max({Len(logs[j]), Sent(m)})
      /\ \A k \in 1 .. Max({Len(logs[j]), Sent(m)}) :
           new[k] = IF k <= prev \/ k > Sent(m) THEN logs[j][k]
                    ELSE IF k <= Len(logs[j]) /\ logs[j][k].term = m.entries[k - prev].term
                         THEN logs[j][k] ELSE m.entries[k - prev]
  BY <1>2 DEF MergeEntries, Sent
<1>10. Len(new) = IF Len(logs[j]) >= Sent(m) THEN Len(logs[j]) ELSE Sent(m)
  <2>1. new \in Seq(Entry)
    BY <1>2, MergeEntriesType
  <2>2. DOMAIN new = 1 .. Len(new) /\ Len(new) \in Nat
    BY <2>1, LenProperties
  <2>3. 1 .. Len(new) = 1 .. (IF Len(logs[j]) >= Sent(m) THEN Len(logs[j]) ELSE Sent(m))
    BY <1>8, <1>9, <2>2
  <2> QED
    BY <1>3, <1>4, <2>2, <2>3, SMT
<1>11. SameUpTo(new, h.log[u], Sent(m))
  <2>1. Sent(m) <= Len(new)
    BY <1>3, <1>4, <1>10, SMT
  <2>2. ASSUME NEW n \in 1 .. Sent(m) PROVE new[n] = h.log[u][n]
    <3>1. n \in Nat /\ n <= Sent(m) /\ n \in 1 .. Max({Len(logs[j]), Sent(m)})
      BY <1>3, <1>4, <1>8, SMT
    <3>2. CASE n <= prev
      <4>1. new[n] = logs[j][n]
        BY <1>9, <3>1, <3>2
      <4>2. n \in 1 .. prev
        BY <1>2, <3>1, <3>2, SMT
      <4> QED
        BY <1>7, <4>1, <4>2 DEF SameUpTo
    <3>3. CASE n > prev
      <4> DEFINE k == n - prev
      <4>1. k \in 1 .. Len(m.entries) /\ n = prev + k
        BY <1>2, <1>3, <3>1, <3>3, SMT DEF Sent
      <4>2. NoClash(logs[j], prev, m.entries)
        BY DEF AcceptEntries, AcceptedLogCovers
      <4> HIDE DEF k
      <4>3. new[prev + k] = m.entries[k]
        BY <1>2, <4>1, <4>2, MergedContainsSent
      <4> QED
        BY <1>5, <4>1, <4>3
    <3> QED
      BY <1>2, <3>1, <3>2, <3>3, SMT
  <2> QED
    BY <1>5, <2>1, <2>2 DEF SameUpTo
<1>12. new = logs[j] \/ (Len(logs[j]) <= Sent(m) /\ Len(new) = Sent(m))
  <2>1. CASE Len(logs[j]) <= Sent(m)
    BY <1>3, <1>4, <1>10, <2>1, SMT
  <2>2. CASE Len(logs[j]) > Sent(m)
    <3>1. \A k \in DOMAIN m.entries :
            prev + k <= Len(logs[j]) => logs[j][prev + k].term = m.entries[k].term
      <4>1. ~(Sent(m) < Len(logs[j]) /\ \E k \in DOMAIN m.entries :
                prev + k <= Len(logs[j]) /\ logs[j][prev + k].term # m.entries[k].term)
        BY DEF KeepsStaleSuffix, Sent
      <4>2. Sent(m) < Len(logs[j])
        BY <1>3, <1>4, <2>2, SMT
      <4> QED
        BY <4>1, <4>2
    <3>2. DOMAIN new = 1 .. Len(logs[j])
      BY <1>3, <1>4, <1>8, <1>9, <2>2, SMT
    <3>3. ASSUME NEW n \in 1 .. Len(logs[j]) PROVE new[n] = logs[j][n]
      <4>1. n \in 1 .. Max({Len(logs[j]), Sent(m)})
        BY <1>9, <3>2
      <4>2. CASE n <= prev \/ n > Sent(m)
        BY <1>9, <4>1, <4>2
      <4>3. CASE ~(n <= prev \/ n > Sent(m))
        <5>1. n - prev \in 1 .. Len(m.entries) /\ prev + (n - prev) = n /\ n <= Len(logs[j])
          BY <1>2, <1>3, <4>3, SMT DEF Sent
        <5>2. DOMAIN m.entries = 1 .. Len(m.entries)
          BY <1>2, LenProperties
        <5>3. logs[j][n].term = m.entries[n - prev].term
          BY <3>1, <5>1, <5>2
        <5> QED
          BY <1>9, <4>1, <4>3, <5>1, <5>3
      <4> QED
        BY <4>2, <4>3
    <3>4. DOMAIN logs[j] = 1 .. Len(logs[j])
      BY <1>2, LenProperties
    <3>5. new = [n \in 1 .. Len(logs[j]) |-> new[n]]
      BY <1>2, <1>9, <3>2 DEF MergeEntries
    <3>6. logs[j] = [n \in 1 .. Len(logs[j]) |-> logs[j][n]]
      BY <1>2, LenProperties
    <3> QED
      BY <3>3, <3>5, <3>6
  <2> QED
    BY <1>3, <1>4, <2>1, <2>2, SMT
<1> QED
  BY <1>4, <1>5, <1>11, <1>12

\* A request is accepted in a step of its own.
LEMMA OneAcceptance ==
  ASSUME NEW m \in appendEntriesArgs, AcceptEntries(m), NEW n \in appendEntriesArgs
  PROVE  /\ AcceptEntries(n) => n = m
         /\ appendEntriesArgs' # appendEntriesArgs
<1>1. appendEntriesArgs' = appendEntriesArgs \ {m}
  BY DEF AcceptEntries, AnswerAppend
<1>2. AcceptEntries(n) => appendEntriesArgs' = appendEntriesArgs \ {n}
  BY DEF AcceptEntries, AnswerAppend
<1> QED
  BY <1>1, <1>2

\* Who leads after a step led before it or is made leader by it.
LEMMA LeadersOfStep ==
  ASSUME TypeOK, [Next]_vars, NEW h \in History, Explains(h), NEW g, h.led \subseteq g.led,
         \A m \in requestVoteReply : BecomeLeader(m) => currentTerm[m.caller] \in g.led
  PROVE  \A i \in Server : status'[i] = "Leader" => currentTerm'[i] \in g.led
<1> SUFFICES ASSUME NEW i \in Server, status'[i] = "Leader"
             PROVE  currentTerm'[i] \in g.led
  OBVIOUS
<1>1. ASSUME NEW m \in requestVoteReply, BecomeLeader(m), m.caller = i
      PROVE  currentTerm'[i] \in g.led
  BY <1>1 DEF BecomeLeader
<1>2. ASSUME status[i] = "Leader", currentTerm'[i] = currentTerm[i]
      PROVE  currentTerm'[i] \in g.led
  BY <1>2 DEF Explains, LedTerms
<1> QED
  BY <1>1, <1>2, LeaderSteps

\* Every step has a history after it.
LEMMA AcceptanceRemembered ==
  ASSUME VotesSurviveRestart, RaftInv, [Next]_vars, ~KeepsStaleSuffix,
         NEW h \in History, Explains(h), NEW m \in appendEntriesArgs, AcceptEntries(m)
  PROVE  \E g \in History : CleanStep(h, g)
<1> DEFINE j == m.callee  u == m.term  k == Sent(m)
<1>1. TypeOK /\ RaftInv'
  BY TypeNext, ElectionInvNext, LogInvNext DEF RaftInv
<1>2. /\ j \in Server /\ m.caller \in Server /\ u \in Term
      /\ \A i \in Server \ {j} : logs'[i] = logs[i]
      /\ currentTerm'[j] = u /\ disk'[j].term = u
  BY <1>1, AcceptedLog
<1>3. /\ u \in h.led /\ k \in Nat /\ SameUpTo(logs'[j], h.log[u], k)
      /\ logs'[j] = logs[j] \/ (Len(logs[j]) <= k /\ Len(logs'[j]) = k)
  BY CleanAcceptance
<1>4. ~Elected(j, u)
  BY OneElected DEF RaftInv, LogInv, AppendCallsGenuine, RequestIsGenuine
<1>5. currentTerm[j] <= u
  <2>1. u >= currentTerm[j] /\ currentTerm[j] \in Int /\ u \in Int
    BY <1>1, <1>2, TermsOfServers, TermsAreNumbers DEF AcceptEntries, EntriesFit
  <2> QED
    BY <2>1, SMT
<1> DEFINE n == IF h.accepted[j][u] >= k THEN h.accepted[j][u] ELSE k
<1>6. n \in Nat /\ n >= k /\ n >= h.accepted[j][u] /\ (n = h.accepted[j][u] \/ n = k)
  <2>1. h.accepted[j][u] \in Nat
    BY <1>2, HistoryType
  <2> QED
    BY <1>3, <2>1, SMT
<1> HIDE DEF n
<1>7. h.log[u] \in Seq(Entry) /\ h.led \in SUBSET Term
  BY <1>2, HistoryType
<1>8. PICK g \in History : Differs(h, g, h.led, j, u, h.log[u], n)
  BY <1>2, <1>6, <1>7, HistoryWith
<1>9. g.log = h.log
  <2>1. g.log \in [Term -> Seq(Entry)] /\ h.log \in [Term -> Seq(Entry)]
    BY DEF History
  <2>2. \A t \in Term : g.log[t] = h.log[t]
    BY <1>8 DEF Differs
  <2> QED
    BY <2>1, <2>2
<1>10. Accepted(h, g, j, u, k)
  BY <1>2, <1>3, <1>4, <1>5, <1>6, <1>8, <1>9 DEF Accepted, Differs
<1>11. Remembered(h, g)
  BY <1>2, <1>3, <1>10 DEF Remembered
<1>12. Later(h, g)
  BY <1>11, RememberedLater
<1>13. \A i \in Server : status'[i] = "Leader" => currentTerm'[i] \in g.led
  <2>1. \A r \in requestVoteReply : ~BecomeLeader(r)
    BY OneAcceptance DEF BecomeLeader, VoteReplyArrives, appendCalls
  <2> QED
    BY <1>1, <1>8, <2>1, LeadersOfStep DEF Differs
<1>14. \A r \in appendEntriesArgs :
         AcceptEntries(r) => Accepted(h, g, r.callee, r.term, Sent(r))
  BY <1>10, OneAcceptance
<1> QED
  BY <1>1, <1>11, <1>12, <1>13, <1>14 DEF CleanStep

\* StartConses has a history after it: the leader of the term extends its log.
LEMMA CommandRemembered ==
  ASSUME VotesSurviveRestart, RaftInv, [Next]_vars, NEW h \in History, Explains(h),
         NEW i \in Server, NEW command \in Command, StartConses(i, command)
  PROVE  \E g \in History : CleanStep(h, g)
<1> DEFINE t == currentTerm[i]
<1>1. TypeOK /\ TypeOK' /\ RaftInv'
  BY TypeNext, ElectionInvNext, LogInvNext DEF RaftInv
<1>2. /\ logs[i] \in Seq(Entry) /\ Len(logs[i]) \in Nat
      /\ Len(logs'[i]) = Len(logs[i]) + 1
      /\ \A k \in 1 .. Len(logs[i]) : logs'[i][k] = logs[i][k]
      /\ logs'[i][Len(logs[i]) + 1] = [term |-> currentTerm[i], command |-> command]
      /\ \A j \in Server \ {i} : logs'[j] = logs[j]
      /\ currentTerm' = currentTerm /\ disk'[i].term = currentTerm[i]
      /\ status[i] = "Leader" /\ appendEntriesArgs' = appendEntriesArgs
  BY <1>1, TakenCommand
<1>3. t \in Term /\ Elected(i, t) /\ InTerm(i, t) /\ t \in h.led
  BY <1>2, LeaderFacts DEF Explains, LedTerms
<1>4. logs[i] = h.log[t]
  BY <1>3 DEF Explains, LeaderLogs
<1>5. logs'[i] \in Seq(Entry) /\ Len(logs'[i]) \in Nat /\ h.led \in SUBSET Term
  BY <1>1, HistoryType, LenProperties DEF TypeOK
<1>6. SameUpTo(logs'[i], logs[i], Len(logs[i]))
  BY <1>2, SMT DEF SameUpTo
<1>7. logs'[i][Len(logs[i]) + 1].term = t
  BY <1>2
<1>8. PICK g \in History : Differs(h, g, h.led, i, t, logs'[i], Len(logs'[i]))
  BY <1>3, <1>5, HistoryWith
<1>9. Extended(h, g, i, t)
  BY <1>2, <1>3, <1>4, <1>6, <1>7, <1>8 DEF Extended, Differs
<1>10. Remembered(h, g)
  BY <1>3, <1>9 DEF Remembered
<1>11. Later(h, g)
  BY <1>10, RememberedLater
<1>12. \A j \in Server : status'[j] = "Leader" => currentTerm'[j] \in g.led
  BY <1>2, <1>8 DEF Differs, StartConses, electionVars, Explains, LedTerms
<1>13. \A r \in appendEntriesArgs : ~AcceptEntries(r)
  BY <1>2, OneAcceptance
<1> QED
  BY <1>1, <1>10, <1>11, <1>12, <1>13 DEF CleanStep

\* BecomeLeader has a history after it: the term has got its leader.
LEMMA ElectionRemembered ==
  ASSUME VotesSurviveRestart, RaftInv, [Next]_vars, NEW h \in History, Explains(h),
         NEW m \in requestVoteReply, BecomeLeader(m), currentTerm[m.caller] \notin h.led
  PROVE  \E g \in History : CleanStep(h, g)
<1> DEFINE i == m.caller  u == currentTerm[i]
<1>1. TypeOK /\ RaftInv' /\ ElectionInv
  BY TypeNext, ElectionInvNext, LogInvNext DEF RaftInv
<1>2. /\ i \in Server /\ logs' = logs /\ currentTerm' = currentTerm
      /\ voteRecord' = voteRecord /\ status'[i] = "Leader"
      /\ appendEntriesArgs' = appendEntriesArgs
      /\ \A r \in requestVoteReply : BecomeLeader(r) => r = m
  <2>1. i \in Server
    BY <1>1 DEF TypeOK, RequestVoteReply
  <2>2. \A r \in requestVoteReply : BecomeLeader(r) => r = m
    <3>1. \A r \in requestVoteReply :
            BecomeLeader(r) => requestVoteReply' = requestVoteReply \ {r}
      BY DEF BecomeLeader, VoteReplyArrives
    <3> QED
      BY <3>1
  <2> QED
    BY <1>1, <2>1, <2>2 DEF BecomeLeader, VoteReplyArrives, logVars, appendCalls, TypeOK
<1>3. u \in Term
  BY <1>1, <1>2, TermsOfServers
<1>4. Elected(i, u)
  <2>1. ElectedIfLeader(i)'
    BY <1>1, ElectedNow DEF ElectionInv
  <2> QED
    BY <1>2, <2>1 DEF ElectedIfLeader, Elected, Voters
<1>5. logs[i] \in Seq(Entry) /\ Len(logs[i]) \in Nat /\ (h.led \cup {u}) \in SUBSET Term
  BY <1>1, <1>2, <1>3, HistoryType, LogType
<1>6. PICK g \in History : Differs(h, g, h.led \cup {u}, i, u, logs[i], Len(logs[i]))
  BY <1>2, <1>3, <1>5, HistoryWith
<1>7. Crowned(h, g, i, u)
  BY <1>2, <1>3, <1>4, <1>6 DEF Crowned, Differs
<1>8. Remembered(h, g)
  BY <1>2, <1>3, <1>7 DEF Remembered
<1>9. Later(h, g)
  BY <1>8, RememberedLater
<1>10. \A j \in Server : status'[j] = "Leader" => currentTerm'[j] \in g.led
  <2>1. \A r \in requestVoteReply : BecomeLeader(r) => currentTerm[r.caller] \in g.led
    BY <1>2, <1>6 DEF Differs
  <2>2. h.led \subseteq g.led
    BY <1>6 DEF Differs
  <2> QED
    BY <1>1, <2>1, <2>2, LeadersOfStep
<1>11. \A r \in appendEntriesArgs : ~AcceptEntries(r)
  BY <1>2, OneAcceptance
<1> QED
  BY <1>1, <1>8, <1>9, <1>10, <1>11 DEF CleanStep

\* Every clean step from an explained state has a history after it; the lemmas that
\* follow show, part by part, that this one explains the next state.
LEMMA NextHistory ==
  ASSUME VotesSurviveRestart, RaftInv, [Next]_vars, ~KeepsStaleSuffix,
         NEW h \in History, Explains(h)
  PROVE  \E g \in History : CleanStep(h, g)
<1>1. TypeOK /\ RaftInv' /\ LogsOnDisk
  BY TypeNext, ElectionInvNext, LogInvNext DEF RaftInv, LogInv
<1>2. CASE \E m \in appendEntriesArgs : AcceptEntries(m)
  BY <1>2, AcceptanceRemembered
<1>3. CASE \E i \in Server, command \in Command : StartConses(i, command)
  BY <1>3, CommandRemembered
<1>4. CASE \E m \in requestVoteReply : BecomeLeader(m) /\ currentTerm[m.caller] \notin h.led
  BY <1>4, ElectionRemembered
<1>5. CASE /\ ~\E m \in appendEntriesArgs : AcceptEntries(m)
           /\ ~\E i \in Server, command \in Command : StartConses(i, command)
           /\ ~\E m \in requestVoteReply : BecomeLeader(m) /\ currentTerm[m.caller] \notin h.led
  <2>1. logs' = logs
    BY <1>1, <1>5, LogSteps
  <2>2. Remembered(h, h)
    BY <2>1 DEF Remembered
  <2>3. Later(h, h)
    BY <2>2, RememberedLater
  <2>4. \A i \in Server : status'[i] = "Leader" => currentTerm'[i] \in h.led
    BY <1>1, <1>5, LeadersOfStep
  <2> QED
    BY <1>1, <1>5, <2>2, <2>3, <2>4 DEF CleanStep
<1> QED
  BY <1>2, <1>3, <1>4, <1>5

-----------------------------------------------------------------------------
\* LedTerms: no term loses its leader, and term 0 never has one.

\* doElection leaves term 0 behind before it votes.
LEMMA NoVoteInTermZero ==
  ASSUME VotesSurviveRestart, RaftInv, [Next]_vars,
         \A j \in Server : voteRecord[j][0] = NoVote
  PROVE  \A j \in Server : voteRecord'[j][0] = NoVote
<1>1. TypeOK /\ VoteCallsGenuine /\ voteRecord \in [Server -> [Term -> Vote]] /\ 0 \in Term
  BY ZeroTerm DEF RaftInv, ElectionInv, TypeOK
<1> SUFFICES ASSUME NEW j \in Server
             PROVE  voteRecord'[j][0] = NoVote
  OBVIOUS
<1>2. CASE voteRecord' = voteRecord
  BY <1>2
<1>3. ASSUME NEW i \in Server, DoElection(i) PROVE voteRecord'[j][0] = NoVote
  <2>1. currentTerm[i] + 1 # 0
    <3>1. currentTerm[i] \in Term
      BY <1>1, TermsOfServers
    <3> QED
      BY <3>1, SMT DEF Term
  <2>2. /\ voteRecord'[i] = [voteRecord[i] EXCEPT ![currentTerm[i] + 1] = i]
        /\ \A c \in Server \ {i} : voteRecord'[c] = voteRecord[c]
    BY <1>1, <1>3, DoElectionVotes
  <2>3. voteRecord[i] \in [Term -> Vote]
    BY <1>1
  <2>4. voteRecord'[i][0] = voteRecord[i][0]
    BY <1>1, <2>1, <2>2, <2>3
  <2> QED
    BY <2>2, <2>4
<1>4. ASSUME NEW m \in requestVoteArgs, RequestVote(m) PROVE voteRecord'[j][0] = NoVote
  <2>1. m.caller \in Server /\ m.callee \in Server
    BY <1>1, <1>4, RequestVoteVotes
  <2>2. m.term # 0
    BY <1>1, <2>1, NoVoteAssumption DEF VoteCallsGenuine, CallIsGenuine
  <2>3. /\ voteRecord'[m.callee] = IF MayGrant(m.callee, m)
                                   THEN [voteRecord[m.callee] EXCEPT ![m.term] = m.caller]
                                   ELSE voteRecord[m.callee]
        /\ j # m.callee => voteRecord'[j] = voteRecord[j]
    BY <1>1, <1>4, RequestVoteVotes
  <2> QED
    BY <1>1, <2>1, <2>2, <2>3
<1> QED
  BY <1>1, <1>2, <1>3, <1>4, Steps, CountingVotes, RestartVotes DEF QuietStep

\* Only BecomeLeader adds a term, the one its candidate was elected in.
LEMMA LedTermsNext ==
  ASSUME NEW h, NEW g, CleanStep(h, g)
  PROVE  LedTerms(g)'
<1>1. /\ VotesSurviveRestart /\ RaftInv /\ TypeOK /\ VotesRemembered /\ [Next]_vars
      /\ h \in History /\ g \in History /\ LedTerms(h) /\ Remembered(h, g)
  BY DEF CleanStep, Explains, RaftInv, ElectionInv
<1>2. \A j \in Server : voteRecord'[j][0] = NoVote
  BY <1>1, NoVoteInTermZero DEF LedTerms
<1>3. ASSUME NEW t \in g.led PROVE \E i \in Server : Elected(i, t)'
  <2>1. t \in Term
    BY <1>1, HistoryType
  <2>2. \E i \in Server : Elected(i, t)
    BY <1>1, <1>3 DEF LedTerms, Remembered, Crowned, Extended, Accepted
  <2> QED
    BY <1>1, <2>1, <2>2, ElectedStays
<1>4. ASSUME NEW t \in Term \ g.led
      PROVE  g.log[t] = <<>> /\ \A j \in Server : g.accepted[j][t] = 0
  <2>1. CASE g = h
    BY <1>1, <1>4, <2>1 DEF LedTerms
  <2>2. ASSUME NEW i \in Server, NEW u \in Term, Crowned(h, g, i, u)
        PROVE  g.log[t] = <<>> /\ \A j \in Server : g.accepted[j][t] = 0
    BY <1>1, <1>4, <2>2 DEF LedTerms, Crowned
  <2>3. ASSUME NEW i \in Server, NEW u \in Term, Extended(h, g, i, u)
        PROVE  g.log[t] = <<>> /\ \A j \in Server : g.accepted[j][t] = 0
    BY <1>1, <1>4, <2>3 DEF LedTerms, Extended
  <2>4. ASSUME NEW i \in Server, NEW u \in Term, NEW k \in Nat, Accepted(h, g, i, u, k)
        PROVE  g.log[t] = <<>> /\ \A j \in Server : g.accepted[j][t] = 0
    BY <1>1, <1>4, <2>4 DEF LedTerms, Accepted
  <2> QED
    BY <1>1, <2>1, <2>2, <2>3, <2>4 DEF Remembered
<1>5. \A i \in Server : status'[i] = "Leader" => currentTerm'[i] \in g.led
  BY DEF CleanStep
<1> QED
  BY <1>2, <1>3, <1>4, <1>5 DEF LedTerms

-----------------------------------------------------------------------------
\* LeaderLogs

\* A leader of a term has the log of the term, and nobody else changes it.
LEMMA LeaderLogsNext ==
  ASSUME NEW h, NEW g, CleanStep(h, g)
  PROVE  LeaderLogs(g)'
<1>1. /\ VotesSurviveRestart /\ RaftInv /\ TypeOK /\ [Next]_vars
      /\ VotesRemembered /\ TypeOK' /\ LedTerms(h) /\ LeaderLogs(h)
      /\ h \in History /\ g \in History /\ Remembered(h, g)
  BY DEF CleanStep, Explains, RaftInv, ElectionInv
<1> SUFFICES ASSUME NEW i \in Server, NEW t \in g.led, Elected(i, t)'
             PROVE  /\ InTerm(i, t)' => logs'[i] = g.log[t]
                    /\ g.accepted[i][t] = Len(g.log[t])
  BY DEF LeaderLogs
<1>2. t \in Term
  BY <1>1, HistoryType
<1>3. ASSUME t \in h.led PROVE Elected(i, t)
  <2>1. PICK j \in Server : Elected(j, t)
    BY <1>1, <1>3 DEF LedTerms
  <2>2. Elected(j, t)'
    BY <1>1, <1>2, <2>1, ElectedStays
  <2> QED
    BY <2>1, <2>2, OneElectedNext
<1>4. ASSUME t \in h.led
      PROVE  /\ InTerm(i, t)' => logs[i] = h.log[t]
             /\ h.accepted[i][t] = Len(h.log[t])
  BY <1>1, <1>2, <1>3, <1>4, ElectedFacts DEF LeaderLogs
<1>5. CASE g = h /\ logs' = logs
  BY <1>4, <1>5
<1>6. ASSUME NEW c \in Server, NEW u \in Term, Crowned(h, g, c, u)
      PROVE  /\ InTerm(i, t)' => logs'[i] = g.log[t]
             /\ g.accepted[i][t] = Len(g.log[t])
  <2>1. CASE t = u
    <3>1. Elected(c, u) /\ Elected(c, u)'
      BY <1>1, <1>6, ElectedStays DEF Crowned
    <3>2. c = i
      BY <2>1, <3>1, OneElectedNext
    <3> QED
      BY <1>6, <2>1, <3>2 DEF Crowned
  <2>2. CASE t # u
    <3>1. t \in h.led /\ g.log[t] = h.log[t] /\ g.accepted[i][t] = h.accepted[i][t]
          /\ logs' = logs
      BY <1>2, <1>6, <2>2 DEF Crowned
    <3> QED
      BY <1>4, <3>1
  <2> QED
    BY <2>1, <2>2
<1>7. ASSUME NEW c \in Server, NEW u \in Term, Extended(h, g, c, u)
      PROVE  /\ InTerm(i, t)' => logs'[i] = g.log[t]
             /\ g.accepted[i][t] = Len(g.log[t])
  <2>0. t \in h.led
    BY <1>7 DEF Extended
  <2>1. CASE t = u
    <3>1. c = i
      BY <1>3, <1>7, <2>0, <2>1, OneElected DEF Extended
    <3> QED
      BY <1>7, <2>1, <3>1 DEF Extended
  <2>2. CASE t # u
    <3>1. g.log[t] = h.log[t] /\ g.accepted[i][t] = h.accepted[i][t]
      BY <1>2, <1>7, <2>2 DEF Extended
    <3>2. InTerm(i, t)' => c # i
      BY <1>7, <2>2 DEF Extended, InTerm
    <3>3. c # i => logs'[i] = logs[i]
      BY <1>7 DEF Extended
    <3> QED
      BY <1>4, <2>0, <3>1, <3>2, <3>3
  <2> QED
    BY <2>1, <2>2
<1>8. ASSUME NEW j \in Server, NEW u \in Term, NEW k \in Nat, Accepted(h, g, j, u, k)
      PROVE  /\ InTerm(i, t)' => logs'[i] = g.log[t]
             /\ g.accepted[i][t] = Len(g.log[t])
  <2>0. t \in h.led
    BY <1>8 DEF Accepted
  <2>1. CASE i = j
    <3>1. t # u
      BY <1>3, <1>8, <2>0, <2>1 DEF Accepted
    <3>2. ~InTerm(i, t)'
      BY <1>8, <2>1, <3>1 DEF Accepted, InTerm
    <3>3. g.log[t] = h.log[t] /\ g.accepted[i][t] = h.accepted[i][t]
      BY <1>2, <1>8, <3>1 DEF Accepted
    <3> QED
      BY <1>4, <2>0, <3>2, <3>3
  <2>2. CASE i # j
    <3>1. g.log[t] = h.log[t] /\ g.accepted[i][t] = h.accepted[i][t] /\ logs'[i] = logs[i]
      BY <1>2, <1>8, <2>2 DEF Accepted
    <3> QED
      BY <1>4, <2>0, <3>1
  <2> QED
    BY <2>1, <2>2
<1> QED
  BY <1>1, <1>5, <1>6, <1>7, <1>8 DEF Remembered

-----------------------------------------------------------------------------
\* LogsCopied

\* A leader that takes a command still copies the leaders before it.
LEMMA ExtendedCopied ==
  ASSUME NEW h, NEW g, CleanStep(h, g), NEW i \in Server, NEW t \in Term,
         Extended(h, g, i, t)
  PROVE  Copied(g, logs'[i])
<1>1. /\ TypeOK /\ h \in History /\ g \in History /\ Later(h, g) /\ Copied(h, logs[i])
  BY DEF CleanStep, Explains, LogsCopied, RaftInv
<1>2. /\ t \in g.led /\ g.log[t] = logs'[i] /\ Len(logs'[i]) = Len(logs[i]) + 1
      /\ SameUpTo(logs'[i], logs[i], Len(logs[i]))
      /\ logs'[i][Len(logs[i]) + 1].term = t /\ Len(logs[i]) \in Nat
  BY <1>1, LogType DEF Extended
<1>3. Copied(g, logs[i])
  BY <1>1, <1>2, CopiedStays
<1> SUFFICES ASSUME NEW n \in 1 .. Len(logs'[i])
             PROVE  /\ logs'[i][n].term \in g.led
                    /\ SameUpTo(logs'[i], g.log[logs'[i][n].term], n)
  BY DEF Copied
<1>4. CASE n = Len(logs[i]) + 1
  BY <1>2, <1>4, SameSelf, SMT
<1>5. CASE n # Len(logs[i]) + 1
  <2>1. n \in 1 .. Len(logs[i]) /\ n \in Int /\ n <= Len(logs[i])
    BY <1>2, <1>5, SMT
  <2>2. logs'[i][n] = logs[i][n] /\ SameUpTo(logs'[i], logs[i], n)
    <3>1. Len(logs'[i]) \in Int /\ Len(logs[i]) \in Int
      BY <1>2, SMT
    <3>2. SameUpTo(logs'[i], logs[i], n)
      BY <1>2, <2>1, <3>1, SameBefore
    <3> QED
      BY <1>2, <2>1, <3>2 DEF SameUpTo
  <2>3. logs[i][n].term \in g.led /\ SameUpTo(logs[i], g.log[logs[i][n].term], n)
    BY <1>3, <2>1 DEF Copied
  <2> QED
    BY <2>2, <2>3, SameAlong
<1> QED
  BY <1>4, <1>5

\* Every log stays a copy of the leaders of its entries.
LEMMA LogCopiedNext ==
  ASSUME NEW h, NEW g, CleanStep(h, g), NEW i \in Server
  PROVE  Copied(g, logs'[i])
<1>1. /\ TypeOK /\ TypeOK' /\ h \in History /\ g \in History /\ Later(h, g)
      /\ Copied(h, logs[i]) /\ \A t \in h.led : Copied(h, h.log[t])
      /\ Remembered(h, g)
  BY DEF CleanStep, Explains, LogsCopied, RaftInv
<1>2. Len(logs[i]) \in Nat
  BY <1>1, LogType
<1>3. ASSUME logs'[i] = logs[i] PROVE Copied(g, logs'[i])
  BY <1>1, <1>2, <1>3, CopiedStays
<1>4. ASSUME NEW j \in Server, NEW u \in Term, NEW k \in Nat, Accepted(h, g, j, u, k),
             i = j, Len(logs'[j]) = k
      PROVE  Copied(g, logs'[i])
  <2>1. u \in h.led /\ SameUpTo(logs'[i], h.log[u], k)
    BY <1>4 DEF Accepted
  <2>2. Len(h.log[u]) \in Nat
    BY <1>1, HistoryType
  <2>3. Copied(h, logs'[i])
    BY <1>1, <1>4, <2>1, <2>2, PrefixCopied
  <2> QED
    BY <1>1, <1>4, <2>3, CopiedStays
<1>5. ASSUME NEW c \in Server, NEW u \in Term, Extended(h, g, c, u)
      PROVE  Copied(g, logs'[i])
  <2>1. CASE c = i
    BY <1>5, <2>1, ExtendedCopied
  <2>2. CASE c # i
    BY <1>3, <1>5, <2>2 DEF Extended
  <2> QED
    BY <2>1, <2>2
<1>6. ASSUME NEW j \in Server, NEW u \in Term, NEW k \in Nat, Accepted(h, g, j, u, k)
      PROVE  Copied(g, logs'[i])
  BY <1>3, <1>4, <1>6 DEF Accepted
<1>7. ASSUME logs' = logs PROVE Copied(g, logs'[i])
  BY <1>3, <1>7
<1> QED
  BY <1>1, <1>5, <1>6, <1>7 DEF Remembered, Crowned

\* No log holds an entry of a term its disk does not know.
LEMMA LogTermsNext ==
  ASSUME NEW h, NEW g, CleanStep(h, g), NEW i \in Server, NEW n \in 1 .. Len(logs'[i])
  PROVE  logs'[i][n].term <= disk'[i].term
<1>1. /\ VotesSurviveRestart /\ TypeOK /\ TypeOK' /\ VotesRemembered /\ [Next]_vars
      /\ h \in History /\ g \in History /\ Remembered(h, g) /\ TermsAscend(h)
      /\ \A k \in 1 .. Len(logs[i]) : logs[i][k].term <= disk[i].term
  BY DEF CleanStep, Explains, LogsCopied, RaftInv, ElectionInv
<1>2. Len(logs[i]) \in Nat /\ \A k \in 1 .. Len(logs[i]) : logs[i][k].term \in Int
  BY <1>1, LogType, TermsAreNumbers
<1>3. disk[i].term \in Int /\ disk'[i].term \in Int /\ disk'[i].term >= disk[i].term
  <2>1. /\ disk[i].term \in Term /\ disk[i].term \in Int /\ disk'[i].term \in Int
        /\ disk[i].term <= currentTerm[i] /\ currentTerm[i] \in Int
    BY <1>1, TermsOfServers, TermsOfServersNext DEF VotesRemembered
  <2>2. /\ currentTerm'[i] >= currentTerm[i] \/ currentTerm'[i] = disk[i].term
        /\ disk'[i].term = disk[i].term \/ disk'[i].term = currentTerm'[i]
    BY <1>1, TermsMove
  <2>3. currentTerm'[i] \in Int
    BY <1>1, TermsOfServersNext
  <2> QED
    BY <2>1, <2>2, <2>3, SMT
<1>4. ASSUME logs'[i] = logs[i] PROVE logs'[i][n].term <= disk'[i].term
  BY <1>1, <1>2, <1>3, <1>4, SMT
<1>5. ASSUME NEW t \in Term, Extended(h, g, i, t) PROVE logs'[i][n].term <= disk'[i].term
  <2>1. /\ Len(logs'[i]) = Len(logs[i]) + 1 /\ disk'[i].term = t
        /\ SameUpTo(logs'[i], logs[i], Len(logs[i]))
        /\ logs'[i][Len(logs[i]) + 1].term = t
    BY <1>5 DEF Extended
  <2>2. CASE n = Len(logs[i]) + 1
    BY <1>3, <2>1, <2>2, SMT
  <2>3. CASE n # Len(logs[i]) + 1
    <3>1. n \in 1 .. Len(logs[i])
      BY <1>2, <2>1, <2>3, SMT
    <3>2. logs'[i][n] = logs[i][n]
      BY <2>1, <3>1 DEF SameUpTo
    <3> QED
      BY <1>1, <1>2, <1>3, <3>1, <3>2, SMT
  <2> QED
    BY <2>2, <2>3
<1>6. ASSUME NEW u \in Term, NEW k \in Nat, Accepted(h, g, i, u, k), Len(logs'[i]) = k
      PROVE  logs'[i][n].term <= disk'[i].term
  <2>1. u \in h.led /\ disk'[i].term = u /\ SameUpTo(logs'[i], h.log[u], k)
    BY <1>6 DEF Accepted
  <2>2. n \in 1 .. k /\ n \in 1 .. Len(h.log[u])
    <3>1. Len(h.log[u]) \in Nat
      BY <1>1, HistoryType
    <3> QED
      BY <1>6, <2>1, <3>1, SMT DEF SameUpTo
  <2>3. logs'[i][n] = h.log[u][n]
    BY <2>1, <2>2 DEF SameUpTo
  <2> QED
    BY <1>1, <2>1, <2>2, <2>3 DEF TermsAscend
<1>7. ASSUME logs'[i] # logs[i]
      PROVE  \/ \E t \in Term : Extended(h, g, i, t)
             \/ \E u \in Term, k \in Nat : Accepted(h, g, i, u, k) /\ Len(logs'[i]) = k
  BY <1>1, <1>7 DEF Remembered, Crowned, Extended, Accepted
<1> QED
  BY <1>4, <1>5, <1>6, <1>7

\* LogsCopied, for servers and leaders alike.
LEMMA LogsCopiedNext ==
  ASSUME NEW h, NEW g, CleanStep(h, g)
  PROVE  LogsCopied(g)'
<1>1. /\ TypeOK /\ h \in History /\ g \in History /\ Later(h, g) /\ LogsCopied(h)
      /\ Remembered(h, g)
  BY DEF CleanStep, Explains, RaftInv
<1>2. ASSUME NEW t \in g.led PROVE Copied(g, g.log[t])
  <2>1. t \in Term
    BY <1>1, HistoryType
  <2>2. ASSUME t \in h.led, g.log[t] = h.log[t] PROVE Copied(g, g.log[t])
    <3>1. Len(h.log[t]) \in Nat /\ Copied(h, h.log[t])
      BY <1>1, <2>1, <2>2, HistoryType DEF LogsCopied
    <3> QED
      BY <1>1, <2>2, <3>1, CopiedStays
  <2>3. ASSUME NEW i \in Server, NEW u \in Term, Crowned(h, g, i, u)
        PROVE  Copied(g, g.log[t])
    <3>1. CASE t = u
      <4>1. g.log[t] = logs'[i]
        BY <2>3, <3>1 DEF Crowned
      <4> QED
        BY <4>1, LogCopiedNext
    <3>2. CASE t # u
      BY <1>2, <2>1, <2>2, <2>3, <3>2 DEF Crowned
    <3> QED
      BY <3>1, <3>2
  <2>4. ASSUME NEW i \in Server, NEW u \in Term, Extended(h, g, i, u)
        PROVE  Copied(g, g.log[t])
    <3>1. CASE t = u
      <4>1. g.log[t] = logs'[i]
        BY <2>4, <3>1 DEF Extended
      <4> QED
        BY <4>1, LogCopiedNext
    <3>2. CASE t # u
      BY <1>2, <2>1, <2>2, <2>4, <3>2 DEF Extended
    <3> QED
      BY <3>1, <3>2
  <2>5. ASSUME NEW j \in Server, NEW u \in Term, NEW k \in Nat, Accepted(h, g, j, u, k)
        PROVE  Copied(g, g.log[t])
    BY <1>2, <2>2, <2>5 DEF Accepted
  <2> QED
    BY <1>1, <1>2, <2>2, <2>3, <2>4, <2>5 DEF Remembered
<1>3. \A i \in Server : /\ Copied(g, logs'[i])
                        /\ \A n \in 1 .. Len(logs'[i]) : logs'[i][n].term <= disk'[i].term
  BY LogCopiedNext, LogTermsNext
<1> QED
  BY <1>2, <1>3 DEF LogsCopied, Copied

-----------------------------------------------------------------------------
\* TermsAscend

\* A leader appends entries of its own term only, the newest in its log.
LEMMA TermsAscendNext ==
  ASSUME NEW h, NEW g, CleanStep(h, g)
  PROVE  TermsAscend(g)
<1>1. /\ TypeOK /\ VotesRemembered /\ h \in History /\ g \in History
      /\ Remembered(h, g) /\ TermsAscend(h) /\ LogsCopied(h)
  BY DEF CleanStep, Explains, RaftInv, ElectionInv
<1> SUFFICES ASSUME NEW t \in g.led, NEW n \in 1 .. Len(g.log[t])
             PROVE  /\ g.log[t][n].term <= t
                    /\ \A k \in 1 .. n : g.log[t][k].term <= g.log[t][n].term
  BY DEF TermsAscend
<1> DEFINE P == /\ g.log[t][n].term <= t
                /\ \A k \in 1 .. n : g.log[t][k].term <= g.log[t][n].term
<1>2. t \in Term /\ t \in Int
  BY <1>1, HistoryType, TermsAreNumbers
<1>3. ASSUME t \in h.led, g.log[t] = h.log[t] PROVE P
  BY <1>1, <1>3 DEF TermsAscend
<1>4. ASSUME NEW i \in Server, Crowned(h, g, i, t) PROVE P
  <2>1. g.log[t] = logs[i] /\ currentTerm[i] = t
    BY <1>4 DEF Crowned
  <2>2. \A k \in 1 .. n : logs[i][k].term <= logs[i][n].term
    BY <1>1, <2>1, CopyAscends DEF LogsCopied
  <2>3. logs[i][n].term <= disk[i].term /\ logs[i][n].term \in Int
    BY <1>1, <2>1, LogType, TermsAreNumbers DEF LogsCopied
  <2>4. disk[i].term <= t /\ disk[i].term \in Int
    BY <1>1, <2>1, TermsOfServers DEF VotesRemembered
  <2> QED
    BY <1>2, <2>1, <2>2, <2>3, <2>4, SMT
<1>5. ASSUME NEW i \in Server, Extended(h, g, i, t) PROVE P
  <2>1. /\ t \in h.led /\ logs[i] = h.log[t] /\ g.log[t] = logs'[i]
        /\ Len(logs'[i]) = Len(logs[i]) + 1 /\ SameUpTo(logs'[i], logs[i], Len(logs[i]))
        /\ logs'[i][Len(logs[i]) + 1].term = t /\ Len(logs[i]) \in Nat
    BY <1>1, <1>5, LogType DEF Extended
  <2>2. \A k \in 1 .. Len(logs[i]) : logs'[i][k] = h.log[t][k]
    BY <2>1 DEF SameUpTo
  <2>3. \A k \in 1 .. Len(logs[i]) : logs'[i][k].term <= t
    BY <1>1, <2>1, <2>2 DEF TermsAscend
  <2>4. CASE n = Len(logs[i]) + 1
    <3>1. ASSUME NEW k \in 1 .. n PROVE logs'[i][k].term <= t
      <4>1. CASE k = n
        BY <1>2, <2>1, <2>4, <4>1, SMT
      <4>2. CASE k # n
        <5>1. k \in 1 .. Len(logs[i])
          BY <2>1, <2>4, <4>2, SMT
        <5> QED
          BY <2>3, <5>1
      <4> QED
        BY <4>1, <4>2
    <3>2. logs'[i][n].term = t
      BY <2>1, <2>4
    <3> QED
      BY <1>2, <2>1, <3>1, <3>2, SMT
  <2>5. CASE n # Len(logs[i]) + 1
    <3>1. n \in 1 .. Len(logs[i]) /\ \A k \in 1 .. n : k \in 1 .. Len(logs[i])
      BY <2>1, <2>5, SMT
    <3>2. \A k \in 1 .. n : h.log[t][k].term <= h.log[t][n].term
      BY <1>1, <2>1, <3>1 DEF TermsAscend
    <3> QED
      BY <2>1, <2>2, <2>3, <3>1, <3>2
  <2> QED
    BY <2>4, <2>5
<1>6. \/ t \in h.led /\ g.log[t] = h.log[t]
      \/ \E i \in Server : Crowned(h, g, i, t) \/ Extended(h, g, i, t)
  BY <1>1, <1>2 DEF Remembered, Crowned, Extended, Accepted
<1> QED
  BY <1>3, <1>4, <1>5, <1>6

-----------------------------------------------------------------------------
\* AcceptedOnce

\* What is accepted of a leader lies in its log.
LEMMA AcceptedOnceNext ==
  ASSUME NEW h, NEW g, CleanStep(h, g)
  PROVE  AcceptedOnce(g)'
<1>1. /\ VotesSurviveRestart /\ RaftInv /\ TypeOK /\ TypeOK' /\ [Next]_vars
      /\ VotesRemembered /\ VotesForCandidates /\ LedTerms(h) /\ AcceptedOnce(h)
      /\ h \in History /\ g \in History /\ Remembered(h, g) /\ Later(h, g)
  BY DEF CleanStep, Explains, RaftInv, ElectionInv, LogInv
<1> SUFFICES ASSUME NEW j \in Server, NEW t \in g.led, g.accepted[j][t] > 0
             PROVE  g.accepted[j][t] <= Len(g.log[t]) /\ Reached(j, t)'
  BY DEF AcceptedOnce, Reached
<1>2. /\ t \in Term /\ t \in Int /\ g.accepted[j][t] \in Nat /\ h.accepted[j][t] \in Nat
      /\ Len(h.log[t]) \in Nat /\ Len(g.log[t]) \in Nat /\ Len(h.log[t]) <= Len(g.log[t])
  <2>1. t \in Term /\ SameUpTo(g.log[t], h.log[t], Len(h.log[t]))
    BY <1>1, HistoryType DEF Later
  <2> QED
    BY <1>1, <2>1, HistoryType, TermsAreNumbers DEF SameUpTo
<1>3. ASSUME t \in h.led, g.accepted[j][t] = h.accepted[j][t]
      PROVE  g.accepted[j][t] <= Len(g.log[t]) /\ Reached(j, t)'
  <2>1. h.accepted[j][t] <= Len(h.log[t]) /\ Reached(j, t)
    BY <1>1, <1>3 DEF AcceptedOnce
  <2>2. Reached(j, t)'
    BY <1>1, <1>2, <2>1, TermsPass
  <2> QED
    BY <1>2, <1>3, <2>1, <2>2, SMT
<1>4. ASSUME Elected(j, t) PROVE Reached(j, t)'
  BY <1>1, <1>2, <1>4, ElectedReached, TermsPass
<1>5. ASSUME NEW i \in Server, NEW u \in Term, Crowned(h, g, i, u) \/ Extended(h, g, i, u)
      PROVE  g.accepted[j][t] <= Len(g.log[t]) /\ Reached(j, t)'
  <2>1. CASE i = j /\ t = u
    <3>1. Elected(j, t) /\ g.accepted[j][t] = Len(g.log[t])
      BY <1>5, <2>1 DEF Crowned, Extended
    <3> QED
      BY <1>2, <1>4, <3>1, SMT
  <2>2. CASE ~(i = j /\ t = u)
    <3>1. g.accepted[j][t] = h.accepted[j][t]
      BY <1>2, <1>5, <2>2 DEF Crowned, Extended
    <3>2. CASE t \in h.led
      BY <1>3, <3>1, <3>2
    <3>3. CASE t \notin h.led
      BY <1>1, <1>2, <3>1, <3>3, SMT DEF LedTerms
    <3> QED
      BY <3>2, <3>3
  <2> QED
    BY <2>1, <2>2
<1>6. ASSUME NEW i \in Server, NEW u \in Term, NEW k \in Nat, Accepted(h, g, i, u, k)
      PROVE  g.accepted[j][t] <= Len(g.log[t]) /\ Reached(j, t)'
  <2>0. t \in h.led /\ g.log = h.log
    BY <1>6 DEF Accepted
  <2>1. CASE i = j /\ t = u /\ g.accepted[j][t] = k
    <3>1. k <= Len(h.log[t])
      BY <1>6, <2>1 DEF Accepted, SameUpTo
    <3>2. currentTerm'[j] = t /\ disk'[j].term = t
      BY <1>6, <2>1 DEF Accepted
    <3>3. Reached(j, t)'
      BY <1>2, <3>2, SMT DEF Reached
    <3> QED
      BY <2>0, <2>1, <3>1, <3>3
  <2>2. CASE ~(i = j /\ t = u /\ g.accepted[j][t] = k)
    <3>1. g.accepted[j][t] = h.accepted[j][t]
      BY <1>2, <1>6, <2>2 DEF Accepted
    <3> QED
      BY <1>3, <2>0, <3>1
  <2> QED
    BY <2>1, <2>2
<1> QED
  BY <1>1, <1>3, <1>5, <1>6 DEF Remembered

-----------------------------------------------------------------------------
\* AcceptedKept

\* How far a server followed a leader changes only when it is that leader, or
\* accepts from it.
LEMMA AcceptedMore ==
  ASSUME NEW h, NEW g, CleanStep(h, g), NEW j \in Server, NEW t \in h.led,
         g.accepted[j][t] # h.accepted[j][t]
  PROVE  \/ Extended(h, g, j, t)
         \/ \E k \in Nat : Accepted(h, g, j, t, k) /\ g.accepted[j][t] = k
<1>1. t \in Term /\ Remembered(h, g)
  BY HistoryType DEF CleanStep
<1> QED
  BY <1>1 DEF Remembered, Crowned, Extended, Accepted

\* What a log has in common with the log of a leader it keeps, unless it is
\* overwritten by the leader of a later term that never had it.
LEMMA CopyKept ==
  ASSUME NEW h, NEW g, CleanStep(h, g), NEW j \in Server, NEW t \in h.led,
         NEW k \in 1 .. Len(h.log[t]), currentTerm[j] >= t, Own(h, k, t),
         SameUpTo(logs[j], h.log[t], k)
  PROVE  NeverChosen(h, k, t) \/ SameUpTo(logs'[j], h.log[t], k)
<1>1. /\ TypeOK /\ TypeOK' /\ h \in History /\ Remembered(h, g) /\ LaterLeaders(h)
      /\ t \in Term /\ t \in Int
  BY HistoryType, TermsAreNumbers DEF CleanStep, Explains, RaftInv
<1>2. /\ k \in Int /\ Len(logs[j]) \in Nat /\ Len(logs'[j]) \in Nat /\ Len(h.log[t]) \in Nat
      /\ k <= Len(logs[j])
  <2>1. Len(h.log[t]) \in Nat /\ Len(logs[j]) \in Nat /\ k \in Int
    BY <1>1, HistoryType, LogType
  <2>2. logs'[j] \in Seq(Entry)
    BY <1>1 DEF TypeOK
  <2> QED
    BY <2>1, <2>2, LenProperties DEF SameUpTo
<1>3. ASSUME logs'[j] = logs[j] PROVE SameUpTo(logs'[j], h.log[t], k)
  BY <1>3
<1>4. ASSUME NEW u \in Term, Extended(h, g, j, u) PROVE SameUpTo(logs'[j], h.log[t], k)
  <2>1. SameUpTo(logs'[j], logs[j], Len(logs[j]))
    BY <1>4 DEF Extended
  <2>2. SameUpTo(logs'[j], logs[j], k)
    <3>1. Len(logs[j]) \in Int /\ Len(logs'[j]) \in Int
      BY <1>2, SMT
    <3> QED
      BY <1>2, <2>1, <3>1, SameBefore
  <2> QED
    BY <2>2, SameAlong
<1>5. ASSUME NEW u \in Term, NEW n \in Nat, Accepted(h, g, j, u, n), Len(logs[j]) <= n
      PROVE  NeverChosen(h, k, t) \/ SameUpTo(logs'[j], h.log[t], k)
  <2>1. /\ u \in h.led /\ u >= t /\ u \in Int
        /\ SameUpTo(logs'[j], h.log[u], n)
    <3>1. u \in h.led /\ currentTerm[j] <= u /\ SameUpTo(logs'[j], h.log[u], n)
      BY <1>5 DEF Accepted
    <3>2. currentTerm[j] \in Int /\ u \in Int
      BY <1>1, TermsOfServers, TermsAreNumbers
    <3> QED
      BY <1>1, <3>1, <3>2, SMT
  <2>2. SameUpTo(logs'[j], h.log[u], k)
    <3>1. Len(h.log[u]) \in Int /\ Len(logs'[j]) \in Int /\ n \in Int /\ k <= n
      BY <1>1, <1>2, <1>5, HistoryType, SMT
    <3> QED
      BY <1>2, <2>1, <3>1, SameBefore
  <2>3. CASE u = t
    BY <2>2, <2>3
  <2>4. CASE u # t
    <3>1. t < u
      BY <1>1, <2>1, <2>4, SMT
    <3>2. NeverChosen(h, k, t) \/ SameUpTo(h.log[u], h.log[t], k)
      BY <1>1, <2>1, <3>1 DEF LaterLeaders
    <3> QED
      BY <2>2, <3>2, SameAlong
  <2> QED
    BY <2>3, <2>4
<1>6. \/ logs'[j] = logs[j]
      \/ \E u \in Term : Extended(h, g, j, u)
      \/ \E u \in Term, n \in Nat : Accepted(h, g, j, u, n) /\ Len(logs[j]) <= n
  <2>1. CASE g = h /\ logs' = logs
    BY <2>1
  <2>2. ASSUME NEW i \in Server, NEW u \in Term, Crowned(h, g, i, u) PROVE logs'[j] = logs[j]
    BY <2>2 DEF Crowned
  <2>3. ASSUME NEW i \in Server, NEW u \in Term, Extended(h, g, i, u)
        PROVE  logs'[j] = logs[j] \/ Extended(h, g, j, u)
    <3>1. CASE i = j
      BY <2>3, <3>1
    <3>2. CASE i # j
      BY <2>3, <3>2 DEF Extended
    <3> QED
      BY <3>1, <3>2
  <2>4. ASSUME NEW i \in Server, NEW u \in Term, NEW n \in Nat, Accepted(h, g, i, u, n)
        PROVE  \/ logs'[j] = logs[j]
               \/ Accepted(h, g, j, u, n) /\ Len(logs[j]) <= n
    <3>1. CASE i = j
      BY <2>4, <3>1 DEF Accepted
    <3>2. CASE i # j
      BY <2>4, <3>2 DEF Accepted
    <3> QED
      BY <3>1, <3>2
  <2> QED
    BY <1>1, <2>1, <2>2, <2>3, <2>4 DEF Remembered
<1> QED
  BY <1>3, <1>4, <1>5, <1>6

\* What a server accepted it keeps: a later leader has it too, or it was in vain.
LEMMA AcceptedKeptNext ==
  ASSUME NEW h, NEW g, CleanStep(h, g)
  PROVE  AcceptedKept(g)'
<1>1. /\ VotesSurviveRestart /\ RaftInv /\ TypeOK /\ [Next]_vars
      /\ h \in History /\ g \in History /\ Explains(h) /\ Remembered(h, g) /\ Later(h, g)
      /\ AcceptedKept(h) /\ AcceptedOnce(h)
  BY DEF CleanStep, Explains, RaftInv
<1> SUFFICES ASSUME NEW j \in Server, NEW t \in g.led, NEW k \in 1 .. g.accepted[j][t],
                    Own(g, k, t)
             PROVE  NeverChosen(g, k, t)' \/ SameUpTo(logs'[j], g.log[t], k)
  BY DEF AcceptedKept, Own
<1>2. /\ t \in Term /\ g.accepted[j][t] \in Nat /\ h.accepted[j][t] \in Nat /\ k \in Int
      /\ k <= g.accepted[j][t] /\ Len(h.log[t]) \in Nat
  <2>1. t \in Term
    BY <1>1, HistoryType
  <2> QED
    BY <1>1, <2>1, HistoryType, SMT
<1>3. ASSUME t \in h.led, k <= h.accepted[j][t], Own(h, k, t)
      PROVE  NeverChosen(g, k, t)' \/ SameUpTo(logs'[j], g.log[t], k)
  <2>1. k \in 1 .. h.accepted[j][t] /\ h.accepted[j][t] > 0
    BY <1>2, <1>3, SMT
  <2>2. NeverChosen(h, k, t) \/ SameUpTo(logs[j], h.log[t], k)
    BY <1>1, <1>3, <2>1 DEF AcceptedKept
  <2>3. currentTerm[j] >= t /\ k \in 1 .. Len(h.log[t])
    BY <1>1, <1>3, <2>1 DEF AcceptedOnce, Reached, Own
  <2>4. NeverChosen(h, k, t) \/ SameUpTo(logs'[j], h.log[t], k)
    BY <1>3, <2>2, <2>3, CopyKept
  <2>5. NeverChosen(h, k, t) => NeverChosen(g, k, t)'
    BY <1>1, <1>2, NeverStays
  <2>6. SameUpTo(logs'[j], h.log[t], k) => SameUpTo(logs'[j], g.log[t], k)
    BY <1>1, <1>2, SameStays
  <2> QED
    BY <2>4, <2>5, <2>6
<1>4. ASSUME Extended(h, g, j, t) PROVE SameUpTo(logs'[j], g.log[t], k)
  <2>1. g.log[t] = logs'[j] /\ g.accepted[j][t] = Len(logs'[j])
    BY <1>4 DEF Extended
  <2> QED
    BY <1>2, <2>1, SameSelf
<1>5. ASSUME NEW n \in Nat, Accepted(h, g, j, t, n), g.accepted[j][t] = n
      PROVE  SameUpTo(logs'[j], g.log[t], k)
  <2>1. SameUpTo(logs'[j], g.log[t], n)
    BY <1>5 DEF Accepted
  <2>2. Len(g.log[t]) \in Int /\ Len(logs'[j]) \in Int /\ n \in Int
    <3>1. TypeOK'
      BY DEF CleanStep, RaftInv
    <3>2. logs'[j] \in Seq(Entry)
      BY <3>1 DEF TypeOK
    <3>3. Len(logs'[j]) \in Nat /\ Len(g.log[t]) \in Nat
      BY <1>1, <1>2, <3>2, LenProperties, HistoryType
    <3> QED
      BY <3>3, SMT
  <2> QED
    BY <1>2, <1>5, <2>1, <2>2, SameBefore
<1>6. CASE t \in h.led /\ g.accepted[j][t] # h.accepted[j][t]
  BY <1>4, <1>5, <1>6, AcceptedMore
<1>7. CASE t \in h.led /\ Own(h, k, t) /\ g.accepted[j][t] = h.accepted[j][t]
  BY <1>2, <1>3, <1>7
<1>8. ASSUME NEW i \in Server, Extended(h, g, i, t), k = Len(logs[i]) + 1,
             g.accepted[j][t] = h.accepted[j][t]
      PROVE  FALSE
  <2>1. t \in h.led /\ logs[i] = h.log[t]
    BY <1>8 DEF Extended
  <2>2. h.accepted[j][t] > 0 => h.accepted[j][t] <= Len(h.log[t])
    BY <1>1, <2>1 DEF AcceptedOnce
  <2> QED
    BY <1>2, <1>8, <2>1, <2>2, SMT
<1>9. \/ t \in h.led /\ Own(h, k, t)
      \/ \E i \in Server : Extended(h, g, i, t) /\ k = Len(logs[i]) + 1
  BY <1>1, <1>2, NewOwn
<1>10. (\E i \in Server : Extended(h, g, i, t)) => t \in h.led
  BY DEF Extended
<1> QED
  BY <1>6, <1>7, <1>8, <1>9, <1>10

-----------------------------------------------------------------------------
\* VotesForNewer and CallsOfCandidate

\* Who votes in a term has reached it, in memory and on disk.
LEMMA VoteReaches ==
  ASSUME TypeOK, VotesRemembered, NEW j \in Server, NEW u \in Term, voteRecord[j][u] # NoVote
  PROVE  Reached(j, u)
<1>1. /\ RecordMatches(voteRecord[j], currentTerm[j], votedFor[j])
      /\ RecordMatches(voteRecord[j], disk[j].term, disk[j].votedFor)
  BY DEF VotesRemembered
<1>2. ~(u > currentTerm[j]) /\ ~(u > disk[j].term)
  BY <1>1 DEF RecordMatches
<1>3. u \in Int /\ currentTerm[j] \in Int /\ disk[j].term \in Int
  BY TermsOfServers, TermsAreNumbers
<1> QED
  BY <1>2, <1>3, SMT DEF Reached

\* A candidate changes nothing in its log as long as nobody leads its term.
LEMMA CandidateKeepsLog ==
  ASSUME NEW h, NEW g, CleanStep(h, g), NEW c \in Server, NEW u \in Term \ g.led,
         InTerm(c, u)'
  PROVE  logs'[c] = logs[c]
<1>1. Remembered(h, g)
  BY DEF CleanStep
<1>2. currentTerm'[c] = u \/ disk'[c].term = u
  BY DEF InTerm
<1> QED
  BY <1>1, <1>2 DEF Remembered, Crowned, Extended, Accepted

\* Every way in which a vote is given.
LEMMA NewVote ==
  ASSUME VotesSurviveRestart, TypeOK, [Next]_vars, NEW j \in Server, NEW u \in Term,
         voteRecord'[j][u] # voteRecord[j][u]
  PROVE  \/ DoElection(j) /\ u = currentTerm[j] + 1 /\ voteRecord'[j][u] = j
         \/ \E m \in requestVoteArgs :
              /\ RequestVote(m) /\ MayGrant(j, m)
              /\ m.callee = j /\ m.term = u /\ voteRecord'[j][u] = m.caller
<1>1. voteRecord[j] \in [Term -> Vote]
  BY DEF TypeOK
<1>2. ASSUME NEW i \in Server, DoElection(i)
      PROVE  DoElection(j) /\ u = currentTerm[j] + 1 /\ voteRecord'[j][u] = j
  <2>1. /\ voteRecord'[i] = [voteRecord[i] EXCEPT ![currentTerm[i] + 1] = i]
        /\ \A c \in Server \ {i} : voteRecord'[c] = voteRecord[c]
    BY <1>2, DoElectionVotes
  <2>2. i = j
    BY <2>1
  <2>3. u = currentTerm[j] + 1
    BY <1>1, <2>1, <2>2
  <2> QED
    BY <1>1, <1>2, <2>1, <2>2, <2>3
<1>3. ASSUME NEW m \in requestVoteArgs, RequestVote(m)
      PROVE  /\ MayGrant(j, m) /\ m.callee = j /\ m.term = u /\ voteRecord'[j][u] = m.caller
  <2>1. /\ voteRecord'[m.callee] = IF MayGrant(m.callee, m)
                                   THEN [voteRecord[m.callee] EXCEPT ![m.term] = m.caller]
                                   ELSE voteRecord[m.callee]
        /\ \A c \in Server \ {m.callee} : voteRecord'[c] = voteRecord[c]
    <3>1. /\ m.callee \in Server /\ m.term \in Term /\ m.caller \in Server
      BY <1>3, RequestVoteVotes
    <3> QED
      BY <1>3, <3>1 DEF RequestVote, TypeOK
  <2>2. m.callee = j
    BY <2>1
  <2>3. MayGrant(j, m) /\ voteRecord'[j] = [voteRecord[j] EXCEPT ![m.term] = m.caller]
    BY <2>1, <2>2
  <2>4. m.term = u
    BY <1>1, <2>3
  <2> QED
    BY <1>1, <2>2, <2>3, <2>4
<1>4. voteRecord' # voteRecord
  OBVIOUS
<1> QED
  BY <1>2, <1>3, <1>4, Steps, CountingVotes, RestartVotes DEF QuietStep

\* The term of the last entry is a term.
LEMMA LastTermType ==
  ASSUME TypeOK, NEW c \in Server
  PROVE  LastTerm(logs[c]) \in Term /\ LastTerm(logs[c]) \in Int
<1>1. logs[c] \in Seq(Entry)
  BY DEF TypeOK
<1> QED
  BY <1>1, TermAtType, TermsAreNumbers DEF LastTerm

\* Who has an entry at k of term t, and its log from the leaders, has a log that
\* is at least as new.
LEMMA HolderIsNewer ==
  ASSUME TypeOK, NEW h \in History, TermsAscend(h), NEW j \in Server, Copied(h, logs[j]),
         NEW k \in 1 .. Len(logs[j]), logs[j][k].term >= 0
  PROVE  AtLeast(logs[j], k, logs[j][k].term)
<1> DEFINE L == Len(logs[j])
<1>1. L \in Nat /\ k \in Int /\ logs[j][k].term \in Int /\ logs[j][L].term \in Int
      /\ LastTerm(logs[j]) = logs[j][L].term
  <2>1. L \in Nat
    BY LogType
  <2>2. L \in 1 .. L /\ k \in Int
    BY <2>1, SMT
  <2>3. logs[j][k].term \in Int /\ logs[j][L].term \in Int
    BY <2>2, LogType, TermsAreNumbers
  <2> QED
    BY <2>1, <2>2, <2>3 DEF LastTerm, TermAt
<1>2. L \in 1 .. L /\ k \in 1 .. L /\ k <= L
  BY <1>1, SMT
<1>3. logs[j][k].term <= logs[j][L].term
  BY <1>2, CopyAscends
<1> HIDE DEF L
<1>4. logs[j][k].term < LastTerm(logs[j]) \/ logs[j][k].term = LastTerm(logs[j])
  BY <1>1, <1>3, SMT
<1>5. L >= k
  BY <1>1, <1>2, SMT
<1> QED
  BY <1>1, <1>4, <1>5, SMT DEF AtLeast, L

\* UpToDate: a vote goes to a candidate that has what the voter accepted.
LEMMA VotesForNewerNext ==
  ASSUME NEW h, NEW g, CleanStep(h, g)
  PROVE  VotesForNewer(g)'
<1>1. /\ VotesSurviveRestart /\ RaftInv /\ TypeOK /\ TypeOK' /\ [Next]_vars
      /\ VotesRemembered /\ VoteCallsGenuine /\ VotesForCandidates
      /\ h \in History /\ g \in History /\ Explains(h) /\ Remembered(h, g) /\ Later(h, g)
      /\ LedTerms(h) /\ AcceptedKept(h) /\ AcceptedOnce(h) /\ LogsCopied(h)
      /\ TermsAscend(h) /\ VotesForNewer(h) /\ CallsOfCandidate(h)
  BY DEF CleanStep, Explains, RaftInv, ElectionInv, LogInv
<1> SUFFICES ASSUME NEW j \in Server, NEW c \in Server, NEW u \in Term \ g.led,
                    voteRecord'[j][u] = c, InTerm(c, u)',
                    NEW t \in g.led, NEW k \in 1 .. g.accepted[j][t],
                    t < u, Own(g, k, t)
             PROVE  NeverChosen(g, k, t)' \/ AtLeast(logs'[c], k, t)
  BY DEF VotesForNewer, InTerm, Own, AtLeast, LastTerm, TermAt
<1>2. /\ t \in Term /\ t \in Int /\ u \in Int /\ u \notin h.led
      /\ g.accepted[j][t] \in Nat /\ h.accepted[j][t] \in Nat /\ k \in Int
      /\ 1 <= k /\ k <= g.accepted[j][t] /\ Len(h.log[t]) \in Nat
  <2>1. t \in Term /\ h.led \subseteq g.led
    BY <1>1, HistoryType DEF Later
  <2> QED
    BY <1>1, <2>1, HistoryType, TermsAreNumbers, SMT
<1>3. logs'[c] = logs[c]
  BY CandidateKeepsLog
<1>4. NeverChosen(h, k, t) => NeverChosen(g, k, t)'
  BY <1>1, <1>2, NeverStays
<1>5. ASSUME g.accepted[j][t] = h.accepted[j][t]
      PROVE  t \in h.led /\ Own(h, k, t) /\ k \in 1 .. h.accepted[j][t]
  <2>1. t \in h.led
    BY <1>1, <1>2, <1>5, SMT DEF LedTerms
  <2>2. k \in 1 .. h.accepted[j][t] /\ k \in 1 .. Len(h.log[t])
    <3>1. h.accepted[j][t] > 0
      BY <1>2, <1>5, SMT
    <3>2. h.accepted[j][t] <= Len(h.log[t])
      BY <1>1, <2>1, <3>1 DEF AcceptedOnce
    <3> QED
      BY <1>2, <1>5, <3>2, SMT
  <2> QED
    BY <1>1, <1>2, <2>1, <2>2, OwnStays
<1>6. CASE voteRecord[j][u] = c
  <2>1. voteRecord[c][u] = c /\ c # NoVote
    BY <1>1, <1>6, NoVoteAssumption DEF VotesForCandidates
  <2>2. Reached(c, u) /\ Reached(j, u)
    BY <1>1, <1>6, <2>1, VoteReaches
  <2>3. InTerm(c, u)
    BY <1>1, <2>2, TermsPass
  <2>4. Beyond(j, t)
    <3>1. currentTerm[j] \in Int /\ disk[j].term \in Int
      BY <1>1, TermsOfServers
    <3> QED
      BY <1>2, <2>2, <3>1, SMT DEF Reached, Beyond
  <2>5. g.accepted[j][t] = h.accepted[j][t]
    BY <1>1, <1>2, <2>4 DEF Later
  <2>6. NeverChosen(h, k, t) \/ AtLeast(logs[c], k, t)
    BY <1>1, <1>2, <1>5, <1>6, <2>3, <2>5 DEF VotesForNewer
  <2> QED
    BY <1>3, <1>4, <2>6
<1>7. CASE voteRecord[j][u] # c
  <2>1. \/ DoElection(j) /\ u = currentTerm[j] + 1 /\ c = j
        \/ \E m \in requestVoteArgs :
             /\ RequestVote(m) /\ MayGrant(j, m)
             /\ m.callee = j /\ m.term = u /\ c = m.caller
    BY <1>1, <1>7, NewVote
  <2>2. currentTerm'[j] = u
    <3>1. DoElection(j) => currentTerm'[j] = currentTerm[j] + 1
      BY <1>1, DoElectionVotes
    <3>2. \A m \in requestVoteArgs : RequestVote(m) => currentTerm'[m.callee] = m.term
      BY <1>1, RequestVoteVotes
    <3> QED
      BY <2>1, <3>1, <3>2
  <2>3. logs' = logs
    BY <2>1 DEF DoElection, RequestVote, logVars
  <2>4. t \in h.led /\ Own(h, k, t)
    <3>1. ASSUME NEW i \in Server, Extended(h, g, i, t) PROVE FALSE
      <4>1. Len(logs[i]) = Len(logs[i]) + 1
        BY <2>3, <3>1 DEF Extended
      <4>2. Len(logs[i]) \in Nat
        BY <1>1, LogType
      <4> QED
        BY <4>1, <4>2, SMT
    <3> QED
      BY <1>1, <1>2, <3>1, NewOwn
  <2>5. g.accepted[j][t] = h.accepted[j][t]
    <3>1. ~Extended(h, g, j, t) /\ \A n \in Nat : ~Accepted(h, g, j, t, n)
      BY <1>2, <2>2, <2>4 DEF Extended, Accepted
    <3> QED
      BY <2>4, <3>1, AcceptedMore
  <2>6. NeverChosen(h, k, t) \/ SameUpTo(logs[j], h.log[t], k)
    BY <1>1, <1>5, <2>4, <2>5 DEF AcceptedKept
  <2>7. ASSUME SameUpTo(logs[j], h.log[t], k) PROVE AtLeast(logs[j], k, t)
    <3>1. Len(logs[j]) \in Nat
      BY <1>1, LogType
    <3>2. k \in 1 .. Len(logs[j]) /\ k \in 1 .. k
      BY <1>2, <2>7, <3>1, SMT DEF SameUpTo
    <3>3. logs[j][k].term = t
      BY <2>4, <2>7, <3>2 DEF SameUpTo, Own
    <3>4. t >= 0
      BY <1>2, SMT DEF Term
    <3> QED
      BY <1>1, <3>2, <3>3, <3>4, HolderIsNewer DEF LogsCopied
  <2>8. ASSUME NEW m \in requestVoteArgs, RequestVote(m), MayGrant(j, m),
               m.callee = j, m.term = u, c = m.caller, AtLeast(logs[j], k, t)
        PROVE  AtLeast(logs[c], k, t)
    <3>1. voteRecord[c][u] = c /\ c # NoVote
      BY <1>1, <2>8, NoVoteAssumption DEF VoteCallsGenuine, CallIsGenuine
    <3>2. InTerm(c, u)
      BY <1>1, <3>1, VoteReaches, TermsPass
    <3>3. m.lastLogIndex = Len(logs[c]) /\ m.lastLogTerm = LastTerm(logs[c])
      BY <1>1, <1>2, <2>8, <3>2 DEF CallsOfCandidate
    <3>4. \/ LastTerm(logs[c]) > LastTerm(logs[j])
          \/ LastTerm(logs[c]) = LastTerm(logs[j]) /\ Len(logs[c]) >= Len(logs[j])
      BY <2>8, <3>3 DEF MayGrant, UpToDate
    <3>5. /\ LastTerm(logs[c]) \in Int /\ LastTerm(logs[j]) \in Int
          /\ Len(logs[c]) \in Nat /\ Len(logs[j]) \in Nat
      BY <1>1, LastTermType, LogType
    <3>6. LastTerm(logs[j]) > t \/ (LastTerm(logs[j]) = t /\ Len(logs[j]) >= k)
      BY <2>8 DEF AtLeast
    <3>7. LastTerm(logs[c]) > t \/ (LastTerm(logs[c]) = t /\ Len(logs[c]) >= k)
      BY <1>2, <3>4, <3>5, <3>6, SMT
    <3> QED
      BY <3>7 DEF AtLeast
  <2> QED
    BY <1>3, <1>4, <2>1, <2>6, <2>7, <2>8
<1> QED
  BY <1>6, <1>7

\* A candidate's log stays as its calls describe it, until its term has a leader.
LEMMA CallsOfCandidateNext ==
  ASSUME NEW h, NEW g, CleanStep(h, g)
  PROVE  CallsOfCandidate(g)'
<1>1. /\ VotesSurviveRestart /\ RaftInv /\ TypeOK /\ TypeOK' /\ [Next]_vars
      /\ VotesRemembered /\ VoteCallsGenuine
      /\ h \in History /\ g \in History /\ Later(h, g) /\ CallsOfCandidate(h)
  BY DEF CleanStep, Explains, RaftInv, ElectionInv
<1> SUFFICES ASSUME NEW m \in requestVoteArgs', m.term \notin g.led,
                    InTerm(m.caller, m.term)'
             PROVE  /\ m.lastLogIndex = Len(logs'[m.caller])
                    /\ m.lastLogTerm = LastTerm(logs'[m.caller])
  BY DEF CallsOfCandidate, InTerm, LastTerm, TermAt
<1>2. m.caller \in Server /\ m.term \in Term
  BY <1>1 DEF TypeOK, RequestVoteArgs
<1>3. logs'[m.caller] = logs[m.caller]
  BY <1>2, CandidateKeepsLog
<1>4. CASE m \in requestVoteArgs
  <2>1. voteRecord[m.caller][m.term] # NoVote
    BY <1>1, <1>2, <1>4, NoVoteAssumption DEF VoteCallsGenuine, CallIsGenuine
  <2>2. InTerm(m.caller, m.term)
    BY <1>1, <1>2, <2>1, VoteReaches, TermsPass
  <2>3. m.term \notin h.led
    BY <1>1 DEF Later
  <2> QED
    BY <1>1, <1>3, <1>4, <2>2, <2>3 DEF CallsOfCandidate
<1>5. ASSUME NEW i \in Server, CallsOpen(i), m \notin requestVoteArgs
      PROVE  /\ m.lastLogIndex = Len(logs[m.caller])
             /\ m.lastLogTerm = LastTerm(logs[m.caller])
  BY <1>5 DEF CallsOpen, Opened
<1> QED
  BY <1>1, <1>3, <1>4, <1>5, CallSteps DEF CallsEnd, CallAnswered

-----------------------------------------------------------------------------
\* LaterLeaders

\* The voters of a later leader have all gone on from t.
LEMMA VotersBeyond ==
  ASSUME TypeOK, VotesRemembered, NEW i \in Server, NEW u \in Term, NEW t \in Term, t < u,
         NEW j \in Voters(i, u)
  PROVE  j \in Server /\ voteRecord[j][u] = i /\ Beyond(j, t)
<1>1. j \in Server /\ voteRecord[j][u] = i
  BY DEF Voters
<1>2. Reached(j, u)
  BY <1>1, NoVoteAssumption, VoteReaches
<1>3. t \in Int /\ u \in Int /\ currentTerm[j] \in Int /\ disk[j].term \in Int
  BY <1>1, TermsAreNumbers, TermsOfServers
<1> QED
  BY <1>1, <1>2, <1>3, SMT DEF Reached, Beyond

\* A log that is at least as new as k of t, and was copied from the leaders, has
\* what the leader of t had up to k.
LEMMA NewerHasIt ==
  ASSUME RaftInv, NEW h \in History, Explains(h), NEW i \in Server, NEW t \in h.led,
         NEW k \in 1 .. Len(h.log[t]), Own(h, k, t), AtLeast(logs[i], k, t)
  PROVE  NeverChosen(h, k, t) \/ SameUpTo(logs[i], h.log[t], k)
<1> DEFINE L == Len(logs[i])  s == LastTerm(logs[i])
<1>1. /\ TypeOK /\ Copied(h, logs[i]) /\ LaterLeaders(h) /\ TermsAscend(h)
      /\ t \in Term /\ t \in Int
  BY HistoryType, TermsAreNumbers DEF RaftInv, Explains, LogsCopied
<1>2. L \in Nat /\ Len(h.log[t]) \in Nat /\ k \in Int /\ k >= 1 /\ s \in Int
  <2>1. L \in Nat /\ Len(h.log[t]) \in Nat /\ s \in Int
    BY <1>1, LogType, HistoryType, LastTermType
  <2> QED
    BY <2>1, SMT
<1>3. L \in 1 .. L /\ s = logs[i][L].term
  <2>1. CASE L = 0
    <3>1. s = 0
      BY <2>1 DEF LastTerm, TermAt
    <3>2. t >= 0
      BY <1>1, SMT DEF Term
    <3> QED
      BY <1>1, <1>2, <2>1, <3>1, <3>2, SMT DEF AtLeast
  <2>2. CASE L # 0
    <3>1. L \in 1 .. L
      BY <1>2, <2>2, SMT
    <3> QED
      BY <3>1 DEF LastTerm, TermAt
  <2> QED
    BY <2>1, <2>2
<1>4. s \in h.led /\ SameUpTo(logs[i], h.log[s], L)
  BY <1>1, <1>3 DEF Copied
<1>5. Len(h.log[s]) \in Nat
  BY <1>4, HistoryType
<1> HIDE DEF s, L
<1>6. CASE s = t /\ L >= k
  <2>1. L \in Int /\ Len(logs[i]) \in Int /\ Len(h.log[t]) \in Int /\ k <= L
    BY <1>2, <1>6, SMT DEF L
  <2> QED
    BY <1>2, <1>4, <1>6, <2>1, SameBefore
<1>7. CASE s > t
  <2>1. t < s
    BY <1>1, <1>2, <1>7, SMT
  <2>2. NeverChosen(h, k, t) \/ SameUpTo(h.log[s], h.log[t], k)
    BY <1>1, <1>4, <2>1 DEF LaterLeaders
  <2>3. CASE k <= L
    <3>1. SameUpTo(logs[i], h.log[s], k)
      <4>1. L \in Int /\ Len(logs[i]) \in Int /\ Len(h.log[s]) \in Int
        BY <1>2, <1>5, SMT DEF L
      <4> QED
        BY <1>2, <1>4, <2>3, <4>1, SameBefore
    <3> QED
      BY <2>2, <3>1, SameAlong
  <2>4. ASSUME ~(k <= L), SameUpTo(h.log[s], h.log[t], k) PROVE FALSE
    <3>1. L \in 1 .. k /\ k \in 1 .. Len(h.log[s]) /\ k \in 1 .. k
      BY <1>2, <1>3, <1>5, <2>4, SMT DEF SameUpTo
    <3>2. h.log[s][L].term <= h.log[s][k].term
      BY <1>1, <1>4, <3>1 DEF TermsAscend
    <3>3. h.log[s][k].term = t
      BY <2>4, <3>1 DEF SameUpTo, Own
    <3>4. h.log[s][L] = logs[i][L]
      BY <1>3, <1>4 DEF SameUpTo
    <3> QED
      BY <1>1, <1>2, <1>3, <2>1, <3>2, <3>3, <3>4, SMT
  <2> QED
    BY <2>2, <2>3, <2>4
<1> QED
  BY <1>6, <1>7 DEF AtLeast, L, s

\* A new leader has what could have been chosen before.
LEMMA NewLeaderHasIt ==
  ASSUME RaftInv, NEW h \in History, Explains(h), NEW i \in Server,
         NEW u \in Term \ h.led, Elected(i, u), currentTerm[i] = u,
         NEW t \in h.led, t < u, NEW k \in 1 .. Len(h.log[t]), Own(h, k, t)
  PROVE  NeverChosen(h, k, t) \/ SameUpTo(logs[i], h.log[t], k)
<1>1. /\ TypeOK /\ VotesRemembered /\ VotesForNewer(h) /\ t \in Term
  BY HistoryType DEF RaftInv, ElectionInv, Explains
<1>2. k \in Int /\ k >= 1 /\ \A j \in Server : h.accepted[j][t] \in Nat
  <2>1. \A j \in Server : h.accepted[j][t] \in Nat
    BY <1>1, HistoryType
  <2>2. k \in Int /\ k >= 1
    BY SMT
  <2> QED
    BY <2>1, <2>2
<1>3. CASE \E j \in Voters(i, u) : h.accepted[j][t] >= k
  <2>1. PICK j \in Voters(i, u) : h.accepted[j][t] >= k
    BY <1>3
  <2>2. j \in Server /\ voteRecord[j][u] = i
    BY DEF Voters
  <2>3. k \in 1 .. h.accepted[j][t]
    BY <1>2, <2>1, <2>2, SMT
  <2>4. NeverChosen(h, k, t) \/ AtLeast(logs[i], k, t)
    BY <1>1, <2>2, <2>3 DEF VotesForNewer, InTerm
  <2> QED
    BY <2>4, NewerHasIt
<1>4. CASE ~\E j \in Voters(i, u) : h.accepted[j][t] >= k
  <2>1. Voters(i, u) \subseteq Missed(h, k, t)
    <3> SUFFICES ASSUME NEW j \in Voters(i, u) PROVE j \in Missed(h, k, t)
      OBVIOUS
    <3>1. j \in Server /\ Beyond(j, t)
      BY <1>1, VotersBeyond
    <3>2. h.accepted[j][t] < k
      BY <1>2, <1>4, <3>1, SMT
    <3> QED
      BY <3>1, <3>2 DEF Missed
  <2>2. Voters(i, u) \in SUBSET Server /\ Missed(h, k, t) \in SUBSET Server
    BY DEF Voters, Missed
  <2> QED
    BY <2>1, <2>2, MoreIsMajority DEF Elected, NeverChosen
<1> QED
  BY <1>3, <1>4

\* A leader starts with what was chosen in the terms before its own.
LEMMA LaterLeadersNext ==
  ASSUME NEW h, NEW g, CleanStep(h, g)
  PROVE  LaterLeaders(g)'
<1>1. /\ VotesSurviveRestart /\ RaftInv /\ TypeOK /\ VotesRemembered /\ [Next]_vars
      /\ h \in History /\ g \in History /\ Explains(h) /\ Remembered(h, g) /\ Later(h, g)
      /\ LedTerms(h) /\ AcceptedOnce(h) /\ LaterLeaders(h)
  BY DEF CleanStep, Explains, RaftInv, ElectionInv
<1> SUFFICES ASSUME NEW t \in g.led, NEW u \in g.led, NEW k \in 1 .. Len(g.log[t]),
                    t < u, Own(g, k, t)
             PROVE  NeverChosen(g, k, t)' \/ SameUpTo(g.log[u], g.log[t], k)
  BY DEF LaterLeaders
<1>2. /\ t \in Term /\ u \in Term /\ t \in Int /\ u \in Int /\ k \in Int
      /\ Len(g.log[t]) \in Nat /\ Len(h.log[t]) \in Nat
  <2>1. t \in Term /\ u \in Term
    BY <1>1, HistoryType
  <2>2. Len(g.log[t]) \in Nat /\ Len(h.log[t]) \in Nat
    BY <1>1, <2>1, HistoryType
  <2> QED
    BY <2>1, <2>2, TermsAreNumbers
<1>3. \/ t \in h.led /\ Own(h, k, t)
      \/ \E i \in Server : Extended(h, g, i, t) /\ k = Len(logs[i]) + 1
  BY <1>1, <1>2, NewOwn
<1>4. ASSUME t \in h.led, Own(h, k, t), NEW a, g.log[u] = a \/ SameUpTo(g.log[u], a, Len(a)),
             Len(a) \in Nat, Len(g.log[u]) \in Nat,
             NeverChosen(h, k, t) \/ SameUpTo(a, h.log[t], k)
      PROVE  NeverChosen(g, k, t)' \/ SameUpTo(g.log[u], g.log[t], k)
  <2>1. CASE NeverChosen(h, k, t)
    BY <1>1, <1>2, <2>1, NeverStays
  <2>2. CASE SameUpTo(a, h.log[t], k)
    <3>1. SameUpTo(g.log[u], a, k)
      <4>1. k <= Len(a)
        BY <2>2 DEF SameUpTo
      <4>2. Len(a) \in Int /\ Len(g.log[u]) \in Int
        BY <1>4, SMT
      <4> QED
        BY <1>2, <1>4, <4>1, <4>2, SameSelf, SameBefore
    <3>2. SameUpTo(a, g.log[t], k)
      BY <1>1, <1>2, <2>2, SameStays
    <3> QED
      BY <3>1, <3>2, SameAlong
  <2> QED
    BY <1>4, <2>1, <2>2
<1>5. Len(g.log[u]) \in Nat /\ Len(h.log[u]) \in Nat
  BY <1>1, <1>2, HistoryType
<1>6. CASE u \in h.led /\ t \in h.led /\ Own(h, k, t)
  <2>1. k \in 1 .. Len(h.log[t])
    BY <1>6 DEF Own
  <2>2. NeverChosen(h, k, t) \/ SameUpTo(h.log[u], h.log[t], k)
    BY <1>1, <1>6, <2>1 DEF LaterLeaders
  <2>3. SameUpTo(g.log[u], h.log[u], Len(h.log[u]))
    BY <1>1, <1>2 DEF Later
  <2> QED
    BY <1>4, <1>5, <1>6, <2>2, <2>3
<1>7. CASE u \notin h.led
  <2>1. PICK i \in Server : Crowned(h, g, i, u)
    BY <1>1, <1>7 DEF Remembered, Crowned, Extended, Accepted
  <2>2. /\ Elected(i, u) /\ currentTerm[i] = u /\ g.log[u] = logs[i] /\ u \in Term \ h.led
        /\ t \in h.led
    BY <1>2, <2>1, SMT DEF Crowned
  <2>3. Own(h, k, t) /\ k \in 1 .. Len(h.log[t])
    BY <1>2, <2>1, SMT DEF Crowned, Own
  <2>4. NeverChosen(h, k, t) \/ SameUpTo(logs[i], h.log[t], k)
    BY <1>1, <2>2, <2>3, NewLeaderHasIt
  <2>5. Len(logs[i]) \in Nat
    BY <1>1, LogType
  <2> QED
    BY <1>4, <1>5, <2>2, <2>3, <2>4, <2>5
<1>8. ASSUME u \in h.led, NEW i \in Server, Extended(h, g, i, t), k = Len(logs[i]) + 1
      PROVE  NeverChosen(g, k, t)'
  <2>1. PICK c \in Server : Elected(c, u)
    BY <1>1, <1>8 DEF LedTerms
  <2>2. t \in h.led /\ logs[i] = h.log[t]
    BY <1>8 DEF Extended
  <2> DEFINE S == Voters(c, u)
             T == Missed(g, k, t)'
  <2>3. S \subseteq T
    <3> SUFFICES ASSUME NEW j \in S PROVE j \in T
      OBVIOUS
    <3>1. j \in Server /\ Beyond(j, t)
      BY <1>1, <1>2, VotersBeyond
    <3>2. g.accepted[j][t] = h.accepted[j][t] /\ h.accepted[j][t] \in Nat
      BY <1>1, <1>2, <3>1, HistoryType DEF Later
    <3>3. h.accepted[j][t] > 0 => h.accepted[j][t] <= Len(h.log[t])
      BY <1>1, <2>2, <3>1 DEF AcceptedOnce
    <3>4. g.accepted[j][t] < k
      BY <1>2, <1>8, <2>2, <3>2, <3>3, SMT
    <3>5. Beyond(j, t)'
      BY <1>1, <1>2, <3>1, BeyondStays
    <3> QED
      BY <3>1, <3>4, <3>5 DEF Missed
  <2>4. S \in SUBSET Server /\ T \in SUBSET Server
    BY DEF Voters, Missed
  <2>5. Majority(Cardinality(S))
    BY <2>1 DEF Elected
  <2>6. Majority(Cardinality(T))
    BY <2>3, <2>4, <2>5, MoreIsMajority
  <2> QED
    BY <2>6 DEF NeverChosen, Majority
<1> QED
  BY <1>3, <1>6, <1>7, <1>8

-----------------------------------------------------------------------------
\* What a step does to the calls of heartbeat rounds: end some, open those of
\* one round, or answer one; and what it does to their counters.

CallsDrop == /\ appendEntriesArgs' \subseteq appendEntriesArgs
             /\ appendEntriesReply' \subseteq appendEntriesReply

Answered(m, r) ==
  /\ appendEntriesArgs' = appendEntriesArgs \ {m}
  /\ appendEntriesReply' = appendEntriesReply \cup {r}
  /\ r.caller = m.caller /\ r.callee = m.callee /\ r.round = m.round /\ r.boot = m.boot
  /\ r.upTo = Sent(m) /\ r.lastTerm = LastTerm(m.entries)
  /\ r.success => AcceptEntries(m) /\ r.term = m.term
  /\ boot' = boot /\ appendNums' = appendNums

\* Every handler of AppendEntries1 turns a request into its reply.
LEMMA HandlerAnswers ==
  ASSUME NEW m \in appendEntriesArgs, HandleAppendEntries(m)
  PROVE  \E r : Answered(m, r)
<1>1. ASSUME NEW term, NEW success, NEW hint, AnswerAppend(m, term, success, hint),
             success => AcceptEntries(m) /\ term = m.term
      PROVE  \E r : Answered(m, r)
  <2> DEFINE r == AppendReply(m, term, success, hint)
  <2>1. /\ appendEntriesArgs' = appendEntriesArgs \ {m}
        /\ appendEntriesReply' = appendEntriesReply \cup {r}
        /\ boot' = boot /\ appendNums' = appendNums
    BY <1>1, Zenon DEF AnswerAppend, AppendReply, leaderVars
  <2>2. /\ r.caller = m.caller /\ r.callee = m.callee /\ r.round = m.round /\ r.boot = m.boot
        /\ r.upTo = Sent(m) /\ r.lastTerm = LastTerm(m.entries)
        /\ r.success = success /\ r.term = term
    BY DEF AppendReply, Sent
  <2> HIDE DEF r
  <2> QED
    BY <1>1, <2>1, <2>2 DEF Answered
<1>2. CASE RefuseExpiredEntries(m)
  BY <1>1, <1>2 DEF RefuseExpiredEntries
<1>3. CASE RefuseGap(m)
  BY <1>1, <1>3 DEF RefuseGap
<1>4. CASE RefuseMismatch(m)
  BY <1>1, <1>4 DEF RefuseMismatch
<1>5. CASE AcceptEntries(m)
  <2>1. AnswerAppend(m, m.term, TRUE, NoHint)
    BY <1>5 DEF AcceptEntries
  <2> QED
    BY <1>1, <1>5, <2>1
<1> QED
  BY <1>2, <1>3, <1>4, <1>5 DEF HandleAppendEntries

\* What a step does to the calls of AppendEntries1: some end, a heartbeat opens a
\* round, or a request is answered.
LEMMA RoundSteps ==
  ASSUME TypeOK, [Next]_vars
  PROVE  \/ CallsDrop
         \/ \E i \in Server : DoHeartBeat(i)
         \/ \E m \in appendEntriesArgs : \E r : Answered(m, r)
<1>1. CASE \E m \in appendEntriesArgs : HandleAppendEntries(m)
  BY <1>1, HandlerAnswers
<1> QED
  BY <1>1, AppendCallSteps DEF CallsDrop

\* What a step does to the counters of the rounds.
LEMMA CountSteps ==
  ASSUME TypeOK, [Next]_vars, NEW i \in Server, boot'[i] = boot[i], NEW r \in Round
  PROVE  \/ appendNums'[i][r] = appendNums[i][r]
         \/ /\ appendNums'[i][r] = 0
            /\ \E n \in appendEntriesReply :
                 AppendReplySuccess(n) /\ n.caller = i /\ n.round = r
         \/ DoHeartBeat(i) /\ r \in FreeRounds(i) /\ appendNums'[i][r] = 1
         \/ \E n \in appendEntriesReply :
              /\ AppendReplySuccess(n) /\ n.caller = i /\ n.round = r
              /\ appendNums'[i][r] = appendNums[i][r] + 1
<1> DEFINE P == \/ appendNums'[i][r] = appendNums[i][r]
                \/ /\ appendNums'[i][r] = 0
                   /\ \E n \in appendEntriesReply :
                        AppendReplySuccess(n) /\ n.caller = i /\ n.round = r
                \/ DoHeartBeat(i) /\ r \in FreeRounds(i) /\ appendNums'[i][r] = 1
                \/ \E n \in appendEntriesReply :
                     /\ AppendReplySuccess(n) /\ n.caller = i /\ n.round = r
                     /\ appendNums'[i][r] = appendNums[i][r] + 1
<1>0. appendNums \in [Server -> [Round -> Nat]] /\ boot \in [Server -> Nat]
  BY DEF TypeOK
<1>1. CASE appendNums' = appendNums
  BY <1>1
<1>2. ASSUME NEW c \in Server, DoHeartBeat(c) PROVE P
  <2>1. PICK s \in FreeRounds(c) : appendNums' = [appendNums EXCEPT ![c][s] = 1]
    BY <1>2 DEF DoHeartBeat
  <2>2. CASE c = i /\ s = r
    BY <1>0, <1>2, <2>1, <2>2
  <2>3. CASE ~(c = i /\ s = r)
    <3>1. s \in Round
      BY DEF FreeRounds
    <3>2. appendNums'[i][r] = appendNums[i][r]
      BY <1>0, <2>1, <2>3, <3>1
    <3> QED
      BY <3>2
  <2> QED
    BY <2>2, <2>3
<1>3. ASSUME NEW c \in Server, Restart(c) PROVE P
  <2>1. c # i
    <3>1. boot'[c] = boot[c] + 1 /\ boot[c] \in Nat
      BY <1>0, <1>3 DEF Restart
    <3> QED
      BY <3>1, SMT
  <2>2. appendNums'[i] = appendNums[i]
    BY <1>0, <1>3, <2>1 DEF Restart
  <2> QED
    BY <2>2
<1>4. ASSUME NEW n \in appendEntriesReply, AppendReplySuccess(n) PROVE P
  <2>1. n.caller \in Server /\ n.round \in Round
    BY DEF TypeOK, AppendEntriesReply
  <2>2. \/ appendNums' = [appendNums EXCEPT ![n.caller][n.round] =
                            appendNums[n.caller][n.round] + 1]
        \/ appendNums' = [appendNums EXCEPT ![n.caller][n.round] = 0]
    BY <1>4 DEF AppendReplySuccess
  <2>3. CASE n.caller = i /\ n.round = r
    BY <1>0, <1>4, <2>1, <2>2, <2>3
  <2>4. CASE ~(n.caller = i /\ n.round = r)
    <3>1. appendNums'[i][r] = appendNums[i][r]
      BY <1>0, <2>1, <2>2, <2>4
    <3> QED
      BY <3>1
  <2> QED
    BY <2>3, <2>4
<1>5. ASSUME NEW c \in Server, DoElection(c) \/ ApplierTicker(c) PROVE appendNums' = appendNums
  BY <1>5 DEF DoElection, ApplierTicker, leaderVars
<1>6. ASSUME NEW c \in Server, NEW command \in Command, StartConses(c, command)
      PROVE  appendNums' = appendNums
  BY <1>6 DEF StartConses, leaderVars
<1>7. ASSUME NEW m \in requestVoteArgs, HandleRequestVote(m) PROVE appendNums' = appendNums
  BY <1>7 DEF HandleRequestVote, RefuseExpiredVote, RequestVote, leaderVars
<1>8. ASSUME NEW m \in requestVoteReply, HandleVoteReply(m) PROVE appendNums' = appendNums
  BY <1>8 DEF HandleVoteReply, VoteReplyNewerTerm, VoteReplyCounted,
              BecomeLeader, VoteReplyArrives
<1>9. ASSUME NEW m \in appendEntriesArgs, HandleAppendEntries(m) PROVE appendNums' = appendNums
  BY <1>9 DEF HandleAppendEntries, RefuseExpiredEntries, RefuseGap, RefuseMismatch,
              AcceptEntries, AnswerAppend, leaderVars
<1>10. ASSUME NEW m \in appendEntriesReply, HandleAppendReply(m)
       PROVE  appendNums' = appendNums \/ AppendReplySuccess(m)
  BY <1>10 DEF HandleAppendReply, AppendReplyNewerTerm, AppendReplyStale,
               AppendReplyFailure, AppendReplyArrives, leaderVars
<1>11. ASSUME VoteCallFails \/ AppendCallFails \/ UNCHANGED vars
       PROVE  appendNums' = appendNums
  BY <1>11 DEF VoteCallFails, AppendCallFails, vars, leaderVars
<1> HIDE DEF P
<1>12. P
  BY <1>1, <1>2, <1>3, <1>4, <1>5, <1>6, <1>7, <1>8, <1>9, <1>10, <1>11, Zenon DEF Next, P
<1> QED
  BY <1>12 DEF P

-----------------------------------------------------------------------------
\* CopiesLeader

\* What calls say of the leader's log stays true of the longer one.
LEMMA RequestStaysCopied ==
  ASSUME NEW h \in History, NEW g \in History, Later(h, g), NEW m \in AppendEntriesArgs,
         RequestCopied(h, m)
  PROVE  RequestCopied(g, m)
<1> DEFINE t == m.term
<1>1. /\ t \in h.led /\ t \in g.led /\ t \in Term /\ m.prevLogIndex \in Nat
      /\ m.entries \in Seq(Entry) /\ m.leaderCommit \in Nat
  BY HistoryType DEF RequestCopied, Later, AppendEntriesArgs
<1>2. /\ Len(m.entries) \in Nat /\ Len(h.log[t]) \in Nat /\ Len(g.log[t]) \in Nat
      /\ Sent(m) \in Nat /\ Sent(m) <= Len(h.log[t])
  <2>1. Len(m.entries) \in Nat /\ Len(h.log[t]) \in Nat /\ Len(g.log[t]) \in Nat
    BY <1>1, HistoryType, LenProperties
  <2> QED
    BY <1>1, <2>1, SMT DEF RequestCopied, Sent
<1>3. SameUpTo(g.log[t], h.log[t], Len(h.log[t]))
  BY <1>1 DEF Later
<1>4. Sent(m) <= Len(g.log[t])
  BY <1>2, <1>3, SMT DEF SameUpTo
<1>5. m.prevLogTerm = TermAt(g.log[t], m.prevLogIndex)
  <2>1. m.prevLogTerm = TermAt(h.log[t], m.prevLogIndex)
    BY DEF RequestCopied
  <2>2. m.prevLogIndex <= Len(h.log[t]) /\ m.prevLogIndex <= Len(g.log[t])
    BY <1>1, <1>2, <1>4, SMT DEF Sent
  <2>3. m.prevLogIndex \in 1 .. Len(h.log[t]) <=> m.prevLogIndex \in 1 .. Len(g.log[t])
    BY <1>1, <1>2, <2>2, SMT
  <2>4. m.prevLogIndex \in 1 .. Len(h.log[t]) =>
          g.log[t][m.prevLogIndex] = h.log[t][m.prevLogIndex]
    BY <1>3 DEF SameUpTo
  <2> QED
    BY <2>1, <2>3, <2>4 DEF TermAt
<1>6. ASSUME NEW k \in 1 .. Len(m.entries)
      PROVE  m.entries[k] = g.log[t][m.prevLogIndex + k]
  <2>1. m.entries[k] = h.log[t][m.prevLogIndex + k]
    BY DEF RequestCopied
  <2>2. m.prevLogIndex + k \in 1 .. Len(h.log[t])
    <3>1. m.prevLogIndex + Len(m.entries) <= Len(h.log[t])
      BY <1>2 DEF Sent
    <3> HIDE DEF t
    <3> QED
      BY <1>1, <1>2, <3>1, SMT
  <2> QED
    BY <1>3, <2>1, <2>2 DEF SameUpTo
<1>7. Backed(g, g.log[t], m.leaderCommit, t)
  <2>1. Backed(h, h.log[t], m.leaderCommit, t) /\ m.leaderCommit <= Sent(m)
    BY DEF RequestCopied
  <2>2. SameUpTo(g.log[t], h.log[t], m.leaderCommit)
    <3>1. m.leaderCommit <= Len(h.log[t]) /\ m.leaderCommit \in Int
          /\ Len(h.log[t]) \in Int /\ Len(g.log[t]) \in Int
      BY <1>1, <1>2, <2>1, SMT
    <3> QED
      BY <1>3, <3>1, SameBefore
  <2>3. t <= t
    <3>1. t \in Int
      BY <1>1, TermsAreNumbers
    <3> QED
      BY <3>1, SMT
  <2> QED
    BY <1>1, <2>1, <2>2, <2>3, BackedStays
<1> QED
  BY <1>1, <1>4, <1>5, <1>6, <1>7 DEF RequestCopied

LEMMA ReplyStaysCopied ==
  ASSUME NEW h \in History, NEW g \in History, Later(h, g), AcceptedOnce(h),
         NEW m \in AppendEntriesReply, ReplyCopied(h, m)
  PROVE  ReplyCopied(g, m)
<1> DEFINE t == m.term  j == m.callee  k == m.upTo
<1>1. t \in h.led /\ t \in g.led /\ t \in Term /\ j \in Server /\ k \in Nat
  BY HistoryType DEF ReplyCopied, Later, AppendEntriesReply
<1>2. /\ h.accepted[j][t] \in Nat /\ g.accepted[j][t] \in Nat
      /\ Len(h.log[t]) \in Nat /\ Len(g.log[t]) \in Nat
      /\ g.accepted[j][t] >= h.accepted[j][t] /\ k <= h.accepted[j][t]
  BY <1>1, HistoryType DEF Later, ReplyCopied
<1>3. k <= g.accepted[j][t]
  BY <1>1, <1>2, SMT
<1>4. ASSUME m.lastTerm # 0 PROVE k > 0 /\ g.log[t][k].term = m.lastTerm
  <2>1. k > 0 /\ h.log[t][k].term = m.lastTerm
    BY <1>4 DEF ReplyCopied
  <2>2. h.accepted[j][t] <= Len(h.log[t])
    <3>1. h.accepted[j][t] > 0
      BY <1>1, <1>2, <2>1, SMT
    <3> QED
      BY <1>1, <3>1 DEF AcceptedOnce
  <2>3. k \in 1 .. Len(h.log[t]) /\ k \in Int
    BY <1>1, <1>2, <2>1, <2>2, SMT
  <2>4. g.log[t][k] = h.log[t][k]
    BY <1>1, <2>3, OwnStays
  <2> QED
    BY <2>1, <2>4
<1> QED
  BY <1>1, <1>3, <1>4 DEF ReplyCopied

\* The calls of the round that a leader opens.
RoundCall(i, r, m) ==
  /\ m.callee \in Server \ {i} /\ m = HeartBeatArgs(i, m.callee, r)
  /\ m.caller = i /\ m.round = r /\ m.boot = boot[i]
  /\ m.term = currentTerm[i] /\ m.leaderCommit = commitIndex[i]
  /\ m.prevLogTerm = TermAt(logs[i], m.prevLogIndex)
  /\ Sent(m) = Len(logs[i])
  /\ \A k \in 1 .. Len(m.entries) : m.entries[k] = logs[i][m.prevLogIndex + k]

\* The calls of a new round are copies of one log.
LEMMA RoundOpened ==
  ASSUME RaftInv, NEW i \in Server, DoHeartBeat(i)
  PROVE  \E r \in FreeRounds(i) :
           /\ r \in Round /\ appendNums'[i][r] = 1
           /\ \A m \in appendEntriesArgs' : m \notin appendEntriesArgs => RoundCall(i, r, m)
<1>1. PICK r \in FreeRounds(i) :
        /\ appendNums' = [appendNums EXCEPT ![i][r] = 1]
        /\ appendEntriesArgs' = appendEntriesArgs \cup {HeartBeatArgs(i, j, r) : j \in Server \ {i}}
  BY DEF DoHeartBeat
<1>2. r \in Round /\ appendNums \in [Server -> [Round -> Nat]] /\ TypeOK
  BY DEF FreeRounds, RaftInv, TypeOK
<1>3. appendNums'[i][r] = 1
  BY <1>1, <1>2
<1>4. ASSUME NEW j \in Server \ {i}, NEW m, m = HeartBeatArgs(i, j, r)
      PROVE  /\ m.callee = j /\ m.caller = i /\ m.round = r /\ m.boot = boot[i]
             /\ m.term = currentTerm[i] /\ m.leaderCommit = commitIndex[i]
             /\ m.prevLogTerm = TermAt(logs[i], m.prevLogIndex)
             /\ Sent(m) = Len(logs[i])
             /\ \A k \in 1 .. Len(m.entries) : m.entries[k] = logs[i][m.prevLogIndex + k]
  <2> DEFINE prev == nextIndex[i][j] - 1  log == logs[i]
  <2>1. /\ m.callee = j /\ m.caller = i /\ m.round = r /\ m.boot = boot[i]
        /\ m.term = currentTerm[i] /\ m.leaderCommit = commitIndex[i]
        /\ m.prevLogIndex = prev /\ m.prevLogTerm = TermAt(log, prev)
        /\ m.entries = SubSeq(log, prev + 1, Len(log))
    BY <1>4 DEF HeartBeatArgs, EntriesAfter
  <2>2. log \in Seq(Entry) /\ Len(log) \in Nat /\ nextIndex[i][j] \in 1 .. Len(log) + 1
    BY <1>2, LogType DEF DoHeartBeat, NextIndexInLog
  <2>3. prev \in Nat /\ prev <= Len(log)
    BY <2>2, SMT
  <2> HIDE DEF prev, log
  <2>4. /\ Len(SubSeq(log, prev + 1, Len(log))) = Len(log) - prev
        /\ \A k \in 1 .. Len(log) - prev : SubSeq(log, prev + 1, Len(log))[k] = log[prev + k]
    BY <2>2, <2>3, SMT
  <2>5. Sent(m) = Len(log)
    <3>1. Len(m.entries) = Len(log) - prev
      BY <2>1, <2>4
    <3> QED
      BY <2>1, <2>2, <2>3, <3>1, SMT DEF Sent
  <2>6. \A k \in 1 .. Len(m.entries) : m.entries[k] = log[m.prevLogIndex + k]
    BY <2>1, <2>4
  <2> QED
    BY <2>1, <2>5, <2>6 DEF log
<1>5. ASSUME NEW m \in appendEntriesArgs', m \notin appendEntriesArgs
      PROVE  RoundCall(i, r, m)
  <2>1. PICK j \in Server \ {i} : m = HeartBeatArgs(i, j, r)
    BY <1>1, <1>5
  <2> QED
    BY <1>4, <2>1 DEF RoundCall
<1> QED
  BY <1>2, <1>3, <1>5

\* Requests copy the leader's log, and a success reports what was accepted.
LEMMA CopiesLeaderNext ==
  ASSUME NEW h, NEW g, CleanStep(h, g)
  PROVE  CopiesLeader(g)'
<1>1. /\ RaftInv /\ TypeOK /\ TypeOK' /\ [Next]_vars /\ CommitInLog
      /\ h \in History /\ g \in History /\ Explains(h) /\ Later(h, g)
      /\ LedTerms(h) /\ LeaderLogs(h) /\ AcceptedOnce(h) /\ CopiesLeader(h) /\ CommitsBacked(h)
  BY DEF CleanStep, Explains, RaftInv, LogInv
<1>2. ASSUME NEW m \in appendEntriesArgs' PROVE RequestCopied(g, m)
  <2>1. CASE m \in appendEntriesArgs
    <3>1. m \in AppendEntriesArgs
      BY <1>1, <2>1 DEF TypeOK
    <3> QED
      BY <1>1, <2>1, <3>1, RequestStaysCopied DEF CopiesLeader
  <2>2. ASSUME NEW i \in Server, DoHeartBeat(i), m \notin appendEntriesArgs
        PROVE  RequestCopied(h, m)
    <3> DEFINE t == currentTerm[i]
    <3>1. /\ m.term = t /\ m.leaderCommit = commitIndex[i]
          /\ m.prevLogTerm = TermAt(logs[i], m.prevLogIndex)
          /\ Sent(m) = Len(logs[i])
          /\ \A k \in 1 .. Len(m.entries) : m.entries[k] = logs[i][m.prevLogIndex + k]
      BY <1>1, <2>2, RoundOpened DEF RoundCall
    <3>2. status[i] = "Leader"
      BY <2>2 DEF DoHeartBeat
    <3>3. t \in h.led /\ Elected(i, t) /\ InTerm(i, t)
      BY <1>1, <3>2, LeaderFacts DEF LedTerms
    <3>4. logs[i] = h.log[t]
      BY <1>1, <3>3 DEF LeaderLogs
    <3>5. m.leaderCommit <= Sent(m)
      BY <1>1, <3>1 DEF CommitInLog
    <3>6. Backed(h, h.log[t], m.leaderCommit, t)
      BY <1>1, <3>1, <3>4 DEF CommitsBacked
    <3>7. Sent(m) <= Len(h.log[t])
      BY <1>1, <3>1, <3>4, LogType, SMT
    <3> QED
      BY <3>1, <3>3, <3>4, <3>5, <3>6, <3>7 DEF RequestCopied
  <2>3. m \in AppendEntriesArgs
    BY <1>1 DEF TypeOK
  <2>4. m \notin appendEntriesArgs => \E i \in Server : DoHeartBeat(i)
    BY <1>1, AppendCallSteps
  <2> QED
    BY <1>1, <2>1, <2>2, <2>3, <2>4, RequestStaysCopied
<1>3. ASSUME NEW r \in appendEntriesReply', r.success PROVE ReplyCopied(g, r)
  <2>1. CASE r \in appendEntriesReply
    <3>1. r \in AppendEntriesReply
      BY <1>1, <2>1 DEF TypeOK
    <3> QED
      BY <1>1, <1>3, <2>1, <3>1, ReplyStaysCopied DEF CopiesLeader
  <2>2. ASSUME NEW m \in appendEntriesArgs, Answered(m, r) PROVE ReplyCopied(g, r)
    <3>1. /\ AcceptEntries(m) /\ r.term = m.term /\ r.callee = m.callee
          /\ r.upTo = Sent(m) /\ r.lastTerm = LastTerm(m.entries)
      BY <1>3, <2>2 DEF Answered
    <3>2. Accepted(h, g, m.callee, m.term, Sent(m))
      BY <3>1 DEF CleanStep
    <3>3. m.term \in g.led /\ Sent(m) <= g.accepted[m.callee][m.term] /\ g.log = h.log
      <4>1. g.accepted[m.callee][m.term] >= Sent(m) /\ m.term \in g.led /\ g.log = h.log
            /\ m.callee \in Server
        BY <3>2 DEF Accepted
      <4>2. g.accepted[m.callee][m.term] \in Nat /\ m.term \in Term
        BY <1>1, <4>1, HistoryType
      <4>3. Sent(m) \in Nat
        BY <3>2 DEF Accepted
      <4> QED
        BY <4>1, <4>2, <4>3, SMT
    <3>4. ASSUME r.lastTerm # 0 PROVE Sent(m) > 0 /\ h.log[m.term][Sent(m)].term = r.lastTerm
      <4>1. m.entries \in Seq(Entry) /\ Len(m.entries) \in Nat /\ m.prevLogIndex \in Nat
        BY <1>1, LenProperties DEF TypeOK, AppendEntriesArgs
      <4>2. Len(m.entries) \in 1 .. Len(m.entries)
            /\ m.entries[Len(m.entries)].term = r.lastTerm
        BY <3>1, <3>4 DEF LastTerm, TermAt
      <4>3. m.entries[Len(m.entries)] = h.log[m.term][m.prevLogIndex + Len(m.entries)]
        BY <1>1, <4>2 DEF CopiesLeader, RequestCopied
      <4>4. Sent(m) > 0 /\ Sent(m) = m.prevLogIndex + Len(m.entries)
        BY <4>1, <4>2, SMT DEF Sent
      <4> QED
        BY <4>2, <4>3, <4>4
    <3> QED
      BY <3>1, <3>3, <3>4 DEF ReplyCopied
  <2>3. \/ appendEntriesReply' \subseteq appendEntriesReply
        \/ \E m \in appendEntriesArgs : \E s : Answered(m, s)
    BY <1>1, AppendCallSteps, HandlerAnswers
  <2>4. ASSUME NEW m \in appendEntriesArgs, NEW s, Answered(m, s), r \notin appendEntriesReply
        PROVE  r = s
    BY <2>4 DEF Answered
  <2> QED
    BY <2>1, <2>2, <2>3, <2>4
<1> QED
  BY <1>2, <1>3 DEF CopiesLeader, RequestCopied, ReplyCopied, Sent, Backed, Own, ChosenAt,
                    Holders, SameUpTo, TermAt, Majority

-----------------------------------------------------------------------------
\* RoundsApart

\* A round is not reused while a call of it is outstanding.
LEMMA RoundsApartNext ==
  ASSUME VotesSurviveRestart, RaftInv, [Next]_vars, RoundsApart
  PROVE  RoundsApart'
<1>1. /\ TypeOK /\ TypeOK' /\ \A i \in Server : boot'[i] >= boot[i]
  BY TypeNext, TermsGrow DEF RaftInv
<1>2. \A i \in Server : boot[i] \in Nat /\ boot'[i] \in Nat
  BY <1>1 DEF TypeOK
<1>3. \A m \in AppendCalls : m.boot <= boot[m.caller] /\ m.boot \in Nat /\ m.caller \in Server
  BY <1>1 DEF RoundsApart, TypeOK, AppendEntriesArgs, AppendEntriesReply, AppendCalls
<1>4. CASE CallsDrop
  <2>1. \A m \in AppendCalls' : m.boot <= boot'[m.caller]
    <3> SUFFICES ASSUME NEW m \in AppendCalls' PROVE m.boot <= boot'[m.caller]
      OBVIOUS
    <3>1. m \in AppendCalls
      BY <1>4 DEF CallsDrop, AppendCalls
    <3> QED
      BY <1>1, <1>2, <1>3, <3>1, SMT
  <2> QED
    BY <1>4, <2>1 DEF RoundsApart, CallsDrop, SameRound, Sent
<1>5. ASSUME NEW i \in Server, DoHeartBeat(i) PROVE RoundsApart'
  <2>1. boot' = boot /\ appendEntriesReply' = appendEntriesReply
    BY <1>5 DEF DoHeartBeat
  <2>2. PICK r \in FreeRounds(i) :
          \A m \in appendEntriesArgs' : m \notin appendEntriesArgs => RoundCall(i, r, m)
    BY <1>5, RoundOpened
  <2>3. \A m \in AppendCalls : ~(m.caller = i /\ m.round = r /\ m.boot = boot[i])
    BY DEF FreeRounds, AppendCalls
  <2>4. \A m \in appendEntriesArgs' : m \notin appendEntriesArgs =>
          m.caller = i /\ m.round = r /\ m.boot = boot[i]
    BY <2>2 DEF RoundCall
  <2>5. \A m \in AppendCalls' : m.boot <= boot'[m.caller]
    <3> SUFFICES ASSUME NEW m \in AppendCalls' PROVE m.boot <= boot'[m.caller]
      OBVIOUS
    <3>1. CASE m \in AppendCalls
      BY <1>3, <2>1, <3>1
    <3>2. CASE m \notin AppendCalls
      <4>1. m.caller = i /\ m.boot = boot[i]
        BY <2>1, <2>4, <3>2 DEF AppendCalls
      <4> QED
        BY <1>2, <2>1, <4>1, SMT
    <3> QED
      BY <3>1, <3>2
  <2>6. ASSUME NEW m \in appendEntriesArgs', NEW n \in appendEntriesArgs', SameRound(m, n)
        PROVE  m.term = n.term /\ Sent(m) = Sent(n) /\ (m.callee = n.callee => m = n)
    <3>1. CASE m \in appendEntriesArgs /\ n \in appendEntriesArgs
      BY <2>6, <3>1 DEF RoundsApart
    <3>2. CASE m \notin appendEntriesArgs /\ n \notin appendEntriesArgs
      BY <2>2, <3>2 DEF RoundCall
    <3>3. CASE m \in appendEntriesArgs /\ n \notin appendEntriesArgs
      BY <2>3, <2>4, <2>6, <3>3 DEF AppendCalls, SameRound
    <3>4. CASE m \notin appendEntriesArgs /\ n \in appendEntriesArgs
      BY <2>3, <2>4, <2>6, <3>4 DEF AppendCalls, SameRound
    <3> QED
      BY <3>1, <3>2, <3>3, <3>4
  <2>7. ASSUME NEW m \in appendEntriesArgs', NEW n \in appendEntriesReply, SameRound(m, n)
        PROVE  m \in appendEntriesArgs
    BY <2>3, <2>4, <2>7 DEF AppendCalls, SameRound
  <2>8. /\ \A m, n \in appendEntriesReply' : SameRound(m, n) =>
             /\ m.success /\ n.success => m.term = n.term /\ m.upTo = n.upTo
             /\ m.callee = n.callee => m = n
        /\ \A m \in appendEntriesArgs', n \in appendEntriesReply' : SameRound(m, n) =>
             /\ n.success => m.term = n.term /\ Sent(m) = n.upTo
             /\ m.callee # n.callee
    BY <2>1, <2>7 DEF RoundsApart
  <2> QED
    BY <2>5, <2>6, <2>8 DEF RoundsApart, SameRound, Sent
<1>6. ASSUME NEW a \in appendEntriesArgs, NEW r, Answered(a, r) PROVE RoundsApart'
  <2>1. /\ appendEntriesArgs' = appendEntriesArgs \ {a}
        /\ appendEntriesReply' = appendEntriesReply \cup {r} /\ boot' = boot
        /\ SameRound(a, r) /\ r.callee = a.callee /\ r.upTo = Sent(a)
        /\ r.success => r.term = a.term
        /\ r.caller = a.caller /\ r.boot = a.boot
    BY <1>6 DEF Answered, SameRound
  <2>2. \A m \in AppendCalls' : m.boot <= boot'[m.caller]
    BY <1>3, <2>1 DEF AppendCalls
  <2>3. \A m, n \in appendEntriesArgs' : SameRound(m, n) =>
          m.term = n.term /\ Sent(m) = Sent(n) /\ (m.callee = n.callee => m = n)
    BY <2>1 DEF RoundsApart
  <2>4. ASSUME NEW n \in appendEntriesReply, SameRound(r, n)
        PROVE  /\ r.success /\ n.success => r.term = n.term /\ r.upTo = n.upTo
               /\ r.callee # n.callee
    <3>1. SameRound(a, n)
      BY <2>1, <2>4 DEF SameRound
    <3> QED
      BY <2>1, <3>1 DEF RoundsApart
  <2>5. ASSUME NEW m \in appendEntriesReply', NEW n \in appendEntriesReply', SameRound(m, n)
        PROVE  /\ m.success /\ n.success => m.term = n.term /\ m.upTo = n.upTo
               /\ m.callee = n.callee => m = n
    <3>1. SameRound(n, m)
      BY <2>5 DEF SameRound
    <3>2. CASE m \in appendEntriesReply /\ n \in appendEntriesReply
      BY <2>5, <3>2 DEF RoundsApart
    <3>3. CASE m = r /\ n \in appendEntriesReply
      BY <2>4, <2>5, <3>3
    <3>4. CASE n = r /\ m \in appendEntriesReply
      BY <2>4, <3>1, <3>4
    <3>5. CASE m = r /\ n = r
      BY <3>5
    <3> QED
      BY <2>1, <3>2, <3>3, <3>4, <3>5
  <2>6. ASSUME NEW m \in appendEntriesArgs', NEW n \in appendEntriesReply', SameRound(m, n)
        PROVE  /\ n.success => m.term = n.term /\ Sent(m) = n.upTo
               /\ m.callee # n.callee
    <3>1. m \in appendEntriesArgs /\ m # a
      BY <2>1
    <3>2. CASE n \in appendEntriesReply
      BY <2>6, <3>1, <3>2 DEF RoundsApart
    <3>3. CASE n = r
      <4>1. SameRound(m, a)
        BY <2>1, <2>6, <3>3 DEF SameRound
      <4>2. m.term = a.term /\ Sent(m) = Sent(a) /\ m.callee # a.callee
        BY <3>1, <4>1 DEF RoundsApart
      <4> QED
        BY <2>1, <3>3, <4>2
    <3> QED
      BY <2>1, <3>2, <3>3
  <2> QED
    BY <2>2, <2>3, <2>5, <2>6 DEF RoundsApart, SameRound, Sent
<1> QED
  BY <1>1, <1>4, <1>5, <1>6, RoundSteps

-----------------------------------------------------------------------------
\* RoundsHonest

\* Counting servers.
LEMMA OneMore ==
  ASSUME NEW S \in SUBSET Server, NEW T \in SUBSET Server, S \subseteq T, NEW x \in T, x \notin S
  PROVE  Cardinality(S) + 1 <= Cardinality(T)
<1>1. IsFiniteSet(S) /\ IsFiniteSet(T) /\ IsFiniteSet(S \cup {x})
  BY ServerAssumption, FS_Subset
<1>2. Cardinality(S \cup {x}) = Cardinality(S) + 1
  BY <1>1, FS_AddElement
<1>3. Cardinality(S \cup {x}) <= Cardinality(T)
  BY <1>1, FS_Subset
<1> QED
  BY <1>2, <1>3

LEMMA NoLess ==
  ASSUME NEW S \in SUBSET Server, NEW T \in SUBSET Server, S \subseteq T
  PROVE  Cardinality(S) <= Cardinality(T) /\ Cardinality(S) \in Nat /\ Cardinality(T) \in Nat
<1>1. IsFiniteSet(S) /\ IsFiniteSet(T)
  BY ServerAssumption, FS_Subset
<1> QED
  BY <1>1, FS_Subset, FS_CardinalityType

\* While a call of a round is under way, nobody is added to those asked in it.
LEMMA OutstandingShrinks ==
  ASSUME RaftInv, [Next]_vars, NEW d \in AppendCalls, boot'[d.caller] = boot[d.caller],
         d.boot = boot[d.caller]
  PROVE  Outstanding(d.caller, d.round)' \subseteq Outstanding(d.caller, d.round)
<1> DEFINE i == d.caller  r == d.round
<1>1. TypeOK
  BY DEF RaftInv
<1> SUFFICES ASSUME NEW c \in AppendCalls', c.caller = i, c.round = r, c.boot = boot'[i]
             PROVE  \E m \in AppendCalls : /\ m.caller = i /\ m.callee = c.callee
                                           /\ m.round = r /\ m.boot = boot[i]
  BY DEF Outstanding
<1>2. CASE c \in AppendCalls
  BY <1>2
<1>3. ASSUME NEW j \in Server, DoHeartBeat(j), c \notin AppendCalls PROVE FALSE
  <2>1. PICK s \in FreeRounds(j) :
          \A m \in appendEntriesArgs' : m \notin appendEntriesArgs => RoundCall(j, s, m)
    BY <1>3, RoundOpened
  <2>2. appendEntriesReply' = appendEntriesReply
    BY <1>3 DEF DoHeartBeat
  <2>3. RoundCall(j, s, c)
    BY <1>3, <2>1, <2>2 DEF AppendCalls
  <2>4. d.caller = j /\ d.round = s /\ d.boot = boot[j]
    BY <2>3 DEF RoundCall
  <2> QED
    BY <2>4 DEF FreeRounds, AppendCalls
<1>4. ASSUME NEW m \in appendEntriesArgs, NEW s, Answered(m, s), c \notin AppendCalls
      PROVE  /\ m \in AppendCalls /\ m.caller = i /\ m.callee = c.callee
             /\ m.round = r /\ m.boot = boot[i]
  BY <1>4 DEF Answered, AppendCalls
<1> QED
  BY <1>1, <1>2, <1>3, <1>4, RoundSteps DEF CallsDrop, AppendCalls

\* What a call of a round claims for its round.
Claims(m, k) ==
  \/ m \in appendEntriesArgs /\ k = Sent(m)
  \/ m \in appendEntriesReply /\ m \in appendEntriesReply' /\ m.success /\ k = m.upTo

\* A counter never gets ahead of the servers that have accepted what the round sent.
LEMMA CountedNext ==
  ASSUME NEW h, NEW g, CleanStep(h, g), NEW d \in AppendCalls, NEW k, Claims(d, k),
         boot'[d.caller] = boot[d.caller], d.boot = boot[d.caller]
  PROVE  Counted(g, d.caller, d.round, k, d.term)'
<1> DEFINE i == d.caller  r == d.round  t == d.term
           S == Holders(h, k, t) \ Outstanding(i, r)
           T == Holders(g, k, t) \ Outstanding(i, r)'
<1>1. /\ RaftInv /\ TypeOK /\ TypeOK' /\ [Next]_vars /\ h \in History /\ g \in History
      /\ Later(h, g) /\ RoundsApart /\ RoundsHonest(h) /\ CopiesLeader(h)
  BY DEF CleanStep, Explains, RaftInv
<1>2. i \in Server /\ r \in Round /\ t \in Term /\ k \in Nat
  <2>1. ASSUME d \in appendEntriesArgs PROVE Sent(d) \in Nat
    <3>1. d.prevLogIndex \in Nat /\ d.entries \in Seq(Entry)
      BY <1>1, <2>1 DEF TypeOK, AppendEntriesArgs
    <3>2. Len(d.entries) \in Nat
      BY <3>1, LenProperties
    <3> QED
      BY <3>1, <3>2, SMT DEF Sent
  <2> QED
    BY <1>1, <2>1 DEF TypeOK, AppendCalls, AppendEntriesArgs, AppendEntriesReply, Claims
<1>3. appendNums[i][r] <= Cardinality(S)
  BY <1>1 DEF Claims, RoundsHonest, Counted
<1>4. appendNums[i][r] \in Nat /\ appendNums'[i][r] \in Nat
  BY <1>1, <1>2 DEF TypeOK
<1>5. S \in SUBSET Server /\ T \in SUBSET Server
  BY DEF Holders
<1>6. S \subseteq T
  <2>1. Outstanding(i, r)' \subseteq Outstanding(i, r)
    BY <1>1, OutstandingShrinks
  <2>2. Holders(h, k, t) \subseteq Holders(g, k, t)
    <3> SUFFICES ASSUME NEW j \in Server, h.accepted[j][t] >= k PROVE g.accepted[j][t] >= k
      BY DEF Holders
    <3>1. /\ g.accepted[j][t] >= h.accepted[j][t]
          /\ g.accepted[j][t] \in Nat /\ h.accepted[j][t] \in Nat
      BY <1>1, <1>2, HistoryType DEF Later
    <3> QED
      BY <1>2, <3>1, SMT
  <2> QED
    BY <2>1, <2>2
<1>7. Cardinality(S) <= Cardinality(T) /\ Cardinality(S) \in Nat /\ Cardinality(T) \in Nat
  BY <1>5, <1>6, NoLess
<1>8. ASSUME NEW n \in appendEntriesReply, AppendReplySuccess(n), n.caller = i, n.round = r
      PROVE  Cardinality(S) + 1 <= Cardinality(T)
  <2>1. /\ n.success /\ n.boot = boot[i] /\ appendEntriesReply' = appendEntriesReply \ {n}
        /\ appendEntriesArgs' = appendEntriesArgs /\ n.callee \in Server
    BY <1>1, <1>8 DEF AppendReplySuccess, AppendReplyInTerm, AppendReplyArrives, TypeOK,
                      AppendEntriesReply
  <2>2. SameRound(d, n)
    BY <1>8, <2>1 DEF SameRound
  <2>3. n.term = t /\ n.upTo = k
    BY <1>1, <2>1, <2>2 DEF Claims, RoundsApart
  <2>4. n.callee \in Holders(g, k, t)
    <3>1. k <= h.accepted[n.callee][t]
      BY <1>1, <2>1, <2>3 DEF CopiesLeader, ReplyCopied
    <3>2. /\ g.accepted[n.callee][t] >= h.accepted[n.callee][t]
          /\ g.accepted[n.callee][t] \in Nat /\ h.accepted[n.callee][t] \in Nat
      BY <1>1, <1>2, <2>1, HistoryType DEF Later
    <3>3. g.accepted[n.callee][t] >= k
      BY <1>2, <3>1, <3>2, SMT
    <3> QED
      BY <2>1, <3>3 DEF Holders
  <2>5. n.callee \in Outstanding(i, r)
    BY <1>8, <2>1 DEF Outstanding, AppendCalls
  <2>6. n.callee \notin Outstanding(i, r)'
    <3> SUFFICES ASSUME NEW c \in AppendCalls', c.caller = i, c.callee = n.callee,
                        c.round = r, c.boot = boot'[i]
                 PROVE  FALSE
      BY DEF Outstanding
    <3>1. SameRound(c, n)
      BY <1>8, <2>1 DEF SameRound
    <3>2. CASE c \in appendEntriesArgs
      BY <1>1, <3>1, <3>2 DEF RoundsApart
    <3>3. CASE c \in appendEntriesReply /\ c # n
      BY <1>1, <3>1, <3>3 DEF RoundsApart
    <3> QED
      BY <2>1, <3>2, <3>3 DEF AppendCalls
  <2>7. n.callee \in T /\ n.callee \notin S
    BY <2>4, <2>5, <2>6
  <2> QED
    BY <1>5, <1>6, <2>7, OneMore
<1>9. \/ appendNums'[i][r] = appendNums[i][r]
      \/ appendNums'[i][r] = 0
      \/ \E n \in appendEntriesReply :
           /\ AppendReplySuccess(n) /\ n.caller = i /\ n.round = r
           /\ appendNums'[i][r] = appendNums[i][r] + 1
  <2>1. r \notin FreeRounds(i)
    BY DEF FreeRounds, AppendCalls
  <2> QED
    BY <1>1, <1>2, <2>1, CountSteps
<1> HIDE DEF S, T
<1>10. appendNums'[i][r] <= Cardinality(T)
  BY <1>3, <1>4, <1>7, <1>8, <1>9, SMT
<1> QED
  BY <1>10 DEF Counted, Holders, T

\* The counters of all rounds are honest.
LEMMA RoundsHonestNext ==
  ASSUME NEW h, NEW g, CleanStep(h, g)
  PROVE  RoundsHonest(g)'
<1>1. /\ VotesSurviveRestart /\ RaftInv /\ TypeOK /\ TypeOK' /\ [Next]_vars
      /\ AppendCallsGenuine'
      /\ h \in History /\ g \in History /\ Later(h, g) /\ RoundsApart
      /\ LedTerms(h) /\ LeaderLogs(h)
  BY DEF CleanStep, Explains, RaftInv, LogInv
<1>2. ASSUME NEW d \in AppendCalls, d.boot = boot'[d.caller]
      PROVE  boot'[d.caller] = boot[d.caller] /\ d.boot = boot[d.caller]
  <2>1. d.caller \in Server /\ d.boot <= boot[d.caller] /\ d.boot \in Nat
    BY <1>1 DEF RoundsApart, TypeOK, AppendCalls, AppendEntriesArgs, AppendEntriesReply
  <2>2. boot'[d.caller] >= boot[d.caller] /\ boot[d.caller] \in Nat /\ boot'[d.caller] \in Nat
    BY <1>1, <2>1, TermsGrow DEF TypeOK
  <2> QED
    BY <1>2, <2>1, <2>2, SMT
<1>3. ASSUME NEW i \in Server, DoHeartBeat(i), NEW m \in appendEntriesArgs',
             m \notin appendEntriesArgs
      PROVE  Counted(g, m.caller, m.round, Sent(m), m.term)'
  <2> DEFINE t == currentTerm[i]  k == Len(logs[i])
             T == Holders(g, k, t) \ Outstanding(i, m.round)'
  <2>1. /\ m.caller = i /\ m.term = t /\ Sent(m) = k /\ appendNums'[i][m.round] = 1
    BY <1>1, <1>3, RoundOpened DEF RoundCall
  <2>2. status[i] = "Leader"
    BY <1>3 DEF DoHeartBeat
  <2>3. t \in h.led /\ t \in Term /\ Elected(i, t) /\ InTerm(i, t)
    BY <1>1, <2>2, LeaderFacts DEF LedTerms
  <2>4. h.accepted[i][t] = k
    BY <1>1, <2>3 DEF LeaderLogs
  <2>5. i \in Holders(g, k, t)
    <3>1. g.accepted[i][t] >= h.accepted[i][t]
      BY <1>1, <2>3 DEF Later
    <3> QED
      BY <2>4, <3>1 DEF Holders
  <2>6. i \notin Outstanding(i, m.round)'
    BY <1>1 DEF AppendCallsGenuine, RequestIsGenuine, ReplyIsGenuine, Outstanding, AppendCalls
  <2>7. i \in T /\ T \in SUBSET Server
    BY <2>5, <2>6 DEF Holders
  <2> HIDE DEF T
  <2>8. Cardinality({}) + 1 <= Cardinality(T)
    BY <2>7, OneMore
  <2>9. 1 <= Cardinality(T)
    BY <2>8, FS_EmptySet
  <2> QED
    BY <2>1, <2>9 DEF Counted, Holders, T
<1>4. ASSUME NEW m \in appendEntriesArgs', m.boot = boot'[m.caller]
      PROVE  Counted(g, m.caller, m.round, Sent(m), m.term)'
  <2>1. CASE m \in appendEntriesArgs
    BY <1>2, <1>4, <2>1, CountedNext DEF Claims, AppendCalls
  <2> QED
    BY <1>1, <1>3, <2>1, AppendCallSteps
<1>5. ASSUME NEW r \in appendEntriesReply', r.boot = boot'[r.caller], r.success
      PROVE  Counted(g, r.caller, r.round, r.upTo, r.term)'
  <2>1. CASE r \in appendEntriesReply
    BY <1>2, <1>5, <2>1, CountedNext DEF Claims, AppendCalls
  <2>2. ASSUME NEW m \in appendEntriesArgs, Answered(m, r)
        PROVE  Counted(g, r.caller, r.round, r.upTo, r.term)'
    <3>1. /\ r.caller = m.caller /\ r.round = m.round /\ r.boot = m.boot
          /\ r.upTo = Sent(m) /\ r.term = m.term
      BY <1>5, <2>2 DEF Answered
    <3>2. Counted(g, m.caller, m.round, Sent(m), m.term)'
      BY <1>2, <1>5, <3>1, CountedNext DEF Claims, AppendCalls
    <3> QED
      BY <3>1, <3>2
  <2>3. \/ appendEntriesReply' \subseteq appendEntriesReply
        \/ \E m \in appendEntriesArgs : \E s : Answered(m, s)
    BY <1>1, AppendCallSteps, HandlerAnswers
  <2>4. ASSUME NEW m \in appendEntriesArgs, NEW s, Answered(m, s), r \notin appendEntriesReply
        PROVE  r = s
    BY <2>4 DEF Answered
  <2> QED
    BY <2>1, <2>2, <2>3, <2>4
<1> QED
  BY <1>4, <1>5 DEF RoundsHonest, Sent

-----------------------------------------------------------------------------
\* What is committed

\* Every leader of a term has all that was backed up to that term.
LEMMA LeaderHasBacked ==
  ASSUME NEW h \in History, LaterLeaders(h), NEW t \in h.led, NEW u \in h.led, t <= u,
         NEW k \in 1 .. Len(h.log[t]), Own(h, k, t), ChosenAt(h, k, t)
  PROVE  SameUpTo(h.log[u], h.log[t], k)
<1>1. t \in Term /\ u \in Term /\ t \in Int /\ u \in Int /\ Len(h.log[t]) \in Nat
  BY HistoryType, TermsAreNumbers
<1>2. k \in Int /\ k <= Len(h.log[t])
  BY <1>1, SMT
<1>3. CASE t = u
  BY <1>2, <1>3, SameSelf
<1>4. CASE t # u
  <2>1. t < u
    BY <1>1, <1>4, SMT
  <2>2. ~NeverChosen(h, k, t)
    BY <1>1, <1>2, ChosenOrNever
  <2> QED
    BY <2>1, <2>2 DEF LaterLeaders
<1> QED
  BY <1>3, <1>4

\* A log that agrees with a leader beyond what is backed keeps what is backed.
LEMMA BackedAgrees ==
  ASSUME NEW h \in History, LaterLeaders(h), NEW a, NEW b, NEW c \in Nat, NEW n \in Int,
         NEW s \in Term, NEW u \in h.led, s <= u, Backed(h, a, c, s),
         SameUpTo(b, h.log[u], n), c <= n, c <= Len(a), Len(a) \in Nat, Len(b) \in Nat
  PROVE  SameUpTo(b, a, c)
<1>1. CASE c = 0
  BY <1>1, SMT DEF SameUpTo
<1>2. CASE c > 0
  <2>1. PICK t \in h.led : \E k \in 1 .. Len(h.log[t]) :
          /\ t <= s /\ c <= k
          /\ Own(h, k, t) /\ ChosenAt(h, k, t) /\ SameUpTo(a, h.log[t], c)
    BY <1>2 DEF Backed
  <2>2. PICK k \in 1 .. Len(h.log[t]) :
          /\ t <= s /\ c <= k
          /\ Own(h, k, t) /\ ChosenAt(h, k, t) /\ SameUpTo(a, h.log[t], c)
    BY <2>1
  <2>3. /\ t \in Int /\ u \in Int /\ s \in Int /\ k \in Int
        /\ Len(h.log[t]) \in Int /\ Len(h.log[u]) \in Int
    <3>1. /\ t \in Term /\ u \in Term /\ Len(h.log[t]) \in Nat /\ Len(h.log[u]) \in Nat
      BY HistoryType
    <3> QED
      BY <3>1, TermsAreNumbers, SMT
  <2>4. t <= u
    BY <2>2, <2>3, SMT
  <2>5. SameUpTo(h.log[u], h.log[t], k)
    BY <2>2, <2>4, LeaderHasBacked
  <2>6. SameUpTo(h.log[u], h.log[t], c)
    BY <2>2, <2>3, <2>5, SameBefore
  <2>7. SameUpTo(b, h.log[u], c)
    BY <2>3, SameBefore
  <2>8. SameUpTo(h.log[t], a, c)
    BY <2>2, SameBack
  <2> QED
    BY <2>6, <2>7, <2>8, SameAlong
<1> QED
  BY <1>1, <1>2, SMT

\* What a commit index is.
LEMMA CommitType ==
  ASSUME RaftInv, NEW i \in Server
  PROVE  /\ commitIndex[i] \in Nat /\ commitIndex[i] <= Len(logs[i])
         /\ Len(logs[i]) \in Nat /\ currentTerm[i] \in Term /\ currentTerm[i] \in Int
<1>1. TypeOK /\ CommitInLog
  BY DEF RaftInv, LogInv
<1>2. Len(logs[i]) \in Nat
  BY <1>1, LogType
<1> QED
  BY <1>1, <1>2, TermsAreNumbers DEF TypeOK, CommitInLog

\* No server ever changes what it knows to be committed.
LEMMA CommittedStays ==
  ASSUME NEW h, NEW g, CleanStep(h, g), NEW i \in Server
  PROVE  SameUpTo(logs'[i], logs[i], commitIndex[i])
<1> DEFINE c == commitIndex[i]
<1>1. /\ RaftInv /\ RaftInv' /\ h \in History /\ Explains(h) /\ Remembered(h, g)
      /\ LaterLeaders(h) /\ CommitsBacked(h)
  BY DEF CleanStep, Explains
<1>2. /\ c \in Nat /\ c <= Len(logs[i]) /\ Len(logs[i]) \in Nat
      /\ currentTerm[i] \in Term /\ currentTerm[i] \in Int
  BY <1>1, CommitType
<1>3. Len(logs'[i]) \in Nat
  <2>1. logs'[i] \in Seq(Entry)
    BY <1>1 DEF RaftInv, TypeOK
  <2> QED
    BY <2>1, LenProperties
<1>4. CASE logs'[i] = logs[i]
  BY <1>2, <1>4, SameSelf
<1>5. ASSUME NEW j \in Server, NEW t \in Term, Extended(h, g, j, t), logs'[i] # logs[i]
      PROVE  SameUpTo(logs'[i], logs[i], c)
  <2>1. SameUpTo(logs'[i], logs[i], Len(logs[i]))
    BY <1>5 DEF Extended
  <2>2. c \in Int /\ Len(logs[i]) \in Int /\ Len(logs'[i]) \in Int
    BY <1>2, <1>3, SMT
  <2> QED
    BY <1>2, <2>1, <2>2, SameBefore
<1>6. ASSUME NEW j \in Server, NEW u \in Term, NEW k \in Nat, Accepted(h, g, j, u, k),
             logs'[i] # logs[i]
      PROVE  SameUpTo(logs'[i], logs[i], c)
  <2>1. /\ i = j /\ u \in h.led /\ currentTerm[i] <= u /\ Len(logs[i]) <= k
        /\ SameUpTo(logs'[i], h.log[u], k)
    BY <1>6 DEF Accepted
  <2>2. Backed(h, logs[i], c, currentTerm[i])
    BY <1>1 DEF CommitsBacked
  <2>3. c <= k /\ k \in Int
    BY <1>2, <2>1, SMT
  <2> QED
    BY <1>1, <1>2, <1>3, <2>1, <2>2, <2>3, BackedAgrees
<1> QED
  BY <1>1, <1>4, <1>5, <1>6 DEF Remembered, Crowned

\* The three ways a commit index gets its value.
CommitKept(i) == boot'[i] = boot[i] /\ commitIndex'[i] = commitIndex[i]
CommitFollows(i, m) ==
  /\ AcceptEntries(m) /\ m.callee = i /\ m.leaderCommit > commitIndex[i]
  /\ commitIndex'[i] = Min({m.leaderCommit, Len(logs'[i])})
CommitCounted(i, m) ==
  /\ AppendReplySuccess(m) /\ m.caller = i
  /\ Majority(appendNums[i][m.round] + 1) /\ m.lastTerm = currentTerm[i]
  /\ m.upTo > commitIndex[i] /\ commitIndex'[i] = m.upTo

\* No other step touches a commit index.
LEMMA CommitSteps ==
  ASSUME TypeOK, [Next]_vars, NEW i \in Server
  PROVE  \/ Restart(i) /\ commitIndex'[i] = 0
         \/ CommitKept(i)
         \/ \E m \in appendEntriesArgs : CommitFollows(i, m)
         \/ \E m \in appendEntriesReply : CommitCounted(i, m)
<1> DEFINE Restarted == Restart(i) /\ commitIndex'[i] = 0
           Follows == \E m \in appendEntriesArgs : CommitFollows(i, m)
           Counts == \E m \in appendEntriesReply : CommitCounted(i, m)
<1>1. ASSUME NEW j \in Server, DoElection(j) \/ DoHeartBeat(j) \/ ApplierTicker(j)
      PROVE  CommitKept(i)
  BY <1>1 DEF DoElection, DoHeartBeat, ApplierTicker, logVars, CommitKept
<1>2. ASSUME NEW j \in Server, Restart(j) PROVE Restarted \/ CommitKept(i)
  BY <1>2 DEF Restart, TypeOK, CommitKept
<1>3. ASSUME NEW j \in Server, NEW command \in Command, StartConses(j, command)
      PROVE  CommitKept(i)
  BY <1>3 DEF StartConses, CommitKept
<1>4. ASSUME NEW m \in requestVoteArgs, HandleRequestVote(m) PROVE CommitKept(i)
  BY <1>4 DEF HandleRequestVote, RefuseExpiredVote, RequestVote, logVars, CommitKept
<1>5. ASSUME NEW m \in requestVoteReply, HandleVoteReply(m) PROVE CommitKept(i)
  BY <1>5 DEF HandleVoteReply, VoteReplyNewerTerm, VoteReplyCounted,
              BecomeLeader, VoteReplyArrives, logVars, CommitKept
<1>6. ASSUME NEW m \in appendEntriesArgs, HandleAppendEntries(m)
      PROVE  CommitKept(i) \/ Follows
  <2>1. CASE RefuseExpiredEntries(m) \/ RefuseGap(m) \/ RefuseMismatch(m)
    BY <2>1 DEF RefuseExpiredEntries, RefuseGap, RefuseMismatch, AnswerAppend, logVars,
                CommitKept
  <2>2. CASE AcceptEntries(m)
    <3>1. boot' = boot
      BY <2>2 DEF AcceptEntries, AnswerAppend
    <3>2. CASE m.callee # i
      BY <2>2, <3>1, <3>2 DEF AcceptEntries, TypeOK, CommitKept
    <3>3. CASE m.callee = i
      <4>1. commitIndex'[i] = FollowerCommit(commitIndex[i], m.leaderCommit, Len(logs'[i]))
        BY <2>2, <3>3 DEF AcceptEntries, TypeOK
      <4> QED
        BY <2>2, <3>1, <3>3, <4>1 DEF FollowerCommit, CommitKept, CommitFollows
    <3> QED
      BY <3>2, <3>3
  <2> QED
    BY <1>6, <2>1, <2>2 DEF HandleAppendEntries
<1>7. ASSUME NEW m \in appendEntriesReply, HandleAppendReply(m)
      PROVE  CommitKept(i) \/ Counts
  <2>1. CASE AppendReplyNewerTerm(m) \/ AppendReplyStale(m) \/ AppendReplyFailure(m)
    BY <2>1 DEF AppendReplyNewerTerm, AppendReplyStale, AppendReplyFailure,
                AppendReplyInTerm, AppendReplyArrives, CommitKept
  <2>2. CASE AppendReplySuccess(m)
    <3> DEFINE j == m.caller
    <3>1. boot' = boot
      BY <2>2 DEF AppendReplySuccess, AppendReplyInTerm, AppendReplyArrives
    <3>2. \/ commitIndex' = commitIndex
          \/ /\ Majority(appendNums[j][m.round] + 1)
             /\ commitIndex' = [commitIndex EXCEPT ![j] = LeaderCommit(j, m, @)]
      BY <2>2, Zenon DEF AppendReplySuccess
    <3>3. CASE commitIndex'[i] = commitIndex[i]
      BY <3>1, <3>3 DEF CommitKept
    <3>4. CASE commitIndex'[i] # commitIndex[i]
      <4>1. /\ j = i /\ Majority(appendNums[i][m.round] + 1)
            /\ commitIndex'[i] = LeaderCommit(i, m, commitIndex[i])
        BY <3>2, <3>4 DEF TypeOK
      <4>2. m.lastTerm = currentTerm[i] /\ commitIndex'[i] = Max({commitIndex[i], m.upTo})
        BY <3>4, <4>1 DEF LeaderCommit
      <4>3. commitIndex[i] \in Int /\ m.upTo \in Int
        <5>1. commitIndex[i] \in Nat /\ m.upTo \in Nat
          BY DEF TypeOK, AppendEntriesReply
        <5> QED
          BY <5>1, SMT
      <4>4. Max({commitIndex[i], m.upTo})
              = IF commitIndex[i] >= m.upTo THEN commitIndex[i] ELSE m.upTo
        BY <4>3, MaxOfPair
      <4>5. m.upTo > commitIndex[i] /\ commitIndex'[i] = m.upTo
        BY <3>4, <4>2, <4>3, <4>4, SMT
      <4> QED
        BY <2>2, <4>1, <4>2, <4>5 DEF CommitCounted
    <3> QED
      BY <3>3, <3>4
  <2> QED
    BY <1>7, <2>1, <2>2 DEF HandleAppendReply
<1>8. ASSUME VoteCallFails \/ AppendCallFails \/ UNCHANGED vars PROVE CommitKept(i)
  BY <1>8 DEF VoteCallFails, AppendCallFails, vars, logVars, CommitKept
<1> HIDE DEF Restarted, Follows, Counts
<1>9. Restarted \/ CommitKept(i) \/ Follows \/ Counts
  BY <1>1, <1>2, <1>3, <1>4, <1>5, <1>6, <1>7, <1>8, Zenon DEF Next
<1> QED
  BY <1>9 DEF Restarted, Follows, Counts

\* A follower commits what its leader had committed when it sent the request.
LEMMA FollowerBacked ==
  ASSUME NEW h, NEW g, CleanStep(h, g), NEW m \in appendEntriesArgs,
         CommitFollows(m.callee, m)
  PROVE  Backed(g, logs'[m.callee], commitIndex'[m.callee], currentTerm'[m.callee])
<1> DEFINE i == m.callee  u == m.term  c == m.leaderCommit
<1>1. /\ TypeOK /\ h \in History /\ g \in History /\ Later(h, g) /\ AcceptEntries(m)
      /\ RequestCopied(h, m) /\ Accepted(h, g, i, u, Sent(m))
  BY DEF CleanStep, RaftInv, Explains, CopiesLeader, CommitFollows
<1>2. /\ u \in h.led /\ u \in Term /\ c <= Sent(m) /\ Backed(h, h.log[u], c, u)
      /\ Sent(m) \in Nat /\ currentTerm'[i] = u /\ SameUpTo(logs'[i], h.log[u], Sent(m))
  BY <1>1, HistoryType DEF RequestCopied, Accepted
<1>3. c \in Nat /\ Len(h.log[u]) \in Nat /\ Len(logs'[i]) \in Nat /\ u \in Int
  <2>1. logs'[i] \in Seq(Entry)
    <3>1. i \in Server
      BY <1>1 DEF TypeOK, AppendEntriesArgs
    <3>2. TypeOK'
      BY DEF CleanStep, RaftInv
    <3>3. logs' \in [Server -> Seq(Entry)]
      BY <3>2 DEF TypeOK
    <3> QED
      BY <3>1, <3>3
  <2>2. c \in Nat
    BY <1>1 DEF TypeOK, AppendEntriesArgs
  <2>3. Len(logs'[i]) \in Nat
    BY <2>1, LenProperties
  <2>4. Len(h.log[u]) \in Nat
    BY <1>1, <1>2, HistoryType
  <2> QED
    BY <1>2, <2>2, <2>3, <2>4, TermsAreNumbers
<1>4. commitIndex'[i] = c
  <2>1. commitIndex'[i] = Min({c, Len(logs'[i])})
    BY DEF CommitFollows
  <2>2. c <= Len(logs'[i]) /\ c \in Int /\ Len(logs'[i]) \in Int
    BY <1>2, <1>3, SMT DEF SameUpTo
  <2> QED
    BY <2>1, <2>2, MinOfPair
<1>5. SameUpTo(logs'[i], h.log[u], c)
  <2>1. c \in Int /\ Sent(m) \in Int /\ Len(h.log[u]) \in Int /\ Len(logs'[i]) \in Int
    BY <1>2, <1>3, SMT
  <2> QED
    BY <1>2, <2>1, SameBefore
<1>6. u <= u
  BY <1>3, SMT
<1> QED
  BY <1>1, <1>2, <1>3, <1>4, <1>5, <1>6, BackedStays

\* A leader commits what a majority, itself and the senders of the successes of
\* one round, has accepted.
LEMMA LeaderBacked ==
  ASSUME NEW h, NEW g, CleanStep(h, g), NEW m \in appendEntriesReply,
         CommitCounted(m.caller, m)
  PROVE  Backed(g, logs'[m.caller], commitIndex'[m.caller], currentTerm'[m.caller])
<1> DEFINE i == m.caller  t == m.term  k == m.upTo  r == m.round
           S == Holders(h, k, t) \ Outstanding(i, r)
<1>1. /\ RaftInv /\ TypeOK /\ h \in History /\ g \in History /\ Later(h, g)
      /\ LedTerms(h) /\ LeaderLogs(h) /\ AcceptedOnce(h) /\ CopiesLeader(h) /\ RoundsHonest(h)
  BY DEF CleanStep, RaftInv, Explains
<1>2. /\ i \in Server /\ m.callee \in Server /\ t \in Term /\ k \in Nat /\ r \in Round
      /\ t \in Int
  BY <1>1, TermsAreNumbers DEF TypeOK, AppendEntriesReply
<1>3. /\ m.success /\ m.boot = boot[i] /\ t = currentTerm[i] /\ status[i] = "Leader"
      /\ logs' = logs /\ currentTerm' = currentTerm
      /\ m.lastTerm = t /\ commitIndex'[i] = k
      /\ Majority(appendNums[i][r] + 1)
  BY DEF CommitCounted, AppendReplySuccess, AppendReplyInTerm, AppendReplyArrives
<1>4. ReplyCopied(h, m) /\ Counted(h, i, r, k, t)
  BY <1>1, <1>3 DEF CopiesLeader, RoundsHonest
<1>5. t \in h.led /\ Elected(i, t) /\ InTerm(i, t) /\ logs[i] = h.log[t]
  <2>1. t \in h.led
    BY <1>4 DEF ReplyCopied
  <2>2. Elected(i, t) /\ InTerm(i, t)
    BY <1>1, <1>2, <1>3, LeaderFacts
  <2> QED
    BY <1>1, <1>2, <2>1, <2>2 DEF LeaderLogs
<1>6. t # 0
  <2> SUFFICES ASSUME t = 0 PROVE FALSE
    OBVIOUS
  <2>1. Voters(i, t) = {}
    BY <1>1, <1>2, NoVoteAssumption DEF LedTerms, Voters
  <2>2. Cardinality({}) = 0 /\ Cardinality(Server) \in Nat
    BY ServerAssumption, FS_EmptySet, FS_CardinalityType
  <2>3. ~Majority(0)
    BY <2>2, SMT DEF Majority
  <2> QED
    BY <1>5, <2>1, <2>2, <2>3 DEF Elected
<1>7. Own(h, k, t) /\ k \in 1 .. Len(h.log[t])
  <2>1. k > 0 /\ h.log[t][k].term = t /\ k <= h.accepted[m.callee][t]
    BY <1>3, <1>4, <1>6 DEF ReplyCopied
  <2>2. h.accepted[m.callee][t] \in Nat /\ Len(h.log[t]) \in Nat
    BY <1>1, <1>2, HistoryType
  <2>3. h.accepted[m.callee][t] > 0
    BY <1>2, <2>1, <2>2, SMT
  <2>4. h.accepted[m.callee][t] <= Len(h.log[t])
    BY <1>1, <1>2, <1>5, <2>3 DEF AcceptedOnce
  <2>5. k \in 1 .. Len(h.log[t])
    BY <1>2, <2>1, <2>2, <2>4, SMT
  <2> QED
    BY <2>1, <2>5 DEF Own
<1>8. ChosenAt(h, k, t)
  <2>1. m.callee \in Holders(h, k, t)
    <3>1. k <= h.accepted[m.callee][t] /\ h.accepted[m.callee][t] \in Nat
      BY <1>1, <1>2, <1>4, HistoryType DEF ReplyCopied
    <3>2. h.accepted[m.callee][t] >= k
      BY <1>2, <3>1, SMT
    <3> QED
      BY <1>2, <3>2 DEF Holders
  <2>2. m.callee \in Outstanding(i, r)
    BY <1>2, <1>3 DEF Outstanding, AppendCalls
  <2>3. Holders(h, k, t) \in SUBSET Server /\ S \in SUBSET Server
    BY DEF Holders
  <2>4. Cardinality(S) + 1 <= Cardinality(Holders(h, k, t))
    BY <2>1, <2>2, <2>3, OneMore
  <2>5. appendNums[i][r] <= Cardinality(S)
    BY <1>4 DEF Counted
  <2>6. /\ appendNums[i][r] \in Nat /\ Cardinality(S) \in Nat
        /\ Cardinality(Holders(h, k, t)) \in Nat /\ Cardinality(Server) \in Nat
    <3>1. appendNums[i][r] \in Nat
      BY <1>1, <1>2 DEF TypeOK
    <3> QED
      BY <2>3, <3>1, ServerAssumption, FS_Subset, FS_CardinalityType
  <2>7. Cardinality(Holders(h, k, t)) >= appendNums[i][r] + 1
    BY <2>4, <2>5, <2>6, SMT
  <2>8. Majority(Cardinality(Holders(h, k, t)))
    BY <1>3, <2>6, <2>7, SMT DEF Majority
  <2> QED
    BY <2>8 DEF ChosenAt
<1>9. SameUpTo(logs[i], h.log[t], k)
  <2>1. k <= Len(h.log[t])
    BY <1>7, SMT
  <2> QED
    BY <1>5, <2>1, SameSelf
<1>10. Backed(h, logs[i], k, t)
  <2>1. t <= t /\ k <= k
    BY <1>2, SMT
  <2> QED
    BY <1>5, <1>7, <1>8, <1>9, <2>1 DEF Backed
<1>11. t <= t /\ SameUpTo(logs[i], logs[i], k)
  <2>1. k <= Len(logs[i])
    BY <1>9 DEF SameUpTo
  <2> QED
    BY <1>2, <2>1, SameSelf, SMT
<1> QED
  BY <1>1, <1>2, <1>3, <1>10, <1>11, BackedStays

\* Whatever is committed was accepted by a majority from one leader.
LEMMA CommitsBackedNext ==
  ASSUME NEW h, NEW g, CleanStep(h, g)
  PROVE  CommitsBacked(g)'
<1>1. /\ VotesSurviveRestart /\ RaftInv /\ RaftInv' /\ TypeOK /\ TypeOK' /\ [Next]_vars
      /\ h \in History /\ g \in History /\ Later(h, g) /\ CommitsBacked(h)
  BY DEF CleanStep, RaftInv, Explains
<1>2. ASSUME NEW i \in Server
      PROVE  Backed(g, logs'[i], commitIndex'[i], currentTerm'[i])
  <2>1. CASE commitIndex'[i] = 0
    BY <2>1 DEF Backed
  <2>2. CASE CommitKept(i)
    <3>1. commitIndex'[i] = commitIndex[i] /\ currentTerm[i] <= currentTerm'[i]
      <4>1. currentTerm'[i] >= currentTerm[i]
        BY <1>1, <2>2, TermsGrow DEF CommitKept
      <4>2. currentTerm[i] \in Int /\ currentTerm'[i] \in Int
        BY <1>1, TermsOfServers, TermsOfServersNext
      <4> QED
        BY <2>2, <4>1, <4>2, SMT DEF CommitKept
    <3>2. SameUpTo(logs'[i], logs[i], commitIndex[i])
      BY CommittedStays
    <3>3. Backed(h, logs[i], commitIndex[i], currentTerm[i])
      BY <1>1 DEF CommitsBacked
    <3>4. commitIndex[i] \in Nat /\ currentTerm[i] \in Term /\ currentTerm'[i] \in Term
      BY <1>1 DEF TypeOK
    <3> QED
      BY <1>1, <3>1, <3>2, <3>3, <3>4, BackedStays
  <2>3. ASSUME NEW m \in appendEntriesArgs, CommitFollows(i, m)
        PROVE  Backed(g, logs'[i], commitIndex'[i], currentTerm'[i])
    <3>1. m.callee = i
      BY <2>3 DEF CommitFollows
    <3> QED
      BY <2>3, <3>1, FollowerBacked
  <2>4. ASSUME NEW m \in appendEntriesReply, CommitCounted(i, m)
        PROVE  Backed(g, logs'[i], commitIndex'[i], currentTerm'[i])
    <3>1. m.caller = i
      BY <2>4 DEF CommitCounted
    <3> QED
      BY <2>4, <3>1, LeaderBacked
  <2> QED
    BY <1>1, <2>1, <2>2, <2>3, <2>4, CommitSteps
<1> QED
  BY <1>2 DEF CommitsBacked, Backed, ChosenAt, Holders, Own, Majority

-----------------------------------------------------------------------------
\* What is applied

\* Only applierTicker and a restart touch what is applied.
LEMMA AppliedSteps ==
  ASSUME TypeOK, [Next]_vars, NEW i \in Server
  PROVE  \/ Restart(i) /\ lastApplied'[i] = 0 /\ applyChan'[i] = <<>>
         \/ lastApplied'[i] = lastApplied[i] /\ applyChan'[i] = applyChan[i]
         \/ ApplierTicker(i)
<1> DEFINE Reset == Restart(i) /\ lastApplied'[i] = 0 /\ applyChan'[i] = <<>>
           Same == lastApplied'[i] = lastApplied[i] /\ applyChan'[i] = applyChan[i]
<1>1. ASSUME NEW j \in Server, DoElection(j) \/ DoHeartBeat(j) PROVE Same
  BY <1>1 DEF DoElection, DoHeartBeat, applyVars
<1>2. ASSUME NEW j \in Server, ApplierTicker(j) PROVE Same \/ ApplierTicker(i)
  BY <1>2 DEF ApplierTicker, TypeOK
<1>3. ASSUME NEW j \in Server, Restart(j) PROVE Same \/ Reset
  BY <1>3 DEF Restart, TypeOK
<1>4. ASSUME NEW j \in Server, NEW command \in Command, StartConses(j, command) PROVE Same
  BY <1>4 DEF StartConses, applyVars
<1>5. ASSUME NEW m \in requestVoteArgs, HandleRequestVote(m) PROVE Same
  BY <1>5 DEF HandleRequestVote, RefuseExpiredVote, RequestVote, applyVars
<1>6. ASSUME NEW m \in requestVoteReply, HandleVoteReply(m) PROVE Same
  BY <1>6 DEF HandleVoteReply, VoteReplyNewerTerm, VoteReplyCounted,
              BecomeLeader, VoteReplyArrives, applyVars
<1>7. ASSUME NEW m \in appendEntriesArgs, HandleAppendEntries(m) PROVE Same
  BY <1>7 DEF HandleAppendEntries, RefuseExpiredEntries, RefuseGap, RefuseMismatch,
              AcceptEntries, AnswerAppend, applyVars
<1>8. ASSUME NEW m \in appendEntriesReply, HandleAppendReply(m) PROVE Same
  BY <1>8 DEF HandleAppendReply, AppendReplyNewerTerm, AppendReplyStale,
              AppendReplyFailure, AppendReplySuccess, AppendReplyInTerm,
              AppendReplyArrives, applyVars
<1>9. ASSUME VoteCallFails \/ AppendCallFails \/ UNCHANGED vars PROVE Same
  BY <1>9 DEF VoteCallFails, AppendCallFails, vars, applyVars
<1> HIDE DEF Same, Reset
<1>10. Reset \/ Same \/ ApplierTicker(i)
  BY <1>1, <1>2, <1>3, <1>4, <1>5, <1>6, <1>7, <1>8, <1>9, Zenon DEF Next
<1> QED
  BY <1>10 DEF Same, Reset

\* A commit index falls only when its server restarts.
LEMMA CommitGrows ==
  ASSUME NEW h, NEW g, CleanStep(h, g), NEW i \in Server, ~Restart(i)
  PROVE  commitIndex'[i] >= commitIndex[i]
<1>1. RaftInv /\ TypeOK /\ TypeOK' /\ [Next]_vars
  BY DEF CleanStep, RaftInv
<1>2. commitIndex[i] \in Nat /\ commitIndex'[i] \in Nat
  BY <1>1 DEF TypeOK
<1>3. CASE CommitKept(i)
  BY <1>2, <1>3, SMT DEF CommitKept
<1>4. ASSUME NEW m \in appendEntriesArgs, CommitFollows(i, m)
      PROVE  commitIndex'[i] >= commitIndex[i]
  <2>1. m.leaderCommit \in Nat /\ Len(logs'[i]) \in Nat
    <3>1. m.leaderCommit \in Nat
      BY <1>1 DEF TypeOK, AppendEntriesArgs
    <3>2. logs'[i] \in Seq(Entry)
      BY <1>1 DEF TypeOK
    <3> QED
      BY <3>1, <3>2, LenProperties
  <2>2. commitIndex[i] <= Len(logs'[i])
    BY CommittedStays DEF SameUpTo
  <2>3. /\ m.leaderCommit > commitIndex[i]
        /\ commitIndex'[i] = Min({m.leaderCommit, Len(logs'[i])})
    BY <1>4 DEF CommitFollows
  <2>4. Min({m.leaderCommit, Len(logs'[i])})
          = IF m.leaderCommit <= Len(logs'[i]) THEN m.leaderCommit ELSE Len(logs'[i])
    BY <2>1, MinOfPair
  <2> QED
    BY <1>2, <2>1, <2>2, <2>3, <2>4, SMT
<1>5. ASSUME NEW m \in appendEntriesReply, CommitCounted(i, m)
      PROVE  commitIndex'[i] >= commitIndex[i]
  <2>1. m.upTo > commitIndex[i] /\ commitIndex'[i] = m.upTo
    BY <1>5 DEF CommitCounted
  <2> QED
    BY <1>2, <2>1, SMT
<1> QED
  BY <1>1, <1>3, <1>4, <1>5, CommitSteps

\* What applierTicker hands over.
LEMMA AppliedNow ==
  ASSUME RaftInv, AppliedCommitted, NEW i \in Server, ApplierTicker(i)
  PROVE  /\ lastApplied'[i] = commitIndex[i] /\ Len(applyChan'[i]) = commitIndex[i]
         /\ \A k \in 1 .. commitIndex[i] : applyChan'[i][k] = logs[i][k].command
<1> DEFINE a == lastApplied[i]  c == commitIndex[i]
           more == [k \in 1 .. c - a |-> logs[i][a + k].command]
<1>1. /\ TypeOK /\ applyChan[i] \in Seq(Command) /\ a \in Nat /\ c \in Nat
      /\ c <= Len(logs[i]) /\ Len(logs[i]) \in Nat
  BY CommitType DEF RaftInv, TypeOK
<1>2. /\ a < c /\ a = Len(applyChan[i])
      /\ \A k \in 1 .. a : applyChan[i][k] = logs[i][k].command
  BY DEF ApplierTicker, AppliedCommitted
<1>3. c - a \in Nat
  BY <1>1, <1>2, SMT
<1>4. more \in Seq(Command) /\ Len(more) = c - a
  <2>1. ASSUME NEW k \in 1 .. c - a PROVE logs[i][a + k].command \in Command
    <3>1. a + k \in 1 .. Len(logs[i])
      BY <1>1, <1>3, SMT
    <3>2. logs[i][a + k] \in Entry
      BY <1>1, <3>1, LogType
    <3> QED
      BY <3>2 DEF Entry
  <2>2. more \in [1 .. c - a -> Command]
    BY <2>1
  <2>3. more \in Seq(Command)
    BY <1>3, <2>2, SeqDef
  <2>4. DOMAIN more = 1 .. c - a
    OBVIOUS
  <2> HIDE DEF more
  <2> QED
    BY <1>3, <2>3, <2>4, LenProperties, SMT
<1>5. lastApplied'[i] = c /\ applyChan'[i] = applyChan[i] \o more
  BY <1>1 DEF ApplierTicker, TypeOK
<1>6. \A k \in 1 .. c - a : more[k] = logs[i][a + k].command
  OBVIOUS
<1> HIDE DEF more
<1>7. Len(applyChan'[i]) = c
  <2>1. Len(applyChan[i] \o more) = Len(applyChan[i]) + Len(more)
    BY <1>1, <1>4, ConcatProperties
  <2> QED
    BY <1>1, <1>2, <1>4, <1>5, <2>1, SMT
<1>8. ASSUME NEW k \in 1 .. c PROVE applyChan'[i][k] = logs[i][k].command
  <2>1. (applyChan[i] \o more)[k]
          = IF k <= Len(applyChan[i]) THEN applyChan[i][k] ELSE more[k - Len(applyChan[i])]
    <3>1. k \in 1 .. Len(applyChan[i]) + Len(more)
      BY <1>1, <1>2, <1>4, SMT
    <3> QED
      BY <1>1, <1>4, <3>1, ConcatProperties
  <2>2. CASE k <= a
    <3>1. k \in 1 .. a
      BY <1>1, <2>2, SMT
    <3> QED
      BY <1>2, <1>5, <2>1, <2>2, <3>1
  <2>3. CASE ~(k <= a)
    <3>1. k - a \in 1 .. c - a /\ a + (k - a) = k
      BY <1>1, <2>3, SMT
    <3> QED
      BY <1>2, <1>5, <1>6, <2>1, <2>3, <3>1
  <2> QED
    BY <2>2, <2>3
<1> QED
  BY <1>5, <1>7, <1>8

\* What a server has handed over is what its log says, up to its commit index.
LEMMA AppliedCommittedNext ==
  ASSUME NEW h, NEW g, CleanStep(h, g)
  PROVE  AppliedCommitted'
<1>1. RaftInv /\ RaftInv' /\ TypeOK /\ TypeOK' /\ [Next]_vars /\ AppliedCommitted
  BY DEF CleanStep, RaftInv, Explains
<1> DEFINE Right(i) ==
      /\ lastApplied'[i] = Len(applyChan'[i]) /\ lastApplied'[i] <= commitIndex'[i]
      /\ \A k \in 1 .. Len(applyChan'[i]) : applyChan'[i][k] = logs'[i][k].command
<1>2. ASSUME NEW i \in Server PROVE Right(i)
  <2>1. /\ commitIndex[i] \in Nat /\ commitIndex'[i] \in Nat /\ lastApplied[i] \in Nat
        /\ lastApplied[i] = Len(applyChan[i]) /\ lastApplied[i] <= commitIndex[i]
        /\ \A k \in 1 .. Len(applyChan[i]) : applyChan[i][k] = logs[i][k].command
    BY <1>1 DEF TypeOK, AppliedCommitted
  <2>2. \A k \in 1 .. commitIndex[i] : logs'[i][k] = logs[i][k]
    BY CommittedStays DEF SameUpTo
  <2>3. CASE lastApplied'[i] = 0 /\ applyChan'[i] = <<>>
    <3>1. Len(<<>>) = 0 /\ 1 .. 0 = {}
      BY EmptySeq, SMT
    <3>2. 0 <= commitIndex'[i]
      BY <2>1, SMT
    <3> QED
      BY <2>3, <3>1, <3>2
  <2>4. CASE lastApplied'[i] = lastApplied[i] /\ applyChan'[i] = applyChan[i] /\ ~Restart(i)
    <3>1. commitIndex'[i] >= commitIndex[i]
      BY <2>4, CommitGrows
    <3>2. \A k \in 1 .. Len(applyChan[i]) : k \in 1 .. commitIndex[i]
      BY <2>1, SMT
    <3>3. lastApplied[i] <= commitIndex'[i]
      BY <2>1, <3>1, SMT
    <3> QED
      BY <2>1, <2>2, <2>4, <3>2, <3>3
  <2>5. CASE ApplierTicker(i)
    <3>1. commitIndex' = commitIndex /\ logs' = logs
      BY <2>5 DEF ApplierTicker, logVars
    <3>2. commitIndex[i] <= commitIndex[i]
      BY <2>1, SMT
    <3> QED
      BY <1>1, <2>5, <3>1, <3>2, AppliedNow
  <2>6. CASE Restart(i)
    <3>1. lastApplied'[i] = 0 /\ applyChan'[i] = <<>>
      BY <1>1, <2>6 DEF Restart, TypeOK
    <3> QED
      BY <2>3, <3>1
  <2> HIDE DEF Right
  <2> QED
    BY <1>1, <2>3, <2>4, <2>5, <2>6, AppliedSteps
<1> QED
  BY <1>2 DEF AppliedCommitted

-----------------------------------------------------------------------------
\* The invariant

\* At the start there is nothing to remember.
LEMMA ExplainsInit ==
  ASSUME Init
  PROVE  CommitInv
<1> DEFINE h == [led |-> {}, log |-> [t \in Term |-> <<>>],
                 accepted |-> [j \in Server |-> [t \in Term |-> 0]]]
<1>1. h \in History
  <2>1. <<>> \in Seq(Entry) /\ 0 \in Nat
    BY EmptySeq, SMT
  <2>2. [t \in Term |-> <<>>] \in [Term -> Seq(Entry)]
    BY <2>1
  <2>3. [j \in Server |-> [t \in Term |-> 0]] \in [Server -> [Term -> Nat]]
    BY <2>1
  <2> QED
    BY <2>2, <2>3 DEF History
<1>2. h.led = {} /\ \A t \in Term : h.log[t] = <<>> /\ \A j \in Server : h.accepted[j][t] = 0
  OBVIOUS
<1> HIDE DEF h
<1>3. Len(<<>>) = 0 /\ 1 .. 0 = {}
  BY EmptySeq, SMT
<1>4. LedTerms(h)
  BY <1>2, ZeroTerm DEF LedTerms, Init
<1>5. LeaderLogs(h) /\ TermsAscend(h) /\ AcceptedOnce(h) /\ AcceptedKept(h) /\ LaterLeaders(h)
  BY <1>2 DEF LeaderLogs, TermsAscend, AcceptedOnce, AcceptedKept, LaterLeaders
<1>6. LogsCopied(h)
  BY <1>2, <1>3 DEF LogsCopied, Copied, Init
<1>7. VotesForNewer(h)
  BY <1>2 DEF VotesForNewer
<1>8. CallsOfCandidate(h) /\ CopiesLeader(h) /\ RoundsApart /\ RoundsHonest(h)
  BY DEF Init, CallsOfCandidate, CopiesLeader, RoundsApart, RoundsHonest, AppendCalls
<1>9. CommitsBacked(h)
  <2>1. ~(0 > 0)
    BY SMT
  <2> QED
    BY <2>1 DEF Init, CommitsBacked, Backed
<1>10. AppliedCommitted
  <2>1. 0 <= 0
    BY SMT
  <2> QED
    BY <1>3, <2>1 DEF Init, AppliedCommitted
<1> QED
  BY <1>1, <1>4, <1>5, <1>6, <1>7, <1>8, <1>9, <1>10 DEF CommitInv, Explains

\* CommitInv is inductive.
LEMMA CommitInvNext ==
  ASSUME VotesSurviveRestart, RaftInv, CommitInv, [Next /\ ~KeepsStaleSuffix]_vars
  PROVE  CommitInv'
<1>1. [Next]_vars
  OBVIOUS
<1>2. ~KeepsStaleSuffix
  <2>1. CASE UNCHANGED vars
    BY <2>1, OneAcceptance DEF KeepsStaleSuffix, vars, appendCalls
  <2> QED
    BY <2>1
<1>3. PICK h \in History : Explains(h)
  BY DEF CommitInv
<1>4. PICK g \in History : CleanStep(h, g)
  BY <1>1, <1>2, <1>3, NextHistory
<1>5. Explains(g)'
  <2>1. RoundsApart'
    <3>1. RoundsApart
      BY <1>3 DEF Explains
    <3> QED
      BY <1>1, <3>1, RoundsApartNext
  <2>2. TermsAscend(g)'
    BY <1>4, TermsAscendNext DEF TermsAscend
  <2>3. /\ LedTerms(g)' /\ LeaderLogs(g)' /\ LogsCopied(g)' /\ AcceptedOnce(g)'
        /\ AcceptedKept(g)' /\ VotesForNewer(g)' /\ CallsOfCandidate(g)'
    BY <1>4, LedTermsNext, LeaderLogsNext, LogsCopiedNext, AcceptedOnceNext,
       AcceptedKeptNext, VotesForNewerNext, CallsOfCandidateNext
  <2>4. /\ LaterLeaders(g)' /\ CopiesLeader(g)' /\ RoundsHonest(g)' /\ CommitsBacked(g)'
        /\ AppliedCommitted'
    BY <1>4, LaterLeadersNext, CopiesLeaderNext, RoundsHonestNext, CommitsBackedNext,
       AppliedCommittedNext
  <2> QED
    BY <2>1, <2>2, <2>3, <2>4 DEF Explains
<1> QED
  BY <1>4, <1>5 DEF CommitInv, History, Term, Entry

\* A clean behaviour is a behaviour, and what is invariant of those holds.
LEMMA CleanIsSpec == CleanSpec => Spec
<1>1. [Next /\ ~KeepsStaleSuffix]_vars => [Next]_vars
  OBVIOUS
<1> QED
  BY <1>1, PTL DEF CleanSpec, Spec

\* Whatever crashes, is lost or reordered, as long as restarts keep the disk and
\* no follower keeps a stale suffix, some history of leaders explains the logs,
\* the votes, the calls and the commit indices of all servers: AppendEntries1,
\* RequestVote, the counting of sendAppendEntries and applierTicker are right.
THEOREM CommitInvariant ==
  ASSUME VotesSurviveRestart
  PROVE  CleanSpec => []CommitInv
<1>1. TypeOK /\ ElectionInv /\ LogInv /\ CommitInv /\ [Next /\ ~KeepsStaleSuffix]_vars
        => CommitInv'
  BY CommitInvNext DEF RaftInv
<1>2. Init => CommitInv
  BY ExplainsInit
<1> QED
  BY <1>1, <1>2, CleanIsSpec, TypeCorrect, ElectionInvariant, LogInvariant, PTL
     DEF CleanSpec

\* What two servers have committed agrees.
LEMMA BackedTogether ==
  ASSUME NEW h \in History, LaterLeaders(h), NEW a, NEW b, NEW c \in Nat, NEW d \in Nat,
         NEW u, NEW v, Backed(h, a, c, u), Backed(h, b, d, v),
         NEW k \in Nat, k > 0, k <= c, k <= d
  PROVE  a[k] = b[k]
<1>1. c > 0 /\ d > 0
  BY SMT
<1>2. PICK s \in h.led : \E n \in 1 .. Len(h.log[s]) :
        /\ s <= u /\ c <= n
        /\ Own(h, n, s) /\ ChosenAt(h, n, s) /\ SameUpTo(a, h.log[s], c)
  BY <1>1 DEF Backed
<1>3. PICK n \in 1 .. Len(h.log[s]) :
        /\ c <= n /\ Own(h, n, s) /\ ChosenAt(h, n, s) /\ SameUpTo(a, h.log[s], c)
  BY <1>2
<1>4. PICK t \in h.led : \E m \in 1 .. Len(h.log[t]) :
        /\ t <= v /\ d <= m
        /\ Own(h, m, t) /\ ChosenAt(h, m, t) /\ SameUpTo(b, h.log[t], d)
  BY <1>1 DEF Backed
<1>5. PICK m \in 1 .. Len(h.log[t]) :
        /\ d <= m /\ Own(h, m, t) /\ ChosenAt(h, m, t) /\ SameUpTo(b, h.log[t], d)
  BY <1>4
<1>6. s \in Int /\ t \in Int /\ Len(h.log[s]) \in Nat /\ Len(h.log[t]) \in Nat
  BY HistoryType, TermsAreNumbers
<1>7. k \in 1 .. c /\ k \in 1 .. d /\ k \in 1 .. n /\ k \in 1 .. m
  BY <1>3, <1>5, <1>6, SMT
<1>8. a[k] = h.log[s][k] /\ b[k] = h.log[t][k]
  BY <1>3, <1>5, <1>7 DEF SameUpTo
<1>9. CASE s <= t
  <2>1. SameUpTo(h.log[t], h.log[s], n)
    BY <1>3, <1>9, LeaderHasBacked
  <2> QED
    BY <1>7, <1>8, <2>1 DEF SameUpTo
<1>10. CASE t <= s
  <2>1. SameUpTo(h.log[s], h.log[t], m)
    BY <1>5, <1>10, LeaderHasBacked
  <2> QED
    BY <1>7, <1>8, <2>1 DEF SameUpTo
<1> QED
  BY <1>6, <1>9, <1>10, SMT

CommitsAgree ==
  \A i, j \in Server : \A k \in 1 .. commitIndex[i] :
    k \in 1 .. commitIndex[j] => logs[i][k] = logs[j][k]

\* CommitInv implies that the committed prefixes agree.
LEMMA CommittedTogether ==
  ASSUME RaftInv, CommitInv
  PROVE  CommitsAgree
<1> SUFFICES ASSUME NEW i \in Server, NEW j \in Server, NEW k \in 1 .. commitIndex[i],
                    k \in 1 .. commitIndex[j]
             PROVE  logs[i][k] = logs[j][k]
  BY DEF CommitsAgree
<1>1. PICK h \in History : LaterLeaders(h) /\ CommitsBacked(h)
  BY DEF CommitInv, Explains
<1>2. /\ Backed(h, logs[i], commitIndex[i], currentTerm[i])
      /\ Backed(h, logs[j], commitIndex[j], currentTerm[j])
  BY <1>1 DEF CommitsBacked
<1>3. commitIndex[i] \in Nat /\ commitIndex[j] \in Nat
  BY CommitType
<1>4. k \in Nat /\ k > 0 /\ k <= commitIndex[i] /\ k <= commitIndex[j]
  BY <1>3, SMT
<1> QED
  BY <1>1, <1>2, <1>3, <1>4, BackedTogether

\* The leader of the newest term holds every entry that any server has
\* committed: a majority accepted it, and UpToDate has made one of them refuse
\* its vote to every candidate without it.
LEMMA LeaderIsComplete ==
  ASSUME RaftInv, CommitInv
  PROVE  LeaderCompleteness
<1> SUFFICES ASSUME NEW i \in Server, NEW j \in Server, status[i] = "Leader",
                    currentTerm[i] >= currentTerm[j], NEW k \in 1 .. commitIndex[j]
             PROVE  k <= Len(logs[i]) /\ logs[i][k] = logs[j][k]
  BY DEF LeaderCompleteness
<1> DEFINE u == currentTerm[i]  c == commitIndex[j]
<1>1. PICK h \in History : LaterLeaders(h) /\ CommitsBacked(h) /\ LedTerms(h) /\ LeaderLogs(h)
  BY DEF CommitInv, Explains
<1>2. u \in h.led /\ logs[i] = h.log[u] /\ u \in Int
  BY <1>1, LeaderFacts, TermsAreNumbers DEF LedTerms, LeaderLogs
<1>3. c \in Nat /\ Len(logs[i]) \in Nat /\ currentTerm[j] \in Int
  BY CommitType
<1>4. c > 0 /\ k \in Nat /\ k <= c
  BY <1>3, SMT
<1>5. PICK t \in h.led : \E n \in 1 .. Len(h.log[t]) :
        /\ t <= currentTerm[j] /\ c <= n
        /\ Own(h, n, t) /\ ChosenAt(h, n, t) /\ SameUpTo(logs[j], h.log[t], c)
  BY <1>1, <1>4 DEF CommitsBacked, Backed
<1>6. PICK n \in 1 .. Len(h.log[t]) :
        /\ t <= currentTerm[j] /\ c <= n
        /\ Own(h, n, t) /\ ChosenAt(h, n, t) /\ SameUpTo(logs[j], h.log[t], c)
  BY <1>5
<1>7. t \in Int /\ Len(h.log[t]) \in Nat /\ n \in Int
  <2>1. t \in Int /\ Len(h.log[t]) \in Nat
    BY HistoryType, TermsAreNumbers
  <2> QED
    BY <2>1, SMT
<1>8. t <= u
  BY <1>2, <1>3, <1>6, <1>7, SMT
<1>9. SameUpTo(logs[i], h.log[t], n)
  BY <1>1, <1>2, <1>6, <1>8, LeaderHasBacked
<1>10. k \in 1 .. n /\ k \in 1 .. c /\ k <= n
  BY <1>3, <1>4, <1>6, <1>7, SMT
<1>11. n <= Len(logs[i]) /\ logs[i][k] = h.log[t][k] /\ logs[j][k] = h.log[t][k]
  BY <1>6, <1>9, <1>10 DEF SameUpTo
<1> QED
  BY <1>3, <1>7, <1>10, <1>11, SMT

\* What was handed over was committed first, so it agrees too.
LEMMA MachinesAgree ==
  ASSUME RaftInv, CommitInv
  PROVE  StateMachineSafety
<1> SUFFICES ASSUME NEW i \in Server, NEW j \in Server,
                    NEW k \in DOMAIN applyChan[i] \cap DOMAIN applyChan[j]
             PROVE  applyChan[i][k] = applyChan[j][k]
  BY DEF StateMachineSafety
<1>1. AppliedCommitted
  BY DEF CommitInv, Explains
<1>2. ASSUME NEW l \in Server, k \in DOMAIN applyChan[l]
      PROVE  k \in 1 .. commitIndex[l] /\ applyChan[l][k] = logs[l][k].command
  <2>1. applyChan[l] \in Seq(Command) /\ commitIndex[l] \in Nat
    BY DEF RaftInv, TypeOK
  <2>2. DOMAIN applyChan[l] = 1 .. Len(applyChan[l]) /\ Len(applyChan[l]) \in Nat
    BY <2>1, LenProperties
  <2>3. Len(applyChan[l]) <= commitIndex[l] /\ applyChan[l][k] = logs[l][k].command
    BY <1>1, <1>2, <2>2 DEF AppliedCommitted
  <2> QED
    BY <1>2, <2>1, <2>2, <2>3, SMT
<1> QED
  BY <1>2, CommittedTogether DEF CommitsAgree

\* In every clean behaviour the leader of the newest term has every committed
\* entry.
THEOREM LeadersAreComplete ==
  ASSUME VotesSurviveRestart
  PROVE  CleanSpec => []LeaderCompleteness
<1>1. TypeOK /\ ElectionInv /\ LogInv /\ CommitInv => LeaderCompleteness
  BY LeaderIsComplete DEF RaftInv
<1> QED
  BY <1>1, CleanIsSpec, TypeCorrect, ElectionInvariant, LogInvariant, CommitInvariant, PTL

\* No two servers hand their services different commands at the same index.
THEOREM StateMachinesAgree ==
  ASSUME VotesSurviveRestart
  PROVE  CleanSpec => []StateMachineSafety
<1>1. TypeOK /\ ElectionInv /\ LogInv /\ CommitInv => StateMachineSafety
  BY MachinesAgree DEF RaftInv
<1> QED
  BY <1>1, CleanIsSpec, TypeCorrect, ElectionInvariant, LogInvariant, CommitInvariant, PTL

\* A server never rewrites what it has committed, whatever a leader sends it.
LEMMA CommittedKept ==
  ASSUME VotesSurviveRestart, RaftInv, CommitInv, [Next]_vars, ~KeepsStaleSuffix
  PROVE  \A i \in Server : SameUpTo(logs'[i], logs[i], commitIndex[i])
<1>1. PICK h \in History : Explains(h)
  BY DEF CommitInv
<1>2. PICK g \in History : CleanStep(h, g)
  BY <1>1, NextHistory
<1> QED
  BY <1>2, CommittedStays

\* The committed prefix of a server's log stays as it is while the server runs.
THEOREM CommittedNeverChanges ==
  ASSUME VotesSurviveRestart
  PROVE  CleanSpec => CommittedIsFinal
<1> DEFINE Kept == \A i \in Server : boot'[i] = boot[i] =>
                     \A k \in 1 .. commitIndex[i] : logs'[i][k] = logs[i][k]
<1>1. TypeOK /\ ElectionInv /\ LogInv /\ CommitInv /\ [Next /\ ~KeepsStaleSuffix]_vars
        => [Kept]_logs
  <2> SUFFICES ASSUME RaftInv, CommitInv, Next, ~KeepsStaleSuffix PROVE Kept
    BY DEF RaftInv, vars, logVars
  <2>1. \A i \in Server : SameUpTo(logs'[i], logs[i], commitIndex[i])
    BY CommittedKept
  <2> QED
    BY <2>1 DEF SameUpTo
<1> HIDE DEF Kept
<1>2. CleanSpec => [][Kept]_logs
  BY <1>1, CleanIsSpec, TypeCorrect, ElectionInvariant, LogInvariant, CommitInvariant, PTL
     DEF CleanSpec
<1> QED
  BY <1>2 DEF CommittedIsFinal, Kept

-----------------------------------------------------------------------------
\* ReplicatedLog

\* The CHOOSE of Chosen finds a server.
LEMMA SomeoneHasMost ==
  ASSUME NEW c \in [Server -> Nat]
  PROVE  \E i \in Server : \A j \in Server : c[j] <= c[i]
<1> DEFINE S == {c[i] : i \in Server}
<1>1. S \in SUBSET Nat /\ S # {}
  BY ServerAssumption
<1>2. IsFiniteSet(S)
  <2>1. c \in Surjection(Server, S)
    BY DEF Surjection
  <2> QED
    BY <2>1, ServerAssumption, FS_Surjection
<1>3. Max(S) \in S /\ \A y \in S : Max(S) >= y
  BY <1>1, <1>2, MaxOfFiniteSet
<1>4. PICK i \in Server : c[i] = Max(S)
  BY <1>3
<1>5. ASSUME NEW j \in Server PROVE c[j] <= c[i]
  BY <1>3, <1>4, SMT
<1> QED
  BY <1>5

\* A sequence that agrees with a longer one is its prefix.
LEMMA PrefixByElements ==
  ASSUME NEW X, NEW s \in Seq(X), NEW t \in Seq(X), Len(s) <= Len(t),
         \A k \in 1 .. Len(s) : s[k] = t[k]
  PROVE  RL!IsPrefix(s, t)
<1>1. Len(s) \in Nat /\ Len(t) \in Nat
  BY LenProperties
<1> DEFINE n == Len(s)
<1>2. \A k \in 1 .. n : s[k] \in X /\ t[k] \in X
  <2>1. \A k \in 1 .. n : s[k] \in X
    BY ElementOfSeq
  <2> QED
    BY <2>1
<1>3. n - 1 + 1 = n /\ n \in Int /\ 1 \in Int /\ (IF 1 <= n THEN n - 1 + 1 ELSE 0) = n
      /\ \A k \in 1 .. n : 1 + k - 1 = k
  BY <1>1, SMT
<1>4. /\ SubSeq(s, 1, n) \in Seq(X) /\ Len(SubSeq(s, 1, n)) = n
      /\ \A k \in 1 .. n : SubSeq(s, 1, n)[k] = s[k]
  BY <1>2, <1>3, SubSeqProperties
<1>5. /\ SubSeq(t, 1, n) \in Seq(X) /\ Len(SubSeq(t, 1, n)) = n
      /\ \A k \in 1 .. n : SubSeq(t, 1, n)[k] = t[k]
  BY <1>2, <1>3, SubSeqProperties
<1>6. SubSeq(s, 1, n) = SubSeq(t, 1, n)
  BY <1>4, <1>5, SeqEqual
<1> QED
  BY <1>6 DEF RL!IsPrefix

\* The commands in a log up to an index.
CommandsUpTo(log, c) == [k \in 1 .. c |-> log[k].command]

\* They are a sequence of commands.
LEMMA CommandsType ==
  ASSUME NEW log \in Seq(Entry), NEW c \in Nat, c <= Len(log)
  PROVE  /\ CommandsUpTo(log, c) \in Seq(Command) /\ Len(CommandsUpTo(log, c)) = c
         /\ \A k \in 1 .. c : CommandsUpTo(log, c)[k] = log[k].command
<1>1. Len(log) \in Nat
  BY LenProperties
<1>2. ASSUME NEW k \in 1 .. c PROVE log[k].command \in Command
  <2>1. k \in 1 .. Len(log)
    BY <1>1, SMT
  <2>2. log[k] \in Entry
    BY <2>1, ElementOfSeq
  <2> QED
    BY <2>2 DEF Entry
<1>3. CommandsUpTo(log, c) \in [1 .. c -> Command]
  BY <1>2 DEF CommandsUpTo
<1>4. CommandsUpTo(log, c) \in Seq(Command)
  BY <1>3, SeqDef
<1>5. DOMAIN CommandsUpTo(log, c) = 1 .. c /\ Len(CommandsUpTo(log, c)) \in Nat
      /\ DOMAIN CommandsUpTo(log, c) = 1 .. Len(CommandsUpTo(log, c))
  BY <1>3, <1>4, LenProperties
<1>6. Len(CommandsUpTo(log, c)) = c
  BY <1>5, SMT
<1> QED
  BY <1>4, <1>6 DEF CommandsUpTo

\* Chosen is what the server with the largest commit index has committed.
LEMMA ChosenIs ==
  ASSUME RaftInv
  PROVE  \E i \in Server : /\ \A j \in Server : commitIndex[j] <= commitIndex[i]
                           /\ Chosen = CommandsUpTo(logs[i], commitIndex[i])
<1>1. commitIndex \in [Server -> Nat]
  BY DEF RaftInv, TypeOK
<1>2. \E i \in Server : \A j \in Server : commitIndex[j] <= commitIndex[i]
  BY <1>1, SomeoneHasMost
<1> QED
  BY <1>2, Zenon DEF Chosen, CommandsUpTo

\* The same after a step.
LEMMA ChosenIsNext ==
  ASSUME RaftInv'
  PROVE  \E i \in Server : /\ \A j \in Server : commitIndex'[j] <= commitIndex'[i]
                           /\ Chosen' = CommandsUpTo(logs'[i], commitIndex'[i])
<1>1. commitIndex' \in [Server -> Nat]
  BY DEF RaftInv, TypeOK
<1>2. \E i \in Server : \A j \in Server : commitIndex'[j] <= commitIndex'[i]
  BY <1>1, SomeoneHasMost
<1> QED
  BY <1>2, Zenon DEF Chosen, CommandsUpTo

\* Every server agrees with Chosen as far as it has committed anything.
LEMMA ChosenCovers ==
  ASSUME RaftInv, CommitInv
  PROVE  /\ Chosen \in Seq(Command) /\ Len(Chosen) \in Nat
         /\ \A j \in Server : commitIndex[j] <= Len(Chosen)
         /\ \A j \in Server : \A k \in 1 .. commitIndex[j] : Chosen[k] = logs[j][k].command
<1>1. PICK i \in Server : /\ \A j \in Server : commitIndex[j] <= commitIndex[i]
                          /\ Chosen = CommandsUpTo(logs[i], commitIndex[i])
  BY ChosenIs
<1>2. \A j \in Server : commitIndex[j] \in Nat /\ commitIndex[j] <= Len(logs[j])
  BY CommitType
<1>3. logs[i] \in Seq(Entry)
  BY DEF RaftInv, TypeOK
<1>4. /\ Chosen \in Seq(Command) /\ Len(Chosen) = commitIndex[i]
      /\ \A k \in 1 .. commitIndex[i] : Chosen[k] = logs[i][k].command
  BY <1>1, <1>2, <1>3, CommandsType
<1>5. ASSUME NEW j \in Server, NEW k \in 1 .. commitIndex[j]
      PROVE  Chosen[k] = logs[j][k].command
  <2>1. commitIndex[j] <= commitIndex[i]
    BY <1>1
  <2>2. k \in 1 .. commitIndex[i]
    BY <1>2, <2>1, SMT
  <2> QED
    BY <1>4, <2>2, CommittedTogether DEF CommitsAgree
<1> QED
  BY <1>1, <1>2, <1>4, <1>5

\* What a server has handed over is the start of Chosen.
LEMMA AppliedIsChosen ==
  ASSUME RaftInv, CommitInv, NEW i \in Server
  PROVE  /\ Len(applyChan[i]) = lastApplied[i] /\ lastApplied[i] <= Len(Chosen)
         /\ \A k \in 1 .. lastApplied[i] : applyChan[i][k] = Chosen[k]
<1>1. /\ lastApplied[i] = Len(applyChan[i]) /\ lastApplied[i] <= commitIndex[i]
      /\ \A k \in 1 .. Len(applyChan[i]) : applyChan[i][k] = logs[i][k].command
  BY DEF CommitInv, Explains, AppliedCommitted
<1>2. /\ commitIndex[i] <= Len(Chosen) /\ Len(Chosen) \in Nat
      /\ \A k \in 1 .. commitIndex[i] : Chosen[k] = logs[i][k].command
  BY ChosenCovers
<1>3. commitIndex[i] \in Nat /\ lastApplied[i] \in Nat
  BY DEF RaftInv, TypeOK
<1>4. \A k \in 1 .. lastApplied[i] : k \in 1 .. commitIndex[i]
  BY <1>1, <1>3, SMT
<1>5. lastApplied[i] <= Len(Chosen)
  BY <1>1, <1>2, <1>3, SMT
<1> QED
  BY <1>1, <1>2, <1>4, <1>5

\* applierTicker is a Deliver.
LEMMA ApplierDelivers ==
  ASSUME RaftInv, RaftInv', CommitInv, NEW i \in Server, ApplierTicker(i)
  PROVE  RL!Deliver(i)
<1>1. /\ commitIndex' = commitIndex /\ logs' = logs /\ TypeOK /\ TypeOK'
      /\ \A j \in Server \ {i} : applyChan'[j] = applyChan[j]
      /\ DOMAIN applyChan' = Server
      /\ applyChan[i] \in Seq(Command) /\ applyChan'[i] \in Seq(Command)
      /\ lastApplied[i] < commitIndex[i]
      /\ lastApplied[i] \in Nat /\ commitIndex[i] \in Nat
  BY DEF RaftInv, TypeOK, ApplierTicker, logVars
<1>2. Chosen' = Chosen
  BY <1>1 DEF Chosen
<1>3. /\ Chosen \in Seq(Command) /\ Len(Chosen) \in Nat /\ commitIndex[i] <= Len(Chosen)
      /\ \A k \in 1 .. commitIndex[i] : Chosen[k] = logs[i][k].command
  BY ChosenCovers
<1>4. /\ Len(applyChan[i]) = lastApplied[i]
      /\ \A k \in 1 .. lastApplied[i] : applyChan[i][k] = Chosen[k]
  BY AppliedIsChosen
<1>5. /\ Len(applyChan'[i]) = commitIndex[i]
      /\ \A k \in 1 .. commitIndex[i] : applyChan'[i][k] = Chosen[k]
  <2>1. AppliedCommitted
    BY DEF CommitInv, Explains
  <2> QED
    BY <1>3, <2>1, AppliedNow
<1>6. RL!IsPrefix(applyChan[i], applyChan'[i])
  <2>1. \A k \in 1 .. lastApplied[i] : k \in 1 .. commitIndex[i]
    BY <1>1, SMT
  <2>2. lastApplied[i] <= commitIndex[i]
    BY <1>1, SMT
  <2> QED
    BY <1>1, <1>4, <1>5, <2>1, <2>2, PrefixByElements
<1>7. applyChan'[i] # applyChan[i]
  BY <1>1, <1>4, <1>5, SMT
<1>8. RL!IsPrefix(applyChan'[i], Chosen)
  BY <1>1, <1>3, <1>5, PrefixByElements
<1> QED
  BY <1>1, <1>2, <1>6, <1>7, <1>8 DEF RL!Deliver, RL!IsStrictPrefix

\* Every other step leaves what is chosen alone or adds to it.
LEMMA ChosenGrows ==
  ASSUME NEW h, NEW g, CleanStep(h, g), CommitsAgree',
         \A i \in Server : ~Restart(i)
  PROVE  RL!IsPrefix(Chosen, Chosen')
<1>1. RaftInv /\ RaftInv'
  BY DEF CleanStep
<1>2. PICK i \in Server : /\ \A j \in Server : commitIndex[j] <= commitIndex[i]
                          /\ Chosen = CommandsUpTo(logs[i], commitIndex[i])
  BY <1>1, ChosenIs
<1>3. PICK n \in Server : /\ \A j \in Server : commitIndex'[j] <= commitIndex'[n]
                          /\ Chosen' = CommandsUpTo(logs'[n], commitIndex'[n])
  BY <1>1, ChosenIsNext
<1>4. /\ logs[i] \in Seq(Entry) /\ logs'[n] \in Seq(Entry) /\ logs'[i] \in Seq(Entry)
      /\ commitIndex[i] \in Nat /\ commitIndex'[n] \in Nat /\ commitIndex'[i] \in Nat
  BY <1>1 DEF RaftInv, TypeOK
<1>5. commitIndex[i] <= Len(logs[i]) /\ commitIndex'[n] <= Len(logs'[n])
  BY <1>1 DEF RaftInv, LogInv, CommitInLog
<1>6. /\ Chosen \in Seq(Command) /\ Len(Chosen) = commitIndex[i]
      /\ \A k \in 1 .. commitIndex[i] : Chosen[k] = logs[i][k].command
  BY <1>2, <1>4, <1>5, CommandsType
<1>7. /\ Chosen' \in Seq(Command) /\ Len(Chosen') = commitIndex'[n]
      /\ \A k \in 1 .. commitIndex'[n] : Chosen'[k] = logs'[n][k].command
  BY <1>3, <1>4, <1>5, CommandsType
<1>8. commitIndex'[i] >= commitIndex[i] /\ commitIndex'[i] <= commitIndex'[n]
  BY <1>3, CommitGrows
<1>9. ASSUME NEW k \in 1 .. commitIndex[i] PROVE Chosen[k] = Chosen'[k]
  <2>1. k \in 1 .. commitIndex'[i] /\ k \in 1 .. commitIndex'[n]
    BY <1>4, <1>8, SMT
  <2>2. logs'[i][k] = logs[i][k]
    BY CommittedStays DEF SameUpTo
  <2>3. logs'[n][k] = logs'[i][k]
    BY <2>1 DEF CommitsAgree
  <2> QED
    BY <1>6, <1>7, <2>1, <2>2, <2>3
<1>10. Len(Chosen) <= Len(Chosen')
  BY <1>4, <1>6, <1>7, <1>8, SMT
<1> QED
  BY <1>6, <1>7, <1>9, <1>10, PrefixByElements

\* Every clean step is one of ReplicatedLog or changes nothing it sees.
LEMMA LogStep ==
  ASSUME VotesSurviveRestart, MaxBoots = 0, RaftInv, CommitInv, CommitsAgree',
         [Next]_vars, ~KeepsStaleSuffix
  PROVE  [RL!Choose \/ \E i \in Server : RL!Deliver(i)]_<<Chosen, applyChan>>
<1>1. PICK h \in History : Explains(h)
  BY DEF CommitInv
<1>2. PICK g \in History : CleanStep(h, g)
  BY <1>1, NextHistory
<1>3. RaftInv' /\ TypeOK /\ TypeOK'
  BY <1>2 DEF CleanStep, RaftInv
<1>4. \A i \in Server : ~Restart(i)
  <2> SUFFICES ASSUME NEW i \in Server, boot[i] < MaxBoots PROVE FALSE
    BY DEF Restart
  <2>1. boot[i] \in Nat
    BY <1>3 DEF TypeOK
  <2> QED
    BY <2>1, SMT
<1>5. ASSUME NEW i \in Server, ApplierTicker(i) PROVE RL!Deliver(i)
  BY <1>3, <1>5, ApplierDelivers
<1>6. CASE \A i \in Server : ~ApplierTicker(i)
  <2>1. applyChan' = applyChan
    <3>1. \A i \in Server : applyChan'[i] = applyChan[i]
      BY <1>3, <1>4, <1>6, AppliedSteps
    <3>2. applyChan \in [Server -> Seq(Command)] /\ applyChan' \in [Server -> Seq(Command)]
      BY <1>3 DEF TypeOK
    <3> QED
      BY <3>1, <3>2
  <2>2. RL!IsPrefix(Chosen, Chosen')
    BY <1>2, <1>4, ChosenGrows
  <2> QED
    BY <2>1, <2>2 DEF RL!Choose, RL!IsStrictPrefix
<1> QED
  BY <1>5, <1>6

\* Raft starts where ReplicatedLog starts.
LEMMA LogStart ==
  ASSUME Init
  PROVE  RL!LogInit
<1>1. commitIndex = [i \in Server |-> 0] /\ applyChan = [i \in Server |-> <<>>]
  BY DEF Init
<1>2. \E i \in Server : \A j \in Server : commitIndex[j] <= commitIndex[i]
  <2>1. 0 <= 0
    BY SMT
  <2> QED
    BY <1>1, <2>1, ServerAssumption
<1>3. PICK i \in Server : Chosen = [k \in 1 .. commitIndex[i] |-> logs[i][k].command]
  BY <1>2, Zenon DEF Chosen
<1>4. 1 .. 0 = {}
  BY SMT
<1>5. Chosen = <<>>
  BY <1>1, <1>3, <1>4
<1> QED
  BY <1>1, <1>5 DEF RL!LogInit

\* Raft implements ReplicatedLog as long as no server restarts and no follower
\* keeps a stale suffix: what the servers have committed is one sequence, which
\* only grows, and each of them hands over more and more of it.
THEOREM RaftImplementsReplicatedLog ==
  ASSUME MaxBoots = 0
  PROVE  CleanSpec => ImplementsReplicatedLog
<1>0. VotesSurviveRestart
  BY DEF VotesSurviveRestart
<1> DEFINE Step == RL!Choose \/ \E i \in Server : RL!Deliver(i)
<1>1. TypeOK /\ ElectionInv /\ LogInv /\ CommitInv => CommitsAgree
  BY CommittedTogether DEF RaftInv
<1>2. TypeOK /\ ElectionInv /\ LogInv /\ CommitInv /\ CommitsAgree' /\
      [Next /\ ~KeepsStaleSuffix]_vars
        => [Step]_<<Chosen, applyChan>>
  <2> SUFFICES ASSUME RaftInv, CommitInv, CommitsAgree', [Next /\ ~KeepsStaleSuffix]_vars
               PROVE  [Step]_<<Chosen, applyChan>>
    BY DEF RaftInv
  <2>1. CASE Next /\ ~KeepsStaleSuffix
    BY <1>0, <2>1, LogStep
  <2>2. CASE UNCHANGED vars
    BY <2>2 DEF vars, logVars, applyVars, Chosen
  <2> QED
    BY <2>1, <2>2
<1>3. Init => RL!LogInit
  BY LogStart
<1> HIDE DEF Step
<1>4. CleanSpec => RL!LogInit /\ [][Step]_<<Chosen, applyChan>>
  BY <1>0, <1>1, <1>2, <1>3, CleanIsSpec, TypeCorrect, ElectionInvariant, LogInvariant,
     CommitInvariant, PTL DEF CleanSpec
<1> QED
  BY <1>4 DEF ImplementsReplicatedLog, RL!LogSpec, Step

-----------------------------------------------------------------------------
\* What m_matchIndex puts on a majority

\* Only a restart begins a new life.
LEMMA BootSteps ==
  ASSUME TypeOK, [Next]_vars, NEW i \in Server
  PROVE  boot'[i] = boot[i] \/ Restart(i)
<1>1. CASE UNCHANGED vars
  BY <1>1 DEF vars
<1>2. ASSUME NEW j \in Server, DoElection(j) \/ DoHeartBeat(j) \/ ApplierTicker(j)
      PROVE  boot' = boot
  BY <1>2 DEF DoElection, DoHeartBeat, ApplierTicker
<1>3. ASSUME NEW j \in Server, Restart(j) PROVE boot'[i] = boot[i] \/ Restart(i)
  BY <1>3 DEF Restart, TypeOK
<1>4. ASSUME NEW j \in Server, NEW command \in Command, StartConses(j, command)
      PROVE  boot' = boot
  BY <1>4 DEF StartConses
<1>5. ASSUME NEW m \in requestVoteArgs, HandleRequestVote(m) PROVE boot' = boot
  BY <1>5 DEF HandleRequestVote, RefuseExpiredVote, RequestVote
<1>6. ASSUME NEW m \in requestVoteReply, HandleVoteReply(m) PROVE boot' = boot
  BY <1>6 DEF HandleVoteReply, VoteReplyNewerTerm, VoteReplyCounted, BecomeLeader,
              VoteReplyArrives
<1>7. ASSUME NEW m \in appendEntriesArgs, HandleAppendEntries(m) PROVE boot' = boot
  BY <1>7 DEF HandleAppendEntries, RefuseExpiredEntries, RefuseGap, RefuseMismatch,
              AcceptEntries, AnswerAppend
<1>8. ASSUME NEW m \in appendEntriesReply, HandleAppendReply(m) PROVE boot' = boot
  BY <1>8 DEF HandleAppendReply, AppendReplyNewerTerm, AppendReplyStale, AppendReplyFailure,
              AppendReplySuccess, AppendReplyInTerm, AppendReplyArrives
<1>9. CASE VoteCallFails \/ AppendCallFails
  BY <1>9 DEF VoteCallFails, AppendCallFails
<1> QED
  BY <1>1, <1>2, <1>3, <1>4, <1>5, <1>6, <1>7, <1>8, <1>9 DEF Next

\* A leader gives up its office only with its life or its term: a second leader of
\* the term, whose entries would make it a follower, there is not.
LEMMA LeaderRemains ==
  ASSUME VotesSurviveRestart, RaftInv, [Next]_vars, NEW i \in Server,
         status[i] = "Leader", currentTerm'[i] = currentTerm[i], boot'[i] = boot[i]
  PROVE  status'[i] = "Leader"
<1> SUFFICES ASSUME status'[i] # "Leader" PROVE FALSE
  OBVIOUS
<1> DEFINE t == currentTerm[i]
<1>0. /\ TypeOK /\ t \in Int /\ boot[i] \in Int
      /\ status \in [Server -> {"Follower", "Candidate", "Leader"}]
      /\ currentTerm \in [Server -> Term]
  <2>1. TypeOK
    BY DEF RaftInv
  <2>2. /\ status \in [Server -> {"Follower", "Candidate", "Leader"}]
        /\ currentTerm \in [Server -> Term] /\ boot[i] \in Nat
    BY <2>1 DEF TypeOK
  <2>3. t \in Int
    BY <2>1, TermsOfServers
  <2>4. boot[i] \in Int
    BY <2>2, SMT
  <2> QED
    BY <2>1, <2>2, <2>3, <2>4
<1>1. CASE status' = status
  BY <1>1
<1>2. ASSUME NEW j \in Server, DoElection(j) PROVE FALSE
  BY <1>0, <1>2 DEF DoElection
<1>3. ASSUME NEW j \in Server, Restart(j) PROVE FALSE
  <2>1. CASE j = i
    <3>1. boot'[i] = boot[i] + 1
      BY <1>3, <2>1 DEF Restart, RaftInv, TypeOK
    <3> QED
      BY <1>0, <3>1, SMT
  <2>2. CASE j # i
    BY <1>0, <1>3, <2>2 DEF Restart
  <2> QED
    BY <2>1, <2>2
<1>4. ASSUME NEW m \in requestVoteArgs, RequestVote(m) PROVE FALSE
  <2>1. m.callee = i /\ m.term > currentTerm[i]
    BY <1>0, <1>4 DEF RequestVote
  <2>2. currentTerm'[i] = m.term /\ m.term \in Term
    BY <1>0, <1>4, <2>1 DEF RequestVote, TypeOK, RequestVoteArgs
  <2>3. m.term \in Int
    BY <2>2, TermsAreNumbers
  <2> QED
    BY <1>0, <2>1, <2>2, <2>3, SMT
<1>5. ASSUME NEW c \in Server, NEW term \in Term, StepDown(c, term), term > currentTerm[c]
      PROVE  FALSE
  <2>1. c = i
    BY <1>0, <1>5 DEF StepDown
  <2>2. currentTerm'[i] = term /\ term > t
    BY <1>0, <1>5, <2>1 DEF StepDown
  <2>3. term \in Int
    BY TermsAreNumbers
  <2> QED
    BY <1>0, <2>2, <2>3, SMT
<1>6. ASSUME NEW m \in appendEntriesArgs, FollowLeader(m) PROVE FALSE
  <2>1. m.callee = i
    BY <1>0, <1>6 DEF FollowLeader
  <2>2. m.term = t
    BY <1>0, <1>6, <2>1 DEF FollowLeader
  <2>3. m.caller # m.callee /\ Elected(m.caller, m.term)
    BY DEF RaftInv, LogInv, AppendCallsGenuine, RequestIsGenuine
  <2>4. Elected(i, t)
    BY LeaderFacts
  <2> QED
    BY <2>1, <2>2, <2>3, <2>4, OneElected
<1>7. ASSUME NEW m \in requestVoteReply, HandleVoteReply(m) PROVE FALSE
  <2>1. m.caller \in Server /\ m.term \in Term
    BY <1>0 DEF TypeOK, RequestVoteReply
  <2>2. CASE VoteReplyNewerTerm(m)
    BY <1>5, <2>1, <2>2 DEF VoteReplyNewerTerm
  <2>3. CASE VoteReplyCounted(m)
    BY <1>1, <2>3 DEF VoteReplyCounted
  <2>4. CASE BecomeLeader(m)
    BY <1>0, <2>1, <2>4 DEF BecomeLeader
  <2> QED
    BY <1>7, <2>2, <2>3, <2>4 DEF HandleVoteReply
<1>8. ASSUME NEW m \in appendEntriesArgs, HandleAppendEntries(m) PROVE FALSE
  <2>1. CASE RefuseExpiredEntries(m)
    BY <1>1, <2>1 DEF RefuseExpiredEntries
  <2> QED
    BY <1>6, <1>8, <2>1 DEF HandleAppendEntries, RefuseGap, RefuseMismatch, AcceptEntries
<1>9. ASSUME NEW m \in appendEntriesReply, HandleAppendReply(m) PROVE FALSE
  <2>1. m.caller \in Server /\ m.term \in Term
    BY <1>0 DEF TypeOK, AppendEntriesReply
  <2>2. CASE AppendReplyNewerTerm(m)
    BY <1>5, <2>1, <2>2 DEF AppendReplyNewerTerm
  <2>3. CASE AppendReplyStale(m) \/ AppendReplyFailure(m) \/ AppendReplySuccess(m)
    BY <1>1, <2>3 DEF AppendReplyStale, AppendReplyFailure, AppendReplySuccess,
                      AppendReplyInTerm
  <2> QED
    BY <1>9, <2>2, <2>3 DEF HandleAppendReply
<1>10. ASSUME NEW j \in Server, DoHeartBeat(j) \/ ApplierTicker(j) PROVE FALSE
  BY <1>1, <1>10 DEF DoHeartBeat, ApplierTicker, electionVars
<1>11. ASSUME NEW j \in Server, NEW command \in Command, StartConses(j, command) PROVE FALSE
  BY <1>1, <1>11 DEF StartConses, electionVars
<1>12. ASSUME NEW m \in requestVoteArgs, HandleRequestVote(m) PROVE FALSE
  <2>1. CASE RefuseExpiredVote(m)
    BY <1>1, <2>1 DEF RefuseExpiredVote, electionVars
  <2> QED
    BY <1>4, <1>12, <2>1 DEF HandleRequestVote
<1>13. CASE VoteCallFails \/ AppendCallFails
  BY <1>1, <1>13 DEF VoteCallFails, AppendCallFails, electionVars
<1>14. CASE UNCHANGED vars
  BY <1>1, <1>14 DEF vars, electionVars
<1> QED
  BY <1>2, <1>3, <1>7, <1>8, <1>9, <1>10, <1>11, <1>12, <1>13, <1>14 DEF Next

\* As long as a leader leads, its commit index does not fall.
LEMMA LeaderCommitGrows ==
  ASSUME TypeOK, [Next]_vars, NEW i \in Server, status'[i] = "Leader"
  PROVE  /\ commitIndex[i] \in Int /\ commitIndex'[i] \in Int
         /\ commitIndex'[i] >= commitIndex[i]
<1>1. commitIndex[i] \in Int /\ commitIndex'[i] \in Int
  <2>1. commitIndex[i] \in Nat /\ commitIndex'[i] \in Nat
    BY TypeNext DEF TypeOK
  <2> QED
    BY <2>1, SMT
<1>2. CASE Restart(i)
  BY <1>2 DEF Restart, TypeOK
<1>3. CASE CommitKept(i)
  BY <1>1, <1>3, SMT DEF CommitKept
<1>4. ASSUME NEW m \in appendEntriesArgs, CommitFollows(i, m) PROVE FALSE
  BY <1>4 DEF CommitFollows, AcceptEntries, FollowLeader, TypeOK
<1>5. ASSUME NEW m \in appendEntriesReply, CommitCounted(i, m)
      PROVE  commitIndex'[i] >= commitIndex[i]
  <2>1. m.upTo \in Nat
    BY DEF TypeOK, AppendEntriesReply
  <2> QED
    BY <1>1, <1>5, <2>1, SMT DEF CommitCounted
<1> QED
  BY <1>1, <1>2, <1>3, <1>4, <1>5, CommitSteps

\* What is settled stays settled while the leader leads.
LEMMA SettledStays ==
  ASSUME VotesSurviveRestart, RaftInv, [Next]_vars, NEW i \in Server, NEW n \in Int,
         status[i] = "Leader", status'[i] = "Leader", currentTerm'[i] = currentTerm[i],
         Settled(i, n)
  PROVE  Settled(i, n)'
<1>1. Elected(i, currentTerm[i]) /\ currentTerm[i] \in Term /\ InTerm(i, currentTerm[i])'
  BY LeaderFacts DEF InTerm
<1>2. /\ Len(logs[i]) \in Nat /\ Len(logs'[i]) \in Nat /\ Len(logs[i]) <= Len(logs'[i])
      /\ \A k \in 1 .. Len(logs[i]) : logs'[i][k] = logs[i][k]
  BY <1>1, LeaderLogGrows
<1>3. /\ commitIndex[i] \in Int /\ commitIndex'[i] \in Int
      /\ commitIndex'[i] >= commitIndex[i]
  BY LeaderCommitGrows DEF RaftInv
<1>4. n <= Len(logs[i])
  BY DEF Settled
<1>5. n <= Len(logs'[i])
  BY <1>2, <1>4, SMT
<1>6. ASSUME NEW k \in 1 .. n, logs'[i][k].term = currentTerm[i]
      PROVE  commitIndex'[i] >= k
  <2>1. k \in 1 .. Len(logs[i]) /\ k \in Int
    BY <1>2, <1>4, SMT
  <2>2. commitIndex[i] >= k
    BY <1>2, <1>6, <2>1 DEF Settled
  <2> QED
    BY <1>3, <2>1, <2>2, SMT
<1> QED
  BY <1>5, <1>6 DEF Settled

\* In a log with no entries of the term, or none up to n, everything is settled.
LEMMA NothingToSettle ==
  ASSUME NEW i, NEW n, n <= Len(logs[i]),
         \A k \in 1 .. n : logs[i][k].term # currentTerm[i]
  PROVE  Settled(i, n)
BY DEF Settled

-----------------------------------------------------------------------------
\* Whoever becomes leader has written nothing in its term.

LEMMA WritesLaterNext ==
  ASSUME VotesSurviveRestart, RaftInv, [Next]_vars, WritesLater
  PROVE  WritesLater'
<1>1. /\ TypeOK /\ TypeOK' /\ VotesRemembered /\ VoteCallsGenuine
      /\ EntryHasLeader /\ LeaderHasEntry
  BY TypeNext DEF RaftInv, ElectionInv, LogInv
<1> SUFFICES ASSUME NEW i \in Server, NEW t \in Term, t = currentTerm'[i],
                    status'[i] # "Leader", Elected(i, t)', Awaited(i)' # {},
                    NEW k \in 1 .. Len(logs'[i]), logs'[i][k].term = t
             PROVE  FALSE
  <2>1. \A i \in Server : currentTerm'[i] \in Term
    BY <1>1 DEF TypeOK
  <2> QED
    BY <2>1 DEF WritesLater, Elected, Voters, Majority
<1> DEFINE p == [index |-> k, entry |-> logs'[i][k]]
<1>2. t \in Term /\ Elected(i, t)'
  OBVIOUS
<1>3. p \in Placed' /\ p.index = k /\ p.entry = logs'[i][k] /\ p.entry.term = t
  <2>1. p \in InLog(i)'
    BY DEF InLog
  <2> QED
    BY <2>1 DEF Placed
<1>4. p \in Placed
  <2> SUFFICES ASSUME p \notin Placed PROVE FALSE
    OBVIOUS
  <2> HIDE DEF p
  <2>1. PICK c \in Server, command \in Command :
          /\ StartConses(c, command)
          /\ p = [index |-> Len(logs[c]) + 1,
                  entry |-> [term |-> currentTerm[c], command |-> command]]
    BY <1>3, NewPlace
  <2>2. currentTerm[c] = t /\ status[c] = "Leader" /\ status' = status
    BY <1>3, <2>1 DEF StartConses, electionVars
  <2>3. Elected(c, t)'
    BY <1>1, <1>2, <2>2, LeaderFacts, ElectedStays
  <2>4. c = i
    BY <1>2, <2>3, OneElectedNext
  <2> QED
    BY <2>2, <2>4
<1>5. Elected(i, t)
  <2>1. PICK c \in Server : Elected(c, t)
    BY <1>1, <1>3, <1>4 DEF EntryHasLeader
  <2>2. Elected(c, t)'
    BY <1>1, <1>2, <2>1, ElectedStays
  <2> QED
    BY <1>2, <2>1, <2>2, OneElectedNext
<1>6. InTerm(i, t)
  <2>1. InTerm(i, t)'
    BY DEF InTerm
  <2> QED
    BY <1>2, <1>5, <2>1, ElectedFacts
<1>7. k \in 1 .. Len(logs[i]) /\ logs[i][k].term = t
  <2> HIDE DEF p
  <2>1. p.index \in DOMAIN logs[i] /\ logs[i][p.index] = p.entry
    BY <1>3, <1>4, <1>5, <1>6, <1>1 DEF LeaderHasEntry
  <2>2. logs[i] \in Seq(Entry) /\ Len(logs[i]) \in Nat
    BY <1>1, LogType
  <2>3. DOMAIN logs[i] = 1 .. Len(logs[i])
    BY <2>2, LenProperties
  <2> QED
    BY <1>3, <2>1, <2>3
<1>8. boot'[i] = boot[i]
  <2> SUFFICES ASSUME Restart(i) PROVE FALSE
    BY <1>1, BootSteps
  <2>1. boot'[i] = boot[i] + 1 /\ UNCHANGED voteCalls
    BY <1>1 DEF Restart, TypeOK
  <2>2. \E b \in Nat : b <= boot[i] /\ b = boot'[i]
    <3>1. CASE \E m \in requestVoteArgs' : m.caller = i /\ m.boot = boot'[i]
      BY <1>1, <2>1, <3>1 DEF VoteCallsGenuine, CallIsGenuine, voteCalls, TypeOK, RequestVoteArgs
    <3>2. CASE \E m \in requestVoteReply' : m.caller = i /\ m.boot = boot'[i]
      BY <1>1, <2>1, <3>2 DEF VoteCallsGenuine, CallIsGenuine, voteCalls, TypeOK, RequestVoteReply
    <3> QED
      BY <3>1, <3>2 DEF Awaited
  <2>3. boot[i] \in Nat
    BY <1>1 DEF TypeOK
  <2> QED
    BY <2>1, <2>2, <2>3, SMT
<1>9. currentTerm[i] = t
  <2>1. t >= currentTerm[i]
    BY <1>1, <1>8, TermsGrow
  <2>2. disk[i].term <= currentTerm[i]
    BY <1>1 DEF VotesRemembered
  <2>3. currentTerm[i] \in Int /\ t \in Int /\ disk[i].term \in Int
    <3>1. disk[i].term \in Term
      BY <1>1 DEF TypeOK, Saved
    <3> QED
      BY <1>1, <1>2, <3>1, TermsOfServers, TermsAreNumbers
  <2> QED
    BY <1>6, <2>1, <2>2, <2>3, SMT DEF InTerm
<1>10. status[i] # "Leader"
  BY <1>8, <1>9, LeaderRemains
<1>11. Awaited(i) # {}
  BY <1>1, <1>8, <1>9, AwaitedShrinks
<1> QED
  BY <1>5, <1>7, <1>9, <1>10, <1>11 DEF WritesLater

\* With up to three servers, two successes are a majority.
LEMMA TwoAreMajority ==
  ASSUME Cardinality(Server) <= 3, NEW n \in Int, n >= 2
  PROVE  Majority(n)
<1>1. Cardinality(Server) \in Nat
  BY ServerAssumption, FS_CardinalityType
<1> QED
  BY <1>1, SMT DEF Majority

\* A new leader has written nothing in its term, and so everything is settled.
LEMMA NewLeaderSettled ==
  ASSUME VotesSurviveRestart, RaftInv, [Next]_vars, WritesLater,
         NEW m \in requestVoteReply, BecomeLeader(m)
  PROVE  LET i == m.caller IN
         /\ i \in Server /\ Elected(i, currentTerm[i])
         /\ currentTerm' = currentTerm /\ logs' = logs /\ appendCalls' = appendCalls
         /\ boot' = boot
         /\ \A k \in 1 .. Len(logs[i]) : logs[i][k].term # currentTerm[i]
         /\ \A n \in Int : n <= Len(logs[i]) => Settled(i, n)'
<1> DEFINE i == m.caller
           t == currentTerm[i]
<1>1. /\ TypeOK /\ TypeOK' /\ i \in Server /\ m.callee \in Server
      /\ Len(logs[i]) \in Nat
  BY TypeNext, LogType DEF RaftInv, TypeOK, RequestVoteReply
<1>2. /\ m.boot = boot[i] /\ m.term = t /\ m.granted /\ status[i] # "Leader"
      /\ status' = [status EXCEPT ![i] = "Leader"]
      /\ currentTerm' = currentTerm /\ voteRecord' = voteRecord /\ logs' = logs
      /\ appendCalls' = appendCalls /\ boot' = boot
  BY DEF BecomeLeader, VoteReplyArrives, logVars
<1>3. Elected(i, t)
  <2>1. ElectionInv'
    BY <1>1, ElectionInvNext DEF RaftInv
  <2>2. status'[i] = "Leader"
    BY <1>1, <1>2 DEF TypeOK
  <2>3. Majority(Cardinality(Voters(i, currentTerm[i])))'
    BY <1>1, <2>1, <2>2 DEF ElectionInv, LeaderWasElected
  <2> QED
    BY <1>2, <2>3 DEF Elected, Voters, Majority
<1>4. Awaited(i) # {}
  <2>1. m.callTerm = m.term
    BY <1>2 DEF RaftInv, ElectionInv, VoteCallsGenuine
  <2>2. m.callee \in Awaited(i)
    BY <1>1, <1>2, <2>1 DEF Awaited
  <2> QED
    BY <2>2
<1>5. \A k \in 1 .. Len(logs[i]) : logs[i][k].term # t
  BY <1>1, <1>2, <1>3, <1>4 DEF WritesLater
<1>6. ASSUME NEW n \in Int, n <= Len(logs[i]) PROVE Settled(i, n)'
  <2>1. \A k \in 1 .. n : k \in 1 .. Len(logs[i])
    BY <1>1, <1>6, SMT
  <2> QED
    BY <1>2, <1>5, <1>6, <2>1 DEF Settled
<1> QED
  BY <1>1, <1>2, <1>3, <1>5, <1>6

\* A leader's log changes only by the commands it takes.
LEMMA LeaderLogSteps ==
  ASSUME VotesSurviveRestart, RaftInv, [Next]_vars, NEW i \in Server, status'[i] = "Leader"
  PROVE  \/ logs'[i] = logs[i]
         \/ \E command \in Command : StartConses(i, command)
<1>1. TypeOK /\ LogsOnDisk
  BY DEF RaftInv, LogInv
<1>2. ASSUME NEW m \in appendEntriesArgs, AcceptEntries(m) PROVE logs'[i] = logs[i]
  <2>1. m.callee # i
    BY <1>1, <1>2 DEF AcceptEntries, FollowLeader, TypeOK
  <2> QED
    BY <1>1, <1>2, <2>1, AcceptedLog
<1>3. ASSUME NEW c \in Server, NEW command \in Command, StartConses(c, command)
      PROVE  c = i \/ logs'[i] = logs[i]
  BY <1>1, <1>3, TakenCommand
<1> QED
  BY <1>1, <1>2, <1>3, LogSteps

\* What a leader stays: its life, its term and its office, from one step to the next,
\* or it has just been elected.
LEMMA LeaderBefore ==
  ASSUME VotesSurviveRestart, RaftInv, [Next]_vars, NEW i \in Server, status'[i] = "Leader"
  PROVE  \/ \E m \in requestVoteReply : BecomeLeader(m) /\ m.caller = i
         \/ /\ status[i] = "Leader" /\ currentTerm'[i] = currentTerm[i]
            /\ boot'[i] = boot[i]
<1>1. TypeOK
  BY DEF RaftInv
<1>2. ~Restart(i)
  BY <1>1 DEF Restart, TypeOK
<1>3. boot'[i] = boot[i]
  BY <1>1, <1>2, BootSteps
<1> QED
  BY <1>1, <1>3, LeaderSteps

\* A leader's own entries stay the last ones of its log.
LEMMA WritesLastNext ==
  ASSUME VotesSurviveRestart, RaftInv, [Next]_vars, WritesLater, NEW i \in Server,
         status'[i] = "Leader", status[i] = "Leader" => WritesLast(i)
  PROVE  WritesLast(i)'
<1>1. CASE \E m \in requestVoteReply : BecomeLeader(m) /\ m.caller = i
  <2>1. PICK m \in requestVoteReply : BecomeLeader(m) /\ m.caller = i
    BY <1>1
  <2>2. m.callee \in Server /\ m.callee # i
    BY <2>1 DEF RaftInv, TypeOK, RequestVoteReply, ElectionInv, VoteCallsGenuine,
                CallIsGenuine
  <2>3. /\ logs' = logs /\ currentTerm' = currentTerm
        /\ \A k \in 1 .. Len(logs[i]) : logs[i][k].term # currentTerm[i]
    BY <2>1, NewLeaderSettled
  <2>4. Len(logs[i]) \in Nat
    BY LogType DEF RaftInv
  <2>5. \A n \in 1 .. Len(logs[i]) : \A k \in 1 .. n : k \in 1 .. Len(logs[i])
    BY <2>4, SMT
  <2> QED
    BY <2>2, <2>3, <2>5 DEF WritesLast
<1>2. CASE status[i] = "Leader" /\ currentTerm'[i] = currentTerm[i]
  <2>1. CASE logs'[i] = logs[i]
    BY <1>2, <2>1 DEF WritesLast
  <2>2. ASSUME NEW command \in Command, StartConses(i, command) PROVE WritesLast(i)'
    <3> DEFINE n == Len(logs[i])
               t == currentTerm[i]
    <3>1. /\ n \in Nat /\ Len(logs'[i]) = n + 1
          /\ \A k \in 1 .. n : logs'[i][k] = logs[i][k]
          /\ logs'[i][n + 1].term = t
      <4>1. TypeOK
        BY DEF RaftInv
      <4>2. /\ Len(logs[i]) \in Nat /\ Len(logs'[i]) = Len(logs[i]) + 1
            /\ \A k \in 1 .. Len(logs[i]) : logs'[i][k] = logs[i][k]
            /\ logs'[i][Len(logs[i]) + 1] = [term |-> t, command |-> command]
        BY <2>2, <4>1, TakenCommand, Zenon
      <4> QED
        BY <4>2
    <3> HIDE DEF n
    <3>2. ASSUME NEW l \in 1 .. n + 1, NEW k \in 1 .. l, logs'[i][k].term = t
          PROVE  logs'[i][l].term = t
      <4>1. CASE l = n + 1
        BY <3>1, <4>1
      <4>2. CASE l # n + 1
        <5>1. l \in 1 .. n /\ k \in 1 .. n
          BY <3>1, <4>2, SMT
        <5> QED
          BY <1>2, <3>1, <3>2, <5>1 DEF WritesLast, n
      <4> QED
        BY <4>1, <4>2
    <3> QED
      BY <1>2, <3>1, <3>2 DEF WritesLast
  <2> QED
    BY <2>1, <2>2, LeaderLogSteps
<1> QED
  BY <1>1, <1>2, LeaderBefore

\* A success that a leader counts leaves what it acknowledges settled: it completes
\* the round, or the round was complete before, or it speaks of nothing new.
LEMMA SuccessSettles ==
  ASSUME VotesSurviveRestart, RaftInv, [Next]_vars, Cardinality(Server) <= 3,
         NEW m \in appendEntriesReply, AppendReplySuccess(m),
         StillCounts(m) => ReplySettled(m)
  PROVE  Settled(m.caller, m.upTo)'
<1> DEFINE i == m.caller
           n == m.upTo
           a == appendNums[i][m.round]
<1>1. /\ TypeOK /\ i \in Server /\ n \in Nat /\ m.round \in Round
      /\ commitIndex \in [Server -> Nat] /\ a \in Nat
  BY DEF RaftInv, TypeOK, AppendEntriesReply
<1>2. /\ m.boot = boot[i] /\ m.term = currentTerm[i] /\ status[i] = "Leader" /\ m.success
      /\ currentTerm' = currentTerm /\ status' = status /\ logs' = logs
  BY DEF AppendReplySuccess, AppendReplyInTerm, AppendReplyArrives
<1>3. (m.lastTerm = m.term /\ a > 0) \/ Settled(i, n)
  BY <1>2 DEF StillCounts, ReplySettled
<1>4. CASE Settled(i, n)
  <2>1. n \in Int
    BY <1>1, SMT
  <2> QED
    BY <1>1, <1>2, <1>4, <2>1, SettledStays
<1>5. CASE m.lastTerm = m.term /\ a > 0
  <2>1. Majority(a + 1)
    <3>1. a + 1 \in Int /\ a + 1 >= 2
      BY <1>1, <1>5, SMT
    <3> QED
      BY <3>1, TwoAreMajority
  <2>2. commitIndex' = [commitIndex EXCEPT ![i] = LeaderCommit(i, m, commitIndex[i])]
    BY <2>1 DEF AppendReplySuccess
  <2>3. commitIndex'[i] = Max({commitIndex[i], n})
    BY <1>1, <1>2, <1>5, <2>2 DEF LeaderCommit
  <2>4. commitIndex[i] \in Int /\ n \in Int
    BY <1>1, SMT
  <2>5. commitIndex'[i] \in Int /\ commitIndex'[i] >= n
    BY <2>3, <2>4, MaxOfPair, SMT
  <2>6. n <= Len(logs[i])
    <3>1. ReplyIsGenuine(m)
      BY DEF RaftInv, LogInv, AppendCallsGenuine
    <3> QED
      BY <1>2, <3>1 DEF ReplyIsGenuine, Acked, InTerm
  <2>7. \A k \in 1 .. n : commitIndex'[i] >= k
    BY <2>4, <2>5, SMT
  <2> QED
    BY <1>2, <2>6, <2>7 DEF Settled
<1> QED
  BY <1>3, <1>4, <1>5

\* The indices of a leader are settled: they come from its log, from a success that
\* was just counted, or from a hint that points back.
LEMMA IndicesSettledNext ==
  ASSUME VotesSurviveRestart, RaftInv, [Next]_vars, Cardinality(Server) <= 3, QuorumInv,
         NEW i \in Server, status'[i] = "Leader"
  PROVE  IndicesSettled(i)'
<1>1. /\ TypeOK /\ Len(logs[i]) \in Nat /\ nextIndex[i] \in [Server -> Nat]
      /\ nextIndex \in [Server -> [Server -> Nat]]
      /\ matchIndex \in [Server -> [Server -> Nat]]
  BY LogType DEF RaftInv, TypeOK
<1> SUFFICES ASSUME NEW j \in Server \ {i}
             PROVE  \E a, b \in Int : /\ matchIndex'[i][j] = a /\ nextIndex'[i][j] - 1 = b
                                      /\ Settled(i, a)' /\ Settled(i, b)'
  BY DEF IndicesSettled, Settled
<1>2. PICK a \in Int, b \in Int : a = matchIndex[i][j] /\ b = nextIndex[i][j] - 1
  <2>1. nextIndex[i][j] \in Nat /\ matchIndex[i][j] \in Nat
    BY <1>1
  <2> QED
    BY <2>1, SMT
<1>3. ASSUME NEW m \in requestVoteReply, BecomeLeader(m), m.caller = i
      PROVE  \E c, d \in Int : /\ matchIndex'[i][j] = c /\ nextIndex'[i][j] - 1 = d
                               /\ Settled(i, c)' /\ Settled(i, d)'
  <2>1. matchIndex'[i][j] = 0 /\ nextIndex'[i][j] = Len(logs[i]) + 1
    BY <1>1, <1>3 DEF BecomeLeader
  <2>2. /\ 0 \in Int /\ 0 <= Len(logs[i]) /\ Len(logs[i]) \in Int
        /\ Len(logs[i]) <= Len(logs[i]) /\ nextIndex'[i][j] - 1 = Len(logs[i])
    BY <1>1, <2>1, SMT
  <2>3. \A n \in Int : n <= Len(logs[i]) => Settled(i, n)'
    BY <1>3, NewLeaderSettled DEF QuorumInv
  <2> QED
    BY <2>1, <2>2, <2>3
<1>4. ASSUME status[i] = "Leader", currentTerm'[i] = currentTerm[i]
      PROVE  Settled(i, a)' /\ Settled(i, b)'
  <2>1. Settled(i, a) /\ Settled(i, b)
    BY <1>2, <1>4 DEF QuorumInv, IndicesSettled
  <2> QED
    BY <1>2, <1>4, <2>1, SettledStays
<1>5. ASSUME NEW m \in appendEntriesReply, m.caller = i, AppendReplyFailure(m),
             status[i] = "Leader", currentTerm'[i] = currentTerm[i]
      PROVE  \E c, d \in Int : /\ matchIndex'[i][j] = c /\ nextIndex'[i][j] - 1 = d
                               /\ Settled(i, c)' /\ Settled(i, d)'
  <2> DEFINE hint == m.updateNextIndex
  <2>1. /\ m.boot = boot[i] /\ m.term = currentTerm[i] /\ ~m.success
        /\ matchIndex' = matchIndex
    BY <1>5 DEF AppendReplyFailure, AppendReplyInTerm, AppendReplyArrives
  <2>2. CASE nextIndex'[i][j] = nextIndex[i][j]
    BY <1>2, <1>4, <1>5, <2>1, <2>2
  <2>3. CASE nextIndex'[i][j] # nextIndex[i][j]
    <3>1. hint # NoHint /\ nextIndex' = [nextIndex EXCEPT ![i][m.callee] = hint]
      BY <1>5, <2>3 DEF AppendReplyFailure
    <3>2. nextIndex'[i][j] = hint /\ hint \in Nat
      BY <1>1, <2>3, <3>1 DEF TypeOK, AppendEntriesReply
    <3>3. hint - 1 \in Int
      BY <3>2, SMT
    <3>4. Settled(i, hint - 1)
      BY <1>5, <2>1, <3>1 DEF QuorumInv, StillCounts, ReplySettled
    <3> HIDE DEF hint
    <3>5. Settled(i, hint - 1)'
      <4>1. ASSUME NEW n \in Int, Settled(i, n) PROVE Settled(i, n)'
        BY <1>5, <4>1, SettledStays
      <4> QED
        BY <3>3, <3>4, <4>1 DEF Settled
    <3> QED
      BY <1>2, <1>4, <1>5, <2>1, <3>2, <3>3, <3>5
  <2> QED
    BY <2>2, <2>3
<1>6. ASSUME NEW m \in appendEntriesReply, m.caller = i, AppendReplySuccess(m),
             status[i] = "Leader", currentTerm'[i] = currentTerm[i]
      PROVE  \E c, d \in Int : /\ matchIndex'[i][j] = c /\ nextIndex'[i][j] - 1 = d
                               /\ Settled(i, c)' /\ Settled(i, d)'
  <2> DEFINE acked == AckedIndex(matchIndex[i][m.callee], m.upTo)
  <2>1. /\ matchIndex' = [matchIndex EXCEPT ![i][m.callee] = acked]
        /\ nextIndex' = [nextIndex EXCEPT ![i][m.callee] = acked + 1]
    BY <1>6 DEF AppendReplySuccess
  <2>2. CASE j # m.callee
    <3>1. matchIndex'[i][j] = a /\ nextIndex'[i][j] - 1 = b
      BY <1>1, <1>2, <2>1, <2>2
    <3> QED
      BY <1>2, <1>4, <1>6, <3>1
  <2>3. CASE j = m.callee
    <3>1. m.upTo \in Int
      <4>1. m.upTo \in Nat
        BY <1>1 DEF TypeOK, AppendEntriesReply
      <4> QED
        BY <4>1, SMT
    <3>2. acked = a \/ acked = m.upTo
      BY <1>2, <2>3, <3>1, MaxOfPair DEF AckedIndex
    <3>3. Settled(i, m.upTo)'
      BY <1>6, SuccessSettles DEF QuorumInv
    <3>4. matchIndex'[i][j] = acked /\ nextIndex'[i][j] = acked + 1
      BY <1>1, <2>1, <2>3
    <3> HIDE DEF acked
    <3>5. acked \in Int /\ nextIndex'[i][j] - 1 = acked
      BY <1>2, <3>1, <3>2, <3>4, SMT
    <3>6. CASE acked = a
      BY <1>2, <1>4, <1>6, <3>4, <3>5, <3>6
    <3>7. CASE acked = m.upTo
      BY <3>1, <3>3, <3>4, <3>5, <3>7
    <3> QED
      BY <3>2, <3>6, <3>7
  <2> QED
    BY <2>2, <2>3
<1>7. CASE /\ status[i] = "Leader" /\ currentTerm'[i] = currentTerm[i]
           /\ nextIndex'[i] = nextIndex[i] /\ matchIndex'[i] = matchIndex[i]
  BY <1>2, <1>4, <1>7
<1> QED
  BY <1>1, <1>3, <1>5, <1>6, <1>7, LeaderSteps

\* A round whose counter is back at zero has had its majority, now or before.
LEMMA RoundCloses ==
  ASSUME TypeOK, [Next]_vars, NEW i \in Server, boot'[i] = boot[i], NEW r \in Round,
         r \notin FreeRounds(i), appendNums'[i][r] = 0
  PROVE  \/ appendNums[i][r] = 0
         \/ \E n \in appendEntriesReply :
              AppendReplySuccess(n) /\ n.caller = i /\ n.round = r
<1>1. ASSUME NEW n \in appendEntriesReply, AppendReplySuccess(n), n.caller = i, n.round = r
      PROVE  \E c \in appendEntriesReply :
               AppendReplySuccess(c) /\ c.caller = i /\ c.round = r
  BY <1>1
<1> QED
  BY <1>1, CountSteps

\* A request is settled as far as it starts, and as far as it goes once its round
\* has had its majority.
LEMMA RequestsSettledNext ==
  ASSUME VotesSurviveRestart, RaftInv, [Next]_vars, Cardinality(Server) <= 3, QuorumInv,
         NEW m \in appendEntriesArgs', StillCounts(m)'
  PROVE  RequestSettled(m)'
<1> DEFINE i == m.caller
           prev == m.prevLogIndex
           r == m.round
<1>1. /\ TypeOK /\ TypeOK' /\ RoundsApart /\ i \in Server /\ r \in Round
      /\ prev \in Nat /\ prev \in Int /\ m.entries \in Seq(Entry) /\ Len(m.entries) \in Nat
      /\ Sent(m) \in Nat /\ Sent(m) \in Int /\ prev <= Sent(m)
  <2>1. TypeOK /\ TypeOK' /\ RoundsApart
    BY TypeNext DEF RaftInv, QuorumInv
  <2>2. m \in AppendEntriesArgs
    BY <2>1 DEF TypeOK
  <2>3. /\ i \in Server /\ r \in Round /\ prev \in Nat /\ m.entries \in Seq(Entry)
        /\ Len(m.entries) \in Nat
    BY <2>2, LenProperties DEF AppendEntriesArgs
  <2>4. prev \in Int /\ Sent(m) \in Nat /\ Sent(m) \in Int /\ prev <= Sent(m)
    BY <2>3, SMT DEF Sent
  <2> QED
    BY <2>1, <2>3, <2>4
<1>2. status'[i] = "Leader" /\ m.boot = boot'[i] /\ m.term = currentTerm'[i]
  BY DEF StillCounts
<1> SUFFICES /\ Settled(i, prev)'
             /\ appendNums'[i][r] = 0 => Settled(i, Sent(m))'
  BY DEF RequestSettled, Settled, Sent
<1>3. ASSUME NEW v \in requestVoteReply, BecomeLeader(v), v.caller = i
      PROVE  Settled(i, prev)' /\ Settled(i, Sent(m))'
  <2>1. /\ Elected(i, currentTerm[i]) /\ currentTerm' = currentTerm
        /\ appendCalls' = appendCalls
        /\ \A n \in Int : n <= Len(logs[i]) => Settled(i, n)'
    BY <1>3, NewLeaderSettled DEF QuorumInv
  <2>2. m \in appendEntriesArgs /\ InTerm(i, m.term)
    BY <1>2, <2>1 DEF appendCalls, InTerm
  <2>3. Sent(m) <= Len(logs[i])
    BY <2>2 DEF RaftInv, LogInv, AppendCallsGenuine, RequestIsGenuine, CopiesLog, Sent
  <2>4. prev <= Len(logs[i])
    <3>1. Len(logs[i]) \in Nat
      BY <1>1, LogType
    <3> QED
      BY <1>1, <2>3, <3>1, SMT
  <2> QED
    BY <1>1, <2>1, <2>3, <2>4
<1>4. ASSUME m \in appendEntriesArgs, status[i] = "Leader",
             currentTerm'[i] = currentTerm[i], boot'[i] = boot[i]
      PROVE  /\ Settled(i, prev)'
             /\ appendNums'[i][r] = 0 => Settled(i, Sent(m))'
  <2>1. StillCounts(m) /\ RequestSettled(m)
    BY <1>2, <1>4 DEF StillCounts, QuorumInv
  <2>2. ASSUME NEW n \in Int, Settled(i, n) PROVE Settled(i, n)'
    BY <1>1, <1>2, <1>4, <2>2, SettledStays
  <2>3. Settled(i, prev)'
    BY <1>1, <2>1, <2>2 DEF RequestSettled
  <2>4. ASSUME NEW c \in Int, c = Sent(m), appendNums'[i][r] = 0 PROVE Settled(i, c)'
    <3>1. r \notin FreeRounds(i)
      BY <1>2, <1>4 DEF FreeRounds
    <3>2. CASE appendNums[i][r] = 0
      BY <2>1, <2>2, <2>4, <3>2 DEF RequestSettled
    <3>3. ASSUME NEW n \in appendEntriesReply, AppendReplySuccess(n), n.caller = i, n.round = r
          PROVE  Settled(i, c)'
      <4>1. n.boot = boot[i] /\ n.success
        BY <3>3 DEF AppendReplySuccess, AppendReplyInTerm, AppendReplyArrives
      <4>2. SameRound(m, n)
        BY <1>2, <1>4, <3>3, <4>1 DEF SameRound
      <4>3. c = n.upTo
        BY <1>1, <1>4, <2>4, <4>1, <4>2 DEF RoundsApart
      <4>4. StillCounts(n) => ReplySettled(n)
        BY DEF QuorumInv
      <4>5. Settled(n.caller, n.upTo)'
        BY <3>3, <4>4, SuccessSettles
      <4> QED
        BY <3>3, <4>3, <4>5
    <3> QED
      BY <1>1, <1>4, <2>4, <3>1, <3>2, <3>3, RoundCloses
  <2> QED
    BY <1>1, <2>3, <2>4
<1>5. ASSUME NEW c \in Server, DoHeartBeat(c), m \notin appendEntriesArgs
      PROVE  Settled(i, prev)' /\ appendNums'[i][r] # 0
  <2>1. PICK s \in FreeRounds(c) : appendNums'[c][s] = 1 /\ RoundCall(c, s, m)
    BY <1>5, RoundOpened
  <2>2. /\ i = c /\ r = s /\ m.callee \in Server \ {i}
        /\ m = HeartBeatArgs(i, m.callee, r)
    BY <2>1 DEF RoundCall
  <2>3. prev = nextIndex[i][m.callee] - 1
    BY <2>2 DEF HeartBeatArgs
  <2>4. status[i] = "Leader" /\ currentTerm' = currentTerm
    BY <1>5, <2>2 DEF DoHeartBeat, electionVars
  <2>5. Settled(i, prev)
    BY <1>1, <2>2, <2>3, <2>4 DEF QuorumInv, IndicesSettled
  <2>6. Settled(i, prev)'
    BY <1>1, <1>2, <2>4, <2>5, SettledStays
  <2> QED
    BY <2>1, <2>2, <2>6
<1>6. m \in appendEntriesArgs \/ \E c \in Server : DoHeartBeat(c)
  BY <1>1, AppendCallSteps
<1> QED
  BY <1>1, <1>2, <1>3, <1>4, <1>5, <1>6, LeaderBefore

\* A refusal that carries a hint is of the sender's term, and points no further than
\* to where the request started.
LEMMA HintPointsBack ==
  ASSUME RaftInv, NEW m \in appendEntriesArgs, HandleAppendEntries(m),
         NEW r \in appendEntriesReply', r \notin appendEntriesReply,
         ~r.success, r.updateNextIndex # NoHint
  PROVE  /\ r.term = m.term /\ r.updateNextIndex \in Int
         /\ r.updateNextIndex <= m.prevLogIndex
<1> DEFINE log == logs[m.callee]
           prev == m.prevLogIndex
<1>1. /\ TypeOK /\ RequestIsGenuine(m) /\ prev \in Nat
      /\ log \in Seq(Entry) /\ Len(log) \in Nat
  BY LenProperties DEF RaftInv, LogInv, AppendCallsGenuine, TypeOK, AppendEntriesArgs
<1>2. ASSUME NEW term, NEW success, NEW hint, AnswerAppend(m, term, success, hint)
      PROVE  r.term = term /\ r.success = success /\ r.updateNextIndex = hint
  <2> DEFINE s == AppendReply(m, term, success, hint)
  <2>1. appendEntriesReply' = appendEntriesReply \cup {s}
    BY <1>2, Zenon DEF AnswerAppend, AppendReply
  <2>2. s.term = term /\ s.success = success /\ s.updateNextIndex = hint
    BY DEF AppendReply
  <2> HIDE DEF s
  <2> QED
    BY <2>1, <2>2
<1>3. CASE RefuseExpiredEntries(m)
  BY <1>2, <1>3 DEF RefuseExpiredEntries
<1>4. CASE AcceptEntries(m)
  BY <1>2, <1>4 DEF AcceptEntries
<1>5. CASE RefuseGap(m)
  <2>1. AnswerAppend(m, m.term, FALSE, Len(log) + 1) /\ prev > Len(log)
    BY <1>5 DEF RefuseGap
  <2>2. r.term = m.term /\ r.updateNextIndex = Len(log) + 1
    BY <1>2, <2>1
  <2> HIDE DEF log, prev
  <2> QED
    BY <1>1, <2>1, <2>2, SMT DEF prev
<1>6. CASE RefuseMismatch(m)
  <2>1. /\ AnswerAppend(m, m.term, FALSE, ConflictNextIndex(log, prev))
        /\ ~MatchLog(log, prev, m.prevLogTerm)
    BY <1>6 DEF RefuseMismatch
  <2>2. r.term = m.term /\ r.updateNextIndex = ConflictNextIndex(log, prev)
    BY <1>2, <2>1
  <2>3. prev # 0
    <3>1. prev = 0 => TermAt(log, prev) = 0
      BY SMT DEF TermAt
    <3> QED
      BY <1>1, <2>1, <3>1 DEF MatchLog, RequestIsGenuine
  <2>4. ConflictNextIndex(log, prev) \in 1 .. prev
    BY <1>1, <2>3, ConflictNextIndexRange
  <2> HIDE DEF log, prev
  <2> QED
    BY <1>1, <2>2, <2>4, SMT DEF prev
<1> QED
  BY <1>3, <1>4, <1>5, <1>6 DEF HandleAppendEntries

\* What a reply was made from, if it is for a leader that still counts it.
LEMMA NewReplySettled ==
  ASSUME VotesSurviveRestart, RaftInv, [Next]_vars, Cardinality(Server) <= 3, QuorumInv,
         NEW m \in appendEntriesArgs, HandleAppendEntries(m),
         NEW r \in appendEntriesReply', r \notin appendEntriesReply, StillCounts(r)'
  PROVE  ReplySettled(r)'
<1> DEFINE i == m.caller
           prev == m.prevLogIndex
           t == m.term
<1>1. /\ TypeOK /\ i \in Server /\ m.round \in Round /\ t \in Term
      /\ prev \in Nat /\ m.entries \in Seq(Entry) /\ Len(m.entries) \in Nat
      /\ Sent(m) \in Nat /\ Sent(m) \in Int /\ prev \in Int
      /\ Sent(m) = prev + Len(m.entries)
  <2>1. TypeOK /\ m \in AppendEntriesArgs
    BY DEF RaftInv, TypeOK
  <2>2. /\ i \in Server /\ m.round \in Round /\ t \in Term /\ prev \in Nat
        /\ m.entries \in Seq(Entry) /\ Len(m.entries) \in Nat
    BY <2>1, LenProperties DEF AppendEntriesArgs
  <2>3. Sent(m) \in Nat /\ Sent(m) \in Int /\ prev \in Int /\ Sent(m) = prev + Len(m.entries)
    BY <2>2, SMT DEF Sent
  <2> QED
    BY <2>1, <2>2, <2>3
<1>2. /\ r.caller = i /\ r.round = m.round /\ r.boot = m.boot
      /\ r.upTo = Sent(m) /\ r.lastTerm = LastTerm(m.entries)
      /\ r.success => r.term = t
      /\ boot' = boot /\ appendNums' = appendNums
  <2>1. PICK s : Answered(m, s)
    BY HandlerAnswers
  <2>2. r = s
    BY <2>1 DEF Answered
  <2> QED
    BY <2>1, <2>2 DEF Answered
<1>3. /\ status'[i] = "Leader" /\ r.term = currentTerm'[i] /\ m.boot = boot[i]
  BY <1>2 DEF StillCounts
<1>4. status[i] = "Leader" /\ currentTerm'[i] = currentTerm[i]
  <2>1. ASSUME NEW v \in requestVoteReply, BecomeLeader(v) PROVE FALSE
    BY <2>1 DEF BecomeLeader, VoteReplyArrives, appendCalls
  <2> QED
    BY <1>1, <1>3, <2>1, LeaderBefore
<1>5. ASSUME r.term = t PROVE StillCounts(m) /\ RequestSettled(m)
  BY <1>3, <1>4, <1>5 DEF StillCounts, QuorumInv
<1>6. ASSUME NEW n \in Int, Settled(i, n) PROVE Settled(i, n)'
  BY <1>1, <1>3, <1>4, <1>6, SettledStays
<1>7. ASSUME r.success, ~(r.lastTerm = r.term /\ appendNums'[i][m.round] > 0)
      PROVE  Settled(i, Sent(m))'
  <2>1. r.term = t /\ RequestSettled(m)
    BY <1>2, <1>5, <1>7
  <2>2. CASE appendNums[i][m.round] = 0
    <3>1. Settled(i, Sent(m))
      BY <2>1, <2>2 DEF RequestSettled
    <3>2. ASSUME NEW c \in Int, c = Sent(m) PROVE Settled(i, c)'
      BY <1>6, <3>1, <3>2
    <3> QED
      BY <1>1, <3>2
  <2>3. CASE appendNums[i][m.round] # 0
    <3>1. LastTerm(m.entries) # t
      <4>1. appendNums[i][m.round] \in Nat
        BY <1>1 DEF TypeOK
      <4>2. appendNums'[i][m.round] > 0
        BY <1>2, <2>3, <4>1, SMT
      <4> QED
        BY <1>2, <1>7, <2>1, <4>2
    <3>2. Settled(i, Sent(m))
      <4>1. CASE Len(m.entries) = 0
        <5>1. Sent(m) = prev
          BY <1>1, <4>1, SMT
        <5> QED
          BY <2>1, <5>1 DEF RequestSettled
      <4>2. CASE Len(m.entries) > 0
        <5>1. CopiesLog(m)
          BY <1>3, <1>4, <2>1 DEF RaftInv, LogInv, AppendCallsGenuine, RequestIsGenuine, InTerm
        <5>2. Len(m.entries) \in 1 .. Len(m.entries) /\ DOMAIN m.entries = 1 .. Len(m.entries)
          BY <1>1, <4>2, LenProperties, SMT
        <5>3. Sent(m) <= Len(logs[i]) /\ m.entries[Len(m.entries)] = logs[i][Sent(m)]
          BY <5>1, <5>2 DEF CopiesLog, Sent
        <5>4. logs[i][Sent(m)].term # t
          BY <3>1, <5>2, <5>3 DEF LastTerm, TermAt
        <5>5. Sent(m) \in 1 .. Len(logs[i])
          BY <1>1, <4>2, <5>3, SMT
        <5>6. t = currentTerm[i] /\ WritesLast(i)
          BY <1>1, <1>3, <1>4, <2>1 DEF QuorumInv
        <5>7. \A k \in 1 .. Sent(m) : logs[i][k].term # currentTerm[i]
          BY <5>4, <5>5, <5>6 DEF WritesLast
        <5> QED
          BY <5>3, <5>7, NothingToSettle
      <4> QED
        BY <1>1, <4>1, <4>2, SMT
    <3>3. ASSUME NEW c \in Int, c = Sent(m) PROVE Settled(i, c)'
      BY <1>6, <3>2, <3>3
    <3> QED
      BY <1>1, <3>3
  <2> QED
    BY <2>2, <2>3
<1>8. ASSUME ~r.success, r.updateNextIndex # NoHint
      PROVE  Settled(i, r.updateNextIndex - 1)'
  <2> DEFINE h == r.updateNextIndex - 1
  <2>1. r.term = t /\ r.updateNextIndex \in Int /\ r.updateNextIndex <= prev
    BY <1>8, HintPointsBack
  <2>2. h \in Int /\ h <= prev
    BY <1>1, <2>1, SMT
  <2>3. Settled(i, prev)
    BY <1>5, <2>1 DEF RequestSettled
  <2> HIDE DEF h
  <2>4. Settled(i, h)
    <3>1. Len(logs[i]) \in Nat
      BY <1>1, LogType
    <3>2. prev <= Len(logs[i])
      BY <2>3 DEF Settled
    <3>3. h <= Len(logs[i]) /\ \A k \in 1 .. h : k \in 1 .. prev
      BY <1>1, <2>2, <3>1, <3>2, SMT
    <3> QED
      BY <2>3, <3>3 DEF Settled
  <2>5. Settled(i, h)'
    BY <1>6, <2>2, <2>4
  <2> QED
    BY <2>5 DEF h
<1> QED
  BY <1>2, <1>7, <1>8 DEF ReplySettled, Settled

\* What a reply says stays settled, or becomes so when its round is complete.
LEMMA OldReplySettled ==
  ASSUME VotesSurviveRestart, RaftInv, [Next]_vars, Cardinality(Server) <= 3, QuorumInv,
         NEW m \in appendEntriesReply, m \in appendEntriesReply', StillCounts(m)'
  PROVE  ReplySettled(m)'
<1> DEFINE i == m.caller
           r == m.round
<1>1. /\ TypeOK /\ RoundsApart /\ i \in Server /\ r \in Round
      /\ m.upTo \in Nat /\ m.upTo \in Int /\ m.updateNextIndex \in Nat \cup {NoHint}
  <2>1. TypeOK /\ RoundsApart /\ m \in AppendEntriesReply
    BY DEF RaftInv, QuorumInv, TypeOK
  <2>2. /\ i \in Server /\ r \in Round /\ m.upTo \in Nat
        /\ m.updateNextIndex \in Nat \cup {NoHint}
    BY <2>1 DEF AppendEntriesReply
  <2>3. m.upTo \in Int
    BY <2>2, SMT
  <2> QED
    BY <2>1, <2>2, <2>3
<1>2. status'[i] = "Leader" /\ m.boot = boot'[i] /\ m.term = currentTerm'[i]
  BY DEF StillCounts
<1>3. ASSUME NEW v \in requestVoteReply, BecomeLeader(v), v.caller = i
      PROVE  ReplySettled(m)'
  <2>1. /\ currentTerm' = currentTerm
        /\ \A n \in Int : n <= Len(logs[i]) => Settled(i, n)'
    BY <1>3, NewLeaderSettled DEF QuorumInv
  <2>2. InTerm(i, m.term) /\ ReplyIsGenuine(m)
    BY <1>2, <2>1 DEF InTerm, RaftInv, LogInv, AppendCallsGenuine
  <2>3. m.success => Settled(i, m.upTo)'
    BY <1>1, <2>1, <2>2 DEF ReplyIsGenuine, Acked
  <2>4. ASSUME ~m.success, m.updateNextIndex # NoHint
        PROVE  Settled(i, m.updateNextIndex - 1)'
    <3>1. m.updateNextIndex \in 1 .. Len(logs[i]) + 1
      BY <2>2, <2>4 DEF ReplyIsGenuine, HintInLog
    <3>2. Len(logs[i]) \in Nat
      BY <1>1, LogType
    <3>3. m.updateNextIndex - 1 \in Int /\ m.updateNextIndex - 1 <= Len(logs[i])
      BY <3>1, <3>2, SMT
    <3> QED
      BY <2>1, <3>3
  <2> QED
    BY <2>3, <2>4 DEF ReplySettled, Settled
<1>4. ASSUME status[i] = "Leader", currentTerm'[i] = currentTerm[i], boot'[i] = boot[i]
      PROVE  ReplySettled(m)'
  <2>1. StillCounts(m) /\ ReplySettled(m)
    BY <1>2, <1>4 DEF StillCounts, QuorumInv
  <2>2. ASSUME NEW n \in Int, Settled(i, n) PROVE Settled(i, n)'
    BY <1>1, <1>2, <1>4, <2>2, SettledStays
  <2>3. ASSUME m.success, ~(m.lastTerm = m.term /\ appendNums'[i][r] > 0)
        PROVE  Settled(i, m.upTo)'
    <3>1. CASE Settled(i, m.upTo)
      BY <1>1, <2>2, <3>1
    <3>2. CASE m.lastTerm = m.term /\ appendNums[i][r] > 0
      <4>1. appendNums'[i][r] = 0 /\ appendNums[i][r] # 0
        <5>1. appendNums[i][r] \in Nat /\ appendNums'[i][r] \in Nat
          BY <1>1, TypeNext DEF TypeOK
        <5> QED
          BY <2>3, <3>2, <5>1, SMT
      <4>2. r \notin FreeRounds(i)
        BY <1>2, <1>4 DEF FreeRounds
      <4>3. PICK n \in appendEntriesReply : AppendReplySuccess(n) /\ n.caller = i /\ n.round = r
        BY <1>1, <1>4, <4>1, <4>2, RoundCloses
      <4>4. n.boot = boot[i] /\ n.success
        BY <4>3 DEF AppendReplySuccess, AppendReplyInTerm, AppendReplyArrives
      <4>5. SameRound(m, n)
        BY <1>2, <1>4, <4>3, <4>4 DEF SameRound
      <4>6. m.upTo = n.upTo
        BY <1>1, <2>3, <4>4, <4>5 DEF RoundsApart
      <4>7. StillCounts(n) => ReplySettled(n)
        BY DEF QuorumInv
      <4>8. Settled(n.caller, n.upTo)'
        BY <4>3, <4>7, SuccessSettles
      <4> QED
        BY <4>3, <4>6, <4>8
    <3> QED
      BY <2>1, <2>3, <3>1, <3>2 DEF ReplySettled
  <2>4. ASSUME ~m.success, m.updateNextIndex # NoHint
        PROVE  Settled(i, m.updateNextIndex - 1)'
    <3>1. m.updateNextIndex \in Nat
      BY <1>1, <2>4
    <3>2. m.updateNextIndex - 1 \in Int
      BY <3>1, SMT
    <3> QED
      BY <2>1, <2>2, <2>4, <3>2 DEF ReplySettled
  <2> QED
    BY <2>3, <2>4 DEF ReplySettled, Settled
<1> QED
  BY <1>1, <1>2, <1>3, <1>4, LeaderBefore

\* Every step keeps the invariant.
LEMMA QuorumInvNext ==
  ASSUME VotesSurviveRestart, RaftInv, [Next]_vars, Cardinality(Server) <= 3, QuorumInv
  PROVE  QuorumInv'
<1>1. TypeOK
  BY DEF RaftInv
<1>2. RoundsApart' /\ WritesLater'
  BY RoundsApartNext, WritesLaterNext DEF QuorumInv
<1>3. ASSUME NEW i \in Server, status'[i] = "Leader"
      PROVE  WritesLast(i)' /\ IndicesSettled(i)'
  BY <1>3, WritesLastNext, IndicesSettledNext DEF QuorumInv
<1>4. ASSUME NEW m \in appendEntriesArgs', StillCounts(m)' PROVE RequestSettled(m)'
  BY <1>4, RequestsSettledNext
<1>5. ASSUME NEW m \in appendEntriesReply', StillCounts(m)' PROVE ReplySettled(m)'
  <2>1. CASE m \in appendEntriesReply
    BY <1>5, <2>1, OldReplySettled
  <2>2. CASE m \notin appendEntriesReply
    <3>1. PICK a \in appendEntriesArgs : HandleAppendEntries(a)
      BY <1>1, <2>2, AppendCallSteps
    <3> QED
      BY <1>5, <2>2, <3>1, NewReplySettled
  <2> QED
    BY <2>1, <2>2
<1> QED
  BY <1>2, <1>3, <1>4, <1>5 DEF QuorumInv

\* No call is on its way, and nobody leads, when the servers start.
LEMMA QuorumInvInit == Init => QuorumInv
<1> SUFFICES ASSUME Init PROVE QuorumInv
  OBVIOUS
<1>1. /\ appendEntriesArgs = {} /\ appendEntriesReply = {}
      /\ requestVoteArgs = {} /\ requestVoteReply = {}
      /\ \A i \in Server : status[i] # "Leader"
  BY DEF Init
<1>2. RoundsApart
  BY <1>1 DEF RoundsApart, AppendCalls
<1>3. WritesLater
  BY <1>1 DEF WritesLater, Awaited
<1> QED
  BY <1>1, <1>2, <1>3 DEF QuorumInv

\* With up to three servers, one follower beside the leader is a majority.
LEMMA QuorumIsCommitted ==
  ASSUME RaftInv, Cardinality(Server) <= 3, QuorumInv
  PROVE  QuorumAckedIsCommitted
<1>1. TypeOK
  BY DEF RaftInv
<1> SUFFICES ASSUME NEW i \in Server, NEW k \in DOMAIN logs[i], status[i] = "Leader",
                    logs[i][k].term = currentTerm[i],
                    Majority(1 + Cardinality({j \in Server \ {i} : matchIndex[i][j] >= k}))
             PROVE  commitIndex[i] >= k
  BY DEF QuorumAckedIsCommitted
<1> DEFINE S == {j \in Server \ {i} : matchIndex[i][j] >= k}
<1>2. k \in 1 .. Len(logs[i]) /\ Len(logs[i]) \in Nat
  BY <1>1, LogType, LenProperties
<1>3. S # {}
  <2> SUFFICES ASSUME S = {} PROVE FALSE
    OBVIOUS
  <2>1. Cardinality(S) = 0
    BY FS_EmptySet
  <2>2. PICK j \in Server : j # i
    BY DEF QuorumInv, WritesLast
  <2>3. IsFiniteSet({i, j}) /\ {i, j} \subseteq Server
    BY ServerAssumption, FS_Subset
  <2>4. Cardinality({i, j}) = 2
    <3>1. Cardinality({i}) = 1 /\ IsFiniteSet({i})
      BY FS_Singleton
    <3>2. Cardinality({i} \cup {j}) = Cardinality({i}) + 1
      BY <2>2, <3>1, FS_AddElement
    <3>3. {i} \cup {j} = {i, j}
      OBVIOUS
    <3> QED
      BY <3>1, <3>2, <3>3
  <2>5. Cardinality(Server) \in Nat /\ Cardinality(Server) >= 2
    BY <2>3, <2>4, ServerAssumption, FS_CardinalityType, FS_Subset
  <2>6. 1 >= Cardinality(Server) \div 2 + 1
    BY <2>1 DEF Majority
  <2> QED
    BY <2>5, <2>6, SMT
<1>4. PICK j \in Server \ {i} : matchIndex[i][j] >= k
  BY <1>3
<1>5. Settled(i, matchIndex[i][j])
  BY DEF QuorumInv, IndicesSettled
<1>6. k \in 1 .. matchIndex[i][j]
  <2>1. matchIndex[i][j] \in Nat
    BY <1>1 DEF TypeOK
  <2> QED
    BY <1>2, <1>4, <2>1, SMT
<1> QED
  BY <1>5, <1>6 DEF Settled

\* The invariant, of up to three servers.
THEOREM QuorumInvariant ==
  ASSUME VotesSurviveRestart, Cardinality(Server) <= 3
  PROVE  Spec => []QuorumInv
<1>1. TypeOK /\ ElectionInv /\ LogInv /\ QuorumInv /\ [Next]_vars => QuorumInv'
  BY QuorumInvNext DEF RaftInv
<1> QED
  BY <1>1, QuorumInvInit, TypeCorrect, ElectionInvariant, LogInvariant, PTL DEF Spec

\* With up to three servers, a leader has committed every entry of its term that
\* m_matchIndex puts on a majority: looking only at the successes of single rounds
\* (raft.cpp:777 to 793) leaves nothing out.  With five servers it does.
THEOREM QuorumsAreCommitted ==
  ASSUME VotesSurviveRestart, Cardinality(Server) <= 3
  PROVE  Spec => []QuorumAckedIsCommitted
<1>1. TypeOK /\ ElectionInv /\ LogInv /\ QuorumInv => QuorumAckedIsCommitted
  BY QuorumIsCommitted DEF RaftInv
<1> QED
  BY <1>1, QuorumInvariant, TypeCorrect, ElectionInvariant, LogInvariant, PTL
=============================================================================
