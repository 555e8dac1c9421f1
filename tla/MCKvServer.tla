----------------------------- MODULE MCKvServer -----------------------------
(***************************************************************************)
(* Instances of KvServer for TLC: two servers, and what their clients ask. *)
(***************************************************************************)
EXTENDS KvServerInvariants, TLC

CONSTANTS s1, s2, c1, c2

Ring == (s1 :> s2 @@ s2 :> s1)

\* m_clientId as it is meant to be, and as rand() without a seed makes it: the
\* clerks of two processes draw the same numbers.
Distinct == [c \in Client |-> c]
Unseeded == [c \in Client |-> c1]

\* One client reads what it appended, the other overwrites the key.
AppendThenRead == (c1 :> <<"Append", "Get">> @@ c2 :> <<"Put">>)
TwoAttempts == (c1 :> 2 @@ c2 :> 1)

\* One client reads before it appends.
ReadThenAppend == (c1 :> <<"Get", "Append">>)
TwoAttemptsEach == (c1 :> 2)

\* One append, sent twice; another client does what servicecaller.cpp does in a
\* loop: it overwrites the key, reads it and overwrites it again.
AppendAndOther == (c1 :> <<"Append">> @@ c2 :> <<"Put", "Get", "Put">>)

=============================================================================
