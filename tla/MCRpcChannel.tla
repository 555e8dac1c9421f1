----------------------------- MODULE MCRpcChannel ---------------------------
(***************************************************************************)
(* Instances of RpcChannel for TLC: the calls of a Raft server to a peer,  *)
(* and those of a clerk.                                                   *)
(***************************************************************************)
EXTENDS RpcChannelInvariants, TLC

CONSTANTS c1, c2, c3

Entry(t) == [Command |-> "x", LogTerm |-> t, LogIndex |-> 1]

Heartbeat ==
  [Term |-> 1, LeaderId |-> 0, PrevLogIndex |-> 0, PrevLogTerm |-> 0,
   Entries |-> <<Entry(1), Entry(0)>>, LeaderCommit |-> 0]
Vote     == [Term |-> 1, CandidateId |-> 0, LastLogIndex |-> 1, LastLogTerm |-> 1]
Snapshot == [LeaderId |-> 0, Term |-> 1, LastSnapShotIncludeIndex |-> 1,
             LastSnapShotIncludeTerm |-> 1, Data |-> "x"]
Read     == [Key |-> "k", ClientId |-> "id", RequestId |-> 1]
Write    == [Key |-> "k", Value |-> "x", Op |-> "Append", ClientId |-> "id", RequestId |-> 2]

\* Two threads of a Raft server and one peer.
PeerLoad(method, args) ==
  [method    |-> (c1 :> "AppendEntries" @@ c2 :> method),
   args      |-> (c1 :> Heartbeat @@ c2 :> args),
   oneThread |-> FALSE]

\* A clerk.
ClerkLoad ==
  [method    |-> (c1 :> "Get" @@ c2 :> "PutAppend" @@ c3 :> "Get"),
   args      |-> (c1 :> Read @@ c2 :> Write @@ c3 :> Read),
   oneThread |-> TRUE]

VoteLoad == PeerLoad("RequestVote", Vote)

AllLoads  == {VoteLoad, PeerLoad("InstallSnapshot", Snapshot), ClerkLoad}
VoteLoads == {VoteLoad}

\* InstallSnapshot answers an outdated snapshot with an empty message, and a value
\* may be longer than the buffer of the caller.
SomeAnswers ==
  [AppendEntries   |-> {[Term |-> 1, Success |-> TRUE, UpdateNextIndex |-> 0, AppState |-> 1]},
   RequestVote     |-> {[Term |-> 1, VoteGranted |-> g, VoteState |-> 3] : g \in BOOLEAN},
   InstallSnapshot |-> {[Term |-> t] : t \in {0, 1}},
   PutAppend       |-> {[Err |-> "OK"]},
   Get             |-> {[Err |-> "OK", Value |-> v] : v \in {"x", "long"}}]

SmallValues ==
  LET entries == {[Command |-> c, LogTerm |-> t, LogIndex |-> 1] : c \in {"", "x"}, t \in {0, 1}}
  IN  [int32   |-> {-1, 0, 1},
       bool    |-> BOOLEAN,
       bytes   |-> {"", "x"},
       entries |-> {<<>>} \cup {<<e, f>> : e \in entries, f \in entries}]

\* Every message with few values per field comes back from the wire as it was.
ASSUME RoundTripAssumption == RoundTrip(SmallValues)

\* What the proofs about RpcChannel assume of the wire holds of these messages.
ASSUME WireAssumption == RequestsTravel /\ RepliesTravel

=============================================================================
