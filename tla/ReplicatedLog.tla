---------------------------- MODULE ReplicatedLog ----------------------------
(***************************************************************************)
(* What Raft promises to the service above it: all servers are handed the  *)
(* same sequence of commands, each of them some prefix of it, and nothing  *)
(* that was chosen or handed over is ever taken back.  MCRaft checks that  *)
(* Raft implements this where neither of its two flaws, the suffix that is *)
(* not cut and the restart that forgets, gets in the way.  KvServer is     *)
(* written on top of it.                                                   *)
(***************************************************************************)
EXTENDS Sequences, SequencesExt

CONSTANT Server

VARIABLES chosen,      \* the commands the servers have agreed on
          delivered    \* for each server, what its service was handed so far

LogInit == chosen = <<>> /\ delivered = [i \in Server |-> <<>>]

\* Some server finds commands committed that no server knew to be.
Choose ==
  /\ IsStrictPrefix(chosen, chosen')
  /\ UNCHANGED delivered

\* A server hands over more of what is chosen.
Deliver(i) ==
  /\ IsStrictPrefix(delivered[i], delivered'[i])
  /\ IsPrefix(delivered'[i], chosen)
  /\ \A j \in Server \ {i} : delivered'[j] = delivered[j]
  /\ DOMAIN delivered' = Server
  /\ UNCHANGED chosen

LogSpec == LogInit /\ [][Choose \/ \E i \in Server : Deliver(i)]_<<chosen, delivered>>

=============================================================================
