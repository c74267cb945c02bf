----------------------------- MODULE MCSession -----------------------------
(* Instance of ThreadSession for TLC. Callers are interchangeable. States    *)
(* that differ only in what nobody can look at any more are the same to TLC:  *)
(* the connection of a caller that is idle, and the actor of a connection     *)
(* that is gone and that no command uses.                                    *)
EXTENDS ThreadSession, TLC

CallerSymmetry == Permutations(Callers)

InUse(e) == Alive(e) \/ \E c \in Callers : pc[c] \in Waiting \cup Holding /\ via[c] = e

SessionView ==
  <<thread, turns, journal, conn, server, wire, remote, workflow, pc, mine, reply, issued,
    [e \in Connections |-> IF InUse(e) THEN actor[e] ELSE Fresh],
    [c \in Callers |-> IF pc[c] \in Waiting \cup Holding THEN via[c] ELSE 0]>>

=============================================================================
