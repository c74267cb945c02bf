------------------------------ MODULE MCTables ------------------------------
(* The two tables of requests that meet processes of others: the commands of *)
(* the MCP server and the connection to Codex. They share nothing; a run     *)
(* is a run of one of them (part).                                           *)
EXTENDS CommandServer, CodexRpc, TLC

VARIABLE part

vars == <<part, commandVars, codexVars>>

Init == part \in {"commands", "codex"} /\ CommandInit /\ CodexInit

Next ==
  /\ UNCHANGED part
  /\ \/ part = "commands" /\ CommandNext /\ UNCHANGED codexVars
     \/ part = "codex" /\ CodexNext /\ UNCHANGED commandVars

Spec == Init /\ [][Next]_vars /\ CommandFairness /\ CodexFairness

-----------------------------------------------------------------------------
(* Properties *)

\* The types of both parts.
TypeOK == CommandType /\ CodexType

\* The books of the command server agree with its commands: the ids that a cancel
\* may name, the permits, and no process that outlives its request.
CommandBooks == IdsAreExact /\ SlotsAreExact /\ NoStrayProcess

\* Every command ends, whatever its processes and its client do, and every request
\* that Codex has received, whether it is answered or not: when no more are made (their
\* number is bounded here), none is left waiting. A write to Codex has no timeout
\* (CodexProvider::write, and the reader and the task of a tool call, which write
\* themselves), so a request that is still to be written, or waits for its turn to
\* write, ends provided that Codex goes on reading its input, or dies or is shut down;
\* then no two tasks wait for each other's mutex for ever either.
EveryRequestEnds ==
  /\ <>[]CommandsQuiet /\ <>[]RepliesQuiet
  /\ []<>Flows => <>[]CallsQuiet
=============================================================================
