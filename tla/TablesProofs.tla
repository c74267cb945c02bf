----------------------------- MODULE TablesProofs -----------------------------
(* Theorems about the two tables of requests, CommandServer and CodexRpc, for   *)
(* any sets of requests, ids, calls and answers, and any capacities.            *)
EXTENDS MCTables, TLAPS, FiniteSetTheorems, SequenceTheorems

-----------------------------------------------------------------------------
(* CommandServer: the books of the commands *)

\* Where a request holds a permit.
Holding == {"running", "drained", "expired"}

\* The types, but for the number of free slots, which the books bound.
CommandTyped ==
  /\ pendingIds \in [Ids -> {"absent", "armed", "taken"}]
  /\ request \in [Requests -> [at : Live \cup {"idle"}, id : Ids]]
  /\ slots \in Nat
  /\ group \in [Requests -> [leader : BOOLEAN, others : BOOLEAN, detached : BOOLEAN]]
  /\ received \in 0..MaxReceived

\* An id is occupied if a future with it lives, and no two futures have one.
IdsOfFutures ==
  /\ \A r \in Requests : request[r].at \in Live => pendingIds[request[r].id] # "absent"
  /\ \A i \in Ids : pendingIds[i] # "absent" =>
       \E r \in Requests : request[r].at \in Live /\ request[r].id = i
  /\ \A r, q \in Requests :
       request[r].at \in Live /\ request[q].at \in Live /\ request[r].id = request[q].id => r = q

\* The inductive invariant of the commands.
CommandInv == CommandTyped /\ IdsOfFutures /\ SlotsAreExact /\ NoStrayProcess

\* The futures that hold a permit.
Holders == {r \in Requests : request[r].at \in Holding}

\* A set of requests is finite, and one more or one less counts as one.
LEMMA Counting ==
  ASSUME NEW S, S \subseteq Requests
  PROVE  /\ Cardinality(S) \in Nat
         /\ \A r \in Requests \ S : Cardinality(S \cup {r}) = Cardinality(S) + 1
         /\ \A r \in S : Cardinality(S \ {r}) = Cardinality(S) - 1
  <1>1. IsFiniteSet(S)
    BY FS_Subset, CommandAssumption
  <1>2. Cardinality(S) \in Nat
    BY <1>1, FS_CardinalityType
  <1>3. \A r \in Requests \ S : Cardinality(S \cup {r}) = Cardinality(S) + 1
    BY <1>1, FS_AddElement
  <1>4. \A r \in S : Cardinality(S \ {r}) = Cardinality(S) - 1
    BY <1>1, FS_RemoveElement
  <1> QED
    BY <1>2, <1>3, <1>4

\* Before the first request all slots are free.
LEMMA CommandStarts == CommandInit => CommandInv
  <1> SUFFICES ASSUME CommandInit PROVE CommandInv
    OBVIOUS
  <1> USE DEF CommandInit, NoRequest, Live
  <1>1. CommandTyped
    BY CommandAssumption DEF CommandTyped, NoGroup
  <1>2. IdsOfFutures
    BY DEF IdsOfFutures
  <1>3. Holders = {}
    BY DEF Holders, Holding
  <1>4. SlotsAreExact
    BY <1>3, FS_EmptySet, CommandAssumption DEF SlotsAreExact, Holders, Holding
  <1>5. NoStrayProcess
    BY DEF NoStrayProcess, Alive, NoGroup
  <1> QED
    BY <1>1, <1>2, <1>4, <1>5 DEF CommandInv

\* What may live of a process group.
Groups == [leader : BOOLEAN, others : BOOLEAN, detached : BOOLEAN]

\* A group that is killed, or has nothing alive, has nothing alive; others stay.
LEMMA KillsGroup ==
  ASSUME CommandTyped, NEW r \in Requests, Killed(r) \/ (UNCHANGED group /\ ~Alive(r))
  PROVE  /\ group' \in [Requests -> Groups]
         /\ ~Alive(r)' /\ \A q \in Requests : q # r => (Alive(q)' => Alive(q))
  <1>1. group \in [Requests -> Groups]
    BY DEF CommandTyped, Groups
  <1>2. CASE Killed(r)
    <2> DEFINE g == [group[r] EXCEPT !.leader = FALSE, !.others = FALSE]
    <2>1. group' = [group EXCEPT ![r] = g]
      BY <1>1, <1>2 DEF Killed, Groups
    <2>2. g \in Groups /\ ~g.leader /\ ~g.others
      BY <1>1 DEF Groups
    <2> HIDE DEF g
    <2>3. group'[r] = g /\ \A q \in Requests : q # r => group'[q] = group[q]
      BY <1>1, <2>1
    <2>4. group' \in [Requests -> Groups]
      BY <1>1, <2>1, <2>2
    <2> QED
      BY <2>2, <2>3, <2>4 DEF Alive
  <1>3. CASE UNCHANGED group /\ ~Alive(r)
    BY <1>1, <1>3 DEF Alive
  <1> QED
    BY <1>2, <1>3

\* A future that ends, with its group killed or gone.
LEMMA CommandOver ==
  ASSUME CommandInv, NEW r \in Requests, request[r].at \in Live, Over(r), UNCHANGED received,
         Killed(r) \/ (UNCHANGED group /\ ~Alive(r))
  PROVE  CommandInv'
  <1> USE DEF Live
  <1>1. CommandTyped /\ IdsOfFutures /\ SlotsAreExact /\ NoStrayProcess
    BY DEF CommandInv
  <1>2. /\ request' = [request EXCEPT ![r].at = "idle"]
        /\ pendingIds' = [pendingIds EXCEPT ![request[r].id] = "absent"]
        /\ slots' = IF request[r].at \in Holding THEN slots + 1 ELSE slots
    BY DEF Over, Holding
  <1>3. /\ group' \in [Requests -> Groups]
        /\ ~Alive(r)' /\ \A q \in Requests : q # r => (Alive(q)' => Alive(q))
    BY <1>1, KillsGroup
  <1>4. CommandTyped'
    <2>1. request' \in [Requests -> [at : Live \cup {"idle"}, id : Ids]] /\ slots' \in Nat
      BY <1>1, <1>2 DEF CommandTyped
    <2>2. pendingIds' \in [Ids -> {"absent", "armed", "taken"}]
      BY <1>1, <1>2 DEF CommandTyped
    <2> QED
      BY <1>1, <1>3, <2>1, <2>2 DEF CommandTyped, Groups
  <1>5. IdsOfFutures'
    BY <1>1, <1>2 DEF CommandTyped, IdsOfFutures
  <1>6. SlotsAreExact'
    <2>1. Holders' = Holders \ {r}
      BY <1>1, <1>2 DEF Holders, Holding, CommandTyped
    <2>2. r \in Holders <=> request[r].at \in Holding
      BY DEF Holders
    <2>3. Holders \subseteq Requests
      BY DEF Holders
    <2>4. slots + Cardinality(Holders) = MaxSlots
      BY <1>1 DEF SlotsAreExact, Holders, Holding
    <2>5. CASE r \in Holders
      <3>1. Cardinality(Holders') = Cardinality(Holders) - 1 /\ Cardinality(Holders) \in Nat
        BY <2>1, <2>3, <2>5, Counting
      <3>2. slots' + Cardinality(Holders') = MaxSlots
        BY <3>1, <2>2, <2>4, <2>5, <1>1, <1>2 DEF CommandTyped
      <3> QED
        BY <3>2 DEF SlotsAreExact, Holders, Holding
    <2>6. CASE r \notin Holders
      <3>1. slots' + Cardinality(Holders') = MaxSlots
        BY <2>1, <2>2, <2>4, <2>6, <1>2
      <3> QED
        BY <3>1 DEF SlotsAreExact, Holders, Holding
    <2> QED
      BY <2>5, <2>6
  <1>7. NoStrayProcess'
    BY <1>1, <1>2, <1>3 DEF NoStrayProcess, CommandTyped
  <1> QED
    BY <1>4, <1>5, <1>6, <1>7 DEF CommandInv

\* A future that lives on at another place, and holds a permit if it held one.
LEMMA CommandMoves ==
  ASSUME CommandInv, NEW r \in Requests, request[r].at \in Live, NEW p \in Live,
         request' = [request EXCEPT ![r].at = p], request[r].at \in Holding <=> p \in Holding,
         UNCHANGED <<pendingIds, slots, received>>, Killed(r) \/ (UNCHANGED group /\ ~Alive(r))
  PROVE  CommandInv'
  <1>1. CommandTyped /\ IdsOfFutures /\ SlotsAreExact /\ NoStrayProcess
    BY DEF CommandInv
  <1>2. /\ group' \in [Requests -> Groups]
        /\ ~Alive(r)' /\ \A q \in Requests : q # r => (Alive(q)' => Alive(q))
    BY <1>1, KillsGroup
  <1>3. CommandTyped'
    BY <1>1, <1>2 DEF CommandTyped, Groups
  <1>4. IdsOfFutures'
    BY <1>1 DEF CommandTyped, IdsOfFutures
  <1>5. SlotsAreExact'
    <2>1. Holders' = Holders
      BY <1>1 DEF Holders, CommandTyped
    <2> QED
      BY <2>1, <1>1 DEF SlotsAreExact, Holders, Holding
  <1>6. NoStrayProcess'
    BY <1>1, <1>2 DEF NoStrayProcess, CommandTyped
  <1> QED
    BY <1>3, <1>4, <1>5, <1>6 DEF CommandInv

\* A request is received, under an id that is free.
LEMMA CommandReceives ==
  ASSUME CommandInv, NEW r \in Requests, NEW i \in Ids, Receive(r, i)
  PROVE  CommandInv'
  <1> USE DEF Live
  <1>1. CommandTyped /\ IdsOfFutures /\ SlotsAreExact /\ NoStrayProcess
    BY DEF CommandInv
  <1>2. /\ request[r].at = "idle" /\ pendingIds[i] = "absent"
        /\ request' = [request EXCEPT ![r] = [at |-> "registered", id |-> i]]
        /\ pendingIds' = [pendingIds EXCEPT ![i] = "armed"]
        /\ group' = [group EXCEPT ![r] = NoGroup]
        /\ received' = received + 1 /\ received < MaxReceived /\ UNCHANGED slots
    BY DEF Receive
  <1>3. CommandTyped'
    BY <1>1, <1>2, CommandAssumption DEF CommandTyped, NoGroup
  <1>4. IdsOfFutures'
    <2>1. \A q \in Requests : q # r => request'[q] = request[q]
      BY <1>1, <1>2 DEF CommandTyped
    <2>2. request'[r] = [at |-> "registered", id |-> i]
      BY <1>1, <1>2 DEF CommandTyped
    <2>3. pendingIds'[i] = "armed" /\ \A j \in Ids : j # i => pendingIds'[j] = pendingIds[j]
      BY <1>1, <1>2 DEF CommandTyped
    <2>4. \A q \in Requests : request[q].at \in Live => request[q].id # i /\ q # r
      BY <1>1, <1>2 DEF IdsOfFutures
    <2>5. \A q \in Requests : request[q].id \in Ids
      BY <1>1 DEF CommandTyped
    <2> QED
      BY <2>1, <2>2, <2>3, <2>4, <2>5, <1>1 DEF IdsOfFutures
  <1>5. SlotsAreExact'
    <2>1. Holders' = Holders
      BY <1>1, <1>2 DEF Holders, Holding, CommandTyped
    <2> QED
      BY <2>1, <1>1, <1>2 DEF SlotsAreExact, Holders, Holding
  <1>6. NoStrayProcess'
    BY <1>1, <1>2 DEF NoStrayProcess, CommandTyped, Alive, NoGroup
  <1> QED
    BY <1>3, <1>4, <1>5, <1>6 DEF CommandInv

\* A command is started, and takes a permit.
LEMMA CommandSpawned ==
  ASSUME CommandInv, NEW r \in Requests, Spawned(r)
  PROVE  CommandInv'
  <1> USE DEF Live
  <1>1. CommandTyped /\ IdsOfFutures /\ SlotsAreExact /\ NoStrayProcess
    BY DEF CommandInv
  <1>2. /\ request[r].at = "begun" /\ slots > 0 /\ slots' = slots - 1
        /\ request' = [request EXCEPT ![r].at = "running"]
        /\ group' = [group EXCEPT ![r] = [NoGroup EXCEPT !.leader = TRUE]]
        /\ UNCHANGED <<pendingIds, received>>
    BY DEF Spawned
  <1>3. CommandTyped'
    <2>1. [NoGroup EXCEPT !.leader = TRUE] \in Groups
      BY DEF NoGroup, Groups
    <2>2. group' \in [Requests -> Groups]
      BY <1>1, <1>2, <2>1 DEF CommandTyped, Groups
    <2> QED
      BY <1>1, <1>2, <2>2 DEF CommandTyped, Groups
  <1>4. IdsOfFutures'
    BY <1>1, <1>2 DEF CommandTyped, IdsOfFutures
  <1>5. SlotsAreExact'
    <2>1. Holders' = Holders \cup {r}
      BY <1>1, <1>2 DEF Holders, Holding, CommandTyped
    <2>2. r \in Requests \ Holders /\ Holders \subseteq Requests
      BY <1>2 DEF Holders, Holding
    <2>3. Cardinality(Holders') = Cardinality(Holders) + 1 /\ Cardinality(Holders) \in Nat
      BY <2>1, <2>2, Counting
    <2>4. slots + Cardinality(Holders) = MaxSlots
      BY <1>1 DEF SlotsAreExact, Holders, Holding
    <2>5. slots' + Cardinality(Holders') = MaxSlots
      BY <1>1, <1>2, <2>3, <2>4 DEF CommandTyped
    <2> QED
      BY <2>5 DEF SlotsAreExact, Holders, Holding
  <1>6. NoStrayProcess'
    <2>1. \A q \in Requests : q # r => group'[q] = group[q] /\ request'[q] = request[q]
      BY <1>1, <1>2 DEF CommandTyped
    <2>2. request'[r].at = "running"
      BY <1>1, <1>2 DEF CommandTyped
    <2> QED
      BY <1>1, <2>1, <2>2 DEF NoStrayProcess, Alive
  <1> QED
    BY <1>3, <1>4, <1>5, <1>6 DEF CommandInv

\* A step of processes only: nothing comes to life where nothing is alive.
LEMMA CommandProcesses ==
  ASSUME CommandInv, NEW r \in Requests, NEW g \in Groups, group' = [group EXCEPT ![r] = g],
         g.leader \/ g.others => Alive(r), UNCHANGED <<pendingIds, request, slots, received>>
  PROVE  CommandInv'
  <1>1. CommandTyped /\ IdsOfFutures /\ SlotsAreExact /\ NoStrayProcess
    BY DEF CommandInv
  <1>2. group' \in [Requests -> Groups]
    BY <1>1 DEF CommandTyped, Groups
  <1>3. CommandTyped'
    BY <1>1, <1>2 DEF CommandTyped, Groups
  <1>4. IdsOfFutures' /\ SlotsAreExact'
    BY <1>1 DEF IdsOfFutures, SlotsAreExact
  <1>5. NoStrayProcess'
    <2>1. group'[r] = g /\ \A q \in Requests : q # r => group'[q] = group[q]
      BY <1>1 DEF CommandTyped
    <2> QED
      BY <1>1, <2>1 DEF NoStrayProcess, Alive
  <1> QED
    BY <1>3, <1>4, <1>5 DEF CommandInv

\* Every step of the command server keeps its books.
LEMMA CommandKeeps == CommandInv /\ [CommandNext]_commandVars => CommandInv'
  <1> SUFFICES ASSUME CommandInv, [CommandNext]_commandVars PROVE CommandInv'
    OBVIOUS
  <1>1. CommandTyped /\ NoStrayProcess
    BY DEF CommandInv
  <1>2. CASE UNCHANGED commandVars
    BY <1>2 DEF commandVars, CommandInv, CommandTyped, IdsOfFutures, SlotsAreExact,
                NoStrayProcess, Alive
  <1>3. ASSUME NEW r \in Requests, NEW i \in Ids, Receive(r, i) PROVE CommandInv'
    BY <1>3, CommandReceives
  <1>4. ASSUME NEW r \in Requests, CancelWins(r) \/ HangUp(r) PROVE CommandInv'
    BY <1>4, CommandOver DEF CancelWins, HangUp, KilledOnDrop
  <1>5. ASSUME NEW r \in Requests, Begun(r) PROVE CommandInv'
    <2>1. request[r].at = "registered" /\ ~Alive(r)
      BY <1>1, <1>5 DEF Begun, NoStrayProcess
    <2> QED
      BY <1>5, <2>1, CommandMoves DEF Begun, Live, Holding
  <1>6. ASSUME NEW r \in Requests, Refused(r) PROVE CommandInv'
    <2>1. request[r].at = "begun" /\ ~Alive(r)
      BY <1>1, <1>6 DEF Refused, NoStrayProcess
    <2> QED
      BY <1>6, <2>1, CommandOver DEF Refused, Live
  <1>7. ASSUME NEW r \in Requests, Spawned(r) PROVE CommandInv'
    BY <1>7, CommandSpawned
  <1>8. ASSUME NEW r \in Requests, Forks(r) PROVE CommandInv'
    <2>1. group \in [Requests -> Groups] /\ Alive(r)
      BY <1>1, <1>8 DEF CommandTyped, Groups, Forks
    <2>2. CASE group' = [group EXCEPT ![r].others = TRUE]
      <3>1. [group[r] EXCEPT !.others = TRUE] \in Groups
        BY <2>1 DEF Groups
      <3> QED
        BY <2>1, <2>2, <3>1, <1>8, CommandProcesses DEF Forks
    <2>3. CASE group' = [group EXCEPT ![r].detached = TRUE]
      <3>1. [group[r] EXCEPT !.detached = TRUE] \in Groups
        BY <2>1 DEF Groups
      <3> QED
        BY <2>1, <2>3, <3>1, <1>8, CommandProcesses DEF Forks
    <2> QED
      BY <2>2, <2>3, <1>8 DEF Forks
  <1>9. ASSUME NEW r \in Requests, Exits(r) PROVE CommandInv'
    <2>1. group \in [Requests -> Groups] /\ UNCHANGED <<pendingIds, request, slots, received>>
      BY <1>1, <1>9 DEF CommandTyped, Groups, Exits
    <2>2. \A g \in Groups : group' = [group EXCEPT ![r] = g] /\ (g.leader \/ g.others => Alive(r))
                              => CommandInv'
      BY <2>1, CommandProcesses
    <2>3. CASE group' = [group EXCEPT ![r].leader = FALSE]
      <3>1. /\ [group[r] EXCEPT !.leader = FALSE] \in Groups
            /\ group' = [group EXCEPT ![r] = [group[r] EXCEPT !.leader = FALSE]]
            /\ [group[r] EXCEPT !.leader = FALSE].others => group[r].others
            /\ ~[group[r] EXCEPT !.leader = FALSE].leader
        BY <2>1, <2>3 DEF Groups
      <3> QED
        BY <2>2, <3>1 DEF Alive
    <2>4. CASE group' = [group EXCEPT ![r].others = FALSE]
      <3>1. /\ [group[r] EXCEPT !.others = FALSE] \in Groups
            /\ group' = [group EXCEPT ![r] = [group[r] EXCEPT !.others = FALSE]]
            /\ [group[r] EXCEPT !.others = FALSE].leader => group[r].leader
            /\ ~[group[r] EXCEPT !.others = FALSE].others
        BY <2>1, <2>4 DEF Groups
      <3> QED
        BY <2>2, <3>1 DEF Alive
    <2>5. CASE group' = [group EXCEPT ![r].detached = FALSE]
      <3>1. /\ [group[r] EXCEPT !.detached = FALSE] \in Groups
            /\ group' = [group EXCEPT ![r] = [group[r] EXCEPT !.detached = FALSE]]
            /\ [group[r] EXCEPT !.detached = FALSE].leader => group[r].leader
            /\ [group[r] EXCEPT !.detached = FALSE].others => group[r].others
        BY <2>1, <2>5 DEF Groups
      <3> QED
        BY <2>2, <3>1 DEF Alive
    <2> QED
      BY <2>3, <2>4, <2>5, <1>9 DEF Exits
  <1>10. ASSUME NEW r \in Requests, Waited(r) PROVE CommandInv'
    BY <1>10, CommandMoves DEF Waited, Live, Holding
  <1>11. ASSUME NEW r \in Requests, Answered(r) PROVE CommandInv'
    <2>1. request[r].at = "drained" /\ ~Alive(r)
      BY <1>1, <1>11 DEF Answered, NoStrayProcess
    <2> QED
      BY <1>11, <2>1, CommandOver DEF Answered, Live
  <1>12. ASSUME NEW r \in Requests, Expires(r) PROVE CommandInv'
    BY <1>12, CommandMoves DEF Expires, UnderTimeout, Live, Holding
  <1>13. ASSUME NEW r \in Requests, AnsweredLate(r) PROVE CommandInv'
    <2>1. request[r].at = "expired" /\ ~Alive(r)
      BY <1>1, <1>13 DEF AnsweredLate, NoStrayProcess
    <2> QED
      BY <1>13, <2>1, CommandOver DEF AnsweredLate, Live
  <1>14. ASSUME NEW i \in Ids, Cancel(i) PROVE CommandInv'
    <2>1. /\ pendingIds[i] = "armed" /\ pendingIds' = [pendingIds EXCEPT ![i] = "taken"]
          /\ UNCHANGED <<request, slots, group, received>>
      BY <1>14 DEF Cancel, Cancelled
    <2>2. CommandTyped' /\ IdsOfFutures'
      BY <2>1 DEF CommandInv, CommandTyped, IdsOfFutures
    <2>3. SlotsAreExact' /\ NoStrayProcess'
      BY <2>1 DEF CommandInv, SlotsAreExact, NoStrayProcess, Alive
    <2> QED
      BY <2>2, <2>3 DEF CommandInv
  <1> QED
    BY <1>2, <1>3, <1>4, <1>5, <1>6, <1>7, <1>8, <1>9, <1>10, <1>11, <1>12, <1>13, <1>14
       DEF CommandNext

\* The books: each id has its one future, and the permits are within their number.
LEMMA CommandIsExact == CommandInv => CommandType /\ CommandBooks
  <1> SUFFICES ASSUME CommandInv PROVE CommandType /\ CommandBooks
    OBVIOUS
  <1>1. CommandTyped /\ IdsOfFutures /\ SlotsAreExact /\ NoStrayProcess
    BY DEF CommandInv
  <1>2. IdsAreExact
    <2> SUFFICES ASSUME NEW i \in Ids
                 PROVE  Cardinality({r \in Requests : request[r].at \in Live /\ request[r].id = i})
                          = IF pendingIds[i] = "absent" THEN 0 ELSE 1
      BY DEF IdsAreExact
    <2> DEFINE F == {r \in Requests : request[r].at \in Live /\ request[r].id = i}
    <2>1. CASE pendingIds[i] = "absent"
      <3>1. F = {}
        BY <1>1, <2>1 DEF IdsOfFutures
      <3> QED
        BY <3>1, <2>1, FS_EmptySet
    <2>2. CASE pendingIds[i] # "absent"
      <3>1. PICK r \in Requests : request[r].at \in Live /\ request[r].id = i
        BY <1>1, <2>2 DEF IdsOfFutures
      <3>2. F = {r}
        BY <1>1, <3>1 DEF IdsOfFutures
      <3> QED
        BY <3>2, <2>2, FS_Singleton
    <2> QED
      BY <2>1, <2>2
  <1>3. slots \in 0..MaxSlots
    <2>1. Cardinality(Holders) \in Nat
      BY Counting DEF Holders
    <2>2. slots + Cardinality(Holders) = MaxSlots
      BY <1>1 DEF SlotsAreExact, Holders, Holding
    <2> QED
      BY <1>1, <2>1, <2>2, CommandAssumption DEF CommandTyped
  <1> QED
    BY <1>1, <1>2, <1>3 DEF CommandType, CommandTyped, CommandBooks

-----------------------------------------------------------------------------
(* CodexRpc: the types, the plan and the answer *)

\* A sequence with one more at its end.
LEMMA Appended ==
  ASSUME NEW T, NEW s \in Seq(T), NEW x \in T
  PROVE  /\ Append(s, x) \in Seq(T) /\ Len(Append(s, x)) = Len(s) + 1 /\ Len(s) \in Nat
         /\ Append(s, x)[Len(s) + 1] = x
         /\ \A n \in 1..Len(s) : Append(s, x)[n] = s[n]
  OBVIOUS

\* A sequence without its first.
LEMMA Tailed ==
  ASSUME NEW T, NEW s \in Seq(T), s # << >>
  PROVE  /\ Tail(s) \in Seq(T) /\ Len(Tail(s)) = Len(s) - 1 /\ Len(s) \in Nat \ {0}
         /\ Head(s) = s[1] /\ s[1] \in T
         /\ \A n \in 1..Len(s) - 1 : Tail(s)[n] = s[n + 1]
  OBVIOUS

\* What a line is.
LEMMA LineType ==
  ASSUME NEW line \in LinesType
  PROVE  /\ line.kind \in {"reply", "question", "tool", "approval", "message", "completed"}
         /\ line.kind = "reply" => line.of \in Calls
  BY DEF LinesType, Reply, Line, Asks, Notes

\* The lines that the server says.
LEMMA LineTypes ==
  /\ \A c \in Calls : Reply(c) \in LinesType /\ Reply(c).kind = "reply"
  /\ \A k \in Asks \cup Notes : Line(k) \in LinesType /\ Line(k).kind = k
  BY DEF LinesType, Reply, Line

\* The server says a line, if it has room for it.
LEMMA SaysType ==
  ASSUME CodexType, NEW line \in LinesType, Says(line)
  PROVE  lines' \in Seq(LinesType) /\ Len(lines') <= MaxLines
  BY Appended, CodexAssumption DEF CodexType, Says

\* A line is read.
LEMMA ReadType ==
  ASSUME CodexType, lines # << >>, lines' = Tail(lines)
  PROVE  lines' \in Seq(LinesType) /\ Len(lines') <= MaxLines /\ Head(lines) \in LinesType
  <1>1. lines \in Seq(LinesType) /\ Len(lines) <= MaxLines /\ MaxLines \in Nat
    BY CodexAssumption DEF CodexType
  <1>2. Tail(lines) \in Seq(LinesType) /\ Len(Tail(lines)) = Len(lines) - 1 /\ Len(lines) \in Nat
    BY <1>1, Tailed
  <1>3. Head(lines) \in LinesType
    BY <1>1, Tailed
  <1> QED
    BY <1>1, <1>2, <1>3

\* An event is broadcast, and the oldest one makes room for it.
LEMMA BroadcastType ==
  ASSUME CodexType, NEW k \in Notes, Broadcast(k)
  PROVE  /\ events' \in Seq(Notes) /\ Len(events') <= MaxEvents
         /\ planner' \in [at : {"idle", "subscribed", "listening", "returned", "failed"},
                          output : BOOLEAN, lagged : BOOLEAN]
  <1>1. /\ events \in Seq(Notes) /\ Len(events) <= MaxEvents
        /\ planner \in [at : {"idle", "subscribed", "listening", "returned", "failed"},
                        output : BOOLEAN, lagged : BOOLEAN]
        /\ MaxEvents \in Nat \ {0}
    BY CodexAssumption DEF CodexType
  <1>2. CASE ~Hears
    BY <1>1, <1>2 DEF Broadcast, planVars
  <1>3. CASE Hears /\ Len(events) < MaxEvents
    BY <1>1, <1>3, Appended DEF Broadcast
  <1>4. CASE Hears /\ ~(Len(events) < MaxEvents)
    <2>1. events' = Append(Tail(events), k) /\ planner' = [planner EXCEPT !.lagged = TRUE]
      BY <1>4 DEF Broadcast
    <2>2. events # << >>
      BY <1>1, <1>4
    <2>3. Tail(events) \in Seq(Notes) /\ Len(Tail(events)) = Len(events) - 1 /\ Len(events) \in Nat
      BY <1>1, <2>2, Tailed
    <2>4. events' \in Seq(Notes) /\ Len(events') = Len(Tail(events)) + 1
      BY <2>1, <2>3, Appended
    <2>5. Len(events') <= MaxEvents
      BY <1>1, <2>3, <2>4
    <2>6. planner' \in [at : {"idle", "subscribed", "listening", "returned", "failed"},
                        output : BOOLEAN, lagged : BOOLEAN]
      BY <1>1, <2>1
    <2> QED
      BY <2>4, <2>5, <2>6
  <1> QED
    BY <1>2, <1>3, <1>4

\* What the server knows.
ServerType == [got : SUBSET Calls, replied : SUBSET Calls, asked : SUBSET Asks,
               turn : {"none", "running", "said", "ended"}, answers : Nat,
               stalled : BOOLEAN]

\* Every step of the connection keeps its types.
LEMMA CodexTypeStep == CodexType /\ CodexNext => CodexType'
  <1> SUFFICES ASSUME CodexType, CodexNext PROVE CodexType'
    OBVIOUS
  <1> USE DEF linkVars, inputVars, askVars, planVars
  <1>0. /\ process \in BOOLEAN /\ alive \in BOOLEAN
        /\ reader \in {"reading", "rejecting", "writing", "ending", "stopped"}
        /\ stdin \in Writers \cup {Nobody}
        /\ pending \subseteq Calls
        /\ call \in [Calls -> Waiting \cup {"idle", "answered", "failed"}]
        /\ lines \in Seq(LinesType) /\ Len(lines) <= MaxLines
        /\ server \in ServerType
        /\ question \in {"none", "pending"}
        /\ answer \in [Answers -> {"idle", "locked", "writing", "done"}]
        /\ toolCall \in {"none", "running", "ready", "writing", "over"}
        /\ planner \in [at : {"idle", "subscribed", "listening", "returned", "failed"},
                        output : BOOLEAN, lagged : BOOLEAN]
        /\ events \in Seq(Notes) /\ Len(events) <= MaxEvents
    BY DEF CodexType, ServerType
  <1>a. server.got \subseteq Calls /\ server.replied \subseteq Calls /\ server.asked \subseteq Asks
    BY DEF CodexType
  <1>1. ASSUME NEW c \in Calls, Ask(c) \/ Register(c) \/ Write(c) \/ TimesOut(c) PROVE CodexType'
    BY <1>0, <1>1 DEF Ask, Register, Write, TimesOut, CodexType, Waiting, Writers, ServerType
  <1>2. ASSUME NEW c \in Calls, Written(c) PROVE CodexType'
    <2>1. UNCHANGED server \/ \E turn \in {"running", server.turn} :
            server' = [server EXCEPT !.got = @ \cup {c}, !.turn = turn]
      BY <1>2 DEF Written
    <2>2. server.got \cup {c} \in SUBSET Calls
      BY <1>a
    <2>3. server' \in ServerType
      BY <1>0, <2>1, <2>2 DEF ServerType
    <2> QED
      BY <1>0, <1>2, <2>3 DEF Written, CodexType, Waiting, ServerType
  <1>3. ASSUME NEW c \in Calls, ServerReplies(c) PROVE CodexType'
    <2>1. lines' \in Seq(LinesType) /\ Len(lines') <= MaxLines
      BY <1>3, SaysType, LineTypes DEF ServerReplies
    <2>2. server.replied \cup {c} \in SUBSET Calls
      BY <1>a
    <2>3. server' \in ServerType
      BY <1>0, <1>3, <2>2 DEF ServerReplies, ServerType
    <2>4. UNCHANGED <<linkVars, stdin, askVars, planVars, pending, call>>
      BY <1>3 DEF ServerReplies
    <2> QED
      BY <1>0, <2>1, <2>3, <2>4 DEF CodexType, ServerType
  <1>4. ASSUME NEW k \in Asks, ServerAsks(k) PROVE CodexType'
    <2>1. lines' \in Seq(LinesType) /\ Len(lines') <= MaxLines
      BY <1>4, SaysType, LineTypes DEF ServerAsks
    <2>2. server.asked \cup {k} \in SUBSET Asks
      BY <1>a
    <2>3. server' \in ServerType
      BY <1>0, <1>4, <2>2 DEF ServerAsks, ServerType
    <2>4. UNCHANGED <<linkVars, stdin, askVars, planVars, pending, call>>
      BY <1>4 DEF ServerAsks
    <2> QED
      BY <1>0, <2>1, <2>3, <2>4 DEF CodexType, ServerType
  <1>5. CASE ServerNotifies
    <2>1. lines' \in Seq(LinesType) /\ Len(lines') <= MaxLines
      BY <1>5, SaysType, LineTypes DEF ServerNotifies, Notes
    <2>2. server' \in ServerType
      BY <1>0, <1>5 DEF ServerNotifies, ServerType
    <2> QED
      BY <1>0, <1>5, <2>1, <2>2 DEF ServerNotifies, CodexType, ServerType
  <1>6. CASE ServerStalls \/ ServerDies \/ Shutdown
    <2>1. server' \in ServerType
      BY <1>0, <1>6 DEF ServerStalls, ServerDies, Shutdown, ServerType
    <2>2. /\ UNCHANGED <<reader, stdin, askVars, planVars, pending, call, lines>>
          /\ process' \in BOOLEAN /\ alive' \in BOOLEAN
      BY <1>0, <1>6 DEF ServerStalls, ServerDies, Shutdown
    <2> QED
      BY <1>0, <2>1, <2>2 DEF CodexType, ServerType
  <1>7. CASE ReadReply
    <2>1. lines # << >> /\ lines' = Tail(lines)
      BY <1>7 DEF ReadReply, Reads
    <2>2. lines' \in Seq(LinesType) /\ Len(lines') <= MaxLines
      BY <2>1, ReadType
    <2>3. pending' \subseteq Calls
      BY <1>0, <1>7 DEF ReadReply
    <2>4. call' \in [Calls -> Waiting \cup {"idle", "answered", "failed"}]
      BY <1>0, <1>7 DEF ReadReply
    <2>5. UNCHANGED <<linkVars, inputVars, askVars, planVars>>
      BY <1>7 DEF ReadReply
    <2> QED
      BY <1>0, <2>2, <2>3, <2>4, <2>5 DEF CodexType, ServerType
  <1>8. CASE ReadQuestion \/ ReadToolCall \/ ReadApproval
    <2>1. lines # << >> /\ lines' = Tail(lines)
      BY <1>8 DEF ReadQuestion, ReadToolCall, ReadApproval, Reads
    <2>2. lines' \in Seq(LinesType) /\ Len(lines') <= MaxLines
      BY <2>1, ReadType
    <2> QED
      BY <1>0, <1>8, <2>2 DEF ReadQuestion, ReadToolCall, ReadApproval, CodexType, ServerType
  <1>9. CASE Reject
    BY <1>0, <1>9 DEF Reject, CodexType, Writers, ServerType
  <1>10. CASE ReadNotification
    <2>1. PICK k \in Notes : Reads(k) /\ Broadcast(k)
                             /\ question' = IF k = "completed" THEN "none" ELSE question
      BY <1>10 DEF ReadNotification
    <2>2. lines # << >> /\ lines' = Tail(lines)
      BY <1>10, <2>1 DEF ReadNotification, Reads
    <2>3. lines' \in Seq(LinesType) /\ Len(lines') <= MaxLines
      BY <2>2, ReadType
    <2>4. /\ events' \in Seq(Notes) /\ Len(events') <= MaxEvents
          /\ planner' \in [at : {"idle", "subscribed", "listening", "returned", "failed"},
                           output : BOOLEAN, lagged : BOOLEAN]
      BY <2>1, BroadcastType
    <2>5. UNCHANGED <<process, reader, alive, stdin, server, answer, toolCall, pending, call>>
      BY <1>10 DEF ReadNotification
    <2> QED
      BY <1>0, <2>1, <2>3, <2>4, <2>5 DEF CodexType, ServerType
  <1>11. CASE ReaderGivesUp
    <2>1. lines' \in Seq(LinesType) /\ Len(lines') <= MaxLines
      BY <1>0, <1>11, ReadType DEF ReaderGivesUp
    <2>2. /\ UNCHANGED <<process, stdin, server, answer, toolCall, planner, events, pending, call>>
          /\ reader' = "ending" /\ alive' = FALSE /\ question' = "none"
      BY <1>11 DEF ReaderGivesUp, inputVars, planVars
    <2>3. /\ reader' \in {"reading", "rejecting", "writing", "ending", "stopped"}
          /\ alive' \in BOOLEAN /\ question' \in {"none", "pending"}
      BY <2>2
    <2>4. /\ process' \in BOOLEAN /\ stdin' \in Writers \cup {Nobody} /\ server' \in ServerType
          /\ toolCall' \in {"none", "running", "ready", "writing", "over"}
          /\ events' \in Seq(Notes) /\ Len(events') <= MaxEvents
      BY <1>0, <2>2
    <2> QED
      BY <1>0, <2>1, <2>2, <2>3, <2>4 DEF CodexType, ServerType
  <1>12. CASE ReaderDrains
    BY <1>0, <1>12 DEF ReaderDrains, CodexType, ServerType
  <1>13. ASSUME NEW a \in Answers, AnswerLocks(a) \/ AnswerWrites(a) \/ AnswerWritten(a)
         PROVE  CodexType'
    <2>1. stdin' \in Writers \cup {Nobody}
      BY <1>0, <1>13 DEF AnswerLocks, AnswerWrites, AnswerWritten, Writers
    <2>2. answer' \in [Answers -> {"idle", "locked", "writing", "done"}]
      BY <1>0, <1>13 DEF AnswerLocks, AnswerWrites, AnswerWritten
    <2>3. server' \in ServerType /\ question' \in {"none", "pending"}
      <3>1. \/ server' = server
            \/ server' = [server EXCEPT !.answers = @ + 1]
        BY <1>13 DEF AnswerLocks, AnswerWrites, AnswerWritten, inputVars
      <3>2. server \in ServerType
        BY <1>0
      <3>3. server' \in ServerType
        BY <3>1, <3>2 DEF ServerType
      <3>4. question' \in {question, "none", "pending"}
        BY <1>13 DEF AnswerLocks, AnswerWrites, AnswerWritten
      <3> QED
        BY <1>0, <3>3, <3>4
    <2>4. UNCHANGED <<process, reader, alive, toolCall, planner, events, pending, call, lines>>
      BY <1>13 DEF AnswerLocks, AnswerWrites, AnswerWritten
    <2> QED
      BY <1>0, <2>1, <2>2, <2>3, <2>4 DEF CodexType, ServerType
  <1>14. CASE ToolReturns \/ ToolWrites
    BY <1>0, <1>14 DEF ToolReturns, ToolWrites, CodexType, Writers, ServerType
  <1>15. CASE Subscribe \/ TurnStarted \/ PlannerGivesUp
    BY <1>0, <1>15 DEF Subscribe, TurnStarted, PlannerGivesUp, CodexType, ServerType
  <1>16. CASE PlannerReceives
    <2>1. events # << >> /\ events' = Tail(events)
      BY <1>16 DEF PlannerReceives
    <2>2. Tail(events) \in Seq(Notes) /\ Len(Tail(events)) = Len(events) - 1 /\ Len(events) \in Nat
      BY <1>0, <2>1, Tailed
    <2>3. events' \in Seq(Notes) /\ Len(events') <= MaxEvents
      BY <1>0, <2>1, <2>2, CodexAssumption
    <2>4. Head(events) \in {"message", "completed"}
      BY <1>0, <2>1, Tailed DEF Notes
    <2>5. planner' \in [at : {"idle", "subscribed", "listening", "returned", "failed"},
                        output : BOOLEAN, lagged : BOOLEAN]
      BY <1>0, <1>16, <2>4 DEF PlannerReceives
    <2>6. UNCHANGED <<process, reader, alive, stdin, server, question, answer, toolCall, pending, call, lines>>
      BY <1>16 DEF PlannerReceives, linkVars, inputVars, askVars
    <2> QED
      BY <1>0, <2>3, <2>5, <2>6 DEF CodexType, ServerType
  <1> QED
    BY <1>1, <1>2, <1>3, <1>4, <1>5, <1>6, <1>7, <1>8, <1>9, <1>10, <1>11, <1>12, <1>13, <1>14,
       <1>15, <1>16 DEF CodexNext

-----------------------------------------------------------------------------
(* CodexRpc: what the planner returns is complete *)

\* The reader goes on reading.
Reading == reader \in {"reading", "rejecting", "writing"}

\* The planner listens, or soon will, and has missed nothing so far.
Following == Hears /\ ~planner.lagged

\* A line of this kind is on its way.
Queued(kind) == \E m \in 1..Len(lines) : lines[m].kind = kind

\* The last message has reached the planner, or what it has yet to receive.
Heard == planner.output \/ \E m \in 1..Len(events) : events[m] = "message"

\* The message of a turn runs ahead of its end, from the server through the lines and
\* the events to the planner, which is there before the turn.
PlanInv ==
  /\ planner.at = "idle" =>
       /\ call[Planning] = "idle" /\ Planning \notin pending
       /\ server.turn = "none" /\ events = << >> /\ ~Queued("completed")
  /\ Following /\ Reading =>
       /\ server.turn = "said" => Heard \/ Queued("message")
       /\ \A n \in 1..Len(lines) : lines[n].kind = "completed" =>
            Heard \/ \E m \in 1..Len(lines) : m < n /\ lines[m].kind = "message"
  /\ Following =>
       \A n \in 1..Len(events) : events[n] = "completed" =>
         planner.output \/ \E m \in 1..Len(events) : m < n /\ events[m] = "message"
  /\ PlanIsComplete

\* A step that says and reads nothing, and starts no turn before the planner is there.
LEMMA PlanKept ==
  ASSUME PlanInv, UNCHANGED <<lines, planner, events>>, Reading' => Reading,
         server'.turn \in {server.turn, "running"},
         planner.at = "idle" => /\ server'.turn = server.turn
                                /\ call'[Planning] = "idle" /\ Planning \notin pending'
  PROVE  PlanInv'
  BY DEF PlanInv, Following, Hears, Queued, Heard, PlanIsComplete

\* The server says another line.
LEMMA PlanSaid ==
  ASSUME CodexType, PlanInv, NEW line \in LinesType, Says(line),
         UNCHANGED <<planner, events, reader, call, pending>>,
         line.kind = "message" => server.turn # "none",
         line.kind = "completed" => server.turn = "said",
         server'.turn = IF line.kind = "message" THEN "said"
                        ELSE IF line.kind = "completed" THEN "ended" ELSE server.turn
  PROVE  PlanInv'
  <1>1. /\ Len(lines') = Len(lines) + 1 /\ Len(lines) \in Nat /\ lines'[Len(lines) + 1] = line
        /\ \A n \in 1..Len(lines) : lines'[n] = lines[n]
    BY Appended DEF CodexType, Says
  <1>2. \A n \in 1..Len(lines') : n \in 1..Len(lines) \/ n = Len(lines')
    BY <1>1
  <1>3. planner.at = "idle" => line.kind \notin {"message", "completed"}
    BY DEF PlanInv
  <1>4. planner.at = "idle" => ~Queued("completed")'
    BY <1>1, <1>2, <1>3 DEF PlanInv, Queued
  <1>5. Heard' <=> Heard
    BY DEF Heard
  <1>6. Queued("message") => Queued("message")'
    BY <1>1 DEF Queued
  <1>7. line.kind = "message" => Queued("message")'
    BY <1>1 DEF Queued
  <1>8. ASSUME Following, Reading, NEW n \in 1..Len(lines'), lines'[n].kind = "completed", ~Heard
        PROVE  \E m \in 1..Len(lines') : m < n /\ lines'[m].kind = "message"
    <2>1. CASE n \in 1..Len(lines)
      <3>1. PICK m \in 1..Len(lines) : m < n /\ lines[m].kind = "message"
        BY <1>1, <1>8, <2>1 DEF PlanInv
      <3> QED
        BY <1>1, <3>1
    <2>2. CASE n = Len(lines')
      <3>1. line.kind = "completed" /\ server.turn = "said"
        BY <1>1, <1>8, <2>2
      <3>2. PICK m \in 1..Len(lines) : lines[m].kind = "message"
        BY <1>8, <3>1 DEF PlanInv, Queued
      <3> QED
        BY <1>1, <2>2, <3>2
    <2> QED
      BY <1>2, <2>1, <2>2
  <1>9. Following' = Following /\ Reading' = Reading
    BY DEF Following, Hears, Reading
  <1>10. Following /\ Reading =>
           /\ server'.turn = "said" => Heard \/ Queued("message")'
           /\ \A n \in 1..Len(lines') : lines'[n].kind = "completed" =>
                Heard \/ \E m \in 1..Len(lines') : m < n /\ lines'[m].kind = "message"
    BY <1>6, <1>7, <1>8 DEF PlanInv
  <1> QED
    BY <1>3, <1>4, <1>5, <1>9, <1>10 DEF PlanInv, Following, Hears, PlanIsComplete

\* A line is read that is of no concern to the planner.
LEMMA PlanRead ==
  ASSUME CodexType, PlanInv, lines # << >>, lines' = Tail(lines), Reading,
         Head(lines).kind \notin {"message", "completed"},
         UNCHANGED <<planner, events, server>>,
         planner.at = "idle" => call'[Planning] = "idle" /\ Planning \notin pending'
  PROVE  PlanInv'
  <1>1. /\ Len(lines') = Len(lines) - 1 /\ Len(lines) \in Nat \ {0} /\ Head(lines) = lines[1]
        /\ \A n \in 1..Len(lines') : lines'[n] = lines[n + 1]
    BY Tailed DEF CodexType
  <1>2. planner.at = "idle" => ~Queued("completed")'
    BY <1>1 DEF PlanInv, Queued
  <1>3. Queued("message") => Queued("message")'
    <2> SUFFICES ASSUME NEW m \in 1..Len(lines), lines[m].kind = "message"
                 PROVE  Queued("message")'
      BY DEF Queued
    <2>1. m # 1
      BY <1>1
    <2>2. m - 1 \in 1..Len(lines') /\ lines'[m - 1] = lines[m]
      BY <1>1, <2>1
    <2> QED
      BY <2>2 DEF Queued
  <1>4. ASSUME NEW n \in 1..Len(lines'), lines'[n].kind = "completed", Following, ~Heard
        PROVE  \E m \in 1..Len(lines') : m < n /\ lines'[m].kind = "message"
    <2>1. n + 1 \in 1..Len(lines) /\ lines[n + 1].kind = "completed"
      BY <1>1, <1>4
    <2>2. PICK m \in 1..Len(lines) : m < n + 1 /\ lines[m].kind = "message"
      BY <1>4, <2>1 DEF PlanInv
    <2>3. m # 1
      BY <1>1, <2>2
    <2>4. m - 1 \in 1..Len(lines') /\ m - 1 < n /\ lines'[m - 1] = lines[m]
      BY <1>1, <2>2, <2>3
    <2> QED
      BY <2>2, <2>4
  <1> QED
    BY <1>2, <1>3, <1>4 DEF PlanInv, Following, Hears, Heard, PlanIsComplete

\* A message or the end of a turn is read, and broadcast.
LEMMA PlanNotified ==
  ASSUME CodexType, PlanInv, NEW k \in Notes, Reads(k), Broadcast(k), lines' = Tail(lines),
         UNCHANGED <<linkVars, inputVars, call, pending>>
  PROVE  PlanInv'
  <1> USE DEF linkVars, inputVars, planVars
  <1>1. /\ Len(lines') = Len(lines) - 1 /\ Len(lines) \in Nat \ {0} /\ lines[1].kind = k
        /\ \A n \in 1..Len(lines') : lines'[n] = lines[n + 1]
        /\ Reading
    BY Tailed DEF CodexType, Reads, Reading
  <1>2. events \in Seq(Notes) /\ MaxEvents \in Nat \ {0}
    BY CodexAssumption DEF CodexType
  <1>3. planner'.at = planner.at /\ planner'.output = planner.output
    BY DEF Broadcast, CodexType
  <1>4. planner.at = "idle" => ~Queued("completed")' /\ events' = events
    BY <1>1 DEF PlanInv, Queued, Broadcast, Hears
  <1>5. PlanIsComplete'
    BY <1>3 DEF PlanInv, PlanIsComplete
  <1>6. Following' => Following /\ events' = Append(events, k)
    BY <1>3 DEF Following, Hears, Broadcast, CodexType
  <1>7. Following' => /\ Len(events') = Len(events) + 1 /\ Len(events) \in Nat
                      /\ events'[Len(events) + 1] = k
                      /\ \A n \in 1..Len(events) : events'[n] = events[n]
    BY <1>2, <1>6, Appended
  <1>8. Following' => (Heard => Heard') /\ (k = "message" => Heard')
    BY <1>3, <1>7 DEF Heard
  <1>9. ASSUME Following', server.turn = "said" PROVE Heard' \/ Queued("message")'
    <2>1. Heard \/ Queued("message")
      BY <1>1, <1>6, <1>9 DEF PlanInv
    <2>2. CASE k = "message" \/ Heard
      BY <1>8, <1>9, <2>2
    <2>3. CASE k # "message" /\ Queued("message")
      <3>1. PICK m \in 1..Len(lines) : lines[m].kind = "message"
        BY <2>3 DEF Queued
      <3>2. m - 1 \in 1..Len(lines') /\ lines'[m - 1] = lines[m]
        BY <1>1, <2>3, <3>1
      <3> QED
        BY <3>1, <3>2 DEF Queued
    <2> QED
      BY <2>1, <2>2, <2>3
  <1>10. ASSUME Following', NEW n \in 1..Len(lines'), lines'[n].kind = "completed", ~Heard'
         PROVE  \E m \in 1..Len(lines') : m < n /\ lines'[m].kind = "message"
    <2>1. n + 1 \in 1..Len(lines) /\ lines[n + 1].kind = "completed" /\ ~Heard /\ k # "message"
      BY <1>1, <1>8, <1>10
    <2>2. PICK m \in 1..Len(lines) : m < n + 1 /\ lines[m].kind = "message"
      BY <1>1, <1>6, <1>10, <2>1 DEF PlanInv
    <2>3. m - 1 \in 1..Len(lines') /\ m - 1 < n /\ lines'[m - 1] = lines[m]
      BY <1>1, <2>1, <2>2
    <2> QED
      BY <2>2, <2>3
  <1>11. ASSUME Following', NEW n \in 1..Len(events'), events'[n] = "completed", ~planner.output
         PROVE  \E m \in 1..Len(events') : m < n /\ events'[m] = "message"
    <2>1. CASE n \in 1..Len(events)
      <3>1. PICK m \in 1..Len(events) : m < n /\ events[m] = "message"
        BY <1>6, <1>7, <1>11, <2>1 DEF PlanInv
      <3> QED
        BY <1>7, <1>11, <3>1
    <2>2. CASE n = Len(events) + 1
      <3>1. k = "completed" /\ lines[1].kind = "completed" /\ 1 \in 1..Len(lines)
        BY <1>1, <1>7, <1>11, <2>2
      <3>2. Heard
        BY <1>1, <1>6, <1>11, <3>1 DEF PlanInv
      <3>3. PICK m \in 1..Len(events) : events[m] = "message"
        BY <1>11, <3>2 DEF Heard
      <3> QED
        BY <1>7, <1>11, <2>2, <3>3
    <2> QED
      BY <1>7, <1>11, <2>1, <2>2
  <1>12. server' = server /\ call' = call /\ pending' = pending
    OBVIOUS
  <1> QED
    BY <1>3, <1>4, <1>5, <1>9, <1>10, <1>11, <1>12 DEF PlanInv

\* The planner receives a message, or the end of its turn.
LEMMA PlanReceived ==
  ASSUME CodexType, PlanInv, PlannerReceives
  PROVE  PlanInv'
  <1> USE DEF linkVars, inputVars
  <1>1. /\ planner.at = "listening" /\ ~planner.lagged /\ events # << >> /\ events' = Tail(events)
        /\ UNCHANGED <<reader, server, call, pending, lines>>
    BY DEF PlannerReceives
  <1>2. Following
    BY <1>1 DEF Following, Hears
  <1>3. /\ Len(events') = Len(events) - 1 /\ Len(events) \in Nat \ {0} /\ Head(events) = events[1]
        /\ events[1] \in {"message", "completed"}
        /\ \A n \in 1..Len(events') : events'[n] = events[n + 1]
    BY <1>1, Tailed DEF CodexType, Notes
  <1>4. CASE events[1] = "message"
    <2>1. planner' = [planner EXCEPT !.output = TRUE]
      BY <1>3, <1>4 DEF PlannerReceives
    <2>2. planner'.output /\ planner'.at = "listening"
      BY <1>1, <2>1 DEF CodexType
    <2>3. Heard'
      BY <2>2 DEF Heard
    <2> QED
      BY <2>2, <2>3 DEF PlanInv, PlanIsComplete
  <1>5. CASE events[1] = "completed"
    <2>1. PICK outcome \in {"returned", "failed"} : planner' = [planner EXCEPT !.at = outcome]
      BY <1>3, <1>5 DEF PlannerReceives
    <2>2. planner'.at \in {"returned", "failed"} /\ planner'.output = planner.output
      BY <2>1 DEF CodexType
    <2>3. planner.output
      BY <1>2, <1>3, <1>5 DEF PlanInv
    <2> QED
      BY <2>2, <2>3 DEF PlanInv, PlanIsComplete, Following, Hears
  <1> QED
    BY <1>3, <1>4, <1>5

\* Every step of the connection keeps the plan complete.
LEMMA PlanKeeps == CodexType /\ PlanInv /\ CodexNext => PlanInv'
  <1> SUFFICES ASSUME CodexType, PlanInv, CodexNext PROVE PlanInv'
    OBVIOUS
  <1> USE DEF linkVars, inputVars, askVars, planVars
  <1>0. planner.at = "idle" =>
          call[Planning] = "idle" /\ server.turn = "none" /\ Planning \notin pending
    BY DEF PlanInv
  <1>a. call \in [Calls -> Waiting \cup {"idle", "answered", "failed"}] /\ Planning \in Calls
    BY CodexAssumption DEF CodexType
  <1>1. ASSUME NEW c \in Calls, Ask(c) \/ Register(c) \/ Write(c) \/ TimesOut(c) PROVE PlanInv'
    <2>1. UNCHANGED <<lines, planner, events, reader, server>>
      BY <1>1 DEF Ask, Register, Write, TimesOut
    <2>2. planner.at = "idle" => call'[Planning] = "idle" /\ Planning \notin pending'
      BY <1>0, <1>a, <1>1 DEF Ask, Register, Write, TimesOut, GivesUp
    <2> QED
      BY <2>1, <2>2, PlanKept DEF Reading
  <1>2. ASSUME NEW c \in Calls, Written(c) PROVE PlanInv'
    <2>1. UNCHANGED <<lines, planner, events, reader>>
      BY <1>2 DEF Written
    <2>2. server'.turn \in {server.turn, "running"} /\ (c # Planning => server'.turn = server.turn)
      BY <1>2 DEF Written, CodexType
    <2>3. planner.at = "idle" => /\ c # Planning /\ call'[Planning] = "idle"
                                  /\ Planning \notin pending'
      BY <1>0, <1>a, <1>2 DEF Written
    <2> QED
      BY <2>1, <2>2, <2>3, PlanKept DEF Reading
  <1>3. ASSUME NEW c \in Calls, ServerReplies(c) PROVE PlanInv'
    <2>1. Reply(c) \in LinesType /\ Reply(c).kind = "reply"
      BY LineTypes
    <2>2. Says(Reply(c)) /\ UNCHANGED <<planner, events, reader, call, pending>>
      BY <1>3 DEF ServerReplies
    <2>3. server'.turn = server.turn
      BY <1>3 DEF ServerReplies, CodexType
    <2> QED
      BY <2>1, <2>2, <2>3, PlanSaid
  <1>4. ASSUME NEW k \in Asks, ServerAsks(k) PROVE PlanInv'
    <2>1. Line(k) \in LinesType /\ Line(k).kind = k /\ k \notin {"message", "completed"}
      BY LineTypes DEF Asks
    <2>2. Says(Line(k)) /\ UNCHANGED <<planner, events, reader, call, pending>>
      BY <1>4 DEF ServerAsks
    <2>3. server'.turn = server.turn
      BY <1>4 DEF ServerAsks, CodexType
    <2> QED
      BY <2>1, <2>2, <2>3, PlanSaid
  <1>5. CASE ServerNotifies
    <2>1. UNCHANGED <<planner, events, reader, call, pending>>
      BY <1>5 DEF ServerNotifies
    <2>2. \A k \in Notes : Line(k) \in LinesType /\ Line(k).kind = k
      BY LineTypes
    <2>3. CASE server.turn = "running" /\ Says(Line("message")) /\ server' = [server EXCEPT !.turn = "said"]
      <3>1. server'.turn = "said"
        BY <2>3 DEF CodexType
      <3> QED
        BY <2>1, <2>2, <2>3, <3>1, PlanSaid DEF Notes
    <2>4. CASE server.turn = "said" /\ Says(Line("completed")) /\ server' = [server EXCEPT !.turn = "ended"]
      <3>1. server'.turn = "ended"
        BY <2>4 DEF CodexType
      <3> QED
        BY <2>1, <2>2, <2>4, <3>1, PlanSaid DEF Notes
    <2> QED
      BY <1>5, <2>3, <2>4 DEF ServerNotifies
  <1>6. CASE ServerStalls \/ ServerDies \/ Shutdown
    <2>1. UNCHANGED <<lines, planner, events, reader, call, pending>>
      BY <1>6 DEF ServerStalls, ServerDies, Shutdown
    <2>2. server'.turn = server.turn
      BY <1>6 DEF ServerStalls, ServerDies, Shutdown, CodexType
    <2> QED
      BY <1>0, <2>1, <2>2, PlanKept DEF Reading
  <1>7. CASE ReadReply
    <2>1. /\ lines # << >> /\ lines' = Tail(lines) /\ Head(lines).kind = "reply" /\ Reading
          /\ UNCHANGED <<planner, events, server>>
      BY <1>7 DEF ReadReply, Reads, Reading
    <2>2. planner.at = "idle" => call'[Planning] = "idle" /\ Planning \notin pending'
      BY <1>0, <1>7 DEF ReadReply
    <2> QED
      BY <2>1, <2>2, PlanRead
  <1>8. CASE ReadQuestion \/ ReadToolCall \/ ReadApproval
    <2>1. /\ lines # << >> /\ lines' = Tail(lines) /\ Reading
          /\ Head(lines).kind \in {"question", "tool", "approval"}
          /\ UNCHANGED <<planner, events, server, call, pending>>
      BY <1>8 DEF ReadQuestion, ReadToolCall, ReadApproval, Reads, Reading
    <2> QED
      BY <1>0, <2>1, PlanRead
  <1>9. CASE Reject
    <2>1. UNCHANGED <<lines, planner, events, server, call, pending>> /\ Reading
      BY <1>9 DEF Reject, Reading
    <2> QED
      BY <1>0, <2>1, PlanKept
  <1>10. CASE ReadNotification
    BY <1>10, PlanNotified DEF ReadNotification
  <1>11. CASE ReaderGivesUp
    <2>1. /\ ~Reading' /\ UNCHANGED <<planner, events, server, call, pending>>
          /\ lines' = lines \/ (lines # << >> /\ lines' = Tail(lines))
      BY <1>11 DEF ReaderGivesUp, Reading
    <2>2. lines # << >> /\ lines' = Tail(lines) =>
            /\ Len(lines') = Len(lines) - 1 /\ Len(lines) \in Nat
            /\ \A n \in 1..Len(lines') : lines'[n] = lines[n + 1]
      BY Tailed DEF CodexType
    <2>3. planner.at = "idle" => ~Queued("completed")'
      BY <2>1, <2>2 DEF PlanInv, Queued
    <2> QED
      BY <2>1, <2>3 DEF PlanInv, Following, Hears, PlanIsComplete
  <1>12. CASE ReaderDrains
    <2>1. UNCHANGED <<lines, planner, events, server>> /\ ~Reading'
      BY <1>12 DEF ReaderDrains, Reading
    <2>2. planner.at = "idle" => call'[Planning] = "idle" /\ Planning \notin pending'
      BY <1>0, <1>a, <1>12 DEF ReaderDrains
    <2> QED
      BY <2>1, <2>2, PlanKept
  <1>13. ASSUME NEW a \in Answers, AnswerLocks(a) \/ AnswerWrites(a) \/ AnswerWritten(a)
         PROVE  PlanInv'
    <2>1. UNCHANGED <<lines, planner, events, reader, call, pending>>
      BY <1>13 DEF AnswerLocks, AnswerWrites, AnswerWritten
    <2>2. server'.turn = server.turn
      BY <1>13 DEF AnswerLocks, AnswerWrites, AnswerWritten, CodexType
    <2> QED
      BY <1>0, <2>1, <2>2, PlanKept DEF Reading
  <1>14. CASE ToolReturns \/ ToolWrites
    BY <1>0, <1>14, PlanKept DEF ToolReturns, ToolWrites, Reading
  <1>15. CASE Subscribe
    <2>1. /\ planner.at = "idle" /\ planner' = [planner EXCEPT !.at = "subscribed"]
          /\ UNCHANGED <<lines, events, reader, server, call, pending>>
      BY <1>15 DEF Subscribe
    <2>2. planner'.at = "subscribed" /\ planner'.lagged = planner.lagged
      BY <2>1 DEF CodexType
    <2>3. \A n \in 1..Len(lines) : lines[n].kind # "completed"
      BY <2>1 DEF PlanInv, Queued
    <2>4. server.turn = "none"
      BY <1>0, <2>1
    <2>5. events = << >>
      BY <2>1 DEF PlanInv
    <2> QED
      BY <2>1, <2>2, <2>3, <2>4, <2>5 DEF PlanInv, PlanIsComplete
  <1>16. CASE TurnStarted \/ PlannerGivesUp
    <2>1. /\ Hears /\ UNCHANGED <<lines, events, reader, server, call, pending>>
          /\ planner'.at \in {"listening", "failed"} /\ planner'.output = planner.output
          /\ planner'.lagged = planner.lagged
      BY <1>16 DEF TurnStarted, PlannerGivesUp, Hears, CodexType
    <2> QED
      BY <2>1 DEF PlanInv, Following, Hears, Reading, Heard, Queued, PlanIsComplete
  <1>17. CASE PlannerReceives
    BY <1>17, PlanReceived
  <1> QED
    BY <1>1, <1>2, <1>3, <1>4, <1>5, <1>6, <1>7, <1>8, <1>9, <1>10, <1>11, <1>12, <1>13, <1>14,
       <1>15, <1>16, <1>17 DEF CodexNext

-----------------------------------------------------------------------------
(* CodexRpc: a question is answered once *)

\* An answer that holds the table of questions.
Holds(a) == answer[a] \in {"locked", "writing"}

\* The one question of the turn is on its way, or is asked, or is over.
AnswerInv ==
  /\ \A m, n \in 1..Len(lines) :
       lines[m].kind = "question" /\ lines[n].kind = "question" => m = n
  /\ Queued("question") =>
       "question" \in server.asked /\ question = "none" /\ server.answers = 0
  /\ question = "pending" => "question" \in server.asked /\ server.answers = 0
  /\ "question" \notin server.asked => server.answers = 0
  /\ \A a \in Answers : Holds(a) =>
       question = "pending" /\ \A b \in Answers : Holds(b) => a = b

\* A step that asks and answers nothing, and reads a line of another kind at most.
LEMMA AnswerKept ==
  ASSUME CodexType, AnswerInv, UNCHANGED answer,
         lines' = lines \/ (lines # << >> /\ lines' = Tail(lines)),
         server'.asked = server.asked, server'.answers = server.answers,
         question' \in {question, "none"}, question' = question \/ QuestionsFree
  PROVE  AnswerInv'
  <1>1. lines # << >> /\ lines' = Tail(lines) =>
          /\ Len(lines') = Len(lines) - 1 /\ Len(lines) \in Nat
          /\ \A n \in 1..Len(lines') : lines'[n] = lines[n + 1]
    BY Tailed DEF CodexType
  <1>2. \A m, n \in 1..Len(lines') :
          lines'[m].kind = "question" /\ lines'[n].kind = "question" => m = n
    <2>1. CASE lines' = lines
      BY <2>1 DEF AnswerInv
    <2>2. CASE lines # << >> /\ lines' = Tail(lines)
      <3> SUFFICES ASSUME NEW m \in 1..Len(lines'), NEW n \in 1..Len(lines'),
                          lines'[m].kind = "question", lines'[n].kind = "question"
                   PROVE  m = n
        OBVIOUS
      <3>1. /\ m + 1 \in 1..Len(lines) /\ lines[m + 1].kind = "question"
            /\ n + 1 \in 1..Len(lines) /\ lines[n + 1].kind = "question"
        BY <1>1, <2>2
      <3> QED
        BY <3>1 DEF AnswerInv
    <2> QED
      BY <2>1, <2>2
  <1>3. Queued("question")' => Queued("question")
    BY SMTT(30), <1>1 DEF Queued
  <1>4. \A a \in Answers : Holds(a)' => Holds(a) /\ question' = question
    BY DEF Holds, QuestionsFree
  <1> QED
    BY <1>2, <1>3, <1>4 DEF AnswerInv

\* The server says another line, of its one question at most.
LEMMA AnswerSaid ==
  ASSUME CodexType, AnswerInv, NEW line \in LinesType, Says(line), UNCHANGED <<question, answer>>,
         line.kind = "question" => "question" \notin server.asked /\ "question" \in server'.asked,
         line.kind # "question" => ("question" \in server.asked <=> "question" \in server'.asked),
         server'.answers = server.answers
  PROVE  AnswerInv'
  <1>1. /\ Len(lines') = Len(lines) + 1 /\ Len(lines) \in Nat /\ lines'[Len(lines) + 1] = line
        /\ \A n \in 1..Len(lines) : lines'[n] = lines[n]
        /\ question \in {"none", "pending"}
    BY Appended DEF CodexType, Says
  <1>2. \A n \in 1..Len(lines') : n \in 1..Len(lines) \/ n = Len(lines) + 1
    BY <1>1
  <1>3. line.kind = "question" => ~Queued("question") /\ question = "none" /\ server.answers = 0
    BY <1>1 DEF AnswerInv
  <1>4. \A m, n \in 1..Len(lines') :
          lines'[m].kind = "question" /\ lines'[n].kind = "question" => m = n
    BY <1>1, <1>2, <1>3 DEF AnswerInv, Queued
  <1>5. Queued("question")' => Queued("question") \/ line.kind = "question"
    BY <1>1, <1>2 DEF Queued
  <1> QED
    BY <1>3, <1>4, <1>5 DEF AnswerInv, Holds

\* The question is read, while no answer holds the table.
LEMMA AnswerAsked ==
  ASSUME CodexType, AnswerInv, ReadQuestion
  PROVE  AnswerInv'
  <1>1. /\ Head(lines).kind = "question" /\ lines # << >> /\ lines' = Tail(lines) /\ QuestionsFree
        /\ question' = "pending" /\ UNCHANGED <<server, answer>>
    BY DEF ReadQuestion, Reads, inputVars
  <1>2. /\ Len(lines') = Len(lines) - 1 /\ Len(lines) \in Nat \ {0} /\ Head(lines) = lines[1]
        /\ \A n \in 1..Len(lines') : lines'[n] = lines[n + 1]
    BY <1>1, Tailed DEF CodexType
  <1>3. "question" \in server.asked /\ server.answers = 0
    BY <1>1, <1>2 DEF AnswerInv, Queued
  <1>4. ~Queued("question")'
    <2> SUFFICES ASSUME NEW n \in 1..Len(lines'), lines'[n].kind = "question" PROVE FALSE
      BY DEF Queued
    <2>1. n + 1 \in 1..Len(lines) /\ 1 \in 1..Len(lines) /\ lines[n + 1].kind = "question" /\ n + 1 # 1
      BY <1>2
    <2> QED
      BY <1>1, <1>2, <2>1 DEF AnswerInv
  <1>5. \A a \in Answers : ~Holds(a)'
    BY <1>1 DEF Holds, QuestionsFree
  <1> QED
    BY <1>1, <1>3, <1>4, <1>5 DEF AnswerInv, Queued

\* An answer takes the table, writes, and leaves it.
LEMMA AnswerMoves ==
  ASSUME CodexType, AnswerInv, NEW a \in Answers,
         AnswerLocks(a) \/ AnswerWrites(a) \/ AnswerWritten(a)
  PROVE  AnswerInv'
  <1> USE DEF linkVars, inputVars, askVars, planVars
  <1>1. answer \in [Answers -> {"idle", "locked", "writing", "done"}] /\ server.answers \in Nat
    BY DEF CodexType
  <1>2. UNCHANGED lines
    BY DEF AnswerLocks, AnswerWrites, AnswerWritten
  <1>3. CASE AnswerLocks(a)
    <2>1. \A b \in Answers : b # a => ~Holds(b)'
      BY <1>1, <1>3 DEF AnswerLocks, QuestionsFree, Holds
    <2>2. Holds(a)' => question = "pending"
      BY <1>1, <1>3 DEF AnswerLocks, Holds
    <2> QED
      BY <1>2, <1>3, <2>1, <2>2 DEF AnswerLocks, AnswerInv, Queued
  <1>4. CASE AnswerWrites(a)
    <2>1. \A b \in Answers : Holds(b)' <=> Holds(b)
      BY <1>1, <1>4 DEF AnswerWrites, Holds
    <2> QED
      BY <1>2, <1>4, <2>1 DEF AnswerWrites, AnswerInv, Queued
  <1>5. CASE AnswerWritten(a)
    <2>1. Holds(a) /\ question = "pending"
      BY <1>5 DEF AnswerWritten, Holds, AnswerInv
    <2>2. \A b \in Answers : ~Holds(b)'
      BY <1>1, <1>5, <2>1 DEF AnswerWritten, Holds, AnswerInv
    <2>3. ~Queued("question")' /\ "question" \in server.asked
      BY <1>2, <2>1 DEF AnswerInv, Queued
    <2>4. server'.asked = server.asked /\ (server' = server \/ question' = "none")
      BY <1>5 DEF AnswerWritten, CodexType
    <2>5. question' \in {question, "none"}
      BY <1>5 DEF AnswerWritten
    <2> QED
      BY <1>2, <2>1, <2>2, <2>3, <2>4, <2>5 DEF AnswerInv, Queued
  <1> QED
    BY <1>3, <1>4, <1>5

\* Every step of the connection keeps the question to its one answer.
LEMMA AnswerKeeps == CodexType /\ AnswerInv /\ CodexNext => AnswerInv'
  <1> SUFFICES ASSUME CodexType, AnswerInv, CodexNext PROVE AnswerInv'
    OBVIOUS
  <1> USE DEF linkVars, inputVars, askVars, planVars
  <1>1. ASSUME NEW c \in Calls, Ask(c) \/ Register(c) \/ Write(c) \/ TimesOut(c) PROVE AnswerInv'
    BY <1>1, AnswerKept DEF Ask, Register, Write, TimesOut
  <1>2. ASSUME NEW c \in Calls, Written(c) PROVE AnswerInv'
    <2>1. server'.asked = server.asked /\ server'.answers = server.answers
      BY <1>2 DEF Written, CodexType
    <2> QED
      BY <1>2, <2>1, AnswerKept DEF Written
  <1>3. ASSUME NEW c \in Calls, ServerReplies(c) PROVE AnswerInv'
    <2>1. server'.asked = server.asked /\ server'.answers = server.answers
      BY <1>3 DEF ServerReplies, CodexType
    <2> QED
      BY <1>3, <2>1, LineTypes, AnswerSaid DEF ServerReplies
  <1>4. ASSUME NEW k \in Asks, ServerAsks(k) PROVE AnswerInv'
    <2>1. server'.asked = server.asked \cup {k} /\ server'.answers = server.answers
      BY <1>4 DEF ServerAsks, CodexType
    <2>2. Line(k) \in LinesType /\ Line(k).kind = k
      BY LineTypes
    <2> QED
      BY <1>4, <2>1, <2>2, AnswerSaid DEF ServerAsks
  <1>5. CASE ServerNotifies
    <2>1. PICK k \in Notes : Says(Line(k))
      BY <1>5 DEF ServerNotifies, Notes
    <2>2. Line(k) \in LinesType /\ Line(k).kind = k /\ k # "question"
      BY LineTypes DEF Notes
    <2>3. server'.asked = server.asked /\ server'.answers = server.answers
      BY <1>5 DEF ServerNotifies, CodexType
    <2> QED
      BY <1>5, <2>1, <2>2, <2>3, AnswerSaid DEF ServerNotifies
  <1>6. CASE ServerStalls \/ ServerDies \/ Shutdown
    <2>1. server'.asked = server.asked /\ server'.answers = server.answers
      BY <1>6 DEF ServerStalls, ServerDies, Shutdown, CodexType
    <2>2. UNCHANGED <<lines, question, answer>>
      BY <1>6 DEF ServerStalls, ServerDies, Shutdown
    <2> QED
      BY <2>1, <2>2, AnswerKept
  <1>14. CASE Reject \/ ReaderDrains
    BY <1>14, AnswerKept DEF Reject, ReaderDrains
  <1>7. CASE ReadReply \/ ReadToolCall \/ ReadApproval
    BY <1>7, AnswerKept DEF ReadReply, ReadToolCall, ReadApproval, Reads
  <1>8. CASE ReadQuestion
    BY <1>8, AnswerAsked
  <1>9. CASE ReadNotification
    BY <1>9, AnswerKept DEF ReadNotification, Reads
  <1>10. CASE ReaderGivesUp
    BY <1>10, AnswerKept DEF ReaderGivesUp
  <1>11. ASSUME NEW a \in Answers, AnswerLocks(a) \/ AnswerWrites(a) \/ AnswerWritten(a)
         PROVE  AnswerInv'
    BY <1>11, AnswerMoves
  <1>12. CASE ToolReturns \/ ToolWrites
    BY <1>12, AnswerKept DEF ToolReturns, ToolWrites
  <1>13. CASE Subscribe \/ TurnStarted \/ PlannerReceives \/ PlannerGivesUp
    BY <1>13, AnswerKept DEF Subscribe, TurnStarted, PlannerReceives, PlannerGivesUp
  <1> QED
    BY <1>1, <1>2, <1>3, <1>4, <1>5, <1>6, <1>7, <1>8, <1>9, <1>10, <1>11, <1>12, <1>13,
       <1>14 DEF CodexNext

-----------------------------------------------------------------------------
(* The two tables together *)

\* The inductive invariant of the connection.
CodexInv == CodexType /\ PlanInv /\ AnswerInv

\* Before the first request nothing is said, asked or planned.
LEMMA CodexStarts == CodexInit => CodexInv
  <1> SUFFICES ASSUME CodexInit PROVE CodexInv
    OBVIOUS
  <1> USE DEF CodexInit
  <1>1. CodexType
    BY CodexAssumption DEF CodexType, Waiting
  <1>2. Len(lines) = 0 /\ 1..Len(lines) = {}
    OBVIOUS
  <1>3. PlanInv
    BY <1>2, CodexAssumption DEF PlanInv, Queued, Following, Hears, PlanIsComplete
  <1>4. AnswerInv
    BY <1>2 DEF AnswerInv, Queued, Holds
  <1> QED
    BY <1>1, <1>3, <1>4 DEF CodexInv

\* Every step of the connection, and every step of the commands, keeps its invariant.
LEMMA CodexKeeps == CodexInv /\ [CodexNext]_codexVars => CodexInv'
  <1> SUFFICES ASSUME CodexInv, [CodexNext]_codexVars PROVE CodexInv'
    OBVIOUS
  <1>1. CASE CodexNext
    BY <1>1, CodexTypeStep, PlanKeeps, AnswerKeeps DEF CodexInv
  <1>2. CASE UNCHANGED codexVars
    <2> USE <1>2 DEF codexVars
    <2>1. CodexType'
      BY DEF CodexInv, CodexType
    <2>2. PlanInv'
      BY DEF CodexInv, PlanInv, Queued, Following, Hears, Reading, Heard, PlanIsComplete
    <2>3. AnswerInv'
      BY DEF CodexInv, AnswerInv, Queued, Holds
    <2> QED
      BY <2>1, <2>2, <2>3 DEF CodexInv
  <1> QED
    BY <1>1, <1>2

\* The inductive invariant of both tables.
TablesInv == CommandInv /\ CodexInv

\* Every step of either table keeps the invariants of both.
LEMMA TablesStep == TablesInv /\ [Next]_vars => TablesInv'
  <1> SUFFICES ASSUME TablesInv, [Next]_vars PROVE TablesInv'
    OBVIOUS
  <1>1. [CommandNext]_commandVars /\ [CodexNext]_codexVars
    BY DEF Next, vars
  <1> QED
    BY <1>1, CommandKeeps, CodexKeeps DEF TablesInv

\* Both tables keep their inductive invariants, whatever the other does.
THEOREM TablesCorrect == Spec => []TablesInv
  <1>1. Init => TablesInv
    BY CommandStarts, CodexStarts DEF Init, TablesInv
  <1> QED
    BY <1>1, TablesStep, PTL DEF Spec

\* Every value of the two tables keeps its type: the permits and the queues stay within
\* their capacities.
THEOREM TablesTyped == Spec => []TypeOK
  <1>1. TablesInv => TypeOK
    BY CommandIsExact DEF TablesInv, CodexInv, TypeOK
  <1> QED
    BY <1>1, TablesCorrect, PTL

\* The books of the command server are right (RpcSession::handle, Server::call): an id is
\* occupied by exactly the one future that lives under it, permits are neither lost nor
\* made up, and no process outlives its request.
THEOREM BooksCorrect == Spec => []CommandBooks
  <1>1. TablesInv => CommandBooks
    BY CommandIsExact DEF TablesInv
  <1> QED
    BY <1>1, TablesCorrect, PTL

\* What the planner returns is the answer of a whole turn: nothing it missed makes the end
\* of the turn come before its message (structured_read_only_with_reasoning).
THEOREM PlanCorrect == Spec => []PlanIsComplete
  <1>1. TablesInv => PlanIsComplete
    BY DEF TablesInv, CodexInv, PlanInv
  <1> QED
    BY <1>1, TablesCorrect, PTL

\* A question is answered once at most, while its turn waits for it (answer_question).
THEOREM AnswerCorrect == Spec => AnsweredOnce
  <1>1. TablesInv /\ [Next]_vars =>
          [server'.answers # server.answers => server.answers = 0 /\ question = "pending"]_codexVars
    <2> SUFFICES ASSUME TablesInv, [CodexNext]_codexVars, server'.answers # server.answers
                 PROVE  server.answers = 0 /\ question = "pending"
      BY DEF Next, vars
    <2> USE DEF linkVars, inputVars, askVars, planVars
    <2>1. AnswerInv /\ CodexType
      BY DEF TablesInv, CodexInv
    <2>2. CodexNext
      BY DEF codexVars
    <2>3. ASSUME NEW c \in Calls,
                 Ask(c) \/ Register(c) \/ Write(c) \/ Written(c) \/ TimesOut(c) \/ ServerReplies(c)
          PROVE  FALSE
      BY <2>1, <2>3 DEF Ask, Register, Write, Written, TimesOut, ServerReplies, CodexType
    <2>4. ASSUME NEW k \in Asks, ServerAsks(k) PROVE FALSE
      BY <2>1, <2>4 DEF ServerAsks, CodexType
    <2>5. ASSUME NEW a \in Answers, AnswerLocks(a) \/ AnswerWrites(a) \/ AnswerWritten(a)
          PROVE  server.answers = 0 /\ question = "pending"
      BY <2>1, <2>5 DEF AnswerLocks, AnswerWrites, AnswerWritten, AnswerInv, Holds
    <2>6. CASE ServerNotifies \/ ServerStalls \/ ServerDies \/ Shutdown
      BY <2>1, <2>6 DEF ServerNotifies, ServerStalls, ServerDies, Shutdown, CodexType
    <2>7. UNCHANGED server \/ (\E c \in Calls : Written(c) \/ ServerReplies(c))
            \/ (\E k \in Asks : ServerAsks(k))
            \/ ServerNotifies \/ ServerStalls \/ ServerDies \/ Shutdown
            \/ (\E a \in Answers : AnswerLocks(a) \/ AnswerWrites(a) \/ AnswerWritten(a))
      BY <2>2 DEF CodexNext, Ask, Register, Write, TimesOut, ReadReply,
           ReadQuestion, ReadToolCall, ReadApproval, Reject, ReadNotification, ReaderGivesUp,
           ReaderDrains, ToolReturns, ToolWrites, Subscribe, TurnStarted, PlannerReceives,
           PlannerGivesUp
    <2> QED
      BY <2>3, <2>4, <2>5, <2>6, <2>7
  <1> QED
    BY <1>1, TablesCorrect, PTL DEF Spec, AnsweredOnce
================================================================================
