----------------------- MODULE RemoteOperationProofs -----------------------
(* Proofs about RemoteOperation, for any operations, configurations and      *)
(* bounds.                                                                   *)
EXTENDS RemoteOperation, TLAPS, FiniteSetTheorems

(* An execution belongs to a running operation of this agent that was not    *)
(* performed yet; what was performed is never pending or refused.            *)
ExecInv ==
  \A o \in Ops :
    /\ exec[o] \in {"started", "sent"} =>
         /\ store[o].status = "running" /\ effects[o] = 0
         /\ phase \in {"up", "closing"} /\ acceptedIn[o] = scope
    /\ exec[o] = "done" => effects[o] = 1
    /\ store[o].status = "completed" => effects[o] = 1
    /\ effects[o] = 1 =>
         store[o].status \in {"running", "completed", "failed", "indeterminate"}

(* A request that a server still has although nobody waits for it was not    *)
(* performed yet, is of unknown outcome or still running, and was put to the *)
(* configuration of that server.                                             *)
Unsettled == {"running", "failed", "indeterminate"}

Unawaited == {"idle", "broken"}

LateInv ==
  /\ late # {} => phase \in {"up", "closing"}
  /\ \A o \in Ops :
       /\ o \in late => acceptedIn[o] = scope
       /\ orphan[o] # NoScope => acceptedIn[o] = orphan[o]
       /\ o \in late \/ orphan[o] # NoScope =>
            store[o].status \in Unsettled /\ exec[o] \in Unawaited /\ effects[o] = 0

(* What is pending was put to the configuration of the agent that runs, or,  *)
(* while none runs, to the one on disk.                                      *)
ScopeInv ==
  /\ phase \in {"up", "closing"} => saved = scope
  /\ \A o \in Ops : store[o].status = "pending" => acceptedIn[o] = saved

(* A frame and a receipt say of an operation what the store says.            *)
FrameTrue(m) ==
  m.kind = "update" =>
    /\ m.status \in {"completed", "denied"} =>
         store[m.op].issue = m.issue /\ store[m.op].status = m.status
    /\ m.status = "running" => store[m.op].issue = m.issue

FramesTrue == \A k \in DOMAIN up : FrameTrue(up[k])

ReceiptsTrue ==
  \A o \in Ops :
    /\ job[o].status \in {"completed", "denied"} =>
         store[o].issue = job[o].issue /\ store[o].status = job[o].status
    /\ job[o].status = "running" => store[o].issue = job[o].issue

IInv == TypeOK /\ ExecInv /\ LateInv /\ ScopeInv /\ FramesTrue /\ ReceiptsTrue

(* The store keeps what was decided, and never rebinds an id.                *)
StoreGrows ==
  \A o \in Ops :
    /\ store[o].status \in {"completed", "denied"} => store'[o] = store[o]
    /\ store[o].issue # 0 => store'[o].issue = store[o].issue

-----------------------------------------------------------------------------
LEMMA SendUpFrames ==
  ASSUME NEW f \in Seq(Frames), up \in Seq(Frames), SendUp(f)
  PROVE  /\ up' \in Seq(Frames)
         /\ \A k \in DOMAIN up' : \/ \E j \in DOMAIN up : up'[k] = up[j]
                                  \/ \E j \in DOMAIN f : up'[k] = f[j]
<1>1. CASE agOpen /\ gwOpen
  <2>1. up' = up \o f BY <1>1 DEF SendUp
  <2>2. up' \in Seq(Frames) BY <2>1
  <2>3. ASSUME NEW k \in DOMAIN up'
        PROVE  \/ \E j \in DOMAIN up : up'[k] = up[j]
               \/ \E j \in DOMAIN f : up'[k] = f[j]
    <3>1. CASE k <= Len(up)
      <4>1. k \in DOMAIN up /\ up'[k] = up[k] BY <2>1, <3>1
      <4> QED BY <4>1
    <3>2. CASE k > Len(up)
      <4>1. k - Len(up) \in DOMAIN f /\ up'[k] = f[k - Len(up)] BY <2>1, <3>2
      <4> QED BY <4>1
    <3> QED BY <3>1, <3>2, <2>2
  <2> QED BY <2>2, <2>3
<1>2. CASE ~(agOpen /\ gwOpen)
  <2>1. up' = up BY <1>2 DEF SendUp
  <2> QED BY <2>1
<1> QED BY <1>1, <1>2

(* Frames stay true when the store only grows and the new ones are true.     *)
LEMMA FramesStayTrue ==
  ASSUME TypeOK, FramesTrue, StoreGrows, store' \in [Ops -> Records],
         up' \in Seq(Frames),
         \A k \in DOMAIN up' : \/ \E j \in DOMAIN up : up'[k] = up[j]
                               \/ FrameTrue(up[k])'
  PROVE  FramesTrue'
<1> SUFFICES ASSUME NEW k \in DOMAIN up', up'[k].kind = "update",
                    \E j \in DOMAIN up : up'[k] = up[j]
             PROVE  /\ up'[k].status \in {"completed", "denied"} =>
                         /\ store'[up'[k].op].issue = up'[k].issue
                         /\ store'[up'[k].op].status = up'[k].status
                    /\ up'[k].status = "running" => store'[up'[k].op].issue = up'[k].issue
    BY DEF FramesTrue, FrameTrue
<1>1. PICK j \in DOMAIN up : up'[k] = up[j]
  OBVIOUS
<1>2. up[j] \in Frames
  BY DEF TypeOK, LinkType
<1>3. up[j].op \in Ops /\ up[j].issue \in Issues
  BY <1>1, <1>2 DEF Frames
<1>4. up[j].issue # 0
  BY <1>3 DEF Issues
<1>5. /\ up[j].status \in {"completed", "denied"} =>
           store[up[j].op].issue = up[j].issue /\ store[up[j].op].status = up[j].status
      /\ up[j].status = "running" => store[up[j].op].issue = up[j].issue
  BY <1>1 DEF FramesTrue, FrameTrue
<1> QED BY <1>1, <1>3, <1>4, <1>5 DEF StoreGrows

LEMMA ReceiptsStayTrue ==
  ASSUME TypeOK, ReceiptsTrue, StoreGrows, UNCHANGED job
  PROVE  ReceiptsTrue'
<1>1. \A o \in Ops : job[o].status # "none" => job[o].issue # 0
  BY DEF TypeOK, GatewayType, Jobs, NoJob, Issues
<1> QED BY <1>1 DEF ReceiptsTrue, StoreGrows

(* A sequence of the images of a finite set is a sequence of them.           *)
LEMMA OrdersOfImages ==
  ASSUME NEW S, S \subseteq Ops, NEW g \in [S -> Frames],
         NEW s \in Orders({g[o] : o \in S})
  PROVE  s \in Seq(Frames) /\ \A k \in DOMAIN s : \E o \in S : s[k] = g[o]
<1> DEFINE T == {g[o] : o \in S}
<1>1. IsFiniteSet(S)
  BY FS_Subset, LinkAssumption DEF LinkAssumption
<1>2. g \in Surjection(S, T)
  BY DEF Surjection
<1>3. IsFiniteSet(T)
  <2> HIDE DEF T
  <2> QED BY <1>1, <1>2, FS_Surjection
<1>4. Cardinality(T) \in Nat
  BY <1>3, FS_CardinalityType
<1>5. s \in [1..Cardinality(T) -> T]
  BY DEF Orders
<1>6. T \subseteq Frames
  OBVIOUS
<1>7. s \in Seq(T) /\ DOMAIN s = 1..Cardinality(T)
  <2> HIDE DEF T
  <2> QED BY <1>4, <1>5
<1> QED BY <1>5, <1>6, <1>7

LEMMA UpdateIsFrame ==
  ASSUME NEW o \in Ops, NEW r \in Records, r # NoRecord
  PROVE  /\ Update(o, r) \in Frames
         /\ Update(o, r).kind = "update"
         /\ Update(o, r).op = o /\ Update(o, r).issue = r.issue
         /\ Update(o, r).status = PublicStatus(r.status)
         /\ r.issue \in Issues /\ r.status \in AgentStatuses
BY DEF Update, Records, Frames, PublicStatus, PublicStatuses, AgentStatuses, NoRecord

(* Updates that show the new store are true.                                 *)
LEMMA UpdateIsTrue ==
  ASSUME NEW o \in Ops, NEW k, store' \in [Ops -> Records], store'[o] # NoRecord,
         up'[k] = Update(o, store'[o])
  PROVE  FrameTrue(up[k])'
<1>1. /\ up'[k].op = o /\ up'[k].issue = store'[o].issue
      /\ up'[k].status = PublicStatus(store'[o].status)
  BY UpdateIsFrame
<1> QED BY <1>1 DEF FrameTrue, PublicStatus

(* A sweep changes nothing but the status of what is overdue.                *)
LEMMA SweepTypes ==
  ASSUME TypeOK
  PROVE  /\ Swept \in [Ops -> Records]
         /\ \A o \in Ops : \/ Swept[o] = store[o]
                          \/ /\ store[o].status = "pending"
                             /\ Swept[o].status = "expired"
                             /\ Swept[o].issue = store[o].issue
         /\ \A o \in Overdue : Swept[o] # NoRecord /\ o \in Ops
<1>1. ASSUME NEW o \in Ops, o \in Overdue
      PROVE  /\ Swept[o] \in Records /\ Swept[o] # NoRecord
             /\ store[o].status = "pending"
             /\ Swept[o].status = "expired"
             /\ Swept[o].issue = store[o].issue
  <2>1. store[o] \in Records /\ store[o].status = "pending"
    BY <1>1 DEF TypeOK, AgentType, Overdue, Pending
  <2>2. store[o] \in [issue : Issues, status : AgentStatuses]
    BY <2>1 DEF Records, NoRecord
  <2>3. Swept[o] = [store[o] EXCEPT !.status = "expired"]
    BY <1>1 DEF Swept, Expired
  <2>4. Swept[o] \in [issue : Issues, status : AgentStatuses]
    BY <2>2, <2>3 DEF AgentStatuses
  <2> QED BY <2>1, <2>2, <2>3, <2>4 DEF Records, NoRecord
<1>2. ASSUME NEW o \in Ops, o \notin Overdue
      PROVE  Swept[o] = store[o] /\ Swept[o] \in Records
  BY <1>2 DEF TypeOK, AgentType, Swept
<1>3. Overdue \subseteq Ops
  BY DEF Overdue
<1>4. Swept = [o \in Ops |-> Swept[o]]
  BY DEF Swept
<1> QED BY <1>1, <1>2, <1>3, <1>4

(* The updates a sweep sends.                                                *)
LEMMA SweepFrames ==
  ASSUME TypeOK, NEW s \in SweepUpdates
  PROVE  /\ s \in Seq(Frames)
         /\ \A k \in DOMAIN s : \E o \in Overdue : s[k] = Update(o, Swept[o])
<1> DEFINE g == [o \in Overdue |-> Update(o, Swept[o])]
<1>1. Overdue \subseteq Ops
  BY DEF Overdue
<1>2. g \in [Overdue -> Frames]
  BY SweepTypes, UpdateIsFrame
<1>3. {g[o] : o \in Overdue} = {Update(o, Swept[o]) : o \in Overdue}
  OBVIOUS
<1>4. s \in Orders({g[o] : o \in Overdue})
  BY <1>3 DEF SweepUpdates
<1> HIDE DEF g
<1>5. s \in Seq(Frames) /\ \A k \in DOMAIN s : \E o \in Overdue : s[k] = g[o]
  BY <1>1, <1>2, <1>4, OrdersOfImages
<1>6. \A o \in Overdue : g[o] = Update(o, Swept[o])
  BY DEF g
<1> QED BY <1>5, <1>6

-----------------------------------------------------------------------------
(* The gateway. It never touches the store, so only its receipts and the     *)
(* frames matter.                                                            *)
LEMMA GatewayStep ==
  ASSUME IInv, GatewayNext, UNCHANGED agentVars
  PROVE  IInv'
<1> USE DEF IInv
<1>1. AgentType' /\ ExecInv' /\ LateInv' /\ ScopeInv'
  BY DEF TypeOK, AgentType, ExecInv, LateInv, ScopeInv, agentVars, serverVars
<1>2. store' = store /\ StoreGrows
  BY DEF agentVars, StoreGrows
<1>3. ASSUME up' = up PROVE FramesTrue'
  BY <1>2, <1>3 DEF FramesTrue, FrameTrue
<1>4. ASSUME up' = << >> PROVE FramesTrue' /\ up' \in Seq(Frames)
  BY <1>4 DEF FramesTrue
<1>5. UNCHANGED job => ReceiptsTrue'
  BY <1>2, ReceiptsStayTrue
<1>6. FailPending => waits' \in [Ops -> {"none", "waiting", "failed"}]
  BY DEF FailPending, TypeOK, GatewayType
<1> USE DEF TypeOK, LinkType, GatewayType, linkVars
<1>7. ASSUME NEW o \in Ops, Invoke(o)
      PROVE  LinkType' /\ GatewayType' /\ FramesTrue' /\ ReceiptsTrue'
  <2>1. issued + 1 \in Issues /\ issued' \in 0..MaxIssues
    BY <1>7, LinkAssumption DEF Invoke, Issues, LinkAssumption
  <2>2. down' \in Seq(Requests)
    <3>1. [op |-> o, issue |-> issued + 1] \in Requests
      BY <2>1 DEF Requests
    <3>2. down' \in {down, Append(down, [op |-> o, issue |-> issued + 1])}
      BY <1>7 DEF Invoke, SendDown
    <3> QED BY SMTT(30), <3>1, <3>2
  <2>3. job' \in [Ops -> Jobs]
    BY <1>7, <2>1 DEF Invoke, Jobs
  <2>4. ReceiptsTrue'
    BY <1>2, <1>7 DEF Invoke, ReceiptsTrue, NoJob
  <2> QED BY <1>3, <1>7, <2>1, <2>2, <2>3, <2>4 DEF Invoke
<1>8. ASSUME NEW o \in Ops, DeviceTimeout(o)
      PROVE  LinkType' /\ GatewayType' /\ FramesTrue' /\ ReceiptsTrue'
  BY <1>3, <1>5, <1>8 DEF DeviceTimeout
<1>9. ASSUME NEW o \in Ops, NEW new \in {"indeterminate", "expired"},
             job[o].status \in {"dispatching", "pending_approval"},
             job' = [job EXCEPT ![o].status = new]
      PROVE  job' \in [Ops -> Jobs] /\ ReceiptsTrue'
  <2>1. job[o] \in [issue : Issues, status : PublicStatuses \cup {"dispatching"}]
    BY <1>9 DEF Jobs, NoJob
  <2>2. job'[o] \in Jobs /\ job'[o].status = new
    BY <1>9, <2>1 DEF Jobs, PublicStatuses
  <2> QED BY <1>2, <1>9, <2>2 DEF ReceiptsTrue
<1>10. ASSUME NEW o \in Ops, SettleFailed(o)
       PROVE  LinkType' /\ GatewayType' /\ FramesTrue' /\ ReceiptsTrue'
  BY <1>3, <1>5, <1>9, <1>10 DEF SettleFailed
<1>11. ASSUME NEW o \in Ops, PollJob(o)
       PROVE  LinkType' /\ GatewayType' /\ FramesTrue' /\ ReceiptsTrue'
  BY <1>3, <1>9, <1>11 DEF PollJob
<1>12. ASSUME Receive
       PROVE  LinkType' /\ GatewayType' /\ FramesTrue' /\ ReceiptsTrue'
  <2> DEFINE m == Head(up)
  <2>1. up # << >> /\ up' = Tail(up) /\ UNCHANGED <<gwNow, gwOld, revoked>>
        /\ UNCHANGED <<gwOpen, agOpen, down, drops, issued>>
    BY <1>12 DEF Receive
  <2>2. up' \in Seq(Frames) /\ \A k \in DOMAIN up' : up'[k] = up[k + 1] /\ k + 1 \in DOMAIN up
    BY <2>1
  <2>3. FramesTrue'
    BY <1>2, <2>2 DEF FramesTrue, FrameTrue
  <2>4. m = up[1] /\ 1 \in DOMAIN up /\ m \in Frames
    BY <2>1
  <2>5. FrameTrue(m) /\ m.op \in Ops
    BY <2>4 DEF FramesTrue, Frames
  <2>6. CASE m.kind = "response"
    BY <1>5, <1>12, <2>1, <2>2, <2>3, <2>5, <2>6 DEF Receive
  <2>7. CASE m.kind = "update" /\ ~Accepts(m)
    BY <1>5, <1>12, <2>1, <2>2, <2>3, <2>7 DEF Receive
  <2>8. CASE m.kind = "update" /\ Accepts(m)
    <3>1. m.issue \in Issues /\ m.status \in PublicStatuses
      BY <2>4, <2>8 DEF Frames
    <3>2. job[m.op].issue = m.issue /\ job[m.op] \in Jobs /\ m.issue # 0
      BY <2>5, <2>8, <3>1 DEF Accepts, Issues
    <3>3. job[m.op] \in [issue : Issues, status : PublicStatuses \cup {"dispatching"}]
      BY <3>2 DEF Jobs, NoJob
    <3>4. job' = [job EXCEPT ![m.op].status = m.status] /\ waits' = waits
      BY <1>12, <2>8 DEF Receive
    <3>5. job'[m.op].status = m.status /\ job'[m.op].issue = m.issue
          /\ job'[m.op] \in Jobs
      BY <2>5, <3>1, <3>2, <3>3, <3>4 DEF Jobs
    <3>6. job' \in [Ops -> Jobs]
      BY <2>5, <3>4, <3>5
    <3>7. \A o \in Ops : o # m.op => job'[o] = job[o]
      BY <2>5, <3>4
    <3> HIDE DEF m
    <3>8. ReceiptsTrue'
      BY <1>2, <2>5, <2>8, <3>5, <3>7 DEF ReceiptsTrue, FrameTrue
    <3> QED BY <2>1, <2>2, <2>3, <3>4, <3>6, <3>8
  <2>9. m.kind \in {"update", "response"}
    BY <2>4 DEF Frames
  <2> QED BY <2>6, <2>7, <2>8, <2>9
<1>13. ASSUME Alarm
       PROVE  LinkType' /\ GatewayType' /\ FramesTrue' /\ ReceiptsTrue'
  <2>1. job' \in [Ops -> Jobs]
    BY <1>13 DEF Alarm, Jobs
  <2>2. ReceiptsTrue'
    BY <1>2, <1>13 DEF Alarm, ReceiptsTrue, NoJob
  <2> QED BY <1>3, <1>13, <2>1, <2>2 DEF Alarm
<1>14. ASSUME GatewayTick
       PROVE  LinkType' /\ GatewayType' /\ FramesTrue' /\ ReceiptsTrue'
  BY <1>3, <1>5, <1>14, LinkAssumption DEF GatewayTick, LinkAssumption
<1>15. ASSUME GatewayLoses
       PROVE  LinkType' /\ GatewayType' /\ FramesTrue' /\ ReceiptsTrue'
  <2>1. up' = << >> BY <1>15 DEF GatewayLoses
  <2>2. FramesTrue' /\ up' \in Seq(Frames) BY <1>4, <2>1
  <2>3. drops' \in 0..MaxDrops BY <1>15, LinkAssumption DEF GatewayLoses, LinkAssumption
  <2>4. waits' \in [Ops -> {"none", "waiting", "failed"}] /\ ReceiptsTrue'
    BY <1>5, <1>6, <1>15 DEF GatewayLoses
  <2> QED BY <1>15, <2>2, <2>3, <2>4 DEF GatewayLoses
<1>16. ASSUME Revoke
       PROVE  LinkType' /\ GatewayType' /\ FramesTrue' /\ ReceiptsTrue'
  <2>1. up' = << >> BY <1>16 DEF Revoke
  <2>2. FramesTrue' /\ up' \in Seq(Frames) BY <1>4, <2>1
  <2>3. waits' \in [Ops -> {"none", "waiting", "failed"}] /\ ReceiptsTrue'
    BY <1>5, <1>6, <1>16 DEF Revoke
  <2> QED BY <1>16, <2>2, <2>3 DEF Revoke
<1> QED
  BY <1>1, <1>7, <1>8, <1>10, <1>11, <1>12, <1>13, <1>14, <1>15, <1>16 DEF GatewayNext

-----------------------------------------------------------------------------
(* The agent. One operation that is pending or running gets another status.  *)
LEMMA StatusChange ==
  ASSUME TypeOK, NEW o \in Ops, NEW st \in AgentStatuses,
         store[o].status \in {"pending", "running"},
         store' = [store EXCEPT ![o].status = st]
  PROVE  /\ store' \in [Ops -> Records]
         /\ store'[o].status = st /\ store'[o].issue = store[o].issue
         /\ store'[o] # NoRecord
         /\ \A p \in Ops : p # o => store'[p] = store[p]
         /\ StoreGrows
<1>1. store[o] \in [issue : Issues, status : AgentStatuses]
  BY DEF TypeOK, AgentType, Records, NoRecord
<1>2. store'[o] = [store[o] EXCEPT !.status = st] /\ \A p \in Ops : p # o => store'[p] = store[p]
  BY DEF TypeOK, AgentType
<1>3. /\ store'[o] \in [issue : Issues, status : AgentStatuses]
      /\ store'[o].status = st /\ store'[o].issue = store[o].issue
  BY <1>1, <1>2
<1>4. store'[o] # NoRecord /\ store'[o] \in Records
  BY <1>3 DEF NoRecord, Records, AgentStatuses
<1>5. store' \in [Ops -> Records]
  BY <1>4 DEF TypeOK, AgentType
<1>6. StoreGrows
  BY <1>2, <1>3 DEF StoreGrows
<1> QED BY <1>2, <1>3, <1>4, <1>5, <1>6

LEMMA OneUpdate ==
  ASSUME TypeOK, FramesTrue, StoreGrows, store' \in [Ops -> Records],
         NEW o \in Ops, store'[o] # NoRecord, SendUp(<<Update(o, store'[o])>>)
  PROVE  up' \in Seq(Frames) /\ FramesTrue'
<1> DEFINE f == <<Update(o, store'[o])>>
<1>1. Update(o, store'[o]) \in Frames
  BY UpdateIsFrame
<1>2. f \in Seq(Frames) /\ DOMAIN f = {1} /\ f[1] = Update(o, store'[o])
  BY <1>1
<1>3. SendUp(f)
  OBVIOUS
<1>4. up \in Seq(Frames)
  BY DEF TypeOK, LinkType
<1> HIDE DEF f
<1>5. /\ up' \in Seq(Frames)
      /\ \A k \in DOMAIN up' : \/ \E j \in DOMAIN up : up'[k] = up[j]
                              \/ \E j \in DOMAIN f : up'[k] = f[j]
  BY <1>2, <1>3, <1>4, SendUpFrames
<1>6. ASSUME NEW k \in DOMAIN up', \E j \in DOMAIN f : up'[k] = f[j]
      PROVE  FrameTrue(up[k])'
  <2>1. up'[k] = Update(o, store'[o]) BY <1>2, <1>6
  <2> QED BY <2>1, UpdateIsTrue
<1>7. \A k \in DOMAIN up' : \/ \E j \in DOMAIN up : up'[k] = up[j]
                           \/ FrameTrue(up[k])'
  BY <1>5, <1>6
<1>8. FramesTrue'
  BY <1>5, <1>7, FramesStayTrue
<1> QED BY <1>5, <1>8

(* The updates of a sweep, and then frames that are true as well.            *)
LEMMA SweepAndMore ==
  ASSUME TypeOK, FramesTrue, StoreGrows, store' \in [Ops -> Records],
         \A o \in Overdue : store'[o] = Swept[o],
         NEW s \in SweepUpdates, NEW f \in Seq(Frames), SendUp(s \o f),
         \A j \in DOMAIN f : \/ f[j].kind = "response"
                            \/ \E o \in Ops : /\ store'[o] # NoRecord
                                              /\ f[j] = Update(o, store'[o])
  PROVE  up' \in Seq(Frames) /\ FramesTrue'
<1>1. s \in Seq(Frames) /\ \A k \in DOMAIN s : \E o \in Overdue : s[k] = Update(o, Swept[o])
  BY SweepFrames
<1>2. s \o f \in Seq(Frames) /\ \A k \in DOMAIN (s \o f) :
         (\E j \in DOMAIN s : (s \o f)[k] = s[j]) \/ (\E j \in DOMAIN f : (s \o f)[k] = f[j])
  <2>1. s \o f \in Seq(Frames) BY <1>1
  <2>2. ASSUME NEW k \in DOMAIN (s \o f)
        PROVE  (\E j \in DOMAIN s : (s \o f)[k] = s[j]) \/ (\E j \in DOMAIN f : (s \o f)[k] = f[j])
    <3>1. CASE k <= Len(s)
      <4>1. k \in DOMAIN s /\ (s \o f)[k] = s[k] BY <1>1, <3>1
      <4> QED BY <4>1
    <3>2. CASE k > Len(s)
      <4>1. k - Len(s) \in DOMAIN f /\ (s \o f)[k] = f[k - Len(s)] BY <1>1, <3>2
      <4> QED BY <4>1
    <3> QED BY <3>1, <3>2, <2>1, <1>1
  <2> QED BY <2>1, <2>2
<1>3. up \in Seq(Frames)
  BY DEF TypeOK, LinkType
<1>4. /\ up' \in Seq(Frames)
      /\ \A k \in DOMAIN up' : \/ \E j \in DOMAIN up : up'[k] = up[j]
                              \/ \E j \in DOMAIN (s \o f) : up'[k] = (s \o f)[j]
  BY <1>2, <1>3, SendUpFrames
<1>5. ASSUME NEW k \in DOMAIN up', \E j \in DOMAIN s : up'[k] = s[j]
      PROVE  FrameTrue(up[k])'
  <2>1. PICK o \in Overdue : up'[k] = Update(o, Swept[o]) BY <1>1, <1>5
  <2>2. o \in Ops /\ Swept[o] # NoRecord /\ store'[o] = Swept[o] BY SweepTypes
  <2> QED BY <2>1, <2>2, UpdateIsTrue
<1>6. ASSUME NEW k \in DOMAIN up', \E j \in DOMAIN f : up'[k] = f[j]
      PROVE  FrameTrue(up[k])'
  <2>1. PICK j \in DOMAIN f : up'[k] = f[j] BY <1>6
  <2>2. CASE f[j].kind = "response" BY <2>1, <2>2 DEF FrameTrue
  <2>3. CASE \E o \in Ops : store'[o] # NoRecord /\ f[j] = Update(o, store'[o])
    <3>1. PICK o \in Ops : store'[o] # NoRecord /\ f[j] = Update(o, store'[o]) BY <2>3
    <3>2. up'[k] = Update(o, store'[o]) BY <2>1, <3>1
    <3> QED BY <3>1, <3>2, UpdateIsTrue
  <2> QED BY <2>2, <2>3
<1>7. \A k \in DOMAIN up' : \/ \E j \in DOMAIN up : up'[k] = up[j]
                           \/ FrameTrue(up[k])'
  BY <1>2, <1>4, <1>5, <1>6
<1>8. FramesTrue'
  BY <1>4, <1>7, FramesStayTrue
<1> QED BY <1>4, <1>8

(* A start recovers what was running and decides nothing else.               *)
LEMMA RecoveredTypes ==
  ASSUME TypeOK, store' = [o \in Ops |-> Recovered(store[o])]
  PROVE  /\ store' \in [Ops -> Records]
         /\ StoreGrows
         /\ \A o \in Ops : \/ store'[o] = store[o] /\ store[o].status # "running"
                          \/ /\ store[o].status = "running"
                             /\ store'[o].status = "indeterminate"
<1>1. ASSUME NEW o \in Ops, store[o].status = "running"
      PROVE  /\ store'[o] \in Records /\ store'[o].status = "indeterminate"
             /\ store'[o].issue = store[o].issue
  <2>1. store[o] \in [issue : Issues, status : AgentStatuses]
    BY <1>1 DEF TypeOK, AgentType, Records, NoRecord
  <2>2. store'[o] = [store[o] EXCEPT !.status = "indeterminate"]
    BY <1>1 DEF Recovered
  <2>3. store'[o] \in [issue : Issues, status : AgentStatuses]
    BY <2>1, <2>2 DEF AgentStatuses
  <2> QED BY <2>1, <2>2, <2>3 DEF Records
<1>2. ASSUME NEW o \in Ops, store[o].status # "running"
      PROVE  store'[o] = store[o] /\ store'[o] \in Records
  BY <1>2 DEF Recovered, TypeOK, AgentType
<1> QED BY <1>1, <1>2 DEF StoreGrows

(* A sweep only turns pending operations into expired ones.                  *)
LEMMA SweptGrows ==
  ASSUME TypeOK, store' = Swept
  PROVE  store' \in [Ops -> Records] /\ StoreGrows
BY SweepTypes DEF StoreGrows

(* A new operation is put to the configuration that runs.                    *)
LEMMA SubmitStep ==
  ASSUME IInv, phase = "up", scope \in Granting, NEW m \in Requests, Submit(m),
         UNCHANGED <<phase, scope, saved, exec, effects>>
  PROVE  /\ store' \in [Ops -> Records]
         /\ acceptedIn' \in [Ops -> Scopes \cup {NoScope}]
         /\ StoreGrows /\ up' \in Seq(Frames) /\ FramesTrue'
         /\ ExecInv' /\ ScopeInv'
<1> USE DEF IInv
<1>1. m.op \in Ops /\ m.issue \in Issues /\ m.issue # 0
  BY DEF Requests, Issues
<1>2. Response(m.op) \in Frames /\ Response(m.op).kind = "response"
  BY <1>1 DEF Response, Frames
<1>3. CASE /\ store[m.op] = NoRecord
           /\ store' = [Swept EXCEPT ![m.op] = Accepted(m)]
           /\ acceptedIn' = [acceptedIn EXCEPT ![m.op] = scope]
           /\ \E s \in SweepUpdates :
                SendUp(s \o <<Update(m.op, Accepted(m)), Response(m.op)>>)
  <2>1. Accepted(m) \in Records /\ Accepted(m) # NoRecord /\ Accepted(m).status = "pending"
        /\ Accepted(m).issue = m.issue
    BY <1>1 DEF Accepted, Records, NoRecord, AgentStatuses
  <2>2. m.op \notin Overdue
    BY <1>3 DEF Overdue, Pending, NoRecord
  <2>3. /\ store'[m.op] = Accepted(m)
        /\ \A o \in Ops : o # m.op => store'[o] = Swept[o]
        /\ store' \in [Ops -> Records]
    BY <1>1, <1>3, <2>1, SweepTypes
  <2>4. StoreGrows
    BY <1>3, <2>3, SweepTypes DEF StoreGrows, NoRecord
  <2>5. acceptedIn' \in [Ops -> Scopes \cup {NoScope}]
        /\ acceptedIn'[m.op] = scope
        /\ \A o \in Ops : o # m.op => acceptedIn'[o] = acceptedIn[o]
    BY <1>1, <1>3 DEF TypeOK, AgentType
  <2>6. PICK s \in SweepUpdates :
               SendUp(s \o <<Update(m.op, Accepted(m)), Response(m.op)>>)
    BY <1>3
  <2> DEFINE f == <<Update(m.op, Accepted(m)), Response(m.op)>>
  <2>7. f \in Seq(Frames) /\ DOMAIN f = {1, 2}
        /\ f[1] = Update(m.op, store'[m.op]) /\ f[2] = Response(m.op)
    <3>1. Update(m.op, Accepted(m)) \in Frames BY <1>1, <2>1, UpdateIsFrame
    <3> QED BY <1>2, <2>3, <3>1
  <2>8. \A o \in Overdue : store'[o] = Swept[o]
    BY <2>2, <2>3 DEF Overdue
  <2>9. SendUp(s \o f)
    BY <2>6
  <2> HIDE DEF f
  <2>10. up' \in Seq(Frames) /\ FramesTrue'
    BY <1>1, <1>2, <2>1, <2>3, <2>4, <2>7, <2>8, <2>9, SweepAndMore
  <2>11. ExecInv'
    <3> SUFFICES ASSUME NEW o \in Ops
                 PROVE  /\ exec[o] \in {"started", "sent"} =>
                             /\ store'[o].status = "running" /\ effects[o] = 0
                             /\ phase \in {"up", "closing"} /\ acceptedIn'[o] = scope
                        /\ exec[o] = "done" => effects[o] = 1
                        /\ store'[o].status = "completed" => effects[o] = 1
                        /\ effects[o] = 1 =>
                             store'[o].status \in {"running", "completed", "failed", "indeterminate"}
        BY DEF ExecInv
    <3>1. CASE o = m.op
      BY <1>3, <2>1, <2>3, <3>1 DEF ExecInv, NoRecord
    <3>2. CASE o # m.op
      BY <2>3, <2>5, <3>2, SweepTypes DEF ExecInv
    <3> QED BY <3>1, <3>2
  <2>12. ScopeInv'
    BY <2>3, <2>5, SweepTypes DEF ScopeInv
  <2> QED BY <2>3, <2>4, <2>5, <2>10, <2>11, <2>12
<1>4. CASE /\ store' = Swept
           /\ \E s \in SweepUpdates : SendUp(s \o <<Response(m.op)>>)
           /\ UNCHANGED acceptedIn
  <2>1. PICK s \in SweepUpdates : SendUp(s \o <<Response(m.op)>>)
    BY <1>4
  <2> DEFINE f == <<Response(m.op)>>
  <2>2. f \in Seq(Frames) /\ DOMAIN f = {1} /\ f[1].kind = "response"
    BY <1>2
  <2>3. store' \in [Ops -> Records] /\ StoreGrows
    BY <1>4, SweptGrows
  <2>4. SendUp(s \o f)
    BY <2>1
  <2>5. \A o \in Overdue : store'[o] = Swept[o]
    BY <1>4
  <2> HIDE DEF f
  <2>6. up' \in Seq(Frames) /\ FramesTrue'
    BY <2>2, <2>3, <2>4, <2>5, SweepAndMore
  <2>7. ExecInv'
    BY <1>4, SweepTypes DEF ExecInv
  <2>8. ScopeInv'
    BY <1>4, SweepTypes DEF ScopeInv
  <2> QED BY <1>4, <2>3, <2>6, <2>7, <2>8 DEF TypeOK, AgentType
<1>5. CASE SendUp(<<Response(m.op)>>) /\ UNCHANGED <<store, acceptedIn>>
  <2> DEFINE f == <<Response(m.op)>>
  <2>1. f \in Seq(Frames) /\ DOMAIN f = {1} /\ f[1].kind = "response"
    BY <1>2
  <2>2. StoreGrows /\ store' \in [Ops -> Records]
    BY <1>5 DEF StoreGrows, TypeOK, AgentType
  <2>3. SendUp(f) /\ up \in Seq(Frames)
    BY <1>5 DEF TypeOK, LinkType
  <2> HIDE DEF f
  <2>4. /\ up' \in Seq(Frames)
        /\ \A k \in DOMAIN up' : \/ \E j \in DOMAIN up : up'[k] = up[j]
                                \/ \E j \in DOMAIN f : up'[k] = f[j]
    BY <2>1, <2>3, SendUpFrames
  <2>5. \A k \in DOMAIN up' : \/ \E j \in DOMAIN up : up'[k] = up[j]
                             \/ FrameTrue(up[k])'
    BY <2>1, <2>4 DEF FrameTrue
  <2>6. FramesTrue'
    BY <2>2, <2>4, <2>5, FramesStayTrue
  <2>7. ExecInv' /\ ScopeInv'
    BY <1>5 DEF ExecInv, ScopeInv
  <2> QED BY <1>5, <2>2, <2>4, <2>6, <2>7 DEF TypeOK, AgentType
<1> QED BY <1>3, <1>4, <1>5 DEF Submit

(* One status changes, and the update that says so is sent.                  *)
LEMMA ChangeAndSend ==
  ASSUME IInv, NEW o \in Ops, NEW st \in AgentStatuses,
         store[o].status \in {"pending", "running"},
         store' = [store EXCEPT ![o].status = st],
         SendUp(<<Update(o, store'[o])>>)
  PROVE  store' \in [Ops -> Records] /\ StoreGrows /\ up' \in Seq(Frames) /\ FramesTrue'
<1>1. store' \in [Ops -> Records] /\ StoreGrows /\ store'[o] # NoRecord
  BY StatusChange DEF IInv
<1> QED BY <1>1, OneUpdate DEF IInv

(* What a server still has stays as it is while the agent goes on.           *)
LEMMA LateStays ==
  ASSUME LateInv, UNCHANGED serverVars,
         late # {} => phase' \in {"up", "closing"} /\ scope' = scope,
         \A o \in Ops : store[o].status \in Unsettled /\ exec[o] \in Unawaited =>
           /\ store'[o].status \in Unsettled /\ exec'[o] \in Unawaited
           /\ effects'[o] = effects[o] /\ acceptedIn'[o] = acceptedIn[o]
  PROVE  LateInv'
BY DEF LateInv, serverVars

LEMMA LateStep ==
  ASSUME IInv, AgentNext
  PROVE  LateInv'
<1>1. TypeOK /\ ExecInv /\ LateInv
  BY DEF IInv
<1>2. /\ store \in [Ops -> Records] /\ effects \in [Ops -> 0..1]
      /\ exec \in [Ops -> {"idle", "started", "sent", "done", "broken"}]
      /\ acceptedIn \in [Ops -> Scopes \cup {NoScope}] /\ late \subseteq Ops
      /\ orphan \in [Ops -> Scopes \cup {NoScope}]
  BY <1>1 DEF TypeOK, AgentType
<1>3. ASSUME NEW s \in Scopes, Start(s) PROVE LateInv'
  <2>1. late = {}
    BY <1>1, <1>3 DEF Start, LateInv
  <2>2. /\ \A o \in Ops : store[o].status \in Unsettled => store'[o].status \in Unsettled
        /\ UNCHANGED <<exec, effects, acceptedIn, serverVars>>
    BY <1>1, <1>3, RecoveredTypes DEF Start, Unsettled
  <2> QED
    BY <1>1, <2>1, <2>2, LateStays
<1>4. ASSUME NEW o \in Ops, DenyOnStart(o) \/ Approve(o) \/ Deny(o) PROVE LateInv'
  <2>1. /\ store[o].status = "pending" /\ \A p \in Ops : p # o => store'[p] = store[p] /\ exec'[p] = exec[p]
        /\ UNCHANGED <<phase, scope, effects, acceptedIn, serverVars>>
    BY <1>2, <1>4 DEF DenyOnStart, Approve, Deny, CanApprove, Pending
  <2> QED
    BY <1>1, <2>1, LateStays DEF Unsettled, LateInv
<1>5. ASSUME NEW o \in Ops, Execute(o) \/ PerformRequest(o) PROVE LateInv'
  <2>1. /\ exec[o] \notin Unawaited
        /\ \A p \in Ops : p # o => exec'[p] = exec[p] /\ effects'[p] = effects[p]
        /\ UNCHANGED <<phase, scope, store, acceptedIn, serverVars>>
    BY <1>2, <1>5 DEF Execute, PerformRequest, Unawaited
  <2> QED
    BY <1>1, <2>1, LateStays DEF LateInv
<1>6. ASSUME NEW o \in Ops, Break(o) PROVE LateInv'
  <2>1. /\ exec[o] \notin Unawaited /\ exec'[o] \in Unawaited
        /\ \A p \in Ops : p # o => exec'[p] = exec[p]
        /\ UNCHANGED <<phase, scope, store, acceptedIn, orphan, effects>>
    BY <1>2, <1>6 DEF Break, Unawaited
  <2>2. CASE UNCHANGED late
    BY <1>1, <2>1, <2>2, LateStays DEF LateInv, serverVars
  <2>3. CASE exec[o] = "sent" /\ late' = late \cup {o}
    <3>1. store[o].status \in Unsettled /\ effects[o] = 0 /\ phase \in {"up", "closing"} /\ acceptedIn[o] = scope
      BY <1>1, <2>3 DEF ExecInv, Unsettled
    <3>2. orphan[o] = NoScope
      BY <1>1, <2>1 DEF LateInv
    <3> QED
      BY <1>1, <2>1, <2>3, <3>1, <3>2 DEF LateInv
  <2> QED
    BY <1>6, <2>2, <2>3 DEF Break
<1>7. ASSUME NEW o \in Ops, PerformLate(o) PROVE LateInv'
  <2>1. /\ late' = late \ {o} /\ orphan'[o] = NoScope
        /\ \A p \in Ops : p # o => orphan'[p] = orphan[p] /\ effects'[p] = effects[p]
        /\ UNCHANGED <<phase, scope, store, acceptedIn, exec>>
    BY <1>2, <1>7 DEF PerformLate
  <2> QED
    BY <1>1, <2>1 DEF LateInv
<1>8. ASSUME NEW o \in Ops, Persist(o) \/ PersistFails(o) PROVE LateInv'
  <2>1. /\ exec'[o] = "idle" /\ \A p \in Ops : p # o => store'[p] = store[p] /\ exec'[p] = exec[p]
        /\ UNCHANGED <<phase, scope, effects, acceptedIn, serverVars>>
    BY <1>2, <1>8 DEF Persist, PersistFails
  <2>2. exec[o] \in Unawaited => store'[o].status = "failed" \/ store'[o] = store[o]
    BY <1>2, <1>8, StatusChange, <1>1 DEF Persist, PersistFails, StillRuns, Outcome, Unawaited, AgentStatuses
  <2> QED
    BY <1>1, <2>1, <2>2, LateStays DEF Unsettled, Unawaited, LateInv
<1>9. ASSUME HandleRequest \/ List PROVE LateInv'
  <2>1. /\ \A o \in Ops : store[o].status \in Unsettled =>
             store'[o] = store[o] /\ acceptedIn'[o] = acceptedIn[o]
        /\ UNCHANGED <<phase, scope, effects, exec, serverVars>>
    <3>1. \A o \in Ops : store[o].status \in Unsettled => Swept[o] = store[o]
      BY <1>1, SweepTypes DEF Unsettled
    <3>2. UNCHANGED <<phase, scope, effects, exec, serverVars>>
      BY <1>9 DEF HandleRequest, List
    <3>3. CASE List
      BY <3>1, <3>2, <3>3 DEF List
    <3>4. CASE HandleRequest
      <4> DEFINE m == Head(down)
      <4>1. \/ UNCHANGED acceptedIn /\ (store' = store \/ store' = Swept)
            \/ /\ store[m.op] = NoRecord /\ store' = [Swept EXCEPT ![m.op] = Accepted(m)]
               /\ acceptedIn' = [acceptedIn EXCEPT ![m.op] = scope]
        BY <3>4 DEF HandleRequest, Submit
      <4> HIDE DEF m
      <4>2. store[m.op] = NoRecord => store[m.op].status \notin Unsettled
        BY DEF NoRecord, Unsettled
      <4>3. Swept \in [Ops -> Records]
        BY <1>1, SweepTypes
      <4>4. SUFFICES ASSUME NEW o \in Ops, store[o].status \in Unsettled
                     PROVE store'[o] = store[o] /\ acceptedIn'[o] = acceptedIn[o]
        BY <3>2
      <4>5. Swept[o] = store[o]
        BY <3>1, <4>4
      <4>6. CASE UNCHANGED acceptedIn /\ (store' = store \/ store' = Swept)
        BY <4>5, <4>6
      <4>7. CASE /\ store[m.op] = NoRecord /\ store' = [Swept EXCEPT ![m.op] = Accepted(m)]
                 /\ acceptedIn' = [acceptedIn EXCEPT ![m.op] = scope]
        <5>1. o # m.op
          BY <4>2, <4>4, <4>7
        <5>2. acceptedIn \in [Ops -> Scopes \cup {NoScope}]
          BY <1>2
        <5> QED
          BY <4>3, <4>4, <4>5, <4>7, <5>1, <5>2
      <4> QED
        BY <4>1, <4>6, <4>7
    <3> QED
      BY <1>9, <3>2, <3>3, <3>4
  <2> QED
    BY <1>1, <2>1, LateStays DEF LateInv
<1>10. ASSUME Publish \/ Close \/ AgentLoses \/ AgentTick PROVE LateInv'
  <2>1. /\ UNCHANGED <<scope, store, acceptedIn, effects, exec, serverVars>>
        /\ phase' \in {phase, "up", "closing"}
    BY <1>10 DEF Publish, Close, AgentLoses, AgentTick, agentVars
  <2> QED
    BY <1>1, <2>1, LateStays DEF LateInv
<1>11. ASSUME Unlock PROVE LateInv'
  <2>1. /\ late' = {} /\ UNCHANGED <<store, acceptedIn, effects, orphan>>
        /\ \A o \in Ops : exec[o] \in Unawaited => exec'[o] = exec[o]
    BY <1>11 DEF Unlock, Unawaited
  <2> QED
    BY <1>1, <2>1 DEF LateInv
<1>12. ASSUME Crash PROVE LateInv'
  <2>1. /\ late' = {} /\ UNCHANGED <<store, acceptedIn, effects>>
        /\ \A o \in Ops : /\ exec'[o] = "idle"
                         /\ orphan'[o] = IF o \in late \/ exec[o] = "sent" THEN scope ELSE orphan[o]
    BY <1>12 DEF Crash
  <2>2. \A o \in Ops : exec[o] = "sent" =>
          store[o].status \in Unsettled /\ effects[o] = 0 /\ acceptedIn[o] = scope
    BY <1>1 DEF ExecInv, Unsettled
  <2> QED
    BY <1>1, <2>1, <2>2 DEF LateInv, Unawaited
<1> QED
  BY <1>3, <1>4, <1>5, <1>6, <1>7, <1>8, <1>9, <1>10, <1>11, <1>12 DEF AgentNext

LEMMA AgentStep ==
  ASSUME IInv, AgentNext, UNCHANGED gatewayVars
  PROVE  IInv'
<1> USE DEF IInv, serverVars
<1> DEFINE Goal == /\ LinkType' /\ AgentType' /\ StoreGrows
                   /\ ExecInv' /\ ScopeInv' /\ FramesTrue'
<1>1. ASSUME store' = store PROVE StoreGrows /\ (up' = up => FramesTrue')
  BY <1>1 DEF StoreGrows, FramesTrue, FrameTrue
<1>2. up \in Seq(Frames) /\ down \in Seq(Requests)
  BY DEF TypeOK, LinkType
<1>3. ASSUME NEW s \in Scopes, Start(s) PROVE Goal
  <2>1. store' = [o \in Ops |-> Recovered(store[o])] /\ up' = up
    BY <1>3 DEF Start, linkVars
  <2>2. store' \in [Ops -> Records] /\ StoreGrows
    BY <2>1, RecoveredTypes
  <2>3. FramesTrue'
    BY <2>1, <2>2, <1>2, FramesStayTrue
  <2>4. ExecInv'
    BY <1>3, <2>1, RecoveredTypes DEF Start, ExecInv
  <2>5. ScopeInv'
    BY <1>3, <2>1, RecoveredTypes DEF Start, ScopeInv
  <2> QED BY <1>3, <2>2, <2>3, <2>4, <2>5 DEF Start, TypeOK, LinkType, AgentType, linkVars
<1>4. ASSUME NEW o \in Ops, DenyOnStart(o) PROVE Goal
  <2>1. PICK st \in {"expired", "denied"} : store' = [store EXCEPT ![o].status = st]
    BY <1>4 DEF DenyOnStart
  <2>2. st \in AgentStatuses /\ store[o].status = "pending" /\ up' = up
    BY <1>4 DEF DenyOnStart, Pending, AgentStatuses, linkVars
  <2>3. /\ store' \in [Ops -> Records] /\ StoreGrows /\ store'[o].status = st
        /\ \A p \in Ops : p # o => store'[p] = store[p]
    BY <2>1, <2>2, StatusChange
  <2>4. FramesTrue'
    BY <2>2, <2>3, <1>2, FramesStayTrue
  <2>5. ExecInv' /\ ScopeInv'
    BY <1>4, <2>2, <2>3 DEF DenyOnStart, ExecInv, ScopeInv
  <2> QED BY <1>4, <2>3, <2>4, <2>5 DEF DenyOnStart, TypeOK, LinkType, AgentType, linkVars
<1>5. ASSUME NEW o \in Ops, Approve(o) PROVE Goal
  <2>1. PICK st \in {"expired", "running"} :
          /\ store' = [store EXCEPT ![o].status = st]
          /\ exec' = IF st = "expired" THEN exec ELSE [exec EXCEPT ![o] = "started"]
    BY <1>5 DEF Approve
  <2>2. st \in AgentStatuses /\ store[o].status = "pending" /\ SendUp(<<Update(o, store'[o])>>)
    BY <1>5 DEF Approve, CanApprove, Pending, AgentStatuses
  <2>3. /\ store' \in [Ops -> Records] /\ StoreGrows /\ store'[o].status = st
        /\ \A p \in Ops : p # o => store'[p] = store[p]
    BY <2>1, <2>2, StatusChange
  <2>4. up' \in Seq(Frames) /\ FramesTrue'
    BY <2>1, <2>2, ChangeAndSend
  <2>5. effects[o] = 0 /\ acceptedIn[o] = scope /\ phase = "up"
    BY <1>5, <2>2 DEF Approve, ScopeInv, ExecInv, TypeOK, AgentType
  <2>6. ExecInv'
    BY <1>5, <2>1, <2>2, <2>3, <2>5 DEF Approve, ExecInv, TypeOK, AgentType
  <2>7. ScopeInv'
    BY <1>5, <2>1, <2>3 DEF Approve, ScopeInv
  <2> QED BY <1>5, <2>1, <2>3, <2>4, <2>6, <2>7 DEF Approve, TypeOK, LinkType, AgentType
<1>6. ASSUME NEW o \in Ops, Deny(o) PROVE Goal
  <2>1. PICK st \in {"expired", "denied"} : store' = [store EXCEPT ![o].status = st]
    BY <1>6 DEF Deny
  <2>2. st \in AgentStatuses /\ store[o].status = "pending" /\ SendUp(<<Update(o, store'[o])>>)
    BY <1>6 DEF Deny, Pending, AgentStatuses
  <2>3. /\ store' \in [Ops -> Records] /\ StoreGrows /\ store'[o].status = st
        /\ \A p \in Ops : p # o => store'[p] = store[p]
    BY <2>1, <2>2, StatusChange
  <2>4. up' \in Seq(Frames) /\ FramesTrue'
    BY <2>1, <2>2, ChangeAndSend
  <2>5. ExecInv' /\ ScopeInv'
    BY <1>6, <2>2, <2>3 DEF Deny, ExecInv, ScopeInv
  <2> QED BY <1>6, <2>3, <2>4, <2>5 DEF Deny, TypeOK, LinkType, AgentType
<1>7. ASSUME NEW o \in Ops, Execute(o) PROVE Goal
  <2>1. store' = store /\ up' = up BY <1>7 DEF Execute, linkVars
  <2>2. StoreGrows /\ FramesTrue' BY <1>1, <2>1
  <2>3. ExecInv' /\ ScopeInv'
    BY <1>7 DEF Execute, ExecInv, ScopeInv, TypeOK, AgentType
  <2> QED BY <1>7, <2>2, <2>3 DEF Execute, TypeOK, LinkType, AgentType, linkVars
<1>8. ASSUME NEW o \in Ops, PerformRequest(o) PROVE Goal
  <2>1. store' = store /\ up' = up BY <1>8 DEF PerformRequest, linkVars
  <2>2. StoreGrows /\ FramesTrue' BY <1>1, <2>1
  <2>3. effects[o] = 0 /\ store[o].status = "running" BY <1>8 DEF PerformRequest, ExecInv
  <2>4. ExecInv' /\ ScopeInv'
    BY <1>8, <2>3 DEF PerformRequest, ExecInv, ScopeInv, TypeOK, AgentType
  <2> QED BY <1>8, <2>2, <2>3, <2>4 DEF PerformRequest, TypeOK, LinkType, AgentType, linkVars
<1>23. ASSUME NEW o \in Ops, PerformLate(o) PROVE Goal
  <2>1. store' = store /\ up' = up BY <1>23 DEF PerformLate, linkVars
  <2>2. StoreGrows /\ FramesTrue' BY <1>1, <2>1
  <2>3. effects[o] = 0 /\ store[o].status \in Unsettled /\ exec[o] \in Unawaited
    BY <1>23 DEF PerformLate, LateInv
  <2>4. ExecInv' /\ ScopeInv'
    BY <1>23, <2>3 DEF PerformLate, ExecInv, ScopeInv, TypeOK, AgentType, Unsettled, Unawaited
  <2> QED BY <1>23, <2>2, <2>3, <2>4 DEF PerformLate, TypeOK, LinkType, AgentType, linkVars
<1>9. ASSUME NEW o \in Ops, Break(o) PROVE Goal
  <2>1. store' = store /\ up' = up BY <1>9 DEF Break, linkVars
  <2>2. StoreGrows /\ FramesTrue' BY <1>1, <2>1
  <2>3. ExecInv' /\ ScopeInv'
    BY <1>9 DEF Break, ExecInv, ScopeInv, TypeOK, AgentType
  <2> QED BY <1>9, <2>2, <2>3 DEF Break, TypeOK, LinkType, AgentType, linkVars
<1>10. ASSUME NEW o \in Ops, Persist(o) PROVE Goal
  <2>1. CASE StillRuns(o)
    <3>1. PICK st \in {"completed", "failed"} :
            /\ store' = [store EXCEPT ![o].status = st]
            /\ st = "completed" => exec[o] = "done"
      BY <1>10, <2>1 DEF Persist, Outcome
    <3>2. st \in AgentStatuses /\ store[o].status = "running" /\ SendUp(<<Update(o, store'[o])>>)
      BY <1>10, <2>1 DEF Persist, StillRuns, AgentStatuses
    <3>3. /\ store' \in [Ops -> Records] /\ StoreGrows /\ store'[o].status = st
          /\ \A p \in Ops : p # o => store'[p] = store[p]
      BY <3>1, <3>2, StatusChange
    <3>4. up' \in Seq(Frames) /\ FramesTrue'
      BY <3>1, <3>2, ChangeAndSend
    <3>5. ExecInv' /\ ScopeInv'
      BY <1>10, <3>1, <3>3 DEF Persist, ExecInv, ScopeInv, TypeOK, AgentType
    <3> QED BY <1>10, <3>3, <3>4, <3>5 DEF Persist, TypeOK, LinkType, AgentType
  <2>2. CASE ~StillRuns(o)
    <3>1. store' = store /\ up' = up BY <1>10, <2>2 DEF Persist
    <3>2. StoreGrows /\ FramesTrue' BY <1>1, <3>1
    <3>3. ExecInv' /\ ScopeInv'
      BY <1>10, <3>1 DEF Persist, ExecInv, ScopeInv, TypeOK, AgentType
    <3> QED BY <1>10, <3>1, <3>2, <3>3 DEF Persist, TypeOK, LinkType, AgentType
  <2> QED BY <2>1, <2>2
<1>11. ASSUME NEW o \in Ops, PersistFails(o) PROVE Goal
  <2>1. store' = store /\ up' = up BY <1>11 DEF PersistFails, linkVars
  <2>2. StoreGrows /\ FramesTrue' BY <1>1, <2>1
  <2>3. ExecInv' /\ ScopeInv'
    BY <1>11 DEF PersistFails, ExecInv, ScopeInv, TypeOK, AgentType
  <2> QED BY <1>11, <2>2, <2>3 DEF PersistFails, TypeOK, LinkType, AgentType, linkVars
<1>12. ASSUME Publish PROVE Goal
  <2>1. store' = store /\ up' = up BY <1>12 DEF Publish, linkVars
  <2>2. StoreGrows /\ FramesTrue' BY <1>1, <2>1
  <2>3. ExecInv' BY <1>12 DEF Publish, ExecInv
  <2>4. ScopeInv' BY <1>12 DEF Publish, MayPublish, Pending, ScopeInv
  <2> QED BY <1>12, <2>2, <2>3, <2>4 DEF Publish, TypeOK, LinkType, AgentType, linkVars
<1>13. ASSUME HandleRequest PROVE Goal
  <2> DEFINE m == Head(down)
  <2>1. m \in Requests /\ down' \in Seq(Requests) /\ phase = "up"
    BY <1>2, <1>13 DEF HandleRequest
  <2>2. m.op \in Ops /\ m.issue \in Issues BY <2>1 DEF Requests
  <2>3. CASE scope \notin Granting
    <3> DEFINE f == <<[kind |-> "update", op |-> m.op, issue |-> m.issue, status |-> "failed"],
                      Response(m.op)>>
    <3>1. f \in Seq(Frames) /\ DOMAIN f = {1, 2}
          /\ f[1].status = "failed" /\ f[2].kind = "response"
      BY <2>2 DEF Frames, Response, PublicStatuses
    <3>2. SendUp(f) /\ store' = store /\ acceptedIn' = acceptedIn
      BY <1>13, <2>3 DEF HandleRequest, Refused
    <3> HIDE DEF f
    <3>3. /\ up' \in Seq(Frames)
          /\ \A k \in DOMAIN up' : \/ \E j \in DOMAIN up : up'[k] = up[j]
                                  \/ \E j \in DOMAIN f : up'[k] = f[j]
      BY <1>2, <3>1, <3>2, SendUpFrames
    <3>4. \A k \in DOMAIN up' : \/ \E j \in DOMAIN up : up'[k] = up[j]
                               \/ FrameTrue(up[k])'
      BY <3>1, <3>3 DEF FrameTrue
    <3>5. StoreGrows /\ store' \in [Ops -> Records]
      BY <1>1, <3>2 DEF TypeOK, AgentType
    <3>6. FramesTrue'
      BY <3>3, <3>4, <3>5, FramesStayTrue
    <3>7. ExecInv' /\ ScopeInv'
      BY <1>13, <3>2 DEF HandleRequest, ExecInv, ScopeInv
    <3> QED BY <1>13, <2>1, <3>2, <3>3, <3>5, <3>6, <3>7
            DEF HandleRequest, TypeOK, LinkType, AgentType
  <2>4. CASE scope \in Granting
    <3>1. Submit(m) /\ UNCHANGED <<phase, scope, saved, exec, effects>>
      BY <1>13, <2>4 DEF HandleRequest
    <3> HIDE DEF m
    <3>2. /\ store' \in [Ops -> Records]
          /\ acceptedIn' \in [Ops -> Scopes \cup {NoScope}]
          /\ StoreGrows /\ up' \in Seq(Frames) /\ FramesTrue'
          /\ ExecInv' /\ ScopeInv'
      BY <2>1, <2>4, <3>1, SubmitStep
    <3> QED BY <1>13, <2>1, <3>2 DEF HandleRequest, TypeOK, LinkType, AgentType
  <2> QED BY <2>3, <2>4
<1>14. ASSUME List PROVE Goal
  <2>1. store' = Swept BY <1>14 DEF List
  <2>2. store' \in [Ops -> Records] /\ StoreGrows BY <2>1, SweptGrows
  <2>3. PICK s \in SweepUpdates : SendUp(s) BY <1>14 DEF List
  <2>4. s \in Seq(Frames) BY SweepFrames
  <2> DEFINE f == << >>
  <2>5. f \in Seq(Frames) /\ DOMAIN f = {} /\ s \o f = s BY <2>4
  <2>6. SendUp(s \o f) BY <2>3, <2>5
  <2> HIDE DEF f
  <2>7. up' \in Seq(Frames) /\ FramesTrue'
    BY <2>1, <2>2, <2>5, <2>6, SweepAndMore
  <2>8. ExecInv' BY <1>14, <2>1, SweepTypes DEF List, ExecInv
  <2>9. ScopeInv' BY <1>14, <2>1, SweepTypes DEF List, ScopeInv
  <2> QED BY <1>14, <2>2, <2>7, <2>8, <2>9 DEF List, TypeOK, LinkType, AgentType
<1>15. ASSUME Close PROVE Goal
  <2>1. store' = store /\ up' = up BY <1>15 DEF Close
  <2>2. StoreGrows /\ FramesTrue' BY <1>1, <2>1
  <2>3. ExecInv' /\ ScopeInv' BY <1>15 DEF Close, ExecInv, ScopeInv
  <2>4. stops' \in 0..MaxStops
    BY <1>15, ScopeAssumption DEF Close, TypeOK, AgentType, ScopeAssumption
  <2>5. down' = << >> BY <1>15 DEF Close
  <2>6. down' \in Seq(Requests) BY <2>5
  <2>7. LinkType'
    BY <1>15, <1>2, <2>1, <2>4, <2>6 DEF Close, TypeOK, LinkType
  <2>8. AgentType'
    BY <1>15, <2>4 DEF Close, TypeOK, AgentType, agentVars
  <2> QED BY <2>2, <2>3, <2>7, <2>8
<1>16. ASSUME Unlock PROVE Goal
  <2>1. store' = store /\ up' = up BY <1>16 DEF Unlock, linkVars
  <2>2. StoreGrows /\ FramesTrue' BY <1>1, <2>1
  <2>3. ExecInv' /\ ScopeInv' BY <1>16 DEF Unlock, ExecInv, ScopeInv
  <2> QED BY <1>16, <2>2, <2>3 DEF Unlock, TypeOK, LinkType, AgentType, linkVars
<1>17. ASSUME Crash PROVE Goal
  <2>1. store' = store /\ up' = up BY <1>17 DEF Crash
  <2>2. StoreGrows /\ FramesTrue' BY <1>1, <2>1
  <2>3. ExecInv' /\ ScopeInv' BY <1>17 DEF Crash, ExecInv, ScopeInv
  <2>4. stops' \in 0..MaxStops
    BY <1>17, ScopeAssumption DEF Crash, TypeOK, AgentType, ScopeAssumption
  <2>5. down' = << >> BY <1>17 DEF Crash
  <2>6. down' \in Seq(Requests) BY <2>5
  <2>7. LinkType'
    BY <1>17, <1>2, <2>1, <2>4, <2>6 DEF Crash, TypeOK, LinkType
  <2>8. AgentType'
    BY <1>17, <2>4 DEF Crash, TypeOK, AgentType, agentVars
  <2> QED BY <2>2, <2>3, <2>7, <2>8
<1>18. ASSUME AgentLoses PROVE Goal
  <2>1. store' = store /\ up' = up BY <1>18 DEF AgentLoses, agentVars
  <2>2. StoreGrows /\ FramesTrue' BY <1>1, <2>1
  <2>3. ExecInv' /\ ScopeInv' BY <1>18 DEF AgentLoses, agentVars, ExecInv, ScopeInv
  <2>4. drops' \in 0..MaxDrops
    BY <1>18, LinkAssumption DEF AgentLoses, TypeOK, LinkType, LinkAssumption
  <2>5. down' = << >> BY <1>18 DEF AgentLoses
  <2>6. down' \in Seq(Requests) BY <2>5
  <2>7. LinkType'
    BY <1>18, <1>2, <2>1, <2>4, <2>6 DEF AgentLoses, TypeOK, LinkType
  <2>8. AgentType'
    BY <1>18, <2>4 DEF AgentLoses, TypeOK, AgentType, agentVars
  <2> QED BY <2>2, <2>3, <2>7, <2>8
<1>19. ASSUME AgentTick PROVE Goal
  <2>1. store' = store /\ up' = up BY <1>19 DEF AgentTick, linkVars
  <2>2. StoreGrows /\ FramesTrue' BY <1>1, <2>1
  <2>3. ExecInv' /\ ScopeInv' BY <1>19 DEF AgentTick, ExecInv, ScopeInv
  <2> QED BY <1>19, <2>2, <2>3, LinkAssumption
          DEF AgentTick, TypeOK, LinkType, AgentType, linkVars, LinkAssumption
<1>20. Goal
  BY <1>3, <1>4, <1>5, <1>6, <1>7, <1>8, <1>9, <1>10, <1>11, <1>12, <1>13, <1>14,
     <1>15, <1>16, <1>17, <1>18, <1>19, <1>23 DEF AgentNext
<1>21. GatewayType' /\ UNCHANGED job
  BY DEF TypeOK, GatewayType, gatewayVars
<1>22. ReceiptsTrue'
  BY <1>20, <1>21, ReceiptsStayTrue
<1> QED BY <1>20, <1>21, <1>22, LateStep DEF TypeOK

(* A new connection starts with what the store says.                         *)
(* What the agent resends is the store.                                      *)
LEMMA ResentFrames ==
  ASSUME TypeOK, NEW s \in Orders(Resent)
  PROVE  /\ s \in Seq(Frames)
         /\ \A k \in DOMAIN s :
              \E o \in Ops : store[o] # NoRecord /\ s[k] = Update(o, store[o])
<1> DEFINE S == {p \in Ops : store[p] # NoRecord}
           g == [o \in S |-> Update(o, store[o])]
<1>1. S \subseteq Ops /\ \A o \in S : store[o] \in Records /\ store[o] # NoRecord
  BY DEF TypeOK, AgentType
<1>2. g \in [S -> Frames]
  BY <1>1, UpdateIsFrame
<1>3. {g[o] : o \in S} = Resent
  BY DEF Resent
<1>4. s \in Orders({g[o] : o \in S})
  BY <1>3
<1>5. \A o \in S : g[o] = Update(o, store[o])
  OBVIOUS
<1> HIDE DEF g, S
<1>6. S \subseteq Ops BY <1>1
<1>7. s \in Seq(Frames) /\ \A k \in DOMAIN s : \E o \in S : s[k] = g[o]
  BY <1>6, <1>2, <1>4, OrdersOfImages
<1> QED BY <1>1, <1>5, <1>7

LEMMA AttachStep ==
  ASSUME IInv, Attach
  PROVE  IInv'
<1>1. PICK s \in Orders(Resent) : up' = s
  BY DEF Attach
<1>2. TypeOK BY DEF IInv
<1>3. UNCHANGED <<store, job, effects, exec, phase, scope, saved, acceptedIn, late, orphan>>
  BY DEF Attach, agentVars, serverVars
<1>4. /\ up' \in Seq(Frames)
      /\ \A k \in DOMAIN up' :
           \E o \in Ops : store[o] # NoRecord /\ up'[k] = Update(o, store[o])
  BY <1>1, <1>2, ResentFrames
<1>5. FramesTrue'
  <2> SUFFICES ASSUME NEW k \in DOMAIN up' PROVE FrameTrue(up[k])'
      BY DEF FramesTrue
  <2>1. PICK o \in Ops : store[o] # NoRecord /\ up'[k] = Update(o, store[o])
    BY <1>4
  <2>2. store'[o] # NoRecord /\ up'[k] = Update(o, store'[o])
        /\ store' \in [Ops -> Records]
    BY <1>2, <1>3, <2>1 DEF TypeOK, AgentType
  <2> QED BY <2>2, UpdateIsTrue
<1>6. ExecInv' /\ LateInv' /\ ScopeInv' /\ ReceiptsTrue'
  BY <1>3 DEF IInv, ExecInv, LateInv, ScopeInv, ReceiptsTrue
<1>7. waits' \in [Ops -> {"none", "waiting", "failed"}]
  BY <1>2 DEF Attach, FailPending, TypeOK, GatewayType
<1>8. down' = << >> BY DEF Attach
<1>9. down' \in Seq(Requests) BY <1>8
<1>10. LinkType'
  BY <1>2, <1>4, <1>9 DEF Attach, TypeOK, LinkType
<1>11. GatewayType' /\ AgentType'
  BY <1>2, <1>7 DEF Attach, TypeOK, GatewayType, AgentType, agentVars, serverVars
<1> QED BY <1>5, <1>6, <1>10, <1>11 DEF IInv, TypeOK

-----------------------------------------------------------------------------
LEMMA InitIInv ==
  ASSUME Init
  PROVE  IInv
<1>1. LinkType
  <2>1. down \in Seq(Requests) /\ up \in Seq(Frames)
    BY DEF Init, LinkInit
  <2>2. 0 \in 0..MaxDrops /\ 0 \in 0..MaxIssues
    BY LinkAssumption DEF LinkAssumption
  <2> QED BY <2>1, <2>2 DEF Init, LinkInit, LinkType
<1>2. GatewayType
  <2>1. 0 \in 0..MaxIssues
    BY LinkAssumption DEF LinkAssumption
  <2>2. job \in [Ops -> Jobs]
    BY DEF Init, GatewayInit, Jobs
  <2>3. waits \in [Ops -> {"none", "waiting", "failed"}]
    BY DEF Init, GatewayInit
  <2> QED BY <2>1, <2>2, <2>3 DEF Init, GatewayInit, GatewayType
<1>3. AgentType
  BY LinkAssumption, ScopeAssumption
     DEF Init, AgentInit, AgentType, Records, LinkAssumption, ScopeAssumption
<1>4. ExecInv /\ LateInv /\ ScopeInv /\ ReceiptsTrue
  BY DEF Init, GatewayInit, AgentInit, ExecInv, LateInv, ScopeInv, ReceiptsTrue, NoJob, NoRecord
<1>5. FramesTrue
  BY DEF Init, LinkInit, FramesTrue
<1> QED BY <1>1, <1>2, <1>3, <1>4, <1>5 DEF IInv, TypeOK

LEMMA NextIInv ==
  ASSUME IInv, [Next]_vars
  PROVE  IInv'
<1>1. CASE GatewayNext /\ UNCHANGED agentVars
  BY <1>1, GatewayStep
<1>2. CASE AgentNext /\ UNCHANGED gatewayVars
  BY <1>2, AgentStep
<1>3. CASE Attach
  BY <1>3, AttachStep
<1>4. CASE UNCHANGED vars
  BY <1>4 DEF vars, linkVars, gatewayVars, agentVars, IInv, TypeOK, LinkType,
              serverVars, GatewayType, AgentType, ExecInv, LateInv, ScopeInv, FramesTrue, FrameTrue, ReceiptsTrue
<1> QED BY <1>1, <1>2, <1>3, <1>4 DEF Next

LEMMA Invariance == Spec => []IInv
<1>1. Init => IInv BY InitIInv
<1>2. IInv /\ [Next]_vars => IInv' BY NextIInv
<1> QED BY <1>1, <1>2, PTL DEF Spec

(* Types of the gateway, the agent and the connection between them.          *)
THEOREM RemoteTypes == Spec => []TypeOK
<1>1. IInv => TypeOK BY DEF IInv
<1> QED BY <1>1, Invariance, PTL

(* A receipt that claims something is about the request the agent has.       *)
THEOREM RemoteReceipts == Spec => []ReceiptOfThisRequest
<1>1. IInv => ReceiptOfThisRequest
  BY DEF IInv, ReceiptsTrue, ReceiptOfThisRequest
<1> QED BY <1>1, Invariance, PTL

(* What is pending, denied or expired on the Mac was never performed.        *)
THEOREM RemoteNoLatePerformance == Spec => []NoLatePerformance
<1>1. IInv => NoLatePerformance
  BY DEF IInv, ExecInv, NoLatePerformance, TypeOK, AgentType
<1> QED BY <1>1, Invariance, PTL

(* What a server performs was sent to it in the configuration it was put to, *)
(* also when its agent no longer waits for it, or is dead.                   *)
THEOREM RemoteScopeBound == Spec => ScopeBound
<1>1. ASSUME IInv, [Next]_vars
      PROVE  [\A o \in Ops : effects'[o] # effects[o] => ServerScope(o) = acceptedIn[o]]_vars
  <2>1. CASE GatewayNext /\ UNCHANGED agentVars
    BY <2>1 DEF agentVars
  <2>2. CASE Attach
    BY <2>2 DEF Attach, agentVars
  <2>3. CASE AgentNext
    <3>1. CASE \E o \in Ops : PerformRequest(o)
      <4>1. PICK p \in Ops : PerformRequest(p) BY <3>1
      <4>2. effects' = [effects EXCEPT ![p] = @ + 1] /\ acceptedIn[p] = scope
        BY <1>1, <4>1 DEF PerformRequest, IInv, ExecInv
      <4>3. effects \in [Ops -> 0..1] BY <1>1 DEF IInv, TypeOK, AgentType
      <4>4. orphan[p] = NoScope
        BY <1>1, <4>1 DEF PerformRequest, IInv, LateInv, Unawaited
      <4> QED BY <4>2, <4>3, <4>4 DEF ServerScope
    <3>3. CASE \E o \in Ops : PerformLate(o)
      <4>1. PICK p \in Ops : PerformLate(p) BY <3>3
      <4>2. effects' = [effects EXCEPT ![p] = @ + 1] /\ ServerScope(p) = acceptedIn[p]
        BY <1>1, <4>1 DEF PerformLate, IInv, LateInv, ServerScope
      <4>3. effects \in [Ops -> 0..1] BY <1>1 DEF IInv, TypeOK, AgentType
      <4> QED BY <4>2, <4>3
    <3>2. CASE ~ \E o \in Ops : PerformRequest(o) \/ PerformLate(o)
      <4>1. UNCHANGED effects
        BY <2>3, <3>2
           DEF AgentNext, Start, DenyOnStart, Approve, Deny, Execute, Break, Persist,
               PersistFails, Publish, HandleRequest, List, Close, Unlock, Crash,
               AgentLoses, AgentTick, agentVars
      <4> QED BY <4>1
    <3> QED BY <3>1, <3>2, <3>3
  <2> QED BY <1>1, <2>1, <2>2, <2>3 DEF Next
<1> QED BY <1>1, Invariance, PTL DEF Spec, ScopeBound

-----------------------------------------------------------------------------
(* The refinement: what the steps of the agent mean for the decision.        *)
Decision(o) ==
  \/ /\ \/ Stage(o)' = Stage(o)
        \/ <<Stage(o), Stage(o)'>> \in Promise!Decisions
     /\ effects'[o] = effects[o]
  \/ /\ <<Stage(o), Stage(o)'>> \in {<<"approved", "performed">>, <<"uncertain", "uncertain">>}
     /\ effects[o] = 0 /\ effects'[o] = 1

LEMMA StageOf ==
  ASSUME NEW o \in Ops, TypeOK
  PROVE  /\ store[o].status = "none" => Stage(o) = "new"
         /\ store[o].status = "pending" => Stage(o) = "waiting"
         /\ store[o].status = "running" /\ effects[o] = 0 => Stage(o) = "approved"
         /\ store[o].status = "running" /\ effects[o] # 0 => Stage(o) = "performed"
         /\ store[o].status = "completed" => Stage(o) = "completed"
         /\ store[o].status = "denied" => Stage(o) = "denied"
         /\ store[o].status = "expired" => Stage(o) = "expired"
         /\ store[o].status \in {"failed", "indeterminate"} => Stage(o) = "uncertain"
BY DEF Stage

LEMMA StageOfNext ==
  ASSUME NEW o \in Ops, TypeOK'
  PROVE  /\ store'[o].status = "none" => Stage(o)' = "new"
         /\ store'[o].status = "pending" => Stage(o)' = "waiting"
         /\ store'[o].status = "running" /\ effects'[o] = 0 => Stage(o)' = "approved"
         /\ store'[o].status = "running" /\ effects'[o] # 0 => Stage(o)' = "performed"
         /\ store'[o].status = "completed" => Stage(o)' = "completed"
         /\ store'[o].status = "denied" => Stage(o)' = "denied"
         /\ store'[o].status = "expired" => Stage(o)' = "expired"
         /\ store'[o].status \in {"failed", "indeterminate"} => Stage(o)' = "uncertain"
BY DEF Stage

(* The steps of a record that the agent takes without performing anything.   *)
Moves ==
  {<<"none", "pending">>, <<"pending", "running">>, <<"pending", "denied">>,
   <<"pending", "expired">>, <<"running", "failed">>, <<"running", "indeterminate">>}

LEMMA MoveIsDecision ==
  ASSUME IInv, IInv', NEW o \in Ops, effects'[o] = effects[o],
         \/ store'[o].status = store[o].status
         \/ <<store[o].status, store'[o].status>> \in Moves
         \/ store[o].status = "running" /\ store'[o].status = "completed" /\ effects[o] = 1
  PROVE  Decision(o)
<1>1. TypeOK /\ TypeOK' BY DEF IInv
<1>2. store[o].status = "pending" => effects[o] = 0
  BY DEF IInv, ExecInv, TypeOK, AgentType
<1>3. effects[o] \in 0..1 BY <1>1 DEF TypeOK, AgentType
<1>4. CASE store'[o].status = store[o].status
  <2>1. Stage(o)' = Stage(o) BY <1>4 DEF Stage
  <2> QED BY <2>1 DEF Decision
<1>5. CASE <<store[o].status, store'[o].status>> \in Moves
  BY <1>1, <1>2, <1>3, <1>5, StageOf, StageOfNext DEF Moves, Decision, Promise!Decisions
<1>6. CASE store[o].status = "running" /\ store'[o].status = "completed" /\ effects[o] = 1
  BY <1>1, <1>6, StageOf, StageOfNext DEF Decision, Promise!Decisions
<1> QED BY <1>4, <1>5, <1>6

LEMMA AgentDecides ==
  ASSUME IInv, IInv', AgentNext, NEW o \in Ops
  PROVE  Decision(o)
<1>1. TypeOK /\ TypeOK' BY DEF IInv
<1>2. store \in [Ops -> Records] /\ effects \in [Ops -> 0..1]
  BY <1>1 DEF TypeOK, AgentType
<1>3. \A p \in Ops : \/ Swept[p].status = store[p].status
                     \/ store[p].status = "pending" /\ Swept[p].status = "expired"
  BY <1>2, SweepTypes, <1>1 DEF Swept, Overdue, Pending, Expired
<1>4. CASE \E s \in Scopes : Start(s)
  BY <1>2, <1>4, MoveIsDecision DEF Start, Recovered, Moves
<1>5. CASE \E p \in Ops : DenyOnStart(p)
  BY <1>2, <1>5, MoveIsDecision DEF DenyOnStart, Pending, Moves
<1>6. CASE \E p \in Ops : Approve(p) \/ Deny(p)
  <2>1. effects' = effects BY <1>6 DEF Approve, Deny
  <2>2. PICK p \in Ops, t \in {"expired", "denied", "running"} :
          /\ store[p].status = "pending"
          /\ store' = [store EXCEPT ![p].status = t]
    BY <1>6 DEF Approve, Deny, CanApprove, Pending
  <2> QED BY <1>2, <2>1, <2>2, MoveIsDecision DEF Moves
<1>7. CASE \E p \in Ops : PerformRequest(p)
  <2>1. PICK p \in Ops : PerformRequest(p) BY <1>7
  <2>2. CASE p = o
    <3>1. /\ store[o].status = "running" /\ effects[o] = 0
          /\ store'[o] = store[o] /\ effects'[o] = 1
      BY <1>2, <2>1, <2>2 DEF PerformRequest, IInv, ExecInv
    <3> QED BY <1>1, <3>1, StageOf, StageOfNext DEF Decision
  <2>3. CASE p # o
    BY <1>2, <2>1, <2>3, MoveIsDecision DEF PerformRequest
  <2> QED BY <2>2, <2>3
<1>12. CASE \E p \in Ops : PerformLate(p)
  <2>1. PICK p \in Ops : PerformLate(p) BY <1>12
  <2>2. CASE p = o
    <3>1. /\ store[o].status \in Unsettled /\ effects[o] = 0
          /\ store'[o] = store[o] /\ effects'[o] = 1
      BY <1>2, <2>1, <2>2 DEF PerformLate, IInv, LateInv
    <3> QED BY <1>1, <3>1, StageOf, StageOfNext DEF Decision, Unsettled
  <2>3. CASE p # o
    BY <1>2, <2>1, <2>3, MoveIsDecision DEF PerformLate
  <2> QED BY <2>2, <2>3
<1>8. CASE \E p \in Ops : Persist(p)
  <2>1. PICK p \in Ops : Persist(p) BY <1>8
  <2>2. effects' = effects BY <2>1 DEF Persist
  <2>3. CASE store' = store BY <2>2, <2>3, MoveIsDecision
  <2>4. CASE StillRuns(p) /\ store' = [store EXCEPT ![p].status = Outcome(p)]
    <3>1. exec[p] = "done" => effects[p] = 1 BY DEF IInv, ExecInv
    <3> QED BY <1>2, <2>2, <2>4, <3>1, MoveIsDecision DEF StillRuns, Outcome, Moves
  <2> QED BY <2>1, <2>3, <2>4 DEF Persist
<1>9. CASE HandleRequest
  <2>1. effects' = effects BY <1>9 DEF HandleRequest
  <2>2. down \in Seq(Requests) /\ down # << >>
    BY <1>1, <1>9 DEF TypeOK, LinkType, HandleRequest
  <2>3. Head(down).op \in Ops
    <3>1. Head(down) \in Requests BY <2>2
    <3> QED BY <3>1 DEF Requests
  <2>4. \/ store' = store
        \/ store' = Swept
        \/ /\ store[Head(down).op] = NoRecord
           /\ store' = [Swept EXCEPT ![Head(down).op] = Accepted(Head(down))]
    BY <1>9 DEF HandleRequest, Submit
  <2>5. CASE store' = store \/ store' = Swept
    BY <1>3, <2>1, <2>5, MoveIsDecision DEF Moves
  <2>6. CASE /\ store[Head(down).op] = NoRecord
             /\ store' = [Swept EXCEPT ![Head(down).op] = Accepted(Head(down))]
    <3>1. CASE o = Head(down).op
      <4>1. store[o].status = "none" /\ store'[o].status = "pending"
        BY <2>3, <2>6, <3>1 DEF Swept, NoRecord, Accepted
      <4> QED BY <2>1, <4>1, MoveIsDecision DEF Moves
    <3>2. CASE o # Head(down).op
      <4>1. store'[o] = Swept[o] BY <2>3, <2>6, <3>2 DEF Swept
      <4> QED BY <1>3, <2>1, <4>1, MoveIsDecision DEF Moves
    <3> QED BY <3>1, <3>2
  <2> QED BY <2>4, <2>5, <2>6
<1>10. CASE List
  BY <1>3, <1>10, MoveIsDecision DEF List, Moves
<1>11. CASE \/ Publish \/ Close \/ Unlock \/ Crash \/ AgentLoses \/ AgentTick
            \/ \E p \in Ops : Execute(p) \/ Break(p) \/ PersistFails(p)
  <2>1. UNCHANGED <<store, effects>>
    BY <1>11 DEF Publish, Close, Unlock, Crash, AgentLoses, AgentTick, Execute,
                 Break, PersistFails, agentVars
  <2> QED BY <2>1, MoveIsDecision
<1> QED BY <1>4, <1>5, <1>6, <1>7, <1>8, <1>9, <1>10, <1>11, <1>12 DEF AgentNext

(* The receipt follows the store: a step of the gateway leaves the store     *)
(* alone, and a step of the agent the receipts.                              *)
LEMMA ReceiptFollows ==
  ASSUME IInv, IInv', NEW o \in Ops, UNCHANGED job \/ UNCHANGED store
  PROVE  \/ ReceiptOf(o)' = ReceiptOf(o)
         \/ ReceiptOf(o)' = "open"
         \/ ReceiptOf(o)' = Stage(o) /\ Stage(o) \in {"completed", "denied"}
<1>1. CASE UNCHANGED job
  <2>1. ReceiptOf(o)' = ReceiptOf(o) BY <1>1 DEF ReceiptOf
  <2> QED BY <2>1
<1>2. CASE UNCHANGED store /\ job'[o].status \in {"completed", "denied"}
  <2>1. store[o].status = job'[o].status
    BY <1>2 DEF IInv, ReceiptsTrue
  <2>2. ReceiptOf(o)' = job'[o].status BY <1>2 DEF ReceiptOf
  <2>3. TypeOK BY DEF IInv
  <2> QED BY <1>2, <2>1, <2>2, <2>3, StageOf
<1>3. CASE job'[o].status \notin {"completed", "denied"}
  <2>1. ReceiptOf(o)' = "open" BY <1>3 DEF ReceiptOf
  <2> QED BY <2>1
<1> QED BY <1>1, <1>2, <1>3

(* The gateway and the agent keep the promise of the remote tools.           *)
THEOREM RemoteKeepsPromise == Spec => KeepsPromise
<1>1. Init => Promise!AbstractInit
  BY DEF Init, GatewayInit, AgentInit, Promise!AbstractInit, Stage, ReceiptOf,
         NoRecord, NoJob
<1>2. ASSUME IInv, IInv', [Next]_vars
      PROVE  [Promise!AbstractNext]_Promise!abstractVars
  <2>1. CASE UNCHANGED vars
    BY <2>1 DEF vars, gatewayVars, agentVars, Promise!abstractVars, Stage, ReceiptOf
  <2>2. CASE Next
    <3>1. ASSUME NEW o \in Ops
          PROVE  Decision(o)
      <4>1. CASE AgentNext BY <1>2, <4>1, AgentDecides
      <4>2. CASE UNCHANGED agentVars
        <5>1. UNCHANGED <<store, effects>> BY <4>2 DEF agentVars
        <5> QED BY <1>2, <5>1, MoveIsDecision
      <4> QED BY <2>2, <4>1, <4>2 DEF Next, Attach
    <3>2. UNCHANGED job \/ UNCHANGED store
      BY <2>2 DEF Next, Attach, gatewayVars, agentVars
    <3>3. ASSUME NEW o \in Ops
          PROVE  /\ Promise!Decide(o) \/ Promise!Perform(o) \/ Promise!Rest(o)
                 /\ Promise!Report(o)
      <4>1. Decision(o) BY <3>1
      <4>2. \/ ReceiptOf(o)' = ReceiptOf(o)
            \/ ReceiptOf(o)' = "open"
            \/ ReceiptOf(o)' = Stage(o) /\ Stage(o) \in {"completed", "denied"}
        BY <1>2, <3>2, ReceiptFollows
      <4>3. Promise!Report(o)
        BY <4>2 DEF Promise!Report
      <4>4. Promise!Decide(o) \/ Promise!Perform(o) \/ Promise!Rest(o)
        BY <4>1 DEF Decision, Promise!Decide, Promise!Perform, Promise!Rest
      <4> QED BY <4>3, <4>4
    <3> QED BY <3>3 DEF Promise!AbstractNext
  <2> QED BY <1>2, <2>1, <2>2
<1> QED BY <1>1, <1>2, Invariance, PTL DEF Spec, KeepsPromise, Promise!AbstractSpec
=============================================================================
