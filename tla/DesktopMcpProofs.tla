-------------------------- MODULE DesktopMcpProofs --------------------------
(* Proofs about DesktopMcp, for any clients, commands, texts and bounds.     *)
EXTENDS DesktopMcp, TLAPS

(* A mutation that has the lock was admitted by the configuration of now,     *)
(* which waits for the lock, and has seen every earlier mutation.             *)
Mutation(c) ==
  /\ call[c].at \in Locked => writeLock = c
  /\ call[c].at \in Locked => MayWrite
  /\ call[c].at \in {"checked", "written", "rechecked"} => call[c].base = commits
  /\ call[c].at \in {"waiting"} \cup Locked =>
       call[c].tool \notin ReadOnly /\ call[c].answer = "none"

MutationsInv == \A c \in Clients : Mutation(c)

(* One restart is under way at most, it stopped the endpoint before it reads  *)
(* the configuration, and a change that switches the endpoint off is still    *)
(* going to be applied while anything of the endpoint is there.               *)
Pending == \E s \in Setters : setter[s] \in {"saved", "aborting"}

Something == endpoint.running \/ endpoint.token \/ \E s \in Setters : setter[s] = "binding"

RestartsInv ==
  /\ \A s \in Setters : setter[s] \in {"aborting", "binding"} => server = s
  /\ \A s \in Setters : setter[s] = "aborting" => ~endpoint.running
  /\ Something /\ ~config.enabled => Pending

IInv == DesktopType /\ MutationsInv /\ RestartsInv

Committing(c) ==
  Commit(c) =>
    /\ config.enabled /\ config.published /\ config.writable
    /\ call[c].base = commits
    /\ call[c].answer = "none"

Closing(c) == call[c].at = "published" /\ call'[c].at = "idle" => call'[c].answer # "error"

-----------------------------------------------------------------------------
LEMMA InitInv == DesktopInit => IInv
<1> SUFFICES ASSUME DesktopInit PROVE IInv
  OBVIOUS
<1>1. DesktopType
  <2>1. NoCall \in Calls
    BY DEF NoCall, Calls, Tools
  <2>2. /\ config \in [enabled : BOOLEAN, published : BOOLEAN, writable : BOOLEAN]
        /\ config.writable => config.published
    BY DEF DesktopInit, Configs
  <2>3. file \in [text : Texts \cup {Absent}, links : 0..2]
    BY DEF DesktopInit
  <2>4. setter \in [Setters -> {"idle", "saved", "aborting", "binding"}]
    BY DEF DesktopInit
  <2> QED BY <2>1, <2>2, <2>3, <2>4, BoundAssumption DEF DesktopInit, DesktopType
<1>2. MutationsInv
  <2>1. call = [c \in Clients |-> NoCall]
    BY Zenon DEF DesktopInit
  <2>2. NoCall.at = "idle"
    BY DEF NoCall
  <2>3. ASSUME NEW c \in Clients PROVE Mutation(c)
    <3>1. call[c].at = "idle"
      BY <2>1, <2>2
    <3> QED BY <3>1 DEF Mutation, Locked
  <2> QED BY <2>3 DEF MutationsInv
<1>3. RestartsInv
  BY DEF DesktopInit, RestartsInv, Something
<1> QED BY <1>1, <1>2, <1>3 DEF IInv

LEMMA InitialCall ==
  ASSUME NEW expected \in Texts \cup {Absent},
         NEW answer \in {"none", "ok", "error"}
  PROVE  /\ [NoCall EXCEPT !.expected = expected] \in Calls
         /\ [NoCall EXCEPT !.expected = expected, !.answer = answer] \in Calls
BY DEF NoCall, Calls, Tools

LEMMA MovedCall ==
  ASSUME call \in [Clients -> Calls], NEW c \in Clients, NEW at \in Locked
  PROVE  [call[c] EXCEPT !.at = at] \in Calls
<1>1. call[c] \in Calls
  OBVIOUS
<1> QED BY <1>1 DEF Calls

LEMMA AnswerType ==
  ASSUME call \in [Clients -> Calls], NEW c \in Clients, NEW a \in {"ok", "error"}, Answer(c, a)
  PROVE  call' \in [Clients -> Calls]
<1>1. call[c].expected \in Texts \cup {Absent} /\ call[c].answer \in {"none", "ok", "error"}
  BY DEF Calls
<1> DEFINE answer == IF call[c].answer = "none" THEN a ELSE call[c].answer
<1>2. answer \in {"none", "ok", "error"}
  BY <1>1
<1>3. [NoCall EXCEPT !.expected = call[c].expected, !.answer = answer] \in Calls
  BY <1>1, <1>2, InitialCall DEF Tools
<1> QED BY <1>3 DEF Answer

LEMMA AnswerFields ==
  ASSUME call \in [Clients -> Calls], NEW c \in Clients, NEW a \in {"ok", "error"}, Answer(c, a)
  PROVE  /\ call'[c].at = "idle"
         /\ call[c].answer = "none" => call'[c].answer = a
         /\ \A d \in Clients \ {c} : call'[d] = call[d]
<1> DEFINE answer == IF call[c].answer = "none" THEN a ELSE call[c].answer
           next == [NoCall EXCEPT !.expected = call[c].expected, !.answer = answer]
<1>1. call' = [call EXCEPT ![c] = next]
  BY DEF Answer
<1>2. next.at = "idle" /\ next.answer = answer
  BY DEF NoCall
<1> HIDE DEF next
<1>3. call'[c] = next /\ \A d \in Clients \ {c} : call'[d] = call[d]
  BY <1>1
<1> QED BY <1>2, <1>3

(* A timeout leaves a mutation alone. *)
LEMMA TimeoutFields ==
  ASSUME call \in [Clients -> Calls], NEW c \in Clients, TimesOut(c)
  PROVE  /\ call[c].tool \in ReadOnly
         /\ call'[c].at = call[c].at /\ call'[c].tool = call[c].tool
         /\ \A d \in Clients \ {c} : call'[d] = call[d]
<1>1. call'[c] = [call[c] EXCEPT !.answer = "error"]
  BY DEF TimesOut
<1>2. call[c] \in Calls
  OBVIOUS
<1>3. call'[c].at = call[c].at /\ call'[c].tool = call[c].tool
  BY <1>1, <1>2 DEF Calls
<1>4. call[c].tool \in ReadOnly /\ \A d \in Clients \ {c} : call'[d] = call[d]
  BY DEF TimesOut, Timed
<1> QED BY <1>3, <1>4

LEMMA TypeStep == ASSUME IInv, [DesktopNext]_desktopVars PROVE DesktopType'
<1> USE FreeAssumption, BoundAssumption
<1> USE DEF IInv, DesktopType, configVars, fileVars, callVars
<1>1. ASSUME NEW s \in Setters, SaveSettings(s) PROVE DesktopType'
  BY <1>1 DEF SaveSettings, Configs
<1>2. ASSUME NEW s \in Setters, RestartAborts(s) PROVE DesktopType'
  BY <1>2 DEF RestartAborts
<1>3. ASSUME NEW s \in Setters, RestartReads(s) PROVE DesktopType'
  BY <1>3 DEF RestartReads
<1>4. ASSUME NEW s \in Setters, RestartBinds(s) PROVE DesktopType'
  BY <1>4 DEF RestartBinds
<1>5. ASSUME NEW s \in Setters, DesktopRestarts(s) PROVE DesktopType'
  <2>1. ASSUME NEW c \in Clients PROVE [NoCall EXCEPT !.expected = call[c].expected] \in Calls
    <3>1. call[c] \in Calls
      OBVIOUS
    <3>2. call[c].expected \in Texts \cup {Absent}
      BY <3>1 DEF Calls
    <3> QED BY <3>2, InitialCall
  <2>2. call' \in [Clients -> Calls]
    BY <1>5, <2>1 DEF DesktopRestarts
  <2> QED BY <1>5, <2>2 DEF DesktopRestarts
<1>6. ASSUME NEW c \in Clients, ToolsCall(c) \/ A2aSend(c) PROVE DesktopType'
  <2>1. PICK tool \in Tools, t \in Texts :
          /\ tool \notin ReadOnly => begun < MaxCalls
          /\ begun' = IF tool \in ReadOnly THEN begun ELSE begun + 1
          /\ call' = [call EXCEPT ![c] = NewCall(c, tool, t)]
    BY <1>6 DEF ToolsCall, A2aSend, Begin, Tools, ReadOnly
  <2>2. call[c].expected \in Texts \cup {Absent}
    BY DEF Calls
  <2>3. NewCall(c, tool, t) \in Calls
    BY <2>2 DEF NewCall, Calls
  <2>4. call' \in [Clients -> Calls]
    BY <2>1, <2>3
  <2>5. begun' \in 0..MaxCalls
    BY <2>1
  <2>6. UNCHANGED <<configVars, fileVars, disk, writeLock, commits, crashes>>
    BY <1>6 DEF ToolsCall, A2aSend, Begin
  <2> QED BY <2>4, <2>5, <2>6
<1>7. ASSUME NEW c \in Clients, FileRead(c) PROVE DesktopType'
  <2>1. CASE Answer(c, "error")
    BY <1>7, <2>1, AnswerType DEF FileRead
  <2>2. CASE call' = [call EXCEPT ![c] = [NoCall EXCEPT !.expected = file.text, !.answer = "ok"]]
    <3>1. call' \in [Clients -> Calls]
      BY <2>2, InitialCall DEF Tools
    <3> QED BY <1>7, <3>1 DEF FileRead
  <2> QED BY <1>7, <2>1, <2>2 DEF FileRead
<1>8. ASSUME NEW c \in Clients, TimesOut(c) PROVE DesktopType'
  <2>1. [call[c] EXCEPT !.answer = "error"] \in Calls
    BY DEF Calls
  <2>2. call' \in [Clients -> Calls]
    BY <1>8, <2>1 DEF TimesOut
  <2> QED BY <1>8, <2>2 DEF TimesOut
<1>9. ASSUME NEW c \in Clients, TakeWriteLock(c) PROVE DesktopType'
  <2>1. CASE Answer(c, "error")
    BY <1>9, <2>1, AnswerType DEF TakeWriteLock
  <2>2. CASE call' = [call EXCEPT ![c].at = "checked", ![c].base = commits]
    <3>1. call[c] \in Calls
      OBVIOUS
    <3>2. [call[c] EXCEPT !.at = "checked", !.base = commits] \in Calls
      BY <3>1 DEF Calls, Locked
    <3>3. call' \in [Clients -> Calls]
      BY <2>2, <3>2
    <3> QED BY <1>9, <3>3 DEF TakeWriteLock
  <2> QED BY <1>9, <2>1, <2>2 DEF TakeWriteLock
<1>10. ASSUME NEW c \in Clients, WriteTemp(c) PROVE DesktopType'
  <2>1. \A at \in Locked : [call[c] EXCEPT !.at = at] \in Calls
    BY MovedCall
  <2>2. call[c].text \in Texts \cup {Absent}
    BY DEF Calls
  <2> QED BY <1>10, <2>1, <2>2 DEF WriteTemp, Locked
<1>11. ASSUME NEW c \in Clients, Recheck(c) PROVE DesktopType'
  <2>1. \A at \in Locked : [call[c] EXCEPT !.at = at] \in Calls
    BY MovedCall
  <2> QED BY <1>11, <2>1 DEF Recheck, Locked
<1>12. ASSUME NEW c \in Clients, Rename(c) PROVE DesktopType'
  <2>1. \A at \in Locked : [call[c] EXCEPT !.at = at] \in Calls
    BY MovedCall
  <2> QED BY <1>12, <2>1 DEF Rename, Locked
<1>13. ASSUME NEW c \in Clients, HardLink(c) PROVE DesktopType'
  <2>1. \A at \in Locked : [call[c] EXCEPT !.at = at] \in Calls
    BY MovedCall
  <2> QED BY <1>13, <2>1 DEF HardLink, Locked
<1>14. ASSUME NEW c \in Clients, RemoveTemp(c) PROVE DesktopType'
  <2>1. call' \in [Clients -> Calls]
    BY <1>14, AnswerType DEF RemoveTemp
  <2>2. file' \in [text : Texts \cup {Absent}, links : 0..2]
    BY <1>14 DEF RemoveTemp
  <2> QED BY <1>14, <2>1, <2>2 DEF RemoveTemp
<1>15. ASSUME Outside PROVE DesktopType'
  BY <1>15 DEF Outside, WriteFile
<1>16. CASE UNCHANGED desktopVars
  BY <1>16 DEF desktopVars
<1> QED
  BY <1>1, <1>2, <1>3, <1>4, <1>5, <1>6, <1>7, <1>8, <1>9, <1>10, <1>11, <1>12, <1>13,
     <1>14, <1>15, <1>16 DEF DesktopNext

LEMMA MutationsStep == ASSUME IInv, [DesktopNext]_desktopVars PROVE MutationsInv'
<1> USE FreeAssumption
<1> USE DEF IInv, MutationsInv, Mutation, configVars, fileVars, callVars, MayWrite
<1>0. /\ writeLock \in Clients \cup {NoOne}
      /\ \A c \in Clients : DOMAIN call = Clients
  BY DEF DesktopType
<1>1. ASSUME NEW s \in Setters, SaveSettings(s) PROVE MutationsInv'
  <2>1. \A c \in Clients : call[c].at \notin Locked
    BY <1>1 DEF SaveSettings, WriteLockFree
  <2> QED BY <1>1, <2>1 DEF SaveSettings
<1>2. ASSUME NEW s \in Setters, RestartAborts(s) \/ RestartReads(s) \/ RestartBinds(s)
      PROVE MutationsInv'
  <2>1. UNCHANGED <<config, call, writeLock, commits>>
    <3>1. CASE RestartAborts(s) BY <3>1 DEF RestartAborts
    <3>2. CASE RestartReads(s) BY <3>2 DEF RestartReads
    <3>3. CASE RestartBinds(s) BY <3>3 DEF RestartBinds
    <3> QED BY <1>2, <3>1, <3>2, <3>3
  <2> QED BY <2>1
<1>3. ASSUME NEW s \in Setters, DesktopRestarts(s) PROVE MutationsInv'
  BY <1>3 DEF DesktopRestarts, NoCall, Locked
<1>4. ASSUME NEW c \in Clients, ToolsCall(c) \/ A2aSend(c) PROVE MutationsInv'
  <2>1. PICK tool \in Tools, t \in Texts : call' = [call EXCEPT ![c] = NewCall(c, tool, t)]
    BY <1>4 DEF ToolsCall, A2aSend, Begin, Tools, ReadOnly
  <2>2. UNCHANGED <<config, writeLock, commits>>
    BY <1>4 DEF ToolsCall, A2aSend, Begin
  <2>3. \A d \in Clients \ {c} : call'[d] = call[d]
    BY <2>1
  <2>4. call'[c] = NewCall(c, tool, t)
    BY <2>1 DEF DesktopType
  <2>5. Mutation(c)'
    BY <2>4 DEF NewCall, Locked
  <2> QED BY <2>2, <2>3, <2>5
<1>5. ASSUME NEW c \in Clients, FileRead(c) PROVE MutationsInv'
  <2>1. call'[c].at = "idle"
    <3>1. CASE Answer(c, "error")
      BY <3>1, AnswerFields DEF DesktopType
    <3>2. CASE call' = [call EXCEPT ![c] = [NoCall EXCEPT !.expected = file.text, !.answer = "ok"]]
      <4>1. call'[c] = [NoCall EXCEPT !.expected = file.text, !.answer = "ok"]
        BY <3>2, <1>0
      <4> QED BY <4>1 DEF NoCall
    <3> QED BY <1>5, <3>1, <3>2 DEF FileRead
  <2>2. \A d \in Clients \ {c} : call'[d] = call[d]
    <3>1. CASE Answer(c, "error")
      BY <3>1, AnswerFields DEF DesktopType
    <3>2. CASE call' = [call EXCEPT ![c] = [NoCall EXCEPT !.expected = file.text, !.answer = "ok"]]
      <4> DEFINE next == [NoCall EXCEPT !.expected = file.text, !.answer = "ok"]
      <4> HIDE DEF next
      <4>1. call' = [call EXCEPT ![c] = next]
        BY <3>2 DEF next
      <4> QED BY <4>1
    <3> QED BY <1>5, <3>1, <3>2 DEF FileRead
  <2>3. UNCHANGED <<config, writeLock, commits>>
    BY <1>5 DEF FileRead
  <2> QED BY <2>1, <2>2, <2>3 DEF Locked
<1>6. ASSUME NEW c \in Clients, TimesOut(c) PROVE MutationsInv'
  <2>1. /\ call[c].tool \in ReadOnly /\ call'[c].at = call[c].at
        /\ \A d \in Clients \ {c} : call'[d] = call[d]
    BY <1>6, TimeoutFields DEF DesktopType
  <2>2. call'[c].at \notin {"waiting"} \cup Locked
    BY <2>1
  <2>3. UNCHANGED <<config, writeLock, commits>>
    BY <1>6 DEF TimesOut
  <2> QED BY <2>1, <2>2, <2>3 DEF Locked
<1>7. ASSUME NEW c \in Clients, TakeWriteLock(c) PROVE MutationsInv'
  <2>1. /\ UNCHANGED <<config, commits>>
        /\ \A d \in Clients \ {c} : call'[d] = call[d]
        /\ writeLock = NoOne
    <3>1. CASE Answer(c, "error")
      BY <1>7, <3>1, AnswerFields DEF TakeWriteLock, WriteLockFree, DesktopType
    <3>2. CASE call' = [call EXCEPT ![c].at = "checked", ![c].base = commits]
      <4>1. UNCHANGED <<config, commits>> /\ writeLock = NoOne
        BY <1>7 DEF TakeWriteLock, WriteLockFree
      <4> DEFINE next == [call[c] EXCEPT !.at = "checked", !.base = commits]
      <4>2. call' = [call EXCEPT ![c] = next]
        BY <1>0, <3>2
      <4> HIDE DEF next
      <4>3. \A d \in Clients \ {c} : call'[d] = call[d]
        BY <4>2
      <4> QED BY <4>1, <4>3
    <3> QED BY <1>7, <3>1, <3>2 DEF TakeWriteLock
  <2>2. \A d \in Clients : call[d].at \notin Locked
    BY <2>1
  <2>3. CASE Answer(c, "error")
    <3>1. call'[c].at = "idle"
      BY <2>3, AnswerFields DEF DesktopType
    <3> QED BY <2>1, <2>2, <3>1 DEF Locked
  <2>4. CASE MayWrite /\ call' = [call EXCEPT ![c].at = "checked", ![c].base = commits] /\ writeLock' = c
    <3>1. call'[c] = [call[c] EXCEPT !.at = "checked", !.base = commits]
      BY <2>4 DEF DesktopType
    <3>2. /\ call'[c].at = "checked" /\ call'[c].base = commits
          /\ call'[c].tool = call[c].tool /\ call'[c].answer = call[c].answer
      <4>1. call[c] \in Calls BY DEF DesktopType
      <4> QED BY <3>1, <4>1 DEF Calls
    <3>3. call[c].tool \notin ReadOnly /\ call[c].answer = "none"
      BY <1>7 DEF TakeWriteLock
    <3>4. Mutation(c)'
      BY <2>1, <2>4, <3>2, <3>3
    <3>5. ASSUME NEW d \in Clients \ {c} PROVE Mutation(d)'
      <4>1. call'[d] = call[d] /\ call[d].at \notin Locked
        BY <2>1, <2>2
      <4> QED BY <4>1 DEF Locked
    <3> QED BY <3>4, <3>5
  <2> QED BY <1>7, <2>3, <2>4 DEF TakeWriteLock
<1>8. ASSUME NEW c \in Clients, WriteTemp(c) PROVE MutationsInv'
  BY <1>8 DEF WriteTemp, Locked, DesktopType, Calls
<1>9. ASSUME NEW c \in Clients, Recheck(c) PROVE MutationsInv'
  BY <1>9 DEF Recheck, Locked, DesktopType, Calls
<1>10. ASSUME NEW c \in Clients, Rename(c) \/ HardLink(c) PROVE MutationsInv'
  <2>1. \A d \in Clients \ {c} : call[d].at \notin Locked
    BY <1>10 DEF Rename, HardLink, Locked
  <2> QED BY <1>10, <2>1 DEF Rename, HardLink, Locked, DesktopType, Calls
<1>11. ASSUME NEW c \in Clients, RemoveTemp(c) PROVE MutationsInv'
  <2>1. \A d \in Clients \ {c} : call[d].at \notin Locked
    BY <1>11 DEF RemoveTemp, Locked
  <2> QED BY <1>11, <2>1 DEF RemoveTemp, Answer, NoCall, Locked, DesktopType, Calls
<1>12. ASSUME Outside PROVE MutationsInv'
  BY <1>12 DEF Outside, WriteFile
<1>13. CASE UNCHANGED desktopVars
  BY <1>13 DEF desktopVars
<1> QED
  BY <1>1, <1>2, <1>3, <1>4, <1>5, <1>6, <1>7, <1>8, <1>9, <1>10, <1>11, <1>12, <1>13
  DEF DesktopNext

LEMMA RestartsStep == ASSUME IInv, [DesktopNext]_desktopVars PROVE RestartsInv'
<1> USE FreeAssumption
<1> USE DEF IInv, RestartsInv, Something, Pending, configVars, fileVars, callVars
<1>0. /\ setter \in [Setters -> {"idle", "saved", "aborting", "binding"}]
      /\ endpoint \in [running : BOOLEAN, token : BOOLEAN, served : BOOLEAN]
  BY DEF DesktopType
<1>1. ASSUME NEW s \in Setters, SaveSettings(s) PROVE RestartsInv'
  BY <1>0, <1>1 DEF SaveSettings
<1>2. ASSUME NEW s \in Setters, RestartAborts(s) PROVE RestartsInv'
  BY <1>0, <1>2 DEF RestartAborts, RestartTurn
<1>3. ASSUME NEW s \in Setters, RestartReads(s) PROVE RestartsInv'
  BY <1>0, <1>3 DEF RestartReads
<1>4. ASSUME NEW s \in Setters, RestartBinds(s) PROVE RestartsInv'
  BY <1>0, <1>4 DEF RestartBinds
<1>5. ASSUME NEW s \in Setters, DesktopRestarts(s) PROVE RestartsInv'
  BY <1>0, <1>5 DEF DesktopRestarts
<1>6. ASSUME UNCHANGED configVars PROVE RestartsInv'
  BY <1>6
<1>7. ASSUME NEW c \in Clients,
             \/ ToolsCall(c) \/ A2aSend(c) \/ FileRead(c) \/ TimesOut(c) \/ TakeWriteLock(c)
             \/ WriteTemp(c) \/ Recheck(c) \/ Rename(c) \/ HardLink(c) \/ RemoveTemp(c)
      PROVE UNCHANGED configVars
  BY <1>7 DEF ToolsCall, A2aSend, Begin, FileRead, TimesOut, TakeWriteLock, WriteTemp, Recheck,
              Rename, HardLink, RemoveTemp
<1>8. ASSUME Outside PROVE UNCHANGED configVars
  BY <1>8 DEF Outside, WriteFile
<1>9. CASE UNCHANGED desktopVars
  BY <1>6, <1>9 DEF desktopVars
<1> QED BY <1>1, <1>2, <1>3, <1>4, <1>5, <1>6, <1>7, <1>8, <1>9 DEF DesktopNext

(* The inductive invariant: the types, who has the write lock, and what is   *)
(* still to be applied.                                                      *)
THEOREM Invariance == Spec => []IInv
<1>1. IInv /\ [DesktopNext]_desktopVars => IInv'
  BY TypeStep, MutationsStep, RestartsStep DEF IInv
<1> QED BY InitInv, <1>1, PTL DEF Spec

-----------------------------------------------------------------------------
(* Only WriteTemp, Recheck, Rename, HardLink and RemoveTemp move a mutation   *)
(* that has the lock, besides a restart of the application.                   *)
LEMMA CommitStep ==
  ASSUME IInv, [DesktopNext]_desktopVars, NEW c \in Clients
  PROVE  Committing(c) /\ Closing(c)
<1>1. Committing(c)
  BY DEF IInv, MutationsInv, Mutation, Committing, Commit, Locked, MayWrite
<1>2. Closing(c)
  <2> USE DEF IInv, MutationsInv, Mutation, Closing, Locked
  <2>0. DOMAIN call = Clients
    BY DEF DesktopType
  <2>1. ASSUME NEW s \in Setters, DesktopRestarts(s) PROVE Closing(c)
    BY <2>1 DEF DesktopRestarts, NoCall
  <2>2. ASSUME NEW d \in Clients, RemoveTemp(d) PROVE Closing(c)
    BY <2>0, <2>2 DEF RemoveTemp, Answer, NoCall
  <2>3. ASSUME NEW d \in Clients, FileRead(d) \/ TakeWriteLock(d) \/ ToolsCall(d) \/ A2aSend(d)
        PROVE Closing(c)
    BY <2>0, <2>3 DEF FileRead, TakeWriteLock, Answer, ToolsCall, A2aSend, Begin
  <2>4. ASSUME NEW d \in Clients,
               TimesOut(d) \/ WriteTemp(d) \/ Recheck(d) \/ Rename(d) \/ HardLink(d)
        PROVE Closing(c)
    <3>1. CASE TimesOut(d)
      BY <3>1, TimeoutFields DEF DesktopType
    <3>2. CASE WriteTemp(d)
      BY <2>0, <3>2 DEF WriteTemp
    <3>3. CASE Recheck(d)
      BY <2>0, <3>3 DEF Recheck
    <3>4. CASE Rename(d) \/ HardLink(d)
      BY <2>0, <3>4 DEF Rename, HardLink
    <3> QED BY <2>4, <3>1, <3>2, <3>3, <3>4
  <2>5. ASSUME UNCHANGED call PROVE Closing(c)
    BY <2>5
  <2>6. ASSUME NEW s \in Setters,
               SaveSettings(s) \/ RestartAborts(s) \/ RestartReads(s) \/ RestartBinds(s)
        PROVE UNCHANGED call
    <3>1. CASE SaveSettings(s) BY <3>1 DEF SaveSettings, callVars
    <3>2. CASE RestartAborts(s) BY <3>2 DEF RestartAborts, callVars
    <3>3. CASE RestartReads(s) BY <3>3 DEF RestartReads, callVars
    <3>4. CASE RestartBinds(s) BY <3>4 DEF RestartBinds, callVars
    <3> QED BY <2>6, <3>1, <3>2, <3>3, <3>4
  <2>7. ASSUME Outside \/ UNCHANGED desktopVars PROVE UNCHANGED call
    BY <2>7 DEF Outside, WriteFile, desktopVars, callVars
  <2> QED BY <2>1, <2>2, <2>3, <2>4, <2>5, <2>6, <2>7 DEF DesktopNext
<1> QED BY <1>1, <1>2

-----------------------------------------------------------------------------
(* Every variable keeps its type, and only a published project is writable.   *)
THEOREM DesktopTypes == Spec => []DesktopType
BY Invariance, PTL DEF IInv

(* When all changes of the settings were applied, nothing of the endpoint is  *)
(* left unless the configuration wants it (restart).                          *)
THEOREM DesktopEndpoint == Spec => []EndpointFollowsConfig
<1>1. IInv => EndpointFollowsConfig
  BY DEF IInv, RestartsInv, Something, Pending, EndpointFollowsConfig
<1> QED BY Invariance, <1>1, PTL

(* Whatever is committed is permitted at that moment, and was decided after    *)
(* every earlier mutation (call, mutate_file).                                *)
THEOREM DesktopCommits == Spec => CommitsAreExact
<1>1. IInv /\ [DesktopNext]_desktopVars =>
        /\ [\A c \in Clients : Commit(c) => config.enabled /\ config.published /\ config.writable]_desktopVars
        /\ [\A c \in Clients : Commit(c) => call[c].base = commits]_desktopVars
  BY CommitStep DEF Committing
<1> QED BY Invariance, <1>1, PTL DEF Spec, CommitsAreExact, NoWriteAfterRevoke, OneCommitPerHash

(* A client that was told of an error finds nothing written (rpc).            *)
THEOREM DesktopErrors == Spec => ErrorIsFinal
<1>1. IInv /\ [DesktopNext]_desktopVars =>
        [\A c \in Clients :
           /\ Commit(c) => call[c].answer = "none"
           /\ call[c].at = "published" /\ call'[c].at = "idle" => call'[c].answer # "error"]_desktopVars
  BY CommitStep DEF Committing, Closing
<1> QED BY Invariance, <1>1, PTL DEF Spec, ErrorIsFinal
=============================================================================
