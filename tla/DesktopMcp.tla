----------------------------- MODULE DesktopMcp -----------------------------
(* The MCP endpoint of the desktop application: its configuration, the HTTP  *)
(* server that follows it, and the tools that read, create and edit a file   *)
(* of a published project. There is one project with one file.               *)
EXTENDS Naturals

CONSTANTS
  Clients,      \* clients of the endpoint; each has at most one call under way
  Setters,      \* invocations of set_mcp_settings, and the start of the application
  Texts,        \* contents of the file (equal contents have equal hashes)
  Absent,       \* there is no file, or the client has not read it
  NoOne,        \* a mutex that is free
  MaxSettings,  \* how often the configuration is changed
  MaxOutside,   \* how often somebody else writes the file
  MaxCalls,     \* how many mutations are begun
  MaxCrashes    \* how often the application stops

ASSUME FreeAssumption == NoOne \notin Clients \cup Setters
ASSUME AbsentAssumption == Absent \notin Texts
ASSUME BoundAssumption ==
  MaxSettings \in Nat /\ MaxOutside \in Nat /\ MaxCalls \in Nat /\ MaxCrashes \in Nat

VARIABLES
  config,     \* setting "read_mcp_settings"
  endpoint,   \* ReadMcp.status.running, .token, and whether it was ever reachable
  server,     \* the owner of the mutex ReadMcp.server
  setter,     \* where each set_mcp_settings is
  writeLock,  \* the owner of ReadMcp.write_lock
  file,       \* the file: its text and the number of its hard links
  call,       \* the call of each client
  disk,       \* the temporary file of each client's mutation
  commits,    \* history: how many mutations of this server were committed
  outside, changes, begun, crashes   \* bounds

configVars == <<config, endpoint, server, setter, changes>>
fileVars == <<file, outside>>
callVars == <<call, disk, writeLock, commits, begun>>
desktopVars == <<configVars, fileVars, callVars, crashes>>

-----------------------------------------------------------------------------
\* McpConfig; validate_config lets only published projects be writable.
\* Mutant: a writable project need not be published.
ConfigsUnchecked == [enabled : BOOLEAN, published : BOOLEAN, writable : BOOLEAN]

Configs ==
  {c \in [enabled : BOOLEAN, published : BOOLEAN, writable : BOOLEAN] :
     c.writable => c.published}

Tools == {"file_read", "file_create", "file_edit"}

ReadOnly == {"file_read"}

\* A call: where it is, what is asked, the hash the client has, the text it wants
\* to write, the number of commits when its mutation first looked at the file,
\* and what the client was answered.
NoCall ==
  [at |-> "idle", tool |-> "file_read", expected |-> Absent, text |-> Absent,
   base |-> 0, answer |-> "none"]

\* A mutation that holds write_lock.
Locked == {"checked", "written", "rechecked", "published", "broken"}

Calls ==
  [at : {"idle", "reading", "waiting"} \cup Locked, tool : Tools,
   expected : Texts \cup {Absent}, text : Texts \cup {Absent},
   base : Nat, answer : {"none", "ok", "error"}]

DesktopType ==
  /\ config \in [enabled : BOOLEAN, published : BOOLEAN, writable : BOOLEAN]
  /\ config.writable => config.published
  /\ endpoint \in [running : BOOLEAN, token : BOOLEAN, served : BOOLEAN]
  /\ server \in Setters \cup {NoOne}
  /\ setter \in [Setters -> {"idle", "saved", "aborting", "binding"}]
  /\ writeLock \in Clients \cup {NoOne}
  /\ file \in [text : Texts \cup {Absent}, links : 0..2]
  /\ call \in [Clients -> Calls]
  /\ disk \in [Clients -> Texts \cup {Absent}]
  /\ commits \in Nat
  /\ outside \in 0..MaxOutside /\ changes \in 0..MaxSettings
  /\ begun \in 0..MaxCalls /\ crashes \in 0..MaxCrashes

DesktopInit ==
  /\ config \in Configs
  /\ endpoint = [running |-> FALSE, token |-> FALSE, served |-> FALSE]
  /\ server = NoOne
  /\ setter \in {[s \in Setters |-> IF s = b THEN "saved" ELSE "idle"] : b \in Setters}
  /\ writeLock = NoOne
  /\ file \in {[text |-> t, links |-> 1] : t \in Texts} \cup {[text |-> Absent, links |-> 0]}
  /\ call = [c \in Clients |-> NoCall]
  /\ disk = [c \in Clients |-> Absent]
  /\ commits = 0 /\ outside = 0 /\ changes = 0 /\ begun = 0 /\ crashes = 0

-----------------------------------------------------------------------------
(* set_mcp_settings and restart. The setting is stored under write_lock, so  *)
(* that no mutation is between its permission check and its commit.          *)
\* Mutant: nobody waits for a mutation.
WriteLockIgnored == TRUE

WriteLockFree == writeLock = NoOne

SaveSettings(s) ==
  /\ setter[s] = "idle" /\ changes < MaxSettings /\ WriteLockFree
  /\ config' \in Configs
  /\ setter' = [setter EXCEPT ![s] = "saved"]
  /\ changes' = changes + 1
  /\ UNCHANGED <<endpoint, server, fileVars, callVars, crashes>>

\* restart waits for its turn, then aborts the server and waits for its end.
\* Tasks of connections that are open outlive the server (endpoint.served).
\* Mutant: restarts do not wait for each other.
RestartAtOnce == TRUE

RestartTurn == server = NoOne

RestartAborts(s) ==
  /\ setter[s] = "saved" /\ RestartTurn
  /\ server' = s
  /\ setter' = [setter EXCEPT ![s] = "aborting"]
  /\ endpoint' = [endpoint EXCEPT !.running = FALSE]
  /\ UNCHANGED <<config, changes, fileVars, callVars, crashes>>

\* What is started follows the configuration that is stored by now, which may be
\* a later one than this command stored. Without the key chain nothing is started
\* and an old token stays.
RestartReads(s) ==
  /\ setter[s] = "aborting"
  /\ \E key \in BOOLEAN :
       /\ endpoint' = [endpoint EXCEPT !.token = config.enabled /\ (key \/ @)]
       /\ setter' = [setter EXCEPT ![s] = IF config.enabled /\ key THEN "binding" ELSE "idle"]
       /\ server' = IF config.enabled /\ key THEN s ELSE NoOne
  /\ UNCHANGED <<config, changes, fileVars, callVars, crashes>>

\* The port may refuse; the status then says so.
RestartBinds(s) ==
  /\ setter[s] = "binding"
  /\ \E bound \in BOOLEAN :
       endpoint' = [endpoint EXCEPT !.running = bound, !.served = @ \/ bound]
  /\ setter' = [setter EXCEPT ![s] = "idle"]
  /\ server' = NoOne
  /\ UNCHANGED <<config, changes, fileVars, callVars, crashes>>

-----------------------------------------------------------------------------
(* Requests. authorized compares the token and reads whether the endpoint is *)
(* enabled; project reads whether the project is published. Both are read    *)
(* again under write_lock before anything is written.                        *)
Authorized == endpoint.served /\ endpoint.token /\ config.enabled

\* The answer to a call that is over; a call that was answered before (it timed
\* out) keeps that answer. The client remembers the hash it has.
Answer(c, a) ==
  call' = [call EXCEPT ![c] = [NoCall EXCEPT
             !.expected = call[c].expected,
             !.answer = IF call[c].answer = "none" THEN a ELSE call[c].answer]]

\* A mutation goes to a blocking thread, which waits for write_lock there.
NewCall(c, tool, t) ==
  [at |-> IF tool \in ReadOnly THEN "reading" ELSE "waiting", tool |-> tool,
   expected |-> call[c].expected, text |-> IF tool \in ReadOnly THEN Absent ELSE t,
   base |-> 0, answer |-> "none"]

\* A new call: file_edit needs the hash of an earlier read.
Begin(c, tools) ==
  /\ call[c].at = "idle" /\ Authorized /\ config.published
  /\ \E tool \in tools, t \in Texts :
       /\ tool = "file_edit" => call[c].expected \notin {Absent, t}
       /\ tool \notin ReadOnly => begun < MaxCalls
       /\ begun' = IF tool \in ReadOnly THEN begun ELSE begun + 1
       /\ call' = [call EXCEPT ![c] = NewCall(c, tool, t)]
  /\ UNCHANGED <<configVars, fileVars, disk, writeLock, commits, crashes>>

\* JSON-RPC offers every tool, an A2A message those that are read-only.
ToolsCall(c) == Begin(c, Tools)

A2aSend(c) == Begin(c, ReadOnly)

\* file_read: the client learns the hash of the whole file.
FileRead(c) ==
  /\ call[c].at = "reading"
  /\ IF call[c].answer = "none" /\ file.text # Absent
     THEN call' = [call EXCEPT ![c] = [NoCall EXCEPT !.expected = file.text, !.answer = "ok"]]
     ELSE Answer(c, "error")
  /\ UNCHANGED <<configVars, fileVars, disk, writeLock, commits, begun, crashes>>

\* A call that takes longer than fifteen seconds is answered; what runs in a
\* blocking thread goes on. Mutations are exempt.
\* Mutant: every call has the timeout.
TimedAll(tool) == TRUE

Timed(tool) == tool \in ReadOnly

TimesOut(c) ==
  /\ call[c].at # "idle" /\ Timed(call[c].tool) /\ call[c].answer = "none"
  /\ call' = [call EXCEPT ![c].answer = "error"]
  /\ UNCHANGED <<configVars, fileVars, disk, writeLock, commits, begun, crashes>>

-----------------------------------------------------------------------------
(* mutate_file. The mutation has the lock and looks at the configuration     *)
(* again, then at the path and, for an edit, at the file and its hash.       *)
\* Mutant: the second look forgets that writing has a permission of its own.
MayWritePublished == config.enabled /\ config.published

MayWrite == config.enabled /\ config.published /\ config.writable

\* EditableFile::read, with a hash.
Editable(expected) == file.text = expected /\ file.links = 1

\* What mutate_file wants before it writes: an edit is of the file the client has
\* read. A call may also be refused for its arguments: a protected path, an old_text
\* that is not found exactly once, a secret.
Prepared(c) == call[c].tool = "file_edit" => Editable(call[c].expected)

TakeWriteLock(c) ==
  /\ call[c].at = "waiting" /\ WriteLockFree
  /\ \/ /\ MayWrite /\ Prepared(c)
        /\ call' = [call EXCEPT ![c].at = "checked", ![c].base = commits]
        /\ writeLock' = c
     \/ Answer(c, "error") /\ UNCHANGED writeLock
  /\ UNCHANGED <<configVars, fileVars, disk, commits, begun, crashes>>

\* The text goes to a temporary file of its own; any step of this may fail.
WriteTemp(c) ==
  /\ call[c].at = "checked"
  /\ \E at \in {"written", "broken"} : call' = [call EXCEPT ![c].at = at]
  /\ disk' = [disk EXCEPT ![c] = call[c].text]
  /\ UNCHANGED <<configVars, fileVars, writeLock, commits, begun, crashes>>

\* An edit looks at the file once more before it replaces it; looking and replacing
\* may fail.
Recheck(c) ==
  /\ call[c].at = "written" /\ call[c].tool = "file_edit"
  /\ \E at \in {"rechecked", "broken"} :
       /\ at = "rechecked" => Editable(call[c].expected)
       /\ call' = [call EXCEPT ![c].at = at]
  /\ UNCHANGED <<configVars, fileVars, disk, writeLock, commits, begun, crashes>>

\* An edit renames the temporary file over the file; a creation links it, which
\* fails when there is a file by now.
Rename(c) ==
  /\ call[c].at = "rechecked"
  /\ file' = [text |-> disk[c], links |-> 1]
  /\ disk' = [disk EXCEPT ![c] = Absent]
  /\ call' = [call EXCEPT ![c].at = "published"]
  /\ commits' = commits + 1
  /\ UNCHANGED <<configVars, writeLock, outside, begun, crashes>>

HardLink(c) ==
  /\ call[c].at = "written" /\ call[c].tool = "file_create"
  /\ \/ /\ file.text = Absent
        /\ file' = [text |-> disk[c], links |-> 2]
        /\ call' = [call EXCEPT ![c].at = "published"]
        /\ commits' = commits + 1
     \/ /\ call' = [call EXCEPT ![c].at = "broken"]
        /\ UNCHANGED <<file, commits>>
  /\ UNCHANGED <<configVars, disk, writeLock, outside, begun, crashes>>

\* The temporary file is removed in any case, and a failure to do so ignored: a
\* created file then keeps its second link, and cannot be edited.
RemoveTemp(c) ==
  /\ call[c].at \in {"published", "broken"}
  /\ \E removed \in BOOLEAN :
       file' = [file EXCEPT !.links = IF removed /\ @ = 2 /\ disk[c] # Absent
                                         /\ call[c].at = "published" THEN 1 ELSE @]
  /\ disk' = [disk EXCEPT ![c] = Absent]
  /\ Answer(c, IF call[c].at = "published" THEN "ok" ELSE "error")
  /\ writeLock' = NoOne
  /\ UNCHANGED <<configVars, outside, commits, begun, crashes>>

-----------------------------------------------------------------------------
\* Somebody else - an editor, Git, a command - writes, replaces or deletes it.
WriteFile(text, links) ==
  /\ outside < MaxOutside /\ outside' = outside + 1
  /\ file' = [text |-> text, links |-> links]
  /\ UNCHANGED <<configVars, callVars, crashes>>

Outside ==
  \/ \E t \in Texts \ {file.text} :
       WriteFile(t, IF file.text = Absent THEN 1 ELSE file.links) \/ WriteFile(t, 1)
  \/ file.text # Absent /\ WriteFile(Absent, 0)

\* The application ends and starts again; temporary files stay where they are.
DesktopRestarts(s) ==
  /\ crashes < MaxCrashes /\ crashes' = crashes + 1
  /\ endpoint' = [running |-> FALSE, token |-> FALSE, served |-> FALSE]
  /\ server' = NoOne
  /\ setter' = [z \in Setters |-> IF z = s THEN "saved" ELSE "idle"]
  /\ writeLock' = NoOne
  /\ call' = [c \in Clients |-> [NoCall EXCEPT !.expected = call[c].expected]]
  /\ disk' = [c \in Clients |-> Absent]
  /\ UNCHANGED <<config, changes, fileVars, commits, begun>>

DesktopNext ==
  \/ \E s \in Setters :
       \/ SaveSettings(s) \/ RestartAborts(s) \/ RestartReads(s) \/ RestartBinds(s)
       \/ DesktopRestarts(s)
  \/ \E c \in Clients :
       \/ ToolsCall(c) \/ A2aSend(c) \/ FileRead(c) \/ TimesOut(c)
       \/ TakeWriteLock(c) \/ WriteTemp(c) \/ Recheck(c) \/ Rename(c) \/ HardLink(c)
       \/ RemoveTemp(c)
  \/ Outside

Spec == DesktopInit /\ [][DesktopNext]_desktopVars

-----------------------------------------------------------------------------
(* Properties *)

\* A mutation is committed.
Commit(c) == call[c].at \in {"written", "rechecked"} /\ call'[c].at = "published"

\* Once set_mcp_settings has withdrawn the permission to write, nothing more is
\* written, whatever mutation was admitted before and waited ("Recheck permissions
\* after waiting, and serialize configuration revocation", call).
NoWriteAfterRevoke ==
  [][\A c \in Clients :
       Commit(c) => config.enabled /\ config.published /\ config.writable]_desktopVars

\* A mutation has seen every earlier mutation of the file when it decides, and none
\* comes in between: of two edits with one hash, one is refused (mutate_file).
OneCommitPerHash == [][\A c \in Clients : Commit(c) => call[c].base = commits]_desktopVars

\* What is committed is permitted and known then, not when its call was admitted: the
\* permission and the hash are looked at again after every wait (call, mutate_file).
CommitsAreExact == NoWriteAfterRevoke /\ OneCommitPerHash

\* A client that was told of an error finds nothing written later, nor before:
\* a mutation that timed out would go on in its thread (rpc).
ErrorIsFinal ==
  [][\A c \in Clients :
       /\ Commit(c) => call[c].answer = "none"
       /\ call[c].at = "published" /\ call'[c].at = "idle" => call'[c].answer # "error"]_desktopVars

\* When the last change of the settings has been applied, the endpoint runs and has
\* its key only if the stored configuration says so, in whatever order the changes
\* were made (restart).
EndpointFollowsConfig ==
  (\A s \in Setters : setter[s] = "idle") =>
     (endpoint.running \/ endpoint.token => config.enabled)
=============================================================================
