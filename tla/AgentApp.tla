------------------------------ MODULE AgentApp ------------------------------
(* The desktop application of the MCP agent (apps/mcp-agent). Its controller   *)
(* keeps a draft of the projects that the agent may serve and the saved ones,  *)
(* and runs its commands one at a time through a chain of promises; its        *)
(* approval window is opened in several steps while the agent may be stopped.  *)
(* The error text and the texts of a project are left out.                     *)
EXTENDS Naturals, Sequences

CONSTANTS
  Folders,       \* directories that the user may choose
  Askers,        \* invocations of commands that can be under way at the same time
  MaxCommands,   \* bound: commands
  MaxMoves,      \* bound: directories that disappear or come back
  MaxWindows,    \* bound: approval windows
  MaxAppEnds    \* bound: ends of the application

ASSUME FoldersAssumption == Folders # {}
ASSUME AppBoundsAssumption ==
  MaxCommands \in Nat /\ MaxWindows \in Nat /\ MaxMoves \in Nat /\ MaxAppEnds \in Nat

VARIABLES
  present,       \* directories that are where they were chosen
  projects,      \* the draft: what the agent may do in a folder
  renewed,       \* folders that were added since the last save: each has an id of its own
  savedProjects, \* what the controller believes to be saved
  projectsFile,  \* projects.json
  available,     \* folders of projects not known to be gone
  tail,          \* commands in the order of their turns
  asker,         \* [Askers -> a command and where it is]
  invoked,       \* commands so far
  appAgent,      \* the agent of the controller, 0: none
  appAgents,     \* agents started so far
  serving,       \* the started agent has not been told to stop
  scope,         \* what the agent read when it started
  locked,        \* agent.lock is held
  generation, window, opening, owner,   \* ApprovalWindows
  wins,          \* the windows and the openings that make them
  winCount,
  moves, appEnds

draftVars == <<projects, renewed, savedProjects, projectsFile, available>>
controlVars == <<draftVars, tail, asker, invoked>>
servedVars == <<appAgent, appAgents, serving, scope, locked>>
windowVars == <<generation, window, opening, owner, wins, winCount>>
worldVars == <<present, moves, appEnds>>
appVars == <<controlVars, servedVars, windowVars, worldVars>>

-----------------------------------------------------------------------------
Allowances == {"none", "read", "write"}

Scopes == [Folders -> Allowances]

\* A command; one that changes the draft names a folder and what it is allowed from then on.
Drafting == {"add", "update", "remove"}

AppCommands ==
  [kind : Drafting, folder : Folders, allow : Allowances] \cup
  [kind : {"save", "recheck", "start", "stop"}, folder : {CHOOSE f \in Folders : TRUE}, allow : {"none"}]

WellFormed(q) ==
  q.allow \in CASE q.kind = "add" -> {"read"} [] q.kind = "update" -> {"read", "write"} [] OTHER -> {"none"}

\* A command and where it is.
Asking ==
  [command : AppCommands, verified : SUBSET Folders,
   at : {"idle", "queued", "verify", "stop", "close", "apply", "launch", "starting"}]

\* The commands that main.mjs accompanies with closeApprovals.
Closing == Drafting \cup {"save", "stop"}

Windows == 1..MaxWindows

Opened ==
  [at : {"none", "session", "cookie", "load", "shown", "gone"}, agent : Nat, generation : Nat]

NoWindow == [at |-> "none", agent |-> 0, generation |-> 0]

\* Destroyed, or an opening that is over without a window.
Gone == [NoWindow EXCEPT !.at = "gone"]

AppType ==
  /\ present \subseteq Folders /\ available \subseteq Folders /\ renewed \subseteq Folders
  /\ projects \in Scopes /\ savedProjects \in Scopes /\ projectsFile \in Scopes /\ scope \in Scopes
  /\ tail \in Seq(Askers)
  /\ asker \in [Askers -> Asking]
  /\ \A c \in Askers : asker[c].at = "idle" <=> \A i \in 1..Len(tail) : tail[i] # c
  /\ invoked \in 0..MaxCommands /\ appAgents \in 0..MaxCommands /\ appAgent \in 0..appAgents
  /\ serving \in BOOLEAN /\ locked \in BOOLEAN
  /\ generation \in Nat /\ window \in 0..winCount /\ opening \in 0..winCount /\ owner \in 0..appAgents
  /\ wins \in [Windows -> Opened] /\ \A w \in Windows : wins[w].generation <= generation
  /\ winCount \in 0..MaxWindows /\ moves \in 0..MaxMoves /\ appEnds \in 0..MaxAppEnds

\* The folders of projects that initialize finds.
Found(content) == {f \in present : content[f] # "none"}

Idle ==
  [command |-> CHOOSE q \in AppCommands : q.kind = "stop", verified |-> {}, at |-> "idle"]

AppInit ==
  /\ present = Folders
  /\ projectsFile \in Scopes
  /\ projects = projectsFile /\ savedProjects = projectsFile /\ scope = projectsFile
  /\ available = Found(projectsFile) /\ renewed = {}
  /\ tail = <<>> /\ asker = [c \in Askers |-> Idle] /\ invoked = 0
  /\ appAgent = 0 /\ appAgents = 0 /\ serving = FALSE /\ locked = FALSE
  /\ generation = 0 /\ window = 0 /\ opening = 0 /\ owner = 0
  /\ wins = [w \in Windows |-> NoWindow] /\ winCount = 0
  /\ moves = 0 /\ appEnds = 0

-----------------------------------------------------------------------------
(* ApprovalWindows *)

\* close: the window is destroyed, and whatever opens one finds another generation.
CloseWindows ==
  /\ generation' = generation + 1
  /\ wins' = IF window = 0 THEN wins ELSE [wins EXCEPT ![window] = Gone]
  /\ window' = 0 /\ owner' = 0 /\ opening' = 0

\* open, from the tray or the main window: one opening at a time, and one window.
OpensWindow ==
  /\ appAgent # 0
  /\ winCount < MaxWindows
  /\ LET stale == owner \notin {0, appAgent}
         shown == window # 0 /\ wins[window].at # "gone"
         g == IF stale THEN generation + 1 ELSE generation
     IN /\ stale \/ (opening = 0 /\ ~shown)
        /\ generation' = g
        /\ winCount' = winCount + 1
        /\ wins' = [w \in Windows |->
             IF w = winCount' THEN [at |-> "session", agent |-> appAgent, generation |-> g]
             ELSE IF stale /\ w = window THEN Gone ELSE wins[w]]
        /\ window' = IF stale THEN 0 ELSE window
        /\ opening' = winCount' /\ owner' = appAgent
  /\ UNCHANGED <<controlVars, servedVars, worldVars>>

\* Mutant: an opening looks only whether its agent is still the one of the controller.
CurrentAgent(w) == wins[w].agent = appAgent

Current(w) == wins[w].generation = generation /\ wins[w].agent = appAgent

\* An opening goes on when what it awaited has come, if it is still current; it is
\* over when it is not, when what it awaited failed, and when it has shown its window.
Advances(w, from, to) ==
  /\ wins[w].at = from
  /\ \/ /\ Current(w) /\ (from = "session" \/ window = w)
        /\ wins' = [wins EXCEPT ![w].at = to]
        /\ window' = w
        /\ opening' = IF to = "shown" /\ opening = w THEN 0 ELSE opening
     \/ /\ wins' = [wins EXCEPT ![w] = Gone]
        /\ window' = IF window = w THEN 0 ELSE window
        /\ opening' = IF opening = w THEN 0 ELSE opening
  /\ UNCHANGED <<generation, owner, winCount, controlVars, servedVars, worldVars>>

ReadsSession(w) == Advances(w, "session", "cookie")
SetsSession(w) == Advances(w, "cookie", "load")
Loads(w) == Advances(w, "load", "shown")

UserCloses(w) ==
  /\ wins[w].at = "shown"
  /\ wins' = [wins EXCEPT ![w] = Gone]
  /\ UNCHANGED <<generation, window, opening, owner, winCount, controlVars, servedVars, worldVars>>

-----------------------------------------------------------------------------
(* AgentController *)

\* A command is called: the window is closed at once, the command waits for its turn.
Invokes(c, q) ==
  /\ asker[c].at = "idle"
  /\ invoked < MaxCommands
  /\ invoked' = invoked + 1
  /\ asker' = [asker EXCEPT ![c] = [command |-> q, verified |-> {}, at |-> "queued"]]
  /\ tail' = Append(tail, c)
  /\ IF q.kind \in Closing THEN CloseWindows /\ UNCHANGED winCount ELSE UNCHANGED windowVars
  /\ UNCHANGED <<draftVars, servedVars, worldVars>>

\* Mutant: a command begins as soon as it is called.
MayRunAtOnce(c) == TRUE

\* exclusive: a command begins when those before it have ended.
MayRun(c) == tail # <<>> /\ Head(tail) = c

At(c, point) == asker[c].at = point
KindOf(c) == asker[c].command.kind
Reaches(c, point) == asker' = [asker EXCEPT ![c].at = point] /\ UNCHANGED tail
Resolves(c) == asker' = [asker EXCEPT ![c] = Idle] /\ tail' = Tail(tail)

Registered == {f \in Folders : projects[f] # "none"}

\* state: the draft is the saved one, not only in its folders.
Clean == projects = savedProjects /\ renewed = {}

Configured == Registered # {} /\ Clean /\ Registered \subseteq available

\* What is looked at before the first command on the agent; a folder to be added has to
\* be there.
Accepted(q) ==
  \/ q.kind = "add" /\ q.folder \in present \ Registered
  \/ q.kind = "update" /\ q.folder \in Registered /\ projects[q.folder] # q.allow
  \/ q.kind = "remove" /\ q.folder \in Registered
  \/ q.kind = "start" /\ appAgent = 0 /\ Configured
  \/ q.kind \in {"save", "recheck", "stop"}

TakesTurn(c) ==
  /\ At(c, "queued") /\ MayRun(c)
  /\ IF Accepted(asker[c].command)
       THEN Reaches(c, IF KindOf(c) \in {"save", "recheck", "start"} THEN "verify" ELSE "stop")
       ELSE Resolves(c)
  /\ UNCHANGED <<draftVars, invoked, servedVars, windowVars, worldVars>>

\* verifyRoots: a folder that is gone ends the command.
VerifiesRoot(c, f) ==
  /\ At(c, "verify")
  /\ f \in Registered \ asker[c].verified
  /\ IF f \in present
       THEN /\ available' = available \cup {f}
            /\ asker' = [asker EXCEPT ![c].verified = @ \cup {f}] /\ UNCHANGED tail
       ELSE available' = available \ {f} /\ Resolves(c)
  /\ UNCHANGED <<projects, renewed, savedProjects, projectsFile, invoked, servedVars, windowVars, worldVars>>

HasVerified(c) ==
  /\ At(c, "verify") /\ Registered \subseteq asker[c].verified
  /\ CASE KindOf(c) = "save" -> Reaches(c, "stop")
       [] KindOf(c) = "start" -> Reaches(c, "launch")
       [] OTHER -> Resolves(c)
  /\ UNCHANGED <<draftVars, invoked, servedVars, windowVars, worldVars>>

\* stopNow. An agent that was told to stop before, and failed to, says at once that it has.
StopsNow(c) ==
  /\ At(c, "stop")
  /\ serving' = FALSE
  /\ IF serving THEN Reaches(c, "close") /\ UNCHANGED appAgent ELSE Reaches(c, "apply") /\ appAgent' = 0
  /\ UNCHANGED <<draftVars, invoked, appAgents, scope, locked, windowVars, worldVars>>

\* The agent has closed, or its close fails and ends the command.
AgentCloses(c) ==
  /\ At(c, "close")
  /\ \/ appAgent' = 0 /\ locked' = FALSE /\ Reaches(c, "apply")
     \/ Resolves(c) /\ UNCHANGED <<appAgent, locked>>
  /\ UNCHANGED <<draftVars, invoked, appAgents, serving, scope, windowVars, worldVars>>

\* What a command does to the draft once the agent has stopped.
Drafts(c) ==
  /\ At(c, "apply")
  /\ LET q == asker[c].command IN
     /\ projects' = IF q.kind \in Drafting THEN [projects EXCEPT ![q.folder] = q.allow] ELSE projects
     /\ available' = CASE q.kind = "add" -> available \cup {q.folder}
                       [] q.kind = "remove" -> available \ {q.folder}
                       [] OTHER -> available
     /\ \/ q.kind = "save" /\ projectsFile' = projects /\ savedProjects' = projects /\ renewed' = {}
        \/ /\ UNCHANGED <<projectsFile, savedProjects>>    \* not a save, or the write failed
           /\ renewed' = CASE q.kind = "add" -> renewed \cup {q.folder}
                           [] q.kind = "remove" -> renewed \ {q.folder}
                           [] OTHER -> renewed
  /\ Resolves(c)
  /\ UNCHANGED <<invoked, servedVars, windowVars, worldVars>>

\* startAgent takes its lock and reads the file; it is on the relay before it returns.
Launches(c) ==
  /\ At(c, "launch")
  /\ \/ /\ ~locked
        /\ locked' = TRUE /\ serving' = TRUE /\ scope' = projectsFile
        /\ Reaches(c, "starting")
     \/ Resolves(c) /\ UNCHANGED <<locked, serving, scope>>
  /\ UNCHANGED <<draftVars, invoked, appAgent, appAgents, windowVars, worldVars>>

\* The agent is there, or its start fails: what it had made is closed, and an error of
\* that leaves the lock behind.
Started(c) ==
  /\ At(c, "starting")
  /\ \/ appAgents' = appAgents + 1 /\ appAgent' = appAgents' /\ UNCHANGED <<serving, locked>>
     \/ serving' = FALSE /\ (locked' = FALSE \/ UNCHANGED locked) /\ UNCHANGED <<appAgent, appAgents>>
  /\ Resolves(c)
  /\ UNCHANGED <<draftVars, invoked, scope, windowVars, worldVars>>

-----------------------------------------------------------------------------
Moves(f) ==
  /\ moves < MaxMoves
  /\ moves' = moves + 1
  /\ present' = IF f \in present THEN present \ {f} ELSE present \cup {f}
  /\ UNCHANGED <<appEnds, controlVars, servedVars, windowVars>>

\* The application ends at any moment, and its agent with it; the next one initializes.
AppRestarts ==
  /\ appEnds < MaxAppEnds
  /\ appEnds' = appEnds + 1
  /\ UNCHANGED <<projectsFile, present, moves, invoked, appAgents, scope>>
  /\ projects' = projectsFile /\ savedProjects' = projectsFile /\ available' = Found(projectsFile) /\ renewed' = {}
  /\ tail' = <<>> /\ asker' = [c \in Askers |-> Idle]
  /\ appAgent' = 0 /\ serving' = FALSE /\ locked' = FALSE
  /\ generation' = 0 /\ window' = 0 /\ opening' = 0 /\ owner' = 0
  /\ wins' = [w \in Windows |-> NoWindow] /\ winCount' = 0

AppNext ==
  \/ \E c \in Askers :
       \/ \E q \in AppCommands : WellFormed(q) /\ Invokes(c, q)
       \/ TakesTurn(c) \/ HasVerified(c) \/ \E f \in Folders : VerifiesRoot(c, f)
       \/ StopsNow(c) \/ AgentCloses(c) \/ Drafts(c) \/ Launches(c) \/ Started(c)
  \/ OpensWindow
  \/ \E w \in Windows : ReadsSession(w) \/ SetsSession(w) \/ Loads(w) \/ UserCloses(w)
  \/ \E f \in Folders : Moves(f)
  \/ AppRestarts

-----------------------------------------------------------------------------
(* Properties *)

\* An agent that serves has exactly the scope that the user sees and has saved: no
\* command changes the draft or the file under it, in whatever order commands wait.
ServesWhatIsShown == serving => scope = projectsFile /\ projectsFile = savedProjects /\ Clean

\* A window that is shown is the one the application knows, for the agent it was opened
\* for, and it was opened after the last command that closes windows was called: no
\* opening that was under way then shows one.
WindowsAreKnown ==
  \A w \in Windows : wins[w].at = "shown" =>
    window = w /\ wins[w].generation = generation /\ wins[w].agent = owner
=============================================================================
