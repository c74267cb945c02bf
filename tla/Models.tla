------------------------------- MODULE Models -------------------------------
(* The models that the hub runs: the profiles of their providers, the route of *)
(* a request to one of them, the agent loop around one, the answer that it     *)
(* streams, and the workers of a plan with their context and their edits; and  *)
(* the application that serves projects to a model outside. A run is a run of  *)
(* one of them (part); of the agent loop it is a run of one thread, for an     *)
(* approval belongs to one thread.                                             *)
EXTENDS ProviderProfiles, AutoRouting, ApiAgent, ProviderStreams, PlanWorkers, ContextBroker,
  LocalEdits, AgentApp

VARIABLE part

vars == <<part, profileVars, routingVars, agentVars, streamVars, planVars, brokerVars, editVars, appVars>>

Init ==
  /\ part \in {"profiles", "routing", "stream", "plan", "context", "edits", "app"} \cup Threads
  /\ ProfilesInit /\ RoutesInit /\ AgentInit /\ StreamsInit /\ PlanInit /\ BrokerInit /\ EditInit
  /\ AppInit
  /\ part # "routing" => settings = "none"
  /\ part # "plan" => deps = CHOOSE d \in Plans : Acyclic(d)
  /\ part # "app" => projectsFile = [f \in Folders |-> "none"]

ProfilesStep == part = "profiles" /\ ProfilesNext
RoutesStep == part = "routing" /\ RoutesNext
AgentStep == part \in Threads /\ AgentNext /\ \A t \in Threads \ {part} : agent'[t].at = "idle"
StreamsStep == part = "stream" /\ StreamsNext
PlanStep == part = "plan" /\ PlanNext
BrokerStep == part = "context" /\ BrokerNext
EditStep == part = "edits" /\ EditNext
AppStep == part = "app" /\ AppNext

Next ==
  /\ UNCHANGED part
  /\ \/ ProfilesStep /\ UNCHANGED <<routingVars, agentVars, streamVars, planVars, brokerVars, editVars, appVars>>
     \/ RoutesStep /\ UNCHANGED <<profileVars, agentVars, streamVars, planVars, brokerVars, editVars, appVars>>
     \/ AgentStep /\ UNCHANGED <<profileVars, routingVars, streamVars, planVars, brokerVars, editVars, appVars>>
     \/ StreamsStep /\ UNCHANGED <<profileVars, routingVars, agentVars, planVars, brokerVars, editVars, appVars>>
     \/ PlanStep /\ UNCHANGED <<profileVars, routingVars, agentVars, streamVars, brokerVars, editVars, appVars>>
     \/ BrokerStep /\ UNCHANGED <<profileVars, routingVars, agentVars, streamVars, planVars, editVars, appVars>>
     \/ EditStep /\ UNCHANGED <<profileVars, routingVars, agentVars, streamVars, planVars, brokerVars, appVars>>
     \/ AppStep /\ UNCHANGED <<profileVars, routingVars, agentVars, streamVars, planVars, brokerVars, editVars>>

Spec == Init /\ [][Next]_vars

-----------------------------------------------------------------------------
(* Properties: of the part that runs, for the others stay as they began *)

\* The types of all parts.
TypeOK ==
  /\ part = "profiles" => ProfilesType
  /\ part = "routing" => RoutesType
  /\ part \in Threads => AgentType
  /\ part = "stream" => StreamsType
  /\ part = "plan" => PlanType
  /\ part = "context" => BrokerType
  /\ part = "edits" => EditType
  /\ part = "app" => AppType

\* Agents are exact: an approval of a command is asked for, granted and spent once, and
\* who waits for one can still hear of it; and each call of a tool is answered before the
\* provider is asked again.
AgentsAreExact == part \in Threads => ChangesAreAllowed /\ WaitersAreHeard /\ CallsAreAnswered

\* Choices are exact: a connection is one that was saved, a route that runs is one that
\* was shown, and a project has one route that can run; the projects that an agent serves
\* are those that were saved and are shown, and so is the window of its approvals.
ChoicesAreExact ==
  /\ part = "profiles" => ConnectionsAreSaved
  /\ part = "routing" => RunsWhatWasShown /\ OneRoutePerProject
  /\ part = "app" => ServesWhatIsShown /\ WindowsAreKnown

\* Answers are exact: an answer is read whole, or not at all, and sent back whole.
AnswersAreExact == part = "stream" => ResponsesAreWhole /\ AnswersAreResent

\* The workers of a plan are exact: a task starts on the work it waits for, is done by
\* one worker, once, and within its budget of context; a stop in between can be
\* recovered from, and the edit of a local worker is whole or undone.
WorkersAreExact ==
  /\ part = "plan" => DependenciesComeFirst /\ OneWorkerPerTask /\ RowsAreRecoverable
  /\ part = "context" => BudgetIsKept
  /\ part = "edits" => EditsAreWhole
=============================================================================
