---------------------------- MODULE AutoRouting ----------------------------
(* Automatic routing: a request is assessed, the user sees the route that the *)
(* saved assignments give it, may change it, and starts a task with it        *)
(* (auto_routing.rs, create_routed_task). Every command awaits a model or a   *)
(* provider between its look at the pending routes and its change of them.    *)
EXTENDS Naturals, Sequences, FiniteSets

CONSTANTS
  Projects,
  Commands,      \* invocations of preview, revise and create that may overlap
  Routes,        \* ids of routes
  Targets,       \* execution models
  NoTarget,
  NoRoute,       \* a command that has no route
  MaxPending,    \* routes that may be pending (32 in the code)
  MaxShown,      \* bound: revisions of a route
  MaxSaves       \* bound: changes of the settings

ASSUME TargetAssumption == NoTarget \notin Targets
ASSUME PendingAssumption == MaxPending \in Nat
ASSUME ShownAssumption == MaxShown \in Nat /\ MaxSaves \in Nat

VARIABLES
  settings,   \* setting auto_routing_settings: what the text assigns
  pending,    \* AppState.auto_routes: the routes by id
  command,    \* where each command is, with its clone of a route
  late,       \* the routes that were made more than ten minutes ago
  shown,      \* history: the previews that a command returned to the user
  ran,        \* history: [route -> the previews that tasks were created from]
  saves

routingVars == <<settings, pending, command, late, shown, ran, saves>>

-----------------------------------------------------------------------------
\* The texts of the setting: none (the catalog gives the assignments), one of an older
\* version, and what the user saves. Which target an assignment gives is left open.
Saved == {"one", "two"}

SettingTexts == {"none", "older"} \cup Saved

\* What is left of the request and its assessment: a plan is needed (by the words of
\* the request, by the classifier, or for its risk) or not. A failed one has no level.
Assessments == {"plan", "clear"}

planning_reason(assessment) == assessment = "plan"

\* PreparedRoute with its AutoPreview: a route is blocked when it has no target.
RouteRecords ==
  [id : Routes, revision : 0..MaxShown, project : Projects, text : SettingTexts,
   assessment : Assessments, target : Targets \cup {NoTarget}]

NoCommand == [at |-> "idle", route |-> NoRoute, want |-> NoTarget]

RoutesType ==
  /\ settings \in SettingTexts
  /\ pending \subseteq RouteRecords
  /\ command \in [Commands ->
       [at : {"idle", "reading", "assessing", "choosing", "made", "revising", "revised",
              "validating", "valid"},
        route : RouteRecords \cup {NoRoute}, want : Targets \cup {NoTarget}]]
  /\ late \subseteq Routes
  /\ shown \subseteq RouteRecords
  /\ ran \in [Routes -> Seq(RouteRecords)]
  /\ saves \in 0..MaxSaves

RoutesInit ==
  /\ settings \in SettingTexts
  /\ pending = {}
  /\ command = [c \in Commands |-> NoCommand]
  /\ late = {}
  /\ shown = {}
  /\ ran = [r \in Routes |-> <<>>]
  /\ saves = 0

Pending(id) == {r \in pending : r.id = id}

\* check_fresh: not ten minutes old, and the saved text is the one it began with.
Fresh(route) == route.id \notin late /\ settings = route.text

Held == {command[c].route.id : c \in {x \in Commands : command[x].at # "idle"}}

Used == {r.id : r \in shown} \cup Held

-----------------------------------------------------------------------------
\* set_auto_settings, after the catalog was awaited.
set_auto_settings ==
  /\ saves < MaxSaves
  /\ saves' = saves + 1
  /\ settings' \in Saved
  /\ UNCHANGED <<pending, command, late, shown, ran>>

\* Ten minutes go by.
TenMinutes(id) ==
  /\ id \in Held \cup {r.id : r \in pending}
  /\ late' = late \cup {id}
  /\ UNCHANGED <<settings, pending, command, shown, ran, saves>>

-----------------------------------------------------------------------------
(* preview_auto_route *)

\* saved_settings is read, and kept as the revision of the settings.
Previews(c) ==
  /\ command[c].at = "idle"
  /\ \E id \in Routes \ Used, p \in Projects :
       command' = [command EXCEPT ![c] =
         [at |-> "reading", want |-> NoTarget,
          route |-> [id |-> id, revision |-> 0, project |-> p, text |-> settings,
                     assessment |-> "clear", target |-> NoTarget]]]
  /\ UNCHANGED <<settings, pending, late, shown, ran, saves>>

\* read_settings reads again, and saves an older text in its new form.
ReadsSettings(c) ==
  /\ command[c].at = "reading"
  /\ command' = [command EXCEPT ![c].at = "assessing"]
  /\ settings' = IF settings = "older" THEN "one" ELSE settings
  /\ UNCHANGED <<pending, late, shown, ran, saves>>

\* classify, unless the words of the request already ask for a plan.
Assesses(c) ==
  /\ command[c].at = "assessing"
  /\ \E a \in Assessments :
       command' = [command EXCEPT ![c].at = "choosing", ![c].route.assessment = a]
  /\ UNCHANGED <<settings, pending, late, shown, ran, saves>>

\* choose_target: a plan blocks; the candidate if it can be used now; else the
\* fallback, if it is allowed; else the route is blocked.
Chosen(route, candidates) ==
  {[route EXCEPT !.target = t] :
     t \in {NoTarget} \cup (IF planning_reason(route.assessment) THEN {} ELSE candidates)}

\* The target of the level, or the fallback (the only one without an assessment).
Chooses(c) ==
  /\ command[c].at = "choosing"
  /\ \E r \in Chosen(command[c].route, Targets) :
       command' = [command EXCEPT ![c] =
         IF Fresh(r) THEN [@ EXCEPT !.at = "made", !.route = r] ELSE NoCommand]
  /\ UNCHANGED <<settings, pending, late, shown, ran, saves>>

\* Mutant: the earlier routes of the project are kept.
KeptAny(route) == {r \in pending : r.id \notin late}

\* What stays when a route is inserted: nothing old, nothing of the same project.
Kept(route) == {r \in pending : r.id \notin late /\ r.project # route.project}

Shows(c) ==
  /\ command[c].at = "made"
  /\ LET route == command[c].route
         kept == Kept(route)
     IN IF Cardinality(kept) >= MaxPending
        THEN pending' = kept /\ UNCHANGED shown
        ELSE pending' = kept \cup {route} /\ shown' = shown \cup {route}
  /\ command' = [command EXCEPT ![c] = NoCommand]
  /\ UNCHANGED <<settings, late, ran, saves>>

-----------------------------------------------------------------------------
(* revise_auto_route *)

\* The route is cloned; the level or the model is taken from the user.
Revises(c) ==
  /\ command[c].at = "idle"
  /\ \E route \in pending, t \in Targets :
       /\ Fresh(route)
       /\ route.revision < MaxShown
       /\ route \in shown
       /\ command' = [command EXCEPT ![c] = [at |-> "revising", route |-> route, want |-> t]]
  /\ UNCHANGED <<settings, pending, late, shown, ran, saves>>

\* choose_target without a fallback.
Rechooses(c) ==
  /\ command[c].at = "revising"
  /\ \E r \in Chosen(command[c].route, {command[c].want}) :
       command' = [command EXCEPT ![c] =
         IF Fresh(r) THEN [@ EXCEPT !.at = "revised", !.route = [r EXCEPT !.revision = @ + 1]]
         ELSE NoCommand]
  /\ UNCHANGED <<settings, pending, late, shown, ran, saves>>

\* Mutant: the revision was compared when the command began.
PresentOnly(id, revision) == Pending(id) # {}

\* Under the mutex of the routes: the route is still there, at the revision that the
\* command was given.
Unchanged(id, revision) == \E r \in Pending(id) : r.revision = revision

ShowsRevised(c) ==
  /\ command[c].at = "revised"
  /\ LET route == command[c].route
     IN IF Unchanged(route.id, route.revision - 1)
        THEN /\ pending' = (pending \ Pending(route.id)) \cup {route}
             /\ shown' = shown \cup {route}
        ELSE UNCHANGED <<pending, shown>>
  /\ command' = [command EXCEPT ![c] = NoCommand]
  /\ UNCHANGED <<settings, late, ran, saves>>

-----------------------------------------------------------------------------
(* create_routed_task with Auto: consume_route *)

Runnable(route) == route.target # NoTarget /\ ~planning_reason(route.assessment)

\* The user starts what a preview showed: the route is cloned and compared with the
\* request and with the revision of the preview.
Consumes(c) ==
  /\ command[c].at = "idle"
  /\ \E seen \in shown : \E route \in Pending(seen.id) :
       /\ Fresh(route)
       /\ route.revision = seen.revision
       /\ Runnable(route)
       /\ command' = [command EXCEPT ![c] =
            [at |-> "validating", route |-> route, want |-> NoTarget]]
  /\ UNCHANGED <<settings, pending, late, shown, ran, saves>>

\* target_status awaits the provider; the route may have become old meanwhile.
TargetValid(c) ==
  /\ command[c].at = "validating"
  /\ \E ok \in BOOLEAN :
       command' = [command EXCEPT ![c] =
         IF ok /\ Fresh(command[c].route) THEN [@ EXCEPT !.at = "valid"] ELSE NoCommand]
  /\ UNCHANGED <<settings, pending, late, shown, ran, saves>>

\* The route is removed, and a task is created with the target of the clone.
Creates(c) ==
  /\ command[c].at = "valid"
  /\ LET route == command[c].route
     IN IF Unchanged(route.id, route.revision)
        THEN /\ pending' = pending \ Pending(route.id)
             /\ ran' = [ran EXCEPT ![route.id] = Append(@, route)]
        ELSE UNCHANGED <<pending, ran>>
  /\ command' = [command EXCEPT ![c] = NoCommand]
  /\ UNCHANGED <<settings, late, shown, saves>>

-----------------------------------------------------------------------------
RoutesNext ==
  \/ set_auto_settings
  \/ \E id \in Routes : TenMinutes(id)
  \/ \E c \in Commands :
       \/ Previews(c) \/ ReadsSettings(c) \/ Assesses(c) \/ Chooses(c) \/ Shows(c)
       \/ Revises(c) \/ Rechooses(c) \/ ShowsRevised(c)
       \/ Consumes(c) \/ TargetValid(c) \/ Creates(c)

-----------------------------------------------------------------------------
(* Properties *)

\* A task runs what its user saw: a route is used at most once, and only one preview was
\* ever shown with its id and revision, the one the task was created from; that preview
\* named a target and needed no plan, whatever overrides were tried on it.
RunsWhatWasShown ==
  \A id \in Routes :
    /\ Len(ran[id]) <= 1
    /\ \A i \in 1..Len(ran[id]) :
         /\ {p \in shown : p.id = id /\ p.revision = ran[id][i].revision} = {ran[id][i]}
         /\ ran[id][i].target # NoTarget
         /\ ran[id][i].assessment # "plan"

\* Repeated clicks do not pile up runnable duplicates: a project has one route that can
\* still be started, and the routes are at most as many as the code allows.
OneRoutePerProject ==
  /\ Cardinality(pending) <= MaxPending
  /\ \A r, s \in pending : r.project = s.project => r = s
=============================================================================
