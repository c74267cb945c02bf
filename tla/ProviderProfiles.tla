-------------------------- MODULE ProviderProfiles --------------------------
(* The profiles of the API providers: their rows in the Store, the registry   *)
(* of connections in memory, the probe that decides whether a model may be a  *)
(* worker, and the worker that relies on it. A profile has a revision; its    *)
(* row is replaced by the next revision only. Every command awaits the        *)
(* provider or a lock between the looks it takes at the store.                *)
EXTENDS Naturals, Sequences

CONSTANTS
  Profiles,      \* ids of profiles
  Spark,         \* the built-in local profile, which has commands of its own
  Models,        \* ids of models
  Editors,       \* invocations of set_provider_profile
  Probes,        \* invocations of run_provider_tool_canary
  Jobs,          \* jobs of a workflow that take an API model
  MaxRevision,   \* bound: revisions of a profile
  MaxRestarts    \* bound: restarts of the application

ASSUME SparkAssumption == Spark \in Profiles
ASSUME ModelsAssumption == Models # {}
ASSUME RevisionAssumption == MaxRevision \in Nat \ {0} /\ MaxRestarts \in Nat

VARIABLES
  saved,     \* provider_profiles: [id -> the `enabled' of each revision so far]
  registry,  \* ProviderRegistry.profiles: [id -> revision and `enabled']
  link,      \* ProviderRegistry.transports: [id -> revision it was built from, 0: none]
  editor, probe, worker,   \* where each command is
  passes,    \* settings provider_tool_canary:<id>:<revision>:<model>
  answered,  \* history: <<id, revision of the connection, model>> that answered a probe
  restarts

profileVars == <<saved, registry, link, editor, probe, worker, passes, answered, restarts>>

-----------------------------------------------------------------------------
Revisions == 0..MaxRevision

NoEdit == [at |-> "idle", id |-> Spark, revision |-> 0, on |-> FALSE]

NoProbe == [at |-> "idle", id |-> Spark, revision |-> 0, link |-> 0, model |-> CHOOSE m \in Models : TRUE]

ProfilesType ==
  /\ \A id \in Profiles : saved[id] \in Seq(BOOLEAN) /\ Len(saved[id]) <= MaxRevision
  /\ registry \in [Profiles -> [revision : Revisions, on : BOOLEAN]]
  /\ link \in [Profiles -> Revisions]
  /\ editor \in [Editors -> [at : {"idle", "open", "checking", "checked", "stored"},
                             id : Profiles, revision : Revisions, on : BOOLEAN]]
  /\ probe \in [Probes -> [at : {"idle", "profile", "asking", "supported"}, id : Profiles,
                           revision : Revisions, link : Revisions, model : Models]]
  /\ worker \in [Jobs -> [at : {"idle", "asking", "listed", "eligible", "running"}, id : Profiles,
                             revision : Revisions, link : Revisions, model : Models]]
  /\ passes \subseteq Profiles \X Revisions \X Models
  /\ answered \subseteq Profiles \X Revisions \X Models
  /\ restarts \in 0..MaxRestarts

\* ProviderRegistry::insert: a connection is built for a profile that is enabled.
Connected(id, revision, on) == IF on THEN [link EXCEPT ![id] = revision]
                               ELSE [link EXCEPT ![id] = 0]

Row(id) == IF saved[id] = <<>> THEN [revision |-> 0, on |-> FALSE]
           ELSE [revision |-> Len(saved[id]), on |-> saved[id][Len(saved[id])]]

\* ensure_builtin_profiles has saved the local profile; from_profiles has built the
\* registry from the rows.
ProfilesInit ==
  /\ saved = [id \in Profiles |-> IF id = Spark THEN <<TRUE>> ELSE <<>>]
  /\ registry = [id \in Profiles |-> Row(id)]
  /\ link = [id \in Profiles |-> IF id = Spark THEN 1 ELSE 0]
  /\ editor = [e \in Editors |-> NoEdit]
  /\ probe = [p \in Probes |-> NoProbe]
  /\ worker = [w \in Jobs |-> NoProbe]
  /\ passes = {} /\ answered = {} /\ restarts = 0

-----------------------------------------------------------------------------
(* set_provider_profile *)

\* The settings screen shows a profile; the form carries the next revision.
OpensForm(e) ==
  /\ editor[e].at = "idle"
  /\ \E id \in Profiles \ {Spark}, on \in BOOLEAN :
       /\ Len(saved[id]) < MaxRevision
       /\ editor' = [editor EXCEPT ![e] =
                       [at |-> "open", id |-> id, revision |-> Len(saved[id]) + 1, on |-> on]]
  /\ UNCHANGED <<saved, registry, link, probe, worker, passes, answered, restarts>>

\* The revision of the form must follow the row.
Follows(e) == editor[e].revision = Len(saved[editor[e].id]) + 1

\* Mutant: the revision was compared when the command began.
FollowedOnce(e) == editor[e].revision > 0

\* save_provider_profile, under the mutex of the store that the second comparison
\* holds: the same comparison again.
MaySave(e) == Follows(e)

\* The row becomes that of the form's revision.
Saves(e) ==
  [saved EXCEPT ![editor[e].id] = SubSeq(@, 1, editor[e].revision - 1) \o <<editor[e].on>>]

\* An enabled profile is tried before it is saved.
Submits(e) ==
  /\ editor[e].at = "open"
  /\ editor' = [editor EXCEPT ![e] =
       IF ~Follows(e) THEN NoEdit
       ELSE [@ EXCEPT !.at = IF editor[e].on THEN "checking" ELSE "checked"]]
  /\ UNCHANGED <<saved, registry, link, probe, worker, passes, answered, restarts>>

\* The new connection lists its models, or fails and nothing is saved.
Lists(e) ==
  /\ editor[e].at = "checking"
  /\ \E ok \in BOOLEAN :
       editor' = [editor EXCEPT ![e] = IF ok THEN [@ EXCEPT !.at = "checked"] ELSE NoEdit]
  /\ UNCHANGED <<saved, registry, link, probe, worker, passes, answered, restarts>>

\* Mutant: the connection is taken into use before the row is saved.
StoreConnects(e) ==
  /\ editor[e].at = "checked"
  /\ registry' = [registry EXCEPT ![editor[e].id] =
                    [revision |-> editor[e].revision, on |-> editor[e].on]]
  /\ IF MaySave(e)
     THEN /\ saved' = Saves(e)
          /\ editor' = [editor EXCEPT ![e].at = "stored"]
     ELSE /\ editor' = [editor EXCEPT ![e] = NoEdit]
          /\ UNCHANGED saved
  /\ UNCHANGED <<link, probe, worker, passes, answered, restarts>>

Stores(e) ==
  /\ editor[e].at = "checked"
  /\ IF MaySave(e)
     THEN /\ saved' = Saves(e)
          /\ editor' = [editor EXCEPT ![e].at = "stored"]
     ELSE /\ editor' = [editor EXCEPT ![e] = NoEdit]
          /\ UNCHANGED saved
  /\ UNCHANGED <<registry, link, probe, worker, passes, answered, restarts>>

\* The write lock of the registry is awaited after the store is free again, so two
\* commands may insert in the other order.
Inserts(e) ==
  /\ editor[e].at = "stored"
  /\ registry' = [registry EXCEPT ![editor[e].id] =
                    [revision |-> editor[e].revision, on |-> editor[e].on]]
  /\ link' = Connected(editor[e].id, editor[e].revision, editor[e].on)
  /\ editor' = [editor EXCEPT ![e] = NoEdit]
  /\ UNCHANGED <<saved, probe, worker, passes, answered, restarts>>

\* set_local_model_settings: the row of the local profile gets its next revision; the
\* registry keeps the connection that the application started with.
LocalSettings ==
  /\ Len(saved[Spark]) < MaxRevision
  /\ saved' = [saved EXCEPT ![Spark] = Append(@, TRUE)]
  /\ UNCHANGED <<registry, link, editor, probe, worker, passes, answered, restarts>>

-----------------------------------------------------------------------------
(* run_provider_tool_canary: every profile here is one that needs the probe *)

\* The profile is cloned under one read lock.
ProbeBegins(p) ==
  /\ probe[p].at = "idle"
  /\ \E id \in Profiles, m \in Models :
       /\ registry[id].revision > 0
       /\ probe' = [probe EXCEPT ![p] =
            [at |-> "profile", id |-> id, revision |-> registry[id].revision,
             link |-> 0, model |-> m]]
  /\ UNCHANGED <<saved, registry, link, editor, worker, passes, answered, restarts>>

\* The connection is taken under another: it may be that of another revision.
ProbeConnects(p) ==
  /\ probe[p].at = "profile"
  /\ probe' = [probe EXCEPT ![p] =
       IF link[probe[p].id] = 0 THEN NoProbe
       ELSE [@ EXCEPT !.at = "asking", !.link = link[probe[p].id]]]
  /\ UNCHANGED <<saved, registry, link, editor, worker, passes, answered, restarts>>

\* The model is listed and calls the tool, or the probe ends.
ProbeAnswered(p) ==
  /\ probe[p].at = "asking"
  /\ \/ /\ probe' = [probe EXCEPT ![p].at = "supported"]
        /\ answered' = answered \cup {<<probe[p].id, probe[p].link, probe[p].model>>}
     \/ /\ probe' = [probe EXCEPT ![p] = NoProbe]
        /\ UNCHANGED answered
  /\ UNCHANGED <<saved, registry, link, editor, worker, passes, restarts>>

ProbeRecords(p) ==
  /\ probe[p].at = "supported"
  /\ passes' = passes \cup {<<probe[p].id, probe[p].revision, probe[p].model>>}
  /\ probe' = [probe EXCEPT ![p] = NoProbe]
  /\ UNCHANGED <<saved, registry, link, editor, worker, answered, restarts>>

-----------------------------------------------------------------------------
(* validate_worker_target when a manifest is imported, and api_worker when its step runs *)

Validates(w) ==
  /\ worker[w].at = "idle"
  /\ \E id \in Profiles, m \in Models :
       /\ link[id] # 0
       /\ worker' = [worker EXCEPT ![w] =
            [at |-> "asking", id |-> id, revision |-> 0, link |-> link[id], model |-> m]]
  /\ UNCHANGED <<saved, registry, link, editor, probe, passes, answered, restarts>>

\* The model is in the list of the connection, with the effort, or it is not.
Listed(w) ==
  /\ worker[w].at = "asking"
  /\ \E ok \in BOOLEAN :
       worker' = [worker EXCEPT ![w] = IF ok THEN [@ EXCEPT !.at = "listed"] ELSE NoProbe]
  /\ UNCHANGED <<saved, registry, link, editor, probe, passes, answered, restarts>>

\* tool_canary_passed for the profile that the registry has now.
CanaryPassed(id, m) == <<id, registry[id].revision, m>> \in passes

Eligible(w) ==
  /\ worker[w].at = "listed"
  /\ worker' = [worker EXCEPT ![w] =
       IF CanaryPassed(worker[w].id, worker[w].model)
       THEN [@ EXCEPT !.at = "eligible", !.revision = registry[worker[w].id].revision]
       ELSE NoProbe]
  /\ UNCHANGED <<saved, registry, link, editor, probe, passes, answered, restarts>>

\* The step runs with the profile and the connection of that moment, taken under one
\* read lock.
Runs(w) ==
  /\ worker[w].at = "eligible"
  /\ worker' = [worker EXCEPT ![w] =
       IF link[worker[w].id] = 0 THEN NoProbe
       ELSE [@ EXCEPT !.at = "running", !.link = link[worker[w].id],
                      !.revision = registry[worker[w].id].revision]]
  /\ UNCHANGED <<saved, registry, link, editor, probe, passes, answered, restarts>>

Ends(w) ==
  /\ worker[w].at = "running"
  /\ worker' = [worker EXCEPT ![w] = NoProbe]
  /\ UNCHANGED <<saved, registry, link, editor, probe, passes, answered, restarts>>

-----------------------------------------------------------------------------
\* The application stops and starts: the registry is built from the rows.
RestartProfiles ==
  /\ restarts < MaxRestarts
  /\ restarts' = restarts + 1
  /\ registry' = [id \in Profiles |-> Row(id)]
  /\ link' = [id \in Profiles |-> IF Row(id).on THEN Row(id).revision ELSE 0]
  /\ editor' = [e \in Editors |-> NoEdit]
  /\ probe' = [p \in Probes |-> NoProbe]
  /\ worker' = [w \in Jobs |-> NoProbe]
  /\ UNCHANGED <<saved, passes, answered>>

ProfilesNext ==
  \/ \E e \in Editors : OpensForm(e) \/ Submits(e) \/ Lists(e) \/ Stores(e) \/ Inserts(e)
  \/ \E p \in Probes : ProbeBegins(p) \/ ProbeConnects(p) \/ ProbeAnswered(p) \/ ProbeRecords(p)
  \/ \E w \in Jobs : Validates(w) \/ Listed(w) \/ Eligible(w) \/ Runs(w) \/ Ends(w)
  \/ LocalSettings \/ RestartProfiles

-----------------------------------------------------------------------------
(* Properties *)

\* What is in use was saved: the profile of the registry is a revision that the store
\* has, with the content it has there, whatever commands are between their look at the
\* row, the provider and the write lock; a connection is one of an enabled revision,
\* and is never newer than the profile it is kept with.
ConnectionsAreSaved ==
  /\ \A id \in Profiles :
       /\ registry[id].revision > 0 =>
            /\ registry[id].revision <= Len(saved[id])
            /\ saved[id][registry[id].revision] = registry[id].on
       /\ link[id] # 0 => registry[id] = [revision |-> link[id], on |-> TRUE]
  /\ \A w \in Jobs : worker[w].at = "running" => saved[worker[w].id][worker[w].link]

\* docs/API_PROVIDERS.md:28, "A generic OpenAI-compatible model becomes eligible for
\* the full worker only after the user explicitly runs the billed tool canary and it
\* succeeds for that exact profile revision and model": what a worker runs with has
\* answered the probe. The code looks at the canary once, before the first step.
RunsWithProbed ==
  \A w \in Jobs :
    worker[w].at = "running" => <<worker[w].id, worker[w].link, worker[w].model>> \in answered
=============================================================================
