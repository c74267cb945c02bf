---------------------------- MODULE ContextBroker ----------------------------
(* The retrievals of context by a worker (hub-context): each is checked        *)
(* against the budget of the task, waits for its source, and is committed. A   *)
(* worker may ask several times at once, and a hub that starts again attaches  *)
(* another broker to the same thread: the store has the budget.                *)
EXTENDS Naturals

CONSTANTS
  Lookups,     \* retrievals that may be under way
  MaxTotal,    \* max_total_tokens of the capsule, in units
  MaxSingle,   \* max_single_retrieval_tokens
  MaxLookups   \* bound: retrievals of the task

ASSUME BudgetAssumption == MaxTotal \in Nat /\ MaxSingle \in 1..MaxTotal
ASSUME LookupAssumption == MaxLookups \in Nat

VARIABLES
  capsule,    \* the tokens of the initial capsule; 0 when there is none
  lookup,     \* where a retrieval is, and the tokens it asks for
  spent,      \* tokens of the committed retrievals
  begun

brokerVars == <<capsule, lookup, spent, begun>>

-----------------------------------------------------------------------------
NoLookup == [at |-> "idle", budget |-> 0]

BrokerType ==
  /\ capsule \in 0..MaxTotal
  /\ lookup \in [Lookups -> [at : {"idle", "source", "finish", "denied"}, budget : 0..(MaxSingle + 1)]]
  /\ spent \in Nat /\ begun \in 0..MaxLookups

BrokerInit ==
  /\ capsule = 0
  /\ lookup = [c \in Lookups |-> NoLookup]
  /\ spent = 0 /\ begun = 0

\* prepare_capsule, build_initial: the initial budget is at most the total.
BuildsInitial ==
  /\ capsule = 0
  /\ capsule' \in 1..MaxTotal
  /\ UNCHANGED <<lookup, spent, begun>>

\* inspect: what is left of the budget now.
Fits(budget) == budget <= MaxSingle /\ budget <= MaxTotal - (capsule + spent)

\* retrieve_async, retrieve_inner: the check comes before the source is asked.
Retrieves(c) ==
  /\ capsule > 0 /\ begun < MaxLookups
  /\ lookup[c].at = "idle"
  /\ \E budget \in 1..(MaxSingle + 1) :
       lookup' = [lookup EXCEPT ![c] = [at |-> IF Fits(budget) THEN "source" ELSE "denied", budget |-> budget]]
  /\ begun' = begun + 1
  /\ UNCHANGED <<capsule, spent>>

\* A file, a decision, a session, a task, or the memory; or an error of one of them.
Finds(c) ==
  /\ lookup[c].at = "source"
  /\ \E at \in {"finish", "denied"} : lookup' = [lookup EXCEPT ![c].at = at]
  /\ UNCHANGED <<capsule, spent, begun>>

\* finish: the text is cut until it fits what was asked for.
Estimates(c) == 1..lookup[c].budget

\* Mutant: what was checked before the source was asked still holds.
CommitsChecked(estimate) == TRUE

\* commit_retrieval: one transaction sums up and inserts.
Commits(estimate) == capsule + spent + estimate <= MaxTotal

CommitsLookup(c) ==
  /\ lookup[c].at = "finish"
  /\ \E estimate \in Estimates(c) :
       IF Commits(estimate)
       THEN /\ spent' = spent + estimate
            /\ lookup' = [lookup EXCEPT ![c] = NoLookup]
       ELSE /\ lookup' = [lookup EXCEPT ![c].at = "denied"]
            /\ UNCHANGED spent
  /\ UNCHANGED <<capsule, begun>>

\* record_retrieval_denial
Denies(c) ==
  /\ lookup[c].at = "denied"
  /\ lookup' = [lookup EXCEPT ![c] = NoLookup]
  /\ UNCHANGED <<capsule, spent, begun>>

\* The hub stops: what was under way is lost.
BrokerStops ==
  /\ \E c \in Lookups : lookup[c].at # "idle"
  /\ lookup' = [c \in Lookups |-> NoLookup]
  /\ UNCHANGED <<capsule, spent, begun>>

BrokerNext ==
  \/ BuildsInitial \/ BrokerStops
  \/ \E c \in Lookups : Retrieves(c) \/ Finds(c) \/ CommitsLookup(c) \/ Denies(c)

-----------------------------------------------------------------------------
(* Properties *)

\* What a task was given, at first and in all its retrievals, is within its budget,
\* however many of them were checked before the first was committed.
BudgetIsKept == capsule + spent <= MaxTotal
=============================================================================
