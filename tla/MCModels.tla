------------------------------ MODULE MCModels ------------------------------
(* An instance of Models for TLC: the answers of a model, and three plans.     *)
EXTENDS Models, TLC

CONSTANTS task1, task2, task3   \* the tasks of the plans

\* A tool that needs an approval with one that follows it, one that needs two rounds,
\* tools of the allowlist, and one that is never eligible.
MCReplies == {<<"outside", "look">>, <<"outside">>, <<"replace", "never">>, <<"listed">>}

Block(kind, parts) == [kind |-> kind, parts |-> parts]

\* Calls that are streamed at the same time, a call without arguments, thinking.
MCAnswers == {<<Block("text", 1), Block("call", 2), Block("call", 1)>>,
              <<Block("thinking", 2), Block("call", 0), Block("text", 1)>>,
              <<Block("refusal", 1), Block("thinking", 1), Block("call", 1)>>}

Plan(x, y, z) == [t \in Tasks |-> CASE t = task1 -> x [] t = task2 -> y [] OTHER -> z]

\* A task that joins two, a chain, and one that is given the same work twice.
MCPlans == {Plan({}, {}, {task1, task2}), Plan({}, {task1}, {task2}), Plan({}, {task1}, {task1, task2})}

\* Editors, Commands, Users and Askers are one set here, Routes and Approvals another, for
\* a run is a run of one part: the symmetry group stays small.
Sym == Permutations(Commands) \cup Permutations(Routes) \cup Permutations(Projects)
=============================================================================
