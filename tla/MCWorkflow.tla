------------------------------ MODULE MCWorkflow ------------------------------
(* Instances of ManifestWorkflow for TLC: plans whose steps form a chain, and *)
(* the providers of their steps.                                             *)
EXTENDS ManifestWorkflow, TLC

CONSTANTS r1, r2, c1, c2, m1, free, noId

Chain == [i \in 1..N |-> IF i = 1 THEN {} ELSE {i - 1}]

AllCodex   == [i \in 1..N |-> "codex"]
CodexFirst == [i \in 1..N |-> IF i = 1 THEN "codex" ELSE "api"]

\* Runners are interchangeable, and so are command invocations.
Symmetry == Permutations({r1, r2}) \cup Permutations({c1, c2})
===============================================================================
