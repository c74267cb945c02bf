------------------------------- MODULE MCApi -------------------------------
(* Instance of ApiSession for TLC: callers are interchangeable. What is left *)
(* in the variables of a task that is over is not looked at any more, but    *)
(* for a failure that the store did not take.                                *)
EXTENDS ApiSession, TLC

CallerSymmetry == Permutations(Callers)

ApiView ==
  <<store, running, owner, task, aborted, pc, mine, issued, crashes,
    [t \in Turns |->
       IF task[t] \in Live \/ result[t] = "unrecorded" THEN result[t] ELSE "none"],
    [t \in Turns |-> IF task[t] \in Live \cup {"none"} THEN history[t] ELSE 0]>>

=============================================================================
