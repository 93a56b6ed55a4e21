---------------------------- MODULE TaskLifecycle ----------------------------
(***************************************************************************)
(* The life of a task as the user of the chat is promised it: described,   *)
(* split into steps, every step completed, reviewed, sent back a bounded   *)
(* number of times, finished.  TaskMachine.tla is the code that does it.   *)
(***************************************************************************)
EXTENDS Naturals

CONSTANTS
    Steps,          \* numbers of steps
    Absent,         \* no task
    MaxRetries      \* MAX_REVIEW_COUNT

VARIABLES
    phase,          \* the state of the task
    open,           \* its steps that are not completed
    retries         \* how often a step was sent back

vars == <<phase, open, retries>>

Init ==
    /\ phase = Absent
    /\ open = {}
    /\ retries = 0

Move(from, to) ==
    /\ phase = from /\ phase' = to
    /\ UNCHANGED <<open, retries>>

Decompose(steps) ==
    /\ phase = "planning"
    /\ open' = steps
    /\ UNCHANGED <<phase, retries>>

Complete(k) ==
    /\ phase = "execution" /\ k \in open
    /\ open' = open \ {k}
    /\ UNCHANGED <<phase, retries>>

SendBack ==
    /\ phase = "verification" /\ open = {} /\ retries < MaxRetries
    /\ retries' = retries + 1
    /\ UNCHANGED <<phase, open>>

Reopen(k) ==
    /\ phase = "verification" /\ open = {} /\ retries > 0
    /\ open' = {k}
    /\ UNCHANGED <<phase, retries>>

Clear ==
    /\ phase = "done"
    /\ phase' = Absent
    /\ open' = {}
    /\ retries' = 0

Next ==
    \/ Move(Absent, "init")
    \/ Move("init", "planning")
    \/ \E steps \in SUBSET Steps : Decompose(steps)
    \/ open # {} /\ Move("planning", "execution")
    \/ \E k \in Steps : Complete(k) \/ Reopen(k)
    \/ open = {} /\ Move("execution", "verification")
    \/ SendBack
    \/ open # {} /\ Move("verification", "execution")
    \/ open = {} /\ Move("verification", "done")
    \/ Clear

Spec == Init /\ [][Next]_vars
=============================================================================
