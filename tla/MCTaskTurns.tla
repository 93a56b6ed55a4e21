---------------------------- MODULE MCTaskTurns ----------------------------
(***************************************************************************)
(* One chat, one turn after another.  In a calm chat only the buttons of   *)
(* the last answer are pressed and no turn is cut off; in the others any   *)
(* button ever shown may be pressed and a turn may be cut off anywhere.    *)
(***************************************************************************)
EXTENDS TaskMachine

VARIABLE calm       \* which of the two chats this is; it never changes

turnVars == <<vars, calm>>

(* Bounds of a chat that is not calm: plans of one step, or of none with a *)
(* number below 0; buttons for two steps; two reworks.                     *)
OneStepPlans ==
    \A j \in Jobs : \A i \in DOMAIN job[j].todo :
        LET plan == job[j].todo[i].val IN
        job[j].todo[i].key = "planning" => plan.total = IF plan.size = 0 THEN -1 ELSE 1

TwoButtons == \A j \in Jobs : job[j].act.step <= 2

TwoReworks ==
    \A j \in Jobs :
        Reviewed /\ job[j].pc = "click" /\ job[j].act.step > 0
            => facts.verification.retry < 2

CalmNext ==
    \E j \in Jobs :
        \/ StartMessage(j)
        \/ \E a \in Buttons : StartPress(j, a, FALSE)
        \/ Step(j)

TurnInit == Init /\ calm \in BOOLEAN

TurnNext ==
    /\ IF calm THEN CalmNext ELSE Next /\ (OneStepPlans /\ TwoButtons /\ TwoReworks)'
    /\ UNCHANGED calm

TurnFairness == \A j \in Jobs : WF_turnVars(Step(j) /\ UNCHANGED calm)

TurnSpec == TurnInit /\ [][TurnNext]_turnVars /\ TurnFairness

-----------------------------------------------------------------------------
(* In a calm chat the work rests on an accepted plan, and no step is       *)
(* claimed without its result or sent back without its feedback            *)
(* (handleUserAction of the handlers, makeCurStepCompleted).               *)
CalmWorkIsGrounded == calm => PlanBeforeExecution /\ NoStepUnexplained

(* In a calm chat the facts go through the life of a task.                 *)
CalmLifecycle ==
    INSTANCE TaskLifecycle WITH
        MaxRetries <- MAX_REVIEW_COUNT,
        phase <- IF calm THEN facts.state ELSE Absent,
        open <- IF calm /\ Plan # Absent THEN Uncompleted(Plan) ELSE {},
        retries <- IF calm /\ Reviewed THEN facts.verification.retry ELSE 0

ImplementsLifecycle == CalmLifecycle!Spec
=============================================================================
