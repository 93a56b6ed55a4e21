----------------------------- MODULE TaskMachine -----------------------------
(***************************************************************************)
(* TaskWorker and the five state handlers of a task: INIT, PLANNING,       *)
(* EXECUTION, VERIFICATION, DONE.                                          *)
(*                                                                         *)
(* Every message and every button press of a chat runs in a coroutine of   *)
(* its own (viewModelScope.launch) and nothing serialises them: a job.     *)
(* The jobs of a chat share the facts of its agent in the StateStore,      *)
(* which FactStore.tla describes.  A job suspends when it writes a fact    *)
(* and when it calls the LLM; the reads between two suspensions find the   *)
(* cache warm and are one step with the code around them.  The writes a    *)
(* step decides on wait in todo and are committed one by one.              *)
(***************************************************************************)
EXTENDS Integers, Sequences

CONSTANTS
    Jobs,           \* coroutines of one chat
    MaxSteps,       \* bound: steps of a plan
    MaxReworks,     \* bound: reworks the user asks for with old buttons
    Absent,         \* no fact under the key
    Overlap,        \* may a job start before the others have ended?
    OldButtons,     \* may buttons of earlier messages be pressed?  The chat has
                    \* an earlier task in it then, so every button is there
    Interrupts      \* may the scope be cancelled, or the process die?

ASSUME TaskAssumption ==
    /\ MaxSteps \in Nat \ {0}
    /\ MaxReworks \in Nat
    /\ {Overlap, OldButtons, Interrupts} \subseteq BOOLEAN

VARIABLES
    facts,          \* the facts of the agent
    fresh,          \* buttons of the last answer of the bot
    job             \* where each coroutine is

vars == <<facts, fresh, job>>

Steps == 1 .. MaxSteps

MAX_REVIEW_COUNT == 2

States == {"init", "planning", "execution", "verification", "done"}

(* A button: the name and, after ":", the step of its actionId.            *)
Button(name, k) == [name |-> name, step |-> k]

Buttons ==
    [name : {"proceed_to_planning", "proceed_to_execution", "proceed_to_next",
             "proceed_to_done", "proceed_to_complete"}, step : {0}]
        \cup [name : {"proceed_to_execution"}, step : Steps]

NoButton == Button("none", 0)

(* Mutant of HandlerOf: EXECUTION takes the buttons of VERIFICATION.       *)
HandlerOfWide(a) ==
    CASE a.name = "proceed_to_planning" -> "init"
      [] a.name = "proceed_to_execution" /\ a.step = 0 -> "planning"
      [] a.name = "proceed_to_complete" -> "done"
      [] OTHER -> "execution"

(* The state whose handler knows the action.                               *)
HandlerOf(a) ==
    CASE a.name = "proceed_to_planning" -> "init"
      [] a.name = "proceed_to_execution" /\ a.step = 0 -> "planning"
      [] a.name = "proceed_to_next" -> "execution"
      [] a.name = "proceed_to_complete" -> "done"
      [] OTHER -> "verification"

-----------------------------------------------------------------------------
(* The data of the states.  Texts are reduced to what the handlers test:   *)
(* whether the four texts of INIT are there, which steps a plan has and    *)
(* which are completed, whether a step has a result, which steps a review  *)
(* names and which of them carry feedback.                                 *)
InitData == [filled : BOOLEAN]

(* What a plan may say it has: -1 stands for every number below 0, and     *)
(* MaxSteps + 1 for every one above MaxSteps.                              *)
Totals == -1 .. MaxSteps + 1

PlanData == [total : Totals, size : 0 .. MaxSteps, done : SUBSET Steps]
ExecData == [result : BOOLEAN]
VerifData == [retry : Nat, seen : SUBSET Steps, feedback : SUBSET Steps]

OrAbsent(S) == S \cup {Absent}

ASSUME AbsentAssumption ==
    /\ Absent \notin States
    /\ Absent \notin InitData
    /\ Absent \notin PlanData
    /\ Absent \notin ExecData
    /\ Absent \notin VerifData

Facts ==
    [state : OrAbsent(States), step : 0 .. MaxSteps, total : 0 .. MaxSteps,
     init : OrAbsent(InitData), planning : OrAbsent(PlanData),
     execution : [0 .. MaxSteps -> OrAbsent(ExecData)],
     verification : OrAbsent(VerifData), done : BOOLEAN]

NoFacts ==
    [state |-> Absent, step |-> 0, total |-> 0, init |-> Absent,
     planning |-> Absent, execution |-> [k \in 0 .. MaxSteps |-> Absent],
     verification |-> Absent, done |-> FALSE]

(* A write: a fact to save, execution at a step, or everything to clear.   *)
Save(key, val) == [key |-> key, at |-> 0, val |-> val]
SaveStep(k, data) == [key |-> "execution", at |-> k, val |-> data]

ClearAll == [key |-> "all", at |-> 0, val |-> Absent]

After(f, w) ==
    CASE w.key = "all" -> NoFacts
      [] w.key = "execution" ->
            [f EXCEPT !.execution = [f.execution EXCEPT ![w.at] = w.val]]
      [] OTHER -> [f EXCEPT ![w.key] = w.val]

Uncompleted(plan) == 1 .. plan.size \ plan.done

(* Mutants of IsNextStep: the last step is never looked at; a step that is *)
(* completed is found again.                                               *)
IsNextButLast(plan, n) ==
    IF plan = Absent \/ 1 .. plan.size - 1 \subseteq plan.done
      THEN n = 0
      ELSE n \in Uncompleted(plan) /\ \A k \in Uncompleted(plan) : n <= k

IsFirstStep(plan, n) == n = IF plan = Absent THEN 0 ELSE 1

(* findNextUncompletedStep: the first of them, 0 when there is none.       *)
IsNextStep(plan, n) ==
    IF plan = Absent \/ Uncompleted(plan) = {}
      THEN n = 0
      ELSE n \in Uncompleted(plan) /\ \A k \in Uncompleted(plan) : n <= k

-----------------------------------------------------------------------------
(* What the LLM may answer: these values of next, filled and approve, plans *)
(* that say they have so many steps, these results, reviews of these steps. *)
(* Any number is taken; the steps end with the first that is not complete. *)
Answer(nexts, filled, totals, results, steps, approve) ==
    {a \in [next : nexts, filled : filled, total : totals, size : 0 .. MaxSteps,
            result : results, seen : steps, low : steps, approve : approve] :
        (a.size > 0 => a.size <= a.total) /\ a.low \subseteq a.seen}

(* The answers to the prompt of state s: fields that the prompt does not   *)
(* ask for are not there, the others may be there or not.                  *)
Answers(s) ==
    CASE s = "init" ->
            Answer({Absent, "planning"}, BOOLEAN, {0}, {FALSE}, {{}}, BOOLEAN)
      [] s = "planning" ->
            Answer({Absent, "execution"}, {FALSE}, Totals, {FALSE}, {{}}, BOOLEAN)
      [] s = "execution" ->
            Answer({Absent, "execution"}, {FALSE}, {0}, BOOLEAN, {{}}, BOOLEAN)
      [] s = "verification" ->
            Answer({Absent}, {FALSE}, {0}, {FALSE}, SUBSET Steps, {FALSE})
      [] OTHER -> Answer({Absent}, {FALSE}, {0}, {FALSE}, {{}}, {FALSE})

-----------------------------------------------------------------------------
(* A job: pc is the place it has reached, todo the writes it has decided   *)
(* on, prompt whether its user message is not blank, act the action it     *)
(* carries out, above whether its button is on a message above the last,   *)
(* asked the state the LLM was prompted for, step the step the handler     *)
(* remembers, buttons those of the answer it is about to post.             *)
Idle ==
    [pc |-> "idle", todo |-> <<>>, prompt |-> FALSE, act |-> NoButton,
     above |-> FALSE, asked |-> Absent, step |-> 0, buttons |-> {}]

Places ==
    {"idle", "click", "press", "act", "feedback", "advance", "reopen",
     "prefill", "begin", "validate", "ask", "llm", "post"}

At(j, place) == job[j].pc = place /\ job[j].todo = <<>>

Writing(j, place, writes) ==
    [job[j] EXCEPT !.pc = place, !.todo = writes]

Init ==
    /\ facts = NoFacts
    /\ fresh = {}
    /\ job = [j \in Jobs |-> Idle]

(* The job saves the next fact, or clears them all.                        *)
Commit(j) ==
    /\ job[j].todo # <<>>
    /\ facts' = After(facts, Head(job[j].todo))
    /\ job' = [job EXCEPT ![j] = [job[j] EXCEPT !.todo = Tail(job[j].todo)]]
    /\ UNCHANGED fresh

(* handleUserAction ends with a wake-up of the LLM: doWork with a blank    *)
(* prompt, after the title of the new state is posted.                     *)
WakeAfter(j, writes) ==
    job' = [job EXCEPT ![j] = [Idle EXCEPT !.pc = "begin", !.todo = writes]]

(* A message of the bot with these buttons is now the last one of the      *)
(* chat; job j goes on as said.                                            *)
Posted(j, buttons, next) ==
    /\ fresh' = buttons
    /\ job' = [i \in Jobs |->
            IF i = j THEN next
            ELSE IF job[i].pc = "click" THEN [job[i] EXCEPT !.above = TRUE]
            ELSE job[i]]

End(j) == job' = [job EXCEPT ![j] = Idle]

-----------------------------------------------------------------------------
(* The user.                                                               *)
MayStart(j) ==
    /\ job[j].pc = "idle"
    /\ Overlap \/ \A i \in Jobs : job[i].pc = "idle"

StartMessage(j) ==
    /\ MayStart(j)
    /\ job' = [job EXCEPT ![j] = [Idle EXCEPT !.pc = "begin", !.prompt = TRUE]]
    /\ UNCHANGED <<facts, fresh>>

StartPress(j, a, above) ==
    /\ MayStart(j)
    /\ IF above THEN OldButtons ELSE a \in fresh
    /\ facts.verification # Absent /\ a.step > 0
        => facts.verification.retry < MaxReworks
    /\ job' = [job EXCEPT ![j] = [Idle EXCEPT !.pc = "click", !.act = a,
                                              !.above = above]]
    /\ UNCHANGED <<facts, fresh>>

(* HandleMessageButtonClickUseCase: the buttons of the message go grey.    *)
Click(j) ==
    /\ At(j, "click")
    /\ fresh' = IF job[j].above THEN fresh ELSE {}
    /\ job' = [job EXCEPT ![j] = [job[j] EXCEPT !.pc = "press", !.above = FALSE]]
    /\ UNCHANGED facts

(* handleAction: the handler of the current state gets the action.         *)
Press(j) ==
    /\ At(j, "press")
    /\ facts.state = HandlerOf(job[j].act)
    /\ job' = [job EXCEPT ![j] = Writing(j, "act", <<>>)]
    /\ UNCHANGED <<facts, fresh>>

(* There is no handler, or it does not know the action.                    *)
UnknownAction(j) ==
    /\ At(j, "press")
    /\ facts.state # HandlerOf(job[j].act)
    /\ End(j)
    /\ UNCHANGED <<facts, fresh>>

-----------------------------------------------------------------------------
(* handleUserAction of the handlers.                                       *)
Acts(j, name) == At(j, "act") /\ job[j].act.name = name

ProceedToPlanning(j) ==
    /\ Acts(j, "proceed_to_planning")
    /\ WakeAfter(j, <<Save("state", "planning")>>)
    /\ UNCHANGED <<facts, fresh>>

ProceedToExecution(j) ==
    /\ Acts(j, "proceed_to_execution") /\ job[j].act.step = 0
    /\ WakeAfter(j, <<Save("state", "execution"), Save("step", 1)>>)
    /\ UNCHANGED <<facts, fresh>>

(* Mutant of WithStep: the plan is rebuilt with this step completed only.  *)
WithOnlyStep(plan, k) == [plan EXCEPT !.done = {k} \cap 1 .. plan.size]

WithStep(plan, k) ==
    [plan EXCEPT !.done = plan.done \cup ({k} \cap 1 .. plan.size)]

(* makeCurStepCompleted: the plan, and then the feedback of the review.    *)
CompleteStep(j) ==
    LET plan == facts.planning IN
    /\ Acts(j, "proceed_to_next")
    /\ job' = [job EXCEPT ![j] =
            IF plan = Absent
              THEN Writing(j, "advance", <<>>)
              ELSE [Writing(j, "feedback",
                            <<Save("planning", WithStep(plan, facts.step))>>)
                    EXCEPT !.step = facts.step]]
    /\ UNCHANGED <<facts, fresh>>

(* Mutant of WithoutFeedback: the feedback of every step goes.             *)
NoFeedback(review, k) == [review EXCEPT !.feedback = {}]

WithoutFeedback(review, k) ==
    [review EXCEPT !.feedback = review.feedback \ {k}]

ClearFeedback(j) ==
    LET review == facts.verification IN
    /\ At(j, "feedback")
    /\ job' = [job EXCEPT ![j] = Writing(j, "advance",
            IF review = Absent \/ review.seen = {}
              THEN <<>>
              ELSE <<Save("verification", WithoutFeedback(review, job[j].step))>>)]
    /\ UNCHANGED <<facts, fresh>>

Advance(j) ==
    /\ At(j, "advance")
    /\ \E n \in 0 .. MaxSteps :
        /\ IsNextStep(facts.planning, n)
        /\ WakeAfter(j, <<Save("state", IF n = 0 THEN "verification" ELSE "execution"),
                          Save("step", n)>>)
    /\ UNCHANGED <<facts, fresh>>

ProceedToDone(j) ==
    /\ Acts(j, "proceed_to_done")
    /\ WakeAfter(j, <<Save("state", "done")>>)
    /\ UNCHANGED <<facts, fresh>>

BackToExecution(j, writes) ==
    WakeAfter(j, writes \o <<Save("state", "execution")>>)

(* makeExecutionStateUncompleted: one more retry, ...                      *)
Rework(j) ==
    LET review == facts.verification
        k == job[j].act.step
    IN
    /\ Acts(j, "proceed_to_execution") /\ k > 0
    /\ IF review = Absent
         THEN BackToExecution(j, <<>>)
         ELSE job' = [job EXCEPT ![j] =
                [Writing(j, "reopen", <<Save("verification",
                    [review EXCEPT !.retry = review.retry + 1])>>)
                 EXCEPT !.step = IF k \in review.seen THEN k ELSE 0]]
    /\ UNCHANGED <<facts, fresh>>

(* ... the step of the plan is open again, ...                             *)
Reopen(j) ==
    LET plan == facts.planning IN
    /\ At(j, "reopen")
    /\ IF plan = Absent
         THEN BackToExecution(j, <<>>)
         ELSE job' = [job EXCEPT ![j] = Writing(j, "prefill", <<Save("planning",
                [plan EXCEPT !.done = plan.done \ {job[j].act.step}])>>)]
    /\ UNCHANGED <<facts, fresh>>

(* ... and the feedback goes into the history of VERIFICATION at that      *)
(* step, which exists at step 1 only and is saved there.  The current step *)
(* is not set.                                                             *)
Prefill(j) ==
    /\ At(j, "prefill")
    /\ BackToExecution(j,
            IF job[j].step = 1 /\ facts.verification # Absent
              THEN <<Save("verification", facts.verification)>>
              ELSE <<>>)
    /\ UNCHANGED <<facts, fresh>>

(* The task is over: everything about it is cleared.                       *)
FinishTask(j) ==
    /\ Acts(j, "proceed_to_complete")
    /\ job' = [job EXCEPT ![j] = [Idle EXCEPT !.pc = "post", !.todo = <<ClearAll>>]]
    /\ UNCHANGED <<facts, fresh>>

-----------------------------------------------------------------------------
(* finalStates, and no state at all.                                       *)
IsFinal(s) == s \in {Absent, "done"}

(* doWork: a message to a finished task starts a new one, ...              *)
Begin(j) ==
    LET wake == ~job[j].prompt IN
    /\ At(j, "begin")
    /\ IF wake
         THEN Posted(j, {}, Writing(j, "validate", <<>>))
         ELSE /\ job' = [job EXCEPT ![j] =
                    Writing(j, "validate", IF IsFinal(facts.state) THEN <<ClearAll>> ELSE <<>>)]
              /\ UNCHANGED fresh
    /\ UNCHANGED facts

(* ... validateInitialState gives it a state, a step and data, ...         *)
Validate(j) ==
    /\ At(j, "validate")
    /\ job' = [job EXCEPT ![j] = Writing(j, "ask",
            IF facts.state = Absent
              THEN <<Save("state", "init"), Save("step", 1),
                     Save("init", [filled |-> FALSE])>>
              ELSE <<>>)]
    /\ UNCHANGED <<facts, fresh>>

(* ... and the LLM is asked with the prompt of the current state.          *)
Ask(j) ==
    /\ At(j, "ask")
    /\ job' = [job EXCEPT ![j] = [Idle EXCEPT !.pc = "llm", !.asked = facts.state]]
    /\ UNCHANGED <<facts, fresh>>

(* The call fails, the answer cannot be parsed, or no state is left to     *)
(* handle it (getState()!! throws): a message, and the job is over.        *)
LlmFails(j) ==
    /\ At(j, "llm")
    /\ End(j)
    /\ UNCHANGED <<facts, fresh>>

(* Mutant of Handled: the button is there whatever the answer lacks.       *)
HandledAnyway(j, writes, accepted, approve, a) ==
    job' = [job EXCEPT ![j] = [Idle EXCEPT !.pc = "post", !.todo = writes,
                                           !.buttons = {a}]]

(* The handler of the current state has saved its data: it goes on with    *)
(* action a when the user approved in words, or posts the reply.           *)
Handled(j, writes, accepted, approve, a) ==
    job' = [job EXCEPT ![j] =
        IF accepted /\ approve
          THEN [Idle EXCEPT !.pc = "act", !.todo = writes, !.act = a]
          ELSE [Idle EXCEPT !.pc = "post", !.todo = writes,
                            !.buttons = IF accepted THEN {a} ELSE {}]]

Answering(j, s) == At(j, "llm") /\ facts.state = s

HandleInit(j) ==
    /\ Answering(j, "init")
    /\ \E a \in Answers(job[j].asked) :
        LET accepted == a.next = "planning" /\ a.filled
            before == facts.init # Absent /\ facts.init.filled
        IN
        Handled(j, <<Save("init", [filled |-> before \/ accepted])>>, accepted,
                a.approve, Button("proceed_to_planning", 0))
    /\ UNCHANGED <<facts, fresh>>

(* The plan of the answer replaces the one that was there.                 *)
HandlePlanning(j) ==
    /\ Answering(j, "planning")
    /\ \E a \in Answers(job[j].asked) :
        LET accepted == a.next = "execution" /\ a.size > 0 /\ a.size = a.total
            plan == Save("planning", [total |-> a.total, size |-> a.size, done |-> {}])
        IN
        Handled(j, IF accepted THEN <<plan, Save("total", a.size)>> ELSE <<plan>>,
                accepted, a.approve, Button("proceed_to_execution", 0))
    /\ UNCHANGED <<facts, fresh>>

(* The result of the answer, or none, replaces the one that was there.     *)
HandleExecution(j) ==
    /\ Answering(j, "execution")
    /\ \E a \in Answers(job[j].asked) :
        Handled(j, <<SaveStep(facts.step, [result |-> a.result])>>,
                a.next = "execution" /\ a.result, a.approve,
                Button("proceed_to_next", 0))
    /\ UNCHANGED <<facts, fresh>>

(* The review replaces the one before, its retry count stays.  Each step   *)
(* with a low score gets a button while there are retries left.            *)
HandleVerification(j) ==
    LET review == facts.verification
        retry == IF review = Absent THEN 0 ELSE review.retry
    IN
    /\ Answering(j, "verification")
    /\ \E a \in Answers(job[j].asked) :
        LET seen == a.seen \cap 1 .. facts.total
            poor == IF retry < MAX_REVIEW_COUNT THEN a.low \cap seen ELSE {}
        IN
        job' = [job EXCEPT ![j] = [Idle EXCEPT
            !.pc = "post",
            !.todo = <<Save("verification",
                        [retry |-> retry, seen |-> seen, feedback |-> seen])>>,
            !.buttons = {Button("proceed_to_execution", k) : k \in poor}
                            \cup {Button("proceed_to_done", 0)}]]
    /\ UNCHANGED <<facts, fresh>>

HandleDone(j) ==
    /\ Answering(j, "done")
    /\ job' = [job EXCEPT ![j] =
            [Idle EXCEPT !.pc = "post", !.todo = <<Save("done", TRUE)>>,
                         !.buttons = {Button("proceed_to_complete", 0)}]]
    /\ UNCHANGED <<facts, fresh>>

Post(j) ==
    /\ At(j, "post")
    /\ Posted(j, job[j].buttons, Idle)
    /\ UNCHANGED facts

(* The scope of the jobs is cancelled, or the process dies: writes that    *)
(* were decided on and not made are never made.                            *)
Interrupt ==
    /\ Interrupts
    /\ job # [j \in Jobs |-> Idle]
    /\ job' = [j \in Jobs |-> Idle]
    /\ UNCHANGED <<facts, fresh>>

-----------------------------------------------------------------------------
Doing(j) ==
    \/ Click(j) \/ Press(j) \/ UnknownAction(j)
    \/ ProceedToPlanning(j) \/ ProceedToExecution(j)
    \/ CompleteStep(j) \/ ClearFeedback(j) \/ Advance(j)
    \/ ProceedToDone(j) \/ FinishTask(j)
    \/ Rework(j) \/ Reopen(j) \/ Prefill(j)

Talking(j) ==
    \/ Begin(j) \/ Validate(j) \/ Ask(j) \/ LlmFails(j)
    \/ HandleInit(j) \/ HandlePlanning(j) \/ HandleExecution(j)
    \/ HandleVerification(j) \/ HandleDone(j) \/ Post(j)

Step(j) == Commit(j) \/ Doing(j) \/ Talking(j)

Next ==
    \/ \E j \in Jobs :
        \/ StartMessage(j)
        \/ \E a \in Buttons, above \in BOOLEAN : StartPress(j, a, above)
        \/ Step(j)
    \/ Interrupt

(* A job that was started goes on: writes end, and the HTTP engine gives   *)
(* up a call whose connection is silent.  The user owes nothing.           *)
Fairness == \A j \in Jobs : WF_vars(Step(j))

Spec == Init /\ [][Next]_vars

FairSpec == Spec /\ Fairness

Write ==
    [key : {"state"}, at : {0}, val : States]
        \cup [key : {"step", "total"}, at : {0}, val : 0 .. MaxSteps]
        \cup [key : {"init"}, at : {0}, val : InitData]
        \cup [key : {"planning"}, at : {0}, val : PlanData]
        \cup [key : {"execution"}, at : 0 .. MaxSteps, val : ExecData]
        \cup [key : {"verification"}, at : {0}, val : VerifData]
        \cup [key : {"done"}, at : {0}, val : {TRUE}]
        \cup {ClearAll}

Job ==
    [pc : Places, todo : Seq(Write), prompt : BOOLEAN,
     act : Buttons \cup {NoButton}, above : BOOLEAN, asked : OrAbsent(States),
     step : 0 .. MaxSteps, buttons : SUBSET Buttons]

TypeOK ==
    /\ facts \in Facts
    /\ fresh \subseteq Buttons
    /\ job \in [Jobs -> Job]

-----------------------------------------------------------------------------
Reviewed == facts.verification # Absent

Plan == facts.planning

(* EXECUTION and what follows it rest on a task that is described and on a *)
(* plan that was accepted whole (the TODOs "check that the data are        *)
(* complete" of the handlers' handleUserAction).                           *)
PlanBeforeExecution ==
    facts.state \in {"execution", "verification", "done"} =>
        /\ facts.init # Absent /\ facts.init.filled
        /\ Plan # Absent /\ Plan.size > 0
        /\ Plan.size = Plan.total /\ Plan.size = facts.total

HasResult(f, k) == f.execution[k] # Absent /\ f.execution[k].result

(* A step is marked completed only when its result is saved                *)
(* (ExecutionStateHandler.handle and makeCurStepCompleted).                *)
CompletedHasResult ==
    Plan # Absent => \A k \in Plan.done : HasResult(facts, k)

(* A step that was sent back is worked on with the reviewer's feedback:    *)
(* makeCurStepCompleted drops the feedback of the step it completes and of *)
(* no other.                                                               *)
ReopenedHasFeedback ==
    facts.state = "execution" /\ Reviewed
        => Uncompleted(Plan) \subseteq facts.verification.feedback

(* Of no step the worker claims more than it can show: its result when it  *)
(* is completed, the reviewer's feedback when it was sent back.            *)
NoStepUnexplained == CompletedHasResult /\ ReopenedHasFeedback

(* Between facts f and g no work is lost: the reworks are still counted;   *)
(* the plan is there, and what was completed still is, unless the task is  *)
(* planned anew or one step is sent back; a result stays until the LLM     *)
(* answers for its step again.                                             *)
KeepsWork(f, g) ==
    /\ f.verification # Absent =>
          g.verification # Absent /\ g.verification.retry >= f.verification.retry
    /\ f.planning # Absent =>
          /\ g.planning # Absent
          /\ \/ f.planning.done \subseteq g.planning.done
             \/ f.state = "planning"
             \/ f.state = "verification"
                    /\ \E k \in Steps : f.planning.done \ {k} \subseteq g.planning.done
    /\ \A k \in Steps :
          HasResult(f, k) => HasResult(g, k) \/ (f.state = "execution" /\ f.step = k)

(* Every handler reads a whole record, changes its part and saves it whole *)
(* several steps later (makeCurStepCompleted, makeExecutionStateUncompleted, *)
(* tryFillResultData): none takes back what another one has saved, however *)
(* late an old button is pressed and wherever a turn is cut off.  Only a   *)
(* task that is cleared away loses its work.                               *)
WorkIsKept == [][facts'.state = Absent \/ KeepsWork(facts, facts')]_vars

(* transitions of TaskStateConfig; a task begins with INIT, and only one   *)
(* that is DONE is cleared away.                                           *)
Transitions ==
    {<<Absent, "init">>, <<"done", Absent>>,
     <<"init", "planning">>, <<"planning", "execution">>,
     <<"execution", "verification">>, <<"execution", "planning">>,
     <<"verification", "done">>, <<"verification", "execution">>}

(* The state changes along the transitions of the configuration only, and  *)
(* is cleared only when the task is done (clearTaskDataIfNeeded, and the   *)
(* button of DONE), whatever buttons are pressed and whenever a turn is    *)
(* cut off.                                                                *)
TransitionsAllowed ==
    [][facts'.state # facts.state => <<facts.state, facts'.state>> \in Transitions]_vars

(* The LLM that answers for EXECUTION was shown a step of the plan:        *)
(* buildSystemPrompt finds it by the current step number.                  *)
ExecutionPromptHasStep ==
    [][\A j \in Jobs : Ask(j) /\ facts.state = "execution"
            => Plan # Absent /\ facts.step \in 1 .. Plan.size]_vars

(* A job wakes the LLM again and again on its own: it comes to an end.     *)
JobsEnd == \A j \in Jobs : job[j].pc # "idle" ~> job[j].pc = "idle"
=============================================================================
