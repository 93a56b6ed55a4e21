--------------------------- MODULE TaskMachineProofs --------------------------
(***************************************************************************)
(* Proofs about TaskMachine, for any number of jobs, of steps and of       *)
(* reworks, and about the chats of MCTaskTurns, calm or not.  The first    *)
(* theorem holds for jobs that overlap; the others are about one job at a  *)
(* time.                                                                   *)
(***************************************************************************)
EXTENDS MCTaskTurns, TLAPS

(* The types of the values the handlers build their writes from.           *)
LEMMA StepsType ==
    /\ Steps \subseteq 0 .. MaxSteps
    /\ 0 \in 0 .. MaxSteps /\ 1 \in Steps
  BY TaskAssumption DEF Steps

(* The buttons the handlers make, and the step of a button.                *)
LEMMA ButtonType ==
    /\ \A name \in {"proceed_to_planning", "proceed_to_execution", "proceed_to_next",
                    "proceed_to_done", "proceed_to_complete"} :
           Button(name, 0) \in Buttons
    /\ \A k \in Steps : Button("proceed_to_execution", k) \in Buttons
    /\ \A a \in Buttons : a.step \in 0 .. MaxSteps
  BY StepsType DEF Button, Buttons

(* A chat without facts has facts of the right type.                       *)
LEMMA NoFactsType == NoFacts \in Facts
  BY StepsType DEF NoFacts, Facts, OrAbsent

(* A write keeps the type of the facts, whichever fact it is of.           *)
LEMMA AfterType ==
    ASSUME NEW f \in Facts, NEW w \in Write
    PROVE  After(f, w) \in Facts
<1>1. CASE w = ClearAll
  BY <1>1, NoFactsType DEF After, ClearAll
<1>2. CASE w \in [key : {"execution"}, at : 0 .. MaxSteps, val : ExecData]
  BY <1>2 DEF After, Facts, OrAbsent
<1>3. CASE w \in [key : {"state"}, at : {0}, val : States]
  BY <1>3 DEF After, Facts, OrAbsent
<1>4. CASE w \in [key : {"step", "total"}, at : {0}, val : 0 .. MaxSteps]
  BY <1>4 DEF After, Facts, OrAbsent
<1>5. CASE w \in [key : {"init"}, at : {0}, val : InitData]
  BY <1>5 DEF After, Facts, OrAbsent
<1>6. CASE w \in [key : {"planning"}, at : {0}, val : PlanData]
  BY <1>6 DEF After, Facts, OrAbsent
<1>7. CASE w \in [key : {"verification"}, at : {0}, val : VerifData]
  BY <1>7 DEF After, Facts, OrAbsent
<1>8. CASE w \in [key : {"done"}, at : {0}, val : {TRUE}]
  BY <1>8 DEF After, Facts, OrAbsent
<1> QED
  BY <1>1, <1>2, <1>3, <1>4, <1>5, <1>6, <1>7, <1>8 DEF Write

(* The answers have the fields of Blank, with steps the bounds allow.      *)
AnAnswer(a) ==
    /\ a.total \in Totals /\ a.size \in 0 .. MaxSteps
    /\ a.result \in BOOLEAN /\ a.filled \in BOOLEAN
    /\ a.seen \subseteq Steps /\ a.low \subseteq Steps

(* What an answer of the LLM may hold.                                     *)
LEMMA AnswerType ==
    ASSUME NEW s, NEW a \in Answers(s)
    PROVE  AnAnswer(a)
<1>1. \/ a \in Answer({Absent, "planning"}, BOOLEAN, {0}, {FALSE}, {{}}, BOOLEAN)
      \/ a \in Answer({Absent, "execution"}, {FALSE}, Totals, {FALSE}, {{}}, BOOLEAN)
      \/ a \in Answer({Absent, "execution"}, {FALSE}, {0}, BOOLEAN, {{}}, BOOLEAN)
      \/ a \in Answer({Absent}, {FALSE}, {0}, {FALSE}, SUBSET Steps, {FALSE})
      \/ a \in Answer({Absent}, {FALSE}, {0}, {FALSE}, {{}}, {FALSE})
  BY DEF Answers
<1>2. ASSUME NEW nexts, NEW filled \in SUBSET BOOLEAN,
             NEW totals \in SUBSET Totals, NEW results \in SUBSET BOOLEAN,
             NEW steps \in SUBSET SUBSET Steps, NEW approve,
             a \in Answer(nexts, filled, totals, results, steps, approve)
      PROVE  AnAnswer(a)
  BY <1>2 DEF Answer, AnAnswer
<1>3. 0 \in Totals
  BY TaskAssumption DEF Totals
<1> QED
  BY <1>1, <1>2, <1>3

-----------------------------------------------------------------------------
(* The writes the handlers decide on.                                      *)
LEMMA SaveType ==
    /\ \A s \in States : Save("state", s) \in Write
    /\ \A k \in 0 .. MaxSteps : Save("step", k) \in Write /\ Save("total", k) \in Write
    /\ \A d \in InitData : Save("init", d) \in Write
    /\ \A d \in PlanData : Save("planning", d) \in Write
    /\ \A d \in VerifData : Save("verification", d) \in Write
    /\ \A k \in 0 .. MaxSteps, d \in ExecData : SaveStep(k, d) \in Write
    /\ Save("done", TRUE) \in Write
    /\ ClearAll \in Write
  BY DEF Save, SaveStep, Write

(* Lists of writes are built from writes.                                  *)
LEMMA WritesType ==
    /\ <<>> \in Seq(Write)
    /\ \A w \in Write : <<w>> \in Seq(Write)
    /\ \A w \in Write, x \in Write : <<w, x>> \in Seq(Write)
    /\ \A w \in Write, x \in Write, y \in Write : <<w, x, y>> \in Seq(Write)
  OBVIOUS

(* A job that goes on somewhere, with writes or without.                   *)
LEMMA IdleType == Idle \in Job
  BY StepsType, WritesType DEF Idle, Job, Places, OrAbsent

(* A job that goes on to another place keeps its type.                     *)
LEMMA GoesOn ==
    ASSUME TypeOK, NEW j \in Jobs, NEW n \in Job,
           job' = [job EXCEPT ![j] = n],
           UNCHANGED <<facts, fresh>>
    PROVE  TypeOK'
  BY DEF TypeOK

(* So does one that decides on writes.                                     *)
LEMMA WritingType ==
    ASSUME TypeOK, NEW j \in Jobs, NEW place \in Places, NEW w \in Seq(Write)
    PROVE  /\ Writing(j, place, w) \in Job
           /\ \A k \in 0 .. MaxSteps : [Writing(j, place, w) EXCEPT !.step = k] \in Job
  BY DEF TypeOK, Writing, Job

(* So does one that wakes the LLM again.                                   *)
LEMMA WakeType ==
    ASSUME TypeOK, NEW j \in Jobs, NEW w \in Seq(Write), WakeAfter(j, w),
           UNCHANGED <<facts, fresh>>
    PROVE  TypeOK'
<1>1. [Idle EXCEPT !.pc = "begin", !.todo = w] \in Job
  BY IdleType DEF Job, Places
<1> QED
  BY <1>1, GoesOn DEF WakeAfter

(* So does one that comes to an end.                                       *)
LEMMA BackType ==
    ASSUME TypeOK, NEW j \in Jobs, NEW w \in Seq(Write), BackToExecution(j, w),
           UNCHANGED <<facts, fresh>>
    PROVE  TypeOK'
<1>1. <<Save("state", "execution")>> \in Seq(Write)
  BY SaveType, WritesType DEF States
<1>2. w \o <<Save("state", "execution")>> \in Seq(Write)
  BY <1>1
<1> QED
  BY <1>2, WakeType DEF BackToExecution

(* So does one that posts a message with buttons.                          *)
LEMMA PostedType ==
    ASSUME TypeOK, NEW j \in Jobs, NEW b \in SUBSET Buttons, NEW n \in Job,
           Posted(j, b, n), UNCHANGED facts
    PROVE  TypeOK'
<1>1. \A i \in Jobs : [job[i] EXCEPT !.above = TRUE] \in Job
  BY DEF TypeOK, Job
<1>2. job' \in [Jobs -> Job]
  BY <1>1 DEF TypeOK, Posted
<1> QED
  BY <1>2 DEF TypeOK, Posted

(* The facts that a handler reads and writes back.                         *)
LEMMA FactsType ==
    ASSUME TypeOK
    PROVE  /\ facts.step \in 0 .. MaxSteps /\ facts.total \in 0 .. MaxSteps
           /\ facts.planning # Absent => facts.planning \in PlanData
           /\ facts.verification # Absent => facts.verification \in VerifData
           /\ facts.init # Absent => facts.init \in InitData
           /\ facts.state \in OrAbsent(States)
  BY DEF TypeOK, Facts, OrAbsent

(* So does one whose answer a handler has taken.                           *)
LEMMA HandledType ==
    ASSUME TypeOK, NEW j \in Jobs, NEW w \in Seq(Write), NEW accepted, NEW approve,
           NEW a \in Buttons, Handled(j, w, accepted, approve, a),
           UNCHANGED <<facts, fresh>>
    PROVE  TypeOK'
<1>1. /\ [Idle EXCEPT !.pc = "act", !.todo = w, !.act = a] \in Job
      /\ [Idle EXCEPT !.pc = "post", !.todo = w, !.buttons = {a}] \in Job
      /\ [Idle EXCEPT !.pc = "post", !.todo = w, !.buttons = {}] \in Job
  BY IdleType DEF Job, Places
<1> QED
  BY <1>1, GoesOn DEF Handled

-----------------------------------------------------------------------------
(* A message and a click keep the types.                                   *)
LEMMA UserType ==
    ASSUME TypeOK, NEW j \in Jobs,
           \/ StartMessage(j)
           \/ \E a \in Buttons, above \in BOOLEAN : StartPress(j, a, above)
           \/ Click(j) \/ Press(j) \/ UnknownAction(j)
    PROVE  TypeOK'
<1>1. CASE StartMessage(j)
  <2>1. [Idle EXCEPT !.pc = "begin", !.prompt = TRUE] \in Job
    BY IdleType DEF Job, Places
  <2> QED
    BY <1>1, <2>1, GoesOn DEF StartMessage
<1>2. ASSUME NEW a \in Buttons, NEW above \in BOOLEAN, StartPress(j, a, above)
      PROVE  TypeOK'
  <2>1. [Idle EXCEPT !.pc = "click", !.act = a, !.above = above] \in Job
    BY IdleType DEF Job, Places
  <2> QED
    BY <1>2, <2>1, GoesOn DEF StartPress
<1>3. CASE Click(j)
  <2>1. [job[j] EXCEPT !.pc = "press", !.above = FALSE] \in Job
    BY DEF TypeOK, Job, Places
  <2> QED
    BY <1>3, <2>1 DEF TypeOK, Click
<1>4. CASE Press(j)
  <2>1. Writing(j, "act", <<>>) \in Job
    BY WritingType, WritesType DEF Places
  <2> QED
    BY <1>4, <2>1, GoesOn DEF Press
<1>5. CASE UnknownAction(j)
  BY <1>5, IdleType, GoesOn DEF UnknownAction, End
<1> QED
  BY <1>1, <1>2, <1>3, <1>4, <1>5

(* So do the actions of the buttons.                                       *)
LEMMA ActionType ==
    ASSUME TypeOK, NEW j \in Jobs,
           \/ ProceedToPlanning(j) \/ ProceedToExecution(j)
           \/ CompleteStep(j) \/ ClearFeedback(j) \/ Advance(j)
           \/ ProceedToDone(j) \/ FinishTask(j)
           \/ Rework(j) \/ Reopen(j) \/ Prefill(j)
    PROVE  TypeOK'
<1>1. CASE ProceedToPlanning(j)
  BY <1>1, WakeType, SaveType, WritesType DEF ProceedToPlanning, States
<1>2. CASE ProceedToExecution(j)
  BY <1>2, WakeType, SaveType, WritesType, StepsType DEF ProceedToExecution, States
<1>3. CASE CompleteStep(j)
  <2>1. Writing(j, "advance", <<>>) \in Job
    BY WritingType, WritesType DEF Places
  <2>2. ASSUME facts.planning # Absent
        PROVE  WithStep(facts.planning, facts.step) \in PlanData
    BY <2>2, FactsType, TaskAssumption DEF WithStep, PlanData, Steps
  <2>3. ASSUME facts.planning # Absent
        PROVE  [Writing(j, "feedback",
                   <<Save("planning", WithStep(facts.planning, facts.step))>>)
                EXCEPT !.step = facts.step] \in Job
    BY <2>2, <2>3, SaveType, WritesType, WritingType, FactsType DEF Places
  <2> QED
    BY <1>3, <2>1, <2>3, GoesOn DEF CompleteStep
<1>4. CASE ClearFeedback(j)
  <2>1. Writing(j, "advance", <<>>) \in Job
    BY WritingType, WritesType DEF Places
  <2>2. ASSUME facts.verification # Absent
        PROVE  WithoutFeedback(facts.verification, job[j].step) \in VerifData
    BY <2>2, FactsType DEF WithoutFeedback, VerifData
  <2>3. ASSUME facts.verification # Absent
        PROVE  Writing(j, "advance",
                 <<Save("verification",
                        WithoutFeedback(facts.verification, job[j].step))>>) \in Job
    BY <2>2, <2>3, SaveType, WritesType, WritingType DEF Places
  <2> QED
    BY <1>4, <2>1, <2>3, GoesOn DEF ClearFeedback
<1>5. CASE Advance(j)
  BY <1>5, WakeType, SaveType, WritesType DEF Advance, States
<1>6. CASE ProceedToDone(j)
  BY <1>6, WakeType, SaveType, WritesType DEF ProceedToDone, States
<1>7. CASE FinishTask(j)
  <2>1. [Idle EXCEPT !.pc = "post", !.todo = <<ClearAll>>] \in Job
    BY IdleType, SaveType, WritesType DEF Job, Places
  <2> QED
    BY <1>7, <2>1, GoesOn DEF FinishTask
<1>8. CASE Rework(j)
  <2>1. CASE facts.verification = Absent
    BY <1>8, <2>1, BackType, WritesType DEF Rework
  <2>2. CASE facts.verification # Absent
    <3>1. [facts.verification EXCEPT !.retry = facts.verification.retry + 1]
            \in VerifData
      BY <2>2, FactsType DEF VerifData
    <3>2. job[j].act.step \in 0 .. MaxSteps
      BY ButtonType, StepsType DEF TypeOK, Job, NoButton, Button
    <3>3. [Writing(j, "reopen", <<Save("verification",
              [facts.verification EXCEPT !.retry = facts.verification.retry + 1])>>)
           EXCEPT !.step = IF job[j].act.step \in facts.verification.seen
                             THEN job[j].act.step ELSE 0] \in Job
      BY <3>1, <3>2, SaveType, WritesType, WritingType, StepsType DEF Places
    <3> QED
      BY <1>8, <2>2, <3>3, GoesOn DEF Rework
  <2> QED
    BY <2>1, <2>2
<1>9. CASE Reopen(j)
  <2>1. CASE facts.planning = Absent
    BY <1>9, <2>1, BackType, WritesType DEF Reopen
  <2>2. CASE facts.planning # Absent
    <3>1. [facts.planning EXCEPT !.done = facts.planning.done \ {job[j].act.step}]
            \in PlanData
      BY <2>2, FactsType DEF PlanData
    <3>2. Writing(j, "prefill", <<Save("planning",
             [facts.planning EXCEPT !.done = facts.planning.done \ {job[j].act.step}])>>)
            \in Job
      BY <3>1, SaveType, WritesType, WritingType DEF Places
    <3> QED
      BY <1>9, <2>2, <3>2, GoesOn DEF Reopen
  <2> QED
    BY <2>1, <2>2
<1>10. CASE Prefill(j)
  <2>1. facts.verification # Absent => Save("verification", facts.verification) \in Write
    BY SaveType, FactsType
  <2> QED
    BY <1>10, <2>1, BackType, WritesType DEF Prefill
<1> QED
  BY <1>1, <1>2, <1>3, <1>4, <1>5, <1>6, <1>7, <1>8, <1>9, <1>10

(* So do the question to the LLM and the handlers of its answer.           *)
LEMMA TalkType ==
    ASSUME TypeOK, NEW j \in Jobs,
           \/ Begin(j) \/ Validate(j) \/ Ask(j) \/ LlmFails(j)
           \/ HandleInit(j) \/ HandlePlanning(j) \/ HandleExecution(j)
           \/ HandleVerification(j) \/ HandleDone(j) \/ Post(j)
    PROVE  TypeOK'
<1> USE ButtonType
<1>1. CASE Begin(j)
  <2>1. /\ Writing(j, "validate", <<>>) \in Job
        /\ Writing(j, "validate", <<ClearAll>>) \in Job
    BY WritingType, WritesType, SaveType DEF Places
  <2> QED
    BY <1>1, <2>1, PostedType, GoesOn DEF Begin
<1>2. CASE Validate(j)
  <2>1. [filled |-> FALSE] \in InitData
    BY DEF InitData
  <2>2. /\ Writing(j, "ask", <<>>) \in Job
        /\ Writing(j, "ask", <<Save("state", "init"), Save("step", 1),
                               Save("init", [filled |-> FALSE])>>) \in Job
    BY <2>1, WritingType, WritesType, SaveType, StepsType DEF Places, States
  <2> QED
    BY <1>2, <2>2, GoesOn DEF Validate
<1>3. CASE Ask(j)
  <2>1. [Idle EXCEPT !.pc = "llm", !.asked = facts.state] \in Job
    BY IdleType, FactsType DEF Job, Places
  <2> QED
    BY <1>3, <2>1, GoesOn DEF Ask
<1>4. CASE LlmFails(j)
  BY <1>4, IdleType, GoesOn DEF LlmFails, End
<1>5. CASE HandleInit(j)
  <2>1. PICK a \in Answers(job[j].asked) :
          LET accepted == a.next = "planning" /\ a.filled
              before == facts.init # Absent /\ facts.init.filled
          IN
          Handled(j, <<Save("init", [filled |-> before \/ accepted])>>, accepted,
                  a.approve, Button("proceed_to_planning", 0))
    BY <1>5 DEF HandleInit
  <2>2. [filled |-> (facts.init # Absent /\ facts.init.filled) \/
                      (a.next = "planning" /\ a.filled)] \in InitData
    BY DEF InitData
  <2> QED
    BY <1>5, <2>1, <2>2, HandledType, SaveType, WritesType DEF HandleInit
<1>6. CASE HandlePlanning(j)
  <2>1. PICK a \in Answers(job[j].asked) :
          LET accepted == a.next = "execution" /\ a.size > 0 /\ a.size = a.total
              plan == Save("planning", [total |-> a.total, size |-> a.size, done |-> {}])
          IN
          Handled(j, IF accepted THEN <<plan, Save("total", a.size)>> ELSE <<plan>>,
                  accepted, a.approve, Button("proceed_to_execution", 0))
    BY <1>6 DEF HandlePlanning
  <2>2. AnAnswer(a)
    BY AnswerType
  <2>3. [total |-> a.total, size |-> a.size, done |-> {}] \in PlanData
    BY <2>2 DEF PlanData, AnAnswer
  <2>4. Save("planning", [total |-> a.total, size |-> a.size, done |-> {}]) \in Write
    BY <2>3, SaveType
  <2>5. Save("total", a.size) \in Write
    BY <2>2, SaveType DEF AnAnswer
  <2> QED
    BY <1>6, <2>1, <2>4, <2>5, HandledType, WritesType DEF HandlePlanning
<1>7. CASE HandleExecution(j)
  <2>1. PICK a \in Answers(job[j].asked) :
          Handled(j, <<SaveStep(facts.step, [result |-> a.result])>>,
                  a.next = "execution" /\ a.result, a.approve,
                  Button("proceed_to_next", 0))
    BY <1>7 DEF HandleExecution
  <2>2. [result |-> a.result] \in ExecData
    BY AnswerType DEF ExecData, AnAnswer
  <2>3. SaveStep(facts.step, [result |-> a.result]) \in Write
    BY <2>2, SaveType, FactsType
  <2> QED
    BY <1>7, <2>1, <2>3, HandledType, WritesType DEF HandleExecution
<1>8. CASE HandleVerification(j)
  <2> DEFINE retry == IF facts.verification = Absent THEN 0 ELSE facts.verification.retry
  <2>1. PICK a \in Answers(job[j].asked) :
          LET seen == a.seen \cap 1 .. facts.total
              poor == IF retry < MAX_REVIEW_COUNT THEN a.low \cap seen ELSE {}
          IN
          job' = [job EXCEPT ![j] = [Idle EXCEPT
              !.pc = "post",
              !.todo = <<Save("verification",
                          [retry |-> retry, seen |-> seen, feedback |-> seen])>>,
              !.buttons = {Button("proceed_to_execution", k) : k \in poor}
                              \cup {Button("proceed_to_done", 0)}]]
    BY <1>8 DEF HandleVerification
  <2> DEFINE seen == a.seen \cap 1 .. facts.total
             poor == IF retry < MAX_REVIEW_COUNT THEN a.low \cap seen ELSE {}
             buttons == {Button("proceed_to_execution", k) : k \in poor}
                              \cup {Button("proceed_to_done", 0)}
             review == [retry |-> retry, seen |-> seen, feedback |-> seen]
  <2>2. seen \subseteq Steps /\ poor \subseteq Steps
    BY AnswerType DEF AnAnswer
  <2>3. retry \in Nat
    BY FactsType DEF VerifData
  <2>4. review \in VerifData
    BY <2>2, <2>3 DEF VerifData
  <2>5. <<Save("verification", review)>> \in Seq(Write)
    BY <2>4, SaveType, WritesType
  <2>6. buttons \subseteq Buttons
    BY <2>2
  <2>7. job' = [job EXCEPT ![j] = [Idle EXCEPT
              !.pc = "post", !.todo = <<Save("verification", review)>>,
              !.buttons = buttons]]
    BY <2>1
  <2> HIDE DEF buttons, review
  <2>8. [Idle EXCEPT !.pc = "post", !.todo = <<Save("verification", review)>>,
                     !.buttons = buttons] \in Job
    BY <2>5, <2>6, IdleType DEF Job, Places
  <2> QED
    BY <1>8, <2>7, <2>8, GoesOn DEF HandleVerification
<1>9. CASE HandleDone(j)
  <2>1. [Idle EXCEPT !.pc = "post", !.todo = <<Save("done", TRUE)>>,
                     !.buttons = {Button("proceed_to_complete", 0)}] \in Job
    BY IdleType, SaveType, WritesType DEF Job, Places
  <2> QED
    BY <1>9, <2>1, GoesOn DEF HandleDone
<1>10. CASE Post(j)
  <2>1. job[j].buttons \in SUBSET Buttons
    BY DEF TypeOK, Job
  <2> QED
    BY <1>10, <2>1, PostedType, IdleType DEF Post
<1> QED
  BY <1>1, <1>2, <1>3, <1>4, <1>5, <1>6, <1>7, <1>8, <1>9, <1>10

(* So does the writing of one fact.                                        *)
LEMMA CommitType ==
    ASSUME TypeOK, NEW j \in Jobs, Commit(j)
    PROVE  TypeOK'
<1>1. job[j].todo \in Seq(Write) /\ job[j].todo # <<>>
  BY DEF Commit, TypeOK, Job
<1>2. Head(job[j].todo) \in Write /\ Tail(job[j].todo) \in Seq(Write)
  BY <1>1
<1>3. [job[j] EXCEPT !.todo = Tail(job[j].todo)] \in Job
  BY <1>2 DEF TypeOK, Job
<1>4. facts' \in Facts
  BY <1>2, AfterType DEF Commit, TypeOK
<1> QED
  BY <1>3, <1>4 DEF Commit, TypeOK

(* The type invariant: whatever the LLM answers and however turns overlap, *)
(* every fact is of the type its reader expects.                           *)
THEOREM TypeCorrect == Spec => []TypeOK
<1>1. Init => TypeOK
  BY NoFactsType, IdleType DEF Init, TypeOK
<1>2. TypeOK /\ [Next]_vars => TypeOK'
  <2> SUFFICES ASSUME TypeOK, [Next]_vars PROVE TypeOK'
    OBVIOUS
  <2>1. ASSUME NEW j \in Jobs, Step(j) PROVE TypeOK'
    BY <2>1, CommitType, UserType, ActionType, TalkType DEF Step, Doing, Talking
  <2>2. CASE Interrupt
    BY <2>2, IdleType DEF Interrupt, TypeOK
  <2>3. CASE UNCHANGED vars
    BY <2>3 DEF TypeOK, vars
  <2> QED
    BY <2>1, <2>2, <2>3, UserType DEF Next
<1> QED
  BY <1>1, <1>2, PTL DEF Spec

-----------------------------------------------------------------------------
(* The keys that a write may have.                                         *)
LEMMA KeyType ==
    ASSUME NEW w \in Write
    PROVE  w.key \in {"all", "state", "step", "total", "init", "planning",
                      "execution", "verification", "done"}
<1>1. CASE w = ClearAll
  BY <1>1 DEF ClearAll
<1>2. CASE w # ClearAll
  BY <1>2 DEF Write
<1> QED
  BY <1>1, <1>2

(* The state moves along the transitions, with one job at a time.  A write *)
(* that leaves the state alone, and one that state st allows.              *)
Steady(w) == w.key \notin {"state", "all"}

Moves(st, w) ==
    \/ w.key = "all" /\ st \in {Absent, "done"}
    \/ w.key = "state" /\ (w.val = st \/ <<st, w.val>> \in Transitions)

(* Of the writes of a list one at most is about the state.                 *)
Settled(s) == \A i \in DOMAIN s : Steady(s[i])

Lawful(st, s) ==
    \/ Settled(s)
    \/ \E m \in DOMAIN s :
          /\ Moves(st, s[m])
          /\ \A i \in DOMAIN s \ {m} : Steady(s[i])

(* What a job may be about to do in state st: inside a handler it is the   *)
(* handler's state, and only on the way out of it the state is written.    *)
Obeys(st, r) ==
    /\ r.pc = "idle" => r.todo = <<>>
    /\ r.pc \notin {"begin", "validate", "ask", "post"} => Settled(r.todo)
    /\ Lawful(st, r.todo)
    /\ r.pc = "act" => st = HandlerOf(r.act)
    /\ r.pc \in {"feedback", "advance"} => st = "execution"
    /\ r.pc \in {"reopen", "prefill"} => st = "verification"

Ordered == \A j \in Jobs : Obeys(facts.state, job[j])

Alone == \A i, j \in Jobs : i # j => job[i].pc = "idle" \/ job[j].pc = "idle"

(* Single writes.                                                          *)
LEMMA SteadySaves ==
    /\ \A v : \A key \in {"step", "total", "init", "planning", "verification", "done"} :
           Steady(Save(key, v))
    /\ \A k, v : Steady(SaveStep(k, v))
    /\ \A st, v : <<st, v>> \in Transitions => Moves(st, Save("state", v))
    /\ \A v : Moves(v, Save("state", v))
    /\ \A st \in {Absent, "done"} : Moves(st, ClearAll)
  BY DEF Steady, Moves, Save, SaveStep, ClearAll

(* The lists the handlers write.                                           *)
LEMMA SettledLists ==
    /\ Settled(<<>>)
    /\ \A w : Steady(w) => Settled(<<w>>)
    /\ \A w, x : Steady(w) /\ Steady(x) => Settled(<<w, x>>)
    /\ \A st, s : Settled(s) => Lawful(st, s)
  BY DEF Settled, Lawful

(* A list with one write about the state, which the state allows.          *)
LEMMA LawfulLists ==
    ASSUME NEW st
    PROVE  /\ \A w : Moves(st, w) => Lawful(st, <<w>>)
           /\ \A w, x : Moves(st, w) /\ Steady(x) => Lawful(st, <<w, x>>)
           /\ \A w, x : Steady(w) /\ Moves(st, x) => Lawful(st, <<w, x>>)
           /\ \A w, x, y : Moves(st, w) /\ Steady(x) /\ Steady(y)
                => Lawful(st, <<w, x, y>>)
  BY DEF Lawful

(* The job that takes a step is the only one under way.                    *)
LEMMA OthersIdle ==
    ASSUME Ordered, Alone, NEW j \in Jobs,
           job[j].pc # "idle" \/ \A i \in Jobs : job[i].pc = "idle"
    PROVE  \A i \in Jobs \ {j} : job[i].pc = "idle" /\ job[i].todo = <<>>
  BY DEF Ordered, Alone, Obeys

(* A job that is not under way obeys in any state.                         *)
LEMMA IdleObeys ==
    ASSUME NEW st, NEW r, r.pc = "idle", r.todo = <<>>
    PROVE  Obeys(st, r)
  BY SettledLists DEF Obeys

(* A job that goes on and obeys keeps the order.                           *)
LEMMA OrderGoesOn ==
    ASSUME TypeOK, Ordered, Alone, NEW j \in Jobs, NEW n,
           job[j].pc # "idle" \/ \A i \in Jobs : job[i].pc = "idle",
           job' = [job EXCEPT ![j] = n], Obeys(facts.state, n), UNCHANGED facts
    PROVE  Ordered' /\ Alone'
<1>1. \A i \in Jobs : job'[i] = IF i = j THEN n ELSE job[i]
  BY DEF TypeOK
<1>2. Ordered'
  BY <1>1 DEF Ordered
<1>3. Alone'
  BY <1>1, OthersIdle DEF Alone
<1> QED
  BY <1>2, <1>3

(* So does one that posts: no other has clicked.                           *)
LEMMA OrderPosted ==
    ASSUME TypeOK, Ordered, Alone, NEW j \in Jobs, NEW b, NEW n,
           job[j].pc # "idle", Posted(j, b, n), Obeys(facts.state, n), UNCHANGED facts
    PROVE  Ordered' /\ Alone'
<1>1. \A i \in Jobs : job'[i] = IF i = j THEN n ELSE job[i]
  BY OthersIdle DEF Posted
<1>2. Ordered'
  BY <1>1 DEF Ordered
<1>3. Alone'
  BY <1>1, OthersIdle DEF Alone
<1> QED
  BY <1>2, <1>3

(* A commit makes a move that the state allows, and the writes behind it   *)
(* leave the state alone.                                                  *)
LEMMA CommitOrder ==
    ASSUME TypeOK, Ordered, Alone, NEW j \in Jobs, Commit(j)
    PROVE  /\ Ordered' /\ Alone'
           /\ facts'.state # facts.state => <<facts.state, facts'.state>> \in Transitions
<1> DEFINE todo == job[j].todo
           w == Head(job[j].todo)
           n == [job[j] EXCEPT !.todo = Tail(job[j].todo)]
<1>1. /\ todo \in Seq(Write) /\ todo # <<>> /\ job[j] \in Job
      /\ facts \in Facts /\ facts' = After(facts, w)
      /\ job' = [job EXCEPT ![j] = n]
  BY DEF Commit, TypeOK, Job
<1>2. /\ w \in Write /\ w = todo[1] /\ 1 \in DOMAIN todo
      /\ \A i \in DOMAIN Tail(todo) : Tail(todo)[i] = todo[i + 1] /\ i + 1 \in DOMAIN todo
  BY <1>1
<1>3. Obeys(facts.state, job[j])
  BY DEF Ordered
<1>4. n.todo = Tail(todo) /\ n.pc = job[j].pc /\ n.act = job[j].act
  BY <1>1 DEF Job
<1>5. job[j].pc # "idle"
  BY <1>1, <1>3 DEF Obeys
<1>6. \A i \in Jobs \ {j} : job[i].pc = "idle" /\ job[i].todo = <<>>
  BY <1>5, OthersIdle
<1>7. \A i \in Jobs : job'[i] = IF i = j THEN n ELSE job[i]
  BY <1>1 DEF TypeOK
<1>8. Alone'
  BY <1>6, <1>7 DEF Alone
<1>9. Obeys(facts'.state, n) => Ordered'
  BY <1>6, <1>7, IdleObeys DEF Ordered
<1>10. CASE Steady(w)
  <2>1. facts'.state = facts.state
    BY <1>1, <1>2, <1>10, KeyType DEF Steady, After, Facts
  <2>2. Settled(todo) => Settled(Tail(todo))
    BY <1>2 DEF Settled
  <2>3. Lawful(facts.state, Tail(todo))
    <3>1. CASE Settled(todo)
      BY <2>2, <3>1, SettledLists
    <3>2. ASSUME NEW m \in DOMAIN todo, Moves(facts.state, todo[m]),
                 \A i \in DOMAIN todo \ {m} : Steady(todo[i])
          PROVE  Lawful(facts.state, Tail(todo))
      <4>1. m # 1
        BY <1>2, <1>10, <3>2 DEF Steady, Moves
      <4>2. m - 1 \in DOMAIN Tail(todo) /\ (m - 1) + 1 = m
        BY <1>1, <4>1
      <4>3. Moves(facts.state, Tail(todo)[m - 1])
        BY <1>2, <3>2, <4>2
      <4>4. \A i \in DOMAIN Tail(todo) \ {m - 1} : Steady(Tail(todo)[i])
        BY <1>1, <1>2, <3>2
      <4> QED
        BY <4>2, <4>3, <4>4 DEF Lawful
    <3> QED
      BY <1>3, <3>1, <3>2 DEF Obeys, Lawful
  <2>4. Obeys(facts.state, n)
    BY <1>3, <1>4, <1>5, <2>2, <2>3 DEF Obeys
  <2> QED
    BY <1>8, <1>9, <2>1, <2>4
<1>11. CASE ~Steady(w)
  <2>1. ~Settled(todo)
    BY <1>2, <1>11 DEF Settled
  <2>2. job[j].pc \in {"begin", "validate", "ask", "post"}
    BY <1>3, <2>1 DEF Obeys
  <2>3. PICK m \in DOMAIN todo : /\ Moves(facts.state, todo[m])
                                 /\ \A i \in DOMAIN todo \ {m} : Steady(todo[i])
    BY <1>3, <2>1 DEF Obeys, Lawful
  <2>4. m = 1
    BY <1>2, <1>11, <2>3
  <2>5. Settled(Tail(todo))
    BY <1>1, <1>2, <2>3, <2>4 DEF Settled
  <2>6. Obeys(facts'.state, n)
    BY <1>4, <2>2, <2>5, SettledLists DEF Obeys
  <2>7. Moves(facts.state, w)
    BY <1>2, <2>3, <2>4
  <2>8. ASSUME w.key = "all"
        PROVE  facts'.state # facts.state => <<facts.state, facts'.state>> \in Transitions
    BY <1>1, <2>7, <2>8 DEF Moves, After, NoFacts, Transitions
  <2>9. ASSUME w.key = "state"
        PROVE  facts'.state # facts.state => <<facts.state, facts'.state>> \in Transitions
    BY <1>1, <2>7, <2>9 DEF Moves, After, Facts
  <2> QED
    BY <1>8, <1>9, <2>6, <2>7, <2>8, <2>9 DEF Moves
<1> QED
  BY <1>10, <1>11

(* A job decides on writes and on where it goes on.                        *)
DecidesOn(j, place, w) ==
    /\ UNCHANGED facts
    /\ \/ job' = [job EXCEPT ![j] = Writing(j, place, w)]
       \/ \E k : job' = [job EXCEPT ![j] = [Writing(j, place, w) EXCEPT !.step = k]]

(* It may, if they fit the state.                                          *)
LEMMA OrderWriting ==
    ASSUME TypeOK, Ordered, Alone, NEW j \in Jobs, job[j].pc # "idle",
           NEW place, NEW w, DecidesOn(j, place, w),
           place \notin {"idle", "act"}, Lawful(facts.state, w),
           place \notin {"begin", "validate", "ask", "post"} => Settled(w),
           place \in {"feedback", "advance"} => facts.state = "execution",
           place \in {"reopen", "prefill"} => facts.state = "verification"
    PROVE  Ordered' /\ Alone'
<1> DEFINE n == Writing(j, place, w)
<1>1. n.pc = place /\ n.todo = w
  BY DEF TypeOK, Job, Writing
<1>2. \A k : [n EXCEPT !.step = k].pc = place /\ [n EXCEPT !.step = k].todo = w
  BY DEF TypeOK, Job, Writing
<1> HIDE DEF n
<1>3. Obeys(facts.state, n) /\ \A k : Obeys(facts.state, [n EXCEPT !.step = k])
  BY <1>1, <1>2 DEF Obeys
<1> QED
  BY <1>3, OrderGoesOn DEF DecidesOn, n

(* A job that wakes the LLM.                                               *)
LEMMA OrderWake ==
    ASSUME TypeOK, Ordered, Alone, NEW j \in Jobs, job[j].pc # "idle",
           NEW w, Lawful(facts.state, w), WakeAfter(j, w), UNCHANGED facts
    PROVE  Ordered' /\ Alone'
<1> DEFINE n == [Idle EXCEPT !.pc = "begin", !.todo = w]
<1>1. n.pc = "begin" /\ n.todo = w
  BY DEF Idle
<1> HIDE DEF n
<1>2. Obeys(facts.state, n)
  BY <1>1 DEF Obeys
<1> QED
  BY <1>2, OrderGoesOn DEF WakeAfter, n

(* A job whose answer a handler has taken.                                 *)
LEMMA OrderHandled ==
    ASSUME TypeOK, Ordered, Alone, NEW j \in Jobs, job[j].pc # "idle",
           NEW w, Settled(w), NEW accepted, NEW approve, NEW a,
           facts.state = HandlerOf(a),
           Handled(j, w, accepted, approve, a), UNCHANGED facts
    PROVE  Ordered' /\ Alone'
<1> DEFINE n == [Idle EXCEPT !.pc = "act", !.todo = w, !.act = a]
           m(b) == [Idle EXCEPT !.pc = "post", !.todo = w, !.buttons = b]
<1>1. n.pc = "act" /\ n.todo = w /\ n.act = a
  BY DEF Idle
<1>2. \A b : m(b).pc = "post" /\ m(b).todo = w
  BY DEF Idle
<1>3. \/ job' = [job EXCEPT ![j] = n]
      \/ \E b : job' = [job EXCEPT ![j] = m(b)]
  BY DEF Handled
<1> HIDE DEF n, m
<1>4. Obeys(facts.state, n) /\ \A b : Obeys(facts.state, m(b))
  BY <1>1, <1>2, SettledLists DEF Obeys
<1> QED
  BY <1>3, <1>4, OrderGoesOn

(* A message and a button, with one job at a time.                         *)
LEMMA OrderUser ==
    ASSUME ~Overlap, TypeOK, Ordered, Alone, NEW j \in Jobs,
           \/ StartMessage(j)
           \/ \E a \in Buttons, above \in BOOLEAN : StartPress(j, a, above)
           \/ Click(j) \/ Press(j) \/ UnknownAction(j)
    PROVE  Ordered' /\ Alone'
<1>1. CASE StartMessage(j)
  <2> DEFINE n == [Idle EXCEPT !.pc = "begin", !.prompt = TRUE]
  <2>1. n.pc = "begin" /\ n.todo = <<>>
    BY DEF Idle
  <2>2. Obeys(facts.state, n)
    BY <2>1, SettledLists DEF Obeys
  <2> QED
    BY <1>1, <2>2, OrderGoesOn DEF StartMessage, MayStart
<1>2. ASSUME NEW a \in Buttons, NEW above \in BOOLEAN, StartPress(j, a, above)
      PROVE  Ordered' /\ Alone'
  <2> DEFINE n == [Idle EXCEPT !.pc = "click", !.act = a, !.above = above]
  <2>1. n.pc = "click" /\ n.todo = <<>>
    BY DEF Idle
  <2>2. Obeys(facts.state, n)
    BY <2>1, SettledLists DEF Obeys
  <2> QED
    BY <1>2, <2>2, OrderGoesOn DEF StartPress, MayStart
<1>3. CASE Click(j)
  <2> DEFINE n == [job[j] EXCEPT !.pc = "press", !.above = FALSE]
  <2>1. n.pc = "press" /\ n.todo = <<>> /\ job[j].pc = "click"
    BY <1>3 DEF Click, At, TypeOK, Job
  <2>2. Obeys(facts.state, n)
    BY <2>1, SettledLists DEF Obeys
  <2> QED
    BY <1>3, <2>1, <2>2, OrderGoesOn DEF Click
<1>4. CASE Press(j)
  <2> DEFINE n == Writing(j, "act", <<>>)
  <2>1. n.pc = "act" /\ n.todo = <<>> /\ n.act = job[j].act /\ job[j].pc = "press"
    BY <1>4 DEF Press, At, TypeOK, Job, Writing
  <2>2. Obeys(facts.state, n)
    BY <1>4, <2>1, SettledLists DEF Obeys, Press
  <2> QED
    BY <1>4, <2>1, <2>2, OrderGoesOn DEF Press
<1>5. CASE UnknownAction(j)
  <2>1. Idle.pc = "idle" /\ Idle.todo = <<>>
    BY DEF Idle
  <2>2. job[j].pc # "idle"
    BY <1>5 DEF UnknownAction, At
  <2> QED
    BY <1>5, <2>1, <2>2, IdleObeys, OrderGoesOn DEF UnknownAction, End
<1> QED
  BY <1>1, <1>2, <1>3, <1>4, <1>5

(* Which state the action of a button is carried out in.                   *)
LEMMA ActState ==
    ASSUME Ordered, NEW j \in Jobs, NEW name, Acts(j, name)
    PROVE  /\ job[j].pc = "act" /\ job[j].pc # "idle"
           /\ name = "proceed_to_planning" => facts.state = "init"
           /\ name = "proceed_to_execution" /\ job[j].act.step = 0
                => facts.state = "planning"
           /\ name = "proceed_to_execution" /\ job[j].act.step # 0
                => facts.state = "verification"
           /\ name = "proceed_to_next" => facts.state = "execution"
           /\ name = "proceed_to_done" => facts.state = "verification"
           /\ name = "proceed_to_complete" => facts.state = "done"
<1>1. job[j].pc = "act" /\ job[j].act.name = name
  BY DEF Acts, At
<1>2. facts.state = HandlerOf(job[j].act)
  BY <1>1 DEF Ordered, Obeys
<1> QED
  BY <1>1, <1>2 DEF HandlerOf

(* The moves that the handlers' actions make.                              *)
LEMMA HandlersMove ==
    /\ Moves("init", Save("state", "planning"))
    /\ Moves("planning", Save("state", "execution"))
    /\ Moves("execution", Save("state", "verification"))
    /\ Moves("execution", Save("state", "execution"))
    /\ Moves("verification", Save("state", "execution"))
    /\ Moves("verification", Save("state", "done"))
    /\ Moves(Absent, Save("state", "init"))
  BY DEF Moves, Save, Transitions

(* The actions of the buttons.                                             *)
LEMMA OrderAction ==
    ASSUME TypeOK, Ordered, Alone, NEW j \in Jobs,
           \/ ProceedToPlanning(j) \/ ProceedToExecution(j)
           \/ CompleteStep(j) \/ ClearFeedback(j) \/ Advance(j)
           \/ ProceedToDone(j) \/ FinishTask(j)
           \/ Rework(j) \/ Reopen(j) \/ Prefill(j)
    PROVE  Ordered' /\ Alone'
<1> DEFINE back == <<Save("state", "execution")>>
<1>0. <<>> \o back = back
  OBVIOUS
<1>1. CASE ProceedToPlanning(j)
  BY <1>1, ActState, HandlersMove, LawfulLists, OrderWake DEF ProceedToPlanning
<1>2. CASE ProceedToExecution(j)
  <2>1. facts.state = "planning" /\ job[j].pc # "idle"
    BY <1>2, ActState DEF ProceedToExecution
  <2>2. Lawful("planning", <<Save("state", "execution"), Save("step", 1)>>)
    BY HandlersMove, SteadySaves, LawfulLists
  <2> QED
    BY <1>2, <2>1, <2>2, OrderWake DEF ProceedToExecution
<1>3. CASE CompleteStep(j)
  <2>1. facts.state = "execution" /\ job[j].pc # "idle"
    BY <1>3, ActState DEF CompleteStep
  <2>2. \A p : Settled(<<Save("planning", p)>>)
    BY SteadySaves, SettledLists
  <2>3. CASE facts.planning = Absent
    <3>1. DecidesOn(j, "advance", <<>>)
      BY <1>3, <2>3 DEF CompleteStep, DecidesOn
    <3> QED
      BY <2>1, <3>1, SettledLists, OrderWriting
  <2>4. CASE facts.planning # Absent
    <3> DEFINE w == <<Save("planning", WithStep(facts.planning, facts.step))>>
    <3>1. DecidesOn(j, "feedback", w)
      BY <1>3, <2>4 DEF CompleteStep, DecidesOn
    <3>2. Settled(w)
      BY <2>2
    <3> HIDE DEF w
    <3> QED
      BY <2>1, <3>1, <3>2, SettledLists, OrderWriting
  <2> QED
    BY <2>3, <2>4
<1>4. CASE ClearFeedback(j)
  <2>1. job[j].pc = "feedback" /\ facts.state = "execution"
    BY <1>4 DEF ClearFeedback, At, Ordered, Obeys
  <2>2. PICK w : DecidesOn(j, "advance", w) /\ Settled(w)
    BY <1>4, SteadySaves, SettledLists DEF ClearFeedback, DecidesOn
  <2> QED
    BY <2>1, <2>2, SettledLists, OrderWriting
<1>5. CASE Advance(j)
  <2>1. job[j].pc = "advance" /\ facts.state = "execution"
    BY <1>5 DEF Advance, At, Ordered, Obeys
  <2>2. \A n : Lawful("execution", <<Save("state", IF n = 0 THEN "verification"
                                                   ELSE "execution"),
                                     Save("step", n)>>)
    BY HandlersMove, SteadySaves, LawfulLists
  <2> QED
    BY <1>5, <2>1, <2>2, OrderWake DEF Advance
<1>6. CASE ProceedToDone(j)
  BY <1>6, ActState, HandlersMove, LawfulLists, OrderWake DEF ProceedToDone
<1>7. CASE FinishTask(j)
  <2> DEFINE n == [Idle EXCEPT !.pc = "post", !.todo = <<ClearAll>>]
  <2>1. facts.state = "done" /\ job[j].pc # "idle"
    BY <1>7, ActState DEF FinishTask
  <2>2. n.pc = "post" /\ n.todo = <<ClearAll>>
    BY DEF Idle
  <2>3. Obeys(facts.state, n)
    BY <2>1, <2>2, SteadySaves, LawfulLists DEF Obeys
  <2> QED
    BY <1>7, <2>1, <2>3, OrderGoesOn DEF FinishTask
<1>8. Lawful("verification", back)
  BY HandlersMove, LawfulLists
<1>9. CASE Rework(j)
  <2>1. facts.state = "verification" /\ job[j].pc # "idle"
    BY <1>9, ActState DEF Rework, Acts, At, TypeOK, Job
  <2>2. CASE facts.verification = Absent
    BY <1>0, <1>8, <1>9, <2>1, <2>2, OrderWake DEF Rework, BackToExecution
  <2>3. CASE facts.verification # Absent
    <3>1. PICK w : DecidesOn(j, "reopen", w) /\ Settled(w)
      BY <1>9, <2>3, SteadySaves, SettledLists DEF Rework, DecidesOn
    <3> QED
      BY <2>1, <3>1, SettledLists, OrderWriting
  <2> QED
    BY <2>2, <2>3
<1>10. CASE Reopen(j)
  <2>1. facts.state = "verification" /\ job[j].pc # "idle"
    BY <1>10 DEF Reopen, At, Ordered, Obeys
  <2>2. CASE facts.planning = Absent
    BY <1>0, <1>8, <1>10, <2>1, <2>2, OrderWake DEF Reopen, BackToExecution
  <2>3. CASE facts.planning # Absent
    <3>1. PICK w : DecidesOn(j, "prefill", w) /\ Settled(w)
      BY <1>10, <2>3, SteadySaves, SettledLists DEF Reopen, DecidesOn
    <3> QED
      BY <2>1, <3>1, SettledLists, OrderWriting
  <2> QED
    BY <2>2, <2>3
<1>11. CASE Prefill(j)
  <2>1. facts.state = "verification" /\ job[j].pc # "idle"
    BY <1>11 DEF Prefill, At, Ordered, Obeys
  <2>2. facts.verification # Absent => Save("verification", facts.verification) \in Write
    BY SaveType, FactsType
  <2>3. ASSUME NEW v \in Write, Steady(v)
        PROVE  Lawful("verification", <<v>> \o back)
    <3>1. Save("state", "execution") \in Write
      BY SaveType DEF States
    <3> DEFINE s == <<v>> \o back
    <3>2. DOMAIN s = 1 .. 2 /\ s[1] = v /\ s[2] = Save("state", "execution")
      BY <3>1
    <3> HIDE DEF s
    <3> QED
      BY <2>3, <3>2, HandlersMove DEF Lawful, s
  <2>4. PICK w : BackToExecution(j, w) /\ Lawful("verification", w \o back)
    BY <1>0, <1>8, <1>11, <2>2, <2>3, SteadySaves DEF Prefill
  <2>5. UNCHANGED facts
    BY <1>11 DEF Prefill
  <2> QED
    BY <2>1, <2>4, <2>5, OrderWake DEF BackToExecution
<1> QED
  BY <1>1, <1>2, <1>3, <1>4, <1>5, <1>6, <1>7, <1>9, <1>10, <1>11

(* The turn: from the message to the handlers of the answer.               *)
LEMMA OrderTalk ==
    ASSUME TypeOK, Ordered, Alone, NEW j \in Jobs,
           \/ Begin(j) \/ Validate(j) \/ Ask(j) \/ LlmFails(j)
           \/ HandleInit(j) \/ HandlePlanning(j) \/ HandleExecution(j)
           \/ HandleVerification(j) \/ HandleDone(j) \/ Post(j)
    PROVE  Ordered' /\ Alone'
<1>1. CASE Begin(j)
  <2>1. job[j].pc # "idle" /\ UNCHANGED facts
    BY <1>1 DEF Begin, At
  <2>2. CASE ~job[j].prompt
    <3> DEFINE n == Writing(j, "validate", <<>>)
    <3>1. n.pc = "validate" /\ n.todo = <<>>
      BY DEF TypeOK, Job, Writing
    <3>2. Obeys(facts.state, n)
      BY <3>1, SettledLists DEF Obeys
    <3> QED
      BY <1>1, <2>1, <2>2, <3>2, OrderPosted DEF Begin
  <2>3. CASE job[j].prompt
    <3>1. PICK w : DecidesOn(j, "validate", w) /\ Lawful(facts.state, w)
      BY <1>1, <2>3, SteadySaves, SettledLists, LawfulLists DEF Begin, IsFinal, DecidesOn
    <3> QED
      BY <2>1, <3>1, OrderWriting
  <2> QED
    BY <2>2, <2>3
<1>2. CASE Validate(j)
  <2>1. job[j].pc # "idle" /\ UNCHANGED facts
    BY <1>2 DEF Validate, At
  <2>2. \A d : Lawful(Absent, <<Save("state", "init"), Save("step", 1), Save("init", d)>>)
    BY HandlersMove, SteadySaves, LawfulLists
  <2>3. PICK w : DecidesOn(j, "ask", w) /\ Lawful(facts.state, w)
    BY <1>2, <2>2, SettledLists DEF Validate, DecidesOn
  <2> QED
    BY <2>1, <2>3, OrderWriting
<1>3. CASE Ask(j)
  <2> DEFINE n == [Idle EXCEPT !.pc = "llm", !.asked = facts.state]
  <2>1. n.pc = "llm" /\ n.todo = <<>>
    BY DEF Idle
  <2>2. Obeys(facts.state, n)
    BY <2>1, SettledLists DEF Obeys
  <2> QED
    BY <1>3, <2>2, OrderGoesOn DEF Ask, At
<1>4. CASE LlmFails(j)
  <2>1. Idle.pc = "idle" /\ Idle.todo = <<>>
    BY DEF Idle
  <2> QED
    BY <1>4, <2>1, IdleObeys, OrderGoesOn DEF LlmFails, At, End
<1>5. /\ HandlerOf(Button("proceed_to_planning", 0)) = "init"
      /\ HandlerOf(Button("proceed_to_execution", 0)) = "planning"
      /\ HandlerOf(Button("proceed_to_next", 0)) = "execution"
  BY DEF HandlerOf, Button
<1>6. CASE HandleInit(j)
  <2>1. job[j].pc # "idle" /\ facts.state = "init" /\ UNCHANGED facts
    BY <1>6 DEF HandleInit, Answering, At
  <2>2. \A d : Settled(<<Save("init", d)>>)
    BY SteadySaves, SettledLists
  <2> QED
    BY <1>5, <1>6, <2>1, <2>2, OrderHandled DEF HandleInit
<1>7. CASE HandlePlanning(j)
  <2>1. job[j].pc # "idle" /\ facts.state = "planning" /\ UNCHANGED facts
    BY <1>7 DEF HandlePlanning, Answering, At
  <2>2. PICK w, accepted, approve :
            Settled(w) /\ Handled(j, w, accepted, approve, Button("proceed_to_execution", 0))
    BY <1>7, SteadySaves, SettledLists DEF HandlePlanning
  <2> QED
    BY <1>5, <2>1, <2>2, OrderHandled
<1>8. CASE HandleExecution(j)
  <2>1. job[j].pc # "idle" /\ facts.state = "execution" /\ UNCHANGED facts
    BY <1>8 DEF HandleExecution, Answering, At
  <2>2. \A k, d : Settled(<<SaveStep(k, d)>>)
    BY SteadySaves, SettledLists
  <2> QED
    BY <1>5, <1>8, <2>1, <2>2, OrderHandled DEF HandleExecution
<1>9. ASSUME NEW w, Settled(w), NEW b, At(j, "llm"), UNCHANGED facts,
             job' = [job EXCEPT ![j] = [Idle EXCEPT !.pc = "post", !.todo = w, !.buttons = b]]
      PROVE  Ordered' /\ Alone'
  <2> DEFINE n == [Idle EXCEPT !.pc = "post", !.todo = w, !.buttons = b]
  <2>1. n.pc = "post" /\ n.todo = w
    BY DEF Idle
  <2>2. Obeys(facts.state, n)
    BY <1>9, <2>1, SettledLists DEF Obeys
  <2> QED
    BY <1>9, <2>2, OrderGoesOn DEF At
<1>10. CASE HandleVerification(j)
  <2>1. \A v : Settled(<<Save("verification", v)>>)
    BY SteadySaves, SettledLists
  <2> QED
    BY <1>9, <1>10, <2>1 DEF HandleVerification, Answering
<1>11. CASE HandleDone(j)
  <2>1. Settled(<<Save("done", TRUE)>>)
    BY SteadySaves, SettledLists
  <2> QED
    BY <1>9, <1>11, <2>1 DEF HandleDone, Answering
<1>12. CASE Post(j)
  <2>1. Idle.pc = "idle" /\ Idle.todo = <<>>
    BY DEF Idle
  <2> QED
    BY <1>12, <2>1, IdleObeys, OrderPosted DEF Post, At
<1> QED
  BY <1>1, <1>2, <1>3, <1>4, <1>6, <1>7, <1>8, <1>10, <1>11, <1>12

(* With one job at a time every job writes what the state allows, and so   *)
(* does every step.                                                        *)
LEMMA OrderInit == Init => Ordered /\ Alone
  BY IdleObeys DEF Init, Ordered, Alone, Idle

(* The steps that are not writes leave the facts alone.                    *)
LEMMA FactsStay ==
    ASSUME NEW j \in Jobs,
           StartMessage(j) \/ Doing(j) \/ Talking(j)
                \/ \E a \in Buttons, above \in BOOLEAN : StartPress(j, a, above)
    PROVE  UNCHANGED facts
<1>1. ASSUME Doing(j) PROVE UNCHANGED facts
  BY <1>1 DEF Doing, Click, Press, UnknownAction, ProceedToPlanning, ProceedToExecution,
              CompleteStep, ClearFeedback, Advance, ProceedToDone, FinishTask, Rework,
              Reopen, Prefill
<1>2. ASSUME Talking(j) PROVE UNCHANGED facts
  BY <1>2 DEF Talking, Begin, Validate, Ask, LlmFails, HandleInit, HandlePlanning,
              HandleExecution, HandleVerification, HandleDone, Post
<1>3. ASSUME \/ StartMessage(j)
             \/ \E a \in Buttons, above \in BOOLEAN : StartPress(j, a, above)
      PROVE  UNCHANGED facts
  BY <1>3 DEF StartMessage, StartPress
<1> QED
  BY <1>1, <1>2, <1>3

LEMMA OrderKept ==
    ASSUME ~Overlap, TypeOK, Ordered, Alone, [Next]_vars
    PROVE  /\ Ordered' /\ Alone'
           /\ facts'.state # facts.state => <<facts.state, facts'.state>> \in Transitions
<1>1. ASSUME NEW j \in Jobs,
             StartMessage(j) \/ Doing(j) \/ Talking(j)
                \/ \E a \in Buttons, above \in BOOLEAN : StartPress(j, a, above)
      PROVE  Ordered' /\ Alone' /\ UNCHANGED facts
  BY <1>1, FactsStay, OrderUser, OrderAction, OrderTalk DEF Doing, Talking
<1>2. CASE Interrupt
  <2>1. UNCHANGED facts /\ \A j \in Jobs : job'[j].pc = "idle" /\ job'[j].todo = <<>>
    BY <1>2 DEF Interrupt, Idle
  <2> QED
    BY <2>1, IdleObeys DEF Ordered, Alone
<1>3. CASE UNCHANGED vars
  BY <1>3 DEF vars, Ordered, Alone
<1> QED
  BY <1>1, <1>2, <1>3, CommitOrder DEF Next, Step

(* With one job at a time the state moves along the configured transitions *)
(* and is forgotten only when the task is done, for any number of steps    *)
(* and reworks, whatever buttons are pressed and wherever a turn is cut    *)
(* off.  A write is decided on in one step and made in a later one, so     *)
(* what every job is about to write must fit the state it will find.       *)
THEOREM TransitionsRespected ==
    ASSUME ~Overlap
    PROVE  Spec => TransitionsAllowed
<1>1. TypeOK /\ Ordered /\ Alone /\ [Next]_vars
        => /\ Ordered' /\ Alone'
           /\ [facts'.state # facts.state => <<facts.state, facts'.state>> \in Transitions]_vars
  BY OrderKept
<1> QED
  BY <1>1, OrderInit, TypeCorrect, PTL DEF Spec, TransitionsAllowed

-----------------------------------------------------------------------------
(* With one job at a time no work is lost.  A write that is about no       *)
(* record of the work, and a list of which only the first write is; that   *)
(* one keeps the work of facts f.                                          *)
Light(w) == w.key \notin {"planning", "execution", "verification", "all"}

Keeps(f, g) == g.state = Absent \/ KeepsWork(f, g)

Careful(f, s) ==
    \A i \in DOMAIN s : Light(s[i]) \/ (i = 1 /\ Keeps(f, After(f, s[1])))

Guarded == \A j \in Jobs : Careful(facts, job[j].todo)

(* Facts that stay keep the work, and so does a light write.               *)
LEMMA LightKeeps ==
    ASSUME NEW f \in Facts
    PROVE  /\ KeepsWork(f, f)
           /\ \A w \in Write : Light(w) => KeepsWork(f, After(f, w))
<1>1. KeepsWork(f, f)
  BY DEF KeepsWork, Facts, OrAbsent, VerifData
<1>2. ASSUME NEW w \in Write, Light(w)
      PROVE  KeepsWork(f, After(f, w))
  <2>1. w.key \in {"state", "step", "total", "init", "done"}
    BY <1>2, KeyType DEF Light
  <2>2. /\ After(f, w).planning = f.planning
        /\ After(f, w).execution = f.execution
        /\ After(f, w).verification = f.verification
    BY <2>1 DEF After, Facts
  <2> QED
    BY <1>1, <2>2 DEF KeepsWork, HasResult
<1> QED
  BY <1>1, <1>2

(* A plan that is saved, ...                                               *)
LEMMA PlanKeeps ==
    ASSUME NEW f \in Facts, NEW p \in PlanData,
           f.planning # Absent =>
               \/ f.planning.done \subseteq p.done
               \/ f.state = "planning"
               \/ f.state = "verification"
                      /\ \E k \in Steps : f.planning.done \ {k} \subseteq p.done
    PROVE  Keeps(f, After(f, Save("planning", p)))
<1>1. After(f, Save("planning", p)) = [f EXCEPT !.planning = p]
  BY DEF After, Save
<1>2. /\ [f EXCEPT !.planning = p].planning = p /\ p # Absent
      /\ [f EXCEPT !.planning = p].execution = f.execution
      /\ [f EXCEPT !.planning = p].verification = f.verification
  BY AbsentAssumption DEF Facts
<1> QED
  BY <1>1, <1>2, LightKeeps DEF Keeps, KeepsWork, HasResult

(* ... a review, ...                                                       *)
LEMMA ReviewKeeps ==
    ASSUME NEW f \in Facts, NEW v \in VerifData,
           f.verification # Absent => v.retry >= f.verification.retry
    PROVE  Keeps(f, After(f, Save("verification", v)))
<1>1. After(f, Save("verification", v)) = [f EXCEPT !.verification = v]
  BY DEF After, Save
<1>2. /\ [f EXCEPT !.verification = v].verification = v /\ v # Absent
      /\ [f EXCEPT !.verification = v].execution = f.execution
      /\ [f EXCEPT !.verification = v].planning = f.planning
  BY AbsentAssumption DEF Facts
<1> QED
  BY <1>1, <1>2, LightKeeps DEF Keeps, KeepsWork, HasResult

(* ... a result of the current step, and a task that is cleared away.      *)
LEMMA ResultKeeps ==
    ASSUME NEW f \in Facts, NEW d \in ExecData, f.state = "execution"
    PROVE  Keeps(f, After(f, SaveStep(f.step, d)))
<1> DEFINE x == [f.execution EXCEPT ![f.step] = d]
<1>1. After(f, SaveStep(f.step, d)) = [f EXCEPT !.execution = x]
  BY DEF After, SaveStep
<1>2. /\ [f EXCEPT !.execution = x].verification = f.verification
      /\ [f EXCEPT !.execution = x].execution = x
      /\ [f EXCEPT !.execution = x].planning = f.planning
  BY DEF Facts
<1>3. \A k \in Steps : k # f.step => x[k] = f.execution[k]
  BY StepsType DEF Facts
<1> HIDE DEF x
<1> QED
  BY <1>1, <1>2, <1>3, LightKeeps DEF Keeps, KeepsWork, HasResult

LEMMA ClearKeeps ==
    ASSUME NEW f
    PROVE  Keeps(f, After(f, ClearAll))
  BY DEF Keeps, After, ClearAll, NoFacts

(* The lists the handlers write.                                           *)
LEMMA CarefulLists ==
    ASSUME NEW f
    PROVE  /\ Careful(f, <<>>)
           /\ \A w : Light(w) \/ Keeps(f, After(f, w)) => Careful(f, <<w>>)
           /\ \A w, x : Light(x) /\ (Light(w) \/ Keeps(f, After(f, w)))
                => Careful(f, <<w, x>>)
           /\ \A w, x, y : Light(w) /\ Light(x) /\ Light(y) => Careful(f, <<w, x, y>>)
           /\ \A v : \A key \in {"state", "step", "total", "init", "done"} :
                Light(Save(key, v))
  BY DEF Careful, Light, Save

(* A job that goes on with a careful list, or posts.                       *)
LEMMA GuardGoesOn ==
    ASSUME TypeOK, Guarded, NEW j \in Jobs, NEW n, UNCHANGED facts,
           Careful(facts, n.todo),
           job' = [job EXCEPT ![j] = n] \/ \E b : Posted(j, b, n)
    PROVE  Guarded'
<1>1. \A i \in Jobs : job'[i].todo = IF i = j THEN n.todo ELSE job[i].todo
  <2>1. CASE job' = [job EXCEPT ![j] = n]
    BY <2>1 DEF TypeOK
  <2>2. ASSUME NEW b, Posted(j, b, n)
        PROVE  \A i \in Jobs : job'[i].todo = IF i = j THEN n.todo ELSE job[i].todo
    <3>1. \A i \in Jobs : [job[i] EXCEPT !.above = TRUE].todo = job[i].todo
      BY DEF TypeOK, Job
    <3> QED
      BY <2>2, <3>1 DEF Posted
  <2> QED
    BY <2>1, <2>2
<1> QED
  BY <1>1 DEF Guarded

(* A write that is made keeps the work, and those behind it are light.     *)
LEMMA CommitKeeps ==
    ASSUME TypeOK, Ordered, Alone, Guarded, NEW j \in Jobs, Commit(j)
    PROVE  Guarded' /\ Keeps(facts, facts')
<1> DEFINE todo == job[j].todo
           n == [job[j] EXCEPT !.todo = Tail(job[j].todo)]
<1>1. /\ todo \in Seq(Write) /\ todo # <<>> /\ job[j] \in Job
      /\ facts \in Facts /\ facts' = After(facts, Head(todo))
      /\ job' = [job EXCEPT ![j] = n]
  BY DEF Commit, TypeOK, Job
<1>2. /\ Head(todo) \in Write /\ Head(todo) = todo[1] /\ 1 \in DOMAIN todo
      /\ \A i \in DOMAIN Tail(todo) :
            Tail(todo)[i] = todo[i + 1] /\ i + 1 \in DOMAIN todo /\ i + 1 # 1
  BY <1>1
<1>3. Careful(facts, todo)
  BY DEF Guarded
<1>4. Keeps(facts, facts')
  BY <1>1, <1>2, <1>3, LightKeeps DEF Careful, Keeps
<1>5. Careful(facts', Tail(todo))
  BY <1>2, <1>3 DEF Careful
<1>6. \A i \in Jobs \ {j} : job[i].todo = <<>>
  BY <1>1, OthersIdle DEF Ordered, Obeys
<1>7. n.todo = Tail(todo)
  BY <1>1 DEF Job
<1>8. \A i \in Jobs : job'[i].todo = IF i = j THEN Tail(todo) ELSE <<>>
  BY <1>1, <1>6, <1>7 DEF TypeOK
<1>9. Guarded'
  BY <1>5, <1>8, CarefulLists DEF Guarded
<1> QED
  BY <1>4, <1>9

(* Jobs that wake the LLM, or write inside a handler.                      *)
LEMMA GuardWake ==
    ASSUME TypeOK, Guarded, NEW j \in Jobs, NEW w, Careful(facts, w),
           WakeAfter(j, w), UNCHANGED facts
    PROVE  Guarded'
<1> DEFINE n == [Idle EXCEPT !.pc = "begin", !.todo = w]
<1>1. n.todo = w
  BY DEF Idle
<1> HIDE DEF n
<1> QED
  BY <1>1, GuardGoesOn DEF WakeAfter, n

LEMMA GuardWriting ==
    ASSUME TypeOK, Guarded, NEW j \in Jobs, NEW place, NEW w, Careful(facts, w),
           DecidesOn(j, place, w)
    PROVE  Guarded'
<1> DEFINE n == Writing(j, place, w)
           m(k) == [n EXCEPT !.step = k]
<1>1. n.todo = w /\ \A k : m(k).todo = w
  BY DEF TypeOK, Job, Writing
<1>2. UNCHANGED facts
  BY DEF DecidesOn
<1>3. CASE job' = [job EXCEPT ![j] = n]
  <2> HIDE DEF n
  <2> QED
    BY <1>1, <1>2, <1>3, GuardGoesOn
<1>4. ASSUME NEW k, job' = [job EXCEPT ![j] = m(k)] PROVE Guarded'
  <2>1. m(k).todo = w
    BY <1>1
  <2> HIDE DEF n, m
  <2> QED
    BY <1>2, <1>4, <2>1, GuardGoesOn
<1> QED
  BY <1>3, <1>4 DEF DecidesOn

LEMMA GuardHandled ==
    ASSUME TypeOK, Guarded, NEW j \in Jobs, NEW w, Careful(facts, w), UNCHANGED facts,
           NEW accepted, NEW approve, NEW a, Handled(j, w, accepted, approve, a)
    PROVE  Guarded'
<1> DEFINE n == [Idle EXCEPT !.pc = "act", !.todo = w, !.act = a]
           m(b) == [Idle EXCEPT !.pc = "post", !.todo = w, !.buttons = b]
<1>1. n.todo = w /\ \A b : m(b).todo = w
  BY DEF Idle
<1>2. CASE accepted /\ approve
  <2>1. job' = [job EXCEPT ![j] = n]
    BY <1>2 DEF Handled
  <2> HIDE DEF n
  <2> QED
    BY <1>1, <2>1, GuardGoesOn
<1>3. CASE ~(accepted /\ approve)
  <2>1. job' = [job EXCEPT ![j] = m(IF accepted THEN {a} ELSE {})]
    BY <1>3 DEF Handled
  <2> HIDE DEF m
  <2> QED
    BY <1>1, <2>1, GuardGoesOn
<1> QED
  BY <1>2, <1>3

(* The user and the buttons.                                               *)
LEMMA GuardUser ==
    ASSUME TypeOK, Guarded, NEW j \in Jobs,
           \/ StartMessage(j)
           \/ \E a \in Buttons, above \in BOOLEAN : StartPress(j, a, above)
           \/ Click(j) \/ Press(j) \/ UnknownAction(j)
    PROVE  Guarded'
<1>1. Idle.todo = <<>> /\ [Idle EXCEPT !.pc = "begin", !.prompt = TRUE].todo = <<>>
        /\ \A a, b : [Idle EXCEPT !.pc = "click", !.act = a, !.above = b].todo = <<>>
  BY DEF Idle
<1>2. [job[j] EXCEPT !.pc = "press", !.above = FALSE].todo = job[j].todo
        /\ Writing(j, "act", <<>>).todo = <<>>
  BY DEF TypeOK, Job, Writing
<1>3. ASSUME NEW n, job' = [job EXCEPT ![j] = n], n.todo = <<>>, UNCHANGED facts
      PROVE  Guarded'
  BY <1>3, CarefulLists, GuardGoesOn
<1>4. CASE StartMessage(j)
  BY <1>1, <1>3, <1>4 DEF StartMessage
<1>5. CASE \E a \in Buttons, above \in BOOLEAN : StartPress(j, a, above)
  <2>1. PICK a, above : StartPress(j, a, above)
    BY <1>5
  <2> DEFINE n == [Idle EXCEPT !.pc = "click", !.act = a, !.above = above]
  <2>2. n.todo = <<>> /\ job' = [job EXCEPT ![j] = n] /\ UNCHANGED facts
    BY <1>1, <2>1 DEF StartPress
  <2> HIDE DEF n
  <2> QED
    BY <1>3, <2>2
<1>6. CASE Click(j)
  BY <1>2, <1>3, <1>6 DEF Click, At
<1>7. CASE Press(j)
  BY <1>2, <1>3, <1>7 DEF Press
<1>8. CASE UnknownAction(j)
  BY <1>1, <1>3, <1>8 DEF UnknownAction, End
<1> QED
  BY <1>4, <1>5, <1>6, <1>7, <1>8

LEMMA GuardAction ==
    ASSUME TypeOK, Ordered, Guarded, NEW j \in Jobs,
           \/ ProceedToPlanning(j) \/ ProceedToExecution(j)
           \/ CompleteStep(j) \/ ClearFeedback(j) \/ Advance(j)
           \/ ProceedToDone(j) \/ FinishTask(j)
           \/ Rework(j) \/ Reopen(j) \/ Prefill(j)
    PROVE  Guarded'
<1> DEFINE back == <<Save("state", "execution")>>
<1>f. facts \in Facts
  BY DEF TypeOK
<1>0. <<>> \o back = back /\ Careful(facts, back)
  BY CarefulLists
<1>1. CASE ProceedToPlanning(j)
  BY <1>1, CarefulLists, GuardWake DEF ProceedToPlanning
<1>2. CASE ProceedToExecution(j)
  <2>1. Careful(facts, <<Save("state", "execution"), Save("step", 1)>>)
    BY CarefulLists
  <2> QED
    BY <1>2, <2>1, GuardWake DEF ProceedToExecution
<1>3. CASE CompleteStep(j)
  <2> DEFINE p == WithStep(facts.planning, facts.step)
             w == IF facts.planning = Absent THEN <<>> ELSE <<Save("planning", p)>>
  <2>1. facts.planning # Absent => p \in PlanData /\ facts.planning.done \subseteq p.done
    <3> HAVE facts.planning # Absent
    <3>1. facts.planning \in PlanData
      BY FactsType
    <3>2. facts.planning.size \in 0 .. MaxSteps /\ 1 .. facts.planning.size \subseteq Steps
      BY <3>1, TaskAssumption DEF PlanData, Steps
    <3> QED
      BY <3>1, <3>2 DEF WithStep, PlanData
  <2>2. Careful(facts, w)
    BY <1>f, <2>1, PlanKeeps, CarefulLists
  <2>3. \E place : DecidesOn(j, place, w)
    BY <1>3 DEF CompleteStep, DecidesOn
  <2> HIDE DEF w
  <2> QED
    BY <2>2, <2>3, GuardWriting
<1>4. CASE ClearFeedback(j)
  <2> DEFINE r == facts.verification
             v == WithoutFeedback(r, job[j].step)
             w == IF r = Absent \/ r.seen = {} THEN <<>> ELSE <<Save("verification", v)>>
  <2>1. r # Absent => v \in VerifData /\ v.retry >= r.retry
    BY FactsType DEF WithoutFeedback, VerifData
  <2>2. Careful(facts, w)
    BY <1>f, <2>1, ReviewKeeps, CarefulLists
  <2>3. DecidesOn(j, "advance", w)
    BY <1>4 DEF ClearFeedback, DecidesOn
  <2> HIDE DEF w
  <2> QED
    BY <2>2, <2>3, GuardWriting
<1>5. CASE Advance(j)
  <2>1. \A n : Careful(facts, <<Save("state", IF n = 0 THEN "verification" ELSE "execution"),
                                Save("step", n)>>)
    BY CarefulLists
  <2> QED
    BY <1>5, <2>1, GuardWake DEF Advance
<1>6. CASE ProceedToDone(j)
  BY <1>6, CarefulLists, GuardWake DEF ProceedToDone
<1>7. CASE FinishTask(j)
  <2> DEFINE n == [Idle EXCEPT !.pc = "post", !.todo = <<ClearAll>>]
  <2>1. n.todo = <<ClearAll>>
    BY DEF Idle
  <2>2. Careful(facts, n.todo)
    BY <2>1, ClearKeeps, CarefulLists
  <2> QED
    BY <1>7, <2>2, GuardGoesOn DEF FinishTask
<1>9. CASE Rework(j)
  <2>1. CASE facts.verification = Absent
    BY <1>0, <1>9, <2>1, GuardWake DEF Rework, BackToExecution
  <2>2. CASE facts.verification # Absent
    <3> DEFINE r == facts.verification
               v == [r EXCEPT !.retry = r.retry + 1]
    <3>1. v \in VerifData /\ v.retry >= r.retry
      BY <2>2, FactsType DEF VerifData
    <3>2. DecidesOn(j, "reopen", <<Save("verification", v)>>)
      BY <1>9, <2>2 DEF Rework, DecidesOn
    <3> HIDE DEF v
    <3>3. Careful(facts, <<Save("verification", v)>>)
      BY <1>f, <3>1, ReviewKeeps, CarefulLists
    <3> QED
      BY <3>2, <3>3, GuardWriting
  <2> QED
    BY <2>1, <2>2
<1>10. CASE Reopen(j)
  <2>1. facts.state = "verification"
    BY <1>10 DEF Reopen, At, Ordered, Obeys
  <2>2. CASE facts.planning = Absent
    BY <1>0, <1>10, <2>2, GuardWake DEF Reopen, BackToExecution
  <2>3. CASE facts.planning # Absent
    <3> DEFINE p == facts.planning
               q == [p EXCEPT !.done = p.done \ {job[j].act.step}]
    <3>1. q \in PlanData /\ q.done = p.done \ {job[j].act.step}
      BY <2>3, FactsType DEF PlanData
    <3>2. \E k \in Steps : p.done \ {k} \subseteq q.done
      <4>1. CASE job[j].act.step \in Steps
        BY <3>1, <4>1
      <4>2. CASE job[j].act.step \notin Steps
        BY <2>3, <3>1, <4>2, FactsType, StepsType DEF PlanData
      <4> QED
        BY <4>1, <4>2
    <3>3. DecidesOn(j, "prefill", <<Save("planning", q)>>)
      BY <1>10, <2>3 DEF Reopen, DecidesOn
    <3> HIDE DEF q
    <3>4. Careful(facts, <<Save("planning", q)>>)
      BY <1>f, <2>1, <3>1, <3>2, PlanKeeps, CarefulLists
    <3> QED
      BY <3>3, <3>4, GuardWriting
  <2> QED
    BY <2>2, <2>3
<1>11. CASE Prefill(j)
  <2> DEFINE r == facts.verification
  <2>1. r # Absent => r \in VerifData /\ r.retry >= r.retry
    BY FactsType DEF VerifData
  <2>2. ASSUME r # Absent
        PROVE  Careful(facts, <<Save("verification", r)>> \o back)
    <3>1. Save("verification", r) \in Write /\ Save("state", "execution") \in Write
      BY <2>1, <2>2, SaveType DEF States
    <3> DEFINE s == <<Save("verification", r)>> \o back
    <3>2. DOMAIN s = 1 .. 2 /\ s[1] = Save("verification", r) /\ s[2] = Save("state", "execution")
      BY <3>1
    <3>3. Keeps(facts, After(facts, Save("verification", r)))
      BY <1>f, <2>1, <2>2, ReviewKeeps
    <3>4. Light(Save("state", "execution"))
      BY CarefulLists
    <3> HIDE DEF s
    <3> QED
      BY <3>2, <3>3, <3>4 DEF Careful, s
  <2>4. PICK w : WakeAfter(j, w) /\ Careful(facts, w)
    BY <1>0, <1>11, <2>2 DEF Prefill, BackToExecution
  <2> QED
    BY <1>11, <2>4, GuardWake DEF Prefill
<1> QED
  BY <1>1, <1>2, <1>3, <1>4, <1>5, <1>6, <1>7, <1>9, <1>10, <1>11

(* The turn.                                                               *)
LEMMA GuardTalk ==
    ASSUME TypeOK, Guarded, NEW j \in Jobs,
           \/ Begin(j) \/ Validate(j) \/ Ask(j) \/ LlmFails(j)
           \/ HandleInit(j) \/ HandlePlanning(j) \/ HandleExecution(j)
           \/ HandleVerification(j) \/ HandleDone(j) \/ Post(j)
    PROVE  Guarded'
<1>f. facts \in Facts
  BY DEF TypeOK
<1>1. CASE Begin(j)
  <2>1. Writing(j, "validate", <<>>).todo = <<>>
    BY DEF TypeOK, Job, Writing
  <2>2. CASE ~job[j].prompt
    BY <1>1, <2>1, <2>2, CarefulLists, GuardGoesOn DEF Begin
  <2>3. CASE job[j].prompt
    <3>1. PICK w : DecidesOn(j, "validate", w) /\ Careful(facts, w)
      BY <1>1, <2>3, ClearKeeps, CarefulLists DEF Begin, DecidesOn
    <3> QED
      BY <3>1, GuardWriting
  <2> QED
    BY <2>2, <2>3
<1>2. CASE Validate(j)
  <2>1. \A d : Careful(facts, <<Save("state", "init"), Save("step", 1), Save("init", d)>>)
    BY CarefulLists
  <2>2. PICK w : DecidesOn(j, "ask", w) /\ Careful(facts, w)
    BY <1>2, <2>1, CarefulLists DEF Validate, DecidesOn
  <2> QED
    BY <2>2, GuardWriting
<1>3. CASE Ask(j)
  <2>1. [Idle EXCEPT !.pc = "llm", !.asked = facts.state].todo = <<>>
    BY DEF Idle
  <2> QED
    BY <1>3, <2>1, CarefulLists, GuardGoesOn DEF Ask
<1>4. CASE LlmFails(j) \/ Post(j)
  <2>1. Idle.todo = <<>>
    BY DEF Idle
  <2> QED
    BY <1>4, <2>1, CarefulLists, GuardGoesOn DEF LlmFails, Post, End
<1>6. CASE HandleInit(j)
  <2>1. \A d : Careful(facts, <<Save("init", d)>>)
    BY CarefulLists
  <2> QED
    BY <1>6, <2>1, GuardHandled DEF HandleInit
<1>7. CASE HandlePlanning(j)
  <2>1. facts.state = "planning"
    BY <1>7 DEF HandlePlanning, Answering
  <2>2. PICK a \in Answers(job[j].asked), accepted \in BOOLEAN :
            LET plan == Save("planning", [total |-> a.total, size |-> a.size, done |-> {}])
            IN  Handled(j, IF accepted THEN <<plan, Save("total", a.size)>> ELSE <<plan>>,
                        accepted, a.approve, Button("proceed_to_execution", 0))
    BY <1>7 DEF HandlePlanning
  <2> DEFINE p == [total |-> a.total, size |-> a.size, done |-> {}]
             plan == Save("planning", p)
  <2>3. p \in PlanData
    BY AnswerType DEF PlanData, AnAnswer
  <2>4. Keeps(facts, After(facts, plan))
    BY <1>f, <2>1, <2>3, PlanKeeps
  <2>5. Careful(facts, <<plan>>) /\ Careful(facts, <<plan, Save("total", a.size)>>)
    BY <2>4, CarefulLists
  <2> QED
    BY <1>7, <2>2, <2>5, GuardHandled DEF HandlePlanning
<1>8. CASE HandleExecution(j)
  <2>1. facts.state = "execution"
    BY <1>8 DEF HandleExecution, Answering
  <2>2. PICK a \in Answers(job[j].asked), accepted \in BOOLEAN :
            Handled(j, <<SaveStep(facts.step, [result |-> a.result])>>, accepted, a.approve,
                    Button("proceed_to_next", 0))
    BY <1>8 DEF HandleExecution
  <2>3. [result |-> a.result] \in ExecData
    BY AnswerType DEF ExecData, AnAnswer
  <2>4. Careful(facts, <<SaveStep(facts.step, [result |-> a.result])>>)
    BY <1>f, <2>1, <2>3, ResultKeeps, CarefulLists
  <2> QED
    BY <1>8, <2>2, <2>4, GuardHandled DEF HandleExecution
<1>9. ASSUME NEW w, Careful(facts, w), NEW b, UNCHANGED facts,
             job' = [job EXCEPT ![j] = [Idle EXCEPT !.pc = "post", !.todo = w, !.buttons = b]]
      PROVE  Guarded'
  <2>1. [Idle EXCEPT !.pc = "post", !.todo = w, !.buttons = b].todo = w
    BY DEF Idle
  <2> QED
    BY <1>9, <2>1, GuardGoesOn
<1>10. CASE HandleVerification(j)
  <2> DEFINE retry == IF facts.verification = Absent THEN 0 ELSE facts.verification.retry
  <2>1. PICK a \in Answers(job[j].asked) : \E b :
            LET seen == a.seen \cap 1 .. facts.total IN
            job' = [job EXCEPT ![j] = [Idle EXCEPT
                !.pc = "post",
                !.todo = <<Save("verification",
                            [retry |-> retry, seen |-> seen, feedback |-> seen])>>,
                !.buttons = b]]
    BY <1>10 DEF HandleVerification
  <2> DEFINE seen == a.seen \cap 1 .. facts.total
             v == [retry |-> retry, seen |-> seen, feedback |-> seen]
  <2>2. v \in VerifData /\ (facts.verification # Absent => v.retry >= facts.verification.retry)
    BY AnswerType, FactsType DEF VerifData, AnAnswer
  <2>3. PICK b : job' = [job EXCEPT ![j] = [Idle EXCEPT !.pc = "post",
                                     !.todo = <<Save("verification", v)>>, !.buttons = b]]
    BY <2>1
  <2> HIDE DEF v
  <2>4. Careful(facts, <<Save("verification", v)>>)
    BY <1>f, <2>2, ReviewKeeps, CarefulLists
  <2> QED
    BY <1>9, <1>10, <2>3, <2>4 DEF HandleVerification
<1>11. CASE HandleDone(j)
  <2>1. Careful(facts, <<Save("done", TRUE)>>)
    BY CarefulLists
  <2> QED
    BY <1>9, <1>11, <2>1 DEF HandleDone
<1> QED
  BY <1>1, <1>2, <1>3, <1>4, <1>6, <1>7, <1>8, <1>10, <1>11

LEMMA GuardKept ==
    ASSUME ~Overlap, TypeOK, Ordered, Alone, Guarded, [Next]_vars
    PROVE  Guarded' /\ Keeps(facts, facts')
<1>1. Keeps(facts, facts)
  BY LightKeeps DEF TypeOK, Keeps
<1>2. ASSUME NEW j \in Jobs,
             StartMessage(j) \/ Doing(j) \/ Talking(j)
                \/ \E a \in Buttons, above \in BOOLEAN : StartPress(j, a, above)
      PROVE  Guarded' /\ UNCHANGED facts
  BY <1>2, FactsStay, GuardUser, GuardAction, GuardTalk DEF Doing, Talking
<1>3. CASE Interrupt
  <2>1. UNCHANGED facts /\ \A j \in Jobs : job'[j].todo = <<>>
    BY <1>3 DEF Interrupt, Idle
  <2> QED
    BY <1>1, <2>1, CarefulLists DEF Guarded
<1>4. CASE UNCHANGED vars
  BY <1>1, <1>4 DEF vars, Guarded
<1> QED
  BY <1>1, <1>2, <1>3, <1>4, CommitKeeps DEF Next, Step

(* With one job at a time no handler takes back what another one saved,    *)
(* for any number of steps and reworks, whatever buttons are pressed and   *)
(* wherever a turn is cut off.  A record is written some steps after it    *)
(* was read: what a job is about to write must keep the work of the facts  *)
(* as they are at any moment in between.                                   *)
THEOREM WorkKept ==
    ASSUME ~Overlap
    PROVE  Spec => WorkIsKept
<1>1. Init => Guarded
  <2>1. Idle.todo = <<>>
    BY DEF Idle
  <2>2. Init => \A j \in Jobs : job[j].todo = <<>>
    BY <2>1 DEF Init
  <2> QED
    BY <2>2, CarefulLists DEF Guarded
<1>2. TypeOK /\ Ordered /\ Alone /\ [Next]_vars => Ordered' /\ Alone'
  BY OrderKept
<1>3. TypeOK /\ Ordered /\ Alone /\ Guarded /\ [Next]_vars
        => Guarded' /\ [facts'.state = Absent \/ KeepsWork(facts, facts')]_vars
  BY GuardKept DEF Keeps
<1> QED
  BY <1>1, <1>2, <1>3, OrderInit, TypeCorrect, PTL DEF Spec, WorkIsKept

-----------------------------------------------------------------------------
(* A calm chat goes through the life of a task.  The open steps and the    *)
(* reworks of facts f, and the plan that was accepted.                     *)
Left(f) == IF f.planning = Absent THEN {} ELSE Uncompleted(f.planning)

Retries(f) == IF f.verification = Absent THEN 0 ELSE f.verification.retry

Described(f) == f.init # Absent /\ f.init.filled

Accepted(f) ==
    /\ f.planning # Absent /\ f.planning.size > 0
    /\ f.planning.size = f.planning.total /\ f.planning.size = f.total

(* What holds of the facts after every single write.                       *)
Grounded(f) ==
    /\ f.state \in {Absent, "init"} => f.planning = Absent
    /\ f.state \in {Absent, "init", "planning"}
        => f.verification = Absent /\ f.step \in {0, 1}
    /\ f.state = "planning" => Described(f) /\ (f.planning # Absent => f.planning.done = {})
    /\ f.state \in {"execution", "verification", "done"} => Described(f) /\ Accepted(f)
    /\ f.planning # Absent => \A k \in f.planning.done : HasResult(f, k)
    /\ f.planning # Absent /\ f.verification # Absent
        => f.verification.feedback \subseteq 1 .. f.planning.size
    /\ f.state = "execution" /\ f.verification # Absent
        => Left(f) \subseteq f.verification.feedback

(* The steps of TaskLifecycle between facts f and g.                       *)
Passes(from, to, left) ==
    \/ from = Absent /\ to = "init"
    \/ from = "init" /\ to = "planning"
    \/ from \in {"planning", "verification"} /\ to = "execution" /\ left # {}
    \/ from = "execution" /\ to = "verification" /\ left = {}
    \/ from = "verification" /\ to = "done" /\ left = {}

Lives(f, g) ==
    \/ /\ g.state = f.state \/ Passes(f.state, g.state, Left(f))
       /\ Left(g) = Left(f) /\ Retries(g) = Retries(f)
    \/ /\ g.state = f.state /\ Retries(g) = Retries(f)
       /\ \/ f.state = "planning" /\ Left(g) \subseteq Steps
          \/ f.state = "execution" /\ \E k \in Left(f) : Left(g) = Left(f) \ {k}
          \/ /\ f.state = "verification" /\ Left(f) = {} /\ Retries(f) > 0
             /\ \E k \in Steps : Left(g) = {k}
    \/ /\ f.state = "verification" /\ g.state = f.state /\ Left(f) = {}
       /\ Left(g) = {} /\ Retries(f) < MAX_REVIEW_COUNT /\ Retries(g) = Retries(f) + 1
    \/ f.state = "done" /\ g.state = Absent /\ Left(g) = {} /\ Retries(g) = 0

Legal(f, g) == Grounded(g) /\ Lives(f, g)

(* A button that was shown for facts f; the one of DONE may be left over.  *)
Pressable(f, a) ==
    \/ a.name = "proceed_to_complete"
    \/ /\ f.state = HandlerOf(a)
       /\ a.name = "proceed_to_planning" => Described(f)
       /\ a.name = "proceed_to_execution" /\ a.step = 0 => Accepted(f)
       /\ a.name = "proceed_to_next" => HasResult(f, f.step)
       /\ a.name = "proceed_to_execution" /\ a.step > 0
            => /\ f.verification # Absent /\ a.step \in f.verification.feedback
               /\ f.verification.retry < MAX_REVIEW_COUNT

(* Between turns the current step is open, or not set after a rework, and  *)
(* a plan that is reviewed is completed.                                   *)
StepIsOpen(f) == f.state = "execution" => f.step = 0 \/ f.step \in Left(f)

Finished(f) == f.state = "verification" => f.step = 0 /\ Left(f) = {}

(* What a job finds when its writes are made.                              *)
Ready(f, r) ==
    /\ r.pc \notin {"feedback", "advance"} => StepIsOpen(f)
    /\ r.pc # "prefill" => Finished(f)
    /\ r.pc \in {"click", "press", "act"} => Pressable(f, r.act)
    /\ r.pc = "feedback" => r.step \notin Left(f)
    /\ r.pc = "reopen" =>
          /\ f.verification # Absent /\ f.verification.retry > 0
          /\ r.act.step \in f.verification.feedback
    /\ r.pc = "prefill" =>
          /\ f.step = 0 /\ Left(f) # {}
          /\ f.verification # Absent /\ Left(f) \subseteq f.verification.feedback
    /\ r.pc = "post" => \A b \in r.buttons : Pressable(f, b)

(* The writes of a job are legal one after the other, and lead there.      *)
Goes1(f, w, r) == Legal(f, After(f, w)) /\ Ready(After(f, w), r)

Goes2(f, w, x, r) == Legal(f, After(f, w)) /\ Goes1(After(f, w), x, r)

Goes(f, s, r) ==
    \/ s = <<>> /\ Ready(f, r)
    \/ Len(s) = 1 /\ Goes1(f, s[1], r)
    \/ Len(s) = 2 /\ Goes2(f, s[1], s[2], r)
    \/ Len(s) = 3 /\ Legal(f, After(f, s[1])) /\ Goes2(After(f, s[1]), s[2], s[3], r)

(* A job that may end without another message of the bot: the buttons that *)
(* are shown stay.                                                         *)
KeepsButtons(r) ==
    r.pc \in {"idle", "validate", "ask", "llm"} \/ (r.pc = "begin" /\ r.prompt)

Offered(f, shown, r) ==
    KeepsButtons(r) => \A a \in shown :
        IF r.todo = <<>> THEN Pressable(f, a) ELSE a.name = "proceed_to_complete"

Clicked(shown, r) == (r.pc = "click" => ~r.above) /\ (r.pc = "press" => shown = {})

Follows(f, shown, r) ==
    Goes(f, r.todo, r) /\ Offered(f, shown, r) /\ Clicked(shown, r)

(* The invariant of a calm chat: about the job under way, or about a chat  *)
(* at rest.                                                                *)
CalmInv ==
    /\ Grounded(facts)
    /\ \A j \in Jobs : job[j].pc # "idle" => Follows(facts, fresh, job[j])
    /\ (\A j \in Jobs : job[j].pc = "idle") => Follows(facts, fresh, Idle)

(* What a write does to the facts: every other fact stays.                 *)
LEMMA FieldsAfter ==
    ASSUME NEW f \in Facts, NEW v
    PROVE  /\ After(f, Save("state", v)) = [f EXCEPT !.state = v]
           /\ After(f, Save("step", v)) = [f EXCEPT !.step = v]
           /\ After(f, Save("total", v)) = [f EXCEPT !.total = v]
           /\ After(f, Save("init", v)) = [f EXCEPT !.init = v]
           /\ After(f, Save("planning", v)) = [f EXCEPT !.planning = v]
           /\ After(f, Save("verification", v)) = [f EXCEPT !.verification = v]
           /\ After(f, Save("done", v)) = [f EXCEPT !.done = v]
           /\ After(f, ClearAll) = NoFacts
  BY DEF After, Save, ClearAll

(* The result of step k.                                                   *)
LEMMA ResultAfter ==
    ASSUME NEW f \in Facts, NEW k, NEW v
    PROVE  After(f, SaveStep(k, v)) = [f EXCEPT !.execution = [f.execution EXCEPT ![k] = v]]
  BY DEF After, SaveStep

(* The state moves on when the task allows it.                             *)
LEMMA LegalState ==
    ASSUME NEW f \in Facts, Grounded(f), NEW s \in States,
           s = f.state \/ Passes(f.state, s, Left(f)),
           s = "planning" => Described(f),
           s \in {"execution", "verification", "done"} => Described(f) /\ Accepted(f),
           s = "execution" /\ f.verification # Absent
              => Left(f) \subseteq f.verification.feedback
    PROVE  Legal(f, After(f, Save("state", s)))
<1> DEFINE g == After(f, Save("state", s))
<1>1. g = [f EXCEPT !.state = s]
  BY FieldsAfter
<1>2. /\ g.state = s /\ g.step = f.step /\ g.total = f.total /\ g.init = f.init
      /\ g.planning = f.planning /\ g.execution = f.execution
      /\ g.verification = f.verification
  BY <1>1 DEF Facts
<1> HIDE DEF g
<1>3. Left(g) = Left(f) /\ Retries(g) = Retries(f)
  BY <1>2 DEF Left, Retries
<1>4. s = f.state \/ s \in {"init", "planning", "execution", "verification", "done"}
  BY DEF States
<1>5. /\ s \in {Absent, "init"} => f.planning = Absent
      /\ s \in {Absent, "init", "planning"} => f.verification = Absent /\ f.step \in {0, 1}
      /\ s = "planning" /\ f.planning # Absent => f.planning.done = {}
  BY AbsentAssumption DEF Grounded, Passes, States
<1>6. Grounded(g)
  BY <1>2, <1>3, <1>5 DEF Grounded, Described, Accepted, HasResult
<1>7. Lives(f, g)
  BY <1>2, <1>3 DEF Lives
<1> QED
  BY <1>6, <1>7 DEF Legal, g

(* The step, where the state does not say what it is.                      *)
LEMMA LegalStep ==
    ASSUME NEW f \in Facts, Grounded(f), NEW n \in 0 .. MaxSteps,
           f.state \in {Absent, "init", "planning"} => n \in {0, 1}
    PROVE  Legal(f, After(f, Save("step", n)))
<1> DEFINE g == After(f, Save("step", n))
<1>1. g = [f EXCEPT !.step = n]
  BY FieldsAfter
<1>2. /\ g.state = f.state /\ g.step = n /\ g.total = f.total /\ g.init = f.init
      /\ g.planning = f.planning /\ g.execution = f.execution
      /\ g.verification = f.verification
  BY <1>1 DEF Facts
<1> HIDE DEF g
<1>3. Left(g) = Left(f) /\ Retries(g) = Retries(f)
  BY <1>2 DEF Left, Retries
<1> QED
  BY <1>2, <1>3
  DEF Legal, Lives, Grounded, Described, Accepted, HasResult, g

(* The total of the steps, while they are planned.                         *)
LEMMA LegalTotal ==
    ASSUME NEW f \in Facts, Grounded(f), NEW n \in 0 .. MaxSteps, f.state = "planning"
    PROVE  Legal(f, After(f, Save("total", n)))
<1> DEFINE g == After(f, Save("total", n))
<1>1. g = [f EXCEPT !.total = n]
  BY FieldsAfter
<1>2. /\ g.state = "planning" /\ g.step = f.step /\ g.init = f.init
      /\ g.planning = f.planning /\ g.execution = f.execution
      /\ g.verification = f.verification
  BY <1>1 DEF Facts
<1> HIDE DEF g
<1>3. Left(g) = Left(f) /\ Retries(g) = Retries(f)
  BY <1>2 DEF Left, Retries
<1>4. Grounded(g)
  BY <1>2, AbsentAssumption DEF Grounded, Described, HasResult, States
<1>5. Lives(f, g)
  BY <1>2, <1>3 DEF Lives
<1> QED
  BY <1>4, <1>5 DEF Legal, g

(* The description of the task, while it is described.                     *)
LEMMA LegalInit ==
    ASSUME NEW f \in Facts, Grounded(f), NEW d \in InitData, f.state = "init"
    PROVE  Legal(f, After(f, Save("init", d)))
<1> DEFINE g == After(f, Save("init", d))
<1>1. g = [f EXCEPT !.init = d]
  BY FieldsAfter
<1>2. /\ g.state = "init" /\ g.step = f.step
      /\ g.planning = f.planning /\ g.verification = f.verification
  BY <1>1 DEF Facts
<1> HIDE DEF g
<1>3. Left(g) = Left(f) /\ Retries(g) = Retries(f)
  BY <1>2 DEF Left, Retries
<1>4. Grounded(g)
  BY <1>2, AbsentAssumption DEF Grounded, States
<1>5. Lives(f, g)
  BY <1>2, <1>3 DEF Lives
<1> QED
  BY <1>4, <1>5 DEF Legal, g

(* A new plan, none of its steps completed.                                *)
LEMMA LegalPlan ==
    ASSUME NEW f \in Facts, Grounded(f), NEW p \in PlanData, f.state = "planning",
           p.done = {}
    PROVE  Legal(f, After(f, Save("planning", p)))
<1> DEFINE g == After(f, Save("planning", p))
<1>1. g = [f EXCEPT !.planning = p]
  BY FieldsAfter
<1>2. /\ g.state = "planning" /\ g.step = f.step /\ g.init = f.init
      /\ g.planning = p /\ g.verification = f.verification
  BY <1>1 DEF Facts
<1> HIDE DEF g
<1>3. Left(g) \subseteq Steps /\ Retries(g) = Retries(f)
  <2>1. p.size \in 0 .. MaxSteps /\ MaxSteps \in Nat
    BY TaskAssumption DEF PlanData
  <2>2. 1 .. p.size \subseteq Steps
    BY <2>1 DEF Steps
  <2>3. Left(g) = IF p = Absent THEN {} ELSE 1 .. p.size \ p.done
    BY <1>2 DEF Left, Uncompleted
  <2> QED
    BY <1>2, <2>2, <2>3 DEF Retries
<1>4. f.verification = Absent /\ f.step \in {0, 1} /\ Described(f)
  BY DEF Grounded
<1>5. Grounded(g)
  BY <1>2, <1>4, AbsentAssumption DEF Grounded, Described, States
<1>6. Lives(f, g)
  BY <1>2, <1>3 DEF Lives
<1> QED
  BY <1>5, <1>6 DEF Legal, g

(* The result of a step that is not completed.                             *)
LEMMA LegalResult ==
    ASSUME NEW f \in Facts, Grounded(f), NEW k \in 0 .. MaxSteps, NEW d \in ExecData,
           f.planning # Absent => k \notin f.planning.done
    PROVE  Legal(f, After(f, SaveStep(k, d)))
<1> DEFINE g == After(f, SaveStep(k, d))
<1>1. g = [f EXCEPT !.execution = [f.execution EXCEPT ![k] = d]]
  BY ResultAfter
<1>2. /\ g.state = f.state /\ g.step = f.step /\ g.total = f.total /\ g.init = f.init
      /\ g.planning = f.planning /\ g.verification = f.verification
      /\ g.execution = [f.execution EXCEPT ![k] = d]
  BY <1>1 DEF Facts
<1> HIDE DEF g
<1>3. Left(g) = Left(f) /\ Retries(g) = Retries(f)
  BY <1>2 DEF Left, Retries
<1>4. ASSUME f.planning # Absent
      PROVE  \A i \in f.planning.done : g.execution[i] = f.execution[i]
  BY <1>2, <1>4 DEF Facts
<1>5. g.planning # Absent => \A i \in g.planning.done : HasResult(g, i)
  BY <1>2, <1>4 DEF Grounded, HasResult
<1>6. Grounded(g)
  BY <1>2, <1>3, <1>5 DEF Grounded, Described, Accepted
<1>7. Lives(f, g)
  BY <1>2, <1>3 DEF Lives
<1> QED
  BY <1>6, <1>7 DEF Legal, g

(* The current step is completed, with its result.                         *)
LEMMA LegalComplete ==
    ASSUME NEW f \in Facts, Grounded(f), f.state = "execution", f.planning # Absent,
           StepIsOpen(f), HasResult(f, f.step),
           NEW p, p = WithStep(f.planning, f.step),
           NEW g, g = After(f, Save("planning", p))
    PROVE  Legal(f, g) /\ f.step \notin Left(g) /\ g.state = "execution"
<1>1. g = [f EXCEPT !.planning = p]
  BY FieldsAfter
<1>2. /\ g.state = "execution" /\ g.step = f.step /\ g.total = f.total
      /\ g.init = f.init /\ g.planning = p /\ g.execution = f.execution
      /\ g.verification = f.verification
  BY <1>1 DEF Facts
<1>3. /\ f.planning \in PlanData /\ p \in PlanData /\ p # Absent
      /\ p.size = f.planning.size /\ p.total = f.planning.total
      /\ p.done = f.planning.done \cup ({f.step} \cap 1 .. p.size)
  <2>1. f.planning \in PlanData /\ f.planning.size \in 0 .. MaxSteps
    BY DEF Facts, OrAbsent, PlanData
  <2>2. 1 .. f.planning.size \subseteq Steps
    BY <2>1, TaskAssumption DEF Steps
  <2> QED
    BY <2>1, <2>2, AbsentAssumption DEF WithStep, PlanData
<1>4. Left(g) = Left(f) \ {f.step}
  <2>1. Left(g) = 1 .. p.size \ p.done /\ Left(f) = 1 .. p.size \ f.planning.done
    BY <1>2, <1>3 DEF Left, Uncompleted
  <2> QED
    BY <1>3, <2>1
<1>5. Left(g) = Left(f) \/ (f.step \in Left(f) /\ Left(g) = Left(f) \ {f.step})
  <2>1. 0 \notin Left(f)
    BY DEF Left, Uncompleted
  <2> QED
    BY <1>4, <2>1 DEF StepIsOpen
<1>6. \A k \in p.done : HasResult(g, k)
  BY <1>2, <1>3 DEF Grounded, HasResult
<1>7. Grounded(g)
  BY <1>2, <1>3, <1>4, <1>6, AbsentAssumption DEF Grounded, Described, Accepted, States
<1>8. Retries(g) = Retries(f)
  BY <1>2 DEF Retries
<1>9. Lives(f, g)
  BY <1>2, <1>5, <1>8 DEF Lives
<1> QED
  BY <1>2, <1>4, <1>7, <1>9 DEF Legal

(* A review that keeps the retries, and the feedback of open steps.        *)
LEMMA LegalReview ==
    ASSUME NEW f \in Facts, Grounded(f), NEW v \in VerifData,
           f.state \in {"execution", "verification"},
           v.retry = Retries(f),
           f.planning # Absent => v.feedback \subseteq 1 .. f.planning.size,
           f.state = "execution" => Left(f) \subseteq v.feedback
    PROVE  Legal(f, After(f, Save("verification", v)))
<1> DEFINE g == After(f, Save("verification", v))
<1>1. g = [f EXCEPT !.verification = v]
  BY FieldsAfter
<1>2. /\ g.state = f.state /\ g.step = f.step /\ g.total = f.total
      /\ g.init = f.init /\ g.planning = f.planning /\ g.execution = f.execution
      /\ g.verification = v
  BY <1>1 DEF Facts
<1> HIDE DEF g
<1>3. Left(g) = Left(f) /\ Retries(g) = Retries(f)
  BY <1>2, AbsentAssumption DEF Left, Retries
<1>4. Grounded(g)
  BY <1>2, <1>3, AbsentAssumption DEF Grounded, Described, Accepted, HasResult, States
<1>5. Lives(f, g)
  BY <1>2, <1>3 DEF Lives
<1> QED
  BY <1>4, <1>5 DEF Legal, g

(* One more rework.                                                        *)
LEMMA LegalRework ==
    ASSUME NEW f \in Facts, Grounded(f), f.state = "verification", f.verification # Absent,
           Left(f) = {}, f.verification.retry < MAX_REVIEW_COUNT,
           NEW v \in VerifData, v.retry = f.verification.retry + 1,
           v.feedback = f.verification.feedback
    PROVE  Legal(f, After(f, Save("verification", v)))
<1> DEFINE g == After(f, Save("verification", v))
<1>1. g = [f EXCEPT !.verification = v]
  BY FieldsAfter
<1>2. /\ g.state = f.state /\ g.step = f.step /\ g.total = f.total
      /\ g.init = f.init /\ g.planning = f.planning /\ g.execution = f.execution
      /\ g.verification = v
  BY <1>1 DEF Facts
<1> HIDE DEF g
<1>3. Left(g) = {} /\ Retries(f) < MAX_REVIEW_COUNT /\ Retries(g) = Retries(f) + 1
  BY <1>2, AbsentAssumption DEF Left, Retries
<1>4. Grounded(g)
  BY <1>2, AbsentAssumption DEF Grounded, Described, Accepted, HasResult, States
<1>5. Lives(f, g)
  BY <1>2, <1>3 DEF Lives
<1> QED
  BY <1>4, <1>5 DEF Legal, g

(* A reviewed step is open again, and no other.                            *)
LEMMA LegalReopen ==
    ASSUME NEW f \in Facts, Grounded(f), f.state = "verification", f.verification # Absent,
           Left(f) = {}, f.verification.retry > 0, NEW k \in f.verification.feedback,
           NEW p, p = [f.planning EXCEPT !.done = f.planning.done \ {k}],
           NEW g, g = After(f, Save("planning", p))
    PROVE  /\ Legal(f, g) /\ Left(g) = {k} /\ g.state = f.state /\ g.step = f.step
           /\ g.verification = f.verification
<1>1. g = [f EXCEPT !.planning = p]
  BY FieldsAfter
<1>2. /\ g.state = f.state /\ g.step = f.step /\ g.total = f.total
      /\ g.init = f.init /\ g.planning = p /\ g.execution = f.execution
      /\ g.verification = f.verification
  BY <1>1 DEF Facts
<1>3. /\ f.planning # Absent /\ f.planning \in PlanData
      /\ f.planning.size \in 0 .. MaxSteps
  BY DEF Grounded, Accepted, Facts, OrAbsent, PlanData
<1>4. /\ p \in PlanData /\ p # Absent
      /\ p.size = f.planning.size /\ p.total = f.planning.total
      /\ p.done = f.planning.done \ {k}
  BY <1>3, AbsentAssumption DEF PlanData
<1>5. k \in 1 .. p.size /\ k \in Steps
  <2>1. f.verification.feedback \subseteq 1 .. f.planning.size
    BY <1>3 DEF Grounded
  <2>2. 1 .. f.planning.size \subseteq Steps
    BY <1>3, TaskAssumption DEF Steps
  <2> QED
    BY <1>4, <2>1, <2>2
<1>6. Left(g) = 1 .. p.size \ p.done /\ 1 .. p.size \ f.planning.done = {}
  BY <1>2, <1>3, <1>4 DEF Left, Uncompleted
<1>7. Left(g) = {k}
  BY <1>4, <1>5, <1>6
<1>8. Retries(g) = Retries(f) /\ Retries(f) > 0
  BY <1>2 DEF Retries
<1>9. \A i \in p.done : HasResult(g, i)
  BY <1>2, <1>3, <1>4 DEF Grounded, HasResult
<1>10. Grounded(g)
  <2>1. Described(f) /\ Accepted(f) /\ f.verification.feedback \subseteq 1 .. f.planning.size
    BY <1>3 DEF Grounded
  <2>2. Described(g)
    BY <1>2, <2>1 DEF Described
  <2>3. Accepted(g)
    BY <1>2, <1>4, <2>1 DEF Accepted
  <2> QED
    BY <1>2, <1>4, <1>9, <2>1, <2>2, <2>3, AbsentAssumption DEF Grounded, States
<1>11. Lives(f, g)
  BY <1>2, <1>5, <1>7, <1>8 DEF Lives
<1> QED
  BY <1>2, <1>7, <1>10, <1>11 DEF Legal

(* The summary of a task that is done, and the end of it.                  *)
LEMMA LegalEnd ==
    ASSUME NEW f \in Facts, Grounded(f)
    PROVE  /\ Legal(f, After(f, Save("done", TRUE)))
           /\ f.state \in {Absent, "done"} => Legal(f, After(f, ClearAll))
<1>1. Legal(f, After(f, Save("done", TRUE)))
  <2> DEFINE g == After(f, Save("done", TRUE))
  <2>1. g = [f EXCEPT !.done = TRUE]
    BY FieldsAfter
  <2>2. /\ g.state = f.state /\ g.step = f.step /\ g.total = f.total
        /\ g.init = f.init /\ g.planning = f.planning /\ g.execution = f.execution
        /\ g.verification = f.verification
    BY <2>1 DEF Facts
  <2> HIDE DEF g
  <2>3. Left(g) = Left(f) /\ Retries(g) = Retries(f)
    BY <2>2 DEF Left, Retries
  <2>4. Grounded(g)
    BY <2>2, <2>3 DEF Grounded, Described, Accepted, HasResult
  <2>5. Lives(f, g)
    BY <2>2, <2>3 DEF Lives
  <2> QED
    BY <2>4, <2>5 DEF Legal, g
<1>2. ASSUME f.state \in {Absent, "done"} PROVE Legal(f, NoFacts)
  <2>1. Grounded(NoFacts)
    BY AbsentAssumption DEF Grounded, NoFacts, States
  <2>2. Left(NoFacts) = {} /\ Retries(NoFacts) = 0 /\ NoFacts.state = Absent
    BY DEF Left, Retries, NoFacts
  <2>3. f.state = Absent => Left(f) = {} /\ Retries(f) = 0
    BY DEF Grounded, Left, Retries
  <2>4. Lives(f, NoFacts)
    BY <1>2, <2>2, <2>3 DEF Lives
  <2> QED
    BY <2>1, <2>4 DEF Legal
<1> QED
  BY <1>1, <1>2, FieldsAfter

(* Lists of writes that lead somewhere.                                    *)
LEMMA GoesLists ==
    ASSUME NEW f, NEW r
    PROVE  /\ Ready(f, r) => Goes(f, <<>>, r)
           /\ \A w : Goes1(f, w, r) => Goes(f, <<w>>, r)
           /\ \A w, x : Goes2(f, w, x, r) => Goes(f, <<w, x>>, r)
           /\ \A w, x, y : Legal(f, After(f, w)) /\ Goes2(After(f, w), x, y, r)
                => Goes(f, <<w, x, y>>, r)
  BY DEF Goes

(* What a job finds does not depend on what it has still to write.         *)
LEMMA GoesSame ==
    ASSUME NEW r, NEW n, n.pc = r.pc, n.act = r.act, n.step = r.step,
           n.buttons = r.buttons
    PROVE  /\ \A f : Ready(f, r) => Ready(f, n)
           /\ \A f, w : Goes1(f, w, r) => Goes1(f, w, n)
           /\ \A f, w, x : Goes2(f, w, x, r) => Goes2(f, w, x, n)
<1>1. \A f : Ready(f, r) => Ready(f, n)
  BY DEF Ready
<1> QED
  BY <1>1 DEF Goes1, Goes2

(* A job whose turn may not end silently follows if its writes lead on.    *)
LEMMA FollowsOn ==
    ASSUME NEW f, NEW shown, NEW r, Goes(f, r.todo, r),
           \/ r.pc \in {"act", "feedback", "advance", "reopen", "prefill", "post"}
           \/ r.pc = "begin" /\ ~r.prompt
    PROVE  Follows(f, shown, r)
  BY DEF Follows, Offered, Clicked, KeepsButtons

(* The job under way makes the calm chat go on.                            *)
LEMMA CalmGoesOn ==
    ASSUME Ordered, Alone, NEW j \in Jobs, NEW n,
           job[j].pc # "idle" \/ \A i \in Jobs : job[i].pc = "idle",
           \A i \in Jobs : job'[i] = IF i = j THEN n ELSE job[i],
           n.pc = "idle" => n = Idle,
           Grounded(facts'), Follows(facts', fresh', n)
    PROVE  CalmInv'
<1>1. \A i \in Jobs \ {j} : job'[i].pc = "idle"
  BY OthersIdle
<1>2. \A i \in Jobs : job'[i].pc # "idle" => Follows(facts', fresh', job'[i])
  BY <1>1
<1>3. (\A i \in Jobs : job'[i].pc = "idle") => n.pc = "idle"
  OBVIOUS
<1>4. (\A i \in Jobs : job'[i].pc = "idle") => Follows(facts', fresh', Idle)
  BY <1>3
<1> QED
  BY <1>2, <1>4 DEF CalmInv

(* A job that is under way follows.                                        *)
LEMMA CalmJob ==
    ASSUME CalmInv, NEW j \in Jobs, NEW p, At(j, p), p # "idle"
    PROVE  /\ job[j].pc = p /\ job[j].pc # "idle" /\ job[j].todo = <<>>
           /\ Grounded(facts) /\ Ready(facts, job[j])
           /\ Offered(facts, fresh, job[j]) /\ Clicked(fresh, job[j])
<1>1. job[j].pc = p /\ job[j].todo = <<>>
  BY DEF At
<1>2. Goes(facts, <<>>, job[j]) => Ready(facts, job[j])
  BY DEF Goes
<1> QED
  BY <1>1, <1>2 DEF CalmInv, Follows

(* A write is legal, and the job still follows.                            *)
LEMMA CommitCalm ==
    ASSUME TypeOK, CalmInv, Ordered, Alone, NEW j \in Jobs, Commit(j)
    PROVE  Legal(facts, facts') /\ CalmInv'
<1> DEFINE s == job[j].todo
           t == Tail(s)
           n == [job[j] EXCEPT !.todo = t]
           g == After(facts, Head(s))
<1>1. /\ s \in Seq(Write) /\ s # <<>> /\ job[j] \in Job
      /\ facts' = g /\ fresh' = fresh /\ job' = [job EXCEPT ![j] = n]
  BY DEF Commit, TypeOK, Job
<1>2. /\ n.pc = job[j].pc /\ n.act = job[j].act /\ n.step = job[j].step
      /\ n.buttons = job[j].buttons /\ n.prompt = job[j].prompt
      /\ n.above = job[j].above /\ n.todo = t
  BY <1>1 DEF Job
<1>3. \A i \in Jobs : job'[i] = IF i = j THEN n ELSE job[i]
  BY <1>1 DEF TypeOK
<1>4. job[j].pc # "idle"
  BY <1>1 DEF Ordered, Obeys
<1>5. Follows(facts, fresh, job[j])
  BY <1>4 DEF CalmInv
<1>6. Legal(facts, g) /\ Goes(g, t, n)
  <2>1. CASE Len(s) = 1 /\ Goes1(facts, s[1], job[j])
    <3>1. Head(s) = s[1] /\ t \in Seq(Write) /\ Len(t) = 0
      BY <1>1, <2>1
    <3> HIDE DEF t
    <3>2. t = <<>>
      BY <3>1
    <3>3. Legal(facts, g) /\ Ready(g, job[j])
      BY <2>1, <3>1 DEF Goes1
    <3> HIDE DEF n, g
    <3>4. Ready(g, n)
      BY <1>2, <3>3, GoesSame
    <3> QED
      BY <3>2, <3>3, <3>4, GoesLists
  <2>2. CASE Len(s) = 2 /\ Goes2(facts, s[1], s[2], job[j])
    <3>1. Head(s) = s[1] /\ Len(t) = 1 /\ t[1] = s[2]
      BY <1>1, <2>2
    <3>2. Legal(facts, g) /\ Goes1(g, t[1], job[j])
      BY <2>2, <3>1 DEF Goes2
    <3> HIDE DEF n, t, g
    <3>3. Goes1(g, t[1], n)
      BY <1>2, <3>2, GoesSame
    <3> QED
      BY <3>1, <3>2, <3>3 DEF Goes
  <2>3. CASE /\ Len(s) = 3 /\ Legal(facts, After(facts, s[1]))
             /\ Goes2(After(facts, s[1]), s[2], s[3], job[j])
    <3>1. Head(s) = s[1] /\ Len(t) = 2 /\ t[1] = s[2] /\ t[2] = s[3]
      BY <1>1, <2>3
    <3>2. Legal(facts, g) /\ Goes2(g, t[1], t[2], job[j])
      BY <2>3, <3>1
    <3> HIDE DEF n, t, g
    <3>3. Goes2(g, t[1], t[2], n)
      BY <1>2, <3>2, GoesSame
    <3> QED
      BY <3>1, <3>2, <3>3 DEF Goes
  <2> QED
    BY <1>1, <1>5, <2>1, <2>2, <2>3 DEF Follows, Goes
<1> HIDE DEF n, t, g
<1>7. Offered(g, fresh, n)
  <2>1. KeepsButtons(n) => \A a \in fresh : a.name = "proceed_to_complete"
    BY <1>1, <1>2, <1>5 DEF Follows, Offered, KeepsButtons
  <2> QED
    BY <2>1 DEF Offered, Pressable
<1>8. Clicked(fresh, n)
  BY <1>2, <1>5 DEF Follows, Clicked
<1>9. Follows(g, fresh, n)
  BY <1>2, <1>6, <1>7, <1>8 DEF Follows
<1> QED
  BY <1>1, <1>2, <1>3, <1>4, <1>6, <1>9, CalmGoesOn DEF Legal

(* A chat at rest.                                                         *)
LEMMA AtRest ==
    ASSUME CalmInv, \A i \in Jobs : job[i].pc = "idle"
    PROVE  /\ Grounded(facts) /\ StepIsOpen(facts) /\ Finished(facts)
           /\ \A a \in fresh : Pressable(facts, a)
<1>1. Idle.pc = "idle" /\ Idle.todo = <<>>
  BY DEF Idle
<1>2. Follows(facts, fresh, Idle) /\ Grounded(facts)
  BY DEF CalmInv
<1>3. Ready(facts, Idle)
  BY <1>1, <1>2 DEF Follows, Goes
<1> QED
  BY <1>1, <1>2, <1>3 DEF Follows, Offered, KeepsButtons, Ready

(* A job that has nothing to write follows when it is ready.               *)
LEMMA FollowsReady ==
    ASSUME NEW f, NEW shown, NEW r, r.todo = <<>>, Ready(f, r), Clicked(shown, r),
           KeepsButtons(r) => \A a \in shown : Pressable(f, a)
    PROVE  Follows(f, shown, r)
  BY GoesLists DEF Follows, Offered

(* The job is over.                                                        *)
LEMMA CalmEnds ==
    ASSUME TypeOK, Ordered, Alone, NEW j \in Jobs, job[j].pc # "idle",
           \A i \in Jobs : job'[i] = IF i = j THEN Idle ELSE job[i],
           Grounded(facts'), StepIsOpen(facts'), Finished(facts'),
           \A a \in fresh' : Pressable(facts', a)
    PROVE  CalmInv'
<1>1. Idle.pc = "idle" /\ Idle.todo = <<>>
  BY DEF Idle
<1>2. Ready(facts', Idle) /\ Clicked(fresh', Idle)
  BY <1>1 DEF Ready, Clicked
<1>3. Follows(facts', fresh', Idle)
  BY <1>1, <1>2, FollowsReady
<1> QED
  BY <1>3, CalmGoesOn

(* A message or a button of the last answer.                               *)
LEMMA CalmUser ==
    ASSUME ~Overlap, TypeOK, CalmInv, Ordered, Alone, NEW j \in Jobs,
           \/ StartMessage(j)
           \/ \E a \in Buttons : StartPress(j, a, FALSE)
           \/ Click(j) \/ Press(j) \/ UnknownAction(j)
    PROVE  CalmInv'
<1>1. CASE StartMessage(j)
  <2> DEFINE n == [Idle EXCEPT !.pc = "begin", !.prompt = TRUE]
  <2>1. n.pc = "begin" /\ n.todo = <<>>
    BY DEF Idle
  <2>2. /\ \A i \in Jobs : job[i].pc = "idle"
        /\ \A i \in Jobs : job'[i] = IF i = j THEN n ELSE job[i]
        /\ facts' = facts /\ fresh' = fresh
    BY <1>1 DEF StartMessage, MayStart, TypeOK
  <2> HIDE DEF n
  <2>3. Ready(facts, n) /\ Clicked(fresh, n)
    BY <2>1, <2>2, AtRest DEF Ready, Clicked
  <2>4. Follows(facts, fresh, n)
    BY <2>1, <2>2, <2>3, AtRest, FollowsReady
  <2> QED
    BY <2>1, <2>2, <2>4, AtRest, CalmGoesOn
<1>2. ASSUME NEW a \in Buttons, StartPress(j, a, FALSE) PROVE CalmInv'
  <2> DEFINE n == [Idle EXCEPT !.pc = "click", !.act = a, !.above = FALSE]
  <2>1. n.pc = "click" /\ n.todo = <<>> /\ n.act = a /\ ~n.above
    BY DEF Idle
  <2>2. /\ \A i \in Jobs : job[i].pc = "idle"
        /\ \A i \in Jobs : job'[i] = IF i = j THEN n ELSE job[i]
        /\ facts' = facts /\ fresh' = fresh /\ a \in fresh
    BY <1>2 DEF StartPress, MayStart, TypeOK
  <2> HIDE DEF n
  <2>3. Ready(facts, n) /\ Clicked(fresh, n)
    BY <2>1, <2>2, AtRest DEF Ready, Clicked
  <2>4. Follows(facts, fresh, n)
    BY <2>1, <2>2, <2>3, AtRest, FollowsReady
  <2> QED
    BY <2>1, <2>2, <2>4, AtRest, CalmGoesOn
<1>3. CASE Click(j)
  <2> DEFINE n == [job[j] EXCEPT !.pc = "press", !.above = FALSE]
  <2>1. /\ job[j].pc = "click" /\ job[j].pc # "idle" /\ job[j].todo = <<>>
        /\ Grounded(facts) /\ Ready(facts, job[j]) /\ Clicked(fresh, job[j])
    BY <1>3, CalmJob DEF Click
  <2>2. n.pc = "press" /\ n.todo = <<>> /\ n.act = job[j].act
    BY <2>1 DEF TypeOK, Job
  <2>3. /\ \A i \in Jobs : job'[i] = IF i = j THEN n ELSE job[i]
        /\ facts' = facts /\ fresh' = {}
    BY <1>3, <2>1 DEF Click, TypeOK, Clicked
  <2> HIDE DEF n
  <2>4. Ready(facts, n) /\ Clicked({}, n) /\ ~KeepsButtons(n)
    BY <2>1, <2>2 DEF Ready, Clicked, KeepsButtons
  <2>5. Follows(facts, {}, n)
    BY <2>2, <2>4, FollowsReady
  <2> QED
    BY <2>1, <2>2, <2>3, <2>5, CalmGoesOn
<1>4. CASE Press(j)
  <2> DEFINE n == Writing(j, "act", <<>>)
  <2>1. /\ job[j].pc = "press" /\ job[j].pc # "idle"
        /\ Grounded(facts) /\ Ready(facts, job[j])
    BY <1>4, CalmJob DEF Press
  <2>2. n.pc = "act" /\ n.todo = <<>> /\ n.act = job[j].act
    BY DEF TypeOK, Job, Writing
  <2>3. /\ \A i \in Jobs : job'[i] = IF i = j THEN n ELSE job[i]
        /\ facts' = facts
    BY <1>4 DEF Press, TypeOK
  <2> HIDE DEF n
  <2>4. Ready(facts, n) /\ Clicked(fresh', n) /\ ~KeepsButtons(n)
    BY <2>1, <2>2 DEF Ready, Clicked, KeepsButtons
  <2>5. Follows(facts, fresh', n)
    BY <2>2, <2>4, FollowsReady
  <2> QED
    BY <2>1, <2>2, <2>3, <2>5, CalmGoesOn
<1>5. CASE UnknownAction(j)
  <2>1. /\ job[j].pc = "press" /\ job[j].pc # "idle"
        /\ Grounded(facts) /\ Ready(facts, job[j]) /\ Clicked(fresh, job[j])
    BY <1>5, CalmJob DEF UnknownAction
  <2>2. /\ \A i \in Jobs : job'[i] = IF i = j THEN Idle ELSE job[i]
        /\ facts' = facts /\ fresh' = fresh
    BY <1>5 DEF UnknownAction, End, TypeOK
  <2>3. fresh = {} /\ StepIsOpen(facts) /\ Finished(facts)
    BY <2>1 DEF Clicked, Ready
  <2> QED
    BY <2>1, <2>2, <2>3, CalmEnds
<1> QED
  BY <1>1, <1>2, <1>3, <1>4, <1>5

(* What a write of the state, of the step and of the review leaves.        *)
LEMMA StateAfter ==
    ASSUME NEW f \in Facts, NEW s \in States, NEW g, g = After(f, Save("state", s))
    PROVE  /\ g \in Facts /\ g.state = s /\ g.step = f.step
           /\ g.planning = f.planning /\ g.verification = f.verification
           /\ Left(g) = Left(f)
<1>1. g = [f EXCEPT !.state = s]
  BY FieldsAfter
<1>2. /\ g.state = s /\ g.step = f.step
      /\ g.planning = f.planning /\ g.verification = f.verification
  BY <1>1 DEF Facts
<1>3. g \in Facts
  BY SaveType, AfterType
<1> QED
  BY <1>2, <1>3 DEF Left

LEMMA StepAfter ==
    ASSUME NEW f \in Facts, NEW n \in 0 .. MaxSteps, NEW g, g = After(f, Save("step", n))
    PROVE  g.state = f.state /\ g.step = n /\ Left(g) = Left(f)
<1>1. g = [f EXCEPT !.step = n]
  BY FieldsAfter
<1>2. g.state = f.state /\ g.step = n /\ g.planning = f.planning
  BY <1>1 DEF Facts
<1> QED
  BY <1>2 DEF Left

LEMMA ReviewAfter ==
    ASSUME NEW f \in Facts, NEW v \in VerifData, NEW g, g = After(f, Save("verification", v))
    PROVE  /\ g \in Facts /\ g.state = f.state /\ g.step = f.step /\ g.planning = f.planning
           /\ g.verification = v /\ Left(g) = Left(f)
<1>1. g = [f EXCEPT !.verification = v]
  BY FieldsAfter
<1>2. /\ g.state = f.state /\ g.step = f.step
      /\ g.planning = f.planning /\ g.verification = v
  BY <1>1 DEF Facts
<1>3. g \in Facts
  BY SaveType, AfterType
<1> QED
  BY <1>2, <1>3 DEF Left

(* A job that decides on writes which lead on.                             *)
LEMMA CalmWrites ==
    ASSUME TypeOK, CalmInv, Ordered, Alone, NEW j \in Jobs, job[j].pc # "idle",
           NEW n, job' = [job EXCEPT ![j] = n], facts' = facts,
           \/ n.pc \in {"act", "feedback", "advance", "reopen", "prefill", "post"}
           \/ n.pc = "begin" /\ ~n.prompt,
           Goes(facts, n.todo, n)
    PROVE  CalmInv'
<1>1. \A i \in Jobs : job'[i] = IF i = j THEN n ELSE job[i]
  BY DEF TypeOK
<1>2. Follows(facts, fresh', n)
  BY FollowsOn
<1> QED
  BY <1>1, <1>2, CalmGoesOn DEF CalmInv

(* A job that wakes the LLM.                                               *)
Rests(f) == StepIsOpen(f) /\ Finished(f)

LEMMA CalmWake ==
    ASSUME TypeOK, CalmInv, Ordered, Alone, NEW j \in Jobs, job[j].pc # "idle",
           NEW w, WakeAfter(j, w), facts' = facts,
           \/ \E x : /\ w = <<x>> /\ Legal(facts, After(facts, x))
                     /\ Rests(After(facts, x))
           \/ \E x, y : /\ w = <<x, y>> /\ Legal(facts, After(facts, x))
                        /\ Legal(After(facts, x), After(After(facts, x), y))
                        /\ Rests(After(After(facts, x), y))
    PROVE  CalmInv'
<1> DEFINE n == [Idle EXCEPT !.pc = "begin", !.todo = w]
<1>1. n.pc = "begin" /\ n.todo = w /\ ~n.prompt
  BY DEF Idle
<1>2. job' = [job EXCEPT ![j] = n]
  BY DEF WakeAfter
<1> HIDE DEF n
<1>3. \A f : Rests(f) => Ready(f, n)
  BY <1>1 DEF Rests, Ready
<1>4. Goes(facts, w, n)
  BY <1>3, GoesLists DEF Goes1, Goes2
<1> QED
  BY <1>1, <1>2, <1>4, CalmWrites

(* The buttons that lead on to the next state.                             *)
LEMMA CalmProceed ==
    ASSUME TypeOK, CalmInv, Ordered, Alone, NEW j \in Jobs,
           \/ ProceedToPlanning(j) \/ ProceedToExecution(j)
           \/ ProceedToDone(j) \/ FinishTask(j)
    PROVE  CalmInv'
<1>0. facts \in Facts /\ Grounded(facts)
  BY DEF TypeOK, CalmInv
<1>1. CASE ProceedToPlanning(j)
  <2> DEFINE w == Save("state", "planning")
             g == After(facts, w)
  <2>1. job[j].pc # "idle" /\ facts.state = "init" /\ Ready(facts, job[j])
    BY <1>1, ActState, CalmJob DEF ProceedToPlanning, Acts
  <2>2. Described(facts)
    BY <1>1, <2>1, AbsentAssumption DEF ProceedToPlanning, Acts, At, Ready, Pressable
  <2>3. Legal(facts, g)
    BY <1>0, <2>1, <2>2, LegalState DEF Passes, States
  <2>4. g.state = "planning"
    BY <1>0, StateAfter DEF States
  <2>5. Rests(g)
    BY <2>4 DEF Rests, StepIsOpen, Finished
  <2> HIDE DEF w
  <2>6. WakeAfter(j, <<w>>) /\ facts' = facts
    BY <1>1 DEF ProceedToPlanning, w
  <2> QED
    BY <2>1, <2>3, <2>5, <2>6, CalmWake
<1>2. CASE ProceedToExecution(j)
  <2> DEFINE w == Save("state", "execution")
             x == Save("step", 1)
             g == After(facts, w)
             h == After(g, x)
  <2>1. job[j].pc # "idle" /\ facts.state = "planning" /\ Ready(facts, job[j])
    BY <1>2, ActState, CalmJob DEF ProceedToExecution, Acts
  <2>2. Accepted(facts)
    BY <1>2, <2>1 DEF ProceedToExecution, Acts, At, Ready, Pressable
  <2>3. 1 \in Left(facts)
    <3>1. facts.planning # Absent /\ facts.planning.done = {} /\ facts.planning.size > 0
      BY <1>0, <2>1, <2>2 DEF Grounded, Accepted
    <3>2. facts.planning.size \in 0 .. MaxSteps
      BY <1>0, <3>1 DEF Facts, OrAbsent, PlanData
    <3> QED
      BY <3>1, <3>2 DEF Left, Uncompleted
  <2>4. Described(facts) /\ facts.verification = Absent
    BY <1>0, <2>1 DEF Grounded
  <2>5. Legal(facts, g)
    BY <1>0, <2>1, <2>2, <2>3, <2>4, LegalState DEF Passes, States
  <2>6. g \in Facts /\ g.state = "execution" /\ Left(g) = Left(facts)
    BY <1>0, StateAfter DEF States
  <2> HIDE DEF g
  <2>7. 1 \in 0 .. MaxSteps
    BY StepsType
  <2>8. Legal(g, h)
    BY <2>5, <2>6, <2>7, LegalStep, AbsentAssumption DEF Legal, States
  <2>9. h.state = "execution" /\ h.step = 1 /\ Left(h) = Left(facts)
    BY <2>6, <2>7, StepAfter
  <2>10. Rests(h)
    BY <2>3, <2>9 DEF Rests, StepIsOpen, Finished
  <2>11. WakeAfter(j, <<w, x>>) /\ facts' = facts
    BY <1>2 DEF ProceedToExecution
  <2> HIDE DEF w, x
  <2> QED
    BY <2>1, <2>5, <2>8, <2>10, <2>11, CalmWake DEF g
<1>3. CASE ProceedToDone(j)
  <2> DEFINE w == Save("state", "done")
             g == After(facts, w)
  <2>1. job[j].pc # "idle" /\ facts.state = "verification" /\ Ready(facts, job[j])
    BY <1>3, ActState, CalmJob DEF ProceedToDone, Acts
  <2>2. Left(facts) = {}
    BY <1>3, <2>1 DEF ProceedToDone, Acts, At, Ready, Finished
  <2>3. Described(facts) /\ Accepted(facts)
    BY <1>0, <2>1 DEF Grounded
  <2>4. Legal(facts, g)
    BY <1>0, <2>1, <2>2, <2>3, LegalState DEF Passes, States
  <2>5. g.state = "done"
    BY <1>0, StateAfter DEF States
  <2>6. Rests(g)
    BY <2>5 DEF Rests, StepIsOpen, Finished
  <2> HIDE DEF w
  <2>7. WakeAfter(j, <<w>>) /\ facts' = facts
    BY <1>3 DEF ProceedToDone, w
  <2> QED
    BY <2>1, <2>4, <2>6, <2>7, CalmWake
<1>4. CASE FinishTask(j)
  <2> DEFINE n == [Idle EXCEPT !.pc = "post", !.todo = <<ClearAll>>]
  <2>1. job[j].pc # "idle" /\ facts.state = "done"
    BY <1>4, ActState DEF FinishTask
  <2>2. Legal(facts, After(facts, ClearAll)) /\ After(facts, ClearAll) = NoFacts
    BY <1>0, <2>1, LegalEnd, FieldsAfter
  <2>3. n.pc = "post" /\ n.todo = <<ClearAll>> /\ n.buttons = {}
    BY DEF Idle
  <2>4. job' = [job EXCEPT ![j] = n] /\ facts' = facts
    BY <1>4 DEF FinishTask
  <2> HIDE DEF n
  <2>5. Ready(NoFacts, n)
    BY <2>3, AbsentAssumption DEF Ready, StepIsOpen, Finished, NoFacts, States
  <2>6. Goes(facts, n.todo, n)
    BY <2>2, <2>3, <2>5, GoesLists DEF Goes1
  <2> QED
    BY <2>1, <2>3, <2>4, <2>6, CalmWrites
<1> QED
  BY <1>1, <1>2, <1>3, <1>4

(* A step is completed: the plan, the feedback, the next step.             *)
LEMMA CalmComplete ==
    ASSUME TypeOK, CalmInv, Ordered, Alone, NEW j \in Jobs,
           CompleteStep(j) \/ ClearFeedback(j) \/ Advance(j)
    PROVE  CalmInv'
<1>0. facts \in Facts /\ Grounded(facts)
  BY DEF TypeOK, CalmInv
<1>1. CASE CompleteStep(j)
  <2> DEFINE p == WithStep(facts.planning, facts.step)
             w == Save("planning", p)
             g == After(facts, w)
             n == [Writing(j, "feedback", <<w>>) EXCEPT !.step = facts.step]
  <2>1. job[j].pc # "idle" /\ facts.state = "execution" /\ Ready(facts, job[j])
    BY <1>1, ActState, CalmJob DEF CompleteStep, Acts
  <2>2. HasResult(facts, facts.step) /\ StepIsOpen(facts)
    BY <1>1, <2>1 DEF CompleteStep, Acts, At, Ready, Pressable
  <2>3. facts.planning # Absent
    BY <1>0, <2>1 DEF Grounded, Accepted
  <2>4. Legal(facts, g) /\ facts.step \notin Left(g) /\ g.state = "execution"
    BY <1>0, <2>1, <2>2, <2>3, LegalComplete
  <2>5. n.pc = "feedback" /\ n.todo = <<w>> /\ n.step = facts.step
    BY DEF TypeOK, Job, Writing
  <2>6. job' = [job EXCEPT ![j] = n] /\ facts' = facts
    BY <1>1, <2>3 DEF CompleteStep
  <2> HIDE DEF n, w
  <2>7. Ready(g, n)
    BY <2>4, <2>5 DEF Ready, Finished
  <2>8. Goes(facts, n.todo, n)
    BY <2>4, <2>5, <2>7, GoesLists DEF Goes1
  <2> QED
    BY <2>1, <2>5, <2>6, <2>8, CalmWrites
<1>2. CASE ClearFeedback(j)
  <2>1. /\ job[j].pc = "feedback" /\ job[j].pc # "idle"
        /\ facts.state = "execution" /\ Ready(facts, job[j])
    BY <1>2, CalmJob DEF ClearFeedback, Ordered, Obeys
  <2>2. CASE job' = [job EXCEPT ![j] = Writing(j, "advance", <<>>)]
    <3> DEFINE n == Writing(j, "advance", <<>>)
    <3>1. n.pc = "advance" /\ n.todo = <<>>
      BY DEF TypeOK, Job, Writing
    <3> HIDE DEF n
    <3>2. Ready(facts, n)
      BY <2>1, <3>1 DEF Ready, Finished
    <3>3. Goes(facts, n.todo, n)
      BY <3>1, <3>2, GoesLists
    <3> QED
      BY <1>2, <2>1, <2>2, <3>1, <3>3, CalmWrites DEF ClearFeedback, n
  <2>3. ASSUME facts.verification # Absent,
               job' = [job EXCEPT ![j] = Writing(j, "advance",
                  <<Save("verification", WithoutFeedback(facts.verification, job[j].step))>>)]
        PROVE  CalmInv'
    <3> DEFINE v == WithoutFeedback(facts.verification, job[j].step)
               w == Save("verification", v)
               g == After(facts, w)
               n == Writing(j, "advance", <<w>>)
    <3>1. /\ v \in VerifData /\ v.retry = Retries(facts)
          /\ v.feedback = facts.verification.feedback \ {job[j].step}
      <4>1. facts.verification \in VerifData
        BY <1>0, <2>3 DEF Facts, OrAbsent
      <4> QED
        BY <2>3, <4>1 DEF WithoutFeedback, VerifData, Retries
    <3>2. job[j].step \notin Left(facts)
      BY <2>1 DEF Ready
    <3>3. facts.planning # Absent => v.feedback \subseteq 1 .. facts.planning.size
      BY <1>0, <2>3, <3>1 DEF Grounded
    <3>4. Left(facts) \subseteq v.feedback
      BY <1>0, <2>1, <2>3, <3>1, <3>2 DEF Grounded
    <3> HIDE DEF v
    <3>5. Legal(facts, g)
      BY <1>0, <2>1, <3>1, <3>3, <3>4, LegalReview
    <3>6. g.state = "execution"
      BY <1>0, <2>1, <3>1, ReviewAfter
    <3>7. n.pc = "advance" /\ n.todo = <<w>>
      BY DEF TypeOK, Job, Writing
    <3>8. job' = [job EXCEPT ![j] = n] /\ facts' = facts
      BY <1>2, <2>3 DEF ClearFeedback, v
    <3> HIDE DEF n, w
    <3>9. Ready(g, n)
      BY <3>6, <3>7 DEF Ready, Finished
    <3>10. Goes(facts, n.todo, n)
      BY <3>5, <3>7, <3>9, GoesLists DEF Goes1
    <3> QED
      BY <2>1, <3>7, <3>8, <3>10, CalmWrites
  <2> QED
    BY <1>2, <2>2, <2>3 DEF ClearFeedback
<1>3. CASE Advance(j)
  <2>1. /\ job[j].pc = "advance" /\ job[j].pc # "idle"
        /\ facts.state = "execution"
    BY <1>3, CalmJob DEF Advance, Ordered, Obeys
  <2>2. PICK n \in 0 .. MaxSteps :
            /\ IsNextStep(facts.planning, n)
            /\ WakeAfter(j, <<Save("state", IF n = 0 THEN "verification" ELSE "execution"),
                              Save("step", n)>>)
    BY <1>3 DEF Advance
  <2> DEFINE s == IF n = 0 THEN "verification" ELSE "execution"
             w == Save("state", s)
             x == Save("step", n)
             g == After(facts, w)
             h == After(g, x)
  <2>3. /\ s \in States
        /\ n = 0 => s = "verification"
        /\ n # 0 => s = "execution"
    BY DEF States
  <2>4. Described(facts) /\ Accepted(facts) /\ facts.planning # Absent
    BY <1>0, <2>1 DEF Grounded, Accepted
  <2>5. (n = 0 => Left(facts) = {}) /\ (n # 0 => n \in Left(facts))
    BY <2>2, <2>4 DEF IsNextStep, Left, Uncompleted
  <2>6. facts.verification # Absent => Left(facts) \subseteq facts.verification.feedback
    BY <1>0, <2>1 DEF Grounded
  <2> HIDE DEF s
  <2>7. Legal(facts, g)
    BY <1>0, <2>1, <2>3, <2>4, <2>5, <2>6, LegalState DEF Passes
  <2>8. g \in Facts /\ g.state = s /\ Left(g) = Left(facts)
    BY <1>0, <2>3, StateAfter
  <2> HIDE DEF g
  <2>9. Legal(g, h)
    BY <2>3, <2>7, <2>8, LegalStep, AbsentAssumption DEF Legal, States
  <2>10. h.state = s /\ h.step = n /\ Left(h) = Left(facts)
    BY <2>8, StepAfter
  <2>11. Rests(h)
    BY <2>3, <2>5, <2>10 DEF Rests, StepIsOpen, Finished
  <2>12. WakeAfter(j, <<w, x>>) /\ facts' = facts
    BY <1>3, <2>2 DEF Advance, s
  <2> HIDE DEF w, x
  <2> QED
    BY <2>1, <2>7, <2>9, <2>11, <2>12, CalmWake DEF g
<1> QED
  BY <1>1, <1>2, <1>3

(* Two writes that are joined.                                             *)
LEMMA Joined ==
    ASSUME NEW a, NEW b
    PROVE  <<>> \o <<b>> = <<b>> /\ <<a>> \o <<b>> = <<a, b>>
<1> DEFINE S == {a, b}
           s == <<a>> \o <<b>>
<1>1. a \in S /\ b \in S
  OBVIOUS
<1> HIDE DEF S
<1>2. s \in Seq(S) /\ Len(s) = 2 /\ s[1] = a /\ s[2] = b
  BY <1>1
<1> HIDE DEF s
<1>3. s = <<a, b>>
  BY <1>2
<1>4. <<>> \o <<b>> = <<b>>
  OBVIOUS
<1> QED
  BY <1>3, <1>4 DEF s

(* A step is sent back: the retries, the plan, the state.                  *)
LEMMA CalmRework ==
    ASSUME TypeOK, CalmInv, Ordered, Alone, NEW j \in Jobs,
           Rework(j) \/ Reopen(j) \/ Prefill(j)
    PROVE  CalmInv'
<1> DEFINE f == facts
           k == job[j].act.step
           x == Save("state", "execution")
<1>0. f \in Facts /\ Grounded(f)
  BY DEF TypeOK, CalmInv
<1>1. CASE Rework(j)
  <2> DEFINE v == [f.verification EXCEPT !.retry = f.verification.retry + 1]
             w == Save("verification", v)
             g == After(f, w)
             n == [Writing(j, "reopen", <<w>>)
                      EXCEPT !.step = IF k \in f.verification.seen THEN k ELSE 0]
  <2>1. job[j].pc # "idle" /\ f.state = "verification" /\ Ready(f, job[j])
    BY <1>1, ActState, CalmJob DEF Rework, Acts, At, TypeOK, Job
  <2>2. /\ f.verification # Absent /\ k \in f.verification.feedback
        /\ f.verification.retry < MAX_REVIEW_COUNT
        /\ Left(f) = {} /\ f.step = 0
    BY <1>1, <2>1 DEF Rework, Acts, At, Ready, Pressable, Finished
  <2>3. /\ v \in VerifData /\ v.retry = f.verification.retry + 1 /\ v.retry > 0
        /\ v.feedback = f.verification.feedback
    <3>1. f.verification \in VerifData
      BY <1>0, <2>2 DEF Facts, OrAbsent
    <3> QED
      BY <3>1 DEF VerifData
  <2>4. n.pc = "reopen" /\ n.todo = <<w>> /\ n.act.step = k
    BY DEF TypeOK, Job, Writing
  <2>5. job' = [job EXCEPT ![j] = n] /\ facts' = f
    BY <1>1, <2>2 DEF Rework
  <2> HIDE DEF v
  <2>6. Legal(f, g)
    BY <1>0, <2>1, <2>2, <2>3, LegalRework
  <2>7. g.state = "verification" /\ g.step = 0 /\ g.verification = v /\ Left(g) = {}
    BY <1>0, <2>1, <2>2, <2>3, ReviewAfter
  <2> HIDE DEF n, w, k
  <2>8. Ready(g, n)
    BY <2>2, <2>3, <2>4, <2>7, AbsentAssumption DEF Ready, StepIsOpen, Finished
  <2>9. Goes(f, n.todo, n)
    BY <2>4, <2>6, <2>8, GoesLists DEF Goes1
  <2> QED
    BY <2>1, <2>4, <2>5, <2>9, CalmWrites
<1>2. CASE Reopen(j)
  <2> DEFINE p == [f.planning EXCEPT !.done = f.planning.done \ {k}]
             w == Save("planning", p)
             g == After(f, w)
             n == Writing(j, "prefill", <<w>>)
  <2>1. /\ job[j].pc = "reopen" /\ job[j].pc # "idle"
        /\ f.state = "verification" /\ Ready(f, job[j])
    BY <1>2, CalmJob DEF Reopen, Ordered, Obeys
  <2>2. /\ f.verification # Absent /\ f.verification.retry > 0
        /\ k \in f.verification.feedback
        /\ Left(f) = {} /\ f.step = 0
    BY <2>1 DEF Ready, Finished
  <2>3. f.planning # Absent
    BY <1>0, <2>1 DEF Grounded, Accepted
  <2>4. job' = [job EXCEPT ![j] = n] /\ facts' = f
    BY <1>2, <2>3 DEF Reopen
  <2>5. n.pc = "prefill" /\ n.todo = <<w>>
    BY DEF TypeOK, Job, Writing
  <2>6. /\ Legal(f, g) /\ Left(g) = {k} /\ g.state = "verification" /\ g.step = 0
        /\ g.verification = f.verification
    BY <1>0, <2>1, <2>2, LegalReopen
  <2> HIDE DEF n, w, k
  <2>7. Ready(g, n)
    BY <2>2, <2>5, <2>6 DEF Ready, StepIsOpen
  <2>8. Goes(f, n.todo, n)
    BY <2>5, <2>6, <2>7, GoesLists DEF Goes1
  <2> QED
    BY <2>1, <2>4, <2>5, <2>8, CalmWrites
<1>3. CASE Prefill(j)
  <2> DEFINE w == Save("verification", f.verification)
             g == After(f, w)
  <2>1. /\ job[j].pc = "prefill" /\ job[j].pc # "idle"
        /\ f.state = "verification" /\ Ready(f, job[j])
    BY <1>3, CalmJob DEF Prefill, Ordered, Obeys
  <2>2. /\ Left(f) # {} /\ f.step = 0 /\ f.verification # Absent
        /\ Left(f) \subseteq f.verification.feedback
    BY <2>1 DEF Ready
  <2>3. ASSUME NEW h \in Facts, Grounded(h), h.state = "verification",
               h.step = 0, Left(h) # {}, Left(h) \subseteq h.verification.feedback
        PROVE  Legal(h, After(h, x)) /\ Rests(After(h, x))
    <3>1. Described(h) /\ Accepted(h)
      BY <2>3 DEF Grounded
    <3>2. Legal(h, After(h, x))
      BY <2>3, <3>1, LegalState DEF Passes, States
    <3>3. After(h, x).state = "execution" /\ After(h, x).step = 0
      BY <2>3, StateAfter DEF States
    <3> QED
      BY <3>2, <3>3 DEF Rests, StepIsOpen, Finished
  <2>4. Legal(f, After(f, x)) /\ Rests(After(f, x))
    BY <1>0, <2>1, <2>2, <2>3
  <2>5. f.verification \in VerifData /\ f.verification.retry = Retries(f)
    BY <1>0, <2>2 DEF Facts, OrAbsent, Retries
  <2>6. Legal(f, g)
    BY <1>0, <2>1, <2>2, <2>5, LegalReview DEF Grounded
  <2>7. /\ g \in Facts /\ g.state = "verification" /\ g.step = 0
        /\ g.verification = f.verification /\ Left(g) = Left(f)
    BY <1>0, <2>1, <2>2, <2>5, ReviewAfter
  <2> HIDE DEF g
  <2>8. Legal(g, After(g, x)) /\ Rests(After(g, x))
    BY <2>2, <2>3, <2>6, <2>7 DEF Legal
  <2>9. <<>> \o <<x>> = <<x>> /\ <<w>> \o <<x>> = <<w, x>>
    BY Joined
  <2>10. WakeAfter(j, <<x>>) \/ WakeAfter(j, <<w, x>>)
    BY <1>3, <2>9 DEF Prefill, BackToExecution
  <2>11. facts' = facts
    BY <1>3 DEF Prefill
  <2> HIDE DEF w, x
  <2> QED
    BY <2>1, <2>4, <2>6, <2>8, <2>10, <2>11, CalmWake DEF g
<1> QED
  BY <1>1, <1>2, <1>3

(* At rest, or without a task, only buttons of that state fit.             *)
LEMMA LeftOver ==
    ASSUME NEW f, f.state \in {Absent, "done"}, NEW a, Pressable(f, a)
    PROVE  a.name = "proceed_to_complete"
<1>1. HandlerOf(a) \in {"init", "planning", "execution", "verification"}
        \/ a.name = "proceed_to_complete"
  BY DEF HandlerOf
<1> QED
  BY <1>1, AbsentAssumption DEF Pressable, States

(* A message of the bot while the other jobs rest.                         *)
LEMMA OthersStay ==
    ASSUME Ordered, Alone, NEW j \in Jobs, job[j].pc # "idle",
           NEW b, NEW n, Posted(j, b, n)
    PROVE  fresh' = b /\ \A i \in Jobs : job'[i] = IF i = j THEN n ELSE job[i]
  BY OthersIdle DEF Posted

(* From the message to the call of the LLM, or to its failure.             *)
LEMMA CalmAsk ==
    ASSUME TypeOK, CalmInv, Ordered, Alone, NEW j \in Jobs,
           Begin(j) \/ Validate(j) \/ Ask(j) \/ LlmFails(j) \/ Post(j)
    PROVE  CalmInv'
<1>0. facts \in Facts /\ Grounded(facts)
  BY DEF TypeOK, CalmInv
<1>1. CASE Begin(j)
  <2>1. /\ job[j].pc = "begin" /\ job[j].pc # "idle" /\ job[j].todo = <<>>
        /\ Ready(facts, job[j]) /\ Offered(facts, fresh, job[j])
    BY <1>1, CalmJob DEF Begin
  <2>2. Rests(facts) /\ facts' = facts
    BY <1>1, <2>1 DEF Begin, Ready, Rests
  <2>3. ASSUME NEW w, NEW n, n = Writing(j, "validate", w)
        PROVE  n.pc = "validate" /\ n.todo = w
    BY <2>3 DEF TypeOK, Job, Writing
  <2>4. \A f, n : n.pc = "validate" /\ Rests(f) => Ready(f, n)
    BY DEF Ready, Rests
  <2>5. ASSUME NEW shown, \A a \in shown : Pressable(facts, a)
        PROVE  Follows(facts, shown, Writing(j, "validate", <<>>))
    BY <2>2, <2>3, <2>4, <2>5, FollowsReady DEF Clicked
  <2>6. CASE ~job[j].prompt
    <3>1. fresh' = {} /\ \A i \in Jobs :
             job'[i] = IF i = j THEN Writing(j, "validate", <<>>) ELSE job[i]
      BY <1>1, <2>1, <2>6, OthersStay DEF Begin
    <3> QED
      BY <1>0, <2>1, <2>2, <2>3, <2>5, <3>1, CalmGoesOn
  <2>7. CASE job[j].prompt /\ ~IsFinal(facts.state)
    <3>1. fresh' = fresh /\ \A i \in Jobs :
             job'[i] = IF i = j THEN Writing(j, "validate", <<>>) ELSE job[i]
      BY <1>1, <2>7 DEF Begin, TypeOK
    <3>2. \A a \in fresh : Pressable(facts, a)
      BY <2>1, <2>7 DEF Offered, KeepsButtons
    <3> QED
      BY <1>0, <2>1, <2>2, <2>3, <2>5, <3>1, <3>2, CalmGoesOn
  <2>8. CASE job[j].prompt /\ IsFinal(facts.state)
    <3> DEFINE n == Writing(j, "validate", <<ClearAll>>)
    <3>1. fresh' = fresh /\ \A i \in Jobs : job'[i] = IF i = j THEN n ELSE job[i]
      BY <1>1, <2>8 DEF Begin, TypeOK
    <3>2. \A a \in fresh : a.name = "proceed_to_complete"
      BY <2>1, <2>8, LeftOver DEF Offered, KeepsButtons, IsFinal
    <3>3. n.pc = "validate" /\ n.todo = <<ClearAll>>
      BY <2>3
    <3> HIDE DEF n
    <3>4. Legal(facts, After(facts, ClearAll)) /\ After(facts, ClearAll) = NoFacts
      BY <1>0, <2>8, LegalEnd, FieldsAfter DEF IsFinal
    <3>5. Rests(NoFacts)
      BY AbsentAssumption DEF Rests, StepIsOpen, Finished, NoFacts, States
    <3>6. Goes(facts, n.todo, n)
      BY <2>4, <3>3, <3>4, <3>5, GoesLists DEF Goes1
    <3>7. Follows(facts, fresh, n)
      BY <3>2, <3>3, <3>6 DEF Follows, Offered, Clicked, Pressable
    <3> QED
      BY <1>0, <2>1, <2>2, <3>1, <3>3, <3>7, CalmGoesOn
  <2> QED
    BY <2>6, <2>7, <2>8
<1>2. CASE Validate(j)
  <2>1. /\ job[j].pc = "validate" /\ job[j].pc # "idle" /\ job[j].todo = <<>>
        /\ Ready(facts, job[j]) /\ Offered(facts, fresh, job[j])
    BY <1>2, CalmJob DEF Validate
  <2>2. Rests(facts) /\ facts' = facts /\ fresh' = fresh
    BY <1>2, <2>1 DEF Validate, Ready, Rests
  <2>3. \A a \in fresh : Pressable(facts, a)
    BY <2>1 DEF Offered, KeepsButtons
  <2>4. \A f, n : n.pc = "ask" /\ Rests(f) => Ready(f, n)
    BY DEF Ready, Rests
  <2>5. CASE facts.state # Absent
    <3> DEFINE n == Writing(j, "ask", <<>>)
    <3>1. \A i \in Jobs : job'[i] = IF i = j THEN n ELSE job[i]
      BY <1>2, <2>5 DEF Validate, TypeOK
    <3>2. n.pc = "ask" /\ n.todo = <<>>
      BY DEF TypeOK, Job, Writing
    <3> HIDE DEF n
    <3>3. Follows(facts, fresh, n)
      BY <2>2, <2>3, <2>4, <3>2, FollowsReady DEF Clicked
    <3> QED
      BY <1>0, <2>1, <2>2, <3>1, <3>2, <3>3, CalmGoesOn
  <2>6. CASE facts.state = Absent
    <3> DEFINE d == [filled |-> FALSE]
               w == Save("state", "init")
               x == Save("step", 1)
               y == Save("init", d)
               g == After(facts, w)
               h == After(g, x)
               e == After(h, y)
               n == Writing(j, "ask", <<w, x, y>>)
    <3>1. \A i \in Jobs : job'[i] = IF i = j THEN n ELSE job[i]
      BY <1>2, <2>6 DEF Validate, TypeOK
    <3>2. n.pc = "ask" /\ n.todo = <<w, x, y>>
      BY DEF TypeOK, Job, Writing
    <3>3. \A a \in fresh : a.name = "proceed_to_complete"
      BY <2>3, <2>6, LeftOver
    <3>4. Legal(facts, g)
      BY <1>0, <2>6, LegalState DEF Passes, States
    <3>5. g \in Facts /\ g.state = "init"
      BY <1>0, StateAfter DEF States
    <3>6. 1 \in 0 .. MaxSteps
      BY StepsType
    <3> HIDE DEF g
    <3>7. Legal(g, h)
      BY <3>4, <3>5, <3>6, LegalStep DEF Legal
    <3>8. h \in Facts /\ h.state = "init"
      BY <3>5, <3>6, StepAfter, SaveType, AfterType
    <3> HIDE DEF h
    <3>9. d \in InitData
      BY DEF InitData
    <3> HIDE DEF d
    <3>10. Legal(h, e)
      BY <3>7, <3>8, <3>9, LegalInit DEF Legal
    <3>11. e.state = "init"
      <4>1. e = [h EXCEPT !.init = d]
        BY <3>8, FieldsAfter
      <4> QED
        BY <3>8, <4>1 DEF Facts
    <3>12. Rests(e)
      BY <3>11 DEF Rests, StepIsOpen, Finished
    <3> HIDE DEF e, n, w, x, y
    <3>13. Ready(e, n)
      BY <2>4, <3>2, <3>12
    <3>14. Goes(facts, <<w, x, y>>, n)
      BY <3>4, <3>7, <3>10, <3>13, GoesLists DEF g, h, e, Goes1, Goes2
    <3>15. Follows(facts, fresh, n)
      BY <3>2, <3>3, <3>14 DEF Follows, Offered, Clicked, Pressable
    <3> QED
      BY <1>0, <2>1, <2>2, <3>1, <3>2, <3>15, CalmGoesOn
  <2> QED
    BY <2>5, <2>6
<1>3. CASE Ask(j)
  <2> DEFINE n == [Idle EXCEPT !.pc = "llm", !.asked = facts.state]
  <2>1. /\ job[j].pc = "ask" /\ job[j].pc # "idle" /\ job[j].todo = <<>>
        /\ Ready(facts, job[j]) /\ Offered(facts, fresh, job[j])
    BY <1>3, CalmJob DEF Ask
  <2>2. n.pc = "llm" /\ n.todo = <<>>
    BY DEF Idle
  <2>3. /\ \A i \in Jobs : job'[i] = IF i = j THEN n ELSE job[i]
        /\ facts' = facts /\ fresh' = fresh
    BY <1>3 DEF Ask, TypeOK
  <2> HIDE DEF n
  <2>4. Ready(facts, n) /\ Clicked(fresh, n)
    BY <2>1, <2>2 DEF Ready, Clicked
  <2>5. Follows(facts, fresh, n)
    BY <2>1, <2>2, <2>4, FollowsReady DEF Offered, KeepsButtons
  <2> QED
    BY <1>0, <2>1, <2>2, <2>3, <2>5, CalmGoesOn
<1>4. CASE LlmFails(j)
  <2>1. /\ job[j].pc = "llm" /\ job[j].pc # "idle" /\ job[j].todo = <<>>
        /\ Ready(facts, job[j]) /\ Offered(facts, fresh, job[j])
    BY <1>4, CalmJob DEF LlmFails
  <2>2. /\ \A i \in Jobs : job'[i] = IF i = j THEN Idle ELSE job[i]
        /\ facts' = facts /\ fresh' = fresh
    BY <1>4 DEF LlmFails, End, TypeOK
  <2>3. StepIsOpen(facts) /\ Finished(facts) /\ \A a \in fresh : Pressable(facts, a)
    BY <2>1 DEF Ready, Offered, KeepsButtons
  <2> QED
    BY <1>0, <2>1, <2>2, <2>3, CalmEnds
<1>5. CASE Post(j)
  <2>1. job[j].pc = "post" /\ job[j].pc # "idle" /\ Ready(facts, job[j])
    BY <1>5, CalmJob DEF Post
  <2>2. /\ \A i \in Jobs : job'[i] = IF i = j THEN Idle ELSE job[i]
        /\ facts' = facts /\ fresh' = job[j].buttons
    BY <1>5, <2>1, OthersStay DEF Post
  <2>3. StepIsOpen(facts) /\ Finished(facts)
        /\ \A a \in job[j].buttons : Pressable(facts, a)
    BY <2>1 DEF Ready
  <2> QED
    BY <1>0, <2>1, <2>2, <2>3, CalmEnds
<1> QED
  BY <1>1, <1>2, <1>3, <1>4, <1>5

(* A handler has taken the answer: its writes lead to facts that fit the   *)
(* button.                                                                 *)
LEMMA CalmHandled ==
    ASSUME TypeOK, CalmInv, Ordered, Alone, NEW j \in Jobs, job[j].pc # "idle",
           NEW w, NEW accepted, NEW approve, NEW a,
           Handled(j, w, accepted, approve, a), facts' = facts,
           \/ \E x : /\ w = <<x>> /\ Legal(facts, After(facts, x))
                     /\ Rests(After(facts, x))
                     /\ accepted => Pressable(After(facts, x), a)
           \/ \E x, y : /\ w = <<x, y>> /\ Legal(facts, After(facts, x))
                        /\ Legal(After(facts, x), After(After(facts, x), y))
                        /\ Rests(After(After(facts, x), y))
                        /\ Pressable(After(After(facts, x), y), a)
    PROVE  CalmInv'
<1>1. ASSUME NEW n, n.todo = w, job' = [job EXCEPT ![j] = n],
             \/ n.pc = "act" /\ n.act = a /\ accepted
             \/ n.pc = "post" /\ n.buttons = IF accepted THEN {a} ELSE {}
      PROVE  CalmInv'
  <2>1. \A f : Rests(f) /\ (accepted => Pressable(f, a)) => Ready(f, n)
    BY <1>1 DEF Rests, Ready
  <2>2. Goes(facts, n.todo, n)
    BY <1>1, <2>1, GoesLists DEF Goes1, Goes2
  <2> QED
    BY <1>1, <2>2, CalmWrites
<1>2. CASE accepted /\ approve
  <2> DEFINE n == [Idle EXCEPT !.pc = "act", !.todo = w, !.act = a]
  <2>1. n.pc = "act" /\ n.todo = w /\ n.act = a
    BY DEF Idle
  <2>2. job' = [job EXCEPT ![j] = n]
    BY <1>2 DEF Handled
  <2> HIDE DEF n
  <2> QED
    BY <1>1, <1>2, <2>1, <2>2
<1>3. CASE ~(accepted /\ approve)
  <2> DEFINE n == [Idle EXCEPT !.pc = "post", !.todo = w,
                               !.buttons = IF accepted THEN {a} ELSE {}]
  <2>1. n.pc = "post" /\ n.todo = w /\ n.buttons = IF accepted THEN {a} ELSE {}
    BY DEF Idle
  <2>2. job' = [job EXCEPT ![j] = n]
    BY <1>3 DEF Handled
  <2> HIDE DEF n
  <2> QED
    BY <1>1, <2>1, <2>2
<1> QED
  BY <1>2, <1>3

(* The handlers of INIT, PLANNING and EXECUTION.                           *)
LEMMA CalmHandlers ==
    ASSUME TypeOK, CalmInv, Ordered, Alone, NEW j \in Jobs,
           HandleInit(j) \/ HandlePlanning(j) \/ HandleExecution(j)
    PROVE  CalmInv'
<1> DEFINE f == facts
<1>0. f \in Facts /\ Grounded(f)
  BY DEF TypeOK, CalmInv
<1>1. CASE HandleInit(j)
  <2>1. job[j].pc # "idle" /\ f.state = "init" /\ facts' = f
    BY <1>1 DEF HandleInit, Answering, At
  <2>2. PICK d, accepted, approve :
            /\ d \in InitData
            /\ Handled(j, <<Save("init", d)>>, accepted, approve,
                       Button("proceed_to_planning", 0))
            /\ accepted => d.filled
    <3>1. PICK a \in Answers(job[j].asked) :
            LET accepted == a.next = "planning" /\ a.filled
                before == f.init # Absent /\ f.init.filled
            IN  Handled(j, <<Save("init", [filled |-> before \/ accepted])>>, accepted,
                        a.approve, Button("proceed_to_planning", 0))
      BY <1>1 DEF HandleInit
    <3> DEFINE accepted == a.next = "planning" /\ a.filled
               before == f.init # Absent /\ f.init.filled
               d == [filled |-> before \/ accepted]
    <3>2. (before \/ accepted) \in BOOLEAN
      OBVIOUS
    <3>3. d \in InitData
      BY <3>2 DEF InitData
    <3>4. accepted => d.filled
      OBVIOUS
    <3> QED
      BY <3>1, <3>3, <3>4
  <2> DEFINE x == Save("init", d)
             g == After(f, x)
  <2>3. Legal(f, g)
    BY <1>0, <2>1, <2>2, LegalInit
  <2>4. g.state = "init" /\ g.init = d
    <3>1. g = [f EXCEPT !.init = d]
      BY <1>0, FieldsAfter
    <3> QED
      BY <1>0, <2>1, <3>1 DEF Facts
  <2>5. Rests(g)
    BY <2>4 DEF Rests, StepIsOpen, Finished
  <2> HIDE DEF g, x
  <2>6. accepted => Described(g)
    BY <2>2, <2>4, AbsentAssumption DEF Described
  <2>7. accepted => Pressable(g, Button("proceed_to_planning", 0))
    BY <2>4, <2>6 DEF Pressable, Button, HandlerOf
  <2>8. Handled(j, <<x>>, accepted, approve, Button("proceed_to_planning", 0))
    BY <2>2 DEF x
  <2> QED
    BY <2>1, <2>3, <2>5, <2>7, <2>8, CalmHandled DEF g
<1>2. CASE HandlePlanning(j)
  <2> DEFINE b == Button("proceed_to_execution", 0)
  <2>1. job[j].pc # "idle" /\ f.state = "planning" /\ facts' = f
    BY <1>2 DEF HandlePlanning, Answering, At
  <2>2. PICK a \in Answers(job[j].asked) :
            LET accepted == a.next = "execution" /\ a.size > 0 /\ a.size = a.total
                plan == Save("planning", [total |-> a.total, size |-> a.size, done |-> {}])
            IN  Handled(j, IF accepted THEN <<plan, Save("total", a.size)>> ELSE <<plan>>,
                        accepted, a.approve, b)
    BY <1>2 DEF HandlePlanning
  <2> DEFINE p == [total |-> a.total, size |-> a.size, done |-> {}]
             accepted == a.next = "execution" /\ a.size > 0 /\ a.size = a.total
             x == Save("planning", p)
             y == Save("total", a.size)
             g == After(f, x)
             h == After(g, y)
  <2>3. /\ p \in PlanData /\ p.done = {} /\ p.size = a.size /\ p.total = a.total
        /\ a.size \in 0 .. MaxSteps
    BY AnswerType DEF AnAnswer, PlanData
  <2> HIDE DEF p
  <2>4. Legal(f, g)
    BY <1>0, <2>1, <2>3, LegalPlan
  <2>5. g \in Facts /\ g.state = "planning" /\ g.planning = p
    <3>1. g = [f EXCEPT !.planning = p]
      BY <1>0, FieldsAfter
    <3>2. g \in Facts
      BY <1>0, <2>3, SaveType, AfterType
    <3> QED
      BY <1>0, <2>1, <3>1, <3>2 DEF Facts
  <2>6. Rests(g)
    BY <2>5 DEF Rests, StepIsOpen, Finished
  <2> HIDE DEF g
  <2>7. Legal(g, h)
    BY <2>3, <2>4, <2>5, LegalTotal DEF Legal
  <2>8. h.state = "planning" /\ h.planning = p /\ h.total = a.size
    <3>1. h = [g EXCEPT !.total = a.size]
      BY <2>5, FieldsAfter
    <3> QED
      BY <2>5, <3>1 DEF Facts
  <2> HIDE DEF h, x, y
  <2>9. Rests(h)
    BY <2>8 DEF Rests, StepIsOpen, Finished
  <2>10. accepted => Accepted(h)
    BY <2>3, <2>8, AbsentAssumption DEF Accepted
  <2>11. accepted => Pressable(h, b)
    BY <2>8, <2>10 DEF Pressable, Button, HandlerOf
  <2>12. Handled(j, IF accepted THEN <<x, y>> ELSE <<x>>, accepted, a.approve, b)
    BY <2>2 DEF x, y, p
  <2> HIDE DEF accepted, b
  <2>13. CASE accepted
    BY <2>1, <2>4, <2>7, <2>9, <2>11, <2>12, <2>13, CalmHandled DEF g, h
  <2>14. CASE ~accepted
    BY <2>1, <2>4, <2>6, <2>12, <2>14, CalmHandled DEF g
  <2> QED
    BY <2>13, <2>14
<1>3. CASE HandleExecution(j)
  <2> DEFINE b == Button("proceed_to_next", 0)
  <2>1. /\ job[j].pc # "idle" /\ f.state = "execution" /\ facts' = f
        /\ StepIsOpen(f)
    BY <1>3, CalmJob DEF HandleExecution, Answering, At, Ready
  <2>2. PICK d, accepted, approve :
            /\ d \in ExecData
            /\ Handled(j, <<SaveStep(f.step, d)>>, accepted, approve, b)
            /\ accepted => d.result
    <3>1. PICK a \in Answers(job[j].asked) :
            Handled(j, <<SaveStep(f.step, [result |-> a.result])>>,
                    a.next = "execution" /\ a.result, a.approve, b)
      BY <1>3 DEF HandleExecution
    <3>2. [result |-> a.result] \in ExecData
      BY AnswerType DEF AnAnswer, ExecData
    <3>3. a.next = "execution" /\ a.result => [result |-> a.result].result
      OBVIOUS
    <3> QED
      BY <3>1, <3>2, <3>3
  <2> DEFINE k == f.step
             x == SaveStep(k, d)
             g == After(f, x)
  <2>3. k \in 0 .. MaxSteps
    BY <1>0 DEF Facts
  <2>4. f.planning # Absent => k \notin f.planning.done
    <3>1. ASSUME f.planning # Absent PROVE 0 \notin f.planning.done
      BY <1>0, <3>1 DEF Facts, OrAbsent, PlanData, Steps
    <3> QED
      BY <2>1, <3>1 DEF StepIsOpen, Left, Uncompleted
  <2>5. Legal(f, g)
    BY <1>0, <2>2, <2>3, <2>4, LegalResult
  <2>6. /\ g.state = "execution" /\ g.step = k /\ g.planning = f.planning
        /\ g.execution[k] = d
    <3>1. g = [f EXCEPT !.execution = [f.execution EXCEPT ![k] = d]]
      BY <1>0, ResultAfter
    <3>2. /\ g.state = f.state /\ g.step = f.step /\ g.planning = f.planning
          /\ g.execution = [f.execution EXCEPT ![k] = d]
      BY <1>0, <3>1 DEF Facts
    <3>3. g.execution[k] = d
      BY <1>0, <2>3, <3>2 DEF Facts
    <3> QED
      BY <2>1, <3>2, <3>3
  <2> HIDE DEF g, x
  <2>7. Rests(g)
    BY <2>1, <2>6 DEF Rests, StepIsOpen, Finished, Left
  <2>8. accepted => HasResult(g, g.step)
    BY <2>2, <2>6, AbsentAssumption DEF HasResult
  <2>9. accepted => Pressable(g, b)
    BY <2>6, <2>8 DEF Pressable, Button, HandlerOf
  <2>10. Handled(j, <<x>>, accepted, approve, b)
    BY <2>2 DEF x
  <2> HIDE DEF b
  <2> QED
    BY <2>1, <2>5, <2>7, <2>9, <2>10, CalmHandled DEF g
<1> QED
  BY <1>1, <1>2, <1>3

(* The handlers of VERIFICATION and DONE.                                  *)
LEMMA CalmReviews ==
    ASSUME TypeOK, CalmInv, Ordered, Alone, NEW j \in Jobs,
           HandleVerification(j) \/ HandleDone(j)
    PROVE  CalmInv'
<1> DEFINE f == facts
<1>0. f \in Facts /\ Grounded(f)
  BY DEF TypeOK, CalmInv
<1>1. ASSUME NEW x, NEW b, job[j].pc # "idle", facts' = f,
             job' = [job EXCEPT ![j] = [Idle EXCEPT !.pc = "post", !.todo = <<x>>,
                                                    !.buttons = b]],
             Legal(f, After(f, x)), Rests(After(f, x)),
             \A a \in b : Pressable(After(f, x), a)
      PROVE  CalmInv'
  <2> DEFINE n == [Idle EXCEPT !.pc = "post", !.todo = <<x>>, !.buttons = b]
  <2>1. n.pc = "post" /\ n.todo = <<x>> /\ n.buttons = b
    BY DEF Idle
  <2>2. job' = [job EXCEPT ![j] = n]
    BY <1>1
  <2> HIDE DEF n
  <2>3. Ready(After(f, x), n)
    BY <1>1, <2>1 DEF Ready, Rests
  <2>4. Goes(f, n.todo, n)
    BY <1>1, <2>1, <2>3, GoesLists DEF Goes1
  <2> QED
    BY <1>1, <2>1, <2>2, <2>4, CalmWrites
<1>2. CASE HandleVerification(j)
  <2>1. /\ job[j].pc # "idle" /\ f.state = "verification" /\ facts' = f
        /\ Finished(f)
    BY <1>2, CalmJob DEF HandleVerification, Answering, At, Ready
  <2> DEFINE retry == Retries(f)
  <2>2. PICK seen, poor :
            /\ seen \subseteq Steps \cap 1 .. f.total
            /\ poor \subseteq seen /\ (retry < MAX_REVIEW_COUNT \/ poor = {})
            /\ job' = [job EXCEPT ![j] = [Idle EXCEPT
                  !.pc = "post",
                  !.todo = <<Save("verification",
                              [retry |-> retry, seen |-> seen, feedback |-> seen])>>,
                  !.buttons = {Button("proceed_to_execution", k) : k \in poor}
                                  \cup {Button("proceed_to_done", 0)}]]
    <3>1. PICK a \in Answers(job[j].asked) :
            LET seen == a.seen \cap 1 .. f.total
                poor == IF retry < MAX_REVIEW_COUNT THEN a.low \cap seen ELSE {}
            IN  job' = [job EXCEPT ![j] = [Idle EXCEPT
                  !.pc = "post",
                  !.todo = <<Save("verification",
                              [retry |-> retry, seen |-> seen, feedback |-> seen])>>,
                  !.buttons = {Button("proceed_to_execution", k) : k \in poor}
                                  \cup {Button("proceed_to_done", 0)}]]
      BY <1>2 DEF HandleVerification, Retries
    <3>2. a.seen \subseteq Steps
      BY AnswerType DEF AnAnswer
    <3> DEFINE s == a.seen \cap 1 .. f.total
               p == IF retry < MAX_REVIEW_COUNT THEN a.low \cap s ELSE {}
    <3>3. /\ s \subseteq Steps \cap 1 .. f.total
          /\ p \subseteq s /\ (retry < MAX_REVIEW_COUNT \/ p = {})
      BY <3>2
    <3> QED
      BY <3>1, <3>3
  <2> DEFINE v == [retry |-> retry, seen |-> seen, feedback |-> seen]
             x == Save("verification", v)
             g == After(f, x)
             b == {Button("proceed_to_execution", k) : k \in poor}
                      \cup {Button("proceed_to_done", 0)}
  <2>3. retry \in Nat
    BY <1>0 DEF Retries, Facts, OrAbsent, VerifData
  <2>4. v \in VerifData /\ v.retry = retry /\ v.feedback = seen
    BY <2>2, <2>3 DEF VerifData
  <2>5. seen \subseteq 1 .. f.planning.size
    BY <1>0, <2>1, <2>2 DEF Grounded, Accepted
  <2> HIDE DEF v
  <2>6. Legal(f, g)
    BY <1>0, <2>1, <2>4, <2>5, LegalReview
  <2>7. g.state = "verification" /\ g.step = 0 /\ g.verification = v /\ Left(g) = {}
    BY <1>0, <2>1, <2>4, ReviewAfter DEF Finished
  <2>8. Rests(g)
    BY <2>7 DEF Rests, StepIsOpen, Finished
  <2> HIDE DEF g
  <2>9. Pressable(g, Button("proceed_to_done", 0))
    BY <2>7 DEF Pressable, Button, HandlerOf
  <2>10. ASSUME NEW k \in poor PROVE Pressable(g, Button("proceed_to_execution", k))
    <3>1. k \in seen /\ k > 0 /\ retry < MAX_REVIEW_COUNT
      BY <2>2, <2>10 DEF Steps
    <3>2. g.verification # Absent /\ k \in g.verification.feedback
          /\ g.verification.retry < MAX_REVIEW_COUNT
      BY <2>4, <2>7, <3>1, AbsentAssumption
    <3> HIDE DEF retry
    <3> QED
      BY <2>7, <3>1, <3>2 DEF Pressable, Button, HandlerOf
  <2>11. \A a \in b : Pressable(g, a)
    BY <2>9, <2>10
  <2>12. job' = [job EXCEPT ![j] = [Idle EXCEPT !.pc = "post", !.todo = <<x>>,
                                                !.buttons = b]]
    BY <2>2 DEF v
  <2> HIDE DEF b, x
  <2> QED
    BY <1>1, <2>1, <2>6, <2>8, <2>11, <2>12 DEF g
<1>3. CASE HandleDone(j)
  <2> DEFINE x == Save("done", TRUE)
             g == After(f, x)
             b == {Button("proceed_to_complete", 0)}
  <2>1. job[j].pc # "idle" /\ f.state = "done" /\ facts' = f
    BY <1>3 DEF HandleDone, Answering, At
  <2>2. Legal(f, g)
    BY <1>0, LegalEnd
  <2>3. g.state = "done"
    <3>1. g = [f EXCEPT !.done = TRUE]
      BY <1>0, FieldsAfter
    <3> QED
      BY <1>0, <2>1, <3>1 DEF Facts
  <2>4. Rests(g)
    BY <2>3 DEF Rests, StepIsOpen, Finished
  <2>5. \A a \in b : Pressable(g, a)
    <3>1. Button("proceed_to_complete", 0).name = "proceed_to_complete"
      BY DEF Button
    <3> HIDE DEF g
    <3> QED
      BY <3>1 DEF Pressable
  <2>6. job' = [job EXCEPT ![j] = [Idle EXCEPT !.pc = "post", !.todo = <<x>>,
                                               !.buttons = b]]
    BY <1>3 DEF HandleDone
  <2> HIDE DEF b, x
  <2> QED
    BY <1>1, <2>1, <2>2, <2>4, <2>5, <2>6
<1> QED
  BY <1>2, <1>3

(* A step of a calm chat keeps its invariant and is legal.                 *)
LEMMA CalmStep ==
    ASSUME ~Overlap, TypeOK, Ordered, Alone, CalmInv, CalmNext
    PROVE  CalmInv' /\ Lives(facts, facts')
<1>1. Lives(facts, facts)
  BY DEF Lives
<1>2. PICK j \in Jobs : \/ StartMessage(j)
                        \/ \E a \in Buttons : StartPress(j, a, FALSE)
                        \/ Step(j)
  BY DEF CalmNext
<1>3. CASE Commit(j)
  BY <1>3, CommitCalm DEF Legal
<1>4. CASE ~Commit(j)
  <2>1. UNCHANGED facts
    BY <1>2, <1>4, FactsStay DEF Step
  <2>2. CalmInv'
    BY <1>2, <1>4, CalmUser, CalmProceed, CalmComplete, CalmRework, CalmAsk,
       CalmHandlers, CalmReviews DEF Step, Doing, Talking
  <2> QED
    BY <1>1, <2>1, <2>2
<1> QED
  BY <1>3, <1>4

(* What lives on in a calm chat is a step of the life of a task.           *)
LEMMA LifeGoesOn ==
    ASSUME calm, calm' = calm, facts \in Facts, Lives(facts, facts')
    PROVE  [CalmLifecycle!Next]_CalmLifecycle!vars
<1> DEFINE phase == IF calm THEN facts.state ELSE Absent
           open == IF calm /\ Plan # Absent THEN Uncompleted(Plan) ELSE {}
           retries == IF calm /\ Reviewed THEN facts.verification.retry ELSE 0
<1>1. /\ phase = facts.state /\ open = Left(facts) /\ retries = Retries(facts)
      /\ phase' = facts'.state /\ open' = Left(facts') /\ retries' = Retries(facts')
  BY DEF Plan, Reviewed, Left, Retries
<1> HIDE DEF phase, open, retries
<1>2. \/ UNCHANGED <<phase, open, retries>>
      \/ Passes(phase, phase', open) /\ UNCHANGED <<open, retries>>
      \/ /\ UNCHANGED <<phase, retries>>
         /\ \/ phase = "planning" /\ open' \subseteq Steps
            \/ phase = "execution" /\ \E k \in open : open' = open \ {k}
            \/ /\ phase = "verification" /\ open = {} /\ retries > 0
               /\ \E k \in Steps : open' = {k}
      \/ /\ phase = "verification" /\ UNCHANGED <<phase, open>> /\ open = {}
         /\ retries < MAX_REVIEW_COUNT /\ retries' = retries + 1
      \/ phase = "done" /\ phase' = Absent /\ open' = {} /\ retries' = 0
  BY <1>1 DEF Lives
<1>3. open \subseteq Steps
  <2>1. facts.planning # Absent => facts.planning.size \in 0 .. MaxSteps
    BY DEF Facts, OrAbsent, PlanData
  <2>2. facts.planning # Absent => 1 .. facts.planning.size \subseteq Steps
    BY <2>1, TaskAssumption DEF Steps
  <2> QED
    BY <1>1, <2>2 DEF Left, Uncompleted
<1> QED
  BY <1>2, <1>3
  DEF Passes, phase, open, retries, CalmLifecycle!Next, CalmLifecycle!vars,
      CalmLifecycle!Move, CalmLifecycle!Decompose, CalmLifecycle!Complete,
      CalmLifecycle!SendBack, CalmLifecycle!Reopen, CalmLifecycle!Clear

(* A chat that is calm or not takes the steps of the task machine.         *)
LEMMA TurnsAreSteps == [TurnNext]_turnVars => [Next]_vars /\ calm' = calm
  BY DEF TurnNext, CalmNext, Next, turnVars, vars

(* A chat begins calm.                                                     *)
LEMMA CalmInit == Init => CalmInv
<1> SUFFICES ASSUME Init PROVE CalmInv
  OBVIOUS
<1>1. facts = NoFacts /\ fresh = {} /\ \A j \in Jobs : job[j] = Idle
  BY DEF Init
<1>2. Grounded(NoFacts) /\ StepIsOpen(NoFacts) /\ Finished(NoFacts)
  BY AbsentAssumption DEF Grounded, StepIsOpen, Finished, NoFacts, States
<1>3. Idle.pc = "idle" /\ Idle.todo = <<>>
  BY DEF Idle
<1>4. Ready(NoFacts, Idle) /\ Clicked({}, Idle)
  BY <1>2, <1>3 DEF Ready, Clicked
<1>5. Follows(NoFacts, {}, Idle)
  BY <1>3, <1>4, FollowsReady
<1> QED
  BY <1>1, <1>2, <1>3, <1>5 DEF CalmInv

(* The invariant of calm chats, with what it rests on.                     *)
LEMMA CalmKept ==
    ASSUME ~Overlap
    PROVE  TurnSpec => [](TypeOK /\ Ordered /\ Alone /\ (calm => CalmInv))
<1>1. TurnInit => Ordered /\ Alone /\ (calm => CalmInv)
  BY OrderInit, CalmInit DEF TurnInit
<1>2. TypeOK /\ Ordered /\ Alone /\ (calm => CalmInv) /\ [TurnNext]_turnVars
        => (Ordered /\ Alone /\ (calm => CalmInv))'
  <2> SUFFICES ASSUME TypeOK, Ordered, Alone, calm => CalmInv, [TurnNext]_turnVars
               PROVE  (Ordered /\ Alone /\ (calm => CalmInv))'
    OBVIOUS
  <2>1. Ordered' /\ Alone'
    BY OrderKept, TurnsAreSteps
  <2>2. ASSUME calm, TurnNext PROVE CalmInv'
    BY <2>2, CalmStep DEF TurnNext
  <2>3. ASSUME CalmInv, UNCHANGED turnVars PROVE CalmInv'
    BY <2>3 DEF turnVars, vars, CalmInv
  <2>4. calm' = calm
    BY TurnsAreSteps
  <2> QED
    BY <2>1, <2>2, <2>3, <2>4
<1>3. TurnSpec => Spec
  <2>1. TurnInit => Init
    BY DEF TurnInit
  <2>2. [TurnNext]_turnVars => [Next]_vars
    BY TurnsAreSteps
  <2> QED
    BY <2>1, <2>2, PTL DEF TurnSpec, Spec
<1> QED
  BY <1>1, <1>2, <1>3, TypeCorrect, PTL DEF TurnSpec

(* In a calm chat the work rests on a task that is described and on a plan *)
(* that was accepted whole; a completed step has its result, and a step    *)
(* that was sent back its feedback (handleUserAction of the handlers,      *)
(* makeCurStepCompleted), for any number of steps and of reworks.          *)
THEOREM CalmWorkGrounded ==
    ASSUME ~Overlap
    PROVE  TurnSpec => []CalmWorkIsGrounded
<1>1. Grounded(facts) => PlanBeforeExecution /\ NoStepUnexplained
  BY DEF Grounded, Described, Accepted, HasResult, Left, Plan, Reviewed,
         PlanBeforeExecution, NoStepUnexplained, CompletedHasResult, HasResult,
         ReopenedHasFeedback
<1>2. (calm => CalmInv) => CalmWorkIsGrounded
  BY <1>1 DEF CalmInv, CalmWorkIsGrounded
<1> QED
  BY <1>2, CalmKept, PTL

(* A calm chat goes through the life of a task: each step is completed     *)
(* once, the review comes when none is left, a step is sent back a bounded *)
(* number of times, and the task ends reviewed and whole.                  *)
THEOREM LifecycleImplemented ==
    ASSUME ~Overlap
    PROVE  TurnSpec => ImplementsLifecycle
<1>1. TurnInit => CalmLifecycle!Init
  BY DEF TurnInit, Init, NoFacts, Plan, Reviewed, CalmLifecycle!Init
<1>2. TypeOK /\ Ordered /\ Alone /\ (calm => CalmInv) /\ [TurnNext]_turnVars
        => [CalmLifecycle!Next]_CalmLifecycle!vars
  <2> SUFFICES ASSUME TypeOK, Ordered, Alone, calm => CalmInv, [TurnNext]_turnVars
               PROVE  [CalmLifecycle!Next]_CalmLifecycle!vars
    OBVIOUS
  <2>1. calm' = calm
    BY TurnsAreSteps
  <2>2. CASE calm /\ TurnNext
    <3>1. Lives(facts, facts')
      BY <2>2, CalmStep DEF TurnNext
    <3>2. facts \in Facts
      BY DEF TypeOK
    <3> QED
      BY <2>1, <2>2, <3>1, <3>2, LifeGoesOn
  <2>3. CASE ~calm
    BY <2>1, <2>3 DEF CalmLifecycle!vars
  <2>4. CASE UNCHANGED turnVars
    BY <2>4 DEF CalmLifecycle!vars, turnVars, vars, Plan, Reviewed
  <2> QED
    BY <2>2, <2>3, <2>4
<1> QED
  BY <1>1, <1>2, CalmKept, PTL DEF TurnSpec, ImplementsLifecycle, CalmLifecycle!Spec
==============================================================================
