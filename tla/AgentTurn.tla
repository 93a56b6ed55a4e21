------------------------------ MODULE AgentTurn ------------------------------
(***************************************************************************)
(* One agent and its conversation: AIAgent.process, the tool loop of       *)
(* ToolCallOrchestratorImpl, the context strategies and the commands that  *)
(* change the strategy.  A turn reads the saved context, talks to the LLM  *)
(* for as long as it asks for tools and then writes a context built from   *)
(* what it read at the start.  Nothing keeps two turns of an agent apart:  *)
(* a reminder, a second message or a command may run while the LLM thinks. *)
(*                                                                         *)
(* A message is its role, the turns its text speaks of and, for tool calls *)
(* and tool results, the iteration of the loop and a number: how many      *)
(* calls, or which of them is answered.  A summary is the set of turns it  *)
(* covers.  Branching is a module of its own; the empty strategy keeps     *)
(* nothing.                                                                *)
(***************************************************************************)
EXTENDS Integers, Sequences, SequencesExt

CONSTANTS
    Turns,          \* the messages sent to the agent
    FirstParams,    \* the params the agent is created with
    Targets,        \* the params the setup commands are given
    FactNames,      \* the facts an extraction may find
    MAX_TOOL_LOOPS,
    DEFAULT_WINDOW,
    MaxCalls,       \* bound: tool calls in one answer of the LLM
    MaxSetups,      \* bound: setup commands
    MaxOverlapping, \* bound: setup commands where turns may overlap
    BlankAnswers    \* may the LLM answer with a blank text?

Kinds == {"full", "window", "summary", "facts"}

Params == [kind : Kinds, size : Int, extra : Nat]

ASSUME TurnAssumption ==
    /\ FirstParams \in Params
    /\ Targets \subseteq Params
    /\ MAX_TOOL_LOOPS \in Nat \ {0} /\ DEFAULT_WINDOW \in Nat
    /\ {MaxCalls, MaxSetups, MaxOverlapping} \subseteq Nat
    /\ BlankAnswers \in BOOLEAN

VARIABLES
    calm,       \* does nothing overlap or stop?  Fixed at the start
    strategy,   \* contextStrategyType in the agent's row
    params,     \* the settings column of its context row
    context,    \* the context column: an AContextState
    pc,         \* pc[t]: where turn t is
    using,      \* using[t]: the strategy t was started with
    history,    \* history[t]: newMessages, what t has read and added
    round,      \* round[t]: loopIndex
    toSave,     \* toSave[t]: the state t is about to save
    setup,      \* the setup command that is running
    setups,     \* how many setup commands were given
    log,        \* the messages of the saved turns, in the order of the saves
    seen        \* seen[t]: the turns the state told of when t read it

vars == <<calm, strategy, params, context, pc, using, history, round, toSave,
          setup, setups, log, seen>>

-----------------------------------------------------------------------------
Message(role, turns, r, n) ==
    [role |-> role, turns |-> turns, round |-> r, n |-> n]

Messages ==
    [role : {"user", "assistant", "calls", "tool", "summary", "facts"},
     turns : SUBSET Turns, round : 0..MAX_TOOL_LOOPS, n : 0..MaxCalls]

States ==
    [kind : Kinds, messages : Seq(Messages), covered : SUBSET Turns,
     facts : SUBSET FactNames]

EmptyState(kind) ==
    [kind |-> kind, messages |-> <<>>, covered |-> {}, facts |-> {}]

(* getContextState(...) as? AContextState.X ?: AContextState.X(...)        *)
StateAs(kind) == IF context.kind = kind THEN context ELSE EmptyState(kind)

(* The limits of the strategy; those of another strategy do not count.     *)
WindowOf(kind) == IF params.kind = kind THEN params.size ELSE DEFAULT_WINDOW

LastOf(ms, n) == IF Len(ms) <= n THEN ms ELSE SubSeq(ms, Len(ms) - n + 1, Len(ms))

TurnsIn(ms) == UNION {m.turns : m \in ToSet(ms)}

(* The turns a state can tell the LLM about.                               *)
Known(state) == TurnsIn(state.messages) \cup state.covered

(* The messages of ms that are in S, in their order.                       *)
Among(S, ms) ==
    LET kept[i \in 0..Len(ms)] ==
          IF i = 0 THEN <<>>
          ELSE IF ms[i] \in S THEN Append(kept[i - 1], ms[i]) ELSE kept[i - 1]
    IN  kept[Len(ms)]

NoSetup == [pc |-> "none"]

TypeOK ==
    /\ calm \in BOOLEAN
    /\ strategy \in Kinds
    /\ params \in Params
    /\ context \in States
    /\ pc \in [Turns -> {"new", "begun", "asking", "answered", "saving",
                         "done", "failed", "thrown", "stopped"}]
    /\ using \in [Turns -> Kinds]
    /\ history \in [Turns -> Seq(Messages)]
    /\ round \in [Turns -> 0..MAX_TOOL_LOOPS]
    /\ toSave \in [Turns -> States]
    /\ setup \in {NoSetup} \cup
         [pc : {"agent", "params", "state"}, target : Targets,
          migrate : BOOLEAN, messages : Seq(Messages)]
    /\ setups \in Nat
    /\ log \in Seq(Messages)
    /\ seen \in [Turns -> SUBSET Turns]

(* A new agent has the type of its params and a Full state whatever the    *)
(* type is.                                                                *)
Init ==
    /\ calm \in BOOLEAN
    /\ strategy = FirstParams.kind
    /\ params = FirstParams
    /\ context = EmptyState("full")
    /\ pc = [t \in Turns |-> "new"]
    /\ using = [t \in Turns |-> FirstParams.kind]
    /\ history = [t \in Turns |-> <<>>]
    /\ round = [t \in Turns |-> 0]
    /\ toSave = [t \in Turns |-> EmptyState("full")]
    /\ setup = NoSetup
    /\ setups = 0
    /\ log = <<>>
    /\ seen = [t \in Turns |-> {}]

Running == {t \in Turns : pc[t] \in {"begun", "asking", "answered", "saving"}}

MayStart == calm => Running = {} /\ setup = NoSetup

-----------------------------------------------------------------------------
(* AIAgentFactory reads the agent's row and creates the strategy.          *)
Begin(t) ==
    /\ pc[t] = "new" /\ MayStart
    /\ pc' = [pc EXCEPT ![t] = "begun"]
    /\ using' = [using EXCEPT ![t] = strategy]
    /\ UNCHANGED <<calm, strategy, params, context, history, round, toSave, setup,
                   setups, log, seen>>

(* strategy.process: the messages sent to the LLM before the prompt.       *)
Snapshot(kind) ==
    LET state == StateAs(kind)
    IN  CASE kind = "full"    -> state.messages
          [] kind = "window"  -> LastOf(state.messages, WindowOf(kind))
          [] kind = "summary" ->
               (IF state.covered = {} THEN <<>>
                ELSE <<Message("summary", state.covered, 0, 0)>>) \o state.messages
          [] kind = "facts"   ->
               <<Message("facts", {}, 0, 0)>> \o LastOf(state.messages, WindowOf(kind))

(* takeLast of a negative number throws.                                   *)
BadWindow(kind) == kind \in {"window", "facts"} /\ WindowOf(kind) < 0

(* The turn of t is over, and its coroutine gone.                          *)
End(T, how) ==
    /\ pc' = [t \in Turns |-> IF t \in T THEN how ELSE pc[t]]
    /\ history' = [t \in Turns |-> IF t \in T THEN <<>> ELSE history[t]]
    /\ round' = [t \in Turns |-> IF t \in T THEN 0 ELSE round[t]]
    /\ toSave' = [t \in Turns |-> IF t \in T THEN EmptyState("full") ELSE toSave[t]]
    /\ seen' = [t \in Turns |-> IF t \in T THEN {} ELSE seen[t]]

(* The reads of the state and of the params are one step: a setup command  *)
(* writes the params before the state, a turn never writes the params, so  *)
(* every pair two reads can see is seen at once in some state.             *)
Read(t) ==
    /\ pc[t] = "begun"
    /\ \/ BadWindow(using[t]) /\ End({t}, "thrown")
       \/ /\ ~BadWindow(using[t])
          /\ pc' = [pc EXCEPT ![t] = "asking"]
          /\ history' = [history EXCEPT ![t] =
               Append(Snapshot(using[t]), Message("user", {t}, 0, 0))]
          /\ seen' = [seen EXCEPT ![t] = Known(StateAs(using[t]))]
          /\ UNCHANGED <<round, toSave>>
    /\ UNCHANGED <<calm, strategy, params, context, using, setup, setups, log>>

LlmFails(t) ==
    /\ pc[t] = "asking"
    /\ End({t}, "failed")
    /\ UNCHANGED <<calm, strategy, params, context, using, setup, setups, log>>

(* The final text, which is not added when it is blank.                    *)
FinalTexts(t) ==
    {<<Message("assistant", {t}, 0, 0)>>} \cup (IF BlankAnswers THEN {<<>>} ELSE {})

(* Mutant of Answer: on a blank answer the turn starts over.               *)
AnswerOrRetry(t) ==
    /\ pc[t] = "asking"
    /\ \E text \in FinalTexts(t) :
         /\ history' = [history EXCEPT ![t] = @ \o text]
         /\ pc' = [pc EXCEPT ![t] = IF text = <<>> THEN "begun" ELSE "answered"]
    /\ round' = [round EXCEPT ![t] = 0]
    /\ UNCHANGED <<calm, strategy, params, context, using, toSave, setup, setups,
                   log, seen>>

Answer(t) ==
    /\ pc[t] = "asking"
    /\ \E text \in FinalTexts(t) :
         history' = [history EXCEPT ![t] = @ \o text]
    /\ pc' = [pc EXCEPT ![t] = "answered"]
    /\ UNCHANGED <<calm, strategy, params, context, using, round, toSave, setup,
                   setups, log, seen>>

(* Mutant of CallsAndResults: the loop stops at the first error.           *)
CallsAndFirstResult(t, n) ==
    <<Message("calls", {t}, round[t], n), Message("tool", {t}, round[t], 1)>>

(* The assistant's message with its calls, then one result for each call.  *)
CallsAndResults(t, n) ==
    <<Message("calls", {t}, round[t], n)>>
        \o [i \in 1..n |-> Message("tool", {t}, round[t], i)]

LoopIsOver(t) == round[t] + 1 = MAX_TOOL_LOOPS

CallTools(t) ==
    /\ pc[t] = "asking"
    /\ \E n \in 1..MaxCalls, text \in FinalTexts(t) :
         LET last == LoopIsOver(t)
         IN  /\ history' = [history EXCEPT ![t] =
                  @ \o CallsAndResults(t, n) \o (IF last THEN text ELSE <<>>)]
             /\ pc' = [pc EXCEPT ![t] = IF last THEN "answered" ELSE "asking"]
    /\ round' = [round EXCEPT ![t] = @ + 1]
    /\ UNCHANGED <<calm, strategy, params, context, using, toSave, setup, setups,
                   log, seen>>

-----------------------------------------------------------------------------
(* afterResponse: the state a strategy makes of the turn's messages.  The  *)
(* state is read now, the messages are those of the start of the turn.     *)
Trimmed(kind, ms) == [StateAs(kind) EXCEPT !.messages = LastOf(ms, WindowOf(kind))]

AfterFull(t) ==
    /\ using[t] = "full"
    /\ toSave' = [toSave EXCEPT ![t] = [StateAs("full") EXCEPT !.messages = history[t]]]
    /\ pc' = [pc EXCEPT ![t] = "saving"]

(* Mutant of AfterWindow: the oldest messages of the window are kept.      *)
AfterWindowHead(t) ==
    /\ using[t] = "window" /\ ~BadWindow("window")
    /\ toSave' = [toSave EXCEPT ![t] = [StateAs("window") EXCEPT !.messages =
         SubSeq(history[t], 1, IF Len(history[t]) < WindowOf("window")
                                 THEN Len(history[t]) ELSE WindowOf("window"))]]
    /\ pc' = [pc EXCEPT ![t] = "saving"]

AfterWindow(t) ==
    /\ using[t] = "window" /\ ~BadWindow("window")
    /\ toSave' = [toSave EXCEPT ![t] = Trimmed("window", history[t])]
    /\ pc' = [pc EXCEPT ![t] = "saving"]

NeedsCompression(ms) == params.kind = "summary" /\ Len(ms) > params.size + params.extra

AfterShort(t) ==
    /\ using[t] = "summary" /\ ~NeedsCompression(history[t])
    /\ toSave' = [toSave EXCEPT ![t] = [StateAs("summary") EXCEPT !.messages = history[t]]]
    /\ pc' = [pc EXCEPT ![t] = "saving"]

ToCompress(ms) ==
    IF params.size < 0 THEN Len(ms) ELSE Len(ms) - params.size

Remaining(ms) == SubSeq(ms, ToCompress(ms) + 1, Len(ms))

(* Mutant of Summaries: it is made of the messages that are kept.          *)
SummariesOfRest(ms) ==
    {StateAs("summary").covered \cup TurnsIn(Remaining(ms))}
        \cup (IF BlankAnswers THEN {{}} ELSE {})

(* The LLM makes a new summary of the old one and the messages it is given *)
(* (or answers with nothing).                                              *)
Summaries(ms) ==
    {StateAs("summary").covered \cup TurnsIn(SubSeq(ms, 1, ToCompress(ms)))}
        \cup (IF BlankAnswers THEN {{}} ELSE {})

Compress(t) ==
    /\ using[t] = "summary" /\ NeedsCompression(history[t])
    /\ \E s \in Summaries(history[t]) :
         toSave' = [toSave EXCEPT ![t] =
           [StateAs("summary") EXCEPT !.covered = s, !.messages = Remaining(history[t])]]
    /\ pc' = [pc EXCEPT ![t] = "saving"]

(* getOrThrow, inside Result.map: the exception leaves AIAgent.process.    *)
CompressionFails(t) ==
    /\ using[t] = "summary" /\ NeedsCompression(history[t])
    /\ End({t}, "thrown")

(* The facts are what the LLM lists; a failed call counts as an empty list.*)
Extract(t) ==
    /\ using[t] = "facts" /\ ~BadWindow("facts")
    /\ \E found \in SUBSET FactNames :
         toSave' = [toSave EXCEPT ![t] =
           [Trimmed("facts", history[t]) EXCEPT !.facts = found]]
    /\ pc' = [pc EXCEPT ![t] = "saving"]

WindowThrows(t) ==
    /\ BadWindow(using[t])
    /\ End({t}, "thrown")

AfterResponse(t) ==
    /\ pc[t] = "answered"
    /\ \/ /\ \/ AfterFull(t) \/ AfterWindow(t) \/ AfterShort(t)
             \/ Compress(t) \/ Extract(t)
          /\ UNCHANGED <<history, round, seen>>
       \/ CompressionFails(t) \/ WindowThrows(t)
    /\ UNCHANGED <<calm, strategy, params, context, using, setup, setups, log>>

(* The messages of a turn itself.                                          *)
Own(t) == Among({m \in Messages : m.turns = {t} /\ m.role # "summary"}, history[t])

Save(t) ==
    /\ pc[t] = "saving"
    /\ context' = toSave[t]
    /\ log' = log \o Own(t)
    /\ End({t}, "done")
    /\ UNCHANGED <<calm, strategy, params, using, setup, setups>>

-----------------------------------------------------------------------------
(* SetupStrategyUseCase.execute: one command at a time.                    *)
SameStrategy(p) ==
    /\ strategy = p.kind
    /\ setup' = [pc |-> "params", target |-> p, migrate |-> FALSE, messages |-> <<>>]

OtherStrategy(p) ==
    /\ strategy # p.kind
    /\ setup' = [pc |-> "agent", target |-> p, migrate |-> TRUE,
                  messages |-> context.messages]

Setup(p) ==
    /\ setup = NoSetup /\ MayStart
    /\ setups < (IF calm THEN MaxSetups ELSE MaxOverlapping)
    /\ SameStrategy(p) \/ OtherStrategy(p)
    /\ setups' = setups + 1
    /\ UNCHANGED <<calm, strategy, params, context, pc, using, history, round,
                   toSave, log, seen>>

UpdateAgent ==
    /\ setup.pc = "agent"
    /\ strategy' = setup.target.kind
    /\ setup' = [setup EXCEPT !.pc = "params"]
    /\ UNCHANGED <<calm, params, context, pc, using, history, round, toSave, setups,
                   log, seen>>

(* A migration goes on to the state, unless takeLast throws there.         *)
SaveParams ==
    /\ setup.pc = "params"
    /\ params' = setup.target
    /\ setup' = IF setup.migrate /\ ~(setup.target.kind \in {"window", "facts"}
                                       /\ setup.target.size < 0)
                  THEN [setup EXCEPT !.pc = "state"]
                  ELSE NoSetup
    /\ UNCHANGED <<calm, strategy, context, pc, using, history, round, toSave,
                   setups, log, seen>>

InitialState(p, ms) ==
    [EmptyState(p.kind) EXCEPT !.messages =
       IF p.kind \in {"window", "facts"} THEN LastOf(ms, p.size) ELSE ms]

SaveState ==
    /\ setup.pc = "state"
    /\ context' = InitialState(setup.target, setup.messages)
    /\ setup' = NoSetup
    /\ UNCHANGED <<calm, strategy, params, pc, using, history, round, toSave,
                   setups, log, seen>>

(* The process ends, or the scope of the screen is cancelled.              *)
Stop ==
    /\ ~calm
    /\ Running # {} \/ setup # NoSetup
    /\ End(Running, "stopped")
    /\ setup' = NoSetup
    /\ UNCHANGED <<calm, strategy, params, context, using, setups, log>>

Work(t) ==
    Read(t) \/ Answer(t) \/ CallTools(t) \/ AfterResponse(t) \/ Save(t) \/ LlmFails(t)

Next ==
    \/ \E t \in Turns : Begin(t) \/ Work(t)
    \/ \E p \in Targets : Setup(p)
    \/ UpdateAgent \/ SaveParams \/ SaveState
    \/ Stop

Spec == Init /\ [][Next]_vars

(* The client of the LLM has no request timeout: that every call comes to  *)
(* an end, with an answer or an error, is the assumption of this fairness. *)
FairSpec == Spec /\ \A t \in Turns : WF_vars(Work(t))

-----------------------------------------------------------------------------
Answers(ms, i, j) ==
    /\ ms[j].role = "tool"
    /\ ms[j].turns = ms[i].turns /\ ms[j].round = ms[i].round

Paired(ms) ==
    \A i \in 1..Len(ms) :
      /\ ms[i].role = "calls" =>
           \A k \in 1..ms[i].n :
             i + k <= Len(ms) /\ Answers(ms, i, i + k) /\ ms[i + k].n = k
      /\ ms[i].role = "tool" =>
           /\ i > ms[i].n
           /\ ms[i - ms[i].n].role = "calls"
           /\ Answers(ms, i - ms[i].n, i)

Spoken(ms) == Among({m \in Messages : m.role \notin {"summary", "facts"}}, ms)

(* Without the results in front, whose call a window or a summary cut off. *)
FromFirst(ms) ==
    SubSeq(ms, SelectInSeq(ms, LAMBDA m : m.role # "tool"), Len(ms))

(* Every request respects the protocol of tool calls: an assistant message *)
(* with calls is followed by one result for each of them, and a result     *)
(* whose call is not there can only be the first thing that is left of the *)
(* history, however turns and changes of strategy overlap.                 *)
RequestPaired ==
    \A t \in Turns : pc[t] = "asking" => Paired(FromFirst(Spoken(history[t])))

BlankSummary(t) ==
    toSave[t].covered = {} /\ Len(toSave[t].messages) < Len(history[t])

(* What is saved of the conversation is its end, complete and in order:    *)
(* no strategy, and no change of strategy, loses a message in the middle,  *)
(* repeats one or swaps two.  (turns and setups one after another)         *)
HistoryIsTail == calm => IsSuffix(Spoken(context.messages), log)

(* What a turn with full context or summaries was told, it saves again,    *)
(* with itself, however turns and changes of strategy overlap: a turn moves*)
(* from the messages into the summary, unless the LLM summarised them all  *)
(* as nothing.  So a save drops only what was written since its turn read  *)
(* the state, and one after another nothing is forgotten.                  *)
SaveForgetsNothing ==
    [][\A t \in Turns :
         Save(t) /\ using[t] \in {"full", "summary"} /\ ~BlankSummary(t) =>
           /\ seen[t] \cup {t} \subseteq Known(context')
           /\ calm /\ using[t] = context.kind =>
                Known(context) \subseteq Known(context')]_vars

(* A request holds the summary, or the facts, once.                        *)
OneBlock ==
    \A t \in Turns : pc[t] = "asking" =>
      Len(SelectSeq(history[t], LAMBDA m : m.role \in {"summary", "facts"})) <= 1

(* Every turn comes to an end, whatever tools the LLM asks for.            *)
TurnEnds ==
    \A t \in Turns : pc[t] = "asking" ~> pc[t] \in {"done", "failed", "thrown", "stopped"}
=============================================================================
