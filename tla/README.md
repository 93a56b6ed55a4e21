# The day app, specified in TLA+

This directory specifies the core of the `day` Android app (`src/app`) and of what works beside
it in TLA+: how an agent decides what to send to the LLM and what to keep of a conversation, how
a task and a request to the support move through their states, how the facts behind them are
stored, how a job comes by its agent, how it comes by the tools of MCP servers, how pull requests
announced in Telegram are reviewed, how `rag-server` builds its index, and how the Kotlin grammar's scanner finds the end of statements,
strings and comments. TLC checks the modules on small instances, TLAPS proves the most important
properties for all of them. `PROJECT.json` lists the components, the runs, the theorems, the
lines of the code that each definition stands for, and the hazards of the code with the
properties that guard against them.

Paths of the app are relative to `src/app/src/main/java/com/example/day/`; *agent* stands for
`core/core_features/agent/`.

## The system

A chat of the app belongs to a *group*, whose kind names the worker that answers it. A message
starts a coroutine that calls `doWork` of the worker; the worker finds or makes its agent
(`AgentRepositoryImpl`), asks it (`AIAgent.process`), and writes what it has to say as messages.
Nothing serialises these coroutines: a second message, a button or another screen starts another
one on the same rows. All of them end with the scope of the screen or with the process. Works of
WorkManager (polls, reminders) run beside them and are run again after a crash. The database is
Room: one statement is atomic, two are not.

| component | state it keeps | operations | hard about it | what makes it correct |
| --- | --- | --- | --- | --- |
| Task machine: `TaskWorker`, `StateContext`, `states_config/task/` (*agent*`domain/workers/`) | the facts of a task: state, step, data of each state; buttons of old messages | message, button, answer of the LLM to one of five handlers | answers that come late, buttons that stay clickable, several writes per handler, turns that wake the LLM by themselves | the configured transitions, a plan before the work, no step completed without a result, no work taken back by a later write, a new task starts empty, every turn ends |
| State store: `StateStoreImpl` | cache, table, mutex | save, get, clearByKey, clearState | a statement and the cache are two steps; cancellation between them | one atomic map of facts; the mutex always comes back |
| Agent turn: `AIAgent`, `ToolCallOrchestratorImpl`, the context strategies, setup commands | one context row per agent, its strategy and parameters | a turn with its tool loop, a change of strategy | the row is read before and written after a call of minutes; a change of strategy is three writes | what is kept is the end of the conversation, nothing is forgotten by strategies that keep all, calls and results are paired |
| Branches: `ContextBranchingStrategy`, branch commands | branches, current branch | ask, create, delete, switch, set up | whole values are read, changed and written by turns and commands that overlap | the current branch exists, a branch is a dialogue |
| Agent registry: `AgentRepositoryImpl`, `AIAgentFactory`, `JustWorkWorker`, `AssistantWorker`, memory providers | rows of agents, bindings, context rows, facts; the agent a provider serves | find, make, configure, recreate, ask | seven statements make an agent, a crash leaves a part; a review runs several agents in one worker, whose providers are shared fields | one agent per name and chat, asked as its slot is configured, with its own history |
| Review of pull requests: `TelegramPollingWorker`, `TelegramRepositoryImpl`, `StartPrReviewUseCase`, `PrReviewWorker`, `SetPrHandleEnabledUseCase`, `AppSettings` | works of WorkManager, `lastTelegramUpdateId`, the switch, Telegram's own cursor | poll, review, save the id, enqueue the next poll, switch on and off | works run again, cancellation that is swallowed, a process that dies between any two steps, Telegram forgets | no pull request is lost, one chain of polls exactly while the switch is on, reviewed once, reviewed at last |
| Support machine: `states_config/support/` with `crm/` and the routes of `crm-server` | the facts of a request; the tickets at the CRM server | message, button, answer of the LLM to one of five handlers; create, check and update a ticket | requests that fail, are refused or lose their answer; four records keep a ticket's number; DONE is saved before the ticket is handed over | the work is about one ticket of this chat; what an operator has got stays there |
| Index: `IndexingService`, `CodeDatabase`, `MetadataExtractor`, start of `rag-server` | two indexes of chunks; descriptions, dependencies and vectors of classes | build or skip, three passes over the classes, delete orphans | models that fail, a process that dies in between, files that are edited, what is taken for unchanged | an index is one build, a described class is found, a forced run is current, a start comes to serve |
| Kotlin scanner: `scanner.c` of `rag-grammar`, its array and the rows of valid tokens | a stack of string delimiters, serialised with every token | the scan functions: string start, content and end, semicolons, safe calls, import dots, comments | versions of a parse share one scanner; looking ahead through comments; a stack that ends in `abort` | the stack is the literals that are open, nothing is written past its end, literals and comments end where Kotlin ends them |
| Orchestrator: `OrchestratorWorker`, `OrchestratorResultParser` | subtasks and results, in memory | decompose, execute, verify, retry, summarise | dependencies dropped in silence, a failing verifier counts as OK | not modelled |
| Reminders: `reminder/` | table of reminders, unique works | schedule, fire, repeat | row and work are two writes | not modelled |
| MCP client: `McpTransport`, `McpRepositoryImpl`, `McpToolsImpl`, `McpToolProvider`, `McpWorker` | table of servers, connection states, session ids, a map of tool names in each provider | list the tools of a turn, route and call, command, connect from the settings, save and delete a server | all jobs share sessions and connection states, the turns of a worker share its provider's map, errors are kept, servers restart | a turn is offered all it may have, a session is lost only for a reason, what was offered is found |
| Other workers (team, planner, step, compare, rag), chats, memory groups, LLM client, screens | rows of Room, state of screens | queries and requests | little of their own | modelled where a module depends on it |
| Search of `rag-server`, `mcp-server`, `ai-gateway`, `shared`, the generated parser | nothing between requests but a semaphore | HTTP requests | | not modelled |

They meet in few places: the task machine keeps its facts in the state store; its turns and those
of the chat are turns of `AgentTurn`, which find their agent by the registry; commands of the chat
change the context row that turns read and write; reviews are jobs of recreated agents. The
support machine is the engine of the task machine, `TaskWorker`, with another configuration. The
passes of the index parse Kotlin with the grammar the scanner belongs to.

## The modules

| module | models |
| --- | --- |
| `FactStore` | a map of facts with atomic operations |
| `StateStore` | `StateStoreImpl`: taking the mutex, the statement, bringing the cache up to date; database errors, cancellation, restart. Implements `FactStore` |
| `TaskLifecycle` | the life of a task, as its user sees it: phases, open steps, reworks |
| `TaskMachine` | `TaskWorker` and the handlers. A job is a call of `doWork` or `handleAction`. Its writes are a list, `todo`, that `Commit` carries out one by one, so that other jobs and an interruption can come between any two. Implements `TaskLifecycle` |
| `AgentTurn` | a turn: `Read` takes the snapshot, `Answer` and `CallTools` are the tool loop, `AfterResponse` makes the next state (full, window, summary, sticky facts), `Save` writes it; `seen` remembers the state a turn has read, for `SaveForgetsNothing`; `Setup`, `UpdateAgent`, `SaveParams` and `SaveState` are the statements of `SetupStrategyUseCase` |
| `Branching` | the branching strategy. A branch is the sequence of its turns; a turn or command reads the state and later saves a whole one |
| `AgentRegistry` | every statement by which a job finds, deletes, makes, configures and asks its agent; `Crash` between any two. `Config` says which settings the agent of a slot is given: a blank prompt or an empty list of tools is not saved, and an agent without a list may use every tool. `WorkerOf` says which instance of a worker, and so which memory providers, a job runs in |
| `PrPolling` | WorkManager's requests as `work[w]`, each with the place of its `doWork`; `strays` are runs that were cancelled inside `runCatching` and go on to enqueue the next poll; `confirmed` is what Telegram has forgotten |
| `SupportMachine` | the same engine with the handlers of the support. A job also goes through `crm`, a request, and `then`, where it goes on with the outcome: carried out and answered, carried out with the answer lost, or failed; an update that the server refuses counts as a success, as in `CrmRepositoryImpl`. An approval in words (`user_approve`) leads from EXECUTION to VERIFICATION without the user |
| `CodeIndex` | one start of `rag-server` after another: each transaction, each call of a model and each file read is a step, that may fail or be the last |
| `McpTools` | the jobs that list, call and connect, step by step between two requests: `Visit` goes from server to server, `SendInitialize` to `ListAnswered` are `connect`, `CallTool` to `CallAnswered` a call with its reconnect. The provider of the workers is only the names in its map (`listed`), that of the orchestrator only its `routes`, as each is injected with an instance of its own. Servers have sessions that a restart forgets |
| `KotlinScanner` | `scanner.c`: one operator per scan function, from a text and a lexer to a token or to a refusal |
| `KotlinParse` | the runtime around it: versions of a parse that are forked and dropped, each with the bytes that were serialised with its last token, and one scanner for all |
| `MC*` | values of constants for TLC; `MCTaskTurns` puts calm chats and those with old buttons into one instance of `TaskMachine` and maps the calm ones to `TaskLifecycle` |
| `*Proofs` | the theorems of the modules they extend |

Data are abstracted to what the properties tell apart. A message is a record of its role and the
turns it belongs to; a plan is its size, its announced total and the completed steps; a review is
the steps it names and those with feedback; a pull request is the number of its update; a file is
the classes it declares and refers to; a ticket is its status. The scanner is the exception: its
texts are sequences of characters, as where it stops is what it is for. What an LLM answers is
a nondeterministic choice over everything the parsers accept, as far as the handlers tell it apart,
and an error; of the numbers of steps a plan may announce, those below 0 are one, and those above
`MaxSteps` another. The fields of an answer are those that the prompt of its state asks for.
Wording, layout, logging and debug output are left out.

`StateStore` and `TaskMachine` are kept apart: the task machine takes each write of a fact as
atomic, which is what `ImplementsMap` of `StateStore` says of a store whose callers are not
cancelled.

Definitions called mutants stand before the definition they are a variant of. They are plausible
mistakes in that place of the code, used to see that each property notices one; no action uses
them.

## What the runs check

All bounds are constants of the modules. They are as small as lets every action happen and every
property be broken by a mistake; the proofs remove them for the properties they cover.

| run | configuration, bounds | shows |
| --- | --- | --- |
| `store` | two callers, one agent, two keys, each with a fact or none; errors, cancellation at every suspension, restarts | `Coherent`: cache and table agree but for the operation in between and for the facts a cancelled one left halfway; `ImplementsMap` until there is such a fact; `OperationsEnd`: nobody waits for the mutex for ever |
| `task_turns` | one job at a time. A calm chat: up to three steps and three reworks, any announced number of steps, buttons of the last answer. Any other: plans of one step, or of none with a negative number (`OneStepPlans`), buttons for two steps (`TwoButtons`), two reworks, any button ever shown, interruptions at every point | of the calm chat `CalmWorkIsGrounded`, `ImplementsLifecycle`; of both `WorkIsKept`, `TransitionsAllowed`, `JobsEnd` |
| `task_rework_prompt` | a calm chat with one step | violates `ExecutionPromptHasStep` (below) |
| `support` | one job at a time, any button ever shown, two tickets of the chat and one of another, failing requests and interruptions at every point | `RightTicket`, `TicketsKept`; `JobsEnd`, unless the LLM approves for ever in the name of the user |
| `turn` | two turns and two changes of strategy, one after another or overlapping, two calls per answer, two rounds of tools; the process may stop | `HistoryIsTail`, `RequestPaired`, `SaveForgetsNothing`, `TurnEnds` |
| `turn_two_summaries` | four turns with summaries | violates `OneBlock` (below) |
| `branch` | two turns, three commands, two branches, serial and overlapping | `BranchesAreDialogues`; one after another `TurnsStayInBranch` |
| `registry` | five jobs: a review that asks two agents, of which one has no list of tools, in one worker; a second review in another; two messages to an assistant. The jobs of one slot or of one worker may overlap (`OneOverlap`: not both), crashes at any point | `OneAgentPerSlot`, `AskedAsConfigured`, `HistoryIsTheSlots` |
| `pr_polling` | two chats, three feeds of up to three updates, pages of two, one file, four works, two upsets (a switch, a deleted chat, an interruption) | `AcknowledgedAreReviewed`, `OneChain`, `SwitchRules`, `ReviewedOnce`, `EveryPrReviewed` |
| `index` | two paths, two classes, two texts, two starts, an edit and a failure | `IndexIsItsBuild`, `UsedByIsGraph`, `StageOneFinds`, `ForcedRunIsCurrent`, `BackedKept`, `IndexingEnds` |
| `mcp` | two jobs, a server with all tools or none beside the local one, a tool, a call per turn; one of: a server saved, deleted or restarted, a request lost, a job cancelled; the process may die | `CompleteOffer`, `ErrorsHaveCauses`, `OfferedIsFound` |
| `scan` | strings of up to five symbols after the quotes, nested literals and interpolations, comments of up to four symbols, comments behind a `c` and on lines of their own in a literal, line ends with comments, nested ones and several, in front of every kind of continuation; two versions of the parse; a buffer of two | `StackIsOpenLiterals`, `StackFits`, `LiteralEnds`, `CommentWhole`, `LineCommentTransparent`, `BlockCommentTransparent`: each of the three readings of comments in the code is compared with comments in comments |

Two callers or turns are enough for every interleaving that the properties speak of: each relates
two of them, or one of them and a shared row. Plans of three steps have a first, a middle and a
last one; turns with their tool calls and a window of three have messages that are dropped, kept
and new; a page of two can be full of other updates in front of a pull request; of two tickets of
a chat one can be planned while the other is with an operator; of two starts the second finds
what the first left; with a buffer of two a third literal inside two others meets the limit; of two jobs that use a tool
server one can lose the session to the other, and one deletion or restart is what a route or a
session can be stale by.
Larger instances of `pr_polling` (three upsets, six works) were explored for their invariants
without a violation; four works and two upsets keep the liveness check in minutes.

`CHECK_DEADLOCK FALSE` stands where the instance has a finite number of turns, jobs or commands
and ends when they are used up, in `index` when the starts are, in `scan` at the end of the text,
and in `pr_polling`, where nothing happens while the switch is off. `SYMMETRY` is used in `scan`,
`registry` and `mcp` only, where all properties are invariants and the versions, the two messages
or the jobs are interchangeable.

### Fairness

* `StateStore`: strong fairness of taking the mutex, as `Mutex` serves its waiters in turn; weak
  fairness of the statement, as Room completes or fails each one.
* `TaskMachine`, `SupportMachine`, `AgentTurn`: weak fairness of a job or turn that was started. The client of the
  LLM sets no request timeout (`core/di/NetworkModule.kt:42`), so that a call comes to an end is an
  assumption, not a fact of the code. Nothing is assumed of the user.
* `CodeIndex`: weak fairness of the run, as `runBlocking` goes on from one statement to the next
  and each call of a model returns or throws. A process that is stopped is no run.
* `PrPolling`: weak fairness of each run of `doWork` and of WorkManager, strong fairness of the
  request to Telegram: one of those that are tried again and again succeeds. Nothing is assumed of
  updates, switches and interruptions.

### Where the code does something else than it says

* `task_rework_prompt`: after a rework the LLM is asked in EXECUTION without a current step
  (`VerificationStateHandler.kt:172`, `ExecutionStateHandler.kt:38`).
* `turn_two_summaries`: the summary message of a request is saved among the messages and is sent
  again beside the next one (`ContextSummaryStrategy.kt:65`).

Met while modelling, and stated in a hazard or a property rather than in a run of its own:

* Providers are fields of the factory, so of two jobs that overlap in one instance of a worker the
  first may ask with the prompt of the other's agent (`MemoryProviderFactory.kt:36`). A review
  runs its agents one after another (`PrReviewWorker.kt:48`, 110, 139), the one `JustWorkWorker` of
  a local tool may serve two chats at once; `AskedAsConfigured` is stated for workers whose jobs
  come one after another. A recreated agent whose list of tools is empty (`PrReviewWorker.kt:120`)
  is asked unrestricted, which is what an empty list means in `McpToolProvider`.
* Task: a plan may be saved with a negative number of steps and none of them
  (`PlanningStateHandler.kt:156`); it is not accepted, as it has no step.
* Support: `plans/archived/33/day33_stage4_support_state_machine.md:23` says that a ticket gets the
  status `operator` when the user asks for a human; in INIT and PLANNING there may be no ticket,
  and the user is told of an operator all the same. An answer with `user_approve` in EXECUTION
  and one that goes back in VERIFICATION wake the LLM in turn, without the user and without a
  limit (`SupportExecutionStateHandler.kt:123`). An HTTP error of an update is a success
  (`CrmRepositoryImpl.kt:69`). A ticket that is created with no next state named is created again
  with the next answer. The prompt of DONE says that the way back to INIT is automatic: only a
  mark clears the state.
* Index: `SETUP.md:390` says that new files are added automatically, while `IndexingService.kt:46`
  skips an index that has a row; an index that lost chunks is complete to the next start;
  `debug_instructions.md:202` says that a forced run cleans orphans, while `clearIndex` never
  deletes a description; when the embedding of a class fails after its text was saved, an unforced
  run leaves the old vector.
* MCP: `mcp/Module.md:35` says that the orchestrator routes calls to the appropriate server. Its
  provider keeps a route for ever (`McpToolProvider.kt:137`): only `getTools` clears the map, and
  that is called on the workers' instances, as the binding has no scope
  (`AgentCoreFeatureModule.kt:57`). After the server is deleted, calls of the tool fail with
  "Server not found" until the process ends, though another server may have it. A call of a tool
  carries no token: `callTool` takes the configuration from `getServers`, where it is null, "fetched
  from SecretsVault on demand" (`McpRepositoryImpl.kt:102`), and nobody fetches it
  (`McpToolsImpl.kt:58`), while `connect` does. A server that an overlapping or cancelled connect
  has put into error stays so until a call of a known route or a click in the settings.
* Scanner: a block comment on a line of its own is read with `advance` "so the content is available
  for MULTILINE_COMMENT" (`scanner.c:513`). Where blanks, `e`, `a`, `w` or `!` follow it, they are
  skipped (`scanner.c:558`), which moves the start of the token behind the comment: the token is
  empty, and the comment is in no token. `CommentWhole` says of such a token that it stands behind
  the whole comment and nothing but blanks. A `// line` in front of `?.` is swallowed where a safe call is valid, though the comment at
  `scanner.c:433` says that the comment is left to the parser; when `else` on a new line is followed
  by a block comment, the comment's token begins at `else`; behind a block comment `catch` and
  `finally` get the semicolon they do not get otherwise; `\$"` ends a raw string as it ends a plain
  one (`scanner.c:124`).

Other properties are stated up to an event that breaks them, named in the module: `OneChain` and
`SwitchRules` up to a poll that was cancelled in its request (`TelegramRepositoryImpl.kt:26` catches
the cancellation, and the chain survives the switch), a process that dies with two polls enqueued
or between the settings and WorkManager, and a chat that was deleted; `EveryPrReviewed` up to a
page full of other updates, which is never acknowledged. `OneAgentPerSlot` and the like speak of
names whose jobs do not overlap, `TurnsStayInBranch` of turns and commands one after another,
`RightTicket` and `TicketsKept` of jobs one after another: the code does not serialise the jobs of a
chat, and two that overlap can write a state over a ticket it was not meant for. Setting `Overlap` or `OldButtons` of `TaskMachine`, `Overlap`
of `SupportMachine` or the constants of `AgentTurn` otherwise than a configuration does shows
what then no longer holds.

## What is proved

TLAPS proves these for every value of the constants that satisfies the named assumptions.

| module | theorem | argument |
| --- | --- | --- |
| `SupportMachineProofs`, of `StateStore` | `StoreTypeCorrect`, `MutualExclusion` | `MutexHeld` is inductive with the types |
| | `CacheCoherent`, `StoreImplementsMap` (up to facts that a cancelled operation left halfway) | `Coherent` alone is not inductive: between statement and cache one needs to know that the statement was executed and what a reader has in hand. `Executed` says so; only the holder of the mutex can be there (`OneHolder`). The refinement maps `Execute` to the write and `ReadCache`, or `Return` of a miss, to the read |
| `TaskMachineProofs` | `TypeCorrect` | holds for overlapping and interrupted jobs |
| | `WorkKept` (one job at a time) | a write is decided on in one step and made in a later one. Of the writes a job still has to make only the first touches the record of the work, and it keeps what is saved (`Guarded`); with `Ordered` and `Alone` nothing comes in between |
| | `TransitionsRespected` (one job at a time) | what a job is about to write must be a transition of the state it will find: its writes are put in a row, each allowed after the one before (`Ordered`), and no other job is under way to come in between (`Alone`) |
| | `CalmWorkGrounded`, `LifecycleImplemented` (one job at a time, in `MCTaskTurns`) | what holds after every single write is `Grounded`; it is not inductive, as a write was decided on steps before it is made and rests on the button that led to it. So `CalmInv` says of the job under way that its writes are legal one after the other and end in facts that fit its place (`Goes`, `Ready`), and of the buttons shown that each still fits the facts (`Pressable`). `Lives` are the steps of `TaskLifecycle` that a legal write may map to; every other step is a stutter |
| `AgentTurnProofs` | `TurnTypeCorrect` | `TypeInv`: with the types, that a turn that asks has rounds left |
| | `RequestsPaired` | every sequence of messages that is stored, read or about to be saved is `Linked`: calls are followed by their results, and a result whose call is gone stands in front. Windows and summaries cut off beginnings, and an end of what is linked is linked |
| | `SavedIsTail` (turns and setups one after another) | `TailInv`: one is under way (`Alone`), its messages are its own (`Attributed`), and what is about to replace the saved state is an end of the log as that is (`EndsOfLog`) |
| | `SavesForgetNothing` | `Told`: what a turn was told is among the messages it read or covered by the summary it read; the action property follows, as it relates what is saved to the state read (`seen`) |
| `AgentRegistryProofs`, of `Branching` | `BranchTypeCorrect`, `CurrentBranchExists` | a save writes a whole value, so the values about to be saved must have a current branch too |
| | `BranchesStayDialogues` (with `CurrentBranchExists`) | what holds of a branch must hold of every value about to be saved, and of the turns in it that they were answered (`Recorded`): such a turn's history no longer changes |
| | `TurnsKeepToTheirBranch` (turns and commands one after another) | with nobody else under way, the state that is about to be saved differs from the saved one in the branch that was current when the turn read it |
| `AgentRegistryProofs` | `TypeCorrect`, `OneAgentPerName`, `HistoryRight` | the conjuncts of `Sound` from `Located` to `KeptHistory`: an agent is its maker's alone until it is bound (`Newborn`), its slot is empty from the search to the binding (`SlotIsFree`), one job of a serial slot is under way (`OneActive`) |
| | `AskedRight` | `OneAtWorker`: of a worker that does not overlap one job is under way, so its providers serve the agent of that job until the prompt is read (`Attached`), in whichever slot it works; `Given`: what is saved for an agent is of its slot's configuration, and all of it once the agent is attached to providers in a recreated slot |
| `PrPollingProofs` | `TypeCorrect`, `NoPullRequestLost` | the id that is saved was in the hands of a run since it asked Telegram, so what a run takes to be done (`Past`) must be reviewed as well (`PastIsReviewed`). `EventPicked`: between the offset and the update that is picked there is no pull request |
| | `OneChainOfPolls`, `SwitchRulesTheChain` | `Ruled`: the chains there are, with what the settings are about to tell WorkManager; a second one comes from a cut poll or from a death between two statements, and both are named |
| | `NoSecondReview` | `Once`: until something is interrupted the one run has in hand ids beyond the saved one, and what was told is saved or about to be |
| `CodeIndexProofs` | `IndexTypeCorrect` | each loop over chunks, declarations or classes has some left while it runs |
| | `IndexHoldsOneBuild`, `OrphansAreNotBacked` | `Building`: the chunks of an index are those of the files its build has read, but for what it still has to save |
| | `UsersAreTheGraphs`, `DescribedIsFound` | `Enriching`: what is true of the classes that the last pass has done |
| | `ForcedRunsAreCurrent` | `Progress`: what each loop of a run in which nothing failed has done for everything behind it. A class that several files declare has the description of the last of them (`LastOf`), so files behind a loop are told by their number |
| `KotlinParseProofs` | `StackInvariant`, `StackAlwaysFits` (from `NothingOverflows` and `AbortsOnlyWhenFull`), `DepthIsKept`, for every text | what each scan function does to the stack (keep, push, pop, abort) is seen without knowing where it stops; of the versions it is kept that each state is as deep as its literals are open |
| | `ParseTypeCorrect`, `StateIsOpenLiterals`, `CommentsAreWhole`, for every text | here one has to know where scans stop. The recursive functions of the scanner go on with less text left: that they exist and where they stop is proved by `RankInduction` and `TailRecursion`, in which a set stands for the predicate. `ReadCommentIs`: the loop with a counter of `scan_multiline_comment` stops where comments in comments end (`CommentEnd`). `ScanSound`: a scan stays in the text, its token of a literal's start shows the delimiter that was pushed, and its comment is whole, if the token is empty the one in front of it; what a refused scan has read hides no beginning of a comment or quote from the next one (`Tidy`). `ParseInv` carries that to the versions |
| | `LiteralsEnd`, for every text | a literal is read in several scans, so `LiteralInv` says of each version what its tokens have read of the innermost literal (`BegunIs`): no quote there closes it, and the one at the version is not escaped; every literal further out has an interpolation in it. The content ends at the first quotes that close it (`ContentEndsContent`); while the parser recovers no token of a literal is found (`RecoveryCalm`), and what other tokens take from plain text holds no quote and no backslash (`Gentle`) |
| | `LineCommentsAreTransparent`, for every text | two scans of two texts, one with the comments and one without, are followed side by side: from the symbol on where the texts are the same (`Twins`) every scan function finds the same token or leaves its lexer at the same symbol (`Alike`, `TwinScans`). That the reading of line comments gets to the next symbol (`CommentsLeadOn`) is one more induction, from one place where no comment is open to the next (`Boundary`) |
| `SupportMachineProofs` | `TypeCorrect` | holds for overlapping jobs |
| | `TicketRight`, `TicketsStay` (one job at a time) | `IInv`: the facts are right after each write a job still has to do (`Allowed`), a request is of the state it was made in (`RequestSound`), and one that hands a ticket over comes from a job that has made the request DONE or will before it asks, so that no button of VERIFICATION can close what an operator gets |
| `McpToolsProofs` | `TypeCorrect` | with `AllAsk`: whoever goes through the servers has the first one left before it, so there is a next one to go on to |
| | `OffersAreComplete` | `Whole`: while a turn lists alone, each name in the shared map is one of its offer, and nobody else lists |
| | `FailuresHaveCauses` | `Cause`: a request without a live session was disturbed, and so was whoever relies on a session that is no longer live, before it sends anything |
| | `OffersAreFound` | `Found`: unless its server was shaken, an offered tool is known of a server in the table (`OfferKnown`), and who looks for it has that server still before it (`Ahead`); what others do to connections and table keeps that, or shakes the server (`Kept`) |

Assumed of the constants: that the null values are none of the values, that bounds are natural
numbers, that the chats are finitely many, and what the modules' `ASSUME`s name. TLC evaluates
them in every run.

The attempts to prove them changed what is stated, where a larger instance or a step that could not
be proved showed it to be false:

* `SaveForgetsNothing` said that a turn's save loses nothing that was known when it was asked. A
  save that comes late brings back a turn that was saved and dropped again before: what a save may
  be measured by is the state its own turn has read (`seen`).
* `LiteralEnds` is false of literals with something like a comment on a line of its own, while the
  parser recovers from an error: then `scan_automatic_semicolon` is asked inside the literal, takes
  the comment and the quotes in it. `Plain` leaves such literals out.
* `CommentWhole` is of the first comment in a token: a `c` or `/` that an earlier scan function
  has read belongs to the token that the last one finds; and an empty token has its comment in
  front of it.
* `LineCommentTransparent` compared a text with the same text without any of its line comments. A
  comment between `?` and `.`, with its line end, is behind the next symbol and does change the
  token: with it `?.` is no safe call. Now only the comments in front of the next symbol are taken
  out.
* Alternatives of a `CASE` that overlapped were tried in order, as TLC does and the language does
  not promise; they are disjoint now.

Only model-checked are the liveness properties (`OperationsEnd`, `JobsEnd`, `TurnEnds`,
`EveryPrReviewed`, `IndexingEnds`), which are outside the prover's reach.

## Not modelled

* Screens, navigation and settings; of the console only that each message and click is a coroutine
  of its own that ends with the screen.
* HTTP, JSON and the database themselves: a request yields an answer or an error, a statement is
  atomic.
* What the text of a prompt says, and what an LLM makes of it.
* Of the servers, `mcp-server` keeps no state between calls, `ai-gateway` a semaphore released in a
  `finally`, and the search of `rag-server` ranks what the index holds. The tools of `crm-server`
  do for the LLM what its routes do; the prompts name only those that read.
* The parser of the Kotlin grammar. Nearly all of the C code of the repository, 205501 of 207086
  lines, is `rag-grammar/grammar/kotlin/src/parser.c`: tables of numbers that tree-sitter generates.
  A model of them would be the tables again. Of this file the rows that say which tokens the
  scanner may return are modelled; the rest of the C code is the scanner, which is modelled whole,
  and tree-sitter's own headers, of which the array is.
* A request to the CRM server that is still on its way when its job is cut off, and arrives after
  the next job has begun.
* `Orchestrator`: lists in memory of one job, driven by what the LLM answers. A dependency on a later
  or unknown subtask is dropped, and no property covers it.
* `Reminders`: two statements, and nothing reads a pending row again.
* Of the MCP client the transports HTTP, SSE and STDIO, which differ in how they connect; tokens; the
  local tools, which call remote ones; a server whose address is changed while it is connected; and
  a server that is disabled (only the enabled ones are offered, if there are any,
  `McpToolProvider.kt:130`). That the row, the token and the connection of a deleted server go one
  after another (`McpRepositoryImpl.kt:50`) is one step here.
  A tool call in `AgentTurn` has its outcome, a result or an error, by choice: the two models are
  not composed.

## Plan

Done, in this order: the store, the task machine on it, turns and strategies, branches, the
registry, the polls; the scanner with the parse around it, the index, the chain of polls and the
dialogues proved, the support machine with its tickets, the tools of MCP servers, proved too, the
proof that the task machine implements the life of a task, and the proofs about turns, the index
and the scanner's comments, literals and semicolons. What would come next:

1. `Orchestrator`: subtasks, dependencies, verification, retry; abstract specification: each
   subtask is executed at most twice and with the results it depends on.
2. `Reminders`: the table beside WorkManager.
3. The other transports of the MCP client, and tokens.
