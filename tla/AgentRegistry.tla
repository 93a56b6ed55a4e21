---------------------------- MODULE AgentRegistry ----------------------------
(***************************************************************************)
(* How a job (one call of a worker's doWork) comes by the agent it asks:   *)
(* AgentRepositoryImpl.getOrCreateAgent and deleteAgent, the callback that *)
(* configures a new agent, the memory providers that are bound to it, and  *)
(* the turn that reads and writes its context row.  Every statement on the *)
(* database is a step of its own, because nothing in the code makes them   *)
(* one transaction; the process may die between any two of them.           *)
(*                                                                         *)
(* A slot is an agent name in a chat.  JustWorkWorker deletes the agent of *)
(* a recreated slot and makes it anew for every job; the other workers     *)
(* keep theirs.  A job makes at most one agent, which is named after it.   *)
(* A worker may work in several slots, and its memory providers serve the  *)
(* agent it attached last.                                                 *)
(***************************************************************************)
EXTENDS Sequences

CONSTANTS
    Jobs,       \* calls of doWork
    Slots,      \* pairs of a system name and a chat
    Workers,    \* instances of the class of worker
    SlotOf,     \* SlotOf[j]: the slot j works in
    WorkerOf,   \* WorkerOf[j]: the instance that runs j
    Recreated,  \* slots with recreateAgent = true
    Config,     \* Config[s]: the settings that the agent of s is given
    MayOverlap, \* slots and workers where one job may begin while another runs
    NoAgent,    \* null for an agent id
    NoRow       \* null for a context row

(* A prompt that is blank, a list of tools that is empty and a list of     *)
(* memory types that is null are settings that are not given.              *)
Settings == {"prompt", "tools", "memory"}

ASSUME RegistryAssumption ==
    /\ SlotOf \in [Jobs -> Slots]
    /\ WorkerOf \in [Jobs -> Workers]
    /\ Recreated \subseteq Slots
    /\ Config \in [Slots -> SUBSET Settings]
    /\ MayOverlap \subseteq Slots \cup Workers
    /\ NoAgent \notin Jobs
    /\ NoRow \notin Seq(Jobs)

VARIABLES
    overlap,    \* slots and workers whose jobs do not wait, fixed at Init
    agents,     \* rows of the table of agents
    bound,      \* agents with a row in agent_to_chat
    context,    \* context[a]: the history in a's context row
    settings,   \* settings[a]: what the callback has saved for a
    provider,   \* provider[w]: the agent the memory providers of w serve
    pc,         \* pc[j]: where job j is
    agent,      \* agent[j]: the agent j works with, or the one it deletes
    prompt,     \* prompt[j]: the agent whose prompt j has read, or NoAgent
    request,    \* request[j]: the history and the restriction j asks with
    answered    \* answered[s]: jobs answered in slot s (not in the program)

vars == <<overlap, agents, bound, context, settings, provider, pc, agent,
          prompt, request, answered>>
rows == <<agents, bound, context, settings>>
asked == <<prompt, request>>

Agents == Jobs

(* The callback saves a setting after those.                               *)
Before == [prompt |-> {}, tools |-> {"prompt"}, memory |-> {"prompt", "tools"}]

(* A job that is over holds nothing.                                       *)
NoRequest == [restricted |-> FALSE, history |-> <<>>]

Locations == {"new", "clearing", "deleting", "looking", "inserting",
              "initialising", "binding", "configuring", "attaching",
              "prompting", "reading", "asking", "ended"}

Request == [restricted : BOOLEAN, history : Seq(Jobs)]

TypeOK ==
    /\ overlap \subseteq MayOverlap
    /\ agents \subseteq Agents /\ bound \subseteq agents
    /\ context \in [Agents -> Seq(Jobs) \cup {NoRow}]
    /\ settings \in [Agents -> SUBSET Settings]
    /\ provider \in [Workers -> Agents \cup {NoAgent}]
    /\ pc \in [Jobs -> Locations]
    /\ agent \in [Jobs -> Agents \cup {NoAgent}]
    /\ prompt \in [Jobs -> Agents \cup {NoAgent}]
    /\ request \in [Jobs -> Request]
    /\ answered \in [Slots -> Seq(Jobs)]

Init ==
    /\ overlap \in SUBSET MayOverlap
    /\ agents = {} /\ bound = {}
    /\ context = [a \in Agents |-> NoRow]
    /\ settings = [a \in Agents |-> {}]
    /\ provider = [w \in Workers |-> NoAgent]
    /\ pc = [j \in Jobs |-> "new"]
    /\ agent = [j \in Jobs |-> NoAgent]
    /\ prompt = [j \in Jobs |-> NoAgent]
    /\ request = [j \in Jobs |-> NoRequest]
    /\ answered = [s \in Slots |-> <<>>]

-----------------------------------------------------------------------------
(* getAgentBySystemNameAndChatId joins the agents with their bindings and  *)
(* returns one of the rows it finds.                                       *)
Found(s) == {a \in bound : SlotOf[a] = s}

Idle(j) == pc[j] \in {"new", "ended"}

MayBegin(j) ==
    /\ pc[j] = "new"
    /\ \A k \in Jobs : ~Idle(k) =>
         /\ SlotOf[k] = SlotOf[j] => SlotOf[j] \in overlap
         /\ WorkerOf[k] = WorkerOf[j] => WorkerOf[j] \in overlap

Move(j, from, to) ==
    /\ pc[j] = from
    /\ pc' = [pc EXCEPT ![j] = to]
    /\ UNCHANGED overlap

End(j, from) ==
    /\ Move(j, from, "ended")
    /\ agent' = [agent EXCEPT ![j] = NoAgent]
    /\ prompt' = [prompt EXCEPT ![j] = NoAgent]
    /\ request' = [request EXCEPT ![j] = NoRequest]

(* Mutant of FindOld: the agent of the last job is taken over.             *)
KeepOld(j) ==
    /\ MayBegin(j) /\ SlotOf[j] \in Recreated
    /\ Move(j, "new", "looking")
    /\ UNCHANGED <<rows, provider, agent, asked, answered>>

(* deleteAgent: the agent to delete is looked up.                          *)
FindOld(j) ==
    /\ MayBegin(j) /\ SlotOf[j] \in Recreated
    /\ \/ /\ \E a \in Found(SlotOf[j]) : agent' = [agent EXCEPT ![j] = a]
          /\ Move(j, "new", "clearing")
       \/ /\ Found(SlotOf[j]) = {}
          /\ Move(j, "new", "looking")
          /\ UNCHANGED agent
    /\ UNCHANGED <<rows, provider, asked, answered>>

ClearContext(j) ==
    /\ Move(j, "clearing", "deleting")
    /\ context' = [context EXCEPT ![agent[j]] = NoRow]
    /\ UNCHANGED <<agents, bound, settings, provider, agent, asked, answered>>

(* The row goes, and with it (ON DELETE CASCADE) the binding, the links to *)
(* the facts and to the memory types, and the context row.                 *)
DeleteAgent(j) ==
    /\ Move(j, "deleting", "looking")
    /\ agents' = agents \ {agent[j]}
    /\ bound' = bound \ {agent[j]}
    /\ context' = [context EXCEPT ![agent[j]] = NoRow]
    /\ settings' = [settings EXCEPT ![agent[j]] = {}]
    /\ UNCHANGED <<provider, agent, asked, answered>>

(* Mutant of LookUp: an agent of a kept slot is not looked for.            *)
LookUpNothing(j) ==
    /\ \/ pc[j] = "looking"
       \/ MayBegin(j) /\ SlotOf[j] \notin Recreated
    /\ agent' = [agent EXCEPT ![j] = NoAgent]
    /\ pc' = [pc EXCEPT ![j] = "inserting"]
    /\ UNCHANGED <<overlap, rows, provider, asked, answered>>

(* getOrCreateAgent: an agent that is found is returned as it is.          *)
LookUp(j) ==
    /\ \/ pc[j] = "looking"
       \/ MayBegin(j) /\ SlotOf[j] \notin Recreated
    /\ \/ /\ \E a \in Found(SlotOf[j]) : agent' = [agent EXCEPT ![j] = a]
          /\ pc' = [pc EXCEPT ![j] = "attaching"]
       \/ /\ Found(SlotOf[j]) = {}
          /\ agent' = [agent EXCEPT ![j] = NoAgent]
          /\ pc' = [pc EXCEPT ![j] = "inserting"]
    /\ UNCHANGED <<overlap, rows, provider, asked, answered>>

InsertAgent(j) ==
    /\ Move(j, "inserting", "initialising")
    /\ agents' = agents \cup {j}
    /\ agent' = [agent EXCEPT ![j] = j]
    /\ UNCHANGED <<bound, context, settings, provider, asked, answered>>

CreateDefaultContext(j) ==
    /\ Move(j, "initialising", "binding")
    /\ context' = [context EXCEPT ![agent[j]] = <<>>]
    /\ UNCHANGED <<agents, bound, settings, provider, agent, asked, answered>>

(* Mutant of BindAgentToChat: the callback is forgotten.                   *)
BindUnconfigured(j) ==
    /\ Move(j, "binding", "attaching")
    /\ bound' = bound \cup {agent[j]}
    /\ UNCHANGED <<agents, context, settings, provider, agent, asked, answered>>

BindAgentToChat(j) ==
    /\ Move(j, "binding", "configuring")
    /\ bound' = bound \cup {agent[j]}
    /\ UNCHANGED <<agents, context, settings, provider, agent, asked, answered>>

Unsaved(j) == Config[SlotOf[j]] \ settings[agent[j]]

(* onCreateCallback: one setting after another, each if it is given and    *)
(* for a row that is still there (the foreign keys see to it), and then    *)
(* getAgentById.                                                           *)
Configure(j) ==
    /\ Move(j, "configuring", "configuring")
    /\ agent[j] \in agents
    /\ \E x \in Unsaved(j) :
         /\ Before[x] \cap Unsaved(j) = {}
         /\ settings' = [settings EXCEPT ![agent[j]] = @ \cup {x}]
    /\ UNCHANGED <<agents, bound, context, provider, agent, asked, answered>>

Configured(j) ==
    /\ Move(j, "configuring", "attaching")
    /\ agent[j] \in agents /\ Unsaved(j) = {}
    /\ UNCHANGED <<rows, provider, agent, asked, answered>>

AgentIsGone(j) ==
    /\ End(j, "configuring")
    /\ agent[j] \notin agents
    /\ UNCHANGED <<rows, provider, answered>>

(* Mutant of AttachProviders: providers that serve an agent go on with it. *)
KeepBinding(j) ==
    /\ Move(j, "attaching", "prompting")
    /\ provider' = [provider EXCEPT ![WorkerOf[j]] = IF @ = NoAgent THEN agent[j] ELSE @]
    /\ UNCHANGED <<rows, agent, asked, answered>>

(* MemoryProviderFactory.create: the providers are fields of the worker's  *)
(* factory and are told whom to serve.                                     *)
AttachProviders(j) ==
    /\ Move(j, "attaching", "prompting")
    /\ provider' = [provider EXCEPT ![WorkerOf[j]] = agent[j]]
    /\ UNCHANGED <<rows, agent, asked, answered>>

PromptOf(a) ==
    IF a # NoAgent /\ "prompt" \in settings[a] THEN a ELSE NoAgent

(* getMemoryContext: the prompt of the agent the providers serve now.      *)
ReadPrompt(j) ==
    /\ Move(j, "prompting", "reading")
    /\ prompt' = [prompt EXCEPT ![j] = PromptOf(provider[WorkerOf[j]])]
    /\ UNCHANGED <<rows, provider, agent, request, answered>>

HistoryOf(a) == IF context[a] = NoRow THEN <<>> ELSE context[a]

(* The history and the allowed tools are read for the id the job has.      *)
ReadAgent(j) ==
    /\ Move(j, "reading", "asking")
    /\ request' = [request EXCEPT ![j] =
         [restricted |-> "tools" \in settings[agent[j]],
          history |-> HistoryOf(agent[j])]]
    /\ UNCHANGED <<rows, provider, agent, prompt, answered>>

(* saveContextState is an UPDATE: it changes nothing when the row is gone. *)
Reply(j) ==
    /\ End(j, "asking")
    /\ context' = [context EXCEPT ![agent[j]] =
         IF @ = NoRow THEN @ ELSE Append(request[j].history, j)]
    /\ answered' = [answered EXCEPT ![SlotOf[j]] = Append(@, j)]
    /\ UNCHANGED <<agents, bound, settings, provider>>

LlmFails(j) ==
    /\ End(j, "asking")
    /\ UNCHANGED <<rows, provider, answered>>

(* The process dies: the rows stay, the jobs and the providers are gone.   *)
Crash ==
    /\ \E j \in Jobs : ~Idle(j)
    /\ pc' = [j \in Jobs |-> IF Idle(j) THEN pc[j] ELSE "ended"]
    /\ agent' = [j \in Jobs |-> NoAgent]
    /\ prompt' = [j \in Jobs |-> NoAgent]
    /\ request' = [j \in Jobs |-> NoRequest]
    /\ provider' = [w \in Workers |-> NoAgent]
    /\ UNCHANGED <<overlap, rows, answered>>

Step(j) ==
    \/ FindOld(j) \/ ClearContext(j) \/ DeleteAgent(j)
    \/ LookUp(j) \/ InsertAgent(j) \/ CreateDefaultContext(j)
    \/ BindAgentToChat(j) \/ Configure(j) \/ Configured(j) \/ AgentIsGone(j)
    \/ AttachProviders(j) \/ ReadPrompt(j) \/ ReadAgent(j)
    \/ Reply(j) \/ LlmFails(j)

Next == Crash \/ \E j \in Jobs : Step(j)

Spec == Init /\ [][Next]_vars

-----------------------------------------------------------------------------
Serial == Slots \ overlap

Asking(j) == pc[j] = "asking"

(* A name in a chat means one agent, however often the process dies while  *)
(* an agent is made or deleted: getAgentBySystemNameAndChatId may say      *)
(* LIMIT 1 without an order.                                               *)
OneAgentPerSlot ==
    \A a, b \in bound : SlotOf[a] = SlotOf[b] /\ SlotOf[a] \in Serial => a = b

(* The jobs of one worker come one after another: an agent is never told   *)
(* to be what another agent is.  In a recreated slot it is told what its   *)
(* configuration says and may use the tools that are listed there, or, as  *)
(* an empty list means, every tool: an agent that a crash left half        *)
(* configured is never asked there.                                        *)
AskedAsConfigured ==
    \A j \in Jobs :
      Asking(j) /\ WorkerOf[j] \notin overlap =>
        /\ prompt[j] \in {agent[j], NoAgent}
        /\ SlotOf[j] \in Serial \cap Recreated =>
             /\ prompt[j] = IF "prompt" \in Config[SlotOf[j]] THEN agent[j] ELSE NoAgent
             /\ request[j].restricted = ("tools" \in Config[SlotOf[j]])

(* recreateAgent: the job begins with no history ("с чистой историей на    *)
(* старте").  In the other slots it goes on from every turn answered.      *)
HistoryIsTheSlots ==
    \A j \in Jobs :
      Asking(j) /\ SlotOf[j] \in Serial =>
        request[j].history =
          IF SlotOf[j] \in Recreated THEN <<>> ELSE answered[SlotOf[j]]

=============================================================================
