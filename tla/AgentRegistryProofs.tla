------------------------- MODULE AgentRegistryProofs -------------------------
(***************************************************************************)
(* Proofs about AgentRegistry, for every set of jobs, slots and workers,   *)
(* every choice of the slots where jobs may overlap, and a process that    *)
(* may die at any step.                                                    *)
(*                                                                         *)
(* The properties need one inductive invariant, Sound, in parts: which     *)
(* agent a job holds at each step (Located, Unborn, Newborn, Doomed, Used),*)
(* that a serial slot or worker has one job under way (OneActive,          *)
(* OneAtWorker), that a job on its way to a new agent has the slot to      *)
(* itself (SlotIsFree), what is stored for the agent it then asks (Given,  *)
(* MadeNew, KeptHistory), and whom the memory providers serve (Attached).  *)
(*                                                                         *)
(* At the end, about Branching, the dialogue in an agent's context row.    *)
(***************************************************************************)
EXTENDS AgentRegistry, Branching, TLAPS

Held == {"clearing", "deleting", "initialising", "binding", "configuring",
         "attaching", "prompting", "reading", "asking"}
InUse == {"configuring", "attaching", "prompting", "reading", "asking"}

(* A job works with agents of its own slot.                                *)
Located ==
    \A j \in Jobs : pc[j] \in Held =>
      agent[j] \in Agents /\ SlotOf[agent[j]] = SlotOf[j]

(* The agent of a job that has not made one is not there.                  *)
Unborn ==
    \A j \in Jobs :
      pc[j] \in {"new", "clearing", "deleting", "looking", "inserting"} =>
        j \notin agents /\ \A k \in Jobs : agent[k] # j

(* An agent is its maker's alone until it is bound, and then has a row.    *)
Newborn ==
    \A j \in Jobs : pc[j] \in {"initialising", "binding"} =>
      /\ agent[j] = j /\ j \in agents /\ j \notin bound
      /\ \A k \in Jobs : agent[k] = j => k = j
      /\ pc[j] = "binding" => context[j] = <<>>

OneActive ==
    \A j, k \in Jobs :
      SlotOf[j] = SlotOf[k] /\ SlotOf[j] \in Serial /\ ~Idle(j) /\ ~Idle(k) =>
        j = k

(* From the search that finds nothing to the binding, the slot is empty.   *)
SlotIsFree ==
    \A j \in Jobs :
      SlotOf[j] \in Serial
      /\ pc[j] \in {"looking", "inserting", "initialising", "binding"} =>
        Found(SlotOf[j]) = {}

(* Only agents of recreated slots are deleted.                             *)
Doomed ==
    \A j \in Jobs : pc[j] \in {"clearing", "deleting"} =>
      /\ SlotOf[j] \in Recreated
      /\ SlotOf[j] \in Serial => agent[j] \in bound

Used ==
    \A j \in Jobs : SlotOf[j] \in Serial /\ pc[j] \in InUse => agent[j] \in bound

(* No agent has a setting that its slot's configuration does not give.     *)
Given == \A a \in Agents : settings[a] \subseteq Config[SlotOf[a]]

(* The agent a recreated slot's job asks is new and configured.            *)
MadeNew ==
    \A j \in Jobs : SlotOf[j] \in Serial \cap Recreated =>
      /\ pc[j] \in InUse \ {"asking"} => context[agent[j]] = <<>>
      /\ pc[j] \in {"attaching", "prompting", "reading"} =>
           settings[agent[j]] = Config[SlotOf[j]]
      /\ pc[j] = "asking" =>
           /\ request[j].restricted = ("tools" \in Config[SlotOf[j]])
           /\ request[j].history = <<>>

(* The context row of a kept slot's agent holds every turn answered.       *)
KeptHistory ==
    /\ \A a \in bound : SlotOf[a] \in Serial \ Recreated =>
         context[a] = answered[SlotOf[a]]
    /\ \A s \in Serial \ Recreated : Found(s) = {} => answered[s] = <<>>
    /\ \A j \in Jobs : SlotOf[j] \in Serial \ Recreated /\ pc[j] = "asking" =>
         request[j].history = answered[SlotOf[j]]

(* A serial worker has one job under way; its providers serve that job's   *)
(* agent until the prompt is read.                                         *)
OneAtWorker ==
    \A j, k \in Jobs :
      WorkerOf[j] = WorkerOf[k] /\ WorkerOf[j] \notin overlap /\ ~Idle(j) /\ ~Idle(k) =>
        j = k

Attached ==
    \A j \in Jobs : WorkerOf[j] \notin overlap =>
      /\ pc[j] = "prompting" => provider[WorkerOf[j]] = agent[j]
      /\ pc[j] \in {"reading", "asking"} => prompt[j] \in {agent[j], NoAgent}
      /\ SlotOf[j] \in Serial \cap Recreated /\ pc[j] \in {"reading", "asking"} =>
           prompt[j] = IF "prompt" \in Config[SlotOf[j]] THEN agent[j] ELSE NoAgent

-----------------------------------------------------------------------------
(* Every step keeps the types.                                            *)
LEMMA TypeStep ==
    TypeOK /\ Located /\ Newborn /\ [Next]_vars => TypeOK'
<1> SUFFICES ASSUME TypeOK, Located, Newborn, [Next]_vars
             PROVE  TypeOK'
  OBVIOUS
<1> USE DEF TypeOK, Move, End, rows, asked, Agents
<1>1. ASSUME NEW j \in Jobs, FindOld(j) PROVE TypeOK'
  BY <1>1 DEF FindOld, Found, Locations, MayBegin
<1>2. ASSUME NEW j \in Jobs, ClearContext(j) PROVE TypeOK'
  BY <1>2 DEF ClearContext, Located, Held, Locations
<1>3. ASSUME NEW j \in Jobs, DeleteAgent(j) PROVE TypeOK'
  BY <1>3 DEF DeleteAgent, Located, Held, Locations
<1>4. ASSUME NEW j \in Jobs, LookUp(j) PROVE TypeOK'
  BY <1>4 DEF LookUp, Found, Locations
<1>5. ASSUME NEW j \in Jobs, InsertAgent(j) PROVE TypeOK'
  BY <1>5 DEF InsertAgent, Locations
<1>6. ASSUME NEW j \in Jobs, CreateDefaultContext(j) PROVE TypeOK'
  BY <1>6 DEF CreateDefaultContext, Located, Held, Locations
<1>7. ASSUME NEW j \in Jobs, BindAgentToChat(j) PROVE TypeOK'
  BY <1>7 DEF BindAgentToChat, Newborn, Locations
<1>8. ASSUME NEW j \in Jobs, Configure(j) PROVE TypeOK'
  <2>1. Config[SlotOf[j]] \subseteq Settings /\ agent[j] \in Agents
    BY <1>8, RegistryAssumption DEF Configure, Located, Held
  <2>2. PICK x \in Settings : settings' = [settings EXCEPT ![agent[j]] = @ \cup {x}]
    BY <1>8, <2>1 DEF Configure, Unsaved
  <2>3. settings' \in [Agents -> SUBSET Settings]
    BY <2>1, <2>2
  <2> QED
    BY <1>8, <2>3 DEF Configure, Locations
<1>9. ASSUME NEW j \in Jobs, Configured(j) PROVE TypeOK'
  BY <1>9 DEF Configured, Locations
<1>10. ASSUME NEW j \in Jobs, AgentIsGone(j) PROVE TypeOK'
  BY <1>10 DEF NoRequest, Request, AgentIsGone, Locations
<1>11. ASSUME NEW j \in Jobs, AttachProviders(j) PROVE TypeOK'
  BY <1>11 DEF AttachProviders, Locations
<1>12. ASSUME NEW j \in Jobs, ReadPrompt(j) PROVE TypeOK'
  BY <1>12, RegistryAssumption DEF ReadPrompt, PromptOf, Locations
<1>13. ASSUME NEW j \in Jobs, ReadAgent(j) PROVE TypeOK'
  BY <1>13 DEF ReadAgent, Located, Held, HistoryOf, Request, Locations
<1>14. ASSUME NEW j \in Jobs, Reply(j) PROVE TypeOK'
  <2>1. agent[j] \in Agents /\ SlotOf[j] \in Slots
    BY <1>14, RegistryAssumption DEF Reply, Located, Held
  <2>2. /\ Append(request[j].history, j) \in Seq(Jobs)
        /\ Append(answered[SlotOf[j]], j) \in Seq(Jobs)
    BY <2>1 DEF Request
  <2>3. pc' \in [Jobs -> Locations]
    BY <1>14 DEF Reply, Locations
  <2>4. /\ context' \in [Agents -> Seq(Jobs) \cup {NoRow}]
        /\ answered' \in [Slots -> Seq(Jobs)]
    BY <1>14, <2>1, <2>2 DEF Reply
  <2> QED
    BY <1>14, <2>3, <2>4 DEF NoRequest, Request, Reply
<1>15. ASSUME NEW j \in Jobs, LlmFails(j) PROVE TypeOK'
  BY <1>15 DEF NoRequest, Request, LlmFails, Locations
<1>16. ASSUME Crash PROVE TypeOK'
  BY <1>16 DEF NoRequest, Request, Crash, Locations
<1>17. CASE UNCHANGED vars
  BY <1>17 DEF vars
<1> QED
  BY <1>1, <1>2, <1>3, <1>4, <1>5, <1>6, <1>7, <1>8, <1>9, <1>10, <1>11, <1>12,
     <1>13, <1>14, <1>15, <1>16, <1>17 DEF Next, Step

(* Each part is kept by every step, given the parts it rests on.           *)
LEMMA LocatedStep ==
    TypeOK /\ Located /\ [Next]_vars => Located'
<1> SUFFICES ASSUME TypeOK, Located, [Next]_vars
             PROVE  Located'
  OBVIOUS
<1> USE DEF TypeOK, Located, Held, Move, End, rows, asked, Agents
<1>1. ASSUME NEW j \in Jobs, FindOld(j) PROVE Located'
  BY <1>1 DEF FindOld, Found, MayBegin
<1>2. ASSUME NEW j \in Jobs, ClearContext(j) PROVE Located'
  BY <1>2 DEF ClearContext
<1>3. ASSUME NEW j \in Jobs, DeleteAgent(j) PROVE Located'
  BY <1>3 DEF DeleteAgent
<1>4. ASSUME NEW j \in Jobs, LookUp(j) PROVE Located'
  BY <1>4 DEF LookUp, Found
<1>5. ASSUME NEW j \in Jobs, InsertAgent(j) PROVE Located'
  BY <1>5 DEF InsertAgent
<1>6. ASSUME NEW j \in Jobs, CreateDefaultContext(j) PROVE Located'
  BY <1>6 DEF CreateDefaultContext
<1>7. ASSUME NEW j \in Jobs, BindAgentToChat(j) PROVE Located'
  BY <1>7 DEF BindAgentToChat
<1>8. ASSUME NEW j \in Jobs, Configure(j) PROVE Located'
  BY <1>8 DEF Configure
<1>9. ASSUME NEW j \in Jobs, Configured(j) PROVE Located'
  BY <1>9 DEF Configured
<1>10. ASSUME NEW j \in Jobs, AgentIsGone(j) PROVE Located'
  BY <1>10 DEF AgentIsGone
<1>11. ASSUME NEW j \in Jobs, AttachProviders(j) PROVE Located'
  BY <1>11 DEF AttachProviders
<1>12. ASSUME NEW j \in Jobs, ReadPrompt(j) PROVE Located'
  BY <1>12 DEF ReadPrompt
<1>13. ASSUME NEW j \in Jobs, ReadAgent(j) PROVE Located'
  BY <1>13 DEF ReadAgent
<1>14. ASSUME NEW j \in Jobs, Reply(j) PROVE Located'
  BY <1>14 DEF Reply
<1>15. ASSUME NEW j \in Jobs, LlmFails(j) PROVE Located'
  BY <1>15 DEF LlmFails
<1>16. ASSUME Crash PROVE Located'
  BY <1>16 DEF Crash, Idle
<1>17. CASE UNCHANGED vars
  BY <1>17 DEF vars
<1> QED
  BY <1>1, <1>2, <1>3, <1>4, <1>5, <1>6, <1>7, <1>8, <1>9, <1>10, <1>11, <1>12,
     <1>13, <1>14, <1>15, <1>16, <1>17 DEF Next, Step

(* Steps keep: an agent not yet inserted has no row anywhere.              *)
LEMMA UnbornStep ==
    TypeOK /\ Unborn /\ [Next]_vars => Unborn'
<1> SUFFICES ASSUME TypeOK, Unborn, [Next]_vars
             PROVE  Unborn'
  OBVIOUS
<1> USE DEF TypeOK, Unborn, Move, End, rows, asked, Agents
<1>1. ASSUME NEW j \in Jobs, FindOld(j) PROVE Unborn'
  BY <1>1 DEF FindOld, Found, MayBegin
<1>2. ASSUME NEW j \in Jobs, ClearContext(j) PROVE Unborn'
  BY <1>2 DEF ClearContext
<1>3. ASSUME NEW j \in Jobs, DeleteAgent(j) PROVE Unborn'
  BY <1>3 DEF DeleteAgent
<1>4. ASSUME NEW j \in Jobs, LookUp(j) PROVE Unborn'
  BY <1>4, RegistryAssumption DEF LookUp, Found, MayBegin
<1>5. ASSUME NEW j \in Jobs, InsertAgent(j) PROVE Unborn'
  BY <1>5 DEF InsertAgent
<1>6. ASSUME NEW j \in Jobs, CreateDefaultContext(j) PROVE Unborn'
  BY <1>6 DEF CreateDefaultContext
<1>7. ASSUME NEW j \in Jobs, BindAgentToChat(j) PROVE Unborn'
  BY <1>7 DEF BindAgentToChat
<1>8. ASSUME NEW j \in Jobs, Configure(j) PROVE Unborn'
  BY <1>8 DEF Configure
<1>9. ASSUME NEW j \in Jobs, Configured(j) PROVE Unborn'
  BY <1>9 DEF Configured
<1>10. ASSUME NEW j \in Jobs, AgentIsGone(j) PROVE Unborn'
  BY <1>10, RegistryAssumption DEF AgentIsGone
<1>11. ASSUME NEW j \in Jobs, AttachProviders(j) PROVE Unborn'
  BY <1>11 DEF AttachProviders
<1>12. ASSUME NEW j \in Jobs, ReadPrompt(j) PROVE Unborn'
  BY <1>12 DEF ReadPrompt
<1>13. ASSUME NEW j \in Jobs, ReadAgent(j) PROVE Unborn'
  BY <1>13 DEF ReadAgent
<1>14. ASSUME NEW j \in Jobs, Reply(j) PROVE Unborn'
  BY <1>14, RegistryAssumption DEF Reply
<1>15. ASSUME NEW j \in Jobs, LlmFails(j) PROVE Unborn'
  BY <1>15, RegistryAssumption DEF LlmFails
<1>16. ASSUME Crash PROVE Unborn'
  BY <1>16, RegistryAssumption DEF Crash, Idle
<1>17. CASE UNCHANGED vars
  BY <1>17 DEF vars
<1> QED
  BY <1>1, <1>2, <1>3, <1>4, <1>5, <1>6, <1>7, <1>8, <1>9, <1>10, <1>11, <1>12,
     <1>13, <1>14, <1>15, <1>16, <1>17 DEF Next, Step

(* Steps keep: what holds of an agent that its job is still making.        *)
LEMMA NewbornStep ==
    TypeOK /\ Unborn /\ Newborn /\ [Next]_vars => Newborn'
<1> SUFFICES ASSUME TypeOK, Unborn, Newborn, [Next]_vars
             PROVE  Newborn'
  OBVIOUS
<1> USE DEF TypeOK, Unborn, Newborn, Move, End, rows, asked, Agents
<1>1. ASSUME NEW j \in Jobs, FindOld(j) PROVE Newborn'
  BY <1>1 DEF FindOld, Found, MayBegin
<1>2. ASSUME NEW j \in Jobs, ClearContext(j) PROVE Newborn'
  BY <1>2 DEF ClearContext
<1>3. ASSUME NEW j \in Jobs, DeleteAgent(j) PROVE Newborn'
  BY <1>3 DEF DeleteAgent
<1>4. ASSUME NEW j \in Jobs, LookUp(j) PROVE Newborn'
  BY <1>4, RegistryAssumption DEF LookUp, Found, MayBegin
<1>5. ASSUME NEW j \in Jobs, InsertAgent(j) PROVE Newborn'
  BY <1>5 DEF InsertAgent
<1>6. ASSUME NEW j \in Jobs, CreateDefaultContext(j) PROVE Newborn'
  BY <1>6 DEF CreateDefaultContext
<1>7. ASSUME NEW j \in Jobs, BindAgentToChat(j) PROVE Newborn'
  BY <1>7 DEF BindAgentToChat
<1>8. ASSUME NEW j \in Jobs, Configure(j) PROVE Newborn'
  BY <1>8 DEF Configure
<1>9. ASSUME NEW j \in Jobs, Configured(j) PROVE Newborn'
  BY <1>9 DEF Configured
<1>10. ASSUME NEW j \in Jobs, AgentIsGone(j) PROVE Newborn'
  BY <1>10, RegistryAssumption DEF AgentIsGone
<1>11. ASSUME NEW j \in Jobs, AttachProviders(j) PROVE Newborn'
  BY <1>11 DEF AttachProviders
<1>12. ASSUME NEW j \in Jobs, ReadPrompt(j) PROVE Newborn'
  BY <1>12 DEF ReadPrompt
<1>13. ASSUME NEW j \in Jobs, ReadAgent(j) PROVE Newborn'
  BY <1>13 DEF ReadAgent
<1>14. ASSUME NEW j \in Jobs, Reply(j) PROVE Newborn'
  BY <1>14, RegistryAssumption DEF Reply
<1>15. ASSUME NEW j \in Jobs, LlmFails(j) PROVE Newborn'
  BY <1>15, RegistryAssumption DEF LlmFails
<1>16. ASSUME Crash PROVE Newborn'
  BY <1>16 DEF Crash, Idle
<1>17. CASE UNCHANGED vars
  BY <1>17 DEF vars
<1> QED
  BY <1>1, <1>2, <1>3, <1>4, <1>5, <1>6, <1>7, <1>8, <1>9, <1>10, <1>11, <1>12,
     <1>13, <1>14, <1>15, <1>16, <1>17 DEF Next, Step

(* Steps keep: in a serial slot one job at a time is under way.            *)
LEMMA OneActiveStep ==
    TypeOK /\ OneActive /\ [Next]_vars => OneActive'
<1> SUFFICES ASSUME TypeOK, OneActive, [Next]_vars
             PROVE  OneActive'
  OBVIOUS
<1> USE DEF TypeOK, OneActive, Idle, Serial, Move, End, rows, asked, Agents
<1>1. ASSUME NEW j \in Jobs, FindOld(j) PROVE OneActive'
  BY <1>1 DEF FindOld, MayBegin
<1>2. ASSUME NEW j \in Jobs, ClearContext(j) PROVE OneActive'
  BY <1>2 DEF ClearContext
<1>3. ASSUME NEW j \in Jobs, DeleteAgent(j) PROVE OneActive'
  BY <1>3 DEF DeleteAgent
<1>4. ASSUME NEW j \in Jobs, LookUp(j) PROVE OneActive'
  BY <1>4 DEF LookUp, MayBegin
<1>5. ASSUME NEW j \in Jobs, InsertAgent(j) PROVE OneActive'
  BY <1>5 DEF InsertAgent
<1>6. ASSUME NEW j \in Jobs, CreateDefaultContext(j) PROVE OneActive'
  BY <1>6 DEF CreateDefaultContext
<1>7. ASSUME NEW j \in Jobs, BindAgentToChat(j) PROVE OneActive'
  BY <1>7 DEF BindAgentToChat
<1>8. ASSUME NEW j \in Jobs, Configure(j) PROVE OneActive'
  BY <1>8 DEF Configure
<1>9. ASSUME NEW j \in Jobs, Configured(j) PROVE OneActive'
  BY <1>9 DEF Configured
<1>10. ASSUME NEW j \in Jobs, AgentIsGone(j) PROVE OneActive'
  BY <1>10 DEF AgentIsGone
<1>11. ASSUME NEW j \in Jobs, AttachProviders(j) PROVE OneActive'
  BY <1>11 DEF AttachProviders
<1>12. ASSUME NEW j \in Jobs, ReadPrompt(j) PROVE OneActive'
  BY <1>12 DEF ReadPrompt
<1>13. ASSUME NEW j \in Jobs, ReadAgent(j) PROVE OneActive'
  BY <1>13 DEF ReadAgent
<1>14. ASSUME NEW j \in Jobs, Reply(j) PROVE OneActive'
  BY <1>14 DEF Reply
<1>15. ASSUME NEW j \in Jobs, LlmFails(j) PROVE OneActive'
  BY <1>15 DEF LlmFails
<1>16. ASSUME Crash PROVE OneActive'
  BY <1>16 DEF Crash
<1>17. CASE UNCHANGED vars
  BY <1>17 DEF vars
<1> QED
  BY <1>1, <1>2, <1>3, <1>4, <1>5, <1>6, <1>7, <1>8, <1>9, <1>10, <1>11, <1>12,
     <1>13, <1>14, <1>15, <1>16, <1>17 DEF Next, Step

(* Steps keep: a job that is about to make an agent has found none.        *)
LEMMA SlotIsFreeStep ==
    TypeOK /\ Located /\ OneActive /\ Doomed /\ OneAgentPerSlot /\ SlotIsFree
    /\ [Next]_vars => SlotIsFree'
<1> SUFFICES ASSUME TypeOK, Located, OneActive, Doomed, OneAgentPerSlot,
                    SlotIsFree, [Next]_vars
             PROVE  SlotIsFree'
  OBVIOUS
<1> USE DEF TypeOK, OneActive, SlotIsFree, Idle, Serial, Found, Move, End, rows,
            asked, Agents
<1>1. ASSUME NEW j \in Jobs, FindOld(j) PROVE SlotIsFree'
  BY <1>1 DEF FindOld, MayBegin
<1>2. ASSUME NEW j \in Jobs, ClearContext(j) PROVE SlotIsFree'
  BY <1>2 DEF ClearContext
<1>3. ASSUME NEW j \in Jobs, DeleteAgent(j) PROVE SlotIsFree'
  BY <1>3 DEF DeleteAgent, Located, Held, Doomed, OneAgentPerSlot
<1>4. ASSUME NEW j \in Jobs, LookUp(j) PROVE SlotIsFree'
  BY <1>4 DEF LookUp, MayBegin
<1>5. ASSUME NEW j \in Jobs, InsertAgent(j) PROVE SlotIsFree'
  BY <1>5 DEF InsertAgent
<1>6. ASSUME NEW j \in Jobs, CreateDefaultContext(j) PROVE SlotIsFree'
  BY <1>6 DEF CreateDefaultContext
<1>7. ASSUME NEW j \in Jobs, BindAgentToChat(j) PROVE SlotIsFree'
  BY <1>7 DEF BindAgentToChat, Located, Held
<1>8. ASSUME NEW j \in Jobs, Configure(j) PROVE SlotIsFree'
  BY <1>8 DEF Configure
<1>9. ASSUME NEW j \in Jobs, Configured(j) PROVE SlotIsFree'
  BY <1>9 DEF Configured
<1>10. ASSUME NEW j \in Jobs, AgentIsGone(j) PROVE SlotIsFree'
  BY <1>10 DEF AgentIsGone
<1>11. ASSUME NEW j \in Jobs, AttachProviders(j) PROVE SlotIsFree'
  BY <1>11 DEF AttachProviders
<1>12. ASSUME NEW j \in Jobs, ReadPrompt(j) PROVE SlotIsFree'
  BY <1>12 DEF ReadPrompt
<1>13. ASSUME NEW j \in Jobs, ReadAgent(j) PROVE SlotIsFree'
  BY <1>13 DEF ReadAgent
<1>14. ASSUME NEW j \in Jobs, Reply(j) PROVE SlotIsFree'
  BY <1>14 DEF Reply
<1>15. ASSUME NEW j \in Jobs, LlmFails(j) PROVE SlotIsFree'
  BY <1>15 DEF LlmFails
<1>16. ASSUME Crash PROVE SlotIsFree'
  BY <1>16 DEF Crash
<1>17. CASE UNCHANGED vars
  BY <1>17 DEF vars
<1> QED
  BY <1>1, <1>2, <1>3, <1>4, <1>5, <1>6, <1>7, <1>8, <1>9, <1>10, <1>11, <1>12,
     <1>13, <1>14, <1>15, <1>16, <1>17 DEF Next, Step

(* Steps keep: only agents of recreated slots are deleted.                 *)
LEMMA DoomedStep ==
    TypeOK /\ Located /\ OneActive /\ Doomed /\ [Next]_vars => Doomed'
<1> SUFFICES ASSUME TypeOK, Located, OneActive, Doomed, [Next]_vars
             PROVE  Doomed'
  OBVIOUS
<1> USE DEF TypeOK, Doomed, OneActive, Located, Held, Idle, Serial, Move, End, rows,
            asked, Agents
<1>1. ASSUME NEW j \in Jobs, FindOld(j) PROVE Doomed'
  BY <1>1 DEF FindOld, MayBegin, Found
<1>2. ASSUME NEW j \in Jobs, ClearContext(j) PROVE Doomed'
  BY <1>2 DEF ClearContext
<1>3. ASSUME NEW j \in Jobs, DeleteAgent(j) PROVE Doomed'
  BY <1>3 DEF DeleteAgent
<1>4. ASSUME NEW j \in Jobs, LookUp(j) PROVE Doomed'
  BY <1>4 DEF LookUp, MayBegin
<1>5. ASSUME NEW j \in Jobs, InsertAgent(j) PROVE Doomed'
  BY <1>5 DEF InsertAgent
<1>6. ASSUME NEW j \in Jobs, CreateDefaultContext(j) PROVE Doomed'
  BY <1>6 DEF CreateDefaultContext
<1>7. ASSUME NEW j \in Jobs, BindAgentToChat(j) PROVE Doomed'
  BY <1>7 DEF BindAgentToChat
<1>8. ASSUME NEW j \in Jobs, Configure(j) PROVE Doomed'
  BY <1>8 DEF Configure
<1>9. ASSUME NEW j \in Jobs, Configured(j) PROVE Doomed'
  BY <1>9 DEF Configured
<1>10. ASSUME NEW j \in Jobs, AgentIsGone(j) PROVE Doomed'
  BY <1>10 DEF AgentIsGone
<1>11. ASSUME NEW j \in Jobs, AttachProviders(j) PROVE Doomed'
  BY <1>11 DEF AttachProviders
<1>12. ASSUME NEW j \in Jobs, ReadPrompt(j) PROVE Doomed'
  BY <1>12 DEF ReadPrompt
<1>13. ASSUME NEW j \in Jobs, ReadAgent(j) PROVE Doomed'
  BY <1>13 DEF ReadAgent
<1>14. ASSUME NEW j \in Jobs, Reply(j) PROVE Doomed'
  BY <1>14 DEF Reply
<1>15. ASSUME NEW j \in Jobs, LlmFails(j) PROVE Doomed'
  BY <1>15 DEF LlmFails
<1>16. ASSUME Crash PROVE Doomed'
  BY <1>16 DEF Crash
<1>17. CASE UNCHANGED vars
  BY <1>17 DEF vars
<1> QED
  BY <1>1, <1>2, <1>3, <1>4, <1>5, <1>6, <1>7, <1>8, <1>9, <1>10, <1>11, <1>12,
     <1>13, <1>14, <1>15, <1>16, <1>17 DEF Next, Step

(* Steps keep: a serial slot has one agent at most.                        *)
LEMMA OneAgentStep ==
    TypeOK /\ Newborn /\ SlotIsFree /\ OneAgentPerSlot /\ [Next]_vars =>
    OneAgentPerSlot'
<1> SUFFICES ASSUME TypeOK, Newborn, SlotIsFree, OneAgentPerSlot, [Next]_vars
             PROVE  OneAgentPerSlot'
  OBVIOUS
<1> USE DEF TypeOK, OneAgentPerSlot, Serial, Move, End, rows, asked, Agents
<1>1. ASSUME NEW j \in Jobs, FindOld(j) PROVE OneAgentPerSlot'
  BY <1>1 DEF FindOld
<1>2. ASSUME NEW j \in Jobs, ClearContext(j) PROVE OneAgentPerSlot'
  BY <1>2 DEF ClearContext
<1>3. ASSUME NEW j \in Jobs, DeleteAgent(j) PROVE OneAgentPerSlot'
  BY <1>3 DEF DeleteAgent
<1>4. ASSUME NEW j \in Jobs, LookUp(j) PROVE OneAgentPerSlot'
  BY <1>4 DEF LookUp
<1>5. ASSUME NEW j \in Jobs, InsertAgent(j) PROVE OneAgentPerSlot'
  BY <1>5 DEF InsertAgent
<1>6. ASSUME NEW j \in Jobs, CreateDefaultContext(j) PROVE OneAgentPerSlot'
  BY <1>6 DEF CreateDefaultContext
<1>7. ASSUME NEW j \in Jobs, BindAgentToChat(j) PROVE OneAgentPerSlot'
  BY <1>7 DEF BindAgentToChat, Newborn, SlotIsFree, Found
<1>8. ASSUME NEW j \in Jobs, Configure(j) PROVE OneAgentPerSlot'
  BY <1>8 DEF Configure
<1>9. ASSUME NEW j \in Jobs, Configured(j) PROVE OneAgentPerSlot'
  BY <1>9 DEF Configured
<1>10. ASSUME NEW j \in Jobs, AgentIsGone(j) PROVE OneAgentPerSlot'
  BY <1>10 DEF AgentIsGone
<1>11. ASSUME NEW j \in Jobs, AttachProviders(j) PROVE OneAgentPerSlot'
  BY <1>11 DEF AttachProviders
<1>12. ASSUME NEW j \in Jobs, ReadPrompt(j) PROVE OneAgentPerSlot'
  BY <1>12 DEF ReadPrompt
<1>13. ASSUME NEW j \in Jobs, ReadAgent(j) PROVE OneAgentPerSlot'
  BY <1>13 DEF ReadAgent
<1>14. ASSUME NEW j \in Jobs, Reply(j) PROVE OneAgentPerSlot'
  BY <1>14 DEF Reply
<1>15. ASSUME NEW j \in Jobs, LlmFails(j) PROVE OneAgentPerSlot'
  BY <1>15 DEF LlmFails
<1>16. ASSUME Crash PROVE OneAgentPerSlot'
  BY <1>16 DEF Crash
<1>17. CASE UNCHANGED vars
  BY <1>17 DEF vars
<1> QED
  BY <1>1, <1>2, <1>3, <1>4, <1>5, <1>6, <1>7, <1>8, <1>9, <1>10, <1>11, <1>12,
     <1>13, <1>14, <1>15, <1>16, <1>17 DEF Next, Step

(* Steps keep: the agent a job works with is there and bound.              *)
LEMMA UsedStep ==
    TypeOK /\ Located /\ OneActive /\ Used /\ [Next]_vars => Used'
<1> SUFFICES ASSUME TypeOK, Located, OneActive, Used, [Next]_vars
             PROVE  Used'
  OBVIOUS
<1> USE DEF TypeOK, Used, InUse, OneActive, Located, Held, Idle, Serial, Move, End,
            rows, asked, Agents
<1>1. ASSUME NEW j \in Jobs, FindOld(j) PROVE Used'
  BY <1>1 DEF FindOld, MayBegin
<1>2. ASSUME NEW j \in Jobs, ClearContext(j) PROVE Used'
  BY <1>2 DEF ClearContext
<1>3. ASSUME NEW j \in Jobs, DeleteAgent(j) PROVE Used'
  BY <1>3 DEF DeleteAgent
<1>4. ASSUME NEW j \in Jobs, LookUp(j) PROVE Used'
  BY <1>4 DEF LookUp, MayBegin, Found
<1>5. ASSUME NEW j \in Jobs, InsertAgent(j) PROVE Used'
  BY <1>5 DEF InsertAgent
<1>6. ASSUME NEW j \in Jobs, CreateDefaultContext(j) PROVE Used'
  BY <1>6 DEF CreateDefaultContext
<1>7. ASSUME NEW j \in Jobs, BindAgentToChat(j) PROVE Used'
  BY <1>7 DEF BindAgentToChat
<1>8. ASSUME NEW j \in Jobs, Configure(j) PROVE Used'
  BY <1>8 DEF Configure
<1>9. ASSUME NEW j \in Jobs, Configured(j) PROVE Used'
  BY <1>9 DEF Configured
<1>10. ASSUME NEW j \in Jobs, AgentIsGone(j) PROVE Used'
  BY <1>10 DEF AgentIsGone
<1>11. ASSUME NEW j \in Jobs, AttachProviders(j) PROVE Used'
  BY <1>11 DEF AttachProviders
<1>12. ASSUME NEW j \in Jobs, ReadPrompt(j) PROVE Used'
  BY <1>12 DEF ReadPrompt
<1>13. ASSUME NEW j \in Jobs, ReadAgent(j) PROVE Used'
  BY <1>13 DEF ReadAgent
<1>14. ASSUME NEW j \in Jobs, Reply(j) PROVE Used'
  BY <1>14 DEF Reply
<1>15. ASSUME NEW j \in Jobs, LlmFails(j) PROVE Used'
  BY <1>15 DEF LlmFails
<1>16. ASSUME Crash PROVE Used'
  BY <1>16 DEF Crash
<1>17. CASE UNCHANGED vars
  BY <1>17 DEF vars
<1> QED
  BY <1>1, <1>2, <1>3, <1>4, <1>5, <1>6, <1>7, <1>8, <1>9, <1>10, <1>11, <1>12,
     <1>13, <1>14, <1>15, <1>16, <1>17 DEF Next, Step

(* Steps keep: a serial worker has one job under way.                      *)
LEMMA OneAtWorkerStep ==
    TypeOK /\ OneAtWorker /\ [Next]_vars => OneAtWorker'
<1> SUFFICES ASSUME TypeOK, OneAtWorker, [Next]_vars
             PROVE  OneAtWorker'
  OBVIOUS
<1> USE DEF TypeOK, OneAtWorker, Idle, Move, End, rows, asked, Agents
<1>1. ASSUME NEW j \in Jobs, FindOld(j) PROVE OneAtWorker'
  BY <1>1 DEF FindOld, MayBegin
<1>2. ASSUME NEW j \in Jobs, ClearContext(j) PROVE OneAtWorker'
  BY <1>2 DEF ClearContext
<1>3. ASSUME NEW j \in Jobs, DeleteAgent(j) PROVE OneAtWorker'
  BY <1>3 DEF DeleteAgent
<1>4. ASSUME NEW j \in Jobs, LookUp(j) PROVE OneAtWorker'
  BY <1>4 DEF LookUp, MayBegin
<1>5. ASSUME NEW j \in Jobs, InsertAgent(j) PROVE OneAtWorker'
  BY <1>5 DEF InsertAgent
<1>6. ASSUME NEW j \in Jobs, CreateDefaultContext(j) PROVE OneAtWorker'
  BY <1>6 DEF CreateDefaultContext
<1>7. ASSUME NEW j \in Jobs, BindAgentToChat(j) PROVE OneAtWorker'
  BY <1>7 DEF BindAgentToChat
<1>8. ASSUME NEW j \in Jobs, Configure(j) PROVE OneAtWorker'
  BY <1>8 DEF Configure
<1>9. ASSUME NEW j \in Jobs, Configured(j) PROVE OneAtWorker'
  BY <1>9 DEF Configured
<1>10. ASSUME NEW j \in Jobs, AgentIsGone(j) PROVE OneAtWorker'
  BY <1>10 DEF AgentIsGone
<1>11. ASSUME NEW j \in Jobs, AttachProviders(j) PROVE OneAtWorker'
  BY <1>11 DEF AttachProviders
<1>12. ASSUME NEW j \in Jobs, ReadPrompt(j) PROVE OneAtWorker'
  BY <1>12 DEF ReadPrompt
<1>13. ASSUME NEW j \in Jobs, ReadAgent(j) PROVE OneAtWorker'
  BY <1>13 DEF ReadAgent
<1>14. ASSUME NEW j \in Jobs, Reply(j) PROVE OneAtWorker'
  BY <1>14 DEF Reply
<1>15. ASSUME NEW j \in Jobs, LlmFails(j) PROVE OneAtWorker'
  BY <1>15 DEF LlmFails
<1>16. ASSUME Crash PROVE OneAtWorker'
  BY <1>16 DEF Crash
<1>17. CASE UNCHANGED vars
  BY <1>17 DEF vars
<1> QED
  BY <1>1, <1>2, <1>3, <1>4, <1>5, <1>6, <1>7, <1>8, <1>9, <1>10, <1>11, <1>12,
     <1>13, <1>14, <1>15, <1>16, <1>17 DEF Next, Step

(* In a serial slot nobody else holds the agent a job holds.               *)
LEMMA OwnAgent ==
    ASSUME TypeOK, Located, OneActive, NEW j \in Jobs, NEW k \in Jobs,
           pc[j] \in Held, pc[k] \in Held, agent[j] = agent[k],
           SlotOf[k] \in Serial
    PROVE  j = k
  BY DEF Located, OneActive, Held, Idle

(* Steps keep: settings come from the configuration of the slot.           *)
LEMMA GivenStep ==
    TypeOK /\ Located /\ Given /\ [Next]_vars => Given'
<1> SUFFICES ASSUME TypeOK, Located, Given, [Next]_vars
             PROVE  Given'
  OBVIOUS
<1>1. ASSUME NEW j \in Jobs, Configure(j) PROVE Given'
  <2>1. agent[j] \in Agents /\ SlotOf[agent[j]] = SlotOf[j]
    BY <1>1 DEF Configure, Move, Located, Held
  <2>2. PICK x \in Config[SlotOf[agent[j]]] :
            settings' = [settings EXCEPT ![agent[j]] = @ \cup {x}]
    BY <1>1, <2>1 DEF Configure, Unsaved
  <2> QED
    BY <2>1, <2>2 DEF Given, TypeOK
<1>2. ASSUME NEW j \in Jobs, DeleteAgent(j) PROVE Given'
  BY <1>2 DEF DeleteAgent, Given, TypeOK
<1>3. ASSUME NEW j \in Jobs, Step(j), ~Configure(j), ~DeleteAgent(j) PROVE UNCHANGED settings
  BY <1>3 DEF Step, FindOld, ClearContext, LookUp, InsertAgent, CreateDefaultContext,
              BindAgentToChat, Configured, AgentIsGone, AttachProviders, ReadPrompt,
              ReadAgent, Reply, LlmFails, rows
<1>4. CASE Crash \/ UNCHANGED vars
  BY <1>4 DEF Crash, vars, rows, Given
<1> QED
  BY <1>1, <1>2, <1>3, <1>4 DEF Next, Given

(* Steps keep: in a recreated slot a job works with its own agent.         *)
LEMMA MadeNewStep ==
    TypeOK /\ Located /\ Newborn /\ OneActive /\ SlotIsFree /\ Given /\ MadeNew /\
    [Next]_vars => MadeNew'
<1> SUFFICES ASSUME TypeOK, Located, Newborn, OneActive, SlotIsFree, Given, MadeNew,
                    [Next]_vars
             PROVE  MadeNew'
  OBVIOUS
<1> USE DEF TypeOK, MadeNew, InUse, OneActive, Located, Held, Idle, Serial,
            Move, End, rows, asked, Agents
<1>1. ASSUME NEW j \in Jobs, FindOld(j) PROVE MadeNew'
  BY <1>1 DEF FindOld, MayBegin
<1>2. ASSUME NEW j \in Jobs, ClearContext(j) PROVE MadeNew'
  <2>1. \A k \in Jobs : SlotOf[k] \in Serial /\ pc[k] \in InUse => agent[k] # agent[j]
    BY <1>2, OwnAgent DEF ClearContext
  <2> QED
    BY <1>2, <2>1 DEF ClearContext
<1>3. ASSUME NEW j \in Jobs, DeleteAgent(j) PROVE MadeNew'
  <2>1. \A k \in Jobs : SlotOf[k] \in Serial /\ pc[k] \in InUse => agent[k] # agent[j]
    BY <1>3, OwnAgent DEF DeleteAgent
  <2> QED
    BY <1>3, <2>1 DEF DeleteAgent
<1>4. ASSUME NEW j \in Jobs, LookUp(j) PROVE MadeNew'
  BY <1>4 DEF LookUp, MayBegin, SlotIsFree, Found
<1>5. ASSUME NEW j \in Jobs, InsertAgent(j) PROVE MadeNew'
  BY <1>5 DEF InsertAgent
<1>6. ASSUME NEW j \in Jobs, CreateDefaultContext(j) PROVE MadeNew'
  BY <1>6 DEF CreateDefaultContext
<1>7. ASSUME NEW j \in Jobs, BindAgentToChat(j) PROVE MadeNew'
  BY <1>7 DEF BindAgentToChat, Newborn
<1>8. ASSUME NEW j \in Jobs, Configure(j) PROVE MadeNew'
  BY <1>8 DEF Configure
<1>9. ASSUME NEW j \in Jobs, Configured(j) PROVE MadeNew'
  <2>1. Unsaved(j) = {} /\ agent[j] \in Agents /\ SlotOf[agent[j]] = SlotOf[j]
    BY <1>9 DEF Configured
  <2>2. /\ settings[agent[j]] \subseteq Config[SlotOf[j]]
        /\ Config[SlotOf[j]] \ settings[agent[j]] = {}
    BY <2>1 DEF Unsaved, Given
  <2>3. settings[agent[j]] = Config[SlotOf[j]]
    BY <2>2
  <2> QED
    BY <1>9, <2>3 DEF Configured
<1>10. ASSUME NEW j \in Jobs, AgentIsGone(j) PROVE MadeNew'
  BY <1>10 DEF AgentIsGone
<1>11. ASSUME NEW j \in Jobs, AttachProviders(j) PROVE MadeNew'
  BY <1>11 DEF AttachProviders
<1>12. ASSUME NEW j \in Jobs, ReadPrompt(j) PROVE MadeNew'
  BY <1>12 DEF ReadPrompt
<1>13. ASSUME NEW j \in Jobs, ReadAgent(j) PROVE MadeNew'
  BY <1>13, RegistryAssumption DEF ReadAgent, HistoryOf
<1>14. ASSUME NEW j \in Jobs, Reply(j) PROVE MadeNew'
  <2>1. \A k \in Jobs : SlotOf[k] \in Serial /\ pc[k] \in InUse /\ k # j => agent[k] # agent[j]
    BY <1>14, OwnAgent DEF Reply
  <2> QED
    BY <1>14, <2>1 DEF Reply
<1>15. ASSUME NEW j \in Jobs, LlmFails(j) PROVE MadeNew'
  BY <1>15 DEF LlmFails
<1>16. ASSUME Crash PROVE MadeNew'
  BY <1>16 DEF Crash
<1>17. CASE UNCHANGED vars
  BY <1>17 DEF vars
<1> QED
  BY <1>1, <1>2, <1>3, <1>4, <1>5, <1>6, <1>7, <1>8, <1>9, <1>10, <1>11, <1>12,
     <1>13, <1>14, <1>15, <1>16, <1>17 DEF Next, Step

(* Steps keep: the context row of a kept slot holds its answered turns.    *)
LEMMA KeptHistoryStep ==
    TypeOK /\ Located /\ Newborn /\ OneActive /\ SlotIsFree /\ Doomed /\ Used
    /\ OneAgentPerSlot /\ KeptHistory /\ [Next]_vars => KeptHistory'
<1> SUFFICES ASSUME TypeOK, Located, Newborn, OneActive, SlotIsFree, Doomed,
                    Used, OneAgentPerSlot, KeptHistory, [Next]_vars
             PROVE  KeptHistory'
  OBVIOUS
<1> USE DEF TypeOK, KeptHistory, OneActive, Located, Held, Used, InUse, Idle,
            Serial, Found, Move, End, rows, asked, Agents
<1>1. ASSUME NEW j \in Jobs, FindOld(j) PROVE KeptHistory'
  BY <1>1 DEF FindOld
<1>2. ASSUME NEW j \in Jobs, ClearContext(j) PROVE KeptHistory'
  <2>1. SlotOf[agent[j]] \in Recreated /\ agent[j] \in Agents
    BY <1>2 DEF ClearContext, Doomed
  <2> QED
    BY <1>2, <2>1 DEF ClearContext
<1>3. ASSUME NEW j \in Jobs, DeleteAgent(j) PROVE KeptHistory'
  BY <1>3 DEF DeleteAgent, Doomed
<1>4. ASSUME NEW j \in Jobs, LookUp(j) PROVE KeptHistory'
  BY <1>4 DEF LookUp
<1>5. ASSUME NEW j \in Jobs, InsertAgent(j) PROVE KeptHistory'
  BY <1>5 DEF InsertAgent
<1>6. ASSUME NEW j \in Jobs, CreateDefaultContext(j) PROVE KeptHistory'
  BY <1>6 DEF CreateDefaultContext, Newborn
<1>7. ASSUME NEW j \in Jobs, BindAgentToChat(j) PROVE KeptHistory'
  <2>1. agent[j] = j /\ j \notin bound /\ context[j] = <<>>
    BY <1>7 DEF BindAgentToChat, Newborn
  <2>2. SlotOf[j] \in Serial => {a \in bound : SlotOf[a] = SlotOf[j]} = {}
    BY <1>7 DEF BindAgentToChat, SlotIsFree
  <2>3. SlotOf[j] \in Serial \ Recreated => answered[SlotOf[j]] = context[j]
    BY <2>1, <2>2
  <2> QED
    BY <1>7, <2>1, <2>3 DEF BindAgentToChat
<1>8. ASSUME NEW j \in Jobs, Configure(j) PROVE KeptHistory'
  BY <1>8 DEF Configure
<1>9. ASSUME NEW j \in Jobs, Configured(j) PROVE KeptHistory'
  BY <1>9 DEF Configured
<1>10. ASSUME NEW j \in Jobs, AgentIsGone(j) PROVE KeptHistory'
  BY <1>10 DEF AgentIsGone
<1>11. ASSUME NEW j \in Jobs, AttachProviders(j) PROVE KeptHistory'
  BY <1>11 DEF AttachProviders
<1>12. ASSUME NEW j \in Jobs, ReadPrompt(j) PROVE KeptHistory'
  BY <1>12 DEF ReadPrompt
<1>13. ASSUME NEW j \in Jobs, ReadAgent(j) PROVE KeptHistory'
  <2>1. SlotOf[j] \in Slots /\ answered[SlotOf[j]] \in Seq(Jobs)
    BY RegistryAssumption
  <2>2. ASSUME SlotOf[j] \in Serial \ Recreated
        PROVE  HistoryOf(agent[j]) = answered[SlotOf[j]]
    <3>1. agent[j] \in bound /\ SlotOf[agent[j]] = SlotOf[j]
      BY <1>13, <2>2 DEF ReadAgent
    <3>2. context[agent[j]] = answered[SlotOf[j]]
      BY <2>2, <3>1
    <3> QED
      BY <2>1, <3>2, RegistryAssumption DEF HistoryOf
  <2> QED
    BY <1>13, <2>2 DEF ReadAgent
<1>14. ASSUME NEW j \in Jobs, Reply(j) PROVE KeptHistory'
  <2> DEFINE s == SlotOf[j]
  <2>1. agent[j] \in Agents /\ SlotOf[agent[j]] = s /\ s \in Slots
    BY <1>14, RegistryAssumption DEF Reply
  <2>2. CASE s \in Serial \ Recreated
    <3>1. agent[j] \in bound /\ request[j].history = answered[s]
      BY <1>14, <2>2 DEF Reply
    <3>2. context[agent[j]] = answered[s] /\ answered[s] \in Seq(Jobs)
      BY <2>1, <2>2, <3>1
    <3>3. context'[agent[j]] = answered'[s]
      BY <1>14, <2>1, <3>1, <3>2, RegistryAssumption DEF Reply
    <3>4. \A a \in bound : SlotOf[a] = s => a = agent[j]
      BY <2>1, <2>2, <3>1 DEF OneAgentPerSlot
    <3>5. \A k \in Jobs : SlotOf[k] = s /\ pc[k] = "asking" => k = j
      BY <1>14, <2>2 DEF Reply
    <3> QED
      BY <1>14, <2>1, <2>2, <3>1, <3>3, <3>4, <3>5 DEF Reply
  <2>3. CASE s \notin Serial \ Recreated
    BY <1>14, <2>1, <2>3 DEF Reply
  <2> QED
    BY <2>2, <2>3
<1>15. ASSUME NEW j \in Jobs, LlmFails(j) PROVE KeptHistory'
  BY <1>15 DEF LlmFails
<1>16. ASSUME Crash PROVE KeptHistory'
  BY <1>16 DEF Crash
<1>17. CASE UNCHANGED vars
  BY <1>17 DEF vars
<1> QED
  BY <1>1, <1>2, <1>3, <1>4, <1>5, <1>6, <1>7, <1>8, <1>9, <1>10, <1>11, <1>12,
     <1>13, <1>14, <1>15, <1>16, <1>17 DEF Next, Step

(* Steps keep: a job reads its prompt through its own providers.           *)
LEMMA AttachedStep ==
    TypeOK /\ Located /\ OneActive /\ OneAtWorker /\ MadeNew /\ Attached /\ [Next]_vars
    => Attached'
<1> SUFFICES ASSUME TypeOK, Located, OneActive, OneAtWorker, MadeNew, Attached, [Next]_vars
             PROVE  Attached'
  OBVIOUS
<1> USE DEF TypeOK, Attached, Located, Held, OneActive, Idle, Serial, Move, End,
            rows, asked, Agents
<1>1. ASSUME NEW j \in Jobs, FindOld(j) PROVE Attached'
  BY <1>1 DEF FindOld, MayBegin
<1>2. ASSUME NEW j \in Jobs, ClearContext(j) PROVE Attached'
  BY <1>2 DEF ClearContext
<1>3. ASSUME NEW j \in Jobs, DeleteAgent(j) PROVE Attached'
  BY <1>3 DEF DeleteAgent
<1>4. ASSUME NEW j \in Jobs, LookUp(j) PROVE Attached'
  BY <1>4 DEF LookUp, MayBegin
<1>5. ASSUME NEW j \in Jobs, InsertAgent(j) PROVE Attached'
  BY <1>5 DEF InsertAgent
<1>6. ASSUME NEW j \in Jobs, CreateDefaultContext(j) PROVE Attached'
  BY <1>6 DEF CreateDefaultContext
<1>7. ASSUME NEW j \in Jobs, BindAgentToChat(j) PROVE Attached'
  BY <1>7 DEF BindAgentToChat
<1>8. ASSUME NEW j \in Jobs, Configure(j) PROVE Attached'
  BY <1>8 DEF Configure
<1>9. ASSUME NEW j \in Jobs, Configured(j) PROVE Attached'
  BY <1>9 DEF Configured
<1>10. ASSUME NEW j \in Jobs, AgentIsGone(j) PROVE Attached'
  BY <1>10 DEF AgentIsGone
<1>11. ASSUME NEW j \in Jobs, AttachProviders(j) PROVE Attached'
  <2>1. \A k \in Jobs :
            pc[k] = "prompting" /\ WorkerOf[k] = WorkerOf[j] /\ WorkerOf[k] \notin overlap => k = j
    BY <1>11 DEF AttachProviders, OneAtWorker
  <2>2. WorkerOf \in [Jobs -> Workers]
    BY RegistryAssumption
  <2> QED
    BY <1>11, <2>1, <2>2 DEF AttachProviders
<1>12. ASSUME NEW j \in Jobs, ReadPrompt(j) PROVE Attached'
  <2> DEFINE a == provider[WorkerOf[j]]
  <2>1. prompt' = [prompt EXCEPT ![j] = PromptOf(a)] /\ agent[j] \in Agents
    BY <1>12 DEF ReadPrompt
  <2>2. WorkerOf[j] \notin overlap => a = agent[j]
    BY <1>12 DEF ReadPrompt
  <2>3. agent[j] # NoAgent
    BY <2>1, RegistryAssumption
  <2>4. PromptOf(agent[j]) \in {agent[j], NoAgent}
    BY DEF PromptOf
  <2>5. SlotOf[j] \in Serial \cap Recreated
          => PromptOf(agent[j]) = IF "prompt" \in Config[SlotOf[j]] THEN agent[j] ELSE NoAgent
    BY <1>12, <2>3 DEF ReadPrompt, PromptOf, MadeNew
  <2> HIDE DEF a
  <2> QED
    BY <1>12, <2>1, <2>2, <2>4, <2>5 DEF ReadPrompt
<1>13. ASSUME NEW j \in Jobs, ReadAgent(j) PROVE Attached'
  BY <1>13 DEF ReadAgent
<1>14. ASSUME NEW j \in Jobs, Reply(j) PROVE Attached'
  BY <1>14 DEF Reply
<1>15. ASSUME NEW j \in Jobs, LlmFails(j) PROVE Attached'
  BY <1>15 DEF LlmFails
<1>16. ASSUME Crash PROVE Attached'
  BY <1>16 DEF Crash
<1>17. CASE UNCHANGED vars
  BY <1>17 DEF vars
<1> QED
  BY <1>1, <1>2, <1>3, <1>4, <1>5, <1>6, <1>7, <1>8, <1>9, <1>10, <1>11, <1>12,
     <1>13, <1>14, <1>15, <1>16, <1>17 DEF Next, Step

-----------------------------------------------------------------------------
Sound == /\ TypeOK /\ Located /\ Unborn /\ Newborn /\ OneActive /\ SlotIsFree
         /\ Doomed /\ OneAgentPerSlot /\ Used /\ Given /\ MadeNew /\ KeptHistory
         /\ OneAtWorker /\ Attached

(* The invariant holds at first.                                           *)
LEMMA InitSound == Init => Sound
<1> SUFFICES ASSUME Init PROVE Sound
  OBVIOUS
<1>1. <<>> \in Seq(Jobs)
  OBVIOUS
<1>2. TypeOK
  BY <1>1 DEF Init, TypeOK, Locations, Request, NoRequest, Agents
<1>3. Located /\ Unborn /\ Newborn /\ SlotIsFree /\ Doomed
  BY RegistryAssumption
  DEF Init, Located, Held, Unborn, Newborn, SlotIsFree, Doomed
<1>4. OneActive /\ OneAgentPerSlot /\ Used /\ MadeNew /\ KeptHistory
  BY DEF Init, OneActive, Idle, OneAgentPerSlot, Used, InUse, MadeNew,
         KeptHistory, Serial
<1>5. Given /\ OneAtWorker /\ Attached
  BY DEF Init, Given, OneAtWorker, Idle, Attached
<1> QED
  BY <1>2, <1>3, <1>4, <1>5 DEF Sound

(* Every step keeps it.                                                    *)
LEMMA StepSound == Sound /\ [Next]_vars => Sound'
  BY TypeStep, LocatedStep, UnbornStep, NewbornStep, OneActiveStep,
     SlotIsFreeStep, DoomedStep, OneAgentStep, UsedStep, GivenStep, MadeNewStep,
     KeptHistoryStep, OneAtWorkerStep, AttachedStep
  DEF Sound

(* So it always holds.                                                     *)
LEMMA SpecSound == Spec => []Sound
<1> QED
  BY InitSound, StepSound, PTL DEF Spec

-----------------------------------------------------------------------------
(* The type invariant holds in every reachable state.                      *)
THEOREM TypeCorrect == Spec => []TypeOK
<1>1. Sound => TypeOK
  BY DEF Sound
<1> QED
  BY <1>1, SpecSound, PTL

(* Wherever the process dies, a name in a chat means at most one agent, as *)
(* long as the jobs of that slot wait for each other.                      *)
THEOREM OneAgentPerName == Spec => []OneAgentPerSlot
<1>1. Sound => OneAgentPerSlot
  BY DEF Sound
<1> QED
  BY <1>1, SpecSound, PTL

(* A job of a recreated slot begins with no history, a job of a kept slot  *)
(* goes on from every turn answered there.                                 *)
THEOREM HistoryRight == Spec => []HistoryIsTheSlots
<1>1. Sound => HistoryIsTheSlots
  BY DEF Sound, HistoryIsTheSlots, MadeNew, KeptHistory, Asking, Serial
<1> QED
  BY <1>1, SpecSound, PTL

(* Where the jobs of a worker come one after another, no agent is told     *)
(* what another one is told, and in a recreated slot every agent is asked  *)
(* as its configuration says, wherever the process died before.            *)
THEOREM AskedRight == Spec => []AskedAsConfigured
<1>1. Sound => AskedAsConfigured
  BY DEF Sound, MadeNew, Attached, AskedAsConfigured, Asking, Serial
<1> QED
  BY <1>1, SpecSound, PTL

-----------------------------------------------------------------------------
(* Branching: the dialogue of an agent, for every set of turns, commands   *)
(* and branches, overlapping or not.                                       *)
(*                                                                         *)
(* A writer saves a state made of the row it read, so what holds of a      *)
(* state by itself must hold of every state about to be written, not only  *)
(* of the row: BranchSound says so and is inductive.  Recorded does the    *)
(* same for the dialogues, which rest on more: a turn in a branch was      *)
(* answered, so the history it was asked with no longer changes.           *)

BranchSound ==
    /\ CurrentExists
    /\ \A p \in Doers : where[p] = "saving" => Has(toSave[p], toSave[p].currentBranchId)

-----------------------------------------------------------------------------
(* The history of the current branch is a sequence of turns.               *)
LEMMA CurrentMessagesType ==
    ASSUME NEW s \in State
    PROVE  CurrentMessages(s) \in Seq(Turns)
  BY DEF CurrentMessages, MessagesOf, Has, State

(* A state with one branch changed is a state.                             *)
LEMMA WithBranchType ==
    ASSUME NEW s \in State, NEW b \in Branches, NEW ms \in Seq(Turns) \cup {NoBranch}
    PROVE  WithBranch(s, b, ms) \in State
  BY DEF WithBranch, State

(* So is a state with another current branch.                              *)
LEMMA WithCurrentType ==
    ASSUME NEW s \in State, NEW b \in Branches
    PROVE  WithCurrent(s, b) \in State
  BY DEF WithCurrent, State

(* What a command may write is a state again, and its current branch is    *)
(* one of its branches if that held of the row.                            *)
LEMMA WrittenState ==
    ASSUME row \in State, CurrentExists, NEW c \in Commands,
           command[c] \in CommandOf, NEW s \in Written(c)
    PROVE  s \in State /\ Has(s, s.currentBranchId)
<1> DEFINE b == command[c].id
<1>1. b \in Branches /\ command[c].verb \in Verbs
  BY DEF CommandOf
<1>2. ASSUME s \in CreateBranch(b)
      PROVE  s \in State /\ Has(s, s.currentBranchId)
  <2> DEFINE ms == CurrentMessages(row)
  <2>1. ms \in Seq(Turns)
    BY CurrentMessagesType
  <2>2. s = WithCurrent(WithBranch(row, b, ms), b)
    BY <1>2 DEF CreateBranch
  <2>3. s \in State
    BY <1>1, <2>1, <2>2, WithBranchType, WithCurrentType
  <2>4. s.currentBranchId = b /\ s.branches[b] = ms
    BY <1>1, <2>2 DEF WithCurrent, WithBranch
  <2> QED
    BY <2>1, <2>3, <2>4, BranchAssumption DEF Has
<1>3. ASSUME s \in SwitchBranch(b)
      PROVE  s \in State /\ Has(s, s.currentBranchId)
  <2>1. s = WithCurrent(row, b) /\ Has(row, b)
    BY <1>3 DEF SwitchBranch
  <2> QED
    BY <1>1, <2>1, WithCurrentType DEF WithCurrent, Has
<1>4. ASSUME s \in DeleteBranch(b)
      PROVE  s \in State /\ Has(s, s.currentBranchId)
  <2>1. s = WithBranch(row, b, NoBranch) /\ b # row.currentBranchId
    BY <1>4 DEF DeleteBranch, MayDelete
  <2>2. s \in State
    BY <1>1, <2>1, WithBranchType
  <2>3. /\ s.currentBranchId = row.currentBranchId
        /\ s.branches[row.currentBranchId] = row.branches[row.currentBranchId]
    BY <2>1 DEF WithBranch, State
  <2> QED
    BY <2>2, <2>3 DEF CurrentExists, Has
<1>5. s \in CreateBranch(b) \cup SwitchBranch(b) \cup DeleteBranch(b)
  BY <1>1 DEF Written, Verbs
<1> QED
  BY <1>2, <1>3, <1>4, <1>5

(* A turn writes under the current branch, which exists from then on.      *)
LEMMA RepliedState ==
    ASSUME row \in State, NEW ms \in Seq(Turns)
    PROVE  LET s == WithBranch(row, Target(row), ms)
           IN  s \in State /\ Has(s, s.currentBranchId)
<1>1. Target(row) \in Branches
  BY DEF Target, State
<1>2. WithBranch(row, Target(row), ms) \in State
  BY <1>1, WithBranchType
<1> QED
  BY <1>1, <1>2, BranchAssumption DEF Has, WithBranch, Target

-----------------------------------------------------------------------------
(* The state of a new dialogue is one whose current branch exists.         *)
LEMMA FirstBranch ==
    ASSUME NEW b \in Branches
    PROVE  OneBranch(b) \in State /\ Has(OneBranch(b), OneBranch(b).currentBranchId)
<1>1. <<>> \in Seq(Turns)
  OBVIOUS
<1> QED
  BY <1>1, BranchAssumption DEF OneBranch, State, Has

(* The invariant holds at first.                                           *)
LEMMA InitBranched == BranchInit => BranchTypeOK /\ BranchSound
<1> SUFFICES ASSUME NEW b \in Branches,
                    overlapping \in BOOLEAN,
                    row = OneBranch(b), main = b,
                    where = [p \in Doers |-> "new"],
                    snapshot = [t \in Turns |-> <<>>],
                    toSave = [p \in Doers |-> OneBranch(b)],
                    command \in [Commands -> CommandOf]
             PROVE  BranchTypeOK /\ BranchSound
  BY DEF BranchInit
<1>1. <<>> \in Seq(Turns)
  OBVIOUS
<1> QED
  BY <1>1, FirstBranch DEF BranchTypeOK, BranchSound, CurrentExists

(* Every step keeps it, one case for each action.                          *)
LEMMA StepBranched == BranchTypeOK /\ BranchSound /\ [BranchNext]_branchVars => BranchTypeOK' /\ BranchSound'
<1> SUFFICES ASSUME BranchTypeOK, BranchSound, [BranchNext]_branchVars PROVE BranchTypeOK' /\ BranchSound'
  OBVIOUS
<1>0. row \in State /\ CurrentExists
  BY DEF BranchTypeOK, BranchSound
<1>1. ASSUME NEW t \in Turns, Ask(t) PROVE BranchTypeOK' /\ BranchSound'
  <2>1. CurrentMessages(row) \in Seq(Turns) /\ t \in Doers
    BY <1>0, CurrentMessagesType DEF Doers
  <2> QED
    BY <1>1, <2>1 DEF Ask, BranchTypeOK, BranchSound, CurrentExists
<1>2. ASSUME NEW t \in Turns, RequestFails(t) PROVE BranchTypeOK' /\ BranchSound'
  BY <1>2 DEF RequestFails, BranchTypeOK, BranchSound, CurrentExists, Doers
<1>3. ASSUME NEW t \in Turns, AfterResponse(t) PROVE BranchTypeOK' /\ BranchSound'
  <2> DEFINE ms == Append(snapshot[t], t)
             s  == WithBranch(row, Target(row), ms)
  <2>1. ms \in Seq(Turns) /\ t \in Doers
    BY DEF BranchTypeOK, Doers
  <2>2. s \in State /\ Has(s, s.currentBranchId)
    BY <1>0, <2>1, RepliedState
  <2>3. /\ toSave' = [toSave EXCEPT ![t] = s]
        /\ where' = [where EXCEPT ![t] = "saving"]
        /\ UNCHANGED <<overlapping, row, main, snapshot, command>>
    BY <1>3 DEF AfterResponse
  <2> HIDE DEF s
  <2> QED
    BY <2>1, <2>2, <2>3 DEF BranchTypeOK, BranchSound, CurrentExists
<1>4. ASSUME NEW c \in Commands, Accept(c) PROVE BranchTypeOK' /\ BranchSound'
  <2>1. PICK s \in Written(c) : /\ toSave' = [toSave EXCEPT ![c] = s]
                                /\ where' = [where EXCEPT ![c] = "saving"]
    BY <1>4 DEF Accept
  <2>2. s \in State /\ Has(s, s.currentBranchId)
    BY <1>0, WrittenState DEF BranchTypeOK
  <2>3. UNCHANGED <<overlapping, row, main, snapshot, command>> /\ c \in Doers
    BY <1>4 DEF Accept, Doers
  <2> QED
    BY <2>1, <2>2, <2>3 DEF BranchTypeOK, BranchSound, CurrentExists
<1>5. ASSUME NEW c \in Commands, Refuse(c) PROVE BranchTypeOK' /\ BranchSound'
  BY <1>5 DEF Refuse, BranchTypeOK, BranchSound, CurrentExists, Doers
<1>6. ASSUME NEW c \in Commands, SetupBranches(c) PROVE BranchTypeOK' /\ BranchSound'
  BY <1>6 DEF SetupBranches, BranchTypeOK, BranchSound, CurrentExists, Doers, CommandOf
<1>7. ASSUME NEW p \in Doers, Save(p) PROVE BranchTypeOK' /\ BranchSound'
  BY <1>7 DEF Save, BranchTypeOK, BranchSound, CurrentExists
<1>8. CASE UNCHANGED branchVars
  BY <1>8 DEF branchVars, BranchTypeOK, BranchSound, CurrentExists
<1> QED
  BY <1>1, <1>2, <1>3, <1>4, <1>5, <1>6, <1>7, <1>8 DEF BranchNext

(* The type invariant holds in every reachable state.                      *)
THEOREM BranchTypeCorrect == BranchSpec => []BranchTypeOK
<1> QED
  BY InitBranched, StepBranched, PTL DEF BranchSpec

(* Lost updates or not, the current branch of the saved state exists: two  *)
(* writers overwrite each other's whole value, and each value is sound.    *)
THEOREM CurrentBranchExists == BranchSpec => []CurrentExists
<1>1. BranchSound => CurrentExists
  BY DEF BranchSound
<1> QED
  BY <1>1, InitBranched, StepBranched, PTL DEF BranchSpec

-----------------------------------------------------------------------------
(* By the places at and the histories given, every turn in ms was answered,*)
(* with the turns before it as its history.                                *)
Settled(ms, at, given) ==
    \A i \in 1 .. Len(ms) : /\ at[ms[i]] \in {"saving", "done"}
                           /\ given[ms[i]] = SubSeq(ms, 1, i - 1)

Recorded(state, at, given) ==
    \A b \in Branches : Has(state, b) => Settled(state.branches[b], at, given)

AllRecorded ==
    /\ Recorded(row, where, snapshot)
    /\ \A p \in Doers : where[p] = "saving" => Recorded(toSave[p], where, snapshot)
    /\ \A t \in Turns : where[t] = "asking" => Settled(snapshot[t], where, snapshot)

(* A turn that was answered stays so and keeps its history: it asks once.  *)
LEMMA AnsweredForGood ==
    ASSUME BranchTypeOK, [BranchNext]_branchVars, NEW t \in Turns, where[t] \in {"saving", "done"}
    PROVE  where'[t] \in {"saving", "done"} /\ snapshot'[t] = snapshot[t]
<1> USE DEF BranchTypeOK, Doers
<1>1. ASSUME NEW u \in Turns, Ask(u) \/ RequestFails(u) \/ AfterResponse(u)
      PROVE  where'[t] \in {"saving", "done"} /\ snapshot'[t] = snapshot[t]
  BY <1>1 DEF Ask, RequestFails, AfterResponse, MayStart
<1>2. ASSUME NEW c \in Commands, Accept(c) \/ Refuse(c) \/ SetupBranches(c)
      PROVE  where'[t] \in {"saving", "done"} /\ snapshot'[t] = snapshot[t]
  BY <1>2 DEF Accept, Refuse, SetupBranches, MayStart
<1>3. ASSUME NEW p \in Doers, Save(p)
      PROVE  where'[t] \in {"saving", "done"} /\ snapshot'[t] = snapshot[t]
  BY <1>3 DEF Save
<1>4. CASE UNCHANGED branchVars
  BY <1>4 DEF branchVars
<1> QED
  BY <1>1, <1>2, <1>3, <1>4 DEF BranchNext

(* So whatever sequence is settled stays settled, and a state recorded.    *)
LEMMA SettledStays ==
    ASSUME BranchTypeOK, [BranchNext]_branchVars, NEW ms \in Seq(Turns), Settled(ms, where, snapshot)
    PROVE  Settled(ms, where', snapshot')
<1>1. \A i \in 1 .. Len(ms) : ms[i] \in Turns
  OBVIOUS
<1> QED
  BY <1>1, AnsweredForGood DEF Settled

LEMMA RecordedStays ==
    ASSUME BranchTypeOK, [BranchNext]_branchVars, NEW s \in State, Recorded(s, where, snapshot)
    PROVE  Recorded(s, where', snapshot')
<1> SUFFICES ASSUME NEW b \in Branches, Has(s, b)
             PROVE  Settled(s.branches[b], where', snapshot')
  BY DEF Recorded
<1>1. s.branches[b] \in Seq(Turns)
  BY DEF State, Has
<1>2. Settled(s.branches[b], where, snapshot)
  BY DEF Recorded
<1> QED
  BY <1>1, <1>2, SettledStays

(* The history of the current branch is settled.                           *)
LEMMA CurrentSettled ==
    ASSUME NEW s \in State, NEW at, NEW given, Recorded(s, at, given)
    PROVE  Settled(CurrentMessages(s), at, given)
<1>1. Settled(<<>>, at, given)
  BY DEF Settled
<1> QED
  BY <1>1 DEF CurrentMessages, MessagesOf, Recorded, State

(* A recorded state stays one when a branch gets a settled history, or is  *)
(* deleted, or another one becomes current.                                *)
LEMMA WithBranchRecorded ==
    ASSUME NEW s \in State, NEW at, NEW given, Recorded(s, at, given),
           NEW b \in Branches, NEW ms, ms = NoBranch \/ Settled(ms, at, given)
    PROVE  Recorded(WithBranch(s, b, ms), at, given)
  BY DEF Recorded, WithBranch, Has, State

LEMMA WithCurrentRecorded ==
    ASSUME NEW s, NEW at, NEW given, Recorded(s, at, given), NEW b
    PROVE  Recorded(WithCurrent(s, b), at, given)
  BY DEF Recorded, WithCurrent, Has

(* What a command writes is recorded if the row is.                        *)
LEMMA WrittenRecorded ==
    ASSUME BranchTypeOK, NEW at, NEW given, Recorded(row, at, given),
           NEW c \in Commands, NEW s \in Written(c)
    PROVE  Recorded(s, at, given)
<1> DEFINE b == command[c].id
           ms == CurrentMessages(row)
<1>1. b \in Branches /\ command[c].verb \in Verbs /\ row \in State
  BY DEF BranchTypeOK, CommandOf
<1>2. Settled(ms, at, given)
  BY <1>1, CurrentSettled
<1>3. s \in CreateBranch(b) \cup SwitchBranch(b) \cup DeleteBranch(b)
  BY <1>1 DEF Written, Verbs
<1>4. CASE s \in CreateBranch(b)
  <2>1. s = WithCurrent(WithBranch(row, b, ms), b)
    BY <1>4 DEF CreateBranch
  <2>2. Recorded(WithBranch(row, b, ms), at, given)
    BY <1>1, <1>2, WithBranchRecorded
  <2> QED
    BY <2>1, <2>2, WithCurrentRecorded
<1>5. CASE s \in SwitchBranch(b)
  BY <1>5, WithCurrentRecorded DEF SwitchBranch
<1>6. CASE s \in DeleteBranch(b)
  BY <1>1, <1>6, WithBranchRecorded DEF DeleteBranch
<1> QED
  BY <1>3, <1>4, <1>5, <1>6

(* A turn that is answered settles its history with itself at the end.     *)
LEMMA ReplySettled ==
    ASSUME NEW t \in Turns, NEW at, NEW given, NEW ms \in Seq(Turns),
           Settled(ms, at, given), at[t] = "saving", given[t] = ms
    PROVE  Settled(Append(ms, t), at, given)
<1> DEFINE new == Append(ms, t)
<1>1. new \in Seq(Turns) /\ Len(new) = Len(ms) + 1 /\ new[Len(new)] = t
  OBVIOUS
<1>2. \A i \in 1 .. Len(ms) : new[i] = ms[i]
  OBVIOUS
<1>3. ASSUME NEW i \in 1 .. Len(new)
      PROVE  SubSeq(new, 1, i - 1) = SubSeq(ms, 1, i - 1)
  <2>1. i - 1 \in 0 .. Len(ms)
    BY <1>1
  <2> QED
    BY <2>1, <1>1, <1>2
<1>4. SubSeq(ms, 1, Len(ms)) = ms
  OBVIOUS
<1> SUFFICES ASSUME NEW i \in 1 .. Len(new)
             PROVE  at[new[i]] \in {"saving", "done"} /\ given[new[i]] = SubSeq(new, 1, i - 1)
  BY DEF Settled
<1>5. CASE i = Len(new)
  BY <1>1, <1>3, <1>4, <1>5
<1>6. CASE i \in 1 .. Len(ms)
  BY <1>2, <1>3, <1>6 DEF Settled
<1> QED
  BY <1>1, <1>5, <1>6

(* No turn was answered at first.                                          *)
LEMMA InitRecorded == BranchInit => AllRecorded
<1> SUFFICES ASSUME NEW b \in Branches, row = OneBranch(b),
                    where = [p \in Doers |-> "new"]
             PROVE  AllRecorded
  BY DEF BranchInit
<1>1. Recorded(row, where, snapshot)
  BY DEF Recorded, OneBranch, Has, Settled
<1> QED
  BY <1>1 DEF AllRecorded, Doers

(* Every step keeps the dialogues: what was recorded stays so, and the     *)
(* state or the history that is new is made of what was.                   *)
LEMMA StepRecorded == BranchTypeOK /\ AllRecorded /\ [BranchNext]_branchVars => AllRecorded'
<1> SUFFICES ASSUME BranchTypeOK, AllRecorded, [BranchNext]_branchVars PROVE AllRecorded'
  OBVIOUS
<1>1. Recorded(row, where', snapshot')
  BY RecordedStays DEF AllRecorded, BranchTypeOK
<1>2. \A p \in Doers : where[p] = "saving" => Recorded(toSave[p], where', snapshot')
  BY RecordedStays DEF AllRecorded, BranchTypeOK
<1>3. \A t \in Turns : where[t] = "asking" => Settled(snapshot[t], where', snapshot')
  BY SettledStays DEF AllRecorded, BranchTypeOK
<1> USE DEF BranchTypeOK, Doers, AllRecorded
<1>4. ASSUME NEW t \in Turns, Ask(t) PROVE AllRecorded'
  <2>1. Settled(CurrentMessages(row), where', snapshot')
    BY <1>1, CurrentSettled
  <2> QED
    BY <1>1, <1>2, <1>3, <1>4, <2>1 DEF Ask
<1>5. ASSUME NEW t \in Turns, RequestFails(t) PROVE AllRecorded'
  BY <1>1, <1>2, <1>3, <1>5 DEF RequestFails
<1>6. ASSUME NEW t \in Turns, AfterResponse(t) PROVE AllRecorded'
  <2> DEFINE ms == Append(snapshot[t], t)
             s  == WithBranch(row, Target(row), ms)
  <2>1. Settled(ms, where', snapshot')
    BY <1>3, <1>6, ReplySettled DEF AfterResponse
  <2>2. Target(row) \in Branches
    BY DEF Target, State
  <2>3. Recorded(s, where', snapshot')
    BY <1>1, <2>1, <2>2, WithBranchRecorded
  <2> HIDE DEF s
  <2>4. toSave' = [toSave EXCEPT ![t] = s] /\ where' = [where EXCEPT ![t] = "saving"]
        /\ UNCHANGED <<row, snapshot>>
    BY <1>6 DEF AfterResponse, s
  <2> QED
    BY <1>1, <1>2, <1>3, <2>3, <2>4
<1>7. ASSUME NEW c \in Commands, Accept(c) PROVE AllRecorded'
  <2>1. PICK s \in Written(c) : /\ toSave' = [toSave EXCEPT ![c] = s]
                                /\ where' = [where EXCEPT ![c] = "saving"]
    BY <1>7 DEF Accept
  <2>2. Recorded(s, where', snapshot')
    BY <1>1, WrittenRecorded
  <2>3. UNCHANGED <<row, snapshot>>
    BY <1>7 DEF Accept
  <2> QED
    BY <1>1, <1>2, <1>3, <2>1, <2>2, <2>3
<1>8. ASSUME NEW c \in Commands, Refuse(c) \/ SetupBranches(c) PROVE AllRecorded'
  BY <1>1, <1>2, <1>3, <1>8 DEF Refuse, SetupBranches
<1>9. ASSUME NEW p \in Doers, Save(p) PROVE AllRecorded'
  BY <1>1, <1>2, <1>3, <1>9 DEF Save
<1>10. CASE UNCHANGED branchVars
  BY <1>1, <1>2, <1>3, <1>10 DEF branchVars
<1> QED
  BY <1>4, <1>5, <1>6, <1>7, <1>8, <1>9, <1>10 DEF BranchNext

(* However turns and commands overlap and overwrite each other's states,   *)
(* every turn in a branch was answered with what stands before it.         *)
THEOREM BranchesStayDialogues == BranchSpec => []BranchesAreDialogues
<1>1. BranchSound /\ AllRecorded => BranchesAreDialogues
  BY DEF BranchSound, AllRecorded, Recorded, Settled, BranchesAreDialogues, Dialogue
<1> QED
  BY <1>1, InitBranched, StepBranched, InitRecorded, StepRecorded, PTL DEF BranchSpec

-----------------------------------------------------------------------------
(* One after another: one turn or command runs at a time, so the row is    *)
(* still what the turn read, and the state it saves is that row with the   *)
(* turn added.                                                             *)
Busy(p) == where[p] \in {"asking", "saving"}

OneAtATime ==
    ~overlapping =>
      /\ \A p, q \in Doers : Busy(p) /\ Busy(q) => p = q
      /\ \A t \in Turns : Busy(t) => snapshot[t] = CurrentMessages(row)
      /\ \A t \in Turns : where[t] = "saving" =>
           toSave[t] = WithBranch(row, Target(row), Append(snapshot[t], t))

LEMMA InitOneAtATime == BranchInit => OneAtATime
  BY DEF BranchInit, OneAtATime, Busy, Doers

LEMMA StepOneAtATime == BranchTypeOK /\ OneAtATime /\ [BranchNext]_branchVars => OneAtATime'
<1> SUFFICES ASSUME BranchTypeOK, OneAtATime, [BranchNext]_branchVars, ~overlapping' PROVE OneAtATime'
  BY DEF OneAtATime
<1>0. Turns \cap Commands = {}
  BY BranchAssumption
<1>9. overlapping' = overlapping
  BY DEF BranchNext, Ask, RequestFails, AfterResponse, Accept, Refuse, SetupBranches, Save, branchVars
<1> USE DEF BranchTypeOK, Doers, Busy
<1>1. ASSUME NEW t \in Turns, Ask(t) PROVE OneAtATime'
  <2>1. \A p \in Doers : ~Busy(p)
    BY <1>1, <1>9 DEF Ask, MayStart
  <2> DEFINE ms == CurrentMessages(row)
  <2>2. /\ snapshot' = [snapshot EXCEPT ![t] = ms] /\ row' = row
        /\ where' = [where EXCEPT ![t] = "asking"]
        /\ CurrentMessages(row') = ms
    BY <1>1 DEF Ask
  <2> HIDE DEF ms
  <2> QED
    BY <2>1, <2>2 DEF OneAtATime
<1>2. ASSUME NEW t \in Turns, RequestFails(t) PROVE OneAtATime'
  BY <1>2, <1>9 DEF RequestFails, OneAtATime
<1>3. ASSUME NEW t \in Turns, AfterResponse(t) PROVE OneAtATime'
  <2> DEFINE s == WithBranch(row, Target(row), Append(snapshot[t], t))
  <2>1. /\ toSave' = [toSave EXCEPT ![t] = s]
        /\ where' = [where EXCEPT ![t] = "saving"] /\ where[t] = "asking"
        /\ UNCHANGED <<row, snapshot>>
        /\ s = WithBranch(row', Target(row'), Append(snapshot'[t], t))
    BY <1>3 DEF AfterResponse
  <2>2. \A p \in Doers : Busy(p) => p = t
    BY <1>9, <2>1 DEF OneAtATime
  <2>3. snapshot[t] = CurrentMessages(row)
    BY <1>9, <2>1 DEF OneAtATime
  <2>4. CurrentMessages(row') = CurrentMessages(row)
    BY <2>1
  <2> HIDE DEF s
  <2> QED
    BY <2>1, <2>2, <2>3, <2>4 DEF OneAtATime
<1>4. ASSUME NEW c \in Commands, Accept(c) PROVE OneAtATime'
  <2>1. \A p \in Doers : ~Busy(p)
    BY <1>4, <1>9 DEF Accept, MayStart
  <2>2. where' = [where EXCEPT ![c] = "saving"] /\ c \notin Turns
    BY <1>0, <1>4 DEF Accept
  <2> QED
    BY <2>1, <2>2 DEF OneAtATime
<1>5. ASSUME NEW c \in Commands, Refuse(c) \/ SetupBranches(c) PROVE OneAtATime'
  BY <1>5, <1>9 DEF Refuse, SetupBranches, OneAtATime
<1>6. ASSUME NEW p \in Doers, Save(p) PROVE OneAtATime'
  <2>1. \A q \in Doers : Busy(q) => q = p
    BY <1>6, <1>9 DEF Save, OneAtATime
  <2>2. where' = [where EXCEPT ![p] = "done"]
    BY <1>6 DEF Save
  <2> QED
    BY <2>1, <2>2 DEF OneAtATime
<1>7. CASE UNCHANGED branchVars
  BY <1>7, <1>9 DEF branchVars, OneAtATime
<1> QED
  BY <1>1, <1>2, <1>3, <1>4, <1>5, <1>6, <1>7 DEF BranchNext

(* A save then changes the current branch alone, whose history is the one  *)
(* the turn was answered with.                                             *)
LEMMA SaveInBranch ==
    ASSUME BranchTypeOK, OneAtATime, ~overlapping, NEW t \in Turns, NEW b \in Branches,
           Save(t), row'.branches[b] # row.branches[b]
    PROVE  MessagesOf(row, b) = snapshot[t]
<1>1. /\ snapshot[t] = CurrentMessages(row)
      /\ row' = WithBranch(row, Target(row), Append(snapshot[t], t))
  BY DEF OneAtATime, Save, Busy
<1>2. b = row.currentBranchId
  BY <1>1 DEF WithBranch, Target
<1> QED
  BY <1>1, <1>2 DEF CurrentMessages

(* One after another, a turn changes the history of one branch, the one    *)
(* whose history it was answered with.                                     *)
THEOREM TurnsKeepToTheirBranch == BranchSpec => TurnsStayInBranch
<1>1. BranchTypeOK /\ OneAtATime /\ [BranchNext]_branchVars =>
        [~overlapping => \A t \in Turns, b \in Branches :
           Save(t) /\ row'.branches[b] # row.branches[b] =>
             MessagesOf(row, b) = snapshot[t]]_branchVars
  BY SaveInBranch
<1> QED
  BY <1>1, InitBranched, StepBranched, InitOneAtATime, StepOneAtATime, PTL
     DEF BranchSpec, TurnsStayInBranch
=============================================================================
