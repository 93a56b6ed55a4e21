------------------------------ MODULE McpTools ------------------------------
(* The tools an agent is offered and the calls of them: McpToolProvider,   *)
(* McpToolsImpl, McpRepositoryImpl and the streamable HTTP of McpTransport *)
(* (core_features/agent/data/tools, core_features/mcp).                    *)
(*                                                                         *)
(* McpToolProvider has no scope, so each place it is injected into has one *)
(* of its own: a worker lists the tools with one instance, the shared      *)
(* ToolCallOrchestrator calls them with another.  Of the first only the    *)
(* names in its map matter (listed), of the second the routes; nothing     *)
(* ever lists tools with the second.  Connection states and session ids    *)
(* are shared by all.                                                      *)
(*                                                                         *)
(* A session is live, dead since its server restarted, or none.  The       *)
(* transports HTTP, SSE and STDIO differ in how they connect and are left  *)
(* out, as are tokens and the local tools that call remote ones.           *)
EXTENDS Naturals, Sequences, SequencesExt

CONSTANTS
    Jobs,         \* turns of agents, @@mcp commands and clicks in the settings
    Remote,       \* ids of servers the user has added
    Local,        \* LOCAL_SERVER_ID
    Tools,        \* names of tools
    None,         \* no name, no server
    Menus,        \* the sets of tools a server of the user may have
    LocalTools,   \* the tools of LocalMcpService
    AllowedTo,    \* the tools both the app and the agent of a job allow
    SavedBefore,  \* the table when the app starts
    MaxCalls,     \* calls of a turn
    MaxEvents     \* servers saved, deleted or restarted, requests lost,
                  \* jobs cancelled

Ids == Remote \cup {Local}

ASSUME McpAssumption ==
    /\ Local \notin Remote /\ None \notin Ids \cup Tools
    /\ Menus \subseteq SUBSET Tools /\ LocalTools \subseteq Tools
    /\ SavedBefore \in Seq(Ids)
    /\ \A i, k \in DOMAIN SavedBefore : SavedBefore[i] = SavedBefore[k] => i = k
    /\ AllowedTo \in [Jobs -> SUBSET Tools]
    /\ {MaxCalls, MaxEvents} \subseteq Nat

VARIABLES
    servers,      \* the table of servers, the newest row first
    lists,        \* the tools each server has (of the server, not of the app)
    conn,         \* connectionStates
    session,      \* sessionIds
    routes,       \* toolToServer of the orchestrator's provider
    listed,       \* the names in toolToServer of the workers' provider
    job,          \* what each coroutine is at
    offer,        \* the tools each turn was offered, each with its server
    seen,         \* of a turn: the allowed tools it met while it listed
    alone,        \* of a turn: nobody else listed tools at the same time
    shaken,       \* servers deleted, in error or with less tools since then
    events        \* those so far, see MaxEvents

vars == <<servers, lists, conn, session, routes, listed, job, offer, seen, alone,
          shaken, events>>

table == <<servers, lists>>
net   == <<conn, session>>
maps  == <<routes, listed>>
turns == <<offer, seen, alone, shaken>>

Disconnected == [is |-> "disconnected", tools |-> {}]
Failed == [is |-> "error", tools |-> {}]
Connected(ts) == [is |-> "connected", tools |-> ts]

Idle == [pc |-> "idle", then |-> "show", at |-> Local, todo |-> <<>>, tool |-> None,
         tools |-> {}, ok |-> FALSE, hdr |-> "none", disturbed |-> FALSE,
         calls |-> 0, outcome |-> "none"]

Pcs == {"idle", "visit", "connect", "initSent", "inited", "listSent", "threw", "have",
        "thinking", "routed", "find", "calling", "callSent", "refused"}
Sessions == {"none", "live", "dead"}

Job == [pc : Pcs, then : {"offer", "route", "call", "show"}, at : Ids, todo : Seq(Ids),
        tool : Tools \cup {None}, tools : SUBSET Tools, ok : BOOLEAN, hdr : Sessions,
        disturbed : BOOLEAN, calls : 0..MaxCalls,
        outcome : {"none", "ok", "error", "unknown", "no server"}]

Connection == [is : {"disconnected", "error", "connected"}, tools : SUBSET Tools]

TypeOK ==
    /\ servers \in Seq(Ids) /\ lists \in [Ids -> SUBSET Tools]
    /\ conn \in [Ids -> Connection]
    /\ session \in [Ids -> Sessions]
    /\ routes \in [Tools -> Ids \cup {None}] /\ listed \subseteq Tools
    /\ job \in [Jobs -> Job]
    /\ offer \in [Jobs -> SUBSET (Tools \X Ids)] /\ seen \in [Jobs -> SUBSET Tools]
    /\ alone \in [Jobs -> BOOLEAN] /\ shaken \in [Jobs -> SUBSET Ids]
    /\ events \in 0..MaxEvents

Init ==
    /\ servers = SavedBefore /\ lists \in [Ids -> Menus \cup {LocalTools}]
    /\ lists[Local] = LocalTools /\ \A s \in Remote : lists[s] \in Menus
    /\ conn = [s \in Ids |-> Disconnected] /\ session = [s \in Ids |-> "none"]
    /\ routes = [t \in Tools |-> None] /\ listed = {}
    /\ job = [j \in Jobs |-> Idle]
    /\ offer = [j \in Jobs |-> {}] /\ seen = [j \in Jobs |-> {}]
    /\ alone = [j \in Jobs |-> FALSE] /\ shaken = [j \in Jobs |-> {}]
    /\ events = 0

-----------------------------------------------------------------------------
At(j, pc) == job[j].pc = pc

(* Becomes(j, r): job j goes on as r.                                      *)
Becomes(j, r) == job' = [job EXCEPT ![j] = r]

(* ensureLocalMcpServer: whoever reads the servers puts the local one back. *)
WithLocal(rows) == IF Contains(rows, Local) THEN rows ELSE <<Local>> \o rows

Listing(j) == job[j].then = "offer" /\ job[j].pc \notin {"idle", "thinking"}

Shake(s) == shaken' = [j \in Jobs |-> IF At(j, "idle") THEN {} ELSE shaken[j] \cup {s}]

(* A turn begins to list tools.                                            *)
Begins(j) ==
    /\ At(j, "idle")
    /\ servers' = WithLocal(servers)
    /\ Becomes(j, [Idle EXCEPT !.pc = "visit", !.then = "offer", !.todo = servers'])
    /\ alone' = [k \in Jobs |-> IF k = j THEN \A i \in Jobs : ~Listing(i)
                                ELSE alone[k] /\ ~Listing(k)]
    /\ offer' = [offer EXCEPT ![j] = {}] /\ seen' = [seen EXCEPT ![j] = {}]
    /\ shaken' = [shaken EXCEPT ![j] = {}]
    /\ UNCHANGED <<lists, net, routes, events>>

(* Mutant of StartTurn: the map of the provider is not emptied.            *)
StartTurnDirty(j) == Begins(j) /\ UNCHANGED listed

(* getTools: the servers are read and the map of the provider is emptied.  *)
StartTurn(j) == Begins(j) /\ listed' = {}

(* getConnectedTools: what is known is used, an error too; a server nobody *)
(* has asked is connected to.                                              *)
Visit(j) ==
    /\ At(j, "visit") /\ job[j].todo # <<>>
    /\ LET s == Head(job[j].todo)
       IN  Becomes(j, [job[j] EXCEPT !.at = s, !.tools = conn[s].tools,
                         !.pc = IF conn[s].is = "disconnected" THEN "connect" ELSE "have"])
    /\ UNCHANGED <<table, net, maps, turns, events>>

NextServer(j) == Becomes(j, [job[j] EXCEPT !.pc = "visit", !.todo = Tail(@), !.at = Local,
                                           !.tools = {}, !.ok = FALSE])

(* What the names listed already leave of the tools ts.                    *)
NewOf(ts) == ts \ listed

(* The loop of getTools over the tools of one server.                      *)
OfferTools(j) ==
    /\ At(j, "have") /\ job[j].then = "offer"
    /\ LET ts == job[j].tools \cap AllowedTo[j]
       IN  /\ offer' = [offer EXCEPT ![j] = @ \cup (NewOf(ts) \X {job[j].at})]
           /\ seen' = [seen EXCEPT ![j] = @ \cup ts]
           /\ listed' = listed \cup ts
    /\ NextServer(j)
    /\ UNCHANGED <<table, net, routes, alone, shaken, events>>

Thinks(j, outcome) ==
    Becomes(j, [job[j] EXCEPT !.pc = "thinking", !.then = "call", !.outcome = outcome,
                              !.at = Local, !.tools = {}, !.todo = <<>>, !.hdr = "none",
                              !.disturbed = FALSE, !.ok = FALSE])

OfferEnds(j) ==
    /\ At(j, "visit") /\ job[j].todo = <<>> /\ job[j].then = "offer"
    /\ Thinks(j, "none")
    /\ UNCHANGED <<table, net, maps, turns, events>>

-----------------------------------------------------------------------------
(* McpRepositoryImpl.connect.  A row that is gone is an error nobody keeps. *)
ConnectGone(j) ==
    /\ At(j, "connect") /\ ~Contains(servers, job[j].at)
    /\ Becomes(j, [job[j] EXCEPT !.pc = "have", !.ok = FALSE, !.tools = {}])
    /\ UNCHANGED <<table, net, maps, turns, events>>

ConnectLocal(j) ==
    /\ At(j, "connect") /\ job[j].at = Local /\ Contains(servers, Local)
    /\ conn' = [conn EXCEPT ![Local] = Connected(lists[Local])]
    /\ Becomes(j, [job[j] EXCEPT !.pc = "have", !.ok = TRUE, !.tools = lists[Local]])
    /\ UNCHANGED <<table, session, maps, turns, events>>

(* Job k is between the answer that gave s its session and a request that  *)
(* reads the session.                                                      *)
Relies(k, s) ==
    /\ job[k].at = s
    /\ \/ job[k].pc \in {"inited", "calling"}
       \/ At(k, "have") /\ job[k].then = "call" /\ job[k].ok

(* connectStreamableHttp: the session is forgotten, whoever may need it    *)
(* still, and initialize is sent without one.                              *)
SendInitialize(j) ==
    /\ At(j, "connect") /\ job[j].at # Local /\ Contains(servers, job[j].at)
    /\ session' = [session EXCEPT ![job[j].at] = "none"]
    /\ job' = [k \in Jobs |->
                 IF k = j THEN [job[j] EXCEPT !.pc = "initSent", !.hdr = "none",
                                              !.disturbed = FALSE]
                 ELSE IF Relies(k, job[j].at) THEN [job[k] EXCEPT !.disturbed = TRUE]
                 ELSE job[k]]
    /\ UNCHANGED <<table, conn, maps, turns, events>>

(* The server opens a session, and the app notes its id.                   *)
InitializeAnswered(j) ==
    /\ At(j, "initSent")
    /\ session' = [session EXCEPT ![job[j].at] = "live"]
    /\ Becomes(j, [job[j] EXCEPT !.pc = "inited"])
    /\ UNCHANGED <<table, conn, maps, turns, events>>

(* Mutant of SendList: tools/list is sent as initialize is, without the id. *)
SendListBare(j) ==
    /\ At(j, "inited")
    /\ Becomes(j, [job[j] EXCEPT !.pc = "listSent", !.hdr = "none"])
    /\ UNCHANGED <<table, net, maps, turns, events>>

(* postStreamable reads the id of the session when it sends.               *)
SendList(j) ==
    /\ At(j, "inited")
    /\ Becomes(j, [job[j] EXCEPT !.pc = "listSent", !.hdr = session[job[j].at]])
    /\ UNCHANGED <<table, net, maps, turns, events>>

(* The server knows the session of the request.                            *)
Accepts(j) == job[j].hdr = "live"

(* The answer to a request repeats the id of its session.                  *)
ListAnswered(j) ==
    /\ At(j, "listSent") /\ Accepts(j)
    /\ LET s == job[j].at
       IN  /\ IF conn[s].tools \subseteq lists[s] THEN UNCHANGED shaken ELSE Shake(s)
           /\ session' = [session EXCEPT ![s] = "live"]
           /\ conn' = [conn EXCEPT ![s] = Connected(lists[s])]
           /\ Becomes(j, [job[j] EXCEPT !.pc = "have", !.ok = TRUE, !.tools = lists[s],
                                         !.hdr = "none", !.disturbed = FALSE])
    /\ UNCHANGED <<table, maps, offer, seen, alone, events>>

(* A request of no session, or of a session the server does not know.      *)
Refuse(j) ==
    /\ job[j].pc \in {"listSent", "callSent"} /\ job[j].at # Local
    /\ ~Accepts(j)
    /\ Becomes(j, [job[j] EXCEPT !.pc = IF @ = "callSent" THEN "refused" ELSE "threw"])
    /\ UNCHANGED <<table, net, maps, turns, events>>

(* A request that does not arrive, or whose answer does not.               *)
Lose(j) ==
    /\ job[j].pc \in {"initSent", "listSent", "callSent"} /\ job[j].at # Local
    /\ events < MaxEvents /\ events' = events + 1
    /\ Becomes(j, [job[j] EXCEPT !.pc = IF @ = "callSent" THEN "refused" ELSE "threw",
                                 !.disturbed = TRUE])
    /\ UNCHANGED <<table, net, maps, turns>>

(* connect catches the exception and keeps the error.                      *)
ConnectFails(j) ==
    /\ At(j, "threw")
    /\ conn' = [conn EXCEPT ![job[j].at] = Failed]
    /\ Shake(job[j].at)
    /\ Becomes(j, [job[j] EXCEPT !.pc = "have", !.ok = FALSE, !.tools = {}, !.hdr = "none",
                                 !.disturbed = FALSE])
    /\ UNCHANGED <<table, session, maps, offer, seen, alone, events>>

-----------------------------------------------------------------------------
(* Mutant of CallTool: only the routes are asked, which nobody fills.      *)
CallRouted(j, t) ==
    /\ At(j, "thinking") /\ job[j].calls < MaxCalls
    /\ LET called == [job[j] EXCEPT !.calls = @ + 1, !.tool = t]
       IN  Becomes(j, IF routes[t] = None THEN [called EXCEPT !.outcome = "unknown"]
                      ELSE [called EXCEPT !.pc = "routed", !.then = "call", !.at = routes[t],
                                          !.outcome = "none"])
    /\ UNCHANGED <<table, net, maps, turns, events>>

(* executeToolCall of a name the LLM has chosen.  The routes know it, or   *)
(* the servers are gone through.                                           *)
CallTool(j, t) ==
    /\ At(j, "thinking") /\ job[j].calls < MaxCalls
    /\ LET called == [job[j] EXCEPT !.calls = @ + 1, !.tool = t, !.outcome = "none"]
       IN  IF routes[t] # None
           THEN /\ Becomes(j, [called EXCEPT !.pc = "routed", !.then = "call",
                                             !.at = routes[t]])
                /\ UNCHANGED servers
           ELSE /\ servers' = WithLocal(servers)
                /\ Becomes(j, [called EXCEPT !.pc = "visit", !.then = "route",
                                             !.todo = servers'])
    /\ UNCHANGED <<lists, net, maps, turns, events>>

(* resolveServerIdForTool: the first server that has the tool is its route *)
(* from now on.                                                            *)
Route(j) ==
    /\ At(j, "have") /\ job[j].then = "route"
    /\ IF job[j].tool \in job[j].tools
       THEN /\ routes' = [routes EXCEPT ![job[j].tool] = job[j].at]
            /\ Becomes(j, [job[j] EXCEPT !.pc = "routed", !.then = "call", !.todo = <<>>,
                                         !.tools = {}, !.ok = FALSE])
       ELSE NextServer(j) /\ UNCHANGED routes
    /\ UNCHANGED <<table, net, listed, turns, events>>

(* MCP_NOT_CONFIGURED.                                                     *)
RouteEnds(j) ==
    /\ At(j, "visit") /\ job[j].todo = <<>> /\ job[j].then = "route"
    /\ Thinks(j, "unknown")
    /\ UNCHANGED <<table, net, maps, turns, events>>

(* The arguments are an object, or the call ends here.                     *)
ParseArguments(j) ==
    /\ At(j, "routed")
    /\ \/ Becomes(j, [job[j] EXCEPT !.pc = "find"])
       \/ Thinks(j, "error")
    /\ UNCHANGED <<table, net, maps, turns, events>>

(* callTool: the server is looked up, and connected to again.              *)
FindServer(j) ==
    /\ At(j, "find")
    /\ servers' = WithLocal(servers)
    /\ IF Contains(servers', job[j].at)
       THEN Becomes(j, [job[j] EXCEPT !.pc = "connect"])
       ELSE Thinks(j, "no server")
    /\ UNCHANGED <<lists, net, maps, turns, events>>

CallConnected(j) ==
    /\ At(j, "have") /\ job[j].then = "call"
    /\ IF job[j].ok THEN Becomes(j, [job[j] EXCEPT !.pc = "calling"]) ELSE Thinks(j, "error")
    /\ UNCHANGED <<table, net, maps, turns, events>>

(* The call itself, in the session there is by now.                        *)
SendCall(j) ==
    /\ At(j, "calling")
    /\ Becomes(j, [job[j] EXCEPT !.pc = "callSent", !.hdr = session[job[j].at]])
    /\ UNCHANGED <<table, net, maps, turns, events>>

(* The tool has run, or the server does not have it.                       *)
CallAnswered(j) ==
    /\ At(j, "callSent")
    /\ job[j].at # Local => Accepts(j)
    /\ session' = [session EXCEPT ![job[j].at] = IF job[j].at = Local THEN @ ELSE "live"]
    /\ Thinks(j, IF job[j].tool \in lists[job[j].at] THEN "ok" ELSE "error")
    /\ UNCHANGED <<table, conn, maps, turns, events>>

CallFails(j) ==
    /\ At(j, "refused")
    /\ Thinks(j, "error")
    /\ UNCHANGED <<table, net, maps, turns, events>>

Forget(j) ==
    /\ offer' = [offer EXCEPT ![j] = {}] /\ seen' = [seen EXCEPT ![j] = {}]
    /\ alone' = [alone EXCEPT ![j] = FALSE]

EndTurn(j) ==
    /\ At(j, "thinking")
    /\ Becomes(j, Idle) /\ Forget(j)
    /\ shaken' = [shaken EXCEPT ![j] = {}]
    /\ UNCHANGED <<table, net, maps, events>>

(* The screen is left.  connect takes the cancellation for an exception as *)
(* any other and keeps the error.                                          *)
Cancel(j) ==
    /\ ~At(j, "idle")
    /\ events < MaxEvents /\ events' = events + 1
    /\ IF job[j].pc \in {"initSent", "inited", "listSent", "threw"}
       THEN conn' = [conn EXCEPT ![job[j].at] = Failed] /\ Shake(job[j].at)
       ELSE UNCHANGED <<conn, shaken>>
    /\ Becomes(j, Idle) /\ Forget(j)
    /\ UNCHANGED <<table, session, maps>>

-----------------------------------------------------------------------------
(* McpWorker: the command names a tool, and the newest server is asked.    *)
StartCommand(j, t) ==
    /\ At(j, "idle")
    /\ servers' = WithLocal(servers)
    /\ Becomes(j, [Idle EXCEPT !.pc = "find", !.then = "call", !.at = Head(servers'),
                               !.tool = t, !.calls = MaxCalls])
    /\ UNCHANGED <<lists, net, maps, turns, events>>

(* The settings connect to a server and show its tools.                    *)
StartConnect(j, s) ==
    /\ At(j, "idle") /\ Contains(servers, s)
    /\ Becomes(j, [Idle EXCEPT !.pc = "connect", !.at = s])
    /\ UNCHANGED <<table, net, maps, turns, events>>

Show(j) ==
    /\ At(j, "have") /\ job[j].then = "show"
    /\ Becomes(j, Idle)
    /\ UNCHANGED <<table, net, maps, turns, events>>

(* saveServer adds or replaces the row, which makes it the newest; what is *)
(* known of the server stays known.  (A change of address is left out.)    *)
SaveServer(s) ==
    /\ events < MaxEvents /\ events' = events + 1
    /\ \/ ~Contains(servers, s) /\ servers' = <<s>> \o servers
       \/ \E i \in DOMAIN servers :
            servers[i] = s /\ servers' = <<s>> \o RemoveAt(servers, i)
    /\ UNCHANGED <<lists, net, maps, turns, job>>

DeleteServer(s) ==
    /\ events < MaxEvents /\ events' = events + 1
    /\ \E i \in DOMAIN servers :
         servers[i] = s /\ servers' = RemoveAt(servers, i)
    /\ conn' = [conn EXCEPT ![s] = Disconnected]
    /\ Shake(s)
    /\ UNCHANGED <<lists, session, maps, offer, seen, alone, job>>

(* A server restarts, perhaps with other tools, and forgets its sessions.  *)
RestartServer(s) ==
    /\ events < MaxEvents /\ events' = events + 1
    /\ \E menu \in Menus : lists' = [lists EXCEPT ![s] = menu]
    /\ session' = [session EXCEPT ![s] = IF @ = "live" THEN "dead" ELSE @]
    /\ job' = [k \in Jobs |->
                 IF job[k].at = s /\ (Relies(k, s) \/ job[k].pc \in {"listSent", "callSent"})
                 THEN [job[k] EXCEPT !.hdr = IF @ = "live" THEN "dead" ELSE @,
                                     !.disturbed = TRUE]
                 ELSE job[k]]
    /\ UNCHANGED <<servers, conn, maps, turns>>

(* The process of the app ends: only the table is left.                    *)
Die ==
    /\ conn' = [s \in Ids |-> Disconnected] /\ session' = [s \in Ids |-> "none"]
    /\ routes' = [t \in Tools |-> None] /\ listed' = {}
    /\ job' = [j \in Jobs |-> Idle]
    /\ offer' = [j \in Jobs |-> {}] /\ seen' = [j \in Jobs |-> {}]
    /\ alone' = [j \in Jobs |-> FALSE] /\ shaken' = [j \in Jobs |-> {}]
    /\ UNCHANGED <<table, events>>

Step(j) ==
    \/ StartTurn(j) \/ Visit(j) \/ OfferTools(j) \/ OfferEnds(j)
    \/ ConnectGone(j) \/ ConnectLocal(j) \/ SendInitialize(j) \/ InitializeAnswered(j)
    \/ SendList(j) \/ ListAnswered(j) \/ Refuse(j) \/ Lose(j) \/ ConnectFails(j)
    \/ Route(j) \/ RouteEnds(j) \/ ParseArguments(j) \/ FindServer(j)
    \/ CallConnected(j) \/ SendCall(j) \/ CallAnswered(j) \/ CallFails(j)
    \/ EndTurn(j) \/ Cancel(j) \/ Show(j)
    \/ \E t \in Tools : CallTool(j, t) \/ StartCommand(j, t)
    \/ \E s \in Ids : StartConnect(j, s)

Next ==
    \/ \E j \in Jobs : Step(j)
    \/ \E s \in Remote : SaveServer(s) \/ RestartServer(s)
    \/ \E s \in Ids : DeleteServer(s)
    \/ Die

Spec == Init /\ [][Next]_vars

-----------------------------------------------------------------------------
(* A turn is offered every tool that it is allowed and that a server it    *)
(* asked has, unless another turn of the worker listed tools meanwhile:    *)
(* the two share one map of names, and each skips what the other has put   *)
(* there.                                                                  *)
CompleteOffer ==
    \A j \in Jobs :
        At(j, "thinking") /\ alone[j] => seen[j] \subseteq {o[1] : o \in offer[j]}

(* No request fails, and so no connect is kept as an error, but for a      *)
(* reason: it got lost, the server restarted, or another job began to      *)
(* connect to the same server after this one's session was opened and      *)
(* before it was used.  (A cancelled connect is kept as an error, too.)    *)
ErrorsHaveCauses ==
    \A j \in Jobs : job[j].pc \in {"threw", "refused"} => job[j].disturbed

(* A tool that was offered is not unknown when it is called, though it was *)
(* listed with one provider and is called with another, unless the server  *)
(* was deleted, failed or lost tools since the turn began.                 *)
OfferedIsFound ==
    \A j \in Jobs : job[j].outcome = "unknown" =>
        \A o \in offer[j] : o[1] = job[j].tool => o[2] \in shaken[j]
=============================================================================
