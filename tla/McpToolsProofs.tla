---------------------------- MODULE McpToolsProofs ----------------------------
(***************************************************************************)
(* Proofs about McpTools, for any number of jobs, servers, tools, calls    *)
(* and events: its types, that a turn nobody lists beside is offered all   *)
(* it saw, that no request fails without a cause, and that an offered tool *)
(* is found.  First what each action makes of a job is worked out (Place,  *)
(* Talk, Use), so that the invariants need no record updates.              *)
(***************************************************************************)
EXTENDS McpTools, TLAPS

(* Who goes through the servers is busy with the first one left.           *)
Asks(j) ==
    /\ job[j].pc = "visit" => job[j].then \in {"offer", "route"}
    /\ job[j].then \in {"offer", "route"} =>
           /\ job[j].pc \in {"visit", "connect", "initSent", "inited", "listSent", "threw", "have"}
           /\ job[j].pc # "visit" => job[j].todo # <<>> /\ job[j].at = Head(job[j].todo)

AllAsk == \A j \in Jobs : Asks(j)

LEMMA Bounds ==
    /\ MaxCalls \in Nat /\ MaxEvents \in Nat
    /\ Local \notin Remote /\ Menus \subseteq SUBSET Tools /\ LocalTools \subseteq Tools
    /\ SavedBefore \in Seq(Ids)
  BY McpAssumption

(* The rows of a table are ids, also without one of them.                  *)
LEMMA RowsType ==
    ASSUME NEW rows \in Seq(Ids)
    PROVE  /\ WithLocal(rows) \in Seq(Ids) /\ WithLocal(rows) # <<>>
           /\ \A i \in DOMAIN rows : RemoveAt(rows, i) \in Seq(Ids)
           /\ \A s \in Ids : <<s>> \o rows \in Seq(Ids)
<1>1. Local \in Ids
  BY DEF Ids
<1>2. <<Local>> \o rows \in Seq(Ids) /\ <<Local>> \o rows # <<>>
  BY <1>1
<1>3. Contains(rows, Local) => rows # <<>>
  BY DEF Contains
<1>4. ASSUME NEW i \in DOMAIN rows PROVE RemoveAt(rows, i) \in Seq(Ids)
  <2>1. SubSeq(rows, 1, i - 1) \in Seq(Ids) /\ SubSeq(rows, i + 1, Len(rows)) \in Seq(Ids)
    OBVIOUS
  <2> QED
    BY <2>1 DEF RemoveAt
<1> QED
  BY <1>2, <1>3, <1>4 DEF WithLocal

(* The places and sessions that are named below.                           *)
LEMMA NamesType ==
    /\ \A pc \in {"idle", "visit", "connect", "initSent", "inited", "listSent", "threw",
                  "have", "thinking", "routed", "find", "calling", "callSent", "refused"} :
           pc \in Pcs
    /\ \A h \in {"none", "live", "dead"} : h \in Sessions
    /\ Local \in Ids /\ <<>> \in Seq(Ids)
  BY DEF Pcs, Sessions, Ids

(* Who is idle is a job.                                                   *)
LEMMA IdleType == Idle \in Job
  BY Bounds DEF Idle, Job, Pcs, Sessions, Ids

(* The states of a connection.                                             *)
LEMMA ConnectionType ==
    /\ Disconnected \in Connection /\ Failed \in Connection
    /\ \A ts \in SUBSET Tools : Connected(ts) \in Connection
  BY DEF Disconnected, Failed, Connected, Connection

(* What a job is made of.                                                  *)
LEMMA JobType ==
    ASSUME TypeOK, NEW j \in Jobs
    PROVE  job[j] \in Job
  BY DEF TypeOK

(* The jobs after one of them has gone on.                                 *)
LEMMA BecomesType ==
    ASSUME TypeOK, NEW j \in Jobs, NEW r \in Job, Becomes(j, r)
    PROVE  job' \in [Jobs -> Job]
  BY DEF TypeOK, Becomes

(* The changes of a job that the actions make.                             *)
LEMMA Goes ==
    ASSUME NEW r \in Job, NEW p \in Pcs
    PROVE  /\ [r EXCEPT !.pc = p] \in Job
           /\ \A h \in Sessions : [r EXCEPT !.pc = p, !.hdr = h] \in Job
           /\ [r EXCEPT !.pc = p, !.disturbed = TRUE] \in Job
           /\ \A s \in Ids : [r EXCEPT !.pc = p, !.at = s] \in Job
           /\ \A s \in Ids, ts \in SUBSET Tools :
                  [r EXCEPT !.at = s, !.tools = ts, !.pc = p] \in Job
           /\ \A ts \in SUBSET Tools, b \in BOOLEAN :
                  [r EXCEPT !.pc = p, !.ok = b, !.tools = ts] \in Job
  BY Zenon DEF Job

LEMMA Lists ==
    ASSUME NEW r \in Job, NEW t \in Seq(Ids)
    PROVE  /\ [r EXCEPT !.pc = "visit", !.then = "offer", !.todo = t] \in Job
           /\ [r EXCEPT !.pc = "visit", !.then = "route", !.todo = t] \in Job
           /\ [r EXCEPT !.pc = "visit", !.todo = t, !.at = Local,
                        !.tools = {}, !.ok = FALSE] \in Job
<1> "visit" \in Pcs /\ Local \in Ids
  BY NamesType
<1> QED
  BY DEF Job

LEMMA Connects ==
    ASSUME NEW r \in Job
    PROVE  /\ [r EXCEPT !.pc = "initSent", !.hdr = "none", !.disturbed = FALSE] \in Job
           /\ [r EXCEPT !.disturbed = TRUE] \in Job
           /\ \A h \in Sessions : [r EXCEPT !.hdr = h, !.disturbed = TRUE] \in Job
           /\ \A ts \in SUBSET Tools, b \in BOOLEAN :
                  [r EXCEPT !.pc = "have", !.ok = b, !.tools = ts, !.hdr = "none",
                            !.disturbed = FALSE] \in Job
<1> "initSent" \in Pcs /\ "have" \in Pcs /\ "none" \in Sessions
  BY NamesType
<1> QED
  BY Zenon DEF Job

LEMMA Calls ==
    ASSUME NEW r \in Job, NEW tool \in Tools, NEW s \in Ids
    PROVE  /\ \A c \in 0 .. MaxCalls :
                  [r EXCEPT !.calls = c, !.tool = tool, !.outcome = "none"] \in Job
           /\ [r EXCEPT !.pc = "routed", !.then = "call", !.at = s] \in Job
           /\ [r EXCEPT !.pc = "find", !.then = "call", !.at = s,
                        !.tool = tool, !.calls = MaxCalls] \in Job
<1> /\ "routed" \in Pcs /\ "find" \in Pcs /\ <<>> \in Seq(Ids)
    /\ MaxCalls \in 0 .. MaxCalls
  BY Bounds, NamesType
<1> QED
  BY Zenon DEF Job

(* A call has been chosen.                                                 *)
Called(r, tool) == [r EXCEPT !.calls = @ + 1, !.tool = tool, !.outcome = "none"]

LEMMA CalledType ==
    ASSUME NEW r \in Job, r.calls < MaxCalls, NEW tool \in Tools
    PROVE  Called(r, tool) \in Job
<1> DEFINE c == r.calls + 1
<1>1. r.calls \in 0 .. MaxCalls
  BY DEF Job
<1>2. c \in 0 .. MaxCalls
  <2>1. MaxCalls \in Nat
    BY Bounds
  <2> QED
    BY <1>1, <2>1
<1>3. Called(r, tool) = [r EXCEPT !.calls = c, !.tool = tool, !.outcome = "none"]
  BY DEF Called
<1>4. Local \in Ids
  BY NamesType
<1>5. \A d \in 0 .. MaxCalls :
          [r EXCEPT !.calls = d, !.tool = tool, !.outcome = "none"] \in Job
  BY <1>4, Calls, Zenon
<1> HIDE DEF c
<1> QED
  BY <1>2, <1>3, <1>5

LEMMA Empties ==
    ASSUME NEW r \in Job
    PROVE  [r EXCEPT !.pc = "routed", !.then = "call", !.todo = <<>>,
                     !.tools = {}, !.ok = FALSE] \in Job
<1> "routed" \in Pcs /\ <<>> \in Seq(Ids)
  BY NamesType
<1> QED
  BY DEF Job

LEMMA Ends ==
    ASSUME NEW r \in Job, NEW outcome \in {"none", "ok", "error", "unknown", "no server"}
    PROVE  [r EXCEPT !.pc = "thinking", !.then = "call", !.outcome = outcome,
                     !.at = Local, !.tools = {}, !.todo = <<>>, !.hdr = "none",
                     !.disturbed = FALSE, !.ok = FALSE] \in Job
<1> "thinking" \in Pcs /\ "none" \in Sessions /\ Local \in Ids /\ <<>> \in Seq(Ids)
  BY NamesType
<1> QED
  BY DEF Job

LEMMA ThinksType ==
    ASSUME TypeOK, NEW j \in Jobs,
           NEW outcome \in {"none", "ok", "error", "unknown", "no server"},
           Thinks(j, outcome)
    PROVE  job' \in [Jobs -> Job]
<1> DEFINE n == [job[j] EXCEPT !.pc = "thinking", !.then = "call", !.outcome = outcome,
                               !.at = Local, !.tools = {}, !.todo = <<>>, !.hdr = "none",
                               !.disturbed = FALSE, !.ok = FALSE]
<1>1. n \in Job
  BY Ends, JobType, Zenon
<1>2. Becomes(j, n)
  BY DEF Thinks
<1> HIDE DEF n
<1> QED
  BY <1>1, <1>2, BecomesType

LEMMA NextServerType ==
    ASSUME TypeOK, NEW j \in Jobs, job[j].todo # <<>>, NextServer(j)
    PROVE  job' \in [Jobs -> Job]
<1> DEFINE t == Tail(job[j].todo)
           n == [job[j] EXCEPT !.pc = "visit", !.todo = t, !.at = Local,
                               !.tools = {}, !.ok = FALSE]
<1>1. job[j].todo \in Seq(Ids)
  BY JobType DEF Job
<1>2. t \in Seq(Ids)
  BY <1>1
<1>3. Becomes(j, n)
  BY DEF NextServer
<1> HIDE DEF t
<1>4. n \in Job
  BY <1>2, Lists, JobType, Zenon
<1> HIDE DEF n
<1> QED
  BY <1>3, <1>4, BecomesType

(* What has happened to a server since the turns began.                    *)
LEMMA ShakeType ==
    ASSUME TypeOK, NEW s \in Ids, Shake(s)
    PROVE  shaken' \in [Jobs -> SUBSET Ids]
  BY DEF TypeOK, Shake

(* A turn, a command and a click begin.                                    *)
LEMMA BeginType ==
    ASSUME TypeOK, NEW j \in Jobs,
           \/ StartTurn(j)
           \/ \E t \in Tools : StartCommand(j, t)
           \/ \E s \in Ids : StartConnect(j, s)
    PROVE  TypeOK'
<1>1. servers \in Seq(Ids) /\ WithLocal(servers) \in Seq(Ids) /\ WithLocal(servers) # <<>>
  BY RowsType DEF TypeOK
<1>2. CASE StartTurn(j)
  <2> DEFINE n == [Idle EXCEPT !.pc = "visit", !.then = "offer", !.todo = servers']
  <2>1. servers' \in Seq(Ids) /\ Becomes(j, n)
    BY <1>1, <1>2 DEF StartTurn, Begins
  <2>2. n \in Job
    BY <2>1, Lists, IdleType, Zenon
  <2> HIDE DEF n
  <2>3. job' \in [Jobs -> Job]
    BY <2>1, <2>2, BecomesType
  <2>4. alone' \in [Jobs -> BOOLEAN]
    BY <1>2 DEF StartTurn, Begins, Listing, TypeOK
  <2> QED
    BY <1>2, <2>1, <2>3, <2>4 DEF StartTurn, Begins, TypeOK, net
<1>3. ASSUME NEW t \in Tools, StartCommand(j, t) PROVE TypeOK'
  <2> DEFINE h == Head(servers')
             n == [Idle EXCEPT !.pc = "find", !.then = "call", !.at = h,
                               !.tool = t, !.calls = MaxCalls]
  <2>1. servers' \in Seq(Ids) /\ servers' # <<>>
    BY <1>1, <1>3, Zenon DEF StartCommand
  <2>a. h \in Ids
    BY <2>1
  <2>b. Becomes(j, n)
    BY <1>3 DEF StartCommand
  <2> HIDE DEF h
  <2>2. n \in Job
    BY <2>a, Calls, IdleType, Zenon
  <2> HIDE DEF n
  <2>3. job' \in [Jobs -> Job]
    BY <2>b, <2>2, BecomesType
  <2> QED
    BY <1>3, <2>1, <2>3 DEF StartCommand, TypeOK, net, maps, turns
<1>4. ASSUME NEW s \in Ids, StartConnect(j, s) PROVE TypeOK'
  <2> DEFINE n == [Idle EXCEPT !.pc = "connect", !.at = s]
  <2>1. Becomes(j, n)
    BY <1>4 DEF StartConnect
  <2>2. n \in Job
    BY Goes, IdleType, NamesType, Zenon
  <2> HIDE DEF n
  <2>3. job' \in [Jobs -> Job]
    BY <2>1, <2>2, BecomesType
  <2> QED
    BY <1>4, <2>3 DEF StartConnect, TypeOK, table, net, maps, turns
<1> QED
  BY <1>2, <1>3, <1>4

LEMMA OnlyJob ==
    ASSUME TypeOK, job' \in [Jobs -> Job], UNCHANGED <<table, net, maps, turns, events>>
    PROVE  TypeOK'
  BY DEF TypeOK, table, net, maps, turns

LEMMA FieldsType ==
    ASSUME TypeOK, NEW j \in Jobs
    PROVE  /\ job[j].at \in Ids /\ job[j].todo \in Seq(Ids) /\ job[j].tools \in SUBSET Tools
           /\ job[j].calls \in 0 .. MaxCalls /\ job[j].tool \in Tools \cup {None}
           /\ job[j].hdr \in Sessions /\ job[j].pc \in Pcs
           /\ lists[job[j].at] \in SUBSET Tools /\ session[job[j].at] \in Sessions
  BY JobType, Zenon DEF Job, TypeOK

(* A turn lists the tools.                                                 *)
LEMMA OfferType ==
    ASSUME TypeOK, AllAsk, NEW j \in Jobs, Visit(j) \/ OfferTools(j) \/ OfferEnds(j)
    PROVE  TypeOK'
<1>1. CASE Visit(j)
  <2> DEFINE s == Head(job[j].todo)
             ts == conn[s].tools
             p == IF conn[s].is = "disconnected" THEN "connect" ELSE "have"
             n == [job[j] EXCEPT !.at = s, !.tools = ts, !.pc = p]
  <2>1. s \in Ids
    BY <1>1, FieldsType DEF Visit
  <2>2. Becomes(j, n)
    BY <1>1 DEF Visit
  <2>3. ts \in SUBSET Tools
    BY <2>1 DEF TypeOK, Connection
  <2>4. p \in Pcs
    BY NamesType
  <2> HIDE DEF s, ts, p
  <2>5. n \in Job
    BY <2>1, <2>3, <2>4, Goes, JobType, Zenon
  <2> HIDE DEF n
  <2>6. job' \in [Jobs -> Job]
    BY <2>2, <2>5, BecomesType
  <2> QED
    BY <1>1, <2>6, OnlyJob DEF Visit
<1>2. CASE OfferTools(j)
  <2> DEFINE ts == job[j].tools \cap AllowedTo[j]
             more == NewOf(ts) \X {job[j].at}
  <2>a. job[j].todo # <<>>
    BY <1>2 DEF OfferTools, At, AllAsk, Asks
  <2>1. job' \in [Jobs -> Job]
    BY <1>2, <2>a, NextServerType DEF OfferTools
  <2>2. ts \in SUBSET Tools
    BY FieldsType
  <2>3. /\ offer' = [offer EXCEPT ![j] = @ \cup more]
        /\ seen' = [seen EXCEPT ![j] = @ \cup ts] /\ listed' = listed \cup ts
        /\ UNCHANGED <<table, net, routes, alone, shaken, events>>
    BY <1>2 DEF OfferTools
  <2>4. NewOf(ts) \in SUBSET Tools
    BY <2>2 DEF NewOf
  <2>5. more \in SUBSET (Tools \X Ids)
    BY <2>4, FieldsType, Zenon
  <2> HIDE DEF ts, more
  <2> QED
    BY <2>1, <2>2, <2>3, <2>5 DEF TypeOK, table, net
<1>3. CASE OfferEnds(j)
  <2>1. job' \in [Jobs -> Job]
    BY <1>3, ThinksType DEF OfferEnds
  <2> QED
    BY <1>3, <2>1, OnlyJob DEF OfferEnds
<1> QED
  BY <1>1, <1>2, <1>3

(* A job connects to a server.                                             *)
LEMMA ConnectType ==
    ASSUME TypeOK, NEW j \in Jobs,
           \/ ConnectGone(j) \/ ConnectLocal(j) \/ SendInitialize(j) \/ InitializeAnswered(j)
           \/ SendList(j) \/ ListAnswered(j) \/ Refuse(j) \/ Lose(j) \/ ConnectFails(j)
    PROVE  TypeOK'
<1> DEFINE a == job[j].at
<1>0. a \in Ids /\ lists[a] \in SUBSET Tools /\ session[a] \in Sessions
  BY FieldsType
<1>1. CASE ConnectGone(j)
  <2> DEFINE n == [job[j] EXCEPT !.pc = "have", !.ok = FALSE, !.tools = {}]
  <2>1. Becomes(j, n)
    BY <1>1 DEF ConnectGone
  <2>2. n \in Job
    BY Goes, JobType, NamesType, Zenon
  <2> HIDE DEF n
  <2>3. job' \in [Jobs -> Job]
    BY <2>1, <2>2, BecomesType
  <2> QED
    BY <1>1, <2>3, OnlyJob DEF ConnectGone
<1>2. CASE ConnectLocal(j)
  <2> DEFINE ts == lists[Local]
             n == [job[j] EXCEPT !.pc = "have", !.ok = TRUE, !.tools = ts]
  <2>1. Becomes(j, n)
    BY <1>2 DEF ConnectLocal
  <2>2. ts \in SUBSET Tools
    BY NamesType DEF TypeOK
  <2>3. Connected(ts) \in Connection /\ conn' = [conn EXCEPT ![Local] = Connected(ts)]
    BY <1>2, <2>2, ConnectionType DEF ConnectLocal
  <2> HIDE DEF ts
  <2>4. n \in Job
    BY <2>2, Goes, JobType, NamesType, Zenon
  <2> HIDE DEF n
  <2>5. job' \in [Jobs -> Job]
    BY <2>1, <2>4, BecomesType
  <2>6. UNCHANGED <<table, session, maps, turns, events>>
    BY <1>2 DEF ConnectLocal
  <2> QED
    BY <2>3, <2>5, <2>6 DEF TypeOK, table, maps, turns
<1>3. CASE SendInitialize(j)
  <2> DEFINE n == [job[j] EXCEPT !.pc = "initSent", !.hdr = "none", !.disturbed = FALSE]
             new(k) == IF k = j THEN n
                       ELSE IF Relies(k, a) THEN [job[k] EXCEPT !.disturbed = TRUE]
                       ELSE job[k]
  <2>1. /\ job' = [k \in Jobs |-> new(k)] /\ session' = [session EXCEPT ![a] = "none"]
        /\ UNCHANGED <<table, conn, maps, turns, events>>
    BY <1>3 DEF SendInitialize
  <2>2. n \in Job
    BY Connects, JobType, Zenon
  <2> HIDE DEF n
  <2>3. ASSUME NEW k \in Jobs PROVE new(k) \in Job
    BY <2>2, Connects, JobType, Zenon
  <2> HIDE DEF new
  <2>4. job' \in [Jobs -> Job]
    BY <2>1, <2>3
  <2>5. session' \in [Ids -> Sessions]
    BY <2>1, NamesType DEF TypeOK
  <2> QED
    BY <2>1, <2>4, <2>5 DEF TypeOK, table, maps, turns
<1>4. CASE InitializeAnswered(j)
  <2> DEFINE n == [job[j] EXCEPT !.pc = "inited"]
  <2>1. Becomes(j, n) /\ session' = [session EXCEPT ![a] = "live"]
    BY <1>4 DEF InitializeAnswered
  <2>2. n \in Job
    BY Goes, JobType, NamesType, Zenon
  <2> HIDE DEF n
  <2>3. job' \in [Jobs -> Job]
    BY <2>1, <2>2, BecomesType
  <2>4. session' \in [Ids -> Sessions]
    BY <2>1, NamesType DEF TypeOK
  <2> QED
    BY <1>4, <2>3, <2>4 DEF InitializeAnswered, TypeOK, table, maps, turns
<1>5. CASE SendList(j)
  <2> DEFINE h == session[a]
             n == [job[j] EXCEPT !.pc = "listSent", !.hdr = h]
  <2>1. Becomes(j, n) /\ UNCHANGED <<table, net, maps, turns, events>>
    BY <1>5 DEF SendList
  <2>2. h \in Sessions
    BY <1>0
  <2> HIDE DEF h
  <2>3. n \in Job
    BY <2>2, Goes, JobType, NamesType, Zenon
  <2> HIDE DEF n
  <2>4. job' \in [Jobs -> Job]
    BY <2>1, <2>3, BecomesType
  <2> QED
    BY <2>1, <2>4, OnlyJob
<1>6. CASE ListAnswered(j)
  <2> DEFINE ts == lists[a]
             n == [job[j] EXCEPT !.pc = "have", !.ok = TRUE, !.tools = ts, !.hdr = "none",
                                 !.disturbed = FALSE]
  <2>1. /\ Becomes(j, n) /\ session' = [session EXCEPT ![a] = "live"]
        /\ conn' = [conn EXCEPT ![a] = Connected(ts)]
        /\ shaken' = shaken \/ Shake(a)
        /\ UNCHANGED <<table, maps, offer, seen, alone, events>>
    BY <1>6 DEF ListAnswered
  <2>2. ts \in SUBSET Tools
    BY <1>0
  <2> HIDE DEF ts
  <2>3. n \in Job
    BY <2>2, Connects, JobType, Zenon
  <2> HIDE DEF n
  <2>4. job' \in [Jobs -> Job]
    BY <2>1, <2>3, BecomesType
  <2>5. shaken' \in [Jobs -> SUBSET Ids]
    BY <2>1, <1>0, ShakeType DEF TypeOK
  <2>6. session' \in [Ids -> Sessions] /\ conn' \in [Ids -> Connection]
    BY <2>1, <2>2, NamesType, ConnectionType DEF TypeOK
  <2> QED
    BY <2>1, <2>4, <2>5, <2>6 DEF TypeOK, table, maps
<1>7. CASE Refuse(j)
  <2> DEFINE p == IF job[j].pc = "callSent" THEN "refused" ELSE "threw"
             n == [job[j] EXCEPT !.pc = p]
  <2>1. Becomes(j, n) /\ UNCHANGED <<table, net, maps, turns, events>>
    BY <1>7 DEF Refuse
  <2>2. p \in Pcs
    BY NamesType
  <2> HIDE DEF p
  <2>3. n \in Job
    BY <2>2, Goes, JobType, Zenon
  <2> HIDE DEF n
  <2>4. job' \in [Jobs -> Job]
    BY <2>1, <2>3, BecomesType
  <2> QED
    BY <2>1, <2>4, OnlyJob
<1>8. CASE Lose(j)
  <2> DEFINE p == IF job[j].pc = "callSent" THEN "refused" ELSE "threw"
             n == [job[j] EXCEPT !.pc = p, !.disturbed = TRUE]
  <2>1. /\ Becomes(j, n) /\ UNCHANGED <<table, net, maps, turns>>
        /\ events < MaxEvents /\ events' = events + 1
    BY <1>8 DEF Lose
  <2>2. p \in Pcs
    BY NamesType
  <2> HIDE DEF p
  <2>3. n \in Job
    BY <2>2, Goes, JobType, Zenon
  <2> HIDE DEF n
  <2>4. job' \in [Jobs -> Job]
    BY <2>1, <2>3, BecomesType
  <2>5. events' \in 0 .. MaxEvents
    BY Bounds, <2>1 DEF TypeOK
  <2> QED
    BY <2>1, <2>4, <2>5 DEF TypeOK, table, net, maps, turns
<1>9. CASE ConnectFails(j)
  <2> DEFINE n == [job[j] EXCEPT !.pc = "have", !.ok = FALSE, !.tools = {}, !.hdr = "none",
                                 !.disturbed = FALSE]
  <2>1. /\ Becomes(j, n) /\ conn' = [conn EXCEPT ![a] = Failed] /\ Shake(a)
        /\ UNCHANGED <<table, session, maps, offer, seen, alone, events>>
    BY <1>9 DEF ConnectFails
  <2>2. n \in Job
    BY Connects, JobType, Zenon
  <2> HIDE DEF n
  <2>3. job' \in [Jobs -> Job]
    BY <2>1, <2>2, BecomesType
  <2>4. shaken' \in [Jobs -> SUBSET Ids] /\ conn' \in [Ids -> Connection]
    BY <2>1, <1>0, ShakeType, ConnectionType DEF TypeOK
  <2> QED
    BY <2>1, <2>3, <2>4 DEF TypeOK, table, maps
<1> QED
  BY <1>1, <1>2, <1>3, <1>4, <1>5, <1>6, <1>7, <1>8, <1>9

(* A tool is called.                                                       *)
LEMMA CallType ==
    ASSUME TypeOK, AllAsk, NEW j \in Jobs,
           \/ \E t \in Tools : CallTool(j, t)
           \/ Route(j) \/ RouteEnds(j) \/ ParseArguments(j) \/ FindServer(j)
           \/ CallConnected(j) \/ SendCall(j) \/ CallAnswered(j) \/ CallFails(j)
    PROVE  TypeOK'
<1> DEFINE a == job[j].at
<1>0. a \in Ids /\ session[a] \in Sessions
  BY FieldsType
<1>a. servers \in Seq(Ids) /\ WithLocal(servers) \in Seq(Ids)
  BY RowsType DEF TypeOK
<1>1. ASSUME NEW t \in Tools, CallTool(j, t) PROVE TypeOK'
  <2> DEFINE called == Called(job[j], t)
             rt == routes[t]
             routed == [called EXCEPT !.pc = "routed", !.then = "call", !.at = rt]
             asks == [called EXCEPT !.pc = "visit", !.then = "route", !.todo = servers']
  <2>1. /\ \/ rt # None /\ Becomes(j, routed) /\ UNCHANGED servers
           \/ servers' = WithLocal(servers) /\ Becomes(j, asks)
        /\ UNCHANGED <<lists, net, maps, turns, events>>
    BY <1>1, Zenon DEF CallTool, Called
  <2>2. called \in Job
    BY <1>1, JobType, CalledType, Zenon DEF CallTool
  <2> HIDE DEF called
  <2>4. rt # None => rt \in Ids
    BY DEF TypeOK
  <2> HIDE DEF rt
  <2>5. rt # None => routed \in Job
    BY <2>2, <2>4, Calls, Zenon
  <2>6. servers' \in Seq(Ids)
    BY <2>1, <1>a
  <2>7. asks \in Job
    BY <2>2, <2>6, Lists, Zenon
  <2> HIDE DEF routed, asks
  <2>8. job' \in [Jobs -> Job]
    BY <2>1, <2>5, <2>7, BecomesType
  <2> QED
    BY <2>1, <2>6, <2>8 DEF TypeOK, net, maps, turns
<1>2. CASE Route(j)
  <2> DEFINE n == [job[j] EXCEPT !.pc = "routed", !.then = "call", !.todo = <<>>,
                                 !.tools = {}, !.ok = FALSE]
  <2>1. /\ \/ /\ routes' = [routes EXCEPT ![job[j].tool] = a] /\ Becomes(j, n)
              /\ job[j].tool \in job[j].tools
           \/ NextServer(j) /\ UNCHANGED routes
        /\ UNCHANGED <<table, net, listed, turns, events>>
    BY <1>2 DEF Route
  <2>2. job[j].todo # <<>>
    BY <1>2 DEF Route, At, AllAsk, Asks
  <2>3. n \in Job
    BY <1>0, Empties, JobType
  <2> HIDE DEF n
  <2>4. job' \in [Jobs -> Job]
    BY <2>1, <2>2, <2>3, BecomesType, NextServerType
  <2>5. routes' \in [Tools -> Ids \cup {None}]
    BY <2>1, <1>0, FieldsType DEF TypeOK
  <2> QED
    BY <2>1, <2>4, <2>5 DEF TypeOK, table, net, turns
<1>3. CASE RouteEnds(j)
  <2>1. job' \in [Jobs -> Job] /\ UNCHANGED <<table, net, maps, turns, events>>
    BY <1>3, ThinksType DEF RouteEnds
  <2> QED
    BY <2>1, OnlyJob
<1>4. CASE ParseArguments(j)
  <2> DEFINE n == [job[j] EXCEPT !.pc = "find"]
  <2>1. /\ Becomes(j, n) \/ Thinks(j, "error")
        /\ UNCHANGED <<table, net, maps, turns, events>>
    BY <1>4 DEF ParseArguments
  <2>2. n \in Job
    BY Goes, JobType, NamesType, Zenon
  <2> HIDE DEF n
  <2>3. job' \in [Jobs -> Job]
    BY <2>1, <2>2, BecomesType, ThinksType, Zenon
  <2> QED
    BY <2>1, <2>3, OnlyJob
<1>5. CASE FindServer(j)
  <2> DEFINE n == [job[j] EXCEPT !.pc = "connect"]
  <2>1. /\ Becomes(j, n) \/ Thinks(j, "no server")
        /\ servers' = WithLocal(servers) /\ UNCHANGED <<lists, net, maps, turns, events>>
    BY <1>5 DEF FindServer
  <2>2. n \in Job
    BY Goes, JobType, NamesType, Zenon
  <2> HIDE DEF n
  <2>3. job' \in [Jobs -> Job]
    BY <2>1, <2>2, BecomesType, ThinksType
  <2> QED
    BY <2>1, <2>3, <1>a, Zenon DEF TypeOK, net, maps, turns
<1>6. CASE CallConnected(j)
  <2> DEFINE n == [job[j] EXCEPT !.pc = "calling"]
  <2>1. /\ Becomes(j, n) \/ Thinks(j, "error")
        /\ UNCHANGED <<table, net, maps, turns, events>>
    BY <1>6 DEF CallConnected
  <2>2. n \in Job
    BY Goes, JobType, NamesType, Zenon
  <2> HIDE DEF n
  <2>3. job' \in [Jobs -> Job]
    BY <2>1, <2>2, BecomesType, ThinksType
  <2> QED
    BY <2>1, <2>3, OnlyJob
<1>7. CASE SendCall(j)
  <2> DEFINE h == session[a]
             n == [job[j] EXCEPT !.pc = "callSent", !.hdr = h]
  <2>1. Becomes(j, n) /\ UNCHANGED <<table, net, maps, turns, events>>
    BY <1>7 DEF SendCall
  <2>2. h \in Sessions
    BY <1>0
  <2> HIDE DEF h
  <2>3. n \in Job
    BY <2>2, Goes, JobType, NamesType, Zenon
  <2> HIDE DEF n
  <2>4. job' \in [Jobs -> Job]
    BY <2>1, <2>3, BecomesType
  <2> QED
    BY <2>1, <2>4, OnlyJob
<1>8. CASE CallAnswered(j)
  <2>1. /\ Thinks(j, "ok") \/ Thinks(j, "error")
        /\ UNCHANGED <<table, conn, maps, turns, events>>
        /\ session' = [session EXCEPT ![a] = IF a = Local THEN @ ELSE "live"]
    BY <1>8 DEF CallAnswered
  <2>3. job' \in [Jobs -> Job]
    BY <2>1, ThinksType, Zenon
  <2>4. session' \in [Ids -> Sessions]
    BY <2>1, NamesType, Zenon DEF TypeOK
  <2> QED
    BY <2>1, <2>3, <2>4 DEF TypeOK, table, maps, turns
<1>9. CASE CallFails(j)
  <2>1. job' \in [Jobs -> Job] /\ UNCHANGED <<table, net, maps, turns, events>>
    BY <1>9, ThinksType, Zenon DEF CallFails
  <2> QED
    BY <2>1, OnlyJob
<1> QED
  BY <1>1, <1>2, <1>3, <1>4, <1>5, <1>6, <1>7, <1>8, <1>9

(* A job ends.                                                             *)
LEMMA EndType ==
    ASSUME TypeOK, NEW j \in Jobs, EndTurn(j) \/ Cancel(j) \/ Show(j)
    PROVE  TypeOK'
<1>0. job[j].at \in Ids
  BY FieldsType
<1>1. Becomes(j, Idle)
  BY DEF EndTurn, Cancel, Show
<1>2. job' \in [Jobs -> Job]
  BY <1>1, IdleType, BecomesType
<1>3. CASE EndTurn(j)
  BY <1>2, <1>3 DEF EndTurn, Forget, TypeOK, table, net, maps
<1>4. CASE Cancel(j)
  <2>1. /\ Forget(j) /\ UNCHANGED <<table, session, maps>>
        /\ \/ conn' = [conn EXCEPT ![job[j].at] = Failed] /\ Shake(job[j].at)
           \/ UNCHANGED <<conn, shaken>>
    BY <1>4 DEF Cancel
  <2>2. shaken' \in [Jobs -> SUBSET Ids]
    BY <2>1, <1>0, ShakeType DEF TypeOK
  <2>3. conn' \in [Ids -> Connection]
    BY <2>1, ConnectionType DEF TypeOK
  <2>4. events' \in 0 .. MaxEvents
    BY Bounds, <1>4 DEF Cancel, TypeOK
  <2> QED
    BY <1>2, <2>1, <2>2, <2>3, <2>4, Zenon DEF Forget, TypeOK, table, maps
<1>5. CASE Show(j)
  BY <1>2, <1>5, OnlyJob DEF Show
<1> QED
  BY <1>3, <1>4, <1>5

(* Servers come, go and restart, and the process ends.                     *)
LEMMA EventType ==
    ASSUME TypeOK,
           \/ \E s \in Remote : SaveServer(s) \/ RestartServer(s)
           \/ \E s \in Ids : DeleteServer(s)
           \/ Die
    PROVE  TypeOK'
<1>0. servers \in Seq(Ids) /\ Remote \subseteq Ids
  BY DEF TypeOK, Ids
<1>1. ASSUME NEW s \in Remote, SaveServer(s) PROVE TypeOK'
  <2>1. events' \in 0 .. MaxEvents
    BY Bounds, <1>1 DEF SaveServer, TypeOK
  <2>2. \A i \in DOMAIN servers : RemoveAt(servers, i) \in Seq(Ids)
    BY <1>0, RowsType
  <2>3. \A rows \in Seq(Ids) : <<s>> \o rows \in Seq(Ids)
    BY <1>0, RowsType
  <2>4. servers' \in Seq(Ids)
    <3>1. CASE servers' = <<s>> \o servers
      BY <1>0, <2>3, <3>1
    <3>2. ASSUME NEW i \in DOMAIN servers, servers' = <<s>> \o RemoveAt(servers, i)
          PROVE  servers' \in Seq(Ids)
      <4>1. RemoveAt(servers, i) \in Seq(Ids)
        BY <2>2
      <4> QED
        BY <2>3, <3>2, <4>1
    <3> QED
      BY <1>1, <3>1, <3>2, Zenon DEF SaveServer
  <2> QED
    BY <1>1, <2>1, <2>4 DEF SaveServer, TypeOK, net, maps, turns
<1>2. ASSUME NEW s \in Remote, RestartServer(s) PROVE TypeOK'
  <2> DEFINE h(k) == IF job[k].hdr = "live" THEN "dead" ELSE job[k].hdr
             new(k) == IF job[k].at = s /\ (Relies(k, s) \/ job[k].pc \in {"listSent", "callSent"})
                       THEN [job[k] EXCEPT !.hdr = h(k), !.disturbed = TRUE]
                       ELSE job[k]
  <2>1. /\ \E menu \in Menus : lists' = [lists EXCEPT ![s] = menu]
        /\ session' = [session EXCEPT ![s] = IF @ = "live" THEN "dead" ELSE @]
        /\ events < MaxEvents /\ events' = events + 1
        /\ UNCHANGED <<servers, conn, maps, turns>>
    BY <1>2, Zenon DEF RestartServer
  <2>2. job' = [k \in Jobs |-> new(k)]
    BY <1>2, Zenon DEF RestartServer
  <2>3. ASSUME NEW k \in Jobs PROVE h(k) \in Sessions
    BY FieldsType, NamesType
  <2> HIDE DEF h
  <2>4. ASSUME NEW k \in Jobs PROVE new(k) \in Job
    BY <2>3, Connects, JobType, Zenon
  <2> HIDE DEF new
  <2>5. job' \in [Jobs -> Job]
    BY <2>2, <2>4
  <2>6. session' \in [Ids -> Sessions]
    BY <2>1, NamesType, Zenon DEF TypeOK
  <2>7. \A menu \in Menus : menu \in SUBSET Tools
    BY Bounds
  <2>9. lists' \in [Ids -> SUBSET Tools]
    <3>1. PICK menu \in Menus : lists' = [lists EXCEPT ![s] = menu]
      BY <2>1
    <3> QED
      BY <2>7, <3>1, Zenon DEF TypeOK
  <2>8. events' \in 0 .. MaxEvents
    BY Bounds, <2>1 DEF TypeOK
  <2> QED
    BY <2>1, <2>5, <2>6, <2>9, <2>8 DEF TypeOK, maps, turns
<1>3. ASSUME NEW s \in Ids, DeleteServer(s) PROVE TypeOK'
  <2>1. events' \in 0 .. MaxEvents
    BY Bounds, <1>3 DEF DeleteServer, TypeOK
  <2>2. servers' \in Seq(Ids)
    BY <1>0, <1>3, RowsType DEF DeleteServer
  <2>3. shaken' \in [Jobs -> SUBSET Ids] /\ conn' \in [Ids -> Connection]
    BY <1>3, ShakeType, ConnectionType DEF DeleteServer, TypeOK
  <2> QED
    BY <1>3, <2>1, <2>2, <2>3 DEF DeleteServer, TypeOK, maps
<1>4. CASE Die
  BY <1>4, IdleType, ConnectionType, NamesType DEF Die, TypeOK, table
<1> QED
  BY <1>1, <1>2, <1>3, <1>4

(* Where a job is, how it talks to its server and which tool it calls.     *)
Place(r, pc, then, at, todo) == r.pc = pc /\ r.then = then /\ r.at = at /\ r.todo = todo
Talk(r, hdr, disturbed, ok) == r.hdr = hdr /\ r.disturbed = disturbed /\ r.ok = ok
Use(r, tool, tools, outcome) == r.tool = tool /\ r.tools = tools /\ r.outcome = outcome

(* Where a look at a server and a failed request lead.                     *)
AfterVisit(j) ==
    IF conn[Head(job[j].todo)].is = "disconnected" THEN "connect" ELSE "have"
AfterError(j) == IF job[j].pc = "callSent" THEN "refused" ELSE "threw"

(* A call has ended, and the next server is asked.                         *)
Thought(j, outcome) ==
    /\ Place(job'[j], "thinking", "call", Local, <<>>) /\ Talk(job'[j], "none", FALSE, FALSE)
    /\ Use(job'[j], job[j].tool, {}, outcome)

Further(j) ==
    /\ Place(job'[j], "visit", job[j].then, Local, Tail(job[j].todo))
    /\ Talk(job'[j], job[j].hdr, job[j].disturbed, FALSE)
    /\ Use(job'[j], job[j].tool, {}, job[j].outcome)

LEMMA BecomesSo ==
    ASSUME TypeOK, NEW j \in Jobs, NEW r, Becomes(j, r)
    PROVE  job'[j] = r /\ \A k \in Jobs \ {j} : job'[k] = job[k]
  BY DEF TypeOK, Becomes

LEMMA ThinksSo ==
    ASSUME TypeOK, NEW j \in Jobs, NEW outcome, Thinks(j, outcome)
    PROVE  Thought(j, outcome)
<1>1. job'[j] = [job[j] EXCEPT !.pc = "thinking", !.then = "call", !.outcome = outcome,
                               !.at = Local, !.tools = {}, !.todo = <<>>, !.hdr = "none",
                               !.disturbed = FALSE, !.ok = FALSE]
  BY BecomesSo DEF Thinks
<1>2. job[j] \in Job
  BY JobType
<1>3. Place(job'[j], "thinking", "call", Local, <<>>)
  BY <1>1, <1>2, Zenon DEF Job, Place
<1>4. Talk(job'[j], "none", FALSE, FALSE)
  BY <1>1, <1>2 DEF Job, Talk
<1>5. Use(job'[j], job[j].tool, {}, outcome)
  BY <1>1, <1>2, Zenon DEF Job, Use
<1> QED
  BY <1>3, <1>4, <1>5 DEF Thought

LEMMA FurtherSo ==
    ASSUME TypeOK, NEW j \in Jobs, NextServer(j)
    PROVE  Further(j)
<1>1. job'[j] = [job[j] EXCEPT !.pc = "visit", !.todo = Tail(@), !.at = Local,
                               !.tools = {}, !.ok = FALSE]
  BY BecomesSo DEF NextServer
<1>2. job[j] \in Job
  BY JobType
<1> QED
  BY <1>1, <1>2, Zenon DEF Job, Further, Place, Talk, Use

(* What the actions make of a job that lists tools, connects and calls.    *)
LEMMA ListChanges ==
    ASSUME TypeOK, NEW j \in Jobs
    PROVE  /\ StartTurn(j) =>
                 /\ Place(job'[j], "visit", "offer", Local, servers')
                 /\ Talk(job'[j], "none", FALSE, FALSE)
                 /\ Use(job'[j], None, {}, "none")
           /\ Visit(j) =>
                 /\ Place(job'[j], AfterVisit(j), job[j].then, Head(job[j].todo), job[j].todo)
                 /\ Talk(job'[j], job[j].hdr, job[j].disturbed, job[j].ok)
                 /\ Use(job'[j], job[j].tool, conn[Head(job[j].todo)].tools, job[j].outcome)
           /\ OfferTools(j) => Further(j)
           /\ OfferEnds(j) => Thought(j, "none")
<1>0. job[j] \in Job
  BY JobType
<1>1. StartTurn(j) =>
        /\ Place(job'[j], "visit", "offer", Local, servers')
        /\ Talk(job'[j], "none", FALSE, FALSE) /\ Use(job'[j], None, {}, "none")
  <2> SUFFICES ASSUME StartTurn(j)
               PROVE  /\ Place(job'[j], "visit", "offer", Local, servers')
                      /\ Talk(job'[j], "none", FALSE, FALSE)
                      /\ Use(job'[j], None, {}, "none")
    OBVIOUS
  <2>1. job'[j] = [Idle EXCEPT !.pc = "visit", !.then = "offer", !.todo = servers']
    BY BecomesSo DEF StartTurn, Begins
  <2> QED
    BY <2>1 DEF Idle, Place, Talk, Use
<1>2. Visit(j) =>
        /\ Place(job'[j], AfterVisit(j), job[j].then, Head(job[j].todo), job[j].todo)
        /\ Talk(job'[j], job[j].hdr, job[j].disturbed, job[j].ok)
        /\ Use(job'[j], job[j].tool, conn[Head(job[j].todo)].tools, job[j].outcome)
  <2> SUFFICES ASSUME Visit(j)
               PROVE  /\ Place(job'[j], AfterVisit(j), job[j].then, Head(job[j].todo), job[j].todo)
                      /\ Talk(job'[j], job[j].hdr, job[j].disturbed, job[j].ok)
                      /\ Use(job'[j], job[j].tool, conn[Head(job[j].todo)].tools, job[j].outcome)
    OBVIOUS
  <2>1. job'[j] = [job[j] EXCEPT !.at = Head(job[j].todo),
                                 !.tools = conn[Head(job[j].todo)].tools,
                                 !.pc = AfterVisit(j)]
    BY BecomesSo DEF Visit, AfterVisit
  <2> QED
    BY <2>1, <1>0, Zenon DEF Job, Place, Talk, Use
<1>3. OfferTools(j) => Further(j)
  BY FurtherSo DEF OfferTools
<1>4. OfferEnds(j) => Thought(j, "none")
  BY ThinksSo DEF OfferEnds
<1> QED
  BY <1>1, <1>2, <1>3, <1>4, Zenon

LEMMA ConnectChanges ==
    ASSUME TypeOK, NEW j \in Jobs
    PROVE  /\ ConnectGone(j) =>
                 /\ Place(job'[j], "have", job[j].then, job[j].at, job[j].todo)
                 /\ Talk(job'[j], job[j].hdr, job[j].disturbed, FALSE)
                 /\ Use(job'[j], job[j].tool, {}, job[j].outcome)
           /\ ConnectLocal(j) =>
                 /\ Place(job'[j], "have", job[j].then, job[j].at, job[j].todo)
                 /\ Talk(job'[j], job[j].hdr, job[j].disturbed, TRUE)
                 /\ Use(job'[j], job[j].tool, lists[Local], job[j].outcome)
           /\ SendInitialize(j) =>
                 /\ Place(job'[j], "initSent", job[j].then, job[j].at, job[j].todo)
                 /\ Talk(job'[j], "none", FALSE, job[j].ok)
                 /\ Use(job'[j], job[j].tool, job[j].tools, job[j].outcome)
           /\ InitializeAnswered(j) =>
                 /\ Place(job'[j], "inited", job[j].then, job[j].at, job[j].todo)
                 /\ Talk(job'[j], job[j].hdr, job[j].disturbed, job[j].ok)
                 /\ Use(job'[j], job[j].tool, job[j].tools, job[j].outcome)
           /\ SendList(j) =>
                 /\ Place(job'[j], "listSent", job[j].then, job[j].at, job[j].todo)
                 /\ Talk(job'[j], session[job[j].at], job[j].disturbed, job[j].ok)
                 /\ Use(job'[j], job[j].tool, job[j].tools, job[j].outcome)
           /\ ListAnswered(j) =>
                 /\ Place(job'[j], "have", job[j].then, job[j].at, job[j].todo)
                 /\ Talk(job'[j], "none", FALSE, TRUE)
                 /\ Use(job'[j], job[j].tool, lists[job[j].at], job[j].outcome)
           /\ Refuse(j) =>
                 /\ Place(job'[j], AfterError(j), job[j].then, job[j].at, job[j].todo)
                 /\ Talk(job'[j], job[j].hdr, job[j].disturbed, job[j].ok)
                 /\ Use(job'[j], job[j].tool, job[j].tools, job[j].outcome)
           /\ Lose(j) =>
                 /\ Place(job'[j], AfterError(j), job[j].then, job[j].at, job[j].todo)
                 /\ Talk(job'[j], job[j].hdr, TRUE, job[j].ok)
                 /\ Use(job'[j], job[j].tool, job[j].tools, job[j].outcome)
           /\ ConnectFails(j) =>
                 /\ Place(job'[j], "have", job[j].then, job[j].at, job[j].todo)
                 /\ Talk(job'[j], "none", FALSE, FALSE)
                 /\ Use(job'[j], job[j].tool, {}, job[j].outcome)
<1>0. job[j] \in Job
  BY JobType
<1>1. ConnectGone(j) =>
        /\ Place(job'[j], "have", job[j].then, job[j].at, job[j].todo)
        /\ Talk(job'[j], job[j].hdr, job[j].disturbed, FALSE)
        /\ Use(job'[j], job[j].tool, {}, job[j].outcome)
  <2> SUFFICES ASSUME ConnectGone(j)
               PROVE  /\ Place(job'[j], "have", job[j].then, job[j].at, job[j].todo)
                      /\ Talk(job'[j], job[j].hdr, job[j].disturbed, FALSE)
                      /\ Use(job'[j], job[j].tool, {}, job[j].outcome)
    BY Zenon
  <2>1. job'[j] = [job[j] EXCEPT !.pc = "have", !.ok = FALSE, !.tools = {}]
    BY BecomesSo DEF ConnectGone
  <2> QED
    BY <2>1, <1>0, Zenon DEF Job, Place, Talk, Use
<1>2. ConnectLocal(j) =>
        /\ Place(job'[j], "have", job[j].then, job[j].at, job[j].todo)
        /\ Talk(job'[j], job[j].hdr, job[j].disturbed, TRUE)
        /\ Use(job'[j], job[j].tool, lists[Local], job[j].outcome)
  <2> SUFFICES ASSUME ConnectLocal(j)
               PROVE  /\ Place(job'[j], "have", job[j].then, job[j].at, job[j].todo)
                      /\ Talk(job'[j], job[j].hdr, job[j].disturbed, TRUE)
                      /\ Use(job'[j], job[j].tool, lists[Local], job[j].outcome)
    BY Zenon
  <2>1. job'[j] = [job[j] EXCEPT !.pc = "have", !.ok = TRUE, !.tools = lists[Local]]
    BY BecomesSo DEF ConnectLocal
  <2> QED
    BY <2>1, <1>0, Zenon DEF Job, Place, Talk, Use
<1>3. SendInitialize(j) =>
        /\ Place(job'[j], "initSent", job[j].then, job[j].at, job[j].todo)
        /\ Talk(job'[j], "none", FALSE, job[j].ok)
        /\ Use(job'[j], job[j].tool, job[j].tools, job[j].outcome)
  <2> SUFFICES ASSUME SendInitialize(j)
               PROVE  /\ Place(job'[j], "initSent", job[j].then, job[j].at, job[j].todo)
                      /\ Talk(job'[j], "none", FALSE, job[j].ok)
                      /\ Use(job'[j], job[j].tool, job[j].tools, job[j].outcome)
    BY Zenon
  <2>1. job'[j] = [job[j] EXCEPT !.pc = "initSent", !.hdr = "none", !.disturbed = FALSE]
    BY BecomesSo DEF SendInitialize, TypeOK
  <2> QED
    BY <2>1, <1>0, Zenon DEF Job, Place, Talk, Use
<1>4. InitializeAnswered(j) =>
        /\ Place(job'[j], "inited", job[j].then, job[j].at, job[j].todo)
        /\ Talk(job'[j], job[j].hdr, job[j].disturbed, job[j].ok)
        /\ Use(job'[j], job[j].tool, job[j].tools, job[j].outcome)
  <2> SUFFICES ASSUME InitializeAnswered(j)
               PROVE  /\ Place(job'[j], "inited", job[j].then, job[j].at, job[j].todo)
                      /\ Talk(job'[j], job[j].hdr, job[j].disturbed, job[j].ok)
                      /\ Use(job'[j], job[j].tool, job[j].tools, job[j].outcome)
    OBVIOUS
  <2>1. job'[j] = [job[j] EXCEPT !.pc = "inited"]
    BY BecomesSo DEF InitializeAnswered
  <2> QED
    BY <2>1, <1>0, Zenon DEF Job, Place, Talk, Use
<1>5. SendList(j) =>
        /\ Place(job'[j], "listSent", job[j].then, job[j].at, job[j].todo)
        /\ Talk(job'[j], session[job[j].at], job[j].disturbed, job[j].ok)
        /\ Use(job'[j], job[j].tool, job[j].tools, job[j].outcome)
  <2> SUFFICES ASSUME SendList(j)
               PROVE  /\ Place(job'[j], "listSent", job[j].then, job[j].at, job[j].todo)
                      /\ Talk(job'[j], session[job[j].at], job[j].disturbed, job[j].ok)
                      /\ Use(job'[j], job[j].tool, job[j].tools, job[j].outcome)
    OBVIOUS
  <2>1. job'[j] = [job[j] EXCEPT !.pc = "listSent", !.hdr = session[job[j].at]]
    BY BecomesSo DEF SendList
  <2> QED
    BY <2>1, <1>0, Zenon DEF Job, Place, Talk, Use
<1>6. ListAnswered(j) =>
        /\ Place(job'[j], "have", job[j].then, job[j].at, job[j].todo)
        /\ Talk(job'[j], "none", FALSE, TRUE)
        /\ Use(job'[j], job[j].tool, lists[job[j].at], job[j].outcome)
  <2> SUFFICES ASSUME ListAnswered(j)
               PROVE  /\ Place(job'[j], "have", job[j].then, job[j].at, job[j].todo)
                      /\ Talk(job'[j], "none", FALSE, TRUE)
                      /\ Use(job'[j], job[j].tool, lists[job[j].at], job[j].outcome)
    BY Zenon
  <2>1. job'[j] = [job[j] EXCEPT !.pc = "have", !.ok = TRUE, !.tools = lists[job[j].at],
                                 !.hdr = "none", !.disturbed = FALSE]
    BY BecomesSo DEF ListAnswered
  <2> QED
    BY <2>1, <1>0, Zenon DEF Job, Place, Talk, Use
<1>7. Refuse(j) =>
        /\ Place(job'[j], AfterError(j), job[j].then, job[j].at, job[j].todo)
        /\ Talk(job'[j], job[j].hdr, job[j].disturbed, job[j].ok)
        /\ Use(job'[j], job[j].tool, job[j].tools, job[j].outcome)
  <2> SUFFICES ASSUME Refuse(j)
               PROVE  /\ Place(job'[j], AfterError(j), job[j].then, job[j].at, job[j].todo)
                      /\ Talk(job'[j], job[j].hdr, job[j].disturbed, job[j].ok)
                      /\ Use(job'[j], job[j].tool, job[j].tools, job[j].outcome)
    OBVIOUS
  <2>1. job'[j] = [job[j] EXCEPT !.pc = AfterError(j)]
    BY BecomesSo DEF Refuse, AfterError
  <2> QED
    BY <2>1, <1>0 DEF Job, Place, Talk, Use
<1>8. Lose(j) =>
        /\ Place(job'[j], AfterError(j), job[j].then, job[j].at, job[j].todo)
        /\ Talk(job'[j], job[j].hdr, TRUE, job[j].ok)
        /\ Use(job'[j], job[j].tool, job[j].tools, job[j].outcome)
  <2> SUFFICES ASSUME Lose(j)
               PROVE  /\ Place(job'[j], AfterError(j), job[j].then, job[j].at, job[j].todo)
                      /\ Talk(job'[j], job[j].hdr, TRUE, job[j].ok)
                      /\ Use(job'[j], job[j].tool, job[j].tools, job[j].outcome)
    BY Zenon
  <2>1. job'[j] = [job[j] EXCEPT !.pc = AfterError(j),
                                 !.disturbed = TRUE]
    BY BecomesSo DEF Lose, AfterError
  <2> QED
    BY <2>1, <1>0 DEF Job, Place, Talk, Use
<1>9. ConnectFails(j) =>
        /\ Place(job'[j], "have", job[j].then, job[j].at, job[j].todo)
        /\ Talk(job'[j], "none", FALSE, FALSE)
        /\ Use(job'[j], job[j].tool, {}, job[j].outcome)
  <2> SUFFICES ASSUME ConnectFails(j)
               PROVE  /\ Place(job'[j], "have", job[j].then, job[j].at, job[j].todo)
                      /\ Talk(job'[j], "none", FALSE, FALSE)
                      /\ Use(job'[j], job[j].tool, {}, job[j].outcome)
    OBVIOUS
  <2>1. job'[j] = [job[j] EXCEPT !.pc = "have", !.ok = FALSE, !.tools = {},
                                 !.hdr = "none", !.disturbed = FALSE]
    BY BecomesSo DEF ConnectFails
  <2> QED
    BY <2>1, <1>0, Zenon DEF Job, Place, Talk, Use
<1> QED
  BY <1>1, <1>2, <1>3, <1>4, <1>5, <1>6, <1>7, <1>8, <1>9, Zenon

LEMMA CallChanges ==
    ASSUME TypeOK, NEW j \in Jobs
    PROVE  /\ \A t \in Tools : CallTool(j, t) /\ routes[t] # None =>
                 /\ Place(job'[j], "routed", "call", routes[t], job[j].todo)
                 /\ Talk(job'[j], job[j].hdr, job[j].disturbed, job[j].ok)
                 /\ Use(job'[j], t, job[j].tools, "none")
           /\ \A t \in Tools : CallTool(j, t) /\ routes[t] = None =>
                 /\ Place(job'[j], "visit", "route", job[j].at, servers')
                 /\ Talk(job'[j], job[j].hdr, job[j].disturbed, job[j].ok)
                 /\ Use(job'[j], t, job[j].tools, "none")
           /\ Route(j) /\ job[j].tool \in job[j].tools =>
                 /\ Place(job'[j], "routed", "call", job[j].at, <<>>)
                 /\ Talk(job'[j], job[j].hdr, job[j].disturbed, FALSE)
                 /\ Use(job'[j], job[j].tool, {}, job[j].outcome)
           /\ Route(j) /\ job[j].tool \notin job[j].tools => Further(j)
           /\ RouteEnds(j) => Thought(j, "unknown")
           /\ ParseArguments(j) /\ ~Thinks(j, "error") =>
                 /\ Place(job'[j], "find", job[j].then, job[j].at, job[j].todo)
                 /\ Talk(job'[j], job[j].hdr, job[j].disturbed, job[j].ok)
                 /\ Use(job'[j], job[j].tool, job[j].tools, job[j].outcome)
           /\ FindServer(j) /\ ~Thinks(j, "no server") =>
                 /\ Place(job'[j], "connect", job[j].then, job[j].at, job[j].todo)
                 /\ Talk(job'[j], job[j].hdr, job[j].disturbed, job[j].ok)
                 /\ Use(job'[j], job[j].tool, job[j].tools, job[j].outcome)
           /\ CallConnected(j) /\ ~Thinks(j, "error") =>
                 /\ Place(job'[j], "calling", job[j].then, job[j].at, job[j].todo)
                 /\ Talk(job'[j], job[j].hdr, job[j].disturbed, job[j].ok)
                 /\ Use(job'[j], job[j].tool, job[j].tools, job[j].outcome)
           /\ SendCall(j) =>
                 /\ Place(job'[j], "callSent", job[j].then, job[j].at, job[j].todo)
                 /\ Talk(job'[j], session[job[j].at], job[j].disturbed, job[j].ok)
                 /\ Use(job'[j], job[j].tool, job[j].tools, job[j].outcome)
           /\ CallAnswered(j) => Thought(j, "ok") \/ Thought(j, "error")
           /\ CallFails(j) => Thought(j, "error")
           /\ \A t \in Tools : StartCommand(j, t) =>
                 /\ Place(job'[j], "find", "call", Head(servers'), <<>>)
                 /\ Talk(job'[j], "none", FALSE, FALSE) /\ Use(job'[j], t, {}, "none")
           /\ \A s \in Ids : StartConnect(j, s) =>
                 /\ Place(job'[j], "connect", "show", s, <<>>)
                 /\ Talk(job'[j], "none", FALSE, FALSE)
                 /\ Use(job'[j], None, {}, "none")
<1>0. job[j] \in Job
  BY JobType
<1>1. \A t \in Tools : CallTool(j, t) /\ routes[t] # None =>
        /\ Place(job'[j], "routed", "call", routes[t], job[j].todo)
        /\ Talk(job'[j], job[j].hdr, job[j].disturbed, job[j].ok)
        /\ Use(job'[j], t, job[j].tools, "none")
  <2> SUFFICES ASSUME NEW t \in Tools, CallTool(j, t), routes[t] # None
               PROVE  /\ Place(job'[j], "routed", "call", routes[t], job[j].todo)
                      /\ Talk(job'[j], job[j].hdr, job[j].disturbed, job[j].ok)
                      /\ Use(job'[j], t, job[j].tools, "none")
    OBVIOUS
  <2> DEFINE called == Called(job[j], t)
  <2>1. job'[j] = [called EXCEPT !.pc = "routed", !.then = "call", !.at = routes[t]]
    BY BecomesSo DEF CallTool, Called
  <2>2. called \in Job
    BY <1>0, CalledType DEF CallTool
  <2>3. /\ Place(called, job[j].pc, job[j].then, job[j].at, job[j].todo)
        /\ Talk(called, job[j].hdr, job[j].disturbed, job[j].ok)
        /\ Use(called, t, job[j].tools, "none")
    BY <1>0 DEF Called, Job, Place, Talk, Use
  <2> HIDE DEF called
  <2>4. Place(job'[j], "routed", "call", routes[t], job[j].todo)
    BY <2>1, <2>2, <2>3, Zenon DEF Job, Place
  <2>5. Talk(job'[j], job[j].hdr, job[j].disturbed, job[j].ok)
    BY <2>1, <2>2, <2>3 DEF Job, Talk
  <2>6. Use(job'[j], t, job[j].tools, "none")
    BY <2>1, <2>2, <2>3 DEF Job, Use
  <2> QED
    BY <2>4, <2>5, <2>6
<1>2. \A t \in Tools : CallTool(j, t) /\ routes[t] = None =>
        /\ Place(job'[j], "visit", "route", job[j].at, servers')
        /\ Talk(job'[j], job[j].hdr, job[j].disturbed, job[j].ok)
        /\ Use(job'[j], t, job[j].tools, "none")
  <2> SUFFICES ASSUME NEW t \in Tools, CallTool(j, t), routes[t] = None
               PROVE  /\ Place(job'[j], "visit", "route", job[j].at, servers')
                      /\ Talk(job'[j], job[j].hdr, job[j].disturbed, job[j].ok)
                      /\ Use(job'[j], t, job[j].tools, "none")
    OBVIOUS
  <2> DEFINE called == Called(job[j], t)
  <2>1. job'[j] = [called EXCEPT !.pc = "visit", !.then = "route", !.todo = servers']
    BY BecomesSo DEF CallTool, Called
  <2>2. called \in Job
    BY <1>0, CalledType DEF CallTool
  <2>3. /\ Place(called, job[j].pc, job[j].then, job[j].at, job[j].todo)
        /\ Talk(called, job[j].hdr, job[j].disturbed, job[j].ok)
        /\ Use(called, t, job[j].tools, "none")
    BY <1>0 DEF Called, Job, Place, Talk, Use
  <2> HIDE DEF called
  <2>4. Place(job'[j], "visit", "route", job[j].at, servers')
    BY <2>1, <2>2, <2>3, Zenon DEF Job, Place
  <2>5. Talk(job'[j], job[j].hdr, job[j].disturbed, job[j].ok)
    BY <2>1, <2>2, <2>3, Zenon DEF Job, Talk
  <2>6. Use(job'[j], t, job[j].tools, "none")
    BY <2>1, <2>2, <2>3 DEF Job, Use
  <2> QED
    BY <2>4, <2>5, <2>6
<1>3. Route(j) /\ job[j].tool \in job[j].tools =>
        /\ Place(job'[j], "routed", "call", job[j].at, <<>>)
        /\ Talk(job'[j], job[j].hdr, job[j].disturbed, FALSE)
        /\ Use(job'[j], job[j].tool, {}, job[j].outcome)
  <2> SUFFICES ASSUME Route(j) /\ job[j].tool \in job[j].tools
               PROVE  /\ Place(job'[j], "routed", "call", job[j].at, <<>>)
                      /\ Talk(job'[j], job[j].hdr, job[j].disturbed, FALSE)
                      /\ Use(job'[j], job[j].tool, {}, job[j].outcome)
    OBVIOUS
  <2>1. job'[j] = [job[j] EXCEPT !.pc = "routed", !.then = "call", !.todo = <<>>,
                                 !.tools = {}, !.ok = FALSE]
    BY BecomesSo DEF Route
  <2> QED
    BY <2>1, <1>0, Zenon DEF Job, Place, Talk, Use
<1>4. Route(j) /\ job[j].tool \notin job[j].tools => Further(j)
  BY FurtherSo DEF Route
<1>5. RouteEnds(j) => Thought(j, "unknown")
  BY ThinksSo DEF RouteEnds
<1>6. ParseArguments(j) /\ ~Thinks(j, "error") =>
        /\ Place(job'[j], "find", job[j].then, job[j].at, job[j].todo)
        /\ Talk(job'[j], job[j].hdr, job[j].disturbed, job[j].ok)
        /\ Use(job'[j], job[j].tool, job[j].tools, job[j].outcome)
  <2> SUFFICES ASSUME ParseArguments(j) /\ ~Thinks(j, "error")
               PROVE  /\ Place(job'[j], "find", job[j].then, job[j].at, job[j].todo)
                      /\ Talk(job'[j], job[j].hdr, job[j].disturbed, job[j].ok)
                      /\ Use(job'[j], job[j].tool, job[j].tools, job[j].outcome)
    OBVIOUS
  <2>1. job'[j] = [job[j] EXCEPT !.pc = "find"]
    BY BecomesSo DEF ParseArguments
  <2> QED
    BY <2>1, <1>0 DEF Job, Place, Talk, Use
<1>7. FindServer(j) /\ ~Thinks(j, "no server") =>
        /\ Place(job'[j], "connect", job[j].then, job[j].at, job[j].todo)
        /\ Talk(job'[j], job[j].hdr, job[j].disturbed, job[j].ok)
        /\ Use(job'[j], job[j].tool, job[j].tools, job[j].outcome)
  <2> SUFFICES ASSUME FindServer(j) /\ ~Thinks(j, "no server")
               PROVE  /\ Place(job'[j], "connect", job[j].then, job[j].at, job[j].todo)
                      /\ Talk(job'[j], job[j].hdr, job[j].disturbed, job[j].ok)
                      /\ Use(job'[j], job[j].tool, job[j].tools, job[j].outcome)
    OBVIOUS
  <2>1. job'[j] = [job[j] EXCEPT !.pc = "connect"]
    BY BecomesSo DEF FindServer
  <2> QED
    BY <2>1, <1>0 DEF Job, Place, Talk, Use
<1>8. CallConnected(j) /\ ~Thinks(j, "error") =>
        /\ Place(job'[j], "calling", job[j].then, job[j].at, job[j].todo)
        /\ Talk(job'[j], job[j].hdr, job[j].disturbed, job[j].ok)
        /\ Use(job'[j], job[j].tool, job[j].tools, job[j].outcome)
  <2> SUFFICES ASSUME CallConnected(j) /\ ~Thinks(j, "error")
               PROVE  /\ Place(job'[j], "calling", job[j].then, job[j].at, job[j].todo)
                      /\ Talk(job'[j], job[j].hdr, job[j].disturbed, job[j].ok)
                      /\ Use(job'[j], job[j].tool, job[j].tools, job[j].outcome)
    OBVIOUS
  <2>1. job'[j] = [job[j] EXCEPT !.pc = "calling"]
    BY BecomesSo DEF CallConnected
  <2> QED
    BY <2>1, <1>0, Zenon DEF Job, Place, Talk, Use
<1>9. SendCall(j) =>
        /\ Place(job'[j], "callSent", job[j].then, job[j].at, job[j].todo)
        /\ Talk(job'[j], session[job[j].at], job[j].disturbed, job[j].ok)
        /\ Use(job'[j], job[j].tool, job[j].tools, job[j].outcome)
  <2> SUFFICES ASSUME SendCall(j)
               PROVE  /\ Place(job'[j], "callSent", job[j].then, job[j].at, job[j].todo)
                      /\ Talk(job'[j], session[job[j].at], job[j].disturbed, job[j].ok)
                      /\ Use(job'[j], job[j].tool, job[j].tools, job[j].outcome)
    OBVIOUS
  <2>1. job'[j] = [job[j] EXCEPT !.pc = "callSent", !.hdr = session[job[j].at]]
    BY BecomesSo DEF SendCall
  <2> QED
    BY <2>1, <1>0 DEF Job, Place, Talk, Use
<1>10. CallAnswered(j) => Thought(j, "ok") \/ Thought(j, "error")
  BY ThinksSo DEF CallAnswered
<1>11. CallFails(j) => Thought(j, "error")
  BY ThinksSo DEF CallFails
<1>12. \A t \in Tools : StartCommand(j, t) =>
        /\ Place(job'[j], "find", "call", Head(servers'), <<>>)
        /\ Talk(job'[j], "none", FALSE, FALSE) /\ Use(job'[j], t, {}, "none")
  <2> SUFFICES ASSUME NEW t \in Tools, StartCommand(j, t)
               PROVE  /\ Place(job'[j], "find", "call", Head(servers'), <<>>)
                      /\ Talk(job'[j], "none", FALSE, FALSE)
                      /\ Use(job'[j], t, {}, "none")
    BY Zenon
  <2>1. job'[j] = [Idle EXCEPT !.pc = "find", !.then = "call", !.at = Head(servers'),
                               !.tool = t, !.calls = MaxCalls]
    BY BecomesSo DEF StartCommand
  <2> QED
    BY <2>1 DEF Idle, Place, Talk, Use
<1>13. \A s \in Ids : StartConnect(j, s) =>
        /\ Place(job'[j], "connect", "show", s, <<>>)
        /\ Talk(job'[j], "none", FALSE, FALSE) /\ Use(job'[j], None, {}, "none")
  <2> SUFFICES ASSUME NEW s \in Ids, StartConnect(j, s)
               PROVE  /\ Place(job'[j], "connect", "show", s, <<>>)
                      /\ Talk(job'[j], "none", FALSE, FALSE)
                      /\ Use(job'[j], None, {}, "none")
    OBVIOUS
  <2>1. job'[j] = [Idle EXCEPT !.pc = "connect", !.at = s]
    BY BecomesSo DEF StartConnect
  <2> QED
    BY <2>1 DEF Idle, Place, Talk, Use
<1> QED
  BY <1>1, <1>2, <1>3, <1>4, <1>5, <1>6, <1>7, <1>8, <1>9, <1>10, <1>11, <1>12, <1>13, Zenon

LEMMA EndChanges ==
    ASSUME TypeOK, NEW j \in Jobs, EndTurn(j) \/ Cancel(j) \/ Show(j)
    PROVE  /\ Place(job'[j], "idle", "show", Local, <<>>)
           /\ Talk(job'[j], "none", FALSE, FALSE) /\ Use(job'[j], None, {}, "none")
<1>1. job'[j] = Idle
  BY BecomesSo DEF EndTurn, Cancel, Show
<1> QED
  BY <1>1 DEF Idle, Place, Talk, Use

(* A step of a job is its own, but for what a new session does to others.  *)
LEMMA OthersStay ==
    ASSUME TypeOK, NEW j \in Jobs, Step(j), ~SendInitialize(j), NEW k \in Jobs \ {j}
    PROVE  job'[k] = job[k]
<1>1. \E r : Becomes(j, r)
  <2>1. CASE StartTurn(j) \/ Visit(j) \/ OfferTools(j) \/ OfferEnds(j)
    BY <2>1, Zenon DEF StartTurn, Begins, Visit, OfferTools, OfferEnds, NextServer, Thinks
  <2>2. CASE ConnectGone(j) \/ ConnectLocal(j) \/ InitializeAnswered(j) \/ SendList(j)
    BY <2>2 DEF ConnectGone, ConnectLocal, InitializeAnswered, SendList
  <2>3. CASE ListAnswered(j) \/ Refuse(j) \/ Lose(j) \/ ConnectFails(j)
    BY <2>3 DEF ListAnswered, Refuse, Lose, ConnectFails
  <2>4. CASE Route(j) \/ RouteEnds(j) \/ ParseArguments(j) \/ FindServer(j)
    BY <2>4 DEF Route, RouteEnds, ParseArguments, FindServer, NextServer, Thinks
  <2>5. CASE CallConnected(j) \/ SendCall(j) \/ CallAnswered(j) \/ CallFails(j)
    BY <2>5 DEF CallConnected, SendCall, CallAnswered, CallFails, Thinks
  <2>6. CASE EndTurn(j) \/ Cancel(j) \/ Show(j)
    BY <2>6 DEF EndTurn, Cancel, Show
  <2>7. ASSUME NEW t \in Tools, CallTool(j, t) \/ StartCommand(j, t) PROVE \E r : Becomes(j, r)
    BY <2>7 DEF CallTool, StartCommand
  <2>8. ASSUME NEW s \in Ids, StartConnect(j, s) PROVE \E r : Becomes(j, r)
    BY <2>8 DEF StartConnect
  <2> QED
    BY <2>1, <2>2, <2>3, <2>4, <2>5, <2>6, <2>7, <2>8 DEF Step
<1> QED
  BY <1>1, BecomesSo

(* What a new session of a server does to the jobs that used the old one.  *)
LEMMA Unsettles ==
    ASSUME TypeOK, NEW j \in Jobs, SendInitialize(j), NEW k \in Jobs \ {j}
    PROVE  /\ Place(job'[k], job[k].pc, job[k].then, job[k].at, job[k].todo)
           /\ Talk(job'[k], job[k].hdr, Relies(k, job[j].at) \/ job[k].disturbed, job[k].ok)
           /\ Use(job'[k], job[k].tool, job[k].tools, job[k].outcome)
<1>1. job'[k] = IF Relies(k, job[j].at) THEN [job[k] EXCEPT !.disturbed = TRUE] ELSE job[k]
  BY DEF TypeOK, SendInitialize
<1>2. job[k] \in Job
  BY JobType
<1>3. CASE Relies(k, job[j].at)
  BY <1>1, <1>2, <1>3, Zenon DEF Job, Place, Talk, Use
<1>4. CASE ~Relies(k, job[j].at)
  BY <1>1, <1>2, <1>4 DEF Job, Place, Talk, Use
<1> QED
  BY <1>3, <1>4

(* What a restart of server s does to a job: it has nothing to do with it, *)
(* or is disturbed.                                                        *)
LEMMA RestartSo ==
    ASSUME TypeOK, NEW s \in Remote, RestartServer(s), NEW k \in Jobs
    PROVE  \/ /\ job'[k] = job[k]
              /\ job[k].at = s => ~Relies(k, s) /\ job[k].pc \notin {"listSent", "callSent"}
           \/ \E h : /\ Place(job'[k], job[k].pc, job[k].then, job[k].at, job[k].todo)
                     /\ Talk(job'[k], h, TRUE, job[k].ok)
                     /\ Use(job'[k], job[k].tool, job[k].tools, job[k].outcome)
<1>1. job[k] \in Job
  BY JobType
<1>2. \/ /\ job'[k] = job[k]
         /\ job[k].at = s => ~Relies(k, s) /\ job[k].pc \notin {"listSent", "callSent"}
      \/ \E h : job'[k] = [job[k] EXCEPT !.hdr = h, !.disturbed = TRUE]
  BY DEF RestartServer
<1>3. ASSUME NEW h, job'[k] = [job[k] EXCEPT !.hdr = h, !.disturbed = TRUE]
      PROVE  /\ Place(job'[k], job[k].pc, job[k].then, job[k].at, job[k].todo)
             /\ Talk(job'[k], h, TRUE, job[k].ok)
             /\ Use(job'[k], job[k].tool, job[k].tools, job[k].outcome)
  BY <1>1, <1>3, Zenon DEF Job, Place, Talk, Use
<1> QED
  BY <1>2, <1>3, Zenon

-----------------------------------------------------------------------------
(* Whoever goes through the servers has the first one left before it.      *)
LEMMA AskSelf ==
    ASSUME TypeOK, AllAsk, NEW j \in Jobs, Step(j)
    PROVE  Asks(j)'
<1>1. Asks(j)
  BY DEF AllAsk
<1>2. \A o : Thought(j, o) => Asks(j)'
  BY DEF Thought, Place, Asks
<1>3. job[j].then \in {"offer", "route"} /\ Further(j) => Asks(j)'
  BY DEF Further, Place, Asks
<1>4. CASE StartTurn(j) \/ OfferTools(j) \/ OfferEnds(j)
  BY <1>2, <1>3, <1>4, ListChanges, Zenon DEF OfferTools, Place, Asks
<1>5. CASE Visit(j)
  BY <1>1, <1>5, ListChanges, Zenon DEF Visit, AfterVisit, At, Place, Asks
<1>6. CASE ConnectGone(j) \/ ConnectLocal(j) \/ SendInitialize(j)
  BY <1>1, <1>6, ConnectChanges, Zenon
     DEF ConnectGone, ConnectLocal, SendInitialize, At, Place, Asks
<1>7. CASE InitializeAnswered(j) \/ SendList(j) \/ ListAnswered(j) \/ ConnectFails(j)
  BY <1>1, <1>7, ConnectChanges, Zenon
     DEF InitializeAnswered, SendList, ListAnswered, ConnectFails, At, Place, Asks
<1>8. CASE Refuse(j) \/ Lose(j)
  BY <1>1, <1>8, ConnectChanges, Zenon DEF Refuse, Lose, AfterError, Place, Asks
<1>9. CASE Route(j) \/ RouteEnds(j) \/ CallAnswered(j) \/ CallFails(j)
  BY <1>2, <1>3, <1>9, CallChanges, Zenon DEF Route, Place, Asks
<1>10. CASE ParseArguments(j) \/ FindServer(j) \/ CallConnected(j) \/ SendCall(j)
  BY <1>1, <1>2, <1>10, CallChanges, ThinksSo, Zenon
     DEF ParseArguments, FindServer, CallConnected, SendCall, At, Place, Asks
<1>11. CASE EndTurn(j) \/ Cancel(j) \/ Show(j)
  BY <1>11, EndChanges, Zenon DEF Place, Asks
<1>12. ASSUME NEW t \in Tools, CallTool(j, t) \/ StartCommand(j, t) PROVE Asks(j)'
  BY <1>12, CallChanges, Zenon DEF Place, Asks
<1>13. ASSUME NEW s \in Ids, StartConnect(j, s) PROVE Asks(j)'
  BY <1>13, CallChanges DEF Place, Asks
<1> QED
  BY <1>4, <1>5, <1>6, <1>7, <1>8, <1>9, <1>10, <1>11, <1>12, <1>13 DEF Step

LEMMA AskStep ==
    ASSUME TypeOK, AllAsk, [Next]_vars
    PROVE  AllAsk'
<1>1. ASSUME NEW j \in Jobs, Step(j), NEW k \in Jobs PROVE Asks(k)'
  <2>1. CASE k = j
    BY <1>1, <2>1, AskSelf
  <2>2. CASE k # j /\ ~SendInitialize(j)
    BY <1>1, <2>2, OthersStay DEF AllAsk, Asks
  <2>3. CASE k # j /\ SendInitialize(j)
    BY <2>3, Unsettles DEF AllAsk, Asks, Place
  <2> QED
    BY <2>1, <2>2, <2>3
<1>2. ASSUME NEW s \in Remote, RestartServer(s), NEW k \in Jobs PROVE Asks(k)'
  BY <1>2, RestartSo, Zenon DEF AllAsk, Asks, Place
<1>3. CASE UNCHANGED job
  BY <1>3 DEF AllAsk, Asks
<1>4. CASE Die
  BY <1>4 DEF Die, Idle, AllAsk, Asks
<1> QED
  BY <1>1, <1>2, <1>3, <1>4, Zenon DEF Next, SaveServer, DeleteServer, AllAsk, vars

(* The servers, what is known of them and the jobs keep their types,       *)
(* whatever jobs overlap and whatever becomes of the servers.              *)
THEOREM TypeCorrect == Spec => []TypeOK
<1>1. Init => TypeOK /\ AllAsk
  <2> SUFFICES ASSUME Init PROVE TypeOK /\ AllAsk
    OBVIOUS
  <2>1. TypeOK
    BY Bounds, IdleType, ConnectionType, NamesType DEF Init, TypeOK
  <2>2. AllAsk
    BY DEF Init, Idle, AllAsk, Asks
  <2> QED
    BY <2>1, <2>2
<1>2. TypeOK /\ AllAsk /\ [Next]_vars => (TypeOK /\ AllAsk)'
  <2> SUFFICES ASSUME TypeOK, AllAsk, [Next]_vars PROVE TypeOK'
    BY AskStep
  <2>1. ASSUME NEW j \in Jobs, Step(j) PROVE TypeOK'
    BY <2>1, BeginType, OfferType, ConnectType, CallType, EndType DEF Step
  <2>2. CASE UNCHANGED vars
    BY <2>2 DEF TypeOK, vars
  <2> QED
    BY <2>1, <2>2, EventType DEF Next
<1> QED
  BY <1>1, <1>2, PTL DEF Spec

-----------------------------------------------------------------------------
(* What is sent without a live session, or fails, has been disturbed, and  *)
(* so has whoever relies on a session that is no longer live.              *)
Cause(j) ==
    /\ job[j].pc \in {"listSent", "callSent"} /\ job[j].at # Local /\ job[j].hdr # "live" =>
           job[j].disturbed
    /\ Relies(j, job[j].at) /\ job[j].at # Local /\ session[job[j].at] # "live" =>
           job[j].disturbed
    /\ job[j].pc \in {"threw", "refused"} => job[j].disturbed

Causes == \A j \in Jobs : Cause(j)

LEMMA CauseSelf ==
    ASSUME TypeOK, AllAsk, Causes, NEW j \in Jobs, Step(j)
    PROVE  Cause(j)'
<1>1. Cause(j) /\ Asks(j)
  BY DEF Causes, AllAsk
<1>a. job[j].at \in DOMAIN session
  BY FieldsType DEF TypeOK
<1>2. \A o : Thought(j, o) => Cause(j)'
  BY DEF Thought, Place, Cause, Relies, At
<1>3. Further(j) => Cause(j)'
  BY DEF Further, Place, Cause, Relies, At
<1>4. CASE StartTurn(j) \/ OfferTools(j) \/ OfferEnds(j)
  BY <1>2, <1>3, <1>4, ListChanges, Zenon DEF Place, Cause, Relies, At
<1>5. CASE Visit(j)
  BY <1>1, <1>5, ListChanges, Zenon DEF Visit, AfterVisit, At, Place, Cause, Relies, Asks
<1>6. CASE ConnectGone(j)
  BY <1>1, <1>6, ConnectChanges, Zenon DEF Place, Talk, Cause, Relies, At
<1>7. CASE ConnectLocal(j)
  BY <1>1, <1>7, ConnectChanges, Zenon DEF ConnectLocal, Place, Talk, Cause, Relies, At
<1>8. CASE SendInitialize(j)
  BY <1>1, <1>8, ConnectChanges, Zenon DEF Place, Talk, Cause, Relies, At
<1>9. CASE InitializeAnswered(j)
  <2>1. session'[job[j].at] = "live" /\ job'[j].at = job[j].at /\ job'[j].pc = "inited"
    BY <1>a, <1>9, ConnectChanges, Zenon DEF InitializeAnswered, Place
  <2> QED
    BY <2>1 DEF Cause, Relies, At
<1>10. CASE SendList(j)
  BY <1>1, <1>10, ConnectChanges, Zenon DEF SendList, Place, Talk, Cause, Relies, At
<1>11. CASE ListAnswered(j)
  <2>1. session'[job[j].at] = "live" /\ job'[j].at = job[j].at /\ job'[j].pc = "have"
    BY <1>a, <1>11, ConnectChanges, Zenon DEF ListAnswered, Place
  <2> QED
    BY <2>1 DEF Cause, Relies, At
<1>12. CASE Refuse(j)
  BY <1>1, <1>12, ConnectChanges, Zenon
     DEF Refuse, Accepts, AfterError, Place, Talk, Cause, Relies, At
<1>13. CASE Lose(j)
  BY <1>13, ConnectChanges, Zenon DEF AfterError, Place, Talk, Cause, Relies, At
<1>14. CASE ConnectFails(j)
  BY <1>14, ConnectChanges, Zenon DEF Place, Talk, Cause, Relies, At
<1>15. CASE Route(j) \/ RouteEnds(j) \/ CallAnswered(j) \/ CallFails(j)
  BY <1>2, <1>3, <1>15, CallChanges, Zenon DEF Place, Cause, Relies, At
<1>16. CASE ParseArguments(j) \/ FindServer(j)
  BY <1>2, <1>16, CallChanges, ThinksSo, Zenon DEF Place, Cause, Relies, At
<1>17. CASE CallConnected(j)
  <2>1. CASE Thinks(j, "error")
    BY <1>2, <2>1, ThinksSo
  <2>2. CASE ~Thinks(j, "error")
    <3>1. /\ Place(job'[j], "calling", "call", job[j].at, job[j].todo)
          /\ Talk(job'[j], job[j].hdr, job[j].disturbed, job[j].ok)
      BY <1>17, <2>2, CallChanges, Zenon DEF CallConnected
    <3>2. At(j, "have") /\ job[j].then = "call" /\ job[j].ok /\ session' = session
      BY <1>17, <2>2 DEF CallConnected, net
    <3> QED
      BY <1>1, <3>1, <3>2 DEF Place, Talk, Cause, Relies, At
  <2> QED
    BY <2>1, <2>2
<1>18. CASE SendCall(j)
  BY <1>1, <1>18, CallChanges, Zenon DEF SendCall, Place, Talk, Cause, Relies, At
<1>19. CASE EndTurn(j) \/ Cancel(j) \/ Show(j)
  BY <1>19, EndChanges DEF Place, Cause, Relies, At
<1>20. ASSUME NEW t \in Tools, CallTool(j, t) \/ StartCommand(j, t) PROVE Cause(j)'
  BY <1>20, CallChanges, Zenon DEF Place, Cause, Relies, At
<1>21. ASSUME NEW s \in Ids, StartConnect(j, s) PROVE Cause(j)'
  BY <1>21, CallChanges, Zenon DEF Place, Cause, Relies, At
<1> QED
  BY <1>4, <1>5, <1>6, <1>7, <1>8, <1>9, <1>10, <1>11, <1>12, <1>13, <1>14, <1>15, <1>16,
     <1>17, <1>18, <1>19, <1>20, <1>21 DEF Step

(* A step of a job forgets a session, opens one, or leaves all as they are. *)
LEMMA SessionsOf ==
    ASSUME TypeOK, NEW j \in Jobs, Step(j), ~SendInitialize(j), NEW s \in Ids
    PROVE  session'[s] \in {session[s], "live"}
<1>1. session[s] \in {session[s], "live"}
  OBVIOUS
<1>2. CASE InitializeAnswered(j) \/ ListAnswered(j) \/ CallAnswered(j)
  BY <1>2 DEF InitializeAnswered, ListAnswered, CallAnswered, TypeOK
<1>3. CASE session' = session
  BY <1>3
<1> QED
  BY <1>2, <1>3, Zenon DEF Step, StartTurn, Begins, Visit, OfferTools, OfferEnds, ConnectGone,
     ConnectLocal, SendList, Refuse, Lose, ConnectFails, CallTool, Route, RouteEnds,
     ParseArguments, FindServer, CallConnected, SendCall, CallFails, StartCommand, StartConnect,
     EndTurn, Cancel, Show, net

LEMMA CauseStep ==
    ASSUME TypeOK, AllAsk, Causes, [Next]_vars
    PROVE  Causes'
<1>1. ASSUME NEW j \in Jobs, Step(j), NEW k \in Jobs PROVE Cause(k)'
  <2>a. job[k].at \in Ids /\ Cause(k)
    BY FieldsType DEF Causes
  <2>1. CASE k = j
    BY <1>1, <2>1, CauseSelf
  <2>2. CASE k # j /\ ~SendInitialize(j)
    <3>1. job'[k] = job[k] /\ session'[job[k].at] \in {session[job[k].at], "live"}
      BY <1>1, <2>a, <2>2, OthersStay, SessionsOf
    <3> QED
      BY <2>a, <3>1 DEF Cause, Relies, At
  <2>3. CASE k # j /\ SendInitialize(j)
    <3>1. \A s \in Ids : s # job[j].at => session'[s] = session[s]
      BY <2>3 DEF SendInitialize, TypeOK
    <3>2. /\ Place(job'[k], job[k].pc, job[k].then, job[k].at, job[k].todo)
          /\ Talk(job'[k], job[k].hdr, Relies(k, job[j].at) \/ job[k].disturbed, job[k].ok)
      BY <2>3, Unsettles
    <3> QED
      BY <2>a, <3>1, <3>2, Zenon DEF Cause, Relies, At, Place, Talk
  <2> QED
    BY <2>1, <2>2, <2>3
<1>2. ASSUME NEW s \in Remote, RestartServer(s), NEW k \in Jobs PROVE Cause(k)'
  <2>1. Cause(k) /\ job[k].at \in Ids
    BY FieldsType DEF Causes
  <2>2. \A i \in Ids : i # s => session'[i] = session[i]
    BY <1>2, Zenon DEF RestartServer, TypeOK
  <2>3. CASE /\ job'[k] = job[k]
             /\ job[k].at = s => ~Relies(k, s) /\ job[k].pc \notin {"listSent", "callSent"}
    BY <2>1, <2>2, <2>3 DEF Cause, Relies, At
  <2>4. ASSUME NEW h, Talk(job'[k], h, TRUE, job[k].ok) PROVE Cause(k)'
    BY <2>4 DEF Talk, Cause
  <2> QED
    BY <1>2, <2>3, <2>4, RestartSo
<1>3. CASE UNCHANGED <<job, session>>
  BY <1>3 DEF Causes, Cause, Relies, At
<1>4. CASE Die
  BY <1>4 DEF Die, Idle, Causes, Cause, Relies, At
<1> QED
  BY <1>1, <1>2, <1>3, <1>4 DEF Next, SaveServer, DeleteServer, Causes, vars, net

(* No request of any job fails but for a reason, however many jobs share   *)
(* the sessions of the servers.                                            *)
THEOREM FailuresHaveCauses == Spec => []ErrorsHaveCauses
<1>1. Init => AllAsk /\ Causes
  BY DEF Init, Idle, AllAsk, Asks, Causes, Cause, Relies, At
<1>2. TypeOK /\ AllAsk /\ Causes /\ [Next]_vars => (AllAsk /\ Causes)'
  BY AskStep, CauseStep
<1>3. Causes => ErrorsHaveCauses
  BY DEF Causes, Cause, ErrorsHaveCauses
<1> QED
  BY <1>1, <1>2, <1>3, TypeCorrect, PTL DEF Spec

-----------------------------------------------------------------------------
(* While a turn lists tools alone, every name that is listed by now is one *)
(* of its offer, and nobody else lists.                                    *)
Offered(j, t) == \E o \in offer[j] : o[1] = t

Whole(j) ==
    alone[j] =>
        /\ \A t \in seen[j] : Offered(j, t)
        /\ Listing(j) => (\A t \in listed : Offered(j, t)) /\ \A k \in Jobs \ {j} : ~Listing(k)

AllWhole == \A j \in Jobs : Whole(j)

(* Only StartTurn begins to list.                                          *)
LEMMA ListingSelf ==
    ASSUME TypeOK, AllAsk, NEW j \in Jobs, Step(j), ~StartTurn(j), Listing(j)'
    PROVE  Listing(j)
<1>1. Asks(j)
  BY DEF AllAsk
<1>2. \A o : ~Thought(j, o)
  BY DEF Thought, Place, Listing
<1>3. CASE Visit(j)
  BY <1>3, ListChanges, Zenon DEF Visit, AfterVisit, At, Place, Listing
<1>4. CASE OfferTools(j) \/ OfferEnds(j)
  BY <1>2, <1>4, ListChanges, Zenon DEF OfferTools, At, Listing
<1>5. CASE \/ ConnectGone(j) \/ ConnectLocal(j) \/ SendInitialize(j)
          \/ InitializeAnswered(j) \/ SendList(j) \/ ListAnswered(j) \/ ConnectFails(j)
  BY <1>5, ConnectChanges, Zenon
     DEF ConnectGone, ConnectLocal, SendInitialize, InitializeAnswered, SendList, ListAnswered,
         ConnectFails, At, Place, Listing
<1>6. CASE Refuse(j) \/ Lose(j)
  BY <1>6, ConnectChanges, Zenon DEF Refuse, Lose, AfterError, Place, Listing
<1>7. CASE Route(j)
  BY <1>7, CallChanges, Zenon DEF Route, Further, Place, Listing
<1>8. CASE RouteEnds(j) \/ CallAnswered(j) \/ CallFails(j)
  BY <1>2, <1>8, CallChanges
<1>9. CASE ParseArguments(j) \/ FindServer(j) \/ CallConnected(j) \/ SendCall(j)
  BY <1>1, <1>2, <1>9, CallChanges, ThinksSo, Zenon
     DEF ParseArguments, FindServer, CallConnected, SendCall, At, Place, Asks, Listing
<1>10. CASE EndTurn(j) \/ Cancel(j) \/ Show(j)
  BY <1>10, EndChanges, Zenon DEF Place, Listing
<1>11. ASSUME NEW t \in Tools, CallTool(j, t) \/ StartCommand(j, t) PROVE Listing(j)
  BY <1>11, CallChanges, Zenon DEF Place, Listing
<1>12. ASSUME NEW s \in Ids, StartConnect(j, s) PROVE Listing(j)
  BY <1>12, CallChanges DEF Place, Listing
<1> QED
  BY <1>3, <1>4, <1>5, <1>6, <1>7, <1>8, <1>9, <1>10, <1>11, <1>12 DEF Step

LEMMA ListingOf ==
    ASSUME TypeOK, AllAsk, NEW j \in Jobs, Step(j), ~StartTurn(j), NEW k \in Jobs, Listing(k)'
    PROVE  Listing(k)
<1>1. CASE k = j
  BY <1>1, ListingSelf
<1>2. CASE k # j /\ ~SendInitialize(j)
  BY <1>2, OthersStay DEF Listing
<1>3. CASE k # j /\ SendInitialize(j)
  BY <1>3, Unsettles DEF Listing, Place
<1> QED
  BY <1>1, <1>2, <1>3

LEMMA StartKeepsWhole ==
    ASSUME TypeOK, AllWhole, NEW j \in Jobs, StartTurn(j), NEW k \in Jobs
    PROVE  Whole(k)'
<1>1. \A i \in Jobs \ {j} : job'[i] = job[i]
  BY OthersStay, Zenon DEF Step, StartTurn, Begins, SendInitialize, At
<1>2. CASE k = j
  <2>1. seen'[j] = {} /\ listed' = {}
    BY DEF StartTurn, Begins, TypeOK
  <2>2. alone'[j] => \A i \in Jobs : ~Listing(i)
    BY DEF StartTurn, Begins
  <2> QED
    BY <1>1, <1>2, <2>1, <2>2 DEF Whole, Listing
<1>3. CASE k # j
  <2>1. alone'[k] => alone[k] /\ ~Listing(k)
    BY <1>3 DEF StartTurn, Begins
  <2>2. seen'[k] = seen[k] /\ offer'[k] = offer[k]
    BY <1>3 DEF StartTurn, Begins, TypeOK
  <2>3. Listing(k)' => Listing(k)
    BY <1>1, <1>3 DEF Listing
  <2> QED
    BY <2>1, <2>2, <2>3 DEF AllWhole, Whole, Offered
<1> QED
  BY <1>2, <1>3

LEMMA OfferKeepsWhole ==
    ASSUME TypeOK, AllAsk, AllWhole, NEW j \in Jobs, OfferTools(j), NEW k \in Jobs
    PROVE  Whole(k)'
<1>1. Listing(j) /\ alone' = alone
  BY DEF OfferTools, At, Listing
<1>2. \A i \in Jobs : Listing(i)' => Listing(i)
  BY ListingOf, Zenon DEF Step, OfferTools, StartTurn, Begins, At
<1>3. CASE k = j
  <2> DEFINE ts == job[j].tools \cap AllowedTo[j]
  <2>1. /\ offer'[j] = offer[j] \cup ((ts \ listed) \X {job[j].at})
        /\ seen'[j] = seen[j] \cup ts /\ listed' = listed \cup ts
    BY DEF OfferTools, NewOf, TypeOK
  <2> HIDE DEF ts
  <2>2. SUFFICES ASSUME alone[j]
                 PROVE  /\ \A t \in seen'[j] : Offered(j, t)'
                        /\ (\A t \in listed' : Offered(j, t)') /\ \A i \in Jobs \ {j} : ~Listing(i)'
    BY <1>1, <1>3 DEF Whole
  <2>3. /\ \A t \in seen[j] : Offered(j, t)
        /\ (\A t \in listed : Offered(j, t)) /\ \A i \in Jobs \ {j} : ~Listing(i)
    BY <1>1, <2>2 DEF AllWhole, Whole
  <2>4. \A t : Offered(j, t) => Offered(j, t)'
    BY <2>1 DEF Offered
  <2>5. ASSUME NEW t \in ts \ listed PROVE Offered(j, t)'
    <3>1. <<t, job[j].at>> \in offer'[j]
      BY <2>1
    <3> QED
      BY <3>1 DEF Offered
  <2> QED
    BY <1>2, <2>1, <2>3, <2>4, <2>5
<1>4. CASE k # j
  <2>1. seen'[k] = seen[k] /\ offer'[k] = offer[k]
    BY <1>4 DEF OfferTools, TypeOK
  <2>2. alone[k] => ~Listing(k)
    BY <1>1, <1>4 DEF AllWhole, Whole
  <2> QED
    BY <1>1, <1>2, <2>1, <2>2 DEF AllWhole, Whole, Offered
<1> QED
  BY <1>3, <1>4

(* What a step leaves of the offers.                                       *)
Remains(k) ==
    /\ alone'[k] => alone[k] /\ seen'[k] = seen[k] /\ offer'[k] = offer[k]
    /\ listed' = listed

LEMMA RemainsSo ==
    ASSUME TypeOK, NEW j \in Jobs, Step(j), ~StartTurn(j), ~OfferTools(j), NEW k \in Jobs
    PROVE  Remains(k)
<1>1. CASE EndTurn(j) \/ Cancel(j)
  BY <1>1 DEF EndTurn, Cancel, Forget, Remains, maps, TypeOK
<1>2. CASE UNCHANGED <<alone, seen, offer, listed>>
  BY <1>2 DEF Remains
<1>3. CASE ListAnswered(j) \/ ConnectFails(j) \/ Route(j)
  BY <1>2, <1>3 DEF ListAnswered, ConnectFails, Route, maps, turns
<1> QED
  BY <1>1, <1>2, <1>3, Zenon DEF Step, Visit, OfferEnds, ConnectGone, ConnectLocal, SendInitialize,
     InitializeAnswered, SendList, Refuse, Lose, CallTool, RouteEnds, ParseArguments, FindServer,
     CallConnected, SendCall, CallAnswered, CallFails, StartCommand, StartConnect, Show, maps,
     turns

LEMMA WholeStep ==
    ASSUME TypeOK, AllAsk, AllWhole, [Next]_vars
    PROVE  AllWhole'
<1>1. ASSUME NEW k \in Jobs, Remains(k), \A i \in Jobs : Listing(i)' => Listing(i)
      PROVE  Whole(k)'
  BY <1>1 DEF AllWhole, Whole, Offered, Remains
<1>2. ASSUME NEW j \in Jobs, Step(j), NEW k \in Jobs PROVE Whole(k)'
  BY <1>1, <1>2, StartKeepsWhole, OfferKeepsWhole, RemainsSo, ListingOf
<1>3. ASSUME NEW s \in Remote, RestartServer(s), NEW k \in Jobs PROVE Whole(k)'
  <2>1. \A i \in Jobs : Listing(i)' => Listing(i)
    BY <1>3, RestartSo DEF Listing, Place
  <2> QED
    BY <1>1, <1>3, <2>1, Zenon DEF RestartServer, Remains, maps, turns
<1>4. CASE UNCHANGED <<job, alone, seen, offer, listed>>
  BY <1>4 DEF AllWhole, Whole, Offered, Listing
<1>5. CASE Die
  BY <1>5 DEF Die, AllWhole, Whole
<1> QED
  BY <1>2, <1>3, <1>4, <1>5, Zenon DEF Next, SaveServer, DeleteServer, AllWhole, vars, maps, turns

(* A turn nobody else listed tools beside is offered each tool it saw.     *)
THEOREM OffersAreComplete == Spec => []CompleteOffer
<1>1. Init => AllAsk /\ AllWhole
  BY DEF Init, Idle, AllAsk, Asks, AllWhole, Whole
<1>2. TypeOK /\ AllAsk /\ AllWhole /\ [Next]_vars => (AllAsk /\ AllWhole)'
  BY AskStep, WholeStep
<1>3. AllWhole => CompleteOffer
  BY DEF AllWhole, Whole, Offered, CompleteOffer
<1> QED
  BY <1>1, <1>2, <1>3, TypeCorrect, PTL DEF Spec

-----------------------------------------------------------------------------
-----------------------------------------------------------------------------
Within(rows, s) == \E i \in DOMAIN rows : rows[i] = s

LEMMA SecondPart ==
    ASSUME NEW a \in Seq(Ids), NEW b \in Seq(Ids), NEW n \in 1 .. Len(b)
    PROVE  Len(a) + n \in DOMAIN (a \o b) /\ (a \o b)[Len(a) + n] = b[n]
  OBVIOUS

(* What a table keeps when a row is put in front, deleted or worked off.   *)
LEMMA RowsStay ==
    ASSUME NEW rows \in Seq(Ids), NEW s \in Ids, Within(rows, s)
    PROVE  /\ \A x \in Ids : Within(<<x>> \o rows, s)
           /\ Within(WithLocal(rows), s)
           /\ \A i \in DOMAIN rows : rows[i] # s => Within(RemoveAt(rows, i), s)
           /\ rows # <<>> /\ (Head(rows) # s => Within(Tail(rows), s))
<1>1. PICK m \in 1 .. Len(rows) : rows[m] = s
  BY DEF Within
<1>2. ASSUME NEW x \in Ids PROVE Within(<<x>> \o rows, s)
  <2>1. m + 1 \in DOMAIN (<<x>> \o rows) /\ (<<x>> \o rows)[m + 1] = s
    BY <1>1
  <2> QED
    BY <2>1, Zenon DEF Within
<1>3. Within(WithLocal(rows), s)
  BY <1>2, NamesType DEF WithLocal
<1>4. ASSUME NEW i \in DOMAIN rows, rows[i] # s PROVE Within(RemoveAt(rows, i), s)
  <2> DEFINE a == SubSeq(rows, 1, i - 1)
             b == SubSeq(rows, i + 1, Len(rows))
  <2>1. /\ i \in 1 .. Len(rows) /\ m # i
        /\ a \in Seq(Ids) /\ Len(a) = i - 1 /\ b \in Seq(Ids) /\ Len(b) = Len(rows) - i
        /\ \A n \in 1 .. i - 1 : a[n] = rows[n]
        /\ \A n \in 1 .. Len(rows) - i : b[n] = rows[i + n]
    <3>1. i \in 1 .. Len(rows) /\ m # i
      BY <1>1, <1>4
    <3>2. a \in Seq(Ids) /\ Len(a) = i - 1 /\ \A n \in 1 .. i - 1 : a[n] = rows[n]
      BY <3>1
    <3>3. b \in Seq(Ids) /\ Len(b) = Len(rows) - i
      BY <3>1
    <3>4. \A n \in 1 .. Len(rows) - i : b[n] = rows[i + n]
      BY <3>1
    <3> QED
      BY <3>1, <3>2, <3>3, <3>4
  <2> HIDE DEF a, b
  <2>2. CASE m < i
    <3>1. m \in DOMAIN (a \o b) /\ (a \o b)[m] = s
      BY <1>1, <2>1, <2>2
    <3> QED
      BY <3>1, Zenon DEF Within, RemoveAt, a, b
  <2>3. CASE m > i
    <3>1. m - i \in 1 .. Len(rows) - i /\ b[m - i] = s
      BY <1>1, <2>1, <2>3
    <3>2. m - 1 \in DOMAIN (a \o b) /\ (a \o b)[m - 1] = s
      <4>1. \A n \in 1 .. Len(b) : /\ Len(a) + n \in DOMAIN (a \o b)
                                  /\ (a \o b)[Len(a) + n] = b[n]
        <5>1. a \in Seq(Ids) /\ b \in Seq(Ids)
          BY <2>1
        <5> QED
          BY <5>1, SecondPart
      <4>2. Len(a) + (m - i) = m - 1 /\ m - i \in 1 .. Len(b)
        BY <2>1, <3>1
      <4> QED
        BY <3>1, <4>1, <4>2, Zenon
    <3> QED
      BY <3>2, Zenon DEF Within, RemoveAt, a, b
  <2> QED
    BY <1>1, <2>1, <2>2, <2>3
<1>5. rows # <<>>
  BY <1>1
<1>6. ASSUME Head(rows) # s PROVE Within(Tail(rows), s)
  <2>1. m - 1 \in DOMAIN Tail(rows) /\ Tail(rows)[m - 1] = s
    BY <1>1, <1>6
  <2> QED
    BY <2>1, Zenon DEF Within
<1> QED
  BY <1>2, <1>3, <1>4, <1>5, <1>6

LEMMA HeadWithin ==
    ASSUME NEW rows \in Seq(Ids), rows # <<>>
    PROVE  /\ Head(rows) \in Ids /\ Within(rows, Head(rows)) /\ Tail(rows) \in Seq(Ids)
           /\ \A s : Within(Tail(rows), s) => Within(rows, s)
<1>1. Head(rows) = rows[1] /\ 1 \in DOMAIN rows
  OBVIOUS
<1>2. ASSUME NEW i \in DOMAIN Tail(rows) PROVE i + 1 \in DOMAIN rows /\ Tail(rows)[i] = rows[i + 1]
  OBVIOUS
<1> QED
  BY <1>1, <1>2 DEF Within

(* What is known of a server that is not shaken stays true.                *)
Kept(k) ==
    /\ shaken[k] \subseteq shaken'[k]
    /\ \A s \in Ids : \/ s \in shaken'[k]
                      \/ /\ conn[s].tools \subseteq conn'[s].tools
                         /\ Within(servers, s) => Within(servers', s)

Sound ==
    /\ \A s \in Ids : conn[s].is = "disconnected" => conn[s].tools = {}
    /\ conn[Local].tools \subseteq lists[Local]

LEMMA SameKept ==
    ASSUME TypeOK, UNCHANGED <<conn, shaken>>,
           servers' = servers \/ servers' = WithLocal(servers), NEW k
    PROVE  Kept(k)
  BY RowsStay DEF Kept, TypeOK

LEMMA ShakeKept ==
    ASSUME TypeOK, NEW s \in Ids, NEW k \in Jobs, Shake(s), ~At(k, "idle"),
           \A i \in Ids \ {s} : conn'[i] = conn[i] /\ (Within(servers, i) => Within(servers', i))
    PROVE  Kept(k)
<1>1. shaken'[k] = shaken[k] \cup {s}
  BY DEF Shake
<1>2. ASSUME NEW i \in Ids
      PROVE  \/ i \in shaken'[k]
             \/ /\ conn[i].tools \subseteq conn'[i].tools
                /\ Within(servers, i) => Within(servers', i)
  <2>1. CASE i = s
    BY <1>1, <2>1
  <2>2. CASE i # s
    BY <2>2
  <2> QED
    BY <2>1, <2>2
<1> QED
  BY <1>1, <1>2 DEF Kept

LEMMA StepKept ==
    ASSUME TypeOK, Sound, NEW j \in Jobs, Step(j), NEW k \in Jobs, ~At(k, "idle"),
           k = j => ~EndTurn(j) /\ ~Cancel(j)
    PROVE  Kept(k)
<1>0. job[j].at \in Ids /\ servers \in Seq(Ids)
  BY FieldsType DEF TypeOK
<1>1. CASE /\ UNCHANGED <<conn, shaken>>
           /\ servers' = servers \/ servers' = WithLocal(servers)
  BY <1>1, SameKept
<1>2. CASE StartTurn(j)
  <2>1. shaken'[k] = shaken[k] /\ conn' = conn /\ servers' = WithLocal(servers)
    BY <1>2 DEF StartTurn, Begins, At, net, TypeOK
  <2> QED
    BY <1>0, <2>1, RowsStay DEF Kept
<1>3. CASE ConnectLocal(j)
  <2>1. /\ conn' = [conn EXCEPT ![Local] = Connected(lists[Local])]
        /\ UNCHANGED <<servers, shaken>>
    BY <1>3 DEF ConnectLocal, table, turns
  <2>2. conn'[Local].tools = lists[Local]
    BY <2>1, NamesType DEF TypeOK, Connected
  <2>3. \A s \in Ids : conn[s].tools \subseteq conn'[s].tools
    BY <2>1, <2>2 DEF TypeOK, Sound
  <2> QED
    BY <2>1, <2>3 DEF Kept
<1>4. CASE ListAnswered(j)
  <2> DEFINE a == job[j].at
  <2>1. /\ conn' = [conn EXCEPT ![a] = Connected(lists[a])] /\ servers' = servers
        /\ (conn[a].tools \subseteq lists[a] /\ shaken' = shaken) \/ Shake(a)
    BY <1>4 DEF ListAnswered, table
  <2>2. \A i \in Ids : i # a => conn'[i] = conn[i]
    BY <2>1 DEF TypeOK
  <2>3. conn'[a].tools = lists[a]
    BY <1>0, <2>1, Zenon DEF TypeOK, Connected
  <2>4. CASE Shake(a)
    BY <1>0, <2>1, <2>2, <2>4, ShakeKept
  <2>5. CASE conn[a].tools \subseteq lists[a] /\ shaken' = shaken
    BY <2>1, <2>2, <2>3, <2>5 DEF Kept
  <2> QED
    BY <2>1, <2>4, <2>5
<1>5. CASE ConnectFails(j) \/ Cancel(j)
  <2>1. /\ \/ conn' = [conn EXCEPT ![job[j].at] = Failed] /\ Shake(job[j].at)
           \/ UNCHANGED <<conn, shaken>>
        /\ servers' = servers
    BY <1>5 DEF ConnectFails, Cancel, table
  <2>2. CASE conn' = [conn EXCEPT ![job[j].at] = Failed] /\ Shake(job[j].at)
    <3>1. \A i \in Ids \ {job[j].at} : conn'[i] = conn[i]
      BY <2>2 DEF TypeOK
    <3> QED
      BY <1>0, <2>1, <2>2, <3>1, ShakeKept
  <2> QED
    BY <1>1, <2>1, <2>2
<1>6. CASE EndTurn(j) /\ k # j
  <2>1. shaken'[k] = shaken[k] /\ conn' = conn /\ servers' = servers
    BY <1>6 DEF EndTurn, net, table, TypeOK
  <2> QED
    BY <2>1 DEF Kept
<1>7. CASE OfferTools(j) \/ Route(j) \/ FindServer(j)
  BY <1>1, <1>7, Zenon DEF OfferTools, Route, FindServer, table, net, turns
<1>8. ASSUME NEW t \in Tools, CallTool(j, t) \/ StartCommand(j, t) PROVE Kept(k)
  BY <1>1, <1>8 DEF CallTool, StartCommand, net, turns
<1>9. CASE \/ Visit(j) \/ OfferEnds(j) \/ ConnectGone(j) \/ SendInitialize(j)
            \/ InitializeAnswered(j) \/ SendList(j) \/ Refuse(j) \/ Lose(j) \/ RouteEnds(j)
            \/ ParseArguments(j) \/ CallConnected(j) \/ SendCall(j) \/ CallAnswered(j)
            \/ CallFails(j) \/ Show(j) \/ \E s \in Ids : StartConnect(j, s)
  <2>1. UNCHANGED <<servers, conn, shaken>>
    BY <1>9, Zenon DEF Visit, OfferEnds, ConnectGone, SendInitialize, InitializeAnswered, SendList,
       Refuse, Lose, RouteEnds, ParseArguments, CallConnected, SendCall, CallAnswered, CallFails,
       Show, StartConnect, table, net, turns
  <2> QED
    BY <1>1, <2>1
<1> QED
  BY <1>2, <1>3, <1>4, <1>5, <1>6, <1>7, <1>8, <1>9 DEF Step

LEMMA EventKept ==
    ASSUME TypeOK, NEW k \in Jobs, ~At(k, "idle"),
           \/ \E s \in Remote : SaveServer(s) \/ RestartServer(s)
           \/ \E s \in Ids : DeleteServer(s)
    PROVE  Kept(k)
<1>0. servers \in Seq(Ids) /\ Remote \subseteq Ids
  BY DEF TypeOK, Ids
<1>1. ASSUME NEW s \in Remote, SaveServer(s) PROVE Kept(k)
  <2>1. ASSUME NEW x \in Ids, Within(servers, x) PROVE Within(servers', x)
    <3>1. CASE servers' = <<s>> \o servers
      BY <1>0, <2>1, <3>1, RowsStay
    <3>2. ASSUME NEW i \in DOMAIN servers, servers[i] = s,
                 servers' = <<s>> \o RemoveAt(servers, i)
          PROVE  Within(servers', x)
      <4> DEFINE rest == RemoveAt(servers, i)
      <4>1. rest \in Seq(Ids)
        BY <1>0, RowsType
      <4>2. x = s \/ Within(rest, x)
        BY <1>0, <2>1, <3>2, RowsStay
      <4> HIDE DEF rest
      <4>3. Within(<<s>> \o rest, s)
        <5>1. 1 \in DOMAIN (<<s>> \o rest) /\ (<<s>> \o rest)[1] = s
          BY <4>1
        <5> QED
          BY <5>1 DEF Within
      <4>4. Within(rest, x) => Within(<<s>> \o rest, x)
        BY <1>0, <4>1, RowsStay
      <4> QED
        BY <3>2, <4>2, <4>3, <4>4 DEF rest
    <3> QED
      BY <1>1, <3>1, <3>2, Zenon DEF SaveServer
  <2>2. UNCHANGED <<conn, shaken>>
    BY <1>1 DEF SaveServer, net, turns
  <2> QED
    BY <2>1, <2>2 DEF Kept
<1>2. ASSUME NEW s \in Remote, RestartServer(s) PROVE Kept(k)
  BY <1>2, SameKept, Zenon DEF RestartServer, turns
<1>3. ASSUME NEW s \in Ids, DeleteServer(s) PROVE Kept(k)
  <2>1. ASSUME NEW x \in Ids, x # s, Within(servers, x) PROVE Within(servers', x)
    BY <1>0, <1>3, <2>1, RowsStay DEF DeleteServer
  <2>2. \A i \in Ids : i # s => conn'[i] = conn[i]
    BY <1>3 DEF DeleteServer, TypeOK
  <2>3. Shake(s)
    BY <1>3 DEF DeleteServer
  <2>4. \A i \in Ids \ {s} : conn'[i] = conn[i] /\ (Within(servers, i) => Within(servers', i))
    BY <2>1, <2>2
  <2> QED
    BY <2>3, <2>4, ShakeKept
<1> QED
  BY <1>1, <1>2, <1>3

LEMMA SoundStep ==
    ASSUME TypeOK, Sound, [Next]_vars
    PROVE  Sound'
<1>0. Local \in Ids /\ \A j \in Jobs : job[j].at \in Ids
  BY NamesType, FieldsType
<1>1. ASSUME NEW s \in Ids, NEW c, UNCHANGED lists, conn' = [conn EXCEPT ![s] = c],
             c \in {Disconnected, Failed, Connected(lists[s])}
      PROVE  Sound'
  <2>1. \A i \in Ids : conn'[i] = IF i = s THEN c ELSE conn[i]
    BY <1>1 DEF TypeOK
  <2>2. /\ c.is = "disconnected" => c.tools = {}
        /\ c.tools \subseteq lists[s]
    BY <1>1 DEF Disconnected, Failed, Connected
  <2> QED
    BY <1>0, <1>1, <2>1, <2>2 DEF Sound
<1>2. CASE UNCHANGED <<conn, lists>>
  BY <1>2 DEF Sound
<1>3. ASSUME NEW j \in Jobs, Step(j) PROVE Sound'
  <2>1. CASE ConnectLocal(j) \/ ListAnswered(j) \/ ConnectFails(j)
    <3>1. CASE ConnectLocal(j)
      BY <1>0, <1>1, <3>1, Zenon DEF ConnectLocal, table
    <3>2. CASE ListAnswered(j)
      BY <1>0, <1>1, <3>2, Zenon DEF ListAnswered, table
    <3>3. CASE ConnectFails(j)
      BY <1>0, <1>1, <3>3, Zenon DEF ConnectFails, table
    <3> QED
      BY <2>1, <3>1, <3>2, <3>3
  <2>2. CASE Cancel(j)
    BY <1>0, <1>1, <1>2, <2>2 DEF Cancel, table
  <2>3. CASE \/ Visit(j) \/ OfferTools(j) \/ OfferEnds(j) \/ ConnectGone(j)
             \/ SendInitialize(j) \/ InitializeAnswered(j) \/ SendList(j) \/ Refuse(j) \/ Lose(j)
             \/ Route(j) \/ RouteEnds(j) \/ ParseArguments(j) \/ CallConnected(j) \/ SendCall(j)
             \/ CallAnswered(j) \/ CallFails(j) \/ EndTurn(j) \/ Show(j)
             \/ \E s \in Ids : StartConnect(j, s)
    <3>1. UNCHANGED <<conn, lists>>
      BY <2>3, Zenon
         DEF Visit, OfferTools, OfferEnds, ConnectGone, SendInitialize, InitializeAnswered,
         SendList, Refuse, Lose, Route, RouteEnds, ParseArguments, CallConnected, SendCall,
         CallAnswered, CallFails, EndTurn, Show, StartConnect, table, net
    <3> QED
      BY <1>2, <3>1
  <2>4. CASE StartTurn(j) \/ FindServer(j) \/ \E t \in Tools : CallTool(j, t) \/ StartCommand(j, t)
    <3>1. UNCHANGED <<conn, lists>>
      BY <2>4, Zenon DEF StartTurn, Begins, FindServer, CallTool, StartCommand, net
    <3> QED
      BY <1>2, <3>1
  <2> QED
    BY <1>3, <2>1, <2>2, <2>3, <2>4 DEF Step
<1>4. ASSUME NEW s \in Remote, RestartServer(s) PROVE Sound'
  <2>1. PICK menu \in Menus : lists' = [lists EXCEPT ![s] = menu]
    BY <1>4, Zenon DEF RestartServer
  <2>2. lists'[Local] = lists[Local]
    BY Bounds, <1>0, <2>1 DEF TypeOK
  <2>3. conn' = conn
    BY <1>4, Zenon DEF RestartServer
  <2> QED
    BY <2>2, <2>3 DEF Sound
<1>5. ASSUME NEW s \in Ids, DeleteServer(s) PROVE Sound'
  BY <1>1, <1>5, Zenon DEF DeleteServer
<1>6. CASE Die
  BY <1>6, NamesType DEF Die, Disconnected, Sound, table
<1> QED
  BY <1>2, <1>3, <1>4, <1>5, <1>6 DEF Next, SaveServer, net, vars

-----------------------------------------------------------------------------
(* Why an offered tool is found: it is known of its server, which is in    *)
(* the table, and who looks for it has that server still before it, unless *)
(* the server was shaken since the turn began.                             *)
Blank(j) ==
    /\ job[j].pc = "idle" => job[j].then = "show"
    /\ job[j].then = "show" => offer[j] = {}
    /\ job[j].then = "offer" => job[j].outcome = "none"

OfferKnown(j) ==
    \A o \in offer[j] :
        o[2] \in shaken[j] \/ (o[1] \in conn[o[2]].tools /\ Within(servers, o[2]))

TodoKnown(j) ==
    job[j].then = "offer" =>
        \A s \in Ids : Within(job[j].todo, s) => s \in shaken[j] \/ Within(servers, s)

ToolsKnown(j) ==
    job[j].then = "offer" /\ job[j].pc = "have" =>
        job[j].at \in shaken[j] \/ job[j].tools \subseteq conn[job[j].at].tools

Ahead(j) ==
    job[j].then = "route" =>
        \A o \in offer[j] : o[1] = job[j].tool /\ o[2] \notin shaken[j] =>
            /\ Within(job[j].todo, o[2])
            /\ job[j].pc # "visit" /\ job[j].at = o[2] =>
                   job[j].pc = "have" /\ job[j].tool \in job[j].tools

Missed(j) ==
    job[j].outcome = "unknown" =>
        \A o \in offer[j] : o[1] = job[j].tool => o[2] \in shaken[j]

Found(j) ==
    /\ Blank(j) /\ OfferKnown(j) /\ TodoKnown(j)
    /\ ToolsKnown(j) /\ Ahead(j) /\ Missed(j)

AllFound == \A j \in Jobs : Found(j)

LEMMA OffersType ==
    ASSUME TypeOK, NEW j \in Jobs, NEW o \in offer[j]
    PROVE  o[1] \in Tools /\ o[2] \in Ids
  BY DEF TypeOK

(* What is known is kept while the offer stays the same.                   *)
LEMMA KnownKept ==
    ASSUME TypeOK, NEW k \in Jobs, Found(k), job[k].then = "show" \/ Kept(k), offer'[k] = offer[k]
    PROVE  OfferKnown(k)'
<1>1. CASE job[k].then = "show"
  BY <1>1 DEF Found, Blank, OfferKnown
<1>2. CASE Kept(k)
  BY <1>2, OffersType DEF Found, OfferKnown, Kept
<1> QED
  BY <1>1, <1>2

(* A job that does not change in what counts here.                         *)
LEMMA FoundKept ==
    ASSUME TypeOK, NEW k \in Jobs, Found(k), job[k].then = "show" \/ Kept(k), offer'[k] = offer[k],
           Place(job'[k], job[k].pc, job[k].then, job[k].at, job[k].todo),
           Use(job'[k], job[k].tool, job[k].tools, job[k].outcome)
    PROVE  Found(k)'
<1>1. OfferKnown(k)'
  BY KnownKept
<1>2. Blank(k)'
  BY DEF Found, Blank, Place, Use
<1>3. CASE job[k].then = "show"
  BY <1>1, <1>2, <1>3 DEF Found, Blank, TodoKnown, ToolsKnown, Ahead, Missed, Place
<1>4. CASE Kept(k)
  <2>1. TodoKnown(k)'
    BY <1>4 DEF Found, TodoKnown, Kept, Place
  <2>2. ToolsKnown(k)'
    BY <1>4, FieldsType DEF Found, ToolsKnown, Kept, Place, Use
  <2>3. Ahead(k)'
    BY <1>4 DEF Found, Ahead, Kept, Place, Use
  <2>4. Missed(k)'
    BY <1>4 DEF Found, Missed, Kept, Use
  <2> QED
    BY <1>1, <1>2, <2>1, <2>2, <2>3, <2>4 DEF Found
<1> QED
  BY <1>3, <1>4

(* A job that calls a tool, or thinks, with the offer it had.              *)
LEMMA FoundCalling ==
    ASSUME TypeOK, NEW j \in Jobs, Found(j), job[j].then = "show" \/ Kept(j), offer'[j] = offer[j],
           job'[j].pc # "idle", job'[j].then \notin {"offer", "route"},
           job'[j].then = "show" => job[j].then = "show",
           \/ job'[j].outcome # "unknown"
           \/ job'[j].outcome = job[j].outcome /\ job'[j].tool = job[j].tool
    PROVE  Found(j)'
<1>1. OfferKnown(j)'
  BY KnownKept
<1>2. Missed(j)'
  BY DEF Found, Blank, Missed, Kept
<1> QED
  BY <1>1, <1>2 DEF Found, Blank, TodoKnown, ToolsKnown, Ahead

(* A job without an offer.                                                 *)
LEMMA FoundNothing ==
    ASSUME NEW j \in Jobs, offer'[j] = {}, job'[j].then \in {"show", "call"},
           job'[j].pc = "idle" => job'[j].then = "show"
    PROVE  Found(j)'
  BY DEF Found, Blank, OfferKnown, TodoKnown, ToolsKnown, Ahead, Missed

(* Offers are made by OfferTools and given up at the start and the end.    *)
LEMMA OffersStay ==
    ASSUME TypeOK, NEW j \in Jobs, Step(j), NEW k \in Jobs, ~OfferTools(j) \/ k # j,
           k = j => ~StartTurn(j) /\ ~EndTurn(j) /\ ~Cancel(j)
    PROVE  offer'[k] = offer[k]
<1>1. CASE StartTurn(j) \/ OfferTools(j) \/ EndTurn(j) \/ Cancel(j)
  BY <1>1, Zenon DEF StartTurn, Begins, OfferTools, EndTurn, Cancel, Forget, TypeOK
<1>2. CASE UNCHANGED offer
  BY <1>2
<1>3. CASE ListAnswered(j) \/ ConnectFails(j) \/ Route(j)
  BY <1>2, <1>3 DEF ListAnswered, ConnectFails, Route, turns
<1> QED
  BY <1>1, <1>2, <1>3, Zenon DEF Step, Visit, OfferEnds, ConnectGone, ConnectLocal, SendInitialize,
     InitializeAnswered, SendList, Refuse, Lose, CallTool, RouteEnds, ParseArguments, FindServer,
     CallConnected, SendCall, CallAnswered, CallFails, StartCommand, StartConnect, Show, turns

(* While a job connects for an offer or a call, only its place changes.    *)
LEMMA FoundConnecting ==
    ASSUME TypeOK, AllAsk, NEW j \in Jobs, Found(j), job[j].then = "show" \/ Kept(j),
           offer'[j] = offer[j], NEW p \in Pcs, NEW ts \in SUBSET Tools,
           job[j].pc \notin {"idle", "visit", "have"}, p \notin {"idle", "visit"},
           Place(job'[j], p, job[j].then, job[j].at, job[j].todo),
           Use(job'[j], job[j].tool, ts, job[j].outcome),
           p = "have" => job[j].at \in shaken'[j] \/ ts \subseteq conn'[job[j].at].tools
    PROVE  Found(j)'
<1>1. OfferKnown(j)'
  BY KnownKept
<1>2. Blank(j)'
  BY DEF Found, Blank, Place, Use
<1>3. CASE job[j].then = "show"
  BY <1>1, <1>2, <1>3 DEF Found, Blank, TodoKnown, ToolsKnown, Ahead, Missed, Place
<1>4. CASE Kept(j)
  <2>1. TodoKnown(j)'
    BY <1>4 DEF Found, TodoKnown, Kept, Place
  <2>2. ToolsKnown(j)'
    BY DEF ToolsKnown, Place, Use
  <2>3. Ahead(j)'
    BY <1>4 DEF Found, Ahead, Kept, Place, Use
  <2>4. Missed(j)'
    BY <1>4 DEF Found, Missed, Kept, Use
  <2> QED
    BY <1>1, <1>2, <2>1, <2>2, <2>3, <2>4 DEF Found
<1> QED
  BY <1>3, <1>4

(* What a step makes of the job that takes it.                             *)
LEMMA FoundSelf ==
    ASSUME TypeOK, AllAsk, Sound, NEW j \in Jobs, Found(j), Step(j)
    PROVE  Found(j)'
<1> DEFINE a == job[j].at
<1>0. /\ a \in Ids /\ job[j].todo \in Seq(Ids) /\ job[j].tools \in SUBSET Tools
      /\ servers \in Seq(Ids) /\ lists[a] \in SUBSET Tools
  BY FieldsType DEF TypeOK
<1>a. Asks(j)
  BY DEF AllAsk
<1>1. CASE StartTurn(j)
  <2>1. offer'[j] = {} /\ shaken'[j] = {} /\ servers' = WithLocal(servers)
    BY <1>1 DEF StartTurn, Begins, TypeOK
  <2>2. /\ Place(job'[j], "visit", "offer", Local, servers')
        /\ job'[j].outcome = "none"
    BY <1>1, ListChanges, Zenon DEF Use
  <2> QED
    BY <2>1, <2>2 DEF Place, Found, Blank, OfferKnown, TodoKnown, ToolsKnown, Ahead, Missed
<1>2. CASE Visit(j)
  <2> DEFINE s == Head(job[j].todo)
  <2>1. /\ At(j, "visit") /\ job[j].todo # <<>> /\ conn' = conn /\ servers' = servers
        /\ shaken' = shaken /\ offer' = offer
    BY <1>2 DEF Visit, table, net, turns
  <2>2. \E p \in {"connect", "have"} :
            /\ p = "connect" => conn[s].is = "disconnected"
            /\ Place(job'[j], p, job[j].then, s, job[j].todo)
            /\ Use(job'[j], job[j].tool, conn[s].tools, job[j].outcome)
    BY <1>2, ListChanges, Zenon DEF AfterVisit
  <2>3. s \in Ids
    BY <1>0, <2>1, HeadWithin
  <2> HIDE DEF s
  <2>4. Blank(j)' /\ OfferKnown(j)' /\ TodoKnown(j)' /\ Missed(j)'
    BY <2>1, <2>2 DEF Found, Blank, OfferKnown, TodoKnown, Missed, Place, Use
  <2>5. ToolsKnown(j)'
    BY <2>1, <2>2 DEF ToolsKnown, Place, Use
  <2>6. ASSUME NEW o \in offer[j], job[j].then = "route", o[1] = job[j].tool,
               o[2] \notin shaken[j]
        PROVE  /\ Within(job[j].todo, o[2])
               /\ s = o[2] => job'[j].pc = "have" /\ job[j].tool \in conn[s].tools
    <3>1. Within(job[j].todo, o[2]) /\ o[1] \in conn[o[2]].tools
      BY <2>6 DEF Found, Ahead, OfferKnown
    <3>2. s = o[2] => conn[s].is # "disconnected"
      BY <2>3, <3>1 DEF Sound
    <3> QED
      BY <2>2, <2>6, <3>1, <3>2 DEF Place
  <2>7. Ahead(j)'
    BY <2>1, <2>2, <2>6 DEF Ahead, Place, Use
  <2> QED
    BY <2>4, <2>5, <2>7 DEF Found
<1>3. CASE OfferTools(j)
  <2>1. /\ At(j, "have") /\ job[j].then = "offer" /\ conn' = conn /\ servers' = servers
        /\ shaken' = shaken
    BY <1>3 DEF OfferTools, table, net
  <2>2. \A o \in offer'[j] : o \in offer[j] \/ (o[1] \in job[j].tools /\ o[2] = a)
    BY <1>3 DEF OfferTools, NewOf, TypeOK
  <2>3. Further(j)
    BY <1>3, ListChanges, Zenon
  <2>4. job[j].todo # <<>> /\ a = Head(job[j].todo)
    BY <1>a, <2>1 DEF Asks, At
  <2>5. a \in shaken[j] \/ (job[j].tools \subseteq conn[a].tools /\ Within(servers, a))
    BY <1>0, <2>1, <2>4, HeadWithin DEF Found, ToolsKnown, TodoKnown, At
  <2>6. OfferKnown(j)'
    BY <2>1, <2>2, <2>5 DEF Found, OfferKnown
  <2>7. TodoKnown(j)'
    BY <1>0, <2>1, <2>3, <2>4, HeadWithin DEF Found, TodoKnown, Further, Place
  <2> QED
    BY <2>1, <2>3, <2>6, <2>7
       DEF Found, Blank, ToolsKnown, Ahead, Missed, Further, Place, Use
<1>4. CASE EndTurn(j) \/ Cancel(j)
  <2>1. offer'[j] = {}
    BY <1>4 DEF EndTurn, Cancel, Forget, TypeOK
  <2> QED
    BY <1>4, <2>1, EndChanges, FoundNothing, Zenon DEF Place
<1>5. CASE At(j, "idle") /\ ~StartTurn(j)
  <2>1. job[j].pc = "idle" /\ ~OfferTools(j) /\ ~Cancel(j) /\ ~EndTurn(j)
    BY <1>5 DEF OfferTools, Cancel, EndTurn, At
  <2>2. offer'[j] = {}
    BY <1>5, <2>1, OffersStay DEF Found, Blank
  <2>3. \/ \E t \in Tools : StartCommand(j, t)
        \/ \E s \in Ids : StartConnect(j, s)
    BY <1>5, <2>1 DEF Step, At, Visit, OfferEnds, ConnectGone, ConnectLocal, SendInitialize,
       InitializeAnswered, SendList, ListAnswered, Refuse, Lose, ConnectFails, CallTool, Route,
       RouteEnds, ParseArguments, FindServer, CallConnected, SendCall, CallAnswered, CallFails,
       Show
  <2> QED
    BY <2>2, <2>3, CallChanges, FoundNothing DEF Place
<1>6. ASSUME ~At(j, "idle"), ~StartTurn(j), ~OfferTools(j), ~EndTurn(j), ~Cancel(j), ~Visit(j)
      PROVE  Found(j)'
  <2>1. offer'[j] = offer[j] /\ Kept(j)
    BY <1>6, OffersStay, StepKept
  <2>2. ASSUME NEW o, Thought(j, o), o # "unknown" PROVE Found(j)'
    BY <2>1, <2>2, FoundCalling DEF Thought, Place, Use
  <2>3. CASE OfferEnds(j) \/ CallAnswered(j) \/ CallFails(j)
    BY <2>2, <2>3, ListChanges, CallChanges
  <2>4. CASE Show(j)
    <3>1. offer[j] = {}
      BY <2>4 DEF Show, Found, Blank
    <3> QED
      BY <2>1, <2>4, <3>1, EndChanges, FoundNothing, Zenon DEF Place
  <2>5. CASE ConnectGone(j)
    <3>1. /\ Place(job'[j], "have", job[j].then, job[j].at, job[j].todo)
          /\ Use(job'[j], job[j].tool, {}, job[j].outcome) /\ job[j].pc = "connect"
      BY <2>5, ConnectChanges, Zenon DEF ConnectGone, At
    <3>2. "have" \in Pcs /\ {} \in SUBSET Tools /\ {} \subseteq conn'[a].tools
      BY NamesType
    <3> QED
      BY <2>1, <3>1, <3>2, FoundConnecting
  <2>6. CASE ConnectLocal(j)
    <3>1. /\ Place(job'[j], "have", job[j].then, job[j].at, job[j].todo)
          /\ Use(job'[j], job[j].tool, lists[Local], job[j].outcome)
          /\ job[j].pc = "connect" /\ a = Local
      BY <2>6, ConnectChanges, Zenon DEF ConnectLocal, At
    <3>2. conn'[Local].tools = lists[Local]
      BY <2>6, NamesType DEF ConnectLocal, Connected, TypeOK
    <3> QED
      BY <1>0, <2>1, <3>1, <3>2, FoundConnecting, NamesType, Zenon
  <2>7. CASE SendInitialize(j) \/ InitializeAnswered(j) \/ SendList(j)
    <3>1. \E p \in {"initSent", "inited", "listSent"} :
             /\ Place(job'[j], p, job[j].then, job[j].at, job[j].todo)
             /\ Use(job'[j], job[j].tool, job[j].tools, job[j].outcome)
      BY <2>7, ConnectChanges, Zenon
    <3>2. job[j].pc \in {"connect", "initSent", "inited"}
      BY <2>7 DEF SendInitialize, InitializeAnswered, SendList, At
    <3> QED
      BY <1>0, <2>1, <3>1, <3>2, FoundConnecting, NamesType, Zenon
  <2>8. CASE ListAnswered(j)
    <3>1. /\ Place(job'[j], "have", job[j].then, job[j].at, job[j].todo)
          /\ Use(job'[j], job[j].tool, lists[a], job[j].outcome) /\ job[j].pc = "listSent"
      BY <2>8, ConnectChanges, Zenon DEF ListAnswered, At
    <3>2. conn'[a].tools = lists[a]
      BY <1>0, <2>8 DEF ListAnswered, Connected, TypeOK
    <3>3. "have" \in Pcs /\ lists[a] \in SUBSET Tools /\ lists[a] \subseteq conn'[a].tools
      BY <1>0, <3>2, NamesType
    <3> QED
      BY <2>1, <3>1, <3>3, FoundConnecting, Zenon
  <2>9. CASE Refuse(j) \/ Lose(j)
    <3>1. \E p \in {"refused", "threw"} :
             /\ Place(job'[j], p, job[j].then, job[j].at, job[j].todo)
             /\ Use(job'[j], job[j].tool, job[j].tools, job[j].outcome)
      BY <2>9, ConnectChanges, Zenon DEF AfterError
    <3>2. job[j].pc \in {"initSent", "listSent", "callSent"}
      BY <2>9 DEF Refuse, Lose
    <3> QED
      BY <1>0, <2>1, <3>1, <3>2, FoundConnecting, NamesType, Zenon
  <2>10. CASE ConnectFails(j)
    <3>1. /\ Place(job'[j], "have", job[j].then, job[j].at, job[j].todo)
          /\ Use(job'[j], job[j].tool, {}, job[j].outcome) /\ job[j].pc = "threw"
      BY <2>10, ConnectChanges, Zenon DEF ConnectFails, At
    <3>2. "have" \in Pcs /\ {} \in SUBSET Tools /\ {} \subseteq conn'[a].tools
      BY NamesType
    <3> QED
      BY <2>1, <3>1, <3>2, FoundConnecting
  <2>11. CASE Route(j) /\ job[j].tool \in job[j].tools
    BY <2>1, <2>11, CallChanges, FoundCalling, Zenon DEF Place, Use
  <2>12. CASE Route(j) /\ job[j].tool \notin job[j].tools
    <3>1. Further(j) /\ At(j, "have") /\ job[j].then = "route"
      BY <2>12, CallChanges, Zenon DEF Route
    <3>2. job[j].todo # <<>> /\ a = Head(job[j].todo)
      BY <1>a, <3>1 DEF Asks, At
    <3>3. ASSUME NEW o \in offer[j], o[1] = job[j].tool, o[2] \notin shaken'[j]
          PROVE  Within(Tail(job[j].todo), o[2])
      <4>1. o[2] \notin shaken[j] /\ o[2] \in Ids
        BY <2>1, <3>3, OffersType DEF Kept
      <4>2. Within(job[j].todo, o[2]) /\ a # o[2]
        BY <2>12, <3>1, <3>3, <4>1 DEF Found, Ahead, At
      <4> QED
        BY <1>0, <3>2, <4>1, <4>2, RowsStay
    <3>4. Ahead(j)'
      BY <2>1, <3>1, <3>3 DEF Ahead, Further, Place, Use
    <3>5. OfferKnown(j)'
      BY <2>1, KnownKept
    <3>6. Missed(j)'
      BY <2>1, <3>1 DEF Found, Missed, Kept, Further, Use
    <3> QED
      BY <3>1, <3>4, <3>5, <3>6 DEF Found, Blank, TodoKnown, ToolsKnown, Further, Place
  <2>13. CASE RouteEnds(j)
    <3>1. /\ Thought(j, "unknown") /\ job[j].todo = <<>> /\ job[j].then = "route"
      BY <2>13, CallChanges, Zenon DEF RouteEnds
    <3>2. \A s : ~Within(<<>>, s)
      BY DEF Within
    <3>3. \A o \in offer[j] : o[1] = job[j].tool => o[2] \in shaken'[j]
      BY <2>1, <3>1, <3>2 DEF Found, Ahead, Kept
    <3>4. OfferKnown(j)'
      BY <2>1, KnownKept
    <3> QED
      BY <2>1, <3>1, <3>3, <3>4
         DEF Found, Blank, TodoKnown, ToolsKnown, Ahead, Missed, Thought, Place, Use
  <2>14. CASE ParseArguments(j) \/ FindServer(j) \/ CallConnected(j)
    <3>1. CASE \E o \in {"error", "no server"} : Thinks(j, o)
      BY <2>2, <3>1, ThinksSo
    <3>2. CASE ~\E o \in {"error", "no server"} : Thinks(j, o)
      <4>1. \E p \in {"find", "connect", "calling"} :
               /\ Place(job'[j], p, job[j].then, job[j].at, job[j].todo)
               /\ Use(job'[j], job[j].tool, job[j].tools, job[j].outcome)
        BY <2>14, <3>2, CallChanges
      <4>2. job[j].then \notin {"offer", "route"}
        BY <1>a, <2>14 DEF ParseArguments, FindServer, CallConnected, At, Asks
      <4> QED
        BY <2>1, <4>1, <4>2, FoundCalling DEF Place, Use
    <3> QED
      BY <3>1, <3>2
  <2>15. CASE SendCall(j)
    <3>1. job[j].then \notin {"offer", "route"}
      BY <1>a, <2>15 DEF SendCall, At, Asks
    <3> QED
      BY <2>1, <2>15, <3>1, CallChanges, FoundCalling, Zenon DEF Place, Use
  <2>16. ASSUME NEW t \in Tools, CallTool(j, t), routes[t] # None PROVE Found(j)'
    BY <2>1, <2>16, CallChanges, FoundCalling, Zenon DEF Place, Use
  <2>17. ASSUME NEW t \in Tools, CallTool(j, t), routes[t] = None PROVE Found(j)'
    <3>1. /\ Place(job'[j], "visit", "route", job[j].at, servers')
          /\ Use(job'[j], t, job[j].tools, "none")
      BY <2>17, CallChanges
    <3>2. servers' = WithLocal(servers)
      BY <2>17 DEF CallTool
    <3>3. OfferKnown(j)'
      BY <2>1, KnownKept
    <3>4. \A o \in offer'[j] : o[2] \notin shaken'[j] => Within(servers', o[2])
      BY <3>3 DEF OfferKnown
    <3> QED
      BY <3>1, <3>3, <3>4 DEF Found, Blank, TodoKnown, ToolsKnown, Ahead, Missed, Place, Use
  <2>18. ASSUME NEW t \in Tools, StartCommand(j, t) PROVE Found(j)'
    BY <1>6, <2>18 DEF StartCommand
  <2>19. ASSUME NEW s \in Ids, StartConnect(j, s) PROVE Found(j)'
    BY <1>6, <2>19 DEF StartConnect
  <2> QED
    BY <1>6, <2>3, <2>4, <2>5, <2>6, <2>7, <2>8, <2>9, <2>10, <2>11, <2>12, <2>13, <2>14, <2>15,
       <2>16, <2>17, <2>18, <2>19 DEF Step
<1> QED
  BY <1>1, <1>2, <1>3, <1>4, <1>5, <1>6

LEMMA FoundStep ==
    ASSUME TypeOK, AllAsk, Sound, AllFound, [Next]_vars
    PROVE  AllFound'
<1>1. \A k \in Jobs : Found(k) /\ (At(k, "idle") => job[k].then = "show")
  BY DEF AllFound, Found, Blank, At
<1>2. ASSUME NEW j \in Jobs, Step(j), NEW k \in Jobs PROVE Found(k)'
  <2>1. CASE k = j
    BY <1>1, <1>2, <2>1, FoundSelf
  <2>2. CASE k # j
    <3>1. offer'[k] = offer[k] /\ (job[k].then = "show" \/ Kept(k))
      BY <1>1, <1>2, <2>2, OffersStay, StepKept
    <3>2. /\ Place(job'[k], job[k].pc, job[k].then, job[k].at, job[k].todo)
          /\ Use(job'[k], job[k].tool, job[k].tools, job[k].outcome)
      BY <1>2, <2>2, OthersStay, Unsettles DEF Place, Use
    <3> QED
      BY <1>1, <3>1, <3>2, FoundKept
  <2> QED
    BY <2>1, <2>2
<1>3. ASSUME NEW k \in Jobs,
             \/ \E s \in Remote : SaveServer(s) \/ RestartServer(s)
             \/ \E s \in Ids : DeleteServer(s)
      PROVE  Found(k)'
  <2>1. job[k].then = "show" \/ Kept(k)
    BY <1>1, <1>3, EventKept
  <2>2. offer' = offer
    BY <1>3, Zenon DEF SaveServer, RestartServer, DeleteServer, turns
  <2>3. /\ Place(job'[k], job[k].pc, job[k].then, job[k].at, job[k].todo)
        /\ Use(job'[k], job[k].tool, job[k].tools, job[k].outcome)
    BY <1>3, RestartSo, Zenon DEF SaveServer, DeleteServer, Place, Use
  <2> QED
    BY <1>1, <2>1, <2>2, <2>3, FoundKept
<1>4. CASE Die
  BY <1>4 DEF Die, Idle, AllFound, Found, Blank, OfferKnown, TodoKnown, ToolsKnown, Ahead, Missed
<1>5. CASE UNCHANGED vars
  BY <1>5 DEF vars, AllFound, Found, Blank, OfferKnown, TodoKnown, ToolsKnown, Ahead, Missed, Within
<1> QED
  BY <1>2, <1>3, <1>4, <1>5 DEF Next, AllFound

(* A tool that was offered is found again when it is called, unless its    *)
(* server has been deleted, has failed or has lost tools since the turn    *)
(* began, whatever the other jobs do.                                      *)
THEOREM OffersAreFound == Spec => []OfferedIsFound
<1>1. Init => AllAsk /\ Sound /\ AllFound
  <2> SUFFICES ASSUME Init PROVE AllAsk /\ Sound /\ AllFound
    OBVIOUS
  <2>1. AllAsk
    BY Zenon DEF Init, Idle, AllAsk, Asks
  <2>2. Sound
    BY NamesType DEF Init, Disconnected, Sound
  <2>3. AllFound
    BY DEF Init, Idle, AllFound, Found, Blank, OfferKnown, TodoKnown, ToolsKnown, Ahead, Missed
  <2> QED
    BY <2>1, <2>2, <2>3
<1>2. TypeOK /\ AllAsk /\ Sound /\ AllFound /\ [Next]_vars => (AllAsk /\ Sound /\ AllFound)'
  BY AskStep, SoundStep, FoundStep
<1>3. AllFound => OfferedIsFound
  BY DEF AllFound, Found, Missed, OfferedIsFound
<1> QED
  BY <1>1, <1>2, <1>3, TypeCorrect, PTL DEF Spec
=============================================================================
