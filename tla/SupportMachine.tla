---------------------------- MODULE SupportMachine ----------------------------
(***************************************************************************)
(* The second state machine of TaskWorker: a request to the support, from  *)
(* INIT (who is it?) over PLANNING (which ticket?), EXECUTION and          *)
(* VERIFICATION to DONE.  Its handlers keep facts in a StateStore, as      *)
(* those of TaskMachine do, and the tickets at the CRM server, which is    *)
(* asked over HTTP: of a request that fails nobody knows whether it was    *)
(* carried out, and one that the server refuses counts as a success, as    *)
(* only the body of an answer is looked at and an update has none.         *)
(***************************************************************************)
EXTENDS Integers, Sequences

CONSTANTS
    Jobs,           \* coroutines of one chat
    MaxTickets,     \* bound: tickets the server has room for
    Others,         \* tickets of other chats
    Absent,         \* no fact under the key
    Overlap         \* may a job start before the others have ended?

States == {"init", "planning", "execution", "verification", "done"}

Tickets == 1 .. MaxTickets

NoTicket == 0

OrNone == Tickets \cup {NoTicket}

ASSUME SupportAssumption ==
    /\ MaxTickets \in Nat
    /\ Others \subseteq Tickets
    /\ Absent \notin States /\ Absent \notin OrNone
    /\ Overlap \in BOOLEAN

VARIABLES
    facts,          \* the facts of the agent
    tickets,        \* the status of each ticket of the server
    job             \* where each coroutine is

vars == <<facts, tickets, job>>

Status == {"none", "open", "closed", "operator"}

Mine == Tickets \ Others

(* Buttons: "problem solved", "all is well", "go on talking", a mark.      *)
Buttons == {"proceed", "close", "retry", "rate"}

-----------------------------------------------------------------------------
(* The state and the ticket in the data of each state; texts are left out. *)
(* EXECUTION and VERIFICATION keep 0 for a ticket they do not know.        *)
Data == OrNone \cup {Absent}

Facts ==
    [state : States \cup {Absent}, planning : Data, execution : Data,
     verification : Data, done : Data]

NoFacts ==
    [state |-> Absent, planning |-> Absent, execution |-> Absent,
     verification |-> Absent, done |-> Absent]

Save(key, val) == [key |-> key, val |-> val]

ClearAll == Save("all", Absent)

After(f, w) == IF w.key = "all" THEN NoFacts ELSE [f EXCEPT ![w.key] = w.val]

(* getCurrentTicketId: of the data of these states the first that has a    *)
(* ticket; in PLANNING null is none.                                       *)
Planned == IF facts.planning = Absent THEN NoTicket ELSE facts.planning

Current(seen) ==
    IF Planned # NoTicket THEN Planned
    ELSE IF facts.execution # Absent THEN facts.execution
    ELSE IF seen = "verification" THEN facts.verification
    ELSE Absent

(* The ticket an escalation is about, Absent for null.                     *)
CurrentIn(s) ==
    CASE s = "init" -> Absent
      [] s = "planning" -> IF Planned = NoTicket THEN Absent ELSE Planned
      [] OTHER -> Current(s)

-----------------------------------------------------------------------------
(* A job: pc is the place it has reached, todo the writes it has decided   *)
(* on, request what it asks the CRM server and then where it goes on with  *)
(* the outcome: whether it takes it for a success, and a ticket.  go is    *)
(* whether the answer of the LLM named the next state, prompt whether the  *)
(* message that is worked on is not blank, act the button pressed.         *)
NoRequest == [op |-> "none", ticket |-> NoTicket, status |-> "none"]

Requests ==
    [op : {"none", "user", "create", "check", "update"}, ticket : OrNone,
     status : Status]

Idle ==
    [pc |-> "idle", todo |-> <<>>, prompt |-> FALSE, act |-> "none",
     request |-> NoRequest, then |-> "idle", go |-> FALSE, ok |-> FALSE,
     ticket |-> NoTicket]

Places ==
    {"idle", "press", "begin", "validate", "ask", "llm", "crm", "named",
     "checked", "created", "escalated", "closed", "post"}

At(j, place) == job[j].pc = place /\ job[j].todo = <<>>

Init ==
    /\ facts = NoFacts
    /\ tickets = [t \in Tickets |-> IF t \in Others THEN "open" ELSE "none"]
    /\ job = [j \in Jobs |-> Idle]

Goes(j, next) == job' = [job EXCEPT ![j] = next]

(* The job makes these writes and posts its messages.                      *)
PostAfter(j, writes) == Goes(j, [Idle EXCEPT !.pc = "post", !.todo = writes])

(* It makes these writes and wakes the LLM, with a prompt or a blank one.  *)
WakeAfter(j, writes, prompt) ==
    Goes(j, [Idle EXCEPT !.pc = "begin", !.todo = writes, !.prompt = prompt])

(* It makes these writes and asks the CRM server.                          *)
RequestAfter(j, writes, request, then, go) ==
    Goes(j, [Idle EXCEPT !.pc = "crm", !.todo = writes, !.request = request,
                         !.then = then, !.go = go])

Commit(j) ==
    /\ job[j].todo # <<>>
    /\ facts' = After(facts, Head(job[j].todo))
    /\ Goes(j, [job[j] EXCEPT !.todo = Tail(job[j].todo)])
    /\ UNCHANGED tickets

-----------------------------------------------------------------------------
(* The CRM server.  Outcome(j, ok, t): the job goes on.                    *)
Outcome(j, ok, t) ==
    Goes(j, [job[j] EXCEPT !.pc = job[j].then, !.ok = ok, !.ticket = t,
                           !.request = NoRequest, !.then = "idle"])

Asks(j, op) == At(j, "crm") /\ job[j].request.op = op

CreateUser(j) ==
    /\ Asks(j, "user")
    /\ \E ok \in BOOLEAN : Outcome(j, ok, NoTicket)
    /\ UNCHANGED <<facts, tickets>>

(* A ticket is made, and the answer may be lost.                           *)
CreateTicket(j) ==
    /\ Asks(j, "create")
    /\ \E t \in Tickets, answered \in BOOLEAN :
        /\ tickets[t] = "none"
        /\ \A s \in 1 .. t - 1 : tickets[s] # "none"
        /\ tickets' = [tickets EXCEPT ![t] = "open"]
        /\ Outcome(j, answered, IF answered THEN t ELSE NoTicket)
    /\ UNCHANGED facts

(* Mutant of Found: any ticket of the chat will do.                        *)
FoundAnyStatus(t) == t \in Mine /\ tickets[t] # "none"

Found(t) == t \in Mine /\ tickets[t] = "open"

CheckTicket(j) ==
    /\ Asks(j, "check")
    /\ Outcome(j, Found(job[j].request.ticket), job[j].request.ticket)
    /\ UNCHANGED <<facts, tickets>>

(* The row is updated, if there is one: the chat is not looked at.         *)
UpdateTicket(j) ==
    LET t == job[j].request.ticket IN
    /\ Asks(j, "update")
    /\ tickets' = [s \in Tickets |->
            IF s = t /\ tickets[s] # "none" THEN job[j].request.status ELSE tickets[s]]
    /\ \E answered \in BOOLEAN : Outcome(j, answered, NoTicket)
    /\ UNCHANGED facts

(* The request does not reach the server, or the server fails to carry it  *)
(* out: an update then looks like a success when there is an answer.       *)
RequestFails(j) ==
    /\ At(j, "crm")
    /\ \E ok \in BOOLEAN :
        /\ ok => job[j].request.op = "update"
        /\ Outcome(j, ok, IF job[j].request.op = "check"
                            THEN job[j].request.ticket ELSE NoTicket)
    /\ UNCHANGED <<facts, tickets>>

-----------------------------------------------------------------------------
(* The user.  The chat has an earlier request in it: every button is there *)
(* and can be pressed at any time.                                         *)
MayStart(j) ==
    /\ job[j].pc = "idle"
    /\ Overlap \/ \A i \in Jobs : job[i].pc = "idle"

StartMessage(j) ==
    /\ MayStart(j)
    /\ Goes(j, [Idle EXCEPT !.pc = "begin", !.prompt = TRUE])
    /\ UNCHANGED <<facts, tickets>>

StartPress(j, a) ==
    /\ MayStart(j)
    /\ Goes(j, [Idle EXCEPT !.pc = "press", !.act = a])
    /\ UNCHANGED <<facts, tickets>>

(* The states whose handlers know the button.                              *)
StateOf(a) ==
    CASE a = "proceed" -> "execution" [] a = "rate" -> "done" [] OTHER -> "verification"

Presses(j, a) ==
    At(j, "press") /\ job[j].act = a /\ facts.state = StateOf(a)

UnknownAction(j) ==
    /\ At(j, "press")
    /\ facts.state # StateOf(job[j].act)
    /\ Goes(j, Idle)
    /\ UNCHANGED <<facts, tickets>>

Proceed(j) ==
    /\ Presses(j, "proceed")
    /\ WakeAfter(j, <<Save("state", "verification")>>, FALSE)
    /\ UNCHANGED <<facts, tickets>>

BackToExecution(j) == WakeAfter(j, <<Save("state", "execution")>>, FALSE)

Retry(j) ==
    /\ Presses(j, "retry")
    /\ BackToExecution(j)
    /\ UNCHANGED <<facts, tickets>>

IsDone(j) == WakeAfter(j, <<Save("state", "done")>>, FALSE)

(* The ticket is closed, and then the request is done.                     *)
Close(j) ==
    LET t == Current("verification") IN
    /\ Presses(j, "close")
    /\ IF t = Absent
         THEN IsDone(j)
         ELSE RequestAfter(j, <<>>,
                [op |-> "update", ticket |-> t, status |-> "closed"], "closed", TRUE)
    /\ UNCHANGED <<facts, tickets>>

Closed(j) ==
    /\ At(j, "closed")
    /\ IF job[j].ok THEN IsDone(j) ELSE PostAfter(j, <<>>)
    /\ UNCHANGED <<facts, tickets>>

(* With a mark everything about the request is cleared.                    *)
Rate(j) ==
    /\ Presses(j, "rate")
    /\ PostAfter(j, <<ClearAll>>)
    /\ UNCHANGED <<facts, tickets>>

-----------------------------------------------------------------------------
(* The engine: no state is final, so a message clears the facts only when  *)
(* there is no state; validateInitialState gives it one.                   *)
Begin(j) ==
    /\ At(j, "begin")
    /\ Goes(j, [job[j] EXCEPT !.pc = "validate", !.todo =
            IF job[j].prompt /\ facts.state = Absent THEN <<ClearAll>> ELSE <<>>])
    /\ UNCHANGED <<facts, tickets>>

Validate(j) ==
    /\ At(j, "validate")
    /\ Goes(j, [job[j] EXCEPT !.pc = "ask", !.todo =
            IF facts.state = Absent THEN <<Save("state", "init")>> ELSE <<>>])
    /\ UNCHANGED <<facts, tickets>>

Ask(j) ==
    /\ At(j, "ask")
    /\ Goes(j, [Idle EXCEPT !.pc = "llm"])
    /\ UNCHANGED <<facts, tickets>>

(* The call fails, the answer cannot be parsed, or there is no state.      *)
LlmFails(j) ==
    /\ At(j, "llm")
    /\ Goes(j, Idle)
    /\ UNCHANGED <<facts, tickets>>

Answering(j, s) == At(j, "llm") /\ facts.state = s

(* Mutant of DoneFirst: the ticket is handed over, the state stays.        *)
DoneData(t) == <<Save("done", t)>>

DoneFirst(t) == <<Save("done", t), Save("state", "done")>>

(* handleEscalation: the request is done, and then an operator gets the    *)
(* ticket, if there is one.                                                *)
Escalate(j, s) ==
    LET t == CurrentIn(s) IN
    /\ Answering(j, s)
    /\ IF t = Absent
         THEN PostAfter(j, DoneFirst(NoTicket))
         ELSE RequestAfter(j, DoneFirst(t),
                [op |-> "update", ticket |-> t, status |-> "operator"],
                IF s = "verification" THEN "escalated" ELSE "post", FALSE)
    /\ UNCHANGED <<facts, tickets>>

(* After VERIFICATION the LLM takes leave.                                 *)
Escalated(j) ==
    /\ At(j, "escalated")
    /\ IF job[j].ok THEN WakeAfter(j, <<>>, TRUE) ELSE PostAfter(j, <<>>)
    /\ UNCHANGED <<facts, tickets>>

IsKnown == <<Save("state", "planning")>>

(* INIT: with a name in the answer the user is entered at the server, with *)
(* no more than a number the LLM is believed.                              *)
HandleInit(j) ==
    /\ Answering(j, "init")
    /\ \/ PostAfter(j, <<>>)
       \/ WakeAfter(j, IsKnown, TRUE)
       \/ \E go \in BOOLEAN :
            RequestAfter(j, <<>>, [NoRequest EXCEPT !.op = "user"], "named", go)
    /\ UNCHANGED <<facts, tickets>>

Named(j) ==
    /\ At(j, "named")
    /\ IF job[j].ok /\ job[j].go
         THEN WakeAfter(j, IsKnown, TRUE)
         ELSE PostAfter(j, <<>>)
    /\ UNCHANGED <<facts, tickets>>

(* PLANNING: a ticket of the answer is checked, a new one is created from  *)
(* its title and description, or there is neither.                         *)
HandlePlanning(j) ==
    /\ Answering(j, "planning")
    /\ \E go \in BOOLEAN :
        \/ \E t \in Tickets :
            RequestAfter(j, <<>>,
                [NoRequest EXCEPT !.op = "check", !.ticket = t], "checked", go)
        \/ RequestAfter(j, <<>>, [NoRequest EXCEPT !.op = "create"], "created", go)
        \/ PostAfter(j, <<Save("planning", Planned)>>)
    /\ UNCHANGED <<facts, tickets>>

(* With a valid ticket the work begins; the number is saved anyway.        *)
TakeTicket(j, valid) ==
    LET number == Save("planning", job[j].ticket) IN
    IF valid /\ job[j].go
      THEN WakeAfter(j, <<number, Save("state", "execution")>>, TRUE)
      ELSE PostAfter(j, <<number>>)

(* Mutant of Checked: the LLM is asked again for an open ticket.           *)
CheckedAgain(j) ==
    /\ At(j, "checked")
    /\ IF job[j].ok
         THEN TakeTicket(j, TRUE)
         ELSE WakeAfter(j, <<Save("planning", job[j].ticket)>>, TRUE)
    /\ UNCHANGED <<facts, tickets>>

Checked(j) ==
    /\ At(j, "checked")
    /\ TakeTicket(j, job[j].ok)
    /\ UNCHANGED <<facts, tickets>>

Created(j) ==
    /\ At(j, "created")
    /\ IF job[j].ok THEN TakeTicket(j, TRUE) ELSE PostAfter(j, <<>>)
    /\ UNCHANGED <<facts, tickets>>

(* EXECUTION: the ticket is noted with the first reply.  An answer that    *)
(* names VERIFICATION and has the user's approval in it leads on at once.  *)
HandleExecution(j) ==
    LET t == Current("execution")
        known == IF t = Absent THEN NoTicket ELSE t
        note == Save("execution",
                     IF facts.execution = Absent THEN known ELSE facts.execution)
    IN
    /\ Answering(j, "execution")
    /\ \/ PostAfter(j, <<note>>)
       \/ WakeAfter(j, <<note, Save("state", "verification")>>, FALSE)
    /\ UNCHANGED <<facts, tickets>>

(* VERIFICATION: the same; the LLM may send the user back to EXECUTION.    *)
HandleVerification(j) ==
    LET t == Current("verification")
        note == Save("verification",
                     IF facts.verification = Absent THEN t ELSE facts.verification)
    IN
    /\ Answering(j, "verification")
    /\ IF t = Absent
         THEN PostAfter(j, <<>>)
         ELSE \/ PostAfter(j, <<note>>)
              \/ WakeAfter(j, <<note, Save("state", "execution")>>, FALSE)
    /\ UNCHANGED <<facts, tickets>>

HandleDone(j) ==
    /\ Answering(j, "done")
    /\ PostAfter(j, <<>>)
    /\ UNCHANGED <<facts, tickets>>

Post(j) ==
    /\ At(j, "post")
    /\ Goes(j, Idle)
    /\ UNCHANGED <<facts, tickets>>

(* The scope of the jobs is cancelled, or the process dies.  A request     *)
(* that was sent is then one that was carried out, or one that was not.    *)
Interrupt ==
    /\ job # [j \in Jobs |-> Idle]
    /\ job' = [j \in Jobs |-> Idle]
    /\ UNCHANGED <<facts, tickets>>

-----------------------------------------------------------------------------
Serving(j) ==
    \/ CreateUser(j) \/ CreateTicket(j) \/ CheckTicket(j) \/ UpdateTicket(j)
    \/ RequestFails(j)

Doing(j) ==
    \/ UnknownAction(j) \/ Proceed(j) \/ Retry(j) \/ Close(j) \/ Closed(j) \/ Rate(j)

Talking(j) ==
    \/ Begin(j) \/ Validate(j) \/ Ask(j) \/ LlmFails(j)
    \/ HandleInit(j) \/ Named(j) \/ HandlePlanning(j) \/ Checked(j) \/ Created(j)
    \/ HandleExecution(j) \/ HandleVerification(j) \/ HandleDone(j)
    \/ \E s \in States \ {"done"} : Escalate(j, s)
    \/ Escalated(j) \/ Post(j)

Step(j) == Commit(j) \/ Serving(j) \/ Doing(j) \/ Talking(j)

Next ==
    \/ \E j \in Jobs :
        \/ StartMessage(j)
        \/ \E a \in Buttons : StartPress(j, a)
        \/ Step(j)
    \/ Interrupt

Write ==
    [key : {"state"}, val : States]
        \cup [key : {"planning", "execution", "verification", "done"}, val : Data]
        \cup {ClearAll}

Job ==
    [pc : Places, todo : Seq(Write), prompt : BOOLEAN, act : Buttons \cup {"none"},
     request : Requests, then : Places, go : BOOLEAN, ok : BOOLEAN, ticket : OrNone]

TypeOK ==
    /\ facts \in Facts
    /\ tickets \in [Tickets -> Status]
    /\ job \in [Jobs -> Job]

(* A job that was started goes on: requests end with an answer or an       *)
(* error.  The user owes nothing.                                          *)
Fairness == \A j \in Jobs : WF_vars(Step(j))

Spec == Init /\ [][Next]_vars

FairSpec == Spec /\ Fairness

-----------------------------------------------------------------------------
(* While a problem is worked on and until the user confirms, the facts     *)
(* name one ticket, which is this chat's and not with an operator; the     *)
(* data of the states, which each note it for themselves, agree            *)
(* (isDataValid of PLANNING, getCurrentTicketId of the handlers).          *)
RightTicket ==
    facts.state \in {"execution", "verification"} =>
        /\ Planned \in Mine
        /\ tickets[Planned] \in {"open", "closed"}
        /\ {facts.execution, facts.verification} \subseteq {Absent, Planned}

(* What was handed to an operator stays with the operator, and a ticket    *)
(* of another chat is not closed, whatever fails, is cut off or pressed    *)
(* later (handleEscalation makes the request DONE before it hands the      *)
(* ticket over).                                                           *)
TicketsKept ==
    [][\A t \in Tickets :
        /\ tickets[t] = "operator" => tickets'[t] = "operator"
        /\ tickets[t] # tickets'[t] /\ tickets'[t] = "closed" => t \in Mine]_vars

(* The answer of the LLM, and no button, leads on from EXECUTION.          *)
Approves(j) == HandleExecution(j) /\ job'[j].pc = "begin"

(* A job wakes the LLM by itself, from state to state: it comes to an end, *)
(* unless the LLM approves for the user again and again; VERIFICATION then *)
(* sends the job back each time, and nothing counts the rounds.            *)
JobsEnd ==
    \A j \in Jobs :
        \/ job[j].pc # "idle" ~> job[j].pc = "idle"
        \/ []<><<Approves(j)>>_vars
=============================================================================
