-------------------------- MODULE SupportMachineProofs -------------------------
(***************************************************************************)
(* Proofs about SupportMachine, for any number of jobs and tickets: types  *)
(* whatever overlaps, the tickets where one job runs at a time; at the     *)
(* end, about StateStore, which keeps the facts.                           *)
(***************************************************************************)
EXTENDS SupportMachine, StateStore, SequenceTheorems, TLAPS

(* No ticket is 0, and neither a state nor a ticket is Absent.             *)
LEMMA Distinct ==
    /\ NoTicket \notin Tickets /\ Tickets \subseteq Int
    /\ Absent \notin States /\ Absent \notin OrNone
    /\ Mine \subseteq Tickets
  BY SupportAssumption DEF NoTicket, Tickets, Mine

(* A write keeps the type of the facts.                                    *)
LEMMA AfterType ==
    ASSUME NEW f \in Facts, NEW w \in Write
    PROVE  After(f, w) \in Facts
<1>1. CASE w = ClearAll
  BY <1>1 DEF After, ClearAll, Save, NoFacts, Facts, Data
<1>2. CASE w \in [key : {"state"}, val : States]
  BY <1>2 DEF After, Facts
<1>3. CASE w \in [key : {"planning", "execution", "verification", "done"}, val : Data]
  BY <1>3 DEF After, Facts
<1> QED
  BY <1>1, <1>2, <1>3 DEF Write

(* The writes the handlers decide on.                                      *)
LEMMA SaveType ==
    /\ \A s \in States : Save("state", s) \in Write
    /\ \A t \in Data, key \in {"planning", "execution", "verification", "done"} :
           Save(key, t) \in Write
    /\ ClearAll \in Write
  BY DEF Save, Write

(* The ticket of the facts.                                                *)
LEMMA CurrentType ==
    ASSUME facts \in Facts
    PROVE  /\ Planned \in OrNone
           /\ \A s : Current(s) \in Data
           /\ \A s : CurrentIn(s) \in Data
<1>1. Planned \in OrNone
  BY DEF Planned, Facts, Data, OrNone
<1>2. \A s : Current(s) \in Data
  BY <1>1 DEF Current, Facts, Data
<1> QED
  BY <1>1, <1>2 DEF CurrentIn, Data

(* A job at rest.                                                          *)
LEMMA IdleType == Idle \in Job /\ NoRequest \in Requests
  BY DEF Idle, Job, Places, NoRequest, Requests, OrNone, Status

(* A job that goes on as a job.                                            *)
LEMMA GoesType ==
    ASSUME job \in [Jobs -> Job], NEW j \in Jobs, NEW n \in Job, Goes(j, n)
    PROVE  job' \in [Jobs -> Job]
  BY DEF Goes

(* The ways in which handlers go on.                                       *)
LEMMA HandlerType ==
    ASSUME job \in [Jobs -> Job], NEW j \in Jobs, NEW w \in Seq(Write)
    PROVE  /\ PostAfter(j, w) => job' \in [Jobs -> Job]
           /\ \A p \in BOOLEAN : WakeAfter(j, w, p) => job' \in [Jobs -> Job]
           /\ \A r \in Requests, then \in Places, go \in BOOLEAN :
                RequestAfter(j, w, r, then, go) => job' \in [Jobs -> Job]
<1>1. [Idle EXCEPT !.pc = "post", !.todo = w] \in Job
  BY IdleType DEF Idle, Job, Places
<1>2. \A p \in BOOLEAN :
        [Idle EXCEPT !.pc = "begin", !.todo = w, !.prompt = p] \in Job
  BY IdleType DEF Idle, Job, Places
<1>3. \A r \in Requests, then \in Places, go \in BOOLEAN :
        [Idle EXCEPT !.pc = "crm", !.todo = w, !.request = r,
                     !.then = then, !.go = go] \in Job
  BY IdleType DEF Idle, Job, Places
<1> QED
  BY <1>1, <1>2, <1>3, GoesType DEF PostAfter, WakeAfter, RequestAfter

(* The job goes on with the outcome of its request.                        *)
LEMMA OutcomeType ==
    ASSUME job \in [Jobs -> Job], NEW j \in Jobs, NEW ok \in BOOLEAN, NEW t \in OrNone,
           Outcome(j, ok, t)
    PROVE  job' \in [Jobs -> Job]
<1>1. [job[j] EXCEPT !.pc = job[j].then, !.ok = ok, !.ticket = t,
                     !.request = NoRequest, !.then = "idle"] \in Job
  BY IdleType DEF Job, Places
<1> QED
  BY <1>1, GoesType DEF Outcome

(* Every action of a job keeps the types, one case per action.             *)
LEMMA StepType ==
    ASSUME TypeOK, NEW j \in Jobs, Step(j)
    PROVE  TypeOK'
<1> USE DEF TypeOK
<1>t. <<>> \in Seq(Write) /\ (\A w \in Write : <<w>> \in Seq(Write))
        /\ (\A v, w \in Write : <<v, w>> \in Seq(Write))
  OBVIOUS
<1>d. /\ \A t \in Data, u \in States, key \in {"planning", "execution", "verification", "done"} :
              <<Save(key, t), Save("state", u)>> \in Seq(Write) /\ <<Save(key, t)>> \in Seq(Write)
      /\ \A u \in States : <<Save("state", u)>> \in Seq(Write)
      /\ <<ClearAll>> \in Seq(Write)
  BY <1>t, SaveType
<1>c. Planned \in OrNone /\ (\A s : Current(s) \in Data /\ CurrentIn(s) \in Data)
  BY CurrentType
<1>j. job[j] \in Job /\ job[j].ticket \in OrNone /\ job[j].ok \in BOOLEAN
        /\ job[j].request \in Requests /\ job[j].go \in BOOLEAN /\ job[j].prompt \in BOOLEAN
        /\ job[j].todo \in Seq(Write) /\ job[j].request.ticket \in OrNone
        /\ job[j].request.status \in Status
  BY DEF Job, Requests
<1>b. TRUE \in BOOLEAN /\ FALSE \in BOOLEAN /\ NoTicket \in OrNone /\ OrNone \subseteq Data
        /\ Tickets \subseteq OrNone
  BY DEF OrNone, Data
<1>1. CASE Commit(j)
  <2>1. Head(job[j].todo) \in Write /\ Tail(job[j].todo) \in Seq(Write)
    BY <1>1, <1>j DEF Commit
  <2>2. [job[j] EXCEPT !.todo = Tail(job[j].todo)] \in Job
    BY <2>1, <1>j DEF Job
  <2> QED
    BY <1>1, <2>1, <2>2, AfterType, GoesType DEF Commit
<1>2. CASE CreateUser(j)
  BY <1>2, <1>b, OutcomeType DEF CreateUser
<1>3. CASE CreateTicket(j)
  <2>1. PICK t \in Tickets, answered \in BOOLEAN :
            tickets' = [tickets EXCEPT ![t] = "open"]
              /\ Outcome(j, answered, IF answered THEN t ELSE NoTicket)
    BY <1>3 DEF CreateTicket
  <2>2. job' \in [Jobs -> Job]
    BY <2>1, <1>b, OutcomeType
  <2> QED
    BY <1>3, <2>1, <2>2 DEF CreateTicket, Status
<1>4. CASE CheckTicket(j)
  BY <1>4, <1>j, OutcomeType DEF CheckTicket, Found
<1>5. CASE UpdateTicket(j)
  <2>1. job' \in [Jobs -> Job]
    BY <1>5, <1>b, OutcomeType DEF UpdateTicket
  <2>2. tickets' \in [Tickets -> Status]
    BY <1>5, <1>j DEF UpdateTicket
  <2> QED
    BY <1>5, <2>1, <2>2 DEF UpdateTicket
<1>6. CASE RequestFails(j)
  BY <1>6, <1>j, <1>b, OutcomeType DEF RequestFails
<1>7. CASE UnknownAction(j)
  BY <1>7, IdleType, GoesType DEF UnknownAction
<1>8. CASE Proceed(j)
  BY <1>8, <1>d, <1>b, HandlerType DEF Proceed, States
<1>9. CASE Retry(j)
  BY <1>9, <1>d, <1>b, HandlerType DEF Retry, BackToExecution, States
<1>10. CASE Close(j)
  <2>1. ASSUME Current("verification") # Absent
        PROVE  [op |-> "update", ticket |-> Current("verification"), status |-> "closed"]
                    \in Requests
    BY <2>1, <1>c DEF Requests, Status, Data
  <2> QED
    BY <1>10, <2>1, <1>t, <1>d, <1>b, HandlerType DEF Close, IsDone, States, Places
<1>11. CASE Closed(j)
  BY <1>11, <1>t, <1>d, <1>b, HandlerType DEF Closed, IsDone, States
<1>12. CASE Rate(j)
  BY <1>12, <1>d, HandlerType DEF Rate
<1>13. CASE Begin(j)
  <2>1. [job[j] EXCEPT !.pc = "validate", !.todo =
            IF job[j].prompt /\ facts.state = Absent THEN <<ClearAll>> ELSE <<>>] \in Job
    BY <1>j, <1>d, <1>t DEF Job, Places
  <2> QED
    BY <1>13, <2>1, GoesType DEF Begin
<1>14. CASE Validate(j)
  <2>1. [job[j] EXCEPT !.pc = "ask", !.todo =
            IF facts.state = Absent THEN <<Save("state", "init")>> ELSE <<>>] \in Job
    BY <1>j, <1>d, <1>t DEF Job, Places, States
  <2> QED
    BY <1>14, <2>1, GoesType DEF Validate
<1>15. CASE Ask(j)
  <2>1. [Idle EXCEPT !.pc = "llm"] \in Job
    BY IdleType DEF Idle, Job, Places
  <2> QED
    BY <1>15, <2>1, GoesType DEF Ask
<1>16. CASE LlmFails(j)
  BY <1>16, IdleType, GoesType DEF LlmFails
<1>17. CASE HandleInit(j)
  <2>1. [NoRequest EXCEPT !.op = "user"] \in Requests
    BY IdleType DEF Requests
  <2>2. IsKnown \in Seq(Write)
    BY <1>d DEF IsKnown, States
  <2> QED
    BY <1>17, <2>1, <2>2, <1>t, HandlerType DEF HandleInit, Places
<1>18. CASE Named(j)
  BY <1>18, <1>t, <1>d, <1>b, HandlerType DEF Named, IsKnown, States
<1>19. CASE HandlePlanning(j)
  <2>1. /\ \A t \in Tickets : [NoRequest EXCEPT !.op = "check", !.ticket = t] \in Requests
        /\ [NoRequest EXCEPT !.op = "create"] \in Requests
    BY IdleType, <1>b DEF Requests
  <2>2. <<Save("planning", Planned)>> \in Seq(Write)
    <3>1. Planned \in Data
      BY <1>c, <1>b
    <3>2. Save("planning", Planned) \in Write
      BY <3>1, SaveType
    <3> QED
      BY <3>2, <1>t
  <2>3. "checked" \in Places /\ "created" \in Places
    BY DEF Places
  <2>4. job' \in [Jobs -> Job]
    BY <1>19, <2>1, <2>2, <2>3, <1>t, HandlerType DEF HandlePlanning
  <2> QED
    BY <1>19, <2>4 DEF HandlePlanning
<1>20. CASE Checked(j)
  BY <1>20, <1>j, <1>d, <1>b, HandlerType DEF Checked, TakeTicket, States
<1>21. CASE Created(j)
  BY <1>21, <1>t, <1>j, <1>d, <1>b, HandlerType DEF Created, TakeTicket, States
<1>22. CASE HandleExecution(j)
  <2>1. /\ (IF Current("execution") = Absent THEN NoTicket ELSE Current("execution")) \in Data
        /\ facts.execution \in Data
    BY <1>c, <1>b DEF Facts, Data
  <2>2. PICK t \in Data :
            \/ PostAfter(j, <<Save("execution", t)>>)
            \/ WakeAfter(j, <<Save("execution", t), Save("state", "verification")>>, FALSE)
    BY <1>22, <2>1 DEF HandleExecution
  <2>3. /\ <<Save("execution", t)>> \in Seq(Write)
        /\ <<Save("execution", t), Save("state", "verification")>> \in Seq(Write)
    BY <1>d DEF States
  <2> QED
    BY <1>22, <2>2, <2>3, HandlerType DEF HandleExecution
<1>23. CASE HandleVerification(j)
  <2>1. Current("verification") \in Data /\ facts.verification \in Data
    BY <1>c DEF Facts, Data
  <2> QED
    BY <1>23, <2>1, <1>t, <1>d, <1>b, HandlerType DEF HandleVerification, States
<1>24. CASE HandleDone(j)
  BY <1>24, <1>t, HandlerType DEF HandleDone
<1>25. ASSUME NEW s \in States \ {"done"}, Escalate(j, s)
       PROVE  TypeOK'
  <2>1. ASSUME CurrentIn(s) # Absent
        PROVE  [op |-> "update", ticket |-> CurrentIn(s), status |-> "operator"] \in Requests
    BY <2>1, <1>c DEF Requests, Status, Data
  <2>2. \A t \in Data : DoneFirst(t) \in Seq(Write)
    BY <1>d DEF DoneFirst, States
  <2> QED
    BY <1>25, <2>1, <2>2, <1>c, <1>b, HandlerType DEF Escalate, Places
<1>26. CASE Escalated(j)
  BY <1>26, <1>t, <1>b, HandlerType DEF Escalated
<1>27. CASE Post(j)
  BY <1>27, IdleType, GoesType DEF Post
<1> QED
  BY <1>1, <1>2, <1>3, <1>4, <1>5, <1>6, <1>7, <1>8, <1>9, <1>10, <1>11, <1>12, <1>13,
     <1>14, <1>15, <1>16, <1>17, <1>18, <1>19, <1>20, <1>21, <1>22, <1>23, <1>24, <1>25,
     <1>26, <1>27
  DEF Step, Serving, Doing, Talking

(* The user starts a job.                                                  *)
LEMMA StartType ==
    ASSUME TypeOK, NEW j \in Jobs,
           StartMessage(j) \/ \E a \in Buttons : StartPress(j, a)
    PROVE  TypeOK'
<1>1. /\ [Idle EXCEPT !.pc = "begin", !.prompt = TRUE] \in Job
      /\ \A a \in Buttons : [Idle EXCEPT !.pc = "press", !.act = a] \in Job
  BY IdleType DEF Idle, Job, Places
<1> QED
  BY <1>1, GoesType DEF TypeOK, StartMessage, StartPress

(* Facts, tickets and jobs keep their types, whatever jobs overlap and are *)
(* cut off (SupportStateData, crm_tickets and the handlers).               *)
THEOREM TypeCorrect == Spec => []TypeOK
<1>1. Init => TypeOK
  BY IdleType DEF Init, TypeOK, NoFacts, Facts, Data, Status
<1>2. ASSUME TypeOK, [Next]_vars
      PROVE  TypeOK'
  <2>1. CASE Interrupt
    BY <1>2, <2>1, IdleType DEF TypeOK, Interrupt
  <2>2. CASE UNCHANGED vars
    BY <1>2, <2>2 DEF TypeOK, vars
  <2> QED
    BY <1>2, <2>1, <2>2, StepType, StartType DEF Next
<1> QED
  BY <1>1, <1>2, PTL DEF Spec

-----------------------------------------------------------------------------
(* RightTicket of facts f, and before the work begins no data of it.       *)
Right(f) ==
    /\ f.state \in {"execution", "verification"} =>
          /\ f.planning \in Mine
          /\ tickets[f.planning] \in {"open", "closed"}
          /\ f.execution \in {Absent, f.planning}
          /\ f.verification \in {Absent, f.planning}
    /\ f.state \in {Absent, "init", "planning"} =>
          f.execution = Absent /\ f.verification = Absent

(* The facts are right after each of these writes, two at most.            *)
Allowed(w) ==
    /\ Len(w) <= 2
    /\ Len(w) >= 1 => Right(After(facts, w[1]))
    /\ Len(w) = 2 => Right(After(After(facts, w[1]), w[2]))

(* The state of a job that does not write, ...                             *)
Stays(j, s) == job[j].todo = <<>> /\ facts.state = s

(* ... or the one it has decided on.                                       *)
WillBeDone(j) ==
    LET w == job[j].todo IN
    \/ w = <<>> /\ facts.state = "done"
    \/ Len(w) \in 1 .. 2 /\ w[Len(w)] = Save("state", "done")

(* What a job asks the CRM server, and where it is then.                   *)
RequestSound(j) ==
    LET r == job[j].request IN
    job[j].pc = "crm" =>
        \/ r.op = "user" /\ job[j].then = "named" /\ Stays(j, "init")
        \/ r.op = "create" /\ job[j].then = "created" /\ Stays(j, "planning")
        \/ /\ r.op = "check" /\ job[j].then = "checked" /\ Stays(j, "planning")
           /\ r.ticket \in Tickets
        \/ /\ r.op = "update" /\ job[j].then = "closed" /\ Stays(j, "verification")
           /\ r.status = "closed" /\ r.ticket = facts.planning
        \/ /\ r.op = "update" /\ job[j].then \in {"escalated", "post"}
           /\ r.status = "operator" /\ WillBeDone(j)

(* What a job knows that has the outcome of its request.                   *)
OutcomeSound(j) ==
    /\ job[j].pc = "named" => Stays(j, "init")
    /\ job[j].pc \in {"checked", "created"} =>
          /\ Stays(j, "planning")
          /\ job[j].ok => job[j].ticket \in Mine /\ tickets[job[j].ticket] = "open"
    /\ job[j].pc = "closed" => Stays(j, "verification")

Sound(j) ==
    /\ job[j].pc = "idle" => job[j].todo = <<>>
    /\ Allowed(job[j].todo)
    /\ RequestSound(j)
    /\ OutcomeSound(j)

OneAtATime ==
    \A i, j \in Jobs : job[i].pc # "idle" /\ job[j].pc # "idle" => i = j

(* The tickets of other chats are at the server.                           *)
OthersKnown == \A t \in Others : tickets[t] # "none"

IInv ==
    /\ TypeOK
    /\ OthersKnown
    /\ Right(facts)
    /\ OneAtATime
    /\ \A j \in Jobs : Sound(j)

-----------------------------------------------------------------------------
(* A job is idle, or the only one that is not.                             *)
Turn(j) == job[j].pc # "idle" \/ \A i \in Jobs : job[i].pc = "idle"

(* Job j goes on, the others stay idle.                                    *)
LEMMA OneGoesOn ==
    ASSUME IInv, TypeOK', NEW j \in Jobs, NEW n, Turn(j), Goes(j, n),
           Right(facts)', Sound(j)', OthersKnown'
    PROVE  IInv'
<1>1. \A i \in Jobs \ {j} : job[i].pc = "idle" /\ job[i].todo = <<>> /\ job'[i] = job[i]
  BY DEF IInv, OneAtATime, Turn, Goes, Sound, TypeOK
<1>2. OneAtATime'
  BY <1>1 DEF OneAtATime
<1>3. \A i \in Jobs \ {j} : Sound(i)'
  BY <1>1 DEF Sound, Allowed, RequestSound, OutcomeSound
<1> QED
  BY <1>2, <1>3 DEF IInv

(* What writes do to the facts.                                            *)
LEMMA AfterSave ==
    ASSUME NEW f \in Facts, NEW v
    PROVE  /\ \A key \in {"state", "planning", "execution", "verification", "done"} :
                After(f, Save(key, v)) = [f EXCEPT ![key] = v]
           /\ After(f, ClearAll) = NoFacts
  BY DEF After, Save, ClearAll

(* No write, one write, two writes.                                        *)
LEMMA NoWrite == Allowed(<<>>)
  BY DEF Allowed

LEMMA OneWrite ==
    ASSUME NEW v, Right(After(facts, v))
    PROVE  Allowed(<<v>>)
  BY DEF Allowed

LEMMA TwoWrites ==
    ASSUME NEW v, NEW w, Right(After(facts, v)), Right(After(After(facts, v), w))
    PROVE  Allowed(<<v, w>>)
  BY DEF Allowed

(* A handler that makes allowed writes and posts, or wakes the LLM.        *)
LEMMA HandlerGoesOn ==
    ASSUME IInv, TypeOK', NEW j \in Jobs, Turn(j), UNCHANGED <<facts, tickets>>,
           NEW w, Allowed(w), PostAfter(j, w) \/ \E p \in BOOLEAN : WakeAfter(j, w, p)
    PROVE  IInv'
<1>1. PICK n : Goes(j, n) /\ n.todo = w /\ n.pc \in {"post", "begin"}
  <2> DEFINE posting == [Idle EXCEPT !.pc = "post", !.todo = w]
             waking(p) == [Idle EXCEPT !.pc = "begin", !.todo = w, !.prompt = p]
  <2>1. posting.todo = w /\ posting.pc = "post"
    BY DEF Idle
  <2>2. \A p : waking(p).todo = w /\ waking(p).pc = "begin"
    BY DEF Idle
  <2>3. Goes(j, posting) \/ \E p \in BOOLEAN : Goes(j, waking(p))
    BY DEF PostAfter, WakeAfter
  <2> HIDE DEF posting, waking
  <2> QED
    BY <2>1, <2>2, <2>3
<1>2. job'[j] = n
  BY <1>1 DEF Goes, IInv, TypeOK
<1>3. Right(facts)'
  BY DEF IInv, Right
<1>4. Allowed(w)'
  BY DEF Allowed, Right
<1>5. Sound(j)'
  BY <1>1, <1>2, <1>4 DEF Sound, RequestSound, OutcomeSound
<1> QED
  BY <1>1, <1>3, <1>5, OneGoesOn DEF IInv, OthersKnown

(* A job that rests, or has nothing to do with a request.                  *)
LEMMA PlainGoesOn ==
    ASSUME IInv, TypeOK', NEW j \in Jobs, Turn(j), UNCHANGED <<facts, tickets>>,
           NEW n, Goes(j, n), Allowed(n.todo), n.pc = "idle" => n.todo = <<>>,
           n.pc \notin {"crm", "named", "checked", "created", "closed"}
    PROVE  IInv'
<1>1. job'[j] = n
  BY DEF Goes, IInv, TypeOK
<1>2. Right(facts)'
  BY DEF IInv, Right
<1>3. Allowed(n.todo)'
  BY DEF Allowed, Right
<1>4. Sound(j)'
  BY <1>1, <1>3 DEF Sound, RequestSound, OutcomeSound
<1> QED
  BY <1>2, <1>4, OneGoesOn DEF IInv, OthersKnown

(* A handler that asks the CRM server.                                     *)
LEMMA RequestGoesOn ==
    ASSUME IInv, TypeOK', NEW j \in Jobs, Turn(j), UNCHANGED <<facts, tickets>>,
           NEW w, NEW r, NEW then, NEW go, Allowed(w), RequestAfter(j, w, r, then, go),
           RequestSound(j)'
    PROVE  IInv'
<1> DEFINE n == [Idle EXCEPT !.pc = "crm", !.todo = w, !.request = r,
                            !.then = then, !.go = go]
<1>1. Goes(j, n) /\ n.todo = w /\ n.pc = "crm"
  BY DEF RequestAfter, Idle
<1> HIDE DEF n
<1>2. job'[j] = n
  BY <1>1 DEF Goes, IInv, TypeOK
<1>3. Right(facts)'
  BY DEF IInv, Right
<1>4. Allowed(w)'
  BY DEF Allowed, Right
<1>5. Sound(j)'
  BY <1>1, <1>2, <1>4 DEF Sound, OutcomeSound
<1> QED
  BY <1>1, <1>3, <1>5, OneGoesOn DEF IInv, OthersKnown

(* The job in hand has its request as the handler made it.                 *)
LEMMA RequestMade ==
    ASSUME TypeOK, NEW j \in Jobs, NEW w, NEW r, NEW then, NEW go,
           RequestAfter(j, w, r, then, go)
    PROVE  /\ job'[j].request = r /\ job'[j].then = then
           /\ job'[j].todo = w /\ job'[j].pc = "crm"
  BY DEF RequestAfter, Goes, TypeOK, Idle

-----------------------------------------------------------------------------
(* The job saves a fact.                                                   *)
LEMMA CommitSound ==
    ASSUME IInv, TypeOK', NEW j \in Jobs, Commit(j)
    PROVE  IInv'
<1>w. PICK w : w = job[j].todo
  OBVIOUS
<1>1. /\ w \in Seq(Write) /\ Len(w) \in 1 .. 2 /\ w # <<>> /\ Head(w) = w[1]
      /\ job[j].pc # "idle" /\ Allowed(w) /\ Sound(j)
  <2>1. w \in Seq(Write) /\ w # <<>> /\ Sound(j)
    BY <1>w DEF IInv, Commit, TypeOK, Job
  <2>2. Len(w) # 0 /\ Len(w) \in Nat
    BY <2>1, EmptySeq
  <2>3. job[j].pc # "idle" /\ Allowed(w)
    BY <1>w, <2>1 DEF Sound
  <2>4. Len(w) <= 2
    BY <2>3 DEF Allowed
  <2>5. Len(w) \in 1 .. 2
    BY <2>2, <2>4
  <2>6. Head(w) = w[1]
    BY <2>1
  <2> QED
    BY <2>1, <2>3, <2>5, <2>6
<1>2. /\ job'[j].todo = Tail(w) /\ job'[j].pc = job[j].pc
      /\ job'[j].request = job[j].request /\ job'[j].then = job[j].then
      /\ facts' = After(facts, w[1]) /\ UNCHANGED tickets
  BY <1>w, <1>1 DEF Commit, Goes, IInv, TypeOK, Job
<1>3. Right(facts)'
  <2>1. Right(After(facts, w[1]))
    BY <1>1 DEF Allowed
  <2> QED
    BY <2>1, <1>2 DEF Right
<1>4. /\ Len(w) = 1 => Tail(w) = <<>>
      /\ Len(w) = 2 => Tail(w) # <<>> /\ Len(Tail(w)) = 1 /\ Tail(w)[1] = w[2]
  <2>1. Tail(w) \in Seq(Write) /\ Len(Tail(w)) = Len(w) - 1
          /\ \A i \in 1 .. Len(Tail(w)) : Tail(w)[i] = w[i + 1]
    BY <1>1, HeadTailProperties
  <2>2. Tail(w) = <<>> <=> Len(Tail(w)) = 0
    BY <2>1, EmptySeq
  <2> QED
    BY <2>1, <2>2, <1>1
<1>5. Allowed(Tail(w))'
  <2>1. CASE Len(w) = 1
    BY <2>1, <1>4 DEF Allowed
  <2>2. CASE Len(w) = 2
    <3>1. Right(After(After(facts, w[1]), w[2]))
      BY <2>2, <1>1 DEF Allowed
    <3>2. Right(After(facts, Tail(w)[1]))'
      BY <3>1, <2>2, <1>4, <1>2 DEF Right, After, NoFacts
    <3>3. Len(Tail(w)) = 1
      BY <2>2, <1>4
    <3>4. PICK u : u = Tail(w)
      OBVIOUS
    <3>5. Len(u) = 1 /\ Right(After(facts, u[1]))'
      BY <3>2, <3>3, <3>4
    <3>6. Len(u) <= 1 /\ Len(u) # 2
      BY <3>5
    <3> QED
      BY <3>4, <3>5, <3>6 DEF Allowed
  <2> QED
    BY <2>1, <2>2, <1>1
<1>6. RequestSound(j)'
  <2>1. SUFFICES ASSUME job[j].pc = "crm"
                 PROVE  RequestSound(j)'
    BY <1>2 DEF RequestSound
  <2>2. /\ job[j].request.op = "update" /\ job[j].then \in {"escalated", "post"}
        /\ job[j].request.status = "operator" /\ WillBeDone(j)
    BY <2>1, <1>w, <1>1 DEF Sound, RequestSound, Stays
  <2>3. w[Len(w)] = Save("state", "done")
    BY <2>2, <1>w, <1>1 DEF WillBeDone
  <2>4. WillBeDone(j)'
    <3>1. CASE Len(w) = 1
      <4>1. facts' = [facts EXCEPT !.state = "done"]
        BY <3>1, <2>3, <1>2, AfterSave DEF IInv, TypeOK
      <4> QED
        BY <4>1, <3>1, <1>4, <1>2 DEF WillBeDone, IInv, TypeOK, Facts
    <3>2. CASE Len(w) = 2
      <4>1. PICK u : u = Tail(w)
        OBVIOUS
      <4>2. Len(u) = 1 /\ u[1] = Save("state", "done")
        BY <4>1, <3>2, <2>3, <1>4
      <4>3. job'[j].todo = u
        BY <4>1, <1>2
      <4>4. Len(u) \in 1 .. 2 /\ u[Len(u)] = Save("state", "done")
        BY <4>2
      <4> QED
        BY <4>3, <4>4 DEF WillBeDone
    <3> QED
      BY <3>1, <3>2, <1>1
  <2> QED
    BY <2>2, <2>4, <1>2 DEF RequestSound
<1>7. OutcomeSound(j)'
  BY <1>w, <1>1, <1>2 DEF Sound, OutcomeSound, Stays
<1>8. Sound(j)'
  BY <1>1, <1>2, <1>5, <1>6, <1>7 DEF Sound
<1> QED
  <2>1. Turn(j) /\ \E n : Goes(j, n)
    BY <1>1 DEF Turn, Commit
  <2>2. OthersKnown'
    BY <1>2 DEF IInv, OthersKnown
  <2> QED
    BY <2>1, <2>2, <1>3, <1>8, OneGoesOn

(* The CRM server carries out the request of the job, or it fails.         *)
LEMMA ServingSound ==
    ASSUME IInv, TypeOK', NEW j \in Jobs, Serving(j)
    PROVE  IInv'
<1>1. /\ At(j, "crm") /\ RequestSound(j) /\ Right(facts) /\ UNCHANGED facts
      /\ job[j] \in Job /\ tickets \in [Tickets -> Status] /\ facts \in Facts
  BY DEF Serving, CreateUser, CreateTicket, CheckTicket, UpdateTicket, RequestFails,
         Asks, IInv, Sound, TypeOK
<1>2. Turn(j) /\ job[j].todo = <<>>
  BY <1>1 DEF Turn, At
<1>3. ASSUME NEW ok \in BOOLEAN, NEW t, Outcome(j, ok, t)
      PROVE  /\ job'[j].pc = job[j].then /\ job'[j].todo = <<>>
             /\ job'[j].ok = ok /\ job'[j].ticket = t
             /\ \E n : Goes(j, n)
  BY <1>1, <1>2, <1>3 DEF Outcome, Goes, Job, IInv, TypeOK
<1>4. ASSUME NEW ok \in BOOLEAN, NEW t, Outcome(j, ok, t), Right(facts)',
             OutcomeSound(j)', OthersKnown'
      PROVE  IInv'
  <2>1. job'[j].pc = job[j].then /\ job[j].then \notin {"crm", "idle"}
    BY <1>3, <1>4, <1>1 DEF RequestSound, At
  <2>2. Sound(j)'
    BY <2>1, <1>3, <1>4, NoWrite DEF Sound, Allowed, RequestSound
  <2> QED
    BY <2>2, <1>2, <1>3, <1>4, OneGoesOn
<1>5. CASE CreateUser(j)
  <2>1. PICK ok \in BOOLEAN : Outcome(j, ok, NoTicket)
    BY <1>5 DEF CreateUser
  <2>2. Right(facts)'
    BY <1>5, <1>1 DEF CreateUser, Right
  <2>3. job[j].then = "named" /\ Stays(j, "init")
    BY <1>5, <1>1 DEF CreateUser, Asks, At, RequestSound
  <2>4. OutcomeSound(j)'
    BY <2>1, <2>3, <1>1, <1>3 DEF OutcomeSound, Stays
  <2>5. OthersKnown'
    BY <1>5 DEF CreateUser, IInv, OthersKnown
  <2> QED
    BY <2>1, <2>2, <2>4, <2>5, <1>4
<1>6. CASE CreateTicket(j)
  <2>1. PICK t \in Tickets, answered \in BOOLEAN :
            /\ tickets[t] = "none" /\ tickets' = [tickets EXCEPT ![t] = "open"]
            /\ Outcome(j, answered, IF answered THEN t ELSE NoTicket)
    BY <1>6 DEF CreateTicket
  <2>2. job[j].then = "created" /\ Stays(j, "planning")
    BY <1>6, <1>1 DEF CreateTicket, Asks, At, RequestSound
  <2>3. Right(facts)'
    BY <2>2, <1>1, Distinct DEF Right, Stays, States
  <2>4. t \in Mine /\ OthersKnown'
    BY <2>1, <1>1, SupportAssumption DEF IInv, OthersKnown, Mine
  <2>5. OutcomeSound(j)'
    BY <2>1, <2>2, <2>4, <1>1, <1>3 DEF OutcomeSound, Stays
  <2> QED
    BY <2>1, <2>3, <2>4, <2>5, <1>4
<1>7. CASE CheckTicket(j)
  <2>1. Outcome(j, Found(job[j].request.ticket), job[j].request.ticket)
    BY <1>7 DEF CheckTicket
  <2>2. job[j].then = "checked" /\ Stays(j, "planning")
    BY <1>7, <1>1 DEF CheckTicket, Asks, At, RequestSound
  <2>3. Found(job[j].request.ticket) \in BOOLEAN
    BY DEF Found
  <2>4. Right(facts)' /\ OthersKnown'
    BY <1>7, <1>1 DEF CheckTicket, Right, IInv, OthersKnown
  <2>5. OutcomeSound(j)'
    BY <2>1, <2>2, <2>3, <1>7, <1>1, <1>3 DEF OutcomeSound, Stays, Found, CheckTicket
  <2> QED
    BY <2>1, <2>3, <2>4, <2>5, <1>4
<1>8. CASE UpdateTicket(j)
  <2>1. PICK answered \in BOOLEAN : Outcome(j, answered, NoTicket)
    BY <1>8 DEF UpdateTicket
  <2>2. job[j].request.op = "update"
    BY <1>8 DEF UpdateTicket, Asks
  <2>3. \/ /\ job[j].then = "closed" /\ Stays(j, "verification")
           /\ job[j].request.status = "closed"
        \/ /\ job[j].then \in {"escalated", "post"} /\ facts.state = "done"
           /\ job[j].request.status = "operator"
    BY <2>2, <1>1, <1>2 DEF At, RequestSound, WillBeDone
  <2>4. \A s \in Tickets : tickets'[s] # tickets[s] =>
            tickets[s] # "none" /\ tickets'[s] = job[j].request.status
    BY <1>8 DEF UpdateTicket
  <2>5. Right(facts)'
    <3>1. CASE facts.state = "done"
      BY <3>1, <1>1, Distinct DEF Right, States
    <3>2. CASE job[j].request.status = "closed" /\ facts.state = "verification"
      BY <3>2, <2>4, <1>1, Distinct DEF Right, States
    <3> QED
      BY <3>1, <3>2, <2>3 DEF Stays
  <2>6. OthersKnown'
    BY <2>3, <2>4, SupportAssumption DEF IInv, OthersKnown
  <2>7. OutcomeSound(j)'
    BY <2>1, <2>3, <1>1, <1>3 DEF OutcomeSound, Stays
  <2> QED
    BY <2>1, <2>5, <2>6, <2>7, <1>4
<1>9. CASE RequestFails(j)
  <2>1. PICK ok \in BOOLEAN :
            /\ ok => job[j].request.op = "update"
            /\ Outcome(j, ok, IF job[j].request.op = "check"
                                THEN job[j].request.ticket ELSE NoTicket)
    BY <1>9 DEF RequestFails
  <2>2. Right(facts)' /\ OthersKnown'
    BY <1>9, <1>1 DEF RequestFails, Right, IInv, OthersKnown
  <2>3. OutcomeSound(j)'
    BY <2>1, <1>1, <1>3 DEF OutcomeSound, Stays, RequestSound, At
  <2> QED
    BY <2>1, <2>2, <2>3, <1>4
<1> QED
  BY <1>5, <1>6, <1>7, <1>8, <1>9 DEF Serving

-----------------------------------------------------------------------------
(* DONE is right whatever the facts are, and so is nothing at all.         *)
LEMMA RightAtLast ==
    /\ \A f \in Facts : Right(After(f, Save("state", "done")))
    /\ \A f \in Facts : Right(After(f, ClearAll))
<1>1. \A f \in Facts : After(f, Save("state", "done")).state = "done"
  BY AfterSave DEF Facts
<1>2. \A f \in Facts : After(f, ClearAll) = NoFacts
  BY AfterSave
<1>3. Right(NoFacts)
  BY Distinct DEF Right, NoFacts, States
<1> QED
  BY <1>1, <1>2, <1>3, Distinct DEF Right, States

(* While a problem is worked on, the ticket of the facts is the planned    *)
(* one, whichever data are looked at first.                                *)
LEMMA CurrentRight ==
    ASSUME IInv, facts.state \in {"execution", "verification"}
    PROVE  /\ facts.planning \in Mine /\ facts.planning # Absent
           /\ Planned = facts.planning
           /\ \A s : Current(s) = facts.planning
<1>1. facts.planning \in Mine /\ facts.planning \in Tickets /\ facts.planning # NoTicket
  BY Distinct DEF IInv, Right
<1>2. facts.planning # Absent
  BY <1>1, Distinct DEF OrNone
<1> QED
  BY <1>1, <1>2 DEF Planned, Current

(* The buttons.                                                            *)
LEMMA DoingSound ==
    ASSUME IInv, TypeOK', NEW j \in Jobs, Doing(j)
    PROVE  IInv'
<1>1. Turn(j) /\ UNCHANGED <<facts, tickets>> /\ Right(facts) /\ facts \in Facts
  BY DEF Doing, UnknownAction, Proceed, Retry, Close, Closed, Rate, Presses, At, Turn,
         IInv, TypeOK
<1>2. Allowed(<<Save("state", "done")>>) /\ Allowed(<<ClearAll>>)
  BY <1>1, RightAtLast, OneWrite
<1>3. CASE UnknownAction(j)
  <2>1. Goes(j, Idle) /\ Idle.todo = <<>> /\ Idle.pc = "idle"
    BY <1>3 DEF UnknownAction, Idle
  <2> QED
    BY <2>1, <1>1, NoWrite, PlainGoesOn
<1>4. CASE Proceed(j)
  <2>1. facts.state = "execution"
    BY <1>4 DEF Proceed, Presses, StateOf
  <2>2. Right(After(facts, Save("state", "verification")))
    BY <2>1, <1>1, AfterSave, Distinct DEF Right, Facts, States
  <2> QED
    BY <1>4, <2>2, <1>1, OneWrite, HandlerGoesOn DEF Proceed
<1>5. CASE Retry(j)
  <2>1. facts.state = "verification"
    BY <1>5 DEF Retry, Presses, StateOf
  <2>2. Right(After(facts, Save("state", "execution")))
    BY <2>1, <1>1, AfterSave, Distinct DEF Right, Facts, States
  <2> QED
    BY <1>5, <2>2, <1>1, OneWrite, HandlerGoesOn DEF Retry, BackToExecution
<1>6. CASE Close(j)
  <2>1. facts.state = "verification"
    BY <1>6 DEF Close, Presses, StateOf
  <2>2. Current("verification") = facts.planning /\ facts.planning # Absent
    BY <2>1, CurrentRight
  <2> DEFINE r == [op |-> "update", ticket |-> facts.planning, status |-> "closed"]
  <2>3. RequestAfter(j, <<>>, r, "closed", TRUE)
    BY <1>6, <2>2 DEF Close
  <2>4. r.op = "update" /\ r.ticket = facts.planning /\ r.status = "closed"
    OBVIOUS
  <2> HIDE DEF r
  <2>5. /\ job'[j].request = r /\ job'[j].then = "closed"
        /\ job'[j].todo = <<>> /\ job'[j].pc = "crm"
    BY <2>3, RequestMade DEF IInv
  <2>6. RequestSound(j)'
    BY <2>1, <2>4, <2>5, <1>1 DEF RequestSound, Stays
  <2> QED
    BY <2>3, <2>6, <1>1, NoWrite, RequestGoesOn
<1>7. CASE Closed(j)
  BY <1>7, <1>1, <1>2, NoWrite, HandlerGoesOn DEF Closed, IsDone
<1>8. CASE Rate(j)
  BY <1>8, <1>1, <1>2, HandlerGoesOn DEF Rate
<1> QED
  BY <1>3, <1>4, <1>5, <1>6, <1>7, <1>8 DEF Doing

(* The engine and the handlers.                                            *)
LEMMA TalkingSound ==
    ASSUME IInv, TypeOK', NEW j \in Jobs, Talking(j)
    PROVE  IInv'
<1>1. /\ Turn(j) /\ UNCHANGED <<facts, tickets>> /\ Right(facts) /\ facts \in Facts
      /\ job[j] \in Job /\ job \in [Jobs -> Job] /\ Sound(j) /\ job[j].todo = <<>>
  BY DEF Talking, Begin, Validate, Ask, LlmFails, HandleInit, Named, HandlePlanning,
         Checked, Created, HandleExecution, HandleVerification, HandleDone, Escalate,
         Escalated, Post, Answering, At, Turn, IInv, TypeOK
<1>2. Idle.todo = <<>> /\ Idle.pc = "idle" /\ [Idle EXCEPT !.pc = "llm"].todo = <<>>
        /\ [Idle EXCEPT !.pc = "llm"].pc = "llm"
  BY DEF Idle
<1>3. CASE Begin(j)
  <2> DEFINE w == IF job[j].prompt /\ facts.state = Absent THEN <<ClearAll>> ELSE <<>>
             n == [job[j] EXCEPT !.pc = "validate", !.todo = w]
  <2>1. Allowed(w)
    BY <1>1, RightAtLast, OneWrite, NoWrite
  <2>2. Goes(j, n) /\ n.todo = w /\ n.pc = "validate"
    BY <1>3, <1>1 DEF Begin, Job
  <2> HIDE DEF n, w
  <2> QED
    BY <2>1, <2>2, <1>1, PlainGoesOn
<1>4. CASE Validate(j)
  <2> DEFINE w == IF facts.state = Absent THEN <<Save("state", "init")>> ELSE <<>>
             n == [job[j] EXCEPT !.pc = "ask", !.todo = w]
  <2>1. ASSUME facts.state = Absent
        PROVE  Right(After(facts, Save("state", "init")))
    BY <2>1, <1>1, AfterSave, Distinct DEF Right, Facts, States
  <2>2. Allowed(w)
    BY <2>1, OneWrite, NoWrite
  <2>3. Goes(j, n) /\ n.todo = w /\ n.pc = "ask"
    BY <1>4, <1>1 DEF Validate, Job
  <2> HIDE DEF n, w
  <2> QED
    BY <2>2, <2>3, <1>1, PlainGoesOn
<1>5. CASE Ask(j)
  BY <1>5, <1>1, <1>2, NoWrite, PlainGoesOn DEF Ask
<1>6. CASE LlmFails(j) \/ Post(j)
  BY <1>6, <1>1, <1>2, NoWrite, PlainGoesOn DEF LlmFails, Post
<1>7. CASE HandleInit(j)
  <2> DEFINE r == [NoRequest EXCEPT !.op = "user"]
  <2>1. facts.state = "init" /\ r.op = "user"
    BY <1>7 DEF HandleInit, Answering, NoRequest
  <2>2. \/ PostAfter(j, <<>>) \/ WakeAfter(j, IsKnown, TRUE)
        \/ \E go \in BOOLEAN : RequestAfter(j, <<>>, r, "named", go)
    BY <1>7 DEF HandleInit
  <2>i. Allowed(IsKnown)
    <3>1. Right(After(facts, Save("state", "planning")))
      BY <2>1, <1>1, AfterSave, Distinct DEF Right, Facts, States
    <3> QED
      BY <3>1, OneWrite DEF IsKnown
  <2> HIDE DEF r
  <2>3. CASE PostAfter(j, <<>>) \/ WakeAfter(j, IsKnown, TRUE)
    BY <2>3, <2>i, <1>1, NoWrite, HandlerGoesOn
  <2>4. ASSUME NEW go \in BOOLEAN, RequestAfter(j, <<>>, r, "named", go)
        PROVE  IInv'
    <3>1. RequestSound(j)'
      BY <2>1, <2>4, <1>1, RequestMade DEF RequestSound, Stays, IInv
    <3> QED
      BY <2>4, <3>1, <1>1, NoWrite, RequestGoesOn
  <2> QED
    BY <2>2, <2>3, <2>4
<1>8. CASE Named(j)
  <2>1. facts.state = "init"
    BY <1>8, <1>1 DEF Named, At, Sound, OutcomeSound, Stays
  <2>2. Right(After(facts, Save("state", "planning")))
    BY <2>1, <1>1, AfterSave, Distinct DEF Right, Facts, States
  <2> QED
    BY <1>8, <2>2, <1>1, NoWrite, OneWrite, HandlerGoesOn DEF Named, IsKnown
<1>9. CASE HandlePlanning(j)
  <2>1. facts.state = "planning"
    BY <1>9 DEF HandlePlanning, Answering
  <2>2. CASE PostAfter(j, <<Save("planning", Planned)>>)
    <3>1. Right(After(facts, Save("planning", Planned)))
      BY <2>1, <1>1, AfterSave, Distinct DEF Right, Facts
    <3> QED
      BY <2>2, <3>1, <1>1, OneWrite, HandlerGoesOn
  <2>3. ASSUME NEW r, NEW then, NEW go, RequestAfter(j, <<>>, r, then, go),
               \/ r.op = "check" /\ r.ticket \in Tickets /\ then = "checked"
               \/ r.op = "create" /\ then = "created"
        PROVE  IInv'
    <3>1. RequestSound(j)'
      BY <2>1, <2>3, <1>1, RequestMade DEF RequestSound, Stays, IInv
    <3> QED
      BY <2>3, <3>1, <1>1, NoWrite, RequestGoesOn
  <2>4. \/ PostAfter(j, <<Save("planning", Planned)>>)
        \/ \E r, then, go : RequestAfter(j, <<>>, r, then, go)
             /\ \/ r.op = "check" /\ r.ticket \in Tickets /\ then = "checked"
                \/ r.op = "create" /\ then = "created"
    <3> DEFINE check(t) == [NoRequest EXCEPT !.op = "check", !.ticket = t]
               create == [NoRequest EXCEPT !.op = "create"]
    <3>1. /\ \A t : check(t).op = "check" /\ check(t).ticket = t
          /\ create.op = "create"
      BY DEF NoRequest
    <3>2. \E go \in BOOLEAN :
            \/ \E t \in Tickets : RequestAfter(j, <<>>, check(t), "checked", go)
            \/ RequestAfter(j, <<>>, create, "created", go)
            \/ PostAfter(j, <<Save("planning", Planned)>>)
      BY <1>9 DEF HandlePlanning
    <3> HIDE DEF check, create
    <3> QED
      BY <3>1, <3>2
  <2> QED
    BY <2>2, <2>3, <2>4
<1>10. CASE Checked(j) \/ Created(j)
  <2> DEFINE number == Save("planning", job[j].ticket)
             onwards == Save("state", "execution")
  <2>1. facts.state = "planning"
    BY <1>10, <1>1 DEF Checked, Created, At, Sound, OutcomeSound, Stays
  <2>2. After(facts, number) = [facts EXCEPT !.planning = job[j].ticket]
    BY <1>1, AfterSave
  <2>3. Right(After(facts, number))
    BY <2>1, <2>2, <1>1, Distinct DEF Right, Facts
  <2>4. ASSUME job[j].ok
        PROVE  Right(After(After(facts, number), onwards))
    <3>1. job[j].ticket \in Mine /\ tickets[job[j].ticket] = "open"
      BY <1>10, <1>1, <2>4 DEF Checked, Created, At, Sound, OutcomeSound
    <3>2. /\ [facts EXCEPT !.planning = job[j].ticket] \in Facts
          /\ facts.execution = Absent /\ facts.verification = Absent
      BY <3>1, <2>1, <1>1, Distinct DEF Right, Facts, Data, OrNone
    <3>3. PICK f : f = After(facts, number)
      OBVIOUS
    <3>4. f \in Facts /\ After(f, onwards) = [f EXCEPT !.state = "execution"]
      BY <3>2, <3>3, <2>2, AfterSave
    <3>5. f.planning = job[j].ticket /\ f.execution = Absent /\ f.verification = Absent
      BY <3>2, <3>3, <2>2, <1>1 DEF Facts
    <3>6. Right(After(f, onwards))
      BY <3>1, <3>4, <3>5, Distinct DEF Right, Facts, States
    <3> QED
      BY <3>3, <3>6
  <2>5. \/ PostAfter(j, <<>>) \/ PostAfter(j, <<number>>)
        \/ job[j].ok /\ WakeAfter(j, <<number, onwards>>, TRUE)
    BY <1>10 DEF Checked, Created, TakeTicket
  <2> HIDE DEF number, onwards
  <2> QED
    BY <2>3, <2>4, <2>5, <1>1, NoWrite, OneWrite, TwoWrites, HandlerGoesOn
<1>11. CASE HandleExecution(j)
  <2>1. facts.state = "execution"
    BY <1>11 DEF HandleExecution, Answering
  <2>2. Current("execution") = facts.planning /\ facts.planning # Absent
    BY <2>1, CurrentRight
  <2>3. PICK v \in {facts.planning, facts.execution} :
            /\ v # Absent
            /\ \/ PostAfter(j, <<Save("execution", v)>>)
               \/ WakeAfter(j, <<Save("execution", v), Save("state", "verification")>>, FALSE)
    BY <1>11, <2>2 DEF HandleExecution
  <2>4. v = facts.planning /\ facts.planning \in Data
    BY <2>1, <2>3, <1>1 DEF Right, Facts
  <2>5. After(facts, Save("execution", v)) = [facts EXCEPT !.execution = v]
          /\ [facts EXCEPT !.execution = v] \in Facts
    BY <2>4, <1>1, AfterSave DEF Facts
  <2>6. PICK f : f = After(facts, Save("execution", v))
    OBVIOUS
  <2>7. f \in Facts /\ After(f, Save("state", "verification")) = [f EXCEPT !.state = "verification"]
    BY <2>5, <2>6, AfterSave
  <2>8. Right(f) /\ f.state = "execution"
    BY <2>1, <2>4, <2>5, <2>6, <1>1, Distinct DEF Right, Facts, States
  <2>9. Right(After(f, Save("state", "verification")))
    BY <2>7, <2>8, Distinct DEF Right, Facts, States
  <2> QED
    BY <2>3, <2>6, <2>8, <2>9, <1>1, OneWrite, TwoWrites, HandlerGoesOn
<1>12. CASE HandleVerification(j)
  <2>1. facts.state = "verification"
    BY <1>12 DEF HandleVerification, Answering
  <2>2. Current("verification") = facts.planning /\ facts.planning # Absent
    BY <2>1, CurrentRight
  <2>3. PICK v \in {facts.planning, facts.verification} :
            /\ v # Absent
            /\ \/ PostAfter(j, <<Save("verification", v)>>)
               \/ WakeAfter(j, <<Save("verification", v), Save("state", "execution")>>, FALSE)
    BY <1>12, <2>2 DEF HandleVerification
  <2>4. v = facts.planning /\ facts.planning \in Data
    BY <2>1, <2>3, <1>1 DEF Right, Facts
  <2>5. After(facts, Save("verification", v)) = [facts EXCEPT !.verification = v]
          /\ [facts EXCEPT !.verification = v] \in Facts
    BY <2>4, <1>1, AfterSave DEF Facts
  <2>6. PICK f : f = After(facts, Save("verification", v))
    OBVIOUS
  <2>7. f \in Facts /\ After(f, Save("state", "execution")) = [f EXCEPT !.state = "execution"]
    BY <2>5, <2>6, AfterSave
  <2>8. Right(f) /\ f.state = "verification"
    BY <2>1, <2>4, <2>5, <2>6, <1>1, Distinct DEF Right, Facts, States
  <2>9. Right(After(f, Save("state", "execution")))
    BY <2>7, <2>8, Distinct DEF Right, Facts, States
  <2> QED
    BY <2>3, <2>6, <2>8, <2>9, <1>1, OneWrite, TwoWrites, HandlerGoesOn
<1>13. CASE HandleDone(j)
  BY <1>13, <1>1, NoWrite, HandlerGoesOn DEF HandleDone
<1>14. ASSUME NEW s \in States \ {"done"}, Escalate(j, s)
       PROVE  IInv'
  <2>1. ASSUME NEW t \in Data
        PROVE  Allowed(DoneFirst(t))
    <3>1. After(facts, Save("done", t)) = [facts EXCEPT !.done = t]
            /\ [facts EXCEPT !.done = t] \in Facts
      BY <1>1, AfterSave DEF Facts
    <3>2. Right(After(facts, Save("done", t)))
      BY <3>1, <1>1 DEF Right, Facts
    <3> QED
      BY <3>1, <3>2, RightAtLast, TwoWrites DEF DoneFirst
  <2>2. CurrentIn(s) \in Data /\ NoTicket \in Data
    BY <1>1, CurrentType DEF Data, OrNone
  <2>3. CASE CurrentIn(s) = Absent
    BY <1>14, <2>1, <2>2, <2>3, <1>1, HandlerGoesOn DEF Escalate
  <2>4. CASE CurrentIn(s) # Absent
    <3> DEFINE r == [op |-> "update", ticket |-> CurrentIn(s), status |-> "operator"]
               w == DoneFirst(CurrentIn(s))
    <3>1. PICK then \in {"escalated", "post"} : RequestAfter(j, w, r, then, FALSE)
      BY <1>14, <2>4 DEF Escalate
    <3>2. r.op = "update" /\ r.status = "operator"
      OBVIOUS
    <3>3. Len(w) \in 1 .. 2 /\ w[Len(w)] = Save("state", "done")
      BY DEF DoneFirst
    <3>4. Allowed(w)
      BY <2>1, <2>2
    <3> HIDE DEF r, w
    <3>5. job'[j].todo = w /\ job'[j].request = r /\ job'[j].then = then
      BY <3>1, <1>1, RequestMade DEF IInv
    <3>6. WillBeDone(j)'
      BY <3>3, <3>5 DEF WillBeDone
    <3>7. RequestSound(j)'
      BY <3>2, <3>5, <3>6 DEF RequestSound
    <3> QED
      BY <3>1, <3>4, <3>7, <1>1, RequestGoesOn
  <2> QED
    BY <2>3, <2>4
<1>15. CASE Escalated(j)
  BY <1>15, <1>1, NoWrite, HandlerGoesOn DEF Escalated
<1> QED
  BY <1>3, <1>4, <1>5, <1>6, <1>7, <1>8, <1>9, <1>10, <1>11, <1>12, <1>13, <1>14, <1>15
  DEF Talking

-----------------------------------------------------------------------------
(* The user starts a job while no other is under way.                      *)
LEMMA StartSound ==
    ASSUME ~Overlap, IInv, TypeOK', NEW j \in Jobs,
           StartMessage(j) \/ \E a \in Buttons : StartPress(j, a)
    PROVE  IInv'
<1>1. Turn(j) /\ UNCHANGED <<facts, tickets>>
  BY DEF StartMessage, StartPress, MayStart, Turn
<1> DEFINE message == [Idle EXCEPT !.pc = "begin", !.prompt = TRUE]
           press(a) == [Idle EXCEPT !.pc = "press", !.act = a]
<1>2. /\ message.todo = <<>> /\ message.pc = "begin"
      /\ \A a : press(a).todo = <<>> /\ press(a).pc = "press"
  BY DEF Idle
<1>3. Goes(j, message) \/ \E a \in Buttons : Goes(j, press(a))
  BY DEF StartMessage, StartPress
<1> HIDE DEF message, press
<1> QED
  BY <1>1, <1>2, <1>3, NoWrite, PlainGoesOn

(* The strengthened invariant, where jobs do not overlap.                  *)
LEMMA IInvCorrect ==
    ASSUME ~Overlap
    PROVE  Spec => []IInv
<1>1. Init => IInv
  <2>1. SUFFICES ASSUME Init
                 PROVE  IInv
    OBVIOUS
  <2>2. TypeOK
    BY <2>1, IdleType DEF Init, TypeOK, NoFacts, Facts, Data, Status
  <2>3. Right(facts)
    BY <2>1, Distinct DEF Init, Right, NoFacts, States
  <2>4. OthersKnown
    BY <2>1, SupportAssumption DEF Init, OthersKnown
  <2>5. \A j \in Jobs : job[j].pc = "idle" /\ job[j].todo = <<>>
    BY <2>1 DEF Init, Idle
  <2>6. OneAtATime /\ \A j \in Jobs : Sound(j)
    BY <2>5, NoWrite DEF OneAtATime, Sound, RequestSound, OutcomeSound
  <2> QED
    BY <2>2, <2>3, <2>4, <2>6 DEF IInv
<1>2. ASSUME IInv, [Next]_vars
      PROVE  IInv'
  <2>1. TypeOK
    BY <1>2 DEF IInv
  <2>2. ASSUME NEW j \in Jobs, Step(j)
        PROVE  IInv'
    BY <1>2, <2>1, <2>2, StepType, CommitSound, ServingSound, DoingSound, TalkingSound
    DEF Step
  <2>3. ASSUME NEW j \in Jobs, StartMessage(j) \/ \E a \in Buttons : StartPress(j, a)
        PROVE  IInv'
    BY <1>2, <2>1, <2>3, StartType, StartSound
  <2>4. CASE Interrupt
    <3>1. \A j \in Jobs : job'[j].pc = "idle" /\ job'[j].todo = <<>>
      BY <2>4 DEF Interrupt, Idle
    <3>2. TypeOK' /\ Right(facts)' /\ OthersKnown'
      BY <1>2, <2>4, IdleType DEF Interrupt, IInv, TypeOK, Right, OthersKnown
    <3>3. OneAtATime' /\ \A j \in Jobs : Sound(j)'
      BY <3>1, NoWrite DEF OneAtATime, Sound, Allowed, RequestSound, OutcomeSound
    <3> QED
      BY <3>2, <3>3 DEF IInv
  <2>5. CASE UNCHANGED vars
    BY <1>2, <2>5 DEF vars, IInv, TypeOK, OthersKnown, Right, OneAtATime, Sound, Allowed,
       RequestSound, OutcomeSound, Stays, WillBeDone
  <2> QED
    BY <1>2, <2>2, <2>3, <2>4, <2>5 DEF Next
<1> QED
  BY <1>1, <1>2, PTL DEF Spec

(* The work goes on about one ticket, this chat's, whatever the LLM        *)
(* answers, fails or is cut off, and however many tickets there are        *)
(* (handlePlanning with checkOpenedTicket, getCurrentTicketId).            *)
THEOREM TicketRight ==
    ASSUME ~Overlap
    PROVE  Spec => []RightTicket
<1>1. IInv => RightTicket
  <2>1. SUFFICES ASSUME IInv, facts.state \in {"execution", "verification"}
                 PROVE  RightTicket
    BY DEF RightTicket
  <2> QED
    BY <2>1, CurrentRight DEF IInv, Right, RightTicket
<1> QED
  BY <1>1, IInvCorrect, PTL

(* No step of a job changes a ticket but an update, of a request that is   *)
(* being closed or one that is done.                                       *)
LEMMA TicketStep ==
    ASSUME IInv, [Next]_vars
    PROVE  \A t \in Tickets :
               /\ tickets[t] = "operator" => tickets'[t] = "operator"
               /\ tickets[t] # tickets'[t] /\ tickets'[t] = "closed" => t \in Mine
<1>1. CASE UNCHANGED tickets
  BY <1>1
<1>2. ASSUME NEW j \in Jobs, CreateTicket(j)
      PROVE  \E t \in Tickets :
                 tickets[t] = "none" /\ tickets' = [tickets EXCEPT ![t] = "open"]
  BY <1>2 DEF CreateTicket
<1>3. ASSUME NEW j \in Jobs, UpdateTicket(j)
      PROVE  \A t \in Tickets :
               /\ tickets[t] = "operator" => tickets'[t] = "operator"
               /\ tickets[t] # tickets'[t] /\ tickets'[t] = "closed" => t \in Mine
  <2>1. \A t \in Tickets : tickets'[t] # tickets[t] =>
            t = job[j].request.ticket /\ tickets'[t] = job[j].request.status
    BY <1>3 DEF UpdateTicket
  <2>2. job[j].request.op = "update" /\ At(j, "crm") /\ RequestSound(j)
    BY <1>3 DEF UpdateTicket, Asks, IInv, Sound
  <2>3. CASE job[j].request.status = "operator"
    BY <2>1, <2>3
  <2>4. CASE /\ job[j].request.status = "closed" /\ facts.state = "verification"
             /\ job[j].request.ticket = facts.planning
    <3>1. facts.planning \in Mine /\ tickets[facts.planning] \in {"open", "closed"}
      BY <2>4 DEF IInv, Right
    <3> QED
      BY <2>1, <2>4, <3>1
  <2> QED
    BY <2>2, <2>3, <2>4 DEF At, RequestSound, Stays
<1>4. \/ UNCHANGED tickets
      \/ \E j \in Jobs : CreateTicket(j) \/ UpdateTicket(j)
  <2>1. ASSUME NEW j \in Jobs, Step(j)
        PROVE  UNCHANGED tickets \/ CreateTicket(j) \/ UpdateTicket(j)
    <3>1. CASE Commit(j) \/ Serving(j)
      BY <3>1 DEF Commit, Serving, CreateUser, CheckTicket, RequestFails
    <3>2. CASE Doing(j)
      BY <3>2 DEF Doing, UnknownAction, Proceed, Retry, Close, Closed, Rate
    <3>3. CASE Talking(j)
      BY <3>3 DEF Talking, Begin, Validate, Ask, LlmFails, HandleInit, Named, HandlePlanning,
         Checked, Created, HandleExecution, HandleVerification, HandleDone, Escalate,
         Escalated, Post
    <3> QED
      BY <2>1, <3>1, <3>2, <3>3 DEF Step
  <2>2. ASSUME NEW j \in Jobs, StartMessage(j) \/ \E a \in Buttons : StartPress(j, a)
        PROVE  UNCHANGED tickets
    BY <2>2 DEF StartMessage, StartPress
  <2> QED
    BY <2>1, <2>2 DEF Next, Interrupt, vars
<1>5. ASSUME NEW j \in Jobs, CreateTicket(j)
      PROVE  \A t \in Tickets :
               /\ tickets[t] = "operator" => tickets'[t] = "operator"
               /\ tickets[t] # tickets'[t] /\ tickets'[t] = "closed" => t \in Mine
  BY <1>2, <1>5 DEF IInv, TypeOK
<1> QED
  BY <1>1, <1>3, <1>4, <1>5

(* A ticket that an operator has got stays with the operator, and no       *)
(* ticket of another chat is closed (handleEscalation, onCloseTicket,      *)
(* updateCrmTicket).                                                       *)
THEOREM TicketsStay ==
    ASSUME ~Overlap
    PROVE  Spec => TicketsKept
<1>1. IInv /\ [Next]_vars =>
        [\A t \in Tickets :
            /\ tickets[t] = "operator" => tickets'[t] = "operator"
            /\ tickets[t] # tickets'[t] /\ tickets'[t] = "closed" => t \in Mine]_vars
  BY TicketStep
<1> QED
  BY <1>1, IInvCorrect, PTL DEF Spec, TicketsKept

-----------------------------------------------------------------------------
(* StateStore, which keeps the facts of this machine and of the others,    *)
(* for every set of callers, agents, keys and values.                      *)
(*                                                                         *)
(* StoreInv is inductive: the mutex serialises the operations, so the      *)
(* cache and the table differ only where the holder is between the two.    *)

(* Between the statement and the end of its operation, the table holds     *)
(* what the operation put there, and a read row is still the row.          *)
Executed ==
    \A c \in Callers : pc[c] = "after" =>
        LET r == req[c] IN
        /\ r.op = "save" => db[r.agent][r.key] = r.val
        /\ r.op = "get" => row[c] = db[r.agent][r.key]
        /\ r.op = "clearByKey" => db[r.agent][r.key] = NoFact
        /\ r.op = "clearState" => \A k \in Keys : db[r.agent][k] = NoFact

StoreInv == StoreTypeOK /\ MutexHeld /\ Executed /\ Coherent

-----------------------------------------------------------------------------
(* What a request holds.                                                   *)
LEMMA RequestType ==
    ASSUME NEW r \in Request
    PROVE  /\ r.op \in {"save", "get", "clearByKey", "clearState"}
           /\ r.agent \in Agents
           /\ r.key \in Keys
           /\ r.val \in Fact
           /\ r.op = "save" => r.val \in Values
  BY DEF Request, Fact

(* Clearing and saving keep the type of a table.                           *)
LEMMA TableType ==
    ASSUME NEW t \in [Agents -> [Keys -> Fact]], NEW r \in Request,
           NEW v \in Fact
    PROVE  /\ Saved(t, r, v) \in [Agents -> [Keys -> Fact]]
           /\ Cleared(t, r) \in [Agents -> [Keys -> Fact]]
  BY RequestType DEF Saved, Cleared, Fact

(* The empty table is a table.                                             *)
LEMMA EmptyTableType == EmptyTable \in [Agents -> [Keys -> Fact]]
  BY DEF EmptyTable, Fact

(* The end of an operation keeps the types.                                *)
LEMMA FinishType ==
    ASSUME StoreTypeOK, NEW c \in Callers, Finish(c)
    PROVE  /\ pc' \in [Callers -> {"idle", "waiting", "database", "after"}]
           /\ req' \in [Callers -> Request \cup {NoOperation}]
           /\ row' \in [Callers -> Fact]
           /\ pc'[c] = "idle"
           /\ \A d \in Callers \ {c} : pc'[d] = pc[d] /\ req'[d] = req[d]
                                                      /\ row'[d] = row[d]
           /\ \A d \in Callers : pc'[d] # "idle" => req'[d] \in Request
  BY DEF StoreTypeOK, Finish, Fact

(* The type invariant holds in every reachable state.                      *)
THEOREM StoreTypeCorrect == StoreSpec => []StoreTypeOK
<1>1. StoreInit => StoreTypeOK
  BY EmptyTableType DEF StoreInit, StoreTypeOK, Fact
<1>2. StoreTypeOK /\ [StoreNext]_storeVars => StoreTypeOK'
  <2> SUFFICES ASSUME StoreTypeOK, [StoreNext]_storeVars PROVE StoreTypeOK'
    OBVIOUS
  <2>1. ASSUME NEW c \in Callers, NEW r \in Request, Call(c, r) PROVE StoreTypeOK'
    BY <2>1 DEF StoreTypeOK, Call
  <2>2. ASSUME NEW c \in Callers, ReadCache(c) PROVE StoreTypeOK'
    BY <2>2, FinishType, RequestType DEF StoreTypeOK, ReadCache, Fact
  <2>3. ASSUME NEW c \in Callers, Acquire(c) PROVE StoreTypeOK'
    BY <2>3 DEF StoreTypeOK, Acquire
  <2>4. ASSUME NEW c \in Callers, Execute(c) PROVE StoreTypeOK'
    <3>1. req[c] \in Request
      BY <2>4 DEF StoreTypeOK, Execute
    <3>2. /\ req[c].agent \in Agents /\ req[c].key \in Keys
          /\ db[req[c].agent][req[c].key] \in Fact
      BY <3>1, RequestType DEF StoreTypeOK
    <3>3. /\ Saved(db, req[c], req[c].val) \in [Agents -> [Keys -> Fact]]
          /\ Cleared(db, req[c]) \in [Agents -> [Keys -> Fact]]
      BY <3>1, RequestType, TableType DEF StoreTypeOK
    <3>4. db' \in [Agents -> [Keys -> Fact]] /\ row' \in [Callers -> Fact]
      BY <2>4, <3>2, <3>3 DEF StoreTypeOK, Execute
    <3> QED
      BY <2>4, <3>4 DEF StoreTypeOK, Execute
  <2>5. ASSUME NEW c \in Callers, Return(c) PROVE StoreTypeOK'
    <3>1. req[c] \in Request /\ row[c] \in Fact
      BY <2>5 DEF StoreTypeOK, Return
    <3>2. /\ Saved(keyToFact, req[c], req[c].val) \in [Agents -> [Keys -> Fact]]
          /\ Saved(keyToFact, req[c], row[c]) \in [Agents -> [Keys -> Fact]]
          /\ Cleared(keyToFact, req[c]) \in [Agents -> [Keys -> Fact]]
      BY <3>1, RequestType, TableType DEF StoreTypeOK
    <3>3. keyToFact' \in [Agents -> [Keys -> Fact]] /\ got' \in [Callers -> Fact]
      BY <2>5, <3>1, <3>2 DEF StoreTypeOK, Return
    <3> QED
      BY <2>5, <3>3, FinishType DEF StoreTypeOK, Return
  <2>6. ASSUME NEW c \in Callers, DatabaseFails(c) PROVE StoreTypeOK'
    BY <2>6, FinishType DEF StoreTypeOK, DatabaseFails
  <2>7. ASSUME NEW c \in Callers, Cancel(c) PROVE StoreTypeOK'
    BY <2>7, FinishType DEF StoreTypeOK, Cancel, Halfway
  <2>8. CASE Restart
    BY <2>8, EmptyTableType DEF StoreTypeOK, Restart, Fact
  <2>9. CASE UNCHANGED storeVars
    BY <2>9 DEF StoreTypeOK, storeVars
  <2> QED
    BY <2>1, <2>2, <2>3, <2>4, <2>5, <2>6, <2>7, <2>8, <2>9 DEF StoreNext, StoreStep
<1> QED
  BY <1>1, <1>2, PTL DEF StoreSpec

-----------------------------------------------------------------------------
(* Only the holder of the mutex is past the lock, so only it can stand     *)
(* between the table and the cache.                                        *)
LEMMA OneHolder ==
    ASSUME MutexHeld, NEW c \in Callers, NEW d \in Callers,
           pc[c] \in {"database", "after"}, pc[d] \in {"database", "after"}
    PROVE  c = d
  BY DEF MutexHeld

(* Every step keeps the mutex with its holder.                             *)
LEMMA MutexStep == StoreTypeOK /\ MutexHeld /\ [StoreNext]_storeVars => MutexHeld'
<1> SUFFICES ASSUME StoreTypeOK, MutexHeld, [StoreNext]_storeVars PROVE MutexHeld'
  OBVIOUS
<1>1. ASSUME NEW c \in Callers, NEW r \in Request, Call(c, r) PROVE MutexHeld'
  BY <1>1 DEF StoreTypeOK, MutexHeld, Call
<1>2. ASSUME NEW c \in Callers, ReadCache(c) PROVE MutexHeld'
  BY <1>2, FinishType DEF StoreTypeOK, MutexHeld, ReadCache
<1>3. ASSUME NEW c \in Callers, Acquire(c) PROVE MutexHeld'
  BY <1>3, StoreAssumption DEF StoreTypeOK, MutexHeld, Acquire
<1>4. ASSUME NEW c \in Callers, Execute(c) PROVE MutexHeld'
  BY <1>4 DEF StoreTypeOK, MutexHeld, Execute
<1>5. ASSUME NEW c \in Callers, Return(c) PROVE MutexHeld'
  BY <1>5, FinishType, StoreAssumption DEF StoreTypeOK, MutexHeld, Return
<1>6. ASSUME NEW c \in Callers, DatabaseFails(c) PROVE MutexHeld'
  BY <1>6, FinishType, StoreAssumption DEF StoreTypeOK, MutexHeld, DatabaseFails
<1>7. ASSUME NEW c \in Callers, Cancel(c) PROVE MutexHeld'
  BY <1>7, FinishType, StoreAssumption DEF StoreTypeOK, MutexHeld, Cancel
<1>8. CASE Restart
  BY <1>8, StoreAssumption DEF StoreTypeOK, MutexHeld, Restart
<1>9. CASE UNCHANGED storeVars
  BY <1>9 DEF MutexHeld, storeVars
<1> QED
  BY <1>1, <1>2, <1>3, <1>4, <1>5, <1>6, <1>7, <1>8, <1>9 DEF StoreNext, StoreStep

(* Mutual exclusion, with or without cancellation: the mutex is held by    *)
(* exactly the caller that is past the lock and released on every way out. *)
THEOREM MutualExclusion == StoreSpec => []MutexHeld
<1>1. StoreInit => MutexHeld
  BY StoreAssumption DEF StoreInit, MutexHeld
<1> QED
  BY <1>1, StoreTypeCorrect, MutexStep, PTL DEF StoreSpec

-----------------------------------------------------------------------------
(* What a statement leaves in a table.                                     *)
LEMMA SavedValue ==
    ASSUME NEW t \in [Agents -> [Keys -> Fact]], NEW r \in Request,
           NEW v \in Fact, NEW a \in Agents, NEW k \in Keys
    PROVE  Saved(t, r, v)[a][k] =
             IF r.agent = a /\ r.key = k THEN v ELSE t[a][k]
  BY RequestType DEF Saved

(* What is left of a fact after a clear.                                   *)
LEMMA ClearedValue ==
    ASSUME NEW t \in [Agents -> [Keys -> Fact]], NEW r \in Request,
           NEW a \in Agents, NEW k \in Keys
    PROVE  Cleared(t, r)[a][k] =
             IF r.agent = a /\ (r.op = "clearState" \/ r.key = k)
               THEN NoFact ELSE t[a][k]
  BY RequestType DEF Cleared

(* Every step keeps: a statement was executed under the mutex.             *)
LEMMA ExecutedStep == StoreTypeOK /\ MutexHeld /\ Executed /\ [StoreNext]_storeVars => Executed'
<1> SUFFICES ASSUME StoreTypeOK, MutexHeld, Executed, [StoreNext]_storeVars PROVE Executed'
  OBVIOUS
<1>1. ASSUME NEW c \in Callers, NEW r \in Request, Call(c, r) PROVE Executed'
  BY <1>1 DEF StoreTypeOK, Executed, Call
<1>2. ASSUME NEW c \in Callers, ReadCache(c) PROVE Executed'
  BY <1>2, FinishType DEF StoreTypeOK, Executed, ReadCache
<1>3. ASSUME NEW c \in Callers, Acquire(c) PROVE Executed'
  BY <1>3 DEF StoreTypeOK, Executed, Acquire
<1>4. ASSUME NEW c \in Callers, Execute(c) PROVE Executed'
  <2> SUFFICES ASSUME NEW d \in Callers, pc'[d] = "after"
               PROVE  LET r == req[d]
                      IN  /\ r.op = "save" => db'[r.agent][r.key] = r.val
                          /\ r.op = "get" => row'[d] = db'[r.agent][r.key]
                          /\ r.op = "clearByKey" => db'[r.agent][r.key] = NoFact
                          /\ r.op = "clearState" =>
                               \A k \in Keys : db'[r.agent][k] = NoFact
    BY <1>4 DEF Executed, Execute
  <2>1. d = c
    BY <1>4, OneHolder DEF StoreTypeOK, Execute
  <2>2. req[c] \in Request
    BY <1>4 DEF StoreTypeOK, Execute
  <2>3. /\ req[c].agent \in Agents /\ req[c].key \in Keys
        /\ req[c].val \in Fact
    BY <2>2, RequestType
  <2>4. CASE req[c].op = "save"
    <3>1. db \in [Agents -> [Keys -> Fact]]
      BY DEF StoreTypeOK
    <3>2. db' = Saved(db, req[c], req[c].val) /\ req' = req
      BY <1>4, <2>4 DEF Execute
    <3>3. db'[req[c].agent][req[c].key] = req[c].val
      BY <2>2, <2>3, <3>1, <3>2, SavedValue
    <3> QED
      BY <2>1, <2>4, <3>2, <3>3
  <2>5. CASE req[c].op = "get"
    BY <1>4, <2>1, <2>3, <2>5 DEF StoreTypeOK, Execute
  <2>6. CASE req[c].op \in {"clearByKey", "clearState"}
    BY <1>4, <2>1, <2>2, <2>3, <2>6, ClearedValue DEF StoreTypeOK, Execute
  <2> QED
    BY <2>2, <2>4, <2>5, <2>6, RequestType
<1>5. ASSUME NEW c \in Callers, Return(c) PROVE Executed'
  BY <1>5, FinishType DEF StoreTypeOK, Executed, Return
<1>6. ASSUME NEW c \in Callers, DatabaseFails(c) PROVE Executed'
  BY <1>6, FinishType DEF StoreTypeOK, Executed, DatabaseFails
<1>7. ASSUME NEW c \in Callers, Cancel(c) PROVE Executed'
  BY <1>7, FinishType DEF StoreTypeOK, Executed, Cancel
<1>8. CASE Restart
  BY <1>8 DEF Executed, Restart
<1>9. CASE UNCHANGED storeVars
  BY <1>9 DEF Executed, storeVars
<1> QED
  BY <1>1, <1>2, <1>3, <1>4, <1>5, <1>6, <1>7, <1>8, <1>9 DEF StoreNext, StoreStep

(* Coherence of one fact.                                                  *)
CoherentAt(a, k) ==
    \/ keyToFact[a][k] \in {NoFact, db[a][k]}
    \/ \E c \in Callers : Updating(c, a, k)
    \/ <<a, k>> \in abandoned

(* The cache and the table after each step.                                *)
LEMMA CoherentStep ==
    StoreTypeOK /\ MutexHeld /\ Executed /\ Coherent /\ [StoreNext]_storeVars => Coherent'
<1> SUFFICES ASSUME StoreTypeOK, MutexHeld, Executed, Coherent, [StoreNext]_storeVars,
                    NEW a \in Agents, NEW k \in Keys
             PROVE  CoherentAt(a, k)'
  BY DEF Coherent, CoherentAt
<1>0. CoherentAt(a, k)
  BY DEF Coherent, CoherentAt
<1>1. ASSUME NEW c \in Callers, NEW r \in Request, Call(c, r)
      PROVE  CoherentAt(a, k)'
  BY <1>0, <1>1 DEF StoreTypeOK, CoherentAt, Updating, Call
<1>2. ASSUME NEW c \in Callers, ReadCache(c) PROVE CoherentAt(a, k)'
  BY <1>0, <1>2, FinishType DEF StoreTypeOK, CoherentAt, Updating, ReadCache
<1>3. ASSUME NEW c \in Callers, Acquire(c) PROVE CoherentAt(a, k)'
  BY <1>0, <1>3 DEF StoreTypeOK, CoherentAt, Updating, Acquire
<1>4. ASSUME NEW c \in Callers, Execute(c) PROVE CoherentAt(a, k)'
  <2>1. keyToFact[a][k] \in {NoFact, db[a][k]} \/ <<a, k>> \in abandoned
    BY <1>0, <1>4, OneHolder DEF StoreTypeOK, CoherentAt, Updating, Execute
  <2>2. req[c] \in Request
    BY <1>4 DEF StoreTypeOK, Execute
  <2>3. db'[a][k] = db[a][k] \/ Updating(c, a, k)'
    <3>1. CASE req[c].op = "save"
      <4>1. db \in [Agents -> [Keys -> Fact]] /\ req[c].val \in Fact
        BY <2>2, RequestType DEF StoreTypeOK
      <4>2. /\ db' = Saved(db, req[c], req[c].val)
            /\ req' = req /\ pc'[c] = "after"
        BY <1>4, <3>1 DEF StoreTypeOK, Execute
      <4>3. db'[a][k] = IF req[c].agent = a /\ req[c].key = k
                          THEN req[c].val ELSE db[a][k]
        BY <2>2, <4>1, <4>2, SavedValue
      <4> QED
        BY <3>1, <4>2, <4>3 DEF Updating
    <3>2. CASE req[c].op = "get"
      BY <1>4, <3>2 DEF StoreTypeOK, Execute
    <3>3. CASE req[c].op \in {"clearByKey", "clearState"}
      BY <1>4, <2>2, <3>3, ClearedValue, RequestType
         DEF StoreTypeOK, Execute, Updating
    <3> QED
      BY <2>2, <3>1, <3>2, <3>3, RequestType
  <2>4. keyToFact' = keyToFact /\ abandoned' = abandoned
    BY <1>4 DEF Execute
  <2> QED
    BY <2>1, <2>3, <2>4 DEF CoherentAt
<1>5. ASSUME NEW c \in Callers, Return(c) PROVE CoherentAt(a, k)'
  <2>1. req[c] \in Request /\ row[c] \in Fact /\ req[c].val \in Fact
    BY <1>5, RequestType DEF StoreTypeOK, Return
  <2>2. ASSUME ~Updating(c, a, k), <<a, k>> \in abandoned
        PROVE  CoherentAt(a, k)'
    <3>1. <<a, k>> \in abandoned'
      BY <1>5, <2>2 DEF Return, Halfway
    <3> QED
      BY <3>1 DEF CoherentAt
  <2>3. db' = db
    BY <1>5 DEF Return
  <2>4. ASSUME keyToFact[a][k] \in {NoFact, db[a][k]} \/ Updating(c, a, k)
        PROVE  keyToFact'[a][k] \in {NoFact, db'[a][k]}
    <3>1. CASE req[c].op = "save"
      <4>1. db[req[c].agent][req[c].key] = req[c].val
        BY <1>5, <3>1 DEF Return, Executed
      <4>2. keyToFact' = Saved(keyToFact, req[c], req[c].val)
        BY <1>5, <3>1 DEF Return
      <4>3. keyToFact'[a][k] = IF req[c].agent = a /\ req[c].key = k
                                 THEN req[c].val ELSE keyToFact[a][k]
        <5>1. keyToFact \in [Agents -> [Keys -> Fact]]
          BY DEF StoreTypeOK
        <5> QED
          BY <2>1, <4>2, <5>1, SavedValue
      <4>4. CASE req[c].agent = a /\ req[c].key = k
        BY <2>3, <4>1, <4>3, <4>4
      <4>5. CASE ~(req[c].agent = a /\ req[c].key = k)
        BY <2>3, <2>4, <3>1, <4>3, <4>5 DEF Updating
      <4> QED
        BY <4>4, <4>5
    <3>2. CASE req[c].op = "get"
      <4>1. row[c] = db[req[c].agent][req[c].key]
        BY <1>5, <3>2 DEF Return, Executed
      <4>2. \/ keyToFact' = keyToFact
            \/ keyToFact' = Saved(keyToFact, req[c], row[c])
        BY <1>5, <3>2 DEF Return
      <4>3. \/ keyToFact' = keyToFact
            \/ keyToFact'[a][k] = IF req[c].agent = a /\ req[c].key = k
                                    THEN row[c] ELSE keyToFact[a][k]
        <5>1. keyToFact \in [Agents -> [Keys -> Fact]]
          BY DEF StoreTypeOK
        <5> QED
          BY <2>1, <4>2, <5>1, SavedValue
      <4> QED
        BY <2>3, <2>4, <3>2, <4>1, <4>3 DEF Updating
    <3>3. CASE req[c].op \in {"clearByKey", "clearState"}
      <4>1. keyToFact \in [Agents -> [Keys -> Fact]]
        BY DEF StoreTypeOK
      <4>2. keyToFact' = Cleared(keyToFact, req[c])
        BY <1>5, <3>3 DEF Return
      <4>3. keyToFact'[a][k] =
              IF req[c].agent = a /\ (req[c].op = "clearState" \/ req[c].key = k)
                THEN NoFact ELSE keyToFact[a][k]
        BY <2>1, <4>1, <4>2, ClearedValue
      <4> QED
        BY <2>3, <2>4, <3>3, <4>3 DEF Updating
    <3> QED
      BY <2>1, <3>1, <3>2, <3>3, RequestType
  <2>5. Updating(c, a, k) \/ keyToFact[a][k] \in {NoFact, db[a][k]}
          \/ <<a, k>> \in abandoned
    BY <1>0, <1>5, OneHolder DEF CoherentAt, Return, Updating
  <2> QED
    BY <2>2, <2>4, <2>5 DEF CoherentAt
<1>6. ASSUME NEW c \in Callers, DatabaseFails(c) PROVE CoherentAt(a, k)'
  BY <1>0, <1>6, FinishType DEF StoreTypeOK, CoherentAt, Updating, DatabaseFails
<1>7. ASSUME NEW c \in Callers, Cancel(c) PROVE CoherentAt(a, k)'
  <2>1. UNCHANGED <<db, keyToFact>> /\ abandoned \subseteq abandoned'
    BY <1>7 DEF Cancel
  <2>2. CASE Updating(c, a, k)
    <3>1. <<a, k>> \in abandoned'
      BY <1>7, <2>2 DEF Cancel, Halfway
    <3> QED
      BY <3>1 DEF CoherentAt
  <2>3. ASSUME NEW d \in Callers, d # c, Updating(d, a, k)
        PROVE  Updating(d, a, k)'
    BY <1>7, <2>3, FinishType DEF Cancel, Updating
  <2> QED
    BY <1>0, <2>1, <2>2, <2>3 DEF CoherentAt
<1>8. CASE Restart
  BY <1>8 DEF CoherentAt, Restart, EmptyTable
<1>9. CASE UNCHANGED storeVars
  BY <1>0, <1>9 DEF CoherentAt, storeVars, Updating
<1> QED
  BY <1>1, <1>2, <1>3, <1>4, <1>5, <1>6, <1>7, <1>8, <1>9 DEF StoreNext, StoreStep

(* The cache never hides what the table holds: every cached fact is the    *)
(* fact in the table, outside the one operation that is bringing both up   *)
(* to date and the facts that a cancelled operation left halfway.          *)
THEOREM CacheCoherent == StoreSpec => []Coherent
<1>1. StoreInit => MutexHeld /\ Executed /\ Coherent
  BY StoreAssumption DEF StoreInit, MutexHeld, Executed, Coherent, EmptyTable
<1>2. StoreTypeOK /\ MutexHeld /\ Executed /\ Coherent /\ [StoreNext]_storeVars
        => MutexHeld' /\ Executed' /\ Coherent'
  BY MutexStep, ExecutedStep, CoherentStep
<1> QED
  BY <1>1, <1>2, StoreTypeCorrect, PTL DEF StoreSpec

-----------------------------------------------------------------------------
(* The store implements the map of facts: its table is the map, a write    *)
(* takes effect when its statement is executed, and what a read returns,   *)
(* from the cache or from the table, is the map's fact at that moment, as  *)
(* long as no cancelled operation has left a fact halfway.                 *)
THEOREM StoreImplementsMap == StoreSpec => ImplementsMap
<1>1. StoreInit => Map!Init
  BY DEF StoreInit, EmptyTable, Map!Init
<1>2. StoreTypeOK /\ MutexHeld /\ Executed /\ Coherent /\ [StoreNext]_storeVars
        => [abandoned = {} => [Map!Next]_<<db, got>>]_storeVars
  <2> SUFFICES ASSUME StoreTypeOK, MutexHeld, Executed, Coherent, [StoreNext]_storeVars,
                      abandoned = {}
               PROVE  Map!Next \/ UNCHANGED <<db, got>>
    OBVIOUS
  <2>1. ASSUME NEW c \in Callers, NEW r \in Request, Call(c, r)
        PROVE UNCHANGED <<db, got>>
    BY <2>1 DEF Call
  <2>2. ASSUME NEW c \in Callers, ReadCache(c) PROVE Map!Next
    <3>1. req[c] \in Request /\ mutex = NoCaller
      BY <2>2 DEF StoreTypeOK, ReadCache
    <3>2. PICK a \in Agents, k \in Keys : a = req[c].agent /\ k = req[c].key
      BY <3>1, RequestType
    <3>3. keyToFact[a][k] \in {NoFact, db[a][k]}
      BY <3>1, <3>2, StoreAssumption DEF Coherent, Updating, MutexHeld
    <3>4. Map!Get(c, a, k)
      BY <2>2, <3>2, <3>3 DEF ReadCache, Hit, Map!Get
    <3> QED
      BY <3>4 DEF Map!Next
  <2>3. ASSUME NEW c \in Callers, Acquire(c) PROVE UNCHANGED <<db, got>>
    BY <2>3 DEF Acquire
  <2>4. ASSUME NEW c \in Callers, Execute(c)
        PROVE Map!Next \/ UNCHANGED <<db, got>>
    <3>1. req[c] \in Request
      BY <2>4 DEF StoreTypeOK, Execute
    <3>2. PICK a \in Agents, k \in Keys : a = req[c].agent /\ k = req[c].key
      BY <3>1, RequestType
    <3>3. CASE req[c].op = "save"
      <4>1. req[c].val \in Values
        BY <3>1, <3>3, RequestType
      <4>2. Map!Save(a, k, req[c].val)
        BY <2>4, <3>2, <3>3 DEF Execute, Saved, Map!Save
      <4> QED
        BY <4>1, <4>2 DEF Map!Next
    <3>4. CASE req[c].op = "get"
      BY <2>4, <3>4 DEF Execute
    <3>5. CASE req[c].op = "clearByKey"
      <4>1. Map!ClearByKey(a, k)
        BY <2>4, <3>2, <3>5 DEF Execute, Cleared, Map!ClearByKey
      <4> QED
        BY <4>1 DEF Map!Next
    <3>6. CASE req[c].op = "clearState"
      <4>1. Map!ClearState(a)
        BY <2>4, <3>2, <3>6 DEF Execute, Cleared, Map!ClearState
      <4> QED
        BY <4>1 DEF Map!Next
    <3> QED
      BY <3>1, <3>3, <3>4, <3>5, <3>6, RequestType
  <2>5. ASSUME NEW c \in Callers, Return(c)
        PROVE Map!Next \/ UNCHANGED <<db, got>>
    <3>1. req[c] \in Request
      BY <2>5 DEF StoreTypeOK, Return
    <3>2. PICK a \in Agents, k \in Keys : a = req[c].agent /\ k = req[c].key
      BY <3>1, RequestType
    <3>3. CASE req[c].op = "get"
      <4>1. row[c] = db[a][k]
        BY <2>5, <3>2, <3>3 DEF Return, Executed
      <4>2. Map!Get(c, a, k)
        BY <2>5, <3>3, <4>1 DEF Return, Map!Get
      <4> QED
        BY <4>2 DEF Map!Next
    <3> QED
      BY <2>5, <3>1, <3>3, RequestType DEF Return
  <2>6. ASSUME NEW c \in Callers, DatabaseFails(c) PROVE UNCHANGED <<db, got>>
    BY <2>6 DEF DatabaseFails
  <2>7. ASSUME NEW c \in Callers, Cancel(c) PROVE UNCHANGED <<db, got>>
    BY <2>7 DEF Cancel
  <2>8. CASE Restart
    BY <2>8 DEF Restart, Map!Next, Map!Restart
  <2>9. CASE UNCHANGED storeVars
    BY <2>9 DEF storeVars
  <2> QED
    BY <2>1, <2>2, <2>3, <2>4, <2>5, <2>6, <2>7, <2>8, <2>9 DEF StoreNext, StoreStep
<1>3. StoreInit => MutexHeld /\ Executed /\ Coherent
  BY StoreAssumption DEF StoreInit, MutexHeld, Executed, Coherent, EmptyTable
<1>4. StoreTypeOK /\ MutexHeld /\ Executed /\ Coherent /\ [StoreNext]_storeVars
        => MutexHeld' /\ Executed' /\ Coherent'
  BY MutexStep, ExecutedStep, CoherentStep
<1> QED
  BY <1>1, <1>2, <1>3, <1>4, StoreTypeCorrect, PTL
     DEF StoreSpec, ImplementsMap
=============================================================================
