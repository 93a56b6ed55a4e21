--------------------------- MODULE PrPollingProofs ---------------------------
(***************************************************************************)
(* Proofs about PrPolling, for every feed, every number of works, updates  *)
(* in a page and files, however many polls run, are cancelled or die.  An  *)
(* id is saved by a run that has held it since it asked Telegram: that     *)
(* what the settings acknowledge is reviewed needs the same of every id a  *)
(* run has in hand.  Sound says so and is inductive.                       *)
(***************************************************************************)
EXTENDS PrPolling, WellFoundedInduction, FiniteSetTheorems, TLAPS

Reviewing == {"review", "info", "file", "outcome"}

(* The pull requests that a run of doWork takes to be done.                *)
Past(s) ==
    {u \in Prs : \/ s.pc = "get" /\ u < s.offset
                 \/ s.pc \in Reviewing /\ u < s.event
                 \/ s.pc = "save" /\ u <= s.event}

PastIsReviewed == \A w \in Works : Past(work[w]) \subseteq Reviewed

Sound == AcknowledgedAreReviewed /\ PastIsReviewed

-----------------------------------------------------------------------------
(* What the steps of doWork hold.                                          *)
LEMMA Fields ==
    ASSUME NEW s \in Steps
    PROVE  /\ s.pc = "get" => s.offset \in 1..(Len(feed) + 1)
           /\ s.pc \in Reviewing \cup {"save"} => s.event \in Prs
           /\ s.pc \in {"info", "file", "outcome"} => s.to \in Chats
           /\ s.pc = "file" => s.files \in 0..MaxFiles /\ s.reports \in 0..MaxFiles
  BY DEF Steps, Reviewing

(* The steps that doWork goes through are steps.                           *)
LEMMA Made ==
    /\ None \in Steps /\ Waiting \in Steps
    /\ [pc |-> "enqueue"] \in Steps /\ [pc |-> "ending"] \in Steps
    /\ \A n \in 1..(Len(feed) + 1) : [pc |-> "get", offset |-> n] \in Steps
    /\ \A u \in Prs : [pc |-> "review", event |-> u] \in Steps
    /\ \A u \in Prs : [pc |-> "save", event |-> u] \in Steps
    /\ \A u \in Prs, c \in Chats : [pc |-> "info", event |-> u, to |-> c] \in Steps
    /\ \A u \in Prs, c \in Chats : [pc |-> "outcome", event |-> u, to |-> c] \in Steps
    /\ \A u \in Prs, c \in Chats, n, k \in 0..MaxFiles :
         [pc |-> "file", event |-> u, to |-> c, files |-> n, reports |-> k] \in Steps
  BY DEF Steps, None, Waiting

(* Updates are numbered from one.                                          *)
LEMMA PrsAreNumbers ==
    ASSUME TypeOK
    PROVE  Len(feed) \in Nat /\ Prs \subseteq Nat \ {0} /\ Prs \subseteq Updates
<1>1. feed \in Seq({"pr", "other"})
  BY PollingAssumption DEF TypeOK
<1>2. Len(feed) \in Nat
  BY <1>1
<1> QED
  BY <1>2 DEF Prs, Updates

(* events[0]: there is a first one.                                        *)
LEMMA PickIsFirst ==
    ASSUME NEW S \in SUBSET Nat, S # {}
    PROVE  Pick(S) \in S /\ \A v \in S : Pick(S) <= v
<1> DEFINE R == OpToRel(<, Nat)
<1>1. IsWellFoundedOn(R, Nat)
  BY NatLessThanWellFounded
<1>2. \A x, y \in Nat : (<<y, x>> \in R) <=> y < x
  BY DEF OpToRel
<1> HIDE DEF R
<1>3. PICK x \in S : \A y \in S : ~ (<<y, x>> \in R)
  BY <1>1, WFMin, Zenon
<1>4. \A y \in S : x \in Nat /\ y \in Nat /\ ~(y < x)
  BY <1>2, <1>3
<1>5. \E u \in S : \A v \in S : u <= v
  BY <1>4
<1> QED
  BY <1>5 DEF Pick

(* What Enqueue changes.                                                   *)
LEMMA EnqueueWaits ==
    ASSUME NEW ws \in [Works -> Steps], Enqueue(ws)
    PROVE  /\ work' \in [Works -> Steps]
           /\ \A w \in Works : work'[w] \in {ws[w], Waiting}
<1>1. PICK v : work' = [ws EXCEPT ![v] = Waiting]
  BY DEF Enqueue
<1> QED
  BY <1>1, Made

(* The runs that a cancellation does not stop can be counted.              *)
LEMMA UncancellableCounted ==
    Cardinality(Uncancellable) \in Nat
<1>1. IsFiniteSet(Works)
  BY PollingAssumption, FS_Interval DEF Works
<1>2. Uncancellable \in SUBSET Works
  BY DEF Uncancellable
<1> QED
  BY <1>1, <1>2, FS_Subset, FS_CardinalityType

(* One more upset stays within the bound.                                  *)
LEMMA UpsetsBelow ==
    ASSUME TypeOK, Upsets < MaxUpsets
    PROVE  toggles + 1 \in 0..MaxUpsets /\ interruptions + 1 \in 0..MaxUpsets
<1>1. IsFiniteSet(Chats \ chats)
  BY PollingAssumption, FS_Difference
<1>2. Cardinality(Chats \ chats) \in Nat
  BY <1>1, FS_CardinalityType
<1> QED
  BY <1>2, PollingAssumption DEF TypeOK, Upsets

(* A step of one run keeps the type of the works.                          *)
LEMMA GotoType ==
    ASSUME TypeOK, NEW w \in Works, NEW s \in Steps, Goto(w, s)
    PROVE  /\ work' \in [Works -> Steps]
           /\ work'[w] = s
           /\ \A v \in Works \ {w} : work'[v] = work[v]
  BY DEF TypeOK, Goto

(* So does one that writes a message, or finds no chat for it.             *)
LEMMA WriteType ==
    ASSUME TypeOK, NEW w \in Works, NEW c, NEW s, c \in Chats => s \in Steps,
           Write(w, c, s)
    PROVE  /\ work' \in [Works -> Steps]
           /\ work'[w] \in {s, None}
           /\ \A v \in Works \ {w} : work'[v] = work[v]
           /\ mishaps' \subseteq Mishaps
<1>1. CASE Written(w, c, s)
  <2>1. s \in Steps /\ Goto(w, s) /\ mishaps' = mishaps
    BY <1>1 DEF Written, TypeOK
  <2> QED
    BY <2>1, GotoType DEF TypeOK
<1>2. CASE Throws(w, c)
  <2>1. Goto(w, None) /\ mishaps' = mishaps \cup {"no chat"}
    BY <1>2 DEF Throws
  <2> QED
    BY <2>1, Made, GotoType DEF TypeOK, Mishaps
<1> QED
  BY <1>1, <1>2 DEF Write

-----------------------------------------------------------------------------
(* What depends on the feed alone stays with it.                           *)
LEMMA SameFeed ==
    ASSUME feed' = feed
    PROVE  Updates' = Updates /\ Prs' = Prs /\ Steps' = Steps
  BY DEF Updates, Prs, Steps

(* The types hold at first.                                                *)
LEMMA InitType == ASSUME Init PROVE TypeOK
<1>1. feed \in Seq({"pr", "other"})
  BY PollingAssumption DEF Init
<1>2. Len(feed) \in Nat
  BY <1>1
<1>3. work \in [Works -> Steps]
  BY Made DEF Init
<1>4. outcomes \in [Updates -> Nat] /\ mishaps \subseteq Mishaps
  BY DEF Init
<1>5. /\ arrived \in 0..Len(feed) /\ confirmed \in 1..(Len(feed) + 1)
      /\ lastUpdateId \in 0..Len(feed)
  BY <1>2 DEF Init
<1>6. toggles \in 0..MaxUpsets /\ interruptions \in 0..MaxUpsets
  BY PollingAssumption DEF Init
<1> QED
  BY <1>3, <1>4, <1>5, <1>6 DEF Init, TypeOK

(* The steps outside doWork.                                               *)
LEMMA TypeOutside ==
    ASSUME TypeOK,
           \/ Arrive
           \/ \E c \in Chats : DeleteChat(c) \/ \E on \in BOOLEAN : Toggle(on, c)
           \/ TellWorkManager \/ StrayEnqueue \/ Die
    PROVE  TypeOK'
<1>1. CASE Arrive
  <2>1. feed' = feed /\ arrived' \in 0..Len(feed)
    BY <1>1, PrsAreNumbers DEF Arrive, TypeOK
  <2> QED
    BY <1>1, <2>1, SameFeed DEF Arrive, TypeOK, settings, switch
<1>2. ASSUME NEW c \in Chats, DeleteChat(c)
      PROVE  TypeOK'
  BY <1>2, SameFeed DEF DeleteChat, TypeOK, settings, switch
<1>3. ASSUME NEW c \in Chats, NEW on \in BOOLEAN, Toggle(on, c)
      PROVE  TypeOK'
  <2>1. toggles' \in 0..MaxUpsets
    BY <1>3, UpsetsBelow DEF Toggle
  <2> QED
    BY <1>3, <2>1, SameFeed DEF Toggle, TypeOK, world
<1>4. CASE TellWorkManager
  <2>1. Cancelled(work) \in [Works -> Steps]
    BY Made DEF Cancelled
  <2>2. work' \in [Works -> Steps]
    <3>1. Enqueue(Cancelled(work)) \/ work' = Cancelled(work)
      BY <1>4 DEF TellWorkManager
    <3> QED
      BY <2>1, <3>1, EnqueueWaits
  <2>3. strays' \in Nat
    <3>1. strays' = strays + Cardinality(Uncancellable) /\ strays \in Nat
      BY <1>4 DEF TellWorkManager, TypeOK
    <3> QED
      BY <3>1, UncancellableCounted
  <2>4. mishaps' \subseteq Mishaps
    BY <1>4 DEF TellWorkManager, TypeOK, Mishaps
  <2> QED
    BY <1>4, <2>2, <2>3, <2>4, SameFeed DEF TellWorkManager, TypeOK, world, settings
<1>5. CASE StrayEnqueue
  <2>1. work' \in [Works -> Steps]
    BY <1>5, EnqueueWaits DEF StrayEnqueue, TypeOK
  <2>2. strays' \in Nat
    BY <1>5 DEF StrayEnqueue, TypeOK
  <2> QED
    BY <1>5, <2>1, <2>2, SameFeed DEF StrayEnqueue, TypeOK, world, settings, switch
<1>6. CASE Die
  <2>1. work' \in [Works -> Steps]
    BY <1>6, Made DEF Die, TypeOK
  <2>2. interruptions' \in 0..MaxUpsets
    BY <1>6, UpsetsBelow DEF Die
  <2>3. mishaps' \subseteq Mishaps
    BY <1>6 DEF Die, TypeOK, Mishaps
  <2> QED
    BY <1>6, <2>1, <2>2, <2>3, SameFeed DEF Die, TypeOK, world, settings
<1> QED
  BY <1>1, <1>2, <1>3, <1>4, <1>5, <1>6

(* The update that GetUpdates picks.                                       *)
LEMMA EventPicked ==
    ASSUME TypeOK, NEW n \in Nat, Events(n) # {}
    PROVE  /\ Pick(Events(n)) \in Prs
           /\ \A u \in Prs : u < Pick(Events(n)) => u < Greater(n, confirmed)
<1>1. Prs \subseteq Nat /\ Len(feed) \in Nat
  BY PrsAreNumbers
<1>2. confirmed \in Nat /\ arrived \in Nat
  BY <1>1 DEF TypeOK
<1>3. Greater(n, confirmed) \in Nat
  BY <1>2 DEF Greater
<1>4. Events(n) \in SUBSET Prs
  BY DEF Events
<1> DEFINE p == Pick(Events(n))
<1>5. p \in Events(n) /\ \A v \in Events(n) : p <= v
  BY <1>1, <1>4, PickIsFirst
<1>6. p \in Prs /\ p <= arrived /\ p < Greater(n, confirmed) + Limit
  BY <1>5 DEF Events
<1> HIDE DEF p
<1>7. ASSUME NEW u \in Prs, u < p
      PROVE  u < Greater(n, confirmed)
  <2>1. u \in Nat /\ p \in Nat /\ Limit \in Nat
    BY <1>1, <1>6, PollingAssumption
  <2>2. u <= arrived /\ u < Greater(n, confirmed) + Limit
    BY <1>2, <1>3, <1>6, <1>7, <2>1
  <2>3. u \notin Events(n)
    BY <1>5, <1>7, <2>1
  <2>4. ~(Greater(n, confirmed) <= u)
    BY <2>2, <2>3 DEF Events
  <2> QED
    BY <1>3, <2>1, <2>4
<1> QED
  BY <1>6, <1>7 DEF p

(* The steps of doWork, and an interruption.                               *)
LEMMA TypeWork ==
    ASSUME TypeOK, NEW w \in Works, Start(w) \/ Proceed(w) \/ CutShort(w)
    PROVE  TypeOK'
<1> DEFINE step == work[w]
<1>0. step \in Steps
  BY DEF TypeOK
<1> HIDE DEF step
<1>a. /\ lastUpdateId \in Nat /\ confirmed \in Nat /\ arrived \in Nat
      /\ Len(feed) \in Nat /\ Prs \subseteq Nat \ {0} /\ Prs \subseteq Updates
  BY PrsAreNumbers DEF TypeOK
<1>b. /\ step.pc = "get" => step.offset \in 1..(Len(feed) + 1)
      /\ step.pc \in Reviewing \cup {"save"} => step.event \in Prs
      /\ step.pc \in {"info", "file", "outcome"} => step.to \in Chats
      /\ step.pc = "file" => step.files \in 0..MaxFiles /\ step.reports \in 0..MaxFiles
  BY <1>0, Fields
<1>1. CASE Start(w)
  <2>1. lastUpdateId + 1 \in 1..(Len(feed) + 1)
    BY <1>a DEF TypeOK
  <2>2. work' \in [Works -> Steps]
    BY <1>1, <2>1, Made, GotoType DEF Start
  <2> QED
    BY <1>1, <2>2, SameFeed DEF Start, TypeOK, world, settings, switch
<1>2. CASE GetUpdates(w)
  <2> DEFINE n == step.offset
             events == Events(n)
  <2>1. step.pc = "get" /\ confirmed' = Greater(n, confirmed)
    BY <1>2 DEF GetUpdates, At, step
  <2>2. n \in 1..(Len(feed) + 1) /\ n \in Nat
    BY <1>a, <1>b, <2>1
  <2>3. \/ events = {} /\ Goto(w, [pc |-> "enqueue"])
        \/ events # {} /\ Goto(w, [pc |-> "review", event |-> Pick(events)])
    BY <1>2 DEF GetUpdates, step
  <2>4. events # {} => Pick(events) \in Prs
    BY <2>2, EventPicked
  <2>5. work' \in [Works -> Steps]
    BY <2>3, <2>4, Made, GotoType
  <2>6. confirmed' \in 1..(Len(feed) + 1)
    BY <2>1, <2>2 DEF Greater, TypeOK
  <2>7. /\ UNCHANGED <<feed, arrived, chats, enabled, chatId, lastUpdateId, toggle>>
        /\ UNCHANGED <<toggles, interruptions, strays, outcomes, mishaps>>
    BY <1>2 DEF GetUpdates, world, settings, switch
  <2> QED
    BY <2>5, <2>6, <2>7, SameFeed DEF TypeOK
<1>3. CASE RequestFails(w)
  <2>1. work' \in [Works -> Steps]
    BY <1>3, Made, GotoType DEF RequestFails, AfterFailure
  <2> QED
    BY <1>3, <2>1, SameFeed DEF RequestFails, TypeOK, world, settings, switch
<1>4. CASE StartReview(w)
  <2> DEFINE s == [pc |-> "info", event |-> step.event, to |-> chatId]
  <2>1. step.pc = "review" /\ Write(w, chatId, s)
    BY <1>4 DEF StartReview, At, step
  <2>2. chatId \in Chats => s \in Steps
    BY <1>b, <2>1, Made DEF Reviewing
  <2>3. work' \in [Works -> Steps] /\ mishaps' \subseteq Mishaps
    BY <2>1, <2>2, WriteType
  <2> QED
    BY <1>4, <2>3, SameFeed DEF StartReview, TypeOK, world, settings, switch
<1>5. CASE InfoFails(w)
  <2> DEFINE s == [pc |-> "outcome", event |-> step.event, to |-> step.to]
  <2>1. step.pc = "info" /\ Goto(w, s)
    BY <1>5 DEF InfoFails, At, step
  <2>2. s \in Steps
    BY <1>b, <2>1, Made DEF Reviewing
  <2>3. work' \in [Works -> Steps]
    BY <2>1, <2>2, GotoType
  <2> QED
    BY <1>5, <2>3, SameFeed DEF InfoFails, TypeOK, world, settings, switch
<1>6. CASE CollectInfo(w)
  <2>1. PICK n \in 0..MaxFiles : Write(w, step.to, FileStep(w, n, 0))
    BY <1>6 DEF CollectInfo, step
  <2>2. step.pc = "info"
    BY <1>6 DEF CollectInfo, At, step
  <2>3. FileStep(w, n, 0) \in Steps
    <3>1. step.event \in Prs /\ step.to \in Chats
      BY <1>b, <2>2 DEF Reviewing
    <3>2. 0 \in 0..MaxFiles
      BY PollingAssumption
    <3> QED
      BY <3>1, <3>2, Made DEF FileStep, step
  <2>4. work' \in [Works -> Steps] /\ mishaps' \subseteq Mishaps
    BY <2>1, <2>3, WriteType
  <2> QED
    BY <1>6, <2>4, SameFeed DEF CollectInfo, TypeOK, world, settings, switch
<1>7. CASE ReviewFile(w)
  <2> DEFINE s == FileStep(w, step.files, step.reports + 1)
  <2>1. /\ step.pc = "file" /\ step.reports < step.files
        /\ Write(w, step.to, s)
    BY <1>7 DEF ReviewFile, HasMore, At, step
  <2>2. step.reports + 1 \in 0..MaxFiles
    BY <1>b, <2>1, PollingAssumption
  <2>3. s \in Steps
    BY <1>b, <2>1, <2>2, Made DEF FileStep, Reviewing, step
  <2>4. work' \in [Works -> Steps] /\ mishaps' \subseteq Mishaps
    BY <2>1, <2>3, WriteType
  <2> QED
    BY <1>7, <2>4, SameFeed DEF ReviewFile, TypeOK, world, settings, switch
<1>8. CASE Summarize(w)
  <2> DEFINE s == [pc |-> "outcome", event |-> step.event, to |-> step.to]
  <2>1. step.pc = "file" /\ Write(w, step.to, s)
    BY <1>8 DEF Summarize, At, step
  <2>2. s \in Steps
    BY <1>b, <2>1, Made DEF Reviewing
  <2>3. work' \in [Works -> Steps] /\ mishaps' \subseteq Mishaps
    BY <2>1, <2>2, WriteType
  <2> QED
    BY <1>8, <2>3, SameFeed DEF Summarize, TypeOK, world, settings, switch
<1>9. CASE TellOutcome(w)
  <2> DEFINE s == [pc |-> "save", event |-> step.event]
  <2>1. step.pc = "outcome" /\ Write(w, step.to, s)
    BY <1>9 DEF TellOutcome, Write, At, step
  <2>2. s \in Steps
    BY <1>b, <2>1, Made DEF Reviewing
  <2>3. work' \in [Works -> Steps] /\ mishaps' \subseteq Mishaps
    BY <2>1, <2>2, WriteType
  <2>4. \/ outcomes' = [outcomes EXCEPT ![step.event] = @ + 1]
        \/ outcomes' = outcomes
    BY <1>9 DEF TellOutcome, step
  <2>5. step.event \in Updates /\ outcomes \in [Updates -> Nat]
    BY <1>a, <1>b, <2>1 DEF Reviewing, TypeOK
  <2>6. outcomes' \in [Updates -> Nat]
    BY <2>4, <2>5
  <2> QED
    BY <1>9, <2>3, <2>6, SameFeed DEF TellOutcome, TypeOK, world, settings, switch
<1>10. CASE SaveId(w)
  <2>1. step.pc = "save" /\ lastUpdateId' = step.event
    BY <1>10 DEF SaveId, At, step
  <2>2. lastUpdateId' \in 0..Len(feed)
    <3>1. step.event \in Updates
      BY <1>a, <1>b, <2>1
    <3> QED
      BY <1>a, <2>1, <3>1 DEF Updates
  <2>3. work' \in [Works -> Steps]
    BY <1>10, Made, GotoType DEF SaveId
  <2> QED
    BY <1>10, <2>2, <2>3, SameFeed DEF SaveId, TypeOK, world, switch
<1>11. CASE EnqueueNext(w)
  <2>1. [work EXCEPT ![w] = [pc |-> "ending"]] \in [Works -> Steps]
    BY Made DEF TypeOK
  <2>2. work' \in [Works -> Steps]
    BY <1>11, <2>1, EnqueueWaits DEF EnqueueNext
  <2> QED
    BY <1>11, <2>2, SameFeed DEF EnqueueNext, TypeOK, world, settings, switch
<1>12. CASE Succeed(w)
  <2>1. work' \in [Works -> Steps]
    BY <1>12, Made, GotoType DEF Succeed
  <2> QED
    BY <1>12, <2>1, SameFeed DEF Succeed, TypeOK, world, settings, switch
<1>13. CASE CutShort(w)
  <2>1. work' \in [Works -> Steps]
    BY <1>13, Made, GotoType DEF CutShort
  <2>2. interruptions' \in 0..MaxUpsets
    BY <1>13, UpsetsBelow DEF CutShort
  <2>3. strays' \in {strays, strays + 1} /\ strays \in Nat
    BY <1>13 DEF CutShort, TypeOK
  <2>4. strays' \in Nat
    BY <2>3
  <2>5. mishaps' \subseteq Mishaps
    BY <1>13 DEF CutShort, TypeOK, Mishaps
  <2> QED
    BY <1>13, <2>1, <2>2, <2>4, <2>5, SameFeed DEF CutShort, TypeOK, world, settings, switch
<1> QED
  BY <1>1, <1>2, <1>3, <1>4, <1>5, <1>6, <1>7, <1>8, <1>9, <1>10, <1>11, <1>12, <1>13
     DEF Proceed

(* The type invariant: every setting, counter and step of doWork stays in  *)
(* its range, in particular the ids that are asked for, reviewed and saved *)
(* are those of updates of the bot.                                        *)
THEOREM TypeCorrect == Spec => []TypeOK
<1>1. Init => TypeOK
  BY InitType
<1>2. TypeOK /\ [Next]_vars => TypeOK'
  <2> SUFFICES ASSUME TypeOK, [Next]_vars PROVE TypeOK'
    OBVIOUS
  <2>1. CASE Next
    BY <2>1, TypeOutside, TypeWork DEF Next
  <2>2. CASE UNCHANGED vars
    BY <2>2, SameFeed DEF TypeOK, vars
  <2> QED
    BY <2>1, <2>2
<1> QED
  BY <1>1, <1>2, PTL DEF Spec

-----------------------------------------------------------------------------
(* What a step has to keep for the acknowledged to remain reviewed.        *)
LEMMA SoundKept ==
    ASSUME TypeOK, feed' = feed, Reviewed \subseteq Reviewed',
           \A u \in Prs : u <= lastUpdateId' \/ u < confirmed' => u \in Reviewed',
           \A w \in Works : Past(work'[w]) \subseteq Reviewed'
    PROVE  Sound'
<1>1. Prs' = Prs
  BY SameFeed
<1>2. \A w \in Works : Past(work[w])' = Past(work'[w])
  BY <1>1 DEF Past
<1> QED
  BY <1>1, <1>2 DEF Sound, AcknowledgedAreReviewed, PastIsReviewed

(* Only the end of a review that is told adds to the reviewed.             *)
LEMMA SameReviewed ==
    ASSUME feed' = feed, outcomes' = outcomes
    PROVE  Reviewed' = Reviewed
  BY SameFeed DEF Reviewed

(* A run between its reviews takes nothing to be done.                     *)
LEMMA NothingPast ==
    ASSUME NEW s, s.pc \in {"none", "enqueued", "enqueue", "ending"}
    PROVE  Past(s) = {}
  BY DEF Past, Reviewing

(* Steps that acknowledge nothing, and after which no run takes more to be *)
(* done than a run did before.                                             *)
LEMMA SoundUnmoved ==
    ASSUME TypeOK, Sound, feed' = feed, outcomes' = outcomes,
           confirmed' = confirmed, lastUpdateId' = lastUpdateId,
           \A w \in Works : \/ Past(work'[w]) \subseteq Past(work[w])
                            \/ work'[w].pc \in {"none", "enqueued", "enqueue", "ending"}
    PROVE  Sound'
<1>1. Reviewed' = Reviewed
  BY SameReviewed
<1>2. \A w \in Works : Past(work'[w]) \subseteq Reviewed'
  BY <1>1, NothingPast DEF Sound, PastIsReviewed
<1> QED
  BY <1>1, <1>2, SoundKept DEF Sound, AcknowledgedAreReviewed

(* Enqueueing is such a step.                                              *)
LEMMA EnqueueUnmoved ==
    ASSUME NEW ws \in [Works -> Steps], Enqueue(ws),
           \A v \in Works : ws[v] = work[v] \/ ws[v].pc \in {"none", "ending"}
    PROVE  \A v \in Works : \/ Past(work'[v]) \subseteq Past(work[v])
                            \/ work'[v].pc \in {"none", "enqueued", "enqueue", "ending"}
  BY EnqueueWaits DEF Waiting

(* The steps outside doWork keep the invariant.                            *)
LEMMA SoundOutside ==
    ASSUME TypeOK, Sound,
           \/ Arrive
           \/ \E c \in Chats : DeleteChat(c) \/ \E on \in BOOLEAN : Toggle(on, c)
           \/ TellWorkManager \/ StrayEnqueue \/ Die
    PROVE  Sound'
<1>1. /\ feed' = feed /\ outcomes' = outcomes
      /\ confirmed' = confirmed /\ lastUpdateId' = lastUpdateId
  BY DEF Arrive, DeleteChat, Toggle, TellWorkManager, StrayEnqueue, Die, world, settings
<1> SUFFICES \A w \in Works : \/ Past(work'[w]) \subseteq Past(work[w])
                             \/ work'[w].pc \in {"none", "enqueued", "enqueue", "ending"}
  BY <1>1, SoundUnmoved
<1>2. CASE \/ Arrive
           \/ \E c \in Chats : DeleteChat(c) \/ \E on \in BOOLEAN : Toggle(on, c)
  BY <1>2 DEF Arrive, DeleteChat, Toggle
<1>3. CASE TellWorkManager
  <2>1. /\ Cancelled(work) \in [Works -> Steps]
        /\ \A w \in Works : Cancelled(work)[w].pc = "none"
    BY Made DEF Cancelled, None
  <2>2. Enqueue(Cancelled(work)) \/ work' = Cancelled(work)
    BY <1>3 DEF TellWorkManager
  <2> QED
    BY <2>1, <2>2, EnqueueUnmoved
<1>4. CASE StrayEnqueue
  BY <1>4, EnqueueUnmoved DEF StrayEnqueue, TypeOK
<1>5. CASE Die
  BY <1>5 DEF Die, Waiting
<1> QED
  BY <1>2, <1>3, <1>4, <1>5

(* A step of one run, after which this run takes no more to be done.       *)
LEMMA SoundGoto ==
    ASSUME TypeOK, Sound, NEW w \in Works,
           feed' = feed, outcomes' = outcomes,
           confirmed' = confirmed, lastUpdateId' = lastUpdateId,
           \A v \in Works \ {w} : work'[v] = work[v],
           \/ Past(work'[w]) \subseteq Past(work[w])
           \/ work'[w].pc \in {"none", "enqueued", "enqueue", "ending"}
    PROVE  Sound'
  BY SoundUnmoved

(* Within a review, a run stays with its pull request.                     *)
LEMMA SameEvent ==
    ASSUME NEW s, NEW r, s.pc \in Reviewing, r.pc \in Reviewing, s.event = r.event
    PROVE  Past(r) \subseteq Past(s)
  BY DEF Past, Reviewing

(* A message within a review keeps it.                                     *)
LEMMA SoundWrite ==
    ASSUME TypeOK, Sound, NEW w \in Works, NEW c, NEW s, c \in Chats => s \in Steps,
           Write(w, c, s), Past(s) \subseteq Past(work[w]),
           feed' = feed, outcomes' = outcomes,
           confirmed' = confirmed, lastUpdateId' = lastUpdateId
    PROVE  Sound'
<1>1. work'[w] \in {s, None} /\ \A v \in Works \ {w} : work'[v] = work[v]
  BY WriteType
<1>2. Past(work'[w]) \subseteq Past(work[w]) \/ work'[w].pc = "none"
  BY <1>1 DEF None
<1> QED
  BY <1>1, <1>2, SoundGoto

(* What Telegram forgets at the request of a run, and what the run passes  *)
(* over on the way to the pull request it picks, was done before.          *)
LEMMA SoundGetUpdates ==
    ASSUME TypeOK, Sound, NEW w \in Works, GetUpdates(w)
    PROVE  Sound'
<1> DEFINE n == work[w].offset
           events == Events(n)
<1>1. /\ work[w].pc = "get" /\ confirmed' = Greater(n, confirmed)
      /\ feed' = feed /\ lastUpdateId' = lastUpdateId /\ outcomes' = outcomes
  BY DEF GetUpdates, At, world, settings
<1>2. n \in Nat
  <2>1. n \in 1..(Len(feed) + 1)
    BY <1>1, Fields DEF TypeOK
  <2> QED
    BY <2>1, PrsAreNumbers
<1>3. Reviewed' = Reviewed
  BY <1>1, SameReviewed
<1>4. \A u \in Prs : u < Greater(n, confirmed) => u \in Reviewed
  <2>1. \A u \in Prs : u < n => u \in Past(work[w])
    BY <1>1 DEF Past
  <2>2. \A u \in Prs : u < n \/ u < confirmed => u \in Reviewed
    BY <2>1 DEF Sound, AcknowledgedAreReviewed, PastIsReviewed
  <2> QED
    BY <2>2 DEF Greater
<1>5. \/ events = {} /\ Goto(w, [pc |-> "enqueue"])
      \/ events # {} /\ Goto(w, [pc |-> "review", event |-> Pick(events)])
  BY DEF GetUpdates
<1>6. /\ Past(work'[w]) \subseteq Reviewed
      /\ \A v \in Works \ {w} : work'[v] = work[v]
  <2>1. CASE events = {} /\ Goto(w, [pc |-> "enqueue"])
    <3> DEFINE s == [pc |-> "enqueue"]
    <3>1. work'[w] = s /\ \A v \in Works \ {w} : work'[v] = work[v]
      BY <2>1, Made, GotoType
    <3>2. Past(s) = {}
      BY NothingPast
    <3> QED
      BY <3>1, <3>2
  <2>2. CASE events # {} /\ Goto(w, [pc |-> "review", event |-> Pick(events)])
    <3> DEFINE p == Pick(events)
               s == [pc |-> "review", event |-> p]
    <3>1. p \in Prs /\ \A u \in Prs : u < p => u < Greater(n, confirmed)
      BY <1>2, <2>2, EventPicked
    <3>2. work'[w] = s /\ \A v \in Works \ {w} : work'[v] = work[v]
      BY <2>2, <3>1, Made, GotoType
    <3>3. \A u \in Past(s) : u \in Prs /\ u < p
      BY DEF Past, Reviewing
    <3> QED
      BY <1>4, <3>1, <3>2, <3>3
  <2> QED
    BY <1>5, <2>1, <2>2
<1>7. \A v \in Works : Past(work'[v]) \subseteq Reviewed'
  BY <1>3, <1>6 DEF Sound, PastIsReviewed
<1>8. \A u \in Prs : u <= lastUpdateId' \/ u < confirmed' => u \in Reviewed'
  BY <1>1, <1>3, <1>4 DEF Sound, AcknowledgedAreReviewed
<1> QED
  BY <1>1, <1>3, <1>7, <1>8, SoundKept

(* The end of a review is told: its pull request is past, for this run.    *)
LEMMA SoundTellOutcome ==
    ASSUME TypeOK, Sound, NEW w \in Works, TellOutcome(w)
    PROVE  Sound'
<1> DEFINE e == work[w].event
           c == work[w].to
           s == [pc |-> "save", event |-> e]
<1>1. /\ work[w].pc = "outcome" /\ feed' = feed
      /\ lastUpdateId' = lastUpdateId /\ confirmed' = confirmed
  BY DEF TellOutcome, At, world, settings
<1>2. e \in Prs /\ c \in Chats
  BY <1>1, Fields DEF TypeOK, Reviewing
<1>3. s \in Steps
  BY <1>2, Made
<1>4. CASE Written(w, c, s) /\ outcomes' = [outcomes EXCEPT ![e] = @ + 1]
  <2>1. work'[w] = s /\ \A v \in Works \ {w} : work'[v] = work[v]
    BY <1>3, <1>4, GotoType DEF Written
  <2>2. Prs' = Prs /\ Prs \subseteq Updates /\ Prs \subseteq Nat
    BY <1>1, SameFeed, PrsAreNumbers
  <2>3. \A u \in Prs : outcomes[u] \in Nat
    BY <2>2 DEF TypeOK
  <2>4. \A u \in Prs : outcomes'[u] = IF u = e THEN outcomes[u] + 1 ELSE outcomes[u]
    BY <1>2, <1>4, <2>2 DEF TypeOK
  <2>5. Reviewed \subseteq Reviewed' /\ e \in Reviewed'
    <3>1. \A u \in Prs : outcomes[u] > 0 \/ u = e => outcomes'[u] > 0
      BY <2>3, <2>4
    <3>2. Reviewed' = {u \in Prs : outcomes'[u] > 0}
      BY <2>2 DEF Reviewed
    <3> QED
      BY <1>2, <3>1, <3>2 DEF Reviewed
  <2>6. Past(s) \subseteq Reviewed'
    <3>1. \A u \in Past(s) : u \in Prs /\ u <= e
      BY DEF Past, Reviewing
    <3>2. \A u \in Nat : u <= e => u < e \/ u = e
      BY <1>2, <2>2
    <3>3. \A u \in Prs : u < e => u \in Past(work[w])
      BY <1>1 DEF Past, Reviewing
    <3>4. Past(work[w]) \subseteq Reviewed
      BY DEF Sound, PastIsReviewed
    <3> QED
      BY <2>2, <2>5, <3>1, <3>2, <3>3, <3>4
  <2>7. \A v \in Works : Past(work'[v]) \subseteq Reviewed'
    BY <2>1, <2>5, <2>6 DEF Sound, PastIsReviewed
  <2>8. \A u \in Prs : u <= lastUpdateId' \/ u < confirmed' => u \in Reviewed'
    BY <1>1, <2>5 DEF Sound, AcknowledgedAreReviewed
  <2> QED
    BY <1>1, <2>5, <2>7, <2>8, SoundKept
<1>5. CASE Throws(w, c) /\ outcomes' = outcomes
  <2>1. work'[w] = None /\ \A v \in Works \ {w} : work'[v] = work[v]
    BY <1>5, Made, GotoType DEF Throws
  <2> QED
    BY <1>1, <1>5, <2>1, SoundGoto DEF None
<1> QED
  BY <1>4, <1>5 DEF TellOutcome

(* The id that is saved is one whose review this run has seen to the end.  *)
LEMMA SoundSaveId ==
    ASSUME TypeOK, Sound, NEW w \in Works, SaveId(w)
    PROVE  Sound'
<1> DEFINE e == work[w].event
           s == [pc |-> "enqueue"]
<1>1. /\ work[w].pc = "save" /\ lastUpdateId' = e
      /\ feed' = feed /\ confirmed' = confirmed /\ outcomes' = outcomes
  BY DEF SaveId, At, world
<1>2. work'[w] = s /\ \A v \in Works \ {w} : work'[v] = work[v]
  BY Made, GotoType DEF SaveId
<1>3. Reviewed' = Reviewed
  BY <1>1, SameReviewed
<1>4. \A u \in Prs : u <= e => u \in Reviewed
  <2>1. \A u \in Prs : u <= e => u \in Past(work[w])
    BY <1>1 DEF Past
  <2>2. Past(work[w]) \subseteq Reviewed
    BY DEF Sound, PastIsReviewed
  <2> QED
    BY <2>1, <2>2
<1>5. Past(s) = {}
  BY DEF Past, Reviewing
<1>6. \A v \in Works : Past(work'[v]) \subseteq Reviewed'
  BY <1>2, <1>3, <1>5 DEF Sound, PastIsReviewed
<1>7. \A u \in Prs : u <= lastUpdateId' \/ u < confirmed' => u \in Reviewed'
  BY <1>1, <1>3, <1>4 DEF Sound, AcknowledgedAreReviewed
<1> QED
  BY <1>1, <1>3, <1>6, <1>7, SoundKept

(* Every step of doWork keeps it.                                          *)
LEMMA SoundWork ==
    ASSUME TypeOK, Sound, NEW w \in Works, Start(w) \/ Proceed(w) \/ CutShort(w)
    PROVE  Sound'
<1> DEFINE step == work[w]
<1>0. step \in Steps
  BY DEF TypeOK
<1>a. /\ step.pc \in Reviewing => step.event \in Prs
      /\ step.pc \in {"info", "file", "outcome"} => step.to \in Chats
      /\ step.pc = "file" => step.files \in 0..MaxFiles /\ step.reports \in 0..MaxFiles
  BY <1>0, Fields
<1>1. CASE Start(w)
  <2> DEFINE s == [pc |-> "get", offset |-> lastUpdateId + 1]
  <2>1. lastUpdateId + 1 \in 1..(Len(feed) + 1) /\ lastUpdateId \in Nat
    BY PrsAreNumbers DEF TypeOK
  <2>2. Goto(w, s) /\ s \in Steps
    BY <1>1, <2>1, Made DEF Start
  <2>3. work'[w] = s /\ \A v \in Works \ {w} : work'[v] = work[v]
    BY <2>2, GotoType
  <2>4. \A u \in Past(s) : u \in Prs /\ u < lastUpdateId + 1
    BY DEF Past, Reviewing
  <2>5. \A u \in Prs : u < lastUpdateId + 1 => u <= lastUpdateId
    BY <2>1, PrsAreNumbers
  <2>6. Past(s) \subseteq Reviewed
    BY <2>4, <2>5 DEF Sound, AcknowledgedAreReviewed
  <2>7. /\ feed' = feed /\ outcomes' = outcomes
        /\ confirmed' = confirmed /\ lastUpdateId' = lastUpdateId
    BY <1>1 DEF Start, world, settings
  <2>8. Reviewed' = Reviewed
    BY <2>7, SameReviewed
  <2>9. \A v \in Works : Past(work'[v]) \subseteq Reviewed'
    BY <2>3, <2>6, <2>8 DEF Sound, PastIsReviewed
  <2> QED
    BY <2>7, <2>8, <2>9, SoundKept DEF Sound, AcknowledgedAreReviewed
<1>2. CASE GetUpdates(w)
  BY <1>2, SoundGetUpdates
<1>3. CASE RequestFails(w) \/ Succeed(w) \/ CutShort(w)
  <2>1. /\ \E s \in {[pc |-> "enqueue"], None, Waiting} : Goto(w, s)
        /\ feed' = feed /\ outcomes' = outcomes
        /\ confirmed' = confirmed /\ lastUpdateId' = lastUpdateId
    BY <1>3 DEF RequestFails, AfterFailure, Succeed, CutShort, world, settings
  <2>2. PICK s \in {[pc |-> "enqueue"], None, Waiting} : Goto(w, s)
    BY <2>1
  <2>3. s \in Steps /\ s.pc \in {"none", "enqueued", "enqueue", "ending"}
    BY Made DEF None, Waiting
  <2>4. work'[w] = s /\ \A v \in Works \ {w} : work'[v] = work[v]
    BY <2>2, <2>3, GotoType
  <2> QED
    BY <2>1, <2>3, <2>4, SoundGoto
<1>4. CASE StartReview(w)
  <2> DEFINE s == [pc |-> "info", event |-> step.event, to |-> chatId]
  <2>1. /\ step.pc = "review" /\ Write(w, chatId, s)
        /\ feed' = feed /\ outcomes' = outcomes
        /\ confirmed' = confirmed /\ lastUpdateId' = lastUpdateId
    BY <1>4 DEF StartReview, At, world, settings
  <2>2. chatId \in Chats => s \in Steps
    BY <1>a, <2>1, Made DEF Reviewing
  <2>3. Past(s) \subseteq Past(step)
    BY <2>1, SameEvent DEF Reviewing
  <2> QED
    BY <2>1, <2>2, <2>3, SoundWrite
<1>5. CASE InfoFails(w)
  <2> DEFINE s == [pc |-> "outcome", event |-> step.event, to |-> step.to]
  <2>1. /\ step.pc = "info" /\ Goto(w, s)
        /\ feed' = feed /\ outcomes' = outcomes
        /\ confirmed' = confirmed /\ lastUpdateId' = lastUpdateId
    BY <1>5 DEF InfoFails, At, world, settings
  <2>2. s \in Steps
    BY <1>a, <2>1, Made DEF Reviewing
  <2>3. Past(s) \subseteq Past(step)
    BY <2>1, SameEvent DEF Reviewing
  <2> QED
    BY <2>1, <2>2, <2>3, GotoType, SoundGoto
<1>6. CASE CollectInfo(w)
  <2>1. PICK n \in 0..MaxFiles : Write(w, step.to, FileStep(w, n, 0))
    BY <1>6 DEF CollectInfo
  <2> DEFINE s == FileStep(w, n, 0)
  <2>2. /\ step.pc = "info"
        /\ feed' = feed /\ outcomes' = outcomes
        /\ confirmed' = confirmed /\ lastUpdateId' = lastUpdateId
    BY <1>6 DEF CollectInfo, At, world, settings
  <2>3. s.pc = "file" /\ s.event = step.event
    BY DEF FileStep
  <2>4. s \in Steps
    <3>1. step.event \in Prs /\ step.to \in Chats
      BY <1>a, <2>2 DEF Reviewing
    <3>2. 0 \in 0..MaxFiles
      BY PollingAssumption
    <3> QED
      BY <3>1, <3>2, Made DEF FileStep
  <2>5. Past(s) \subseteq Past(step)
    BY <2>2, <2>3, SameEvent DEF Reviewing
  <2> QED
    BY <2>1, <2>2, <2>4, <2>5, SoundWrite
<1>7. CASE ReviewFile(w)
  <2> DEFINE s == FileStep(w, step.files, step.reports + 1)
  <2>1. /\ step.pc = "file" /\ step.reports < step.files /\ Write(w, step.to, s)
        /\ feed' = feed /\ outcomes' = outcomes
        /\ confirmed' = confirmed /\ lastUpdateId' = lastUpdateId
    BY <1>7 DEF ReviewFile, HasMore, At, world, settings
  <2>2. s.pc = "file" /\ s.event = step.event
    BY DEF FileStep
  <2>3. s \in Steps
    <3>1. step.event \in Prs /\ step.to \in Chats /\ step.files \in 0..MaxFiles
      BY <1>a, <2>1 DEF Reviewing
    <3>2. step.reports + 1 \in 0..MaxFiles
      BY <1>a, <2>1, PollingAssumption
    <3> QED
      BY <3>1, <3>2, Made DEF FileStep
  <2>4. Past(s) \subseteq Past(step)
    BY <2>1, <2>2, SameEvent DEF Reviewing
  <2> QED
    BY <2>1, <2>3, <2>4, SoundWrite
<1>8. CASE Summarize(w)
  <2> DEFINE s == [pc |-> "outcome", event |-> step.event, to |-> step.to]
  <2>1. /\ step.pc = "file" /\ Write(w, step.to, s)
        /\ feed' = feed /\ outcomes' = outcomes
        /\ confirmed' = confirmed /\ lastUpdateId' = lastUpdateId
    BY <1>8 DEF Summarize, At, world, settings
  <2>2. s \in Steps
    BY <1>a, <2>1, Made DEF Reviewing
  <2>3. Past(s) \subseteq Past(step)
    BY <2>1, SameEvent DEF Reviewing
  <2> QED
    BY <2>1, <2>2, <2>3, SoundWrite
<1>9. CASE TellOutcome(w)
  BY <1>9, SoundTellOutcome
<1>10. CASE SaveId(w)
  BY <1>10, SoundSaveId
<1>11. CASE EnqueueNext(w)
  <2> DEFINE ws == [work EXCEPT ![w] = [pc |-> "ending"]]
  <2>1. ws \in [Works -> Steps] /\ \A v \in Works : ws[v] = work[v] \/ ws[v].pc = "ending"
    BY Made DEF TypeOK
  <2>2. /\ Enqueue(ws) /\ feed' = feed /\ outcomes' = outcomes
        /\ confirmed' = confirmed /\ lastUpdateId' = lastUpdateId
    BY <1>11 DEF EnqueueNext, world, settings
  <2> HIDE DEF ws
  <2>3. \A v \in Works : \/ Past(work'[v]) \subseteq Past(work[v])
                         \/ work'[v].pc \in {"none", "enqueued", "enqueue", "ending"}
    BY <2>1, <2>2, EnqueueUnmoved
  <2> QED
    BY <2>2, <2>3, SoundUnmoved
<1> QED
  BY <1>1, <1>2, <1>3, <1>4, <1>5, <1>6, <1>7, <1>8, <1>9, <1>10, <1>11 DEF Proceed

(* No pull request is lost: neither the cursor in the settings nor what    *)
(* Telegram was told to forget ever passes one whose review has not ended, *)
(* whatever feed, cancelled runs, interruptions and chats that go.         *)
THEOREM NoPullRequestLost == Spec => []AcknowledgedAreReviewed
<1>1. Init => Sound
  <2> SUFFICES ASSUME Init PROVE Sound
    OBVIOUS
  <2>1. Prs \subseteq Nat \ {0} /\ confirmed = 1 /\ lastUpdateId = 0
    BY InitType, PrsAreNumbers DEF Init
  <2>2. \A u \in Prs : ~(u <= lastUpdateId) /\ ~(u < confirmed)
    BY <2>1
  <2>3. \A w \in Works : Past(work[w]) = {}
    BY NothingPast DEF Init, None
  <2> QED
    BY <2>2, <2>3 DEF Sound, AcknowledgedAreReviewed, PastIsReviewed
<1>2. TypeOK /\ Sound /\ [Next]_vars => Sound'
  <2> SUFFICES ASSUME TypeOK, Sound, [Next]_vars PROVE Sound'
    OBVIOUS
  <2>1. CASE Next
    BY <2>1, SoundOutside, SoundWork DEF Next
  <2>2. CASE UNCHANGED vars
    BY <2>2, SoundUnmoved DEF vars
  <2> QED
    BY <2>1, <2>2
<1>3. Sound => AcknowledgedAreReviewed
  BY DEF Sound
<1> QED
  BY <1>1, <1>2, <1>3, TypeCorrect, PTL DEF Spec

-----------------------------------------------------------------------------
(***************************************************************************)
(* The chain of polls: there is one at most, the switch rules it, and a    *)
(* review is repeated only after an upset.  Two invariants:                *)
(*                                                                         *)
(* Ruled  the chains there are, with what the settings are about to tell   *)
(*        WorkManager; a second chain comes from strays or from a work     *)
(*        that died with its successor enqueued, and both are mishaps.     *)
(* Once   until something is interrupted, the only run has in hand ids     *)
(*        beyond the saved one, and what was told to have ended is saved   *)
(*        or about to be.                                                  *)
(***************************************************************************)
Live(s) == s.pc \notin {"none", "ending"}

NoTwo == \A v, w \in Chains : v = w

Ruled ==
    /\ mishaps \cap {"cut poll", "died at the end"} = {} => strays = 0 /\ NoTwo
    /\ toggle = "on" => enabled
    /\ toggle = "off" => ~enabled
    /\ SwitchRules

-----------------------------------------------------------------------------
(* A link of a chain is a work whose place is live.                        *)
LEMMA ChainsAreLive == \A w \in Works : w \in Chains <=> Live(work[w])
  BY DEF Chains, Live

(* A step of one work leaves the others where they are.                    *)
LEMMA GotoChains ==
    ASSUME TypeOK, NEW w \in Works, NEW s, Goto(w, s)
    PROVE  /\ work'[w] = s
           /\ \A v \in Works \ {w} : work'[v] = work[v]
           /\ Chains' = IF Live(s) THEN Chains \cup {w} ELSE Chains \ {w}
<1>1. work'[w] = s /\ \A v \in Works \ {w} : work'[v] = work[v]
  BY DEF TypeOK, Goto
<1> QED
  BY <1>1 DEF Chains, Live

(* A work that is enqueued takes a free place.                             *)
LEMMA EnqueuePlace ==
    ASSUME NEW ws, Enqueue(ws)
    PROVE  \E v \in Works : ws[v] = None /\ work' = [ws EXCEPT ![v] = Waiting]
<1>1. Free(ws) # {} /\ Free(ws) \in SUBSET Nat
  BY PollingAssumption DEF Enqueue, Free, Works
<1>2. Pick(Free(ws)) \in Free(ws)
  BY <1>1, PickIsFirst
<1> QED
  BY <1>2 DEF Enqueue, Pick, Free

LEMMA EnqueueChains ==
    ASSUME NEW ws \in [Works -> Steps], Enqueue(ws)
    PROVE  \E v \in Works :
             /\ ws[v] = None
             /\ work'[v] = Waiting /\ \A u \in Works \ {v} : work'[u] = ws[u]
             /\ Chains' = {w \in Works : Live(ws[w])} \cup {v}
<1>1. PICK v \in Works : ws[v] = None /\ work' = [ws EXCEPT ![v] = Waiting]
  BY EnqueuePlace
<1>2. work'[v] = Waiting /\ \A u \in Works \ {v} : work'[u] = ws[u]
  BY <1>1
<1>3. Chains' = {w \in Works : Live(ws[w])} \cup {v}
  BY <1>2 DEF Chains, Live, Waiting
<1> QED
  BY <1>1, <1>2, <1>3

(* How doWork moves: on, out of it for want of a chat, to the next poll,   *)
(* or to its end.                                                          *)
Continues(w) == Live(work[w]) /\ \E s : Goto(w, s) /\ Live(s)
Breaks(w)    == Goto(w, None) /\ "no chat" \in mishaps'
Succeeds(w)  == Goto(w, None) /\ work[w].pc = "ending"
HandsOver(w) == /\ work[w].pc = "enqueue"
                /\ Enqueue([work EXCEPT ![w] = [pc |-> "ending"]])

(* A message is written, or there is no chat.                              *)
LEMMA WriteMoves ==
    ASSUME NEW w \in Works, NEW c, NEW s, Live(work[w]), Live(s), Write(w, c, s)
    PROVE  (Continues(w) \/ Breaks(w)) /\ mishaps \subseteq mishaps'
  BY DEF Write, Written, Throws, Continues, Breaks

LEMMA WorkMoves ==
    ASSUME NEW w \in Works, Start(w) \/ Proceed(w)
    PROVE  /\ Continues(w) \/ Breaks(w) \/ Succeeds(w) \/ HandsOver(w)
           /\ mishaps \subseteq mishaps' /\ work[w].pc # "none"
           /\ UNCHANGED <<feed, enabled, toggle, toggles, interruptions, strays>>
<1> USE DEF At, Live, world, settings, switch
<1>1. CASE Start(w)
  BY <1>1 DEF Start, Continues
<1>2. CASE GetUpdates(w)
  BY <1>2 DEF GetUpdates, Continues
<1>3. CASE RequestFails(w)
  BY <1>3 DEF RequestFails, AfterFailure, Continues
<1>4. CASE StartReview(w)
  BY <1>4, WriteMoves DEF StartReview
<1>5. CASE InfoFails(w)
  BY <1>5 DEF InfoFails, Continues
<1>6. CASE CollectInfo(w)
  BY <1>6, WriteMoves DEF CollectInfo, FileStep
<1>7. CASE ReviewFile(w)
  BY <1>7, WriteMoves DEF ReviewFile, FileStep
<1>8. CASE Summarize(w)
  BY <1>8, WriteMoves DEF Summarize
<1>9. CASE TellOutcome(w)
  BY <1>9, WriteMoves DEF TellOutcome, Write
<1>10. CASE SaveId(w)
  BY <1>10 DEF SaveId, Continues
<1>11. CASE EnqueueNext(w)
  BY <1>11 DEF EnqueueNext, HandsOver
<1>12. CASE Succeed(w)
  BY <1>12 DEF Succeed, Succeeds
<1> QED
  BY <1>1, <1>2, <1>3, <1>4, <1>5, <1>6, <1>7, <1>8, <1>9, <1>10, <1>11, <1>12
  DEF Proceed

(* So a chain goes on in its work or in the next, or ends for want of a    *)
(* chat.                                                                   *)
LEMMA ChainMoves ==
    ASSUME TypeOK, NEW w \in Works, Start(w) \/ Proceed(w)
    PROVE  \/ Chains' = Chains
           \/ Chains' = Chains \ {w} /\ "no chat" \in mishaps'
           \/ w \in Chains /\ \E v \in Works : Chains' = (Chains \ {w}) \cup {v}
<1>1. CASE Continues(w)
  <2>1. PICK s : Goto(w, s) /\ Live(s)
    BY <1>1 DEF Continues
  <2>2. w \in Chains
    BY <1>1, ChainsAreLive DEF Continues
  <2> QED
    BY <2>1, <2>2, GotoChains
<1>0. ~Live(None)
  BY DEF Live, None
<1>2. CASE Breaks(w)
  BY <1>0, <1>2, GotoChains DEF Breaks
<1>3. CASE Succeeds(w)
  <2>1. w \notin Chains
    BY <1>3, ChainsAreLive DEF Succeeds, Live
  <2> QED
    BY <1>0, <1>3, <2>1, GotoChains DEF Succeeds
<1>4. CASE HandsOver(w)
  <2> DEFINE ws == [work EXCEPT ![w] = [pc |-> "ending"]]
  <2>1. ws \in [Works -> Steps] /\ Enqueue(ws)
    BY <1>4, Made DEF HandsOver, TypeOK
  <2>2. {u \in Works : Live(ws[u])} = Chains \ {w}
    BY DEF TypeOK, Chains, Live
  <2>3. w \in Chains
    BY <1>4, ChainsAreLive DEF HandsOver, Live
  <2> HIDE DEF ws
  <2> QED
    BY <2>1, <2>2, <2>3, EnqueueChains
<1> QED
  BY <1>1, <1>2, <1>3, <1>4, WorkMoves

-----------------------------------------------------------------------------
(* At first there is no chain and no switch on.                            *)
LEMMA InitRuled == Init => Ruled
  BY DEF Init, Ruled, NoTwo, SwitchRules, Chains, None

(* The world and the switch do not touch the chains.                       *)
LEMMA RuledSettings ==
    ASSUME TypeOK, Ruled,
           \/ Arrive
           \/ \E c \in Chats : DeleteChat(c) \/ \E on \in BOOLEAN : Toggle(on, c)
    PROVE  Ruled'
<1>1. /\ Chains' = Chains /\ UNCHANGED <<strays, mishaps>>
      /\ \/ UNCHANGED <<toggle, enabled>>
         \/ toggle' = "on" /\ enabled'
         \/ toggle' = "off" /\ ~enabled'
  BY DEF Arrive, DeleteChat, Toggle, Chains, settings, switch
<1>2. CASE UNCHANGED <<toggle, enabled>>
  BY <1>1, <1>2 DEF Ruled, NoTwo, SwitchRules
<1>3. CASE toggle' = "on" /\ enabled'
  BY <1>1, <1>3 DEF Ruled, NoTwo, SwitchRules
<1>4. CASE toggle' = "off" /\ ~enabled'
  BY <1>1, <1>4 DEF Ruled, NoTwo, SwitchRules
<1> QED
  BY <1>1, <1>2, <1>3, <1>4

(* What WorkManager is told: no chain, or a new one and no other.          *)
LEMMA RuledTell ==
    ASSUME TypeOK, Ruled, TellWorkManager
    PROVE  Ruled'
<1>1. /\ toggle' = "none" /\ enabled' = enabled
      /\ strays' = strays + Cardinality(Uncancellable)
      /\ mishaps' = mishaps \cup (IF Uncancellable = {} THEN {} ELSE {"cut poll"})
  BY DEF TellWorkManager, settings
<1>2. Cancelled(work) \in [Works -> Steps] /\ \A w \in Works : ~Live(Cancelled(work)[w])
  BY Made DEF Cancelled, None, Live
<1>3. ASSUME mishaps' \cap {"cut poll", "died at the end"} = {}
      PROVE  strays' = 0
  <2>1. Uncancellable = {} /\ strays = 0
    BY <1>1, <1>3 DEF Ruled
  <2>2. Cardinality(Uncancellable) = 0
    BY <2>1, FS_EmptySet
  <2>3. strays' = strays + Cardinality(Uncancellable)
    BY <1>1
  <2> QED
    BY <2>1, <2>2, <2>3
<1>4. CASE toggle = "on" /\ Enqueue(Cancelled(work))
  <2>1. PICK v \in Works : Chains' = {w \in Works : Live(Cancelled(work)[w])} \cup {v}
    BY <1>2, <1>4, EnqueueChains
  <2>2. Chains' = {v}
    BY <1>2, <2>1
  <2> QED
    BY <1>1, <1>3, <1>4, <2>2 DEF Ruled, NoTwo, SwitchRules
<1>5. CASE toggle = "off" /\ work' = Cancelled(work)
  <2>1. Chains' = {}
    BY <1>2, <1>5 DEF Chains, Live
  <2> QED
    BY <1>1, <1>3, <1>5, <2>1 DEF Ruled, NoTwo, SwitchRules
<1> QED
  BY <1>4, <1>5 DEF TellWorkManager

(* A stray adds a chain: it is one of a poll that was cut.                 *)
LEMMA RuledStray ==
    ASSUME TypeOK, Ruled, StrayEnqueue
    PROVE  Ruled'
<1>1. /\ strays > 0 /\ Enqueue(work)
      /\ UNCHANGED <<toggle, enabled, mishaps>>
  BY DEF StrayEnqueue, settings, switch
<1>2. mishaps \cap {"cut poll", "died at the end"} # {}
  <2>1. strays # 0
    BY <1>1 DEF TypeOK
  <2> QED
    BY <2>1 DEF Ruled
<1>3. PICK v \in Works : Chains' = {w \in Works : Live(work[w])} \cup {v}
  BY <1>1, EnqueueChains DEF TypeOK
<1>4. Chains' # {}
  BY <1>3
<1> QED
  BY <1>1, <1>2, <1>4 DEF Ruled, SwitchRules

(* A process that dies, or a work that is cut short, starts the works that *)
(* ran again: chains stay chains, and one that ends begins anew.           *)
LEMMA RuledInterrupted ==
    ASSUME TypeOK, Ruled, Die \/ \E w \in Works : CutShort(w)
    PROVE  Ruled'
<1>1. CASE Die
  <2>1. /\ toggle' = "none" /\ enabled' = enabled /\ strays' = 0
        /\ mishaps \subseteq mishaps'
        /\ toggle # "none" => "half toggle" \in mishaps'
        /\ Ending # {} => "died at the end" \in mishaps'
    BY <1>1 DEF Die, settings
  <2>2. \A w \in Works : work'[w] = IF w \in Running THEN Waiting ELSE work[w]
    BY <1>1 DEF Die
  <2>3. Chains \subseteq Chains' /\ (Ending = {} => Chains' = Chains)
    BY <2>2 DEF Chains, Ending, Running, Waiting
  <2> QED
    BY <2>1, <2>3 DEF Ruled, NoTwo, SwitchRules
<1>2. ASSUME NEW w \in Works, CutShort(w)
      PROVE  Ruled'
  <2>1. /\ UNCHANGED <<toggle, enabled>> /\ mishaps \subseteq mishaps'
        /\ w \in Ending => "died at the end" \in mishaps'
        /\ w \in Uncancellable => "cut poll" \in mishaps'
        /\ w \notin Uncancellable => strays' = strays
    BY <1>2 DEF CutShort, settings, switch
  <2>2. Chains' = Chains \cup {w}
    <3>1. Goto(w, Waiting) /\ Live(Waiting)
      BY <1>2 DEF CutShort, Waiting, Live
    <3> QED
      BY <3>1, GotoChains
  <2>3. w \in Ending \/ w \in Chains
    BY <1>2 DEF CutShort, Running, Ending, Chains
  <2> QED
    BY <2>1, <2>2, <2>3 DEF Ruled, NoTwo, SwitchRules
<1> QED
  BY <1>1, <1>2

LEMMA RuledWork ==
    ASSUME TypeOK, Ruled, NEW w \in Works, Start(w) \/ Proceed(w)
    PROVE  Ruled'
<1>1. /\ UNCHANGED <<toggle, enabled, strays>> /\ mishaps \subseteq mishaps'
  BY WorkMoves
<1>2. CASE Chains' = Chains
  BY <1>1, <1>2 DEF Ruled, NoTwo, SwitchRules
<1>3. CASE Chains' = Chains \ {w} /\ "no chat" \in mishaps'
  BY <1>1, <1>3 DEF Ruled, NoTwo, SwitchRules
<1>4. CASE w \in Chains /\ \E v \in Works : Chains' = (Chains \ {w}) \cup {v}
  BY <1>1, <1>4 DEF Ruled, NoTwo, SwitchRules
<1> QED
  BY <1>2, <1>3, <1>4, ChainMoves

(* Every step keeps it.                                                    *)
LEMMA StepRuled == TypeOK /\ Ruled /\ [Next]_vars => Ruled'
<1> SUFFICES ASSUME TypeOK, Ruled, [Next]_vars PROVE Ruled'
  OBVIOUS
<1>1. CASE Next
  BY <1>1, RuledSettings, RuledTell, RuledStray, RuledInterrupted, RuledWork DEF Next
<1>2. CASE UNCHANGED vars
  BY <1>2 DEF vars, Ruled, NoTwo, SwitchRules, Chains
<1> QED
  BY <1>1, <1>2

LEMMA SpecRuled == Spec => []Ruled
<1> QED
  BY InitRuled, StepRuled, TypeCorrect, PTL DEF Spec

(* However often the switch is turned and runs are stopped, there is one   *)
(* chain of polls, unless a poll was cut in its request or died at its end.*)
THEOREM OneChainOfPolls == Spec => []OneChain
<1>1. Ruled => OneChain
  <2> SUFFICES ASSUME NoTwo PROVE Cardinality(Chains) <= 1
    BY DEF Ruled, OneChain
  <2>1. Chains = {} \/ \E w : Chains = {w}
    BY DEF NoTwo
  <2> QED
    BY <2>1, FS_EmptySet, FS_Singleton
<1> QED
  BY <1>1, SpecRuled, PTL

(* The switch rules the chain, for every number of works and upsets.       *)
THEOREM SwitchRulesTheChain == Spec => []SwitchRules
<1>1. Ruled => SwitchRules
  BY DEF Ruled
<1> QED
  BY <1>1, SpecRuled, PTL

-----------------------------------------------------------------------------
(* No interruption yet, and the switch was turned once at most.            *)
Calm == interruptions = 0 /\ toggles <= 1

Idle == \A w \in Works : work[w].pc = "none"

(* What a run has in hand is beyond the saved id.                          *)
Ahead(s, id) ==
    /\ s.pc = "get" => id < s.offset
    /\ s.pc \in Reviewing \cup {"save"} => id < s.event

Saving(u) == \E w \in Works : work[w].pc = "save" /\ work[w].event = u

(* A review that was told to have ended was told once, and its id is saved *)
(* or about to be.                                                         *)
ToldOnce == \A u \in Prs : outcomes[u] > 0 =>
                outcomes[u] = 1 /\ (u <= lastUpdateId \/ Saving(u))

OneRun ==
    /\ strays = 0 /\ NoTwo
    /\ toggles = 0 => toggle = "none"
    /\ toggles = 0 \/ toggle # "none" => Idle

Once ==
    Calm => /\ OneRun
            /\ \A w \in Works : Ahead(work[w], lastUpdateId)
            /\ ToldOnce

LEMMA InitOnce == Init => Once
<1> SUFFICES ASSUME Init PROVE Once
  OBVIOUS
<1>1. \A w \in Works : work[w].pc = "none"
  BY DEF Init, None
<1>2. OneRun
  BY <1>1 DEF Init, OneRun, NoTwo, Chains, Idle
<1>3. \A w \in Works : Ahead(work[w], lastUpdateId)
  BY <1>1 DEF Ahead, Reviewing
<1>4. ToldOnce
  BY DEF Init, ToldOnce, Prs
<1> QED
  BY <1>2, <1>3, <1>4 DEF Once

(* A run that is not about to save goes where what it has in hand is ahead *)
(* of the saved id.                                                        *)
LEMMA GotoAhead ==
    ASSUME TypeOK, ToldOnce, \A v \in Works : Ahead(work[v], lastUpdateId),
           NEW w \in Works, work[w].pc # "save",
           NEW s, Goto(w, s), Ahead(s, lastUpdateId),
           UNCHANGED <<feed, lastUpdateId, outcomes>>
    PROVE  ToldOnce' /\ \A v \in Works : Ahead(work[v], lastUpdateId)'
<1>1. work'[w] = s /\ \A v \in Works \ {w} : work'[v] = work[v]
  BY GotoChains
<1>2. \A u \in Prs : Saving(u) => Saving(u)'
  BY <1>1 DEF Saving
<1>3. Prs' = Prs
  BY SameFeed
<1> QED
  BY <1>1, <1>2, <1>3 DEF ToldOnce, Ahead

(* A message in a review, or no chat for it.                               *)
LEMMA WriteAhead ==
    ASSUME TypeOK, ToldOnce, \A v \in Works : Ahead(work[v], lastUpdateId),
           NEW w \in Works, work[w].pc \in Reviewing,
           NEW c, NEW s, Write(w, c, s), s.pc \in Reviewing,
           s.event = work[w].event,
           UNCHANGED <<feed, lastUpdateId, outcomes>>
    PROVE  ToldOnce' /\ \A v \in Works : Ahead(work[v], lastUpdateId)'
<1>1. Ahead(s, lastUpdateId) /\ Ahead(None, lastUpdateId)
  BY DEF Ahead, None, Reviewing
<1>2. Goto(w, s) \/ Goto(w, None)
  BY DEF Write, Written, Throws
<1>3. work[w].pc # "save"
  BY DEF Reviewing
<1> QED
  BY <1>1, <1>2, <1>3, GotoAhead

(* The pull request that is picked is none below the offset.               *)
LEMMA PickedAhead ==
    ASSUME TypeOK, NEW n \in Nat, Events(n) # {}
    PROVE  n <= Pick(Events(n)) /\ Pick(Events(n)) \in Nat
<1>1. Events(n) \in SUBSET Nat
  BY PrsAreNumbers DEF Events
<1>2. Pick(Events(n)) \in Events(n) /\ Pick(Events(n)) \in Nat
  BY <1>1, PickIsFirst
<1>3. Greater(n, confirmed) <= Pick(Events(n))
  BY <1>2 DEF Events
<1>4. confirmed \in Nat
  BY PrsAreNumbers DEF TypeOK
<1> QED
  BY <1>2, <1>3, <1>4 DEF Greater

(* The end of a review is told by the only run, for an id that nobody told *)
(* before: it is ahead of the saved one.                                   *)
LEMMA OutcomeToldOnce ==
    ASSUME TypeOK, OneRun, ToldOnce, \A v \in Works : Ahead(work[v], lastUpdateId),
           NEW w \in Works, TellOutcome(w)
    PROVE  ToldOnce' /\ \A v \in Works : Ahead(work[v], lastUpdateId)'
<1> DEFINE e == work[w].event
           s == [pc |-> "save", event |-> e]
<1>1. work[w].pc = "outcome" /\ UNCHANGED <<feed, lastUpdateId>>
  BY DEF TellOutcome, At, world, settings
<1>2. e \in Prs /\ e \in Nat /\ lastUpdateId \in Nat /\ lastUpdateId < e
  <2>1. e \in Prs
    BY <1>1, Fields DEF TypeOK, Reviewing
  <2>2. lastUpdateId < e
    BY <1>1 DEF Ahead, Reviewing
  <2> QED
    BY <2>1, <2>2, PrsAreNumbers DEF TypeOK
<1>3. Ahead(s, lastUpdateId) /\ Ahead(None, lastUpdateId)
  BY <1>2 DEF Ahead, None, Reviewing
<1>4. CASE Written(w, work[w].to, s) /\ outcomes' = [outcomes EXCEPT ![e] = @ + 1]
  <2>1. work'[w] = s /\ \A v \in Works \ {w} : work'[v] = work[v]
    BY <1>4, GotoChains DEF Written
  <2>2. \A u \in Prs : ~Saving(u)
    <3>1. \A v \in Works : work[v].pc = "save" => v \in Chains
      BY DEF Chains
    <3>2. w \in Chains
      BY <1>1 DEF Chains
    <3> QED
      BY <1>1, <3>1, <3>2 DEF Saving, OneRun, NoTwo
  <2>3. Prs' = Prs /\ Prs \subseteq Updates /\ Prs \subseteq Nat
    BY <1>1, SameFeed, PrsAreNumbers
  <2>4. outcomes[e] = 0
    <3>1. outcomes[e] \in Nat
      BY <1>2, <2>3 DEF TypeOK
    <3>2. ~(outcomes[e] > 0)
      BY <1>2, <2>2 DEF ToldOnce
    <3> QED
      BY <3>1, <3>2
  <2>5. \A u \in Prs : outcomes'[u] = IF u = e THEN 1 ELSE outcomes[u]
    BY <1>2, <1>4, <2>3, <2>4 DEF TypeOK
  <2>6. \A u \in Prs : u = e => Saving(u)'
    BY <2>1 DEF Saving
  <2>7. ASSUME NEW u \in Prs, outcomes'[u] > 0
        PROVE  outcomes'[u] = 1 /\ (u <= lastUpdateId \/ Saving(u)')
    <3>1. CASE u = e
      BY <2>5, <2>6, <3>1
    <3>2. CASE u # e
      <4>1. outcomes'[u] = outcomes[u]
        BY <2>5, <3>2
      <4> QED
        BY <2>2, <2>7, <4>1 DEF ToldOnce
    <3> QED
      BY <3>1, <3>2
  <2>8. ToldOnce'
    BY <1>1, <2>3, <2>7 DEF ToldOnce
  <2> QED
    BY <1>1, <1>3, <2>1, <2>8 DEF Ahead
<1>5. CASE Throws(w, work[w].to) /\ outcomes' = outcomes
  BY <1>1, <1>3, <1>5, GotoAhead DEF Throws
<1> QED
  BY <1>4, <1>5 DEF TellOutcome

(* The id that is saved is ahead of the saved one, and of no other run's.  *)
LEMMA SavedOnce ==
    ASSUME TypeOK, OneRun, ToldOnce, \A v \in Works : Ahead(work[v], lastUpdateId),
           NEW w \in Works, SaveId(w)
    PROVE  ToldOnce' /\ \A v \in Works : Ahead(work[v], lastUpdateId)'
<1> DEFINE e == work[w].event
           s == [pc |-> "enqueue"]
<1>1. /\ work[w].pc = "save" /\ lastUpdateId' = e
      /\ UNCHANGED <<feed, outcomes>>
  BY DEF SaveId, At, world
<1>2. e \in Nat /\ lastUpdateId \in Nat /\ lastUpdateId < e /\ Prs \subseteq Nat
  <2>1. e \in Prs
    BY <1>1, Fields DEF TypeOK, Reviewing
  <2>2. lastUpdateId < e
    BY <1>1 DEF Ahead
  <2> QED
    BY <2>1, <2>2, PrsAreNumbers DEF TypeOK
<1>3. work'[w] = s /\ \A v \in Works \ {w} : work'[v] = work[v]
  BY GotoChains DEF SaveId
<1>4. \A v \in Works \ {w} : work[v].pc \in {"none", "ending"}
  <2>1. w \in Chains
    BY <1>1 DEF Chains
  <2> QED
    BY <2>1 DEF Chains, OneRun, NoTwo
<1>5. \A v \in Works : Ahead(work[v], lastUpdateId)'
  BY <1>3, <1>4 DEF Ahead, Reviewing
<1>6. ASSUME NEW u \in Prs, outcomes[u] > 0
      PROVE  outcomes[u] = 1 /\ u <= e
  <2>1. outcomes[u] = 1 /\ (u <= lastUpdateId \/ Saving(u))
    BY <1>6 DEF ToldOnce
  <2>2. Saving(u) => u = e
    BY <1>4 DEF Saving
  <2> QED
    BY <1>2, <2>1, <2>2
<1>7. ToldOnce'
  BY <1>1, <1>6, SameFeed DEF ToldOnce
<1> QED
  BY <1>5, <1>7

(* The next poll has nothing in hand yet.                                  *)
LEMMA NextPollOnce ==
    ASSUME TypeOK, ToldOnce, \A v \in Works : Ahead(work[v], lastUpdateId),
           NEW w \in Works, EnqueueNext(w)
    PROVE  ToldOnce' /\ \A v \in Works : Ahead(work[v], lastUpdateId)'
<1> DEFINE ws == [work EXCEPT ![w] = [pc |-> "ending"]]
<1>1. /\ work[w].pc = "enqueue" /\ Enqueue(ws)
      /\ UNCHANGED <<feed, lastUpdateId, outcomes>>
  BY DEF EnqueueNext, At, world, settings
<1>2. /\ ws \in [Works -> Steps]
      /\ ws[w].pc = "ending" /\ \A v \in Works \ {w} : ws[v] = work[v]
  BY Made DEF TypeOK
<1> HIDE DEF ws
<1>3. PICK n \in Works : /\ ws[n] = None /\ work'[n] = Waiting
                         /\ \A v \in Works \ {n} : work'[v] = ws[v]
  BY <1>1, <1>2, EnqueueChains
<1>4. \A v \in Works : \/ work'[v] = work[v]
                       \/ /\ work'[v].pc \in {"enqueued", "ending"}
                          /\ work[v].pc \in {"none", "enqueue"}
  BY <1>1, <1>2, <1>3 DEF None, Waiting
<1>5. \A v \in Works : Ahead(work[v], lastUpdateId)'
  BY <1>1, <1>4 DEF Ahead, Reviewing
<1>6. \A u \in Prs : Saving(u) => Saving(u)'
  BY <1>4 DEF Saving
<1>7. Prs' = Prs
  BY <1>1, SameFeed
<1> QED
  BY <1>1, <1>5, <1>6, <1>7 DEF ToldOnce

(* The steps of doWork.                                                    *)
LEMMA OnceWork ==
    ASSUME TypeOK, Once, NEW w \in Works, Start(w) \/ Proceed(w)
    PROVE  Once'
<1> SUFFICES ASSUME Calm' PROVE Once'
  BY DEF Once
<1>1. /\ UNCHANGED <<feed, toggle, toggles, interruptions, strays>>
      /\ work[w].pc # "none"
  BY WorkMoves
<1>2. /\ OneRun /\ ToldOnce
      /\ \A v \in Works : Ahead(work[v], lastUpdateId)
  BY <1>1 DEF Once, Calm
<1>3. OneRun'
  <2>1. NoTwo'
    BY <1>2, ChainMoves DEF OneRun, NoTwo
  <2>2. toggles # 0 /\ toggle = "none"
    BY <1>1, <1>2 DEF OneRun, Idle
  <2> QED
    BY <1>1, <1>2, <2>1, <2>2 DEF OneRun
<1> DEFINE Goal == ToldOnce' /\ \A v \in Works : Ahead(work[v], lastUpdateId)'
<1>4. lastUpdateId \in Nat /\ \A n \in {"enqueue", "none"} : Ahead([pc |-> n], lastUpdateId)
  BY PrsAreNumbers DEF TypeOK, Ahead, Reviewing
<1>5. CASE Start(w)
  <2> DEFINE s == [pc |-> "get", offset |-> lastUpdateId + 1]
  <2>1. /\ work[w].pc # "save" /\ Goto(w, s)
        /\ UNCHANGED <<feed, lastUpdateId, outcomes>>
    BY <1>5 DEF Start, At, world, settings
  <2>2. Ahead(s, lastUpdateId)
    BY <1>4 DEF Ahead, Reviewing
  <2> QED
    BY <1>2, <1>3, <2>1, <2>2, GotoAhead DEF Once
<1>6. CASE GetUpdates(w)
  <2> DEFINE n == work[w].offset
             r == [pc |-> "review", event |-> Pick(Events(n))]
  <2>1. /\ work[w].pc = "get"
        /\ UNCHANGED <<feed, lastUpdateId, outcomes>>
        /\ \/ Goto(w, [pc |-> "enqueue"])
           \/ Events(n) # {} /\ Goto(w, r)
    BY <1>6 DEF GetUpdates, At, world, settings
  <2>2. n \in Nat /\ lastUpdateId < n
    <3>1. n \in 1..(Len(feed) + 1)
      BY <2>1, Fields DEF TypeOK
    <3> QED
      BY <1>2, <2>1, <3>1, PrsAreNumbers DEF Ahead
  <2>3. Events(n) # {} => Ahead(r, lastUpdateId)
    <3>1. Events(n) # {} => n <= Pick(Events(n)) /\ Pick(Events(n)) \in Nat
      BY <2>2, PickedAhead
    <3>2. Events(n) # {} => lastUpdateId < Pick(Events(n))
      BY <1>4, <2>2, <3>1
    <3> QED
      BY <3>2 DEF Ahead
  <2> QED
    BY <1>2, <1>3, <1>4, <2>1, <2>3, GotoAhead DEF Once
<1>7. CASE RequestFails(w) \/ Succeed(w)
  <2>1. /\ work[w].pc # "save" /\ \E n \in {"enqueue", "none"} : Goto(w, [pc |-> n])
        /\ UNCHANGED <<feed, lastUpdateId, outcomes>>
    BY <1>7 DEF RequestFails, AfterFailure, Succeed, None, At, world, settings
  <2> QED
    BY <1>2, <1>3, <1>4, <2>1, GotoAhead DEF Once
<1>8. CASE StartReview(w) \/ CollectInfo(w) \/ ReviewFile(w) \/ Summarize(w)
  <2>1. /\ work[w].pc \in Reviewing
        /\ UNCHANGED <<feed, lastUpdateId, outcomes>>
    BY <1>8 DEF StartReview, CollectInfo, ReviewFile, Summarize, At, Reviewing, world,
                settings
  <2>2. \E c, s : /\ Write(w, c, s) /\ s.pc \in Reviewing
                  /\ s.event = work[w].event
    <3> USE DEF Reviewing
    <3>1. CASE StartReview(w)
      <4> DEFINE s == [pc |-> "info", event |-> work[w].event, to |-> chatId]
      <4>1. Write(w, chatId, s) /\ s.pc = "info" /\ s.event = work[w].event
        BY <3>1 DEF StartReview
      <4> QED
        BY <4>1
    <3>2. CASE CollectInfo(w)
      <4>1. PICK n \in 0..MaxFiles : Write(w, work[w].to, FileStep(w, n, 0))
        BY <3>2 DEF CollectInfo
      <4>2. FileStep(w, n, 0).pc = "file" /\ FileStep(w, n, 0).event = work[w].event
        BY DEF FileStep
      <4> QED
        BY <4>1, <4>2
    <3>3. CASE ReviewFile(w)
      <4> DEFINE s == FileStep(w, work[w].files, work[w].reports + 1)
      <4>1. Write(w, work[w].to, s)
        BY <3>3 DEF ReviewFile
      <4>2. s.pc = "file" /\ s.event = work[w].event
        BY DEF FileStep
      <4> QED
        BY <4>1, <4>2
    <3>4. CASE Summarize(w)
      <4> DEFINE s == [pc |-> "outcome", event |-> work[w].event, to |-> work[w].to]
      <4>1. Write(w, work[w].to, s) /\ s.pc = "outcome" /\ s.event = work[w].event
        BY <3>4 DEF Summarize
      <4> QED
        BY <4>1
    <3> QED
      BY <1>8, <3>1, <3>2, <3>3, <3>4
  <2> QED
    BY <1>2, <1>3, <2>1, <2>2, WriteAhead DEF Once
<1>9. CASE InfoFails(w)
  <2> DEFINE s == [pc |-> "outcome", event |-> work[w].event, to |-> work[w].to]
  <2>1. /\ work[w].pc = "info" /\ Goto(w, s)
        /\ UNCHANGED <<feed, lastUpdateId, outcomes>>
    BY <1>9 DEF InfoFails, At, world, settings
  <2>2. Ahead(s, lastUpdateId)
    BY <1>2, <2>1 DEF Ahead, Reviewing
  <2> QED
    BY <1>2, <1>3, <2>1, <2>2, GotoAhead DEF Once
<1>10. CASE TellOutcome(w) \/ SaveId(w) \/ EnqueueNext(w)
  BY <1>2, <1>3, <1>10, OutcomeToldOnce, SavedOnce, NextPollOnce DEF Once
<1> QED
  BY <1>5, <1>6, <1>7, <1>8, <1>9, <1>10 DEF Proceed

(* The switch is turned for the first time while nothing runs; then one    *)
(* chain begins.                                                           *)
LEMMA OnceTell ==
    ASSUME TypeOK, Once, TellWorkManager
    PROVE  Once'
<1> SUFFICES ASSUME Calm' PROVE Once'
  BY DEF Once
<1>1. /\ UNCHANGED <<feed, lastUpdateId, outcomes, toggles, interruptions>>
      /\ toggle # "none" /\ toggle' = "none"
      /\ strays' = strays + Cardinality(Uncancellable)
  BY DEF TellWorkManager, world, settings
<1>2. OneRun /\ ToldOnce
  BY <1>1 DEF Once, Calm
<1>3. \A w \in Works : work[w].pc = "none"
  BY <1>1, <1>2 DEF OneRun, Idle
<1>4. strays' = 0
  <2>1. Uncancellable = {}
    BY <1>3 DEF Uncancellable
  <2>2. Cardinality(Uncancellable) = 0
    BY <2>1, FS_EmptySet
  <2>3. strays = 0
    BY <1>2 DEF OneRun
  <2> QED
    BY <1>1, <2>2, <2>3
<1>5. Cancelled(work) \in [Works -> Steps] /\ \A w \in Works : Cancelled(work)[w].pc = "none"
  BY Made DEF Cancelled, None
<1>6. /\ NoTwo' /\ \A w \in Works : work'[w].pc \in {"none", "enqueued"}
  <2>1. CASE Enqueue(Cancelled(work))
    <3>1. PICK v \in Works :
             /\ work'[v] = Waiting
             /\ \A u \in Works \ {v} : work'[u] = Cancelled(work)[u]
      BY <1>5, <2>1, EnqueueChains
    <3>2. work'[v].pc = "enqueued" /\ \A u \in Works \ {v} : work'[u].pc = "none"
      BY <1>5, <3>1 DEF Waiting
    <3> QED
      BY <3>2 DEF NoTwo, Chains
  <2>2. CASE work' = Cancelled(work)
    BY <1>5, <2>2 DEF NoTwo, Chains
  <2> QED
    BY <2>1, <2>2 DEF TellWorkManager
<1>7. OneRun'
  <2>1. toggles # 0
    BY <1>1, <1>2 DEF OneRun
  <2> QED
    BY <1>1, <1>4, <1>6, <2>1 DEF OneRun
<1>8. \A w \in Works : Ahead(work[w], lastUpdateId)'
  BY <1>6 DEF Ahead, Reviewing
<1>9. ToldOnce'
  <2>1. \A u : ~Saving(u)
    BY <1>3 DEF Saving
  <2> QED
    BY <1>1, <1>2, <2>1, SameFeed DEF ToldOnce
<1> QED
  BY <1>7, <1>8, <1>9 DEF Once

(* The world and the settings; a stray or an interruption is not calm.     *)
LEMMA OnceOutside ==
    ASSUME TypeOK, Once,
           \/ Arrive
           \/ \E c \in Chats : DeleteChat(c) \/ \E on \in BOOLEAN : Toggle(on, c)
           \/ StrayEnqueue \/ Die \/ \E w \in Works : CutShort(w)
    PROVE  Once'
<1>0. toggles \in Nat /\ interruptions \in Nat
  BY PollingAssumption DEF TypeOK
<1>1. CASE Arrive \/ \E c \in Chats : DeleteChat(c)
  <2>1. UNCHANGED <<feed, lastUpdateId, outcomes, toggle, toggles, interruptions,
                    strays, work>>
    BY <1>1 DEF Arrive, DeleteChat, settings, switch
  <2> QED
    BY <2>1, SameFeed DEF Once, Calm, OneRun, NoTwo, Chains, Idle, Ahead, ToldOnce, Saving
<1>2. ASSUME NEW c \in Chats, NEW on \in BOOLEAN, Toggle(on, c)
      PROVE  Once'
  <2>1. /\ UNCHANGED <<feed, lastUpdateId, outcomes, interruptions, strays, work>>
        /\ toggles' = toggles + 1
    BY <1>2 DEF Toggle, world
  <2>2. SUFFICES ASSUME Calm' PROVE Once'
    BY DEF Once
  <2>3. toggles = 0 /\ Calm
    BY <1>0, <2>1, <2>2 DEF Calm
  <2>4. OneRun /\ Idle /\ ToldOnce /\ \A w \in Works : Ahead(work[w], lastUpdateId)
    BY <2>3 DEF Once, OneRun
  <2>5. NoTwo' /\ Idle'
    BY <2>1, <2>4 DEF OneRun, NoTwo, Chains, Idle
  <2>6. OneRun'
    BY <2>1, <2>3, <2>4, <2>5 DEF OneRun
  <2>7. ToldOnce' /\ \A w \in Works : Ahead(work[w], lastUpdateId)'
    BY <2>1, <2>4, SameFeed DEF ToldOnce, Saving, Ahead
  <2> QED
    BY <2>6, <2>7 DEF Once
<1>3. CASE StrayEnqueue
  <2>1. strays > 0 /\ UNCHANGED <<toggles, interruptions>>
    BY <1>3 DEF StrayEnqueue, switch
  <2>2. ~Calm
    BY <2>1 DEF Once, OneRun
  <2> QED
    BY <2>1, <2>2 DEF Once, Calm
<1>4. CASE Die \/ \E w \in Works : CutShort(w)
  <2>1. interruptions' = interruptions + 1
    BY <1>4 DEF Die, CutShort
  <2>2. ~Calm'
    BY <1>0, <2>1 DEF Calm
  <2> QED
    BY <2>2 DEF Once
<1> QED
  BY <1>1, <1>2, <1>3, <1>4

(* A pull request is reviewed a second time only after an interruption or  *)
(* another turn of the switch.                                             *)
THEOREM NoSecondReview == Spec => []ReviewedOnce
<1>1. TypeOK /\ Once /\ [Next]_vars => Once'
  <2> SUFFICES ASSUME TypeOK, Once, [Next]_vars PROVE Once'
    OBVIOUS
  <2>1. CASE Next
    BY <2>1, OnceWork, OnceTell, OnceOutside DEF Next
  <2>2. CASE UNCHANGED vars
    BY <2>2, SameFeed
    DEF vars, Once, Calm, OneRun, NoTwo, Chains, Idle, Ahead, ToldOnce, Saving
  <2> QED
    BY <2>1, <2>2
<1>2. TypeOK /\ Once => ReviewedOnce
  <2> SUFFICES ASSUME TypeOK, Once, NEW u \in Prs, outcomes[u] > 1
               PROVE  interruptions > 0 \/ toggles > 1
    BY DEF ReviewedOnce
  <2>1. outcomes[u] # 1 /\ outcomes[u] > 0
    <3>1. outcomes[u] \in Nat
      BY PrsAreNumbers DEF TypeOK
    <3> QED
      BY <3>1
  <2>2. ~Calm
    BY <2>1 DEF Once, ToldOnce
  <2> QED
    BY <2>2, PollingAssumption DEF Calm, TypeOK
<1> QED
  BY <1>1, <1>2, InitOnce, TypeCorrect, PTL DEF Spec
=============================================================================
