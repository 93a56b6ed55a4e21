------------------------------ MODULE PrPolling ------------------------------
(***************************************************************************)
(* The review of pull requests: TelegramPollingWorker asks Telegram for    *)
(* the bot's updates, lets StartPrReviewUseCase and PrReviewWorker review  *)
(* the first pull request among them, saves the id of that update and      *)
(* enqueues the next poll.  SetPrHandleEnabledUseCase starts and cancels   *)
(* the chain of polls.                                                     *)
(*                                                                         *)
(* WorkManager and Telegram are modelled from how they are used: the work  *)
(* requests outlive the process and a work that was cut short is run       *)
(* again; a cancelled coroutine ends at its next suspension, save that     *)
(* getPrUpdates is wrapped in runCatching, takes the cancellation for a    *)
(* failed request, and what is left of doWork then does not suspend.       *)
(* Telegram gives the first Limit updates from the offset on, and forgets  *)
(* those before it.                                                        *)
(***************************************************************************)
EXTENDS Integers, Sequences, FiniteSets

CONSTANTS
    Feeds,              \* the updates the bot may get, each "pr" or "other"
    Chats,              \* the chats
    NoChat,
    Limit,              \* limit= in the url of getUpdates
    MaxFiles,           \* bound: changed files of a pull request
    MaxWorks,           \* bound: work requests at one time
    MaxUpsets           \* bound: uses of the switch, deleted chats, interruptions

ASSUME PollingAssumption ==
    /\ Feeds \subseteq Seq({"pr", "other"})
    /\ NoChat \notin Chats
    /\ Limit \in Nat \ {0} /\ MaxWorks \in Nat
    /\ MaxFiles \in Nat /\ MaxUpsets \in Nat
    /\ IsFiniteSet(Chats)

VARIABLES
    feed,           \* the updates; feed[u] has the update_id u
    arrived,        \* how many of them were sent
    confirmed,      \* Telegram has forgotten the updates below
    chats,          \* the chats that exist
    enabled,        \* isEnabled in the DataStore
    chatId,         \* chatId in the DataStore
    lastUpdateId,   \* lastTelegramUpdateId in the DataStore
    toggle,         \* what SetPrHandleEnabledUseCase is about to do
    toggles,        \* how often it was called
    interruptions,  \* how often the process died or a work was cut short
    work,           \* work[w]: a request in WorkManager, and where doWork is
    strays,         \* cancelled runs of doWork that go on to the next poll
    outcomes,       \* outcomes[u]: how often the end of u's review was told
    mishaps         \* what has gone wrong, for the properties

vars == <<feed, arrived, confirmed, chats, enabled, chatId, lastUpdateId,
          toggle, toggles, interruptions, work, strays, outcomes, mishaps>>

world == <<feed, arrived, chats>>
settings == <<enabled, chatId, lastUpdateId>>
switch == <<toggle, toggles>>

-----------------------------------------------------------------------------
Updates == 1..Len(feed)

Prs == {u \in Updates : feed[u] = "pr"}

Works == 1..MaxWorks

None == [pc |-> "none"]
Waiting == [pc |-> "enqueued"]
Running == {w \in Works : work[w].pc \notin {"none", "enqueued"}}

(* The next poll is enqueued, the result of this one not yet recorded.     *)
Ending == {w \in Works : work[w].pc = "ending"}

(* The chains of polls, each by its last link.                             *)
Chains == {w \in Works : work[w].pc \notin {"none", "ending"}}

(* The stretch of doWork that a cancellation does not stop.                *)
Uncancellable == {w \in Works : work[w].pc \in {"get", "enqueue"}}

Mishaps == {"cut poll", "died at the end", "half toggle", "no chat"}

Steps ==
    [pc : {"none", "enqueued", "enqueue", "ending"}]
      \cup [pc : {"get"}, offset : 1..(Len(feed) + 1)]
      \cup [pc : {"review", "save"}, event : Prs]
      \cup [pc : {"info", "outcome"}, event : Prs, to : Chats]
      \cup [pc : {"file"}, event : Prs, to : Chats, files : 0..MaxFiles,
            reports : 0..MaxFiles]

TypeOK ==
    /\ feed \in Feeds
    /\ arrived \in 0..Len(feed)
    /\ confirmed \in 1..(Len(feed) + 1)
    /\ chats \subseteq Chats
    /\ enabled \in BOOLEAN
    /\ chatId \in Chats \cup {NoChat}
    /\ lastUpdateId \in 0..Len(feed)
    /\ toggle \in {"none", "on", "off"}
    /\ toggles \in 0..MaxUpsets
    /\ interruptions \in 0..MaxUpsets
    /\ work \in [Works -> Steps]
    /\ strays \in Nat
    /\ outcomes \in [Updates -> Nat]
    /\ mishaps \subseteq Mishaps

Init ==
    /\ feed \in Feeds
    /\ arrived = 0
    /\ confirmed = 1
    /\ chats = Chats
    /\ enabled = FALSE /\ chatId = NoChat /\ lastUpdateId = 0
    /\ toggle = "none" /\ toggles = 0 /\ interruptions = 0
    /\ work = [w \in Works |-> None]
    /\ strays = 0
    /\ outcomes = [u \in Updates |-> 0]
    /\ mishaps = {}

-----------------------------------------------------------------------------
Upsets == toggles + interruptions + Cardinality(Chats \ chats)

(* The world outside.                                                      *)
Arrive ==
    /\ arrived < Len(feed)
    /\ arrived' = arrived + 1
    /\ UNCHANGED <<feed, confirmed, chats, settings, switch, interruptions,
                   work, strays, outcomes, mishaps>>

(* The group of the chat is deleted, and the chat with it.                 *)
DeleteChat(c) ==
    /\ c \in chats /\ Upsets < MaxUpsets
    /\ chats' = chats \ {c}
    /\ UNCHANGED <<feed, arrived, confirmed, settings, switch, interruptions,
                   work, strays, outcomes, mishaps>>

-----------------------------------------------------------------------------
(* SetPrHandleEnabledUseCase: the settings are saved, which suspends, and  *)
(* then WorkManager is told.  The switch of a chat is on when the settings *)
(* name this chat.                                                         *)
Toggle(on, c) ==
    /\ toggle = "none" /\ Upsets < MaxUpsets
    /\ c \in chats
    /\ on # (enabled /\ chatId = c)
    /\ enabled' = on
    /\ chatId' = c
    /\ toggle' = IF on THEN "on" ELSE "off"
    /\ toggles' = toggles + 1
    /\ UNCHANGED <<world, confirmed, lastUpdateId, interruptions, work, strays,
                   outcomes, mishaps>>

(* Enqueueing a request; the bound on their number is checked to be idle.  *)
Free(ws) == {w \in Works : ws[w] = None}

Enqueue(ws) ==
    /\ Free(ws) # {}
    /\ work' = [ws EXCEPT ![CHOOSE w \in Free(ws) : \A v \in Free(ws) : w <= v] = Waiting]

(* Mutant of Cancelled: only the works that have not begun are cancelled.  *)
CancelledWaiting(ws) == [w \in Works |-> IF ws[w] = Waiting THEN None ELSE ws[w]]

(* cancelAllWorkByTag                                                      *)
Cancelled(ws) == [w \in Works |-> None]

TellWorkManager ==
    /\ toggle # "none"
    /\ \/ toggle = "on" /\ Enqueue(Cancelled(work))
       \/ toggle = "off" /\ work' = Cancelled(work)
    /\ strays' = strays + Cardinality(Uncancellable)
    /\ mishaps' = mishaps \cup (IF Uncancellable = {} THEN {} ELSE {"cut poll"})
    /\ toggle' = "none"
    /\ UNCHANGED <<world, confirmed, settings, toggles, interruptions, outcomes>>

-----------------------------------------------------------------------------
At(w, step) == work[w].pc = step

Goto(w, step) == work' = [work EXCEPT ![w] = step]

(* A message for chat c, after which w goes on; without the chat it        *)
(* violates the foreign key, doWork throws and the work is over for good.  *)
Written(w, c, step) ==
    /\ c \in chats
    /\ Goto(w, step)
    /\ UNCHANGED mishaps

Throws(w, c) ==
    /\ c \notin chats
    /\ Goto(w, None)
    /\ mishaps' = mishaps \cup {"no chat"}

Write(w, c, step) == Written(w, c, step) \/ Throws(w, c)

(* WorkManager starts a work, which reads lastUpdateId.  The next poll is  *)
(* enqueued with a delay of a minute: whoever enqueued it has returned.    *)
Start(w) ==
    /\ At(w, "enqueued") /\ Ending = {}
    /\ Goto(w, [pc |-> "get", offset |-> lastUpdateId + 1])
    /\ UNCHANGED <<world, confirmed, settings, switch, interruptions, strays,
                   outcomes, mishaps>>

Greater(a, b) == IF a < b THEN b ELSE a

(* getPrUpdates: the pull requests among the first updates from an offset. *)
Events(offset) ==
    LET from == Greater(offset, confirmed)
    IN  {u \in Prs : from <= u /\ u <= arrived /\ u < from + Limit}

(* Mutant of Pick: the last of the events.                                 *)
PickLast(S) == CHOOSE u \in S : \A v \in S : v <= u

(* events[0]                                                               *)
Pick(S) == CHOOSE u \in S : \A v \in S : u <= v

GetUpdates(w) ==
    /\ At(w, "get")
    /\ LET offset == work[w].offset
           events == Events(offset)
       IN  /\ confirmed' = Greater(offset, confirmed)
           /\ \/ events = {} /\ Goto(w, [pc |-> "enqueue"])
              \/ events # {} /\ Goto(w, [pc |-> "review", event |-> Pick(events)])
    /\ UNCHANGED <<world, settings, switch, interruptions, strays, outcomes, mishaps>>

(* Mutant of AfterFailure: the chain of polls ends with the first error.   *)
EndAfterFailure == None

AfterFailure == [pc |-> "enqueue"]

RequestFails(w) ==
    /\ At(w, "get")
    /\ Goto(w, AfterFailure)
    /\ UNCHANGED <<world, confirmed, settings, switch, interruptions, strays,
                   outcomes, mishaps>>

(* StartPrReviewUseCase: the chat of the settings, which name one as soon  *)
(* as there is a poll, and the first message.                              *)
StartReview(w) ==
    /\ At(w, "review")
    /\ Write(w, chatId, [pc |-> "info", event |-> work[w].event, to |-> chatId])
    /\ UNCHANGED <<world, confirmed, settings, switch, interruptions, strays, outcomes>>

(* PrReviewWorker: the answer of the agent that collects the data of the   *)
(* pull request may be an error, or no such data.                          *)
InfoFails(w) ==
    /\ At(w, "info")
    /\ Goto(w, [pc |-> "outcome", event |-> work[w].event, to |-> work[w].to])
    /\ UNCHANGED <<world, confirmed, settings, switch, interruptions, strays,
                   outcomes, mishaps>>

FileStep(w, n, k) ==
    [pc |-> "file", event |-> work[w].event, to |-> work[w].to, files |-> n,
     reports |-> k]

CollectInfo(w) ==
    /\ At(w, "info")
    /\ \E n \in 0..MaxFiles : Write(w, work[w].to, FileStep(w, n, 0))
    /\ UNCHANGED <<world, confirmed, settings, switch, interruptions, strays, outcomes>>

HasMore(w) == work[w].reports < work[w].files

(* The section of a file: its review or the error.                         *)
ReviewFile(w) ==
    /\ At(w, "file") /\ HasMore(w)
    /\ Write(w, work[w].to, FileStep(w, work[w].files, work[w].reports + 1))
    /\ UNCHANGED <<world, confirmed, settings, switch, interruptions, strays, outcomes>>

(* The summary, or "Резюме недоступно", and the message with the report.   *)
Summarize(w) ==
    /\ At(w, "file") /\ ~HasMore(w)
    /\ Write(w, work[w].to, [pc |-> "outcome", event |-> work[w].event, to |-> work[w].to])
    /\ UNCHANGED <<world, confirmed, settings, switch, interruptions, strays, outcomes>>

(* The message that the review has ended, or has failed.                   *)
TellOutcome(w) ==
    /\ At(w, "outcome")
    /\ \/ /\ Written(w, work[w].to, [pc |-> "save", event |-> work[w].event])
          /\ outcomes' = [outcomes EXCEPT ![work[w].event] = @ + 1]
       \/ /\ Throws(w, work[w].to)
          /\ UNCHANGED outcomes
    /\ UNCHANGED <<world, confirmed, settings, switch, interruptions, strays>>

(* Mutant of SaveId: the id before that of the update.                     *)
SaveIdBefore(w) ==
    /\ At(w, "save")
    /\ lastUpdateId' = work[w].event - 1
    /\ Goto(w, [pc |-> "enqueue"])
    /\ UNCHANGED <<world, confirmed, enabled, chatId, switch, interruptions, strays,
                   outcomes, mishaps>>

SaveId(w) ==
    /\ At(w, "save")
    /\ lastUpdateId' = work[w].event
    /\ Goto(w, [pc |-> "enqueue"])
    /\ UNCHANGED <<world, confirmed, enabled, chatId, switch, interruptions, strays,
                   outcomes, mishaps>>

EnqueueNext(w) ==
    /\ At(w, "enqueue")
    /\ Enqueue([work EXCEPT ![w] = [pc |-> "ending"]])
    /\ UNCHANGED <<world, confirmed, settings, switch, interruptions, strays,
                   outcomes, mishaps>>

Succeed(w) ==
    /\ At(w, "ending")
    /\ Goto(w, None)
    /\ UNCHANGED <<world, confirmed, settings, switch, interruptions, strays,
                   outcomes, mishaps>>

(* A cancelled run of doWork enqueues the next poll like any other.        *)
StrayEnqueue ==
    /\ strays > 0
    /\ strays' = strays - 1
    /\ Enqueue(work)
    /\ UNCHANGED <<world, confirmed, settings, switch, interruptions, outcomes, mishaps>>

-----------------------------------------------------------------------------
(* WorkManager stops a work, after ten minutes or when the system wants    *)
(* it, and will run it again.                                              *)
CutShort(w) ==
    /\ w \in Running
    /\ Upsets < MaxUpsets
    /\ interruptions' = interruptions + 1
    /\ Goto(w, Waiting)
    /\ strays' = IF w \in Uncancellable THEN strays + 1 ELSE strays
    /\ mishaps' = mishaps
         \cup (IF w \in Uncancellable THEN {"cut poll"} ELSE {})
         \cup (IF w \in Ending THEN {"died at the end"} ELSE {})
    /\ UNCHANGED <<world, confirmed, settings, switch, outcomes>>

(* The process dies: the works that ran will be run again.                 *)
Die ==
    /\ Upsets < MaxUpsets
    /\ interruptions' = interruptions + 1
    /\ work' = [w \in Works |-> IF w \in Running THEN Waiting ELSE work[w]]
    /\ strays' = 0
    /\ toggle' = "none"
    /\ mishaps' = mishaps
         \cup (IF toggle # "none" THEN {"half toggle"} ELSE {})
         \cup (IF Ending # {} THEN {"died at the end"} ELSE {})
    /\ UNCHANGED <<world, confirmed, settings, toggles, outcomes>>

Proceed(w) ==
    \/ RequestFails(w) \/ GetUpdates(w) \/ StartReview(w) \/ InfoFails(w)
    \/ CollectInfo(w) \/ ReviewFile(w) \/ Summarize(w) \/ TellOutcome(w)
    \/ SaveId(w) \/ EnqueueNext(w) \/ Succeed(w)

Next ==
    \/ Arrive
    \/ \E c \in Chats : DeleteChat(c) \/ \E on \in BOOLEAN : Toggle(on, c)
    \/ TellWorkManager \/ StrayEnqueue \/ Die
    \/ \E w \in Works : Start(w) \/ Proceed(w) \/ CutShort(w)

Spec == Init /\ [][Next]_vars

(* WorkManager starts every work, the calls of the LLM come to an end and  *)
(* so does doWork, and one request in many reaches Telegram.               *)
Fairness ==
    /\ \A w \in Works : WF_vars(Start(w)) /\ WF_vars(Proceed(w))
    /\ SF_vars(\E w \in Works : GetUpdates(w))
    /\ WF_vars(TellWorkManager) /\ WF_vars(StrayEnqueue)

FairSpec == Spec /\ Fairness

-----------------------------------------------------------------------------
Reviewed == {u \in Prs : outcomes[u] > 0}

(* Nothing is acknowledged before its review has ended and the chat was    *)
(* told: SaveId comes after StartPrReviewUseCase, for one update at a      *)
(* time, however many polls run, are cancelled or die, and whatever they   *)
(* read meanwhile.                                                         *)
AcknowledgedAreReviewed ==
    \A u \in Prs : u <= lastUpdateId \/ u < confirmed => u \in Reviewed

(* One chain of polls at most, as long as no run was cancelled in its      *)
(* request and none died with its successor enqueued.                      *)
OneChain ==
    mishaps \cap {"cut poll", "died at the end"} = {} => Cardinality(Chains) <= 1

(* The switch rules the chain: on, there is one; off, there is none, not   *)
(* even a poll that ran when the switch was turned.  WorkManager may not   *)
(* have been told when the process died, a chat may be gone.               *)
SwitchRules ==
    /\ toggle = "none" /\ enabled /\ mishaps \cap {"half toggle", "no chat"} = {}
         => Chains # {}
    /\ toggle = "none" /\ ~enabled /\ mishaps = {} => Chains = {}

(* A pull request is reviewed again only when a work was interrupted or    *)
(* the switch was turned again before the id was saved.                    *)
ReviewedOnce ==
    \A u \in Prs : outcomes[u] > 1 => interruptions > 0 \/ toggles > 1

(* Pull requests that a poll finds: not preceded by a full page of others. *)
Findable ==
    {u \in Prs : \A v \in 1..u : \E p \in v..u : p \in Prs /\ p < v + Limit}

(* Every pull request is reviewed, while the switch stays on, its chat is  *)
(* there and Telegram's pages reach it: failed requests and reviews do not *)
(* end the chain, interruptions only delay it.                             *)
EveryPrReviewed ==
    \A u \in UNION {1..Len(f) : f \in Feeds} :
        (u \in Findable /\ u <= arrived)
          ~> \/ u \in Reviewed \/ ~enabled
             \/ mishaps \cap {"half toggle", "no chat"} # {}
=============================================================================
