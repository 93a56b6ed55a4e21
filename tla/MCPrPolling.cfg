\* Two chats, three feeds; the switch is turned on and one more thing happens.
\* It stops when the switch stays off or the chain has died.
CONSTANTS
    Chats = {c1, c2}
    NoChat = NoChat
    Limit = 2
    MaxFiles = 1
    MaxWorks = 4
    MaxUpsets = 2
    Feeds <- SomeFeeds
SPECIFICATION FairSpec
INVARIANTS AcknowledgedAreReviewed OneChain SwitchRules ReviewedOnce
PROPERTY EveryPrReviewed
CHECK_DEADLOCK FALSE
