---- MODULE MCAgentTurn ----
EXTENDS AgentTurn, TLC

Of(k, s, e) == [kind |-> k, size |-> s, extra |-> e]

Full == Of("full", 0, 0)
Summary == Of("summary", 1, 1)
Window == Of("window", 4, 0)
Facts == Of("facts", 4, 0)
LongSummary == Of("summary", 2, 0)
NegativeWindow == Of("window", -1, 0)

ManySummary == Of("summary", 1, 3)
ToAny == {Window, Facts, LongSummary, NegativeWindow}
ToNone == {}
====
