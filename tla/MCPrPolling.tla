---- MODULE MCPrPolling ----
EXTENDS PrPolling

SomeFeeds == {<<"pr", "pr">>, <<"other", "pr">>, <<"other", "other", "pr">>}
====
