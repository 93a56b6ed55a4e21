\* Two coroutines, one agent, two keys, under each a fact or none.
CONSTANTS
    Callers = {c1, c2}
    Agents = {a1}
    Keys = {state, data}
    Values = {v1}
    NoFact = NoFact
    NoCaller = NoCaller
SPECIFICATION FairStoreSpec
INVARIANT Coherent
PROPERTIES ImplementsMap OperationsEnd
