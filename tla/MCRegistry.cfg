\* Jobs of several slots and workers, with crashes at any point.
\* It ends when every job has been given.
CONSTANTS
    c1 = c1
    c2 = c2
    s1 = s1
    k1 = k1
    k2 = k2
    collector = collector
    summary = summary
    assistant = assistant
    w1 = w1
    w2 = w2
    w3 = w3
    NoAgent = NoAgent
    NoRow = NoRow
    Jobs = {c1, c2, s1, k1, k2}
    Slots = {collector, summary, assistant}
    Workers = {w1, w2, w3}
    SlotOf <- SlotsOfJobs
    WorkerOf <- WorkersOfJobs
    Recreated = {collector, summary}
    Config <- Configs
    MayOverlap = {collector, w1}
SPECIFICATION OneOverlap
INVARIANTS
    OneAgentPerSlot
    AskedAsConfigured
    HistoryIsTheSlots
SYMMETRY Symmetry
CHECK_DEADLOCK FALSE
