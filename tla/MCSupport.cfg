\* One job at a time, any button, two tickets of the chat and one of another.
CONSTANTS
    Jobs = {j1}
    MaxTickets = 3
    Others = {1}
    Absent = Absent
    Overlap = FALSE
SPECIFICATION FairSpec
INVARIANT RightTicket
PROPERTIES
    TicketsKept
    JobsEnd
