\* Two jobs of one worker, a server beside the local one, a tool, one event.
CONSTANTS
    Jobs = {j1, j2}
    Remote = {r1}
    Local = local
    Tools = {t1}
    None = None
    Menus <- TwoMenus
    AllowedTo <- AllAllowed
    LocalTools = {}
    MaxCalls = 1
    MaxEvents = 1
    SavedBefore <- Saved
SPECIFICATION Spec
SYMMETRY Alike
INVARIANTS
    CompleteOffer
    ErrorsHaveCauses
    OfferedIsFound
