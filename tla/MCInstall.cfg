SPECIFICATION Spec
CONSTANTS
    r1 = r1
    r2 = r2
    Reqs = {r1, r2}
    KindsOf <- OneInstalls
    Hand = Hand
    NoKey = NoKey
    Boot = Boot
    Main = Main
    Nobody = Nobody
    ConfigFlag = FALSE
    MaxFaults = 1
    MaxBoots = 2
    MaxEdits = 1
INVARIANTS
    TypeOK
    OneLoop
    SweepsFinish
    NotShownAgain
    NoHiddenKey
    RefusedLeavesNothing
    HandIsNeverShown
    InService
CHECK_DEADLOCK FALSE
