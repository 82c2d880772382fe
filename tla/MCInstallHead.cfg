SPECIFICATION Spec
CONSTANTS
    r1 = r1
    r2 = r2
    Reqs = {r1, r2}
    KindsOf <- OneInstalls
    Hand = Hand
    NoKey = NoKey
    Boot = Boot
    Main = Main
    Nobody = Nobody
    ConfigFlag = FALSE
    MaxFaults = 1
    MaxBoots = 1
    MaxEdits = 0
PROPERTIES
    HeadNeverClaims
CHECK_DEADLOCK FALSE
