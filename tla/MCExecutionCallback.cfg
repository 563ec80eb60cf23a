\* A bound thread notifies, or two threads of a driver; three clients wait.
SPECIFICATION FairSpec
CONSTANTS
    d1 = d1
    d2 = d2
    c1 = c1
    c2 = c2
    c3 = c3
    b = b
    Clients <- MCClients
    Notifications <- MCNotifications
    FinishResults = {"NONE", "FAILURE"}
    Drivers <- TwoDrivers
    Bound = b
INVARIANTS
    FinishedBeforeReturn
    ThreadEndedBeforeReturn
PROPERTIES
    ImplementsOneShot
    WaitsReturn
CHECK_DEADLOCK FALSE
