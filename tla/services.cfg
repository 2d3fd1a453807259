SPECIFICATION FairSpec
CONSTANTS
    anna = anna
    ben = ben
    thread = thread
    Mode = "standalone"
    OnUsb = TRUE
    Admins = {anna, ben}
    Watch = thread
    MaxUnplugs = 1
    MaxRequests = 2
    MaxFaults = 1
INVARIANTS FlagsAgree OneCommokPerLoss
PROPERTIES EventuallyServed
CHECK_DEADLOCK FALSE
