SPECIFICATION FairSpec
CONSTANTS
    anna = anna
    ben = ben
    thread = thread
    Mode = "netclient"
    OnUsb = FALSE
    Admins = {anna, ben}
    Watch = thread
    MaxUnplugs = 1
    MaxRequests = 0
    MaxFaults = 0
PROPERTIES UpsmonReturns
CHECK_DEADLOCK FALSE
