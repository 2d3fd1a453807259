SPECIFICATION FairSpec
CONSTANTS
    Poller = poller
    Handlers = {poller, request}
    Notifiers = {first, second}
    NameOf <- OneName
    Scopes = {site}
    Types <- PowerTypes
    Window = 1
    NoOne = NoOne
    NoEnd = NoEnd
    MaxTime = 1
    MaxReports = 3
    MaxErrors = 1
    MaxCrashes = 0
INVARIANTS PredecessorsEnded
PROPERTIES EveryReportAnnounced
