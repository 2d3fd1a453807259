SPECIFICATION Spec
CONSTANTS
    Poller = poller
    Handlers = {poller, request}
    Notifiers = {}
    NameOf <- OwnName
    Scopes = {site}
    Types <- PowerTypes
    Window = 1
    NoOne = NoOne
    NoEnd = NoEnd
    MaxTime = 3
    MaxReports = 3
    MaxErrors = 1
    MaxCrashes = 1
INVARIANTS PipelineInv Accounted OutagesMatchPower
PROPERTIES EndsOnce FollowsFate
