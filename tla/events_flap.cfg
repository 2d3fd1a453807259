SPECIFICATION Spec
CONSTANTS
    Poller = poller
    Handlers = {poller}
    Notifiers = {}
    NameOf <- OwnName
    Scopes = {site}
    Types <- PowerTypes
    Window = 1
    NoOne = NoOne
    NoEnd = NoEnd
    MaxTime = 3
    MaxReports = 3
    MaxErrors = 0
    MaxCrashes = 0
INVARIANTS SuppressedAreDuplicates
