SPECIFICATION ScriptSpec
CONSTANTS
    Poller = poller
    Handlers = {poller}
    Cooldowns = {2}
    MaxCooldown = 2
    MaxWait = 0
    Timeout = 1
    NoView = NoView
    MaxRuns = 2
    MaxScriptFaults = 0
INVARIANTS OncePerOccurrence
