SPECIFICATION ScriptFairSpec
CONSTANTS
    Poller = poller
    Handlers = {poller, request}
    Cooldowns = {1, 2}
    MaxCooldown = 2
    MaxWait = 1
    Timeout = 0
    NoView = NoView
    MaxRuns = 2
    MaxScriptFaults = 1
INVARIANTS OneAtATime OnceIfSeenInTime
PROPERTIES LatchFollows QueuedCompletes
