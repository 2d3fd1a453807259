SPECIFICATION Spec
CONSTANTS
    ups = ups
    rack = rack
    here = here
    there = there
    MaxId = 2
    Names = {ups, rack}
    Identities = {here, there}
    Events = {"ONBATT"}
    Global = Global
    Versions = {{"schedules", "options"}, {"routes"}, {"targets"}, {"policies"}, {"mail"}}
    MaxUpgrades = 1
    MaxFaults = 1
    MaxRequests = 3
INVARIANTS RunningInOrder NoDanglingMail
PROPERTIES KeepsRows
