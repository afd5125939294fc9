SPECIFICATION Spec
CONSTANTS
    Settings <- SomeSettings
    MaxGroups = 3
    MaxSettings = 2
INVARIANT TimeoutAsGiven
CHECK_DEADLOCK FALSE
