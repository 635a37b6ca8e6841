CONSTANTS
    project = project
    service = service
    Containers = {1, 2}
    Labels <- MCLabels
    FailThreshold = 2
    Cooldown = 2
    MaxFaults = 4
    NoContainer = NoContainer
SPECIFICATION WatchdogSpec
INVARIANT RestartAsDocumented
