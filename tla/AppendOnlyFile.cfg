SPECIFICATION Spec
CONSTANTS
    DBs = {1}
    Settings <- MCSettings
    Preamble = TRUE
    AllReplies = FALSE
    PipeSize = 2
    MaxCommands = 2
    MaxJobs = 1
    MaxFailures = 1
INVARIANTS
    FileReplaysHistory
    RewriteReplaysHistory
PROPERTIES
    DurableLogSpec
    PostponedIsWritten
    WrittenIsSynced
    RewriteSwitchesOn
