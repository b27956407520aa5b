SPECIFICATION Spec
CONSTANTS
    Keys <- MCKeys
    LogLevel = "log.level"
    Echoed <- MCEchoed
    Values <- MCValues
    Valid <- MCValid
    Meaning <- MCMeaning
    Default <- MCDefault
    Patches <- MCPatches
    Secrets <- TwoSecrets
    r1 = r1
    r2 = r2
    Callers <- TwoCallers
    Versions = 2
SYMMETRY Symmetric
INVARIANT TypeOK
INVARIANT MigrationsOnce
INVARIANT TableBuilds
INVARIANT SnapshotTracksTable
INVARIANT LogLevelCurrent
INVARIANT SessionsSurvive
INVARIANT AdminSeeded
INVARIANT AnswerReflectsUpdate
PROPERTY StartKeepsSettings
