CONSTANTS
    MaxStep <- MCMaxStep
    InfoTimeout <- MCInfoTimeout
    LogoPeriod <- MCLogoPeriod
    AutoLockDelay <- MCAutoLockDelay
    EdgeSets <- MCEdgeSetsAll
    TimerMod <- MCTimerMod

SPECIFICATION Spec

INVARIANTS
    TypeOK
    ScreensaverLocked
    InfoPageShown
    StampsFresh


    
