CONSTANTS
    MaxStep <- MCMaxStep
    InfoTimeout <- MCWrapInfoTimeout
    LogoPeriod <- MCLogoPeriod
    AutoLockDelay <- MCWrapAutoLockDelay
    EdgeSets <- MCEdgeSetsSingle
    TimerMod <- MCWrapMod

SPECIFICATION Spec


    

PROPERTIES
    RefinesNav
