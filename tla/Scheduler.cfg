SPECIFICATION FairSpec
CONSTANTS
    daily = daily
    feb31 = feb31
    Tests = {t1}
    Crons <- MCCrons
    Matches <- MCMatches
    NoCron = NoCron
    Null = Null
    Clients = {c1, c2}
    MaxManual = 1
    Horizon = 2
INVARIANTS
    OneScheduledRun
    EnabledIsLive
    DoubledOnlyByStaleWrite
    AtMostOneLateRun
PROPERTY DueIsServed
