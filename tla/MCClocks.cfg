\* Three pings; frames and ticks for 14 ms in which SDL_GetTicks passes 2^(n-1) and wraps around to 0
SPECIFICATION ClocksSpec
CONSTANTS
    Configs <- MCConfigs
    MaxWait = 2
    MaxPings = 3
    Fractions = 2
    Modulus = 10
    TargetFrameDuration = 1
    SleepMs = 1
    MaxBusy = 3
    MaxTime = 28
    SDLStart = {0, 1}
\* The pings are used up, and the time
CHECK_DEADLOCK FALSE
INVARIANTS
    ServerTimeLags
PROPERTIES
    ClientTimeExact
    PingIsRoundTrip
    EveryPingMeasured
