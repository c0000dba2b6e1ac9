\* The server's copy after a respawn
SPECIFICATION SyncSpec
CONSTANTS
    MaxPosition = 2
    Spawn = 1
    MaxMoves = 1
    MaxRespawns = 1
INVARIANTS
    RespawnSticks
