\* A window of 9 by 6 pixels, players of 3, positions in halves of a pixel; for the copies two positions
SPECIFICATION MCSpec
CONSTANTS
    SubPixels = 2
    Width = 3
    WindowWidth = 9
    WindowHeight = 6
    MaxStep = 3
    Size = 1
    Speed = 3
    DiagonalSpeed = 2
    Lifetime = 7
    MaxDelta = 3
    Player = {0, 1}
    IDFactor = 1
    IDModulus = 2
    MaxShots = 2
    MaxHealth = 2
    Damage = 1
    MaxFlying = 2
    Places <- MCPlaces
    Facings <- MCFacings
    MaxPosition = 1
    Spawn = 1
    MaxMoves = 2
    MaxRespawns = 1
INVARIANTS
    AllTypesOK
    KeysDecide
    BoxInWindow
PROPERTIES
    AimedShotsArrive
    ShotsKept
    CopiesAgree
