\* A player whose first state is what the memory held
SPECIFICATION Spec
CONSTANTS
    SubPixels = 2
    Width = 2
    WindowWidth = 5
    WindowHeight = 4
    MaxStep = 3
INVARIANTS
    KeyMoves
