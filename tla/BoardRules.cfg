SPECIFICATION BoardSpec
CONSTANTS
    Width = 3
    Height = 5
    MaxOccupied = 3
INVARIANTS
    SlidersSeeOpenLines
    PawnTakesOnlyDiagonally
