SPECIFICATION Spec
CONSTANTS
    Width = 5
    Height = 3
    Floors <- MCFloors
    Trails <- MCTrails
    MaxLength2 = 12
    Padding = 1
    MaxCells = 12
INVARIANTS
    RoutesAreClear
    TrailConnected
    SearchIsExact
