SPECIFICATION Spec
CONSTANTS
    Node <- FourNodes
    Domain <- Labelling
    Unlabelled = ""
    MaxScore = 2
    Counts <- UpToThree
INVARIANTS PicksIntended
PROPERTIES MovesOne
