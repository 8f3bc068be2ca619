SPECIFICATION Spec
CONSTANTS
    Base = 16
    IncludeMetadata = TRUE
    Offers <- MCOffers
    Piece = 5
    FrameOf <- Frame
    Interpretation <- Interpret
    MayBecome <- AsSent
INVARIANTS
    NoPartialBody
    AllRead
PROPERTIES
    KeepsFrames
CHECK_DEADLOCK FALSE
