SPECIFICATION FairSpec
CONSTANTS
    Pastes = {p1,p2}
    Platforms <- EveryPlatform
    Clips <- SomeClips
    MaxCopies = 1
    MaxMishaps = 1
INVARIANTS TypeOK OneEffect PathNamesImage FoundIsNotText ImagesPrivate
PROPERTIES PasteEnds
\* When every paste is over nothing is left to do.
CHECK_DEADLOCK FALSE
