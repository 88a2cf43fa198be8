SPECIFICATION CSpec
CONSTANTS
    Scenarios <- MCScenarios
    Photos <- MCPhotos
    UnsignedRange = 1048576
    Requests <- MCRequests
    Hosts <- MCHosts
    PerPiece = 2
    Alphabet <- MCAlphabet
INVARIANTS
    TypeOK
    NoPhotoLost
    PhotosAreLinked
    RangesAreExact
    KeysAreParsed
    PagesAreWhole
    GalleriesAreComplete
    CalendarIsRight
    UrisAreUnderstood
    HostsAreMatched
    DatesAreRight
    LinksArrive
CHECK_DEADLOCK FALSE
