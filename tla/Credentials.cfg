CONSTANTS
    Specs <- Pairs
    MaxMishaps = 2
SPECIFICATION CredSpec
INVARIANT TroubleShows
PROPERTIES NoBlindRetry EndsInAVerdict
CHECK_DEADLOCK FALSE
