SPECIFICATION Spec
CONSTANTS
    Keys = {k1, k2}
    Invocations = {i1, i2, i3, i4}
    None = None
INVARIANTS
    MapMatchesExecutors
    SingleFlight
    
PROPERTIES
    SharesFlights
    EveryCallSettles
