\* Two objects with two versions and one delete marker.
SPECIFICATION BatchSpec
CONSTANTS
    Objects = {o1, o2}
    Values = {v1, v2}
    Markers = {m1}
    None = None
    MaxPuts = 2
    MaxRequests = 2
INVARIANTS NoCoexistence GetIsLatest
