SPECIFICATION Spec
CONSTANTS
    r1 = r1
    r2 = r2
    Requests = {r1, r2}
    Data = {"a", "b"}
    Bodies <- SmallBodies
    MaxArrivals = 6
    MaxBuckets = 2
    MaxUploads = 1
CHECK_DEADLOCK FALSE
PROPERTY
    BucketWithObjectsStays
