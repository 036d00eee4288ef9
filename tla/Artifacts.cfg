SPECIFICATION Spec
CONSTANTS
    None = None
    o1 = o1
    o2 = o2
    u1 = u1
    u2 = u2
    u3 = u3
    Orchestrators = {o1, o2}
    Uploads = {u1, u2, u3}
    Extractions = {e1, e2}
    Names = {"a", "b"}
    Size = 3
    Jobs <- MCJobs
    MaxRestarts = 1
CHECK_DEADLOCK FALSE
INVARIANTS
    PublishedIsGenuine
    CompletedIsExact
    WholeIsPublished
PROPERTIES
    PublishedIsImmutable
    UploadsEnd
