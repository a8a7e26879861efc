\* Two attempts with a body of two chunks, and a response of up to three lines.
\* A request that is over stays over: the deadlock check is off.
CONSTANTS
    BodySize = 2
    MaxUploads = 2
    Texts = {"", "a"}
    MaxLines = 3
SPECIFICATION Spec
CHECK_DEADLOCK FALSE
INVARIANTS
    UploadsAreWhole
    BodyReleasedOnce
    ObservedIsSent
    NothingLostInRewriting
