SPECIFICATION FairSpec

CONSTANTS
    MaxFetches = 3
    MaxFrames = 2

INVARIANTS TypeOK ServerNeverSurprised FailedNeverAnswers
PROPERTIES FetchEnds SessionsTornDown

CHECK_DEADLOCK FALSE
