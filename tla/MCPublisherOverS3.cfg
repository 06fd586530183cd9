SPECIFICATION FairS3Spec
CONSTANT Attempts = 4
INVARIANTS
    PublisherTypeOK
    InputsFromOneSource
    RunsHaveInputs
    MarkerMeansComplete
    RollbackLeavesNothing
    SuccessMeansQueued
    BlameMeansNotQueued
    BadGatewayMeansPublished
    SecondRunNeedsSilence
    NoSilentPending
    TempFilesRemoved
PROPERTIES Answered NearerToAnswer RefinesPublisher
