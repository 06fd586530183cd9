CONSTANTS
    Ids = {a}
    Slots = 2
    None = None
    MaxVersions = 2
SPECIFICATION FairSpec
INVARIANTS ConsoleTypeOK FailureWins OwnRunIsSeen
PROPERTIES AnswersNeverGoBack EndIsTold EndIsSeen
