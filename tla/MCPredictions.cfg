CONSTANTS
    v1 = v1
    v2 = v2
    c1 = c1
    c2 = c2
    w1 = w1
    None = None
    Columns = {c1, c2}
    Versions = {v1, v2}
    Workers = {w1}
    ContractOf <- MCContractOf
    SentRows <- MCSentRows
    MaxLatency = 1
    MaxBatchSize = 2
    MaxCalls = 2
SPECIFICATION Spec
INVARIANTS PredictionsTypeOK ModelSeesItsContract AnswersAreCounted PagesTornByOverlapOnly AverageNearlyWithinLatencies
