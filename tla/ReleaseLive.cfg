SPECIFICATION FairFlowSpec
CONSTANTS
    Workers = {w1}
    Clients = {c1}
    Releases = {r1}
    MaxJobs = 2
    MaxJobAttempts = 3
    MaxRetryAttempts = 2
    NoOne = NoOne
    Outsider = Outsider
PROPERTIES ReleaseSettles OffMeansUnpublished
