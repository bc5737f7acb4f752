\* One request that creates a tab and one change of the settings, under fairness.
CONSTANTS
    Requests = {r1}
    Savers = {w1}
    Streams = {}
    Endpoint = Endpoint
SPECIFICATION FairSpec
PROPERTY RequestsAreAnswered
CHECK_DEADLOCK FALSE
