SPECIFICATION FairCalls
CONSTANTS
    Calls = {k1, k2, k3}
    Slots = 2
    EveryN = 2
    MaxNoise = 1
    None = None
INVARIANTS AnswersMatch NoZombie NothingLeft
PROPERTIES CallsEnd
CHECK_DEADLOCK FALSE
