SPECIFICATION Spec
CONSTANTS
    Pids = {p1, p2}
    NoPid = NoPid
    Modes = {paper, live}
    Threads = {t1, t2}
    NoThread = NoThread
    MaxStarts = 1
SYMMETRY ControlSymmetry
INVARIANT TypeOK
INVARIANT AtMostOneRunner
INVARIANT RunnerIsKnown
INVARIANT ZombieIsRecognized
INVARIANT RunnerFollowsEnv
INVARIANT JobAndBotApartIfCalm
