SPECIFICATION Spec
CONSTANTS
    Pids = {p1, p2, p3}
    PipeIds = {k1, k2}
    MaxFd = 6
    Lists <- WaitingLines
    MaxLines = 1
    NoPid = NoPid
    NilPipe = NilPipe
INVARIANT PipesClosedAtPrompt
