SPECIFICATION Spec
CONSTANTS
    Pids = {p1, p2, p3, p4}
    PipeIds = {k1, k2}
    MaxFd = 6
    Lists <- AllLines
    MaxLines = 2
    NoPid = NoPid
    NilPipe = NilPipe
SYMMETRY Perms
INVARIANTS TypeOK JobsAreTheChildren ChildIsWired WriteEndsClosed
PROPERTIES NoStrangerHungUp ExitLeavesNoChild RunsTheLine
