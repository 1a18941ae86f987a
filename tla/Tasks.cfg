SPECIFICATION Spec
CONSTANTS
    Processes = {x1, x2}
    Objects = {y1, y2}
    Nil = Nil
SYMMETRY Symmetry
INVARIANTS
    RunIsSafe
    TaskRecordsHold
    ConversationIsSafe
    WorkspaceIsSafe
    CheckpointIsTrue
    ClaudeIsTrue
    CodexIsTrue
    PiIsTrue
    OpenCodeIsTrue
    EnvelopeIsTrue
CHECK_DEADLOCK FALSE
