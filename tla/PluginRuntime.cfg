SPECIFICATION Spec
CONSTANTS
    Sessions = {s1}
    ReadyCaller = ready
    ToolCaller = tool
    Callers = {ready, tool}
    MaxTree = 2
    MaxMoves = 1
    None = None
INVARIANTS
    TypeOK
    
    EditsAreNotForgotten
