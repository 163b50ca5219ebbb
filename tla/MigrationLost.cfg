SPECIFICATION Spec
CONSTANTS
    OwnLoops = {FALSE}
    Scripts <- TwoCmds
INVARIANT AllAreHandled
CHECK_DEADLOCK FALSE
