SPECIFICATION Spec
CONSTANTS
    Grace = 6
    FirstInterval = 1
    MaxInterval = 2
    CmdTimeout = 2
    LockTimeout = 4
    LockInterval = 2
    ClockStep = 1
INVARIANT TypeOK
INVARIANT LockHeldAtMost
INVARIANT PrologOutwaits
INVARIANT ClockInv
PROPERTY ExitNoticed
PROPERTY NodeSteps
CHECK_DEADLOCK FALSE
