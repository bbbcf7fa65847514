SPECIFICATION Spec
INVARIANT TypeOK
INVARIANT TerminalReleased
INVARIANT OwnInterruptHidden
INVARIANT SelectionKept
PROPERTY Returns
PROPERTY LoaderEnds
CHECK_DEADLOCK FALSE
