SPECIFICATION ChartSpec
CONSTANTS
    Instants <- MCInstants
    Nows <- MCNows
INVARIANT LastMonthServed
CHECK_DEADLOCK FALSE
