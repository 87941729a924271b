SPECIFICATION Spec
CONSTANTS
    Source = {9, 29}
    Forced = {9}
    US_DIV = 2
    Period = {0, 1, 3}
INVARIANT TickNotLost
PROPERTY ExactPeriod
