CONSTANTS
    Messages = {1, 2, 3, 5, 6}
    Containers = {4, 7}
    Content = {2, 5}
    Unparsed = {2, 6}
    Resets = {3}
    WindowSize = 3
    EraseCount = 1
    MaxInside = 2
    Careless = {TRUE, FALSE}
SPECIFICATION FairSpec
CHECK_DEADLOCK FALSE
INVARIANTS TypeOK HandledOnce ConfirmedWasHandled HandledAgainOnlyIfForgotten
PROPERTY FinallyConfirmed
