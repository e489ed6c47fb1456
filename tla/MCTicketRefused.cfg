SPECIFICATION TicketSpec
CONSTANTS
    TicketCoin = {"c1"}
    Typed = {10}
    Mid = {20, 40}
    TypedSize = {60}
    LotParts = 2
    MinNotional = 30
    MaxTicketEdits = 4
    MaxSubmits = 2
CONSTRAINT LimitBracket
CHECK_DEADLOCK FALSE
INVARIANT NoDuplicateLegs
