CONSTANTS
    TTL = 3
    Guess = 2
    Margin = 1
    MaxTime = 2
    MaxCalendars = 2
    MaxChannels = 2
    MaxChanges = 1
    MaxUpsets = 2
SPECIFICATION Spec
INVARIANTS
    NoChangeForgotten
    RenewedInTime
    NoStrayChannels
