SPECIFICATION Spec
CONSTANTS
    poll = poll
    button = button
    seller = seller
    Calls = {poll, button}
    Clients = {seller}
    ClientOf <- OneClient
    MaxRetries = 2
    Short = 1
    MaxCool = 2
    MaxTokens = 2
INVARIANTS AttemptCeiling ReplayFresh LocksHeld
PROPERTIES OnlyUnusableReplaced CallEnds
