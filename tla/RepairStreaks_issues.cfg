SPECIFICATION Spec
CONSTANTS
    orders = orders
    lookup = lookup
    fulfillment = fulfillment
    feedback = feedback
    Sections <- MCSections
    Optional = {fulfillment, feedback}
    Unavailable <- MCUnavailable
    Partial <- MCPartial
    Truncated = {}
    Classified <- MCClassified
    Owner <- MCOwner
    Threshold = 3
    None = None
INVARIANTS NoFalseAlarm AlarmRaised
