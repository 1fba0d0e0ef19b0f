SPECIFICATION Spec
CONSTANTS
    selling = selling
    privileges = privileges
    messages = messages
    feedback = feedback
    Sections <- MCSections
    Lenient <- MCLenient
    Scopeless <- MCScopeless
    Buttons <- MCButtons
    Interval <- MCInterval
    Retry <- MCRetry
    PollInterval = 1
    Cooldown = 1
    Cap = 3
INVARIANTS TypeOK FailureShown
PROPERTIES NoStampLost ScopeNotRetried EachAsked
