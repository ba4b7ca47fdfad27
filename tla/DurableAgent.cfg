\* Three messages, all interleavings with turns, parks, retries and a cancel.
CONSTANTS
    Messages = {m1, m2, m3}
    Hints <- MCHints
    NoHint = NoHint
    Overrides <- MCOverrides
    NoOverride = NoOverride
    MaximumAttempts = 3
    MaxParks = 3
SPECIFICATION FairSpec
PROPERTIES ImplementsMailbox AgentMakesProgress
