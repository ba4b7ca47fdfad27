\* Two workers race for one agent: two statements in flight, three generations.
CONSTANTS
    Workers = {w1, w2}
    Agents = {a1}
    Ttls = {1, 2}
    None = None
    MaxClock = 3
    MaxToken = 3
    MaxInflight = 2
SPECIFICATION FencingSpec
CHECK_DEADLOCK FALSE
INVARIANT CurrentGenerationKeepsRow
