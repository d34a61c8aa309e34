\* Two calls of any method, direct or through the gateway; two stops or deaths.
CONSTANTS
    c1 = c1
    c2 = c2
    Calls = {c1, c2}
    MaxStops = 2
SPECIFICATION FairSpec
INVARIANTS RefinementIsIsolated ServedOnce
PROPERTIES CallsAndStopsEnd
