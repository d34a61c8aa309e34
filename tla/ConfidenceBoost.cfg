\* docs/testing-checklist.md:41, "known point -> confidence boost".
CONSTANTS
    Points <- MCPoints
    GroupOf <- MCGroupOf
    Counts <- MCCounts
SPECIFICATION Spec
INVARIANT KnownPointBoosts
