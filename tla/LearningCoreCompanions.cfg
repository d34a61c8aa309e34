\* docs/architecture.md:140, the members of companions:{object_id}.
CONSTANTS
    c1 = c1
    c2 = c2
    van = van
    ap = ap
    tag = tag
    Calls <- MCCalls
    Reports <- MCReports
    Nil = Nil
    MaxRestarts = 1
SPECIFICATION Spec
INVARIANTS CompanionsAreTheirIds
