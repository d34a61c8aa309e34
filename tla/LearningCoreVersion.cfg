\* docs/testing-checklist.md:57, "Version increment on update".
CONSTANTS
    c1 = c1
    c2 = c2
    van = van
    ap = ap
    tag = tag
    Calls <- MCCalls
    Reports <- MCReports
    Nil = Nil
    MaxRestarts = 1
SPECIFICATION Spec
PROPERTIES VersionIncrementsOnUpdate
