\* One call, and nothing that stops.
CONSTANTS
    c1 = c1
    c2 = c2
    Calls = {c1, c2}
    MaxStops = 0
SPECIFICATION Spec
INVARIANTS LearningIsRouted
