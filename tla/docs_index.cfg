\* Two calls at a time, four loads.
CONSTANTS
    Callers = {c1, c2}
    MaxVersion = 4
SPECIFICATION Spec
INVARIANTS ReadsNeverGoBack NeverDowngraded
PROPERTIES CallsReturn
