CONSTANTS
    Workers = {w1}
    Switchers = {x1, x2}
    Services = {a, b}
    DefaultService = a
SPECIFICATION Spec
INVARIANT MetricsInv
