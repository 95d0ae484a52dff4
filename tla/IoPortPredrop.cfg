SPECIFICATION PortSpec
CONSTANT MaxResets = 0
INVARIANT PredropTold
