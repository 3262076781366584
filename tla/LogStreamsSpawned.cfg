SPECIFICATION Spec
CONSTANTS
    Keys = {unit}
    ValidKeys = {unit}
    InlineKeys = {}
    MaxRequests = 2
INVARIANT
    OnePerKey
CHECK_DEADLOCK FALSE
