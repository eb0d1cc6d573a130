SPECIFICATION RoutesSpec
CONSTANTS
    r1 = r1
    r2 = r2
    r3 = r3
    w1 = w1
    w2 = w2
    ServedRuns = {r1, r2, r3}
    Origin <- MCOrigin
    Bearers <- MCBearers
    Unbound = Unbound
PROPERTIES
    WorkingRunPublishes
