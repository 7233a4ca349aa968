SPECIFICATION Spec
CONSTANTS
    Handlers = {h1, h2}
    CodeLife = 1
    Cooldown = 1
    TempLife = 1
    MaxTime = 1
    MaxCalls = 4
    MaxFailures = 1
SYMMETRY MCSymmetry
INVARIANTS NewestMailWorks LinkUsesBounded StaleLoginsBounded SecondFactorUsable ResendsSpaced AvatarStored
CHECK_DEADLOCK FALSE
