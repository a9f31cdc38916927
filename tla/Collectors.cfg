SPECIFICATION Spec
CONSTANTS
    Kinds = {"network", "disk", "tcp", "cpu", "self", "gpu", "container", "nginx", "apache2", "postgres", "mysql"}
    Width = 16
    CPUs = {1, 2}
    MaxCount = 2
    MaxClock = 2
    MaxFaults = 1
CHECK_DEADLOCK FALSE
INVARIANTS
    RateIsCount
    RateOverItsTime
    NoRateAfterLoss
