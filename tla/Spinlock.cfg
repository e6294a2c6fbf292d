SPECIFICATION LiveSpec
CONSTANTS
    Cpus = {1, 2}
    NLocks = 1
    MaxBare = 1
INVARIANTS MutualExclusion NoPanic IntrRestored
PROPERTIES LockProgress
