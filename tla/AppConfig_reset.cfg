CONSTANTS
    n1 = n1
    n2 = n2
    k1 = k1
    k2 = k2
    Unset = Unset
    Nodes = {n1, n2}
    Settings = {k1, k2}
    Values <- MCValues
    Env <- MCEnv
    Forms <- MCForms
    Imports <- MCImports
    Deployments = {FALSE}
    ThreadRead = {k2}
    ResetOnStart = TRUE
    MaxSaves = 2
    MaxCrashes = 2
SPECIFICATION ConfigSpec
INVARIANT ResetReverts
CHECK_DEADLOCK FALSE
