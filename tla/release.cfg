SPECIFICATION MCSpec
CONSTANTS
    local = local  test = test  main = main
    Procs = {p, q}  Servers = {local, test, main}  GenesisOf <- MCGenesisOf
    LocalServer = local  None = none  Absent = absent
    MaxEdits = 2  MaxVersion = 2  Runs = 3
SYMMETRY Symmetry
INVARIANTS NetworkAsked FromTheTree
CHECK_DEADLOCK FALSE
