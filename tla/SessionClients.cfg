SPECIFICATION FairSpec
CONSTANTS
    Name = {a, b}
    MaxDepth = 1
    MaxLine = 2
INVARIANTS ClientsAgree StreamAskedFor
PROPERTY ClientsSettle
CHECK_DEADLOCK FALSE
