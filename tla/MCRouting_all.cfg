SPECIFICATION Spec
CONSTANTS
    Pipes <- MCPipes
    Groups <- MCGroups
    Roots <- MCRoots
    Requests <- MCRequests
    Malformed <- MCMalformed
    Lower <- MCLower
    MaxNodes = 4
INVARIANTS
    RoutedAsDeclared
    ParamsFromPath
CHECK_DEADLOCK FALSE
