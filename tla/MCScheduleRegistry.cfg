SPECIFICATION RegistrySpec
CONSTANTS
    Labels = {"update", "render"}
    IdentityMax = 4
    Kinds <- MCKinds
    Requests <- MCRequests
    Plannable <- MCPlannable
PROPERTY ImplementsRegistration
CHECK_DEADLOCK FALSE
