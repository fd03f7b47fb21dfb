SPECIFICATION FairSpec
CONSTANTS
    s1 = s1
    r1 = r1
    own = own
    service = service
    Programs = {s1, r1}
    RoleOf <- Roles
    Deployments <- SomeDeployments
    Relays = {own, service}
    NoRelay = none
    MaxConns = 4
    MaxFaults = 1
INVARIANTS ServiceKeepsWaiters RoutesAgree
PROPERTY ProgramsSettle
CHECK_DEADLOCK FALSE
