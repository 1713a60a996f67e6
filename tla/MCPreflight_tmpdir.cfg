SPECIFICATION PreflightSpec
CONSTANTS
    Calls = {1, 2}
    Users = {"ann", "bob"}
    Servers <- MCServers
    MaxRoom = 2
INVARIANTS ProbeIsTrue DeniedByAnotherUser
CHECK_DEADLOCK FALSE
