\* Every combination of the facts of MCDecision, then one fact worse at a time.
SPECIFICATION Spec
CONSTANTS
    Amounts <- MCAmounts
    Customers <- MCCustomers
    Orders <- MCOrders
    Agents <- MCAgents
    Policies <- MCPolicies
    Conversations <- MCConversations
    Velocities <- MCVelocities
    None = None
INVARIANTS
    AutonomyIsBounded
    NothingForbiddenIsQueued
    RecordExplainsItself
PROPERTIES
    NeverRelaxed
CHECK_DEADLOCK FALSE
