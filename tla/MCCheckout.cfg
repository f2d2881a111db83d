SPECIFICATION CheckoutSpec
CONSTANTS
    lead = lead
    Agent = {lead}
    RoleOf <- MCRoleOf
    Initial = {"pending"}
    Creation <- MCCreation
    Target = {"ready", "planned", "in_progress", "review", "testing", "merge_ready", "done"}
    MaxTips = 2
    None = None
CHECK_DEADLOCK FALSE
PROPERTY BaseKeepsWork
