CONSTANTS
    Accounts = {x1, x2}
    Owning = {x1}
    Logins = {env, other, third}
    EnvOwners = {env}
    MaxEvents = 2
    MaxOps = 2
SYMMETRY Symmetry
SPECIFICATION Spec
CHECK_DEADLOCK FALSE
INVARIANT AllowedMeansApproved
INVARIANT RevokedHasNoWork
