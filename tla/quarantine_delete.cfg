\* A release and a delete of the same entry.
CONSTANTS
    e1 = e1
    e2 = e2
    admin = admin
    user = user
    r1 = r1
    r2 = r2
    r3 = r3
    Entries = {e1, e2}
    Users = {admin, user}
    Admins = {admin}
    Rcpts <- MCRcpts
    Owned <- MCOwned
    Retention = 2
    TicksPerDay = 2
    LastSave = 2
    Horizon = 7
SPECIFICATION Spec
CHECK_DEADLOCK FALSE
PROPERTIES
    DeletedNeverDelivered
