\* A deletion that fails after the wallet has failed.
CONSTANTS
    Clients = {c1}
    Emails = {e1}
    Ids = {i1}
    None = None
SPECIFICATION Spec
INVARIANTS
    RolledBackIsGone
CHECK_DEADLOCK FALSE
