SPECIFICATION Spec
CONSTANTS
    Users = {u1, boss}
    Admins = {boss}
    Assigned = {u1, boss}
    Fields = {amount, date, note}
    Merged = {amount, date}
    Required = {note}
    Requests = {q1, q2, q3}
    NoRequest = NoRequest
INVARIANTS DecidedByAssignee VoteOnRecord NodeFollowsTasks
CHECK_DEADLOCK FALSE
SYMMETRY Symmetry
