SPECIFICATION Spec
CONSTANTS
 Requests = {strict, public, later}
 Strict = {strict}
 Conns = {c1, c2, c3}
 Limit = 1
 Auth = Auth
 None = None
INVARIANT OneLeftForEachLost
PROPERTIES OwnAnswer Answered
CHECK_DEADLOCK FALSE
