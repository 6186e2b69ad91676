SPECIFICATION Spec
CONSTANTS
    Operators = {ann}
    Organisations = {org1, org2}
    Roles = {"ADMIN"}
    Challenges = {ch1, ch2}
    Sessions = {s1, s2}
    Tabs = {t1, t2}
    Tools = {cli}
    Edges = {edge1}
    NoSession = NoSession
    NoChallenge = NoChallenge
    NoOperator = NoOperator
    NoOrganisation = NoOrganisation
    Policies <- AllPolicies
    MaxInFlight <- Limits
    MaxAccounts = 2
    MaxVersion = 2
    MaxUnderWay = 2
    MaxEvents = 6
SYMMETRY Symmetry
CHECK_DEADLOCK FALSE
INVARIANTS TypeOK ServiceIsDeserved AcceptedEdgesAreCurrent
