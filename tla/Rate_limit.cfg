\* Two requests for one endpoint under every valid deployment, with failing waits.
SPECIFICATION FairSpec
CONSTANTS
    Requests = {r1, r2}
    Policies <- MCPolicies
    DefaultLimit <- MCDefaultLimit
    ActorPolicy = "invite_create"
    Group <- MCGroup
    Deployments <- MCDeployments
    MaxErrors = 1
INVARIANTS QuotaHeld AdmittedWasCounted ProtectedIsLimited RefusedKeepsQuota
PROPERTY BucketsRecover
