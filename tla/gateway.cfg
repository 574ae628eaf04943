SPECIFICATION FairSpec
CONSTANTS
    None = None
    Specs = {s1, s2}
    OwnZone = {s1}
    Drafts = {s1}
    Stacks = {{}, {"A"}, {"A", "AAAA"}}
    MaxTokens = 2
    MaxObjects = 2
    MaxFaults = 1
INVARIANT TokensAccounted
INVARIANT LiveSecretValid
PROPERTY RolloutConverges
PROPERTY GatewayTellsTruth
PROPERTY TeardownFinishes
CHECK_DEADLOCK FALSE
