CONSTANTS
    Workers = {w1, w2}
    Labels = {"l", "m"}
    Args = {"q"}
    IdentityPolicies <- MCIdentityPolicies
    Boundaries <- MCBoundaries
    RiskSets <- MCRiskSets
    TaintSets <- MCTaintSets
    Provenances <- MCProvenances
SPECIFICATION MCSpec
SYMMETRY Symmetry
INVARIANTS
    OrderDoesNotMatter
    
    
    ProofsAreExact
    
    ApprovalSpentOnce
    TokenWithinOwner
    PatternsAreExact
PROPERTIES
    SetsProcessedOnce
    ResponseSignsInOnce
    PasskeyCountsOnce
CHECK_DEADLOCK FALSE
