SPECIFICATION Spec
CONSTANTS
    Label <- Labels
    lower <- Lower
    Deployments <- AllDeployments
INVARIANTS TypeOK PresentIffDeployed MismatchIsReal OutcomeAsTabulated
