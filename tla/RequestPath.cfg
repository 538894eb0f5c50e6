SPECIFICATION Spec
CONSTANTS
    Extensions <- MCExtensions
    Deployments <- MCDeployments
    Requests <- MCRequests
    Answers <- MCAnswers
INVARIANTS
    ChainInOrder
    HandlerSeesIdentity
    ProbesNeedNoToken
    LogAgreesWithClient
    SameVerdict
    ToolTokenHonoured
    RoutedAsConfigured
