SPECIFICATION FairSpec
CONSTANTS
    Configs <- MCConfigs
    HandlerErrors <- MCHandlerErrors
    GatewayStatuses <- MCGatewayStatuses
    Relayed <- MCRelayed
    Start <- MCStart
    MaxTime = 15
    MaxAttempts = 3
INVARIANTS ClientInv OnceUnlessGateway
PROPERTIES FreshTokens AcceptedWhileAlive RequestsReturn
CHECK_DEADLOCK FALSE
