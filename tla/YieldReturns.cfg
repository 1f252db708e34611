\* MQTTYield on a connection the peer has closed.
CONSTANTS
    instr = instr
    httpAck = httpAck
    mA1 = mA1
    mA2 = mA2
    mB2 = mB2
    mC2 = mC2
    mH2 = mH2
    None = None
    MaxPacketId = 2
    Topics = {instr}
    Msgs = {}
    TopicOf <- MCTopic
    QosOf <- MCQos
    TopicLen <- MCTopicLen
    MaxMessageHandlers = 1
    MaxIncomingQos2 = 1
    KeepAlive = FALSE
    ReentrantTopics = {}
    AppOps = {"reconnect", "connect", "subscribe", "publish", "yield"}
    AppQos = {1}
    WriteOutcomes = {"sent", "nothing"}
    MaxCalls = 2
    HandlerCalls = 1
    MaxStack = 4
    BrokerIds = {}
    Refusals = FALSE
    Stalls = FALSE
    MaxRetries = 0
SPECIFICATION FairSpec
PROPERTIES YieldReturns
CHECK_DEADLOCK FALSE
