\* MQTTUnsubscribe takes an UNSUBACK that is not its own.
CONSTANTS
    instr = instr
    httpAck = httpAck
    mA1 = mA1
    mA2 = mA2
    mB2 = mB2
    mC2 = mC2
    mH2 = mH2
    None = None
    MaxPacketId = 3
    Topics = {instr}
    Msgs = {}
    TopicOf <- MCTopic
    QosOf <- MCQos
    TopicLen <- MCTopicLen
    MaxMessageHandlers = 1
    MaxIncomingQos2 = 1
    KeepAlive = FALSE
    ReentrantTopics = {}
    AppOps = {"reconnect", "connect", "unsubscribe", "yield"}
    AppQos = {1}
    WriteOutcomes = {"sent", "nothing"}
    MaxCalls = 4
    HandlerCalls = 0
    MaxStack = 2
    BrokerIds = {}
    Refusals = FALSE
    Stalls = FALSE
    MaxRetries = 1
SPECIFICATION Spec
PROPERTIES UnsubackIsOurs
CHECK_DEADLOCK FALSE
