\* Handlers that publish and yield inside cycle(); every call returns.
CONSTANTS
    instr = instr
    httpAck = httpAck
    mA1 = mA1
    mA2 = mA2
    mB2 = mB2
    mC2 = mC2
    mH2 = mH2
    None = None
    MaxPacketId = 3
    Topics = {instr, httpAck}
    Msgs = {mA2, mH2}
    TopicOf <- MCTopic
    QosOf <- MCQos
    TopicLen <- MCTopicLen
    MaxMessageHandlers = 2
    MaxIncomingQos2 = 1
    KeepAlive = FALSE
    ReentrantTopics = {instr}
    AppOps = {"reconnect", "connect", "subscribe", "publish", "yield"}
    AppQos = {1}
    WriteOutcomes = {"sent", "nothing"}
    MaxCalls = 4
    HandlerCalls = 2
    MaxStack = 4
    BrokerIds = {1, 2}
    Refusals = FALSE
    Stalls = TRUE
    MaxRetries = 1
SPECIFICATION FairSpec
INVARIANTS Qos2AtMostOnce NoSlotLeak NoLoss
PROPERTIES AckIsOurs CallsReturn
CHECK_DEADLOCK FALSE
