\* Incoming QoS 2 messages: retransmissions, a full table, cut frames.
CONSTANTS
    instr = instr
    httpAck = httpAck
    mA1 = mA1
    mA2 = mA2
    mB2 = mB2
    mC2 = mC2
    mH2 = mH2
    None = None
    MaxPacketId = 3
    Topics = {instr}
    Msgs = {mA2, mB2, mC2}
    TopicOf <- MCTopic
    QosOf <- MCQos
    TopicLen <- MCTopicLen
    MaxMessageHandlers = 1
    MaxIncomingQos2 = 2
    KeepAlive = FALSE
    ReentrantTopics = {}
    AppOps = {"reconnect", "connect", "subscribe", "yield"}
    AppQos = {1}
    WriteOutcomes = {"sent", "nothing", "overrun"}
    MaxCalls = 3
    HandlerCalls = 0
    MaxStack = 2
    BrokerIds = {1, 2, 3}
    Refusals = FALSE
    Stalls = FALSE
    MaxRetries = 1
SPECIFICATION Spec
SYMMETRY AnyMessage
INVARIANTS SlotsDistinct Qos2AtMostOnce NoSlotLeak NoLoss
PROPERTY KeepsContract
CHECK_DEADLOCK FALSE
