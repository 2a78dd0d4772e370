SPECIFICATION Spec
CONSTANTS
    k1 = k1
    k2 = k2
    k4 = k4
    q1 = q1
    q2 = q2
    Clients = {k1, k2, k4}
    Hub <- MCHub
    Requests = {q1, q2}
    Consumer = Consumer
    MqttMessages <- MCMqttMessages
    MaxMessages = 2
INVARIANTS
    ScreensTypeOK
    
PROPERTIES
    ServesSubscribed
    LostOnlyToLeavers
SYMMETRY Symmetry
CHECK_DEADLOCK FALSE
