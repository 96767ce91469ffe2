SPECIFICATION Spec
CONSTANTS
    MaxSend <- TwoAndOne
    Sends <- TextAndSocket
    Splittable = {}
    MayCrash = {}
    MayDisconnect = {"child"}
PROPERTY DisconnectIsEmitted
CHECK_DEADLOCK FALSE
