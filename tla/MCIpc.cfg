SPECIFICATION Spec
CONSTANTS
    MaxSend <- ThreeAndOne
    Sends <- ParentAndChildKinds
    Splittable = {"text"}
    MayCrash = {"child"}
    MayDisconnect = {"parent", "child"}
INVARIANTS TypeOK OneHandleInFlight NothingLeftBehind DisconnectOnce
PROPERTIES NoWriteAfterClose FifoSpec SentIsDelivered
CHECK_DEADLOCK FALSE
