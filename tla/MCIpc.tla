------------------------------- MODULE MCIpc -------------------------------
(* Constants for model-checking IpcChannel.                                *)
EXTENDS IpcChannel

\* The parent sends a handle and queues two messages behind it; the child
\* sends one message of its own at the same time.
ThreeAndOne == [p \in {"parent", "child"} |-> IF p = "parent" THEN 3 ELSE 1]
ParentAndChildKinds == [p \in {"parent", "child"} |->
    IF p = "parent" THEN {"text", "internal", "socket"} ELSE {"socket", "server"}]

\* A smaller instance without the second handle kind.
TwoAndOne == [p \in {"parent", "child"} |-> IF p = "parent" THEN 2 ELSE 1]
TextAndSocket == [p \in {"parent", "child"} |-> {"text", "socket"}]
=============================================================================
