------------------------------ MODULE MCAunTx ------------------------------
EXTENDS AunTx

\* One mapped station, one that resolves to a second peer by learn mode, one
\* without a route and the loopback responder.
Routes == [d \in Dests |-> CASE d = "fs" -> "a"
                             [] d = "ws" -> "b"
                             [] OTHER -> None]
=============================================================================
