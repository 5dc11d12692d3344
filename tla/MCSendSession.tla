---------------------------- MODULE MCSendSession ----------------------------
(* SendSession with a receiver that sends well and badly formed frames. *)
EXTENDS SendSession

MCReceiverFrames ==
  {[kind |-> k] : k \in {"ServerInit", "keepAlive", "garbage", "bareDisconnection"}}
    \cup {[kind |-> "ConnectionResponse", safe |-> s] : s \in BOOLEAN}
    \cup {[kind |-> "disconnection", ack |-> a] : a \in BOOLEAN}
    \cup [kind : {"bytes"}, id : ControlId, total : 0..2, offset : 0..1, last : BOOLEAN,
          body : {<<>>} \cup {<<Message(s, <<>>)>> : s \in {"Accept", "Reject", "Cancel", "text"}}]
=============================================================================
