--------------------------- MODULE MCReceiveSession ---------------------------
(* ReceiveSession with a peer that sends well and badly formed frames. *)
EXTENDS ReceiveSession

Item(i, n, isText) == [id |-> i, size |-> n, text |-> isText]

\* Two attachments that may be accepted (one a text, one empty), and the lists
\* that must be refused: a repeated id, a long text, a total too large, nothing.
MCIntroductions ==
  {<<Item(1, 2, FALSE), Item(2, 1, TRUE)>>,
   <<Item(1, 0, FALSE), Item(2, 1, FALSE)>>,
   <<Item(1, 1, FALSE), Item(1, 1, FALSE)>>,
   <<Item(1, 3, TRUE)>>,
   <<Item(1, 3, FALSE), Item(2, 2, FALSE)>>,
   <<>>}

MCMessages ==
  {Message(k) : k \in {"PairedKeyEncryption", "PairedKeyResult", "Cancel", "text"}}
    \cup {[share |-> "Introduction", meta |-> m] : m \in MCIntroductions}

MCUnit == Message("text")

\* Messages come in one chunk; plain units and one message in every cut.
MCFrames ==
  [kind : PlainStates \cup {"keepAlive", "disconnection", "other", "garbage"}]
    \cup [kind : {"bytes"}, id : Id, total : {1}, offset : {0}, last : {TRUE},
          body : {<<m>> : m \in MCMessages}]
    \cup [kind : {"bytes"}, id : Id, total : 0..3, offset : 0..2, last : BOOLEAN,
          body : {<<>>, <<MCUnit>>, <<MCUnit, MCUnit>>, <<Message("PairedKeyEncryption")>>}]
    \cup [kind : {"file"}, id : Id \cup {3}, total : 0..2, offset : 0..2, last : BOOLEAN,
          body : {<<>>, <<MCUnit>>, <<MCUnit, MCUnit>>}]

\* For liveness: a peer that keeps to the protocol and may stop anywhere.
MCFewFrames ==
  {f \in MCFrames :
     \/ f.kind \in PlainStates \cup {"keepAlive"}
     \/ f.kind = "bytes" /\ f.id = 2 /\ f.total = 1 /\ f.offset = 0 /\ f.last
     \/ f.kind = "file" /\ f.id \in Id /\ f.total # 0 /\ Len(f.body) < 2}
=============================================================================
