------------------------------ MODULE CppFrame ------------------------------
(***************************************************************************)
(* The host frames of the C++ SDK (sdk/gsusb-cpp/src/gsusb.cpp).  A        *)
(* message's data is abstracted to who sent it (stamp), how many of its    *)
(* bytes are the sender's (kept) and how many it has (len).  A host frame  *)
(* keeps the fields of struct gs_host_frame apart, and its size in bytes.  *)
(***************************************************************************)
EXTENDS Integers, Sequences, FiniteSets, FiniteSetsExt

Lower(a, b) == IF a < b THEN a ELSE b

DlcMap == <<0, 1, 2, 3, 4, 5, 6, 7, 8, 12, 16, 20, 24, 32, 48, 64>>

DlcToLen(dlc) == DlcMap[Lower(dlc, 15) + 1]

\* 12 and less are 9, 16 and less are 10, and so on.
LenToDlc(len) ==
    IF len <= 8 THEN len
    ELSE 9 + Cardinality({n \in {12, 16, 20, 24, 32, 48} : len > n})

CalcTxSize(cap) == IF cap.fd THEN 76 ELSE 20

CalcRxSize(cap) ==
    CASE cap.fd /\ cap.timestamp   -> 80
      [] cap.fd /\ ~cap.timestamp  -> 76
      [] ~cap.fd /\ cap.timestamp  -> 24
      [] ~cap.fd /\ ~cap.timestamp -> 20

\* send_frame up to the bulk transfer.  The echo id is that of a frame received
\* from the bus, 0xFFFFFFFF.  kept bytes are copied to offset 12.
HostFrame(cap, channel, msg) ==
    LET dlc  == IF msg.fd THEN LenToDlc(msg.data.len) ELSE Lower(msg.data.len, 8)
        copy == IF msg.fd THEN DlcToLen(dlc) ELSE Lower(msg.data.len, 8)
    IN  [noEcho  |-> TRUE,
         id      |-> msg.id, eff |-> msg.ext, rtr |-> msg.rtr,
         dlc     |-> dlc,
         channel |-> channel,
         fd |-> msg.fd, brs |-> msg.brs, esi |-> msg.esi,
         stamp   |-> msg.data.stamp,
         kept    |-> IF msg.rtr THEN 0 ELSE Lower(copy, msg.data.len),
         size    |-> CalcTxSize(cap)]

\* What the adapter hands back for a frame on the bus: the frame of a channel, in
\* the size of its kind, with a timestamp if the channel has them.
FromBus(cap, channel, raw) ==
    [raw EXCEPT !.channel = channel,
                !.size = (IF raw.fd THEN 76 ELSE 20) + (IF cap.timestamp THEN 4 ELSE 0)]

\* parse_frame, from at least 20 transferred bytes.
ParseFrame(raw) ==
    LET len == Lower(IF raw.fd THEN DlcToLen(raw.dlc) ELSE Lower(raw.dlc, 8), raw.size - 12) IN
    [id   |-> IF raw.eff THEN raw.id % 2^29 ELSE raw.id % 2^11,
     ext  |-> raw.eff, rtr |-> raw.rtr,
     fd   |-> raw.fd, brs |-> raw.brs, esi |-> raw.esi,
     rx   |-> raw.noEcho,
     channel |-> raw.channel,
     data |-> [stamp |-> raw.stamp, kept |-> Lower(raw.kept, len), len |-> len]]

-----------------------------------------------------------------------------
\* What a message must be when it comes out of the adapter on a channel: its id as
\* wide as its kind of id is, its data in the next length CAN has, up to 64 or 8
\* bytes.  (rx: an echo cannot be told from a frame of another node.)
AsSent(channel, msg) ==
    LET lengths == IF msg.fd THEN 0 .. 8 \cup {12, 16, 20, 24, 32, 48, 64} ELSE 0 .. 8
        most    == IF msg.fd THEN 64 ELSE 8
        wanted  == Lower(msg.data.len, most)
    IN  [id   |-> msg.id % (IF msg.ext THEN 2^29 ELSE 2^11),
         ext  |-> msg.ext, rtr |-> msg.rtr,
         fd   |-> msg.fd, brs |-> msg.brs, esi |-> msg.esi,
         rx   |-> TRUE,
         channel |-> channel,
         data |-> [stamp |-> msg.data.stamp,
                   kept  |-> IF msg.rtr THEN 0 ELSE wanted,
                   len   |-> Min({l \in lengths : l >= wanted})]]
=============================================================================
