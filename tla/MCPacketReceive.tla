--------------------------- MODULE MCPacketReceive ---------------------------
(* Plain and segmented frames of one to three bytes, the last segment shorter
   than the others where the size does not divide the frame. *)
EXTENDS PacketReceive

Message(len, seg) == [len |-> len, seg |-> seg, held |-> len, own |-> TRUE]

(* Beside them a message that is cut off, one that is too long, one whose
   segments are not smaller than itself, an empty one, one of another session. *)
MCMessages ==
  {Message(1, 0), Message(3, 0), Message(3, 1), Message(3, 2)} \cup
  {[Message(3, 1) EXCEPT !.held = 2], Message(4, 0), Message(2, 2), Message(0, 0),
   [Message(2, 0) EXCEPT !.own = FALSE]}

(* Some are too small for a frame, some for what is left of one. *)
TightBuffers == {<<1>>, <<2>>, <<3>>, <<2, 1>>, <<1, 3>>, <<3, 2, 3>>}
=============================================================================
