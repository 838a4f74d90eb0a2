--------------------------- MODULE MCPacketWrites ---------------------------
(* Small instances of PacketWrites: packages of up to five units against a *)
(* fragment size of two and a websocket limit of three; zero, one and two  *)
(* whole fragments are among them.                                         *)
EXTENDS PacketWrites, TLC

One == <<1>>
Mixed == {[op |-> "pkg", parts |-> One],
          [op |-> "timed", parts |-> One],
          [op |-> "send", parts |-> One],
          [op |-> "bytes", parts |-> <<0>>],
          [op |-> "bytes", parts |-> <<2>>],
          [op |-> "bytes", parts |-> <<3>>],
          [op |-> "bytes", parts |-> <<4>>],
          [op |-> "bytes", parts |-> <<5>>],
          [op |-> "array", parts |-> <<2, 1>>],
          [op |-> "array", parts |-> <<2, 2>>],
          [op |-> "array", parts |-> <<1, 4>>]}

Interchangeable == Permutations(Writers)
=============================================================================
