---------------------------- MODULE MCCodecStream ----------------------------
(* The compressed connection with a small block, a short stall timeout and a  *)
(* transport that takes less than a block.                                    *)
EXTENDS CodecStream
CONSTANT w1
=============================================================================
