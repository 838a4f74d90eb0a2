-------------------------- MODULE MCMessageReceive --------------------------
(* Messages around the limits 2 and 6.  With them the read buffer of a udp *)
(* loop is 4 units, so that longer datagrams are truncated, or at its cap. *)
EXTENDS MessageReceive

AllMessages ==
    [len : {1, 2, 3, 5, 6, 7}, form : {"good"}]
      \cup [len : {2}, form : {"bad", "none", "header", "ping"}]
      \cup {[len |-> 0, form |-> "none"]}
=============================================================================
