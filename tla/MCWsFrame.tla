----------------------------- MODULE MCWsFrame ------------------------------
(* Values for model checking WsFrame, with 32 values of a byte.            *)
EXTENDS WsFrame, Bitwise

MCXor(a, b) == a ^^ b

\* 1040, 2^20, 2^29 - 1, 2^29 and 2^30 - 1.
MCLongFields ==
  {<<0, 0, 0, 0, 0, 1, 0, 16>>, <<0, 0, 0, 1, 0, 0, 0, 0>>, <<0, 0, 15, 31, 31, 31, 31, 31>>,
   <<0, 0, 16, 0, 0, 0, 0, 0>>, <<0, 0, 31, 31, 31, 31, 31, 31>>}
=============================================================================
