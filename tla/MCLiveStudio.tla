---------------------------- MODULE MCLiveStudio ----------------------------
(***************************************************************************)
(* Small instances of LiveStudio: the endpoint field holds an address,       *)
(* nothing, or a text that is no WebSocket URL.                              *)
(***************************************************************************)
EXTENDS LiveStudio

CONSTANTS here, blank, garbage, w1, w2

\* Payloads of one and of two events, with and without ticks, out of order.
MCPayloads == {<<>>, <<Untimed>>, <<1>>, <<2, 0>>}

\* A log without ticks, and one whose ticks the stream reaches and passes.
MCLogs == {<<Untimed>>, <<0, 1>>}
=============================================================================
