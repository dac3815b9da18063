----------------------------- MODULE MCHttpLoad -----------------------------
(* A small instance of HttpLoad: the line of one account, which is also on *)
(* the target topic, and a malformed line.                                 *)
EXTENDS HttpLoad
CONSTANTS a
MCLines == <<a, Malformed>>
MCDeliveries == <<a>>
=============================================================================
