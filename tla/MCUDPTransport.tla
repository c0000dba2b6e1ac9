--------------------------- MODULE MCUDPTransport ---------------------------
(* An instance of UDPTransport for TLC: a server and a client. *)
EXTENDS UDPTransport
=============================================================================
