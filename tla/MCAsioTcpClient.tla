--------------------------- MODULE MCAsioTcpClient ---------------------------
(* Instances of AsioTcpClient for TLC. *)
EXTENDS AsioTcpClient
===============================================================================
