------------------------------- MODULE MCSdo -------------------------------
(* The SDO client with its application, link and nodes, for TLC: every     *)
(* constant gets its value in the configurations.                          *)
EXTENDS SdoExchange
=============================================================================
