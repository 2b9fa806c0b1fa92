--------------------------- MODULE MCRemoteAccess ---------------------------
(* The remote access application for TLC: a table of three nodes, of which *)
(* two are on the network and one is a CiA 401 device.  The device also    *)
(* tells of node ID 0, which changes the byte before the table, and of an  *)
(* ID behind the table.                                                    *)
EXTENDS RemoteAccess

MCStrays == {<<0, BOOT>>, <<MAX_NUMBER_OF_NODES, SCANCOMPLETE>>}
=============================================================================
