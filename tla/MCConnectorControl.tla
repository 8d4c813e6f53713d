------------------------- MODULE MCConnectorControl -------------------------
(* Small instances of ConnectorControl for TLC. *)
EXTENDS ConnectorControl
=============================================================================
