---------------------------- MODULE MCStoreEvents ----------------------------
(* Small instances of StoreEvents for TLC. *)
EXTENDS StoreEvents
=============================================================================
