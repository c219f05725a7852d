--------------------------- MODULE MCConfigStore ---------------------------
(* A small instance of ConfigStore.                                        *)
EXTENDS ConfigStore, TLC

=============================================================================
