-------------------------- MODULE MCClientService --------------------------
(* A small instance of ClientService.                                      *)
EXTENDS ClientService, TLC

CONSTANTS k1, k2

MCStarts == {{}, {k2}}
MCOffers == {<<"chacha", "aes">>}
=============================================================================
