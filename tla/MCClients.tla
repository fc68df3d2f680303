-------------------------------- MODULE MCClients --------------------------------
(* Nobody is registered at first; alice may be, through the page, bob never is. *)
EXTENDS Clients

CONSTANTS alice, bob, p

People  == {alice, bob}
Secrets == {p}
Nobody  == {}
Tried   == {<<alice, p>>}
================================================================================
