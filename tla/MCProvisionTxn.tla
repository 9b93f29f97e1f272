--------------------------- MODULE MCProvisionTxn ---------------------------
(* Two wikis to provision in one vault with a generated router.            *)
EXTENDS ProvisionTxn

CONSTANTS a, b

OneRegistryOneCard == {Registry, Card(a)}
NoPath == {}
=============================================================================
