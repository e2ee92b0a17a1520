--------------------------- MODULE MCDigestPublish ---------------------------
(***************************************************************************)
(* Instances of DigestPublish for TLC: the digests of one workspace and of *)
(* the global scope, published one by one or together, as the three values *)
(* of compile --scope have it.                                             *)
(***************************************************************************)
EXTENDS DigestPublish

MCDigests == {"workspace", "global"}
MCPlans   == {<<"workspace">>, <<"global">>, <<"workspace", "global">>}
=============================================================================
