---------------------------- MODULE MCPromotion -----------------------------
(* One network of one host, two promotions or rule updates in flight, a scan   *)
(* and a crash.                                                                *)
EXTENDS Promotions

MCSpec == P!FairSpec
=============================================================================
