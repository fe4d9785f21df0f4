------------------------- MODULE MCLiveBookWriters --------------------------
(* One contested asset, on which both writers run the same style.           *)
EXTENDS LiveBookWriters

CONSTANT btc

MCOrder == <<btc>>
=============================================================================
