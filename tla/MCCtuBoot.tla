----------------------------- MODULE MCCtuBoot -----------------------------
(* Values for CtuBoot: two units, sums without collisions.                 *)
EXTENDS CtuBoot

TwoFiles == {<<1, 2>>, <<5>>}
LegalVectors == {1, 5}
=============================================================================
