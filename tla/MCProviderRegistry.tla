------------------------- MODULE MCProviderRegistry -------------------------
(* ProviderRegistry with two callers that meet at two providers.             *)
EXTENDS ProviderRegistry, TLC

CONSTANTS p1, p2

MCProviders == {p1, p2}
MCFallback == <<p1, p2>>

Symmetry == Permutations(Callers)
=============================================================================
