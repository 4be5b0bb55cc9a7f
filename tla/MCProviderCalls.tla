--------------------------- MODULE MCProviderCalls ---------------------------
(* ProviderCalls with two callers of one provider, which contend most, and   *)
(* streams of up to two pieces and three continuations.                    *)
EXTENDS ProviderCalls

CONSTANT p1

MCOneProvider == {p1}
MCOneFallback == <<p1>>
=============================================================================
