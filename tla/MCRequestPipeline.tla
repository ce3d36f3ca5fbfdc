------------------------- MODULE MCRequestPipeline -------------------------
(* A small instance of RequestPipeline for TLC.                             *)
EXTENDS RequestPipeline

MCChains ==
    {<< >>, <<"SecurityHeaders", "RateLimit", "MaxBodyBytes">>,
     <<"RateLimitUnset">>, <<"MaxBodyBytesUnset", "RateLimit">>}
=============================================================================
