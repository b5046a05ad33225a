--------------------------- MODULE MCEndpointCache ---------------------------
(* Instances of EndpointCache.                                              *)
EXTENDS EndpointCache
=============================================================================
