----------------------------- MODULE MCRouting -----------------------------
(* A group of one deployment, which is also its classified fallback, under  *)
(* two concurrent requests; or two deployments under one request.           *)
EXTENDS Routing

CONSTANTS d1, d2

MCGroup == <<d1>>
MCFallbacks == <<d2>>
=============================================================================
