------------------------------ MODULE MCBridge ------------------------------
(* Every combination of request and context over two prompt sizes and      *)
(* three amounts: below, at and above what the rates make of the sizes.     *)
EXTENDS Bridge

MCRequests == Request({0, 2})
MCContexts == Context({0, 2, 30})
=============================================================================
