------------------------------ MODULE MCWebApp ------------------------------
(* Instances of the web app for TLC. *)
EXTENDS WebApp
=============================================================================
