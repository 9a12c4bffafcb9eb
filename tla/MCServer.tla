------------------------------ MODULE MCServer ------------------------------
(***************************************************************************)
(* Server on small instances: two listening sockets, as localhost has an   *)
(* IPv4 and an IPv6 address, and connections to either.                    *)
(***************************************************************************)
EXTENDS Server
=============================================================================
