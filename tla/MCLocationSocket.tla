-------------------------- MODULE MCLocationSocket --------------------------
(***************************************************************************)
(* Instances of LocationSocket for TLC.                                    *)
(***************************************************************************)
EXTENDS LocationSocket

MCTokenFaults == {"token"}
MCRenewalFaults == {"renewal"}
=============================================================================
