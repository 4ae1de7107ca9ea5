-------------------------------- MODULE MCSetup --------------------------------
(* Set-up alone, with one configuration. *)
EXTENDS Setup

OneConfig == <<"project">>
=============================================================================
