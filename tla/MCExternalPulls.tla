---------------------------- MODULE MCExternalPulls ----------------------------
(***************************************************************************)
(* Two pull requests of one repository.                                    *)
(***************************************************************************)
EXTENDS ExternalPulls

PullsDef == {<<1, 1>>, <<1, 2>>}
=============================================================================
