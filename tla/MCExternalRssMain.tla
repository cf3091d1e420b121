-------------------------- MODULE MCExternalRssMain --------------------------
(***************************************************************************)
(* Model of ExternalRssMain for TLC, on the lines of MCExternalRss.        *)
(***************************************************************************)
EXTENDS ExternalRssMain, MCExternalRss

=============================================================================
