--------------------------- MODULE MCCampaignLedger ---------------------------
(* An instance of CampaignLedger for TLC. *)
EXTENDS CampaignLedger
=============================================================================
