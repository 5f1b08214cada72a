----------------------------- MODULE MCCampaign -----------------------------
(* Two runs, each a sub-experiment, with ids of their own or shared.       *)
EXTENDS Campaign

CONSTANTS i1, i2, n1

MCIds    == {i1, i2}
MCStored == {{}, {i2}}
=============================================================================
