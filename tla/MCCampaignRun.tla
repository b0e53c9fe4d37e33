---- MODULE MCCampaignRun ----
(* One manifest that covers the only check and one that does not.            *)
EXTENDS CampaignRun
MCManifests == {<<"positive", "c1">>, <<"positive", "unscorable">>}
====
