----------------------------- MODULE MCCampaign -----------------------------
(* Values for the constants of Campaign that a .cfg cannot write.           *)
EXTENDS Campaign

TwoProviders == <<"groq", "openai">>
OneProvider == <<"groq">>

CampaignFailures == {"rate_limit"}
NoFailures == {}
=============================================================================
