---------------------------- MODULE MCCampaignPush ----------------------------
EXTENDS CampaignPush

CONSTANTS design, build

MCTaskOrder == <<design, build>>
=============================================================================
