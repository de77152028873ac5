---------------------------- MODULE MCHubClient -----------------------------
EXTENDS HubClient
=============================================================================
