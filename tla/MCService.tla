------------------------------ MODULE MCService -----------------------------
(* A small instance of Service for TLC.  No symmetry: the run checks        *)
(* liveness.                                                                *)
EXTENDS Service

SomeNames == <<"HubSpot CRM", "Salesforce">>
SomeStamps == {1, 2}
=============================================================================
