------------------------------ MODULE MCLiveRoom ------------------------------
EXTENDS LiveRoom
=============================================================================
