---------------------------- MODULE MCCollaboration ----------------------------
EXTENDS Collaboration
=============================================================================
