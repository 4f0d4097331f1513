---------------------------- MODULE MCAunHostImm ----------------------------
EXTENDS AunHostImm
=============================================================================
