---------------------------- MODULE ActivityManagerMC ----------------------------
EXTENDS ActivityManagerProps
=============================================================================
