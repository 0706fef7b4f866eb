-------------------------- MODULE MCSFTCheckpoint --------------------------
EXTENDS SFTCheckpoint

KeepTwo == <<2>>
=============================================================================
