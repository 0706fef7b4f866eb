-------------------------- MODULE MCPPOCheckpoint --------------------------
EXTENDS PPOCheckpoint

\* actor and critic with different retention
KeepTwoAll  == <<2, 0>>
KeepTwo     == <<2>>
KeepOne     == <<1>>

AllPoints   == Running
\* every location except between truncating and writing the tracker
NotInTracker == Running \ {"tracker_write"}
=============================================================================
