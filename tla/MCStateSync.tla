---------------------------- MODULE MCStateSync ----------------------------
EXTENDS StateSyncInv, TLC

CONSTANTS obs, camera, scene, preset, set

\* Two topics of one leaf each: a change touches either or both.
TopicMap == (scene :> obs) @@ (preset :> camera)

CameraOnly == {{camera}}
=============================================================================
