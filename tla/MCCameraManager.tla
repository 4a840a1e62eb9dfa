--------------------------- MODULE MCCameraManager ---------------------------
(* Instances of CameraManager for TLC. *)
EXTENDS CameraManager, TLC

CONSTANTS door, yard, s1, s2, s3, v1, v2

\* Every viewer watches the same camera.
AtTheDoor == [v \in Viewers |-> door]
OneOrBoth == {{door}, {door, yard}}
YardOrBoth == {{yard}, {door, yard}}
TheDoor == {{door}}
SameSources == Permutations(Sources)
=============================================================================
