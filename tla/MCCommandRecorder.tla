------------------------ MODULE MCCommandRecorder ------------------------
(* Three systems: the first has two recorders, the second none, the third   *)
(* one recorder and the world.  A frontier follows the second and the third.*)
EXTENDS CommandRecorder

CONSTANTS first, second

MCHandles == {first, second}
MCParams == <<{first, second}, {}, {first}>>
=============================================================================
