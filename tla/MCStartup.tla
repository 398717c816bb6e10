------------------------------- MODULE MCStartup -------------------------------
(* A machine of four GPUs in every split, in groups of one or two.  A local  *)
(* cluster has CPUs for some plans (they ask for 10 to 16) and, where actors *)
(* ask for memory, room for some (11 to 20 actors, of a unit each): either   *)
(* one, both or none of the two are missing.                                 *)
EXTENDS Startup

MCSizes == {0, 1, 2, 3, 4}
MCLocalCpus == {13}
MCActorMemory == {0, 1}
=============================================================================
