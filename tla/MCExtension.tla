---------------------------- MODULE MCExtension ----------------------------
(* The library and its registration.  They share no state: it is enough    *)
(* that the library is used after a registration that has returned, and    *)
(* that regsvr32 runs while no process has it.                             *)
EXTENDS Extension

CONSTANT MaxFailures
VARIABLES registry, regsvr32

Registry == INSTANCE Registration

RegistrationIsWhole == Registry!RegistrationIsWhole

Registered == registry = Registry!Complete /\ Registry!Returned /\ regsvr32.failures = 0

MCInit == Init /\ Registry!Init
MCNext ==
  \/ Registered /\ Next /\ UNCHANGED <<registry, regsvr32>>
  \/ Init /\ Registry!Next /\ UNCHANGED vars
MCSpec == MCInit /\ [][MCNext]_<<vars, registry, regsvr32>>
=============================================================================
