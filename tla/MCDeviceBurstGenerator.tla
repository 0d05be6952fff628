----------------------- MODULE MCDeviceBurstGenerator -----------------------
(* DeviceBurstGenerator on short vectors stamped in whole seconds.          *)
EXTENDS DeviceBurstGenerator

CONSTANTS
    Flows,      \* the hash5tuple values
    Seconds     \* the tv_sec values

MCPackets == [signedLen : Sig, hash5tuple : Flows,
              timestamp : [tv_sec : Seconds, tv_nsec : {0}]]
=============================================================================
