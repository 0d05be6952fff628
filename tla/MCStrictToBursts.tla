--------------------------- MODULE MCStrictToBursts ---------------------------
(* StrictToBursts on short vectors of packets stamped in half seconds.      *)
EXTENDS StrictToBursts

CONSTANTS MaxSec        \* the last second a packet may be stamped with

HalfSeconds == {0, 1}   \* tv_nsec: the first or the second half of a second

MCPackets == [signedLen : Sig, hash5tuple : {0},
              timestamp : [tv_sec : 1 .. MaxSec, tv_nsec : HalfSeconds]]
=============================================================================
