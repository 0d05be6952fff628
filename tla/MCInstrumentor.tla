---------------------------- MODULE MCInstrumentor ----------------------------
(***************************************************************************)
(* Raw packets are read with two tasks, then prediction has one, then a    *)
(* data set is loaded without any.                                         *)
(***************************************************************************)
EXTENDS Instrumentor, TLC

MCTimers == {"store1", "store2", "Reading Raw Packets", "lamp", "Predict",
             "Load from burstDataset"}

MCSessions == <<
    [tasks |-> {"store1", "store2"}, scopes |-> {"Reading Raw Packets"}],
    [tasks |-> {"lamp"}, scopes |-> {"Predict"}],
    [tasks |-> {}, scopes |-> {"Load from burstDataset"}] >>

Symmetry == Permutations(Threads)
=============================================================================
