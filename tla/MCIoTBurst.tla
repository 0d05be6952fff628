----------------------------- MODULE MCIoTBurst -----------------------------
(***************************************************************************)
(* Three data sets: two mapped by IP address that have a device in common, *)
(* and one mapped by MAC address between them.                             *)
(***************************************************************************)
EXTENDS IoTBurst

MCDatasetInfo ==
    [UNSW2016 |-> [folder |-> "F:/UNSW2016", mapping |-> "IP", devices |-> <<"ip1", "ip2">>],
     UNSW2018 |-> [folder |-> "F:/UNSW2018", mapping |-> "MAC", devices |-> <<"mac1">>],
     NCSU2020 |-> [folder |-> "F:/NCSU2020", mapping |-> "IP", devices |-> <<"ip3", "ip1">>]]

MCDatasetNames == <<"UNSW2016", "UNSW2018", "NCSU2020">>

MCArgArrays == << <<20, 50>>, <<300, 900>> >>
=============================================================================
