--------------------------- MODULE MCApicFabric ---------------------------
(* ApicFabric with two vectors of one priority class and one of a higher    *)
(* one, the HPET on a level pin, and a device on a pin the guest may give   *)
(* a vector of its own, the HPET's, or an unsupported delivery mode.        *)
EXTENDS ApicFabric

MC_LvtStores == {[vector |-> 33, masked |-> FALSE, periodic |-> TRUE]}
MC_IcrStores == {[vector |-> 48, fixed |-> TRUE, shorthand |-> "self"],
                 [vector |-> 32, fixed |-> TRUE, shorthand |-> "none"]}
MC_RteStores ==
  {[gsi |-> 3, vector |-> 32, fixed |-> TRUE, masked |-> FALSE,
    level |-> TRUE],
   [gsi |-> 2, vector |-> 32, fixed |-> TRUE, masked |-> FALSE,
    level |-> TRUE],
   [gsi |-> 3, vector |-> 48, fixed |-> TRUE, masked |-> FALSE,
    level |-> FALSE],
   [gsi |-> 3, vector |-> 48, fixed |-> FALSE, masked |-> FALSE,
    level |-> TRUE]}
MC_DestStores == [gsi : {2}, dest : {0, 1}]
=============================================================================
