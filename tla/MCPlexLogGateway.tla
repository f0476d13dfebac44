--------------------------- MODULE MCPlexLogGateway ---------------------------
(* PlexLog reads a limit alone and within a block, and writes it: three     *)
(* times in a behaviour, or twice if a transaction fails.                   *)
EXTENDS PlexLogGateway

ReadsAndWrite == {Limit(2), Block(2), WriteLimit(2, "low")}
(* All inverters start at the limit that PlexLog writes.                    *)
AllLow == {[s \in Slaves |-> "low"]}

MaxRequestsAndFaults == 3

SafetySpec ==
    Init /\ [][Next /\ requests' + faults' <= MaxRequestsAndFaults]_vars
===============================================================================
