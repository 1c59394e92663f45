----------------------------- MODULE MCMappings -----------------------------
(* The two owners of mappings, in one instance: each behaviour follows the  *)
(* files or the regions, so that their states are not multiplied.           *)
EXTENDS MappedFile, ReservedRegion

VARIABLE following

MCInit ==
    /\ following \in {"files", "regions"}
    /\ Init /\ RegionInit

MCNext ==
    \/ following = "files" /\ Next /\ UNCHANGED <<regionVars, following>>
    \/ following = "regions" /\ RegionNext /\ UNCHANGED <<vars, following>>

MCSpec == MCInit /\ [][MCNext]_<<vars, regionVars, following>>

=============================================================================
