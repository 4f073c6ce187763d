----------------------------- MODULE RideStatus -----------------------------
(***************************************************************************)
(* The six states of a ride (the ENUM of ride_statuses in 1-schema.sql)    *)
(* and the order in which docs/ISURIDE.md lets a ride pass through them.   *)
(***************************************************************************)
EXTENDS Integers, Sequences

Flow == <<"MATCHING", "ENROUTE", "PICKUP", "CARRYING", "ARRIVED", "COMPLETED">>

\* models.RideStatus.Status: the ENUM column.
Status == {"MATCHING", "ENROUTE", "PICKUP", "CARRYING", "ARRIVED", "COMPLETED"}

\* internalGetMatching frees a chair when exactly this many rows of a ride
\* have been sent to it: one per state.
FullLog == 6
=============================================================================
