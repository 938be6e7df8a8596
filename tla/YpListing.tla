----------------------------- MODULE YpListing -----------------------------
(***************************************************************************)
(* What the YP worker promises of a mount's listing in the directory: only *)
(* a mount that had a public source at the last poll comes to be listed,   *)
(* and it is listed once.                                                  *)
(***************************************************************************)
CONSTANTS Mounts, Sids

VARIABLES public,    \* the mounts with a public source
          eligible,  \* those of the last poll
          listed     \* the listings of each mount in the directory

vars == <<public, eligible, listed>>

Init == public = {} /\ eligible = {} /\ listed = [m \in Mounts |-> {}]

\* Sources come and go.
Change == public' \in SUBSET Mounts /\ UNCHANGED <<eligible, listed>>

Poll == eligible' = public /\ UNCHANGED <<public, listed>>

\* The server starts anew, without sources.
Restart ==
  public' = {} /\ eligible' = {} /\ listed' = [m \in Mounts |-> {}]

List(m) ==
  /\ m \in eligible /\ listed[m] = {}
  /\ \E s \in Sids : listed' = [listed EXCEPT ![m] = {s}]
  /\ UNCHANGED <<public, eligible>>

Delist(m) ==
  /\ listed[m] # {}
  /\ listed' = [listed EXCEPT ![m] = {}]
  /\ UNCHANGED <<public, eligible>>

Next == Change \/ Poll \/ Restart \/ \E m \in Mounts : List(m) \/ Delist(m)

Spec == Init /\ [][Next]_vars
=============================================================================
