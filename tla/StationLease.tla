----------------------------- MODULE StationLease -----------------------------
(***************************************************************************)
(* What the server promises about a station's lease, without its table,    *)
(* its transactions or its clock: at most one device holds a station, and  *)
(* a request is granted the lease only if at some moment since it began    *)
(* the station was free or already its device's, or an administrator       *)
(* forced it.  It does not promise that the station is still free when the *)
(* grant is made.                                                          *)
(***************************************************************************)
CONSTANTS Client, Station, Thread, None

VARIABLES
    holders,  \* the devices holding each station
    claim     \* what each thread has been cleared to take

vars == <<holders, claim>>

Claim == [client: Client, station: Station, forced: BOOLEAN]

TypeOK ==
    /\ holders \in [Station -> SUBSET Client]
    /\ claim \in [Thread -> Claim \cup {None}]

Init ==
    /\ holders = [s \in Station |-> {}]
    /\ claim = [t \in Thread |-> None]

\* Any set of stations may be given up or expire.
Lapse ==
    /\ DOMAIN holders' = Station
    /\ \A s \in Station : holders'[s] \in {holders[s], {}}

Clear(t, k) ==
    /\ claim[t] = None
    /\ claim' = [claim EXCEPT ![t] = k]
    /\ Lapse
    /\ k.forced \/ holders'[k.station] \subseteq {k.client}

Grant(t) ==
    /\ claim[t] # None
    /\ claim' = [claim EXCEPT ![t] = None]
    /\ holders' = [holders EXCEPT ![claim[t].station] = {claim[t].client}]

Abandon(t) ==
    /\ claim[t] # None
    /\ claim' = [claim EXCEPT ![t] = None]
    /\ UNCHANGED holders

Free == UNCHANGED claim /\ Lapse

Next ==
    \/ Free
    \/ \E t \in Thread : Grant(t) \/ Abandon(t)
    \/ \E t \in Thread, k \in Claim : Clear(t, k)

Spec == Init /\ [][Next]_vars
=============================================================================
