------------------------------- MODULE Health -------------------------------
(***************************************************************************)
(* The health checker and its alerts (crabster-health).  A check goes      *)
(* through a snapshot of the sources, whose tasks and listeners go on      *)
(* meanwhile; it runs every 10 s in a task of its own and in every health  *)
(* request of the REST API, and both keep their counts in one place.  A    *)
(* source is known by what the checks tell apart: connected, and past 1 MB *)
(* of data; whether its bitrate is low is left open, and whether more than *)
(* 10 minutes have passed since a check last met metadata on the mount.    *)
(***************************************************************************)
EXTENDS Integers, Sequences, MountPoints

CONSTANTS Monitored,   \* bound: the mounts that sources and listeners come to
          MaxCount,    \* bound: listeners of a mount
          MaxAlerts    \* AlertEngine.max_alerts (1000)

ASSUME HealthAssumption ==
  Monitored \subseteq Mounts /\ MaxCount \in Nat /\ MaxAlerts \in Nat \ {0, 1}

Checkers == {"worker", "request"}

VARIABLES
  feed,      \* the source of each mount
  count,     \* current_listeners of each mount
  prev,      \* prev_listener_counts; Never for a mount without one
  holds,     \* the sources that each check has yet to look at
  alerts,    \* the queue of alerts
  lastLook,  \* history: the count that the worker met last
  polled     \* history: the mounts that a request looked at since

healthVars == <<feed, count, prev, holds, alerts, lastLook, polled>>

Never == -1

Source == [state : {"none", "up", "ended"}, big : BOOLEAN]
NoSource == [state |-> "none", big |-> FALSE]

\* The triggers of an alert; all but one are alike here.
Triggers == {"ListenerDropSpike", "Other"}

HealthTypeOK ==
  /\ feed \in [Mounts -> Source] /\ count \in [Mounts -> 0 .. MaxCount]
  /\ prev \in [Mounts -> Never .. MaxCount]
  /\ lastLook \in [Mounts -> Never .. MaxCount]
  /\ holds \in [Checkers -> [Mounts -> Source]]
  /\ alerts \in Seq([mount : Mounts, trigger : Triggers, acknowledged : BOOLEAN])
  /\ Len(alerts) <= MaxAlerts
  /\ polled \in SUBSET Mounts

HealthInit ==
  /\ feed = [m \in Mounts |-> NoSource]
  /\ count = [m \in Mounts |-> 0]
  /\ prev = [m \in Mounts |-> Never]
  /\ holds = [k \in Checkers |-> [m \in Mounts |-> NoSource]]
  /\ alerts = <<>>
  /\ lastLook = [m \in Mounts |-> Never]
  /\ polled = {}

-----------------------------------------------------------------------------
\* A source connects, delivers its first MB, ends and unregisters.  What a
\* check holds of it ends with it.
SourceUp(m) ==
  /\ m \in Monitored /\ feed[m].state = "none"
  /\ feed' = [feed EXCEPT ![m].state = "up"]
  /\ UNCHANGED <<count, prev, holds, alerts, lastLook, polled>>

SourceGrows(m) ==
  /\ feed[m].state = "up" /\ ~feed[m].big
  /\ feed' = [feed EXCEPT ![m].big = TRUE]
  /\ holds' = [k \in Checkers |-> IF holds[k][m].state = "up"
                                  THEN [holds[k] EXCEPT ![m].big = TRUE] ELSE holds[k]]
  /\ UNCHANGED <<count, prev, alerts, lastLook, polled>>

SourceEnds(m) ==
  /\ feed[m].state = "up"
  /\ feed' = [feed EXCEPT ![m].state = "ended"]
  /\ holds' = [k \in Checkers |-> IF holds[k][m].state = "up"
                                  THEN [holds[k] EXCEPT ![m].state = "ended"] ELSE holds[k]]
  /\ UNCHANGED <<count, prev, alerts, lastLook, polled>>

SourceLeaves(m) ==
  /\ feed[m].state = "ended"
  /\ feed' = [feed EXCEPT ![m] = NoSource]
  /\ UNCHANGED <<count, prev, holds, alerts, lastLook, polled>>

\* Listeners come and go.
CountChanges(m) ==
  /\ m \in Monitored
  /\ \E n \in 0 .. MaxCount : n # count[m] /\ count' = [count EXCEPT ![m] = n]
  /\ UNCHANGED <<feed, prev, holds, alerts, lastLook, polled>>

-----------------------------------------------------------------------------
\* A check takes the sources that are registered.
StartCheck(k) ==
  /\ \A m \in Mounts : holds[k][m] = NoSource
  /\ \E m \in Mounts : feed[m] # NoSource
  /\ holds' = [holds EXCEPT ![k] = feed]
  /\ UNCHANGED <<feed, count, prev, alerts, lastLook, polled>>

\* More than half of the listeners have left since the last check.
Spike(before, now) == before > 0 /\ 2 * now < before

\* What a check raises about a source, in the order of its tests:
\* SourceDisconnected or BitrateDropped, MetadataStale, ListenerDropSpike and
\* QueueBacklog.
Raised(s, low, old, before, now) ==
  (IF s.state = "ended" \/ low THEN <<"Other">> ELSE <<>>)
  \o (IF old THEN <<"Other">> ELSE <<>>)
  \o (IF Spike(before, now) THEN <<"ListenerDropSpike">> ELSE <<>>)
  \o (IF s.big THEN <<"Other">> ELSE <<>>)

\* Mutant: the queue refuses what does not fit.
PushedIfRoom(queue, new) ==
  LET all == queue \o new
  IN  IF Len(all) > MaxAlerts THEN SubSeq(all, 1, MaxAlerts) ELSE all

\* raise, for one alert after the other: a full queue loses its oldest one.
Pushed(queue, new) ==
  LET all == queue \o new
      excess == Len(all) - MaxAlerts
  IN  IF excess > 0 THEN SubSeq(all, excess + 1, Len(all)) ELSE all

\* The check looks at one source, against the count of the last check, its own
\* or another's.
CheckOne(k, m, low, old) ==
  LET s == holds[k][m]
      raised == Raised(s, low, old, prev[m], count[m])
  IN  /\ s # NoSource
      /\ holds' = [holds EXCEPT ![k][m] = NoSource]
      /\ prev' = [prev EXCEPT ![m] = count[m]]
      /\ alerts' = Pushed(alerts, [i \in DOMAIN raised |->
                     [mount |-> m, trigger |-> raised[i], acknowledged |-> FALSE]])
      /\ IF k = "worker"
         THEN /\ lastLook' = [lastLook EXCEPT ![m] = count[m]]
              /\ polled' = polled \ {m}
         ELSE polled' = polled \cup {m} /\ UNCHANGED lastLook
      /\ UNCHANGED <<feed, count>>

\* A request acknowledges an alert that is still there.
Acknowledge(i) ==
  /\ i \in DOMAIN alerts
  /\ alerts' = [alerts EXCEPT ![i].acknowledged = TRUE]
  /\ UNCHANGED <<feed, count, prev, holds, lastLook, polled>>

HealthNext ==
  \/ \E m \in Mounts :
       \/ SourceUp(m) \/ SourceGrows(m) \/ SourceEnds(m) \/ SourceLeaves(m)
       \/ CountChanges(m)
       \/ \E k \in Checkers : \E low, old \in BOOLEAN : CheckOne(k, m, low, old)
  \/ \E k \in Checkers : StartCheck(k)
  \/ \E i \in 1 .. MaxAlerts : Acknowledge(i)

HealthSpec == HealthInit /\ [][HealthNext]_healthVars
-----------------------------------------------------------------------------
\* The worker is about to look, or has just looked, at mount m.
Looks(m) == holds["worker"][m] # NoSource /\ holds'["worker"][m] = NoSource

\* "Connection Drops: Listener disconnect rate spike" (docs/plan.md:472): a
\* mount that lost more than half of its listeners between two looks of the
\* worker has an alert after the second, whatever its source and a full queue,
\* unless a health request has looked in between and kept the drop to itself.
SpikeReported ==
  [][\A m \in Mounts :
       Looks(m) /\ m \notin polled /\ Spike(lastLook[m], count[m]) =>
         \E i \in DOMAIN alerts' : /\ alerts'[i].mount = m
                                   /\ alerts'[i].trigger = "ListenerDropSpike"
                                   /\ i >= Len(alerts') - 1]_healthVars
=============================================================================
