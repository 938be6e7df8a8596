------------------------------ MODULE YpProofs ------------------------------
(***************************************************************************)
(* What holds of the YP worker for any mounts and sids.  The worker keeps  *)
(* sight of one sid per mount at most, in its entry, in the list of what   *)
(* it has to remove or in the request in flight; a listing that is none of *)
(* these is forsaken.  So a mount that it asks to add has no listing.      *)
(***************************************************************************)
EXTENDS Yp, TLAPS

USE YpAssumption

\* Nothing waits to be removed.
NoneStale == \A m \in Mounts : stale[m] = NoSid

\* The sid of a mount that the worker has in sight.
Held(m) ==
  IF call.action \in {"add", "remove"} /\ call.mount = m THEN call.sid
  ELSE IF stale[m] # NoSid THEN stale[m]
  ELSE entries[m].sid

\* It asks for one thing at a time, and visits the mounts of the last poll only.
PollInOrder ==
  /\ call.action = "none" <=> ypPc # "post"
  /\ call.action = "none" => call.state = "sent"
  /\ todo \subseteq eligible
  /\ ypPc \in {"sleep", "drop"} => todo = {}
  /\ ypPc \in {"sleep", "drop", "visit"} => NoneStale
  /\ \A m \in Mounts : stale[m] # NoSid => entries[m].sid = NoSid

LostFromSight(s) == listing[s] = Unlisted \/ s \in forsaken

\* The request in flight agrees with the entry of its mount, and its answer
\* with the directory.
AddFits ==
  call.action = "add" =>
    /\ NoneStale /\ call.mount \in eligible /\ entries[call.mount].sid = NoSid
    /\ call.state # "ok" => call.sid = NoSid

TouchFits ==
  call.action = "touch" =>
    /\ NoneStale /\ call.sid = entries[call.mount].sid /\ call.sid # NoSid
    /\ call.state = "refused" => LostFromSight(call.sid)

RemoveFits ==
  call.action = "remove" =>
    /\ stale[call.mount] = NoSid /\ entries[call.mount].sid = NoSid
    /\ call.sid # NoSid
    /\ call.state # "sent" => LostFromSight(call.sid)

\* What is listed for a mount is in sight, and what is in sight is listed for
\* no other mount.
InSight ==
  \A m \in Mounts :
    /\ Answered(m) \subseteq {Held(m)}
    /\ Held(m) # NoSid => listing[Held(m)] \in {m, Unlisted}

WorkerInv ==
  YpTypeOK /\ PollInOrder /\ AddFits /\ TouchFits /\ RemoveFits /\ InSight

-----------------------------------------------------------------------------
LEMMA EntriesAfterType ==
  ASSUME YpTypeOK, NEW ok \in BOOLEAN
  PROVE  EntriesAfter(ok) \in [Mounts -> Entry]
<1> USE DEF YpTypeOK
<1> DEFINE m == call.mount
           sid == IF ok THEN call.sid ELSE NoSid
           kept == IF ok THEN entries[m].sid ELSE NoSid
<1>1. m \in Mounts /\ call.sid \in Sids \cup {NoSid} /\ entries[m] \in Entry
  OBVIOUS
<1>2. sid \in Sids \cup {NoSid} /\ kept \in Sids \cup {NoSid}
  BY <1>1 DEF Entry
<1>3. EntryOf(sid) \in Entry
  BY <1>2 DEF EntryOf, Entry
<1>4. [entries[m] EXCEPT !.due = FALSE, !.sid = kept] \in Entry
  BY <1>1, <1>2 DEF Entry
<1>5. [entries EXCEPT ![m] = EntryOf(sid)] \in [Mounts -> Entry]
  BY <1>3
<1>6. [entries EXCEPT ![m].due = FALSE, ![m].sid = kept] \in [Mounts -> Entry]
  BY <1>1, <1>4
<1> QED
  BY <1>5, <1>6 DEF EntriesAfter

LEMMA DueEntry ==
  ASSUME NEW e \in Entry PROVE [e EXCEPT !.due = TRUE] \in Entry
BY DEF Entry

LEMMA TypeStep == YpTypeOK /\ [YpNext]_ypVars => YpTypeOK'
<1> SUFFICES ASSUME YpTypeOK, [YpNext]_ypVars PROVE YpTypeOK'
  OBVIOUS
<1> USE DEF YpTypeOK, Entry, NoEntry, EntryOf, NoCall, Call
<1>1. CASE Poll
  BY <1>1 DEF Poll
<1>2. CASE DropStale
  BY <1>2 DEF DropStale
<1>3. CASE AllRemoved
  BY <1>3 DEF AllRemoved
<1>4. CASE PollEnds
  BY <1>4 DEF PollEnds
<1>5. CASE Answer
  <2>1. entries' \in [Mounts -> Entry]
    BY <1>5, EntriesAfterType DEF Answer
  <2> QED
    BY <1>5, <2>1 DEF Answer, GoesOn
<1>6. CASE Fail
  <2>1. entries' \in [Mounts -> Entry]
    BY <1>6, EntriesAfterType DEF Fail
  <2>2. forsaken' \in SUBSET {s \in Sids : listing'[s] # Unlisted}
    BY <1>6 DEF Fail, Forsaking
  <2> QED
    BY <1>6, <2>1, <2>2 DEF Fail, GoesOn
<1>7. ASSUME NEW m \in Mounts, RemoveNext(m) PROVE YpTypeOK'
  BY <1>7 DEF RemoveNext
<1>8. ASSUME NEW m \in Mounts, Visit(m) PROVE YpTypeOK'
  BY <1>8 DEF Visit
<1>9. CASE Serve
  <2>1. call' \in [action : {"none", "add", "touch", "remove"}, mount : Mounts,
                   sid : Sids \cup {NoSid}, state : {"sent", "ok", "refused"}]
    BY <1>9 DEF Serve, Unused
  <2>2. listing' \in [Sids -> Mounts \cup {Unlisted}]
    BY <1>9 DEF Serve
  <2>3. forsaken' \in SUBSET {s \in Sids : listing'[s] # Unlisted}
    <3>1. CASE call.action = "add"
      <4>1. PICK s \in Unused : /\ listing' = [listing EXCEPT ![s] = call.mount]
                               /\ forsaken' \in {forsaken, forsaken \cup {s}}
        BY <1>9, <3>1 DEF Serve
      <4>2. s \in Sids /\ call.mount \in Mounts
        BY <4>1 DEF Unused
      <4> QED
        BY <4>1, <4>2, YpAssumption
    <3>2. CASE call.action # "add"
      BY <1>9, <3>2 DEF Serve
    <3> QED
      BY <3>1, <3>2
  <2> QED
    BY <1>9, <2>1, <2>2, <2>3 DEF Serve, workerVars
<1>10. CASE Refuse
  BY <1>10 DEF Refuse, Forsaking, workerVars
<1>11. CASE Restart
  BY <1>11 DEF Restart
<1>12. ASSUME NEW s \in Sids, Forget(s) PROVE YpTypeOK'
  BY <1>12 DEF Forget, workerVars
<1>13. ASSUME NEW m \in Mounts, SourceComesOrGoes(m) PROVE YpTypeOK'
  BY <1>13 DEF SourceComesOrGoes, workerVars
<1>14. ASSUME NEW m \in Mounts, ComesDue(m) PROVE YpTypeOK'
  <2>1. entries[m] \in Entry /\ [entries[m] EXCEPT !.due = TRUE] \in Entry
    BY DueEntry
  <2>2. entries' = [entries EXCEPT ![m] = [entries[m] EXCEPT !.due = TRUE]]
    BY <1>14 DEF ComesDue
  <2>3. entries' \in [Mounts -> Entry]
    BY <2>1, <2>2
  <2> QED
    BY <1>14, <2>3 DEF ComesDue
<1>15. CASE UNCHANGED ypVars
  BY <1>15 DEF ypVars, workerVars
<1> QED
  BY <1>1, <1>2, <1>3, <1>4, <1>5, <1>6, <1>7, <1>8, <1>9, <1>10, <1>11, <1>12,
     <1>13, <1>14, <1>15 DEF YpNext, Work

LEMMA WorkerInit == YpInit => WorkerInv
<1> SUFFICES ASSUME YpInit PROVE WorkerInv
  OBVIOUS
<1> USE DEF YpInit
<1>1. YpTypeOK
  BY DEF YpTypeOK, Entry, NoEntry, NoCall
<1>2. PollInOrder /\ AddFits /\ TouchFits /\ RemoveFits
  BY DEF PollInOrder, NoneStale, NoEntry, NoCall, AddFits, TouchFits, RemoveFits
<1>3. InSight
  BY DEF InSight, Held, Answered, NoEntry, NoCall
<1> QED
  BY <1>1, <1>2, <1>3 DEF WorkerInv

-----------------------------------------------------------------------------
(* WorkerInv is kept by every step *)

\* The types of what a step of the worker reads.
LEMMA Sights ==
  ASSUME WorkerInv
  PROVE  /\ call.mount \in Mounts
         /\ call.sid \in Sids \cup {NoSid}
         /\ \A m \in Mounts : /\ entries[m].sid \in Sids \cup {NoSid}
                              /\ stale[m] \in Sids \cup {NoSid}
                              /\ Held(m) \in Sids \cup {NoSid}
BY DEF WorkerInv, YpTypeOK, Entry, Held

\* A step that leaves the directory, the sids of the entries and the request
\* alone.
LEMMA QuietStep ==
  ASSUME WorkerInv, PollInOrder', YpTypeOK',
         UNCHANGED <<stale, call, listing, forsaken>>,
         eligible \subseteq eligible' \/ call.action # "add",
         \A m \in Mounts : entries'[m].sid = entries[m].sid
  PROVE  WorkerInv'
<1> USE DEF WorkerInv
<1>1. \A m \in Mounts : Held(m)' = Held(m) /\ Answered(m)' = Answered(m)
  BY DEF Held, Answered
<1>2. InSight'
  BY <1>1 DEF InSight
<1>3. call.mount \in Mounts
  BY Sights
<1>4. AddFits' /\ TouchFits' /\ RemoveFits'
  BY <1>3 DEF AddFits, TouchFits, RemoveFits, NoneStale, YpTypeOK, LostFromSight
<1> QED
  BY <1>2, <1>4

LEMMA DropStep == WorkerInv /\ YpTypeOK' /\ DropStale => WorkerInv'
<1> SUFFICES ASSUME WorkerInv, YpTypeOK', DropStale PROVE WorkerInv'
  OBVIOUS
<1> USE DEF WorkerInv, DropStale
<1>1. \A m \in Mounts :
        /\ stale'[m] = IF m \in eligible THEN NoSid ELSE entries[m].sid
        /\ entries'[m].sid = IF m \in eligible THEN entries[m].sid ELSE NoSid
  BY DEF YpTypeOK, NoEntry
<1>2. call.action = "none" /\ NoneStale
  BY DEF PollInOrder
<1>3. \A m \in Mounts : Held(m)' = Held(m) /\ Answered(m)' = Answered(m)
  BY <1>1, <1>2 DEF Held, Answered, NoneStale
<1>4. InSight'
  BY <1>3 DEF InSight
<1>5. PollInOrder'
  BY <1>1, <1>2 DEF PollInOrder
<1> QED
  BY <1>2, <1>4, <1>5 DEF AddFits, TouchFits, RemoveFits

LEMMA RemoveNextStep ==
  ASSUME WorkerInv, YpTypeOK', NEW m \in Mounts, RemoveNext(m)
  PROVE  WorkerInv'
<1> USE DEF WorkerInv, RemoveNext, Call
<1>1. /\ call.action = "none" /\ entries[m].sid = NoSid
      /\ stale[m] \in Sids \cup {NoSid}
  BY Sights DEF PollInOrder
<1>2. \A n \in Mounts : stale'[n] = IF n = m THEN NoSid ELSE stale[n]
  BY DEF YpTypeOK
<1>3. \A n \in Mounts : Held(n)' = Held(n) /\ Answered(n)' = Answered(n)
  BY <1>1, <1>2 DEF Held, Answered
<1>4. InSight'
  BY <1>3 DEF InSight
<1>5. PollInOrder'
  BY <1>2 DEF PollInOrder
<1>6. AddFits' /\ TouchFits' /\ RemoveFits'
  BY <1>1, <1>2 DEF AddFits, TouchFits, RemoveFits
<1> QED
  BY <1>4, <1>5, <1>6

LEMMA VisitStep ==
  ASSUME WorkerInv, YpTypeOK', NEW m \in Mounts, Visit(m)
  PROVE  WorkerInv'
<1> USE DEF WorkerInv
<1>1. /\ call.action = "none" /\ NoneStale /\ m \in eligible
      /\ ypPc = "visit" /\ todo' \subseteq eligible
      /\ UNCHANGED <<public, entries, eligible, stale, listing, forsaken>>
  BY DEF PollInOrder, Visit
<1>2. CASE UNCHANGED <<ypPc, call>>
  <2>1. PollInOrder'
    BY <1>1, <1>2 DEF PollInOrder, NoneStale
  <2> QED
    BY <1>1, <1>2, <2>1, QuietStep
<1>3. CASE /\ ypPc' = "post"
           /\ call' = IF entries[m].sid = NoSid THEN Call("add", m, NoSid)
                      ELSE Call("touch", m, entries[m].sid)
  <2>1. PollInOrder'
    BY <1>1, <1>3 DEF PollInOrder, Call, NoneStale
  <2>2. \A n \in Mounts : Held(n)' = Held(n) /\ Answered(n)' = Answered(n)
    BY <1>1, <1>3 DEF Held, Answered, Call, NoneStale
  <2>3. InSight'
    BY <1>1, <2>2 DEF InSight
  <2>4. AddFits' /\ TouchFits' /\ RemoveFits'
    BY <1>1, <1>3 DEF AddFits, TouchFits, RemoveFits, Call, NoneStale
  <2> QED
    BY <2>1, <2>3, <2>4
<1> QED
  BY <1>2, <1>3 DEF Visit

LEMMA ServeStep == WorkerInv /\ YpTypeOK' /\ Serve => WorkerInv'
<1> SUFFICES ASSUME WorkerInv, YpTypeOK', Serve PROVE WorkerInv'
  OBVIOUS
<1> USE DEF WorkerInv
<1> USE DEF LostFromSight
<1>1. /\ UNCHANGED workerVars /\ call.state = "sent" /\ call.action # "none"
      /\ call'.action = call.action /\ call'.mount = call.mount
      /\ PollInOrder'
  BY DEF Serve, YpTypeOK, PollInOrder, NoneStale, workerVars
<1>2. ASSUME call.action = "add", NEW s \in Unused, UNCHANGED forsaken,
             listing' = [listing EXCEPT ![s] = call.mount],
             call' = [call EXCEPT !.state = "ok", !.sid = s]
      PROVE  WorkerInv'
  <2>1. /\ s \in Sids /\ listing[s] = Unlisted /\ s \notin forsaken
        /\ \A n \in Mounts : s # entries[n].sid /\ s # stale[n]
        /\ call.mount \in Mounts /\ call.sid = NoSid
    BY <1>1, <1>2, Sights DEF Unused, YpTypeOK, AddFits
  <2>2. /\ call'.sid = s /\ call'.state = "ok"
        /\ \A r \in Sids : listing'[r] = IF r = s THEN call.mount ELSE listing[r]
    BY <1>2, <2>1 DEF YpTypeOK
  <2>3. \A n \in Mounts : Held(n)' = IF n = call.mount THEN s ELSE Held(n)
    BY <1>1, <1>2, <2>2 DEF Held, workerVars
  <2>4. /\ Answered(call.mount) = {}
        /\ \A n \in Mounts \ {call.mount} : s # Held(n)
    BY <1>2, <2>1, YpAssumption DEF InSight, Held, Answered
  <2>5. \A n \in Mounts : Answered(n)' = IF n = call.mount THEN {s} ELSE Answered(n)
    BY <1>2, <2>1, <2>2, <2>4 DEF Answered
  <2>6. ASSUME NEW n \in Mounts
        PROVE  /\ Answered(n)' \subseteq {Held(n)'}
               /\ Held(n)' # NoSid => listing'[Held(n)'] \in {n, Unlisted}
    BY <2>1, <2>2, <2>3, <2>4, <2>5, Sights DEF InSight
  <2>7. InSight'
    BY <2>6 DEF InSight
  <2>8. AddFits' /\ TouchFits' /\ RemoveFits'
    BY <1>1, <1>2, <2>2 DEF AddFits, TouchFits, RemoveFits, NoneStale, workerVars
  <2> QED
    BY <1>1, <2>7, <2>8
<1>3. CASE /\ call.action = "touch"
           /\ call' = [call EXCEPT !.state = IF listing[call.sid] = Unlisted
                                             THEN "refused" ELSE "ok"]
           /\ UNCHANGED <<listing, forsaken>>
  <2>1. call'.sid = call.sid
    BY <1>3 DEF YpTypeOK
  <2>2. \A n \in Mounts : Held(n)' = Held(n) /\ Answered(n)' = Answered(n)
    BY <1>1, <1>3, <2>1 DEF Held, Answered, workerVars
  <2>3. InSight'
    BY <1>3, <2>2 DEF InSight
  <2>4. AddFits' /\ TouchFits' /\ RemoveFits'
    BY <1>1, <1>3, <2>1 DEF AddFits, TouchFits, RemoveFits, NoneStale, workerVars,
                            YpTypeOK
  <2> QED
    BY <1>1, <2>3, <2>4
<1>4. CASE /\ call.action = "remove"
           /\ listing' = [listing EXCEPT ![call.sid] = Unlisted]
           /\ forsaken' = forsaken \ {call.sid}
           /\ call' = [call EXCEPT !.state = "ok"]
  <2>1. call'.sid = call.sid /\ call'.state = "ok" /\ call.sid \in Sids
    BY <1>4, Sights DEF YpTypeOK, RemoveFits
  <2>2. \A r \in Sids : listing'[r] = IF r = call.sid THEN Unlisted ELSE listing[r]
    BY <1>4, <2>1 DEF YpTypeOK
  <2>3. \A n \in Mounts : Held(n)' = Held(n) /\ Answered(n)' \subseteq Answered(n)
    BY <1>1, <1>4, <2>1, <2>2, YpAssumption DEF Held, Answered, workerVars
  <2>4. InSight'
    BY <2>2, <2>3, Sights DEF InSight
  <2>5. AddFits' /\ TouchFits' /\ RemoveFits'
    BY <1>1, <1>4, <2>1, <2>2 DEF AddFits, TouchFits, RemoveFits, NoneStale, workerVars
  <2> QED
    BY <1>1, <2>4, <2>5
<1>5. ASSUME call.action = "add", NEW s \in Unused, forsaken' = forsaken \cup {s},
             listing' = [listing EXCEPT ![s] = call.mount],
             call' = [call EXCEPT !.state = "ok"]
      PROVE  WorkerInv'
  <2>1. /\ s \in Sids /\ listing[s] = Unlisted /\ s \notin forsaken
        /\ \A n \in Mounts : s # entries[n].sid /\ s # stale[n]
        /\ call.mount \in Mounts /\ call.sid = NoSid /\ s # NoSid
    BY <1>1, <1>5, Sights, YpAssumption DEF Unused, YpTypeOK, AddFits
  <2>2. /\ call'.sid = NoSid /\ call'.state = "ok"
        /\ \A r \in Sids : listing'[r] = IF r = s THEN call.mount ELSE listing[r]
    BY <1>5, <2>1 DEF YpTypeOK
  <2>3. \A n \in Mounts : Held(n)' = Held(n) /\ s # Held(n)
    BY <1>1, <1>5, <2>1, <2>2 DEF Held, workerVars
  <2>4. \A n \in Mounts : Answered(n)' = Answered(n)
    BY <1>5, <2>1, <2>2, YpAssumption DEF Answered
  <2>5. InSight'
    BY <2>2, <2>3, <2>4, Sights DEF InSight
  <2>6. AddFits' /\ TouchFits' /\ RemoveFits'
    BY <1>1, <1>5, <2>2 DEF AddFits, TouchFits, RemoveFits, NoneStale, workerVars
  <2> QED
    BY <1>1, <2>5, <2>6
<1> QED
  BY <1>2, <1>3, <1>4, <1>5 DEF Serve

LEMMA RefuseStep == WorkerInv /\ YpTypeOK' /\ Refuse => WorkerInv'
<1> SUFFICES ASSUME WorkerInv, YpTypeOK', Refuse PROVE WorkerInv'
  OBVIOUS
<1> USE DEF WorkerInv, Refuse, workerVars
<1>1. /\ call'.action = call.action /\ call'.mount = call.mount
      /\ call'.sid = call.sid /\ call'.state = "refused"
  BY DEF YpTypeOK
<1>2. PollInOrder'
  BY <1>1 DEF PollInOrder, NoneStale
<1>3. \A n \in Mounts : Held(n)' = Held(n) /\ Answered(n)' \subseteq Answered(n)
  BY <1>1 DEF Held, Answered, Forsaking
<1>4. InSight'
  BY <1>3 DEF InSight
<1>6. call.sid # NoSid => listing[call.sid] = Unlisted \/ call.sid \in forsaken'
  BY DEF Forsaking
<1>5. AddFits' /\ TouchFits' /\ RemoveFits'
  BY <1>1, <1>6 DEF AddFits, TouchFits, RemoveFits, NoneStale, LostFromSight
<1> QED
  BY <1>2, <1>4, <1>5

LEMMA ForgetStep ==
  ASSUME WorkerInv, YpTypeOK', NEW s \in Sids, Forget(s)
  PROVE  WorkerInv'
<1> USE DEF WorkerInv, Forget, workerVars
<1>1. \A r \in Sids : listing'[r] = IF r = s THEN Unlisted ELSE listing[r]
  BY DEF YpTypeOK
<1>2. PollInOrder'
  BY DEF PollInOrder, NoneStale
<1>3. \A n \in Mounts : Held(n)' = Held(n) /\ Answered(n)' \subseteq Answered(n)
  BY <1>1, YpAssumption DEF Held, Answered
<1>4. InSight'
  BY <1>1, <1>3, Sights DEF InSight
<1>5. AddFits' /\ TouchFits' /\ RemoveFits'
  BY <1>1, Sights DEF AddFits, TouchFits, RemoveFits, NoneStale, LostFromSight
<1> QED
  BY <1>2, <1>4, <1>5

\* The sids of the entries once a request is answered, or has failed.
LEMMA SidsAfter ==
  ASSUME WorkerInv, NEW ok \in BOOLEAN, NEW n \in Mounts
  PROVE  EntriesAfter(ok)[n].sid =
           IF call.mount = n /\ call.action = "add"
           THEN (IF ok THEN call.sid ELSE NoSid)
           ELSE IF call.mount = n /\ call.action = "touch" /\ entries[n].known /\ ~ok
           THEN NoSid
           ELSE entries[n].sid
<1>1. /\ call.mount \in Mounts /\ entries \in [Mounts -> Entry]
      /\ call.action \in {"none", "add", "touch", "remove"}
  BY DEF WorkerInv, YpTypeOK
<1>2. CASE call.action = "add"
  BY <1>1, <1>2 DEF EntriesAfter, EntryOf
<1>3. CASE call.action = "touch"
  BY <1>1, <1>3 DEF EntriesAfter, Entry
<1>4. CASE call.action \in {"none", "remove"}
  BY <1>1, <1>4 DEF EntriesAfter
<1> QED
  BY <1>1, <1>2, <1>3, <1>4

\* The request is over, with the answer or without, and what was listed of its
\* sid and is not in an entry is forsaken or was never there.
LEMMA CallOver ==
  ASSUME WorkerInv, YpTypeOK', NEW ok \in BOOLEAN,
         call.action # "none", entries' = EntriesAfter(ok), call' = NoCall, GoesOn,
         UNCHANGED <<public, eligible, todo, stale, listing>>,
         forsaken \subseteq forsaken',
         call.sid # NoSid /\ listing[call.sid] # Unlisted =>
           \/ call.sid \in forsaken'
           \/ ok /\ call.action \in {"add", "touch"}
  PROVE  WorkerInv'
<1> USE DEF WorkerInv
<1>1. /\ call.mount \in Mounts /\ call.sid \in Sids \cup {NoSid}
      /\ call.action \in {"add", "touch", "remove"}
      /\ call'.action = "none" /\ call'.state = "sent"
  BY Sights DEF YpTypeOK, NoCall
<1>2. \A n \in Mounts : entries'[n].sid =
           IF call.mount = n /\ call.action = "add"
           THEN (IF ok THEN call.sid ELSE NoSid)
           ELSE IF call.mount = n /\ call.action = "touch" /\ entries[n].known /\ ~ok
           THEN NoSid
           ELSE entries[n].sid
  BY SidsAfter
<1>3. PollInOrder'
  BY <1>1, <1>2 DEF PollInOrder, GoesOn, NoneStale, AddFits, TouchFits
<1>4. ASSUME NEW n \in Mounts
      PROVE  \/ Held(n)' = Held(n)
             \/ n = call.mount /\ Held(n)' = NoSid /\ Held(n) = call.sid
  BY <1>1, <1>2 DEF Held, AddFits, TouchFits, RemoveFits, NoneStale
<1>5. ASSUME NEW n \in Mounts
      PROVE  Answered(n)' \subseteq {Held(n)'}
  <2>1. Answered(n)' \subseteq Answered(n) /\ Answered(n) \subseteq {Held(n)}
    BY DEF Answered, InSight
  <2>2. CASE Held(n)' = Held(n)
    BY <2>1, <2>2
  <2>3. CASE /\ n = call.mount /\ Held(n)' = NoSid /\ Held(n) = call.sid
             /\ Held(n) # NoSid
    <3>1. ~(ok /\ call.action \in {"add", "touch"})
      BY <1>1, <1>2, <2>3 DEF Held, AddFits, TouchFits, NoneStale
    <3>2. call.sid \in forsaken' \/ listing[call.sid] = Unlisted
      BY <2>3, <3>1
    <3>3. call.sid \notin Answered(n)'
      BY <3>2, YpAssumption DEF Answered
    <3> QED
      BY <2>1, <2>3, <3>3
  <2> QED
    BY <1>4, <2>2, <2>3
<1>6. InSight'
  BY <1>4, <1>5 DEF InSight
<1> QED
  BY <1>1, <1>3, <1>6 DEF AddFits, TouchFits, RemoveFits

LEMMA AnswerStep == WorkerInv /\ YpTypeOK' /\ Answer => WorkerInv'
<1> SUFFICES ASSUME WorkerInv, YpTypeOK', Answer PROVE WorkerInv'
  OBVIOUS
<1>1. call.action # "none"
  BY DEF WorkerInv, PollInOrder, Answer
<1>2. call.sid # NoSid /\ listing[call.sid] # Unlisted =>
        \/ call.sid \in forsaken
        \/ call.state = "ok" /\ call.action \in {"add", "touch"}
  BY <1>1 DEF WorkerInv, YpTypeOK, AddFits, TouchFits, RemoveFits, Answer, LostFromSight
<1> QED
  BY <1>1, <1>2, CallOver DEF Answer

LEMMA FailStep == WorkerInv /\ YpTypeOK' /\ Fail => WorkerInv'
<1> SUFFICES ASSUME WorkerInv, YpTypeOK', Fail PROVE WorkerInv'
  OBVIOUS
<1> QED
  BY CallOver DEF Fail, Forsaking

LEMMA RestartStep == WorkerInv /\ YpTypeOK' /\ Restart => WorkerInv'
<1> SUFFICES ASSUME WorkerInv, YpTypeOK', Restart PROVE WorkerInv'
  OBVIOUS
<1> USE DEF Restart
<1>1. PollInOrder' /\ AddFits' /\ TouchFits' /\ RemoveFits'
  BY DEF PollInOrder, AddFits, TouchFits, RemoveFits, NoneStale, NoEntry, NoCall
<1>2. InSight'
  BY DEF InSight, Held, Answered, NoEntry, NoCall
<1> QED
  BY <1>1, <1>2 DEF WorkerInv

LEMMA WorkerStep == WorkerInv /\ [YpNext]_ypVars => WorkerInv'
<1> SUFFICES ASSUME WorkerInv, [YpNext]_ypVars PROVE WorkerInv'
  OBVIOUS
<1>0. YpTypeOK'
  BY TypeStep DEF WorkerInv
<1>1. CASE Poll
  <2>1. PollInOrder' /\ call.action # "add"
    BY <1>1 DEF Poll, WorkerInv, PollInOrder, NoneStale
  <2> QED
    BY <1>0, <1>1, <2>1, QuietStep DEF Poll
<1>2. CASE AllRemoved
  <2>1. PollInOrder'
    BY <1>2 DEF AllRemoved, WorkerInv, PollInOrder, NoneStale
  <2> QED
    BY <1>0, <1>2, <2>1, QuietStep DEF AllRemoved
<1>3. CASE PollEnds
  <2>1. PollInOrder'
    BY <1>3 DEF PollEnds, WorkerInv, PollInOrder, NoneStale
  <2> QED
    BY <1>0, <1>3, <2>1, QuietStep DEF PollEnds
<1>4. ASSUME NEW m \in Mounts, SourceComesOrGoes(m) PROVE WorkerInv'
  <2>1. PollInOrder'
    BY <1>4 DEF SourceComesOrGoes, workerVars, WorkerInv, PollInOrder, NoneStale
  <2> QED
    BY <1>0, <1>4, <2>1, QuietStep DEF SourceComesOrGoes, workerVars
<1>5. ASSUME NEW m \in Mounts, ComesDue(m) PROVE WorkerInv'
  <2>1. \A n \in Mounts : entries'[n].sid = entries[n].sid
    BY <1>5 DEF ComesDue, WorkerInv, YpTypeOK, Entry
  <2>2. PollInOrder'
    BY <1>5, <2>1 DEF ComesDue, WorkerInv, PollInOrder, NoneStale
  <2> QED
    BY <1>0, <1>5, <2>1, <2>2, QuietStep DEF ComesDue
<1>6. CASE UNCHANGED ypVars
  <2>1. PollInOrder'
    BY <1>6 DEF ypVars, workerVars, WorkerInv, PollInOrder, NoneStale
  <2> QED
    BY <1>0, <1>6, <2>1, QuietStep DEF ypVars, workerVars
<1> QED
  BY <1>0, <1>1, <1>2, <1>3, <1>4, <1>5, <1>6, DropStep, RemoveNextStep, VisitStep,
     ServeStep, RefuseStep, ForgetStep, AnswerStep, FailStep, RestartStep
     DEF YpNext, Work

\* The worker keeps sight of every listing that is not forsaken, in one place,
\* and its request agrees with it (yp/mod.rs:66-68).
THEOREM WorkerInvHolds == YpSpec => []WorkerInv
<1> QED
  BY WorkerInit, WorkerStep, PTL DEF YpSpec

-----------------------------------------------------------------------------
(* The worker implements YpListing *)

LEMMA ListingInit == YpInit => Listing!Init
BY YpAssumption DEF YpInit, Listing!Init, Answered

\* One sid is not answered for any more: its mount is not listed any more.
LEMMA ListingLost ==
  ASSUME WorkerInv, NEW s \in Sids, UNCHANGED <<public, eligible>>,
         \/ /\ listing' = [listing EXCEPT ![s] = Unlisted]
            /\ forsaken' = forsaken \ {s}
         \/ /\ listing' = listing
            /\ forsaken' = forsaken \cup {s}
  PROVE  [Listing!Next]_(Listing!vars)
<1> USE DEF WorkerInv
<1>1. \A n \in Mounts : Answered(n)' = Answered(n) \ {s}
  BY YpAssumption DEF Answered, YpTypeOK
<1>2. CASE \E m \in Mounts : s \in Answered(m)
  <2>1. PICK m \in Mounts : s \in Answered(m)
    BY <1>2
  <2>2. Answered(m) = {s} /\ \A n \in Mounts \ {m} : s \notin Answered(n)
    BY <2>1 DEF InSight, Answered
  <2>3. Answered(m)' = {} /\ \A n \in Mounts \ {m} : Answered(n)' = Answered(n)
    BY <1>1, <2>2
  <2>4. Listing!Delist(m)
    BY <2>2, <2>3 DEF Listing!Delist
  <2> QED
    BY <2>4 DEF Listing!Next
<1>3. CASE \A m \in Mounts : s \notin Answered(m)
  BY <1>1, <1>3 DEF Listing!vars
<1> QED
  BY <1>2, <1>3

\* A listing that is made is of a mount of the last poll that has none.
LEMMA ServeLists ==
  ASSUME WorkerInv, Serve
  PROVE  [Listing!Next]_(Listing!vars)
<1> USE DEF WorkerInv
<1>1. call.mount \in Mounts /\ UNCHANGED <<public, eligible>>
  BY Sights DEF Serve, workerVars
<1>2. ASSUME call.action = "add", NEW s \in Unused, UNCHANGED forsaken,
             listing' = [listing EXCEPT ![s] = call.mount]
      PROVE  Listing!List(call.mount)
  <2>1. s \in Sids /\ listing[s] = Unlisted /\ s \notin forsaken
    BY <1>2 DEF Unused, YpTypeOK
  <2>2. Answered(call.mount) = {} /\ call.mount \in eligible
    <3>1. call.sid = NoSid /\ call.mount \in eligible
      BY <1>2 DEF Serve, AddFits
    <3>2. Answered(call.mount) \subseteq {NoSid}
      BY <1>1, <1>2, <3>1 DEF InSight, Held
    <3> QED
      BY <3>1, <3>2, YpAssumption DEF Answered
  <2>3. \A r \in Sids : listing'[r] = IF r = s THEN call.mount ELSE listing[r]
    BY <1>2, <2>1 DEF YpTypeOK
  <2>4. \A n \in Mounts : Answered(n)' = IF n = call.mount THEN {s} ELSE Answered(n)
    BY <1>2, <2>1, <2>2, <2>3, YpAssumption DEF Answered
  <2> QED
    BY <1>1, <2>1, <2>2, <2>4 DEF Listing!List
<1>3. CASE UNCHANGED <<listing, forsaken>>
  BY <1>1, <1>3 DEF Listing!vars, Answered
<1>4. CASE /\ call.action = "remove"
           /\ listing' = [listing EXCEPT ![call.sid] = Unlisted]
           /\ forsaken' = forsaken \ {call.sid}
  <2>1. call.sid \in Sids
    BY <1>4, Sights DEF RemoveFits
  <2> QED
    BY <1>1, <1>4, <2>1, ListingLost
<1>5. ASSUME NEW s \in Unused, forsaken' = forsaken \cup {s},
             listing' = [listing EXCEPT ![s] = call.mount]
      PROVE  UNCHANGED Listing!vars
  <2>1. s \in Sids /\ listing[s] = Unlisted
    BY <1>5 DEF Unused
  <2>2. \A r \in Sids : listing'[r] = IF r = s THEN call.mount ELSE listing[r]
    BY <1>5, <2>1 DEF YpTypeOK
  <2>3. \A n \in Mounts : Answered(n)' = Answered(n)
    BY <1>5, <2>1, <2>2, YpAssumption DEF Answered
  <2> QED
    BY <1>1, <2>3 DEF Listing!vars
<1> QED
  BY <1>1, <1>2, <1>3, <1>4, <1>5 DEF Serve, Listing!Next

LEMMA ListingStep ==
  WorkerInv /\ [YpNext]_ypVars => [Listing!Next]_(Listing!vars)
<1> SUFFICES ASSUME WorkerInv, [YpNext]_ypVars
             PROVE  [Listing!Next]_(Listing!vars)
  OBVIOUS
<1>1. ASSUME UNCHANGED <<public, eligible, listing, forsaken>>
      PROVE  UNCHANGED Listing!vars
  BY <1>1 DEF Listing!vars, Answered
<1>2. CASE Poll
  BY <1>2 DEF Poll, Listing!Poll, Listing!Next, Answered
<1>3. CASE DropStale \/ AllRemoved \/ PollEnds \/ Answer \/ UNCHANGED ypVars
  BY <1>1, <1>3 DEF DropStale, AllRemoved, PollEnds, Answer, workerVars, ypVars
<1>4. ASSUME NEW m \in Mounts, RemoveNext(m) \/ Visit(m) \/ ComesDue(m)
      PROVE  UNCHANGED Listing!vars
  BY <1>1, <1>4 DEF RemoveNext, Visit, ComesDue
<1>5. CASE Fail \/ Refuse
  <2>1. UNCHANGED <<public, eligible, listing>>
    BY <1>5 DEF Fail, Refuse, workerVars
  <2>2. CASE forsaken' = forsaken
    BY <1>1, <2>1, <2>2
  <2>3. CASE forsaken' = forsaken \cup {call.sid} /\ call.sid # NoSid
    BY <2>1, <2>3, Sights, ListingLost
  <2> QED
    BY <1>5, <2>2, <2>3 DEF Fail, Refuse, Forsaking
<1>6. CASE Serve
  BY <1>6, ServeLists
<1>7. CASE Restart
  <2>1. \A m \in Mounts : Answered(m)' = {}
    BY <1>7, YpAssumption DEF Restart, Answered
  <2> QED
    BY <1>7, <2>1 DEF Restart, Listing!Restart, Listing!Next
<1>8. ASSUME NEW s \in Sids, Forget(s) PROVE [Listing!Next]_(Listing!vars)
  BY <1>8, ListingLost DEF Forget, workerVars
<1>9. ASSUME NEW m \in Mounts, SourceComesOrGoes(m) PROVE Listing!Change
  BY <1>9 DEF SourceComesOrGoes, workerVars, Listing!Change, Answered, WorkerInv, YpTypeOK
<1> QED
  BY <1>2, <1>3, <1>1, <1>4, <1>5, <1>6, <1>7, <1>8, <1>9
     DEF YpNext, Work, Listing!Next

\* For any mounts and sids, whatever the directory refuses, forgets or leaves
\* unanswered: of the listings that it can answer for, the worker makes one of
\* a mount at most, and only of a mount that was public at its last poll
\* (yp/mod.rs:101-160).
THEOREM ListingImplemented == YpSpec => ImplementsListing
<1>1. YpInit => Listing!Init
  BY ListingInit
<1>2. WorkerInv /\ [YpNext]_ypVars => [Listing!Next]_(Listing!vars)
  BY ListingStep
<1> QED
  BY <1>1, <1>2, WorkerInvHolds, PTL DEF YpSpec, ImplementsListing, Listing!Spec
=============================================================================
