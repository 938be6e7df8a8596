--------------------------------- MODULE Yp ---------------------------------
(***************************************************************************)
(* The YP directory worker (YpManager, crabster-core/src/yp/mod.rs): one   *)
(* task that polls the public sources and adds, touches and removes their  *)
(* listings in a directory over HTTP, one request at a time.  The          *)
(* directory is external: it may refuse whatever it is asked, answer an    *)
(* add without a SID, forget a listing, and its answer or the request      *)
(* itself may be lost, which the worker cannot tell apart.                 *)
(* A time that has come is a flag here: an entry is due or is not.         *)
(***************************************************************************)
EXTENDS MountPoints

CONSTANTS Sids,   \* session ids of the directory, which it uses again
          NoSid,  \* the absence of one
          Unlisted  \* what the directory has for a sid it does not list

ASSUME YpAssumption ==
  NoSid \notin Sids /\ Unlisted \notin Mounts /\ Mounts # {}

VARIABLES
  public,    \* the mounts that have a public source
  entries,   \* the worker's entries
  ypPc,      \* where the worker is in poll
  eligible,  \* the mounts of the last public_sources
  todo,      \* those that this poll has yet to visit
  stale,     \* the sids it has yet to remove, by mount
  call,      \* the request in flight
  listing,   \* the directory: the mount of each sid it lists
  forsaken   \* history: listed sids that the worker has lost sight of

workerVars == <<entries, ypPc, eligible, todo, stale>>
ypVars == <<public, workerVars, call, listing, forsaken>>

\* An entry; `known` is FALSE for a mount without one.
Entry == [known : BOOLEAN, sid : Sids \cup {NoSid}, due : BOOLEAN]
NoEntry == [known |-> FALSE, sid |-> NoSid, due |-> FALSE]
EntryOf(sid) == [known |-> TRUE, sid |-> sid, due |-> FALSE]

NoCall == [action |-> "none", mount |-> CHOOSE m \in Mounts : TRUE,
           sid |-> NoSid, state |-> "sent"]
Call(action, m, sid) ==
  [action |-> action, mount |-> m, sid |-> sid, state |-> "sent"]

YpTypeOK ==
  /\ public \in SUBSET Mounts
  /\ entries \in [Mounts -> Entry]
  /\ ypPc \in {"sleep", "drop", "remove", "visit", "post"}
  /\ eligible \in SUBSET Mounts /\ todo \in SUBSET Mounts
  /\ stale \in [Mounts -> Sids \cup {NoSid}]
  /\ call \in [action : {"none", "add", "touch", "remove"}, mount : Mounts,
               sid : Sids \cup {NoSid}, state : {"sent", "ok", "refused"}]
  /\ listing \in [Sids -> Mounts \cup {Unlisted}]
  /\ forsaken \in SUBSET {s \in Sids : listing[s] # Unlisted}

YpInit ==
  /\ public = {}
  /\ entries = [m \in Mounts |-> NoEntry]
  /\ ypPc = "sleep" /\ eligible = {} /\ todo = {}
  /\ stale = [m \in Mounts |-> NoSid]
  /\ call = NoCall
  /\ listing = [s \in Sids |-> Unlisted]
  /\ forsaken = {}

-----------------------------------------------------------------------------
\* A public source comes or goes; a touch or a retry becomes due.
SourceComesOrGoes(m) ==
  /\ public' = IF m \in public THEN public \ {m} ELSE public \cup {m}
  /\ UNCHANGED <<workerVars, call, listing, forsaken>>

ComesDue(m) ==
  /\ entries[m].known /\ ~entries[m].due
  /\ entries' = [entries EXCEPT ![m].due = TRUE]
  /\ UNCHANGED <<public, ypPc, eligible, todo, stale, call, listing, forsaken>>

\* poll takes the public sources.
Poll ==
  /\ ypPc = "sleep"
  /\ ypPc' = "drop" /\ eligible' = public
  /\ UNCHANGED <<public, entries, todo, stale, call, listing, forsaken>>

\* Mutant: the entries go and their sids with them.
DropSilently ==
  /\ ypPc = "drop"
  /\ entries' = [m \in Mounts |-> IF m \in eligible THEN entries[m] ELSE NoEntry]
  /\ ypPc' = "remove" /\ todo' = eligible
  /\ UNCHANGED <<public, eligible, stale, call, listing, forsaken>>

\* The entries of the other mounts go, in one lock.
DropStale ==
  /\ ypPc = "drop"
  /\ stale' = [m \in Mounts |-> IF m \in eligible THEN NoSid ELSE entries[m].sid]
  /\ entries' = [m \in Mounts |-> IF m \in eligible THEN entries[m] ELSE NoEntry]
  /\ ypPc' = "remove" /\ todo' = eligible
  /\ UNCHANGED <<public, eligible, call, listing, forsaken>>

\* Each of them that had a sid is removed from the directory.
RemoveNext(m) ==
  /\ ypPc = "remove" /\ stale[m] # NoSid
  /\ call' = Call("remove", m, stale[m])
  /\ stale' = [stale EXCEPT ![m] = NoSid]
  /\ ypPc' = "post"
  /\ UNCHANGED <<public, entries, eligible, todo, listing, forsaken>>

AllRemoved ==
  /\ ypPc = "remove" /\ \A m \in Mounts : stale[m] = NoSid
  /\ ypPc' = "visit"
  /\ UNCHANGED <<public, entries, eligible, todo, stale, call, listing, forsaken>>

\* Mutant: whatever is due is added.
VisitAdding(m) ==
  LET e == entries[m] IN
  /\ ypPc = "visit" /\ m \in todo
  /\ todo' = todo \ {m}
  /\ IF e.known /\ ~e.due
     THEN UNCHANGED <<ypPc, call>>
     ELSE ypPc' = "post" /\ call' = Call("add", m, NoSid)
  /\ UNCHANGED <<public, entries, eligible, stale, listing, forsaken>>

\* An eligible mount is added when it has no entry, or when it is due and has
\* no sid; it is touched when it is due and has one.
Visit(m) ==
  LET e == entries[m] IN
  /\ ypPc = "visit" /\ m \in todo
  /\ todo' = todo \ {m}
  /\ IF e.known /\ ~e.due
     THEN UNCHANGED <<ypPc, call>>
     ELSE /\ ypPc' = "post"
          /\ call' = IF e.sid = NoSid THEN Call("add", m, NoSid)
                     ELSE Call("touch", m, e.sid)
  /\ UNCHANGED <<public, entries, eligible, stale, listing, forsaken>>

PollEnds ==
  /\ ypPc = "visit" /\ todo = {}
  /\ ypPc' = "sleep"
  /\ UNCHANGED <<public, entries, eligible, todo, stale, call, listing, forsaken>>

-----------------------------------------------------------------------------
\* The sids that nothing refers to.
Unused ==
  {s \in Sids : listing[s] = Unlisted /\ \A m \in Mounts : s \notin {entries[m].sid, stale[m]}}

\* A sid that is listed and that the worker will not use again is forsaken.
Forsaking(s) == IF s # NoSid /\ listing[s] # Unlisted THEN forsaken \cup {s} ELSE forsaken

\* The directory does what it is asked.  The answer to an add may lack the SID.
Serve ==
  /\ call.action # "none" /\ call.state = "sent"
  /\ \/ /\ call.action = "add"
        /\ \E s \in Unused :
             /\ listing' = [listing EXCEPT ![s] = call.mount]
             /\ \/ /\ call' = [call EXCEPT !.state = "ok", !.sid = s]
                   /\ UNCHANGED forsaken
                \/ /\ call' = [call EXCEPT !.state = "ok"]
                   /\ forsaken' = forsaken \cup {s}
     \/ /\ call.action = "touch"
        /\ call' = [call EXCEPT !.state = IF listing[call.sid] = Unlisted
                                          THEN "refused" ELSE "ok"]
        /\ UNCHANGED <<listing, forsaken>>
     \/ /\ call.action = "remove"
        /\ listing' = [listing EXCEPT ![call.sid] = Unlisted]
        /\ forsaken' = forsaken \ {call.sid}
        /\ call' = [call EXCEPT !.state = "ok"]
  /\ UNCHANGED <<public, workerVars>>

\* It refuses: an add makes no listing, and the listing of a touch or a removal
\* stays.
Refuse ==
  /\ call.action # "none" /\ call.state = "sent"
  /\ call' = [call EXCEPT !.state = "refused"]
  /\ forsaken' = Forsaking(call.sid)
  /\ UNCHANGED <<public, workerVars, listing>>

\* It forgets a listing by itself.
Forget(s) ==
  /\ listing[s] # Unlisted
  /\ listing' = [listing EXCEPT ![s] = Unlisted]
  /\ forsaken' = forsaken \ {s}
  /\ UNCHANGED <<public, workerVars, call>>

-----------------------------------------------------------------------------
\* The worker goes on: with the removals, or with the visits.
GoesOn == ypPc' = IF call.action = "remove" THEN "remove" ELSE "visit"

\* The entries after the answer: an add enters its mount, with the sid of the
\* answer when it was accepted and without one, to try again later, when not; a
\* touch that was not accepted drops the sid; a removal has no entry.
EntriesAfter(ok) ==
  LET m == call.mount IN
  IF call.action = "add" THEN [entries EXCEPT ![m] = EntryOf(IF ok THEN call.sid ELSE NoSid)]
  ELSE IF call.action = "touch" /\ entries[m].known
       THEN [entries EXCEPT ![m].due = FALSE, ![m].sid = IF ok THEN @ ELSE NoSid]
  ELSE entries

\* The answer arrives.
Answer ==
  /\ call.state # "sent"
  /\ entries' = EntriesAfter(call.state = "ok")
  /\ call' = NoCall
  /\ GoesOn
  /\ UNCHANGED <<public, eligible, todo, stale, listing, forsaken>>

\* The request times out or fails, done or not: post returns None.  A listing
\* that was made, or was not removed, is forsaken.
Fail ==
  /\ call.action # "none"
  /\ entries' = EntriesAfter(FALSE)
  /\ forsaken' = Forsaking(call.sid)
  /\ call' = NoCall
  /\ GoesOn
  /\ UNCHANGED <<public, eligible, todo, stale, listing>>

\* The server stops, without a word to the directory, and starts again.
Restart ==
  /\ public' = {}
  /\ entries' = [m \in Mounts |-> NoEntry]
  /\ ypPc' = "sleep" /\ eligible' = {} /\ todo' = {}
  /\ stale' = [m \in Mounts |-> NoSid]
  /\ call' = NoCall
  /\ forsaken' = {s \in Sids : listing[s] # Unlisted}
  /\ UNCHANGED listing

Work ==
  \/ Poll \/ DropStale \/ AllRemoved \/ PollEnds \/ Answer \/ Fail
  \/ \E m \in Mounts : RemoveNext(m) \/ Visit(m)

YpNext ==
  \/ Work \/ Serve \/ Refuse \/ Restart
  \/ \E s \in Sids : Forget(s)
  \/ \E m \in Mounts : SourceComesOrGoes(m) \/ ComesDue(m)

YpSpec == YpInit /\ [][YpNext]_ypVars
YpFairSpec == YpSpec /\ WF_ypVars(Work) /\ \A m \in Mounts : WF_ypVars(ComesDue(m))
-----------------------------------------------------------------------------
\* The listings of a mount that the worker can still answer for.
Answered(m) == {s \in Sids \ forsaken : listing[s] = m}

Listing == INSTANCE YpListing WITH listed <- [m \in Mounts |-> Answered(m)]

\* Set aside the listings that are forsaken, a mount is listed once, and
\* only when it was public at the last poll: neither a retry, nor a source that
\* leaves and returns while its request is out, lists it twice.
ImplementsListing == Listing!Spec

\* "a remove when it disconnects" (README.md:108): a listing whose mount is
\* gone disappears, or its mount comes back, or it is forsaken: until its sid
\* has been sent in a removal, nothing but a lost or refused request makes the
\* worker lose it, although the entry that had it goes before (yp/mod.rs:125).
GoneIsDelisted ==
  \A s \in Sids : \A m \in Mounts :
    (listing[s] = m /\ m \notin public)
      ~> (listing[s] # m \/ m \in public \/ s \in forsaken)
=============================================================================
