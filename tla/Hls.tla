-------------------------------- MODULE Hls --------------------------------
(***************************************************************************)
(* The HLS packager (crabster-hls/src/lib.rs): one session per mount and   *)
(* one task that polls every buffer each 200 ms.  A poll holds the write   *)
(* lock of the sessions from its first step to its last, so requests see   *)
(* the sessions between polls only; the sources are not stopped by it and  *)
(* come, go and write between any two steps of a poll.                     *)
(*                                                                         *)
(* Time is two facts about a session that the code compares with its       *)
(* configuration: whether segment_duration has elapsed, and how long no    *)
(* data has come.                                                          *)
(***************************************************************************)
EXTENDS SourceData

CONSTANTS Window,      \* window_size
          NoSession    \* the absence of a session

VARIABLES
  session,   \* sessions, by mount
  hpc,       \* where the poll is
  todo,      \* the mounts it has yet to visit
  look,      \* <<mount, source, current_pos>> between the two buffer locks
  doomed,    \* stale_mounts
  overrun    \* history: mounts whose session was lapped by its source

hlsVars == <<session, hpc, todo, look, doomed, overrun>>
vars == <<dataVars, hlsVars>>

\* is_stale: data less than 30 s ago, more than 30 s, more than 60 s.
Fresh == 0
Idle == 1
Stale == 2

Sessions ==
  [segments : Seq([sequence : Nat, data : Seq(Bytes)]), current : Seq(Bytes),
   counter : Nat, lastRead : 0 .. MaxPos, elapsed : BOOLEAN,
   quiet : {Fresh, Idle, Stale}]

ASSUME HlsAssumption ==
  /\ Window \in Nat \ {0}
  /\ NoSession \notin Sessions

NewSession ==
  [segments |-> <<>>, current |-> <<>>, counter |-> 0, lastRead |-> 0,
   elapsed |-> FALSE, quiet |-> Fresh]

Open(m) == session[m] # NoSession

HlsTypeOK ==
  /\ DataTypeOK
  /\ session \in [Mounts -> Sessions \cup {NoSession}]
  /\ hpc \in {"sleep", "visit", "read", "sweep"}
  /\ todo \subseteq Mounts /\ doomed \subseteq Mounts /\ overrun \subseteq Mounts
  /\ \A m \in todo \cup doomed : Open(m)
  /\ look \in {<<>>} \cup (todo \X Conns \X (0 .. MaxPos))

HlsInit ==
  /\ DataInit
  /\ session = [m \in Mounts |-> NoSession]
  /\ hpc = "sleep" /\ todo = {} /\ look = <<>> /\ doomed = {} /\ overrun = {}

-----------------------------------------------------------------------------
\* Mutant: the window is cut before the segment goes in.
WithSegmentCutFirst(s) ==
  [s EXCEPT !.segments =
              Append(IF Len(@) = Window THEN <<>> ELSE @,
                     [sequence |-> s.counter, data |-> s.current]),
            !.current = <<>>,
            !.counter = @ + 1]

\* A segment with the data collected so far, numbered by the counter; the
\* oldest one leaves a window that is full.
WithSegment(s) ==
  LET all == Append(s.segments, [sequence |-> s.counter, data |-> s.current]) IN
  [s EXCEPT !.segments = IF Len(all) > Window THEN Tail(all) ELSE all,
            !.current = <<>>,
            !.counter = @ + 1]

\* seal_segment starts the next segment's clock.
Sealed(s) == IF s.current = <<>> THEN s ELSE [WithSegment(s) EXCEPT !.elapsed = FALSE]

\* force_seal leaves the clock as it is.
ForceSealed(s) == IF s.current = <<>> THEN s ELSE WithSegment(s)

\* Mutant: the data that comes when a segment is due is left out of it.
FedUnlessDue(s, bytes) ==
  IF s.elapsed THEN Sealed([s EXCEPT !.quiet = Fresh])
  ELSE [s EXCEPT !.current = @ \o bytes, !.quiet = Fresh]

\* feed.
Fed(s, bytes) ==
  LET fed == [s EXCEPT !.current = @ \o bytes, !.quiet = Fresh] IN
  IF s.elapsed THEN Sealed(fed) ELSE fed

\* Mutant: a segment is sealed only when more data comes.
SettledByDataOnly(s) == s

\* The end of a visit: should_seal, then is_stale(30 s).
Settled(s) ==
  LET due == IF s.current # <<>> /\ s.elapsed THEN Sealed(s) ELSE s IN
  IF due.quiet # Fresh THEN ForceSealed(due) ELSE due

-----------------------------------------------------------------------------
\* The poll takes the lock and opens a session for every mount that has a
\* source; then it visits every session, in the order of a hash map.
Poll ==
  LET opened == [m \in Mounts |->
                   IF MountExists(m) /\ ~Open(m) THEN NewSession ELSE session[m]]
  IN  /\ hpc = "sleep"
      /\ session' = opened
      /\ todo' = {m \in Mounts : opened[m] # NoSession}
      /\ hpc' = "visit"
      /\ UNCHANGED <<dataVars, look, doomed, overrun>>

\* A mount without a source: what is left becomes a segment.
VisitGone(m) ==
  /\ hpc = "visit" /\ m \in todo
  /\ ~MountExists(m)
  /\ session' = [session EXCEPT ![m] = ForceSealed(@)]
  /\ todo' = todo \ {m}
  /\ UNCHANGED <<dataVars, hpc, look, doomed, overrun>>

\* current_position, under a first lock on the buffer.
VisitSource(m) ==
  LET c == sources[m] IN
  /\ hpc = "visit" /\ m \in todo
  /\ MountExists(m)
  /\ IF wpos[c] > session[m].lastRead
     THEN /\ look' = <<m, c, wpos[c]>>
          /\ hpc' = "read"
          /\ UNCHANGED <<session, todo>>
     ELSE /\ session' = [session EXCEPT ![m] = Settled(@)]
          /\ todo' = todo \ {m}
          /\ UNCHANGED <<hpc, look>>
  /\ UNCHANGED <<dataVars, doomed, overrun>>

\* The read under a second lock; the source may have written in between.
ReadBuffer ==
  LET m == look[1]
      c == look[2]
      s == session[m]
  IN  /\ hpc = "read"
      /\ session' = [session EXCEPT ![m] =
           Settled([Fed(s, ReadFrom(c, s.lastRead)) EXCEPT !.lastRead = look[3]])]
      /\ overrun' = IF Lapped(c, s.lastRead) THEN overrun \cup {m} ELSE overrun
      /\ todo' = todo \ {m}
      /\ look' = <<>>
      /\ hpc' = "visit"
      /\ UNCHANGED <<dataVars, doomed>>

\* Mutant: a session goes as soon as it is stale.
JudgeByAgeOnly ==
  /\ hpc = "visit" /\ todo = {}
  /\ doomed' = {m \in Mounts : Open(m) /\ session[m].quiet # Fresh}
  /\ hpc' = "sweep"
  /\ UNCHANGED <<dataVars, session, todo, look, overrun>>

\* stale_mounts: the sessions without a source and without data for 60 s.
Judge ==
  /\ hpc = "visit" /\ todo = {}
  /\ doomed' = {m \in Mounts :
                  Open(m) /\ ~MountExists(m) /\ session[m].quiet = Stale}
  /\ hpc' = "sweep"
  /\ UNCHANGED <<dataVars, session, todo, look, overrun>>

\* Mutant: the list is kept for the next poll.
SweepAndKeepList ==
  /\ hpc = "sweep"
  /\ session' = [m \in Mounts |-> IF m \in doomed THEN NoSession ELSE session[m]]
  /\ hpc' = "sleep"
  /\ UNCHANGED <<dataVars, todo, look, doomed, overrun>>

\* They are removed and the lock is released.
Sweep ==
  /\ hpc = "sweep"
  /\ session' = [m \in Mounts |-> IF m \in doomed THEN NoSession ELSE session[m]]
  /\ overrun' = overrun \ doomed
  /\ doomed' = {}
  /\ hpc' = "sleep"
  /\ UNCHANGED <<dataVars, todo, look>>

\* Mutant: the request does not look whether the mount has a session.
EnsureAnew(m) ==
  /\ hpc = "sleep"
  /\ session' = [session EXCEPT ![m] = NewSession]
  /\ UNCHANGED <<dataVars, hpc, todo, look, doomed, overrun>>

\* POST .../hls opens a session, whether or not the mount has a source.
EnsureSession(m) ==
  /\ hpc = "sleep"
  /\ ~Open(m)
  /\ session' = [session EXCEPT ![m] = NewSession]
  /\ UNCHANGED <<dataVars, hpc, todo, look, doomed, overrun>>

\* Time passes for a session: its segment gets long enough, or it has had no
\* data for longer.  30 s without data is more than the 10 s of a segment.
Lengthen(m) ==
  /\ Open(m) /\ ~session[m].elapsed
  /\ session' = [session EXCEPT ![m].elapsed = TRUE]
  /\ UNCHANGED <<dataVars, hpc, todo, look, doomed, overrun>>

GrowQuiet(m) ==
  /\ Open(m) /\ session[m].quiet # Stale
  /\ session' = [session EXCEPT ![m] =
                   [session[m] EXCEPT !.elapsed = TRUE, !.quiet = @ + 1]]
  /\ UNCHANGED <<dataVars, hpc, todo, look, doomed, overrun>>

PollStep ==
  \/ Poll \/ ReadBuffer \/ Judge \/ Sweep
  \/ \E m \in Mounts : VisitGone(m) \/ VisitSource(m)

HlsNext ==
  \/ DataNext /\ UNCHANGED hlsVars
  \/ PollStep
  \/ \E m \in Mounts : EnsureSession(m) \/ Lengthen(m) \/ GrowQuiet(m)

HlsSpec == HlsInit /\ [][HlsNext]_vars
HlsFairSpec ==
  HlsSpec /\ WF_vars(PollStep) /\ \A m \in Mounts : WF_vars(Lengthen(m))
-----------------------------------------------------------------------------
\* The bytes that a session holds, in its segments and in what is collected for
\* the next one.
Packaged(s) ==
  {s.current[j] : j \in DOMAIN s.current}
    \cup UNION {{s.segments[k].data[j] : j \in DOMAIN s.segments[k].data}
                : k \in DOMAIN s.segments}

\* What requests answer: get_playlist names the segments by their numbers,
\* after the number of the first one; get_segment gives the data of the first
\* segment that has the number asked for.
Playlist(s) == [k \in DOMAIN s.segments |-> s.segments[k].sequence]
MediaSequence(s) == IF s.segments = <<>> THEN 0 ELSE s.segments[1].sequence
Gives(s, n, data) ==
  \E k \in DOMAIN s.segments :
    /\ s.segments[k] = [sequence |-> n, data |-> data]
    /\ \A j \in 1 .. k - 1 : s.segments[j].sequence # n

WindowOK(s) ==
  /\ Len(s.segments) = IF s.counter < Window THEN s.counter ELSE Window
  /\ \A k \in DOMAIN s.segments :
       /\ Playlist(s)[k] = s.counter - Len(s.segments) + k - 1
       /\ s.segments[k].data # <<>>

\* The playlist names the segments by consecutive numbers that end at the
\* counter, and lists as many as the window takes (lib.rs:107-131): no number
\* names two segments of a playlist, whichever of the ways to seal one
\* (lib.rs:68, 90) ran, and none is skipped or dropped early.
WindowConsecutive == \A m \in Mounts : Open(m) => WindowOK(session[m])

\* A playlist that a player holds stays true (lib.rs:107-131): for as long as a
\* number is listed a request for it gives the same data, whatever is sealed,
\* fed or opened meanwhile, and the number of the first segment never goes
\* back, so that a number that has left the list never comes back with other
\* data.  A session that is removed is the only end of it.
PlaylistStays ==
  [][\A m \in Mounts :
       Open(m) /\ session'[m] # NoSession =>
         LET s == session[m]
             t == session'[m]
         IN  /\ MediaSequence(s) <= MediaSequence(t)
             /\ \A k \in DOMAIN s.segments, j \in DOMAIN t.segments :
                  Playlist(s)[k] = Playlist(t)[j]
                    => Gives(t, Playlist(s)[k], s.segments[k].data)]_vars

\* A player that gets b after a misses no byte of the source in between.
Follows(a, b) == a[1] = b[1] => b[2] <= a[2] + 1
Whole(bytes) == \A j \in 1 .. Len(bytes) - 1 : Follows(bytes[j], bytes[j + 1])
Joins(bytes, more) == Follows(bytes[Len(bytes)], more[1])

\* In the order in which a player gets them: the segments, then what is
\* collected.
GapFree(s) ==
  /\ \A k \in DOMAIN s.segments : Whole(s.segments[k].data)
  /\ \A k \in 1 .. Len(s.segments) - 1 :
       Joins(s.segments[k].data, s.segments[k + 1].data)
  /\ Whole(s.current)
  /\ s.segments # <<>> /\ s.current # <<>>
       => Joins(s.segments[Len(s.segments)].data, s.current)

\* A player misses nothing between two bytes of a source: the position saved
\* is the one seen before the read (lib.rs:213-216), so bytes that come in
\* between are packaged again and never left out, also when the session goes on
\* at that position in the stream of a source that returned.  It holds until a
\* source writes more than a whole buffer between two polls.
NoGap == \A m \in Mounts \ overrun : Open(m) => GapFree(session[m])

\* A session is never removed while it holds data of the source that feeds
\* its mount, although a source may register between the two looks at the
\* registry (lib.rs:232-241): a player's numbering does not start again
\* under a source that it is listening to.
SessionKept ==
  [][\A m \in Mounts :
       Open(m) /\ session'[m] = NoSession =>
         \A b \in Packaged(session[m]) : b[1] # sources[m]]_vars

\* What was read from a source reaches a segment, also when the source falls
\* silent or leaves.
DataOffered ==
  \A m \in Mounts :
    (Open(m) /\ session[m].current # <<>>)
      ~> (~Open(m) \/ session[m].current = <<>>)
=============================================================================
