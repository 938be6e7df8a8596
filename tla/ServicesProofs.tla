---------------------------- MODULE ServicesProofs ----------------------------
(***************************************************************************)
(* The services, for every value of their constants: each part keeps what  *)
(* it promises, whatever the others do.                                    *)
(***************************************************************************)
EXTENDS Services, FiniteSetTheorems, TLAPS

Ring == INSTANCE RingViewProofs WITH Capacity <- RingCapacity

\* Whatever the parts do together, each does what its own specification
\* allows.
THEOREM PartsRefined ==
  ServicesFairSpec => /\ IcySpec /\ YpSpec /\ HealthSpec
                      /\ AnalyticsSpec /\ AccountsSpec /\ AuthSpec
<1>1. ServicesInit => IcyInit /\ YpInit /\ HealthInit /\ AnalyticsInit /\ AccountsInit /\ AuthInit
  BY DEF ServicesInit
<1> USE DEF ServicesNext, servicesVars, RestOfIcy, RestOfYp, RestOfHealth, RestOfAnalytics,
            RestOfAccounts, RestOfAuth
<1>2. [ServicesNext]_servicesVars => [IcyNext]_icyVars
  OBVIOUS
<1>3. [ServicesNext]_servicesVars => [YpNext]_ypVars
  OBVIOUS
<1>4. [ServicesNext]_servicesVars => [HealthNext]_healthVars
  OBVIOUS
<1>5. [ServicesNext]_servicesVars => [AnalyticsNext]_analyticsVars
  OBVIOUS
<1>6. [ServicesNext]_servicesVars => [AccountsNext]_accountVars
  OBVIOUS
<1>7. [ServicesNext]_servicesVars => [AuthNext]_authVars
  OBVIOUS
<1> QED
  BY <1>1, <1>2, <1>3, <1>4, <1>5, <1>6, <1>7, PTL
     DEF ServicesFairSpec, IcySpec, YpSpec, HealthSpec, AnalyticsSpec, AccountsSpec, AuthSpec

-----------------------------------------------------------------------------
(* In-stream metadata: phases *)

\* What a sender has yet to send before its next block: audio, or the rest of
\* a payload with the whole interval behind it.
Phase == {ph \in [left : 0 .. Metaint, rest : Nat, says : Metadata] :
            ph.rest > 0 => ph.left = Metaint}

\* The bytes of q lead a sender from one phase to another.
Leads(q, from, to) ==
  \E st \in [0 .. Len(q) -> Phase] :
    /\ st[0] = from /\ st[Len(q)] = to
    /\ \A i \in 1 .. Len(q) : <<q[i], st[i]>> \in NextBytes(st[i - 1])

\* A parser counts as a sender in that phase does.
InPhase(p, ph) ==
  /\ p \in Parser /\ ~p.lost
  /\ IF ph.rest > 0 THEN p.meta_len = ph.rest /\ p.remaining_audio = 0
     ELSE p.meta_len = 0 /\ p.remaining_audio = ph.left

\* The numbers of the module are numbers.
LEMMA IcyConstants ==
  /\ UnitBytes \in Nat \ {0} /\ LenBytes \in Nat \ {0} /\ Metaint \in Nat \ {0}
  /\ ReadSize \in Nat \ {0} /\ MaxLine \in Nat /\ ReadSize <= Metaint /\ MaxIntro \in Nat
BY IcyAssumption

LEMMA RoomOf ==
  ASSUME NEW meta \in Metadata
  PROVE  UnitsOf(meta) \in Nat
<1>1. \A text \in Texts \cup {NoText} : Room(text) \in Nat
  <2> SUFFICES ASSUME NEW text \in Texts \cup {NoText}, text # NoText PROVE Units[text] \in Nat
    BY DEF Room
  <2>1. Units[text] \in 1 .. LenBytes - 1
    BY IcyAssumption
  <2> QED
    BY <2>1, IcyConstants
<1>2. meta.title \in Texts \cup {NoText} /\ meta.url \in Texts \cup {NoText}
  BY DEF Metadata
<1> QED
  BY <1>1, <1>2 DEF UnitsOf

\* A payload has bytes if it has units.
LEMMA PayloadSize ==
  ASSUME NEW u \in Nat
  PROVE  /\ u * UnitBytes \in Nat
         /\ u * UnitBytes > 0 <=> u # 0
<1>1. UnitBytes \in Nat /\ UnitBytes > 0
  BY IcyConstants
<1>2. u = 0 => u * UnitBytes = 0
  BY <1>1
<1>3. u > 0 => u * UnitBytes > 0
  BY <1>1
<1>4. u * UnitBytes \in Nat
  BY <1>1
<1> QED
  BY <1>2, <1>3, <1>4

LEMMA NothingIsMetadata == Nothing \in Metadata
BY DEF Nothing, Metadata

LEMMA UpdatedIsMetadata ==
  ASSUME NEW a \in Metadata, NEW b \in Metadata
  PROVE  Updated(a, b) \in Metadata
<1> DEFINE t == IF b.title = NoText THEN a.title ELSE b.title
           w == IF b.url = NoText THEN a.url ELSE b.url
<1>1. t \in Texts \cup {NoText} /\ w \in Texts \cup {NoText}
  BY DEF Metadata
<1>2. Updated(a, b) = [title |-> t, url |-> w]
  BY DEF Updated
<1> HIDE DEF t, w
<1> QED
  BY <1>1, <1>2 DEF Metadata

\* A block that says nothing changes nothing.
LEMMA UpdatedByNothing ==
  ASSUME NEW a \in Metadata
  PROVE  Updated(a, Nothing) = a
BY DEF Updated, Nothing, Metadata

\* What is read in a payload is a title and a url.
LEMMA ParsedIsMetadata ==
  ASSUME NEW meta \in Metadata
  PROVE  parse_icy_metadata(meta) \in Metadata
<1>1. ASSUME NEW f \in {"title", "url"} PROVE FieldsOf(meta, f) \in Metadata
  <2>1. CASE meta[f] = NoText
    BY <2>1, NothingIsMetadata DEF FieldsOf
  <2>2. CASE meta[f] # NoText
    <3>1. meta[f] \in Texts
      BY <2>2 DEF Metadata
    <3>2. Kept[meta[f]] \in Texts /\ Brings[meta[f]] \in Metadata
      BY <3>1, TextAssumption
    <3>3. [Nothing EXCEPT ![f] = Kept[meta[f]]] \in Metadata
      BY <3>2 DEF Nothing, Metadata
    <3> QED
      BY <2>2, <3>2, <3>3, UpdatedIsMetadata DEF FieldsOf
  <2> QED
    BY <2>1, <2>2
<1> QED
  BY <1>1, UpdatedIsMetadata DEF parse_icy_metadata

LEMMA FreshCounts ==
  Fresh \in Parser /\ Fresh.meta_len = 0 /\ Fresh.remaining_audio = Metaint /\ ~Fresh.lost
BY IcyConstants DEF Fresh, Parser

\* The phase that follows is a phase.
LEMMA NextIsPhase ==
  ASSUME NEW ph \in Phase, NEW next \in NextBytes(ph)
  PROVE  next[2] \in Phase
<1>1. ph \in [left : 0 .. Metaint, rest : Nat, says : Metadata] /\ (ph.rest > 0 => ph.left = Metaint)
  BY DEF Phase
<1>2. CASE ph.rest > 0
  <2>1. next[2] = [ph EXCEPT !.rest = @ - 1]
    BY <1>2 DEF NextBytes
  <2> QED
    BY <1>1, <1>2, <2>1 DEF Phase
<1>3. CASE ~(ph.rest > 0) /\ ph.left > 0
  <2>1. next[2] = [ph EXCEPT !.left = @ - 1]
    BY <1>3 DEF NextBytes
  <2> QED
    BY <1>1, <1>3, <2>1, IcyConstants DEF Phase
<1>4. CASE ~(ph.rest > 0) /\ ~(ph.left > 0)
  <2>1. PICK meta \in Metadata :
          next[2] = [left |-> Metaint, rest |-> UnitsOf(meta) * UnitBytes, says |-> meta]
    BY <1>4 DEF NextBytes
  <2>2. UnitsOf(meta) * UnitBytes \in Nat
    BY RoomOf, PayloadSize
  <2> QED
    BY <2>1, <2>2, IcyConstants DEF Phase
<1> QED
  BY <1>2, <1>3, <1>4

\* A parser that counts as its sender does takes the next byte for what it is,
\* and goes on counting like that.
LEMMA FeedInPhase ==
  ASSUME NEW ph \in Phase, NEW p, InPhase(p, ph), NEW b, NEW then,
         <<b, then>> \in NextBytes(ph)
  PROVE  /\ InPhase(FeedByte(p, b), then)
         /\ Takes(p) = b.is
         /\ b.is = "audio" => b = Audio
         /\ b.is = "payload" => b.says \in Metadata
         /\ (p.meta_len = 1 /\ b.is = "payload") <=> (b.is = "payload" /\ b.rest = 0)
         /\ b.is = "audio" => /\ FeedByte(p, b).remaining_audio = p.remaining_audio - 1
                              /\ FeedByte(p, b).meta_len = 0
         /\ p.meta_len = 1 => /\ FeedByte(p, b).remaining_audio = Metaint
                              /\ FeedByte(p, b).meta_len = 0
<1> DEFINE fed == FeedByte(p, b)
<1>1. /\ ph \in [left : 0 .. Metaint, rest : Nat, says : Metadata]
      /\ ph.rest > 0 => ph.left = Metaint
      /\ p \in [remaining_audio : 0 .. Metaint, meta_len : Nat, lost : BOOLEAN] /\ ~p.lost
  BY DEF Phase, InPhase, Parser
<1>2. CASE ph.rest > 0
  <2>1. /\ b = PayloadByte(ph.says, ph.rest - 1) /\ then = [ph EXCEPT !.rest = @ - 1]
        /\ p.meta_len = ph.rest /\ p.remaining_audio = 0
    BY <1>2 DEF NextBytes, InPhase
  <2>2. b.is = "payload" /\ b.says = ph.says /\ b.rest = ph.rest - 1 /\ Takes(p) = "payload"
    BY <1>1, <1>2, <2>1 DEF PayloadByte, Takes
  <2>3. fed = IF p.meta_len = 1 THEN Fresh
              ELSE [p EXCEPT !.meta_len = @ - 1]
    BY <1>1, <2>2 DEF FeedByte
  <2>4. then.rest = ph.rest - 1 /\ then.left = Metaint
    BY <1>1, <1>2, <2>1
  <2>5. CASE ph.rest = 1
    <3>1. fed = Fresh
      BY <2>1, <2>3, <2>5
    <3>2. fed \in Parser /\ fed.meta_len = 0 /\ fed.remaining_audio = Metaint /\ ~fed.lost
      BY <1>1, <3>1, FreshCounts
    <3>3. then.rest = 0 /\ then.left = Metaint
      BY <2>4, <2>5
    <3> HIDE DEF fed
    <3>4. InPhase(fed, then)
      BY <3>2, <3>3 DEF InPhase
    <3> QED
      BY <1>1, <2>1, <2>2, <2>5, <3>2, <3>4 DEF fed
  <2>6. CASE ph.rest # 1
    <3>1. fed = [p EXCEPT !.meta_len = @ - 1]
      BY <2>1, <2>3, <2>6
    <3>2. InPhase(fed, then)
      BY <1>1, <1>2, <2>1, <2>4, <2>6, <3>1 DEF InPhase, Parser
    <3> QED
      BY <1>1, <2>1, <2>2, <2>6, <3>2
  <2> QED
    BY <2>5, <2>6
<1>3. CASE ~(ph.rest > 0) /\ ph.left > 0
  <2>1. /\ b = Audio /\ then = [ph EXCEPT !.left = @ - 1]
        /\ p.meta_len = 0 /\ p.remaining_audio = ph.left
    BY <1>3 DEF NextBytes, InPhase
  <2>2. b.is = "audio" /\ Takes(p) = "audio"
    BY <1>3, <2>1 DEF Audio, Takes
  <2>3. fed = [p EXCEPT !.remaining_audio = @ - 1]
    BY <1>1, <2>2 DEF FeedByte
  <2>4. InPhase(fed, then)
    BY <1>1, <1>3, <2>1, <2>3, IcyConstants DEF InPhase, Parser
  <2> QED
    BY <1>1, <2>1, <2>2, <2>3, <2>4
<1>4. CASE ~(ph.rest > 0) /\ ~(ph.left > 0)
  <2>1. PICK meta \in Metadata :
          /\ b = LengthByte(UnitsOf(meta))
          /\ then = [left |-> Metaint, rest |-> UnitsOf(meta) * UnitBytes, says |-> meta]
    BY <1>4 DEF NextBytes
  <2> DEFINE u == UnitsOf(meta)
             size == u * UnitBytes
  <2>2. u \in Nat /\ size \in Nat /\ (size > 0 <=> u # 0)
    BY RoomOf, PayloadSize
  <2>3. p.meta_len = 0 /\ p.remaining_audio = 0
    BY <1>1, <1>4, IcyConstants DEF InPhase
  <2>4. b.is = "length" /\ b.units = u /\ Takes(p) = "length"
    BY <2>1, <2>3 DEF LengthByte, Takes
  <2>5. fed = IF u = 0 THEN Fresh
              ELSE [p EXCEPT !.meta_len = size]
    BY <1>1, <2>4 DEF FeedByte
  <2>6. then.rest = size /\ then.left = Metaint
    BY <2>1
  <2> HIDE DEF fed, size, u
  <2>7. ASSUME u = 0 PROVE InPhase(fed, then)
    <3>1. fed \in Parser /\ fed.meta_len = 0 /\ fed.remaining_audio = Metaint /\ ~fed.lost
      BY <1>1, <2>5, <2>7, FreshCounts
    <3> QED
      BY <2>2, <2>6, <2>7, <3>1 DEF InPhase
  <2>8. ASSUME u # 0 PROVE InPhase(fed, then)
    <3>1. fed = [p EXCEPT !.meta_len = size]
      BY <2>5, <2>8
    <3>2. fed \in Parser /\ fed.meta_len = size /\ fed.remaining_audio = 0 /\ ~fed.lost
      BY <1>1, <2>2, <2>3, <3>1 DEF Parser
    <3> QED
      BY <2>2, <2>6, <2>8, <3>2 DEF InPhase
  <2> QED
    BY <2>3, <2>4, <2>7, <2>8 DEF fed
<1> QED
  BY <1>2, <1>3, <1>4

-----------------------------------------------------------------------------
(* In-stream metadata: what is on the way *)

\* Nothing on the way leads nowhere.
LEMMA LeadsNowhere ==
  ASSUME NEW ph \in Phase
  PROVE  Leads(<<>>, ph, ph)
<1> DEFINE st == [i \in 0 .. 0 |-> ph]
<1>1. Len(<<>>) = 0 /\ st \in [0 .. 0 -> Phase] /\ st[0] = ph /\ \A i \in 1 .. 0 : FALSE
  OBVIOUS
<1> HIDE DEF st
<1> QED
  BY <1>1 DEF Leads

\* What is sent behind the rest leads on.
LEMMA LeadsOn ==
  ASSUME NEW S, NEW q \in Seq(S), NEW r \in Seq(S), NEW a, NEW b, NEW c,
         Leads(q, a, b), Leads(r, b, c)
  PROVE  Leads(q \o r, a, c)
<1>1. PICK st \in [0 .. Len(q) -> Phase] :
        /\ st[0] = a /\ st[Len(q)] = b
        /\ \A i \in 1 .. Len(q) : <<q[i], st[i]>> \in NextBytes(st[i - 1])
  BY DEF Leads
<1>2. PICK su \in [0 .. Len(r) -> Phase] :
        /\ su[0] = b /\ su[Len(r)] = c
        /\ \A i \in 1 .. Len(r) : <<r[i], su[i]>> \in NextBytes(su[i - 1])
  BY DEF Leads
<1> DEFINE n == Len(q)
           k == Len(r)
           all == q \o r
           sv == [i \in 0 .. n + k |-> IF i <= n THEN st[i] ELSE su[i - n]]
<1>3. n \in Nat /\ k \in Nat /\ Len(all) = n + k
  OBVIOUS
<1>4. /\ \A i \in 1 .. n : all[i] = q[i]
      /\ \A i \in 1 .. k : all[n + i] = r[i]
  OBVIOUS
<1> HIDE DEF n, k, all
<1>5. sv \in [0 .. n + k -> Phase]
  <2> SUFFICES ASSUME NEW i \in 0 .. n + k
               PROVE  (IF i <= n THEN st[i] ELSE su[i - n]) \in Phase
    OBVIOUS
  <2>1. i <= n => i \in 0 .. n
    BY <1>3
  <2>2. ~(i <= n) => i - n \in 0 .. k
    BY <1>3
  <2> QED
    BY <1>1, <1>2, <2>1, <2>2 DEF n, k
<1>6. sv[0] = a
  BY <1>1, <1>3
<1>7. sv[n + k] = c
  <2>1. CASE k = 0
    <3>1. n + k \in 0 .. n + k /\ n + k <= n /\ n + k = n
      BY <1>3, <2>1
    <3> QED
      BY <1>1, <1>2, <2>1, <3>1 DEF n, k
  <2>2. CASE k # 0
    <3>1. n + k \in 0 .. n + k /\ ~(n + k <= n) /\ n + k - n = k
      BY <1>3, <2>2
    <3>2. sv[n + k] = IF n + k <= n THEN st[n + k] ELSE su[n + k - n]
      BY <3>1
    <3> HIDE DEF sv
    <3>3. sv[n + k] = su[k]
      BY <3>1, <3>2, Zenon
    <3> QED
      BY <1>2, <3>3 DEF k
  <2> QED
    BY <2>1, <2>2
<1>8. ASSUME NEW i \in 1 .. n + k
      PROVE  <<all[i], sv[i]>> \in NextBytes(sv[i - 1])
  <2>1. CASE i <= n
    <3>1. i \in 1 .. n /\ i \in 0 .. n + k /\ i - 1 \in 0 .. n + k /\ i - 1 <= n
      BY <1>3, <2>1
    <3>2. sv[i] = st[i] /\ sv[i - 1] = st[i - 1] /\ all[i] = q[i]
      BY <1>4, <2>1, <3>1
    <3> HIDE DEF sv
    <3> QED
      BY <1>1, <3>1, <3>2 DEF n
  <2>2. CASE i = n + 1
    <3>1. /\ 1 \in 1 .. k /\ i \in 0 .. n + k /\ ~(i <= n) /\ i - n = 1
          /\ i - 1 \in 0 .. n + k /\ i - 1 <= n /\ i - 1 = n
      BY <1>3, <2>2
    <3>2. sv[i] = su[1] /\ sv[i - 1] = st[n] /\ all[i] = r[1]
      BY <1>4, <2>2, <3>1
    <3>3. st[n] = su[1 - 1]
      BY <1>1, <1>2 DEF n
    <3> HIDE DEF sv
    <3> QED
      BY <1>2, <3>1, <3>2, <3>3 DEF k
  <2>3. CASE i > n + 1
    <3> DEFINE j == i - n
    <3>1. /\ j \in 1 .. k /\ i \in 0 .. n + k /\ ~(i <= n) /\ n + j = i
          /\ i - 1 \in 0 .. n + k /\ ~(i - 1 <= n) /\ (i - 1) - n = j - 1
      BY <1>3, <2>3
    <3>2. sv[i] = su[j] /\ sv[i - 1] = su[j - 1]
      BY <3>1
    <3> HIDE DEF j, sv
    <3>3. all[i] = r[j]
      BY <1>4, <3>1
    <3> QED
      BY <1>2, <3>1, <3>2, <3>3 DEF k
  <2> QED
    BY <1>3, <2>1, <2>2, <2>3
<1> HIDE DEF sv
<1> QED
  BY <1>3, <1>5, <1>6, <1>7, <1>8 DEF Leads, all

\* One byte leads from a phase to what may come after it.
LEMMA LeadsByOne ==
  ASSUME NEW ph \in Phase, NEW b, NEW then, <<b, then>> \in NextBytes(ph)
  PROVE  then \in Phase /\ Leads(<<b>>, ph, then)
<1>1. then \in Phase
  BY NextIsPhase
<1> DEFINE st == [i \in 0 .. 1 |-> IF i = 0 THEN ph ELSE then]
<1>2. Len(<<b>>) = 1 /\ <<b>>[1] = b
  OBVIOUS
<1>3. st \in [0 .. 1 -> Phase] /\ st[0] = ph /\ st[1] = then
  BY <1>1
<1> HIDE DEF st
<1>4. \A i \in 1 .. 1 : i = 1 /\ i - 1 = 0
  OBVIOUS
<1>5. \A i \in 1 .. 1 : <<<<b>>[i], st[i]>> \in NextBytes(st[i - 1])
  BY <1>2, <1>3, <1>4
<1> QED
  BY <1>1, <1>2, <1>3, <1>5 DEF Leads

\* What is on the way begins with what its sender sent first.
LEMMA LeadsFromHead ==
  ASSUME NEW S, NEW q \in Seq(S), q # <<>>, NEW a, NEW c, Leads(q, a, c)
  PROVE  \E b \in Phase : a \in Phase /\ <<Head(q), b>> \in NextBytes(a) /\ Leads(Tail(q), b, c)
<1>1. PICK st \in [0 .. Len(q) -> Phase] :
        /\ st[0] = a /\ st[Len(q)] = c
        /\ \A i \in 1 .. Len(q) : <<q[i], st[i]>> \in NextBytes(st[i - 1])
  BY DEF Leads
<1> DEFINE n == Len(q)
           t == Tail(q)
           su == [i \in 0 .. n - 1 |-> st[i + 1]]
<1>2. /\ n \in Nat /\ n > 0 /\ Len(t) = n - 1 /\ Head(q) = q[1]
      /\ \A i \in 1 .. n - 1 : t[i] = q[i + 1]
  OBVIOUS
<1> HIDE DEF n, t
<1>3. 0 \in 0 .. n /\ 1 \in 0 .. n /\ 1 \in 1 .. n /\ 1 - 1 = 0
  BY <1>2
<1>4. a \in Phase /\ st[1] \in Phase /\ <<Head(q), st[1]>> \in NextBytes(a)
  BY <1>1, <1>2, <1>3 DEF n
<1>5. su \in [0 .. n - 1 -> Phase]
  <2>1. \A i \in 0 .. n - 1 : i + 1 \in 0 .. n
    BY <1>2
  <2> QED
    BY <1>1, <2>1 DEF n
<1>6. su[0] = st[1] /\ su[n - 1] = c
  <2>1. 0 \in 0 .. n - 1 /\ n - 1 \in 0 .. n - 1 /\ n - 1 + 1 = n /\ 0 + 1 = 1
    BY <1>2
  <2> QED
    BY <1>1, <2>1 DEF n
<1>7. ASSUME NEW i \in 1 .. n - 1
      PROVE  <<t[i], su[i]>> \in NextBytes(su[i - 1])
  <2>1. /\ i \in 0 .. n - 1 /\ i - 1 \in 0 .. n - 1 /\ (i - 1) + 1 = i
        /\ i + 1 \in 1 .. n /\ (i + 1) - 1 = i
    BY <1>2
  <2>2. su[i] = st[i + 1] /\ su[i - 1] = st[i] /\ t[i] = q[i + 1]
    BY <1>2, <2>1
  <2> HIDE DEF su
  <2> QED
    BY <1>1, <2>1, <2>2 DEF n
<1> HIDE DEF su
<1>8. Leads(t, st[1], c)
  BY <1>2, <1>5, <1>6, <1>7 DEF Leads
<1> QED
  BY <1>4, <1>8 DEF t

\* A block leads from the end of an interval to the next one.
LEMMA BlockLeads ==
  ASSUME NEW ph \in Phase, ph.left = 0, ph.rest = 0,
         NEW meta \in Metadata, UnitsOf(meta) < LenBytes
  PROVE  LET after == [left |-> Metaint, rest |-> 0, says |-> meta]
         IN  after \in Phase /\ Leads(Block(meta), ph, after)
<1> DEFINE u == UnitsOf(meta)
           size == u * UnitBytes
           at == [j \in 0 .. size + 1 |->
                    IF j = 0 THEN ph
                    ELSE [left |-> Metaint, rest |-> size + 1 - j, says |-> meta]]
           payload == [k \in 1 .. size |-> PayloadByte(meta, size - k)]
<1>1. u \in Nat /\ size \in Nat /\ u % LenBytes = u
  BY RoomOf, PayloadSize, IcyConstants
<1>2. <<LengthByte(u), [left |-> Metaint, rest |-> size, says |-> meta]>> \in NextBytes(ph)
  BY IcyConstants DEF NextBytes
<1>3. Block(meta) = <<LengthByte(u)>> \o payload
  BY <1>1 DEF Block
<1> HIDE DEF u, size
<1>4. /\ payload \in Seq({PayloadByte(meta, n) : n \in Nat}) /\ Len(payload) = size
      /\ \A k \in 1 .. size : payload[k] = PayloadByte(meta, size - k)
  <2>1. \A k \in 1 .. size : size - k \in Nat
    BY <1>1
  <2> QED
    BY <1>1, <2>1
<1> HIDE DEF payload
<1> DEFINE bytes == <<LengthByte(u)>> \o payload
<1>5. /\ Len(bytes) = size + 1 /\ bytes[1] = LengthByte(u)
      /\ \A k \in 1 .. size : bytes[k + 1] = payload[k]
  BY <1>1, <1>4
<1> HIDE DEF bytes
<1>6. \A r \in 0 .. size : [left |-> Metaint, rest |-> r, says |-> meta] \in Phase
  BY <1>1, IcyConstants DEF Phase
<1>7. at \in [0 .. size + 1 -> Phase]
  <2>1. \A j \in 0 .. size + 1 : j # 0 => size + 1 - j \in 0 .. size
    BY <1>1
  <2> QED
    BY <1>6, <2>1
<1>8. /\ at[0] = ph
      /\ \A j \in 1 .. size + 1 : at[j] = [left |-> Metaint, rest |-> size + 1 - j, says |-> meta]
  BY <1>1
<1> HIDE DEF at
<1>9. at[size + 1] = [left |-> Metaint, rest |-> 0, says |-> meta]
  <2>1. size + 1 \in 1 .. size + 1 /\ size + 1 - (size + 1) = 0
    BY <1>1
  <2> QED
    BY <1>8, <2>1
<1>10. ASSUME NEW j \in 1 .. size + 1
       PROVE  <<bytes[j], at[j]>> \in NextBytes(at[j - 1])
  <2>1. CASE j = 1
    <3>1. j - 1 = 0 /\ size + 1 - j = size
      BY <1>1, <2>1
    <3> QED
      BY <1>2, <1>5, <1>8, <2>1, <3>1
  <2>2. CASE j # 1
    <3> DEFINE r == size + 1 - (j - 1)
    <3>1. /\ j - 1 \in 1 .. size /\ j - 1 \in 1 .. size + 1 /\ (j - 1) + 1 = j
          /\ r \in Nat /\ r > 0 /\ size + 1 - j = r - 1 /\ size - (j - 1) = r - 1
      BY <1>1, <2>2
    <3>2. at[j - 1] = [left |-> Metaint, rest |-> r, says |-> meta]
      BY <1>8, <3>1
    <3> HIDE DEF r
    <3>3. at[j] = [left |-> Metaint, rest |-> r - 1, says |-> meta]
      BY <1>8, <3>1
    <3>4. bytes[j] = PayloadByte(meta, r - 1)
      BY <1>4, <1>5, <3>1
    <3> DEFINE w == at[j - 1]
    <3>5. w.rest = r /\ w.says = meta /\ [w EXCEPT !.rest = @ - 1] = at[j]
      BY <3>2, <3>3
    <3> HIDE DEF w
    <3>6. <<bytes[j], at[j]>> \in NextBytes(w)
      BY <3>1, <3>4, <3>5 DEF NextBytes
    <3> QED
      BY <3>6 DEF w
  <2> QED
    BY <2>1, <2>2
<1>11. 0 \in 0 .. size /\ Len(bytes) = size + 1
  BY <1>1, <1>5
<1>12. Leads(bytes, ph, [left |-> Metaint, rest |-> 0, says |-> meta])
  BY <1>7, <1>8, <1>9, <1>10, <1>11 DEF Leads
<1> QED
  BY <1>3, <1>6, <1>11, <1>12 DEF bytes

\* Whatever is on the way, its two ends are phases.
LEMMA LeadsPhases ==
  ASSUME NEW S, NEW q \in Seq(S), NEW a, NEW c, Leads(q, a, c)
  PROVE  a \in Phase /\ c \in Phase
<1>1. 0 \in 0 .. Len(q) /\ Len(q) \in 0 .. Len(q)
  OBVIOUS
<1> QED
  BY <1>1 DEF Leads

LEMMA NextIsByte ==
  ASSUME NEW ph \in Phase, NEW next \in NextBytes(ph)
  PROVE  next = <<next[1], next[2]>> /\ next[1] \in Byte
<1>1. ph.rest \in Nat /\ ph.says \in Metadata
  BY DEF Phase
<1>2. CASE ph.rest > 0
  <2>1. next = <<PayloadByte(ph.says, ph.rest - 1), [ph EXCEPT !.rest = @ - 1]>>
    BY <1>2 DEF NextBytes
  <2>2. PayloadByte(ph.says, ph.rest - 1) \in Byte
    BY <1>1, <1>2 DEF PayloadByte, Byte
  <2> QED
    BY <2>1, <2>2
<1>3. CASE ~(ph.rest > 0) /\ ph.left > 0
  <2>1. next = <<Audio, [ph EXCEPT !.left = @ - 1]>>
    BY <1>3 DEF NextBytes
  <2>2. Audio \in Byte
    BY DEF Audio, Byte
  <2> QED
    BY <2>1, <2>2
<1>4. CASE ~(ph.rest > 0) /\ ~(ph.left > 0)
  <2>1. PICK meta \in Metadata :
          next = <<LengthByte(UnitsOf(meta)),
                   [left |-> Metaint, rest |-> UnitsOf(meta) * UnitBytes, says |-> meta]>>
    BY <1>4 DEF NextBytes
  <2>2. LengthByte(UnitsOf(meta)) \in Byte
    BY RoomOf DEF LengthByte, Byte
  <2> QED
    BY <2>1, <2>2
<1> QED
  BY <1>2, <1>3, <1>4

LEMMA BlockBytes ==
  ASSUME NEW meta \in Metadata
  PROVE  Block(meta) \in Seq(Byte)
<1> DEFINE u == UnitsOf(meta)
           size == u * UnitBytes
           payload == [k \in 1 .. size |-> PayloadByte(meta, size - k)]
<1>1. u \in Nat /\ size \in Nat /\ u % LenBytes \in Nat
  BY RoomOf, PayloadSize, IcyConstants
<1>2. Block(meta) = <<LengthByte(u % LenBytes)>> \o payload
  BY DEF Block
<1> HIDE DEF u, size
<1>3. \A k \in 1 .. size : PayloadByte(meta, size - k) \in Byte
  BY <1>1 DEF PayloadByte, Byte
<1>4. payload \in Seq(Byte)
  BY <1>1, <1>3
<1>5. LengthByte(u % LenBytes) \in Byte
  BY <1>1 DEF LengthByte, Byte
<1> HIDE DEF payload
<1> QED
  BY <1>2, <1>4, <1>5

LEMMA FeedByteParses ==
  ASSUME NEW p \in Parser, NEW b \in Byte
  PROVE  FeedByte(p, b) \in Parser
<1> DEFINE as == Takes(p)
<1>1. /\ p \in [remaining_audio : 0 .. Metaint, meta_len : Nat, lost : BOOLEAN]
      /\ Fresh \in Parser
  BY FreshCounts DEF Parser
<1>2. as = "audio" \/ as = "length" \/ as = "payload"
  BY DEF Takes
<1>3. CASE as = "audio"
  <2>1. FeedByte(p, b) = [p EXCEPT !.remaining_audio = @ - 1]
    BY <1>3 DEF FeedByte
  <2>2. p.remaining_audio - 1 \in 0 .. Metaint
    BY <1>1, <1>3, IcyConstants DEF Takes
  <2> QED
    BY <1>1, <2>1, <2>2 DEF Parser
<1>4. CASE as # "audio" /\ (p.lost \/ b.is # as)
  <2>1. FeedByte(p, b) = [p EXCEPT !.lost = TRUE]
    BY <1>4 DEF FeedByte
  <2> QED
    BY <1>1, <2>1 DEF Parser
<1>5. CASE as = "length" /\ ~(p.lost \/ b.is # as)
  <2>1. FeedByte(p, b) =
          IF b.units = 0 THEN Fresh ELSE [p EXCEPT !.meta_len = b.units * UnitBytes]
    BY <1>1, <1>5 DEF FeedByte
  <2>2. b.units \in Nat
    BY <1>5 DEF Byte
  <2>3. b.units * UnitBytes \in Nat
    BY <2>2, PayloadSize
  <2> QED
    BY <1>1, <2>1, <2>3 DEF Parser
<1>6. CASE as = "payload" /\ ~(p.lost \/ b.is # as)
  <2>1. FeedByte(p, b) = IF p.meta_len = 1 THEN Fresh ELSE [p EXCEPT !.meta_len = @ - 1]
    BY <1>1, <1>6 DEF FeedByte
  <2>2. p.meta_len > 0
    BY <1>6 DEF Takes
  <2>3. p.meta_len - 1 \in Nat
    BY <1>1, <2>2
  <2> QED
    BY <1>1, <2>1, <2>3 DEF Parser
<1> QED
  BY <1>2, <1>3, <1>4, <1>5, <1>6

-----------------------------------------------------------------------------
(* In-stream metadata: both ends *)

\* Where the read loop is.  At most one block ends in a read: what is left of
\* it behind the block is less than the interval.
ReadOK ==
  /\ reader # "feed" => pending = 0 /\ said = metadata
  /\ reader = "feed" => said = Updated(metadata, parsed)
  /\ reader = "read" => audio = <<>> /\ parsed = Nothing
  /\ reader = "feed" /\ parsed # Nothing =>
       parser.meta_len = 0 /\ pending < parser.remaining_audio

\* What the source has sent leads from where the parser is to where it is.
SourceFollowed == \E ph \in Phase : InPhase(parser, ph) /\ Leads(wire, ph, encoder)

\* What was written leads from where the listener is to where the inserter is.
ListenerFollowed ==
  \E ph, to \in Phase :
    /\ InPhase(client, ph) /\ Leads(line, ph, to)
    /\ to.rest = 0 /\ to.left = inserter.remaining_audio

\* Nothing is inserted for a listener that did not ask for it.
NoBlocksUnasked ==
  /\ joined # "icy" => inserter = NewInserter /\ writing.data = <<>> /\ line = <<>>
  /\ joined = "no" => ~adrift

StripInv == ReadOK /\ AudioClean /\ SourceFollowed
HearInv == NoBlocksUnasked /\ (~adrift => ~misheard /\ ListenerFollowed)

IcyInv == IcyTypeOK /\ StripInv /\ HearInv

\* At the start of an interval both ends count alike.
LEMMA StartInPhase ==
  ASSUME NEW meta \in Metadata
  PROVE  LET ph == [left |-> Metaint, rest |-> 0, says |-> meta]
         IN  ph \in Phase /\ InPhase(Fresh, ph) /\ Leads(<<>>, ph, ph)
<1> DEFINE ph == [left |-> Metaint, rest |-> 0, says |-> meta]
<1>1. ph \in Phase
  BY IcyConstants DEF Phase
<1>2. InPhase(Fresh, ph)
  BY FreshCounts DEF InPhase
<1> HIDE DEF ph
<1>3. Leads(<<>>, ph, ph)
  BY <1>1, LeadsNowhere
<1> QED
  BY <1>1, <1>2, <1>3 DEF ph

LEMMA IcyInitInv == IcyInit => IcyInv
<1> SUFFICES ASSUME IcyInit PROVE IcyInv
  OBVIOUS
<1>1. NewEncoder = [left |-> Metaint, rest |-> 0, says |-> Nothing] /\ Nothing \in Metadata
  BY NothingIsMetadata DEF NewEncoder
<1>2. SourceFollowed
  BY <1>1, StartInPhase DEF SourceFollowed, IcyInit
<1>3. ListenerFollowed
  <2>1. inserter.remaining_audio = Metaint /\ client = Fresh /\ line = <<>>
    BY DEF IcyInit, NewInserter
  <2> DEFINE ph == [left |-> Metaint, rest |-> 0, says |-> Nothing]
  <2>2. ph \in Phase /\ InPhase(Fresh, ph) /\ Leads(<<>>, ph, ph) /\ ph.rest = 0 /\ ph.left = Metaint
    BY <1>1, StartInPhase
  <2> HIDE DEF ph
  <2> QED
    BY <2>1, <2>2 DEF ListenerFollowed
<1>4. IcyTypeOK
  <2>1. encoder \in [left : 0 .. Metaint, rest : Nat, says : Metadata]
    BY <1>1, IcyConstants DEF IcyInit
  <2>2. parser \in Parser /\ ~parser.lost /\ client \in Parser
    BY FreshCounts DEF IcyInit
  <2>3. {parsed, metadata, said} \subseteq Metadata
    BY <1>1 DEF IcyInit
  <2>4. writing \in [data : Seq({Audio}), meta : Metadata]
    BY <1>1 DEF IcyInit, NoWrite
  <2>5. inserter \in [remaining_audio : 0 .. Metaint, last : Metadata]
    BY <1>1, IcyConstants DEF IcyInit, NewInserter
  <2>6. /\ {wire, line} \subseteq Seq(Byte) /\ {audio, clean, unread} \subseteq Seq({Audio})
        /\ Len(wire) = 0 /\ Len(unread) = 0
    BY DEF IcyInit
  <2>7. Len(wire) <= ReadSize /\ pending \in 0 .. Len(wire) /\ Len(unread) <= MaxUnread
    BY <2>6, IcyConstants, IcyAssumption DEF IcyInit
  <2>8. /\ reader \in {"read", "feed", "store"} /\ joined \in {"no", "plain", "icy"}
        /\ misheard \in BOOLEAN /\ adrift \in BOOLEAN
    BY DEF IcyInit
  <2> QED
    BY <2>1, <2>2, <2>3, <2>4, <2>5, <2>6, <2>7, <2>8 DEF IcyTypeOK
<1>5. ReadOK /\ AudioClean /\ NoBlocksUnasked
  BY DEF IcyInit, ReadOK, AudioClean, NoBlocksUnasked, NoWrite
<1> QED
  BY <1>2, <1>3, <1>4, <1>5 DEF IcyInit, IcyInv, StripInv, HearInv

\* A step of one end leaves what is on the way at the other.
LEMMA SourceRests == StripInv /\ UNCHANGED sourceVars => StripInv'
BY DEF StripInv, sourceVars, ReadOK, AudioClean, SourceFollowed

LEMMA ListenerRests == HearInv /\ UNCHANGED listenerVars => HearInv'
BY DEF HearInv, listenerVars, NoBlocksUnasked, ListenerFollowed

LEMMA EncodeInv == IcyInv /\ Encode => IcyInv'
<1> SUFFICES ASSUME IcyInv, Encode PROVE IcyInv'
  OBVIOUS
<1>1. PICK next \in NextBytes(encoder) : wire' = Append(wire, next[1]) /\ encoder' = next[2]
  BY DEF Encode
<1>2. PICK ph \in Phase : InPhase(parser, ph) /\ Leads(wire, ph, encoder)
  BY DEF IcyInv, StripInv, SourceFollowed
<1>3. wire \in Seq(Byte) /\ Len(wire) < ReadSize
  BY DEF IcyInv, IcyTypeOK, Encode
<1>4. encoder \in Phase
  BY <1>2, <1>3, LeadsPhases
<1>5. next = <<next[1], next[2]>> /\ next[1] \in Byte
  BY <1>4, NextIsByte
<1>6. next[2] \in Phase /\ Leads(<<next[1]>>, encoder, next[2])
  BY <1>4, <1>5, LeadsByOne
<1>7. wire' = wire \o <<next[1]>> /\ wire' \in Seq(Byte) /\ Len(wire') = Len(wire) + 1
  BY <1>1, <1>3, <1>5
<1>8. Leads(wire', ph, encoder')
  <2>1. <<next[1]>> \in Seq(Byte)
    BY <1>5
  <2> QED
    BY <1>1, <1>2, <1>3, <1>6, <1>7, <2>1, LeadsOn
<1>9. StripInv'
  <2>1. SourceFollowed'
    BY <1>2, <1>8 DEF SourceFollowed, Encode
  <2> QED
    BY <2>1 DEF IcyInv, StripInv, ReadOK, AudioClean, Encode
<1>10. IcyTypeOK'
  <2>1. encoder' \in [left : 0 .. Metaint, rest : Nat, says : Metadata]
    BY <1>1, <1>6 DEF Phase
  <2>2. Len(wire') <= ReadSize /\ pending' \in 0 .. Len(wire')
    BY <1>3, <1>7, IcyConstants DEF IcyInv, IcyTypeOK, Encode
  <2> QED
    BY <1>7, <2>1, <2>2 DEF IcyInv, IcyTypeOK, Encode, listenerVars
<1>11. HearInv'
  BY ListenerRests DEF IcyInv, Encode
<1> QED
  BY <1>9, <1>10, <1>11 DEF IcyInv

LEMMA ReadSourceInv ==
  ASSUME IcyInv, NEW n \in 1 .. ReadSize, ReadSource(n)
  PROVE  IcyInv'
<1>1. StripInv'
  <2>1. said = Updated(metadata, Nothing) /\ parsed = Nothing
    BY UpdatedByNothing DEF IcyInv, IcyTypeOK, StripInv, ReadOK, ReadSource
  <2>2. ReadOK'
    BY <2>1 DEF ReadOK, ReadSource
  <2> QED
    BY <2>2 DEF IcyInv, StripInv, AudioClean, SourceFollowed, ReadSource
<1>2. IcyTypeOK'
  <2>1. pending' \in 0 .. Len(wire')
    BY IcyConstants DEF IcyInv, IcyTypeOK, ReadSource
  <2> QED
    BY <2>1 DEF IcyInv, IcyTypeOK, ReadSource, listenerVars
<1> QED
  BY <1>1, <1>2, ListenerRests DEF IcyInv, ReadSource

LEMMA FeedNextInv == IcyInv /\ FeedNext => IcyInv'
<1> SUFFICES ASSUME IcyInv, FeedNext PROVE IcyInv'
  OBVIOUS
<1> DEFINE b == Head(wire)
           ends == parser.meta_len = 1 /\ b.is = "payload"
<1>1. /\ wire \in Seq(Byte) /\ Len(wire) <= ReadSize /\ pending \in 1 .. Len(wire)
      /\ {parsed, metadata, said} \subseteq Metadata /\ {audio, clean} \subseteq Seq({Audio})
      /\ reader = "feed"
  BY DEF IcyInv, IcyTypeOK, FeedNext
<1>2. /\ wire # <<>> /\ b \in Byte /\ wire' = Tail(wire) /\ wire' \in Seq(Byte)
      /\ Len(wire') = Len(wire) - 1 /\ pending' = pending - 1
  BY <1>1 DEF FeedNext
<1>3. PICK ph \in Phase : InPhase(parser, ph) /\ Leads(wire, ph, encoder)
  BY DEF IcyInv, StripInv, SourceFollowed
<1>4. PICK then \in Phase : <<b, then>> \in NextBytes(ph) /\ Leads(wire', then, encoder)
  BY <1>1, <1>2, <1>3, LeadsFromHead
<1>5. /\ InPhase(parser', then)
      /\ Takes(parser) = b.is
      /\ b.is = "audio" => b = Audio
      /\ b.is = "payload" => b.says \in Metadata
      /\ ends <=> (b.is = "payload" /\ b.rest = 0)
      /\ b.is = "audio" => /\ parser'.remaining_audio = parser.remaining_audio - 1
                           /\ parser'.meta_len = 0
      /\ parser.meta_len = 1 => parser'.remaining_audio = Metaint /\ parser'.meta_len = 0
  BY <1>3, <1>4, FeedInPhase DEF FeedNext
<1>6. /\ audio' = (IF Takes(parser) = "audio" THEN Append(audio, b) ELSE audio)
      /\ clean' = (IF b.is = "audio" THEN Append(clean, b) ELSE clean)
      /\ parsed' = (IF ends THEN parse_icy_metadata(b.says) ELSE parsed)
      /\ said' = (IF b.is = "payload" /\ b.rest = 0
                  THEN Updated(said, parse_icy_metadata(b.says)) ELSE said)
      /\ UNCHANGED <<encoder, reader, metadata, unread, listenerVars>>
  BY DEF FeedNext
<1>7. /\ reader = "feed" => said = Updated(metadata, parsed)
      /\ parsed # Nothing => parser.meta_len = 0 /\ pending < parser.remaining_audio
      /\ parser.remaining_audio \in Nat /\ audio = clean
  BY <1>1 DEF IcyInv, IcyTypeOK, Parser, StripInv, ReadOK, AudioClean
<1> HIDE DEF b, ends
<1>8. audio' = clean' /\ {audio', clean'} \subseteq Seq({Audio})
  <2>1. CASE b.is = "audio"
    <3>1. audio' = Append(audio, Audio) /\ clean' = Append(clean, Audio)
      BY <1>5, <1>6, <2>1
    <3> QED
      BY <1>1, <1>7, <3>1
  <2>2. CASE b.is # "audio"
    BY <1>1, <1>5, <1>6, <1>7, <2>2
  <2> QED
    BY <2>1, <2>2
<1>9. /\ said' = Updated(metadata, parsed') /\ {parsed', said'} \subseteq Metadata
      /\ parsed' # Nothing => parser'.meta_len = 0 /\ pending' < parser'.remaining_audio
  <2>1. CASE ends
    <3>1. parsed = Nothing
      <4>1. parser.meta_len = 1
        BY <2>1 DEF ends
      <4> QED
        BY <1>7, <4>1
    <3>2. said = metadata
      BY <1>1, <1>7, <3>1, UpdatedByNothing
    <3>3. /\ parsed' = parse_icy_metadata(b.says) /\ said' = Updated(metadata, parse_icy_metadata(b.says))
          /\ parse_icy_metadata(b.says) \in Metadata
      BY <1>5, <1>6, <2>1, <3>2, ParsedIsMetadata
    <3>4. Updated(metadata, parse_icy_metadata(b.says)) \in Metadata
      BY <1>1, <3>3, UpdatedIsMetadata
    <3>5. parser'.remaining_audio = Metaint /\ parser'.meta_len = 0
      BY <1>5, <2>1 DEF ends
    <3>6. pending' < Metaint
      BY <1>1, <1>2, IcyConstants
    <3> QED
      BY <3>3, <3>4, <3>5, <3>6
  <2>2. CASE ~ends
    <3>1. parsed' = parsed /\ said' = said
      BY <1>5, <1>6, <2>2
    <3>2. ASSUME parsed # Nothing
          PROVE  parser'.meta_len = 0 /\ pending' < parser'.remaining_audio
      <4>1. parser.meta_len = 0 /\ pending < parser.remaining_audio
        BY <1>7, <3>2
      <4>2. b.is = "audio"
        BY <1>1, <1>5, <1>7, <4>1 DEF Takes
      <4> QED
        BY <1>1, <1>2, <1>5, <1>7, <4>1, <4>2
    <3> QED
      BY <1>1, <1>7, <3>1, <3>2
  <2> QED
    BY <2>1, <2>2
<1>10. StripInv'
  <2>1. ReadOK'
    BY <1>1, <1>6, <1>9 DEF ReadOK
  <2>2. SourceFollowed'
    BY <1>4, <1>5, <1>6 DEF SourceFollowed
  <2> QED
    BY <1>8, <2>1, <2>2 DEF StripInv, AudioClean
<1>11. IcyTypeOK'
  <2>1. parser' \in Parser /\ ~parser'.lost
    BY <1>5 DEF InPhase
  <2>2. Len(wire') <= ReadSize /\ pending' \in 0 .. Len(wire')
    BY <1>1, <1>2, IcyConstants
  <2> QED
    BY <1>2, <1>6, <1>8, <1>9, <2>1, <2>2 DEF IcyInv, IcyTypeOK, listenerVars
<1> QED
  BY <1>6, <1>10, <1>11, ListenerRests DEF IcyInv

LEMMA StoreTitleInv == IcyInv /\ StoreTitle => IcyInv'
<1> SUFFICES ASSUME IcyInv, StoreTitle PROVE IcyInv'
  OBVIOUS
<1>1. said = Updated(metadata, parsed) /\ metadata' = said /\ metadata' \in Metadata
  BY DEF IcyInv, IcyTypeOK, StripInv, ReadOK, StoreTitle
<1>2. StripInv'
  BY <1>1 DEF IcyInv, StripInv, ReadOK, AudioClean, SourceFollowed, StoreTitle
<1>3. IcyTypeOK'
  BY <1>1 DEF IcyInv, IcyTypeOK, StoreTitle, listenerVars
<1> QED
  BY <1>2, <1>3, ListenerRests DEF IcyInv, StoreTitle

LEMMA StoreAudioInv == IcyInv /\ StoreAudio => IcyInv'
<1> SUFFICES ASSUME IcyInv, StoreAudio PROVE IcyInv'
  OBVIOUS
<1>1. unread' \in Seq({Audio}) /\ Len(unread') <= MaxUnread
  BY DEF IcyInv, IcyTypeOK, StoreAudio
<1>2. StripInv'
  BY DEF IcyInv, StripInv, ReadOK, AudioClean, SourceFollowed, StoreAudio
<1>3. IcyTypeOK'
  <2>1. parsed' \in Metadata /\ {audio', clean'} \subseteq Seq({Audio})
    BY NothingIsMetadata DEF StoreAudio
  <2> QED
    BY <1>1, <2>1 DEF IcyInv, IcyTypeOK, StoreAudio, listenerVars
<1> QED
  BY <1>2, <1>3, ListenerRests DEF IcyInv, StoreAudio

LEMMA AudioIsByte == Audio \in Byte
BY DEF Audio, Byte

LEMMA JoinInv ==
  ASSUME IcyInv, NEW k \in 0 .. MaxIntro, Join(k)
  PROVE  IcyInv'
<1>1. /\ inserter = NewInserter /\ writing.data = <<>> /\ line = <<>>
      /\ UNCHANGED <<writing, inserter, client, misheard>>
  BY DEF IcyInv, HearInv, NoBlocksUnasked, Join
<1>2. line' \in Seq(Byte)
  <2>1. [i \in 1 .. k |-> Audio] \in Seq(Byte)
    BY AudioIsByte, IcyConstants
  <2> QED
    BY <2>1 DEF Join
<1>3. HearInv'
  <2>1. NoBlocksUnasked'
    BY <1>1 DEF NoBlocksUnasked, Join
  <2>2. ASSUME ~adrift' PROVE line' = line /\ ~adrift
    <3>1. joined' = "icy" => k = 0
      <4>1. adrift' = (joined' = "icy" /\ k > 0)
        BY DEF Join
      <4>2. joined' = "icy" => ~(k > 0)
        BY <2>2, <4>1
      <4> QED
        BY <4>2, IcyConstants
    <3>2. [i \in 1 .. 0 |-> Audio] = <<>>
      OBVIOUS
    <3>3. line' = <<>>
      BY <3>1, <3>2 DEF Join
    <3>4. ~adrift
      BY DEF IcyInv, HearInv, NoBlocksUnasked, Join
    <3> QED
      BY <1>1, <3>3, <3>4
  <2>3. ~adrift' => ~misheard' /\ ListenerFollowed'
    BY <1>1, <2>2 DEF IcyInv, HearInv, ListenerFollowed
  <2> QED
    BY <2>1, <2>3 DEF HearInv
<1>4. IcyTypeOK'
  <2>1. /\ joined' \in {"no", "plain", "icy"} /\ adrift' \in BOOLEAN
        /\ unread' \in Seq({Audio}) /\ Len(unread') <= MaxUnread
    BY IcyAssumption DEF Join
  <2> QED
    BY <1>1, <1>2, <2>1 DEF IcyInv, IcyTypeOK, Join, sourceVars
<1> QED
  BY <1>3, <1>4, SourceRests DEF IcyInv, Join

LEMMA ListenInv == IcyInv /\ Listen => IcyInv'
<1> SUFFICES ASSUME IcyInv, Listen PROVE IcyInv'
  OBVIOUS
<1>1. HearInv'
  BY DEF IcyInv, HearInv, NoBlocksUnasked, ListenerFollowed, Listen
<1>2. IcyTypeOK'
  <2>1. writing' \in [data : Seq({Audio}), meta : Metadata]
    BY DEF IcyInv, IcyTypeOK, Listen
  <2>2. unread' \in Seq({Audio}) /\ Len(unread') <= MaxUnread
    BY IcyAssumption DEF Listen
  <2> QED
    BY <2>1, <2>2 DEF IcyInv, IcyTypeOK, Listen, sourceVars
<1> QED
  BY <1>1, <1>2, SourceRests DEF IcyInv, Listen

\* The block that is due ends the interval and begins the next, unless it is
\* longer than its length byte can say.
LEMMA InsertedLeads ==
  ASSUME NEW to \in Phase, to.rest = 0, to.left = 0, NEW meta \in Metadata, NEW ins,
         Unchanged(ins, meta) \/ UnitsOf(meta) < LenBytes
  PROVE  \E after \in Phase :
           /\ Leads(InsertedBlock(ins, meta), to, after)
           /\ after.rest = 0 /\ after.left = Metaint
<1>1. CASE Unchanged(ins, meta)
  <2>1. UnitsOf(Nothing) = 0
    BY DEF UnitsOf, Room, Nothing
  <2> DEFINE after == [left |-> Metaint, rest |-> 0, says |-> Nothing]
  <2>2. 0 * UnitBytes = 0 /\ 0 < LenBytes
    BY IcyConstants
  <2>3. <<LengthByte(0), after>> \in NextBytes(to)
    BY <2>1, <2>2, NothingIsMetadata DEF NextBytes
  <2>4. after.rest = 0 /\ after.left = Metaint
    OBVIOUS
  <2> HIDE DEF after
  <2>5. after \in Phase /\ Leads(<<LengthByte(0)>>, to, after)
    BY <2>3, LeadsByOne
  <2> QED
    BY <1>1, <2>4, <2>5 DEF InsertedBlock
<1>2. CASE ~Unchanged(ins, meta)
  <2> DEFINE after == [left |-> Metaint, rest |-> 0, says |-> meta]
  <2>1. after \in Phase /\ Leads(Block(meta), to, after)
    BY <1>2, BlockLeads
  <2>2. after.rest = 0 /\ after.left = Metaint
    OBVIOUS
  <2> HIDE DEF after
  <2> QED
    BY <1>2, <2>1, <2>2 DEF InsertedBlock
<1> QED
  BY <1>1, <1>2

LEMMA WriteNextInv == IcyInv /\ WriteNext => IcyInv'
<1> SUFFICES ASSUME IcyInv, WriteNext PROVE IcyInv'
  OBVIOUS
<1>1. /\ writing \in [data : Seq({Audio}), meta : Metadata] /\ writing.data # <<>>
      /\ inserter \in [remaining_audio : 0 .. Metaint, last : Metadata]
      /\ line \in Seq(Byte) /\ joined = "icy" /\ joined' = joined
      /\ ~adrift => ~misheard /\ ListenerFollowed
      /\ UNCHANGED <<sourceVars, unread, client, misheard>> /\ adrift \in BOOLEAN
  BY DEF IcyInv, IcyTypeOK, HearInv, NoBlocksUnasked, WriteNext
<1> DEFINE meta == writing.meta
<1>2. ASSUME NEW more \in Seq(Byte), line' = line \o more, ~adrift' => ~adrift,
             adrift' \in BOOLEAN,
             writing' \in [data : Seq({Audio}), meta : Metadata],
             inserter' \in [remaining_audio : 0 .. Metaint, last : Metadata],
             \A to \in Phase :
               ~adrift' /\ to.rest = 0 /\ to.left = inserter.remaining_audio =>
                 \E after \in Phase :
                   /\ Leads(more, to, after)
                   /\ after.rest = 0 /\ after.left = inserter'.remaining_audio
      PROVE  IcyInv'
  <2>1. line' \in Seq(Byte)
    BY <1>1, <1>2
  <2>2. ASSUME ~adrift' PROVE ListenerFollowed'
    <3>1. PICK ph \in Phase, to \in Phase :
            /\ InPhase(client, ph) /\ Leads(line, ph, to)
            /\ to.rest = 0 /\ to.left = inserter.remaining_audio
      BY <1>1, <1>2, <2>2 DEF ListenerFollowed
    <3>2. PICK after \in Phase :
            /\ Leads(more, to, after)
            /\ after.rest = 0 /\ after.left = inserter'.remaining_audio
      BY <1>2, <2>2, <3>1
    <3>3. Leads(line', ph, after)
      BY <1>1, <1>2, <3>1, <3>2, LeadsOn
    <3> QED
      BY <1>1, <3>1, <3>2, <3>3 DEF ListenerFollowed
  <2>3. HearInv'
    BY <1>1, <1>2, <2>2 DEF HearInv, NoBlocksUnasked
  <2>4. IcyTypeOK'
    BY <1>1, <1>2, <2>1 DEF IcyInv, IcyTypeOK, sourceVars
  <2> QED
    BY <1>1, <2>3, <2>4, SourceRests DEF IcyInv
<1>3. CASE inserter.remaining_audio = 0
  <2> DEFINE more == InsertedBlock(inserter, meta)
  <2>1. /\ line' = line \o more /\ inserter' = [remaining_audio |-> Metaint, last |-> meta]
        /\ adrift' = (adrift \/ (~Unchanged(inserter, meta) /\ UnitsOf(meta) >= LenBytes))
        /\ writing' = writing /\ meta \in Metadata
    BY <1>1, <1>3 DEF WriteNext
  <2>2. more \in Seq(Byte)
    <3>1. <<LengthByte(0)>> \in Seq(Byte)
      BY DEF LengthByte, Byte
    <3> QED
      BY <2>1, <3>1, BlockBytes DEF InsertedBlock
  <2>3. /\ inserter' \in [remaining_audio : 0 .. Metaint, last : Metadata]
        /\ inserter'.remaining_audio = Metaint
    BY <2>1, IcyConstants
  <2> HIDE DEF meta
  <2>4. ~adrift' => Unchanged(inserter, meta) \/ UnitsOf(meta) < LenBytes
    <3>1. UnitsOf(meta) \in Nat
      BY <2>1, RoomOf
    <3>2. UnitsOf(meta) >= LenBytes \/ UnitsOf(meta) < LenBytes
      BY <3>1, IcyConstants
    <3> QED
      BY <2>1, <3>2
  <2>5. ASSUME NEW to \in Phase, ~adrift', to.rest = 0, to.left = inserter.remaining_audio
        PROVE  \E after \in Phase :
                   /\ Leads(more, to, after)
                   /\ after.rest = 0 /\ after.left = inserter'.remaining_audio
    <3>1. \E after \in Phase :
            Leads(more, to, after) /\ after.rest = 0 /\ after.left = Metaint
      BY <1>3, <2>1, <2>4, <2>5, InsertedLeads
    <3> QED
      BY <2>3, <3>1
  <2>6. (~adrift' => ~adrift) /\ adrift' \in BOOLEAN
    BY <1>1, <2>1
  <2> HIDE DEF more
  <2> QED
    BY <1>1, <1>2, <2>1, <2>2, <2>3, <2>5, <2>6
<1>4. CASE inserter.remaining_audio # 0
  <2> DEFINE more == <<Audio>>
  <2>1. /\ line' = Append(line, Head(writing.data))
        /\ inserter' = [inserter EXCEPT !.remaining_audio = @ - 1]
        /\ writing' = [writing EXCEPT !.data = Tail(@)]
        /\ adrift' = adrift
    BY <1>4 DEF WriteNext
  <2>2. Head(writing.data) = Audio /\ Tail(writing.data) \in Seq({Audio})
    BY <1>1
  <2>3. more \in Seq(Byte) /\ line' = line \o more
    BY <1>1, <2>1, <2>2, AudioIsByte
  <2>4. /\ inserter' \in [remaining_audio : 0 .. Metaint, last : Metadata]
        /\ inserter'.remaining_audio = inserter.remaining_audio - 1
    <3>1. inserter.remaining_audio - 1 \in 0 .. Metaint
      BY <1>1, <1>4, IcyConstants
    <3> QED
      BY <1>1, <2>1, <3>1
  <2>5. writing' \in [data : Seq({Audio}), meta : Metadata]
    BY <1>1, <2>1, <2>2
  <2>6. ASSUME NEW to \in Phase, ~adrift', to.rest = 0, to.left = inserter.remaining_audio
        PROVE  \E after \in Phase :
                   /\ Leads(more, to, after)
                   /\ after.rest = 0 /\ after.left = inserter'.remaining_audio
    <3> DEFINE after == [to EXCEPT !.left = @ - 1]
    <3>1. to.left > 0 /\ to \in [left : 0 .. Metaint, rest : Nat, says : Metadata]
      BY <1>1, <1>4, <2>6, IcyConstants DEF Phase
    <3>2. <<Audio, after>> \in NextBytes(to)
      BY <2>6, <3>1 DEF NextBytes
    <3>3. after.rest = 0 /\ after.left = inserter'.remaining_audio
      BY <2>4, <2>6, <3>1
    <3> HIDE DEF after
    <3>4. after \in Phase /\ Leads(more, to, after)
      BY <3>2, LeadsByOne
    <3> QED
      BY <3>3, <3>4
  <2> HIDE DEF more
  <2> QED
    BY <1>1, <1>2, <2>1, <2>3, <2>4, <2>5, <2>6
<1> QED
  BY <1>3, <1>4

LEMMA HearNextInv == IcyInv /\ Hear => IcyInv'
<1> SUFFICES ASSUME IcyInv, Hear PROVE IcyInv'
  OBVIOUS
<1> DEFINE b == Head(line)
<1>1. /\ line \in Seq(Byte) /\ line # <<>> /\ b \in Byte /\ line' \in Seq(Byte)
      /\ client \in Parser /\ line' = Tail(line)
  BY DEF IcyInv, IcyTypeOK, Hear
<1>2. /\ client' = FeedByte(client, b) /\ misheard' = (misheard \/ Takes(client) # b.is)
      /\ UNCHANGED <<sourceVars, unread, joined, writing, inserter, adrift>>
  BY DEF Hear
<1> HIDE DEF b
<1>3. ASSUME ~adrift' PROVE ~misheard' /\ ListenerFollowed'
  <2>1. ~misheard /\ ListenerFollowed
    BY <1>2, <1>3 DEF IcyInv, HearInv
  <2>2. PICK ph \in Phase, to \in Phase :
          /\ InPhase(client, ph) /\ Leads(line, ph, to)
          /\ to.rest = 0 /\ to.left = inserter.remaining_audio
    BY <2>1 DEF ListenerFollowed
  <2>3. PICK then \in Phase : <<b, then>> \in NextBytes(ph) /\ Leads(line', then, to)
    BY <1>1, <2>2, LeadsFromHead DEF b
  <2>4. InPhase(client', then) /\ Takes(client) = b.is
    BY <1>2, <2>2, <2>3, FeedInPhase
  <2> QED
    BY <1>2, <2>1, <2>2, <2>3, <2>4 DEF ListenerFollowed
<1>4. HearInv'
  <2>1. NoBlocksUnasked'
    BY <1>1, <1>2 DEF IcyInv, HearInv, NoBlocksUnasked
  <2> QED
    BY <1>3, <2>1 DEF HearInv
<1>5. IcyTypeOK'
  <2>1. client' \in Parser
    BY <1>1, <1>2, FeedByteParses
  <2>2. misheard' \in BOOLEAN
    BY <1>2 DEF IcyInv, IcyTypeOK
  <2> QED
    BY <1>1, <1>2, <2>1, <2>2 DEF IcyInv, IcyTypeOK, sourceVars
<1> QED
  BY <1>2, <1>4, <1>5, SourceRests DEF IcyInv

\* The types of the source's side.
SourceTypes ==
  /\ encoder \in [left : 0 .. Metaint, rest : Nat, says : Metadata]
  /\ wire \in Seq(Byte) /\ Len(wire) <= ReadSize /\ pending \in 0 .. Len(wire)
  /\ reader \in {"read", "feed", "store"}
  /\ parser \in Parser /\ ~parser.lost
  /\ {parsed, metadata, said} \subseteq Metadata
  /\ {audio, clean} \subseteq Seq({Audio})

LEMMA AnotherSourceInv ==
  ASSUME IcyInv, AnotherSource
  PROVE  StripInv' /\ SourceTypes'
<1>1. CASE UNCHANGED sourceVars
  <2>1. SourceTypes'
    BY <1>1 DEF IcyInv, IcyTypeOK, SourceTypes, sourceVars
  <2> QED
    BY <1>1, <2>1, SourceRests DEF IcyInv
<1>2. CASE ~UNCHANGED sourceVars
  <2>1. /\ reader = "read" /\ pending = 0 /\ audio = <<>> /\ parsed = Nothing /\ audio = clean
        /\ UNCHANGED <<pending, reader, audio, parsed, clean>>
        /\ encoder' = NewEncoder /\ wire' = <<>> /\ parser' = Fresh
        /\ metadata' = Nothing /\ said' = Nothing
    BY <1>2 DEF IcyInv, StripInv, ReadOK, AudioClean, AnotherSource
  <2>2. NewEncoder = [left |-> Metaint, rest |-> 0, says |-> Nothing] /\ Nothing \in Metadata
    BY NothingIsMetadata DEF NewEncoder
  <2>3. ReadOK'
    BY <2>1 DEF ReadOK
  <2>4. SourceFollowed'
    BY <2>1, <2>2, StartInPhase DEF SourceFollowed
  <2>5. StripInv'
    BY <2>1, <2>3, <2>4 DEF StripInv, AudioClean
  <2>6. encoder' \in [left : 0 .. Metaint, rest : Nat, says : Metadata]
    BY <2>1, <2>2, IcyConstants
  <2>7. parser' \in Parser /\ ~parser'.lost
    BY <2>1, FreshCounts
  <2>8. wire' \in Seq(Byte) /\ Len(wire') <= ReadSize /\ pending' \in 0 .. Len(wire')
    BY <2>1, IcyConstants
  <2>9. SourceTypes'
    <3>1. {audio', clean'} \subseteq Seq({Audio})
      <4>1. audio' = <<>> /\ clean' = <<>>
        BY <2>1
      <4>2. <<>> \in Seq({Audio})
        OBVIOUS
      <4> QED
        BY <4>1, <4>2
    <3>2. {parsed', metadata', said'} \subseteq Metadata /\ reader' = "read"
      BY <2>1, <2>2
    <3> QED
      BY <2>6, <2>7, <2>8, <3>1, <3>2 DEF SourceTypes
  <2> QED
    BY <2>5, <2>9
<1> QED
  BY <1>1, <1>2

LEMMA MoveInv == IcyInv /\ Move => IcyInv'
<1> SUFFICES ASSUME IcyInv, Move PROVE IcyInv'
  OBVIOUS
<1>1. /\ UNCHANGED <<joined, writing, line, client, misheard>>
      /\ inserter' = NewInserter /\ AnotherSource
  BY DEF Move
<1>2. StripInv' /\ SourceTypes'
  BY <1>1, AnotherSourceInv
<1>3. NewInserter \in [remaining_audio : 0 .. Metaint, last : Metadata]
  BY NothingIsMetadata, IcyConstants DEF NewInserter
<1>4. NoBlocksUnasked /\ (~adrift => ~misheard /\ ListenerFollowed)
  BY DEF IcyInv, HearInv
<1>5. inserter'.remaining_audio = Metaint
  BY <1>1 DEF NewInserter
<1>6. ASSUME ~adrift' PROVE ~misheard' /\ ListenerFollowed'
  <2>1. ~adrift /\ inserter.remaining_audio = Metaint
    <3>1. ~adrift /\ (joined = "icy" => inserter.remaining_audio = Metaint)
      BY <1>6 DEF Move
    <3>2. joined # "icy" => inserter.remaining_audio = Metaint
      BY <1>4 DEF NoBlocksUnasked, NewInserter
    <3> QED
      BY <3>1, <3>2
  <2> QED
    BY <1>1, <1>4, <1>5, <2>1 DEF ListenerFollowed
<1>7. HearInv'
  <2>1. joined' # "no"
    BY DEF Move
  <2> QED
    BY <1>1, <1>4, <1>6, <2>1 DEF HearInv, NoBlocksUnasked
<1>8. IcyTypeOK'
  <2>1. unread' \in Seq({Audio}) /\ Len(unread') <= MaxUnread
    BY IcyAssumption DEF Move
  <2>2. adrift' \in BOOLEAN
    BY DEF IcyInv, IcyTypeOK, Move
  <2> QED
    BY <1>1, <1>2, <1>3, <2>1, <2>2 DEF IcyInv, IcyTypeOK, SourceTypes
<1> QED
  BY <1>2, <1>7, <1>8 DEF IcyInv

LEMMA IcyInvHolds == IcySpec => []IcyInv
<1>1. IcyInv /\ [IcyNext]_icyVars => IcyInv'
  <2> SUFFICES ASSUME IcyInv, [IcyNext]_icyVars PROVE IcyInv'
    OBVIOUS
  <2>1. CASE IcyNext
    BY <2>1, EncodeInv, ReadSourceInv, FeedNextInv, StoreTitleInv, StoreAudioInv, JoinInv,
       ListenInv, WriteNextInv, HearNextInv, MoveInv DEF IcyNext
  <2>2. CASE UNCHANGED icyVars
    <3>1. UNCHANGED sourceVars /\ UNCHANGED listenerVars /\ unread' = unread
      BY <2>2 DEF icyVars
    <3>2. IcyTypeOK'
      BY <3>1 DEF IcyInv, IcyTypeOK, sourceVars, listenerVars
    <3> QED
      BY <3>1, <3>2, SourceRests, ListenerRests DEF IcyInv
  <2> QED
    BY <2>1, <2>2
<1> QED
  BY <1>1, IcyInitInv, PTL DEF IcySpec

\* Wherever the reads cut what a source sends, for any interval, texts and
\* sizes of them: all of its audio is stored and nothing of its blocks, and
\* its metadata is what is read in its blocks, one by one.
THEOREM SourceStrippedHolds == IcySpec => []SourceStripped
<1>1. IcyInv => SourceStripped
  BY DEF IcyInv, StripInv, ReadOK, SourceStripped, TitleKnown
<1> QED
  BY <1>1, IcyInvHolds, PTL

\* A listener who counts finds every block, for any interval and sizes of the
\* texts, unless an intro, a move in mid-interval or a block that is too long
\* has put it out of step.
THEOREM InStepUnlessAdriftHolds == IcySpec => []InStepUnlessAdrift
<1>1. IcyInv => InStepUnlessAdrift
  BY DEF IcyInv, HearInv, InStepUnlessAdrift
<1> QED
  BY <1>1, IcyInvHolds, PTL

-----------------------------------------------------------------------------
(* Accounts: the administrator *)

\* Unless a start was cut short between the two inserts, an account has come
\* with its administrator, but while the user of the first is being inserted.
AdminInv ==
  /\ phase \in {"down", "opened", "without", "empty", "inserted", "up"}
  /\ phase = "empty" => DOMAIN accounts = {}
  /\ ~torn => /\ phase = "up" => admin
              /\ DOMAIN accounts # {} /\ phase # "inserted" => admin

LEMMA AdminInvHolds == AccountsSpec => []AdminInv
<1>1. AccountsInit => AdminInv
  BY DEF AccountsInit, AdminInv
<1>2. AdminInv /\ [AccountsNext]_accountVars => AdminInv'
  <2> SUFFICES ASSUME AdminInv, [AccountsNext]_accountVars PROVE AdminInv'
    OBVIOUS
  <2> USE DEF AdminInv
  <2>1. CASE OpenDatabase
    BY <2>1 DEF OpenDatabase
  <2>2. CASE CountAccounts
    BY <2>2 DEF CountAccounts
  <2>3. CASE InsertAccount
    BY <2>3 DEF InsertAccount
  <2>4. CASE InsertUser
    BY <2>4 DEF InsertUser
  <2>5. CASE Stop
    BY <2>5 DEF Stop
  <2>6. ASSUME NEW a \in AccountIds, CreateAccount(a) PROVE AdminInv'
    BY <2>6 DEF CreateAccount
  <2>7. ASSUME NEW a \in AccountIds, NEW m \in Mounts, CreateMountConfig(a, m) PROVE AdminInv'
    BY <2>7 DEF CreateMountConfig
  <2>8. ASSUME NEW f \in Feeders, NEW to, FeederStep(f, to) PROVE AdminInv'
    BY <2>8 DEF FeederStep
  <2>9. ASSUME NEW f \in Feeders,
               \/ \E m \in Mounts : Ask(f, m)
               \/ LookupConfig(f) \/ ReadAccount(f) \/ CountSources(f)
               \/ AskShoutcast(f) \/ Register(f) \/ SourceGone(f)
        PROVE  AdminInv'
    <3>1. PICK to : FeederStep(f, to)
      BY <2>9 DEF Ask, LookupConfig, ReadAccount, CountSources, AskShoutcast, Register, SourceGone
    <3> QED
      BY <2>8, <3>1
  <2>10. CASE UNCHANGED accountVars
    BY <2>10 DEF accountVars
  <2> QED
    BY <2>1, <2>2, <2>3, <2>4, <2>5, <2>6, <2>7, <2>9, <2>10 DEF AccountsNext
<1> QED
  BY <1>1, <1>2, PTL DEF AccountsSpec

\* A server with its database has an administrator, unless a start was cut
\* short between the two inserts.
THEOREM BootstrapHasAdminHolds == AccountsSpec => []BootstrapHasAdmin
<1>1. AdminInv => BootstrapHasAdmin
  BY DEF AdminInv, BootstrapHasAdmin
<1> QED
  BY <1>1, AdminInvHolds, PTL

-----------------------------------------------------------------------------
(* Accounts: the quota *)

FeederState ==
  [pc : {"idle", "config", "account", "count", "register", "live"}, mount : Mounts,
   account : AccountIds \cup {NoAccount}, limit : Nat]

Configured(a) == {m \in Mounts : <<a, m>> \in configs}

\* The mounts of the sources that an account has passed the quota for.
Past(s) == s.pc \in {"register", "live"}
Admitted(a) == {feeder[f].mount : f \in {g \in Feeders : Past(feeder[g]) /\ feeder[g].account = a}}

AccountsTypeOK ==
  /\ DOMAIN accounts \subseteq AccountIds
  /\ accounts \in [DOMAIN accounts -> Nat \ {0}]
  /\ phase = "empty" => DOMAIN accounts = {}
  /\ \A a \in AccountIds : IsFiniteSet(Configured(a))
  /\ \A a \in AccountIds, m \in Mounts : <<a, m>> \in configs => a \in DOMAIN accounts
  /\ feeder \in [Feeders -> FeederState]

\* A source answers to an account that there is and has configured its mount,
\* and the limit that it has read is the account's.
Answerable(s) ==
  /\ s.pc \in {"idle", "config"} => s.account = NoAccount
  /\ s.pc \in {"account", "count"} => s.account # NoAccount
  /\ s.account # NoAccount => s.account \in DOMAIN accounts /\ <<s.account, s.mount>> \in configs
  /\ s.pc = "count" => s.limit = accounts[s.account]

\* What makes the limit hold while sources are between their queries: those
\* that have passed it feed configured mounts, and when the last of them
\* passed there were fewer of these than the limit.
QuotaInv ==
  /\ AccountsTypeOK
  /\ \A f \in Feeders : Answerable(feeder[f])
  /\ \A a \in DOMAIN accounts : Cardinality(Admitted(a)) < accounts[a]

\* A set of mounts that is within another is no larger.
LEMMA NoMore ==
  ASSUME NEW S, NEW T, IsFiniteSet(T), S \subseteq T
  PROVE  IsFiniteSet(S) /\ Cardinality(S) \in Nat /\ Cardinality(T) \in Nat
         /\ Cardinality(S) <= Cardinality(T)
BY FS_Subset, FS_CardinalityType

LEMMA AdmittedConfigured ==
  ASSUME QuotaInv, NEW a \in DOMAIN accounts
  PROVE  Admitted(a) \subseteq Configured(a) /\ IsFiniteSet(Admitted(a))
<1>1. Admitted(a) \subseteq Configured(a)
  BY AccountsAssumption
     DEF QuotaInv, AccountsTypeOK, Answerable, Admitted, Configured, FeederState
<1> QED
  BY <1>1, NoMore DEF QuotaInv, AccountsTypeOK

\* A source goes on, and what it passed it had passed before, or its account
\* is below the limit.
LEMMA FeederStepKeepsQuota ==
  ASSUME QuotaInv, NEW f \in Feeders, NEW to \in FeederState, FeederStep(f, to), Answerable(to),
         \/ ~Past(to) \/ to.account = NoAccount
         \/ Past(feeder[f]) /\ to.account = feeder[f].account /\ to.mount = feeder[f].mount
         \/ SourceCount(to.account) < accounts[to.account]
  PROVE  QuotaInv'
<1> USE DEF FeederStep
<1>1. /\ feeder' \in [Feeders -> FeederState]
      /\ \A g \in Feeders : feeder'[g] = IF g = f THEN to ELSE feeder[g]
  BY DEF QuotaInv, AccountsTypeOK
<1>2. AccountsTypeOK'
  BY <1>1 DEF QuotaInv, AccountsTypeOK, Configured
<1>3. \A g \in Feeders : Answerable(feeder[g])'
  BY <1>1 DEF QuotaInv, Answerable
<1>4. ASSUME NEW a \in DOMAIN accounts
      PROVE  Cardinality(Admitted(a)') < accounts[a]
  <2>1. a \in AccountIds /\ a # NoAccount /\ accounts[a] \in Nat
    BY AccountsAssumption DEF QuotaInv, AccountsTypeOK
  <2>2. CASE /\ Past(to) /\ to.account = a /\ SourceCount(a) < accounts[a]
    <3>1. Admitted(a)' \subseteq Configured(a)
      BY <1>1, <1>3, <2>1 DEF Admitted, Configured, Answerable, FeederState
    <3>2. IsFiniteSet(Configured(a)) /\ SourceCount(a) = Cardinality(Configured(a))
      BY <2>1 DEF QuotaInv, AccountsTypeOK, SourceCount, Configured
    <3>3. /\ Cardinality(Admitted(a)') \in Nat /\ Cardinality(Configured(a)) \in Nat
          /\ Cardinality(Admitted(a)') <= Cardinality(Configured(a))
      BY <3>1, <3>2, NoMore
    <3> QED
      BY <2>1, <2>2, <3>2, <3>3
  <2>3. CASE \/ ~(Past(to) /\ to.account = a)
             \/ Past(feeder[f]) /\ to.account = feeder[f].account /\ to.mount = feeder[f].mount
    <3>1. Admitted(a)' \subseteq Admitted(a)
      BY <1>1, <2>3 DEF Admitted
    <3>2. Cardinality(Admitted(a)) < accounts[a]
      BY DEF QuotaInv
    <3>3. /\ Cardinality(Admitted(a)') \in Nat /\ Cardinality(Admitted(a)) \in Nat
          /\ Cardinality(Admitted(a)') <= Cardinality(Admitted(a))
      BY <3>1, AdmittedConfigured, NoMore
    <3> QED
      BY <2>1, <3>2, <3>3
  <2> QED
    BY <2>1, <2>2, <2>3
<1> QED
  BY <1>2, <1>3, <1>4 DEF QuotaInv

LEMMA IdleState == Idle \in FeederState /\ ~Past(Idle) /\ Answerable(Idle)
BY AccountsAssumption DEF Idle, FeederState, Past, Answerable

LEMMA FeedersKeepQuota ==
  ASSUME QuotaInv, NEW f \in Feeders,
         \/ \E m \in Mounts : Ask(f, m)
         \/ LookupConfig(f) \/ ReadAccount(f) \/ CountSources(f)
         \/ AskShoutcast(f) \/ Register(f) \/ SourceGone(f)
  PROVE  QuotaInv'
<1> DEFINE s == feeder[f]
<1>1. s \in FeederState /\ Answerable(s)
  BY DEF QuotaInv, AccountsTypeOK
<1>2. ASSUME FeederStep(f, Idle) PROVE QuotaInv'
  BY <1>2, IdleState, FeederStepKeepsQuota
<1>3. ASSUME NEW m \in Mounts, Ask(f, m) PROVE QuotaInv'
  <2> DEFINE to == [Idle EXCEPT !.pc = "config", !.mount = m]
  <2>1. to \in FeederState /\ ~Past(to) /\ Answerable(to)
    BY IdleState, AccountsAssumption DEF Idle, FeederState, Past, Answerable
  <2>2. FeederStep(f, to)
    BY <1>3 DEF Ask
  <2> QED
    BY <2>1, <2>2, FeederStepKeepsQuota
<1>4. CASE LookupConfig(f)
  <2>1. ASSUME NEW a \in ConfiguredFor(s.mount),
               FeederStep(f, [s EXCEPT !.pc = "account", !.account = a])
        PROVE  QuotaInv'
    <3> DEFINE to == [s EXCEPT !.pc = "account", !.account = a]
    <3>1. a \in AccountIds /\ <<a, s.mount>> \in configs
      BY DEF ConfiguredFor
    <3>2. to \in FeederState /\ ~Past(to) /\ to.mount = s.mount /\ to.account = a /\ to.pc = "account"
      BY <1>1, <3>1 DEF FeederState, Past
    <3>3. Answerable(to)
      BY <1>1, <3>1, <3>2, AccountsAssumption DEF Answerable, QuotaInv, AccountsTypeOK, FeederState
    <3> QED
      BY <2>1, <3>2, <3>3, FeederStepKeepsQuota
  <2>2. ASSUME s.pc = "config", FeederStep(f, [s EXCEPT !.pc = "register"])
        PROVE  QuotaInv'
    <3> DEFINE to == [s EXCEPT !.pc = "register"]
    <3>1. to \in FeederState /\ to.account = s.account /\ to.pc = "register" /\ s.account = NoAccount
      BY <1>1, <2>2 DEF FeederState, Answerable
    <3>2. Answerable(to)
      BY <3>1 DEF Answerable
    <3> QED
      BY <2>2, <3>1, <3>2, FeederStepKeepsQuota
  <2> QED
    BY <1>2, <1>4, <2>1, <2>2 DEF LookupConfig
<1>5. CASE ReadAccount(f)
  <2> DEFINE to == [s EXCEPT !.pc = "count", !.limit = accounts[s.account]]
  <2>0. CASE FeederStep(f, Idle)
    BY <1>2, <2>0
  <2> SUFFICES ASSUME FeederStep(f, to) PROVE QuotaInv'
    BY <1>5, <2>0 DEF ReadAccount
  <2>1. s.pc = "account" /\ FeederStep(f, to)
    BY <1>5 DEF ReadAccount
  <2>2. s.account # NoAccount /\ s.account \in DOMAIN accounts /\ <<s.account, s.mount>> \in configs
    BY <1>1, <2>1 DEF Answerable
  <2>3. accounts[s.account] \in Nat
    BY <2>2 DEF QuotaInv, AccountsTypeOK
  <2>4. /\ to \in FeederState /\ ~Past(to) /\ to.pc = "count" /\ to.limit = accounts[s.account]
        /\ to.account = s.account /\ to.mount = s.mount
    BY <1>1, <2>3 DEF FeederState, Past
  <2>5. Answerable(to)
    BY <2>2, <2>4 DEF Answerable
  <2> QED
    BY <2>1, <2>4, <2>5, FeederStepKeepsQuota
<1>6. CASE CountSources(f)
  <2>1. ASSUME SourceCount(s.account) < s.limit, s.pc = "count",
               FeederStep(f, [s EXCEPT !.pc = "register"])
        PROVE  QuotaInv'
    <3> DEFINE to == [s EXCEPT !.pc = "register"]
    <3>1. /\ to \in FeederState /\ to.account = s.account /\ to.mount = s.mount
          /\ to.pc = "register"
      BY <1>1, <2>1 DEF FeederState
    <3>2. Answerable(to)
      BY <1>1, <2>1, <3>1 DEF Answerable
    <3>3. SourceCount(to.account) < accounts[to.account]
      BY <1>1, <2>1, <3>1 DEF Answerable
    <3> QED
      BY <2>1, <3>1, <3>2, <3>3, FeederStepKeepsQuota
  <2> QED
    BY <1>2, <1>6, <2>1 DEF CountSources
<1>7. CASE AskShoutcast(f)
  <2>1. PICK m \in ShoutcastMounts : FeederStep(f, [Idle EXCEPT !.pc = "register", !.mount = m])
    BY <1>7 DEF AskShoutcast
  <2> DEFINE to == [Idle EXCEPT !.pc = "register", !.mount = m]
  <2>2. m \in Mounts
    BY AccountsAssumption DEF ShoutcastMounts, PasswordMounts
  <2>3. to \in FeederState /\ to.account = NoAccount /\ Answerable(to)
    BY <2>2, IdleState DEF Idle, FeederState, Answerable
  <2> QED
    BY <2>1, <2>3, FeederStepKeepsQuota
<1>8. CASE Register(f)
  <2>1. ASSUME s.pc = "register", FeederStep(f, [s EXCEPT !.pc = "live"])
        PROVE  QuotaInv'
    <3> DEFINE to == [s EXCEPT !.pc = "live"]
    <3>1. /\ to \in FeederState /\ to.account = s.account /\ to.mount = s.mount /\ to.pc = "live"
          /\ Past(s)
      BY <1>1, <2>1 DEF FeederState, Past
    <3>2. Answerable(to)
      BY <1>1, <3>1 DEF Answerable
    <3> QED
      BY <2>1, <3>1, <3>2, FeederStepKeepsQuota
  <2> QED
    BY <1>2, <1>8, <2>1 DEF Register
<1>9. CASE SourceGone(f)
  BY <1>2, <1>9 DEF SourceGone
<1> QED
  BY <1>3, <1>4, <1>5, <1>6, <1>7, <1>8, <1>9

\* An account is inserted that there was not, and so no source answers to it.
LEMMA NewAccountKeepsQuota ==
  ASSUME QuotaInv, NEW a \in AccountIds, a \notin DOMAIN accounts, NEW limit \in PlanLimits,
         accounts' = WithAccount(a, limit), UNCHANGED <<configs, feeder>>, phase' # "empty"
  PROVE  QuotaInv'
<1>1. /\ DOMAIN accounts' = DOMAIN accounts \cup {a}
      /\ \A x \in DOMAIN accounts : accounts'[x] = accounts[x]
      /\ accounts' \in [DOMAIN accounts' -> Nat \ {0}] /\ accounts'[a] \in Nat \ {0}
  BY AccountsAssumption DEF WithAccount, QuotaInv, AccountsTypeOK
<1>2. AccountsTypeOK'
  BY <1>1 DEF QuotaInv, AccountsTypeOK, Configured
<1>3. \A f \in Feeders : Answerable(feeder[f])'
  BY <1>1 DEF QuotaInv, Answerable
<1>4. Admitted(a)' = {}
  BY AccountsAssumption DEF Admitted, QuotaInv, Answerable
<1>5. \A x \in DOMAIN accounts : Admitted(x)' = Admitted(x)
  BY DEF Admitted
<1> QED
  BY <1>1, <1>2, <1>3, <1>4, <1>5, FS_EmptySet DEF QuotaInv

LEMMA QuotaInvHolds == AccountsSpec => []QuotaInv
<1>1. AccountsInit => QuotaInv
  <2> SUFFICES ASSUME AccountsInit PROVE QuotaInv
    OBVIOUS
  <2> USE DEF AccountsInit
  <2>1. \A a \in AccountIds : Configured(a) = {}
    BY DEF Configured
  <2>2. AccountsTypeOK
    BY <2>1, FS_EmptySet, IdleState DEF AccountsTypeOK
  <2> QED
    BY <2>2, IdleState DEF QuotaInv
<1>2. QuotaInv /\ [AccountsNext]_accountVars => QuotaInv'
  <2> SUFFICES ASSUME QuotaInv, [AccountsNext]_accountVars PROVE QuotaInv'
    OBVIOUS
  <2>1. ASSUME UNCHANGED <<accounts, configs, feeder>>, phase' = "empty" => DOMAIN accounts = {}
        PROVE  QuotaInv'
    BY <2>1 DEF QuotaInv, AccountsTypeOK, Answerable, Admitted, Configured
  <2>2. CASE OpenDatabase \/ CountAccounts \/ InsertUser
    BY <2>1, <2>2 DEF OpenDatabase, CountAccounts, InsertUser
  <2>3. CASE InsertAccount
    BY <2>3, NewAccountKeepsQuota, AccountsAssumption DEF InsertAccount, QuotaInv, AccountsTypeOK
  <2>4. CASE Stop
    <3>1. \A a : Admitted(a)' = {}
      BY <2>4, IdleState DEF Stop, Admitted
    <3>2. AccountsTypeOK'
      BY <2>4, IdleState DEF Stop, QuotaInv, AccountsTypeOK, Configured
    <3>3. \A f \in Feeders : Answerable(feeder[f])'
      BY <2>4, IdleState DEF Stop, Answerable, Idle
    <3>4. accounts' = accounts /\ \A a \in DOMAIN accounts : accounts[a] \in Nat \ {0}
      BY <2>4 DEF Stop, QuotaInv, AccountsTypeOK
    <3>5. \A a \in DOMAIN accounts : Cardinality(Admitted(a)') < accounts[a]
      BY <3>1, <3>4, FS_EmptySet
    <3> QED
      BY <3>2, <3>3, <3>4, <3>5 DEF QuotaInv
  <2>5. ASSUME NEW a \in AccountIds, CreateAccount(a) PROVE QuotaInv'
    BY <2>5, NewAccountKeepsQuota DEF CreateAccount
  <2>6. ASSUME NEW a \in AccountIds, NEW m \in Mounts, CreateMountConfig(a, m) PROVE QuotaInv'
    <3> USE DEF CreateMountConfig
    <3>1. \A x \in AccountIds : Configured(x)' = IF x = a THEN Configured(x) \cup {m} ELSE Configured(x)
      BY <2>6 DEF Configured
    <3>2. ASSUME NEW x \in AccountIds PROVE IsFiniteSet(Configured(x)')
      <4>1. IsFiniteSet(Configured(x))
        BY DEF QuotaInv, AccountsTypeOK
      <4>2. IsFiniteSet(Configured(x) \cup {m})
        BY <4>1, FS_AddElement
      <4> QED
        BY <3>1, <4>1, <4>2
    <3>3. AccountsTypeOK'
      BY <2>6, <3>2 DEF QuotaInv, AccountsTypeOK
    <3>4. \A f \in Feeders : Answerable(feeder[f])'
      BY <2>6 DEF QuotaInv, Answerable
    <3>5. \A x : Admitted(x)' = Admitted(x)
      BY <2>6 DEF Admitted
    <3> QED
      BY <2>6, <3>3, <3>4, <3>5 DEF QuotaInv
  <2>7. CASE UNCHANGED accountVars
    BY <2>1, <2>7 DEF accountVars, QuotaInv, AccountsTypeOK
  <2> QED
    BY <2>2, <2>3, <2>4, <2>5, <2>6, <2>7, FeedersKeepQuota DEF AccountsNext
<1> QED
  BY <1>1, <1>2, PTL DEF AccountsSpec

\* An account's sources feed fewer mounts than its limit, whatever is
\* configured between the queries of those that are being admitted.
THEOREM QuotaKeptHolds == AccountsSpec => []QuotaKept
<1>1. QuotaInv => QuotaKept
  <2> SUFFICES ASSUME QuotaInv, NEW a \in DOMAIN accounts
               PROVE  Cardinality({feeder[f].mount : f \in {g \in Feeders :
                        feeder[g].pc = "live" /\ feeder[g].account = a}}) < accounts[a]
    BY DEF QuotaKept
  <2> DEFINE live == {feeder[f].mount : f \in {g \in Feeders :
                        feeder[g].pc = "live" /\ feeder[g].account = a}}
  <2>1. live \subseteq Admitted(a)
    BY DEF Admitted, Past
  <2>2. /\ Cardinality(live) \in Nat /\ Cardinality(Admitted(a)) \in Nat
        /\ Cardinality(live) <= Cardinality(Admitted(a))
    BY <2>1, AdmittedConfigured, NoMore
  <2>3. Cardinality(Admitted(a)) < accounts[a] /\ accounts[a] \in Nat
    BY DEF QuotaInv, AccountsTypeOK
  <2> QED
    BY <2>2, <2>3
<1> QED
  BY <1>1, QuotaInvHolds, PTL
-----------------------------------------------------------------------------
(* Analytics *)

\* The place of a sample in the ring, and what the ring keeps of the samples:
\* each of the last ones is at the place of its number.
Place(k) == ((k - 1) % RingCapacity) + 1

Keeps(ring, next, all) ==
  /\ next = Len(all) % RingCapacity
  /\ Len(ring) = IF Len(all) < RingCapacity THEN Len(all) ELSE RingCapacity
  /\ \A k \in 1 .. Len(all) : k > Len(all) - RingCapacity => ring[Place(k)] = all[k]

SeriesInv ==
  /\ AnalyticsTypeOK /\ due \subseteq Sampled
  /\ \A m \in Mounts : /\ Keeps(points[m], next_index[m], samples[m])
                       /\ \A i \in 1 .. Len(samples[m]) : samples[m][i].value <= peak[m]

LEMMA CapacityPositive == RingCapacity \in Nat \ {0}
BY AnalyticsAssumption

LEMMA CountsAreNumbers == \A c \in Counts \cup {0} : c \in Nat
BY AnalyticsAssumption

LEMMA ShiftedPlace ==
  ASSUME NEW a \in Nat, NEW d \in Nat, d < RingCapacity
  PROVE  (a + d) % RingCapacity
           = IF (a % RingCapacity) + d < RingCapacity THEN (a % RingCapacity) + d
             ELSE (a % RingCapacity) + d - RingCapacity
BY CapacityPositive, Ring!ModShift

\* A remainder is its own, and the next one is that of the next number.
LEMMA ModSmall ==
  ASSUME NEW a \in Nat, a < RingCapacity PROVE a % RingCapacity = a
<1>1. a = RingCapacity * 0 + a /\ a \in 0 .. RingCapacity - 1
  BY AnalyticsAssumption
<1> QED
  BY <1>1, CapacityPositive, Ring!ModUnique

LEMMA ModNext ==
  ASSUME NEW n \in Nat
  PROVE  ((n % RingCapacity) + 1) % RingCapacity = (n + 1) % RingCapacity
<1> USE CapacityPositive
<1> DEFINE C == RingCapacity
           q == n \div C
           r == n % C
<1>1. n = C * q + r /\ r \in 0 .. C - 1 /\ q \in Nat
  BY Ring!DivMod
<1> HIDE DEF q, r
<1>2. CASE r + 1 < C
  <2>1. n + 1 = C * q + (r + 1) /\ r + 1 \in 0 .. C - 1
    BY <1>1, <1>2
  <2>2. (n + 1) % C = r + 1
    BY <1>1, <2>1, Ring!ModUnique
  <2> QED
    BY <1>1, <1>2, <2>2, ModSmall DEF r
<1>3. CASE r + 1 = C
  <2>1. n + 1 = C * (q + 1) + 0 /\ C = C * 1 + 0
    BY <1>1, <1>3
  <2>2. (n + 1) % C = 0
    BY <1>1, <2>1, Ring!ModUnique
  <2>3. C % C = 0
    BY <2>1, Ring!ModUnique
  <2> QED
    BY <1>3, <2>2, <2>3 DEF r
<1> QED
  BY <1>1, <1>2, <1>3

\* Two numbers less than a ring apart have places of their own.
LEMMA PlacesApart ==
  ASSUME NEW n \in Nat, NEW k \in 1 .. n, k > n + 1 - RingCapacity
  PROVE  Place(k) # Place(n + 1)
<1> USE CapacityPositive
<1> DEFINE a == k - 1
           d == n - a
           p == a % RingCapacity
<1>1. a \in Nat /\ d \in 1 .. RingCapacity - 1 /\ n = a + d
  OBVIOUS
<1> HIDE DEF a, d
<1>2. p \in 0 .. RingCapacity - 1
  BY <1>1, Ring!DivMod
<1>3. n % RingCapacity = IF p + d < RingCapacity THEN p + d ELSE p + d - RingCapacity
  <2>1. a \in Nat /\ d \in Nat /\ d < RingCapacity
    BY <1>1
  <2>2. (a + d) % RingCapacity
          = IF (a % RingCapacity) + d < RingCapacity THEN (a % RingCapacity) + d
            ELSE (a % RingCapacity) + d - RingCapacity
    BY <2>1, ShiftedPlace
  <2> QED
    BY <1>1, <2>2
<1> HIDE DEF p
<1>4. n % RingCapacity # p /\ (n + 1) - 1 = n
  BY <1>1, <1>2, <1>3
<1> QED
  BY <1>2, <1>3, <1>4, <1>1 DEF Place, p, a

\* record keeps the last samples.
LEMMA RecordedKeeps ==
  ASSUME NEW ring \in Seq(Sample), NEW next, NEW all \in Seq(Sample), NEW sample \in Sample,
         Keeps(ring, next, all)
  PROVE  /\ Keeps(Recorded(ring, next, sample), (next + 1) % RingCapacity, Append(all, sample))
         /\ Recorded(ring, next, sample) \in Seq(Sample)
<1> USE CapacityPositive
<1> DEFINE n == Len(all)
           C == RingCapacity
           more == Append(all, sample)
           new == Recorded(ring, next, sample)
<1>1. n \in Nat /\ Len(more) = n + 1 /\ more[n + 1] = sample /\ \A k \in 1 .. n : more[k] = all[k]
  OBVIOUS
<1>2. next = n % C /\ Len(ring) = (IF n < C THEN n ELSE C)
      /\ \A k \in 1 .. n : k > n - C => ring[Place(k)] = all[k]
  BY DEF Keeps
<1> HIDE DEF n
<1>3. next \in 0 .. C - 1 /\ Place(n + 1) = next + 1 /\ (next + 1) % C = (n + 1) % C
  <2>0. n \in Nat
    BY <1>1
  <2>1. n % C \in 0 .. C - 1 /\ (n + 1) - 1 = n
    BY <2>0, Ring!DivMod
  <2> QED
    BY <1>1, <1>2, <2>1, ModNext DEF Place
<1>4. ASSUME NEW k \in 1 .. n
      PROVE  Place(k) \in 1 .. C /\ (n < C => Place(k) = k)
  <2>1. k - 1 \in Nat /\ (n < C => k - 1 < C)
    BY <1>1
  <2> DEFINE j == k - 1
  <2> HIDE DEF j
  <2>2. j \in Nat /\ (n < C => j < C) /\ k = j + 1
    BY <2>1 DEF j
  <2>3. j % C \in 0 .. C - 1 /\ (n < C => j % C = j)
    BY <2>2, ModSmall, Ring!DivMod
  <2> QED
    BY <2>2, <2>3 DEF Place, j
<1>5. /\ new \in Seq(Sample)
      /\ Len(new) = IF n + 1 < C THEN n + 1 ELSE C
      /\ new[Place(n + 1)] = sample
      /\ \A j \in 1 .. Len(ring) : j # Place(n + 1) => new[j] = ring[j]
  <2>1. CASE n < C
    <3>1. Place(n + 1) = n + 1 /\ Len(ring) = n
      BY <1>1, <1>2, <1>3, <2>1, ModSmall
    <3>2. new = Append(ring, sample)
      BY <2>1, <3>1 DEF Recorded
    <3> HIDE DEF new, n
    <3> QED
      BY <1>1, <2>1, <3>1, <3>2
  <2>2. CASE ~(n < C)
    <3>1. new = [ring EXCEPT ![next + 1] = sample] /\ Len(ring) = C
      BY <1>2, <2>2 DEF Recorded
    <3> HIDE DEF new, n
    <3> QED
      BY <1>1, <1>3, <2>2, <3>1
  <2> QED
    BY <2>1, <2>2
<1> HIDE DEF new, more
<1>6. ASSUME NEW k \in 1 .. n + 1, k > n + 1 - C
      PROVE  new[Place(k)] = more[k]
  <2>1. CASE k = n + 1
    BY <1>1, <1>5, <2>1
  <2>2. CASE k # n + 1
    <3>1. k \in 1 .. n /\ k > n - C
      BY <1>1, <1>6, <2>2
    <3>2. Place(k) # Place(n + 1)
      BY <1>1, <1>6, <3>1, PlacesApart
    <3>3. Place(k) \in 1 .. Len(ring)
      BY <1>1, <1>2, <1>4, <3>1
    <3> QED
      BY <1>1, <1>2, <1>5, <3>1, <3>2, <3>3
  <2> QED
    BY <2>1, <2>2
<1>7. Len(more) - C = n + 1 - C /\ Len(more) \in Nat
  BY <1>1
<1>8. Keeps(new, (next + 1) % C, more)
  BY <1>1, <1>3, <1>5, <1>6, <1>7 DEF Keeps
<1> QED
  BY <1>5, <1>8 DEF new, more

\* The ring, read from its oldest sample on, is the last samples.
LEMMA UnrolledLatest ==
  ASSUME NEW m \in Mounts, points[m] \in Seq(Sample), samples[m] \in Seq(Sample),
         Keeps(points[m], next_index[m], samples[m])
  PROVE  LET n == Len(samples[m])
             shown == IF n < RingCapacity THEN n ELSE RingCapacity
         IN  Unrolled(m) = SubSeq(samples[m], n - shown + 1, n)
<1> USE CapacityPositive
<1> DEFINE n == Len(samples[m])
           C == RingCapacity
           shown == IF n < C THEN n ELSE C
<1>1. /\ n \in Nat /\ next_index[m] = n % C /\ Len(points[m]) = shown
      /\ \A k \in 1 .. n : k > n - C => points[m][Place(k)] = samples[m][k]
      /\ DOMAIN points[m] = 1 .. shown
  BY DEF Keeps
<1>2. SubSeq(samples[m], n - shown + 1, n) = [j \in 1 .. shown |-> samples[m][n - shown + j]]
  <2> DEFINE s == samples[m]
             l == n - shown
  <2>1. l \in Nat /\ shown \in Nat /\ n = l + shown /\ s \in Seq(Sample) /\ Len(s) = n
    BY <1>1
  <2> HIDE DEF s, l, n, shown
  <2>2. SubSeq(s, l + 1, n) = [j \in 1 .. shown |-> s[l + j]]
    BY <2>1
  <2> QED
    BY <2>2 DEF s, l
<1>3. ASSUME NEW j \in 1 .. shown, n < C
      PROVE  points[m][j] = samples[m][n - shown + j]
  <2>1. j - 1 \in Nat /\ j - 1 < C /\ j \in 1 .. n /\ shown = n /\ j > n - C
    BY <1>1, <1>3
  <2> HIDE DEF n, shown
  <2>2. (j - 1) % C = j - 1
    BY <2>1, ModSmall
  <2>3. Place(j) = j /\ j \in 1 .. n /\ shown = n /\ n - shown + j = j
    BY <1>1, <2>1, <2>2 DEF Place
  <2> QED
    BY <1>1, <2>1, <2>3
<1>4. ASSUME NEW j \in 1 .. shown, ~(n < C)
      PROVE  points[m][((next_index[m] + j - 1) % C) + 1] = samples[m][n - shown + j]
  <2> DEFINE a == n - C
             p == a % C
             q == a \div C
             d == j - 1
             k == n - C + j
  <2>1. /\ a \in Nat /\ d \in 0 .. C - 1 /\ k \in 1 .. n /\ k > n - C /\ k - 1 = a + d
        /\ shown = C /\ n = a + C /\ k = n - shown + j
    BY <1>1, <1>4
  <2> HIDE DEF n, a, d, k, shown
  <2>2. a = C * q + p /\ p \in 0 .. C - 1 /\ q \in Nat
    BY <2>1, Ring!DivMod
  <2> HIDE DEF p, q
  <2>3. n = C * (q + 1) + p
    BY <2>1, <2>2
  <2>4. n % C = p
    BY <1>1, <2>2, <2>3, Ring!ModUnique
  <2>5. (k - 1) % C = IF p + d < C THEN p + d ELSE p + d - C
    <3>1. a \in Nat /\ d \in Nat /\ d < C
      BY <2>1
    <3>2. (a + d) % C = IF p + d < C THEN p + d ELSE p + d - C
      BY <3>1, ShiftedPlace DEF p
    <3>3. (k - 1) % C = (a + d) % C
      BY <2>1, Zenon
    <3> QED
      BY <3>2, <3>3, Zenon
  <2>6. (p + d) % C = IF p + d < C THEN p + d ELSE p + d - C
    <3>1. CASE p + d < C
      BY <2>1, <2>2, <3>1, ModSmall
    <3>2. CASE ~(p + d < C)
      <4>1. p + d = C * 1 + (p + d - C) /\ p + d - C \in 0 .. C - 1 /\ p + d \in Nat
        BY <2>1, <2>2, <3>2
      <4> DEFINE e == p + d
                 w == p + d - C
      <4> HIDE DEF e, w
      <4>2. e = C * 1 + w /\ w \in 0 .. C - 1 /\ e \in Nat /\ 1 \in Int
        BY <4>1 DEF e, w
      <4>3. e % C = w
        BY <4>2, Ring!ModUnique
      <4> QED
        BY <3>2, <4>3 DEF e, w
    <3> QED
      BY <3>1, <3>2
  <2>7. next_index[m] + j - 1 = p + d
    BY <1>1, <1>4, <2>2, <2>4 DEF d
  <2>8. ((next_index[m] + j - 1) % C) + 1 = Place(k)
    BY <2>5, <2>6, <2>7 DEF Place
  <2> QED
    BY <1>1, <2>1, <2>8
<1>5. Len(points[m]) < C <=> n < C
  BY <1>1
<1> HIDE DEF shown, n
<1>6. Unrolled(m) = [j \in 1 .. shown |-> samples[m][n - shown + j]]
  <2>1. ASSUME NEW j \in 1 .. shown
        PROVE  (IF Len(points[m]) < C THEN points[m][j]
                ELSE points[m][((next_index[m] + j - 1) % C) + 1])
                 = samples[m][n - shown + j]
    BY <1>3, <1>4, <1>5, Zenon
  <2> HIDE DEF shown
  <2>2. DOMAIN points[m] = 1 .. shown
    BY <1>1
  <2> QED
    BY <2>1, <2>2, Zenon DEF Unrolled, Recent
<1> QED
  BY <1>2, <1>6, Zenon DEF shown, n

LEMMA SeriesInvHolds == AnalyticsSpec => []SeriesInv
<1>1. AnalyticsInit => SeriesInv
  <2> SUFFICES ASSUME AnalyticsInit PROVE SeriesInv
    OBVIOUS
  <2> USE DEF AnalyticsInit
  <2>1. AnalyticsTypeOK
    BY CapacityPositive DEF AnalyticsTypeOK
  <2>2. Keeps(<<>>, 0, <<>>)
    BY CapacityPositive, ModSmall DEF Keeps
  <2> QED
    BY <2>1, <2>2 DEF SeriesInv
<1>2. SeriesInv /\ [AnalyticsNext]_analyticsVars => SeriesInv'
  <2> SUFFICES ASSUME SeriesInv, [AnalyticsNext]_analyticsVars PROVE SeriesInv'
    OBVIOUS
  <2>1. CASE UNCHANGED <<points, next_index, peak, samples>> /\ due' \in SUBSET Sampled
    BY <2>1 DEF SeriesInv, AnalyticsTypeOK, Sampled, Keeps
  <2>2. ASSUME NEW m \in Mounts, NEW n \in Counts, RecordConcurrent(m, n) PROVE SeriesInv'
    <3> DEFINE l == Len(samples[m])
               sample == [at |-> l + 1, value |-> n]
    <3>1. /\ m \in due /\ due' = due \ {m}
          /\ points' = [points EXCEPT ![m] = Recorded(points[m], next_index[m], sample)]
          /\ next_index' = [next_index EXCEPT ![m] = (next_index[m] + 1) % RingCapacity]
          /\ peak' = [peak EXCEPT ![m] = IF n > peak[m] THEN n ELSE peak[m]]
          /\ samples' = [samples EXCEPT ![m] = Append(samples[m], sample)]
      BY <2>2 DEF RecordConcurrent
    <3>2. /\ points[m] \in Seq(Sample) /\ samples[m] \in Seq(Sample)
          /\ next_index[m] \in 0 .. RingCapacity - 1 /\ peak[m] \in Nat
          /\ Keeps(points[m], next_index[m], samples[m])
          /\ l < MaxSamples
      <4>1. /\ points[m] \in Seq(Sample) /\ samples[m] \in Seq(Sample)
            /\ next_index[m] \in 0 .. RingCapacity - 1 /\ peak[m] \in Counts \cup {0}
        BY DEF SeriesInv, AnalyticsTypeOK
      <4>2. m \in Sampled
        BY <3>1 DEF SeriesInv
      <4>3. Keeps(points[m], next_index[m], samples[m])
        BY DEF SeriesInv
      <4>4. l < MaxSamples
        BY <4>2 DEF Sampled
      <4>5. peak[m] \in Nat
        BY <4>1, CountsAreNumbers
      <4> QED
        BY <4>1, <4>3, <4>4, <4>5
    <3>3. sample \in Sample
      BY <3>2, AnalyticsAssumption DEF Sample
    <3>4. Sample = [at : 1 .. MaxSamples, value : Counts] /\ sample.value = n
      BY DEF Sample
    <3> HIDE DEF l, sample
    <3>5. /\ Keeps(Recorded(points[m], next_index[m], sample), (next_index[m] + 1) % RingCapacity,
                   Append(samples[m], sample))
          /\ Recorded(points[m], next_index[m], sample) \in Seq(Sample)
      BY <3>2, <3>3, RecordedKeeps
    <3>6. (next_index[m] + 1) % RingCapacity \in 0 .. RingCapacity - 1
      <4>1. next_index[m] + 1 \in Nat
        BY <3>2
      <4> QED
        BY <4>1, CapacityPositive, Ring!DivMod
    <3>7. Append(samples[m], sample) \in Seq(Sample)
      BY <3>2, <3>3
    <3> DEFINE top == IF n > peak[m] THEN n ELSE peak[m]
               ring == Recorded(points[m], next_index[m], sample)
               next == (next_index[m] + 1) % RingCapacity
               all == Append(samples[m], sample)
    <3>8. top \in Counts \cup {0}
      BY DEF SeriesInv, AnalyticsTypeOK
    <3>9. \A i \in 1 .. Len(all) : all[i].value <= top
      <4>1. ASSUME NEW i \in 1 .. Len(samples[m])
            PROVE  samples[m][i].value \in Nat /\ samples[m][i].value <= peak[m]
        <5>1. samples[m][i] \in Sample
          BY <3>2
        <5>2. samples[m][i].value \in Counts
          BY <5>1 DEF Sample
        <5> QED
          BY <5>2, AnalyticsAssumption DEF SeriesInv
      <4>2. top \in Nat /\ n <= top /\ peak[m] <= top
        BY <3>2, AnalyticsAssumption
      <4> HIDE DEF top
      <4> DEFINE s == samples[m]
      <4>3. s \in Seq(Sample) /\ all = Append(s, sample) /\ sample.value = n /\ n \in Nat
            /\ peak[m] \in Nat
        BY <3>2, <3>4, AnalyticsAssumption
      <4>4. \A i \in 1 .. Len(s) : s[i].value \in Nat /\ s[i].value <= peak[m]
        BY <4>1
      <4> HIDE DEF s, all
      <4>5. /\ Len(s) \in Nat /\ Len(all) = Len(s) + 1 /\ all[Len(s) + 1] = sample
            /\ \A i \in 1 .. Len(s) : all[i] = s[i]
        BY <3>3, <4>3
      <4> QED
        BY <4>2, <4>3, <4>4, <4>5
    <3> HIDE DEF top, ring, next, all
    <3>10. /\ points' = [points EXCEPT ![m] = ring] /\ next_index' = [next_index EXCEPT ![m] = next]
           /\ peak' = [peak EXCEPT ![m] = top] /\ samples' = [samples EXCEPT ![m] = all]
           /\ ring \in Seq(Sample) /\ next \in 0 .. RingCapacity - 1 /\ all \in Seq(Sample)
           /\ Keeps(ring, next, all)
      BY <3>1, <3>5, <3>6, <3>7 DEF top, ring, next, all
    <3>11. AnalyticsTypeOK'
      BY <3>1, <3>8, <3>10 DEF SeriesInv, AnalyticsTypeOK
    <3>12. ASSUME NEW o \in Mounts, o # m
           PROVE  /\ points'[o] = points[o] /\ next_index'[o] = next_index[o]
                  /\ peak'[o] = peak[o] /\ samples'[o] = samples[o]
      BY <3>10, <3>12 DEF SeriesInv, AnalyticsTypeOK
    <3>13. points'[m] = ring /\ next_index'[m] = next /\ peak'[m] = top /\ samples'[m] = all
      BY <3>10 DEF SeriesInv, AnalyticsTypeOK
    <3>14. due' \subseteq Sampled'
      BY <3>1, <3>12 DEF SeriesInv, Sampled
    <3>15. ASSUME NEW o \in Mounts
           PROVE  /\ Keeps(points'[o], next_index'[o], samples'[o])
                  /\ \A i \in 1 .. Len(samples'[o]) : samples'[o][i].value <= peak'[o]
      <4>1. CASE o = m
        BY <3>9, <3>10, <3>13, <4>1
      <4>2. CASE o # m
        BY <3>12, <4>2 DEF SeriesInv
      <4> QED
        BY <4>1, <4>2
    <3>16. \A o \in Mounts : Keeps(points[o], next_index[o], samples[o])'
      BY <3>15 DEF Keeps
    <3> QED
      BY <3>11, <3>14, <3>15, <3>16 DEF SeriesInv
  <2> QED
    BY <2>1, <2>2 DEF AnalyticsNext, Tick, analyticsVars, SeriesInv
<1> QED
  BY <1>1, <1>2, PTL DEF AnalyticsSpec

\* The series of a mount is its last samples in the order of time, and its
\* peak is the largest of all, for any capacity of the ring.
THEOREM SeriesIsLatestHolds == AnalyticsSpec => []SeriesIsLatest
<1>1. SeriesInv => SeriesIsLatest
  BY UnrolledLatest DEF SeriesInv, AnalyticsTypeOK, SeriesIsLatest, Peak
<1> QED
  BY <1>1, SeriesInvHolds, PTL
-----------------------------------------------------------------------------
(* Authentication *)

TaskState ==
  [pc : {"idle", "provider", "reload", "check", "answered"}, at : 1 .. Len(Chain) + 1,
   user : Users \cup {None}, pass : Passwords \cup {None}, time : Nat, began : Nat \ {0},
   answer : {"none", "allow", "deny"}]

\* A request whose answer is vouched for: it has no user, or has found a file.
Vouched(s) == s.user = None \/ s.time # None

\* A version of the file lets a request come to its provider, and may give its
\* answer.
LetsThrough(v, s) == s.at \in Asked(v, s.user)
Gives(v, s) == s.answer \in Verdicts(v, s.user, s.pass)

\* Where a request is, when the file has version now and the copy is of
\* version of.  The time that it looked up is none before it began, and once
\* it has reloaded the copy is of no version before it began either: another
\* request may have loaded it since, but only a later one.
InStep(s, now, of) ==
  /\ s.began <= now
  /\ s.time # None => s.began <= s.time /\ s.time <= now
  /\ \A j \in 1 .. s.at - 1 : Chain[j] = "htpasswd"
  /\ s.at > 1 => s.user # None
  /\ s.pc \in {"reload", "check"} =>
       s.user # None /\ s.at <= Len(Chain) /\ Chain[s.at] = "htpasswd"
  /\ s.pc = "check" /\ s.time # None => s.began <= of
  /\ s.pc = "provider" /\ Vouched(s) => \E v \in s.began .. now : LetsThrough(v, s)
  /\ s.pc = "answered" /\ Vouched(s) => \E v \in s.began .. now : Gives(v, s)

\* The copy is of a version that has been, and not of one before its time.
CopyOK ==
  /\ copy.users = Content(copy.of)
  /\ copy.of \in Nat /\ copy.last_modified \in Nat
  /\ copy.of <= version /\ copy.last_modified <= copy.of

AuthInv ==
  /\ version \in Nat \ {0}
  /\ CopyOK
  /\ task \in [Tasks -> TaskState]
  /\ \A t \in Tasks : InStep(task[t], version, copy.of)

LEMMA ChainSeq ==
  /\ Len(Chain) \in Nat /\ Chain \in Seq(Kinds)
  /\ \A k \in 1 .. Len(Chain) : Chain[k] \in Kinds
BY AuthAssumption

LEMMA TimeOfVersion == ASSUME NEW v \in Nat PROVE TimeOf(v) = None \/ TimeOf(v) = v
BY DEF TimeOf

\* Time passes and others load the file.
LEMMA StaysInStep ==
  ASSUME NEW s \in TaskState, NEW now \in Nat, NEW later \in Nat, NEW of \in Nat, NEW newer \in Nat,
         InStep(s, now, of), now <= later, of <= newer
  PROVE  InStep(s, later, newer)
<1>1. s.began \in Nat /\ s.time \in Nat
  BY DEF TaskState
<1>2. s.began .. now \subseteq s.began .. later
  BY <1>1
<1> QED
  BY <1>1, <1>2 DEF InStep

\* One request goes on, and the others meet a file and a copy that are no
\* older.
LEMMA TaskStepKeepsInv ==
  ASSUME AuthInv, NEW t \in Tasks, NEW to \in TaskState, TaskStep(t, to),
         version' = version, CopyOK', copy.of <= copy'.of, InStep(to, version, copy'.of)
  PROVE  AuthInv'
<1>1. copy.of \in Nat /\ copy'.of \in Nat /\ version \in Nat
  BY DEF AuthInv, CopyOK
<1>2. /\ task' \in [Tasks -> TaskState]
      /\ \A q \in Tasks : task'[q] = IF q = t THEN to ELSE task[q]
  BY DEF AuthInv, TaskStep
<1>3. ASSUME NEW q \in Tasks PROVE InStep(task'[q], version, copy'.of)
  <2>1. CASE q = t
    BY <1>2, <2>1
  <2>2. CASE q # t
    <3>1. task[q] \in TaskState /\ InStep(task[q], version, copy.of)
      BY DEF AuthInv
    <3>2. InStep(task[q], version, copy'.of)
      BY <1>1, <3>1, StaysInStep
    <3> QED
      BY <1>2, <2>2, <3>2
  <2> QED
    BY <2>1, <2>2
<1> QED
  BY <1>2, <1>3 DEF AuthInv

\* The provider that a version lets a request come to decides for it, unless
\* it defers.
LEMMA LastDecides ==
  ASSUME NEW k \in 1 .. Len(Chain) + 1, NEW v, NEW u, NEW p, NEW answer, k \in Asked(v, u),
         k > Len(Chain) \/ ~Defers(k, v, u), answer \in VerdictsOf(k, v, u, p)
  PROVE  answer \in Verdicts(v, u, p)
BY DEF Verdicts

LEMMA NewTaskInStep ==
  ASSUME NEW now \in Nat \ {0}, NEW of
  PROVE  NewTask \in TaskState /\ InStep(NewTask, now, of)
BY ChainSeq DEF NewTask, TaskState, InStep, None

LEMMA AuthenticateKeepsInv ==
  ASSUME AuthInv, NEW t \in Tasks, Authenticate(t)
  PROVE  AuthInv'
<1>1. PICK cred \in (Users \X Passwords) \cup {<<None, None>>} :
        TaskStep(t, [NewTask EXCEPT !.pc = "provider", !.user = cred[1], !.pass = cred[2],
                                    !.began = version])
  BY DEF Authenticate
<1> DEFINE to == [NewTask EXCEPT !.pc = "provider", !.user = cred[1], !.pass = cred[2],
                                 !.began = version]
<1>2. cred[1] \in Users \cup {None} /\ cred[2] \in Passwords \cup {None}
  OBVIOUS
<1>3. version \in Nat \ {0} /\ version' = version /\ copy' = copy /\ CopyOK /\ copy.of \in Nat
  BY DEF Authenticate, AuthInv, CopyOK
<1>4. /\ to \in TaskState /\ to.pc = "provider" /\ to.at = 1 /\ to.time = None /\ to.began = version
      /\ to.user = cred[1]
  <2> DEFINE u == cred[1]
             p == cred[2]
             half == [NewTask EXCEPT !.pc = "provider", !.user = u]
  <2>1. NewTask \in TaskState /\ NewTask.at = 1 /\ NewTask.time = None
    BY <1>3, NewTaskInStep DEF NewTask
  <2>2. to = [half EXCEPT !.pass = p, !.began = version]
    BY DEF NewTask
  <2>3. u \in Users \cup {None} /\ p \in Passwords \cup {None}
    BY <1>2
  <2> HIDE DEF u, p, to
  <2>4. half \in TaskState /\ half.at = 1 /\ half.time = None /\ half.pc = "provider" /\ half.user = u
    BY <2>1, <2>3 DEF TaskState
  <2> HIDE DEF half
  <2>5. /\ to \in TaskState /\ to.pc = "provider" /\ to.at = 1 /\ to.time = None
        /\ to.began = version /\ to.user = u
    BY <1>3, <2>2, <2>3, <2>4 DEF TaskState
  <2> QED
    BY <2>5 DEF u
<1> HIDE DEF to
<1>5. LetsThrough(version, to)
  BY <1>4, ChainSeq DEF LetsThrough, Asked
<1>6. InStep(to, version, copy.of)
  BY <1>3, <1>4, <1>5 DEF InStep
<1> QED
  BY <1>1, <1>3, <1>4, <1>6, TaskStepKeepsInv DEF CopyOK, to

\* A request is answered, by what some version gives it.
LEMMA SettlesInStep ==
  ASSUME AuthInv, NEW t \in Tasks, NEW answer \in {"allow", "deny"},
         Vouched(task[t]) =>
           \E v \in task[t].began .. version : answer \in Verdicts(v, task[t].user, task[t].pass)
  PROVE  Settles(t, answer) \in TaskState /\ InStep(Settles(t, answer), version, copy.of)
<1> DEFINE s == task[t]
           to == Settles(t, answer)
<1>1. s \in TaskState /\ InStep(s, version, copy.of)
  BY DEF AuthInv
<1>2. /\ to \in TaskState /\ to.pc = "answered" /\ to.answer = answer /\ to.at = s.at
      /\ to.user = s.user /\ to.pass = s.pass /\ to.time = s.time /\ to.began = s.began
  BY <1>1 DEF Settles, TaskState
<1> HIDE DEF s, to
<1>3. Vouched(to) = Vouched(s) /\ \A v : Gives(v, to) = (answer \in Verdicts(v, s.user, s.pass))
  BY <1>2 DEF Vouched, Gives
<1>4. Vouched(s) => \E v \in s.began .. version : answer \in Verdicts(v, s.user, s.pass)
  BY DEF s
<1>5. Vouched(to) => \E v \in to.began .. version : Gives(v, to)
  BY <1>2, <1>3, <1>4
<1>6. InStep(to, version, copy.of)
  BY <1>1, <1>2, <1>5 DEF InStep
<1> QED
  BY <1>2, <1>6 DEF to

LEMMA AskProviderKeepsInv ==
  ASSUME AuthInv, NEW t \in Tasks, AskProvider(t)
  PROVE  AuthInv'
<1> DEFINE s == task[t]
           k == s.at
<1>1. /\ s \in TaskState /\ InStep(s, version, copy.of) /\ s.pc = "provider"
      /\ version \in Nat \ {0} /\ CopyOK
      /\ version' = version /\ copy' = copy
  BY DEF AuthInv, AskProvider
<1>2. CopyOK' /\ copy.of <= copy'.of
  BY <1>1 DEF CopyOK
<1>3. k \in 1 .. Len(Chain) + 1 /\ s.began \in Nat /\ Len(Chain) \in Nat
  BY <1>1, ChainSeq DEF TaskState
<1>4. Vouched(s) => \E v \in s.began .. version : k \in Asked(v, s.user)
  BY <1>1 DEF InStep, LetsThrough
<1>5. ASSUME NEW answer \in {"allow", "deny"}, TaskStep(t, Settles(t, answer)),
             k > Len(Chain) \/ Chain[k] # "htpasswd" \/ s.user = None,
             \A v : answer \in VerdictsOf(k, v, s.user, s.pass)
      PROVE  AuthInv'
  <2>1. ASSUME NEW v, k \in Asked(v, s.user) PROVE answer \in Verdicts(v, s.user, s.pass)
    <3>1. k > Len(Chain) \/ ~Defers(k, v, s.user)
      BY <1>5 DEF Defers
    <3> QED
      BY <1>3, <1>5, <2>1, <3>1, LastDecides
  <2>2. Vouched(s) => \E v \in s.began .. version : answer \in Verdicts(v, s.user, s.pass)
    BY <1>4, <2>1
  <2>3. Settles(t, answer) \in TaskState /\ InStep(Settles(t, answer), version, copy.of)
    BY <2>2, SettlesInStep
  <2> QED
    BY <1>1, <1>2, <1>5, <2>3, TaskStepKeepsInv
<1>6. CASE k > Len(Chain)
  <2>1. TaskStep(t, Settles(t, "deny"))
    BY <1>6 DEF AskProvider
  <2>2. \A v : "deny" \in VerdictsOf(k, v, s.user, s.pass)
    BY <1>6 DEF VerdictsOf
  <2> QED
    BY <1>5, <1>6, <2>1, <2>2
<1>7. CASE ~(k > Len(Chain)) /\ Chain[k] # "htpasswd"
  <2>1. PICK answer \in Answers(Chain[k], s.user, s.pass) : TaskStep(t, Settles(t, answer))
    BY <1>7 DEF AskProvider
  <2>2. Chain[k] \in {"static", "anonymous", "url"}
    BY <1>3, <1>7, ChainSeq DEF Kinds
  <2>3. answer \in {"allow", "deny"}
    BY <2>1, <2>2 DEF Answers, StaticAnswer, UrlAnswers
  <2>4. \A v : answer \in VerdictsOf(k, v, s.user, s.pass)
    BY <1>7, <2>1 DEF VerdictsOf
  <2> QED
    BY <1>5, <1>7, <2>1, <2>3, <2>4
<1>8. CASE ~(k > Len(Chain)) /\ Chain[k] = "htpasswd" /\ s.user = None
  <2>1. TaskStep(t, Settles(t, "deny"))
    BY <1>8 DEF AskProvider
  <2>2. \A v : "deny" \in VerdictsOf(k, v, s.user, s.pass)
    BY <1>8 DEF VerdictsOf
  <2> QED
    BY <1>5, <1>8, <2>1, <2>2
<1>9. CASE ~(k > Len(Chain)) /\ Chain[k] = "htpasswd" /\ s.user # None
  <2> DEFINE to == [s EXCEPT !.pc = "reload", !.time = TimeOf(version)]
  <2>1. TaskStep(t, to)
    BY <1>9 DEF AskProvider
  <2>2. TimeOf(version) \in {None, version}
    BY <1>1, TimeOfVersion
  <2>3. /\ to \in TaskState /\ to.pc = "reload" /\ to.time = TimeOf(version) /\ to.at = s.at
        /\ to.user = s.user /\ to.pass = s.pass /\ to.began = s.began
    <3> DEFINE time == TimeOf(version)
    <3>1. time \in Nat
      BY <1>1, <2>2 DEF None
    <3>2. to = [s EXCEPT !.pc = "reload", !.time = time] /\ s \in TaskState
      BY <1>1
    <3> HIDE DEF time, to, s
    <3>3. /\ to \in TaskState /\ to.pc = "reload" /\ to.time = time /\ to.at = s.at
          /\ to.user = s.user /\ to.pass = s.pass /\ to.began = s.began
      BY <3>1, <3>2 DEF TaskState
    <3> QED
      BY <3>3 DEF time
  <2> HIDE DEF to, k, s
  <2>4. k = s.at
    BY DEF k
  <2>5. InStep(to, version, copy.of)
    BY <1>1, <1>3, <1>9, <2>2, <2>3, <2>4 DEF InStep
  <2> QED
    BY <1>1, <1>2, <2>1, <2>3, <2>5, TaskStepKeepsInv
<1> QED
  BY <1>6, <1>7, <1>8, <1>9

LEMMA ReloadKeepsInv ==
  ASSUME AuthInv, NEW t \in Tasks, Reload(t)
  PROVE  AuthInv'
<1> DEFINE s == task[t]
           to == [s EXCEPT !.pc = "check"]
<1>1. /\ s \in TaskState /\ InStep(s, version, copy.of) /\ s.pc = "reload"
      /\ version \in Nat \ {0} /\ version' = version /\ CopyOK
      /\ copy' = (IF s.time = copy.last_modified THEN copy ELSE Loaded(version, s.time))
      /\ TaskStep(t, to)
  BY DEF AuthInv, Reload
<1>2. s.time \in Nat /\ s.began \in Nat /\ (s.time # None => s.began <= s.time /\ s.time <= version)
  BY <1>1 DEF TaskState, InStep
<1>3. CopyOK' /\ copy.of <= copy'.of /\ (s.time # None => s.began <= copy'.of)
  <2>1. CASE s.time = copy.last_modified
    BY <1>1, <1>2, <2>1 DEF CopyOK, None
  <2>2. CASE s.time # copy.last_modified
    <3>1. copy' = [users |-> Content(version), last_modified |-> s.time, of |-> version]
      BY <1>1, <2>2 DEF Loaded
    <3>2. copy'.users = Content(version) /\ copy'.last_modified = s.time /\ copy'.of = version
      BY <3>1
    <3>3. s.time <= version
      BY <1>1, <1>2 DEF None
    <3> QED
      BY <1>1, <1>2, <3>2, <3>3 DEF CopyOK
  <2> QED
    BY <2>1, <2>2
<1>4. /\ to \in TaskState /\ to.pc = "check" /\ to.time = s.time /\ to.at = s.at
      /\ to.user = s.user /\ to.pass = s.pass /\ to.began = s.began
  BY <1>1 DEF TaskState
<1> HIDE DEF to, s
<1>5. InStep(to, version, copy'.of)
  BY <1>1, <1>3, <1>4 DEF InStep
<1> QED
  BY <1>1, <1>3, <1>4, <1>5, TaskStepKeepsInv

LEMMA CheckKeepsInv ==
  ASSUME AuthInv, NEW t \in Tasks, Check(t)
  PROVE  AuthInv'
<1> DEFINE s == task[t]
           v == copy.of
<1>1. /\ s \in TaskState /\ InStep(s, version, v) /\ s.pc = "check"
      /\ version \in Nat \ {0} /\ version' = version /\ CopyOK /\ copy' = copy
  BY DEF AuthInv, Check
<1>2. CopyOK' /\ copy.of <= copy'.of
  BY <1>1 DEF CopyOK
<1>3. /\ s.user # None /\ s.at <= Len(Chain) /\ Chain[s.at] = "htpasswd"
      /\ \A j \in 1 .. s.at - 1 : Chain[j] = "htpasswd"
      /\ s.at \in 1 .. Len(Chain) + 1 /\ s.began \in Nat
  BY <1>1 DEF InStep, TaskState
<1>4. Vouched(s) => v \in s.began .. version
  BY <1>1, <1>3 DEF Vouched, InStep, CopyOK
<1>5. copy.users = Content(v)
  BY <1>1 DEF CopyOK
<1>6. CASE s.user \notin DOMAIN copy.users
  <2> DEFINE to == Deferred(t)
  <2>1. TaskStep(t, to)
    BY <1>6 DEF Check
  <2>2. /\ to.pc = "provider" /\ to.time = s.time /\ to.at = s.at + 1
        /\ to.user = s.user /\ to.pass = s.pass /\ to.began = s.began
        /\ to \in TaskState
    <3> DEFINE next == s.at + 1
    <3>1. next \in 1 .. Len(Chain) + 1 /\ s \in TaskState
      BY <1>1, <1>3, ChainSeq
    <3>2. to = [s EXCEPT !.pc = "provider", !.at = next]
      BY DEF Deferred
    <3>3. next = s.at + 1
      OBVIOUS
    <3> HIDE DEF next, to, s
    <3> QED
      BY <3>1, <3>2, <3>3 DEF TaskState
  <2> HIDE DEF to, s, v
  <2>3. \A j \in 1 .. to.at - 1 : Chain[j] = "htpasswd"
    BY <1>3, <2>2
  <2>4. LetsThrough(v, to)
    BY <1>3, <1>5, <1>6, <2>2, <2>3, ChainSeq DEF LetsThrough, Asked, Defers
  <2>5. Vouched(to) = Vouched(s)
    BY <2>2 DEF Vouched
  <2>6. InStep(to, version, copy.of)
    BY <1>1, <1>3, <1>4, <2>2, <2>3, <2>4, <2>5 DEF InStep
  <2> QED
    BY <1>1, <1>2, <2>1, <2>2, <2>6, TaskStepKeepsInv
<1>7. CASE s.user \in DOMAIN copy.users
  <2> DEFINE answer == IF Matches(copy.users, s.user, s.pass) THEN "allow" ELSE "deny"
  <2>1. TaskStep(t, Settles(t, answer)) /\ answer \in {"allow", "deny"}
    BY <1>7 DEF Check
  <2>2. Chain[1] = "htpasswd" /\ Len(Chain) >= 1
    BY <1>3, ChainSeq
  <2>3. 1 \in Asked(v, s.user) /\ ~Defers(1, v, s.user)
    BY <1>5, <1>7, ChainSeq DEF Asked, Defers
  <2>4. answer \in VerdictsOf(1, v, s.user, s.pass)
    BY <1>3, <1>5, <2>2, ChainSeq DEF VerdictsOf
  <2>5. answer \in Verdicts(v, s.user, s.pass)
    BY <2>2, <2>3, <2>4, ChainSeq, LastDecides
  <2>6. Settles(t, answer) \in TaskState /\ InStep(Settles(t, answer), version, copy.of)
    BY <1>4, <2>1, <2>5, SettlesInStep
  <2> QED
    BY <1>1, <1>2, <2>1, <2>6, TaskStepKeepsInv
<1> QED
  BY <1>6, <1>7

LEMMA AuthInvHolds == AuthSpec => []AuthInv
<1>1. AuthInit => AuthInv
  <2> SUFFICES ASSUME AuthInit PROVE AuthInv
    OBVIOUS
  <2>1. CopyOK
    <3>1. version = 1 /\ copy = [users |-> Content(1), last_modified |-> TimeOf(1), of |-> 1]
      BY DEF AuthInit, Loaded
    <3>2. TimeOf(1) \in {0, 1}
      BY TimeOfVersion DEF None
    <3> QED
      BY <3>1, <3>2 DEF CopyOK
  <2> QED
    BY <2>1, NewTaskInStep DEF AuthInit, AuthInv
<1>2. AuthInv /\ [AuthNext]_authVars => AuthInv'
  <2> SUFFICES ASSUME AuthInv, [AuthNext]_authVars PROVE AuthInv'
    OBVIOUS
  <2>1. CASE Edit
    <3>1. version \in Nat \ {0} /\ version' = version + 1 /\ copy' = copy /\ task' = task /\ CopyOK
          /\ copy.of \in Nat
      BY <2>1 DEF Edit, AuthInv, CopyOK
    <3>2. CopyOK'
      BY <3>1 DEF CopyOK
    <3>3. ASSUME NEW t \in Tasks PROVE InStep(task[t], version', copy.of)
      <4>1. task[t] \in TaskState /\ InStep(task[t], version, copy.of)
        BY DEF AuthInv
      <4>2. version <= version' /\ version' \in Nat
        BY <3>1
      <4> QED
        BY <3>1, <4>1, <4>2, StaysInStep
    <3>4. \A t \in Tasks : InStep(task'[t], version', copy'.of)
      BY <3>1, <3>3
    <3> QED
      BY <3>1, <3>2, <3>4 DEF AuthInv
  <2>2. ASSUME NEW t \in Tasks, Finish(t) PROVE AuthInv'
    <3>1. version' = version /\ copy' = copy /\ TaskStep(t, NewTask) /\ CopyOK /\ version \in Nat \ {0}
          /\ copy.of \in Nat
      BY <2>2 DEF Finish, AuthInv, CopyOK
    <3>2. CopyOK' /\ copy.of <= copy'.of
      BY <3>1 DEF CopyOK
    <3> QED
      BY <3>1, <3>2, NewTaskInStep, TaskStepKeepsInv
  <2>3. CASE UNCHANGED authVars
    BY <2>3 DEF authVars, AuthInv, CopyOK
  <2> QED
    BY <2>1, <2>2, <2>3, AuthenticateKeepsInv, AskProviderKeepsInv, ReloadKeepsInv, CheckKeepsInv
       DEF AuthNext
<1> QED
  BY <1>1, <1>2, PTL DEF AuthSpec

\* A request that found a file, or came without a user, is answered as the
\* whole chain would by one version of the file that was current while it ran.
THEOREM AnswerCurrentHolds == AuthSpec => []AnswerCurrent
<1>1. AuthInv => AnswerCurrent
  BY DEF AuthInv, AnswerCurrent, InStep, Vouched, Gives
<1> QED
  BY <1>1, AuthInvHolds, PTL
-----------------------------------------------------------------------------
(* Health *)

Alert == [mount : Mounts, trigger : Triggers, acknowledged : BOOLEAN]
AlertsOf(m, raised) ==
  [i \in DOMAIN raised |-> [mount |-> m, trigger |-> raised[i], acknowledged |-> FALSE]]

\* Both kinds of checks keep their counts in one place: it is the count that
\* the worker met last, unless a request has looked since.
HealthInv ==
  /\ HealthTypeOK
  /\ \A m \in Mounts \ polled : prev[m] = lastLook[m]

\* Of a drop, the last alert or the one before it tells.
LEMMA SpikeRaised ==
  ASSUME NEW s \in Source, NEW low \in BOOLEAN, NEW old \in BOOLEAN, NEW before, NEW now
  PROVE  /\ Raised(s, low, old, before, now) \in Seq(Triggers)
         /\ Spike(before, now) =>
              \E j \in DOMAIN Raised(s, low, old, before, now) :
                /\ Raised(s, low, old, before, now)[j] = "ListenerDropSpike"
                /\ j >= Len(Raised(s, low, old, before, now)) - 1
<1> DEFINE A == IF s.state = "ended" \/ low THEN <<"Other">> ELSE <<>>
           B == IF old THEN <<"Other">> ELSE <<>>
           C == IF Spike(before, now) THEN <<"ListenerDropSpike">> ELSE <<>>
           D == IF s.big THEN <<"Other">> ELSE <<>>
           AB == A \o B
           ABC == AB \o C
           all == ABC \o D
<1>1. /\ A \in Seq(Triggers) /\ B \in Seq(Triggers) /\ C \in Seq(Triggers) /\ D \in Seq(Triggers)
      /\ Len(D) \in {0, 1}
  <2> DEFINE one == <<"Other">>
             drop == <<"ListenerDropSpike">>
             no == <<>>
  <2>1. /\ one \in Seq(Triggers) /\ drop \in Seq(Triggers) /\ no \in Seq(Triggers)
        /\ Len(one) = 1 /\ Len(no) = 0
    BY DEF Triggers
  <2>2. A \in {one, no} /\ B \in {one, no} /\ C \in {drop, no} /\ D \in {one, no}
    OBVIOUS
  <2> HIDE DEF one, drop, no, A, B, C, D
  <2> QED
    BY <2>1, <2>2
<1>2. Spike(before, now) => Len(C) = 1 /\ C[1] = "ListenerDropSpike"
  OBVIOUS
<1>3. Raised(s, low, old, before, now) = all
  BY DEF Raised
<1> HIDE DEF A, B, C, D
<1>4. AB \in Seq(Triggers)
  BY <1>1
<1> HIDE DEF AB
<1>5. ABC \in Seq(Triggers) /\ (Spike(before, now) => Len(ABC) > 0 /\ ABC[Len(ABC)] = "ListenerDropSpike")
  BY <1>1, <1>2, <1>4
<1> HIDE DEF ABC
<1>6. /\ all \in Seq(Triggers) /\ Len(all) = Len(ABC) + Len(D) /\ Len(ABC) \in Nat /\ Len(D) \in Nat
      /\ \A j \in 1 .. Len(ABC) : all[j] = ABC[j]
      /\ DOMAIN all = 1 .. Len(all)
  BY <1>1, <1>5
<1> HIDE DEF all
<1>7. Spike(before, now) => \E j \in DOMAIN all : all[j] = "ListenerDropSpike" /\ j >= Len(all) - 1
  <2> DEFINE j == Len(ABC)
  <2>1. j \in Nat /\ j >= Len(all) - 1
    <3> DEFINE d == Len(D)
               l == Len(all)
    <3>1. d \in {0, 1} /\ l = j + d /\ j \in Nat
      BY <1>1, <1>6
    <3> HIDE DEF d, l, j
    <3>2. j >= l - 1
      BY <3>1
    <3> QED
      BY <3>1, <3>2 DEF l
  <2>2. Spike(before, now) => j \in 1 .. Len(ABC) /\ j \in DOMAIN all /\ ABC[j] = "ListenerDropSpike"
    BY <1>1, <1>5, <1>6
  <2> HIDE DEF j
  <2> QED
    BY <1>6, <2>1, <2>2
<1> QED
  BY <1>3, <1>6, <1>7

\* What is pushed is at the end of the queue, as much of it as fits.
LEMMA PushedAtEnd ==
  ASSUME NEW queue \in Seq(Alert), NEW new \in Seq(Alert), Len(queue) <= MaxAlerts
  PROVE  /\ Pushed(queue, new) \in Seq(Alert) /\ Len(Pushed(queue, new)) <= MaxAlerts
         /\ \A j \in DOMAIN new : j >= Len(new) - 1 =>
              \E i \in DOMAIN Pushed(queue, new) :
                i >= Len(Pushed(queue, new)) - 1 /\ Pushed(queue, new)[i] = new[j]
<1> DEFINE all == queue \o new
           excess == Len(all) - MaxAlerts
           pushed == Pushed(queue, new)
<1>0. MaxAlerts \in Nat \ {0, 1}
  BY HealthAssumption
<1>1. /\ all \in Seq(Alert) /\ Len(all) = Len(queue) + Len(new)
      /\ Len(queue) \in Nat /\ Len(new) \in Nat
      /\ \A j \in 1 .. Len(new) : all[Len(queue) + j] = new[j]
      /\ DOMAIN new = 1 .. Len(new)
  OBVIOUS
<1>2. pushed = IF excess > 0 THEN SubSeq(all, excess + 1, Len(all)) ELSE all
  BY DEF Pushed
<1> HIDE DEF all, pushed
<1>3. CASE excess > 0
  <2> DEFINE e == excess
  <2>0. pushed = SubSeq(all, e + 1, Len(all))
    BY <1>2, <1>3
  <2>1. e \in Nat /\ e + MaxAlerts = Len(all) /\ pushed = SubSeq(all, e + 1, Len(all))
    <3>1. Len(all) \in Nat
      BY <1>1
    <3> QED
      BY <1>0, <1>3, <2>0, <3>1
  <2> HIDE DEF e
  <2>2. /\ pushed \in Seq(Alert) /\ Len(pushed) = MaxAlerts
        /\ \A i \in 1 .. MaxAlerts : pushed[i] = all[e + i]
        /\ DOMAIN pushed = 1 .. MaxAlerts
    BY <1>0, <1>1, <2>1
  <2>3. ASSUME NEW j \in 1 .. Len(new), j >= Len(new) - 1
        PROVE  \E i \in DOMAIN pushed : i >= Len(pushed) - 1 /\ pushed[i] = new[j]
    <3> DEFINE i == Len(queue) + j - e
    <3>1. i \in 1 .. MaxAlerts /\ i >= MaxAlerts - 1 /\ e + i = Len(queue) + j
      BY <1>0, <1>1, <2>1, <2>3
    <3> HIDE DEF i
    <3>2. pushed[i] = new[j]
      BY <1>1, <2>2, <3>1
    <3> QED
      BY <2>2, <3>1, <3>2
  <2>4. Len(pushed) <= MaxAlerts
    BY <1>0, <2>2
  <2> QED
    BY <1>1, <2>2, <2>3, <2>4, Zenon DEF pushed
<1>4. CASE ~(excess > 0)
  <2>1. pushed = all /\ Len(all) <= MaxAlerts
    BY <1>0, <1>1, <1>2, <1>4
  <2>2. ASSUME NEW j \in 1 .. Len(new), j >= Len(new) - 1
        PROVE  \E i \in DOMAIN pushed : i >= Len(pushed) - 1 /\ pushed[i] = new[j]
    <3> DEFINE i == Len(queue) + j
    <3>1. i \in 1 .. Len(all) /\ i >= Len(all) - 1 /\ all[i] = new[j] /\ DOMAIN all = 1 .. Len(all)
      BY <1>1, <2>2
    <3> HIDE DEF i
    <3> QED
      BY <2>1, <3>1
  <2> QED
    BY <1>1, <2>1, <2>2 DEF pushed
<1> QED
  BY <1>3, <1>4

LEMMA HealthConstants == MaxCount \in Nat /\ MaxAlerts \in Nat \ {0, 1} /\ Monitored \subseteq Mounts
BY HealthAssumption

\* A check looks at one source; the worker's look raises the drop since its
\* last.
LEMMA CheckOneStep ==
  ASSUME HealthInv, NEW k \in Checkers, NEW m \in Mounts, NEW low \in BOOLEAN, NEW old \in BOOLEAN,
         CheckOne(k, m, low, old)
  PROVE  /\ HealthInv'
         /\ Spike(prev[m], count[m]) =>
              \E i \in DOMAIN alerts' : /\ alerts'[i].mount = m
                                        /\ alerts'[i].trigger = "ListenerDropSpike"
                                        /\ i >= Len(alerts') - 1
<1> DEFINE s == holds[k][m]
           raised == Raised(s, low, old, prev[m], count[m])
           new == AlertsOf(m, raised)
<1>1. /\ holds' = [holds EXCEPT ![k][m] = NoSource]
      /\ prev' = [prev EXCEPT ![m] = count[m]]
      /\ alerts' = Pushed(alerts, new)
      /\ feed' = feed /\ count' = count
      /\ k = "worker" => lastLook' = [lastLook EXCEPT ![m] = count[m]] /\ polled' = polled \ {m}
      /\ k # "worker" => lastLook' = lastLook /\ polled' = polled \cup {m}
  BY DEF CheckOne, AlertsOf
<1>2. HealthTypeOK
  BY DEF HealthInv
<1>3. s \in Source /\ alerts \in Seq(Alert) /\ Len(alerts) <= MaxAlerts /\ NoSource \in Source
  BY <1>2 DEF HealthTypeOK, Alert, Source, NoSource
<1>4. raised \in Seq(Triggers)
  BY <1>3, SpikeRaised
<1>5. Spike(prev[m], count[m]) =>
        \E j \in DOMAIN raised : raised[j] = "ListenerDropSpike" /\ j >= Len(raised) - 1
  BY <1>3, SpikeRaised
<1> HIDE DEF raised
<1>6. /\ new \in Seq(Alert) /\ Len(new) = Len(raised) /\ DOMAIN new = DOMAIN raised
      /\ \A j \in DOMAIN new : new[j].mount = m /\ new[j].trigger = raised[j]
  <2> DEFINE n == Len(raised)
             alert(i) == [mount |-> m, trigger |-> raised[i], acknowledged |-> FALSE]
  <2>1. n \in Nat /\ DOMAIN raised = 1 .. n /\ \A i \in 1 .. n : raised[i] \in Triggers
    BY <1>4
  <2>2. \A i \in 1 .. n : alert(i) \in Alert /\ alert(i).mount = m /\ alert(i).trigger = raised[i]
    BY <2>1 DEF Alert
  <2>3. new = [i \in 1 .. n |-> alert(i)]
    BY <2>1 DEF AlertsOf
  <2>4. n = Len(raised)
    OBVIOUS
  <2> HIDE DEF n, alert, new
  <2> QED
    BY <2>1, <2>2, <2>3, <2>4
<1> HIDE DEF new
<1>7. /\ alerts' \in Seq(Alert) /\ Len(alerts') <= MaxAlerts
      /\ \A j \in DOMAIN new : j >= Len(new) - 1 =>
           \E i \in DOMAIN alerts' : i >= Len(alerts') - 1 /\ alerts'[i] = new[j]
  BY <1>1, <1>3, <1>6, PushedAtEnd
<1>8. Spike(prev[m], count[m]) =>
        \E i \in DOMAIN alerts' : /\ alerts'[i].mount = m
                                  /\ alerts'[i].trigger = "ListenerDropSpike"
                                  /\ i >= Len(alerts') - 1
  BY <1>5, <1>6, <1>7
<1>9. /\ prev' \in [Mounts -> Never .. MaxCount] /\ lastLook' \in [Mounts -> Never .. MaxCount]
      /\ polled' \in SUBSET Mounts /\ feed' \in [Mounts -> Source]
      /\ count' \in [Mounts -> 0 .. MaxCount]
  <2>1. count[m] \in Never .. MaxCount
    BY <1>2, HealthConstants DEF HealthTypeOK, Never
  <2> QED
    BY <1>1, <1>2, <2>1 DEF HealthTypeOK
<1>10. holds' \in [Checkers -> [Mounts -> Source]]
  BY <1>1, <1>2, <1>3 DEF HealthTypeOK
<1>11. HealthTypeOK'
  BY <1>7, <1>9, <1>10 DEF HealthTypeOK, Alert
<1>12. ASSUME NEW o \in Mounts \ polled' PROVE prev'[o] = lastLook'[o]
  <2>1. prev \in [Mounts -> Never .. MaxCount] /\ lastLook \in [Mounts -> Never .. MaxCount]
    BY <1>2 DEF HealthTypeOK
  <2>2. \A x \in Mounts \ polled : prev[x] = lastLook[x]
    BY DEF HealthInv
  <2>3. CASE o = m
    BY <1>1, <1>12, <2>1, <2>3
  <2>4. CASE o # m
    BY <1>1, <1>12, <2>1, <2>2, <2>4
  <2> QED
    BY <2>3, <2>4
<1> QED
  BY <1>8, <1>11, <1>12 DEF HealthInv

\* A drop that the worker looks at is raised.
SpikeStep ==
  \A m \in Mounts :
    Looks(m) /\ m \notin polled /\ Spike(lastLook[m], count[m]) =>
      \E i \in DOMAIN alerts' : /\ alerts'[i].mount = m
                                /\ alerts'[i].trigger = "ListenerDropSpike"
                                /\ i >= Len(alerts') - 1

\* A source goes on, and what the checks hold of it with it: no check has
\* looked.
LEMMA NobodyLooks ==
  ASSUME HealthInv, feed' \in [Mounts -> Source], holds' \in [Checkers -> [Mounts -> Source]],
         \A m \in Mounts : holds["worker"][m] # NoSource => holds'["worker"][m] # NoSource,
         UNCHANGED <<count, prev, alerts, lastLook, polled>>
  PROVE  HealthInv' /\ SpikeStep
<1>1. HealthTypeOK'
  BY DEF HealthInv, HealthTypeOK
<1>2. \A m \in Mounts : ~Looks(m)
  BY DEF Looks
<1> QED
  BY <1>1, <1>2 DEF HealthInv, SpikeStep

LEMMA SourceStep ==
  ASSUME HealthInv, NEW m \in Mounts,
         \/ SourceUp(m) \/ SourceGrows(m) \/ SourceEnds(m) \/ SourceLeaves(m)
  PROVE  HealthInv' /\ SpikeStep
<1>1. /\ feed \in [Mounts -> Source] /\ holds \in [Checkers -> [Mounts -> Source]]
      /\ NoSource \in Source /\ NoSource.state = "none"
  BY DEF HealthInv, HealthTypeOK, Source, NoSource
<1>2. UNCHANGED <<count, prev, alerts, lastLook, polled>>
  BY DEF SourceUp, SourceGrows, SourceEnds, SourceLeaves
<1>3. \A s \in Source : /\ [s EXCEPT !.state = "up"] \in Source
                        /\ [s EXCEPT !.state = "ended"] \in Source
                        /\ [s EXCEPT !.state = "ended"].state = "ended"
                        /\ [s EXCEPT !.big = TRUE] \in Source
                        /\ [s EXCEPT !.big = TRUE].state = s.state
  BY DEF Source
<1>4. feed' \in [Mounts -> Source]
  <2>1. \E s \in Source : feed' = [feed EXCEPT ![m] = s]
    <3>1. feed[m] \in Source
      BY <1>1
    <3>2. CASE SourceUp(m)
      <4>1. feed' = [feed EXCEPT ![m] = [feed[m] EXCEPT !.state = "up"]]
        BY <3>2 DEF SourceUp
      <4> QED
        BY <1>3, <3>1, <4>1
    <3>3. CASE SourceGrows(m)
      <4>1. feed' = [feed EXCEPT ![m] = [feed[m] EXCEPT !.big = TRUE]]
        BY <3>3 DEF SourceGrows
      <4> QED
        BY <1>3, <3>1, <4>1
    <3>4. CASE SourceEnds(m)
      <4>1. feed' = [feed EXCEPT ![m] = [feed[m] EXCEPT !.state = "ended"]]
        BY <3>4 DEF SourceEnds
      <4> QED
        BY <1>3, <3>1, <4>1
    <3>5. CASE SourceLeaves(m)
      BY <1>1, <3>5 DEF SourceLeaves
    <3> QED
      BY <3>2, <3>3, <3>4, <3>5
  <2> QED
    BY <1>1, <2>1
<1>5. CASE SourceUp(m) \/ SourceLeaves(m)
  <2>1. holds' = holds
    BY <1>5 DEF SourceUp, SourceLeaves
  <2> QED
    BY <1>1, <1>2, <1>4, <2>1, NobodyLooks
<1>6. ASSUME NEW after \in [Source -> Source],
             \A s \in Source : s.state = "up" => after[s].state # "none",
             \A k \in Checkers : holds'[k] = IF holds[k][m].state = "up"
                                             THEN [holds[k] EXCEPT ![m] = after[holds[k][m]]]
                                             ELSE holds[k],
             DOMAIN holds' = Checkers, holds' = [k \in Checkers |-> holds'[k]]
      PROVE  HealthInv' /\ SpikeStep
  <2>1. ASSUME NEW k \in Checkers
        PROVE  /\ holds'[k] \in [Mounts -> Source]
               /\ \A o \in Mounts : holds[k][o] # NoSource => holds'[k][o] # NoSource
    BY <1>1, <1>6, <2>1
  <2>2. holds' \in [Checkers -> [Mounts -> Source]]
    BY <1>6, <2>1
  <2>3. "worker" \in Checkers
    BY DEF Checkers
  <2> QED
    BY <1>2, <1>4, <2>1, <2>2, <2>3, NobodyLooks
<1>7. CASE SourceGrows(m)
  <2> DEFINE after == [s \in Source |-> [s EXCEPT !.big = TRUE]]
  <2>1. after \in [Source -> Source] /\ \A s \in Source : s.state = "up" => after[s].state # "none"
    BY <1>3
  <2>2. ASSUME NEW k \in Checkers
        PROVE  [holds[k] EXCEPT ![m].big = TRUE] = [holds[k] EXCEPT ![m] = after[holds[k][m]]]
    <3>1. holds[k][m] \in Source
      BY <1>1
    <3> QED
      BY <3>1
  <2>3. holds' = [k \in Checkers |-> IF holds[k][m].state = "up"
                                     THEN [holds[k] EXCEPT ![m].big = TRUE] ELSE holds[k]]
    BY <1>7 DEF SourceGrows
  <2> HIDE DEF after
  <2> QED
    BY <1>6, <2>1, <2>2, <2>3
<1>8. CASE SourceEnds(m)
  <2> DEFINE after == [s \in Source |-> [s EXCEPT !.state = "ended"]]
  <2>1. after \in [Source -> Source] /\ \A s \in Source : s.state = "up" => after[s].state # "none"
    BY <1>3
  <2>2. ASSUME NEW k \in Checkers
        PROVE  [holds[k] EXCEPT ![m].state = "ended"] = [holds[k] EXCEPT ![m] = after[holds[k][m]]]
    <3>1. holds[k][m] \in Source
      BY <1>1
    <3> QED
      BY <3>1
  <2>3. holds' = [k \in Checkers |-> IF holds[k][m].state = "up"
                                     THEN [holds[k] EXCEPT ![m].state = "ended"] ELSE holds[k]]
    BY <1>8 DEF SourceEnds
  <2> HIDE DEF after
  <2> QED
    BY <1>6, <2>1, <2>2, <2>3
<1> QED
  BY <1>5, <1>7, <1>8

LEMMA ReplacedInSeq ==
  ASSUME NEW S, NEW s \in Seq(S), NEW i \in DOMAIN s, NEW e \in S
  PROVE  [s EXCEPT ![i] = e] \in Seq(S) /\ Len([s EXCEPT ![i] = e]) = Len(s)
OBVIOUS

LEMMA HealthStep ==
  ASSUME HealthInv, [HealthNext]_healthVars
  PROVE  HealthInv' /\ SpikeStep
<1>1. /\ feed \in [Mounts -> Source] /\ holds \in [Checkers -> [Mounts -> Source]]
      /\ alerts \in Seq(Alert) /\ Len(alerts) <= MaxAlerts /\ HealthTypeOK
  BY DEF HealthInv, HealthTypeOK, Alert
<1>2. ASSUME holds' = holds, HealthTypeOK', UNCHANGED <<prev, lastLook, polled>>
      PROVE  HealthInv' /\ SpikeStep
  BY <1>2 DEF HealthInv, SpikeStep, Looks
<1>3. ASSUME NEW m \in Mounts, CountChanges(m) PROVE HealthInv' /\ SpikeStep
  <2>1. PICK n \in 0 .. MaxCount : count' = [count EXCEPT ![m] = n]
    BY <1>3 DEF CountChanges
  <2>2. count' \in [Mounts -> 0 .. MaxCount]
    BY <1>1, <2>1 DEF HealthTypeOK
  <2>3. UNCHANGED <<feed, prev, holds, alerts, lastLook, polled>>
    BY <1>3 DEF CountChanges
  <2>4. HealthTypeOK'
    BY <1>1, <2>2, <2>3 DEF HealthTypeOK
  <2> QED
    BY <1>2, <2>3, <2>4
<1>4. ASSUME NEW i \in 1 .. MaxAlerts, Acknowledge(i) PROVE HealthInv' /\ SpikeStep
  <2>1. i \in DOMAIN alerts /\ alerts[i] \in Alert
    BY <1>1, <1>4 DEF Acknowledge
  <2> DEFINE new == [alerts[i] EXCEPT !.acknowledged = TRUE]
  <2>2. new \in Alert
    BY <2>1 DEF Alert
  <2>3. alerts' = [alerts EXCEPT ![i] = new]
    BY <1>4 DEF Acknowledge
  <2> HIDE DEF new
  <2>4. alerts' \in Seq(Alert) /\ Len(alerts') = Len(alerts)
    BY <1>1, <2>1, <2>2, <2>3, ReplacedInSeq
  <2>5. UNCHANGED <<feed, count, prev, holds, lastLook, polled>>
    BY <1>4 DEF Acknowledge
  <2>6. HealthTypeOK'
    BY <1>1, <2>4, <2>5 DEF HealthTypeOK, Alert
  <2> QED
    BY <1>2, <2>5, <2>6
<1>5. ASSUME NEW k \in Checkers, StartCheck(k) PROVE HealthInv' /\ SpikeStep
  <2>1. /\ holds' = [holds EXCEPT ![k] = feed] /\ UNCHANGED <<feed, count, prev, alerts, lastLook, polled>>
        /\ \A m \in Mounts : holds[k][m] = NoSource
    BY <1>5 DEF StartCheck
  <2>2. "worker" \in Checkers
    BY DEF Checkers
  <2>3. \A m \in Mounts : holds["worker"][m] # NoSource => holds'["worker"][m] # NoSource
    BY <1>1, <2>1, <2>2
  <2>4. holds' \in [Checkers -> [Mounts -> Source]]
    BY <1>1, <2>1
  <2> QED
    BY <1>1, <2>1, <2>3, <2>4, NobodyLooks
<1>6. ASSUME NEW n \in Mounts, NEW k \in Checkers, NEW low \in BOOLEAN, NEW old \in BOOLEAN,
             CheckOne(k, n, low, old)
      PROVE  HealthInv' /\ SpikeStep
  <2>1. HealthInv'
    BY <1>6, CheckOneStep
  <2>2. ASSUME NEW m \in Mounts, Looks(m) PROVE m = n
    BY <1>1, <1>6, <2>2 DEF CheckOne, Looks, Checkers
  <2>3. ASSUME n \notin polled, Spike(lastLook[n], count[n])
        PROVE  \E i \in DOMAIN alerts' : /\ alerts'[i].mount = n
                                         /\ alerts'[i].trigger = "ListenerDropSpike"
                                         /\ i >= Len(alerts') - 1
    <3>1. prev[n] = lastLook[n]
      BY <2>3 DEF HealthInv
    <3> QED
      BY <1>6, <2>3, <3>1, CheckOneStep
  <2>4. SpikeStep
    BY <2>2, <2>3 DEF SpikeStep
  <2> QED
    BY <2>1, <2>4
<1>7. CASE UNCHANGED healthVars
  <2>1. HealthTypeOK'
    BY <1>1, <1>7 DEF healthVars, HealthTypeOK
  <2> QED
    BY <1>2, <1>7, <2>1 DEF healthVars
<1> QED
  BY <1>3, <1>4, <1>5, <1>6, <1>7, SourceStep DEF HealthNext

LEMMA HealthInvHolds == HealthSpec => []HealthInv
<1>1. HealthInit => HealthInv
  BY HealthConstants DEF HealthInit, HealthInv, HealthTypeOK, Source, NoSource, Never
<1> QED
  BY <1>1, HealthStep, PTL DEF HealthSpec

\* A mount that lost more than half of its listeners between two looks of the
\* worker has an alert after the second, for any number of mounts and any room
\* in the queue, unless a request has looked in between.
THEOREM SpikeReportedHolds == HealthSpec => SpikeReported
<1>1. HealthInv /\ [HealthNext]_healthVars => [SpikeStep]_healthVars
  BY HealthStep
<1>2. [][SpikeStep]_healthVars => SpikeReported
  BY DEF SpikeStep, SpikeReported
<1> QED
  BY <1>1, <1>2, HealthInvHolds, PTL DEF HealthSpec
-----------------------------------------------------------------------------
(* All parts together *)

\* The parts at work side by side keep what each of them promises.
THEOREM ServicesKeepPromises ==
  ServicesFairSpec => /\ [](SourceStripped /\ InStepUnlessAdrift /\ BootstrapHasAdmin)
                      /\ [](QuotaKept /\ SeriesIsLatest /\ AnswerCurrent)
                      /\ SpikeReported
BY PartsRefined, SourceStrippedHolds, InStepUnlessAdriftHolds, BootstrapHasAdminHolds,
   QuotaKeptHolds, SeriesIsLatestHolds, AnswerCurrentHolds, SpikeReportedHolds, PTL
=============================================================================
