----------------------------- MODULE IcyStream -----------------------------
(***************************************************************************)
(* In-stream ICY metadata (IcyMetaParser, IcyMetaInserter and              *)
(* write_with_icy_metadata of src/lib.rs).  A source that was told an      *)
(* interval puts a metadata block behind every Metaint bytes of audio; the *)
(* server strips the blocks, keeps what they say, and puts blocks of its   *)
(* own into what it sends to a listener that asked for them.  Both sides   *)
(* count bytes, and nothing marks a block but the count.                   *)
(*                                                                         *)
(* A byte is audio, the length of a block or part of a payload.  A payload *)
(* is known by what its sender says and its size in units of UnitBytes     *)
(* (16); the server may read something else in it, since nothing keeps a   *)
(* ';' out of a text.  The loops of feed and of write_with_icy_metadata go *)
(* byte by byte, where the code takes at once what belongs together.       *)
(***************************************************************************)
EXTENDS Integers, Sequences

CONSTANTS Texts,      \* titles and urls
          NoText,     \* None
          Units,      \* the room each text takes in a payload, in units
          Kept,       \* what is read of each text: up to a ';', as UTF-8
          Brings,     \* the fields of its own that a text holds behind a ';'
          UnitBytes,  \* bytes of a unit (16)
          LenBytes,   \* the values of a length byte (256)
          Metaint,    \* the interval (8192 for every format that has one)
          ReadSize,   \* the size of a read from a source (8192)
          MaxUnread,  \* bound: audio stored and not yet read by the listener
          MaxLine,    \* bound: bytes on the way to the listener at which the
                      \* server waits
          MaxIntro    \* bound: bytes of an intro file

\* A read is never longer than the interval (lib.rs:682, format/mod.rs:114).
ASSUME IcyAssumption ==
  /\ NoText \notin Texts
  /\ Units \in [Texts -> 1 .. LenBytes - 1]
  /\ {UnitBytes, LenBytes, Metaint, ReadSize, MaxUnread, MaxLine} \subseteq Nat \ {0}
  /\ ReadSize <= Metaint
  /\ MaxIntro \in Nat

VARIABLES
  encoder,   \* the source's side: audio to come until its next block, and
             \* what is to come of a payload
  wire,      \* sent by the source and not yet parsed
  pending,   \* how many bytes of it are the data of feed
  reader,    \* where the read loop of the source's connection is
  parser,    \* icy_parser of the source's connection
  audio,     \* what feed has collected: audio,
  parsed,    \* and the last block that was complete
  metadata,  \* the source's title and url
  clean,     \* history: the audio in what feed was given so far
  said,      \* history: what the blocks of the source have said, as read
  unread,    \* stored audio that the listener has not read
  joined,    \* the listener is being served
  writing,   \* data and metadata of the write to the listener
  inserter,  \* meta_inserter of the listener
  line,      \* written to the listener and not yet received
  client,    \* the listener's side, a parser like the server's
  misheard,  \* history: it took a byte for what it is not
  adrift     \* history: the two ends no longer count from the same byte

sourceVars == <<encoder, wire, pending, reader, parser, audio, parsed, metadata, clean, said>>
listenerVars == <<joined, writing, inserter, line, client, misheard, adrift>>
icyVars == <<sourceVars, unread, listenerVars>>

Metadata == [title : Texts \cup {NoText}, url : Texts \cup {NoText}]
Nothing == [title |-> NoText, url |-> NoText]

\* A text may be read as any other (lib.rs:485, 549) and bring any fields.
ASSUME TextAssumption == Kept \in [Texts -> Texts] /\ Brings \in [Texts -> Metadata]

Audio == [is |-> "audio"]
LengthByte(n) == [is |-> "length", units |-> n]
PayloadByte(meta, rest) == [is |-> "payload", says |-> meta, rest |-> rest]

Byte ==
  [is : {"audio"}] \cup [is : {"length"}, units : Nat]
    \cup [is : {"payload"}, says : Metadata, rest : Nat]

\* The room of a payload; a field that is None takes none.
Room(text) == IF text = NoText THEN 0 ELSE Units[text]
UnitsOf(meta) == Room(meta.title) + Room(meta.url)

\* A block: the length as one byte, then the padded payload.
Block(meta) ==
  <<LengthByte(UnitsOf(meta) % LenBytes)>>
    \o [k \in 1 .. UnitsOf(meta) * UnitBytes |->
          PayloadByte(meta, UnitsOf(meta) * UnitBytes - k)]

\* The fields that a payload has replace those before it.
Updated(old, meta) ==
  [f \in {"title", "url"} |-> IF meta[f] = NoText THEN old[f] ELSE meta[f]]

\* parse_icy_metadata: the title, then the url, each with the fields behind it.
FieldsOf(meta, f) ==
  IF meta[f] = NoText THEN Nothing
  ELSE Updated([Nothing EXCEPT ![f] = Kept[meta[f]]], Brings[meta[f]])
parse_icy_metadata(meta) == Updated(FieldsOf(meta, "title"), FieldsOf(meta, "url"))

-----------------------------------------------------------------------------
\* IcyMetaParser: what is left of the audio, or of a block.  `lost` is of the
\* model only: it took something else for a length or a payload.
Fresh == [remaining_audio |-> Metaint, meta_len |-> 0, lost |-> FALSE]

\* What the next byte is taken for.
Takes(p) ==
  IF p.meta_len > 0 THEN "payload" ELSE IF p.remaining_audio > 0 THEN "audio" ELSE "length"

\* feed, for one byte; behind a block the interval begins afresh.
FeedByte(p, b) ==
  LET as == Takes(p)
  IN  CASE as = "audio" -> [p EXCEPT !.remaining_audio = @ - 1]
        [] as # "audio" /\ (p.lost \/ b.is # as) -> [p EXCEPT !.lost = TRUE]
        [] as = "length" /\ ~p.lost /\ b.is = as ->
             IF b.units = 0 THEN Fresh ELSE [p EXCEPT !.meta_len = b.units * UnitBytes]
        [] as = "payload" /\ ~p.lost /\ b.is = as ->
             IF p.meta_len = 1 THEN Fresh ELSE [p EXCEPT !.meta_len = @ - 1]

\* IcyMetaInserter::block: a zero when nothing changed or nothing is known.
Unchanged(ins, meta) == ins.last = meta \/ meta = Nothing
InsertedBlock(ins, meta) == IF Unchanged(ins, meta) THEN <<LengthByte(0)>> ELSE Block(meta)

-----------------------------------------------------------------------------
NewInserter == [remaining_audio |-> Metaint, last |-> Nothing]
NewEncoder == [left |-> Metaint, rest |-> 0, says |-> Nothing]
NoWrite == [data |-> <<>>, meta |-> Nothing]

Parser == [remaining_audio : 0 .. Metaint, meta_len : Nat, lost : BOOLEAN]

IcyTypeOK ==
  /\ encoder \in [left : 0 .. Metaint, rest : Nat, says : Metadata]
  /\ {wire, line} \subseteq Seq(Byte)
  /\ Len(wire) <= ReadSize /\ pending \in 0 .. Len(wire)
  /\ reader \in {"read", "feed", "store"}
  /\ parser \in Parser /\ ~parser.lost
  /\ {parsed, metadata, said} \subseteq Metadata
  /\ {audio, clean, unread} \subseteq Seq({Audio}) /\ Len(unread) <= MaxUnread
  /\ joined \in {"no", "plain", "icy"}
  /\ writing \in [data : Seq({Audio}), meta : Metadata]
  /\ inserter \in [remaining_audio : 0 .. Metaint, last : Metadata]
  /\ client \in Parser
  /\ misheard \in BOOLEAN /\ adrift \in BOOLEAN

IcyInit ==
  /\ encoder = NewEncoder /\ wire = <<>> /\ pending = 0 /\ reader = "read"
  /\ parser = Fresh /\ audio = <<>> /\ parsed = Nothing
  /\ metadata = Nothing /\ clean = <<>> /\ said = Nothing /\ unread = <<>>
  /\ joined = "no" /\ writing = NoWrite /\ inserter = NewInserter
  /\ line = <<>> /\ client = Fresh /\ misheard = FALSE /\ adrift = FALSE

\* What a source may send in a given phase, as the byte and the phase after it:
\* the next byte of a payload or of the interval, or the length of a block.
NextBytes(phase) ==
  IF phase.rest > 0
  THEN {<<PayloadByte(phase.says, phase.rest - 1), [phase EXCEPT !.rest = @ - 1]>>}
  ELSE IF phase.left > 0 THEN {<<Audio, [phase EXCEPT !.left = @ - 1]>>}
  ELSE {<<LengthByte(UnitsOf(meta)),
          [left |-> Metaint, rest |-> UnitsOf(meta) * UnitBytes, says |-> meta]>> :
            meta \in {n \in Metadata : UnitsOf(n) < LenBytes}}

\* The source sends its next byte.
Encode ==
  /\ Len(wire) < ReadSize
  /\ \E next \in NextBytes(encoder) : wire' = Append(wire, next[1]) /\ encoder' = next[2]
  /\ UNCHANGED <<pending, reader, parser, audio, parsed, metadata, clean, said, unread, listenerVars>>

\* Mutant: a block that a read cuts in two is forgotten.
ReadAnew(n) ==
  /\ reader = "read" /\ n <= Len(wire)
  /\ pending' = n /\ reader' = "feed" /\ parser' = [parser EXCEPT !.meta_len = 0]
  /\ UNCHANGED <<encoder, wire, audio, parsed, metadata, clean, said, unread, listenerVars>>

\* A read returns n bytes.
ReadSource(n) ==
  /\ reader = "read" /\ n <= Len(wire)
  /\ pending' = n /\ reader' = "feed"
  /\ UNCHANGED <<encoder, wire, parser, audio, parsed, metadata, clean, said, unread, listenerVars>>

\* feed takes the next byte of them.
FeedNext ==
  LET b == Head(wire)
      ends == parser.meta_len = 1 /\ b.is = "payload"
  IN  /\ reader = "feed" /\ pending > 0
      /\ wire' = Tail(wire) /\ pending' = pending - 1
      /\ parser' = FeedByte(parser, b)
      /\ audio' = IF Takes(parser) = "audio" THEN Append(audio, b) ELSE audio
      /\ parsed' = IF ends THEN parse_icy_metadata(b.says) ELSE parsed
      /\ clean' = IF b.is = "audio" THEN Append(clean, b) ELSE clean
      /\ said' = IF b.is = "payload" /\ b.rest = 0
                 THEN Updated(said, parse_icy_metadata(b.says)) ELSE said
      /\ UNCHANGED <<encoder, reader, metadata, unread, listenerVars>>

\* The last block of them goes to the metadata,
StoreTitle ==
  /\ reader = "feed" /\ pending = 0
  /\ metadata' = Updated(metadata, parsed) /\ reader' = "store"
  /\ UNCHANGED <<encoder, wire, pending, parser, audio, parsed, clean, said, unread, listenerVars>>

\* and the audio to the buffer.
StoreAudio ==
  /\ reader = "store"
  /\ Len(unread) + Len(audio) <= MaxUnread
  /\ unread' = unread \o audio /\ reader' = "read"
  /\ audio' = <<>> /\ parsed' = Nothing /\ clean' = <<>>
  /\ UNCHANGED <<encoder, wire, pending, parser, metadata, said, listenerVars>>

\* A listener is answered, with k bytes of an intro, and starts at the end of
\* the buffer.
Join(k) ==
  /\ joined = "no"
  /\ joined' \in {"plain", "icy"}
  /\ line' = IF joined' = "icy" THEN [i \in 1 .. k |-> Audio] ELSE <<>>
  /\ adrift' = (joined' = "icy" /\ k > 0)
  /\ unread' = <<>>
  /\ UNCHANGED <<sourceVars, writing, inserter, client, misheard>>

\* What there is in the buffer is written to the listener, with the metadata
\* of this moment; without blocks, it just goes out.
Listen ==
  /\ joined # "no" /\ unread # <<>> /\ writing.data = <<>>
  /\ writing' = IF joined = "icy" THEN [data |-> unread, meta |-> metadata] ELSE writing
  /\ unread' = <<>>
  /\ UNCHANGED <<sourceVars, joined, inserter, line, client, misheard, adrift>>

\* Mutant: the block is put in before the last byte of the interval.
WriteEarly ==
  /\ writing.data # <<>> /\ Len(line) < MaxLine
  /\ IF inserter.remaining_audio = 1
     THEN /\ line' = line \o InsertedBlock(inserter, writing.meta)
          /\ inserter' = [remaining_audio |-> Metaint, last |-> writing.meta]
          /\ UNCHANGED <<writing, adrift>>
     ELSE /\ line' = Append(line, Head(writing.data))
          /\ inserter' = [inserter EXCEPT !.remaining_audio = @ - 1]
          /\ writing' = [writing EXCEPT !.data = Tail(@)]
          /\ UNCHANGED adrift
  /\ UNCHANGED <<sourceVars, unread, joined, client, misheard>>

\* write_with_icy_metadata: a block that is due, or the next byte of audio.
WriteNext ==
  /\ writing.data # <<>> /\ Len(line) < MaxLine
  /\ IF inserter.remaining_audio = 0
     THEN /\ line' = line \o InsertedBlock(inserter, writing.meta)
          /\ inserter' = [remaining_audio |-> Metaint, last |-> writing.meta]
          /\ adrift' = \/ adrift
                       \/ ~Unchanged(inserter, writing.meta) /\ UnitsOf(writing.meta) >= LenBytes
          /\ UNCHANGED writing
     ELSE /\ line' = Append(line, Head(writing.data))
          /\ inserter' = [inserter EXCEPT !.remaining_audio = @ - 1]
          /\ writing' = [writing EXCEPT !.data = Tail(@)]
          /\ UNCHANGED adrift
  /\ UNCHANGED <<sourceVars, unread, joined, client, misheard>>

\* The listener receives the next byte, and counts.
Hear ==
  /\ line # <<>>
  /\ line' = Tail(line)
  /\ client' = FeedByte(client, Head(line))
  /\ misheard' = (misheard \/ Takes(client) # Head(line).is)
  /\ UNCHANGED <<sourceVars, unread, joined, writing, inserter, adrift>>

\* Another source takes the place of this one, whose read loop has ended: one
\* that has just connected, or is as far as this one was.
AnotherSource ==
  \/ /\ reader = "read"
     /\ encoder' = NewEncoder /\ wire' = <<>> /\ parser' = Fresh
     /\ metadata' = Nothing /\ said' = Nothing
     /\ UNCHANGED <<pending, reader, audio, parsed, clean>>
  \/ UNCHANGED sourceVars

\* The listener is moved to another source: it starts at its end, with a new
\* inserter.
Move ==
  /\ joined # "no" /\ writing.data = <<>>
  /\ AnotherSource
  /\ unread' = <<>>
  /\ inserter' = NewInserter
  /\ adrift' = (adrift \/ (joined = "icy" /\ inserter.remaining_audio # Metaint))
  /\ UNCHANGED <<joined, writing, line, client, misheard>>

IcyNext ==
  \/ Encode \/ (\E n \in 1 .. ReadSize : ReadSource(n))
  \/ FeedNext \/ StoreTitle \/ StoreAudio
  \/ (\E k \in 0 .. MaxIntro : Join(k)) \/ Listen \/ WriteNext \/ Hear \/ Move

IcySpec == IcyInit /\ [][IcyNext]_icyVars
-----------------------------------------------------------------------------
\* "so listeners only receive clean audio" (lib.rs:500-501): wherever the reads
\* cut the stream, what is collected of one is its audio.
AudioClean == audio = clean

\* The source's metadata is what is read in its blocks, taken one by one: none
\* is missed when it is cut in two, or when one says only the title and the
\* next only the url, although feed returns one block of a read only.
TitleKnown == reader # "feed" => metadata = said

\* Nothing of a source's blocks goes to the audio, and every block is read.
SourceStripped == AudioClean /\ TitleKnown

\* A listener who counts to the interval takes every byte for what it is, as
\* long as no intro, no move in mid-interval and no block of more than
\* LenBytes - 1 units (lib.rs:1293, 1388 and 605) has put it out of step.
InStepUnlessAdrift == ~adrift => ~misheard

\* "Inserts SHOUTcast in-stream metadata blocks into the audio sent to a
\* listener every `metaint` audio bytes" (lib.rs:562-563): a listener who
\* counts finds the blocks where they are.
BlocksWhereExpected == ~misheard
=============================================================================
