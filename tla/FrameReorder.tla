---------------------------- MODULE FrameReorder ----------------------------
(***************************************************************************)
(* From decode order to display order: the third process of a stream       *)
(* (ProcessDecodeToManifest) with its table of accumulated buffers, what   *)
(* feeds it (the frame parser that numbers frames for display, the second  *)
(* process that records what it does not decode, the codec), and the       *)
(* calls in sequence that wait in it for a sequence number.                *)
(*                                                                         *)
(* Forward play, one decode per frame. Pausing and what overlapping drains *)
(* do to each other are in PlayerDrain; calls for a playback time, calls   *)
(* made by the drain itself and the buffer held for an early first frame   *)
(* are left out. A frame that is discarded before the parser only leaves a *)
(* gap in the sequence numbers and is left out as well.                    *)
(***************************************************************************)
EXTENDS Integers, Sequences, FiniteSets, FiniteSetsExt

CONSTANTS
    MaxFrames,      \* bound: frames that are parsed
    MaxJumps,       \* bound: input jumps, those of the drains excepted
    MaxDrains,      \* bound: drains
    MaxCalls,       \* bound: calls in sequence
    MaxAhead,       \* bound: how many elements a ring holds, or the codec
    Policies,       \* of the drains: subset of {"playout", "discard"}
    DecodeBuffers,           \* what GetDecodeBufferCount answers
    WorkingBuffers,          \* PLAYER_MINIMUM_NUMBER_OF_WORKING_DECODE_BUFFERS
    OutOfOrderLimit,         \* PLAYER_LIMIT_ON_OUT_OF_ORDER_DECODES
    MaxDiscarded,            \* PLAYER_MAX_DISCARDED_FRAMES
    MessageSlots,            \* PLAYER_MAX_DTOM_MESSAGES
    RingSize                 \* PLAYER_MAX_RING_SIZE

\* The difference is computed with unsigned integers.
ASSUME BuffersAssumption ==
    /\ {DecodeBuffers, WorkingBuffers, OutOfOrderLimit} \subseteq Nat
    /\ DecodeBuffers > WorkingBuffers

\* What is numbered while a marker is on its way fits below its number.
ASSUME RingAssumption ==
    /\ {MaxFrames, MaxJumps, MaxDrains, RingSize} \subseteq Nat
    /\ RingSize > 2 * (MaxFrames + MaxJumps + MaxDrains)

VARIABLES
    input,          \* jumps and markers behind the collated frames
    frame,          \* parameters of the parsed frames, in the order of decode
    jumps, drains,  \* counts, for the bounds
    calls,          \* the calls in sequence so far: their sequence number
    NextBufferSequenceNumber, NextDisplayFrameIndex,
    Deferred,       \* the reference frame whose display index is still open
    CollapseNext,   \* CollapseHolesInDisplayIndices of the parser
    parsed,         \* ParsedFrameRing
    inCodec,        \* the second process is in the codec with the head of parsed
    codec,          \* decodes in progress
    dropping,       \* how many of them are below DiscardDecodesUntil
    reference,      \* the last two reference frames; None: was not decoded
    decoded,        \* DecodedFrameRing
    NonDecoded,     \* NonDecodedBuffers, and those of them whose buffer is kept
    kept,
    DisplayIndicesCollapse,
    discarding,     \* DiscardingUntilMarkerFrame.. of the first three processes
    table,          \* AccumulatedDecodeBufferTable
    scanned,        \* the scan of the table is done, Extract comes next
    desired,        \* DesiredFrameIndex
    numbered,       \* SequenceNumber is not INVALID_SEQUENCE_VALUE
    seen,           \* MaximumActualSequenceNumberSeen
    marker,         \* MarkerFrameBuffer: its number
    display,        \* frames queued in the manifestor, the first one is shown
    last,           \* history: the frame that left the re-ordering last
    waiting,        \* calls on their way, before the insertion into the ring
    before          \* AccumulatedBeforeDtoMControlMessages

parser   == <<frame, NextBufferSequenceNumber, NextDisplayFrameIndex, Deferred, CollapseNext>>
bounds   == <<jumps, drains, calls>>
decoder  == <<inCodec, codec, dropping, reference>>
unused   == <<NonDecoded, kept, DisplayIndicesCollapse>>
reorder  == <<table, scanned, desired, numbered, seen, marker, last>>
messages == <<waiting, before>>
vars     == <<input, parser, bounds, parsed, decoder, decoded, unused, discarding,
              reorder, display, messages>>

None    == 0
Invalid == -1
Frames  == 1 .. MaxFrames
Stages  == {"CtoP", "PtoD", "DtoM"}
Entry(kind, n)    == [kind |-> kind, n |-> n]
Larger(a, b)      == IF a > b THEN a ELSE b
Smaller(a, b)     == IF a < b THEN a ELSE b
Elements(s)       == {s[i] : i \in 1 .. Len(s)}
Entries(s, kind)  == {x.n : x \in {y \in Elements(s) : y.kind = kind}}

Init ==
    /\ input = <<>> /\ frame = <<>> /\ jumps = 0 /\ drains = 0 /\ calls = <<>>
    /\ NextBufferSequenceNumber = 0 /\ NextDisplayFrameIndex = 0
    /\ Deferred = None /\ CollapseNext = TRUE
    /\ parsed = <<>> /\ inCodec = FALSE /\ codec = <<>> /\ dropping = 0 /\ reference = <<>>
    /\ decoded = <<>>
    /\ NonDecoded = {} /\ kept = {} /\ DisplayIndicesCollapse = 0
    /\ discarding = [s \in Stages |-> FALSE]
    /\ table = {} /\ scanned = FALSE /\ desired = 0
    /\ numbered = FALSE /\ seen = 0 /\ marker = Invalid /\ last = None
    /\ display = <<>> /\ waiting = {} /\ before = {}

Index(f)    == frame[f].index
Number(f)   == frame[f].number
Collapse(f) == frame[f].collapse
Known(f)    == Index(f) # Invalid

\* The frames and the markers that occupy a decode buffer.
Decoding == Entries(codec, "frame") \cup Entries(decoded, "frame") \cup table
              \cup (Elements(reference) \ {None}) \cup Elements(display)
Marking  == Entries(codec, "marker") \cup Entries(decoded, "marker")
              \cup ({marker} \ {Invalid})
FreeBuffer == Cardinality(Decoding) + Cardinality(Marking) < DecodeBuffers

-----------------------------------------------------------------------------
(* ProcessCollateToParse and the frame parser *)

\* CalculateFrameIndexAndPts: the next place in display order.
Placed(p) == [p EXCEPT !.index = NextDisplayFrameIndex, !.collapse = CollapseNext]

\* Variant: it never gets its place.
NeverSettled == frame

\* A reference frame is shown after those that follow it: it gets its place
\* when the next reference frame or an input jump comes.
Settled == IF Deferred = None THEN frame ELSE [frame EXCEPT ![Deferred] = Placed(@)]
Settle ==
    NextDisplayFrameIndex' = NextDisplayFrameIndex + (IF Deferred = None THEN 0 ELSE 1)

Unplaced(isReference) ==
    [number |-> NextBufferSequenceNumber, ref |-> isReference,
     index |-> Invalid, collapse |-> FALSE]

Parse ==
    /\ Len(frame) < MaxFrames
    /\ ~discarding["CtoP"]
    /\ Len(parsed) < MaxAhead
    /\ NextBufferSequenceNumber' = NextBufferSequenceNumber + 1
    /\ parsed' = Append(parsed, Entry("frame", Len(frame) + 1))
    /\ UNCHANGED <<input, bounds, decoder, decoded, unused, discarding, reorder,
                   display, messages>>

ParseReference ==
    /\ Parse
    /\ Settle
    /\ frame' = Append(Settled, Unplaced(TRUE))
    /\ Deferred' = Len(frame) + 1
    /\ CollapseNext' = (CollapseNext /\ Deferred = None)

ParseOther ==
    /\ Parse
    /\ frame' = Append(frame, Placed(Unplaced(FALSE)))
    /\ NextDisplayFrameIndex' = NextDisplayFrameIndex + 1
    /\ CollapseNext' = FALSE
    /\ UNCHANGED Deferred

\* An input jump: the deferred frame is placed, the next one closes the gap
\* in the indices, and the codec is told to forget its reference frames.
ParseJump ==
    /\ input # <<>> /\ Head(input).kind = "jump"
    /\ Len(parsed) < MaxAhead
    /\ input' = Tail(input)
    /\ NextBufferSequenceNumber' = NextBufferSequenceNumber + 1
    /\ Settle
    /\ frame' = Settled
    /\ Deferred' = None
    /\ CollapseNext' = TRUE
    /\ parsed' = Append(parsed, Entry("forget", None))
    /\ UNCHANGED <<bounds, decoder, decoded, unused, discarding, reorder, display, messages>>

\* The marker is passed on and the deferred frame is left as it is.
ParseMarker ==
    /\ input # <<>> /\ Head(input).kind = "marker"
    /\ Len(parsed) < MaxAhead
    /\ input' = Tail(input)
    /\ NextBufferSequenceNumber' = Head(input).n + 1
    /\ discarding' = [discarding EXCEPT !["CtoP"] = FALSE]
    /\ parsed' = Append(parsed, Head(input))
    /\ UNCHANGED <<frame, NextDisplayFrameIndex, Deferred, CollapseNext, bounds, decoder,
                   decoded, unused, reorder, display, messages>>

-----------------------------------------------------------------------------
(* ProcessParseToDecode and the codec *)

\* The reference list holds two frames: the release of the oldest one travels
\* right behind the frame that takes its place.
Remember(f, isDecoded) ==
    LET entry == IF isDecoded THEN f ELSE None
    IN reference' = IF ~frame[f].ref THEN reference
                    ELSE IF Len(reference) < 2 THEN Append(reference, entry)
                    ELSE Append(Tail(reference), entry)

\* What is passed to the codec waits in its Input for a decode buffer; a marker
\* ends the discarding before. Meanwhile the process does nothing else.
PassToCodec ==
    /\ parsed # <<>> /\ ~inCodec
    /\ \/ Head(parsed).kind = "frame" /\ ~discarding["PtoD"] /\ UNCHANGED discarding
       \/ Head(parsed).kind = "marker" /\ discarding' = [discarding EXCEPT !["PtoD"] = FALSE]
    /\ inCodec' = TRUE
    /\ UNCHANGED <<input, parser, bounds, parsed, codec, dropping, reference, decoded, unused,
                   reorder, display, messages>>

Decode ==
    /\ inCodec /\ inCodec' = FALSE
    /\ FreeBuffer
    /\ Len(codec) < MaxAhead
    /\ parsed' = Tail(parsed)
    /\ codec' = Append(codec, Head(parsed))
    /\ IF Head(parsed).kind = "frame" THEN Remember(Head(parsed).n, TRUE) ELSE UNCHANGED reference
    /\ UNCHANGED <<input, parser, bounds, dropping, decoded, unused, discarding, reorder,
                   display, messages>>

\* The frame is not decoded: it is late, or everything is discarded. Its index
\* is recorded, or its buffer as long as the index is open; when the table is
\* full the frame is forgotten.
DropFrame ==
    /\ ~inCodec
    /\ parsed # <<>> /\ Head(parsed).kind = "frame"
    /\ parsed' = Tail(parsed)
    /\ LET f == Head(parsed).n
       IN /\ Remember(f, FALSE)
          /\ IF Cardinality(NonDecoded) = MaxDiscarded
             THEN UNCHANGED unused
             ELSE /\ NonDecoded' = NonDecoded \cup {f}
                  /\ kept' = IF Known(f) THEN kept ELSE kept \cup {f}
                  /\ DisplayIndicesCollapse' =
                       IF Known(f) /\ (discarding["PtoD"] \/ Collapse(f))
                       THEN Larger(DisplayIndicesCollapse, Index(f))
                       ELSE DisplayIndicesCollapse
    /\ UNCHANGED <<input, parser, bounds, inCodec, codec, dropping, decoded, discarding,
                   reorder, display, messages>>

\* The release of all reference frames.
Forget ==
    /\ parsed # <<>> /\ Head(parsed).kind = "forget"
    /\ parsed' = Tail(parsed)
    /\ reference' = <<>>
    /\ UNCHANGED <<input, parser, bounds, inCodec, codec, dropping, decoded, unused, discarding,
                   reorder, display, messages>>

\* A decode ends: the buffer is put into the ring, or released when it is one
\* of those to be discarded. A marker waits for the decodes before it.
DecodeDone ==
    /\ codec # <<>>
    /\ Len(decoded) < MaxAhead
    /\ codec' = Tail(codec)
    /\ IF Head(codec).kind = "frame" /\ dropping > 0
       THEN dropping' = dropping - 1 /\ UNCHANGED decoded
       ELSE decoded' = Append(decoded, Head(codec)) /\ UNCHANGED dropping
    /\ UNCHANGED <<input, parser, bounds, inCodec, parsed, reference, unused, discarding, reorder,
                   display, messages>>

-----------------------------------------------------------------------------
(* ProcessDecodeToManifest *)

\* Variant: one buffer less.
MaxDecodesLess1 == Smaller(OutOfOrderLimit, DecodeBuffers - WorkingBuffers - 1)

MaxDecodesOutOfOrder ==
    Smaller(OutOfOrderLimit,
            Smaller(DecodeBuffers - WorkingBuffers, DecodeBuffers \div 2))

\* The frame that the scan of the table finds, and whether it may go.
Lowest(f) ==
    f \in table /\ Known(f) /\ \A g \in table : Known(g) => Index(f) <= Index(g)

\* Variants: a full table, a marker is no reason.
WhenDueOrMarked(f) ==
    Lowest(f) /\ (Index(f) = desired \/ Collapse(f) \/ marker # Invalid)
WhenDueOrFull(f) ==
    Lowest(f) /\ (Index(f) = desired \/ Collapse(f) \/ Cardinality(table) >= MaxDecodesOutOfOrder)

Releasable(f) ==
    /\ Lowest(f)
    /\ \/ Index(f) = desired
       \/ Cardinality(table) >= MaxDecodesOutOfOrder
       \/ Collapse(f)
       \/ marker # Invalid

\* Variant: the highest number so far.
HighestSeen(highest) == highest

\* The sequence number of a leaving frame: the least one that is still in the
\* table (as the scan found it), but none that was not seen yet.
Renumbered(highest) == Min({highest} \cup {Number(f) : f \in table})

\* ProcessAccumulatedControlMessages
Perform(n) == before' = {c \in before : calls[c] > n}

\* The frame leaves the re-ordering: the calls up to its sequence number are
\* made, and it is queued or released.
Leave(f) ==
    /\ seen' = Larger(Number(f), seen)
    /\ Perform(Renumbered(seen'))
    /\ desired' = Index(f) + 1
    /\ last' = f
    /\ \/ ~discarding["DtoM"] /\ display' = Append(display, f)
       \/ UNCHANGED display

ScanRelease(f) ==
    /\ ~scanned
    /\ Releasable(f)
    /\ table' = table \ {f}
    /\ Leave(f)
    /\ UNCHANGED <<input, parser, bounds, parsed, decoder, decoded, unused, discarding,
                   scanned, numbered, marker, waiting>>

\* CheckForNonDecodedFrame in its loop. The buffers whose index is known by
\* now are released; an index is skipped when it is in the table, or below
\* DisplayIndicesCollapse and the table is not empty; what is not above the
\* index leaves the table.
NowKnown == {f \in kept : Known(f)}
Collapsed ==
    Max({DisplayIndicesCollapse}
          \cup {Index(f) : f \in {g \in NowKnown : discarding["DtoM"] \/ Collapse(g)}})
Remaining(d) == {f \in NonDecoded : ~Known(f) \/ Index(f) >= d \/ d = desired}
Skipped(d) ==
    /\ Remaining(d) # {}
    /\ d < Collapsed \/ \E f \in NonDecoded : Index(f) = d
SkipUnused ==
    /\ desired' = CHOOSE d \in desired .. NextDisplayFrameIndex :
                     ~Skipped(d) /\ \A e \in desired .. d - 1 : Skipped(e)
    /\ DisplayIndicesCollapse' = Collapsed
    /\ kept' = kept \ NowKnown
    /\ NonDecoded' = {f \in NonDecoded : ~Known(f) \/ Index(f) > desired'}

\* Variant: the table really is empty.
TableEmpty == table = {}

\* Nothing in the table may go.
Emptied == ~\E f \in table : Releasable(f)

\* Then unused indices are skipped, and a marker is passed on before the next
\* buffer is taken from the ring.
ScanPassMarker ==
    /\ ~scanned /\ marker # Invalid /\ Emptied
    /\ SkipUnused
    /\ seen' = Larger(marker, seen)
    /\ Perform(marker)
    /\ discarding' = [discarding EXCEPT !["DtoM"] = FALSE]
    /\ marker' = Invalid
    /\ UNCHANGED <<input, parser, bounds, parsed, decoder, decoded, table, scanned, numbered,
                   last, display, waiting>>
ScanOn ==
    /\ ~scanned /\ scanned' = TRUE
    /\ ~\E f \in table : Releasable(f)
    /\ ~(marker # Invalid /\ Emptied)
    /\ SkipUnused
    /\ UNCHANGED <<input, parser, bounds, parsed, decoder, decoded, discarding, table, numbered,
                   seen, marker, last, display, messages>>

\* Extract of DecodedFrameRing ends with an element, or by time when the ring
\* is empty (the NULL that RecordNonDecodedFrame puts in ends it earlier).
Take(kind) ==
    /\ scanned /\ scanned' = FALSE
    /\ decoded # <<>> /\ Head(decoded).kind = kind
    /\ decoded' = Tail(decoded)
    /\ UNCHANGED <<input, parser, bounds, parsed, decoder, unused, discarding, waiting>>

TimeOut ==
    /\ scanned /\ scanned' = FALSE
    /\ decoded = <<>>
    /\ UNCHANGED <<input, parser, bounds, parsed, decoder, decoded, unused, discarding,
                   table, desired, numbered, seen, marker, last, display, messages>>

\* A frame that is due leaves at once, the others go into the table.
TakeFrame ==
    /\ Take("frame")
    /\ numbered' = TRUE
    /\ UNCHANGED <<table, marker>>
    /\ Known(Head(decoded).n) /\ Index(Head(decoded).n) <= desired
    /\ Leave(Head(decoded).n)
KeepFrame ==
    /\ Take("frame")
    /\ numbered' = TRUE
    /\ ~(Known(Head(decoded).n) /\ Index(Head(decoded).n) <= desired)
    /\ table' = table \cup {Head(decoded).n}
    /\ UNCHANGED <<desired, seen, marker, last, display, before>>

TakeMarker ==
    /\ Take("marker")
    /\ numbered' = TRUE
    /\ marker' = Head(decoded).n
    /\ UNCHANGED <<table, desired, seen, last, display, before>>

\* A call is made when its number was seen, and is dropped when the table of
\* those that wait is full.
TakeCall ==
    /\ Take("call")
    /\ LET c == Head(decoded).n
       IN before' = IF (numbered /\ calls[c] <= seen) \/ Cardinality(before) = MessageSlots
                    THEN before ELSE before \cup {c}
    /\ UNCHANGED <<table, desired, numbered, seen, marker, last, display>>

-----------------------------------------------------------------------------
(* The manifestor, and the users of the player *)

\* The next frame is shown, and the buffer of the one before is released.
Show ==
    /\ Len(display) > 1
    /\ display' = Tail(display)
    /\ UNCHANGED <<input, parser, bounds, parsed, decoder, decoded, unused, discarding,
                   reorder, messages>>

Jump ==
    /\ jumps < MaxJumps
    /\ jumps' = jumps + 1
    /\ input' = Append(input, Entry("jump", None))
    /\ UNCHANGED <<parser, drains, calls, parsed, decoder, decoded, unused, discarding,
                   reorder, display, messages>>

\* InternalDrainStream. A drain that discards jumps in the input, discards the
\* decodes in progress and releases all queued frames but the one on display.
DrainSequenceNumber == NextBufferSequenceNumber + RingSize
Drain(policy) ==
    /\ drains < MaxDrains
    /\ Entries(input, "marker") = {}
    /\ drains' = drains + 1
    /\ IF policy = "discard"
       THEN /\ discarding' \in {[s \in Stages |-> s # "CtoP" \/ all] : all \in BOOLEAN}
            /\ dropping' = Cardinality(Entries(codec, "frame"))
            /\ display' = SubSeq(display, 1, Smaller(1, Len(display)))
            /\ input' = input \o <<Entry("jump", None), Entry("marker", DrainSequenceNumber)>>
       ELSE /\ input' = Append(input, Entry("marker", DrainSequenceNumber))
            /\ UNCHANGED <<discarding, dropping, display>>
    /\ UNCHANGED <<parser, jumps, calls, parsed, inCodec, codec, reference, decoded, unused, reorder,
                   messages>>

\* SetModuleParameters in sequence: the next sequence number is read, and the
\* call is put into the ring later.
CallRead ==
    /\ Len(calls) < MaxCalls
    /\ calls' = Append(calls, NextBufferSequenceNumber)
    /\ waiting' = waiting \cup {Len(calls) + 1}
    /\ UNCHANGED <<input, parser, jumps, drains, parsed, decoder, decoded, unused,
                   discarding, reorder, display, before>>
CallInSequence(c) ==
    /\ c \in waiting
    /\ Len(decoded) < MaxAhead
    /\ waiting' = waiting \ {c}
    /\ decoded' = Append(decoded, Entry("call", c))
    /\ UNCHANGED <<input, parser, bounds, parsed, decoder, unused, discarding, reorder,
                   display, before>>

-----------------------------------------------------------------------------
CollateToParse   == ParseJump \/ ParseMarker
ParseToDecode    == PassToCodec \/ Decode \/ DropFrame \/ Forget
DecodeToManifest ==
    \/ \E f \in table : ScanRelease(f)
    \/ ScanPassMarker \/ ScanOn \/ TimeOut \/ TakeFrame \/ KeepFrame \/ TakeMarker \/ TakeCall
Users ==
    \/ ParseReference \/ ParseOther \/ Jump \/ CallRead
    \/ \E p \in Policies : Drain(p)
    \/ \E c \in waiting : CallInSequence(c)
Next == CollateToParse \/ ParseToDecode \/ DecodeDone \/ DecodeToManifest \/ Show \/ Users

Spec == Init /\ [][Next]_vars

\* The threads run, a decode ends, a queued frame is shown in time.
FairSpec ==
    Spec /\ WF_vars(CollateToParse) /\ WF_vars(ParseToDecode) /\ WF_vars(DecodeDone)
         /\ WF_vars(DecodeToManifest) /\ WF_vars(Show)

-----------------------------------------------------------------------------
(* Properties *)

\* The variables have their types; a frame has its place in the order of
\* decode and of display at most once, and only the deferred one has none.
TypeOK ==
    /\ frame \in Seq([number : Nat, ref : BOOLEAN, index : Nat \cup {Invalid},
                      collapse : BOOLEAN])
    /\ Deferred \in {None} \cup DOMAIN frame
    /\ \A f \in DOMAIN frame : Known(f) <=> f # Deferred
    /\ \A x \in Elements(input \o parsed \o codec \o decoded) :
         x.kind \in {"frame", "forget", "jump", "marker", "call"} /\ x.n \in Nat
    /\ NonDecoded \subseteq DOMAIN frame /\ kept \subseteq NonDecoded
    /\ table \subseteq DOMAIN frame
    /\ {last, dropping, seen, desired, DisplayIndicesCollapse} \subseteq Nat
    /\ marker \in Nat \cup {Invalid}
    /\ discarding \in [Stages -> BOOLEAN]
    /\ {scanned, numbered, inCodec, CollapseNext} \subseteq BOOLEAN
    /\ waiting \cup before \subseteq DOMAIN calls

\* A marker leaves a gap in the sequence numbers.
MarkerBetween(f, g) == Number(g) - Number(f) > RingSize \div 2

\* Frames leave the re-ordering in display order, whatever was dropped before
\* or after decode and however many indices are missing; a marker separates
\* what was in front of it from what follows. (An index at or below
\* DisplayIndicesCollapse may be overtaken: see the README.)
LeavesInOrder ==
    [][last' # last /\ last # None =>
         \/ frame'[last].index < frame'[last'].index
         \/ frame'[last'].index <= DisplayIndicesCollapse
         \/ MarkerBetween(last, last')]_vars

\* A call that waits for its sequence number is never made while a frame with
\* a lower number is still to be shown, whether its place is known or not.
CallsNotEarly ==
    [][\A c \in before \ before' :
         \A f \in (Entries(codec, "frame") \cup Entries(decoded, "frame") \cup table)' :
           Number(f) >= calls[c]]_vars

\* Behind a marker nothing is left of what was in front of it, but for the
\* frame whose place is open.
MarkerIsLast ==
    [][marker # Invalid /\ marker' = Invalid =>
         \A f \in table \cup Entries(codec, "frame") \cup Entries(decoded, "frame") :
           Number(f) < marker => f = Deferred]_vars

\* The table leaves buffers for the decodes: it never holds more than what may
\* be decoded out of order.
TableLeavesBuffers == Cardinality(table) <= MaxDecodesOutOfOrder

\* Every marker comes through and the drain ends, with the decode buffers that
\* there are, even when one is needed for the marker itself.
MarkersPass ==
    <>[](Entries(input, "marker") \cup Entries(parsed, "marker")
           \cup Entries(codec, "marker") \cup Entries(decoded, "marker") = {}
           /\ marker = Invalid)

\* player_process_decode_to_manifest.cpp:203: "If we get here with a marker frame,
\* then we have emptied our accumulated list". Does not hold (see the README).
MarkerEmptiesTable ==
    [][marker # Invalid /\ marker' = Invalid => table = {}]_vars

\* player_process_decode_to_manifest.cpp:367: a frame with a lower index than
\* expected is an implementation error. Does not hold (see the README).
NoReorderingFailure ==
    [][last' # last => frame'[last'].index >= desired]_vars

=============================================================================
