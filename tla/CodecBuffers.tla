---------------------------- MODULE CodecBuffers ----------------------------
(***************************************************************************)
(* The decode buffers of a video codec (Codec_MmeBase_c, Codec_MmeVideo_c):*)
(* the second process of a stream prepares decodes and sends them to the   *)
(* co-processor, whose thread calls back as each one ends; a drain cuts in *)
(* from a user's thread; the later processes give the buffers back. The    *)
(* table BufferState, the map of decode indices and the current buffer are *)
(* shared by all of them, only partly under the codec's Lock.              *)
(*                                                                         *)
(* A picture is a frame or one of two fields that share a buffer; slices,  *)
(* stream parameters, macroblock structures, the contexts' own buffers and *)
(* the shutdown are left out. What is done under the Lock is one step.     *)
(***************************************************************************)
EXTENDS Integers, Sequences, FiniteSets, FiniteSetsExt, SequencesExt

CONSTANTS
    Buffers,        \* the decode buffer pool
    Kinds,          \* of pictures: subset of {"frame", "first", "second"}
    MaxPictures,    \* bound: pictures that reach the second process
    MaxReferences,  \* bound: reference pictures that the frame parser holds
    MaxDrains,      \* bound: drains
    MaxFailures,    \* bound: decodes that cannot be prepared or sent
    FailsAt,        \* where: subset of {"fill", "send"}
    Serialized,     \* TRUE: what the Lock leaves unordered around the current
                    \* buffer is done by one thread after the other
    None

ASSUME KindsAssumption == Kinds \subseteq {"frame", "first", "second"}
ASSUME BoundsAssumption == {MaxPictures, MaxReferences, MaxDrains, MaxFailures} \subseteq Nat
ASSUME NoneAssumption == None \notin Buffers \cup [buffer : Buffers, n : Nat, marker : BOOLEAN]

VARIABLES
    owners,         \* reference counts of the pool's buffers
    BufferState, map,           \* map: IndexBufferMap
    CurrentDecodeBufferIndex,
    OutputRing, shown,          \* shown: buffers past the ring, how many times
    commands,       \* decode contexts that the co-processor has
    Prepared, Completed,        \* MMECommandPreparedCount, ..CompletedCount
    DiscardDecodesUntil, MarkerBuffer, PassOnMarkerBufferAt,
    pc, context,    \* of the threads; the context they prepare or release
    picture,        \* what the second process is working on
    pictures, references,       \* of the frame parser
    discarding,     \* DiscardingUntilMarkerFramePtoD
    markers,        \* marker frames in front of the second process
    drains, failures

table    == <<owners, BufferState, map>>
output   == <<OutputRing, shown>>
mme      == <<commands, Prepared, Completed, DiscardDecodesUntil>>
marking  == <<MarkerBuffer, PassOnMarkerBufferAt>>
threads  == <<pc, context, picture>>
stream   == <<pictures, references, discarding, markers>>
bounds   == <<drains, failures>>
vars == <<table, CurrentDecodeBufferIndex, output, mme, marking, threads, stream, bounds>>

Threads  == {"PtoD", "MME", "drain"}
Unused   == [Buffer |-> FALSE, OutputOnDecodesComplete |-> FALSE, DecodesInProgress |-> 0,
             ReferenceFrameCount |-> 0, Fields |-> {}]
Partial  == {"partial", "partialOutput", "partialClear"}
NoContext == [n |-> 0, buffer |-> None, refs |-> <<>>]
NoPicture == [n |-> 0, kind |-> "frame", ref |-> FALSE, list |-> {}, buffer |-> None,
              last |-> FALSE, then |-> "idle"]
Entry(b, n, marker) == [buffer |-> b, n |-> n, marker |-> marker]

Init ==
    /\ owners = [b \in Buffers |-> 0]
    /\ BufferState = [b \in Buffers |-> Unused] /\ map = {}
    /\ CurrentDecodeBufferIndex = None
    /\ OutputRing = <<>> /\ shown = [b \in Buffers |-> 0]
    /\ commands = <<>>
    /\ Prepared = 0 /\ Completed = 0 /\ DiscardDecodesUntil = 0
    /\ MarkerBuffer = None /\ PassOnMarkerBufferAt = 0
    /\ pc = [t \in Threads |-> "idle"]
    /\ context = [t \in {"PtoD", "MME"} |-> NoContext]
    /\ picture = NoPicture
    /\ pictures = 0 /\ references = {} /\ discarding = FALSE /\ markers = 0
    /\ drains = 0 /\ failures = 0

Goto(t, from, to) == pc[t] = from /\ pc' = [pc EXCEPT ![t] = to]
Current == CurrentDecodeBufferIndex

-----------------------------------------------------------------------------
(* Reference counts *)

\* DecrementReferenceCount, s being the table so far: the last reference
\* cleans the codec's data of the buffer. A buffer without data is an error.
DecrementReferenceCount(s, b) ==
    IF ~s[b].Buffer THEN BufferState' = s /\ UNCHANGED <<owners, map>>
    ELSE /\ owners' = [owners EXCEPT ![b] = @ - 1]
         /\ IF owners[b] = 1
            THEN BufferState' = [s EXCEPT ![b] = Unused] /\ map' = {m \in map : m[2] # b}
            ELSE BufferState' = s /\ UNCHANGED map

ReleaseDecodeBuffer(b) ==
    IF BufferState[b].Buffer THEN DecrementReferenceCount(BufferState, b)
    ELSE owners' = [owners EXCEPT ![b] = @ - 1] /\ UNCHANGED <<BufferState, map>>

\* A buffer from the pool, which GetDecodeBuffer waits for.
Obtain(b) == owners[b] = 0 /\ owners' = [owners EXCEPT ![b] = 1]

-----------------------------------------------------------------------------
(* The second process: pictures and what travels between them *)

\* The table index INVALID_INDEX is out of bounds: nothing is said of what follows.
Wild(t) == pc' = [pc EXCEPT ![t] = "wild"]

\* A picture comes, with the pictures it refers to; a second field may come
\* alone, its pair having been dropped on the way. A frame or a first field
\* makes the codec give out a half decoded buffer. While a drain discards
\* nothing is decoded.
Input(kind, ref, list) ==
    /\ pc["PtoD"] = "idle"
    /\ pictures < MaxPictures
    /\ ref => Cardinality(references) < MaxReferences
    /\ Serialized => pc["drain"] \notin Partial \ {"partial"}
    /\ pictures' = pictures + 1
    /\ references' = IF ref THEN references \cup {pictures'} ELSE references
    /\ picture' = [NoPicture EXCEPT !.n = pictures', !.kind = kind, !.ref = ref, !.list = list,
                                    !.then = IF discarding THEN "idle" ELSE "buffer"]
    /\ pc' = [pc EXCEPT !["PtoD"] = IF kind # "second" THEN "partial" ELSE picture'.then]
    /\ UNCHANGED <<table, CurrentDecodeBufferIndex, output, mme, marking, context, discarding,
                   markers, bounds>>

\* Calls in sequence of the frame parser.
ReleaseReferenceFrame(d) ==
    /\ pc["PtoD"] = "idle"
    /\ d \in references
    /\ references' = references \ {d}
    /\ IF \E b \in Buffers : <<d, b>> \in map /\ BufferState[b].ReferenceFrameCount # 0
       THEN LET b == CHOOSE c \in Buffers : <<d, c>> \in map
            IN DecrementReferenceCount([BufferState EXCEPT ![b].ReferenceFrameCount = @ - 1], b)
       ELSE UNCHANGED table
    /\ UNCHANGED <<CurrentDecodeBufferIndex, output, mme, marking, threads, pictures, discarding,
                   markers, bounds>>

ReleaseAllReferenceFrames ==
    LET held(b) == owners[b] - BufferState[b].ReferenceFrameCount
    IN
    /\ pc["PtoD"] = "idle"
    /\ references # {} \/ \E b \in Buffers : BufferState[b].ReferenceFrameCount # 0
    /\ references' = {}
    /\ owners' = [b \in Buffers |-> held(b)]
    /\ BufferState' = [b \in Buffers |-> IF held(b) = 0 THEN Unused
                                         ELSE [BufferState[b] EXCEPT !.ReferenceFrameCount = 0]]
    /\ map' = {m \in map : held(m[2]) # 0}
    /\ UNCHANGED <<CurrentDecodeBufferIndex, output, mme, marking, threads, pictures, discarding,
                   markers, bounds>>

CallOutputPartialDecodeBuffers ==
    /\ Goto("PtoD", "idle", "partial")
    /\ Current # None
    /\ picture' = NoPicture
    /\ UNCHANGED <<table, CurrentDecodeBufferIndex, output, mme, marking, context, stream, bounds>>

-----------------------------------------------------------------------------
(* OutputPartialDecodeBuffers, by the second process or by a drain *)

Then(t)   == IF t = "PtoD" THEN picture.then ELSE "insert"
Alone(t)  == \A u \in {"PtoD", "drain"} \ {t} :
                 pc[u] \notin Partial \ {"partial"} /\ (u = "PtoD" => pc[u] = "idle")

PartialTest(t) ==
    /\ Goto(t, "partial", IF Current = None THEN Then(t) ELSE "partialOutput")
    /\ Serialized => Alone(t)
    /\ UNCHANGED <<table, CurrentDecodeBufferIndex, output, mme, marking, context, picture,
                   stream, bounds>>

\* SetOutputOnDecodesComplete
PartialOutput(t) ==
    /\ pc[t] = "partialOutput"
    /\ IF Current = None THEN Wild(t) /\ UNCHANGED <<BufferState, OutputRing>>
       ELSE /\ pc' = [pc EXCEPT ![t] = "partialClear"]
            /\ BufferState' = [BufferState EXCEPT ![Current].OutputOnDecodesComplete = TRUE]
            /\ OutputRing' = IF BufferState[Current].DecodesInProgress = 0
                             THEN Append(OutputRing, Entry(Current, 0, FALSE)) ELSE OutputRing
    /\ UNCHANGED <<owners, map, CurrentDecodeBufferIndex, shown, mme, marking, context, picture,
                   stream, bounds>>

PartialClear(t) ==
    /\ Goto(t, "partialClear", Then(t))
    /\ CurrentDecodeBufferIndex' = None
    /\ UNCHANGED <<table, output, mme, marking, context, picture, stream, bounds>>

-----------------------------------------------------------------------------
(* Codec_MmeVideo_c::Input *)

\* A buffer that was discarded and is still to be compared with the current one.
Compared == {context[t].buffer : t \in {u \in {"PtoD", "MME"} : pc[u] = "compare"}}

GetDecodeBuffer ==
    /\ Goto("PtoD", "buffer", "map")
    /\ Current = None
    /\ \E b \in Buffers :
          /\ Serialized => b \notin Compared
          /\ Obtain(b)
          /\ picture' = [picture EXCEPT !.buffer = b]
    /\ UNCHANGED <<BufferState, map, CurrentDecodeBufferIndex, output, mme, marking, context,
                   stream, bounds>>

MapBufferToDecodeIndex(b) == map' = map \cup {<<picture.n, b>>}

MapNew ==
    LET b == picture.buffer IN
    /\ Goto("PtoD", "map", "translate")
    /\ CurrentDecodeBufferIndex' = b
    /\ MapBufferToDecodeIndex(b)
    /\ BufferState' = [BufferState EXCEPT ![b] = [Unused EXCEPT !.Buffer = TRUE]]
    /\ UNCHANGED <<owners, output, mme, marking, context, picture, stream, bounds>>

MapSecond ==
    /\ Goto("PtoD", "buffer", "translate")
    /\ Current # None
    /\ MapBufferToDecodeIndex(Current)
    /\ UNCHANGED <<owners, BufferState, CurrentDecodeBufferIndex, output, mme, marking, context,
                   picture, stream, bounds>>

\* A reference that was never decoded is replaced by the picture itself.
Translate(d) == IF \E b \in Buffers : <<d, b>> \in map THEN <<d, CHOOSE b \in Buffers : <<d, b>> \in map>>
                ELSE <<picture.n, Current>>

Times(refs, b) == Cardinality({i \in DOMAIN refs : refs[i][2] = b})

\* Variant: a decode does not own its references.
NoneAdded(refs, b) == 0

\* Every reference of a decode owns its buffer until the decode has ended.
ReferencesAdded(refs, b) == Times(refs, b)

TranslateReferenceFrameLists ==
    LET refs == SetToSeq(picture.list)
        list == [i \in DOMAIN refs |-> Translate(refs[i])]
        self == IF picture.ref THEN 1 ELSE 0
    IN
    /\ pc["PtoD"] = "translate"
    /\ IF Current = None THEN Wild("PtoD") /\ UNCHANGED <<owners, BufferState, context>>
       ELSE /\ pc' = [pc EXCEPT !["PtoD"] = "launch"]
            /\ BufferState' = [BufferState EXCEPT ![Current].ReferenceFrameCount = @ + self]
            /\ owners' = [b \in Buffers |-> owners[b] + ReferencesAdded(list, b)
                                              + IF b = Current THEN self ELSE 0]
            /\ context' = [context EXCEPT !["PtoD"] =
                               [n |-> picture.n, buffer |-> Current, refs |-> list]]
    /\ UNCHANGED <<map, CurrentDecodeBufferIndex, output, mme, marking, picture, stream, bounds>>

\* FillOutDecodeCommand fails: the context is released before the decode counts.
FillFails ==
    /\ Goto("PtoD", "launch", "refs")
    /\ "fill" \in FailsAt /\ failures < MaxFailures
    /\ failures' = failures + 1
    /\ UNCHANGED <<table, CurrentDecodeBufferIndex, output, mme, marking, context, picture,
                   stream, drains>>

Fields(kind) == CASE kind = "frame" -> {1, 2} [] kind = "first" -> {1} [] kind = "second" -> {2}

Launch ==
    /\ pc["PtoD"] = "launch"
    /\ IF Current = None THEN Wild("PtoD") /\ UNCHANGED <<BufferState, picture>>
       ELSE LET fields == BufferState[Current].Fields \cup Fields(picture.kind)
                last   == fields = {1, 2} IN
            /\ pc' = [pc EXCEPT !["PtoD"] = "send"]
            /\ BufferState' = [BufferState EXCEPT ![Current].DecodesInProgress = @ + 1,
                                 ![Current].Fields = fields,
                                 ![Current].OutputOnDecodesComplete = last]
            /\ picture' = [picture EXCEPT !.last = last]
    /\ UNCHANGED <<owners, map, CurrentDecodeBufferIndex, output, mme, marking, context, stream,
                   bounds>>

SendMMEDecodeCommand ==
    /\ Goto("PtoD", "send", "finish")
    /\ Prepared' = Prepared + 1
    /\ commands' = Append(commands, context["PtoD"])
    /\ context' = [context EXCEPT !["PtoD"] = NoContext]
    /\ UNCHANGED <<table, CurrentDecodeBufferIndex, output, Completed, DiscardDecodesUntil,
                   marking, picture, stream, bounds>>

\* MME_SendCommand fails; the command has been counted as prepared.
SendFails ==
    /\ Goto("PtoD", "send", "complete")
    /\ "send" \in FailsAt /\ failures < MaxFailures
    /\ failures' = failures + 1
    /\ Prepared' = Prepared + 1
    /\ UNCHANGED <<table, CurrentDecodeBufferIndex, output, commands, Completed,
                   DiscardDecodesUntil, marking, context, picture, stream, drains>>

Finish ==
    /\ Goto("PtoD", "finish", "idle")
    /\ CurrentDecodeBufferIndex' = IF picture.last THEN None ELSE Current
    /\ picture' = NoPicture
    /\ UNCHANGED <<table, output, mme, marking, context, stream, bounds>>

-----------------------------------------------------------------------------
(* ReleaseDecodeContext, in a callback or by the second process after a failure *)

Invalidated(b) == IF Current = b THEN None ELSE Current

\* Decodes that were prepared before a drain are discarded.
ToDiscard == Completed < DiscardDecodesUntil

\* Variant: the first of two fields completes the buffer.
WholeAtOnce(state) == state.OutputOnDecodesComplete

Whole(state) == state.OutputOnDecodesComplete /\ state.DecodesInProgress = 0

\* The buffer is complete: it is given out, or given up outside the Lock.
Complete(t, c) ==
    LET s == [BufferState EXCEPT ![c.buffer].DecodesInProgress = @ - 1]
        state == s[c.buffer]
        discard == Whole(state) /\ ToDiscard
    IN
    /\ BufferState' = s
    /\ context' = [context EXCEPT ![t] = c]
    /\ pc' = [pc EXCEPT ![t] = IF discard THEN "discard" ELSE "refs"]
    /\ OutputRing' = IF Whole(state) /\ ~discard THEN Append(OutputRing, Entry(c.buffer, c.n, FALSE))
                     ELSE OutputRing
    /\ CurrentDecodeBufferIndex' = IF state.OutputOnDecodesComplete /\ ~discard
                                   THEN Invalidated(c.buffer) ELSE Current
    /\ UNCHANGED <<owners, map, shown, Prepared, Completed, DiscardDecodesUntil, marking, picture,
                   stream, bounds>>

CallbackFromMME ==
    /\ pc["MME"] = "idle"
    /\ commands # <<>>
    /\ commands' = Tail(commands)
    /\ Complete("MME", Head(commands))

CompleteFailed ==
    /\ pc["PtoD"] = "complete"
    /\ Complete("PtoD", context["PtoD"])
    /\ UNCHANGED commands

\* Variant: the buffer is neither given out nor given up.
DiscardNothing(t) ==
    /\ Goto(t, "discard", "compare")
    /\ UNCHANGED <<table, CurrentDecodeBufferIndex, output, mme, marking, context, picture, stream,
                   bounds>>

Discard(t) ==
    /\ Goto(t, "discard", "compare")
    /\ ReleaseDecodeBuffer(context[t].buffer)
    /\ UNCHANGED <<CurrentDecodeBufferIndex, output, mme, marking, context, picture, stream,
                   bounds>>

Compare(t) ==
    /\ Goto(t, "compare", "refs")
    /\ CurrentDecodeBufferIndex' = Invalidated(context[t].buffer)
    /\ UNCHANGED <<table, output, mme, marking, context, picture, stream, bounds>>

ReleaseReference(t) ==
    /\ pc[t] = "refs"
    /\ context[t].refs # <<>>
    /\ DecrementReferenceCount(BufferState, Head(context[t].refs)[2])
    /\ context' = [context EXCEPT ![t].refs = Tail(@)]
    /\ UNCHANGED <<CurrentDecodeBufferIndex, output, mme, marking, pc, picture, stream, bounds>>

\* A callback counts the decode and looks for a marker; the second process
\* records a picture that was not decoded.
ContextReleased(t) ==
    /\ Goto(t, "refs", IF t = "MME" THEN "test"
                       ELSE IF picture.kind # "second" THEN "partial" ELSE "idle")
    /\ context[t].refs = <<>>
    /\ context' = [context EXCEPT ![t] = NoContext]
    /\ Completed' = IF t = "MME" THEN Completed + 1 ELSE Completed
    /\ picture' = IF t = "PtoD" THEN NoPicture ELSE picture
    /\ UNCHANGED <<table, CurrentDecodeBufferIndex, output, commands, Prepared,
                   DiscardDecodesUntil, marking, stream, bounds>>

-----------------------------------------------------------------------------
(* Marker frames *)

\* The codec has room for one marker.
MarkerInput ==
    /\ Goto("PtoD", "idle", "getMarker")
    /\ markers > 0
    /\ markers' = markers - 1
    /\ discarding' = FALSE
    /\ MarkerBuffer' = None
    /\ owners' = IF MarkerBuffer = None THEN owners ELSE [owners EXCEPT ![MarkerBuffer.buffer] = @ - 1]
    /\ UNCHANGED <<BufferState, map, CurrentDecodeBufferIndex, output, mme, PassOnMarkerBufferAt,
                   context, picture, pictures, references, bounds>>

\* Variants: off by one.
AfterTheNext  == Prepared + 1
BeforeTheLast == Prepared - 1

PassOnAt == Prepared

GetMarkerBuffer ==
    /\ Goto("PtoD", "getMarker", "test")
    /\ \E b \in Buffers : Obtain(b) /\ MarkerBuffer' = Entry(b, pictures, TRUE)
    /\ PassOnMarkerBufferAt' = PassOnAt
    /\ UNCHANGED <<BufferState, map, CurrentDecodeBufferIndex, output, mme, context, picture,
                   stream, bounds>>

TestMarkerFramePassOn(t) ==
    /\ Goto(t, "test", IF MarkerBuffer # None /\ Completed >= PassOnMarkerBufferAt
                       THEN "take" ELSE "idle")
    /\ UNCHANGED <<table, CurrentDecodeBufferIndex, output, mme, marking, context, picture,
                   stream, bounds>>

TakeMarkerBuffer(t) ==
    /\ Goto(t, "take", "idle")
    /\ MarkerBuffer' = None
    /\ OutputRing' = IF MarkerBuffer = None THEN OutputRing
                     ELSE Append(OutputRing, MarkerBuffer)
    /\ UNCHANGED <<table, CurrentDecodeBufferIndex, shown, mme, PassOnMarkerBufferAt, context,
                   picture, stream, bounds>>

-----------------------------------------------------------------------------
(* The processes behind the codec, and the drain *)

TakeOutput ==
    /\ OutputRing # <<>>
    /\ OutputRing' = Tail(OutputRing)
    /\ LET e == Head(OutputRing) IN
       IF e.marker THEN owners' = [owners EXCEPT ![e.buffer] = @ - 1] /\ UNCHANGED shown
       ELSE shown' = [shown EXCEPT ![e.buffer] = @ + 1] /\ UNCHANGED owners
    /\ UNCHANGED <<BufferState, map, CurrentDecodeBufferIndex, mme, marking, threads, stream,
                   bounds>>

\* A frame is done with: it was discarded, or another one is on display.
Replaced(b) ==
    /\ shown[b] > 0
    /\ shown' = [shown EXCEPT ![b] = @ - 1]
    /\ ReleaseDecodeBuffer(b)
    /\ UNCHANGED <<CurrentDecodeBufferIndex, OutputRing, mme, marking, threads, stream, bounds>>

DrainStart(discard) ==
    /\ pc["drain"] = "idle"
    /\ drains < MaxDrains
    /\ drains' = drains + 1
    /\ IF discard THEN /\ discarding' = TRUE
                       /\ pc' = [pc EXCEPT !["drain"] = "until"]
                       /\ UNCHANGED markers
       ELSE markers' = markers + 1 /\ UNCHANGED <<discarding, pc>>
    /\ UNCHANGED <<table, CurrentDecodeBufferIndex, output, mme, marking, context, picture,
                   pictures, references, failures>>

\* Variant: one decode too many.
DiscardNextToo ==
    /\ Goto("drain", "until", "partial")
    /\ DiscardDecodesUntil' = Prepared + 1
    /\ UNCHANGED <<table, CurrentDecodeBufferIndex, output, commands, Prepared, Completed,
                   marking, context, picture, stream, bounds>>

DiscardQueuedDecodes ==
    /\ Goto("drain", "until", "partial")
    /\ DiscardDecodesUntil' = Prepared
    /\ UNCHANGED <<table, CurrentDecodeBufferIndex, output, commands, Prepared, Completed,
                   marking, context, picture, stream, bounds>>

DrainInsert ==
    /\ Goto("drain", "insert", "idle")
    /\ markers' = markers + 1
    /\ UNCHANGED <<table, CurrentDecodeBufferIndex, output, mme, marking, context, picture,
                   pictures, references, discarding, bounds>>

-----------------------------------------------------------------------------
OutputPartialDecodeBuffers(t) == PartialTest(t) \/ PartialOutput(t) \/ PartialClear(t)
ReleaseDecodeContext(t) == Discard(t) \/ Compare(t) \/ ReleaseReference(t) \/ ContextReleased(t)
PassOnMarker(t) == TestMarkerFramePassOn(t) \/ TakeMarkerBuffer(t)

PtoD ==
    \/ OutputPartialDecodeBuffers("PtoD") \/ GetDecodeBuffer \/ MapNew \/ MapSecond
    \/ TranslateReferenceFrameLists \/ Launch \/ SendMMEDecodeCommand \/ Finish
    \/ CompleteFailed \/ ReleaseDecodeContext("PtoD")
    \/ MarkerInput \/ GetMarkerBuffer \/ PassOnMarker("PtoD")
MME == CallbackFromMME \/ ReleaseDecodeContext("MME") \/ PassOnMarker("MME")
Drain == DiscardQueuedDecodes \/ OutputPartialDecodeBuffers("drain") \/ DrainInsert
Display == TakeOutput \/ \E b \in Buffers : Replaced(b)

Environment ==
    \/ \E kind \in Kinds, ref \in BOOLEAN, list \in SUBSET references : Input(kind, ref, list)
    \/ \E d \in references : ReleaseReferenceFrame(d)
    \/ ReleaseAllReferenceFrames \/ CallOutputPartialDecodeBuffers
    \/ FillFails \/ SendFails
    \/ \E discard \in BOOLEAN : DrainStart(discard)

Next == PtoD \/ MME \/ Drain \/ Display \/ Environment

Spec == Init /\ [][Next]_vars

-----------------------------------------------------------------------------
(* Properties *)

\* The variables keep their types, and the codec's counters their order: it
\* never completes more decodes than it prepared, nor discards one to come.
TypeOK ==
    /\ owners \in [Buffers -> Int]
    /\ BufferState \in [Buffers -> [Buffer : BOOLEAN, OutputOnDecodesComplete : BOOLEAN,
           DecodesInProgress : Int, ReferenceFrameCount : Nat, Fields : SUBSET {1, 2}]]
    /\ map \subseteq (1..pictures) \X Buffers
    /\ CurrentDecodeBufferIndex \in Buffers \cup {None}
    /\ \A i \in DOMAIN OutputRing : OutputRing[i].buffer \in Buffers
    /\ Completed <= Prepared /\ DiscardDecodesUntil <= Prepared

\* No thread looks up INVALID_INDEX in the table (OutputPartialDecodeBuffers,
\* Codec_MmeVideo_c::Input) and no count falls below zero. Does not hold without
\* the order that Serialized gives (see the README).
InBounds ==
    /\ \A t \in Threads : pc[t] # "wild"
    /\ \A b \in Buffers : owners[b] >= 0 /\ BufferState[b].DecodesInProgress >= 0

\* How many decodes name b among their references, with the co-processor and in
\* a context that is prepared or released.
Queued(b) == UNION {{i} \X {j \in DOMAIN commands[i].refs : commands[i].refs[j][2] = b} :
                       i \in DOMAIN commands}
Named(b)  == Cardinality(Queued(b)) + Times(context["PtoD"].refs, b) + Times(context["MME"].refs, b)
Given(b) == Cardinality({i \in DOMAIN OutputRing : OutputRing[i].buffer = b}) + shown[b]

\* The codec has not given the buffer out, nor up: it holds the reference that
\* travels with it.
Working(b) ==
    \/ picture.buffer = b /\ pc["PtoD"] = "map"
    \/ /\ BufferState[b].Buffer
       /\ BufferState[b].OutputOnDecodesComplete => BufferState[b].DecodesInProgress > 0
    \/ \E t \in {"PtoD", "MME"} : pc[t] = "discard" /\ context[t].buffer = b

Count(holds) == IF holds THEN 1 ELSE 0

\* A decode buffer has exactly the references of those that still use it: the
\* frame parser for a reference frame, each decode for each of its references,
\* the codec until the buffer is complete, the output ring and the processes
\* behind it. One too few and a picture is decoded over one that is still in
\* use, one too many and the pool runs dry (DecrementReferenceCount).
ReferencesExact ==
    \A b \in Buffers :
        owners[b] = BufferState[b].ReferenceFrameCount + Named(b) + Given(b)
                    + Count(Working(b))
                    + Count(MarkerBuffer # None /\ MarkerBuffer.buffer = b)

InFlight ==
    ToSet(commands) \cup {c \in {context["PtoD"]} : pc["PtoD"] \in {"launch", "send"}}

\* What a decode is about to write and to read still holds the pictures it
\* meant when the indices were translated, whoever released them since.
DecodesReadWhatTheyName ==
    \A c \in InFlight : <<c.n, c.buffer>> \in map /\ ToSet(c.refs) \subseteq map

\* A buffer is given out once, and never while it is decoded into
\* (SetOutputOnDecodesComplete, ReleaseDecodeContext).
OutputOnce ==
    \A b \in Buffers :
        /\ Given(b) <= 1
        /\ BufferState[b].DecodesInProgress > 0 => Given(b) = 0

\* Unless a decode could not be sent, which is then counted as prepared and never
\* as completed, a marker that the codec holds is always going to be passed on: by
\* the thread that tests, or by the callback of a decode that is still out. The
\* one who counts and the one who leaves the marker never both look too early.
MarkerNotForgotten ==
    MarkerBuffer # None /\ failures = 0 =>
        \/ commands # <<>> \/ pc["MME"] # "idle"
        \/ pc["PtoD"] \in {"test", "take"}

\* A marker leaves the codec behind every decode that was prepared before it
\* (TestMarkerFramePassOn): the processes behind it may take it for the end. One
\* drain at a time: the test and the take are two steps, so that a thread that
\* stood still between them would take the marker of a later drain too early.
MarkerAfterDecodes ==
    \A i \in DOMAIN OutputRing : OutputRing[i].marker =>
        \A c \in (ToSet(commands) \cup {context["PtoD"], context["MME"]}) \ {NoContext} :
            c.n > OutputRing[i].n
=============================================================================
