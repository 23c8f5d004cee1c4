----------------------------- MODULE PlayerDrain -----------------------------
(***************************************************************************)
(* One stream of the player (player2_191): coded frames travel through     *)
(* four processes, the codec and the manifestor, and InternalDrainStream   *)
(* empties this pipeline by sending a marker frame behind them. The rings  *)
(* are queues (RingGeneric; they are sized so as never to refuse), frames  *)
(* keep their order (the re-ordering table of the third process is left    *)
(* out) and one decode makes one frame.                                    *)
(***************************************************************************)
EXTENDS Integers, Sequences, FiniteSets

CONSTANTS
    Drainers,      \* threads that call InternalDrainStream
    Parser,        \* the collate-to-parse process, if its frame parser may
                   \* call MarkStreamUnPlayable; otherwise no drainer
    Policies,      \* of the drains: subset of {"playout", "discard", "parseAll"}
    NonBlocking,   \* of the drains: subset of BOOLEAN
    Exclusive,     \* TRUE: a drain starts when no other is in progress
    TimeOuts,      \* TRUE: waits for the end of a drain may give up
    MaxFrames,     \* bound: data frames that are injected
    MaxDrains,     \* bound: calls of InternalDrainStream
    MaxPauses,     \* bound: changes of speed from or to zero
    MaxOvertaking, \* bound: data frames injected after a drain has chosen the
                   \* number of its marker and before it has inserted the marker
    RingSize,      \* PLAYER_MAX_RING_SIZE
    CodedFrames,   \* buffers of the coded frame pool
    DecodeBuffers, \* buffers of the decode pool
    MessageSlots   \* PLAYER_MAX_DTOM_MESSAGES, PLAYER_MAX_POSTM_MESSAGES

ASSUME RingSizeAssumption ==
    RingSize \in Nat /\ MaxOvertaking \in Nat /\ RingSize > CodedFrames + MaxOvertaking

ASSUME SizesAssumption ==
    /\ CodedFrames \in Nat \ {0} /\ DecodeBuffers \in Nat \ {0}
    /\ MessageSlots \in Nat /\ {MaxFrames, MaxDrains, MaxPauses} \subseteq Nat

ASSUME DrainersAssumption ==
    /\ IsFiniteSet(Drainers)
    /\ Policies \subseteq {"playout", "discard", "parseAll"}
    /\ NonBlocking \subseteq BOOLEAN

VARIABLES
    ring,          \* contents of the four rings between the processes
    codec,         \* decodes in progress and the marker that waits for them
    dropping,      \* decodes below DiscardDecodesUntil
    display,       \* frames queued in the manifestor, the first one is shown
    pc, hold,      \* of the processes: next step, buffer in hand
    discarding,    \* DiscardingUntilMarkerFrame.. of each process
    seen,          \* MaximumActualSequenceNumberSeen
    accumulated,   \* tables of control messages that wait for their number:
                   \* a slot is empty or holds one
    MarkerInCodedFrameIndex, NextBufferSequenceNumber, DrainSequenceNumber,
    Drained, BuffersComingOutOfManifestation, UnPlayable,
    paused, Step,  \* Speed = 0; the next frame passes nevertheless
    jump,          \* an InputJump that waits until the collator leaves Input
    nextId, frames, drains, pauses, overtaking,  \* counts, for identities and bounds
    dpc, policy, blocking, marker       \* of the drainers

pipe   == <<ring, codec, dropping, display>>
procs  == <<pc, hold, discarding, seen, accumulated>>
shared == <<MarkerInCodedFrameIndex, NextBufferSequenceNumber, DrainSequenceNumber,
            Drained, BuffersComingOutOfManifestation, UnPlayable>>
play   == <<paused, Step, pauses>>
counts == <<jump, nextId, frames, drains, overtaking>>
drain  == <<dpc, policy, blocking, marker>>
vars   == <<pipe, procs, shared, play, counts, drain>>

Rings  == {"collated", "parsed", "decoded", "manifested"}
Holds  == {"CtoP", "PtoD", "DtoM"}
Stages == Holds \cup {"PostM"}
Calls  == {"reset", "drained"}

\* A coded frame buffer: data, the empty frame of an input jump, a marker, or
\* a marker that was not recognised. A control structure: a call in sequence.
\* id is its place in the order of insertion, seq its sequence number (0 until
\* it has one), token what distinguishes the buffer of one marker from another.
Item == [kind : {"data", "jump", "marker", "blank"} \cup Calls,
         id : Nat, seq : Nat, token : Nat]
MakeItem(kind, id, seq, tok) == [kind |-> kind, id |-> id, seq |-> seq, token |-> tok]

NoIndex == 0
Slots   == 1 .. MessageSlots

Ended   == {"idle", "drained", "launched", "late", "unset"}
HasNumber == {"resetEvent", "mark", "insert"}
Marking == {"number"} \cup HasNumber
Before  == {"flush", "rounds", "waitRounds", "get", "jump"} \cup Marking
DSteps  == Ended \cup Before \cup {"callReset", "callDrained", "wait"}

Init ==
    /\ ring = [r \in Rings |-> <<>>]
    /\ codec = <<>> /\ dropping = 0 /\ display = <<>>
    /\ pc = [p \in Holds |-> "take"]
    /\ hold = [p \in Holds |-> <<>>]
    /\ discarding = [p \in Stages |-> FALSE]
    /\ seen = [p \in {"DtoM", "PostM"} |-> 0]
    /\ accumulated = [p \in {"DtoM", "PostM"} |-> [k \in Slots |-> <<>>]]
    /\ MarkerInCodedFrameIndex = NoIndex
    /\ NextBufferSequenceNumber = 0 /\ DrainSequenceNumber = 0
    /\ Drained = FALSE /\ BuffersComingOutOfManifestation = FALSE
    /\ UnPlayable = FALSE
    /\ paused = FALSE /\ Step = FALSE /\ pauses = 0
    /\ jump = FALSE /\ nextId = 1 /\ frames = 0 /\ drains = 0 /\ overtaking = 0
    /\ dpc = [d \in Drainers |-> "idle"]
    /\ policy = [d \in Drainers |-> "playout"]
    /\ blocking = [d \in Drainers |-> FALSE]
    /\ marker = [d \in Drainers |-> MakeItem("marker", 0, 0, 0)]

IsFrame(i)    == i.kind \notin Calls
Frames(s)     == Cardinality({k \in DOMAIN s : IsFrame(s[k])})
Goto(p, from, to) == pc[p] = from /\ pc' = [pc EXCEPT ![p] = to]
Takes(p, i)   == hold' = [hold EXCEPT ![p] = <<i>>]
Gives(p)      == hold' = [hold EXCEPT ![p] = <<>>]
InHand(p)     == hold[p][1]
Send(r, i)    == ring' = [ring EXCEPT ![r] = Append(@, i)]
Pass(from, to, i) == ring' = [ring EXCEPT ![from] = Tail(@), ![to] = Append(@, i)]
Receive(r)    == ring' = [ring EXCEPT ![r] = Tail(@)]
Max2(a, b)    == IF a > b THEN a ELSE b

\* Every frame but the one in the collator holds a coded buffer until the last
\* process releases it; from the codec on it holds a decode buffer as well.
Decoding == Len(codec) + Frames(ring["decoded"]) + Len(hold["DtoM"])
              + Len(display) + Frames(ring["manifested"])
Coded    == Len(ring["collated"]) + Len(hold["CtoP"]) + Len(ring["parsed"])
              + Len(hold["PtoD"]) + Decoding
              + Cardinality({d \in Drainers : dpc[d] \in Marking})

-----------------------------------------------------------------------------
(* Control messages (player_in_sequence.cpp) *)

\* Variant: a message is due one frame late.
DueAfter(i, number) == i.seq < number

\* AccumulateControlMessage takes the first free slot; the message is lost when
\* the table is full.
Free(p) == {k \in Slots : accumulated[p][k] = <<>>}
Accumulate(p, i) ==
    \/ Free(p) = {} /\ UNCHANGED accumulated
    \/ \E k \in Free(p) :
          /\ \A j \in Free(p) : k <= j
          /\ accumulated' = [accumulated EXCEPT ![p][k] = <<i>>]

\* ProcessAccumulatedControlMessages: those that are due at a sequence number.
Due(i, number) == i.seq <= number
DueNow(p, number) ==
    {k \in Slots : accumulated[p][k] # <<>> /\ Due(accumulated[p][k][1], number)}
ProcessAccumulated(p, number) ==
    accumulated' = [accumulated EXCEPT
                      ![p] = [k \in Slots |-> IF k \in DueNow(p, number) THEN <<>>
                                              ELSE accumulated[p][k]]]

-----------------------------------------------------------------------------
(* The collator and the user *)

Collate(i) ==
    /\ Send("collated", [i EXCEPT !.id = nextId])
    /\ nextId' = nextId + 1

\* A marker has its number and is not in the ring yet.
Overtaken == \E d \in Drainers : dpc[d] \in HasNumber

Inject ==
    /\ frames < MaxFrames
    /\ Overtaken => overtaking < MaxOvertaking
    /\ Coded < CodedFrames
    /\ Collate(MakeItem("data", 0, 0, 0))
    /\ frames' = frames + 1
    /\ overtaking' = IF Overtaken THEN overtaking + 1 ELSE 0
    /\ UNCHANGED <<codec, dropping, display, procs, shared, play, jump, drains, drain>>

\* The flush that was put off while another thread was inside Input.
InputExit ==
    /\ jump
    /\ Coded < CodedFrames
    /\ Collate(MakeItem("jump", 0, 0, 0))
    /\ jump' = FALSE
    /\ UNCHANGED <<codec, dropping, display, procs, shared, play, frames, drains, overtaking, drain>>

SetPlaybackSpeed ==
    /\ pauses < MaxPauses
    /\ paused' = ~paused
    /\ pauses' = pauses + 1
    /\ UNCHANGED <<pipe, procs, shared, Step, counts, drain>>

-----------------------------------------------------------------------------
(* ProcessCollateToParse *)

\* Variant: the marker is looked for one buffer too far.
RecognisedNext(i) == i.token # NoIndex /\ i.token = MarkerInCodedFrameIndex + 1

\* The frame gets the next number; the marker brings its own.
Recognised(i) == i.token # NoIndex /\ i.token = MarkerInCodedFrameIndex
Numbered(i)   == IF Recognised(i) THEN i
                 ELSE [i EXCEPT !.seq = NextBufferSequenceNumber,
                                !.kind = IF @ = "marker" THEN "blank" ELSE @]

\* Only data is discarded.
CtoPTake ==
    /\ ring["collated"] # <<>>
    /\ pc["CtoP"] = "take"
    /\ Receive("collated")
    /\ LET i == Head(ring["collated"])
           found == Recognised(i)
           discard == i.kind = "data" /\ (UnPlayable \/ discarding["CtoP"])
       IN /\ NextBufferSequenceNumber' = Numbered(i).seq + 1
          /\ discarding' = [discarding EXCEPT !["CtoP"] = @ /\ ~found]
          /\ MarkerInCodedFrameIndex' = IF found THEN NoIndex
                                        ELSE MarkerInCodedFrameIndex
          /\ IF discard THEN UNCHANGED <<pc, hold>>
             ELSE pc' = [pc EXCEPT !["CtoP"] = "parse"] /\ Takes("CtoP", Numbered(i))
    /\ UNCHANGED <<codec, dropping, display, seen, accumulated, DrainSequenceNumber,
                   Drained, BuffersComingOutOfManifestation, UnPlayable, play,
                   counts, drain>>

\* FrameParser->Input: the frame of a jump ends here, and so does data that
\* the parser rejects.
CtoPParse ==
    /\ Parser \in Drainers => dpc[Parser] \in Ended
    /\ Goto("CtoP", "parse", "take")
    /\ Gives("CtoP")
    /\ \/ InHand("CtoP").kind # "jump" /\ Send("parsed", InHand("CtoP"))
       \/ InHand("CtoP").kind \in {"jump", "data"} /\ UNCHANGED ring
    /\ UNCHANGED <<codec, dropping, display, discarding, seen, accumulated, shared,
                   play, counts, drain>>

-----------------------------------------------------------------------------
(* ProcessParseToDecode and the codec *)

\* A marker ends the discarding of the process it reaches.
ClearAtMarker(p, i) ==
    discarding' = [discarding EXCEPT ![p] = @ /\ i.kind # "marker"]

PtoDTake ==
    /\ ring["parsed"] # <<>>
    /\ Goto("PtoD", "take", "check")
    /\ Receive("parsed")
    /\ Takes("PtoD", Head(ring["parsed"]))
    /\ ClearAtMarker("PtoD", Head(ring["parsed"]))
    /\ UNCHANGED <<codec, dropping, display, seen, accumulated, shared, play,
                   counts, drain>>

PtoDDiscard(from) ==
    /\ Goto("PtoD", from, "take")
    /\ Gives("PtoD")

\* The marker does not wait for the decode window.
PtoDCheck ==
    /\ IF discarding["PtoD"]
       THEN PtoDDiscard("check")
       ELSE /\ Goto("PtoD", "check", IF InHand("PtoD").kind = "marker"
                                     THEN "decode" ELSE "window")
            /\ UNCHANGED hold
    /\ UNCHANGED <<pipe, discarding, seen, accumulated, shared, play, counts, drain>>

\* After the wait the flag is read again; the output timer may drop the frame.
PtoDWindow ==
    /\ \/ PtoDDiscard("window")
       \/ /\ ~discarding["PtoD"]
          /\ Goto("PtoD", "window", "decode")
          /\ UNCHANGED hold
    /\ UNCHANGED <<pipe, discarding, seen, accumulated, shared, play, counts, drain>>

\* MarkerBuffer: the codec holds a frame that is no decode.
Waiting == {k \in DOMAIN codec : codec[k].kind # "data"}
Without(s, k) == SubSeq(s, 1, k - 1) \o SubSeq(s, k + 1, Len(s))

\* Codec->Input, which waits for a decode buffer. An empty frame is a marker
\* to the codec, which has room for one: it drops the one it had.
PtoDDecode ==
    /\ Decoding < DecodeBuffers
    /\ Goto("PtoD", "decode", "take")
    /\ Gives("PtoD")
    /\ IF InHand("PtoD").kind = "data" \/ Waiting = {}
       THEN codec' = Append(codec, InHand("PtoD"))
       ELSE \E k \in Waiting : codec' = Append(Without(codec, k), InHand("PtoD"))
    /\ UNCHANGED <<ring, dropping, display, discarding, seen, accumulated, shared,
                   play, counts, drain>>

\* A decode ends (CallbackFromMME): its frame goes on, or was to be dropped.
DecodeCompletes ==
    /\ codec # <<>>
    /\ Head(codec).kind = "data"
    /\ codec' = Tail(codec)
    /\ IF dropping > 0
       THEN dropping' = dropping - 1 /\ UNCHANGED ring
       ELSE Send("decoded", Head(codec)) /\ UNCHANGED dropping
    /\ UNCHANGED <<display, procs, shared, play, counts, drain>>

\* TestMarkerFramePassOn: all decodes before the marker have ended.
MarkerPassesOn ==
    /\ codec # <<>>
    /\ Head(codec).kind # "data"
    /\ codec' = Tail(codec)
    /\ Send("decoded", Head(codec))
    /\ UNCHANGED <<dropping, display, procs, shared, play, counts, drain>>

-----------------------------------------------------------------------------
(* ProcessDecodeToManifest *)

\* A marker goes straight to the last process, past the frames on display.
DtoMMarker ==
    /\ ring["decoded"] # <<>>
    /\ Head(ring["decoded"]).kind = "marker"
    /\ Goto("DtoM", "take", "clear")
    /\ LET i == Head(ring["decoded"])
       IN /\ Pass("decoded", "manifested", i)
          /\ seen' = [seen EXCEPT !["DtoM"] = Max2(@, i.seq)]
          /\ ProcessAccumulated("DtoM", i.seq)
    /\ UNCHANGED <<codec, dropping, display, hold, discarding, shared, play, counts,
                   drain>>

DtoMClear ==
    /\ Goto("DtoM", "clear", "take")
    /\ discarding' = [discarding EXCEPT !["DtoM"] = FALSE]
    /\ UNCHANGED <<pipe, hold, seen, accumulated, shared, play, counts, drain>>

DtoMTake ==
    /\ ring["decoded"] # <<>>
    /\ Head(ring["decoded"]).kind \in {"data", "blank"}
    /\ Goto("DtoM", "take", "pause")
    /\ Receive("decoded")
    /\ Takes("DtoM", Head(ring["decoded"]))
    /\ LET number == Max2(seen["DtoM"], Head(ring["decoded"]).seq)
       IN /\ seen' = [seen EXCEPT !["DtoM"] = number]
          /\ ProcessAccumulated("DtoM", number)
    /\ UNCHANGED <<codec, dropping, display, discarding, shared, play, counts, drain>>

\* Variant: the flag of a drain does not end the pause.
LeavesUndiscarded == ~paused \/ Step

\* What ends the wait of a frame while the speed is zero.
Leaves == ~paused \/ Step \/ discarding["DtoM"]

DtoMPause ==
    /\ Leaves
    /\ Goto("DtoM", "pause", "time")
    /\ Step' = (Step /\ ~paused)
    /\ UNCHANGED <<pipe, hold, discarding, seen, accumulated, shared, paused, pauses,
                   counts, drain>>

\* The frame is dropped, by the flag or by the output timer, or goes on.
DtoMDrop ==
    /\ Goto("DtoM", "time", "take")
    /\ Gives("DtoM")
    /\ Step' = (Step \/ paused)
    /\ UNCHANGED <<pipe, discarding, seen, accumulated, shared, paused, pauses,
                   counts, drain>>

DtoMTime ==
    /\ ~discarding["DtoM"]
    /\ Goto("DtoM", "time", "queue")
    /\ UNCHANGED <<pipe, hold, discarding, seen, accumulated, shared, play, counts,
                   drain>>

DtoMQueue ==
    /\ Goto("DtoM", "queue", "take")
    /\ Gives("DtoM")
    /\ display' = Append(display, InHand("DtoM"))
    /\ UNCHANGED <<ring, codec, dropping, discarding, seen, accumulated, shared, play,
                   counts, drain>>

\* A call is performed when its number was seen, and waits in the table if not.
DtoMCall ==
    /\ ring["decoded"] # <<>>
    /\ pc["DtoM"] = "take"
    /\ Head(ring["decoded"]).kind \in Calls
    /\ Receive("decoded")
    /\ IF Due(Head(ring["decoded"]), seen["DtoM"]) THEN UNCHANGED accumulated
       ELSE Accumulate("DtoM", Head(ring["decoded"]))
    /\ UNCHANGED <<codec, dropping, display, pc, hold, discarding, seen, shared, play,
                   counts, drain>>

-----------------------------------------------------------------------------
(* The manifestor and ProcessPostManifest *)

\* A frame leaves when the next one takes its place.
Show ==
    /\ ~paused
    /\ Len(display) > 1
    /\ display' = Tail(display)
    /\ Send("manifested", Head(display))
    /\ UNCHANGED <<codec, dropping, procs, shared, play, counts, drain>>

PostMFrame ==
    /\ ring["manifested"] # <<>>
    /\ LET i == Head(ring["manifested"])
       IN /\ IsFrame(i)
          /\ ClearAtMarker("PostM", i)
          /\ seen' = [seen EXCEPT !["PostM"] = Max2(@, i.seq)]
          /\ ProcessAccumulated("PostM", i.seq)
          /\ Drained' = (Drained \/ DueNow("PostM", i.seq) # {})
    /\ Receive("manifested")
    /\ BuffersComingOutOfManifestation' = TRUE
    /\ UNCHANGED <<codec, dropping, display, pc, hold, MarkerInCodedFrameIndex,
                   NextBufferSequenceNumber, DrainSequenceNumber, UnPlayable, play,
                   counts, drain>>

PostMCall ==
    /\ ring["manifested"] # <<>>
    /\ LET i == Head(ring["manifested"])
       IN /\ ~IsFrame(i)
          /\ IF Due(i, seen["PostM"])
             THEN Drained' = TRUE /\ UNCHANGED accumulated
             ELSE Accumulate("PostM", i) /\ UNCHANGED Drained
    /\ Receive("manifested")
    /\ BuffersComingOutOfManifestation' = TRUE
    /\ UNCHANGED <<codec, dropping, display, pc, hold, discarding, seen,
                   MarkerInCodedFrameIndex, NextBufferSequenceNumber,
                   DrainSequenceNumber, UnPlayable, play, counts, drain>>

-----------------------------------------------------------------------------
(* InternalDrainStream *)

Then(d, from, to) == dpc[d] = from /\ dpc' = [dpc EXCEPT ![d] = to]

\* The drain that a frame parser asks for when it meets what it cannot play.
InParser(d, p, block) ==
    /\ p = "discard" /\ ~block
    /\ pc["CtoP"] = "parse" /\ InHand("CtoP").kind = "data"

\* With a policy to discard every process gets its flag.
SetFlags(p) ==
    IF p = "playout" THEN UNCHANGED discarding
    ELSE discarding' = [s \in Stages |-> IF s = "CtoP" /\ p = "parseAll"
                                         THEN FALSE ELSE TRUE]

DrainStart(d, p, block) ==
    /\ drains < MaxDrains
    /\ dpc[d] \in Ended
    /\ Exclusive => \A e \in Drainers : dpc[e] \in Ended
    /\ d = Parser => InParser(d, p, block)
    /\ UnPlayable' = (UnPlayable \/ d = Parser)
    /\ drains' = drains + 1
    /\ SetFlags(p)
    /\ dpc' = [dpc EXCEPT ![d] = IF p = "playout" THEN "rounds" ELSE "jump"]
    /\ policy' = [policy EXCEPT ![d] = p]
    /\ blocking' = [blocking EXCEPT ![d] = block]
    /\ marker' = [marker EXCEPT ![d] = MakeItem("marker", 0, 0, drains + 1)]
    /\ UNCHANGED <<pipe, pc, hold, seen, accumulated, MarkerInCodedFrameIndex,
                   NextBufferSequenceNumber, DrainSequenceNumber, Drained,
                   BuffersComingOutOfManifestation, play, jump, nextId, frames, overtaking>>

\* Collator->InputJump: done here, or by the thread that is inside Input.
DrainJump(d) ==
    /\ Then(d, "jump", "flush")
    /\ \/ /\ ~jump
          /\ Coded < CodedFrames
          /\ Collate(MakeItem("jump", 0, 0, 0))
          /\ UNCHANGED jump
       \/ jump' = TRUE /\ UNCHANGED <<ring, nextId>>
    /\ UNCHANGED <<codec, dropping, display, procs, shared, play, frames, drains,
                   overtaking, policy, blocking, marker>>

\* Variant: the next decode is dropped as well.
PreparedAndNext == Len(codec) + 1

\* MMECommandPreparedCount, counted from the decodes that have ended.
Prepared == IF Waiting = {} THEN Len(codec) ELSE Len(codec) - 1

\* The decodes in progress will be dropped; of the frames queued for display
\* the (video) manifestor keeps the one that is shown.
DrainFlush(d) ==
    /\ Then(d, "flush", "rounds")
    /\ dropping' = Prepared
    /\ IF display = <<>> THEN UNCHANGED <<display, ring>>
       ELSE /\ display' = <<Head(display)>>
            /\ ring' = [ring EXCEPT !["manifested"] = @ \o Tail(display)]
    /\ UNCHANGED <<codec, procs, shared, play, counts, policy, blocking, marker>>

\* WaitForDrainCompletion watches for signs of life when frames are played out.
StartsWait(d) ==
    BuffersComingOutOfManifestation' =
        (BuffersComingOutOfManifestation /\ policy[d] # "playout")

\* Another marker frame may be doing the rounds.
DrainRounds(d) ==
    /\ IF MarkerInCodedFrameIndex = NoIndex
       THEN Then(d, "rounds", "get") /\ UNCHANGED BuffersComingOutOfManifestation
       ELSE Then(d, "rounds", "waitRounds") /\ StartsWait(d)
    /\ UNCHANGED <<pipe, procs, MarkerInCodedFrameIndex, NextBufferSequenceNumber,
                   DrainSequenceNumber, Drained, UnPlayable, play, counts, policy,
                   blocking, marker>>

DrainGet(d) ==
    /\ Coded < CodedFrames
    /\ Then(d, "get", "number")
    /\ UNCHANGED <<pipe, procs, shared, play, counts, policy, blocking, marker>>

\* Variant: the number that the next frame would get.
NextNumber == NextBufferSequenceNumber

\* A number beyond those that the frames of a full ring can get.
NumberAhead == NextBufferSequenceNumber + RingSize

DrainNumber(d) ==
    /\ Then(d, "number", "resetEvent")
    /\ DrainSequenceNumber' = NumberAhead
    /\ marker' = [marker EXCEPT ![d].seq = DrainSequenceNumber']
    /\ UNCHANGED <<pipe, procs, MarkerInCodedFrameIndex, NextBufferSequenceNumber,
                   Drained, BuffersComingOutOfManifestation, UnPlayable, play,
                   counts, policy, blocking>>

\* Variant: the event stays as an earlier drain left it.
DrainResetForgotten(d) ==
    /\ Then(d, "resetEvent", "mark")
    /\ UNCHANGED <<pipe, procs, shared, play, counts, policy, blocking, marker>>

DrainReset(d) ==
    /\ Then(d, "resetEvent", "mark")
    /\ Drained' = FALSE
    /\ UNCHANGED <<pipe, procs, MarkerInCodedFrameIndex, NextBufferSequenceNumber,
                   DrainSequenceNumber, BuffersComingOutOfManifestation, UnPlayable,
                   play, counts, policy, blocking, marker>>

DrainMark(d) ==
    /\ Then(d, "mark", "insert")
    /\ MarkerInCodedFrameIndex' = marker[d].token
    /\ UNCHANGED <<pipe, procs, NextBufferSequenceNumber, DrainSequenceNumber, Drained,
                   BuffersComingOutOfManifestation, UnPlayable, play, counts,
                   policy, blocking, marker>>

DrainInsert(d) ==
    /\ Then(d, "insert", "callReset")
    /\ Collate(marker[d])
    /\ marker' = [marker EXCEPT ![d].id = nextId]
    /\ overtaking' = 0
    /\ UNCHANGED <<codec, dropping, display, procs, shared, play, jump, frames,
                   drains, policy, blocking>>

\* CallInSequence: the calls take no detour through the earlier processes.
DrainCallReset(d) ==
    /\ Then(d, "callReset", "callDrained")
    /\ Send("decoded", MakeItem("reset", 0, DrainSequenceNumber, 0))
    /\ UNCHANGED <<codec, dropping, display, procs, shared, play, counts, policy,
                   blocking, marker>>

DrainCallDrained(d) ==
    /\ Then(d, "callDrained", IF blocking[d] THEN "wait" ELSE "launched")
    /\ Send("manifested", MakeItem("drained", 0, DrainSequenceNumber, 0))
    /\ IF blocking[d] THEN StartsWait(d) ELSE UNCHANGED BuffersComingOutOfManifestation
    /\ UNCHANGED <<codec, dropping, display, procs, MarkerInCodedFrameIndex,
                   NextBufferSequenceNumber, DrainSequenceNumber, Drained, UnPlayable,
                   play, counts, policy, blocking, marker>>

DrainSucceeds(d) ==
    /\ Drained
    /\ Then(d, "waitRounds", "get") \/ Then(d, "wait", "drained")
    /\ UNCHANGED <<pipe, procs, shared, play, counts, policy, blocking, marker>>

\* A marker that was never obtained is released when the first wait gives up.
DrainTimesOut(d) ==
    /\ TimeOuts
    /\ ~Drained
    /\ dpc[d] \in {"waitRounds", "wait"}
    /\ IF policy[d] = "playout" /\ BuffersComingOutOfManifestation
       THEN UNCHANGED dpc
       ELSE dpc' = [dpc EXCEPT ![d] = IF @ = "wait" THEN "late" ELSE "unset"]
    /\ StartsWait(d)
    /\ UNCHANGED <<pipe, procs, MarkerInCodedFrameIndex, NextBufferSequenceNumber,
                   DrainSequenceNumber, Drained, UnPlayable, play, counts, policy,
                   blocking, marker>>

-----------------------------------------------------------------------------
Goes(d) ==
    \/ DrainJump(d) \/ DrainFlush(d) \/ DrainRounds(d) \/ DrainGet(d)
    \/ DrainNumber(d) \/ DrainReset(d) \/ DrainMark(d) \/ DrainInsert(d)
    \/ DrainCallReset(d) \/ DrainCallDrained(d) \/ DrainSucceeds(d)

CtoP  == CtoPTake \/ CtoPParse
PtoD  == PtoDTake \/ PtoDCheck \/ PtoDWindow \/ PtoDDecode
Codec == DecodeCompletes \/ MarkerPassesOn
DtoM  == DtoMMarker \/ DtoMClear \/ DtoMTake \/ DtoMPause \/ DtoMDrop \/ DtoMTime
           \/ DtoMQueue \/ DtoMCall
PostM == PostMFrame \/ PostMCall

Starts(d) == \E p \in Policies, n \in NonBlocking : DrainStart(d, p, ~n)

Next ==
    \/ Inject \/ InputExit \/ SetPlaybackSpeed
    \/ CtoP \/ PtoD \/ Codec \/ DtoM \/ Show \/ PostM
    \/ \E d \in Drainers : Starts(d) \/ Goes(d) \/ DrainTimesOut(d)

Spec == Init /\ [][Next]_vars

\* The kernel runs every thread that can run, the codec answers, and the display
\* shows frame after frame while the speed is not zero.
FairSpec ==
    /\ Spec
    /\ WF_vars(CtoP) /\ WF_vars(PtoD) /\ WF_vars(Codec) /\ WF_vars(DtoM)
    /\ WF_vars(Show) /\ WF_vars(PostM)
    /\ \A d \in Drainers : WF_vars(Goes(d))

-----------------------------------------------------------------------------
TypeOK ==
    /\ ring \in [Rings -> Seq(Item)]
    /\ codec \in Seq(Item) /\ dropping \in 0 .. Len(codec)
    /\ display \in Seq(Item)
    /\ pc["CtoP"] \in {"take", "parse"}
    /\ pc["PtoD"] \in {"take", "check", "window", "decode"}
    /\ pc["DtoM"] \in {"take", "clear", "pause", "time", "queue"}
    /\ hold \in [Holds -> Seq(Item)]
    /\ \A p \in Holds : Len(hold[p]) = IF pc[p] \in {"take", "clear"} THEN 0 ELSE 1
    /\ discarding \in [Stages -> BOOLEAN]
    /\ seen \in [{"DtoM", "PostM"} -> Nat]
    /\ accumulated \in [{"DtoM", "PostM"} -> [Slots -> Seq(Item)]]
    /\ {MarkerInCodedFrameIndex, NextBufferSequenceNumber, DrainSequenceNumber} \subseteq Nat
    /\ {Drained, BuffersComingOutOfManifestation, UnPlayable, paused, Step, jump} \subseteq BOOLEAN
    /\ frames \in 0 .. MaxFrames /\ drains \in 0 .. MaxDrains /\ pauses \in 0 .. MaxPauses
    /\ overtaking \in 0 .. MaxOvertaking
    /\ nextId \in 1 .. 1 + MaxFrames + 2 * MaxDrains
    /\ dpc \in [Drainers -> DSteps]
    /\ policy \in [Drainers -> {"playout", "discard", "parseAll"}]
    /\ blocking \in [Drainers -> BOOLEAN]
    /\ marker \in [Drainers -> Item]

\* What is before the display, from the place that is nearest to it; the frames
\* in these places are on their way in the order in which they were injected.
Line == <<hold["DtoM"], ring["decoded"], codec, hold["PtoD"], ring["parsed"],
          hold["CtoP"], ring["collated"]>>
Places == 1 .. 7

\* When InternalDrainStream reports the end of a drain to its caller, no frame
\* that was injected before its marker is on its way to the display any more.
DrainedMeansEmpty ==
    \A d \in Drainers : dpc[d] = "drained" =>
        \A p \in Places : \A k \in DOMAIN Line[p] :
            IsFrame(Line[p][k]) => Line[p][k].id > marker[d].id

\* Markers stay at their place between the frames, and their numbers, which run
\* ahead of the counter, fit between those of the frames: control messages that
\* wait for a number are due exactly when the frames before it have passed.
\* The last place is the ring in front of the process that gives the numbers.
NumbersFollowOrder ==
    \A p, q \in Places : \A i \in DOMAIN Line[p], j \in DOMAIN Line[q] :
        IsFrame(Line[p][i]) /\ IsFrame(Line[q][j]) /\ (p < q \/ (p = q /\ i < j))
        => /\ Line[p][i].id < Line[q][j].id
           /\ q # 7 => Line[p][i].seq < Line[q][j].seq

\* A stage discards only while a marker that will end it is on its way, or its
\* drain is still before the insertion: no flag is left behind to swallow the
\* frames of what is played next.
Reaching == [s \in Stages |-> CASE s = "CtoP" -> 7 .. 7
                               [] s = "PtoD" -> 5 .. 7
                               [] OTHER      -> Places]
IsMarker(i) == i.kind = "marker"
FlagHasMarker ==
    \A s \in Stages : discarding[s] =>
        \/ \E d \in Drainers : dpc[d] \in Before
        \/ s = "DtoM" /\ pc["DtoM"] = "clear"
        \/ \E p \in Reaching[s] : \E k \in DOMAIN Line[p] : IsMarker(Line[p][k])
        \/ s = "PostM" /\ \E k \in DOMAIN ring["manifested"] :
                             IsMarker(ring["manifested"][k])

\* A drain that discards comes to its end, whether the stream is paused or not.
Discards(d) == dpc[d] = "jump" /\ blocking[d]
DiscardEnds == \A d \in Drainers : Discards(d) ~> dpc[d] = "drained"

\* A drain that plays out comes to its end unless the stream stays paused.
PlaysOut(d) == dpc[d] = "rounds" /\ blocking[d]
PlayoutEnds ==
    (<>[]~paused) => \A d \in Drainers : PlaysOut(d) ~> dpc[d] = "drained"
=============================================================================
