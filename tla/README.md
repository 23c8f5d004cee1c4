# Verification of the player core of the sh4 duckbox

The repository builds set-top box firmware: kernel drivers, a media player that
runs in the kernel (`player2_191`), and the applications above it. This project
specifies the player's own core in TLA+, checks it with TLC on small instances
and proves part of it with TLAPS. Paths below are relative to
`src/tdt/cvs/driver/player2_191/` unless they start with `src/` or `tdt/`.

## 1. The system

### 1.1 Inventory

| Part | State it keeps | Operations | Talks to | What is hard | What makes it correct |
|---|---|---|---|---|---|
| Buffer pool (`player/buffer/buffer_pool_generic.cpp`, `buffer_individual_generic.cpp`) | ring of free buffers, reference counts, attachments, owners, an event and an abort flag per pool | GetBuffer, ReleaseBuffer, Increment/Decrement ReferenceCount, TransferOwnership, Attach/DetachBuffer, AbortBlockingGetBuffer | every thread of a stream; the allocator | counts kept under two mutexes, releases that nest through attachments, one event for many waiters, flags touched without a lock | a buffer lives exactly as long as somebody refers to it and is in one place at a time |
| Buffer manager (`player/buffer/buffer_manager_generic.cpp`) | lists of pools and types | CreatePool, DestroyPool, type table | playbacks | pools destroyed while buffers are out | a pool is destroyed only when unused |
| Pool memory (`components/infrastructure/allocator_simple.cpp`) | table of free extents, an event | Allocate, AllocateLargest, ExtendToLargest, Free, destructor | collators (allocate), decoding and parsing (free) | prologue of Free outside the lock; infinite wait on a shared event; arithmetic on extents | every byte is in one place; holes are joined; nobody sleeps beside a hole that fits |
| Ring (`components/infrastructure/ring_generic.cpp`) | array, two indices, an event | Insert, Extract, Flush, NonEmpty | the four processes of a stream, manifestors | indices tested without the lock and updated in steps | a bounded first-in-first-out queue; no lost wake up |
| Stream (`player/player/player_process_*.cpp`, `player_in_sequence.cpp`) | four rings, discarding flags, sequence numbers, tables of control messages, re-ordering table | the four process loops, CallInSequence | collator, frame parser, codec, manifestor, output timer | frames are re-ordered while control messages keep their place; buffers extracted while the stream ends | calls take effect at their place in the stream, once; markers separate what is before from what is after |
| Playback (`player/player/player_playback.cpp`, `player_switch.cpp`) | lists of streams, events Drained, StartStop, SwitchStreamLastOneOutOfTheCodec | AddStream, RemoveStream, InternalDrainStream, SwitchStream, MarkStreamUnPlayable | the stream's processes | time-outs that give up on running threads, overlapping drains | a drain that reports success has emptied the stream; nothing is touched after it was deleted |
| Policies, events, time (`player/player/player_settings.cpp`, `player_events.cpp`, `player_time.cpp`) | policy tables, event list | SetPolicy, SignalEvent, GetEventRecord | user of the player | bounded table of outstanding events | no event is lost before the table is full |
| Collators (`player/collator*`) | accumulated frame, partition of a large block | Input, InputJump, FrameFlush | pool, ring | partitioning memory while frames are in flight | frames do not overlap |
| Frame parsers (`player/frame_parser`) | bit stream state, reference lists, reverse-play lists | Input | collated frames | codec specific | decode and display indices are consistent |
| Codecs (`player/codec/codec_mme_base.cpp` and others) | decode contexts, buffer state table | Input, callback, ReleaseReferenceFrame, ReleaseDecodeBuffer | co-processor, manifestor | asynchronous completions, partial frames | a decode buffer is kept while it is referenced |
| Manifestors, mixer (`player/manifestor`) | display queue, mixer client states | QueueDecodeBuffer, ReleaseQueuedDecodeBuffers | hardware | interrupt driven | each queued buffer comes out once |
| Output timer, coordinator (`player/output_timer`, `player/output_coordinator`) | time mapping, waiting streams | SynchronizeStreams, TranslatePlaybackTimeToSystem | decode-to-manifest process | streams that wait for each other | all streams get one start time or give up |
| OS layer (`linux/components/inline/osinline.c`) | - | mutex, event, sleep, thread | all | - | assumed, as described in 3 |
| DVB devices (`linux/drivers/media/dvb/stm`) | device state | ioctl | player | - | - |
| Other drivers (`tdt/cvs/driver/*`) | chip state | ioctl, polling threads | hardware | polling | slot and front panel state machines |
| libeplayer3 (`tdt/cvs/apps/misc/tools/libeplayer3`) | play/pause/seek flags | commands, feeding thread, supervisor | player drivers | flags without a lock | a stop ends all threads |
| Timer daemons (`tdt/cvs/apps/neutrino/src/timerd`, `tdt/cvs/apps/enigma2-*/timer.py`) | event map with states | add, modify, stop, step | recording, zapping | clock changes, repeats | each event starts and stops once |
| The rest | user interfaces, third-party programs, build system | - | - | - | not this project's subject |

### 1.2 How the parts of a stream interact

    input -> collator -> CollatedFrameRing -> [collate to parse] -> frame parser
          -> ParsedFrameRing -> [parse to decode] -> codec
          -> DecodedFrameRing -> [decode to manifest] -> output timer, manifestor
          -> ManifestedBufferRing -> [post manifest] -> codec (release)

Brackets are the four processes (kernel threads) of a stream. Frames are buffers
of a pool; each process owns one reference while it works on one. A decoded
frame has the coded frame it came from attached to it, so the coded frame lives
as long as the decoded one. Commands (flush, switch, reset of the time mapping,
"tell me when drained") travel in the same rings as control structures with the
sequence number at which they are to be applied.

## 2. Plan

Order of the modules; each is written so that it can be proved about (constants
with named assumptions, one action per operation or section, no RECURSIVE).

1. Done: `BufferLife` (abstract), `BufferPool`, `BufferPoolInvariants`,
   `BufferPoolCounters`, `BufferPoolLife`; `BoundedFifo` (abstract),
   `RingGeneric`, `RingProofs`; `AllocatorSimple`, `AllocatorProofs`; `PlayerDrain`
   (the four processes with the marker of a drain), `DrainProofs`; `FrameReorder` (from decode
   order to display order, and the calls that wait for their place in it),
   `ReorderProofs`; `CodecBuffers` (the decode buffers), `CodecReferences`.
2. Not written: `PlayerSwitch` (SwitchStream and its four in-sequence calls) and
   `PlayerTeardown` (RemoveStream, CleanUpAfterStream, DestroyPool), which would
   compose the stream with the buffer manager; an abstract barrier in a queue that
   `PlayerDrain` implements while drains do not overlap.
3. Beside the core: synchronisation in `output_coordinator_base.cpp`; policies and
   events of the player; the timer daemon of neutrino; the supervisor of
   libeplayer3; the slot machine of starci2win.

Abstract specifications worth stating: the life of a buffer (done), a bounded
queue (done), a drain as a barrier in a queue.

Theorems worth proving. Done: type correctness of the pool, exact reference counts,
one place per buffer, no buffer lost, counters that agree, and the refinement of
`BufferLife`; type
correctness of the ring, the refinement of `BoundedFifo`, and no lost wake up; of
the allocator no lost wake up, the order of its destructor, and the whole account
of its memory (no overlap, no boundary crossed, holes joined, nothing lost); of the codec that it
never forgets a marker nor lets it pass too early, and its references and accesses; of the re-ordering its
types, the room in its table, the order of markers and calls, and the order of
display; of the drain its types, the order of numbers, the end of every flag, and that a
drain that has ended has emptied the stream. Every invariant that a run checks is
proved, under the hypotheses that section 6 names. Left: the abstract barrier.

## 3. The modules and the code

### 3.1 `BufferPool`: `player/buffer/buffer_pool_generic.cpp`, `buffer_individual_generic.cpp`

| Code | Model |
|---|---|
| `FreeBuffer` ring, `BufferReleaseSignal`, `AbortGetBuffer`, `ReferenceCount` and `CountOfReferencedBuffers` of a pool | variables of the same names, per pool (`PoolReferenceCount` for the pool's own count) |
| the pool's `Lock` | a section that neither waits nor calls out is one action; `Lock` is a variable only where it is kept over a step (`getTest`) |
| a buffer's `Lock` | held over steps only by ReleaseBuffer: `BufferLocked` |
| `ReferenceCount`, `AttachedBuffers[]` of a buffer | `ReferenceCount`, `AttachedBuffers` (a set: the order of the slots decides nothing) |
| program counters and nested calls | `pc`, `buf`, `arg`, and `chain` for the releases that a release contains |
| owners, `OwnerIdentifier[]` | `held`: one reference of each thread per buffer, which is how the player's identifiers are used |

GetBuffer is `GetBuffer, GetTry, GetSignalled, GetTimedOut, GetRelock, GetTest,
GetInit, GetFail, GetCount`; the other operations have the names of the code.
What clients may do is taken from the clients: a thread works on the attachment
table of a buffer only while it is its sole owner, a thread drops only what it
holds, and attachments go from decoded frames to coded frames or parameter
blocks and never back (`Level`). Left out: metadata, the owner table, memory
totals, dynamic pools.

`BufferLife` is what a client may rely on: a buffer is free, taken, used by a set
of users, ending, or lost for want of memory. `BufferPool` implements it
(`ImplementsLife`), where the users of a buffer are its holders and the buffers it
is attached to.

`BufferReleaseSignalWaitedOn` is read by `TidyUp` alone, which is not modelled.

### 3.2 `RingGeneric`: `components/infrastructure/ring_generic.cpp`

One action per access to `NextInsert`, `NextExtract` and `Storage`, because
Extract tests the indices without the lock and Insert moves its index past the
end, wraps it and possibly takes it back. `Signal` is the Valid flag of the event;
the wait re-tests it after each wake up (`linux/components/inline/osinline.c`).
`BoundedFifo` is the abstract queue; the mapping reads the queue off the indices,
taking an index that is being moved at its old value (`Contents`). A ring has one
extractor, as `components/include/ring_generic.h:27` asks for (`OneExtractor`). NonEmpty,
which compares the two indices, and the destructor, which sets the event, sleeps for a
millisecond and terminates event and lock, have no action.

### 3.3 `AllocatorSimple`: `components/infrastructure/allocator_simple.cpp`

The table is `Blocks` and `HighestUsedBlockIndex`; blocks that buffers hold are
`allocated`. Every call runs under the Lock and is one action, except the prologue
of Free, which picks the record for its result before it takes the Lock
(`FreeExtent`, then `FreeLocked`). Only the collator of the stream allocates, so one
thread does (`OneAllocator`); which of the two collators it is (`Collator2`: it
takes the largest hole and partitions it, instead of cutting to size) is chosen in
`Init`. There are finitely many threads (`ThreadsAssumption`), as the number of
records is compared with the number of blocks that are out. The history variable
`overlapped` records that two calls of Free have chosen their record at the same time: what is lost then (4.2) is lost for good, and
`NothingLost` and `Coalesced` are stated up to there. A part of `Coalesced` is that
the table has a record for whatever Free is about to add (`RoomInTable`). The
contents of unused records
are abstracted, the segment size is the 1 that pools pass, and the calls of a buffer
(allocate, largest, extend, partition, shrink, free) are those of the pool code.

The destructor is `Delete` and `DeleteSignal`, then `DeleteTest` (the poll of `InAllocate`)
and `DeleteEnd` (event and Lock are terminated: `Gone`). It may start at any time, and
calls of every kind may start until it has ended, since the code tests `BeingDeleted` only
in the loop of Allocate (`:98`). A call of Allocate that sees it there leaves with the Lock
held (`LockKept`), after which every call that needs the Lock stands still. The history
variable `late` names the threads in Allocate that came in after the destructor had
started: what it promises the others is `EarlierCallsLeft`.

### 3.4 `PlayerDrain`: `player/player/player_playback.cpp` and the four processes

| Code | Model |
|---|---|
| `CollatedFrameRing` ... `ManifestedBufferRing` | `ring`: four sequences (sized `CodedFrameCount + 512` or 1024, they never refuse; the ring's own steps are 3.2) |
| queued decodes and `MarkerBuffer` of `codec_mme_base.cpp`, `DiscardDecodesUntil` | `codec`, `dropping` |
| frames queued in the video manifestor | `display`, whose head is on the screen |
| `DiscardingUntilMarkerFrame...`, `MarkerInCodedFrameIndex`, `NextBufferSequenceNumber`, `DrainSequenceNumber`, `Drained`, `BuffersComingOutOfManifestation`, `UnPlayable`, `Step` | variables of these names (`discarding[p]`) |
| `MaximumActualSequenceNumberSeen`, tables of control messages | `seen`, `accumulated`, of the two processes to which a drain sends calls: a table has `Slots`, each empty or with one message |
| a process at work on a buffer | `pc`, `hold` |
| a thread in InternalDrainStream | `dpc`, `policy`, `blocking`, and the `marker` it obtained |

Each wait, and each place where a flag is read again after a wait, ends an
action; so does each access of the drain to a variable that it shares with the
processes, in the order of the code. Two accesses that no other thread can tell
apart share an action (the number of a frame and its discarding; the two flushes
of codec and display). The re-ordering table and the decode buffers have modules
of their own (3.5, 3.6). A frame is a place in the order of insertion (`id`) and a
number (`seq`). `Line` puts what is before the display into one line: the rings, the
codec and the hands of the processes as seven `Places`, the first ring last. What is abstracted: frames keep their order after decoding (no
re-ordering table), one decode makes one frame, a frame that is not decoded leaves
no record, re-timing after a change of speed and the event for the user at the
end of a drain are left out. The output timer may drop any frame, the frame
parser may reject any, a decode may take any time. The display itself is
external: while the speed is not zero a frame leaves when another one follows.

### 3.5 `FrameReorder`: `player_process_decode_to_manifest.cpp` and what feeds it

| Code | Model |
|---|---|
| `NextDisplayFrameIndex`, the frame whose settings are deferred, `CollapseHolesInDisplayIndices` (`frame_parser_video.cpp`) | `NextDisplayFrameIndex`, `Deferred`, `CollapseNext` |
| `ParsedFrameRing`, decodes in progress, `DecodedFrameRing` | `parsed`, `codec`, `decoded`, each bounded by `MaxAhead` |
| `NonDecodedBuffers[]`, `DisplayIndicesCollapse` | `NonDecoded`, `kept`, `DisplayIndicesCollapse` |
| `AccumulatedBufferTable[]`, `DesiredFrameIndex`, the marker kept in a local variable | `table`, `desired`, `marker` |
| `MaximumActualSequenceNumberSeen` and the tables of control messages of the third process | `seen`, `before`, `waiting` |

The loop of the third process is `ScanRelease, SkipUnused, ScanPassMarker, ScanOn`
(one pass over the table, until nothing moves) and `Take...` (one element of the
ring, or the time-out of Extract). `Leave` is what happens to a frame on its way to
the display, with the number under which control messages are then applied
(`Renumbered`). The frame parser's side is `Parse...`: the display index of a
reference frame is settled by the next reference frame or jump (`Settle`), that of
another frame at once. The second process decodes a frame or records that it did
not (`DropFrame`).

Facts the properties depend on: re-ordering needs room for two frames in the table
(`MaxDecodesOutOfOrder >= 2`, five decode buffers of which three work), with less
frames leave out of order by design; a frame with an index up to
`DisplayIndicesCollapse` leaves at once, and may be overtaken (4.2); a call whose
number has been seen is made at once; a full table of messages drops the call
(`player_in_sequence.cpp:412`).

Abstracted: one decode per frame, forward play, no pausing, no calls by playback
time or of the drain itself, no buffer held for an early first frame; a frame
that leaves is one step with its passing to the manifestor, and a discarded frame
travels no further. `CallsNotEarly` is checked without drains.

### 3.6 `CodecBuffers`: `codec_mme_base.cpp`, `codec_mme_video.cpp`

| Code | Model |
|---|---|
| reference count of a decode buffer | `owners`; a buffer with none is in the pool |
| `BufferState[]`, `IndexBufferMap`, `CurrentDecodeBufferIndex` | variables of these names (`map` is the set of pairs in use) |
| decode contexts | `context` while a thread prepares or releases one, `commands` while the co-processor has it; each with the buffers of its reference lists |
| `MMECommandPreparedCount`, `MMECommandCompletedCount`, `DiscardDecodesUntil`, `MarkerBuffer`, `PassOnMarkerBufferAt` | `Prepared`, `Completed`, `DiscardDecodesUntil`, `MarkerBuffer`, `PassOnMarkerBufferAt` |
| `DecodedFrameRing`, and whoever has a frame behind it | `OutputRing`, `shown` |

Three threads: the second process of the stream, the callback of the co-processor,
and a drain. What the codec's Lock covers is one action; every access to
`CurrentDecodeBufferIndex` outside it is an action of its own, and so is every
release inside ReleaseDecodeContext. A picture is a frame or a field; two fields
share a buffer, and the second one may find the first completed, failed, or
given out. A decode may fail when its command is filled in (`FillFails`) or sent
(`SendFails`). What the frame parser holds as reference frames, and when it gives
them up, is the environment (`references`).

`Serialized` leaves two orders of steps out of `codec_buffers`, in which the code
goes wrong (4.2): a drain gives out partial buffers only while the second process is
between two pictures (which the discarding flag cares for only until an earlier
marker clears it), and the second process does not get a buffer while a callback
still compares that buffer with the current one. Left out altogether: the window in
which `MapBufferToDecodeIndex`, which takes no lock, meets `UnMapBufferIndex`
(`codec_mme_base.cpp:904,931`: an entry whose `DecodeIndex` is cleared and whose
`BufferIndex` is not yet can be taken, and is wiped out afterwards).

## 4. The runs

Constants are in the `.cfg` files; every name there is a model value, and the
bounds are named constants of the modules. `TypeOK` is checked once per module.

### 4.1 Runs that pass

| Run | Instance | What it shows |
|---|---|---|
| `pool_safety` | two threads, two frames, one parameter block that has no memory now and then, one of the threads never blocks and may abort | `CountIsExact`, `NeverActsOnDeadBuffer`, `OnePlace`, `AccountedFor`, `CallsAreSound`, `CountersAgree`, and the refinement `ImplementsLife` of `BufferLife` |
| `pool_live` | two blocking threads, two frames, one parameter block | `GetterServed`: nobody sleeps for good beside a free buffer; `DropCompletes`: nested releases end |
| `ring_queue` | two inserters (one of them flushes), one extractor, two values, two entries | the ring implements `BoundedFifo`; `NoLostWakeUp`; `ExtractEnds` |
| `alloc_partition` | 6 units of memory with two 64MB boundaries, a table of 5 records, allocation in units of 2, requests of 2 and 3, either collator, two threads that free | `NoOverlap`, `NothingLost`, `Coalesced`, `NeverCrosses`, `SleepsForAReason` with concurrent frees; `EarlierCallsLeft` and `DeleteCompletes` for the destructor, with calls until its end |
| `drain_barrier` | one caller, two drains (discard, parse all), two frames | `DrainedMeansEmpty`: a drain that reports its end has emptied the stream |
| `drain_late` | two callers, one of them the frame parser, blocking or not, with time-outs, one at a time, two drains (discard, play out), one frame | `NumbersFollowOrder`, `FlagHasMarker`: order, numbers and flags outlive drains that gave up |
| `drain_ends` | one drain (discard, play out), two frames, one pause | `DiscardEnds`, `PlayoutEnds` |
| `reorder_calls` | four frames of any kind, decoded or dropped, one jump, one call | `CallsNotEarly`: no call is made ahead of a frame it has to follow; `TableLeavesBuffers`: the table never takes the buffers that the decodes need |
| `reorder_drain` | four frames, one drain (play out, discard) | `LeavesInOrder`, `MarkerIsLast`, and `MarkersPass`: the marker always comes through |
| `codec_buffers` | two decode buffers, three pictures, one reference frame, one drain, one failure | `ReferencesExact`, `DecodesReadWhatTheyName`, `OutputOnce`, `MarkerNotForgotten`, `MarkerAfterDecodes` |

Why the bounds are enough. *Pool*: two threads already interleave any two of the
unlocked sections, two frames let a buffer be recycled while another one refers
to the parameter block. Attachments are one level deep where the player has two (a
decoded frame, its coded frame, the parameters): the second level repeats the
same step of the same code. *Ring*: with two entries the ring is empty, half full
and full, the storage of three wraps, and a second inserter meets every partial
update of the first. *Allocator*: a piece with a
boundary on one side, and one with a boundary at both, with holes on either side
of each; the table has more records than there can be blocks and regions in this
memory, so it never fills (what the code's table of 256 records means is in section 6:
there it may). *Drain*: two drains are one
and its successor, two frames are one before and one behind a marker or both on
the same side, and the pools of 2 to 4 coded frames and 2 or 3 decode buffers
run out, so that every process also waits for buffers; `MaxOvertaking` equals `MaxFrames` and
so restricts nothing in these runs. *Re-ordering*: four frames
are two reference frames with another frame between them in display order, and
one more to settle the last index, or that is missing; calls and drains are
checked apart because together they leave the reach of a run. *Codec*: with two
buffers every picture meets one that was just given up, while the reference frame
still holds the other; three pictures are two fields and a frame, or a
reference, a picture that reads it, and one that takes over a buffer. (Three
buffers with three pictures and no failure also pass; and so do two drains, with
`MaxDrains = 2`, for all properties but `MarkerAfterDecodes`: see 4.2.)

The runs of the allocator, the drain, the re-ordering and the codec stop checking
for deadlock
where clients may simply stop: nobody has to make a call, the bounded numbers of
frames and drains are used up, and a deleted allocator does nothing more. The
ring and the pool are checked for deadlock.

### 4.2 Runs that find a disagreement

| Run | What the code does |
|---|---|
| `drain_overlap` | a drain that follows one that does not block takes the end of the first for its own |
| `codec_partial` | a drain gives out the current decode buffer while the second process prepares a decode into it: it is shown while it is decoded into, and then given out again (`Serialized = FALSE`) |

Further disagreements were met and have no run of their own. Those with a
property in a module can be seen with the configuration that is named:

- Pool: GetBuffer clears the abort flag on entry without the lock
  (`buffer_pool_generic.cpp:510`); a second caller wipes out the abort meant for the
  first, which then waits on (`AbortIsEffective` in `MCBufferPool.tla` with the
  constants of `MCBufferPool.cfg` and FairSpec).
- Allocator: Free picks the record for its result before it takes the lock
  (`allocator_simple.cpp:322`); two concurrent calls pick the same one, and line 383
  overwrites what the other gave back (`NothingEverLost` in `MCAllocator.cfg`).
- Allocator: Allocate sets `InAllocate` (`:84`) without a look at `BeingDeleted`. A call
  that comes after the destructor has found the flag clear (`:65`) is inside when event
  and Lock are terminated and the memory goes away (`GoneIsUnused` in `MCAllocator.cfg`).
- Allocator: a call of Allocate that sees `BeingDeleted` leaves with the Lock held
  (`:98-99`). A second one that comes then blocks on the Lock with `InAllocate` set, and
  the destructor waits for it for ever (`DeleteAlwaysCompletes` in `MCAllocator.cfg`;
  `DeleteCompletes` excepts this case as `LateCallStuck`). A Free at that time blocks for
  ever, too. The pool deletes its allocator when the playback is torn down, and nothing in
  these two classes keeps the callers away.
- Drain: the third process clears its discarding flag after the marker left
  (`player_process_decode_to_manifest.cpp:222-224`); if the next drain starts in
  between, its flag is cleared, and it hangs while the stream is paused (`DiscardEnds`
  in `MCDrainEnds.cfg` with `MaxDrains = 2`).
- Re-ordering: "If we get here with a marker frame, then we have emptied our
  accumulated list" (`player_process_decode_to_manifest.cpp:203`), but the last
  reference frame has no display index until another one is parsed, and stays in
  the table when a drain that plays out has ended (`MarkerEmptiesTable` in
  `MCReorderDrain.cfg`).
- Re-ordering: a lower index than expected is reported as an implementation error
  (line 367). A dropped frame that may close holes raises `DisplayIndicesCollapse`
  (`player_process_parse_to_decode.cpp:345`), and every index below it then counts
  as not decoded (line 694), also that of a frame still in the codec
  (`NoReorderingFailure` in `MCReorderCalls.cfg`).
- Codec: a callback that discards gives the lock up to release the buffer and then
  invalidates `CurrentDecodeBufferIndex` if it is the same buffer
  (`codec_mme_base.cpp:1131,1177`); the second process may have been given it in
  between, and goes on with `INVALID_INDEX`. The drain of `codec_partial` can lead
  there as well (`InBounds` in `MCCodecPartial.cfg`).
- Codec: a decode that could not be sent was counted as prepared (line 1654) and
  is never counted as completed, so a marker behind it waits for one decode more.
- Codec: TestMarkerFramePassOn tests without the lock and takes the marker afterwards
  (lines 1966-1969). If the callback stands still in between while the second process
  passes the marker on, or throws it away for another one (line 764), it takes the
  marker of the next drain, ahead of decodes that were prepared before it
  (`MarkerAfterDecodes` in `MCCodec.cfg` with `MaxDrains = 2`). The run states this
  property for one drain.
- Ring: a refused insertion advances `NextInsert` before it takes it back
  (`ring_generic.cpp:62-68`). The extractor tests the indices without the lock
  (`:90`), so a full ring can look empty; it then sleeps, and the refused insertion
  sets no event. `NoLostWakeUp` therefore excepts the full ring. The rings of a
  stream are larger than the number of buffers, and their extractors wait with a
  period, so only callers with an infinite wait on a ring that fills up are
  exposed (`player/manifestor/manifestor_clone.cpp:470`).
- Drain: with a third drain the same goes further. An older drain that did not wait,
  or gave up waiting, sets the event when its call is made, and a third drain that
  stands before its marker takes that for the end of the second. The second marker is
  then still in the first ring, and its `MarkerInCodedFrameIndex` is overwritten: it is
  no longer recognised (`NumbersFollowOrder` in `MCDrainLate.cfg` with `MaxDrains = 3`).
- Drain: a drain of the frame parser that finds another marker in the first ring
  waits for its own process, gives up and releases `MarkerFrame` before it was
  ever assigned (`player_playback.cpp:1001-1005`); and the reset of the time
  mapping is sent behind the marker (`:1054-1060`), so that frames from behind it
  can be handled first.

### 4.3 Variants

Every property has a variant of the code that breaks it (`\* Variant` in the
modules, listed under `mutants` in `PROJECT.json`): an attachment that is not
counted, a comparison with the wrong count, a wake up that is not sent, a
boundary that is forgotten, a flag that is not cleared. They show that the runs
reach the situations the properties are about.

## 5. Fairness

- `BufferPool`, `RingGeneric`: strong fairness of each thread's steps inside a
  call. Mutexes and events are semaphores and wait queues of the kernel, which
  serve their waiters in order, so a thread whose lock is free again and again
  gets it; the waits of GetBuffer, and of Extract with a period, are bounded
  (`BUFFER_MAXIMUM_EVENT_WAIT`, the period), so the time-out is a step. No call
  has to be made.
- `AllocatorSimple`: weak fairness of a thread in Allocate and of the destructor.
  Free gets none: a collator that waits for memory may wait for ever if nobody
  gives any back, and no property claims otherwise.
- `PlayerDrain`: weak fairness of the four processes, of the codec, of the
  display while it runs, and of a drain that was called. Nothing makes input
  arrive, changes the speed, lets the collator leave Input, or lets a wait time
  out; `PlayoutEnds` assumes that the stream does not stay paused.
- `FrameReorder`: weak fairness of the first three processes, of the codec and of
  the display, for `MarkersPass`; nothing makes frames or drains arrive.
- `CodecBuffers`: none. That a marker is passed on is stated as an invariant
  (`MarkerNotForgotten`: somebody is still going to look).

## 6. What is proved

`BufferPoolInvariants!TypeCorrect` (`Spec => []TypeOK`) holds for any finite sets of
threads and buffers, any pools, any assignment of buffers to pools, any levels
and any number of attachments. It uses `ThreadsAssumption`, `BuffersAssumption`
and `NamesAssumption` of `BufferPool` (finite sets, a pool per buffer, four kinds
of names that do not mix: `arg` holds a thread in one call and a buffer or a pool
in another).

The argument: `TypeOK` is inductive. It is more than the range of each variable:
`CallType` ties the step of a thread to what its call works on, which is what
makes the next step well defined. A release that ends must find a buffer to
return to, so a chain may exist only inside a decrement or a release
(`ReturnEffect`); every other step moves one thread to a step whose needs its
arguments meet (`GotoEffect`, `ThreadStep`), and leaves the other threads as they
are (`CallTypeOK`, `AdvanceTypeOK` have one step per action). TLC checks `TypeOK` in
`pool_safety`.

`BufferPoolInvariants` also proves, from the same assumptions, that for any number of
threads, pools and buffers

- `CountsExact`: `Spec => []CountIsExact`;
- `PlacesExact`: `Spec => []OnePlace`;
- `DeadBuffersUntouched`: `Spec => []NeverActsOnDeadBuffer`;
- `CallsSound`: `Spec => []CallsAreSound`.

None of the first three is inductive, and each needs the others. The inductive
invariant is `IInv == TypeOK /\ CountIsExact /\ Places /\ CallsAreSound`:

- `DecBuf` sends a thread to release the buffer when it finds the count at one.
  That nobody refers to the buffer then follows from `CountIsExact`: the thread's own
  claim is one of those counted, so it is the only one (`DecBufStep`).
- `GetInit` sets a count to one and may do so only if nobody has a claim;
  `MadeUnused`, a part of `Places`, says so, and comes from `FreeUnused` when the
  buffer leaves the ring (`GetTakeStep`). `RelFree` turns `ReleasedUnused` into
  `FreeUnused` (`RelFreeStep`). `Places` says of a buffer what `OnePlace` says, with
  the claims spelled out (`Unused`, `UnusedMeansNoClaims`).
- An increment under way is a claim that is not counted yet. `IncSound` (in
  `CallsAreSound`) says on what it stands: the caller keeps a reference, of its own
  or through a buffer it owns, so the buffer is alive (`IncAlive`); a reference is
  promised once, to somebody who has none, so `IncBuf` adds exactly one claim
  (`IncBufStep`).
- `GetInit` clears the attachment table without giving up what is attached. Nothing
  is lost because of `Bare`: a free buffer, or one past its release loop, has nothing
  attached.
- A release that returns to its caller finds the right buffer because of
  `ChainDistinct` (`ReturnFacts`).

`QuietStep` covers the actions that only move a thread; every other action has a
lemma of its own with a step per conjunct of `IInv`. `IsFiniteSet(Threads)` and
`IsFiniteSet(Buffers)` are used where claims are counted (`ClaimsFinite`),
`NamesAssumption` where `arg` tells an owner from a buffer. What clients do, as
`BufferPool` has it from them (a table is changed by the sole owner of its buffer,
an owner stands for one reference), is part of the specification that the theorems
are about: with other clients they need not hold.

`BufferPoolCounters` proves `CountersExact` (`Spec => []CountersAgree`) on top of
`IInv`. The sum of a pool's counts is written as the number of pairs of a buffer and a
number up to its count (`Counted`), so that a count which moves by one adds or takes one
pair (`CountedMoves`), and nothing has to be summed. `Ledger` is the balance of one
pool: its two totals, the threads between two updates (`Late`), and the pairs, which are
finitely many. Most actions touch none of them (`Steady`); the seven that do have
a lemma each. `GetInit` raises a count that was zero, since the buffer is nobody's;
`DecBuf` that takes the last reference leaves the buffer among the referenced ones, as
a release, until `RelFree` takes it off: by `ReleasedUnused` and `ChainDistinct` that was the
only release of it. `CountTells` says that a count is zero exactly when nobody refers to
the buffer; without it a negative count could hide behind the pairs.

`BufferPoolLife` proves from the same invariant that the pool implements
`BufferLife` (`PoolImplementsLife`) and that no buffer is lost (`NoBufferLost`).
`StatusFits` reads the status of a buffer off the place it is in, which `Places` makes
unique. Every action then has a lemma that says which buffer it moves, from which
status to which, and that all others stay as they are (`Same`, `Apart`): `LifeStep`.
A step that moves one buffer is a step of `BufferLife` (`LifeRefined`), and no such
step leads to a place that nobody knows (`NoneLostStep`).

`RingProofs` is about a ring of any size and any inserters and flushes:

- `TypeCorrect`: `Spec => []TypeOK`. The inductive invariant adds who may have moved
  an index past its range: only the thread that holds the lock, and in one step of
  its program.
- `RingIsQueue`: `Spec => ImplementsFifo`. The contents of the ring are the section
  of the store between the two indices (`Section`); storing appends to it, moving
  `NextExtract` takes its first element off, and a store outside it changes nothing
  (`SectionAppend`, `SectionTail`, `SectionStore`), which is arithmetic of
  remainders. Every other step is hidden (`HiddenStep`): the mapping takes an index
  that is being moved at its old value.
- `WakeUpNotLost`: `Spec => []NoLostWakeUp`, where `OneExtractor` is needed: the
  event has one flag, and a second extractor could reset what was meant for the
  first.

`AllocatorProofs` proves, for any memory, table and number of threads that free,
`WakeUpNotLost` (`Spec => []SleepsForAReason`) and `DestructorWaits` (`Spec =>
[]EarlierCallsLeft`). The invariant says that whoever is in Allocate is the allocator
and has set the flag (`InsideKnown`), and that a destructor has announced itself
(`EndKnown`). `DestructorWaits` is about calls that were under way when the destructor
started: its test of `InAllocate` is passed only when nobody is inside (`PastTheTest`), and whoever
comes in afterwards is `late`, so nobody else can be inside from then on (`EarlierStep`). Calls
that start later are in the specification it is about, and are not protected (4.2). Every call but Free only takes from the table, so what did not fit
still does not (`TakenFitsNoMore`), and Free sets the event, whatever its loop made
of the table (`Outside`). `OneAllocator` is needed for the first theorem: of two
threads in Allocate each resets the event of the
other.

The other six theorems are about the memory itself, and look at it as a set of
pieces (`Pieces`): the free extents of the table, those that buffers hold, and those
on their way back. The inductive invariant `MInv` says that each piece has its type
and lies inside the memory and inside one 64MB region (`PiecesFit`), and that no two
share a byte (`PiecesApart`); no record above `HighestUsedBlockIndex` is in use. Every
call exchanges some pieces for others: it cuts one, joins two, or moves one from a
place to another, so the proof of a step names the pieces that go and those that
come, and nothing else changes. The loop of Free (`Scan`, a recursive function over
the records) is an induction over its turns: what a turn (`Absorb`) adds to the
extent in hand is exactly what it takes out of the table. The last step of Free
writes the record it chose outside the lock, and here the two halves part:

- `MemoryTyped` (`TypeOK`), `MemoryNotShared` (`NoOverlap`) and `BoundaryKept`
  (`NeverCrosses`) hold however calls of Free overlap: a record that is written over
  is lost, but nothing is given out twice.
- `HolesAreJoined` (the first part of `Coalesced`) does, too. A turn of the loop moves one
  end of the extent in hand to that of the record it takes in, and that record touched
  nothing else (`ScanClear`, `ClearGoesOn`).
- `MemoryReturns` (`NothingLost`) and `HolesFitTable` (`Coalesced`) are about the time before
  two calls of Free have overlapped. A call of Free is alone then, and the record it chose
  is still the first beyond the used ones (`LInv`). Where a hole ends, a block begins, or a
  region, because every byte is in some place and holes are joined (`HoleEnds`); so there
  are not more holes than blocks and regions (`HolesCounted`), and if the table has more
  records than those (`EnoughRecords`) Free finds one. `RegionsFit` says that the table has a
  record for each region when it is made. Both hypotheses are the table's size: the pool of
  a stream has as many coded frames as the table has records (256 each, and 1024 frames
  without `__TDT__`, `player_generic.h:99-101`), so while all of them are out nothing in the
  allocator keeps the records from running out but the order in which blocks come back. What finds no record is given up with a report
  (`allocator_simple.cpp:364-379`).

The first part of `CodecReferences` proves `MarkerPasses` (`Spec => []MarkerNotForgotten`), for any
buffers, pictures, drains and either value of `Serialized`. `NoneUncounted`: without a failure a
prepared decode was completed, is with the co-processor, or is in the callback before
its count. `SomeoneLooks`: when a held marker may pass, a thread is between the test and
the take. It is kept because the thread that stores the marker stores before it tests,
and the callback counts before it tests (`KeepGetMarkerBuffer`, `KeepReleased`), and a
test that fails is true of what follows until the next count (`KeepTest`). The
premise `failures = 0` is needed: a decode that could not be sent is never counted.
`CountersInOrder` adds that the codec never counts a decode as completed
before it was prepared, and never discards what is not prepared yet.

`MarkerFollowsDecodes` (`MarkerAfterDecodes`) is the other half: the marker does not leave
early, whatever fails and whatever the Lock leaves unordered. Its hypothesis is one drain
(`MaxDrains <= 1`); with a second one it is false (4.2). The invariant `LInv` says that the one
marker is still to come, or is held, or is out (`OneMarker`); that the count at which a
held marker passes covers the callback under way and every decode of an earlier picture, each by
its place among the commands (`Waited`); and that whatever is sent later came after the marker
(`Behind`). At the take the count is reached, so none of those decodes is left (`LateTake`),
and from then on everything is behind the marker (`Followed`). Most steps neither bring a marker nor count
a decode (`Aside`).

The rest of `CodecReferences` proves of the codec's bookkeeping, for any buffers, pictures, reference
lists, drains and failures,

- `CodecReferencesExact` (`ReferencesExact`): the references of a buffer are those of its
  users, no more and no fewer;
- `CodecDecodesSound` (`DecodesReadWhatTheyName`): a decode in flight reads and writes
  buffers that are alive and hold the pictures it names;
- `CodecOutputOnce` (`OutputOnce`): each buffer is given out once;
- `IndicesInBounds` (`InBounds`): nobody looks up `INVALID_INDEX`, and no count falls below
  zero.

The hypothesis of all four is `Serialized`: without it the code goes wrong (4.2), and the
proofs show at which steps. The inductive invariant `RInv` keeps an account of every
buffer. Its references are of two kinds: those of users of the picture in it (`Held`:
the parser, the decodes that name it, the codec until it is complete, the ring and
those behind it), and those from before it has a picture, or of a marker (`Carried`).
A buffer with data has only the first kind, and at least one; a buffer without data is
in nobody's map. So whoever drops the last reference is the last to use the buffer.
Counts are cardinalities of sets of places, and each step shifts, adds or takes one
(`Shifted` and what follows it). Around the accounts, `Control` says that the current
buffer is open unless the thread that closes it is about to clear
`CurrentDecodeBufferIndex`: this is where `Serialized` is used. `NoneAssumption` (of
`CodecBuffers`: no buffer is called `None`) tells an empty entry from a full one.

`CodecTyped` (`TypeOK`) does not need `Serialized`: in every interleaving, whatever fails, the table
and the map of decode indices, the output ring and the codec's counters stay what they
should be: buffers of the pool, pictures that came, and no more decodes completed than
prepared. Its invariant `TInv` adds that an index that is to be mapped is not mapped yet, and that
every decode on its way has a buffer. What an access at `INVALID_INDEX` would do to the memory is
not modelled; a thread that makes one goes no further (`Wild`), and `CodecTyped` says nothing
about whether one does.

`ReorderProofs` is about any number of frames, jumps, drains and calls and any sizes of
the rings and the pool:

- `ReorderTyped` (`TypeOK`), with the types of the elements in the rings (`Typed`). One
  conjunct is an argument: the loop over `CheckForNonDecodedFrame` ends, since it only
  passes indices that a frame was given, and `NextDisplayFrameIndex` is not given to
  anybody yet (`SkipEnds`).
- `TableHasRoom` (`TableLeavesBuffers`), for `MaxDecodesOutOfOrder >= 2`. A full table
  releases its least frame; with room for one only, the frame without an index would
  fill it.
- `NothingBehindMarker` (`MarkerIsLast`). Sequence numbers rise along the decoded ring,
  the codec and the parsed ring, and nothing there is below what the third process has
  seen or keeps in its table (`Ordered`). The number of a marker is not taken from that
  order: a drain chooses it ahead of the counter, and the parser stores it when the
  marker arrives. It is still ahead then (`MarkerAhead`), because what can be numbered
  in between is already in the input or bounded (`Upcoming`): this is what the code adds
  the size of the ring for, and `RingAssumption` says how large it must be.
- `CallsMadeInTurn` (`CallsInTurn`): a call that waits for its sequence number is made only
  when no frame with a lower one is left, for any number of drains; the deferred frame is
  excepted while a marker passes, since it stays behind (4.2). `CallsWaitForFrames` is `CallsNotEarly`,
  the stronger statement that `reorder_calls` checks, under the bound of that run,
  `MaxDrains = 0`.

- `FramesLeaveInOrder` (`LeavesInOrder`), for `MaxDecodesOutOfOrder >= 2`. Why a frame
  that leaves early cannot overtake one on its way is a fact about the parser: of all the
  frames decoded before a given one, at most one is shown after it, since only one
  frame's place is open at a time (`Places`). If `f` left in front of `g`, `f` is that one.
  A full table holds a second frame before `g` that is shown no earlier than `f`: there
  would be two. The frame that moved the expected index past `g` would be a second
  one as well. The first frame behind a gap is shown before all that is decoded after it.
  Only a marker remains, and then `f` and `g` are on its two sides, further apart than
  half a ring size (`Distant`). `Apart` says that a skipped index belongs to no frame
  still on its way, and `InTime` that a frame on its way is late only behind such a
  marker, or when its index is at or below `DisplayIndicesCollapse`. With room for a single
  frame the theorem does not hold: each frame would leave as soon as it comes.

The inductive invariant is `IInv == Typed /\ MarkerAhead /\ Ordered`, and for the order of
display `ShownInOrder`, which adds `Places`, `Distant`, `Apart` and `InTime`. The model takes the
least of sets of numbers (the number under which calls are made, the index that is due);
that it exists comes from well-foundedness (`LeastOf`), and what the sequence operators
leave in place is stated once for each (`LineAppend`, `LineTake` and so on).

`DrainProofs` is about any drainers, frames, pauses and policies, and any sizes of the
pools and the tables:

- `TypeCorrect` (`TypeOK`), without further hypotheses.
- `NumbersInOrder` (`NumbersFollowOrder`): identities and numbers rise together on the
  whole way to the third process.
- `FlagsAreEnded` (`FlagHasMarker`): a flag that discards frames has a marker on its way
  to clear it, or a drain that will insert one.
- `DrainedIsEmpty` (`DrainedMeansEmpty`): a drain that has waited for its end leaves nothing
  behind that was injected before its marker.

The properties are about the order of frames in nine queues at once, so the proof looks at
`Line`: almost every step hands the first frame of a place to the next place or takes frames
out of one. Such a step *advances* the line (`Advances`): it keeps the order and brings in no
number or identity that was not there. That is shown once for each way of advancing, from an
order-preserving map between the two queues (`Thins`). Four steps remain: a frame that is injected, the number given in
the collate to parse process, the insertion of the marker, and the flush.

The inductive invariant `Inv` has thirteen parts besides. The ones that carry the argument:

- `MarkInv`: who has which marker. A marker in the first ring is recognised by
  `MarkerInCodedFrameIndex`, and it is the one of the last drain.
- `CountInv`, `AheadInv`: a drain chooses its number `RingSize` beyond the counter before its
  marker is in the ring, and frames may still be injected and numbered in between. The
  counter does not reach the number first: each frame in the ring has a buffer of the pool, as
  the marker has, and the buffers and the frames that overtake the marker (`overtaking`) are
  fewer than `RingSize`.
- `OrderInv`: numbers and identities rise along the line and stay below the counters.
- `LowInv`: what has left the line has a lower number than all that are on it, and so has the
  number that the last process has seen.
- `BehindInv`: every frame from before a marker has, or will get, a number that does not exceed
  the marker's. With `LowInv`: a call that waits for this number is made when they have all
  passed.
- `FirstInv`, `RoundsInv`, `CompleteInv`: `Drained` is one event for all drains. They say whose
  calls are under way, so that a drain that finds the event set while a marker is in the first ring
  finds the end of that marker.
- `FlagInv` follows each flag to its marker. `EmptyInv`, on top of `Inv`, is the promise of `DrainedIsEmpty`.

The hypotheses are the ones under which the code keeps its promises, and each is where a run
or a configuration of 4.2 shows it fails otherwise. `OneAtATime`: the drains exclude each
other (`Exclusive`), or one thread makes them all; nothing in the player serialises them, its
clients do. `Complete \/ MaxDrains <= 2`: either all drains are waited for to their end (`NonBlocking
= {FALSE}`, no time-outs), any number of them, or there are at most two of any kind; a third drain
can take the end of the first for that of the second (4.2). `DrainedIsEmpty` needs `Complete`:
`drain_overlap` is its counterexample without. `drain_barrier` and `drain_late` are instances of
these hypotheses. `RingSizeAssumption` (`RingSize > CodedFrames + MaxOvertaking`) is about the
1024 numbers between the counter and a marker. The audio and the video streams of the
Tuxbox build have 256 coded frames (`player_generic.h:86`, `:99`), which leaves 767 that may
overtake a marker. `MaxOvertaking` is an
assumption about speed: no lock and no test keeps frames from being injected between the
choice of the number and the insertion (`player_playback.cpp:1043-1054`), but the drain waits
for nothing but the scheduler there. The count starts again with each drain, so it does not
bound how long a stream runs. Without `__TDT__`, and for streams that are neither audio
nor video, there are as many coded frames as numbers (`:101`, `:115`): there the assumption
does not hold and the three theorems that use it say nothing.

Only model-checked, for a reason that will stay: liveness (`GetterServed`,
`DropCompletes`, `ExtractEnds`, `DeleteCompletes`, `DiscardEnds`, `PlayoutEnds`,
`MarkersPass`), since the prover handles neither fairness nor ENABLED in practice.

## 7. What is not modelled, and why

- *Parts of the player*: SwitchStream, the teardown of streams and playbacks, output
  coordination, policies and events, reverse play, audio codecs, manifestors and
  mixer (section 2).
- *Other programs of the repository*: timer daemons, libeplayer3, the slot machine:
  they share nothing with the player core.
- *Of the modelled parts*: buffer metadata and the owner table (diagnosis only: no
  decision reads them), memory totals (reported only), dynamic pools (no client
  in the stream), the clearing and offset arithmetic inside AllocateMemoryBlock,
  physical mappings.
- *Data*: bit stream parsing, register programming, the contents of frames, clock
  recovery and rate integration in the output timer.
- *Third-party and vendor code, user interfaces, build files*: outside the
  project.
