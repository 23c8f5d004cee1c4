-------------------------- MODULE CodecReferences --------------------------
(***************************************************************************)
(* That a marker is never left behind in the codec, and that what the      *)
(* tables name exists, for any buffers and any number of drains and        *)
(* failures, whatever the Lock leaves unordered; and that the codec's      *)
(* bookkeeping of its decode buffers is exact, for any buffers, pictures,  *)
(* references, failures and any number of drains, when what the Lock       *)
(* leaves unordered around the current buffer happens to be ordered        *)
(* (Serialized).                                                           *)
(*                                                                         *)
(* The invariant RInv keeps an account of every buffer. Its references are *)
(* of two kinds: Held, by those who use the picture in it (the parser, the *)
(* decodes that name it, the codec until it is complete, the output ring   *)
(* and those behind it), and Carried, before it has a picture or when it   *)
(* stands for a marker. A buffer with data has no carried references and at*)
(* least one held, one without data has no held ones and is in no one's    *)
(* map: so whoever drops the last reference is the last to use it. Around  *)
(* the accounts RInv says where the threads can be (Control), above all    *)
(* that the current buffer is open unless whoever closes it is about to    *)
(* clear it, and what the map of decode indices holds (Mapped).            *)
(***************************************************************************)
EXTENDS CodecBuffers, FiniteSetTheorems, TLAPS

-----------------------------------------------------------------------------
(* The marker: without a failure a decode that was prepared is completed, with *)
(* the co-processor or in the callback; the thread that stores the marker      *)
(* tests after it has stored, the callback tests after it has counted, so that *)
(* whenever a marker may pass someone is still about to look                   *)

CallbackSteps == {"idle", "discard", "compare", "refs", "test", "take"}

\* A decode that was prepared and not counted: with the co-processor, or in
\* the callback.
Uncounted == Len(commands) + IF pc["MME"] \in {"discard", "compare", "refs"} THEN 1 ELSE 0

Looking == pc["MME"] \in {"test", "take"} \/ pc["PtoD"] \in {"test", "take"}

Counters ==
    /\ Prepared \in Nat /\ Completed \in Nat /\ PassOnMarkerBufferAt \in Nat
    /\ failures \in Nat
    /\ \E S : commands \in Seq(S)

Programs ==
    /\ pc = [t \in Threads |-> pc[t]]
    /\ pc["MME"] \in CallbackSteps

\* The callback never counts what was not prepared.
NoneUncounted ==
    /\ Completed + Uncounted <= Prepared
    /\ failures = 0 => Prepared = Completed + Uncounted

MarkerCounts == MarkerBuffer # None => PassOnMarkerBufferAt <= Prepared

SomeoneLooks == MarkerBuffer # None /\ Completed >= PassOnMarkerBufferAt => Looking

IInv == Counters /\ Programs /\ NoneUncounted /\ MarkerCounts /\ SomeoneLooks

counting == <<Prepared, Completed, PassOnMarkerBufferAt, failures, commands, MarkerBuffer>>

LEMMA ThreeThreads == Threads = {"PtoD", "MME", "drain"}
BY DEF Threads

\* A queue that grows or shrinks by one stays a queue, and its length follows.
LEMMA QueueStep ==
    ASSUME NEW s, \E S : s \in Seq(S), NEW e
    PROVE  /\ Len(s) \in Nat
           /\ \E S : Append(s, e) \in Seq(S)
           /\ Len(Append(s, e)) = Len(s) + 1
           /\ s # <<>> => /\ \E S : Tail(s) \in Seq(S)
                          /\ Len(Tail(s)) = Len(s) - 1
                          /\ Len(s) > 0
           /\ s = <<>> => Len(s) = 0
<1> PICK S : s \in Seq(S)
  OBVIOUS
<1>1. s \in Seq(S \cup {e})
  OBVIOUS
<1>2. Append(s, e) \in Seq(S \cup {e}) /\ Len(Append(s, e)) = Len(s) + 1
  BY <1>1
<1>3. s # <<>> => Tail(s) \in Seq(S) /\ Len(Tail(s)) = Len(s) - 1 /\ Len(s) > 0
  OBVIOUS
<1> QED
  BY <1>2, <1>3

\* A thread that goes on leaves the others where they are.
LEMMA Going ==
    ASSUME Programs, NEW t \in Threads, NEW l, pc' = [pc EXCEPT ![t] = l]
    PROVE  /\ pc' = [u \in Threads |-> pc'[u]]
           /\ pc'[t] = l
           /\ \A u \in Threads \ {t} : pc'[u] = pc[u]
BY DEF Programs

\* A step of a thread that neither counts nor touches the marker: it may go
\* anywhere that leaves the callback at the same side of its count, and does
\* not take a look away from anyone.
LEMMA Quiet ==
    ASSUME IInv, UNCHANGED counting,
           pc' = [t \in Threads |-> pc'[t]],
           \/ pc'["MME"] = pc["MME"]
           \/ /\ pc["MME"] \in {"discard", "compare", "refs"}
              /\ pc'["MME"] \in {"discard", "compare", "refs"},
           pc["PtoD"] \in {"test", "take"} => pc'["PtoD"] \in {"test", "take"}
    PROVE  IInv'
<1>1. Counters' /\ Programs'
  BY DEF IInv, Counters, Programs, CallbackSteps, counting
<1>2. Uncounted' = Uncounted
  BY DEF Uncounted, counting
<1>3. Looking => Looking'
  BY DEF Looking
<1> QED
  BY <1>1, <1>2, <1>3 DEF IInv, NoneUncounted, MarkerCounts, SomeoneLooks, counting

\* A step of the second process or of a drain that starts where nobody looks.
LEMMA QuietStep ==
    ASSUME IInv, UNCHANGED counting, NEW t \in {"PtoD", "drain"}, NEW l,
           pc[t] \notin {"test", "take"}, pc' = [pc EXCEPT ![t] = l]
    PROVE  IInv'
<1>1. Programs
  BY DEF IInv
<1>2. /\ pc' = [u \in Threads |-> pc'[u]]
      /\ \A u \in Threads \ {t} : pc'[u] = pc[u]
  BY <1>1, Going, ThreeThreads
<1>3. pc'["MME"] = pc["MME"]
  BY <1>2, ThreeThreads
<1>4. pc["PtoD"] \in {"test", "take"} => pc'["PtoD"] \in {"test", "take"}
  BY <1>2, ThreeThreads
<1> QED
  BY <1>2, <1>3, <1>4, Quiet

\* A step that moves no thread.
LEMMA QuietStay ==
    ASSUME IInv, UNCHANGED <<counting, pc>>
    PROVE  IInv'
<1>1. pc = [u \in Threads |-> pc[u]]
  BY DEF IInv, Programs
<1> QED
  BY <1>1, Quiet

LEMMA InitInvariant == Init => IInv
<1> SUFFICES ASSUME Init PROVE IInv
  OBVIOUS
<1>1. <<>> \in Seq({})
  OBVIOUS
<1>2. pc["MME"] = "idle" /\ pc = [t \in Threads |-> pc[t]]
  BY DEF Init, Threads
<1>3. Counters /\ Programs
  BY <1>1, <1>2 DEF Init, Counters, Programs, CallbackSteps
<1>4. NoneUncounted
  BY <1>2 DEF Init, NoneUncounted, Uncounted
<1> QED
  BY <1>3, <1>4 DEF Init, IInv, MarkerCounts, SomeoneLooks

-----------------------------------------------------------------------------
(* The second process *)

LEMMA KeepInput ==
    ASSUME IInv, NEW kind, NEW ref, NEW list, Input(kind, ref, list)
    PROVE  IInv'
<1>1. PICK l : pc' = [pc EXCEPT !["PtoD"] = l]
  BY DEF Input
<1>2. pc["PtoD"] = "idle" /\ UNCHANGED counting
  BY DEF Input, counting, mme, marking, bounds
<1> QED
  BY <1>1, <1>2, QuietStep

LEMMA KeepParser ==
    ASSUME IInv,
           \/ \E d \in references : ReleaseReferenceFrame(d)
           \/ ReleaseAllReferenceFrames
    PROVE  IInv'
<1>1. UNCHANGED <<counting, pc>>
  <2>1. CASE \E d \in references : ReleaseReferenceFrame(d)
    BY <2>1 DEF ReleaseReferenceFrame, counting, mme, marking, threads, bounds
  <2>2. CASE ReleaseAllReferenceFrames
    BY <2>2 DEF ReleaseAllReferenceFrames, counting, mme, marking, threads, bounds
  <2> QED
    BY <2>1, <2>2
<1> QED
  BY <1>1, QuietStay

LEMMA KeepPartial ==
    ASSUME IInv, NEW t \in {"PtoD", "drain"}, OutputPartialDecodeBuffers(t)
    PROVE  IInv'
<1>1. pc[t] \in Partial /\ UNCHANGED counting /\ \E l : pc' = [pc EXCEPT ![t] = l]
  <2>1. CASE PartialTest(t)
    BY <2>1 DEF PartialTest, Goto, Partial, counting, mme, marking, bounds
  <2>2. CASE PartialOutput(t)
    BY <2>2 DEF PartialOutput, Wild, Partial, counting, mme, marking, bounds
  <2>3. CASE PartialClear(t)
    BY <2>3 DEF PartialClear, Goto, Partial, counting, mme, marking, bounds
  <2> QED
    BY <2>1, <2>2, <2>3 DEF OutputPartialDecodeBuffers
<1>2. pc[t] \notin {"test", "take"}
  BY <1>1 DEF Partial
<1> QED
  BY <1>1, <1>2, QuietStep

\* Preparing a decode, up to the send.
Preparing ==
    \/ GetDecodeBuffer \/ MapNew \/ MapSecond \/ TranslateReferenceFrameLists \/ Launch \/ Finish

LEMMA KeepPreparing ==
    ASSUME IInv, Preparing \/ CallOutputPartialDecodeBuffers
    PROVE  IInv'
<1>1. /\ pc["PtoD"] \in {"idle", "buffer", "map", "translate", "launch", "finish"}
      /\ UNCHANGED counting /\ \E l : pc' = [pc EXCEPT !["PtoD"] = l]
  <2>1. CASE GetDecodeBuffer
    BY <2>1 DEF GetDecodeBuffer, Goto, counting, mme, marking, bounds
  <2>2. CASE MapNew
    BY <2>2 DEF MapNew, Goto, counting, mme, marking, bounds
  <2>3. CASE MapSecond
    BY <2>3 DEF MapSecond, Goto, counting, mme, marking, bounds
  <2>4. CASE TranslateReferenceFrameLists
    BY <2>4 DEF TranslateReferenceFrameLists, Wild, counting, mme, marking, bounds
  <2>5. CASE Launch
    BY <2>5 DEF Launch, Wild, counting, mme, marking, bounds
  <2>6. CASE Finish
    BY <2>6 DEF Finish, Goto, counting, mme, marking, bounds
  <2>7. CASE CallOutputPartialDecodeBuffers
    BY <2>7 DEF CallOutputPartialDecodeBuffers, Goto, counting, mme, marking, bounds
  <2> QED
    BY <2>1, <2>2, <2>3, <2>4, <2>5, <2>6, <2>7 DEF Preparing
<1>2. pc["PtoD"] \notin {"test", "take"}
  BY <1>1
<1> QED
  BY <1>1, <1>2, QuietStep

\* A failure is remembered: from then on nothing is said of the counts.
LEMMA KeepFailure ==
    ASSUME IInv, FillFails \/ SendFails
    PROVE  IInv'
<1>1. PICK l : pc' = [pc EXCEPT !["PtoD"] = l]
  BY DEF FillFails, SendFails, Goto
<1>2. /\ failures' = failures + 1 /\ Prepared' \in {Prepared, Prepared + 1}
      /\ pc["PtoD"] \in {"launch", "send"}
      /\ UNCHANGED <<Completed, PassOnMarkerBufferAt, commands, MarkerBuffer>>
  BY DEF FillFails, SendFails, Goto, mme, marking
<1>3. /\ pc' = [t \in Threads |-> pc'[t]] /\ pc'["MME"] = pc["MME"]
  BY <1>1, Going, ThreeThreads DEF IInv
<1>4. Counters' /\ Programs'
  BY <1>2, <1>3 DEF IInv, Counters, Programs
<1>5. NoneUncounted'
  <2>1. Uncounted' = Uncounted /\ Uncounted \in Nat
    BY <1>2, <1>3, QueueStep DEF Uncounted, IInv, Counters
  <2>2. failures' # 0 /\ Prepared <= Prepared' /\ Completed' = Completed
    BY <1>2 DEF IInv, Counters
  <2>3. Completed + Uncounted <= Prepared'
    BY <1>2, <2>1, <2>2 DEF IInv, NoneUncounted, Counters
  <2> QED
    BY <2>1, <2>2, <2>3 DEF NoneUncounted
<1>6. MarkerCounts'
  BY <1>2 DEF IInv, MarkerCounts, Counters
<1>7. SomeoneLooks'
  BY <1>2, <1>3 DEF IInv, SomeoneLooks, Looking
<1> QED
  BY <1>4, <1>5, <1>6, <1>7 DEF IInv

LEMMA KeepSend ==
    ASSUME IInv, SendMMEDecodeCommand
    PROVE  IInv'
<1>1. /\ pc["PtoD"] = "send" /\ pc' = [pc EXCEPT !["PtoD"] = "finish"]
      /\ Prepared' = Prepared + 1 /\ commands' = Append(commands, context["PtoD"])
      /\ UNCHANGED <<Completed, PassOnMarkerBufferAt, failures, MarkerBuffer>>
  BY DEF SendMMEDecodeCommand, Goto, marking, bounds
<1>2. /\ pc' = [t \in Threads |-> pc'[t]] /\ pc'["MME"] = pc["MME"]
  BY <1>1, Going, ThreeThreads DEF IInv
<1>3. /\ \E S : commands' \in Seq(S)
      /\ Len(commands') = Len(commands) + 1 /\ Len(commands) \in Nat
  BY <1>1, QueueStep DEF IInv, Counters
<1>4. Counters' /\ Programs'
  BY <1>1, <1>2, <1>3 DEF IInv, Counters, Programs
<1>5. NoneUncounted'
  <2>1. Uncounted' = Uncounted + 1 /\ Uncounted \in Nat
    BY <1>2, <1>3 DEF Uncounted
  <2>2. Prepared' = Prepared + 1 /\ Completed' = Completed /\ failures' = failures
    BY <1>1
  <2> QED
    BY <2>1, <2>2 DEF IInv, NoneUncounted, Counters
<1>6. MarkerCounts'
  BY <1>1 DEF IInv, MarkerCounts, Counters
<1>7. SomeoneLooks'
  BY <1>1, <1>2 DEF IInv, SomeoneLooks, Looking
<1> QED
  BY <1>4, <1>5, <1>6, <1>7 DEF IInv

-----------------------------------------------------------------------------
(* Completion, in the callback or after a failure *)

LEMMA KeepCallback ==
    ASSUME IInv, CallbackFromMME
    PROVE  IInv'
<1>1. PICK l \in {"discard", "refs"} : pc' = [pc EXCEPT !["MME"] = l]
  BY DEF CallbackFromMME, Complete
<1>2. /\ pc["MME"] = "idle" /\ commands # <<>> /\ commands' = Tail(commands)
      /\ UNCHANGED <<Prepared, Completed, PassOnMarkerBufferAt, failures, MarkerBuffer>>
  BY DEF CallbackFromMME, Complete, marking, bounds
<1>3. /\ pc' = [t \in Threads |-> pc'[t]] /\ pc'["MME"] = l /\ pc'["PtoD"] = pc["PtoD"]
  BY <1>1, Going, ThreeThreads DEF IInv
<1>4. /\ \E S : commands' \in Seq(S)
      /\ Len(commands') = Len(commands) - 1 /\ Len(commands) \in Nat
  BY <1>2, QueueStep DEF IInv, Counters
<1>5. Counters' /\ Programs'
  BY <1>2, <1>3, <1>4 DEF IInv, Counters, Programs, CallbackSteps
<1>6. NoneUncounted'
  BY <1>2, <1>3, <1>4 DEF IInv, NoneUncounted, Uncounted, Counters
<1>7. MarkerCounts'
  BY <1>2 DEF IInv, MarkerCounts
<1>8. SomeoneLooks'
  BY <1>2, <1>3 DEF IInv, SomeoneLooks, Looking
<1> QED
  BY <1>5, <1>6, <1>7, <1>8 DEF IInv

LEMMA KeepCompleteFailed ==
    ASSUME IInv, CompleteFailed
    PROVE  IInv'
<1>1. PICK l : pc' = [pc EXCEPT !["PtoD"] = l]
  BY DEF CompleteFailed, Complete
<1>2. pc["PtoD"] = "complete" /\ UNCHANGED counting
  BY DEF CompleteFailed, Complete, counting, marking, bounds
<1> QED
  BY <1>1, <1>2, QuietStep

\* The callback gives the buffer and the references up before it counts.
LEMMA KeepRelease ==
    ASSUME IInv, NEW t \in {"PtoD", "MME"}, Discard(t) \/ Compare(t) \/ ReleaseReference(t)
    PROVE  IInv'
<1>1. CASE ReleaseReference(t)
  <2>1. UNCHANGED <<counting, pc>>
    BY <1>1 DEF ReleaseReference, counting, mme, marking, bounds
  <2> QED
    BY <2>1, QuietStay
<1>2. CASE Discard(t) \/ Compare(t)
  <2>1. PICK l \in {"compare", "refs"} : pc' = [pc EXCEPT ![t] = l]
    BY <1>2 DEF Discard, Compare, Goto
  <2>2. pc[t] \in {"discard", "compare"} /\ UNCHANGED counting
    BY <1>2 DEF Discard, Compare, Goto, counting, mme, marking, bounds
  <2>3. CASE t = "PtoD"
    BY <2>1, <2>2, <2>3, QuietStep
  <2>4. CASE t = "MME"
    <3>1. /\ pc' = [u \in Threads |-> pc'[u]] /\ pc'["MME"] = l /\ pc'["PtoD"] = pc["PtoD"]
      BY <2>1, <2>4, Going, ThreeThreads DEF IInv
    <3> QED
      BY <2>2, <2>4, <3>1, Quiet
  <2> QED
    BY <2>3, <2>4
<1> QED
  BY <1>1, <1>2

LEMMA KeepReleased ==
    ASSUME IInv, NEW t \in {"PtoD", "MME"}, ContextReleased(t)
    PROVE  IInv'
<1>1. CASE t = "PtoD"
  <2>1. PICK l : pc' = [pc EXCEPT !["PtoD"] = l]
    BY <1>1 DEF ContextReleased, Goto
  <2>2. pc["PtoD"] = "refs" /\ UNCHANGED counting
    BY <1>1 DEF ContextReleased, Goto, counting, marking, bounds
  <2> QED
    BY <2>1, <2>2, QuietStep
<1>2. CASE t = "MME"
  <2>1. /\ pc["MME"] = "refs" /\ pc' = [pc EXCEPT !["MME"] = "test"]
        /\ Completed' = Completed + 1
        /\ UNCHANGED <<Prepared, PassOnMarkerBufferAt, failures, commands, MarkerBuffer>>
    BY <1>2 DEF ContextReleased, Goto, marking, bounds
  <2>2. pc' = [u \in Threads |-> pc'[u]] /\ pc'["MME"] = "test"
    BY <2>1, Going, ThreeThreads DEF IInv
  <2>3. Counters' /\ Programs'
    BY <2>1, <2>2 DEF IInv, Counters, Programs, CallbackSteps
  <2>4. NoneUncounted'
    <3>1. Len(commands) \in Nat
      BY QueueStep DEF IInv, Counters
    <3> QED
      BY <2>1, <2>2, <3>1 DEF IInv, NoneUncounted, Uncounted, Counters
  <2>5. MarkerCounts'
    BY <2>1 DEF IInv, MarkerCounts
  <2>6. SomeoneLooks'
    BY <2>2 DEF SomeoneLooks, Looking
  <2> QED
    BY <2>3, <2>4, <2>5, <2>6 DEF IInv
<1> QED
  BY <1>1, <1>2

-----------------------------------------------------------------------------
(* Markers *)

LEMMA KeepMarkerInput ==
    ASSUME IInv, MarkerInput
    PROVE  IInv'
<1>1. /\ pc["PtoD"] = "idle" /\ pc' = [pc EXCEPT !["PtoD"] = "getMarker"]
      /\ MarkerBuffer' = None
      /\ UNCHANGED <<Prepared, Completed, PassOnMarkerBufferAt, failures, commands>>
  BY DEF MarkerInput, Goto, mme, bounds
<1>2. /\ pc' = [u \in Threads |-> pc'[u]] /\ pc'["MME"] = pc["MME"]
  BY <1>1, Going, ThreeThreads DEF IInv
<1> QED
  BY <1>1, <1>2
  DEF IInv, Counters, Programs, NoneUncounted, Uncounted, MarkerCounts, SomeoneLooks

\* The thread that stores the marker is about to test.
LEMMA KeepGetMarkerBuffer ==
    ASSUME IInv, GetMarkerBuffer
    PROVE  IInv'
<1>1. /\ pc' = [pc EXCEPT !["PtoD"] = "test"]
      /\ PassOnMarkerBufferAt' = Prepared
      /\ UNCHANGED <<Prepared, Completed, failures, commands>>
  BY DEF GetMarkerBuffer, Goto, PassOnAt, mme, bounds
<1>2. /\ pc' = [u \in Threads |-> pc'[u]] /\ pc'["MME"] = pc["MME"] /\ pc'["PtoD"] = "test"
  BY <1>1, Going, ThreeThreads DEF IInv
<1>3. Counters' /\ Programs' /\ NoneUncounted'
  BY <1>1, <1>2 DEF IInv, Counters, Programs, NoneUncounted, Uncounted
<1>4. MarkerCounts' /\ SomeoneLooks'
  BY <1>1, <1>2 DEF IInv, Counters, MarkerCounts, SomeoneLooks, Looking
<1> QED
  BY <1>3, <1>4 DEF IInv

\* Who finds that the marker may not pass leaves; what is then true stays so
\* until someone counts.
LEMMA KeepTest ==
    ASSUME IInv, NEW t \in {"PtoD", "MME"}, TestMarkerFramePassOn(t)
    PROVE  IInv'
<1>1. PICK l \in {"take", "idle"} :
         /\ pc' = [pc EXCEPT ![t] = l]
         /\ l = "idle" => ~(MarkerBuffer # None /\ Completed >= PassOnMarkerBufferAt)
  BY DEF TestMarkerFramePassOn, Goto
<1>2. pc[t] = "test" /\ UNCHANGED counting
  BY DEF TestMarkerFramePassOn, Goto, counting, mme, marking, bounds
<1>3. /\ pc' = [u \in Threads |-> pc'[u]] /\ pc'[t] = l
      /\ \A u \in Threads \ {t} : pc'[u] = pc[u]
  BY <1>1, Going, ThreeThreads DEF IInv
<1>4. Programs' /\ Uncounted' = Uncounted
  BY <1>1, <1>2, <1>3, ThreeThreads DEF IInv, Programs, CallbackSteps, Uncounted, counting
<1>5. Counters' /\ NoneUncounted' /\ MarkerCounts'
  BY <1>2, <1>4 DEF IInv, Counters, NoneUncounted, MarkerCounts, counting
<1>6. SomeoneLooks'
  <2>1. CASE l = "idle"
    BY <1>1, <1>2, <2>1 DEF SomeoneLooks, counting
  <2>2. CASE l = "take"
    BY <1>3, <2>2, ThreeThreads DEF SomeoneLooks, Looking
  <2> QED
    BY <2>1, <2>2
<1> QED
  BY <1>4, <1>5, <1>6 DEF IInv

LEMMA KeepTake ==
    ASSUME IInv, NEW t \in {"PtoD", "MME"}, TakeMarkerBuffer(t)
    PROVE  IInv'
<1>1. /\ pc[t] = "take" /\ pc' = [pc EXCEPT ![t] = "idle"]
      /\ MarkerBuffer' = None
      /\ UNCHANGED <<Prepared, Completed, PassOnMarkerBufferAt, failures, commands>>
  BY DEF TakeMarkerBuffer, Goto, mme, bounds
<1>2. /\ pc' = [u \in Threads |-> pc'[u]] /\ pc'[t] = "idle"
      /\ \A u \in Threads \ {t} : pc'[u] = pc[u]
  BY <1>1, Going, ThreeThreads DEF IInv
<1>3. Programs' /\ Uncounted' = Uncounted
  BY <1>1, <1>2, ThreeThreads DEF IInv, Programs, CallbackSteps, Uncounted
<1> QED
  BY <1>1, <1>3 DEF IInv, Counters, NoneUncounted, MarkerCounts, SomeoneLooks

-----------------------------------------------------------------------------
(* The processes behind the codec, and the drain *)

LEMMA KeepDisplay ==
    ASSUME IInv, Display
    PROVE  IInv'
<1>1. UNCHANGED <<counting, pc>>
  <2>1. CASE TakeOutput
    BY <2>1 DEF TakeOutput, counting, mme, marking, threads, bounds
  <2>2. CASE \E b \in Buffers : Replaced(b)
    BY <2>2 DEF Replaced, counting, mme, marking, threads, bounds
  <2> QED
    BY <2>1, <2>2 DEF Display
<1> QED
  BY <1>1, QuietStay

LEMMA KeepDrain ==
    ASSUME IInv, DiscardQueuedDecodes \/ DrainInsert
    PROVE  IInv'
<1>1. PICK l : pc' = [pc EXCEPT !["drain"] = l]
  BY DEF DiscardQueuedDecodes, DrainInsert, Goto
<1>2. pc["drain"] \in {"until", "insert"} /\ UNCHANGED counting
  BY DEF DiscardQueuedDecodes, DrainInsert, Goto, counting, mme, marking, bounds
<1>3. pc["drain"] \notin {"test", "take"}
  BY <1>2
<1> QED
  BY <1>1, <1>2, <1>3, QuietStep

LEMMA KeepDrainStart ==
    ASSUME IInv, NEW discard \in BOOLEAN, DrainStart(discard)
    PROVE  IInv'
<1>1. pc["drain"] = "idle" /\ UNCHANGED counting
  BY DEF DrainStart, counting, mme, marking
<1>2. CASE discard
  BY <1>1, <1>2, QuietStep DEF DrainStart
<1>3. CASE ~discard
  BY <1>1, <1>3, QuietStay DEF DrainStart
<1> QED
  BY <1>2, <1>3

-----------------------------------------------------------------------------
LEMMA NextInvariant == IInv /\ [Next]_vars => IInv'
<1> SUFFICES ASSUME IInv, [Next]_vars PROVE IInv'
  OBVIOUS
<1>1. CASE UNCHANGED vars
  BY <1>1, QuietStay DEF vars, counting, threads, mme, marking, bounds
<1>2. CASE PtoD
  BY <1>2, KeepPartial, KeepPreparing, KeepSend, KeepCompleteFailed, KeepRelease, KeepReleased,
     KeepMarkerInput, KeepGetMarkerBuffer, KeepTest, KeepTake
  DEF PtoD, Preparing, ReleaseDecodeContext, PassOnMarker
<1>3. CASE MME
  BY <1>3, KeepCallback, KeepRelease, KeepReleased, KeepTest, KeepTake
  DEF MME, ReleaseDecodeContext, PassOnMarker
<1>4. CASE Drain
  BY <1>4, KeepDrain, KeepPartial DEF Drain
<1>5. CASE Display
  BY <1>5, KeepDisplay
<1>6. CASE Environment
  BY <1>6, KeepInput, KeepParser, KeepPreparing, KeepFailure, KeepDrainStart DEF Environment
<1> QED
  BY <1>1, <1>2, <1>3, <1>4, <1>5, <1>6 DEF Next

\* Only what was prepared is discarded.
DiscardsPrepared == DiscardDecodesUntil \in Nat /\ DiscardDecodesUntil <= Prepared

LEMMA PreparedGrows ==
    ASSUME [Next]_vars
    PROVE  /\ Prepared' \in {Prepared, Prepared + 1}
           /\ DiscardDecodesUntil' \in {DiscardDecodesUntil, Prepared}
           /\ DiscardDecodesUntil' = DiscardDecodesUntil \/ Prepared' = Prepared
<1>1. CASE UNCHANGED vars
  BY <1>1 DEF vars, mme
<1>2. CASE \E t \in Threads : OutputPartialDecodeBuffers(t)
  BY <1>2 DEF OutputPartialDecodeBuffers, PartialTest, PartialOutput, PartialClear, mme
<1>3. CASE Preparing \/ CallOutputPartialDecodeBuffers
  BY <1>3 DEF Preparing, GetDecodeBuffer, MapNew, MapSecond, TranslateReferenceFrameLists, Launch,
     Finish, CallOutputPartialDecodeBuffers, mme
<1>4. CASE SendMMEDecodeCommand \/ FillFails \/ SendFails
  BY <1>4 DEF SendMMEDecodeCommand, FillFails, SendFails, mme
<1>5. CASE CallbackFromMME \/ CompleteFailed
  BY <1>5 DEF CallbackFromMME, CompleteFailed, Complete
<1>6. CASE \E t \in Threads : ReleaseDecodeContext(t)
  BY <1>6 DEF ReleaseDecodeContext, Discard, Compare, ReleaseReference, ContextReleased, mme
<1>7. CASE MarkerInput \/ GetMarkerBuffer \/ \E t \in Threads : PassOnMarker(t)
  BY <1>7 DEF MarkerInput, GetMarkerBuffer, PassOnMarker, TestMarkerFramePassOn, TakeMarkerBuffer, mme
<1>8. CASE DiscardQueuedDecodes \/ DrainInsert \/ \E discard \in BOOLEAN : DrainStart(discard)
  BY <1>8 DEF DiscardQueuedDecodes, DrainInsert, DrainStart, mme
<1>9. CASE Display
  BY <1>9 DEF Display, TakeOutput, Replaced, mme
<1>10. CASE \E kind \in Kinds, ref \in BOOLEAN, list \in SUBSET references : Input(kind, ref, list)
  BY <1>10 DEF Input, mme
<1>11. CASE ReleaseAllReferenceFrames \/ \E d \in references : ReleaseReferenceFrame(d)
  BY <1>11 DEF ReleaseAllReferenceFrames, ReleaseReferenceFrame, mme
<1> QED
  BY <1>1, <1>2, <1>3, <1>4, <1>5, <1>6, <1>7, <1>8, <1>9, <1>10, <1>11, ThreeThreads
  DEF Next, PtoD, MME, Drain, Environment, Preparing

\* The counters of the codec keep their order, whatever fails: no decode is
\* counted that was not prepared (codec_mme_base.cpp:1654, :1803-1806), and a drain
\* discards none that is still to come (codec_mme_base.cpp:558-563).
THEOREM CountersInOrder == Spec => [](Completed <= Prepared /\ DiscardDecodesUntil <= Prepared)
<1>1. Init => DiscardsPrepared
  BY DEF Init, DiscardsPrepared
<1>2. IInv /\ DiscardsPrepared /\ [Next]_vars => DiscardsPrepared'
  BY PreparedGrows DEF IInv, Counters, DiscardsPrepared
<1>3. IInv /\ DiscardsPrepared => Completed <= Prepared /\ DiscardDecodesUntil <= Prepared
  <2> SUFFICES ASSUME IInv, DiscardsPrepared PROVE Completed <= Prepared
    BY DEF DiscardsPrepared
  <2>1. Uncounted \in Nat
    BY QueueStep DEF Uncounted, IInv, Counters
  <2> QED
    BY <2>1 DEF IInv, NoneUncounted, Counters
<1> QED
  BY <1>1, <1>2, <1>3, InitInvariant, NextInvariant, PTL DEF Spec

\* Without a decode that could not be sent, a marker that the codec holds is
\* always going to be passed on (codec_mme_base.cpp:801-803, :1803-1806,
\* :1962-1972), for any buffers and pictures and in every interleaving of the
\* second process, the callbacks and the drains.
THEOREM MarkerPasses == Spec => []MarkerNotForgotten
<1>1. IInv => MarkerNotForgotten
  <2> SUFFICES ASSUME IInv, MarkerBuffer # None, failures = 0,
                      commands = <<>>, pc["MME"] = "idle"
               PROVE  pc["PtoD"] \in {"test", "take"}
    BY DEF MarkerNotForgotten
  <2>1. Len(commands) = 0
    OBVIOUS
  <2>2. Prepared = Completed
    BY <2>1 DEF IInv, NoneUncounted, Uncounted, Counters
  <2> QED
    BY <2>2 DEF IInv, MarkerCounts, SomeoneLooks, Looking, Counters
<1> QED
  BY <1>1, InitInvariant, NextInvariant, PTL DEF Spec

-----------------------------------------------------------------------------
(* The marker of a single drain follows the decodes in front of it: the count  *)
(* at which it passes covers them all, and what is sent later came after it    *)

Called == {"discard", "compare", "refs"}
IsContext(c) == c = [n |-> c.n, buffer |-> c.buffer, refs |-> c.refs] /\ c.n \in Nat

RingKnown ==
    /\ \E S : OutputRing \in Seq(S)
    /\ \A i \in DOMAIN OutputRing : OutputRing[i].marker => OutputRing[i].n \in Nat
NumbersKnown ==
    /\ {pictures, markers, drains} \subseteq Nat
    /\ MarkerBuffer # None => MarkerBuffer.n \in Nat
PictureKnown ==
    /\ picture = [n |-> picture.n, kind |-> picture.kind, ref |-> picture.ref, list |-> picture.list,
                  buffer |-> picture.buffer, last |-> picture.last, then |-> picture.then]
    /\ picture.n \in Nat /\ picture.then \in {"idle", "buffer"}
ContextsKnown ==
    /\ context = [t \in {"PtoD", "MME"} |-> context[t]]
    /\ IsContext(context["PtoD"]) /\ IsContext(context["MME"])
    /\ pc["PtoD"] \notin Called \cup {"launch", "send", "complete", "wild"} => context["PtoD"] = NoContext
    /\ pc["MME"] \notin Called => context["MME"] = NoContext
CommandsKnown == \A i \in DOMAIN commands : IsContext(commands[i])
Kinded == RingKnown /\ NumbersKnown /\ PictureKnown /\ ContextsKnown /\ CommandsKnown

\* The one marker is still to come, or it is in the ring behind the codec.
Coming    == drains = 0 \/ pc["drain"] # "idle" \/ markers > 0 \/ pc["PtoD"] = "getMarker"
MarkerOut == \E i \in DOMAIN OutputRing : OutputRing[i].marker
OneMarker ==
    /\ drains <= 1
    /\ drains = 0 => markers = 0 /\ pc["drain"] = "idle" /\ pc["PtoD"] # "getMarker"
    /\ pc["drain"] # "idle" => markers = 0 /\ pc["PtoD"] # "getMarker"
    /\ markers <= 1 /\ (markers = 1 => pc["PtoD"] # "getMarker")
    /\ Coming => MarkerBuffer = None /\ ~MarkerOut /\ pc["PtoD"] # "take" /\ pc["MME"] # "take"
    /\ MarkerBuffer # None => ~MarkerOut

\* What is still to be sent came after the picture n.
Behind(n) ==
    /\ n <= pictures
    /\ pc["PtoD"] \in {"buffer", "map", "translate"} => n < picture.n
    /\ pc["PtoD"] \in Partial /\ picture.then = "buffer" => n < picture.n
    /\ pc["PtoD"] \in {"launch", "send"} \/ context["PtoD"] # NoContext => n < context["PtoD"].n

\* The count at which the marker passes covers every decode in front of it.
Waited ==
    MarkerBuffer # None =>
        /\ Behind(MarkerBuffer.n)
        /\ \A i \in DOMAIN commands : commands[i].n <= MarkerBuffer.n =>
               Completed + (IF pc["MME"] \in Called THEN 1 ELSE 0) + i <= PassOnMarkerBufferAt
        /\ context["MME"] # NoContext /\ context["MME"].n <= MarkerBuffer.n =>
               Completed < PassOnMarkerBufferAt
        /\ pc["PtoD"] = "take" \/ pc["MME"] = "take" => PassOnMarkerBufferAt <= Completed

Followed ==
    \A i \in DOMAIN OutputRing : OutputRing[i].marker =>
        /\ Behind(OutputRing[i].n)
        /\ \A j \in DOMAIN commands : OutputRing[i].n < commands[j].n
        /\ context["MME"] # NoContext => OutputRing[i].n < context["MME"].n

LInv == Kinded /\ OneMarker /\ Waited /\ Followed

NoNewMarker ==
    \A i \in DOMAIN OutputRing' : OutputRing'[i].marker =>
        \E j \in DOMAIN OutputRing : OutputRing'[i] = OutputRing[j]

LEMMA RingStep ==
    ASSUME RingKnown, NEW e,
           \/ OutputRing' = OutputRing
           \/ OutputRing' = Append(OutputRing, e) /\ ~e.marker
           \/ OutputRing # <<>> /\ OutputRing' = Tail(OutputRing)
    PROVE  RingKnown' /\ NoNewMarker
<1> PICK S : OutputRing \in Seq(S)
  BY DEF RingKnown
<1>1. CASE OutputRing' = OutputRing
  BY <1>1 DEF RingKnown, NoNewMarker
<1>2. CASE OutputRing' = Append(OutputRing, e) /\ ~e.marker
  <2>1. OutputRing \in Seq(S \cup {e})
    OBVIOUS
  <2>2. OutputRing' \in Seq(S \cup {e})
    BY <1>2, <2>1
  <2>3. \A i \in DOMAIN OutputRing' : OutputRing'[i].marker => i \in DOMAIN OutputRing /\ OutputRing'[i] = OutputRing[i]
    BY <1>2, <2>1
  <2> QED
    BY <2>2, <2>3 DEF RingKnown, NoNewMarker
<1>3. CASE OutputRing # <<>> /\ OutputRing' = Tail(OutputRing)
  <2>1. OutputRing' \in Seq(S)
    BY <1>3
  <2>2. \A i \in DOMAIN OutputRing' : i + 1 \in DOMAIN OutputRing /\ OutputRing'[i] = OutputRing[i + 1]
    BY <1>3
  <2> QED
    BY <2>1, <2>2 DEF RingKnown, NoNewMarker
<1> QED
  BY <1>1, <1>2, <1>3

\* A step that neither brings a marker nor counts a decode.
Aside ==
    /\ UNCHANGED <<commands, Completed, PassOnMarkerBufferAt, MarkerBuffer, drains, markers>>
    /\ pc'["drain"] = "idle" <=> pc["drain"] = "idle"
    /\ pc'["MME"] \in Called <=> pc["MME"] \in Called
    /\ pc'["PtoD"] \in {"take", "getMarker"} => pc'["PtoD"] = pc["PtoD"]
    /\ pc'["MME"] = "take" => pc["MME"] = "take"
    /\ context'["MME"] # NoContext =>
           context["MME"] # NoContext /\ context'["MME"].n = context["MME"].n
    /\ NoNewMarker
    /\ \A n \in Nat : Behind(n) => Behind(n)'

LEMMA AsideStep ==
    ASSUME LInv, Aside, Kinded'
    PROVE  LInv'
<1>1. /\ commands' = commands /\ Completed' = Completed /\ PassOnMarkerBufferAt' = PassOnMarkerBufferAt
      /\ MarkerBuffer' = MarkerBuffer /\ drains' = drains /\ markers' = markers
  BY DEF Aside
<1>2. Coming' => Coming
  BY <1>1 DEF Aside, Coming
<1>3. MarkerOut' => MarkerOut
  BY DEF Aside, NoNewMarker, MarkerOut
<1>4. OneMarker'
  BY <1>1, <1>2, <1>3 DEF LInv, OneMarker, Aside
<1>5. Waited'
  <2> SUFFICES ASSUME MarkerBuffer # None PROVE Waited'
    BY <1>1 DEF Waited
  <2>1. MarkerBuffer.n \in Nat
    BY DEF LInv, Kinded, NumbersKnown
  <2>2. Behind(MarkerBuffer.n)'
    <3>1. \A n \in Nat : Behind(n) => Behind(n)'
      BY DEF Aside
    <3>2. Behind(MarkerBuffer.n)
      BY DEF LInv, Waited
    <3> DEFINE m == MarkerBuffer.n
    <3>3. \A n \in Nat : n = m => Behind(n)'
      BY <3>1, <3>2
    <3> QED
      BY <1>1, <2>1, <3>3 DEF Behind
  <2> QED
    BY <1>1, <2>2 DEF LInv, Waited, Aside
<1>6. Followed'
  <2> SUFFICES ASSUME NEW i \in DOMAIN OutputRing', OutputRing'[i].marker
               PROVE  /\ Behind(OutputRing[i].n)'
                      /\ \A j \in DOMAIN commands' : OutputRing'[i].n < commands'[j].n
                      /\ context'["MME"] # NoContext => OutputRing'[i].n < context'["MME"].n
    BY DEF Followed
  <2>1. PICK k \in DOMAIN OutputRing : OutputRing'[i] = OutputRing[k]
    BY DEF Aside, NoNewMarker
  <2>2. PICK m \in Nat : m = OutputRing[k].n
    BY <2>1 DEF LInv, Kinded, RingKnown
  <2>3. Behind(m) /\ \A j \in DOMAIN commands : m < commands[j].n
    BY <2>1, <2>2 DEF LInv, Followed
  <2>4. context["MME"] # NoContext => m < context["MME"].n
    BY <2>1, <2>2 DEF LInv, Followed
  <2>5. Behind(m)'
    BY <2>3 DEF Aside
  <2>6. Behind(OutputRing[i].n)'
    BY <2>1, <2>2, <2>5 DEF Behind
  <2> QED
    BY <1>1, <2>1, <2>2, <2>3, <2>4, <2>6 DEF Aside
<1> QED
  BY <1>4, <1>5, <1>6 DEF LInv

\* A thread goes on, and of the rest only what is named changes.
LEMMA Goes ==
    ASSUME IInv, NEW t \in Threads, NEW l, pc' = [pc EXCEPT ![t] = l]
    PROVE  pc'[t] = l /\ \A u \in Threads \ {t} : pc'[u] = pc[u]
BY Going DEF IInv

accounts == <<commands, Completed, PassOnMarkerBufferAt, MarkerBuffer, drains, markers>>

LEMMA AsidePartial ==
    ASSUME IInv, LInv, NEW t \in {"PtoD", "drain"}, OutputPartialDecodeBuffers(t)
    PROVE  Kinded' /\ Aside
<1>1. /\ UNCHANGED accounts /\ pictures' = pictures /\ picture' = picture /\ context' = context
      /\ pc[t] \in Partial
      /\ \E l \in Partial \cup {"wild", Then(t)} : pc' = [pc EXCEPT ![t] = l]
      /\ OutputRing' = OutputRing \/ OutputRing' = Append(OutputRing, Entry(Current, 0, FALSE))
  <2>1. CASE PartialTest(t)
    BY <2>1 DEF PartialTest, Goto, Partial, accounts, mme, marking, bounds, stream, output
  <2>2. CASE PartialOutput(t)
    BY <2>2 DEF PartialOutput, Wild, Partial, accounts, mme, marking, bounds, stream
  <2>3. CASE PartialClear(t)
    BY <2>3 DEF PartialClear, Goto, Partial, accounts, mme, marking, bounds, stream, output
  <2> QED
    BY <2>1, <2>2, <2>3 DEF OutputPartialDecodeBuffers
<1>2. PICK l \in Partial \cup {"wild", Then(t)} : pc' = [pc EXCEPT ![t] = l]
  BY <1>1
<1>3. pc'[t] = l /\ \A u \in Threads \ {t} : pc'[u] = pc[u]
  BY <1>2, Goes, ThreeThreads
<1>4. RingKnown' /\ NoNewMarker
  BY <1>1, RingStep DEF Entry, LInv, Kinded
<1>5. NumbersKnown' /\ PictureKnown' /\ CommandsKnown'
  BY <1>1 DEF accounts, LInv, Kinded, NumbersKnown, PictureKnown, CommandsKnown
<1>6. pc[t] \notin Called \cup {"launch", "send", "complete", "wild"}
  BY <1>1 DEF Partial, Called
<1>7. ContextsKnown'
  BY <1>1, <1>3, <1>6, ThreeThreads DEF LInv, Kinded, ContextsKnown, IsContext
<1>8. Then("PtoD") \in {"idle", "buffer"} /\ (Then("PtoD") = "buffer" => picture.then = "buffer")
  BY DEF Then, LInv, Kinded, PictureKnown
<1>9. ASSUME NEW n \in Nat, Behind(n) PROVE Behind(n)'
  <2>1. CASE t = "PtoD"
    BY <1>1, <1>3, <1>8, <1>9, <2>1 DEF Behind, Partial
  <2>2. CASE t = "drain"
    BY <1>1, <1>3, <1>9, <2>2, ThreeThreads DEF Behind
  <2> QED
    BY <2>1, <2>2
<1>10. pc'["drain"] = "idle" <=> pc["drain"] = "idle"
  BY <1>1, <1>3, ThreeThreads DEF Then, Partial
<1>11. pc'["PtoD"] \in {"take", "getMarker"} => pc'["PtoD"] = pc["PtoD"]
  BY <1>1, <1>3, <1>8, ThreeThreads DEF Partial
<1>12. pc'["MME"] = pc["MME"]
  BY <1>3, ThreeThreads
<1> QED
  BY <1>1, <1>4, <1>5, <1>7, <1>9, <1>10, <1>11, <1>12 DEF Kinded, Aside, accounts

\* The steps of the second process up to the send, and those of the parser.
LEMMA AsidePtoD ==
    ASSUME IInv, LInv, NEW l, pc' = [pc EXCEPT !["PtoD"] = l], l \notin {"take", "getMarker"},
           UNCHANGED accounts, RingKnown', NoNewMarker, PictureKnown', pictures' \in Nat,
           ContextsKnown', context'["MME"] = context["MME"],
           \A n \in Nat : Behind(n) => Behind(n)'
    PROVE  LInv'
<1>1. pc'["PtoD"] = l /\ pc'["MME"] = pc["MME"] /\ pc'["drain"] = pc["drain"]
  BY Goes, ThreeThreads
<1>2. NumbersKnown' /\ CommandsKnown'
  BY DEF accounts, LInv, Kinded, NumbersKnown, CommandsKnown
<1>3. Kinded' /\ Aside
  BY <1>1, <1>2 DEF Kinded, Aside, accounts
<1> QED
  BY <1>3, AsideStep

LEMMA PictureMade ==
    ASSUME NEW n \in Nat, NEW k, NEW r, NEW s, NEW b, NEW x, NEW h \in {"idle", "buffer"},
           picture' = [n |-> n, kind |-> k, ref |-> r, list |-> s, buffer |-> b, last |-> x, then |-> h]
    PROVE  PictureKnown' /\ picture'.n = n
BY DEF PictureKnown

LEMMA LateInput ==
    ASSUME IInv, LInv, NEW kind \in Kinds, NEW ref \in BOOLEAN, NEW list \in SUBSET references,
           Input(kind, ref, list)
    PROVE  LInv'
<1>1. /\ pc["PtoD"] = "idle" /\ pictures' = pictures + 1 /\ pictures \in Nat
      /\ picture' = [NoPicture EXCEPT !.n = pictures', !.kind = kind, !.ref = ref, !.list = list,
                                      !.then = IF discarding THEN "idle" ELSE "buffer"]
      /\ pc' = [pc EXCEPT !["PtoD"] = IF kind # "second" THEN "partial" ELSE picture'.then]
      /\ context' = context /\ OutputRing' = OutputRing /\ UNCHANGED accounts
  BY DEF Input, accounts, mme, marking, bounds, output, LInv, Kinded, NumbersKnown
<1>2. PictureKnown' /\ picture'.n = pictures + 1
  <2>1. picture' = [n |-> pictures + 1, kind |-> kind, ref |-> ref, list |-> list, buffer |-> None,
                    last |-> FALSE, then |-> IF discarding THEN "idle" ELSE "buffer"]
    BY <1>1 DEF NoPicture
  <2>2. PICK m, h : m = pictures + 1 /\ h = (IF discarding THEN "idle" ELSE "buffer")
    OBVIOUS
  <2>3. m \in Nat /\ h \in {"idle", "buffer"}
    BY <1>1, <2>2
  <2>4. picture' = [n |-> m, kind |-> kind, ref |-> ref, list |-> list, buffer |-> None,
                    last |-> FALSE, then |-> h]
    BY <2>1, <2>2
  <2> QED
    BY <2>2, <2>3, <2>4, PictureMade
<1>3. PICK l \in {"partial", "idle", "buffer"} : pc' = [pc EXCEPT !["PtoD"] = l]
  BY <1>1, <1>2 DEF PictureKnown
<1>4. pc'["PtoD"] = l /\ pc'["MME"] = pc["MME"]
  BY <1>3, Goes, ThreeThreads
<1>5. RingKnown' /\ NoNewMarker
  BY <1>1, RingStep DEF LInv, Kinded
<1>6. context["PtoD"] = NoContext
  BY <1>1 DEF LInv, Kinded, ContextsKnown, Called
<1>7. ContextsKnown'
  BY <1>1, <1>4, <1>6 DEF LInv, Kinded, ContextsKnown, IsContext
<1>8. \A n \in Nat : Behind(n) => Behind(n)'
  BY <1>1, <1>2, <1>6 DEF Behind
<1>9. pictures' \in Nat /\ context'["MME"] = context["MME"]
  BY <1>1
<1> QED
  BY <1>1, <1>2, <1>3, <1>5, <1>7, <1>8, <1>9, AsidePtoD

\* Nothing is done to a decode, to a marker or to a thread.
LEMMA LateStay ==
    ASSUME LInv, UNCHANGED <<accounts, pc, context, picture, pictures>>, RingKnown', NoNewMarker
    PROVE  LInv'
<1>1. Kinded'
  BY DEF accounts, LInv, Kinded, NumbersKnown, PictureKnown, ContextsKnown, CommandsKnown, IsContext
<1>2. Aside
  BY DEF Aside, accounts, Behind
<1> QED
  BY <1>1, <1>2, AsideStep

LEMMA LateParser ==
    ASSUME LInv, \/ \E d \in references : ReleaseReferenceFrame(d)
                 \/ ReleaseAllReferenceFrames
    PROVE  LInv'
<1>1. UNCHANGED <<accounts, pc, context, picture, pictures, OutputRing>>
  <2>1. CASE \E d \in references : ReleaseReferenceFrame(d)
    BY <2>1 DEF ReleaseReferenceFrame, accounts, mme, marking, threads, bounds, output
  <2>2. CASE ReleaseAllReferenceFrames
    BY <2>2 DEF ReleaseAllReferenceFrames, accounts, mme, marking, threads, bounds, output
  <2> QED
    BY <2>1, <2>2
<1>2. RingKnown' /\ NoNewMarker
  BY <1>1, RingStep DEF LInv, Kinded
<1> QED
  BY <1>1, <1>2, LateStay

LEMMA LateDisplay ==
    ASSUME LInv, Display
    PROVE  LInv'
<1>1. /\ UNCHANGED <<accounts, pc, context, picture, pictures>>
      /\ OutputRing' = OutputRing \/ (OutputRing # <<>> /\ OutputRing' = Tail(OutputRing))
  BY DEF Display, TakeOutput, Replaced, accounts, mme, marking, threads, bounds, stream
<1>2. RingKnown' /\ NoNewMarker
  BY <1>1, RingStep DEF LInv, Kinded
<1> QED
  BY <1>1, <1>2, LateStay

\* Up to the context, nothing but the picture is known of a decode.
LEMMA LateOpening ==
    ASSUME IInv, LInv, GetDecodeBuffer \/ MapNew \/ MapSecond \/ CallOutputPartialDecodeBuffers
    PROVE  LInv'
<1>1. /\ pc["PtoD"] \in {"idle", "buffer", "map"}
      /\ UNCHANGED <<accounts, pictures, context, OutputRing>>
      /\ \/ /\ picture'.n = picture.n /\ PictureKnown' /\ pc["PtoD"] # "idle"
            /\ \E l \in {"map", "translate"} : pc' = [pc EXCEPT !["PtoD"] = l]
         \/ picture' = NoPicture /\ pc' = [pc EXCEPT !["PtoD"] = "partial"] /\ pc["PtoD"] = "idle"
  <2> USE DEF accounts, mme, marking, bounds, output, stream, Goto
  <2>1. CASE GetDecodeBuffer
    <3>1. PICK b \in Buffers : picture' = [picture EXCEPT !.buffer = b]
      BY <2>1 DEF GetDecodeBuffer
    <3>2. PictureKnown' /\ picture'.n = picture.n
      BY <3>1 DEF LInv, Kinded, PictureKnown
    <3> QED
      BY <2>1, <3>2 DEF GetDecodeBuffer
  <2>2. CASE MapNew
    BY <2>2 DEF MapNew, LInv, Kinded, PictureKnown
  <2>3. CASE MapSecond
    BY <2>3 DEF MapSecond, LInv, Kinded, PictureKnown
  <2>4. CASE CallOutputPartialDecodeBuffers
    BY <2>4 DEF CallOutputPartialDecodeBuffers
  <2> QED
    BY <2>1, <2>2, <2>3, <2>4
<1>2. PictureKnown'
  BY <1>1 DEF PictureKnown, NoPicture
<1>3. PICK l \in {"map", "translate", "partial"} :
          /\ pc' = [pc EXCEPT !["PtoD"] = l]
          /\ \/ l = "partial" /\ picture' = NoPicture
             \/ l # "partial" /\ picture'.n = picture.n /\ pc["PtoD"] \in {"buffer", "map"}
  BY <1>1
<1>4. pc'["PtoD"] = l /\ pc'["MME"] = pc["MME"]
  BY <1>3, Goes, ThreeThreads
<1>5. RingKnown' /\ NoNewMarker
  BY <1>1, RingStep DEF LInv, Kinded
<1>6. context["PtoD"] = NoContext
  BY <1>1 DEF LInv, Kinded, ContextsKnown, Called
<1>7. ContextsKnown'
  BY <1>1, <1>4, <1>6 DEF LInv, Kinded, ContextsKnown, IsContext
<1>8. pictures' \in Nat
  BY <1>1 DEF LInv, Kinded, NumbersKnown
<1>9. \A n \in Nat : Behind(n) => Behind(n)'
  BY <1>1, <1>3, <1>4, <1>6 DEF Behind, NoPicture, Partial
<1> QED
  BY <1>1, <1>2, <1>3, <1>5, <1>7, <1>8, <1>9, AsidePtoD

LEMMA LateTranslate ==
    ASSUME IInv, LInv, TranslateReferenceFrameLists
    PROVE  LInv'
<1>1. /\ pc["PtoD"] = "translate" /\ UNCHANGED <<accounts, pictures, picture, OutputRing>>
      /\ \/ pc' = [pc EXCEPT !["PtoD"] = "wild"] /\ context' = context
         \/ /\ pc' = [pc EXCEPT !["PtoD"] = "launch"]
            /\ \E b, r : context' = [context EXCEPT !["PtoD"] = [n |-> picture.n, buffer |-> b, refs |-> r]]
  BY DEF TranslateReferenceFrameLists, Wild, accounts, mme, marking, bounds, output, stream
<1>2. PICK l \in {"wild", "launch"} :
          /\ pc' = [pc EXCEPT !["PtoD"] = l]
          /\ \/ l = "wild" /\ context' = context
             \/ /\ l = "launch"
                /\ \E b, r : context' = [context EXCEPT !["PtoD"] = [n |-> picture.n, buffer |-> b, refs |-> r]]
  BY <1>1
<1>3. pc'["PtoD"] = l /\ pc'["MME"] = pc["MME"]
  BY <1>2, Goes, ThreeThreads
<1>4. RingKnown' /\ NoNewMarker
  BY <1>1, RingStep DEF LInv, Kinded
<1>5. PictureKnown' /\ pictures' \in Nat /\ picture.n \in Nat
  BY <1>1 DEF LInv, Kinded, PictureKnown, NumbersKnown
<1>6. context["PtoD"] = NoContext /\ ContextsKnown
  BY <1>1 DEF LInv, Kinded, ContextsKnown, Called
<1>7. /\ context'["MME"] = context["MME"] /\ context' = [t \in {"PtoD", "MME"} |-> context'[t]]
      /\ IsContext(context'["PtoD"])
      /\ IF l = "launch" THEN context'["PtoD"].n = picture.n ELSE context'["PtoD"] = NoContext
  <2>1. CASE l = "wild" /\ context' = context
    BY <1>6, <2>1 DEF ContextsKnown
  <2>2. ASSUME NEW b, NEW r, context' = [context EXCEPT !["PtoD"] = [n |-> picture.n, buffer |-> b, refs |-> r]]
        PROVE  /\ context'["MME"] = context["MME"] /\ context' = [t \in {"PtoD", "MME"} |-> context'[t]]
               /\ IsContext(context'["PtoD"]) /\ context'["PtoD"].n = picture.n
    <3>1. /\ context'["MME"] = context["MME"] /\ context' = [t \in {"PtoD", "MME"} |-> context'[t]]
          /\ context'["PtoD"] = [n |-> picture.n, buffer |-> b, refs |-> r]
      BY <1>6, <2>2 DEF ContextsKnown
    <3> QED
      BY <1>5, <3>1 DEF IsContext
  <2> QED
    BY <1>2, <1>6, <2>1, <2>2
<1>8. ContextsKnown'
  BY <1>3, <1>6, <1>7 DEF ContextsKnown, Called, IsContext
<1>9. \A n \in Nat : Behind(n) => Behind(n)'
  BY <1>1, <1>3, <1>7 DEF Behind, Partial
<1> QED
  BY <1>1, <1>2, <1>4, <1>5, <1>7, <1>8, <1>9, AsidePtoD

\* With the context at hand the picture does not matter any more.
LEMMA LateLaunch ==
    ASSUME IInv, LInv, Launch \/ FillFails \/ SendFails \/ Finish
    PROVE  LInv'
<1>1. /\ pc["PtoD"] \in {"launch", "send", "finish"} /\ UNCHANGED <<accounts, pictures, context, OutputRing>>
      /\ PictureKnown'
      /\ \E l \in {"send", "wild", "refs", "complete", "idle"} :
            /\ pc' = [pc EXCEPT !["PtoD"] = l]
            /\ (l = "idle" => pc["PtoD"] = "finish") /\ (l = "send" => pc["PtoD"] = "launch")
  <2> USE DEF accounts, mme, marking, bounds, output, stream, Goto, LInv, Kinded, PictureKnown
  <2>1. CASE Launch
    <3>1. picture' = picture \/ \E b : picture' = [picture EXCEPT !.last = b]
      BY <2>1 DEF Launch
    <3>2. PictureKnown'
      BY <3>1
    <3>3. pc' = [pc EXCEPT !["PtoD"] = "send"] \/ pc' = [pc EXCEPT !["PtoD"] = "wild"]
      BY <2>1 DEF Launch, Wild
    <3>4. pc["PtoD"] = "launch" /\ UNCHANGED <<accounts, pictures, context, OutputRing>>
      BY <2>1 DEF Launch
    <3> QED
      BY <3>2, <3>3, <3>4
  <2>2. CASE FillFails
    BY <2>2 DEF FillFails
  <2>3. CASE SendFails
    BY <2>3 DEF SendFails
  <2>4. CASE Finish
    BY <2>4 DEF Finish, NoPicture
  <2> QED
    BY <2>1, <2>2, <2>3, <2>4
<1>2. PICK l \in {"send", "wild", "refs", "complete", "idle"} :
          /\ pc' = [pc EXCEPT !["PtoD"] = l]
          /\ (l = "idle" => pc["PtoD"] = "finish") /\ (l = "send" => pc["PtoD"] = "launch")
  BY <1>1
<1>3. pc'["PtoD"] = l /\ pc'["MME"] = pc["MME"]
  BY <1>2, Goes, ThreeThreads
<1>4. RingKnown' /\ NoNewMarker
  BY <1>1, RingStep DEF LInv, Kinded
<1>5. pictures' \in Nat
  BY <1>1 DEF LInv, Kinded, NumbersKnown
<1>6. ContextsKnown'
  BY <1>1, <1>2, <1>3 DEF LInv, Kinded, ContextsKnown, Called, IsContext
<1>7. \A n \in Nat : Behind(n) => Behind(n)'
  BY <1>1, <1>2, <1>3 DEF Behind, Partial
<1> QED
  BY <1>1, <1>2, <1>4, <1>5, <1>6, <1>7, AsidePtoD

LEMMA LateCompleteFailed ==
    ASSUME IInv, LInv, CompleteFailed
    PROVE  LInv'
<1> DEFINE c == context["PtoD"]
<1>1. /\ pc["PtoD"] = "complete" /\ UNCHANGED <<accounts, pictures, picture>>
      /\ context' = [context EXCEPT !["PtoD"] = c]
      /\ \E l \in {"discard", "refs"} : pc' = [pc EXCEPT !["PtoD"] = l]
      /\ OutputRing' = OutputRing \/ OutputRing' = Append(OutputRing, Entry(c.buffer, c.n, FALSE))
  BY DEF CompleteFailed, Complete, accounts, marking, bounds, stream
<1>2. PICK l \in {"discard", "refs"} : pc' = [pc EXCEPT !["PtoD"] = l]
  BY <1>1
<1>3. pc'["PtoD"] = l /\ pc'["MME"] = pc["MME"]
  BY <1>2, Goes, ThreeThreads
<1>4. RingKnown' /\ NoNewMarker
  BY <1>1, RingStep DEF LInv, Kinded, Entry
<1>5. pictures' \in Nat /\ PictureKnown'
  BY <1>1 DEF LInv, Kinded, NumbersKnown, PictureKnown
<1>6. context' = context /\ ContextsKnown
  BY <1>1 DEF LInv, Kinded, ContextsKnown
<1>7. ContextsKnown'
  BY <1>3, <1>6 DEF ContextsKnown, Called, IsContext
<1>8. \A n \in Nat : Behind(n) => Behind(n)'
  BY <1>1, <1>3, <1>6 DEF Behind, Partial
<1> QED
  BY <1>1, <1>2, <1>4, <1>5, <1>6, <1>7, <1>8, AsidePtoD

\* A context that is released keeps its number.
LEMMA ContextShrinks ==
    ASSUME ContextsKnown, NEW t \in {"PtoD", "MME"}, NEW r,
           context' = [context EXCEPT ![t].refs = r]
    PROVE  /\ context' = [u \in {"PtoD", "MME"} |-> context'[u]]
           /\ IsContext(context'[t]) /\ context'[t].n = context[t].n
           /\ \A u \in {"PtoD", "MME"} \ {t} : context'[u] = context[u]
<1>1. context[t] = [n |-> context[t].n, buffer |-> context[t].buffer, refs |-> context[t].refs]
  BY DEF ContextsKnown, IsContext
<1>2. context[t].n \in Nat
  BY DEF ContextsKnown, IsContext
<1>3. /\ context' = [u \in {"PtoD", "MME"} |-> context'[u]]
      /\ context'[t] = [context[t] EXCEPT !.refs = r]
      /\ \A u \in {"PtoD", "MME"} \ {t} : context'[u] = context[u]
  BY DEF ContextsKnown
<1>4. context'[t] = [n |-> context[t].n, buffer |-> context[t].buffer, refs |-> r]
  BY <1>1, <1>3
<1> QED
  BY <1>2, <1>3, <1>4 DEF IsContext

LEMMA LateRelease ==
    ASSUME IInv, LInv, NEW t \in {"PtoD", "MME"}, Discard(t) \/ Compare(t) \/ ReleaseReference(t)
    PROVE  LInv'
<1>1. /\ pc[t] \in Called /\ UNCHANGED <<accounts, pictures, picture, OutputRing>>
      /\ \E l \in Called : pc' = [pc EXCEPT ![t] = l] \/ (pc' = pc /\ pc[t] = l)
      /\ context' = context \/ (\E r : context' = [context EXCEPT ![t].refs = r] /\ context[t].refs # <<>>)
  BY DEF Discard, Compare, ReleaseReference, Goto, Called, accounts, mme, marking, bounds, output, stream
<1>2. PICK l \in Called : pc' = [pc EXCEPT ![t] = l] \/ (pc' = pc /\ pc[t] = l)
  BY <1>1
<1>3. t \in Threads
  BY ThreeThreads
<1>4. pc'[t] = l /\ \A u \in Threads \ {t} : pc'[u] = pc[u]
  <2>1. CASE pc' = [pc EXCEPT ![t] = l]
    BY <1>3, <2>1, Goes
  <2>2. CASE pc' = pc /\ pc[t] = l
    BY <2>2
  <2> QED
    BY <1>2, <2>1, <2>2
<1>5. RingKnown' /\ NoNewMarker
  BY <1>1, RingStep DEF LInv, Kinded
<1>6. NumbersKnown' /\ PictureKnown' /\ CommandsKnown'
  BY <1>1 DEF accounts, LInv, Kinded, NumbersKnown, PictureKnown, CommandsKnown
<1>7. ContextsKnown
  BY DEF LInv, Kinded
<1>8. /\ context' = [u \in {"PtoD", "MME"} |-> context'[u]]
      /\ IsContext(context'[t]) /\ context'[t].n = context[t].n
      /\ \A u \in {"PtoD", "MME"} \ {t} : context'[u] = context[u]
      /\ context'[t] # NoContext => context[t] # NoContext
  <2>1. CASE context' = context
    BY <1>7, <2>1 DEF ContextsKnown, IsContext
  <2>2. CASE \E r : context' = [context EXCEPT ![t].refs = r] /\ context[t].refs # <<>>
    <3>1. context[t] # NoContext
      BY <2>2 DEF NoContext
    <3> QED
      BY <1>7, <2>2, <3>1, ContextShrinks
  <2> QED
    BY <1>1, <2>1, <2>2
<1>9. ContextsKnown'
  BY <1>1, <1>4, <1>7, <1>8, ThreeThreads DEF ContextsKnown, IsContext, Called
<1>10. \A n \in Nat : Behind(n) => Behind(n)'
  <2>1. /\ \/ pc'["PtoD"] = pc["PtoD"] /\ context'["PtoD"] = context["PtoD"]
           \/ pc'["PtoD"] \in Called
        /\ pictures' = pictures /\ picture' = picture
        /\ context'["PtoD"] # NoContext =>
              context["PtoD"] # NoContext /\ context'["PtoD"].n = context["PtoD"].n
    BY <1>1, <1>4, <1>8, ThreeThreads
  <2> QED
    BY <2>1 DEF Behind, Called, Partial
<1>11. /\ pc'["drain"] = pc["drain"] /\ (pc'["MME"] \in Called <=> pc["MME"] \in Called)
       /\ pc'["PtoD"] \in {"take", "getMarker"} => pc'["PtoD"] = pc["PtoD"]
       /\ pc'["MME"] = "take" => pc["MME"] = "take"
  BY <1>1, <1>4, ThreeThreads DEF Called
<1>12. context'["MME"] # NoContext =>
          context["MME"] # NoContext /\ context'["MME"].n = context["MME"].n
  BY <1>8
<1>13. Kinded'
  BY <1>5, <1>6, <1>9 DEF Kinded
<1>14. Aside
  BY <1>1, <1>5, <1>10, <1>11, <1>12 DEF Aside, accounts
<1> QED
  BY <1>13, <1>14, AsideStep

LEMMA LateReleasedPtoD ==
    ASSUME IInv, LInv, ContextReleased("PtoD")
    PROVE  LInv'
<1>1. /\ pc["PtoD"] = "refs" /\ UNCHANGED <<accounts, pictures, OutputRing>>
      /\ context' = [context EXCEPT !["PtoD"] = NoContext] /\ picture' = NoPicture
      /\ \E l \in {"partial", "idle"} : pc' = [pc EXCEPT !["PtoD"] = l]
  BY DEF ContextReleased, Goto, accounts, marking, bounds, output, stream
<1>2. PICK l \in {"partial", "idle"} : pc' = [pc EXCEPT !["PtoD"] = l]
  BY <1>1
<1>3. pc'["PtoD"] = l /\ pc'["MME"] = pc["MME"]
  BY <1>2, Goes, ThreeThreads
<1>4. RingKnown' /\ NoNewMarker
  BY <1>1, RingStep DEF LInv, Kinded
<1>5. pictures' \in Nat /\ PictureKnown'
  BY <1>1 DEF LInv, Kinded, NumbersKnown, PictureKnown, NoPicture
<1>6. context'["PtoD"] = NoContext /\ context'["MME"] = context["MME"]
      /\ context' = [t \in {"PtoD", "MME"} |-> context'[t]]
  BY <1>1 DEF LInv, Kinded, ContextsKnown
<1>7. ContextsKnown'
  BY <1>3, <1>6 DEF LInv, Kinded, ContextsKnown, IsContext, NoContext
<1>8. \A n \in Nat : Behind(n) => Behind(n)'
  BY <1>1, <1>3, <1>6 DEF Behind, NoPicture
<1> QED
  BY <1>1, <1>2, <1>4, <1>5, <1>6, <1>7, <1>8, AsidePtoD

\* The callback has counted its decode: the count is met by one decode more.
LEMMA LateReleasedMME ==
    ASSUME IInv, LInv, ContextReleased("MME")
    PROVE  LInv'
<1>1. /\ pc["MME"] = "refs" /\ pc' = [pc EXCEPT !["MME"] = "test"]
      /\ UNCHANGED <<commands, PassOnMarkerBufferAt, MarkerBuffer, drains, markers>>
      /\ UNCHANGED <<pictures, picture, OutputRing>>
      /\ context' = [context EXCEPT !["MME"] = NoContext] /\ Completed' = Completed + 1
  BY DEF ContextReleased, Goto, marking, bounds, output, stream
<1>2. pc'["MME"] = "test" /\ pc'["PtoD"] = pc["PtoD"] /\ pc'["drain"] = pc["drain"]
  BY <1>1, Goes, ThreeThreads
<1>3. context'["MME"] = NoContext /\ context'["PtoD"] = context["PtoD"]
      /\ context' = [t \in {"PtoD", "MME"} |-> context'[t]]
  BY <1>1 DEF LInv, Kinded, ContextsKnown
<1>4. ContextsKnown'
  BY <1>2, <1>3 DEF LInv, Kinded, ContextsKnown, IsContext, NoContext
<1>5. Kinded'
  BY <1>1, <1>4 DEF LInv, Kinded, RingKnown, NumbersKnown, PictureKnown, CommandsKnown
<1>6. OneMarker'
  BY <1>1, <1>2 DEF LInv, OneMarker, Coming, MarkerOut
<1>7. Waited'
  <2> SUFFICES ASSUME MarkerBuffer # None PROVE Waited'
    BY <1>1 DEF Waited
  <2>1. Behind(MarkerBuffer.n)'
    BY <1>1, <1>2, <1>3 DEF LInv, Waited, Behind
  <2>2. Completed \in Nat /\ PassOnMarkerBufferAt \in Nat
    BY DEF IInv, Counters
  <2>3. \A i \in DOMAIN commands : commands[i].n <= MarkerBuffer.n =>
             Completed + 1 + i <= PassOnMarkerBufferAt
    BY <1>1 DEF LInv, Waited, Called
  <2>4. PICK S : commands \in Seq(S)
    BY DEF IInv, Counters
  <2>5. \A i \in DOMAIN commands : i \in Nat
    BY <2>4
  <2>6. \A i \in DOMAIN commands' : commands'[i].n <= MarkerBuffer'.n =>
             Completed' + (IF pc'["MME"] \in Called THEN 1 ELSE 0) + i <= PassOnMarkerBufferAt'
    BY <1>1, <1>2, <2>2, <2>3, <2>5 DEF Called
  <2>7. pc'["PtoD"] = "take" \/ pc'["MME"] = "take" => PassOnMarkerBufferAt' <= Completed'
    BY <1>1, <1>2, <2>2 DEF LInv, Waited
  <2> QED
    BY <1>1, <1>3, <2>1, <2>6, <2>7 DEF Waited
<1>8. Followed'
  BY <1>1, <1>2, <1>3 DEF LInv, Followed, Behind
<1> QED
  BY <1>5, <1>6, <1>7, <1>8 DEF LInv

\* A decode that is sent came after the marker: it is not one of those counted.
LEMMA LateSend ==
    ASSUME IInv, LInv, SendMMEDecodeCommand
    PROVE  LInv'
<1> DEFINE c == context["PtoD"]
<1>1. /\ pc["PtoD"] = "send" /\ pc' = [pc EXCEPT !["PtoD"] = "finish"]
      /\ UNCHANGED <<Completed, PassOnMarkerBufferAt, MarkerBuffer, drains, markers>>
      /\ UNCHANGED <<pictures, picture, OutputRing>>
      /\ context' = [context EXCEPT !["PtoD"] = NoContext] /\ commands' = Append(commands, c)
  BY DEF SendMMEDecodeCommand, Goto, marking, bounds, output, stream
<1>2. pc'["PtoD"] = "finish" /\ pc'["MME"] = pc["MME"] /\ pc'["drain"] = pc["drain"]
  BY <1>1, Goes, ThreeThreads
<1>3. context'["PtoD"] = NoContext /\ context'["MME"] = context["MME"]
      /\ context' = [t \in {"PtoD", "MME"} |-> context'[t]]
  BY <1>1 DEF LInv, Kinded, ContextsKnown
<1>4. ContextsKnown' /\ IsContext(c)
  BY <1>2, <1>3 DEF LInv, Kinded, ContextsKnown, IsContext, NoContext
<1>5. PICK S : commands \in Seq(S)
  BY DEF IInv, Counters
<1>6. \A i \in DOMAIN commands' : \/ i \in DOMAIN commands /\ commands'[i] = commands[i]
                                  \/ commands'[i] = c
  <2>1. commands \in Seq(S \cup {c})
    BY <1>5
  <2> QED
    BY <1>1, <2>1
<1>7. Kinded'
  BY <1>1, <1>4, <1>6 DEF LInv, Kinded, RingKnown, NumbersKnown, PictureKnown, CommandsKnown
<1>8. OneMarker'
  BY <1>1, <1>2 DEF LInv, OneMarker, Coming, MarkerOut
<1>9. ASSUME NEW n \in Nat, Behind(n) PROVE Behind(n)' /\ n < c.n
  BY <1>1, <1>2, <1>3, <1>9 DEF Behind, Partial
<1>10. Waited'
  <2> SUFFICES ASSUME MarkerBuffer # None PROVE Waited'
    BY <1>1 DEF Waited
  <2>1. PICK m \in Nat : m = MarkerBuffer.n
    BY DEF LInv, Kinded, NumbersKnown
  <2>2. Behind(m)
    BY <2>1 DEF LInv, Waited
  <2>3. Behind(m)' /\ m < c.n
    BY <1>9, <2>2
  <2>4. Behind(MarkerBuffer.n)'
    BY <1>1, <2>1, <2>3 DEF Behind
  <2>5. c.n \in Nat
    BY <1>4 DEF IsContext
  <2>6. \A i \in DOMAIN commands' : commands'[i].n <= m => i \in DOMAIN commands /\ commands'[i] = commands[i]
    BY <1>6, <2>3, <2>5
  <2> QED
    BY <1>1, <1>2, <1>3, <2>1, <2>4, <2>6 DEF LInv, Waited
<1>11. Followed'
  <2> SUFFICES ASSUME NEW i \in DOMAIN OutputRing, OutputRing[i].marker
               PROVE  /\ Behind(OutputRing[i].n)'
                      /\ \A j \in DOMAIN commands' : OutputRing[i].n < commands'[j].n
                      /\ context'["MME"] # NoContext => OutputRing[i].n < context'["MME"].n
    BY <1>1 DEF Followed
  <2>1. PICK m \in Nat : m = OutputRing[i].n
    BY DEF LInv, Kinded, RingKnown
  <2>2. Behind(m) /\ (\A j \in DOMAIN commands : m < commands[j].n)
        /\ (context["MME"] # NoContext => m < context["MME"].n)
    BY <2>1 DEF LInv, Followed
  <2>3. Behind(m)' /\ m < c.n
    BY <1>9, <2>2
  <2>4. Behind(OutputRing[i].n)'
    BY <1>1, <2>1, <2>3 DEF Behind
  <2> QED
    BY <1>3, <1>6, <2>1, <2>2, <2>3, <2>4
<1> QED
  BY <1>7, <1>8, <1>10, <1>11 DEF LInv

\* A callback takes the first of the decodes: the others move up.
LEMMA LateCallback ==
    ASSUME IInv, LInv, CallbackFromMME
    PROVE  LInv'
<1> DEFINE c == Head(commands)
<1>1. /\ pc["MME"] = "idle" /\ commands # <<>> /\ commands' = Tail(commands)
      /\ UNCHANGED <<Completed, PassOnMarkerBufferAt, MarkerBuffer, drains, markers>>
      /\ UNCHANGED <<pictures, picture>>
      /\ context' = [context EXCEPT !["MME"] = c]
      /\ \E l \in {"discard", "refs"} : pc' = [pc EXCEPT !["MME"] = l]
      /\ OutputRing' = OutputRing \/ OutputRing' = Append(OutputRing, Entry(c.buffer, c.n, FALSE))
  BY DEF CallbackFromMME, Complete, marking, bounds, stream
<1>2. PICK l \in {"discard", "refs"} : pc' = [pc EXCEPT !["MME"] = l]
  BY <1>1
<1>3. pc'["MME"] = l /\ pc'["PtoD"] = pc["PtoD"] /\ pc'["drain"] = pc["drain"]
  BY <1>2, Goes, ThreeThreads
<1>4. PICK S : commands \in Seq(S)
  BY DEF IInv, Counters
<1>5. /\ 1 \in DOMAIN commands /\ c = commands[1] /\ \A i \in DOMAIN commands : i \in Nat
      /\ \A i \in DOMAIN commands' : i + 1 \in DOMAIN commands /\ commands'[i] = commands[i + 1]
      /\ \A i \in DOMAIN commands' : i \in Nat
  BY <1>1, <1>4
<1>6. context'["MME"] = c /\ context'["PtoD"] = context["PtoD"]
      /\ context' = [t \in {"PtoD", "MME"} |-> context'[t]]
  BY <1>1 DEF LInv, Kinded, ContextsKnown
<1>7. IsContext(c)
  BY <1>5 DEF LInv, Kinded, CommandsKnown
<1> HIDE DEF c
<1>8. ContextsKnown'
  BY <1>3, <1>6, <1>7 DEF LInv, Kinded, ContextsKnown, IsContext, Called
<1>9. RingKnown' /\ NoNewMarker
  BY <1>1, RingStep DEF LInv, Kinded, Entry
<1>10. Kinded'
  BY <1>1, <1>5, <1>8, <1>9 DEF LInv, Kinded, NumbersKnown, PictureKnown, CommandsKnown
<1>11. MarkerOut' => MarkerOut
  BY <1>9 DEF NoNewMarker, MarkerOut
<1>12. OneMarker'
  BY <1>1, <1>3, <1>11 DEF LInv, OneMarker, Coming
<1>13. \A n \in Nat : Behind(n) => Behind(n)'
  BY <1>1, <1>3, <1>6 DEF Behind
<1>14. Waited'
  <2> SUFFICES ASSUME MarkerBuffer # None PROVE Waited'
    BY <1>1 DEF Waited
  <2>1. PICK m \in Nat : m = MarkerBuffer.n
    BY DEF LInv, Kinded, NumbersKnown
  <2>2. Behind(m)
    BY <2>1 DEF LInv, Waited
  <2>3. Behind(m)'
    BY <1>13, <2>2
  <2>4. Behind(MarkerBuffer.n)'
    BY <1>1, <2>1, <2>3 DEF Behind
  <2>5. Completed \in Nat /\ PassOnMarkerBufferAt \in Nat
    BY DEF IInv, Counters
  <2>6. \A i \in DOMAIN commands : commands[i].n <= m => Completed + i <= PassOnMarkerBufferAt
    BY <1>1, <1>5, <2>1, <2>5 DEF LInv, Waited, Called
  <2>7. \A i \in DOMAIN commands' : commands'[i].n <= m => Completed + 1 + i <= PassOnMarkerBufferAt
    BY <1>5, <2>5, <2>6
  <2>8. c.n <= m => Completed < PassOnMarkerBufferAt
    BY <1>5, <2>5, <2>6
  <2>9. pc'["PtoD"] = "take" \/ pc'["MME"] = "take" => PassOnMarkerBufferAt' <= Completed'
    BY <1>1, <1>3 DEF LInv, Waited
  <2> QED
    BY <1>1, <1>3, <1>6, <2>1, <2>4, <2>7, <2>8, <2>9 DEF Waited, Called
<1>15. Followed'
  <2> SUFFICES ASSUME NEW i \in DOMAIN OutputRing', OutputRing'[i].marker
               PROVE  /\ Behind(OutputRing[i].n)'
                      /\ \A j \in DOMAIN commands' : OutputRing'[i].n < commands'[j].n
                      /\ context'["MME"] # NoContext => OutputRing'[i].n < context'["MME"].n
    BY DEF Followed
  <2>1. PICK k \in DOMAIN OutputRing : OutputRing'[i] = OutputRing[k]
    BY <1>9 DEF NoNewMarker
  <2>2. PICK m \in Nat : m = OutputRing[k].n
    BY <2>1 DEF LInv, Kinded, RingKnown
  <2>3. Behind(m) /\ \A j \in DOMAIN commands : m < commands[j].n
    BY <2>1, <2>2 DEF LInv, Followed
  <2>4. Behind(m)'
    BY <1>13, <2>3
  <2>5. Behind(OutputRing[i].n)'
    BY <2>1, <2>2, <2>4 DEF Behind
  <2> QED
    BY <1>5, <1>6, <2>1, <2>2, <2>3, <2>5
<1> QED
  BY <1>10, <1>12, <1>14, <1>15 DEF LInv

\* The marker comes out of the first ring, is stored, is tested, and is taken.
LEMMA LateMarkerInput ==
    ASSUME IInv, LInv, MarkerInput
    PROVE  LInv'
<1>1. /\ pc["PtoD"] = "idle" /\ pc' = [pc EXCEPT !["PtoD"] = "getMarker"]
      /\ markers > 0 /\ markers' = markers - 1 /\ MarkerBuffer' = None
      /\ UNCHANGED <<commands, Completed, PassOnMarkerBufferAt, drains, pictures, picture, context, OutputRing>>
  BY DEF MarkerInput, Goto, mme, bounds, output
<1>2. pc'["PtoD"] = "getMarker" /\ pc'["MME"] = pc["MME"] /\ pc'["drain"] = pc["drain"]
  BY <1>1, Goes, ThreeThreads
<1>3. {markers, drains, pictures} \subseteq Nat
  BY DEF LInv, Kinded, NumbersKnown
<1>4. markers = 1 /\ markers' = 0 /\ drains = 1 /\ Coming
  BY <1>1, <1>3 DEF LInv, OneMarker, Coming
<1>5. ContextsKnown'
  BY <1>1, <1>2 DEF LInv, Kinded, ContextsKnown, IsContext, Called
<1>6. Kinded'
  BY <1>1, <1>3, <1>4, <1>5 DEF LInv, Kinded, RingKnown, NumbersKnown, PictureKnown, CommandsKnown
<1>7. OneMarker'
  BY <1>1, <1>2, <1>4 DEF LInv, OneMarker, Coming, MarkerOut
<1>8. Waited' /\ Followed'
  BY <1>1, <1>4 DEF LInv, OneMarker, MarkerOut, Waited, Followed
<1> QED
  BY <1>6, <1>7, <1>8 DEF LInv

LEMMA LateGetMarkerBuffer ==
    ASSUME IInv, LInv, GetMarkerBuffer
    PROVE  LInv'
<1>1. /\ pc["PtoD"] = "getMarker" /\ pc' = [pc EXCEPT !["PtoD"] = "test"]
      /\ UNCHANGED <<commands, Completed, Prepared, drains, markers, pictures, picture, context, OutputRing>>
      /\ PassOnMarkerBufferAt' = Prepared
      /\ \E b : MarkerBuffer' = Entry(b, pictures, TRUE)
  BY DEF GetMarkerBuffer, PassOnAt, Goto, mme, bounds, output, stream
<1>2. pc'["PtoD"] = "test" /\ pc'["MME"] = pc["MME"] /\ pc'["drain"] = pc["drain"]
  BY <1>1, Goes, ThreeThreads
<1>3. MarkerBuffer'.n = pictures
  BY <1>1 DEF Entry
<1>4. /\ Coming /\ ~MarkerOut /\ drains # 0 /\ pc["drain"] = "idle" /\ markers \in Nat
      /\ markers <= 1 /\ markers # 1 /\ pc["MME"] # "take"
  BY <1>1 DEF LInv, OneMarker, Coming, Kinded, NumbersKnown
<1>5. context["PtoD"] = NoContext
  BY <1>1 DEF LInv, Kinded, ContextsKnown, Called
<1>6. ContextsKnown'
  BY <1>1, <1>2, <1>5 DEF LInv, Kinded, ContextsKnown, IsContext
<1>7. Kinded'
  BY <1>1, <1>3, <1>6 DEF LInv, Kinded, RingKnown, NumbersKnown, PictureKnown, CommandsKnown
<1>8. OneMarker'
  <2>1. markers = 0 /\ drains <= 1
    BY <1>4 DEF LInv, OneMarker
  <2>2. ~Coming'
    BY <1>1, <1>2, <1>4, <2>1 DEF Coming
  <2>3. ~MarkerOut'
    BY <1>1, <1>4 DEF MarkerOut
  <2> QED
    BY <1>1, <1>2, <1>4, <2>1, <2>2, <2>3 DEF OneMarker
<1>9. Waited'
  <2>1. PICK S : commands \in Seq(S)
    BY DEF IInv, Counters
  <2>2. \A i \in DOMAIN commands : i \in Nat /\ i <= Len(commands)
    BY <2>1
  <2>3. Len(commands) \in Nat /\ Completed \in Nat /\ Prepared \in Nat
    BY <2>1 DEF IInv, Counters
  <2>4. Completed + Len(commands) + (IF pc["MME"] \in Called THEN 1 ELSE 0) <= Prepared
    BY <2>3 DEF IInv, NoneUncounted, Uncounted, Called
  <2>5. \A i \in DOMAIN commands' :
            Completed' + (IF pc'["MME"] \in Called THEN 1 ELSE 0) + i <= PassOnMarkerBufferAt'
    BY <1>1, <1>2, <2>2, <2>3, <2>4
  <2>6. context["MME"] # NoContext => Completed < Prepared
    BY <2>3, <2>4 DEF LInv, Kinded, ContextsKnown
  <2>7. Behind(MarkerBuffer.n)'
    <3>1. pictures \in Nat /\ pictures' = pictures /\ context'["PtoD"] = NoContext
      BY <1>1, <1>5 DEF LInv, Kinded, NumbersKnown
    <3>2. PICK m \in Nat : m = pictures
      BY <3>1
    <3>3. m <= pictures'
      BY <3>1, <3>2
    <3>4. Behind(m)'
      BY <1>2, <3>1, <3>3 DEF Behind, Partial
    <3> QED
      BY <1>3, <3>2, <3>4 DEF Behind
  <2>8. pc'["PtoD"] # "take" /\ pc'["MME"] # "take"
    BY <1>2, <1>4
  <2> QED
    BY <1>1, <2>5, <2>6, <2>7, <2>8 DEF Waited
<1>10. Followed'
  BY <1>1, <1>4 DEF MarkerOut, Followed
<1> QED
  BY <1>7, <1>8, <1>9, <1>10 DEF LInv

LEMMA LateTest ==
    ASSUME IInv, LInv, NEW t \in {"PtoD", "MME"}, TestMarkerFramePassOn(t)
    PROVE  LInv'
<1>1. /\ pc[t] = "test"
      /\ pc' = [pc EXCEPT ![t] = IF MarkerBuffer # None /\ Completed >= PassOnMarkerBufferAt
                                 THEN "take" ELSE "idle"]
      /\ UNCHANGED <<accounts, pictures, picture, context, OutputRing>>
  BY DEF TestMarkerFramePassOn, Goto, accounts, mme, marking, bounds, output, stream
<1>2. /\ pc'[t] = IF MarkerBuffer # None /\ Completed >= PassOnMarkerBufferAt THEN "take" ELSE "idle"
      /\ \A u \in Threads \ {t} : pc'[u] = pc[u]
  BY <1>1, Goes, ThreeThreads
<1>3. ContextsKnown'
  BY <1>1, <1>2, ThreeThreads DEF LInv, Kinded, ContextsKnown, IsContext, Called
<1>4. Kinded'
  BY <1>1, <1>3 DEF accounts, LInv, Kinded, RingKnown, NumbersKnown, PictureKnown, CommandsKnown
<1>5. pc'["drain"] = pc["drain"] /\ (pc'["PtoD"] = "getMarker" => pc["PtoD"] = "getMarker")
      /\ (pc'["PtoD"] = pc["PtoD"] \/ pc'["PtoD"] \in {"take", "idle"})
      /\ (pc'["MME"] \in Called <=> pc["MME"] \in Called)
      /\ \A u \in {"PtoD", "MME"} : pc'[u] = "take" =>
             pc[u] = "take" \/ (MarkerBuffer # None /\ Completed >= PassOnMarkerBufferAt)
  BY <1>1, <1>2, ThreeThreads DEF Called
<1>6. Coming' => Coming
  BY <1>1, <1>5 DEF Coming, accounts
<1>7. OneMarker'
  BY <1>1, <1>5, <1>6 DEF LInv, OneMarker, MarkerOut, accounts
<1>8. \A n \in Nat : Behind(n) => Behind(n)'
  BY <1>1, <1>5 DEF Behind, Partial
<1>9. Waited'
  <2> SUFFICES ASSUME MarkerBuffer # None PROVE Waited'
    BY <1>1 DEF Waited, accounts
  <2>1. PICK m \in Nat : m = MarkerBuffer.n
    BY DEF LInv, Kinded, NumbersKnown
  <2>2. Behind(m)'
    BY <1>8, <2>1 DEF LInv, Waited
  <2>3. Behind(MarkerBuffer.n)'
    BY <1>1, <2>1, <2>2 DEF Behind, accounts
  <2>4. pc'["PtoD"] = "take" \/ pc'["MME"] = "take" => PassOnMarkerBufferAt' <= Completed'
    BY <1>1, <1>5 DEF LInv, Waited, accounts, IInv, Counters
  <2> QED
    BY <1>1, <1>5, <2>3, <2>4 DEF LInv, Waited, accounts
<1>10. Followed'
  <2> SUFFICES ASSUME NEW i \in DOMAIN OutputRing, OutputRing[i].marker
               PROVE  /\ Behind(OutputRing[i].n)'
                      /\ \A j \in DOMAIN commands' : OutputRing[i].n < commands'[j].n
                      /\ context'["MME"] # NoContext => OutputRing[i].n < context'["MME"].n
    BY <1>1 DEF Followed
  <2>1. PICK m \in Nat : m = OutputRing[i].n
    BY DEF LInv, Kinded, RingKnown
  <2>2. Behind(m)'
    BY <1>8, <2>1 DEF LInv, Followed
  <2>3. Behind(OutputRing[i].n)'
    BY <1>1, <2>1, <2>2 DEF Behind
  <2> QED
    BY <1>1, <2>3 DEF LInv, Followed, accounts
<1> QED
  BY <1>4, <1>7, <1>9, <1>10 DEF LInv

\* Every decode in front of the marker has been counted when it is taken.
LEMMA LateTake ==
    ASSUME IInv, LInv, NEW t \in {"PtoD", "MME"}, TakeMarkerBuffer(t)
    PROVE  LInv'
<1>1. /\ pc[t] = "take" /\ pc' = [pc EXCEPT ![t] = "idle"] /\ MarkerBuffer' = None
      /\ OutputRing' = IF MarkerBuffer = None THEN OutputRing ELSE Append(OutputRing, MarkerBuffer)
      /\ UNCHANGED <<commands, Completed, PassOnMarkerBufferAt, drains, markers, pictures, picture, context>>
  BY DEF TakeMarkerBuffer, Goto, mme, bounds, stream
<1>2. pc'[t] = "idle" /\ \A u \in Threads \ {t} : pc'[u] = pc[u]
  BY <1>1, Goes, ThreeThreads
<1>3. ContextsKnown'
  BY <1>1, <1>2, ThreeThreads DEF LInv, Kinded, ContextsKnown, IsContext, Called
<1>4. pc'["drain"] = pc["drain"] /\ (pc'["PtoD"] = pc["PtoD"] \/ pc'["PtoD"] = "idle")
      /\ (pc'["MME"] = pc["MME"] \/ pc'["MME"] = "idle")
  BY <1>1, <1>2, ThreeThreads
<1>5. \A n \in Nat : Behind(n) => Behind(n)'
  BY <1>1, <1>4 DEF Behind, Partial
<1>6. ~Coming /\ ~Coming'
  <2>1. ~Coming
    BY <1>1 DEF LInv, OneMarker
  <2> QED
    BY <1>1, <1>4, <2>1 DEF Coming
<1>7. PICK S : OutputRing \in Seq(S)
  BY DEF LInv, Kinded, RingKnown
<1>8. \A i \in DOMAIN OutputRing' : \/ i \in DOMAIN OutputRing /\ OutputRing'[i] = OutputRing[i]
                                    \/ MarkerBuffer # None /\ OutputRing'[i] = MarkerBuffer
  <2>1. OutputRing \in Seq(S \cup {MarkerBuffer})
    BY <1>7
  <2> QED
    BY <1>1, <2>1
<1>9. RingKnown'
  <2>1. OutputRing \in Seq(S \cup {MarkerBuffer})
    BY <1>7
  <2>2. OutputRing' \in Seq(S \cup {MarkerBuffer})
    BY <1>1, <2>1
  <2> QED
    BY <1>8, <2>2 DEF LInv, Kinded, RingKnown, NumbersKnown
<1>10. Kinded'
  BY <1>1, <1>3, <1>9 DEF LInv, Kinded, NumbersKnown, PictureKnown, CommandsKnown
<1>11. OneMarker'
  BY <1>1, <1>4, <1>6 DEF LInv, OneMarker, Coming
<1>12. Waited'
  BY <1>1 DEF Waited
<1>13. Followed'
  <2> SUFFICES ASSUME NEW i \in DOMAIN OutputRing', OutputRing'[i].marker
               PROVE  /\ Behind(OutputRing[i].n)'
                      /\ \A j \in DOMAIN commands' : OutputRing'[i].n < commands'[j].n
                      /\ context'["MME"] # NoContext => OutputRing'[i].n < context'["MME"].n
    BY DEF Followed
  <2>1. PICK m \in Nat : m = OutputRing'[i].n
    BY <1>9 DEF RingKnown
  <2>2. /\ Behind(m) /\ \A j \in DOMAIN commands : m < commands[j].n
        /\ context["MME"] # NoContext => m < context["MME"].n
    <3>1. CASE i \in DOMAIN OutputRing /\ OutputRing'[i] = OutputRing[i]
      BY <2>1, <3>1 DEF LInv, Followed
    <3>2. CASE MarkerBuffer # None /\ OutputRing'[i] = MarkerBuffer
      <4>1. PassOnMarkerBufferAt <= Completed /\ m = MarkerBuffer.n /\ Behind(m)
        BY <1>1, <2>1, <3>2 DEF LInv, Waited
      <4>2. Completed \in Nat /\ PassOnMarkerBufferAt \in Nat
        BY DEF IInv, Counters
      <4>3. PICK T : commands \in Seq(T)
        BY DEF IInv, Counters
      <4>4. \A j \in DOMAIN commands : j \in Nat /\ j > 0 /\ commands[j].n \in Nat
        BY <4>3 DEF LInv, Kinded, CommandsKnown, IsContext
      <4>5. \A j \in DOMAIN commands : ~(commands[j].n <= m)
        BY <3>2, <4>1, <4>2, <4>4 DEF LInv, Waited
      <4>6. context["MME"] # NoContext => ~(context["MME"].n <= m)
        BY <3>2, <4>1, <4>2 DEF LInv, Waited
      <4>7. context["MME"].n \in Nat
        BY DEF LInv, Kinded, ContextsKnown, IsContext
      <4> QED
        BY <4>1, <4>4, <4>5, <4>6, <4>7
    <3> QED
      BY <1>8, <3>1, <3>2
  <2>3. Behind(m)'
    BY <1>5, <2>2
  <2>4. Behind(OutputRing[i].n)'
    BY <2>1, <2>3 DEF Behind
  <2> QED
    BY <1>1, <2>1, <2>2, <2>4
<1> QED
  BY <1>10, <1>11, <1>12, <1>13 DEF LInv

\* The only drain: its marker is put in, or comes after the decodes to discard.
LEMMA LateDrainStart ==
    ASSUME MaxDrains <= 1, IInv, LInv, NEW discard \in BOOLEAN, DrainStart(discard)
    PROVE  LInv'
<1>1. /\ pc["drain"] = "idle" /\ drains < MaxDrains /\ drains' = drains + 1
      /\ UNCHANGED <<commands, Completed, PassOnMarkerBufferAt, MarkerBuffer>>
      /\ UNCHANGED <<pictures, picture, context, OutputRing>>
      /\ \/ pc' = [pc EXCEPT !["drain"] = "until"] /\ markers' = markers
         \/ pc' = pc /\ markers' = markers + 1
  BY DEF DrainStart, mme, marking, output
<1>2. drains = 0 /\ drains' = 1 /\ markers = 0
  <2>1. drains \in Nat /\ MaxDrains \in Nat
    BY BoundsAssumption DEF LInv, Kinded, NumbersKnown
  <2>2. drains = 0
    BY <1>1, <2>1
  <2> QED
    BY <1>1, <2>2 DEF LInv, OneMarker
<1>3. pc'["PtoD"] = pc["PtoD"] /\ pc'["MME"] = pc["MME"]
      /\ \/ pc'["drain"] = "until" /\ markers' = 0
         \/ pc'["drain"] = "idle" /\ markers' = 1
  <2>1. CASE pc' = [pc EXCEPT !["drain"] = "until"] /\ markers' = markers
    BY <1>2, <2>1, Goes, ThreeThreads
  <2>2. CASE pc' = pc /\ markers' = markers + 1
    BY <1>1, <1>2, <2>2
  <2> QED
    BY <1>1, <2>1, <2>2
<1>4. ContextsKnown'
  BY <1>1, <1>3 DEF LInv, Kinded, ContextsKnown, IsContext
<1>5. Kinded'
  BY <1>1, <1>2, <1>3, <1>4 DEF LInv, Kinded, RingKnown, NumbersKnown, PictureKnown, CommandsKnown
<1>6. Coming
  BY <1>2 DEF Coming
<1>7. OneMarker'
  BY <1>1, <1>2, <1>3, <1>6 DEF LInv, OneMarker, Coming, MarkerOut
<1>8. Waited' /\ Followed'
  BY <1>1, <1>6 DEF LInv, OneMarker, MarkerOut, Waited, Followed
<1> QED
  BY <1>5, <1>7, <1>8 DEF LInv

LEMMA LateDrain ==
    ASSUME IInv, LInv, DiscardQueuedDecodes \/ DrainInsert
    PROVE  LInv'
<1>1. /\ pc["drain"] # "idle"
      /\ UNCHANGED <<commands, Completed, PassOnMarkerBufferAt, MarkerBuffer, drains>>
      /\ UNCHANGED <<pictures, picture, context, OutputRing>>
      /\ \/ pc' = [pc EXCEPT !["drain"] = "partial"] /\ markers' = markers
         \/ pc' = [pc EXCEPT !["drain"] = "idle"] /\ markers' = markers + 1
  BY DEF DiscardQueuedDecodes, DrainInsert, Goto, mme, marking, output, stream, bounds
<1>2. Coming /\ markers = 0 /\ drains # 0 /\ pc["PtoD"] # "getMarker"
  BY <1>1 DEF LInv, OneMarker, Coming
<1>3. pc'["PtoD"] = pc["PtoD"] /\ pc'["MME"] = pc["MME"]
      /\ \/ pc'["drain"] = "partial" /\ markers' = 0
         \/ pc'["drain"] = "idle" /\ markers' = 1
  BY <1>1, <1>2, Goes, ThreeThreads
<1>4. ContextsKnown'
  BY <1>1, <1>3 DEF LInv, Kinded, ContextsKnown, IsContext
<1>5. Kinded'
  BY <1>1, <1>3, <1>4 DEF LInv, Kinded, RingKnown, NumbersKnown, PictureKnown, CommandsKnown
<1>6. OneMarker'
  BY <1>1, <1>2, <1>3 DEF LInv, OneMarker, Coming, MarkerOut
<1>7. Waited' /\ Followed'
  BY <1>1, <1>2 DEF LInv, OneMarker, MarkerOut, Waited, Followed
<1> QED
  BY <1>5, <1>6, <1>7 DEF LInv

LEMMA LateInit == Init => LInv
<1> SUFFICES ASSUME Init PROVE LInv
  OBVIOUS
<1>1. <<>> \in Seq({})
  OBVIOUS
<1>2. pc["PtoD"] = "idle" /\ pc["MME"] = "idle" /\ pc["drain"] = "idle"
  BY ThreeThreads DEF Init
<1>3. context["PtoD"] = NoContext /\ context["MME"] = NoContext
      /\ context = [t \in {"PtoD", "MME"} |-> context[t]]
  BY DEF Init
<1>4. RingKnown /\ CommandsKnown
  BY <1>1 DEF Init, RingKnown, CommandsKnown
<1>5. NumbersKnown /\ PictureKnown
  BY DEF Init, NumbersKnown, PictureKnown, NoPicture
<1>6. ContextsKnown
  BY <1>3 DEF ContextsKnown, IsContext, NoContext
<1>7. OneMarker
  BY <1>2 DEF Init, OneMarker, MarkerOut
<1>8. Waited /\ Followed
  BY DEF Init, Waited, Followed
<1> QED
  BY <1>4, <1>5, <1>6, <1>7, <1>8 DEF LInv, Kinded

LEMMA LateNext == MaxDrains <= 1 /\ IInv /\ LInv /\ [Next]_vars => LInv'
<1> SUFFICES ASSUME MaxDrains <= 1, IInv, LInv, [Next]_vars PROVE LInv'
  OBVIOUS
<1>1. ASSUME NEW t \in {"PtoD", "drain"}, OutputPartialDecodeBuffers(t) PROVE LInv'
  BY <1>1, AsidePartial, AsideStep
<1>2. CASE UNCHANGED vars
  <2>1. UNCHANGED <<accounts, pc, context, picture, pictures, OutputRing>>
    BY <1>2 DEF vars, accounts, mme, marking, threads, stream, bounds, output
  <2>2. RingKnown' /\ NoNewMarker
    BY <2>1, RingStep DEF LInv, Kinded
  <2> QED
    BY <2>1, <2>2, LateStay
<1>3. CASE PtoD
  <2>1. CASE ReleaseDecodeContext("PtoD") \/ PassOnMarker("PtoD")
    BY <2>1, LateRelease, LateReleasedPtoD, LateTest, LateTake DEF ReleaseDecodeContext, PassOnMarker
  <2> QED
    BY <1>1, <1>3, <2>1, LateOpening, LateTranslate, LateLaunch, LateSend, LateCompleteFailed,
       LateMarkerInput, LateGetMarkerBuffer DEF PtoD
<1>4. CASE MME
  BY <1>4, LateCallback, LateRelease, LateReleasedMME, LateTest, LateTake
  DEF MME, ReleaseDecodeContext, PassOnMarker
<1>5. CASE Drain
  BY <1>1, <1>5, LateDrain DEF Drain
<1>6. CASE Display
  BY <1>6, LateDisplay
<1>7. CASE Environment
  BY <1>7, LateInput, LateParser, LateOpening, LateLaunch, LateDrainStart DEF Environment
<1> QED
  BY <1>2, <1>3, <1>4, <1>5, <1>6, <1>7 DEF Next

\* With one drain, no decode that was prepared in front of a marker is still out
\* when the marker is in the ring behind the codec, failures and what the Lock
\* leaves unordered included: the count at which it passes was taken when it came
\* (codec_mme_base.cpp:1962-1972). A second drain could overtake a thread that
\* stands between the test and the take.
THEOREM MarkerFollowsDecodes == ASSUME MaxDrains <= 1 PROVE Spec => []MarkerAfterDecodes
<1>1. LInv => MarkerAfterDecodes
  <2> SUFFICES ASSUME LInv, NEW i \in DOMAIN OutputRing, OutputRing[i].marker,
                      NEW c \in (ToSet(commands) \cup {context["PtoD"], context["MME"]}) \ {NoContext}
               PROVE  c.n > OutputRing[i].n
    BY DEF MarkerAfterDecodes
  <2>1. OutputRing[i].n \in Nat /\ context["PtoD"].n \in Nat /\ context["MME"].n \in Nat
        /\ \A j \in DOMAIN commands : commands[j].n \in Nat
    BY DEF LInv, Kinded, RingKnown, ContextsKnown, CommandsKnown, IsContext
  <2>2. CASE c \in ToSet(commands)
    <3>1. PICK j \in DOMAIN commands : c = commands[j]
      BY <2>2 DEF ToSet
    <3> QED
      BY <2>1, <3>1 DEF LInv, Followed
  <2>3. CASE c = context["PtoD"]
    BY <2>1, <2>3 DEF LInv, Followed, Behind
  <2>4. CASE c = context["MME"]
    BY <2>1, <2>4 DEF LInv, Followed
  <2> QED
    BY <2>2, <2>3, <2>4
<1>2. Init => IInv /\ LInv
  BY InitInvariant, LateInit
<1>3. IInv /\ LInv /\ [Next]_vars => (IInv /\ LInv)'
  BY NextInvariant, LateNext
<1> QED
  BY <1>1, <1>2, <1>3, PTL DEF Spec

-----------------------------------------------------------------------------
(* Counting: how many places of a sequence hold an element of a set *)

Places(s, E) == {i \in DOMAIN s : s[i] \in E}

\* One more in every number: a set keeps its size.
LEMMA Shifted ==
    ASSUME NEW T \in SUBSET Nat, IsFiniteSet(T)
    PROVE  IsFiniteSet({i + 1 : i \in T}) /\ Cardinality({i + 1 : i \in T}) = Cardinality(T)
<1> DEFINE U == {i + 1 : i \in T}
           f == [i \in T |-> i + 1]
<1>1. f \in Bijection(T, U)
  BY DEF Bijection, Injection, Surjection, IsInjective
<1> QED
  BY <1>1, FS_Bijection DEF ExistsBijection

\* Two sets with nothing in common.
LEMMA Disjoint ==
    ASSUME NEW S, NEW T, IsFiniteSet(S), IsFiniteSet(T), \A x \in S : x \notin T
    PROVE  IsFiniteSet(S \cup T) /\ Cardinality(S \cup T) = Cardinality(S) + Cardinality(T)
<1>1. S \cap T = {}
  OBVIOUS
<1>2. Cardinality(S \cap T) = 0
  BY <1>1, FS_EmptySet
<1>3. Cardinality(S) \in Nat /\ Cardinality(T) \in Nat
  BY FS_CardinalityType
<1>4. /\ IsFiniteSet(S \cup T)
      /\ Cardinality(S \cup T) = Cardinality(S) + Cardinality(T) - Cardinality(S \cap T)
  BY FS_Union
<1> QED
  BY <1>2, <1>3, <1>4

\* A sequence has finitely many places, one more when it grows, one fewer
\* when its head goes.
LEMMA PlacesFinite ==
    ASSUME NEW S, NEW s \in Seq(S), NEW E
    PROVE  IsFiniteSet(Places(s, E)) /\ Cardinality(Places(s, E)) \in Nat
<1>1. Len(s) \in Nat /\ DOMAIN s = 1..Len(s)
  OBVIOUS
<1>2. IsFiniteSet(1..Len(s))
  BY <1>1, FS_Interval
<1>3. Places(s, E) \in SUBSET (1..Len(s))
  BY <1>1 DEF Places
<1> QED
  BY <1>2, <1>3, FS_Subset, FS_CardinalityType

LEMMA PlacesAppend ==
    ASSUME NEW S, NEW s \in Seq(S), NEW e \in S, NEW E
    PROVE  Cardinality(Places(Append(s, e), E)) = Cardinality(Places(s, E)) + Count(e \in E)
<1> DEFINE n == Len(s) + 1
<1>1. /\ n \in Nat /\ n \notin DOMAIN s
      /\ DOMAIN Append(s, e) = DOMAIN s \cup {n}
      /\ Append(s, e)[n] = e
      /\ \A i \in DOMAIN s : Append(s, e)[i] = s[i]
  OBVIOUS
<1>2. n \notin Places(s, E)
  BY <1>1 DEF Places
<1>3. CASE e \in E
  <2>1. Places(Append(s, e), E) = Places(s, E) \cup {n}
    BY <1>1, <1>3 DEF Places
  <2> QED
    BY <1>2, <1>3, <2>1, PlacesFinite, FS_AddElement DEF Count
<1>4. CASE e \notin E
  <2>1. Places(Append(s, e), E) = Places(s, E)
    BY <1>1, <1>4 DEF Places
  <2> QED
    BY <1>4, <2>1, PlacesFinite DEF Count
<1> QED
  BY <1>3, <1>4

LEMMA PlacesTail ==
    ASSUME NEW S, NEW s \in Seq(S), s # <<>>, NEW E
    PROVE  Cardinality(Places(s, E)) = Cardinality(Places(Tail(s), E)) + Count(Head(s) \in E)
<1> DEFINE T == Places(Tail(s), E)
           U == {i + 1 : i \in T}
<1>1. /\ Tail(s) \in Seq(S) /\ Len(s) \in Nat /\ Len(s) > 0
      /\ DOMAIN s = 1..Len(s) /\ DOMAIN Tail(s) = 1..(Len(s) - 1)
      /\ \A i \in 1..(Len(s) - 1) : Tail(s)[i] = s[i + 1]
      /\ Head(s) = s[1]
  OBVIOUS
<1>2. T \in SUBSET Nat
  BY <1>1 DEF Places
<1>3. IsFiniteSet(U) /\ Cardinality(U) = Cardinality(T) /\ Cardinality(T) \in Nat
  <2> HIDE DEF T
  <2>1. IsFiniteSet(T) /\ Cardinality(T) \in Nat
    BY <1>1, PlacesFinite DEF T
  <2> QED
    BY <1>2, <2>1, Shifted
<1>4. \A i \in DOMAIN s : i # 1 => (s[i] \in E <=> i \in U)
  <2> TAKE i \in DOMAIN s
  <2> HAVE i # 1
  <2>1. i - 1 \in 1..(Len(s) - 1) /\ Tail(s)[i - 1] = s[i]
    BY <1>1
  <2>2. s[i] \in E => i \in U
    BY <1>1, <2>1 DEF Places
  <2>3. i \in U => s[i] \in E
    <3> HAVE i \in U
    <3>1. PICK k \in T : i = k + 1
      OBVIOUS
    <3>2. k = i - 1
      BY <1>2, <3>1
    <3> QED
      BY <2>1, <3>1, <3>2 DEF Places
  <2> QED
    BY <2>2, <2>3
<1>5. \A i \in U : i \in DOMAIN s /\ i # 1
  <2> TAKE i \in U
  <2>1. PICK k \in T : i = k + 1
    OBVIOUS
  <2>2. k \in 1..(Len(s) - 1)
    BY <1>1, <2>1 DEF Places
  <2> QED
    BY <1>1, <2>1, <2>2
<1>6. 1 \in DOMAIN s /\ 1 \notin U
  BY <1>1, <1>5
<1> HIDE DEF T, U
<1>7. CASE Head(s) \in E
  <2>1. Places(s, E) = U \cup {1}
    BY <1>1, <1>4, <1>5, <1>6, <1>7 DEF Places
  <2> QED
    BY <1>3, <1>6, <1>7, <2>1, FS_AddElement DEF Count, T
<1>8. CASE Head(s) \notin E
  <2>1. Places(s, E) = U
    BY <1>1, <1>4, <1>5, <1>6, <1>8 DEF Places
  <2> QED
    BY <1>3, <1>8, <2>1 DEF Count, T
<1> QED
  BY <1>7, <1>8

-----------------------------------------------------------------------------
(* The references of the decodes in a queue *)

Slots(s, b) == UNION {{i} \X {j \in DOMAIN s[i].refs : s[i].refs[j][2] = b} : i \in DOMAIN s}

References == Seq(Nat \X Buffers)
Decode == [n : Nat, buffer : Buffers, refs : References]

\* The pairs of a decode in the queue and one of its references to b.
LEMMA InSlots ==
    ASSUME NEW s, NEW b, NEW i, NEW j
    PROVE  <<i, j>> \in Slots(s, b) <=>
               i \in DOMAIN s /\ j \in DOMAIN s[i].refs /\ s[i].refs[j][2] = b
BY DEF Slots

LEMMA SlotsArePairs ==
    ASSUME NEW s, NEW b, NEW p \in Slots(s, b)
    PROVE  p = <<p[1], p[2]>>
BY DEF Slots

\* The references of a decode, of a queue, and of a queue that grows or shrinks.
LEMMA TimesFinite ==
    ASSUME NEW refs \in References, NEW b
    PROVE  /\ IsFiniteSet({j \in DOMAIN refs : refs[j][2] = b})
           /\ Times(refs, b) \in Nat
<1> DEFINE J == {j \in DOMAIN refs : refs[j][2] = b}
<1>1. Len(refs) \in Nat /\ J \in SUBSET (1..Len(refs))
  BY DEF References
<1>2. IsFiniteSet(1..Len(refs))
  BY <1>1, FS_Interval
<1>3. IsFiniteSet(J)
  BY <1>1, <1>2, FS_Subset
<1> QED
  BY <1>3, FS_CardinalityType DEF Times

LEMMA SlotsFinite ==
    ASSUME NEW s \in Seq(Decode), NEW b
    PROVE  IsFiniteSet(Slots(s, b)) /\ Cardinality(Slots(s, b)) \in Nat
<1> DEFINE R(i) == {i} \X {j \in DOMAIN s[i].refs : s[i].refs[j][2] = b}
           F == {R(i) : i \in DOMAIN s}
           f == [i \in DOMAIN s |-> R(i)]
<1>1. Len(s) \in Nat /\ DOMAIN s = 1..Len(s)
  OBVIOUS
<1>2. IsFiniteSet(DOMAIN s)
  BY <1>1, FS_Interval
<1>3. f \in Surjection(DOMAIN s, F)
  BY DEF Surjection
<1>4. IsFiniteSet(F)
  <2> HIDE DEF f, F
  <2> QED
    BY <1>2, <1>3, FS_Surjection
<1>5. \A r \in F : IsFiniteSet(r)
  <2> TAKE r \in F
  <2>1. PICK i \in DOMAIN s : r = R(i)
    OBVIOUS
  <2>a. s[i] \in Decode
    OBVIOUS
  <2>2. s[i].refs \in References
    BY <2>a DEF Decode
  <2>3. IsFiniteSet({i})
    BY FS_Singleton
  <2>4. IsFiniteSet({j \in DOMAIN s[i].refs : s[i].refs[j][2] = b})
    BY <2>2, TimesFinite
  <2> QED
    BY <2>1, <2>3, <2>4, FS_Product
<1>6. Slots(s, b) = UNION F
  BY DEF Slots
<1>7. IsFiniteSet(UNION F)
  <2> HIDE DEF F
  <2> QED
    BY <1>4, <1>5, FS_UNION
<1> QED
  BY <1>6, <1>7, FS_CardinalityType

LEMMA RowSize ==
    ASSUME NEW refs \in References, NEW b, NEW k
    PROVE  /\ IsFiniteSet({k} \X {j \in DOMAIN refs : refs[j][2] = b})
           /\ Cardinality({k} \X {j \in DOMAIN refs : refs[j][2] = b}) = Times(refs, b)
<1> DEFINE J == {j \in DOMAIN refs : refs[j][2] = b}
<1>1. IsFiniteSet(J) /\ Cardinality(J) = Times(refs, b) /\ Times(refs, b) \in Nat
  BY TimesFinite DEF Times
<1>2. IsFiniteSet({k}) /\ Cardinality({k}) = 1
  BY FS_Singleton
<1> HIDE DEF J
<1>3. IsFiniteSet({k} \X J) /\ Cardinality({k} \X J) = 1 * Cardinality(J)
  BY <1>1, <1>2, FS_Product
<1> QED
  BY <1>1, <1>3 DEF J

LEMMA SlotsAppend ==
    ASSUME NEW s \in Seq(Decode), NEW c \in Decode, NEW b
    PROVE  Cardinality(Slots(Append(s, c), b)) = Cardinality(Slots(s, b)) + Times(c.refs, b)
<1> DEFINE n == Len(s) + 1
           row == {n} \X {j \in DOMAIN c.refs : c.refs[j][2] = b}
<1>1. /\ n \in Nat /\ n \notin DOMAIN s
      /\ DOMAIN Append(s, c) = DOMAIN s \cup {n}
      /\ Append(s, c)[n] = c
      /\ \A i \in DOMAIN s : Append(s, c)[i] = s[i]
  OBVIOUS
<1>2. Slots(Append(s, c), b) = Slots(s, b) \cup row
  <2>1. \A p \in Slots(Append(s, c), b) : p \in Slots(s, b) \cup row
    <3> TAKE p \in Slots(Append(s, c), b)
    <3>1. PICK i \in DOMAIN Append(s, c) :
             p \in {i} \X {j \in DOMAIN Append(s, c)[i].refs : Append(s, c)[i].refs[j][2] = b}
      BY DEF Slots
    <3>2. CASE i = n
      BY <1>1, <3>1, <3>2
    <3>3. CASE i \in DOMAIN s
      BY <1>1, <3>1, <3>3 DEF Slots
    <3> QED
      BY <1>1, <3>1, <3>2, <3>3
  <2>2. \A p \in Slots(s, b) : p \in Slots(Append(s, c), b)
    <3> TAKE p \in Slots(s, b)
    <3>1. PICK i \in DOMAIN s : p \in {i} \X {j \in DOMAIN s[i].refs : s[i].refs[j][2] = b}
      BY DEF Slots
    <3> QED
      BY <1>1, <3>1 DEF Slots
  <2>3. \A p \in row : p \in Slots(Append(s, c), b)
    BY <1>1 DEF Slots
  <2> QED
    BY <2>1, <2>2, <2>3
<1>3. \A p \in Slots(s, b) : p \notin row
  BY <1>1 DEF Slots
<1>4. IsFiniteSet(row) /\ Cardinality(row) = Times(c.refs, b) /\ Times(c.refs, b) \in Nat
  BY RowSize, TimesFinite DEF Decode
<1> HIDE DEF row
<1> QED
  BY <1>2, <1>3, <1>4, SlotsFinite, Disjoint

LEMMA SlotsTail ==
    ASSUME NEW s \in Seq(Decode), s # <<>>, NEW b
    PROVE  Cardinality(Slots(s, b)) = Cardinality(Slots(Tail(s), b)) + Times(Head(s).refs, b)
<1> DEFINE c == Head(s)
           row == {1} \X {j \in DOMAIN c.refs : c.refs[j][2] = b}
           T == Slots(Tail(s), b)
           U == Slots(s, b) \ row
           f == [p \in T |-> <<p[1] + 1, p[2]>>]
<1>1. /\ Tail(s) \in Seq(Decode) /\ Len(s) \in Nat /\ Len(s) > 0
      /\ DOMAIN s = 1..Len(s) /\ DOMAIN Tail(s) = 1..(Len(s) - 1)
      /\ \A i \in 1..(Len(s) - 1) : Tail(s)[i] = s[i + 1]
      /\ c = s[1] /\ c \in Decode
  OBVIOUS
<1>2. \A p \in T : p = <<p[1], p[2]>> /\ p[1] \in 1..(Len(s) - 1)
  <2> TAKE p \in T
  <2>1. p = <<p[1], p[2]>>
    BY SlotsArePairs
  <2>2. p[1] \in DOMAIN Tail(s)
    BY <2>1 DEF Slots
  <2> QED
    BY <1>1, <2>1, <2>2
<1>3. \A p \in T : <<p[1] + 1, p[2]>> \in U
  <2> TAKE p \in T
  <2>1. /\ p[1] \in 1..(Len(s) - 1) /\ p[2] \in DOMAIN Tail(s)[p[1]].refs
        /\ Tail(s)[p[1]].refs[p[2]][2] = b
    BY <1>2 DEF Slots
  <2>2. <<p[1] + 1, p[2]>> \in Slots(s, b)
    BY <1>1, <2>1, InSlots
  <2>3. <<p[1] + 1, p[2]>> \notin row
    BY <2>1
  <2> QED
    BY <2>2, <2>3
<1>4. \A q \in U : <<q[1] - 1, q[2]>> \in T /\ q = <<q[1], q[2]>> /\ q[1] \in Nat
  <2> TAKE q \in U
  <2>1. q = <<q[1], q[2]>>
    BY SlotsArePairs
  <2>2. q[1] \in DOMAIN s /\ q[2] \in DOMAIN s[q[1]].refs /\ s[q[1]].refs[q[2]][2] = b
    BY <2>1, InSlots
  <2>3. q[1] # 1
    BY <1>1, <2>1, <2>2
  <2>4. q[1] - 1 \in 1..(Len(s) - 1) /\ Tail(s)[q[1] - 1] = s[q[1]]
    BY <1>1, <2>2, <2>3
  <2>5. <<q[1] - 1, q[2]>> \in Slots(Tail(s), b)
    BY <1>1, <2>2, <2>4, InSlots
  <2> QED
    BY <1>1, <2>1, <2>2, <2>5
<1>5. f \in Bijection(T, U)
  <2>1. f \in [T -> U]
    BY <1>3
  <2>2. \A p, q \in T : f[p] = f[q] => p = q
    <3> TAKE p, q \in T
    <3> HAVE f[p] = f[q]
    <3>1. p[1] + 1 = q[1] + 1 /\ p[2] = q[2]
      OBVIOUS
    <3> QED
      BY <1>2, <3>1
  <2>3. \A q \in U : \E p \in T : f[p] = q
    <3> TAKE q \in U
    <3>1. <<q[1] - 1, q[2]>> \in T /\ q = <<q[1], q[2]>> /\ q[1] \in Nat
      BY <1>4
    <3>2. f[<<q[1] - 1, q[2]>>] = <<(q[1] - 1) + 1, q[2]>>
      BY <3>1
    <3>3. (q[1] - 1) + 1 = q[1]
      BY <3>1
    <3> QED
      BY <3>1, <3>2, <3>3
  <2> HIDE DEF f, T, U
  <2>4. DOMAIN f = T
    BY <2>1
  <2> QED
    BY <2>1, <2>2, <2>3, <2>4 DEF Bijection, Injection, Surjection, IsInjective
<1>6. row \subseteq Slots(s, b)
  BY <1>1 DEF Slots
<1>7. IsFiniteSet(row) /\ Cardinality(row) = Times(c.refs, b) /\ Times(c.refs, b) \in Nat
  BY <1>1, RowSize, TimesFinite DEF Decode
<1>8. IsFiniteSet(T) /\ Cardinality(T) \in Nat
  BY <1>1, SlotsFinite
<1>9. IsFiniteSet(U) /\ Cardinality(U) = Cardinality(T)
  <2> HIDE DEF f, T, U
  <2> QED
    BY <1>5, <1>8, FS_Bijection DEF ExistsBijection
<1>10. Slots(s, b) = U \cup row /\ \A x \in U : x \notin row
  BY <1>6
<1> HIDE DEF row, T, U
<1>11. Cardinality(U \cup row) = Cardinality(U) + Cardinality(row)
  BY <1>7, <1>9, <1>10, Disjoint
<1> QED
  BY <1>7, <1>8, <1>9, <1>10, <1>11 DEF T

-----------------------------------------------------------------------------
(* What is counted of a buffer *)

Decoders == {"PtoD", "MME"}
Entries == [buffer : Buffers, n : Nat, marker : BOOLEAN]
States == [Buffer : BOOLEAN, OutputOnDecodesComplete : BOOLEAN, DecodesInProgress : Nat,
           ReferenceFrameCount : Nat, Fields : SUBSET {1, 2}]

Pictures == [n : Nat, kind : {"frame", "first", "second"}, ref : BOOLEAN, list : SUBSET Nat,
             buffer : Buffers \cup {None}, last : BOOLEAN, then : {"idle", "buffer"}]

Ours(b)    == {e \in Entries : e.buffer = b /\ ~e.marker}
Markers(b) == {e \in Entries : e.buffer = b /\ e.marker}
Into(b)    == {c \in Decode : c.buffer = b}

\* The codec holds the buffer's own reference: it is not complete, or about to
\* be given up.
Decoding(b) ==
    \/ /\ BufferState[b].Buffer
       /\ BufferState[b].OutputOnDecodesComplete => BufferState[b].DecodesInProgress > 0
    \/ \E t \in Decoders : pc[t] = "discard" /\ context[t].buffer = b

Sending(b)  == pc["PtoD"] \in {"send", "complete"} /\ context["PtoD"].buffer = b
AtMap(b)    == pc["PtoD"] = "map" /\ picture.buffer = b
AtMarker(b) == MarkerBuffer # None /\ MarkerBuffer.buffer = b

\* References to a buffer that holds a picture, to one that does not, and
\* decodes into it that have not ended.
Passed(b)  == Cardinality(Places(OutputRing, Ours(b))) + shown[b]
Held(b)    == BufferState[b].ReferenceFrameCount + Named(b) + Count(Decoding(b)) + Passed(b)
Carried(b) == Count(AtMap(b)) + Count(AtMarker(b)) + Cardinality(Places(OutputRing, Markers(b)))
Pending(b) == Cardinality(Places(commands, Into(b))) + Count(Sending(b))

Account(b) ==
    /\ owners[b] = Held(b) + Carried(b)
    /\ BufferState[b].DecodesInProgress = Pending(b)
    /\ Count(Decoding(b)) + Passed(b) <= 1
    /\ BufferState[b].Buffer => Held(b) > 0 /\ Carried(b) = 0
    /\ ~BufferState[b].Buffer => /\ BufferState[b] = Unused /\ Held(b) = 0 /\ Carried(b) <= 1
                                 /\ \A p \in map : p[2] # b

PtoDSteps == {"idle", "partial", "partialOutput", "partialClear", "buffer", "map", "translate",
              "launch", "send", "finish", "complete", "discard", "compare", "refs", "getMarker",
              "test", "take"}
MMESteps == {"idle", "discard", "compare", "refs", "test", "take"}
DrainSteps == {"idle", "until", "partial", "partialOutput", "partialClear", "insert"}

TypedTable ==
    /\ owners \in [Buffers -> Int]
    /\ BufferState \in [Buffers -> States]
    /\ shown \in [Buffers -> Nat]
    /\ Current \in Buffers \cup {None}
TypedQueues ==
    /\ OutputRing \in Seq(Entries)
    /\ commands \in Seq(Decode)
    /\ context \in [Decoders -> Decode \cup {NoContext}]
    /\ MarkerBuffer # None => /\ MarkerBuffer \in Entries /\ MarkerBuffer.marker
                             /\ pc["PtoD"] # "getMarker"
TypedSteps ==
    /\ pc = [t \in Threads |-> pc[t]]
    /\ pc["PtoD"] \in PtoDSteps /\ pc["MME"] \in MMESteps /\ pc["drain"] \in DrainSteps
TypedStream ==
    /\ pictures \in Nat /\ references \subseteq 1..pictures
    /\ picture \in Pictures
    /\ picture.n \in 0..pictures /\ picture.list \subseteq 1..pictures
    /\ picture.buffer \in Buffers \cup {None}
    /\ picture.last \in BOOLEAN /\ picture.then \in {"idle", "buffer"}

Typed == TypedTable /\ TypedQueues /\ TypedSteps /\ TypedStream

\* The current buffer is being given up: whoever does so clears it.
Closing ==
    \/ pc["PtoD"] \in {"partialClear", "discard", "compare"}
    \/ pc["PtoD"] \in {"send", "complete", "finish"} /\ picture.last
    \/ pc["drain"] = "partialClear"

GivingUp(b) == \E t \in Decoders : pc[t] \in {"discard", "compare"} /\ context[t].buffer = b

\* Until then more decodes may go into it.
CurrentOpen == Current # None /\ ~Closing =>
    /\ BufferState[Current].Buffer /\ ~BufferState[Current].OutputOnDecodesComplete
    /\ ~GivingUp(Current)

Turns == pc["drain"] \in {"partialOutput", "partialClear"} =>
             pc["PtoD"] \in {"idle", "partial", "getMarker", "test", "take"}

Preparation ==
    /\ pc["PtoD"] = "map" => /\ Current = None /\ picture.buffer # None
                             /\ ~BufferState[picture.buffer].Buffer /\ ~GivingUp(picture.buffer)
    /\ pc["PtoD"] \in {"translate", "launch"} => Current # None
    /\ pc["PtoD"] = "launch" => context["PtoD"].buffer = Current
    /\ pc["PtoD"] \in {"send", "complete"} =>
           BufferState[context["PtoD"].buffer].OutputOnDecodesComplete = picture.last
    /\ pc["PtoD"] \in {"send", "complete", "discard", "compare"} =>
           Current \in {None, context["PtoD"].buffer}
    /\ \A t \in {"PtoD", "drain"} : pc[t] = "partialOutput" => Current # None

Holding ==
    /\ pc["PtoD"] \in {"launch", "send", "complete", "discard", "compare"} => context["PtoD"] \in Decode
    /\ pc["PtoD"] \notin {"launch", "send", "complete", "discard", "compare", "refs"} =>
           context["PtoD"] = NoContext
    /\ pc["MME"] \in {"discard", "compare"} => context["MME"] \in Decode
    /\ pc["MME"] \notin {"discard", "compare", "refs"} => context["MME"] = NoContext

GivenUp(b) == /\ BufferState[b].Buffer /\ BufferState[b].OutputOnDecodesComplete
              /\ BufferState[b].DecodesInProgress = 0

Discards ==
    /\ \A t \in Decoders : pc[t] = "discard" => GivenUp(context[t].buffer)
    /\ pc["PtoD"] = "discard" /\ pc["MME"] = "discard" => context["PtoD"].buffer # context["MME"].buffer

RefsMapped(c) == \A i \in DOMAIN c.refs : c.refs[i] \in map

MapSound ==
    /\ map \subseteq (1..pictures) \X Buffers
    /\ \A p, q \in map : p[1] = q[1] => p = q
    /\ \A t \in Decoders : RefsMapped(context[t])
    /\ \A k \in DOMAIN commands : <<commands[k].n, commands[k].buffer>> \in map /\ RefsMapped(commands[k])

CurrentMapped ==
    /\ pc["PtoD"] \in {"translate", "launch"} => <<picture.n, Current>> \in map
    /\ pc["PtoD"] \in {"launch", "send"} => <<context["PtoD"].n, context["PtoD"].buffer>> \in map

NotMappedYet ==
    (pc["PtoD"] \in Partial /\ picture.then = "buffer") \/ pc["PtoD"] \in {"buffer", "map"} =>
        picture.n \in 1..pictures /\ \A p \in map : p[1] # picture.n

Control == Turns /\ CurrentOpen /\ Preparation /\ Holding /\ Discards
Accounts == \A b \in Buffers : Account(b)

Mapped == MapSound /\ CurrentMapped /\ NotMappedYet

RInv == Typed /\ Control /\ Mapped /\ Accounts

-----------------------------------------------------------------------------
\* What the parts of an account are numbers.
LEMMA NoRefs == <<>> \in References /\ \A b : Times(<<>>, b) = 0
<1>1. \A b : {i \in DOMAIN <<>> : <<>>[i][2] = b} = {}
  OBVIOUS
<1> QED
  BY <1>1, FS_EmptySet DEF References, Times

LEMMA Contexts ==
    ASSUME Typed, NEW t \in Decoders
    PROVE  context[t].refs \in References
<1>1. context[t] \in Decode \cup {NoContext}
  BY DEF Typed, TypedQueues
<1> QED
  BY <1>1, NoRefs DEF Decode, NoContext

LEMMA Counts == \A f \in BOOLEAN : Count(f) \in {0, 1} /\ (Count(f) = 1 <=> f)
BY DEF Count

LEMMA Numbers ==
    ASSUME Typed, NEW b \in Buffers
    PROVE  /\ owners[b] \in Int /\ BufferState[b] \in States
           /\ BufferState[b].ReferenceFrameCount \in Nat /\ BufferState[b].DecodesInProgress \in Nat
           /\ BufferState[b].Buffer \in BOOLEAN /\ BufferState[b].OutputOnDecodesComplete \in BOOLEAN
           /\ Cardinality(Slots(commands, b)) \in Nat
           /\ Times(context["PtoD"].refs, b) \in Nat /\ Times(context["MME"].refs, b) \in Nat
           /\ Named(b) = Cardinality(Slots(commands, b)) + Times(context["PtoD"].refs, b)
                         + Times(context["MME"].refs, b)
           /\ Named(b) \in Nat
           /\ Cardinality(Places(OutputRing, Ours(b))) \in Nat
           /\ Cardinality(Places(OutputRing, Markers(b))) \in Nat
           /\ Cardinality(Places(commands, Into(b))) \in Nat
           /\ shown[b] \in Nat /\ Passed(b) \in Nat /\ Carried(b) \in Nat /\ Pending(b) \in Nat
           /\ Held(b) \in Nat
           /\ Decoding(b) \in BOOLEAN /\ Count(Decoding(b)) \in {0, 1}
           /\ Count(Decoding(b)) = 1 <=> Decoding(b)
<1>1. /\ owners[b] \in Int /\ BufferState[b] \in States /\ shown[b] \in Nat
      /\ OutputRing \in Seq(Entries) /\ commands \in Seq(Decode)
  BY DEF Typed, TypedTable, TypedQueues
<1>2. /\ BufferState[b].ReferenceFrameCount \in Nat /\ BufferState[b].DecodesInProgress \in Nat
      /\ BufferState[b].Buffer \in BOOLEAN /\ BufferState[b].OutputOnDecodesComplete \in BOOLEAN
  BY <1>1 DEF States
<1>3. Cardinality(Slots(commands, b)) \in Nat
  BY <1>1, SlotsFinite
<1>4. Times(context["PtoD"].refs, b) \in Nat /\ Times(context["MME"].refs, b) \in Nat
  BY Contexts, TimesFinite DEF Decoders
<1>5. Named(b) = Cardinality(Slots(commands, b)) + Times(context["PtoD"].refs, b)
                 + Times(context["MME"].refs, b)
  BY DEF Named, Queued, Slots
<1>6. /\ Cardinality(Places(OutputRing, Ours(b))) \in Nat
      /\ Cardinality(Places(OutputRing, Markers(b))) \in Nat
      /\ Cardinality(Places(commands, Into(b))) \in Nat
  BY <1>1, PlacesFinite
<1>7. Decoding(b) \in BOOLEAN /\ Sending(b) \in BOOLEAN /\ AtMap(b) \in BOOLEAN
      /\ AtMarker(b) \in BOOLEAN
  BY DEF Decoding, Sending, AtMap, AtMarker
<1>8. /\ Count(Decoding(b)) \in {0, 1} /\ Count(Sending(b)) \in {0, 1}
      /\ Count(AtMap(b)) \in {0, 1} /\ Count(AtMarker(b)) \in {0, 1}
      /\ Count(Decoding(b)) = 1 <=> Decoding(b)
  BY <1>7, Counts
<1>9. Named(b) \in Nat
  BY <1>3, <1>4, <1>5
<1>10. Passed(b) \in Nat /\ Carried(b) \in Nat /\ Pending(b) \in Nat
  BY <1>1, <1>6, <1>8 DEF Passed, Carried, Pending
<1>11. Held(b) \in Nat
  BY <1>2, <1>8, <1>9, <1>10 DEF Held
<1> QED
  BY <1>1, <1>2, <1>3, <1>4, <1>5, <1>6, <1>7, <1>8, <1>9, <1>10, <1>11

\* Nothing counted, nothing there.
LEMMA NoneNamed ==
    ASSUME Typed, NEW b \in Buffers, Named(b) = 0
    PROVE  /\ \A k \in DOMAIN commands : \A j \in DOMAIN commands[k].refs : commands[k].refs[j][2] # b
           /\ \A t \in Decoders : \A j \in DOMAIN context[t].refs : context[t].refs[j][2] # b
<1>1. /\ Cardinality(Slots(commands, b)) = 0
      /\ Times(context["PtoD"].refs, b) = 0 /\ Times(context["MME"].refs, b) = 0
  BY Numbers
<1>2. Slots(commands, b) = {}
  <2>1. IsFiniteSet(Slots(commands, b))
    BY SlotsFinite DEF Typed, TypedQueues
  <2> QED
    BY <1>1, <2>1, FS_EmptySet
<1>3. \A k \in DOMAIN commands : \A j \in DOMAIN commands[k].refs : commands[k].refs[j][2] # b
  BY <1>2, InSlots
<1>4. ASSUME NEW t \in Decoders
      PROVE  \A j \in DOMAIN context[t].refs : context[t].refs[j][2] # b
  <2> DEFINE J == {j \in DOMAIN context[t].refs : context[t].refs[j][2] = b}
  <2>1. IsFiniteSet(J) /\ Cardinality(J) = 0
    BY <1>1, Contexts, TimesFinite DEF Times, Decoders
  <2>2. J = {}
    <3> HIDE DEF J
    <3> QED
      BY <2>1, FS_EmptySet
  <2> QED
    BY <2>2
<1> QED
  BY <1>3, <1>4

LEMMA NonePending ==
    ASSUME Typed, NEW b \in Buffers, Pending(b) = 0
    PROVE  /\ \A k \in DOMAIN commands : commands[k].buffer # b
           /\ ~Sending(b)
<1>1. Sending(b) \in BOOLEAN
  BY DEF Sending
<1>2. Cardinality(Places(commands, Into(b))) = 0 /\ ~Sending(b)
  BY <1>1, Counts, Numbers DEF Pending
<1>3. commands \in Seq(Decode)
  BY DEF Typed, TypedQueues
<1>4. Places(commands, Into(b)) = {}
  BY <1>2, <1>3, PlacesFinite, FS_EmptySet
<1>5. \A k \in DOMAIN commands : commands[k] \in Decode
  BY <1>3
<1> QED
  BY <1>2, <1>4, <1>5 DEF Places, Into

\* A buffer whose numbers stay keeps its account.
LEMMA SameAccount ==
    ASSUME NEW b \in Buffers, Account(b),
           owners'[b] = owners[b], BufferState'[b] = BufferState[b],
           Named(b)' = Named(b), Count(Decoding(b))' = Count(Decoding(b)), Passed(b)' = Passed(b),
           Carried(b)' = Carried(b), Pending(b)' = Pending(b),
           BufferState[b].Buffer \/ \A p \in map' : p[2] = b => p \in map
    PROVE  Account(b)'
<1>1. Held(b)' = Held(b)
  BY DEF Held
<1> QED
  BY <1>1 DEF Account

-----------------------------------------------------------------------------
(* Steps that leave the accounts alone: where the threads go *)

\* A thread that goes on leaves the others where they are.
LEMMA Moves ==
    ASSUME TypedSteps, NEW t \in Threads, NEW l, pc' = [pc EXCEPT ![t] = l]
    PROVE  /\ pc' = [u \in Threads |-> pc'[u]]
           /\ pc'[t] = l
           /\ t = "PtoD" => pc'["MME"] = pc["MME"] /\ pc'["drain"] = pc["drain"]
           /\ t = "MME" => pc'["PtoD"] = pc["PtoD"] /\ pc'["drain"] = pc["drain"]
           /\ t = "drain" => pc'["PtoD"] = pc["PtoD"] /\ pc'["MME"] = pc["MME"]
BY DEF TypedSteps, Threads

LEMMA PtoDMoves ==
    ASSUME RInv, NEW l, pc' = [pc EXCEPT !["PtoD"] = l]
    PROVE  /\ pc' = [u \in Threads |-> pc'[u]] /\ pc'["PtoD"] = l
           /\ pc'["MME"] = pc["MME"] /\ pc'["drain"] = pc["drain"]
BY Moves DEF RInv, Typed, Threads
LEMMA MMEMoves ==
    ASSUME RInv, NEW l, pc' = [pc EXCEPT !["MME"] = l]
    PROVE  /\ pc' = [u \in Threads |-> pc'[u]] /\ pc'["MME"] = l
           /\ pc'["PtoD"] = pc["PtoD"] /\ pc'["drain"] = pc["drain"]
BY Moves DEF RInv, Typed, Threads
LEMMA DrainMoves ==
    ASSUME RInv, NEW l, pc' = [pc EXCEPT !["drain"] = l]
    PROVE  /\ pc' = [u \in Threads |-> pc'[u]] /\ pc'["drain"] = l
           /\ pc'["PtoD"] = pc["PtoD"] /\ pc'["MME"] = pc["MME"]
BY Moves DEF RInv, Typed, Threads

books == <<owners, BufferState, OutputRing, shown, MarkerBuffer, commands, map>>

\* A step that leaves the books alone, and everything that is counted of the
\* contexts and of where the threads are.
LEMMA CalmAccounts ==
    ASSUME RInv, UNCHANGED books,
           \A t \in Decoders : context'[t].refs = context[t].refs,
           \A t \in Decoders : /\ pc'[t] = "discard" <=> pc[t] = "discard"
                               /\ pc[t] = "discard" => context'[t].buffer = context[t].buffer,
           pc'["PtoD"] \in {"send", "complete"} <=> pc["PtoD"] \in {"send", "complete"},
           pc["PtoD"] \in {"send", "complete"} => context'["PtoD"].buffer = context["PtoD"].buffer,
           pc'["PtoD"] = "map" <=> pc["PtoD"] = "map",
           pc["PtoD"] = "map" => picture'.buffer = picture.buffer
    PROVE  Accounts'
<1> SUFFICES ASSUME NEW b \in Buffers PROVE Account(b)'
  BY DEF Accounts
<1>1. Account(b)
  BY DEF RInv, Accounts
<1>2. Times(context'["PtoD"].refs, b) = Times(context["PtoD"].refs, b)
      /\ Times(context'["MME"].refs, b) = Times(context["MME"].refs, b)
  BY DEF Decoders
<1>3. Named(b)' = Named(b)
  BY <1>2 DEF Named, Queued, books
<1>4. Decoding(b)' <=> Decoding(b)
  BY DEF Decoding, Decoders, books
<1>5. Count(Decoding(b))' = Count(Decoding(b))
  BY <1>4 DEF Count
<1>6. Sending(b)' <=> Sending(b)
  BY DEF Sending
<1>7. Pending(b)' = Pending(b)
  BY <1>6 DEF Pending, Count, books
<1>8. Carried(b)' = Carried(b)
  BY DEF Carried, AtMap, AtMarker, Count, books
<1>9. Passed(b)' = Passed(b)
  BY DEF Passed, books
<1> QED
  BY <1>1, <1>3, <1>5, <1>7, <1>8, <1>9, SameAccount DEF books

LEMMA CalmMap ==
    ASSUME RInv, UNCHANGED <<map, commands>>, pictures' \in Nat, pictures <= pictures',
           \A t \in Decoders : context'[t].refs = context[t].refs
    PROVE  MapSound'
<1>1. MapSound /\ pictures \in Nat
  BY DEF RInv, Mapped, Typed, TypedStream
<1>2. 1..pictures \subseteq 1..pictures'
  BY <1>1
<1>3. \A t \in Decoders : RefsMapped(context[t])'
  BY <1>1 DEF MapSound, RefsMapped
<1>4. \A k \in DOMAIN commands' : RefsMapped(commands[k])'
  BY <1>1 DEF MapSound, RefsMapped
<1> QED
  BY <1>1, <1>2, <1>3, <1>4 DEF MapSound

\* The invariant in its parts.
LEMMA Parts ==
    RInv <=> /\ TypedTable /\ TypedQueues /\ TypedSteps /\ TypedStream
             /\ Turns /\ CurrentOpen /\ Preparation /\ Holding /\ Discards
             /\ MapSound /\ CurrentMapped /\ NotMappedYet /\ Accounts
BY DEF RInv, Typed, Control, Mapped

\* A picture comes.
LEMMA RInput ==
    ASSUME RInv, Serialized, NEW kind \in Kinds, NEW ref \in BOOLEAN,
           NEW list \in SUBSET references, Input(kind, ref, list)
    PROVE  RInv'
<1> DEFINE l == IF kind # "second" THEN "partial" ELSE picture'.then
<1>1. /\ pc["PtoD"] = "idle" /\ pc["drain"] \notin {"partialOutput", "partialClear"}
      /\ pictures' = pictures + 1
      /\ references' \subseteq references \cup {pictures'}
      /\ picture' = [NoPicture EXCEPT !.n = pictures', !.kind = kind, !.ref = ref, !.list = list,
                                      !.then = IF discarding THEN "idle" ELSE "buffer"]
      /\ pc' = [pc EXCEPT !["PtoD"] = l]
      /\ UNCHANGED <<books, Current, context>>
  BY DEF Input, books, table, output, mme, marking, Partial, Current
<1>2. /\ picture'.n = pictures' /\ picture'.list = list /\ picture'.buffer = None
      /\ picture'.last = FALSE /\ picture'.then \in {"idle", "buffer"}
  BY <1>1 DEF NoPicture
<1>3. l \in {"partial", "idle", "buffer"}
  BY <1>2
<1> HIDE DEF l
<1>4. /\ pc' = [u \in Threads |-> pc'[u]] /\ pc'["PtoD"] = l
      /\ pc'["MME"] = pc["MME"] /\ pc'["drain"] = pc["drain"]
  BY <1>1, PtoDMoves
<1>5. pictures \in Nat /\ references \subseteq 1..pictures
  BY DEF RInv, Typed, TypedStream
<1>6. TypedTable' /\ TypedQueues' /\ TypedSteps'
  BY <1>1, <1>3, <1>4, Parts DEF TypedTable, TypedQueues, TypedSteps, books, PtoDSteps
<1>7. TypedStream'
  <2>1. 1..pictures \subseteq 1..pictures' /\ pictures' \in Nat /\ pictures' \in 1..pictures'
    BY <1>1, <1>5
  <2>2. picture'.n \in 0..pictures'
    BY <1>2, <2>1
  <2>3. references' \subseteq 1..pictures' /\ picture'.list \subseteq 1..pictures'
    BY <1>1, <1>2, <1>5, <2>1
  <2>4. picture' \in Pictures
    <3>1. list \in SUBSET Nat /\ pictures' \in Nat /\ kind \in {"frame", "first", "second"}
      BY <1>1, <1>5, KindsAssumption
    <3> QED
      BY <1>1, <3>1 DEF NoPicture, Pictures
  <2> QED
    BY <1>2, <2>1, <2>2, <2>3, <2>4 DEF TypedStream
<1>8. Turns' /\ Holding' /\ Discards'
  BY <1>1, <1>3, <1>4, Parts DEF Turns, Holding, Discards, GivenUp, Decoders, books
<1>9. CurrentOpen'
  BY <1>1, <1>3, <1>4, Parts DEF CurrentOpen, Closing, GivingUp, Decoders, books
<1>10. Preparation'
  BY <1>1, <1>3, <1>4, Parts DEF Preparation, books
<1>11. MapSound'
  BY <1>1, <1>5, CalmMap DEF books
<1>12. CurrentMapped'
  BY <1>3, <1>4 DEF CurrentMapped
<1>13. NotMappedYet'
  <2>1. \A p \in map : p[1] \in 1..pictures
    BY Parts DEF MapSound
  <2> QED
    BY <1>1, <1>2, <1>5, <2>1 DEF NotMappedYet, books
<1>14. Accounts'
  BY <1>1, <1>3, <1>4, CalmAccounts DEF Decoders
<1> QED
  BY <1>6, <1>7, <1>8, <1>9, <1>10, <1>11, <1>12, <1>13, <1>14 DEF RInv, Typed, Control, Mapped

\* A step that leaves alone what is counted, and the frame parser.
Calm ==
    /\ UNCHANGED <<books, pictures, references>>
    /\ Current' \in {CurrentDecodeBufferIndex, None}
    /\ picture' \in {picture, NoPicture}
    /\ context' \in [Decoders -> Decode \cup {NoContext}]
    /\ \A t \in Decoders : context'[t].refs = context[t].refs
    /\ \A t \in Decoders : /\ pc'[t] = "discard" <=> pc[t] = "discard"
                           /\ pc[t] = "discard" => context'[t].buffer = context[t].buffer
    /\ pc'["PtoD"] \in {"send", "complete"} <=> pc["PtoD"] \in {"send", "complete"}
    /\ pc["PtoD"] \in {"send", "complete"} => context'["PtoD"].buffer = context["PtoD"].buffer
    /\ pc'["PtoD"] = "map" <=> pc["PtoD"] = "map"
    /\ pc["PtoD"] = "map" => picture'.buffer = picture.buffer
    /\ pc["PtoD"] # "getMarker" => pc'["PtoD"] # "getMarker"

\* It keeps the invariant when it keeps what it says of where the threads are.
LEMMA CalmStep ==
    ASSUME RInv, Calm, TypedSteps', Turns', Holding', Discards', CurrentOpen', Preparation',
           CurrentMapped', NotMappedYet'
    PROVE  RInv'
<1>1. TypedTable' /\ TypedQueues'
  BY Parts DEF Calm, TypedTable, TypedQueues, books, Current, Decoders
<1>2. TypedStream'
  <2>1. UNCHANGED <<pictures, references>> /\ (picture' = picture \/ picture' = NoPicture)
    BY DEF Calm
  <2>2. NoPicture \in Pictures
    BY DEF NoPicture, Pictures
  <2>3. TypedStream
    BY Parts
  <2>4. CASE picture' = picture
    BY <2>1, <2>3, <2>4 DEF TypedStream
  <2>5. CASE picture' = NoPicture
    <3>1. /\ NoPicture.n = 0 /\ NoPicture.list = {} /\ NoPicture.buffer = None
          /\ NoPicture.last = FALSE /\ NoPicture.then = "idle"
      BY DEF NoPicture
    <3>2. picture'.n \in 0..pictures' /\ picture'.list \subseteq 1..pictures'
      BY <2>1, <2>3, <2>5, <3>1 DEF TypedStream
    <3>3. pictures' \in Nat /\ references' \subseteq 1..pictures'
      BY <2>1, <2>3 DEF TypedStream
    <3>4. picture' \in Pictures /\ picture'.buffer \in Buffers \cup {None}
      BY <2>2, <2>5, <3>1
    <3>5. picture'.last \in BOOLEAN /\ picture'.then \in {"idle", "buffer"}
      BY <2>5, <3>1
    <3> QED
      BY <3>2, <3>3, <3>4, <3>5 DEF TypedStream
  <2> QED
    BY <2>1, <2>4, <2>5
<1>3. MapSound'
  BY Parts, CalmMap DEF Calm, books, TypedStream
<1>4. Accounts'
  BY CalmAccounts DEF Calm
<1> QED
  BY <1>1, <1>2, <1>3, <1>4 DEF RInv, Typed, Control, Mapped

LEMMA RCallPartial ==
    ASSUME RInv, CallOutputPartialDecodeBuffers
    PROVE  RInv'
<1>1. /\ pc["PtoD"] = "idle" /\ Current # None /\ picture' = NoPicture
      /\ pc' = [pc EXCEPT !["PtoD"] = "partial"]
      /\ UNCHANGED <<books, Current, context, pictures, references>>
  BY DEF CallOutputPartialDecodeBuffers, books, table, output, mme, marking, stream,
         threads, Partial, Current, Goto
<1>2. PICK l : l = "partial" /\ pc' = [pc EXCEPT !["PtoD"] = l]
  BY <1>1
<1>3. /\ pc' = [u \in Threads |-> pc'[u]] /\ pc'["PtoD"] = l
      /\ pc'["MME"] = pc["MME"] /\ pc'["drain"] = pc["drain"]
  BY <1>2, PtoDMoves
<1>4. Calm
  BY <1>1, <1>2, <1>3, Parts DEF Calm, Decoders, Turns, TypedQueues, Current, books
<1>5. TypedSteps' /\ Turns' /\ Holding' /\ Discards'
  BY <1>1, <1>2, <1>3, Parts DEF TypedSteps, Turns, Holding, Discards, GivenUp, Decoders, books,
     PtoDSteps, MMESteps, DrainSteps
<1>6. CurrentOpen'
  BY <1>1, <1>2, <1>3, Parts DEF CurrentOpen, Preparation, Closing, GivingUp, Decoders, books
<1>7. Preparation'
  BY <1>1, <1>2, <1>3, Parts
  DEF Preparation, CurrentOpen, Closing, Turns, GivingUp, Decoders, books
<1>8. CurrentMapped' /\ NotMappedYet'
  BY <1>1, <1>2, <1>3, Parts DEF CurrentMapped, NotMappedYet, CurrentOpen, Closing, Turns, GivingUp,
     Decoders, TypedStream, books, Partial, NoPicture
<1> QED
  BY <1>4, <1>5, <1>6, <1>7, <1>8, CalmStep

LEMMA RPartialTestPtoD ==
    ASSUME RInv, Serialized, PartialTest("PtoD")
    PROVE  RInv'
<1>1. /\ pc["PtoD"] = "partial" /\ pc["drain"] \notin {"partialOutput", "partialClear"}
      /\ pc' = [pc EXCEPT !["PtoD"] = IF Current = None THEN picture.then ELSE "partialOutput"]
      /\ UNCHANGED <<books, Current, context, picture, pictures, references>>
  BY DEF PartialTest, Then, Alone, books, table, output, mme, marking, stream,
         threads, Partial, Current, Goto
<1>2. PICK l : /\ l \in {"idle", "buffer", "partialOutput"} /\ pc' = [pc EXCEPT !["PtoD"] = l]
               /\ l = "partialOutput" => Current # None
               /\ l = "buffer" => picture.then = "buffer"
  BY <1>1, Parts DEF TypedStream
<1>3. /\ pc' = [u \in Threads |-> pc'[u]] /\ pc'["PtoD"] = l
      /\ pc'["MME"] = pc["MME"] /\ pc'["drain"] = pc["drain"]
  BY <1>2, PtoDMoves
<1>4. Calm
  BY <1>1, <1>2, <1>3, Parts DEF Calm, Decoders, Turns, TypedQueues, Current, books
<1>5. TypedSteps' /\ Turns' /\ Holding' /\ Discards'
  BY <1>1, <1>2, <1>3, Parts DEF TypedSteps, Turns, Holding, Discards, GivenUp, Decoders, books,
     PtoDSteps, MMESteps, DrainSteps
<1>6. CurrentOpen'
  BY <1>1, <1>2, <1>3, Parts DEF CurrentOpen, Preparation, Closing, GivingUp, Decoders, books
<1>7. Preparation'
  BY <1>1, <1>2, <1>3, Parts
  DEF Preparation, CurrentOpen, Closing, Turns, GivingUp, Decoders, books
<1>8. CurrentMapped' /\ NotMappedYet'
  BY <1>1, <1>2, <1>3, Parts DEF CurrentMapped, NotMappedYet, CurrentOpen, Closing, Turns, GivingUp,
     Decoders, TypedStream, books, Partial, NoPicture
<1> QED
  BY <1>4, <1>5, <1>6, <1>7, <1>8, CalmStep

LEMMA RPartialTestDrain ==
    ASSUME RInv, Serialized, PartialTest("drain")
    PROVE  RInv'
<1>1. /\ pc["drain"] = "partial" /\ pc["PtoD"] = "idle"
      /\ pc' = [pc EXCEPT !["drain"] = IF Current = None THEN "insert" ELSE "partialOutput"]
      /\ UNCHANGED <<books, Current, context, picture, pictures, references>>
  BY DEF PartialTest, Then, Alone, books, table, output, mme, marking, stream,
         threads, Partial, Current, Goto
<1>2. PICK l : /\ l = (IF Current = None THEN "insert" ELSE "partialOutput")
            /\ pc' = [pc EXCEPT !["drain"] = l]
  BY <1>1
<1>3. /\ pc' = [u \in Threads |-> pc'[u]] /\ pc'["drain"] = l
      /\ pc'["PtoD"] = pc["PtoD"] /\ pc'["MME"] = pc["MME"]
  BY <1>2, DrainMoves
<1>4. Calm
  BY <1>1, <1>2, <1>3, Parts DEF Calm, Decoders, Turns, TypedQueues, Current, books
<1>5. TypedSteps' /\ Turns' /\ Holding' /\ Discards'
  BY <1>1, <1>2, <1>3, Parts DEF TypedSteps, Turns, Holding, Discards, GivenUp, Decoders, books,
     PtoDSteps, MMESteps, DrainSteps
<1>6. CurrentOpen'
  BY <1>1, <1>2, <1>3, Parts DEF CurrentOpen, Preparation, Closing, GivingUp, Decoders, books
<1>7. Preparation'
  BY <1>1, <1>2, <1>3, Parts
  DEF Preparation, CurrentOpen, Closing, Turns, GivingUp, Decoders, books
<1>8. CurrentMapped' /\ NotMappedYet'
  BY <1>1, <1>2, <1>3, Parts DEF CurrentMapped, NotMappedYet, CurrentOpen, Closing, Turns, GivingUp,
     Decoders, TypedStream, books, Partial, NoPicture
<1> QED
  BY <1>4, <1>5, <1>6, <1>7, <1>8, CalmStep

LEMMA RPartialClearPtoD ==
    ASSUME RInv, PartialClear("PtoD")
    PROVE  RInv'
<1>1. /\ pc["PtoD"] = "partialClear" /\ Current' = None
      /\ pc' = [pc EXCEPT !["PtoD"] = picture.then]
      /\ UNCHANGED <<books, context, picture, pictures, references>>
  BY DEF PartialClear, Then, books, table, output, mme, marking, stream,
         threads, Partial, Current, Goto
<1>2. PICK l : /\ l \in {"idle", "buffer"} /\ pc' = [pc EXCEPT !["PtoD"] = l]
               /\ l = "buffer" => picture.then = "buffer"
  BY <1>1, Parts DEF TypedStream
<1>3. /\ pc' = [u \in Threads |-> pc'[u]] /\ pc'["PtoD"] = l
      /\ pc'["MME"] = pc["MME"] /\ pc'["drain"] = pc["drain"]
  BY <1>2, PtoDMoves
<1>4. Calm
  BY <1>1, <1>2, <1>3, Parts DEF Calm, Decoders, Turns, TypedQueues, Current, books
<1>5. TypedSteps' /\ Turns' /\ Holding' /\ Discards'
  BY <1>1, <1>2, <1>3, Parts DEF TypedSteps, Turns, Holding, Discards, GivenUp, Decoders, books,
     PtoDSteps, MMESteps, DrainSteps
<1>6. CurrentOpen'
  BY <1>1, <1>2, <1>3, Parts DEF CurrentOpen, Preparation, Closing, GivingUp, Decoders, books
<1>7. Preparation'
  BY <1>1, <1>2, <1>3, Parts
  DEF Preparation, CurrentOpen, Closing, Turns, GivingUp, Decoders, books
<1>8. CurrentMapped' /\ NotMappedYet'
  BY <1>1, <1>2, <1>3, Parts DEF CurrentMapped, NotMappedYet, CurrentOpen, Closing, Turns, GivingUp,
     Decoders, TypedStream, books, Partial, NoPicture
<1> QED
  BY <1>4, <1>5, <1>6, <1>7, <1>8, CalmStep

LEMMA RPartialClearDrain ==
    ASSUME RInv, PartialClear("drain")
    PROVE  RInv'
<1>1. /\ pc["drain"] = "partialClear" /\ Current' = None
      /\ pc' = [pc EXCEPT !["drain"] = "insert"]
      /\ UNCHANGED <<books, context, picture, pictures, references>>
  BY DEF PartialClear, Then, books, table, output, mme, marking, stream,
         threads, Partial, Current, Goto
<1>2. PICK l : l = "insert" /\ pc' = [pc EXCEPT !["drain"] = l]
  BY <1>1
<1>3. /\ pc' = [u \in Threads |-> pc'[u]] /\ pc'["drain"] = l
      /\ pc'["PtoD"] = pc["PtoD"] /\ pc'["MME"] = pc["MME"]
  BY <1>2, DrainMoves
<1>4. Calm
  BY <1>1, <1>2, <1>3, Parts DEF Calm, Decoders, Turns, TypedQueues, Current, books
<1>5. TypedSteps' /\ Turns' /\ Holding' /\ Discards'
  BY <1>1, <1>2, <1>3, Parts DEF TypedSteps, Turns, Holding, Discards, GivenUp, Decoders, books,
     PtoDSteps, MMESteps, DrainSteps
<1>6. CurrentOpen'
  BY <1>1, <1>2, <1>3, Parts DEF CurrentOpen, Preparation, Closing, GivingUp, Decoders, books
<1>7. Preparation'
  BY <1>1, <1>2, <1>3, Parts
  DEF Preparation, CurrentOpen, Closing, Turns, GivingUp, Decoders, books
<1>8. CurrentMapped' /\ NotMappedYet'
  BY <1>1, <1>2, <1>3, Parts DEF CurrentMapped, NotMappedYet, CurrentOpen, Closing, Turns, GivingUp,
     Decoders, TypedStream, books, Partial, NoPicture
<1> QED
  BY <1>4, <1>5, <1>6, <1>7, <1>8, CalmStep

LEMMA RFillFails ==
    ASSUME RInv, FillFails
    PROVE  RInv'
<1>1. /\ pc["PtoD"] = "launch"
      /\ pc' = [pc EXCEPT !["PtoD"] = "refs"]
      /\ UNCHANGED <<books, Current, context, picture, pictures, references>>
  BY DEF FillFails, books, table, output, mme, marking, stream,
         threads, Partial, Current, Goto
<1>2. PICK l : l = "refs" /\ pc' = [pc EXCEPT !["PtoD"] = l]
  BY <1>1
<1>3. /\ pc' = [u \in Threads |-> pc'[u]] /\ pc'["PtoD"] = l
      /\ pc'["MME"] = pc["MME"] /\ pc'["drain"] = pc["drain"]
  BY <1>2, PtoDMoves
<1>4. Calm
  BY <1>1, <1>2, <1>3, Parts DEF Calm, Decoders, Turns, TypedQueues, Current, books
<1>5. TypedSteps' /\ Turns' /\ Holding' /\ Discards'
  BY <1>1, <1>2, <1>3, Parts DEF TypedSteps, Turns, Holding, Discards, GivenUp, Decoders, books,
     PtoDSteps, MMESteps, DrainSteps
<1>6. CurrentOpen'
  BY <1>1, <1>2, <1>3, Parts DEF CurrentOpen, Preparation, Closing, GivingUp, Decoders, books
<1>7. Preparation'
  BY <1>1, <1>2, <1>3, Parts
  DEF Preparation, CurrentOpen, Closing, Turns, GivingUp, Decoders, books
<1>8. CurrentMapped' /\ NotMappedYet'
  BY <1>1, <1>2, <1>3, Parts DEF CurrentMapped, NotMappedYet, CurrentOpen, Closing, Turns, GivingUp,
     Decoders, TypedStream, books, Partial, NoPicture
<1> QED
  BY <1>4, <1>5, <1>6, <1>7, <1>8, CalmStep

LEMMA RSendFails ==
    ASSUME RInv, SendFails
    PROVE  RInv'
<1>1. /\ pc["PtoD"] = "send"
      /\ pc' = [pc EXCEPT !["PtoD"] = "complete"]
      /\ UNCHANGED <<books, Current, context, picture, pictures, references>>
  BY DEF SendFails, books, table, output, mme, marking, stream,
         threads, Partial, Current, Goto
<1>2. PICK l : l = "complete" /\ pc' = [pc EXCEPT !["PtoD"] = l]
  BY <1>1
<1>3. /\ pc' = [u \in Threads |-> pc'[u]] /\ pc'["PtoD"] = l
      /\ pc'["MME"] = pc["MME"] /\ pc'["drain"] = pc["drain"]
  BY <1>2, PtoDMoves
<1>4. Calm
  BY <1>1, <1>2, <1>3, Parts DEF Calm, Decoders, Turns, TypedQueues, Current, books
<1>5. TypedSteps' /\ Turns' /\ Holding' /\ Discards'
  BY <1>1, <1>2, <1>3, Parts DEF TypedSteps, Turns, Holding, Discards, GivenUp, Decoders, books,
     PtoDSteps, MMESteps, DrainSteps
<1>6. CurrentOpen'
  BY <1>1, <1>2, <1>3, Parts DEF CurrentOpen, Preparation, Closing, GivingUp, Decoders, books
<1>7. Preparation'
  BY <1>1, <1>2, <1>3, Parts
  DEF Preparation, CurrentOpen, Closing, Turns, GivingUp, Decoders, books
<1>8. CurrentMapped' /\ NotMappedYet'
  BY <1>1, <1>2, <1>3, Parts DEF CurrentMapped, NotMappedYet, CurrentOpen, Closing, Turns, GivingUp,
     Decoders, TypedStream, books, Partial, NoPicture
<1> QED
  BY <1>4, <1>5, <1>6, <1>7, <1>8, CalmStep

LEMMA RFinish ==
    ASSUME RInv, Finish
    PROVE  RInv'
<1>1. /\ pc["PtoD"] = "finish" /\ Current' = (IF picture.last THEN None ELSE Current)
      /\ pc' = [pc EXCEPT !["PtoD"] = "idle"] /\ picture' = NoPicture
      /\ UNCHANGED <<books, context, pictures, references>>
  BY DEF Finish, books, table, output, mme, marking, stream,
         threads, Partial, Current, Goto
<1>2. PICK l : l = "idle" /\ pc' = [pc EXCEPT !["PtoD"] = l]
  BY <1>1
<1>3. /\ pc' = [u \in Threads |-> pc'[u]] /\ pc'["PtoD"] = l
      /\ pc'["MME"] = pc["MME"] /\ pc'["drain"] = pc["drain"]
  BY <1>2, PtoDMoves
<1>4. Calm
  BY <1>1, <1>2, <1>3, Parts DEF Calm, Decoders, Turns, TypedQueues, Current, books
<1>5. TypedSteps' /\ Turns' /\ Holding' /\ Discards'
  BY <1>1, <1>2, <1>3, Parts DEF TypedSteps, Turns, Holding, Discards, GivenUp, Decoders, books,
     PtoDSteps, MMESteps, DrainSteps
<1>6. CurrentOpen'
  BY <1>1, <1>2, <1>3, Parts DEF CurrentOpen, Preparation, Closing, GivingUp, Decoders, books
<1>7. Preparation'
  BY <1>1, <1>2, <1>3, Parts
  DEF Preparation, CurrentOpen, Closing, Turns, GivingUp, Decoders, books
<1>8. CurrentMapped' /\ NotMappedYet'
  BY <1>1, <1>2, <1>3, Parts DEF CurrentMapped, NotMappedYet, CurrentOpen, Closing, Turns, GivingUp,
     Decoders, TypedStream, books, Partial, NoPicture
<1> QED
  BY <1>4, <1>5, <1>6, <1>7, <1>8, CalmStep

LEMMA RComparePtoD ==
    ASSUME RInv, Compare("PtoD")
    PROVE  RInv'
<1>1. /\ pc["PtoD"] = "compare"
      /\ Current' = (IF Current = context["PtoD"].buffer THEN None ELSE Current)
      /\ pc' = [pc EXCEPT !["PtoD"] = "refs"]
      /\ UNCHANGED <<books, context, picture, pictures, references>>
  BY DEF Compare, Invalidated, books, table, output, mme, marking, stream,
         threads, Partial, Current, Goto
<1>2. PICK l : l = "refs" /\ pc' = [pc EXCEPT !["PtoD"] = l]
  BY <1>1
<1>3. /\ pc' = [u \in Threads |-> pc'[u]] /\ pc'["PtoD"] = l
      /\ pc'["MME"] = pc["MME"] /\ pc'["drain"] = pc["drain"]
  BY <1>2, PtoDMoves
<1>4. Calm
  BY <1>1, <1>2, <1>3, Parts DEF Calm, Decoders, Turns, TypedQueues, Current, books
<1>5. TypedSteps' /\ Turns' /\ Holding' /\ Discards'
  BY <1>1, <1>2, <1>3, Parts DEF TypedSteps, Turns, Holding, Discards, GivenUp, Decoders, books,
     PtoDSteps, MMESteps, DrainSteps
<1>6. CurrentOpen'
  BY <1>1, <1>2, <1>3, Parts DEF CurrentOpen, Preparation, Closing, GivingUp, Decoders, books
<1>7. Preparation'
  BY <1>1, <1>2, <1>3, Parts
  DEF Preparation, CurrentOpen, Closing, Turns, GivingUp, Decoders, books
<1>8. CurrentMapped' /\ NotMappedYet'
  BY <1>1, <1>2, <1>3, Parts DEF CurrentMapped, NotMappedYet, CurrentOpen, Closing, Turns, GivingUp,
     Decoders, TypedStream, books, Partial, NoPicture
<1> QED
  BY <1>4, <1>5, <1>6, <1>7, <1>8, CalmStep

LEMMA RTestPtoD ==
    ASSUME RInv, TestMarkerFramePassOn("PtoD")
    PROVE  RInv'
<1>1. /\ pc["PtoD"] = "test"
      /\ pc' = [pc EXCEPT !["PtoD"] = IF MarkerBuffer # None /\ Completed >= PassOnMarkerBufferAt
                                   THEN "take" ELSE "idle"]
      /\ UNCHANGED <<books, Current, context, picture, pictures, references>>
  BY DEF TestMarkerFramePassOn, books, table, output, mme, marking, stream,
         threads, Partial, Current, Goto
<1>2. PICK l : l \in {"take", "idle"} /\ pc' = [pc EXCEPT !["PtoD"] = l]
  BY <1>1
<1>3. /\ pc' = [u \in Threads |-> pc'[u]] /\ pc'["PtoD"] = l
      /\ pc'["MME"] = pc["MME"] /\ pc'["drain"] = pc["drain"]
  BY <1>2, PtoDMoves
<1>4. Calm
  BY <1>1, <1>2, <1>3, Parts DEF Calm, Decoders, Turns, TypedQueues, Current, books
<1>5. TypedSteps' /\ Turns' /\ Holding' /\ Discards'
  BY <1>1, <1>2, <1>3, Parts DEF TypedSteps, Turns, Holding, Discards, GivenUp, Decoders, books,
     PtoDSteps, MMESteps, DrainSteps
<1>6. CurrentOpen'
  BY <1>1, <1>2, <1>3, Parts DEF CurrentOpen, Preparation, Closing, GivingUp, Decoders, books
<1>7. Preparation'
  BY <1>1, <1>2, <1>3, Parts
  DEF Preparation, CurrentOpen, Closing, Turns, GivingUp, Decoders, books
<1>8. CurrentMapped' /\ NotMappedYet'
  BY <1>1, <1>2, <1>3, Parts DEF CurrentMapped, NotMappedYet, CurrentOpen, Closing, Turns, GivingUp,
     Decoders, TypedStream, books, Partial, NoPicture
<1> QED
  BY <1>4, <1>5, <1>6, <1>7, <1>8, CalmStep

LEMMA RCompareMME ==
    ASSUME RInv, Compare("MME")
    PROVE  RInv'
<1>1. /\ pc["MME"] = "compare"
      /\ Current' = (IF Current = context["MME"].buffer THEN None ELSE Current)
      /\ pc' = [pc EXCEPT !["MME"] = "refs"]
      /\ UNCHANGED <<books, context, picture, pictures, references>>
  BY DEF Compare, Invalidated, books, table, output, mme, marking, stream,
         threads, Partial, Current, Goto
<1>2. PICK l : l = "refs" /\ pc' = [pc EXCEPT !["MME"] = l]
  BY <1>1
<1>3. /\ pc' = [u \in Threads |-> pc'[u]] /\ pc'["MME"] = l
      /\ pc'["PtoD"] = pc["PtoD"] /\ pc'["drain"] = pc["drain"]
  BY <1>2, MMEMoves
<1>4. Calm
  BY <1>1, <1>2, <1>3, Parts DEF Calm, Decoders, Turns, TypedQueues, Current, books
<1>5. TypedSteps' /\ Turns' /\ Holding' /\ Discards'
  BY <1>1, <1>2, <1>3, Parts DEF TypedSteps, Turns, Holding, Discards, GivenUp, Decoders, books,
     PtoDSteps, MMESteps, DrainSteps
<1>6. CurrentOpen'
  BY <1>1, <1>2, <1>3, Parts DEF CurrentOpen, Preparation, Closing, GivingUp, Decoders, books
<1>7. Preparation'
  BY <1>1, <1>2, <1>3, Parts
  DEF Preparation, CurrentOpen, Closing, Turns, GivingUp, Decoders, books
<1>8. CurrentMapped' /\ NotMappedYet'
  BY <1>1, <1>2, <1>3, Parts DEF CurrentMapped, NotMappedYet, CurrentOpen, Closing, Turns, GivingUp,
     Decoders, TypedStream, books, Partial, NoPicture
<1> QED
  BY <1>4, <1>5, <1>6, <1>7, <1>8, CalmStep

LEMMA RTestMME ==
    ASSUME RInv, TestMarkerFramePassOn("MME")
    PROVE  RInv'
<1>1. /\ pc["MME"] = "test"
      /\ pc' = [pc EXCEPT !["MME"] = IF MarkerBuffer # None /\ Completed >= PassOnMarkerBufferAt
                                   THEN "take" ELSE "idle"]
      /\ UNCHANGED <<books, Current, context, picture, pictures, references>>
  BY DEF TestMarkerFramePassOn, books, table, output, mme, marking, stream,
         threads, Partial, Current, Goto
<1>2. PICK l : l \in {"take", "idle"} /\ pc' = [pc EXCEPT !["MME"] = l]
  BY <1>1
<1>3. /\ pc' = [u \in Threads |-> pc'[u]] /\ pc'["MME"] = l
      /\ pc'["PtoD"] = pc["PtoD"] /\ pc'["drain"] = pc["drain"]
  BY <1>2, MMEMoves
<1>4. Calm
  BY <1>1, <1>2, <1>3, Parts DEF Calm, Decoders, Turns, TypedQueues, Current, books
<1>5. TypedSteps' /\ Turns' /\ Holding' /\ Discards'
  BY <1>1, <1>2, <1>3, Parts DEF TypedSteps, Turns, Holding, Discards, GivenUp, Decoders, books,
     PtoDSteps, MMESteps, DrainSteps
<1>6. CurrentOpen'
  BY <1>1, <1>2, <1>3, Parts DEF CurrentOpen, Preparation, Closing, GivingUp, Decoders, books
<1>7. Preparation'
  BY <1>1, <1>2, <1>3, Parts
  DEF Preparation, CurrentOpen, Closing, Turns, GivingUp, Decoders, books
<1>8. CurrentMapped' /\ NotMappedYet'
  BY <1>1, <1>2, <1>3, Parts DEF CurrentMapped, NotMappedYet, CurrentOpen, Closing, Turns, GivingUp,
     Decoders, TypedStream, books, Partial, NoPicture
<1> QED
  BY <1>4, <1>5, <1>6, <1>7, <1>8, CalmStep

LEMMA RReleasedPtoD ==
    ASSUME RInv, ContextReleased("PtoD")
    PROVE  RInv'
<1>1. /\ pc["PtoD"] = "refs" /\ context["PtoD"].refs = <<>> /\ picture' = NoPicture
      /\ pc' = [pc EXCEPT !["PtoD"] = IF picture.kind # "second" THEN "partial" ELSE "idle"]
      /\ context' = [context EXCEPT !["PtoD"] = NoContext]
      /\ UNCHANGED <<books, Current, pictures, references>>
  BY DEF ContextReleased, books, table, output, mme, marking, stream,
         threads, Partial, Current, Goto
<1>2. PICK l : l \in {"partial", "idle"} /\ pc' = [pc EXCEPT !["PtoD"] = l]
  BY <1>1
<1>a. /\ context'["PtoD"] = NoContext /\ context'["MME"] = context["MME"]
      /\ \A t \in Decoders : context'[t].refs = context[t].refs
  BY <1>1, Parts DEF TypedQueues, Decoders, NoContext
<1>3. /\ pc' = [u \in Threads |-> pc'[u]] /\ pc'["PtoD"] = l
      /\ pc'["MME"] = pc["MME"] /\ pc'["drain"] = pc["drain"]
  BY <1>2, PtoDMoves
<1>4. Calm
  BY <1>1, <1>2, <1>a, <1>3, Parts DEF Calm, Decoders, Turns, TypedQueues, Current, books
<1>5. TypedSteps' /\ Turns' /\ Holding' /\ Discards'
  BY <1>1, <1>2, <1>a, <1>3, Parts DEF TypedSteps, Turns, Holding, Discards, GivenUp, Decoders, books,
     PtoDSteps, MMESteps, DrainSteps
<1>6. CurrentOpen'
  BY <1>1, <1>2, <1>a, <1>3, Parts DEF CurrentOpen, Preparation, Closing, GivingUp, Decoders, books
<1>7. Preparation'
  BY <1>1, <1>2, <1>a, <1>3, Parts
  DEF Preparation, CurrentOpen, Closing, Turns, GivingUp, Decoders, books
<1>8. CurrentMapped' /\ NotMappedYet'
  BY <1>1, <1>2, <1>a, <1>3, Parts DEF CurrentMapped, NotMappedYet, CurrentOpen, Closing, Turns, GivingUp,
     Decoders, TypedStream, books, Partial, NoPicture
<1> QED
  BY <1>4, <1>5, <1>6, <1>7, <1>8, CalmStep

LEMMA RReleasedMME ==
    ASSUME RInv, ContextReleased("MME")
    PROVE  RInv'
<1>1. /\ pc["MME"] = "refs" /\ context["MME"].refs = <<>> /\ picture' = picture
      /\ pc' = [pc EXCEPT !["MME"] = "test"]
      /\ context' = [context EXCEPT !["MME"] = NoContext]
      /\ UNCHANGED <<books, Current, pictures, references>>
  BY DEF ContextReleased, books, table, output, mme, marking, stream,
         threads, Partial, Current, Goto
<1>2. PICK l : l = "test" /\ pc' = [pc EXCEPT !["MME"] = l]
  BY <1>1
<1>a. /\ context'["MME"] = NoContext /\ context'["PtoD"] = context["PtoD"]
      /\ \A t \in Decoders : context'[t].refs = context[t].refs
  BY <1>1, Parts DEF TypedQueues, Decoders, NoContext
<1>3. /\ pc' = [u \in Threads |-> pc'[u]] /\ pc'["MME"] = l
      /\ pc'["PtoD"] = pc["PtoD"] /\ pc'["drain"] = pc["drain"]
  BY <1>2, MMEMoves
<1>4. Calm
  BY <1>1, <1>2, <1>a, <1>3, Parts DEF Calm, Decoders, Turns, TypedQueues, Current, books
<1>5. TypedSteps' /\ Turns' /\ Holding' /\ Discards'
  BY <1>1, <1>2, <1>a, <1>3, Parts DEF TypedSteps, Turns, Holding, Discards, GivenUp, Decoders, books,
     PtoDSteps, MMESteps, DrainSteps
<1>6. CurrentOpen'
  BY <1>1, <1>2, <1>a, <1>3, Parts DEF CurrentOpen, Preparation, Closing, GivingUp, Decoders, books
<1>7. Preparation'
  BY <1>1, <1>2, <1>a, <1>3, Parts
  DEF Preparation, CurrentOpen, Closing, Turns, GivingUp, Decoders, books
<1>8. CurrentMapped' /\ NotMappedYet'
  BY <1>1, <1>2, <1>a, <1>3, Parts DEF CurrentMapped, NotMappedYet, CurrentOpen, Closing, Turns, GivingUp,
     Decoders, TypedStream, books, Partial, NoPicture
<1> QED
  BY <1>4, <1>5, <1>6, <1>7, <1>8, CalmStep

LEMMA RDiscardStart ==
    ASSUME RInv, DrainStart(TRUE)
    PROVE  RInv'
<1>1. /\ pc["drain"] = "idle"
      /\ pc' = [pc EXCEPT !["drain"] = "until"]
      /\ UNCHANGED <<books, Current, context, picture, pictures, references>>
  BY DEF DrainStart, books, table, output, mme, marking, stream,
         threads, Partial, Current, Goto
<1>2. PICK l : l = "until" /\ pc' = [pc EXCEPT !["drain"] = l]
  BY <1>1
<1>3. /\ pc' = [u \in Threads |-> pc'[u]] /\ pc'["drain"] = l
      /\ pc'["PtoD"] = pc["PtoD"] /\ pc'["MME"] = pc["MME"]
  BY <1>2, DrainMoves
<1>4. Calm
  BY <1>1, <1>2, <1>3, Parts DEF Calm, Decoders, Turns, TypedQueues, Current, books
<1>5. TypedSteps' /\ Turns' /\ Holding' /\ Discards'
  BY <1>1, <1>2, <1>3, Parts DEF TypedSteps, Turns, Holding, Discards, GivenUp, Decoders, books,
     PtoDSteps, MMESteps, DrainSteps
<1>6. CurrentOpen'
  BY <1>1, <1>2, <1>3, Parts DEF CurrentOpen, Preparation, Closing, GivingUp, Decoders, books
<1>7. Preparation'
  BY <1>1, <1>2, <1>3, Parts
  DEF Preparation, CurrentOpen, Closing, Turns, GivingUp, Decoders, books
<1>8. CurrentMapped' /\ NotMappedYet'
  BY <1>1, <1>2, <1>3, Parts DEF CurrentMapped, NotMappedYet, CurrentOpen, Closing, Turns, GivingUp,
     Decoders, TypedStream, books, Partial, NoPicture
<1> QED
  BY <1>4, <1>5, <1>6, <1>7, <1>8, CalmStep

LEMMA RUntil ==
    ASSUME RInv, DiscardQueuedDecodes
    PROVE  RInv'
<1>1. /\ pc["drain"] = "until"
      /\ pc' = [pc EXCEPT !["drain"] = "partial"]
      /\ UNCHANGED <<books, Current, context, picture, pictures, references>>
  BY DEF DiscardQueuedDecodes, books, table, output, mme, marking, stream,
         threads, Partial, Current, Goto
<1>2. PICK l : l = "partial" /\ pc' = [pc EXCEPT !["drain"] = l]
  BY <1>1
<1>3. /\ pc' = [u \in Threads |-> pc'[u]] /\ pc'["drain"] = l
      /\ pc'["PtoD"] = pc["PtoD"] /\ pc'["MME"] = pc["MME"]
  BY <1>2, DrainMoves
<1>4. Calm
  BY <1>1, <1>2, <1>3, Parts DEF Calm, Decoders, Turns, TypedQueues, Current, books
<1>5. TypedSteps' /\ Turns' /\ Holding' /\ Discards'
  BY <1>1, <1>2, <1>3, Parts DEF TypedSteps, Turns, Holding, Discards, GivenUp, Decoders, books,
     PtoDSteps, MMESteps, DrainSteps
<1>6. CurrentOpen'
  BY <1>1, <1>2, <1>3, Parts DEF CurrentOpen, Preparation, Closing, GivingUp, Decoders, books
<1>7. Preparation'
  BY <1>1, <1>2, <1>3, Parts
  DEF Preparation, CurrentOpen, Closing, Turns, GivingUp, Decoders, books
<1>8. CurrentMapped' /\ NotMappedYet'
  BY <1>1, <1>2, <1>3, Parts DEF CurrentMapped, NotMappedYet, CurrentOpen, Closing, Turns, GivingUp,
     Decoders, TypedStream, books, Partial, NoPicture
<1> QED
  BY <1>4, <1>5, <1>6, <1>7, <1>8, CalmStep

LEMMA RInsert ==
    ASSUME RInv, DrainInsert
    PROVE  RInv'
<1>1. /\ pc["drain"] = "insert"
      /\ pc' = [pc EXCEPT !["drain"] = "idle"]
      /\ UNCHANGED <<books, Current, context, picture, pictures, references>>
  BY DEF DrainInsert, books, table, output, mme, marking, stream,
         threads, Partial, Current, Goto
<1>2. PICK l : l = "idle" /\ pc' = [pc EXCEPT !["drain"] = l]
  BY <1>1
<1>3. /\ pc' = [u \in Threads |-> pc'[u]] /\ pc'["drain"] = l
      /\ pc'["PtoD"] = pc["PtoD"] /\ pc'["MME"] = pc["MME"]
  BY <1>2, DrainMoves
<1>4. Calm
  BY <1>1, <1>2, <1>3, Parts DEF Calm, Decoders, Turns, TypedQueues, Current, books
<1>5. TypedSteps' /\ Turns' /\ Holding' /\ Discards'
  BY <1>1, <1>2, <1>3, Parts DEF TypedSteps, Turns, Holding, Discards, GivenUp, Decoders, books,
     PtoDSteps, MMESteps, DrainSteps
<1>6. CurrentOpen'
  BY <1>1, <1>2, <1>3, Parts DEF CurrentOpen, Preparation, Closing, GivingUp, Decoders, books
<1>7. Preparation'
  BY <1>1, <1>2, <1>3, Parts
  DEF Preparation, CurrentOpen, Closing, Turns, GivingUp, Decoders, books
<1>8. CurrentMapped' /\ NotMappedYet'
  BY <1>1, <1>2, <1>3, Parts DEF CurrentMapped, NotMappedYet, CurrentOpen, Closing, Turns, GivingUp,
     Decoders, TypedStream, books, Partial, NoPicture
<1> QED
  BY <1>4, <1>5, <1>6, <1>7, <1>8, CalmStep

-----------------------------------------------------------------------------
(* A reference goes *)

\* Nothing counted, nothing there.
LEMMA SlotsNone ==
    ASSUME NEW s \in Seq(Decode), NEW b, Cardinality(Slots(s, b)) = 0
    PROVE  \A k \in DOMAIN s : \A j \in DOMAIN s[k].refs : s[k].refs[j][2] # b
<1>1. Slots(s, b) = {}
  BY SlotsFinite, FS_EmptySet
<1> QED
  BY <1>1, InSlots

LEMMA TimesNone ==
    ASSUME NEW refs \in References, NEW b, Times(refs, b) = 0
    PROVE  \A j \in DOMAIN refs : refs[j][2] # b
<1> DEFINE J == {j \in DOMAIN refs : refs[j][2] = b}
<1>1. IsFiniteSet(J) /\ Cardinality(J) = 0
  BY TimesFinite DEF Times
<1>2. J = {}
  <2> HIDE DEF J
  <2> QED
    BY <1>1, FS_EmptySet
<1> QED
  BY <1>2

LEMMA TimesTail ==
    ASSUME NEW refs \in References, refs # <<>>, NEW b
    PROVE  /\ Tail(refs) \in References /\ Head(refs) \in Nat \X Buffers
           /\ Times(refs, b) = Times(Tail(refs), b) + Count(Head(refs)[2] = b)
           /\ \A j \in DOMAIN Tail(refs) : j + 1 \in DOMAIN refs /\ Tail(refs)[j] = refs[j + 1]
<1> DEFINE S == Nat \X Buffers
           E == {p \in S : p[2] = b}
<1>1. refs \in Seq(S) /\ Tail(refs) \in Seq(S) /\ Head(refs) \in S
  BY DEF References
<1>2. \A r \in Seq(S) : Times(r, b) = Cardinality(Places(r, E))
  <2> TAKE r \in Seq(S)
  <2>1. {i \in DOMAIN r : r[i][2] = b} = Places(r, E)
    BY DEF Places
  <2> QED
    BY <2>1 DEF Times
<1>3. \A j \in DOMAIN Tail(refs) : j + 1 \in DOMAIN refs /\ Tail(refs)[j] = refs[j + 1]
  BY <1>1
<1>4. Cardinality(Places(refs, E)) = Cardinality(Places(Tail(refs), E)) + Count(Head(refs) \in E)
  <2> HIDE DEF E, S
  <2> QED
    BY <1>1, PlacesTail
<1>5. Count(Head(refs) \in E) = Count(Head(refs)[2] = b)
  BY <1>1 DEF Count
<1> HIDE DEF E
<1> QED
  BY <1>1, <1>2, <1>3, <1>4, <1>5 DEF References

\* Whose own reference the codec holds.
LEMMA WhoDecodes ==
    ASSUME RInv
    PROVE  /\ Current # None /\ ~Closing => Current \in Buffers /\ Decoding(Current)
           /\ \A k \in DOMAIN commands : commands[k].buffer \in Buffers /\ Decoding(commands[k].buffer)
           /\ pc["PtoD"] \in {"send", "complete"} =>
                  context["PtoD"].buffer \in Buffers /\ Decoding(context["PtoD"].buffer)
           /\ \A t \in Decoders : pc[t] = "discard" =>
                  context[t].buffer \in Buffers /\ Decoding(context[t].buffer)
           /\ pc["PtoD"] \in {"buffer", "translate", "launch"} => ~Closing
<1>1. Typed
  BY Parts DEF Typed
<1>2. ASSUME NEW b \in Buffers, Pending(b) > 0
      PROVE  Decoding(b)
  <2>1. BufferState[b].DecodesInProgress > 0
    BY <1>2 DEF RInv, Accounts, Account
  <2>2. BufferState[b].Buffer
    BY <2>1, <1>1, Numbers DEF RInv, Accounts, Account, Unused
  <2> QED
    BY <2>1, <2>2 DEF Decoding
<1>3. Current # None /\ ~Closing => Current \in Buffers /\ Decoding(Current)
  BY Parts DEF CurrentOpen, TypedTable, Decoding
<1>4. commands \in Seq(Decode)
  BY Parts DEF TypedQueues
<1>5. ASSUME NEW k \in DOMAIN commands
      PROVE  commands[k].buffer \in Buffers /\ Decoding(commands[k].buffer)
  <2> DEFINE b == commands[k].buffer
  <2>1. commands[k] \in Decode
    BY <1>4
  <2>2. b \in Buffers
    BY <2>1 DEF Decode
  <2>3. Pending(b) # 0
    <3> SUFFICES ASSUME Pending(b) = 0 PROVE FALSE
      OBVIOUS
    <3>1. commands[k].buffer # b
      <4> HIDE DEF b
      <4> QED
        BY <2>2, <1>1, NonePending
    <3> QED
      BY <3>1
  <2>4. Pending(b) > 0
    <3> HIDE DEF b
    <3> QED
      BY <2>2, <2>3, <1>1, Numbers
  <2> QED
    BY <1>2, <2>2, <2>4
<1>6. ASSUME pc["PtoD"] \in {"send", "complete"}
      PROVE  context["PtoD"].buffer \in Buffers /\ Decoding(context["PtoD"].buffer)
  <2> DEFINE b == context["PtoD"].buffer
  <2>1. b \in Buffers
    BY <1>6, Parts DEF Holding, Decode
  <2>2. Sending(b)
    BY <1>6 DEF Sending
  <2>3. Pending(b) # 0
    BY <2>1, <2>2, <1>1, NonePending
  <2>4. Pending(b) > 0
    <3> HIDE DEF b
    <3> QED
      BY <2>1, <2>3, <1>1, Numbers
  <2> QED
    BY <1>2, <2>1, <2>4
<1>7. \A t \in Decoders : pc[t] = "discard" =>
          context[t].buffer \in Buffers /\ Decoding(context[t].buffer)
  BY Parts DEF Holding, Decode, Decoding, Decoders
<1>8. pc["PtoD"] \in {"buffer", "translate", "launch"} => ~Closing
  BY Parts DEF Closing, Turns
<1> QED
  BY <1>3, <1>5, <1>6, <1>7, <1>8

\* A step that moves no thread and leaves the buffers alone into which is decoded.
LEMMA KeptControl ==
    ASSUME RInv, UNCHANGED <<pc, picture, Current>>,
           \A t \in Decoders : pc[t] # "refs" => context'[t] = context[t],
           \A b \in Buffers : ~BufferState[b].Buffer => ~BufferState'[b].Buffer,
           \A b \in Buffers : Decoding(b) =>
               /\ BufferState'[b].Buffer = BufferState[b].Buffer
               /\ BufferState'[b].OutputOnDecodesComplete = BufferState[b].OutputOnDecodesComplete
               /\ BufferState'[b].DecodesInProgress = BufferState[b].DecodesInProgress
    PROVE  Control'
<1>1. Turns'
  BY Parts DEF Turns
<1>2. CurrentOpen'
  <2>1. Closing' <=> Closing
    BY DEF Closing
  <2>2. Current # None => (GivingUp(Current)' <=> GivingUp(Current))
    BY DEF GivingUp
  <2> QED
    BY <2>1, <2>2, WhoDecodes, Parts DEF CurrentOpen
<1>3. Preparation'
  <2>1. pc["PtoD"] = "map" => picture.buffer \in Buffers
    BY Parts DEF Preparation, TypedStream
  <2>2. \A b : GivingUp(b)' <=> GivingUp(b)
    BY DEF GivingUp
  <2>3. pc["PtoD"] # "refs" => context'["PtoD"] = context["PtoD"]
    BY DEF Decoders
  <2>4. pc["PtoD"] \in {"send", "complete"} =>
           BufferState'[context["PtoD"].buffer].OutputOnDecodesComplete
             = BufferState[context["PtoD"].buffer].OutputOnDecodesComplete
    BY WhoDecodes
  <2> QED
    BY <2>1, <2>2, <2>3, <2>4, Parts DEF Preparation
<1>4. Holding'
  BY Parts DEF Holding, Decoders
<1>5. Discards'
  BY WhoDecodes, Parts DEF Discards, GivenUp, Decoders
<1> QED
  BY <1>1, <1>2, <1>3, <1>4, <1>5 DEF Control

\* A step that takes entries out of the map of buffers that nobody decodes into
\* or names.
LEMMA KeptMap ==
    ASSUME RInv, UNCHANGED <<pc, picture, Current, commands, pictures>>,
           \A t \in Decoders : pc[t] # "refs" => context'[t] = context[t],
           \A t \in Decoders : context'[t].refs \in References,
           \A t \in Decoders : \A j \in DOMAIN context'[t].refs :
               \E i \in DOMAIN context[t].refs : context'[t].refs[j] = context[t].refs[i],
           map' \subseteq map,
           \A p \in map : \/ p \in map'
                          \/ /\ ~Decoding(p[2])
                             /\ Cardinality(Slots(commands, p[2])) = 0
                             /\ \A t \in Decoders : Times(context'[t].refs, p[2]) = 0
    PROVE  Mapped'
<1>1. commands \in Seq(Decode) /\ MapSound /\ CurrentMapped /\ NotMappedYet
  BY Parts DEF TypedQueues
<1>2. ASSUME NEW k \in DOMAIN commands
      PROVE  <<commands[k].n, commands[k].buffer>> \in map' /\ RefsMapped(commands[k])'
  <2>1. <<commands[k].n, commands[k].buffer>> \in map'
    BY <1>1, WhoDecodes DEF MapSound
  <2>2. ASSUME NEW i \in DOMAIN commands[k].refs PROVE commands[k].refs[i] \in map'
    <3>1. commands[k].refs[i] \in map
      BY <1>1 DEF MapSound, RefsMapped
    <3>2. Cardinality(Slots(commands, commands[k].refs[i][2])) # 0
      BY <1>1, SlotsNone
    <3> QED
      BY <3>1, <3>2
  <2> QED
    BY <2>1, <2>2 DEF RefsMapped
<1>3. ASSUME NEW t \in Decoders PROVE RefsMapped(context[t])'
  <2>1. ASSUME NEW j \in DOMAIN context'[t].refs PROVE context'[t].refs[j] \in map'
    <3>1. context'[t].refs[j] \in map
      BY <1>1 DEF MapSound, RefsMapped
    <3>2. Times(context'[t].refs, context'[t].refs[j][2]) # 0
      BY TimesNone
    <3> QED
      BY <3>1, <3>2
  <2> QED
    BY <2>1 DEF RefsMapped
<1>4. MapSound'
  BY <1>1, <1>2, <1>3 DEF MapSound
<1>5. CurrentMapped'
  <2>1. pc["PtoD"] \in {"translate", "launch"} => Current \in Buffers /\ Decoding(Current)
    BY WhoDecodes, Parts DEF Preparation
  <2>2. pc["PtoD"] = "launch" => context["PtoD"].buffer = Current
    BY Parts DEF Preparation
  <2>3. pc["PtoD"] \in {"launch", "send"} => Decoding(context["PtoD"].buffer)
    BY <2>1, <2>2, WhoDecodes
  <2>4. pc["PtoD"] # "refs" => context'["PtoD"] = context["PtoD"]
    BY DEF Decoders
  <2> QED
    BY <1>1, <2>1, <2>3, <2>4 DEF CurrentMapped
<1>6. NotMappedYet'
  BY <1>1 DEF NotMappedYet
<1> QED
  BY <1>4, <1>5, <1>6 DEF Mapped

LEMMA Decremented ==
    ASSUME Typed, NEW b \in Buffers, NEW s \in [Buffers -> States], s[b].Buffer,
           DecrementReferenceCount(s, b)
    PROVE  /\ owners' \in [Buffers -> Int] /\ BufferState' \in [Buffers -> States]
           /\ owners'[b] = owners[b] - 1
           /\ \A c \in Buffers : c # b => owners'[c] = owners[c] /\ BufferState'[c] = s[c]
           /\ owners[b] # 1 => BufferState' = s /\ map' = map
           /\ owners[b] = 1 => BufferState'[b] = Unused /\ \A p \in map' : p[2] # b
           /\ map' \subseteq map /\ \A p \in map : p[2] # b => p \in map'
<1>1. owners \in [Buffers -> Int]
  BY DEF Typed, TypedTable
<1>2. Unused \in States
  BY DEF Unused, States
<1> QED
  BY <1>1, <1>2 DEF DecrementReferenceCount

\* One reference less: s is the table without it, when it is kept there.
LEMMA Dropped ==
    ASSUME RInv, NEW b \in Buffers, NEW s \in [Buffers -> States],
           BufferState[b].Buffer, s[b].Buffer,
           s[b].OutputOnDecodesComplete = BufferState[b].OutputOnDecodesComplete,
           s[b].DecodesInProgress = BufferState[b].DecodesInProgress,
           \A c \in Buffers : c # b => s[c] = BufferState[c],
           DecrementReferenceCount(s, b),
           UNCHANGED <<pc, picture, Current, commands, OutputRing, MarkerBuffer>>,
           \A t \in Decoders : pc[t] # "refs" => context'[t] = context[t],
           Named(b)' \in Nat, shown' \in [Buffers -> Nat],
           s[b].ReferenceFrameCount <= BufferState[b].ReferenceFrameCount,
           Named(b)' <= Named(b), shown'[b] <= shown[b],
           s[b].ReferenceFrameCount + Named(b)' + shown'[b] + 1
             = BufferState[b].ReferenceFrameCount + Named(b) + shown[b],
           \A c \in Buffers : c # b => Named(c)' = Named(c) /\ shown'[c] = shown[c]
    PROVE  /\ TypedTable' /\ Control' /\ Accounts'
           /\ map' \subseteq map
           /\ \A p \in map : p \in map' \/ (p[2] = b /\ Named(b)' = 0 /\ ~Decoding(b))
<1>1. Typed /\ Account(b)
  BY Parts DEF Typed, Accounts
<1>2. /\ owners' \in [Buffers -> Int] /\ BufferState' \in [Buffers -> States]
      /\ owners'[b] = owners[b] - 1
      /\ \A c \in Buffers : c # b => owners'[c] = owners[c] /\ BufferState'[c] = s[c]
      /\ owners[b] # 1 => BufferState' = s /\ map' = map
      /\ owners[b] = 1 => BufferState'[b] = Unused /\ \A p \in map' : p[2] # b
      /\ map' \subseteq map /\ \A p \in map : p[2] # b => p \in map'
  BY <1>1, Decremented
<1>3. TypedTable'
  BY <1>2, Parts DEF TypedTable
<1>4. /\ s[b].ReferenceFrameCount \in Nat /\ shown'[b] \in Nat /\ shown[b] \in Nat
      /\ Cardinality(Places(OutputRing, Ours(b))) \in Nat
      /\ Named(b) \in Nat /\ Passed(b) \in Nat /\ Held(b) \in Nat
      /\ BufferState[b].ReferenceFrameCount \in Nat
      /\ owners[b] = Held(b) /\ Carried(b) = 0 /\ owners[b] > 0
      /\ Count(Decoding(b)) \in {0, 1} /\ (Count(Decoding(b)) = 1 <=> Decoding(b))
  BY <1>1, <1>2, Numbers DEF Account, States
<1>5. ASSUME owners[b] = 1
      PROVE  /\ ~Decoding(b) /\ Named(b)' = 0 /\ s[b].ReferenceFrameCount = 0
             /\ Cardinality(Places(OutputRing, Ours(b))) + shown'[b] = 0
  <2>1. BufferState[b].ReferenceFrameCount + Named(b) + Count(Decoding(b))
          + Cardinality(Places(OutputRing, Ours(b))) + shown[b] = 1
    BY <1>4, <1>5 DEF Held, Passed
  <2>2. /\ Count(Decoding(b)) = 0 /\ Named(b)' = 0 /\ s[b].ReferenceFrameCount = 0
        /\ Cardinality(Places(OutputRing, Ours(b))) + shown'[b] = 0
    <3>1. Count(Decoding(b)) \in Nat
      BY <1>4
    <3>2. s[b].ReferenceFrameCount + Named(b)' + shown'[b] + 1
            = BufferState[b].ReferenceFrameCount + Named(b) + shown[b]
      OBVIOUS
    <3>3. Named(b)' \in Nat
      OBVIOUS
    <3>4. Count(Decoding(b)) = 0
      BY <1>4, <2>1, <3>1, <3>2, <3>3
    <3>5. Named(b)' = 0
      BY <1>4, <2>1, <3>1, <3>2, <3>3
    <3>6. s[b].ReferenceFrameCount = 0
      BY <1>4, <2>1, <3>1, <3>2, <3>3
    <3>7. Cardinality(Places(OutputRing, Ours(b))) = 0
      BY <1>4, <2>1, <3>1, <3>2, <3>3
    <3>8. shown'[b] = 0
      BY <1>4, <2>1, <3>1, <3>2, <3>3
    <3> QED
      BY <3>4, <3>5, <3>6, <3>7, <3>8
  <2> QED
    BY <1>4, <2>2
<1>6. \A c : /\ AtMap(c)' <=> AtMap(c)
             /\ AtMarker(c)' <=> AtMarker(c)
             /\ Sending(c)' <=> Sending(c)
  BY DEF AtMap, AtMarker, Sending, Decoders
<1>7. \A c \in Buffers : Carried(c)' = Carried(c) /\ Pending(c)' = Pending(c)
  BY <1>6 DEF Carried, Pending, Count
<1>8. \A c \in Buffers : c # b => (Decoding(c)' <=> Decoding(c))
  BY <1>2 DEF Decoding, Decoders
<1>9. Decoding(b)' <=> Decoding(b)
  <2>1. CASE owners[b] # 1
    BY <1>2, <2>1 DEF Decoding, Decoders
  <2>2. CASE owners[b] = 1
    BY <1>2, <1>5, <2>2 DEF Decoding, Decoders, Unused
  <2> QED
    BY <2>1, <2>2
<1>10. ASSUME NEW c \in Buffers, c # b PROVE Account(c)'
  <2>1. Account(c)
    BY Parts DEF Accounts
  <2>2. owners'[c] = owners[c] /\ BufferState'[c] = BufferState[c] /\ Named(c)' = Named(c)
        /\ shown'[c] = shown[c]
    BY <1>2, <1>10
  <2>3. Count(Decoding(c))' = Count(Decoding(c))
    BY <1>8, <1>10 DEF Count
  <2>4. Passed(c)' = Passed(c)
    BY <2>2 DEF Passed
  <2> QED
    BY <1>2, <1>7, <2>1, <2>2, <2>3, <2>4, SameAccount
<1>11. Account(b)'
  <2>1. Count(Decoding(b))' = Count(Decoding(b))
    BY <1>9 DEF Count
  <2>2. BufferState'[b].ReferenceFrameCount = s[b].ReferenceFrameCount
        /\ BufferState'[b].DecodesInProgress = BufferState[b].DecodesInProgress
    <3>1. CASE owners[b] # 1
      BY <1>2, <3>1
    <3>2. CASE owners[b] = 1
      <4>1. BufferState[b].DecodesInProgress = 0
        <5>1. BufferState[b].DecodesInProgress \in Nat
          BY <1>1, Numbers
        <5> QED
          BY <1>5, <3>2, <5>1 DEF Decoding
      <4> QED
        BY <1>2, <1>5, <3>2, <4>1 DEF Unused
    <3> QED
      BY <3>1, <3>2
  <2>3. Held(b)' = Held(b) - 1
    BY <2>1, <2>2, <1>4 DEF Held, Passed
  <2>4. Passed(b)' <= Passed(b)
    BY <1>4 DEF Passed
  <2>5. owners'[b] = Held(b)' + Carried(b)' /\ Carried(b)' = 0
    BY <1>2, <1>4, <1>7, <2>3
  <2>6. Count(Decoding(b))' + Passed(b)' <= 1
    BY <1>1, <1>4, <2>1, <2>4 DEF Account, Passed
  <2>7. BufferState'[b].DecodesInProgress = Pending(b)'
    BY <1>1, <1>7, <2>2 DEF Account
  <2>8. CASE owners[b] # 1
    BY <1>2, <1>4, <2>3, <2>5, <2>6, <2>7, <2>8 DEF Account
  <2>9. CASE owners[b] = 1
    <3>1. Held(b)' = 0 /\ ~BufferState'[b].Buffer
      BY <1>2, <1>4, <2>3, <2>9 DEF Unused
    <3> QED
      BY <1>2, <3>1, <2>5, <2>6, <2>7, <2>9 DEF Account
  <2> QED
    BY <2>8, <2>9
<1>12. Accounts'
  BY <1>10, <1>11 DEF Accounts
<1>13. Control'
  <2>1. \A c \in Buffers : ~BufferState[c].Buffer => ~BufferState'[c].Buffer
    BY <1>2
  <2>2. \A c \in Buffers : Decoding(c) =>
          /\ BufferState'[c].Buffer = BufferState[c].Buffer
          /\ BufferState'[c].OutputOnDecodesComplete = BufferState[c].OutputOnDecodesComplete
          /\ BufferState'[c].DecodesInProgress = BufferState[c].DecodesInProgress
    <3> TAKE c \in Buffers
    <3> HAVE Decoding(c)
    <3>1. CASE c # b
      BY <1>2, <3>1
    <3>2. CASE c = b
      <4>1. owners[b] # 1
        BY <1>5, <3>2
      <4>2. s[b].Buffer = BufferState[b].Buffer
        BY <1>1, <1>2, Numbers DEF States
      <4> QED
        BY <1>2, <3>2, <4>1, <4>2
    <3> QED
      BY <3>1, <3>2
  <2> QED
    BY <2>1, <2>2, KeptControl
<1>14. \A p \in map : p \in map' \/ (p[2] = b /\ Named(b)' = 0 /\ ~Decoding(b))
  BY <1>2, <1>5
<1> QED
  BY <1>2, <1>3, <1>12, <1>13, <1>14

LEMMA RReleaseReference ==
    ASSUME RInv, NEW t \in Decoders, ReleaseReference(t)
    PROVE  RInv'
<1> PICK refs, b : refs = context[t].refs /\ b = Head(refs)[2]
  OBVIOUS
<1>1. /\ pc[t] = "refs" /\ refs # <<>>
      /\ DecrementReferenceCount(BufferState, b)
      /\ context' = [context EXCEPT ![t].refs = Tail(@)]
      /\ UNCHANGED <<pc, picture, Current, commands, OutputRing, MarkerBuffer, shown, pictures,
                     references>>
  BY DEF ReleaseReference, Current, output, mme, marking, stream
<1>2. Typed /\ TypedQueues
  BY Parts DEF Typed
<1>3. refs \in References /\ context \in [Decoders -> Decode \cup {NoContext}]
  BY <1>2, Contexts DEF TypedQueues
<1>4. /\ Tail(refs) \in References /\ Head(refs) \in Nat \X Buffers
      /\ \A j \in DOMAIN Tail(refs) : j + 1 \in DOMAIN refs /\ Tail(refs)[j] = refs[j + 1]
  BY <1>1, <1>3, TimesTail
<1>5. b \in Buffers
  BY <1>4
<1>6. \A c \in Buffers : Times(refs, c) = Times(Tail(refs), c) + Count(b = c)
  BY <1>1, <1>3, TimesTail
<1>7. /\ context'[t].refs = Tail(refs) /\ context'[t].n = context[t].n
      /\ context'[t].buffer = context[t].buffer
      /\ \A u \in Decoders : u # t => context'[u] = context[u]
      /\ context' \in [Decoders -> Decode \cup {NoContext}]
  <2>1. context[t] \in Decode
    BY <1>1, <1>3 DEF NoContext
  <2>2. [context[t] EXCEPT !.refs = Tail(refs)] \in Decode
    BY <1>4, <2>1 DEF Decode
  <2> QED
    BY <1>1, <1>3, <2>1, <2>2 DEF Decode
<1>8. ASSUME NEW c \in Buffers
      PROVE  /\ Named(c) = Named(c)' + Count(b = c) /\ Named(c)' \in Nat
             /\ Named(c)' = Cardinality(Slots(commands, c)) + Times(context'["PtoD"].refs, c)
                              + Times(context'["MME"].refs, c)
             /\ Times(context'["PtoD"].refs, c) \in Nat /\ Times(context'["MME"].refs, c) \in Nat
             /\ Cardinality(Slots(commands, c)) \in Nat
  <2>1. Named(c)' = Cardinality(Slots(commands, c)) + Times(context'["PtoD"].refs, c)
                      + Times(context'["MME"].refs, c)
    BY <1>1 DEF Named, Queued, Slots
  <2>2. /\ Cardinality(Slots(commands, c)) \in Nat
        /\ Times(context["PtoD"].refs, c) \in Nat /\ Times(context["MME"].refs, c) \in Nat
        /\ Named(c) = Cardinality(Slots(commands, c)) + Times(context["PtoD"].refs, c)
                      + Times(context["MME"].refs, c)
    BY <1>2, Numbers
  <2>3. Times(Tail(refs), c) \in Nat /\ Count(b = c) \in {0, 1}
    BY <1>4, TimesFinite DEF Count
  <2>4. Times(context[t].refs, c) = Times(context'[t].refs, c) + Count(b = c)
    BY <1>6, <1>7
  <2>5. CASE t = "PtoD"
    BY <1>7, <2>1, <2>2, <2>3, <2>4, <2>5 DEF Decoders
  <2>6. CASE t = "MME"
    BY <1>7, <2>1, <2>2, <2>3, <2>4, <2>6 DEF Decoders
  <2> QED
    BY <2>5, <2>6 DEF Decoders
<1>9. BufferState \in [Buffers -> States] /\ shown \in [Buffers -> Nat]
  BY <1>2 DEF Typed, TypedTable
<1>10. BufferState[b].Buffer
  <2>1. Named(b) > 0
    BY <1>5, <1>8 DEF Count
  <2>2. Held(b) > 0
    BY <1>2, <1>5, <2>1, Numbers DEF Held
  <2> QED
    BY <1>5, <2>2, Parts DEF Accounts, Account
<1>11. \A u \in Decoders : pc[u] # "refs" => context'[u] = context[u]
  BY <1>1, <1>7
<1>12. /\ Named(b)' <= Named(b) /\ Named(b)' \in Nat /\ Named(b)' + 1 = Named(b)
       /\ \A c \in Buffers : c # b => Named(c)' = Named(c)
  BY <1>2, <1>5, <1>8, Numbers DEF Count
<1>13. /\ BufferState[b].ReferenceFrameCount <= BufferState[b].ReferenceFrameCount
       /\ shown'[b] <= shown[b] /\ shown' \in [Buffers -> Nat]
       /\ BufferState[b].ReferenceFrameCount + Named(b)' + shown'[b] + 1
            = BufferState[b].ReferenceFrameCount + Named(b) + shown[b]
       /\ \A c \in Buffers : c # b => shown'[c] = shown[c]
  <2>1. /\ BufferState[b].ReferenceFrameCount \in Nat /\ shown[b] \in Nat /\ Named(b) \in Nat
    BY <1>2, <1>5, Numbers
  <2>2. shown' = shown
    BY <1>1
  <2> QED
    BY <1>9, <1>12, <2>1, <2>2
<1>14. /\ TypedTable' /\ Control' /\ Accounts'
       /\ map' \subseteq map
       /\ \A p \in map : p \in map' \/ (p[2] = b /\ Named(b)' = 0 /\ ~Decoding(b))
  BY <1>1, <1>5, <1>9, <1>10, <1>11, <1>12, <1>13, Dropped
<1>15. Mapped'
  <2>1. \A u \in Decoders : context'[u].refs \in References
    BY <1>7, NoRefs DEF Decode, NoContext
  <2>2. ASSUME NEW u \in Decoders, NEW j \in DOMAIN context'[u].refs
        PROVE  \E i \in DOMAIN context[u].refs : context'[u].refs[j] = context[u].refs[i]
    <3>1. CASE u = t
      BY <1>4, <1>7, <3>1
    <3>2. CASE u # t
      BY <1>7, <3>2
    <3> QED
      BY <3>1, <3>2
  <2>3. \A p \in map : \/ p \in map'
                       \/ /\ ~Decoding(p[2]) /\ Cardinality(Slots(commands, p[2])) = 0
                          /\ \A u \in Decoders : Times(context'[u].refs, p[2]) = 0
    BY <1>5, <1>8, <1>14 DEF Decoders
  <2> QED
    BY <1>1, <1>11, <1>14, <2>1, <2>2, <2>3, KeptMap
<1>16. TypedQueues' /\ TypedSteps' /\ TypedStream'
  BY <1>1, <1>7, Parts DEF TypedQueues, TypedSteps, TypedStream
<1> QED
  BY <1>14, <1>15, <1>16 DEF RInv, Typed

\* A step that leaves the contexts and the queue of decodes alone.
LEMMA SameNames ==
    ASSUME UNCHANGED <<commands, context>>
    PROVE  \A b \in Buffers : Named(b)' = Named(b)
BY DEF Named, Queued

LEMMA KeptMapStill ==
    ASSUME RInv, UNCHANGED <<pc, picture, Current, commands, pictures, context>>,
           map' \subseteq map,
           \A p \in map : p \in map' \/ (~Decoding(p[2]) /\ Named(p[2]) = 0)
    PROVE  Mapped'
<1>1. Typed /\ MapSound
  BY Parts DEF Typed
<1>2. \A t \in Decoders : context'[t].refs \in References
  BY <1>1, Contexts
<1>3. \A p \in map : \/ p \in map'
                     \/ /\ ~Decoding(p[2]) /\ Cardinality(Slots(commands, p[2])) = 0
                        /\ \A t \in Decoders : Times(context'[t].refs, p[2]) = 0
  <2> SUFFICES ASSUME NEW p \in map, Named(p[2]) = 0
               PROVE  /\ Cardinality(Slots(commands, p[2])) = 0
                      /\ \A t \in Decoders : Times(context'[t].refs, p[2]) = 0
    OBVIOUS
  <2>1. p[2] \in Buffers
    BY <1>1 DEF MapSound
  <2>2. /\ Cardinality(Slots(commands, p[2])) = 0
        /\ Times(context["PtoD"].refs, p[2]) = 0 /\ Times(context["MME"].refs, p[2]) = 0
    BY <1>1, <2>1, Numbers
  <2> QED
    BY <2>2 DEF Decoders
<1> QED
  BY <1>2, <1>3, KeptMap

LEMMA RReleaseReferenceFrame ==
    ASSUME RInv, NEW d \in references, ReleaseReferenceFrame(d)
    PROVE  RInv'
<1>1. /\ references' = references \ {d}
      /\ UNCHANGED <<pc, picture, Current, commands, context, OutputRing, MarkerBuffer, shown, pictures>>
  BY DEF ReleaseReferenceFrame, Current, output, mme, marking, threads
<1>2. Typed /\ MapSound
  BY Parts DEF Typed
<1>3. TypedQueues' /\ TypedSteps' /\ TypedStream'
  BY <1>1, Parts DEF TypedQueues, TypedSteps, TypedStream
<1>4. CASE \E b \in Buffers : <<d, b>> \in map /\ BufferState[b].ReferenceFrameCount # 0
  <2>1. PICK b \in Buffers : <<d, b>> \in map /\ BufferState[b].ReferenceFrameCount # 0
    BY <1>4
  <2>2. (CHOOSE c \in Buffers : <<d, c>> \in map) = b
    BY <1>2, <2>1 DEF MapSound
  <2>3. PICK s : s = [BufferState EXCEPT ![b].ReferenceFrameCount = @ - 1]
    OBVIOUS
  <2>4. DecrementReferenceCount(s, b)
    BY <1>4, <2>2, <2>3 DEF ReleaseReferenceFrame
  <2>5. BufferState \in [Buffers -> States] /\ shown \in [Buffers -> Nat]
    BY <1>2 DEF Typed, TypedTable
  <2>6. BufferState[b].ReferenceFrameCount \in Nat /\ BufferState[b].ReferenceFrameCount - 1 \in Nat
    BY <1>2, <2>1, Numbers
  <2>7. /\ s \in [Buffers -> States]
        /\ s[b].ReferenceFrameCount = BufferState[b].ReferenceFrameCount - 1
        /\ s[b].Buffer = BufferState[b].Buffer
        /\ s[b].OutputOnDecodesComplete = BufferState[b].OutputOnDecodesComplete
        /\ s[b].DecodesInProgress = BufferState[b].DecodesInProgress
        /\ \A c \in Buffers : c # b => s[c] = BufferState[c]
    BY <2>3, <2>5, <2>6 DEF States
  <2>8. BufferState[b].Buffer
    <3>1. /\ Named(b) \in Nat /\ Count(Decoding(b)) \in {0, 1} /\ Passed(b) \in Nat
      BY <1>2, Numbers
    <3>2. Held(b) > 0
      BY <2>1, <2>6, <3>1 DEF Held
    <3> QED
      BY <3>2, Parts DEF Accounts, Account
  <2>9. /\ \A c \in Buffers : Named(c)' = Named(c)
        /\ Named(b) \in Nat /\ shown[b] \in Nat
    BY <1>1, <1>2, SameNames, Numbers
  <2>10. /\ Named(b)' \in Nat /\ Named(b)' <= Named(b)
         /\ s[b].ReferenceFrameCount <= BufferState[b].ReferenceFrameCount
         /\ shown' \in [Buffers -> Nat] /\ shown'[b] <= shown[b]
         /\ s[b].ReferenceFrameCount + Named(b)' + shown'[b] + 1
              = BufferState[b].ReferenceFrameCount + Named(b) + shown[b]
         /\ \A c \in Buffers : c # b => Named(c)' = Named(c) /\ shown'[c] = shown[c]
    BY <1>1, <2>5, <2>6, <2>7, <2>9
  <2>11. s[b].Buffer
    BY <2>7, <2>8
  <2>12. \A t \in Decoders : pc[t] # "refs" => context'[t] = context[t]
    BY <1>1
  <2>13. /\ TypedTable' /\ Control' /\ Accounts'
         /\ map' \subseteq map
         /\ \A p \in map : p \in map' \/ (p[2] = b /\ Named(b)' = 0 /\ ~Decoding(b))
    BY <1>1, <2>4, <2>7, <2>8, <2>10, <2>11, <2>12, Dropped
  <2>14. Mapped'
    BY <1>1, <2>9, <2>13, KeptMapStill
  <2> QED
    BY <1>3, <2>13, <2>14 DEF RInv, Typed
<1>5. CASE ~\E b \in Buffers : <<d, b>> \in map /\ BufferState[b].ReferenceFrameCount # 0
  <2>1. UNCHANGED table
    BY <1>5 DEF ReleaseReferenceFrame
  <2>2. TypedTable'
    BY <1>1, <2>1, Parts DEF TypedTable, table
  <2>3. Control'
    BY <1>1, <2>1, KeptControl DEF table
  <2>4. Mapped'
    BY <1>1, <2>1, KeptMapStill DEF table
  <2>5. Accounts'
    BY <1>1, <2>1, CalmAccounts DEF table, books
  <2> QED
    BY <1>3, <2>2, <2>3, <2>4, <2>5 DEF RInv, Typed
<1> QED
  BY <1>4, <1>5

LEMMA RReplaced ==
    ASSUME RInv, NEW b \in Buffers, Replaced(b)
    PROVE  RInv'
<1>1. /\ shown[b] > 0 /\ shown' = [shown EXCEPT ![b] = @ - 1]
      /\ ReleaseDecodeBuffer(b)
      /\ UNCHANGED <<pc, picture, Current, commands, context, OutputRing, MarkerBuffer, pictures,
                     references>>
  BY DEF Replaced, Current, mme, marking, threads, stream
<1>2. Typed
  BY Parts DEF Typed
<1>3. TypedQueues' /\ TypedSteps' /\ TypedStream'
  BY <1>1, Parts DEF TypedQueues, TypedSteps, TypedStream
<1>4. BufferState \in [Buffers -> States] /\ shown \in [Buffers -> Nat]
  BY <1>2 DEF Typed, TypedTable
<1>5. BufferState[b].Buffer
  <2>1. Passed(b) > 0
    BY <1>1, <1>2, Numbers DEF Passed
  <2>2. Held(b) > 0
    BY <1>2, <2>1, Numbers DEF Held
  <2> QED
    BY <2>2, Parts DEF Accounts, Account
<1>6. DecrementReferenceCount(BufferState, b)
  BY <1>1, <1>5 DEF ReleaseDecodeBuffer
<1>7. /\ \A c \in Buffers : Named(c)' = Named(c)
      /\ Named(b) \in Nat /\ shown[b] \in Nat /\ BufferState[b].ReferenceFrameCount \in Nat
  BY <1>1, <1>2, SameNames, Numbers
<1>8. shown' \in [Buffers -> Nat] /\ shown'[b] = shown[b] - 1
      /\ \A c \in Buffers : c # b => Named(c)' = Named(c) /\ shown'[c] = shown[c]
  BY <1>1, <1>4, <1>7
<1>9. /\ Named(b)' \in Nat /\ Named(b)' <= Named(b)
      /\ BufferState[b].ReferenceFrameCount <= BufferState[b].ReferenceFrameCount
      /\ shown'[b] <= shown[b]
      /\ BufferState[b].ReferenceFrameCount + Named(b)' + shown'[b] + 1
           = BufferState[b].ReferenceFrameCount + Named(b) + shown[b]
  BY <1>7, <1>8
<1>10. \A t \in Decoders : pc[t] # "refs" => context'[t] = context[t]
  BY <1>1
<1>11. /\ TypedTable' /\ Control' /\ Accounts'
       /\ map' \subseteq map
       /\ \A p \in map : p \in map' \/ (p[2] = b /\ Named(b)' = 0 /\ ~Decoding(b))
  BY <1>1, <1>4, <1>5, <1>6, <1>8, <1>9, <1>10, Dropped
<1>12. Mapped'
  BY <1>1, <1>7, <1>11, KeptMapStill
<1> QED
  BY <1>3, <1>11, <1>12 DEF RInv, Typed

LEMMA RReleaseAll ==
    ASSUME RInv, ReleaseAllReferenceFrames
    PROVE  RInv'
<1>1. /\ references' = {}
      /\ owners' = [b \in Buffers |-> owners[b] - BufferState[b].ReferenceFrameCount]
      /\ BufferState' = [b \in Buffers |->
             IF owners[b] - BufferState[b].ReferenceFrameCount = 0 THEN Unused
             ELSE [BufferState[b] EXCEPT !.ReferenceFrameCount = 0]]
      /\ map' = {m \in map : owners[m[2]] - BufferState[m[2]].ReferenceFrameCount # 0}
      /\ UNCHANGED <<pc, picture, Current, commands, context, OutputRing, MarkerBuffer, shown, pictures>>
  BY DEF ReleaseAllReferenceFrames, Current, output, mme, marking, threads
<1>2. Typed
  BY Parts DEF Typed
<1>3. TypedQueues' /\ TypedSteps' /\ TypedStream'
  BY <1>1, Parts DEF TypedQueues, TypedSteps, TypedStream
<1>4. ASSUME NEW b \in Buffers
      PROVE  /\ owners'[b] = Named(b) + Count(Decoding(b)) + Passed(b) + Carried(b)
             /\ owners'[b] = 0 => /\ BufferState'[b] = Unused /\ ~Decoding(b)
                                  /\ Named(b) = 0 /\ Passed(b) = 0 /\ Carried(b) = 0
             /\ owners'[b] # 0 => BufferState'[b] = [BufferState[b] EXCEPT !.ReferenceFrameCount = 0]
             /\ BufferState'[b] \in States
             /\ owners'[b] \in Int
  <2>1. Account(b)
    BY Parts DEF Accounts
  <2>2. /\ owners[b] \in Int /\ BufferState[b].ReferenceFrameCount \in Nat /\ BufferState[b] \in States
        /\ Named(b) \in Nat /\ Passed(b) \in Nat /\ Carried(b) \in Nat
        /\ Count(Decoding(b)) \in {0, 1} /\ (Count(Decoding(b)) = 1 <=> Decoding(b))
    BY <1>2, Numbers
  <2>3. owners'[b] = owners[b] - BufferState[b].ReferenceFrameCount
    BY <1>1
  <2>4. owners'[b] = Named(b) + Count(Decoding(b)) + Passed(b) + Carried(b)
    BY <2>1, <2>2, <2>3 DEF Account, Held
  <2>5. Unused \in States
    BY DEF Unused, States
  <2>6. [BufferState[b] EXCEPT !.ReferenceFrameCount = 0] \in States
    BY <2>2 DEF States
  <2>7. owners'[b] = 0 => Count(Decoding(b)) = 0 /\ Named(b) = 0 /\ Passed(b) = 0 /\ Carried(b) = 0
    BY <2>2, <2>4
  <2> QED
    BY <1>1, <2>2, <2>3, <2>4, <2>5, <2>6, <2>7
<1>5. TypedTable'
  <2>1. owners' \in [Buffers -> Int] /\ BufferState' \in [Buffers -> States]
    BY <1>1, <1>4
  <2> QED
    BY <1>1, <2>1, Parts DEF TypedTable
<1>6. ASSUME NEW b \in Buffers, Decoding(b)
      PROVE  /\ BufferState'[b].Buffer = BufferState[b].Buffer
             /\ BufferState'[b].OutputOnDecodesComplete = BufferState[b].OutputOnDecodesComplete
             /\ BufferState'[b].DecodesInProgress = BufferState[b].DecodesInProgress
  <2>1. BufferState'[b] = [BufferState[b] EXCEPT !.ReferenceFrameCount = 0] /\ BufferState[b] \in States
    BY <1>2, <1>4, <1>6, Numbers
  <2> QED
    BY <2>1 DEF States
<1>7. ASSUME NEW b \in Buffers, ~BufferState[b].Buffer PROVE BufferState'[b] = Unused
  <2>1. BufferState[b] = Unused
    BY <1>7, Parts DEF Accounts, Account
  <2>2. [Unused EXCEPT !.ReferenceFrameCount = 0] = Unused
    BY DEF Unused
  <2> QED
    BY <1>4, <2>1, <2>2
<1>8. Control'
  <2>1. \A b \in Buffers : ~BufferState[b].Buffer => ~BufferState'[b].Buffer
    BY <1>7 DEF Unused
  <2> QED
    BY <1>1, <1>6, <2>1, KeptControl
<1>9. Mapped'
  <2>1. \A p \in map : p[2] \in Buffers
    BY Parts DEF MapSound
  <2>2. \A p \in map : p \in map' \/ (~Decoding(p[2]) /\ Named(p[2]) = 0)
    BY <1>1, <1>4, <2>1
  <2> QED
    BY <1>1, <2>2, KeptMapStill
<1>10. Accounts'
  <2> SUFFICES ASSUME NEW b \in Buffers PROVE Account(b)'
    BY DEF Accounts
  <2>1. Account(b)
    BY Parts DEF Accounts
  <2>2. /\ Named(b)' = Named(b) /\ Passed(b)' = Passed(b) /\ Carried(b)' = Carried(b)
        /\ Pending(b)' = Pending(b)
    BY <1>1, SameNames DEF Passed, Carried, Pending, AtMap, AtMarker, Sending
  <2>3. /\ Named(b) \in Nat /\ Passed(b) \in Nat /\ Carried(b) \in Nat /\ BufferState[b] \in States
        /\ Count(Decoding(b)) \in {0, 1} /\ (Count(Decoding(b)) = 1 <=> Decoding(b))
        /\ BufferState[b].DecodesInProgress \in Nat
    BY <1>2, Numbers
  <2>4. CASE ~BufferState[b].Buffer
    <3>1. BufferState'[b] = BufferState[b] /\ BufferState[b] = Unused
      BY <1>7, <2>1, <2>4 DEF Account
    <3>2. Decoding(b)' <=> Decoding(b)
      BY <1>1, <3>1 DEF Decoding
    <3>3. Count(Decoding(b))' = Count(Decoding(b))
      BY <3>2 DEF Count
    <3>4. owners'[b] = owners[b]
      <4>1. BufferState[b].ReferenceFrameCount = 0 /\ owners[b] \in Int
        BY <1>2, <3>1, Numbers DEF Unused
      <4> QED
        BY <1>1, <4>1
    <3> QED
      BY <1>1, <2>1, <2>2, <3>1, <3>3, <3>4, SameAccount
  <2>5. CASE BufferState[b].Buffer /\ owners'[b] = 0
    <3>1. BufferState'[b] = Unused /\ ~Decoding(b) /\ Named(b) = 0 /\ Passed(b) = 0 /\ Carried(b) = 0
      BY <1>4, <2>5
    <3>2. ~Decoding(b)'
      BY <1>1, <3>1 DEF Decoding, Unused
    <3>3. Count(Decoding(b))' = 0
      BY <3>2 DEF Count
    <3>4. Held(b)' = 0
      BY <2>2, <3>1, <3>3 DEF Held, Unused
    <3>5. Pending(b)' = 0
      BY <2>1, <2>2, <2>3, <2>5, <3>1 DEF Account, Decoding
    <3>6. \A p \in map' : p[2] # b
      BY <1>1, <2>5
    <3> QED
      BY <2>2, <2>5, <3>1, <3>3, <3>4, <3>5, <3>6 DEF Account, Unused
  <2>6. CASE BufferState[b].Buffer /\ owners'[b] # 0
    <3>1. BufferState'[b] = [BufferState[b] EXCEPT !.ReferenceFrameCount = 0]
      BY <1>4, <2>6
    <3>2. /\ BufferState'[b].Buffer = BufferState[b].Buffer
          /\ BufferState'[b].OutputOnDecodesComplete = BufferState[b].OutputOnDecodesComplete
          /\ BufferState'[b].DecodesInProgress = BufferState[b].DecodesInProgress
          /\ BufferState'[b].ReferenceFrameCount = 0
      BY <2>3, <3>1 DEF States
    <3>3. Decoding(b)' <=> Decoding(b)
      BY <1>1, <3>2 DEF Decoding
    <3>4. Count(Decoding(b))' = Count(Decoding(b))
      BY <3>3 DEF Count
    <3>5. Held(b)' = Named(b) + Count(Decoding(b)) + Passed(b)
      BY <2>2, <2>3, <3>2, <3>4 DEF Held
    <3>6. Carried(b) = 0
      BY <2>1, <2>6 DEF Account
    <3>7. Held(b)' > 0 /\ owners'[b] = Held(b)' + Carried(b)'
      <4>1. owners'[b] = Named(b) + Count(Decoding(b)) + Passed(b) + Carried(b)
        BY <1>4
      <4>2. Carried(b)' = 0 /\ owners'[b] = Held(b)'
        BY <2>2, <2>3, <3>5, <3>6, <4>1
      <4>3. Held(b)' \in Nat
        BY <2>3, <3>5
      <4> QED
        BY <2>6, <4>2, <4>3
    <3>8. Count(Decoding(b))' + Passed(b)' <= 1 /\ BufferState'[b].DecodesInProgress = Pending(b)'
      BY <2>1, <2>2, <3>2, <3>4 DEF Account
    <3> QED
      BY <2>2, <2>6, <3>2, <3>6, <3>7, <3>8 DEF Account
  <2> QED
    BY <2>4, <2>5, <2>6
<1> QED
  BY <1>3, <1>5, <1>8, <1>9, <1>10 DEF RInv, Typed

-----------------------------------------------------------------------------
(* The processes behind the codec, and buffers that are given up *)

\* An account that is drawn up anew.
LEMMA NewAccount ==
    ASSUME NEW b \in Buffers,
           owners'[b] = Held(b)' + Carried(b)',
           BufferState'[b].DecodesInProgress = Pending(b)',
           Count(Decoding(b))' + Passed(b)' <= 1,
           BufferState'[b].Buffer => Held(b)' > 0 /\ Carried(b)' = 0,
           ~BufferState'[b].Buffer => /\ BufferState'[b] = Unused /\ Held(b)' = 0
                                      /\ Carried(b)' <= 1 /\ \A p \in map' : p[2] # b
    PROVE  Account(b)'
BY DEF Account

\* A process behind the codec takes what it was given.
LEMMA RTakeOutput ==
    ASSUME RInv, TakeOutput
    PROVE  RInv'
<1> PICK e : e = Head(OutputRing)
  OBVIOUS
<1>1. /\ OutputRing # <<>> /\ OutputRing' = Tail(OutputRing)
      /\ IF e.marker THEN owners' = [owners EXCEPT ![e.buffer] = @ - 1] /\ UNCHANGED shown
         ELSE shown' = [shown EXCEPT ![e.buffer] = @ + 1] /\ UNCHANGED owners
      /\ UNCHANGED <<BufferState, map, pc, picture, Current, commands, context, MarkerBuffer, pictures,
                     references>>
  BY DEF TakeOutput, Current, mme, marking, threads, stream
<1>2. Typed
  BY Parts DEF Typed
<1>3. /\ OutputRing \in Seq(Entries) /\ Tail(OutputRing) \in Seq(Entries) /\ e \in Entries
      /\ owners \in [Buffers -> Int] /\ shown \in [Buffers -> Nat]
  <2>1. OutputRing \in Seq(Entries) /\ owners \in [Buffers -> Int] /\ shown \in [Buffers -> Nat]
    BY <1>2 DEF Typed, TypedQueues, TypedTable
  <2>2. OutputRing # <<>> /\ e = Head(OutputRing)
    BY <1>1
  <2>3. Tail(OutputRing) \in Seq(Entries) /\ Head(OutputRing) \in Entries
    BY <2>1, <2>2
  <2> QED
    BY <2>1, <2>2, <2>3
<1>4. e.buffer \in Buffers /\ e.marker \in BOOLEAN
  BY <1>3 DEF Entries
<1>5. TypedTable' /\ TypedQueues' /\ TypedSteps' /\ TypedStream'
  <2>1. owners' \in [Buffers -> Int] /\ shown' \in [Buffers -> Nat]
    <3>1. owners[e.buffer] \in Int /\ shown[e.buffer] \in Nat
      BY <1>3, <1>4
    <3>2. CASE e.marker
      <4>1. owners' = [owners EXCEPT ![e.buffer] = @ - 1] /\ shown' = shown
        BY <1>1, <3>2
      <4> QED
        BY <1>3, <1>4, <3>1, <4>1
    <3>3. CASE ~e.marker
      <4>1. shown' = [shown EXCEPT ![e.buffer] = @ + 1] /\ owners' = owners
        BY <1>1, <3>3
      <4> QED
        BY <1>3, <1>4, <3>1, <4>1
    <3> QED
      BY <3>2, <3>3
  <2> QED
    BY <1>1, <1>3, <2>1, Parts DEF TypedTable, TypedQueues, TypedSteps, TypedStream
<1>6. Control'
  BY <1>1, KeptControl
<1>7. Mapped'
  BY <1>1, KeptMapStill
<1>8. ASSUME NEW b \in Buffers
      PROVE  /\ Passed(b)' = Passed(b)
             /\ owners'[b] = owners[b] - Count(e \in Markers(b))
             /\ Carried(b)' = Carried(b) - Count(e \in Markers(b))
  <2>1. /\ Cardinality(Places(OutputRing, Ours(b))) = Cardinality(Places(OutputRing', Ours(b))) + Count(e \in Ours(b))
        /\ Cardinality(Places(OutputRing, Markers(b))) = Cardinality(Places(OutputRing', Markers(b))) + Count(e \in Markers(b))
        /\ Cardinality(Places(OutputRing', Ours(b))) \in Nat /\ Cardinality(Places(OutputRing', Markers(b))) \in Nat
    BY <1>1, <1>3, PlacesTail, PlacesFinite
  <2>2. Count(AtMap(b)) \in Nat /\ Count(AtMarker(b)) \in Nat
    BY DEF Count
  <2>3. Count(AtMap(b))' = Count(AtMap(b)) /\ Count(AtMarker(b))' = Count(AtMarker(b))
    BY <1>1 DEF AtMap, AtMarker, Count
  <2>4. owners[b] \in Int /\ shown[b] \in Nat
    BY <1>3
  <2>5. CASE e \in Markers(b)
    <3>1. e \notin Ours(b) /\ owners'[b] = owners[b] - 1 /\ shown'[b] = shown[b]
      BY <1>1, <1>3, <2>5 DEF Ours, Markers
    <3> QED
      BY <2>1, <2>2, <2>3, <2>4, <2>5, <3>1 DEF Count, Passed, Carried
  <2>6. CASE e \in Ours(b)
    <3>1. e \notin Markers(b) /\ owners'[b] = owners[b] /\ shown'[b] = shown[b] + 1
      BY <1>1, <1>3, <2>6 DEF Ours, Markers
    <3> QED
      BY <2>1, <2>2, <2>3, <2>4, <2>6, <3>1 DEF Count, Passed, Carried
  <2>7. CASE e \notin Ours(b) /\ e \notin Markers(b)
    <3>1. owners'[b] = owners[b] /\ shown'[b] = shown[b]
      BY <1>1, <1>3, <1>4, <2>7 DEF Ours, Markers
    <3> QED
      BY <2>1, <2>2, <2>3, <2>4, <2>7, <3>1 DEF Count, Passed, Carried
  <2> QED
    BY <2>5, <2>6, <2>7
<1>9. Accounts'
  <2> SUFFICES ASSUME NEW b \in Buffers PROVE Account(b)'
    BY DEF Accounts
  <2>1. Account(b)
    BY Parts DEF Accounts
  <2>2. /\ Named(b)' = Named(b) /\ Pending(b)' = Pending(b) /\ (Decoding(b)' <=> Decoding(b))
    BY <1>1, SameNames DEF Pending, Sending, Decoding
  <2>3. Count(Decoding(b))' = Count(Decoding(b)) /\ Passed(b)' = Passed(b)
    BY <1>8, <2>2 DEF Count
  <2>4. Held(b)' = Held(b)
    BY <1>1, <2>2, <2>3 DEF Held
  <2>5. Carried(b) \in Nat /\ Carried(b)' \in Int /\ Held(b) \in Nat /\ Count(e \in Markers(b)) \in {0, 1}
        /\ owners[b] \in Int
    <3>1. Carried(b) \in Nat /\ Held(b) \in Nat /\ owners[b] \in Int
      BY <1>2, Numbers
    <3>2. Count(e \in Markers(b)) \in {0, 1}
      BY DEF Count
    <3> QED
      BY <1>8, <3>1, <3>2
  <2>6. CASE Count(e \in Markers(b)) = 0
    <3>1. owners'[b] = owners[b] /\ Carried(b)' = Carried(b)
      BY <1>8, <2>5, <2>6
    <3> QED
      BY <1>1, <2>1, <2>2, <2>3, <3>1, SameAccount
  <2>7. CASE Count(e \in Markers(b)) = 1
    <3>1. e \in Markers(b)
      BY <2>7 DEF Count
    <3>2. Cardinality(Places(OutputRing, Markers(b))) > 0
      <4>1. Cardinality(Places(OutputRing, Markers(b)))
              = Cardinality(Places(Tail(OutputRing), Markers(b))) + Count(e \in Markers(b))
        BY <1>1, <1>3, PlacesTail
      <4>2. Cardinality(Places(Tail(OutputRing), Markers(b))) \in Nat
        BY <1>3, PlacesFinite
      <4> QED
        BY <2>7, <4>1, <4>2
    <3>3. Carried(b) > 0
      <4>1. Count(AtMap(b)) \in Nat /\ Count(AtMarker(b)) \in Nat
        BY DEF Count
      <4>2. Cardinality(Places(OutputRing, Markers(b))) \in Nat
        BY <1>3, PlacesFinite
      <4> QED
        BY <3>2, <4>1, <4>2 DEF Carried
    <3>4. ~BufferState[b].Buffer
      BY <2>1, <3>3 DEF Account
    <3>5. owners'[b] = Held(b)' + Carried(b)' /\ Carried(b)' <= 1
      BY <1>8, <2>1, <2>4, <2>5, <2>7, <3>4 DEF Account
    <3> QED
      BY <1>1, <2>1, <2>2, <2>3, <2>4, <3>4, <3>5 DEF Account
  <2> QED
    BY <2>5, <2>6, <2>7
<1> QED
  BY <1>5, <1>6, <1>7, <1>9 DEF RInv, Typed

\* A complete buffer that a drain discards goes with its last reference, or
\* stays for the references that the decodes still hold.
LEMMA RDiscard ==
    ASSUME RInv, NEW t \in Decoders, Discard(t)
    PROVE  RInv'
<1> PICK b : b = context[t].buffer
  OBVIOUS
<1>1. /\ pc[t] = "discard" /\ pc' = [pc EXCEPT ![t] = "compare"]
      /\ ReleaseDecodeBuffer(b)
      /\ UNCHANGED <<picture, Current, commands, context, OutputRing, MarkerBuffer, shown, pictures,
                     references>>
  BY DEF Discard, Goto, Current, output, mme, marking, stream
<1>2. Typed
  BY Parts DEF Typed
<1>3. b \in Buffers /\ GivenUp(b)
  BY <1>1, WhoDecodes, Parts DEF Discards
<1>4. BufferState \in [Buffers -> States]
  BY <1>2 DEF Typed, TypedTable
<1>5. BufferState[b].Buffer
  BY <1>3 DEF GivenUp
<1>6. DecrementReferenceCount(BufferState, b)
  BY <1>1, <1>5 DEF ReleaseDecodeBuffer
<1>7. /\ owners' \in [Buffers -> Int] /\ BufferState' \in [Buffers -> States]
      /\ owners'[b] = owners[b] - 1
      /\ \A c \in Buffers : c # b => owners'[c] = owners[c] /\ BufferState'[c] = BufferState[c]
      /\ owners[b] # 1 => BufferState' = BufferState /\ map' = map
      /\ owners[b] = 1 => BufferState'[b] = Unused /\ \A p \in map' : p[2] # b
      /\ map' \subseteq map /\ \A p \in map : p[2] # b => p \in map'
  BY <1>2, <1>3, <1>4, <1>5, <1>6, Decremented
<1>8. /\ pc' = [u \in Threads |-> pc'[u]] /\ pc'[t] = "compare"
      /\ \A u \in Threads \ {t} : pc'[u] = pc[u]
  BY <1>1, Parts DEF TypedSteps, Threads, Decoders
<1>9. TypedTable' /\ TypedQueues' /\ TypedSteps' /\ TypedStream'
  BY <1>1, <1>7, <1>8, Parts DEF TypedTable, TypedQueues, TypedSteps, TypedStream, Threads, Decoders,
     PtoDSteps, MMESteps
<1>10. /\ Account(b) /\ BufferState[b].DecodesInProgress = 0 /\ Pending(b) = 0 /\ Decoding(b)
  BY <1>1, <1>3, WhoDecodes, Parts DEF GivenUp, Accounts, Account
<1>11. /\ \A k \in DOMAIN commands : commands[k].buffer # b
       /\ ~Sending(b)
  BY <1>2, <1>3, <1>10, NonePending
<1>12. Current # None /\ ~Closing => Current # b
  BY <1>1, Parts DEF CurrentOpen, GivingUp
<1>13. Closing' <=> Closing
  BY <1>1, <1>8 DEF Closing, Threads, Decoders
<1>14. \A c : GivingUp(c)' <=> GivingUp(c)
  BY <1>1, <1>8 DEF GivingUp, Threads, Decoders
<1>15. Turns' /\ Holding'
  BY <1>1, <1>8, Parts DEF Turns, Holding, Threads, Decoders
<1>16. CurrentOpen'
  BY <1>1, <1>7, <1>12, <1>13, <1>14, Parts DEF CurrentOpen, TypedTable
<1>17. Preparation'
  <2>1. pc["PtoD"] = "map" => picture.buffer \in Buffers /\ picture.buffer # b
    BY <1>5, Parts DEF Preparation, TypedStream
  <2>2. pc["PtoD"] \in {"send", "complete"} => context["PtoD"].buffer \in Buffers /\ context["PtoD"].buffer # b
    BY <1>11, WhoDecodes DEF Sending
  <2>3. pc'["PtoD"] # pc["PtoD"] => t = "PtoD"
    BY <1>8 DEF Threads
  <2>4. pc'["drain"] = pc["drain"]
    BY <1>8 DEF Threads, Decoders
  <2> QED
    BY <1>1, <1>7, <1>8, <1>14, <2>1, <2>2, <2>3, <2>4, Parts DEF Preparation
<1>18. Discards'
  <2>1. ASSUME NEW u \in Decoders, pc'[u] = "discard" PROVE GivenUp(context[u].buffer)'
    <3>1. u # t /\ pc[u] = "discard"
      BY <1>8, <2>1 DEF Threads, Decoders
    <3>2. context[u].buffer # b /\ context[u].buffer \in Buffers /\ GivenUp(context[u].buffer)
      BY <1>1, <3>1, WhoDecodes, Parts DEF Discards, Decoders
    <3> QED
      BY <1>1, <1>7, <3>2 DEF GivenUp
  <2>2. ~(pc'["PtoD"] = "discard" /\ pc'["MME"] = "discard")
    BY <1>8 DEF Decoders
  <2> QED
    BY <1>1, <2>1, <2>2 DEF Discards
<1>19. \A c \in Buffers : c # b => (Decoding(c)' <=> Decoding(c))
  <2>1. \A c \in Buffers : c # b => \A u \in Decoders :
          (pc'[u] = "discard" /\ context'[u].buffer = c) <=> (pc[u] = "discard" /\ context[u].buffer = c)
    BY <1>1, <1>8 DEF Threads, Decoders
  <2> QED
    BY <1>7, <2>1 DEF Decoding
<1>20. ~Decoding(b)'
  <2>1. \A u \in Decoders : ~(pc'[u] = "discard" /\ context'[u].buffer = b)
    BY <1>1, <1>8, Parts DEF Discards, Threads, Decoders
  <2>2. BufferState'[b].Buffer => /\ BufferState'[b].OutputOnDecodesComplete
                                  /\ BufferState'[b].DecodesInProgress = 0
    BY <1>3, <1>7 DEF GivenUp, Unused
  <2> QED
    BY <2>1, <2>2 DEF Decoding
<1>21. /\ \A c : (AtMap(c)' <=> AtMap(c)) /\ (AtMarker(c)' <=> AtMarker(c)) /\ (Sending(c)' <=> Sending(c))
  BY <1>1, <1>8 DEF AtMap, AtMarker, Sending, Threads, Decoders
<1>22. \A c \in Buffers : /\ Named(c)' = Named(c) /\ Passed(c)' = Passed(c)
                          /\ Carried(c)' = Carried(c) /\ Pending(c)' = Pending(c)
  BY <1>1, <1>21, SameNames DEF Passed, Carried, Pending, Count
<1>23. ASSUME NEW c \in Buffers, c # b PROVE Account(c)'
  <2>1. Count(Decoding(c))' = Count(Decoding(c))
    BY <1>19, <1>23 DEF Count
  <2>2. Account(c)
    BY Parts DEF Accounts
  <2>3. owners'[c] = owners[c] /\ BufferState'[c] = BufferState[c]
    BY <1>7, <1>23
  <2> QED
    BY <1>7, <1>22, <2>1, <2>2, <2>3, SameAccount
<1>24. /\ owners[b] = Held(b) /\ Carried(b) = 0 /\ Named(b) \in Nat /\ Passed(b) \in Nat
       /\ BufferState[b].ReferenceFrameCount \in Nat
       /\ Held(b) = BufferState[b].ReferenceFrameCount + Named(b) + 1 + Passed(b)
       /\ Count(Decoding(b))' = 0 /\ Passed(b) = 0
  <2>1. /\ Named(b) \in Nat /\ Passed(b) \in Nat /\ BufferState[b].ReferenceFrameCount \in Nat
        /\ Held(b) \in Nat /\ owners[b] \in Int /\ Count(Decoding(b)) = 1
    BY <1>2, <1>3, <1>10, Numbers
  <2>2. Carried(b) = 0 /\ owners[b] = Held(b)
    BY <1>5, <1>10, <2>1 DEF Account
  <2>3. Held(b) = BufferState[b].ReferenceFrameCount + Named(b) + 1 + Passed(b)
    BY <2>1 DEF Held
  <2>4. Passed(b) = 0
    <3>1. Count(Decoding(b)) + Passed(b) <= 1
      BY <1>10 DEF Account
    <3> QED
      BY <2>1, <3>1
  <2> QED
    BY <1>20, <2>1, <2>2, <2>3, <2>4 DEF Count
<1>25. Account(b)'
  <2>1. /\ Named(b)' = Named(b) /\ Passed(b)' = 0 /\ Carried(b)' = 0 /\ Pending(b)' = 0
        /\ Count(Decoding(b))' = 0
    BY <1>3, <1>10, <1>22, <1>24
  <2>2. CASE owners[b] # 1
    <3>1. BufferState'[b] = BufferState[b] /\ map' = map
      BY <1>7, <2>2
    <3>2. Held(b)' = BufferState[b].ReferenceFrameCount + Named(b) + 0 + 0
      BY <2>1, <3>1 DEF Held
    <3>3. Held(b)' = Held(b) - 1
      BY <1>24, <3>2
    <3>4. owners'[b] = Held(b)' + Carried(b)'
      BY <1>7, <1>24, <2>1, <3>3
    <3>5. Held(b)' > 0
      BY <1>24, <2>2, <3>2, <3>3
    <3>6. Count(Decoding(b))' + Passed(b)' <= 1
      BY <2>1
    <3>7. BufferState'[b].DecodesInProgress = Pending(b)'
      BY <1>10, <2>1, <3>1
    <3> QED
      BY <1>3, <1>5, <2>1, <3>1, <3>4, <3>5, <3>6, <3>7, NewAccount
  <2>3. CASE owners[b] = 1
    <3>1. BufferState[b].ReferenceFrameCount + Named(b) = 0
      BY <1>24, <2>3
    <3>2. Named(b) = 0
      BY <1>24, <3>1
    <3>3. BufferState'[b] = Unused /\ \A p \in map' : p[2] # b
      BY <1>7, <2>3
    <3>4. Held(b)' = 0
      BY <2>1, <3>2, <3>3 DEF Held, Unused
    <3>5. owners'[b] = Held(b)' + Carried(b)'
      BY <1>7, <2>1, <2>3, <3>4
    <3>6. Count(Decoding(b))' + Passed(b)' <= 1
      BY <2>1
    <3>7. BufferState'[b].DecodesInProgress = Pending(b)' /\ ~BufferState'[b].Buffer
      BY <2>1, <3>3 DEF Unused
    <3>8. Carried(b)' <= 1
      BY <2>1
    <3> QED
      BY <1>3, <3>3, <3>4, <3>5, <3>6, <3>7, <3>8, NewAccount
  <2> QED
    BY <2>2, <2>3
<1>26. Accounts'
  BY <1>23, <1>25 DEF Accounts
<1>27. owners[b] = 1 => Named(b) = 0
  BY <1>24
<1>28. MapSound' /\ CurrentMapped' /\ NotMappedYet'
  <2>1. CASE owners[b] # 1
    <3>1. map' = map
      BY <1>7, <2>1
    <3>2. MapSound'
      BY <1>1, <3>1, Parts DEF MapSound, RefsMapped
    <3> QED
      BY <1>1, <1>8, <3>1, <3>2, Parts DEF CurrentMapped, NotMappedYet, Threads, Decoders, Partial
  <2>2. CASE owners[b] = 1
    <3>1. /\ \A k \in DOMAIN commands : \A j \in DOMAIN commands[k].refs : commands[k].refs[j][2] # b
          /\ \A u \in Decoders : \A j \in DOMAIN context[u].refs : context[u].refs[j][2] # b
      BY <1>2, <1>3, <1>27, <2>2, NoneNamed
    <3>2. \A k \in DOMAIN commands : RefsMapped(commands[k])'
      BY <1>1, <1>7, <3>1, Parts DEF MapSound, RefsMapped
    <3>3. \A u \in Decoders : RefsMapped(context[u])'
      BY <1>1, <1>7, <3>1, Parts DEF MapSound, RefsMapped
    <3>4. \A k \in DOMAIN commands : <<commands[k].n, commands[k].buffer>> \in map'
      BY <1>7, <1>11, Parts DEF MapSound
    <3>5. MapSound'
      BY <1>1, <1>7, <3>2, <3>3, <3>4, Parts DEF MapSound
    <3>6. pc'["PtoD"] \in {"translate", "launch"} => Current # b /\ context["PtoD"] = context["PtoD"]
      BY <1>8, <1>12, WhoDecodes, Parts DEF Preparation, Threads
    <3>7. pc'["PtoD"] \in {"launch", "send"} => context["PtoD"].buffer # b
      BY <1>8, <1>11, <3>6, Parts DEF Preparation, Sending, Threads
    <3>8. pc'["PtoD"] # "compare" => pc'["PtoD"] = pc["PtoD"]
      BY <1>8 DEF Threads
    <3>9. CurrentMapped'
      BY <1>1, <1>7, <3>6, <3>7, <3>8, Parts DEF CurrentMapped
    <3> QED
      BY <1>1, <1>7, <3>5, <3>8, <3>9, Parts DEF NotMappedYet, Partial
  <2> QED
    BY <2>1, <2>2
<1> QED
  BY <1>9, <1>15, <1>16, <1>17, <1>18, <1>26, <1>28 DEF RInv, Typed, Control, Mapped

-----------------------------------------------------------------------------
(* Markers *)

\* A reference that does not belong to a picture comes or goes.
LEMMA CarriedAccount ==
    ASSUME Typed, NEW b \in Buffers, Account(b), NEW d \in Int,
           owners'[b] = owners[b] + d, Carried(b)' = Carried(b) + d,
           d < 0 => Carried(b) > 0,
           d > 0 => owners[b] = 0 /\ d = 1,
           BufferState'[b] = BufferState[b], map' = map,
           Named(b)' = Named(b), Count(Decoding(b))' = Count(Decoding(b)), Passed(b)' = Passed(b),
           Pending(b)' = Pending(b)
    PROVE  Account(b)'
<1>1. /\ owners[b] \in Int /\ Held(b) \in Nat /\ Carried(b) \in Nat
      /\ owners[b] = Held(b) + Carried(b)
  BY Numbers DEF Account
<1>2. Held(b)' = Held(b)
  BY DEF Held
<1>3. CASE d = 0
  <2>1. owners'[b] = owners[b] /\ Carried(b)' = Carried(b)
    BY <1>1, <1>3
  <2> QED
    BY <2>1, SameAccount
<1>4. CASE d # 0
  <2>1. ~BufferState[b].Buffer
    <3>1. CASE d < 0
      BY <3>1 DEF Account
    <3>2. CASE d > 0
      <4>1. Held(b) = 0
        BY <1>1, <3>2
      <4> QED
        BY <4>1 DEF Account
    <3> QED
      BY <1>4, <3>1, <3>2
  <2>2. owners'[b] = Held(b)' + Carried(b)'
    BY <1>1, <1>2
  <2>3. Carried(b)' <= 1
    <3>1. CASE d < 0
      <4>1. Carried(b) <= 1
        BY <2>1 DEF Account
      <4> QED
        BY <1>1, <3>1, <4>1
    <3>2. CASE d > 0
      <4>1. Carried(b) = 0 /\ d = 1
        BY <1>1, <3>2
      <4> QED
        BY <4>1
    <3> QED
      BY <1>4, <3>1, <3>2
  <2>4. BufferState'[b] = Unused /\ Held(b)' = 0 /\ \A p \in map' : p[2] # b
    BY <1>2, <2>1 DEF Account
  <2>5. Count(Decoding(b))' + Passed(b)' <= 1 /\ BufferState'[b].DecodesInProgress = Pending(b)'
    BY DEF Account
  <2> QED
    BY <2>1, <2>2, <2>3, <2>4, <2>5, NewAccount
<1> QED
  BY <1>3, <1>4

\* A buffer that comes out of the pool is nobody's.
LEMMA Fresh ==
    ASSUME RInv, NEW b \in Buffers, owners[b] = 0
    PROVE  /\ Held(b) = 0 /\ Carried(b) = 0 /\ ~BufferState[b].Buffer /\ ~Decoding(b)
           /\ Named(b) = 0 /\ Passed(b) = 0
<1>1. Typed /\ Account(b)
  BY Parts DEF Typed, Accounts
<1>2. Held(b) \in Nat /\ Carried(b) \in Nat /\ owners[b] = Held(b) + Carried(b)
  BY <1>1, Numbers DEF Account
<1>3. Held(b) = 0 /\ Carried(b) = 0
  BY <1>2
<1>4. ~BufferState[b].Buffer
  BY <1>1, <1>3 DEF Account
<1>5. /\ BufferState[b].ReferenceFrameCount \in Nat /\ Named(b) \in Nat /\ Passed(b) \in Nat
      /\ Count(Decoding(b)) \in {0, 1} /\ (Count(Decoding(b)) = 1 <=> Decoding(b))
      /\ BufferState[b].ReferenceFrameCount + Named(b) + Count(Decoding(b)) + Passed(b) = 0
  BY <1>1, <1>3, Numbers DEF Held
<1>6. Named(b) = 0
  <2>1. BufferState[b].ReferenceFrameCount \in Nat /\ Named(b) \in Nat /\ Passed(b) \in Nat
    BY <1>5
  <2>2. Count(Decoding(b)) \in Nat
    BY <1>5
  <2>3. BufferState[b].ReferenceFrameCount + Named(b) + Count(Decoding(b)) + Passed(b) = 0
    BY <1>5
  <2> QED
    BY <2>1, <2>2, <2>3
<1>7. Passed(b) = 0
  BY <1>5
<1>8. Count(Decoding(b)) = 0
  BY <1>5
<1> QED
  BY <1>3, <1>4, <1>5, <1>6, <1>7, <1>8

\* A marker comes; the one that the codec still had is dropped.
LEMMA RMarkerInput ==
    ASSUME RInv, MarkerInput
    PROVE  RInv'
<1>1. /\ pc["PtoD"] = "idle" /\ MarkerBuffer' = None
      /\ owners' = (IF MarkerBuffer = None THEN owners ELSE [owners EXCEPT ![MarkerBuffer.buffer] = @ - 1])
      /\ pc' = [pc EXCEPT !["PtoD"] = "getMarker"]
      /\ UNCHANGED <<BufferState, map, Current, OutputRing, shown, commands, context, picture,
                     pictures, references>>
  BY DEF MarkerInput, Goto, Current, output, mme
<1>2. /\ pc' = [u \in Threads |-> pc'[u]] /\ pc'["PtoD"] = "getMarker"
      /\ pc'["MME"] = pc["MME"] /\ pc'["drain"] = pc["drain"]
  BY <1>1, PtoDMoves
<1>3. Typed /\ owners \in [Buffers -> Int]
  BY Parts DEF Typed, TypedTable
<1>4. MarkerBuffer # None => MarkerBuffer.buffer \in Buffers
  BY Parts DEF TypedQueues, Entries
<1>5. TypedTable'
  <2>1. owners' \in [Buffers -> Int]
    BY <1>1, <1>3, <1>4
  <2> QED
    BY <1>1, <2>1, Parts DEF TypedTable
<1>6. TypedQueues' /\ TypedSteps' /\ TypedStream'
  BY <1>1, <1>2, Parts DEF TypedQueues, TypedSteps, TypedStream, PtoDSteps
<1>7. Turns' /\ Holding' /\ Discards'
  BY <1>1, <1>2, Parts DEF Turns, Holding, Discards, GivenUp, Decoders
<1>8. CurrentOpen'
  BY <1>1, <1>2, Parts DEF CurrentOpen, Closing, GivingUp, Decoders
<1>9. Preparation'
  BY <1>1, <1>2, Parts DEF Preparation
<1>10. MapSound'
  BY <1>1, Parts, CalmMap DEF TypedStream
<1>11. CurrentMapped' /\ NotMappedYet'
  BY <1>1, <1>2 DEF CurrentMapped, NotMappedYet, Partial
<1>12. Accounts'
  <2> SUFFICES ASSUME NEW b \in Buffers PROVE Account(b)'
    BY DEF Accounts
  <2>1. Account(b)
    BY Parts DEF Accounts
  <2>2. /\ Decoding(b)' <=> Decoding(b)
        /\ Sending(b)' <=> Sending(b)
        /\ AtMap(b)' <=> AtMap(b)
        /\ ~AtMarker(b)'
    BY <1>1, <1>2 DEF Decoding, Sending, AtMap, AtMarker, Decoders
  <2>3. /\ Named(b)' = Named(b) /\ Count(Decoding(b))' = Count(Decoding(b)) /\ Passed(b)' = Passed(b)
        /\ Pending(b)' = Pending(b)
    BY <1>1, <2>2, SameNames DEF Passed, Pending, Count
  <2>4. /\ Cardinality(Places(OutputRing, Markers(b))) \in Nat /\ Count(AtMap(b)) \in Nat
        /\ Count(AtMarker(b)) \in {0, 1} /\ owners[b] \in Int
    BY <1>3, Numbers DEF Count
  <2>5. Carried(b)' = Count(AtMap(b)) + 0 + Cardinality(Places(OutputRing, Markers(b)))
    BY <1>1, <2>2 DEF Carried, Count
  <2>6. PICK d \in {-1, 0} : d = 0 - Count(AtMarker(b))
    BY <2>4
  <2>7. Carried(b)' = Carried(b) + d
    BY <2>4, <2>5, <2>6 DEF Carried
  <2>8. owners'[b] = owners[b] + d
    <3>1. CASE AtMarker(b)
      BY <1>1, <1>3, <2>4, <2>6, <3>1 DEF AtMarker, Count
    <3>2. CASE ~AtMarker(b)
      BY <1>1, <1>3, <1>4, <2>4, <2>6, <3>2 DEF AtMarker, Count
    <3> QED
      BY <3>1, <3>2
  <2>9. d < 0 => Carried(b) > 0
    BY <2>4, <2>6 DEF Carried
  <2> QED
    BY <1>1, <1>3, <2>1, <2>3, <2>6, <2>7, <2>8, <2>9, CarriedAccount
<1> QED
  BY <1>5, <1>6, <1>7, <1>8, <1>9, <1>10, <1>11, <1>12 DEF RInv, Typed, Control, Mapped

\* A buffer without a picture stands for the marker.
LEMMA RGetMarkerBuffer ==
    ASSUME RInv, GetMarkerBuffer
    PROVE  RInv'
<1>1. /\ pc["PtoD"] = "getMarker" /\ pc' = [pc EXCEPT !["PtoD"] = "test"]
      /\ UNCHANGED <<BufferState, map, Current, OutputRing, shown, commands, context, picture,
                     pictures, references>>
  BY DEF GetMarkerBuffer, Goto, Current, output, mme, stream
<1>2. PICK b \in Buffers : /\ owners[b] = 0 /\ owners' = [owners EXCEPT ![b] = 1]
                           /\ MarkerBuffer' = Entry(b, pictures, TRUE)
  BY DEF GetMarkerBuffer, Obtain
<1>3. /\ pc' = [u \in Threads |-> pc'[u]] /\ pc'["PtoD"] = "test"
      /\ pc'["MME"] = pc["MME"] /\ pc'["drain"] = pc["drain"]
  BY <1>1, PtoDMoves
<1>4. Typed /\ owners \in [Buffers -> Int] /\ MarkerBuffer = None /\ pictures \in Nat
  BY <1>1, Parts DEF Typed, TypedTable, TypedQueues, TypedStream
<1>5. TypedTable'
  BY <1>1, <1>2, <1>4, Parts DEF TypedTable
<1>6. TypedQueues' /\ TypedSteps' /\ TypedStream'
  <2>1. MarkerBuffer' \in Entries /\ MarkerBuffer'.marker
    BY <1>2, <1>4 DEF Entry, Entries
  <2> QED
    BY <1>1, <1>3, <2>1, Parts DEF TypedQueues, TypedSteps, TypedStream, PtoDSteps
<1>7. Turns' /\ Holding' /\ Discards'
  BY <1>1, <1>3, Parts DEF Turns, Holding, Discards, GivenUp, Decoders
<1>8. CurrentOpen'
  BY <1>1, <1>3, Parts DEF CurrentOpen, Closing, GivingUp, Decoders
<1>9. Preparation'
  BY <1>1, <1>3, Parts DEF Preparation
<1>10. MapSound'
  BY <1>1, Parts, CalmMap DEF TypedStream
<1>11. CurrentMapped' /\ NotMappedYet'
  BY <1>1, <1>3 DEF CurrentMapped, NotMappedYet, Partial
<1>12. MarkerBuffer'.buffer = b /\ MarkerBuffer' # None
  <2>1. MarkerBuffer' \in [buffer : Buffers, n : Nat, marker : BOOLEAN]
    BY <1>2, <1>4 DEF Entry
  <2> QED
    BY <1>2, <2>1, NoneAssumption DEF Entry
<1>13. Accounts'
  <2> SUFFICES ASSUME NEW c \in Buffers PROVE Account(c)'
    BY DEF Accounts
  <2>1. Account(c)
    BY Parts DEF Accounts
  <2>2. /\ Decoding(c)' <=> Decoding(c)
        /\ Sending(c)' <=> Sending(c)
        /\ AtMap(c)' <=> AtMap(c)
        /\ ~AtMarker(c) /\ (AtMarker(c)' <=> b = c)
    BY <1>1, <1>3, <1>4, <1>12 DEF Decoding, Sending, AtMap, AtMarker, Decoders
  <2>3. /\ Named(c)' = Named(c) /\ Count(Decoding(c))' = Count(Decoding(c)) /\ Passed(c)' = Passed(c)
        /\ Pending(c)' = Pending(c)
    BY <1>1, <2>2, SameNames DEF Passed, Pending, Count
  <2>4. /\ Cardinality(Places(OutputRing, Markers(c))) \in Nat /\ Count(AtMap(c)) \in Nat
        /\ owners[c] \in Int
    BY <1>4, Numbers DEF Count
  <2>5. Carried(c) = Count(AtMap(c)) + 0 + Cardinality(Places(OutputRing, Markers(c)))
    BY <2>2 DEF Carried, Count
  <2>6. Carried(c)' = Count(AtMap(c)) + Count(b = c) + Cardinality(Places(OutputRing, Markers(c)))
    BY <1>1, <2>2 DEF Carried, Count
  <2>7. PICK d \in {0, 1} : d = Count(b = c)
    BY DEF Count
  <2>8. Carried(c)' = Carried(c) + d
    BY <2>4, <2>5, <2>6, <2>7
  <2>9. owners'[c] = owners[c] + d /\ (d > 0 => owners[c] = 0)
    BY <1>2, <1>4, <2>4, <2>7 DEF Count
  <2> QED
    BY <1>1, <1>4, <2>1, <2>3, <2>7, <2>8, <2>9, CarriedAccount
<1> QED
  BY <1>5, <1>6, <1>7, <1>8, <1>9, <1>10, <1>11, <1>13 DEF RInv, Typed, Control, Mapped

\* The marker moves from the codec into the output ring.
LEMMA RTakeMarker ==
    ASSUME RInv, NEW t \in Decoders, TakeMarkerBuffer(t)
    PROVE  RInv'
<1>1. /\ pc[t] = "take" /\ pc' = [pc EXCEPT ![t] = "idle"]
      /\ MarkerBuffer' = None
      /\ OutputRing' = (IF MarkerBuffer = None THEN OutputRing ELSE Append(OutputRing, MarkerBuffer))
      /\ UNCHANGED <<owners, BufferState, map, Current, shown, commands, context, picture,
                     pictures, references>>
  BY DEF TakeMarkerBuffer, Goto, Current, table, mme, stream
<1>2. /\ pc' = [u \in Threads |-> pc'[u]] /\ pc'[t] = "idle" /\ pc'["drain"] = pc["drain"]
      /\ \A u \in Decoders : u # t => pc'[u] = pc[u]
  BY <1>1, Parts DEF TypedSteps, Threads, Decoders
<1>3. Typed /\ OutputRing \in Seq(Entries)
      /\ (MarkerBuffer # None => MarkerBuffer \in Entries /\ MarkerBuffer.marker)
  BY Parts DEF Typed, TypedQueues
<1>4. TypedTable' /\ TypedStream'
  BY <1>1, Parts DEF TypedTable, TypedStream
<1>5. OutputRing' \in Seq(Entries)
  <2>1. CASE MarkerBuffer = None
    BY <1>1, <1>3, <2>1
  <2>2. CASE MarkerBuffer # None
    <3>1. MarkerBuffer \in Entries /\ OutputRing' = Append(OutputRing, MarkerBuffer)
      BY <1>1, <1>3, <2>2
    <3> QED
      BY <1>3, <3>1
  <2> QED
    BY <2>1, <2>2
<1>6. TypedQueues' /\ TypedSteps'
  BY <1>1, <1>2, <1>5, Parts DEF TypedQueues, TypedSteps, PtoDSteps, MMESteps, Decoders
<1>7. Turns' /\ Holding' /\ Discards'
  BY <1>1, <1>2, Parts DEF Turns, Holding, Discards, GivenUp, Decoders
<1>8. CurrentOpen'
  BY <1>1, <1>2, Parts DEF CurrentOpen, Closing, GivingUp, Decoders
<1>9. Preparation'
  BY <1>1, <1>2, Parts DEF Preparation, GivingUp, Decoders
<1>10. MapSound'
  BY <1>1, Parts, CalmMap DEF TypedStream
<1>11. CurrentMapped' /\ NotMappedYet'
  BY <1>1, <1>2, Parts DEF CurrentMapped, NotMappedYet, Partial, Decoders
<1>12. Accounts'
  <2> SUFFICES ASSUME NEW b \in Buffers PROVE Account(b)'
    BY DEF Accounts
  <2>1. Account(b)
    BY Parts DEF Accounts
  <2>2. /\ Decoding(b)' <=> Decoding(b)
        /\ Sending(b)' <=> Sending(b)
        /\ AtMap(b)' <=> AtMap(b)
        /\ ~AtMarker(b)'
    BY <1>1, <1>2 DEF Decoding, Sending, AtMap, AtMarker, Decoders
  <2>3. /\ Named(b)' = Named(b) /\ Count(Decoding(b))' = Count(Decoding(b)) /\ Pending(b)' = Pending(b)
        /\ Count(AtMap(b))' = Count(AtMap(b)) /\ Count(AtMarker(b))' = 0
    BY <1>1, <2>2, SameNames DEF Pending, Count
  <2>4. /\ Cardinality(Places(OutputRing, Markers(b))) \in Nat /\ Count(AtMap(b)) \in Nat
        /\ Cardinality(Places(OutputRing, Ours(b))) \in Nat /\ shown[b] \in Nat
        /\ Count(AtMarker(b)) \in {0, 1}
    BY <1>3, Numbers DEF Count
  <2>5. /\ Cardinality(Places(OutputRing', Markers(b)))
             = Cardinality(Places(OutputRing, Markers(b))) + Count(AtMarker(b))
        /\ Cardinality(Places(OutputRing', Ours(b))) = Cardinality(Places(OutputRing, Ours(b)))
    <3>1. CASE MarkerBuffer = None
      <4>1. Count(AtMarker(b)) = 0 /\ OutputRing' = OutputRing
        BY <1>1, <3>1 DEF AtMarker, Count
      <4> QED
        BY <2>4, <4>1
    <3>2. CASE MarkerBuffer # None
      <4>1. MarkerBuffer \in Entries /\ OutputRing' = Append(OutputRing, MarkerBuffer) /\ MarkerBuffer.marker
        BY <1>1, <1>3, <3>2
      <4>2. /\ Cardinality(Places(OutputRing', Markers(b)))
                  = Cardinality(Places(OutputRing, Markers(b))) + Count(MarkerBuffer \in Markers(b))
            /\ Cardinality(Places(OutputRing', Ours(b)))
                  = Cardinality(Places(OutputRing, Ours(b))) + Count(MarkerBuffer \in Ours(b))
        BY <1>3, <4>1, PlacesAppend
      <4>3. Count(MarkerBuffer \in Markers(b)) = Count(AtMarker(b)) /\ Count(MarkerBuffer \in Ours(b)) = 0
        BY <3>2, <4>1 DEF Markers, Ours, AtMarker, Count
      <4> QED
        BY <2>4, <4>2, <4>3
    <3> QED
      BY <3>1, <3>2
  <2>6. Passed(b)' = Passed(b)
    BY <1>1, <2>5 DEF Passed
  <2>7. Carried(b)' = Carried(b)
    BY <2>3, <2>4, <2>5 DEF Carried
  <2> QED
    BY <1>1, <2>1, <2>3, <2>6, <2>7, SameAccount
<1> QED
  BY <1>4, <1>6, <1>7, <1>8, <1>9, <1>10, <1>11, <1>12 DEF RInv, Typed, Control, Mapped

-----------------------------------------------------------------------------
(* Preparing a decode *)

\* The buffer comes before its data: until it is mapped it is only carried.
LEMMA RGetDecodeBuffer ==
    ASSUME RInv, Serialized, GetDecodeBuffer
    PROVE  RInv'
<1>1. /\ pc["PtoD"] = "buffer" /\ pc' = [pc EXCEPT !["PtoD"] = "map"]
      /\ Current = None
      /\ UNCHANGED <<BufferState, map, Current, OutputRing, shown, commands, context, MarkerBuffer,
                     pictures, references>>
  BY DEF GetDecodeBuffer, Goto, Current, output, mme, stream, marking
<1>2. PICK b \in Buffers : /\ b \notin Compared
                           /\ owners[b] = 0 /\ owners' = [owners EXCEPT ![b] = 1]
                           /\ picture' = [picture EXCEPT !.buffer = b]
  BY DEF GetDecodeBuffer, Obtain
<1>3. /\ pc' = [u \in Threads |-> pc'[u]] /\ pc'["PtoD"] = "map"
      /\ pc'["MME"] = pc["MME"] /\ pc'["drain"] = pc["drain"]
  BY <1>1, PtoDMoves
<1>4. Typed /\ owners \in [Buffers -> Int] /\ picture \in Pictures
  BY Parts DEF Typed, TypedTable, TypedStream
<1>5. /\ picture'.buffer = b /\ picture'.n = picture.n /\ picture'.list = picture.list
      /\ picture'.last = picture.last /\ picture'.then = picture.then /\ picture' \in Pictures
  BY <1>2, <1>4 DEF Pictures
<1>6. TypedTable'
  BY <1>1, <1>2, <1>4, Parts DEF TypedTable
<1>7. TypedQueues' /\ TypedSteps' /\ TypedStream'
  BY <1>1, <1>3, <1>5, Parts DEF TypedQueues, TypedSteps, TypedStream, PtoDSteps
<1>8. Turns' /\ Holding' /\ Discards'
  BY <1>1, <1>3, Parts DEF Turns, Holding, Discards, GivenUp, Decoders
<1>9. CurrentOpen'
  BY <1>1 DEF CurrentOpen
<1>10. ~BufferState[b].Buffer /\ ~Decoding(b)
  BY <1>2, Fresh
<1>11. ~GivingUp(b)'
  <2>1. ~\E u \in Decoders : pc[u] = "discard" /\ context[u].buffer = b
    BY <1>10 DEF Decoding
  <2>2. ~\E u \in {"PtoD", "MME"} : pc[u] = "compare" /\ context[u].buffer = b
    BY <1>2 DEF Compared
  <2> QED
    BY <1>1, <1>3, <2>1, <2>2 DEF GivingUp, Decoders
<1>12. Preparation'
  <2>1. b # None
    BY NoneAssumption
  <2> QED
    BY <1>1, <1>3, <1>5, <1>10, <1>11, <2>1, Parts DEF Preparation
<1>13. MapSound'
  BY <1>1, Parts, CalmMap DEF TypedStream
<1>14. CurrentMapped' /\ NotMappedYet'
  BY <1>1, <1>3, <1>5, Parts DEF CurrentMapped, NotMappedYet, Partial
<1>15. Accounts'
  <2> SUFFICES ASSUME NEW c \in Buffers PROVE Account(c)'
    BY DEF Accounts
  <2>1. Account(c)
    BY Parts DEF Accounts
  <2>2. /\ Decoding(c)' <=> Decoding(c)
        /\ Sending(c)' <=> Sending(c)
        /\ AtMarker(c)' <=> AtMarker(c)
        /\ ~AtMap(c) /\ (AtMap(c)' <=> b = c)
    BY <1>1, <1>3, <1>5 DEF Decoding, Sending, AtMap, AtMarker, Decoders
  <2>3. /\ Named(c)' = Named(c) /\ Count(Decoding(c))' = Count(Decoding(c)) /\ Passed(c)' = Passed(c)
        /\ Pending(c)' = Pending(c)
    BY <1>1, <2>2, SameNames DEF Passed, Pending, Count
  <2>4. /\ Cardinality(Places(OutputRing, Markers(c))) \in Nat /\ Count(AtMarker(c)) \in Nat
        /\ owners[c] \in Int
    BY <1>4, Numbers DEF Count
  <2>5. Carried(c) = 0 + Count(AtMarker(c)) + Cardinality(Places(OutputRing, Markers(c)))
    BY <2>2 DEF Carried, Count
  <2>6. Carried(c)' = Count(b = c) + Count(AtMarker(c)) + Cardinality(Places(OutputRing, Markers(c)))
    BY <1>1, <2>2 DEF Carried, Count
  <2>7. PICK d \in {0, 1} : d = Count(b = c)
    BY DEF Count
  <2>8. Carried(c)' = Carried(c) + d
    BY <2>4, <2>5, <2>6, <2>7
  <2>9. owners'[c] = owners[c] + d /\ (d > 0 => owners[c] = 0)
    BY <1>2, <1>4, <2>4, <2>7 DEF Count
  <2> QED
    BY <1>1, <1>4, <2>1, <2>3, <2>7, <2>8, <2>9, CarriedAccount
<1> QED
  BY <1>6, <1>7, <1>8, <1>9, <1>12, <1>13, <1>14, <1>15 DEF RInv, Typed, Control, Mapped

\* The new entry of the map: the index is the picture's.
LEMMA MapGrows ==
    ASSUME RInv, NEW b \in Buffers, pc["PtoD"] \in {"buffer", "map"},
           map' = map \cup {<<picture.n, b>>},
           UNCHANGED <<commands, context, pictures>>
    PROVE  MapSound'
<1>1. MapSound /\ picture.n \in 1..pictures /\ \A p \in map : p[1] # picture.n
  BY Parts DEF NotMappedYet
<1>2. map \subseteq map' /\ \A p \in map' : p \in map \/ p = <<picture.n, b>>
  OBVIOUS
<1>3. map' \subseteq (1..pictures') \X Buffers
  BY <1>1, <1>2 DEF MapSound
<1>4. ASSUME NEW p \in map', NEW q \in map', p[1] = q[1] PROVE p = q
  BY <1>1, <1>2, <1>4 DEF MapSound
<1>5. \A t \in Decoders : RefsMapped(context[t])'
  BY <1>1, <1>2 DEF MapSound, RefsMapped
<1>6. \A k \in DOMAIN commands : RefsMapped(commands[k])'
  BY <1>1, <1>2 DEF MapSound, RefsMapped
<1>7. \A k \in DOMAIN commands : <<commands[k].n, commands[k].buffer>> \in map'
  BY <1>1, <1>2 DEF MapSound
<1> QED
  BY <1>3, <1>4, <1>5, <1>6, <1>7 DEF MapSound

\* The second field goes into the current buffer, which is open.
LEMMA RMapSecond ==
    ASSUME RInv, MapSecond
    PROVE  RInv'
<1>1. /\ pc["PtoD"] = "buffer" /\ pc' = [pc EXCEPT !["PtoD"] = "translate"]
      /\ Current # None /\ map' = map \cup {<<picture.n, Current>>}
      /\ UNCHANGED <<owners, BufferState, Current, OutputRing, shown, commands, context, MarkerBuffer,
                     picture, pictures, references>>
  BY DEF MapSecond, MapBufferToDecodeIndex, Goto, Current, output, mme, stream, marking
<1>2. /\ pc' = [u \in Threads |-> pc'[u]] /\ pc'["PtoD"] = "translate"
      /\ pc'["MME"] = pc["MME"] /\ pc'["drain"] = pc["drain"]
  BY <1>1, PtoDMoves
<1>3. Current \in Buffers /\ ~Closing /\ BufferState[Current].Buffer
  BY <1>1, WhoDecodes, Parts DEF CurrentOpen, TypedTable
<1>4. TypedTable' /\ TypedQueues' /\ TypedSteps' /\ TypedStream'
  BY <1>1, <1>2, Parts DEF TypedTable, TypedQueues, TypedSteps, TypedStream, PtoDSteps
<1>5. Turns' /\ Holding' /\ Discards'
  BY <1>1, <1>2, Parts DEF Turns, Holding, Discards, GivenUp, Decoders
<1>6. CurrentOpen'
  BY <1>1, <1>2, <1>3, Parts DEF CurrentOpen, GivingUp, Decoders
<1>7. Preparation'
  BY <1>1, <1>2, Parts DEF Preparation
<1>8. MapSound'
  BY <1>1, <1>3, MapGrows
<1>9. CurrentMapped' /\ NotMappedYet'
  BY <1>1, <1>2 DEF CurrentMapped, NotMappedYet, Partial
<1>10. Accounts'
  <2> SUFFICES ASSUME NEW c \in Buffers PROVE Account(c)'
    BY DEF Accounts
  <2>1. Account(c)
    BY Parts DEF Accounts
  <2>2. /\ Decoding(c)' <=> Decoding(c)
        /\ Sending(c)' <=> Sending(c)
        /\ AtMarker(c)' <=> AtMarker(c)
        /\ AtMap(c)' <=> AtMap(c)
    BY <1>1, <1>2 DEF Decoding, Sending, AtMap, AtMarker, Decoders
  <2>3. /\ Named(c)' = Named(c) /\ Count(Decoding(c))' = Count(Decoding(c)) /\ Passed(c)' = Passed(c)
        /\ Pending(c)' = Pending(c) /\ Carried(c)' = Carried(c)
    BY <1>1, <2>2, SameNames DEF Passed, Pending, Carried, Count
  <2>4. BufferState[c].Buffer \/ \A p \in map' : p[2] = c => p \in map
    BY <1>1, <1>3
  <2> QED
    BY <1>1, <2>1, <2>3, <2>4, SameAccount
<1> QED
  BY <1>4, <1>5, <1>6, <1>7, <1>8, <1>9, <1>10 DEF RInv, Typed, Control, Mapped

\* The buffer's reference is from now on held by the codec.
LEMMA RMapNew ==
    ASSUME RInv, MapNew
    PROVE  RInv'
<1> PICK b : b = picture.buffer
  OBVIOUS
<1>1. /\ pc["PtoD"] = "map" /\ pc' = [pc EXCEPT !["PtoD"] = "translate"]
      /\ Current' = b /\ map' = map \cup {<<picture.n, b>>}
      /\ BufferState' = [BufferState EXCEPT ![b] = [Unused EXCEPT !.Buffer = TRUE]]
      /\ UNCHANGED <<owners, OutputRing, shown, commands, context, MarkerBuffer,
                     picture, pictures, references>>
  BY DEF MapNew, MapBufferToDecodeIndex, Goto, Current, output, mme, stream, marking
<1>2. /\ pc' = [u \in Threads |-> pc'[u]] /\ pc'["PtoD"] = "translate"
      /\ pc'["MME"] = pc["MME"] /\ pc'["drain"] = pc["drain"]
  BY <1>1, PtoDMoves
<1>3. Typed /\ BufferState \in [Buffers -> States]
  BY Parts DEF Typed, TypedTable
<1>4. /\ b \in Buffers /\ b # None /\ ~BufferState[b].Buffer /\ ~GivingUp(b)
  BY <1>1, Parts DEF Preparation, TypedStream
<1>5. /\ BufferState' \in [Buffers -> States]
      /\ BufferState'[b].Buffer /\ ~BufferState'[b].OutputOnDecodesComplete
      /\ BufferState'[b].DecodesInProgress = 0 /\ BufferState'[b].ReferenceFrameCount = 0
      /\ \A c \in Buffers : c # b => BufferState'[c] = BufferState[c]
  BY <1>1, <1>3, <1>4 DEF Unused, States
<1>6. TypedTable' /\ TypedQueues' /\ TypedSteps' /\ TypedStream'
  BY <1>1, <1>2, <1>4, <1>5, Parts DEF TypedTable, TypedQueues, TypedSteps, TypedStream, PtoDSteps
<1>7. Turns' /\ Holding'
  BY <1>1, <1>2, Parts DEF Turns, Holding, Decoders
<1>8. Discards'
  <2>1. \A u \in Decoders : pc'[u] = "discard" => context[u].buffer \in Buffers /\ context[u].buffer # b
                                                  /\ pc[u] = "discard"
    BY <1>1, <1>2, <1>4, WhoDecodes DEF GivingUp, Decoders
  <2> QED
    BY <1>1, <1>2, <1>5, <2>1, Parts DEF Discards, GivenUp, Decoders
<1>9. CurrentOpen'
  <2>1. ~GivingUp(b)'
    BY <1>1, <1>2, <1>4 DEF GivingUp, Decoders
  <2> QED
    BY <1>1, <1>5, <2>1 DEF CurrentOpen, GivingUp
<1>10. Preparation'
  BY <1>1, <1>2, <1>4, Parts DEF Preparation
<1>11. MapSound'
  BY <1>1, <1>4, MapGrows
<1>12. CurrentMapped' /\ NotMappedYet'
  BY <1>1, <1>2 DEF CurrentMapped, NotMappedYet, Partial
<1>13. \A c \in Buffers : /\ Named(c)' = Named(c) /\ Passed(c)' = Passed(c) /\ Pending(c)' = Pending(c)
                          /\ (AtMarker(c)' <=> AtMarker(c))
  <2>1. \A c \in Buffers : Sending(c)' <=> Sending(c)
    BY <1>1, <1>2 DEF Sending
  <2> QED
    BY <1>1, <2>1, SameNames DEF Passed, Pending, Count, AtMarker
<1>14. ASSUME NEW c \in Buffers, c # b PROVE Account(c)'
  <2>1. Account(c)
    BY Parts DEF Accounts
  <2>2. BufferState'[c] = BufferState[c]
    BY <1>5, <1>14
  <2>3. /\ Decoding(c)' <=> Decoding(c)
        /\ AtMap(c)' <=> AtMap(c)
    BY <1>1, <1>2, <1>14, <2>2 DEF Decoding, AtMap, Decoders
  <2>4. Count(Decoding(c))' = Count(Decoding(c)) /\ Carried(c)' = Carried(c)
    BY <1>1, <1>13, <2>3 DEF Carried, Count
  <2>5. \A p \in map' : p[2] = c => p \in map
    BY <1>1, <1>14
  <2> QED
    BY <1>1, <1>13, <2>1, <2>2, <2>4, <2>5, SameAccount
<1>15. Account(b)'
  <2>1. /\ Account(b) /\ AtMap(b) /\ ~AtMap(b)'
    BY <1>1, <1>2, <1>4, Parts DEF Accounts, AtMap
  <2>2. /\ owners[b] = Held(b) + Carried(b) /\ Held(b) = 0 /\ Carried(b) <= 1
        /\ BufferState[b] = Unused /\ BufferState[b].DecodesInProgress = Pending(b)
    BY <1>4, <2>1 DEF Account
  <2>3. /\ Cardinality(Places(OutputRing, Markers(b))) \in Nat /\ Count(AtMarker(b)) \in Nat
        /\ Named(b) \in Nat /\ Passed(b) \in Nat /\ Count(Decoding(b)) \in Nat
        /\ Count(AtMap(b)) = 1
    BY <1>3, <1>4, <2>1, Numbers DEF Count
  <2>4. /\ Cardinality(Places(OutputRing, Markers(b))) = 0 /\ Count(AtMarker(b)) = 0 /\ Carried(b) = 1
    <3>1. Count(AtMap(b)) + Count(AtMarker(b)) + Cardinality(Places(OutputRing, Markers(b))) <= 1
      BY <2>2 DEF Carried
    <3>2. Cardinality(Places(OutputRing, Markers(b))) = 0
      BY <2>3, <3>1
    <3>3. Count(AtMarker(b)) = 0
      BY <2>3, <3>1
    <3> QED
      BY <2>3, <3>2, <3>3 DEF Carried
  <2>5. Carried(b)' = 0
    <3>1. Count(AtMarker(b))' = 0 /\ Count(AtMap(b))' = 0
      BY <1>4, <1>13, <2>1, <2>4 DEF Count
    <3> QED
      BY <1>1, <2>4, <3>1 DEF Carried
  <2>6. Named(b) = 0 /\ Passed(b) = 0
    <3>1. 0 + Named(b) + Count(Decoding(b)) + Passed(b) = 0
      BY <2>2 DEF Held, Unused
    <3>2. Named(b) = 0
      BY <2>3, <3>1
    <3> QED
      BY <2>3, <3>1, <3>2
  <2>7. Decoding(b)'
    BY <1>5 DEF Decoding
  <2>8. Count(Decoding(b))' = 1
    BY <2>7 DEF Count
  <2>9. Held(b)' = 1
    BY <1>4, <1>5, <1>13, <2>6, <2>8 DEF Held
  <2>10. owners'[b] = Held(b)' + Carried(b)'
    BY <1>1, <2>2, <2>4, <2>5, <2>9
  <2>11. Count(Decoding(b))' + Passed(b)' <= 1
    BY <1>4, <1>13, <2>6, <2>8
  <2>12. BufferState'[b].DecodesInProgress = Pending(b)'
    BY <1>4, <1>5, <1>13, <2>2 DEF Unused
  <2> QED
    BY <1>4, <1>5, <2>5, <2>9, <2>10, <2>11, <2>12, NewAccount
<1>16. Accounts'
  BY <1>14, <1>15 DEF Accounts
<1> QED
  BY <1>6, <1>7, <1>8, <1>9, <1>10, <1>11, <1>12, <1>16 DEF RInv, Typed, Control, Mapped

\* The list of a picture's references is a sequence.
LEMMA ListIsSequence ==
    ASSUME NEW S, IsFiniteSet(S)
    PROVE  Cardinality(S) \in Nat /\ SetToSeq(S) \in [1..Cardinality(S) -> S]
<1>1. Cardinality(S) \in Nat /\ ExistsBijection(1..Cardinality(S), S)
  BY FS_CardinalityType
<1>2. PICK f : f \in Bijection(1..Cardinality(S), S)
  BY <1>1 DEF ExistsBijection
<1>3. f \in [1..Cardinality(S) -> S] /\ IsInjective(f)
  BY <1>2 DEF Bijection, Injection, Surjection, IsInjective
<1> QED
  BY <1>1, <1>3 DEF SetToSeq

\* Each index translates to an entry of the map.
LEMMA Translated ==
    ASSUME RInv, pc["PtoD"] = "translate",
           NEW refs, refs = SetToSeq(picture.list),
           NEW list, list = [i \in DOMAIN refs |-> Translate(refs[i])]
    PROVE  list \in References /\ \A i \in DOMAIN list : list[i] \in map
<1>1. Typed /\ MapSound /\ CurrentMapped /\ pictures \in Nat /\ picture.list \subseteq 1..pictures
  BY Parts DEF Typed, TypedStream
<1>2. IsFiniteSet(picture.list)
  <2>1. IsFiniteSet(1..pictures)
    BY <1>1, FS_Interval
  <2> QED
    BY <1>1, <2>1, FS_Subset
<1>3. Cardinality(picture.list) \in Nat /\ DOMAIN refs = 1..Cardinality(picture.list)
  BY <1>2, ListIsSequence
<1>4. ASSUME NEW d PROVE Translate(d) \in map
  <2>1. CASE \E b \in Buffers : <<d, b>> \in map
    BY <2>1 DEF Translate
  <2>2. CASE ~\E b \in Buffers : <<d, b>> \in map
    <3>1. Translate(d) = <<picture.n, Current>>
      BY <2>2 DEF Translate, Current
    <3> QED
      BY <1>1, <3>1 DEF CurrentMapped
  <2> QED
    BY <2>1, <2>2
<1>5. \A i \in DOMAIN list : list[i] \in map
  BY <1>4
<1>6. map \subseteq Nat \X Buffers
  <2>1. 1..pictures \subseteq Nat
    BY <1>1
  <2> QED
    BY <1>1, <2>1 DEF MapSound
<1>7. list \in [1..Cardinality(picture.list) -> Nat \X Buffers]
  <2>1. \A i \in DOMAIN refs : Translate(refs[i]) \in Nat \X Buffers
    BY <1>4, <1>6
  <2> QED
    BY <1>3, <2>1
<1>8. list \in Seq(Nat \X Buffers)
  <2> PICK S : S = Nat \X Buffers
    OBVIOUS
  <2>1. list \in [1..Cardinality(picture.list) -> S]
    BY <1>7
  <2>2. list \in Seq(S)
    BY <1>3, <2>1
  <2> QED
    BY <2>2
<1> QED
  BY <1>5, <1>8 DEF References

\* The references that the table counts are those that the decode holds.
LEMMA RTranslate ==
    ASSUME RInv, TranslateReferenceFrameLists
    PROVE  RInv'
<1> PICK refs : refs = SetToSeq(picture.list)
  OBVIOUS
<1> PICK list : list = [i \in DOMAIN refs |-> Translate(refs[i])]
  OBVIOUS
<1> PICK self : self = (IF picture.ref THEN 1 ELSE 0)
  OBVIOUS
<1>1. pc["PtoD"] = "translate" /\ Current # None
  BY Parts DEF TranslateReferenceFrameLists, Preparation
<1>2. /\ pc' = [pc EXCEPT !["PtoD"] = "launch"]
      /\ BufferState' = [BufferState EXCEPT ![Current].ReferenceFrameCount = @ + self]
      /\ owners' = [b \in Buffers |-> owners[b] + Times(list, b) + IF b = Current THEN self ELSE 0]
      /\ context' = [context EXCEPT !["PtoD"] = [n |-> picture.n, buffer |-> Current, refs |-> list]]
      /\ UNCHANGED <<map, Current, OutputRing, shown, commands, MarkerBuffer, picture, pictures,
                     references>>
  BY <1>1 DEF TranslateReferenceFrameLists, ReferencesAdded, Current, output, mme, stream, marking
<1>3. /\ pc' = [u \in Threads |-> pc'[u]] /\ pc'["PtoD"] = "launch"
      /\ pc'["MME"] = pc["MME"] /\ pc'["drain"] = pc["drain"]
  BY <1>2, PtoDMoves
<1>4. Typed /\ BufferState \in [Buffers -> States] /\ owners \in [Buffers -> Int]
      /\ context \in [Decoders -> Decode \cup {NoContext}] /\ picture.n \in Nat
  BY Parts DEF Typed, TypedTable, TypedQueues, TypedStream
<1>5. list \in References /\ \A i \in DOMAIN list : list[i] \in map
  BY <1>1, Translated
<1>6. self \in {0, 1}
  OBVIOUS
<1>7. ~Closing /\ Current \in Buffers /\ BufferState[Current].Buffer
      /\ ~BufferState[Current].OutputOnDecodesComplete /\ ~GivingUp(Current)
  BY <1>1, WhoDecodes, Parts DEF CurrentOpen
<1>8. /\ context'["PtoD"] \in Decode
      /\ context'["PtoD"].n = picture.n /\ context'["PtoD"].buffer = Current /\ context'["PtoD"].refs = list
      /\ context'["MME"] = context["MME"]
      /\ context' \in [Decoders -> Decode \cup {NoContext}]
  <2>1. [n |-> picture.n, buffer |-> Current, refs |-> list] \in Decode
    BY <1>4, <1>5, <1>7 DEF Decode
  <2> QED
    BY <1>2, <1>4, <2>1 DEF Decoders
<1>9. /\ BufferState' \in [Buffers -> States]
      /\ BufferState'[Current].ReferenceFrameCount = BufferState[Current].ReferenceFrameCount + self
      /\ \A c \in Buffers : /\ BufferState'[c].Buffer = BufferState[c].Buffer
                            /\ BufferState'[c].OutputOnDecodesComplete = BufferState[c].OutputOnDecodesComplete
                            /\ BufferState'[c].DecodesInProgress = BufferState[c].DecodesInProgress
                            /\ c # Current => BufferState'[c] = BufferState[c]
  <2>1. BufferState[Current] \in States /\ BufferState[Current].ReferenceFrameCount + self \in Nat
    BY <1>4, <1>6, <1>7, Numbers
  <2> QED
    BY <1>2, <1>4, <1>7, <2>1 DEF States
<1>10. TypedTable'
  <2>1. \A b \in Buffers : owners'[b] \in Int
    <3> TAKE b \in Buffers
    <3>1. Times(list, b) \in Nat /\ owners[b] \in Int
      BY <1>4, <1>5, TimesFinite
    <3> QED
      BY <1>2, <1>6, <3>1
  <2>2. owners' \in [Buffers -> Int]
    BY <1>2, <2>1
  <2> QED
    BY <1>2, <1>9, <2>2, Parts DEF TypedTable
<1>11. TypedQueues' /\ TypedSteps' /\ TypedStream'
  BY <1>2, <1>3, <1>8, Parts DEF TypedQueues, TypedSteps, TypedStream, PtoDSteps
<1>12. Turns' /\ Holding'
  BY <1>1, <1>3, <1>8, Parts DEF Turns, Holding
<1>13. Discards'
  <2>1. pc["MME"] = "discard" => context["MME"].buffer \in Buffers
    BY WhoDecodes DEF Decoders
  <2> QED
    BY <1>3, <1>8, <1>9, <2>1, Parts DEF Discards, GivenUp, Decoders
<1>14. CurrentOpen'
  BY <1>2, <1>3, <1>7, <1>8, <1>9 DEF CurrentOpen, GivingUp, Decoders
<1>15. Preparation'
  BY <1>1, <1>2, <1>3, <1>8, Parts DEF Preparation
<1>16. MapSound'
  <2>1. RefsMapped(context["PtoD"])'
    BY <1>2, <1>5, <1>8 DEF RefsMapped
  <2>2. RefsMapped(context["MME"])'
    BY <1>2, <1>8, Parts DEF RefsMapped, MapSound, Decoders
  <2>3. \A k \in DOMAIN commands : RefsMapped(commands[k])'
    BY <1>2, Parts DEF RefsMapped, MapSound
  <2> QED
    BY <1>2, <2>1, <2>2, <2>3, Parts DEF MapSound, Decoders
<1>17. CurrentMapped' /\ NotMappedYet'
  BY <1>1, <1>2, <1>3, <1>8, Parts DEF CurrentMapped, NotMappedYet, Partial
<1>18. Accounts'
  <2> SUFFICES ASSUME NEW b \in Buffers PROVE Account(b)'
    BY DEF Accounts
  <2> PICK s : s = (IF b = Current THEN self ELSE 0)
    OBVIOUS
  <2>1. Account(b)
    BY Parts DEF Accounts
  <2>2. /\ Decoding(b)' <=> Decoding(b)
        /\ Sending(b)' <=> Sending(b)
        /\ AtMarker(b)' <=> AtMarker(b)
        /\ AtMap(b)' <=> AtMap(b)
    BY <1>1, <1>2, <1>3, <1>8, <1>9 DEF Decoding, Sending, AtMap, AtMarker, Decoders
  <2>3. /\ Count(Decoding(b))' = Count(Decoding(b)) /\ Passed(b)' = Passed(b)
        /\ Pending(b)' = Pending(b) /\ Carried(b)' = Carried(b)
    BY <1>2, <2>2 DEF Passed, Pending, Carried, Count
  <2>4. /\ Named(b) \in Nat /\ Times(list, b) \in Nat /\ owners[b] \in Int /\ s \in {0, 1}
        /\ BufferState[b].ReferenceFrameCount \in Nat
        /\ Count(Decoding(b)) \in Nat /\ Passed(b) \in Nat /\ Held(b) \in Nat /\ Carried(b) \in Nat
    <3>1. Count(Decoding(b)) \in {0, 1}
      BY <1>4, Numbers
    <3>2. s \in {0, 1}
      BY <1>6
    <3>3. Times(list, b) \in Nat
      BY <1>5, TimesFinite
    <3>4. /\ Named(b) \in Nat /\ owners[b] \in Int /\ BufferState[b].ReferenceFrameCount \in Nat
          /\ Passed(b) \in Nat /\ Held(b) \in Nat /\ Carried(b) \in Nat
      BY <1>4, Numbers
    <3> QED
      BY <3>1, <3>2, <3>3, <3>4
  <2>5. Named(b)' = Named(b) + Times(list, b)
    <3>1. context["PtoD"] = NoContext
      BY <1>1, Parts DEF Holding
    <3>2. Times(context["PtoD"].refs, b) = 0
      BY <3>1, NoRefs DEF NoContext
    <3>3. Named(b)' = Cardinality(Slots(commands, b)) + Times(list, b) + Times(context["MME"].refs, b)
      BY <1>2, <1>8 DEF Named, Queued, Slots
    <3>4. /\ Cardinality(Slots(commands, b)) \in Nat /\ Times(context["MME"].refs, b) \in Nat
          /\ Named(b) = Cardinality(Slots(commands, b)) + Times(context["PtoD"].refs, b)
                        + Times(context["MME"].refs, b)
      BY <1>4, Numbers
    <3> QED
      BY <2>4, <3>2, <3>3, <3>4
  <2>6. BufferState'[b].ReferenceFrameCount = BufferState[b].ReferenceFrameCount + s
    BY <1>9, <2>4
  <2>7. owners'[b] = owners[b] + Times(list, b) + s
    BY <1>2
  <2>8. Held(b) = BufferState[b].ReferenceFrameCount + Named(b) + Count(Decoding(b)) + Passed(b)
    BY DEF Held
  <2>9. Held(b)' = BufferState'[b].ReferenceFrameCount + Named(b)' + Count(Decoding(b))' + Passed(b)'
    BY DEF Held
  <2>10. Held(b)' = Held(b) + Times(list, b) + s
    BY <2>3, <2>4, <2>5, <2>6, <2>8, <2>9
  <2>11. owners'[b] = Held(b)' + Carried(b)'
    <3>1. owners[b] = Held(b) + Carried(b)
      BY <2>1 DEF Account
    <3> QED
      BY <2>3, <2>4, <2>7, <2>10, <3>1
  <2>12. Count(Decoding(b))' + Passed(b)' <= 1 /\ BufferState'[b].DecodesInProgress = Pending(b)'
    BY <1>9, <2>1, <2>3 DEF Account
  <2>13. CASE BufferState[b].Buffer
    <3>1. Held(b) > 0 /\ Carried(b) = 0
      BY <2>1, <2>13 DEF Account
    <3>2. Held(b)' > 0
      BY <2>4, <2>10, <3>1
    <3> QED
      BY <1>9, <2>3, <2>11, <2>12, <2>13, <3>1, <3>2, NewAccount
  <2>14. CASE ~BufferState[b].Buffer
    <3>1. b # Current
      BY <1>7, <2>14
    <3>2. \A p \in map : p[2] # b
      BY <2>1, <2>14 DEF Account
    <3>3. Times(list, b) = 0
      <4>1. {i \in DOMAIN list : list[i][2] = b} = {}
        BY <1>5, <3>2
      <4> QED
        BY <4>1, FS_EmptySet DEF Times
    <3>4. s = 0 /\ BufferState'[b] = BufferState[b]
      BY <1>9, <3>1
    <3>5. owners'[b] = owners[b] /\ Named(b)' = Named(b)
      BY <2>4, <2>5, <2>7, <3>3, <3>4
    <3> QED
      BY <1>2, <2>1, <2>3, <3>4, <3>5, SameAccount
  <2> QED
    BY <2>13, <2>14
<1> QED
  BY <1>10, <1>11, <1>12, <1>13, <1>14, <1>15, <1>16, <1>17, <1>18 DEF RInv, Typed, Control, Mapped

\* Another decode into the current buffer; the last one closes it.
LEMMA RLaunch ==
    ASSUME RInv, Launch
    PROVE  RInv'
<1> PICK fields : fields = BufferState[Current].Fields \cup Fields(picture.kind)
  OBVIOUS
<1> PICK last \in BOOLEAN : last = (fields = {1, 2})
  OBVIOUS
<1>1. pc["PtoD"] = "launch" /\ Current # None /\ context["PtoD"].buffer = Current
      /\ context["PtoD"] \in Decode
  BY Parts DEF Launch, Preparation, Holding
<1>2. /\ pc' = [pc EXCEPT !["PtoD"] = "send"]
      /\ BufferState' = [BufferState EXCEPT ![Current].DecodesInProgress = @ + 1,
                           ![Current].Fields = fields, ![Current].OutputOnDecodesComplete = last]
      /\ picture' = [picture EXCEPT !.last = last]
      /\ UNCHANGED <<owners, map, Current, OutputRing, shown, commands, MarkerBuffer, context, pictures,
                     references>>
  BY <1>1 DEF Launch, Current, output, mme, stream, marking
<1>3. /\ pc' = [u \in Threads |-> pc'[u]] /\ pc'["PtoD"] = "send"
      /\ pc'["MME"] = pc["MME"] /\ pc'["drain"] = pc["drain"]
  BY <1>2, PtoDMoves
<1>4. Typed /\ BufferState \in [Buffers -> States] /\ picture \in Pictures
  BY Parts DEF Typed, TypedTable, TypedStream
<1>5. /\ picture'.buffer = picture.buffer /\ picture'.n = picture.n /\ picture'.list = picture.list
      /\ picture'.last = last /\ picture'.then = picture.then /\ picture' \in Pictures
  BY <1>2, <1>4 DEF Pictures
<1>6. ~Closing /\ Current \in Buffers /\ BufferState[Current].Buffer
      /\ ~BufferState[Current].OutputOnDecodesComplete /\ ~GivingUp(Current)
  BY <1>1, WhoDecodes, Parts DEF CurrentOpen
<1>7. fields \in SUBSET {1, 2}
  <2>1. BufferState[Current].Fields \in SUBSET {1, 2}
    BY <1>4, <1>6 DEF States
  <2>2. Fields(picture.kind) \in SUBSET {1, 2}
    <3>1. picture.kind \in {"frame", "first", "second"}
      BY <1>4 DEF Pictures
    <3> QED
      BY <3>1 DEF Fields
  <2> QED
    BY <2>1, <2>2
<1>8. /\ BufferState' \in [Buffers -> States]
      /\ BufferState'[Current].Buffer
      /\ BufferState'[Current].OutputOnDecodesComplete = last
      /\ BufferState'[Current].DecodesInProgress = BufferState[Current].DecodesInProgress + 1
      /\ BufferState'[Current].ReferenceFrameCount = BufferState[Current].ReferenceFrameCount
      /\ \A c \in Buffers : c # Current => BufferState'[c] = BufferState[c]
  <2>1. BufferState[Current] \in States /\ BufferState[Current].DecodesInProgress + 1 \in Nat
    BY <1>4, <1>6, Numbers
  <2> QED
    BY <1>2, <1>4, <1>6, <1>7, <2>1 DEF States
<1>9. TypedTable' /\ TypedQueues' /\ TypedSteps' /\ TypedStream'
  BY <1>2, <1>3, <1>5, <1>8, Parts DEF TypedTable, TypedQueues, TypedSteps, TypedStream, PtoDSteps
<1>10. Turns' /\ Holding'
  BY <1>1, <1>2, <1>3, Parts DEF Turns, Holding
<1>11. Discards'
  <2>1. pc["MME"] = "discard" => context["MME"].buffer \in Buffers /\ context["MME"].buffer # Current
    BY <1>6, WhoDecodes DEF Decoders, GivingUp
  <2> QED
    BY <1>2, <1>3, <1>8, <2>1, Parts DEF Discards, GivenUp, Decoders
<1>12. CurrentOpen'
  BY <1>2, <1>3, <1>5, <1>6, <1>8 DEF CurrentOpen, GivingUp, Closing, Decoders
<1>13. Preparation'
  BY <1>1, <1>2, <1>3, <1>5, <1>8, Parts DEF Preparation
<1>14. MapSound'
  BY <1>2, Parts, CalmMap DEF TypedStream
<1>15. CurrentMapped' /\ NotMappedYet'
  BY <1>1, <1>2, <1>3, Parts DEF CurrentMapped, NotMappedYet, Partial
<1>16. ASSUME NEW c \in Buffers
       PROVE  /\ Sending(c)' <=> c = Current
              /\ ~Sending(c)
              /\ AtMarker(c)' <=> AtMarker(c)
              /\ AtMap(c)' <=> AtMap(c)
              /\ Decoding(c)' <=> Decoding(c)
  <2>1. /\ Sending(c)' <=> c = Current
        /\ ~Sending(c)
        /\ AtMarker(c)' <=> AtMarker(c)
        /\ AtMap(c)' <=> AtMap(c)
    BY <1>1, <1>2, <1>3, <1>5 DEF Sending, AtMap, AtMarker
  <2>2. CASE c # Current
    BY <1>1, <1>2, <1>3, <1>8, <2>1, <2>2 DEF Decoding, Decoders
  <2>3. CASE c = Current
    <3>1. BufferState[c].DecodesInProgress \in Nat
      BY <1>4, Numbers
    <3>2. BufferState'[c].DecodesInProgress > 0
      BY <1>8, <2>3, <3>1
    <3> QED
      BY <1>6, <1>8, <2>1, <2>3, <3>2 DEF Decoding
  <2> QED
    BY <2>1, <2>2, <2>3
<1>17. \A c \in Buffers : /\ Named(c)' = Named(c) /\ Passed(c)' = Passed(c) /\ Carried(c)' = Carried(c)
                          /\ Count(Decoding(c))' = Count(Decoding(c))
  BY <1>2, <1>16, SameNames DEF Passed, Carried, Count
<1>18. ASSUME NEW c \in Buffers, c # Current PROVE Account(c)'
  <2>1. Account(c)
    BY Parts DEF Accounts
  <2>2. BufferState'[c] = BufferState[c]
    BY <1>8, <1>18
  <2>3. Pending(c)' = Pending(c)
    BY <1>2, <1>16, <1>18 DEF Pending, Count
  <2>4. /\ Named(c)' = Named(c) /\ Passed(c)' = Passed(c) /\ Carried(c)' = Carried(c)
        /\ Count(Decoding(c))' = Count(Decoding(c))
    BY <1>17
  <2> QED
    BY <1>2, <2>1, <2>2, <2>3, <2>4, SameAccount
<1>19. ASSUME NEW c \in Buffers, c = Current PROVE Account(c)'
  <2>1. Account(c)
    BY Parts DEF Accounts
  <2>2. Pending(c)' = Pending(c) + 1
    <3>1. Pending(c) = Cardinality(Places(commands, Into(c))) + 0
      BY <1>16 DEF Pending, Count
    <3>2. Pending(c)' = Cardinality(Places(commands, Into(c))) + 1
      BY <1>2, <1>16, <1>19 DEF Pending, Count
    <3>3. Cardinality(Places(commands, Into(c))) \in Nat
      BY <1>4, Numbers
    <3> QED
      BY <3>1, <3>2, <3>3
  <2>3. /\ Named(c)' = Named(c) /\ Passed(c)' = Passed(c) /\ Carried(c)' = Carried(c)
        /\ Count(Decoding(c))' = Count(Decoding(c))
    BY <1>17
  <2>4. BufferState'[c].ReferenceFrameCount = BufferState[c].ReferenceFrameCount
    BY <1>8, <1>19
  <2>5. Held(c)' = Held(c)
    BY <2>3, <2>4 DEF Held
  <2>6. /\ owners'[c] = Held(c)' + Carried(c)' /\ Count(Decoding(c))' + Passed(c)' <= 1
    BY <1>2, <2>1, <2>3, <2>5 DEF Account
  <2>7. BufferState'[c].DecodesInProgress = Pending(c)'
    BY <1>8, <1>19, <2>1, <2>2 DEF Account
  <2>8. Held(c)' > 0 /\ Carried(c)' = 0 /\ BufferState'[c].Buffer
    BY <1>6, <1>8, <1>19, <2>1, <2>3, <2>5 DEF Account
  <2> QED
    BY <2>6, <2>7, <2>8, NewAccount
<1>20. Accounts'
  BY <1>18, <1>19 DEF Accounts
<1> QED
  BY <1>9, <1>10, <1>11, <1>12, <1>13, <1>14, <1>15, <1>20 DEF RInv, Typed, Control, Mapped

\* The decode goes to the co-processor, and takes its references along.
LEMMA RSend ==
    ASSUME RInv, SendMMEDecodeCommand
    PROVE  RInv'
<1> PICK c : c = context["PtoD"]
  OBVIOUS
<1>1. /\ pc["PtoD"] = "send" /\ pc' = [pc EXCEPT !["PtoD"] = "finish"]
      /\ commands' = Append(commands, c)
      /\ context' = [context EXCEPT !["PtoD"] = NoContext]
      /\ UNCHANGED <<owners, BufferState, map, Current, OutputRing, shown, MarkerBuffer, picture,
                     pictures, references>>
  BY DEF SendMMEDecodeCommand, Goto, Current, table, output, stream, marking
<1>2. /\ pc' = [u \in Threads |-> pc'[u]] /\ pc'["PtoD"] = "finish"
      /\ pc'["MME"] = pc["MME"] /\ pc'["drain"] = pc["drain"]
  BY <1>1, PtoDMoves
<1>3. Typed /\ commands \in Seq(Decode) /\ context \in [Decoders -> Decode \cup {NoContext}]
  BY Parts DEF Typed, TypedQueues
<1>4. c \in Decode
  BY <1>1, Parts DEF Holding
<1>5. /\ context' \in [Decoders -> Decode \cup {NoContext}] /\ context'["PtoD"] = NoContext
      /\ context'["MME"] = context["MME"]
  BY <1>1, <1>3 DEF Decoders
<1>6. /\ commands' \in Seq(Decode) /\ DOMAIN commands' = DOMAIN commands \cup {Len(commands) + 1}
      /\ commands'[Len(commands) + 1] = c
      /\ \A k \in DOMAIN commands : commands'[k] = commands[k]
  <2> PICK S : S = Decode
    OBVIOUS
  <2>1. commands \in Seq(S) /\ c \in S
    BY <1>3, <1>4
  <2>2. Append(commands, c) \in Seq(S)
    BY <2>1
  <2> QED
    BY <1>1, <2>1, <2>2
<1>7. TypedTable' /\ TypedQueues' /\ TypedSteps' /\ TypedStream'
  BY <1>1, <1>2, <1>5, <1>6, Parts DEF TypedTable, TypedQueues, TypedSteps, TypedStream, PtoDSteps
<1>8. Turns' /\ Holding' /\ Discards'
  BY <1>1, <1>2, <1>5, Parts DEF Turns, Holding, Discards, GivenUp, Decoders
<1>9. CurrentOpen'
  BY <1>1, <1>2, <1>5, Parts DEF CurrentOpen, Closing, GivingUp, Decoders
<1>10. Preparation'
  BY <1>1, <1>2, Parts DEF Preparation
<1>11. MapSound'
  <2>1. RefsMapped(context["PtoD"])'
    BY <1>5 DEF RefsMapped, NoContext
  <2>2. RefsMapped(context["MME"])'
    BY <1>1, <1>5, Parts DEF RefsMapped, MapSound, Decoders
  <2>3. RefsMapped(c)'
    BY <1>1, Parts DEF RefsMapped, MapSound, Decoders
  <2>4. <<c.n, c.buffer>> \in map
    BY <1>1, Parts DEF CurrentMapped
  <2>5. ASSUME NEW k \in DOMAIN commands'
        PROVE  <<commands'[k].n, commands'[k].buffer>> \in map' /\ RefsMapped(commands[k])'
    <3>1. CASE k \in DOMAIN commands
      BY <1>1, <1>6, <3>1, Parts DEF MapSound, RefsMapped
    <3>2. CASE k = Len(commands) + 1
      BY <1>1, <1>6, <2>3, <2>4, <3>2 DEF RefsMapped
    <3> QED
      BY <1>6, <3>1, <3>2
  <2> QED
    BY <1>1, <2>1, <2>2, <2>5, Parts DEF MapSound, Decoders
<1>12. CurrentMapped' /\ NotMappedYet'
  BY <1>1, <1>2, Parts DEF CurrentMapped, NotMappedYet, Partial
<1>13. Accounts'
  <2> SUFFICES ASSUME NEW b \in Buffers PROVE Account(b)'
    BY DEF Accounts
  <2>1. Account(b)
    BY Parts DEF Accounts
  <2>2. /\ Decoding(b)' <=> Decoding(b)
        /\ AtMarker(b)' <=> AtMarker(b)
        /\ AtMap(b)' <=> AtMap(b)
        /\ ~Sending(b)'
        /\ Sending(b) <=> c.buffer = b
    BY <1>1, <1>2, <1>5 DEF Decoding, Sending, AtMap, AtMarker, Decoders
  <2>3. /\ Count(Decoding(b))' = Count(Decoding(b)) /\ Passed(b)' = Passed(b) /\ Carried(b)' = Carried(b)
        /\ Count(Sending(b))' = 0 /\ Count(Sending(b)) = Count(c \in Into(b))
        /\ Count(Sending(b)) \in {0, 1}
    BY <1>1, <1>4, <2>2 DEF Passed, Carried, Count, Into
  <2>4. Pending(b)' = Pending(b)
    <3>1. Cardinality(Places(commands', Into(b))) = Cardinality(Places(commands, Into(b))) + Count(c \in Into(b))
      <4> PICK E : E = Into(b)
        OBVIOUS
      <4>1. Cardinality(Places(Append(commands, c), E)) = Cardinality(Places(commands, E)) + Count(c \in E)
        BY <1>3, <1>4, PlacesAppend
      <4> QED
        BY <1>1, <4>1
    <3>2. Cardinality(Places(commands, Into(b))) \in Nat
      BY <1>3, Numbers
    <3>3. Pending(b)' = Cardinality(Places(commands', Into(b))) + 0
      BY <2>3 DEF Pending, Into
    <3> QED
      BY <2>3, <3>1, <3>2, <3>3 DEF Pending
  <2>5. Named(b)' = Named(b)
    <3>1. Cardinality(Slots(commands', b)) = Cardinality(Slots(commands, b)) + Times(c.refs, b)
      BY <1>1, <1>3, <1>4, SlotsAppend
    <3>2. Times(context'["PtoD"].refs, b) = 0
      BY <1>5, NoRefs DEF NoContext
    <3>3. Named(b)' = Cardinality(Slots(commands', b)) + 0 + Times(context["MME"].refs, b)
      BY <1>5, <3>2 DEF Named, Queued, Slots
    <3>4. /\ Cardinality(Slots(commands, b)) \in Nat
          /\ Times(c.refs, b) \in Nat /\ Times(context["MME"].refs, b) \in Nat
          /\ Named(b) = Cardinality(Slots(commands, b)) + Times(c.refs, b)
                        + Times(context["MME"].refs, b)
      BY <1>3, Numbers
    <3> QED
      BY <3>1, <3>3, <3>4
  <2> QED
    BY <1>1, <2>1, <2>3, <2>4, <2>5, SameAccount
<1> QED
  BY <1>7, <1>8, <1>9, <1>10, <1>11, <1>12, <1>13 DEF RInv, Typed, Control, Mapped

-----------------------------------------------------------------------------
(* A buffer is complete *)

\* A half decoded buffer is closed: the last decode gives it out, or this step
\* when there is none.
LEMMA RPartialOutput ==
    ASSUME RInv, NEW t \in {"PtoD", "drain"}, PartialOutput(t)
    PROVE  RInv'
<1>1. pc[t] = "partialOutput" /\ Current # None
  BY Parts DEF PartialOutput, Preparation
<1>2. /\ pc' = [pc EXCEPT ![t] = "partialClear"]
      /\ BufferState' = [BufferState EXCEPT ![Current].OutputOnDecodesComplete = TRUE]
      /\ OutputRing' = (IF BufferState[Current].DecodesInProgress = 0
                        THEN Append(OutputRing, Entry(Current, 0, FALSE)) ELSE OutputRing)
      /\ UNCHANGED <<owners, map, Current, shown, commands, MarkerBuffer, context, picture, pictures,
                     references>>
  BY <1>1 DEF PartialOutput, Current, output, mme, stream, marking
<1>3. /\ pc' = [u \in Threads |-> pc'[u]] /\ pc'[t] = "partialClear"
      /\ \A u \in Threads : u # t => pc'[u] = pc[u]
  BY <1>2, Parts DEF TypedSteps, Threads
<1>4. Typed /\ BufferState \in [Buffers -> States] /\ OutputRing \in Seq(Entries)
  BY Parts DEF Typed, TypedTable, TypedQueues
<1>5. pc["PtoD"] \in {"partialOutput", "idle", "partial", "getMarker", "test", "take"} /\ ~Closing
  BY <1>1, Parts DEF Turns, Closing
<1>6. Current \in Buffers /\ BufferState[Current].Buffer
      /\ ~BufferState[Current].OutputOnDecodesComplete /\ ~GivingUp(Current)
  BY <1>1, <1>5, WhoDecodes, Parts DEF CurrentOpen
<1>7. /\ BufferState' \in [Buffers -> States]
      /\ BufferState'[Current].OutputOnDecodesComplete = TRUE
      /\ \A c \in Buffers : /\ BufferState'[c].Buffer = BufferState[c].Buffer
                            /\ BufferState'[c].DecodesInProgress = BufferState[c].DecodesInProgress
                            /\ BufferState'[c].ReferenceFrameCount = BufferState[c].ReferenceFrameCount
                            /\ c # Current => BufferState'[c] = BufferState[c]
  BY <1>2, <1>4, <1>6 DEF States
<1>8. Entry(Current, 0, FALSE) \in Entries
  BY <1>6 DEF Entry, Entries
<1>9. OutputRing' \in Seq(Entries)
  <2>p. PICK e, S : e = Entry(Current, 0, FALSE) /\ S = Entries
    OBVIOUS
  <2>1. CASE BufferState[Current].DecodesInProgress = 0
    <3>1. e \in S /\ OutputRing \in Seq(S) /\ OutputRing' = Append(OutputRing, e)
      BY <1>2, <1>4, <1>8, <2>1, <2>p
    <3>2. OutputRing' \in Seq(S)
      BY <3>1
    <3> QED
      BY <3>2, <2>p
  <2>2. CASE BufferState[Current].DecodesInProgress # 0
    BY <1>2, <1>4, <2>2
  <2> QED
    BY <2>1, <2>2
<1>10. TypedTable' /\ TypedQueues' /\ TypedSteps' /\ TypedStream'
  BY <1>1, <1>2, <1>3, <1>7, <1>9, Parts DEF TypedTable, TypedQueues, TypedSteps, TypedStream, PtoDSteps,
     DrainSteps, Threads
<1>11. Turns' /\ Holding'
  BY <1>1, <1>2, <1>3, <1>5, Parts DEF Turns, Holding, Threads
<1>12. Discards'
  <2>1. \A u \in Decoders : pc'[u] = "discard" => /\ pc[u] = "discard" /\ context[u].buffer \in Buffers
                                                  /\ context[u].buffer # Current
    BY <1>3, <1>6, WhoDecodes DEF Decoders, GivingUp, Threads
  <2> QED
    BY <1>2, <1>5, <1>7, <2>1, Parts DEF Discards, GivenUp, Decoders
<1>13. CurrentOpen'
  <2>1. Closing'
    BY <1>3 DEF Closing
  <2> QED
    BY <2>1 DEF CurrentOpen
<1>14. Preparation'
  BY <1>1, <1>2, <1>3, <1>5 DEF Preparation, Threads
<1>15. MapSound'
  BY <1>2, Parts, CalmMap DEF TypedStream
<1>16. CurrentMapped' /\ NotMappedYet'
  BY <1>1, <1>2, <1>3, <1>5, Parts DEF CurrentMapped, NotMappedYet, Partial, Threads
<1>17. \A c : /\ (AtMap(c)' <=> AtMap(c)) /\ (AtMarker(c)' <=> AtMarker(c)) /\ (Sending(c)' <=> Sending(c))
  BY <1>2, <1>3, <1>5 DEF AtMap, AtMarker, Sending, Threads
<1>18. \A u \in Decoders : pc'[u] = "discard" <=> pc[u] = "discard"
  BY <1>1, <1>3 DEF Decoders, Threads
<1>19. ASSUME NEW c \in Buffers
       PROVE  /\ Named(c)' = Named(c) /\ Pending(c)' = Pending(c)
              /\ Cardinality(Places(OutputRing', Ours(c))) = Cardinality(Places(OutputRing, Ours(c)))
                   + (IF c = Current /\ BufferState[Current].DecodesInProgress = 0 THEN 1 ELSE 0)
              /\ Cardinality(Places(OutputRing', Markers(c))) = Cardinality(Places(OutputRing, Markers(c)))
  <2>1. Named(c)' = Named(c) /\ Pending(c)' = Pending(c)
    BY <1>2, <1>17, SameNames DEF Pending, Count
  <2>2. /\ Cardinality(Places(OutputRing, Markers(c))) \in Nat /\ Cardinality(Places(OutputRing, Ours(c))) \in Nat
    BY <1>4, Numbers
  <2>3. CASE BufferState[Current].DecodesInProgress = 0
    <3>e. PICK e : e = Entry(Current, 0, FALSE)
      OBVIOUS
    <3>1. e \in Entries /\ OutputRing' = Append(OutputRing, e) /\ e.buffer = Current /\ e.marker = FALSE
      BY <1>2, <1>8, <2>3, <3>e DEF Entry
    <3>2. /\ Cardinality(Places(OutputRing', Markers(c)))
                = Cardinality(Places(OutputRing, Markers(c))) + Count(e \in Markers(c))
          /\ Cardinality(Places(OutputRing', Ours(c)))
                = Cardinality(Places(OutputRing, Ours(c))) + Count(e \in Ours(c))
      BY <1>4, <3>1, PlacesAppend
    <3>3. Count(e \in Markers(c)) = 0 /\ Count(e \in Ours(c)) = (IF c = Current THEN 1 ELSE 0)
      BY <3>1 DEF Markers, Ours, Count
    <3>4. Cardinality(Places(OutputRing', Markers(c))) = Cardinality(Places(OutputRing, Markers(c)))
      <4>1. Cardinality(Places(OutputRing', Markers(c)))
              = Cardinality(Places(OutputRing, Markers(c))) + Count(e \in Markers(c))
        BY <3>2
      <4>2. Count(e \in Markers(c)) = 0
        BY <3>3
      <4>3. Cardinality(Places(OutputRing, Markers(c))) \in Nat
        BY <2>2
      <4> QED
        BY <4>1, <4>2, <4>3
    <3>5. Cardinality(Places(OutputRing', Ours(c))) = Cardinality(Places(OutputRing, Ours(c)))
                   + (IF c = Current /\ BufferState[Current].DecodesInProgress = 0 THEN 1 ELSE 0)
      BY <2>3, <3>2, <3>3
    <3> QED
      BY <2>1, <3>4, <3>5
  <2>4. CASE BufferState[Current].DecodesInProgress # 0
    BY <1>2, <2>1, <2>2, <2>4
  <2> QED
    BY <2>3, <2>4
<1>20. ASSUME NEW c \in Buffers, c # Current PROVE Account(c)'
  <2>1. Account(c)
    BY Parts DEF Accounts
  <2>2. BufferState'[c] = BufferState[c]
    BY <1>7, <1>20
  <2>3. Decoding(c)' <=> Decoding(c)
    BY <1>2, <1>18, <2>2 DEF Decoding
  <2>4. Count(Decoding(c))' = Count(Decoding(c))
    BY <2>3 DEF Count
  <2>5. Named(c)' = Named(c) /\ Pending(c)' = Pending(c)
    BY <1>19
  <2>6. Cardinality(Places(OutputRing', Ours(c))) = Cardinality(Places(OutputRing, Ours(c)))
    <3>1. Cardinality(Places(OutputRing, Ours(c))) \in Nat
      BY <1>4, Numbers
    <3> QED
      BY <1>19, <1>20, <3>1
  <2>7. Passed(c)' = Passed(c)
    BY <1>2, <2>6 DEF Passed, Ours
  <2>8. Carried(c)' = Carried(c)
    BY <1>17, <1>19 DEF Carried, Count, Markers
  <2> QED
    BY <1>2, <2>1, <2>2, <2>4, <2>5, <2>7, <2>8, SameAccount
<1>21. ASSUME NEW c \in Buffers, c = Current PROVE Account(c)'
  <2>1. Account(c) /\ Decoding(c)
    BY <1>1, <1>5, <1>21, WhoDecodes, Parts DEF Accounts
  <2>2. /\ BufferState[c].DecodesInProgress \in Nat /\ BufferState[c].ReferenceFrameCount \in Nat
        /\ Named(c) \in Nat /\ Passed(c) \in Nat /\ Count(Decoding(c)) = 1
        /\ Cardinality(Places(OutputRing, Ours(c))) \in Nat /\ shown[c] \in Nat
    BY <1>4, <2>1, Numbers
  <2>3. Passed(c) = 0
    <3>1. Count(Decoding(c)) + Passed(c) <= 1
      BY <2>1 DEF Account
    <3> QED
      BY <2>2, <3>1
  <2>4. ~\E u \in Decoders : pc'[u] = "discard" /\ context'[u].buffer = c
    BY <1>2, <1>6, <1>18, <1>21 DEF GivingUp
  <2>5. Count(Decoding(c))' + Passed(c)' = 1
    <3>1. CASE BufferState[c].DecodesInProgress = 0
      <4>1. ~Decoding(c)'
        BY <1>7, <1>21, <2>4, <3>1 DEF Decoding
      <4>2. Count(Decoding(c))' = 0
        BY <4>1 DEF Count
      <4>3. Cardinality(Places(OutputRing', Ours(c))) = Cardinality(Places(OutputRing, Ours(c))) + 1
        BY <1>19, <1>21, <3>1
      <4>4. Passed(c)' = Cardinality(Places(OutputRing, Ours(c))) + 1 + shown[c]
        BY <1>2, <4>3 DEF Passed, Ours
      <4>5. Cardinality(Places(OutputRing, Ours(c))) + shown[c] = 0
        BY <2>3 DEF Passed
      <4> QED
        BY <2>2, <4>2, <4>4, <4>5
    <3>2. CASE BufferState[c].DecodesInProgress # 0
      <4>1. Decoding(c)'
        BY <1>6, <1>7, <1>21, <2>2, <3>2 DEF Decoding
      <4>2. Count(Decoding(c))' = 1
        BY <4>1 DEF Count
      <4>3. Cardinality(Places(OutputRing', Ours(c))) = Cardinality(Places(OutputRing, Ours(c)))
        BY <1>2, <1>21, <3>2
      <4>4. Passed(c)' = 0
        BY <1>2, <2>3, <4>3 DEF Passed, Ours
      <4> QED
        BY <4>2, <4>4
    <3> QED
      BY <3>1, <3>2
  <2>6. Named(c)' = Named(c) /\ Pending(c)' = Pending(c) /\ Carried(c)' = Carried(c)
    BY <1>17, <1>19 DEF Carried, Count, Markers
  <2>7. Held(c)' = Held(c)
    <3>1. Held(c)' = BufferState'[c].ReferenceFrameCount + Named(c)' + Count(Decoding(c))' + Passed(c)'
      BY DEF Held
    <3>2. Held(c) = BufferState[c].ReferenceFrameCount + Named(c) + Count(Decoding(c)) + Passed(c)
      BY DEF Held
    <3>3. Count(Decoding(c))' \in {0, 1}
      BY DEF Count
    <3>4. Passed(c)' \in Int
      <4>1. Cardinality(Places(OutputRing', Ours(c))) \in Nat
        BY <1>9, PlacesFinite
      <4>2. Passed(c)' = Cardinality(Places(OutputRing', Ours(c))) + shown[c]
        BY <1>2 DEF Passed, Ours
      <4> QED
        BY <2>2, <4>1, <4>2
    <3>5. BufferState'[c].ReferenceFrameCount = BufferState[c].ReferenceFrameCount /\ Named(c)' = Named(c)
      BY <1>7, <2>6
    <3>6. Held(c) = BufferState[c].ReferenceFrameCount + Named(c) + 1
      BY <2>2, <2>3, <3>2
    <3>7. Held(c)' = BufferState[c].ReferenceFrameCount + Named(c) + Count(Decoding(c))' + Passed(c)'
      BY <3>1, <3>5
    <3> QED
      BY <2>2, <2>5, <3>3, <3>4, <3>6, <3>7
  <2>8. owners'[c] = Held(c)' + Carried(c)' /\ BufferState'[c].DecodesInProgress = Pending(c)'
    BY <1>2, <1>7, <2>1, <2>6, <2>7 DEF Account
  <2>9. Held(c)' > 0 /\ Carried(c)' = 0 /\ BufferState'[c].Buffer
    BY <1>6, <1>7, <1>21, <2>1, <2>6, <2>7 DEF Account
  <2>10. Count(Decoding(c))' + Passed(c)' <= 1
    BY <2>5
  <2> QED
    BY <2>8, <2>9, <2>10, NewAccount
<1>22. Accounts'
  BY <1>20, <1>21 DEF Accounts
<1> QED
  BY <1>10, <1>11, <1>12, <1>13, <1>14, <1>15, <1>16, <1>22 DEF RInv, Typed, Control, Mapped

\* A decode has ended: with the co-processor, or because it could not be sent.
Ended(t, c) ==
    \/ t = "MME" /\ pc["MME"] = "idle" /\ commands # <<>> /\ c = Head(commands) /\ commands' = Tail(commands)
    \/ t = "PtoD" /\ pc["PtoD"] = "complete" /\ c = context["PtoD"] /\ commands' = commands

\* The decode that ended leaves the queue, or the second process's hands.
LEMMA EndedCounts ==
    ASSUME RInv, NEW t \in Decoders, NEW c, Ended(t, c),
           context'[t] = c, \A u \in Decoders : u # t => context'[u] = context[u],
           pc'[t] \in {"discard", "refs"}, \A u \in Threads : u # t => pc'[u] = pc[u]
    PROVE  /\ c \in Decode /\ Decoding(c.buffer) /\ RefsMapped(c)
           /\ commands' \in Seq(Decode)
           /\ \A k \in DOMAIN commands' : \E i \in DOMAIN commands : commands'[k] = commands[i]
           /\ \A b \in Buffers : /\ Named(b)' = Named(b)
                                 /\ Pending(b) = Pending(b)' + Count(c.buffer = b)
                                 /\ Pending(b)' \in Nat
<1>1. Typed /\ commands \in Seq(Decode) /\ MapSound
  BY Parts DEF Typed, TypedQueues
<1>2. CASE t = "MME"
  <2>1. pc["MME"] = "idle" /\ commands # <<>> /\ c = Head(commands) /\ commands' = Tail(commands)
    BY <1>2 DEF Ended
  <2>2. /\ Tail(commands) \in Seq(Decode) /\ c = commands[1] /\ 1 \in DOMAIN commands /\ c \in Decode
        /\ \A k \in DOMAIN Tail(commands) : k + 1 \in DOMAIN commands /\ Tail(commands)[k] = commands[k + 1]
    <3>p. PICK S : S = Decode
      OBVIOUS
    <3>1. commands \in Seq(S) /\ commands # <<>>
      BY <1>1, <2>1, <3>p
    <3>2. /\ Tail(commands) \in Seq(S) /\ Head(commands) = commands[1] /\ 1 \in DOMAIN commands
          /\ Head(commands) \in S
          /\ \A k \in DOMAIN Tail(commands) : k + 1 \in DOMAIN commands /\ Tail(commands)[k] = commands[k + 1]
      BY <3>1
    <3> QED
      BY <2>1, <3>2, <3>p
  <2>3. Decoding(c.buffer) /\ RefsMapped(c)
    BY <1>1, <2>2, WhoDecodes DEF MapSound
  <2>4. pc'["PtoD"] = pc["PtoD"] /\ context'["PtoD"] = context["PtoD"] /\ context'["MME"] = c
    BY <1>2 DEF Threads, Decoders
  <2>5. ASSUME NEW b \in Buffers
        PROVE  /\ Named(b)' = Named(b)
               /\ Pending(b) = Pending(b)' + Count(c.buffer = b)
               /\ Pending(b)' \in Nat
    <3>1. Cardinality(Slots(commands, b)) = Cardinality(Slots(commands', b)) + Times(c.refs, b)
      BY <1>1, <2>1, SlotsTail
    <3>2. Named(b)' = Cardinality(Slots(commands', b)) + Times(context["PtoD"].refs, b) + Times(c.refs, b)
      BY <2>4 DEF Named, Queued, Slots
    <3>3. context["MME"] = NoContext
      BY <2>1, Parts DEF Holding
    <3>4. Times(context["MME"].refs, b) = 0
      BY <3>3, NoRefs DEF NoContext
    <3>5. Cardinality(Slots(commands', b)) \in Nat
      BY <2>1, <2>2, SlotsFinite
    <3>6. Times(c.refs, b) \in Nat
      BY <2>2, TimesFinite DEF Decode
    <3>7. /\ Times(context["PtoD"].refs, b) \in Nat
          /\ Named(b) = Cardinality(Slots(commands, b)) + Times(context["PtoD"].refs, b)
                        + Times(context["MME"].refs, b)
      BY <1>1, Numbers
    <3>8. Named(b)' = Named(b)
      BY <3>1, <3>2, <3>4, <3>5, <3>6, <3>7
    <3>9. Sending(b)' <=> Sending(b)
      BY <2>4 DEF Sending
    <3>10. Count(Sending(b))' = Count(Sending(b)) /\ Count(Sending(b)) \in {0, 1}
      BY <3>9 DEF Count
    <3>11. Cardinality(Places(commands, Into(b))) = Cardinality(Places(Tail(commands), Into(b))) + Count(c \in Into(b))
      BY <1>1, <2>1, PlacesTail
    <3>12. Cardinality(Places(Tail(commands), Into(b))) \in Nat
      BY <2>2, PlacesFinite
    <3>13. Count(c \in Into(b)) = Count(c.buffer = b) /\ Count(c.buffer = b) \in {0, 1}
      BY <2>2 DEF Into, Count
    <3>14. Pending(b)' = Cardinality(Places(Tail(commands), Into(b))) + Count(Sending(b))
      BY <2>1, <3>10 DEF Pending, Into
    <3>15. Pending(b) = Cardinality(Places(commands, Into(b))) + Count(Sending(b))
      BY DEF Pending
    <3>16. Pending(b) = Pending(b)' + Count(c.buffer = b)
      BY <3>10, <3>11, <3>12, <3>13, <3>14, <3>15
    <3>17. Pending(b)' \in Nat
      BY <3>10, <3>12, <3>14
    <3> QED
      BY <3>8, <3>16, <3>17
  <2>6. \A k \in DOMAIN commands' : \E i \in DOMAIN commands : commands'[k] = commands[i]
    BY <2>1, <2>2
  <2> QED
    BY <2>1, <2>2, <2>3, <2>5, <2>6
<1>3. CASE t = "PtoD"
  <2>1. pc["PtoD"] = "complete" /\ c = context["PtoD"] /\ commands' = commands
    BY <1>3 DEF Ended
  <2>2. c \in Decode
    BY <2>1, Parts DEF Holding
  <2>3. Decoding(c.buffer) /\ RefsMapped(c)
    BY <1>1, <2>1, WhoDecodes DEF MapSound, Decoders
  <2>4. pc'["PtoD"] \in {"discard", "refs"} /\ context'["PtoD"] = context["PtoD"] /\ context'["MME"] = context["MME"]
    BY <1>3, <2>1 DEF Threads, Decoders
  <2>5. ASSUME NEW b \in Buffers
        PROVE  /\ Named(b)' = Named(b)
               /\ Pending(b) = Pending(b)' + Count(c.buffer = b)
               /\ Pending(b)' \in Nat
    <3>1. Named(b)' = Named(b)
      BY <2>1, <2>4 DEF Named, Queued
    <3>2. ~Sending(b)' /\ (Sending(b) <=> c.buffer = b)
      BY <2>1, <2>4 DEF Sending
    <3>3. Count(Sending(b))' = 0 /\ Count(Sending(b)) = Count(c.buffer = b) /\ Count(c.buffer = b) \in {0, 1}
      BY <3>2 DEF Count
    <3>4. Cardinality(Places(commands, Into(b))) \in Nat
      BY <1>1, PlacesFinite
    <3>5. Pending(b)' = Cardinality(Places(commands, Into(b))) + 0
      BY <2>1, <3>3 DEF Pending, Into
    <3>6. Pending(b) = Cardinality(Places(commands, Into(b))) + Count(c.buffer = b)
      BY <3>3 DEF Pending
    <3> QED
      BY <3>1, <3>3, <3>4, <3>5, <3>6
  <2> QED
    BY <1>1, <2>1, <2>2, <2>3, <2>5
<1> QED
  BY <1>2, <1>3 DEF Decoders

\* The last decode of a closed buffer gives it out, or is about to give it up.
LEMMA RComplete ==
    ASSUME RInv, NEW t \in Decoders, NEW c, Ended(t, c), Complete(t, c)
    PROVE  RInv'
<1> PICK b : b = c.buffer
  OBVIOUS
<1> PICK s : s = [BufferState EXCEPT ![b].DecodesInProgress = @ - 1]
  OBVIOUS
<1> PICK whole \in BOOLEAN : whole = Whole(s[b])
  BY DEF Whole
<1> PICK discard \in BOOLEAN : discard = (whole /\ ToDiscard)
  BY DEF ToDiscard
<1>1. /\ BufferState' = s /\ context' = [context EXCEPT ![t] = c]
      /\ pc' = [pc EXCEPT ![t] = IF discard THEN "discard" ELSE "refs"]
      /\ OutputRing' = (IF whole /\ ~discard THEN Append(OutputRing, Entry(b, c.n, FALSE)) ELSE OutputRing)
      /\ Current' = (IF s[b].OutputOnDecodesComplete /\ ~discard THEN Invalidated(b) ELSE Current)
      /\ UNCHANGED <<owners, map, shown, MarkerBuffer, picture, pictures, references>>
  BY DEF Complete, Current, stream, marking
<1>2. /\ pc' = [u \in Threads |-> pc'[u]]
      /\ pc'[t] = (IF discard THEN "discard" ELSE "refs")
      /\ \A u \in Threads : u # t => pc'[u] = pc[u]
  BY <1>1, Parts DEF TypedSteps, Threads, Decoders
<1>3. Typed /\ BufferState \in [Buffers -> States] /\ OutputRing \in Seq(Entries)
      /\ context \in [Decoders -> Decode \cup {NoContext}]
  BY Parts DEF Typed, TypedTable, TypedQueues
<1>4. context'[t] = c /\ \A u \in Decoders : u # t => context'[u] = context[u]
  BY <1>1, <1>3
<1>5. /\ c \in Decode /\ Decoding(b) /\ RefsMapped(c)
      /\ commands' \in Seq(Decode)
      /\ \A k \in DOMAIN commands' : \E i \in DOMAIN commands : commands'[k] = commands[i]
      /\ \A d \in Buffers : /\ Named(d)' = Named(d)
                            /\ Pending(d) = Pending(d)' + Count(b = d)
                            /\ Pending(d)' \in Nat
  BY <1>2, <1>4, EndedCounts
<1>6. b \in Buffers /\ c.n \in Nat /\ c.refs \in References
  BY <1>5 DEF Decode
<1>7. /\ BufferState[b].DecodesInProgress \in Nat /\ BufferState[b].DecodesInProgress > 0
      /\ BufferState[b].Buffer /\ Pending(b)' = BufferState[b].DecodesInProgress - 1
  <2>1. Account(b) /\ Pending(b) = Pending(b)' + 1 /\ Pending(b)' \in Nat
    BY <1>5, <1>6, Parts DEF Accounts, Count
  <2>2. BufferState[b].DecodesInProgress = Pending(b)
    BY <2>1 DEF Account
  <2>3. BufferState[b].Buffer
    <3>1. BufferState[b].DecodesInProgress # 0
      BY <2>1, <2>2
    <3> QED
      BY <2>1, <3>1 DEF Account, Unused
  <2> QED
    BY <2>1, <2>2, <2>3
<1>8. /\ s \in [Buffers -> States] /\ s[b].Buffer
      /\ s[b].OutputOnDecodesComplete = BufferState[b].OutputOnDecodesComplete
      /\ s[b].DecodesInProgress = BufferState[b].DecodesInProgress - 1
      /\ s[b].ReferenceFrameCount = BufferState[b].ReferenceFrameCount
      /\ \A d \in Buffers : d # b => s[d] = BufferState[d]
  <2>1. BufferState[b] \in States /\ BufferState[b].DecodesInProgress - 1 \in Nat
    BY <1>3, <1>6, <1>7
  <2> QED
    BY <1>3, <1>6, <1>7, <2>1 DEF States
<1>9. whole <=> s[b].OutputOnDecodesComplete /\ s[b].DecodesInProgress = 0
  BY DEF Whole
<1>10. \A u \in Decoders : pc[u] = "discard" => /\ context[u].buffer \in Buffers /\ context[u].buffer # b
                                                /\ u # t /\ GivenUp(context[u].buffer)
  <2>1. \A u \in Decoders : pc[u] = "discard" => context[u].buffer \in Buffers /\ GivenUp(context[u].buffer)
    BY WhoDecodes, Parts DEF Discards
  <2>2. pc[t] \in {"idle", "complete"}
    BY DEF Ended
  <2> QED
    BY <1>7, <2>1, <2>2 DEF GivenUp
<1>11. t = "PtoD" => /\ pc["PtoD"] = "complete" /\ pc["drain"] \notin {"partialOutput", "partialClear"}
                     /\ Current \in {None, b} /\ s[b].OutputOnDecodesComplete = picture.last
  <2>1. t = "PtoD" => pc["PtoD"] = "complete" /\ b = context["PtoD"].buffer
    BY DEF Ended
  <2> QED
    BY <1>8, <2>1, Parts DEF Turns, Preparation
<1>12. t = "MME" => pc["MME"] = "idle" /\ (Closing' <=> Closing)
  BY <1>1, <1>2 DEF Ended, Closing, Threads
<1>13. Current' \in {Current, None}
  BY <1>1 DEF Invalidated, Current
<1>14. Current # None /\ ~Closing => Current' = Current
  <2>1. Current # None /\ ~Closing => ~BufferState[Current].OutputOnDecodesComplete
    BY Parts DEF CurrentOpen
  <2>2. CASE Current = b
    BY <1>1, <1>8, <2>1, <2>2 DEF Current
  <2>3. CASE Current # b
    BY <1>1, <2>3 DEF Invalidated, Current
  <2> QED
    BY <2>2, <2>3
<1> USE DEF Decoders
<1>15. OutputRing' \in Seq(Entries)
  <2>p. PICK e, S : e = Entry(b, c.n, FALSE) /\ S = Entries
    OBVIOUS
  <2>1. e \in S /\ OutputRing \in Seq(S)
    BY <1>3, <1>6, <2>p DEF Entry, Entries
  <2>2. OutputRing' = OutputRing \/ OutputRing' = Append(OutputRing, e)
    BY <1>1, <2>p
  <2>3. OutputRing' \in Seq(S)
    BY <2>1, <2>2
  <2> QED
    BY <2>3, <2>p
<1>16. TypedTable' /\ TypedQueues' /\ TypedSteps' /\ TypedStream'
  <2>1. context' \in [Decoders -> Decode \cup {NoContext}]
    BY <1>1, <1>3, <1>5
  <2>2. TypedTable' /\ TypedStream'
    BY <1>1, <1>8, <1>13, Parts DEF TypedTable, TypedStream
  <2>3. TypedSteps'
    BY <1>2, Parts DEF TypedSteps, PtoDSteps, MMESteps, Threads
  <2>4. TypedQueues'
    BY <1>1, <1>2, <1>5, <1>15, <2>1, Parts DEF TypedQueues, Threads
  <2> QED
    BY <2>2, <2>3, <2>4
<1>17. Turns'
  BY <1>2, <1>11, <1>12, Parts DEF Turns, Threads
<1>18. Holding'
  BY <1>2, <1>4, <1>5, <1>11, <1>12, Parts DEF Holding, Threads
<1>19. Discards'
  <2>1. pc'[t] = "discard" => GivenUp(context[t].buffer)'
    BY <1>1, <1>2, <1>4, <1>8, <1>9 DEF GivenUp
  <2>2. \A u \in Decoders : u # t /\ pc'[u] = "discard" => GivenUp(context[u].buffer)' /\ context'[u].buffer # b
    BY <1>1, <1>2, <1>4, <1>8, <1>10 DEF GivenUp, Threads
  <2> QED
    BY <1>4, <2>1, <2>2 DEF Discards
<1>20. Current # None /\ ~Closing => /\ Current \in Buffers
                                     /\ BufferState'[Current].Buffer
                                     /\ ~BufferState'[Current].OutputOnDecodesComplete
                                     /\ ~GivingUp(Current)'
  <2> SUFFICES ASSUME Current # None, ~Closing
               PROVE  /\ Current \in Buffers
                      /\ BufferState'[Current].Buffer
                      /\ ~BufferState'[Current].OutputOnDecodesComplete
                      /\ Current' = Current => ~GivingUp(Current)'
    BY <1>14
  <2>1. /\ Current \in Buffers /\ BufferState[Current].Buffer
        /\ ~BufferState[Current].OutputOnDecodesComplete /\ ~GivingUp(Current)
    BY Parts DEF CurrentOpen, TypedTable
  <2>2. /\ BufferState'[Current].Buffer /\ ~BufferState'[Current].OutputOnDecodesComplete
    BY <1>1, <1>8, <2>1
  <2>3. Current = b => pc'[t] = "refs"
    BY <1>2, <1>8, <1>9, <2>1
  <2>4. ASSUME NEW u \in Decoders, pc'[u] \in {"discard", "compare"}, context'[u].buffer = Current PROVE FALSE
    <3>1. CASE u = t
      BY <1>4, <2>3, <2>4, <3>1
    <3>2. CASE u # t
      BY <1>2, <1>4, <2>1, <2>4, <3>2 DEF GivingUp, Threads
    <3> QED
      BY <3>1, <3>2
  <2> QED
    BY <2>1, <2>2, <2>4 DEF GivingUp
<1>21. CurrentOpen'
  <2> SUFFICES ASSUME Current' # None, ~Closing' PROVE Current # None /\ ~Closing
    BY <1>14, <1>20 DEF CurrentOpen
  <2>1. Current # None
    BY <1>13
  <2>2. CASE t = "MME"
    BY <1>12, <2>1, <2>2
  <2>3. CASE t = "PtoD"
    <3>1. ~discard
      BY <1>2, <2>3 DEF Closing
    <3>2. Current = b
      BY <1>11, <2>1, <2>3
    <3>3. ~s[b].OutputOnDecodesComplete
      BY <1>1, <3>1, <3>2 DEF Invalidated, Current
    <3> QED
      BY <1>11, <2>1, <2>3, <3>3 DEF Closing
  <2> QED
    BY <2>2, <2>3
<1>22. Preparation'
  <2>1. CASE t = "MME"
    <3>1. /\ pc'["PtoD"] = pc["PtoD"] /\ pc'["drain"] = pc["drain"] /\ context'["PtoD"] = context["PtoD"]
          /\ picture' = picture
      BY <1>1, <1>2, <1>4, <2>1 DEF Threads
    <3>2. pc["PtoD"] = "map" => /\ Current' = None /\ picture.buffer # None
                                /\ ~BufferState'[picture.buffer].Buffer /\ ~GivingUp(picture.buffer)'
      <4> SUFFICES ASSUME pc["PtoD"] = "map"
                   PROVE  /\ Current' = None /\ picture.buffer # None
                          /\ ~BufferState'[picture.buffer].Buffer /\ ~GivingUp(picture.buffer)'
        OBVIOUS
      <4>1. Current = None /\ picture.buffer # None /\ picture.buffer \in Buffers
            /\ ~BufferState[picture.buffer].Buffer /\ ~GivingUp(picture.buffer)
        BY Parts DEF Preparation, TypedStream
      <4>2. picture.buffer # b /\ BufferState'[picture.buffer] = BufferState[picture.buffer]
        BY <1>1, <1>7, <1>8, <4>1
      <4>3. ~GivingUp(picture.buffer)'
        BY <1>1, <1>2, <1>4, <2>1, <3>1, <4>1, <4>2 DEF GivingUp
      <4> QED
        BY <1>13, <4>1, <4>2, <4>3
    <3>3. pc["PtoD"] \in {"translate", "launch"} => Current' = Current
      BY <1>14, WhoDecodes, Parts DEF Preparation
    <3>4. \A u \in {"PtoD", "drain"} : pc[u] = "partialOutput" => Current' = Current
      <4>1. \A u \in {"PtoD", "drain"} : pc[u] = "partialOutput" => ~Closing /\ Current # None
        BY Parts DEF Preparation, Closing, Turns
      <4> QED
        BY <1>14, <4>1
    <3>5. pc["PtoD"] \in {"send", "complete"} =>
             BufferState'[context["PtoD"].buffer].OutputOnDecodesComplete
               = BufferState[context["PtoD"].buffer].OutputOnDecodesComplete
      BY <1>1, <1>8, WhoDecodes
    <3> QED
      BY <1>13, <3>1, <3>2, <3>3, <3>4, <3>5, Parts DEF Preparation
  <2>2. CASE t = "PtoD"
    <3>1. pc'["PtoD"] \in {"discard", "refs"} /\ context'["PtoD"].buffer = b /\ pc'["drain"] = pc["drain"]
      BY <1>2, <1>4, <2>2 DEF Threads
    <3> QED
      BY <1>11, <1>13, <2>2, <3>1 DEF Preparation
  <2> QED
    BY <2>1, <2>2
<1>23. MapSound'
  <2>1. RefsMapped(context[t])'
    BY <1>1, <1>4, <1>5 DEF RefsMapped
  <2>2. \A u \in Decoders : u # t => RefsMapped(context[u])'
    BY <1>1, <1>4, Parts DEF RefsMapped, MapSound
  <2>3. \A k \in DOMAIN commands' : <<commands'[k].n, commands'[k].buffer>> \in map' /\ RefsMapped(commands[k])'
    BY <1>1, <1>5, Parts DEF RefsMapped, MapSound
  <2> QED
    BY <1>1, <2>1, <2>2, <2>3, Parts DEF MapSound
<1>24. CurrentMapped' /\ NotMappedYet'
  <2>1. CASE t = "MME"
    <3>1. pc["PtoD"] \in {"translate", "launch"} => Current' = Current
      BY <1>14, WhoDecodes, Parts DEF Preparation
    <3> QED
      BY <1>1, <1>2, <1>4, <2>1, <3>1, Parts DEF CurrentMapped, NotMappedYet, Threads
  <2>2. CASE t = "PtoD"
    BY <1>2, <2>2 DEF CurrentMapped, NotMappedYet, Partial
  <2> QED
    BY <2>1, <2>2
<1>25. \A d : (AtMap(d)' <=> AtMap(d)) /\ (AtMarker(d)' <=> AtMarker(d))
  BY <1>1, <1>2, <1>11, <1>12 DEF AtMap, AtMarker, Threads
<1>26. ASSUME NEW d \in Buffers
       PROVE  /\ Cardinality(Places(OutputRing', Ours(d))) = Cardinality(Places(OutputRing, Ours(d)))
                   + Count(whole /\ ~discard /\ b = d)
              /\ Cardinality(Places(OutputRing', Markers(d))) = Cardinality(Places(OutputRing, Markers(d)))
              /\ Cardinality(Places(OutputRing, Ours(d))) \in Nat
  <2>1. /\ Cardinality(Places(OutputRing, Markers(d))) \in Nat /\ Cardinality(Places(OutputRing, Ours(d))) \in Nat
    BY <1>3, Numbers
  <2>2. CASE whole /\ ~discard
    <3>e. PICK e : e = Entry(b, c.n, FALSE)
      OBVIOUS
    <3>1. e \in Entries /\ OutputRing' = Append(OutputRing, e) /\ e.buffer = b /\ e.marker = FALSE
      BY <1>1, <1>6, <2>2, <3>e DEF Entry, Entries
    <3>2. /\ Cardinality(Places(OutputRing', Markers(d)))
                = Cardinality(Places(OutputRing, Markers(d))) + Count(e \in Markers(d))
          /\ Cardinality(Places(OutputRing', Ours(d)))
                = Cardinality(Places(OutputRing, Ours(d))) + Count(e \in Ours(d))
      BY <1>3, <3>1, PlacesAppend
    <3>3. Count(e \in Markers(d)) = 0 /\ Count(e \in Ours(d)) = Count(whole /\ ~discard /\ b = d)
      BY <2>2, <3>1 DEF Markers, Ours, Count
    <3>4. Cardinality(Places(OutputRing', Markers(d))) = Cardinality(Places(OutputRing, Markers(d)))
      BY <2>1, <3>2, <3>3
    <3> QED
      BY <2>1, <3>2, <3>3, <3>4
  <2>3. CASE ~(whole /\ ~discard)
    <3>1. OutputRing' = OutputRing /\ Count(whole /\ ~discard /\ b = d) = 0
      BY <1>1, <2>3 DEF Count
    <3> QED
      BY <2>1, <3>1
  <2> QED
    BY <2>2, <2>3
<1>27. \A d \in Buffers : Named(d)' = Named(d) /\ Carried(d)' = Carried(d)
  BY <1>5, <1>25, <1>26 DEF Carried, Count, Markers
<1>28. ASSUME NEW d \in Buffers, d # b PROVE Account(d)'
  <2>1. Account(d)
    BY Parts DEF Accounts
  <2>2. BufferState'[d] = BufferState[d] /\ Named(d)' = Named(d) /\ Carried(d)' = Carried(d)
    BY <1>1, <1>8, <1>27, <1>28
  <2>3. \A u \in Decoders : (pc'[u] = "discard" /\ context'[u].buffer = d)
                             <=> (pc[u] = "discard" /\ context[u].buffer = d)
    BY <1>2, <1>4, <1>10, <1>28 DEF Threads
  <2>4. Decoding(d)' <=> Decoding(d)
    BY <2>2, <2>3 DEF Decoding
  <2>5. Count(Decoding(d))' = Count(Decoding(d))
    BY <2>4 DEF Count
  <2>6. Pending(d)' = Pending(d)
    <3>1. Count(b = d) = 0
      BY <1>28 DEF Count
    <3>2. Pending(d) = Pending(d)' + 0 /\ Pending(d)' \in Nat
      BY <1>5, <3>1
    <3> QED
      BY <3>2
  <2>7. Cardinality(Places(OutputRing', Ours(d))) = Cardinality(Places(OutputRing, Ours(d)))
    <3>1. Count(whole /\ ~discard /\ b = d) = 0
      BY <1>28 DEF Count
    <3> QED
      BY <1>26, <3>1
  <2>8. Passed(d)' = Passed(d)
    BY <1>1, <2>7 DEF Passed, Ours
  <2> QED
    BY <1>1, <2>1, <2>2, <2>5, <2>6, <2>8, SameAccount
<1>29. Account(b)'
  <2>1. Account(b) /\ Count(Decoding(b)) = 1
    BY <1>5, <1>6, Parts DEF Accounts, Count
  <2>2. /\ BufferState[b].ReferenceFrameCount \in Nat /\ Named(b) \in Nat /\ Passed(b) \in Nat
        /\ shown[b] \in Nat /\ Held(b) \in Nat
    BY <1>3, <1>6, Numbers
  <2>3. Passed(b) = 0
    <3>1. Count(Decoding(b)) + Passed(b) <= 1
      BY <2>1 DEF Account
    <3> QED
      BY <2>1, <2>2, <3>1
  <2>4. Passed(b)' = Count(whole /\ ~discard)
    <3>1. Cardinality(Places(OutputRing, Ours(b))) + shown[b] = 0
      BY <2>3 DEF Passed
    <3>2. Count(whole /\ ~discard /\ b = b) = Count(whole /\ ~discard) /\ Count(whole /\ ~discard) \in {0, 1}
      BY DEF Count
    <3>3. Passed(b)' = Cardinality(Places(OutputRing', Ours(b))) + shown[b]
      BY <1>1 DEF Passed, Ours
    <3>4. /\ Cardinality(Places(OutputRing', Ours(b)))
               = Cardinality(Places(OutputRing, Ours(b))) + Count(whole /\ ~discard)
          /\ Cardinality(Places(OutputRing, Ours(b))) \in Nat
      BY <1>6, <1>26, <3>2
    <3> QED
      BY <2>2, <3>1, <3>2, <3>3, <3>4
  <2>5. Decoding(b)' <=> ~(whole /\ ~discard)
    <3>1. CASE discard
      <4>1. pc'[t] = "discard" /\ context'[t].buffer = b
        BY <1>2, <1>4, <3>1
      <4> QED
        BY <3>1, <4>1 DEF Decoding
    <3>2. CASE ~discard
      <4>1. ~\E u \in Decoders : pc'[u] = "discard" /\ context'[u].buffer = b
        BY <1>2, <1>4, <1>10, <3>2 DEF Threads
      <4>2. whole <=> BufferState'[b].OutputOnDecodesComplete /\ ~(BufferState'[b].DecodesInProgress > 0)
        <5>1. BufferState'[b].DecodesInProgress \in Nat
          BY <1>1, <1>7, <1>8
        <5>2. BufferState'[b].DecodesInProgress = 0 <=> ~(BufferState'[b].DecodesInProgress > 0)
          BY <5>1
        <5>3. BufferState'[b] = s[b]
          BY <1>1
        <5>4. whole <=> BufferState'[b].OutputOnDecodesComplete /\ BufferState'[b].DecodesInProgress = 0
          BY <1>9, <5>3
        <5> QED
          BY <5>2, <5>4
      <4>3. BufferState'[b].Buffer
        BY <1>1, <1>8
      <4> QED
        BY <3>2, <4>1, <4>2, <4>3 DEF Decoding
    <3> QED
      BY <3>1, <3>2
  <2>6. Count(Decoding(b))' \in {0, 1} /\ Passed(b)' \in {0, 1} /\ Count(Decoding(b))' + Passed(b)' = 1
    <3>1. CASE whole /\ ~discard
      BY <2>4, <2>5, <3>1 DEF Count
    <3>2. CASE ~(whole /\ ~discard)
      BY <2>4, <2>5, <3>2 DEF Count
    <3> QED
      BY <3>1, <3>2
  <2>7. Held(b)' = Held(b)
    <3>1. Held(b)' = BufferState'[b].ReferenceFrameCount + Named(b)' + Count(Decoding(b))' + Passed(b)'
      BY DEF Held
    <3>2. Held(b) = BufferState[b].ReferenceFrameCount + Named(b) + 1 + 0
      BY <2>1, <2>3 DEF Held
    <3>3. BufferState'[b].ReferenceFrameCount = BufferState[b].ReferenceFrameCount /\ Named(b)' = Named(b)
      BY <1>1, <1>6, <1>8, <1>27
    <3>4. Held(b)' = BufferState[b].ReferenceFrameCount + Named(b) + Count(Decoding(b))' + Passed(b)'
      BY <3>1, <3>3
    <3> QED
      BY <2>2, <2>6, <3>2, <3>4
  <2>8. Carried(b)' = Carried(b)
    BY <1>6, <1>27
  <2>9. owners'[b] = Held(b)' + Carried(b)'
    BY <1>1, <2>1, <2>7, <2>8 DEF Account
  <2>10. BufferState'[b].DecodesInProgress = Pending(b)'
    BY <1>1, <1>7, <1>8
  <2>11. Held(b)' > 0 /\ Carried(b)' = 0 /\ BufferState'[b].Buffer
    BY <1>1, <1>7, <1>8, <2>1, <2>7, <2>8 DEF Account
  <2>12. Count(Decoding(b))' + Passed(b)' <= 1
    BY <2>6
  <2> QED
    BY <1>6, <2>9, <2>10, <2>11, <2>12, NewAccount
<1>30. Accounts'
  BY <1>28, <1>29 DEF Accounts
<1> QED
  BY <1>16, <1>17, <1>18, <1>19, <1>21, <1>22, <1>23, <1>24, <1>30 DEF RInv, Typed, Control, Mapped

-----------------------------------------------------------------------------
(* All steps together *)

\* A step that moves no thread and touches no buffer.
LEMMA RCalm ==
    ASSUME RInv, UNCHANGED <<books, Current, pc, context, picture, pictures, references>>
    PROVE  RInv'
<1>1. TypedTable' /\ TypedQueues' /\ TypedSteps' /\ TypedStream'
  BY Parts DEF TypedTable, TypedQueues, TypedSteps, TypedStream, books
<1>2. Turns' /\ Holding' /\ Discards'
  BY Parts DEF Turns, Holding, Discards, GivenUp, books
<1>3. CurrentOpen' /\ Preparation'
  BY Parts DEF CurrentOpen, Preparation, Closing, GivingUp, books
<1>4. MapSound'
  BY Parts, CalmMap DEF books, TypedStream
<1>5. CurrentMapped' /\ NotMappedYet'
  BY Parts DEF CurrentMapped, NotMappedYet, books
<1>6. Accounts'
  BY CalmAccounts
<1> QED
  BY <1>1, <1>2, <1>3, <1>4, <1>5, <1>6 DEF RInv, Typed, Control, Mapped

LEMMA RInit == Init => RInv
<1> SUFFICES ASSUME Init PROVE RInv
  OBVIOUS
<1>1. /\ owners = [b \in Buffers |-> 0] /\ BufferState = [b \in Buffers |-> Unused] /\ map = {}
      /\ Current = None /\ OutputRing = <<>> /\ shown = [b \in Buffers |-> 0] /\ commands = <<>>
      /\ MarkerBuffer = None /\ pc = [t \in Threads |-> "idle"]
      /\ context = [t \in {"PtoD", "MME"} |-> NoContext]
      /\ picture = NoPicture /\ pictures = 0 /\ references = {}
  BY DEF Init, Current
<1>2. /\ pc = [t \in Threads |-> pc[t]] /\ pc["PtoD"] = "idle" /\ pc["MME"] = "idle" /\ pc["drain"] = "idle"
      /\ \A t \in Decoders : context[t] = NoContext
  BY <1>1 DEF Threads, Decoders
<1>3. TypedTable
  BY <1>1 DEF TypedTable, Unused, States
<1>4. TypedQueues
  BY <1>1, <1>2 DEF TypedQueues, Decoders
<1>5. TypedSteps
  BY <1>2 DEF TypedSteps, PtoDSteps, MMESteps, DrainSteps
<1>6. TypedStream
  BY <1>1 DEF TypedStream, NoPicture, Pictures
<1>7. Turns /\ CurrentOpen /\ Preparation /\ Holding /\ Discards
  BY <1>1, <1>2 DEF Turns, CurrentOpen, Preparation, Holding, Discards, Decoders
<1>8. MapSound
  BY <1>1, <1>2 DEF MapSound, RefsMapped, NoContext
<1>9. CurrentMapped /\ NotMappedYet
  BY <1>2 DEF CurrentMapped, NotMappedYet, Partial
<1>10. ASSUME NEW b \in Buffers PROVE Account(b)
  <2>1. BufferState[b] = Unused /\ owners[b] = 0 /\ shown[b] = 0
    BY <1>1
  <2>2. ~Decoding(b) /\ ~Sending(b) /\ ~AtMap(b) /\ ~AtMarker(b)
    BY <1>1, <1>2, <2>1 DEF Decoding, Sending, AtMap, AtMarker, Unused, Decoders
  <2>3. \A E : Places(<<>>, E) = {}
    BY DEF Places
  <2>4. \A E : Cardinality(Places(<<>>, E)) = 0
    BY <2>3, FS_EmptySet
  <2>5. Slots(<<>>, b) = {}
    BY DEF Slots
  <2>6. Named(b) = 0
    <3>1. Cardinality(Slots(commands, b)) = 0
      BY <1>1, <2>5, FS_EmptySet
    <3>2. Times(context["PtoD"].refs, b) = 0 /\ Times(context["MME"].refs, b) = 0
      BY <1>2, NoRefs DEF Decoders, NoContext
    <3> QED
      BY <3>1, <3>2 DEF Named, Queued, Slots
  <2>7. Passed(b) = 0 /\ Carried(b) = 0 /\ Pending(b) = 0 /\ Count(Decoding(b)) = 0
    BY <1>1, <2>1, <2>2, <2>4 DEF Passed, Carried, Pending, Count
  <2>8. Held(b) = 0
    BY <2>1, <2>6, <2>7 DEF Held, Unused
  <2> QED
    BY <1>1, <2>1, <2>7, <2>8 DEF Account, Unused
<1> QED
  BY <1>3, <1>4, <1>5, <1>6, <1>7, <1>8, <1>9, <1>10 DEF RInv, Typed, Control, Mapped, Accounts

\* Every step keeps the invariant.
LEMMA RNext ==
    ASSUME Serialized
    PROVE  RInv /\ [Next]_vars => RInv'
<1> SUFFICES ASSUME RInv, [Next]_vars PROVE RInv'
  OBVIOUS
<1>1. CASE UNCHANGED vars
  BY <1>1, RCalm DEF vars, books, table, output, mme, marking, threads, stream, Current
<1>2. CASE PtoD
  <2>1. CASE OutputPartialDecodeBuffers("PtoD")
    BY <2>1, RPartialTestPtoD, RPartialOutput, RPartialClearPtoD DEF OutputPartialDecodeBuffers
  <2>2. CASE GetDecodeBuffer \/ MapNew \/ MapSecond \/ TranslateReferenceFrameLists
    BY <2>2, RGetDecodeBuffer, RMapNew, RMapSecond, RTranslate
  <2>3. CASE Launch \/ SendMMEDecodeCommand \/ Finish
    BY <2>3, RLaunch, RSend, RFinish
  <2>4. CASE CompleteFailed
    <3>1. Complete("PtoD", context["PtoD"]) /\ Ended("PtoD", context["PtoD"])
      BY <2>4 DEF CompleteFailed, Ended
    <3> QED
      BY <3>1, RComplete DEF Decoders
  <2>5. CASE ReleaseDecodeContext("PtoD")
    BY <2>5, RDiscard, RComparePtoD, RReleaseReference, RReleasedPtoD DEF ReleaseDecodeContext, Decoders
  <2>6. CASE MarkerInput \/ GetMarkerBuffer \/ PassOnMarker("PtoD")
    BY <2>6, RMarkerInput, RGetMarkerBuffer, RTestPtoD, RTakeMarker DEF PassOnMarker, Decoders
  <2> QED
    BY <1>2, <2>1, <2>2, <2>3, <2>4, <2>5, <2>6 DEF PtoD
<1>3. CASE MME
  <2>1. CASE CallbackFromMME
    <3>1. Complete("MME", Head(commands)) /\ Ended("MME", Head(commands))
      BY <2>1 DEF CallbackFromMME, Ended
    <3> QED
      BY <3>1, RComplete DEF Decoders
  <2>2. CASE ReleaseDecodeContext("MME")
    BY <2>2, RDiscard, RCompareMME, RReleaseReference, RReleasedMME DEF ReleaseDecodeContext, Decoders
  <2>3. CASE PassOnMarker("MME")
    BY <2>3, RTestMME, RTakeMarker DEF PassOnMarker, Decoders
  <2> QED
    BY <1>3, <2>1, <2>2, <2>3 DEF MME
<1>4. CASE Drain
  BY <1>4, RUntil, RPartialTestDrain, RPartialOutput, RPartialClearDrain, RInsert
  DEF Drain, OutputPartialDecodeBuffers
<1>5. CASE Display
  BY <1>5, RTakeOutput, RReplaced DEF Display
<1>6. CASE Environment
  <2>1. CASE \E kind \in Kinds, ref \in BOOLEAN, list \in SUBSET references : Input(kind, ref, list)
    BY <2>1, RInput
  <2>2. CASE \E d \in references : ReleaseReferenceFrame(d)
    BY <2>2, RReleaseReferenceFrame
  <2>3. CASE ReleaseAllReferenceFrames \/ CallOutputPartialDecodeBuffers \/ FillFails \/ SendFails
    BY <2>3, RReleaseAll, RCallPartial, RFillFails, RSendFails
  <2>4. CASE DrainStart(TRUE)
    BY <2>4, RDiscardStart
  <2>5. CASE DrainStart(FALSE)
    BY <2>5, RCalm DEF DrainStart, books, table, output, mme, marking, Current
  <2> QED
    BY <1>6, <2>1, <2>2, <2>3, <2>4, <2>5 DEF Environment
<1> QED
  BY <1>1, <1>2, <1>3, <1>4, <1>5, <1>6 DEF Next

-----------------------------------------------------------------------------
\* What was given out is a picture or a marker.
LEMMA GivenCounts ==
    ASSUME RInv, NEW b \in Buffers
    PROVE  Given(b) = Passed(b) + Cardinality(Places(OutputRing, Markers(b)))
<1> DEFINE O == Places(OutputRing, Ours(b))
           M == Places(OutputRing, Markers(b))
<1>1. OutputRing \in Seq(Entries)
  BY Parts DEF TypedQueues
<1>2. \A i \in DOMAIN OutputRing : OutputRing[i] \in Entries
  BY <1>1
<1>3. {i \in DOMAIN OutputRing : OutputRing[i].buffer = b} = O \cup M
  BY <1>2 DEF Places, Ours, Markers, Entries
<1>4. \A i \in O : i \notin M
  BY DEF Places, Ours, Markers
<1>5. /\ IsFiniteSet(O) /\ IsFiniteSet(M) /\ Cardinality(O) \in Nat /\ Cardinality(M) \in Nat
  BY <1>1, PlacesFinite
<1>6. shown[b] \in Nat
  BY Parts DEF TypedTable
<1>7. Given(b) = Cardinality(O \cup M) + shown[b] /\ Passed(b) = Cardinality(O) + shown[b]
  BY <1>3 DEF Given, Passed
<1> HIDE DEF O, M
<1>8. Cardinality(O \cup M) = Cardinality(O) + Cardinality(M)
  BY <1>4, <1>5, Disjoint
<1>9. Given(b) = Passed(b) + Cardinality(M)
  BY <1>5, <1>6, <1>7, <1>8
<1> QED
  BY <1>9 DEF M

\* The account of one buffer.
LEMMA ExactOne ==
    ASSUME RInv, NEW b \in Buffers
    PROVE  owners[b] = BufferState[b].ReferenceFrameCount + Named(b) + Given(b)
                       + Count(Working(b))
                       + Count(MarkerBuffer # None /\ MarkerBuffer.buffer = b)
<1>1. Typed /\ Account(b)
  BY Parts DEF Typed, Accounts
<1>2. /\ owners[b] = Held(b) + Carried(b)
      /\ Held(b) = BufferState[b].ReferenceFrameCount + Named(b) + Count(Decoding(b)) + Passed(b)
      /\ Carried(b) = Count(AtMap(b)) + Count(AtMarker(b)) + Cardinality(Places(OutputRing, Markers(b)))
  BY <1>1 DEF Account, Held, Carried
<1>3. /\ BufferState[b].ReferenceFrameCount \in Nat /\ Named(b) \in Nat /\ Passed(b) \in Nat
      /\ Cardinality(Places(OutputRing, Markers(b))) \in Nat /\ Held(b) \in Nat
      /\ Count(Decoding(b)) \in {0, 1}
  BY <1>1, Numbers
<1>4. Count(AtMap(b)) \in {0, 1} /\ Count(AtMarker(b)) \in {0, 1}
  BY DEF Count
<1>5. Working(b) <=> Decoding(b) \/ AtMap(b)
  BY DEF Working, Decoding, AtMap, Decoders
<1>6. ~(Decoding(b) /\ AtMap(b))
  <2> SUFFICES ASSUME Decoding(b), AtMap(b) PROVE FALSE
    OBVIOUS
  <2>1. Count(Decoding(b)) = 1 /\ Count(AtMap(b)) = 1
    BY DEF Count
  <2>2. Carried(b) > 0
    <3>1. Carried(b) = 1 + Count(AtMarker(b)) + Cardinality(Places(OutputRing, Markers(b)))
      BY <1>2, <2>1
    <3>2. Count(AtMarker(b)) \in {0, 1} /\ Cardinality(Places(OutputRing, Markers(b))) \in Nat
      BY <1>3, <1>4
    <3> QED
      BY <3>1, <3>2
  <2>3. Held(b) > 0
    <3>1. Held(b) = BufferState[b].ReferenceFrameCount + Named(b) + 1 + Passed(b)
      BY <1>2, <2>1
    <3>2. BufferState[b].ReferenceFrameCount \in Nat /\ Named(b) \in Nat /\ Passed(b) \in Nat
      BY <1>3
    <3> QED
      BY <3>1, <3>2
  <2> QED
    BY <1>1, <2>2, <2>3 DEF Account
<1>7. Count(Working(b)) = Count(Decoding(b)) + Count(AtMap(b))
  BY <1>5, <1>6 DEF Count
<1>8. Count(MarkerBuffer # None /\ MarkerBuffer.buffer = b) = Count(AtMarker(b))
  BY DEF AtMarker, Count
<1>9. Given(b) = Passed(b) + Cardinality(Places(OutputRing, Markers(b)))
  BY GivenCounts
<1> QED
  BY <1>2, <1>3, <1>4, <1>7, <1>8, <1>9

\* A decode buffer has exactly the references of those that still use it
\* (codec_mme_base.cpp:1837-1875, :670-690, :1307-1308, :1212-1228), for any
\* buffers and pictures, as long as the steps that the Lock leaves unordered do
\* not overlap (Serialized; without it the run codec_partial finds a buffer that
\* is given out twice).
THEOREM CodecReferencesExact ==
    ASSUME Serialized
    PROVE  Spec => []ReferencesExact
<1>1. RInv => ReferencesExact
  BY ExactOne DEF ReferencesExact
<1> QED
  BY <1>1, RInit, RNext, PTL DEF Spec

\* What a decode writes and reads still holds the pictures that the indices
\* meant when they were translated (codec_mme_base.cpp:941-962, :1258-1317),
\* whatever the parser or a drain released in between, as long as the steps that
\* the Lock leaves unordered do not overlap (Serialized).
THEOREM CodecDecodesSound ==
    ASSUME Serialized
    PROVE  Spec => []DecodesReadWhatTheyName
<1>1. RInv => DecodesReadWhatTheyName
  <2> SUFFICES ASSUME RInv, NEW c \in InFlight
               PROVE  <<c.n, c.buffer>> \in map /\ ToSet(c.refs) \subseteq map
    BY DEF DecodesReadWhatTheyName
  <2>1. CASE c \in ToSet(commands)
    <3>1. PICK k \in DOMAIN commands : c = commands[k]
      BY <2>1 DEF ToSet
    <3> QED
      BY <3>1, Parts DEF MapSound, RefsMapped, ToSet
  <2>2. CASE c = context["PtoD"] /\ pc["PtoD"] \in {"launch", "send"}
    BY <2>2, Parts DEF CurrentMapped, MapSound, RefsMapped, ToSet, Decoders
  <2> QED
    BY <2>1, <2>2 DEF InFlight
<1> QED
  BY <1>1, RInit, RNext, PTL DEF Spec

\* A buffer is given out once, and never while it is decoded into
\* (codec_mme_base.cpp:973-995, :1114-1181), as long as the steps that the Lock
\* leaves unordered do not overlap (Serialized).
THEOREM CodecOutputOnce ==
    ASSUME Serialized
    PROVE  Spec => []OutputOnce
<1>1. RInv => OutputOnce
  <2> SUFFICES ASSUME RInv, NEW b \in Buffers
               PROVE  Given(b) <= 1 /\ (BufferState[b].DecodesInProgress > 0 => Given(b) = 0)
    BY DEF OutputOnce
  <2>1. Typed /\ Account(b)
    BY Parts DEF Typed, Accounts
  <2>2. Given(b) = Passed(b) + Cardinality(Places(OutputRing, Markers(b)))
    BY GivenCounts
  <2>3. /\ Named(b) \in Nat /\ Passed(b) \in Nat
        /\ Cardinality(Places(OutputRing, Markers(b))) \in Nat
        /\ BufferState[b].ReferenceFrameCount \in Nat
    BY <2>1, Numbers
  <2>4. Count(Decoding(b)) \in {0, 1} /\ (Count(Decoding(b)) = 1 <=> Decoding(b))
    BY <2>1, Numbers
  <2>5. Count(AtMap(b)) \in {0, 1} /\ Count(AtMarker(b)) \in {0, 1}
    BY DEF Count
  <2>6. Cardinality(Places(OutputRing, Markers(b))) <= Carried(b)
    BY <2>3, <2>5 DEF Carried
  <2>7. Carried(b) \in Nat /\ Held(b) \in Nat
    BY <2>1, Numbers
  <2>8. CASE BufferState[b].Buffer
    <3>1. Carried(b) = 0 /\ Count(Decoding(b)) + Passed(b) <= 1
      BY <2>1, <2>8 DEF Account
    <3>2. Given(b) = Passed(b)
      BY <2>2, <2>3, <2>6, <3>1
    <3>3. BufferState[b].DecodesInProgress > 0 => Decoding(b)
      BY <2>8 DEF Decoding
    <3>4. Passed(b) <= 1
      BY <2>3, <2>4, <3>1
    <3>5. Count(Decoding(b)) = 1 => Passed(b) = 0
      BY <2>3, <3>1
    <3> QED
      BY <2>4, <3>2, <3>3, <3>4, <3>5
  <2>9. CASE ~BufferState[b].Buffer
    <3>1. BufferState[b] = Unused /\ Held(b) = 0 /\ Carried(b) <= 1
      BY <2>1, <2>9 DEF Account
    <3>2. Passed(b) = 0
      <4>1. BufferState[b].ReferenceFrameCount + Named(b) + Count(Decoding(b)) + Passed(b) = 0
        BY <3>1 DEF Held
      <4> QED
        BY <2>3, <2>4, <4>1
    <3>3. ~(BufferState[b].DecodesInProgress > 0)
      BY <3>1 DEF Unused
    <3>4. Given(b) <= 1
      BY <2>2, <2>3, <2>6, <2>7, <3>1, <3>2
    <3> QED
      BY <3>3, <3>4
  <2> QED
    BY <2>8, <2>9
<1> QED
  BY <1>1, RInit, RNext, PTL DEF Spec

-----------------------------------------------------------------------------
(* The types, in every interleaving: without the order that Serialized gives,  *)
(* counts may be off and the current buffer may go away under the second       *)
(* process, but what the tables, the ring and the decodes name are buffers of  *)
(* the pool and pictures that came                                             *)

LooseStates == [Buffer : BOOLEAN, OutputOnDecodesComplete : BOOLEAN, DecodesInProgress : Int,
                ReferenceFrameCount : Nat, Fields : SUBSET {1, 2}]

TableTyped ==
    /\ owners \in [Buffers -> Int]
    /\ BufferState \in [Buffers -> LooseStates]
    /\ Current \in Buffers \cup {None}
    /\ pictures \in Nat
    /\ map \subseteq (1..pictures) \X Buffers
    /\ \A p, q \in map : p[1] = q[1] => p = q

\* The picture that is to be mapped is one that came, is not mapped yet, and has
\* its buffer.
PictureTyped ==
    /\ references \subseteq 1..pictures
    /\ picture \in Pictures /\ picture.list \subseteq 1..pictures
    /\ picture.then = "buffer" => picture.n \in 1..pictures
    /\ pc["PtoD"] \in {"buffer", "map"} => picture.then = "buffer"
    /\ pc["PtoD"] \in Partial \cup {"buffer", "map"} /\ picture.then = "buffer" =>
           \A p \in map : p[1] # picture.n
    /\ pc["PtoD"] = "map" => picture.buffer \in Buffers

RingTyped ==
    /\ \E S : OutputRing \in Seq(S)
    /\ \A i \in DOMAIN OutputRing : OutputRing[i].buffer \in Buffers

\* Every decode that is on its way to the co-processor, or with it, has a buffer.
DecodesTyped ==
    /\ \A i \in DOMAIN commands : commands[i].buffer \in Buffers
    /\ context = [t \in Decoders |-> context[t]]
    /\ pc["PtoD"] \in {"launch", "send", "complete"} => context["PtoD"].buffer \in Buffers

MarkerTyped == MarkerBuffer # None => MarkerBuffer.buffer \in Buffers

TInv == TableTyped /\ PictureTyped /\ RingTyped /\ DecodesTyped /\ MarkerTyped

\* What a field of a record may be set to.
LEMMA StateChanges ==
    ASSUME NEW s \in LooseStates, NEW d \in Int, NEW f \in SUBSET {1, 2}, NEW o \in BOOLEAN
    PROVE  /\ [s EXCEPT !.DecodesInProgress = d] \in LooseStates
           /\ [s EXCEPT !.OutputOnDecodesComplete = o] \in LooseStates
           /\ [s EXCEPT !.Buffer = o] \in LooseStates
           /\ [s EXCEPT !.DecodesInProgress = d, !.Fields = f, !.OutputOnDecodesComplete = o]
                  \in LooseStates
<1>1. [s EXCEPT !.DecodesInProgress = d] \in LooseStates
  BY DEF LooseStates
<1>2. [s EXCEPT !.OutputOnDecodesComplete = o] \in LooseStates
  BY DEF LooseStates
<1>3. [s EXCEPT !.Buffer = o] \in LooseStates
  BY DEF LooseStates
<1>4. [s EXCEPT !.DecodesInProgress = d, !.Fields = f, !.OutputOnDecodesComplete = o]
          \in LooseStates
  BY DEF LooseStates
<1> QED
  BY <1>1, <1>2, <1>3, <1>4

LEMMA RingGrows ==
    ASSUME RingTyped, NEW e, e.buffer \in Buffers,
           \/ OutputRing' = OutputRing
           \/ OutputRing' = Append(OutputRing, e)
    PROVE  RingTyped'
<1> PICK S : OutputRing \in Seq(S)
  BY DEF RingTyped
<1>1. CASE OutputRing' = OutputRing
  BY <1>1 DEF RingTyped
<1>2. CASE OutputRing' = Append(OutputRing, e)
  <2>1. OutputRing \in Seq(S \cup {e})
    OBVIOUS
  <2>2. OutputRing' \in Seq(S \cup {e})
    BY <1>2, <2>1
  <2>3. \A i \in DOMAIN OutputRing' :
            OutputRing'[i] = e \/ (i \in DOMAIN OutputRing /\ OutputRing'[i] = OutputRing[i])
    BY <1>2, <2>1
  <2> QED
    BY <2>2, <2>3 DEF RingTyped
<1> QED
  BY <1>1, <1>2

LEMMA RingShrinks ==
    ASSUME RingTyped, OutputRing # <<>>, OutputRing' = Tail(OutputRing)
    PROVE  RingTyped'
<1> PICK S : OutputRing \in Seq(S)
  BY DEF RingTyped
<1>1. OutputRing' \in Seq(S) /\ \A i \in DOMAIN OutputRing' : i + 1 \in DOMAIN OutputRing /\ OutputRing'[i] = OutputRing[i + 1]
  OBVIOUS
<1> QED
  BY <1>1 DEF RingTyped

\* A reference less: s is the table so far.
LEMMA DecrementTyped ==
    ASSUME TableTyped, NEW s \in [Buffers -> LooseStates], NEW b, DecrementReferenceCount(s, b)
    PROVE  /\ owners' \in [Buffers -> Int]
           /\ BufferState' \in [Buffers -> LooseStates]
           /\ map' \subseteq map
<1>1. owners \in [Buffers -> Int]
  BY DEF TableTyped
<1>2. Unused \in LooseStates
  BY DEF Unused, LooseStates
<1>3. CASE ~s[b].Buffer
  BY <1>1, <1>3 DEF DecrementReferenceCount
<1>4. CASE s[b].Buffer
  <2>1. owners' = [owners EXCEPT ![b] = @ - 1]
    BY <1>4 DEF DecrementReferenceCount
  <2>2. BufferState' = s \/ BufferState' = [s EXCEPT ![b] = Unused]
    BY <1>4 DEF DecrementReferenceCount
  <2>3. map' \subseteq map
    BY <1>4 DEF DecrementReferenceCount
  <2>4. owners' \in [Buffers -> Int]
    <3>1. \A c \in Buffers : owners[c] - 1 \in Int
      BY <1>1
    <3> QED
      BY <1>1, <2>1, <3>1
  <2>5. BufferState' \in [Buffers -> LooseStates]
    <3> HIDE DEF LooseStates
    <3> QED
      BY <1>2, <2>2
  <2> QED
    BY <2>3, <2>4, <2>5
<1> QED
  BY <1>3, <1>4

LEMMA ReleaseTyped ==
    ASSUME TableTyped, NEW b, ReleaseDecodeBuffer(b), UNCHANGED <<Current, pictures>>
    PROVE  TableTyped'
<1>1. CASE BufferState[b].Buffer
  <2>1. DecrementReferenceCount(BufferState, b)
    BY <1>1 DEF ReleaseDecodeBuffer
  <2> QED
    BY <2>1, DecrementTyped DEF TableTyped
<1>2. CASE ~BufferState[b].Buffer
  BY <1>2 DEF ReleaseDecodeBuffer, TableTyped
<1> QED
  BY <1>1, <1>2

LEMMA ReleaseMaps ==
    ASSUME TableTyped, NEW b, ReleaseDecodeBuffer(b)
    PROVE  map' \subseteq map
<1>1. BufferState \in [Buffers -> LooseStates]
  BY DEF TableTyped
<1> QED
  BY <1>1, DecrementTyped DEF ReleaseDecodeBuffer

\* A step that brings neither a picture nor a decode.
LEMMA TypesKept ==
    ASSUME TInv, TableTyped', RingTyped', MarkerTyped',
           UNCHANGED <<commands, context, picture, references, pictures>>, map' \subseteq map,
           \/ pc'["PtoD"] = pc["PtoD"]
           \/ pc'["PtoD"] \notin Partial \cup {"buffer", "map", "launch", "send", "complete"}
           \/ pc["PtoD"] \in Partial /\ pc'["PtoD"] \in Partial
           \/ pc["PtoD"] \in Partial /\ pc'["PtoD"] = "buffer" /\ picture.then = "buffer"
    PROVE  TInv'
BY DEF TInv, PictureTyped, DecodesTyped, Partial

LEMMA TPartial ==
    ASSUME TInv, IInv, NEW t \in {"PtoD", "drain"}, OutputPartialDecodeBuffers(t)
    PROVE  TInv'
<1>1. PICK l \in Partial \cup {"wild", Then(t)} : pc' = [pc EXCEPT ![t] = l]
  BY DEF OutputPartialDecodeBuffers, PartialTest, PartialOutput, PartialClear, Wild, Goto, Partial
<1>2. pc'[t] = l /\ \A u \in Threads \ {t} : pc'[u] = pc[u]
  BY <1>1, Goes, ThreeThreads
<1>3. Then("PtoD") \in {"idle", "buffer"} /\ (Then("PtoD") = "buffer" => picture.then = "buffer")
  BY DEF Then, TInv, PictureTyped, Pictures
<1>4. \/ pc'["PtoD"] = pc["PtoD"]
      \/ pc'["PtoD"] \notin Partial \cup {"buffer", "map", "launch", "send", "complete"}
      \/ pc["PtoD"] \in Partial /\ pc'["PtoD"] \in Partial
      \/ pc["PtoD"] \in Partial /\ pc'["PtoD"] = "buffer" /\ picture.then = "buffer"
  <2>1. pc[t] \in Partial
    BY DEF OutputPartialDecodeBuffers, PartialTest, PartialOutput, PartialClear, Goto, Partial
  <2> QED
    BY <1>2, <1>3, <2>1, ThreeThreads DEF Partial
<1>5. UNCHANGED <<commands, context, picture, references, pictures, MarkerBuffer, owners, map>>
  BY DEF OutputPartialDecodeBuffers, PartialTest, PartialOutput, PartialClear, table, mme, marking, stream
<1>6. CASE PartialTest(t) \/ PartialClear(t)
  <2>1. TableTyped' /\ RingTyped'
    BY <1>5, <1>6 DEF PartialTest, PartialClear, Current, table, output, TInv, TableTyped, RingTyped
  <2> QED
    BY <1>4, <1>5, <2>1, TypesKept DEF TInv, MarkerTyped
<1>7. CASE PartialOutput(t)
  <2>1. UNCHANGED Current
    BY <1>7 DEF PartialOutput, Current
  <2>2. CASE Current = None
    <3>1. TableTyped' /\ RingTyped'
      BY <1>5, <1>7, <2>1, <2>2 DEF PartialOutput, TInv, TableTyped, RingTyped
    <3> QED
      BY <1>4, <1>5, <3>1, TypesKept DEF TInv, MarkerTyped
  <2>3. CASE Current # None
    <3>1. Current \in Buffers /\ Entry(Current, 0, FALSE).buffer = Current
      BY <2>3 DEF TInv, TableTyped, Entry
    <3>2. RingTyped'
      BY <1>7, <2>3, <3>1, RingGrows DEF PartialOutput, TInv
    <3>3. BufferState' \in [Buffers -> LooseStates]
      <4>1. BufferState' = [BufferState EXCEPT ![Current] =
                                [BufferState[Current] EXCEPT !.OutputOnDecodesComplete = TRUE]]
        BY <1>7, <2>3 DEF PartialOutput
      <4>2. BufferState[Current] \in LooseStates
        BY <3>1 DEF TInv, TableTyped
      <4>3. 0 \in Int /\ {} \in SUBSET {1, 2} /\ TRUE \in BOOLEAN
        OBVIOUS
      <4>4. [BufferState[Current] EXCEPT !.OutputOnDecodesComplete = TRUE] \in LooseStates
        BY <4>2, <4>3, StateChanges
      <4> QED
        BY <4>1, <4>4 DEF TInv, TableTyped
    <3>4. TableTyped'
      BY <1>5, <2>1, <3>3 DEF TInv, TableTyped
    <3> QED
      BY <1>4, <1>5, <3>2, <3>4, TypesKept DEF TInv, MarkerTyped
  <2> QED
    BY <2>2, <2>3
<1> QED
  BY <1>6, <1>7 DEF OutputPartialDecodeBuffers

LEMMA TInput ==
    ASSUME TInv, IInv, NEW kind \in Kinds, NEW ref \in BOOLEAN, NEW list \in SUBSET references,
           Input(kind, ref, list)
    PROVE  TInv'
<1>1. /\ pictures' = pictures + 1
      /\ references' \subseteq references \cup {pictures + 1}
      /\ picture' = [NoPicture EXCEPT !.n = pictures', !.kind = kind, !.ref = ref, !.list = list,
                                      !.then = IF discarding THEN "idle" ELSE "buffer"]
      /\ pc' = [pc EXCEPT !["PtoD"] = IF kind # "second" THEN "partial" ELSE picture'.then]
      /\ UNCHANGED <<table, Current, OutputRing, commands, MarkerBuffer, context>>
  BY DEF Input, Current, output, mme, marking
<1>2. pictures \in Nat /\ 1..pictures \subseteq 1..pictures + 1
  BY DEF TInv, TableTyped
<1>3. /\ pc'["PtoD"] \in {"partial", picture'.then}
  BY <1>1, Goes, ThreeThreads
<1>4. picture' = [n |-> pictures', kind |-> kind, ref |-> ref, list |-> list, buffer |-> None,
                  last |-> FALSE, then |-> IF discarding THEN "idle" ELSE "buffer"]
  BY <1>1 DEF NoPicture
<1>5. list \subseteq 1..pictures /\ list \subseteq Nat /\ kind \in {"frame", "first", "second"}
  <2>1. references \subseteq 1..pictures
    BY DEF TInv, PictureTyped
  <2>2. 1..pictures \subseteq Nat
    OBVIOUS
  <2> QED
    BY <2>1, <2>2, KindsAssumption
<1>6. picture' \in Pictures /\ picture'.list = list /\ picture'.n = pictures' /\ picture'.then \in {"idle", "buffer"}
  <2>1. pictures' \in Nat /\ list \in SUBSET Nat /\ (IF discarding THEN "idle" ELSE "buffer") \in {"idle", "buffer"}
    BY <1>1, <1>2, <1>5
  <2> QED
    BY <1>4, <1>5, <2>1 DEF Pictures
<1>7. PictureTyped'
  <2>1. references' \subseteq 1..pictures'
    BY <1>1, <1>2 DEF TInv, PictureTyped
  <2>2. picture'.n \in 1..pictures' /\ picture'.list \subseteq 1..pictures'
    BY <1>1, <1>2, <1>5, <1>6
  <2>3. pc'["PtoD"] # "map" /\ (pc'["PtoD"] = "buffer" => picture'.then = "buffer")
    BY <1>3, <1>6
  <2>4. \A p \in map' : p[1] # picture'.n
    BY <1>1, <1>2, <1>6 DEF TInv, TableTyped, table
  <2> QED
    BY <1>6, <2>1, <2>2, <2>3, <2>4 DEF PictureTyped
<1>8. TableTyped'
  BY <1>1, <1>2 DEF TInv, TableTyped, table
<1>9. RingTyped' /\ DecodesTyped' /\ MarkerTyped'
  BY <1>1, <1>3, <1>6 DEF TInv, RingTyped, DecodesTyped, MarkerTyped
<1> QED
  BY <1>7, <1>8, <1>9 DEF TInv

LEMMA TParser ==
    ASSUME TInv,
           \/ \E d \in references : ReleaseReferenceFrame(d)
           \/ ReleaseAllReferenceFrames
    PROVE  TInv'
<1>1. /\ UNCHANGED <<Current, OutputRing, commands, MarkerBuffer, context, picture, pictures, pc>>
      /\ references' \subseteq references
  BY DEF ReleaseReferenceFrame, ReleaseAllReferenceFrames, Current, output, mme, marking, threads
<1>2. TableTyped' /\ map' \subseteq map
  <2>1. CASE ReleaseAllReferenceFrames
    <3> DEFINE held(b) == owners[b] - BufferState[b].ReferenceFrameCount
    <3>1. /\ owners' = [b \in Buffers |-> held(b)]
          /\ BufferState' = [b \in Buffers |-> IF held(b) = 0 THEN Unused
                                 ELSE [BufferState[b] EXCEPT !.ReferenceFrameCount = 0]]
          /\ map' \subseteq map
      BY <2>1 DEF ReleaseAllReferenceFrames
    <3>2. \A b \in Buffers : held(b) \in Int /\ BufferState[b] \in LooseStates
      BY DEF TInv, TableTyped, LooseStates
    <3>3. owners' \in [Buffers -> Int]
      BY <3>1, <3>2
    <3>4. \A b \in Buffers : [BufferState[b] EXCEPT !.ReferenceFrameCount = 0] \in LooseStates
      BY <3>2 DEF LooseStates
    <3>5. Unused \in LooseStates
      BY DEF Unused, LooseStates
    <3>6. BufferState' \in [Buffers -> LooseStates]
      BY <3>1, <3>4, <3>5
    <3> QED
      BY <1>1, <3>1, <3>3, <3>6 DEF TInv, TableTyped
  <2>2. ASSUME NEW d \in references, ReleaseReferenceFrame(d)
        PROVE  TableTyped' /\ map' \subseteq map
    <3>1. CASE \E b \in Buffers : <<d, b>> \in map /\ BufferState[b].ReferenceFrameCount # 0
      <4> DEFINE b == CHOOSE c \in Buffers : <<d, c>> \in map
                 s == [BufferState EXCEPT ![b].ReferenceFrameCount = @ - 1]
      <4>1. DecrementReferenceCount(s, b)
        BY <2>2, <3>1 DEF ReleaseReferenceFrame
      <4>2. b \in Buffers /\ BufferState[b].ReferenceFrameCount # 0
        <5>1. PICK c \in Buffers : <<d, c>> \in map /\ BufferState[c].ReferenceFrameCount # 0
          BY <3>1
        <5>2. b \in Buffers /\ <<d, b>> \in map
          BY <5>1
        <5>3. \A p, q \in map : p[1] = q[1] => p = q
          BY DEF TInv, TableTyped
        <5>4. <<d, b>> = <<d, c>>
          BY <5>1, <5>2, <5>3
        <5> QED
          BY <5>1, <5>4
      <4> HIDE DEF b
      <4>3. s \in [Buffers -> LooseStates]
        BY <4>2 DEF TInv, TableTyped, LooseStates
      <4> HIDE DEF s
      <4> QED
        BY <1>1, <4>1, <4>3, DecrementTyped DEF TInv, TableTyped
    <3>2. CASE ~\E b \in Buffers : <<d, b>> \in map /\ BufferState[b].ReferenceFrameCount # 0
      BY <1>1, <2>2, <3>2 DEF ReleaseReferenceFrame, TInv, TableTyped, table
    <3> QED
      BY <3>1, <3>2
  <2> QED
    BY <2>1, <2>2
<1>3. PictureTyped'
  BY <1>1, <1>2 DEF TInv, PictureTyped
<1>4. RingTyped' /\ DecodesTyped' /\ MarkerTyped'
  BY <1>1 DEF TInv, RingTyped, DecodesTyped, MarkerTyped
<1> QED
  BY <1>2, <1>3, <1>4 DEF TInv

LEMMA TCallPartial ==
    ASSUME TInv, IInv, CallOutputPartialDecodeBuffers
    PROVE  TInv'
<1>1. /\ pc'["PtoD"] = "partial" /\ picture' = NoPicture
      /\ UNCHANGED <<table, Current, OutputRing, commands, MarkerBuffer, context, pictures, references>>
  BY Goes, ThreeThreads DEF CallOutputPartialDecodeBuffers, Goto, Current, output, mme, marking, stream
<1>2. /\ NoPicture \in Pictures /\ NoPicture.list = {} /\ NoPicture.then = "idle"
  BY DEF NoPicture, Pictures
<1>3. PictureTyped'
  BY <1>1, <1>2 DEF TInv, PictureTyped
<1> QED
  BY <1>1, <1>3 DEF TInv, TableTyped, table, RingTyped, DecodesTyped, MarkerTyped

LEMMA TGetDecodeBuffer ==
    ASSUME TInv, IInv, GetDecodeBuffer
    PROVE  TInv'
<1>1. PICK b \in Buffers : Obtain(b) /\ picture' = [picture EXCEPT !.buffer = b]
  BY DEF GetDecodeBuffer
<1>2. /\ pc["PtoD"] = "buffer" /\ pc'["PtoD"] = "map"
      /\ UNCHANGED <<BufferState, map, Current, OutputRing, commands, MarkerBuffer, context, pictures,
                     references>>
  BY Goes, ThreeThreads DEF GetDecodeBuffer, Goto, Current, output, mme, marking, stream
<1>3. /\ picture' \in Pictures /\ picture'.buffer = b
      /\ picture'.n = picture.n /\ picture'.list = picture.list /\ picture'.then = picture.then
  BY <1>1 DEF TInv, PictureTyped, Pictures
<1>4. PictureTyped'
  BY <1>2, <1>3 DEF TInv, PictureTyped
<1>5. TableTyped'
  BY <1>1, <1>2 DEF TInv, TableTyped, Obtain
<1> QED
  BY <1>2, <1>4, <1>5 DEF TInv, RingTyped, DecodesTyped, MarkerTyped

\* The picture that came gets its place in the map.
LEMMA TMap ==
    ASSUME TInv, IInv, MapNew \/ MapSecond
    PROVE  TInv'
<1>1. PICK b : map' = map \cup {<<picture.n, b>>} /\ b \in Buffers /\ Current' = b
  <2>1. CASE MapNew
    BY <2>1 DEF MapNew, Goto, MapBufferToDecodeIndex, Current, TInv, PictureTyped
  <2>2. CASE MapSecond
    BY <2>2 DEF MapSecond, MapBufferToDecodeIndex, Current, TInv, TableTyped
  <2> QED
    BY <2>1, <2>2
<1>2. /\ pc["PtoD"] \in {"buffer", "map"} /\ pc'["PtoD"] = "translate"
      /\ UNCHANGED <<owners, OutputRing, commands, MarkerBuffer, context, pictures, references, picture>>
  BY Goes, ThreeThreads DEF MapNew, MapSecond, Goto, Current, output, mme, marking, stream
<1>3. picture.n \in 1..pictures /\ \A p \in map : p[1] # picture.n
  BY <1>2 DEF TInv, PictureTyped
<1>4. BufferState' \in [Buffers -> LooseStates]
  <2>1. /\ Unused \in LooseStates
        /\ 0 \in Int /\ {} \in SUBSET {1, 2} /\ TRUE \in BOOLEAN
    BY DEF Unused, LooseStates
  <2>2. [Unused EXCEPT !.Buffer = TRUE] \in LooseStates
    BY <2>1, StateChanges
  <2> QED
    BY <2>2 DEF MapNew, MapSecond, TInv, TableTyped
<1>5. TableTyped'
  BY <1>1, <1>2, <1>3, <1>4 DEF TInv, TableTyped
<1>6. PictureTyped'
  BY <1>2 DEF TInv, PictureTyped, Partial
<1> QED
  BY <1>2, <1>5, <1>6 DEF TInv, RingTyped, DecodesTyped, MarkerTyped

LEMMA TTranslate ==
    ASSUME TInv, IInv, TranslateReferenceFrameLists
    PROVE  TInv'
<1>1. /\ pc["PtoD"] = "translate"
      /\ UNCHANGED <<map, Current, OutputRing, commands, MarkerBuffer, pictures, references, picture>>
  BY DEF TranslateReferenceFrameLists, Current, output, mme, marking, stream
<1>2. CASE Current = None
  <2>1. pc'["PtoD"] = "wild" /\ UNCHANGED <<owners, BufferState, context>>
    BY <1>2, Goes, ThreeThreads DEF TranslateReferenceFrameLists, Wild
  <2>2. TableTyped' /\ RingTyped' /\ MarkerTyped'
    BY <1>1, <2>1 DEF TInv, TableTyped, RingTyped, MarkerTyped
  <2> QED
    BY <1>1, <2>1, <2>2, TypesKept DEF Partial
<1>3. CASE Current # None
  <2> PICK refs : refs = SetToSeq(picture.list)
    OBVIOUS
  <2> PICK list : list = [i \in DOMAIN refs |-> Translate(refs[i])]
    OBVIOUS
  <2> PICK self : self = (IF picture.ref THEN 1 ELSE 0)
    OBVIOUS
  <2>1. /\ pc'["PtoD"] = "launch"
        /\ BufferState' = [BufferState EXCEPT ![Current].ReferenceFrameCount = @ + self]
        /\ owners' = [b \in Buffers |-> owners[b] + Times(list, b) + IF b = Current THEN self ELSE 0]
        /\ context' = [context EXCEPT !["PtoD"] = [n |-> picture.n, buffer |-> Current, refs |-> list]]
    BY <1>3, Goes, ThreeThreads DEF TranslateReferenceFrameLists, ReferencesAdded
  <2>2. Current \in Buffers /\ self \in {0, 1}
    BY <1>3 DEF TInv, TableTyped
  <2>3. IsFiniteSet(DOMAIN list)
    <3>1. pictures \in Nat /\ picture.list \subseteq 1..pictures
      BY DEF TInv, TableTyped, PictureTyped
    <3>2. IsFiniteSet(picture.list)
      <4>1. IsFiniteSet(1..pictures)
        BY <3>1, FS_Interval
      <4> QED
        BY <3>1, <4>1, FS_Subset
    <3>3. Cardinality(picture.list) \in Nat /\ DOMAIN refs = 1..Cardinality(picture.list)
      BY <3>2, ListIsSequence
    <3> QED
      BY <3>3, FS_Interval
  <2>4. \A b : Times(list, b) \in Nat
    <3> TAKE b
    <3>1. {i \in DOMAIN list : list[i][2] = b} \subseteq DOMAIN list
      OBVIOUS
    <3> QED
      BY <2>3, <3>1, FS_Subset, FS_CardinalityType DEF Times
  <2>5. owners' \in [Buffers -> Int]
    <3>1. \A b \in Buffers : owners[b] \in Int
      BY DEF TInv, TableTyped
    <3>2. \A b \in Buffers : owners[b] + Times(list, b) + (IF b = Current THEN self ELSE 0) \in Int
      BY <2>2, <2>4, <3>1
    <3> QED
      BY <2>1, <3>2
  <2>6. BufferState' \in [Buffers -> LooseStates]
    BY <2>1, <2>2 DEF TInv, TableTyped, LooseStates
  <2>7. TableTyped'
    BY <1>1, <2>5, <2>6 DEF TInv, TableTyped
  <2>8. DecodesTyped'
    BY <1>1, <2>1, <2>2 DEF TInv, DecodesTyped, Decoders
  <2>9. PictureTyped'
    BY <1>1, <2>1 DEF TInv, PictureTyped, Partial
  <2> QED
    BY <1>1, <2>7, <2>8, <2>9 DEF TInv, RingTyped, MarkerTyped
<1> QED
  BY <1>2, <1>3

LEMMA TLaunch ==
    ASSUME TInv, IInv, Launch
    PROVE  TInv'
<1>1. /\ pc["PtoD"] = "launch"
      /\ UNCHANGED <<owners, map, Current, OutputRing, commands, MarkerBuffer, context, pictures, references>>
  BY DEF Launch, Current, output, mme, marking, stream
<1>2. CASE Current = None
  <2>1. pc'["PtoD"] = "wild" /\ UNCHANGED <<BufferState, picture>>
    BY <1>2, Goes, ThreeThreads DEF Launch, Wild
  <2>2. TableTyped' /\ RingTyped' /\ MarkerTyped'
    BY <1>1, <2>1 DEF TInv, TableTyped, RingTyped, MarkerTyped
  <2> QED
    BY <1>1, <2>1, <2>2, TypesKept DEF Partial
<1>3. CASE Current # None
  <2> DEFINE fields == BufferState[Current].Fields \cup Fields(picture.kind)
             last   == fields = {1, 2}
  <2>1. /\ pc' = [pc EXCEPT !["PtoD"] = "send"]
        /\ BufferState' = [BufferState EXCEPT ![Current].DecodesInProgress = @ + 1,
                              ![Current].Fields = fields,
                              ![Current].OutputOnDecodesComplete = last]
        /\ picture' = [picture EXCEPT !.last = last]
    BY <1>3 DEF Launch
  <2>2. pc'["PtoD"] = "send"
    BY <2>1, Goes, ThreeThreads
  <2>3. last \in BOOLEAN
    OBVIOUS
  <2>4. Current \in Buffers /\ BufferState \in [Buffers -> LooseStates]
    BY <1>3 DEF TInv, TableTyped
  <2>5. fields \in SUBSET {1, 2}
    <3>1. Fields(picture.kind) \subseteq {1, 2}
      BY DEF Fields, TInv, PictureTyped, Pictures
    <3> QED
      BY <2>1, <2>4, <3>1 DEF LooseStates
  <2>6. BufferState' \in [Buffers -> LooseStates]
    <3> DEFINE state == [BufferState[Current] EXCEPT !.DecodesInProgress = @ + 1, !.Fields = fields,
                             !.OutputOnDecodesComplete = last]
    <3>1. state \in LooseStates
      <4>1. /\ BufferState[Current] \in LooseStates
            /\ BufferState[Current].DecodesInProgress + 1 \in Int
        BY <2>4 DEF LooseStates
      <4> QED
        BY <2>5, <2>3, <4>1, StateChanges
    <3>2. BufferState' = [BufferState EXCEPT ![Current] = state]
      BY <2>1, <2>4
    <3> HIDE DEF state
    <3> QED
      BY <2>4, <3>1, <3>2
  <2>7. TableTyped'
    BY <1>1, <2>6 DEF TInv, TableTyped
  <2>8. /\ picture' \in Pictures
        /\ picture'.n = picture.n /\ picture'.list = picture.list /\ picture'.then = picture.then
    BY <2>1 DEF TInv, PictureTyped, Pictures
  <2>9. PictureTyped'
    BY <1>1, <2>2, <2>8 DEF TInv, PictureTyped, Partial
  <2> QED
    BY <1>1, <2>2, <2>7, <2>9 DEF TInv, RingTyped, MarkerTyped, DecodesTyped
<1> QED
  BY <1>2, <1>3

LEMMA TSend ==
    ASSUME TInv, IInv, SendMMEDecodeCommand
    PROVE  TInv'
<1>1. /\ pc["PtoD"] = "send" /\ pc'["PtoD"] = "finish"
      /\ commands' = Append(commands, context["PtoD"])
      /\ context' = [context EXCEPT !["PtoD"] = NoContext]
      /\ UNCHANGED <<table, Current, OutputRing, MarkerBuffer, pictures, references, picture>>
  BY Goes, ThreeThreads DEF SendMMEDecodeCommand, Goto, Current, output, marking, stream
<1>2. context["PtoD"].buffer \in Buffers
  BY <1>1 DEF TInv, DecodesTyped
<1>3. \A i \in DOMAIN commands' : commands'[i].buffer \in Buffers
  <2> PICK S : commands \in Seq(S)
    BY DEF IInv, Counters
  <2>1. commands \in Seq(S \cup {context["PtoD"]})
    OBVIOUS
  <2> QED
    BY <1>1, <1>2, <2>1 DEF TInv, DecodesTyped
<1>4. DecodesTyped'
  BY <1>1, <1>3 DEF TInv, DecodesTyped, Decoders
<1>5. PictureTyped'
  BY <1>1 DEF TInv, PictureTyped, Partial, table
<1> QED
  BY <1>1, <1>4, <1>5 DEF TInv, TableTyped, table, RingTyped, MarkerTyped

\* A decode that could not be filled in or sent keeps its context and its buffer.
LEMMA TFails ==
    ASSUME TInv, IInv, FillFails \/ SendFails
    PROVE  TInv'
<1>1. /\ pc["PtoD"] \in {"launch", "send"} /\ pc'["PtoD"] \in {"refs", "complete"}
      /\ UNCHANGED <<table, Current, OutputRing, commands, MarkerBuffer, context, pictures, references, picture>>
  BY Goes, ThreeThreads DEF FillFails, SendFails, Goto, Current, output, mme, marking, stream
<1>2. PictureTyped' /\ DecodesTyped'
  BY <1>1 DEF TInv, PictureTyped, DecodesTyped, Partial, table
<1> QED
  BY <1>1, <1>2 DEF TInv, TableTyped, table, RingTyped, MarkerTyped

LEMMA TFinish ==
    ASSUME TInv, IInv, Finish
    PROVE  TInv'
<1>1. /\ pc'["PtoD"] = "idle" /\ picture' = NoPicture /\ Current' \in {Current, None}
      /\ UNCHANGED <<table, OutputRing, commands, MarkerBuffer, context, pictures, references>>
  BY Goes, ThreeThreads DEF Finish, Goto, Current, output, mme, marking, stream
<1>2. NoPicture \in Pictures /\ NoPicture.list = {} /\ NoPicture.then = "idle"
  BY DEF NoPicture, Pictures
<1>3. PictureTyped'
  BY <1>1, <1>2 DEF TInv, PictureTyped, Partial
<1> QED
  BY <1>1, <1>3 DEF TInv, TableTyped, table, RingTyped, DecodesTyped, MarkerTyped

\* The end of a decode: its buffer may be given out.
LEMMA TComplete ==
    ASSUME TInv, IInv, NEW t \in Decoders, NEW c, c.buffer \in Buffers, Complete(t, c),
           t = "PtoD" => commands' = commands,
           t = "MME" => commands # <<>> /\ commands' = Tail(commands)
    PROVE  TInv'
<1>1. PICK l \in {"discard", "refs"} : pc' = [pc EXCEPT ![t] = l]
  BY DEF Complete
<1>2. pc'[t] = l /\ \A u \in Threads \ {t} : pc'[u] = pc[u]
  BY <1>1, Goes, ThreeThreads DEF Decoders
<1>3. /\ BufferState' = [BufferState EXCEPT ![c.buffer].DecodesInProgress = @ - 1]
      /\ context' = [context EXCEPT ![t] = c]
      /\ Current' \in {Current, None}
      /\ OutputRing' = OutputRing \/ OutputRing' = Append(OutputRing, Entry(c.buffer, c.n, FALSE))
      /\ UNCHANGED <<owners, map, MarkerBuffer, pictures, references, picture>>
  BY DEF Complete, Invalidated, Current, marking, stream
<1>4. BufferState' \in [Buffers -> LooseStates]
  <2>1. BufferState' = [BufferState EXCEPT ![c.buffer] =
                            [BufferState[c.buffer] EXCEPT !.DecodesInProgress = @ - 1]]
    BY <1>3
  <2>2. [BufferState[c.buffer] EXCEPT !.DecodesInProgress = @ - 1] \in LooseStates
    <3>1. BufferState[c.buffer] \in LooseStates
      BY DEF TInv, TableTyped
    <3>2. /\ BufferState[c.buffer].DecodesInProgress - 1 \in Int
          /\ {} \in SUBSET {1, 2} /\ TRUE \in BOOLEAN
      BY <3>1 DEF LooseStates
    <3> QED
      BY <3>1, <3>2, StateChanges
  <2> QED
    BY <2>1, <2>2 DEF TInv, TableTyped
<1>5. TableTyped'
  BY <1>3, <1>4 DEF TInv, TableTyped
<1>6. RingTyped'
  <2>1. Entry(c.buffer, c.n, FALSE).buffer \in Buffers
    BY DEF Entry
  <2> QED
    BY <1>3, <2>1, RingGrows DEF TInv
<1>7. \A i \in DOMAIN commands' : commands'[i].buffer \in Buffers
  <2>1. CASE t = "PtoD"
    BY <2>1 DEF TInv, DecodesTyped
  <2>2. CASE t = "MME"
    <3> PICK S : commands \in Seq(S)
      BY DEF IInv, Counters
    <3>1. \A i \in DOMAIN commands' : i + 1 \in DOMAIN commands /\ commands'[i] = commands[i + 1]
      BY <2>2
    <3> QED
      BY <3>1 DEF TInv, DecodesTyped
  <2> QED
    BY <2>1, <2>2 DEF Decoders
<1>8. DecodesTyped'
  BY <1>2, <1>3, <1>7, ThreeThreads DEF TInv, DecodesTyped, Decoders
<1>9. PictureTyped'
  BY <1>2, <1>3, ThreeThreads DEF TInv, PictureTyped, Partial, Decoders
<1> QED
  BY <1>3, <1>5, <1>6, <1>8, <1>9 DEF TInv, MarkerTyped

LEMMA TRelease ==
    ASSUME TInv, IInv, NEW t \in Decoders, ReleaseDecodeContext(t)
    PROVE  TInv'
<1>1. CASE Discard(t) \/ Compare(t)
  <2>1. PICK l \in {"compare", "refs"} : pc' = [pc EXCEPT ![t] = l]
    BY <1>1 DEF Discard, Compare, Goto
  <2>2. pc'[t] = l /\ \A u \in Threads \ {t} : pc'[u] = pc[u]
    BY <2>1, Goes, ThreeThreads DEF Decoders
  <2>3. UNCHANGED <<OutputRing, commands, MarkerBuffer, context, pictures, references, picture>>
    BY <1>1 DEF Discard, Compare, output, mme, marking, stream
  <2>4. TableTyped' /\ map' \subseteq map
    <3>1. CASE Discard(t)
      <4>1. ReleaseDecodeBuffer(context[t].buffer) /\ UNCHANGED Current
        BY <3>1 DEF Discard, Current
      <4> QED
        BY <2>3, <4>1, ReleaseTyped, ReleaseMaps DEF TInv
    <3>2. CASE Compare(t)
      <4>1. UNCHANGED table /\ Current' \in {Current, None}
        BY <3>2 DEF Compare, Invalidated, Current
      <4> QED
        BY <2>3, <4>1 DEF TInv, TableTyped, table
    <3> QED
      BY <1>1, <3>1, <3>2
  <2>5. RingTyped' /\ MarkerTyped'
    BY <2>3 DEF TInv, RingTyped, MarkerTyped
  <2> QED
    BY <2>2, <2>3, <2>4, <2>5, TypesKept, ThreeThreads DEF Decoders, Partial
<1>2. CASE ReleaseReference(t)
  <2>1. /\ UNCHANGED <<Current, OutputRing, commands, MarkerBuffer, pictures, references, picture, pc>>
        /\ pc[t] = "refs"
        /\ context' = [context EXCEPT ![t].refs = Tail(@)]
        /\ DecrementReferenceCount(BufferState, Head(context[t].refs)[2])
    BY <1>2 DEF ReleaseReference, Current, output, mme, marking, stream
  <2>2. TableTyped' /\ map' \subseteq map
    BY <2>1, DecrementTyped DEF TInv, TableTyped
  <2>3. DecodesTyped'
    BY <2>1 DEF TInv, DecodesTyped, Decoders
  <2>4. PictureTyped'
    BY <2>1, <2>2 DEF TInv, PictureTyped
  <2> QED
    BY <2>1, <2>2, <2>3, <2>4 DEF TInv, RingTyped, MarkerTyped
<1>3. CASE ContextReleased(t)
  <2>1. PICK l \in {"test", "partial", "idle"} : pc' = [pc EXCEPT ![t] = l]
    BY <1>3 DEF ContextReleased, Goto
  <2>2. pc'[t] = l /\ \A u \in Threads \ {t} : pc'[u] = pc[u]
    BY <2>1, Goes, ThreeThreads DEF Decoders
  <2>3. /\ UNCHANGED <<table, Current, OutputRing, commands, MarkerBuffer, pictures, references>>
        /\ context' = [context EXCEPT ![t] = NoContext]
        /\ picture' = IF t = "PtoD" THEN NoPicture ELSE picture
    BY <1>3 DEF ContextReleased, Current, output, marking, stream
  <2>4. NoPicture \in Pictures /\ NoPicture.list = {} /\ NoPicture.then = "idle"
    BY DEF NoPicture, Pictures
  <2>5. PictureTyped'
    <3>1. CASE t = "PtoD"
      BY <2>2, <2>3, <2>4, <3>1 DEF TInv, PictureTyped
    <3>2. CASE t = "MME"
      BY <2>2, <2>3, <3>2, ThreeThreads DEF TInv, PictureTyped, table
    <3> QED
      BY <3>1, <3>2 DEF Decoders
  <2>6. DecodesTyped'
    BY <2>2, <2>3, ThreeThreads DEF TInv, DecodesTyped, Decoders
  <2> QED
    BY <2>3, <2>5, <2>6 DEF TInv, TableTyped, table, RingTyped, MarkerTyped
<1> QED
  BY <1>1, <1>2, <1>3 DEF ReleaseDecodeContext

LEMMA TMarker ==
    ASSUME TInv, IInv, NEW t \in Decoders,
           MarkerInput \/ GetMarkerBuffer \/ PassOnMarker(t)
    PROVE  TInv'
<1>1. UNCHANGED <<BufferState, map, Current, commands, context, pictures, references, picture>>
  BY DEF MarkerInput, GetMarkerBuffer, PassOnMarker, TestMarkerFramePassOn, TakeMarkerBuffer,
         Current, table, mme, stream
<1>2. pc'["PtoD"] = pc["PtoD"] \/ pc'["PtoD"] \in {"getMarker", "test", "take", "idle"}
  <2>1. CASE MarkerInput \/ GetMarkerBuffer
    BY <2>1, Goes, ThreeThreads DEF MarkerInput, GetMarkerBuffer, Goto
  <2>2. CASE PassOnMarker(t)
    <3>1. PICK l \in {"take", "idle"} : pc' = [pc EXCEPT ![t] = l]
      BY <2>2 DEF PassOnMarker, TestMarkerFramePassOn, TakeMarkerBuffer, Goto
    <3> QED
      BY <3>1, Goes, ThreeThreads DEF Decoders
  <2> QED
    BY <2>1, <2>2
<1>3. CASE MarkerInput
  <2>1. owners' = owners \/ owners' = [owners EXCEPT ![MarkerBuffer.buffer] = @ - 1]
    BY <1>3 DEF MarkerInput
  <2>2. owners' \in [Buffers -> Int]
    BY <2>1 DEF TInv, TableTyped
  <2>3. TableTyped' /\ RingTyped' /\ MarkerTyped'
    BY <1>1, <1>3, <2>2 DEF MarkerInput, output, TInv, TableTyped, RingTyped, MarkerTyped
  <2> QED
    BY <1>1, <1>2, <2>3, TypesKept DEF Partial
<1>4. CASE GetMarkerBuffer
  <2>1. PICK b \in Buffers : Obtain(b) /\ MarkerBuffer' = Entry(b, pictures, TRUE)
    BY <1>4 DEF GetMarkerBuffer
  <2>2. owners' \in [Buffers -> Int] /\ MarkerBuffer'.buffer = b
    BY <2>1 DEF Obtain, Entry, TInv, TableTyped
  <2>3. TableTyped' /\ RingTyped' /\ MarkerTyped'
    BY <1>1, <1>4, <2>1, <2>2 DEF GetMarkerBuffer, output, TInv, TableTyped, RingTyped, MarkerTyped
  <2> QED
    BY <1>1, <1>2, <2>3, TypesKept DEF Partial
<1>5. CASE TestMarkerFramePassOn(t)
  <2>1. TableTyped' /\ RingTyped' /\ MarkerTyped'
    BY <1>1, <1>5 DEF TestMarkerFramePassOn, table, output, marking, TInv, TableTyped, RingTyped, MarkerTyped
  <2> QED
    BY <1>1, <1>2, <2>1, TypesKept DEF Partial
<1>6. CASE TakeMarkerBuffer(t)
  <2>1. RingTyped'
    <3>1. CASE MarkerBuffer = None
      BY <1>6, <3>1 DEF TakeMarkerBuffer, TInv, RingTyped
    <3>2. CASE MarkerBuffer # None
      <4>1. MarkerBuffer.buffer \in Buffers /\ OutputRing' = Append(OutputRing, MarkerBuffer)
        BY <1>6, <3>2 DEF TakeMarkerBuffer, TInv, MarkerTyped
      <4> QED
        BY <4>1, RingGrows DEF TInv
    <3> QED
      BY <3>1, <3>2
  <2>2. TableTyped' /\ MarkerTyped'
    BY <1>1, <1>6 DEF TakeMarkerBuffer, table, TInv, TableTyped, MarkerTyped
  <2> QED
    BY <1>1, <1>2, <2>1, <2>2, TypesKept DEF Partial
<1> QED
  BY <1>3, <1>4, <1>5, <1>6 DEF PassOnMarker

LEMMA TDisplay ==
    ASSUME TInv, Display
    PROVE  TInv'
<1>1. UNCHANGED <<Current, commands, MarkerBuffer, context, pictures, references, picture, pc>>
  BY DEF Display, TakeOutput, Replaced, Current, mme, marking, threads, stream
<1>2. CASE TakeOutput
  <2>1. owners' = owners \/ \E b : owners' = [owners EXCEPT ![b] = @ - 1]
    BY <1>2 DEF TakeOutput
  <2>2. owners' \in [Buffers -> Int]
    BY <2>1 DEF TInv, TableTyped
  <2>3. TableTyped' /\ map' \subseteq map
    BY <1>1, <1>2, <2>2 DEF TakeOutput, TInv, TableTyped
  <2>4. RingTyped'
    BY <1>2, RingShrinks DEF TakeOutput, TInv
  <2> QED
    BY <1>1, <2>3, <2>4, TypesKept DEF TInv, MarkerTyped
<1>3. ASSUME NEW b \in Buffers, Replaced(b)
      PROVE  TInv'
  <2>1. ReleaseDecodeBuffer(b) /\ UNCHANGED OutputRing
    BY <1>3 DEF Replaced
  <2>2. TableTyped' /\ map' \subseteq map
    BY <1>1, <2>1, ReleaseTyped, ReleaseMaps DEF TInv
  <2> QED
    BY <1>1, <2>1, <2>2, TypesKept DEF TInv, RingTyped, MarkerTyped
<1> QED
  BY <1>2, <1>3 DEF Display

LEMMA TDrain ==
    ASSUME TInv, IInv,
           \/ DiscardQueuedDecodes \/ DrainInsert
           \/ \E discard \in BOOLEAN : DrainStart(discard)
           \/ UNCHANGED vars
    PROVE  TInv'
<1>1. UNCHANGED <<table, Current, OutputRing, commands, MarkerBuffer, context, pictures, references, picture>>
  BY DEF DiscardQueuedDecodes, DrainInsert, DrainStart, vars, Current, output, mme, marking, threads, stream
<1>2. pc' = pc \/ \E l : pc' = [pc EXCEPT !["drain"] = l]
  BY DEF DiscardQueuedDecodes, DrainInsert, DrainStart, vars, threads, Goto
<1>3. pc'["PtoD"] = pc["PtoD"]
  BY <1>2, Goes, ThreeThreads
<1>4. TableTyped' /\ RingTyped' /\ MarkerTyped'
  BY <1>1 DEF TInv, TableTyped, table, RingTyped, MarkerTyped
<1> QED
  BY <1>1, <1>3, <1>4, TypesKept DEF table

LEMMA TInit == Init => TInv
<1> SUFFICES ASSUME Init PROVE TInv
  OBVIOUS
<1>1. <<>> \in Seq({}) /\ Unused \in LooseStates
  BY DEF Unused, LooseStates
<1>2. NoPicture \in Pictures /\ NoPicture.list = {} /\ NoPicture.then = "idle"
  BY DEF NoPicture, Pictures
<1>3. TableTyped
  BY <1>1 DEF Init, TableTyped, Current
<1>4. PictureTyped
  BY <1>2, ThreeThreads DEF Init, PictureTyped, Partial
<1>5. RingTyped /\ DecodesTyped /\ MarkerTyped
  BY <1>1, ThreeThreads DEF Init, RingTyped, DecodesTyped, MarkerTyped, Decoders
<1> QED
  BY <1>3, <1>4, <1>5 DEF TInv

LEMMA TNext == TInv /\ IInv /\ [Next]_vars => TInv'
<1> SUFFICES ASSUME TInv, IInv, [Next]_vars PROVE TInv'
  OBVIOUS
<1>1. CASE PtoD
  <2>1. CASE CompleteFailed
    <3>1. /\ Complete("PtoD", context["PtoD"]) /\ commands' = commands
          /\ context["PtoD"].buffer \in Buffers
      BY <2>1 DEF CompleteFailed, TInv, DecodesTyped
    <3> QED
      BY <3>1, TComplete DEF Decoders
  <2> QED
    BY <1>1, <2>1, TPartial, TGetDecodeBuffer, TMap, TTranslate, TLaunch, TSend, TFinish, TRelease, TMarker
    DEF PtoD, Decoders
<1>2. CASE MME
  <2>1. CASE CallbackFromMME
    <3>1. /\ Complete("MME", Head(commands)) /\ commands # <<>> /\ commands' = Tail(commands)
      BY <2>1 DEF CallbackFromMME
    <3>2. Head(commands).buffer \in Buffers
      <4> PICK S : commands \in Seq(S)
        BY DEF IInv, Counters
      <4>1. 1 \in DOMAIN commands /\ Head(commands) = commands[1]
        BY <3>1
      <4> QED
        BY <4>1 DEF TInv, DecodesTyped
    <3> QED
      BY <3>1, <3>2, TComplete DEF Decoders
  <2> QED
    BY <1>2, <2>1, TRelease, TMarker DEF MME, Decoders
<1>3. CASE Drain
  BY <1>3, TDrain, TPartial DEF Drain
<1>4. CASE Display
  BY <1>4, TDisplay
<1>5. CASE Environment
  BY <1>5, TInput, TParser, TCallPartial, TFails, TDrain DEF Environment
<1>6. CASE UNCHANGED vars
  BY <1>6, TDrain
<1> QED
  BY <1>1, <1>2, <1>3, <1>4, <1>5, <1>6 DEF Next

\* The variables keep their types and the counters their order, in every
\* interleaving of the second process, the callbacks, the drains and the display
\* and whatever fails: what the tables, the map of decode indices and the output
\* ring name are buffers of the pool (codec_mme_base.cpp:897-916, :973-995,
\* :1114-1181, :1837-1875), although counts may be off (see IndicesInBounds). A
\* thread that looks up INVALID_INDEX goes no further in the model (Wild).
THEOREM CodecTyped == Spec => []TypeOK
<1>1. TInv /\ Completed <= Prepared /\ DiscardDecodesUntil <= Prepared => TypeOK
  BY DEF TInv, TableTyped, LooseStates, RingTyped, Current, TypeOK
<1> QED
  BY <1>1, TInit, TNext, InitInvariant, NextInvariant, CountersInOrder, PTL DEF Spec

\* What the order that Serialized gives is worth: a drain's step that gives out the
\* current buffer against the second process (codec_mme_base.cpp:540-551), and a
\* discarding callback's comparison against GetDecodeBuffer (:1129-1178). With it
\* nobody looks up INVALID_INDEX in the table and no count falls below zero.
THEOREM IndicesInBounds ==
    ASSUME Serialized
    PROVE  Spec => []InBounds
<1>1. RInv => InBounds
  <2> SUFFICES ASSUME RInv PROVE InBounds
    OBVIOUS
  <2>1. ASSUME NEW b \in Buffers PROVE owners[b] >= 0
    <3>1. Typed /\ owners[b] = Held(b) + Carried(b)
      BY Parts DEF Typed, Accounts, Account
    <3> QED
      BY <3>1, Numbers
  <2>2. \A b \in Buffers : BufferState[b].DecodesInProgress >= 0
    BY Parts DEF TypedTable, States
  <2>3. \A t \in Threads : pc[t] # "wild"
    BY Parts DEF TypedSteps, Threads, PtoDSteps, MMESteps, DrainSteps
  <2> QED
    BY <2>1, <2>2, <2>3 DEF InBounds
<1> QED
  BY <1>1, RInit, RNext, PTL DEF Spec
=============================================================================
