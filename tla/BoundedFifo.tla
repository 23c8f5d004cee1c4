----------------------------- MODULE BoundedFifo -----------------------------
(* What a ring promises its callers: a bounded queue. A result tells each    *)
(* caller how its last call ended.                                           *)
EXTENDS Naturals, Sequences

CONSTANTS Threads, Values, MaxEntries, NoError, TooManyEntries, NothingToGet, Unknown

VARIABLES queue, result

Init ==
    /\ queue = <<>>
    /\ result = [t \in Threads |-> Unknown]

Ends(t, r) == result' = [result EXCEPT ![t] = r]

\* A call is made; its outcome is open.
Begin(t) == Ends(t, Unknown) /\ UNCHANGED queue

Put(t, v) ==
    /\ Len(queue) < MaxEntries
    /\ queue' = Append(queue, v)
    /\ Ends(t, NoError)

\* Only a full queue turns a value away.
Reject(t) == Len(queue) = MaxEntries /\ Ends(t, TooManyEntries) /\ UNCHANGED queue

Get(t) == queue # <<>> /\ Ends(t, Head(queue)) /\ queue' = Tail(queue)

\* Only an empty queue has nothing to get.
Miss(t) == queue = <<>> /\ Ends(t, NothingToGet) /\ UNCHANGED queue

Clear(t) == queue' = <<>> /\ Ends(t, NoError)

Next == \E t \in Threads :
    Begin(t) \/ Reject(t) \/ Get(t) \/ Miss(t) \/ Clear(t) \/ \E v \in Values : Put(t, v)

Spec == Init /\ [][Next]_<<queue, result>>
=============================================================================
