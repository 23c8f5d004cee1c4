----------------------------- MODULE BufferLife -----------------------------
(* What the buffer manager promises for every buffer: it is handed out when *)
(* nobody uses it, shared only while somebody does, and goes back to its    *)
(* pool once, after its last user has left.                                 *)
CONSTANTS Buffers, MayBeLost

VARIABLES status, users

vars == <<status, users>>

Init ==
    /\ status = [b \in Buffers |-> "free"]
    /\ users  = [b \in Buffers |-> {}]

Move(b, from, to) ==
    /\ status[b] = from
    /\ status' = [status EXCEPT ![b] = to]

\* The buffer leaves the pool for the caller of GetBuffer ...
Take(b) == Move(b, "free", "taken") /\ UNCHANGED users

\* ... who becomes its first user, unless there is no memory for it.
Start(b) ==
    /\ Move(b, "taken", "used")
    /\ users' = [users EXCEPT ![b] = users'[b]]
    /\ users'[b] # {}

Lose(b) ==
    /\ b \in MayBeLost
    /\ Move(b, "taken", "lost")
    /\ UNCHANGED users

\* Users come, go and are replaced while one is left.
Share(b) ==
    /\ Move(b, "used", "used")
    /\ users' = [users EXCEPT ![b] = users'[b]]
    /\ users'[b] # {}

LastLeaves(b) ==
    /\ Move(b, "used", "ending")
    /\ users' = [users EXCEPT ![b] = {}]

Recycle(b) == Move(b, "ending", "free") /\ UNCHANGED users

Next == \E b \in Buffers :
    Take(b) \/ Start(b) \/ Lose(b) \/ Share(b) \/ LastLeaves(b) \/ Recycle(b)

Spec == Init /\ [][Next]_vars
=============================================================================
