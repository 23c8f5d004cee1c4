---------------------------- MODULE MCBufferPool ----------------------------
(* Small instances of BufferPool: a pool of frames and a pool of parameter  *)
(* blocks that are attached to frames.                                      *)
EXTENDS BufferPool, TLC

CONSTANTS t1, t2, t3, f1, f2, p1, Frames, Params

MCPoolOf == (f1 :> Frames) @@ (f2 :> Frames) @@ (p1 :> Params)
MCLevel  == (Frames :> 1) @@ (Params :> 0)

\* One pool, whose buffers are never attached.
FlatPoolOf == (f1 :> Frames) @@ (f2 :> Frames)
FlatLevel  == (Frames :> 0)

=============================================================================
