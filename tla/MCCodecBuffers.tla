--------------------------- MODULE MCCodecBuffers ---------------------------
EXTENDS CodecBuffers, TLC
BufferSymmetry == Permutations(Buffers)
=============================================================================
