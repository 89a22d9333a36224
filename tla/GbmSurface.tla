----------------------------- MODULE GbmSurface -----------------------------
(***************************************************************************)
(* The buffers of a gbm_surface (shims/gbm/src/gbm.m) and the way a frame  *)
(* goes through them: eglSwapBuffers (shims/egl/src/egl.c) copies what was *)
(* drawn into the buffer at write_idx and moves on,                        *)
(* gbm_surface_lock_front_buffer hands out the one at read_idx.  Releasing *)
(* a buffer does nothing, and nothing stops the writer at a buffer that is *)
(* still in use.                                                           *)
(***************************************************************************)
EXTENDS Integers

CONSTANT GBM_NUM_BUFFERS  \* 4 in the code

ASSUME BuffersAssumption == GBM_NUM_BUFFERS \in Nat \ {0, 1}

Bos == 0 .. GBM_NUM_BUFFERS - 1
NoBo == -1

\* gbm_surface_create.
NewSurface == [write_idx |-> 0, read_idx |-> 0, count |-> 0]

\* A slip: the frame is counted but the writer stays where it is.
AdvanceWriteStay(s) == [s EXCEPT !.count = s.count + 1]

\* gbm_surface_advance_write.
AdvanceWrite(s) ==
  [s EXCEPT !.write_idx = (s.write_idx + 1) % GBM_NUM_BUFFERS,
            !.count = s.count + 1]

\* eglSwapBuffers: what was drawn is read back and copied, upside down, into
\* the buffer at write_idx.
SwapBuffers(s) == AdvanceWrite(s)

\* The buffer gbm_surface_lock_front_buffer returns, and the surface after it.
FrontBo(s) == IF s.count = 0 THEN NoBo ELSE s.read_idx

LockFrontBuffer(s) ==
  IF s.count = 0 THEN s
  ELSE [s EXCEPT !.read_idx = (s.read_idx + 1) % GBM_NUM_BUFFERS,
                 !.count = s.count - 1]

=============================================================================
