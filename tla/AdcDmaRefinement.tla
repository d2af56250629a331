-------------------------- MODULE AdcDmaRefinement --------------------------
(* The driver implements FrameFifo.                                        *)
EXTENDS AdcDma

Fifo == INSTANCE FrameFifo WITH
  Capacity <- Slots,
  flight   <- bus.frame,
  queue    <- Ready,
  taken    <- Delivered,
  started  <- next - 1,
  broken   <- raced

\* Every step of the superloop or of an interrupt is a step of the queue of
\* frames DaqEngine works with, until an interrupt starts a transfer in one of
\* the windows; so these windows are all that DaqEngine leaves out.
ImplementsFifo == Fifo!Spec
=============================================================================
