--------------------------- MODULE MCKernelIoScan ---------------------------
(* A small instance of the kernel storage-fault scan for TLC. *)
EXTENDS KernelIoScan

\* A link event that also reports an I/O error, and one that is only a link
\* event: a fatal line and one that is not, which share a pattern.
TwoLines == {{"usb_disconnect", "block_io_error"}, {"usb_disconnect"}}

AllFaults == FaultKinds
=============================================================================
