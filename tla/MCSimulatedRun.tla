--------------------------- MODULE MCSimulatedRun ---------------------------
(* Instances of SimulatedRun for TLC: every job, or the kernels on gem5.     *)
EXTENDS SimulatedRun

AllJobs == Jobs
GemKernels == { j \in Jobs : j.kind = "gem5" /\ j.entry = "kernel" }
=============================================================================
