--------------------------- MODULE MCJobExecutor ---------------------------
(***************************************************************************)
(* Instances of JobExecutor for TLC: device lists.                         *)
(***************************************************************************)
EXTENDS JobExecutorInvariant, TLC

CONSTANTS j1, j2, c1, c2, d1, d2, d3

\* Two jobs and one slot; the first has more devices than workers by two, so
\* that a cancellation finds several sessions to withdraw, and a host twice, as
\* _expand_devices may return it.
ContendedJobs == (j1 :> <<d1, d2, d1>>) @@ (j2 :> <<d1>>)
TwoDevices    == (j1 :> <<d1, d2>>)

\* The job of tests/test_cancellation.py:48.
ThreeDevices  == (j1 :> <<d1, d2, d3>>)
=============================================================================
