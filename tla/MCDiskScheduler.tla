-------------------------- MODULE MCDiskScheduler --------------------------
(* Two callers, one page, two page contents and up to three requests:     *)
(* enough for two writes to the page from different callers, a read      *)
(* between them, and requests still queued when the sentinel is put.     *)
EXTENDS DiskScheduler

CONSTANTS c1, c2

MCCallers     == {c1, c2}
MCPages       == {0}
MCValues      == {0, 1}
MCMaxRequests == 3
=============================================================================
