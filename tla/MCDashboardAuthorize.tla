----------------------- MODULE MCDashboardAuthorize -----------------------
(* Small instances of DashboardAuthorize for TLC. *)
EXTENDS DashboardAuthorize

CONSTANTS t1, t2, t3, k1, k2, p1, p2
=============================================================================
