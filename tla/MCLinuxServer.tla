---------------------------- MODULE MCLinuxServer ----------------------------
(***************************************************************************)
(* LinuxServer with small sets for its safety run.  The workers are        *)
(* interchangeable, and so are the clients that do not send: every action  *)
(* is quantified over them and no property names one.                      *)
(***************************************************************************)
EXTENDS LinuxServer, TLC

CONSTANTS w1, w2, p1, p2, p3, c1, c2

MCWorker == {w1, w2}
MCPeer == {p1, p2, p3}
MCConn == {c1, c2}
MCPrealloc == {c1}
MCSenders == {p1}
MCResets == {}

Symmetry == Permutations(MCWorker) \cup Permutations(MCPeer \ MCSenders)

=============================================================================
