--------------------------- MODULE MCControlPlane ---------------------------
(***************************************************************************)
(* The instance of ControlPlane for TLC.                                   *)
(***************************************************************************)
EXTENDS ControlPlane, TLC

CONSTANTS
    x, y, dx, dy,   \* addresses and their domains
    a1, a2,         \* requests, calls, callers and detections in flight
    b1, b2          \* OAuth sessions, invites and groups

DomainsOfAddresses == x :> dx @@ y :> dy

\* No action or property names a request or call, a session, an invite or a group.
Symmetry == Permutations({a1, a2}) \cup Permutations({b1, b2})
=============================================================================
