----------------------------- MODULE RoomBackend -----------------------------
(* What the helper's RoomService may rely on of a RoomBackend: a backend        *)
(* keeps at most one room session.  create and join open one only when there is *)
(* none (an error opens nothing), leave closes whatever is open, and every      *)
(* other call of the trait leaves the session alone.  EasyTierBackend           *)
(* implements this specification.                                               *)

VARIABLE session        \* the role of the active session, or "none"

Roles == {"Host", "Member"}

Sessions == Roles \cup {"none"}

BackendInit == session = "none"

OpenSession(role) ==
    /\ session = "none"
    /\ session' = role

CloseSession == session' = "none"

BackendNext ==
    \/ \E role \in Roles : OpenSession(role)
    \/ CloseSession

BackendSpec == BackendInit /\ [][BackendNext]_session
==============================================================================
