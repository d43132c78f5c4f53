--------------------------- MODULE MCRoomService ---------------------------
(* TLC instance of RoomService: two select! arms, two members, and samples that *)
(* differ in health.                                                            *)
EXTENDS RoomService

MCNet == {"good", "bad"}
MCHealthy == {"good"}
MCQuality == {"direct"}
=============================================================================
