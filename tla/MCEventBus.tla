----------------------------- MODULE MCEventBus -----------------------------
(* Instance of EventBus for TLC: two websocket clients.                    *)
EXTENDS EventBus, TLC

CONSTANTS c1, c2
=============================================================================
