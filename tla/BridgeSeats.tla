------------------------------ MODULE BridgeSeats ------------------------------
(***************************************************************************)
(* What the bridge registry and the connection handlers of the gateway     *)
(* have in common: the bridges, the clients, and the two roles of a        *)
(* Meeting Bridge (server/app/streaming/bridge_registry.py).               *)
(***************************************************************************)

CONSTANTS Bridge,             \* bridge ids
          Token,              \* token fingerprints
          NoClaim,            \* no registration
          MaxActivePerToken   \* meeting_bridge_max_active_per_token

Role == {"local_to_remote", "remote_to_local"}

===============================================================================
