--------------------------- MODULE MCServerState ---------------------------
(* ServerState with more chat requests than slots and two jobs, channels of  *)
(* two events with up to four in flight, and two requests on each store.     *)
EXTENDS ServerState

MCServer == {"chat", "tool"}
=============================================================================
