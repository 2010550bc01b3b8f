--------------------------- MODULE MCEventsReader ---------------------------
(* EventsReader with two streams of up to four entries, of which the      *)
(* second names no event.                                                  *)
EXTENDS EventsReader

=============================================================================
