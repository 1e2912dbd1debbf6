--------------------------- MODULE MCVenueWorker ---------------------------
(* Two clients, two requests or one request and a stream, two proxies.     *)
EXTENDS VenueWorker

Symmetric == Permutations(Clients) \cup Permutations(Tasks)
=============================================================================
