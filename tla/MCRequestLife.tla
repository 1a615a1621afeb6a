--------------------------- MODULE MCRequestLife ----------------------------
(* RequestLife with the methods that clients ask for. *)
EXTENDS RequestLife

AllNamespaces ==
  {"debug", "eth", "net", "parity", "erigon", "trace", "web3", "engine", "txpool", "ots"}

TransitionMethod == {"engine_exchangeTransitionConfigurationV1"}

AllMethods == DOMAIN method_handlers \cup DOMAIN stream_handlers \cup {"unknown"}

\* All the methods but the one that leaves its transaction open on early returns.
MCMethods == AllMethods \ TransitionMethod
=============================================================================
