--------------------------- MODULE MCEpollFilters ---------------------------
(***************************************************************************)
(* Instances of EpollFilters for TLC.                                      *)
(***************************************************************************)
EXTENDS EpollFilters

\* Registrations for nothing, reading, writing, both, the peer's end and urgent
\* data; some also edge triggered or once only.
MCEpollEvents ==
  [events : {{}, {"IN"}, {"OUT"}, {"OUT", "RDHUP"}, {"PRI"}},
   et : {FALSE}, oneshot : {FALSE}]
  \cup [events : {{}, {"IN"}, {"IN", "OUT"}, {"PRI"}}, et : {TRUE}, oneshot : {FALSE}]
  \cup [events : {{"IN", "OUT"}}, et : {FALSE}, oneshot : {TRUE}]
=============================================================================
