------------------------- MODULE MCWindowLifecycle --------------------------
(***************************************************************************)
(* Small sessions of the event loop for TLC.                               *)
(***************************************************************************)
EXTENDS WindowLifecycle

MCWindows == {0, 1, 2}

\* What the CLOB feed may send: a book with no bids, or both sides.
MCNoBids   == {NoQuotes}
MCFullBook == {[s \in Sides |-> 1]}
=============================================================================
