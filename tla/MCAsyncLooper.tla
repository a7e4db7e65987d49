--------------------------- MODULE MCAsyncLooper ---------------------------
(* Two producers for AsyncLooper, and lines of one letter.                  *)
EXTENDS AsyncLooper

CONSTANTS p1, p2

MCProducers == {p1, p2}
MCLines == {<<"a">>}
=============================================================================
