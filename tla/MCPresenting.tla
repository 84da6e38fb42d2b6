----------------------------- MODULE MCPresenting -----------------------------
(* The presenter's page alone, on one short show.                           *)
EXTENDS Presenting

MCShows == {<<"content", "content", "quiz", "content">>}
=============================================================================
