--------------------------- MODULE MCRecentShows ---------------------------
(* Model-checking instance of RecentShows.                                 *)
EXTENDS RecentShows

CONSTANTS a, b

\* Both contents of a are shows, the second one of b is not.
MCBroken == {<<b, 2>>}
=============================================================================
