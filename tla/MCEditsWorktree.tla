---------------------------- MODULE MCEditsWorktree ----------------------------
EXTENDS EditsWorktree

CONSTANTS a, b, c1, c2

MCTouches == c1 :> {<< a, b >>} @@ c2 :> {<< b, a >>, << b >>}
=============================================================================
