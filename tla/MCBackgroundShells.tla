---------------------- MODULE MCBackgroundShells ----------------------
EXTENDS BackgroundShells, TLC

CONSTANTS t1, t2, k

\* t1 is the command under study, t2 one that competes for the registry.
MCWays ==
  t1 :> {"foreground", "background", "terminal", "interactive"} @@ t2 :> {"background"}

MCVictim == k :> t1
=======================================================================
