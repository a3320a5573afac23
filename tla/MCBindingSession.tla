--------------------------- MODULE MCBindingSession ---------------------------
EXTENDS BindingSession, TLC

\* No directory is told from another.
Symmetric == Permutations(Dirs)
===============================================================================
