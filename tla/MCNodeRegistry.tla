--------------------------- MODULE MCNodeRegistry ---------------------------
\* Small instances of NodeRegistry.
EXTENDS NodeRegistry, TLC

\* Nothing tells the connections apart whose nodes are not deleted.
ConnSymmetry == Permutations(Conn \ Doomed)

=============================================================================
