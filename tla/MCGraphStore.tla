----------------------------- MODULE MCGraphStore -----------------------------
(* Instances of the graph store for TLC.                                     *)
EXTENDS GraphStore

\* Two nodes, and a ring of edges through a third that is still to be created.
Ring ==
    [nodes |-> <<-1, -2>>,
     edges |-> <<[from |-> 1, to |-> 3, by |-> -1],
                 [from |-> 3, to |-> 2, by |-> -2],
                 [from |-> 2, to |-> 1, by |-> -3]>>]

RingFile == {Ring}

ShortCut == {<<1, 2>>}

=============================================================================
