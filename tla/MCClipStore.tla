---------------------------- MODULE MCClipStore ----------------------------
(* Model values and bounds for checking ClipStore with TLC. *)
EXTENDS ClipStore, TLC

MCPlain == [delay |-> FALSE, rec |-> FALSE]
MCDelay == [delay |-> TRUE, rec |-> FALSE]
MCRecord == [delay |-> FALSE, rec |-> TRUE]
MCBoth == [delay |-> TRUE, rec |-> TRUE]

\* The kinds of copies a run lets the writers make.
MCPlainOnly == {MCPlain}
MCPlainOrDelay == {MCPlain, MCDelay}
MCPromises == {MCRecord, MCBoth}

\* Threads of one kind are interchangeable.
MCSymmetry == Permutations(Writers) \cup Permutations(Readers)
=============================================================================
