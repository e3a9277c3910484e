--------------------------- MODULE MCRuntimeThread ---------------------------
(***************************************************************************)
(* Small instances of RuntimeThread.                                       *)
(***************************************************************************)
EXTENDS RuntimeThread, TLC

CONSTANTS main, sub, nat, leaf

MCManaged == {main, sub}
MCNative == {nat, leaf}

\* With an alignment of 2, the parameter and the result of sub are padded.
MCParameters == main :> 0 @@ sub :> 2 @@ nat :> 1 @@ leaf :> 0
MCResults == main :> 1 @@ sub :> 1 @@ nat :> 1 @@ leaf :> 0
MCFrameCapacity == main :> 4 @@ sub :> 2
MCInstructions == main :> 3 @@ sub :> 2

=============================================================================
