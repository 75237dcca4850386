--------------------------- MODULE MCFolderUpload ---------------------------
(***************************************************************************)
(* Small instances of FolderUpload for TLC.  f1 and f2 share their base    *)
(* name (they sit in different subfolders), f2 and f3 their content.       *)
(***************************************************************************)
EXTENDS FolderUpload, TLC

CONSTANTS t1, t2, f1, f2, f3, a, b, h1, h2

MCNameOf == [f \in Files |-> IF f = f3 THEN b ELSE a]
MCHashOf == [f \in Files |-> IF f = f1 THEN h1 ELSE h2]

\* Tasks are interchangeable; f1 and f2, of one base name, are too if their
\* contents are exchanged with them.  (Only for Files = {f1, f2}.)
SwapFiles == (f1 :> f2) @@ (f2 :> f1) @@ (h1 :> h2) @@ (h2 :> h1)
Symmetry == Permutations(Tasks) \cup {SwapFiles}

=============================================================================
