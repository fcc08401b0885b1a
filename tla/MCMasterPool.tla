---------------------------- MODULE MCMasterPool ----------------------------
(* MasterPool, and with it LockTable, on "/", a directory and a file in it. *)
EXTENDS MasterPool

MCPath == {"root", "dir", "file"}
MCAnc == [p \in MCPath |-> CASE p = "root" -> {} [] p = "dir" -> {"root"}
                             [] p = "file" -> {"root", "dir"}]
MCRank == [p \in MCPath |-> CASE p = "root" -> 0 [] p = "dir" -> 1 [] p = "file" -> 2]

\* Remove, Rename or Snapshot of the directory; AddChunk or Create of the file,
\* or its removal by the collector; Rename or Snapshot of the file to a name
\* that is the directory's, which is refused only under the locks.
MCRequest == {ForPath("dir", "write"), ForPath("file", "write"),
              ForPaths("file", "write", "dir", "write")}
=============================================================================
