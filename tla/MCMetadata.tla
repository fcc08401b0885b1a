---------------------------- MODULE MCMetadata ----------------------------
(* Metadata on the paths "/a", "/a/b", "/b" and the names that hide them.  *)
EXTENDS Metadata

a == <<"a">>
b == <<"b">>

\* A directory with a file, and another path: what Create, Rename and Snapshot
\* make, and what all calls work on; a deleted file can be removed for good or,
\* by Rename, recovered.
MCTarget == {<<a, b>>, <<b>>}
MCSource == MCTarget \cup {<<a>>} \cup {HiddenNameFor(<<a, b>>, s) : s \in Stamp}

\* Two files, for the run about chunks.
MCFlat == {<<a>>, <<b>>}

\* State constraint: beside a version above the first there is one chunk of one
\* file, and calls on it.
VersionsOfOneChunk ==
  (\E h \in Handle : served[h] > 1) \/ (\E c \in Call : call[c].version > 1) =>
    /\ st.next <= 2
    /\ DOMAIN st.files \cup DOMAIN disk.files \subseteq {<<a>>}
    /\ \A c \in Call : call[c].path \in {<<>>, <<a>>}

Symmetry == Permutations(Call)
=============================================================================
