------------------------------- MODULE MCVfs --------------------------------
(***************************************************************************)
(* Model-checking instance of Vfs.                                        *)
(*                                                                         *)
(* The structural run (MCVfs.cfg) has clusters of two bytes, a one-byte  *)
(* file count and two-byte root entries.  Cluster 0 then holds the count *)
(* alone and every further cluster one entry, so the root's two files    *)
(* take three clusters and an EOF cluster: save_root_folder's middle loop *)
(* and load_root_folder's fat[fat[fat[curr]]] loop each run once (none   *)
(* once rm has left one file).  Eleven clusters leave room for the files' *)
(* chains to grow until they run out.  The violation runs keep one-byte  *)
(* entries, so the root takes two clusters; their bugs are not the root's.*)
(***************************************************************************)
EXTENDS Vfs

MCNames        == {"a", "s"}
MCStdouts      == <<"s">>
MCBytes        == {1, 2}
MCDefaultFiles == << <<"a", <<1, 2, 1>> >> >>
MCBuffers      == {<<2>>, <<2, 1>>}
MCOneProc      == {"p"}
MCTwoProcs     == {"p", "q"}

\* The structural runs' view of a state.  No guard, early return or
\* cluster choice of vfs.cpp reads the bytes of a cluster: mem flows only
\* into mem.  States that differ only in mem have the same futures in
\* every other variable, and the invariants of those runs besides TypeOK
\* do not mention mem.
StructureView == <<fat, dir, halted, wild, openFiles, holds>>
-----------------------------------------------------------------------------
(* The shell's parser (module Shell) over the files of the root.  A user *)
(* names the files that ls shows; Typed gives each model name the         *)
(* characters a user types for it.  The parse of a line does not depend  *)
(* on the file system, so its results are tabulated once for each set   *)
(* of names and looked up in every state.                                *)

Sh == INSTANCE Shell

Typed == [n \in MCNames |-> IF n = "a" THEN <<97>> ELSE <<115>>]

TypedSet(N) == {Typed[n] : n \in N}

\* The sets of root names for which each parse property holds, as a set
\* (a set of pairs is evaluated once, a function's body at each lookup).
ShellStaleTable == {<<N, Sh!StaleFreeOn(TypedSet(N))>> : N \in SUBSET MCNames}
ShellHelpTable  == {<<N, Sh!FollowsHelpOn(TypedSet(N))>> : N \in SUBSET MCNames}

\* Every line a user can type about the files in the root, each keyword
\* prefix with each tail, makes main() take the same branch with the same
\* arguments whatever its uninitialised buffer held before read_line: the
\* argument of a bare keyword is read at buffer + strlen(K) + 1, one past
\* the line's NUL, and only the second NUL of strcpy (string.cpp:118)
\* keeps the previous bytes out of it.
ShellIgnoresStaleBuffer == <<NamesIn(dir), TRUE>> \in ShellStaleTable

\* The commands printHelp() documents, typed with the names of the files
\* in the root, reach their branch of main() with exactly those names as
\* arguments: strcmp(buffer, K, strlen(K) - 1) compares strlen(K)
\* characters and the argument offsets skip exactly "K ".
ShellFollowsHelp == <<NamesIn(dir), TRUE>> \in ShellHelpTable
=============================================================================
