-------------------------- MODULE MCArchiveRoundTrip --------------------------
(* Small instances of ArchiveRoundTrip. *)
EXTENDS ArchiveRoundTrip

Kind(dir, anti, reader) ==
  [is_directory |-> dir, is_anti_item |-> anti, has_reader |-> reader]

\* a file with data, a file without a reader, a directory
PlainKinds == {Kind(FALSE, FALSE, TRUE), Kind(FALSE, FALSE, FALSE), Kind(TRUE, FALSE, FALSE)}

\* the same, where the files are anti items and the directories are not
MixedKinds == {Kind(FALSE, TRUE, TRUE), Kind(FALSE, TRUE, FALSE), Kind(TRUE, FALSE, FALSE)}

\* directories and files, some of them anti items
AllKinds == PlainKinds \cup {Kind(FALSE, TRUE, FALSE)}

File(size) == [size |-> size, is_directory |-> FALSE]

\* solid blocks of files: none, two and three of them, an empty one first or in
\* the middle
FileLists == {<<>>, <<File(0), File(1)>>, <<File(1), File(0), File(2)>>}

\* what a push that fails was given
Lost == {<<File(1)>>}

Closure(limit, go_on, pass_error) ==
  [limit |-> limit, go_on |-> go_on, pass_error |-> pass_error]

\* reads every entry to its end, and never stops
Thorough == {Closure(9, TRUE, TRUE)}

\* reads all or one byte, stops or goes on, swallows errors
Careless == {Closure(9, TRUE, FALSE), Closure(1, TRUE, TRUE), Closure(1, FALSE, TRUE)}
\* nothing else looks like a header, or an empty one does, or a broken one
Lookalikes == {<<>>, <<"empty">>, <<"empty", "broken">>}
=============================================================================
