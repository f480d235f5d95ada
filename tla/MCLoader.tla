----------------------------- MODULE MCLoader -----------------------------
(***************************************************************************)
(* Values of Loader for TLC: directories of six entries, of which the      *)
(* first four are the kernel's.                                            *)
(***************************************************************************)
EXTENDS Loader

Segm(vaddr, data, memsz) == [load |-> TRUE, vaddr |-> vaddr, data |-> data, memsz |-> memsz]

\* Two segments that overlap, with a header that is not PT_LOAD between them.
Small == [elf |-> TRUE,
          segs |-> <<Segm(145, <<101, 102>>, 2),
                     [load |-> FALSE, vaddr |-> 0, data |-> <<103>>, memsz |-> 1],
                     Segm(146, <<104, 108>>, 3)>>]

\* A segment that begins inside a page, ends in the next directory slot and
\* has more memory than file.
Large == [elf |-> TRUE, segs |-> <<Segm(178, <<105, 106, 107>>, 7)>>]

Broken == [elf |-> FALSE, segs |-> <<>>]

MCImages == {Small, Large, Broken}
=============================================================================
