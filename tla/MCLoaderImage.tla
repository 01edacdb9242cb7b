--------------------------- MODULE MCLoaderImage ---------------------------
(***************************************************************************)
(* Small images for the loader: pages of two cells, an image of eight.     *)
(* Cell 0 is the header; the relocation directory is at cells 2 and 3.     *)
(***************************************************************************)
EXTENDS LoaderImage

MCPageSize == 2
MCRvaSpan == 16
MCAddressSpace == 64
MCAddressSpace32 == 32
MCBases == {16, 24, 40}
MCTargets == {5, 33}

\* A section of the given rights, at a cell, with its raw cells.
Section(at, virtual, raw, protection) ==
    [at |-> at, virtual |-> virtual, raw |-> raw, protection |-> protection]

Entry(kind, rva) == kind * RvaSpan + rva

Image(base, plus, dir, size, sections, imports) ==
    [size |-> size, headers |-> <<7>>, base |-> base, plus |-> plus,
     relocs |-> dir, sections |-> sections, imports |-> imports]

Directory == [rva |-> 2, size |-> 2]
NoDirectory == [rva |-> 0, size |-> 0]
Imports == <<[iat |-> 6], [iat |-> 7]>>

\* Relocation cells at 2 and 3, pointers at 4 and 5, the import table behind.
Standard(base, plus, first, second, protection) ==
    Image(base, plus, Directory, 8,
          <<Section(2, 1, <<first, second>>, {"R"}),
            Section(4, 3, <<base + 1, base + 2, 1, 2>>, protection)>>, Imports)

MCImages ==
    { Standard(16, TRUE, Entry(DIR64, 4), Entry(DIR64, 5), {"R", "W"}),
      \* preferred base above every granted one: deltas wrap
      Standard(48, TRUE, Entry(DIR64, 5), Entry(ABSOLUTE, 0), {"R", "X"}),
      \* the second entry is bad: unsupported kind, out of the image, malformed
      Standard(16, TRUE, Entry(DIR64, 4), Entry(HIGHLOW, 5), {"R", "W"}),
      Standard(16, TRUE, Entry(DIR64, 4), Entry(DIR64, 9), {"R", "W"}),
      Standard(16, TRUE, Entry(DIR64, 4), Entry(Malformed, 0), {"R", "W"}),
      \* an entry that names the directory itself
      Standard(16, TRUE, Entry(DIR64, 3), Entry(DIR64, 5), {"R", "W"}),
      \* a 32-bit image is only ever a heap copy
      Standard(16, FALSE, Entry(HIGHLOW, 4), Entry(HIGHLOW, 5), {"R", "W"}),
      \* no relocations, and a directory outside the image
      Image(16, TRUE, NoDirectory, 6,
            <<Section(1, 2, <<3>>, {"R", "X"}), Section(4, 2, <<>>, {"W"})>>, <<>>),
      Image(16, TRUE, [rva |-> 5, size |-> 2], 6,
            <<Section(2, 4, <<3, 4>>, {"R"})>>, <<[iat |-> 3]>>),
      \* code and data that share page 1
      Image(16, TRUE, NoDirectory, 5,
            <<Section(1, 2, <<3, 4>>, {"R", "X"}), Section(3, 2, <<5>>, {"R", "W"})>>,
            <<[iat |-> 3]>>),
      \* an import outside the image
      Image(16, TRUE, NoDirectory, 4, <<Section(2, 2, <<>>, {"R"})>>,
            <<[iat |-> 2], [iat |-> 4]>>) }

=============================================================================
