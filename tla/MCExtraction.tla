---------------------------- MODULE MCExtraction ----------------------------
(* Instances of Extraction for TLC.  a and A are the same name on a disk   *)
(* that folds case, a2 is the renamed a, dx lies in d, f is filtered out.  *)
EXTENDS Extraction

MCPath == {"a", "A", "a2", "b", "c", "d", "dx", "f"}
MCAbove == [p \in MCPath |-> IF p = "dx" THEN {"d"} ELSE {}]
MCKey == [p \in MCPath |-> IF p = "A" THEN "a" ELSE p]
MCCandidate == [p \in MCPath |-> IF p = "a" THEN <<"a2">> ELSE <<>>]

E(k, p) == [kind |-> k, path |-> p]
D(p, m) == [kind |-> "dir", path |-> p, mode |-> m]
To(k, p, t) == [kind |-> k, path |-> p, target |-> t]

\* Destinations by what they hold; everything else is absent.
On(held) == [p \in MCPath |-> IF p \in DOMAIN held THEN held[p] ELSE Absent]
Empty == On(<<>>)
Disk(a, a2, d, dx) == [Empty EXCEPT !["a"] = a, !["a2"] = a2, !["d"] = d, !["dx"] = dx]

\* A name taken by a file, a link to nowhere or a link out of the root, its
\* rename taken or not, and a directory with a file in it or a file.
PolicyDisks ==
    {Disk(a, a2, Absent, Absent) : a \in {Absent, File(0), Link("b"), Link(Outside)},
                                   a2 \in {Absent, File(0)}}
        \cup {Disk(File(0), Link("c"), Absent, Absent),
              Disk(File(0), Absent, Dir, File(0)),
              Disk(Absent, Absent, File(0), Absent)}
PolicyEntries ==
    {E("file", "a"), E("file", "A"), E("file", "a2"), D("a", "open"), E("file", "d"),
     D("d", "open"), E("file", "dx"), To("symlink", "a", "c"), To("hardlink", "b", "a"),
     E("special", "b"), E("file", "f")}

\* Links to files, links to links, and symbolic links that would come between.
LinkDisks == {Empty, Disk(File(0), Absent, Dir, Absent), Disk(File(0), Absent, Absent, Absent)}
LinkEntries ==
    {E("file", "a"), To("hardlink", "b", "a"), To("hardlink", "c", "b"),
     To("hardlink", "b", "c"), To("hardlink", "dx", "a"), To("hardlink", "d", "a"),
     To("hardlink", "c", "dx"),
     To("symlink", "d", "a"), To("symlink", "a", "c"), To("symlink", "c", "a"),
     D("d", "open"), E("file", "d"), E("file", "dx")}

\* A tree: directories in each other, with a mode that shuts out or not.
TreeEntries ==
    {E("file", "a"), E("file", "A"), E("file", "a2"), D("a", "open"), D("d", "open"),
     D("d", "closed"), D("dx", "open"), E("file", "dx"), To("symlink", "a", "c"),
     E("special", "b")}
TreeDisks ==
    {Empty, Disk(File(0), Absent, Dir, File(0)), Disk(Link("b"), Absent, File(0), Absent)}

Policies == {"refuse", "replace", "rename", "ask"}
MCCases ==
    {[backends |-> {Tar}, entries |-> PolicyEntries, disks |-> PolicyDisks,
      policies |-> Policies, unsafes |-> {"reject", "skip"}, ignores |-> BOOLEAN,
      limits |-> [entries |-> 3, bytes |-> 2]],
     [backends |-> {Tar, Cpio, Tzap}, entries |-> LinkEntries, disks |-> LinkDisks,
      policies |-> Policies, unsafes |-> {"reject"}, ignores |-> {FALSE},
      limits |-> [entries |-> 4, bytes |-> 4]],
     [backends |-> Backend \ {Cpio, Tzap}, entries |-> TreeEntries, disks |-> TreeDisks,
      policies |-> Policies, unsafes |-> {"skip"}, ignores |-> {FALSE},
      limits |-> [entries |-> 3, bytes |-> 2]]}
=============================================================================
