------------------------------ MODULE Backends ------------------------------
(***************************************************************************)
(* How the extraction loops of the archive formats differ.  All of them    *)
(* ask the planner of safety.rs about every entry and write files through  *)
(* an atomic output; a profile has what is left for the format to decide:  *)
(*                                                                         *)
(*   holds     the kinds of entries its archives have                      *)
(*   passed    the kinds that are passed over without asking the planner   *)
(*   planning  the planner is asked about "each" entry before it is        *)
(*             written, or about "all" before the first write              *)
(*   clears    the kinds whose destination is removed, under Replace,      *)
(*             before they are written or put off (a file replaces what is *)
(*             there when it is committed)                                 *)
(*   relinks   a deferred hard link removes what is at its destination     *)
(*             when it is made                                             *)
(*   stamping  the directories get their modes at the end: in "archive"    *)
(*             order, "reverse" order, "deepest" first, or never ("none")  *)
(***************************************************************************)
Plain == {"file", "dir", "symlink"}

\* Trees that leave the modes of directories alone.
Tree(kinds) ==
    [holds |-> kinds, passed |-> {}, planning |-> "each", clears |-> {"dir", "symlink"},
     relinks |-> FALSE, stamping |-> "none"]
Unix == [Tree(Plain \cup {"hardlink", "special"}) EXCEPT !.stamping = "archive"]

Tar  == [Unix EXCEPT !.clears = @ \cup {"hardlink"}]
\* What is at the destination of a link is not removed at all.
Cpio == Unix
Tzap == [Unix EXCEPT !.relinks = TRUE, !.stamping = "reverse"]
Zip  == [Tree(Plain) EXCEPT !.stamping = "reverse"]
AppleArchive == [Tree(Plain \cup {"special"}) EXCEPT !.stamping = "reverse"]
SevenZ == [Tree({"file", "dir"}) EXCEPT !.planning = "all", !.stamping = "reverse"]
Squashfs == [Tree(Plain \cup {"special"}) EXCEPT !.passed = {"special"}, !.stamping = "deepest"]
Xar  == Tree(Plain)
Wim  == Tree(Plain)
Dmg  == Tree(Plain)
Pkg  == Tree(Plain)
VirtualDisk == Tree(Plain \cup {"special"})
\* A manifest without contents: the old file goes before the new one is made.
Mtree == [Tree(Plain \cup {"special"}) EXCEPT !.clears = @ \cup {"file"}]
Lha  == Tree({"file", "dir"})
Ar   == Tree({"file"})
Cab  == Tree({"file"})
Warc == Tree({"file"})
Msi  == Tree({"file"})

Backend ==
    {Tar, Cpio, Tzap, Zip, AppleArchive, SevenZ, Squashfs, Xar, Wim, Dmg, Pkg,
     VirtualDisk, Mtree, Lha, Ar, Cab, Warc, Msi}
=============================================================================
