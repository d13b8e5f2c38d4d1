---------------------------- MODULE MCDirLookup ----------------------------
(***************************************************************************)
(* Instances of DirLookup for TLC.                                         *)
(***************************************************************************)
EXTENDS DirLookup

PathsUpTo(n) == UNION {[1 .. k -> Name] : k \in 1 .. n}

Ask(paths, creats, excls, accs) ==
  [path : paths, creat : creats, excl : excls, acc : accs]

(* Every path of at most four names in batches of two, and with O_CREAT    *)
(* every path of one batch.                                                *)
AllRequests ==
  Ask(PathsUpTo(4), {FALSE}, {FALSE}, {{}})
    \cup Ask(PathsUpTo(2), BOOLEAN, BOOLEAN, {{"write"}})
    \cup Ask(PathsUpTo(2), {TRUE}, {FALSE}, {{"read"}, {"exec"}})

(* Of these, those that may make a file.                                   *)
CreatingRequests == {q \in AllRequests : q.creat}

PlainRequests == Ask(PathsUpTo(4), {FALSE}, {FALSE}, {{}})
=============================================================================
