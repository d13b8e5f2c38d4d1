----------------------------- MODULE DirLookup -----------------------------
(***************************************************************************)
(* S_dir_lookup (dir-lookup.c): a client holding a protid of a directory   *)
(* asks for the file a path leads to.  The path is walked in batches of at *)
(* most MAX_PARTS names, each one Twalk request from the fid of the        *)
(* previous batch to a fresh fid; the last name may be created; walking    *)
(* out of the root must be noticed, so that the client goes on at the      *)
(* parent of the translated node.  On success the new protid owns the fid  *)
(* reached and, if opened, a second one for I/O.                           *)
(*                                                                         *)
(* Every p9_rpc is one step, taken together with the local code that       *)
(* follows it; other clients of the server act in between.  The server is  *)
(* external: a root directory with one subdirectory "a", either of which   *)
(* may contain a file "f".  A fid names a node and may be open.            *)
(***************************************************************************)
EXTENDS Naturals, Sequences, FiniteSets

CONSTANTS
  MAX_PARTS,
  Requests,     \* what clients ask for: a path, O_CREAT, O_EXCL, an access mode
  Contested,    \* the requests during which other clients create and remove files
  Faults,       \* what may fail: "refuse" any request, "nomem" an allocation
  ReadOnly,     \* the values of the option p9_readonly
  MaxLookups    \* how many lookups are made

(* "." stands for "." and for the empty name after a trailing slash.       *)
Name == {"a", "f", "..", "."}

ASSUME PartsAssumption == MAX_PARTS \in Nat \ {0}
ASSUME RequestsAssumption ==
  \A q \in Requests :
    /\ q.path \in Seq(Name) /\ q.path # <<>>
    /\ {q.creat, q.excl} \subseteq BOOLEAN /\ q.acc \subseteq {"read", "write", "exec"}
ASSUME OptionAssumption == Contested \subseteq Requests /\ ReadOnly \subseteq BOOLEAN
ASSUME FaultsAssumption == Faults \subseteq {"refuse", "nomem"}

Dirs == {"root", "sub"}
File(d) == IF d = "root" THEN "root/f" ELSE "sub/f"
Nodes == Dirs \cup {File(d) : d \in Dirs}
NoNode == "none"
NoFid == 0

VARIABLES
  pc, lookups,
  p9_readonly,  \* set when the translator starts
  path, flags,  \* the arguments of the call
  pos,          \* the index in path of the current part
  parts,        \* the indices of the names of this batch
  prev_fid, next_fid,
  n_qids, qid,  \* how many qids the last reply had, and the last of them
  have_created,
  pi,           \* the protid the lookup starts from
  npi,          \* the one it makes
  out,          \* what it returns
  fids,         \* the server's fids: fid -> its node
  last_fid,     \* next_fid of fid-alloc.c
  exists,       \* the directories that contain a file "f"
  misused,      \* ghost: a request has named a fid the server does not have
  before,       \* ghost: fids at the start of the lookup
  disturbed,    \* ghost: another client has acted since then
  overtaken     \* ghost: another client once made the file that was to be created

local == <<path, flags, pos, parts, prev_fid, next_fid, n_qids, qid, have_created, before, disturbed, overtaken>>
vars == <<pc, lookups, p9_readonly, local, pi, npi, out, fids, last_fid, exists, misused>>

(***************************************************************************)
(* The server (external).                                                  *)
(***************************************************************************)
(* One name of a walk; the root is its own parent.                         *)
Step(n, name) ==
  CASE n \in Dirs /\ name = ".." -> "root"
    [] n = "root" /\ name = "a" -> "sub"
    [] n \in exists /\ name = "f" -> File(n)
    [] OTHER -> NoNode

(* The nodes a walk from n passes through, up to the first failure.        *)
Trail(n, names) ==
  LET at[k \in 0 .. Len(names)] ==
        IF k = 0 THEN n
        ELSE IF at[k - 1] = NoNode THEN NoNode ELSE Step(at[k - 1], names[k])
      reached == Cardinality({k \in 1 .. Len(names) : at[k] # NoNode})
  IN  [k \in 1 .. reached |-> at[k]]

(* Twalk: an error if not even the first name resolves, else the qids of   *)
(* those that do; newfid exists only if all of them do.                    *)
Walk(fid, names) ==
  IF fid \notin DOMAIN fids THEN [err |-> "EBADF", qids |-> <<>>]
  ELSE LET q == Trail(fids[fid], names) IN
    CASE names = <<>> \/ q # <<>> -> [err |-> "none", qids |-> q]
      [] OTHER -> [err |-> IF fids[fid] \in Dirs THEN "ENOENT" ELSE "ENOTDIR", qids |-> <<>>]

Refused == [err |-> "EIO", qids |-> <<>>]
WalkReplies(fid, names) ==
  {Walk(fid, names)} \cup (IF "refuse" \in Faults THEN {Refused} ELSE {})

Has(s, fid) == fid \in DOMAIN s
With(s, fid, node) == [g \in DOMAIN s \cup {fid} |-> IF g = fid THEN node ELSE s[g]]
Clunk(s, fid) == [g \in DOMAIN s \ {fid} |-> s[g]]

(* The node reached by a complete walk.                                    *)
End(fid, q) == IF q = <<>> THEN fids[fid] ELSE q[Len(q)]

(* Another client creates or removes a file.                               *)
Rival ==
  /\ pc \notin {"idle", "returned", "aborted", "crashed"}
  /\ [path |-> path, creat |-> flags.creat, excl |-> flags.excl, acc |-> flags.acc] \in Contested
  /\ disturbed' = TRUE
  /\ \E d \in Dirs : exists' = IF d \in exists THEN exists \ {d} ELSE exists \cup {d}
  /\ UNCHANGED <<pc, lookups, p9_readonly, path, flags, pos, parts, prev_fid, next_fid, n_qids, qid,
                 have_created, before, overtaken, pi, npi, out, fids, last_fid, misused>>

(***************************************************************************)
(* The handler.                                                            *)
(***************************************************************************)
NoProtid == [walk_fid |-> NoFid, io_fid |-> NoFid, qid |-> "zero"]
Error(e) == [kind |-> "error", err |-> e, rest |-> 0]
Reauth(k) == [kind |-> "reauth", err |-> "none", rest |-> k]
Normal == [kind |-> "normal", err |-> "none", rest |-> 0]

(* The client starts from the protid fsys_getroot gave it.                 *)
Init ==
  /\ pc = "idle" /\ path = <<".">> /\ flags = [creat |-> FALSE, excl |-> FALSE, acc |-> {}]
  /\ p9_readonly \in ReadOnly /\ lookups = 0 /\ pos = 0 /\ parts = <<>>
  /\ prev_fid = NoFid /\ next_fid = NoFid /\ n_qids = 0 /\ qid = NoNode
  /\ have_created = FALSE
  /\ pi = [walk_fid |-> 1, io_fid |-> NoFid, qid |-> "root"]
  /\ npi = NoProtid
  /\ out = Normal
  /\ fids = [fid \in {1} |-> "root"]
  /\ last_fid = 1
  /\ exists \in SUBSET Dirs
  /\ misused = FALSE
  /\ before = fids /\ disturbed = FALSE /\ overtaken = FALSE

Return(o) == pc' = "returned" /\ out' = o /\ npi' = NoProtid

Names == [k \in 1 .. Len(parts) |-> path[parts[k]]]
AtEnd == pos = Len(path)
must_be_dir == AtEnd /\ path[pos] = "."
create == AtEnd /\ flags.creat

Begin(q) ==
  /\ pc = "idle" /\ lookups < MaxLookups
  /\ lookups' = lookups + 1
  /\ path' = q.path /\ flags' = [creat |-> q.creat, excl |-> q.excl, acc |-> q.acc]
  /\ pos' = 0 /\ parts' = <<>> /\ n_qids' = 0 /\ qid' = NoNode
  /\ prev_fid' = pi.walk_fid /\ next_fid' = NoFid /\ have_created' = FALSE
  /\ before' = fids /\ disturbed' = FALSE
  /\ IF p9_readonly /\ (q.excl \/ "write" \in q.acc) THEN Return(Error("EROFS"))
     ELSE IF pi.qid = "root" /\ q.path[1] = ".." THEN Return(Reauth(2))
     ELSE pc' = "gather" /\ out' = Normal /\ npi' = NoProtid
  /\ UNCHANGED <<p9_readonly, pi, fids, last_fid, exists, misused, overtaken>>

(* Collect the names of the next batch, up to MAX_PARTS of them or to the  *)
(* end of the path, skipping "."; a fresh fid is allocated for its walk.   *)
BatchEnd(j) ==
  LET named == {k \in pos + 1 .. j : path[k] # "."} IN
    \/ j = Len(path) /\ Cardinality(named) <= MAX_PARTS
    \/ Cardinality(named) = MAX_PARTS /\ j \in named

(* The names from i + 1 to j, by their indices.                            *)
Collected(i, j) ==
  LET upto[k \in i .. j] ==
        IF k = i THEN <<>>
        ELSE IF path[k] = "." THEN upto[k - 1] ELSE Append(upto[k - 1], k)
  IN  upto[j]

Gather ==
  /\ pc = "gather"
  /\ \E j \in pos + 1 .. Len(path) :
       /\ BatchEnd(j) /\ \A k \in pos + 1 .. j - 1 : ~BatchEnd(k)
       /\ pos' = j
       /\ parts' = Collected(pos, j)
       /\ pc' = IF j = Len(path) /\ flags.creat /\ flags.excl /\ ~p9_readonly THEN "creat" ELSE "walk"
  /\ last_fid' = last_fid + 1 /\ next_fid' = last_fid + 1
  /\ UNCHANGED <<path, flags, lookups, p9_readonly, prev_fid, n_qids, qid, have_created, before, disturbed, overtaken, pi, npi, out, fids, exists, misused>>

(* "Clunk the previous fid, we don't need it anymore in either case."      *)
ClunkAlways(s) == Clunk(s, prev_fid)
ClunkNothing(s) == s
ClunkPrev(s) == IF prev_fid # pi.walk_fid THEN Clunk(s, prev_fid) ELSE s

UsePrev == misused' = (misused \/ ~Has(fids, prev_fid))

(* The places in this batch where a name leads out of the root.            *)
Escapes(q) == {k \in 1 .. Len(q) - 1 : q[k] = "root" /\ Names[k + 1] = ".."}

(* The walk is refused, or answers with more qids than it was given names, *)
(* which is EIO as well, and a reply of a server that made no fid.         *)
WalkFails(r) ==
  /\ r.err # "none"
  /\ fids' = ClunkPrev(fids)
  /\ IF r.err = "ENOENT" /\ create /\ Len(parts) = 1
       THEN pc' = "creat" /\ UNCHANGED <<out, npi>>
       ELSE Return(Error(r.err))
  /\ UNCHANGED <<prev_fid, n_qids, qid>>

(* Out of the root: the client retries the rest at the root's parent.  The *)
(* fid a complete walk made is clunked.                                    *)
WalkEscapes(r) ==
  /\ r.err = "none" /\ Escapes(r.qids) # {}
  /\ fids' = ClunkPrev(fids)
  /\ LET k == CHOOSE e \in Escapes(r.qids) : \A f \in Escapes(r.qids) : e <= f
     IN  Return(Reauth(parts[k + 1] + 1))
  /\ UNCHANGED <<prev_fid, n_qids, qid>>

WalkShort(r) ==
  /\ r.err = "none" /\ Escapes(r.qids) = {} /\ Len(r.qids) < Len(parts)
  /\ fids' = ClunkPrev(fids)
  /\ CASE r.qids[Len(r.qids)] \notin Dirs -> Return(Error("ENOTDIR"))
       [] r.qids[Len(r.qids)] \in Dirs /\ create /\ Len(r.qids) + 1 = Len(parts) ->
            pc' = "creat" /\ UNCHANGED <<out, npi>>
       [] OTHER -> Return(Error("ENOENT"))
  /\ UNCHANGED <<prev_fid, n_qids, qid>>

AdvanceForgotten == prev_fid
Advance == next_fid

WalkComplete(r) ==
  /\ r.err = "none" /\ Escapes(r.qids) = {} /\ Len(r.qids) = Len(parts)
  /\ fids' = ClunkPrev(With(fids, next_fid, End(prev_fid, r.qids)))
  /\ prev_fid' = Advance
  /\ n_qids' = Len(r.qids)
  /\ qid' = IF r.qids = <<>> THEN NoNode ELSE r.qids[Len(r.qids)]
  /\ CASE create /\ flags.excl -> Return(Error("EEXIST"))
       [] ~(create /\ flags.excl) -> pc' = (IF AtEnd THEN "found" ELSE "gather") /\ UNCHANGED <<out, npi>>

DoWalk ==
  /\ pc = "walk"
  /\ UsePrev
  /\ \E r \in WalkReplies(prev_fid, Names) :
       WalkFails(r) \/ WalkEscapes(r) \/ WalkShort(r) \/ WalkComplete(r)
  /\ UNCHANGED <<path, flags, lookups, p9_readonly, pos, parts, next_fid, have_created, before, disturbed, overtaken, pi, last_fid, exists>>

(* Walk to the parent of the file to create, again from prev_fid.          *)
CreatePrepared ==
  /\ pc = "creat"
  /\ IF must_be_dir \/ path[pos] = ".."
       THEN Return(Error("EINVAL")) /\ UNCHANGED <<fids, misused>>
     ELSE IF p9_readonly
       THEN Return(Error("EROFS")) /\ UNCHANGED <<fids, misused>>
     ELSE /\ UsePrev
          /\ \E r \in WalkReplies(prev_fid, SubSeq(Names, 1, Len(parts) - 1)) :
               IF r.err # "none" THEN Return(Error(r.err)) /\ UNCHANGED fids
               ELSE IF Len(r.qids) # Len(parts) - 1 THEN Return(Error("ENOENT")) /\ UNCHANGED fids
               ELSE /\ fids' = With(fids, next_fid, End(prev_fid, r.qids))
                    /\ pc' = "create" /\ UNCHANGED <<out, npi>>
  /\ UNCHANGED <<lookups, p9_readonly, local, pi, last_fid, exists>>

(* Tlcreate: next_fid becomes the new file, opened.                        *)
CreateErr(d) ==
  CASE d \notin Dirs -> "ENOTDIR"
    [] d \in Dirs /\ Step(d, path[pos]) # NoNode -> "EEXIST"
    [] d \in Dirs /\ Step(d, path[pos]) = NoNode -> IF path[pos] = "f" THEN "none" ELSE "EACCES"

RetryAnyway(err) == err = "EEXIST"
Retry(err) == err = "EEXIST" /\ ~flags.excl

Create ==
  /\ pc = "create"
  /\ LET d == fids[next_fid] IN
     \E err \in {CreateErr(d)} \cup (IF "refuse" \in Faults THEN {"EIO"} ELSE {}) :
       \/ /\ err = "none"
          /\ exists' = exists \cup {d}
          /\ fids' = With(fids, next_fid, File(d))
          /\ have_created' = TRUE /\ n_qids' = 1 /\ qid' = File(d)
          /\ pc' = "found" /\ UNCHANGED <<out, npi>>
       \/ /\ err # "none" /\ ~Retry(err)
          /\ fids' = Clunk(fids, next_fid)
          /\ Return(Error(err))
          /\ UNCHANGED <<exists, have_created, n_qids, qid>>
       \/ /\ Retry(err)
          /\ pc' = "rewalk"
          /\ UNCHANGED <<exists, fids, have_created, n_qids, qid, out, npi>>
  /\ UNCHANGED <<path, flags, lookups, p9_readonly, pos, parts, prev_fid, next_fid, before, disturbed, overtaken, pi, last_fid, misused>>

(* Somebody else created it: walk next_fid one step further.               *)
Rewalk ==
  /\ pc = "rewalk"
  /\ \E r \in WalkReplies(next_fid, <<path[pos]>>) :
       \/ /\ r.err # "none" /\ Return(Error(r.err))
          /\ UNCHANGED <<fids, n_qids, qid>>
       \/ /\ r.err = "none"
          /\ fids' = With(fids, next_fid, r.qids[1])
          /\ n_qids' = 1 /\ qid' = r.qids[1]
          /\ pc' = "found" /\ UNCHANGED <<out, npi>>
  /\ overtaken' = TRUE
  /\ UNCHANGED <<path, flags, lookups, p9_readonly, pos, parts, prev_fid, next_fid, have_created, before, disturbed, pi, last_fid, exists, misused>>

NodeQid == IF n_qids > 0 THEN qid ELSE "zero"

(* The fids of a new protid that could not be finished are clunked with it *)
(* (p9_release_protid).                                                    *)
DropProtid(s, p) == Clunk(Clunk(s, p.walk_fid), p.io_fid)
DropMisuses(p) == \E fid \in {p.walk_fid, p.io_fid} \ {NoFid} : ~Has(fids, fid)

(* Set up the node, the peropen and the protid.  A created file is open    *)
(* already: its fid does the I/O and is duplicated for walking.            *)
FoundCreated ==
  /\ pc = "found" /\ have_created
  /\ last_fid' = last_fid + 1 /\ next_fid' = last_fid + 1
  /\ \E r \in WalkReplies(next_fid, <<>>) :
       IF r.err = "none"
         THEN /\ fids' = With(fids, last_fid + 1, fids[next_fid])
              /\ pc' = "returned" /\ out' = Normal
              /\ npi' = [walk_fid |-> last_fid + 1, io_fid |-> next_fid, qid |-> NodeQid]
         ELSE /\ fids' = Clunk(fids, next_fid)
              /\ Return(Error(r.err))
  /\ UNCHANGED <<path, flags, lookups, p9_readonly, pos, parts, prev_fid, n_qids, qid, have_created, before, disturbed, overtaken, pi, exists, misused>>

(* Otherwise the fid reached is for walking, and p9_ensure_open opens a    *)
(* duplicate of it if the client asked for access.  O_EXEC alone trips its *)
(* assertion "Bad flags".  If it fails the new protid is released.         *)
EnsureOpen ==
  LET dup == last_fid + 1 IN
  /\ last_fid' = dup
  /\ \E r \in WalkReplies(prev_fid, <<>>),
        openErr \in {"none"} \cup (IF "refuse" \in Faults THEN {"EIO"} ELSE {}) :
       LET err == IF r.err = "none" THEN openErr ELSE r.err IN
       IF err = "none"
         THEN /\ fids' = With(fids, dup, fids[prev_fid])
              /\ pc' = "returned" /\ out' = Normal
              /\ npi' = [walk_fid |-> prev_fid, io_fid |-> dup, qid |-> NodeQid]
         ELSE /\ fids' = Clunk(fids, prev_fid)
              /\ Return(Error(err))

NotDirUnchecked == FALSE
NotDir == must_be_dir /\ n_qids > 0 /\ qid \notin Dirs

FoundExisting ==
  /\ pc = "found" /\ ~have_created /\ ~NotDir
  /\ \/ /\ flags.acc = {}
        /\ pc' = "returned" /\ out' = Normal
        /\ npi' = [walk_fid |-> prev_fid, io_fid |-> NoFid, qid |-> NodeQid]
        /\ UNCHANGED <<fids, last_fid, misused>>
     \/ flags.acc \cap {"read", "write"} # {} /\ EnsureOpen /\ UsePrev
  /\ UNCHANGED <<lookups, p9_readonly, local, pi, exists>>

FoundBadFlags ==
  /\ pc = "found" /\ ~have_created /\ ~NotDir
  /\ flags.acc = {"exec"}
  /\ pc' = "aborted"
  /\ UNCHANGED <<lookups, p9_readonly, local, pi, npi, out, fids, last_fid, exists, misused>>

(* A trailing slash on a file: the fid reached is forgotten, and the exit  *)
(* path releases nnp, which has no value yet.                              *)
FoundNotDir ==
  /\ pc = "found" /\ NotDir
  /\ \/ Return(Error("ENOTDIR"))
     \/ pc' = "crashed" /\ UNCHANGED <<out, npi>>
  /\ UNCHANGED <<lookups, p9_readonly, local, pi, fids, last_fid, exists, misused>>

(* No memory for the node, the peropen or the protid: the fids are         *)
(* forgotten.                                                              *)
FoundNoMemory ==
  /\ pc = "found" /\ ~NotDir /\ "nomem" \in Faults
  /\ Return(Error("ENOMEM"))
  /\ UNCHANGED <<lookups, p9_readonly, local, pi, fids, last_fid, exists, misused>>

(* The client closes the old protid and goes on with the new one, or the   *)
(* other way round.                                                        *)
Continue ==
  /\ pc = "returned"
  /\ pc' = "idle" /\ out' = Normal /\ npi' = NoProtid
  /\ \E keep \in IF out.kind = "normal" THEN {pi, npi} ELSE {pi} :
       LET drop == IF out.kind # "normal" THEN NoProtid ELSE IF keep = pi THEN npi ELSE pi IN
         /\ pi' = keep
         /\ fids' = DropProtid(fids, drop)
         /\ misused' = (misused \/ DropMisuses(drop))
  /\ UNCHANGED <<lookups, p9_readonly, local, last_fid, exists>>

Finished ==
  /\ pc \in {"aborted", "crashed"} \/ (pc = "idle" /\ lookups = MaxLookups)
  /\ UNCHANGED vars

Next ==
  \/ \E q \in Requests : Begin(q)
  \/ Gather \/ DoWalk \/ CreatePrepared \/ Create \/ Rewalk
  \/ FoundCreated \/ FoundExisting \/ FoundBadFlags \/ FoundNotDir \/ FoundNoMemory
  \/ Continue \/ Rival \/ Finished

Spec == Init /\ [][Next]_vars

(***************************************************************************)
(* What a path means: names are followed one by one, and ".." at the root  *)
(* leads out of the file system, at which point resolution stops.          *)
(***************************************************************************)
Outside == "outside"
start == IF Has(before, pi.walk_fid) THEN before[pi.walk_fid] ELSE NoNode

Follow(n, name) ==
  CASE n \in {NoNode, Outside} -> n
    [] n = "root" /\ name = ".." -> Outside
    [] n \in Nodes /\ name = "." -> n
    [] OTHER -> Step(n, name)

(* The nodes the path passes through.                                      *)
Meaning ==
  LET at[k \in 0 .. Len(path)] == IF k = 0 THEN start ELSE Follow(at[k - 1], path[k])
  IN  at

(* The node the whole path leads to.                                       *)
Named == Meaning[Len(path)]

(* A trailing slash after some name asks for a directory.                  *)
DirAsked == path[Len(path)] = "." /\ \E k \in 1 .. Len(path) : path[k] # "."

Returned == pc = "returned"

Protid == [walk_fid : Nat, io_fid : Nat, qid : Nodes \cup {"zero"}]

(* The values every variable may take.                                     *)
TypeOK ==
  /\ pc \in {"idle", "gather", "walk", "creat", "create", "rewalk", "found",
             "returned", "aborted", "crashed"}
  /\ path \in {q.path : q \in Requests} \cup {<<".">>} /\ lookups \in 0 .. MaxLookups
  /\ pos \in 0 .. Len(path) /\ Len(parts) <= MAX_PARTS
  /\ \A k \in 1 .. Len(parts) : parts[k] \in 1 .. pos
  /\ {prev_fid, next_fid} \subseteq 0 .. last_fid
  /\ n_qids \in 0 .. MAX_PARTS /\ qid \in Nodes \cup {NoNode}
  /\ have_created \in BOOLEAN /\ misused \in BOOLEAN
  /\ pi \in Protid /\ npi \in Protid
  /\ DOMAIN fids \subseteq 1 .. last_fid /\ \A fid \in DOMAIN fids : fids[fid] \in Nodes
  /\ exists \subseteq Dirs

(* No request names a fid that has been clunked or was never made, however *)
(* many batches the path takes and wherever a request is refused; at the   *)
(* end the protid that is closed has live fids of its own.  (Not after a   *)
(* creation was overtaken: the protid that O_CREAT then makes shares the   *)
(* walk fid of the directory.)                                             *)
LiveFidsOnly == ~overtaken => ~misused

(* A path that stays inside the root of a tree nobody else changes leads   *)
(* where its names lead, however it is cut into batches, and fails only if *)
(* it leads nowhere (or to a file where a trailing slash asks for a        *)
(* directory); both fids of the new protid are at that node.               *)
ResolvesInside ==
  Returned /\ ~disturbed /\ ~overtaken /\ Named # Outside =>
    /\ out.kind = "normal" =>
         /\ Has(fids, npi.walk_fid) /\ fids[npi.walk_fid] = Named
         /\ npi.io_fid # NoFid => fids[npi.io_fid] = Named
    /\ out.err \in {"ENOENT", "ENOTDIR"} => Named = NoNode \/ (DirAsked /\ Named \notin Dirs)
    /\ out.err = "EEXIST" => Named \in Nodes /\ flags.creat /\ flags.excl

(* A path that ends in a slash leads to a directory, if it fits into one   *)
(* batch.                                                                  *)
SlashMeansDir ==
  Returned /\ ~overtaken /\ out.kind = "normal" /\ DirAsked /\ Len(path) <= MAX_PARTS =>
    fids[npi.walk_fid] \in Dirs

(* Where a path leaves the root the client is sent to the root's parent,   *)
(* with the names that remain after the ".." that leaves it ("See if, at   *)
(* any point, we walked out of the root.").                                *)
EscapeDetected ==
  Returned /\ out.err = "none" /\ Named = Outside =>
    out.kind = "reauth" /\ Meaning[out.rest - 2] = "root"

(* The fid of a protid is at the file its node's qid names.                *)
FidMatchesNode ==
  Returned /\ ~overtaken /\ out.kind = "normal" /\ npi.qid # "zero" =>
    Has(fids, npi.walk_fid) /\ fids[npi.walk_fid] = npi.qid

(* A lookup leaves behind the fids of the protid it makes and no other,    *)
(* and clunks none that was there before, whether it succeeds, leaves the  *)
(* root or fails in the middle of a path (the two error paths that forget  *)
(* the fid they reached are excepted, and being overtaken).                *)
FidsAccounted ==
  Returned /\ ~overtaken /\ out.err # "ENOMEM" /\ ~(out.err = "ENOTDIR" /\ DirAsked) =>
    DOMAIN fids = DOMAIN before \cup ({npi.walk_fid, npi.io_fid} \ {NoFid})

(* O_CREAT|O_EXCL succeeds only for the client whose request made the      *)
(* file, whatever other clients do in between.                             *)
ExclusiveMeansNew ==
  Returned /\ out.kind = "normal" /\ flags.creat /\ flags.excl =>
    /\ have_created
    /\ npi.io_fid # NoFid /\ fids[npi.io_fid] \notin Dirs
    /\ fids[npi.walk_fid] = fids[npi.io_fid]

=============================================================================
