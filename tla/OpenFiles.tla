----------------------------- MODULE OpenFiles -----------------------------
(***************************************************************************)
(* One node, from the fsys_getroot that makes it: its peropen, the protids *)
(* io_reauthenticate adds, the fids each of them owns on the server, the   *)
(* pager of its mappings, and the references that hold them together.      *)
(*                                                                         *)
(* Threads serve calls.  Every p9_rpc is one step, together with the local *)
(* code that follows it; calls of other threads act in between.  io_read,  *)
(* io_write, dir_readdir and io_map hold the node lock throughout; the     *)
(* others do not take it.  The port of a protid keeps it alive while a     *)
(* call uses it, and p9_release_protid runs when clients have dropped it.  *)
(* A fid on the server (external) is a set of open modes, empty until it   *)
(* is opened; any request but a clunk may be refused.                      *)
(***************************************************************************)
EXTENDS Naturals, FiniteSets

CONSTANTS
  Threads, Protids,
  Versions,       \* the protocol versions negotiated: "core", "L"
  ReadOnly,       \* the values of the option p9_readonly
  SyncOverlaps,   \* may a client call file_sync during other I/O calls on the same port?
  Overreports,    \* may the server say it wrote more bytes than it was sent?
  MaxCalls        \* how many calls are made

ASSUME VersionsAssumption == Versions \subseteq {"core", "L"} /\ ReadOnly \subseteq BOOLEAN
ASSUME OverlapAssumption == SyncOverlaps \in BOOLEAN /\ Overreports \in BOOLEAN
ASSUME CallsAssumption == MaxCalls \in Nat
ASSUME ProtidsAssumption == IsFiniteSet(Protids)

None == "none"
Stuck == "stuck"   \* the holder of a lock that no call will release
ASSUME NoneAssumption == {None, Stuck} \cap (Threads \cup Protids) = {}
NoFid == 0
Modes == {"read", "write"}

(* Calls that do I/O through a fid of their protid's own, under the lock;  *)
(* calls that name the walk fid or a temporary one, without it.            *)
IoOps == {"read", "write", "readdir"}
WalkOps == {"stat", "mkdir", "rmdir", "unlink", "rename"}
Removals == {"rmdir", "unlink"}
Ops == IoOps \cup WalkOps \cup {"getroot", "reauth", "sync", "map", "page", "release", "none"}

VARIABLES
  p9_version, p9_readonly,
  calls,
  pc, op,
  pi,                \* the protid a thread's call is on
  new_pi,            \* the one io_reauthenticate is making
  mode,              \* core_mode or l_flags in p9_ensure_open
  tmp,               \* a fid the call will not keep
  port,              \* of each protid: "none", "making", "open", "dropped" by its
                     \* clients, or "orphan": made, but never put in the port set
  walk_fid, io_fid, server_open_flags,
  user_open_flags, po_refs,      \* the peropen
  hard, weak, lock,              \* the node: its refcounts and its lock
  pager, pager_fid,
  fids,              \* the server's: live fid -> modes it is open for
  next_fid,
  aborted            \* an assertion has failed

server == <<fids, next_fid>>
protids == <<port, walk_fid, io_fid, server_open_flags>>
node == <<user_open_flags, po_refs, hard, weak>>
fixed == <<p9_version, p9_readonly>>
thread == <<pc, op, pi, new_pi, tmp, mode>>
vars == <<fixed, calls, thread, protids, node, lock, pager, pager_fid, server, aborted>>

Init ==
  /\ p9_version \in Versions /\ p9_readonly \in ReadOnly
  /\ calls = 0
  /\ pc = [t \in Threads |-> "idle"] /\ op = [t \in Threads |-> "none"]
  /\ pi = [t \in Threads |-> None] /\ new_pi = [t \in Threads |-> None]
  /\ mode = [t \in Threads |-> {}] /\ tmp = [t \in Threads |-> NoFid]
  /\ port = [p \in Protids |-> "none"]
  /\ walk_fid = [p \in Protids |-> NoFid] /\ io_fid = [p \in Protids |-> NoFid]
  /\ server_open_flags = [p \in Protids |-> {}]
  /\ user_open_flags = {} /\ po_refs = 0 /\ hard = 0 /\ weak = 0 /\ lock = None
  /\ pager = FALSE /\ pager_fid = NoFid
  /\ fids = [f \in {} |-> {}] /\ next_fid = 0
  /\ aborted = FALSE

(***************************************************************************)
(* The server, and fids.                                                   *)
(***************************************************************************)
p9_fid_alloc == next_fid + 1
With(f, modes) == fids' = [g \in DOMAIN fids \cup {f} |-> IF g = f THEN modes ELSE fids[g]]
Without(f) == fids' = [g \in DOMAIN fids \ {f} |-> fids[g]]

(***************************************************************************)
(* Calls: how they begin and end.                                          *)
(***************************************************************************)
Using(p) == {t \in Threads : pi[t] = p}

(* Unless SyncOverlaps, a client waits for file_sync to return.            *)
Overlapping(p, o) ==
  \E t \in Using(p) : \/ o = "sync" /\ op[t] \in IoOps \cup {"sync"}
                      \/ o \in IoOps /\ op[t] = "sync"

Idle(t) == ~aborted /\ pc[t] = "idle"
At(t, label) == ~aborted /\ pc[t] = label

Start(t, o, p, label) ==
  /\ Idle(t)
  /\ pc' = [pc EXCEPT ![t] = label] /\ op' = [op EXCEPT ![t] = o] /\ pi' = [pi EXCEPT ![t] = p]
  /\ UNCHANGED <<fixed, tmp, mode, aborted>>

(* A call a client makes.                                                  *)
Call(t, o, p, label) == Start(t, o, p, label) /\ calls < MaxCalls /\ calls' = calls + 1

Goto(t, label) ==
  pc' = [pc EXCEPT ![t] = label] /\ UNCHANGED <<fixed, calls, op, pi, new_pi, aborted>>

Finish(t) ==
  /\ pc' = [pc EXCEPT ![t] = "idle"] /\ op' = [op EXCEPT ![t] = "none"]
  /\ pi' = [pi EXCEPT ![t] = None] /\ new_pi' = [new_pi EXCEPT ![t] = None]
  /\ UNCHANGED <<fixed, calls, aborted>>

(* The end of a call that may hold the lock: "out".                        *)
ReturnNotOut(t) == Finish(t) /\ UNCHANGED lock
Return(t) == Finish(t) /\ lock' = (IF lock = t THEN None ELSE lock)

(* io_write, told of more than it sent, returns EIO from where it is.      *)
ReturnLocked(t) == Overreports /\ op[t] = "write" /\ Finish(t) /\ lock' = Stuck

(* A call that does I/O starts by waiting for the lock.                    *)
BeginIo(t, p, o) ==
  /\ port[p] = "open"
  /\ SyncOverlaps \/ ~Overlapping(p, o)
  /\ o = "read" => "read" \in user_open_flags
  /\ o = "write" => "write" \in user_open_flags /\ ~p9_readonly
  /\ Call(t, o, p, "lock")
  /\ UNCHANGED <<new_pi, protids, node, lock, pager, pager_fid, server>>

(* file_sync in 9P2000.L opens the file for something unless it is open;   *)
(* in the core protocol it is a wstat of the walk fid.                     *)
BeginSync(t, p) ==
  /\ port[p] = "open" /\ ~p9_readonly
  /\ SyncOverlaps \/ ~Overlapping(p, "sync")
  /\ Call(t, "sync", p, IF p9_version = "core" THEN "direct"
                        ELSE IF server_open_flags[p] # {} THEN "use" ELSE "ensure")
  /\ UNCHANGED <<new_pi, protids, node, lock, pager, pager_fid, server>>

BeginMap(t, p) ==
  /\ port[p] = "open" /\ user_open_flags # {}
  /\ Call(t, "map", p, "lock")
  /\ UNCHANGED <<new_pi, protids, node, lock, pager, pager_fid, server>>

(* io_stat, file_chmod and the like, and the directory operations.  In the *)
(* core protocol all but rename start by walking a temporary fid.          *)
BeginWalkOp(t, p, o, label) ==
  /\ port[p] = "open"
  /\ Call(t, o, p, label)
  /\ UNCHANGED <<new_pi, protids, node, lock, pager, pager_fid, server>>

TmpInCore == IF p9_version = "core" THEN "tmp_walk" ELSE "direct"
io_stat(t, p) == BeginWalkOp(t, p, "stat", "direct")
dir_mkdir(t, p) == ~p9_readonly /\ BeginWalkOp(t, p, "mkdir", TmpInCore)
dir_rmdir(t, p) == ~p9_readonly /\ BeginWalkOp(t, p, "rmdir", TmpInCore)
dir_unlink(t, p) == ~p9_readonly /\ BeginWalkOp(t, p, "unlink", TmpInCore)
dir_rename(t, p) == ~p9_readonly /\ BeginWalkOp(t, p, "rename", "direct")

(* io_reauthenticate: a new protid of the same peropen.                    *)
RefPeropenForgotten == UNCHANGED po_refs
RefPeropen == po_refs' = po_refs + 1
BeginReauth(t, p, new) ==
  /\ port[p] = "open" /\ port[new] = "none"
  /\ Call(t, "reauth", p, "reauth_walk")
  /\ new_pi' = [new_pi EXCEPT ![t] = new]
  /\ port' = [port EXCEPT ![new] = "making"]
  /\ RefPeropen
  /\ UNCHANGED <<walk_fid, io_fid, server_open_flags, user_open_flags, hard, weak, lock,
                 pager, pager_fid, server>>

(* fsys_getroot: a node, referenced by the call and by a new peropen, and  *)
(* the peropen's first protid.                                             *)
p9_make_peropen == po_refs' = 1 /\ hard' = 2 /\ weak' = 0
BeginGetroot(t, p, flags) ==
  /\ hard = 0 /\ weak = 0 /\ ~(p9_readonly /\ "write" \in flags)
  /\ Call(t, "getroot", p, "attach")
  /\ port' = [port EXCEPT ![p] = "making"]
  /\ next_fid' = p9_fid_alloc
  /\ walk_fid' = [walk_fid EXCEPT ![p] = p9_fid_alloc]
  /\ user_open_flags' = flags
  /\ p9_make_peropen
  /\ UNCHANGED <<new_pi, io_fid, server_open_flags, lock, pager, pager_fid, fids>>

(* No memory for its peropen, or for its protid: only the node is left.    *)
GetrootNoMemory(t) ==
  /\ Idle(t) /\ hard = 0 /\ weak = 0
  /\ weak' = 1
  /\ UNCHANGED <<fixed, calls, thread, protids, user_open_flags, po_refs, hard, lock,
                 pager, pager_fid, server, aborted>>

(***************************************************************************)
(* The lock, and p9_ensure_open.                                           *)
(***************************************************************************)
(* dir_readdir with entries still buffered needs no request; otherwise it  *)
(* reads on through the I/O fid, or, to start again, forgets the flags so  *)
(* that p9_ensure_open makes a new one.                                    *)
Lock(t) ==
  /\ At(t, "lock") /\ lock = None
  /\ LET p == pi[t] IN
     \/ op[t] \in {"read", "write"} /\ Goto(t, "ensure") /\ lock' = t /\ UNCHANGED server_open_flags
     \/ op[t] = "map" /\ Goto(t, "map") /\ lock' = t /\ UNCHANGED server_open_flags
     \/ op[t] = "readdir" /\ Finish(t) /\ UNCHANGED <<lock, server_open_flags>>
     \/ /\ op[t] = "readdir" /\ io_fid[p] # NoFid
        /\ Goto(t, "use") /\ lock' = t /\ UNCHANGED server_open_flags
     \/ /\ op[t] = "readdir"
        /\ server_open_flags' = [server_open_flags EXCEPT ![p] = {}]
        /\ Goto(t, "ensure") /\ lock' = t
  /\ UNCHANGED <<tmp, mode, port, walk_fid, io_fid, node, pager, pager_fid, server>>

Want(t) == CASE op[t] = "getroot" -> user_open_flags
             [] op[t] = "write" -> {"write"}
             [] OTHER -> {"read"}

(* A call that cannot be open ends; the protid of a new root is released.  *)
EnsureFails(t) ==
  IF op[t] = "getroot" THEN Goto(t, "release_walk") /\ UNCHANGED lock ELSE Return(t)

(* "Check if it's already open with (at least) those flags."               *)
AnyFlags(p, flags) == flags = {} \/ server_open_flags[p] # {}
EnoughFlags(p, flags) == flags \subseteq server_open_flags[p]

EnsureOpen(t) ==
  /\ At(t, "ensure")
  /\ LET p == pi[t] IN
     IF EnoughFlags(p, Want(t)) THEN Goto(t, "use") /\ UNCHANGED <<lock, mode>>
     ELSE IF walk_fid[p] = NoFid THEN EnsureFails(t) /\ UNCHANGED mode
     ELSE /\ mode' = [mode EXCEPT ![t] = Want(t) \cup server_open_flags[p]]
          /\ Goto(t, IF io_fid[p] # NoFid THEN "ensure_clunk" ELSE "ensure_walk") /\ UNCHANGED lock
  /\ UNCHANGED <<tmp, protids, node, pager, pager_fid, server>>

(* "Close any existing I/O fid."                                           *)
Forget(p) ==
  /\ io_fid' = [io_fid EXCEPT ![p] = NoFid]
  /\ server_open_flags' = [server_open_flags EXCEPT ![p] = {}]

EnsureClunk(t) ==
  /\ At(t, "ensure_clunk")
  /\ Without(io_fid[pi[t]])
  /\ Forget(pi[t])
  /\ Goto(t, "ensure_walk")
  /\ UNCHANGED <<tmp, mode, port, walk_fid, node, lock, pager, pager_fid, next_fid>>

(* Duplicate the walk fid; the copy is the I/O fid before it is open.      *)
EnsureWalk(t) ==
  /\ At(t, "ensure_walk")
  /\ next_fid' = p9_fid_alloc
  /\ \/ /\ With(p9_fid_alloc, {})
        /\ io_fid' = [io_fid EXCEPT ![pi[t]] = p9_fid_alloc]
        /\ Goto(t, "ensure_open") /\ UNCHANGED <<lock, mode>>
     \/ /\ EnsureFails(t) /\ mode' = [mode EXCEPT ![t] = {}]
        /\ UNCHANGED <<fids, io_fid>>
  /\ UNCHANGED <<tmp, port, walk_fid, server_open_flags, node, pager, pager_fid>>

EnsureTopen(t) ==
  /\ At(t, "ensure_open")
  /\ mode' = [mode EXCEPT ![t] = {}]
  /\ LET p == pi[t] IN
     \/ /\ With(io_fid[p], mode[t])
        /\ server_open_flags' = [server_open_flags EXCEPT ![p] = @ \cup Want(t)]
        /\ Goto(t, "use") /\ UNCHANGED lock
     \/ EnsureFails(t) /\ UNCHANGED <<fids, server_open_flags>>
  /\ UNCHANGED <<tmp, port, walk_fid, io_fid, node, pager, pager_fid, next_fid>>

(* The request on the I/O fid: Tread, Twrite, Treaddir or Tfsync.  The     *)
(* blocks dir_readdir loads before its last one leave all of this as it    *)
(* is, with the lock held: they are stuttering steps at "use", and ReadDir *)
(* tells of which requests they end.                                       *)
Use(t) ==
  /\ At(t, "use") /\ op[t] # "getroot"
  /\ Return(t) \/ ReturnLocked(t)
  /\ UNCHANGED <<tmp, mode, protids, node, pager, pager_fid, server>>

(***************************************************************************)
(* fsys_getroot and io_reauthenticate.                                     *)
(***************************************************************************)
(* A refused attach made no fid: "Don't attempt to clunk" it.              *)
Attach(t) ==
  /\ At(t, "attach")
  /\ LET p == pi[t] IN
     \/ With(walk_fid[p], {}) /\ Goto(t, "ensure") /\ UNCHANGED walk_fid
     \/ walk_fid' = [walk_fid EXCEPT ![p] = NoFid] /\ Goto(t, "release_walk") /\ UNCHANGED fids
  /\ UNCHANGED <<tmp, mode, port, io_fid, server_open_flags, node, lock, pager, pager_fid, next_fid>>

(* The call's own reference to the node becomes a weak one that stays.     *)
p9_nrele == hard' = hard - 1 /\ weak' = weak + 1

GetrootDone(t) ==
  /\ At(t, "use") /\ op[t] = "getroot"
  /\ port' = [port EXCEPT ![pi[t]] = "open"]
  /\ p9_nrele
  /\ Finish(t)
  /\ UNCHANGED <<tmp, mode, walk_fid, io_fid, server_open_flags, user_open_flags, po_refs, lock,
                 pager, pager_fid, server>>

GetrootFailed(t) ==
  /\ At(t, "nrele")
  /\ p9_nrele
  /\ Finish(t)
  /\ UNCHANGED <<tmp, mode, protids, user_open_flags, po_refs, lock, pager, pager_fid, server>>

(* The new protid gets a copy of the walk fid and joins the port set; if   *)
(* that fails (or the rendezvous does) it is dropped without having joined *)
(* it, so that nobody hears when its senders are gone.                     *)
ReauthWalk(t) ==
  /\ At(t, "reauth_walk")
  /\ next_fid' = p9_fid_alloc
  /\ \/ /\ With(p9_fid_alloc, {})
        /\ walk_fid' = [walk_fid EXCEPT ![new_pi[t]] = p9_fid_alloc]
        /\ port' = [port EXCEPT ![new_pi[t]] = "open"]
     \/ /\ port' = [port EXCEPT ![new_pi[t]] = "orphan"]
        /\ UNCHANGED <<fids, walk_fid>>
  /\ Finish(t)
  /\ UNCHANGED <<tmp, mode, io_fid, server_open_flags, node, lock, pager, pager_fid>>

(***************************************************************************)
(* p9_release_protid and p9_release_peropen.                               *)
(***************************************************************************)
DropPort(p) ==
  /\ ~aborted /\ port[p] = "open"
  /\ port' = [port EXCEPT ![p] = "dropped"]
  /\ UNCHANGED <<fixed, calls, thread, walk_fid, io_fid, server_open_flags, node, lock,
                 pager, pager_fid, server, aborted>>

(* The last reference is gone: no client's, no call's.                     *)
UnusedIo(p) == \A t \in Using(p) : op[t] \notin IoOps
Unused(p) == Using(p) = {}

BeginRelease(t, p) ==
  /\ port[p] = "dropped" /\ Unused(p)
  /\ Start(t, "release", p, "release_walk")
  /\ port' = [port EXCEPT ![p] = "making"]
  /\ UNCHANGED <<calls, new_pi, walk_fid, io_fid, server_open_flags, node, lock,
                 pager, pager_fid, server>>

(* Each fid the protid has is clunked; its fields are not read again.      *)
ReleaseWalk(t) ==
  /\ At(t, "release_walk")
  /\ IF walk_fid[pi[t]] # NoFid THEN Without(walk_fid[pi[t]]) ELSE UNCHANGED fids
  /\ walk_fid' = [walk_fid EXCEPT ![pi[t]] = NoFid]
  /\ Goto(t, "release_io")
  /\ UNCHANGED <<tmp, mode, port, io_fid, server_open_flags, node, lock, pager, pager_fid, next_fid>>

ReleaseIo(t) ==
  /\ At(t, "release_io")
  /\ IF io_fid[pi[t]] # NoFid THEN Without(io_fid[pi[t]]) ELSE UNCHANGED fids
  /\ Forget(pi[t])
  /\ Goto(t, "release_peropen")
  /\ UNCHANGED <<tmp, mode, port, walk_fid, node, lock, pager, pager_fid, next_fid>>

ReleasePeropen(t) ==
  /\ At(t, "release_peropen")
  /\ po_refs' = po_refs - 1
  /\ port' = [port EXCEPT ![pi[t]] = "none"]
  /\ IF po_refs > 1 THEN Finish(t) ELSE Goto(t, "put")
  /\ UNCHANGED <<tmp, mode, walk_fid, io_fid, server_open_flags, user_open_flags, hard, weak, lock,
                 pager, pager_fid, server>>

(* Drop a reference with the lock held; a node without references keeps it.*)
p9_nput(t) ==
  /\ hard' = hard - 1 /\ UNCHANGED weak
  /\ lock' = IF hard - 1 = 0 /\ weak = 0 THEN t ELSE None

ReleaseNode(t) ==
  /\ At(t, "put") /\ lock = None
  /\ p9_nput(t)
  /\ IF op[t] = "getroot" THEN Goto(t, "nrele") ELSE Finish(t)
  /\ UNCHANGED <<tmp, mode, protids, user_open_flags, po_refs, pager, pager_fid, server>>

(***************************************************************************)
(* io_map, and the pager it makes.                                         *)
(***************************************************************************)
(* Without a pager the node must have no pager_fid: the code asserts it.   *)
MapAssertion == pager_fid = NoFid

Map(t) ==
  /\ At(t, "map")
  /\ \/ pager /\ Return(t) /\ UNCHANGED <<pager_fid, next_fid>>
     \/ /\ ~pager /\ MapAssertion
        /\ next_fid' = p9_fid_alloc /\ pager_fid' = p9_fid_alloc
        /\ Goto(t, "map_walk") /\ UNCHANGED lock
     \/ /\ ~pager /\ ~MapAssertion
        /\ aborted' = TRUE
        /\ UNCHANGED <<fixed, calls, pc, op, pi, new_pi, lock, pager_fid, next_fid>>
  /\ UNCHANGED <<tmp, mode, protids, node, pager, fids>>

MapWalk(t) ==
  /\ At(t, "map_walk")
  /\ \/ With(pager_fid, {}) /\ Goto(t, "map_open") /\ UNCHANGED lock
     \/ Return(t) /\ UNCHANGED fids
  /\ UNCHANGED <<tmp, mode, protids, node, pager, pager_fid, next_fid>>

MapTopen(t) ==
  /\ At(t, "map_open")
  /\ \/ With(pager_fid, {"read"}) /\ Goto(t, "map_create")
     \/ Goto(t, "map_clunk") /\ UNCHANGED fids
  /\ UNCHANGED <<tmp, mode, protids, node, lock, pager, pager_fid, next_fid>>

(* "Pager holds a strong reference to its node."                           *)
p9_nref_forgotten == UNCHANGED hard
p9_nref == hard' = hard + 1

MapCreate(t) ==
  /\ At(t, "map_create")
  /\ \/ pager' = TRUE /\ p9_nref /\ Return(t)
     \/ Goto(t, "map_clunk") /\ UNCHANGED <<pager, hard, lock>>
  /\ UNCHANGED <<tmp, mode, protids, user_open_flags, po_refs, weak, pager_fid, server>>

MapClunk(t) ==
  /\ At(t, "map_clunk")
  /\ Without(pager_fid)
  /\ pager_fid' = NoFid
  /\ Return(t)
  /\ UNCHANGED <<tmp, mode, protids, node, pager, next_fid>>

(* The kernel asks for a page; a worker reads it, without the lock.        *)
BeginPage(t) ==
  /\ pager
  /\ Call(t, "page", None, "page")
  /\ UNCHANGED <<new_pi, protids, node, lock, pager, pager_fid, server>>

pager_read_page(t) ==
  /\ At(t, "page")
  /\ Finish(t)
  /\ UNCHANGED <<tmp, mode, protids, node, lock, pager, pager_fid, server>>

(* The mappings are gone and no page is being read.                        *)
pager_dropweak(t) ==
  /\ Idle(t) /\ pager /\ lock = None /\ \A u \in Threads : op[u] # "page"
  /\ pager' = FALSE
  /\ p9_nput(t)
  /\ UNCHANGED <<fixed, calls, thread, protids, user_open_flags, po_refs, pager_fid, server, aborted>>

(***************************************************************************)
(* Calls on the walk fid, and the directory operations' temporary fids.    *)
(***************************************************************************)
(* One request; without unlinkat or renameat on the server another way is  *)
(* tried.                                                                  *)
Direct(t) ==
  /\ At(t, "direct")
  /\ \/ Finish(t)
     \/ p9_version = "L" /\ op[t] \in Removals \cup {"rename"} /\ Goto(t, "tmp_walk")
  /\ UNCHANGED <<tmp, mode, protids, node, lock, pager, pager_fid, server>>

TmpWalk(t) ==
  /\ At(t, "tmp_walk")
  /\ next_fid' = p9_fid_alloc
  /\ \/ /\ With(p9_fid_alloc, {})
        /\ tmp' = [tmp EXCEPT ![t] = p9_fid_alloc]
        /\ Goto(t, "tmp_use")
     \/ Finish(t) /\ UNCHANGED <<fids, tmp>>
  /\ UNCHANGED <<mode, protids, node, lock, pager, pager_fid>>

(* Tremove clunks the fid in either case; Tcreate and Trename leave it.    *)
AfterTmpDone(o) == "done"
AfterTmp(o) == IF o \in Removals THEN "done" ELSE "tmp_clunk"

TmpUse(t) ==
  /\ At(t, "tmp_use")
  /\ \/ op[t] \in Removals /\ Without(tmp[t])
     \/ op[t] = "mkdir" /\ With(tmp[t], {"read"})
     \/ op[t] \notin Removals /\ UNCHANGED fids
  /\ IF AfterTmp(op[t]) = "done" THEN Finish(t) /\ tmp' = [tmp EXCEPT ![t] = NoFid]
                                 ELSE Goto(t, "tmp_clunk") /\ UNCHANGED tmp
  /\ UNCHANGED <<mode, protids, node, lock, pager, pager_fid, next_fid>>

TmpClunk(t) ==
  /\ At(t, "tmp_clunk")
  /\ Without(tmp[t])
  /\ tmp' = [tmp EXCEPT ![t] = NoFid]
  /\ Finish(t)
  /\ UNCHANGED <<mode, protids, node, lock, pager, pager_fid, next_fid>>

(***************************************************************************)
(* The specification.                                                      *)
(***************************************************************************)
(* What a thread does once it has a call.                                  *)
Step(t) ==
  \/ Lock(t) \/ EnsureOpen(t) \/ EnsureClunk(t) \/ EnsureWalk(t) \/ EnsureTopen(t) \/ Use(t)
  \/ Attach(t) \/ GetrootDone(t) \/ GetrootFailed(t) \/ ReauthWalk(t)
  \/ ReleaseWalk(t) \/ ReleaseIo(t) \/ ReleasePeropen(t) \/ ReleaseNode(t)
  \/ Map(t) \/ MapWalk(t) \/ MapTopen(t) \/ MapCreate(t) \/ MapClunk(t) \/ pager_read_page(t)
  \/ Direct(t) \/ TmpWalk(t) \/ TmpUse(t) \/ TmpClunk(t)

Begin(t) ==
  \/ \E p \in Protids, flags \in SUBSET Modes : BeginGetroot(t, p, flags)
  \/ GetrootNoMemory(t)
  \/ \E p \in Protids, o \in IoOps : BeginIo(t, p, o)
  \/ \E p \in Protids : \/ io_stat(t, p) \/ dir_mkdir(t, p) \/ dir_rmdir(t, p)
                          \/ dir_unlink(t, p) \/ dir_rename(t, p)
  \/ \E p \in Protids : BeginSync(t, p) \/ BeginMap(t, p) \/ BeginRelease(t, p)
  \/ \E p, new \in Protids : BeginReauth(t, p, new)
  \/ BeginPage(t) \/ pager_dropweak(t)

Next == (\E t \in Threads : Step(t) \/ Begin(t)) \/ (\E p \in Protids : DropPort(p))

(* Every request is answered and every thread runs on.                     *)
Fairness == \A t \in Threads : WF_vars(Step(t))
Spec == Init /\ [][Next]_vars /\ Fairness

(***************************************************************************)
(* What is to hold.                                                        *)
(***************************************************************************)
Labels ==
  {"idle", "lock", "ensure", "ensure_clunk", "ensure_walk", "ensure_open", "use", "attach", "nrele",
   "reauth_walk", "release_walk", "release_io", "release_peropen", "put", "map", "map_walk",
   "map_open", "map_create", "map_clunk", "page", "direct", "tmp_walk", "tmp_use", "tmp_clunk"}

(* Every variable has its type; a reference count never falls below zero.  *)
TypeOK ==
  /\ p9_version \in {"core", "L"} /\ p9_readonly \in BOOLEAN /\ calls \in Nat
  /\ pc \in [Threads -> Labels] /\ op \in [Threads -> Ops]
  /\ pi \in [Threads -> Protids \cup {None}] /\ new_pi \in [Threads -> Protids \cup {None}]
  /\ tmp \in [Threads -> Nat] /\ mode \in [Threads -> SUBSET Modes]
  /\ port \in [Protids -> {"none", "making", "open", "dropped", "orphan"}]
  /\ walk_fid \in [Protids -> Nat] /\ io_fid \in [Protids -> Nat]
  /\ server_open_flags \in [Protids -> SUBSET Modes]
  /\ user_open_flags \in SUBSET Modes
  /\ po_refs \in Nat /\ hard \in Nat /\ weak \in Nat /\ lock \in Threads \cup {None, Stuck}
  /\ pager \in BOOLEAN /\ pager_fid \in Nat
  /\ DOMAIN fids \subseteq 1 .. next_fid /\ fids \in [DOMAIN fids -> SUBSET Modes]
  /\ next_fid \in Nat /\ aborted \in BOOLEAN

(* The fids the request a thread is about to send names.                   *)
Named(t) ==
  CASE pc[t] \in {"ensure_walk", "direct", "tmp_walk", "reauth_walk", "map_walk"} -> {walk_fid[pi[t]]}
    [] pc[t] \in {"ensure_clunk", "ensure_open"} -> {io_fid[pi[t]]}
    [] pc[t] = "use" /\ op[t] # "getroot" -> {io_fid[pi[t]]}
    [] pc[t] = "release_walk" -> {walk_fid[pi[t]]} \ {NoFid}
    [] pc[t] = "release_io" -> {io_fid[pi[t]]} \ {NoFid}
    [] pc[t] \in {"map_open", "map_clunk", "page"} -> {pager_fid}
    [] pc[t] \in {"tmp_use", "tmp_clunk"} -> {tmp[t]}
    [] OTHER -> {}

(* Whatever the interleaving, and whatever was refused before, a request   *)
(* names a fid that the server has: none that was clunked under it, and    *)
(* none that was never made (p9_ensure_open, p9_release_protid, io_map and *)
(* the directory operations).                                              *)
LiveFidsOnly == \A t \in Threads : Named(t) \subseteq DOMAIN fids

(* A read, write or fsync goes to a fid that is open for it at the server, *)
(* though other calls reopen, rewind and fail to open the file meanwhile   *)
(* (p9_ensure_open: server_open_flags promise no more than was opened).    *)
OpenForUse ==
  \A t \in Threads :
    pc[t] = "use" /\ op[t] \in {"read", "write", "sync"} =>
      IF op[t] = "sync" THEN fids[io_fid[pi[t]]] # {} ELSE Want(t) \subseteq fids[io_fid[pi[t]]]

(* The places that hold fids.                                              *)
Holders ==
  ({"walk", "io"} \X Protids) \cup ({"tmp"} \X Threads) \cup {<<"pager", None>>}
Held(h) == CASE h[1] = "walk" -> walk_fid[h[2]]
             [] h[1] = "io" -> io_fid[h[2]]
             [] h[1] = "tmp" -> tmp[h[2]]
             [] h[1] = "pager" -> pager_fid

(* Every fid of the server is held in exactly one place: none leaks on an  *)
(* error path, and none is clunked by two owners.                          *)
FidsOwned == \A f \in DOMAIN fids : \E h \in Holders : Held(h) = f /\ \A k \in Holders \ {h} : Held(k) # f

(* While there is a pager the kernel may ask for a page, even when all the *)
(* protids are closed: its fid is live and open for reading, and the node  *)
(* is referenced (io_map, pager_read_page).                                *)
PagerServes ==
  pager => pager_fid \in DOMAIN fids /\ "read" \in fids[pager_fid] /\ hard > 0

Count(b) == IF b THEN 1 ELSE 0

(* The peropen is referenced once by each protid, and the node by the      *)
(* peropen, by the pager and by the fsys_getroot in progress: it is not    *)
(* dropped while one of them is left, nor kept for a missing one.          *)
RefsExact ==
  /\ po_refs = Cardinality({p \in Protids : port[p] # "none"})
  /\ hard = Count(po_refs > 0 \/ \E t \in Threads : pc[t] = "put") + Count(pager)
              + Count(\E t \in Threads : op[t] = "getroot")

(* The node lock is held exactly by the call that does I/O on the node or  *)
(* maps it; every way out of the call, failures too, has released it, but  *)
(* for that of a write whose server tells of more bytes than it was sent   *)
(* (io_read, io_write, dir_readdir, io_map, p9_nput).                      *)
LockHeldByCall ==
  /\ \A t \in Threads : lock = t <=> op[t] \in IoOps \cup {"map"} /\ pc[t] # "lock"
  /\ lock = Stuck => Overreports

(* Every call returns, whatever was refused, unless an assertion stops the *)
(* program, or the call waits for the lock that a write has kept.          *)
StuckWaiting(t) == lock = Stuck /\ pc[t] \in {"lock", "put"}
CallsReturn == \A t \in Threads : pc[t] # "idle" ~> pc[t] = "idle" \/ aborted \/ StuckWaiting(t)

(* "assert_backtrace (np->pager_fid == P9_NO_FID)" holds in io_map.        *)
AssertionsHold == ~aborted
=============================================================================
