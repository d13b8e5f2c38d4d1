-------------------------- MODULE OpenFilesProofs ---------------------------
(***************************************************************************)
(* Proofs about OpenFiles, for any threads, any finite set of protids and  *)
(* any number of calls: who holds the ports, the node lock, references and *)
(* fids.                                                                   *)
(***************************************************************************)
EXTENDS OpenFiles, FiniteSetTheorems, TLAPS

IoPcs == {"ensure", "ensure_clunk", "ensure_walk", "ensure_open", "use"}
ReleasePcs == {"release_walk", "release_io", "release_peropen", "put"}
MapPcs == {"map", "map_walk", "map_open", "map_create", "map_clunk"}
TmpPcs == {"tmp_walk", "tmp_use", "tmp_clunk"}

(* Where a call may be.                                                    *)
Fits(label, o) ==
  /\ label = "idle" <=> o = "none"
  /\ label = "lock" => o \in IoOps \cup {"map"}
  /\ label \in IoPcs => o \in IoOps \cup {"sync", "getroot"}
  /\ label \in {"attach", "nrele"} => o = "getroot"
  /\ label \in ReleasePcs => o \in {"release", "getroot"}
  /\ label = "reauth_walk" => o = "reauth"
  /\ label \in MapPcs => o = "map"
  /\ label = "page" => o = "page"
  /\ label = "direct" => o \in WalkOps \cup {"sync"}
  /\ label \in TmpPcs => o \in WalkOps \ {"stat"}

(* Calls that clients make on a protid they have, and calls that make or   *)
(* unmake one, until they have.                                            *)
Clients == IoOps \cup WalkOps \cup {"sync", "map", "reauth"}
Making(t) == op[t] = "reauth" \/ (op[t] \in {"getroot", "release"} /\ pc[t] \notin {"put", "nrele"})
Made(t) == IF op[t] = "reauth" THEN new_pi[t] ELSE pi[t]

ControlTypes ==
  /\ pc \in [Threads -> Labels] /\ op \in [Threads -> Ops]
  /\ pi \in [Threads -> Protids \cup {None}] /\ new_pi \in [Threads -> Protids \cup {None}]
  /\ port \in [Protids -> {"none", "making", "open", "dropped", "orphan"}]
  /\ lock \in Threads \cup {None, Stuck} /\ pager \in BOOLEAN /\ weak \in Nat

(* A protid in use is not released, and one that is being made or unmade   *)
(* belongs to one call.                                                    *)
Ported ==
  /\ \A t \in Threads : op[t] \in Clients => pi[t] \in Protids /\ port[pi[t]] \in {"open", "dropped"}
  /\ \A t \in Threads : Making(t) => Made(t) \in Protids /\ port[Made(t)] = "making"
  /\ \A t, u \in Threads : Making(t) /\ Making(u) /\ Made(t) = Made(u) => t = u

Control ==
  /\ ControlTypes
  /\ \A t \in Threads : Fits(pc[t], op[t])
  /\ Ported
  /\ LockHeldByCall

(* Who holds references to the peropen and to the node.                    *)
Ports == {p \in Protids : port[p] # "none"}
Kept == po_refs > 0 \/ \E t \in Threads : pc[t] = "put"
Rooting == \E t \in Threads : op[t] = "getroot"

(* The last reference to the peropen is dropped once, while the call drops *)
(* the node's; fsys_getroot runs once, alone, and only during it does the  *)
(* node lack a weak reference; a mapping is made when there is no pager.   *)
Unique ==
  /\ \A t, u \in Threads : op[t] = "getroot" /\ op[u] = "getroot" => t = u
  /\ \A t, u \in Threads : pc[t] = "put" /\ pc[u] = "put" => t = u
  /\ \A t \in Threads : pc[t] = "put" => po_refs = 0
  /\ \A t \in Threads : op[t] = "getroot" /\ Making(t) => \A p \in Protids \ {pi[t]} : port[p] = "none"
  /\ hard > 0 /\ weak = 0 => Rooting
  /\ \A t \in Threads : op[t] = "page" => pager
  /\ \A t \in Threads : pc[t] \in MapPcs \ {"map"} => ~pager

Refs == RefsExact /\ Unique

Inv == Control /\ Refs

(***************************************************************************)
(* Counting.                                                               *)
(***************************************************************************)
LEMMA PortsFinite == IsFiniteSet(Ports) /\ Cardinality(Ports) \in Nat
<1>1. Ports \subseteq Protids
  BY DEF Ports
<1>2. IsFiniteSet(Ports)
  BY <1>1, ProtidsAssumption, FS_Subset
<1> QED
  BY <1>2, FS_CardinalityType

LEMMA PortsPositive ==
  ASSUME NEW p \in Protids, port[p] # "none"
  PROVE  Cardinality(Ports) > 0
<1>1. Ports # {}
  BY DEF Ports
<1>2. Cardinality(Ports) # 0
  BY <1>1, PortsFinite, FS_EmptySet
<1> QED
  BY <1>2, PortsFinite

LEMMA PortsSame ==
  ASSUME \A p \in Protids : port'[p] = "none" <=> port[p] = "none"
  PROVE  Cardinality(Ports') = Cardinality(Ports)
<1>1. Ports' = Ports
  BY DEF Ports
<1> QED
  BY <1>1

LEMMA PortsMore ==
  ASSUME NEW p \in Protids, port[p] = "none", DOMAIN port = Protids,
         port' = [port EXCEPT ![p] = "making"]
  PROVE  Cardinality(Ports') = Cardinality(Ports) + 1
<1>1. Ports' = Ports \cup {p} /\ p \notin Ports
  BY DEF Ports
<1> QED
  BY <1>1, PortsFinite, FS_AddElement

LEMMA PortsLess ==
  ASSUME NEW p \in Protids, port[p] # "none", DOMAIN port = Protids,
         port' = [port EXCEPT ![p] = "none"]
  PROVE  Cardinality(Ports') = Cardinality(Ports) - 1
<1>1. Ports' = Ports \ {p} /\ p \in Ports
  BY DEF Ports
<1> QED
  BY <1>1, PortsFinite, FS_RemoveElement

(* RefsExact, in terms of who holds references.                            *)
LEMMA RefsForm ==
  RefsExact <=> po_refs = Cardinality(Ports) /\ hard = Count(Kept) + Count(pager) + Count(Rooting)
BY DEF RefsExact, Ports, Kept, Rooting

LEMMA RefsKept ==
  ASSUME RefsExact, po_refs' = Cardinality(Ports'), hard' = hard, Kept' <=> Kept, pager' = pager, Rooting' <=> Rooting
  PROVE  RefsExact'
BY RefsForm DEF RefsExact, Ports, Kept, Rooting, Count

LEMMA RefsTypes ==
  ASSUME Refs PROVE po_refs \in Nat /\ hard \in Nat
BY RefsForm, PortsFinite DEF Refs, Count

LEMMA RefsLow ==
  ASSUME Refs, hard = 0
  PROVE  ~Kept /\ ~pager /\ ~Rooting /\ po_refs = 0 /\ \A p \in Protids : port[p] = "none"
<1>1. ~Kept /\ ~pager /\ ~Rooting
  BY RefsForm DEF Refs, Count
<1>2. po_refs = 0
  BY <1>1, RefsTypes DEF Kept
<1> QED
  BY <1>1, <1>2, PortsPositive, RefsForm DEF Refs

(***************************************************************************)
(* Control and references: steps that most actions take.                   *)
(***************************************************************************)
LEMMA InitInv == Init => Inv
<1> SUFFICES ASSUME Init PROVE Inv
  OBVIOUS
<1>1. ControlTypes
  BY DEF Init, ControlTypes, Labels, Ops
<1>2. \A t \in Threads : Fits(pc[t], op[t])
  BY DEF Init, Fits, IoPcs, ReleasePcs, MapPcs, TmpPcs
<1>3. Ported
  BY DEF Init, Ported, Clients, IoOps, WalkOps, Making
<1>4. LockHeldByCall
  BY NoneAssumption DEF Init, LockHeldByCall, IoOps, None, Stuck
<1>5. Ports = {} /\ ~Kept /\ ~pager /\ ~Rooting
  BY DEF Init, Ports, Kept, Rooting
<1>6. RefsExact
  BY <1>5, FS_EmptySet, RefsForm DEF Init, Count
<1>7. Unique
  BY DEF Init, Unique, MapPcs
<1> QED
  BY <1>1, <1>2, <1>3, <1>4, <1>6, <1>7 DEF Inv, Control, Refs

LEMMA Same ==
  ASSUME Inv, UNCHANGED <<pc, op, pi, new_pi, port, lock, po_refs, hard, weak, pager>>
  PROVE  Inv'
<1>1. Control'
  BY DEF Inv, Control, ControlTypes, Fits, Ported, Making, Made, LockHeldByCall
<1>2. RefsExact'
  BY DEF Inv, Refs, RefsExact
<1>3. Unique'
  BY DEF Inv, Refs, Unique, Making, Rooting
<1> QED
  BY <1>1, <1>2, <1>3 DEF Inv, Refs

(* A call moves on.                                                        *)
LEMMA Moves ==
  ASSUME Inv, NEW t \in Threads, NEW label \in Labels, Goto(t, label), Fits(label, op[t]),
         {pc[t], label} \cap {"idle", "lock", "put", "nrele"} = {},
         label \in MapPcs \ {"map"} => ~pager,
         UNCHANGED <<port, lock, po_refs, hard, weak, pager>>
  PROVE  Inv'
<1>1. /\ pc' \in [Threads -> Labels] /\ pc'[t] = label /\ \A u \in Threads \ {t} : pc'[u] = pc[u]
      /\ UNCHANGED <<op, pi, new_pi>>
  BY DEF Goto, Inv, Control, ControlTypes
<1>2. ControlTypes' /\ \A u \in Threads : Fits(pc[u], op[u])'
  BY <1>1 DEF Inv, Control, ControlTypes, Fits
<1>3. \A u \in Threads : (Making(u)' <=> Making(u)) /\ Made(u)' = Made(u)
  BY <1>1 DEF Making, Made
<1>4. Ported'
  BY <1>1, <1>3 DEF Inv, Control, Ported
<1>5. LockHeldByCall'
  BY <1>1 DEF Inv, Control, LockHeldByCall
<1>6. (Kept' <=> Kept) /\ (Rooting' <=> Rooting)
  BY <1>1 DEF Kept, Rooting
<1>7. RefsExact'
  BY <1>6, PortsSame, RefsForm, RefsKept DEF Inv, Refs
<1>8. Unique'
  BY <1>1, <1>3, <1>6 DEF Inv, Refs, Unique
<1> QED
  BY <1>2, <1>4, <1>5, <1>7, <1>8 DEF Inv, Control, Refs

(* A call returns that makes no protid, and gives back the lock it holds,  *)
(* if it does.                                                             *)
LEMMA Ends ==
  ASSUME Inv, NEW t \in Threads, Finish(t), op[t] \in (Clients \ {"reauth"}) \cup {"page"},
         lock' = (IF lock = t THEN None ELSE lock) \/ (lock = t /\ Overreports /\ lock' = Stuck),
         UNCHANGED <<port, po_refs, hard, weak, pager>>
  PROVE  Inv'
<1>1. /\ pc' \in [Threads -> Labels] /\ op' \in [Threads -> Ops]
      /\ pi' \in [Threads -> Protids \cup {None}] /\ new_pi' \in [Threads -> Protids \cup {None}]
      /\ pc'[t] = "idle" /\ op'[t] = "none"
      /\ \A u \in Threads \ {t} : pc'[u] = pc[u] /\ op'[u] = op[u] /\ pi'[u] = pi[u] /\ new_pi'[u] = new_pi[u]
  BY DEF Finish, Inv, Control, ControlTypes, Labels, Ops
<1>2. ControlTypes' /\ \A u \in Threads : Fits(pc[u], op[u])'
  BY <1>1 DEF Inv, Control, ControlTypes, Fits, IoPcs, ReleasePcs, MapPcs, TmpPcs
<1>3. /\ ~Making(t) /\ ~Making(t)' /\ op[t] # "getroot" /\ pc[t] # "put" /\ op'[t] \notin Clients
      /\ \A u \in Threads \ {t} : (Making(u)' <=> Making(u)) /\ Made(u)' = Made(u)
  BY <1>1 DEF Making, Made, Clients, IoOps, WalkOps, Inv, Control, Fits, ReleasePcs
<1>4. Ported'
  BY <1>1, <1>3 DEF Inv, Control, Ported
<1>5. LockHeldByCall'
  BY <1>1, NoneAssumption DEF Inv, Control, LockHeldByCall, IoOps, Stuck, None
<1>6. (Kept' <=> Kept) /\ (Rooting' <=> Rooting)
  BY <1>1, <1>3 DEF Kept, Rooting
<1>7. RefsExact'
  BY <1>6, PortsSame, RefsForm, RefsKept DEF Inv, Refs
<1>8. Unique'
  BY <1>1, <1>3, <1>6 DEF Inv, Refs, Unique, MapPcs
<1> QED
  BY <1>2, <1>4, <1>5, <1>7, <1>8 DEF Inv, Control, Refs

(* A client calls.                                                         *)
LEMMA Calls ==
  ASSUME Inv, NEW t \in Threads, NEW p \in Protids, NEW o \in Clients \ {"reauth"}, NEW label \in Labels,
         Start(t, o, p, label), port[p] = "open", Fits(label, o), label \notin MapPcs,
         o \in IoOps \cup {"map"} => label = "lock",
         UNCHANGED <<new_pi, port, lock, po_refs, hard, weak, pager>>
  PROVE  Inv'
<1>1. /\ pc' \in [Threads -> Labels] /\ op' \in [Threads -> Ops] /\ pi' \in [Threads -> Protids \cup {None}]
      /\ pc'[t] = label /\ op'[t] = o /\ pi'[t] = p /\ pc[t] = "idle"
      /\ \A u \in Threads \ {t} : pc'[u] = pc[u] /\ op'[u] = op[u] /\ pi'[u] = pi[u]
  BY DEF Start, Idle, Inv, Control, ControlTypes, Ops, Clients
<1>2. ControlTypes' /\ \A u \in Threads : Fits(pc[u], op[u])'
  BY <1>1 DEF Inv, Control, ControlTypes, Fits
<1>3. /\ op[t] = "none" /\ ~Making(t) /\ ~Making(t)' /\ o # "getroot" /\ o # "page" /\ pc'[t] # "put"
      /\ \A u \in Threads \ {t} : (Making(u)' <=> Making(u)) /\ Made(u)' = Made(u)
  BY <1>1 DEF Making, Made, Clients, IoOps, WalkOps, Inv, Control, Fits, ReleasePcs
<1>4. Ported'
  BY <1>1, <1>3 DEF Inv, Control, Ported
<1>5. LockHeldByCall'
  BY <1>1, <1>3 DEF Inv, Control, LockHeldByCall, IoOps
<1>6. (Kept' <=> Kept) /\ (Rooting' <=> Rooting)
  BY <1>1, <1>3 DEF Kept, Rooting
<1>7. RefsExact'
  BY <1>6, PortsSame, RefsForm, RefsKept DEF Inv, Refs
<1>8. Unique'
  BY <1>1, <1>3, <1>6 DEF Inv, Refs, Unique, MapPcs
<1> QED
  BY <1>2, <1>4, <1>5, <1>7, <1>8 DEF Inv, Control, Refs

(***************************************************************************)
(* Control and references: the actions of calls on a protid.               *)
(***************************************************************************)
LEMMA BeginCallStep ==
  ASSUME Inv, NEW t \in Threads, NEW p \in Protids,
         \/ \E o \in IoOps : BeginIo(t, p, o)
         \/ io_stat(t, p) \/ dir_mkdir(t, p) \/ dir_rmdir(t, p) \/ dir_unlink(t, p) \/ dir_rename(t, p)
         \/ BeginSync(t, p) \/ BeginMap(t, p)
  PROVE  Inv'
<1>1. port[p] = "open" /\ UNCHANGED <<new_pi, port, lock, po_refs, hard, weak, pager>>
  BY DEF BeginIo, io_stat, dir_mkdir, dir_rmdir, dir_unlink, dir_rename, BeginWalkOp, BeginSync, BeginMap,
     protids, node
<1>2. ASSUME NEW o \in IoOps \cup {"map"}, Start(t, o, p, "lock") PROVE Inv'
  <2>1. Fits("lock", o) /\ "lock" \in Labels \ MapPcs /\ o \in Clients \ {"reauth"}
    BY DEF Fits, Labels, IoOps, Clients, IoPcs, ReleasePcs, MapPcs, TmpPcs
  <2> QED
    BY <1>1, <1>2, <2>1, Calls
<1>3. ASSUME NEW label \in {"use", "ensure", "direct"}, Start(t, "sync", p, label) PROVE Inv'
  <2>1. Fits(label, "sync") /\ label \in Labels \ MapPcs /\ "sync" \in Clients \ {"reauth"}
    BY DEF Fits, Labels, Clients, IoPcs, ReleasePcs, MapPcs, TmpPcs
  <2> QED
    BY <1>1, <1>3, <2>1, Calls DEF IoOps
<1>4. ASSUME NEW o \in WalkOps, NEW label \in {"direct", "tmp_walk"}, o = "stat" => label = "direct",
             Start(t, o, p, label)
      PROVE  Inv'
  <2>1. Fits(label, o) /\ label \in Labels \ MapPcs /\ o \in Clients \ {"reauth"} /\ o \notin IoOps \cup {"map"}
    BY <1>4 DEF Fits, Labels, IoOps, WalkOps, Clients, IoPcs, ReleasePcs, MapPcs, TmpPcs
  <2> QED
    BY <1>1, <1>4, <2>1, Calls
<1>5. CASE (\E o \in IoOps : BeginIo(t, p, o)) \/ BeginMap(t, p)
  BY <1>2, <1>5 DEF BeginIo, BeginMap, Call
<1>6. CASE BeginSync(t, p)
  <2> DEFINE label == IF p9_version = "core" THEN "direct"
                      ELSE IF server_open_flags[p] # {} THEN "use" ELSE "ensure"
  <2>1. label \in {"use", "ensure", "direct"}
    OBVIOUS
  <2>2. Start(t, "sync", p, label)
    BY <1>6 DEF BeginSync, Call
  <2> HIDE DEF label
  <2> QED
    BY <1>3, <2>1, <2>2
<1>7. CASE io_stat(t, p) \/ dir_mkdir(t, p) \/ dir_rmdir(t, p) \/ dir_unlink(t, p) \/ dir_rename(t, p)
  BY <1>4, <1>7 DEF io_stat, dir_mkdir, dir_rmdir, dir_unlink, dir_rename, BeginWalkOp, TmpInCore, Call, WalkOps
<1> QED
  BY <1>5, <1>6, <1>7

LEMMA LockStep ==
  ASSUME Inv, NEW t \in Threads, Lock(t)
  PROVE  Inv'
<1>1. pc[t] = "lock" /\ lock = None /\ UNCHANGED <<port, po_refs, hard, weak, pager>>
  BY DEF Lock, At, node
<1>2. op[t] \in IoOps \cup {"map"}
  BY <1>1 DEF Inv, Control, Fits
<1>3. CASE Finish(t) /\ UNCHANGED lock
  BY <1>1, <1>2, <1>3, Ends, NoneAssumption DEF Clients, IoOps
<1>4. ASSUME NEW label \in {"ensure", "use", "map"}, Goto(t, label), lock' = t, label = "map" <=> op[t] = "map"
      PROVE  Inv'
  <2>1. /\ pc' \in [Threads -> Labels] /\ pc'[t] = label /\ \A u \in Threads \ {t} : pc'[u] = pc[u]
        /\ UNCHANGED <<op, pi, new_pi>>
    BY <1>4 DEF Goto, Inv, Control, ControlTypes, Labels
  <2>2. ControlTypes'
    BY <1>1, <1>4, <2>1 DEF Inv, Control, ControlTypes
  <2>3. \A u \in Threads : Fits(pc[u], op[u])'
    BY <1>2, <1>4, <2>1 DEF Inv, Control, Fits, IoOps, IoPcs, ReleasePcs, MapPcs, TmpPcs
  <2>4. \A u \in Threads : (Making(u)' <=> Making(u)) /\ Made(u)' = Made(u)
    BY <1>2, <2>1 DEF Making, Made, IoOps
  <2>5. Ported'
    BY <1>1, <2>1, <2>4 DEF Inv, Control, Ported
  <2>6. LockHeldByCall'
    BY <1>1, <1>2, <1>4, <2>1, NoneAssumption DEF Inv, Control, LockHeldByCall
  <2>7. (Kept' <=> Kept) /\ (Rooting' <=> Rooting)
    BY <1>1, <1>4, <2>1 DEF Kept, Rooting
  <2>8. RefsExact'
    BY <1>1, <2>7, PortsSame, RefsForm, RefsKept DEF Inv, Refs
  <2>9. Unique'
    BY <1>1, <1>4, <2>1, <2>4, <2>7 DEF Inv, Refs, Unique, MapPcs
  <2> QED
    BY <2>2, <2>3, <2>5, <2>6, <2>8, <2>9 DEF Inv, Control, Refs
<1>5. \/ Finish(t) /\ UNCHANGED lock
      \/ Goto(t, "ensure") /\ lock' = t /\ op[t] # "map"
      \/ Goto(t, "use") /\ lock' = t /\ op[t] # "map"
      \/ Goto(t, "map") /\ lock' = t /\ op[t] = "map"
  BY DEF Lock
<1> QED
  BY <1>3, <1>4, <1>5

(* The steps of p9_ensure_open, and the request that follows.              *)
LEMMA EnsureStep ==
  ASSUME Inv, NEW t \in Threads,
         EnsureOpen(t) \/ EnsureClunk(t) \/ EnsureWalk(t) \/ EnsureTopen(t) \/ Use(t)
  PROVE  Inv'
<1>1. pc[t] \in IoPcs /\ UNCHANGED <<port, po_refs, hard, weak, pager>>
  BY DEF EnsureOpen, EnsureClunk, EnsureWalk, EnsureTopen, Use, At, IoPcs, protids, node
<1>2. op[t] \in IoOps \cup {"sync", "getroot"}
  BY <1>1 DEF Inv, Control, Fits
<1>3. \/ (Return(t) \/ (ReturnLocked(t) /\ pc[t] = "use")) /\ op[t] # "getroot"
      \/ Goto(t, "release_walk") /\ UNCHANGED lock /\ op[t] = "getroot"
      \/ \E label \in IoPcs : Goto(t, label) /\ UNCHANGED lock
  BY DEF EnsureOpen, EnsureClunk, EnsureWalk, EnsureTopen, Use, EnsureFails, IoPcs, At
<1>4. CASE (Return(t) \/ (ReturnLocked(t) /\ pc[t] = "use")) /\ op[t] # "getroot"
  <2>1. op[t] \in (Clients \ {"reauth"}) \cup {"page"} /\ Finish(t)
    BY <1>2, <1>4 DEF Return, ReturnLocked, Clients, IoOps
  <2>2. lock' = (IF lock = t THEN None ELSE lock) \/ (lock = t /\ Overreports /\ lock' = Stuck)
    BY <1>4 DEF Return, ReturnLocked, Inv, Control, LockHeldByCall, IoOps
  <2> QED
    BY <1>1, <2>1, <2>2, Ends
<1>5. CASE Goto(t, "release_walk") /\ UNCHANGED lock /\ op[t] = "getroot"
  <2>1. Fits("release_walk", op[t]) /\ "release_walk" \in Labels \ MapPcs
    BY <1>5 DEF Fits, Labels, IoPcs, ReleasePcs, MapPcs, TmpPcs
  <2>2. {pc[t], "release_walk"} \cap {"idle", "lock", "put", "nrele"} = {}
    BY <1>1 DEF IoPcs
  <2> QED
    BY <1>1, <1>5, <2>1, <2>2, Moves
<1>6. ASSUME NEW label \in IoPcs, Goto(t, label), UNCHANGED lock PROVE Inv'
  <2>1. Fits(label, op[t]) /\ label \in Labels /\ label \notin MapPcs
    BY <1>2 DEF Fits, Labels, IoOps, IoPcs, ReleasePcs, MapPcs, TmpPcs
  <2>2. {pc[t], label} \cap {"idle", "lock", "put", "nrele"} = {}
    BY <1>1 DEF IoPcs
  <2> QED
    BY <1>1, <1>6, <2>1, <2>2, Moves
<1> QED
  BY <1>3, <1>4, <1>5, <1>6

LEMMA WalkOpStep ==
  ASSUME Inv, NEW t \in Threads, Direct(t) \/ TmpWalk(t) \/ TmpUse(t) \/ TmpClunk(t)
  PROVE  Inv'
<1>1. pc[t] \in TmpPcs \cup {"direct"} /\ UNCHANGED <<port, lock, po_refs, hard, weak, pager>>
  BY DEF Direct, TmpWalk, TmpUse, TmpClunk, At, TmpPcs, protids, node
<1>2. op[t] \in WalkOps \cup {"sync"} /\ (pc[t] # "direct" => op[t] \in WalkOps \ {"stat"})
  BY <1>1 DEF Inv, Control, Fits
<1>3. \/ Finish(t)
      \/ \E label \in TmpPcs : Goto(t, label) /\ op[t] \in WalkOps \ {"stat"}
  BY <1>2 DEF Direct, TmpWalk, TmpUse, TmpClunk, At, TmpPcs, WalkOps, Removals
<1>4. CASE Finish(t)
  <2>1. lock # t /\ op[t] \in Clients \ {"reauth"}
    BY <1>2 DEF Inv, Control, LockHeldByCall, IoOps, WalkOps, Clients
  <2> QED
    BY <1>1, <1>4, <2>1, Ends
<1>5. ASSUME NEW label \in TmpPcs, Goto(t, label), op[t] \in WalkOps \ {"stat"} PROVE Inv'
  <2>1. Fits(label, op[t]) /\ label \in Labels /\ label \notin MapPcs
    BY <1>5 DEF Fits, Labels, WalkOps, IoPcs, ReleasePcs, MapPcs, TmpPcs
  <2>2. {pc[t], label} \cap {"idle", "lock", "put", "nrele"} = {}
    BY <1>1 DEF TmpPcs
  <2> QED
    BY <1>1, <1>5, <2>1, <2>2, Moves
<1> QED
  BY <1>3, <1>4, <1>5

LEMMA MapStep ==
  ASSUME Inv, NEW t \in Threads, Map(t) \/ MapWalk(t) \/ MapTopen(t) \/ MapClunk(t)
  PROVE  Inv'
<1>1. pc[t] \in MapPcs /\ UNCHANGED <<port, po_refs, hard, weak, pager>>
  BY DEF Map, MapWalk, MapTopen, MapClunk, At, MapPcs, protids, node
<1>2. op[t] = "map" /\ (pc[t] # "map" => ~pager)
  BY <1>1 DEF Inv, Control, Fits, Refs, Unique
<1>3. \/ Return(t)
      \/ ~pager /\ \E label \in MapPcs : Goto(t, label) /\ UNCHANGED lock
      \/ UNCHANGED <<pc, op, pi, new_pi, lock>>
  BY <1>2 DEF Map, MapWalk, MapTopen, MapClunk, At, MapPcs
<1>4. CASE Return(t)
  BY <1>1, <1>2, <1>4, Ends DEF Return, Clients
<1>5. ASSUME ~pager, NEW label \in MapPcs, Goto(t, label), UNCHANGED lock PROVE Inv'
  <2>1. Fits(label, op[t]) /\ label \in Labels
    BY <1>2 DEF Fits, Labels, IoPcs, ReleasePcs, MapPcs, TmpPcs
  <2>2. {pc[t], label} \cap {"idle", "lock", "put", "nrele"} = {}
    BY <1>1 DEF MapPcs
  <2> QED
    BY <1>1, <1>5, <2>1, <2>2, Moves
<1>6. CASE UNCHANGED <<pc, op, pi, new_pi, lock>>
  BY <1>1, <1>6, Same
<1> QED
  BY <1>3, <1>4, <1>5, <1>6

(***************************************************************************)
(* Control and references: the actions that make and drop references.      *)
(***************************************************************************)
(* What is left of the node's references when one is known.                *)
LEMMA HardCounts ==
  ASSUME Inv
  PROVE  /\ hard \in Nat /\ po_refs \in Nat /\ po_refs = Cardinality(Ports)
         /\ hard = Count(Kept) + Count(pager) + Count(Rooting)
BY RefsTypes, RefsForm DEF Inv, Refs

(* A step that moves no other thread.                                      *)
Only(t) ==
  /\ pc' \in [Threads -> Labels] /\ op' \in [Threads -> Ops]
  /\ pi' \in [Threads -> Protids \cup {None}] /\ new_pi' \in [Threads -> Protids \cup {None}]
  /\ \A u \in Threads \ {t} : /\ pc'[u] = pc[u] /\ op'[u] = op[u] /\ pi'[u] = pi[u] /\ new_pi'[u] = new_pi[u]
                              /\ (Making(u)' <=> Making(u)) /\ Made(u)' = Made(u)

LEMMA OnlyGoto ==
  ASSUME Inv, NEW t \in Threads, NEW label \in Labels, Goto(t, label)
  PROVE  Only(t) /\ pc'[t] = label /\ op'[t] = op[t] /\ pi'[t] = pi[t] /\ new_pi'[t] = new_pi[t]
BY DEF Goto, Only, Inv, Control, ControlTypes, Making, Made

LEMMA OnlyFinish ==
  ASSUME Inv, NEW t \in Threads, Finish(t)
  PROVE  Only(t) /\ pc'[t] = "idle" /\ op'[t] = "none"
<1>1. "idle" \in Labels /\ "none" \in Ops
  BY DEF Labels, Ops
<1> QED
  BY <1>1 DEF Finish, Only, Inv, Control, ControlTypes, Making, Made

LEMMA OnlyStart ==
  ASSUME Inv, NEW t \in Threads, NEW o \in Ops, NEW p \in Protids \cup {None}, NEW label \in Labels,
         Start(t, o, p, label), NEW q \in Protids \cup {None}, new_pi' = new_pi \/ new_pi' = [new_pi EXCEPT ![t] = q]
  PROVE  /\ Only(t) /\ pc'[t] = label /\ op'[t] = o /\ pi'[t] = p
         /\ pc[t] = "idle" /\ op[t] = "none"
BY DEF Start, Idle, Only, Inv, Control, ControlTypes, Making, Made, Fits

LEMMA BeginGetrootStep ==
  ASSUME Inv, NEW t \in Threads, NEW p \in Protids, NEW flags \in SUBSET Modes, BeginGetroot(t, p, flags)
  PROVE  Inv'
<1>1. /\ hard = 0 /\ weak = 0 /\ Start(t, "getroot", p, "attach") /\ port' = [port EXCEPT ![p] = "making"]
      /\ po_refs' = 1 /\ hard' = 2 /\ weak' = 0 /\ UNCHANGED <<new_pi, lock, pager>>
  BY DEF BeginGetroot, Call, p9_make_peropen
<1>2. ~Kept /\ ~pager /\ ~Rooting /\ po_refs = 0 /\ \A q \in Protids : port[q] = "none"
  BY <1>1, RefsLow DEF Inv
<1>3. "attach" \in Labels /\ "getroot" \in Ops
  BY DEF Labels, Ops
<1>4. Only(t) /\ pc'[t] = "attach" /\ op'[t] = "getroot" /\ pi'[t] = p /\ pc[t] = "idle" /\ op[t] = "none"
  BY <1>1, <1>3, OnlyStart
<1>5. \A u \in Threads : op[u] \in {"none", "release"} /\ ~Making(u) /\ op[u] # "page" /\ pc[u] # "put"
  <2>1. \A u \in Threads : op[u] \notin Clients /\ ~Making(u)
    BY <1>2 DEF Inv, Control, Ported
  <2>2. \A u \in Threads : op[u] # "getroot" /\ pc[u] # "put" /\ op[u] # "page"
    BY <1>2 DEF Rooting, Kept, Inv, Refs, Unique
  <2> QED
    BY <2>1, <2>2 DEF Inv, Control, ControlTypes, Ops, Clients
<1>6. /\ \A u \in Threads \ {t} : ~Making(u)' /\ op'[u] \notin Clients
      /\ Making(t)' /\ Made(t)' = p /\ op'[t] \notin Clients
  BY <1>4, <1>5 DEF Only, Making, Made, Clients, IoOps, WalkOps
<1>7. port' \in [Protids -> {"none", "making", "open", "dropped", "orphan"}]
      /\ port'[p] = "making" /\ \A q \in Protids \ {p} : port'[q] = "none"
  BY <1>1, <1>2 DEF Inv, Control, ControlTypes
<1>8. ControlTypes'
  BY <1>1, <1>4, <1>7 DEF Only, Inv, Control, ControlTypes
<1>9. \A u \in Threads : Fits(pc[u], op[u])'
  BY <1>4 DEF Only, Inv, Control, Fits, IoPcs, ReleasePcs, MapPcs, TmpPcs
<1>10. Ported'
  BY <1>6, <1>7 DEF Ported
<1>11. LockHeldByCall'
  BY <1>1, <1>4, NoneAssumption DEF Only, Inv, Control, LockHeldByCall, IoOps
<1>12. Cardinality(Ports') = 1
  <2>1. Cardinality(Ports) = 0 /\ DOMAIN port = Protids
    BY <1>2, HardCounts DEF Inv, Control, ControlTypes
  <2>2. Cardinality(Ports') = Cardinality(Ports) + 1
    BY <1>1, <1>2, <2>1, PortsMore
  <2> QED
    BY <2>1, <2>2
<1>13. Kept' /\ ~pager' /\ Rooting'
  BY <1>1, <1>2, <1>4 DEF Kept, Rooting
<1>14. RefsExact'
  BY <1>1, <1>12, <1>13 DEF RefsExact, Ports, Kept, Rooting, Count
<1>15. Unique'
  BY <1>1, <1>4, <1>5, <1>6, <1>7, <1>13 DEF Only, Unique, MapPcs, Inv, Refs
<1> QED
  BY <1>8, <1>9, <1>10, <1>11, <1>14, <1>15 DEF Inv, Control, Refs

(* The node that is left has a weak reference.                             *)
LEMMA GetrootNoMemoryStep ==
  ASSUME Inv, NEW t \in Threads, GetrootNoMemory(t)
  PROVE  Inv'
<1>1. UNCHANGED <<pc, op, pi, new_pi, port, lock, po_refs, hard, pager>> /\ weak' = 1
  BY DEF GetrootNoMemory, thread, protids
<1>2. Control'
  BY <1>1 DEF Inv, Control, ControlTypes, Fits, Ported, Making, Made, LockHeldByCall
<1>3. RefsExact'
  BY <1>1 DEF Inv, Refs, RefsExact
<1>4. Unique'
  BY <1>1 DEF Inv, Refs, Unique, Making, Rooting
<1> QED
  BY <1>2, <1>3, <1>4 DEF Inv, Refs

(* The references as they are when one call at most has moved.             *)
LEMMA AttachStep ==
  ASSUME Inv, NEW t \in Threads, Attach(t) \/ ReleaseWalk(t) \/ ReleaseIo(t)
  PROVE  Inv'
<1>1. /\ pc[t] \in {"attach", "release_walk", "release_io"}
      /\ UNCHANGED <<port, lock, po_refs, hard, weak, pager>>
  BY DEF Attach, ReleaseWalk, ReleaseIo, At, node
<1>2. \E label \in {"ensure", "release_walk", "release_io", "release_peropen"} :
        Goto(t, label) /\ (label = "ensure" => pc[t] = "attach")
  BY DEF Attach, ReleaseWalk, ReleaseIo, At
<1>3. PICK label \in {"ensure", "release_walk", "release_io", "release_peropen"} :
        Goto(t, label) /\ (label = "ensure" => pc[t] = "attach")
  BY <1>2
<1>4. op[t] \in {"getroot", "release"} /\ (pc[t] = "attach" => op[t] = "getroot")
  BY <1>1 DEF Inv, Control, Fits, ReleasePcs
<1>5. Fits(label, op[t]) /\ label \in Labels /\ label \notin MapPcs
  BY <1>3, <1>4 DEF Fits, Labels, IoPcs, ReleasePcs, MapPcs, TmpPcs
<1>6. {pc[t], label} \cap {"idle", "lock", "put", "nrele"} = {}
  BY <1>1
<1> QED
  BY <1>1, <1>3, <1>5, <1>6, Moves

(* A weak reference replaces that of fsys_getroot, which was alone.        *)
LEMMA GetrootEndStep ==
  ASSUME Inv, NEW t \in Threads, GetrootDone(t) \/ GetrootFailed(t)
  PROVE  Inv'
<1>1. /\ pc[t] \in {"use", "nrele"} /\ op[t] = "getroot" /\ Finish(t)
      /\ hard' = hard - 1 /\ weak' = weak + 1 /\ UNCHANGED <<po_refs, lock, pager>>
      /\ \/ pc[t] = "use" /\ port' = [port EXCEPT ![pi[t]] = "open"]
         \/ pc[t] = "nrele" /\ port' = port
  BY DEF GetrootDone, GetrootFailed, At, p9_nrele, protids, Inv, Control, Fits
<1>2. Only(t) /\ pc'[t] = "idle" /\ op'[t] = "none"
  BY <1>1, OnlyFinish
<1>3. /\ port' \in [Protids -> {"none", "making", "open", "dropped", "orphan"}]
      /\ \A q \in Protids : (port'[q] = "none" <=> port[q] = "none")
      /\ \A q \in Protids : port[q] = "making" /\ port'[q] # "making" => Making(t) /\ q = Made(t)
      /\ \A q \in Protids : port[q] \in {"open", "dropped"} => port'[q] = port[q]
  <2>1. CASE pc[t] = "nrele"
    BY <1>1, <2>1 DEF Inv, Control, ControlTypes
  <2>2. CASE pc[t] = "use"
    <3>1. Making(t) /\ Made(t) = pi[t] /\ pi[t] \in Protids /\ port[pi[t]] = "making"
      BY <1>1, <2>2 DEF Making, Made, Inv, Control, Ported
    <3> QED
      BY <1>1, <2>2, <3>1 DEF Inv, Control, ControlTypes
  <2> QED
    BY <1>1, <2>1, <2>2
<1>4. ControlTypes'
  BY <1>1, <1>2, <1>3 DEF Only, Inv, Control, ControlTypes
<1>5. \A u \in Threads : Fits(pc[u], op[u])'
  BY <1>2 DEF Only, Inv, Control, Fits, IoPcs, ReleasePcs, MapPcs, TmpPcs
<1>6. ~Making(t)' /\ op'[t] \notin Clients
  BY <1>2 DEF Making, Clients, IoOps, WalkOps
<1>7. Ported'
  BY <1>2, <1>3, <1>6 DEF Only, Inv, Control, Ported
<1>8. LockHeldByCall'
  BY <1>1, <1>2 DEF Only, Inv, Control, LockHeldByCall, IoOps
<1>9. Rooting /\ ~Rooting'
  BY <1>1, <1>2 DEF Rooting, Only, Inv, Refs, Unique
<1>10. Kept' <=> Kept
  BY <1>1, <1>2 DEF Kept, Only
<1>11. Cardinality(Ports') = Cardinality(Ports)
  BY <1>3, PortsSame
<1>12. RefsExact'
  <2>1. po_refs' = Cardinality(Ports') /\ hard' = Count(Kept') + Count(pager') + Count(Rooting')
    BY <1>1, <1>9, <1>10, <1>11, HardCounts DEF Count
  <2> QED
    BY <2>1 DEF RefsExact, Ports, Kept, Rooting, Count
<1>13. Unique'
  BY <1>1, <1>2, <1>9 DEF Only, Inv, Refs, Unique, MapPcs, Control, ControlTypes, Rooting
<1> QED
  BY <1>4, <1>5, <1>7, <1>8, <1>12, <1>13 DEF Inv, Control, Refs

(* A protid joins those that reference the peropen.                        *)
LEMMA BeginReauthStep ==
  ASSUME Inv, NEW t \in Threads, NEW p \in Protids, NEW new \in Protids, BeginReauth(t, p, new)
  PROVE  Inv'
<1>1. /\ port[p] = "open" /\ port[new] = "none" /\ Start(t, "reauth", p, "reauth_walk")
      /\ new_pi' = [new_pi EXCEPT ![t] = new] /\ port' = [port EXCEPT ![new] = "making"]
      /\ po_refs' = po_refs + 1 /\ UNCHANGED <<hard, weak, lock, pager>>
  BY DEF BeginReauth, Call, RefPeropen
<1>2. "reauth_walk" \in Labels /\ "reauth" \in Ops /\ p \in Protids \cup {None} /\ new \in Protids \cup {None}
  BY DEF Labels, Ops
<1>3. Only(t) /\ pc'[t] = "reauth_walk" /\ op'[t] = "reauth" /\ pi'[t] = p /\ pc[t] = "idle" /\ op[t] = "none"
  BY <1>1, <1>2 DEF Start, Idle, Only, Inv, Control, ControlTypes, Making, Made, Fits
<1>4. /\ Making(t)' /\ Made(t)' = new /\ ~Making(t)
  BY <1>1, <1>3 DEF Making, Made, Inv, Control, ControlTypes
<1>5. /\ port' \in [Protids -> {"none", "making", "open", "dropped", "orphan"}]
      /\ port'[new] = "making" /\ \A q \in Protids \ {new} : port'[q] = port[q]
  BY <1>1 DEF Inv, Control, ControlTypes
<1>6. ControlTypes'
  BY <1>1, <1>3, <1>5 DEF Only, Inv, Control, ControlTypes
<1>7. \A u \in Threads : Fits(pc[u], op[u])'
  BY <1>3 DEF Only, Inv, Control, Fits, IoPcs, ReleasePcs, MapPcs, TmpPcs
<1>8. Ported'
  BY <1>1, <1>3, <1>4, <1>5 DEF Only, Inv, Control, Ported
<1>9. LockHeldByCall'
  BY <1>1, <1>3 DEF Only, Inv, Control, LockHeldByCall, IoOps
<1>10. Cardinality(Ports') = Cardinality(Ports) + 1 /\ po_refs \in Nat /\ po_refs > 0
  <2>1. po_refs = Cardinality(Ports) /\ Cardinality(Ports) > 0 /\ po_refs \in Nat
    BY <1>1, HardCounts, PortsPositive
  <2> QED
    BY <1>1, <2>1, PortsMore DEF Inv, Control, ControlTypes
<1>11. Kept /\ Kept' /\ (Rooting' <=> Rooting)
  BY <1>1, <1>3, <1>10 DEF Kept, Rooting, Only
<1>12. RefsExact'
  BY <1>1, <1>10, <1>11, HardCounts, RefsKept DEF Inv, Refs
<1>13. \A u \in Threads : pc[u] # "put"
  BY <1>10 DEF Inv, Refs, Unique
<1>14. \A u \in Threads : ~(op[u] = "getroot" /\ Making(u))
  <2>1. ASSUME NEW u \in Threads, op[u] = "getroot", Making(u) PROVE FALSE
    <3>1. pi[u] \in Protids /\ port[pi[u]] = "making" /\ \A q \in Protids \ {pi[u]} : port[q] = "none"
      BY <2>1 DEF Inv, Control, Ported, Made, Refs, Unique
    <3> QED
      BY <1>1, <3>1
  <2> QED
    BY <2>1
<1>15. Unique'
  BY <1>1, <1>3, <1>11, <1>13, <1>14 DEF Only, Inv, Refs, Unique, MapPcs
<1> QED
  BY <1>6, <1>7, <1>8, <1>9, <1>12, <1>15 DEF Inv, Control, Refs

LEMMA ReauthWalkStep ==
  ASSUME Inv, NEW t \in Threads, ReauthWalk(t)
  PROVE  Inv'
<1>1. /\ pc[t] = "reauth_walk" /\ op[t] = "reauth" /\ Finish(t)
      /\ UNCHANGED <<po_refs, hard, weak, lock, pager>>
      /\ \E s \in {"open", "orphan"} : port' = [port EXCEPT ![new_pi[t]] = s]
  BY DEF ReauthWalk, At, node, Inv, Control, Fits
<1>2. Only(t) /\ pc'[t] = "idle" /\ op'[t] = "none"
  BY <1>1, OnlyFinish
<1>3. Making(t) /\ Made(t) = new_pi[t] /\ new_pi[t] \in Protids /\ port[new_pi[t]] = "making"
  BY <1>1 DEF Making, Made, Inv, Control, Ported
<1>4. /\ port' \in [Protids -> {"none", "making", "open", "dropped", "orphan"}]
      /\ \A q \in Protids : (port'[q] = "none" <=> port[q] = "none")
      /\ \A q \in Protids \ {new_pi[t]} : port'[q] = port[q]
  BY <1>1, <1>3 DEF Inv, Control, ControlTypes
<1>5. ControlTypes'
  BY <1>1, <1>2, <1>4 DEF Only, Inv, Control, ControlTypes
<1>6. \A u \in Threads : Fits(pc[u], op[u])'
  BY <1>2 DEF Only, Inv, Control, Fits, IoPcs, ReleasePcs, MapPcs, TmpPcs
<1>7. ~Making(t)' /\ op'[t] \notin Clients
  BY <1>2 DEF Making, Clients, IoOps, WalkOps
<1>8. Ported'
  BY <1>2, <1>3, <1>4, <1>7 DEF Only, Inv, Control, Ported
<1>9. LockHeldByCall'
  BY <1>1, <1>2 DEF Only, Inv, Control, LockHeldByCall, IoOps
<1>10. (Kept' <=> Kept) /\ (Rooting' <=> Rooting)
  BY <1>1, <1>2 DEF Kept, Rooting, Only
<1>11. RefsExact'
  BY <1>1, <1>4, <1>10, PortsSame, HardCounts, RefsKept DEF Inv, Refs
<1>12. Unique'
  BY <1>1, <1>2, <1>4, <1>10 DEF Only, Inv, Refs, Unique, MapPcs
<1> QED
  BY <1>5, <1>6, <1>8, <1>9, <1>11, <1>12 DEF Inv, Control, Refs

(* A protid that nobody uses is taken from those who would use it.         *)
LEMMA BeginReleaseStep ==
  ASSUME Inv, NEW t \in Threads, NEW p \in Protids, BeginRelease(t, p)
  PROVE  Inv'
<1>1. /\ port[p] = "dropped" /\ Start(t, "release", p, "release_walk") /\ port' = [port EXCEPT ![p] = "making"]
      /\ UNCHANGED <<new_pi, po_refs, hard, weak, lock, pager>> /\ \A u \in Threads : pi[u] # p
  BY DEF BeginRelease, node, Unused, Using
<1>2. "release_walk" \in Labels /\ "release" \in Ops
  BY DEF Labels, Ops
<1>3. Only(t) /\ pc'[t] = "release_walk" /\ op'[t] = "release" /\ pi'[t] = p /\ pc[t] = "idle" /\ op[t] = "none"
  BY <1>1, <1>2, OnlyStart
<1>4. Making(t)' /\ Made(t)' = p /\ op'[t] \notin Clients
  BY <1>3 DEF Making, Made, Clients, IoOps, WalkOps
<1>5. /\ port' \in [Protids -> {"none", "making", "open", "dropped", "orphan"}]
      /\ port'[p] = "making" /\ \A q \in Protids \ {p} : port'[q] = port[q]
      /\ \A q \in Protids : port'[q] = "none" <=> port[q] = "none"
  BY <1>1 DEF Inv, Control, ControlTypes
<1>6. ControlTypes'
  BY <1>1, <1>3, <1>5 DEF Only, Inv, Control, ControlTypes
<1>7. \A u \in Threads : Fits(pc[u], op[u])'
  BY <1>3 DEF Only, Inv, Control, Fits, IoPcs, ReleasePcs, MapPcs, TmpPcs
<1>8. \A u \in Threads : Making(u) => Made(u) # p
  BY <1>1 DEF Inv, Control, Ported
<1>9. Ported'
  BY <1>1, <1>3, <1>4, <1>5, <1>8 DEF Only, Inv, Control, Ported
<1>10. LockHeldByCall'
  BY <1>1, <1>3 DEF Only, Inv, Control, LockHeldByCall, IoOps
<1>11. (Kept' <=> Kept) /\ (Rooting' <=> Rooting)
  BY <1>1, <1>3 DEF Kept, Rooting, Only
<1>12. RefsExact'
  BY <1>1, <1>5, <1>11, PortsSame, HardCounts, RefsKept DEF Inv, Refs
<1>13. Unique'
  BY <1>1, <1>3, <1>5, <1>11 DEF Only, Inv, Refs, Unique, MapPcs
<1> QED
  BY <1>6, <1>7, <1>9, <1>10, <1>12, <1>13 DEF Inv, Control, Refs

(* The protid is gone; with the last one the peropen is too, and the call  *)
(* goes on to drop its reference to the node.                              *)
LEMMA ReleasePeropenStep ==
  ASSUME Inv, NEW t \in Threads, ReleasePeropen(t)
  PROVE  Inv'
<1>1. /\ pc[t] = "release_peropen" /\ op[t] \in {"release", "getroot"}
      /\ po_refs' = po_refs - 1 /\ port' = [port EXCEPT ![pi[t]] = "none"]
      /\ UNCHANGED <<hard, weak, lock, pager>>
  BY DEF ReleasePeropen, At, Inv, Control, Fits, ReleasePcs
<1>2. Making(t) /\ Made(t) = pi[t] /\ pi[t] \in Protids /\ port[pi[t]] = "making"
  BY <1>1 DEF Making, Made, Inv, Control, Ported
<1>3. /\ port' \in [Protids -> {"none", "making", "open", "dropped", "orphan"}]
      /\ port'[pi[t]] = "none" /\ \A q \in Protids \ {pi[t]} : port'[q] = port[q]
  BY <1>1, <1>2 DEF Inv, Control, ControlTypes
<1>4. /\ po_refs \in Nat /\ po_refs > 0 /\ po_refs = Cardinality(Ports)
      /\ Cardinality(Ports') = Cardinality(Ports) - 1
  <2>1. po_refs = Cardinality(Ports) /\ po_refs \in Nat
    BY HardCounts
  <2>2. Cardinality(Ports) > 0
    BY <1>2, PortsPositive
  <2>3. Cardinality(Ports') = Cardinality(Ports) - 1
    BY <1>1, <1>2, PortsLess DEF Inv, Control, ControlTypes
  <2> QED
    BY <2>1, <2>2, <2>3
<1>5. \A u \in Threads : pc[u] # "put"
  BY <1>4 DEF Inv, Refs, Unique
<1>6. Kept
  BY <1>4 DEF Kept
<1>7. po_refs > 1 => op[t] = "release"
  <2>1. ASSUME op[t] = "getroot" PROVE Cardinality(Ports) = 1
    <3>1. Ports = {pi[t]}
      BY <1>1, <1>2, <2>1 DEF Ports, Inv, Refs, Unique
    <3> QED
      BY <3>1, FS_Singleton
  <2> QED
    BY <1>1, <1>4, <2>1
<1>8. CASE po_refs > 1
  <2>1. Finish(t)
    BY <1>8 DEF ReleasePeropen
  <2>2. Only(t) /\ pc'[t] = "idle" /\ op'[t] = "none"
    BY <2>1, OnlyFinish
  <2>3. ControlTypes'
    BY <1>1, <1>3, <2>2 DEF Only, Inv, Control, ControlTypes
  <2>4. \A u \in Threads : Fits(pc[u], op[u])'
    BY <2>2 DEF Only, Inv, Control, Fits, IoPcs, ReleasePcs, MapPcs, TmpPcs
  <2>5. ~Making(t)' /\ op'[t] \notin Clients
    BY <2>2 DEF Making, Clients, IoOps, WalkOps
  <2>6. Ported'
    BY <1>2, <1>3, <2>2, <2>5 DEF Only, Inv, Control, Ported
  <2>7. LockHeldByCall'
    BY <1>1, <2>2 DEF Only, Inv, Control, LockHeldByCall, IoOps
  <2>8. Kept' /\ (Rooting' <=> Rooting)
    BY <1>1, <1>4, <1>7, <1>8, <2>2 DEF Kept, Rooting, Only
  <2>9. RefsExact'
    BY <1>1, <1>4, <1>6, <2>8, RefsKept DEF Inv, Refs
  <2>10. Unique'
    BY <1>1, <1>3, <1>5, <2>2, <2>8 DEF Only, Inv, Refs, Unique, MapPcs
  <2> QED
    BY <2>3, <2>4, <2>6, <2>7, <2>9, <2>10 DEF Inv, Control, Refs
<1>9. CASE ~(po_refs > 1)
  <2>1. Goto(t, "put") /\ "put" \in Labels
    BY <1>9 DEF ReleasePeropen, Labels
  <2>2. Only(t) /\ pc'[t] = "put" /\ op'[t] = op[t] /\ pi'[t] = pi[t]
    BY <2>1, OnlyGoto
  <2>3. ControlTypes'
    BY <1>1, <1>3, <2>2 DEF Only, Inv, Control, ControlTypes
  <2>4. \A u \in Threads : Fits(pc[u], op[u])'
    BY <1>1, <2>2 DEF Only, Inv, Control, Fits, IoPcs, ReleasePcs, MapPcs, TmpPcs
  <2>5. ~Making(t)' /\ op'[t] \notin Clients
    BY <1>1, <2>2 DEF Making, Clients, IoOps, WalkOps
  <2>6. Ported'
    BY <1>2, <1>3, <2>2, <2>5 DEF Only, Inv, Control, Ported
  <2>7. LockHeldByCall'
    BY <1>1, <2>2 DEF Only, Inv, Control, LockHeldByCall, IoOps
  <2>8. Kept' /\ (Rooting' <=> Rooting) /\ po_refs' = 0
    BY <1>1, <1>4, <1>9, <2>2 DEF Kept, Rooting, Only
  <2>9. RefsExact'
    BY <1>1, <1>4, <1>6, <2>8, RefsKept DEF Inv, Refs
  <2>10. \A u \in Threads : op'[u] = "getroot" /\ Making(u)' => \A q \in Protids \ {pi'[u]} : port'[q] = "none"
    BY <1>3, <2>2, <2>5 DEF Only, Inv, Refs, Unique
  <2>11. /\ \A u, v \in Threads : op'[u] = "getroot" /\ op'[v] = "getroot" => u = v
         /\ \A u, v \in Threads : pc'[u] = "put" /\ pc'[v] = "put" => u = v
         /\ \A u \in Threads : op'[u] = "page" => pager'
         /\ \A u \in Threads : pc'[u] \in MapPcs \ {"map"} => ~pager'
    BY <1>1, <1>5, <2>2 DEF Only, Inv, Refs, Unique, MapPcs
  <2>12. Unique'
    BY <1>1, <2>8, <2>10, <2>11 DEF Inv, Refs, Unique
  <2> QED
    BY <2>3, <2>4, <2>6, <2>7, <2>9, <2>12 DEF Inv, Control, Refs
<1> QED
  BY <1>8, <1>9

(* p9_nput of the last protid's call: during fsys_getroot its own          *)
(* reference is left, and after it the weak one.                           *)
LEMMA ReleaseNodeStep ==
  ASSUME Inv, NEW t \in Threads, ReleaseNode(t)
  PROVE  Inv'
<1>1. /\ pc[t] = "put" /\ op[t] \in {"release", "getroot"} /\ hard' = hard - 1
      /\ lock = None /\ lock' = (IF hard - 1 = 0 /\ weak = 0 THEN t ELSE None)
      /\ UNCHANGED <<port, po_refs, weak, pager>>
  BY DEF ReleaseNode, p9_nput, At, protids, Inv, Control, Fits, ReleasePcs
<1>2. /\ Kept /\ hard \in Nat /\ po_refs = 0 /\ po_refs = Cardinality(Ports)
      /\ hard = 1 + Count(pager) + Count(Rooting)
  BY <1>1, HardCounts DEF Kept, Count, Inv, Refs, Unique
<1>3. lock' = None
  BY <1>1, <1>2 DEF Count, Inv, Refs, Unique, Control, ControlTypes
<1>4. /\ Only(t) /\ op'[t] \in {"none", "getroot"} /\ (op'[t] = "getroot" <=> op[t] = "getroot")
      /\ pc'[t] = (IF op'[t] = "getroot" THEN "nrele" ELSE "idle")
  <2>1. CASE op[t] = "getroot"
    <3>1. Goto(t, "nrele") /\ "nrele" \in Labels
      BY <2>1 DEF ReleaseNode, Labels
    <3> QED
      BY <2>1, <3>1, OnlyGoto
  <2>2. CASE op[t] # "getroot"
    <3>1. Finish(t)
      BY <2>2 DEF ReleaseNode
    <3> QED
      BY <2>2, <3>1, OnlyFinish
  <2> QED
    BY <2>1, <2>2
<1>5. ControlTypes'
  BY <1>1, <1>3, <1>4 DEF Only, Inv, Control, ControlTypes
<1>6. \A u \in Threads : Fits(pc[u], op[u])'
  BY <1>4 DEF Only, Inv, Control, Fits, IoPcs, ReleasePcs, MapPcs, TmpPcs
<1>7. ~Making(t)' /\ op'[t] \notin Clients
  BY <1>4 DEF Making, Clients, IoOps, WalkOps
<1>8. Ported'
  BY <1>1, <1>4, <1>7 DEF Only, Inv, Control, Ported
<1>9. LockHeldByCall'
  BY <1>1, <1>3, <1>4 DEF Only, Inv, Control, LockHeldByCall, IoOps
<1>10. ~Kept' /\ (Rooting' <=> Rooting)
  <2>1. \A u \in Threads \ {t} : pc[u] # "put"
    BY <1>1 DEF Inv, Refs, Unique
  <2> QED
    BY <1>1, <1>2, <1>4, <2>1 DEF Kept, Rooting, Only
<1>11. RefsExact'
  <2>1. po_refs' = Cardinality(Ports') /\ hard' = Count(Kept') + Count(pager') + Count(Rooting')
    BY <1>1, <1>2, <1>10, PortsSame DEF Count
  <2> QED
    BY <2>1 DEF RefsExact, Ports, Kept, Rooting, Count
<1>12. Unique'
  BY <1>1, <1>2, <1>4, <1>7, <1>10 DEF Only, Inv, Refs, Unique, MapPcs
<1> QED
  BY <1>5, <1>6, <1>8, <1>9, <1>11, <1>12 DEF Inv, Control, Refs

(* The pager's reference, and its end.                                     *)
LEMMA MapCreateStep ==
  ASSUME Inv, NEW t \in Threads, MapCreate(t)
  PROVE  Inv'
<1>1. pc[t] = "map_create" /\ op[t] = "map" /\ ~pager /\ lock = t /\ UNCHANGED <<port, po_refs, weak>>
  BY DEF MapCreate, At, protids, Inv, Control, Fits, MapPcs, Refs, Unique, LockHeldByCall
<1>2. CASE Goto(t, "map_clunk") /\ UNCHANGED <<pager, hard, lock>>
  <2>1. Fits("map_clunk", op[t]) /\ "map_clunk" \in Labels
    BY <1>1 DEF Fits, Labels, IoPcs, ReleasePcs, MapPcs, TmpPcs
  <2>2. {pc[t], "map_clunk"} \cap {"idle", "lock", "put", "nrele"} = {}
    BY <1>1
  <2> QED
    BY <1>1, <1>2, <2>1, <2>2, Moves
<1>3. CASE pager' = TRUE /\ hard' = hard + 1 /\ Return(t)
  <2>1. Only(t) /\ pc'[t] = "idle" /\ op'[t] = "none" /\ lock' = None
    BY <1>1, <1>3, OnlyFinish DEF Return
  <2>2. ControlTypes'
    BY <1>1, <1>3, <2>1 DEF Only, Inv, Control, ControlTypes
  <2>3. \A u \in Threads : Fits(pc[u], op[u])'
    BY <2>1 DEF Only, Inv, Control, Fits, IoPcs, ReleasePcs, MapPcs, TmpPcs
  <2>4. ~Making(t) /\ ~Making(t)' /\ op'[t] \notin Clients
    BY <1>1, <2>1 DEF Making, Clients, IoOps, WalkOps
  <2>5. Ported'
    BY <1>1, <2>1, <2>4 DEF Only, Inv, Control, Ported
  <2>6. \A u \in Threads \ {t} : pc[u] \notin MapPcs
    BY <1>1 DEF Inv, Control, Fits, LockHeldByCall, MapPcs
  <2>7. LockHeldByCall'
    BY <1>1, <2>1, NoneAssumption DEF Only, Inv, Control, LockHeldByCall, IoOps, None, Stuck
  <2>8. (Kept' <=> Kept) /\ (Rooting' <=> Rooting)
    BY <1>1, <2>1 DEF Kept, Rooting, Only
  <2>9. RefsExact'
    <3>1. po_refs' = Cardinality(Ports') /\ hard' = Count(Kept') + Count(pager') + Count(Rooting')
      BY <1>1, <1>3, <2>8, HardCounts, PortsSame DEF Count
    <3> QED
      BY <3>1 DEF RefsExact, Ports, Kept, Rooting, Count
  <2>10. hard > 0
    <3>1. pi[t] \in Protids /\ port[pi[t]] # "none"
      BY <1>1 DEF Inv, Control, Ported, Clients
    <3>2. po_refs > 0
      BY <3>1, PortsPositive, HardCounts
    <3> QED
      BY <3>2, HardCounts DEF Kept, Count
  <2>11. Unique'
    BY <1>1, <1>3, <2>1, <2>4, <2>6, <2>8, <2>10 DEF Only, Inv, Refs, Unique, MapPcs
  <2> QED
    BY <2>2, <2>3, <2>5, <2>7, <2>9, <2>11 DEF Inv, Control, Refs
<1> QED
  BY <1>2, <1>3 DEF MapCreate, p9_nref

LEMMA BeginPageStep ==
  ASSUME Inv, NEW t \in Threads, BeginPage(t)
  PROVE  Inv'
<1>1. pager /\ Start(t, "page", None, "page") /\ UNCHANGED <<new_pi, port, po_refs, hard, weak, lock, pager>>
  BY DEF BeginPage, Call, protids, node
<1>2. "page" \in Labels /\ "page" \in Ops
  BY DEF Labels, Ops
<1>3. Only(t) /\ pc'[t] = "page" /\ op'[t] = "page" /\ pc[t] = "idle" /\ op[t] = "none"
  BY <1>1, <1>2, OnlyStart
<1>4. ControlTypes'
  BY <1>1, <1>3 DEF Only, Inv, Control, ControlTypes
<1>5. \A u \in Threads : Fits(pc[u], op[u])'
  BY <1>3 DEF Only, Inv, Control, Fits, IoPcs, ReleasePcs, MapPcs, TmpPcs
<1>6. ~Making(t)' /\ op'[t] \notin Clients
  BY <1>3 DEF Making, Clients, IoOps, WalkOps
<1>7. Ported'
  BY <1>1, <1>3, <1>6 DEF Only, Inv, Control, Ported
<1>8. LockHeldByCall'
  BY <1>1, <1>3 DEF Only, Inv, Control, LockHeldByCall, IoOps
<1>9. (Kept' <=> Kept) /\ (Rooting' <=> Rooting)
  BY <1>1, <1>3 DEF Kept, Rooting, Only
<1>10. RefsExact'
  BY <1>1, <1>9, PortsSame, HardCounts, RefsKept DEF Inv, Refs
<1>11. Unique'
  BY <1>1, <1>3, <1>6, <1>9 DEF Only, Inv, Refs, Unique, MapPcs
<1> QED
  BY <1>4, <1>5, <1>7, <1>8, <1>10, <1>11 DEF Inv, Control, Refs

LEMMA PageStep ==
  ASSUME Inv, NEW t \in Threads, pager_read_page(t)
  PROVE  Inv'
<1>1. op[t] = "page" /\ Finish(t) /\ UNCHANGED <<port, po_refs, hard, weak, lock, pager>>
  BY DEF pager_read_page, At, protids, node, Inv, Control, Fits
<1>2. lock # t
  BY <1>1 DEF Inv, Control, LockHeldByCall, IoOps
<1> QED
  BY <1>1, <1>2, Ends

LEMMA DropweakStep ==
  ASSUME Inv, NEW t \in Threads, pager_dropweak(t)
  PROVE  Inv'
<1>1. /\ pager /\ pager' = FALSE /\ hard' = hard - 1 /\ UNCHANGED <<pc, op, pi, new_pi, port, po_refs, weak>>
      /\ lock = None /\ lock' = (IF hard - 1 = 0 /\ weak = 0 THEN t ELSE None)
      /\ \A u \in Threads : op[u] # "page"
  BY DEF pager_dropweak, p9_nput, thread, protids
<1>2. hard = Count(Kept) + 1 + Count(Rooting) /\ hard \in Nat /\ po_refs = Cardinality(Ports)
  BY <1>1, HardCounts DEF Count
<1>3. lock' = None
  BY <1>1, <1>2 DEF Count, Inv, Refs, Unique, Control, ControlTypes
<1>4. Control'
  <2>1. lock' = lock /\ pager' \in BOOLEAN
    BY <1>1, <1>3
  <2>2. ControlTypes'
    BY <1>1, <2>1 DEF Inv, Control, ControlTypes
  <2>3. (\A u \in Threads : Fits(pc[u], op[u])') /\ Ported' /\ LockHeldByCall'
    BY <1>1, <2>1 DEF Inv, Control, Fits, Ported, Making, Made, LockHeldByCall
  <2> QED
    BY <2>2, <2>3 DEF Control
<1>5. (Kept' <=> Kept) /\ (Rooting' <=> Rooting) /\ \A u \in Threads : Making(u)' <=> Making(u)
  BY <1>1 DEF Kept, Rooting, Making
<1>6. RefsExact'
  <2>1. po_refs' = Cardinality(Ports') /\ hard' = Count(Kept') + Count(pager') + Count(Rooting')
    BY <1>1, <1>2, <1>5, PortsSame DEF Count
  <2> QED
    BY <2>1 DEF RefsExact, Ports, Kept, Rooting, Count
<1>7. Unique'
  BY <1>1, <1>2, <1>5 DEF Inv, Refs, Unique
<1> QED
  BY <1>4, <1>6, <1>7 DEF Inv, Refs

LEMMA DropPortStep ==
  ASSUME Inv, NEW p \in Protids, DropPort(p)
  PROVE  Inv'
<1>1. /\ port[p] = "open" /\ port' = [port EXCEPT ![p] = "dropped"]
      /\ UNCHANGED <<pc, op, pi, new_pi, po_refs, hard, weak, lock, pager>>
  BY DEF DropPort, thread, node
<1>2. /\ port' \in [Protids -> {"none", "making", "open", "dropped", "orphan"}]
      /\ \A q \in Protids : /\ port'[q] = "none" <=> port[q] = "none"
                            /\ port'[q] = "making" <=> port[q] = "making"
                            /\ port[q] \in {"open", "dropped"} => port'[q] \in {"open", "dropped"}
  BY <1>1 DEF Inv, Control, ControlTypes
<1>3. \A u \in Threads : (Making(u)' <=> Making(u)) /\ Made(u)' = Made(u)
  BY <1>1 DEF Making, Made
<1>4. Control'
  BY <1>1, <1>2, <1>3 DEF Inv, Control, ControlTypes, Fits, Ported, LockHeldByCall
<1>5. (Kept' <=> Kept) /\ (Rooting' <=> Rooting)
  BY <1>1 DEF Kept, Rooting
<1>6. RefsExact'
  BY <1>1, <1>2, <1>5, PortsSame, HardCounts, RefsKept DEF Inv, Refs
<1>7. Unique'
  BY <1>1, <1>2, <1>3, <1>5 DEF Inv, Refs, Unique
<1> QED
  BY <1>4, <1>6, <1>7 DEF Inv, Refs

LEMMA NextInv ==
  ASSUME Inv, [Next]_vars
  PROVE  Inv'
<1>1. CASE UNCHANGED vars
  BY <1>1, Same DEF vars, thread, protids, node
<1>2. ASSUME NEW t \in Threads, Step(t) PROVE Inv'
  BY <1>2, LockStep, EnsureStep, AttachStep, GetrootEndStep, ReauthWalkStep, ReleasePeropenStep, ReleaseNodeStep,
     MapStep, MapCreateStep, PageStep, WalkOpStep DEF Step
<1>3. ASSUME NEW t \in Threads, Begin(t) PROVE Inv'
  BY <1>3, BeginGetrootStep, GetrootNoMemoryStep, BeginCallStep, BeginReleaseStep, BeginReauthStep, BeginPageStep,
     DropweakStep DEF Begin
<1> QED
  BY <1>1, <1>2, <1>3, DropPortStep DEF Next

LEMMA InvHolds == Spec => []Inv
BY InitInv, NextInv, PTL DEF Spec

(* The peropen counts its protids, and the node its peropen, its pager and *)
(* the fsys_getroot in progress, however calls, failures and releases      *)
(* interleave (p9_release_protid, p9_release_peropen, io_reauthenticate,   *)
(* io_map, fsys_getroot).                                                  *)
THEOREM RefsCounted == Spec => []RefsExact
<1>1. Inv => RefsExact
  BY DEF Inv, Refs
<1> QED
  BY <1>1, InvHolds, PTL

(* The node lock is held by the one call that does I/O on the node or maps *)
(* it, and by nobody once that call has returned, whichever way it did, if *)
(* no server tells a write of more bytes than it was sent (io_read,        *)
(* io_write, dir_readdir, io_map, p9_nput).                                *)
THEOREM LockReleased == Spec => []LockHeldByCall
<1>1. Inv => LockHeldByCall
  BY DEF Inv, Control
<1> QED
  BY <1>1, InvHolds, PTL

(***************************************************************************)
(* Fids, provided that no client overlaps file_sync with other I/O on the  *)
(* same port.                                                              *)
(***************************************************************************)
FidTypes ==
  /\ tmp \in [Threads -> Nat] /\ mode \in [Threads -> SUBSET Modes]
  /\ walk_fid \in [Protids -> Nat] /\ io_fid \in [Protids -> Nat] /\ pager_fid \in Nat
  /\ server_open_flags \in [Protids -> SUBSET Modes] /\ user_open_flags \in SUBSET Modes
  /\ fids \in [DOMAIN fids -> SUBSET Modes] /\ next_fid \in Nat

(* Every fid that is held was allocated; no two places hold the same; all  *)
(* that the server has are held.                                           *)
Holdings ==
  /\ DOMAIN fids \subseteq 1 .. next_fid
  /\ \A h \in Holders : Held(h) \in 0 .. next_fid
  /\ \A h, k \in Holders : h # k /\ Held(h) = Held(k) => Held(h) = NoFid
  /\ \A f \in DOMAIN fids : \E h \in Holders : Held(h) = f

(* A protid that may be used has a fid to walk from; its fid for I/O is    *)
(* live, and open for what server_open_flags say.                          *)
Sound(p) ==
  /\ port[p] \in {"open", "dropped"} => walk_fid[p] \in DOMAIN fids
  /\ port[p] \in {"none", "orphan"} => walk_fid[p] = NoFid /\ io_fid[p] = NoFid
  /\ io_fid[p] # NoFid => io_fid[p] \in DOMAIN fids
  /\ server_open_flags[p] # {} => io_fid[p] # NoFid /\ server_open_flags[p] \subseteq fids[io_fid[p]]

(* What a call that makes or unmakes a protid has left of its fids.        *)
Makes(t) ==
  /\ pc[t] = "attach" => walk_fid[pi[t]] # NoFid /\ walk_fid[pi[t]] \notin DOMAIN fids
  /\ pc[t] \in IoPcs /\ op[t] = "getroot" => walk_fid[pi[t]] \in DOMAIN fids
  /\ pc[t] = "release_walk" => walk_fid[pi[t]] \in DOMAIN fids \cup {NoFid}
  /\ pc[t] \in {"release_io", "release_peropen"} => walk_fid[pi[t]] = NoFid
  /\ pc[t] = "release_peropen" => io_fid[pi[t]] = NoFid
  /\ op[t] = "reauth" => walk_fid[new_pi[t]] = NoFid /\ io_fid[new_pi[t]] = NoFid

(* Each step of p9_ensure_open finds the I/O fid as the last one left it.  *)
Opens(t) ==
  /\ pc[t] \in {"ensure_clunk", "ensure_open"} => io_fid[pi[t]] # NoFid
  /\ pc[t] = "ensure_walk" => io_fid[pi[t]] = NoFid
  /\ pc[t] \in {"ensure_walk", "ensure_open"} => server_open_flags[pi[t]] = {}
  /\ pc[t] \in {"ensure_clunk", "ensure_walk", "ensure_open"} => Want(t) \subseteq mode[t]
  /\ pc[t] = "use" /\ op[t] # "getroot" =>
       /\ io_fid[pi[t]] # NoFid
       /\ op[t] \in {"read", "write"} => Want(t) \subseteq server_open_flags[pi[t]]
       /\ op[t] = "sync" => server_open_flags[pi[t]] # {}

Temps(t) == IF pc[t] \in {"tmp_use", "tmp_clunk"} THEN tmp[t] \in DOMAIN fids ELSE tmp[t] = NoFid

Maps(t) ==
  /\ pc[t] = "map_walk" => pager_fid # NoFid
  /\ pc[t] \in {"map_open", "map_create", "map_clunk"} => pager_fid \in DOMAIN fids
  /\ pc[t] = "map_create" => "read" \in fids[pager_fid]

Paging == pager => pager_fid \in DOMAIN fids /\ "read" \in fids[pager_fid]

(* A client does not overlap file_sync with other I/O on the same port.    *)
Apart ==
  \A t, u \in Threads :
    t # u /\ op[t] = "sync" /\ op[u] \in IoOps \cup {"sync"} => pi[t] # pi[u]

Ready(t) == Makes(t) /\ Opens(t) /\ Temps(t) /\ Maps(t)

FidInv ==
  /\ FidTypes /\ Holdings /\ Apart /\ Paging
  /\ \A p \in Protids : Sound(p)
  /\ \A t \in Threads : Ready(t)

(***************************************************************************)
(* Places that hold fids.                                                  *)
(***************************************************************************)
LEMMA HeldWalk ==
  ASSUME NEW p \in Protids
  PROVE  <<"walk", p>> \in Holders /\ Held(<<"walk", p>>) = walk_fid[p]
BY DEF Holders, Held

LEMMA HeldIo ==
  ASSUME NEW p \in Protids
  PROVE  <<"io", p>> \in Holders /\ Held(<<"io", p>>) = io_fid[p]
BY DEF Holders, Held

LEMMA HeldTmp ==
  ASSUME NEW t \in Threads
  PROVE  <<"tmp", t>> \in Holders /\ Held(<<"tmp", t>>) = tmp[t]
BY DEF Holders, Held

LEMMA HeldPager == <<"pager", None>> \in Holders /\ Held(<<"pager", None>>) = pager_fid
BY DEF Holders, Held

LEMMA HolderKinds ==
  ASSUME NEW k \in Holders
  PROVE  \/ \E p \in Protids : k = <<"walk", p>> \/ k = <<"io", p>>
         \/ \E t \in Threads : k = <<"tmp", t>>
         \/ k = <<"pager", None>>
BY DEF Holders

(* A step that changes what one place holds.                               *)
Puts(h, f) == Held(h)' = f /\ \A k \in Holders \ {h} : Held(k)' = Held(k)

LEMMA PutsWalk ==
  ASSUME FidTypes, NEW p \in Protids, NEW f \in Nat, walk_fid' = [walk_fid EXCEPT ![p] = f],
         UNCHANGED <<io_fid, tmp, pager_fid>>
  PROVE  Puts(<<"walk", p>>, f)
<1>1. walk_fid'[p] = f /\ \A q \in Protids \ {p} : walk_fid'[q] = walk_fid[q]
  BY DEF FidTypes
<1>2. Held(<<"walk", p>>)' = f
  BY <1>1 DEF Held
<1>3. ASSUME NEW k \in Holders \ {<<"walk", p>>} PROVE Held(k)' = Held(k)
  <2>1. CASE \E q \in Protids : k = <<"walk", q>>
    BY <1>1, <1>3, <2>1 DEF Held
  <2>2. CASE ~\E q \in Protids : k = <<"walk", q>>
    BY <1>3, <2>2, HolderKinds DEF Held
  <2> QED
    BY <2>1, <2>2
<1> QED
  BY <1>2, <1>3 DEF Puts

LEMMA PutsIo ==
  ASSUME FidTypes, NEW p \in Protids, NEW f \in Nat, io_fid' = [io_fid EXCEPT ![p] = f],
         UNCHANGED <<walk_fid, tmp, pager_fid>>
  PROVE  Puts(<<"io", p>>, f)
<1>1. io_fid'[p] = f /\ \A q \in Protids \ {p} : io_fid'[q] = io_fid[q]
  BY DEF FidTypes
<1>2. Held(<<"io", p>>)' = f
  BY <1>1 DEF Held
<1>3. ASSUME NEW k \in Holders \ {<<"io", p>>} PROVE Held(k)' = Held(k)
  <2>1. CASE \E q \in Protids : k = <<"io", q>>
    BY <1>1, <1>3, <2>1 DEF Held
  <2>2. CASE ~\E q \in Protids : k = <<"io", q>>
    BY <1>3, <2>2, HolderKinds DEF Held
  <2> QED
    BY <2>1, <2>2
<1> QED
  BY <1>2, <1>3 DEF Puts

LEMMA PutsTmp ==
  ASSUME FidTypes, NEW t \in Threads, NEW f \in Nat, tmp' = [tmp EXCEPT ![t] = f],
         UNCHANGED <<walk_fid, io_fid, pager_fid>>
  PROVE  Puts(<<"tmp", t>>, f)
<1>1. tmp'[t] = f /\ \A u \in Threads \ {t} : tmp'[u] = tmp[u]
  BY DEF FidTypes
<1>2. Held(<<"tmp", t>>)' = f
  BY <1>1 DEF Held
<1>3. ASSUME NEW k \in Holders \ {<<"tmp", t>>} PROVE Held(k)' = Held(k)
  <2>1. CASE \E u \in Threads : k = <<"tmp", u>>
    BY <1>1, <1>3, <2>1 DEF Held
  <2>2. CASE ~\E u \in Threads : k = <<"tmp", u>>
    BY <1>3, <2>2, HolderKinds DEF Held
  <2> QED
    BY <2>1, <2>2
<1> QED
  BY <1>2, <1>3 DEF Puts

LEMMA PutsPager ==
  ASSUME UNCHANGED <<walk_fid, io_fid, tmp>>
  PROVE  Puts(<<"pager", None>>, pager_fid')
<1>1. ASSUME NEW k \in Holders \ {<<"pager", None>>} PROVE Held(k)' = Held(k)
  BY <1>1, HolderKinds DEF Held
<1> QED
  BY <1>1 DEF Puts, Held

(* The server's fids change in at most one place: f.                       *)
Server(f) ==
  \A g \in Nat \ {f} : (g \in DOMAIN fids' <=> g \in DOMAIN fids) /\ (g \in DOMAIN fids => fids'[g] = fids[g])

LEMMA ServerWith ==
  ASSUME FidTypes, NEW f \in Nat, NEW modes \in SUBSET Modes, With(f, modes)
  PROVE  /\ DOMAIN fids' = DOMAIN fids \cup {f} /\ fids'[f] = modes /\ Server(f)
         /\ fids' \in [DOMAIN fids' -> SUBSET Modes]
BY DEF FidTypes, With, Server

LEMMA ServerWithout ==
  ASSUME FidTypes, NEW f \in Nat, Without(f)
  PROVE  DOMAIN fids' = DOMAIN fids \ {f} /\ Server(f) /\ fids' \in [DOMAIN fids' -> SUBSET Modes]
BY DEF FidTypes, Without, Server

LEMMA ServerSame ==
  ASSUME UNCHANGED fids, NEW f
  PROVE  Server(f)
BY DEF Server

(***************************************************************************)
(* A fid is given to a place, made, or taken from it and dropped.          *)
(***************************************************************************)
LEMMA Gives ==
  ASSUME FidTypes, Holdings, NEW h \in Holders, Puts(h, next_fid + 1), next_fid' = next_fid + 1,
         Held(h) \notin DOMAIN fids,
         DOMAIN fids' \subseteq DOMAIN fids \cup {next_fid + 1}
  PROVE  Holdings'
<1>1. DOMAIN fids' \subseteq 1 .. next_fid'
  BY DEF FidTypes, Holdings
<1>2. \A k \in Holders : Held(k)' \in 0 .. next_fid'
  BY DEF FidTypes, Holdings, Puts
<1>3. \A k \in Holders : Held(k) # next_fid + 1
  BY DEF FidTypes, Holdings
<1>4. \A k, l \in Holders : k # l /\ Held(k)' = Held(l)' => Held(k)' = NoFid
  BY <1>3 DEF Holdings, Puts
<1>5. \A f \in DOMAIN fids' : \E k \in Holders : Held(k)' = f
  BY DEF Holdings, Puts
<1> QED
  BY <1>1, <1>2, <1>4, <1>5 DEF Holdings, Holders

LEMMA Drops ==
  ASSUME FidTypes, Holdings, NEW h \in Holders, Puts(h, NoFid), UNCHANGED next_fid,
         DOMAIN fids' \subseteq DOMAIN fids \ {Held(h)}
  PROVE  Holdings'
<1>1. DOMAIN fids' \subseteq 1 .. next_fid'
  BY DEF FidTypes, Holdings
<1>2. \A k \in Holders : Held(k)' \in 0 .. next_fid'
  BY DEF FidTypes, Holdings, Puts, NoFid
<1>3. \A k, l \in Holders : k # l /\ Held(k)' = Held(l)' => Held(k)' = NoFid
  BY DEF Holdings, Puts
<1>4. \A f \in DOMAIN fids' : \E k \in Holders : Held(k)' = f
  BY DEF Holdings, Puts
<1> QED
  BY <1>1, <1>2, <1>3, <1>4 DEF Holdings, Holders

LEMMA Makings ==
  ASSUME FidTypes, Holdings, NEW h \in Holders, Puts(h, Held(h)), Held(h) # NoFid,
         next_fid' \in {next_fid, next_fid + 1}, DOMAIN fids' \subseteq DOMAIN fids \cup {Held(h)}
  PROVE  Holdings'
<1>1. \A k \in Holders : Held(k)' = Held(k)
  BY DEF Puts
<1>2. DOMAIN fids' \subseteq 1 .. next_fid'
  BY DEF FidTypes, Holdings, NoFid
<1>3. \A k \in Holders : Held(k)' \in 0 .. next_fid'
  BY <1>1 DEF FidTypes, Holdings
<1>4. \A k, l \in Holders : k # l /\ Held(k)' = Held(l)' => Held(k)' = NoFid
  BY <1>1 DEF Holdings
<1>5. \A f \in DOMAIN fids' : \E k \in Holders : Held(k)' = f
  BY <1>1 DEF Holdings
<1> QED
  BY <1>2, <1>3, <1>4, <1>5 DEF Holdings, Holders

LEMMA Leaves ==
  ASSUME FidTypes, Holdings, UNCHANGED <<walk_fid, io_fid, tmp, pager_fid, fids>>,
         next_fid' \in {next_fid, next_fid + 1}
  PROVE  Holdings'
<1>1. \A k \in Holders : Held(k)' = Held(k)
  BY HolderKinds DEF Held
<1>2. DOMAIN fids' \subseteq 1 .. next_fid'
  BY DEF FidTypes, Holdings
<1>3. \A k \in Holders : Held(k)' \in 0 .. next_fid'
  BY <1>1 DEF FidTypes, Holdings
<1> QED
  BY <1>1, <1>2, <1>3 DEF Holdings, Holders

(* What happens to a fid that some place holds: nothing.                   *)
Steady(f) == (f \in DOMAIN fids' <=> f \in DOMAIN fids) /\ (f \in DOMAIN fids => fids'[f] = fids[f])

(* What happens in one place is not noticed in another.                    *)
LEMMA Elsewhere ==
  ASSUME FidTypes, FidTypes', Holdings, Holdings', NEW h \in Holders, NEW f \in Nat, Puts(h, f),
         NEW g \in {Held(h), f}, Server(g), NEW k \in Holders, k # h
  PROVE  Held(k)' = Held(k) /\ Steady(Held(k))
<1>1. Held(k)' = Held(k) /\ Held(k) \in Nat
  BY DEF Puts, Holdings, FidTypes
<1>2. CASE Held(k) # g
  BY <1>1, <1>2 DEF Server, Steady
<1>3. CASE Held(k) = g
  <2>1. Held(k) = NoFid
    <3>1. CASE g = Held(h)
      BY <1>3, <3>1 DEF Holdings
    <3>2. CASE g = f
      <4>1. Held(k)' = Held(h)'
        BY <1>1, <1>3, <3>2 DEF Puts
      <4>2. \A l, m \in Holders : l # m /\ Held(l)' = Held(m)' => Held(l)' = NoFid
        BY DEF Holdings, Holders, NoFid
      <4> QED
        BY <1>1, <4>1, <4>2
    <3> QED
      BY <3>1, <3>2
  <2>2. NoFid \notin DOMAIN fids /\ NoFid \notin DOMAIN fids'
    BY DEF Holdings, FidTypes, NoFid
  <2> QED
    BY <1>1, <2>1, <2>2 DEF Steady
<1> QED
  BY <1>2, <1>3

(***************************************************************************)
(* What a step leaves alone.                                               *)
(***************************************************************************)
Busy == IoPcs \cup {"attach", "release_walk", "release_io", "release_peropen"}

SteadyWalk(p) == walk_fid'[p] = walk_fid[p] /\ Steady(walk_fid[p])
SteadyIo(p) == io_fid'[p] = io_fid[p] /\ Steady(io_fid[p])
SteadyTmp(t) == tmp'[t] = tmp[t] /\ Steady(tmp[t])
SteadyPager == pager_fid' = pager_fid /\ Steady(pager_fid)

LEMMA Quiet ==
  ASSUME FidTypes, FidTypes', Holdings, Holdings', NEW h \in Holders, NEW f \in Nat, Puts(h, f),
         NEW g \in {Held(h), f}, Server(g)
  PROVE  /\ \A q \in Protids : h # <<"walk", q>> => SteadyWalk(q)
         /\ \A q \in Protids : h # <<"io", q>> => SteadyIo(q)
         /\ \A u \in Threads : h # <<"tmp", u>> => SteadyTmp(u)
         /\ h # <<"pager", None>> => SteadyPager
<1>1. \A k \in Holders \ {h} : Held(k)' = Held(k) /\ Steady(Held(k))
  BY Elsewhere
<1>2. ASSUME NEW q \in Protids, h # <<"walk", q>> PROVE SteadyWalk(q)
  <2>1. Held(<<"walk", q>>)' = walk_fid'[q]
    BY DEF Held
  <2> QED
    BY <1>1, <1>2, <2>1, HeldWalk DEF SteadyWalk
<1>3. ASSUME NEW q \in Protids, h # <<"io", q>> PROVE SteadyIo(q)
  <2>1. Held(<<"io", q>>)' = io_fid'[q]
    BY DEF Held
  <2> QED
    BY <1>1, <1>3, <2>1, HeldIo DEF SteadyIo
<1>4. ASSUME NEW u \in Threads, h # <<"tmp", u>> PROVE SteadyTmp(u)
  <2>1. Held(<<"tmp", u>>)' = tmp'[u]
    BY DEF Held
  <2> QED
    BY <1>1, <1>4, <2>1, HeldTmp DEF SteadyTmp
<1>5. ASSUME h # <<"pager", None>> PROVE SteadyPager
  <2>1. Held(<<"pager", None>>)' = pager_fid'
    BY DEF Held
  <2> QED
    BY <1>1, <1>5, <2>1, HeldPager DEF SteadyPager
<1> QED
  BY <1>2, <1>3, <1>4, <1>5

(* The other calls go on as they were.                                     *)
Alone(t) ==
  /\ Only(t)
  /\ \A u \in Threads \ {t} : tmp'[u] = tmp[u] /\ mode'[u] = mode[u] /\ Want(u)' = Want(u)

LEMMA ReadyStill ==
  ASSUME NEW t \in Threads, Alone(t), NEW u \in Threads \ {t}, Ready(u),
         pc[u] \in Busy => /\ SteadyWalk(pi[u]) /\ SteadyIo(pi[u])
                           /\ server_open_flags'[pi[u]] = server_open_flags[pi[u]],
         op[u] = "reauth" => SteadyWalk(new_pi[u]) /\ SteadyIo(new_pi[u]),
         SteadyTmp(u), pc[u] \in MapPcs => SteadyPager
  PROVE  Ready(u)'
<1>1. /\ pc'[u] = pc[u] /\ op'[u] = op[u] /\ pi'[u] = pi[u] /\ new_pi'[u] = new_pi[u] /\ mode'[u] = mode[u]
      /\ Want(u)' = Want(u)
  BY DEF Alone, Only
<1>2. Makes(u)'
  BY <1>1 DEF Ready, Makes, SteadyWalk, SteadyIo, Steady, Busy, IoPcs
<1>3. Opens(u)'
  BY <1>1 DEF Ready, Opens, SteadyIo, Busy, IoPcs
<1>4. Temps(u)'
  BY <1>1 DEF Ready, Temps, SteadyTmp, Steady
<1>5. Maps(u)'
  BY <1>1 DEF Ready, Maps, SteadyPager, Steady, MapPcs
<1> QED
  BY <1>2, <1>3, <1>4, <1>5 DEF Ready

LEMMA SoundStill ==
  ASSUME NEW q \in Protids, Sound(q), SteadyWalk(q), SteadyIo(q), port'[q] = port[q],
         server_open_flags'[q] = server_open_flags[q]
  PROVE  Sound(q)'
BY DEF Sound, SteadyWalk, SteadyIo, Steady

LEMMA PagingStill ==
  ASSUME Paging, SteadyPager, pager' = pager
  PROVE  Paging'
BY DEF Paging, SteadyPager, Steady

(* No other call works with the fids of the protid.                        *)
Mine(t, p) ==
  \A u \in Threads \ {t} : (pc[u] \in Busy => pi[u] # p) /\ (op[u] = "reauth" => new_pi[u] # p)

LEMMA BusyTyped ==
  ASSUME Inv, NEW t \in Threads, pc[t] \in Busy
  PROVE  /\ pi[t] \in Protids
         /\ \/ op[t] \in IoOps \cup {"sync"} /\ port[pi[t]] \in {"open", "dropped"}
            \/ op[t] \in {"getroot", "release"} /\ Making(t) /\ Made(t) = pi[t] /\ port[pi[t]] = "making"
<1>1. op[t] \in IoOps \cup {"sync", "getroot", "release"}
  BY DEF Inv, Control, Fits, Busy, IoPcs, ReleasePcs
<1>2. CASE op[t] \in IoOps \cup {"sync"}
  BY <1>2 DEF Inv, Control, Ported, Clients
<1>3. CASE op[t] \in {"getroot", "release"}
  <2>1. Making(t) /\ Made(t) = pi[t]
    BY <1>3 DEF Making, Made, Busy, IoPcs
  <2> QED
    BY <1>3, <2>1 DEF Inv, Control, Ported
<1> QED
  BY <1>1, <1>2, <1>3

LEMMA ReauthTyped ==
  ASSUME Inv, NEW t \in Threads, op[t] = "reauth"
  PROVE  Making(t) /\ Made(t) = new_pi[t] /\ new_pi[t] \in Protids /\ port[new_pi[t]] = "making"
BY DEF Inv, Control, Ported, Making, Made

LEMMA BusyMine ==
  ASSUME Inv, Apart, NEW t \in Threads, pc[t] \in Busy
  PROVE  Mine(t, pi[t])
<1>1. ASSUME NEW u \in Threads \ {t}, pc[u] \in Busy, pi[u] = pi[t] PROVE FALSE
  <2>1. CASE op[t] \in IoOps \cup {"sync"} /\ op[u] \in IoOps \cup {"sync"}
    <3>1. op[t] \in IoOps /\ op[u] \in IoOps
      BY <1>1, <2>1 DEF Apart
    <3>2. pc[t] # "lock" /\ pc[u] # "lock"
      BY <1>1 DEF Busy, IoPcs
    <3> QED
      BY <1>1, <3>1, <3>2 DEF Inv, Control, LockHeldByCall
  <2>2. CASE op[t] \in {"getroot", "release"} /\ op[u] \in {"getroot", "release"}
    <3>1. Making(t) /\ Making(u) /\ Made(t) = Made(u)
      BY <1>1, <2>2, BusyTyped DEF IoOps
    <3> QED
      BY <1>1, <3>1 DEF Inv, Control, Ported
  <2> QED
    BY <1>1, <2>1, <2>2, BusyTyped
<1>2. ASSUME NEW u \in Threads \ {t}, op[u] = "reauth", new_pi[u] = pi[t] PROVE FALSE
  <2>1. Making(u) /\ Made(u) = pi[t] /\ port[pi[t]] = "making"
    BY <1>2, ReauthTyped
  <2>2. Making(t) /\ Made(t) = pi[t]
    BY <2>1, BusyTyped
  <2> QED
    BY <2>1, <2>2 DEF Inv, Control, Ported
<1> QED
  BY <1>1, <1>2 DEF Mine

LEMMA ReauthMine ==
  ASSUME Inv, NEW t \in Threads, op[t] = "reauth"
  PROVE  Mine(t, new_pi[t])
<1>1. Making(t) /\ Made(t) = new_pi[t] /\ port[new_pi[t]] = "making"
  BY ReauthTyped
<1>2. ASSUME NEW u \in Threads \ {t}, pc[u] \in Busy, pi[u] = new_pi[t] PROVE FALSE
  <2>1. Making(u) /\ Made(u) = pi[u]
    BY <1>1, <1>2, BusyTyped
  <2> QED
    BY <1>1, <1>2, <2>1 DEF Inv, Control, Ported
<1>3. ASSUME NEW u \in Threads \ {t}, op[u] = "reauth", new_pi[u] = new_pi[t] PROVE FALSE
  <2>1. Making(u) /\ Made(u) = new_pi[u]
    BY <1>3, ReauthTyped
  <2> QED
    BY <1>1, <1>3, <2>1 DEF Inv, Control, Ported
<1> QED
  BY <1>2, <1>3 DEF Mine

LEMMA NoneMine ==
  ASSUME Inv, NEW t \in Threads, NEW p \in Protids, port[p] = "none"
  PROVE  Mine(t, p)
BY BusyTyped, ReauthTyped DEF Mine

(* A step that changes a fid of a protid that is the call's own.           *)
LEMMA FrameProtid ==
  ASSUME Inv, FidInv, FidTypes', Holdings', NEW t \in Threads, Alone(t), NEW p \in Protids, Mine(t, p),
         NEW h \in {<<"walk", p>>, <<"io", p>>}, NEW f \in Nat, Puts(h, f), NEW g \in {Held(h), f}, Server(g),
         \A q \in Protids \ {p} : server_open_flags'[q] = server_open_flags[q] /\ port'[q] = port[q],
         pager' = pager
  PROVE  /\ \A u \in Threads \ {t} : Ready(u)'
         /\ \A q \in Protids \ {p} : Sound(q)'
         /\ Paging' /\ SteadyTmp(t)
         /\ h = <<"walk", p>> => SteadyIo(p)
         /\ h = <<"io", p>> => SteadyWalk(p)
<1>1. h \in Holders
  BY HeldWalk, HeldIo
<1>2. /\ \A q \in Protids : h # <<"walk", q>> => SteadyWalk(q)
      /\ \A q \in Protids : h # <<"io", q>> => SteadyIo(q)
      /\ \A u \in Threads : h # <<"tmp", u>> => SteadyTmp(u)
      /\ h # <<"pager", None>> => SteadyPager
  BY <1>1, Quiet DEF FidInv
<1>3. /\ \A q \in Protids \ {p} : SteadyWalk(q) /\ SteadyIo(q)
      /\ \A u \in Threads : SteadyTmp(u)
      /\ SteadyPager
      /\ h = <<"walk", p>> => SteadyIo(p)
      /\ h = <<"io", p>> => SteadyWalk(p)
  BY <1>2
<1>4. ASSUME NEW u \in Threads \ {t} PROVE Ready(u)'
  <2>1. Ready(u)
    BY DEF FidInv
  <2>2. pc[u] \in Busy => /\ SteadyWalk(pi[u]) /\ SteadyIo(pi[u])
                          /\ server_open_flags'[pi[u]] = server_open_flags[pi[u]]
    BY <1>3, BusyTyped DEF Mine
  <2>3. op[u] = "reauth" => SteadyWalk(new_pi[u]) /\ SteadyIo(new_pi[u])
    BY <1>3, ReauthTyped DEF Mine
  <2> QED
    BY <1>3, <2>1, <2>2, <2>3, ReadyStill
<1>5. \A q \in Protids \ {p} : Sound(q)'
  BY <1>3, SoundStill DEF FidInv
<1>6. Paging'
  BY <1>3, PagingStill DEF FidInv
<1> QED
  BY <1>3, <1>4, <1>5, <1>6

(* A step that changes a temporary fid.                                    *)
LEMMA FrameTmp ==
  ASSUME Inv, FidInv, FidTypes', Holdings', NEW t \in Threads, Alone(t),
         NEW f \in Nat, Puts(<<"tmp", t>>, f), NEW g \in {tmp[t], f}, Server(g),
         UNCHANGED <<server_open_flags, port, pager>>
  PROVE  /\ \A u \in Threads \ {t} : Ready(u)'
         /\ \A q \in Protids : Sound(q)'
         /\ Paging'
<1>1. <<"tmp", t>> \in Holders /\ g \in {Held(<<"tmp", t>>), f}
  BY HeldTmp
<1>2. /\ \A q \in Protids : <<"tmp", t>> # <<"walk", q>> => SteadyWalk(q)
      /\ \A q \in Protids : <<"tmp", t>> # <<"io", q>> => SteadyIo(q)
      /\ \A u \in Threads : <<"tmp", t>> # <<"tmp", u>> => SteadyTmp(u)
      /\ <<"tmp", t>> # <<"pager", None>> => SteadyPager
  BY <1>1, Quiet DEF FidInv
<1>3. /\ \A q \in Protids : SteadyWalk(q) /\ SteadyIo(q)
      /\ \A u \in Threads \ {t} : SteadyTmp(u)
      /\ SteadyPager
  BY <1>2
<1>4. ASSUME NEW u \in Threads \ {t} PROVE Ready(u)'
  <2>1. Ready(u)
    BY DEF FidInv
  <2>2. pc[u] \in Busy => SteadyWalk(pi[u]) /\ SteadyIo(pi[u])
    BY <1>3, BusyTyped
  <2>3. op[u] = "reauth" => SteadyWalk(new_pi[u]) /\ SteadyIo(new_pi[u])
    BY <1>3, ReauthTyped
  <2> QED
    BY <1>3, <2>1, <2>2, <2>3, ReadyStill
<1>5. \A q \in Protids : Sound(q)'
  BY <1>3, SoundStill DEF FidInv
<1>6. Paging'
  BY <1>3, PagingStill DEF FidInv
<1> QED
  BY <1>4, <1>5, <1>6

(* A step that changes the fid of the pager, of which there is none.       *)
LEMMA FramePager ==
  ASSUME Inv, FidInv, FidTypes', Holdings', NEW t \in Threads, Alone(t), op[t] = "map", lock = t,
         NEW f \in Nat, Puts(<<"pager", None>>, f), NEW g \in {pager_fid, f}, Server(g),
         UNCHANGED <<server_open_flags, port>>
  PROVE  /\ \A u \in Threads \ {t} : Ready(u)'
         /\ \A q \in Protids : Sound(q)'
         /\ SteadyTmp(t)
<1>1. <<"pager", None>> \in Holders /\ g \in {Held(<<"pager", None>>), f}
  BY HeldPager
<1>2. /\ \A q \in Protids : <<"pager", None>> # <<"walk", q>> => SteadyWalk(q)
      /\ \A q \in Protids : <<"pager", None>> # <<"io", q>> => SteadyIo(q)
      /\ \A u \in Threads : <<"pager", None>> # <<"tmp", u>> => SteadyTmp(u)
  BY <1>1, Quiet DEF FidInv
<1>3. /\ \A q \in Protids : SteadyWalk(q) /\ SteadyIo(q)
      /\ \A u \in Threads : SteadyTmp(u)
  BY <1>2
<1>4. ASSUME NEW u \in Threads \ {t} PROVE Ready(u)'
  <2>1. Ready(u)
    BY DEF FidInv
  <2>2. pc[u] \in Busy => SteadyWalk(pi[u]) /\ SteadyIo(pi[u])
    BY <1>3, BusyTyped
  <2>3. op[u] = "reauth" => SteadyWalk(new_pi[u]) /\ SteadyIo(new_pi[u])
    BY <1>3, ReauthTyped
  <2>4. pc[u] \notin MapPcs
    BY DEF Inv, Control, Fits, LockHeldByCall, MapPcs
  <2> QED
    BY <1>3, <2>1, <2>2, <2>3, <2>4, ReadyStill
<1>5. \A q \in Protids : Sound(q)'
  BY <1>3, SoundStill DEF FidInv
<1> QED
  BY <1>3, <1>4, <1>5

(* A step that changes no fid.                                             *)
LEMMA FrameNone ==
  ASSUME FidInv, NEW t \in Threads, Alone(t),
         UNCHANGED <<walk_fid, io_fid, tmp, pager_fid, fids, server_open_flags>>
  PROVE  /\ \A u \in Threads \ {t} : Ready(u)'
         /\ \A q \in Protids : port'[q] = port[q] => Sound(q)'
         /\ pager' = pager => Paging'
<1>1. /\ \A q : SteadyWalk(q) /\ SteadyIo(q)
      /\ \A u \in Threads : SteadyTmp(u)
      /\ SteadyPager
  BY DEF SteadyWalk, SteadyIo, SteadyTmp, SteadyPager, Steady
<1>2. \A u \in Threads \ {t} : Ready(u)'
  BY <1>1, ReadyStill DEF FidInv
<1> QED
  BY <1>1, <1>2, SoundStill, PagingStill DEF FidInv

(* Calls on one port are kept apart.                                       *)
LEMMA ApartStill ==
  ASSUME Apart, NEW t \in Threads, Only(t),
         op'[t] \in IoOps \cup {"sync"} => op'[t] = op[t] /\ pi'[t] = pi[t]
  PROVE  Apart'
BY DEF Apart, Only

(***************************************************************************)
(* Steps that change no fid.                                               *)
(***************************************************************************)
LEMMA InitFids == Init => FidInv
<1> SUFFICES ASSUME Init PROVE FidInv
  OBVIOUS
<1>1. FidTypes
  BY DEF Init, FidTypes, NoFid, Modes
<1>2. Holdings
  <2>1. \A h \in Holders : Held(h) = NoFid
    BY HolderKinds DEF Held, Init
  <2> QED
    BY <2>1 DEF Init, Holdings, NoFid
<1>3. Apart /\ Paging /\ \A p \in Protids : Sound(p)
  BY DEF Init, Apart, Paging, Sound, IoOps
<1>4. \A t \in Threads : Ready(t)
  BY DEF Init, Ready, Makes, Opens, Temps, Maps, IoPcs
<1> QED
  BY <1>1, <1>2, <1>3, <1>4 DEF FidInv

LEMMA ReadyIdle ==
  ASSUME NEW t \in Threads, pc'[t] \in {"idle", "lock", "direct", "tmp_walk", "page", "ensure"},
         op'[t] \notin {"getroot", "reauth"}, tmp'[t] = NoFid
  PROVE  Ready(t)'
BY DEF Ready, Makes, Opens, Temps, Maps, IoPcs

LEMMA TmpNone ==
  ASSUME FidInv, NEW t \in Threads, pc[t] \notin {"tmp_use", "tmp_clunk"}
  PROVE  tmp[t] = NoFid
BY DEF FidInv, Ready, Temps

LEMMA WantStill ==
  ASSUME NEW t \in Threads, Only(t), UNCHANGED user_open_flags, NEW u \in Threads \ {t}
  PROVE  Want(u)' = Want(u)
BY DEF Only, Want

LEMMA NoFidStep ==
  ASSUME Inv, FidInv, NEW t \in Threads, Only(t),
         UNCHANGED <<walk_fid, io_fid, tmp, pager_fid, fids, server_open_flags, user_open_flags, port, pager>>,
         next_fid' \in {next_fid, next_fid + 1},
         mode' \in [Threads -> SUBSET Modes], \A u \in Threads \ {t} : mode'[u] = mode[u],
         op'[t] \in IoOps \cup {"sync"} => op'[t] = op[t] /\ pi'[t] = pi[t],
         Ready(t)'
  PROVE  FidInv'
<1>1. FidTypes'
  BY DEF FidInv, FidTypes
<1>2. Holdings'
  BY Leaves DEF FidInv
<1>3. Apart'
  BY ApartStill DEF FidInv
<1>4. Alone(t)
  BY WantStill DEF Alone
<1>5. Paging' /\ (\A p \in Protids : Sound(p)') /\ \A u \in Threads \ {t} : Ready(u)'
  BY <1>4, FrameNone
<1> QED
  BY <1>1, <1>2, <1>3, <1>5 DEF FidInv

LEMMA FidEnds ==
  ASSUME Inv, FidInv, NEW t \in Threads, Finish(t), pc[t] \notin {"tmp_use", "tmp_clunk"},
         UNCHANGED <<walk_fid, io_fid, tmp, pager_fid, fids, server_open_flags, user_open_flags, port, pager>>,
         next_fid' \in {next_fid, next_fid + 1}, mode' = mode \/ mode' = [mode EXCEPT ![t] = {}]
  PROVE  FidInv'
<1>1. Only(t) /\ pc'[t] = "idle" /\ op'[t] = "none"
  BY OnlyFinish
<1>2. mode' \in [Threads -> SUBSET Modes] /\ \A u \in Threads \ {t} : mode'[u] = mode[u]
  BY DEF FidInv, FidTypes
<1>3. Ready(t)'
  BY <1>1, TmpNone, ReadyIdle
<1> QED
  BY <1>1, <1>2, <1>3, NoFidStep DEF IoOps

LEMMA FidCalls ==
  ASSUME Inv, FidInv, NEW t \in Threads, NEW p \in Protids, NEW o \in Clients \ {"reauth"},
         NEW label \in {"lock", "direct", "tmp_walk", "ensure", "use"}, Start(t, o, p, label), UNCHANGED new_pi,
         o \in IoOps \cup {"sync"} => ~Overlapping(p, o),
         label = "use" => o = "sync" /\ server_open_flags[p] # {},
         UNCHANGED <<walk_fid, io_fid, tmp, mode, pager_fid, fids, next_fid, server_open_flags, user_open_flags,
                     port, pager>>
  PROVE  FidInv'
<1>1. label \in Labels /\ o \in Ops
  BY DEF Labels, Ops, Clients
<1>2. Only(t) /\ pc'[t] = label /\ op'[t] = o /\ pi'[t] = p /\ pc[t] = "idle" /\ op[t] = "none"
  BY <1>1, OnlyStart
<1>3. FidTypes'
  BY DEF FidInv, FidTypes
<1>4. Holdings'
  BY Leaves DEF FidInv
<1>5. Apart'
  BY <1>2 DEF FidInv, Apart, Only, Overlapping, Using
<1>6. Alone(t)
  BY <1>2, WantStill DEF Alone
<1>7. Paging' /\ (\A q \in Protids : Sound(q)') /\ \A u \in Threads \ {t} : Ready(u)'
  BY <1>6, FrameNone
<1>8. tmp'[t] = NoFid /\ o \notin {"getroot", "reauth"}
  BY <1>2, TmpNone DEF Clients, IoOps, WalkOps
<1>9. CASE label # "use"
  BY <1>2, <1>3, <1>4, <1>5, <1>7, <1>8, <1>9, ReadyIdle DEF FidInv
<1>10. CASE label = "use"
  <2>1. io_fid[p] # NoFid
    BY <1>10 DEF FidInv, Sound
  <2>2. Ready(t)'
    BY <1>2, <1>8, <1>10, <2>1 DEF Ready, Makes, Opens, Temps, Maps
  <2> QED
    BY <1>3, <1>4, <1>5, <1>7, <2>2 DEF FidInv
<1> QED
  BY <1>9, <1>10

LEMMA BeginCallFids ==
  ASSUME Inv, FidInv, ~SyncOverlaps, NEW t \in Threads, NEW p \in Protids,
         \/ \E o \in IoOps : BeginIo(t, p, o)
         \/ io_stat(t, p) \/ dir_mkdir(t, p) \/ dir_rmdir(t, p) \/ dir_unlink(t, p) \/ dir_rename(t, p)
         \/ BeginSync(t, p) \/ BeginMap(t, p)
  PROVE  FidInv'
<1>1. /\ UNCHANGED <<new_pi, walk_fid, io_fid, tmp, mode, pager_fid, fids, next_fid, server_open_flags,
                     user_open_flags, port, pager>>
  BY DEF BeginIo, io_stat, dir_mkdir, dir_rmdir, dir_unlink, dir_rename, BeginWalkOp, BeginSync, BeginMap,
     protids, node, server, Call, Start
<1>2. ASSUME NEW o \in IoOps, Start(t, o, p, "lock"), ~Overlapping(p, o) PROVE FidInv'
  BY <1>1, <1>2, FidCalls DEF IoOps, Clients
<1>3. ASSUME NEW label \in {"use", "ensure", "direct"}, Start(t, "sync", p, label), ~Overlapping(p, "sync"),
             label = "use" => server_open_flags[p] # {}
      PROVE  FidInv'
  BY <1>1, <1>3, FidCalls DEF Clients
<1>4. ASSUME NEW o \in WalkOps, NEW label \in {"direct", "tmp_walk"}, Start(t, o, p, label) PROVE FidInv'
  <2>1. o \in Clients \ {"reauth"} /\ o \notin IoOps \cup {"sync"}
    BY DEF Clients, WalkOps, IoOps
  <2> QED
    BY <1>1, <1>4, <2>1, FidCalls
<1>5. CASE \E o \in IoOps : BeginIo(t, p, o)
  BY <1>2, <1>5 DEF BeginIo, Call
<1>6. CASE BeginMap(t, p)
  <2>1. Start(t, "map", p, "lock") /\ "map" \in Clients \ {"reauth"} /\ "map" \notin IoOps \cup {"sync"}
    BY <1>6 DEF BeginMap, Call, Clients, IoOps
  <2> QED
    BY <1>1, <2>1, FidCalls
<1>7. CASE BeginSync(t, p)
  <2> DEFINE label == IF p9_version = "core" THEN "direct"
                      ELSE IF server_open_flags[p] # {} THEN "use" ELSE "ensure"
  <2>1. label \in {"use", "ensure", "direct"} /\ (label = "use" => server_open_flags[p] # {})
    OBVIOUS
  <2>2. Start(t, "sync", p, label) /\ ~Overlapping(p, "sync")
    BY <1>7 DEF BeginSync, Call
  <2> HIDE DEF label
  <2> QED
    BY <1>3, <2>1, <2>2
<1>8. CASE io_stat(t, p) \/ dir_mkdir(t, p) \/ dir_rmdir(t, p) \/ dir_unlink(t, p) \/ dir_rename(t, p)
  BY <1>4, <1>8 DEF io_stat, dir_mkdir, dir_rmdir, dir_unlink, dir_rename, BeginWalkOp, TmpInCore, Call, WalkOps
<1> QED
  BY <1>5, <1>6, <1>7, <1>8

(* Rewinding a directory forgets what the fid is open for, and no more.    *)
LEMMA LockFids ==
  ASSUME Inv, FidInv, NEW t \in Threads, Lock(t)
  PROVE  FidInv'
<1>1. /\ pc[t] = "lock" /\ lock = None
      /\ UNCHANGED <<tmp, mode, port, walk_fid, io_fid, user_open_flags, pager, pager_fid, fids, next_fid>>
  BY DEF Lock, At, node, server
<1>2. op[t] \in IoOps \cup {"map"} /\ pi[t] \in Protids
  BY <1>1 DEF Inv, Control, Fits, Ported, Clients
<1>3. tmp[t] = NoFid /\ op[t] \notin {"getroot", "reauth"}
  BY <1>1, <1>2, TmpNone DEF IoOps
<1>4. CASE Finish(t) /\ UNCHANGED server_open_flags
  BY <1>1, <1>4, FidEnds
<1>5. ASSUME NEW label \in {"ensure", "map", "use"}, Goto(t, label), UNCHANGED server_open_flags,
             label = "use" => io_fid[pi[t]] # NoFid /\ op[t] = "readdir"
      PROVE  FidInv'
  <2>1. label \in Labels
    BY DEF Labels
  <2>2. Only(t) /\ pc'[t] = label /\ op'[t] = op[t] /\ pi'[t] = pi[t]
    BY <1>5, <2>1, OnlyGoto
  <2>3. Ready(t)'
    BY <1>1, <1>3, <1>5, <2>2 DEF Ready, Makes, Opens, Temps, Maps
  <2> QED
    BY <1>1, <1>5, <2>2, <2>3, NoFidStep DEF FidInv, FidTypes
<1>6. CASE /\ op[t] = "readdir" /\ server_open_flags' = [server_open_flags EXCEPT ![pi[t]] = {}]
           /\ Goto(t, "ensure")
  <2>1. "ensure" \in Labels
    BY DEF Labels
  <2>2. Only(t) /\ pc'[t] = "ensure" /\ op'[t] = op[t] /\ pi'[t] = pi[t]
    BY <1>6, <2>1, OnlyGoto
  <2>3. FidTypes'
    BY <1>1, <1>2, <1>6 DEF FidInv, FidTypes
  <2>4. Holdings'
    BY <1>1, Leaves DEF FidInv
  <2>5. Apart'
    BY <2>2, ApartStill DEF FidInv
  <2>6. /\ server_open_flags'[pi[t]] = {}
        /\ \A q \in Protids \ {pi[t]} : server_open_flags'[q] = server_open_flags[q]
    BY <1>2, <1>6 DEF FidInv, FidTypes
  <2>7. /\ \A q \in Protids : SteadyWalk(q) /\ SteadyIo(q)
        /\ \A u \in Threads : SteadyTmp(u)
        /\ SteadyPager
    BY <1>1 DEF SteadyWalk, SteadyIo, SteadyTmp, SteadyPager, Steady
  <2>8. ASSUME NEW q \in Protids, q = pi[t] PROVE Sound(q)'
    BY <1>1, <2>6, <2>8 DEF FidInv, Sound
  <2>9. \A q \in Protids : Sound(q)'
    BY <1>1, <2>6, <2>7, <2>8, SoundStill DEF FidInv
  <2>10. Paging'
    BY <1>1, <2>7, PagingStill DEF FidInv
  <2>11. ASSUME NEW u \in Threads \ {t}, pc[u] \in Busy PROVE pi[u] # pi[t]
    <3>1. CASE op[u] \in IoOps
      BY <1>1, <2>11, <3>1, NoneAssumption DEF Inv, Control, LockHeldByCall, Busy, IoPcs
    <3>2. CASE op[u] = "sync"
      BY <1>6, <2>11, <3>2 DEF FidInv, Apart, IoOps
    <3>3. CASE port[pi[u]] = "making"
      BY <1>6, <3>3 DEF Inv, Control, Ported, Clients, IoOps
    <3> QED
      BY <2>11, <3>1, <3>2, <3>3, BusyTyped
  <2>12. Alone(t)
    BY <1>1, <2>2, WantStill DEF Alone
  <2>13. ASSUME NEW u \in Threads \ {t} PROVE Ready(u)'
    <3>1. Ready(u)
      BY DEF FidInv
    <3>2. pc[u] \in Busy => /\ SteadyWalk(pi[u]) /\ SteadyIo(pi[u])
                            /\ server_open_flags'[pi[u]] = server_open_flags[pi[u]]
      BY <2>6, <2>7, <2>11, BusyTyped
    <3>3. op[u] = "reauth" => SteadyWalk(new_pi[u]) /\ SteadyIo(new_pi[u])
      BY <2>7, ReauthTyped
    <3> QED
      BY <2>7, <2>12, <3>1, <3>2, <3>3, ReadyStill
  <2>14. Ready(t)'
    BY <1>1, <1>3, <2>2, ReadyIdle
  <2> QED
    BY <2>3, <2>4, <2>5, <2>9, <2>10, <2>13, <2>14 DEF FidInv
<1> QED
  BY <1>1, <1>4, <1>5, <1>6 DEF Lock

(***************************************************************************)
(* p9_ensure_open.                                                         *)
(***************************************************************************)
LEMMA RootWalk ==
  ASSUME FidInv, NEW t \in Threads, pc[t] \in IoPcs, op[t] = "getroot"
  PROVE  walk_fid[pi[t]] \in DOMAIN fids
BY DEF FidInv, Ready, Makes

LEMMA EnsureFailsFids ==
  ASSUME Inv, FidInv, NEW t \in Threads, pc[t] \in IoPcs, EnsureFails(t),
         UNCHANGED <<walk_fid, io_fid, tmp, pager_fid, fids, server_open_flags, user_open_flags, port, pager>>,
         next_fid' \in {next_fid, next_fid + 1}, mode' = mode \/ mode' = [mode EXCEPT ![t] = {}]
  PROVE  FidInv'
<1>1. pc[t] \notin {"tmp_use", "tmp_clunk"}
  BY DEF IoPcs
<1>2. CASE op[t] # "getroot"
  BY <1>1, <1>2, FidEnds DEF EnsureFails, Return
<1>3. CASE op[t] = "getroot"
  <2>1. Goto(t, "release_walk") /\ "release_walk" \in Labels
    BY <1>3 DEF EnsureFails, Labels
  <2>2. Only(t) /\ pc'[t] = "release_walk" /\ op'[t] = op[t] /\ pi'[t] = pi[t]
    BY <2>1, OnlyGoto
  <2>3. mode' \in [Threads -> SUBSET Modes] /\ \A u \in Threads \ {t} : mode'[u] = mode[u]
    BY DEF FidInv, FidTypes
  <2>4. walk_fid[pi[t]] \in DOMAIN fids /\ tmp[t] = NoFid
    BY <1>1, <1>3, RootWalk, TmpNone
  <2>5. Ready(t)'
    BY <1>3, <2>2, <2>4 DEF Ready, Makes, Opens, Temps, Maps, IoPcs
  <2> QED
    BY <2>2, <2>3, <2>5, NoFidStep
<1> QED
  BY <1>2, <1>3

LEMMA WantTyped ==
  ASSUME FidInv, NEW t \in Threads
  PROVE  Want(t) \in SUBSET Modes
BY DEF FidInv, FidTypes, Want, Modes

LEMMA EnsureOpenFids ==
  ASSUME Inv, FidInv, NEW t \in Threads, EnsureOpen(t)
  PROVE  FidInv'
<1>1. /\ pc[t] = "ensure" /\ pc[t] \in IoPcs /\ pc[t] \in Busy
      /\ UNCHANGED <<tmp, port, walk_fid, io_fid, server_open_flags, user_open_flags, pager, pager_fid, fids, next_fid>>
  BY DEF EnsureOpen, At, protids, node, server, IoPcs, Busy
<1>2. PICK p \in Protids : p = pi[t]
  BY <1>1, BusyTyped
<1>3. /\ tmp[t] = NoFid /\ (op[t] = "getroot" => walk_fid[p] \in DOMAIN fids)
      /\ server_open_flags[p] # {} => io_fid[p] # NoFid
      /\ op[t] # "reauth"
  BY <1>1, <1>2, TmpNone, RootWalk, BusyTyped DEF FidInv, Sound, IoOps
<1>4. CASE EnoughFlags(p, Want(t))
  <2>1. Goto(t, "use") /\ UNCHANGED mode /\ "use" \in Labels
    BY <1>2, <1>4 DEF EnsureOpen, Labels
  <2>2. Only(t) /\ pc'[t] = "use" /\ op'[t] = op[t] /\ pi'[t] = p
    BY <1>2, <2>1, OnlyGoto
  <2>3. op[t] # "getroot" => Want(t) # {}
    BY DEF Want
  <2>4. Want(t)' = Want(t) /\ Want(t) \subseteq server_open_flags[p]
    BY <1>1, <1>4, <2>2 DEF Want, EnoughFlags
  <2>5. Ready(t)'
    BY <1>1, <1>3, <2>2, <2>3, <2>4 DEF Ready, Makes, Opens, Temps, Maps, IoPcs
  <2> QED
    BY <1>1, <1>2, <2>1, <2>2, <2>5, NoFidStep DEF FidInv, FidTypes
<1>5. CASE ~EnoughFlags(p, Want(t)) /\ walk_fid[p] = NoFid
  BY <1>1, <1>2, <1>5, EnsureFailsFids DEF EnsureOpen
<1>6. CASE ~EnoughFlags(p, Want(t)) /\ walk_fid[p] # NoFid
  <2> DEFINE label == IF io_fid[p] # NoFid THEN "ensure_clunk" ELSE "ensure_walk"
  <2>1. label \in Labels /\ label \in {"ensure_clunk", "ensure_walk"}
    BY DEF Labels
  <2>2. Goto(t, label) /\ mode' = [mode EXCEPT ![t] = Want(t) \cup server_open_flags[p]]
    BY <1>2, <1>6 DEF EnsureOpen
  <2>3. (label = "ensure_clunk" => io_fid[p] # NoFid) /\ (label = "ensure_walk" => io_fid[p] = NoFid)
    OBVIOUS
  <2> HIDE DEF label
  <2>4. Only(t) /\ pc'[t] = label /\ op'[t] = op[t] /\ pi'[t] = p
    BY <1>2, <2>1, <2>2, OnlyGoto
  <2>5. /\ mode' \in [Threads -> SUBSET Modes] /\ (\A u \in Threads \ {t} : mode'[u] = mode[u])
        /\ Want(t) \subseteq mode'[t]
    BY <2>2, WantTyped DEF FidInv, FidTypes
  <2>6. Want(t)' = Want(t)
    BY <1>1, <2>4 DEF Want
  <2>7. Ready(t)'
    BY <1>1, <1>3, <2>1, <2>3, <2>4, <2>5, <2>6 DEF Ready, Makes, Opens, Temps, Maps, IoPcs
  <2> QED
    BY <1>1, <1>2, <2>4, <2>5, <2>7, NoFidStep
<1> QED
  BY <1>4, <1>5, <1>6

LEMMA UseFids ==
  ASSUME Inv, FidInv, NEW t \in Threads, Use(t)
  PROVE  FidInv'
<1>1. /\ pc[t] = "use" /\ Finish(t)
      /\ UNCHANGED <<tmp, mode, port, walk_fid, io_fid, server_open_flags, user_open_flags, pager, pager_fid, fids,
                     next_fid>>
  BY DEF Use, At, Return, ReturnLocked, protids, node, server
<1> QED
  BY <1>1, FidEnds

(* A step on the I/O fid of the call's own protid.                         *)
LEMMA IoStep ==
  ASSUME Inv, FidInv, FidTypes', Holdings', NEW t \in Threads, pc[t] \in Busy, NEW p \in Protids, p = pi[t],
         NEW label \in Labels, Goto(t, label), NEW f \in Nat, NEW g \in {io_fid[p], f}, Server(g),
         io_fid' = [io_fid EXCEPT ![p] = f], UNCHANGED <<walk_fid, tmp, port, user_open_flags, pager, pager_fid>>,
         \A u \in Threads \ {t} : mode'[u] = mode[u],
         \A q \in Protids \ {p} : server_open_flags'[q] = server_open_flags[q],
         SteadyWalk(p) /\ tmp[t] = NoFid => Ready(t)' /\ Sound(p)'
  PROVE  FidInv'
<1>1. Only(t) /\ pc'[t] = label /\ op'[t] = op[t] /\ pi'[t] = pi[t]
  BY OnlyGoto
<1>2. Alone(t)
  BY <1>1, WantStill DEF Alone
<1>3. Puts(<<"io", p>>, f) /\ Held(<<"io", p>>) = io_fid[p]
  BY PutsIo, HeldIo DEF FidInv
<1>4. Mine(t, p)
  BY BusyMine DEF FidInv
<1>5. /\ \A u \in Threads \ {t} : Ready(u)'
      /\ \A q \in Protids \ {p} : Sound(q)'
      /\ Paging' /\ SteadyWalk(p)
  <2> DEFINE h == <<"io", p>>
  <2>1. h \in {<<"walk", p>>, <<"io", p>>} /\ Puts(h, f) /\ g \in {Held(h), f} /\ h = <<"io", p>>
    BY <1>3
  <2> HIDE DEF h
  <2>2. \A q \in Protids \ {p} : server_open_flags'[q] = server_open_flags[q] /\ port'[q] = port[q]
    OBVIOUS
  <2> QED
    BY <1>2, <1>4, <2>1, <2>2, FrameProtid
<1>6. Apart'
  BY <1>1, ApartStill DEF FidInv
<1>7. tmp[t] = NoFid
  BY TmpNone DEF Busy, IoPcs
<1>8. (\A u \in Threads : Ready(u)') /\ \A q \in Protids : Sound(q)'
  BY <1>5, <1>7
<1> QED
  BY <1>5, <1>6, <1>8 DEF FidInv

LEMMA EnsureClunkFids ==
  ASSUME Inv, FidInv, NEW t \in Threads, EnsureClunk(t)
  PROVE  FidInv'
<1>1. /\ pc[t] = "ensure_clunk" /\ pc[t] \in Busy /\ pc[t] \in IoPcs
      /\ Goto(t, "ensure_walk") /\ "ensure_walk" \in Labels
      /\ UNCHANGED <<tmp, mode, port, walk_fid, user_open_flags, pager, pager_fid, next_fid>>
  BY DEF EnsureClunk, At, node, Busy, IoPcs, Labels
<1>2. PICK p \in Protids : p = pi[t]
  BY <1>1, BusyTyped
<1>3. /\ io_fid' = [io_fid EXCEPT ![p] = NoFid]
      /\ server_open_flags' = [server_open_flags EXCEPT ![p] = {}] /\ Without(io_fid[p])
  BY <1>2 DEF EnsureClunk, Forget
<1>4. NoFid \in Nat /\ io_fid[p] \in Nat
  BY DEF FidInv, FidTypes, NoFid
<1>5. /\ DOMAIN fids' = DOMAIN fids \ {io_fid[p]} /\ Server(io_fid[p])
      /\ fids' \in [DOMAIN fids' -> SUBSET Modes]
  BY <1>3, <1>4, ServerWithout DEF FidInv
<1>6. FidTypes'
  BY <1>1, <1>3, <1>4, <1>5 DEF FidInv, FidTypes
<1>7. Holdings'
  <2>1. Puts(<<"io", p>>, NoFid) /\ <<"io", p>> \in Holders /\ Held(<<"io", p>>) = io_fid[p]
    BY <1>1, <1>3, <1>4, PutsIo, HeldIo DEF FidInv
  <2> QED
    BY <1>1, <1>5, <2>1, Drops DEF FidInv
<1>8. /\ io_fid'[p] = NoFid /\ server_open_flags'[p] = {}
      /\ \A q \in Protids \ {p} : server_open_flags'[q] = server_open_flags[q]
  BY <1>3 DEF FidInv, FidTypes
<1>9. pc'[t] = "ensure_walk" /\ op'[t] = op[t] /\ pi'[t] = p /\ Want(t)' = Want(t)
  BY <1>1, <1>2, OnlyGoto DEF Want
<1>10. ASSUME SteadyWalk(p), tmp[t] = NoFid PROVE Ready(t)'
  <2>1. op[t] = "getroot" => walk_fid'[p] \in DOMAIN fids'
    BY <1>1, <1>2, <1>10, RootWalk DEF SteadyWalk, Steady
  <2>2. Want(t) \subseteq mode[t] /\ op[t] # "reauth"
    BY <1>1, BusyTyped DEF FidInv, Ready, Opens, IoOps
  <2> QED
    BY <1>1, <1>8, <1>9, <1>10, <2>1, <2>2 DEF Ready, Makes, Opens, Temps, Maps, IoPcs
<1>11. ASSUME SteadyWalk(p) PROVE Sound(p)'
  <2>1. port[p] \in {"open", "dropped", "making"}
    BY <1>1, <1>2, BusyTyped
  <2> QED
    BY <1>1, <1>8, <1>11, <2>1 DEF FidInv, Sound, SteadyWalk, Steady
<1> QED
  BY <1>1, <1>2, <1>3, <1>4, <1>5, <1>6, <1>7, <1>8, <1>10, <1>11, IoStep

LEMMA EnsureWalkFids ==
  ASSUME Inv, FidInv, NEW t \in Threads, EnsureWalk(t)
  PROVE  FidInv'
<1>1. /\ pc[t] = "ensure_walk" /\ pc[t] \in Busy /\ pc[t] \in IoPcs /\ next_fid' = next_fid + 1
      /\ UNCHANGED <<tmp, port, walk_fid, server_open_flags, user_open_flags, pager, pager_fid>>
  BY DEF EnsureWalk, At, node, Busy, IoPcs, p9_fid_alloc
<1>2. PICK p \in Protids : p = pi[t]
  BY <1>1, BusyTyped
<1>3. CASE EnsureFails(t) /\ mode' = [mode EXCEPT ![t] = {}] /\ UNCHANGED <<fids, io_fid>>
  BY <1>1, <1>3, EnsureFailsFids
<1>4. CASE /\ With(next_fid + 1, {}) /\ io_fid' = [io_fid EXCEPT ![p] = next_fid + 1]
           /\ Goto(t, "ensure_open") /\ UNCHANGED mode
  <2>1. next_fid + 1 \in Nat /\ next_fid + 1 # NoFid /\ {} \in SUBSET Modes /\ "ensure_open" \in Labels
    BY DEF FidInv, FidTypes, NoFid, Labels
  <2>2. /\ DOMAIN fids' = DOMAIN fids \cup {next_fid + 1} /\ Server(next_fid + 1)
        /\ fids' \in [DOMAIN fids' -> SUBSET Modes]
    BY <1>4, <2>1, ServerWith DEF FidInv
  <2>3. FidTypes'
    BY <1>1, <1>4, <2>1, <2>2 DEF FidInv, FidTypes
  <2>4. io_fid[p] = NoFid /\ server_open_flags[p] = {} /\ Want(t) \subseteq mode[t] /\ op[t] # "reauth"
    BY <1>1, <1>2, BusyTyped DEF FidInv, Ready, Opens, IoOps
  <2>5. Holdings'
    <3>1. Puts(<<"io", p>>, next_fid + 1) /\ <<"io", p>> \in Holders /\ Held(<<"io", p>>) = io_fid[p]
      BY <1>1, <1>4, <2>1, PutsIo, HeldIo DEF FidInv
    <3>2. NoFid \notin DOMAIN fids
      BY DEF FidInv, Holdings, NoFid
    <3> QED
      BY <1>1, <2>2, <2>4, <3>1, <3>2, Gives DEF FidInv
  <2>6. io_fid'[p] = next_fid + 1
    BY <1>4 DEF FidInv, FidTypes
  <2>7. pc'[t] = "ensure_open" /\ op'[t] = op[t] /\ pi'[t] = p /\ Want(t)' = Want(t)
    BY <1>1, <1>2, <1>4, <2>1, OnlyGoto DEF Want
  <2>8. ASSUME SteadyWalk(p), tmp[t] = NoFid PROVE Ready(t)'
    <3>1. op[t] = "getroot" => walk_fid'[p] \in DOMAIN fids'
      BY <1>1, <1>2, <2>8, RootWalk DEF SteadyWalk, Steady
    <3> QED
      BY <1>1, <1>4, <2>1, <2>4, <2>6, <2>7, <2>8, <3>1 DEF Ready, Makes, Opens, Temps, Maps, IoPcs
  <2>9. ASSUME SteadyWalk(p) PROVE Sound(p)'
    <3>1. port[p] \in {"open", "dropped", "making"}
      BY <1>1, <1>2, BusyTyped
    <3> QED
      BY <1>1, <2>2, <2>4, <2>6, <2>9, <3>1 DEF FidInv, Sound, SteadyWalk, Steady
  <2> QED
    BY <1>1, <1>2, <1>4, <2>1, <2>2, <2>3, <2>5, <2>8, <2>9, IoStep
<1> QED
  BY <1>2, <1>3, <1>4 DEF EnsureWalk, p9_fid_alloc

LEMMA EnsureTopenFids ==
  ASSUME Inv, FidInv, NEW t \in Threads, EnsureTopen(t)
  PROVE  FidInv'
<1>1. /\ pc[t] = "ensure_open" /\ pc[t] \in Busy /\ pc[t] \in IoPcs /\ mode' = [mode EXCEPT ![t] = {}]
      /\ UNCHANGED <<tmp, port, walk_fid, io_fid, user_open_flags, pager, pager_fid, next_fid>>
  BY DEF EnsureTopen, At, node, Busy, IoPcs
<1>2. PICK p \in Protids : p = pi[t]
  BY <1>1, BusyTyped
<1>3. CASE EnsureFails(t) /\ UNCHANGED <<fids, server_open_flags>>
  BY <1>1, <1>3, EnsureFailsFids
<1>4. CASE /\ With(io_fid[p], mode[t])
           /\ server_open_flags' = [server_open_flags EXCEPT ![p] = @ \cup Want(t)]
           /\ Goto(t, "use")
  <2>1. io_fid[p] \in Nat /\ mode[t] \in SUBSET Modes /\ "use" \in Labels
    BY DEF FidInv, FidTypes, Labels
  <2>2. /\ DOMAIN fids' = DOMAIN fids \cup {io_fid[p]} /\ fids'[io_fid[p]] = mode[t] /\ Server(io_fid[p])
        /\ fids' \in [DOMAIN fids' -> SUBSET Modes]
    BY <1>4, <2>1, ServerWith DEF FidInv
  <2>3. /\ server_open_flags' \in [Protids -> SUBSET Modes]
        /\ server_open_flags'[p] = server_open_flags[p] \cup Want(t)
        /\ \A q \in Protids \ {p} : server_open_flags'[q] = server_open_flags[q]
    BY <1>4, WantTyped DEF FidInv, FidTypes
  <2>4. mode' \in [Threads -> SUBSET Modes] /\ \A u \in Threads \ {t} : mode'[u] = mode[u]
    BY <1>1 DEF FidInv, FidTypes
  <2>5. FidTypes'
    BY <1>1, <2>2, <2>3, <2>4 DEF FidInv, FidTypes
  <2>6. io_fid[p] # NoFid /\ server_open_flags[p] = {} /\ Want(t) \subseteq mode[t] /\ op[t] # "reauth"
    BY <1>1, <1>2, BusyTyped DEF FidInv, Ready, Opens, IoOps
  <2>7. io_fid' = [io_fid EXCEPT ![p] = io_fid[p]]
    BY <1>1 DEF FidInv, FidTypes
  <2>8. Holdings'
    <3>1. Puts(<<"io", p>>, io_fid[p]) /\ <<"io", p>> \in Holders /\ Held(<<"io", p>>) = io_fid[p]
      BY <1>1, <2>1, <2>7, PutsIo, HeldIo DEF FidInv
    <3> QED
      BY <1>1, <2>2, <2>6, <3>1, Makings DEF FidInv
  <2>9. pc'[t] = "use" /\ op'[t] = op[t] /\ pi'[t] = p /\ Want(t)' = Want(t)
    BY <1>1, <1>2, <1>4, <2>1, OnlyGoto DEF Want
  <2>10. ASSUME SteadyWalk(p), tmp[t] = NoFid PROVE Ready(t)'
    <3>1. op[t] = "getroot" => walk_fid'[p] \in DOMAIN fids'
      BY <1>1, <1>2, <2>10, RootWalk DEF SteadyWalk, Steady
    <3>2. op[t] = "sync" => Want(t) # {}
      BY DEF Want
    <3> QED
      BY <1>1, <2>3, <2>6, <2>9, <2>10, <3>1, <3>2 DEF Ready, Makes, Opens, Temps, Maps, IoPcs
  <2>11. ASSUME SteadyWalk(p) PROVE Sound(p)'
    <3>1. port[p] \in {"open", "dropped", "making"}
      BY <1>1, <1>2, BusyTyped
    <3> QED
      BY <1>1, <2>2, <2>3, <2>6, <2>11, <3>1 DEF FidInv, Sound, SteadyWalk, Steady
  <2> QED
    BY <1>1, <1>2, <1>4, <2>1, <2>2, <2>3, <2>4, <2>5, <2>7, <2>8, <2>10, <2>11, IoStep
<1> QED
  BY <1>2, <1>3, <1>4 DEF EnsureTopen

(***************************************************************************)
(* Protids that are made and released.                                     *)
(***************************************************************************)
(* A fid that may be there is clunked.                                     *)
LEMMA MaybeClunked ==
  ASSUME FidInv, NEW f \in Nat, IF f # NoFid THEN Without(f) ELSE UNCHANGED fids
  PROVE  DOMAIN fids' = DOMAIN fids \ {f} /\ Server(f) /\ fids' \in [DOMAIN fids' -> SUBSET Modes]
<1>1. CASE f # NoFid
  BY <1>1, ServerWithout DEF FidInv
<1>2. CASE f = NoFid
  <2>1. f \notin DOMAIN fids
    BY <1>2 DEF FidInv, Holdings, NoFid
  <2> QED
    BY <1>2, <2>1 DEF Server, FidInv, FidTypes
<1> QED
  BY <1>1, <1>2

LEMMA ReleaseIoFids ==
  ASSUME Inv, FidInv, NEW t \in Threads, ReleaseIo(t)
  PROVE  FidInv'
<1>1. /\ pc[t] = "release_io" /\ pc[t] \in Busy
      /\ Goto(t, "release_peropen") /\ "release_peropen" \in Labels
      /\ UNCHANGED <<tmp, mode, port, walk_fid, user_open_flags, pager, pager_fid, next_fid>>
  BY DEF ReleaseIo, At, node, Busy, Labels
<1>2. PICK p \in Protids : p = pi[t]
  BY <1>1, BusyTyped
<1>3. /\ io_fid' = [io_fid EXCEPT ![p] = NoFid]
      /\ server_open_flags' = [server_open_flags EXCEPT ![p] = {}]
      /\ IF io_fid[p] # NoFid THEN Without(io_fid[p]) ELSE UNCHANGED fids
  BY <1>2 DEF ReleaseIo, Forget
<1>4. NoFid \in Nat /\ io_fid[p] \in Nat
  BY DEF FidInv, FidTypes, NoFid
<1>5. /\ DOMAIN fids' = DOMAIN fids \ {io_fid[p]} /\ Server(io_fid[p])
      /\ fids' \in [DOMAIN fids' -> SUBSET Modes]
  BY <1>3, <1>4, MaybeClunked
<1>6. FidTypes'
  BY <1>1, <1>3, <1>4, <1>5 DEF FidInv, FidTypes
<1>7. Holdings'
  <2>1. Puts(<<"io", p>>, NoFid) /\ <<"io", p>> \in Holders /\ Held(<<"io", p>>) = io_fid[p]
    BY <1>1, <1>3, <1>4, PutsIo, HeldIo DEF FidInv
  <2> QED
    BY <1>1, <1>5, <2>1, Drops DEF FidInv
<1>8. /\ io_fid'[p] = NoFid /\ server_open_flags'[p] = {}
      /\ \A q \in Protids \ {p} : server_open_flags'[q] = server_open_flags[q]
  BY <1>3 DEF FidInv, FidTypes
<1>9. pc'[t] = "release_peropen" /\ op'[t] = op[t] /\ pi'[t] = p
  BY <1>1, <1>2, OnlyGoto
<1>10. ASSUME tmp[t] = NoFid PROVE Ready(t)'
  <2>1. walk_fid[p] = NoFid /\ op[t] # "reauth"
    BY <1>1, <1>2, BusyTyped DEF FidInv, Ready, Makes, IoOps
  <2> QED
    BY <1>1, <1>8, <1>9, <1>10, <2>1 DEF Ready, Makes, Opens, Temps, Maps, IoPcs
<1>11. ASSUME SteadyWalk(p) PROVE Sound(p)'
  <2>1. port[p] \in {"open", "dropped", "making"}
    BY <1>1, <1>2, BusyTyped
  <2> QED
    BY <1>1, <1>8, <1>11, <2>1 DEF FidInv, Sound, SteadyWalk, Steady
<1> QED
  BY <1>1, <1>2, <1>3, <1>4, <1>5, <1>6, <1>7, <1>8, <1>10, <1>11, IoStep

(* A step on the walk fid of the call's own protid.                        *)
LEMMA WalkStep ==
  ASSUME Inv, FidInv, FidTypes', Holdings', Apart', NEW t \in Threads, Alone(t), pc[t] \notin {"tmp_use", "tmp_clunk"},
         NEW p \in Protids, Mine(t, p), NEW f \in Nat, NEW g \in {walk_fid[p], f}, Server(g),
         walk_fid' = [walk_fid EXCEPT ![p] = f], UNCHANGED <<io_fid, tmp, server_open_flags, pager, pager_fid>>,
         \A q \in Protids \ {p} : port'[q] = port[q],
         SteadyIo(p) /\ tmp'[t] = NoFid => Ready(t)' /\ Sound(p)'
  PROVE  FidInv'
<1>1. Puts(<<"walk", p>>, f) /\ Held(<<"walk", p>>) = walk_fid[p]
  BY PutsWalk, HeldWalk DEF FidInv
<1>2. /\ \A u \in Threads \ {t} : Ready(u)'
      /\ \A q \in Protids \ {p} : Sound(q)'
      /\ Paging' /\ SteadyIo(p)
  <2> DEFINE h == <<"walk", p>>
  <2>1. h \in {<<"walk", p>>, <<"io", p>>} /\ Puts(h, f) /\ g \in {Held(h), f} /\ h = <<"walk", p>>
    BY <1>1
  <2> HIDE DEF h
  <2>2. \A q \in Protids \ {p} : server_open_flags'[q] = server_open_flags[q] /\ port'[q] = port[q]
    OBVIOUS
  <2> QED
    BY <2>1, <2>2, FrameProtid
<1>3. tmp'[t] = NoFid
  BY TmpNone
<1>4. (\A u \in Threads : Ready(u)') /\ \A q \in Protids : Sound(q)'
  BY <1>2, <1>3
<1> QED
  BY <1>2, <1>4 DEF FidInv

LEMMA ReleaseWalkFids ==
  ASSUME Inv, FidInv, NEW t \in Threads, ReleaseWalk(t)
  PROVE  FidInv'
<1>1. /\ pc[t] = "release_walk" /\ pc[t] \in Busy
      /\ Goto(t, "release_io") /\ "release_io" \in Labels
      /\ UNCHANGED <<tmp, mode, port, io_fid, server_open_flags, user_open_flags, pager, pager_fid, next_fid>>
  BY DEF ReleaseWalk, At, node, Busy, Labels
<1>2. PICK p \in Protids : p = pi[t]
  BY <1>1, BusyTyped
<1>3. /\ walk_fid' = [walk_fid EXCEPT ![p] = NoFid]
      /\ IF walk_fid[p] # NoFid THEN Without(walk_fid[p]) ELSE UNCHANGED fids
  BY <1>2 DEF ReleaseWalk
<1>4. NoFid \in Nat /\ walk_fid[p] \in Nat
  BY DEF FidInv, FidTypes, NoFid
<1>5. /\ DOMAIN fids' = DOMAIN fids \ {walk_fid[p]} /\ Server(walk_fid[p])
      /\ fids' \in [DOMAIN fids' -> SUBSET Modes]
  BY <1>3, <1>4, MaybeClunked
<1>6. FidTypes'
  BY <1>1, <1>3, <1>4, <1>5 DEF FidInv, FidTypes
<1>7. Holdings'
  <2>1. Puts(<<"walk", p>>, NoFid) /\ <<"walk", p>> \in Holders /\ Held(<<"walk", p>>) = walk_fid[p]
    BY <1>1, <1>3, <1>4, PutsWalk, HeldWalk DEF FidInv
  <2> QED
    BY <1>1, <1>5, <2>1, Drops DEF FidInv
<1>8. walk_fid'[p] = NoFid
  BY <1>3 DEF FidInv, FidTypes
<1>9. Only(t) /\ pc'[t] = "release_io" /\ op'[t] = op[t] /\ pi'[t] = p
  BY <1>1, <1>2, OnlyGoto
<1>10. Alone(t) /\ Mine(t, p) /\ Apart'
  BY <1>1, <1>2, <1>9, WantStill, BusyMine, ApartStill DEF Alone, FidInv
<1>11. op[t] \in {"getroot", "release"} /\ port[p] = "making"
  <2>1. op[t] \in {"getroot", "release"}
    BY <1>1 DEF Inv, Control, Fits, ReleasePcs
  <2> QED
    BY <1>1, <1>2, <2>1, BusyTyped DEF IoOps
<1>12. ASSUME tmp'[t] = NoFid PROVE Ready(t)'
  BY <1>1, <1>8, <1>9, <1>11, <1>12 DEF Ready, Makes, Opens, Temps, Maps, IoPcs
<1>13. ASSUME SteadyIo(p) PROVE Sound(p)'
  BY <1>1, <1>8, <1>11, <1>13 DEF FidInv, Sound, SteadyIo, Steady
<1> QED
  BY <1>1, <1>3, <1>4, <1>5, <1>6, <1>7, <1>10, <1>12, <1>13, WalkStep

(* A refused attach leaves no fid behind.                                  *)
LEMMA AttachFids ==
  ASSUME Inv, FidInv, NEW t \in Threads, Attach(t)
  PROVE  FidInv'
<1>1. /\ pc[t] = "attach" /\ pc[t] \in Busy /\ op[t] = "getroot"
      /\ UNCHANGED <<tmp, mode, port, io_fid, server_open_flags, user_open_flags, pager, pager_fid, next_fid>>
  BY DEF Attach, At, node, Busy, Inv, Control, Fits
<1>2. PICK p \in Protids : p = pi[t]
  BY <1>1, BusyTyped
<1>3. port[p] = "making" /\ walk_fid[p] # NoFid /\ walk_fid[p] \notin DOMAIN fids
  BY <1>1, <1>2, BusyTyped DEF IoOps, FidInv, Ready, Makes
<1>4. NoFid \in Nat /\ walk_fid[p] \in Nat /\ {} \in SUBSET Modes
  BY DEF FidInv, FidTypes, NoFid
<1>5. Mine(t, p)
  BY <1>1, <1>2, BusyMine DEF FidInv
<1>6. <<"walk", p>> \in Holders /\ Held(<<"walk", p>>) = walk_fid[p]
  BY HeldWalk
<1>7. CASE With(walk_fid[p], {}) /\ Goto(t, "ensure") /\ UNCHANGED walk_fid
  <2>1. /\ DOMAIN fids' = DOMAIN fids \cup {walk_fid[p]} /\ Server(walk_fid[p])
        /\ fids' \in [DOMAIN fids' -> SUBSET Modes]
    BY <1>4, <1>7, ServerWith DEF FidInv
  <2>2. FidTypes' /\ walk_fid' = [walk_fid EXCEPT ![p] = walk_fid[p]]
    BY <1>1, <1>7, <2>1 DEF FidInv, FidTypes
  <2>3. Puts(<<"walk", p>>, walk_fid[p])
    BY <1>1, <1>4, <2>2, PutsWalk DEF FidInv
  <2>4. Holdings'
    BY <1>1, <1>3, <1>6, <2>1, <2>3, Makings DEF FidInv
  <2>5. "ensure" \in Labels
    BY DEF Labels
  <2>6. Only(t) /\ pc'[t] = "ensure" /\ op'[t] = op[t] /\ pi'[t] = p
    BY <1>2, <1>7, <2>5, OnlyGoto
  <2>7. Alone(t) /\ Apart'
    BY <1>1, <1>2, <2>6, WantStill, ApartStill DEF Alone, FidInv
  <2>8. ASSUME tmp'[t] = NoFid PROVE Ready(t)'
    BY <1>1, <1>7, <2>1, <2>6, <2>8 DEF Ready, Makes, Opens, Temps, Maps
  <2>9. ASSUME SteadyIo(p) PROVE Sound(p)'
    BY <1>1, <1>3, <2>9 DEF FidInv, Sound, SteadyIo, Steady
  <2> QED
    BY <1>1, <1>4, <1>5, <2>1, <2>2, <2>4, <2>7, <2>8, <2>9, WalkStep
<1>8. CASE walk_fid' = [walk_fid EXCEPT ![p] = NoFid] /\ Goto(t, "release_walk") /\ UNCHANGED fids
  <2>1. FidTypes' /\ walk_fid'[p] = NoFid
    BY <1>1, <1>4, <1>8 DEF FidInv, FidTypes
  <2>2. Puts(<<"walk", p>>, NoFid)
    BY <1>1, <1>4, <1>8, PutsWalk DEF FidInv
  <2>3. Holdings'
    BY <1>1, <1>3, <1>6, <1>8, <2>2, Drops DEF FidInv
  <2>4. "release_walk" \in Labels
    BY DEF Labels
  <2>5. Only(t) /\ pc'[t] = "release_walk" /\ op'[t] = op[t] /\ pi'[t] = p
    BY <1>2, <1>8, <2>4, OnlyGoto
  <2>6. Alone(t) /\ Apart'
    BY <1>1, <1>2, <2>5, WantStill, ApartStill DEF Alone, FidInv
  <2>7. ASSUME tmp'[t] = NoFid PROVE Ready(t)'
    BY <1>1, <2>1, <2>5, <2>7 DEF Ready, Makes, Opens, Temps, Maps, IoPcs
  <2>8. ASSUME SteadyIo(p) PROVE Sound(p)'
    BY <1>1, <1>3, <2>8 DEF FidInv, Sound, SteadyIo, Steady
  <2>9. Server(walk_fid[p])
    BY <1>8, ServerSame
  <2> QED
    BY <1>1, <1>4, <1>5, <1>8, <2>1, <2>3, <2>6, <2>7, <2>8, <2>9, WalkStep
<1> QED
  BY <1>2, <1>7, <1>8 DEF Attach

LEMMA BeginGetrootFids ==
  ASSUME Inv, FidInv, NEW t \in Threads, NEW p \in Protids, NEW flags \in SUBSET Modes, BeginGetroot(t, p, flags)
  PROVE  FidInv'
<1>1. /\ hard = 0 /\ Start(t, "getroot", p, "attach") /\ port' = [port EXCEPT ![p] = "making"]
      /\ next_fid' = next_fid + 1 /\ walk_fid' = [walk_fid EXCEPT ![p] = next_fid + 1]
      /\ user_open_flags' = flags
      /\ UNCHANGED <<new_pi, tmp, mode, io_fid, server_open_flags, pager, pager_fid, fids>>
  BY DEF BeginGetroot, Call, Start, p9_fid_alloc
<1>2. ~Rooting /\ \A q \in Protids : port[q] = "none"
  BY <1>1, RefsLow DEF Inv
<1>3. "attach" \in Labels /\ "getroot" \in Ops
  BY DEF Labels, Ops
<1>4. Only(t) /\ pc'[t] = "attach" /\ op'[t] = "getroot" /\ pi'[t] = p /\ pc[t] = "idle"
  BY <1>1, <1>3, OnlyStart
<1>5. next_fid + 1 \in Nat /\ next_fid + 1 # NoFid /\ next_fid + 1 \notin DOMAIN fids
  BY DEF FidInv, FidTypes, Holdings, NoFid
<1>6. FidTypes' /\ walk_fid'[p] = next_fid + 1 /\ port'[p] = "making" /\ \A q \in Protids \ {p} : port'[q] = port[q]
  BY <1>1, <1>5 DEF FidInv, FidTypes, Inv, Control, ControlTypes
<1>7. walk_fid[p] = NoFid /\ io_fid[p] = NoFid
  BY <1>2 DEF FidInv, Sound
<1>8. Holdings'
  <2>1. Puts(<<"walk", p>>, next_fid + 1) /\ <<"walk", p>> \in Holders /\ Held(<<"walk", p>>) = walk_fid[p]
    BY <1>1, <1>5, PutsWalk, HeldWalk DEF FidInv
  <2>2. NoFid \notin DOMAIN fids
    BY DEF FidInv, Holdings, NoFid
  <2> QED
    BY <1>1, <1>7, <2>1, <2>2, Gives DEF FidInv
<1>9. Alone(t)
  <2>1. \A u \in Threads \ {t} : Want(u)' = Want(u)
    BY <1>2, <1>4 DEF Want, Only, Rooting
  <2> QED
    BY <1>1, <1>4, <2>1 DEF Alone
<1>10. Apart' /\ Mine(t, p)
  BY <1>2, <1>4, ApartStill, NoneMine DEF FidInv, IoOps
<1>11. ASSUME tmp'[t] = NoFid PROVE Ready(t)'
  BY <1>1, <1>4, <1>5, <1>6, <1>11 DEF Ready, Makes, Opens, Temps, Maps, IoPcs
<1>12. ASSUME SteadyIo(p) PROVE Sound(p)'
  BY <1>1, <1>6, <1>7, <1>12 DEF FidInv, Sound, SteadyIo, Steady
<1>13. Server(walk_fid[p])
  BY <1>1, ServerSame
<1> QED
  BY <1>1, <1>4, <1>5, <1>6, <1>8, <1>9, <1>10, <1>11, <1>12, <1>13, WalkStep

LEMMA ReauthWalkFids ==
  ASSUME Inv, FidInv, NEW t \in Threads, ReauthWalk(t)
  PROVE  FidInv'
<1>1. /\ pc[t] = "reauth_walk" /\ op[t] = "reauth" /\ Finish(t) /\ next_fid' = next_fid + 1
      /\ UNCHANGED <<tmp, mode, io_fid, server_open_flags, user_open_flags, pager, pager_fid>>
  BY DEF ReauthWalk, At, node, p9_fid_alloc, Inv, Control, Fits
<1>2. PICK p \in Protids : p = new_pi[t]
  BY <1>1, ReauthTyped
<1>3. walk_fid[p] = NoFid /\ io_fid[p] = NoFid /\ Mine(t, p)
  BY <1>1, <1>2, ReauthMine DEF FidInv, Ready, Makes
<1>4. Only(t) /\ pc'[t] = "idle" /\ op'[t] = "none"
  BY <1>1, OnlyFinish
<1>5. Alone(t) /\ Apart'
  BY <1>1, <1>4, WantStill, ApartStill DEF Alone, FidInv, IoOps
<1>6. /\ NoFid \in Nat /\ next_fid + 1 \in Nat /\ next_fid + 1 # NoFid /\ {} \in SUBSET Modes
      /\ NoFid \notin DOMAIN fids
  BY DEF FidInv, FidTypes, Holdings, NoFid
<1>7. ASSUME tmp'[t] = NoFid PROVE Ready(t)'
  BY <1>4, <1>7, ReadyIdle
<1>8. server_open_flags[p] = {}
  BY <1>3 DEF FidInv, Sound
<1>9. CASE /\ With(next_fid + 1, {}) /\ walk_fid' = [walk_fid EXCEPT ![p] = next_fid + 1]
           /\ port' = [port EXCEPT ![p] = "open"]
  <2>1. /\ DOMAIN fids' = DOMAIN fids \cup {next_fid + 1} /\ Server(next_fid + 1)
        /\ fids' \in [DOMAIN fids' -> SUBSET Modes]
    BY <1>6, <1>9, ServerWith DEF FidInv
  <2>2. FidTypes' /\ walk_fid'[p] = next_fid + 1 /\ port'[p] = "open" /\ \A q \in Protids \ {p} : port'[q] = port[q]
    BY <1>1, <1>6, <1>9, <2>1 DEF FidInv, FidTypes, Inv, Control, ControlTypes
  <2>3. Holdings'
    <3>1. Puts(<<"walk", p>>, next_fid + 1) /\ <<"walk", p>> \in Holders /\ Held(<<"walk", p>>) = walk_fid[p]
      BY <1>1, <1>6, <1>9, PutsWalk, HeldWalk DEF FidInv
    <3> QED
      BY <1>1, <1>3, <1>6, <2>1, <3>1, Gives DEF FidInv
  <2>4. Sound(p)'
    BY <1>1, <1>3, <1>8, <2>1, <2>2 DEF Sound
  <2> QED
    BY <1>1, <1>3, <1>5, <1>6, <1>7, <1>9, <2>1, <2>2, <2>3, <2>4, WalkStep
<1>10. CASE port' = [port EXCEPT ![p] = "orphan"] /\ UNCHANGED <<fids, walk_fid>>
  <2>1. /\ FidTypes' /\ walk_fid' = [walk_fid EXCEPT ![p] = NoFid] /\ port'[p] = "orphan"
        /\ \A q \in Protids \ {p} : port'[q] = port[q]
    BY <1>1, <1>3, <1>6, <1>10 DEF FidInv, FidTypes, Inv, Control, ControlTypes
  <2>2. Holdings'
    BY <1>1, <1>10, Leaves DEF FidInv
  <2>3. Sound(p)'
    BY <1>1, <1>3, <1>8, <1>10, <2>1 DEF Sound
  <2>4. Server(NoFid)
    BY <1>10, ServerSame
  <2> QED
    BY <1>1, <1>3, <1>5, <1>6, <1>7, <2>1, <2>2, <2>3, <2>4, WalkStep
<1> QED
  BY <1>2, <1>9, <1>10 DEF ReauthWalk, p9_fid_alloc

(* A step that changes what a protid or the pager is, and no fid.          *)
LEMMA PortStep ==
  ASSUME Inv, FidInv, NEW t \in Threads, Only(t),
         UNCHANGED <<walk_fid, io_fid, tmp, mode, pager_fid, fids, next_fid, server_open_flags, user_open_flags>>,
         op'[t] \in IoOps \cup {"sync"} => op'[t] = op[t] /\ pi'[t] = pi[t],
         \A q \in Protids : port'[q] = port[q] \/ Sound(q)',
         pager' = pager \/ Paging',
         Ready(t)'
  PROVE  FidInv'
<1>1. FidTypes'
  BY DEF FidInv, FidTypes
<1>2. Holdings'
  BY Leaves DEF FidInv
<1>3. Apart'
  BY ApartStill DEF FidInv
<1>4. Alone(t)
  BY WantStill DEF Alone
<1>5. Paging' /\ (\A p \in Protids : Sound(p)') /\ \A u \in Threads \ {t} : Ready(u)'
  BY <1>4, FrameNone
<1> QED
  BY <1>1, <1>2, <1>3, <1>5 DEF FidInv

LEMMA BeginReauthFids ==
  ASSUME Inv, FidInv, NEW t \in Threads, NEW p \in Protids, NEW new \in Protids, BeginReauth(t, p, new)
  PROVE  FidInv'
<1>1. /\ port[new] = "none" /\ Start(t, "reauth", p, "reauth_walk")
      /\ new_pi' = [new_pi EXCEPT ![t] = new] /\ port' = [port EXCEPT ![new] = "making"]
      /\ UNCHANGED <<walk_fid, io_fid, tmp, mode, pager, pager_fid, fids, next_fid, server_open_flags, user_open_flags>>
  BY DEF BeginReauth, Call, Start, server
<1>2. "reauth_walk" \in Labels /\ "reauth" \in Ops /\ p \in Protids \cup {None} /\ new \in Protids \cup {None}
  BY DEF Labels, Ops
<1>3. /\ Only(t) /\ pc'[t] = "reauth_walk" /\ op'[t] = "reauth" /\ new_pi'[t] = new /\ pc[t] = "idle"
  BY <1>1, <1>2 DEF Start, Idle, Only, Inv, Control, ControlTypes, Making, Made, Fits
<1>4. port'[new] = "making" /\ \A q \in Protids \ {new} : port'[q] = port[q]
  BY <1>1 DEF Inv, Control, ControlTypes
<1>5. walk_fid[new] = NoFid /\ io_fid[new] = NoFid /\ tmp[t] = NoFid
  BY <1>1, <1>3, TmpNone DEF FidInv, Sound
<1>6. Sound(new)'
  BY <1>1, <1>4, <1>5 DEF FidInv, Sound
<1>7. Ready(t)'
  BY <1>1, <1>3, <1>5 DEF Ready, Makes, Opens, Temps, Maps, IoPcs
<1> QED
  BY <1>1, <1>3, <1>4, <1>6, <1>7, PortStep DEF IoOps

LEMMA BeginReleaseFids ==
  ASSUME Inv, FidInv, NEW t \in Threads, NEW p \in Protids, BeginRelease(t, p)
  PROVE  FidInv'
<1>1. /\ port[p] = "dropped" /\ Start(t, "release", p, "release_walk") /\ port' = [port EXCEPT ![p] = "making"]
      /\ UNCHANGED <<new_pi, walk_fid, io_fid, tmp, mode, pager, pager_fid, fids, next_fid, server_open_flags,
                     user_open_flags>>
  BY DEF BeginRelease, Start, node, server
<1>2. "release_walk" \in Labels /\ "release" \in Ops
  BY DEF Labels, Ops
<1>3. Only(t) /\ pc'[t] = "release_walk" /\ op'[t] = "release" /\ pi'[t] = p /\ pc[t] = "idle"
  BY <1>1, <1>2, OnlyStart
<1>4. port'[p] = "making" /\ \A q \in Protids \ {p} : port'[q] = port[q]
  BY <1>1 DEF Inv, Control, ControlTypes
<1>5. walk_fid[p] \in DOMAIN fids /\ tmp[t] = NoFid
  BY <1>1, <1>3, TmpNone DEF FidInv, Sound
<1>6. Sound(p)'
  BY <1>1, <1>4 DEF FidInv, Sound
<1>7. Ready(t)'
  BY <1>1, <1>3, <1>5 DEF Ready, Makes, Opens, Temps, Maps, IoPcs
<1> QED
  BY <1>1, <1>3, <1>4, <1>6, <1>7, PortStep DEF IoOps

(* A released protid has no fid left.                                      *)
LEMMA ReleasePeropenFids ==
  ASSUME Inv, FidInv, NEW t \in Threads, ReleasePeropen(t)
  PROVE  FidInv'
<1>1. /\ pc[t] = "release_peropen" /\ pc[t] \in Busy /\ op[t] \in {"release", "getroot"}
      /\ port' = [port EXCEPT ![pi[t]] = "none"]
      /\ UNCHANGED <<walk_fid, io_fid, tmp, mode, pager, pager_fid, fids, next_fid, server_open_flags, user_open_flags>>
  BY DEF ReleasePeropen, At, server, Busy, Inv, Control, Fits, ReleasePcs
<1>2. PICK p \in Protids : p = pi[t]
  BY <1>1, BusyTyped
<1>3. port'[p] = "none" /\ \A q \in Protids \ {p} : port'[q] = port[q]
  BY <1>1, <1>2 DEF Inv, Control, ControlTypes
<1>4. walk_fid[p] = NoFid /\ io_fid[p] = NoFid /\ tmp[t] = NoFid
  BY <1>1, <1>2, TmpNone DEF FidInv, Ready, Makes
<1>5. Sound(p)'
  BY <1>1, <1>3, <1>4 DEF FidInv, Sound
<1>6. Only(t) /\ pc'[t] \in {"idle", "put"} /\ op'[t] \in {"none", "release", "getroot"}
  <2>1. "put" \in Labels
    BY DEF Labels
  <2>2. Finish(t) \/ Goto(t, "put")
    BY DEF ReleasePeropen
  <2> QED
    BY <1>1, <2>1, <2>2, OnlyFinish, OnlyGoto
<1>7. Ready(t)'
  BY <1>1, <1>4, <1>6 DEF Ready, Makes, Opens, Temps, Maps, IoPcs
<1> QED
  BY <1>1, <1>3, <1>5, <1>6, <1>7, PortStep DEF IoOps

LEMMA ReleaseNodeFids ==
  ASSUME Inv, FidInv, NEW t \in Threads, ReleaseNode(t)
  PROVE  FidInv'
<1>1. /\ pc[t] = "put" /\ op[t] \in {"release", "getroot"}
      /\ UNCHANGED <<walk_fid, io_fid, tmp, mode, port, pager, pager_fid, fids, next_fid, server_open_flags,
                     user_open_flags>>
  BY DEF ReleaseNode, At, protids, server, Inv, Control, Fits, ReleasePcs
<1>2. Only(t) /\ pc'[t] \in {"idle", "nrele"} /\ op'[t] \in {"none", "release", "getroot"}
  <2>1. "nrele" \in Labels
    BY DEF Labels
  <2>2. Finish(t) \/ Goto(t, "nrele")
    BY DEF ReleaseNode
  <2> QED
    BY <1>1, <2>1, <2>2, OnlyFinish, OnlyGoto
<1>3. Ready(t)'
  BY <1>1, <1>2, TmpNone DEF Ready, Makes, Opens, Temps, Maps, IoPcs
<1> QED
  BY <1>1, <1>2, <1>3, PortStep DEF IoOps

LEMMA GetrootEndFids ==
  ASSUME Inv, FidInv, NEW t \in Threads, GetrootDone(t) \/ GetrootFailed(t)
  PROVE  FidInv'
<1>1. /\ pc[t] \in {"use", "nrele"} /\ op[t] = "getroot" /\ Finish(t)
      /\ UNCHANGED <<walk_fid, io_fid, tmp, mode, pager, pager_fid, fids, next_fid, server_open_flags, user_open_flags>>
      /\ \/ pc[t] = "use" /\ port' = [port EXCEPT ![pi[t]] = "open"]
         \/ pc[t] = "nrele" /\ port' = port
  BY DEF GetrootDone, GetrootFailed, At, protids, server, Inv, Control, Fits
<1>2. Only(t) /\ pc'[t] = "idle" /\ op'[t] = "none"
  BY <1>1, OnlyFinish
<1>3. Ready(t)'
  BY <1>1, <1>2, TmpNone, ReadyIdle
<1>4. ASSUME NEW q \in Protids PROVE port'[q] = port[q] \/ Sound(q)'
  <2>1. CASE pc[t] = "use" /\ q = pi[t]
    <3>1. walk_fid[q] \in DOMAIN fids
      BY <1>1, <2>1, RootWalk DEF IoPcs
    <3>2. port'[q] = "open"
      BY <1>1, <2>1 DEF Inv, Control, ControlTypes
    <3> QED
      BY <1>1, <3>1, <3>2 DEF FidInv, Sound
  <2>2. CASE ~(pc[t] = "use" /\ q = pi[t])
    BY <1>1, <2>2 DEF Inv, Control, ControlTypes
  <2> QED
    BY <2>1, <2>2
<1> QED
  BY <1>1, <1>2, <1>3, <1>4, PortStep DEF IoOps

LEMMA OnlyNone ==
  ASSUME Inv, NEW t \in Threads, UNCHANGED <<pc, op, pi, new_pi>>
  PROVE  Only(t) /\ pc'[t] = pc[t] /\ op'[t] = op[t] /\ pi'[t] = pi[t]
BY DEF Only, Inv, Control, ControlTypes, Making, Made

LEMMA IdleFids ==
  ASSUME Inv, FidInv, NEW t \in Threads, GetrootNoMemory(t) \/ pager_dropweak(t)
  PROVE  FidInv'
<1>1. /\ pc[t] = "idle" /\ UNCHANGED <<pc, op, pi, new_pi>> /\ pager' \in {pager, FALSE}
      /\ UNCHANGED <<walk_fid, io_fid, tmp, mode, port, pager_fid, fids, next_fid, server_open_flags, user_open_flags>>
  BY DEF GetrootNoMemory, pager_dropweak, Idle, thread, protids, server
<1>2. Only(t) /\ pc'[t] = pc[t] /\ op'[t] = op[t] /\ pi'[t] = pi[t]
  BY <1>1, OnlyNone
<1>3. pager' = pager \/ Paging'
  BY <1>1 DEF Paging
<1>4. Ready(t)'
  BY <1>1, TmpNone, ReadyIdle DEF Inv, Control, Fits
<1> QED
  BY <1>1, <1>2, <1>3, <1>4, PortStep

LEMMA DropPortFids ==
  ASSUME Inv, FidInv, NEW p \in Protids, DropPort(p)
  PROVE  FidInv'
<1>1. /\ port[p] = "open" /\ port' = [port EXCEPT ![p] = "dropped"] /\ UNCHANGED <<pc, op, pi, new_pi>>
      /\ UNCHANGED <<walk_fid, io_fid, tmp, mode, pager, pager_fid, fids, next_fid, server_open_flags, user_open_flags>>
  BY DEF DropPort, thread, node, server
<1>2. FidTypes'
  BY <1>1 DEF FidInv, FidTypes
<1>3. Holdings'
  BY <1>1, Leaves DEF FidInv
<1>4. Apart' /\ Paging'
  BY <1>1 DEF FidInv, Apart, Paging
<1>5. port'[p] = "dropped" /\ \A q \in Protids \ {p} : port'[q] = port[q]
  BY <1>1 DEF Inv, Control, ControlTypes
<1>6. \A q \in Protids : Sound(q)'
  BY <1>1, <1>5 DEF FidInv, Sound
<1>7. \A t \in Threads : Ready(t)'
  BY <1>1 DEF FidInv, Ready, Makes, Opens, Temps, Maps, Want
<1> QED
  BY <1>2, <1>3, <1>4, <1>6, <1>7 DEF FidInv

LEMMA PageFids ==
  ASSUME Inv, FidInv, NEW t \in Threads, BeginPage(t) \/ pager_read_page(t)
  PROVE  FidInv'
<1>1. UNCHANGED <<walk_fid, io_fid, tmp, mode, port, pager, pager_fid, fids, next_fid, server_open_flags,
                  user_open_flags>>
  BY DEF BeginPage, Call, Start, pager_read_page, protids, node, server
<1>2. CASE pager_read_page(t)
  BY <1>1, <1>2, FidEnds DEF pager_read_page, At
<1>3. CASE BeginPage(t)
  <2>1. "page" \in Labels /\ "page" \in Ops
    BY DEF Labels, Ops
  <2>2. Start(t, "page", None, "page") /\ UNCHANGED new_pi
    BY <1>3 DEF BeginPage, Call
  <2>3. Only(t) /\ pc'[t] = "page" /\ op'[t] = "page" /\ pc[t] = "idle"
    BY <2>1, <2>2, OnlyStart
  <2>4. Ready(t)'
    BY <1>1, <2>3, TmpNone, ReadyIdle
  <2> QED
    BY <1>1, <2>3, <2>4, PortStep DEF IoOps
<1> QED
  BY <1>2, <1>3

(***************************************************************************)
(* Mappings.                                                               *)
(***************************************************************************)
LEMMA MapTyped ==
  ASSUME Inv, FidInv, NEW t \in Threads, pc[t] \in MapPcs
  PROVE  op[t] = "map" /\ lock = t /\ tmp[t] = NoFid /\ (pc[t] # "map" => ~pager)
<1>1. op[t] = "map" /\ pc[t] # "lock" /\ pc[t] \notin {"tmp_use", "tmp_clunk"}
  BY DEF Inv, Control, Fits, MapPcs
<1> QED
  BY <1>1, TmpNone DEF Inv, Control, LockHeldByCall, Refs, Unique

(* A step on the pager's fid, while there is no pager.                     *)
LEMMA PagerStep ==
  ASSUME Inv, FidInv, FidTypes', Holdings', NEW t \in Threads, pc[t] \in MapPcs, ~pager, UNCHANGED pager,
         Only(t), op'[t] \in {"map", "none"},
         NEW f \in Nat, pager_fid' = f, NEW g \in {pager_fid, f}, Server(g),
         UNCHANGED <<walk_fid, io_fid, tmp, mode, server_open_flags, user_open_flags, port>>,
         tmp'[t] = NoFid => Ready(t)'
  PROVE  FidInv'
<1>1. op[t] = "map" /\ lock = t /\ tmp[t] = NoFid
  BY MapTyped
<1>2. Alone(t)
  BY WantStill DEF Alone
<1>3. Puts(<<"pager", None>>, f)
  BY PutsPager
<1>4. (\A u \in Threads \ {t} : Ready(u)') /\ \A q \in Protids : Sound(q)'
  BY <1>1, <1>2, <1>3, FramePager
<1>5. Apart' /\ Paging'
  BY ApartStill DEF FidInv, IoOps, Paging
<1>6. \A u \in Threads : Ready(u)'
  BY <1>1, <1>4
<1> QED
  BY <1>4, <1>5, <1>6 DEF FidInv

LEMMA MapFids ==
  ASSUME Inv, FidInv, NEW t \in Threads, Map(t)
  PROVE  FidInv'
<1>1. /\ pc[t] = "map" /\ pc[t] \in MapPcs
      /\ UNCHANGED <<walk_fid, io_fid, tmp, mode, port, pager, fids, server_open_flags, user_open_flags>>
  BY DEF Map, At, protids, node, MapPcs
<1>2. op[t] = "map" /\ lock = t /\ tmp[t] = NoFid
  BY <1>1, MapTyped
<1>3. CASE Return(t) /\ UNCHANGED <<pager_fid, next_fid>>
  BY <1>1, <1>3, FidEnds DEF Return
<1>4. CASE UNCHANGED <<pc, op, pi, new_pi, pager_fid, next_fid>>
  <2>1. Only(t) /\ pc'[t] = pc[t] /\ op'[t] = op[t] /\ pi'[t] = pi[t]
    BY <1>4, OnlyNone
  <2>2. Ready(t)'
    BY <1>1, <1>2, <2>1 DEF Ready, Makes, Opens, Temps, Maps, IoPcs
  <2> QED
    BY <1>1, <1>4, <2>1, <2>2, PortStep
<1>5. CASE ~pager /\ MapAssertion /\ next_fid' = next_fid + 1 /\ pager_fid' = next_fid + 1 /\ Goto(t, "map_walk")
  <2>1. next_fid + 1 \in Nat /\ next_fid + 1 # NoFid /\ "map_walk" \in Labels
    BY DEF FidInv, FidTypes, NoFid, Labels
  <2>2. Only(t) /\ pc'[t] = "map_walk" /\ op'[t] = "map"
    BY <1>2, <1>5, <2>1, OnlyGoto
  <2>3. FidTypes'
    BY <1>1, <1>5, <2>1 DEF FidInv, FidTypes
  <2>4. Holdings'
    <3>1. Puts(<<"pager", None>>, next_fid + 1) /\ <<"pager", None>> \in Holders
          /\ Held(<<"pager", None>>) = pager_fid
      BY <1>1, <1>5, PutsPager, HeldPager
    <3>2. NoFid \notin DOMAIN fids /\ pager_fid = NoFid
      BY <1>5 DEF FidInv, Holdings, NoFid, MapAssertion
    <3> QED
      BY <1>1, <1>5, <3>1, <3>2, Gives DEF FidInv
  <2>5. Server(pager_fid)
    BY <1>1, ServerSame
  <2>6. ASSUME tmp'[t] = NoFid PROVE Ready(t)'
    BY <1>5, <2>1, <2>2, <2>6 DEF Ready, Makes, Opens, Temps, Maps, IoPcs
  <2> QED
    BY <1>1, <1>5, <2>1, <2>2, <2>3, <2>4, <2>5, <2>6, PagerStep
<1> QED
  BY <1>3, <1>4, <1>5 DEF Map, p9_fid_alloc

LEMMA MapOpenFids ==
  ASSUME Inv, FidInv, NEW t \in Threads, MapWalk(t) \/ MapTopen(t)
  PROVE  FidInv'
<1>1. /\ pc[t] \in {"map_walk", "map_open"} /\ pc[t] \in MapPcs
      /\ UNCHANGED <<walk_fid, io_fid, tmp, mode, port, pager, pager_fid, next_fid, server_open_flags, user_open_flags>>
  BY DEF MapWalk, MapTopen, At, protids, node, MapPcs
<1>2. op[t] = "map" /\ ~pager /\ tmp[t] = NoFid
  BY <1>1, MapTyped
<1>3. pager_fid # NoFid /\ pager_fid \in Nat
  BY <1>1 DEF FidInv, FidTypes, Ready, Maps, Holdings, NoFid
<1>4. CASE Return(t) /\ UNCHANGED fids
  BY <1>1, <1>4, FidEnds DEF Return
<1>5. CASE pc[t] = "map_open" /\ Goto(t, "map_clunk") /\ UNCHANGED fids
  <2>1. "map_clunk" \in Labels
    BY DEF Labels
  <2>2. Only(t) /\ pc'[t] = "map_clunk" /\ op'[t] = "map"
    BY <1>2, <1>5, <2>1, OnlyGoto
  <2>3. Ready(t)'
    <3>1. pager_fid \in DOMAIN fids
      BY <1>5 DEF FidInv, Ready, Maps
    <3> QED
      BY <1>1, <1>2, <1>5, <2>2, <3>1 DEF Ready, Makes, Opens, Temps, Maps, IoPcs
  <2> QED
    BY <1>1, <1>5, <2>2, <2>3, PortStep DEF IoOps
<1>6. ASSUME NEW modes \in SUBSET Modes, With(pager_fid, modes), NEW label \in {"map_open", "map_create"}, Goto(t, label),
             label = "map_create" => "read" \in modes
      PROVE  FidInv'
  <2>1. label \in Labels
    BY DEF Labels
  <2>2. Only(t) /\ pc'[t] = label /\ op'[t] = "map"
    BY <1>2, <1>6, <2>1, OnlyGoto
  <2>3. /\ DOMAIN fids' = DOMAIN fids \cup {pager_fid} /\ fids'[pager_fid] = modes /\ Server(pager_fid)
        /\ fids' \in [DOMAIN fids' -> SUBSET Modes]
    BY <1>3, <1>6, ServerWith DEF FidInv
  <2>4. FidTypes'
    BY <1>1, <2>3 DEF FidInv, FidTypes
  <2>5. Holdings'
    <3>1. Puts(<<"pager", None>>, pager_fid) /\ <<"pager", None>> \in Holders
          /\ Held(<<"pager", None>>) = pager_fid
      BY <1>1, PutsPager, HeldPager
    <3> QED
      BY <1>1, <1>3, <2>3, <3>1, Makings DEF FidInv
  <2>6. ASSUME tmp'[t] = NoFid PROVE Ready(t)'
    BY <1>1, <1>6, <2>2, <2>3, <2>6 DEF Ready, Makes, Opens, Temps, Maps, IoPcs
  <2> QED
    BY <1>1, <1>2, <1>3, <2>2, <2>3, <2>4, <2>5, <2>6, PagerStep
<1>7. {} \in SUBSET Modes /\ {"read"} \in SUBSET Modes
  BY DEF Modes
<1> QED
  BY <1>4, <1>5, <1>6, <1>7 DEF MapWalk, MapTopen, At

LEMMA MapCreateFids ==
  ASSUME Inv, FidInv, NEW t \in Threads, MapCreate(t)
  PROVE  FidInv'
<1>1. /\ pc[t] = "map_create" /\ pc[t] \in MapPcs
      /\ UNCHANGED <<walk_fid, io_fid, tmp, mode, port, pager_fid, fids, next_fid, server_open_flags, user_open_flags>>
  BY DEF MapCreate, At, protids, server, MapPcs
<1>2. op[t] = "map" /\ tmp[t] = NoFid /\ pager_fid \in DOMAIN fids /\ "read" \in fids[pager_fid]
  BY <1>1, MapTyped DEF FidInv, Ready, Maps
<1>3. CASE pager' = TRUE /\ Return(t)
  <2>1. Only(t) /\ pc'[t] = "idle" /\ op'[t] = "none"
    BY <1>3, OnlyFinish DEF Return
  <2>2. Ready(t)' /\ Paging'
    BY <1>1, <1>2, <2>1, ReadyIdle DEF Paging
  <2> QED
    BY <1>1, <2>1, <2>2, PortStep DEF IoOps
<1>4. CASE Goto(t, "map_clunk") /\ UNCHANGED pager
  <2>1. "map_clunk" \in Labels
    BY DEF Labels
  <2>2. Only(t) /\ pc'[t] = "map_clunk" /\ op'[t] = "map"
    BY <1>2, <1>4, <2>1, OnlyGoto
  <2>3. Ready(t)'
    BY <1>1, <1>2, <2>2 DEF Ready, Makes, Opens, Temps, Maps, IoPcs
  <2> QED
    BY <1>1, <1>4, <2>2, <2>3, PortStep DEF IoOps
<1> QED
  BY <1>3, <1>4 DEF MapCreate

LEMMA MapClunkFids ==
  ASSUME Inv, FidInv, NEW t \in Threads, MapClunk(t)
  PROVE  FidInv'
<1>1. /\ pc[t] = "map_clunk" /\ pc[t] \in MapPcs /\ Without(pager_fid) /\ pager_fid' = NoFid /\ Finish(t)
      /\ UNCHANGED <<walk_fid, io_fid, tmp, mode, port, pager, next_fid, server_open_flags, user_open_flags>>
  BY DEF MapClunk, At, Return, protids, node, MapPcs
<1>2. ~pager /\ pager_fid \in Nat /\ NoFid \in Nat
  BY <1>1, MapTyped DEF FidInv, FidTypes, NoFid
<1>3. Only(t) /\ pc'[t] = "idle" /\ op'[t] = "none"
  BY <1>1, OnlyFinish
<1>4. DOMAIN fids' = DOMAIN fids \ {pager_fid} /\ Server(pager_fid) /\ fids' \in [DOMAIN fids' -> SUBSET Modes]
  BY <1>1, <1>2, ServerWithout DEF FidInv
<1>5. FidTypes'
  BY <1>1, <1>2, <1>4 DEF FidInv, FidTypes
<1>6. Holdings'
  <2>1. Puts(<<"pager", None>>, NoFid) /\ <<"pager", None>> \in Holders /\ Held(<<"pager", None>>) = pager_fid
    BY <1>1, PutsPager, HeldPager
  <2> QED
    BY <1>1, <1>4, <2>1, Drops DEF FidInv
<1>7. ASSUME tmp'[t] = NoFid PROVE Ready(t)'
  BY <1>3, <1>7, ReadyIdle
<1> QED
  BY <1>1, <1>2, <1>3, <1>4, <1>5, <1>6, <1>7, PagerStep

(***************************************************************************)
(* The directory operations' temporary fids.                               *)
(***************************************************************************)
LEMMA DirectFids ==
  ASSUME Inv, FidInv, NEW t \in Threads, Direct(t)
  PROVE  FidInv'
<1>1. /\ pc[t] = "direct"
      /\ UNCHANGED <<walk_fid, io_fid, tmp, mode, port, pager, pager_fid, fids, next_fid, server_open_flags,
                     user_open_flags>>
  BY DEF Direct, At, protids, node, server
<1>2. CASE Finish(t)
  BY <1>1, <1>2, FidEnds
<1>3. CASE op[t] \in Removals \cup {"rename"} /\ Goto(t, "tmp_walk")
  <2>1. "tmp_walk" \in Labels
    BY DEF Labels
  <2>2. Only(t) /\ pc'[t] = "tmp_walk" /\ op'[t] = op[t] /\ pi'[t] = pi[t]
    BY <1>3, <2>1, OnlyGoto
  <2>3. Ready(t)'
    BY <1>1, <1>3, <2>2, TmpNone, ReadyIdle DEF Removals
  <2> QED
    BY <1>1, <2>2, <2>3, PortStep
<1> QED
  BY <1>2, <1>3 DEF Direct

(* A step on the call's temporary fid.                                     *)
LEMMA TmpStep ==
  ASSUME Inv, FidInv, FidTypes', Holdings', NEW t \in Threads,
         Only(t), op'[t] \notin IoOps \cup {"sync"},
         NEW f \in Nat, tmp' = [tmp EXCEPT ![t] = f], NEW g \in {tmp[t], f}, Server(g),
         UNCHANGED <<walk_fid, io_fid, mode, server_open_flags, user_open_flags, port, pager, pager_fid>>,
         Ready(t)'
  PROVE  FidInv'
<1>1. Alone(t)
  BY WantStill DEF Alone, FidInv, FidTypes
<1>2. Puts(<<"tmp", t>>, f)
  BY PutsTmp DEF FidInv
<1>3. (\A u \in Threads \ {t} : Ready(u)') /\ (\A q \in Protids : Sound(q)') /\ Paging'
  BY <1>1, <1>2, FrameTmp
<1>4. Apart'
  BY ApartStill DEF FidInv
<1> QED
  BY <1>3, <1>4 DEF FidInv

LEMMA TmpTyped ==
  ASSUME Inv, NEW t \in Threads, pc[t] \in TmpPcs
  PROVE  op[t] \in WalkOps /\ op[t] \notin IoOps \cup {"sync", "getroot", "reauth"}
BY DEF Inv, Control, Fits, WalkOps, IoOps

LEMMA TmpWalkFids ==
  ASSUME Inv, FidInv, NEW t \in Threads, TmpWalk(t)
  PROVE  FidInv'
<1>1. /\ pc[t] = "tmp_walk" /\ pc[t] \in TmpPcs /\ next_fid' = next_fid + 1
      /\ UNCHANGED <<walk_fid, io_fid, mode, port, pager, pager_fid, server_open_flags, user_open_flags>>
  BY DEF TmpWalk, At, protids, node, TmpPcs, p9_fid_alloc
<1>2. CASE Finish(t) /\ UNCHANGED <<fids, tmp>>
  BY <1>1, <1>2, FidEnds
<1>3. CASE With(next_fid + 1, {}) /\ tmp' = [tmp EXCEPT ![t] = next_fid + 1] /\ Goto(t, "tmp_use")
  <2>1. next_fid + 1 \in Nat /\ {} \in SUBSET Modes /\ "tmp_use" \in Labels /\ NoFid \notin DOMAIN fids
    BY DEF FidInv, FidTypes, Holdings, NoFid, Labels
  <2>2. Only(t) /\ pc'[t] = "tmp_use" /\ op'[t] = op[t]
    BY <1>3, <2>1, OnlyGoto
  <2>3. /\ DOMAIN fids' = DOMAIN fids \cup {next_fid + 1} /\ Server(next_fid + 1)
        /\ fids' \in [DOMAIN fids' -> SUBSET Modes]
    BY <1>3, <2>1, ServerWith DEF FidInv
  <2>4. FidTypes' /\ tmp'[t] = next_fid + 1
    BY <1>1, <1>3, <2>1, <2>3 DEF FidInv, FidTypes
  <2>5. Holdings'
    <3>1. Puts(<<"tmp", t>>, next_fid + 1) /\ <<"tmp", t>> \in Holders /\ Held(<<"tmp", t>>) = tmp[t]
      BY <1>1, <1>3, <2>1, PutsTmp, HeldTmp DEF FidInv
    <3> QED
      BY <1>1, <2>1, <2>3, <3>1, TmpNone, Gives DEF FidInv
  <2>6. Ready(t)'
    BY <1>1, <2>2, <2>3, <2>4, TmpTyped DEF Ready, Makes, Opens, Temps, Maps, IoPcs
  <2> QED
    BY <1>1, <1>3, <2>1, <2>2, <2>3, <2>4, <2>5, <2>6, TmpTyped, TmpStep
<1> QED
  BY <1>2, <1>3 DEF TmpWalk, p9_fid_alloc

(* The temporary fid is clunked, or the removal has.                       *)
LEMMA TmpClunked ==
  ASSUME Inv, FidInv, NEW t \in Threads, Without(tmp[t]), tmp' = [tmp EXCEPT ![t] = NoFid], Finish(t),
         UNCHANGED <<walk_fid, io_fid, mode, port, pager, pager_fid, next_fid, server_open_flags, user_open_flags>>
  PROVE  FidInv'
<1>1. NoFid \in Nat /\ tmp[t] \in Nat
  BY DEF FidInv, FidTypes, NoFid
<1>2. DOMAIN fids' = DOMAIN fids \ {tmp[t]} /\ Server(tmp[t]) /\ fids' \in [DOMAIN fids' -> SUBSET Modes]
  BY <1>1, ServerWithout DEF FidInv
<1>3. FidTypes' /\ tmp'[t] = NoFid
  BY <1>1, <1>2 DEF FidInv, FidTypes
<1>4. Holdings'
  <2>1. Puts(<<"tmp", t>>, NoFid) /\ <<"tmp", t>> \in Holders /\ Held(<<"tmp", t>>) = tmp[t]
    BY <1>1, PutsTmp, HeldTmp DEF FidInv
  <2> QED
    BY <1>2, <2>1, Drops DEF FidInv
<1>5. Only(t) /\ pc'[t] = "idle" /\ op'[t] = "none"
  BY OnlyFinish
<1>6. Ready(t)'
  BY <1>3, <1>5, ReadyIdle
<1> QED
  BY <1>1, <1>2, <1>3, <1>4, <1>5, <1>6, TmpStep DEF IoOps

LEMMA TmpUseFids ==
  ASSUME Inv, FidInv, NEW t \in Threads, TmpUse(t) \/ TmpClunk(t)
  PROVE  FidInv'
<1>1. /\ pc[t] \in {"tmp_use", "tmp_clunk"} /\ pc[t] \in TmpPcs
      /\ UNCHANGED <<walk_fid, io_fid, mode, port, pager, pager_fid, next_fid, server_open_flags, user_open_flags>>
  BY DEF TmpUse, TmpClunk, At, protids, node, TmpPcs
<1>2. CASE Without(tmp[t]) /\ tmp' = [tmp EXCEPT ![t] = NoFid] /\ Finish(t)
  BY <1>1, <1>2, TmpClunked
<1>3. CASE (With(tmp[t], {"read"}) \/ UNCHANGED fids) /\ Goto(t, "tmp_clunk") /\ UNCHANGED tmp
  <2>1. tmp[t] \in DOMAIN fids /\ tmp[t] \in Nat /\ tmp[t] # NoFid
    BY <1>1 DEF FidInv, FidTypes, Ready, Temps, Holdings, NoFid
  <2>2. {"read"} \in SUBSET Modes /\ "tmp_clunk" \in Labels
    BY DEF Modes, Labels
  <2>3. Only(t) /\ pc'[t] = "tmp_clunk" /\ op'[t] = op[t]
    BY <1>3, <2>2, OnlyGoto
  <2>4. DOMAIN fids' = DOMAIN fids /\ Server(tmp[t]) /\ fids' \in [DOMAIN fids' -> SUBSET Modes]
    <3>1. CASE With(tmp[t], {"read"})
      BY <2>1, <2>2, <3>1, ServerWith DEF FidInv
    <3>2. CASE UNCHANGED fids
      BY <3>2, ServerSame DEF FidInv, FidTypes
    <3> QED
      BY <1>3, <3>1, <3>2
  <2>5. FidTypes' /\ tmp' = [tmp EXCEPT ![t] = tmp[t]]
    BY <1>1, <1>3, <2>4 DEF FidInv, FidTypes
  <2>6. Holdings'
    <3>1. Puts(<<"tmp", t>>, tmp[t]) /\ <<"tmp", t>> \in Holders /\ Held(<<"tmp", t>>) = tmp[t]
      BY <1>1, <2>1, <2>5, PutsTmp, HeldTmp DEF FidInv
    <3> QED
      BY <1>1, <2>1, <2>4, <3>1, Makings DEF FidInv
  <2>7. Ready(t)'
    BY <1>1, <1>3, <2>1, <2>3, <2>4, TmpTyped DEF Ready, Makes, Opens, Temps, Maps, IoPcs
  <2> QED
    BY <1>1, <2>1, <2>3, <2>4, <2>5, <2>6, <2>7, TmpTyped, TmpStep
<1>4. CASE TmpClunk(t)
  BY <1>2, <1>4 DEF TmpClunk
<1>5. CASE TmpUse(t)
  <2>1. CASE op[t] \in Removals
    BY <1>2, <1>5, <2>1 DEF TmpUse, AfterTmp, Removals
  <2>2. CASE op[t] \notin Removals
    BY <1>3, <1>5, <2>2 DEF TmpUse, AfterTmp
  <2> QED
    BY <2>1, <2>2
<1> QED
  BY <1>4, <1>5

(***************************************************************************)
(* What the calls rely on.                                                 *)
(***************************************************************************)
LEMMA NextFids ==
  ASSUME ~SyncOverlaps, Inv, FidInv, [Next]_vars
  PROVE  FidInv'
<1>1. CASE UNCHANGED vars
  <2>1. UNCHANGED <<pc, op, pi, new_pi, walk_fid, io_fid, tmp, mode, port, pager, pager_fid, fids, next_fid,
                    server_open_flags, user_open_flags>>
    BY <1>1 DEF vars, thread, protids, node, server
  <2>2. FidTypes' /\ Apart' /\ Paging' /\ \A p \in Protids : Sound(p)'
    BY <2>1 DEF FidInv, FidTypes, Apart, Paging, Sound
  <2>3. Holdings'
    BY <2>1, Leaves DEF FidInv
  <2>4. \A t \in Threads : Ready(t)'
    BY <2>1 DEF FidInv, Ready, Makes, Opens, Temps, Maps, Want
  <2> QED
    BY <2>2, <2>3, <2>4 DEF FidInv
<1>2. ASSUME NEW t \in Threads, Step(t) PROVE FidInv'
  BY <1>2, LockFids, EnsureOpenFids, EnsureClunkFids, EnsureWalkFids, EnsureTopenFids, UseFids, AttachFids,
     GetrootEndFids, ReauthWalkFids, ReleaseWalkFids, ReleaseIoFids, ReleasePeropenFids, ReleaseNodeFids,
     MapFids, MapOpenFids, MapCreateFids, MapClunkFids, PageFids, DirectFids, TmpWalkFids, TmpUseFids DEF Step
<1>3. ASSUME NEW t \in Threads, Begin(t) PROVE FidInv'
  BY <1>3, BeginGetrootFids, IdleFids, BeginCallFids, BeginReleaseFids, BeginReauthFids, PageFids DEF Begin
<1> QED
  BY <1>1, <1>2, <1>3, DropPortFids DEF Next

LEMMA FidInvHolds == ~SyncOverlaps /\ Spec => [](Inv /\ FidInv)
<1> SUFFICES ASSUME ~SyncOverlaps PROVE Spec => [](Inv /\ FidInv)
  OBVIOUS
<1>1. Init => Inv /\ FidInv
  BY InitInv, InitFids
<1>2. Inv /\ FidInv /\ [Next]_vars => (Inv /\ FidInv)'
  BY NextInv, NextFids
<1> QED
  BY <1>1, <1>2, PTL DEF Spec

LEMMA WalkLive ==
  ASSUME Inv, FidInv, NEW t \in Threads, op[t] \in Clients
  PROVE  walk_fid[pi[t]] \in DOMAIN fids
BY DEF Inv, Control, Ported, FidInv, Sound

LEMMA IoLive ==
  ASSUME Inv, FidInv, NEW t \in Threads, pc[t] \in Busy, io_fid[pi[t]] # NoFid
  PROVE  io_fid[pi[t]] \in DOMAIN fids
BY BusyTyped DEF FidInv, Sound

(* A request names a fid that the server has, provided that clients do not *)
(* overlap file_sync with other I/O on a port, which takes no lock         *)
(* (p9_ensure_open, p9_release_protid, io_map, the directory operations).  *)
THEOREM FidsLive == ~SyncOverlaps /\ Spec => []LiveFidsOnly
<1>1. ASSUME Inv, FidInv PROVE LiveFidsOnly
  <2>1. ASSUME NEW t \in Threads PROVE Named(t) \subseteq DOMAIN fids
    <3>1. Ready(t) /\ Fits(pc[t], op[t])
      BY <1>1 DEF Inv, Control, FidInv
    <3>2. CASE pc[t] \in {"ensure_walk", "direct", "tmp_walk", "reauth_walk", "map_walk"}
      <4>1. op[t] \in Clients \/ (pc[t] \in IoPcs /\ op[t] = "getroot")
        BY <3>1, <3>2 DEF Fits, IoPcs, MapPcs, TmpPcs, Clients
      <4>2. walk_fid[pi[t]] \in DOMAIN fids
        BY <1>1, <4>1, WalkLive, RootWalk
      <4> QED
        BY <3>2, <4>2 DEF Named
    <3>3. CASE pc[t] \in {"ensure_clunk", "ensure_open"} \/ (pc[t] = "use" /\ op[t] # "getroot")
      <4>1. io_fid[pi[t]] # NoFid /\ pc[t] \in Busy
        BY <3>1, <3>3 DEF Ready, Opens, Busy, IoPcs
      <4> QED
        BY <1>1, <3>3, <4>1, IoLive DEF Named
    <3>4. CASE pc[t] = "release_walk"
      BY <3>1, <3>4 DEF Named, Ready, Makes
    <3>5. CASE pc[t] = "release_io"
      BY <1>1, <3>5, IoLive DEF Named, Busy
    <3>6. CASE pc[t] \in {"map_open", "map_clunk", "page"}
      <4>1. pager_fid \in DOMAIN fids
        BY <1>1, <3>1, <3>6 DEF Ready, Maps, Fits, Inv, Refs, Unique, FidInv, Paging
      <4> QED
        BY <3>6, <4>1 DEF Named
    <3>7. CASE pc[t] \in {"tmp_use", "tmp_clunk"}
      BY <3>1, <3>7 DEF Named, Ready, Temps
    <3> QED
      BY <3>2, <3>3, <3>4, <3>5, <3>6, <3>7 DEF Named
  <2> QED
    BY <2>1 DEF LiveFidsOnly
<1> QED
  BY <1>1, FidInvHolds, PTL

(* A read, write or fsync goes to a fid that is open for it, under the     *)
(* same condition (p9_ensure_open and its callers).                        *)
THEOREM UsesOpen == ~SyncOverlaps /\ Spec => []OpenForUse
<1>1. ASSUME Inv, FidInv PROVE OpenForUse
  <2>1. ASSUME NEW t \in Threads, pc[t] = "use", op[t] \in {"read", "write", "sync"}
        PROVE  IF op[t] = "sync" THEN fids[io_fid[pi[t]]] # {} ELSE Want(t) \subseteq fids[io_fid[pi[t]]]
    <3>1. /\ op[t] \in {"read", "write"} => Want(t) \subseteq server_open_flags[pi[t]]
          /\ op[t] = "sync" => server_open_flags[pi[t]] # {}
      BY <1>1, <2>1 DEF FidInv, Ready, Opens
    <3>2. pi[t] \in Protids
      BY <1>1, <2>1, BusyTyped DEF Busy, IoPcs
    <3>3. server_open_flags[pi[t]] # {} => server_open_flags[pi[t]] \subseteq fids[io_fid[pi[t]]]
      BY <1>1, <3>2 DEF FidInv, Sound
    <3>4. op[t] \in {"read", "write"} => Want(t) # {}
      BY DEF Want
    <3> QED
      BY <2>1, <3>1, <3>3, <3>4
  <2> QED
    BY <2>1 DEF OpenForUse
<1> QED
  BY <1>1, FidInvHolds, PTL

(* No fid leaks on an error path and none has two owners, under the same   *)
(* condition: every fid of the server is held in exactly one place.        *)
THEOREM EachFidOwned == ~SyncOverlaps /\ Spec => []FidsOwned
<1>1. ASSUME Inv, FidInv PROVE FidsOwned
  <2>1. ASSUME NEW f \in DOMAIN fids
        PROVE  \E h \in Holders : Held(h) = f /\ \A k \in Holders \ {h} : Held(k) # f
    <3>1. f # NoFid
      BY <1>1, <2>1 DEF FidInv, Holdings, NoFid
    <3>2. PICK h \in Holders : Held(h) = f
      BY <1>1, <2>1 DEF FidInv, Holdings
    <3>3. \A k \in Holders \ {h} : Held(k) # f
      BY <1>1, <3>1, <3>2 DEF FidInv, Holdings
    <3> QED
      BY <3>2, <3>3
  <2> QED
    BY <2>1 DEF FidsOwned
<1> QED
  BY <1>1, FidInvHolds, PTL

(* A page asked for while there is a pager can be read, though all the     *)
(* protids may be gone: the fid is live and open for reading and the node  *)
(* referenced (io_map, pager_read_page, pager_dropweak).                   *)
THEOREM PagesServed == ~SyncOverlaps /\ Spec => []PagerServes
<1>1. ASSUME Inv, FidInv PROVE PagerServes
  <2>1. pager => hard > 0
    BY <1>1, HardCounts DEF Count
  <2> QED
    BY <1>1, <2>1 DEF FidInv, Paging, PagerServes
<1> QED
  BY <1>1, FidInvHolds, PTL
=============================================================================
