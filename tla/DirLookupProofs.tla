-------------------------- MODULE DirLookupProofs --------------------------
(***************************************************************************)
(* Path lookup, for paths and batches of any length: which fids a lookup   *)
(* uses, makes and leaves behind, and that the file it finds is the one    *)
(* the path names, wherever the path is cut into batches.                  *)
(*                                                                         *)
(* What is true of every name of a path is proved by induction in the form *)
(* of Between: a set of numbers that has i, and n + 1 whenever it has n,   *)
(* has all numbers from i on.                                              *)
(***************************************************************************)
EXTENDS DirLookup, FiniteSetTheorems, WellFoundedInduction, TLAPS

Active == {"gather", "walk", "creat", "create", "rewalk", "found"}

Short == Len(path) <= MAX_PARTS

(* O_CREAT with no more names than fit into a batch; with more, the file's *)
(* parent would be walked to from a fid that is clunked (line 220).        *)
ShortCreate == \A q \in Requests : q.creat => Len(q.path) <= MAX_PARTS

Typed ==
  /\ pc \in Active \cup {"idle", "returned", "aborted", "crashed"}
  /\ path \in Seq(Name) /\ path # <<>>
  /\ flags \in [creat : BOOLEAN, excl : BOOLEAN, acc : SUBSET {"read", "write", "exec"}]
  /\ pos \in 0 .. Len(path) /\ parts \in Seq(1 .. Len(path))
  /\ last_fid \in Nat /\ prev_fid \in 0 .. last_fid /\ next_fid \in 0 .. last_fid
  /\ n_qids \in Nat /\ (n_qids > 0 => qid \in Nodes)
  /\ {p9_readonly, have_created, misused, overtaken, disturbed} \subseteq BOOLEAN
  /\ pi \in Protid /\ npi \in Protid
  /\ {pi.walk_fid, pi.io_fid, npi.walk_fid, npi.io_fid} \subseteq 0 .. last_fid
  /\ fids \in [DOMAIN fids -> Nodes] /\ DOMAIN fids \subseteq 1 .. last_fid
  /\ before \in [DOMAIN before -> Nodes] /\ DOMAIN before \subseteq 1 .. last_fid
  /\ exists \subseteq Dirs

(* Where each label of the handler can be reached, whatever became of the  *)
(* fids.                                                                   *)
Labels ==
  /\ pc \in Active =>
       /\ ~(p9_readonly /\ flags.excl)
       /\ flags.creat => Short
       /\ pc # "found" => ~have_created
  /\ pc = "gather" => pos < Len(path) /\ (Short => pos = 0) /\ (pos = 0 => prev_fid = pi.walk_fid)
  /\ pc = "walk" =>
       /\ pos > 0
       /\ ~(pos = Len(path) /\ flags.creat /\ flags.excl)
       /\ Short => pos = Len(path) /\ prev_fid = pi.walk_fid
  /\ pc \in {"walk", "creat"} => next_fid # NoFid
  /\ pc \in {"creat", "create", "rewalk", "found"} => pos = Len(path)
  /\ pc \in {"creat", "create", "rewalk"} => flags.creat /\ prev_fid = pi.walk_fid
  /\ pc \in {"create", "rewalk"} => path[pos] \notin {".", ".."} /\ Has(fids, next_fid)
  /\ pc = "rewalk" => ~flags.excl
  /\ pc = "found" /\ flags.creat /\ flags.excl => have_created
  /\ pc = "found" /\ have_created =>
       /\ Has(fids, next_fid) /\ fids[next_fid] \notin Dirs
       /\ n_qids = 1 /\ qid = fids[next_fid]

(* The names of a batch, and how many qids its walk brought.               *)
Batches ==
  /\ \A k \in 1 .. Len(parts) : path[parts[k]] # "."
  /\ pc \in Active \ {"gather"} /\ Short /\ (\E k \in 1 .. Len(path) : path[k] # ".") => parts # <<>>
  /\ pc = "found" => path[pos] # "." \/ (~have_created /\ n_qids = Len(parts))

(* A protid whose fids the server has.                                     *)
Alive(p) ==
  /\ Has(fids, p.walk_fid) /\ p.io_fid # p.walk_fid
  /\ p.io_fid # NoFid => Has(fids, p.io_fid)

(* Besides the fids that were there before there is the one reached.       *)
Reached(fid) == DOMAIN fids = DOMAIN before \cup {fid} /\ ~Has(before, fid)

Fids ==
  /\ ~misused /\ Alive(pi)
  /\ pc \in Active \cup {"returned"} =>
       /\ Has(before, pi.walk_fid) /\ (pi.io_fid # NoFid => Has(before, pi.io_fid))
       /\ \A fid \in DOMAIN before : Has(fids, fid) /\ fids[fid] = before[fid]
  /\ pc \in {"gather", "walk"} =>
       \/ prev_fid = pi.walk_fid /\ DOMAIN fids = DOMAIN before
       \/ Reached(prev_fid)
  /\ pc \in {"walk", "creat"} => next_fid \notin DOMAIN fids /\ next_fid # NoFid
  /\ pc = "creat" => DOMAIN fids = DOMAIN before
  /\ pc \in {"create", "rewalk"} => Reached(next_fid)
  /\ pc = "found" =>
       IF have_created THEN Reached(next_fid)
       ELSE Reached(prev_fid) /\ (n_qids > 0 => qid = fids[prev_fid])
  /\ pc = "returned" /\ out.kind = "normal" =>
       /\ Alive(npi) /\ ~Has(before, npi.walk_fid) /\ ~Has(before, npi.io_fid)
  /\ pc = "returned" /\ out.kind # "normal" => npi = NoProtid

FidInv ==
  /\ Typed /\ Labels /\ Batches /\ ExclusiveMeansNew
  /\ ~overtaken => Fids /\ FidMatchesNode /\ FidsAccounted /\ SlashMeansDir

-----------------------------------------------------------------------------
(* Induction.                                                              *)
LEMMA LeastExists ==
  ASSUME NEW T, T \subseteq Nat, T # {}
  PROVE  \E n \in T : \A m \in T : n <= m
<1> DEFINE less == {ss \in Nat \X Nat : ss[1] < ss[2]}
<1>1. IsWellFoundedOn(less, Nat)
  BY NatLessThanWellFounded DEF OpToRel
<1> HIDE DEF less
<1>2. PICK n \in T : \A m \in T : ~(<<m, n>> \in less)
  BY <1>1, WFMin
<1>3. ASSUME NEW m \in T PROVE n <= m
  <2>1. <<m, n>> \in Nat \X Nat /\ <<m, n>> \notin less
    BY <1>2
  <2>2. ~(m < n)
    BY <2>1 DEF less
  <2> QED
    BY <2>2
<1> QED
  BY <1>3

LEMMA Between ==
  ASSUME NEW a \in Nat, NEW b \in Nat, NEW T, a \in T,
         \A n \in a .. b : n # b /\ n \in T => n + 1 \in T
  PROVE  \A n \in a .. b : n \in T
<1> DEFINE F == {n \in a .. b : n \notin T}
<1> SUFFICES ASSUME F # {} PROVE FALSE
  OBVIOUS
<1>1. PICK n \in F : \A m \in F : n <= m
  <2>1. F \subseteq Nat
    OBVIOUS
  <2> QED
    BY <2>1, LeastExists
<1>2. n \in a .. b /\ n \notin T /\ n # a
  OBVIOUS
<1>3. n - 1 \in a .. b /\ n - 1 # b /\ (n - 1) + 1 = n
  BY <1>2
<1>4. n - 1 \in T
  <2>1. n - 1 \in F => n <= n - 1
    BY <1>1
  <2> QED
    BY <1>2, <1>3, <2>1
<1> QED
  BY <1>2, <1>3, <1>4

-----------------------------------------------------------------------------
(* Walks.                                                                  *)
LEMMA StepTyped ==
  ASSUME NEW n \in Nodes, NEW name \in Name
  PROVE  Step(n, name) \in Nodes \cup {NoNode}
BY DEF Step, Nodes, Dirs, File, Name, NoNode

(* The nodes at and after n, NoNode from the first name that does not      *)
(* resolve.                                                                *)
Passed(n, names, at) ==
  /\ at[0] = n
  /\ \A k \in 1 .. Len(names) : at[k] = IF at[k - 1] = NoNode THEN NoNode ELSE Step(at[k - 1], names[k])
  /\ \A k \in 0 .. Len(names) : at[k] \in Nodes \cup {NoNode}

LEMMA TrailPassed ==
  ASSUME NEW n \in Nodes, NEW names \in Seq(Name)
  PROVE  \E at :
           /\ Passed(n, names, at)
           /\ Trail(n, names) \in Seq(Nodes) /\ Len(Trail(n, names)) \in 0 .. Len(names)
           /\ \A k \in 1 .. Len(Trail(n, names)) : Trail(n, names)[k] = at[k]
           /\ \A k \in 1 .. Len(names) : k > Len(Trail(n, names)) => at[k] = NoNode
<1> DEFINE N == Len(names)
           next(v, k) == IF v = NoNode THEN NoNode ELSE Step(v, names[k])
           R(g, m) == g = [k \in 0 .. m |-> IF k = 0 THEN n ELSE next(g[k - 1], k)]
           T == {m \in 0 .. N : \E g : R(g, m)}
<1>1. N \in Nat
  OBVIOUS
<1> HIDE DEF next
<1>2. 0 \in T
  <2>1. R([k \in 0 .. 0 |-> n], 0)
    OBVIOUS
  <2>2. \E g : R(g, 0)
    BY <2>1
  <2>3. 0 \in 0 .. N
    BY <1>1
  <2> QED
    BY <2>2, <2>3
<1>3. ASSUME NEW m \in 0 .. N, m # N, m \in T
      PROVE  m + 1 \in T
  <2>1. PICK g : R(g, m)
    BY <1>3
  <2>2. m + 1 \in 0 .. N /\ m \in Nat
    BY <1>1, <1>3
  <2>3. R([k \in 0 .. m + 1 |-> IF k = m + 1 THEN next(g[m], m + 1) ELSE g[k]], m + 1)
    BY <2>1, <2>2
  <2> QED
    BY <2>2, <2>3
<1> DEFINE at == CHOOSE g : R(g, N)
<1>4. R(at, N)
  <2> HIDE DEF T
  <2>1. \A m \in 0 .. N : m \in T
    BY <1>1, <1>2, <1>3, Between
  <2>2. N \in T
    BY <1>1, <2>1
  <2> QED
    BY <2>2 DEF T
<1> DEFINE S == {k \in 1 .. N : at[k] # NoNode}
<1>5. Trail(n, names) = [k \in 1 .. Cardinality(S) |-> at[k]]
  BY DEF Trail, next
<1> HIDE DEF at
<1>6. at[0] = n /\ \A k \in 1 .. N : at[k] = next(at[k - 1], k)
  BY <1>1, <1>4
<1>7. \A k \in 0 .. N : at[k] \in Nodes \cup {NoNode}
  <2> DEFINE U == {k \in 0 .. N : at[k] \in Nodes \cup {NoNode}}
  <2>1. 0 \in U
    BY <1>1, <1>6
  <2>2. ASSUME NEW m \in 0 .. N, m # N, m \in U
        PROVE  m + 1 \in U
    <3>1. m + 1 \in 1 .. N /\ m + 1 \in 0 .. N /\ (m + 1) - 1 = m /\ names[m + 1] \in Name
      BY <1>1, <2>2
    <3>2. at[m + 1] = next(at[m], m + 1)
      BY <1>6, <3>1
    <3>3. at[m] \in Nodes \cup {NoNode}
      BY <2>2
    <3>4. next(at[m], m + 1) \in Nodes \cup {NoNode}
      BY <3>1, <3>3, StepTyped DEF next
    <3> QED
      BY <3>1, <3>2, <3>4
  <2> HIDE DEF U
  <2>3. \A k \in 0 .. N : k \in U
    BY <1>1, <2>1, <2>2, Between
  <2> QED
    BY <2>3 DEF U
(* The names that resolve are the first ones.                              *)
<1>8. PICK r \in 0 .. N : S = 1 .. r
  <2>1. \A k \in 1 .. N : k \in S /\ k # 1 => k - 1 \in S
    <3> SUFFICES ASSUME NEW k \in 1 .. N, k \in S, k # 1 PROVE k - 1 \in S
      OBVIOUS
    <3>1. at[k] = next(at[k - 1], k) /\ at[k] # NoNode /\ k - 1 \in 1 .. N
      BY <1>1, <1>6
    <3> QED
      BY <3>1 DEF next
  <2> DEFINE F == {k \in 1 .. N : k \notin S}
  <2>2. CASE F = {}
    <3>1. S = 1 .. N
      BY <2>2
    <3> QED
      BY <1>1, <3>1
  <2>3. CASE F # {}
    <3>1. F \subseteq Nat
      BY <1>1
    <3>2. PICK f \in F : \A m \in F : f <= m
      BY <2>3, <3>1, LeastExists
    <3> DEFINE V == {k \in f .. N : k \notin S}
    <3>3. \A k \in f .. N : k \in V
      <4>1. f \in V
        BY <1>1, <3>2
      <4>2. ASSUME NEW k \in f .. N, k # N, k \in V PROVE k + 1 \in V
        <5>1. k + 1 \in f .. N /\ k + 1 \in 1 .. N /\ k + 1 # 1 /\ (k + 1) - 1 = k
          BY <1>1, <4>2
        <5> QED
          BY <2>1, <4>2, <5>1
      <4>3. f \in Nat
        BY <3>1
      <4> HIDE DEF V
      <4> QED
        BY <1>1, <4>1, <4>2, <4>3, Between
    <3>4. S = 1 .. f - 1
      <4>1. \A k \in 1 .. N : k < f => k \in S
        BY <3>2
      <4>2. f \in 1 .. N
        BY <3>2
      <4> QED
        BY <1>1, <3>3, <4>1, <4>2
    <3>5. f - 1 \in 0 .. N
      BY <1>1, <3>2
    <3> QED
      BY <3>4, <3>5
  <2> QED
    BY <2>2, <2>3
<1>9. Cardinality(S) = r
  <2>1. Cardinality(1 .. r) = r
    BY <1>8, FS_Interval
  <2> QED
    BY <1>8, <2>1
<1>10. Trail(n, names) = [k \in 1 .. r |-> at[k]] /\ r \in Nat /\ r <= N
  BY <1>1, <1>5, <1>8, <1>9
<1>11. \A k \in 1 .. r : at[k] \in Nodes
  BY <1>7, <1>8, <1>10
<1> DEFINE q == Trail(n, names)
<1>12. q \in Seq(Nodes) /\ Len(q) = r /\ \A k \in 1 .. r : q[k] = at[k]
  <2> HIDE DEF S
  <2> QED
    BY <1>10, <1>11
<1>13. \A k \in 1 .. N : k > r => at[k] = NoNode
  BY <1>8, <1>10
<1>14. Passed(n, names, at)
  BY <1>6, <1>7 DEF Passed, next
<1> QED
  BY <1>10, <1>12, <1>13, <1>14


(* What the server can answer to a walk.                                   *)
LEMMA Answers ==
  ASSUME Typed, NEW fid, NEW names \in Seq(Name), NEW r \in WalkReplies(fid, names)
  PROVE  /\ r.err = "none" =>
              /\ Has(fids, fid) /\ r.qids = Trail(fids[fid], names)
              /\ r.qids \in Seq(Nodes) /\ Len(r.qids) \in 0 .. Len(names)
              /\ names # <<>> => r.qids # <<>>
         /\ r.err \in {"ENOENT", "ENOTDIR"} =>
              Has(fids, fid) /\ names # <<>> /\ Trail(fids[fid], names) = <<>>
<1>1. CASE r = Refused
  BY <1>1 DEF Refused
<1>2. CASE r = Walk(fid, names) /\ fid \notin DOMAIN fids
  BY <1>2 DEF Walk
<1>3. CASE r = Walk(fid, names) /\ fid \in DOMAIN fids
  <2> DEFINE q == Trail(fids[fid], names)
  <2>1. q \in Seq(Nodes) /\ Len(q) \in 0 .. Len(names)
    <3>1. fids[fid] \in Nodes
      BY <1>3 DEF Typed
    <3> QED
      BY <3>1, TrailPassed
  <2> HIDE DEF q
  <2>2. CASE names = <<>> \/ q # <<>>
    <3>1. r = [err |-> "none", qids |-> q]
      BY <1>3, <2>2 DEF Walk, q
    <3> QED
      BY <1>3, <2>1, <2>2, <3>1 DEF Has, q
  <2>3. CASE ~(names = <<>> \/ q # <<>>)
    <3>1. r.err # "none"
      BY <1>3, <2>3 DEF Walk, q
    <3> QED
      BY <1>3, <2>3, <3>1 DEF Has, q
  <2> QED
    BY <2>2, <2>3
<1> QED
  BY <1>1, <1>2, <1>3 DEF WalkReplies

(* A walk of no names is refused or leads to where it begins.              *)
LEMMA StayAnswers ==
  ASSUME Typed, NEW fid, Has(fids, fid), NEW r \in WalkReplies(fid, <<>>)
  PROVE  r.err = "none" \/ r.err = "EIO"
BY DEF WalkReplies, Walk, Refused, Has

LEMMA EndTyped ==
  ASSUME Typed, NEW fid, Has(fids, fid), NEW q \in Seq(Nodes)
  PROVE  End(fid, q) \in Nodes
<1>1. fids[fid] \in Nodes
  BY DEF Typed, Has
<1>2. q # <<>> => q[Len(q)] \in Nodes
  OBVIOUS
<1> QED
  BY <1>1, <1>2 DEF End

LEMMA WithTyped ==
  ASSUME NEW D, NEW s \in [D -> Nodes], NEW fid, NEW node \in Nodes
  PROVE  /\ With(s, fid, node) \in [DOMAIN With(s, fid, node) -> Nodes]
         /\ DOMAIN With(s, fid, node) = DOMAIN s \cup {fid}
         /\ With(s, fid, node)[fid] = node
         /\ \A g \in DOMAIN s : g # fid => With(s, fid, node)[g] = s[g]
BY DEF With

LEMMA ClunkTyped ==
  ASSUME NEW D, NEW s \in [D -> Nodes], NEW fid
  PROVE  /\ Clunk(s, fid) \in [DOMAIN Clunk(s, fid) -> Nodes]
         /\ DOMAIN Clunk(s, fid) = DOMAIN s \ {fid}
         /\ \A g \in DOMAIN s : g # fid => Clunk(s, fid)[g] = s[g]
         /\ fid \notin DOMAIN s => Clunk(s, fid) = s
BY DEF Clunk

LEMMA NamesTyped ==
  ASSUME Typed
  PROVE  Names \in Seq(Name) /\ Len(Names) = Len(parts) /\ (Names = <<>> <=> parts = <<>>)
<1>1. path \in Seq(Name) /\ parts \in Seq(1 .. Len(path))
  BY DEF Typed
<1>2. Len(parts) \in Nat /\ \A k \in 1 .. Len(parts) : path[parts[k]] \in Name
  BY <1>1
<1> QED
  BY <1>1, <1>2 DEF Names

-----------------------------------------------------------------------------
(* Batches.                                                                *)
LEMMA BatchWhole ==
  ASSUME Typed, Short, pos = 0, NEW j \in 1 .. Len(path), BatchEnd(j)
  PROVE  j = Len(path)
<1> DEFINE named == {k \in pos + 1 .. j : path[k] # "."}
<1> SUFFICES ASSUME j # Len(path) PROVE FALSE
  OBVIOUS
<1>1. Cardinality(named) = MAX_PARTS
  BY DEF BatchEnd
<1>2. Cardinality(named) <= j
  <2>1. named \subseteq 1 .. j
    OBVIOUS
  <2>2. IsFiniteSet(1 .. j) /\ Cardinality(1 .. j) = j
    BY FS_Interval
  <2> HIDE DEF named
  <2> QED
    BY <2>1, <2>2, FS_Subset
<1>3. MAX_PARTS \in Nat /\ Len(path) \in Nat /\ Len(path) <= MAX_PARTS
  BY PartsAssumption DEF Short, Typed
<1> QED
  BY <1>1, <1>2, <1>3

(* The names of a batch.                                                   *)
Proper(i, k) == {m \in i + 1 .. k : path[m] # "."}

Gathered(i, j, g) ==
  /\ g[i] = <<>>
  /\ \A k \in i + 1 .. j : g[k] = IF path[k] = "." THEN g[k - 1] ELSE Append(g[k - 1], k)
  /\ \A k \in i .. j : g[k] \in Seq(Proper(i, k)) /\ (Proper(i, k) # {} => g[k] # <<>>)

LEMMA SeqMono ==
  ASSUME NEW S, NEW T, S \subseteq T, NEW s \in Seq(S)
  PROVE  s \in Seq(T)
<1>1. s \in [1 .. Len(s) -> T] /\ Len(s) \in Nat
  OBVIOUS
<1> QED
  BY <1>1

LEMMA CollectedGathered ==
  ASSUME NEW i \in Nat, NEW j \in Nat, i <= j
  PROVE  \E g : Gathered(i, j, g) /\ Collected(i, j) = g[j]
<1> DEFINE next(v, k) == IF path[k] = "." THEN v ELSE Append(v, k)
           R(g, m) == g = [k \in i .. m |-> IF k = i THEN <<>> ELSE next(g[k - 1], k)]
           T == {m \in i .. j : \E g : R(g, m)}
<1> HIDE DEF next
<1>2. i \in T
  <2>1. R([k \in i .. i |-> <<>>], i)
    OBVIOUS
  <2>2. \E g : R(g, i)
    BY <2>1
  <2> QED
    BY <2>2
<1>3. ASSUME NEW m \in i .. j, m # j, m \in T
      PROVE  m + 1 \in T
  <2>1. PICK g : R(g, m)
    BY <1>3
  <2>2. m + 1 \in i .. j /\ m \in Nat /\ m + 1 # i
    BY <1>3
  <2>3. R([k \in i .. m + 1 |-> IF k = m + 1 THEN next(g[m], m + 1) ELSE g[k]], m + 1)
    <3> DEFINE h == [k \in i .. m + 1 |-> IF k = m + 1 THEN next(g[m], m + 1) ELSE g[k]]
    <3>1. /\ (m + 1) - 1 = m /\ m # m + 1 /\ m \in i .. m + 1
          /\ \A k \in i .. m : k \in i .. m + 1 /\ k # m + 1 /\ (k # i => k - 1 \in i .. m + 1 /\ k - 1 # m + 1)
          /\ \A k \in i .. m + 1 : k = m + 1 \/ k \in i .. m
      BY <2>2
    <3>2. \A k \in i .. m : h[k] = g[k]
      BY <3>1
    <3>3. h[m + 1] = next(h[(m + 1) - 1], m + 1)
      BY <3>1
    <3>4. \A k \in i .. m : k # i => h[k] = next(h[k - 1], k)
      <4> SUFFICES ASSUME NEW k \in i .. m, k # i PROVE h[k] = next(h[k - 1], k)
        OBVIOUS
      <4>1. k - 1 \in i .. m
        BY <2>2
      <4>2. g[k] = next(g[k - 1], k)
        BY <2>1
      <4> QED
        BY <3>2, <4>1, <4>2
    <3>5. i \in i .. m => h[i] = <<>>
      BY <2>1, <3>2
    <3>6. h = [k \in i .. m + 1 |-> h[k]]
      OBVIOUS
    <3> HIDE DEF h
    <3>7. \A k \in i .. m + 1 : h[k] = IF k = i THEN <<>> ELSE next(h[k - 1], k)
      BY <2>2, <3>1, <3>3, <3>4, <3>5
    <3>8. R(h, m + 1)
      BY <3>6, <3>7
    <3> QED
      BY <3>8 DEF h
  <2> QED
    BY <2>2, <2>3
<1> DEFINE at == CHOOSE g : R(g, j)
<1>4. R(at, j)
  <2> HIDE DEF T
  <2>1. \A m \in i .. j : m \in T
    BY <1>2, <1>3, Between
  <2>2. j \in T
    BY <2>1
  <2> QED
    BY <2>2 DEF T
<1>5. Collected(i, j) = at[j]
  BY DEF Collected, next
<1> HIDE DEF at
<1>6. at[i] = <<>> /\ \A k \in i + 1 .. j : at[k] = next(at[k - 1], k)
  BY <1>4
<1>7. \A k \in i .. j : at[k] \in Seq(Proper(i, k)) /\ (Proper(i, k) # {} => at[k] # <<>>)
  <2> DEFINE U == {k \in i .. j : at[k] \in Seq(Proper(i, k)) /\ (Proper(i, k) # {} => at[k] # <<>>)}
  <2>1. i \in U
    <3>1. <<>> \in Seq(Proper(i, i)) /\ i \in i .. j /\ Proper(i, i) = {}
      BY DEF Proper
    <3> QED
      BY <1>6, <3>1
  <2>2. ASSUME NEW m \in i .. j, m # j, m \in U
        PROVE  m + 1 \in U
    <3>1. m + 1 \in i + 1 .. j /\ m + 1 \in i .. j /\ (m + 1) - 1 = m
      BY <2>2
    <3>2. at[m + 1] = next(at[m], m + 1)
      BY <1>6, <3>1
    <3>3. at[m] \in Seq(Proper(i, m)) /\ (Proper(i, m) # {} => at[m] # <<>>)
      BY <2>2
    <3>4. Proper(i, m + 1) = IF path[m + 1] = "." THEN Proper(i, m) ELSE Proper(i, m) \cup {m + 1}
      BY <3>1 DEF Proper
    <3>5. CASE path[m + 1] = "."
      BY <3>1, <3>2, <3>3, <3>4, <3>5 DEF next
    <3>6. CASE path[m + 1] # "."
      <4>1. at[m] \in Seq(Proper(i, m + 1)) /\ m + 1 \in Proper(i, m + 1)
        BY <3>3, <3>4, <3>6, SeqMono, Zenon
      <4>2. \A S : \A v \in Seq(S), e \in S : Append(v, e) \in Seq(S) /\ Append(v, e) # <<>>
        <5> SUFFICES ASSUME NEW S, NEW v \in Seq(S), NEW e \in S
                     PROVE  Append(v, e) \in Seq(S) /\ Append(v, e) # <<>>
          OBVIOUS
        <5>1. Append(v, e) \in Seq(S) /\ Len(Append(v, e)) = Len(v) + 1 /\ Len(v) \in Nat
          OBVIOUS
        <5> QED
          BY <5>1
      <4>3. Append(at[m], m + 1) \in Seq(Proper(i, m + 1)) /\ Append(at[m], m + 1) # <<>>
        BY <4>1, <4>2, Zenon
      <4> QED
        BY <3>1, <3>2, <3>6, <4>3 DEF next
    <3> QED
      BY <3>5, <3>6
  <2> HIDE DEF U
  <2>3. \A k \in i .. j : k \in U
    BY <2>1, <2>2, Between
  <2> QED
    BY <2>3 DEF U
<1> QED
  BY <1>5, <1>6, <1>7 DEF Gathered, next


-----------------------------------------------------------------------------
(* The fids of a lookup.                                                   *)
LEMMA FidInit == Init => FidInv
<1> SUFFICES ASSUME Init PROVE FidInv
  OBVIOUS
<1>1. fids = [fid \in {1} |-> "root"] /\ before = fids
  BY DEF Init
<1>2. <<".">> \in Seq(Name) /\ <<".">> # <<>> /\ Len(<<".">>) = 1
  BY DEF Name
<1>3. Typed
  <2>1. fids \in [DOMAIN fids -> Nodes] /\ DOMAIN fids = {1}
    BY <1>1 DEF Nodes, Dirs
  <2>2. path = <<".">> /\ pos = 0 /\ parts = <<>> /\ <<>> \in Seq(1 .. Len(path))
    BY DEF Init
  <2>3. pi \in Protid /\ npi \in Protid
    BY DEF Init, Protid, NoProtid, NoFid, Nodes, Dirs
  <2>4. /\ last_fid = 1 /\ prev_fid = 0 /\ next_fid = 0 /\ n_qids = 0 /\ exists \subseteq Dirs
        /\ flags \in [creat : BOOLEAN, excl : BOOLEAN, acc : SUBSET {"read", "write", "exec"}]
        /\ p9_readonly \in BOOLEAN /\ have_created = FALSE /\ misused = FALSE
        /\ overtaken = FALSE /\ disturbed = FALSE /\ pc = "idle"
    BY OptionAssumption DEF Init, NoFid
  <2> QED
    <3>1. {p9_readonly, have_created, misused, overtaken, disturbed} \subseteq BOOLEAN
      BY <2>4
    <3>2. {pi.walk_fid, pi.io_fid, npi.walk_fid, npi.io_fid} \subseteq 0 .. last_fid
      BY <2>4 DEF Init, NoProtid, NoFid
    <3>3. DOMAIN fids \subseteq 1 .. last_fid /\ before \in [DOMAIN before -> Nodes]
          /\ DOMAIN before \subseteq 1 .. last_fid
      BY <1>1, <2>1, <2>4
    <3> QED
      BY <1>2, <2>1, <2>2, <2>3, <2>4, <3>1, <3>2, <3>3 DEF Typed
<1>4. Labels /\ Batches /\ ExclusiveMeansNew /\ FidMatchesNode /\ FidsAccounted /\ SlashMeansDir
  BY DEF Init, Labels, Batches, Active, ExclusiveMeansNew, FidMatchesNode, FidsAccounted, SlashMeansDir, Returned
<1>5. Fids
  <2>1. pc = "idle" /\ misused = FALSE /\ pi = [walk_fid |-> 1, io_fid |-> NoFid, qid |-> "root"]
    BY DEF Init
  <2>2. Alive(pi)
    BY <1>1, <2>1 DEF Alive, Has, NoFid
  <2> QED
    BY <2>1, <2>2 DEF Fids, Active
<1> QED
  BY <1>3, <1>4, <1>5 DEF FidInv

(* A lookup that returns without a file.                                   *)
LEMMA FailStep ==
  ASSUME FidInv, pc \in Active, NEW o, Return(o), o.kind # "normal", Typed',
         UNCHANGED <<path, parts, flags, pi, before, overtaken>>,
         ~overtaken =>
           /\ ~misused'
           /\ \A fid \in DOMAIN before : fid \in DOMAIN fids' /\ fids'[fid] = before[fid]
           /\ \/ o.err = "ENOMEM" \/ (o.err = "ENOTDIR" /\ DirAsked)
              \/ DOMAIN fids' = DOMAIN before
  PROVE  FidInv'
<1>1. pc' = "returned" /\ out' = o /\ npi' = NoProtid
  BY DEF Return
<1>2. Labels' /\ ExclusiveMeansNew' /\ FidMatchesNode' /\ SlashMeansDir' /\ Batches'
  <2>1. \A k \in 1 .. Len(parts) : path[parts[k]] # "."
    BY DEF FidInv, Batches
  <2> QED
    BY <1>1, <2>1 DEF Labels, Batches, Active, ExclusiveMeansNew, FidMatchesNode, SlashMeansDir, Returned
<1>3. ASSUME ~overtaken PROVE Fids' /\ FidsAccounted'
  <2>1. Fids
    BY <1>3 DEF FidInv
  <2>2. Alive(pi)'
    BY <1>3, <2>1 DEF Fids, Alive, Has
  <2>3. Fids'
    BY <1>1, <1>3, <2>1, <2>2 DEF Fids, Has, Active
  <2>4. FidsAccounted'
    <3>1. {npi'.walk_fid, npi'.io_fid} \ {NoFid} = {}
      BY <1>1 DEF NoProtid
    <3>2. DirAsked' = DirAsked
      BY DEF DirAsked
    <3> QED
      BY <1>1, <1>3, <3>1, <3>2 DEF FidsAccounted
  <2> QED
    BY <2>3, <2>4
<1> QED
  BY <1>2, <1>3 DEF FidInv

LEMMA FidBegin ==
  ASSUME ShortCreate, FidInv, NEW q \in Requests, Begin(q)
  PROVE  FidInv'
<1>1. /\ pc = "idle" /\ path' = q.path /\ flags' = [creat |-> q.creat, excl |-> q.excl, acc |-> q.acc]
      /\ pos' = 0 /\ parts' = <<>> /\ n_qids' = 0 /\ prev_fid' = pi.walk_fid /\ next_fid' = NoFid
      /\ have_created' = FALSE /\ before' = fids /\ disturbed' = FALSE
      /\ UNCHANGED <<p9_readonly, pi, fids, last_fid, exists, misused, overtaken>>
  BY DEF Begin
<1>2. \/ pc' = "returned" /\ out' \in {Error("EROFS"), Reauth(2)} /\ npi' = NoProtid
      \/ pc' = "gather" /\ npi' = NoProtid /\ ~(p9_readonly /\ q.excl)
  BY DEF Begin, Return
<1>3. /\ q.path \in Seq(Name) /\ q.path # <<>> /\ {q.creat, q.excl} \subseteq BOOLEAN
      /\ q.acc \subseteq {"read", "write", "exec"}
  BY RequestsAssumption
<1>4. Typed'
  <2>1. /\ path' \in Seq(Name) /\ path' # <<>> /\ pos' \in 0 .. Len(path') /\ parts' \in Seq(1 .. Len(path'))
        /\ flags' \in [creat : BOOLEAN, excl : BOOLEAN, acc : SUBSET {"read", "write", "exec"}]
    BY <1>1, <1>3
  <2>2. NoProtid \in Protid
    BY DEF NoProtid, NoFid, Protid, Nodes
  <2>3. prev_fid' \in 0 .. last_fid' /\ next_fid' \in 0 .. last_fid'
        /\ {pi'.walk_fid, pi'.io_fid, npi'.walk_fid, npi'.io_fid} \subseteq 0 .. last_fid'
    BY <1>1, <1>2 DEF NoFid, NoProtid, FidInv, Typed
  <2>4. {p9_readonly', have_created', misused', overtaken', disturbed'} \subseteq BOOLEAN
    BY <1>1 DEF FidInv, Typed
  <2>5. pc' \in Active \cup {"idle", "returned", "aborted", "crashed"} /\ n_qids' \in Nat /\ ~(n_qids' > 0)
        /\ last_fid' \in Nat /\ pi' \in Protid /\ npi' \in Protid
        /\ fids' \in [DOMAIN fids' -> Nodes] /\ DOMAIN fids' \subseteq 1 .. last_fid' /\ exists' \subseteq Dirs
    BY <1>1, <1>2, <2>2 DEF FidInv, Typed, Active
  <2>6. before' \in [DOMAIN before' -> Nodes] /\ DOMAIN before' \subseteq 1 .. last_fid'
    BY <1>1, <2>5
  <2> QED
    BY <2>1, <2>3, <2>4, <2>5, <2>6 DEF Typed
<1>5. Labels'
  <2>1. flags'.creat = q.creat /\ flags'.excl = q.excl /\ (q.creat => Len(path') <= MAX_PARTS)
    BY <1>1 DEF ShortCreate
  <2>2. 0 < Len(path')
    BY <1>1, <1>3
  <2> QED
    BY <1>1, <1>2, <2>1, <2>2 DEF Labels, Active, Short
<1>6. ExclusiveMeansNew' /\ FidMatchesNode' /\ SlashMeansDir' /\ Batches'
  BY <1>1, <1>2 DEF Batches, SlashMeansDir, Active, ExclusiveMeansNew, FidMatchesNode, Returned, Error, Reauth
<1>7. ASSUME ~overtaken PROVE Fids' /\ FidsAccounted'
  <2>1. ~misused /\ Alive(pi)
    BY <1>7 DEF FidInv, Fids
  <2>2. Alive(pi)'
    BY <1>1, <2>1 DEF Alive, Has
  <2>3. Fids'
    BY <1>1, <1>2, <2>1, <2>2 DEF Fids, Has, Alive, Active, Error, Reauth
  <2>4. FidsAccounted'
    <3>1. {npi'.walk_fid, npi'.io_fid} \ {NoFid} = {}
      BY <1>2 DEF NoProtid
    <3> QED
      BY <1>1, <3>1 DEF FidsAccounted
  <2> QED
    BY <2>3, <2>4
<1> QED
  BY <1>1, <1>4, <1>5, <1>6, <1>7 DEF FidInv

(* The variables most steps leave alone.                                   *)
LEMMA TypedStep ==
  ASSUME Typed, UNCHANGED <<path, flags, pos, parts, p9_readonly, before, pi>>,
         pc' \in Active \cup {"idle", "returned", "aborted", "crashed"},
         last_fid' \in {last_fid, last_fid + 1},
         prev_fid' \in 0 .. last_fid', next_fid' \in 0 .. last_fid',
         n_qids' \in Nat, n_qids' > 0 => qid' \in Nodes,
         {have_created', misused', overtaken', disturbed'} \subseteq BOOLEAN,
         npi' \in Protid, {npi'.walk_fid, npi'.io_fid} \subseteq 0 .. last_fid',
         fids' \in [DOMAIN fids' -> Nodes], DOMAIN fids' \subseteq 1 .. last_fid',
         exists' \subseteq Dirs
  PROVE  Typed'
<1>1. last_fid \in Nat /\ last_fid' \in Nat /\ last_fid <= last_fid'
  BY DEF Typed
<1>2. {pi.walk_fid, pi.io_fid} \subseteq 0 .. last_fid /\ DOMAIN before \subseteq 1 .. last_fid
      /\ p9_readonly \in BOOLEAN
  BY DEF Typed
<1>3. {pi'.walk_fid, pi'.io_fid, npi'.walk_fid, npi'.io_fid} \subseteq 0 .. last_fid'
      /\ DOMAIN before' \subseteq 1 .. last_fid'
  BY <1>1, <1>2
<1>4. {p9_readonly', have_created', misused', overtaken', disturbed'} \subseteq BOOLEAN
  BY <1>2
<1>5. /\ path' \in Seq(Name) /\ path' # <<>>
      /\ flags' \in [creat : BOOLEAN, excl : BOOLEAN, acc : SUBSET {"read", "write", "exec"}]
      /\ pos' \in 0 .. Len(path') /\ parts' \in Seq(1 .. Len(path'))
      /\ pi' \in Protid /\ before' \in [DOMAIN before' -> Nodes]
  BY DEF Typed
<1> QED
  BY <1>1, <1>3, <1>4, <1>5 DEF Typed

LEMMA FidGather ==
  ASSUME FidInv, Gather
  PROVE  FidInv'
<1>1. PICK j \in pos + 1 .. Len(path) :
        /\ BatchEnd(j) /\ pos' = j /\ parts' = Collected(pos, j)
        /\ pc' = IF j = Len(path) /\ flags.creat /\ flags.excl /\ ~p9_readonly THEN "creat" ELSE "walk"
  BY DEF Gather
<1>2. /\ pc = "gather" /\ last_fid' = last_fid + 1 /\ next_fid' = last_fid + 1
      /\ UNCHANGED <<path, flags, p9_readonly, prev_fid, n_qids, qid, have_created, before, disturbed, overtaken,
                     pi, npi, out, fids, exists, misused>>
  BY DEF Gather
<1>3. Typed
  BY DEF FidInv
<1>4. pos \in Nat /\ Len(path) \in Nat /\ j \in 1 .. Len(path) /\ pos <= j
  BY <1>3 DEF Typed
<1>5. parts' \in Seq(1 .. Len(path))
  <2>1. PICK g : Gathered(pos, j, g) /\ Collected(pos, j) = g[j]
    BY <1>4, CollectedGathered
  <2>2. Collected(pos, j) \in Seq(Proper(pos, j))
    BY <1>4, <2>1 DEF Gathered
  <2>3. Proper(pos, j) \subseteq 1 .. Len(path)
    BY <1>4 DEF Proper
  <2> QED
    BY <1>1, <2>2, <2>3, SeqMono, Zenon
<1>6. Typed'
  <2>1. last_fid' \in Nat /\ next_fid' \in 0 .. last_fid' /\ prev_fid' \in 0 .. last_fid'
        /\ 1 .. last_fid \subseteq 1 .. last_fid'
    <3>1. last_fid \in Nat /\ prev_fid \in 0 .. last_fid
      BY <1>3 DEF Typed
    <3> QED
      BY <1>2, <3>1
  <2>2. pos' \in 0 .. Len(path') /\ parts' \in Seq(1 .. Len(path'))
    BY <1>1, <1>2, <1>4, <1>5
  <2>3. {p9_readonly, have_created, misused, overtaken, disturbed} \subseteq BOOLEAN
        /\ {pi.walk_fid, pi.io_fid, npi.walk_fid, npi.io_fid} \subseteq 0 .. last_fid'
        /\ last_fid \in Nat /\ DOMAIN fids \subseteq 1 .. last_fid' /\ DOMAIN before \subseteq 1 .. last_fid'
    <3>1. {p9_readonly, have_created, misused, overtaken, disturbed} \subseteq BOOLEAN
      BY <1>3 DEF Typed
    <3>2. last_fid \in Nat /\ 0 .. last_fid \subseteq 0 .. last_fid' /\ 1 .. last_fid \subseteq 1 .. last_fid'
      BY <1>2, <1>3, <2>1 DEF Typed
    <3>3. {pi.walk_fid, pi.io_fid, npi.walk_fid, npi.io_fid} \subseteq 0 .. last_fid
          /\ DOMAIN fids \subseteq 1 .. last_fid /\ DOMAIN before \subseteq 1 .. last_fid
      BY <1>3 DEF Typed
    <3> QED
      BY <3>1, <3>2, <3>3, Zenon
  <2>4. pc' \in Active
    BY <1>1 DEF Active
  <2>5. /\ path' \in Seq(Name) /\ path' # <<>>
        /\ flags' \in [creat : BOOLEAN, excl : BOOLEAN, acc : SUBSET {"read", "write", "exec"}]
        /\ n_qids' \in Nat /\ (n_qids' > 0 => qid' \in Nodes) /\ exists' \subseteq Dirs
        /\ pi' \in Protid /\ npi' \in Protid
        /\ fids' \in [DOMAIN fids' -> Nodes] /\ before' \in [DOMAIN before' -> Nodes]
    BY <1>2, <1>3 DEF Typed
  <2> HIDE <1>1, <1>3
  <2> QED
    BY <1>2, <2>1, <2>2, <2>3, <2>4, <2>5 DEF Typed
<1>7. Labels'
  <2>1. Labels
    BY DEF FidInv
  <2>2. ~(p9_readonly /\ flags.excl) /\ ~have_created /\ (flags.creat => Short)
        /\ (Short => pos = 0 /\ prev_fid = pi.walk_fid)
    BY <1>2, <2>1 DEF Labels, Active
  <2>3. Short => j = Len(path)
    BY <1>1, <1>3, <1>4, <2>2, BatchWhole
  <2>4. Short' <=> Short
    BY <1>2 DEF Short
  <2>5. pos' > 0 /\ next_fid' # NoFid /\ path' = path /\ flags' = flags /\ prev_fid' = prev_fid /\ have_created' = have_created
        /\ pi' = pi /\ p9_readonly' = p9_readonly /\ pos' = j
    <3>1. last_fid \in Nat
      BY <1>3 DEF Typed
    <3> QED
      BY <1>1, <1>2, <1>4, <3>1 DEF NoFid
  <2>6. pc' \in {"creat", "walk"} /\ (pc' = "creat" => j = Len(path) /\ flags.creat /\ flags.excl)
        /\ (pc' = "walk" => ~(j = Len(path) /\ flags.creat /\ flags.excl))
    BY <1>1, <2>2
  <2> QED
    BY <2>2, <2>3, <2>4, <2>5, <2>6 DEF Labels, Active
<1>8. ExclusiveMeansNew' /\ FidMatchesNode' /\ FidsAccounted' /\ SlashMeansDir'
  BY <1>1 DEF ExclusiveMeansNew, FidMatchesNode, FidsAccounted, SlashMeansDir, Returned
<1>9. ASSUME ~overtaken PROVE Fids'
  <2>1. Fids
    BY <1>9 DEF FidInv
  <2>2. Alive(pi)'
    BY <1>2, <2>1 DEF Fids, Alive, Has
  <2>3. next_fid' \notin DOMAIN fids /\ next_fid' # NoFid
    BY <1>2, <1>3 DEF Typed, NoFid
  <2>4. \/ prev_fid = pi.walk_fid /\ DOMAIN fids = DOMAIN before
        \/ Reached(prev_fid)
    BY <1>2, <2>1 DEF Fids
  <2>5. Reached(prev_fid)' <=> Reached(prev_fid)
    BY <1>2 DEF Reached, Has
  <2>6. pc' = "creat" => prev_fid = pi.walk_fid
    <3>1. flags.creat => prev_fid = pi.walk_fid
      BY <1>2 DEF FidInv, Labels, Active
    <3> QED
      BY <1>1, <3>1
  <2>7. pc' = "creat" => DOMAIN fids = DOMAIN before
    BY <1>2, <2>1, <2>4, <2>6 DEF Fids, Active, Reached
  <2> QED
    BY <1>1, <1>2, <2>1, <2>2, <2>3, <2>4, <2>5, <2>7 DEF Fids, Has, Active
<1>10. Batches'
  <2>1. PICK g : Gathered(pos, j, g) /\ Collected(pos, j) = g[j]
    BY <1>4, CollectedGathered
  <2>2. parts' \in Seq(Proper(pos, j)) /\ (Proper(pos, j) # {} => parts' # <<>>)
    BY <1>1, <1>4, <2>1 DEF Gathered
  <2>3. \A k \in 1 .. Len(parts') : path[parts'[k]] # "."
    BY <2>2 DEF Proper
  <2>4. Short => Proper(pos, j) = {k \in 1 .. Len(path) : path[k] # "."}
    <3>1. Short => pos = 0
      BY <1>2 DEF FidInv, Labels
    <3>2. Short => j = Len(path)
      BY <1>1, <1>3, <1>4, <3>1, BatchWhole
    <3> QED
      BY <3>1, <3>2 DEF Proper
  <2> QED
    BY <1>1, <1>2, <2>2, <2>3, <2>4 DEF Batches, Short, Active
<1> QED
  BY <1>2, <1>6, <1>7, <1>8, <1>9, <1>10 DEF FidInv

-----------------------------------------------------------------------------
(* The fid of the previous batch, once clunked, leaves those that were     *)
(* there before the lookup.                                                *)
LEMMA PrevClunked ==
  ASSUME FidInv, pc = "walk"
  PROVE  /\ ClunkPrev(fids) \in [DOMAIN ClunkPrev(fids) -> Nodes]
         /\ DOMAIN ClunkPrev(fids) \subseteq DOMAIN fids
         /\ prev_fid = pi.walk_fid => ClunkPrev(fids) = fids
         /\ ~overtaken =>
              /\ DOMAIN ClunkPrev(fids) = DOMAIN before
              /\ \A fid \in DOMAIN before : ClunkPrev(fids)[fid] = before[fid]
<1>1. Typed /\ fids \in [DOMAIN fids -> Nodes]
  BY DEF FidInv, Typed
<1>2. CASE prev_fid = pi.walk_fid
  <2>1. ClunkPrev(fids) = fids
    BY <1>2 DEF ClunkPrev
  <2>2. ASSUME ~overtaken
        PROVE  DOMAIN fids = DOMAIN before /\ \A fid \in DOMAIN before : fids[fid] = before[fid]
    BY <1>2, <2>2 DEF FidInv, Fids, Active, Reached, Has
  <2> QED
    BY <1>1, <2>1, <2>2
<1>3. CASE prev_fid # pi.walk_fid
  <2>1. ClunkPrev(fids) = Clunk(fids, prev_fid)
    BY <1>3 DEF ClunkPrev
  <2>2. /\ Clunk(fids, prev_fid) \in [DOMAIN Clunk(fids, prev_fid) -> Nodes]
        /\ DOMAIN Clunk(fids, prev_fid) = DOMAIN fids \ {prev_fid}
        /\ \A g \in DOMAIN fids : g # prev_fid => Clunk(fids, prev_fid)[g] = fids[g]
    BY <1>1, ClunkTyped
  <2>3. ASSUME ~overtaken
        PROVE  /\ Reached(prev_fid)
               /\ \A fid \in DOMAIN before : Has(fids, fid) /\ fids[fid] = before[fid]
    BY <1>3, <2>3 DEF FidInv, Fids, Active
  <2> QED
    BY <1>3, <2>1, <2>2, <2>3 DEF Reached, Has
<1> QED
  BY <1>2, <1>3

(* The fid a walk starts from is there.                                    *)
LEMMA PrevThere ==
  ASSUME FidInv, pc \in {"walk", "creat"}, ~overtaken
  PROVE  Has(fids, prev_fid)
<1>1. Fids /\ Labels
  BY DEF FidInv
<1>2. Has(fids, pi.walk_fid)
  BY <1>1 DEF Fids, Alive
<1> QED
  BY <1>1, <1>2 DEF Fids, Labels, Reached, Has

LEMMA FidWalkFails ==
  ASSUME FidInv, pc = "walk", NEW fs,
         fids' = fs, fs = ClunkPrev(fids),
         \/ pc' = "creat" /\ create /\ UNCHANGED <<out, npi>>
         \/ \E o : Return(o) /\ o.kind # "normal",
         misused' = (misused \/ ~Has(fids, prev_fid)),
         UNCHANGED <<prev_fid, n_qids, qid>>,
         UNCHANGED <<path, flags, lookups, p9_readonly, pos, parts, next_fid, have_created, before,
                     disturbed, overtaken, pi, last_fid, exists>>
  PROVE  FidInv'
<1>1. /\ fs \in [DOMAIN fs -> Nodes] /\ DOMAIN fs \subseteq DOMAIN fids
      /\ prev_fid = pi.walk_fid => fs = fids
      /\ ~overtaken => DOMAIN fs = DOMAIN before /\ \A fid \in DOMAIN before : fs[fid] = before[fid]
  BY PrevClunked
<1>2. Typed /\ Labels /\ Batches
  BY DEF FidInv
<1>3. Typed'
  <2>1. misused' \in BOOLEAN
    BY <1>2 DEF Typed
  <2>2. pc' \in Active \cup {"idle", "returned", "aborted", "crashed"}
    BY DEF Return, Active
  <2>3. npi' \in Protid /\ {npi'.walk_fid, npi'.io_fid} \subseteq 0 .. last_fid'
    BY <1>2 DEF Return, NoProtid, NoFid, Protid, Typed
  <2>4. {have_created', misused', overtaken', disturbed'} \subseteq BOOLEAN
    BY <1>2, <2>1 DEF Typed
  <2>5. /\ prev_fid' \in 0 .. last_fid' /\ next_fid' \in 0 .. last_fid' /\ n_qids' \in Nat
        /\ (n_qids' > 0 => qid' \in Nodes) /\ exists' \subseteq Dirs /\ last_fid' \in {last_fid, last_fid + 1}
    BY <1>2 DEF Typed
  <2>6. fids' \in [DOMAIN fids' -> Nodes] /\ DOMAIN fids' \subseteq 1 .. last_fid'
    BY <1>1, <1>2 DEF Typed
  <2> QED
    BY <1>2, <2>2, <2>3, <2>4, <2>5, <2>6, TypedStep
<1>4. ~overtaken => ~misused'
  BY PrevThere DEF FidInv, Fids
<1>5. CASE \E o : Return(o) /\ o.kind # "normal"
  <2>1. PICK o : Return(o) /\ o.kind # "normal"
    BY <1>5
  <2>2. pc \in Active
    BY DEF Active
  <2> QED
    BY <1>1, <1>3, <1>4, <2>1, <2>2, FailStep
<1>6. CASE pc' = "creat" /\ create /\ UNCHANGED <<out, npi>>
  <2>1. pos = Len(path) /\ flags.creat /\ Short /\ prev_fid = pi.walk_fid /\ ~have_created
        /\ ~(p9_readonly /\ flags.excl)
    BY <1>2, <1>6 DEF create, AtEnd, Labels, Active
  <2>2. Labels'
    BY <1>2, <1>6, <2>1 DEF Labels, Active, Short
  <2>3. Batches'
    BY <1>2, <1>6 DEF Batches, Active, Short
  <2>4. ExclusiveMeansNew' /\ FidMatchesNode' /\ FidsAccounted' /\ SlashMeansDir'
    BY <1>6 DEF ExclusiveMeansNew, FidMatchesNode, FidsAccounted, SlashMeansDir, Returned
  <2>5. ASSUME ~overtaken PROVE Fids'
    <3>1. Fids /\ fids' = fids
      BY <1>1, <2>1, <2>5 DEF FidInv
    <3>2. Alive(pi)'
      BY <3>1 DEF Fids, Alive, Has
    <3>3. next_fid \notin DOMAIN fids /\ next_fid # NoFid /\ DOMAIN fids = DOMAIN before
      BY <1>1, <2>1, <2>5, <3>1 DEF Fids
    <3> QED
      BY <1>4, <1>6, <2>5, <3>1, <3>2, <3>3 DEF Fids, Has, Active
  <2> QED
    BY <1>3, <2>2, <2>3, <2>4, <2>5 DEF FidInv
<1> QED
  BY <1>5, <1>6


LEMMA FidWalkComplete ==
  ASSUME FidInv, pc = "walk", NEW r \in WalkReplies(prev_fid, Names), WalkComplete(r),
         misused' = (misused \/ ~Has(fids, prev_fid)),
         UNCHANGED <<path, flags, lookups, p9_readonly, pos, parts, next_fid, have_created, before,
                     disturbed, overtaken, pi, last_fid, exists>>
  PROVE  FidInv'
<1> DEFINE node == End(prev_fid, r.qids)
           ws == With(fids, next_fid, node)
<1>1. Typed /\ Labels /\ Batches
  BY DEF FidInv
<1>2. /\ r.err = "none" /\ Len(r.qids) = Len(parts) /\ prev_fid' = next_fid /\ n_qids' = Len(r.qids)
      /\ qid' = IF r.qids = <<>> THEN NoNode ELSE r.qids[Len(r.qids)]
      /\ fids' = ClunkPrev(ws)
  BY DEF WalkComplete, Advance
<1>3. ~(create /\ flags.excl)
  BY <1>1 DEF Labels, create, AtEnd
<1>4. pc' = (IF AtEnd THEN "found" ELSE "gather") /\ UNCHANGED <<out, npi>>
  BY <1>3 DEF WalkComplete
<1>5. Names \in Seq(Name)
  BY <1>1, NamesTyped
<1>6. Has(fids, prev_fid) /\ r.qids \in Seq(Nodes) /\ Len(r.qids) \in Nat
  BY <1>1, <1>2, <1>5, Answers
<1>7. node \in Nodes /\ (r.qids # <<>> => node = r.qids[Len(r.qids)])
  BY <1>1, <1>6, EndTyped DEF End
<1> HIDE DEF node
<1>8. /\ ws \in [DOMAIN ws -> Nodes] /\ DOMAIN ws = DOMAIN fids \cup {next_fid} /\ ws[next_fid] = node
      /\ \A g \in DOMAIN fids : g # next_fid => ws[g] = fids[g]
  <2>1. fids \in [DOMAIN fids -> Nodes]
    BY <1>1 DEF Typed
  <2> QED
    BY <1>7, <2>1 DEF With
<1> HIDE DEF ws
<1>9. /\ fids' \in [DOMAIN fids' -> Nodes] /\ DOMAIN fids' \subseteq DOMAIN fids \cup {next_fid}
      /\ DOMAIN fids' = IF prev_fid # pi.walk_fid THEN DOMAIN ws \ {prev_fid} ELSE DOMAIN ws
      /\ \A g \in DOMAIN fids' : fids'[g] = ws[g]
  <2>1. CASE prev_fid = pi.walk_fid
    <3>1. fids' = ws
      BY <1>2, <2>1 DEF ClunkPrev
    <3> QED
      BY <1>8, <2>1, <3>1
  <2>2. CASE prev_fid # pi.walk_fid
    <3>1. fids' = Clunk(ws, prev_fid)
      BY <1>2, <2>2 DEF ClunkPrev
    <3>2. /\ Clunk(ws, prev_fid) \in [DOMAIN Clunk(ws, prev_fid) -> Nodes]
          /\ DOMAIN Clunk(ws, prev_fid) = DOMAIN ws \ {prev_fid}
          /\ \A g \in DOMAIN ws : g # prev_fid => Clunk(ws, prev_fid)[g] = ws[g]
      BY <1>8, ClunkTyped
    <3> QED
      BY <1>8, <2>2, <3>1, <3>2
  <2> QED
    BY <2>1, <2>2
<1>10. ~overtaken => ~misused'
  BY <1>6 DEF FidInv, Fids
(* The fid reached is a new one.                                           *)
<1>11. ASSUME ~overtaken
       PROVE  /\ DOMAIN fids' = DOMAIN before \cup {next_fid} /\ next_fid \notin DOMAIN before
              /\ next_fid # NoFid /\ fids'[next_fid] = node
              /\ \A fid \in DOMAIN before : fids'[fid] = before[fid]
  <2>1. Fids
    BY <1>11 DEF FidInv
  <2>2. next_fid \notin DOMAIN fids /\ next_fid # NoFid
    BY <2>1 DEF Fids
  <2>3. \A fid \in DOMAIN before : fid \in DOMAIN fids /\ fids[fid] = before[fid]
    BY <2>1 DEF Fids, Active, Has
  <2>4. \/ prev_fid = pi.walk_fid /\ DOMAIN fids = DOMAIN before
        \/ Reached(prev_fid)
    BY <2>1 DEF Fids
  <2>5. pi.walk_fid \in DOMAIN before
    BY <2>1 DEF Fids, Active, Has
  <2>6. DOMAIN fids' = DOMAIN before \cup {next_fid}
    <3>1. CASE prev_fid = pi.walk_fid
      <4>1. DOMAIN fids = DOMAIN before
        BY <2>4, <2>5, <3>1 DEF Reached, Has
      <4> QED
        BY <1>8, <1>9, <3>1, <4>1
    <3>2. CASE prev_fid # pi.walk_fid
      <4>1. DOMAIN fids = DOMAIN before \cup {prev_fid} /\ prev_fid \notin DOMAIN before
        BY <2>4, <3>2 DEF Reached, Has
      <4> QED
        BY <1>8, <1>9, <2>2, <3>2, <4>1
    <3> QED
      BY <3>1, <3>2
  <2>7. next_fid \notin DOMAIN before /\ fids'[next_fid] = node
    BY <1>8, <1>9, <2>2, <2>3, <2>6
  <2>8. \A fid \in DOMAIN before : fids'[fid] = before[fid]
    BY <1>8, <1>9, <2>2, <2>3, <2>6
  <2> QED
    BY <2>2, <2>6, <2>7, <2>8
<1>12. Typed'
  <2>1. misused' \in BOOLEAN
    BY <1>1 DEF Typed
  <2>2. pc' \in Active \cup {"idle", "returned", "aborted", "crashed"}
    BY <1>4 DEF Active
  <2>3. npi' \in Protid /\ {npi'.walk_fid, npi'.io_fid} \subseteq 0 .. last_fid'
    BY <1>1, <1>4 DEF Typed
  <2>4. {have_created', misused', overtaken', disturbed'} \subseteq BOOLEAN
    BY <1>1, <2>1 DEF Typed
  <2>5. prev_fid' \in 0 .. last_fid' /\ next_fid' \in 0 .. last_fid' /\ exists' \subseteq Dirs
        /\ last_fid' \in {last_fid, last_fid + 1}
    BY <1>1, <1>2 DEF Typed
  <2>6. n_qids' \in Nat /\ (n_qids' > 0 => qid' \in Nodes)
    BY <1>2, <1>6
  <2>7. fids' \in [DOMAIN fids' -> Nodes] /\ DOMAIN fids' \subseteq 1 .. last_fid'
    <3>1. next_fid # 0
      BY <1>1 DEF Labels, NoFid
    <3>2. next_fid \in 1 .. last_fid /\ DOMAIN fids \subseteq 1 .. last_fid
      BY <1>1, <3>1 DEF Typed
    <3> QED
      BY <1>2, <1>9, <3>2
  <2> QED
    BY <1>1, <2>2, <2>3, <2>4, <2>5, <2>6, <2>7, TypedStep
<1>13. Labels'
  <2>1. pos \in 0 .. Len(path) /\ Len(path) \in Nat /\ pos > 0
    BY <1>1 DEF Typed, Labels
  <2>2. /\ ~(p9_readonly /\ flags.excl) /\ (flags.creat => Short) /\ ~have_created
        /\ (Short => pos = Len(path)) /\ ~(pos = Len(path) /\ flags.creat /\ flags.excl)
    BY <1>1 DEF Labels, Active
  <2>3. \/ pc' = "found" /\ pos = Len(path)
        \/ pc' = "gather" /\ pos # Len(path)
    BY <1>4 DEF AtEnd
  <2>4. Short' <=> Short
    BY DEF Short
  <2> QED
    BY <2>1, <2>2, <2>3, <2>4 DEF Labels, Active
<1>14. Batches'
  BY <1>1, <1>2, <1>4 DEF Batches, Labels, Active, Short
<1>15. ExclusiveMeansNew' /\ FidMatchesNode' /\ FidsAccounted' /\ SlashMeansDir'
  BY <1>4 DEF ExclusiveMeansNew, FidMatchesNode, FidsAccounted, SlashMeansDir, Returned
<1>16. ASSUME ~overtaken PROVE Fids'
  <2>1. Fids
    BY <1>16 DEF FidInv
  <2>2. \A fid \in DOMAIN before : Has(fids, fid)' /\ fids'[fid] = before[fid]
    BY <1>11, <1>16 DEF Has
  <2>3. Has(before, pi.walk_fid) /\ (pi.io_fid # NoFid => Has(before, pi.io_fid))
    BY <2>1 DEF Fids, Active
  <2>4. Alive(pi)'
    BY <2>1, <2>2, <2>3 DEF Fids, Alive, Has
  <2>5. Reached(prev_fid)'
    BY <1>2, <1>11, <1>16 DEF Reached, Has
  <2>6. n_qids' > 0 => qid' = fids'[prev_fid']
    BY <1>2, <1>6, <1>7, <1>11, <1>16
  <2>7. ~have_created
    BY <1>1 DEF Labels, Active
  <2>8. ~misused'
    BY <1>10, <1>16
  <2> QED
    BY <1>4, <2>2, <2>3, <2>4, <2>5, <2>6, <2>7, <2>8 DEF Fids, Has, Active
<1> QED
  BY <1>12, <1>13, <1>14, <1>15, <1>16 DEF FidInv

LEMMA FidWalk ==
  ASSUME FidInv, DoWalk
  PROVE  FidInv'
<1>1. PICK r \in WalkReplies(prev_fid, Names) :
        WalkFails(r) \/ WalkEscapes(r) \/ WalkShort(r) \/ WalkComplete(r)
  BY DEF DoWalk
<1>2. /\ pc = "walk" /\ misused' = (misused \/ ~Has(fids, prev_fid))
      /\ UNCHANGED <<path, flags, lookups, p9_readonly, pos, parts, next_fid, have_created, before,
                     disturbed, overtaken, pi, last_fid, exists>>
  BY DEF DoWalk, UsePrev
<1>3. \A e, k : Error(e).kind # "normal" /\ Reauth(k).kind # "normal"
  BY DEF Error, Reauth
<1>4. CASE WalkFails(r)
  <2>1. fids' = ClunkPrev(fids) /\ UNCHANGED <<prev_fid, n_qids, qid>>
    BY <1>4 DEF WalkFails
  <2>2. \/ pc' = "creat" /\ create /\ UNCHANGED <<out, npi>>
        \/ Return(Error(r.err))
    BY <1>4 DEF WalkFails
  <2> QED
    BY <1>2, <1>3, <2>1, <2>2, FidWalkFails
<1>5. CASE WalkEscapes(r)
  <2>1. fids' = ClunkPrev(fids) /\ UNCHANGED <<prev_fid, n_qids, qid>>
    BY <1>5 DEF WalkEscapes
  <2>2. \E k : Return(Reauth(k))
    BY <1>5 DEF WalkEscapes
  <2> QED
    BY <1>2, <1>3, <2>1, <2>2, FidWalkFails
<1>6. CASE WalkShort(r)
  <2>1. fids' = ClunkPrev(fids) /\ UNCHANGED <<prev_fid, n_qids, qid>>
    BY <1>6 DEF WalkShort
  <2>2. \/ pc' = "creat" /\ create /\ UNCHANGED <<out, npi>>
        \/ Return(Error("ENOTDIR")) \/ Return(Error("ENOENT"))
    BY <1>6 DEF WalkShort
  <2> QED
    BY <1>2, <1>3, <2>1, <2>2, FidWalkFails
<1>7. CASE WalkComplete(r)
  BY <1>2, <1>7, FidWalkComplete
<1> QED
  BY <1>1, <1>4, <1>5, <1>6, <1>7


LEMMA FidCreatePrepared ==
  ASSUME FidInv, CreatePrepared
  PROVE  FidInv'
<1>1. /\ pc = "creat" /\ UNCHANGED <<lookups, p9_readonly, local, pi, last_fid, exists>>
      /\ UNCHANGED <<path, flags, pos, parts, prev_fid, next_fid, n_qids, qid, have_created, before,
                     disturbed, overtaken>>
  BY DEF CreatePrepared, local
<1>2. Typed /\ Labels /\ Batches
  BY DEF FidInv
<1>3. /\ pos = Len(path) /\ prev_fid = pi.walk_fid /\ flags.creat /\ Short /\ ~have_created
      /\ ~(p9_readonly /\ flags.excl) /\ next_fid # NoFid
  BY <1>1, <1>2 DEF Labels, Active
<1>4. ASSUME ~overtaken
      PROVE  /\ Fids /\ ~misused /\ Has(fids, prev_fid) /\ DOMAIN fids = DOMAIN before /\ next_fid \notin DOMAIN fids
             /\ \A fid \in DOMAIN before : fid \in DOMAIN fids /\ fids[fid] = before[fid]
  BY <1>1, <1>4, PrevThere DEF FidInv, Fids, Active, Has
<1>5. {prev_fid, next_fid} \subseteq 0 .. last_fid /\ n_qids \in Nat /\ (n_qids > 0 => qid \in Nodes)
      /\ exists \subseteq Dirs /\ misused \in BOOLEAN /\ npi \in Protid
      /\ {npi.walk_fid, npi.io_fid} \subseteq 0 .. last_fid
      /\ fids \in [DOMAIN fids -> Nodes] /\ DOMAIN fids \subseteq 1 .. last_fid
  BY <1>2 DEF Typed
<1>6. {have_created, overtaken, disturbed} \subseteq BOOLEAN
  BY <1>2 DEF Typed
<1>7. ASSUME NEW o, Return(o), o.kind # "normal", UNCHANGED fids, misused' \in {misused, misused \/ ~Has(fids, prev_fid)}
      PROVE  FidInv'
  <2>1. misused' \in BOOLEAN /\ (~overtaken => ~misused')
    BY <1>4, <1>5, <1>7
  <2>2. Typed'
    <3>1. {have_created', misused', overtaken', disturbed'} \subseteq BOOLEAN
      BY <1>1, <1>6, <2>1
    <3>2. npi' \in Protid /\ {npi'.walk_fid, npi'.io_fid} \subseteq 0 .. last_fid'
      BY <1>1, <1>2, <1>7 DEF Return, NoProtid, NoFid, Protid, Typed
    <3>3. pc' \in Active \cup {"idle", "returned", "aborted", "crashed"}
      BY <1>7 DEF Return
    <3> QED
      BY <1>1, <1>2, <1>5, <1>7, <3>1, <3>2, <3>3, TypedStep
  <2> QED
    BY <1>1, <1>4, <1>7, <2>1, <2>2, FailStep DEF Active
<1>8. ASSUME NEW r \in WalkReplies(prev_fid, SubSeq(Names, 1, Len(parts) - 1)), r.err = "none",
             fids' = With(fids, next_fid, End(prev_fid, r.qids)),
             pc' = "create", UNCHANGED <<out, npi>>, misused' = (misused \/ ~Has(fids, prev_fid)),
             path[pos] \notin {".", ".."}
      PROVE  FidInv'
  <2> DEFINE node == End(prev_fid, r.qids)
  <2>1. node \in Nodes /\ Has(fids, prev_fid)
    <3>1. SubSeq(Names, 1, Len(parts) - 1) \in Seq(Name)
      <4>1. Names \in Seq(Name) /\ Len(Names) = Len(parts) /\ Len(parts) \in Nat
        BY <1>2, NamesTyped
      <4> HIDE DEF Names
      <4> QED
        BY <4>1
    <3>2. Has(fids, prev_fid) /\ r.qids \in Seq(Nodes)
      BY <1>2, <1>8, <3>1, Answers
    <3> QED
      BY <1>2, <3>2, EndTyped
  <2> HIDE DEF node
  <2>2. /\ fids' \in [DOMAIN fids' -> Nodes] /\ DOMAIN fids' = DOMAIN fids \cup {next_fid}
        /\ \A g \in DOMAIN fids : g # next_fid => fids'[g] = fids[g]
    BY <1>5, <1>8, <2>1 DEF With, node
  <2>3. misused' = misused
    BY <1>5, <1>8, <2>1
  <2>4. Typed'
    <3>1. DOMAIN fids' \subseteq 1 .. last_fid'
      <4>1. next_fid \in 1 .. last_fid
        BY <1>2, <1>3 DEF Typed, NoFid
      <4> QED
        BY <1>1, <1>5, <2>2, <4>1
    <3>2. {have_created', misused', overtaken', disturbed'} \subseteq BOOLEAN
      BY <1>1, <1>5, <1>6, <2>3
    <3>3. pc' \in Active \cup {"idle", "returned", "aborted", "crashed"}
      BY <1>8 DEF Active
    <3> QED
      BY <1>1, <1>2, <1>5, <1>8, <2>2, <3>1, <3>2, <3>3, TypedStep
  <2>5. Labels'
    BY <1>1, <1>3, <1>8, <2>2 DEF Labels, Active, Short, Has
  <2>6. Batches'
    BY <1>1, <1>2, <1>8 DEF Batches, Active, Short
  <2>7. ExclusiveMeansNew' /\ FidMatchesNode' /\ FidsAccounted' /\ SlashMeansDir'
    BY <1>8 DEF ExclusiveMeansNew, FidMatchesNode, FidsAccounted, SlashMeansDir, Returned
  <2>8. ASSUME ~overtaken PROVE Fids'
    <3>1. \A fid \in DOMAIN before : Has(fids, fid)' /\ fids'[fid] = before[fid]
      BY <1>4, <2>2, <2>8 DEF Has
    <3>2. Has(before, pi.walk_fid) /\ (pi.io_fid # NoFid => Has(before, pi.io_fid)) /\ Alive(pi)
      BY <1>1, <1>4, <2>8 DEF Fids, Active
    <3>3. Alive(pi)'
      BY <1>1, <3>1, <3>2 DEF Alive, Has
    <3>4. Reached(next_fid)'
      BY <1>1, <1>4, <2>2, <2>8 DEF Reached, Has
    <3> QED
      BY <1>1, <1>4, <1>8, <2>3, <2>8, <3>1, <3>2, <3>3, <3>4 DEF Fids, Has, Active
  <2> QED
    BY <1>1, <2>4, <2>5, <2>6, <2>7, <2>8 DEF FidInv
<1>9. \A e : Error(e).kind # "normal"
  BY DEF Error
<1>10. \/ \E e : Return(Error(e)) /\ UNCHANGED fids /\ misused' \in {misused, misused \/ ~Has(fids, prev_fid)}
       \/ \E r \in WalkReplies(prev_fid, SubSeq(Names, 1, Len(parts) - 1)) :
            /\ r.err = "none" /\ fids' = With(fids, next_fid, End(prev_fid, r.qids))
            /\ pc' = "create" /\ UNCHANGED <<out, npi>> /\ misused' = (misused \/ ~Has(fids, prev_fid))
            /\ path[pos] \notin {".", ".."}
  <2>1. CASE must_be_dir \/ path[pos] = ".."
    BY <2>1 DEF CreatePrepared
  <2>2. CASE ~(must_be_dir \/ path[pos] = "..") /\ p9_readonly
    BY <2>2 DEF CreatePrepared
  <2>3. CASE ~(must_be_dir \/ path[pos] = "..") /\ ~p9_readonly
    <3>1. path[pos] \notin {".", ".."}
      BY <1>3, <2>3 DEF must_be_dir, AtEnd
    <3>2. /\ misused' = (misused \/ ~Has(fids, prev_fid))
          /\ \E r \in WalkReplies(prev_fid, SubSeq(Names, 1, Len(parts) - 1)) :
               IF r.err # "none" THEN Return(Error(r.err)) /\ UNCHANGED fids
               ELSE IF Len(r.qids) # Len(parts) - 1 THEN Return(Error("ENOENT")) /\ UNCHANGED fids
               ELSE /\ fids' = With(fids, next_fid, End(prev_fid, r.qids))
                    /\ pc' = "create" /\ UNCHANGED <<out, npi>>
      BY <2>3 DEF CreatePrepared, UsePrev
    <3>3. PICK r \in WalkReplies(prev_fid, SubSeq(Names, 1, Len(parts) - 1)) :
            \/ \E e : Return(Error(e)) /\ UNCHANGED fids
            \/ /\ r.err = "none" /\ fids' = With(fids, next_fid, End(prev_fid, r.qids))
               /\ pc' = "create" /\ UNCHANGED <<out, npi>>
      BY <3>2
    <3> QED
      BY <3>1, <3>2, <3>3
  <2> QED
    BY <2>1, <2>2, <2>3
<1> QED
  BY <1>7, <1>8, <1>9, <1>10


LEMMA FidCreate ==
  ASSUME FidInv, Create
  PROVE  FidInv'
<1> DEFINE d == fids[next_fid]
<1>1. /\ pc = "create"
      /\ UNCHANGED <<path, flags, lookups, p9_readonly, pos, parts, prev_fid, next_fid, before, disturbed,
                     overtaken, pi, last_fid, misused>>
  BY DEF Create
<1>2. Typed /\ Labels /\ Batches
  BY DEF FidInv
<1>3. /\ pos = Len(path) /\ prev_fid = pi.walk_fid /\ flags.creat /\ Short /\ ~have_created
      /\ ~(p9_readonly /\ flags.excl) /\ path[pos] \notin {".", ".."} /\ next_fid \in DOMAIN fids
  BY <1>1, <1>2 DEF Labels, Active, Has
<1>4. {prev_fid, next_fid} \subseteq 0 .. last_fid /\ n_qids \in Nat /\ (n_qids > 0 => qid \in Nodes)
      /\ exists \subseteq Dirs /\ npi \in Protid /\ {npi.walk_fid, npi.io_fid} \subseteq 0 .. last_fid
      /\ fids \in [DOMAIN fids -> Nodes] /\ DOMAIN fids \subseteq 1 .. last_fid
  BY <1>2 DEF Typed
<1>5. {have_created, overtaken, disturbed, misused} \subseteq BOOLEAN
  BY <1>2 DEF Typed
<1>6. ASSUME ~overtaken
      PROVE  /\ Fids /\ ~misused /\ Alive(pi) /\ pi.walk_fid \in DOMAIN before
             /\ (pi.io_fid # NoFid => pi.io_fid \in DOMAIN before)
             /\ DOMAIN fids = DOMAIN before \cup {next_fid} /\ next_fid \notin DOMAIN before
             /\ \A fid \in DOMAIN before : fid \in DOMAIN fids /\ fids[fid] = before[fid]
  BY <1>1, <1>6 DEF FidInv, Fids, Active, Reached, Has
<1>7. PICK err \in {CreateErr(d)} \cup (IF "refuse" \in Faults THEN {"EIO"} ELSE {}) :
       \/ /\ err = "none"
          /\ exists' = exists \cup {d}
          /\ fids' = With(fids, next_fid, File(d))
          /\ have_created' = TRUE /\ n_qids' = 1 /\ qid' = File(d)
          /\ pc' = "found" /\ UNCHANGED <<out, npi>>
       \/ /\ err # "none" /\ ~Retry(err)
          /\ fids' = Clunk(fids, next_fid)
          /\ Return(Error(err))
          /\ UNCHANGED <<exists, have_created, n_qids, qid>>
       \/ /\ Retry(err)
          /\ pc' = "rewalk"
          /\ UNCHANGED <<exists, fids, have_created, n_qids, qid, out, npi>>
  BY DEF Create
(* The file is made.                                                       *)
<1>8. CASE err = "none" /\ exists' = exists \cup {d} /\ fids' = With(fids, next_fid, File(d))
           /\ have_created' = TRUE /\ n_qids' = 1 /\ qid' = File(d) /\ pc' = "found" /\ UNCHANGED <<out, npi>>
  <2>1. d \in Dirs
    <3>1. CreateErr(d) = "none"
      BY <1>7, <1>8
    <3> QED
      BY <3>1 DEF CreateErr
  <2>2. File(d) \in Nodes /\ File(d) \notin Dirs
    BY <2>1 DEF File, Nodes, Dirs
  <2> HIDE DEF d
  <2>3. /\ fids' \in [DOMAIN fids' -> Nodes] /\ DOMAIN fids' = DOMAIN fids /\ fids'[next_fid] = File(d)
        /\ \A g \in DOMAIN fids : g # next_fid => fids'[g] = fids[g]
    BY <1>3, <1>4, <1>8, <2>2 DEF With
  <2>4. Typed'
    <3>1. {have_created', misused', overtaken', disturbed'} \subseteq BOOLEAN
      BY <1>1, <1>5, <1>8
    <3>2. pc' \in Active \cup {"idle", "returned", "aborted", "crashed"}
      BY <1>8 DEF Active
    <3>3. exists' \subseteq Dirs /\ n_qids' \in Nat /\ qid' \in Nodes
      BY <1>4, <1>8, <2>1, <2>2
    <3> QED
      BY <1>1, <1>2, <1>4, <1>8, <2>3, <3>1, <3>2, <3>3, TypedStep
  <2>5. Labels'
    BY <1>1, <1>3, <1>8, <2>2, <2>3 DEF Labels, Active, Short, Has
  <2>6. Batches'
    BY <1>1, <1>2, <1>3, <1>8 DEF Batches, Active, Short
  <2>7. ExclusiveMeansNew' /\ FidMatchesNode' /\ FidsAccounted' /\ SlashMeansDir'
    BY <1>8 DEF ExclusiveMeansNew, FidMatchesNode, FidsAccounted, SlashMeansDir, Returned
  <2>8. ASSUME ~overtaken PROVE Fids'
    <3>1. \A fid \in DOMAIN before : Has(fids, fid)' /\ fids'[fid] = before[fid]
      BY <1>6, <2>3, <2>8 DEF Has
    <3>2. Alive(pi)'
      BY <1>1, <1>6, <2>8, <3>1 DEF Alive, Has
    <3>3. Reached(next_fid)'
      BY <1>1, <1>6, <2>3, <2>8 DEF Reached, Has
    <3> QED
      BY <1>1, <1>6, <1>8, <2>8, <3>1, <3>2, <3>3 DEF Fids, Has, Active
  <2> QED
    BY <1>1, <2>4, <2>5, <2>6, <2>7, <2>8 DEF FidInv
<1> HIDE DEF d
(* It is not.                                                              *)
<1>9. CASE /\ fids' = Clunk(fids, next_fid) /\ Return(Error(err))
           /\ UNCHANGED <<exists, have_created, n_qids, qid>>
  <2>1. /\ fids' \in [DOMAIN fids' -> Nodes] /\ DOMAIN fids' = DOMAIN fids \ {next_fid}
        /\ \A g \in DOMAIN fids' : fids'[g] = fids[g]
    BY <1>4, <1>9 DEF Clunk
  <2>2. Typed'
    <3>1. {have_created', misused', overtaken', disturbed'} \subseteq BOOLEAN
      BY <1>1, <1>5, <1>9
    <3>2. npi' \in Protid /\ {npi'.walk_fid, npi'.io_fid} \subseteq 0 .. last_fid'
      BY <1>1, <1>2, <1>9 DEF Return, NoProtid, NoFid, Protid, Typed
    <3>3. pc' \in Active \cup {"idle", "returned", "aborted", "crashed"}
      BY <1>9 DEF Return
    <3>4. DOMAIN fids' \subseteq 1 .. last_fid'
      BY <1>1, <1>4, <2>1
    <3> QED
      BY <1>1, <1>2, <1>4, <1>9, <2>1, <3>1, <3>2, <3>3, <3>4, TypedStep
  <2>3. ASSUME ~overtaken
        PROVE  /\ ~misused' /\ DOMAIN fids' = DOMAIN before
               /\ \A fid \in DOMAIN before : fid \in DOMAIN fids' /\ fids'[fid] = before[fid]
    BY <1>1, <1>6, <2>1, <2>3
  <2>4. Error(err).kind # "normal"
    BY DEF Error
  <2> QED
    BY <1>1, <1>9, <2>2, <2>3, <2>4, FailStep DEF Active
(* Somebody else has made it.                                              *)
<1>10. CASE Retry(err) /\ pc' = "rewalk" /\ UNCHANGED <<exists, fids, have_created, n_qids, qid, out, npi>>
  <2>1. ~flags.excl
    BY <1>10 DEF Retry
  <2>2. Typed'
    <3>1. {have_created', misused', overtaken', disturbed'} \subseteq BOOLEAN
      BY <1>1, <1>5, <1>10
    <3>2. pc' \in Active \cup {"idle", "returned", "aborted", "crashed"}
      BY <1>10 DEF Active
    <3> QED
      BY <1>1, <1>2, <1>4, <1>10, <3>1, <3>2, TypedStep
  <2>3. Labels'
    BY <1>1, <1>3, <1>10, <2>1 DEF Labels, Active, Short, Has
  <2>4. Batches'
    BY <1>1, <1>2, <1>10 DEF Batches, Active, Short
  <2>5. ExclusiveMeansNew' /\ FidMatchesNode' /\ FidsAccounted' /\ SlashMeansDir'
    BY <1>10 DEF ExclusiveMeansNew, FidMatchesNode, FidsAccounted, SlashMeansDir, Returned
  <2>6. ASSUME ~overtaken PROVE Fids'
    BY <1>1, <1>6, <1>10, <2>6 DEF Fids, Alive, Reached, Has, Active
  <2> QED
    BY <1>1, <2>2, <2>3, <2>4, <2>5, <2>6 DEF FidInv
<1> QED
  BY <1>7, <1>8, <1>9, <1>10

LEMMA FidRewalk ==
  ASSUME FidInv, Rewalk
  PROVE  FidInv'
<1>1. /\ pc = "rewalk" /\ overtaken' = TRUE
      /\ UNCHANGED <<path, flags, lookups, p9_readonly, pos, parts, prev_fid, next_fid, have_created, before,
                     disturbed, pi, last_fid, exists, misused>>
  BY DEF Rewalk
<1>2. Typed /\ Labels /\ Batches
  BY DEF FidInv
<1>3. /\ pos = Len(path) /\ flags.creat /\ Short /\ ~have_created /\ ~flags.excl
      /\ path[pos] \notin {".", ".."} /\ next_fid \in DOMAIN fids /\ path[pos] \in Name
  <2>1. path \in Seq(Name) /\ path # <<>>
    BY <1>2 DEF Typed
  <2>2. pos = Len(path)
    BY <1>1, <1>2 DEF Labels
  <2>3. path[pos] \in Name
    BY <2>1, <2>2
  <2> QED
    BY <1>1, <1>2, <2>2, <2>3 DEF Labels, Active, Has
<1>4. {prev_fid, next_fid} \subseteq 0 .. last_fid /\ n_qids \in Nat /\ (n_qids > 0 => qid \in Nodes)
      /\ exists \subseteq Dirs /\ npi \in Protid /\ {npi.walk_fid, npi.io_fid} \subseteq 0 .. last_fid
      /\ fids \in [DOMAIN fids -> Nodes] /\ DOMAIN fids \subseteq 1 .. last_fid
  BY <1>2 DEF Typed
<1>5. {have_created', misused', overtaken', disturbed'} \subseteq BOOLEAN
  BY <1>1, <1>2 DEF Typed
<1>6. PICK r \in WalkReplies(next_fid, <<path[pos]>>) :
       \/ /\ r.err # "none" /\ Return(Error(r.err))
          /\ UNCHANGED <<fids, n_qids, qid>>
       \/ /\ r.err = "none"
          /\ fids' = With(fids, next_fid, r.qids[1])
          /\ n_qids' = 1 /\ qid' = r.qids[1]
          /\ pc' = "found" /\ UNCHANGED <<out, npi>>
  BY DEF Rewalk
<1>7. CASE Return(Error(r.err)) /\ UNCHANGED <<fids, n_qids, qid>>
  <2>1. Typed'
    <3>1. npi' \in Protid /\ {npi'.walk_fid, npi'.io_fid} \subseteq 0 .. last_fid'
      BY <1>1, <1>2, <1>7 DEF Return, NoProtid, NoFid, Protid, Typed
    <3>2. pc' \in Active \cup {"idle", "returned", "aborted", "crashed"}
      BY <1>7 DEF Return
    <3> QED
      BY <1>1, <1>2, <1>4, <1>5, <1>7, <3>1, <3>2, TypedStep
  <2>2. Labels' /\ Batches' /\ ExclusiveMeansNew'
    BY <1>1, <1>2, <1>7 DEF Return, Error, Labels, Batches, ExclusiveMeansNew, Returned, Active
  <2> QED
    BY <1>1, <2>1, <2>2 DEF FidInv
<1>8. CASE r.err = "none" /\ fids' = With(fids, next_fid, r.qids[1]) /\ n_qids' = 1 /\ qid' = r.qids[1]
           /\ pc' = "found" /\ UNCHANGED <<out, npi>>
  <2>1. r.qids[1] \in Nodes
    <3>1. <<path[pos]>> \in Seq(Name) /\ <<path[pos]>> # <<>>
      BY <1>3
    <3>2. r.qids \in Seq(Nodes) /\ r.qids # <<>>
      BY <1>2, <1>8, <3>1, Answers
    <3> QED
      BY <3>2
  <2>2. fids' \in [DOMAIN fids' -> Nodes] /\ DOMAIN fids' = DOMAIN fids
    BY <1>3, <1>4, <1>8, <2>1 DEF With
  <2>3. Typed'
    <3>1. pc' \in Active \cup {"idle", "returned", "aborted", "crashed"}
      BY <1>8 DEF Active
    <3>2. n_qids' \in Nat /\ qid' \in Nodes
      BY <1>8, <2>1
    <3> QED
      BY <1>1, <1>2, <1>4, <1>5, <1>8, <2>2, <3>1, <3>2, TypedStep
  <2>4. Labels' /\ ExclusiveMeansNew'
    BY <1>1, <1>3, <1>8 DEF Labels, Active, Short, ExclusiveMeansNew, Returned
  <2>5. Batches'
    BY <1>1, <1>2, <1>3, <1>8 DEF Batches, Active, Short
  <2> QED
    BY <1>1, <2>3, <2>4, <2>5 DEF FidInv
<1> QED
  BY <1>6, <1>7, <1>8


(* What is known where the lookup has reached a file.                      *)
LEMMA AtFound ==
  ASSUME FidInv, pc = "found"
  PROVE  /\ Typed /\ {prev_fid, next_fid} \subseteq 0 .. last_fid /\ n_qids \in Nat /\ (n_qids > 0 => qid \in Nodes)
         /\ exists \subseteq Dirs /\ npi \in Protid /\ {npi.walk_fid, npi.io_fid} \subseteq 0 .. last_fid
         /\ fids \in [DOMAIN fids -> Nodes] /\ DOMAIN fids \subseteq 1 .. last_fid
         /\ last_fid \in Nat /\ last_fid + 1 \notin DOMAIN fids /\ last_fid + 1 \notin DOMAIN before
         /\ {have_created, overtaken, disturbed, misused} \subseteq BOOLEAN
         /\ NodeQid \in Nodes \cup {"zero"} /\ (NodeQid # "zero" => n_qids > 0 /\ NodeQid = qid)
         /\ pos = Len(path)
         /\ ~overtaken =>
              /\ ~misused /\ Alive(pi) /\ pi.walk_fid \in DOMAIN before
              /\ pi.io_fid # NoFid => pi.io_fid \in DOMAIN before
              /\ \A fid \in DOMAIN before : fid \in DOMAIN fids /\ fids[fid] = before[fid]
<1>1. Typed /\ Labels /\ Batches
  BY DEF FidInv
<1>2. {have_created, overtaken, disturbed, misused} \subseteq BOOLEAN
  BY <1>1 DEF Typed
<1>3. {prev_fid, next_fid} \subseteq 0 .. last_fid /\ n_qids \in Nat /\ (n_qids > 0 => qid \in Nodes)
      /\ exists \subseteq Dirs /\ npi \in Protid /\ {npi.walk_fid, npi.io_fid} \subseteq 0 .. last_fid
      /\ fids \in [DOMAIN fids -> Nodes] /\ DOMAIN fids \subseteq 1 .. last_fid
      /\ last_fid \in Nat /\ DOMAIN before \subseteq 1 .. last_fid
  BY <1>1 DEF Typed
<1>4. last_fid + 1 \notin DOMAIN fids /\ last_fid + 1 \notin DOMAIN before
  BY <1>3
<1>5. NodeQid \in Nodes \cup {"zero"} /\ (NodeQid # "zero" => n_qids > 0 /\ NodeQid = qid)
  BY <1>3 DEF NodeQid
<1>6. pos = Len(path)
  BY <1>1 DEF Labels
<1>7. ASSUME ~overtaken
      PROVE  /\ ~misused /\ Alive(pi) /\ pi.walk_fid \in DOMAIN before
             /\ pi.io_fid # NoFid => pi.io_fid \in DOMAIN before
             /\ \A fid \in DOMAIN before : fid \in DOMAIN fids /\ fids[fid] = before[fid]
  BY <1>7 DEF FidInv, Fids, Active, Has
<1> QED
  BY <1>1, <1>2, <1>3, <1>4, <1>5, <1>6, <1>7

(* A lookup that returns the protid of the file it has reached.            *)
LEMMA MadeStep ==
  ASSUME FidInv, pc = "found", Typed', pc' = "returned", out' = Normal,
         UNCHANGED <<path, parts, flags, pi, before, overtaken>>,
         flags.creat /\ flags.excl =>
           have_created' /\ npi'.io_fid # NoFid /\ fids'[npi'.io_fid] \notin Dirs
             /\ fids'[npi'.walk_fid] = fids'[npi'.io_fid],
         ~overtaken =>
           /\ ~misused'
           /\ \A fid \in DOMAIN before : fid \in DOMAIN fids' /\ fids'[fid] = before[fid]
           /\ npi'.walk_fid # NoFid /\ npi'.io_fid # npi'.walk_fid
           /\ npi'.walk_fid \notin DOMAIN before /\ npi'.io_fid \notin DOMAIN before
           /\ DOMAIN fids' = DOMAIN before \cup ({npi'.walk_fid, npi'.io_fid} \ {NoFid})
           /\ npi'.qid # "zero" => fids'[npi'.walk_fid] = npi'.qid
           /\ DirAsked /\ Short => fids'[npi'.walk_fid] \in Dirs
  PROVE  FidInv'
<1>1. Normal.kind = "normal" /\ Normal.err = "none"
  BY DEF Normal
<1>2. Labels' /\ Batches' /\ ExclusiveMeansNew'
  <2>1. \A k \in 1 .. Len(parts) : path[parts[k]] # "."
    BY DEF FidInv, Batches
  <2> QED
    BY <1>1, <2>1 DEF Labels, Batches, ExclusiveMeansNew, Returned, Active
<1>3. ASSUME ~overtaken PROVE Fids' /\ FidMatchesNode' /\ FidsAccounted' /\ SlashMeansDir'
  <2>1. Alive(pi) /\ pi.walk_fid \in DOMAIN before /\ (pi.io_fid # NoFid => pi.io_fid \in DOMAIN before)
    BY <1>3, AtFound
  <2>2. \A fid \in DOMAIN before : Has(fids, fid)' /\ fids'[fid] = before[fid]
    BY <1>3 DEF Has
  <2>3. Alive(pi)'
    BY <2>1, <2>2 DEF Alive, Has
  <2>4. Alive(npi)' /\ npi'.walk_fid \in DOMAIN fids'
    BY <1>3 DEF Alive, Has
  <2>5. Fids'
    BY <1>1, <1>3, <2>1, <2>2, <2>3, <2>4 DEF Fids, Has, Active
  <2>6. FidMatchesNode'
    BY <1>3, <2>4 DEF FidMatchesNode, Has
  <2>7. FidsAccounted'
    BY <1>3 DEF FidsAccounted
  <2>8. DirAsked' = DirAsked /\ Short' = Short
    BY DEF DirAsked, Short
  <2>9. SlashMeansDir'
    BY <1>3, <2>8 DEF SlashMeansDir, Short
  <2> QED
    BY <2>5, <2>6, <2>7, <2>9
<1> QED
  BY <1>2, <1>3 DEF FidInv

LEMMA FidFoundCreated ==
  ASSUME FidInv, FoundCreated
  PROVE  FidInv'
<1> DEFINE dup == last_fid + 1
<1>1. /\ pc = "found" /\ have_created /\ last_fid' = dup /\ next_fid' = dup
      /\ UNCHANGED <<path, flags, lookups, p9_readonly, pos, parts, prev_fid, n_qids, qid, have_created, before,
                     disturbed, overtaken, pi, exists, misused>>
  BY DEF FoundCreated
<1>2. PICK r \in WalkReplies(next_fid, <<>>) :
        IF r.err = "none"
         THEN /\ fids' = With(fids, dup, fids[next_fid])
              /\ pc' = "returned" /\ out' = Normal
              /\ npi' = [walk_fid |-> dup, io_fid |-> next_fid, qid |-> NodeQid]
         ELSE /\ fids' = Clunk(fids, next_fid)
              /\ Return(Error(r.err))
  BY DEF FoundCreated
<1>3. /\ Typed /\ {prev_fid, next_fid} \subseteq 0 .. last_fid /\ n_qids \in Nat /\ (n_qids > 0 => qid \in Nodes)
      /\ exists \subseteq Dirs
      /\ fids \in [DOMAIN fids -> Nodes] /\ DOMAIN fids \subseteq 1 .. last_fid
      /\ last_fid \in Nat /\ dup \notin DOMAIN fids /\ dup \notin DOMAIN before
      /\ {have_created, overtaken, disturbed, misused} \subseteq BOOLEAN
      /\ NodeQid \in Nodes \cup {"zero"} /\ (NodeQid # "zero" => n_qids > 0 /\ NodeQid = qid)
      /\ pos = Len(path)
  BY <1>1, AtFound
<1>4. ASSUME ~overtaken
      PROVE  /\ ~misused
             /\ \A fid \in DOMAIN before : fid \in DOMAIN fids /\ fids[fid] = before[fid]
  BY <1>1, <1>4, AtFound
<1>5. /\ next_fid \in DOMAIN fids /\ fids[next_fid] \notin Dirs /\ n_qids = 1 /\ qid = fids[next_fid]
      /\ path[pos] # "."
  BY <1>1 DEF FidInv, Labels, Batches, Has
<1>6. ~overtaken => DOMAIN fids = DOMAIN before \cup {next_fid} /\ next_fid \notin DOMAIN before
  BY <1>1 DEF FidInv, Fids, Reached, Has
<1>7. next_fid # NoFid /\ next_fid # dup /\ dup # NoFid /\ next_fid \in 1 .. last_fid
  BY <1>3, <1>5 DEF NoFid
<1>8. {have_created', misused', overtaken', disturbed'} \subseteq BOOLEAN
      /\ prev_fid' \in 0 .. last_fid' /\ next_fid' \in 0 .. last_fid'
  BY <1>1, <1>3
<1>9. CASE r.err = "none"
  <2>1. /\ fids' = With(fids, dup, fids[next_fid]) /\ pc' = "returned" /\ out' = Normal
        /\ npi' = [walk_fid |-> dup, io_fid |-> next_fid, qid |-> NodeQid]
    BY <1>2, <1>9
  <2>2. /\ fids' \in [DOMAIN fids' -> Nodes] /\ DOMAIN fids' = DOMAIN fids \cup {dup} /\ fids'[dup] = fids[next_fid]
        /\ \A g \in DOMAIN fids : fids'[g] = fids[g]
    BY <1>3, <1>5, <2>1 DEF With
  <2>3. Typed'
    <3>1. npi' \in Protid /\ {npi'.walk_fid, npi'.io_fid} \subseteq 0 .. last_fid'
      BY <1>1, <1>3, <1>7, <2>1 DEF Protid
    <3>2. DOMAIN fids' \subseteq 1 .. last_fid'
      BY <1>1, <1>3, <2>2
    <3> QED
      BY <1>1, <1>3, <1>8, <2>1, <2>2, <3>1, <3>2, TypedStep
  <2>4. ~DirAsked
    BY <1>3, <1>5 DEF DirAsked
  <2>5. ASSUME ~overtaken
        PROVE  /\ DOMAIN fids' = DOMAIN before \cup ({npi'.walk_fid, npi'.io_fid} \ {NoFid})
               /\ \A fid \in DOMAIN before : fid \in DOMAIN fids' /\ fids'[fid] = before[fid]
               /\ npi'.walk_fid \notin DOMAIN before /\ npi'.io_fid \notin DOMAIN before
    BY <1>3, <1>4, <1>6, <1>7, <2>1, <2>2, <2>5
  <2> QED
    BY <1>1, <1>3, <1>4, <1>5, <1>7, <2>1, <2>2, <2>3, <2>4, <2>5, MadeStep
<1>10. CASE r.err # "none"
  <2>1. fids' = Clunk(fids, next_fid) /\ Return(Error(r.err))
    BY <1>2, <1>10
  <2>2. /\ fids' \in [DOMAIN fids' -> Nodes] /\ DOMAIN fids' = DOMAIN fids \ {next_fid}
        /\ \A g \in DOMAIN fids' : fids'[g] = fids[g]
    BY <1>3, <2>1 DEF Clunk
  <2>3. Typed'
    <3>1. npi' \in Protid /\ {npi'.walk_fid, npi'.io_fid} \subseteq 0 .. last_fid'
      BY <1>1, <1>3, <2>1 DEF Return, NoProtid, NoFid, Protid
    <3>2. DOMAIN fids' \subseteq 1 .. last_fid'
      BY <1>1, <1>3, <2>2
    <3>3. pc' \in Active \cup {"idle", "returned", "aborted", "crashed"}
      BY <2>1 DEF Return
    <3> QED
      BY <1>1, <1>3, <1>8, <2>2, <3>1, <3>2, <3>3, TypedStep
  <2>4. ASSUME ~overtaken
        PROVE  /\ ~misused' /\ DOMAIN fids' = DOMAIN before
               /\ \A fid \in DOMAIN before : fid \in DOMAIN fids' /\ fids'[fid] = before[fid]
    BY <1>1, <1>4, <1>6, <2>2, <2>4
  <2>5. Error(r.err).kind # "normal"
    BY DEF Error
  <2> QED
    BY <1>1, <2>1, <2>3, <2>4, <2>5, FailStep DEF Active
<1> QED
  BY <1>9, <1>10

LEMMA FidFoundExisting ==
  ASSUME FidInv, FoundExisting
  PROVE  FidInv'
<1> DEFINE dup == last_fid + 1
<1>1. /\ pc = "found" /\ ~have_created /\ ~NotDir
      /\ UNCHANGED <<lookups, p9_readonly, pi, exists>>
      /\ UNCHANGED <<path, flags, pos, parts, prev_fid, next_fid, n_qids, qid, have_created, before, disturbed,
                     overtaken>>
  BY DEF FoundExisting, local
<1>2. /\ Typed /\ {prev_fid, next_fid} \subseteq 0 .. last_fid /\ n_qids \in Nat /\ (n_qids > 0 => qid \in Nodes)
      /\ exists \subseteq Dirs
      /\ fids \in [DOMAIN fids -> Nodes] /\ DOMAIN fids \subseteq 1 .. last_fid
      /\ last_fid \in Nat /\ dup \notin DOMAIN fids /\ dup \notin DOMAIN before
      /\ {have_created, overtaken, disturbed, misused} \subseteq BOOLEAN
      /\ NodeQid \in Nodes \cup {"zero"} /\ (NodeQid # "zero" => n_qids > 0 /\ NodeQid = qid)
      /\ pos = Len(path)
  BY <1>1, AtFound
<1>3. ASSUME ~overtaken
      PROVE  /\ ~misused
             /\ \A fid \in DOMAIN before : fid \in DOMAIN fids /\ fids[fid] = before[fid]
  BY <1>1, <1>3, AtFound
<1>4. ~(flags.creat /\ flags.excl)
  BY <1>1 DEF FidInv, Labels
<1>5. ASSUME ~overtaken
      PROVE  /\ DOMAIN fids = DOMAIN before \cup {prev_fid} /\ prev_fid \notin DOMAIN before
             /\ prev_fid \in DOMAIN fids /\ prev_fid # NoFid
             /\ n_qids > 0 => qid = fids[prev_fid]
  <2>1. Reached(prev_fid) /\ (n_qids > 0 => qid = fids[prev_fid])
    BY <1>1, <1>5 DEF FidInv, Fids
  <2> QED
    BY <1>2, <2>1 DEF Reached, Has, NoFid
(* A path that ends in a slash has led to a directory.                     *)
<1>6. ASSUME ~overtaken, DirAsked, Short PROVE fids[prev_fid] \in Dirs
  <2>1. path[pos] = "." /\ \E k \in 1 .. Len(path) : path[k] # "."
    BY <1>2, <1>6 DEF DirAsked
  <2>2. parts # <<>> /\ n_qids = Len(parts)
    BY <1>1, <1>6, <2>1 DEF FidInv, Batches, Active
  <2>3. n_qids > 0
    <3>1. parts \in Seq(1 .. Len(path))
      BY <1>2 DEF Typed
    <3> QED
      BY <2>2, <3>1
  <2>4. qid \in Dirs
    BY <1>1, <1>2, <2>1, <2>3 DEF NotDir, must_be_dir, AtEnd
  <2> QED
    BY <1>5, <1>6, <2>3, <2>4
<1>7. CASE flags.acc = {} /\ pc' = "returned" /\ out' = Normal
           /\ npi' = [walk_fid |-> prev_fid, io_fid |-> NoFid, qid |-> NodeQid]
           /\ UNCHANGED <<fids, last_fid, misused>>
  <2>1. Typed'
    <3>1. npi' \in Protid /\ {npi'.walk_fid, npi'.io_fid} \subseteq 0 .. last_fid'
      BY <1>2, <1>7 DEF Protid, NoFid
    <3>2. {have_created', misused', overtaken', disturbed'} \subseteq BOOLEAN
      BY <1>1, <1>2, <1>7
    <3> QED
      BY <1>1, <1>2, <1>7, <3>1, <3>2, TypedStep
  <2>2. ASSUME ~overtaken
        PROVE  /\ DOMAIN fids' = DOMAIN before \cup ({npi'.walk_fid, npi'.io_fid} \ {NoFid})
               /\ npi'.walk_fid \notin DOMAIN before /\ npi'.io_fid \notin DOMAIN before
               /\ npi'.walk_fid # NoFid /\ npi'.io_fid # npi'.walk_fid
               /\ npi'.qid # "zero" => fids'[npi'.walk_fid] = npi'.qid
    <3>1. NoFid \notin DOMAIN before
      BY <1>2 DEF Typed, NoFid
    <3> QED
      BY <1>2, <1>5, <1>7, <2>2, <3>1
  <2>3. ASSUME ~overtaken, DirAsked, Short PROVE fids'[npi'.walk_fid] \in Dirs
    BY <1>6, <1>7, <2>3
  <2> QED
    BY <1>1, <1>3, <1>4, <1>7, <2>1, <2>2, <2>3, MadeStep
<1>8. CASE EnsureOpen /\ UsePrev
  <2>1. last_fid' = dup /\ misused' = (misused \/ prev_fid \notin DOMAIN fids)
    BY <1>8 DEF EnsureOpen, UsePrev, Has
  <2>2. PICK r, err :
          /\ r \in WalkReplies(prev_fid, <<>>)
          /\ IF err = "none"
            THEN /\ r.err = "none" /\ fids' = With(fids, dup, fids[prev_fid])
                 /\ pc' = "returned" /\ out' = Normal
                 /\ npi' = [walk_fid |-> prev_fid, io_fid |-> dup, qid |-> NodeQid]
            ELSE /\ fids' = Clunk(fids, prev_fid)
                 /\ Return(Error(err))
    <3>1. PICK r \in WalkReplies(prev_fid, <<>>), openErr \in {"none"} \cup (IF "refuse" \in Faults THEN {"EIO"} ELSE {}) :
            LET err == IF r.err = "none" THEN openErr ELSE r.err IN
             IF err = "none"
               THEN /\ fids' = With(fids, dup, fids[prev_fid])
                    /\ pc' = "returned" /\ out' = Normal
                    /\ npi' = [walk_fid |-> prev_fid, io_fid |-> dup, qid |-> NodeQid]
               ELSE /\ fids' = Clunk(fids, prev_fid)
                    /\ Return(Error(err))
      BY <1>8 DEF EnsureOpen
    <3> DEFINE e == IF r.err = "none" THEN openErr ELSE r.err
    <3>2. e = "none" => r.err = "none"
      OBVIOUS
    <3>3. IF e = "none"
            THEN /\ r.err = "none" /\ fids' = With(fids, dup, fids[prev_fid])
                 /\ pc' = "returned" /\ out' = Normal
                 /\ npi' = [walk_fid |-> prev_fid, io_fid |-> dup, qid |-> NodeQid]
            ELSE /\ fids' = Clunk(fids, prev_fid)
                 /\ Return(Error(e))
      BY <3>1, <3>2
    <3> QED
      BY <3>3
  <2>3. {have_created', misused', overtaken', disturbed'} \subseteq BOOLEAN
        /\ prev_fid' \in 0 .. last_fid' /\ next_fid' \in 0 .. last_fid'
    BY <1>1, <1>2, <2>1
  <2>4. ~overtaken => ~misused'
    BY <1>3, <1>5, <2>1
  <2>5. CASE err = "none"
    <3>1. /\ r.err = "none" /\ fids' = With(fids, dup, fids[prev_fid]) /\ pc' = "returned" /\ out' = Normal
          /\ npi' = [walk_fid |-> prev_fid, io_fid |-> dup, qid |-> NodeQid]
      BY <2>2, <2>5
    <3>2. prev_fid \in DOMAIN fids
      <4>1. <<>> \in Seq(Name)
        OBVIOUS
      <4> QED
        BY <1>2, <2>2, <3>1, <4>1, Answers DEF Has
    <3>3. /\ fids' \in [DOMAIN fids' -> Nodes] /\ DOMAIN fids' = DOMAIN fids \cup {dup}
          /\ \A g \in DOMAIN fids : fids'[g] = fids[g]
      BY <1>2, <3>1, <3>2 DEF With
    <3>4. Typed'
      <4>1. npi' \in Protid /\ {npi'.walk_fid, npi'.io_fid} \subseteq 0 .. last_fid'
        BY <1>2, <2>1, <3>1 DEF Protid
      <4>2. DOMAIN fids' \subseteq 1 .. last_fid'
        BY <1>2, <2>1, <3>3
      <4> QED
        BY <1>1, <1>2, <2>1, <2>3, <3>1, <3>3, <4>1, <4>2, TypedStep
    <3>5. ASSUME ~overtaken
          PROVE  /\ DOMAIN fids' = DOMAIN before \cup ({npi'.walk_fid, npi'.io_fid} \ {NoFid})
                 /\ npi'.walk_fid \notin DOMAIN before /\ npi'.io_fid \notin DOMAIN before
                 /\ npi'.walk_fid # NoFid /\ npi'.io_fid # npi'.walk_fid
                 /\ npi'.qid # "zero" => fids'[npi'.walk_fid] = npi'.qid
                 /\ \A fid \in DOMAIN before : fid \in DOMAIN fids' /\ fids'[fid] = before[fid]
      <4>1. dup # NoFid /\ dup # prev_fid
        BY <1>2, <3>2 DEF NoFid
      <4> QED
        BY <1>2, <1>3, <1>5, <3>1, <3>2, <3>3, <3>5, <4>1
    <3>6. ASSUME ~overtaken, DirAsked, Short PROVE fids'[npi'.walk_fid] \in Dirs
      BY <1>6, <3>1, <3>2, <3>3, <3>6
    <3> QED
      BY <1>1, <1>4, <2>4, <3>1, <3>4, <3>5, <3>6, MadeStep
  <2>6. CASE err # "none"
    <3>1. fids' = Clunk(fids, prev_fid) /\ Return(Error(err))
      BY <2>2, <2>6
    <3>2. /\ fids' \in [DOMAIN fids' -> Nodes] /\ DOMAIN fids' = DOMAIN fids \ {prev_fid}
          /\ \A g \in DOMAIN fids' : fids'[g] = fids[g]
      BY <1>2, <3>1 DEF Clunk
    <3>3. Typed'
      <4>1. npi' \in Protid /\ {npi'.walk_fid, npi'.io_fid} \subseteq 0 .. last_fid'
        BY <1>2, <2>1, <3>1 DEF Return, NoProtid, NoFid, Protid
      <4>2. DOMAIN fids' \subseteq 1 .. last_fid'
        BY <1>2, <2>1, <3>2
      <4>3. pc' \in Active \cup {"idle", "returned", "aborted", "crashed"}
        BY <3>1 DEF Return
      <4> QED
        BY <1>1, <1>2, <2>1, <2>3, <3>2, <4>1, <4>2, <4>3, TypedStep
    <3>4. ASSUME ~overtaken
          PROVE  /\ ~misused' /\ DOMAIN fids' = DOMAIN before
                 /\ \A fid \in DOMAIN before : fid \in DOMAIN fids' /\ fids'[fid] = before[fid]
      BY <1>3, <1>5, <2>4, <3>2, <3>4
    <3>5. Error(err).kind # "normal"
      BY DEF Error
    <3> QED
      BY <1>1, <3>1, <3>3, <3>4, <3>5, FailStep DEF Active
  <2> QED
    BY <2>5, <2>6
<1> QED
  BY <1>7, <1>8 DEF FoundExisting


(* The handler stops before it returns.                                    *)
LEMMA StopStep ==
  ASSUME FidInv, pc = "found", pc' \in {"aborted", "crashed"},
         UNCHANGED <<lookups, p9_readonly, local, pi, npi, out, fids, last_fid, exists, misused>>
  PROVE  FidInv'
<1>1. UNCHANGED <<path, flags, pos, parts, prev_fid, next_fid, n_qids, qid, have_created, before, disturbed,
                  overtaken>>
  BY DEF local
<1>2. Typed /\ Labels /\ Batches
  BY DEF FidInv
<1>3. Typed'
  <2>1. pc' \in Active \cup {"idle", "returned", "aborted", "crashed"}
    OBVIOUS
  <2>2. {have_created', misused', overtaken', disturbed'} \subseteq BOOLEAN
    BY <1>1, <1>2 DEF Typed
  <2>3. /\ prev_fid' \in 0 .. last_fid' /\ next_fid' \in 0 .. last_fid' /\ n_qids' \in Nat
        /\ (n_qids' > 0 => qid' \in Nodes) /\ exists' \subseteq Dirs /\ last_fid' \in {last_fid, last_fid + 1}
        /\ npi' \in Protid /\ {npi'.walk_fid, npi'.io_fid} \subseteq 0 .. last_fid'
        /\ fids' \in [DOMAIN fids' -> Nodes] /\ DOMAIN fids' \subseteq 1 .. last_fid'
    BY <1>1, <1>2 DEF Typed
  <2> QED
    BY <1>1, <1>2, <2>1, <2>2, <2>3, TypedStep
<1>4. Labels' /\ Batches' /\ ExclusiveMeansNew' /\ FidMatchesNode' /\ FidsAccounted' /\ SlashMeansDir'
  BY <1>1, <1>2 DEF Labels, Batches, Active, ExclusiveMeansNew, FidMatchesNode, FidsAccounted, SlashMeansDir, Returned
<1>5. ASSUME ~overtaken PROVE Fids'
  BY <1>1, <1>5 DEF FidInv, Fids, Alive, Has, Active
<1> QED
  BY <1>1, <1>3, <1>4, <1>5 DEF FidInv

LEMMA FidFoundBadFlags ==
  ASSUME FidInv, FoundBadFlags
  PROVE  FidInv'
<1>1. pc = "found" /\ pc' = "aborted"
      /\ UNCHANGED <<lookups, p9_readonly, local, pi, npi, out, fids, last_fid, exists, misused>>
  BY DEF FoundBadFlags
<1> QED
  BY <1>1, StopStep

(* Two ways to forget the fid reached.                                     *)
LEMMA ForgetStep ==
  ASSUME FidInv, pc = "found", NEW o, Return(o), o.kind # "normal",
         o.err = "ENOMEM" \/ (o.err = "ENOTDIR" /\ DirAsked),
         UNCHANGED <<lookups, p9_readonly, local, pi, fids, last_fid, exists, misused>>
  PROVE  FidInv'
<1>1. UNCHANGED <<path, flags, pos, parts, prev_fid, next_fid, n_qids, qid, have_created, before, disturbed,
                  overtaken>>
  BY DEF local
<1>2. Typed
  BY DEF FidInv
<1>3. Typed'
  <2>1. pc' \in Active \cup {"idle", "returned", "aborted", "crashed"}
    BY DEF Return
  <2>2. {have_created', misused', overtaken', disturbed'} \subseteq BOOLEAN
    BY <1>1, <1>2 DEF Typed
  <2>3. npi' \in Protid /\ {npi'.walk_fid, npi'.io_fid} \subseteq 0 .. last_fid'
    BY <1>2 DEF Return, NoProtid, NoFid, Protid, Typed
  <2>4. /\ prev_fid' \in 0 .. last_fid' /\ next_fid' \in 0 .. last_fid' /\ n_qids' \in Nat
        /\ (n_qids' > 0 => qid' \in Nodes) /\ exists' \subseteq Dirs /\ last_fid' \in {last_fid, last_fid + 1}
        /\ fids' \in [DOMAIN fids' -> Nodes] /\ DOMAIN fids' \subseteq 1 .. last_fid'
    BY <1>1, <1>2 DEF Typed
  <2> QED
    BY <1>1, <1>2, <2>1, <2>2, <2>3, <2>4, TypedStep
<1>4. ASSUME ~overtaken
      PROVE  ~misused' /\ \A fid \in DOMAIN before : fid \in DOMAIN fids' /\ fids'[fid] = before[fid]
  BY <1>4, AtFound
<1> QED
  BY <1>1, <1>3, <1>4, FailStep DEF Active

LEMMA SlashAsked ==
  ASSUME FidInv, pc = "found", NotDir
  PROVE  DirAsked /\ ~have_created /\ n_qids > 0 /\ qid \notin Dirs
<1>1. pos = Len(path) /\ path[pos] = "." /\ n_qids > 0 /\ qid \notin Dirs
  BY DEF NotDir, must_be_dir, AtEnd
<1>2. ~have_created /\ n_qids = Len(parts)
  BY <1>1 DEF FidInv, Batches
<1>3. \E k \in 1 .. Len(path) : path[k] # "."
  <2>1. parts \in Seq(1 .. Len(path)) /\ Len(parts) > 0
    BY <1>1, <1>2 DEF FidInv, Typed
  <2>2. 1 \in 1 .. Len(parts) /\ parts[1] \in 1 .. Len(path)
    BY <2>1
  <2>3. path[parts[1]] # "."
    BY <2>2 DEF FidInv, Batches
  <2> QED
    BY <2>2, <2>3
<1> QED
  BY <1>1, <1>2, <1>3 DEF DirAsked

LEMMA FidFoundNotDir ==
  ASSUME FidInv, FoundNotDir
  PROVE  FidInv'
<1>1. /\ pc = "found" /\ NotDir
      /\ UNCHANGED <<lookups, p9_readonly, local, pi, fids, last_fid, exists, misused>>
      /\ Return(Error("ENOTDIR")) \/ (pc' = "crashed" /\ UNCHANGED <<out, npi>>)
  BY DEF FoundNotDir
<1>2. CASE Return(Error("ENOTDIR"))
  <2>1. DirAsked
    BY <1>1, SlashAsked
  <2>2. Error("ENOTDIR").kind # "normal" /\ Error("ENOTDIR").err = "ENOTDIR"
    BY DEF Error
  <2> QED
    BY <1>1, <1>2, <2>1, <2>2, ForgetStep
<1>3. CASE pc' = "crashed" /\ UNCHANGED <<out, npi>>
  BY <1>1, <1>3, StopStep
<1> QED
  BY <1>1, <1>2, <1>3

LEMMA FidFoundNoMemory ==
  ASSUME FidInv, FoundNoMemory
  PROVE  FidInv'
<1>1. /\ pc = "found" /\ Return(Error("ENOMEM"))
      /\ UNCHANGED <<lookups, p9_readonly, local, pi, fids, last_fid, exists, misused>>
  BY DEF FoundNoMemory
<1>2. Error("ENOMEM").kind # "normal" /\ Error("ENOMEM").err = "ENOMEM"
  BY DEF Error
<1> QED
  BY <1>1, <1>2, ForgetStep

(* The protid that is closed has fids of its own.                          *)
LEMMA FidContinue ==
  ASSUME FidInv, Continue
  PROVE  FidInv'
<1>1. /\ pc = "returned" /\ pc' = "idle" /\ npi' = NoProtid
      /\ UNCHANGED <<lookups, p9_readonly, last_fid, exists>>
      /\ UNCHANGED <<path, flags, pos, parts, prev_fid, next_fid, n_qids, qid, have_created, before, disturbed,
                     overtaken>>
  BY DEF Continue, local
<1>2. PICK keep, drop :
        /\ \/ out.kind = "normal" /\ keep = pi /\ drop = npi
           \/ out.kind = "normal" /\ keep = npi /\ keep # pi /\ drop = pi
           \/ keep = pi /\ drop = NoProtid
        /\ pi' = keep
        /\ fids' = DropProtid(fids, drop)
        /\ misused' = (misused \/ DropMisuses(drop))
  <2>1. PICK keep \in IF out.kind = "normal" THEN {pi, npi} ELSE {pi} :
          LET drop == IF out.kind # "normal" THEN NoProtid ELSE IF keep = pi THEN npi ELSE pi IN
            /\ pi' = keep
            /\ fids' = DropProtid(fids, drop)
            /\ misused' = (misused \/ DropMisuses(drop))
    BY DEF Continue
  <2>2. CASE out.kind # "normal"
    BY <2>1, <2>2
  <2>3. CASE out.kind = "normal" /\ keep = pi
    BY <2>1, <2>3
  <2>4. CASE out.kind = "normal" /\ keep # pi
    BY <2>1, <2>4
  <2> QED
    BY <2>2, <2>3, <2>4
<1>3. Typed /\ Batches
  BY DEF FidInv
<1>4. /\ fids \in [DOMAIN fids -> Nodes] /\ DOMAIN fids \subseteq 1 .. last_fid /\ last_fid \in Nat
      /\ pi \in Protid /\ npi \in Protid /\ {pi.walk_fid, pi.io_fid, npi.walk_fid, npi.io_fid} \subseteq 0 .. last_fid
      /\ misused \in BOOLEAN
  <2>1. misused \in BOOLEAN
    BY <1>3 DEF Typed
  <2> QED
    BY <1>3, <2>1 DEF Typed
<1>5. /\ fids' \in [DOMAIN fids' -> Nodes] /\ DOMAIN fids' = DOMAIN fids \ {drop.walk_fid, drop.io_fid}
      /\ \A g \in DOMAIN fids' : fids'[g] = fids[g]
  <2> DEFINE s == Clunk(fids, drop.walk_fid)
  <2>1. s \in [DOMAIN s -> Nodes] /\ DOMAIN s = DOMAIN fids \ {drop.walk_fid} /\ \A g \in DOMAIN s : s[g] = fids[g]
    BY <1>4 DEF Clunk
  <2>2. fids' = Clunk(s, drop.io_fid)
    BY <1>2 DEF DropProtid
  <2> HIDE DEF s
  <2>3. /\ fids' \in [DOMAIN fids' -> Nodes] /\ DOMAIN fids' = DOMAIN s \ {drop.io_fid}
        /\ \A g \in DOMAIN fids' : fids'[g] = s[g]
    BY <2>1, <2>2 DEF Clunk
  <2> QED
    BY <2>1, <2>3
<1>6. Typed'
  <2>1. misused' \in BOOLEAN
    BY <1>2, <1>4 DEF DropMisuses
  <2>2. pi' \in Protid /\ npi' \in Protid /\ {pi'.walk_fid, pi'.io_fid, npi'.walk_fid, npi'.io_fid} \subseteq 0 .. last_fid'
    BY <1>1, <1>2, <1>4 DEF NoProtid, NoFid, Protid
  <2>3. {p9_readonly', have_created', misused', overtaken', disturbed'} \subseteq BOOLEAN
    <3>1. {p9_readonly, have_created, overtaken, disturbed} \subseteq BOOLEAN
      BY <1>3 DEF Typed
    <3> QED
      BY <1>1, <2>1, <3>1
  <2>4. DOMAIN fids' \subseteq 1 .. last_fid'
    BY <1>1, <1>4, <1>5
  <2>5. /\ path' \in Seq(Name) /\ path' # <<>>
        /\ flags' \in [creat : BOOLEAN, excl : BOOLEAN, acc : SUBSET {"read", "write", "exec"}]
        /\ pos' \in 0 .. Len(path') /\ parts' \in Seq(1 .. Len(path'))
        /\ last_fid' \in Nat /\ prev_fid' \in 0 .. last_fid' /\ next_fid' \in 0 .. last_fid'
        /\ n_qids' \in Nat /\ (n_qids' > 0 => qid' \in Nodes)
        /\ before' \in [DOMAIN before' -> Nodes] /\ DOMAIN before' \subseteq 1 .. last_fid'
        /\ exists' \subseteq Dirs
    BY <1>1, <1>3 DEF Typed
  <2> QED
    BY <1>1, <1>5, <2>2, <2>3, <2>4, <2>5 DEF Typed
<1>7. Labels' /\ Batches' /\ ExclusiveMeansNew' /\ FidMatchesNode' /\ FidsAccounted' /\ SlashMeansDir'
  BY <1>1, <1>3 DEF Labels, Batches, Active, ExclusiveMeansNew, FidMatchesNode, FidsAccounted, SlashMeansDir, Returned
<1>8. ASSUME ~overtaken PROVE Fids'
  <2>1. /\ ~misused /\ Alive(pi) /\ Has(before, pi.walk_fid) /\ (pi.io_fid # NoFid => Has(before, pi.io_fid))
        /\ (out.kind = "normal" =>
              Alive(npi) /\ ~Has(before, npi.walk_fid) /\ ~Has(before, npi.io_fid))
    BY <1>1, <1>8 DEF FidInv, Fids
  <2>2. NoFid \notin DOMAIN fids
    BY <1>4 DEF NoFid
  <2>3. CASE drop = NoProtid /\ keep = pi
    <3>1. DropMisuses(drop) = FALSE
      BY <2>3 DEF DropMisuses, NoProtid
    <3>2. DOMAIN fids' = DOMAIN fids
      BY <1>5, <2>2, <2>3 DEF NoProtid
    <3> QED
      BY <1>1, <1>2, <2>1, <2>3, <3>1, <3>2 DEF Fids, Alive, Has, Active
  <2>4. CASE out.kind = "normal" /\ keep = pi /\ drop = npi
    <3>1. DropMisuses(drop) = FALSE
      BY <2>1, <2>4 DEF DropMisuses, Alive
    <3>2. Alive(pi)'
      BY <1>2, <1>5, <2>1, <2>4 DEF Alive, Has
    <3> QED
      BY <1>1, <1>2, <2>1, <3>1, <3>2 DEF Fids, Active
  <2>5. CASE out.kind = "normal" /\ keep = npi /\ drop = pi
    <3>1. DropMisuses(drop) = FALSE
      BY <2>1, <2>5 DEF DropMisuses, Alive
    <3>2. Alive(pi)'
      <4>1. npi.walk_fid \notin {pi.walk_fid, pi.io_fid}
        BY <1>4, <2>1, <2>2, <2>5 DEF Alive, Has
      <4>2. npi.io_fid # NoFid => npi.io_fid \notin {pi.walk_fid, pi.io_fid}
        BY <2>1, <2>5 DEF Has
      <4> QED
        BY <1>2, <1>5, <2>1, <2>5, <4>1, <4>2 DEF Alive, Has
    <3> QED
      BY <1>1, <1>2, <2>1, <3>1, <3>2 DEF Fids, Active
  <2> QED
    BY <1>2, <2>3, <2>4, <2>5
<1> QED
  BY <1>1, <1>6, <1>7, <1>8 DEF FidInv

LEMMA FidRival ==
  ASSUME FidInv, Rival
  PROVE  FidInv'
<1>1. /\ pc \notin {"idle", "returned", "aborted", "crashed"} /\ disturbed' = TRUE
      /\ UNCHANGED <<pc, lookups, p9_readonly, path, flags, pos, parts, prev_fid, next_fid, n_qids, qid,
                     have_created, before, overtaken, pi, npi, out, fids, last_fid, misused>>
  BY DEF Rival
<1>2. Typed /\ Labels /\ Batches
  BY DEF FidInv
<1>3. exists' \subseteq Dirs
  <2>1. exists \subseteq Dirs
    BY <1>2 DEF Typed
  <2>2. PICK d \in Dirs : exists' = IF d \in exists THEN exists \ {d} ELSE exists \cup {d}
    BY DEF Rival
  <2> QED
    BY <2>1, <2>2
<1>4. Typed'
  <2>1. pc' \in Active \cup {"idle", "returned", "aborted", "crashed"}
    BY <1>1, <1>2 DEF Typed
  <2>2. {have_created', misused', overtaken', disturbed'} \subseteq BOOLEAN
    BY <1>1, <1>2 DEF Typed
  <2>3. /\ prev_fid' \in 0 .. last_fid' /\ next_fid' \in 0 .. last_fid' /\ n_qids' \in Nat
        /\ (n_qids' > 0 => qid' \in Nodes) /\ last_fid' \in {last_fid, last_fid + 1}
        /\ npi' \in Protid /\ {npi'.walk_fid, npi'.io_fid} \subseteq 0 .. last_fid'
        /\ fids' \in [DOMAIN fids' -> Nodes] /\ DOMAIN fids' \subseteq 1 .. last_fid'
    BY <1>1, <1>2 DEF Typed
  <2> QED
    BY <1>1, <1>2, <1>3, <2>1, <2>2, <2>3, TypedStep
<1>5. Labels'
  BY <1>1, <1>2 DEF Labels, Active, Short, Has
<1>6. Batches'
  BY <1>1, <1>2 DEF Batches, Active, Short
<1>7. ExclusiveMeansNew' /\ FidMatchesNode' /\ FidsAccounted' /\ SlashMeansDir'
  BY <1>1 DEF ExclusiveMeansNew, FidMatchesNode, FidsAccounted, SlashMeansDir, Returned
<1>8. ASSUME ~overtaken PROVE Fids'
  BY <1>1, <1>8 DEF FidInv, Fids, Alive, Has, Active, Reached
<1> QED
  BY <1>1, <1>4, <1>5, <1>6, <1>7, <1>8 DEF FidInv

LEMMA FidStutter ==
  ASSUME FidInv, UNCHANGED vars
  PROVE  FidInv'
BY DEF vars, local, FidInv, Typed, Labels, Batches, Active, Short, Fids, Alive, Reached, Has, ExclusiveMeansNew,
       FidMatchesNode, FidsAccounted, SlashMeansDir, DirAsked, Returned

LEMMA FidAlways == ShortCreate /\ Spec => []FidInv
<1> SUFFICES ASSUME ShortCreate PROVE Spec => []FidInv
  OBVIOUS
<1>1. Init => FidInv
  BY FidInit
<1>2. ASSUME FidInv, [Next]_vars
      PROVE  FidInv'
  <2>1. CASE \E q \in Requests : Begin(q)
    BY <1>2, <2>1, FidBegin
  <2>2. CASE Gather
    BY <1>2, <2>2, FidGather
  <2>3. CASE DoWalk
    BY <1>2, <2>3, FidWalk
  <2>4. CASE CreatePrepared
    BY <1>2, <2>4, FidCreatePrepared
  <2>5. CASE Create
    BY <1>2, <2>5, FidCreate
  <2>6. CASE Rewalk
    BY <1>2, <2>6, FidRewalk
  <2>7. CASE FoundCreated
    BY <1>2, <2>7, FidFoundCreated
  <2>8. CASE FoundExisting
    BY <1>2, <2>8, FidFoundExisting
  <2>9. CASE FoundBadFlags
    BY <1>2, <2>9, FidFoundBadFlags
  <2>10. CASE FoundNotDir
    BY <1>2, <2>10, FidFoundNotDir
  <2>11. CASE FoundNoMemory
    BY <1>2, <2>11, FidFoundNoMemory
  <2>12. CASE Continue
    BY <1>2, <2>12, FidContinue
  <2>13. CASE Rival
    BY <1>2, <2>13, FidRival
  <2>14. CASE Finished \/ UNCHANGED vars
    BY <1>2, <2>14, FidStutter DEF Finished
  <2> QED
    BY <1>2, <2>1, <2>2, <2>3, <2>4, <2>5, <2>6, <2>7, <2>8, <2>9, <2>10, <2>11, <2>12, <2>13, <2>14 DEF Next
<1> QED
  BY <1>1, <1>2, PTL DEF Spec

(* No lookup, however many batches its path takes and wherever a request   *)
(* is refused, names a fid that was clunked or never made.                 *)
THEOREM LookupFidsLive == ShortCreate /\ Spec => []LiveFidsOnly
<1>1. FidInv => LiveFidsOnly
  BY DEF FidInv, Fids, LiveFidsOnly
<1> QED
  BY <1>1, FidAlways, PTL

(* The walk fid of the protid a lookup makes is at the file its qid names. *)
THEOREM QidNamesFid == ShortCreate /\ Spec => []FidMatchesNode
<1>1. FidInv => FidMatchesNode
  BY DEF FidInv, FidMatchesNode
<1> QED
  BY <1>1, FidAlways, PTL

(* A lookup leaves the fids that were there, and those of the protid it    *)
(* makes.                                                                  *)
THEOREM NoFidLost == ShortCreate /\ Spec => []FidsAccounted
<1>1. FidInv => FidsAccounted
  BY DEF FidInv, FidsAccounted
<1> QED
  BY <1>1, FidAlways, PTL

(* O_CREAT|O_EXCL gives a file that this lookup made, whatever other       *)
(* clients do.                                                             *)
THEOREM MadeHere == ShortCreate /\ Spec => []ExclusiveMeansNew
<1>1. FidInv => ExclusiveMeansNew
  BY DEF FidInv
<1> QED
  BY <1>1, FidAlways, PTL

(* A path of one batch that ends in a slash leads to a directory.          *)
THEOREM SlashKept == ShortCreate /\ Spec => []SlashMeansDir
<1>1. FidInv => SlashMeansDir
  BY DEF FidInv, SlashMeansDir
<1> QED
  BY <1>1, FidAlways, PTL


-----------------------------------------------------------------------------
(* Where the path leads.                                                   *)

(* The current batch holds the names after i.                              *)
Batch(i) == \E g : Gathered(i, pos, g) /\ parts = g[pos]

(* While nobody changes the tree, the fid a batch starts from is at the    *)
(* node the names before it lead to.                                       *)
Follows ==
  /\ pc = "gather" => fids[prev_fid] = Meaning[pos]
  /\ pc \in {"walk", "creat"} => \E i \in 0 .. pos : Batch(i) /\ fids[prev_fid] = Meaning[i]
  /\ pc = "create" => fids[next_fid] = Meaning[pos - 1]
  /\ pc = "found" => (IF have_created THEN fids[next_fid] ELSE fids[prev_fid]) = Named

Undisturbed == ~overtaken /\ ~disturbed /\ pc \in Active \cup {"returned"} /\ Named # Outside

PathInv == Undisturbed => Follows /\ ResolvesInside


(* What Meaning is, name by name.                                          *)
Traced ==
  /\ Meaning[0] = start
  /\ \A k \in 1 .. Len(path) : Meaning[k] = Follow(Meaning[k - 1], path[k])

LEMMA MeaningTraced == ASSUME Typed PROVE Traced
<1> DEFINE N == Len(path)
           R(g, m) == g = [k \in 0 .. m |-> IF k = 0 THEN start ELSE Follow(g[k - 1], path[k])]
           T == {m \in 0 .. N : \E g : R(g, m)}
<1>1. N \in Nat
  BY DEF Typed
<1>2. 0 \in T
  <2>1. R([k \in 0 .. 0 |-> start], 0)
    OBVIOUS
  <2>2. \E g : R(g, 0)
    BY <2>1
  <2> QED
    BY <1>1, <2>2
<1>3. ASSUME NEW m \in 0 .. N, m # N, m \in T
      PROVE  m + 1 \in T
  <2>1. PICK g : R(g, m)
    BY <1>3
  <2>2. m + 1 \in 0 .. N /\ m \in Nat
    BY <1>1, <1>3
  <2>3. R([k \in 0 .. m + 1 |-> IF k = m + 1 THEN Follow(g[m], path[m + 1]) ELSE g[k]], m + 1)
    BY <2>1, <2>2
  <2> QED
    BY <2>2, <2>3
<1> DEFINE at == CHOOSE g : R(g, N)
<1>4. R(at, N)
  <2> HIDE DEF T
  <2>1. \A m \in 0 .. N : m \in T
    BY <1>1, <1>2, <1>3, Between
  <2>2. N \in T
    BY <1>1, <2>1
  <2> QED
    BY <2>2 DEF T
<1>5. Meaning = at
  BY DEF Meaning
<1> HIDE DEF at
<1> QED
  BY <1>1, <1>4, <1>5 DEF Traced

LEMMA FollowTyped ==
  ASSUME NEW n \in Nodes \cup {NoNode, Outside}, NEW name \in Name
  PROVE  Follow(n, name) \in Nodes \cup {NoNode, Outside}
<1>1. CASE n \in {NoNode, Outside}
  BY <1>1 DEF Follow, Nodes, Dirs, File, NoNode, Outside
<1>2. CASE n \in Nodes
  <2>1. Step(n, name) \in Nodes \cup {NoNode}
    BY <1>2, StepTyped
  <2> QED
    BY <1>2, <2>1 DEF Follow, Nodes, Dirs, File, NoNode, Outside
<1> QED
  BY <1>1, <1>2

LEMMA FollowCases ==
  ASSUME NEW n, NEW name
  PROVE  /\ n \in {NoNode, Outside} => Follow(n, name) = n
         /\ n \in Nodes /\ name = "." => Follow(n, name) = n
         /\ n \in Nodes /\ name # "." /\ Follow(n, name) # Outside => Follow(n, name) = Step(n, name)
BY DEF Follow, Nodes, Dirs, File, NoNode, Outside

(* Each prefix of the path leads to a node, nowhere or outside; from where *)
(* it leads nowhere or outside the rest does not lead back.                *)
LEMMA MeaningTyped ==
  ASSUME Typed, Traced, start \in Nodes
  PROVE  \A k \in 0 .. Len(path) : Meaning[k] \in Nodes \cup {NoNode, Outside}
<1> DEFINE U == {k \in 0 .. Len(path) : Meaning[k] \in Nodes \cup {NoNode, Outside}}
<1>1. Len(path) \in Nat /\ path \in Seq(Name)
  BY DEF Typed
<1>2. 0 \in U
  BY <1>1 DEF Traced
<1>3. ASSUME NEW m \in 0 .. Len(path), m # Len(path), m \in U
      PROVE  m + 1 \in U
  <2>1. m + 1 \in 1 .. Len(path) /\ m + 1 \in 0 .. Len(path) /\ (m + 1) - 1 = m /\ path[m + 1] \in Name
    BY <1>1, <1>3
  <2>2. Meaning[m + 1] = Follow(Meaning[m], path[m + 1])
    BY <2>1 DEF Traced
  <2>3. Meaning[m] \in Nodes \cup {NoNode, Outside}
    BY <1>3
  <2>4. Meaning[m + 1] \in Nodes \cup {NoNode, Outside}
    BY <2>1, <2>2, <2>3, FollowTyped
  <2> QED
    BY <2>1, <2>4
<1> HIDE DEF U
<1>4. \A k \in 0 .. Len(path) : k \in U
  BY <1>1, <1>2, <1>3, Between
<1> QED
  BY <1>4 DEF U

LEMMA MeaningStays ==
  ASSUME Typed, Traced, NEW i \in 0 .. Len(path), Meaning[i] \in {NoNode, Outside}
  PROVE  \A k \in i .. Len(path) : Meaning[k] = Meaning[i]
<1> DEFINE U == {k \in i .. Len(path) : Meaning[k] = Meaning[i]}
<1>1. Len(path) \in Nat
  BY DEF Typed
<1>2. i \in U /\ i \in Nat
  BY <1>1
<1>3. ASSUME NEW m \in i .. Len(path), m # Len(path), m \in U
      PROVE  m + 1 \in U
  <2>1. m + 1 \in 1 .. Len(path) /\ m + 1 \in i .. Len(path) /\ (m + 1) - 1 = m
    BY <1>1, <1>3
  <2>2. Meaning[m + 1] = Follow(Meaning[m], path[m + 1])
    BY <2>1 DEF Traced
  <2>3. Meaning[m] = Meaning[i]
    BY <1>3
  <2>4. Meaning[m + 1] = Meaning[i]
    BY <2>2, <2>3, FollowCases
  <2> QED
    BY <2>1, <2>4
<1> HIDE DEF U
<1>4. \A k \in i .. Len(path) : k \in U
  BY <1>1, <1>2, <1>3, Between
<1> QED
  BY <1>4 DEF U


(* A proper name is the next of the batch, and keeps its place in it.      *)
LEMMA Placed ==
  ASSUME NEW i \in Nat, NEW j \in Nat, i <= j, NEW g, Gathered(i, j, g),
         NEW k \in i + 1 .. j, path[k] # "."
  PROVE  /\ Len(g[k - 1]) \in Nat /\ Len(g[k]) = Len(g[k - 1]) + 1
         /\ \A m \in k .. j : Len(g[k]) <= Len(g[m]) /\ g[m][Len(g[k])] = k
<1> DEFINE l == Len(g[k])
           U == {m \in k .. j : l <= Len(g[m]) /\ g[m][l] = k}
<1>1. \A m \in i .. j : g[m] \in Seq(Nat)
  <2> SUFFICES ASSUME NEW m \in i .. j PROVE g[m] \in Seq(Nat)
    OBVIOUS
  <2>1. g[m] \in Seq(Proper(i, m)) /\ Proper(i, m) \subseteq Nat
    BY DEF Gathered, Proper
  <2> QED
    BY <2>1, SeqMono, Zenon
<1>2. \A m \in i + 1 .. j : g[m] = IF path[m] = "." THEN g[m - 1] ELSE Append(g[m - 1], m)
  BY DEF Gathered
<1>3. \A s \in Seq(Nat), e \in Nat :
        /\ Len(s) \in Nat /\ Len(Append(s, e)) = Len(s) + 1 /\ Append(s, e)[Len(s) + 1] = e
        /\ \A n \in 1 .. Len(s) : Append(s, e)[n] = s[n]
  <2> SUFFICES ASSUME NEW s \in Seq(Nat), NEW e \in Nat
               PROVE  /\ Len(s) \in Nat /\ Len(Append(s, e)) = Len(s) + 1 /\ Append(s, e)[Len(s) + 1] = e
                      /\ \A n \in 1 .. Len(s) : Append(s, e)[n] = s[n]
    OBVIOUS
  <2>1. Len(s) \in Nat /\ Append(s, e) \in Seq(Nat) /\ Len(Append(s, e)) = Len(s) + 1
    OBVIOUS
  <2>2. Append(s, e)[Len(s) + 1] = e
    BY <2>1
  <2>3. \A n \in 1 .. Len(s) : Append(s, e)[n] = s[n]
    BY <2>1
  <2> QED
    BY <2>1, <2>2, <2>3
<1>4. k \in Nat /\ k - 1 \in i .. j /\ k \in i .. j /\ g[k] = Append(g[k - 1], k)
  <2>1. k \in Nat /\ k - 1 \in i .. j /\ k \in i .. j
    OBVIOUS
  <2>2. g[k] = IF path[k] = "." THEN g[k - 1] ELSE Append(g[k - 1], k)
    BY <1>2, Zenon
  <2>3. g[k] = Append(g[k - 1], k)
    BY <2>2, Zenon
  <2> QED
    BY <2>1, <2>3
<1>5. Len(g[k - 1]) \in Nat /\ l = Len(g[k - 1]) + 1 /\ g[k][l] = k /\ l \in Nat
  BY <1>1, <1>3, <1>4
<1> HIDE DEF l
<1>6. k \in U
  BY <1>4, <1>5 DEF l
<1>7. ASSUME NEW m \in k .. j, m # j, m \in U
      PROVE  m + 1 \in U
  <2>1. m + 1 \in i + 1 .. j /\ m + 1 \in k .. j /\ (m + 1) - 1 = m /\ m \in i .. j /\ m + 1 \in Nat
    BY <1>4, <1>7
  <2>2. l <= Len(g[m]) /\ g[m][l] = k /\ g[m] \in Seq(Nat) /\ l >= 1
    BY <1>1, <1>5, <1>7, <2>1
  <2>3. CASE path[m + 1] = "."
    BY <1>2, <2>1, <2>2, <2>3
  <2>4. CASE path[m + 1] # "."
    <3>1. g[m + 1] = Append(g[m], m + 1)
      BY <1>2, <2>1, <2>4
    <3>2. Len(g[m]) \in Nat /\ Len(g[m + 1]) = Len(g[m]) + 1 /\ \A n \in 1 .. Len(g[m]) : g[m + 1][n] = g[m][n]
      BY <1>3, <2>1, <2>2, <3>1
    <3>3. l \in 1 .. Len(g[m]) /\ l <= Len(g[m + 1])
      <4> DEFINE n == Len(g[m])
                 o == Len(g[m + 1])
      <4>1. n \in Nat /\ o = n + 1 /\ l \in Nat /\ l >= 1 /\ l <= n
        BY <1>5, <2>2, <3>2
      <4> HIDE DEF n, o
      <4>2. l \in 1 .. n /\ l <= o
        BY <4>1
      <4> QED
        BY <4>2 DEF n, o
    <3> QED
      BY <2>1, <2>2, <3>2, <3>3
  <2> QED
    BY <2>3, <2>4
<1>8. \A m \in k .. j : m \in U
  <2> HIDE DEF U
  <2> QED
    BY <1>4, <1>6, <1>7, Between
<1> QED
  BY <1>5, <1>8 DEF l

(* The walk of a batch passes through the nodes of the path.               *)
LEMMA BatchMeans ==
  ASSUME Typed, Traced, start \in Nodes, Named # Outside,
         NEW i \in 0 .. Len(path), NEW j \in i .. Len(path), NEW g, Gathered(i, j, g),
         NEW names \in Seq(Name), NEW at, Passed(Meaning[i], names, at),
         Len(names) <= Len(g[j]), \A m \in 1 .. Len(names) : names[m] = path[g[j][m]]
  PROVE  \A k \in i .. j : Len(g[k]) <= Len(names) => at[Len(g[k])] = Meaning[k]
<1> DEFINE U == {k \in i .. j : Len(g[k]) <= Len(names) => at[Len(g[k])] = Meaning[k]}
<1>1. Len(path) \in Nat /\ i \in Nat /\ j \in Nat /\ i <= j /\ Len(names) \in Nat
  BY DEF Typed
<1>2. \A k \in 0 .. Len(path) : Meaning[k] \in Nodes \cup {NoNode, Outside} /\ Meaning[k] # Outside
  <2>1. \A k \in 0 .. Len(path) : Meaning[k] = Outside => Named = Outside
    <3> SUFFICES ASSUME NEW k \in 0 .. Len(path), Meaning[k] = Outside PROVE Named = Outside
      OBVIOUS
    <3>1. Len(path) \in k .. Len(path)
      BY <1>1
    <3> QED
      BY <3>1, MeaningStays DEF Named
  <2> QED
    BY <2>1, MeaningTyped
<1>3. i \in U
  <2>1. g[i] = <<>> /\ at[0] = Meaning[i]
    BY DEF Gathered, Passed
  <2>2. at[Len(g[i])] = Meaning[i]
    BY <2>1
  <2> QED
    BY <1>1, <2>2
<1>4. ASSUME NEW m \in i .. j, m # j, m \in U
      PROVE  m + 1 \in U
  <2>1. m + 1 \in i + 1 .. j /\ m + 1 \in i .. j /\ (m + 1) - 1 = m /\ m \in 0 .. Len(path)
        /\ m + 1 \in 1 .. Len(path) /\ m + 1 \in 0 .. Len(path) /\ j \in m + 1 .. j
    BY <1>1, <1>4
  <2>2. Meaning[m + 1] = Follow(Meaning[m], path[m + 1])
    BY <2>1 DEF Traced
  <2>3. Meaning[m] \in Nodes \cup {NoNode} /\ Meaning[m + 1] # Outside
    BY <1>2, <2>1
  <2>4. CASE path[m + 1] = "."
    <3>1. g[m + 1] = g[m]
      BY <2>1, <2>4 DEF Gathered
    <3>2. Meaning[m + 1] = Meaning[m]
      BY <2>2, <2>3, <2>4, FollowCases
    <3> QED
      BY <1>4, <2>1, <3>1, <3>2
  <2>5. CASE path[m + 1] # "."
    <3> DEFINE l == Len(g[m + 1])
    <3>1. Len(g[m]) \in Nat /\ l = Len(g[m]) + 1 /\ l <= Len(g[j]) /\ g[j][l] = m + 1
      <4> DEFINE k == m + 1
      <4>1. k \in i + 1 .. j /\ j \in k .. j /\ path[k] # "." /\ k - 1 = m
        BY <2>1, <2>5
      <4> HIDE DEF k
      <4>2. /\ Len(g[k - 1]) \in Nat /\ Len(g[k]) = Len(g[k - 1]) + 1
            /\ \A n \in k .. j : Len(g[k]) <= Len(g[n]) /\ g[n][Len(g[k])] = k
        BY <1>1, <4>1, Placed
      <4>3. /\ Len(g[m]) \in Nat /\ Len(g[k]) = Len(g[m]) + 1
            /\ Len(g[k]) <= Len(g[j]) /\ g[j][Len(g[k])] = k
        BY <4>1, <4>2
      <4> QED
        BY <4>3 DEF k
    <3> HIDE DEF l
    <3>2. ASSUME l <= Len(names) PROVE at[l] = Meaning[m + 1]
      <4>1. l \in 1 .. Len(names) /\ l - 1 = Len(g[m]) /\ names[l] = path[m + 1]
        BY <1>1, <3>1, <3>2
      <4>2. at[l - 1] = Meaning[m]
        BY <1>1, <1>4, <3>1, <3>2, <4>1
      <4>3. at[l] = IF at[l - 1] = NoNode THEN NoNode ELSE Step(at[l - 1], names[l])
        BY <4>1 DEF Passed
      <4>4. CASE Meaning[m] = NoNode
        BY <2>2, <4>2, <4>3, <4>4, FollowCases
      <4>5. CASE Meaning[m] # NoNode
        <5>1. Meaning[m] \in Nodes
          BY <2>3, <4>5
        <5>2. Meaning[m + 1] = Step(Meaning[m], path[m + 1])
          BY <2>2, <2>3, <2>5, <5>1, FollowCases
        <5> QED
          BY <4>1, <4>2, <4>3, <4>5, <5>2
      <4> QED
        BY <4>4, <4>5
    <3> QED
      BY <2>1, <3>2 DEF l
  <2> QED
    BY <2>4, <2>5
<1> HIDE DEF U
<1>5. \A k \in i .. j : k \in U
  BY <1>1, <1>3, <1>4, Between
<1> QED
  BY <1>5 DEF U

(* What the server's answer to a batch says of the path.                   *)
LEMMA WalkMeans ==
  ASSUME Typed, Traced, start \in Nodes, Named # Outside,
         NEW i \in 0 .. Len(path), NEW j \in i .. Len(path), NEW g, Gathered(i, j, g),
         NEW fid, Has(fids, fid), fids[fid] = Meaning[i],
         NEW names \in Seq(Name), NEW k \in i .. j, Len(names) = Len(g[k]), Len(names) <= Len(g[j]),
         \A m \in 1 .. Len(names) : names[m] = path[g[j][m]],
         NEW r \in WalkReplies(fid, names)
  PROVE  /\ r.err \in {"ENOENT", "ENOTDIR"} => Meaning[k] = NoNode
         /\ r.err = "none" /\ Len(r.qids) < Len(names) => Meaning[k] = NoNode
         /\ r.err = "none" /\ Len(r.qids) = Len(names) => End(fid, r.qids) = Meaning[k]
<1> DEFINE n == fids[fid]
           q == Trail(n, names)
<1>1. n \in Nodes /\ Len(names) \in Nat
  BY DEF Typed, Has
<1>2. PICK at :
        /\ Passed(n, names, at)
        /\ q \in Seq(Nodes) /\ Len(q) \in 0 .. Len(names)
        /\ \A m \in 1 .. Len(q) : q[m] = at[m]
        /\ \A m \in 1 .. Len(names) : m > Len(q) => at[m] = NoNode
  BY <1>1, TrailPassed
<1> HIDE DEF q
<1>3. at[Len(names)] = Meaning[k]
  <2>1. Passed(Meaning[i], names, at)
    BY <1>2
  <2> HIDE DEF n
  <2>2. \A m \in i .. j : Len(g[m]) <= Len(names) => at[Len(g[m])] = Meaning[m]
    BY <2>1, BatchMeans
  <2> QED
    BY <1>1, <2>2
<1>4. /\ r.err = "none" => r.qids = q /\ (names # <<>> => q # <<>>)
      /\ r.err \in {"ENOENT", "ENOTDIR"} => names # <<>> /\ q = <<>>
  BY Answers DEF q
<1>5. Len(q) < Len(names) => Meaning[k] = NoNode
  <2>1. Len(q) < Len(names) => Len(names) \in 1 .. Len(names) /\ Len(names) > Len(q)
    BY <1>1, <1>2
  <2> QED
    BY <1>2, <1>3, <2>1
<1>6. Len(q) = Len(names) => End(fid, q) = Meaning[k]
  <2>1. CASE q = <<>> /\ Len(q) = Len(names)
    <3>1. at[0] = n /\ Len(names) = 0
      BY <1>2, <2>1 DEF Passed
    <3> QED
      BY <1>3, <2>1, <3>1 DEF End
  <2>2. CASE q # <<>> /\ Len(q) = Len(names)
    <3>1. Len(q) \in 1 .. Len(q)
      BY <1>2, <2>2
    <3> QED
      BY <1>2, <1>3, <2>2, <3>1 DEF End
  <2> QED
    BY <2>1, <2>2
<1>7. names # <<>> /\ q = <<>> => Len(q) < Len(names)
  BY <1>1
<1> QED
  BY <1>4, <1>5, <1>6, <1>7


-----------------------------------------------------------------------------
(* The steps.  The path means the same after a step that leaves the tree   *)
(* alone; making a file changes only names that led nowhere.               *)
LEMMA MeaningSame ==
  ASSUME Typed, Traced, Traced', UNCHANGED <<path, before, pi, exists>>
  PROVE  Named' = Named /\ start' = start /\ \A k \in 0 .. Len(path) : Meaning'[k] = Meaning[k]
<1> DEFINE U == {k \in 0 .. Len(path) : Meaning'[k] = Meaning[k]}
<1>1. Len(path) \in Nat
  BY DEF Typed
<1>2. start' = start
  BY DEF start, Has
<1>3. 0 \in U
  BY <1>1, <1>2 DEF Traced
<1>4. ASSUME NEW m \in 0 .. Len(path), m # Len(path), m \in U
      PROVE  m + 1 \in U
  <2>1. m + 1 \in 1 .. Len(path) /\ m + 1 \in 0 .. Len(path) /\ (m + 1) - 1 = m
    BY <1>1, <1>4
  <2>2. Meaning[m + 1] = Follow(Meaning[m], path[m + 1])
    BY <2>1 DEF Traced
  <2>3. Meaning'[m + 1] = Follow(Meaning[m], path[m + 1])'
    <3>1. \A k \in 1 .. Len(path') : Meaning'[k] = Follow(Meaning[k - 1], path[k])'
      BY DEF Traced
    <3> QED
      BY <1>4, <2>1, <3>1
  <2>4. Meaning'[m] = Meaning[m]
    BY <1>4
  <2>5. \A n, name : Step(n, name)' = Step(n, name)
    BY DEF Step
  <2>6. Follow(Meaning[m], path[m + 1])' = Follow(Meaning[m], path[m + 1])
    BY <2>4, <2>5 DEF Follow
  <2> QED
    BY <2>1, <2>2, <2>3, <2>6
<1> HIDE DEF U
<1>5. \A k \in 0 .. Len(path) : k \in U
  BY <1>1, <1>3, <1>4, Between
<1>6. \A k \in 0 .. Len(path) : Meaning'[k] = Meaning[k]
  BY <1>5 DEF U
<1>7. Named' = Named
  <2>1. Len(path) \in 0 .. Len(path)
    BY <1>1
  <2> QED
    BY <1>6, <2>1 DEF Named
<1> QED
  BY <1>2, <1>6, <1>7


LEMMA GatheredSame ==
  ASSUME UNCHANGED path, NEW i, NEW j, NEW g, Gathered(i, j, g)
  PROVE  Gathered(i, j, g)'
<1>1. \A k : Proper(i, k)' = Proper(i, k)
  BY DEF Proper
<1>2. \A k : path[k]' = path[k]
  OBVIOUS
<1> QED
  BY <1>1, <1>2 DEF Gathered

LEMMA BatchSame ==
  ASSUME UNCHANGED <<path, pos, parts>>, NEW i, Batch(i)
  PROVE  Batch(i)'
<1>1. PICK g : Gathered(i, pos, g) /\ parts = g[pos]
  BY DEF Batch
<1>2. Gathered(i, pos, g)'
  <2>1. UNCHANGED path
    OBVIOUS
  <2> QED
    BY <1>1, <2>1, GatheredSame DEF Gathered, Proper
<1> QED
  BY <1>1, <1>2 DEF Batch

(* Where a lookup starts.                                                  *)
LEMMA Began ==
  ASSUME FidInv, Undisturbed
  PROVE  /\ Typed /\ Labels /\ Batches /\ Fids /\ ~overtaken
         /\ start \in Nodes /\ start = before[pi.walk_fid] /\ Has(fids, pi.walk_fid) /\ fids[pi.walk_fid] = start
<1>1. Typed /\ Labels /\ Batches /\ Fids /\ ~overtaken
  BY DEF FidInv, Undisturbed
<1>2. Has(before, pi.walk_fid) /\ Has(fids, pi.walk_fid) /\ fids[pi.walk_fid] = before[pi.walk_fid]
  BY <1>1 DEF Undisturbed, Fids, Has
<1>3. start = before[pi.walk_fid] /\ before[pi.walk_fid] \in Nodes
  BY <1>1, <1>2 DEF start, Has, Typed
<1> QED
  BY <1>1, <1>2, <1>3

LEMMA Quiet ==
  ASSUME Typed, Traced, Traced', pc \in Active,
         UNCHANGED <<path, before, pi, exists, disturbed, overtaken>>
  PROVE  /\ Undisturbed' => Undisturbed
         /\ Named' = Named /\ \A k \in 0 .. Len(path) : Meaning'[k] = Meaning[k]
BY MeaningSame DEF Undisturbed

LEMMA PathFail ==
  ASSUME Typed, Traced, Traced', pc \in Active, NEW o, Return(o), o.kind # "normal",
         UNCHANGED <<path, flags, before, pi, exists, disturbed, overtaken>>,
         Undisturbed /\ o.err \in {"ENOENT", "ENOTDIR"} => Named = NoNode \/ (DirAsked /\ Named \notin Dirs),
         Undisturbed /\ o.err = "EEXIST" => Named \in Nodes /\ flags.creat /\ flags.excl
  PROVE  PathInv'
<1>1. Named' = Named /\ (Undisturbed' => Undisturbed)
  BY Quiet
<1>2. pc' = "returned" /\ out' = o
  BY DEF Return
<1>3. DirAsked' = DirAsked
  BY DEF DirAsked
<1>4. Undisturbed' => Follows'
  BY <1>2 DEF Follows
<1>5. Undisturbed' => ResolvesInside'
  BY <1>1, <1>2, <1>3 DEF ResolvesInside
<1> QED
  BY <1>4, <1>5 DEF PathInv

LEMMA NowhereBeyond ==
  ASSUME Typed, Traced, NEW k \in 0 .. Len(path), Meaning[k] = NoNode
  PROVE  Named = NoNode
<1>1. Len(path) \in k .. Len(path)
  BY DEF Typed
<1> QED
  BY <1>1, MeaningStays DEF Named

(* The answer to the walk of a whole batch.                                *)
LEMMA WholeBatch ==
  ASSUME FidInv, Traced, PathInv, Undisturbed, pc = "walk", NEW r \in WalkReplies(prev_fid, Names)
  PROVE  /\ r.err \in {"ENOENT", "ENOTDIR"} => Named = NoNode
         /\ r.err = "none" /\ Len(r.qids) < Len(parts) => Named = NoNode
         /\ r.err = "none" /\ Len(r.qids) = Len(parts) => End(prev_fid, r.qids) = Meaning[pos]
<1>1. Typed /\ ~overtaken /\ start \in Nodes /\ Named # Outside
  BY Began DEF Undisturbed
<1>2. PICK i \in 0 .. pos : Batch(i) /\ fids[prev_fid] = Meaning[i]
  BY DEF PathInv, Follows
<1>3. PICK g : Gathered(i, pos, g) /\ parts = g[pos]
  BY <1>2 DEF Batch
<1>4. pos \in 0 .. Len(path) /\ Len(path) \in Nat /\ i \in 0 .. Len(path) /\ pos \in i .. Len(path) /\ pos \in i .. pos
  BY <1>1, <1>2 DEF Typed
<1>5. Names \in Seq(Name) /\ Len(Names) = Len(g[pos]) /\ \A m \in 1 .. Len(Names) : Names[m] = path[g[pos][m]]
  BY <1>1, <1>3, NamesTyped DEF Names
<1>6. Has(fids, prev_fid)
  BY <1>1, PrevThere
<1>7. Len(Names) <= Len(g[pos]) /\ Len(g[pos]) = Len(parts)
  <2>1. Len(parts) \in Nat
    BY <1>1 DEF Typed
  <2> QED
    BY <1>3, <1>5, <2>1
<1> HIDE DEF Names
<1>8. /\ r.err \in {"ENOENT", "ENOTDIR"} => Meaning[pos] = NoNode
      /\ r.err = "none" /\ Len(r.qids) < Len(Names) => Meaning[pos] = NoNode
      /\ r.err = "none" /\ Len(r.qids) = Len(Names) => End(prev_fid, r.qids) = Meaning[pos]
  BY <1>1, <1>2, <1>3, <1>4, <1>5, <1>6, <1>7, WalkMeans
<1>9. Meaning[pos] = NoNode => Named = NoNode
  BY <1>1, <1>4, NowhereBeyond
<1> QED
  BY <1>5, <1>7, <1>8, <1>9

(* The answer to the walk to the parent of the file to create.             *)
LEMMA ParentBatch ==
  ASSUME FidInv, Traced, PathInv, Undisturbed, pc = "creat", path[pos] # ".",
         NEW r \in WalkReplies(prev_fid, SubSeq(Names, 1, Len(parts) - 1))
  PROVE  /\ r.err \in {"ENOENT", "ENOTDIR"} => Named = NoNode
         /\ r.err = "none" /\ Len(r.qids) # Len(parts) - 1 => Named = NoNode
         /\ r.err = "none" /\ Len(r.qids) = Len(parts) - 1 => End(prev_fid, r.qids) = Meaning[pos - 1]
<1> DEFINE names == SubSeq(Names, 1, Len(parts) - 1)
<1>1. Typed /\ ~overtaken /\ start \in Nodes /\ Named # Outside
  BY Began DEF Undisturbed
<1>2. PICK i \in 0 .. pos : Batch(i) /\ fids[prev_fid] = Meaning[i]
  BY DEF PathInv, Follows
<1>3. PICK g : Gathered(i, pos, g) /\ parts = g[pos]
  BY <1>2 DEF Batch
<1>4. pos \in 0 .. Len(path) /\ Len(path) \in Nat /\ i \in 0 .. Len(path) /\ pos = Len(path) /\ pos > 0
      /\ Len(parts) \in Nat
  BY <1>1, <1>2 DEF Typed, FidInv, Labels
<1>5. Names \in Seq(Name) /\ Len(Names) = Len(parts) /\ \A m \in 1 .. Len(Names) : Names[m] = path[g[pos][m]]
  BY <1>1, <1>3, NamesTyped DEF Names
<1>6. Has(fids, prev_fid)
  BY <1>1, PrevThere
(* The last name of the path is the last of the batch.                     *)
<1>7. i < pos
  <2>1. i = pos => parts = <<>>
    BY <1>3 DEF Gathered
  <2>2. parts # <<>>
    <3>1. Short
      BY DEF FidInv, Labels, Active
    <3>2. pos \in 1 .. Len(path)
      BY <1>4
    <3> QED
      BY <3>1, <3>2 DEF FidInv, Batches, Active
  <2> QED
    BY <1>2, <1>4, <2>1, <2>2
<1>8. Len(g[pos - 1]) \in Nat /\ Len(parts) = Len(g[pos - 1]) + 1
  <2>1. i \in Nat /\ pos \in Nat /\ i <= pos /\ pos \in i + 1 .. pos
    BY <1>4, <1>7
  <2> QED
    BY <1>3, <2>1, Placed
<1> HIDE DEF Names
<1>9. names \in Seq(Name) /\ Len(names) = Len(g[pos - 1]) /\ \A m \in 1 .. Len(names) : names[m] = path[g[pos][m]]
  BY <1>4, <1>5, <1>8
<1>10. pos - 1 \in i .. pos /\ pos \in i .. Len(path) /\ Len(names) <= Len(g[pos])
  BY <1>3, <1>4, <1>7, <1>8, <1>9
<1> HIDE DEF names
<1>11. r \in WalkReplies(prev_fid, names)
  BY DEF names
<1>12. /\ r.err \in {"ENOENT", "ENOTDIR"} => Meaning[pos - 1] = NoNode
       /\ r.err = "none" /\ Len(r.qids) < Len(names) => Meaning[pos - 1] = NoNode
       /\ r.err = "none" /\ Len(r.qids) = Len(names) => End(prev_fid, r.qids) = Meaning[pos - 1]
  <2> DEFINE k == pos - 1
  <2>1. Len(names) = Len(g[k]) /\ Len(names) <= Len(g[pos])
    BY <1>9, <1>10
  <2>2. \A m \in 1 .. Len(names) : names[m] = path[g[pos][m]]
    BY <1>9
  <2>3. k \in i .. pos /\ pos \in i .. Len(path) /\ i \in 0 .. Len(path)
    BY <1>4, <1>10
  <2>4. Typed /\ start \in Nodes /\ Named # Outside /\ names \in Seq(Name)
    BY <1>1, <1>9
  <2>5. Gathered(i, pos, g) /\ fids[prev_fid] = Meaning[i]
    BY <1>2, <1>3
  <2> HIDE DEF k
  <2>6. /\ r.err \in {"ENOENT", "ENOTDIR"} => Meaning[k] = NoNode
        /\ r.err = "none" /\ Len(r.qids) < Len(names) => Meaning[k] = NoNode
        /\ r.err = "none" /\ Len(r.qids) = Len(names) => End(prev_fid, r.qids) = Meaning[k]
    BY <1>6, <1>11, <2>1, <2>2, <2>3, <2>4, <2>5, WalkMeans
  <2> QED
    BY <2>6 DEF k
<1>13. r.err = "none" => Len(r.qids) \in 0 .. Len(names)
  BY <1>1, <1>9, <1>11, Answers
<1>14. Meaning[pos - 1] = NoNode => Named = NoNode
  <2>1. pos - 1 \in 0 .. Len(path)
    BY <1>4
  <2> QED
    BY <1>1, <2>1, NowhereBeyond
<1>15. Len(parts) - 1 = Len(names)
  BY <1>8, <1>9
<1>16. r.err = "none" /\ Len(r.qids) # Len(names) => Len(r.qids) < Len(names)
  <2>1. Len(names) \in Nat
    BY <1>8, <1>9
  <2> QED
    BY <1>13, <2>1
<1> QED
  BY <1>12, <1>14, <1>15, <1>16


LEMMA PathBegin ==
  ASSUME FidInv, FidInv', Traced', NEW q \in Requests, Begin(q)
  PROVE  PathInv'
<1>1. /\ pos' = 0 /\ prev_fid' = pi.walk_fid /\ before' = fids /\ UNCHANGED <<pi, fids>>
      /\ \/ pc' = "returned" /\ out' \in {Error("EROFS"), Reauth(2)}
         \/ pc' = "gather"
  BY DEF Begin, Return
<1>2. ASSUME Undisturbed' PROVE Follows' /\ ResolvesInside'
  <2>1. ResolvesInside'
    BY <1>1 DEF ResolvesInside, Returned, Error, Reauth
  <2>2. Meaning'[0] = start'
    BY DEF Traced
  <2>3. pc' = "gather" => start' = fids[pi.walk_fid]
    <3>1. Fids'
      BY <1>2 DEF Undisturbed, FidInv
    <3>2. pc' = "gather" => Has(before, pi.walk_fid)'
      BY <3>1 DEF Fids, Active
    <3> QED
      BY <1>1, <3>2 DEF start
  <2>4. Follows'
    BY <1>1, <2>2, <2>3 DEF Follows
  <2> QED
    BY <2>1, <2>4
<1> QED
  BY <1>2 DEF PathInv

LEMMA PathGather ==
  ASSUME FidInv, Traced, Traced', PathInv, Gather
  PROVE  PathInv'
<1>1. PICK j \in pos + 1 .. Len(path) :
        /\ pos' = j /\ parts' = Collected(pos, j) /\ pc' \in {"creat", "walk"}
  BY DEF Gather
<1>2. /\ pc = "gather"
      /\ UNCHANGED <<path, flags, prev_fid, before, disturbed, overtaken, pi, fids, exists>>
  BY DEF Gather
<1>3. Typed /\ pos \in Nat /\ Len(path) \in Nat /\ pos <= Len(path) /\ pos \in 0 .. Len(path) /\ j \in Nat /\ pos <= j
  <2>1. Typed
    BY DEF FidInv
  <2>2. pos \in 0 .. Len(path) /\ Len(path) \in Nat
    BY <2>1 DEF Typed
  <2> QED
    BY <2>1, <2>2
<1>4. ASSUME Undisturbed' PROVE Follows' /\ ResolvesInside'
  <2>1. ResolvesInside'
    BY <1>1 DEF ResolvesInside, Returned
  <2>2. Undisturbed /\ Meaning'[pos] = Meaning[pos]
    BY <1>2, <1>3, <1>4, Quiet DEF Active
  <2>3. fids'[prev_fid'] = Meaning'[pos]
    BY <1>2, <2>2 DEF PathInv, Follows
  <2>4. PICK i \in Nat : i = pos
    BY <1>3
  <2>5. PICK g : Gathered(i, j, g) /\ Collected(i, j) = g[j]
    BY <1>3, <2>4, CollectedGathered
  <2>6. Batch(i)'
    <3>1. Gathered(i, j, g)'
      BY <1>2, <2>5, GatheredSame
    <3>2. Gathered(i, pos, g)'
      BY <1>1, <3>1 DEF Gathered, Proper
    <3> QED
      BY <1>1, <2>4, <2>5, <3>2 DEF Batch
  <2>7. i \in 0 .. pos' /\ fids'[prev_fid'] = Meaning'[i]
    BY <1>1, <1>3, <2>3, <2>4
  <2> QED
    BY <1>1, <2>1, <2>6, <2>7 DEF Follows
<1> QED
  BY <1>4 DEF PathInv


LEMMA AnswerErrors ==
  ASSUME NEW fid, NEW names, NEW r \in WalkReplies(fid, names)
  PROVE  r.err \in {"none", "ENOENT", "ENOTDIR", "EBADF", "EIO"}
BY DEF WalkReplies, Walk, Refused

LEMMA PathToCreat ==
  ASSUME FidInv, Traced, Traced', PathInv, pc = "walk", pc' = "creat", create, fids' = ClunkPrev(fids),
         UNCHANGED <<prev_fid, path, flags, pos, parts, before, disturbed, overtaken, pi, exists>>
  PROVE  PathInv'
<1>1. Typed /\ prev_fid = pi.walk_fid
  BY DEF FidInv, Labels, create, AtEnd, Active
<1>2. fids' = fids
  BY <1>1, PrevClunked
<1>3. ASSUME Undisturbed' PROVE Follows' /\ ResolvesInside'
  <2>1. Undisturbed /\ \A k \in 0 .. Len(path) : Meaning'[k] = Meaning[k]
    BY <1>1, <1>3, Quiet DEF Active
  <2>2. PICK i \in 0 .. pos : Batch(i) /\ fids[prev_fid] = Meaning[i]
    BY <2>1 DEF PathInv, Follows
  <2>3. Batch(i)'
    BY <2>2, BatchSame
  <2>4. i \in 0 .. Len(path)
    BY <1>1 DEF Typed
  <2>5. fids'[prev_fid'] = Meaning'[i] /\ i \in 0 .. pos'
    BY <1>2, <2>1, <2>2, <2>4
  <2> QED
    BY <2>3, <2>5 DEF Follows, ResolvesInside, Returned
<1> QED
  BY <1>3 DEF PathInv

LEMMA PathWalk ==
  ASSUME FidInv, Traced, Traced', PathInv, DoWalk
  PROVE  PathInv'
<1>1. PICK r \in WalkReplies(prev_fid, Names) :
        WalkFails(r) \/ WalkEscapes(r) \/ WalkShort(r) \/ WalkComplete(r)
  BY DEF DoWalk
<1>2. /\ pc = "walk" /\ pc \in Active
      /\ UNCHANGED <<path, flags, pos, parts, next_fid, have_created, before, disturbed, overtaken, pi, exists>>
  BY DEF DoWalk, Active
<1>3. Typed
  BY DEF FidInv
<1>4. \A e, k : /\ Error(e).kind # "normal" /\ Error(e).err = e
                /\ Reauth(k).kind # "normal" /\ Reauth(k).err = "none"
  BY DEF Error, Reauth
<1>5. r.err # "EEXIST"
  BY AnswerErrors
<1>6. /\ Undisturbed /\ r.err \in {"ENOENT", "ENOTDIR"} => Named = NoNode
      /\ Undisturbed /\ r.err = "none" /\ Len(r.qids) < Len(parts) => Named = NoNode
      /\ Undisturbed /\ r.err = "none" /\ Len(r.qids) = Len(parts) => End(prev_fid, r.qids) = Meaning[pos]
  BY <1>1, <1>2, WholeBatch
<1>7. CASE WalkFails(r)
  <2>1. fids' = ClunkPrev(fids) /\ UNCHANGED prev_fid
    BY <1>7 DEF WalkFails
  <2>2. (pc' = "creat" /\ create) \/ Return(Error(r.err))
    BY <1>7 DEF WalkFails
  <2>3. CASE pc' = "creat" /\ create
    BY <1>2, <2>1, <2>3, PathToCreat
  <2>4. CASE Return(Error(r.err))
    BY <1>2, <1>3, <1>4, <1>5, <1>6, <2>4, PathFail
  <2> QED
    BY <2>2, <2>3, <2>4
<1>8. CASE WalkEscapes(r)
  <2>1. PICK k : Return(Reauth(k))
    BY <1>8 DEF WalkEscapes
  <2> QED
    BY <1>2, <1>3, <1>4, <2>1, PathFail
<1>9. CASE WalkShort(r)
  <2>1. fids' = ClunkPrev(fids) /\ UNCHANGED prev_fid /\ r.err = "none" /\ Len(r.qids) < Len(parts)
    BY <1>9 DEF WalkShort
  <2>2. (pc' = "creat" /\ create) \/ Return(Error("ENOTDIR")) \/ Return(Error("ENOENT"))
    BY <1>9 DEF WalkShort
  <2>3. CASE pc' = "creat" /\ create
    BY <1>2, <2>1, <2>3, PathToCreat
  <2>4. CASE Return(Error("ENOTDIR"))
    BY <1>2, <1>3, <1>4, <1>6, <2>1, <2>4, PathFail
  <2>5. CASE Return(Error("ENOENT"))
    BY <1>2, <1>3, <1>4, <1>6, <2>1, <2>5, PathFail
  <2> QED
    BY <2>2, <2>3, <2>4, <2>5
<1>10. CASE WalkComplete(r)
  <2> DEFINE node == End(prev_fid, r.qids)
  <2>1. /\ r.err = "none" /\ Len(r.qids) = Len(parts) /\ prev_fid' = next_fid
        /\ fids' = ClunkPrev(With(fids, next_fid, node))
    BY <1>10 DEF WalkComplete, Advance
  <2>2. ~(create /\ flags.excl) /\ ~have_created
    BY <1>2 DEF FidInv, Labels, create, AtEnd, Active
  <2>3. pc' = IF pos = Len(path) THEN "found" ELSE "gather"
    BY <1>10, <2>2 DEF WalkComplete, AtEnd
  <2>4. ASSUME Undisturbed' PROVE Follows' /\ ResolvesInside'
    <3>1. Undisturbed /\ Named' = Named /\ \A k \in 0 .. Len(path) : Meaning'[k] = Meaning[k]
      BY <1>2, <1>3, <2>4, Quiet
    <3>2. node = Meaning[pos]
      BY <1>6, <2>1, <3>1
    <3> HIDE DEF node
    <3>3. prev_fid \in DOMAIN fids /\ next_fid \notin DOMAIN fids /\ next_fid # prev_fid
      <4>1. Fids /\ ~overtaken
        BY <3>1, Began
      <4> QED
        BY <1>2, <4>1, PrevThere DEF Fids, Has
    <3>4. fids'[next_fid] = node
      <4> DEFINE ws == With(fids, next_fid, node)
      <4>1. next_fid \in DOMAIN ws /\ ws[next_fid] = node
        BY DEF With
      <4>2. fids' = ClunkPrev(ws)
        BY <2>1
      <4> HIDE DEF ws
      <4> QED
        BY <3>3, <4>1, <4>2 DEF ClunkPrev, Clunk
    <3>5. pos \in 0 .. Len(path)
      BY <1>3 DEF Typed
    <3>6. fids'[prev_fid'] = Meaning'[pos'] /\ pos' = pos
      BY <1>2, <2>1, <3>1, <3>2, <3>4, <3>5
    <3>7. Meaning'[Len(path)] = Named'
      BY <1>2 DEF Named
    <3>8. Follows'
      BY <1>2, <2>2, <2>3, <3>6, <3>7 DEF Follows
    <3>9. ResolvesInside'
      BY <2>3 DEF ResolvesInside, Returned
    <3> QED
      BY <3>8, <3>9
  <2> QED
    BY <2>4 DEF PathInv
<1> QED
  BY <1>1, <1>7, <1>8, <1>9, <1>10

LEMMA PathCreatePrepared ==
  ASSUME FidInv, Traced, Traced', PathInv, CreatePrepared
  PROVE  PathInv'
<1>1. /\ pc = "creat" /\ pc \in Active
      /\ UNCHANGED <<path, flags, pos, parts, prev_fid, next_fid, have_created, before, disturbed, overtaken, pi, exists>>
  BY DEF CreatePrepared, local, Active
<1>2. Typed /\ pos = Len(path)
  BY <1>1 DEF FidInv, Labels
<1>3. \A e : Error(e).kind # "normal" /\ Error(e).err = e
  BY DEF Error
<1>4. CASE must_be_dir \/ path[pos] = ".."
  <2>1. Return(Error("EINVAL"))
    BY <1>4 DEF CreatePrepared
  <2> QED
    BY <1>1, <1>2, <1>3, <2>1, PathFail
<1>5. CASE ~(must_be_dir \/ path[pos] = "..") /\ p9_readonly
  <2>1. Return(Error("EROFS"))
    BY <1>5 DEF CreatePrepared
  <2> QED
    BY <1>1, <1>2, <1>3, <2>1, PathFail
<1>6. CASE ~(must_be_dir \/ path[pos] = "..") /\ ~p9_readonly
  <2>1. path[pos] # "."
    BY <1>2, <1>6 DEF must_be_dir, AtEnd
  <2>2. PICK r \in WalkReplies(prev_fid, SubSeq(Names, 1, Len(parts) - 1)) :
               IF r.err # "none" THEN Return(Error(r.err)) /\ UNCHANGED fids
               ELSE IF Len(r.qids) # Len(parts) - 1 THEN Return(Error("ENOENT")) /\ UNCHANGED fids
               ELSE /\ fids' = With(fids, next_fid, End(prev_fid, r.qids))
                    /\ pc' = "create" /\ UNCHANGED <<out, npi>>
    BY <1>6 DEF CreatePrepared
  <2>3. r.err # "EEXIST"
    BY AnswerErrors
  <2>4. /\ Undisturbed /\ r.err \in {"ENOENT", "ENOTDIR"} => Named = NoNode
        /\ Undisturbed /\ r.err = "none" /\ Len(r.qids) # Len(parts) - 1 => Named = NoNode
        /\ Undisturbed /\ r.err = "none" /\ Len(r.qids) = Len(parts) - 1 => End(prev_fid, r.qids) = Meaning[pos - 1]
    BY <1>1, <2>1, ParentBatch
  <2>5. CASE r.err # "none"
    <3>1. Return(Error(r.err))
      BY <2>2, <2>5
    <3> QED
      BY <1>1, <1>2, <1>3, <2>3, <2>4, <3>1, PathFail
  <2>6. CASE r.err = "none" /\ Len(r.qids) # Len(parts) - 1
    <3>1. Return(Error("ENOENT"))
      BY <2>2, <2>6
    <3> QED
      BY <1>1, <1>2, <1>3, <2>4, <2>6, <3>1, PathFail
  <2>7. CASE r.err = "none" /\ Len(r.qids) = Len(parts) - 1
    <3>1. fids' = With(fids, next_fid, End(prev_fid, r.qids)) /\ pc' = "create"
      BY <2>2, <2>7
    <3>2. fids'[next_fid] = End(prev_fid, r.qids)
      BY <3>1 DEF With
    <3>3. ASSUME Undisturbed' PROVE fids'[next_fid'] = Meaning'[pos' - 1]
      <4>1. Undisturbed /\ \A k \in 0 .. Len(path) : Meaning'[k] = Meaning[k]
        BY <1>1, <1>2, <3>3, Quiet
      <4>2. pos - 1 \in 0 .. Len(path)
        BY <1>2 DEF Typed
      <4> QED
        BY <1>1, <2>4, <2>7, <3>2, <4>1, <4>2
    <3> QED
      BY <3>1, <3>3 DEF PathInv, Follows, ResolvesInside, Returned
  <2> QED
    BY <2>5, <2>6, <2>7
<1> QED
  BY <1>4, <1>5, <1>6


LEMMA StartThere ==
  ASSUME FidInv, ~overtaken, pc \in Active
  PROVE  start \in Nodes
<1>1. Has(before, pi.walk_fid) /\ Typed
  BY DEF FidInv, Fids
<1> QED
  BY <1>1 DEF start, Has, Typed

LEMMA MeaningGrows ==
  ASSUME Typed, Traced, Traced', UNCHANGED <<path, before, pi>>, exists \subseteq exists'
  PROVE  \A k \in 0 .. Len(path) : Meaning[k] # NoNode => Meaning'[k] = Meaning[k]
<1> DEFINE U == {k \in 0 .. Len(path) : Meaning[k] # NoNode => Meaning'[k] = Meaning[k]}
<1>1. Len(path) \in Nat
  BY DEF Typed
<1>2. start' = start
  BY DEF start, Has
<1>3. 0 \in U
  BY <1>1, <1>2 DEF Traced
<1>4. ASSUME NEW m \in 0 .. Len(path), m # Len(path), m \in U
      PROVE  m + 1 \in U
  <2>1. m + 1 \in 1 .. Len(path) /\ m + 1 \in 0 .. Len(path) /\ (m + 1) - 1 = m
    BY <1>1, <1>4
  <2>2. Meaning[m + 1] = Follow(Meaning[m], path[m + 1])
    BY <2>1 DEF Traced
  <2>3. Meaning'[m + 1] = Follow(Meaning[m], path[m + 1])'
    <3>1. \A k \in 1 .. Len(path') : Meaning'[k] = Follow(Meaning[k - 1], path[k])'
      BY DEF Traced
    <3> QED
      BY <1>4, <2>1, <3>1
  <2>4. ASSUME Meaning[m + 1] # NoNode PROVE Meaning'[m + 1] = Meaning[m + 1]
    <3>1. Meaning[m] # NoNode
      BY <2>2, <2>4, FollowCases
    <3>2. Meaning'[m] = Meaning[m] /\ path' = path
      BY <1>4, <3>1
    <3>3. \A n, name : Step(n, name) # NoNode => Step(n, name)' = Step(n, name)
      <4> SUFFICES ASSUME NEW n, NEW name, Step(n, name) # NoNode PROVE Step(n, name)' = Step(n, name)
        OBVIOUS
      <4> QED
        BY DEF Step
    <3>4. Follow(Meaning[m], path[m + 1])' = Follow(Meaning[m], path[m + 1])
      BY <2>2, <2>4, <3>2, <3>3 DEF Follow
    <3> QED
      BY <2>2, <2>3, <3>4
  <2> QED
    BY <2>1, <2>4
<1> HIDE DEF U
<1>5. \A k \in 0 .. Len(path) : k \in U
  BY <1>1, <1>3, <1>4, Between
<1> QED
  BY <1>5 DEF U

LEMMA PathCreate ==
  ASSUME FidInv, Traced, Traced', PathInv, Create
  PROVE  PathInv'
<1> DEFINE d == fids[next_fid]
<1>1. /\ pc = "create" /\ pc \in Active
      /\ UNCHANGED <<path, flags, pos, parts, prev_fid, next_fid, before, disturbed, overtaken, pi>>
  BY DEF Create, Active
<1>2. Typed /\ pos = Len(path) /\ path[pos] \notin {".", ".."} /\ flags.creat
  BY <1>1 DEF FidInv, Labels
<1>3. pos \in 1 .. Len(path) /\ pos - 1 \in 0 .. Len(path) /\ pos \in 0 .. Len(path) /\ exists \subseteq Dirs
  BY <1>2 DEF Typed
<1>4. Named = Follow(Meaning[pos - 1], path[pos])
  BY <1>2, <1>3 DEF Traced, Named
<1>5. PICK err \in {CreateErr(d)} \cup (IF "refuse" \in Faults THEN {"EIO"} ELSE {}) :
       \/ /\ err = "none"
          /\ exists' = exists \cup {d}
          /\ fids' = With(fids, next_fid, File(d))
          /\ have_created' = TRUE
          /\ pc' = "found"
       \/ /\ err # "none" /\ ~Retry(err)
          /\ Return(Error(err))
          /\ UNCHANGED exists
       \/ pc' = "rewalk"
  BY DEF Create
<1>6. Undisturbed => d = Meaning[pos - 1] /\ d \in Nodes
  <2>1. next_fid \in DOMAIN fids
    BY <1>1 DEF FidInv, Labels, Has
  <2> QED
    BY <1>1, <1>2, <2>1 DEF PathInv, Follows, Typed
<1>7. CASE err = "none" /\ exists' = exists \cup {d} /\ fids' = With(fids, next_fid, File(d))
           /\ have_created' = TRUE /\ pc' = "found"
  <2>1. d \in Dirs /\ path[pos] = "f"
    <3>1. CreateErr(d) = "none"
      BY <1>5, <1>7
    <3> QED
      BY <3>1 DEF CreateErr
  <2>2. ASSUME Undisturbed' PROVE fids'[next_fid'] = Named'
    <3>1. \A k \in 0 .. Len(path) : Meaning[k] # NoNode => Meaning'[k] = Meaning[k]
      BY <1>1, <1>2, <1>7, MeaningGrows
    <3>2. Undisturbed
      <4>1. Named = Outside => Named' = Outside
        BY <1>1, <1>2, <1>3, <3>1 DEF Named, NoNode, Outside
      <4> QED
        BY <1>1, <2>2, <4>1 DEF Undisturbed
    <3>3. d = Meaning[pos - 1] /\ d # NoNode
      BY <1>6, <2>1, <3>2 DEF Dirs, NoNode
    <3>4. Meaning'[pos - 1] = d
      BY <1>3, <3>1, <3>3
    <3>5. Named' = Follow(Meaning[pos - 1], path[pos])'
      <4>1. \A k \in 1 .. Len(path') : Meaning'[k] = Follow(Meaning[k - 1], path[k])'
        BY DEF Traced
      <4> QED
        BY <1>1, <1>2, <1>3, <4>1 DEF Named
    <3>6. Follow(Meaning[pos - 1], path[pos])' = File(d)
      <4>1. PICK c \in Dirs : c = d
        BY <2>1
      <4>2. Step(c, "f")' = File(c)
        BY <1>7, <4>1 DEF Step, Dirs
      <4>3. Follow(c, "f")' = Step(c, "f")'
        BY DEF Follow, Dirs, NoNode, Outside
      <4>4. Meaning'[pos' - 1] = c /\ path'[pos'] = "f"
        BY <1>1, <2>1, <3>4, <4>1
      <4>5. Follow(Meaning[pos - 1], path[pos])' = Follow(c, "f")'
        BY <4>4 DEF Follow, Step
      <4> QED
        BY <4>1, <4>2, <4>3, <4>5
    <3>7. fids'[next_fid] = File(d)
      BY <1>7 DEF With
    <3> QED
      BY <1>1, <3>5, <3>6, <3>7
  <2> QED
    BY <1>7, <2>2 DEF PathInv, Follows, ResolvesInside, Returned
<1>8. CASE err # "none" /\ ~Retry(err) /\ Return(Error(err)) /\ UNCHANGED exists
  <2>1. Error(err).kind # "normal" /\ Error(err).err = err
    BY DEF Error
  <2>2. ASSUME Undisturbed
        PROVE  Named = Step(d, path[pos])
    BY <1>2, <1>4, <1>6, <2>2, FollowCases DEF Undisturbed
  <2>3. err \in {CreateErr(d), "EIO"} /\ err # "ENOENT"
    BY <1>5 DEF CreateErr
  <2>4. ASSUME Undisturbed, err = "ENOTDIR" PROVE Named = NoNode
    <3>1. d \notin Dirs
      BY <2>3, <2>4 DEF CreateErr
    <3> QED
      BY <1>3, <2>2, <2>4, <3>1 DEF Step, Dirs
  <2>5. ASSUME Undisturbed, err = "EEXIST" PROVE Named \in Nodes /\ flags.creat /\ flags.excl
    <3>1. Step(d, path[pos]) # NoNode
      BY <2>3, <2>5 DEF CreateErr
    <3>2. Step(d, path[pos]) \in Nodes \cup {NoNode}
      <4>1. path[pos] \in Name
        BY <1>2, <1>3 DEF Typed
      <4> QED
        BY <1>6, <2>5, <4>1, StepTyped
    <3> QED
      BY <1>2, <1>8, <2>2, <2>5, <3>1, <3>2 DEF Retry
  <2> QED
    BY <1>1, <1>2, <1>8, <2>1, <2>3, <2>4, <2>5, PathFail
<1>9. CASE pc' = "rewalk"
  BY <1>9 DEF PathInv, Follows, ResolvesInside, Returned
<1> QED
  BY <1>5, <1>7, <1>8, <1>9


LEMMA StayErrors ==
  ASSUME NEW fid, NEW r \in WalkReplies(fid, <<>>)
  PROVE  r.err \in {"none", "EBADF", "EIO"}
BY DEF WalkReplies, Walk, Refused

(* The protid made is at the file the path names.                          *)
LEMMA PathFoundCreated ==
  ASSUME FidInv, Traced, Traced', PathInv, FoundCreated
  PROVE  PathInv'
<1> DEFINE dup == last_fid + 1
<1>1. /\ pc = "found" /\ pc \in Active /\ have_created
      /\ UNCHANGED <<path, flags, before, disturbed, overtaken, pi, exists>>
  BY DEF FoundCreated, Active
<1>2. PICK r \in WalkReplies(next_fid, <<>>) :
        IF r.err = "none"
         THEN /\ fids' = With(fids, dup, fids[next_fid])
              /\ pc' = "returned" /\ out' = Normal
              /\ npi' = [walk_fid |-> dup, io_fid |-> next_fid, qid |-> NodeQid]
         ELSE Return(Error(r.err))
  BY DEF FoundCreated
<1>3. Typed /\ dup \notin DOMAIN fids /\ next_fid \in DOMAIN fids
  BY <1>1, AtFound DEF FidInv, Labels, Has
<1>4. CASE r.err = "none"
  <2>1. /\ fids' = With(fids, dup, fids[next_fid]) /\ pc' = "returned" /\ out' = Normal
        /\ npi' = [walk_fid |-> dup, io_fid |-> next_fid, qid |-> NodeQid]
    BY <1>2, <1>4
  <2>2. fids'[dup] = fids[next_fid] /\ fids'[next_fid] = fids[next_fid] /\ dup \in DOMAIN fids'
    BY <1>3, <2>1 DEF With
  <2>3. ASSUME Undisturbed' PROVE ResolvesInside'
    <3>1. Undisturbed /\ Named' = Named
      BY <1>1, <1>3, <2>3, Quiet
    <3>2. fids[next_fid] = Named
      BY <1>1, <3>1 DEF PathInv, Follows
    <3> QED
      BY <2>1, <2>2, <3>1, <3>2 DEF ResolvesInside, Normal, Has
  <2> QED
    BY <2>1, <2>3 DEF PathInv, Follows
<1>5. CASE r.err # "none"
  <2>1. Return(Error(r.err)) /\ Error(r.err).kind # "normal" /\ Error(r.err).err = r.err
    BY <1>2, <1>5 DEF Error
  <2>2. r.err \in {"EBADF", "EIO"}
    BY <1>5, StayErrors
  <2> QED
    BY <1>1, <1>3, <2>1, <2>2, PathFail
<1> QED
  BY <1>4, <1>5

LEMMA PathFoundExisting ==
  ASSUME FidInv, Traced, Traced', PathInv, FoundExisting
  PROVE  PathInv'
<1> DEFINE dup == last_fid + 1
<1>1. /\ pc = "found" /\ pc \in Active /\ ~have_created
      /\ UNCHANGED <<path, flags, before, disturbed, overtaken, pi, exists>>
  BY DEF FoundExisting, local, Active
<1>2. Typed /\ dup \notin DOMAIN fids
  BY <1>1, AtFound
<1>3. ASSUME Undisturbed' PROVE Named' = Named /\ fids[prev_fid] = Named /\ prev_fid \in DOMAIN fids
  <2>1. Undisturbed /\ Named' = Named
    BY <1>1, <1>2, <1>3, Quiet
  <2>2. fids[prev_fid] = Named
    BY <1>1, <2>1 DEF PathInv, Follows
  <2>3. Reached(prev_fid)
    BY <1>1, <2>1, Began DEF Fids
  <2> QED
    BY <2>1, <2>2, <2>3 DEF Reached
<1>4. \/ /\ pc' = "returned" /\ out' = Normal /\ fids' = fids
         /\ npi' = [walk_fid |-> prev_fid, io_fid |-> NoFid, qid |-> NodeQid]
      \/ /\ pc' = "returned" /\ out' = Normal /\ fids' = With(fids, dup, fids[prev_fid])
         /\ npi' = [walk_fid |-> prev_fid, io_fid |-> dup, qid |-> NodeQid]
      \/ \E e \in {"EBADF", "EIO"} : Return(Error(e))
  <2>1. CASE EnsureOpen
    <3>1. PICK r \in WalkReplies(prev_fid, <<>>), openErr \in {"none"} \cup (IF "refuse" \in Faults THEN {"EIO"} ELSE {}) :
            LET err == IF r.err = "none" THEN openErr ELSE r.err IN
             IF err = "none"
               THEN /\ fids' = With(fids, dup, fids[prev_fid])
                    /\ pc' = "returned" /\ out' = Normal
                    /\ npi' = [walk_fid |-> prev_fid, io_fid |-> dup, qid |-> NodeQid]
               ELSE Return(Error(err))
      BY <2>1 DEF EnsureOpen
    <3>2. r.err \in {"none", "EBADF", "EIO"} /\ openErr \in {"none", "EIO"}
      BY StayErrors
    <3> QED
      BY <3>1, <3>2
  <2> QED
    BY <2>1 DEF FoundExisting
<1>5. CASE /\ pc' = "returned" /\ out' = Normal /\ fids' = fids
           /\ npi' = [walk_fid |-> prev_fid, io_fid |-> NoFid, qid |-> NodeQid]
  BY <1>3, <1>5 DEF PathInv, Follows, ResolvesInside, Normal, Has
<1>6. CASE /\ pc' = "returned" /\ out' = Normal /\ fids' = With(fids, dup, fids[prev_fid])
           /\ npi' = [walk_fid |-> prev_fid, io_fid |-> dup, qid |-> NodeQid]
  <2>1. ASSUME Undisturbed' PROVE prev_fid \in DOMAIN fids' /\ fids'[prev_fid] = Named' /\ fids'[dup] = Named'
    BY <1>2, <1>3, <1>6, <2>1 DEF With
  <2> QED
    BY <1>6, <2>1 DEF PathInv, Follows, ResolvesInside, Normal, Has
<1>7. CASE \E e \in {"EBADF", "EIO"} : Return(Error(e))
  <2>1. PICK e \in {"EBADF", "EIO"} : Return(Error(e))
    BY <1>7
  <2>2. Error(e).kind # "normal" /\ Error(e).err = e
    BY DEF Error
  <2> QED
    BY <1>1, <1>2, <2>1, <2>2, PathFail
<1> QED
  BY <1>4, <1>5, <1>6, <1>7

LEMMA PathFoundNotDir ==
  ASSUME FidInv, Traced, Traced', PathInv, FoundNotDir
  PROVE  PathInv'
<1>1. /\ pc = "found" /\ pc \in Active /\ NotDir
      /\ UNCHANGED <<path, flags, before, disturbed, overtaken, pi, exists>>
  BY DEF FoundNotDir, local, Active
<1>2. Return(Error("ENOTDIR")) \/ pc' = "crashed"
  BY DEF FoundNotDir
<1>3. DirAsked /\ ~have_created /\ n_qids > 0 /\ qid \notin Dirs
  BY <1>1, SlashAsked
<1>4. Undisturbed => Named \notin Dirs
  <2>1. Undisturbed => fids[prev_fid] = Named
    BY <1>1, <1>3 DEF PathInv, Follows
  <2>2. Undisturbed => qid = fids[prev_fid]
    BY <1>1, <1>3, Began DEF Fids
  <2> QED
    BY <1>3, <2>1, <2>2
<1>5. Typed
  BY DEF FidInv
<1>6. Error("ENOTDIR").kind # "normal" /\ Error("ENOTDIR").err = "ENOTDIR"
  BY DEF Error
<1>7. CASE Return(Error("ENOTDIR"))
  BY <1>1, <1>3, <1>4, <1>5, <1>6, <1>7, PathFail
<1>8. CASE pc' = "crashed"
  BY <1>8 DEF PathInv, Undisturbed, Active
<1> QED
  BY <1>2, <1>7, <1>8

LEMMA PathFoundNoMemory ==
  ASSUME FidInv, Traced, Traced', PathInv, FoundNoMemory
  PROVE  PathInv'
<1>1. /\ pc \in Active /\ Return(Error("ENOMEM"))
      /\ UNCHANGED <<path, flags, before, disturbed, overtaken, pi, exists>>
  BY DEF FoundNoMemory, local, Active
<1>2. Error("ENOMEM").kind # "normal" /\ Error("ENOMEM").err = "ENOMEM" /\ Typed
  BY DEF Error, FidInv
<1> QED
  BY <1>1, <1>2, PathFail

LEMMA PathStutter ==
  ASSUME FidInv, Traced, Traced', PathInv, UNCHANGED vars
  PROVE  PathInv'
<1>1. UNCHANGED <<pc, path, flags, pos, parts, prev_fid, next_fid, have_created, before, disturbed, overtaken, pi, npi,
                  out, fids, exists>>
  BY DEF vars, local
<1>2. Typed
  BY DEF FidInv
<1>3. Named' = Named /\ \A k \in 0 .. Len(path) : Meaning'[k] = Meaning[k]
  BY <1>1, <1>2, MeaningSame
<1>4. ASSUME Undisturbed' PROVE Follows' /\ ResolvesInside'
  <2>1. Follows /\ ResolvesInside
    BY <1>1, <1>3, <1>4 DEF PathInv, Undisturbed
  <2>2. \A i : Batch(i) => Batch(i)'
    BY <1>1, BatchSame
  <2>3. pos \in 0 .. Len(path) /\ (pos > 0 => pos - 1 \in 0 .. Len(path)) /\ Len(path) \in Nat
    BY <1>2 DEF Typed
  <2>4. pc = "create" => pos > 0
    <3>1. pc = "create" => pos = Len(path) /\ path # <<>> /\ path \in Seq(Name)
      BY <1>2 DEF FidInv, Labels, Typed
    <3> QED
      BY <3>1
  <2>5. \A i \in 0 .. pos : i \in 0 .. Len(path)
    BY <2>3
  <2>6. Follows'
    BY <1>1, <1>3, <2>1, <2>2, <2>3, <2>4, <2>5 DEF Follows
  <2>7. DirAsked' = DirAsked
    BY <1>1 DEF DirAsked
  <2>8. ResolvesInside'
    BY <1>1, <1>3, <2>1, <2>7 DEF ResolvesInside, Returned, Has
  <2> QED
    BY <2>6, <2>8
<1> QED
  BY <1>4 DEF PathInv

LEMMA PathNext ==
  ASSUME FidInv, FidInv', Traced, Traced', PathInv, [Next]_vars
  PROVE  PathInv'
<1>1. CASE \E q \in Requests : Begin(q)
  BY <1>1, PathBegin
<1>2. CASE Gather
  BY <1>2, PathGather
<1>3. CASE DoWalk
  BY <1>3, PathWalk
<1>4. CASE CreatePrepared
  BY <1>4, PathCreatePrepared
<1>5. CASE Create
  BY <1>5, PathCreate
<1>6. CASE Rewalk
  BY <1>6 DEF Rewalk, PathInv, Undisturbed
<1>7. CASE FoundCreated
  BY <1>7, PathFoundCreated
<1>8. CASE FoundExisting
  BY <1>8, PathFoundExisting
<1>9. CASE FoundBadFlags
  BY <1>9 DEF FoundBadFlags, PathInv, Undisturbed, Active
<1>10. CASE FoundNotDir
  BY <1>10, PathFoundNotDir
<1>11. CASE FoundNoMemory
  BY <1>11, PathFoundNoMemory
<1>12. CASE Continue
  BY <1>12 DEF Continue, PathInv, Undisturbed, Active
<1>13. CASE Rival
  BY <1>13 DEF Rival, PathInv, Undisturbed
<1>14. CASE Finished \/ UNCHANGED vars
  BY <1>14, PathStutter DEF Finished
<1> QED
  BY <1>1, <1>2, <1>3, <1>4, <1>5, <1>6, <1>7, <1>8, <1>9, <1>10, <1>11, <1>12, <1>13, <1>14 DEF Next

(* A path that stays inside the root leads where its names lead, however   *)
(* it is cut into batches and wherever in it the server gives up.          *)
THEOREM PathResolved == ShortCreate /\ Spec => []ResolvesInside
<1>1. Init => PathInv
  BY DEF Init, PathInv, Undisturbed, Active
<1>2. FidInv => Traced
  BY MeaningTraced DEF FidInv
<1>3. FidInv /\ FidInv' /\ Traced /\ Traced' /\ PathInv /\ [Next]_vars => PathInv'
  BY PathNext
<1>4. FidInv /\ PathInv => ResolvesInside
  BY DEF PathInv, Undisturbed, ResolvesInside, Returned
<1> QED
  BY <1>1, <1>2, <1>3, <1>4, FidAlways, PTL DEF Spec

=============================================================================
