---------------------------- MODULE P9RpcProofs ----------------------------
(***************************************************************************)
(* Theorems about the RPC multiplexer, for every set of threads, number of *)
(* tags, set of reply kinds and capacity.                                  *)
(***************************************************************************)
EXTENDS P9Rpc, TLAPS

USE ThreadAssumption, TagsAssumption, KindsAssumption, FaultsAssumption,
    ReuseAssumption, CapAssumption, NoMsgAssumption

LEMMA NextTagTyped ==
  ASSUME NEW n \in Tags PROVE (n + 1) % NTags \in Tags
  BY DEF Tags

(* Cutting the last of some replies yields replies.                        *)
LEMMA CutTyped ==
  ASSUME NEW s \in Seq(Msg), NEW n \in 1 .. Len(s)
  PROVE  [s EXCEPT ![n].cut = TRUE] \in Seq(Msg)
<1>1. s[n] \in Msg
  OBVIOUS
<1>2. [s[n] EXCEPT !.cut = TRUE] \in Msg
  BY <1>1 DEF Msg
<1>3. [s EXCEPT ![n] = [s[n] EXCEPT !.cut = TRUE]] \in Seq(Msg)
  BY <1>2
<1>4. QED
  BY <1>3

(* What is on the outgoing stream after a write is typed.                  *)
LEMMA WriteOutTyped ==
  ASSUME NEW s \in Seq(Part), WriteOut(s), wire \in Seq(Part), outErr \in BOOLEAN
  PROVE  outbuf' \in Seq(Part) /\ wire' \in Seq(Part) /\ outErr' \in BOOLEAN
<1>1. \A n \in 0 .. Len(s) - 1 : SubSeq(s, 1, n) \in Seq(Part)
  OBVIOUS
<1>2. wire \o s \in Seq(Part)
  OBVIOUS
<1>3. \A n \in 0 .. Len(s) - 1 : wire \o SubSeq(s, 1, n) \in Seq(Part)
  BY <1>1
<1>4. wire' \in Seq(Part)
  BY <1>2, <1>3 DEF WriteOut
<1>5. outbuf' = <<>> /\ <<>> \in Seq(Part)
  BY DEF WriteOut
<1>6. outErr' = outErr \/ outErr' = TRUE
  BY DEF WriteOut
<1>7. outErr' \in BOOLEAN
  BY <1>6, Zenon
<1>8. QED
  BY <1>4, <1>5, <1>7

LEMMA PutTyped ==
  ASSUME NEW t \in Thread, NEW p \in {"header", "body"}, Put(t, p),
         tag \in [Thread -> Tags], outbuf \in Seq(Part), wire \in Seq(Part),
         outErr \in BOOLEAN
  PROVE  outbuf' \in Seq(Part) /\ wire' \in Seq(Part) /\ outErr' \in BOOLEAN
<1> DEFINE s == Append(outbuf, [of |-> t, tag |-> tag[t], part |-> p])
<1>1. s \in Seq(Part)
  <2>1. [of |-> t, tag |-> tag[t], part |-> p] \in Part
    BY DEF Part
  <2>2. QED
    BY <2>1
<1> HIDE DEF s
<1>2. \/ UNCHANGED <<outbuf, wire, outErr>>
      \/ outbuf' = s /\ UNCHANGED <<wire, outErr>>
      \/ WriteOut(s)
  BY Zenon DEF Put, s
<1>3. QED
  BY <1>1, <1>2, WriteOutTyped

(* A nonempty sequence splits into a head and a tail of the same kind.     *)
LEMMA HeadTailTyped ==
  ASSUME NEW S, NEW s \in Seq(S), s # <<>>
  PROVE  Head(s) \in S /\ Tail(s) \in Seq(S)
  OBVIOUS

LEMMA InitTyped == Init => TypeOK
<1> SUFFICES ASSUME Init PROVE TypeOK
  OBVIOUS
<1>1. NTags - 1 \in Tags /\ 0 \in Tags
  BY DEF Tags
<1>2. <<>> \in Seq(Part) /\ <<>> \in Seq(Msg)
  OBVIOUS
<1>3. QED
  BY <1>1, <1>2 DEF Init, TypeOK, Labels, Registered, Waiting, EnRoute, Outcome

LEMMA ThreadStepTyped ==
  ASSUME TypeOK, NEW t \in Thread,
         \/ Register(t) \/ RegisterFail(t) \/ Send(t) \/ Receive(t)
         \/ CancelWait(t) \/ SpuriousWake(t)
  PROVE  TypeOK'
<1> USE DEF Labels, Registered, Waiting, EnRoute, Outcome, threadVars,
            tableVars, outVars, inVars, serverVars, At, NextTag, AddInterest,
            LockWrite, RemoveInterest, WaitOrRead, ClearToken, Ours
<1>1. CASE Register(t)
  BY <1>1, NextTagTyped DEF Register, TypeOK
<1>2. CASE RegisterFail(t)
  BY <1>2, NextTagTyped DEF RegisterFail, Return, TypeOK, Tags
<1>3. CASE WriteHeader(t)
  <2>1. outbuf' \in Seq(Part) /\ wire' \in Seq(Part) /\ outErr' \in BOOLEAN
    BY <1>3, PutTyped DEF WriteHeader, TypeOK
  <2>2. QED
    BY <1>3, <2>1 DEF WriteHeader, Goto, TypeOK
<1>4. CASE WriteBody(t)
  <2>1. outbuf' \in Seq(Part) /\ wire' \in Seq(Part) /\ outErr' \in BOOLEAN
    BY <1>4, PutTyped DEF WriteBody, TypeOK
  <2>2. 0 \in Tags
    BY DEF Tags
  <2>3. QED
    <3>1. CASE outErr'
      <4>1. Return(t, "ferror")
        BY <1>4, <3>1 DEF WriteBody
      <4>2. /\ pc' \in [Thread -> Labels] /\ tag' \in [Thread -> Tags]
            /\ got' \in [Thread -> Msg \cup {NoMsg}] /\ hdr' \in [Thread -> Msg \cup {NoMsg}]
            /\ result' \in [Thread -> Outcome]
            /\ \A u \in Thread : pc'[u] = "dispatch" => hdr'[u] \in Msg
            /\ \A u \in Thread : pc'[u] \in {"body", "release"} => got'[u] \in Msg
        BY <4>1, <2>2 DEF Return, TypeOK
      <4>3. QED
        BY <1>4, <2>1, <4>2 DEF WriteBody, TypeOK
    <3>2. CASE ~outErr'
      BY <1>4, <2>1, <3>2 DEF WriteBody, Goto, TypeOK
    <3>3. QED
      BY <3>1, <3>2
<1>5. CASE Flush(t)
  <2>1. wire' \in Seq(Part) /\ outbuf' \in Seq(Part) /\ outErr' \in BOOLEAN
    <3>1. outbuf \in Seq(Part) /\ wire \in Seq(Part) /\ outErr \in BOOLEAN
      BY DEF TypeOK
    <3>2. UNCHANGED <<outbuf, wire, outErr>> \/ WriteOut(outbuf)
      BY <1>5 DEF Flush
    <3>3. QED
      BY <3>1, <3>2, WriteOutTyped
  <2>2. QED
    BY <1>5, <2>1 DEF Flush, Goto, TypeOK
<1>6. CASE WaitForHeader(t)
  BY <1>6 DEF WaitForHeader, Goto, TypeOK
<1>7. CASE ReadHeader(t)
  <2>1. PICK m \in Msg :
          /\ NextHeader(m)
          /\ hdr' = [hdr EXCEPT ![t] = m]
          /\ IF body = NoMsg
               THEN body' = m /\ inbox' = Tail(inbox)
               ELSE UNCHANGED <<body, inbox>>
    BY <1>7 DEF ReadHeader
  <2>2. inbox' \in Seq(Msg)
    <3>1. CASE body = NoMsg
      <4>1. inbox \in Seq(Msg) /\ inbox # <<>>
        BY <2>1, <3>1 DEF NextHeader, TypeOK
      <4>2. QED
        BY <2>1, <3>1, <4>1, HeadTailTyped
    <3>2. CASE body # NoMsg
      BY <2>1, <3>2 DEF TypeOK
    <3>3. QED
      BY <3>1, <3>2
  <2>3. QED
    BY <1>7, <2>1, <2>2 DEF ReadHeader, TypeOK
<1>8. CASE ReadHeaderFails(t)
  <2>1. 0 \in Tags
    BY DEF Tags
  <2>2. inErr' \in BOOLEAN
    BY <1>8 DEF ReadHeaderFails, TypeOK
  <2>3. QED
    BY <1>8, <2>1, <2>2 DEF ReadHeaderFails, Return, TypeOK
<1>9. CASE DispatchOwn(t)
  BY <1>9 DEF DispatchOwn, TypeOK
<1>10. CASE DispatchOther(t)
  <2>1. hdr[t] \in Msg /\ hdr[t].tag \in Tags
    BY <1>10 DEF DispatchOther, TypeOK, Msg
  <2>2. PICK u \in Thread : u = interest_table[hdr[t].tag]
    BY <1>10, <2>1 DEF DispatchOther, Live, TypeOK
  <2>3. got' = [got EXCEPT ![u] = hdr[t]] /\ hdr' = [hdr EXCEPT ![t] = NoMsg]
    BY <1>10, <2>2 DEF DispatchOther
  <2>4. pc' = Signal([pc EXCEPT ![t] = "wait"], u)
    BY <1>10, <2>2 DEF DispatchOther
  <2>5. /\ pc' \in [Thread -> Labels]
        /\ \A w \in Thread : pc'[w] \in {"dispatch", "body", "release"} => w # t /\ pc'[w] = pc[w]
    BY <2>4 DEF Signal, TypeOK
  <2>6. /\ got' \in [Thread -> Msg \cup {NoMsg}] /\ hdr' \in [Thread -> Msg \cup {NoMsg}]
        /\ \A w \in Thread : got[w] \in Msg => got'[w] \in Msg
        /\ \A w \in Thread : w # t => hdr'[w] = hdr[w]
    BY <2>1, <2>3 DEF TypeOK
  <2>7. QED
    BY <1>10, <2>5, <2>6 DEF DispatchOther, TypeOK
<1>11. CASE DispatchStale(t)
  BY <1>11 DEF DispatchStale, TypeOK
<1>12. CASE DispatchUnknown(t)
  BY <1>12 DEF DispatchUnknown, TypeOK
<1>13. CASE ReadBody(t)
  BY <1>13 DEF ReadBody, TypeOK, Msg, AllKinds
<1>14. CASE ReadBodyInterrupted(t)
  BY <1>14 DEF ReadBodyInterrupted, TypeOK
<1>15. CASE Release(t)
  <2> DEFINE p == [pc EXCEPT ![t] = "idle"]
  <2>1. pc' = p \/ \E k \in Tags : Live(k) /\ pc' = Signal(p, interest_table[k])
    BY <1>15 DEF Release, Occupied
  <2>2. pc' = p \/ \E u \in Thread : pc' = Signal(p, u)
    <3>1. \A k \in Tags : Live(k) => interest_table[k] \in Thread
      BY DEF Live, TypeOK
    <3> HIDE DEF p
    <3>2. QED
      BY <2>1, <3>1
  <2>3. p \in [Thread -> Labels] /\ p[t] = "idle" /\ \A w \in Thread : w # t => p[w] = pc[w]
    BY DEF TypeOK, Labels
  <2> HIDE DEF p
  <2>4. /\ pc' \in [Thread -> Labels]
        /\ \A w \in Thread : pc'[w] \in {"dispatch", "body", "release"} => w # t /\ pc'[w] = pc[w]
    <3>1. CASE pc' = p
      BY <2>3, <3>1
    <3>2. ASSUME NEW u \in Thread, pc' = Signal(p, u)
          PROVE  /\ pc' \in [Thread -> Labels]
                 /\ \A w \in Thread :
                      pc'[w] \in {"dispatch", "body", "release"} => w # t /\ pc'[w] = pc[w]
      BY <2>3, <3>2 DEF Signal, Labels
    <3>3. QED
      BY <2>2, <3>1, <3>2
  <2>5. tag' \in [Thread -> Tags] /\ got' \in [Thread -> Msg \cup {NoMsg}]
        /\ \A w \in Thread : w # t => got'[w] = got[w]
    BY <1>15 DEF Release, TypeOK, Tags
  <2>6. QED
    BY <1>15, <2>4, <2>5 DEF Release, ClearToken, TypeOK
<1>16. CASE CancelWait(t)
  BY <1>16 DEF CancelWait, Return, TypeOK, Tags
<1>17. CASE SpuriousWake(t)
  BY <1>17 DEF SpuriousWake, Goto, TypeOK
<1>18. QED
  BY <1>1, <1>2, <1>3, <1>4, <1>5, <1>6, <1>7, <1>8, <1>9, <1>10, <1>11,
     <1>12, <1>13, <1>14, <1>15, <1>16, <1>17 DEF Send, Receive

LEMMA ServerStepTyped ==
  ASSUME TypeOK, Server \/ ConnDown PROVE TypeOK'
<1> USE DEF threadVars, tableVars, outVars, inVars
<1>1. CASE Accept
  <2>1. wire[1] \in Part
    BY <1>1 DEF Accept, TypeOK
  <2>2. wire' \in Seq(Part)
    BY <1>1 DEF Accept, TypeOK
  <2>3. pending' \subseteq [of : Thread, tag : Tags]
    BY <1>1, <2>1 DEF Accept, TypeOK, Part
  <2>4. QED
    BY <1>1, <2>2, <2>3 DEF Accept, TypeOK
<1>2. ASSUME NEW r \in pending, NEW kind \in Kinds, Reply(r, kind)
      PROVE  TypeOK'
  BY <1>2 DEF Reply, TypeOK, Msg, AllKinds
<1>3. CASE ConnDown
  <2>1. PICK n \in 0 .. Len(inbox) :
          \/ inbox' = SubSeq(inbox, 1, n)
          \/ n > 0 /\ inbox' = [SubSeq(inbox, 1, n) EXCEPT ![n].cut = TRUE]
    BY <1>3 DEF ConnDown
  <2>2. SubSeq(inbox, 1, n) \in Seq(Msg) /\ Len(SubSeq(inbox, 1, n)) = n
    BY DEF TypeOK
  <2>3. inbox' \in Seq(Msg)
    <3>1. CASE inbox' = SubSeq(inbox, 1, n)
      BY <2>2, <3>1
    <3>2. CASE n > 0 /\ inbox' = [SubSeq(inbox, 1, n) EXCEPT ![n].cut = TRUE]
      <4> DEFINE s == SubSeq(inbox, 1, n)
      <4>1. s \in Seq(Msg) /\ n \in 1 .. Len(s)
        BY <2>2, <3>2
      <4> HIDE DEF s
      <4>2. [s EXCEPT ![n].cut = TRUE] \in Seq(Msg)
        BY <4>1, CutTyped
      <4>3. QED
        BY <3>2, <4>2 DEF s
    <3>3. QED
      BY <2>1, <3>1, <3>2
  <2>4. QED
    BY <1>3, <2>3 DEF ConnDown, TypeOK
<1>4. QED
  BY <1>1, <1>2, <1>3 DEF Server

(* Every variable keeps its type: the inductive step of the theorem below. *)
LEMMA NextTyped == TypeOK /\ [Next]_vars => TypeOK'
<1> SUFFICES ASSUME TypeOK, [Next]_vars PROVE TypeOK'
  OBVIOUS
<1>1. CASE UNCHANGED vars
  BY <1>1 DEF TypeOK, vars, threadVars, tableVars, outVars, inVars, serverVars
<1>2. CASE Next
  BY <1>2, ThreadStepTyped, ServerStepTyped DEF Next
<1>3. QED
  BY <1>1, <1>2

(* TypeOK is an invariant, whatever faults occur and however tags are      *)
(* reused: in particular a header is only dispatched once it was read, and *)
(* a body only read by a thread that has a header.                         *)
THEOREM TypeCorrect == Spec => []TypeOK
<1>1. QED
  BY InitTyped, NextTyped, PTL DEF Spec

(***************************************************************************)
(* The token.                                                              *)
(***************************************************************************)
(* A step that leaves every thread's hold on the token as it was, and the  *)
(* token set if it was, preserves StreamMutex.                             *)
LEMMA SameHolders ==
  ASSUME StreamMutex, some_thread_is_reading => some_thread_is_reading',
         \A u \in Thread : HoldsToken(u)' => HoldsToken(u),
         \A u \in Thread : pc'[u] \in {"read", "dispatch"} => got'[u] = NoMsg
  PROVE  StreamMutex'
  BY DEF StreamMutex

(* A step after which only t holds the token, which is set, establishes    *)
(* StreamMutex.                                                            *)
LEMMA OnlyHolder ==
  ASSUME NEW t \in Thread, some_thread_is_reading',
         \A u \in Thread : HoldsToken(u)' => u = t,
         pc'[t] \in {"read", "dispatch"} => got'[t] = NoMsg
  PROVE  StreamMutex'
  BY DEF StreamMutex, HoldsToken

(* A signal wakes its target if it sleeps, and does nothing else.          *)
LEMMA SignalEffect ==
  ASSUME NEW S, NEW p \in [Thread -> S], NEW v \in Thread, NEW u \in Thread
  PROVE  /\ Signal(p, v)[u] = IF u = v /\ p[u] = "wait" THEN "woken" ELSE p[u]
  BY DEF Signal

(* Clearing the token returns t from its call and otherwise only wakes:    *)
(* if a slot is occupied by a live call, one such call is not left asleep. *)
LEMMA ReleaseWakesOne ==
  ASSUME TypeOK, NEW t \in Thread, Release(t)
  PROVE  /\ \A u \in Thread : u # t =>
              pc'[u] = pc[u] \/ (pc[u] = "wait" /\ pc'[u] = "woken")
         /\ pc'[t] = "idle"
         /\ (\A k \in Occupied : Live(k)) /\ Occupied # {} =>
              \E k \in Occupied : pc'[interest_table[k]] # "wait"
<1> DEFINE p0 == [pc EXCEPT ![t] = "idle"]
<1>1. p0 \in [Thread -> Labels] /\ p0[t] = "idle" /\ \A u \in Thread : u # t => p0[u] = pc[u]
  BY DEF TypeOK, Labels
<1> HIDE DEF p0
<1>2. CASE pc' = p0 /\ ((\A k \in Occupied : Live(k)) => Occupied = {})
  BY <1>1, <1>2
<1>3. ASSUME NEW k \in Occupied, pc' = Signal(p0, interest_table[k])
      PROVE  /\ \A u \in Thread : u # t =>
              pc'[u] = pc[u] \/ (pc[u] = "wait" /\ pc'[u] = "woken")
             /\ pc'[t] = "idle"
             /\ pc'[interest_table[k]] # "wait"
  <2>1. interest_table[k] \in Thread
    BY DEF Occupied, TypeOK
  <2>2. \A u \in Thread : pc'[u] = IF u = interest_table[k] /\ p0[u] = "wait" THEN "woken" ELSE p0[u]
    BY <1>1, <1>3, <2>1, SignalEffect
  <2>3. QED
    BY <1>1, <2>1, <2>2
<1>4. \/ pc' = p0 /\ ((\A k \in Occupied : Live(k)) => Occupied = {})
      \/ \E k \in Occupied : pc' = Signal(p0, interest_table[k])
  <2>1. CASE Occupied = {} /\ pc' = p0
    BY <2>1
  <2>2. ASSUME NEW k \in Occupied,
               pc' = IF Live(k) THEN Signal(p0, interest_table[k]) ELSE p0
        PROVE  <1>4
    BY <2>2
  <2>3. QED
    BY <2>1, <2>2 DEF Release, p0
<1>5. QED
  BY <1>2, <1>3, <1>4

LEMMA ThreadStepMutex ==
  ASSUME TypeOK, StreamMutex, NEW t \in Thread,
         \/ Register(t) \/ RegisterFail(t) \/ Send(t) \/ Receive(t)
         \/ CancelWait(t) \/ SpuriousWake(t)
  PROVE  StreamMutex'
<1> USE DEF HoldsToken, threadVars, tableVars, outVars, inVars, serverVars,
            At, WaitOrRead, ClearToken, Ours
<1>1. CASE Register(t)
  BY <1>1, SameHolders DEF StreamMutex, Register, TypeOK
<1>2. CASE RegisterFail(t)
  BY <1>2, SameHolders DEF StreamMutex, RegisterFail, Return, TypeOK
<1>3. CASE WriteHeader(t)
  BY <1>3, SameHolders DEF StreamMutex, WriteHeader, Goto, TypeOK
<1>4. CASE WriteBody(t)
  <2>1. /\ pc[t] = "writing" /\ UNCHANGED some_thread_is_reading
        /\ Goto(t, "flush") \/ Return(t, "ferror")
    BY <1>4, Zenon DEF WriteBody
  <2>2. QED
    BY <2>1, SameHolders DEF StreamMutex, Goto, Return, TypeOK
<1>5. CASE Flush(t)
  BY <1>5, SameHolders DEF StreamMutex, Flush, Goto, TypeOK
<1>6. CASE WaitForHeader(t)
  <2>1. CASE got[t] # NoMsg
    BY <1>6, <2>1, SameHolders DEF StreamMutex, WaitForHeader, Goto, TypeOK
  <2>2. CASE got[t] = NoMsg /\ some_thread_is_reading
    BY <1>6, <2>2, SameHolders DEF StreamMutex, WaitForHeader, Goto, TypeOK
  <2>3. CASE got[t] = NoMsg /\ ~some_thread_is_reading
    <3>1. \A u \in Thread : ~HoldsToken(u)
      BY <2>3 DEF StreamMutex
    <3>2. QED
      BY <1>6, <2>3, <3>1, OnlyHolder DEF WaitForHeader, Goto, TypeOK
  <2>4. QED
    BY <2>1, <2>2, <2>3
<1>7. CASE ReadHeader(t)
  BY <1>7, SameHolders DEF StreamMutex, ReadHeader, TypeOK
<1>8. CASE ReadHeaderFails(t)
  <2>1. \A u \in Thread : HoldsToken(u) => u = t
    BY <1>8 DEF ReadHeaderFails, StreamMutex
  <2>2. \A u \in Thread : ~HoldsToken(u)'
    BY <1>8, <2>1 DEF ReadHeaderFails, Return, TypeOK
  <2>3. QED
    BY <2>2 DEF StreamMutex
<1>9. CASE DispatchOwn(t)
  BY <1>9, SameHolders DEF StreamMutex, DispatchOwn, TypeOK
<1>10. CASE DispatchOther(t)
  <2> DEFINE u == interest_table[hdr[t].tag]
  <2>1. \A w \in Thread : HoldsToken(w) => w = t
    BY <1>10 DEF DispatchOther, StreamMutex
  <2>2. u \in Thread /\ u # t
    BY <1>10 DEF DispatchOther, Live, TypeOK, Msg
  <2>3. \A w \in Thread : HoldsToken(w)' => w = u
    <3>1. pc' = Signal([pc EXCEPT ![t] = "wait"], u) /\ got' = [got EXCEPT ![u] = hdr[t]]
      BY <1>10 DEF DispatchOther
    <3>2. [pc EXCEPT ![t] = "wait"] \in [Thread -> Labels]
      BY DEF TypeOK, Labels, Registered, Waiting
    <3> HIDE DEF u
    <3>3. \A w \in Thread : w # u => pc'[w] = [pc EXCEPT ![t] = "wait"][w] /\ got'[w] = got[w]
      BY <2>2, <3>1, <3>2, SignalEffect DEF TypeOK
    <3>4. QED
      BY <2>1, <3>3, <1>10 DEF TypeOK, DispatchOther, StreamMutex
  <2>4. some_thread_is_reading'
    BY <1>10 DEF DispatchOther, StreamMutex
  <2>5. pc'[u] \notin {"read", "dispatch"}
    BY <1>10, <2>1, <2>2 DEF DispatchOther, Signal, TypeOK
  <2>6. QED
    BY <2>2, <2>3, <2>4, <2>5, OnlyHolder
<1>11. CASE DispatchStale(t)
  BY <1>11, SameHolders DEF StreamMutex, DispatchStale, TypeOK
<1>12. CASE DispatchUnknown(t)
  BY <1>12, SameHolders DEF StreamMutex, DispatchUnknown
<1>13. CASE ReadBody(t)
  BY <1>13, SameHolders DEF StreamMutex, ReadBody, TypeOK
<1>14. CASE ReadBodyInterrupted(t)
  BY <1>14, SameHolders DEF StreamMutex, ReadBodyInterrupted, TypeOK
<1>15. CASE Release(t)
  <2>1. \A u \in Thread : HoldsToken(u) => u = t
    BY <1>15 DEF Release, StreamMutex
  <2>2. /\ \A u \in Thread : u # t => pc'[u] \in {pc[u], "woken"}
        /\ pc'[t] = "idle"
    BY <1>15, ReleaseWakesOne
  <2>4. \A u \in Thread : got'[u] = IF u = t THEN NoMsg ELSE got[u]
    BY <1>15 DEF Release, TypeOK
  <2>5. \A u \in Thread : ~HoldsToken(u)'
    BY <2>1, <2>2, <2>4
  <2>6. ~some_thread_is_reading'
    BY <1>15 DEF Release
  <2>7. QED
    BY <2>5, <2>6 DEF StreamMutex
<1>16. CASE CancelWait(t)
  BY <1>16, SameHolders DEF StreamMutex, CancelWait, Return, TypeOK
<1>17. CASE SpuriousWake(t)
  BY <1>17, SameHolders DEF StreamMutex, SpuriousWake, Goto, TypeOK
<1>18. QED
  BY <1>1, <1>2, <1>3, <1>4, <1>5, <1>6, <1>7, <1>8, <1>9, <1>10, <1>11,
     <1>12, <1>13, <1>14, <1>15, <1>16, <1>17 DEF Send, Receive

LEMMA NextMutex == TypeOK /\ StreamMutex /\ [Next]_vars => StreamMutex'
<1> SUFFICES ASSUME TypeOK, StreamMutex, [Next]_vars PROVE StreamMutex'
  OBVIOUS
<1>1. CASE UNCHANGED vars \/ Server \/ ConnDown
  <2>1. UNCHANGED <<pc, got, some_thread_is_reading>>
    BY <1>1 DEF Server, Accept, Reply, ConnDown, vars, threadVars, tableVars
  <2>2. QED
    BY <2>1, SameHolders DEF StreamMutex, HoldsToken
<1>2. ASSUME NEW t \in Thread,
             \/ Register(t) \/ RegisterFail(t) \/ Send(t) \/ Receive(t)
             \/ CancelWait(t) \/ SpuriousWake(t)
      PROVE  StreamMutex'
  BY <1>2, ThreadStepMutex
<1>3. QED
  BY <1>1, <1>2 DEF Next

(* At most one thread reads p9_conn_in or has been handed a header, and    *)
(* the token is set while one does: for any number of callers, any fault,  *)
(* and any reuse of tags.                                                  *)
THEOREM OneReader == Spec => []StreamMutex
<1>1. Init => StreamMutex
  BY DEF Init, StreamMutex, HoldsToken
<1>2. QED
  BY <1>1, InitTyped, NextTyped, NextMutex, PTL DEF Spec

(***************************************************************************)
(* Nobody is forgotten, while nothing but an allocation fails and no tag   *)
(* is handed out twice at a time.                                          *)
(***************************************************************************)
Undisturbed == Faults \subseteq {"nomem"} /\ ~TagReuse

Act(t) == \/ Register(t) \/ RegisterFail(t) \/ Send(t) \/ Receive(t)
          \/ CancelWait(t) \/ SpuriousWake(t)

(* While nothing fails, no write does.                                     *)
LEMMA PutHealthy ==
  ASSUME Undisturbed, Healthy
  PROVE  /\ \A s : WriteOut(s) => ~outErr'
         /\ \A t \in Thread, p \in {"header", "body"} : Put(t, p) => ~outErr'
<1>1. ~outErr /\ ~down /\ "cancel" \notin Faults
  BY DEF Undisturbed, Healthy
<1>2. ASSUME NEW s, WriteOut(s) PROVE ~outErr'
  BY <1>1, <1>2 DEF WriteOut
<1>3. ASSUME NEW t \in Thread, NEW p \in {"header", "body"}, Put(t, p) PROVE ~outErr'
  BY <1>1, <1>2, <1>3 DEF Put
<1>4. QED
  BY <1>2, <1>3

(* In an undisturbed multiplexer these are all the steps a thread takes.   *)
LEMMA UndisturbedSteps ==
  ASSUME Undisturbed, TypeOK, UndisturbedInv, NEW t \in Thread, Act(t)
  PROVE  \/ Register(t) \/ RegisterFail(t) \/ WriteHeader(t) \/ (WriteBody(t) /\ Goto(t, "flush"))
         \/ Flush(t) \/ WaitForHeader(t) \/ ReadHeader(t) \/ DispatchOwn(t)
         \/ DispatchOther(t) \/ DispatchUnknown(t) \/ ReadBody(t) \/ Release(t)
         \/ SpuriousWake(t)
<1>1. ~CancelWait(t) /\ ~ReadBodyInterrupted(t)
  BY DEF Undisturbed, CancelWait, ReadBodyInterrupted
<1>2. ~ReadHeaderFails(t)
  BY DEF Undisturbed, ReadHeaderFails, UndisturbedInv, Healthy
<1>3. ~DispatchStale(t)
  <2> SUFFICES ASSUME DispatchStale(t) PROVE FALSE
    OBVIOUS
  <2> DEFINE k == hdr[t].tag
  <2>1. k \in Tags /\ interest_table[k] \in Thread /\ ~Live(k)
    BY DEF DispatchStale, At, TypeOK, Msg
  <2>2. QED
    BY <2>1 DEF Live, UndisturbedInv, TableExact
<1>4. WriteBody(t) => Goto(t, "flush")
  BY PutHealthy DEF WriteBody, UndisturbedInv, Healthy
<1>5. QED
  BY <1>1, <1>2, <1>3, <1>4 DEF Act, Send, Receive

LEMMA StepHealthy ==
  ASSUME Undisturbed, TypeOK, UndisturbedInv, [Next]_vars PROVE Healthy'
<1>1. ~outErr /\ ~inErr /\ ~down
  BY DEF UndisturbedInv, Healthy
<1>2. CASE UNCHANGED vars
  BY <1>1, <1>2 DEF vars, outVars, inVars, serverVars, Healthy
<1>3. CASE Server
  <2>1. UNCHANGED <<outErr, inErr, down>>
    BY <1>3 DEF Server, Accept, Reply, outVars, inVars
  <2>2. QED
    BY <1>1, <2>1 DEF Healthy
<1>4. CASE ConnDown
  BY <1>4 DEF Undisturbed, ConnDown
<1>5. ASSUME NEW t \in Thread, Act(t) PROVE Healthy'
  <2>1. UNCHANGED <<inErr, down>>
    BY <1>5, UndisturbedSteps DEF Register, RegisterFail, WriteHeader, WriteBody, Flush,
       WaitForHeader, ReadHeader, DispatchOwn, DispatchOther, DispatchUnknown,
       ReadBody, Release, SpuriousWake, inVars, serverVars
  <2>2. ~outErr'
    <3>1. CASE WriteHeader(t) \/ WriteBody(t) \/ Flush(t)
      BY <1>1, <3>1, PutHealthy DEF WriteHeader, WriteBody, Flush, UndisturbedInv
    <3>2. CASE ~WriteHeader(t) /\ ~WriteBody(t) /\ ~Flush(t)
      <4>1. UNCHANGED outErr
        BY <1>5, <3>2, UndisturbedSteps DEF Register, RegisterFail,
           WaitForHeader, ReadHeader, DispatchOwn, DispatchOther, DispatchUnknown,
           ReadBody, Release, SpuriousWake, outVars
      <4>2. QED
        BY <1>1, <4>1
    <3>3. QED
      BY <3>1, <3>2
  <2>3. QED
    BY <1>1, <2>1, <2>2 DEF Healthy
<1>6. QED
  BY <1>2, <1>3, <1>4, <1>5 DEF Next, Act

(* Only a call that has registered is given a header, and it takes the     *)
(* header with it.                                                         *)
LEMMA StepClean ==
  ASSUME Undisturbed, TypeOK, UndisturbedInv, [Next]_vars PROVE StartsClean'
<1>0. StartsClean
  BY DEF UndisturbedInv
<1>1. CASE UNCHANGED vars \/ Server \/ ConnDown
  BY <1>0, <1>1 DEF StartsClean, Server, Accept, Reply, ConnDown, vars, threadVars
<1>2. ASSUME NEW t \in Thread, Act(t) PROVE StartsClean'
  <2> USE DEF threadVars, At
  <2>1. CASE Release(t)
    <3>1. \A u \in Thread : pc'[u] = "idle" => u = t \/ pc[u] = "idle"
      BY <2>1, ReleaseWakesOne DEF Registered, Waiting, EnRoute
    <3>2. got' = [got EXCEPT ![t] = NoMsg]
      BY <2>1 DEF Release
    <3>3. QED
      BY <1>0, <3>1, <3>2 DEF StartsClean, TypeOK
  <2>2. CASE DispatchOther(t)
    <3>1. PICK u \in Thread : u = interest_table[hdr[t].tag] /\ pc[u] # "idle"
      BY <2>2 DEF DispatchOther, Live, TypeOK, Msg, Registered, Waiting, EnRoute
    <3>2. \A w \in Thread : pc'[w] = "idle" => pc[w] = "idle" /\ w # u
      BY <2>2, <3>1 DEF DispatchOther, Signal, TypeOK
    <3>3. got' = [got EXCEPT ![u] = hdr[t]]
      BY <2>2, <3>1 DEF DispatchOther
    <3>4. QED
      BY <1>0, <3>1, <3>2, <3>3 DEF StartsClean, TypeOK
  <2>3. CASE DispatchOwn(t)
    BY <1>0, <2>3 DEF DispatchOwn, StartsClean, TypeOK
  <2>4. CASE RegisterFail(t)
    BY <1>0, <2>4 DEF RegisterFail, Return, StartsClean, TypeOK
  <2>5. CASE Register(t)
    BY <1>0, <2>5 DEF Register, StartsClean, TypeOK
  <2>6. CASE WriteHeader(t) \/ (WriteBody(t) /\ Goto(t, "flush")) \/ Flush(t) \/ SpuriousWake(t)
    BY <1>0, <2>6 DEF WriteHeader, Flush, SpuriousWake, Goto, StartsClean, TypeOK
  <2>7. CASE WaitForHeader(t)
    BY <1>0, <2>7 DEF WaitForHeader, WaitOrRead, Goto, StartsClean, TypeOK
  <2>8. CASE ReadHeader(t) \/ ReadBody(t) \/ DispatchUnknown(t)
    BY <1>0, <2>8 DEF ReadHeader, ReadBody, DispatchUnknown, StartsClean, TypeOK
  <2>9. QED
    BY <1>2, <2>1, <2>2, <2>3, <2>4, <2>5, <2>6, <2>7, <2>8, UndisturbedSteps
<1>3. QED
  BY <1>1, <1>2 DEF Next, Act

(* A step that changes neither the table nor who is registered, nor their  *)
(* tags, keeps the table exact.                                            *)
LEMMA TableKept ==
  ASSUME TableExact, interest_table' = interest_table,
         \A u \in Thread : pc'[u] \in Registered <=> pc[u] \in Registered,
         \A u \in Thread : pc[u] \in Registered => tag'[u] = tag[u]
  PROVE  TableExact'
  BY DEF TableExact

(* A thread that finds its header leaves the table, and only it does.      *)
LEMMA TableLeft ==
  ASSUME TypeOK, TableExact, NEW t \in Thread, pc[t] \in Registered,
         interest_table' = [interest_table EXCEPT ![tag[t]] = NoThread],
         pc' = [pc EXCEPT ![t] = "body"], tag' = tag
  PROVE  TableExact'
<1>1. tag[t] \in Tags /\ interest_table[tag[t]] = t
  BY DEF TypeOK, TableExact
<1>2. \A u \in Thread : pc'[u] \in Registered <=> u # t /\ pc[u] \in Registered
  BY DEF TypeOK, Registered, Waiting, EnRoute
<1>3. \A k \in Tags, u \in Thread : interest_table'[k] = u <=> k # tag[t] /\ interest_table[k] = u
  BY DEF TypeOK
<1>4. \A u \in Thread : pc[u] \in Registered /\ tag[u] = tag[t] => u = t
  BY <1>1 DEF TableExact, TypeOK
<1>5. QED
  BY <1>1, <1>2, <1>3, <1>4 DEF TableExact

LEMMA ThreadStepTable ==
  ASSUME Undisturbed, TypeOK, UndisturbedInv, NEW t \in Thread, Act(t)
  PROVE  TableExact'
<1> USE DEF threadVars, tableVars, Labels, Registered, Waiting, EnRoute,
            At, AddInterest, RemoveInterest, WaitOrRead
<1>0. TableExact
  BY DEF UndisturbedInv
<1>1. CASE Register(t)
  <2>1. \A u \in Thread : pc[u] # "idle" => tag[u] # next_tag
    BY <1>1 DEF Register, Undisturbed, InFlight
  <2>2. \A u \in Thread : interest_table[next_tag] # u
    <3>1. next_tag \in Tags
      BY DEF TypeOK
    <3>2. \A u \in Thread : interest_table[next_tag] = u => pc[u] \in Registered /\ tag[u] = next_tag
      BY <1>0, <3>1 DEF TableExact
    <3>3. QED
      BY <2>1, <3>2
  <2>3. \A k \in Tags : interest_table'[k] = IF k = next_tag THEN t ELSE interest_table[k]
    BY <1>1 DEF Register, TypeOK
  <2>4. \A u \in Thread : /\ pc'[u] = IF u = t THEN "registered" ELSE pc[u]
                          /\ tag'[u] = IF u = t THEN next_tag ELSE tag[u]
    BY <1>1 DEF Register, TypeOK
  <2>5. pc[t] = "idle"
    BY <1>1 DEF Register
  <2>6. QED
    BY <1>0, <2>1, <2>2, <2>3, <2>4, <2>5 DEF TableExact
<1>2. CASE WriteHeader(t)
  BY <1>0, <1>2, TableKept DEF WriteHeader, Goto, TypeOK
<1>3. CASE WriteBody(t) /\ Goto(t, "flush")
  BY <1>0, <1>3, TableKept DEF WriteBody, Goto, TypeOK
<1>4. CASE Flush(t)
  BY <1>0, <1>4, TableKept DEF Flush, Goto, TypeOK
<1>5. CASE WaitForHeader(t)
  <2>1. CASE got[t] # NoMsg
    BY <1>0, <1>5, <2>1, TableLeft DEF WaitForHeader, Goto
  <2>2. CASE got[t] = NoMsg
    BY <1>0, <1>5, <2>2, TableKept DEF WaitForHeader, Goto, TypeOK
  <2>3. QED
    BY <2>1, <2>2
<1>6. CASE ReadHeader(t)
  BY <1>0, <1>6, TableKept DEF ReadHeader, TypeOK
<1>7. CASE DispatchOwn(t)
  BY <1>0, <1>7, TableLeft DEF DispatchOwn
<1>8. CASE DispatchOther(t)
  BY <1>0, <1>8, TableKept DEF DispatchOther, Signal, TypeOK
<1>9. CASE ReadBody(t)
  BY <1>0, <1>9, TableKept DEF ReadBody, TypeOK
<1>10. CASE Release(t)
  <2>1. \A u \in Thread : pc'[u] \in Registered <=> pc[u] \in Registered
    BY <1>10, ReleaseWakesOne DEF Release
  <2>2. \A u \in Thread : pc[u] \in Registered => tag'[u] = tag[u]
    BY <1>10 DEF Release, TypeOK
  <2>3. QED
    BY <1>0, <1>10, <2>1, <2>2, TableKept DEF Release
<1>11. CASE SpuriousWake(t)
  BY <1>0, <1>11, TableKept DEF SpuriousWake, Goto, TypeOK
<1>12. CASE DispatchUnknown(t)
  BY <1>0, <1>12, TableKept DEF DispatchUnknown
<1>13. CASE RegisterFail(t)
  BY <1>0, <1>13, TableKept DEF RegisterFail, Return, TypeOK
<1>14. QED
  BY <1>1, <1>2, <1>3, <1>4, <1>5, <1>6, <1>7, <1>8, <1>9, <1>10, <1>11,
     <1>12, <1>13, UndisturbedSteps

(* A step that keeps every holder of the token a holder, and the token as  *)
(* it was, does not lose it.                                               *)
LEMMA HolderKept ==
  ASSUME TokenHasHolder, UNCHANGED some_thread_is_reading,
         \A u \in Thread : HoldsToken(u) => HoldsToken(u)'
  PROVE  TokenHasHolder'
  BY DEF TokenHasHolder

(* While the token is free, a step that keeps sleepers asleep or wakes     *)
(* them, and keeps whoever is on its way there, loses no wakeup.           *)
LEMMA WakeupKept ==
  ASSUME NoLostWakeup, UNCHANGED some_thread_is_reading,
         \A u \in Thread : pc'[u] = "wait" => pc[u] = "wait" \/ some_thread_is_reading,
         \A u \in Thread : pc[u] \in EnRoute => pc'[u] \in EnRoute \/ some_thread_is_reading
  PROVE  NoLostWakeup'
  BY DEF NoLostWakeup

LEMMA ThreadStepToken ==
  ASSUME Undisturbed, TypeOK, StreamMutex, UndisturbedInv, NEW t \in Thread, Act(t)
  PROVE  TokenHasHolder' /\ NoLostWakeup'
<1> USE DEF threadVars, tableVars, EnRoute, At, WaitOrRead, ClearToken
<1>0. TokenHasHolder /\ NoLostWakeup
  BY DEF UndisturbedInv
<1>1. CASE Register(t)
  BY <1>0, <1>1, HolderKept, WakeupKept DEF Register, HoldsToken, TypeOK
<1>2. CASE WriteHeader(t)
  BY <1>0, <1>2, HolderKept, WakeupKept DEF WriteHeader, Goto, HoldsToken, TypeOK
<1>3. CASE WriteBody(t) /\ Goto(t, "flush")
  BY <1>0, <1>3, HolderKept, WakeupKept DEF WriteBody, Goto, HoldsToken, TypeOK
<1>4. CASE Flush(t)
  BY <1>0, <1>4, HolderKept, WakeupKept DEF Flush, Goto, HoldsToken, TypeOK
<1>5. CASE WaitForHeader(t)
  <2>1. CASE got[t] # NoMsg
    <3>1. some_thread_is_reading /\ UNCHANGED some_thread_is_reading
      BY <1>5, <2>1 DEF WaitForHeader, StreamMutex, HoldsToken
    <3>2. HoldsToken(t)'
      BY <1>5, <2>1 DEF WaitForHeader, Goto, HoldsToken, TypeOK
    <3>3. QED
      BY <3>1, <3>2 DEF TokenHasHolder, NoLostWakeup
  <2>2. CASE got[t] = NoMsg /\ some_thread_is_reading
    <3>1. pc' = [pc EXCEPT ![t] = "wait"] /\ UNCHANGED got /\ UNCHANGED some_thread_is_reading
      BY <1>5, <2>2 DEF WaitForHeader, Goto, TypeOK
    <3>2. ~HoldsToken(t)
      BY <1>5, <2>2 DEF WaitForHeader, HoldsToken
    <3>3. \A u \in Thread : HoldsToken(u) => HoldsToken(u)'
      BY <3>1, <3>2 DEF HoldsToken, TypeOK
    <3>4. QED
      BY <1>0, <2>2, <3>1, <3>3, HolderKept DEF NoLostWakeup
  <2>3. CASE got[t] = NoMsg /\ ~some_thread_is_reading
    <3>1. pc' = [pc EXCEPT ![t] = "read"] /\ some_thread_is_reading'
      BY <1>5, <2>3 DEF WaitForHeader, Goto
    <3>2. HoldsToken(t)'
      BY <3>1 DEF HoldsToken, TypeOK
    <3>3. QED
      BY <3>1, <3>2 DEF TokenHasHolder, NoLostWakeup
  <2>4. QED
    BY <2>1, <2>2, <2>3 DEF TypeOK
<1>6. CASE ReadHeader(t)
  BY <1>0, <1>6, HolderKept, WakeupKept DEF ReadHeader, HoldsToken, TypeOK
<1>7. CASE DispatchOwn(t)
  BY <1>0, <1>7, HolderKept, WakeupKept DEF DispatchOwn, HoldsToken, TypeOK
<1>8. CASE DispatchOther(t)
  <2>1. PICK u \in Thread : u = interest_table[hdr[t].tag] /\ hdr[t] # NoMsg
    BY <1>8 DEF DispatchOther, Live, TypeOK, Msg
  <2>2. HoldsToken(u)'
    BY <1>8, <2>1 DEF DispatchOther, HoldsToken, TypeOK
  <2>3. some_thread_is_reading'
    BY <1>8 DEF DispatchOther, StreamMutex, HoldsToken
  <2>4. QED
    BY <2>1, <2>2, <2>3 DEF TokenHasHolder, NoLostWakeup
<1>9. CASE ReadBody(t)
  BY <1>0, <1>9, HolderKept, WakeupKept DEF ReadBody, HoldsToken, TypeOK
<1>10. CASE Release(t)
  <2>1. ~some_thread_is_reading'
    BY <1>10 DEF Release
  <2>2. \A k \in Occupied : Live(k)
    BY DEF Occupied, Live, UndisturbedInv, TableExact, TypeOK
  <2>3. ASSUME NEW w \in Thread, pc'[w] = "wait" PROVE \E u \in Thread : pc'[u] \in EnRoute
    <3>1. pc[w] = "wait"
      BY <1>10, <2>3, ReleaseWakesOne
    <3>2. tag[w] \in Occupied
      BY <3>1 DEF Occupied, UndisturbedInv, TableExact, TypeOK, Registered, Waiting
    <3>3. PICK k \in Occupied : pc'[interest_table[k]] # "wait"
      BY <1>10, <2>2, <3>2, ReleaseWakesOne
    <3> DEFINE u == interest_table[k]
    <3>4. u \in Thread /\ pc[u] \in Registered /\ u # t
      BY <1>10, <2>2, <3>3 DEF Live, Occupied, TypeOK, Release, Registered, Waiting
    <3>5. pc[u] \notin {"read", "dispatch"}
      BY <1>10, <3>4 DEF StreamMutex, HoldsToken, Release
    <3>6. pc'[u] \in EnRoute
      BY <1>10, <3>3, <3>4, <3>5, ReleaseWakesOne DEF Registered, Waiting
    <3>7. QED
      BY <3>4, <3>6
  <2>4. QED
    BY <2>1, <2>3 DEF TokenHasHolder, NoLostWakeup
<1>11. CASE SpuriousWake(t)
  BY <1>0, <1>11, HolderKept, WakeupKept DEF SpuriousWake, Goto, HoldsToken, TypeOK
<1>12. CASE DispatchUnknown(t)
  BY <1>0, <1>12, HolderKept, WakeupKept DEF DispatchUnknown, HoldsToken
<1>13. CASE RegisterFail(t)
  <2>1. ~HoldsToken(t)
    BY <1>13 DEF RegisterFail, HoldsToken, UndisturbedInv, StartsClean
  <2>2. \A u \in Thread : HoldsToken(u) => HoldsToken(u)'
    BY <1>13, <2>1 DEF RegisterFail, Return, HoldsToken, TypeOK
  <2>3. QED
    BY <1>0, <1>13, <2>2, HolderKept, WakeupKept DEF RegisterFail, Return, TypeOK
<1>14. QED
  BY <1>1, <1>2, <1>3, <1>4, <1>5, <1>6, <1>7, <1>8, <1>9, <1>10, <1>11,
     <1>12, <1>13, UndisturbedSteps

LEMMA NextUndisturbed ==
  ASSUME Undisturbed, TypeOK, StreamMutex, UndisturbedInv, [Next]_vars
  PROVE  UndisturbedInv'
<1>1. Healthy' /\ StartsClean'
  BY StepHealthy, StepClean
<1>2. CASE UNCHANGED vars \/ Server \/ ConnDown
  <2>1. UNCHANGED <<pc, tag, got, interest_table, some_thread_is_reading>>
    BY <1>2 DEF Server, Accept, Reply, ConnDown, vars, threadVars, tableVars
  <2>2. TableExact'
    BY <2>1 DEF UndisturbedInv, TableExact
  <2>3. TokenHasHolder'
    BY <2>1 DEF UndisturbedInv, HoldsToken, TokenHasHolder
  <2>4. NoLostWakeup'
    BY <2>1 DEF UndisturbedInv, NoLostWakeup
  <2>5. QED
    BY <1>1, <2>2, <2>3, <2>4 DEF UndisturbedInv
<1>3. ASSUME NEW t \in Thread, Act(t) PROVE UndisturbedInv'
  BY <1>1, <1>3, ThreadStepTable, ThreadStepToken DEF UndisturbedInv
<1>4. QED
  BY <1>2, <1>3 DEF Next, Act

(* While nothing fails, save that a call may find no memory to start, and  *)
(* fewer than NTags calls start during any one call: the table holds       *)
(* exactly the calls that await their header, the token always has a       *)
(* holder who will pass it on, and it is never free with only sleepers     *)
(* left.                                                                   *)
THEOREM NobodyForgotten ==
  ASSUME Undisturbed
  PROVE  Spec => [](TableExact /\ TokenHasHolder /\ NoLostWakeup)
<1>1. Init => UndisturbedInv
  BY DEF Init, UndisturbedInv, Healthy, StartsClean, TableExact, TokenHasHolder, NoLostWakeup,
         Registered, Waiting, EnRoute
<1>2. Init => StreamMutex
  BY DEF Init, StreamMutex, HoldsToken
<1>3. TypeOK /\ StreamMutex /\ UndisturbedInv /\ [Next]_vars => UndisturbedInv'
  BY NextUndisturbed
<1>4. UndisturbedInv => TableExact /\ TokenHasHolder /\ NoLostWakeup
  BY DEF UndisturbedInv
<1>5. QED
  BY <1>1, <1>2, <1>3, <1>4, InitTyped, NextTyped, NextMutex, PTL DEF Spec

(* In particular interest_table holds exactly the calls that await their   *)
(* header: hurd_ihash_locp_remove always removes the caller's own slot.    *)
THEOREM CallsTabled ==
  ASSUME Undisturbed PROVE Spec => []TableExact
<1>1. QED
  BY NobodyForgotten, PTL

(* And some_thread_is_reading is never left set by nobody.                 *)
THEOREM TokenKept ==
  ASSUME Undisturbed PROVE Spec => []TokenHasHolder
<1>1. QED
  BY NobodyForgotten, PTL

=============================================================================
