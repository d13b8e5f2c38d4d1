--------------------------- MODULE StartupProofs ---------------------------
(***************************************************************************)
(* Proofs about Startup, for any sources, options, addresses and limits:   *)
(* what is connected when clients can come, that a source of the           *)
(* documented form is taken apart into its parts, and that the options     *)
(* reported make the same configuration again.                             *)
(***************************************************************************)
EXTENDS Startup, WellFoundedInduction, SequenceTheorems, TLAPS

(***************************************************************************)
(* The connection.                                                         *)
(***************************************************************************)
Unconnected == {"options", "user", "nobody", "connect", "open file", "address"}
Connecting == {"connect file", "refused", "dup"}
Connected == {"bootstrap", "negotiate", "check in", "serving"}

(* While connecting, the descriptor being connected is the only one open.  *)
Descriptors ==
  /\ pc \in Unconnected \cup Connecting \cup Connected \cup {"exited"}
  /\ pc \in Unconnected => fds = {}
  /\ pc \in Connecting => fds = {fd}
  /\ pc \in Connected => p9_conn_in # p9_conn_out /\ fds = {p9_conn_in, p9_conn_out}
  /\ p9_max_message_size \in Nat
  /\ pc \in {"check in", "serving"} => p9_max_message_size >= 24
  /\ pc # "serving" => announced = FALSE

LEMMA NewFdIsNew == ASSUME NEW f, fds \subseteq {f} PROVE NewFd \notin fds
<1>1. \E n \in 3 .. 9 : n \notin fds /\ \A m \in 3 .. n - 1 : m \in fds
  <2>1. CASE 3 \notin fds
    BY <2>1
  <2>2. CASE 3 \in fds
    <3>1. 4 \notin fds /\ \A m \in 3 .. 4 - 1 : m = 3
      BY <2>2
    <3> QED
      BY <2>2, <3>1
  <2> QED
    BY <2>1, <2>2
<1> QED
  BY <1>1 DEF NewFd

LEMMA NextDescriptors ==
  ASSUME Descriptors, [Next]_vars
  PROVE  Descriptors'
<1> USE DEF Unconnected, Connecting, Connected
<1>1. CASE UNCHANGED <<pc, connection, p9_max_message_size, announced>>
  BY <1>1 DEF Descriptors, connection
<1>2. CASE ParseArg \/ Usage \/ LookupUser \/ lookup_nobody
  <2>1. pc \in {"options", "user", "nobody"} /\ UNCHANGED <<connection, p9_max_message_size, announced>>
    BY <1>2 DEF ParseArg, Usage, LookupUser, lookup_nobody
  <2>2. pc' \in {"user", "nobody", "connect", "exited"}
    BY <1>2 DEF ParseArg, Usage, LookupUser, lookup_nobody, Goto, Exit
  <2> QED
    BY <2>1, <2>2 DEF Descriptors, connection
<1>3. CASE Socket
  <2>1. pc = "connect" /\ fds = {}
    BY <1>3 DEF Socket, Descriptors
  <2> QED
    BY <1>3, <2>1 DEF Socket, Opened, Goto, Exit, StartupSame, Descriptors
<1>4. CASE ConnectFile
  BY <1>4 DEF ConnectFile, Close, Goto, Exit, StartupSame, Descriptors
<1>5. CASE OpenFile
  <2>1. pc = "open file" /\ fds = {}
    BY <1>5 DEF OpenFile, Descriptors
  <2> QED
    BY <1>5, <2>1 DEF OpenFile, Opened, Goto, Exit, StartupSame, Descriptors
<1>6. CASE Resolve
  BY <1>6 DEF Resolve, Goto, Exit, StartupSame, Descriptors
<1>7. CASE ConnectAddress
  <2>1. pc = "address" /\ fds = {}
    BY <1>7 DEF ConnectAddress, Descriptors
  <2> QED
    BY <1>7, <2>1 DEF ConnectAddress, Opened, Goto, Exit, StartupSame, Descriptors
<1>8. CASE NextAddress
  BY <1>8 DEF NextAddress, Close, Goto, Exit, StartupSame, Descriptors
<1>9. CASE Dup
  <2>1. pc = "dup" /\ fds = {fd}
    BY <1>9 DEF Dup, Descriptors
  <2>2. NewFd # fd
    BY <2>1, NewFdIsNew
  <2> QED
    BY <1>9, <2>1, <2>2 DEF Dup, Goto, Exit, StartupSame, Descriptors
<1>10. CASE Bootstrap
  BY <1>10 DEF Bootstrap, Goto, Exit, StartupSame, connection, Descriptors
<1>11. CASE Negotiate
  <2>1. CASE Exit("version")
    <3>1. pc = "negotiate" /\ UNCHANGED <<connection, announced>> /\ p9_max_message_size' \in Nat
      BY <1>11, BoundsAssumption DEF Negotiate, Descriptors
    <3> QED
      BY <2>1, <3>1 DEF Exit, connection, Descriptors
  <2>2. CASE \E msize \in Msizes : p9_max_message_size' = msize /\ TheirLimit(msize)
    <3>1. PICK msize \in Msizes : p9_max_message_size' = msize /\ TheirLimit(msize)
      BY <2>2
    <3>2. msize \in Nat
      BY BoundsAssumption
    <3>3. pc = "negotiate" /\ UNCHANGED <<connection, announced>>
      BY <1>11 DEF Negotiate
    <3>4. pc' = "exited" \/ (pc' = "check in" /\ ~(msize < 24))
      BY <3>1 DEF TheirLimit, Goto, Exit
    <3>5. announced' = FALSE
      BY <3>3 DEF Descriptors
    <3>6. p9_max_message_size' = msize
      BY <3>1
    <3>7. pc' = "check in" => p9_max_message_size' >= 24
      <4>1. CASE pc' = "exited"
        BY <4>1
      <4>2. CASE ~(msize < 24)
        <5>1. msize >= 24
          BY <3>2, <4>2
        <5> QED
          BY <3>6, <5>1
      <4> QED
        BY <3>4, <4>1, <4>2
    <3> QED
      BY <3>1, <3>2, <3>3, <3>4, <3>5, <3>6, <3>7 DEF connection, Descriptors
  <2> QED
    BY <1>11, <2>1, <2>2 DEF Negotiate
<1>12. CASE CheckIn
  <2>1. pc = "check in" /\ UNCHANGED <<connection, p9_max_message_size>>
    BY <1>12 DEF CheckIn
  <2>2. pc' = "serving" \/ (pc' = "exited" /\ UNCHANGED announced)
    BY <1>12 DEF CheckIn, Goto, Exit
  <2>3. pc' # "serving" => announced' = FALSE
    BY <2>1, <2>2 DEF Descriptors
  <2> QED
    BY <2>1, <2>2, <2>3 DEF connection, Descriptors
<1>13. CASE ParseOption \/ SetOption \/ GetOptions \/ Attach \/ Codec \/ UNCHANGED vars
  <2>1. UNCHANGED <<pc, connection, p9_max_message_size, announced>>
    BY <1>13 DEF ParseOption, SetOption, GetOptions, Attach, Codec, ServingSame, startupVars, vars
  <2> QED
    BY <1>1, <2>1
<1> QED
  BY <1>2, <1>3, <1>4, <1>5, <1>6, <1>7, <1>8, <1>9, <1>10, <1>11, <1>12, <1>13 DEF Next, Starting, Serving

(* Clients come only once the version and the limit are negotiated, the    *)
(* limit leaves room for a header, and the two descriptors of the          *)
(* connection are the only ones open, whatever addresses were tried before *)
(* (p9_startup, establish_connection).                                     *)
THEOREM ReadyForClients == Spec => []ReadyWhenAnnounced
<1>1. Init => Descriptors
  BY DEF Init, Descriptors, Unconnected, Connecting, Connected
<1>2. Descriptors => ReadyWhenAnnounced
  BY DEF Descriptors, ReadyWhenAnnounced, Connected
<1> QED
  BY <1>1, <1>2, NextDescriptors, PTL DEF Spec

(***************************************************************************)
(* The globals that options set.                                           *)
(***************************************************************************)
(* The texts that there are (no prover knows that a literal is a string).  *)
Literals == {"0755", "564", "0", "freed memory", "the running user", "@", ":", "/"}
Phrase == Seq(STRING \cup Literals)

Opt == [key : {"4", "6", "S", "a", "m", "r", "w", "D"}, val : Phrase]

Conf ==
  [source : Phrase, server_host : Phrase, server_port : Phrase, allow_ip : {4, 6, 46}, aname : Phrase,
   mask : Phrase \ {Overflow}, readonly : BOOLEAN, dump : BOOLEAN, user_name : Phrase, uid : Phrase,
   settrans : BOOLEAN, errno : {"ok", "ERANGE"}]

SameServer(c, d) == c.server_host = d.server_host /\ c.server_port = d.server_port
SameUser(c, d) == c.user_name = d.user_name /\ c.uid = d.uid
SameFlags(c, d) ==
  c.allow_ip = d.allow_ip /\ c.mask = d.mask /\ c.readonly = d.readonly /\ c.dump = d.dump

(* No argument has been parsed yet.                                        *)
Fresh(c) == c \in Conf /\ SameServer(c, Default) /\ SameUser(c, Default) /\ c.errno = "ok"

LEMMA Words ==
  /\ <<>> \in Phrase /\ <<"0755">> \in Phrase /\ <<"564">> \in Phrase /\ <<"0">> \in Phrase
  /\ Freed \in Phrase /\ Self \in Phrase /\ Text \subseteq Phrase
  /\ <<"0755">> # Overflow /\ <<>> # Overflow /\ Freed # <<>> /\ Self # <<>>
<1>1. ASSUME NEW S, NEW w \in S PROVE <<w>> \in Seq(S)
  OBVIOUS
<1>2. \A w \in STRING \cup Literals : <<w>> \in Phrase
  BY <1>1 DEF Phrase
<1>3. <<"0755">> \in Phrase /\ <<"564">> \in Phrase /\ <<"0">> \in Phrase /\ Freed \in Phrase /\ Self \in Phrase
  BY <1>2 DEF Literals, Freed, Self
<1>4. Text \subseteq Phrase
  BY SeqMonotonic DEF Text, Phrase
<1>5. <<"0755">> # Overflow
  BY DEF Overflow
<1>6. <<>> # Overflow /\ Freed # <<>> /\ Self # <<>>
  BY DEF Overflow, Freed, Self
<1>7. <<>> \in Phrase
  BY DEF Phrase
<1> QED
  BY <1>3, <1>4, <1>5, <1>6, <1>7

LEMMA DefaultFresh == Fresh(Default)
<1>1. <<>> \in Phrase /\ <<>> # Overflow /\ <<"564">> \in Phrase
  BY Words
<1>2. Default \in Conf
  BY <1>1 DEF Default, Conf
<1>3. Default.errno = "ok"
  BY DEF Default
<1> QED
  BY <1>2, <1>3 DEF Fresh, SameServer, SameUser

LEMMA CommonOpt ==
  ASSUME NEW c \in Conf, NEW o \in Opt, o.key \notin {"4", "6", "S"}
  PROVE  LET d == parse_common_opt(c, o)
         IN /\ d \in Conf /\ SameServer(d, c) /\ SameUser(d, c) /\ d.source = c.source
            /\ o.key # "a" => d.aname = c.aname
            /\ o.val # Overflow => d.errno = c.errno
<1> DEFINE d == parse_common_opt(c, o)
<1> USE DEF SameServer, SameUser, Conf, Opt
<1>1. CASE o.key = "a"
  <2>1. d = [c EXCEPT !.aname = o.val]
    BY <1>1 DEF parse_common_opt
  <2> QED
    BY <1>1, <2>1
<1>2. CASE o.key = "m" /\ o.val = <<>>
  <2>1. d = [c EXCEPT !.mask = <<"0755">>]
    BY <1>2, Words DEF parse_common_opt
  <2>2. <<"0755">> \in Phrase \ {Overflow}
    BY Words
  <2> QED
    BY <1>2, <2>1, <2>2
<1>3. CASE o.key = "m" /\ o.val = Overflow
  <2>1. d = [c EXCEPT !.mask = <<>>, !.errno = "ERANGE"]
    BY <1>3, Words DEF parse_common_opt
  <2>2. <<>> \in Phrase \ {Overflow}
    BY Words
  <2>3. d \in Conf
    BY <2>1, <2>2
  <2>4. SameServer(d, c) /\ SameUser(d, c) /\ d.source = c.source /\ d.aname = c.aname
    BY <2>1
  <2> QED
    BY <1>3, <2>3, <2>4
<1>4. CASE o.key = "m" /\ o.val \notin {<<>>, Overflow}
  <2>1. d = [c EXCEPT !.mask = o.val]
    BY <1>4 DEF parse_common_opt
  <2> QED
    BY <1>4, <2>1
<1>5. CASE o.key = "r"
  <2>1. d = [c EXCEPT !.readonly = TRUE]
    BY <1>5 DEF parse_common_opt
  <2> QED
    BY <1>5, <2>1
<1>6. CASE o.key = "w"
  <2>1. d = [c EXCEPT !.readonly = FALSE]
    BY <1>6 DEF parse_common_opt
  <2> QED
    BY <1>6, <2>1
<1>7. CASE o.key = "D"
  <2>1. d = [c EXCEPT !.dump = TRUE]
    BY <1>7 DEF parse_common_opt
  <2> QED
    BY <1>7, <2>1
<1> QED
  BY <1>1, <1>2, <1>3, <1>4, <1>5, <1>6, <1>7

LEMMA StartupOpt ==
  ASSUME NEW c \in Conf, NEW o \in Opt
  PROVE  LET d == parse_startup_opt(c, o)
         IN /\ d \in Conf /\ SameServer(d, c) /\ SameUser(d, c)
            /\ o.val # Overflow => d.errno = c.errno
<1> DEFINE d == parse_startup_opt(c, o)
<1>1. CASE o.key = "4"
  <2>1. d = [c EXCEPT !.allow_ip = 4]
    BY <1>1 DEF parse_startup_opt
  <2> QED
    BY <2>1 DEF Conf, SameServer, SameUser
<1>2. CASE o.key = "6"
  <2>1. d = [c EXCEPT !.allow_ip = 6]
    BY <1>2 DEF parse_startup_opt
  <2> QED
    BY <2>1 DEF Conf, SameServer, SameUser
<1>3. CASE o.key = "S"
  <2>1. d = [c EXCEPT !.settrans = TRUE]
    BY <1>3 DEF parse_startup_opt
  <2> QED
    BY <2>1 DEF Conf, SameServer, SameUser
<1>4. CASE o.key \notin {"4", "6", "S"}
  <2>1. d = parse_common_opt(c, o)
    BY <1>4 DEF parse_startup_opt
  <2> QED
    BY <1>4, <2>1, CommonOpt
<1> QED
  BY <1>1, <1>2, <1>3, <1>4

(***************************************************************************)
(* Phrases and the characters in them.                                       *)
(***************************************************************************)
Free(text, ch) == \A i \in 1 .. Len(text) : text[i] # ch

LEMMA ChrFree ==
  ASSUME NEW t \in Phrase, NEW ch, Free(t, ch)
  PROVE  Chr(t, ch) = Len(t) + 1 /\ ~Has(t, ch) /\ Before(t, ch) = t
<1>1. Chr(t, ch) = Len(t) + 1
  BY DEF Chr, Free, Phrase
<1>2. Len(t) \in Nat /\ SubSeq(t, 1, (Len(t) + 1) - 1) = t
  BY SubSeqFull DEF Phrase
<1> QED
  BY <1>1, <1>2 DEF Has, Before

LEMMA ChrFound ==
  ASSUME NEW a \in Phrase, NEW b \in Phrase, NEW ch, Free(a, ch), b # <<>>, b[1] = ch
  PROVE  /\ Chr(a \o b, ch) = Len(a) + 1 /\ Has(a \o b, ch)
         /\ Before(a \o b, ch) = a /\ From(a \o b, ch) = b /\ Past(a \o b, ch) = Tail(b)
<1> DEFINE t == a \o b
<1>1. /\ t \in Seq(STRING \cup Literals) /\ Len(t) = Len(a) + Len(b) /\ DOMAIN t = 1 .. Len(t)
      /\ Len(a) \in Nat /\ Len(b) \in Nat /\ Len(b) > 0
      /\ \A i \in 1 .. Len(a) + Len(b) : t[i] = IF i <= Len(a) THEN a[i] ELSE b[i - Len(a)]
  BY ConcatProperties, EmptySeq DEF Phrase
<1> HIDE DEF t
<1>2. Len(a) + 1 \in DOMAIN t /\ t[Len(a) + 1] = ch
  <2>1. Len(a) + 1 \in 1 .. Len(a) + Len(b) /\ ~(Len(a) + 1 <= Len(a)) /\ (Len(a) + 1) - Len(a) = 1
    BY <1>1
  <2> QED
    BY <1>1, <2>1
<1>3. \A j \in 1 .. Len(a) : t[j] # ch
  BY <1>1 DEF Free
<1>4. Chr(t, ch) = Len(a) + 1
  <2>1. PICK i \in DOMAIN t : i = Chr(t, ch) /\ t[i] = ch /\ \A j \in 1 .. i - 1 : t[j] # ch
    <3>1. \A j \in 1 .. (Len(a) + 1) - 1 : t[j] # ch
      BY <1>1, <1>3
    <3>2. \E i \in DOMAIN t : t[i] = ch /\ \A j \in 1 .. i - 1 : t[j] # ch
      BY <1>2, <3>1
    <3>3. Chr(t, ch) = CHOOSE i \in DOMAIN t : t[i] = ch /\ \A j \in 1 .. i - 1 : t[j] # ch
      BY <1>2 DEF Chr
    <3> QED
      BY <3>2, <3>3
  <2>2. i \in Nat /\ ~(i <= Len(a)) /\ ~(Len(a) + 1 <= i - 1)
    BY <1>1, <1>2, <1>3, <2>1
  <2> QED
    BY <1>1, <2>1, <2>2
<1>5. Before(t, ch) = a
  <2>1. SubSeq(t, 1, Len(a)) = a
    BY <1>1, SubSeqProperties, SeqEqual DEF Phrase
  <2> QED
    BY <1>1, <1>4, <2>1 DEF Before
<1>6. From(t, ch) = b
  <2>1. SubSeq(t, Len(a) + 1, Len(t)) = b
    BY <1>1, SubSeqProperties, SeqEqual DEF Phrase
  <2> QED
    BY <1>1, <1>4, <2>1 DEF From
<1>7. Past(t, ch) = Tail(b)
  <2>1. SubSeq(t, (Len(a) + 1) + 1, Len(t)) = Tail(b)
    BY <1>1, SubSeqProperties, SeqEqual, HeadTailProperties DEF Phrase
  <2> QED
    BY <1>1, <1>4, <2>1 DEF Past
<1>8. Has(t, ch)
  BY <1>1, <1>4 DEF Has
<1> QED
  BY <1>4, <1>5, <1>6, <1>7, <1>8 DEF t

LEMMA LeastExists ==
  ASSUME NEW T, T \subseteq Nat, T # {}
  PROVE  \E n \in T : \A m \in T : n <= m
<1> DEFINE less == {ss \in Nat \X Nat : ss[1] < ss[2]}
<1>1. IsWellFoundedOn(less, Nat)
  BY NatLessThanWellFounded DEF OpToRel
<1> HIDE DEF less
<1>2. PICK n \in T : \A m \in T : ~(<<m, n>> \in less)
  BY <1>1, WFMin
<1>3. ASSUME NEW m \in T PROVE n <= m
  <2>1. <<m, n>> \in Nat \X Nat /\ <<m, n>> \notin less
    BY <1>2
  <2>2. ~(m < n)
    BY <2>1 DEF less
  <2> QED
    BY <2>2
<1> QED
  BY <1>3

LEMMA ChrRange ==
  ASSUME NEW t \in Phrase, NEW ch
  PROVE  Chr(t, ch) \in 1 .. Len(t) + 1 /\ Len(t) \in Nat
<1>1. Len(t) \in Nat /\ DOMAIN t = 1 .. Len(t)
  BY DEF Phrase
<1>2. CASE ~ \E i \in DOMAIN t : t[i] = ch
  BY <1>1, <1>2 DEF Chr
<1>3. CASE \E i \in DOMAIN t : t[i] = ch
  <2> DEFINE S == {i \in DOMAIN t : t[i] = ch}
  <2>1. S \subseteq Nat /\ S # {}
    BY <1>1, <1>3
  <2>2. PICK i \in S : \A j \in S : i <= j
    BY <2>1, LeastExists
  <2>3. \A j \in 1 .. i - 1 : t[j] # ch
    BY <1>1, <2>1, <2>2
  <2>4. \E k \in DOMAIN t : t[k] = ch /\ \A j \in 1 .. k - 1 : t[j] # ch
    BY <2>2, <2>3
  <2>5. Chr(t, ch) = CHOOSE k \in DOMAIN t : t[k] = ch /\ \A j \in 1 .. k - 1 : t[j] # ch
    BY <1>3 DEF Chr
  <2>6. Chr(t, ch) \in DOMAIN t
    BY <2>4, <2>5
  <2> QED
    BY <1>1, <2>6
<1> QED
  BY <1>2, <1>3

LEMMA Pieces ==
  ASSUME NEW t \in Phrase, NEW ch
  PROVE  Before(t, ch) \in Phrase /\ From(t, ch) \in Phrase /\ Past(t, ch) \in Phrase
<1> DEFINE S == STRING \cup Literals
           n == Chr(t, ch)
<1>1. n \in Int /\ 1 <= n /\ n <= Len(t) + 1 /\ Len(t) \in Nat
  BY ChrRange
<1>2. \A i \in 1 .. Len(t) : t[i] \in S
  BY DEF Phrase
<1> HIDE DEF n, S
<1>3. SubSeq(t, 1, n - 1) \in Seq(S)
  <2>1. \A i \in 1 .. n - 1 : t[i] \in S
    BY <1>1, <1>2
  <2> QED
    BY <1>1, <2>1, SubSeqProperties
<1>4. SubSeq(t, n, Len(t)) \in Seq(S)
  <2>1. \A i \in n .. Len(t) : t[i] \in S
    BY <1>1, <1>2
  <2> QED
    BY <1>1, <2>1, SubSeqProperties
<1>5. SubSeq(t, n + 1, Len(t)) \in Seq(S)
  <2>1. \A i \in n + 1 .. Len(t) : t[i] \in S
    BY <1>1, <1>2
  <2> QED
    BY <1>1, <2>1, SubSeqProperties
<1> QED
  BY <1>3, <1>4, <1>5 DEF n, S, Before, From, Past, Phrase

(***************************************************************************)
(* The argument.                                                           *)
(***************************************************************************)
LEMMA UserParsed ==
  ASSUME NEW c \in Conf, NEW t \in Phrase
  PROVE  LET d == parse_user(c, t)
         IN /\ d \in Conf /\ SameServer(d, c) /\ SameFlags(d, c)
            /\ d.source = c.source /\ d.aname = c.aname /\ d.errno = c.errno
            /\ \A e \in Conf : SameUser(c, e) /\ c.errno = e.errno => SameUser(d, parse_user(e, t))
<1> DEFINE numeral == Len(t) = 1 /\ t[1] \in Numerals
           uid == IF numeral THEN t ELSE <<"0">>
           name(e) == IF e.errno # "ok" \/ ~numeral THEN t ELSE e.user_name
<1>1. uid \in Phrase
  BY Words
<1>2. ASSUME NEW e \in Conf
      PROVE  /\ parse_user(e, t) = [e EXCEPT !.uid = uid, !.user_name = name(e)]
             /\ name(e) \in Phrase
  BY DEF parse_user, Conf
<1>3. \A e \in Conf : SameUser(c, e) /\ c.errno = e.errno => name(e) = name(c)
  BY DEF SameUser
<1> HIDE DEF uid, name
<1>4. ASSUME NEW e \in Conf
      PROVE  /\ parse_user(e, t) \in Conf /\ SameServer(parse_user(e, t), e) /\ SameFlags(parse_user(e, t), e)
             /\ parse_user(e, t).source = e.source /\ parse_user(e, t).aname = e.aname
             /\ parse_user(e, t).errno = e.errno
             /\ parse_user(e, t).uid = uid /\ parse_user(e, t).user_name = name(e)
  <2>1. parse_user(e, t) = [e EXCEPT !.uid = uid, !.user_name = name(e)] /\ name(e) \in Phrase
    BY <1>2
  <2> QED
    <3> DEFINE d == [e EXCEPT !.uid = uid, !.user_name = name(e)]
    <3>1. d \in Conf
      BY <1>1, <2>1 DEF Conf
    <3>2. d.uid = uid /\ d.user_name = name(e) /\ SameServer(d, e)
      BY DEF Conf, SameServer
    <3>3. d.source = e.source /\ d.aname = e.aname /\ d.errno = e.errno /\ SameFlags(d, e)
      BY DEF Conf, SameFlags
    <3> QED
      BY <2>1, <3>1, <3>2, <3>3
<1> QED
  BY <1>3, <1>4 DEF SameUser

LEMMA ServerParsed ==
  ASSUME NEW c \in Conf, NEW t \in Phrase
  PROVE  LET d == ParseServer(c, t)
         IN /\ d \in Conf /\ SameUser(d, c) /\ SameFlags(d, c)
            /\ d.source = c.source /\ d.errno = c.errno
            /\ \A e \in Conf : SameServer(c, e) /\ (c.aname = e.aname \/ d.aname = e.aname) =>
                 SameServer(d, ParseServer(e, t)) /\ d.aname = ParseServer(e, t).aname
<1>1. CASE t # <<>> /\ t[1] = "/"
  <2>1. ASSUME NEW e \in Conf PROVE ParseServer(e, t) = [e EXCEPT !.server_host = t]
    BY <1>1 DEF ParseServer
  <2> QED
    BY <2>1 DEF Conf, SameServer, SameFlags, SameUser
<1>2. CASE ~(t # <<>> /\ t[1] = "/")
  <2> DEFINE colon == Has(t, ":")
             tail == IF colon THEN Past(t, ":") ELSE t
             host == IF colon THEN Before(t, ":") ELSE Before(t, "/")
             port(e) == IF colon THEN Before(tail, "/") ELSE e.server_port
             aname(e) == IF Has(tail, "/") THEN From(tail, "/") ELSE e.aname
  <2>1. tail \in Phrase /\ host \in Phrase
    BY Pieces
  <2>2. ASSUME NEW e \in Conf
        PROVE  ParseServer(e, t) = [e EXCEPT !.server_host = host, !.server_port = port(e), !.aname = aname(e)]
    BY <1>2 DEF ParseServer, Conf
  <2>3. ASSUME NEW e \in Conf
        PROVE  port(e) \in Phrase /\ aname(e) \in Phrase
    <3> HIDE DEF tail
    <3>1. Before(tail, "/") \in Phrase /\ From(tail, "/") \in Phrase
      BY <2>1, Pieces
    <3>2. e.server_port \in Phrase /\ e.aname \in Phrase
      BY DEF Conf
    <3> QED
      BY <3>1, <3>2
  <2>4. ASSUME NEW e \in Conf, c.server_port = e.server_port PROVE port(c) = port(e)
    BY <2>4
  <2>5. ASSUME NEW e \in Conf, c.aname = e.aname \/ aname(c) = e.aname PROVE aname(c) = aname(e)
    BY <2>5
  <2> HIDE DEF host, port, aname
  <2>6. ASSUME NEW e \in Conf
        PROVE  LET d == ParseServer(e, t)
               IN /\ d \in Conf /\ SameUser(d, e) /\ SameFlags(d, e) /\ d.source = e.source /\ d.errno = e.errno
                  /\ d.server_host = host /\ d.server_port = port(e) /\ d.aname = aname(e)
    <3>1. ParseServer(e, t) = [e EXCEPT !.server_host = host, !.server_port = port(e), !.aname = aname(e)]
      BY <2>2
    <3>2. port(e) \in Phrase /\ aname(e) \in Phrase
      BY <2>3
    <3> DEFINE d == [e EXCEPT !.server_host = host, !.server_port = port(e), !.aname = aname(e)]
    <3>3. d \in Conf
      BY <2>1, <3>2 DEF Conf
    <3>4. d.server_host = host /\ d.server_port = port(e) /\ d.aname = aname(e)
      BY DEF Conf
    <3>5. SameUser(d, e) /\ SameFlags(d, e) /\ d.source = e.source /\ d.errno = e.errno
      BY DEF Conf, SameUser, SameFlags
    <3> QED
      BY <3>1, <3>3, <3>4, <3>5
  <2> QED
    BY <2>4, <2>5, <2>6 DEF SameServer
<1> QED
  BY <1>1, <1>2

SameSource(c, d) == SameServer(c, d) /\ SameUser(c, d) /\ c.aname = d.aname

(* Of the globals, only the tree has a part in what an argument makes of   *)
(* them; and what it made of the tree is as good as what it was.           *)
LEMMA ArgumentParsed ==
  ASSUME NEW c, Fresh(c), NEW t \in Phrase
  PROVE  LET d == ParseSource(c, t)
         IN /\ d \in Conf /\ SameFlags(d, c) /\ d.source = t
            /\ \A e : Fresh(e) /\ (c.aname = e.aname \/ d.aname = e.aname) => SameSource(d, ParseSource(e, t))
<1> DEFINE with(e) == [e EXCEPT !.source = t]
           user(e) == IF Has(t, "@") THEN parse_user(with(e), Before(t, "@")) ELSE with(e)
           server == IF Has(t, "@") THEN Past(t, "@") ELSE t
<1>1. ASSUME NEW e \in Conf
      PROVE  /\ with(e) \in Conf /\ SameServer(with(e), e) /\ SameUser(with(e), e) /\ SameFlags(with(e), e)
             /\ with(e).source = t /\ with(e).aname = e.aname /\ with(e).errno = e.errno
  BY DEF Conf, SameServer, SameUser, SameFlags
<1>2. ASSUME NEW e PROVE ParseSource(e, t) = ParseServer(user(e), server)
  BY DEF ParseSource
<1>3. server \in Phrase /\ Before(t, "@") \in Phrase
  BY Pieces
<1> HIDE DEF with, server
<1>4. ASSUME NEW e \in Conf
      PROVE  /\ user(e) \in Conf /\ SameServer(user(e), e) /\ SameFlags(user(e), e)
             /\ user(e).source = t /\ user(e).aname = e.aname
  <2>1. CASE Has(t, "@")
    <3> DEFINE w == with(e)
               d == parse_user(w, Before(t, "@"))
    <3>1. /\ w \in Conf /\ SameServer(w, e) /\ SameFlags(w, e) /\ w.source = t /\ w.aname = e.aname
      BY <1>1
    <3>2. user(e) = d
      BY <2>1
    <3> HIDE DEF user, w
    <3>3. /\ d \in Conf /\ SameServer(d, w) /\ SameFlags(d, w) /\ d.source = w.source /\ d.aname = w.aname
      BY <1>3, <3>1, UserParsed
    <3> HIDE DEF d
    <3> QED
      BY <3>1, <3>2, <3>3 DEF SameServer, SameFlags
  <2>2. CASE ~Has(t, "@")
    BY <1>1, <2>2
  <2> QED
    BY <2>1, <2>2
<1>5. ASSUME NEW e \in Conf, SameUser(c, e), c.errno = e.errno
      PROVE  SameUser(user(c), user(e))
  <2>1. c \in Conf
    BY DEF Fresh
  <2>2. SameUser(with(c), with(e)) /\ with(c).errno = with(e).errno /\ with(c) \in Conf /\ with(e) \in Conf
    BY <1>1, <1>5, <2>1 DEF SameUser
  <2>3. CASE Has(t, "@")
    BY <1>3, <2>2, <2>3, UserParsed
  <2>4. CASE ~Has(t, "@")
    BY <2>2, <2>4
  <2> QED
    BY <2>3, <2>4
<1> HIDE DEF user
<1>6. c \in Conf
  BY DEF Fresh
<1>7. ParseSource(c, t) \in Conf /\ SameFlags(ParseSource(c, t), c) /\ ParseSource(c, t).source = t
  <2> DEFINE u == user(c)
             d == ParseServer(u, server)
  <2>1. u \in Conf /\ SameFlags(u, c) /\ u.source = t
    BY <1>4, <1>6
  <2> HIDE DEF u
  <2>2. d \in Conf /\ SameFlags(d, u) /\ d.source = u.source
    BY <1>3, <2>1, ServerParsed
  <2>3. ParseSource(c, t) = d
    BY <1>2 DEF u
  <2> HIDE DEF d
  <2> QED
    BY <2>1, <2>2, <2>3 DEF SameFlags
<1>8. ASSUME NEW e, Fresh(e), c.aname = e.aname \/ ParseSource(c, t).aname = e.aname
      PROVE  SameSource(ParseSource(c, t), ParseSource(e, t))
  <2>1. e \in Conf /\ SameUser(c, e) /\ SameServer(c, e) /\ c.errno = e.errno
    BY <1>8 DEF Fresh, SameUser, SameServer
  <2>2. SameUser(user(c), user(e))
    BY <1>5, <2>1
  <2>3. user(c) \in Conf /\ user(e) \in Conf /\ user(c).aname = c.aname /\ user(e).aname = e.aname
        /\ SameServer(user(c), user(e))
    BY <1>4, <1>6, <2>1 DEF SameServer
  <2>4. /\ SameServer(ParseServer(user(c), server), ParseServer(user(e), server))
        /\ ParseServer(user(c), server).aname = ParseServer(user(e), server).aname
    <3>1. ParseServer(user(c), server) = ParseSource(c, t)
      BY <1>2
    <3>2. user(c).aname = user(e).aname \/ ParseServer(user(c), server).aname = user(e).aname
      BY <1>8, <2>3, <3>1
    <3> QED
      BY <1>3, <2>3, <3>2, ServerParsed
  <2>5. SameUser(ParseServer(user(c), server), user(c)) /\ SameUser(ParseServer(user(e), server), user(e))
    BY <1>3, <2>3, ServerParsed
  <2> QED
    BY <1>2, <2>2, <2>4, <2>5 DEF SameSource, SameUser
<1> QED
  BY <1>7, <1>8

(***************************************************************************)
(* The options of a command line.                                          *)
(***************************************************************************)
(* parsed[n] is what the first n options make of the globals.              *)
Parsing(parsed, opts) ==
  parsed = [n \in 0 .. Len(opts) |-> IF n = 0 THEN Default ELSE parse_startup_opt(parsed[n - 1], opts[n])]

LEMMA Induction ==
  ASSUME NEW b \in Nat, NEW T, 0 \in T, \A n \in 0 .. b : n # b /\ n \in T => n + 1 \in T
  PROVE  \A n \in 0 .. b : n \in T
<1> DEFINE F == {n \in 0 .. b : n \notin T}
<1> SUFFICES ASSUME F # {} PROVE FALSE
  OBVIOUS
<1>1. PICK n \in F : \A m \in F : n <= m
  <2>1. F \subseteq Nat
    OBVIOUS
  <2> QED
    BY <2>1, LeastExists
<1>2. n \in 0 .. b /\ n \notin T /\ n # 0
  OBVIOUS
<1>3. n - 1 \in 0 .. b /\ n - 1 # b /\ (n - 1) + 1 = n
  BY <1>2
<1>4. n - 1 \in T
  <2>1. n - 1 \in F => n <= n - 1
    BY <1>1
  <2> QED
    BY <1>2, <1>3, <2>1
<1> QED
  BY <1>2, <1>3, <1>4

LEMMA ParsingExists ==
  ASSUME NEW opts \in Seq(Opt)
  PROVE  \E parsed : Parsing(parsed, opts) /\ ParseOptions(opts) = parsed[Len(opts)]
<1> DEFINE next(c, n) == parse_startup_opt(c, opts[n])
           R(f, m) == f = [n \in 0 .. m |-> IF n = 0 THEN Default ELSE next(f[n - 1], n)]
           T == {m \in 0 .. Len(opts) : \E f : R(f, m)}
<1>1. Len(opts) \in Nat
  OBVIOUS
<1> HIDE DEF next
<1>2. 0 \in T
  <2>1. R([n \in 0 .. 0 |-> Default], 0)
    OBVIOUS
  <2>2. \E f : R(f, 0)
    BY <2>1
  <2> QED
    BY <1>1, <2>2
<1>3. ASSUME NEW m \in 0 .. Len(opts), m # Len(opts), m \in T
      PROVE  m + 1 \in T
  <2>1. PICK f : R(f, m)
    BY <1>3
  <2>2. m + 1 \in 0 .. Len(opts) /\ m \in Nat
    BY <1>1, <1>3
  <2> DEFINE h == [n \in 0 .. m + 1 |-> IF n = m + 1 THEN next(f[m], m + 1) ELSE f[n]]
  <2>3. \A n \in 0 .. m : h[n] = f[n]
    BY <2>2
  <2>4. h[m + 1] = next(f[m], m + 1)
    BY <2>2
  <2>5. h = [n \in 0 .. m + 1 |-> h[n]]
    OBVIOUS
  <2> HIDE DEF h
  <2>6. \A n \in 0 .. m + 1 : h[n] = IF n = 0 THEN Default ELSE next(h[n - 1], n)
    <3> SUFFICES ASSUME NEW n \in 0 .. m + 1
                 PROVE  h[n] = IF n = 0 THEN Default ELSE next(h[n - 1], n)
      OBVIOUS
    <3>1. CASE n = m + 1
      <4>1. n # 0 /\ n - 1 = m /\ m \in 0 .. m
        BY <2>2, <3>1
      <4> QED
        BY <2>3, <2>4, <3>1, <4>1
    <3>2. CASE n \in 0 .. m
      <4>1. f[n] = IF n = 0 THEN Default ELSE next(f[n - 1], n)
        BY <2>1, <3>2
      <4>2. n # 0 => n - 1 \in 0 .. m
        BY <2>2, <3>2
      <4> QED
        BY <2>3, <3>2, <4>1, <4>2
    <3> QED
      BY <2>2, <3>1, <3>2
  <2>7. R(h, m + 1)
    BY <2>5, <2>6
  <2> QED
    BY <2>2, <2>7
<1> DEFINE parsed == CHOOSE f : R(f, Len(opts))
<1>4. R(parsed, Len(opts))
  <2> HIDE DEF T
  <2>1. \A m \in 0 .. Len(opts) : m \in T
    BY <1>1, <1>2, <1>3, Induction
  <2>2. Len(opts) \in T
    BY <1>1, <2>1
  <2> QED
    BY <2>2 DEF T
<1>5. ParseOptions(opts) = parsed[Len(opts)]
  BY DEF ParseOptions, next
<1> HIDE DEF parsed
<1>6. Parsing(parsed, opts)
  BY <1>4 DEF Parsing, next
<1> QED
  BY <1>5, <1>6

LEMMA ParseNone == ParseOptions(<<>>) = Default
<1>1. <<>> \in Seq(Opt) /\ Len(<<>>) = 0
  OBVIOUS
<1>2. PICK parsed : Parsing(parsed, <<>>) /\ ParseOptions(<<>>) = parsed[Len(<<>>)]
  BY <1>1, ParsingExists
<1>3. parsed[0] = Default
  BY <1>1, <1>2 DEF Parsing
<1> QED
  BY <1>1, <1>2, <1>3

LEMMA ParseOneMore ==
  ASSUME NEW opts \in Seq(Opt), NEW o \in Opt
  PROVE  ParseOptions(Append(opts, o)) = parse_startup_opt(ParseOptions(opts), o)
<1> DEFINE more == Append(opts, o)
           len == Len(opts)
<1>1. more \in Seq(Opt) /\ Len(more) = len + 1 /\ len \in Nat /\ more[len + 1] = o
      /\ \A n \in 1 .. len : more[n] = opts[n]
  BY AppendProperties
<1> HIDE DEF more, len
<1>2. PICK f : Parsing(f, opts) /\ ParseOptions(opts) = f[len]
  BY ParsingExists DEF len
<1>3. PICK g : Parsing(g, more) /\ ParseOptions(more) = g[len + 1]
  BY <1>1, ParsingExists
<1>4. /\ f[0] = Default /\ g[0] = Default
      /\ \A n \in 1 .. len : f[n] = parse_startup_opt(f[n - 1], opts[n])
      /\ \A n \in 1 .. len + 1 : g[n] = parse_startup_opt(g[n - 1], more[n])
  <2>1. f = [n \in 0 .. len |-> IF n = 0 THEN Default ELSE parse_startup_opt(f[n - 1], opts[n])]
    BY <1>2 DEF Parsing, len
  <2>2. g = [n \in 0 .. len + 1 |-> IF n = 0 THEN Default ELSE parse_startup_opt(g[n - 1], more[n])]
    BY <1>1, <1>3 DEF Parsing
  <2>3. 0 \in 0 .. len /\ 0 \in 0 .. len + 1 /\ (\A n \in 1 .. len : n \in 0 .. len /\ n # 0)
        /\ \A n \in 1 .. len + 1 : n \in 0 .. len + 1 /\ n # 0
    BY <1>1
  <2>4. \A n \in 0 .. len : f[n] = IF n = 0 THEN Default ELSE parse_startup_opt(f[n - 1], opts[n])
    BY <2>1
  <2>5. \A n \in 0 .. len + 1 : g[n] = IF n = 0 THEN Default ELSE parse_startup_opt(g[n - 1], more[n])
    BY <2>2
  <2> QED
    BY <2>3, <2>4, <2>5
<1> DEFINE T == {n \in 0 .. len : f[n] = g[n]}
<1>5. \A n \in 0 .. len : n \in T
  <2>1. 0 \in T
    BY <1>1, <1>4
  <2>2. ASSUME NEW n \in 0 .. len, n # len, n \in T PROVE n + 1 \in T
    <3>1. n + 1 \in 1 .. len /\ n + 1 \in 1 .. len + 1 /\ n + 1 \in 0 .. len /\ (n + 1) - 1 = n
      BY <1>1, <2>2
    <3>2. f[n + 1] = parse_startup_opt(f[n], opts[n + 1]) /\ g[n + 1] = parse_startup_opt(g[n], more[n + 1])
      BY <1>4, <3>1
    <3> QED
      BY <1>1, <2>2, <3>1, <3>2
  <2> HIDE DEF T
  <2> QED
    BY <1>1, <2>1, <2>2, Induction
<1>6. f[len] = g[len]
  BY <1>1, <1>5
<1>7. g[len + 1] = parse_startup_opt(g[len], o)
  <2>1. len + 1 \in 1 .. len + 1 /\ (len + 1) - 1 = len
    BY <1>1
  <2> QED
    BY <1>1, <1>4, <2>1
<1> QED
  BY <1>2, <1>3, <1>6, <1>7 DEF more

LEMMA ParseGiven ==
  ASSUME NEW opts \in Seq(Opt), NEW condition \in BOOLEAN, NEW o \in Opt
  PROVE  /\ opts \o Given(condition, o.key, o.val) \in Seq(Opt)
         /\ ParseOptions(opts \o Given(condition, o.key, o.val)) =
              IF condition THEN parse_startup_opt(ParseOptions(opts), o) ELSE ParseOptions(opts)
<1>1. CASE condition
  <2>1. Given(condition, o.key, o.val) = <<o>>
    BY <1>1 DEF Given, Opt
  <2>2. opts \o <<o>> = Append(opts, o) /\ Append(opts, o) \in Seq(Opt)
    BY AppendIsConcat, AppendProperties
  <2> QED
    BY <1>1, <2>1, <2>2, ParseOneMore
<1>2. CASE ~condition
  <2>1. Given(condition, o.key, o.val) = <<>> /\ opts \o <<>> = opts
    BY <1>2, ConcatEmptySeq DEF Given
  <2> QED
    BY <1>2, <2>1
<1> QED
  BY <1>1, <1>2

(* How far the globals are set from options.                               *)
SetTo(c, ip, mask, readonly, dump, aname) ==
  /\ Fresh(c) /\ c.allow_ip = ip /\ c.mask = mask /\ c.readonly = readonly /\ c.dump = dump /\ c.aname = aname

LEMMA OneSet ==
  ASSUME NEW c, Fresh(c)
  PROVE  /\ \A v \in {4, 6, 46} : SetTo([c EXCEPT !.allow_ip = v], v, c.mask, c.readonly, c.dump, c.aname)
         /\ \A v \in Phrase \ {Overflow} : SetTo([c EXCEPT !.mask = v], c.allow_ip, v, c.readonly, c.dump, c.aname)
         /\ SetTo([c EXCEPT !.readonly = TRUE], c.allow_ip, c.mask, TRUE, c.dump, c.aname)
         /\ SetTo([c EXCEPT !.dump = TRUE], c.allow_ip, c.mask, c.readonly, TRUE, c.aname)
         /\ \A v \in Phrase : SetTo([c EXCEPT !.aname = v], c.allow_ip, c.mask, c.readonly, c.dump, v)
<1>1. c \in Conf /\ TRUE \in BOOLEAN
  BY DEF Fresh
<1>2. ASSUME NEW v \in {4, 6, 46} PROVE SetTo([c EXCEPT !.allow_ip = v], v, c.mask, c.readonly, c.dump, c.aname)
  <2> DEFINE d == [c EXCEPT !.allow_ip = v]
  <2>1. d \in Conf /\ d.allow_ip = v
    BY <1>1, <1>2 DEF Conf
  <2>2. d.mask = c.mask /\ d.readonly = c.readonly /\ d.dump = c.dump /\ d.aname = c.aname
    BY <1>1 DEF Conf
  <2>3. SameServer(d, c) /\ SameUser(d, c) /\ d.errno = c.errno
    BY <1>1 DEF Conf, SameServer, SameUser
  <2> HIDE DEF d
  <2>4. SetTo(d, v, c.mask, c.readonly, c.dump, c.aname)
    BY <2>1, <2>2, <2>3 DEF SetTo, Fresh, SameServer, SameUser
  <2> QED
    BY <2>4 DEF d
<1>3. ASSUME NEW v \in Phrase \ {Overflow} PROVE SetTo([c EXCEPT !.mask = v], c.allow_ip, v, c.readonly, c.dump, c.aname)
  <2> DEFINE d == [c EXCEPT !.mask = v]
  <2>1. d \in Conf /\ d.mask = v
    BY <1>1, <1>3 DEF Conf
  <2>2. d.allow_ip = c.allow_ip /\ d.readonly = c.readonly /\ d.dump = c.dump /\ d.aname = c.aname
    BY <1>1 DEF Conf
  <2>3. SameServer(d, c) /\ SameUser(d, c) /\ d.errno = c.errno
    BY <1>1 DEF Conf, SameServer, SameUser
  <2> HIDE DEF d
  <2>4. SetTo(d, c.allow_ip, v, c.readonly, c.dump, c.aname)
    BY <2>1, <2>2, <2>3 DEF SetTo, Fresh, SameServer, SameUser
  <2> QED
    BY <2>4 DEF d
<1>4. SetTo([c EXCEPT !.readonly = TRUE], c.allow_ip, c.mask, TRUE, c.dump, c.aname)
  <2> DEFINE d == [c EXCEPT !.readonly = TRUE]
  <2>1. d \in Conf /\ d.readonly = TRUE
    BY <1>1 DEF Conf
  <2>2. d.allow_ip = c.allow_ip /\ d.mask = c.mask /\ d.dump = c.dump /\ d.aname = c.aname
    BY <1>1 DEF Conf
  <2>3. SameServer(d, c) /\ SameUser(d, c) /\ d.errno = c.errno
    BY <1>1 DEF Conf, SameServer, SameUser
  <2> HIDE DEF d
  <2>4. SetTo(d, c.allow_ip, c.mask, TRUE, c.dump, c.aname)
    BY <2>1, <2>2, <2>3 DEF SetTo, Fresh, SameServer, SameUser
  <2> QED
    BY <2>4 DEF d
<1>5. SetTo([c EXCEPT !.dump = TRUE], c.allow_ip, c.mask, c.readonly, TRUE, c.aname)
  <2> DEFINE d == [c EXCEPT !.dump = TRUE]
  <2>1. d \in Conf /\ d.dump = TRUE
    BY <1>1 DEF Conf
  <2>2. d.allow_ip = c.allow_ip /\ d.mask = c.mask /\ d.readonly = c.readonly /\ d.aname = c.aname
    BY <1>1 DEF Conf
  <2>3. SameServer(d, c) /\ SameUser(d, c) /\ d.errno = c.errno
    BY <1>1 DEF Conf, SameServer, SameUser
  <2> HIDE DEF d
  <2>4. SetTo(d, c.allow_ip, c.mask, c.readonly, TRUE, c.aname)
    BY <2>1, <2>2, <2>3 DEF SetTo, Fresh, SameServer, SameUser
  <2> QED
    BY <2>4 DEF d
<1>6. ASSUME NEW v \in Phrase PROVE SetTo([c EXCEPT !.aname = v], c.allow_ip, c.mask, c.readonly, c.dump, v)
  <2> DEFINE d == [c EXCEPT !.aname = v]
  <2>1. d \in Conf /\ d.aname = v
    BY <1>1, <1>6 DEF Conf
  <2>2. d.allow_ip = c.allow_ip /\ d.mask = c.mask /\ d.readonly = c.readonly /\ d.dump = c.dump
    BY <1>1 DEF Conf
  <2>3. SameServer(d, c) /\ SameUser(d, c) /\ d.errno = c.errno
    BY <1>1 DEF Conf, SameServer, SameUser
  <2> HIDE DEF d
  <2>4. SetTo(d, c.allow_ip, c.mask, c.readonly, c.dump, v)
    BY <2>1, <2>2, <2>3 DEF SetTo, Fresh, SameServer, SameUser
  <2> QED
    BY <2>4 DEF d
<1> QED
  BY <1>2, <1>3, <1>4, <1>5, <1>6

LEMMA ReportedParsed ==
  ASSUME NEW c \in Conf
  PROVE  LET d == ParseOptions(p9_append_args(c))
         IN Fresh(d) /\ SameFlags(d, c) /\ d.aname = c.aname
<1> DEFINE opt(key, val) == [key |-> key, val |-> val]
           s1 == <<>> \o Given(c.allow_ip = 4, "4", <<>>)
           s2 == s1 \o Given(c.allow_ip = 6, "6", <<>>)
           s3 == s2 \o Given(c.mask # <<>>, "m", c.mask)
           s4 == s3 \o Given(c.readonly, "r", <<>>)
           s5 == s4 \o Given(c.dump, "D", <<>>)
           s6 == s5 \o Given(c.aname # <<>>, "a", c.aname)
           c1 == ParseOptions(s1)
           c2 == ParseOptions(s2)
           c3 == ParseOptions(s3)
           c4 == ParseOptions(s4)
           c5 == ParseOptions(s5)
           c6 == ParseOptions(s6)
<1>1. /\ c.allow_ip \in {4, 6, 46} /\ c.mask \in Phrase /\ c.mask # Overflow /\ c.aname \in Phrase
      /\ c.readonly \in BOOLEAN /\ c.dump \in BOOLEAN /\ <<>> \in Phrase
  BY Words DEF Conf
<1>2. ASSUME NEW key \in {"4", "6", "S", "a", "m", "r", "w", "D"}, NEW val \in Phrase
      PROVE  opt(key, val) \in Opt /\ opt(key, val).key = key /\ opt(key, val).val = val
  BY DEF Opt
<1>3. ASSUME NEW s \in Seq(Opt), NEW condition \in BOOLEAN,
             NEW key \in {"4", "6", "S", "a", "m", "r", "w", "D"}, NEW val \in Phrase
      PROVE  /\ s \o Given(condition, key, val) \in Seq(Opt)
             /\ ParseOptions(s \o Given(condition, key, val)) =
                  IF condition THEN parse_startup_opt(ParseOptions(s), opt(key, val)) ELSE ParseOptions(s)
  <2>1. opt(key, val) \in Opt /\ opt(key, val).key = key /\ opt(key, val).val = val
    BY <1>2
  <2> HIDE DEF opt
  <2> QED
    BY <2>1, ParseGiven
<1>4. ASSUME NEW val
      PROVE  /\ parse_startup_opt(Default, opt("4", val)) = [Default EXCEPT !.allow_ip = 4]
             /\ \A p : /\ parse_startup_opt(p, opt("6", val)) = [p EXCEPT !.allow_ip = 6]
                       /\ parse_startup_opt(p, opt("r", val)) = [p EXCEPT !.readonly = TRUE]
                       /\ parse_startup_opt(p, opt("D", val)) = [p EXCEPT !.dump = TRUE]
                       /\ parse_startup_opt(p, opt("a", val)) = [p EXCEPT !.aname = val]
  BY DEF parse_startup_opt, parse_common_opt
<1>5. ASSUME NEW p, NEW val, val # <<>>, val # Overflow
      PROVE  parse_startup_opt(p, opt("m", val)) = [p EXCEPT !.mask = val]
  BY <1>5 DEF parse_startup_opt, parse_common_opt
<1> HIDE DEF opt
<1>6. SetTo(Default, 46, <<>>, FALSE, FALSE, <<>>)
  BY DefaultFresh DEF SetTo, Default
<1>7. s1 \in Seq(Opt) /\ SetTo(c1, IF c.allow_ip = 4 THEN 4 ELSE 46, <<>>, FALSE, FALSE, <<>>)
  <2>1. <<>> \in Seq(Opt)
    OBVIOUS
  <2>2. s1 \in Seq(Opt) /\ c1 = IF c.allow_ip = 4 THEN parse_startup_opt(Default, opt("4", <<>>)) ELSE Default
    BY <1>1, <1>3, <2>1, ParseNone
  <2> HIDE DEF s1
  <2>3. c1 = IF c.allow_ip = 4 THEN [Default EXCEPT !.allow_ip = 4] ELSE Default
    BY <1>4, <2>2
  <2> QED
    <3>1. CASE c.allow_ip = 4
      <4> DEFINE d == [Default EXCEPT !.allow_ip = 4]
      <4>1. Fresh(Default) /\ 4 \in {4, 6, 46}
        BY <1>1, <1>6 DEF SetTo
      <4>2. SetTo(d, 4, Default.mask, Default.readonly, Default.dump, Default.aname)
        BY <4>1, OneSet, Zenon
      <4>3. c1 = d
        BY <2>3, <3>1
      <4> HIDE DEF d
      <4> QED
        BY <3>1, <1>6, <2>2, <4>2, <4>3 DEF SetTo
    <3>2. CASE c.allow_ip # 4
      BY <1>6, <2>2, <2>3, <3>2
    <3> QED
      BY <3>1, <3>2
<1> HIDE DEF s1
<1>8. s2 \in Seq(Opt) /\ SetTo(c2, c.allow_ip, <<>>, FALSE, FALSE, <<>>)
  <2>1. s2 \in Seq(Opt) /\ c2 = IF c.allow_ip = 6 THEN parse_startup_opt(c1, opt("6", <<>>)) ELSE c1
    <3>1. ASSUME NEW condition \in BOOLEAN
          PROVE  /\ s1 \o Given(condition, "6", <<>>) \in Seq(Opt)
                 /\ ParseOptions(s1 \o Given(condition, "6", <<>>)) =
                      IF condition THEN parse_startup_opt(c1, opt("6", <<>>)) ELSE c1
      BY <1>1, <1>3, <1>7
    <3>2. (c.allow_ip = 6) \in BOOLEAN
      OBVIOUS
    <3> QED
      BY <3>1, <3>2, Zenon
  <2> HIDE DEF s2
  <2>2. c2 = IF c.allow_ip = 6 THEN [c1 EXCEPT !.allow_ip = 6] ELSE c1
    <3>1. parse_startup_opt(c1, opt("6", <<>>)) = [c1 EXCEPT !.allow_ip = 6]
      BY <1>4, Zenon
    <3> QED
      BY <2>1, <3>1
  <2> QED
    <3>1. CASE c.allow_ip = 6
      <4> DEFINE d == [c1 EXCEPT !.allow_ip = 6]
      <4>1. Fresh(c1) /\ 6 \in {4, 6, 46}
        BY <1>1, <1>7 DEF SetTo
      <4>2. SetTo(d, 6, c1.mask, c1.readonly, c1.dump, c1.aname)
        BY <4>1, OneSet, Zenon
      <4>3. c2 = d
        BY <2>2, <3>1
      <4> HIDE DEF d
      <4> QED
        BY <3>1, <1>7, <2>1, <4>2, <4>3 DEF SetTo
    <3>2. CASE c.allow_ip # 6
      <4>1. c.allow_ip = IF c.allow_ip = 4 THEN 4 ELSE 46
        BY <1>1, <3>2
      <4>2. c2 = c1
        BY <2>2, <3>2
      <4> QED
        BY <1>7, <2>1, <4>1, <4>2
    <3> QED
      BY <3>1, <3>2
<1> HIDE DEF s2
<1>9. s3 \in Seq(Opt) /\ SetTo(c3, c.allow_ip, c.mask, FALSE, FALSE, <<>>)
  <2>1. s3 \in Seq(Opt) /\ c3 = IF c.mask # <<>> THEN parse_startup_opt(c2, opt("m", c.mask)) ELSE c2
    <3>1. c.mask \in Phrase /\ (c.mask # <<>>) \in BOOLEAN
      BY <1>1
    <3> QED
      BY <1>3, <1>8, <3>1
  <2> HIDE DEF s3
  <2>2. c3 = IF c.mask # <<>> THEN [c2 EXCEPT !.mask = c.mask] ELSE c2
    BY <1>1, <1>5, <2>1
  <2> QED
    <3>1. CASE c.mask # <<>>
      <4> DEFINE d == [c2 EXCEPT !.mask = c.mask]
      <4>1. Fresh(c2) /\ c.mask \in Phrase \ {Overflow}
        BY <1>1, <1>8 DEF SetTo
      <4>2. SetTo(d, c2.allow_ip, c.mask, c2.readonly, c2.dump, c2.aname)
        BY <4>1, OneSet, Zenon
      <4>3. c3 = d
        BY <2>2, <3>1
      <4> HIDE DEF d
      <4> QED
        BY <3>1, <1>8, <2>1, <4>2, <4>3 DEF SetTo
    <3>2. CASE c.mask = <<>>
      BY <1>8, <2>1, <2>2, <3>2
    <3> QED
      BY <3>1, <3>2
<1> HIDE DEF s3
<1>10. s4 \in Seq(Opt) /\ SetTo(c4, c.allow_ip, c.mask, c.readonly, FALSE, <<>>)
  <2>1. s4 \in Seq(Opt) /\ c4 = IF c.readonly THEN parse_startup_opt(c3, opt("r", <<>>)) ELSE c3
    <3>1. ASSUME NEW condition \in BOOLEAN
          PROVE  /\ s3 \o Given(condition, "r", <<>>) \in Seq(Opt)
                 /\ ParseOptions(s3 \o Given(condition, "r", <<>>)) =
                      IF condition THEN parse_startup_opt(c3, opt("r", <<>>)) ELSE c3
      BY <1>1, <1>3, <1>9
    <3> QED
      BY <1>1, <3>1, Zenon
  <2> HIDE DEF s4
  <2>2. c4 = IF c.readonly THEN [c3 EXCEPT !.readonly = TRUE] ELSE c3
    BY <1>4, <2>1
  <2> QED
    <3>1. CASE c.readonly = TRUE
      <4> DEFINE d == [c3 EXCEPT !.readonly = TRUE]
      <4>1. Fresh(c3)
        BY <1>1, <1>9 DEF SetTo
      <4>2. SetTo(d, c3.allow_ip, c3.mask, TRUE, c3.dump, c3.aname)
        BY <4>1, OneSet, Zenon
      <4>3. c4 = d
        BY <2>2, <3>1
      <4> HIDE DEF d
      <4> QED
        BY <3>1, <1>9, <2>1, <4>2, <4>3 DEF SetTo
    <3>2. CASE c.readonly = FALSE
      BY <1>9, <2>1, <2>2, <3>2
    <3> QED
      BY <1>1, <3>1, <3>2
<1> HIDE DEF s4
<1>11. s5 \in Seq(Opt) /\ SetTo(c5, c.allow_ip, c.mask, c.readonly, c.dump, <<>>)
  <2>1. s5 \in Seq(Opt) /\ c5 = IF c.dump THEN parse_startup_opt(c4, opt("D", <<>>)) ELSE c4
    <3>1. ASSUME NEW condition \in BOOLEAN
          PROVE  /\ s4 \o Given(condition, "D", <<>>) \in Seq(Opt)
                 /\ ParseOptions(s4 \o Given(condition, "D", <<>>)) =
                      IF condition THEN parse_startup_opt(c4, opt("D", <<>>)) ELSE c4
      BY <1>1, <1>3, <1>10
    <3> QED
      BY <1>1, <3>1, Zenon
  <2> HIDE DEF s5
  <2>2. c5 = IF c.dump THEN [c4 EXCEPT !.dump = TRUE] ELSE c4
    BY <1>4, <2>1
  <2> QED
    <3>1. CASE c.dump = TRUE
      <4> DEFINE d == [c4 EXCEPT !.dump = TRUE]
      <4>1. Fresh(c4)
        BY <1>1, <1>10 DEF SetTo
      <4>2. SetTo(d, c4.allow_ip, c4.mask, c4.readonly, TRUE, c4.aname)
        BY <4>1, OneSet, Zenon
      <4>3. c5 = d
        BY <2>2, <3>1
      <4> HIDE DEF d
      <4> QED
        BY <3>1, <1>10, <2>1, <4>2, <4>3 DEF SetTo
    <3>2. CASE c.dump = FALSE
      BY <1>10, <2>1, <2>2, <3>2
    <3> QED
      BY <1>1, <3>1, <3>2
<1> HIDE DEF s5
<1>12. SetTo(c6, c.allow_ip, c.mask, c.readonly, c.dump, c.aname)
  <2>1. c6 = IF c.aname # <<>> THEN parse_startup_opt(c5, opt("a", c.aname)) ELSE c5
    BY <1>1, <1>3, <1>11
  <2> HIDE DEF s6
  <2>2. c6 = IF c.aname # <<>> THEN [c5 EXCEPT !.aname = c.aname] ELSE c5
    <3>1. parse_startup_opt(c5, opt("a", c.aname)) = [c5 EXCEPT !.aname = c.aname]
      BY <1>4, Zenon
    <3> QED
      BY <2>1, <3>1
  <2> QED
    <3>1. CASE c.aname # <<>>
      <4> DEFINE d == [c5 EXCEPT !.aname = c.aname]
      <4>1. Fresh(c5) /\ c.aname \in Phrase
        BY <1>1, <1>11 DEF SetTo
      <4>2. SetTo(d, c5.allow_ip, c5.mask, c5.readonly, c5.dump, c.aname)
        BY <4>1, OneSet, Zenon
      <4>3. c6 = d
        BY <2>2, <3>1
      <4> HIDE DEF d
      <4> QED
        BY <3>1, <1>11, <2>1, <4>2, <4>3 DEF SetTo
    <3>2. CASE c.aname = <<>>
      BY <1>11, <2>1, <2>2, <3>2
    <3> QED
      BY <3>1, <3>2
<1>13. p9_append_args(c) = s6
  <2>1. \A g \in Seq(Opt) : <<>> \o g = g
    BY ConcatEmptySeq
  <2>2. Given(c.allow_ip = 4, "4", <<>>) \in Seq(Opt)
    BY <1>1, <1>2 DEF Given, opt
  <2> QED
    BY <2>1, <2>2 DEF p9_append_args, AppendFlags, s1, s2, s3, s4, s5
<1> QED
  BY <1>12, <1>13 DEF SetTo, SameFlags

(***************************************************************************)
(* The options reported.                                                   *)
(***************************************************************************)
(* The user is the running one if none is given.                           *)
Resolved(c) == IF Unset(c) THEN lookup_current_user(c) ELSE c

LEMMA ResolvedUser ==
  ASSUME NEW c \in Conf
  PROVE  LET d == Resolved(c)
         IN /\ d \in Conf /\ SameServer(d, c) /\ SameFlags(d, c) /\ d.source = c.source /\ d.aname = c.aname
            /\ \A e \in Conf : SameUser(c, e) => SameUser(d, Resolved(e))
<1>1. ASSUME NEW e \in Conf, Unset(e)
      PROVE  /\ Resolved(e) \in Conf /\ SameServer(Resolved(e), e) /\ SameFlags(Resolved(e), e)
             /\ Resolved(e).source = e.source /\ Resolved(e).aname = e.aname
             /\ Resolved(e).uid = Self /\ Resolved(e).user_name = Freed
  <2>1. Resolved(e) = [e EXCEPT !.uid = Self, !.user_name = Freed]
    BY <1>1 DEF Resolved, lookup_current_user
  <2>2. Self \in Phrase /\ Freed \in Phrase
    BY Words
  <2> QED
    BY <2>1, <2>2 DEF Conf, SameServer, SameFlags
<1>2. ASSUME NEW e \in Conf, ~Unset(e) PROVE Resolved(e) = e
  BY <1>2 DEF Resolved
<1>3. \A e \in Conf : SameUser(c, e) => (Unset(c) <=> Unset(e))
  BY DEF SameUser, Unset
<1>4. CASE Unset(c)
  BY <1>1, <1>3, <1>4 DEF SameUser
<1>5. CASE ~Unset(c)
  BY <1>2, <1>3, <1>5 DEF SameServer, SameFlags
<1> QED
  BY <1>4, <1>5

(* The configuration is what the source makes of fresh globals: as it is   *)
(* once the argument is parsed, and once the user is known too.            *)
FromSource(c) == c \in Conf /\ \E e : Fresh(e) /\ SameSource(c, ParseSource(e, c.source))
Settled(c) == c \in Conf /\ \E e : Fresh(e) /\ SameSource(c, Resolved(ParseSource(e, c.source)))

LEMMA SettledReproduced ==
  ASSUME NEW c, Settled(c)
  PROVE  Configuration(c) = Configuration(Resolved(argp_parse(p9_append_args(c), c.source)))
<1> DEFINE q == ParseOptions(p9_append_args(c))
           d == ParseSource(q, c.source)
<1>1. c \in Conf /\ c.source \in Phrase
  BY DEF Settled, Conf
<1>2. PICK e : Fresh(e) /\ SameSource(c, Resolved(ParseSource(e, c.source)))
  BY DEF Settled
<1> DEFINE f == ParseSource(e, c.source)
<1>3. Fresh(q) /\ SameFlags(q, c) /\ q.aname = c.aname
  BY <1>1, ReportedParsed
<1>4. argp_parse(p9_append_args(c), c.source) = d
  BY DEF argp_parse
<1> HIDE DEF q
<1>5. f \in Conf /\ \A x : Fresh(x) /\ f.aname = x.aname => SameSource(f, ParseSource(x, c.source))
  BY <1>1, <1>2, ArgumentParsed
<1>6. d \in Conf /\ SameFlags(d, q)
  BY <1>1, <1>3, ArgumentParsed
<1>7. Resolved(f).aname = f.aname /\ SameServer(Resolved(f), f)
      /\ \A x \in Conf : SameUser(f, x) => SameUser(Resolved(f), Resolved(x))
  BY <1>5, ResolvedUser
<1>8. SameServer(Resolved(d), d) /\ SameFlags(Resolved(d), d) /\ Resolved(d).aname = d.aname
  BY <1>6, ResolvedUser
<1>9. SameSource(f, d)
  <2>1. f.aname = q.aname
    BY <1>2, <1>3, <1>7 DEF SameSource
  <2> HIDE DEF f
  <2> QED
    BY <1>3, <1>5, <2>1
<1>10. SameSource(c, Resolved(f))
  BY <1>2
<1> HIDE DEF d, f
<1>11. SameServer(c, Resolved(d)) /\ SameUser(c, Resolved(d)) /\ c.aname = Resolved(d).aname
  BY <1>6, <1>7, <1>8, <1>9, <1>10 DEF SameSource, SameServer, SameUser
<1>12. SameFlags(c, Resolved(d))
  BY <1>3, <1>6, <1>8 DEF SameFlags
<1> QED
  BY <1>4, <1>11, <1>12 DEF Configuration, SameServer, SameUser, SameFlags

LEMMA ArgumentIsPhrase ==
  ASSUME NEW p \in Sources
  PROVE  /\ p.user \in Phrase /\ p.host \in Phrase /\ p.port \in Phrase /\ p.aname \in Phrase
         /\ <<"@">> \in Phrase /\ <<":">> \in Phrase /\ TextOf(p) \in Phrase
<1>1. p.user \in Phrase /\ p.host \in Phrase /\ p.port \in Phrase /\ p.aname \in Phrase
  BY OptionsAssumption, Words
<1>2. <<"@">> \in Phrase /\ <<":">> \in Phrase /\ <<>> \in Phrase
  BY DEF Phrase, Literals
<1>3. \A a, b \in Phrase : a \o b \in Phrase
  BY ConcatProperties DEF Phrase
<1>4. (IF p.user # <<>> THEN p.user \o <<"@">> ELSE <<>>) \in Phrase
      /\ (IF p.port # <<>> THEN <<":">> \o p.port ELSE <<>>) \in Phrase
  BY <1>1, <1>2, <1>3
<1> QED
  BY <1>1, <1>2, <1>3, <1>4 DEF TextOf

(* What the options of a command line and of set_options are required to   *)
(* be: numbers that fit, for strtoul leaves errno set for parse_user; and  *)
(* no --aname while serving, whose text is in a message that is freed, and *)
(* which a tree in the source would override (the TODO at main.c:272).     *)
NoOverflow == \A o \in StartupOptions : o.val # Overflow
NoNewTree == \A o \in RuntimeOptions : o.key # "a"

Reproducible ==
  /\ pc \in Unconnected \cup Connecting \cup Connected \cup {"exited"}
  /\ pc = "options" => Fresh(conf)
  /\ pc = "user" => FromSource(conf)
  /\ pc \notin {"options", "user", "exited"} => Settled(conf)
  /\ reported # <<>> => \E c : Settled(c) /\ reported = <<p9_append_args(c), c>>

LEMMA NextReproducible ==
  ASSUME NoOverflow, NoNewTree, Reproducible, [Next]_vars
  PROVE  Reproducible'
<1>1. CASE ParseOption
  <2>1. pc = "options" /\ pc' = pc /\ UNCHANGED reported
    BY <1>1 DEF ParseOption, answers
  <2>2. PICK o \in StartupOptions : conf' = parse_startup_opt(conf, o)
    BY <1>1 DEF ParseOption
  <2>3. o \in Opt /\ o.val # Overflow
    BY OptionsAssumption, Words DEF Opt, NoOverflow
  <2>4. Fresh(conf)
    BY <2>1 DEF Reproducible
  <2>5. Fresh(conf')
    <3>1. conf \in Conf
      BY <2>4 DEF Fresh
    <3>2. conf' \in Conf /\ SameServer(conf', conf) /\ SameUser(conf', conf) /\ conf'.errno = conf.errno
      BY <2>2, <2>3, <3>1, StartupOpt
    <3> QED
      BY <2>4, <3>2 DEF Fresh, SameServer, SameUser
  <2> QED
    BY <2>1, <2>5 DEF Reproducible
<1>2. CASE ParseArg
  <2>1. pc = "options" /\ pc' = "user" /\ UNCHANGED reported
    BY <1>2 DEF ParseArg, Goto, answers
  <2>2. PICK p \in Sources : conf' = ParseSource(conf, TextOf(p))
    BY <1>2 DEF ParseArg
  <2>3. Fresh(conf) /\ TextOf(p) \in Phrase
    BY <2>1, ArgumentIsPhrase DEF Reproducible
  <2>4. conf' \in Conf /\ conf'.source = TextOf(p)
    BY <2>2, <2>3, ArgumentParsed
  <2>5. SameSource(conf', ParseSource(conf, conf'.source))
    BY <2>2, <2>4 DEF SameSource, SameServer, SameUser
  <2>6. FromSource(conf')
    BY <2>3, <2>4, <2>5 DEF FromSource
  <2> QED
    BY <2>1, <2>6 DEF Reproducible, Unconnected
<1>3. CASE LookupUser
  <2>1. pc = "user" /\ UNCHANGED reported
    BY <1>3 DEF LookupUser, answers
  <2>2. pc' = "exited" \/ (pc' = "nobody" /\ conf' = Resolved(conf))
    BY <1>3 DEF LookupUser, Goto, Exit, Resolved
  <2>3. CASE pc' = "exited"
    BY <2>1, <2>3 DEF Reproducible
  <2>4. CASE pc' = "nobody" /\ conf' = Resolved(conf)
    <3>1. FromSource(conf)
      BY <2>1 DEF Reproducible
    <3>2. PICK e : Fresh(e) /\ SameSource(conf, ParseSource(e, conf.source))
      BY <3>1 DEF FromSource
    <3> DEFINE f == ParseSource(e, conf.source)
    <3>3. conf \in Conf /\ conf.source \in Phrase
      BY <3>1 DEF FromSource, Conf
    <3>4. f \in Conf
      BY <3>2, <3>3, ArgumentParsed
    <3>5. SameServer(conf, f) /\ SameUser(conf, f) /\ conf.aname = f.aname
      BY <3>2 DEF SameSource
    <3> HIDE DEF f
    <3>6. /\ Resolved(conf) \in Conf /\ SameServer(Resolved(conf), conf) /\ Resolved(conf).source = conf.source
          /\ Resolved(conf).aname = conf.aname /\ SameUser(Resolved(conf), Resolved(f))
      BY <3>3, <3>4, <3>5, ResolvedUser
    <3>7. SameServer(Resolved(f), f) /\ Resolved(f).aname = f.aname
      BY <3>4, ResolvedUser
    <3>8. SameSource(Resolved(conf), Resolved(f))
      BY <3>5, <3>6, <3>7 DEF SameSource, SameServer
    <3>9. Settled(Resolved(conf))
      BY <3>2, <3>6, <3>8 DEF Settled, f
    <3> QED
      BY <2>1, <2>4, <3>9 DEF Reproducible, Unconnected
  <2> QED
    BY <2>2, <2>3, <2>4
<1>4. CASE SetOption
  <2>1. pc = "serving" /\ pc' = pc /\ UNCHANGED reported
    BY <1>4 DEF SetOption, ServingSame, answers
  <2>2. PICK o \in RuntimeOptions : conf' = parse_common_opt(conf, o)
    BY <1>4 DEF SetOption, NoNewTree
  <2>3. o \in Opt /\ o.key \notin {"4", "6", "S"} /\ o.key # "a"
    BY OptionsAssumption, Words DEF Opt, NoNewTree
  <2>4. Settled(conf)
    BY <2>1 DEF Reproducible
  <2>5. conf \in Conf
    BY <2>4 DEF Settled
  <2>6. /\ conf' \in Conf /\ SameServer(conf', conf) /\ SameUser(conf', conf) /\ conf'.source = conf.source
        /\ conf'.aname = conf.aname
    BY <2>2, <2>3, <2>5, CommonOpt
  <2>7. Settled(conf')
    <3>1. PICK e : Fresh(e) /\ SameSource(conf, Resolved(ParseSource(e, conf.source)))
      BY <2>4 DEF Settled
    <3>2. SameSource(conf', Resolved(ParseSource(e, conf'.source)))
      BY <2>6, <3>1 DEF SameSource, SameServer, SameUser
    <3> QED
      BY <2>6, <3>1, <3>2 DEF Settled
  <2> QED
    BY <2>1, <2>7 DEF Reproducible
<1>5. CASE GetOptions
  <2>1. pc = "serving" /\ pc' = pc /\ UNCHANGED conf /\ reported' = <<p9_append_args(conf), conf>>
    BY <1>5 DEF GetOptions, ServingSame
  <2>2. Settled(conf)
    BY <2>1 DEF Reproducible
  <2> QED
    BY <2>1, <2>2 DEF Reproducible
<1>6. CASE /\ UNCHANGED <<conf, reported>>
           /\ \/ UNCHANGED pc
              \/ pc' = "exited"
              \/ pc \notin {"options", "user", "exited"} /\ pc' \in Unconnected \cup Connecting \cup Connected
                 /\ pc' \notin {"options", "user"}
  BY <1>6 DEF Reproducible
<1>7. CASE Usage \/ lookup_nobody \/ Socket \/ ConnectFile \/ OpenFile \/ Resolve \/ ConnectAddress
             \/ NextAddress \/ Dup \/ Bootstrap \/ Negotiate \/ CheckIn
  <2>1. UNCHANGED <<conf, reported>>
    BY <1>7 DEF Usage, lookup_nobody, Socket, ConnectFile, OpenFile, Resolve, ConnectAddress, NextAddress, Dup,
                Bootstrap, Negotiate, CheckIn, StartupSame, options, answers
  <2>2. \/ pc' = "exited"
        \/ /\ pc \notin {"options", "user", "exited"}
           /\ pc' \in {"connect", "connect file", "open file", "address", "refused", "dup", "bootstrap",
                       "negotiate", "check in", "serving"}
    BY <1>7 DEF Usage, lookup_nobody, Socket, ConnectFile, OpenFile, Resolve, ConnectAddress, NextAddress, Dup,
                Bootstrap, Negotiate, TheirLimit, CheckIn, Goto, Exit
  <2> QED
    BY <1>6, <2>1, <2>2 DEF Unconnected, Connecting, Connected
<1>8. CASE Attach \/ Codec \/ UNCHANGED vars
  <2>1. UNCHANGED <<pc, conf, reported>>
    BY <1>8 DEF Attach, Codec, ServingSame, startupVars, options, answers, vars
  <2> QED
    BY <1>6, <2>1
<1> QED
  BY <1>1, <1>2, <1>3, <1>4, <1>5, <1>7, <1>8 DEF Next, Starting, Serving

(* Whatever the options and the source at start, and however set_options   *)
(* changed them since: started with the options that get_options reports,  *)
(* the translator has the same configuration (p9_append_args and           *)
(* parse_startup_opt).                                                     *)
THEOREM ConfigurationReported ==
  ASSUME NoOverflow, NoNewTree
  PROVE  Spec => []OptionsReproduce
<1>1. Init => Reproducible
  BY DefaultFresh DEF Init, Reproducible, Unconnected
<1>2. Reproducible /\ [Next]_vars => Reproducible'
  BY NextReproducible
<1>3. Reproducible => OptionsReproduce
  <2> SUFFICES ASSUME Reproducible, reported # <<>>
               PROVE  LET c == argp_parse(reported[1], reported[2].source)
                      IN Configuration(reported[2]) = Configuration(Resolved(c))
    BY DEF OptionsReproduce, Resolved
  <2>1. PICK c : Settled(c) /\ reported = <<p9_append_args(c), c>>
    BY DEF Reproducible
  <2>2. reported[1] = p9_append_args(c) /\ reported[2] = c
    BY <2>1
  <2> QED
    BY <2>1, <2>2, SettledReproduced
<1> QED
  BY <1>1, <1>2, <1>3, PTL DEF Spec

(***************************************************************************)
(* The parts of a source.                                                  *)
(***************************************************************************)
(* [USER@]HOST[:PORT][/ANAME], where HOST is a path, and the whole, or is  *)
(* without colons (as an IPv6 address is not).                             *)
Documented(p) ==
  /\ p.host # <<>>
  /\ \/ p.host[1] = "/" /\ p.port = <<>> /\ p.aname = <<>>
     \/ Free(p.host, ":") /\ Free(p.host, "/")
  /\ Free(p.port, "/")
  /\ p.aname # <<>> => p.aname[1] = "/"
  /\ p.port = <<>> => Free(p.aname, ":")
  /\ IF p.user = <<>> THEN Free(p.host, "@") /\ Free(p.port, "@") /\ Free(p.aname, "@") ELSE Free(p.user, "@")

ServerText(p) == p.host \o ((IF p.port # <<>> THEN <<":">> \o p.port ELSE <<>>) \o p.aname)

LEMMA PhraseConcat ==
  ASSUME NEW a \in Phrase, NEW b \in Phrase
  PROVE  /\ a \o b \in Phrase
         /\ a \o <<>> = a /\ <<>> \o a = a
         /\ a # <<>> => (a \o b # <<>> /\ (a \o b)[1] = a[1])
<1>1. /\ a \o b \in Phrase /\ Len(a \o b) = Len(a) + Len(b) /\ Len(a) \in Nat /\ Len(b) \in Nat
      /\ \A i \in 1 .. Len(a) + Len(b) : (a \o b)[i] = IF i <= Len(a) THEN a[i] ELSE b[i - Len(a)]
  BY ConcatProperties DEF Phrase
<1>2. a \o <<>> = a /\ <<>> \o a = a
  BY ConcatEmptySeq DEF Phrase
<1>3. a # <<>> => (a \o b # <<>> /\ (a \o b)[1] = a[1])
  <2> SUFFICES ASSUME a # <<>> PROVE a \o b # <<>> /\ (a \o b)[1] = a[1]
    OBVIOUS
  <2>1. Len(a) > 0
    BY EmptySeq DEF Phrase
  <2>2. 1 \in 1 .. Len(a) + Len(b) /\ 1 <= Len(a) /\ Len(a \o b) # 0
    BY <1>1, <2>1
  <2> QED
    BY <1>1, <2>2
<1> QED
  BY <1>1, <1>2, <1>3

LEMMA PhraseAssociates == \A a, b, c \in Phrase : (a \o b) \o c = a \o (b \o c)
BY ConcatAssociative DEF Phrase

LEMMA PhraseFree ==
  ASSUME NEW a \in Phrase, NEW b \in Phrase, NEW ch, Free(a, ch), Free(b, ch)
  PROVE  Free(a \o b, ch)
<1>1. /\ Len(a \o b) = Len(a) + Len(b) /\ Len(a) \in Nat /\ Len(b) \in Nat
      /\ \A i \in 1 .. Len(a) + Len(b) : (a \o b)[i] = IF i <= Len(a) THEN a[i] ELSE b[i - Len(a)]
  BY ConcatProperties DEF Phrase
<1> SUFFICES ASSUME NEW i \in 1 .. Len(a) + Len(b) PROVE (a \o b)[i] # ch
  BY <1>1 DEF Free
<1>2. CASE i <= Len(a)
  BY <1>1, <1>2 DEF Free
<1>3. CASE ~(i <= Len(a))
  <2>1. i - Len(a) \in 1 .. Len(b)
    BY <1>1, <1>3
  <2> QED
    BY <1>1, <1>3, <2>1 DEF Free
<1> QED
  BY <1>2, <1>3

(* The tail of a character and a text.                                     *)
LEMMA PhraseTail ==
  ASSUME NEW t \in Phrase, NEW ch \in Literals
  PROVE  LET s == <<ch>> \o t IN s \in Phrase /\ s # <<>> /\ s[1] = ch /\ Tail(s) = t
<1>1. <<ch>> \in Phrase
  BY DEF Phrase
<1>2. <<ch>> \o t \in Phrase /\ <<ch>> \o t # <<>> /\ (<<ch>> \o t)[1] = ch
  BY <1>1, PhraseConcat
<1>3. Tail(<<ch>> \o t) = t
  <2> DEFINE s == <<ch>> \o t
  <2>1. Len(s) = 1 + Len(t) /\ Len(t) \in Nat /\ \A i \in 1 .. 1 + Len(t) : s[i] = IF i <= 1 THEN ch ELSE t[i - 1]
    BY <1>1, ConcatProperties DEF Phrase
  <2>2. Tail(s) \in Phrase /\ Len(Tail(s)) = Len(s) - 1 /\ \A i \in 1 .. Len(Tail(s)) : Tail(s)[i] = s[i + 1]
    BY <1>2, HeadTailProperties DEF Phrase
  <2> HIDE DEF s
  <2>3. Len(Tail(s)) = Len(t) /\ \A i \in 1 .. Len(t) : Tail(s)[i] = t[i]
    <3>1. \A i \in 1 .. Len(t) : i + 1 \in 1 .. 1 + Len(t) /\ ~(i + 1 <= 1) /\ (i + 1) - 1 = i
      BY <2>1
    <3> QED
      BY <2>1, <2>2, <3>1
  <2> QED
    BY <2>2, <2>3, SeqEqual DEF Phrase, s
<1> QED
  BY <1>2, <1>3

(* strchrnul finds a text that begins with the character, or the end.      *)
LEMMA Cut ==
  ASSUME NEW a \in Phrase, NEW b \in Phrase, NEW ch, Free(a, ch), b # <<>> => b[1] = ch
  PROVE  /\ Before(a \o b, ch) = a /\ (Has(a \o b, ch) <=> b # <<>>)
         /\ b # <<>> => From(a \o b, ch) = b /\ Past(a \o b, ch) = Tail(b)
<1>1. CASE b = <<>>
  BY <1>1, ChrFree, PhraseConcat
<1>2. CASE b # <<>>
  BY <1>2, ChrFound
<1> QED
  BY <1>1, <1>2

LEMMA ServerApart ==
  ASSUME NEW c \in Conf, NEW p \in Sources, Documented(p)
  PROVE  LET d == ParseServer(c, ServerText(p))
         IN /\ d.server_host = p.host
            /\ d.server_port = IF p.port = <<>> THEN c.server_port ELSE p.port
            /\ p.aname # <<>> => d.aname = p.aname
<1> DEFINE text == ServerText(p)
           d == ParseServer(c, text)
<1>1. p.host \in Phrase /\ p.port \in Phrase /\ p.aname \in Phrase /\ <<>> \in Phrase
  BY ArgumentIsPhrase, Words
<1>2. CASE p.host[1] = "/" /\ p.port = <<>> /\ p.aname = <<>>
  <2>1. text = p.host
    BY <1>1, <1>2, PhraseConcat DEF ServerText
  <2>2. d = [c EXCEPT !.server_host = text]
    BY <1>2, <2>1 DEF ParseServer, Documented
  <2> QED
    BY <1>2, <2>1, <2>2 DEF Conf
<1>3. CASE Free(p.host, ":") /\ Free(p.host, "/")
  <2>1. p.host # <<>> /\ p.host[1] # "/"
    <3>1. p.host # <<>> /\ Len(p.host) \in Nat /\ Len(p.host) # 0
      BY <1>1, EmptySeq DEF Documented, Phrase
    <3> QED
      BY <1>3, <3>1 DEF Free
  <2> DEFINE colon == Has(text, ":")
             tail == IF colon THEN Past(text, ":") ELSE text
             host == IF colon THEN Before(text, ":") ELSE Before(text, "/")
  <2>2. ASSUME ~(text # <<>> /\ text[1] = "/")
        PROVE  /\ d.server_host = host
               /\ d.server_port = IF colon THEN Before(tail, "/") ELSE c.server_port
               /\ d.aname = IF Has(tail, "/") THEN From(tail, "/") ELSE c.aname
    BY <2>2 DEF ParseServer, Conf
  <2>3. CASE p.port # <<>>
    <3> DEFINE after == p.port \o p.aname
    <3>1. after \in Phrase
      BY <1>1, PhraseConcat
    <3>2. text = p.host \o (<<":">> \o after)
      <4>1. <<":">> \in Phrase
        BY ArgumentIsPhrase
      <4>2. (<<":">> \o p.port) \o p.aname = <<":">> \o (p.port \o p.aname)
        BY <1>1, <4>1, PhraseAssociates, Zenon
      <4> QED
        BY <2>3, <4>2 DEF ServerText
    <3> HIDE DEF text
    <3> DEFINE b == <<":">> \o after
    <3>3. b \in Phrase /\ b # <<>> /\ b[1] = ":" /\ Tail(b) = after
      <4>1. ":" \in Literals
        BY DEF Literals
      <4> HIDE DEF after
      <4> QED
        BY <3>1, <4>1, PhraseTail
    <3>4. colon /\ Before(text, ":") = p.host /\ Past(text, ":") = after
      <4>1. /\ Has(p.host \o b, ":") /\ Before(p.host \o b, ":") = p.host
            /\ Past(p.host \o b, ":") = Tail(b)
        <5> HIDE DEF b
        <5>1. p.host \in Phrase /\ b \in Phrase /\ Free(p.host, ":") /\ b # <<>> /\ b[1] = ":"
          BY <1>1, <1>3, <3>3
        <5> QED
          BY <5>1, ChrFound
      <4> QED
        BY <3>2, <3>3, <4>1
    <3>5. text # <<>> /\ text[1] = p.host[1]
      BY <1>1, <2>1, <3>2, <3>3, PhraseConcat
    <3>6. Before(after, "/") = p.port /\ (Has(after, "/") <=> p.aname # <<>>)
          /\ (p.aname # <<>> => From(after, "/") = p.aname)
      BY <1>1, Cut DEF Documented
    <3> HIDE DEF colon, after
    <3>7. host = p.host /\ tail = after
      BY <3>4
    <3>8. ~(text # <<>> /\ text[1] = "/")
      BY <2>1, <3>5
    <3>9. d.server_host = host /\ d.server_port = IF colon THEN Before(tail, "/") ELSE c.server_port
      BY <2>2, <3>8
    <3>10. d.aname = IF Has(tail, "/") THEN From(tail, "/") ELSE c.aname
      BY <2>2, <3>8
    <3> HIDE DEF d, host, tail
    <3>11. d.server_host = p.host /\ d.server_port = p.port
      BY <3>4, <3>6, <3>7, <3>9
    <3>12. p.aname # <<>> => d.aname = p.aname
      BY <3>6, <3>7, <3>10
    <3> QED
      BY <2>3, <3>11, <3>12 DEF d, text
  <2>4. CASE p.port = <<>>
    <3>1. text = p.host \o p.aname
      BY <1>1, <2>4, PhraseConcat DEF ServerText
    <3> HIDE DEF text
    <3>2. ~colon
      <4>1. text \in Phrase /\ Free(text, ":")
        BY <1>1, <1>3, <2>4, <3>1, PhraseConcat, PhraseFree DEF Documented
      <4> QED
        BY <4>1, ChrFree
    <3>3. Before(text, "/") = p.host /\ (Has(text, "/") <=> p.aname # <<>>)
          /\ (p.aname # <<>> => From(text, "/") = p.aname)
      BY <1>1, <1>3, <3>1, Cut DEF Documented
    <3>4. text # <<>> /\ text[1] = p.host[1]
      BY <1>1, <2>1, <3>1, PhraseConcat
    <3>5. host = p.host /\ tail = text
      BY <3>2, <3>3
    <3>6. ~(text # <<>> /\ text[1] = "/")
      BY <2>1, <3>4
    <3>7. d.server_host = host /\ d.server_port = IF colon THEN Before(tail, "/") ELSE c.server_port
      BY <2>2, <3>6
    <3>8. d.aname = IF Has(tail, "/") THEN From(tail, "/") ELSE c.aname
      BY <2>2, <3>6
    <3> HIDE DEF colon, d, host, tail
    <3>9. d.server_host = p.host /\ d.server_port = c.server_port
      BY <3>2, <3>5, <3>7
    <3>10. p.aname # <<>> => d.aname = p.aname
      BY <3>3, <3>5, <3>8
    <3> QED
      BY <2>4, <3>9, <3>10 DEF d, text
  <2> QED
    BY <2>3, <2>4
<1> QED
  BY <1>2, <1>3 DEF Documented

LEMMA SourceApart ==
  ASSUME NEW c \in Conf, NEW p \in Sources, Documented(p)
  PROVE  LET d == ParseSource(c, TextOf(p))
         IN /\ d \in Conf /\ d.server_host = p.host
            /\ d.server_port = IF p.port = <<>> THEN c.server_port ELSE p.port
            /\ p.aname # <<>> => d.aname = p.aname
<1> DEFINE named == IF p.port # <<>> THEN <<":">> \o p.port ELSE <<>>
           text == TextOf(p)
           e == [c EXCEPT !.source = text]
<1>1. /\ p.user \in Phrase /\ p.host \in Phrase /\ p.port \in Phrase /\ p.aname \in Phrase
      /\ <<"@">> \in Phrase /\ <<":">> \in Phrase /\ text \in Phrase /\ <<>> \in Phrase
  BY ArgumentIsPhrase, Words
<1>2. named \in Phrase
  BY <1>1, PhraseConcat
<1>3. ServerText(p) \in Phrase /\ ServerText(p) = p.host \o (named \o p.aname)
  BY <1>1, <1>2, PhraseConcat DEF ServerText
<1>4. e \in Conf /\ e.server_port = c.server_port
  BY <1>1 DEF Conf
<1>5. CASE p.user # <<>>
  <2>1. text = p.user \o (<<"@">> \o ServerText(p))
    <3> DEFINE u == p.user \o <<"@">>
    <3>1. u \in Phrase
      BY <1>1, PhraseConcat
    <3>2. text = ((u \o p.host) \o named) \o p.aname
      BY <1>5 DEF TextOf
    <3>3. u \o ServerText(p) = p.user \o (<<"@">> \o ServerText(p))
      <4> HIDE DEF named, text
      <4>1. p.user \in Phrase /\ <<"@">> \in Phrase /\ ServerText(p) \in Phrase
        BY <1>1, <1>3
      <4> QED
        BY PhraseAssociates, <4>1, Zenon
    <3> HIDE DEF u, named, text
    <3>4. text = u \o ServerText(p)
      <4>1. u \o p.host \in Phrase /\ named \o p.aname \in Phrase
        BY <1>1, <1>2, <3>1, PhraseConcat
      <4>2. ((u \o p.host) \o named) \o p.aname = (u \o p.host) \o (named \o p.aname)
        <5>1. u \o p.host \in Phrase /\ named \in Phrase /\ p.aname \in Phrase
          BY <1>1, <1>2, <4>1
        <5> QED
          BY PhraseAssociates, <5>1, Zenon
      <4>3. (u \o p.host) \o (named \o p.aname) = u \o (p.host \o (named \o p.aname))
        <5>1. u \in Phrase /\ p.host \in Phrase /\ named \o p.aname \in Phrase
          BY <1>1, <3>1, <4>1
        <5> QED
          BY PhraseAssociates, <5>1, Zenon
      <4> QED
        BY <1>3, <3>2, <4>2, <4>3
    <3> QED
      BY <3>3, <3>4
  <2> HIDE DEF text, named
  <2>2. LET s == <<"@">> \o ServerText(p) IN s \in Phrase /\ s # <<>> /\ s[1] = "@" /\ Tail(s) = ServerText(p)
    <3>1. "@" \in Literals
      BY DEF Literals
    <3> QED
      BY <1>3, <3>1, PhraseTail
  <2>3. Free(p.user, "@")
    BY <1>5 DEF Documented
  <2>4. Has(text, "@") /\ Before(text, "@") = p.user /\ Past(text, "@") = ServerText(p)
    BY <1>1, <2>1, <2>2, <2>3, Cut
  <2> DEFINE f == parse_user(e, p.user)
  <2>5. ParseSource(c, text) = ParseServer(f, ServerText(p))
    BY <2>4 DEF ParseSource
  <2> HIDE DEF e
  <2>6. f \in Conf /\ f.server_port = e.server_port
    BY <1>1, <1>4, UserParsed DEF SameServer
  <2> HIDE DEF f
  <2>7. ParseServer(f, ServerText(p)) \in Conf
    BY <1>3, <2>6, ServerParsed
  <2>8. LET d == ParseServer(f, ServerText(p))
        IN /\ d.server_host = p.host
           /\ d.server_port = IF p.port = <<>> THEN f.server_port ELSE p.port
           /\ p.aname # <<>> => d.aname = p.aname
    BY <2>6, ServerApart
  <2> QED
    BY <1>4, <2>5, <2>6, <2>7, <2>8 DEF text
<1>6. CASE p.user = <<>>
  <2>1. text = ServerText(p)
    <3>1. text = ((<<>> \o p.host) \o named) \o p.aname
      BY <1>6 DEF TextOf
    <3> HIDE DEF named, text
    <3>2. <<>> \o p.host = p.host
      BY <1>1, PhraseConcat
    <3>3. (p.host \o named) \o p.aname = p.host \o (named \o p.aname)
      <4>1. p.host \in Phrase /\ named \in Phrase /\ p.aname \in Phrase
        BY <1>1, <1>2
      <4> QED
        BY PhraseAssociates, <4>1, Zenon
    <3> QED
      BY <1>3, <3>1, <3>2, <3>3
  <2>2. Free(text, "@")
    <3>1. Free(p.host, "@") /\ Free(p.port, "@") /\ Free(p.aname, "@")
      BY <1>6 DEF Documented
    <3>2. Free(<<":">>, "@") /\ Free(<<>>, "@")
      BY DEF Free
    <3>3. Free(named, "@")
      BY <1>1, <3>1, <3>2, PhraseFree
    <3> HIDE DEF named, text
    <3>4. named \o p.aname \in Phrase /\ Free(named \o p.aname, "@")
      BY <1>1, <1>2, <3>1, <3>3, PhraseConcat, PhraseFree
    <3> QED
      BY <1>1, <1>3, <2>1, <3>1, <3>4, PhraseFree
  <2> HIDE DEF text, named
  <2>3. ~Has(text, "@")
    BY <1>1, <2>2, ChrFree
  <2>4. ParseSource(c, text) = ParseServer(e, ServerText(p))
    BY <2>1, <2>3 DEF ParseSource
  <2> HIDE DEF e
  <2>5. ParseServer(e, ServerText(p)) \in Conf
    BY <1>3, <1>4, ServerParsed
  <2>6. LET d == ParseServer(e, ServerText(p))
        IN /\ d.server_host = p.host
           /\ d.server_port = IF p.port = <<>> THEN e.server_port ELSE p.port
           /\ p.aname # <<>> => d.aname = p.aname
    BY <1>4, ServerApart
  <2> QED
    BY <1>4, <2>4, <2>5, <2>6 DEF text
<1> QED
  BY <1>5, <1>6

(***************************************************************************)
(* The parts stay.                                                         *)
(***************************************************************************)
Apart ==
  /\ changes \in Nat
  /\ pc = "options" => conf \in Conf /\ conf.server_port = <<"564">>
  /\ pc \notin {"options", "exited"} /\ changes = 0 => conf \in Conf
  /\ SourceParsed

LEMMA NextApart ==
  ASSUME \A p \in Sources : Documented(p), Apart, [Next]_vars
  PROVE  Apart'
<1>1. CASE ParseOption
  <2>1. pc = "options" /\ pc' = pc /\ UNCHANGED changes
    BY <1>1 DEF ParseOption
  <2>2. PICK o \in StartupOptions : conf' = parse_startup_opt(conf, o)
    BY <1>1 DEF ParseOption
  <2>3. o \in Opt /\ conf \in Conf
    BY <2>1, OptionsAssumption, Words DEF Opt, Apart
  <2>4. conf' \in Conf /\ SameServer(conf', conf)
    BY <2>2, <2>3, StartupOpt
  <2> QED
    BY <2>1, <2>4 DEF Apart, SourceParsed, SameServer
<1>2. CASE ParseArg
  <2>1. pc = "options" /\ pc' = "user" /\ UNCHANGED changes
    BY <1>2 DEF ParseArg, Goto
  <2>2. PICK p \in Sources : meant' = p /\ conf' = ParseSource(conf, TextOf(p))
    BY <1>2 DEF ParseArg
  <2>3. conf \in Conf /\ conf.server_port = <<"564">> /\ Documented(p)
    BY <2>1 DEF Apart
  <2>4. /\ conf' \in Conf /\ conf'.server_host = p.host
        /\ conf'.server_port = IF p.port = <<>> THEN conf.server_port ELSE p.port
        /\ p.aname # <<>> => conf'.aname = p.aname
    BY <2>2, <2>3, SourceApart
  <2> QED
    BY <2>1, <2>2, <2>3, <2>4 DEF Apart, SourceParsed
<1>3. CASE LookupUser
  <2>1. pc = "user" /\ UNCHANGED <<changes, meant>>
    BY <1>3 DEF LookupUser
  <2>2. pc' = "exited" \/ (pc' = "nobody" /\ conf' = Resolved(conf))
    BY <1>3 DEF LookupUser, Goto, Exit, Resolved
  <2>3. changes = 0 => /\ conf \in Conf /\ Resolved(conf) \in Conf /\ SameServer(Resolved(conf), conf)
                       /\ Resolved(conf).aname = conf.aname
    BY <2>1, ResolvedUser DEF Apart
  <2> QED
    BY <2>1, <2>2, <2>3 DEF Apart, SourceParsed, SameServer
<1>4. CASE SetOption
  <2>1. pc' = "serving" /\ changes' = changes + 1
    BY <1>4 DEF SetOption, ServingSame
  <2> QED
    BY <2>1 DEF Apart, SourceParsed
<1>5. CASE /\ UNCHANGED <<conf, meant, changes>>
           /\ UNCHANGED pc \/ pc' = "exited" \/ (pc \notin {"options", "exited"} /\ pc' # "options")
  BY <1>5 DEF Apart, SourceParsed
<1>6. CASE Usage \/ lookup_nobody \/ Socket \/ ConnectFile \/ OpenFile \/ Resolve \/ ConnectAddress
             \/ NextAddress \/ Dup \/ Bootstrap \/ Negotiate \/ CheckIn
  <2>1. UNCHANGED <<conf, meant, changes>>
    BY <1>6 DEF Usage, lookup_nobody, Socket, ConnectFile, OpenFile, Resolve, ConnectAddress, NextAddress, Dup,
                Bootstrap, Negotiate, CheckIn, StartupSame, options
  <2>2. pc' = "exited" \/ (pc \notin {"options", "exited"} /\ pc' # "options")
    BY <1>6 DEF Usage, lookup_nobody, Socket, ConnectFile, OpenFile, Resolve, ConnectAddress, NextAddress, Dup,
                Bootstrap, Negotiate, TheirLimit, CheckIn, Goto, Exit
  <2> QED
    BY <1>5, <2>1, <2>2
<1>7. CASE GetOptions \/ Attach \/ Codec \/ UNCHANGED vars
  <2>1. UNCHANGED <<pc, conf, meant, changes>>
    BY <1>7 DEF GetOptions, Attach, Codec, ServingSame, startupVars, options, vars
  <2> QED
    BY <1>5, <2>1
<1> QED
  BY <1>1, <1>2, <1>3, <1>4, <1>6, <1>7 DEF Next, Starting, Serving

(* A source of the documented form, of whatever length and with whatever   *)
(* words, and whatever options come before and after it, is taken apart    *)
(* into the parts it was made of (parse_startup_opt).                      *)
THEOREM SourceTakenApart ==
  ASSUME \A p \in Sources : Documented(p)
  PROVE  Spec => []SourceParsed
<1>1. Init => Apart
  <2>1. Default \in Conf /\ Default.server_port = <<"564">>
    BY DefaultFresh DEF Fresh, Default
  <2> QED
    BY <2>1 DEF Init, Apart, SourceParsed
<1>2. Apart /\ [Next]_vars => Apart'
  BY NextApart
<1>3. Apart => SourceParsed
  BY DEF Apart
<1> QED
  BY <1>1, <1>2, <1>3, PTL DEF Spec
=============================================================================
