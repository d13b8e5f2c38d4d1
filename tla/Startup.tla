------------------------------ MODULE Startup ------------------------------
(***************************************************************************)
(* main and p9_startup: the options are parsed, the user looked up, the    *)
(* connection made and the protocol negotiated, and the translator checks  *)
(* in.  Then it serves, with the codec of Wire on the connection; its      *)
(* options can be asked for and set, and roots be attached.                *)
(*                                                                         *)
(* External: argp, which handles the options of a command line before its  *)
(* argument, wherever that stands; the user database, the network, and     *)
(* the 9P server.                                                          *)
(***************************************************************************)
EXTENDS Wire

CONSTANTS
  Sources,         \* the parts of arguments [USER@]HOST[:PORT][/ANAME]
  StartupOptions, RuntimeOptions,
  Numerals,        \* the words that are numbers
  Addresses,       \* what the addresses of a host do: "accept", "refuse", "nosocket"
  Msizes,          \* what the server answers to our limit
  MaxOptions, MaxChanges

(* Texts are sequences of words and of the characters that separate them;  *)
(* <<>> is also the null pointer, or a number that is not set (~0).        *)
Text == Seq(STRING)

ASSUME OptionsAssumption ==
  /\ Sources \subseteq [user : Text, host : Text, port : Text, aname : Text]
  /\ StartupOptions \cup RuntimeOptions \subseteq [key : {"4", "6", "S", "a", "m", "r", "w", "D"}, val : Text]
  /\ \A o \in RuntimeOptions : o.key \notin {"4", "6", "S"}
ASSUME BoundsAssumption == MaxOptions \in Nat /\ MaxChanges \in Nat /\ Msizes \subseteq Nat
ASSUME AddressesAssumption == Addresses \subseteq Seq({"accept", "refuse", "nosocket"}) \ {<<>>}

Self == <<"the running user">>
Freed == <<"freed memory">>

VARIABLES
  pc,
  conf,               \* the globals that options set
  args, changes,      \* how many options there were
  meant,              \* ghost: the parts of the argument
  nobody,             \* p9_nobody_uid
  addresses,          \* of the host, still to try
  fd, fds,            \* the descriptor being connected, and all that are open
  p9_conn_in, p9_conn_out,
  p9_max_message_size,
  announced,          \* has the control port been given to the system?
  exit,               \* why the program ended
  reported,           \* the last answer to get_options, and (ghost) the globals then
  attached            \* the last attach: user, tree and number of the user

options == <<conf, args, changes, meant, nobody>>
connection == <<addresses, fd, fds, p9_conn_in, p9_conn_out>>
answers == <<reported, attached>>
startupVars == <<pc, options, connection, p9_max_message_size, announced, exit, answers>>
vars == <<startupVars, wireVars>>

(* The globals before any option.                                          *)
Default ==
  [source |-> <<>>, server_host |-> <<>>, server_port |-> <<"564">>, allow_ip |-> 46, aname |-> <<>>,
   mask |-> <<>>, readonly |-> FALSE, dump |-> FALSE, user_name |-> <<>>, uid |-> <<>>,
   settrans |-> FALSE, errno |-> "ok"]

NoParts == [user |-> <<>>, host |-> <<>>, port |-> <<>>, aname |-> <<>>]
NoFd == -1

Init ==
  /\ pc = "options" /\ conf = Default /\ args = 0 /\ changes = 0 /\ meant = NoParts /\ nobody = <<>>
  /\ addresses = <<>> /\ fd = NoFd /\ fds = {} /\ p9_conn_in = NoFd /\ p9_conn_out = NoFd
  /\ p9_max_message_size = 0 /\ announced = FALSE /\ exit = None
  /\ reported = <<>> /\ attached = <<>>
  /\ p9_version = P9_VERSION_2000 /\ CodecInit

Goto(label) == pc' = label /\ UNCHANGED exit
Exit(reason) == pc' = "exited" /\ exit' = reason

(***************************************************************************)
(* Options.                                                                *)
(***************************************************************************)
(* A number too large leaves all ones, and an errno.                       *)
Overflow == <<"too large">>

parse_common_opt(c, o) ==
  CASE o.key = "a" -> [c EXCEPT !.aname = o.val]
    [] o.key = "m" /\ o.val = <<>> -> [c EXCEPT !.mask = <<"0755">>]
    [] o.key = "m" /\ o.val = Overflow -> [c EXCEPT !.mask = <<>>, !.errno = "ERANGE"]
    [] o.key = "m" /\ o.val \notin {<<>>, Overflow} -> [c EXCEPT !.mask = o.val]
    [] o.key = "r" -> [c EXCEPT !.readonly = TRUE]
    [] o.key = "w" -> [c EXCEPT !.readonly = FALSE]
    [] o.key = "D" -> [c EXCEPT !.dump = TRUE]

parse_startup_opt(c, o) ==
  CASE o.key = "4" -> [c EXCEPT !.allow_ip = 4]
    [] o.key = "6" -> [c EXCEPT !.allow_ip = 6]
    [] o.key = "S" -> [c EXCEPT !.settrans = TRUE]
    [] OTHER -> parse_common_opt(c, o)

(* A name is taken for the number 0 first.                                 *)
parse_user(c, text) ==
  LET numeral == Len(text) = 1 /\ text[1] \in Numerals
  IN [c EXCEPT !.uid = IF numeral THEN text ELSE <<"0">>,
               !.user_name = IF c.errno # "ok" \/ ~numeral THEN text ELSE @]

(* strchrnul: where the character is, or the end.                          *)
Chr(text, ch) ==
  IF \E i \in DOMAIN text : text[i] = ch
    THEN CHOOSE i \in DOMAIN text : text[i] = ch /\ \A j \in 1 .. i - 1 : text[j] # ch
    ELSE Len(text) + 1
Has(text, ch) == Chr(text, ch) <= Len(text)
Before(text, ch) == SubSeq(text, 1, Chr(text, ch) - 1)
From(text, ch) == SubSeq(text, Chr(text, ch), Len(text))
Past(text, ch) == SubSeq(text, Chr(text, ch) + 1, Len(text))

(* A mutant: the tree is looked for after a port only.                     *)
ParseServerNoTree(c, text) ==
  IF text # <<>> /\ text[1] = "/" THEN [c EXCEPT !.server_host = text]
  ELSE [c EXCEPT !.server_host = Before(text, "/")]

ParseServer(c, text) ==
  IF text # <<>> /\ text[1] = "/" THEN [c EXCEPT !.server_host = text]
  ELSE LET colon == Has(text, ":")
           tail == IF colon THEN Past(text, ":") ELSE text
       IN [c EXCEPT !.server_host = IF colon THEN Before(text, ":") ELSE Before(text, "/"),
                    !.server_port = IF colon THEN Before(tail, "/") ELSE @,
                    !.aname = IF Has(tail, "/") THEN From(tail, "/") ELSE @]

ParseSource(c, text) ==
  LET d == [c EXCEPT !.source = text]
  IN IF Has(text, "@") THEN ParseServer(parse_user(d, Before(text, "@")), Past(text, "@"))
     ELSE ParseServer(d, text)

(* The whole of a command line.                                            *)
ParseOptions(opts) ==
  LET parsed[n \in 0 .. Len(opts)] ==
        IF n = 0 THEN Default ELSE parse_startup_opt(parsed[n - 1], opts[n])
  IN  parsed[Len(opts)]

argp_parse(opts, source) == ParseSource(ParseOptions(opts), source)

(* What p9_append_args makes of the globals.                               *)
Given(condition, key, val) == IF condition THEN <<[key |-> key, val |-> val]>> ELSE <<>>
AppendFlags(c) ==
  Given(c.allow_ip = 4, "4", <<>>) \o Given(c.allow_ip = 6, "6", <<>>) \o Given(c.mask # <<>>, "m", c.mask)
    \o Given(c.readonly, "r", <<>>) \o Given(c.dump, "D", <<>>)

p9_append_args(c) == AppendFlags(c) \o Given(c.aname # <<>>, "a", c.aname)

TextOf(p) ==
  (IF p.user # <<>> THEN p.user \o <<"@">> ELSE <<>>) \o p.host
    \o (IF p.port # <<>> THEN <<":">> \o p.port ELSE <<>>) \o p.aname

ParseOption ==
  /\ pc = "options" /\ args < MaxOptions /\ args' = args + 1
  /\ \E o \in StartupOptions : conf' = parse_startup_opt(conf, o)
  /\ UNCHANGED <<pc, changes, meant, nobody, connection, p9_max_message_size, announced, exit, answers, wireVars>>

ParseArg ==
  /\ pc = "options" /\ Goto("user")
  /\ \E p \in Sources : meant' = p /\ conf' = ParseSource(conf, TextOf(p))
  /\ UNCHANGED <<args, changes, nobody, connection, p9_max_message_size, announced, answers, wireVars>>

(* No argument, or a second one.                                           *)
Usage ==
  /\ pc = "options" /\ Exit("usage")
  /\ UNCHANGED <<options, connection, p9_max_message_size, announced, answers, wireVars>>

(***************************************************************************)
(* Users.                                                                  *)
(***************************************************************************)
Unset(c) == c.user_name = <<>> /\ c.uid = <<>>

(* The name is in a buffer that is freed before the call returns.          *)
lookup_current_user(c) == [c EXCEPT !.uid = Self, !.user_name = Freed]

LookupUser ==
  /\ pc = "user"
  /\ \/ Unset(conf) /\ conf' = lookup_current_user(conf) /\ Goto("nobody")
     \/ Unset(conf) /\ Exit("user") /\ UNCHANGED conf
     \/ ~Unset(conf) /\ Goto("nobody") /\ UNCHANGED conf
  /\ UNCHANGED <<args, changes, meant, nobody, connection, p9_max_message_size, announced, answers, wireVars>>

lookup_nobody ==
  /\ pc = "nobody" /\ Goto("connect")
  /\ nobody' \in {<<"nobody">>, <<"65534">>}
  /\ UNCHANGED <<conf, args, changes, meant, connection, p9_max_message_size, announced, answers, wireVars>>

(***************************************************************************)
(* establish_connection.                                                   *)
(***************************************************************************)
(* The lowest descriptor that is not open.                                 *)
NewFd == CHOOSE n \in 3 .. 9 : n \notin fds /\ \A m \in 3 .. n - 1 : m \in fds
Opened == fd' = NewFd /\ fds' = fds \cup {NewFd}
(* A mutant: the socket stays open.                                        *)
CloseForgotten == UNCHANGED <<fds, fd>>

Close == fds' = fds \ {fd} /\ UNCHANGED fd

StartupSame == UNCHANGED <<options, p9_max_message_size, announced, answers, wireVars>>
ToFile == conf.server_host[1] = "/"

Socket ==
  /\ pc = "connect" /\ ToFile
  /\ \/ Opened /\ Goto("connect file")
     \/ Exit("socket") /\ UNCHANGED <<fd, fds>>
  /\ UNCHANGED <<addresses, p9_conn_in, p9_conn_out>> /\ StartupSame

ConnectFile ==
  /\ pc = "connect file"
  /\ \/ Goto("dup") /\ UNCHANGED <<fd, fds>>
     \/ Exit("connect") /\ UNCHANGED <<fd, fds>>
     \/ Close /\ Goto("open file")
  /\ UNCHANGED <<addresses, p9_conn_in, p9_conn_out>> /\ StartupSame

OpenFile ==
  /\ pc = "open file"
  /\ \/ Opened /\ Goto("dup")
     \/ fd' = NoFd /\ Exit("open") /\ UNCHANGED fds
  /\ UNCHANGED <<addresses, p9_conn_in, p9_conn_out>> /\ StartupSame

Resolve ==
  /\ pc = "connect" /\ ~ToFile
  /\ \/ \E list \in Addresses : addresses' = list /\ Goto("address")
     \/ Exit("getaddrinfo") /\ UNCHANGED addresses
  /\ UNCHANGED <<fd, fds, p9_conn_in, p9_conn_out>> /\ StartupSame

ConnectAddress ==
  /\ pc = "address" /\ addresses # <<>>
  /\ \/ Head(addresses) = "nosocket" /\ Exit("socket") /\ UNCHANGED <<addresses, fd, fds>>
     \/ Head(addresses) = "accept" /\ Opened /\ Goto("dup") /\ UNCHANGED addresses
     \/ Head(addresses) = "refuse" /\ Opened /\ Goto("refused") /\ UNCHANGED addresses
  /\ UNCHANGED <<p9_conn_in, p9_conn_out>> /\ StartupSame

(* The socket is closed, and the next address tried if there is one.       *)
NextAddress ==
  /\ pc = "refused" /\ Close
  /\ addresses' = Tail(addresses)
  /\ IF Tail(addresses) = <<>> THEN Exit("connect") ELSE Goto("address")
  /\ UNCHANGED <<p9_conn_in, p9_conn_out>> /\ StartupSame

Dup ==
  /\ pc = "dup"
  /\ \/ /\ p9_conn_in' = fd /\ p9_conn_out' = NewFd /\ fds' = fds \cup {NewFd}
        /\ Goto("bootstrap")
     \/ Exit("dup") /\ UNCHANGED <<p9_conn_in, p9_conn_out, fds>>
  /\ UNCHANGED <<addresses, fd>> /\ StartupSame

(***************************************************************************)
(* p9_startup.                                                             *)
(***************************************************************************)
(* The file to be a translator on, or the bootstrap port.                  *)
Bootstrap ==
  /\ pc = "bootstrap" /\ (Goto("negotiate") \/ Exit("bootstrap"))
  /\ UNCHANGED connection /\ StartupSame

TheirLimit(msize) == IF msize < 24 THEN Exit("limit") ELSE Goto("check in")

(* The server's answer, in two strings and a number, or none.              *)
Negotiate ==
  /\ pc = "negotiate"
  /\ \/ \E msize \in Msizes, version \in Versions :
          p9_max_message_size' = msize /\ p9_version' = version /\ TheirLimit(msize)
     \/ Exit("version") /\ UNCHANGED <<p9_version, p9_max_message_size>>
  /\ UNCHANGED <<options, connection, announced, answers, step, rest, size, count, reading, err, s_size, types>>

CheckIn ==
  /\ pc = "check in"
  /\ \/ announced' = TRUE /\ Goto("serving")
     \/ Exit("check in") /\ UNCHANGED announced
  /\ UNCHANGED <<options, connection, p9_max_message_size, answers, wireVars>>

(***************************************************************************)
(* Serving.                                                                *)
(***************************************************************************)
ServingSame ==
  UNCHANGED <<pc, args, meant, nobody, connection, p9_max_message_size, announced, exit, wireVars>>

(* S_fsys_set_options.  The argument of an option is in the message.       *)
SetOption ==
  /\ pc = "serving" /\ changes < MaxChanges /\ changes' = changes + 1
  /\ \E o \in RuntimeOptions :
       conf' = parse_common_opt(conf, IF o.key = "a" THEN [o EXCEPT !.val = Freed] ELSE o)
  /\ UNCHANGED answers /\ ServingSame

(* S_fsys_get_options and S_file_get_fs_options.                           *)
GetOptions ==
  /\ pc = "serving"
  /\ reported' = <<p9_append_args(conf), conf>>
  /\ UNCHANGED <<conf, changes, attached>> /\ ServingSame

Contents(text) == IF text = Freed THEN {Self, <<"anything">>} ELSE {text}

(* The attach of S_fsys_getroot.                                           *)
Attach ==
  /\ pc = "serving"
  /\ \E uname \in Contents(conf.user_name), aname \in Contents(conf.aname) :
       attached' = <<uname, aname, IF p9_version >= P9_VERSION_2000_U THEN conf.uid ELSE <<>> >>
  /\ UNCHANGED <<conf, changes, reported>> /\ ServingSame

Codec == pc = "serving" /\ WireNext /\ UNCHANGED startupVars

Starting ==
  \/ ParseArg \/ Usage \/ LookupUser \/ lookup_nobody
  \/ Socket \/ ConnectFile \/ OpenFile \/ Resolve \/ ConnectAddress \/ NextAddress \/ Dup
  \/ Bootstrap \/ Negotiate \/ CheckIn

Serving == SetOption \/ GetOptions \/ Attach

Next == ParseOption \/ Starting \/ Serving \/ Codec

Spec == Init /\ [][Next]_vars

(***************************************************************************)
(* Properties.                                                             *)
(***************************************************************************)
(* An argument of the documented form is taken apart into what its parts   *)
(* were (main.c:173): not so an IPv6 address, whose colons are taken for   *)
(* the one before a port.                                                  *)
SourceParsed ==
  pc \notin {"options", "exited"} /\ changes = 0 =>
    /\ conf.server_host = meant.host
    /\ conf.server_port = IF meant.port = <<>> THEN <<"564">> ELSE meant.port
    /\ meant.aname # <<>> => conf.aname = meant.aname

(* Once clients can come, the protocol is settled and a message holds at   *)
(* least its header (9pfs.c:95), and there is a connection, made of the    *)
(* two descriptors that are open and no other: those of failed attempts    *)
(* are closed (main.c:373, main.c:419).                                    *)
ReadyWhenAnnounced ==
  announced =>
    /\ p9_max_message_size >= 24
    /\ p9_conn_in # p9_conn_out /\ fds = {p9_conn_in, p9_conn_out}

Configuration(c) ==
  <<c.server_host, c.server_port, c.allow_ip, c.aname, c.mask, c.readonly, c.dump, c.user_name, c.uid>>

(* The options that get_options reports make the same configuration when   *)
(* the translator is started with them (main.c:240), through whatever      *)
(* changes of options it came about.                                       *)
OptionsReproduce ==
  reported # <<>> =>
    LET c == argp_parse(reported[1], reported[2].source)
    IN Configuration(reported[2]) = Configuration(IF Unset(c) THEN lookup_current_user(c) ELSE c)

(* main.c:65 says "USER defaults to the running user", and 9pfs.h:39 that  *)
(* a name or number that is set (not NULL, not -1) is used on the remote   *)
(* end: the server is asked for the tree in the name of the user that was  *)
(* given, by name or by number, or of the running user.                    *)
AttachesAsUser ==
  attached # <<>> =>
    LET uname == attached[1]
        uid == attached[3]
        extended == p9_version >= P9_VERSION_2000_U
    IN \/ meant.user = <<>> /\ uname = Self /\ (extended => uid = Self)
       \/ meant.user # <<>> /\ meant.user[1] \in Numerals /\ (extended => uid = meant.user)
       \/ meant.user # <<>> /\ meant.user[1] \notin Numerals /\ uname = meant.user /\ (extended => uid = <<>>)

=============================================================================
