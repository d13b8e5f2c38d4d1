----------------------------- MODULE MCSession -----------------------------
(* Instances of Startup and Wire for TLC.                                   *)
EXTENDS Startup

N(f) == El(f, <<>>)

(* An attach, a walk, a write and a version request.                        *)
SomeRequests ==
  {<<N("4"), N("4"), El("s", <<3>>), El("s", <<0>>), N("4")>>,
   <<N("4"), N("4"), N("2"), El("S", <<1, 2>>)>>,
   <<N("4"), N("8"), El("d", <<5>>)>>,
   <<N("4"), El("s", <<8>>)>>}

(* Of the replies to version, attach, read, walk, stat and clunk.           *)
SomeFormats ==
  {<<N("4"), N("s")>>, <<N("1"), N("4"), N("8")>>, <<El("d", <<2>>)>>, <<N("Q")>>,
   <<N("2"), N("s"), N("?"), N("s"), N("4")>>, <<>>}

Source(user, host, port, aname) == [user |-> user, host |-> host, port |-> port, aname |-> aname]
Tree == <<"/", "tree">>

AllSources ==
  {Source(u, <<"host">>, p, a) : u \in {<<>>, <<"7">>, <<"alice">>}, p \in {<<>>, <<"5640">>}, a \in {<<>>, Tree}}
    \cup {Source(u, <<"/", "srv">>, <<>>, <<>>) : u \in {<<>>, <<"7">>}}

UserSources == {Source(u, <<"host">>, <<>>, <<>>) : u \in {<<"7">>, <<"alice">>}}

Flags(keys) == {[key |-> k, val |-> <<>>] : k \in keys}
AllOptions == Flags({"4", "6", "S", "m", "r", "w", "D"}) \cup {[key |-> "m", val |-> <<"0700">>], [key |-> "a", val |-> Tree]}
ChangeableOptions == Flags({"m", "r", "w", "D"})

AddressLists == {<<"accept">>, <<"refuse", "accept">>, <<"refuse", "refuse">>, <<"refuse", "nosocket", "accept">>}

(* Options and users have no part in the codec: it is run for one of them.  *)
MCNext ==
  \/ step = "idle" /\ (ParseOption \/ Starting \/ Serving)
  \/ /\ conf.source = <<"7", "@", "host">> /\ args = 0 /\ changes = 0 /\ nobody = <<"nobody">>
     /\ addresses = <<"accept">> /\ reported = <<>> /\ attached = <<>>
     /\ Codec

MCSpec == Init /\ [][MCNext]_vars
=============================================================================
