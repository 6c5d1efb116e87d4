-------------------------------- MODULE MCGate --------------------------------
(***************************************************************************)
(* What a request passes before its handler writes: token files of up to   *)
(* three lines, the headers and routes to try, and the texts that If-Match *)
(* headers are made of.                                                    *)
(***************************************************************************)
EXTENDS Auth, IfMatch

MCTexts ==
  {"", "reader", "operator", "admin", "owner", "aap", "aap ", "ops", "s1", " s1", "s2",
   "s 3", "long", " long", "longer"}

MCTrimSpace == [t \in MCTexts |-> CASE t = "aap " -> "aap" [] t = " s1" -> "s1"
                                    [] t = " long" -> "long" [] OTHER -> t]

MCLength == [t \in MCTexts |-> CASE t = "" -> 0 [] t = "long" -> 4096
                                 [] t \in {" long", "longer"} -> 4097 [] OTHER -> 8]

Line(kind, fields) == [kind |-> kind, fields |-> fields]

Pair(key, value) == [key |-> key, value |-> value]

Record(name, role, token) ==
  Line("object", <<Pair("role", role), Pair("token", token), Pair("name", name)>>)

GoodLines ==
  {Record("aap", "operator", "s1"), Record("ops", "reader", "s1"), Record("ops", "admin", "s2"),
   Record("aap", "reader", "s 3"), Record("s1", "reader", "long"), Line("blank", <<>>)}

BadLines ==
  {Line("malformed", <<>>), Record("aap ", "reader", "s2"), Record("aap", "owner", "s2"),
   Record("aap", "reader", " s1"), Record("aap", "reader", "longer"),
   Record("long", "reader", "s2"), Record("aap", "reader", NullValue),
   Record(NullValue, "reader", "s2"), Record("aap", OtherValue, "s2"),
   Line("object", <<Pair("token", "s2"), Pair("name", "aap")>>),
   Line("object", <<Pair("role", "reader"), Pair("token", "s2"), Pair("name", "aap"),
                    Pair("name", "ops")>>),
   Line("object", <<Pair("role", "reader"), Pair("token", "s2"), Pair("name", "aap"),
                    Pair("owner", "ops")>>)}

MCLines == GoodLines \cup BadLines

MCRoutes ==
  [method : {"GET"}, role : {"reader", "admin"}] \cup
  {[method |-> "PATCH", role |-> "operator"], [method |-> "POST", role |-> "admin"]}

MCHeaders ==
  [scheme : {"Bearer"}, credential : {"s1", " s1", "s2", "s 3", "", "long", " long", "longer"}]
    \cup [scheme : {"bearer", "Basic"}, credential : {"s1"}]

MCFragments ==
  {<<Quote>>, <<"W", "/">>, <<",">>, <<" ">>, <<"0">>, <<"1">>, <<"*">>, <<"DEL">>,
   <<Quote, "1", Quote>>, <<Quote, "x", Quote>>}

(* The two parts share no state, so one is explored while the other rests. *)
AuthAtRest == process = "new" /\ ~file.allowed /\ file.lines = <<>>

GateNext ==
  \/ ANext /\ written = 0 /\ UNCHANGED hvars
  \/ Write /\ AuthAtRest /\ UNCHANGED avars

GateInit == AInit /\ Init

GateSpec == GateInit /\ [][GateNext]_<<avars, hvars>>
===============================================================================
