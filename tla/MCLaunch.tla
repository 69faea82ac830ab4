------------------------------ MODULE MCLaunch ------------------------------
(* Inputs for the TLC run of Launch.                                       *)
EXTENDS Launch

Up(id) == [option |-> "upstream", value |-> [kind |-> "assignment", id |-> id,
                                             target |-> <<"u">>]]
Arg(option, value) == [option |-> option, value |-> value]
Flag == [kind |-> "flag"]

\* A JSON upstream, and one that is disabled and says no more than it must.
Entry(id) ==
  [kind |-> "object", id |-> Text(id), transport |-> Text(<<"http">>),
   displayName |-> Missing, enabled |-> Missing, target |-> Text(<<"u">>),
   texts |-> Missing, timeoutMs |-> Missing]

Sound3 ==
  {Entry(<<"a">>), Entry(<<"$", "{", "a", "}">>),
   [Entry(<<"a">>) EXCEPT !.enabled = Boolean(FALSE), !.target = Missing]}

Entries ==
  {Entry(<<".">>), [kind |-> "other"],
   [Entry(<<"b">>) EXCEPT !.enabled = Boolean(FALSE), !.timeoutMs = Number(0)],
   [Entry(<<"b">>) EXCEPT !.target = Missing],
   [Entry(<<"b">>) EXCEPT !.transport = Text(<<"pipe">>)],
   [Entry(<<"b">>) EXCEPT !.target = Text(<<>>)],
   [Entry(<<"b">>) EXCEPT !.timeoutMs = Number(8)],
   [Entry(<<"b">>) EXCEPT !.texts = List(<<Text(<<"a">>), Other>>)],
   [Entry(<<"b">>) EXCEPT !.texts = List(<<Text(<<"a">>)>>)]}

Json(name, upstreams, r) ==
  [kind |-> "object", endpoint |-> FALSE, name |-> name, upstreams |-> List(upstreams),
   runtime |-> r]

NoRuntime ==
  [kind |-> "object", mode |-> Missing, pool |-> Missing, acquire |-> Missing,
   drain |-> Missing, prewarm |-> Missing]

Runtimes ==
  {[NoRuntime EXCEPT !.mode = Text(<<t>>)] : t \in {"persistent", "per_call", "sometimes"}}
  \cup {[NoRuntime EXCEPT !.pool = n] : n \in {Number(0), Number(2), Number(8), Number(16),
                                              Other}}
  \cup {[NoRuntime EXCEPT !.acquire = Number(n), !.drain = Number(n)] : n \in {-1, 3, 15}}
  \cup {[NoRuntime EXCEPT !.prewarm = Boolean(b), !.pool = Number(7)] : b \in BOOLEAN}
  \cup {NoRuntime, Missing, Other}

MCFiles ==
  {Json(Missing, s, Missing) : s \in BoundedSeq(Entries, 1) \cup BoundedSeq(Sound3, 2)}
  \cup {Json(Missing, <<Entry(<<"a">>)>>, r) : r \in Runtimes}
  \cup {[kind |-> "other"], [kind |-> "unreadable"], Json(Other, <<>>, Missing),
        Json(Text(<<"a">>), <<Entry(<<"a">>)>>, Missing),
        [Json(Missing, <<>>, Missing) EXCEPT !.endpoint = TRUE],
        [Json(Missing, <<>>, Missing) EXCEPT !.upstreams = Other]}

Arguments ==
  {Arg("mode", Text(<<"per-call">>)), Arg("mode", Text(<<"persistent">>)),
   Arg("mode", Text(<<"sometimes">>)), Arg("pool", Number(0)), Arg("pool", Number(3)),
   Arg("pool", Number(8)), Arg("pool", Number(16)), Arg("acquire", Number(2)),
   Arg("drain", Number(-1)), Arg("drain", Number(1)), Arg("drain", Number(8)),
   Arg("prewarm", Flag), Arg("host", Text(<<>>)), Arg("port", Number(65536)),
   Arg("port", Number(80)), Up(<<"a">>), Up(<<"c">>), Up(<<>>), Up(<<".">>),
   Arg("unknown", Flag), FileOption([kind |-> "unreadable"]),
   FileOption(Json(Missing, <<Entry(<<"a">>)>>, [NoRuntime EXCEPT !.pool = Number(5)]))}

MCLines ==
  BoundedSeq(Arguments, 2) \cup {<<Up(<<"c">>), a, b>> : a \in Arguments, b \in Arguments}

MCDocuments ==
  {Json(Missing, <<Entry(t)>>, Missing) : t \in BoundedSeq({"$", "{", "}", "a", "1"}, 5)}
  \cup MCFiles

MCEnvironments ==
  {NoEnvironment} \cup
  {[given |-> TRUE, values |-> v] :
     v \in {<<>>} \cup [{<<"a">>} -> {<<>>, <<"a">>, <<"$", "{", "a", "}">>, <<".">>}]
           \cup [{<<"a", "1">>, <<"1">>} -> {<<"b">>}]}

Upstreams ==
  [id: {<<"a">>, <<".">>}, enabled: BOOLEAN, target: {<<>>, <<"u">>}, timeout: {0, 5},
   display_name: {<<>>}, texts: {<<>>}]

MCConfigurations ==
  {[name |-> n, upstreams |-> s] : n \in {<<>>, <<"a">>}, s \in BoundedSeq(Upstreams, 2)}

MCOptions == [mode: {"persistent", "other"}, pool: {0, 2}, acquire: {-1, 3}, drain: {-1}]
=============================================================================
