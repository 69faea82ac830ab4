--------------------------- MODULE Configuration ---------------------------
(***************************************************************************)
(* The gateway's configuration: gateway/src/config_io.cpp, which reads it  *)
(* from JSON, the validation and the merge of gateway/src/router.cpp, and  *)
(* the runtime options made of it (gateway/src/runtime.cpp).               *)
(*                                                                         *)
(* What an operation returns is a set: its result alone, or the empty set  *)
(* when it refuses.  A text is a sequence of characters.                   *)
(***************************************************************************)
EXTENDS Integers, SequencesExt, FiniteSetsExt

CONSTANTS
  MaxIdLength,      \* kMaxUpstreamIdLength
  IntMax,           \* the largest std::int64_t
  DefaultTimeout    \* of an upstream whose configuration names none

ASSUME ConfigurationAssumption ==
  /\ MaxIdLength \in Nat \ {0} /\ IntMax \in Nat \ {0}
  /\ DefaultTimeout \in 1..IntMax

\* JSON, as far as the loader tells it apart: "other" is a value of a kind that
\* the reader of the field does not take.
Missing    == [kind |-> "absent"]
Other      == [kind |-> "other"]
Text(t)    == [kind |-> "string", text |-> t]
Number(n)  == [kind |-> "number", number |-> n]
Boolean(b) == [kind |-> "boolean", flag |-> b]
List(s)    == [kind |-> "list", items |-> s]

-----------------------------------------------------------------------------
(* Texts and numbers.                                                      *)

Letters == {"a", "_"}
Digits  == {"1"}

valid_environment_name(name) ==
  /\ name # <<>>
  /\ name[1] \in Letters
  /\ \A i \in 1..Len(name) : name[i] \in Letters \cup Digits

\* Where a placeholder opens, and where one closes.
Openings(value) ==
  {i \in 1..(Len(value) - 1) : value[i] = "$" /\ value[i + 1] = "{"}
Closings(value) == {i \in 1..Len(value) : value[i] = "}"}

\* What a placeholder stands for: nothing, for a name that is not valid or not
\* in the environment.
Meaning(name, environment) ==
  IF valid_environment_name(name) /\ name \in DOMAIN environment.values
  THEN {environment.values[name]} ELSE {}

\* The placeholders that open, and the braces that close one that opens at i.
OpenFrom(value, o)  == {i \in Openings(value) : i >= o}
CloseAfter(value, i) == {j \in Closings(value) : j >= i + 2}

\* The text before a placeholder, with what it stands for and what the rest
\* becomes.
Replaced(before, meanings, rests) ==
  {before \o meaning \o rest : meaning \in meanings, rest \in rests}

\* Mutant of expand_from: an unclosed placeholder is text.
ExpandLeavingUnclosed(value, environment, o, from) ==
  LET open  == Min(OpenFrom(value, o))
      close == Min(CloseAfter(value, open))
  IN  IF OpenFrom(value, o) = {} \/ CloseAfter(value, open) = {}
      THEN {SubSeq(value, o, Len(value))}
      ELSE Replaced(SubSeq(value, o, open - 1),
                    Meaning(SubSeq(value, open + 2, close - 1), environment),
                    from[close + 1])

\* The loop at the offset o, and what it makes of the rest from there.
expand_from(value, environment, o, from) ==
  LET open  == Min(OpenFrom(value, o))
      close == Min(CloseAfter(value, open))
  IN  IF OpenFrom(value, o) = {} THEN {SubSeq(value, o, Len(value))}
      ELSE IF CloseAfter(value, open) = {} THEN {}
      ELSE Replaced(SubSeq(value, o, open - 1),
                    Meaning(SubSeq(value, open + 2, close - 1), environment),
                    from[close + 1])

expand_environment_placeholders(value, environment) ==
  LET from[o \in 1..(Len(value) + 1)] == expand_from(value, environment, o, from)
  IN  IF environment.given THEN from[1] ELSE {value}

require_string(field, environment) ==
  IF field.kind = "string"
  THEN expand_environment_placeholders(field.text, environment) ELSE {}

\* optional_string, optional_transport_string.
optional_string(field, environment) ==
  IF field.kind = "absent" THEN {<<>>} ELSE require_string(field, environment)

\* One result for every item, or none at all.
Each(results) ==
  {all \in [DOMAIN results -> UNION ToSet(results)] :
     \A i \in DOMAIN results : all[i] \in results[i]}

\* optional_string_array, optional_string_map (the values of the map).
optional_strings(field, environment) ==
  IF field.kind = "absent" THEN {<<>>}
  ELSE IF field.kind = "list"
  THEN Each([i \in 1..Len(field.items) |-> require_string(field.items[i], environment)])
  ELSE {}

\* get<std::int64_t>(): an unsigned number of 64 bits wraps; one that needs more
\* bits is a floating point number, and no integer.
AsInt64(n) == IF n > IntMax THEN n - 2 * (IntMax + 1) ELSE n

IsInteger(field) ==
  field.kind = "number" /\ field.number \in (-IntMax - 1)..(2 * IntMax + 1)

\* Mutant of optional_number: any integer will do.
optional_integer(field, least, default) ==
  IF field.kind = "absent" THEN {default}
  ELSE IF IsInteger(field) THEN {AsInt64(field.number)} ELSE {}

\* A number of at least least, or the default where the field is absent.
optional_number(field, least, default) ==
  IF field.kind = "absent" THEN {default}
  ELSE IF IsInteger(field) /\ AsInt64(field.number) >= least
  THEN {AsInt64(field.number)} ELSE {}

optional_flag(field, default) ==
  IF field.kind = "absent" THEN {default}
  ELSE IF field.kind = "boolean" THEN {field.flag} ELSE {}

SessionMode(text) ==
  IF text \in {<<"per_call">>, <<"per-call">>} THEN {"per_call"}
  ELSE IF text = <<"persistent">> THEN {"persistent"} ELSE {}

-----------------------------------------------------------------------------
(* Validation and merge.                                                   *)

Forbidden == {".", " ", "/"}

validate_upstream_id(id) ==
  id # <<>> /\ Len(id) <= MaxIdLength /\ \A i \in 1..Len(id) : id[i] \notin Forbidden

\* Mutant of validate_gateway_config: a disabled upstream's id is not inserted.
ValidateAmongEnabled(config) ==
  /\ config.name # <<>>
  /\ \A i \in 1..Len(config.upstreams) :
       LET u == config.upstreams[i] IN
       /\ validate_upstream_id(u.id)
       /\ \A j \in 1..(i - 1) : config.upstreams[j].enabled => config.upstreams[j].id # u.id
       /\ u.enabled => u.target # <<>> /\ u.timeout > 0

\* target is the command or the uri; the version is checked like the name.
validate_gateway_config(config) ==
  /\ config.name # <<>>
  /\ \A i \in 1..Len(config.upstreams) :
       LET u == config.upstreams[i] IN
       /\ validate_upstream_id(u.id)
       /\ \A j \in 1..(i - 1) : config.upstreams[j].id # u.id
       /\ u.enabled => u.target # <<>> /\ u.timeout > 0

validate_gateway_runtime_config(r) ==
  r.mode \in {"per_call", "persistent"} /\ r.pool # 0 /\ r.acquire >= 0 /\ r.drain >= 0

merge_gateway_config_upstreams(base, appended) ==
  {c \in {[base EXCEPT !.upstreams = @ \o appended.upstreams]} : validate_gateway_config(c)}

-----------------------------------------------------------------------------
(* JSON documents.                                                         *)

DefaultName   == <<"cxxmcp-gateway">>
DefaultConfig == [name |-> DefaultName, upstreams |-> <<>>]
DefaultRuntime ==
  [mode |-> "per_call", pool |-> 1, acquire |-> 0, drain |-> 0, prewarm |-> FALSE]

Transports == {<<"stdio">>, <<"http">>, <<"streamable_http">>}

\* Only an enabled upstream needs its command or uri.
target_from_json(json, environment) ==
  IF json.enabled.kind = "boolean" /\ ~json.enabled.flag
  THEN optional_string(json.target, environment)
  ELSE require_string(json.target, environment)

\* An upstream, with the texts that travel with it (args, cwd and env or headers).
upstream_from_json(json, environment) ==
  IF \/ json.kind # "object"
     \/ require_string(json.transport, environment) \cap Transports = {} THEN {}
  ELSE [id: require_string(json.id, environment),
        display_name: optional_string(json.displayName, environment),
        enabled: optional_flag(json.enabled, TRUE),
        target: target_from_json(json, environment),
        texts: optional_strings(json.texts, environment),
        timeout: optional_number(json.timeoutMs, 1, DefaultTimeout)]

\* The loop over the list of upstreams.
upstreams_from_json(items, environment) ==
  Each([i \in 1..Len(items) |-> upstream_from_json(items[i], environment)])

\* endpoint: the root has one of host, port and path.
gateway_config_from_json(json, environment) ==
  IF json.kind # "object" \/ json.endpoint \/ json.upstreams.kind # "list" THEN {}
  ELSE {c \in {[name |-> IF name = <<>> THEN DefaultName ELSE name, upstreams |-> upstreams] :
                 name \in optional_string(json.name, environment),
                 upstreams \in upstreams_from_json(json.upstreams.items, environment)} :
          validate_gateway_config(c)}

session_mode(json, environment) ==
  IF json.kind = "absent" THEN {DefaultRuntime.mode}
  ELSE UNION {SessionMode(t) : t \in require_string(json, environment)}

runtime_config_from_json(json, environment) ==
  LET r == json.runtime IN
  IF r.kind = "absent" THEN {DefaultRuntime}
  ELSE IF r.kind # "object" THEN {}
  ELSE {c \in [mode: session_mode(r.mode, environment),
              pool: optional_number(r.pool, 1, DefaultRuntime.pool),
              acquire: optional_number(r.acquire, 0, DefaultRuntime.acquire),
              drain: optional_number(r.drain, 0, DefaultRuntime.drain),
              prewarm: optional_flag(r.prewarm, DefaultRuntime.prewarm)] :
          validate_gateway_runtime_config(c)}

gateway_config_document_from_json(json, environment) ==
  LET config == gateway_config_from_json(json, environment) IN
  IF config = {} THEN {}
  ELSE [config: config, runtime: runtime_config_from_json(json, environment)]

-----------------------------------------------------------------------------
(* What the runtime is built from.                                         *)

\* make_gateway_runtime_options.
Settings(r) == [mode |-> r.mode, pool |-> r.pool, acquire |-> r.acquire, drain |-> r.drain]

make_gateway_runtime_options(r) ==
  {o \in {Settings(r)} : validate_gateway_runtime_config(r)}

\* Mutant of Normalised: the values are taken as they come.
TakenAsTheyCome(options) == options

\* The constructor of GatewayRuntime::Impl, which no host has to validate for.
Normalised(options) ==
  [mode    |-> IF options.mode \in {"per_call", "persistent"} THEN options.mode
               ELSE "per_call",
   pool    |-> IF options.pool < 1 THEN 1 ELSE options.pool,
   acquire |-> IF options.acquire < 0 THEN 0 ELSE options.acquire,
   drain   |-> IF options.drain < 0 THEN 0 ELSE options.drain]
=============================================================================
