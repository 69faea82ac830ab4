------------------------------- MODULE Launch -------------------------------
(***************************************************************************)
(* How a gateway comes to serve: the command line program                  *)
(* (gateway/cli/main.cpp), the example host                                *)
(* (examples/embedded_runtime_host.cpp) and any other host of the library, *)
(* which may load a document with an environment of its own, or construct  *)
(* the runtime from values nothing has validated.                          *)
(***************************************************************************)
EXTENDS Configuration

CONSTANTS
  PortMax,      \* the largest std::uint16_t
  Files,        \* what files hold: JSON, or nothing that can be read as JSON
  Lines,        \* options of a command line
  Documents,    \* what library hosts load, and
  Environments, \* the environments they load it with
  Configurations, Options   \* what hosts construct a runtime from

\* What is there is not absent, and lists are sequences.
IsList(s) == s \in Seq(ToSet(s))

IsDocument(document) ==
  /\ document.kind \notin {"absent", "none"}
  /\ document.kind = "object" /\ document.upstreams.kind = "list" =>
       LET items == document.upstreams.items IN
       /\ IsList(items)
       /\ \A i \in 1..Len(items) :
            items[i].kind = "object" /\ items[i].id.kind = "string" => IsList(items[i].id.text)

IsEnvironment(environment) ==
  environment.given => \A name \in DOMAIN environment.values : IsList(environment.values[name])

IsLine(line) ==
  /\ IsList(line)
  /\ \A i \in 1..Len(line) :
       /\ line[i].value.kind \notin {"absent", "none"}
       /\ line[i].option = "config" => IsDocument(line[i].value)

ASSUME GivenAssumption ==
  /\ \A line \in Lines : IsLine(line)
  /\ \A f \in Files \cup Documents : IsDocument(f)
  /\ \A e \in Environments : IsEnvironment(e)
  /\ \A o \in Options : o.pool \in Nat /\ o.acquire \in Int /\ o.drain \in Int

VARIABLES
  input,        \* what this host was started with
  stage,        \* where the host is
  args,         \* the options it has not read yet
  file,         \* what the file of --config holds; absent without the option
  overrides,    \* option -> the value given on the command line, or nothing
  endpoint,     \* HttpEndpoint: its host and its port
  config, runtime, options,
  impl,         \* the settings the runtime was constructed with
  contacted,    \* the upstreams the runtime has connected to, as positions
  exit          \* what the process exited with, or nothing

vars == <<input, stage, args, file, overrides, endpoint, config, runtime, options,
          impl, contacted, exit>>

NoEnvironment == [given |-> FALSE]
Overridable   == {"mode", "pool", "acquire", "drain", "prewarm"}

\* The options a host has.
Known(host) == IF host = "example" THEN {"mode", "pool", "prewarm", "host", "port", "upstream"}
               ELSE Overridable \cup {"config", "host", "port", "upstream"}

FileOption(document) == [option |-> "config", value |-> document]

Start(host, line, document, environment) ==
  /\ input = [host |-> host, args |-> line, document |-> document,
              environment |-> environment]
  /\ args = line
  /\ file = [kind |-> "none"]
  /\ overrides = [o \in Overridable |-> {}]
  /\ endpoint = [host |-> <<"127.0.0.1">>, port |-> 3000]
  /\ impl = {} /\ contacted = {} /\ exit = {}

\* A host starts with its command line, with a document to load, or with the
\* configuration and the runtime configuration or the options of a runtime.
Init ==
  \/ /\ \E line \in Lines :
          \/ \E h \in {"program", "example"} : Start(h, line, [kind |-> "none"], NoEnvironment)
          \/ \E f \in Files : Start("program", <<FileOption(f)>> \o line, [kind |-> "none"],
                                   NoEnvironment)
     /\ stage = "command" /\ config = DefaultConfig
     /\ runtime = DefaultRuntime /\ options = Settings(DefaultRuntime)
  \/ /\ \E d \in Documents, e \in Environments : Start("library", <<>>, d, e)
     /\ stage = "load" /\ config = DefaultConfig
     /\ runtime = DefaultRuntime /\ options = Settings(DefaultRuntime)
  \/ /\ Start("library", <<>>, [kind |-> "none"], NoEnvironment)
     /\ stage \in {"override", "construct"}
     /\ config \in Configurations /\ options \in Options
     /\ runtime = [setting \in Overridable |->
                    IF setting = "prewarm" THEN FALSE ELSE options[setting]]

Goto(s) == stage' = s /\ UNCHANGED exit
Exit(code) == stage' = "exited" /\ exit' = {code}

\* A library host gets the error, and ends as it likes.
Refuse(code) == IF input.host = "library" THEN Exit(0) ELSE Exit(code)

-----------------------------------------------------------------------------
(* The command line.                                                       *)

\* The first argument: serve, one that is answered at once, or an unknown one.
\* (The example serves without being told to.)
Command ==
  /\ stage = "command"
  /\ \/ Goto("options")
     \/ Exit(0)
     \/ input.host = "program" /\ Exit(2)
  /\ UNCHANGED <<input, args, file, overrides, endpoint, config, runtime, options, impl,
                 contacted>>

Between(value, least, most) ==
  IF value.kind = "number" /\ value.number \in least..most THEN {value.number} ELSE {}

\* parse_session_mode, parse_positive_size, parse_nonnegative_milliseconds; the
\* flags (--prewarm, and --persistent of the example) have no value to read.
\* from_chars refuses what does not fit the type.
OverrideOf(arg) ==
  CASE arg.option = "mode" -> IF input.host = "example" THEN {"persistent"}
                              ELSE SessionMode(arg.value.text)
    [] arg.option = "pool" -> Between(arg.value, 1, 2 * IntMax + 1)
    [] arg.option \in {"acquire", "drain"} -> Between(arg.value, 0, IntMax)
    [] arg.option = "prewarm" -> {TRUE}

\* The last one wins.
ReadOverride(arg) ==
  /\ arg.option \in Overridable
  /\ \E v \in OverrideOf(arg) : overrides' = [overrides EXCEPT ![arg.option] = {v}]
  /\ UNCHANGED <<file, endpoint, config>>

ReadConfigFile(arg) ==
  /\ arg.option = "config"
  /\ file' = arg.value
  /\ UNCHANGED <<overrides, endpoint, config>>

\* parse_port.
ReadEndpoint(arg) ==
  /\ \/ arg.option = "host" /\ endpoint' = [endpoint EXCEPT !.host = arg.value.text]
     \/ /\ arg.option = "port"
        /\ \E port \in Between(arg.value, 1, PortMax) :
             endpoint' = [endpoint EXCEPT !.port = port]
  /\ UNCHANGED <<overrides, file, config>>

\* split_assignment.
ReadUpstream(arg) ==
  /\ arg.option = "upstream"
  /\ arg.value.id # <<>> /\ arg.value.target # <<>>
  /\ config' = [config EXCEPT !.upstreams =
                  Append(@, [id |-> arg.value.id, enabled |-> TRUE,
                             target |-> arg.value.target, timeout |-> DefaultTimeout,
                             display_name |-> <<>>, texts |-> <<>>])]
  /\ UNCHANGED <<overrides, file, endpoint>>

\* An option without its value is of no option's kind.
Readable(arg) ==
  /\ arg.option \in Known(input.host)
  /\ CASE arg.option \in Overridable -> OverrideOf(arg) # {}
       [] arg.option = "port"     -> Between(arg.value, 1, PortMax) # {}
       [] arg.option = "upstream" -> arg.value.id # <<>> /\ arg.value.target # <<>>
       [] OTHER -> TRUE

ReadOption ==
  /\ stage = "options" /\ args # <<>> /\ Head(args).option \in Known(input.host)
  /\ args' = Tail(args)
  /\ LET arg == Head(args) IN
     \/ ReadOverride(arg) \/ ReadConfigFile(arg) \/ ReadEndpoint(arg) \/ ReadUpstream(arg)
  /\ UNCHANGED <<input, stage, runtime, options, impl, contacted, exit>>

RefuseOption ==
  /\ stage = "options" /\ args # <<>> /\ ~Readable(Head(args))
  /\ Exit(2)
  /\ UNCHANGED <<input, args, file, overrides, endpoint, config, runtime, options, impl,
                 contacted>>

OptionsEnd ==
  /\ stage = "options" /\ args = <<>>
  /\ Goto(IF file.kind = "none" THEN "override" ELSE "load")
  /\ UNCHANGED <<input, args, file, overrides, endpoint, config, runtime, options, impl,
                 contacted>>

-----------------------------------------------------------------------------
(* Loading, merging and overriding.                                        *)

\* The document, which may not open or be no JSON at all, and what it is read
\* with: the program passes no environment.
Document    == IF input.host = "library" THEN input.document ELSE file
Environment == IF input.host = "library" THEN input.environment ELSE NoEnvironment

Loaded(document, environment) ==
  IF document.kind = "unreadable" THEN {}
  ELSE gateway_config_document_from_json(document, environment)

\* A library host has nothing to merge.
Merged(loaded) ==
  IF input.host = "library" THEN {loaded.config}
  ELSE merge_gateway_config_upstreams(loaded.config, config)

Load ==
  /\ stage = "load"
  /\ \/ \E loaded \in Loaded(Document, Environment) :
          /\ runtime' = loaded.runtime
          /\ \/ \E merged \in Merged(loaded) : config' = merged /\ Goto("override")
             \/ Merged(loaded) = {} /\ Refuse(2) /\ UNCHANGED config
     \/ /\ Loaded(Document, Environment) = {}
        /\ Refuse(2) /\ UNCHANGED <<config, runtime>>
  /\ UNCHANGED <<input, args, file, overrides, endpoint, options, impl, contacted>>

\* Mutant of Overridden: the command line only replaces the defaults.
OverriddenDefaults(r) ==
  [o \in Overridable |-> IF overrides[o] # {} /\ r[o] = DefaultRuntime[o]
                         THEN CHOOSE v \in overrides[o] : TRUE ELSE r[o]]

Overridden(r) ==
  [o \in Overridable |-> IF overrides[o] # {} THEN CHOOSE v \in overrides[o] : TRUE ELSE r[o]]

\* The example sets the options itself, and validates the configuration.
Override ==
  /\ stage = "override"
  /\ runtime' = Overridden(runtime)
  /\ \/ \E o \in IF input.host = "example" THEN {Settings(runtime')}
                 ELSE make_gateway_runtime_options(runtime') :
          /\ options' = o
          /\ IF \/ input.host # "library" /\ config.upstreams = <<>>
                \/ input.host = "example" /\ ~validate_gateway_config(config)
             THEN Exit(2) ELSE Goto("construct")
     \/ /\ input.host # "example" /\ make_gateway_runtime_options(runtime') = {}
        /\ Refuse(2) /\ UNCHANGED options
  /\ UNCHANGED <<input, args, file, overrides, endpoint, config, impl, contacted>>

-----------------------------------------------------------------------------
(* The runtime.                                                            *)

Construct ==
  /\ stage = "construct"
  /\ impl' = {Normalised(options)}
  /\ Goto(IF input.host # "library" /\ ~runtime.prewarm THEN "start" ELSE "refresh")
  /\ UNCHANGED <<input, args, file, overrides, endpoint, config, runtime, options, contacted>>

Enabled == {i \in 1..Len(config.upstreams) : config.upstreams[i].enabled}

\* Mutant of RefreshStarts: the configuration is taken to have been validated when
\* it was loaded.
RefreshRegardless == TRUE

\* refresh_upstream_capabilities validates first, whoever constructed the
\* runtime, and stops at the first upstream that fails.
RefreshStarts == validate_gateway_config(config)

Refresh ==
  /\ stage = "refresh"
  /\ \/ /\ RefreshStarts
        /\ \/ contacted' = contacted \cup Enabled /\ Goto("start")
           \/ \E failed \in Enabled :
                /\ contacted' = contacted \cup {i \in Enabled : i <= failed}
                /\ Refuse(1)
     \/ ~RefreshStarts /\ Refuse(1) /\ UNCHANGED contacted
  /\ UNCHANGED <<input, args, file, overrides, endpoint, config, runtime, options, impl>>

\* A library host need not refresh.
SkipRefresh ==
  /\ stage = "refresh" /\ input.host = "library"
  /\ Goto("start")
  /\ UNCHANGED <<input, args, file, overrides, endpoint, config, runtime, options, impl,
                 contacted>>

\* start_http: the endpoint and the configuration must be valid, and the SDK able
\* to serve.
StartHttp ==
  /\ stage = "start"
  /\ \/ /\ endpoint.host # <<>> /\ endpoint.port # 0 /\ validate_gateway_config(config)
        /\ Goto("serving")
     \/ Refuse(1)
  /\ UNCHANGED <<input, args, file, overrides, endpoint, config, runtime, options, impl,
                 contacted>>

\* An operation reaches an enabled upstream: one that the endpoint serves, or one
\* that a host of the library calls itself, before or without an endpoint.  Each
\* validates first.
Operate ==
  /\ \/ stage = "serving"
     \/ input.host = "library" /\ stage \in {"refresh", "start"}
  /\ validate_gateway_config(config)
  /\ \E i \in Enabled : contacted' = contacted \cup {i}
  /\ UNCHANGED <<input, stage, args, file, overrides, endpoint, config, runtime, options,
                 impl, exit>>

\* wait() returns, with an error or without; the destructor stops the rest.
Wait ==
  /\ stage = "serving"
  /\ \E code \in {0, 1} : Exit(code)
  /\ UNCHANGED <<input, args, file, overrides, endpoint, config, runtime, options, impl,
                 contacted>>

Next ==
  \/ Command \/ ReadOption \/ RefuseOption \/ OptionsEnd
  \/ Load \/ Override \/ Construct
  \/ Refresh \/ SkipRefresh \/ StartHttp \/ Operate \/ Wait

LaunchSpec == Init /\ [][Next]_vars

-----------------------------------------------------------------------------
(* Properties.                                                             *)

\* Types; the settings a runtime works with are usable whatever it was
\* constructed from (the assumption OptionsAssumption of GatewayRuntime), and
\* every host that ended has one exit code.
LaunchTypeOK ==
  /\ stage \in {"command", "options", "load", "override", "construct", "refresh", "start",
                "serving", "exited"}
  /\ DOMAIN overrides = Overridable
  /\ overrides.mode \subseteq {"per_call", "persistent"} /\ overrides.prewarm \subseteq {TRUE}
  /\ \A setting \in {"pool", "acquire", "drain"} : overrides[setting] \subseteq Nat
  /\ \A r \in {runtime, options} :
       r.pool \in Nat /\ r.acquire \in Int /\ r.drain \in Int
  /\ impl \subseteq [mode: {"per_call", "persistent"}, pool: Nat \ {0}, acquire: Nat,
                     drain: Nat]
  /\ exit \subseteq {0, 1, 2} /\ (exit # {} <=> stage = "exited")

\* A configuration that the routing can work with.
Sound(c) ==
  LET upstreams == {c.upstreams[i] : i \in 1..Len(c.upstreams)} IN
  /\ c.name # <<>>
  /\ \A i, j \in 1..Len(c.upstreams) :
       c.upstreams[i].id = c.upstreams[j].id => i = j
  /\ \A u \in upstreams :
       /\ u.id # <<>> /\ Len(u.id) <= MaxIdLength
       /\ {u.id[i] : i \in 1..Len(u.id)} \cap Forbidden = {}
       /\ u.enabled => u.target # <<>> /\ u.timeout > 0

\* No upstream is connected to, and nothing is served, under a configuration that
\* is not valid, though each way to a runtime validates at another place and
\* time, or not at all; and no disabled upstream is ever connected to
\* (docs/getting_started.md:207: duplicate ids fail before the endpoint starts).
OnlyValidIsContacted ==
  contacted # {} \/ stage = "serving" => Sound(config) /\ contacted \subseteq Enabled

\* The first k options of the command line that give an option, by position.
Giving(option, k) == {i \in 1..k : input.args[i].option = option}

\* What is written about a setting: by the last option of the command line that
\* names it, else by the file, else nowhere.
LastOf(option) ==
  LET at == Giving(option, Len(input.args)) IN
  IF at = {} THEN Missing ELSE input.args[Max(at)].value

FromFile ==
  LET document == LastOf("config") IN
  [setting \in Overridable |->
     IF document.kind = "object" /\ document.runtime.kind = "object"
     THEN document.runtime[setting] ELSE Missing]

Written ==
  [setting \in Overridable |->
     IF LastOf(setting).kind # "absent" THEN LastOf(setting) ELSE FromFile[setting]]

\* The numbers and the mode of s are the written ones, or else the defaults.
SettingsAre(s, written) ==
  /\ \A setting \in {"pool", "acquire", "drain"} :
       s[setting] = IF written[setting].kind = "absent" THEN DefaultRuntime[setting]
                    ELSE written[setting].number
  /\ s.mode = IF written.mode.kind = "absent" THEN DefaultRuntime.mode
              ELSE IF \/ input.host = "example"
                      \/ written.mode.text = <<"persistent">> THEN "persistent"
              ELSE "per_call"

FileSaysPrewarm == FromFile.prewarm.kind = "boolean" /\ FromFile.prewarm.flag

\* The upstreams that the file lists.
FileUpstreams ==
  LET document == LastOf("config") IN
  IF document.kind = "object" THEN document.upstreams.items ELSE <<>>

\* The upstreams of the configuration are those listed, then those of the first k
\* options of the command line.
UpstreamsAre(listed, k) ==
  LET Position(i) == Len(listed) + Cardinality(Giving("upstream", i)) IN
  /\ Len(config.upstreams) = Position(k)
  /\ \A i \in 1..Len(listed) : config.upstreams[i].id = listed[i].id.text
  /\ \A i \in Giving("upstream", k) :
       config.upstreams[Position(i)].id = input.args[i].value.id

\* What a program's runtime is constructed from is what was written: its
\* upstreams are those of the file, then those of the command line, each in its
\* order, none lost and under the ids as they are written; its settings are the
\* number, the mode and the flag as they are written (never what a number
\* wrapped to or an operation clamped), on the command line before the file
\* before the default; and the flag of the command line cannot be unset by the
\* file (docs/getting_started.md:203-212).
ConstructedAsWritten ==
  \A s \in impl : input.host # "library" =>
    /\ UpstreamsAre(FileUpstreams, Len(input.args))
    /\ SettingsAre(s, Written)
    /\ runtime.prewarm <=> LastOf("prewarm").kind # "absent" \/ FileSaysPrewarm

\* A reading of a text cuts it into pieces, the k-th of which ends at ends[k].
Begin(ends, k) == IF k = 1 THEN 1 ELSE ends[k - 1] + 1

IsPlaceholder(value, begin, end) ==
  begin \in Openings(value) /\ {i \in Closings(value) : i \in begin..end} = {end}

IsPlain(value, begin, end) == \A i \in begin..(end - 1) : i \notin Openings(value)

InOrder(positions) ==
  [k \in 1..Cardinality(positions) |->
     CHOOSE i \in positions : Cardinality({j \in positions : j <= i}) = k]

\* Its pieces are placeholders, each closed by its first brace, and plain runs in
\* which none opens, no two of them side by side.
Readings(value) ==
  LET n == Len(value) IN
  {ends \in {InOrder(cuts \cup {n}) : cuts \in SUBSET (1..(n - 1))} :
     /\ \A k \in DOMAIN ends : \/ IsPlaceholder(value, Begin(ends, k), ends[k])
                               \/ IsPlain(value, Begin(ends, k), ends[k])
     /\ \A k \in 2..Len(ends) :
          \/ IsPlaceholder(value, Begin(ends, k - 1), ends[k - 1])
          \/ IsPlaceholder(value, Begin(ends, k), ends[k])}

\* What its pieces mean: every placeholder is replaced, once, and what replaces it
\* not looked at again.
MeaningOf(value, ends, environment) ==
  Each([k \in 1..Len(ends) |->
          IF IsPlaceholder(value, Begin(ends, k), ends[k])
          THEN Meaning(SubSeq(value, Begin(ends, k) + 2, ends[k] - 1), environment)
          ELSE {SubSeq(value, Begin(ends, k), ends[k])}])

\* What a text becomes, with an environment or without one.
IsReadAs(value, id, environment) ==
  IF ~environment.given THEN id = value
  ELSE \E ends \in Readings(value) :
         \E meaning \in MeaningOf(value, ends, environment) : id = FlattenSeq(meaning)

\* The ids of a document that a host loads with an environment are what the
\* readings of the texts mean, and a document with a text that has none is
\* refused (docs/getting_started.md:209-212); without an environment they are
\* the texts.
ExpansionIsSinglePass ==
  input.host = "library" /\ input.document.kind = "object" =>
    \A i \in 1..Len(config.upstreams) :
      IsReadAs(input.document.upstreams.items[i].id.text, config.upstreams[i].id,
               input.environment)
=============================================================================
