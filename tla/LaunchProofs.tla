---------------------------- MODULE LaunchProofs ----------------------------
(***************************************************************************)
(* Theorems about Launch, for every file, command line, environment,       *)
(* configuration and set of options.                                       *)
(***************************************************************************)
EXTENDS Launch, Foundations

-----------------------------------------------------------------------------
(* Type correctness.                                                       *)

\* A number the loader returns is an integer, no less than it must be.
LEMMA NumberIsBounded ==
  ASSUME NEW field, NEW least \in Int, NEW default \in Int, default >= least,
         NEW n \in optional_number(field, least, default)
  PROVE  n \in Int /\ n >= least
<1>1. CASE field.kind = "absent"
  BY <1>1 DEF optional_number
<1>2. CASE field.kind # "absent" /\ IsInteger(field) /\ AsInt64(field.number) >= least
  <2>1. AsInt64(field.number) \in Int
    BY <1>2, ConfigurationAssumption DEF IsInteger, AsInt64
  <2>2. n = AsInt64(field.number)
    BY <1>2 DEF optional_number
  <2> QED
    BY <1>2, <2>1, <2>2
<1>3. CASE field.kind # "absent" /\ ~(IsInteger(field) /\ AsInt64(field.number) >= least)
  BY <1>3 DEF optional_number
<1> QED
  BY <1>1, <1>2, <1>3

\* The numbers of a runtime configuration that was read are those of its type.
LEMMA LoadedRuntimeType ==
  ASSUME NEW document, NEW environment, NEW loaded \in Loaded(document, environment)
  PROVE  /\ loaded.runtime.pool \in Nat
         /\ loaded.runtime.acquire \in Int /\ loaded.runtime.drain \in Int
<1>1. PICK r \in runtime_config_from_json(document, environment) : loaded.runtime = r
  BY DEF Loaded, gateway_config_document_from_json
<1>2. CASE document.runtime.kind = "absent"
  BY <1>1, <1>2 DEF runtime_config_from_json, DefaultRuntime
<1>3. CASE document.runtime.kind = "object"
  <2>1. /\ r.pool \in optional_number(document.runtime.pool, 1, DefaultRuntime.pool)
        /\ r.acquire \in optional_number(document.runtime.acquire, 0,
                                         DefaultRuntime.acquire)
        /\ r.drain \in optional_number(document.runtime.drain, 0, DefaultRuntime.drain)
    BY <1>1, <1>3 DEF runtime_config_from_json
  <2>2. DefaultRuntime.pool = 1 /\ DefaultRuntime.acquire = 0 /\ DefaultRuntime.drain = 0
    BY DEF DefaultRuntime
  <2>3. r.pool \in Int /\ r.pool >= 1
    BY <2>1, <2>2, NumberIsBounded
  <2>4. r.acquire \in Int /\ r.drain \in Int
    BY <2>1, <2>2, NumberIsBounded
  <2> QED
    BY <1>1, <2>3, <2>4
<1>4. CASE document.runtime.kind \notin {"absent", "object"}
  BY <1>1, <1>4 DEF runtime_config_from_json
<1> QED
  BY <1>2, <1>3, <1>4

\* What is the same however a host starts.
LEMMA InitFresh ==
  ASSUME Init
  PROVE  /\ overrides = [o \in Overridable |-> {}] /\ impl = {} /\ contacted = {}
         /\ exit = {} /\ stage \in {"command", "load", "override", "construct"}
<1>1. ASSUME NEW host, NEW line, NEW document, NEW environment,
             Start(host, line, document, environment)
      PROVE  /\ overrides = [o \in Overridable |-> {}] /\ impl = {} /\ contacted = {}
             /\ exit = {}
  BY <1>1 DEF Start
<1>2. /\ \E host, line, document, environment : Start(host, line, document, environment)
      /\ stage \in {"command", "load", "override", "construct"}
  BY Zenon DEF Init
<1> QED
  BY <1>1, <1>2

LEMMA InitLaunchTypeOK == Init => LaunchTypeOK
<1> SUFFICES ASSUME Init PROVE LaunchTypeOK
  OBVIOUS
<1>1. /\ overrides = [o \in Overridable |-> {}] /\ impl = {} /\ exit = {}
      /\ stage \in {"command", "load", "override", "construct"}
  BY InitFresh
<1>2. /\ DefaultRuntime.pool \in Nat
      /\ DefaultRuntime.acquire \in Int /\ DefaultRuntime.drain \in Int
      /\ Settings(DefaultRuntime).pool \in Nat
      /\ Settings(DefaultRuntime).acquire \in Int /\ Settings(DefaultRuntime).drain \in Int
  BY DEF DefaultRuntime, Settings
<1>3. /\ options.pool \in Nat /\ options.acquire \in Int /\ options.drain \in Int
      /\ runtime.pool \in Nat /\ runtime.acquire \in Int /\ runtime.drain \in Int
  <2>1. CASE runtime = DefaultRuntime /\ options = Settings(DefaultRuntime)
    BY <1>2, <2>1
  <2>2. CASE /\ options \in Options
             /\ runtime = [setting \in Overridable |->
                             IF setting = "prewarm" THEN FALSE ELSE options[setting]]
    BY <2>2, GivenAssumption DEF Overridable
  <2> QED
    BY <2>1, <2>2 DEF Init
<1> QED
  BY <1>1, <1>3 DEF LaunchTypeOK, Overridable

\* An option given on the command line has a value of the setting's type.
LEMMA OverrideType ==
  ASSUME NEW arg, arg.option \in Overridable, NEW v \in OverrideOf(arg)
  PROVE  /\ arg.option = "mode" => v \in {"per_call", "persistent"}
         /\ arg.option = "prewarm" => v = TRUE
         /\ arg.option \in {"pool", "acquire", "drain"} => v \in Nat
<1>1. CASE arg.option = "mode"
  <2>1. v = "persistent" \/ v \in SessionMode(arg.value.text)
    BY <1>1 DEF OverrideOf
  <2> QED
    BY <1>1, <2>1 DEF SessionMode
<1>2. CASE arg.option = "pool"
  BY <1>2, ConfigurationAssumption DEF OverrideOf, Between
<1>3. CASE arg.option \in {"acquire", "drain"}
  <2>1. OverrideOf(arg) = Between(arg.value, 0, IntMax)
    BY <1>3 DEF OverrideOf
  <2>2. v \in Nat
    BY <2>1, ConfigurationAssumption DEF Between
  <2> QED
    BY <1>3, <2>2
<1>4. CASE arg.option = "prewarm"
  BY <1>4 DEF OverrideOf
<1> QED
  BY <1>1, <1>2, <1>3, <1>4 DEF Overridable

LEMMA StepLaunchTypeOK == LaunchTypeOK /\ [Next]_vars => LaunchTypeOK'
<1> SUFFICES ASSUME LaunchTypeOK, [Next]_vars PROVE LaunchTypeOK'
  OBVIOUS
<1> USE DEF LaunchTypeOK, Goto, Exit, Refuse
<1>1. CASE Command
  BY <1>1 DEF Command
<1>2. CASE ReadOption
  <2>1. UNCHANGED <<stage, runtime, options, impl, exit>>
    BY <1>2 DEF ReadOption
  <2>2. CASE UNCHANGED overrides
    BY <2>1, <2>2
  <2>3. CASE ReadOverride(Head(args))
    <3> DEFINE arg == Head(args)
    <3>1. PICK v \in OverrideOf(arg) : overrides' = [overrides EXCEPT ![arg.option] = {v}]
      BY <2>3 DEF ReadOverride
    <3>2. arg.option \in Overridable
      BY <2>3 DEF ReadOverride
    <3>3. /\ arg.option = "mode" => v \in {"per_call", "persistent"}
          /\ arg.option = "prewarm" => v = TRUE
          /\ arg.option \in {"pool", "acquire", "drain"} => v \in Nat
      BY <3>2, OverrideType
    <3> HIDE DEF arg
    <3>4. DOMAIN overrides' = Overridable
      BY <3>1
    <3>5. /\ overrides'.mode \subseteq {"per_call", "persistent"}
          /\ overrides'.prewarm \subseteq {TRUE}
          /\ \A setting \in {"pool", "acquire", "drain"} : overrides'[setting] \subseteq Nat
      BY <3>1, <3>2, <3>3 DEF Overridable
    <3> QED
      BY <2>1, <3>4, <3>5
  <2> QED
    BY <1>2, <2>2, <2>3 DEF ReadOption, ReadConfigFile, ReadEndpoint, ReadUpstream
<1>3. CASE RefuseOption
  BY <1>3 DEF RefuseOption
<1>4. CASE OptionsEnd
  BY <1>4 DEF OptionsEnd
<1>5. CASE Load
  <2>1. /\ runtime'.pool \in Nat /\ runtime'.acquire \in Int /\ runtime'.drain \in Int
    BY <1>5, LoadedRuntimeType DEF Load
  <2>2. /\ UNCHANGED <<overrides, options, impl>>
        /\ \/ stage' = "override" /\ exit' = exit
           \/ stage' = "exited" /\ exit' \in {{0}, {2}}
    BY <1>5 DEF Load
  <2> QED
    BY <1>5, <2>1, <2>2 DEF Load
<1>6. CASE Override
  <2>1. runtime' = Overridden(runtime)
    BY <1>6 DEF Override
  <2>2. \A o \in {"pool", "acquire", "drain"} :
          runtime'[o] = runtime[o] \/ runtime'[o] \in Nat
    <3>1. ASSUME NEW o \in {"pool", "acquire", "drain"}, overrides[o] # {}
          PROVE  (CHOOSE v \in overrides[o] : TRUE) \in Nat
      BY <3>1
    <3> QED
      BY <2>1, <3>1 DEF Overridden, Overridable
  <2>3. /\ runtime'.pool \in Nat /\ runtime'.acquire \in Int /\ runtime'.drain \in Int
    BY <2>2
  <2>4. options' = options \/ options' = Settings(runtime')
    BY <1>6 DEF Override, make_gateway_runtime_options
  <2>5. options'.pool \in Nat /\ options'.acquire \in Int /\ options'.drain \in Int
    BY <2>3, <2>4 DEF Settings
  <2>6. /\ UNCHANGED <<overrides, impl>>
        /\ \/ stage' = "construct" /\ exit' = exit
           \/ stage' = "exited" /\ exit' \in {{0}, {2}}
    BY <1>6 DEF Override
  <2> QED
    BY <1>6, <2>3, <2>5, <2>6 DEF Override
<1>7. CASE Construct
  <2>1. Normalised(options) \in [mode: {"per_call", "persistent"}, pool: Nat \ {0},
                                 acquire: Nat, drain: Nat]
    BY DEF Normalised
  <2> QED
    BY <1>7, <2>1 DEF Construct
<1>8. CASE Refresh
  BY <1>8 DEF Refresh
<1>9. CASE SkipRefresh
  BY <1>9 DEF SkipRefresh
<1>10. CASE StartHttp
  BY <1>10 DEF StartHttp
<1>11. CASE Operate
  BY <1>11 DEF Operate
<1>12. CASE Wait
  BY <1>12 DEF Wait
<1>13. CASE UNCHANGED vars
  BY <1>13 DEF vars
<1> QED
  BY <1>1, <1>2, <1>3, <1>4, <1>5, <1>6, <1>7, <1>8, <1>9, <1>10, <1>11, <1>12, <1>13
     DEF Next

\* Whatever a host starts with, the runtime it constructs works with at least one
\* slot, no negative bound and a known mode.
THEOREM LaunchTypes == LaunchSpec => []LaunchTypeOK
<1>1. Init => LaunchTypeOK
  BY InitLaunchTypeOK
<1>2. LaunchTypeOK /\ [Next]_vars => LaunchTypeOK'
  BY StepLaunchTypeOK
<1> QED
  BY <1>1, <1>2, PTL DEF LaunchSpec

-----------------------------------------------------------------------------
(* Nothing is contacted under a configuration that is not valid.           *)

\* What the validation accepts, the routing can work with.
LEMMA ValidIsSound ==
  ASSUME NEW c, validate_gateway_config(c) PROVE Sound(c)
<1> DEFINE positions == 1..Len(c.upstreams)
<1>1. c.name # <<>>
  BY DEF validate_gateway_config
<1>2. ASSUME NEW i \in positions, NEW j \in positions,
             c.upstreams[i].id = c.upstreams[j].id
      PROVE  i = j
  <2>1. i \in Int /\ j \in Int
    OBVIOUS
  <2>2. ~(j < i) /\ ~(i < j)
    <3>1. j < i => j \in 1..(i - 1)
      BY <2>1
    <3>2. i < j => i \in 1..(j - 1)
      BY <2>1
    <3> QED
      BY <1>2, <3>1, <3>2 DEF validate_gateway_config
  <2> QED
    BY <2>1, <2>2
<1>3. ASSUME NEW i \in positions
      PROVE  LET u == c.upstreams[i] IN
             /\ u.id # <<>> /\ Len(u.id) <= MaxIdLength
             /\ {u.id[k] : k \in 1..Len(u.id)} \cap Forbidden = {}
             /\ u.enabled => u.target # <<>> /\ u.timeout > 0
  BY <1>3 DEF validate_gateway_config, validate_upstream_id
<1> QED
  BY <1>1, <1>2, <1>3 DEF Sound

\* A connection is made only once the runtime is there, and the configuration has
\* not changed since it was constructed.
ContactIsLate ==
  /\ contacted # {} => stage \in {"refresh", "start", "serving", "exited"}
  /\ contacted # {} \/ stage = "serving" =>
       validate_gateway_config(config) /\ contacted \subseteq Enabled

LEMMA StepContactIsLate == ContactIsLate /\ [Next]_vars => ContactIsLate'
<1> SUFFICES ASSUME ContactIsLate, [Next]_vars PROVE ContactIsLate'
  OBVIOUS
<1> USE DEF ContactIsLate, Goto, Exit, Refuse
<1>1. CASE Command
  BY <1>1 DEF Command
<1>2. CASE ReadOption
  BY <1>2 DEF ReadOption
<1>3. CASE RefuseOption
  BY <1>3 DEF RefuseOption
<1>4. CASE OptionsEnd
  BY <1>4 DEF OptionsEnd
<1>5. CASE Load
  <2>1. contacted' = {} /\ stage' # "serving"
    BY <1>5 DEF Load
  <2> QED
    BY <2>1
<1>6. CASE Override
  <2>1. contacted' = {} /\ stage' # "serving"
    BY <1>6 DEF Override
  <2> QED
    BY <2>1
<1>7. CASE Construct
  BY <1>7 DEF Construct
<1>8. CASE Refresh
  <2>1. contacted \subseteq Enabled /\ config' = config /\ Enabled' = Enabled
    BY <1>8 DEF Refresh, Enabled
  <2>2. CASE RefreshStarts
    BY <1>8, <2>1, <2>2 DEF Refresh, RefreshStarts
  <2>3. CASE ~RefreshStarts
    <3>1. contacted' = contacted /\ stage' = "exited" /\ config' = config
      BY <1>8, <2>3 DEF Refresh
    <3> QED
      BY <2>1, <3>1
  <2> QED
    BY <2>2, <2>3
<1>9. CASE SkipRefresh
  BY <1>9 DEF SkipRefresh, Enabled
<1>10. CASE StartHttp
  BY <1>10 DEF StartHttp, Enabled
<1>11. CASE Operate
  BY <1>11 DEF Operate, Enabled
<1>12. CASE Wait
  BY <1>12 DEF Wait, Enabled
<1>13. CASE UNCHANGED vars
  BY <1>13 DEF vars, Enabled
<1> QED
  BY <1>1, <1>2, <1>3, <1>4, <1>5, <1>6, <1>7, <1>8, <1>9, <1>10, <1>11, <1>12, <1>13
     DEF Next

\* Whichever way a runtime comes to be, no upstream is connected to and nothing
\* is served under a configuration that is not valid.
THEOREM OnlyValidContacted == LaunchSpec => []OnlyValidIsContacted
<1>1. Init => ContactIsLate
  BY InitFresh DEF ContactIsLate
<1>2. ContactIsLate /\ [Next]_vars => ContactIsLate'
  BY StepContactIsLate
<1>3. ContactIsLate => OnlyValidIsContacted
  BY ValidIsSound DEF ContactIsLate, OnlyValidIsContacted
<1> QED
  BY <1>1, <1>2, <1>3, PTL DEF LaunchSpec

-----------------------------------------------------------------------------
(* A program's runtime is constructed from what was written.               *)

\* How many options of the command line have been read.
Read == Len(input.args) - Len(args)

\* What is left of the command line is its end, and the host has the options that
\* were read.
ArgsLeft ==
  /\ IsLine(input.args) /\ IsList(args) /\ Read \in Nat
  /\ \A i \in 1..Len(args) : args[i] = input.args[Read + i]
  /\ \A i \in 1..Read : input.args[i].option \in Known(input.host)

\* The last of the first k options that give an option is what counts.
OverridesAre(k) ==
  \A o \in Overridable :
    IF Giving(o, k) = {} THEN overrides[o] = {}
    ELSE overrides[o] # {} /\ overrides[o] = OverrideOf(input.args[Max(Giving(o, k))])

FileIs(k) ==
  file = IF Giving("config", k) = {} THEN [kind |-> "none"]
         ELSE input.args[Max(Giving("config", k))].value

\* Settings that construction takes as they are.
Usable(r) ==
  /\ r.mode \in {"per_call", "persistent"}
  /\ r.pool \in Nat \ {0} /\ r.acquire \in Nat /\ r.drain \in Nat

\* While the command line is read, what was read of it is there.
StillReading ==
  /\ OverridesAre(Read) /\ FileIs(Read)
  /\ "upstreams" \in DOMAIN config /\ IsList(config.upstreams)
  /\ UpstreamsAre(<<>>, Read) /\ runtime = DefaultRuntime /\ impl = {}

\* Then the upstreams and the settings of the file have come in.
ReadyToOverride ==
  /\ OverridesAre(Len(input.args)) /\ impl = {}
  /\ UpstreamsAre(FileUpstreams, Len(input.args))
  /\ SettingsAre(runtime, FromFile) /\ Usable(runtime)
  /\ runtime.prewarm <=> FileSaysPrewarm

\* And the settings of the command line have replaced them.
ReadyToConstruct ==
  /\ UpstreamsAre(FileUpstreams, Len(input.args)) /\ impl = {}
  /\ SettingsAre(options, Written) /\ Usable(options)
  /\ runtime.prewarm <=> LastOf("prewarm").kind # "absent" \/ FileSaysPrewarm

\* What a program has got from its command line and its file, at each stage.
AsRead ==
  /\ ArgsLeft
  /\ stage \in {"command", "options", "load"} => StillReading
  /\ stage = "load" => args = <<>> /\ file.kind # "none"
  /\ stage = "override" => ReadyToOverride
  /\ stage = "construct" => ReadyToConstruct
  /\ impl # {} => stage \in {"refresh", "start", "serving", "exited"}

\* The inductive invariant of what is written.
LaunchInv == (input.host # "library" => AsRead) /\ ConstructedAsWritten

\* The positions of an option, when one more option is looked at.
LEMMA GivingMore ==
  ASSUME NEW option, NEW k \in Nat
  PROVE  /\ Giving(option, k) \in SUBSET (1..k)
         /\ input.args[k + 1].option = option =>
              /\ Giving(option, k + 1) = Giving(option, k) \cup {k + 1}
              /\ Giving(option, k + 1) # {} /\ Max(Giving(option, k + 1)) = k + 1
         /\ input.args[k + 1].option # option => Giving(option, k + 1) = Giving(option, k)
<1>1. Giving(option, k) \in SUBSET (1..k)
  BY DEF Giving
<1>2. \A i : i \in 1..(k + 1) <=> i \in 1..k \/ i = k + 1
  OBVIOUS
<1>3. CASE input.args[k + 1].option = option
  <2>1. Giving(option, k + 1) = Giving(option, k) \cup {k + 1}
    BY <1>2, <1>3 DEF Giving
  <2>2. Giving(option, k + 1) \in SUBSET (0..(k + 1)) /\ k + 1 \in Giving(option, k + 1)
    BY <1>1, <2>1
  <2>3. /\ Max(Giving(option, k + 1)) \in Giving(option, k + 1)
        /\ k + 1 <= Max(Giving(option, k + 1))
    <3>1. k + 1 \in Nat /\ Giving(option, k + 1) # {}
      BY <2>2
    <3> QED
      BY <2>2, <3>1, MaxOfPositions, Zenon
  <2>4. Max(Giving(option, k + 1)) = k + 1
    BY <2>2, <2>3
  <2> QED
    BY <1>1, <1>3, <2>1, <2>2, <2>4
<1>4. CASE input.args[k + 1].option # option
  BY <1>1, <1>2, <1>4 DEF Giving
<1> QED
  BY <1>1, <1>3, <1>4

\* An option is the next of those of its kind.
LEMMA GivingCount ==
  ASSUME NEW option, NEW k \in Nat
  PROVE  /\ Cardinality(Giving(option, k)) \in Nat
         /\ input.args[k + 1].option = option =>
              Cardinality(Giving(option, k + 1)) = Cardinality(Giving(option, k)) + 1
<1>1. Giving(option, k) \in SUBSET (1..k)
  BY GivingMore
<1>2. IsFiniteSet(Giving(option, k))
  BY <1>1, FS_Interval, FS_Subset
<1>3. Cardinality(Giving(option, k)) \in Nat
  BY <1>2, FS_CardinalityType
<1>4. ASSUME input.args[k + 1].option = option
      PROVE  Cardinality(Giving(option, k + 1)) = Cardinality(Giving(option, k)) + 1
  <2>1. Giving(option, k + 1) = Giving(option, k) \cup {k + 1}
    BY <1>4, GivingMore
  <2>2. k + 1 \notin Giving(option, k)
    BY <1>1
  <2> QED
    BY <1>2, <2>1, <2>2, FS_AddElement
<1> QED
  BY <1>3, <1>4

\* Among the first k of its kind, an option comes after no more than there are.
LEMMA GivingRank ==
  ASSUME NEW option, NEW k \in Nat, NEW i \in Giving(option, k)
  PROVE  Cardinality(Giving(option, i)) \in 1..Cardinality(Giving(option, k))
<1>1. i \in 1..k
  BY DEF Giving
<1>2. Giving(option, i) \in SUBSET Giving(option, k) /\ i \in Giving(option, i)
  BY <1>1 DEF Giving
<1>3. IsFiniteSet(Giving(option, k))
  BY GivingMore, FS_Interval, FS_Subset
<1>4. /\ IsFiniteSet(Giving(option, i))
      /\ Cardinality(Giving(option, i)) <= Cardinality(Giving(option, k))
  BY <1>2, <1>3, FS_Subset
<1>5. Cardinality(Giving(option, i)) \in Nat /\ Cardinality(Giving(option, k)) \in Nat
  BY <1>3, <1>4, FS_CardinalityType
<1>6. Cardinality(Giving(option, i)) # 0
  BY <1>2, <1>4, FS_EmptySet
<1> QED
  BY <1>4, <1>5, <1>6

-----------------------------------------------------------------------------
(* Reading the command line.                                               *)

LEMMA ListOfLength ==
  ASSUME NEW n \in Nat, NEW S, NEW s \in [1..n -> S]
  PROVE  IsList(s) /\ Len(s) = n /\ DOMAIN s = 1..n
<1>1. s \in Seq(S) /\ Len(s) = n
  OBVIOUS
<1>2. s \in [1..n -> ToSet(s)]
  BY DEF ToSet
<1> QED
  BY <1>1, <1>2 DEF IsList

LEMMA ListLength ==
  ASSUME NEW s, IsList(s)
  PROVE  /\ Len(s) \in Nat /\ s \in [1..Len(s) -> ToSet(s)] /\ DOMAIN s = 1..Len(s)
         /\ s # <<>> => Len(s) # 0
BY DEF IsList

LEMMA JoinedLists ==
  ASSUME NEW s, IsList(s), NEW t, IsList(t)
  PROVE  /\ IsList(s \o t) /\ Len(s \o t) = Len(s) + Len(t)
         /\ \A i \in 1..Len(s) : (s \o t)[i] = s[i]
         /\ \A i \in 1..Len(t) : (s \o t)[Len(s) + i] = t[i]
<1> DEFINE S == ToSet(s) \cup ToSet(t)
<1>1. s \in Seq(S) /\ t \in Seq(S) /\ Len(s) \in Nat /\ Len(t) \in Nat
  BY DEF IsList
<1> HIDE DEF S
<1>2. s \o t \in Seq(S) /\ Len(s \o t) = Len(s) + Len(t)
  BY <1>1
<1>3. \A i \in 1..Len(s) : (s \o t)[i] = s[i]
  <2> TAKE i \in 1..Len(s)
  <2>1. i \in 1..(Len(s) + Len(t))
    BY <1>1
  <2> QED
    BY <1>1, <2>1
<1>4. \A i \in 1..Len(t) : (s \o t)[Len(s) + i] = t[i]
  <2> TAKE i \in 1..Len(t)
  <2> DEFINE j == Len(s) + i
  <2>1. j \in 1..(Len(s) + Len(t)) /\ j > Len(s) /\ j - Len(s) = i
    BY <1>1
  <2> HIDE DEF j
  <2>2. (s \o t)[j] = t[j - Len(s)]
    BY <1>1, <2>1
  <2> QED
    BY <2>1, <2>2 DEF j
<1>5. IsList(s \o t)
  <2> DEFINE u == s \o t
  <2>1. u \in Seq(S)
    BY <1>2
  <2> HIDE DEF u
  <2>2. Len(u) \in Nat /\ u \in [1..Len(u) -> S]
    BY <2>1
  <2>3. IsList(u)
    BY <2>2, ListOfLength, Zenon
  <2> QED
    BY <2>3 DEF u
<1> QED
  BY <1>2, <1>3, <1>4, <1>5

LEMMA TailOfList ==
  ASSUME NEW s, IsList(s), s # <<>>
  PROVE  /\ IsList(Tail(s)) /\ Len(Tail(s)) = Len(s) - 1 /\ Head(s) = s[1]
         /\ \A i \in 1..(Len(s) - 1) : Tail(s)[i] = s[i + 1]
<1>1. s \in Seq(ToSet(s)) /\ Len(s) \in Nat \ {0}
  BY DEF IsList
<1>2. /\ Len(Tail(s)) = Len(s) - 1 /\ Head(s) = s[1]
      /\ \A i \in 1..(Len(s) - 1) : Tail(s)[i] = s[i + 1]
  BY <1>1
<1>3. Tail(s) \in Seq(ToSet(s))
  BY <1>1
<1>4. IsList(Tail(s))
  <2> DEFINE t == Tail(s)
  <2>1. t \in Seq(ToSet(s))
    BY <1>3
  <2> HIDE DEF t
  <2>2. Len(t) \in Nat /\ t \in [1..Len(t) -> ToSet(s)]
    BY <2>1
  <2>3. IsList(t)
    BY <2>2, ListOfLength, Zenon
  <2> QED
    BY <2>3 DEF t
<1> QED
  BY <1>2, <1>4

\* Reading an option moves it from what is left to what was read.
LEMMA OneMoreRead ==
  ASSUME ArgsLeft, args # <<>>, args' = Tail(args), input' = input,
         Head(args).option \in Known(input.host)
  PROVE  /\ ArgsLeft' /\ Read' = Read + 1
         /\ Head(args) = input.args[Read + 1] /\ Read + 1 \in 1..Len(input.args)
<1> DEFINE n == Len(args)
           m == Len(input.args)
           r == Read
<1>1. IsList(args) /\ IsList(input.args) /\ r = m - n
  BY DEF ArgsLeft, IsLine, Read
<1>2. n \in Nat /\ n # 0 /\ m \in Nat /\ r \in Nat
  BY <1>1, ListLength DEF ArgsLeft
<1>3. /\ \A i \in 1..n : args[i] = input.args[r + i]
      /\ \A i \in 1..r : input.args[i].option \in Known(input.host)
  BY DEF ArgsLeft
<1>a. args' = Tail(args)
  OBVIOUS
<1>4. /\ IsList(args') /\ Len(args') = n - 1 /\ Head(args) = args[1]
      /\ \A i \in 1..(n - 1) : args'[i] = args[i + 1]
  <2>1. /\ IsList(Tail(args)) /\ Len(Tail(args)) = n - 1 /\ Head(args) = args[1]
        /\ \A i \in 1..(n - 1) : Tail(args)[i] = args[i + 1]
    BY <1>1, TailOfList
  <2> HIDE DEF n
  <2> QED
    BY <1>a, <2>1
<1>5. Read' = m - (n - 1)
  <2>1. Read' = Len(input'.args) - Len(args')
    BY DEF Read
  <2>2. input'.args = input.args
    OBVIOUS
  <2> HIDE DEF n
  <2> QED
    BY <1>4, <2>1, <2>2
<1> HIDE DEF n, m, r
<1>6. Read' = r + 1 /\ r + 1 \in 1..m /\ r + 1 \in Nat
  BY <1>1, <1>2, <1>5
<1>7. Head(args) = input.args[r + 1]
  BY <1>2, <1>3, <1>4
<1>8. \A i \in 1..(n - 1) : args'[i] = input.args[(r + 1) + i]
  <2> TAKE i \in 1..(n - 1)
  <2>1. i + 1 \in 1..n /\ r + (i + 1) = (r + 1) + i
    BY <1>2
  <2>2. args'[i] = args[i + 1] /\ args[i + 1] = input.args[r + (i + 1)]
    BY <1>3, <1>4, <2>1
  <2> QED
    BY <2>1, <2>2
<1>9. \A i \in 1..(r + 1) : input.args[i].option \in Known(input.host)
  <2>1. \A i \in 1..(r + 1) : i \in 1..r \/ i = r + 1
    BY <1>2
  <2> QED
    BY <1>3, <1>7, <2>1
<1>10. IsLine(input.args)' /\ Known(input.host)' = Known(input.host)
  BY DEF ArgsLeft
<1>11. ArgsLeft'
  <2>1. IsList(args') /\ Read' \in Nat
    BY <1>4, <1>6
  <2>2. \A i \in 1..Len(args') : args'[i] = input'.args[Read' + i]
    BY <1>4, <1>6, <1>8
  <2>3. \A i \in 1..Read' : input'.args[i].option \in Known(input'.host)
    BY <1>6, <1>9
  <2> QED
    BY <1>10, <2>1, <2>2, <2>3 DEF ArgsLeft
<1> QED
  BY <1>6, <1>7, <1>11 DEF r, m

\* An option gives one value or none.
LEMMA OneOverride ==
  ASSUME NEW arg, arg.option \in Overridable, NEW v \in OverrideOf(arg)
  PROVE  OverrideOf(arg) = {v}
<1>1. CASE arg.option = "mode"
  BY <1>1 DEF OverrideOf, SessionMode
<1>2. CASE arg.option \in {"pool", "acquire", "drain"}
  BY <1>2 DEF OverrideOf, Between
<1>3. CASE arg.option = "prewarm"
  BY <1>3 DEF OverrideOf
<1> QED
  BY <1>1, <1>2, <1>3 DEF Overridable

\* An override that is read replaces the one before it.
LEMMA OverridesRead ==
  ASSUME NEW k \in Nat, OverridesAre(k), DOMAIN overrides = Overridable, input' = input,
         \/ ReadOverride(input.args[k + 1])
         \/ input.args[k + 1].option \notin Overridable /\ overrides' = overrides
  PROVE  OverridesAre(k + 1)'
<1> DEFINE arg == input.args[k + 1]
           Given(o) == OverrideOf(input.args[Max(Giving(o, k + 1))])
<1>1. \A o : Giving(o, k + 1)' = Giving(o, k + 1)
  BY DEF Giving
<1>2. ASSUME NEW o \in Overridable
      PROVE  IF Giving(o, k + 1) = {} THEN overrides'[o] = {}
             ELSE overrides'[o] # {} /\ overrides'[o] = Given(o)
  <2>1. CASE arg.option # o
    <3>1. Giving(o, k + 1) = Giving(o, k)
      BY <2>1, GivingMore
    <3>2. overrides'[o] = overrides[o]
      <4>1. CASE ReadOverride(arg)
        <5>1. PICK v : overrides' = [overrides EXCEPT ![arg.option] = {v}]
          BY <4>1 DEF ReadOverride
        <5> HIDE DEF arg
        <5> QED
          BY <2>1, <5>1
      <4> QED
        BY <4>1
    <3> QED
      BY <3>1, <3>2 DEF OverridesAre
  <2>2. CASE arg.option = o
    <3>1. PICK v \in OverrideOf(arg) : overrides' = [overrides EXCEPT ![arg.option] = {v}]
      BY <2>2 DEF ReadOverride
    <3>2. overrides'[o] = {v}
      BY <2>2, <3>1
    <3>3. OverrideOf(arg) = {v}
      BY <2>2, OneOverride
    <3>4. Giving(o, k + 1) # {} /\ Max(Giving(o, k + 1)) = k + 1
      BY <2>2, GivingMore
    <3> QED
      BY <3>2, <3>3, <3>4
  <2> QED
    BY <2>1, <2>2
<1>3. ASSUME NEW o PROVE Given(o)' = Given(o)
  <2>1. input'.args[Max(Giving(o, k + 1)')] = input.args[Max(Giving(o, k + 1))]
    BY <1>1
  <2> QED
    BY <2>1 DEF OverrideOf, Between
<1>4. ASSUME NEW o \in Overridable
      PROVE  (IF Giving(o, k + 1) = {} THEN overrides[o] = {}
              ELSE overrides[o] # {} /\ overrides[o] = Given(o))'
  <2> HIDE DEF Given
  <2> QED
    BY <1>1, <1>2, <1>3
<1> QED
  BY <1>4 DEF OverridesAre

\* So does a configuration file.
LEMMA FileRead ==
  ASSUME NEW k \in Nat, FileIs(k), input' = input,
         \/ ReadConfigFile(input.args[k + 1])
         \/ input.args[k + 1].option # "config" /\ file' = file
  PROVE  FileIs(k + 1)'
<1>1. Giving("config", k + 1)' = Giving("config", k + 1)
  BY DEF Giving
<1>2. CASE ReadConfigFile(input.args[k + 1])
  <2>1. /\ Giving("config", k + 1) # {} /\ Max(Giving("config", k + 1)) = k + 1
        /\ file' = input.args[k + 1].value
    BY <1>2, GivingMore DEF ReadConfigFile
  <2> QED
    BY <1>1, <2>1 DEF FileIs
<1>3. CASE input.args[k + 1].option # "config" /\ file' = file
  <2>1. Giving("config", k + 1) = Giving("config", k)
    BY <1>3, GivingMore
  <2> QED
    BY <1>1, <1>3, <2>1 DEF FileIs
<1> QED
  BY <1>2, <1>3

\* And an upstream comes after those that are there.
LEMMA UpstreamRead ==
  ASSUME NEW k \in Nat, UpstreamsAre(<<>>, k), IsList(config.upstreams),
         "upstreams" \in DOMAIN config, input' = input,
         \/ ReadUpstream(input.args[k + 1])
         \/ input.args[k + 1].option # "upstream" /\ config' = config
  PROVE  UpstreamsAre(<<>>, k + 1)' /\ IsList(config.upstreams)'
<1> DEFINE arg == input.args[k + 1]
           Count(i) == Cardinality(Giving("upstream", i))
           us == config.upstreams
           Follows(vs, m) == /\ Len(vs) = Count(m)
                             /\ \A i \in Giving("upstream", m) :
                                  vs[Count(i)].id = input.args[i].value.id
<1>1. \A i : Giving("upstream", i)' = Giving("upstream", i)
  BY DEF Giving
<1>2. ASSUME NEW m \in Nat
      PROVE  /\ UpstreamsAre(<<>>, m) <=> Follows(us, m)
             /\ UpstreamsAre(<<>>, m)' <=> Follows(us', m)
  <2>1. Count(m) \in Nat /\ \A i \in Giving("upstream", m) : Count(i) \in Nat
    BY GivingCount, GivingRank
  <2>2. Len(<<>>) = 0 /\ \A c \in Nat : 0 + c = c
    OBVIOUS
  <2>3. \A i \in 1..0 : FALSE
    OBVIOUS
  <2>4. UpstreamsAre(<<>>, m) <=> Follows(us, m)
    BY <2>1, <2>2, <2>3 DEF UpstreamsAre
  <2>5. UpstreamsAre(<<>>, m)' <=> Follows(us', m)
    BY <1>1, <2>1, <2>2, <2>3 DEF UpstreamsAre
  <2> QED
    BY <2>4, <2>5
<1>3. Follows(us', k + 1) /\ IsList(us')
  <2>1. CASE arg.option # "upstream" /\ config' = config
    <3>1. Giving("upstream", k + 1) = Giving("upstream", k)
      BY <2>1, GivingMore
    <3> QED
      BY <1>2, <2>1, <3>1
  <2>2. CASE ReadUpstream(arg)
    <3>1. PICK u : u.id = arg.value.id /\ us' = Append(us, u)
      BY <2>2 DEF ReadUpstream
    <3>2. arg.option = "upstream"
      BY <2>2 DEF ReadUpstream
    <3>3. /\ Count(k + 1) = Count(k) + 1 /\ Count(k) \in Nat
          /\ Giving("upstream", k + 1) = Giving("upstream", k) \cup {k + 1}
      BY <3>2, GivingCount, GivingMore
    <3>4. \A i \in Giving("upstream", k) : Count(i) \in 1..Count(k)
      BY GivingRank
    <3>5. Follows(us, k)
      BY <1>2
    <3> HIDE DEF Count, arg
    <3>6. /\ Len(us') = Count(k) + 1 /\ us'[Count(k) + 1] = u
          /\ \A i \in 1..Count(k) : us'[i] = us[i]
      BY <3>1, <3>3, <3>5 DEF IsList
    <3>7. IsList(us')
      <4>1. us' \in Seq(ToSet(us) \cup {u})
        BY <3>1 DEF IsList
      <4>2. Len(us') \in Nat /\ us' \in [1..Len(us') -> ToSet(us) \cup {u}]
        BY <4>1
      <4> HIDE DEF us
      <4> QED
        BY <4>2, ListOfLength
    <3>8. ASSUME NEW i \in Giving("upstream", k + 1)
          PROVE  us'[Count(i)].id = input.args[i].value.id
      BY <3>1, <3>3, <3>4, <3>5, <3>6 DEF arg
    <3> QED
      BY <3>3, <3>6, <3>7, <3>8
  <2> QED
    BY <2>1, <2>2
<1> QED
  BY <1>2, <1>3

-----------------------------------------------------------------------------
(* Loading the file.                                                       *)

\* Without an environment a text is taken as it is.
LEMMA TextAsWritten ==
  ASSUME NEW field, NEW t \in require_string(field, NoEnvironment)
  PROVE  field.kind = "string" /\ t = field.text
<1>1. field.kind = "string" /\ t \in expand_environment_placeholders(field.text, NoEnvironment)
  BY DEF require_string
<1>2. ~NoEnvironment.given
  BY DEF NoEnvironment
<1>3. t = field.text
  BY <1>1, <1>2 DEF expand_environment_placeholders
<1> QED
  BY <1>1, <1>3

\* No number that is taken has wrapped.
LEMMA NumberAsWritten ==
  ASSUME NEW field, NEW least \in Nat, NEW default,
         NEW n \in optional_number(field, least, default)
  PROVE  n = IF field.kind = "absent" THEN default ELSE field.number
<1>1. CASE field.kind = "absent"
  BY <1>1 DEF optional_number
<1>2. CASE field.kind # "absent"
  <2>1. IsInteger(field) /\ AsInt64(field.number) >= least /\ n = AsInt64(field.number)
    BY <1>2 DEF optional_number
  <2>2. field.number \in (-IntMax - 1)..(2 * IntMax + 1) /\ IntMax \in Nat \ {0}
    BY <2>1, ConfigurationAssumption DEF IsInteger
  <2>3. ~(field.number > IntMax)
    BY <2>1, <2>2 DEF AsInt64
  <2> QED
    BY <1>2, <2>1, <2>3 DEF AsInt64
<1> QED
  BY <1>1, <1>2

\* The ids that are loaded are what the texts become.
LEMMA UpstreamsRead ==
  ASSUME NEW document, IsDocument(document), NEW environment,
         NEW loaded \in Loaded(document, environment)
  PROVE  LET items == document.upstreams.items
             us    == loaded.config.upstreams
         IN  /\ document.kind = "object" /\ "upstreams" \in DOMAIN loaded.config
             /\ IsList(items) /\ IsList(us) /\ Len(us) = Len(items)
             /\ \A i \in 1..Len(items) :
                  items[i].kind = "object" /\ us[i].id \in require_string(items[i].id, environment)
<1> DEFINE items == document.upstreams.items
           results == [i \in 1..Len(items) |-> upstream_from_json(items[i], environment)]
<1>1. loaded.config \in gateway_config_from_json(document, environment)
  BY DEF Loaded, gateway_config_document_from_json
<1>2. document.kind = "object" /\ document.upstreams.kind = "list"
  BY <1>1 DEF gateway_config_from_json
<1>3. PICK us \in upstreams_from_json(items, environment) :
             loaded.config.upstreams = us /\ "upstreams" \in DOMAIN loaded.config
  BY <1>1, <1>2 DEF gateway_config_from_json
<1>4. IsList(items) /\ Len(items) \in Nat
  BY <1>2, ListLength DEF IsDocument
<1>5. /\ DOMAIN us = 1..Len(items) /\ us \in [1..Len(items) -> UNION ToSet(results)]
      /\ \A i \in 1..Len(items) : us[i] \in upstream_from_json(items[i], environment)
  BY <1>3 DEF upstreams_from_json, Each
<1>6. IsList(us) /\ Len(us) = Len(items)
  <2> HIDE DEF results
  <2> QED
    BY <1>4, <1>5, ListOfLength
<1>7. ASSUME NEW i \in 1..Len(items)
      PROVE  items[i].kind = "object" /\ us[i].id \in require_string(items[i].id, environment)
  BY <1>5 DEF upstream_from_json
<1> QED
  BY <1>2, <1>3, <1>4, <1>6, <1>7

\* Without an environment, the ids that are written.
LEMMA UpstreamsLoaded ==
  ASSUME NEW document, IsDocument(document), NEW loaded \in Loaded(document, NoEnvironment)
  PROVE  LET items == document.upstreams.items
             us    == loaded.config.upstreams
         IN  /\ document.kind = "object" /\ "upstreams" \in DOMAIN loaded.config
             /\ IsList(items) /\ IsList(us) /\ Len(us) = Len(items)
             /\ \A i \in 1..Len(items) : us[i].id = items[i].id.text
<1> DEFINE items == document.upstreams.items
           us    == loaded.config.upstreams
<1>1. /\ document.kind = "object" /\ "upstreams" \in DOMAIN loaded.config
      /\ IsList(items) /\ IsList(us) /\ Len(us) = Len(items)
      /\ \A i \in 1..Len(items) : us[i].id \in require_string(items[i].id, NoEnvironment)
  BY UpstreamsRead
<1>2. \A i \in 1..Len(items) : us[i].id = items[i].id.text
  BY <1>1, TextAsWritten
<1> QED
  BY <1>1, <1>2

\* And its settings are those that are written.
LEMMA SettingsLoaded ==
  ASSUME NEW document, LastOf("config") = document, document.kind = "object",
         input.host # "example", NEW r \in runtime_config_from_json(document, NoEnvironment)
  PROVE  SettingsAre(r, FromFile) /\ Usable(r) /\ (r.prewarm <=> FileSaysPrewarm)
<1> DEFINE json == document.runtime
<1>1. \/ json.kind = "absent" /\ r = DefaultRuntime
      \/ json.kind = "object"
  BY DEF runtime_config_from_json
<1>2. CASE json.kind = "absent" /\ r = DefaultRuntime
  <2>1. FromFile = [setting \in Overridable |-> Missing]
    BY <1>2 DEF FromFile
  <2>2. \A setting \in Overridable : FromFile[setting].kind = "absent"
    BY <2>1 DEF Missing
  <2> QED
    BY <1>2, <2>2 DEF SettingsAre, Usable, FileSaysPrewarm, Overridable, DefaultRuntime
<1>3. CASE json.kind = "object"
  <2>1. FromFile = [setting \in Overridable |-> json[setting]]
    BY <1>3 DEF FromFile
  <2>2. /\ FromFile.mode = json.mode /\ FromFile.pool = json.pool
        /\ FromFile.acquire = json.acquire /\ FromFile.drain = json.drain
        /\ FromFile.prewarm = json.prewarm
    BY <2>1 DEF Overridable
  <2>3. /\ r.mode \in session_mode(json.mode, NoEnvironment)
        /\ r.pool \in optional_number(json.pool, 1, 1)
        /\ r.acquire \in optional_number(json.acquire, 0, 0)
        /\ r.drain \in optional_number(json.drain, 0, 0)
        /\ r.prewarm \in optional_flag(json.prewarm, FALSE)
    <3>1. /\ r.mode \in session_mode(json.mode, NoEnvironment)
          /\ r.pool \in optional_number(json.pool, 1, DefaultRuntime.pool)
          /\ r.acquire \in optional_number(json.acquire, 0, DefaultRuntime.acquire)
          /\ r.drain \in optional_number(json.drain, 0, DefaultRuntime.drain)
          /\ r.prewarm \in optional_flag(json.prewarm, DefaultRuntime.prewarm)
      BY <1>3 DEF runtime_config_from_json
    <3> QED
      BY <3>1 DEF DefaultRuntime
  <2>4. /\ r.pool = IF json.pool.kind = "absent" THEN 1 ELSE json.pool.number
        /\ r.acquire = IF json.acquire.kind = "absent" THEN 0 ELSE json.acquire.number
        /\ r.drain = IF json.drain.kind = "absent" THEN 0 ELSE json.drain.number
    BY <2>3, NumberAsWritten
  <2>5. r.pool \in Nat \ {0} /\ r.acquire \in Nat /\ r.drain \in Nat
    <3>1. /\ r.pool \in Int /\ r.pool >= 1 /\ r.acquire \in Int /\ r.acquire >= 0
          /\ r.drain \in Int /\ r.drain >= 0
      BY <2>3, NumberIsBounded
    <3> QED
      BY <3>1
  <2>6. /\ r.mode \in {"per_call", "persistent"}
        /\ r.mode = IF json.mode.kind = "absent" THEN "per_call"
                    ELSE IF json.mode.text = <<"persistent">> THEN "persistent"
                    ELSE "per_call"
    <3>1. CASE json.mode.kind = "absent"
      BY <2>3, <3>1 DEF session_mode, DefaultRuntime
    <3>2. CASE json.mode.kind # "absent"
      <4>1. PICK t \in require_string(json.mode, NoEnvironment) : r.mode \in SessionMode(t)
        BY <2>3, <3>2 DEF session_mode
      <4>2. r.mode \in SessionMode(json.mode.text)
        BY <4>1, TextAsWritten
      <4> QED
        BY <3>2, <4>2 DEF SessionMode
    <3> QED
      BY <3>1, <3>2
  <2>7. r.prewarm <=> json.prewarm.kind = "boolean" /\ json.prewarm.flag
    BY <2>3 DEF optional_flag
  <2>8. SettingsAre(r, FromFile)
    BY <2>2, <2>4, <2>6 DEF SettingsAre, DefaultRuntime
  <2> QED
    BY <2>2, <2>5, <2>6, <2>7, <2>8 DEF Usable, FileSaysPrewarm
<1> QED
  BY <1>1, <1>2, <1>3

\* The upstreams of the command line come after those of the file.
LEMMA UpstreamsMerged ==
  ASSUME NEW items, NEW base, NEW k \in Nat, UpstreamsAre(<<>>, k),
         IsList(config.upstreams), input' = input, "upstreams" \in DOMAIN base,
         IsList(items), IsList(base.upstreams), Len(base.upstreams) = Len(items),
         \A i \in 1..Len(items) : base.upstreams[i].id = items[i].id.text,
         config' \in merge_gateway_config_upstreams(base, config)
  PROVE  UpstreamsAre(items, k)'
<1> DEFINE Count(i) == Cardinality(Giving("upstream", i))
           n == Len(items)
           bs == base.upstreams
           us == config.upstreams
<1>1. \A i : Giving("upstream", i)' = Giving("upstream", i)
  BY DEF Giving
<1>2. config'.upstreams = bs \o us
  BY DEF merge_gateway_config_upstreams
<1>3. Count(k) \in Nat /\ \A i \in Giving("upstream", k) : Count(i) \in 1..Count(k)
  BY GivingCount, GivingRank
<1>4. n \in Nat /\ Len(bs) = n
  BY ListLength
<1>5. Len(us) = Count(k) /\ \A i \in Giving("upstream", k) : us[Count(i)].id = input.args[i].value.id
  <2>1. Len(<<>>) = 0 /\ \A c \in Nat : 0 + c = c
    OBVIOUS
  <2> QED
    BY <1>3, <2>1 DEF UpstreamsAre
<1> HIDE DEF bs, us, n, Count
<1>7. /\ Len(bs \o us) = n + Count(k)
      /\ \A i \in 1..n : (bs \o us)[i] = bs[i]
      /\ \A c \in 1..Count(k) : (bs \o us)[n + c] = us[c]
  <2>1. IsList(bs) /\ IsList(us)
    BY DEF bs, us
  <2>2. /\ Len(bs \o us) = Len(bs) + Len(us)
        /\ \A i \in 1..Len(bs) : (bs \o us)[i] = bs[i]
        /\ \A i \in 1..Len(us) : (bs \o us)[Len(bs) + i] = us[i]
    BY <2>1, JoinedLists
  <2>3. Len(bs) = n /\ Len(us) = Count(k)
    BY <1>4, <1>5
  <2> QED
    BY <2>2, <2>3
<1>8. \A i \in 1..n : (bs \o us)[i].id = items[i].id.text
  BY <1>7 DEF bs, n
<1>9. \A i \in Giving("upstream", k) : (bs \o us)[n + Count(i)].id = input.args[i].value.id
  BY <1>3, <1>5, <1>7
<1> QED
  BY <1>1, <1>2, <1>7, <1>8, <1>9 DEF UpstreamsAre, n, Count

-----------------------------------------------------------------------------
(* Overriding and construction.                                            *)

\* What the command line gives is there, and its number or mode is what is taken.
LEMMA OverrideAsWritten ==
  ASSUME NEW arg, arg.option \in Overridable, NEW v \in OverrideOf(arg)
  PROVE  /\ arg.option = "mode" =>
              v = IF input.host = "example" \/ arg.value.text = <<"persistent">>
                  THEN "persistent" ELSE "per_call"
         /\ arg.option = "prewarm" => v = TRUE
         /\ arg.option = "pool" => v = arg.value.number /\ v \in Nat \ {0}
         /\ arg.option \in {"acquire", "drain"} => v = arg.value.number /\ v \in Nat
<1>1. CASE arg.option = "mode"
  BY <1>1 DEF OverrideOf, SessionMode
<1>2. CASE arg.option = "pool"
  <2>1. v \in Between(arg.value, 1, 2 * IntMax + 1)
    BY <1>2 DEF OverrideOf
  <2> QED
    BY <1>2, <2>1, ConfigurationAssumption DEF Between
<1>3. CASE arg.option \in {"acquire", "drain"}
  <2>1. v \in Between(arg.value, 0, IntMax)
    BY <1>3 DEF OverrideOf
  <2> QED
    BY <1>3, <2>1, ConfigurationAssumption DEF Between
<1>4. CASE arg.option = "prewarm"
  BY <1>4 DEF OverrideOf
<1> QED
  BY <1>1, <1>2, <1>3, <1>4 DEF Overridable

\* What counts of an option, once the command line has been read.
LEMMA LastGiven ==
  ASSUME IsLine(input.args), OverridesAre(Len(input.args)), NEW o \in Overridable,
         NEW r
  PROVE  \/ /\ LastOf(o) = Missing /\ overrides[o] = {}
            /\ Overridden(r)[o] = r[o]
         \/ /\ LastOf(o).kind # "absent" /\ overrides[o] # {}
            /\ \E arg : /\ arg.option = o /\ arg.value = LastOf(o)
                        /\ Overridden(r)[o] \in OverrideOf(arg)
<1> DEFINE n == Len(input.args)
           at == Giving(o, n)
<1>1. n \in Nat /\ IsList(input.args)
  BY ListLength DEF IsLine
<1>2. CASE at = {}
  BY <1>2 DEF LastOf, OverridesAre, Overridden
<1>3. CASE at # {}
  <2>1. at \in SUBSET (0..n)
    BY <1>1 DEF Giving
  <2>2. Max(at) \in at
    BY <1>1, <1>3, <2>1, MaxOfPositions, Zenon
  <2>3. Max(at) \in 1..n /\ input.args[Max(at)].option = o
    BY <2>2 DEF Giving
  <2>4. LastOf(o) = input.args[Max(at)].value /\ LastOf(o).kind # "absent"
    BY <1>3, <2>3 DEF LastOf, IsLine
  <2>5. overrides[o] # {} /\ overrides[o] = OverrideOf(input.args[Max(at)])
    BY <1>3 DEF OverridesAre
  <2>6. Overridden(r)[o] \in overrides[o]
    BY <2>5 DEF Overridden
  <2> QED
    BY <2>3, <2>4, <2>5, <2>6
<1> QED
  BY <1>2, <1>3

\* The command line before the file.
LEMMA SettingsOverridden ==
  ASSUME IsLine(input.args), OverridesAre(Len(input.args)), NEW r,
         SettingsAre(r, FromFile), Usable(r), r.prewarm <=> FileSaysPrewarm
  PROVE  LET s == Overridden(r) IN
         /\ SettingsAre(s, Written) /\ Usable(s)
         /\ s.prewarm <=> LastOf("prewarm").kind # "absent" \/ FileSaysPrewarm
<1> DEFINE s == Overridden(r)
           Given(o) == \E arg : arg.option = o /\ arg.value = LastOf(o) /\ s[o] \in OverrideOf(arg)
<1>1. \A o \in Overridable :
        \/ LastOf(o).kind = "absent" /\ s[o] = r[o]
        \/ LastOf(o).kind # "absent" /\ Given(o)
  BY LastGiven DEF Missing
<1>2. \A o \in Overridable :
        Written[o] = IF LastOf(o).kind # "absent" THEN LastOf(o) ELSE FromFile[o]
  BY DEF Written
<1> HIDE DEF s
<1>3. ASSUME NEW o \in {"pool", "acquire", "drain"}
      PROVE  /\ s[o] = IF Written[o].kind = "absent" THEN DefaultRuntime[o]
                       ELSE Written[o].number
             /\ s[o] \in Nat /\ (o = "pool" => s[o] # 0)
  <2>1. o \in Overridable
    BY DEF Overridable
  <2>2. CASE LastOf(o).kind = "absent" /\ s[o] = r[o]
    <3>1. Written[o] = FromFile[o]
      BY <1>2, <2>1, <2>2
    <3> QED
      BY <2>2, <3>1 DEF SettingsAre, Usable
  <2>3. CASE LastOf(o).kind # "absent" /\ Given(o)
    <3>1. s[o] = LastOf(o).number /\ s[o] \in Nat /\ (o = "pool" => s[o] # 0)
      BY <2>1, <2>3, OverrideAsWritten
    <3> QED
      BY <1>2, <2>1, <2>3, <3>1
  <2> QED
    BY <1>1, <2>1, <2>2, <2>3
<1>4. /\ s.mode = IF Written.mode.kind = "absent" THEN DefaultRuntime.mode
                  ELSE IF input.host = "example" \/ Written.mode.text = <<"persistent">>
                  THEN "persistent" ELSE "per_call"
      /\ s.mode \in {"per_call", "persistent"}
  <2>1. "mode" \in Overridable
    BY DEF Overridable
  <2>2. CASE LastOf("mode").kind = "absent" /\ s.mode = r.mode
    <3>1. Written.mode = FromFile.mode
      BY <1>2, <2>1, <2>2
    <3> QED
      BY <2>2, <3>1 DEF SettingsAre, Usable
  <2>3. CASE LastOf("mode").kind # "absent" /\ Given("mode")
    <3>1. s.mode = IF input.host = "example" \/ LastOf("mode").text = <<"persistent">>
                   THEN "persistent" ELSE "per_call"
      BY <2>1, <2>3, OverrideAsWritten
    <3> QED
      BY <1>2, <2>1, <2>3, <3>1
  <2> QED
    BY <1>1, <2>1, <2>2, <2>3
<1>5. s.prewarm <=> LastOf("prewarm").kind # "absent" \/ FileSaysPrewarm
  <2>1. "prewarm" \in Overridable
    BY DEF Overridable
  <2>2. CASE LastOf("prewarm").kind = "absent" /\ s.prewarm = r.prewarm
    BY <2>2
  <2>3. CASE LastOf("prewarm").kind # "absent" /\ Given("prewarm")
    <3>1. s.prewarm = TRUE
      BY <2>1, <2>3, OverrideAsWritten
    <3> QED
      BY <2>3, <3>1
  <2> QED
    BY <1>1, <2>1, <2>2, <2>3
<1> QED
  BY <1>3, <1>4, <1>5 DEF SettingsAre, Usable, s

\* Usable settings are taken as they are.
LEMMA UsableAreTaken ==
  ASSUME NEW o, Usable(o)
  PROVE  /\ Normalised(o).mode = o.mode /\ Normalised(o).pool = o.pool
         /\ Normalised(o).acquire = o.acquire /\ Normalised(o).drain = o.drain
BY DEF Usable, Normalised

-----------------------------------------------------------------------------
(* The invariant.                                                          *)

\* A sequence that starts with one more file option is a command line too.
LEMMA LineWithFile ==
  ASSUME NEW line, IsLine(line), NEW f, IsDocument(f)
  PROVE  IsLine(<<FileOption(f)>> \o line)
<1> DEFINE a == FileOption(f)
           n == Len(line)
           whole == <<a>> \o line
<1>1. a.option = "config" /\ a.value = f
  BY DEF FileOption
<1>2. IsList(<<a>>) /\ Len(<<a>>) = 1 /\ <<a>>[1] = a
  <2> HIDE DEF a
  <2>1. <<a>> \in [1..1 -> {a}] /\ <<a>>[1] = a /\ Len(<<a>>) = 1
    OBVIOUS
  <2> QED
    BY <2>1, ListOfLength
<1>3. IsList(line) /\ n \in Nat
  BY ListLength DEF IsLine
<1>4. /\ IsList(whole) /\ Len(whole) = 1 + n
      /\ \A i \in 1..1 : whole[i] = <<a>>[i]
      /\ \A i \in 1..n : whole[1 + i] = line[i]
  <2> HIDE DEF a
  <2> QED
    BY <1>2, <1>3, JoinedLists
<1>5. \A i \in 1..Len(whole) : whole[i] = a \/ \E j \in 1..n : whole[i] = line[j]
  <2> TAKE i \in 1..Len(whole)
  <2>1. i = 1 \/ (i - 1 \in 1..n /\ 1 + (i - 1) = i)
    BY <1>3, <1>4
  <2> HIDE DEF whole, a, n
  <2> QED
    BY <1>2, <1>4, <2>1
<1> HIDE DEF a, whole, n
<1>6. \A i \in 1..Len(whole) :
        /\ whole[i].value.kind \notin {"absent", "none"}
        /\ whole[i].option = "config" => IsDocument(whole[i].value)
  <2>1. a.value.kind \notin {"absent", "none"} /\ IsDocument(a.value)
    BY <1>1 DEF IsDocument
  <2>2. \A j \in 1..n :
          /\ line[j].value.kind \notin {"absent", "none"}
          /\ line[j].option = "config" => IsDocument(line[j].value)
    BY DEF IsLine, n
  <2> QED
    BY <1>5, <2>1, <2>2
<1>7. IsLine(whole)
  <2>1. IsList(whole)
    BY <1>4
  <2> QED
    BY <1>6, <2>1, Zenon DEF IsLine
<1> QED
  BY <1>7 DEF whole, a

LEMMA InitAsRead == Init /\ input.host # "library" => AsRead
<1> SUFFICES ASSUME Init, input.host # "library" PROVE AsRead
  OBVIOUS
<1>1. /\ \E line : IsLine(line) /\ \E host : Start(host, line, [kind |-> "none"], NoEnvironment)
      /\ stage = "command" /\ config = DefaultConfig /\ runtime = DefaultRuntime
  <2>1. ASSUME NEW line \in Lines, NEW h, Start(h, line, [kind |-> "none"], NoEnvironment)
        PROVE  \E l : IsLine(l) /\ \E host : Start(host, l, [kind |-> "none"], NoEnvironment)
    BY <2>1, GivenAssumption
  <2>2. ASSUME NEW line \in Lines, NEW f \in Files,
               Start("program", <<FileOption(f)>> \o line, [kind |-> "none"], NoEnvironment)
        PROVE  \E l : IsLine(l) /\ \E host : Start(host, l, [kind |-> "none"], NoEnvironment)
    <3>1. IsLine(<<FileOption(f)>> \o line)
      BY GivenAssumption, LineWithFile
    <3> QED
      BY <2>2, <3>1
  <2>3. ASSUME NEW line, NEW d, NEW e, Start("library", line, d, e) PROVE FALSE
    BY <2>3 DEF Start
  <2> QED
    BY <2>1, <2>2, <2>3 DEF Init
<1>2. PICK line : /\ IsLine(line) /\ args = line /\ input.args = line
                  /\ file = [kind |-> "none"] /\ overrides = [o \in Overridable |-> {}]
                  /\ impl = {}
  BY <1>1 DEF Start
<1>3. Read = 0 /\ IsList(args)
  BY <1>2, ListLength DEF Read, IsLine
<1>4. ArgsLeft
  <2>1. \A i \in 1..Len(args) : 0 + i = i
    BY <1>3, ListLength
  <2>2. \A i \in 1..0 : FALSE
    OBVIOUS
  <2> QED
    BY <1>2, <1>3, <2>1, <2>2 DEF ArgsLeft
<1>5. \A o : Giving(o, 0) = {}
  BY DEF Giving
<1>6. OverridesAre(0) /\ FileIs(0)
  BY <1>2, <1>5 DEF OverridesAre, FileIs
<1>7. /\ "upstreams" \in DOMAIN config /\ config.upstreams = <<>>
      /\ IsList(config.upstreams)
  <2>1. /\ "upstreams" \in DOMAIN config /\ config.upstreams = <<>>
    BY <1>1 DEF DefaultConfig
  <2>2. <<>> \in Seq(ToSet(<<>>))
    OBVIOUS
  <2> QED
    BY <2>1, <2>2 DEF IsList
<1>8. UpstreamsAre(<<>>, 0)
  <2>1. Len(<<>>) = 0 /\ Cardinality({}) = 0 /\ 0 + 0 = 0
    BY FS_EmptySet
  <2>2. \A i \in 1..0 : FALSE
    OBVIOUS
  <2> QED
    BY <1>5, <1>7, <2>1, <2>2 DEF UpstreamsAre
<1> QED
  BY <1>1, <1>2, <1>3, <1>4, <1>6, <1>7, <1>8 DEF AsRead, StillReading

\* What is written does not change, and what is read of it only with what it is
\* read into.
LEMMA InputStays ==
  ASSUME input' = input
  PROVE  /\ \A o, k : Giving(o, k)' = Giving(o, k)
         /\ \A o : LastOf(o)' = LastOf(o)
         /\ FromFile' = FromFile /\ Written' = Written /\ FileUpstreams' = FileUpstreams
         /\ FileSaysPrewarm' <=> FileSaysPrewarm
         /\ \A s, w : SettingsAre(s, w)' <=> SettingsAre(s, w)
<1>1. \A o, k : Giving(o, k)' = Giving(o, k)
  BY DEF Giving
<1>2. \A o : LastOf(o)' = LastOf(o)
  <2> TAKE o
  <2>1. Giving(o, Len(input.args))' = Giving(o, Len(input.args))
    BY DEF Giving
  <2> QED
    BY <2>1 DEF LastOf
<1>3. FromFile' = FromFile /\ FileUpstreams' = FileUpstreams
  BY <1>2 DEF FromFile, FileUpstreams
<1>4. Written' = Written
  BY <1>2, <1>3 DEF Written
<1>5. FileSaysPrewarm' <=> FileSaysPrewarm
  BY <1>3 DEF FileSaysPrewarm
<1>6. \A s, w : SettingsAre(s, w)' <=> SettingsAre(s, w)
  BY DEF SettingsAre
<1> QED
  BY <1>1, <1>2, <1>3, <1>4, <1>5, <1>6

LEMMA UpstreamsStay ==
  ASSUME input' = input, config' = config, NEW items, NEW k
  PROVE  UpstreamsAre(items, k)' <=> UpstreamsAre(items, k)
<1>1. \A o, i : Giving(o, i)' = Giving(o, i)
  BY InputStays
<1> QED
  BY <1>1 DEF UpstreamsAre

\* Reading stays where it is while nothing is read.
LEMMA ReadingStays ==
  ASSUME UNCHANGED <<input, args>>
  PROVE  Read' = Read /\ (ArgsLeft' <=> ArgsLeft)
BY DEF Read, ArgsLeft, IsLine, Known

LEMMA OverridesStay ==
  ASSUME UNCHANGED <<input, overrides>>, NEW k
  PROVE  OverridesAre(k)' <=> OverridesAre(k)
<1>1. \A o, i : Giving(o, i)' = Giving(o, i)
  BY InputStays
<1>2. ASSUME NEW o
      PROVE  OverrideOf(input.args[Max(Giving(o, k))])'
               = OverrideOf(input.args[Max(Giving(o, k))])
  <2>1. input'.args[Max(Giving(o, k)')] = input.args[Max(Giving(o, k))]
    BY <1>1
  <2> QED
    BY <2>1 DEF OverrideOf, Between
<1>3. OverridesAre(k)' <=>
        \A o \in Overridable :
          IF Giving(o, k)' = {} THEN overrides'[o] = {}
          ELSE /\ overrides'[o] # {}
               /\ overrides'[o] = OverrideOf(input.args[Max(Giving(o, k))])'
  BY DEF OverridesAre
<1> QED
  BY <1>1, <1>2, <1>3 DEF OverridesAre

LEMMA StillReadingStays ==
  ASSUME UNCHANGED <<input, args, file, overrides, config, runtime, impl>>, StillReading,
         ArgsLeft
  PROVE  StillReading'
<1>1. PICK k \in Nat : Read = k /\ Read' = k
  BY ReadingStays DEF ArgsLeft
<1>2. OverridesAre(k) /\ FileIs(k) /\ UpstreamsAre(<<>>, k)
  BY <1>1 DEF StillReading
<1>3. OverridesAre(k)' /\ UpstreamsAre(<<>>, k)'
  BY <1>2, OverridesStay, UpstreamsStay
<1>4. FileIs(k)'
  BY <1>2, InputStays DEF FileIs
<1> QED
  BY <1>1, <1>3, <1>4 DEF StillReading, IsList

LEMMA ReadyStays ==
  ASSUME UNCHANGED <<input, overrides, config, runtime, options, impl>>
  PROVE  /\ ReadyToOverride' <=> ReadyToOverride
         /\ ReadyToConstruct' <=> ReadyToConstruct
<1>1. OverridesAre(Len(input.args))' <=> OverridesAre(Len(input.args))
  <2>1. PICK n : n = Len(input.args) /\ n = Len(input.args)'
    OBVIOUS
  <2> QED
    BY <2>1, OverridesStay
<1>2. UpstreamsAre(FileUpstreams, Len(input.args))'
        <=> UpstreamsAre(FileUpstreams, Len(input.args))
  <2>1. PICK n, items : /\ n = Len(input.args) /\ n = Len(input.args)'
                        /\ items = FileUpstreams /\ items = FileUpstreams'
    BY InputStays
  <2> QED
    BY <2>1, UpstreamsStay
<1>3. /\ SettingsAre(runtime, FromFile)' <=> SettingsAre(runtime, FromFile)
      /\ SettingsAre(options, Written)' <=> SettingsAre(options, Written)
  <2>1. FromFile' = FromFile /\ Written' = Written
    BY InputStays
  <2> QED
    BY <2>1 DEF SettingsAre
<1>4. /\ FileSaysPrewarm' <=> FileSaysPrewarm
      /\ LastOf("prewarm")' = LastOf("prewarm")
  BY InputStays
<1> QED
  BY <1>1, <1>2, <1>3, <1>4 DEF ReadyToOverride, ReadyToConstruct, Usable

\* An option that is read.
LEMMA ReadOptionReads ==
  ASSUME LaunchTypeOK, ArgsLeft, StillReading, ReadOption
  PROVE  ArgsLeft' /\ StillReading'
<1> DEFINE arg == Head(args)
<1>1. /\ args # <<>> /\ args' = Tail(args) /\ arg.option \in Known(input.host)
      /\ UNCHANGED <<input, runtime, impl>>
      /\ ReadOverride(arg) \/ ReadConfigFile(arg) \/ ReadEndpoint(arg) \/ ReadUpstream(arg)
  BY DEF ReadOption
<1>2. PICK k \in Nat : Read = k /\ Read' = k + 1 /\ arg = input.args[k + 1] /\ ArgsLeft'
  BY <1>1, OneMoreRead DEF ArgsLeft
<1>3. OverridesAre(k) /\ FileIs(k) /\ UpstreamsAre(<<>>, k)
  BY <1>2 DEF StillReading
<1>4. /\ ReadOverride(arg) \/ (arg.option \notin Overridable /\ overrides' = overrides)
      /\ ReadConfigFile(arg) \/ (arg.option # "config" /\ file' = file)
      /\ ReadUpstream(arg) \/ (arg.option # "upstream" /\ config' = config)
  BY <1>1 DEF ReadOverride, ReadConfigFile, ReadEndpoint, ReadUpstream, Overridable
<1>5. DOMAIN overrides = Overridable
  BY DEF LaunchTypeOK
<1>6. OverridesAre(k + 1)'
  BY <1>1, <1>2, <1>3, <1>4, <1>5, OverridesRead
<1>7. FileIs(k + 1)'
  BY <1>1, <1>2, <1>3, <1>4, FileRead
<1>8. UpstreamsAre(<<>>, k + 1)' /\ IsList(config.upstreams)'
  BY <1>1, <1>2, <1>3, <1>4, UpstreamRead DEF StillReading
<1>9. "upstreams" \in DOMAIN config'
  <2>1. CASE ReadUpstream(arg)
    BY <2>1 DEF ReadUpstream, StillReading
  <2>2. CASE config' = config
    BY <2>2 DEF StillReading
  <2> QED
    BY <1>4, <2>1, <2>2
<1> QED
  BY <1>1, <1>2, <1>6, <1>7, <1>8, <1>9 DEF StillReading

\* Without a file there is nothing to load.
LEMMA EndWithoutFile ==
  ASSUME ArgsLeft, StillReading, args = <<>>, file.kind = "none"
  PROVE  ReadyToOverride
<1> DEFINE n == Len(input.args)
<1>1. n \in Nat /\ Read = n
  <2>1. Len(<<>>) = 0 /\ n \in Nat
    BY ListLength DEF ArgsLeft, IsLine
  <2> QED
    BY <2>1 DEF Read
<1>2. OverridesAre(n) /\ FileIs(n) /\ UpstreamsAre(<<>>, n)
  BY <1>1 DEF StillReading
<1>3. Giving("config", n) = {}
  <2> SUFFICES ASSUME Giving("config", n) # {} PROVE FALSE
    OBVIOUS
  <2>1. Giving("config", n) \in SUBSET (0..n)
    BY <1>1 DEF Giving
  <2>2. Max(Giving("config", n)) \in Giving("config", n)
    BY <1>1, <2>1, MaxOfPositions, Zenon
  <2>3. input.args[Max(Giving("config", n))].value.kind # "none"
    BY <2>2 DEF Giving, ArgsLeft, IsLine
  <2> QED
    BY <1>2, <2>3 DEF FileIs
<1>4. LastOf("config") = Missing
  BY <1>3 DEF LastOf
<1>5. FileUpstreams = <<>> /\ FromFile = [setting \in Overridable |-> Missing]
  BY <1>4 DEF FileUpstreams, FromFile, Missing
<1>6. \A setting \in Overridable : FromFile[setting].kind = "absent"
  BY <1>5 DEF Missing
<1>7. /\ SettingsAre(runtime, FromFile) /\ Usable(runtime)
      /\ runtime.prewarm <=> FileSaysPrewarm
  <2>1. runtime = DefaultRuntime
    BY DEF StillReading
  <2> QED
    BY <1>6, <2>1 DEF SettingsAre, Usable, FileSaysPrewarm, Overridable, DefaultRuntime
<1> QED
  BY <1>2, <1>5, <1>7 DEF ReadyToOverride, StillReading

\* With one, what it holds comes in.
LEMMA LoadReads ==
  ASSUME input.host # "library", ArgsLeft, StillReading, args = <<>>, file.kind # "none",
         Load
  PROVE  stage' = "override" => ReadyToOverride'
<1> DEFINE n == Len(input.args)
<1> SUFFICES ASSUME stage' = "override" PROVE ReadyToOverride'
  OBVIOUS
<1>1. n \in Nat /\ Read = n
  <2>1. Len(<<>>) = 0 /\ n \in Nat
    BY ListLength DEF ArgsLeft, IsLine
  <2> QED
    BY <2>1 DEF Read
<1>2. OverridesAre(n) /\ FileIs(n) /\ UpstreamsAre(<<>>, n)
  BY <1>1 DEF StillReading
<1>3. /\ LastOf("config") = file /\ IsDocument(file) /\ input.host # "example"
  <2>1. Giving("config", n) # {}
    BY <1>2 DEF FileIs
  <2>2. Giving("config", n) \in SUBSET (0..n)
    BY <1>1 DEF Giving
  <2>3. Max(Giving("config", n)) \in Giving("config", n)
    BY <1>1, <2>1, <2>2, MaxOfPositions, Zenon
  <2>4. /\ Max(Giving("config", n)) \in 1..n
        /\ input.args[Max(Giving("config", n))].option = "config"
    BY <2>3 DEF Giving
  <2>5. LastOf("config") = file /\ file = input.args[Max(Giving("config", n))].value
    BY <1>2, <2>1 DEF FileIs, LastOf
  <2>6. IsDocument(file)
    BY <2>4, <2>5 DEF ArgsLeft, IsLine
  <2>7. "config" \in Known(input.host)
    BY <1>1, <2>4 DEF ArgsLeft
  <2> QED
    BY <2>5, <2>6, <2>7 DEF Known
<1>4. PICK loaded \in Loaded(file, NoEnvironment) :
        /\ runtime' = loaded.runtime
        /\ config' \in merge_gateway_config_upstreams(loaded.config, config)
        /\ UNCHANGED <<input, overrides, impl>>
  <2>1. Document = file /\ Environment = NoEnvironment
    BY DEF Document, Environment
  <2>2. \A l : Merged(l) = merge_gateway_config_upstreams(l.config, config)
    BY DEF Merged
  <2>3. ~Refuse(2)
    BY DEF Refuse, Exit
  <2>4. PICK loaded \in Loaded(Document, Environment) :
          /\ runtime' = loaded.runtime
          /\ \E merged \in Merged(loaded) : config' = merged
    BY <2>3, Zenon DEF Load
  <2>5. UNCHANGED <<input, overrides, impl>>
    BY DEF Load
  <2>6. loaded \in Loaded(file, NoEnvironment)
    BY <2>1, <2>4
  <2>7. config' \in merge_gateway_config_upstreams(loaded.config, config)
    BY <2>2, <2>4
  <2> QED
    BY <2>4, <2>5, <2>6, <2>7
<1>5. UpstreamsAre(FileUpstreams, n)'
  <2> DEFINE items == file.upstreams.items
  <2>1. /\ file.kind = "object" /\ "upstreams" \in DOMAIN loaded.config
        /\ IsList(items) /\ IsList(loaded.config.upstreams)
        /\ Len(loaded.config.upstreams) = Len(items)
        /\ \A i \in 1..Len(items) : loaded.config.upstreams[i].id = items[i].id.text
    BY <1>3, UpstreamsLoaded
  <2>2. PICK ofFile, k : /\ ofFile = items /\ k = n /\ k \in Nat
                         /\ FileUpstreams' = ofFile /\ n' = k
    <3>1. FileUpstreams = items
      BY <1>3, <2>1 DEF FileUpstreams
    <3>2. FileUpstreams' = items /\ n' = n
      BY <1>4, <3>1, InputStays
    <3> HIDE DEF n, items
    <3> QED
      BY <1>1, <3>2
  <2>3. UpstreamsAre(<<>>, k) /\ IsList(config.upstreams)
    BY <1>2, <2>2 DEF StillReading
  <2>4. UpstreamsAre(ofFile, k)'
    BY <1>4, <2>1, <2>2, <2>3, UpstreamsMerged
  <2> QED
    BY <2>2, <2>4
<1>6. /\ SettingsAre(runtime, FromFile)' /\ Usable(runtime)'
      /\ (runtime.prewarm <=> FileSaysPrewarm)'
  <2>1. file.kind = "object"
    BY <1>3, UpstreamsLoaded
  <2>2. loaded.runtime \in runtime_config_from_json(file, NoEnvironment)
    BY DEF Loaded, gateway_config_document_from_json
  <2>3. PICK r : r = loaded.runtime
    OBVIOUS
  <2>4. /\ SettingsAre(r, FromFile) /\ Usable(r) /\ (r.prewarm <=> FileSaysPrewarm)
    BY <1>3, <2>1, <2>2, <2>3, SettingsLoaded
  <2>5. PICK w : w = FromFile /\ w = FromFile'
    BY <1>4, InputStays
  <2>6. SettingsAre(r, w)' /\ (FileSaysPrewarm' <=> FileSaysPrewarm) /\ runtime' = r
    BY <1>4, <2>3, <2>4, <2>5, InputStays
  <2> QED
    BY <2>4, <2>5, <2>6 DEF Usable
<1>7. OverridesAre(n)'
  <2>1. PICK k : n = k /\ n' = k
    BY <1>4
  <2> QED
    BY <1>2, <1>4, <2>1, OverridesStay
<1> QED
  BY <1>4, <1>5, <1>6, <1>7 DEF ReadyToOverride, StillReading

\* The settings the runtime is constructed with.
LEMMA OverrideReads ==
  ASSUME input.host # "library", ArgsLeft, ReadyToOverride, Override
  PROVE  stage' = "construct" => ReadyToConstruct'
<1> SUFFICES ASSUME stage' = "construct" PROVE ReadyToConstruct'
  OBVIOUS
<1>1. /\ runtime' = Overridden(runtime) /\ options' = Settings(runtime')
      /\ UNCHANGED <<input, config, impl>>
  <2>1. ~Refuse(2)
    BY DEF Refuse, Exit
  <2> QED
    BY <2>1 DEF Override, make_gateway_runtime_options
<1>2. /\ SettingsAre(runtime', Written) /\ Usable(runtime')
      /\ runtime'.prewarm <=> LastOf("prewarm").kind # "absent" \/ FileSaysPrewarm
  <2>1. IsLine(input.args) /\ OverridesAre(Len(input.args))
    BY DEF ArgsLeft, ReadyToOverride
  <2>2. PICK r : r = runtime /\ Overridden(r) = runtime'
    BY <1>1
  <2>3. SettingsAre(r, FromFile) /\ Usable(r) /\ (r.prewarm <=> FileSaysPrewarm)
    BY <2>2 DEF ReadyToOverride
  <2> QED
    BY <2>1, <2>2, <2>3, SettingsOverridden
<1>3. SettingsAre(options', Written) /\ Usable(options')
  BY <1>1, <1>2 DEF SettingsAre, Usable, Settings
<1>4. SettingsAre(options, Written)'
  <2>1. PICK s, w : s = options' /\ w = Written /\ Written' = w
    BY <1>1, InputStays
  <2> QED
    BY <1>1, <1>3, <2>1, InputStays
<1>5. UpstreamsAre(FileUpstreams, Len(input.args))'
  <2>1. PICK n, items : /\ n = Len(input.args) /\ n = Len(input.args)'
                        /\ items = FileUpstreams /\ items = FileUpstreams'
    BY <1>1, InputStays
  <2> QED
    BY <1>1, <2>1, UpstreamsStay DEF ReadyToOverride
<1>6. /\ FileSaysPrewarm' <=> FileSaysPrewarm
      /\ LastOf("prewarm")' = LastOf("prewarm")
  BY <1>1, InputStays
<1> QED
  BY <1>1, <1>2, <1>3, <1>4, <1>5, <1>6 DEF ReadyToConstruct, ReadyToOverride, Usable

\* What it takes from them.
LEMMA ReadyIsWritten ==
  ASSUME ReadyToConstruct, NEW s, s = Normalised(options)
  PROVE  /\ UpstreamsAre(FileUpstreams, Len(input.args))
         /\ SettingsAre(s, Written)
         /\ runtime.prewarm <=> LastOf("prewarm").kind # "absent" \/ FileSaysPrewarm
<1>1. /\ s.mode = options.mode /\ s.pool = options.pool
      /\ s.acquire = options.acquire /\ s.drain = options.drain
  BY UsableAreTaken DEF ReadyToConstruct
<1> QED
  BY <1>1 DEF ReadyToConstruct, SettingsAre

\* A runtime that was constructed as written stays so.
LEMMA WrittenStays ==
  ASSUME UNCHANGED <<input, config, runtime, impl>>
  PROVE  ConstructedAsWritten' <=> ConstructedAsWritten
<1>1. UpstreamsAre(FileUpstreams, Len(input.args))'
        <=> UpstreamsAre(FileUpstreams, Len(input.args))
  <2>1. PICK n, items : /\ n = Len(input.args) /\ n = Len(input.args)'
                        /\ items = FileUpstreams /\ items = FileUpstreams'
    BY InputStays
  <2> QED
    BY <2>1, UpstreamsStay
<1>2. \A s : SettingsAre(s, Written)' <=> SettingsAre(s, Written)
  <2>1. PICK w : w = Written /\ w = Written'
    BY InputStays
  <2> QED
    BY <2>1, InputStays
<1>3. /\ FileSaysPrewarm' <=> FileSaysPrewarm
      /\ LastOf("prewarm")' = LastOf("prewarm")
  BY InputStays
<1> QED
  BY <1>1, <1>2, <1>3 DEF ConstructedAsWritten

LEMMA StepAsRead ==
  LaunchTypeOK /\ (input.host # "library" => AsRead) /\ [Next]_vars
    => (input.host # "library" => AsRead)'
<1> SUFFICES ASSUME LaunchTypeOK, AsRead, input.host # "library", [Next]_vars
             PROVE  AsRead'
  <2>1. [Next]_vars => input' = input
    BY DEF Next, vars, Command, ReadOption, RefuseOption, OptionsEnd, Load, Override,
           Construct, Refresh, SkipRefresh, StartHttp, Operate, Wait
  <2> QED
    BY <2>1
<1> USE DEF AsRead, Goto, Exit, Refuse
<1> DEFINE Frame == UNCHANGED <<input, args, file, overrides, config, runtime, options, impl>>
<1>a. ASSUME Frame, NEW s, stage = s,
             \/ stage' = s \/ stage' = "exited"
             \/ s = "command" /\ stage' = "options"
             \/ s = "options" /\ args = <<>> /\ file.kind # "none" /\ stage' = "load"
             \/ /\ s = "options" /\ args = <<>> /\ file.kind = "none"
                /\ stage' = "override"
             \/ s \in {"refresh", "start", "serving"} /\ stage' \in {"start", "serving"}
      PROVE  AsRead'
  <2>1. ArgsLeft'
    BY <1>a, ReadingStays
  <2>2. StillReading => StillReading'
    BY <1>a, StillReadingStays
  <2>3. /\ ReadyToOverride => ReadyToOverride'
        /\ ReadyToConstruct => ReadyToConstruct'
    BY <1>a, ReadyStays
  <2>4. s = "options" /\ args = <<>> /\ file.kind = "none" => ReadyToOverride
    BY <1>a, EndWithoutFile
  <2> QED
    BY <1>a, <2>1, <2>2, <2>3, <2>4
<1>1. CASE Command
  BY <1>1, <1>a DEF Command
<1>2. CASE ReadOption
  <2>1. stage = "options" /\ stage' = stage /\ impl' = impl
    BY <1>2 DEF ReadOption
  <2>2. ArgsLeft' /\ StillReading'
    BY <1>2, <2>1, ReadOptionReads
  <2> QED
    BY <2>1, <2>2 DEF StillReading
<1>3. CASE RefuseOption
  BY <1>3, <1>a DEF RefuseOption
<1>4. CASE OptionsEnd
  BY <1>4, <1>a DEF OptionsEnd
<1>5. CASE Load
  <2>1. /\ stage = "load" /\ stage' \in {"override", "exited"}
        /\ UNCHANGED <<input, args, impl>>
    BY <1>5 DEF Load
  <2>2. stage' = "override" => ReadyToOverride'
    BY <1>5, <2>1, LoadReads
  <2> QED
    BY <2>1, <2>2, ReadingStays DEF StillReading
<1>6. CASE Override
  <2>1. /\ stage = "override" /\ stage' \in {"construct", "exited"}
        /\ UNCHANGED <<input, args, impl>>
    BY <1>6 DEF Override
  <2>2. stage' = "construct" => ReadyToConstruct'
    BY <1>6, <2>1, OverrideReads
  <2> QED
    BY <2>1, <2>2, ReadingStays DEF ReadyToOverride
<1>7. CASE Construct
  <2>1. stage' \in {"start", "refresh"} /\ UNCHANGED <<input, args>>
    BY <1>7 DEF Construct
  <2> QED
    BY <2>1, ReadingStays
<1>8. CASE Refresh
  BY <1>8, <1>a DEF Refresh
<1>9. CASE SkipRefresh
  BY <1>9, <1>a DEF SkipRefresh
<1>10. CASE StartHttp
  BY <1>10, <1>a DEF StartHttp
<1>11. CASE Operate
  BY <1>11, <1>a DEF Operate
<1>12. CASE Wait
  BY <1>12, <1>a DEF Wait
<1>13. CASE UNCHANGED vars
  BY <1>13, <1>a DEF vars
<1> QED
  BY <1>1, <1>2, <1>3, <1>4, <1>5, <1>6, <1>7, <1>8, <1>9, <1>10, <1>11, <1>12, <1>13
     DEF Next

LEMMA StepConstructedAsWritten ==
  (input.host # "library" => AsRead) /\ ConstructedAsWritten /\ [Next]_vars
    => ConstructedAsWritten'
<1> SUFFICES ASSUME input.host # "library" => AsRead, ConstructedAsWritten, [Next]_vars
             PROVE  ConstructedAsWritten'
  OBVIOUS
<1>1. CASE Construct
  <2>1. /\ UNCHANGED <<input, config, runtime>> /\ impl' = {Normalised(options)}
        /\ stage = "construct"
    BY <1>1 DEF Construct
  <2> SUFFICES ASSUME input.host # "library" PROVE ConstructedAsWritten'
    BY <2>1 DEF ConstructedAsWritten
  <2>2. PICK s : s = Normalised(options)
    OBVIOUS
  <2>3. /\ UpstreamsAre(FileUpstreams, Len(input.args))
        /\ SettingsAre(s, Written)
        /\ runtime.prewarm <=> LastOf("prewarm").kind # "absent" \/ FileSaysPrewarm
    BY <2>1, <2>2, ReadyIsWritten DEF AsRead
  <2>4. UpstreamsAre(FileUpstreams, Len(input.args))'
    <3>1. PICK n, items : /\ n = Len(input.args) /\ n = Len(input.args)'
                          /\ items = FileUpstreams /\ items = FileUpstreams'
      BY <2>1, InputStays
    <3> QED
      BY <2>1, <2>3, <3>1, UpstreamsStay
  <2>5. SettingsAre(s, Written)'
    <3>1. PICK w : w = Written /\ w = Written'
      BY <2>1, InputStays
    <3> QED
      BY <2>1, <2>3, <3>1, InputStays
  <2>6. /\ FileSaysPrewarm' <=> FileSaysPrewarm
        /\ LastOf("prewarm")' = LastOf("prewarm")
    BY <2>1, InputStays
  <2> QED
    BY <2>1, <2>2, <2>3, <2>4, <2>5, <2>6 DEF ConstructedAsWritten
<1>2. CASE UNCHANGED <<input, config, runtime, impl>>
  BY <1>2, WrittenStays
<1>3. CASE ReadOption \/ Load \/ Override
  <2>1. impl' = impl /\ input' = input /\ stage \in {"options", "load", "override"}
    BY <1>3 DEF ReadOption, Load, Override
  <2> SUFFICES ASSUME input.host # "library" PROVE impl' = {}
    BY <2>1 DEF ConstructedAsWritten
  <2> QED
    BY <2>1 DEF AsRead
<1> QED
  BY <1>1, <1>2, <1>3
     DEF Next, vars, Command, RefuseOption, OptionsEnd, Refresh, SkipRefresh, StartHttp,
         Operate, Wait

\* What a program's runtime is constructed from is what its file and its command
\* line say, whatever they hold: every upstream in its place, and every setting
\* by the right one of the writers, neither wrapped nor clamped.
THEOREM AsWritten == LaunchSpec => []ConstructedAsWritten
<1>1. Init => LaunchTypeOK /\ (input.host # "library" => AsRead) /\ ConstructedAsWritten
  BY InitLaunchTypeOK, InitAsRead, InitFresh DEF ConstructedAsWritten
<1>2. /\ LaunchTypeOK /\ (input.host # "library" => AsRead) /\ ConstructedAsWritten
      /\ [Next]_vars
      => (LaunchTypeOK /\ (input.host # "library" => AsRead) /\ ConstructedAsWritten)'
  BY StepLaunchTypeOK, StepAsRead, StepConstructedAsWritten
<1> QED
  BY <1>1, <1>2, PTL DEF LaunchSpec

-----------------------------------------------------------------------------
(* Expansion: the loop, and what it makes of the rest of a text.           *)

IsExpansion(value, environment, from) ==
  from = [o \in 1..(Len(value) + 1) |-> expand_from(value, environment, o, from)]

\* A text and an environment over the same characters.
AreTexts(S, value, environment) ==
  /\ value \in Seq(S)
  /\ \A name \in DOMAIN environment.values : environment.values[name] \in Seq(S)

\* The string literals of the braces are beyond the SMT backend: Zenon takes the
\* positions out of the definitions once.
LEMMA OpeningsAndClosings ==
  ASSUME NEW value
  PROVE  /\ \A i \in Openings(value) : /\ i \in 1..(Len(value) - 1)
                                       /\ i \notin Closings(value)
                                       /\ i + 1 \notin Closings(value)
         /\ \A i \in Closings(value) : i \in 1..Len(value)
<1>1. ASSUME NEW i \in Openings(value)
      PROVE  i \in 1..(Len(value) - 1) /\ value[i] = "$" /\ value[i + 1] = "{"
  BY Zenon DEF Openings
<1>2. \A i \in Closings(value) : i \in 1..Len(value) /\ value[i] = "}"
  BY Zenon DEF Closings
<1>3. ASSUME NEW i \in Openings(value)
      PROVE  i \notin Closings(value) /\ i + 1 \notin Closings(value)
  <2>1. "$" # "}" /\ "{" # "}"
    BY Zenon
  <2> QED
    BY <1>1, <1>2, <2>1, Zenon
<1> QED
  BY <1>1, <1>2, <1>3, Zenon

\* Where the loop finds its next placeholder.
LEMMA NextPlaceholder ==
  ASSUME NEW S, NEW value \in Seq(S), NEW o \in 1..(Len(value) + 1), OpenFrom(value, o) # {},
         NEW open, open = Min(OpenFrom(value, o))
  PROVE  /\ open \in Openings(value) /\ open \in o..(Len(value) - 1)
         /\ \A i \in o..(open - 1) : i \notin Openings(value)
         /\ CloseAfter(value, open) # {} =>
              LET close == Min(CloseAfter(value, open)) IN
              /\ close \in (open + 2)..Len(value)
              /\ IsPlaceholder(value, open, close)
<1>1. Len(value) \in Nat /\ o \in Nat
  OBVIOUS
<1>a. /\ \A i \in Openings(value) : /\ i \in 1..(Len(value) - 1)
                                   /\ i \notin Closings(value)
                                   /\ i + 1 \notin Closings(value)
      /\ \A i \in Closings(value) : i \in 1..Len(value)
  BY OpeningsAndClosings, Zenon
<1>2. OpenFrom(value, o) \in SUBSET Nat
  BY <1>1, <1>a DEF OpenFrom
<1>3. open \in OpenFrom(value, o) /\ \A m \in OpenFrom(value, o) : open <= m
  BY <1>2, MinOfNaturals
<1>4. open \in Openings(value) /\ open \in o..(Len(value) - 1)
  BY <1>1, <1>3, <1>a DEF OpenFrom
<1>5. ASSUME NEW i \in o..(open - 1), i \in Openings(value) PROVE FALSE
  <2>1. i \in OpenFrom(value, o)
    BY <1>1, <1>4, <1>5 DEF OpenFrom
  <2> QED
    BY <1>1, <1>3, <1>4, <2>1
<1>6. ASSUME CloseAfter(value, open) # {}, NEW close, close = Min(CloseAfter(value, open))
      PROVE  close \in (open + 2)..Len(value) /\ IsPlaceholder(value, open, close)
  <2>1. CloseAfter(value, open) \in SUBSET Nat
    BY <1>1, <1>a DEF CloseAfter
  <2>2. /\ close \in CloseAfter(value, open)
        /\ \A m \in CloseAfter(value, open) : close <= m
    BY <1>6, <2>1, MinOfNaturals
  <2>3. close \in Closings(value) /\ close \in (open + 2)..Len(value)
    BY <1>1, <1>4, <1>a, <2>2 DEF CloseAfter
  <2>5. open \notin Closings(value) /\ open + 1 \notin Closings(value)
    BY <1>4, <1>a
  <2>6. ASSUME NEW i \in Closings(value), i \in open..close PROVE i = close
    <3>1. i \in Nat /\ i >= open + 2
      BY <1>1, <1>4, <1>a, <2>3, <2>5, <2>6
    <3>2. i \in CloseAfter(value, open)
      BY <3>1 DEF CloseAfter
    <3> QED
      BY <1>4, <2>2, <2>3, <2>6, <3>1, <3>2
  <2>7. {i \in Closings(value) : i \in open..close} = {close}
    <3>1. close \in open..close
      BY <1>1, <1>4, <2>3
    <3> QED
      BY <2>3, <2>6, <3>1, Zenon
  <2> QED
    BY <1>4, <2>3, <2>7 DEF IsPlaceholder
<1> QED
  BY <1>4, <1>5, <1>6

\* What the loop makes of the rest looks only at what comes after.
LEMMA ExpansionLooksAhead ==
  ASSUME NEW S, NEW value \in Seq(S), NEW environment, NEW o \in 1..(Len(value) + 1),
         NEW g, NEW h, \A p \in 1..(Len(value) + 1) : p > o => g[p] = h[p]
  PROVE  expand_from(value, environment, o, g) = expand_from(value, environment, o, h)
<1> DEFINE open  == Min(OpenFrom(value, o))
           close == Min(CloseAfter(value, open))
<1>1. CASE OpenFrom(value, o) = {}
  BY <1>1, Zenon DEF expand_from
<1>2. CASE OpenFrom(value, o) # {} /\ CloseAfter(value, open) = {}
  BY <1>2, Zenon DEF expand_from
<1>3. CASE OpenFrom(value, o) # {} /\ CloseAfter(value, open) # {}
  <2>1. open \in o..(Len(value) - 1) /\ close \in (open + 2)..Len(value)
    <3> HIDE DEF open
    <3>1. open = Min(OpenFrom(value, o))
      BY DEF open
    <3> QED
      BY <1>3, <3>1, NextPlaceholder
  <2>2. close + 1 \in 1..(Len(value) + 1) /\ close + 1 > o
    <3> HIDE DEF open, close
    <3> QED
      BY <2>1
  <2>3. g[close + 1] = h[close + 1]
    <3> HIDE DEF open, close
    <3> QED
      BY <2>2
  <2> QED
    BY <1>3, <2>3, Zenon DEF expand_from
<1> QED
  BY <1>1, <1>2, <1>3

LEMMA InReplaced ==
  ASSUME NEW before, NEW meanings, NEW rests, NEW r \in Replaced(before, meanings, rests)
  PROVE  \E meaning \in meanings, rest \in rests : r = before \o meaning \o rest
BY DEF Replaced

LEMMA MeaningIsText ==
  ASSUME NEW S, NEW value, NEW environment, AreTexts(S, value, environment),
         NEW name, NEW meaning \in Meaning(name, environment)
  PROVE  meaning \in Seq(S)
BY DEF Meaning, AreTexts

\* What the loop makes of the rest is text.
LEMMA ExpansionIsText ==
  ASSUME NEW S, NEW value, NEW environment, AreTexts(S, value, environment),
         NEW o \in 1..(Len(value) + 1), NEW g \in [1..(Len(value) + 1) -> SUBSET Seq(S)],
         NEW r \in expand_from(value, environment, o, g)
  PROVE  r \in Seq(S)
<1> DEFINE open  == Min(OpenFrom(value, o))
           close == Min(CloseAfter(value, open))
<1>0. value \in Seq(S) /\ Len(value) \in Nat
  BY DEF AreTexts
<1>1. CASE OpenFrom(value, o) = {}
  <2>1. r = SubSeq(value, o, Len(value))
    BY <1>1, Zenon DEF expand_from
  <2> QED
    BY <1>0, <2>1, SubSeqProperties
<1>2. CASE OpenFrom(value, o) # {} /\ CloseAfter(value, open) = {}
  BY <1>2, Zenon DEF expand_from
<1>3. CASE OpenFrom(value, o) # {} /\ CloseAfter(value, open) # {}
  <2>1. open \in o..(Len(value) - 1) /\ close \in (open + 2)..Len(value)
    <3> HIDE DEF open
    <3>1. open = Min(OpenFrom(value, o))
      BY DEF open
    <3> QED
      BY <1>0, <1>3, <3>1, NextPlaceholder
  <2>a. r \in Replaced(SubSeq(value, o, open - 1),
                      Meaning(SubSeq(value, open + 2, close - 1), environment), g[close + 1])
    BY <1>3, Zenon DEF expand_from
  <2>2. PICK meaning \in Meaning(SubSeq(value, open + 2, close - 1), environment),
             rest \in g[close + 1] : r = SubSeq(value, o, open - 1) \o meaning \o rest
    <3> DEFINE before   == SubSeq(value, o, open - 1)
               meanings == Meaning(SubSeq(value, open + 2, close - 1), environment)
               rests    == g[close + 1]
    <3>1. r \in Replaced(before, meanings, rests)
      BY <2>a
    <3> HIDE DEF before, meanings, rests
    <3>2. \E meaning \in meanings, rest \in rests : r = before \o meaning \o rest
      BY <3>1, InReplaced
    <3> QED
      BY <3>2 DEF before, meanings, rests
  <2>3. meaning \in Seq(S)
    BY MeaningIsText, Zenon
  <2> HIDE DEF open, close
  <2>4. rest \in Seq(S)
    BY <1>0, <2>1
  <2>5. SubSeq(value, o, open - 1) \in Seq(S)
    <3>1. o \in 1..(Len(value) + 1) /\ open - 1 \in (o - 1)..Len(value)
      BY <1>0, <2>1
    <3> QED
      BY <1>0, <3>1, SubSeqProperties
  <2>6. SubSeq(value, o, open - 1) \o meaning \in Seq(S)
    BY <2>3, <2>5, ConcatProperties, Zenon
  <2> QED
    BY <2>2, <2>4, <2>6, ConcatProperties, Zenon
<1> QED
  BY <1>1, <1>2, <1>3

LEMMA ExpansionExists ==
  ASSUME NEW S, NEW value, NEW environment, AreTexts(S, value, environment)
  PROVE  \E from \in [1..(Len(value) + 1) -> SUBSET Seq(S)] :
           IsExpansion(value, environment, from)
<1> DEFINE D == 1..(Len(value) + 1)
           X == SUBSET Seq(S)
           G == [p \in D \X [D -> X] |-> expand_from(value, environment, p[1], p[2])]
           rank == [o \in D |-> Len(value) + 1 - o]
<1>1. value \in Seq(S) /\ Len(value) \in Nat
  BY DEF AreTexts
<1>2. G \in [D \X [D -> X] -> X]
  <2>1. ASSUME NEW o \in D, NEW g \in [D -> X]
        PROVE  expand_from(value, environment, o, g) \in X
    BY ExpansionIsText, Zenon
  <2> HIDE DEF X, D
  <2>2. ASSUME NEW p \in D \X [D -> X]
        PROVE  expand_from(value, environment, p[1], p[2]) \in X
    <3>1. p[1] \in D /\ p[2] \in [D -> X]
      OBVIOUS
    <3> QED
      BY <2>1, <3>1
  <2> QED
    BY <2>2, Zenon
<1>3. /\ rank \in [D -> Nat] /\ \A o \in D : rank[o] < Len(value) + 2
      /\ \A o, p \in D : p > o => rank[p] < rank[o]
  BY <1>1
<1>4. \A o \in D : \A g, h \in [D -> X] :
        (\A p \in D : rank[p] < rank[o] => g[p] = h[p]) => G[<<o, g>>] = G[<<o, h>>]
  <2> SUFFICES ASSUME NEW o \in D, NEW g \in [D -> X], NEW h \in [D -> X],
                      \A p \in D : rank[p] < rank[o] => g[p] = h[p]
               PROVE  G[<<o, g>>] = G[<<o, h>>]
    BY Zenon
  <2>1. \A p \in D : p > o => g[p] = h[p]
    BY <1>3
  <2>2. expand_from(value, environment, o, g) = expand_from(value, environment, o, h)
    BY <1>1, <2>1, ExpansionLooksAhead
  <2>3. <<o, g>>[1] = o /\ <<o, g>>[2] = g /\ <<o, h>>[1] = o /\ <<o, h>>[2] = h
    OBVIOUS
  <2>4. <<o, g>> \in D \X [D -> X] /\ <<o, h>> \in D \X [D -> X]
    OBVIOUS
  <2> HIDE DEF D, X
  <2> QED
    BY <2>2, <2>3, <2>4, Zenon
<1>5. \E f \in [D -> X] : \A o \in D : f[o] = G[<<o, f>>]
  <2> HIDE DEF D, X, G, rank
  <2>1. Len(value) + 2 \in Nat
    BY <1>1
  <2>2. X # {}
    BY DEF X
  <2>3. Descends(D, X, G, rank, Len(value) + 2)
    BY <1>2, <1>3, <1>4, <2>1, <2>2 DEF Descends
  <2> QED
    BY <2>3, RecursiveFunction
<1>6. PICK f \in [D -> X] : \A o \in D : f[o] = G[<<o, f>>]
  BY <1>5
<1>7. \A o \in D : f[o] = expand_from(value, environment, o, f)
  <2> TAKE o \in D
  <2>1. <<o, f>>[1] = o /\ <<o, f>>[2] = f /\ <<o, f>> \in D \X [D -> X]
    OBVIOUS
  <2> HIDE DEF D, X
  <2> QED
    BY <1>6, <2>1, Zenon
<1>8. f = [o \in D |-> expand_from(value, environment, o, f)]
  <2> HIDE DEF D
  <2> QED
    BY <1>7, Zenon
<1> QED
  BY <1>8, Zenon DEF IsExpansion

LEMMA ExpansionIsOne ==
  ASSUME NEW S, NEW value \in Seq(S), NEW environment, NEW f, NEW g,
         IsExpansion(value, environment, f), IsExpansion(value, environment, g)
  PROVE  f = g
<1> DEFINE n == Len(value) + 1
           M == {m \in Nat : \A o \in 1..n : n - o = m => f[o] = g[o]}
<1>1. n \in Nat
  OBVIOUS
<1>2. /\ \A o \in 1..n : f[o] = expand_from(value, environment, o, f)
      /\ \A o \in 1..n : g[o] = expand_from(value, environment, o, g)
      /\ f = [o \in 1..n |-> f[o]] /\ g = [o \in 1..n |-> g[o]]
  BY Zenon DEF IsExpansion
<1>3. ASSUME NEW k \in Nat, \A l \in 0..(k - 1) : l \in M PROVE k \in M
  <2> SUFFICES ASSUME NEW o \in 1..n, n - o = k PROVE f[o] = g[o]
    OBVIOUS
  <2>1. ASSUME NEW p \in 1..n, p > o PROVE f[p] = g[p]
    <3>1. n - p \in 0..(k - 1)
      BY <1>1, <2>1
    <3> QED
      BY <1>3, <3>1
  <2>2. expand_from(value, environment, o, f) = expand_from(value, environment, o, g)
    BY <2>1, ExpansionLooksAhead
  <2> QED
    BY <1>2, <2>2
<1>4. Nat \subseteq M
  <2> HIDE DEF M
  <2> QED
    BY <1>3, StrongInduction
<1>5. \A o \in 1..n : f[o] = g[o]
  <2> TAKE o \in 1..n
  <2>1. n - o \in Nat
    BY <1>1
  <2> QED
    BY <1>4, <2>1
<1> QED
  <2> HIDE DEF n, M
  <2> QED
    BY <1>2, <1>5

-----------------------------------------------------------------------------
(* The pieces of a text, and what they mean.                               *)

\* What a piece of a text stands for.
PieceMeanings(value, begin, end, environment) ==
  IF IsPlaceholder(value, begin, end)
  THEN Meaning(SubSeq(value, begin + 2, end - 1), environment)
  ELSE {SubSeq(value, begin, end)}

AfterPlaceholder(value, ends) ==
  ends # <<>> => IsPlaceholder(value, Begin(ends, Len(ends)), ends[Len(ends)])

\* The k-th piece, which means m.
IsPiece(value, environment, ends, k, m) ==
  /\ ends[k] \in Begin(ends, k)..Len(value)
  /\ \/ IsPlaceholder(value, Begin(ends, k), ends[k])
     \/ IsPlain(value, Begin(ends, k), ends[k])
  /\ m \in PieceMeanings(value, Begin(ends, k), ends[k], environment)

NotBothPlain(value, ends, k) ==
  \/ IsPlaceholder(value, Begin(ends, k - 1), ends[k - 1])
  \/ IsPlaceholder(value, Begin(ends, k), ends[k])

\* The pieces that end at ends are those before the offset o, and ms is what they
\* mean.
IsReadTo(S, value, environment, o, ends, ms) ==
  /\ ends \in Seq(Nat) /\ ms \in Seq(Seq(S)) /\ Len(ms) = Len(ends)
  /\ o = Begin(ends, Len(ends) + 1)
  /\ \A k \in 1..Len(ends) : IsPiece(value, environment, ends, k, ms[k])
  /\ \A k, l \in 1..Len(ends) : k < l => ends[k] < ends[l]
  /\ \A k \in 2..Len(ends) : NotBothPlain(value, ends, k)

\* One more piece.
IsNextPiece(S, value, environment, o, ends, end, m) ==
  /\ end \in o..Len(value) /\ m \in Seq(S)
  /\ IsPlaceholder(value, o, end) \/ IsPlain(value, o, end)
  /\ m \in PieceMeanings(value, o, end, environment)
  /\ AfterPlaceholder(value, ends) \/ IsPlaceholder(value, o, end)

LEMMA PieceStays ==
  ASSUME NEW value, NEW environment, NEW ends, NEW more, NEW k \in Nat \ {0}, NEW m,
         more[k] = ends[k], k # 1 => more[k - 1] = ends[k - 1]
  PROVE  /\ Begin(more, k) = Begin(ends, k)
         /\ IsPiece(value, environment, ends, k, m)
              <=> IsPiece(value, environment, more, k, m)
<1>1. Begin(more, k) = Begin(ends, k)
  BY DEF Begin
<1> QED
  BY <1>1 DEF IsPiece

LEMMA OneMorePiece ==
  ASSUME NEW S, NEW value \in Seq(S), NEW environment, NEW o, NEW ends, NEW ms, NEW end, NEW m,
         IsReadTo(S, value, environment, o, ends, ms),
         IsNextPiece(S, value, environment, o, ends, end, m)
  PROVE  /\ IsReadTo(S, value, environment, end + 1, Append(ends, end), Append(ms, m))
         /\ IsPlaceholder(value, o, end) => AfterPlaceholder(value, Append(ends, end))
<1> DEFINE more == Append(ends, end)
           mm   == Append(ms, m)
           n    == Len(ends)
<1>1. /\ ends \in Seq(Nat) /\ ms \in Seq(Seq(S)) /\ Len(ms) = n /\ n \in Nat
      /\ o = Begin(ends, n + 1)
      /\ \A k \in 1..n : IsPiece(value, environment, ends, k, ms[k])
      /\ \A k, l \in 1..n : k < l => ends[k] < ends[l]
      /\ \A k \in 2..n : NotBothPlain(value, ends, k)
  BY DEF IsReadTo
<1>2. /\ end \in o..Len(value) /\ m \in Seq(S) /\ Len(value) \in Nat
      /\ IsPlaceholder(value, o, end) \/ IsPlain(value, o, end)
      /\ m \in PieceMeanings(value, o, end, environment)
      /\ AfterPlaceholder(value, ends) \/ IsPlaceholder(value, o, end)
  BY DEF IsNextPiece
<1>3. o \in Nat /\ end \in Nat
  <2>1. o \in Nat
    BY <1>1 DEF Begin
  <2> QED
    BY <1>2, <2>1
<1>4. /\ more \in Seq(Nat) /\ Len(more) = n + 1 /\ more[n + 1] = end /\ more # <<>>
      /\ \A k \in 1..n : more[k] = ends[k]
  <2>1. ends \in Seq(Nat) /\ end \in Nat
    BY <1>1, <1>3
  <2> QED
    BY <2>1, AppendProperties
<1>5. /\ mm \in Seq(Seq(S)) /\ Len(mm) = n + 1 /\ mm[n + 1] = m
      /\ \A k \in 1..n : mm[k] = ms[k]
  BY <1>1, <1>2, AppendProperties
<1> HIDE DEF more, mm, n
<1>6. Begin(more, n + 1) = o /\ Begin(more, Len(more) + 1) = end + 1
  <2>1. (n + 1) + 1 # 1 /\ ((n + 1) + 1) - 1 = n + 1 /\ (n + 1) - 1 = n
    BY <1>1
  <2>2. n + 1 # 1 => n \in 1..n
    BY <1>1
  <2> QED
    BY <1>1, <1>4, <2>1, <2>2 DEF Begin
<1>7. ASSUME NEW k \in 1..n
      PROVE  /\ Begin(more, k) = Begin(ends, k)
             /\ IsPiece(value, environment, more, k, mm[k])
  <2>1. k \in Nat \ {0} /\ (k # 1 => k - 1 \in 1..n)
    BY <1>1
  <2>2. more[k] = ends[k] /\ (k # 1 => more[k - 1] = ends[k - 1]) /\ mm[k] = ms[k]
    BY <1>4, <1>5, <2>1
  <2> QED
    BY <1>1, <2>1, <2>2, PieceStays
<1>8. IsPiece(value, environment, more, n + 1, mm[n + 1])
  BY <1>2, <1>4, <1>5, <1>6 DEF IsPiece
<1>9. \A k \in 1..Len(more) : IsPiece(value, environment, more, k, mm[k])
  <2>1. \A k \in 1..Len(more) : k \in 1..n \/ k = n + 1
    BY <1>1, <1>4
  <2> QED
    BY <1>7, <1>8, <2>1
<1>10. \A k, l \in 1..Len(more) : k < l => more[k] < more[l]
  <2> SUFFICES ASSUME NEW k \in 1..Len(more), NEW l \in 1..Len(more), k < l
               PROVE  more[k] < more[l]
    OBVIOUS
  <2>1. k \in 1..n
    BY <1>1, <1>4
  <2>2. CASE l \in 1..n
    BY <1>1, <1>4, <2>1, <2>2
  <2>3. CASE l = n + 1
    <3>1. n # 0 /\ n \in 1..n /\ n + 1 # 1 /\ (n + 1) - 1 = n
      BY <1>1, <2>1
    <3>2. o = ends[n] + 1
      BY <1>1, <3>1 DEF Begin
    <3>3. ends[k] <= ends[n] /\ ends[n] \in Nat /\ ends[k] \in Nat
      <4>1. k < n \/ k = n
        BY <1>1, <2>1
      <4>2. ends[n] \in Nat /\ ends[k] \in Nat
        BY <1>1, <2>1, <3>1 DEF n
      <4> QED
        BY <1>1, <2>1, <3>1, <4>1, <4>2
    <3>4. end >= o
      BY <1>2, <1>3
    <3>5. more[k] = ends[k] /\ more[l] = end
      BY <1>4, <2>1, <2>3
    <3> QED
      BY <1>3, <3>2, <3>3, <3>4, <3>5
  <2> QED
    BY <1>1, <1>4, <2>2, <2>3
<1>11. \A k \in 2..Len(more) : NotBothPlain(value, more, k)
  <2> SUFFICES ASSUME NEW k \in 2..Len(more) PROVE NotBothPlain(value, more, k)
    OBVIOUS
  <2>1. k - 1 \in 1..n
    BY <1>1, <1>4
  <2>2. Begin(more, k - 1) = Begin(ends, k - 1) /\ more[k - 1] = ends[k - 1]
    BY <1>4, <1>7, <2>1
  <2>3. CASE k \in 2..n
    <3>1. k \in 1..n
      BY <1>1, <2>3
    <3>2. Begin(more, k) = Begin(ends, k) /\ more[k] = ends[k]
      BY <1>4, <1>7, <3>1
    <3>3. NotBothPlain(value, ends, k)
      BY <1>1, <2>3
    <3> QED
      BY <2>2, <3>2, <3>3 DEF NotBothPlain
  <2>4. CASE k = n + 1
    <3>1. k - 1 = n /\ ends # <<>>
      <4>1. Len(<<>>) = 0
        OBVIOUS
      <4> QED
        BY <1>1, <2>1, <2>4, <4>1 DEF n
    <3>2. AfterPlaceholder(value, ends) => IsPlaceholder(value, Begin(ends, n), ends[n])
      BY <3>1 DEF AfterPlaceholder, n
    <3> QED
      BY <1>2, <1>4, <1>6, <2>2, <2>4, <3>1, <3>2 DEF NotBothPlain
  <2> QED
    BY <1>1, <1>4, <2>3, <2>4
<1>12. IsReadTo(S, value, environment, end + 1, more, mm)
  BY <1>4, <1>5, <1>6, <1>9, <1>10, <1>11 DEF IsReadTo
<1>13. IsPlaceholder(value, o, end) => AfterPlaceholder(value, more)
  BY <1>4, <1>6 DEF AfterPlaceholder
<1> QED
  BY <1>12, <1>13 DEF more, mm

IsLoop(S, value, environment, from) ==
  /\ AreTexts(S, value, environment)
  /\ from \in [1..(Len(value) + 1) -> SUBSET Seq(S)]
  /\ \A o \in 1..(Len(value) + 1) : from[o] = expand_from(value, environment, o, from)

\* Of all the ways to go on from the offset o, every one completes what was read.
Completes(S, value, environment, from, o) ==
  \A ends, ms : \A r \in from[o] :
    IsReadTo(S, value, environment, o, ends, ms) /\ AfterPlaceholder(value, ends) =>
      \E all, meaning : /\ IsReadTo(S, value, environment, Len(value) + 1, all, meaning)
                        /\ FlattenSeq(meaning) = Join(FlattenSeq(ms), r)

\* The text before the next placeholder is a plain piece, unless it is empty.
LEMMA PlainPiece ==
  ASSUME NEW S, NEW value, NEW environment, NEW o \in 1..(Len(value) + 1),
         NEW next \in o..(Len(value) + 1), NEW ends, NEW ms,
         AreTexts(S, value, environment),
         IsReadTo(S, value, environment, o, ends, ms), AfterPlaceholder(value, ends),
         \A i \in o..(next - 1) : i \notin Openings(value)
  PROVE  \E more, mm :
           /\ IsReadTo(S, value, environment, next, more, mm)
           /\ FlattenSeq(mm) = Join(FlattenSeq(ms), SubSeq(value, o, next - 1))
<1>1. value \in Seq(S) /\ Len(value) \in Nat /\ o \in Nat /\ next \in Nat
  BY DEF AreTexts
<1>2. ms \in Seq(Seq(S))
  BY DEF IsReadTo
<1>3. CASE next = o
  <2>1. SubSeq(value, o, next - 1) = <<>>
    BY <1>1, <1>3, SubSeqEmpty
  <2>2. FlattenSeq(ms) \in Seq(S)
    <3>1. <<>> \in Seq(S)
      OBVIOUS
    <3> QED
      BY <1>2, <3>1, FlattenAppend
  <2>3. Join(FlattenSeq(ms), <<>>) = FlattenSeq(ms)
    BY <2>2, ConcatEmptySeq DEF Join
  <2> QED
    BY <1>3, <2>1, <2>3
<1>4. CASE next # o
  <2> DEFINE end == next - 1
             m   == SubSeq(value, o, end)
  <2>1. end \in o..Len(value) /\ end + 1 = next
    BY <1>1, <1>4
  <2>2. m \in Seq(S)
    BY <1>1, <2>1, SubSeqProperties
  <2>3. IsPlain(value, o, end) /\ o \notin Openings(value)
    BY <1>1, <2>1 DEF IsPlain
  <2>4. ~IsPlaceholder(value, o, end)
    BY <2>3 DEF IsPlaceholder
  <2>5. m \in PieceMeanings(value, o, end, environment)
    BY <2>4 DEF PieceMeanings
  <2> HIDE DEF end, m
  <2>6. IsNextPiece(S, value, environment, o, ends, end, m)
    BY <2>1, <2>2, <2>3, <2>5 DEF IsNextPiece
  <2>7. IsReadTo(S, value, environment, next, Append(ends, end), Append(ms, m))
    BY <1>1, <2>1, <2>6, OneMorePiece
  <2>8. FlattenSeq(Append(ms, m)) = Join(FlattenSeq(ms), m)
    BY <1>2, <2>2, FlattenAppend
  <2> QED
    BY <2>7, <2>8 DEF m, end
<1> QED
  BY <1>3, <1>4

\* The text before a placeholder, and the placeholder.
LEMMA PlaceholderPiece ==
  ASSUME NEW S, NEW value, NEW environment, NEW o \in 1..(Len(value) + 1),
         NEW begin \in o..Len(value), NEW end \in (begin + 2)..Len(value), NEW ends, NEW ms,
         AreTexts(S, value, environment),
         IsReadTo(S, value, environment, o, ends, ms), AfterPlaceholder(value, ends),
         \A i \in o..(begin - 1) : i \notin Openings(value),
         IsPlaceholder(value, begin, end),
         NEW m \in Meaning(SubSeq(value, begin + 2, end - 1), environment)
  PROVE  \E more, mm :
           /\ IsReadTo(S, value, environment, end + 1, more, mm)
           /\ AfterPlaceholder(value, more)
           /\ FlattenSeq(mm)
                = Join(Join(FlattenSeq(ms), SubSeq(value, o, begin - 1)), m)
<1>1. value \in Seq(S) /\ Len(value) \in Nat /\ o \in Nat /\ begin \in Nat /\ end \in Nat
  BY DEF AreTexts
<1>2. begin \in o..(Len(value) + 1)
  BY <1>1
<1>3. PICK ends1, ms1 :
        /\ IsReadTo(S, value, environment, begin, ends1, ms1)
        /\ FlattenSeq(ms1) = Join(FlattenSeq(ms), SubSeq(value, o, begin - 1))
  BY <1>2, PlainPiece
<1>4. m \in Seq(S)
  BY MeaningIsText, Zenon
<1>5. m \in PieceMeanings(value, begin, end, environment)
  BY DEF PieceMeanings
<1>6. end \in begin..Len(value)
  BY <1>1
<1>7. IsNextPiece(S, value, environment, begin, ends1, end, m)
  BY <1>4, <1>5, <1>6 DEF IsNextPiece
<1>8. /\ IsReadTo(S, value, environment, end + 1, Append(ends1, end), Append(ms1, m))
      /\ AfterPlaceholder(value, Append(ends1, end))
  BY <1>1, <1>3, <1>7, OneMorePiece
<1>9. FlattenSeq(Append(ms1, m)) = Join(FlattenSeq(ms1), m)
  <2>1. ms1 \in Seq(Seq(S))
    BY <1>3 DEF IsReadTo
  <2> QED
    BY <1>4, <2>1, FlattenAppend
<1> QED
  BY <1>3, <1>8, <1>9

LEMMA AllComplete ==
  ASSUME NEW S, NEW value, NEW environment, NEW from, IsLoop(S, value, environment, from)
  PROVE  \A o \in 1..(Len(value) + 1) : Completes(S, value, environment, from, o)
<1>1. /\ AreTexts(S, value, environment) /\ value \in Seq(S) /\ Len(value) \in Nat
      /\ from \in [1..(Len(value) + 1) -> SUBSET Seq(S)]
      /\ \A o \in 1..(Len(value) + 1) : from[o] = expand_from(value, environment, o, from)
  BY DEF IsLoop, AreTexts
<1> DEFINE M == {m \in Nat : \A o \in 1..(Len(value) + 1) :
                   Len(value) + 1 - o = m => Completes(S, value, environment, from, o)}
<1>2. ASSUME NEW k \in Nat, \A l \in 0..(k - 1) : l \in M PROVE k \in M
  <2> SUFFICES ASSUME NEW o \in 1..(Len(value) + 1), Len(value) + 1 - o = k
               PROVE  Completes(S, value, environment, from, o)
    OBVIOUS
  <2> SUFFICES ASSUME NEW ends, NEW ms, NEW r \in from[o],
                      IsReadTo(S, value, environment, o, ends, ms),
                      AfterPlaceholder(value, ends)
               PROVE  \E all, meaning :
                        /\ IsReadTo(S, value, environment, Len(value) + 1, all, meaning)
                        /\ FlattenSeq(meaning) = Join(FlattenSeq(ms), r)
    BY DEF Completes
  <2> DEFINE open  == Min(OpenFrom(value, o))
             close == Min(CloseAfter(value, open))
  <2>1. r \in expand_from(value, environment, o, from) /\ o \in Nat
    BY <1>1
  <2>2. CASE OpenFrom(value, o) = {}
    <3>1. r = SubSeq(value, o, Len(value))
      BY <2>1, <2>2, Zenon DEF expand_from
    <3>2. Len(value) + 1 \in o..(Len(value) + 1) /\ (Len(value) + 1) - 1 = Len(value)
      BY <1>1
    <3>3. ASSUME NEW i \in o..((Len(value) + 1) - 1), i \in Openings(value) PROVE FALSE
      <4>1. i >= o
        BY <1>1, <3>3
      <4> QED
        BY <2>2, <3>3, <4>1 DEF OpenFrom
    <3> HIDE DEF M, open, close
    <3> QED
      BY <1>1, <3>1, <3>2, <3>3, PlainPiece
  <2>3. CASE OpenFrom(value, o) # {} /\ CloseAfter(value, open) = {}
    BY <2>1, <2>3, Zenon DEF expand_from
  <2>4. CASE OpenFrom(value, o) # {} /\ CloseAfter(value, open) # {}
    <3>1. r \in Replaced(SubSeq(value, o, open - 1),
                         Meaning(SubSeq(value, open + 2, close - 1), environment),
                         from[close + 1])
      BY <2>1, <2>4, Zenon DEF expand_from
    <3>2. open = Min(OpenFrom(value, o)) /\ close = Min(CloseAfter(value, open))
      OBVIOUS
    <3> HIDE DEF open, close
    <3>3. /\ open \in o..(Len(value) - 1)
          /\ \A i \in o..(open - 1) : i \notin Openings(value)
          /\ close \in (open + 2)..Len(value) /\ IsPlaceholder(value, open, close)
      BY <1>1, <2>4, <3>2, NextPlaceholder
    <3>4. PICK m \in Meaning(SubSeq(value, open + 2, close - 1), environment),
               rest \in from[close + 1] : r = Join(Join(SubSeq(value, o, open - 1), m), rest)
      <4> DEFINE before   == SubSeq(value, o, open - 1)
                 meanings == Meaning(SubSeq(value, open + 2, close - 1), environment)
                 rests    == from[close + 1]
      <4>1. r \in Replaced(before, meanings, rests)
        BY <3>1
      <4> HIDE DEF before, meanings, rests
      <4>2. \E m \in meanings, rest \in rests : r = before \o m \o rest
        BY <4>1, InReplaced
      <4> QED
        BY <4>2 DEF before, meanings, rests, Join
    <3>5. open \in o..Len(value)
      BY <1>1, <3>3
    <3>6. PICK more, mm :
            /\ IsReadTo(S, value, environment, close + 1, more, mm)
            /\ AfterPlaceholder(value, more)
            /\ FlattenSeq(mm) = Join(Join(FlattenSeq(ms), SubSeq(value, o, open - 1)), m)
      BY <1>1, <3>3, <3>5, PlaceholderPiece
    <3>7. PICK all, meaning :
            /\ IsReadTo(S, value, environment, Len(value) + 1, all, meaning)
            /\ FlattenSeq(meaning) = Join(FlattenSeq(mm), rest)
      <4>1. PICK p : p = close + 1
        OBVIOUS
      <4>2. p \in 1..(Len(value) + 1) /\ Len(value) + 1 - p \in 0..(k - 1)
        BY <1>1, <3>3, <4>1
      <4>3. Completes(S, value, environment, from, p)
        BY <1>2, <4>2
      <4> HIDE DEF M
      <4> QED
        BY <3>4, <3>6, <4>1, <4>3 DEF Completes
    <3>8. FlattenSeq(meaning) = Join(FlattenSeq(ms), r)
      <4> DEFINE f == FlattenSeq(ms)
                 a == SubSeq(value, o, open - 1)
      <4>1. f \in Seq(S)
        <5>1. ms \in Seq(Seq(S)) /\ <<>> \in Seq(S)
          BY DEF IsReadTo
        <5> QED
          BY <5>1, FlattenAppend
      <4>2. a \in Seq(S)
        BY <1>1, <3>3, SubSeqProperties
      <4>3. m \in Seq(S)
        BY <1>1, MeaningIsText, Zenon
      <4>4. rest \in Seq(S)
        <5>1. close + 1 \in 1..(Len(value) + 1)
          BY <1>1, <3>3
        <5> QED
          BY <1>1, <3>4, <5>1
      <4> HIDE DEF f, a, M
      <4>5. FlattenSeq(meaning) = Join(Join(Join(f, a), m), rest)
        BY <3>6, <3>7 DEF f, a
      <4>6. Join(Join(f, a), m) = Join(f, Join(a, m))
        BY <4>1, <4>2, <4>3, JoinAssociative
      <4>7. Join(a, m) \in Seq(S)
        BY <4>2, <4>3, JoinType
      <4>8. Join(Join(f, Join(a, m)), rest) = Join(f, Join(Join(a, m), rest))
        BY <4>1, <4>4, <4>7, JoinAssociative
      <4> QED
        BY <3>4, <4>5, <4>6, <4>8 DEF f, a
    <3> QED
      BY <3>7, <3>8
  <2> QED
    BY <2>2, <2>3, <2>4
<1>3. Nat \subseteq M
  <2> HIDE DEF M
  <2> QED
    BY <1>2, StrongInduction
<1> QED
  <2> TAKE o \in 1..(Len(value) + 1)
  <2>1. Len(value) + 1 - o \in Nat
    BY <1>1
  <2> QED
    BY <1>3, <2>1

-----------------------------------------------------------------------------
(* What is read to the end is a reading.                                   *)

\* An increasing sequence of numbers.
IsIncreasing(ends, n) ==
  /\ n \in Nat /\ ends \in [1..n -> Nat]
  /\ \A k, l \in 1..n : k < l => ends[k] < ends[l]

\* As many of them are at most the k-th as its place says.
LEMMA PlaceIsCount ==
  ASSUME NEW ends, NEW n, IsIncreasing(ends, n), NEW k \in 0..n
  PROVE  LET T == {ends[l] : l \in 1..k} IN IsFiniteSet(T) /\ Cardinality(T) = k
<1> DEFINE T == {ends[l] : l \in 1..k}
           f == [l \in 1..k |-> ends[l]]
<1>1. /\ n \in Nat /\ ends \in [1..n -> Nat] /\ k \in Nat
      /\ \A i, j \in 1..n : i < j => ends[i] < ends[j]
  BY DEF IsIncreasing
<1>2. f \in [1..k -> T]
  OBVIOUS
<1>3. \A i, j \in 1..k : f[i] = f[j] => i = j
  <2> SUFFICES ASSUME NEW i \in 1..k, NEW j \in 1..k, f[i] = f[j] PROVE i = j
    OBVIOUS
  <2>1. i \in 1..n /\ j \in 1..n /\ ends[i] = ends[j]
    BY <1>1
  <2>2. ends[i] \in Nat /\ ends[j] \in Nat
    BY <1>1, <2>1
  <2>3. ~(i < j) /\ ~(j < i)
    BY <1>1, <2>1, <2>2
  <2> QED
    BY <2>1, <2>3
<1>4. \A t \in T : \E l \in 1..k : f[l] = t
  OBVIOUS
<1>5. ExistsBijection(1..k, T)
  <2> HIDE DEF f, T
  <2>1. f \in Bijection(1..k, T)
    BY <1>2, <1>3, <1>4 DEF Bijection, Injection, IsInjective, Surjection
  <2> QED
    BY <2>1 DEF ExistsBijection
<1>6. IsFiniteSet(1..k) /\ Cardinality(1..k) = k
  BY <1>1, PositionCount
<1>7. IsFiniteSet(T) /\ Cardinality(T) = Cardinality(1..k)
  <2> HIDE DEF T
  <2> QED
    BY <1>5, <1>6, FS_Bijection
<1> QED
  BY <1>6, <1>7

\* An increasing sequence is what InOrder makes of its numbers.
LEMMA IncreasingIsInOrder ==
  ASSUME NEW ends, NEW n, IsIncreasing(ends, n)
  PROVE  InOrder({ends[l] : l \in 1..n}) = ends
<1> DEFINE T == {ends[l] : l \in 1..n}
           Below(i) == Cardinality({j \in T : j <= i})
<1>1. /\ n \in Nat /\ ends \in [1..n -> Nat]
      /\ \A i, j \in 1..n : i < j => ends[i] < ends[j]
  BY DEF IsIncreasing
<1>2. ASSUME NEW k \in 1..n PROVE Below(ends[k]) = k
  <2>1. ASSUME NEW l \in 1..n PROVE ends[l] <= ends[k] <=> l \in 1..k
    <3>1. ends[l] \in Nat /\ ends[k] \in Nat
      BY <1>1
    <3>2. CASE l <= k
      <4>1. l < k \/ l = k
        BY <1>1, <3>2
      <4>2. ends[l] <= ends[k]
        BY <1>1, <3>1, <4>1
      <4> QED
        BY <1>1, <3>2, <4>2
    <3>3. CASE ~(l <= k)
      <4>1. k < l /\ l \notin 1..k
        BY <1>1, <3>3
      <4> QED
        BY <1>1, <3>1, <4>1
    <3> QED
      BY <3>2, <3>3
  <2>2. 1..k \subseteq 1..n
    BY <1>1
  <2>3. {j \in T : j <= ends[k]} = {ends[l] : l \in 1..k}
    BY <2>1, <2>2
  <2>4. k \in 0..n
    BY <1>1
  <2> QED
    BY <2>3, <2>4, PlaceIsCount
<1>3. Cardinality(T) = n
  <2>1. n \in 0..n
    BY <1>1
  <2> QED
    BY <2>1, PlaceIsCount
<1>4. ASSUME NEW k \in 1..n PROVE (CHOOSE i \in T : Below(i) = k) = ends[k]
  <2>1. ends[k] \in T /\ Below(ends[k]) = k
    BY <1>2
  <2>2. ASSUME NEW i \in T, Below(i) = k PROVE i = ends[k]
    <3>1. PICK l \in 1..n : i = ends[l]
      OBVIOUS
    <3>2. Below(i) = l
      BY <1>2, <3>1
    <3> QED
      BY <2>2, <3>1, <3>2
  <2> HIDE DEF T, Below
  <2> QED
    BY <2>1, <2>2
<1>5. InOrder(T) = [k \in 1..n |-> CHOOSE i \in T : Below(i) = k]
  BY <1>3 DEF InOrder
<1>6. InOrder(T) = [k \in 1..n |-> ends[k]]
  <2> HIDE DEF T, Below
  <2> QED
    BY <1>4, <1>5
<1> QED
  BY <1>1, <1>6

\* What was read to the end is a reading of the text, and what it means.
LEMMA ReadToEndIsReading ==
  ASSUME NEW S, NEW value, NEW environment, AreTexts(S, value, environment),
         NEW ends, NEW ms, Len(value) # 0,
         IsReadTo(S, value, environment, Len(value) + 1, ends, ms)
  PROVE  ends \in Readings(value) /\ ms \in MeaningOf(value, ends, environment)
<1> DEFINE n == Len(value)
           K == Len(ends)
           cuts == {ends[l] : l \in 1..K} \ {n}
<1>1. /\ ends \in Seq(Nat) /\ ms \in Seq(Seq(S)) /\ Len(ms) = K /\ K \in Nat
      /\ n + 1 = Begin(ends, K + 1)
      /\ \A k \in 1..K : IsPiece(value, environment, ends, k, ms[k])
      /\ \A k, l \in 1..K : k < l => ends[k] < ends[l]
      /\ \A k \in 2..K : NotBothPlain(value, ends, k)
  BY DEF IsReadTo
<1>2. n \in Nat \ {0}
  BY DEF AreTexts
<1>3. /\ DOMAIN ends = 1..K /\ ends \in [1..K -> Nat]
      /\ DOMAIN ms = 1..K
  BY <1>1
<1> HIDE DEF n, K
<1>4. K # 0 /\ ends[K] = n
  <2>1. K # 0
    BY <1>1, <1>2 DEF Begin
  <2>2. K + 1 # 1 /\ (K + 1) - 1 = K /\ K \in 1..K
    BY <1>1, <2>1
  <2>3. n + 1 = ends[K] + 1 /\ ends[K] \in Nat
    BY <1>1, <1>3, <2>2 DEF Begin
  <2> QED
    BY <1>2, <2>1, <2>3
<1>5. ASSUME NEW k \in 1..K PROVE ends[k] \in 1..n /\ (ends[k] # n => ends[k] \in 1..(n - 1))
  <2>1. ends[k] \in Begin(ends, k)..n
    BY <1>1 DEF IsPiece, n
  <2>2. Begin(ends, k) \in Nat \ {0}
    <3>1. k # 1 => k - 1 \in 1..K
      BY <1>1
    <3> QED
      BY <1>3, <3>1 DEF Begin
  <2> QED
    BY <1>2, <2>1, <2>2
<1>6. cuts \in SUBSET (1..(n - 1)) /\ cuts \cup {n} = {ends[l] : l \in 1..K}
  <2>1. n \in {ends[l] : l \in 1..K}
    <3>1. K \in 1..K
      BY <1>1, <1>4
    <3> QED
      BY <1>4, <3>1
  <2> QED
    BY <1>5, <2>1
<1>7. InOrder(cuts \cup {n}) = ends
  <2>1. IsIncreasing(ends, K)
    BY <1>1, <1>3 DEF IsIncreasing
  <2> HIDE DEF cuts
  <2> QED
    BY <1>6, <2>1, IncreasingIsInOrder
<1>8. ends \in Readings(value)
  <2>1. ends \in {InOrder(c \cup {n}) : c \in SUBSET (1..(n - 1))}
    <3> HIDE DEF cuts
    <3> QED
      BY <1>6, <1>7
  <2>2. \A k \in DOMAIN ends : \/ IsPlaceholder(value, Begin(ends, k), ends[k])
                               \/ IsPlain(value, Begin(ends, k), ends[k])
    BY <1>1, <1>3 DEF IsPiece
  <2>3. \A k \in 2..K :
          \/ IsPlaceholder(value, Begin(ends, k - 1), ends[k - 1])
          \/ IsPlaceholder(value, Begin(ends, k), ends[k])
    BY <1>1 DEF NotBothPlain
  <2> QED
    BY <2>1, <2>2, <2>3, Zenon DEF Readings, n, K
<1>9. ms \in MeaningOf(value, ends, environment)
  <2> DEFINE results == [k \in 1..K |-> PieceMeanings(value, Begin(ends, k), ends[k], environment)]
  <2>1. MeaningOf(value, ends, environment) = Each(results)
    BY Zenon DEF MeaningOf, PieceMeanings, K
  <2>2. DOMAIN results = 1..K
    OBVIOUS
  <2>3. \A k \in 1..K : ms[k] \in results[k]
    BY <1>1 DEF IsPiece
  <2> HIDE DEF results
  <2>4. \A k \in 1..K : results[k] \in ToSet(results)
    BY <2>2 DEF ToSet
  <2>5. ms = [k \in 1..K |-> ms[k]]
    BY <1>1, <1>3
  <2>6. ms \in [1..K -> UNION ToSet(results)]
    BY <2>3, <2>4, <2>5
  <2>7. ms \in Each(results)
    BY <2>2, <2>3, <2>6 DEF Each
  <2> QED
    BY <2>1, <2>7
<1> QED
  BY <1>8, <1>9

\* The empty text has one reading, which is empty.
LEMMA EmptyReading ==
  ASSUME NEW environment
  PROVE  /\ <<0>> \in Readings(<<>>)
         /\ << <<>> >> \in MeaningOf(<<>>, <<0>>, environment)
         /\ FlattenSeq(<< <<>> >>) = <<>>
<1> DEFINE ends == <<0>>
<1>1. Len(<<>>) = 0 /\ Len(ends) = 1 /\ DOMAIN ends = 1..1 /\ ends[1] = 0
  OBVIOUS
<1>2. Begin(ends, 1) = 1
  BY DEF Begin
<1>3. Openings(<<>>) = {}
  <2>1. \A i \in Openings(<<>>) : i \in 1..(Len(<<>>) - 1)
    BY OpeningsAndClosings, Zenon
  <2> QED
    BY <1>1, <2>1
<1>4. IsPlain(<<>>, 1, 0) /\ ~IsPlaceholder(<<>>, 1, 0)
  BY <1>3 DEF IsPlain, IsPlaceholder
<1>5. ends \in Readings(<<>>)
  <2>1. InOrder({} \cup {0}) = ends
    <3>1. IsIncreasing(ends, 1)
      BY DEF IsIncreasing
    <3>2. {ends[l] : l \in 1..1} = {} \cup {0}
      OBVIOUS
    <3> HIDE DEF ends
    <3> QED
      BY <3>1, <3>2, IncreasingIsInOrder
  <2>2. {} \in SUBSET (1..(0 - 1))
    OBVIOUS
  <2>3. ends \in {InOrder(cuts \cup {0}) : cuts \in SUBSET (1..(0 - 1))}
    <3> HIDE DEF ends
    <3> QED
      BY <2>1, <2>2, Zenon
  <2>4. \A k \in DOMAIN ends : IsPlain(<<>>, Begin(ends, k), ends[k])
    <3>1. \A k \in 1..1 : k = 1
      OBVIOUS
    <3> HIDE DEF ends
    <3> QED
      BY <1>1, <1>2, <1>4, <3>1
  <2>5. 2..1 = {}
    OBVIOUS
  <2> HIDE DEF ends
  <2> QED
    BY <1>1, <2>3, <2>4, <2>5, Zenon DEF Readings
<1>6. << <<>> >> \in MeaningOf(<<>>, ends, environment)
  <2> DEFINE results == [k \in 1..1 |-> PieceMeanings(<<>>, Begin(ends, k), ends[k], environment)]
             ms      == << <<>> >>
  <2>1. MeaningOf(<<>>, ends, environment) = Each(results)
    <3> HIDE DEF ends
    <3> QED
      BY <1>1, Zenon DEF MeaningOf, PieceMeanings
  <2>2. results[1] = {<<>>} /\ DOMAIN results = 1..1
    <3>1. SubSeq(<<>>, 1, 0) = <<>>
      OBVIOUS
    <3>2. PieceMeanings(<<>>, 1, 0, environment) = {<<>>}
      BY <1>4, <3>1 DEF PieceMeanings
    <3> HIDE DEF ends
    <3> QED
      BY <1>1, <1>2, <3>2
  <2> HIDE DEF results
  <2>3. \A k \in 1..1 : ms[k] \in results[k] /\ results[k] \in ToSet(results)
    BY <2>2 DEF ToSet
  <2>4. ms \in [1..1 -> UNION ToSet(results)]
    BY <2>3
  <2> HIDE DEF ms
  <2>5. ms \in Each(results)
    BY <2>2, <2>3, <2>4 DEF Each
  <2> QED
    BY <2>1, <2>5 DEF ms
<1>7. FlattenSeq(<< <<>> >>) = <<>>
  <2> DEFINE ss == << <<>> >>
  <2>1. ss \in Seq(Seq({})) /\ Len(ss) = 1 /\ ss[1] = <<>>
    OBVIOUS
  <2> HIDE DEF ss
  <2>2. PICK f : /\ \A i \in 1..Len(ss) :
                      f[i] = IF i = 1 THEN ss[i] ELSE Join(f[i - 1], ss[i])
                 /\ FlattenSeq(ss) = IF Len(ss) = 0 THEN <<>> ELSE f[Len(ss)]
    BY <2>1, FlattenedParts
  <2>3. FlattenSeq(ss) = <<>>
    BY <2>1, <2>2
  <2> QED
    BY <2>3 DEF ss
<1> QED
  BY <1>5, <1>6, <1>7

\* Whatever the loop makes of a text is what a reading of it means.
LEMMA ExpandedIsReading ==
  ASSUME NEW S, NEW value, NEW environment, AreTexts(S, value, environment),
         environment.given, NEW id \in expand_environment_placeholders(value, environment)
  PROVE  \E ends \in Readings(value) : \E meaning \in MeaningOf(value, ends, environment) :
           id = FlattenSeq(meaning)
<1> DEFINE from == CHOOSE f : IsExpansion(value, environment, f)
           D    == 1..(Len(value) + 1)
<1>1. PICK f \in [D -> SUBSET Seq(S)] : IsExpansion(value, environment, f)
  BY ExpansionExists
<1>a. IsExpansion(value, environment, from)
  BY <1>1
<1>2. id \in from[1]
  BY Zenon DEF expand_environment_placeholders, IsExpansion
<1>3. value \in Seq(S) /\ Len(value) \in Nat
  BY DEF AreTexts
<1> HIDE DEF from
<1>4. \A o \in D : from[o] = expand_from(value, environment, o, from)
  BY <1>a, Zenon DEF IsExpansion
<1>5. IsLoop(S, value, environment, from)
  <2>1. from = f
    BY <1>1, <1>3, <1>a, ExpansionIsOne
  <2> QED
    BY <1>1, <1>4, <2>1 DEF IsLoop
<1>6. CASE Len(value) = 0
  <2>1. value = <<>>
    BY <1>3, <1>6
  <2>2. id = <<>>
    <3>1. 1 \in D /\ Len(<<>>) = 0
      BY <1>3
    <3>2. id \in expand_from(<<>>, environment, 1, from)
      BY <1>2, <1>4, <2>1, <3>1
    <3>3. OpenFrom(<<>>, 1) = {}
      <4>1. \A i \in Openings(<<>>) : i \in 1..(Len(<<>>) - 1)
        BY OpeningsAndClosings, Zenon
      <4> QED
        BY <3>1, <4>1 DEF OpenFrom
    <3>4. id = SubSeq(<<>>, 1, Len(<<>>))
      BY <3>2, <3>3, Zenon DEF expand_from
    <3> QED
      BY <3>1, <3>4
  <2> QED
    BY <2>1, <2>2, EmptyReading
<1>7. CASE Len(value) # 0
  <2>1. 1 \in D
    BY <1>3
  <2>2. IsReadTo(S, value, environment, 1, <<>>, <<>>) /\ AfterPlaceholder(value, <<>>)
    <3>1. Len(<<>>) = 0 /\ <<>> \in Seq(Nat) /\ <<>> \in Seq(Seq(S)) /\ Begin(<<>>, 0 + 1) = 1
      BY DEF Begin
    <3> QED
      BY <3>1 DEF IsReadTo, AfterPlaceholder
  <2>3. PICK all, meaning :
          /\ IsReadTo(S, value, environment, Len(value) + 1, all, meaning)
          /\ FlattenSeq(meaning) = Join(FlattenSeq(<<>>), id)
    BY <1>2, <1>5, <2>1, <2>2, AllComplete DEF Completes
  <2>4. id \in Seq(S)
    BY <1>2, <1>5, <2>1 DEF IsLoop
  <2>5. Join(FlattenSeq(<<>>), id) = id
    <3>1. FlattenSeq(<<>>) = <<>>
      BY DEF FlattenSeq
    <3> QED
      BY <2>4, <3>1, ConcatEmptySeq DEF Join
  <2> QED
    BY <1>7, <2>3, <2>5, ReadToEndIsReading
<1> QED
  BY <1>6, <1>7

-----------------------------------------------------------------------------
(* The ids that a host of the library works with.                          *)

\* A list in an environment of lists are texts over the same characters.
LEMMA ListsAreTexts ==
  ASSUME NEW value, IsList(value), NEW environment, environment.given,
         IsEnvironment(environment)
  PROVE  \E S : AreTexts(S, value, environment)
<1> DEFINE S == ToSet(value) \cup UNION {ToSet(environment.values[name]) :
                                           name \in DOMAIN environment.values}
<1>1. value \in Seq(S)
  <2>1. value \in [1..Len(value) -> ToSet(value)] /\ Len(value) \in Nat
    BY ListLength
  <2>2. ToSet(value) \subseteq S
    OBVIOUS
  <2> HIDE DEF S
  <2> QED
    BY <2>1, <2>2
<1>2. ASSUME NEW name \in DOMAIN environment.values PROVE environment.values[name] \in Seq(S)
  <2> DEFINE t == environment.values[name]
  <2>1. IsList(t)
    BY DEF IsEnvironment
  <2>2. ToSet(t) \subseteq S
    OBVIOUS
  <2> HIDE DEF S, t
  <2>3. t \in [1..Len(t) -> ToSet(t)] /\ Len(t) \in Nat
    BY <2>1, ListLength
  <2>4. t \in Seq(S)
    BY <2>2, <2>3
  <2> QED
    BY <2>4 DEF t
<1> QED
  <2> HIDE DEF S
  <2> QED
    BY <1>1, <1>2 DEF AreTexts

LEMMA RequiredIsReadAs ==
  ASSUME NEW field, NEW environment, NEW id \in require_string(field, environment),
         field.kind = "string" => IsList(field.text), IsEnvironment(environment)
  PROVE  IsReadAs(field.text, id, environment)
<1>1. field.kind = "string" /\ id \in expand_environment_placeholders(field.text, environment)
  BY DEF require_string
<1>2. CASE ~environment.given
  BY <1>1, <1>2, Zenon DEF expand_environment_placeholders, IsReadAs
<1>3. CASE environment.given
  <2>1. PICK S : AreTexts(S, field.text, environment)
    BY <1>1, <1>3, ListsAreTexts
  <2> QED
    BY <1>1, <1>3, <2>1, ExpandedIsReading DEF IsReadAs
<1> QED
  BY <1>2, <1>3

\* A host of the library has no command line, and hands over texts.
LibraryHost ==
  input.host = "library" =>
    /\ stage \notin {"command", "options"}
    /\ input.document.kind = "object" =>
         IsDocument(input.document) /\ IsEnvironment(input.environment)

LEMMA InitLibraryHost == Init => LibraryHost /\ ExpansionIsSinglePass
<1> SUFFICES ASSUME Init, input.host = "library" PROVE LibraryHost /\ ExpansionIsSinglePass
  BY DEF LibraryHost, ExpansionIsSinglePass
<1>1. CASE \E d \in Documents, e \in Environments :
             /\ Start("library", <<>>, d, e)
             /\ stage = "load" /\ config = DefaultConfig
  <2>1. PICK d \in Documents, e \in Environments :
             /\ Start("library", <<>>, d, e)
             /\ stage = "load" /\ config = DefaultConfig
    BY <1>1
  <2>2. input.document = d /\ input.environment = e
    BY <2>1 DEF Start
  <2>3. IsDocument(d) /\ IsEnvironment(e)
    BY GivenAssumption
  <2>4. Len(config.upstreams) = 0
    BY <2>1 DEF DefaultConfig
  <2> QED
    BY <2>1, <2>2, <2>3, <2>4 DEF LibraryHost, ExpansionIsSinglePass
<1>2. CASE /\ Start("library", <<>>, [kind |-> "none"], NoEnvironment)
           /\ stage \in {"override", "construct"}
  <2>1. input.document.kind = "none"
    BY <1>2 DEF Start
  <2> QED
    BY <1>2, <2>1 DEF LibraryHost, ExpansionIsSinglePass
<1>3. ~\E h \in {"program", "example"} : \E line, d, e : Start(h, line, d, e)
  BY DEF Start
<1> QED
  BY <1>1, <1>2, <1>3, Zenon DEF Init

LEMMA LoadIsReadAs ==
  ASSUME LibraryHost, input.host = "library", input.document.kind = "object", Load,
         config' # config
  PROVE  ExpansionIsSinglePass'
<1>1. PICK document, environment :
        /\ document = input.document /\ environment = input.environment
        /\ IsDocument(document) /\ IsEnvironment(environment)
  BY DEF LibraryHost
<1>2. PICK loaded \in Loaded(document, environment) : config' = loaded.config
  <2>1. Document = document /\ Environment = environment
    BY <1>1 DEF Document, Environment
  <2>2. \A l : Merged(l) = {l.config}
    BY DEF Merged
  <2> QED
    BY <2>1, <2>2, Zenon DEF Load
<1>3. UNCHANGED input
  BY DEF Load
<1> DEFINE items == document.upstreams.items
           us    == loaded.config.upstreams
<1>4. /\ document.kind = "object" /\ IsList(items) /\ IsList(us) /\ Len(us) = Len(items)
      /\ \A i \in 1..Len(items) :
           items[i].kind = "object" /\ us[i].id \in require_string(items[i].id, environment)
  BY <1>1, UpstreamsRead
<1>5. ASSUME NEW i \in 1..Len(us) PROVE IsReadAs(items[i].id.text, us[i].id, environment)
  <2>1. items[i].id.kind = "string" => IsList(items[i].id.text)
    <3>1. document.upstreams.kind = "list"
      BY DEF Loaded, gateway_config_document_from_json, gateway_config_from_json
    <3> QED
      BY <1>1, <1>4, <3>1 DEF IsDocument
  <2> QED
    BY <1>1, <1>4, <2>1, RequiredIsReadAs
<1> QED
  BY <1>1, <1>2, <1>3, <1>5 DEF ExpansionIsSinglePass

LEMMA StepExpansion ==
  LibraryHost /\ ExpansionIsSinglePass /\ [Next]_vars => (LibraryHost /\ ExpansionIsSinglePass)'
<1> SUFFICES ASSUME LibraryHost, ExpansionIsSinglePass, [Next]_vars
             PROVE  (LibraryHost /\ ExpansionIsSinglePass)'
  OBVIOUS
<1>1. UNCHANGED input
  BY DEF Next, vars, Command, ReadOption, RefuseOption, OptionsEnd, Load, Override, Construct,
         Refresh, SkipRefresh, StartHttp, Operate, Wait
<1>2. input.host = "library" => stage' \notin {"command", "options"}
  BY DEF LibraryHost, Next, vars, Command, ReadOption, RefuseOption, OptionsEnd, Load,
         Override, Construct, Refresh, SkipRefresh, StartHttp, Operate, Wait, Goto, Exit, Refuse
<1>3. LibraryHost'
  <2>1. PICK i : i = input /\ i = input'
    BY <1>1
  <2> QED
    BY <1>2, <2>1 DEF LibraryHost
<1>4. CASE UNCHANGED config
  <2>1. ExpansionIsSinglePass'
    BY <1>1, <1>4 DEF ExpansionIsSinglePass
  <2> QED
    BY <1>3, <2>1
<1>5. CASE ReadOption
  <2>1. input.host # "library"
    BY <1>5 DEF ReadOption, LibraryHost
  <2> QED
    BY <1>1, <1>3, <2>1 DEF ExpansionIsSinglePass
<1>6. CASE Load
  <2>1. CASE input.host = "library" /\ input.document.kind = "object" /\ config' # config
    BY <1>3, <1>6, <2>1, LoadIsReadAs
  <2>2. CASE ~(input.host = "library" /\ input.document.kind = "object")
    BY <1>1, <1>3, <2>2 DEF ExpansionIsSinglePass
  <2> QED
    BY <1>4, <2>1, <2>2
<1> QED
  BY <1>4, <1>5, <1>6
     DEF Next, vars, Command, RefuseOption, OptionsEnd, Override, Construct, Refresh,
         SkipRefresh, StartHttp, Operate, Wait

\* The ids a host of the library works with are what the readings of the texts
\* mean: every placeholder is replaced, once, whatever the text and whatever the
\* environment puts in its place.
THEOREM ExpandedOnce == LaunchSpec => []ExpansionIsSinglePass
<1>1. Init => LibraryHost /\ ExpansionIsSinglePass
  BY InitLibraryHost
<1>2. /\ LibraryHost /\ ExpansionIsSinglePass /\ [Next]_vars
      => (LibraryHost /\ ExpansionIsSinglePass)'
  BY StepExpansion
<1> QED
  BY <1>1, <1>2, PTL DEF LaunchSpec
=============================================================================
