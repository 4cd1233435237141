---------------------------- MODULE StartupProofs ----------------------------
(* Theorems about the start of the proxy, for every set of hosts that       *)
(* HostsAssumption describes: every file, environment, model directory and  *)
(* snapshot, and every run of downloads, ports and restarts.                *)
EXTENDS Startup, TLAPS

-------------------------------------------------------------------------------
(* Values of settings.                                                     *)

LEMMA Kinds ==
    /\ \A s \in Settings : \/ s \in Flags \/ s \in Numbers \/ s \in Texts
                           \/ s = "cache_mode" \/ s = "failover_status_codes"
    /\ \A s \in Flags \cup Numbers \cup Texts : s \in Settings
    /\ "cache_mode" \in Settings /\ "failover_status_codes" \in Settings
BY DEF Settings

\* The kinds are apart.
LEMMA Apart ==
    /\ \A s \in Flags : s \notin Numbers \cup Texts \cup {"cache_mode", "failover_status_codes"}
    /\ \A s \in Numbers : s \notin Texts \cup {"cache_mode", "failover_status_codes"}
    /\ \A s \in Texts : s \notin {"cache_mode", "failover_status_codes"}
BY DEF Flags, Numbers, Texts

LEMMA FlagValues == \A s \in Flags : Values(s) = BOOLEAN
BY Apart DEF Values

LEMMA NumberValues == \A s \in Numbers : Values(s) = Nat
BY Apart DEF Values

LEMMA TextValues == \A s \in Texts : Values(s) = Optional
BY Apart DEF Values

LEMMA ModeValues == Values("cache_mode") = Modes
BY Apart DEF Values

LEMMA CodeValues == Values("failover_status_codes") = Codes
BY Apart DEF Values

LEMMA DefaultsType ==
    /\ \A s \in Settings : defaults[s] \in Values(s)
    /\ defaults.fallback_api_key = {}
<1>1. defaults["cache_mode"] \in Modes
  BY DEF defaults, Modes
<1>2. defaults["failover_status_codes"] \in Codes
  BY DEF defaults, Codes
<1>3. \A s \in Flags : defaults[s] \in BOOLEAN
  <2>1. /\ defaults["disable_persistence"] = FALSE
        /\ defaults["allow_model_rewrite"] = FALSE
        /\ defaults["reactive_failover"] = TRUE
    BY DEF defaults
  <2>2. QED
    BY <2>1 DEF Flags
<1>4. \A s \in Numbers : defaults[s] \in Nat
  BY DEF defaults, Numbers
<1>5. \A s \in Texts : defaults[s] \in Optional
  <2>1. \A s \in Texts : defaults[s] \in {{}, {"deepseek"}}
    BY DEF defaults, Texts
  <2>2. {} \in Optional /\ {"deepseek"} \in Optional
    BY StringsAssumption DEF Optional
  <2>3. QED
    BY <2>1, <2>2
<1>6. defaults.fallback_api_key = {}
  BY DEF defaults
<1>7. ASSUME NEW s \in Settings
      PROVE  defaults[s] \in Values(s)
  <2>1. CASE s \in Flags
    BY <1>3, <2>1, FlagValues
  <2>2. CASE s \in Numbers
    BY <1>4, <2>2, NumberValues
  <2>3. CASE s \in Texts
    BY <1>5, <2>3, TextValues
  <2>4. CASE s = "cache_mode"
    BY <1>1, <2>4, ModeValues
  <2>5. CASE s = "failover_status_codes"
    BY <1>2, <2>5, CodeValues
  <2>6. QED
    BY <2>1, <2>2, <2>3, <2>4, <2>5, Kinds
<1>8. QED
  BY <1>6, <1>7

LEMMA ModeType == \A text : ModeOf(text) \in Modes
BY DEF ModeOf, Modes

\* A setting that is given is of its kind.
LEMMA GivenType == \A s \in Settings : Given(s) \subseteq Values(s)
BY TextValues DEF Given, Optional

LEMMA FileType ==
    ASSUME host \in Hosts
    PROVE  \A s \in Settings : OfFile[s] \subseteq Values(s)
<1> SUFFICES ASSUME NEW s \in Settings, s \in DOMAIN host.file.gives
             PROVE  OfFile[s] \subseteq Values(s)
  BY DEF OfFile, FromFile
<1>1. CASE s = "cache_mode"
  <2>1. OfFile[s] = {ModeOf(host.file.gives[s])}
    BY <1>1 DEF OfFile, FromFile
  <2>2. QED
    BY <1>1, <2>1, ModeValues, ModeType
<1>2. CASE s # "cache_mode"
  <2>1. OfFile[s] = {host.file.gives[s]}
    BY <1>2 DEF OfFile, FromFile
  <2>2. host.file.gives[s] \in Given(s)
    BY <1>2, HostsAssumption
  <2>3. QED
    BY <2>1, <2>2, GivenType
<1>3. QED
  BY <1>1, <1>2

\* What the environment says, by the kind of the setting.
LEMMA EnvSays ==
    ASSUME NEW env, NEW s \in DOMAIN env
    PROVE  /\ s = "cache_mode" => FromEnv(env, s) = {ModeOf(env[s])}
           /\ s \in Flags => FromEnv(env, s) \subseteq BOOLEAN
           /\ s \in Numbers => FromEnv(env, s) = env[s]
           /\ s = "failover_status_codes" => FromEnv(env, s) \subseteq {env[s]}
           /\ s \in Texts => FromEnv(env, s) = {env[s]}
<1>1. ASSUME s = "cache_mode"
      PROVE  FromEnv(env, s) = {ModeOf(env[s])}
  BY <1>1, Apart DEF FromEnv
<1>2. ASSUME s \in Flags
      PROVE  FromEnv(env, s) \subseteq BOOLEAN
  BY <1>2, Apart DEF FromEnv
<1>3. ASSUME s \in Numbers
      PROVE  FromEnv(env, s) = env[s]
  BY <1>3, Apart DEF FromEnv
<1>4. ASSUME s = "failover_status_codes"
      PROVE  FromEnv(env, s) \subseteq {env[s]}
  BY <1>4, Apart DEF FromEnv
<1>5. ASSUME s \in Texts
      PROVE  FromEnv(env, s) = {env[s]}
  BY <1>5, Apart DEF FromEnv
<1>6. QED
  BY <1>1, <1>2, <1>3, <1>4, <1>5

LEMMA EnvType ==
    ASSUME host \in Hosts
    PROVE  \A s \in Settings : OfEnv[s] \subseteq Values(s)
<1> SUFFICES ASSUME NEW s \in Settings, s \in DOMAIN host.env
             PROVE  FromEnv(host.env, s) \subseteq Values(s)
  BY DEF OfEnv, FromEnv
<1>1. CASE s = "cache_mode"
  BY <1>1, EnvSays, ModeType, ModeValues
<1>2. CASE s \in Flags
  BY <1>2, EnvSays, FlagValues
<1>3. CASE s \in Numbers
  BY <1>3, EnvSays, NumberValues, HostsAssumption
<1>4. CASE s \in Texts \cup {"failover_status_codes"}
  BY <1>4, EnvSays, GivenType, HostsAssumption
<1>5. QED
  BY <1>1, <1>2, <1>3, <1>4, Kinds

LEMMA DeepseekType ==
    ASSUME host \in Hosts
    PROVE  \A s \in Settings : OfDeepseek[s] \subseteq Values(s)
<1> SUFFICES ASSUME NEW s \in Settings, s = "fallback_api_key",
                    "DEEPSEEK_API_KEY" \in DOMAIN host.env
             PROVE  {host.env["DEEPSEEK_API_KEY"]} \subseteq Values(s)
  BY DEF OfDeepseek, FromDeepseek
<1>1. QED
  BY GivenType, HostsAssumption

LEMMA OverriddenType ==
    ASSUME NEW c, \A s \in Settings : c[s] \in Values(s),
           NEW layer, \A s \in Settings : layer[s] \subseteq Values(s)
    PROVE  \A s \in Settings : Overridden(c, layer)[s] \in Values(s)
BY DEF Overridden

-------------------------------------------------------------------------------
(* What a setting is meant to be, layer by layer.                          *)

Says(layer) == CHOOSE v \in layer : TRUE

\* The first layer that says something decides.
LEMMA MeantIs ==
    ASSUME NEW s \in Settings
    PROVE  Meant(s) = IF OfEnv[s] # {} THEN Says(OfEnv[s])
                      ELSE IF OfFile[s] # {} THEN Says(OfFile[s])
                      ELSE IF OfDeepseek[s] # {} THEN Says(OfDeepseek[s])
                      ELSE defaults[s]
<1> DEFINE said == <<OfEnv[s], OfFile[s], OfDeepseek[s], {defaults[s]}>>
           speak == {i \in DOMAIN said : said[i] # {}}
<1>1. Meant(s) = Says(said[Min(speak)])
  BY DEF Meant, Says
<1>2. /\ DOMAIN said = 1..4
      /\ said[1] = OfEnv[s] /\ said[2] = OfFile[s] /\ said[3] = OfDeepseek[s]
      /\ said[4] = {defaults[s]}
  OBVIOUS
<1>3. Says({defaults[s]}) = defaults[s]
  BY DEF Says
<1> HIDE DEF said
<1>4. ASSUME NEW i \in 1..4, said[i] # {}, \A j \in 1..4 : j < i => said[j] = {}
      PROVE  Meant(s) = Says(said[i])
  <2>1. speak \subseteq Int /\ i \in speak /\ \A j \in speak : i <= j
    BY <1>2, <1>4
  <2> HIDE DEF speak
  <2>2. \A k \in speak : (\A j \in speak : k <= j) <=> k = i
    BY <2>1
  <2>3. Min(speak) = i
    BY <2>1, <2>2 DEF Min
  <2>4. QED
    BY <1>1, <2>3
<1>5. CASE OfEnv[s] # {}
  BY <1>2, <1>4, <1>5
<1>6. CASE OfEnv[s] = {} /\ OfFile[s] # {}
  <2>1. \A j \in 1..4 : j < 2 => said[j] = {}
    BY <1>2, <1>6
  <2>2. QED
    BY <1>2, <1>4, <1>6, <2>1
<1>7. CASE OfEnv[s] = {} /\ OfFile[s] = {} /\ OfDeepseek[s] # {}
  <2>1. \A j \in 1..4 : j < 3 => said[j] = {}
    BY <1>2, <1>7
  <2>2. QED
    BY <1>2, <1>4, <1>7, <2>1
<1>8. CASE OfEnv[s] = {} /\ OfFile[s] = {} /\ OfDeepseek[s] = {}
  <2>1. \A j \in 1..4 : j < 4 => said[j] = {}
    BY <1>2, <1>8
  <2>2. Meant(s) = Says(said[4])
    BY <1>2, <1>4, <2>1
  <2>3. QED
    BY <1>2, <1>3, <1>8, <2>2
<1>9. QED
  BY <1>5, <1>6, <1>7, <1>8

\* After the environment is read every setting is as it is meant to be.
LEMMA EnvMeans ==
    ASSUME host \in Hosts, cfg = Overridden(defaults, OfFile), ReadEnv,
           NEW s \in Settings
    PROVE  cfg'[s] = Meant(s)
<1> DEFINE own == Overridden(cfg, OfEnv)
<1>1. cfg' = IF own.fallback_api_key = {} THEN Overridden(own, OfDeepseek) ELSE own
  BY DEF ReadEnv
<1>2. own[s] = IF OfEnv[s] # {} THEN Says(OfEnv[s])
               ELSE IF OfFile[s] # {} THEN Says(OfFile[s])
               ELSE defaults[s]
  BY DEF Overridden, Says
<1>3. CASE s # "fallback_api_key"
  <2>1. OfDeepseek[s] = {}
    BY <1>3 DEF OfDeepseek, FromDeepseek
  <2>2. Overridden(own, OfDeepseek)[s] = own[s]
    BY <2>1 DEF Overridden
  <2> HIDE DEF own
  <2>3. QED
    BY <1>1, <1>2, <2>1, <2>2, MeantIs
<1>4. CASE s = "fallback_api_key"
  <2>1. \A v \in OfEnv[s] \cup OfFile[s] : v # {}
    <3> s \in Texts /\ Given(s) = {{v} : v \in Strings} /\ s # "cache_mode"
      BY <1>4 DEF Given, Texts
    <3>1. s \in DOMAIN host.env => host.env[s] # {}
      <4>1. ASSUME s \in DOMAIN host.env
            PROVE  host.env[s] \in {{v} : v \in Strings}
        BY <4>1, HostsAssumption
      <4>2. QED
        BY <4>1
    <3>2. s \in DOMAIN host.file.gives => host.file.gives[s] # {}
      <4>1. ASSUME s \in DOMAIN host.file.gives
            PROVE  host.file.gives[s] \in {{v} : v \in Strings}
        BY <4>1, HostsAssumption
      <4>2. QED
        BY <4>1
    <3>3. OfEnv[s] = IF s \in DOMAIN host.env THEN {host.env[s]} ELSE {}
      <4>1. s \in Texts
        BY <1>4 DEF Texts
      <4>2. s \notin DOMAIN host.env => OfEnv[s] = {}
        BY DEF OfEnv, FromEnv
      <4>3. QED
        BY <4>1, <4>2, EnvSays DEF OfEnv
    <3>4. OfFile[s] = IF s \in DOMAIN host.file.gives THEN {host.file.gives[s]} ELSE {}
      BY <1>4 DEF OfFile, FromFile
    <3>5. QED
      BY <3>1, <3>2, <3>3, <3>4
  <2>2. \A S : S # {} => Says(S) \in S
    BY DEF Says
  <2>3. defaults[s] = {}
    BY <1>4, DefaultsType
  <2>4. own[s] = {} <=> OfEnv[s] = {} /\ OfFile[s] = {}
    BY <1>2, <2>1, <2>2, <2>3
  <2>5. Overridden(own, OfDeepseek)[s] =
           IF OfDeepseek[s] = {} THEN own[s] ELSE Says(OfDeepseek[s])
    BY DEF Overridden, Says
  <2> HIDE DEF own
  <2>6. QED
    BY <1>1, <1>2, <1>4, <2>4, <2>5, MeantIs
<1>5. QED
  BY <1>3, <1>4

-------------------------------------------------------------------------------
(* The inductive invariant.                                                *)

\* What each stage has behind it.
ConfigInv ==
    /\ stage = "file" => cfg = defaults
    /\ stage = "env" => cfg = Overridden(defaults, OfFile)
    /\ stage \notin {"file", "env", "refused"} => \A s \in Settings : cfg[s] = Meant(s)
    /\ stage \notin {"file", "refused"} => ~BadFile

PredictorInv ==
    /\ stage \in {"file", "env", "weights", "downloading", "predictor"} => ~predictor
    /\ stage \in {"downloading", "predictor"} => cfg.cache_mode = "semantic"
    /\ stage \in {"restore", "bind", "serving"} => (cfg.cache_mode = "semantic" <=> predictor)

AdminInv ==
    /\ admitted # {} => stage = "serving"
    /\ AdminKept

StartInv == TypeOK /\ ConfigInv /\ PredictorInv /\ AdminInv

\* What is meant depends on the surroundings alone.
LEMMA MeantKept ==
    ASSUME UNCHANGED host
    PROVE  \A s \in Settings : Meant(s)' = Meant(s)
BY DEF Meant, OfEnv, OfFile, OfDeepseek

\* The steps from the port on, and those of the weights, leave the configuration.
LEMMA LaterStep ==
    ASSUME StartInv, UNCHANGED <<host, cfg>>,
           stage \notin {"file", "env", "refused"}, stage' \notin {"file", "env"}
    PROVE  ConfigInv'
BY MeantKept DEF StartInv, ConfigInv, BadFile

LEMMA StartInit == Init => StartInv
<1> SUFFICES ASSUME Init
             PROVE  StartInv
  OBVIOUS
<1>1. TypeOK
  BY DefaultsType, HostsAssumption DEF Init, TypeOK, Running
<1>2. ConfigInv /\ PredictorInv /\ AdminInv
  BY DEF Init, ConfigInv, PredictorInv, AdminInv, AdminKept
<1>3. QED
  BY <1>1, <1>2 DEF StartInv

LEMMA FileStep ==
    ASSUME StartInv, ReadFile
    PROVE  StartInv'
<1>1. host \in Hosts /\ host' = host /\ UNCHANGED <<dir, predictor, admitted>> /\ stage = "file"
  BY DEF ReadFile, StartInv, TypeOK
<1>2. cfg = defaults /\ ~predictor /\ admitted = {}
  BY <1>1 DEF StartInv, ConfigInv, PredictorInv, AdminInv
<1>3. CASE host.file.state = "good" \/ (host.file.state = "absent" /\ ~host.file.named)
  <2>1. stage' = "env" /\ cfg' = Overridden(cfg, OfFile)
    BY <1>3 DEF ReadFile
  <2>2. \A s \in Settings : cfg'[s] \in Values(s)
    BY <1>1, <2>1, FileType, OverriddenType DEF StartInv, TypeOK
  <2>3. TypeOK'
    BY <1>1, <2>1, <2>2 DEF StartInv, TypeOK, Running
  <2>4. ConfigInv'
    <3>1. cfg' = Overridden(defaults, OfFile)'
      BY <1>1, <1>2, <2>1 DEF OfFile, Overridden
    <3>2. ~BadFile'
      BY <1>1, <1>3 DEF BadFile
    <3>3. QED
      BY <2>1, <3>1, <3>2 DEF ConfigInv
  <2>5. PredictorInv' /\ AdminInv'
    BY <1>1, <1>2, <2>1 DEF PredictorInv, AdminInv, AdminKept
  <2>6. QED
    BY <2>3, <2>4, <2>5 DEF StartInv
<1>4. CASE ~(host.file.state = "good" \/ (host.file.state = "absent" /\ ~host.file.named))
  <2>1. stage' = "refused" /\ cfg' = cfg
    BY <1>4 DEF ReadFile
  <2>2. TypeOK'
    BY <1>1, <2>1 DEF StartInv, TypeOK, Running, Ended
  <2>3. ConfigInv' /\ PredictorInv' /\ AdminInv'
    BY <1>1, <1>2, <2>1 DEF ConfigInv, PredictorInv, AdminInv, AdminKept
  <2>4. QED
    BY <2>2, <2>3 DEF StartInv
<1>5. QED
  BY <1>3, <1>4

LEMMA EnvStep ==
    ASSUME StartInv, ReadEnv
    PROVE  StartInv'
<1>1. /\ host \in Hosts /\ host' = host /\ UNCHANGED <<dir, predictor, admitted>>
      /\ stage = "env" /\ stage' = "weights"
  BY DEF ReadEnv, StartInv, TypeOK
<1>2. cfg = Overridden(defaults, OfFile) /\ ~BadFile /\ ~predictor /\ admitted = {}
  BY <1>1 DEF StartInv, ConfigInv, PredictorInv, AdminInv
<1>3. \A s \in Settings : cfg'[s] = Meant(s)
  BY <1>1, <1>2, EnvMeans
<1>4. \A s \in Settings : cfg'[s] \in Values(s)
  <2> DEFINE own == Overridden(cfg, OfEnv)
  <2>1. \A s \in Settings : own[s] \in Values(s)
    BY <1>1, EnvType, OverriddenType DEF StartInv, TypeOK
  <2>2. cfg' = IF own.fallback_api_key = {} THEN Overridden(own, OfDeepseek) ELSE own
    BY DEF ReadEnv
  <2> HIDE DEF own
  <2>3. \A s \in Settings : Overridden(own, OfDeepseek)[s] \in Values(s)
    BY <1>1, <2>1, DeepseekType, OverriddenType
  <2>4. QED
    BY <2>1, <2>2, <2>3
<1>5. TypeOK'
  BY <1>1, <1>4 DEF StartInv, TypeOK, Running
<1>6. ConfigInv'
  BY <1>1, <1>2, <1>3, MeantKept DEF ConfigInv, BadFile
<1>7. PredictorInv' /\ AdminInv'
  BY <1>1, <1>2 DEF PredictorInv, AdminInv, AdminKept
<1>8. QED
  BY <1>5, <1>6, <1>7 DEF StartInv

LEMMA WeightsStep ==
    ASSUME StartInv, CheckWeights \/ Download \/ BreakOff \/ Load
    PROVE  StartInv'
<1>1. UNCHANGED <<host, cfg, admitted>> /\ dir' \in Directories
  BY DEF CheckWeights, Download, BreakOff, Load, StartInv, TypeOK, Directories, Files
<1>2. /\ stage \in {"weights", "downloading", "predictor"}
      /\ stage' \in {"restore", "predictor", "downloading", "refused", "panicked"}
      /\ predictor' \in BOOLEAN
  BY DEF CheckWeights, Download, BreakOff, Load, StartInv, TypeOK
<1>3. admitted = {} /\ ~predictor
  BY <1>2 DEF StartInv, AdminInv, PredictorInv
<1>4. TypeOK'
  BY <1>1, <1>2 DEF StartInv, TypeOK, Running, Ended
<1>5. ConfigInv'
  BY <1>1, <1>2, LaterStep
<1>6. PredictorInv'
  <2>1. stage = "predictor" => cfg.cache_mode = "semantic"
    BY DEF StartInv, PredictorInv
  <2>2. stage = "downloading" => cfg.cache_mode = "semantic"
    BY DEF StartInv, PredictorInv
  <2>3. CASE CheckWeights
    BY <1>1, <1>3, <2>3 DEF CheckWeights, PredictorInv
  <2>4. CASE Download \/ BreakOff
    BY <1>1, <1>3, <2>2, <2>4 DEF Download, BreakOff, PredictorInv
  <2>5. CASE Load
    <3>1. (stage' = "restore" /\ LoadedFrom = Whole) \/ stage' = "panicked"
      BY <2>5 DEF Load
    <3>2. LoadedFrom = Whole => predictor'
      BY <2>5, Zenon DEF Load
    <3>3. stage' = "restore" => predictor'
      BY <3>1, <3>2
    <3>4. cfg'.cache_mode = "semantic"
      BY <1>1, <2>1, <2>5 DEF Load
    <3>5. QED
      BY <3>1, <3>3, <3>4 DEF PredictorInv
  <2>6. QED
    BY <2>3, <2>4, <2>5
<1>7. AdminInv'
  BY <1>1, <1>3 DEF AdminInv, AdminKept
<1>8. QED
  BY <1>4, <1>5, <1>6, <1>7 DEF StartInv

LEMMA PortStep ==
    ASSUME StartInv, Restore \/ Bind \/ BindFails
    PROVE  StartInv'
<1>1. /\ UNCHANGED <<host, dir, cfg, predictor, admitted>>
      /\ stage \in {"restore", "bind"}
      /\ stage' \in {"bind", "serving", "panicked"}
  BY DEF Restore, Bind, BindFails
<1>2. admitted = {}
  BY <1>1 DEF StartInv, AdminInv
<1>3. TypeOK'
  BY <1>1 DEF StartInv, TypeOK, Running, Ended
<1>4. ConfigInv'
  BY <1>1, LaterStep
<1>5. PredictorInv' /\ AdminInv'
  BY <1>1, <1>2 DEF StartInv, PredictorInv, AdminInv, AdminKept
<1>6. QED
  BY <1>3, <1>4, <1>5 DEF StartInv

LEMMA AdminStep ==
    ASSUME StartInv, NEW a \in AdminRequests, Admin(a)
    PROVE  StartInv'
<1>1. /\ UNCHANGED <<host, dir, stage, cfg, predictor>>
      /\ stage = "serving" /\ Authorized(a) /\ admitted' = {a}
  BY DEF Admin
<1>2. cfg.admin_key = Meant("admin_key") /\ Meant("admin_key")' = Meant("admin_key")
  BY <1>1, Kinds, MeantKept DEF StartInv, ConfigInv, Texts
<1>3. TypeOK'
  BY <1>1 DEF StartInv, TypeOK
<1>4. ConfigInv'
  BY <1>1, LaterStep
<1>5. PredictorInv'
  BY <1>1 DEF StartInv, PredictorInv
<1>6. AdminInv'
  <2>1. \/ cfg.admin_key = {} /\ a.loopback
        \/ cfg.admin_key # {} /\ a.key = cfg.admin_key
        \/ cfg.admin_key = {""} /\ a.key = {}
    BY <1>1 DEF Authorized, Provided
  <2>2. QED
    BY <1>1, <1>2, <2>1 DEF AdminInv, AdminKept
<1>7. QED
  BY <1>3, <1>4, <1>5, <1>6 DEF StartInv

LEMMA RestartStep ==
    ASSUME StartInv, Restart \/ UNCHANGED vars
    PROVE  StartInv'
<1>1. CASE Restart
  <2>1. TypeOK'
    BY <1>1, DefaultsType DEF Restart, StartInv, TypeOK, Running
  <2>2. ConfigInv' /\ PredictorInv' /\ AdminInv'
    BY <1>1 DEF Restart, ConfigInv, PredictorInv, AdminInv, AdminKept
  <2>3. QED
    BY <2>1, <2>2 DEF StartInv
<1>2. CASE UNCHANGED vars
  <2>1. \A s \in Settings : Meant(s)' = Meant(s)
    BY <1>2, MeantKept DEF vars
  <2>2. TypeOK' /\ PredictorInv'
    BY <1>2 DEF vars, StartInv, TypeOK, PredictorInv
  <2>3. ConfigInv'
    BY <1>2, <2>1 DEF vars, StartInv, ConfigInv, Overridden, OfFile, BadFile
  <2>4. AdminInv'
    BY <1>2, <2>1, Kinds DEF vars, StartInv, AdminInv, AdminKept, Texts
  <2>5. QED
    BY <2>2, <2>3, <2>4 DEF StartInv
<1>3. QED
  BY <1>1, <1>2

LEMMA StartHolds == Spec => []StartInv
<1>1. StartInv /\ [Next]_vars => StartInv'
  <2> SUFFICES ASSUME StartInv, [Next]_vars
               PROVE  StartInv'
    OBVIOUS
  <2>1. QED
    BY FileStep, EnvStep, AdminStep, WeightsStep, PortStep, RestartStep DEF Next, Step
<1>2. QED
  BY <1>1, StartInit, PTL DEF Spec

-------------------------------------------------------------------------------
(* Theorems.                                                               *)

\* The type invariant: whatever file and environment say, every setting has a value of
\* its kind.
THEOREM TypeCorrect == Spec => []TypeOK
<1>1. StartInv => TypeOK
  BY DEF StartInv
<1>2. QED
  BY <1>1, StartHolds, PTL

\* A process that serves has every setting from the layer that should decide it, for
\* every file and every environment.
THEOREM ConfiguredAsMeant == Spec => []ServesConfigured
<1>1. StartInv => ServesConfigured
  BY DEF StartInv, ConfigInv, ServesConfigured
<1>2. QED
  BY <1>1, StartHolds, PTL

\* No process gets past a bad configuration file, however often it is restarted.
THEOREM BadFileNeverPassed == Spec => []BadFileStops
<1>1. StartInv => BadFileStops
  BY DEF StartInv, ConfigInv, BadFileStops
<1>2. QED
  BY <1>1, StartHolds, PTL

\* What serves in semantic mode, and nothing else that serves, has a predictor, whatever
\* became of the downloads and whichever directory was read.
THEOREM SemanticLoaded == Spec => []SemanticServesLoaded
<1>1. StartInv => SemanticServesLoaded
  BY DEF StartInv, PredictorInv, SemanticServesLoaded
<1>2. QED
  BY <1>1, StartHolds, PTL

\* An admin request is admitted only with the admin key, whichever layer sets it, and
\* where none does only from the machine itself; an empty key is one that every request
\* without the header has.
THEOREM AdminGuarded == Spec => []AdminKept
<1>1. StartInv => AdminKept
  BY DEF StartInv, AdminInv
<1>2. QED
  BY <1>1, StartHolds, PTL

===============================================================================
