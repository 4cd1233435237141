------------------------------- MODULE Startup -------------------------------
(***************************************************************************)
(* How the proxy starts: the configuration from defaults, file and         *)
(* environment (config.rs), the model weights that semantic mode needs,    *)
(* with their download, the restore of the snapshot, and the port; and     *)
(* what a supervisor, which starts it again, makes of it.                  *)
(*                                                                         *)
(* A value is what the program keeps of it: an optional text is a set of   *)
(* at most one.  What the environment gives is a string, and is            *)
(* represented by what the program reads in it: a number as the set of     *)
(* what it parses to, a list of status codes as the set of the valid ones. *)
(***************************************************************************)
EXTENDS Integers, FiniteSetsExt

CONSTANTS
    Hosts,      \* the surroundings a process may find
    Strings,    \* texts a setting may have
    Keys        \* what clients of the admin API may present as x-admin-key

-------------------------------------------------------------------------------
(* Settings.                                                               *)

Flags == {"allow_model_rewrite", "disable_persistence", "reactive_failover"}

Numbers == {"exact_max_entries", "exact_ttl_secs", "semantic_max_items",
            "semantic_max_bucket_items", "semantic_ttl_secs"}

Texts == {"tenant_id_header", "upstream_url", "fallback_url", "fallback_api_key",
          "admin_key", "cache_path", "failover_model"}

Settings == {"cache_mode", "failover_status_codes"} \cup Flags \cup Numbers \cup Texts

Modes == {"off", "exact", "semantic"}

Codes == SUBSET (0..65535)

Optional == SUBSET Strings

Values(s) ==
    CASE s = "cache_mode" -> Modes
      [] s = "failover_status_codes" -> Codes
      [] s \in Flags -> BOOLEAN
      [] s \in Numbers -> Nat
      [] OTHER -> Optional

ASSUME StringsAssumption == "deepseek" \in Strings

defaults ==
    [cache_mode |-> "exact", tenant_id_header |-> {}, allow_model_rewrite |-> FALSE,
     upstream_url |-> {"deepseek"}, fallback_url |-> {"deepseek"}, fallback_api_key |-> {},
     admin_key |-> {}, exact_max_entries |-> 20000, exact_ttl_secs |-> 3600,
     semantic_max_items |-> 10000, semantic_max_bucket_items |-> 256,
     semantic_ttl_secs |-> 3600, cache_path |-> {}, disable_persistence |-> FALSE,
     reactive_failover |-> TRUE, failover_model |-> {},
     failover_status_codes |-> {429, 500, 502, 503, 504}]

\* Mutation of ModeOf: an unknown mode is taken as it is.
ModeOfAnything(text) == text

\* An unknown mode is the exact one.
ModeOf(text) == IF text \in {"off", "semantic"} THEN text ELSE "exact"

\* What the file, or the environment, says of a setting: a value, or nothing.
FromFile(file, s) ==
    IF s \notin DOMAIN file.gives THEN {}
    ELSE {IF s = "cache_mode" THEN ModeOf(file.gives[s]) ELSE file.gives[s]}

FromEnv(env, s) ==
    IF s \notin DOMAIN env THEN {}
    ELSE CASE s = "cache_mode" -> {ModeOf(env[s])}
           [] s \in Flags -> {v \in BOOLEAN : v <=> env[s] \in {"true", "1"}}
           [] s \in Numbers -> env[s]
           [] s = "failover_status_codes" -> {env[s]} \ {{}}
           [] OTHER -> {env[s]}

\* DEEPSEEK_API_KEY stands in for a fallback_api_key.
FromDeepseek(env, s) ==
    IF s = "fallback_api_key" /\ "DEEPSEEK_API_KEY" \in DOMAIN env
    THEN {env["DEEPSEEK_API_KEY"]} ELSE {}

\* c with the values that a layer gives.
Overridden(c, layer) ==
    [s \in Settings |-> IF layer[s] = {} THEN c[s] ELSE CHOOSE v \in layer[s] : TRUE]

-------------------------------------------------------------------------------
(* Model directories.                                                      *)

\* A file is there, as it should be or not: truncated, or an error page.
Files == {"absent", "broken", "good"}

Directories == [config : Files, weights : Files]

Whole == [config |-> "good", weights |-> "good"]

\* The values of a setting that is given: a text is there then, and may be empty.
Given(s) == IF s \in Texts THEN {{v} : v \in Strings} ELSE Values(s)

\* A host has a file [named, state, gives], an environment, a model directory `dir`,
\* none or one above the executable that is another one (`near`), leave to download or not, a snapshot,
\* and a monotonic clock that begins at boot (boot_clock, as on Windows) or is signed.
ASSUME HostsAssumption ==
    \A h \in Hosts :
        /\ h.file.state \in {"good", "absent", "unreadable", "malformed"}
        /\ h.file.state # "good" => h.file.gives = <<>>
        /\ \A s \in DOMAIN h.file.gives \ {"cache_mode"} : h.file.gives[s] \in Given(s)
        /\ \A s \in DOMAIN h.env \cap Numbers : h.env[s] \subseteq Nat
        /\ \A s \in DOMAIN h.env \cap (Texts \cup {"failover_status_codes"}) :
              h.env[s] \in Given(s)
        /\ "DEEPSEEK_API_KEY" \in DOMAIN h.env =>
              h.env["DEEPSEEK_API_KEY"] \in Given("fallback_api_key")
        /\ h.dir \in Directories
        /\ \A d \in h.near : d.config # "absent"

VARIABLES
    host,       \* what is around the process: file, environment, snapshot, ...
    dir,        \* the model directory that main looks into
    stage,      \* how far the process is, or how it ended
    cfg,        \* its configuration so far
    predictor,  \* whether it has one
    admitted    \* the admin requests it has admitted

vars == <<host, dir, stage, cfg, predictor, admitted>>

Running == {"file", "env", "weights", "downloading", "predictor", "restore", "bind"}

Ended == {"refused", "panicked"}    \* exit(1), panic

\* The header x-admin-key is a text, or none: left out, or not a text.
AdminRequests == [key : {{}} \cup {{k} : k \in Keys}, loopback : BOOLEAN]

TypeOK ==
    /\ host \in Hosts
    /\ dir \in Directories
    /\ stage \in Running \cup Ended \cup {"serving"}
    /\ \A s \in Settings : cfg[s] \in Values(s)
    /\ predictor \in BOOLEAN
    /\ admitted \subseteq AdminRequests

\* The directory that LocalPredictor reads: without STACK_INTERCEPT_MODEL_DIR it is
\* the first `model` above the executable that has a config.json, if there is one,
\* and not the one main has looked into.
LoadedFrom == IF host.near = {} THEN dir ELSE CHOOSE d \in host.near : TRUE

-------------------------------------------------------------------------------
(* The configuration.                                                      *)

\* The layers.
OfFile == [s \in Settings |-> FromFile(host.file, s)]

OfEnv == [s \in Settings |-> FromEnv(host.env, s)]

OfDeepseek == [s \in Settings |-> FromDeepseek(host.env, s)]

\* Mutation of ReadFile: a file that cannot be read is as good as none.
ReadFileLeniently ==
    /\ stage = "file"
    /\ IF host.file.state = "malformed"
       THEN stage' = "refused" /\ UNCHANGED cfg
       ELSE /\ stage' = "env"
            /\ cfg' = Overridden(cfg, OfFile)
    /\ UNCHANGED <<host, dir, predictor, admitted>>

\* apply_file_config.  Only the default file may be missing.
ReadFile ==
    /\ stage = "file"
    /\ IF host.file.state = "good" \/ (host.file.state = "absent" /\ ~host.file.named)
       THEN /\ stage' = "env"
            /\ cfg' = Overridden(cfg, OfFile)
       ELSE stage' = "refused" /\ UNCHANGED cfg
    /\ UNCHANGED <<host, dir, predictor, admitted>>

\* Mutation of ReadEnv: DEEPSEEK_API_KEY wins over the file.
ReadEnvDeepseekFirst ==
    /\ stage = "env"
    /\ cfg' = Overridden(Overridden(cfg, OfDeepseek),
                         OfEnv)
    /\ stage' = "weights"
    /\ UNCHANGED <<host, dir, predictor, admitted>>

\* apply_env_overrides.
ReadEnv ==
    /\ stage = "env"
    /\ LET own == Overridden(cfg, OfEnv)
       IN  cfg' = IF own.fallback_api_key = {}
                  THEN Overridden(own, OfDeepseek) ELSE own
    /\ stage' = "weights"
    /\ UNCHANGED <<host, dir, predictor, admitted>>

-------------------------------------------------------------------------------
(* The weights.                                                            *)

\* Mutation of CheckWeights: the file's mode decides, not that of the environment.
CheckWeightsOfFile ==
    /\ stage = "weights"
    /\ stage' = IF FromFile(host.file, "cache_mode") # {"semantic"} THEN "restore"
                ELSE IF dir.weights # "absent" THEN "predictor"
                ELSE IF host.download THEN "downloading"
                ELSE "refused"
    /\ UNCHANGED <<host, dir, cfg, predictor, admitted>>

\* Only semantic mode needs them, and only whether model.safetensors exists is asked.
CheckWeights ==
    /\ stage = "weights"
    /\ stage' = IF cfg.cache_mode # "semantic" THEN "restore"
                ELSE IF dir.weights # "absent" THEN "predictor"
                ELSE IF host.download THEN "downloading"
                ELSE "refused"
    /\ UNCHANGED <<host, dir, cfg, predictor, admitted>>

\* download_model.sh ends well.  curl is not told to fail on an error of the server,
\* and keeps its page as the file.
Download ==
    /\ stage = "downloading"
    /\ dir' \in [config : {"good", "broken"}, weights : {"good", "broken"}]
    /\ stage' = "predictor"
    /\ UNCHANGED <<host, cfg, predictor, admitted>>

\* The download breaks off, in one of the files, which may have been begun.
BreakOff ==
    /\ stage = "downloading"
    /\ \/ dir' \in {dir, [dir EXCEPT !.config = "broken"]}
       \/ \E config \in {"good", "broken"}, weights \in {dir.weights, "broken"} :
             dir' = [config |-> config, weights |-> weights]
    /\ stage' = "refused"
    /\ UNCHANGED <<host, cfg, predictor, admitted>>

\* LocalPredictor::init_from_disk and the expect on it.
Load ==
    /\ stage = "predictor"
    /\ predictor' = (LoadedFrom = Whole)
    /\ stage' = IF LoadedFrom = Whole THEN "restore" ELSE "panicked"
    /\ UNCHANGED <<host, dir, cfg, admitted>>

-------------------------------------------------------------------------------
(* The snapshot, the port, and serving.                                    *)

\* Whether the snapshot is looked at.
Restores == ~cfg.disable_persistence /\ cfg.cache_path # {}

\* Mutation of Restore: a snapshot that cannot be read is fatal.
RestoreUnwraps ==
    /\ stage = "restore"
    /\ stage' = IF Restores /\ host.snapshot \in {"old", "unreadable"}
                THEN "panicked" ELSE "bind"
    /\ UNCHANGED <<host, dir, cfg, predictor, admitted>>

\* What restoring does to the caches is in ExactCache and SemanticIndex.  A snapshot
\* that cannot be read is passed over.  An item that is older than the clock of the
\* machine makes `Instant::now() - diff` panic where instants start at boot.
Restore ==
    /\ stage = "restore"
    /\ stage' = IF Restores /\ host.snapshot = "old" /\ host.boot_clock
                THEN "panicked" ELSE "bind"
    /\ UNCHANGED <<host, dir, cfg, predictor, admitted>>

Bind ==
    /\ stage = "bind"
    /\ stage' = "serving"
    /\ UNCHANGED <<host, dir, cfg, predictor, admitted>>

\* The port is taken.
BindFails ==
    /\ stage = "bind"
    /\ stage' = "panicked"
    /\ UNCHANGED <<host, dir, cfg, predictor, admitted>>

\* What is compared with the key: no header counts as an empty one.
Provided(a) == IF a.key = {} THEN {""} ELSE a.key

\* Mutation of Authorized: a peer on the loopback needs no key.
AuthorizedLocally(a) == a.loopback \/ cfg.admin_key = Provided(a)

\* check_admin_auth: the key if there is one, otherwise only the loopback.
Authorized(a) ==
    IF cfg.admin_key # {} THEN cfg.admin_key = Provided(a) ELSE a.loopback

\* Any of the admin handlers, as far as whether it does anything.
Admin(a) ==
    /\ stage = "serving"
    /\ Authorized(a)
    /\ admitted' = {a}
    /\ UNCHANGED <<host, dir, stage, cfg, predictor>>

\* A supervisor starts the process again.
Restart ==
    /\ stage \in Ended
    /\ stage' = "file"
    /\ cfg' = defaults
    /\ predictor' = FALSE
    /\ admitted' = {}
    /\ UNCHANGED <<host, dir>>

-------------------------------------------------------------------------------
Init ==
    /\ host \in Hosts
    /\ dir = host.dir
    /\ stage = "file"
    /\ cfg = defaults
    /\ predictor = FALSE
    /\ admitted = {}

\* What the starting thread does by itself.
Step == ReadFile \/ ReadEnv \/ CheckWeights \/ Load \/ Restore

Next ==
    \/ Step
    \/ Download \/ BreakOff
    \/ Bind \/ BindFails
    \/ \E a \in AdminRequests : Admin(a)
    \/ Restart

Spec == Init /\ [][Next]_vars

\* The thread runs, the supervisor restarts, and neither the download nor the port
\* fails for ever.
FairSpec ==
    /\ Spec
    /\ WF_vars(Step) /\ WF_vars(Restart)
    /\ SF_vars(Download /\ dir' = Whole) /\ SF_vars(Bind)

-------------------------------------------------------------------------------
(* Properties.                                                             *)

\* The value a setting is meant to have: that of the first that says something.
Meant(s) ==
    LET said == <<OfEnv[s], OfFile[s], OfDeepseek[s], {defaults[s]}>>
        first == Min({i \in DOMAIN said : said[i] # {}})
    IN  CHOOSE v \in said[first] : TRUE

\* A process that serves has every setting from the layer that should decide it:
\* environment, file, DEEPSEEK_API_KEY for the fallback's key, default.  What the
\* program reads in no layer, an invalid number or list of codes, changes nothing.
ServesConfigured == stage = "serving" => \A s \in Settings : cfg[s] = Meant(s)

BadFile ==
    \/ host.file.state \in {"unreadable", "malformed"}
    \/ host.file.state = "absent" /\ host.file.named

\* No process gets past a configuration file that was asked for and is not there, or
\* that is there and cannot be read or parsed, however often it is restarted.
BadFileStops ==
    BadFile => stage \in {"file", "refused"}

\* A process that serves in semantic mode has a predictor: the handler's answer
\* "Predictor not initialized" is for a case that does not occur.
SemanticServesLoaded ==
    stage = "serving" => (cfg.cache_mode = "semantic" <=> predictor)

\* Whatever layer sets an admin key, an admin request is admitted only with it, from the
\* machine itself too; when none does, only from the machine itself.  A key that is set
\* and empty is one that every request without a key has, wherever it comes from.
AdminKept ==
    \A a \in admitted :
        \/ Meant("admin_key") = {} /\ a.loopback
        \/ Meant("admin_key") # {} /\ a.key = Meant("admin_key")
        \/ Meant("admin_key") = {""} /\ a.key = {}

\* What no restart mends: a bad file; weights that are there and not whole, which the
\* download passes over, or are not there and may not be downloaded; a directory above
\* the executable that is not whole; an old snapshot on a machine whose clock began
\* later.
Hopeless ==
    \/ BadFile
    \/ /\ Meant("cache_mode") = "semantic"
       /\ \/ dir.weights = "absent" /\ ~host.download
          \/ dir.weights # "absent" /\ LoadedFrom # Whole
          \/ host.near \notin {{}, {Whole}}
    \/ /\ host.snapshot = "old" /\ host.boot_clock
       /\ Meant("cache_path") # {} /\ ~Meant("disable_persistence")

\* Under a supervisor the proxy comes to serve, through ports that are taken and
\* downloads that break off, unless it is in one of these states.
Serves == <>(stage = "serving" \/ Hopeless)

===============================================================================
