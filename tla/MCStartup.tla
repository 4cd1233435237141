------------------------------ MODULE MCStartup ------------------------------
(* A small instance of Startup for TLC.                                     *)
EXTENDS Startup, TLC

NoFile == [named |-> FALSE, state |-> "absent", gives |-> <<>>]

GoodFile(gives) == [named |-> FALSE, state |-> "good", gives |-> gives]

\* A machine where nothing is in the way.
Plain ==
    [file |-> NoFile, env |-> <<>>, dir |-> Whole, near |-> {}, download |-> FALSE,
     snapshot |-> "none", boot_clock |-> FALSE]

\* What a file, and the environment, may say of a setting.
InFile(s) ==
    CASE s = "cache_mode" -> Modes \cup {"unknown"}
      [] s = "failover_status_codes" -> {{}, {500}}
      [] s \in Flags -> BOOLEAN
      [] s \in Numbers -> {0, 7}
      [] OTHER -> {{"one"}, {""}}

InEnv(s) ==
    CASE s = "cache_mode" -> Modes \cup {"unknown"}
      [] s = "failover_status_codes" -> {{}, {503}}
      [] s \in Flags -> {"true", "1", "false", "TRUE"}
      [] s \in Numbers -> {{}, {9}}
      [] OTHER -> {{"two"}, {""}}

\* Both, one or none of the layers speak of a setting; and of the standing-in key.
Layered ==
    {[Plain EXCEPT !.file = f, !.env = e @@ d] :
        <<f, e, d>> \in UNION
            {({NoFile} \cup {GoodFile(s :> v) : v \in InFile(s)})
             \X ({<<>>} \cup {s :> raw : raw \in InEnv(s)})
             \X {<<>>, "DEEPSEEK_API_KEY" :> {"deepseek"}} : s \in Settings}}

\* Files that are missing or bad.
BadFiles ==
    {[Plain EXCEPT !.file = [NoFile EXCEPT !.named = n, !.state = s]] :
        n \in BOOLEAN, s \in {"absent", "unreadable", "malformed"}}

\* Semantic mode with every state of the weights, downloads allowed or not, and another
\* directory above the executable or not.
Semantic ==
    {[Plain EXCEPT !.env = "cache_mode" :> "semantic", !.dir = d, !.near = n,
                   !.download = l] :
        d \in Directories, l \in BOOLEAN,
        n \in {{}} \cup {{x} : x \in {y \in Directories : y.config # "absent"}}}

\* Snapshots.
Snapshots ==
    {[Plain EXCEPT !.env = "cache_path" :> {"one"}, !.snapshot = s, !.boot_clock = b] :
        s \in {"none", "unreadable", "recent", "old"}, b \in BOOLEAN}

MCHosts == Layered \cup BadFiles \cup Semantic \cup Snapshots

===============================================================================
