------------------------------ MODULE Profile ------------------------------
(***************************************************************************)
(* The profile file (falcon-core/src/profile.rs) and the commands that     *)
(* share it: `falcon config set` loads it, changes one setting and saves   *)
(* it (config_cmd.rs), `falcon serve` builds a node's configuration from   *)
(* it (serve.rs), and the client subcommands find the node through it      *)
(* (client.rs).                                                            *)
(*                                                                         *)
(* Nothing locks the file.  A save opens it, which truncates it, writes    *)
(* the text, and then restricts its mode: three steps between which other  *)
(* commands run, and a command or the machine may die.  A text this small  *)
(* is read by one call and written by one call.                            *)
(***************************************************************************)
EXTENDS Integers, Sequences

CONSTANTS
    Proc,       \* the commands that may run at one time
    Asked,      \* the arguments `config set` is called with: [key, value]
    Flags,      \* the flags `serve` is called with, by the setting they override
    ClientArgs, \* the --addr and --api-key of a client; Unset = not given
    Unset,
    Value,      \* the values settings may have, as text
    Numeral,    \* those that parse as a number
    Port,       \* the ports addresses may name
    MaxSets,    \* BOUND: how many sets begin
    MaxRuns,    \* BOUND: how many nodes and clients start
    MaxFaults   \* BOUND: how many saves die half-way, and power losses

-----------------------------------------------------------------------------
(* Settings.                                                               *)

Settings == {"node.id", "region", "http-bind", "wire-bind", "wire-enabled",
             "api-key", "log-level", "capacity-mb", "default-ttl",
             "tls-enabled", "tls-cert", "tls-key"}

Switches == {"wire-enabled", "tls-enabled"}

(* The names `config set` and `config get` know a setting by.              *)
Names(s) ==
    CASE s = "node.id"      -> {"node.id", "id"}
      [] s = "region"       -> {"node.region", "region"}
      [] s = "http-bind"    -> {"http-bind", "http_bind", "node.http_bind"}
      [] s = "wire-bind"    -> {"wire-bind", "wire_bind", "node.wire_bind"}
      [] s = "wire-enabled" -> {"wire-enabled", "wire_enabled"}
      [] s = "api-key"      -> {"api-key", "api_key", "auth.api_key"}
      [] s = "log-level"    -> {"log-level", "log_level"}
      [] s = "capacity-mb"  -> {"capacity-mb", "capacity_mb"}
      [] s = "default-ttl"  -> {"default-ttl", "default_ttl_secs", "default-ttl-secs"}
      [] s = "tls-enabled"  -> {"tls-enabled", "tls_enabled"}
      [] s = "tls-cert"     -> {"tls-cert", "tls_cert"}
      [] s = "tls-key"      -> {"tls-key", "tls_key"}

Default ==
    [s \in Settings |->
       CASE s = "node.id"     -> "node-1"
         [] s = "region"      -> "local"
         [] s = "http-bind"   -> "0.0.0.0:8080"
         [] s = "wire-bind"   -> "0.0.0.0:6380"
         [] s \in Switches    -> "false"
         [] s = "log-level"   -> "info"
         [] s = "capacity-mb" -> "auto"
         [] s = "default-ttl" -> "0"
         [] OTHER             -> ""]

Truthy == {"true", "1", "yes", "on"}
Falsy  == {"false", "0", "no", "off"}

(* The definitions named Bad... are the mistakes the runs' properties are  *)
(* tested against; no specification uses them.                             *)
BadParsed(s, value) ==
    IF s \in Switches
    THEN IF value \in Truthy THEN {"true"} ELSE {"false"}
    ELSE {value}

(* What a value becomes when it is stored; {} if it does not parse.        *)
Parsed(s, value) ==
    CASE s \in Switches -> IF value \in Truthy THEN {"true"}
                           ELSE IF value \in Falsy THEN {"false"} ELSE {}
      [] s = "capacity-mb" -> {value} \cap (Numeral \cup {"auto"})
      [] s = "default-ttl" -> {value} \cap Numeral
      [] OTHER -> {value}

(* The fields of ProfileNode have types.                                   *)
Legal(s) ==
    CASE s \in Switches -> {"true", "false"}
      [] s = "capacity-mb" -> Numeral \cup {"auto"}
      [] s = "default-ttl" -> Numeral
      [] OTHER -> Value

ProfileSet == {text \in [Settings -> Value] : \A s \in Settings : text[s] \in Legal(s)}

(* What a node runs on: everything but the log level.                      *)
Config == [Settings \ {"log-level"} -> Value]

Overridable == {"node.id", "region", "http-bind", "wire-bind", "wire-enabled",
                "capacity-mb", "default-ttl"}

ASSUME ValueAssumption ==
    /\ \A s \in Settings : Default[s] \in Value
    /\ {"true", "false", "auto"} \subseteq Value /\ "0" \in Numeral /\ Numeral \subseteq Value
    /\ \A r \in Asked : r.value \in Value

ASSUME FlagAssumption ==
    \A f \in Flags : DOMAIN f \subseteq Overridable /\ \A s \in DOMAIN f : f[s] \in Legal(s)

ASSUME BoundAssumption == MaxSets \in Nat /\ MaxRuns \in Nat /\ MaxFaults \in Nat

VARIABLES
    file,       \* the profile file
    disk,       \* the file as the machine would find it after a power loss
    pc,         \* where each command is
    job,        \* the setting and value a `config set` was asked for
    profile,    \* the profile a command has in memory
    config,     \* the configuration a running node was built with
    target,     \* where a client talks to, and with what key
    seen,       \* history: changes, when the command read the file
    changes,    \* history: how often the file has been changed
    asked,      \* history: the settings and values asked for so far
    expected,   \* history: what the sets written so far ask for, one by one
    acked,      \* history: the same for the sets that have returned
    wanted,     \* history: acked, when the node read the file
    overlapped, \* history: a save has replaced what it had not read
    cut,        \* history: a save, or what one saved, has been lost half-way
    torn,       \* history: a save died, and none has returned since
    sets, runs, faults

fileVars == <<file, disk>>
procVars == <<pc, job, profile, config, target, seen, wanted>>
histVars == <<changes, asked, expected, acked, overlapped, cut, torn>>
vars == <<fileVars, procVars, histVars, sets, runs, faults>>

(* state "blank" is a file of length 0, "mangled" one that is no TOML.     *)
NoFile == [state |-> "absent", text |-> Default, private |-> FALSE]

NoJob == [setting |-> "node.id", value |-> Default["node.id"]]
NoConfig == [s \in Settings \ {"log-level"} |-> Default[s]]
NoTarget == [addr |-> "", api_key |-> ""]

Init ==
    /\ file = NoFile /\ disk = NoFile
    /\ pc = [p \in Proc |-> "idle"]
    /\ job = [p \in Proc |-> NoJob]
    /\ profile = [p \in Proc |-> Default]
    /\ config = [p \in Proc |-> NoConfig]
    /\ target = [p \in Proc |-> NoTarget]
    /\ seen = [p \in Proc |-> 0]
    /\ wanted = [p \in Proc |-> Default]
    /\ changes = 0 /\ asked = {}
    /\ expected = Default /\ acked = Default
    /\ overlapped = FALSE /\ cut = FALSE /\ torn = FALSE
    /\ sets = 0 /\ runs = 0 /\ faults = 0

-----------------------------------------------------------------------------
(* Reading.                                                                *)

(* A file of length 0 parses: every field has a default.                   *)
Readable(f) == f.state # "mangled"

Loaded(f) == IF f.state = "whole" THEN f.text ELSE Default

-----------------------------------------------------------------------------
(* config set.                                                             *)

BadNamed(key) ==
    {IF s = "tls-key" THEN "tls-cert" ELSE s : s \in {t \in Settings : key \in Names(t)}}

Named(key) == {s \in Settings : key \in Names(s)}

(* Load, set: an unreadable file, an unknown key or a value that does not  *)
(* parse ends the command here, with nothing changed.                      *)
SetBegins(p) ==
    /\ pc[p] = "idle" /\ sets < MaxSets
    /\ Readable(file)
    /\ \E r \in Asked : \E s \in Named(r.key) : \E v \in Parsed(s, r.value) :
          /\ job' = [job EXCEPT ![p] = [setting |-> s, value |-> v]]
          /\ profile' = [profile EXCEPT ![p] = [Loaded(file) EXCEPT ![s] = v]]
          /\ asked' = asked \cup {[key |-> r.key, value |-> v]}
    /\ pc' = [pc EXCEPT ![p] = "loaded"]
    /\ seen' = [seen EXCEPT ![p] = changes]
    /\ sets' = sets + 1
    /\ UNCHANGED <<fileVars, config, target, wanted, changes, expected, acked,
                   overlapped, cut, torn, runs, faults>>

SetRefused(p) ==
    /\ pc[p] = "idle" /\ sets < MaxSets
    /\ \E r \in Asked :
          \/ ~Readable(file)
          \/ \A s \in Named(r.key) : Parsed(s, r.value) = {}
    /\ sets' = sets + 1
    /\ UNCHANGED <<fileVars, procVars, histVars, runs, faults>>

(* The locals of a command are gone when it ends.                          *)
Ends(p) ==
    /\ pc' = [pc EXCEPT ![p] = "idle"]
    /\ job' = [job EXCEPT ![p] = NoJob]
    /\ profile' = [profile EXCEPT ![p] = Default]
    /\ config' = [config EXCEPT ![p] = NoConfig]
    /\ target' = [target EXCEPT ![p] = NoTarget]
    /\ seen' = [seen EXCEPT ![p] = 0]
    /\ wanted' = [wanted EXCEPT ![p] = Default]

(* The directory cannot be created or restricted, or the command is killed.*)
SaveFailsEarly(p) ==
    /\ pc[p] = "loaded"
    /\ Ends(p)
    /\ UNCHANGED <<fileVars, histVars, sets, runs, faults>>

BadTruncated(f) == [f EXCEPT !.state = IF @ = "absent" THEN "blank" ELSE @]

(* The first half of fs::write: the file is created, readable by all, or   *)
(* emptied and its mode kept.                                              *)
Truncated(f) == [f EXCEPT !.state = "blank", !.text = Default]

Truncate(p) ==
    /\ pc[p] = "loaded"
    /\ file' = Truncated(file)
    /\ pc' = [pc EXCEPT ![p] = "opened"]
    /\ changes' = changes + 1
    /\ overlapped' = (overlapped \/ seen[p] # changes)
    /\ seen' = [seen EXCEPT ![p] = changes + 1]
    /\ UNCHANGED <<disk, job, profile, config, target, wanted, asked, expected,
                   acked, cut, torn, sets, runs, faults>>

(* The second half writes from the start of the file.  If another save has *)
(* written since this one emptied it, what that text has beyond the end of *)
(* this one stays; it may be a line with no meaning, or break the file.    *)
Wrote(f, text) ==
    {[f EXCEPT !.state = st, !.text = text] :
        st \in {"whole"} \cup (IF f.state = "blank" THEN {} ELSE {"mangled"})}

Write(p) ==
    /\ pc[p] = "opened"
    /\ file' \in Wrote(file, profile[p])
    /\ pc' = [pc EXCEPT ![p] = "written"]
    /\ changes' = changes + 1
    /\ overlapped' = (overlapped \/ seen[p] # changes)
    /\ expected' = [expected EXCEPT ![job[p].setting] = job[p].value]
    /\ UNCHANGED <<disk, job, profile, config, target, seen, wanted, asked,
                   acked, cut, torn, sets, runs, faults>>

BadRestricted(f) == [f EXCEPT !.private = @]

Restricted(f) == [f EXCEPT !.private = TRUE]

MakePrivate(p) ==
    /\ pc[p] = "written"
    /\ file' = Restricted(file)
    /\ acked' = [acked EXCEPT ![job[p].setting] = job[p].value]
    /\ torn' = FALSE
    /\ Ends(p)
    /\ UNCHANGED <<disk, changes, asked, expected, overlapped, cut, sets, runs, faults>>

(* The command is killed between two of these steps, the disk is full, or  *)
(* the mode cannot be set.                                                 *)
SaveDies(p) ==
    /\ pc[p] \in {"opened", "written"} /\ faults < MaxFaults
    /\ cut' = (cut \/ pc[p] = "opened")
    /\ torn' = TRUE
    /\ faults' = faults + 1
    /\ Ends(p)
    /\ UNCHANGED <<fileVars, changes, asked, expected, acked, overlapped, sets, runs>>

-----------------------------------------------------------------------------
(* serve.                                                                  *)

(* Profile::to_config with apply_overrides on top.                         *)
build_config(text, flags) ==
    [s \in Settings \ {"log-level"} |->
        IF s \in DOMAIN flags THEN flags[s] ELSE text[s]]

(* AuthConfig::is_enabled, TlsConfig::is_enabled.                          *)
AuthOn(cfg) == cfg["api-key"] # ""
TlsOn(cfg) == cfg["tls-enabled"] = "true" /\ cfg["tls-cert"] # "" /\ cfg["tls-key"] # ""

Reads(p) ==
    /\ profile' = [profile EXCEPT ![p] = Loaded(file)]
    /\ seen' = [seen EXCEPT ![p] = changes]
    /\ runs' = runs + 1

(* A profile that does not parse is an error, and no node starts.          *)
Serve(p) ==
    /\ pc[p] = "idle" /\ runs < MaxRuns
    /\ Readable(file)
    /\ \E flags \in Flags :
          config' = [config EXCEPT ![p] = build_config(Loaded(file), flags)]
    /\ wanted' = [wanted EXCEPT ![p] = acked]
    /\ pc' = [pc EXCEPT ![p] = "serving"]
    /\ Reads(p)
    /\ UNCHANGED <<fileVars, job, target, histVars, sets, faults>>

-----------------------------------------------------------------------------
(* get, put, del, health.                                                  *)

Wildcards(port)  == {h \o ":" \o port : h \in {"", "0.0.0.0", "[::]"}}
Loopback(port) == "127.0.0.1:" \o port

(* A listen address as one a client can dial.                              *)
dialable(bind) ==
    IF \E q \in Port : bind \in Wildcards(q)
    THEN Loopback(CHOOSE q \in Port : bind \in Wildcards(q)) ELSE bind

BadResolve(text, args) ==
    [addr |-> IF args.addr # Unset THEN args.addr ELSE Loopback("8080"),
     api_key |-> IF args.api_key # Unset THEN args.api_key ELSE text["api-key"]]

(* Target::resolve; an empty key is no key.                                *)
Resolve(text, args) ==
    [addr |-> IF args.addr # Unset THEN args.addr ELSE dialable(text["http-bind"]),
     api_key |-> IF args.api_key # Unset THEN args.api_key ELSE text["api-key"]]

(* An unreadable profile is taken for the default one.                     *)
ClientStarts(p) ==
    /\ pc[p] = "idle" /\ runs < MaxRuns
    /\ LET text == IF Readable(file) THEN Loaded(file) ELSE Default
       IN  \E args \in ClientArgs : target' = [target EXCEPT ![p] = Resolve(text, args)]
    /\ pc' = [pc EXCEPT ![p] = "client"]
    /\ Reads(p)
    /\ UNCHANGED <<fileVars, job, config, wanted, histVars, sets, faults>>

(* A client has its answer; a node is stopped.                             *)
Stops(p) ==
    /\ pc[p] \in {"serving", "client"}
    /\ Ends(p)
    /\ UNCHANGED <<fileVars, histVars, sets, runs, faults>>

-----------------------------------------------------------------------------
(* The machine.  Nothing in the code syncs the file: the kernel writes it  *)
(* back in its own time, and a power loss before that leaves the old file, *)
(* or one of which only the length has been reset.                         *)

Flush ==
    /\ disk # file
    /\ disk' = file
    /\ UNCHANGED <<file, procVars, histVars, sets, runs, faults>>

PowerLoss ==
    /\ faults < MaxFaults
    /\ file' \in {disk} \cup {Truncated(f) : f \in {g \in {disk, file} : g.state # "absent"}}
    /\ disk' = file'
    /\ cut' = (cut \/ file' # file \/ \E p \in Proc : pc[p] = "opened")
    /\ torn' = TRUE
    /\ changes' = changes + 1
    /\ pc' = [p \in Proc |-> "idle"]
    /\ job' = [p \in Proc |-> NoJob]
    /\ profile' = [p \in Proc |-> Default]
    /\ config' = [p \in Proc |-> NoConfig]
    /\ target' = [p \in Proc |-> NoTarget]
    /\ seen' = [p \in Proc |-> 0]
    /\ wanted' = [p \in Proc |-> Default]
    /\ faults' = faults + 1
    /\ UNCHANGED <<asked, expected, acked, overlapped, sets, runs>>

-----------------------------------------------------------------------------
Next ==
    \/ Flush \/ PowerLoss
    \/ \E p \in Proc :
          \/ SetBegins(p) \/ SetRefused(p) \/ SaveFailsEarly(p)
          \/ Truncate(p) \/ Write(p) \/ MakePrivate(p) \/ SaveDies(p)
          \/ Serve(p) \/ ClientStarts(p) \/ Stops(p)

Spec == Init /\ [][Next]_vars
-----------------------------------------------------------------------------
(* Properties.                                                             *)

FileSet == [state: {"absent", "blank", "whole", "mangled"}, text: ProfileSet,
            private: BOOLEAN]

JobSet == {j \in [setting: Settings, value: Value] : j.value \in Legal(j.setting)}

TypeOK ==
    /\ file \in FileSet /\ disk \in FileSet
    /\ pc \in [Proc -> {"idle", "loaded", "opened", "written", "serving", "client"}]
    /\ job \in [Proc -> JobSet]
    /\ profile \in [Proc -> ProfileSet]
    /\ config \in [Proc -> Config]
    /\ expected \in ProfileSet /\ acked \in ProfileSet
    /\ wanted \in [Proc -> ProfileSet]
    /\ changes \in Nat /\ seen \in [Proc -> 0..changes]
    /\ sets \in 0..MaxSets /\ runs \in 0..MaxRuns /\ faults \in 0..MaxFaults

(* Between the two halves of its save.                                     *)
HalfSaved == \E p \in Proc : pc[p] = "opened"

(* A profile holds the defaults and values that were asked for under one   *)
(* of the names of that very setting, whatever saves ran into each other   *)
(* or died: no setting receives another's value, and a flag of one run is  *)
(* never saved (profile.rs:190-234, 261-302; serve.rs:9-12).               *)
Sourced(text, requests) ==
    \A s \in Settings :
       text[s] = Default[s]
       \/ \E a \in requests : a.key \in Names(s) /\ a.value = text[s]

NothingUnasked ==
    /\ Sourced(file.text, asked) /\ Sourced(disk.text, asked)
    /\ \A p \in Proc : Sourced(profile[p], asked)

(* As long as no two commands overlap on it the file stays readable, and   *)
(* as long as no save is under way or has died half-way either, the file   *)
(* says what the sets so far asked for, each on top of the one before:     *)
(* nothing is lost without one of these causes                             *)
(* (profile.rs:155-187, config_cmd.rs:56-65).                              *)
QuietSavesHold ==
    /\ ~overlapped => Readable(file)
    /\ ~overlapped /\ ~cut /\ ~HalfSaved => Loaded(file) = expected

(* The mode of the file, which holds the API key, lets others read it only *)
(* while the save that created it is under way, or after that died and     *)
(* before the next save returns.  This speaks of the file's own mode; the  *)
(* 0700 that save has given its directory by then keeps others out as well *)
(* where it took effect (profile.rs:30-39, 173-187).                       *)
PublicOnlyWhileSaving ==
    file.state # "absent" /\ ~file.private
    => torn \/ \E p \in Proc : pc[p] \in {"opened", "written"}

(* The addresses a listener on bind answers at, as clients name them.      *)
ListensAt(bind) ==
    {bind} \cup UNION {{Loopback(q)} : q \in {r \in Port : bind \in Wildcards(r)}}

(* A client run without flags that read what the node's profile still said *)
(* when the node started, unreadable or half-saved as it may have been,    *)
(* reaches the node and carries its key, if the node was not told to       *)
(* listen elsewhere and does not speak TLS (client.rs:13-56, cli.rs:106).  *)
ClientFindsNode ==
    \A n, q \in Proc :
       /\ pc[n] = "serving" /\ pc[q] = "client" /\ seen[n] = seen[q]
       /\ config[n]["http-bind"] = profile[n]["http-bind"] /\ ~TlsOn(config[n])
       /\ target[q] = Resolve(profile[q], [addr |-> Unset, api_key |-> Unset])
       => /\ target[q].addr \in ListensAt(config[n]["http-bind"])
          /\ AuthOn(config[n]) => target[q].api_key = config[n]["api-key"]

(* "When set, EVERY client on every path must present the matching key"    *)
(* (config.rs:75-78): a node started after `config set api-key` returned   *)
(* requires the key, unless somebody asked for it to be removed.           *)
KeyEnforced ==
    \A p \in Proc :
       /\ pc[p] = "serving" /\ wanted[p]["api-key"] # ""
       /\ \A a \in asked : a.key \in Names("api-key") => a.value # ""
       => AuthOn(config[p])
=============================================================================
