------------------------------- MODULE Config -------------------------------
(***************************************************************************)
(* internal/config and the loadConfig of catalog_service, qrproxy and      *)
(* mobctl: how each program makes its settings from the environment, which *)
(* mobctl first extends by a file, line by line.                           *)
(*                                                                         *)
(*   base   the environment mobctl is started with                         *)
(*   file   the lines of its configuration file                            *)
(*   next   the line that LoadFile reads next                              *)
(*   env    the environment now                                            *)
(*   phase  "loading", "running", or "failed": a bad line or a refused     *)
(*          setting                                                        *)
(*                                                                         *)
(* A value stands for what is left of it after TrimSpace and Trim, "" for a *)
(* variable that is unset or blank.  The certificate paths, which are       *)
(* required alike, are one key; settings that are only passed on, and       *)
(* CATALOG_HTTP_MAX_UPLOAD_SIZE, which is read like MQTT_WORKERS, are left  *)
(* out.                                                                    *)
(***************************************************************************)
EXTENDS Naturals, Sequences

CONSTANTS Environments,   (* those mobctl can be started with               *)
          ConfigFiles     (* its configuration files                        *)

Lines == [kind : {"comment", "no pair", "pair"}, key : STRING, value : STRING]

ASSUME ConfigAssumption == ConfigFiles \subseteq Seq(Lines)

VARIABLES base, file, next, env, phase

configVars == <<base, file, next, env, phase>>

\* A line is a comment (or empty), has no "=", or is a pair, maybe without a key.
Comment == [kind |-> "comment", key |-> "", value |-> ""]
NoPair == [kind |-> "no pair", key |-> "", value |-> ""]
Pair(key, value) == [kind |-> "pair", key |-> key, value |-> value]

Bad(line) == line.kind = "no pair" \/ (line.kind = "pair" /\ line.key = "")

-----------------------------------------------------------------------------
(* Values: what the readers of a variable make of its text. *)

Optional(e, name, fallback) == IF e[name] = "" THEN fallback ELSE e[name]

Present(e, name) == e[name] # ""

\* RequiredAny: the first that is there.
FirstPresent(e, names) == SelectSeq(names, LAMBDA name : Present(e, name))

\* OptionalInt and OptionalDuration refuse what is not a number; 1 stands for
\* any that is positive.
Number(e, name, fallback) ==
  CASE e[name] = "" -> fallback [] e[name] = "zero" -> 0 [] OTHER -> 1

Parses(e, name) == e[name] # "word"

\* net.JoinHostPort puts an IPv6 literal into brackets; concatenation does not.
JoinHostPort(host, port) == <<IF host = "::1" THEN "[::1]" ELSE host, port>>
Concatenated(host, port) == <<host, port>>

-----------------------------------------------------------------------------
(* catalog_service *)

ServiceAccepts(e) ==
  /\ Present(e, "CATALOG_DB_PATH") /\ Present(e, "MQTT_HOST") /\ Present(e, "MQTT_PORT")
  /\ Present(e, "TLS")
  /\ Parses(e, "MQTT_WORKERS") /\ Parses(e, "CATALOG_IMPORT_TIMEOUT")
  /\ Number(e, "MQTT_WORKERS", 8) > 0
  /\ Optional(e, "CATALOG_IMPORT_ENDPOINT", "/catalog/import") # "catalog"

Service(e) ==
  [http |-> JoinHostPort(Optional(e, "CATALOG_HTTP_HOST", "0.0.0.0"),
                         Optional(e, "CATALOG_HTTP_PORT", "8443")),
   endpoint |-> Optional(e, "CATALOG_IMPORT_ENDPOINT", "/catalog/import"),
   timeout |-> Number(e, "CATALOG_IMPORT_TIMEOUT", 60),
   broker |-> <<Optional(e, "MQTT_PROTOCOL", "tcps"), JoinHostPort(e["MQTT_HOST"], e["MQTT_PORT"])>>]

-----------------------------------------------------------------------------
(* qrproxy: the port of the broker is a number, and printed again. *)

ProxyAccepts(e) ==
  /\ Present(e, "MQTT_PROTOCOL") /\ Present(e, "MQTT_HOST") /\ Present(e, "TLS")
  /\ FirstPresent(e, <<"QRPROXY_MQTT_TOPIC", "QTERM_MQTT_TOPIC">>) # <<>>
  /\ \A port \in {"PROXY_PORT", "MQTT_PORT"} : Parses(e, port) /\ Number(e, port, 0) > 0

Proxy(e) ==
  [topic |-> e[Head(FirstPresent(e, <<"QRPROXY_MQTT_TOPIC", "QTERM_MQTT_TOPIC">>))],
   broker |-> <<e["MQTT_PROTOCOL"], Concatenated(e["MQTT_HOST"], e["MQTT_PORT"])>>]

-----------------------------------------------------------------------------
(* mobctl *)

\* Mutant: the settings of the service are not looked at.
AcceptsAnyServer(e) == Parses(e, "CATALOG_IMPORT_TIMEOUT") /\ Present(e, "TLS")

\* The server's URL is given, or made of the service's settings; url.Parse takes
\* neither an IPv6 literal without brackets nor a port that is no number.
MobctlAccepts(e) ==
  /\ IF Present(e, "MOBCTL_SERVER_URL")
       THEN e["MOBCTL_SERVER_URL"] # "http"
       ELSE /\ Present(e, "CATALOG_HTTP_HOST") /\ Present(e, "CATALOG_HTTP_PORT")
            /\ e["CATALOG_HTTP_HOST"] \notin {"0.0.0.0", "::1"} /\ Parses(e, "CATALOG_HTTP_PORT")
  /\ Parses(e, "CATALOG_IMPORT_TIMEOUT") /\ Present(e, "TLS")

\* endpointURL trims the slashes and puts one.
Trimmed(endpoint) ==
  IF endpoint \in {"catalog", "/catalog", "//catalog"} THEN "/catalog" ELSE endpoint

\* Without a broker only the commands that need one fail.
Mobctl(e) ==
  [http |-> IF Present(e, "MOBCTL_SERVER_URL") THEN <<e["MOBCTL_SERVER_URL"], "">>
            ELSE Concatenated(e["CATALOG_HTTP_HOST"], e["CATALOG_HTTP_PORT"]),
   endpoint |-> Trimmed(Optional(e, "CATALOG_IMPORT_ENDPOINT", "/catalog/import")),
   timeout |-> Number(e, "CATALOG_IMPORT_TIMEOUT", 60),
   broker |->
     IF Present(e, "MOBCTL_MQTT_BROKER_URL") THEN <<e["MOBCTL_MQTT_BROKER_URL"]>>
     ELSE IF Present(e, "MQTT_HOST") /\ Present(e, "MQTT_PORT")
       THEN <<Optional(e, "MQTT_PROTOCOL", "tcps"), Concatenated(e["MQTT_HOST"], e["MQTT_PORT"])>>
     ELSE <<>>]

-----------------------------------------------------------------------------
(* LoadFile, and then loadConfig. *)

ConfigInit ==
  /\ base \in Environments /\ file \in ConfigFiles
  /\ next = 1 /\ env = base /\ phase = "loading"

More(kind) == phase = "loading" /\ next <= Len(file) /\ file[next].kind = kind

SkipComment == More("comment") /\ next' = next + 1 /\ UNCHANGED <<base, file, env, phase>>

\* Mutant: what is set already is kept, as most readers of .env files do.
KeepsPresent ==
  /\ More("pair") /\ file[next].key # ""
  /\ env' = [env EXCEPT ![file[next].key] = IF @ = "" THEN file[next].value ELSE @]
  /\ next' = next + 1
  /\ UNCHANGED <<base, file, phase>>

Setenv ==
  /\ More("pair") /\ file[next].key # ""
  /\ env' = [env EXCEPT ![file[next].key] = file[next].value]
  /\ next' = next + 1
  /\ UNCHANGED <<base, file, phase>>

\* No "=", or no key: main ends, with what the lines before have set.
RefuseLine ==
  /\ phase = "loading" /\ next <= Len(file) /\ Bad(file[next])
  /\ phase' = "failed"
  /\ UNCHANGED <<base, file, next, env>>

Load ==
  /\ phase = "loading" /\ next > Len(file)
  /\ phase' = IF MobctlAccepts(env) THEN "running" ELSE "failed"
  /\ UNCHANGED <<base, file, next, env>>

ConfigNext == SkipComment \/ Setenv \/ RefuseLine \/ Load

ConfigSpec == ConfigInit /\ [][ConfigNext]_configVars

-----------------------------------------------------------------------------
\* The lines that set a variable.
Setting(k) == {i \in DOMAIN file : file[i].kind = "pair" /\ file[i].key = k}

\* mobctl runs only with a file without a bad line, and then every variable has
\* the value of the last line that sets it, be that a blank one, or else the
\* value it was started with: the file wins over the environment.
LastLineWins ==
  phase = "running" =>
    /\ \A i \in DOMAIN file : ~Bad(file[i])
    /\ \A k \in DOMAIN env :
         IF Setting(k) = {} THEN env[k] = base[k]
         ELSE \E i \in Setting(k) :
                (\A j \in Setting(k) : j <= i) /\ env[k] = file[i].value

\* Programs that get the same settings, and accept them, find each other although
\* each reads and completes them in its own way: mobctl posts to where the
\* service listens, with the same limit, and all connect to the same broker.  Not
\* so with an IPv6 literal for the broker, which only the service brackets, with
\* an endpoint of two slashes, which only mobctl normalises, or with a URL of
\* mobctl's own.
ProgramsAgree ==
  phase = "running" /\ env["MQTT_HOST"] # "::1" =>
    LET ctl == Mobctl(env)
        own == \E k \in {"MOBCTL_SERVER_URL", "MOBCTL_MQTT_BROKER_URL"} : Present(env, k)
    IN /\ ServiceAccepts(env) =>
            /\ ctl.timeout = Service(env).timeout
            /\ env["CATALOG_IMPORT_ENDPOINT"] # "//catalog" => ctl.endpoint = Service(env).endpoint
            /\ ~own => ctl.http = Service(env).http /\ ctl.broker = Service(env).broker
       /\ ProxyAccepts(env) /\ ~own => ctl.broker = Proxy(env).broker
=============================================================================
