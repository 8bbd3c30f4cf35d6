------------------------------ MODULE MCConfig ------------------------------
(* Config for TLC: every combination of a few values for each variable, and   *)
(* short files that set one of them twice, blank another, or end badly.       *)
EXTENDS Config, TLC

Fixed == ("CATALOG_DB_PATH" :> "db") @@ ("TLS" :> "paths") @@ ("PROXY_PORT" :> "9100")
         @@ ("QRPROXY_MQTT_TOPIC" :> "") @@ ("QTERM_MQTT_TOPIC" :> "qterm")

HttpSettings ==
  {("MOBCTL_SERVER_URL" :> url) @@ ("CATALOG_HTTP_HOST" :> host)
     @@ ("CATALOG_HTTP_PORT" :> port) @@ ("CATALOG_IMPORT_ENDPOINT" :> endpoint)
     @@ ("CATALOG_IMPORT_TIMEOUT" :> timeout) :
   url \in {"", "http", "https"}, host \in {"", "0.0.0.0", "mob", "::1"},
   port \in {"", "8443", "word"}, endpoint \in {"", "catalog", "/catalog", "//catalog"},
   timeout \in {"", "zero", "word"}}

MqttSettings ==
  {("MOBCTL_MQTT_BROKER_URL" :> url) @@ ("MQTT_PROTOCOL" :> protocol)
     @@ ("MQTT_HOST" :> host) @@ ("MQTT_PORT" :> port) @@ ("MQTT_WORKERS" :> workers) :
   url \in {"", "url"}, protocol \in {"", "tcp"}, host \in {"", "mob", "::1"},
   port \in {"8883", "zero", "word"}, workers \in {"", "zero"}}

MCEnvironments == {http @@ mqtt @@ Fixed : http \in HttpSettings, mqtt \in MqttSettings}

MCFiles ==
  {<<>>,
   <<Pair("CATALOG_HTTP_HOST", "0.0.0.0"), Comment, Pair("CATALOG_HTTP_HOST", "mob")>>,
   <<Pair("MQTT_PORT", ""), Pair("CATALOG_IMPORT_ENDPOINT", "")>>,
   <<Pair("MOBCTL_SERVER_URL", "https"), NoPair>>,
   <<Pair("", "x"), Comment>>}
=============================================================================
