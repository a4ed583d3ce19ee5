----------------------------- MODULE MCSettings -----------------------------
(* SessionSettings for TLC.  Each environment and profile is here for a     *)
(* branch of the code it takes.                                             *)
EXTENDS SessionSettings, TLC

MCEnvs == {
  EmptySettings,
  "AFPSQL_SSH" :> "two",
  "AFPSQL_HOST" :> "two" @@ "AFPSQL_PORT" :> "bad" @@ "PGPORT" :> "two" @@ "PGSSLMODE" :> "bad",
  "AFPSQL_DSN_SECRET" :> "two" @@ "docker_runtime" :> "two",
  "kubectl_pod" :> "two" }

MCProfiles == {
  EmptySettings,
  "ssh" :> "one",
  "ssh" :> "one" @@ "ssh_via" :> "two" @@ "ssh_sudo_user" :> "one" @@ "host" :> "dir",
  "docker_name" :> "one" @@ "docker_runtime" :> "one",
  "compose_service" :> "one" @@ "ssh" :> "one" }

MCNamedProfiles == MCProfiles \ {EmptySettings}

MCPatchFields == {
  <<"dsn_secret", "many">>, <<"ssh", "one">>, <<"ssh", Null>>, <<"ssh_options", "bad">>,
  <<"docker_name", "one">>, <<"docker_runtime", "one">> }
=============================================================================
