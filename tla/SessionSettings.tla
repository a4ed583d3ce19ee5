--------------------------- MODULE SessionSettings ---------------------------
(***************************************************************************)
(* What a session's settings come to: which transport they select, whether *)
(* a request's permission admits it, and where the connection that is then *)
(* opened ends.  Settings arrive from argv, from a locked profile, from    *)
(* the process environment and from `config' lines, and five places judge  *)
(* them: transport_kind for the permission, the read-only policy, and the  *)
(* three connectors, each from its own reading of the fields.              *)
(*                                                                         *)
(* Sources: src/config.rs, src/types.rs, src/conn.rs,                      *)
(* src/readonly_policy.rs, the settings halves of src/ssh_transport.rs and *)
(* src/container_transport.rs, and their callers in src/pipe.rs,           *)
(* src/handler.rs, src/cli.rs and src/lib.rs.  A session here is idle      *)
(* between two requests; SessionFifo interleaves the requests.             *)
(***************************************************************************)
EXTENDS Naturals, FiniteSets

CONSTANTS
  Names,        \* session names, DefaultName among them
  DefaultName,  \* RuntimeConfig::default().default_session
  Envs,         \* process environments: partial functions on variable names
  Profiles,     \* settings argv or a locked profile gives: partial functions
  PatchFields,  \* <<field, value or Null>>: what a `config' line changes
  Trusted,      \* programs that pass a locked profile's ownership check
  MaxPatches    \* bound: accepted `config' lines in a behaviour

ASSUME SettingsConstants == DefaultName \in Names /\ MaxPatches \in Nat

(* A setting is a partial function from field names to values: a field that *)
(* is None is not in its domain.  user, dbname and password are resolved    *)
(* like host; ssh_local is the pair of removed tunnel fields.               *)
EndpointFields == {"dsn_secret", "conninfo_secret", "host", "port"}
SshFields == {"ssh", "ssh_via", "ssh_options", "ssh_local", "ssh_remote_socket",
              "ssh_sudo_user"}

(* One flag family per container driver, one field per option it has.       *)
Family ==
  [docker  |-> {"docker_name", "docker_user", "docker_context", "docker_runtime"},
   apple   |-> {"apple_name", "apple_user", "apple_runtime"},
   podman  |-> {"podman_name", "podman_user", "podman_runtime"},
   nerdctl |-> {"nerdctl_name", "nerdctl_user", "nerdctl_runtime"},
   compose |-> {"compose_service", "compose_user", "compose_files",
                "compose_project", "compose_runtime"},
   kubectl |-> {"kubectl_pod", "kubectl_container", "kubectl_namespace",
                "kubectl_context", "kubectl_runtime"}]
Drivers == DOMAIN Family
ContainerFields == UNION {Family[d] : d \in Drivers}
Fields == EndpointFields \cup SshFields \cup ContainerFields

DefaultRuntime ==
  [docker |-> "docker", apple |-> "container", podman |-> "podman",
   nerdctl |-> "nerdctl", compose |-> "docker", kubectl |-> "kubectl"]
TargetField ==
  [docker |-> "docker_name", apple |-> "apple_name", podman |-> "podman_name",
   nerdctl |-> "nerdctl_name", compose |-> "compose_service",
   kubectl |-> "kubectl_pod"]
RuntimeField ==
  [docker |-> "docker_runtime", apple |-> "apple_runtime",
   podman |-> "podman_runtime", nerdctl |-> "nerdctl_runtime",
   compose |-> "compose_runtime", kubectl |-> "kubectl_runtime"]

(* The values the code tells apart.  "bad" is what it refuses for the field: *)
(* a DSN with an unsupported TLS option, a blank or option-shaped host,      *)
(* hop, target or runtime, an SSH option off the read-only list.  "many" is  *)
(* a DSN with several hosts, "sockopt" one with options only a local socket  *)
(* honours, "dir" a Unix socket directory.                                   *)
Unset == "unset"
Null == "null"
Values == {"one", "two", "bad", "many", "sockopt", "dir", "docker", "container",
           "podman", "nerdctl", "kubectl", "127.0.0.1", "5432"}

(* What argv, a profile and the environment may give.                        *)
Settings(c) == DOMAIN c \subseteq Fields /\ \A f \in DOMAIN c : c[f] \in Values

ASSUME InputConstants ==
  /\ \A e \in Envs : \A v \in DOMAIN e : e[v] \in Values
  /\ \A given \in Profiles : Settings(given)
  /\ \A c \in PatchFields : c[1] \in Fields /\ c[2] \in Values \cup {Null}

EmptySettings == [f \in {} |-> Unset]
Get(c, f) == IF f \in DOMAIN c THEN c[f] ELSE Unset
Has(c, f) == f \in DOMAIN c
HasAny(c, fs) == \E f \in fs : Has(c, f)
OrElse(a, b) == IF a = Unset THEN b ELSE a

(* SessionConfig: the fields and profile_pinned, which no JSON can set.      *)
FromFlat(c) == [f |-> c, pinned |-> FALSE]
DefaultSession == FromFlat(EmptySettings)

-----------------------------------------------------------------------------
(* Transport and permission.                                               *)

SelectedDrivers(c) == {d \in Drivers : HasAny(c, Family[d])}

TransportKind(c) ==
  IF Cardinality(SelectedDrivers(c)) > 1 THEN "error"
  ELSE IF SelectedDrivers(c) # {} THEN "container"
  ELSE IF HasAny(c, SshFields) THEN "ssh"
  ELSE "direct"

Permissions == {"read", "write", "ssh-read", "ssh-write", "container-read",
                "container-write"}
IsReadOnly(p) == p \in {"read", "ssh-read", "container-read"}
AllowsSsh(p) == p \in {"ssh-read", "ssh-write"}
AllowsContainer(p) == p \in {"container-read", "container-write"}

(* resolve_options_for_session: the permission a request runs with, or       *)
(* "refused".  Omitting it means the read permission of the transport.       *)
ResolvePermission(c, requested) ==
  LET kind == TransportKind(c)
      p == IF requested # Unset THEN requested
           ELSE CASE kind = "ssh" -> "ssh-read"
                  [] kind = "container" -> "container-read"
                  [] OTHER -> "read"
      mismatch == \/ kind = "direct" /\ (AllowsSsh(p) \/ AllowsContainer(p))
                  \/ kind = "ssh" /\ ~AllowsSsh(p)
                  \/ kind = "container" /\ ~AllowsContainer(p)
  IN IF kind = "error" \/ mismatch THEN "refused" ELSE p

(* resolve_write_options_for_session, the check of a read-write begin.       *)
ResolveWritePermission(c, requested) ==
  LET p == ResolvePermission(c, requested)
  IN IF p # "refused" /\ IsReadOnly(p) THEN "refused" ELSE p

(* validate_session_with_trust: only a locked profile may name a container   *)
(* runtime, and SSH options keep to the allowlist in either case.            *)
SessionAllowed(c, trusted) ==
  /\ trusted \/ ~HasAny(c, {RuntimeField[d] : d \in Drivers})
  /\ Get(c, "ssh_options") # "bad"

-----------------------------------------------------------------------------
(* Where a connection ends.                                                *)

(* A variable that is set but empty counts as unset, and a pinned profile    *)
(* reads none.                                                               *)
Var(e, pinned, v) == IF ~pinned /\ v \in DOMAIN e THEN e[v] ELSE Unset

Refused == [by |-> "refused"]

(* validate_dsn_ssl_options, validate_conninfo_ssl_options, apply_sslmode and *)
(* the parser: a TLS mode afpsql cannot honour refuses the whole endpoint.   *)
Checked(source, host, port, sslmode) ==
  IF "bad" \in {host, sslmode} THEN Refused
  ELSE [by |-> source, host |-> host, port |-> port, sslmode |-> sslmode]

Endpoint(s, e) ==
  LET V(v) == Var(e, s.pinned, v)
      dsn == OrElse(Get(s.f, "dsn_secret"), V("AFPSQL_DSN_SECRET"))
      conninfo == OrElse(Get(s.f, "conninfo_secret"), V("AFPSQL_CONNINFO_SECRET"))
      host == OrElse(Get(s.f, "host"), OrElse(V("AFPSQL_HOST"), V("PGHOST")))
      Port(v) == IF V(v) = "bad" THEN Unset ELSE V(v)    \* parse().ok()
      port == OrElse(Get(s.f, "port"), OrElse(Port("AFPSQL_PORT"), Port("PGPORT")))
  IN IF dsn # Unset THEN Checked("dsn", dsn, Unset, Unset)
     ELSE IF conninfo # Unset THEN Checked("conninfo", conninfo, Unset, Unset)
     ELSE Checked("fields", OrElse(host, "127.0.0.1"), OrElse(port, "5432"), V("PGSSLMODE"))

(* resolve_single_postgres_endpoint: a bridge carries one connection.        *)
IsSingle(ep) == ep # Refused /\ ep.host # "many"
IsUnixSocket(ep) == ep.host = "dir"

(* trusted_program: a pinned profile runs no program off the caller's PATH.  *)
MayRun(s, program) == s.pinned => program \in Trusted

(* is_ssh_host_argument: ssh would read anything else as an option.          *)
IsArgument(v) == v # "bad"

(* Mutant: tunnel fields without `ssh' start no bridge, as `--ssh-via' alone *)
(* once did nothing.                                                         *)
SshSettingsQuiet(c) == IF Get(c, "ssh") = Unset THEN "none" ELSE "bridge"

(* needs_stdio_bridge is an error, never "no", for settings it refuses.      *)
SshSettings(c) ==
  IF ~HasAny(c, SshFields) THEN "none"
  ELSE IF \/ Get(c, "ssh") = Unset \/ ~IsArgument(Get(c, "ssh"))
          \/ ~IsArgument(Get(c, "ssh_via"))
          \/ Has(c, "ssh_local")
  THEN "error" ELSE "bridge"

(* validate_stdio_bridge_config: options of a local socket the bridge never  *)
(* opens are refused rather than ignored.                                    *)
NeedsLocalSocket(ep) == ep.host = "sockopt"

(* bridge_target: a named socket replaces the endpoint, and sudo needs a     *)
(* Unix socket on the far side.                                              *)
BridgeTarget(s, ep) ==
  LET socket == Get(s.f, "ssh_remote_socket")
  IN IF socket # Unset THEN socket
     ELSE IF Has(s.f, "ssh_sudo_user") /\ ~IsUnixSocket(ep) THEN Refused
     ELSE ep

(* build_bridge_ssh_args: the first host is reached with the caller's        *)
(* options, the next one from there and with none of them.                   *)
SshChain(s) ==
  LET hosts == IF Has(s.f, "ssh_via") THEN <<s.f["ssh_via"], s.f["ssh"]>>
                                      ELSE <<s.f["ssh"]>>
  IN [i \in DOMAIN hosts |->
        [host |-> hosts[i],
         options |-> IF i = 1 THEN Get(s.f, "ssh_options") ELSE Unset]]

(* remote_stream_bridge_command, what the last host runs and as whom.        *)
StreamBridge(s, ep) == [as |-> Get(s.f, "ssh_sudo_user"), to |-> BridgeTarget(s, ep)]

(* ssh_transport::connect_stdio_bridge, up to the process it starts.         *)
SshRoute(s, ep) ==
  IF \/ ~IsSingle(ep)
     \/ NeedsLocalSocket(ep)
     \/ BridgeTarget(s, ep) = Refused
     \/ ~MayRun(s, "ssh")
  THEN Refused
  ELSE [by |-> "ssh", chain |-> SshChain(s), runs |-> StreamBridge(s, ep),
        endpoint |-> ep]

(* container_config_with_env: each unset field from a variable of its name.  *)
WithContainerEnv(s, e) ==
  LET set == {f \in ContainerFields :
                OrElse(Get(s.f, f), Var(e, s.pinned, f)) # Unset}
  IN [f \in set |-> OrElse(Get(s.f, f), Var(e, s.pinned, f))]

Runtime(c, d) == OrElse(Get(c, RuntimeField[d]), DefaultRuntime[d])

(* resolve_container_settings: one family with its target named, nothing     *)
(* option-shaped, and no SSH setting that only the other bridge honours.     *)
ContainerSettingsHold(s, c, hop) ==
  /\ Cardinality(SelectedDrivers(c)) = 1
  /\ \A d \in SelectedDrivers(c) :
       /\ Has(c, TargetField[d]) /\ IsArgument(c[TargetField[d]])
       /\ IsArgument(Runtime(c, d))
  /\ IsArgument(hop)
  /\ hop = Unset => ~Has(s.f, "ssh_options")
  /\ ~HasAny(s.f, SshFields \ {"ssh", "ssh_options"})

(* build_container_exec_args: every option of the family finds its place.    *)
ExecArgs(c, d) == [f \in (Family[d] \cap DOMAIN c) \ {RuntimeField[d]} |-> c[f]]

(* build_bridge_process: the runtime, or an ssh that runs it elsewhere.      *)
BridgeProgram(c, d, hop) == IF hop # Unset THEN "ssh" ELSE Runtime(c, d)

(* container_transport::connect_stdio_bridge, up to the process it starts.   *)
ContainerRoute(s, e) ==
  LET c == WithContainerEnv(s, e)
      hop == OrElse(Get(s.f, "ssh"), Var(e, s.pinned, "AFPSQL_SSH"))
      d == CHOOSE x \in SelectedDrivers(c) : TRUE
      ep == Endpoint(s, e)
  IN IF \/ ~ContainerSettingsHold(s, c, hop)
        \/ ~IsSingle(ep)
        \/ ~MayRun(s, BridgeProgram(c, d, hop))
     THEN Refused
     ELSE [by |-> "container", hop |-> hop, options |-> Get(s.f, "ssh_options"),
           program |-> BridgeProgram(c, d, hop), runtime |-> Runtime(c, d),
           exec |-> ExecArgs(c, d), endpoint |-> ep]

(* connect_session: a refused bridge ends the attempt.                       *)
Route(s, e) ==
  LET ep == Endpoint(s, e)
  IN CASE TransportKind(s.f) = "error" -> Refused
       [] TransportKind(s.f) = "container" -> ContainerRoute(s, e)
       [] OTHER ->
            IF ep = Refused \/ SshSettings(s.f) = "error" THEN Refused
            ELSE IF SshSettings(s.f) = "bridge" THEN SshRoute(s, ep)
            ELSE [by |-> "direct", endpoint |-> ep]

-----------------------------------------------------------------------------
(* The pipe of afpsql or afpsql-readonly.                                  *)

VARIABLES
  env,          \* the process environment, fixed
  readonly,     \* App.capability = ReadOnly
  locked,       \* App.locked_readonly_profile
  profile,      \* the session configuration pipe::run was given (history)
  sessions,     \* RuntimeConfig.sessions, a partial function on Names
  default,      \* RuntimeConfig.default_session
  conn,         \* conn[n]: the route of the open connection, or NoRoute
  last,         \* the last request that reached the executor
  patches       \* `config' lines accepted

vars == <<env, readonly, locked, profile, sessions, default, conn, last, patches>>
process == <<env, readonly, locked, profile>>

NoRoute == [by |-> "none"]
NoRequest == [op |-> "none", session |-> DefaultName, perm |-> "read",
              route |-> NoRoute]

SshEnv == [ssh |-> "AFPSQL_SSH", ssh_via |-> "AFPSQL_SSH_VIA",
           ssh_remote_socket |-> "AFPSQL_SSH_REMOTE_SOCKET",
           ssh_sudo_user |-> "AFPSQL_SSH_SUDO_USER"]

(* connection_from: argv, then the environment for the transport fields.     *)
FromInvocation(args, e) ==
  LET withSsh == [f \in DOMAIN args \cup {g \in DOMAIN SshEnv : SshEnv[g] \in DOMAIN e} |->
                    IF f \in DOMAIN args THEN args[f] ELSE e[SshEnv[f]]]
      container == WithContainerEnv(FromFlat(args), e)
  IN [f \in DOMAIN withSsh \cup DOMAIN container |->
        IF f \in DOMAIN container THEN container[f] ELSE withSsh[f]]

(* load_locked_profile, then lib::run pins what it returned.                 *)
FromProfile(json) == [FromFlat(json) EXCEPT !.pinned = TRUE]

(* has_session_override: a session without any field keeps the built-in one. *)
HasOverride(s) == HasAny(s.f, Fields)

(* lib::run and pipe::run; what they refuse never becomes a pipe.            *)
Init ==
  /\ env \in Envs
  /\ readonly \in BOOLEAN /\ locked \in BOOLEAN
  /\ locked => readonly
  /\ \E given \in Profiles :
       profile = IF locked THEN FromProfile(given)
                 ELSE FromFlat(FromInvocation(given, env))
  /\ ~locked => Cardinality(SelectedDrivers(profile.f)) <= 1
  /\ readonly => SessionAllowed(profile.f, locked)
  /\ sessions = [n \in {DefaultName} |->
                   IF HasOverride(profile) THEN profile ELSE DefaultSession]
  /\ default = DefaultName
  /\ conn = [n \in Names |-> NoRoute]
  /\ last = NoRequest
  /\ patches = 0

(* PatchField: a field that is Missing is not in the patch, a null clears.   *)
Clears(p) == {f \in DOMAIN p : p[f] = Null}

Patched(s, p) ==
  LET kept == (DOMAIN s.f \cup DOMAIN p) \ Clears(p)
  IN [s EXCEPT !.f = [f \in kept |-> IF f \in DOMAIN p THEN p[f] ELSE s.f[f]]]

(* Mutant: a patch only writes the sessions that exist.                      *)
ApplyUpdateNoInsert(p) ==
  [n \in DOMAIN sessions |->
     IF n \in DOMAIN p.sessions THEN Patched(sessions[n], p.sessions[n]) ELSE sessions[n]]

NewDefault(p) == OrElse(p.default, default)

ApplyUpdate(p) ==
  LET entry(n) == IF n \in DOMAIN sessions THEN sessions[n] ELSE DefaultSession
  IN [n \in DOMAIN sessions \cup DOMAIN p.sessions \cup {NewDefault(p)} |->
        IF n \in DOMAIN p.sessions THEN Patched(entry(n), p.sessions[n]) ELSE entry(n)]

(* Mutant: only a change of the default session is followed by Invalidate.   *)
InvalidateDefaultOnly(p) == {p.default} \ {Unset}

SessionsToInvalidate(p) == ({p.default} \ {Unset}) \cup DOMAIN p.sessions

(* A patch: a new default session, or one field of one session.              *)
NoSessions == [n \in {} |-> EmptySettings]
FieldPatch(n, c) == [m \in {n} |-> [g \in {c[1]} |-> c[2]]]
Patches ==
  {[default |-> d, sessions |-> NoSessions] : d \in Names}
  \cup {[default |-> Unset, sessions |-> FieldPatch(n, c)] : n \in Names, c \in PatchFields}

(* Input::Config with room in every channel: checked, installed and followed *)
(* by an Invalidate for each session it names.                               *)
Config ==
  \E p \in Patches :
    LET snapshot == ApplyUpdate(p)
    IN /\ patches < MaxPatches
       /\ ~(readonly /\ locked /\ p.sessions # NoSessions)
       /\ readonly => \A n \in DOMAIN snapshot : SessionAllowed(snapshot[n].f, FALSE)
       /\ sessions' = snapshot
       /\ default' = NewDefault(p)
       /\ conn' = [n \in Names |-> IF n \in SessionsToInvalidate(p) THEN NoRoute ELSE conn[n]]
       /\ last' = NoRequest
       /\ patches' = patches + 1
       /\ UNCHANGED process

(* ensure_connected: the open connection, or a new one from the settings the *)
(* request was accepted with.                                                *)
Reach(n, s) == IF conn[n] # NoRoute THEN conn[n] ELSE Route(s, env)

Execute(op, n, perm) ==
  LET reached == Reach(n, sessions[n])
  IN /\ conn' = [conn EXCEPT ![n] = IF reached = Refused THEN NoRoute ELSE reached]
     /\ last' = [op |-> op, session |-> n, perm |-> perm, route |-> reached]
     /\ UNCHANGED <<process, sessions, default, patches>>

Known(requested) == OrElse(requested, default) \in DOMAIN sessions

(* execute_query up to the executor.  What afpsql-readonly then says of the  *)
(* SQL itself is left out.                                                   *)
Query ==
  \E requested \in Names \cup {Unset}, asked \in Permissions \cup {Unset} :
    LET n == OrElse(requested, default)
        perm == ResolvePermission(sessions[n].f, asked)
    IN /\ Known(requested)
       /\ perm # "refused"
       /\ readonly => SessionAllowed(sessions[n].f, locked) /\ IsReadOnly(perm)
       /\ Execute("query", n, perm)

(* dispatch_begin and the worker's tx_begin; a read-only begin is admitted   *)
(* whatever permission it names.                                             *)
Begin ==
  \E requested \in Names \cup {Unset}, asked \in Permissions \cup {Unset},
     ro \in BOOLEAN :
    LET n == OrElse(requested, default)
    IN /\ readonly => ro /\ (asked # Unset => IsReadOnly(asked))
       /\ Known(requested)
       /\ readonly => SessionAllowed(sessions[n].f, locked)
       /\ ~ro => ResolveWritePermission(sessions[n].f, asked) # "refused"
       /\ Execute("begin", n, IF ro THEN Unset ELSE asked)

(* handle_session_info: its probe runs with the transport's read permission. *)
SessionInfo ==
  \E requested \in Names \cup {Unset} :
    LET n == OrElse(requested, default)
        perm == ResolvePermission(sessions[n].f, Unset)
    IN /\ Known(requested)
       /\ perm # "refused"
       /\ Execute("info", n, perm)

(* The connection ends; the next request opens another.                      *)
ConnectionLost ==
  \E n \in Names :
    /\ conn[n] # NoRoute
    /\ conn' = [conn EXCEPT ![n] = NoRoute]
    /\ last' = NoRequest
    /\ UNCHANGED <<process, sessions, default, patches>>

Next == Config \/ Query \/ Begin \/ SessionInfo \/ ConnectionLost

Spec == Init /\ [][Next]_vars

-----------------------------------------------------------------------------
(* Properties.                                                             *)

(* The sessions hold known fields, the default session exists, and a         *)
(* connection is only ever open to a place that was not refused.             *)
TypeOK ==
  /\ default \in DOMAIN sessions /\ DOMAIN sessions \subseteq Names
  /\ \A n \in DOMAIN sessions : Settings(sessions[n].f) /\ sessions[n].pinned \in BOOLEAN
  /\ DOMAIN conn = Names
  /\ \A n \in Names : conn[n].by \in {"none", "direct", "ssh", "container"}
  /\ last.op \in {"none", "query", "begin", "info"}
  /\ patches \in 0 .. MaxPatches

(* A request that reaches the executor crosses exactly the transport its     *)
(* permission names: `read' never starts an ssh, `ssh-read' never reaches a  *)
(* server directly, also on a connection that was opened before.             *)
Transport(p) == IF AllowsSsh(p) THEN "ssh"
                ELSE IF AllowsContainer(p) THEN "container" ELSE "direct"
PermissionCoversRoute ==
  (last.op # "none" /\ last.perm # Unset /\ last.route # Refused) =>
    last.route.by = Transport(last.perm)

(* An open connection goes where a connection opened now would go, every     *)
(* `config' line that moves a session also drops its connection, and for a   *)
(* pinned session that place is the same under every environment.            *)
ConnectionFollowsSettings ==
  \A n \in Names :
    conn[n] # NoRoute =>
      /\ n \in DOMAIN sessions
      /\ conn[n] = Route(sessions[n], IF sessions[n].pinned THEN EmptySettings ELSE env)

(* "A locked profile is also the whole connection: it reads none of the      *)
(* connection environment variables" (docs/reference.md:117).                *)
LockedProfileIsTheConnection ==
  (locked /\ last.op # "none") =>
    last.route \in {Refused, Route(profile, EmptySettings)}
=============================================================================
