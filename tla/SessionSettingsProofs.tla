------------------------- MODULE SessionSettingsProofs -------------------------
(***************************************************************************)
(* Theorems about SessionSettings, for any names, environments, profiles   *)
(* and patches.                                                            *)
(***************************************************************************)
EXTENDS SessionSettings, TLAPS

-----------------------------------------------------------------------------
(* Where a route ends.                                                      *)

LEMMA SshFieldsAgree ==
  ASSUME NEW c
  PROVE  (SshSettings(c) = "none") <=> ~HasAny(c, SshFields)
  BY DEF SshSettings

LEMMA KindIsOneOf ==
  ASSUME NEW c
  PROVE  /\ TransportKind(c) \in {"error", "container", "ssh", "direct"}
         /\ TransportKind(c) = "ssh" => HasAny(c, SshFields)
         /\ TransportKind(c) = "direct" => ~HasAny(c, SshFields)
  BY DEF TransportKind

(* The connectors pick the bridge transport_kind named, or refuse: what the  *)
(* three places that read the transport fields decide is one decision.       *)
LEMMA RouteIsItsKind ==
  ASSUME NEW s, NEW e
  PROVE  Route(s, e) = Refused \/ Route(s, e).by = TransportKind(s.f)
<1>1. CASE TransportKind(s.f) = "error"
  BY <1>1 DEF Route
<1>2. CASE TransportKind(s.f) = "container"
  <2>1. Route(s, e) = ContainerRoute(s, e)
    BY <1>2 DEF Route
  <2>2. ContainerRoute(s, e) = Refused \/ ContainerRoute(s, e).by = "container"
    BY DEF ContainerRoute
  <2> QED
    BY <1>2, <2>1, <2>2
<1>3. CASE TransportKind(s.f) = "ssh"
  <2>1. SshSettings(s.f) \in {"error", "bridge"}
    BY <1>3, KindIsOneOf DEF SshSettings
  <2>2. Route(s, e) = Refused \/ Route(s, e) = SshRoute(s, Endpoint(s, e))
    BY <1>3, <2>1 DEF Route
  <2>3. SshRoute(s, Endpoint(s, e)) = Refused \/ SshRoute(s, Endpoint(s, e)).by = "ssh"
    BY DEF SshRoute
  <2> QED
    BY <1>3, <2>2, <2>3
<1>4. CASE TransportKind(s.f) = "direct"
  <2>1. SshSettings(s.f) = "none"
    BY <1>4, KindIsOneOf, SshFieldsAgree
  <2>2. Route(s, e) = Refused \/ Route(s, e) = [by |-> "direct", endpoint |-> Endpoint(s, e)]
    BY <1>4, <2>1 DEF Route
  <2> QED
    BY <1>4, <2>2
<1> QED
  BY <1>1, <1>2, <1>3, <1>4, KindIsOneOf

(* A pinned session reads no variable, wherever its settings are resolved.   *)
LEMMA PinnedReadsNothing ==
  ASSUME NEW s, s.pinned, NEW e
  PROVE  Route(s, e) = Route(s, EmptySettings)
<1>1. \A v : Var(e, s.pinned, v) = Unset /\ Var(EmptySettings, s.pinned, v) = Unset
  BY DEF Var
<1>2. Endpoint(s, e) = Endpoint(s, EmptySettings)
  BY <1>1 DEF Endpoint
<1>3. WithContainerEnv(s, e) = WithContainerEnv(s, EmptySettings)
  BY <1>1 DEF WithContainerEnv
<1>4. ContainerRoute(s, e) = ContainerRoute(s, EmptySettings)
  BY <1>1, <1>2, <1>3 DEF ContainerRoute
<1> QED
  BY <1>2, <1>4 DEF Route

-----------------------------------------------------------------------------
(* An open connection is a route of its session as it is configured now.     *)

NamesInv ==
  /\ default \in DOMAIN sessions /\ DOMAIN sessions \subseteq Names
  /\ DOMAIN conn = Names

RoutesInv ==
  \A n \in Names : conn[n] # NoRoute =>
    n \in DOMAIN sessions /\ conn[n] = Route(sessions[n], env)

(* The last request crossed the transport its session selects.               *)
LastInv ==
  last.op # "none" =>
    /\ last.route = Refused \/ last.route.by = TransportKind(sessions[last.session].f)
    /\ last.perm # Unset =>
         TransportKind(sessions[last.session].f) = Transport(last.perm)

SettingsInv == NamesInv /\ RoutesInv /\ LastInv

LEMMA InitSettings == Init => SettingsInv
  BY SettingsConstants DEF Init, SettingsInv, NamesInv, RoutesInv, LastInv, NoRequest

(* A permission that is not refused names its session's transport.           *)
LEMMA PermissionNamesTransport ==
  ASSUME NEW c, NEW asked \in Permissions \cup {Unset},
         ResolvePermission(c, asked) # "refused"
  PROVE  /\ TransportKind(c) = Transport(ResolvePermission(c, asked))
         /\ ResolvePermission(c, asked) \in Permissions
         /\ asked # Unset => ResolvePermission(c, asked) = asked
<1> DEFINE kind == TransportKind(c)
           p == ResolvePermission(c, asked)
<1>1. kind \in {"error", "container", "ssh", "direct"}
  BY KindIsOneOf
<1>2. asked # Unset => asked \in Permissions
  OBVIOUS
<1>3. kind # "error"
  BY DEF ResolvePermission
<1>4. CASE asked # Unset
  <2>1. p = asked /\ /\ ~(kind = "direct" /\ (AllowsSsh(p) \/ AllowsContainer(p)))
                     /\ ~(kind = "ssh" /\ ~AllowsSsh(p))
                     /\ ~(kind = "container" /\ ~AllowsContainer(p))
    BY <1>4 DEF ResolvePermission
  <2>2. ~(AllowsSsh(p) /\ AllowsContainer(p))
    BY DEF AllowsSsh, AllowsContainer
  <2> QED
    BY <1>1, <1>2, <1>3, <1>4, <2>1, <2>2 DEF Transport
<1>5. CASE asked = Unset
  <2>1. CASE kind = "ssh"
    BY <1>5, <2>1 DEF ResolvePermission, Transport, AllowsSsh, Permissions
  <2>2. CASE kind = "container"
    BY <1>5, <2>2 DEF ResolvePermission, Transport, AllowsSsh, AllowsContainer,
       Permissions
  <2>3. CASE kind = "direct"
    BY <1>5, <2>3 DEF ResolvePermission, Transport, AllowsSsh, AllowsContainer,
       Permissions
  <2> QED
    BY <1>1, <1>3, <2>1, <2>2, <2>3
<1> QED
  BY <1>4, <1>5

LEMMA ExecuteStep ==
  ASSUME SettingsInv, NEW op, NEW n \in DOMAIN sessions, NEW perm,
         Execute(op, n, perm),
         perm # Unset => TransportKind(sessions[n].f) = Transport(perm)
  PROVE  SettingsInv'
<1> DEFINE reached == Reach(n, sessions[n])
<1>1. /\ conn' = [conn EXCEPT ![n] = IF reached = Refused THEN NoRoute ELSE reached]
      /\ last' = [op |-> op, session |-> n, perm |-> perm, route |-> reached]
      /\ sessions' = sessions /\ default' = default /\ env' = env
  BY DEF Execute, process
<1>2. n \in Names /\ DOMAIN conn = Names
  BY DEF SettingsInv, NamesInv
<1>3. reached = Route(sessions[n], env)
  BY <1>2 DEF Reach, SettingsInv, RoutesInv
<1> HIDE DEF reached
<1>4. NamesInv'
  BY <1>1, <1>2 DEF SettingsInv, NamesInv
<1>5. RoutesInv'
  BY <1>1, <1>2, <1>3 DEF SettingsInv, RoutesInv
<1>6. LastInv'
  <2>1. last'.session = n /\ last'.route = reached /\ last'.perm = perm
    BY <1>1
  <2>2. reached = Refused \/ reached.by = TransportKind(sessions[n].f)
    BY <1>3, RouteIsItsKind
  <2> QED
    BY <1>1, <2>1, <2>2 DEF LastInv
<1> QED
  BY <1>4, <1>5, <1>6 DEF SettingsInv

LEMMA ConfigStep == ASSUME SettingsInv, Config PROVE SettingsInv'
<1>1. PICK p \in Patches :
        /\ sessions' = ApplyUpdate(p)
        /\ default' = NewDefault(p)
        /\ conn' = [n \in Names |-> IF n \in SessionsToInvalidate(p) THEN NoRoute ELSE conn[n]]
        /\ last' = NoRequest /\ env' = env
  BY DEF Config, process
<1>2. DOMAIN p.sessions \subseteq Names /\ NewDefault(p) \in Names
  <2>1. default \in Names
    BY DEF SettingsInv, NamesInv
  <2>2. CASE \E d \in Names : p = [default |-> d, sessions |-> NoSessions]
    BY <2>1, <2>2 DEF NoSessions, NewDefault, OrElse
  <2>3. CASE \E n \in Names, c \in PatchFields :
               p = [default |-> Unset, sessions |-> FieldPatch(n, c)]
    BY <2>1, <2>3 DEF FieldPatch, NewDefault, OrElse
  <2> QED
    BY <2>2, <2>3 DEF Patches
<1>3. /\ DOMAIN sessions' = DOMAIN sessions \cup DOMAIN p.sessions \cup {NewDefault(p)}
      /\ \A n \in DOMAIN sessions : n \notin DOMAIN p.sessions => sessions'[n] = sessions[n]
  BY <1>1 DEF ApplyUpdate
<1>4. NamesInv'
  BY <1>1, <1>2, <1>3 DEF SettingsInv, NamesInv
<1>5. RoutesInv'
  <2> SUFFICES ASSUME NEW n \in Names, conn'[n] # NoRoute
      PROVE  n \in DOMAIN sessions' /\ conn'[n] = Route(sessions'[n], env')
    BY DEF RoutesInv
  <2>1. n \notin SessionsToInvalidate(p) /\ conn'[n] = conn[n]
    BY <1>1
  <2>2. n \in DOMAIN sessions /\ conn[n] = Route(sessions[n], env)
    BY <2>1 DEF SettingsInv, RoutesInv
  <2>3. n \notin DOMAIN p.sessions
    BY <2>1 DEF SessionsToInvalidate
  <2> QED
    BY <1>1, <1>3, <2>1, <2>2, <2>3
<1>6. LastInv'
  BY <1>1 DEF LastInv, NoRequest
<1> QED
  BY <1>4, <1>5, <1>6 DEF SettingsInv

LEMMA NextSettings == ASSUME SettingsInv, [Next]_vars PROVE SettingsInv'
<1>1. CASE UNCHANGED vars
  BY <1>1 DEF vars, process, SettingsInv, NamesInv, RoutesInv, LastInv
<1>2. CASE Config
  BY <1>2, ConfigStep
<1>3. CASE Query
  <2>1. PICK requested \in Names \cup {Unset}, asked \in Permissions \cup {Unset} :
          /\ Known(requested)
          /\ ResolvePermission(sessions[OrElse(requested, default)].f, asked) # "refused"
          /\ Execute("query", OrElse(requested, default),
                     ResolvePermission(sessions[OrElse(requested, default)].f, asked))
    BY <1>3 DEF Query
  <2> DEFINE n == OrElse(requested, default)
             perm == ResolvePermission(sessions[n].f, asked)
  <2>2. n \in DOMAIN sessions
    BY <2>1 DEF Known
  <2>3. TransportKind(sessions[n].f) = Transport(perm)
    BY <2>1, PermissionNamesTransport
  <2> QED
    BY <2>1, <2>2, <2>3, ExecuteStep
<1>4. CASE Begin
  <2>1. PICK requested \in Names \cup {Unset}, asked \in Permissions \cup {Unset},
             ro \in BOOLEAN :
          /\ Known(requested)
          /\ ~ro => ResolveWritePermission(sessions[OrElse(requested, default)].f, asked) # "refused"
          /\ Execute("begin", OrElse(requested, default), IF ro THEN Unset ELSE asked)
    BY <1>4 DEF Begin
  <2> DEFINE n == OrElse(requested, default)
             perm == IF ro THEN Unset ELSE asked
  <2>2. n \in DOMAIN sessions
    BY <2>1 DEF Known
  <2>3. perm # Unset => TransportKind(sessions[n].f) = Transport(perm)
    <3>1. CASE ro
      BY <3>1
    <3>2. CASE ~ro
      <4>1. ResolvePermission(sessions[n].f, asked) # "refused"
        BY <2>1, <3>2 DEF ResolveWritePermission
      <4> QED
        BY <3>2, <4>1, PermissionNamesTransport
    <3> QED
      BY <3>1, <3>2
  <2> QED
    BY <2>1, <2>2, <2>3, ExecuteStep
<1>5. CASE SessionInfo
  <2>1. PICK requested \in Names \cup {Unset} :
          /\ Known(requested)
          /\ ResolvePermission(sessions[OrElse(requested, default)].f, Unset) # "refused"
          /\ Execute("info", OrElse(requested, default),
                     ResolvePermission(sessions[OrElse(requested, default)].f, Unset))
    BY <1>5 DEF SessionInfo
  <2>2. OrElse(requested, default) \in DOMAIN sessions
    BY <2>1 DEF Known
  <2> QED
    BY <2>1, <2>2, ExecuteStep, PermissionNamesTransport
<1>6. CASE ConnectionLost
  <2>1. PICK n \in Names : conn' = [conn EXCEPT ![n] = NoRoute]
    BY <1>6 DEF ConnectionLost
  <2>2. last' = NoRequest /\ sessions' = sessions /\ default' = default /\ env' = env
    BY <1>6 DEF ConnectionLost, process
  <2>3. NamesInv' /\ RoutesInv'
    BY <2>1, <2>2 DEF SettingsInv, NamesInv, RoutesInv
  <2> QED
    BY <2>2, <2>3 DEF SettingsInv, LastInv, NoRequest
<1> QED
  BY <1>1, <1>2, <1>3, <1>4, <1>5, <1>6 DEF Next

LEMMA SettingsAlways == Spec => []SettingsInv
<1> QED
  BY InitSettings, NextSettings, PTL DEF Spec

(* A request that reaches the executor crosses exactly the transport its     *)
(* permission names, also on a connection that was opened before            *)
(* (resolve_options_for_session against connect_session).                   *)
THEOREM PermissionIsTransport == Spec => []PermissionCoversRoute
<1>1. SettingsInv => PermissionCoversRoute
  BY DEF SettingsInv, LastInv, PermissionCoversRoute
<1> QED
  BY <1>1, SettingsAlways, PTL

(* An open connection goes where a connection opened now would go, and a     *)
(* pinned session's goes there under every environment (pipe.rs follows a   *)
(* patch with an Invalidate for each session it names; conn.rs reads no      *)
(* variable for a pinned profile).                                           *)
THEOREM ConnectionIsConfigured == Spec => []ConnectionFollowsSettings
<1>1. SettingsInv => ConnectionFollowsSettings
  <2> SUFFICES ASSUME SettingsInv, NEW n \in Names, conn[n] # NoRoute
      PROVE  /\ n \in DOMAIN sessions
             /\ conn[n] = Route(sessions[n],
                                IF sessions[n].pinned THEN EmptySettings ELSE env)
    BY DEF ConnectionFollowsSettings
  <2>1. n \in DOMAIN sessions /\ conn[n] = Route(sessions[n], env)
    BY DEF SettingsInv, RoutesInv
  <2>2. CASE sessions[n].pinned
    BY <2>1, <2>2, PinnedReadsNothing
  <2>3. CASE ~sessions[n].pinned
    BY <2>1, <2>3
  <2> QED
    BY <2>2, <2>3
<1> QED
  BY <1>1, SettingsAlways, PTL

-----------------------------------------------------------------------------
(* Types.                                                                   *)

SessionOK(s) ==
  s = [f |-> s.f, pinned |-> s.pinned] /\ Settings(s.f) /\ s.pinned \in BOOLEAN

SessionsOK ==
  /\ env \in Envs
  /\ \A n \in DOMAIN sessions : SessionOK(sessions[n])

OpenOK == \A n \in Names : conn[n].by \in {"none", "direct", "ssh", "container"}

CountsOK ==
  /\ last.op \in {"none", "query", "begin", "info"}
  /\ patches \in 0 .. MaxPatches

(* A field the environment gives is a field of its session, with a value.    *)
LEMMA ContainerEnvIsSettings ==
  ASSUME NEW e \in Envs, NEW c, Settings(c)
  PROVE  Settings(WithContainerEnv(FromFlat(c), e))
<1> DEFINE s == FromFlat(c)
           w == WithContainerEnv(s, e)
<1>1. s.f = c /\ s.pinned = FALSE
  BY DEF FromFlat
<1>2. \A f : Get(c, f) = Unset \/ Get(c, f) \in Values
  BY DEF Get, Settings
<1>3. \A f : Var(e, FALSE, f) = Unset \/ Var(e, FALSE, f) \in Values
  BY InputConstants DEF Var
<1>4. /\ DOMAIN w \subseteq ContainerFields
      /\ \A f \in DOMAIN w : w[f] = OrElse(Get(c, f), Var(e, FALSE, f)) /\ w[f] # Unset
  BY <1>1 DEF WithContainerEnv
<1>5. \A f \in DOMAIN w : w[f] \in Values
  BY <1>2, <1>3, <1>4 DEF OrElse
<1> HIDE DEF w
<1>6. Settings(w)
  BY <1>4, <1>5 DEF Settings, Fields
<1> QED
  BY <1>6 DEF w

LEMMA InvocationIsSettings ==
  ASSUME NEW e \in Envs, NEW args, Settings(args)
  PROVE  Settings(FromInvocation(args, e))
<1> DEFINE container == WithContainerEnv(FromFlat(args), e)
           ssh == {g \in DOMAIN SshEnv : SshEnv[g] \in DOMAIN e}
           withSsh == [f \in DOMAIN args \cup ssh |->
                         IF f \in DOMAIN args THEN args[f] ELSE e[SshEnv[f]]]
<1>1. Settings(container)
  BY ContainerEnvIsSettings
<1>2. Settings(withSsh)
  <2>1. DOMAIN SshEnv \subseteq Fields
    BY DEF SshEnv, Fields, SshFields
  <2>2. \A f \in DOMAIN withSsh : withSsh[f] \in Values
    BY InputConstants DEF Settings
  <2> QED
    BY <2>1, <2>2 DEF Settings
<1>3. FromInvocation(args, e) =
        [f \in DOMAIN withSsh \cup DOMAIN container |->
           IF f \in DOMAIN container THEN container[f] ELSE withSsh[f]]
  BY DEF FromInvocation
<1> HIDE DEF container, withSsh
<1> QED
  BY <1>1, <1>2, <1>3 DEF Settings

LEMMA PatchKeepsSettings ==
  ASSUME NEW s, SessionOK(s), NEW p, DOMAIN p \subseteq Fields,
         \A f \in DOMAIN p : p[f] \in Values \cup {Null}
  PROVE  SessionOK(Patched(s, p))
<1> DEFINE kept == (DOMAIN s.f \cup DOMAIN p) \ Clears(p)
           g == [x \in kept |-> IF x \in DOMAIN p THEN p[x] ELSE s.f[x]]
<1>1. Patched(s, p) = [s EXCEPT !.f = g]
  BY DEF Patched
<1>2. Settings(g)
  BY DEF Settings, SessionOK, Clears
<1> HIDE DEF g
<1>3. [s EXCEPT !.f = g] = [f |-> g, pinned |-> s.pinned]
  BY DEF SessionOK
<1> QED
  BY <1>1, <1>2, <1>3 DEF SessionOK

TypesInv == NamesInv /\ SessionsOK /\ OpenOK /\ CountsOK

LEMMA InitTypes == Init => TypesInv
<1> SUFFICES ASSUME Init PROVE TypesInv
  OBVIOUS
<1>1. env \in Envs
  BY DEF Init
<1>2. SessionOK(profile)
  <2>1. PICK given \in Profiles :
          profile = IF locked THEN FromProfile(given)
                    ELSE FromFlat(FromInvocation(given, env))
    BY DEF Init
  <2>2. Settings(given)
    BY InputConstants
  <2>3. Settings(FromInvocation(given, env))
    BY <1>1, <2>2, InvocationIsSettings
  <2>4. CASE locked
    BY <2>1, <2>2, <2>4 DEF FromProfile, FromFlat, SessionOK
  <2>5. CASE ~locked
    BY <2>1, <2>3, <2>5 DEF FromFlat, SessionOK
  <2> QED
    BY <2>4, <2>5
<1>3. SessionOK(DefaultSession)
  BY DEF DefaultSession, FromFlat, EmptySettings, SessionOK, Settings
<1> QED
  BY <1>1, <1>2, <1>3, SettingsConstants
     DEF Init, TypesInv, NamesInv, SessionsOK, OpenOK, CountsOK, NoRoute, NoRequest

LEMMA ExecuteTypes ==
  ASSUME SettingsInv, TypesInv, NEW op \in {"query", "begin", "info"},
         NEW n \in DOMAIN sessions, NEW perm, Execute(op, n, perm)
  PROVE  TypesInv'
<1> DEFINE reached == Reach(n, sessions[n])
<1>1. /\ conn' = [conn EXCEPT ![n] = IF reached = Refused THEN NoRoute ELSE reached]
      /\ last'.op = op
      /\ sessions' = sessions /\ default' = default /\ env' = env /\ patches' = patches
  BY DEF Execute, process
<1>2. n \in Names /\ DOMAIN conn = Names
  BY DEF TypesInv, NamesInv
<1>3. reached = Refused \/ reached.by \in {"direct", "ssh", "container"}
  <2>1. reached = Route(sessions[n], env)
    BY <1>2 DEF Reach, SettingsInv, RoutesInv
  <2>2. TransportKind(sessions[n].f) = "error" => reached = Refused
    BY <2>1 DEF Route
  <2> QED
    BY <2>1, <2>2, RouteIsItsKind, KindIsOneOf
<1> HIDE DEF reached
<1>4. OpenOK'
  BY <1>1, <1>2, <1>3 DEF TypesInv, OpenOK, NoRoute
<1> QED
  BY <1>1, <1>4 DEF TypesInv, NamesInv, SessionsOK, CountsOK

LEMMA ConfigTypes == ASSUME SettingsInv, TypesInv, Config PROVE TypesInv'
<1>1. PICK p \in Patches :
        /\ patches < MaxPatches
        /\ sessions' = ApplyUpdate(p)
        /\ default' = NewDefault(p)
        /\ conn' = [n \in Names |-> IF n \in SessionsToInvalidate(p) THEN NoRoute ELSE conn[n]]
        /\ last' = NoRequest /\ env' = env /\ patches' = patches + 1
  BY DEF Config, process
<1>2. NamesInv'
  BY ConfigStep DEF Config, SettingsInv
<1>3. \A n \in DOMAIN p.sessions :
        /\ DOMAIN p.sessions[n] \subseteq Fields
        /\ \A f \in DOMAIN p.sessions[n] : p.sessions[n][f] \in Values \cup {Null}
  <2>1. CASE \E d \in Names : p = [default |-> d, sessions |-> NoSessions]
    BY <2>1 DEF NoSessions
  <2>2. CASE \E n \in Names, c \in PatchFields :
               p = [default |-> Unset, sessions |-> FieldPatch(n, c)]
    BY <2>2, InputConstants DEF FieldPatch
  <2> QED
    BY <2>1, <2>2 DEF Patches
<1>4. SessionsOK'
  <2> DEFINE entry(n) == IF n \in DOMAIN sessions THEN sessions[n] ELSE DefaultSession
  <2>1. SessionOK(DefaultSession)
    BY DEF DefaultSession, FromFlat, EmptySettings, SessionOK, Settings
  <2>2. \A n : SessionOK(entry(n))
    BY <2>1 DEF TypesInv, SessionsOK
  <2>3. \A n \in DOMAIN p.sessions : SessionOK(Patched(entry(n), p.sessions[n]))
    BY <1>3, <2>2, PatchKeepsSettings
  <2>4. \A n \in DOMAIN ApplyUpdate(p) :
          ApplyUpdate(p)[n] = IF n \in DOMAIN p.sessions
                              THEN Patched(entry(n), p.sessions[n]) ELSE entry(n)
    BY DEF ApplyUpdate
  <2> HIDE DEF entry
  <2> QED
    BY <1>1, <2>2, <2>3, <2>4 DEF TypesInv, SessionsOK
<1>5. OpenOK'
  BY <1>1 DEF TypesInv, OpenOK, NoRoute
<1>6. CountsOK'
  BY <1>1, SettingsConstants DEF TypesInv, CountsOK, NoRequest
<1> QED
  BY <1>2, <1>4, <1>5, <1>6 DEF TypesInv

LEMMA NextTypes == ASSUME SettingsInv, TypesInv, [Next]_vars PROVE TypesInv'
<1>1. CASE UNCHANGED vars
  BY <1>1 DEF vars, process, TypesInv, NamesInv, SessionsOK, OpenOK, CountsOK
<1>2. CASE Config
  BY <1>2, ConfigTypes
<1>3. CASE Query \/ Begin \/ SessionInfo
  <2>1. PICK op \in {"query", "begin", "info"}, n \in DOMAIN sessions :
          \E perm : Execute(op, n, perm)
    BY <1>3 DEF Query, Begin, SessionInfo, Known
  <2> QED
    BY <2>1, ExecuteTypes
<1>4. CASE ConnectionLost
  <2>1. PICK n \in Names : conn' = [conn EXCEPT ![n] = NoRoute]
    BY <1>4 DEF ConnectionLost
  <2>2. /\ last' = NoRequest /\ sessions' = sessions /\ default' = default
        /\ env' = env /\ patches' = patches
    BY <1>4 DEF ConnectionLost, process
  <2> QED
    BY <2>1, <2>2 DEF TypesInv, NamesInv, SessionsOK, OpenOK, CountsOK, NoRoute, NoRequest
<1> QED
  BY <1>1, <1>2, <1>3, <1>4 DEF Next

(* Sessions hold known fields with values those fields can have, the default *)
(* session exists, and no connection is open to a refused place, after any   *)
(* patches (SessionConfigPatch, apply_update).                               *)
THEOREM SettingsTypes == Spec => []TypeOK
<1>1. TypesInv => TypeOK
  BY DEF TypesInv, NamesInv, SessionsOK, SessionOK, OpenOK, CountsOK, TypeOK
<1> QED
  BY <1>1, InitSettings, NextSettings, InitTypes, NextTypes, PTL DEF Spec

=============================================================================
