---------------------------- MODULE Credentials ----------------------------
(***************************************************************************)
(* How okdctl signs in to Proxmox.  A login is an endpoint, a user with a  *)
(* password and an API token, each left out or given.  Logins come from    *)
(* the environment alone: the operator's shell, and the .env file beside   *)
(* the configuration, which a process reads once and which never replaces  *)
(* what the shell sets.  The switch that turns TLS verification off is     *)
(* left out.                                                               *)
(***************************************************************************)
EXTENDS ConfigRules

NoLogin == [endpoint |-> 0, username |-> "", password |-> "", token |-> ""]

UseAPIToken(l) == Given(l.token)
IsValid(l) == UseAPIToken(l) \/ (Given(l.username) /\ Given(l.password))

\* http:// is refused (the opt-in is left out).
normalizeEndpoint(host) == host # InsecureHost

\* The variables an environment sets, and those of both where the first wins.
IsSet(vars, k) == vars[k] # NoLogin[k]
FirstOf(first, second) == [k \in DOMAIN NoLogin |-> IF IsSet(first, k) THEN first[k] ELSE second[k]]

\* The endpoint of the environment replaces the one of the configuration.
applyEnvSource(login, c, vars) ==
    LET endpoint == Or(vars.endpoint, c.host)
    IN  IF normalizeEndpoint(endpoint) THEN [login EXCEPT !.endpoint = endpoint] ELSE NoLogin

\* A token wins over a user; what the configuration holds is never used.
GetProxmoxCredentials(c, vars) ==
    IF ~c.px \/ c.host = 0 \/ ~normalizeEndpoint(c.host) THEN NoLogin
    ELSE IF UseAPIToken(vars) THEN applyEnvSource([NoLogin EXCEPT !.token = vars.token], c, vars)
    ELSE IF IsValid(vars)
         THEN applyEnvSource([NoLogin EXCEPT !.username = vars.username, !.password = vars.password], c, vars)
    ELSE [NoLogin EXCEPT !.endpoint = c.host]

\* What a child process is told.
Env(login) == IF IsValid(login) THEN login ELSE NoLogin

-----------------------------------------------------------------------------
(* The .env file, and what a process made of it.  A file may be absent, a   *)
(* link, unusable (readable by others, malformed, with keys that are not   *)
(* Proxmox credentials) or hold the variables it sets.                     *)

EnvFile(kind, vars) == [kind |-> kind, vars |-> vars]

\* A process begins with the shell's variables and has read nothing.
NewProcess(p) == [p EXCEPT !.environ = p.shell, !.loaded = "no"]
EndProcess(p) == [p EXCEPT !.environ = NoLogin, !.loaded = "no"]

rejectUnknownEnvKeys(file) == file.kind = "unusable"

loadEnvFileOnce(p) ==
    IF p.envfile.kind = "link" \/ rejectUnknownEnvKeys(p.envfile) THEN [p EXCEPT !.loaded = "failed"]
    ELSE [p EXCEPT !.loaded = "ok", !.environ = FirstOf(@, p.envfile.vars)]

\* Later calls repeat the first answer.
LoadEnvFile(p) == IF p.loaded = "no" THEN loadEnvFileOnce(p) ELSE p

\* A value that a line of the file cannot hold is refused.
writeEnvFileBody(login) == \A k \in {"username", "password", "token"} : WellFormed(login[k])

CanWriteEnvFile(p, login) == p.envfile.kind # "link" /\ writeEnvFileBody(login)

\* Nothing was typed, nothing is written.
NothingTyped(c) == ~c.px \/ ~Given(c.password)

\* What was typed, with the endpoint as it is resolved now.
TypedLogin(c, p) ==
    [NoLogin EXCEPT !.endpoint = GetProxmoxCredentials(c, p.environ).endpoint,
                    !.username = c.username, !.password = c.password]

WriteEnvFile(p, login) == [p EXCEPT !.envfile = EnvFile("data", login)]

=============================================================================
