----------------------------- MODULE HaproxyConfig -----------------------------
(***************************************************************************)
(* What a haproxy.cfg says, reduced to what decides whether HAProxy takes  *)
(* it and where it routes.  The frontend section is rendered from the      *)
(* services registered in memory (and from the -fe.cfg files of services   *)
(* with a template of their own); the backend sections are the -be.cfg     *)
(* files.  The two halves are written at different times by different      *)
(* code, so they may disagree: a use_backend that names a backend no file  *)
(* defines makes HAProxy refuse the whole file.                            *)
(***************************************************************************)
EXTENDS Naturals

CONSTANTS
    Service,    \* serviceName values
    Acl,        \* aclName values: numbers, so that "sorted by name" is <
    Port,       \* values of port (part of the name of a backend)
    Request,    \* the reconfigure requests there are, a set of records
    None,       \* no file, no entry, nobody
    Blank,      \* a file that exists and is empty
    Truncated,  \* haproxy.cfg between the truncation and the write
    Garbled     \* haproxy.cfg with a part of one content, or parts of two

\* proxy.Service as far as it decides names and control: `feTmpl` and `beTmpl`
\* are TemplateFePath and TemplateBePath set, `active` is IsGlobal or
\* Replicas # 0, `foreign` is a ProxyInstanceName of another proxy.
ServiceRecord == [svc: Service, acl: Acl, port: Port, feTmpl: BOOLEAN, beTmpl: BOOLEAN,
                  active: BOOLEAN, foreign: BOOLEAN]

\* The two template paths are documented to need each other; either one alone
\* keeps the service out of the map.
HasTemplate(r) == r.feTmpl \/ r.beTmpl

ASSUME NamesAssumption == Service # {} /\ Acl \subseteq Nat /\ Request \subseteq ServiceRecord

ASSUME MarkersAssumption ==
    /\ None \notin Request /\ Blank \notin Request /\ None # Blank

Entry == Request \cup {None}

\* The directory of snippets: <acl>-fe.cfg and <acl>-be.cfg.
DirFile == {"fe", "be"} \X Acl
Content == Request \cup {None, Blank}

Fe(r) == <<"fe", r.acl>>
Be(r) == <<"be", r.acl>>

\* The order getConfigs reads the files in: first every -fe.cfg, then every
\* -be.cfg, each group sorted by name.
Precedes(f, g) == \/ f[1] = "fe" /\ g[1] = "be"
                  \/ f[1] = g[1] /\ f[2] < g[2]

\* The text of <acl>-fe.cfg: empty unless the service brings a template for it.
\* The frontend lines of a service in the map are rendered from memory; one
\* with a template for its backend only has none at all.
FeText(r) == IF r.feTmpl THEN r ELSE Blank

Config == [fronts: SUBSET Request, backs: SUBSET Request]

\* No service at all: the dummy backend only.  Also the file in the image.
EmptyConfig == [fronts |-> {}, backs |-> {}]

\* None is no configuration either: a process that runs has loaded one.
ASSUME NothingAssumption == None \notin Config

CfgFile == Config \cup {Truncated, Garbled}

\* The name of the backend section, <aclName>-be<port>_<index>.
Backend(r) == <<r.acl, r.port>>

\* The contents of a snippet added to a configuration that is being built.
AddSnippet(c, f, content) ==
    IF content \notin Request THEN c
    ELSE IF f[1] = "fe" THEN [c EXCEPT !.fronts = @ \cup {content}]
                        ELSE [c EXCEPT !.backs = @ \cup {content}]

AddFront(c, r) == [c EXCEPT !.fronts = @ \cup {r}]

\* What HAProxy refuses: a file that is not a configuration, a use_backend
\* without its backend, a server whose name does not resolve.
Accepts(c, resolvable) ==
    /\ c \in Config
    /\ \A f \in c.fronts : \E b \in c.backs : Backend(f) = Backend(b)
    /\ \A b \in c.backs : b.svc \in resolvable

\* The configuration of a registry and a directory that nobody is changing.
Rendered(registry, files) ==
    LET InDir(kind) == {files[<<kind, a>>] : a \in Acl} \cap Request
        InMap       == {registry[s] : s \in Service} \cap Request
    IN  [fronts |-> InDir("fe") \cup InMap, backs |-> InDir("be")]

================================================================================
