------------------------------ MODULE Redeploy ------------------------------
(***************************************************************************)
(* How the definition of one function spreads.  A user deploys it on one   *)
(* node; that node reads its status back from the container, its peers     *)
(* learn the status, and every replica made by a scale up or by an         *)
(* offload is deployed from the status some node knows.                    *)
(*                                                                         *)
(* A string is the sequence of its parts between "=" signs: appending a    *)
(* value to "key=" is concatenation, strings.Split does nothing, and a     *)
(* variable without "=" has length 1.  A label's key is a pair: how many   *)
(* annotation prefixes it has, and the rest.  An environment gives for a   *)
(* name the last entry of the list, the one that is read back: a name      *)
(* listed twice is read like one listed once.  Names of variables have no  *)
(* "=", and the image's entries have one.  Left out: the image, the        *)
(* namespace, and fields that no container is made from.                   *)
(***************************************************************************)
EXTENDS Integers, Sequences

CONSTANTS
    Node,
    Request,    \* the deployments users ask for
    Image,      \* environment of the image
    MaxUpdates  \* bound on updates

None == <<>>

Text == Seq(STRING) \ {None}

\* The empty string.
EmptyText == <<"">>

\* What JSON and the image specification allow; an envProcess that is absent
\* or empty is None.
IsRequest(req) ==
    /\ req.envProcess \in Seq(STRING) \ {EmptyText}
    /\ \A k \in DOMAIN req.envVars : req.envVars[k] \in Text
    /\ DOMAIN req.labels \subseteq Nat \X STRING
    /\ DOMAIN req.annotations \subseteq Nat \X STRING

RedeployAssumption ==
    /\ None \notin Request /\ \A req \in Request : IsRequest(req)
    /\ \A k \in DOMAIN Image : Image[k] \in Text
    /\ MaxUpdates \in Nat

\* Container: env and labels are functions; Refused is no container.
Refused == [refused |-> TRUE]

Extend(f, g) ==
    [k \in DOMAIN f \cup DOMAIN g |-> IF k \in DOMAIN g THEN g[k] ELSE f[k]]

Without(f, k) == [j \in DOMAIN f \ {k} |-> f[j]]

-----------------------------------------------------------------------------
(* From a request to a container.                                          *)

\* The entry for fprocess; a variable of that name is taken as it is.
FprocessEntry(req) ==
    IF "fprocess" \in DOMAIN req.envVars THEN req.envVars["fprocess"]
    ELSE IF req.envProcess # None THEN <<"fprocess">> \o req.envProcess
    ELSE None

\* oci.WithEnv puts one entry over an environment.  Without "=" it removes a
\* variable of the image, overridden or not, and leaves one of the request.
WithEnv(env, entry) ==
    IF entry = None THEN env
    ELSE IF Len(entry) > 1 THEN Extend(env, [k \in {entry[1]} |-> Tail(entry)])
    ELSE IF entry[1] \in DOMAIN Image THEN Without(env, entry[1])
    ELSE env

\* prepareEnv over the image's environment; fprocess comes last.
prepareEnv(req) ==
    WithEnv(Extend(Image, Without(req.envVars, "fprocess")), FprocessEntry(req))

Annotated(annotations) ==
    [k \in {<<a[1] + 1, a[2]>> : a \in DOMAIN annotations} |->
        annotations[<<k[1] - 1, k[2]>>]]

\* A label that an annotation would replace is an error.
Conflict(req) == DOMAIN req.labels \cap DOMAIN Annotated(req.annotations) # {}

buildLabels(req) == Extend(req.labels, Annotated(req.annotations))

\* The container that deploy() makes, wherever it is called.
deploy(req) ==
    IF Conflict(req) THEN Refused
    ELSE [env     |-> prepareEnv(req),
          labels  |-> buildLabels(req),
          secrets |-> req.secrets,
          memory  |-> req.limits]

-----------------------------------------------------------------------------
(* From a container to a status, from which a request is made.             *)

\* readEnvFromProcessEnv keeps what stands between the first "=" and the
\* second.
Field(value) == <<value[1]>>

readEnvFromProcessEnv(env) ==
    [k \in DOMAIN env \ {"PATH", "fprocess"} |-> Field(env[k])]

\* An empty fprocess is read like none.
ReadsFprocess(env) ==
    "fprocess" \in DOMAIN env /\ Field(env["fprocess"]) # EmptyText

readFprocess(env) ==
    IF ReadsFprocess(env) THEN Field(env["fprocess"]) ELSE None

PlainLabels(labels) == [k \in {l \in DOMAIN labels : l[1] = 0} |-> labels[k]]

\* Mutant: every prefix is taken off.
AnnotationsBare(labels) ==
    [a \in {<<0, l[2]>> : l \in {k \in DOMAIN labels : k[1] > 0}} |->
        labels[CHOOSE l \in DOMAIN labels : l[1] > 0 /\ l[2] = a[2]]]

Annotations(labels) ==
    [a \in {<<l[1] - 1, l[2]>> : l \in {k \in DOMAIN labels : k[1] > 0}} |->
        labels[<<a[1] + 1, a[2]>>]]

\* The memory limit is not part of a status.
GetFunctionStatus(c) ==
    [envProcess  |-> readFprocess(c.env),
     envVars     |-> readEnvFromProcessEnv(c.env),
     labels      |-> PlainLabels(c.labels),
     annotations |-> Annotations(c.labels),
     secrets     |-> c.secrets,
     limits      |-> 0]

-----------------------------------------------------------------------------
VARIABLES
    asked,      \* what the user asked for last; None before that
    container,  \* container[n]: what the container of n is made of, or None
    started,    \* nodes whose container has a task
    files,      \* files[n]: the secrets that n has a file of
    known,      \* known[n]: FunctionCatalog entry of n, or None
    reports,    \* nodes that report the function, with a replica or with 0
    updates

vars == <<asked, container, started, files, known, reports, updates>>

Runs(n) == container[n] # None

SecretNames == UNION {req.secrets : req \in Request}

TypeOK ==
    /\ asked \in Request \cup {None}
    /\ \A n \in Node :
        /\ Runs(n) => /\ DOMAIN container[n] = {"env", "labels", "secrets", "memory"}
                      /\ \A k \in DOMAIN container[n].env :
                             container[n].env[k] # None
        /\ known[n] # None =>
               \A k \in DOMAIN known[n].envVars : Len(known[n].envVars[k]) = 1
    /\ started \subseteq {n \in Node : Runs(n)}
    /\ files \in [Node -> SUBSET SecretNames]
    /\ reports \subseteq {n \in Node : known[n] # None}
    /\ updates \in 0 .. MaxUpdates

Init ==
    /\ asked = None
    /\ container = [n \in Node |-> None]
    /\ started = {}
    /\ files = [n \in Node |-> {}]
    /\ known = [n \in Node |-> None]
    /\ reports = {}
    /\ updates = 0

validateSecrets(n, req) == req.secrets \subseteq files[n]

\* What n answers to a deployment with an error.
Refuses(n, req) == ~ validateSecrets(n, req) \/ deploy(req) = Refused

\* The container on n becomes what deploy makes of a request, if anything.  A
\* task cannot be made without the files that it mounts.
Make(n, req) ==
    /\ container' = [container EXCEPT ![n] =
                         IF deploy(req) = Refused THEN None ELSE deploy(req)]
    /\ started' = IF Refuses(n, req) THEN started \ {n} ELSE started \cup {n}

\* The user deploys the function, which no node has.
Deploy(n, req) ==
    /\ asked = None
    /\ ~ Refuses(n, req)
    /\ asked' = req
    /\ Make(n, req)
    /\ UNCHANGED <<files, known, reports, updates>>

\* The user updates it on a node that has it: the old container goes first,
\* although a missing secret has been answered with an error.  Nothing is
\* reported.
Update(n, req) ==
    /\ Runs(n)
    /\ updates < MaxUpdates
    /\ updates' = updates + 1
    /\ asked' = req
    /\ Make(n, req)
    /\ UNCHANGED <<files, known, reports>>

\* The user creates a secret on n, or deletes it; tasks keep what they mounted.
MakeSecretHandler(n, s) ==
    /\ files' = [files EXCEPT ![n] =
                     IF s \in files[n] THEN files[n] \ {s} ELSE files[n] \cup {s}]
    /\ UNCHANGED <<asked, container, started, known, reports, updates>>

\* The function answers and is reported: its status becomes the entry, if
\* there is none.
Report(n) ==
    /\ n \in started
    /\ n \notin reports
    /\ reports' = reports \cup {n}
    /\ known' = IF known[n] # None THEN known
                ELSE [known EXCEPT ![n] = GetFunctionStatus(container[n])]
    /\ UNCHANGED <<asked, container, started, files, updates>>

\* n receives a message of m, which reports the function.
Learn(n, m) ==
    /\ m \in reports
    /\ known[n] = None
    /\ known' = [known EXCEPT ![n] = known[m]]
    /\ UNCHANGED <<asked, container, started, files, reports, updates>>

\* deployFunctionByP2PID: n has the function deployed on m, itself or a peer.
\* A node without the secrets refuses.
ScaleUp(n, m) ==
    /\ known[n] # None
    /\ ~ Runs(m)
    /\ ~ Refuses(m, known[n])
    /\ Make(m, known[n])
    /\ UNCHANGED <<asked, files, known, reports, updates>>

\* A scale down takes the replica of n; the entry stays, and n reports 0.
ScaleDown(n) ==
    /\ Runs(n)
    /\ n \in reports
    /\ \E m \in Node \ {n} : Runs(m)
    /\ container' = [container EXCEPT ![n] = None]
    /\ started' = started \ {n}
    /\ UNCHANGED <<asked, files, known, reports, updates>>

\* The provider of n starts again: what it knew is gone, and read back from
\* its container if it has one.
Restart(n) ==
    /\ known[n] # None
    /\ known' = [known EXCEPT ![n] =
                     IF Runs(n) THEN GetFunctionStatus(container[n]) ELSE None]
    /\ reports' = IF Runs(n) THEN reports \cup {n} ELSE reports \ {n}
    /\ UNCHANGED <<asked, container, started, files, updates>>

Next ==
    \/ \E n \in Node, req \in Request : Deploy(n, req) \/ Update(n, req)
    \/ \E n, m \in Node : Learn(n, m) \/ ScaleUp(n, m)
    \/ \E n \in Node, s \in SecretNames : MakeSecretHandler(n, s)
    \/ \E n \in Node : Report(n) \/ ScaleDown(n) \/ Restart(n)

Spec == Init /\ [][Next]_vars

-----------------------------------------------------------------------------
(* Properties.                                                             *)

\* A replica deployed from what a node reads back from a container.
Copy(c) == deploy(GetFunctionStatus(c))

\* The first container lacks a variable of the image, or has an empty fprocess
\* for it: its copy has the image's value again, with an "=" in it.
Revives(req) ==
    \E k \in DOMAIN Image \ {"PATH"} :
        /\ Len(Image[k]) > 1
        /\ \/ k \notin DOMAIN deploy(req).env
           \/ k = "fprocess" /\ ~ ReadsFprocess(deploy(req).env)

\* Whichever way a definition took, a node refuses the status that some node
\* knows only for a secret it has no file of (deploy.go:308): reading labels
\* back never leaves a label that an annotation conflicts with (deploy.go:245,
\* functions.go:385).  Labels, annotations and secrets reach every replica as
\* they were asked for, and what else gets lost gets lost at the first copy:
\* replicas are like the first, or like a copy of it, over however many nodes
\* and restarts the definition went (scale.go:212, functions.go:342).  Only a
\* variable that came back loses at the second.
CopiesAlike ==
    /\ \A n, m \in Node :
           known[n] # None /\ Refuses(m, known[n]) => ~ validateSecrets(m, known[n])
    /\ updates = 0 => \A n \in Node : Runs(n) =>
           /\ container[n].labels = deploy(asked).labels
           /\ container[n].secrets = deploy(asked).secrets
           /\ \/ container[n] \in {deploy(asked), Copy(deploy(asked))}
              \/ Revives(asked) /\ container[n] = Copy(Copy(deploy(asked)))

-----------------------------------------------------------------------------
(* The inductive invariant.                                                *)

IsContainer(c) ==
    /\ c = [env |-> c.env, labels |-> c.labels, secrets |-> c.secrets,
            memory |-> c.memory]
    /\ \A k \in DOMAIN c.env : c.env[k] \in Text
    /\ c.labels = [k \in DOMAIN c.labels |-> c.labels[k]]
    /\ DOMAIN c.labels \subseteq Nat \X STRING

\* What a container is read as: no label has the prefix of an annotation.
IsStatus(s) ==
    /\ IsRequest(s)
    /\ \A k \in DOMAIN s.envVars : Len(s.envVars[k]) = 1
    /\ \A l \in DOMAIN s.labels : l[1] = 0

\* The containers made from a request: itself and its copies.  A third copy is
\* like the second.
Generations(req) ==
    {deploy(req), Copy(deploy(req)), Copy(Copy(deploy(req)))}

IInv ==
    /\ TypeOK
    /\ DOMAIN container = Node /\ DOMAIN known = Node
    /\ \A n \in Node : /\ Runs(n) => IsContainer(container[n])
                       /\ known[n] # None => IsStatus(known[n])
    /\ asked = None => \A n \in Node : ~ Runs(n) /\ known[n] = None
    /\ asked # None /\ updates = 0 =>
           /\ deploy(asked) # Refused
           /\ \A n \in Node :
                  /\ Runs(n) => container[n] \in Generations(asked)
                  /\ known[n] # None =>
                         known[n] \in {GetFunctionStatus(c) : c \in Generations(asked)}
=============================================================================
