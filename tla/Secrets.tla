------------------------------ MODULE Secrets -------------------------------
(***************************************************************************)
(* Secret files: the handlers that write and remove them, the migration of *)
(* the files of an older release when the provider starts, and the         *)
(* password file that faasd up makes.                                      *)
(*                                                                         *)
(* Files are written in two steps, opened (and truncated) and filled, and  *)
(* the processes may crash in between.  One secret name; a file is absent, *)
(* empty, holds a value, or a mixture of two.  Left out: listing, what     *)
(* names are refused, and data that a machine loses with its page cache.   *)
(***************************************************************************)
EXTENDS Integers, FiniteSets

CONSTANTS
    Namespace,      \* namespaces, each with a directory of secrets
    Default,        \* the one of functions without a namespace
    Value,          \* what a secret may hold
    Length,         \* Length[v]: its length
    Writer,         \* requests that write, at the same time
    MaxRequests,    \* bound on requests
    MaxCrashes      \* bound on crashes

SecretsAssumption ==
    /\ Default \in Namespace
    /\ Namespace \cap {"legacy", "basic-auth-password"} = {}
    /\ Value \cap {"absent", "empty", "mixed", "none", "nothing", "unsure"} = {}
    /\ Length \in [Value -> Nat]
    /\ MaxRequests \in Nat
    /\ MaxCrashes \in Nat

VARIABLES
    content,    \* what each file holds
    provider,   \* what the provider does
    up,         \* what faasd up does
    writer,     \* writer[w]: the file a request has opened, and its data
    want,       \* history: what the last request for a namespace asked for
    requests,   \* requests so far
    crashes     \* crashes so far

vars == <<content, provider, up, writer, want, requests, crashes>>

\* The secret in the directory of an older release, and the password file.
Legacy == "legacy"
Auth == "basic-auth-password"
File == Namespace \cup {Legacy, Auth}

TypeOK ==
    /\ content \in [File -> Value \cup {"absent", "empty", "mixed"}]
    /\ provider \in {"start", "copy", "serve"}
    /\ up \in {"start", "write", "up"}
    /\ writer \in [Writer -> [file : Namespace, data : Value \cup {"none"},
                              linked : BOOLEAN]]
    /\ \A w \in Writer : writer[w].linked => content[writer[w].file] # "absent"
    /\ want \in [Namespace -> Value \cup {"nothing", "absent", "unsure"}]
    /\ requests \in 0 .. MaxRequests
    /\ crashes \in 0 .. MaxCrashes

Idle == [file |-> Default, data |-> "none", linked |-> FALSE]

Init ==
    /\ \E old \in Value \cup {"absent"} :
           content = [f \in File |-> IF f = Legacy THEN old ELSE "absent"]
    /\ provider = "start"
    /\ up = "start"
    /\ writer = [w \in Writer |-> Idle]
    /\ want = [ns \in Namespace |-> "nothing"]
    /\ requests = 0
    /\ crashes = 0

-----------------------------------------------------------------------------
(* The handlers.                                                           *)

Writers(ns) == {w \in Writer : writer[w].data # "none" /\ writer[w].file = ns}

Request ==
    /\ provider = "serve"
    /\ requests < MaxRequests
    /\ requests' = requests + 1

\* createSecret, for POST and PUT, up to the truncation by WriteFile.
CreateSecret(w, ns, v) ==
    /\ Request
    /\ writer[w].data = "none"
    /\ content' = [content EXCEPT ![ns] = "empty"]
    /\ writer' = [writer EXCEPT ![w] = [file |-> ns, data |-> v, linked |-> TRUE]]
    /\ want' = [want EXCEPT ![ns] = IF Writers(ns) = {} THEN v ELSE "unsure"]
    /\ UNCHANGED <<provider, up, crashes>>

\* Data written from the beginning of a file over what it holds by now.
Over(v, old) == IF old \in Value \ {v} /\ Length[old] > Length[v] THEN "mixed" ELSE v

\* The rest of WriteFile; a file that was removed is written in vain.
WriteSecret(w) ==
    LET f == writer[w].file
    IN  /\ writer[w].data # "none"
        /\ content' = IF writer[w].linked
                      THEN [content EXCEPT ![f] = Over(writer[w].data, @)]
                      ELSE content
        /\ writer' = [writer EXCEPT ![w] = Idle]
        /\ UNCHANGED <<provider, up, want, requests, crashes>>

\* What is wanted after a delete for ns that has removed file f.
WantAbsent(ns, f) ==
    want' = [n \in Namespace |->
        IF n \notin {ns, f} THEN want[n]
        ELSE IF f = ns /\ Writers(ns) = {} THEN "absent" ELSE "unsure"]

\* deleteSecret takes the namespace from the query; the SDK's client gives it
\* in the body, like that of a secret to be created.
DeleteSecret(ns, place) ==
    LET f == IF place = "query" THEN ns ELSE Default
    IN  /\ Request
        /\ content[f] # "absent"
        /\ content' = [content EXCEPT ![f] = "absent"]
        /\ writer' = [w \in Writer |->
                         IF w \in Writers(f)
                         THEN [writer[w] EXCEPT !.linked = FALSE] ELSE writer[w]]
        /\ WantAbsent(ns, f)
        /\ UNCHANGED <<provider, up, crashes>>

-----------------------------------------------------------------------------
(* Starting.                                                               *)

\* Mutant: the files are copied at every start.
MigrateAlways ==
    /\ provider = "start"
    /\ IF content[Legacy] # "absent"
       THEN /\ provider' = "copy"
            /\ content' = [content EXCEPT ![Default] = "empty"]
       ELSE provider' = "serve" /\ UNCHANGED content
    /\ UNCHANGED <<up, writer, want, requests, crashes>>

\* moveSecretsToDefaultNamespaceSecrets: a file that is not in the directory
\* of the default namespace is created there.
Migrate ==
    /\ provider = "start"
    /\ IF content[Legacy] # "absent" /\ content[Default] = "absent"
       THEN /\ provider' = "copy"
            /\ content' = [content EXCEPT ![Default] = "empty"]
       ELSE provider' = "serve" /\ UNCHANGED content
    /\ UNCHANGED <<up, writer, want, requests, crashes>>

\* The rest of copyFile; the original stays.
CopyFile ==
    /\ provider = "copy"
    /\ provider' = "serve"
    /\ content' = [content EXCEPT ![Default] = content[Legacy]]
    /\ UNCHANGED <<up, writer, want, requests, crashes>>

\* makeBasicAuthFiles and makeFile, for the password.
MakeFile ==
    /\ up = "start"
    /\ IF content[Auth] = "absent"
       THEN up' = "write" /\ content' = [content EXCEPT ![Auth] = "empty"]
       ELSE up' = "up" /\ UNCHANGED content
    /\ UNCHANGED <<provider, writer, want, requests, crashes>>

WriteFile ==
    /\ up = "write"
    /\ up' = "up"
    /\ \E v \in Value : content' = [content EXCEPT ![Auth] = v]
    /\ UNCHANGED <<provider, writer, want, requests, crashes>>

\* Both processes end and are started again.
Crash ==
    /\ crashes < MaxCrashes
    /\ crashes' = crashes + 1
    /\ provider' = "start"
    /\ up' = "start"
    /\ writer' = [w \in Writer |-> Idle]
    /\ want' = [ns \in Namespace |->
                   IF Writers(ns) = {} THEN want[ns] ELSE "unsure"]
    /\ UNCHANGED <<content, requests>>

Next ==
    \/ \E w \in Writer, ns \in Namespace, v \in Value : CreateSecret(w, ns, v)
    \/ \E w \in Writer : WriteSecret(w)
    \/ \E ns \in Namespace, place \in {"query", "body"} : DeleteSecret(ns, place)
    \/ Migrate
    \/ CopyFile
    \/ MakeFile
    \/ WriteFile
    \/ Crash

Spec == Init /\ [][Next]_vars

-----------------------------------------------------------------------------
(* Properties.                                                             *)

Settled(ns) == provider = "serve" /\ Writers(ns) = {}

\* A secret is what the last request that returned asked for, through crashes
\* and migrations, unless two requests wrote it at the same time or a crash cut
\* one off, or a delete named another namespace in its body and removed the
\* secret of the default one.  A secret removed from another namespace than the
\* default stays removed; there the file of the older release comes back.  A
\* secret of the older release that no request has touched has its value; only
\* a crash between the creation of the copy and its contents leaves it empty,
\* and no later start repairs that (secret.go:119, secret.go:139,
\* provider.go:227).  The same goes for the password when faasd up has made it
\* (up.go:167).
StoredAsAsked ==
    /\ \A ns \in Namespace : Settled(ns) =>
           /\ want[ns] \in Value => content[ns] = want[ns]
           /\ want[ns] = "absent" /\ ns # Default => content[ns] = "absent"
           /\ want[ns] = "nothing" /\ ns = Default
                  => \/ content[ns] = content[Legacy]
                     \/ content[ns] = "empty" /\ crashes > 0
    /\ up = "up" => \/ content[Auth] \in Value
                    \/ content[Auth] = "empty" /\ crashes > 0

-----------------------------------------------------------------------------
(* Why it holds: an inductive invariant.                                   *)

\* No request is under way while the provider starts, and one that is not
\* under way has no file open.
WriterInv ==
    \A w \in Writer :
        /\ writer[w].data # "none" => provider = "serve"
        /\ writer[w].linked => writer[w].data # "none"

\* How what is wanted in ns and its file are related between the steps.
WantInv(ns) ==
    /\ want[ns] \in Value =>
           \/ Writers(ns) = {} /\ content[ns] = want[ns]
           \/ /\ content[ns] = "empty"
              /\ \E w \in Writer : /\ Writers(ns) = {w}
                                   /\ writer[w].data = want[ns]
                                   /\ writer[w].linked
    /\ want[ns] = "absent" =>
           Writers(ns) = {} /\ (ns # Default => content[ns] = "absent")
    /\ want[ns] = "nothing" => Writers(ns) = {}

\* The copy of the older release's file.
CopyInv ==
    /\ content[Legacy] \in Value \cup {"absent"}
    /\ provider = "copy" => want[Default] \notin Value /\ content[Default] = "empty"
    /\ want[Default] = "nothing" =>
           \/ provider = "start" /\ content[Default] = "absent"
           \/ provider = "copy"
           \/ provider # "copy" /\ content[Default] = content[Legacy]
           \/ content[Default] = "empty" /\ crashes > 0

\* The password file.
AuthInv ==
    \/ up = "start" /\ content[Auth] = "absent"
    \/ up = "write" /\ content[Auth] = "empty"
    \/ up # "write" /\ content[Auth] \in Value
    \/ up # "write" /\ content[Auth] = "empty" /\ crashes > 0

IInv ==
    /\ TypeOK
    /\ WriterInv
    /\ \A ns \in Namespace : WantInv(ns)
    /\ CopyInv
    /\ AuthInv
=============================================================================
