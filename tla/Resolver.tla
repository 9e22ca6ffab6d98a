------------------------------ MODULE Resolver ------------------------------
(***************************************************************************)
(* How the core services are found: faasd up writes the address of each    *)
(* service it starts to a hosts file; a resolver in faasd up and one in    *)
(* the provider poll that file; each proxy of faasd up and the provider    *)
(* look up one service when they start.                                    *)
(*                                                                         *)
(* A service has a new address at each start of faasd up, so the number of *)
(* the start stands for the address.  A modification time is a number.     *)
(* The two steps of one WriteFile may get the same one; between two        *)
(* WriteFiles a container is created, which takes longer than a tick of    *)
(* the file system's clock.  Of time itself only this is kept: a lookup    *)
(* lasts 5 s and the file is polled every 3 s, so that no lookup gives up  *)
(* before a poll that began after it has ended.  Left out: the entries for *)
(* localhost and the gateway, and a port that is already taken.            *)
(***************************************************************************)
EXTENDS Integers, Sequences

CONSTANTS
    Order,      \* the services in the order in which they are started
    Prometheus, \* the one the provider looks up
    MaxStarts,  \* bound on the starts of faasd up
    MaxFaults   \* bound on crashes and failing writes

Service == {Order[i] : i \in 1 .. Len(Order)}

ResolverAssumption ==
    /\ Order \in Seq(Service)
    /\ Prometheus \in Service
    /\ MaxStarts \in Nat \ {0}
    /\ MaxFaults \in Nat

Process == {"up", "provider"}

\* The lookups: one for each proxy, and the provider's.
Lookup == {<<"up", s>> : s \in Service} \cup {<<"provider", Prometheus>>}

VARIABLES
    starts,     \* starts of faasd up so far
    up,         \* what faasd up does
    started,    \* number of services it has started
    text,       \* entries it is about to write
    file,       \* entries of the hosts file; 0 for none
    mtime,      \* modification time of the file; 0 if it does not exist
    missed,     \* processes that know this time and have not read what was
                \* written: a history variable
    poll,       \* per process: what its resolver does
    lastStat,   \* per process: the modification time it knows
    map,        \* per process: the resolver's Map
    lookup,     \* state of each lookup and of the goroutine that asked
    address,    \* the address a lookup was answered with
    ready,      \* the services that accept connections
    faults,
    unwritten   \* an address of this start did not get into the file

supervisor == <<starts, up, started, text, unwritten>>
hosts == <<file, mtime, missed>>
resolver == <<poll, lastStat, map>>
callers == <<lookup, address>>
vars == <<supervisor, hosts, resolver, callers, ready, faults>>

NoEntries == [s \in Service |-> 0]
Entries == [Service -> 0 .. MaxStarts]

TypeOK ==
    /\ starts \in 0 .. MaxStarts
    /\ up \in {"down", "truncate", "write", "start", "runs"}
    /\ started \in 0 .. Len(Order)
    /\ up = "runs" => started = Len(Order)
    /\ text \in Entries
    /\ file \in Entries
    /\ mtime \in Nat
    /\ missed \subseteq Process
    /\ poll \in [Process -> {"off", "stat", "read"}]
    /\ lastStat \in [Process -> 0 .. mtime]
    /\ map \in [Process -> Entries]
    /\ lookup \in [Lookup -> {"none", "asks", "polled", "silent",
                              "answered", "returned"}]
    /\ address \in [Lookup -> 0 .. MaxStarts]
    /\ \A l \in Lookup : lookup[l] # "none" <=> poll[l[1]] # "off"
    /\ ready \subseteq Service
    /\ faults \in 0 .. MaxFaults
    /\ unwritten \in BOOLEAN

\* The first start after the installation, or after a boot that left the
\* hosts file of the start before it.
Init ==
    /\ starts \in 0 .. 1
    /\ up = "down"
    /\ started = 0
    /\ text = NoEntries
    /\ file = [s \in Service |-> starts]
    /\ mtime = starts
    /\ missed = {}
    /\ poll = [p \in Process |-> "off"]
    /\ lastStat = [p \in Process |-> 0]
    /\ map = [p \in Process |-> NoEntries]
    /\ lookup = [l \in Lookup |-> "none"]
    /\ address = [l \in Lookup |-> 0]
    /\ ready = {}
    /\ faults = 0
    /\ unwritten = FALSE

-----------------------------------------------------------------------------
(* The processes.                                                          *)

\* Process p starts its resolver and its lookups.
Resolve(p) ==
    /\ poll' = [poll EXCEPT ![p] = "stat"]
    /\ lookup' = [l \in Lookup |-> IF l[1] = p THEN "asks" ELSE lookup[l]]
    /\ UNCHANGED <<lastStat, map, address>>

\* What process p loses when it ends.
Forget(p) ==
    /\ poll' = [poll EXCEPT ![p] = "off"]
    /\ lastStat' = [lastStat EXCEPT ![p] = 0]
    /\ map' = [map EXCEPT ![p] = NoEntries]
    /\ missed' = missed \ {p}
    /\ lookup' = [l \in Lookup |-> IF l[1] = p THEN "none" ELSE lookup[l]]
    /\ address' = [l \in Lookup |-> IF l[1] = p THEN 0 ELSE address[l]]

Fault ==
    /\ faults < MaxFaults
    /\ faults' = faults + 1

\* Mutant: the resolver and the proxies are started before the services.
UpStartResolving ==
    /\ up = "down"
    /\ starts < MaxStarts
    /\ starts' = starts + 1
    /\ up' = "truncate"
    /\ started' = 0
    /\ text' = NoEntries
    /\ unwritten' = FALSE
    /\ ready' = {}
    /\ Resolve("up")
    /\ UNCHANGED <<hosts, faults>>

\* Supervisor.Start removes the old containers and begins a new hosts file.
UpStart ==
    /\ up = "down"
    /\ starts < MaxStarts
    /\ starts' = starts + 1
    /\ up' = "truncate"
    /\ started' = 0
    /\ text' = NoEntries
    /\ unwritten' = FALSE
    /\ ready' = {}
    /\ UNCHANGED <<hosts, resolver, callers, faults>>

\* WriteFile opens the file, which empties it...
Truncate ==
    /\ up = "truncate"
    /\ up' = "write"
    /\ file' = NoEntries
    /\ mtime' = mtime + 1
    /\ missed' = {}
    /\ UNCHANGED <<starts, started, text, unwritten, resolver, callers,
                   ready, faults>>

\* ... and once the file is written goes on with the next service; after the
\* last one faasd up starts its resolver and the proxies.
Proceed ==
    IF started < Len(Order)
    THEN /\ up' = "start"
         /\ UNCHANGED <<resolver, callers>>
    ELSE /\ up' = "runs"
         /\ Resolve("up")

\* The resolvers that have the file's modification time and look at the file
\* no more.
UpToDate == {p \in Process : poll[p] = "stat" /\ lastStat[p] = mtime}

\* The modification time is that of Truncate, or a later one.
Write ==
    /\ up = "write"
    /\ file' = text
    /\ \/ mtime' = mtime /\ missed' = UpToDate
       \/ mtime' = mtime + 1 /\ missed' = {}
    /\ Proceed
    /\ UNCHANGED <<starts, started, text, unwritten, ready, faults>>

\* Nothing is written: an error of the first write ends faasd up, one of a
\* later write is logged.
WriteFails ==
    /\ up = "write"
    /\ Fault
    /\ IF started = 0
       THEN /\ up' = "down"
            /\ UNCHANGED <<resolver, callers, unwritten>>
       ELSE /\ Proceed
            /\ unwritten' = TRUE
    /\ UNCHANGED <<starts, started, text, hosts, ready>>

\* The next container gets its address, which is added to what the hosts file
\* holds.
StartService ==
    /\ up = "start"
    /\ started' = started + 1
    /\ text' = [file EXCEPT ![Order[started + 1]] = starts]
    /\ up' = "truncate"
    /\ UNCHANGED <<starts, unwritten, hosts, resolver, callers, ready, faults>>

\* The file could not be read, which is logged: the text is this entry alone.
StartServiceUnread ==
    /\ up = "start"
    /\ Fault
    /\ started' = started + 1
    /\ text' = [NoEntries EXCEPT ![Order[started + 1]] = starts]
    /\ unwritten' = (unwritten \/ started > 0)
    /\ up' = "truncate"
    /\ UNCHANGED <<starts, hosts, resolver, callers, ready>>

\* faasd up ends; the containers go on.
UpCrash ==
    /\ up # "down"
    /\ Fault
    /\ up' = "down"
    /\ Forget("up")
    /\ UNCHANGED <<starts, started, text, unwritten, file, mtime, ready>>

ProviderStart ==
    /\ poll["provider"] = "off"
    /\ Resolve("provider")
    /\ UNCHANGED <<supervisor, hosts, ready, faults>>

ProviderCrash ==
    /\ poll["provider"] # "off"
    /\ Fault
    /\ Forget("provider")
    /\ UNCHANGED <<supervisor, file, mtime, ready>>

\* A service accepts connections some time after its task was started, which
\* is after its entry was written. Without faasd up it matters to nobody.
Ready(s) ==
    /\ s \notin ready
    /\ up # "down"
    /\ \E i \in 1 .. started :
        /\ Order[i] = s
        /\ i < started \/ up \in {"start", "runs"}
    /\ ready' = ready \cup {s}
    /\ UNCHANGED <<supervisor, hosts, resolver, callers, faults>>

-----------------------------------------------------------------------------
(* The resolver of process p.                                              *)

\* The lookups that have seen a poll of p end.
Polled(p) ==
    lookup' = [l \in Lookup |-> IF l[1] = p /\ lookup[l] = "asks"
                                THEN "polled" ELSE lookup[l]]

\* The modification time has changed, or nothing is to be done. The sleep
\* that follows is not a step.
Stat(p) ==
    /\ poll[p] = "stat"
    /\ IF mtime # lastStat[p]
       THEN /\ poll' = [poll EXCEPT ![p] = "read"]
            /\ lastStat' = [lastStat EXCEPT ![p] = mtime]
            /\ UNCHANGED lookup
       ELSE Polled(p) /\ UNCHANGED <<poll, lastStat>>
    /\ UNCHANGED <<supervisor, hosts, map, address, ready, faults>>

\* rebuild adds the entries of the file and removes none.
Rebuild(p) ==
    /\ poll[p] = "read"
    /\ poll' = [poll EXCEPT ![p] = "stat"]
    /\ map' = [map EXCEPT ![p] = [s \in Service |->
                   IF file[s] # 0 THEN file[s] ELSE @[s]]]
    /\ Polled(p)
    /\ UNCHANGED <<supervisor, hosts, lastStat, address, ready, faults>>

\* The file could not be read, which is logged; the time is kept.
RebuildFails(p) ==
    /\ poll[p] = "read"
    /\ Fault
    /\ poll' = [poll EXCEPT ![p] = "stat"]
    /\ missed' = IF lastStat[p] = mtime THEN missed \cup {p} ELSE missed
    /\ Polled(p)
    /\ UNCHANGED <<supervisor, file, mtime, lastStat, map, address, ready>>

-----------------------------------------------------------------------------
(* The lookups.                                                            *)

Open(l) == lookup[l] \in {"asks", "polled"}

\* Get finds the name; the provider serves, a proxy listens.
Get(l) ==
    /\ Open(l)
    /\ map[l[1]][l[2]] # 0
    /\ lookup' = [lookup EXCEPT ![l] = "answered"]
    /\ address' = [address EXCEPT ![l] = map[l[1]][l[2]]]
    /\ UNCHANGED <<supervisor, hosts, resolver, ready, faults>>

\* Mutant: the time runs out before the file was polled.
TimeOutEarly(l) ==
    /\ Open(l)
    /\ map[l[1]][l[2]] = 0
    /\ lookup' = [lookup EXCEPT ![l] = "silent"]
    /\ UNCHANGED <<supervisor, hosts, resolver, address, ready, faults>>

\* Get ends after 5 s, and sends nothing to the goroutine that waits for it.
TimeOut(l) ==
    /\ lookup[l] = "polled"
    /\ map[l[1]][l[2]] = 0
    /\ lookup' = [lookup EXCEPT ![l] = "silent"]
    /\ UNCHANGED <<supervisor, hosts, resolver, address, ready, faults>>

Answers(l) == address[l] = starts /\ l[2] \in ready

\* A proxy accepts a connection and dials the service: on an error Start
\* returns, and nothing listens on the port any more. What is forwarded is
\* left out, so that only the error changes the state.
Accept(l) ==
    /\ l[1] = "up"
    /\ lookup[l] = "answered"
    /\ ~ Answers(l)
    /\ lookup' = [lookup EXCEPT ![l] = "returned"]
    /\ UNCHANGED <<supervisor, hosts, resolver, address, ready, faults>>

Up == UpStart \/ Truncate \/ Write \/ StartService

Next ==
    \/ Up \/ WriteFails \/ StartServiceUnread \/ UpCrash
    \/ ProviderStart \/ ProviderCrash
    \/ \E s \in Service : Ready(s)
    \/ \E p \in Process : Stat(p) \/ Rebuild(p) \/ RebuildFails(p)
    \/ \E l \in Lookup : Get(l) \/ TimeOut(l) \/ Accept(l)

\* Both processes are started again when they have ended, the loops go on and
\* times run out; clients need not connect.
Fairness ==
    /\ WF_vars(Up)
    /\ WF_vars(ProviderStart)
    /\ \A p \in Process : WF_vars(Stat(p)) /\ WF_vars(Rebuild(p))
    /\ \A l \in Lookup : WF_vars(Get(l)) /\ WF_vars(TimeOut(l))

Spec == Init /\ [][Next]_vars /\ Fairness

-----------------------------------------------------------------------------
(* Properties.                                                             *)

\* No proxy is given the address of an earlier start's container, though the
\* hosts file outlives faasd up and the map keeps names (local_resolver.go:72).
CurrentAddress ==
    \A s \in Service :
        lookup[<<"up", s>>] \in {"answered", "returned"}
            => address[<<"up", s>>] = starts

\* When faasd up has come to rest every resolver has the addresses of the hosts
\* file, though the file was emptied and written in steps while it was polled
\* (local_resolver.go:38, supervisor.go:267), unless it could not read the file
\* or did so between the two steps of the last write, and these have one
\* modification time; and the lookups of the proxies were answered, unless an
\* address did not get into the file, the file could not be read or faasd up
\* has ended for good (local_resolver.go:78).
Settled ==
    /\ \A p \in Process \ missed, s \in Service :
           poll[p] # "off" /\ file[s] # 0 => map[p][s] = file[s]
    /\ up # "down" /\ ~ unwritten /\ "up" \notin missed
           => \A s \in Service : lookup[<<"up", s>>] \in {"answered", "returned"}

NamesSettle == <>[]Settled

-----------------------------------------------------------------------------
(* Why no address is old: an inductive invariant.                          *)

\* Entries of this start only.
Current(entries) == \A s \in Service : entries[s] \in {0, starts}

\* Supervisor.Start writes a hosts file of its own before it looks at it.
FileInv ==
    /\ up # "down" => Current(text)
    /\ up \in {"write", "start", "runs"} => Current(file)
    /\ up = "start" => started < Len(Order)

\* The resolver of faasd up reads that file only.
MapInv ==
    /\ poll["up"] # "off" => up = "runs" /\ Current(map["up"])
    /\ poll["up"] = "off" => map["up"] = NoEntries

IInv == TypeOK /\ FileInv /\ MapInv /\ CurrentAddress
=============================================================================
