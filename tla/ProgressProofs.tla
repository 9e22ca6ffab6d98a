--------------------------- MODULE ProgressProofs ---------------------------
(***************************************************************************)
(* Proofs about the resolver with the proxies, scaling, the ranking of     *)
(* nodes and log requests.  Each component has theorems of its own; at the *)
(* end they are stated of all components together.  That calls come to an  *)
(* end is left to TLC.                                                     *)
(***************************************************************************)
EXTENDS Progress, FiniteSetTheorems, SequenceTheorems, TLAPS

-----------------------------------------------------------------------------
(* The resolver.                                                           *)

\* The parts of the invariant.
LEMMA NamesParts ==
    Names!IInv <=>
        /\ starts \in 0 .. MaxStarts /\ mtime \in Nat
        /\ missed \subseteq Names!Process
        /\ up \in {"down", "truncate", "write", "start", "runs"}
        /\ started \in 0 .. Len(Order)
        /\ up = "runs" => started = Len(Order)
        /\ text \in Names!Entries /\ file \in Names!Entries
        /\ poll \in [Names!Process -> {"off", "stat", "read"}]
        /\ lastStat \in [Names!Process -> 0 .. mtime]
        /\ map \in [Names!Process -> Names!Entries]
        /\ lookup \in [Names!Lookup -> {"none", "asks", "polled", "silent",
                                        "answered", "returned"}]
        /\ address \in [Names!Lookup -> 0 .. MaxStarts]
        /\ \A l \in Names!Lookup : lookup[l] # "none" <=> poll[l[1]] # "off"
        /\ ready \subseteq Names!Service
        /\ faults \in 0 .. MaxFaults /\ unwritten \in BOOLEAN
        /\ Names!FileInv /\ Names!MapInv /\ Names!CurrentAddress
  BY DEF Names!IInv, Names!TypeOK

LEMMA NamesPartsNext ==
    ASSUME starts' \in 0 .. MaxStarts, mtime' \in Nat,
           missed' \subseteq Names!Process,
           up' \in {"down", "truncate", "write", "start", "runs"},
           started' \in 0 .. Len(Order),
           up' = "runs" => started' = Len(Order),
           text' \in Names!Entries, file' \in Names!Entries,
           poll' \in [Names!Process -> {"off", "stat", "read"}],
           lastStat' \in [Names!Process -> 0 .. mtime'],
           map' \in [Names!Process -> Names!Entries],
           lookup' \in [Names!Lookup -> {"none", "asks", "polled", "silent",
                                         "answered", "returned"}],
           address' \in [Names!Lookup -> 0 .. MaxStarts],
           \A l \in Names!Lookup : lookup'[l] # "none" <=> poll'[l[1]] # "off",
           ready' \subseteq Names!Service,
           faults' \in 0 .. MaxFaults, unwritten' \in BOOLEAN,
           Names!FileInv', Names!MapInv', Names!CurrentAddress'
    PROVE  Names!IInv'
  BY DEF Names!IInv, Names!TypeOK

LEMMA NamesLookups ==
    /\ \A s \in Names!Service :
           /\ <<"up", s>> \in Names!Lookup
           /\ <<"up", s>>[1] = "up" /\ <<"up", s>>[2] = s
    /\ "up" \in Names!Process /\ "provider" \in Names!Process
    /\ \A l \in Names!Lookup : l[1] \in Names!Process
  BY DEF Names!Lookup, Names!Process

\* Every lookup is for a service.
LEMMA NamesServed ==
    ASSUME Names!ResolverAssumption, NEW l \in Names!Lookup
    PROVE  l[1] \in Names!Process /\ l[2] \in Names!Service
  BY DEF Names!ResolverAssumption, Names!Lookup, Names!Process

LEMMA NamesZero ==
    ASSUME Names!ResolverAssumption
    PROVE  /\ Names!NoEntries \in Names!Entries
           /\ \A s \in Names!Service : Names!NoEntries[s] = 0
           /\ Names!Current(Names!NoEntries)
  BY DEF Names!NoEntries, Names!Entries, Names!Current, Names!ResolverAssumption

LEMMA NamesInit ==
    ASSUME Names!ResolverAssumption, Names!Init
    PROVE  Names!IInv
<1> USE NamesLookups, NamesZero DEF Names!Init
<1>1. starts \in 0 .. MaxStarts /\ starts \in Nat /\ Len(Order) \in Nat
  BY DEF Names!ResolverAssumption
<1>2. file \in Names!Entries
  BY <1>1 DEF Names!Entries
<1>3. Names!FileInv /\ Names!MapInv /\ Names!CurrentAddress
  BY DEF Names!FileInv, Names!MapInv, Names!CurrentAddress
<1>4. /\ poll \in [Names!Process -> {"off", "stat", "read"}]
      /\ lastStat \in [Names!Process -> 0 .. mtime]
      /\ map \in [Names!Process -> Names!Entries]
      /\ lookup \in [Names!Lookup -> {"none", "asks", "polled", "silent",
                                      "answered", "returned"}]
      /\ address \in [Names!Lookup -> 0 .. MaxStarts]
      /\ \A l \in Names!Lookup : lookup[l] # "none" <=> poll[l[1]] # "off"
  BY <1>1 DEF Names!ResolverAssumption
<1>5. faults \in 0 .. MaxFaults /\ mtime \in Nat /\ started \in 0 .. Len(Order)
  BY <1>1 DEF Names!ResolverAssumption
<1> QED
  BY <1>1, <1>2, <1>3, <1>4, <1>5, NamesParts

\* A process starts its resolver: nothing is asked yet, and the map is empty.
LEMMA NamesResolve ==
    ASSUME Names!IInv, NEW p \in Names!Process, Names!Resolve(p)
    PROVE  /\ poll' \in [Names!Process -> {"off", "stat", "read"}]
           /\ lookup' \in [Names!Lookup -> {"none", "asks", "polled", "silent",
                                            "answered", "returned"}]
           /\ \A l \in Names!Lookup : lookup'[l] # "none" <=> poll'[l[1]] # "off"
           /\ poll'[p] = "stat" /\ \A k \in Names!Process \ {p} : poll'[k] = poll[k]
           /\ \A l \in Names!Lookup : l[1] = p => lookup'[l] = "asks"
           /\ \A l \in Names!Lookup : l[1] # p => lookup'[l] = lookup[l]
  BY NamesParts, NamesLookups DEF Names!Resolve

\* What a process loses when it ends.
LEMMA NamesForget ==
    ASSUME Names!ResolverAssumption, Names!IInv, NEW p \in Names!Process,
           Names!Forget(p), UNCHANGED mtime
    PROVE  /\ missed' \subseteq Names!Process
           /\ poll' \in [Names!Process -> {"off", "stat", "read"}]
           /\ lastStat' \in [Names!Process -> 0 .. mtime']
           /\ map' \in [Names!Process -> Names!Entries]
           /\ lookup' \in [Names!Lookup -> {"none", "asks", "polled", "silent",
                                            "answered", "returned"}]
           /\ address' \in [Names!Lookup -> 0 .. MaxStarts]
           /\ \A l \in Names!Lookup : lookup'[l] # "none" <=> poll'[l[1]] # "off"
           /\ poll'[p] = "off" /\ map'[p] = Names!NoEntries
           /\ \A k \in Names!Process \ {p} : poll'[k] = poll[k] /\ map'[k] = map[k]
           /\ \A l \in Names!Lookup : l[1] = p => lookup'[l] = "none"
           /\ \A l \in Names!Lookup :
                  l[1] # p => lookup'[l] = lookup[l] /\ address'[l] = address[l]
<1>1. 0 \in 0 .. MaxStarts /\ 0 \in 0 .. mtime
  BY NamesParts DEF Names!ResolverAssumption
<1> QED
  BY <1>1, NamesParts, NamesLookups, NamesZero DEF Names!Forget

\* Steps that change neither what the resolvers do nor the lookups.
LEMMA NamesQuiet ==
    ASSUME Names!IInv, UNCHANGED <<poll, map, lookup, address>>,
           poll["up"] # "off" => up' = "runs" /\ starts' = starts
    PROVE  Names!MapInv' /\ Names!CurrentAddress'
<1>1. Names!MapInv'
  BY NamesParts DEF Names!MapInv, Names!Current
<1>2. \A s \in Names!Service :
          lookup[<<"up", s>>] # "none" => poll["up"] # "off"
  BY NamesParts, NamesLookups
<1>3. Names!CurrentAddress'
  BY <1>2, NamesParts DEF Names!CurrentAddress
<1> QED
  BY <1>1, <1>3

LEMMA NamesUpStart ==
    ASSUME Names!ResolverAssumption, Names!IInv, Names!UpStart
    PROVE  Names!IInv'
<1> USE DEF Names!UpStart, Names!hosts, Names!resolver, Names!callers
<1>1. poll["up"] = "off"
  BY NamesParts DEF Names!MapInv
<1>2. Names!MapInv' /\ Names!CurrentAddress'
  BY <1>1, NamesQuiet
<1>3. starts' \in 0 .. MaxStarts /\ started' \in 0 .. Len(Order)
  BY NamesParts DEF Names!ResolverAssumption
<1>4. Names!FileInv' /\ text' \in Names!Entries
  BY NamesZero DEF Names!FileInv, Names!Current
<1> QED
  BY <1>2, <1>3, <1>4, NamesParts, NamesPartsNext

LEMMA NamesTruncate ==
    ASSUME Names!ResolverAssumption, Names!IInv, Names!Truncate
    PROVE  Names!IInv'
<1> USE DEF Names!Truncate, Names!resolver, Names!callers
<1>1. poll["up"] = "off"
  BY NamesParts DEF Names!MapInv
<1>2. Names!MapInv' /\ Names!CurrentAddress'
  BY <1>1, NamesQuiet
<1>3. mtime' \in Nat /\ lastStat' \in [Names!Process -> 0 .. mtime']
  BY NamesParts
<1>4. Names!FileInv' /\ file' \in Names!Entries
  BY NamesZero, NamesParts DEF Names!FileInv, Names!Current
<1> QED
  BY <1>2, <1>3, <1>4, NamesParts, NamesPartsNext

\* After a write, or one that has failed: with the last service faasd up
\* begins to resolve.
LEMMA NamesProceed ==
    ASSUME Names!ResolverAssumption, Names!IInv, up = "write", Names!Proceed,
           UNCHANGED <<starts, started, text, ready>>,
           mtime' \in Nat, mtime' >= mtime, file' \in {file, text},
           missed' \subseteq Names!Process,
           unwritten' \in BOOLEAN, faults' \in 0 .. MaxFaults
    PROVE  Names!IInv'
<1> USE NamesLookups
<1>1. Names!Current(text) /\ Names!Current(file) /\ Len(Order) \in Nat
  BY NamesParts DEF Names!FileInv, Names!ResolverAssumption
<1>2. /\ poll["up"] = "off" /\ map["up"] = Names!NoEntries
  BY NamesParts DEF Names!MapInv
<1>3. lastStat \in [Names!Process -> 0 .. mtime']
  BY NamesParts
<1>4. Names!Current(text)' /\ Names!Current(file)'
  BY <1>1 DEF Names!Current
<1>5. CASE started < Len(Order)
  <2>1. up' = "start" /\ UNCHANGED <<poll, lastStat, map, lookup, address>>
    BY <1>5 DEF Names!Proceed, Names!resolver, Names!callers
  <2>2. Names!MapInv' /\ Names!CurrentAddress'
    BY <1>2, <2>1, NamesQuiet
  <2>3. Names!FileInv'
    BY <1>4, <1>5, <2>1 DEF Names!FileInv
  <2> QED
    BY <1>3, <2>1, <2>2, <2>3, NamesParts, NamesPartsNext
<1>6. CASE ~ (started < Len(Order))
  <2>1. up' = "runs" /\ Names!Resolve("up") /\ UNCHANGED <<lastStat, map, address>>
    BY <1>6 DEF Names!Proceed, Names!Resolve
  <2>2. started = Len(Order)
    BY <1>1, <1>6, NamesParts
  <2>3. Names!FileInv'
    BY <1>4, <2>1 DEF Names!FileInv
  <2>4. Names!MapInv'
    BY <1>2, <2>1, NamesZero, NamesResolve DEF Names!MapInv, Names!Current
  <2>5. Names!CurrentAddress'
    BY <2>1, NamesResolve DEF Names!CurrentAddress
  <2> QED
    BY <1>3, <2>1, <2>2, <2>3, <2>4, <2>5, NamesParts, NamesPartsNext, NamesResolve
<1> QED
  BY <1>5, <1>6

LEMMA NamesWrite ==
    ASSUME Names!ResolverAssumption, Names!IInv, Names!Write
    PROVE  Names!IInv'
<1>1. mtime' \in Nat /\ mtime' >= mtime /\ missed' \subseteq Names!Process
  BY NamesParts DEF Names!Write, Names!UpToDate
<1> QED
  BY <1>1, NamesProceed, NamesParts DEF Names!Write

LEMMA NamesWriteFails ==
    ASSUME Names!ResolverAssumption, Names!IInv, Names!WriteFails
    PROVE  Names!IInv'
<1> USE DEF Names!WriteFails, Names!hosts
<1>1. faults' \in 0 .. MaxFaults
  BY NamesParts DEF Names!Fault, Names!ResolverAssumption
<1>2. CASE started = 0
  <2>1. up' = "down" /\ UNCHANGED <<poll, lastStat, map, lookup, address, unwritten>>
    BY <1>2 DEF Names!resolver, Names!callers
  <2>2. poll["up"] = "off"
    BY NamesParts DEF Names!MapInv
  <2>3. Names!MapInv' /\ Names!CurrentAddress'
    BY <2>1, <2>2, NamesQuiet
  <2>4. Names!FileInv'
    BY <2>1 DEF Names!FileInv
  <2> QED
    BY <1>1, <2>1, <2>3, <2>4, NamesParts, NamesPartsNext
<1>3. CASE started # 0
  <2>1. mtime' \in Nat /\ mtime' >= mtime /\ missed' \subseteq Names!Process
    BY NamesParts
  <2> QED
    BY <1>1, <1>3, <2>1, NamesProceed
<1> QED
  BY <1>2, <1>3

LEMMA NamesStartService ==
    ASSUME Names!ResolverAssumption, Names!IInv, Names!StartService
    PROVE  Names!IInv'
<1> USE DEF Names!StartService, Names!hosts, Names!resolver, Names!callers
<1>1. poll["up"] = "off"
  BY NamesParts DEF Names!MapInv
<1>2. Names!MapInv' /\ Names!CurrentAddress'
  BY <1>1, NamesQuiet
<1>3. started' \in 0 .. Len(Order)
  BY NamesParts DEF Names!FileInv, Names!ResolverAssumption
<1>4. text' \in Names!Entries
  BY NamesParts DEF Names!Entries
<1>5. Names!Current(text)'
  <2>1. file \in [Names!Service -> 0 .. MaxStarts] /\ Names!Current(file)
    BY NamesParts DEF Names!FileInv, Names!Entries
  <2> QED
    BY <2>1 DEF Names!Current
<1>6. Names!FileInv'
  BY <1>5 DEF Names!FileInv
<1> QED
  BY <1>2, <1>3, <1>4, <1>6, NamesParts, NamesPartsNext

LEMMA NamesStartServiceUnread ==
    ASSUME Names!ResolverAssumption, Names!IInv, Names!StartServiceUnread
    PROVE  Names!IInv'
<1> USE DEF Names!StartServiceUnread, Names!hosts, Names!resolver, Names!callers
<1>1. poll["up"] = "off"
  BY NamesParts DEF Names!MapInv
<1>2. Names!MapInv' /\ Names!CurrentAddress'
  BY <1>1, NamesQuiet
<1>3. started' \in 0 .. Len(Order) /\ faults' \in 0 .. MaxFaults
  BY NamesParts DEF Names!FileInv, Names!Fault, Names!ResolverAssumption
<1>4. text' \in Names!Entries
  BY NamesParts, NamesZero DEF Names!Entries
<1>5. Names!Current(text)'
  BY NamesZero, NamesParts DEF Names!Current, Names!Entries
<1>6. Names!FileInv'
  BY <1>5 DEF Names!FileInv
<1>7. unwritten' \in BOOLEAN
  BY Zenon
<1> QED
  BY <1>2, <1>3, <1>4, <1>6, <1>7, NamesParts, NamesPartsNext

LEMMA NamesUpCrash ==
    ASSUME Names!ResolverAssumption, Names!IInv, Names!UpCrash
    PROVE  Names!IInv'
<1> USE NamesLookups DEF Names!UpCrash, Names!hosts
<1>1. faults' \in 0 .. MaxFaults
  BY NamesParts DEF Names!Fault, Names!ResolverAssumption
<1>2. Names!FileInv'
  BY DEF Names!FileInv
<1>3. Names!MapInv'
  BY NamesForget DEF Names!MapInv
<1>4. Names!CurrentAddress'
  BY NamesForget DEF Names!CurrentAddress
<1> QED
  BY <1>1, <1>2, <1>3, <1>4, NamesParts, NamesPartsNext, NamesForget

LEMMA NamesProviderStart ==
    ASSUME Names!ResolverAssumption, Names!IInv, Names!ProviderStart
    PROVE  Names!IInv'
<1> USE NamesLookups DEF Names!ProviderStart, Names!hosts, Names!supervisor
<1>0. UNCHANGED <<lastStat, map, address>>
  BY DEF Names!Resolve
<1>1. Names!FileInv'
  BY NamesParts DEF Names!FileInv, Names!Current
<1>2. poll'["up"] = poll["up"]
  BY NamesResolve
<1>3. Names!MapInv'
  BY <1>0, <1>2, NamesParts DEF Names!MapInv, Names!Current
<1>4. \A s \in Names!Service : lookup'[<<"up", s>>] = lookup[<<"up", s>>]
  BY NamesResolve
<1>5. Names!CurrentAddress'
  BY <1>0, <1>4, NamesParts DEF Names!CurrentAddress
<1> QED
  BY <1>0, <1>1, <1>3, <1>5, NamesParts, NamesPartsNext, NamesResolve

LEMMA NamesProviderCrash ==
    ASSUME Names!ResolverAssumption, Names!IInv, Names!ProviderCrash
    PROVE  Names!IInv'
<1> USE NamesLookups DEF Names!ProviderCrash, Names!hosts, Names!supervisor
<1>0. faults' \in 0 .. MaxFaults
  BY NamesParts DEF Names!Fault, Names!ResolverAssumption
<1>1. Names!FileInv'
  BY NamesParts DEF Names!FileInv, Names!Current
<1>2. poll'["up"] = poll["up"] /\ map'["up"] = map["up"]
  BY NamesForget
<1>3. Names!MapInv'
  BY <1>2, NamesParts DEF Names!MapInv, Names!Current
<1>4. \A s \in Names!Service : /\ lookup'[<<"up", s>>] = lookup[<<"up", s>>]
                               /\ address'[<<"up", s>>] = address[<<"up", s>>]
  BY NamesForget
<1>5. Names!CurrentAddress'
  BY <1>4, NamesParts DEF Names!CurrentAddress
<1> QED
  BY <1>0, <1>1, <1>3, <1>5, NamesParts, NamesPartsNext, NamesForget

LEMMA NamesReady ==
    ASSUME Names!IInv, NEW s \in Names!Service, Names!Ready(s)
    PROVE  Names!IInv'
<1> USE DEF Names!Ready, Names!hosts, Names!supervisor, Names!resolver, Names!callers
<1>1. Names!FileInv'
  BY NamesParts DEF Names!FileInv, Names!Current
<1>2. Names!MapInv' /\ Names!CurrentAddress'
  BY NamesQuiet, NamesParts DEF Names!MapInv
<1> QED
  BY <1>1, <1>2, NamesParts, NamesPartsNext

\* A poll that has ended changes no lookup but those that wait for it.
LEMMA NamesPolled ==
    ASSUME Names!IInv, NEW p \in Names!Process, Names!Polled(p)
    PROVE  /\ lookup' \in [Names!Lookup -> {"none", "asks", "polled", "silent",
                                            "answered", "returned"}]
           /\ \A l \in Names!Lookup :
                  /\ lookup'[l] = "none" <=> lookup[l] = "none"
                  /\ lookup'[l] \in {"answered", "returned"} => lookup'[l] = lookup[l]
  BY NamesParts DEF Names!Polled

\* Steps of a resolver and of lookups: supervisor and file stay.
LEMMA NamesWork ==
    ASSUME Names!IInv,
           UNCHANGED <<starts, up, started, text, unwritten, file, mtime, missed, ready,
                       faults>>,
           poll' \in [Names!Process -> {"off", "stat", "read"}],
           lastStat' \in [Names!Process -> 0 .. mtime],
           map' \in [Names!Process -> Names!Entries],
           lookup' \in [Names!Lookup -> {"none", "asks", "polled", "silent",
                                         "answered", "returned"}],
           address' \in [Names!Lookup -> 0 .. MaxStarts],
           \A p \in Names!Process : poll'[p] = "off" <=> poll[p] = "off",
           \A l \in Names!Lookup : lookup'[l] = "none" <=> lookup[l] = "none",
           Names!MapInv', Names!CurrentAddress'
    PROVE  Names!IInv'
<1>1. Names!FileInv'
  BY NamesParts DEF Names!FileInv, Names!Current
<1>2. \A l \in Names!Lookup : lookup'[l] # "none" <=> poll'[l[1]] # "off"
  BY NamesParts, NamesLookups
<1>3. lastStat' \in [Names!Process -> 0 .. mtime']
  OBVIOUS
<1> QED
  BY <1>1, <1>2, <1>3, NamesParts, NamesPartsNext

LEMMA NamesStat ==
    ASSUME Names!IInv, NEW p \in Names!Process, Names!Stat(p)
    PROVE  Names!IInv'
<1> USE NamesLookups DEF Names!hosts, Names!supervisor
<1>0. /\ UNCHANGED <<starts, up, started, text, unwritten, file, mtime, missed,
                     ready, faults>>
      /\ UNCHANGED <<map, address>>
  BY DEF Names!Stat
<1>1. /\ poll' \in [Names!Process -> {"off", "stat", "read"}]
      /\ lastStat' \in [Names!Process -> 0 .. mtime]
      /\ \A k \in Names!Process : poll'[k] = "off" <=> poll[k] = "off"
  <2>1. /\ mtime \in 0 .. mtime /\ poll[p] = "stat"
        /\ poll \in [Names!Process -> {"off", "stat", "read"}]
        /\ lastStat \in [Names!Process -> 0 .. mtime]
    BY NamesParts DEF Names!Stat
  <2>2. /\ poll' \in {poll, [poll EXCEPT ![p] = "read"]}
        /\ lastStat' \in {lastStat, [lastStat EXCEPT ![p] = mtime]}
    BY DEF Names!Stat
  <2> HIDE DEF Names!hosts, Names!supervisor
  <2> QED
    BY <2>1, <2>2
<1>2. /\ lookup' \in [Names!Lookup -> {"none", "asks", "polled", "silent",
                                       "answered", "returned"}]
      /\ \A l \in Names!Lookup :
             /\ lookup'[l] = "none" <=> lookup[l] = "none"
             /\ lookup'[l] \in {"answered", "returned"} => lookup'[l] = lookup[l]
  BY NamesParts, NamesPolled DEF Names!Stat
<1>3. Names!MapInv'
  BY <1>0, <1>1, NamesParts DEF Names!MapInv, Names!Current
<1>4. Names!CurrentAddress'
  BY <1>0, <1>2, NamesParts DEF Names!CurrentAddress
<1> QED
  BY <1>0, <1>1, <1>2, <1>3, <1>4, NamesParts, NamesWork

\* The resolver of faasd up reads the file of this start.
LEMMA NamesRebuild ==
    ASSUME Names!IInv, NEW p \in Names!Process, Names!Rebuild(p)
    PROVE  Names!IInv'
<1> USE NamesLookups DEF Names!hosts, Names!supervisor
<1> DEFINE m == [s \in Names!Service |-> IF file[s] # 0 THEN file[s] ELSE map[p][s]]
<1>0. /\ UNCHANGED <<starts, up, started, text, unwritten, file, mtime, missed,
                     ready, faults>>
      /\ UNCHANGED <<lastStat, address>>
      /\ poll[p] = "read" /\ poll' = [poll EXCEPT ![p] = "stat"]
      /\ map' = [map EXCEPT ![p] = m]
      /\ Names!Polled(p)
  BY DEF Names!Rebuild
<1>1. m \in Names!Entries
  <2>1. file \in Names!Entries /\ map[p] \in Names!Entries
    BY NamesParts
  <2> QED
    BY <2>1 DEF Names!Entries
<1>2. \A s \in Names!Service : m[s] \in {file[s], map[p][s]}
  OBVIOUS
<1> HIDE DEF m
<1>3. /\ poll' \in [Names!Process -> {"off", "stat", "read"}]
      /\ \A k \in Names!Process : poll'[k] = "off" <=> poll[k] = "off"
      /\ map' \in [Names!Process -> Names!Entries]
      /\ map'["up"] = IF p = "up" THEN m ELSE map["up"]
  BY <1>0, <1>1, NamesParts
<1>4. Names!MapInv'
  <2>1. CASE p = "up"
    <3>1. up = "runs" /\ Names!Current(map["up"]) /\ Names!Current(file)
      BY <1>0, <2>1, NamesParts DEF Names!MapInv, Names!FileInv
    <3>2. \A s \in Names!Service : m[s] \in {0, starts}
      BY <1>2, <2>1, <3>1 DEF Names!Current
    <3>3. Names!Current(map["up"])'
      BY <1>0, <1>3, <2>1, <3>2 DEF Names!Current
    <3>4. poll'["up"] # "off" /\ up' = "runs"
      BY <1>0, <1>3, <2>1, <3>1
    <3> QED
      BY <3>3, <3>4 DEF Names!MapInv
  <2>2. CASE p # "up"
    BY <1>0, <1>3, <2>2, NamesParts DEF Names!MapInv, Names!Current
  <2> QED
    BY <2>1, <2>2
<1>5. Names!CurrentAddress'
  BY <1>0, NamesPolled, NamesParts DEF Names!CurrentAddress
<1> QED
  BY <1>0, <1>3, <1>4, <1>5, NamesParts, NamesPolled, NamesWork

LEMMA NamesRebuildFails ==
    ASSUME Names!ResolverAssumption, Names!IInv, NEW p \in Names!Process,
           Names!RebuildFails(p)
    PROVE  Names!IInv'
<1> USE NamesLookups DEF Names!supervisor
<1>0. /\ UNCHANGED <<starts, up, started, text, unwritten, file, mtime, ready>>
      /\ UNCHANGED <<lastStat, map, address>>
      /\ poll[p] = "read" /\ poll' = [poll EXCEPT ![p] = "stat"]
      /\ Names!Polled(p)
  BY DEF Names!RebuildFails
<1>1. missed' \subseteq Names!Process /\ faults' \in 0 .. MaxFaults
  BY NamesParts DEF Names!RebuildFails, Names!Fault, Names!ResolverAssumption
<1>2. /\ poll' \in [Names!Process -> {"off", "stat", "read"}]
      /\ \A k \in Names!Process : poll'[k] = "off" <=> poll[k] = "off"
  BY <1>0, NamesParts
<1>3. \A l \in Names!Lookup : lookup'[l] # "none" <=> poll'[l[1]] # "off"
  BY <1>0, <1>2, NamesParts, NamesPolled
<1>4. Names!FileInv'
  BY <1>0, NamesParts DEF Names!FileInv, Names!Current
<1>5. Names!MapInv'
  BY <1>0, <1>2, NamesParts DEF Names!MapInv, Names!Current
<1>6. Names!CurrentAddress'
  BY <1>0, NamesPolled, NamesParts DEF Names!CurrentAddress
<1> QED
  BY <1>0, <1>1, <1>2, <1>3, <1>4, <1>5, <1>6, NamesParts, NamesPolled,
     NamesPartsNext

\* A lookup that is no longer open.
LEMMA NamesLookupEnds ==
    ASSUME Names!IInv, NEW l \in Names!Lookup, lookup[l] # "none",
           NEW state \in {"silent", "answered", "returned"},
           lookup' = [lookup EXCEPT ![l] = state],
           address' \in [Names!Lookup -> 0 .. MaxStarts],
           \A k \in Names!Lookup \ {l} : address'[k] = address[k],
           l[1] = "up" /\ state # "silent" => address'[l] = starts,
           UNCHANGED <<starts, up, started, text, unwritten, file, mtime, missed, ready,
                       faults>>,
           UNCHANGED <<poll, lastStat, map>>
    PROVE  Names!IInv'
<1> USE NamesLookups
<1>1. /\ lookup' \in [Names!Lookup -> {"none", "asks", "polled", "silent",
                                       "answered", "returned"}]
      /\ \A k \in Names!Lookup : lookup'[k] = IF k = l THEN state ELSE lookup[k]
  BY NamesParts
<1>2. Names!MapInv'
  BY NamesParts DEF Names!MapInv, Names!Current
<1>3. Names!CurrentAddress'
  <2> SUFFICES ASSUME NEW s \in Names!Service,
                      lookup'[<<"up", s>>] \in {"answered", "returned"}
               PROVE  address'[<<"up", s>>] = starts
    BY DEF Names!CurrentAddress
  <2>1. CASE <<"up", s>> = l
    <3>1. l[1] = "up" /\ state # "silent"
      BY <1>1, <2>1
    <3> QED
      BY <2>1, <3>1
  <2>2. CASE <<"up", s>> # l
    BY <1>1, <2>2, NamesParts DEF Names!CurrentAddress
  <2> QED
    BY <2>1, <2>2
<1>4. \A k \in Names!Lookup : lookup'[k] = "none" <=> lookup[k] = "none"
  BY <1>1
<1> QED
  BY <1>1, <1>2, <1>3, <1>4, NamesParts, NamesWork

LEMMA NamesGet ==
    ASSUME Names!ResolverAssumption, Names!IInv, NEW l \in Names!Lookup,
           Names!Get(l)
    PROVE  Names!IInv'
<1> USE NamesLookups DEF Names!Get, Names!hosts, Names!supervisor, Names!resolver
<1>1. l[1] \in Names!Process /\ l[2] \in Names!Service
  BY NamesServed
<1>2. map[l[1]][l[2]] \in 0 .. MaxStarts
  <2>1. map[l[1]] \in Names!Entries
    BY <1>1, NamesParts
  <2> QED
    BY <1>1, <2>1 DEF Names!Entries
<1>3. lookup[l] # "none" /\ poll[l[1]] # "off"
  BY NamesParts DEF Names!Open
<1>4. l[1] = "up" => map[l[1]][l[2]] = starts
  BY <1>1, <1>3, NamesParts DEF Names!MapInv, Names!Current
<1>5. /\ address' \in [Names!Lookup -> 0 .. MaxStarts]
      /\ address'[l] = map[l[1]][l[2]]
      /\ \A k \in Names!Lookup \ {l} : address'[k] = address[k]
  BY <1>2, NamesParts
<1> QED
  BY <1>3, <1>4, <1>5, NamesLookupEnds

LEMMA NamesTimeOut ==
    ASSUME Names!IInv, NEW l \in Names!Lookup, Names!TimeOut(l)
    PROVE  Names!IInv'
  BY NamesParts, NamesLookupEnds
  DEF Names!TimeOut, Names!hosts, Names!supervisor, Names!resolver

LEMMA NamesAccept ==
    ASSUME Names!IInv, NEW l \in Names!Lookup, Names!Accept(l)
    PROVE  Names!IInv'
<1> USE DEF Names!Accept, Names!hosts, Names!supervisor, Names!resolver
<1>1. PICK s \in Names!Service : l = <<"up", s>>
  BY DEF Names!Lookup
<1>2. address[l] = starts
  BY <1>1, NamesParts DEF Names!CurrentAddress
<1> QED
  BY <1>2, NamesParts, NamesLookupEnds

\* The invariant of the resolver.
LEMMA NamesInvariance ==
    ASSUME Names!ResolverAssumption
    PROVE  Names!Init /\ [][Names!Next]_(Names!vars) => []Names!IInv
<1>1. Names!Init => Names!IInv
  BY NamesInit
<1>2. Names!IInv /\ [Names!Next]_(Names!vars) => Names!IInv'
  <2> SUFFICES ASSUME Names!IInv, [Names!Next]_(Names!vars) PROVE Names!IInv'
    OBVIOUS
  <2>1. CASE Names!Next
    BY <2>1, NamesUpStart, NamesTruncate, NamesWrite, NamesStartService,
       NamesWriteFails, NamesStartServiceUnread, NamesUpCrash, NamesProviderStart, NamesProviderCrash,
       NamesReady, NamesStat, NamesRebuild,
       NamesRebuildFails, NamesGet, NamesTimeOut, NamesAccept
    DEF Names!Next, Names!Up
  <2>2. CASE UNCHANGED Names!vars
    BY <2>2 DEF Names!vars, Names!supervisor, Names!hosts, Names!resolver,
       Names!callers, Names!IInv, Names!TypeOK, Names!FileInv, Names!MapInv,
       Names!CurrentAddress, Names!Current
  <2> QED
    BY <2>1, <2>2
<1> QED
  BY <1>1, <1>2, PTL

\* No proxy of faasd up is given the address of an earlier start, for any
\* services and any number of starts and faults (local_resolver.go:72).
THEOREM AddressesAreCurrent ==
    ASSUME Names!ResolverAssumption
    PROVE  Names!Init /\ [][Names!Next]_(Names!vars) => []Names!CurrentAddress
<1>1. Names!IInv => Names!CurrentAddress
  BY DEF Names!IInv
<1> QED
  BY <1>1, NamesInvariance, PTL

-----------------------------------------------------------------------------
(* Scaling.                                                                *)

\* The replicas wanted by a handler that was asked for d.
Goal(d) == Scale!Min({d, MaxReplicas})

\* The invariant for a handler h in state q.
Marked(h, q) ==
    h[2] = "peer" => /\ q.pc \notin {"up", "loop", "call", "down", "ok"}
                     /\ q.pc = "decide" => q.marked

Adds(q) ==
    /\ q.pc \in {"decide", "up"} => q.made = 0 /\ q.counted = 0 /\ q.pos = 1
    /\ q.counted - q.made \in 0 .. 1
    /\ q.pos = 1 => q.counted = q.made
    /\ q.pos # 0
    /\ q.counted # 0 \/ q.pc \in {"loop", "call"}
           => q.seen > Goal(q.desired) \/ q.counted + q.cnt <= Goal(q.desired) - q.seen

World ==
    /\ container \in SUBSET Node /\ waiting \in SUBSET Node
    /\ listed \in SUBSET Node
    /\ view \in [Node -> [Node -> 0 .. 1]]
    /\ overload \in [Node -> SUBSET Node]
    /\ failures \in 0 .. MaxFailures

Handled == req \in [Scale!Handler -> Scale!HandlerState]

Good == \A h \in Scale!Handler : Marked(h, req[h]) /\ Adds(req[h])

LEMMA ScaleHandlers ==
    ASSUME NEW h \in Scale!Handler
    PROVE  /\ h = <<h[1], h[2]>> /\ h[1] \in Request /\ h[2] \in {"client", "peer"}
           /\ Scale!Callee(h) \in Scale!Handler
           /\ Scale!Callee(h)[2] = "peer"
           /\ h[2] = "client" => Scale!Callee(h) # h
  BY DEF Scale!Handler, Scale!Callee

LEMMA ScaleParts == Scale!IInv <=> World /\ Handled /\ Good
<1>1. Scale!TypeOK <=> World /\ Handled
  BY DEF Scale!TypeOK, World, Handled
<1>2. (\A k \in Request : Scale!MarkInv(k)) <=> \A h \in Scale!Handler : Marked(h, req[h])
  <2>1. \A k \in Request : <<k, "peer">> \in Scale!Handler /\ <<k, "peer">>[2] = "peer"
    BY DEF Scale!Handler
  <2>2. \A h \in Scale!Handler : h[2] = "peer" => h[1] \in Request /\ h = <<h[1], "peer">>
    BY DEF Scale!Handler
  <2> QED
    BY <2>1, <2>2 DEF Scale!MarkInv, Marked
<1>3. \A h \in Scale!Handler : Scale!CountInv(h) <=> Adds(req[h])
  BY DEF Scale!CountInv, Adds, Goal, Scale!Target
<1> QED
  BY <1>1, <1>2, <1>3 DEF Scale!IInv, Good

LEMMA ScalePartsNext ==
    ASSUME World', Handled', Good'
    PROVE  Scale!IInv'
<1>1. Scale!TypeOK'
  BY DEF Scale!TypeOK, World, Handled
<1>2. \A k \in Request : Scale!MarkInv(k)'
  <2>1. \A k \in Request : <<k, "peer">> \in Scale!Handler /\ <<k, "peer">>[2] = "peer"
    BY DEF Scale!Handler
  <2> QED
    BY <2>1 DEF Scale!MarkInv, Marked, Good
<1>3. \A h \in Scale!Handler : Scale!CountInv(h)'
  BY DEF Scale!CountInv, Adds, Goal, Scale!Target, Good
<1> QED
  BY <1>1, <1>2, <1>3 DEF Scale!IInv

\* Handlers of which each stays as it is, or is good.
LEMMA ScaleStep ==
    ASSUME Scale!IInv, World',
           req' \in [Scale!Handler -> Scale!HandlerState],
           \A h \in Scale!Handler :
               req'[h] = req[h] \/ (Marked(h, req'[h]) /\ Adds(req'[h]))
    PROVE  Scale!IInv'
<1>1. Handled' /\ Good'
  BY ScaleParts DEF Handled, Good
<1> QED
  BY <1>1, ScalePartsNext

LEMMA ScaleGoal ==
    ASSUME Scale!ScalingAssumption, NEW d \in Nat
    PROVE  /\ Goal(d) \in Nat /\ Goal(d) <= d /\ Goal(d) <= MaxReplicas
           /\ Goal(d) < 2 ^ Width
<1>1. MaxReplicas \in Nat /\ MaxReplicas < 2 ^ Width /\ 2 ^ Width \in Nat
  BY DEF Scale!ScalingAssumption
<1>2. \E x \in {d, MaxReplicas} : \A y \in {d, MaxReplicas} : x =< y
  BY <1>1
<1>3. Goal(d) \in {d, MaxReplicas} /\ \A y \in {d, MaxReplicas} : Goal(d) =< y
  BY <1>2 DEF Goal, Scale!Min
<1> QED
  BY <1>1, <1>3

\* The total a node sees is a number.
LEMMA ScaleTotal ==
    ASSUME Scale!ScalingAssumption, NEW n \in Node
    PROVE  Scale!Total(n) \in Nat
<1>1. \A S : Scale!Cardinality(S) = Cardinality(S)
  BY DEF Scale!Cardinality, Cardinality
<1>2. Scale!IsFiniteSet(Node) <=> IsFiniteSet(Node)
  BY DEF Scale!IsFiniteSet, IsFiniteSet
<1>3. IsFiniteSet({m \in Node : view[n][m] = 1})
  BY <1>2, FS_Subset DEF Scale!ScalingAssumption
<1> QED
  BY <1>1, <1>3, FS_CardinalityType DEF Scale!Total

\* The difference does not wrap unless the total has passed the goal.
LEMMA ScaleMinus ==
    ASSUME NEW a \in Nat, NEW b \in Nat, 2 ^ Width \in Nat, a < 2 ^ Width
    PROVE  /\ Scale!Minus(a, b) \in 0 .. 2 ^ Width - 1
           /\ b <= a => Scale!Minus(a, b) = a - b
<1> DEFINE m == 2 ^ Width
<1>1. m \in Nat /\ m > 0 /\ a < m
  OBVIOUS
<1>2. Scale!Minus(a, b) = (a - b) % m
  BY DEF Scale!Minus
<1> HIDE DEF m
<1>3. (a - b) % m \in 0 .. m - 1
  BY <1>1
<1>4. b <= a => (a - b) % m = a - b
  BY <1>1
<1> QED
  BY <1>2, <1>3, <1>4 DEF m

\* A handler that has nothing to do.
LEMMA ScaleFresh ==
    ASSUME Scale!ScalingAssumption, NEW n \in Node
    PROVE  /\ Scale!Idle(n) \in Scale!HandlerState /\ Adds(Scale!Idle(n))
           /\ Scale!Idle(n).pc = "idle" /\ Scale!Idle(n).pos = 1
           /\ Scale!Idle(n).made = 0 /\ Scale!Idle(n).counted = 0
<1>1. 0 \in 0 .. MaxAsked /\ 0 \in 0 .. 2 ^ Width - 1
  BY DEF Scale!ScalingAssumption
<1>2. Scale!Idle(n) \in Scale!HandlerState
  BY <1>1 DEF Scale!Idle, Scale!HandlerState
<1>3. /\ Scale!Idle(n).pc = "idle" /\ Scale!Idle(n).pos = 1
      /\ Scale!Idle(n).made = 0 /\ Scale!Idle(n).counted = 0
  BY DEF Scale!Idle
<1>4. Adds(Scale!Idle(n))
  BY <1>3 DEF Adds
<1> QED
  BY <1>2, <1>3, <1>4

\* A handler that has begun, asked by a client and by a node.
LEMMA ScaleBegins ==
    ASSUME Scale!ScalingAssumption, NEW n \in Node, NEW d \in 0 .. MaxAsked
    PROVE  /\ LET q == [Scale!Idle(n) EXCEPT !.pc = "decide", !.desired = d]
              IN  q \in Scale!HandlerState /\ Adds(q)
           /\ LET q == [Scale!Idle(n) EXCEPT !.pc = "decide", !.desired = d,
                                             !.marked = Scale!Marks]
              IN  q \in Scale!HandlerState /\ Adds(q) /\ q.pc = "decide" /\ q.marked
<1> DEFINE r == Scale!Idle(n)
           q1 == [r EXCEPT !.pc = "decide", !.desired = d]
           q2 == [r EXCEPT !.pc = "decide", !.desired = d, !.marked = Scale!Marks]
<1>1. r \in Scale!HandlerState /\ r.pos = 1 /\ r.made = 0 /\ r.counted = 0
  BY ScaleFresh
<1> HIDE DEF r
<1>2. q1 \in Scale!HandlerState /\ q2 \in Scale!HandlerState
  BY <1>1 DEF Scale!HandlerState, Scale!Marks
<1>3. /\ q1.pc = "decide" /\ q1.pos = 1 /\ q1.made = 0 /\ q1.counted = 0
      /\ q2.pc = "decide" /\ q2.pos = 1 /\ q2.made = 0 /\ q2.counted = 0
      /\ q2.marked
  BY <1>1 DEF Scale!HandlerState, Scale!Marks
<1> HIDE DEF q1, q2
<1>4. Adds(q1) /\ Adds(q2)
  BY <1>3 DEF Adds
<1> QED
  BY <1>2, <1>3, <1>4 DEF q1, q2, r

LEMMA ScaleInit ==
    ASSUME Scale!ScalingAssumption, Scale!Init
    PROVE  Scale!IInv
<1> DEFINE n0 == CHOOSE n \in Node : TRUE
<1>0. n0 \in Node
  BY DEF Scale!ScalingAssumption
<1>1. World
  BY DEF World, Scale!Init, Scale!ScalingAssumption
<1>2. req = [h \in Scale!Handler |-> Scale!Idle(n0)]
  BY DEF Scale!Init
<1> HIDE DEF n0
<1>3. Handled
  BY <1>0, <1>2, ScaleFresh DEF Handled
<1>4. Good
  BY <1>0, <1>2, ScaleFresh DEF Good, Marked
<1> QED
  BY <1>1, <1>3, <1>4, ScaleParts

\* One handler moves.
LEMMA ScaleMove ==
    ASSUME Scale!IInv, World', NEW h \in Scale!Handler,
           NEW q \in Scale!HandlerState, req' = [req EXCEPT ![h] = q],
           Marked(h, q), Adds(q)
    PROVE  Scale!IInv'
  BY ScaleParts, ScaleStep DEF Handled

LEMMA ScaleAsk ==
    ASSUME Scale!ScalingAssumption, Scale!IInv, NEW h \in Scale!Handler,
           NEW n \in Node, NEW r \in 0 .. MaxAsked, Scale!Ask(h, n, r)
    PROVE  Scale!IInv'
<1>1. World'
  BY ScaleParts DEF Scale!Ask, World
<1>2. Marked(h, [Scale!Idle(n) EXCEPT !.pc = "decide", !.desired = r])
  BY DEF Marked, Scale!Ask
<1> QED
  BY <1>1, <1>2, ScaleBegins, ScaleMove DEF Scale!Ask

\* A handler's fields, and what its invariant says of them.
LEMMA ScaleFields ==
    ASSUME Scale!ScalingAssumption, Scale!IInv, NEW h \in Scale!Handler
    PROVE  /\ req[h] \in Scale!HandlerState
           /\ req[h].node \in Node /\ req[h].desired \in 0 .. MaxAsked
           /\ req[h].pos \in Nat /\ req[h].cnt \in 0 .. 2 ^ Width - 1
           /\ req[h].seen \in Nat /\ req[h].made \in Nat /\ req[h].counted \in Nat
           /\ Marked(h, req[h]) /\ Adds(req[h])
           /\ Scale!Target(h) = Goal(req[h].desired)
           /\ Scale!Target(h) \in 0 .. MaxAsked /\ Scale!Target(h) < 2 ^ Width
<1>1. /\ req[h] \in Scale!HandlerState
      /\ Marked(h, req[h]) /\ Adds(req[h])
      /\ Scale!Target(h) = Goal(req[h].desired)
  BY ScaleParts DEF Handled, Good, Scale!Target, Goal
<1>2. /\ req[h].node \in Node /\ req[h].desired \in 0 .. MaxAsked
      /\ req[h].pos \in Nat /\ req[h].cnt \in 0 .. 2 ^ Width - 1
      /\ req[h].seen \in Nat /\ req[h].made \in Nat /\ req[h].counted \in Nat
  BY <1>1 DEF Scale!HandlerState
<1>3. req[h].desired \in Nat /\ MaxAsked \in Nat
  BY <1>2 DEF Scale!ScalingAssumption
<1> QED
  BY <1>1, <1>2, <1>3, ScaleGoal

\* A request that carries the mark is not decided on.
LEMMA ScaleDecide ==
    ASSUME Scale!ScalingAssumption, Scale!IInv, NEW h \in Scale!Handler,
           Scale!Decide(h)
    PROVE  Scale!IInv'
<1> USE ScaleFields
<1> DEFINE label == IF req[h].node \notin listed THEN "not found"
                    ELSE IF req[h].desired = 0 THEN "error"
                    ELSE IF Scale!Total(req[h].node) = Scale!Target(h) \/ req[h].marked
                         THEN "no content"
                    ELSE IF Scale!Total(req[h].node) < Scale!Target(h) THEN "up" ELSE "down"
           t == Scale!Total(req[h].node)
           q == [req[h] EXCEPT !.seen = t, !.pc = label]
<1>1. World'
  BY ScaleParts DEF Scale!Decide, World
<1>2. /\ label \in {"not found", "error", "no content", "up", "down"}
      /\ label \in {"up", "down"} => ~ req[h].marked
      /\ t \in Nat
  BY ScaleTotal
<1>3. req[h].pc = "decide" /\ req' = [req EXCEPT ![h] = q]
  BY DEF Scale!Decide
<1> HIDE DEF label, t
<1>4. q \in Scale!HandlerState
  BY <1>2 DEF Scale!HandlerState, Scale!Answers
<1>5. /\ q.pc = label /\ q.seen = t /\ q.marked = req[h].marked
      /\ q.made = req[h].made /\ q.counted = req[h].counted /\ q.pos = req[h].pos
  BY DEF Scale!HandlerState
<1> HIDE DEF q
<1>6. Marked(h, q)
  BY <1>2, <1>3, <1>5 DEF Marked
<1>7. Adds(q)
  BY <1>2, <1>3, <1>5 DEF Adds
<1> QED
  BY <1>1, <1>3, <1>4, <1>6, <1>7, ScaleMove

LEMMA ScaleCount ==
    ASSUME Scale!ScalingAssumption, Scale!IInv, NEW h \in Scale!Handler,
           Scale!Count(h)
    PROVE  Scale!IInv'
<1> USE ScaleFields
<1> DEFINE t == Scale!Total(req[h].node)
           c == Scale!Minus(Scale!Target(h), t)
           q == [req[h] EXCEPT !.pc = "loop", !.seen = t, !.cnt = c]
<1>1. World'
  BY ScaleParts DEF Scale!Count, World
<1>2. t \in Nat
  BY ScaleTotal
<1>3. /\ c \in 0 .. 2 ^ Width - 1
      /\ t <= Scale!Target(h) => c = Scale!Target(h) - t
  <2>1. Scale!Target(h) \in Nat /\ 2 ^ Width \in Nat
    BY DEF Scale!ScalingAssumption
  <2> QED
    BY <1>2, <2>1, ScaleMinus
<1>4. req[h].pc = "up" /\ req' = [req EXCEPT ![h] = q]
  BY DEF Scale!Count
<1> HIDE DEF t, c
<1>5. q \in Scale!HandlerState
  BY <1>2, <1>3 DEF Scale!HandlerState
<1>6. /\ q.pc = "loop" /\ q.seen = t /\ q.cnt = c /\ q.desired = req[h].desired
      /\ q.made = req[h].made /\ q.counted = req[h].counted /\ q.pos = req[h].pos
  BY DEF Scale!HandlerState
<1> HIDE DEF q
<1>7. Marked(h, q)
  BY <1>4 DEF Marked
<1>8. req[h].made = 0 /\ req[h].counted = 0 /\ req[h].pos = 1
  BY <1>4 DEF Adds
<1>9. q.seen > Goal(q.desired) \/ q.counted + q.cnt <= Goal(q.desired) - q.seen
  BY <1>2, <1>3, <1>6, <1>8
<1>10. Adds(q)
  BY <1>6, <1>8, <1>9 DEF Adds
<1> QED
  BY <1>1, <1>4, <1>5, <1>7, <1>10, ScaleMove

\* A handler that ends: what it has counted stays.
LEMMA ScaleEnd ==
    ASSUME Scale!ScalingAssumption, Scale!IInv, World', NEW h \in Scale!Handler,
           NEW label \in Scale!Answers, req' = [req EXCEPT ![h].pc = label],
           req[h].pc \in {"loop", "down"}
    PROVE  Scale!IInv'
<1> USE ScaleFields
<1> DEFINE q == [req[h] EXCEPT !.pc = label]
<1>1. req' = [req EXCEPT ![h] = q]
  OBVIOUS
<1>2. q \in Scale!HandlerState
  BY DEF Scale!HandlerState
<1>3. /\ q.pc = label /\ q.seen = req[h].seen /\ q.cnt = req[h].cnt
      /\ q.desired = req[h].desired
      /\ q.made = req[h].made /\ q.counted = req[h].counted /\ q.pos = req[h].pos
  BY DEF Scale!HandlerState
<1> HIDE DEF q
<1>4. Marked(h, q) /\ Adds(q)
  BY <1>3 DEF Marked, Adds, Scale!Answers
<1> QED
  BY <1>1, <1>2, <1>4, ScaleMove

LEMMA ScaleFinish ==
    ASSUME Scale!ScalingAssumption, Scale!IInv, NEW h \in Scale!Handler,
           Scale!Finish(h)
    PROVE  Scale!IInv'
<1>1. World' /\ "ok" \in Scale!Answers /\ req[h].pc = "loop"
  BY ScaleParts DEF Scale!Finish, World, Scale!Answers
<1> QED
  BY <1>1, ScaleEnd DEF Scale!Finish

\* The loop goes on to the next node, or has asked a peer and waits for it.
LEMMA ScaleLoops ==
    ASSUME Scale!ScalingAssumption, Scale!IInv, NEW h \in Scale!Handler,
           NEW q \in Scale!HandlerState, q.pc = "loop",
           q.counted - q.made \in 0 .. 1, q.pos # 0,
           q.seen > Goal(q.desired) \/ q.counted + q.cnt <= Goal(q.desired) - q.seen
    PROVE  /\ LET r == [q EXCEPT !.pos = @ + 1]
              IN  r \in Scale!HandlerState /\ Adds(r) /\ r.pc = "loop"
           /\ (q.pos = 1 => q.counted = q.made) =>
                  LET r == [q EXCEPT !.pc = "call"]
                  IN  r \in Scale!HandlerState /\ Adds(r)
<1> DEFINE r1 == [q EXCEPT !.pos = @ + 1]
           r2 == [q EXCEPT !.pc = "call"]
<1>0. q.pos \in Nat
  BY DEF Scale!HandlerState
<1>1. r1 \in Scale!HandlerState /\ r2 \in Scale!HandlerState
  BY <1>0 DEF Scale!HandlerState
<1>2. /\ r1.pc = "loop" /\ r1.seen = q.seen /\ r1.cnt = q.cnt
      /\ r1.desired = q.desired /\ r1.made = q.made /\ r1.counted = q.counted
      /\ r1.pos = q.pos + 1
  BY DEF Scale!HandlerState
<1>3. /\ r2.pc = "call" /\ r2.seen = q.seen /\ r2.cnt = q.cnt
      /\ r2.desired = q.desired /\ r2.made = q.made /\ r2.counted = q.counted
      /\ r2.pos = q.pos
  BY DEF Scale!HandlerState
<1> HIDE DEF r1, r2
<1>4. r1.pos # 0 /\ r1.pos # 1
  BY <1>0, <1>2
<1>5. Adds(r1)
  BY <1>2, <1>4 DEF Adds
<1>6. ASSUME q.pos = 1 => q.counted = q.made
      PROVE  Adds(r2)
  BY <1>3, <1>6 DEF Adds
<1> QED
  BY <1>1, <1>2, <1>5, <1>6 DEF r1, r2

LEMMA ScaleSkip ==
    ASSUME Scale!ScalingAssumption, Scale!IInv, NEW h \in Scale!Handler,
           Scale!Skip(h)
    PROVE  Scale!IInv'
<1> USE ScaleFields
<1>1. World' /\ req[h].pc = "loop"
  BY ScaleParts DEF Scale!Skip, Scale!InLoop, World
<1>2. req' = [req EXCEPT ![h] = [req[h] EXCEPT !.pos = @ + 1]]
  BY DEF Scale!Skip
<1>3. LET r == [req[h] EXCEPT !.pos = @ + 1]
      IN  r \in Scale!HandlerState /\ Adds(r) /\ r.pc = "loop"
  BY <1>1, ScaleLoops DEF Adds
<1>4. Marked(h, [req[h] EXCEPT !.pos = @ + 1])
  BY <1>1 DEF Marked
<1> QED
  BY <1>1, <1>2, <1>3, <1>4, ScaleMove

\* The rest of the loop's body; only a node's own replica may be counted and
\* not made, and that is the first in its ranking.
LEMMA ScaleCalls ==
    ASSUME Scale!ScalingAssumption, Scale!IInv, World', NEW h \in Scale!Handler,
           NEW q \in Scale!HandlerState, NEW p \in Node,
           req[h].pc = "loop", q.pc = "loop",
           q.counted - q.made \in 0 .. 1, q.pos # 0,
           q.seen > Goal(q.desired) \/ q.counted + q.cnt <= Goal(q.desired) - q.seen,
           p # q.node => (q.pos = 1 => q.counted = q.made),
           Scale!ScaleFunction(h, q, p)
    PROVE  Scale!IInv'
<1> USE ScaleFields
<1>1. h[2] = "client"
  BY ScaleHandlers DEF Marked
<1>2. CASE q.cnt > 0 /\ p # q.node
  <2> DEFINE g == Scale!Callee(h)
             r == [q EXCEPT !.pc = "call"]
             c == [Scale!Idle(p) EXCEPT !.pc = "decide", !.desired = Scale!Target(h),
                                        !.marked = Scale!Marks]
  <2>1. req' = [req EXCEPT ![h] = r, ![g] = c]
    BY <1>2 DEF Scale!ScaleFunction
  <2>2. g \in Scale!Handler /\ g # h /\ g[2] = "peer"
    BY <1>1, ScaleHandlers
  <2>3. r \in Scale!HandlerState /\ Adds(r)
    BY <1>2, ScaleLoops
  <2>4. c \in Scale!HandlerState /\ Adds(c) /\ c.pc = "decide" /\ c.marked
    BY ScaleBegins
  <2> HIDE DEF g, r, c
  <2>5. /\ req' \in [Scale!Handler -> Scale!HandlerState]
        /\ req'[h] = r /\ req'[g] = c
        /\ \A k \in Scale!Handler \ {h, g} : req'[k] = req[k]
    BY <2>1, <2>2, <2>3, <2>4, ScaleParts DEF Handled
  <2>6. Marked(h, r) /\ Marked(g, c)
    BY <1>1, <2>4 DEF Marked
  <2> QED
    BY <2>3, <2>4, <2>5, <2>6, ScaleStep
<1>3. CASE ~ (q.cnt > 0 /\ p # q.node)
  <2>1. req' = [req EXCEPT ![h] = [q EXCEPT !.pos = @ + 1]]
    BY <1>3 DEF Scale!ScaleFunction
  <2>2. LET r == [q EXCEPT !.pos = @ + 1]
        IN  r \in Scale!HandlerState /\ Adds(r)
    BY ScaleLoops
  <2>3. Marked(h, [q EXCEPT !.pos = @ + 1])
    BY <1>1 DEF Marked
  <2> QED
    BY <2>1, <2>2, <2>3, ScaleMove
<1> QED
  BY <1>2, <1>3

\* The node whose turn it is.
LEMMA ScaleCandidate ==
    ASSUME Scale!ScalingAssumption, Scale!IInv, NEW h \in Scale!Handler,
           Scale!InLoop(h)
    PROVE  /\ Scale!Candidate(h) \in Node /\ req[h].pc = "loop" /\ req[h].cnt > 0
           /\ Scale!Candidate(h) = req[h].node => req[h].pos = 1
<1> USE ScaleFields
<1>1. req[h].pos # 0 /\ req[h].pos \in Nat
  BY DEF Adds
<1>2. /\ Sorted[req[h].node] \in Seq(Node)
      /\ \A i \in 1 .. Len(Sorted[req[h].node]) :
             Sorted[req[h].node][i] = req[h].node <=> i = 1
  BY DEF Scale!ScalingAssumption
<1>3. req[h].pos \in 1 .. Len(Sorted[req[h].node])
  BY <1>1, <1>2 DEF Scale!InLoop
<1> QED
  BY <1>2, <1>3 DEF Scale!Candidate, Scale!InLoop

LEMMA ScalePass ==
    ASSUME Scale!ScalingAssumption, Scale!IInv, NEW h \in Scale!Handler,
           Scale!Pass(h)
    PROVE  Scale!IInv'
<1> USE ScaleFields
<1>1. World' /\ Scale!InLoop(h)
  BY ScaleParts DEF Scale!Pass, World
<1>2. Scale!ScaleFunction(h, req[h], Scale!Candidate(h))
  BY DEF Scale!Pass
<1> QED
  BY <1>1, <1>2, ScaleCandidate, ScaleCalls DEF Adds

\* A replica more that is counted, and one that is made.
LEMMA ScaleCounted ==
    ASSUME Scale!ScalingAssumption, NEW q \in Scale!HandlerState, q.cnt > 0
    PROVE  LET r == Scale!Counted(q)
               s == [Scale!Counted(q) EXCEPT !.made = @ + 1]
           IN  /\ r \in Scale!HandlerState /\ s \in Scale!HandlerState
               /\ r.pc = q.pc /\ r.node = q.node /\ r.desired = q.desired
               /\ r.pos = q.pos /\ r.cnt = q.cnt - 1 /\ r.seen = q.seen
               /\ r.made = q.made /\ r.counted = q.counted + 1
               /\ s.pc = q.pc /\ s.node = q.node /\ s.desired = q.desired
               /\ s.pos = q.pos /\ s.cnt = q.cnt - 1 /\ s.seen = q.seen
               /\ s.made = q.made + 1 /\ s.counted = q.counted + 1
<1> DEFINE r == Scale!Counted(q)
           s == [Scale!Counted(q) EXCEPT !.made = @ + 1]
<1>1. /\ q.cnt - 1 \in 0 .. 2 ^ Width - 1 /\ q.counted + 1 \in Nat
      /\ q.made + 1 \in Nat
  <2>1. /\ q.cnt \in 0 .. 2 ^ Width - 1 /\ q.counted \in Nat /\ q.made \in Nat
        /\ 2 ^ Width \in Nat
    BY DEF Scale!HandlerState, Scale!ScalingAssumption
  <2> QED
    BY <2>1
<1>2. r = [q EXCEPT !.cnt = @ - 1, !.counted = @ + 1]
  BY DEF Scale!Counted
<1>3. r \in Scale!HandlerState
  BY <1>1, <1>2 DEF Scale!HandlerState
<1>4. /\ r.pc = q.pc /\ r.node = q.node /\ r.desired = q.desired
      /\ r.pos = q.pos /\ r.cnt = q.cnt - 1 /\ r.seen = q.seen
      /\ r.made = q.made /\ r.counted = q.counted + 1
  BY <1>2 DEF Scale!HandlerState
<1>5. s = [r EXCEPT !.made = @ + 1]
  OBVIOUS
<1> HIDE DEF r, s
<1>6. s \in Scale!HandlerState
  BY <1>1, <1>3, <1>4, <1>5 DEF Scale!HandlerState
<1>7. /\ s.pc = r.pc /\ s.node = r.node /\ s.desired = r.desired
      /\ s.pos = r.pos /\ s.cnt = r.cnt /\ s.seen = r.seen
      /\ s.made = r.made + 1 /\ s.counted = r.counted
  BY <1>3, <1>5 DEF Scale!HandlerState
<1> QED
  BY <1>3, <1>4, <1>6, <1>7 DEF r, s

LEMMA ScaleDeploy ==
    ASSUME Scale!ScalingAssumption, Scale!IInv, NEW h \in Scale!Handler,
           Scale!Deploy(h)
    PROVE  Scale!IInv'
<1> USE ScaleFields
<1> DEFINE s == [Scale!Counted(req[h]) EXCEPT !.made = @ + 1]
           p == Scale!Candidate(h)
<1>1. /\ Scale!InLoop(h) /\ p \in Node /\ req[h].pc = "loop" /\ req[h].cnt > 0
  BY ScaleCandidate DEF Scale!Deploy
<1>2. World'
  BY <1>1, ScaleParts DEF Scale!Deploy, World
<1>3. Scale!ScaleFunction(h, s, p)
  BY DEF Scale!Deploy
<1>4. /\ s \in Scale!HandlerState
      /\ s.pc = req[h].pc /\ s.node = req[h].node /\ s.desired = req[h].desired
      /\ s.pos = req[h].pos /\ s.cnt = req[h].cnt - 1 /\ s.seen = req[h].seen
      /\ s.made = req[h].made + 1 /\ s.counted = req[h].counted + 1
  BY <1>1, ScaleCounted
<1> HIDE DEF s, p
<1>5. req[h].cnt \in Nat /\ Goal(req[h].desired) \in Nat
  BY DEF Scale!ScalingAssumption
<1>6. /\ s.counted - s.made \in 0 .. 1 /\ s.pos # 0
      /\ s.pos = 1 => s.counted = s.made
      /\ s.seen > Goal(s.desired) \/ s.counted + s.cnt <= Goal(s.desired) - s.seen
  BY <1>1, <1>4, <1>5 DEF Adds
<1> QED
  BY <1>1, <1>2, <1>3, <1>4, <1>6, ScaleCalls

LEMMA ScaleDeployFails ==
    ASSUME Scale!ScalingAssumption, Scale!IInv, NEW h \in Scale!Handler,
           Scale!DeployFails(h)
    PROVE  Scale!IInv'
<1> USE ScaleFields
<1> DEFINE s == Scale!Counted(req[h])
           p == Scale!Candidate(h)
<1>1. /\ Scale!InLoop(h) /\ p \in Node /\ req[h].pc = "loop" /\ req[h].cnt > 0
      /\ p = req[h].node => req[h].pos = 1
  BY ScaleCandidate DEF Scale!DeployFails
<1>2. World'
  <2>1. failures' \in 0 .. MaxFailures
    BY ScaleParts DEF Scale!DeployFails, Scale!Failure, World, Scale!ScalingAssumption
  <2>2. waiting' \in SUBSET Node
    BY <1>1, ScaleParts DEF Scale!DeployFails, World
  <2> QED
    BY <2>1, <2>2, ScaleParts DEF Scale!DeployFails, World
<1>3. \/ p = req[h].node /\ Scale!ScaleFunction(h, s, p)
      \/ req' = [req EXCEPT ![h].pc = "error"]
  BY DEF Scale!DeployFails
<1>4. /\ s \in Scale!HandlerState
      /\ s.pc = req[h].pc /\ s.node = req[h].node /\ s.desired = req[h].desired
      /\ s.pos = req[h].pos /\ s.cnt = req[h].cnt - 1 /\ s.seen = req[h].seen
      /\ s.made = req[h].made /\ s.counted = req[h].counted + 1
  BY <1>1, ScaleCounted
<1> HIDE DEF s, p
<1>5. req[h].cnt \in Nat /\ Goal(req[h].desired) \in Nat
  BY DEF Scale!ScalingAssumption
<1>6. CASE p = req[h].node /\ Scale!ScaleFunction(h, s, p)
  <2>1. /\ s.counted - s.made \in 0 .. 1 /\ s.pos # 0
        /\ s.seen > Goal(s.desired) \/ s.counted + s.cnt <= Goal(s.desired) - s.seen
    BY <1>1, <1>4, <1>5, <1>6 DEF Adds
  <2> QED
    BY <1>1, <1>2, <1>4, <1>6, <2>1, ScaleCalls
<1>7. CASE req' = [req EXCEPT ![h].pc = "error"]
  BY <1>1, <1>2, <1>7, ScaleEnd DEF Scale!Answers
<1> QED
  BY <1>3, <1>6, <1>7

\* A peer has answered.
LEMMA ScaleReturned ==
    ASSUME Scale!ScalingAssumption, Scale!IInv, NEW h \in Scale!Handler,
           Scale!Returned(h)
    PROVE  Scale!IInv'
<1> USE ScaleFields
<1> DEFINE g == Scale!Callee(h)
           n == IF req[g].pc = "ok" THEN 0 ELSE req[h].cnt
           r == [req[h] EXCEPT !.pc = "loop", !.pos = @ + 1, !.cnt = n]
           c == Scale!Idle(req[h].node)
<1>1. World' /\ req[h].pc = "call" /\ req' = [req EXCEPT ![h] = r, ![g] = c]
  BY ScaleParts DEF Scale!Returned, World
<1>2. h[2] = "client" /\ g \in Scale!Handler /\ g # h
  BY <1>1, ScaleHandlers DEF Marked
<1>3. c \in Scale!HandlerState /\ Adds(c) /\ c.pc = "idle"
  BY ScaleFresh
<1>4. /\ n \in 0 .. 2 ^ Width - 1 /\ n \in Nat /\ n <= req[h].cnt
      /\ req[h].cnt \in Nat /\ Goal(req[h].desired) \in Nat
  BY DEF Scale!ScalingAssumption
<1> HIDE DEF g, n, c
<1>5. r \in Scale!HandlerState
  <2>1. req[h] \in Scale!HandlerState /\ req[h].pos + 1 \in Nat
    OBVIOUS
  <2> HIDE ScaleFields
  <2> QED
    BY <1>4, <2>1 DEF Scale!HandlerState
<1>6. /\ r.pc = "loop" /\ r.seen = req[h].seen /\ r.cnt = n
      /\ r.desired = req[h].desired
      /\ r.made = req[h].made /\ r.counted = req[h].counted
      /\ r.pos = req[h].pos + 1
  BY DEF Scale!HandlerState
<1> HIDE DEF r
<1>7. r.seen > Goal(r.desired) \/ r.counted + r.cnt <= Goal(r.desired) - r.seen
  BY <1>1, <1>4, <1>6 DEF Adds
<1>8. r.pos # 0 /\ r.pos # 1 /\ r.counted - r.made \in 0 .. 1
  BY <1>6 DEF Adds
<1>9. Adds(r)
  BY <1>6, <1>7, <1>8 DEF Adds
<1>10. Marked(h, r) /\ Marked(g, c)
  BY <1>2, <1>3 DEF Marked
<1>11. /\ req' \in [Scale!Handler -> Scale!HandlerState]
       /\ req'[h] = r /\ req'[g] = c
       /\ \A k \in Scale!Handler \ {h, g} : req'[k] = req[k]
  BY <1>1, <1>2, <1>3, <1>5, ScaleParts DEF Handled
<1> QED
  BY <1>1, <1>3, <1>9, <1>10, <1>11, ScaleStep

LEMMA ScaleScaleDown ==
    ASSUME Scale!ScalingAssumption, Scale!IInv, NEW h \in Scale!Handler,
           Scale!ScaleDown(h)
    PROVE  Scale!IInv'
<1> USE ScaleFields
<1>1. view' \in [Node -> [Node -> 0 .. 1]]
  <2>1. view \in [Node -> [Node -> 0 .. 1]] /\ 0 \in 0 .. 1
    BY ScaleParts DEF World
  <2>2. view' \in {view, [view EXCEPT ![req[h].node][req[h].node] = 0]}
    BY DEF Scale!ScaleDown
  <2> QED
    BY <2>1, <2>2
<1>2. container' \in SUBSET Node
  BY ScaleParts DEF Scale!ScaleDown, World
<1>3. World'
  BY <1>1, <1>2, ScaleParts DEF Scale!ScaleDown, World
<1> QED
  BY <1>3, ScaleEnd DEF Scale!ScaleDown, Scale!Answers

LEMMA ScaleReady ==
    ASSUME Scale!ScalingAssumption, Scale!IInv, NEW p \in Node, Scale!Ready(p)
    PROVE  Scale!IInv'
<1>1. view' \in [Node -> [Node -> 0 .. 1]]
  <2>1. view \in [Node -> [Node -> 0 .. 1]] /\ 1 \in 0 .. 1
    BY ScaleParts DEF World
  <2>2. view' \in {view, [view EXCEPT ![p][p] = 1]}
    BY DEF Scale!Ready
  <2> QED
    BY <2>1, <2>2
<1>2. failures' \in 0 .. MaxFailures
  BY ScaleParts DEF Scale!Ready, Scale!Failure, World, Scale!ScalingAssumption
<1>3. World' /\ UNCHANGED req
  BY <1>1, <1>2, ScaleParts DEF Scale!Ready, World
<1> QED
  BY <1>3, ScaleParts, ScaleStep DEF Handled

LEMMA ScaleLearn ==
    ASSUME Scale!IInv, NEW n \in Node, NEW m \in Node, Scale!Learn(n, m)
    PROVE  Scale!IInv'
<1>1. view' \in [Node -> [Node -> 0 .. 1]]
  <2>1. view \in [Node -> [Node -> 0 .. 1]] /\ view[m][m] \in 0 .. 1
    BY ScaleParts DEF World
  <2>2. view' = [view EXCEPT ![n][m] = view[m][m]]
    BY DEF Scale!Learn
  <2> QED
    BY <2>1, <2>2
<1>2. World' /\ UNCHANGED req
  BY <1>1, ScaleParts DEF Scale!Learn, World
<1> QED
  BY <1>2, ScaleParts, ScaleStep DEF Handled

\* The invariant of the scale handlers.
THEOREM ScaleInvariance ==
    ASSUME Scale!ScalingAssumption
    PROVE  Scale!Spec => []Scale!IInv
<1>1. Scale!Init => Scale!IInv
  BY ScaleInit
<1>2. Scale!IInv /\ [Scale!Next]_(Scale!vars) => Scale!IInv'
  <2> SUFFICES ASSUME Scale!IInv, [Scale!Next]_(Scale!vars) PROVE Scale!IInv'
    OBVIOUS
  <2>1. CASE Scale!Next
    BY <2>1, ScaleAsk, ScaleDecide, ScaleCount, ScaleFinish, ScaleSkip, ScalePass,
       ScaleDeploy, ScaleDeployFails, ScaleReturned, ScaleScaleDown, ScaleReady,
       ScaleLearn
    DEF Scale!Next, Scale!Serve
  <2>2. CASE UNCHANGED Scale!vars
    <3>1. World' /\ req' = req
      BY <2>2, ScaleParts DEF Scale!vars, World
    <3> QED
      BY <3>1, ScaleParts, ScaleStep DEF Handled
  <2> QED
    BY <2>1, <2>2
<1> QED
  BY <1>1, <1>2, PTL DEF Scale!Spec

\* A request between nodes never leads to a scaling decision, for any nodes and
\* any number of concurrent requests and failures (scale.go:92, scale.go:148).
THEOREM PeersDoNotScale ==
    ASSUME Scale!ScalingAssumption
    PROVE  Scale!Spec => []Scale!ScaledFirstHand
<1>1. Scale!IInv => Scale!ScaledFirstHand
  BY DEF Scale!IInv, Scale!MarkInv, Scale!ScaledFirstHand
<1> QED
  BY <1>1, ScaleInvariance, PTL

\* A scale up makes at most what was missing, unless the difference has wrapped,
\* and counts no replica of a peer that was not made, for any nodes, width and
\* number of concurrent requests and failures (scale.go:113, scale.go:237).
THEOREM NoneTooMany ==
    ASSUME Scale!ScalingAssumption
    PROVE  Scale!Spec => []Scale!UpToDesired
<1>1. Scale!IInv => Scale!UpToDesired
  <2> SUFFICES ASSUME Scale!IInv, NEW h \in Scale!Handler
               PROVE  /\ \/ req[h].made = 0
                         \/ req[h].made <= Scale!Target(h) - req[h].seen
                         \/ req[h].seen > Scale!Target(h)
                      /\ req[h].counted - req[h].made \in 0 .. 1
    BY DEF Scale!UpToDesired
  <2>1. /\ req[h].made \in Nat /\ req[h].counted \in Nat /\ req[h].seen \in Nat
        /\ req[h].cnt \in Nat /\ Scale!Target(h) \in Nat
        /\ Scale!Target(h) = Goal(req[h].desired) /\ Adds(req[h])
    BY ScaleFields DEF Scale!ScalingAssumption
  <2>2. req[h].counted - req[h].made \in 0 .. 1
    BY <2>1 DEF Adds
  <2>3. ASSUME req[h].made # 0, ~ (req[h].seen > Scale!Target(h))
        PROVE  req[h].made <= Scale!Target(h) - req[h].seen
    <3>1. req[h].counted # 0 /\ req[h].made <= req[h].counted
      BY <2>1, <2>2, <2>3
    <3>2. req[h].counted + req[h].cnt <= Scale!Target(h) - req[h].seen
      BY <2>1, <2>3, <3>1 DEF Adds
    <3> QED
      BY <2>1, <3>1, <3>2
  <2> QED
    BY <2>2, <2>3
<1> QED
  BY <1>1, ScaleInvariance, PTL

-----------------------------------------------------------------------------
(* A client without competitors.                                           *)

Client(k) == <<k, "client">>

LEMMA SoloClients ==
    ASSUME NEW k \in Request
    PROVE  /\ Client(k) \in Scale!Handler /\ Client(k)[1] = k /\ Client(k)[2] = "client"
           /\ \A g \in Scale!Handler : g[2] = "client" =>
                  g = Client(g[1]) /\ (g # Client(k) => g[1] \in Request \ {k})
           /\ \A g \in Scale!Handler : Scale!Callee(g) # Client(k)
  BY DEF Client, Scale!Handler, Scale!Callee

\* What a step of the loop does to its handler, and to no other client's.
LEMMA SoloCalls ==
    ASSUME Scale!ScalingAssumption, Scale!IInv, NEW h \in Scale!Handler,
           h[2] = "client", NEW q \in Scale!HandlerState, q.pc = "loop",
           NEW p \in Node, Scale!ScaleFunction(h, q, p)
    PROVE  /\ \/ req'[h].pc = "call" /\ req'[h].pos = q.pos
              \/ req'[h].pc = "loop" /\ req'[h].pos = q.pos + 1
           /\ req'[h].node = q.node /\ req'[h].desired = q.desired
           /\ req'[h].cnt = q.cnt /\ req'[h].seen = q.seen
           /\ \A g \in Scale!Handler : g[2] = "client" /\ g # h => req'[g] = req[g]
<1>0. req \in [Scale!Handler -> Scale!HandlerState]
  BY ScaleParts DEF Handled
<1>1. CASE q.cnt > 0 /\ p # q.node
  <2> DEFINE g == Scale!Callee(h)
             r == [q EXCEPT !.pc = "call"]
             c == [Scale!Idle(p) EXCEPT !.pc = "decide", !.desired = Scale!Target(h),
                                        !.marked = Scale!Marks]
  <2>1. req' = [req EXCEPT ![h] = r, ![g] = c]
    BY <1>1 DEF Scale!ScaleFunction
  <2>2. g \in Scale!Handler /\ g # h /\ g[2] = "peer"
    BY ScaleHandlers
  <2>3. /\ r.pc = "call" /\ r.pos = q.pos /\ r.node = q.node /\ r.desired = q.desired
        /\ r.cnt = q.cnt /\ r.seen = q.seen
    BY DEF Scale!HandlerState
  <2> HIDE DEF g, r, c
  <2>4. req'[h] = r /\ \A k \in Scale!Handler \ {h, g} : req'[k] = req[k]
    BY <1>0, <2>1, <2>2
  <2> QED
    BY <2>2, <2>3, <2>4
<1>2. CASE ~ (q.cnt > 0 /\ p # q.node)
  <2> DEFINE r == [q EXCEPT !.pos = @ + 1]
  <2>1. req' = [req EXCEPT ![h] = r]
    BY <1>2 DEF Scale!ScaleFunction
  <2>2. /\ r.pc = "loop" /\ r.pos = q.pos + 1 /\ r.node = q.node /\ r.desired = q.desired
        /\ r.cnt = q.cnt /\ r.seen = q.seen
    BY DEF Scale!HandlerState
  <2> HIDE DEF r
  <2>3. req'[h] = r /\ \A k \in Scale!Handler \ {h} : req'[k] = req[k]
    BY <1>0, <2>1
  <2> QED
    BY <2>2, <2>3
<1> QED
  BY <1>1, <1>2

\* A step of a client's handler leaves it busy, and changes no other client's.
LEMMA SoloBusy ==
    ASSUME Scale!ScalingAssumption, Scale!IInv, NEW h \in Scale!Handler,
           h[2] = "client", Scale!Serve(h)
    PROVE  /\ req'[h].pc # "idle"
           /\ \A g \in Scale!Handler : g[2] = "client" /\ g # h => req'[g] = req[g]
<1> USE ScaleFields
<1>0. req \in [Scale!Handler -> Scale!HandlerState]
  BY ScaleParts DEF Handled
<1>1. CASE Scale!Decide(h)
  BY <1>0, <1>1 DEF Scale!Decide, Scale!HandlerState
<1>2. CASE Scale!Count(h)
  BY <1>0, <1>2 DEF Scale!Count, Scale!HandlerState
<1>3. CASE Scale!Finish(h)
  BY <1>0, <1>3 DEF Scale!Finish, Scale!HandlerState
<1>4. CASE Scale!Skip(h)
  BY <1>0, <1>4 DEF Scale!Skip, Scale!InLoop, Scale!HandlerState
<1>5. CASE Scale!Pass(h)
  BY <1>5, SoloCalls, ScaleCandidate DEF Scale!Pass
<1>6. CASE Scale!Deploy(h)
  <2>1. Scale!InLoop(h) /\ Scale!ScaleFunction(h,
            [Scale!Counted(req[h]) EXCEPT !.made = @ + 1], Scale!Candidate(h))
    BY <1>6 DEF Scale!Deploy
  <2> QED
    BY <2>1, SoloCalls, ScaleCandidate, ScaleCounted
<1>7. CASE Scale!DeployFails(h)
  <2>1. Scale!InLoop(h)
    BY <1>7 DEF Scale!DeployFails
  <2>2. \/ Scale!ScaleFunction(h, Scale!Counted(req[h]), Scale!Candidate(h))
        \/ req' = [req EXCEPT ![h].pc = "error"]
    BY <1>7 DEF Scale!DeployFails
  <2>3. CASE Scale!ScaleFunction(h, Scale!Counted(req[h]), Scale!Candidate(h))
    BY <2>1, <2>3, SoloCalls, ScaleCandidate, ScaleCounted
  <2>4. CASE req' = [req EXCEPT ![h].pc = "error"]
    BY <1>0, <2>4 DEF Scale!HandlerState
  <2> QED
    BY <2>2, <2>3, <2>4
<1>8. CASE Scale!Returned(h)
  <2> DEFINE g == Scale!Callee(h)
             r == [req[h] EXCEPT !.pc = "loop", !.pos = @ + 1,
                       !.cnt = IF req[g].pc = "ok" THEN 0 ELSE @]
             c == Scale!Idle(req[h].node)
  <2>1. req' = [req EXCEPT ![h] = r, ![g] = c]
    BY <1>8 DEF Scale!Returned
  <2>2. g \in Scale!Handler /\ g # h /\ g[2] = "peer"
    BY ScaleHandlers
  <2>3. r.pc = "loop"
    BY DEF Scale!HandlerState
  <2> HIDE DEF g, r, c
  <2>4. req'[h] = r /\ \A k \in Scale!Handler \ {h, g} : req'[k] = req[k]
    BY <1>0, <2>1, <2>2
  <2> QED
    BY <2>2, <2>3, <2>4
<1>9. CASE Scale!ScaleDown(h)
  BY <1>0, <1>9 DEF Scale!ScaleDown, Scale!HandlerState
<1> QED
  BY <1>1, <1>2, <1>3, <1>4, <1>5, <1>6, <1>7, <1>8, <1>9 DEF Scale!Serve

\* A peer's handler does no more than decide, that is answer.
LEMMA SoloPeers ==
    ASSUME Scale!ScalingAssumption, Scale!IInv, NEW g \in Scale!Handler,
           g[2] # "client", Scale!Serve(g)
    PROVE  /\ UNCHANGED <<container, waiting, listed, view, overload, failures>>
           /\ \A h \in Scale!Handler \ {g} : req'[h] = req[h]
<1>1. g[2] = "peer" /\ req[g].pc \notin {"up", "loop", "call", "down"}
  BY ScaleHandlers, ScaleFields DEF Marked
<1>2. Scale!Decide(g)
  BY <1>1 DEF Scale!Serve, Scale!Count, Scale!Finish, Scale!Skip, Scale!Pass,
     Scale!Deploy, Scale!DeployFails, Scale!Returned, Scale!ScaleDown, Scale!InLoop
<1> QED
  BY <1>2, ScaleParts DEF Scale!Decide, Handled

\* The loop of a handler in state q, and its end.
Ahead(q) ==
    \A i \in Scale!Upcoming(q) .. Len(Sorted[q.node]) : Scale!Right(Sorted[q.node][i])

Behind(q) ==
    \A i \in 1 .. Scale!Upcoming(q) - 1 : i <= Len(Sorted[q.node]) =>
        Sorted[q.node][i] \in container \cup overload[q.node]

Success(q) ==
    \/ Cardinality(container) = Goal(q.desired)
    \/ /\ Cardinality(container) < Goal(q.desired)
       /\ Node \subseteq container \cup overload[q.node]

Solo(q) ==
    /\ q.pc \in {"idle", "decide", "up"} => \A m \in Node : Scale!Right(m)
    /\ q.pc = "up" => Cardinality(container) < Goal(q.desired)
    /\ q.pc = "down" => q.seen >= Goal(q.desired)
    /\ q.pc \in {"loop", "call"} =>
           Cardinality(container) + q.cnt = Goal(q.desired) /\ Ahead(q) /\ Behind(q)
    /\ q.pc = "ok" /\ q.seen < Goal(q.desired) => Success(q)

Free(k) == Scale!Alone(Client(k)) /\ failures = 0

LEMMA SoloParts ==
    ASSUME NEW k \in Request
    PROVE  /\ Scale!SoloInv(k) <=> (Free(k) => Solo(req[Client(k)]))
           /\ Scale!SoloInv(k)' <=> (Free(k)' => Solo(req[Client(k)])')
<1>1. \A S : Scale!Cardinality(S) = Cardinality(S)
  BY DEF Scale!Cardinality, Cardinality
<1>2. Scale!SoloInv(k) <=> (Free(k) => Solo(req[Client(k)]))
  BY <1>1 DEF Scale!SoloInv, Free, Solo, Client, Ahead, Behind, Success, Goal, Scale!Target
<1>3. Scale!SoloInv(k)' <=> (Free(k)' => Solo(req[Client(k)])')
  BY <1>1 DEF Scale!SoloInv, Free, Solo, Client, Ahead, Behind, Success, Goal, Scale!Target
<1> QED
  BY <1>2, <1>3

\* Containers are counted.
LEMMA SoloCount ==
    ASSUME Scale!ScalingAssumption, Scale!IInv
    PROVE  /\ Cardinality(container) \in Nat
           /\ \A p \in Node \ container :
                  Cardinality(container \cup {p}) = Cardinality(container) + 1
           /\ \A n \in Node : (\A m \in Node : Scale!Right(m)) =>
                  Scale!Total(n) = Cardinality(container)
<1>1. \A S : Scale!Cardinality(S) = Cardinality(S)
  BY DEF Scale!Cardinality, Cardinality
<1>2. Scale!IsFiniteSet(Node) <=> IsFiniteSet(Node)
  BY DEF Scale!IsFiniteSet, IsFiniteSet
<1>3. container \subseteq Node
  BY ScaleParts DEF World
<1>4. IsFiniteSet(container)
  BY <1>2, <1>3, FS_Subset DEF Scale!ScalingAssumption
<1>5. Cardinality(container) \in Nat
  BY <1>4, FS_CardinalityType
<1>6. \A p \in Node \ container :
          Cardinality(container \cup {p}) = Cardinality(container) + 1
  BY <1>4, FS_AddElement
<1>7. ASSUME NEW n \in Node, \A m \in Node : Scale!Right(m)
      PROVE  Scale!Total(n) = Cardinality(container)
  <2>1. {m \in Node : view[n][m] = 1} = container
    BY <1>3, <1>7 DEF Scale!Right
  <2> QED
    BY <1>1, <2>1 DEF Scale!Total
<1> QED
  BY <1>5, <1>6, <1>7

\* The position of the loop.
LEMMA SoloPosition ==
    ASSUME Scale!ScalingAssumption, Scale!IInv, NEW h \in Scale!Handler
    PROVE  /\ req[h].pos \in Nat \ {0}
           /\ Scale!Upcoming(req[h]) \in Nat \ {0}
           /\ Len(Sorted[req[h].node]) \in Nat
           /\ \A i \in 1 .. Len(Sorted[req[h].node]) : Sorted[req[h].node][i] \in Node
<1>1. req[h].pos \in Nat \ {0} /\ req[h].node \in Node
  BY ScaleFields DEF Adds
<1>2. Scale!Upcoming(req[h]) \in Nat \ {0}
  BY <1>1 DEF Scale!Upcoming
<1>3. Sorted[req[h].node] \in Seq(Node)
  BY <1>1 DEF Scale!ScalingAssumption
<1> QED
  BY <1>1, <1>2, <1>3

\* Steps of others: views that are right stay right.
LEMMA SoloKept ==
    ASSUME Scale!ScalingAssumption, Scale!IInv, NEW k \in Request, Scale!SoloInv(k),
           req'[Client(k)] = req[Client(k)], UNCHANGED <<container, overload>>,
           Free(k)' => Free(k),
           \A m \in Node : Scale!Right(m) => Scale!Right(m)'
    PROVE  Scale!SoloInv(k)'
<1> DEFINE q == req[Client(k)]
<1> SUFFICES ASSUME Free(k)' PROVE Solo(q)'
  BY SoloParts
<1>1. Solo(q) /\ q' = q
  BY SoloParts
<1>2. Client(k) \in Scale!Handler
  BY SoloClients
<1>3. Ahead(q) => Ahead(q)'
  <2> SUFFICES ASSUME Ahead(q),
                      NEW i \in Scale!Upcoming(q) .. Len(Sorted[q.node])
               PROVE  Scale!Right(Sorted[q.node][i])'
    BY <1>1 DEF Ahead, Scale!Upcoming
  <2>1. i \in 1 .. Len(Sorted[q.node])
    BY <1>2, SoloPosition
  <2>2. Sorted[q.node][i] \in Node /\ Scale!Right(Sorted[q.node][i])
    BY <1>2, <2>1, SoloPosition DEF Ahead
  <2>3. PICK m \in Node : m = Sorted[q.node][i]
    BY <2>2
  <2>4. Scale!Right(m)'
    BY <2>2, <2>3
  <2> QED
    BY <1>1, <2>3, <2>4 DEF Scale!Right
<1>4. Behind(q) => Behind(q)'
  BY <1>1 DEF Behind, Scale!Upcoming
<1>5. Success(q) => Success(q)'
  BY <1>1 DEF Success, Goal
<1> HIDE DEF q
<1> QED
  BY <1>1, <1>3, <1>4, <1>5 DEF Solo, Goal

LEMMA SoloReady ==
    ASSUME Scale!ScalingAssumption, Scale!IInv, NEW k \in Request, Scale!SoloInv(k),
           NEW p \in Node, Scale!Ready(p)
    PROVE  Scale!SoloInv(k)'
<1>1. UNCHANGED <<container, overload, req>>
  BY DEF Scale!Ready
<1>2. \A m \in Node : Scale!Right(m) => Scale!Right(m)'
  <2>1. view \in [Node -> [Node -> 0 .. 1]]
    BY ScaleParts DEF World
  <2>2. view' = view \/ (p \in container /\ view' = [view EXCEPT ![p][p] = 1])
    BY DEF Scale!Ready
  <2> QED
    BY <1>1, <2>1, <2>2 DEF Scale!Right
<1>3. Free(k)' => Free(k)
  <2>1. failures' = 0 => failures = 0
    BY ScaleParts DEF Scale!Ready, Scale!Failure, World
  <2> QED
    BY <1>1, <2>1 DEF Free, Scale!Alone
<1> QED
  BY <1>1, <1>2, <1>3, SoloKept

LEMMA SoloLearn ==
    ASSUME Scale!ScalingAssumption, Scale!IInv, NEW k \in Request, Scale!SoloInv(k),
           NEW n \in Node, NEW m \in Node, Scale!Learn(n, m)
    PROVE  Scale!SoloInv(k)'
<1>1. UNCHANGED <<container, overload, req, failures>>
  BY DEF Scale!Learn
<1>2. \A j \in Node : Scale!Right(j) => Scale!Right(j)'
  <2>1. view \in [Node -> [Node -> 0 .. 1]]
    BY ScaleParts DEF World
  <2>2. view' = [view EXCEPT ![n][m] = view[m][m]]
    BY DEF Scale!Learn
  <2> QED
    BY <1>1, <2>1, <2>2 DEF Scale!Right
<1>3. Free(k)' => Free(k)
  BY <1>1 DEF Free, Scale!Alone
<1> QED
  BY <1>1, <1>2, <1>3, SoloKept

\* Another handler: that of a peer, or that of a competitor.
LEMMA SoloOther ==
    ASSUME Scale!ScalingAssumption, Scale!IInv, NEW k \in Request, Scale!SoloInv(k),
           NEW g \in Scale!Handler, g # Client(k), Scale!Serve(g)
    PROVE  Scale!SoloInv(k)'
<1>1. CASE g[2] # "client"
  <2>1. UNCHANGED <<container, view, overload, failures>>
    BY <1>1, SoloPeers
  <2>2. \A j \in Request : req'[Client(j)] = req[Client(j)]
    BY <1>1, SoloPeers, SoloClients
  <2>3. Free(k)' => Free(k)
    BY <2>1, <2>2 DEF Free, Scale!Alone, Client
  <2> QED
    BY <2>1, <2>2, <2>3, SoloKept DEF Scale!Right
<1>2. CASE g[2] = "client"
  <2>1. req'[g].pc # "idle" /\ g = Client(g[1]) /\ g[1] \in Request \ {k}
    BY <1>2, SoloBusy, SoloClients
  <2>2. ~ Scale!Alone(Client(k))'
    BY <2>1, SoloClients DEF Scale!Alone, Client
  <2> QED
    BY <2>2, SoloParts DEF Free
<1> QED
  BY <1>1, <1>2

\* Another client comes, or this one.
LEMMA SoloAsk ==
    ASSUME Scale!ScalingAssumption, Scale!IInv, NEW k \in Request, Scale!SoloInv(k),
           NEW g \in Scale!Handler, NEW n \in Node, NEW r \in 0 .. MaxAsked,
           Scale!Ask(g, n, r)
    PROVE  Scale!SoloInv(k)'
<1>0. /\ req \in [Scale!Handler -> Scale!HandlerState]
      /\ UNCHANGED <<container, view, overload, failures>>
      /\ g[2] = "client" /\ req[g].pc = "idle"
  BY ScaleParts DEF Scale!Ask, Handled
<1> DEFINE q == [Scale!Idle(n) EXCEPT !.pc = "decide", !.desired = r]
<1>1. req'[g] = q /\ \A h \in Scale!Handler \ {g} : req'[h] = req[h]
  BY <1>0 DEF Scale!Ask
<1>2. q.pc = "decide"
  BY ScaleFresh DEF Scale!HandlerState
<1> HIDE DEF q
<1>3. CASE g = Client(k)
  <2>1. Free(k)' => Free(k)
    <3>1. \A j \in Request \ {k} : req'[Client(j)] = req[Client(j)]
      BY <1>1, <1>3, SoloClients DEF Client
    <3> QED
      BY <1>0, <3>1, SoloClients DEF Free, Scale!Alone, Client
  <2> SUFFICES ASSUME Free(k)' PROVE Solo(req[Client(k)])'
    BY SoloParts
  <2>2. \A m \in Node : Scale!Right(m)
    BY <1>0, <1>3, <2>1, SoloParts DEF Solo
  <2>3. \A m \in Node : Scale!Right(m)'
    BY <1>0, <2>2 DEF Scale!Right
  <2> QED
    BY <1>1, <1>2, <1>3, <2>3 DEF Solo
<1>4. CASE g # Client(k)
  <2>1. g = Client(g[1]) /\ g[1] \in Request \ {k} /\ req'[g].pc # "idle"
    BY <1>0, <1>1, <1>2, <1>4, SoloClients
  <2>2. ~ Scale!Alone(Client(k))'
    BY <2>1, SoloClients DEF Scale!Alone, Client
  <2> QED
    BY <2>2, SoloParts DEF Free
<1> QED
  BY <1>3, <1>4

\* While this client's handler moves it stays alone.
LEMMA SoloFree ==
    ASSUME Scale!ScalingAssumption, Scale!IInv, NEW k \in Request, Scale!SoloInv(k),
           Scale!Serve(Client(k)), Free(k)'
    PROVE  /\ Free(k) /\ Solo(req[Client(k)])
           /\ failures = 0 /\ failures' = 0
<1>1. \A j \in Request \ {k} : req'[Client(j)] = req[Client(j)]
  <2> SUFFICES ASSUME NEW j \in Request \ {k}
               PROVE  req'[Client(j)] = req[Client(j)]
    OBVIOUS
  <2>1. /\ Client(k) \in Scale!Handler /\ Client(k)[2] = "client"
        /\ Client(j) \in Scale!Handler /\ Client(j)[2] = "client"
    BY SoloClients
  <2>2. Client(j) # Client(k)
    BY DEF Client
  <2> QED
    BY <2>1, <2>2, SoloBusy
<1>2. failures' = 0 => failures = 0
  <2>1. failures \in Nat
    BY ScaleParts DEF World
  <2>2. failures' = failures \/ failures' = failures + 1
    BY DEF Scale!Serve, Scale!Decide, Scale!Count, Scale!Finish, Scale!Skip, Scale!Pass,
       Scale!Deploy, Scale!DeployFails, Scale!Failure, Scale!Returned, Scale!ScaleDown
  <2> QED
    BY <2>1, <2>2
<1>3. Free(k)
  BY <1>1, <1>2, SoloClients DEF Free, Scale!Alone, Client
<1> QED
  BY <1>3, SoloParts DEF Free

LEMMA SoloDecide ==
    ASSUME Scale!ScalingAssumption, Scale!IInv, NEW k \in Request, Scale!SoloInv(k),
           Scale!Decide(Client(k))
    PROVE  Scale!SoloInv(k)'
<1> DEFINE h == Client(k)
           t == Scale!Total(req[h].node)
<1> SUFFICES ASSUME Free(k)' PROVE Solo(req[h])'
  BY SoloParts
<1>0. h \in Scale!Handler /\ Solo(req[h])
  BY SoloClients, SoloFree DEF Scale!Serve
<1>1. /\ req[h].pc = "decide" /\ UNCHANGED <<container, view>>
      /\ req \in [Scale!Handler -> Scale!HandlerState] /\ t \in Nat
      /\ Goal(req[h].desired) \in Nat /\ req[h].node \in Node
      /\ Scale!Target(h) = Goal(req[h].desired)
  <2>1. /\ req[h].node \in Node /\ Scale!Target(h) = Goal(req[h].desired)
        /\ Scale!Target(h) \in Nat
    BY <1>0, ScaleFields DEF Scale!ScalingAssumption
  <2>2. t \in Nat
    BY <2>1, ScaleTotal
  <2> QED
    BY <2>1, <2>2, ScaleParts DEF Scale!Decide, Handled
<1>2. t = Cardinality(container) /\ \A m \in Node : Scale!Right(m)
  BY <1>0, <1>1, SoloCount DEF Solo
<1>3. /\ req'[h].seen = t /\ req'[h].desired = req[h].desired
      /\ req'[h].pc \in {"not found", "error", "no content", "up", "down"}
      /\ req'[h].pc = "up" => t < Scale!Target(h)
      /\ req'[h].pc = "down" => ~ (t < Scale!Target(h))
  <2>1. req[h] \in Scale!HandlerState
    BY <1>0, <1>1
  <2> QED
    BY <1>0, <1>1, <2>1 DEF Scale!Decide, Scale!HandlerState
<1>4. \A m \in Node : Scale!Right(m)'
  BY <1>1, <1>2 DEF Scale!Right
<1> HIDE DEF h, t
<1>5. req'[h].pc = "down" => req'[h].seen >= Goal(req'[h].desired)
  BY <1>1, <1>3
<1>6. req'[h].pc = "up" => Cardinality(container') < Goal(req'[h].desired)
  BY <1>1, <1>2, <1>3
<1> QED
  BY <1>3, <1>4, <1>5, <1>6 DEF Solo

LEMMA SoloLoopStarts ==
    ASSUME Scale!ScalingAssumption, Scale!IInv, NEW k \in Request, Scale!SoloInv(k),
           Scale!Count(Client(k))
    PROVE  Scale!SoloInv(k)'
<1> DEFINE h == Client(k)
           t == Scale!Total(req[h].node)
<1> SUFFICES ASSUME Free(k)' PROVE Solo(req[h])'
  BY SoloParts
<1>0. h \in Scale!Handler /\ Solo(req[h])
  BY SoloClients, SoloFree DEF Scale!Serve
<1>1. /\ req[h].pc = "up" /\ UNCHANGED <<container, view, overload>>
      /\ req \in [Scale!Handler -> Scale!HandlerState] /\ t \in Nat
      /\ Goal(req[h].desired) \in Nat /\ req[h].node \in Node
      /\ Scale!Target(h) = Goal(req[h].desired) /\ req[h].pos = 1
      /\ Scale!Target(h) < 2 ^ Width /\ 2 ^ Width \in Nat
  BY <1>0, ScaleParts, ScaleFields, ScaleTotal
  DEF Scale!Count, Handled, Adds, Scale!ScalingAssumption
<1>2. /\ t = Cardinality(container) /\ t < Goal(req[h].desired)
      /\ \A m \in Node : Scale!Right(m)
  BY <1>0, <1>1, SoloCount DEF Solo
<1>3. Scale!Minus(Scale!Target(h), t) = Scale!Target(h) - t
  BY <1>1, <1>2, ScaleMinus
<1>4. /\ req'[h].pc = "loop" /\ req'[h].desired = req[h].desired
      /\ req'[h].pos = 1 /\ req'[h].node = req[h].node
      /\ req'[h].cnt = Scale!Target(h) - t
  <2>1. req[h] \in Scale!HandlerState
    BY <1>0, <1>1
  <2> QED
    BY <1>0, <1>1, <1>3, <2>1 DEF Scale!Count, Scale!HandlerState
<1>5. \A i \in 1 .. Len(Sorted[req[h].node]) : Sorted[req[h].node][i] \in Node
  BY <1>0, SoloPosition
<1> HIDE DEF h, t
<1>6. Ahead(req[h])'
  <2>1. \A m \in Node : Scale!Right(m)'
    BY <1>1, <1>2 DEF Scale!Right
  <2> SUFFICES ASSUME NEW i \in 1 .. Len(Sorted[req[h].node])
               PROVE  Scale!Right(Sorted[req[h].node][i])'
    BY <1>4 DEF Ahead, Scale!Upcoming
  <2>2. PICK m \in Node : m = Sorted[req[h].node][i]
    BY <1>5
  <2> QED
    BY <1>4, <2>1, <2>2 DEF Scale!Right
<1>7. Behind(req[h])'
  BY <1>4 DEF Behind, Scale!Upcoming
<1>8. Cardinality(container') + req'[h].cnt = Goal(req'[h].desired)
  BY <1>1, <1>2, <1>4
<1> QED
  BY <1>4, <1>6, <1>7, <1>8 DEF Solo

\* The loop is over: nothing is missing, or every node was looked at.
LEMMA SoloFinish ==
    ASSUME Scale!ScalingAssumption, Scale!SortedCompletely, Scale!IInv,
           NEW k \in Request, Scale!SoloInv(k), Scale!Finish(Client(k))
    PROVE  Scale!SoloInv(k)'
<1> DEFINE h == Client(k)
<1> SUFFICES ASSUME Free(k)' PROVE Solo(req[h])'
  BY SoloParts
<1>0. h \in Scale!Handler /\ Solo(req[h])
  BY SoloClients, SoloFree DEF Scale!Serve
<1>1. /\ req[h].pc = "loop" /\ UNCHANGED <<container, overload>>
      /\ req \in [Scale!Handler -> Scale!HandlerState]
      /\ Goal(req[h].desired) \in Nat /\ req[h].node \in Node
      /\ req[h].cnt \in Nat /\ Cardinality(container) \in Nat
      /\ ~ Scale!InLoop(h)
  BY <1>0, ScaleParts, ScaleFields, SoloCount
  DEF Scale!Finish, Handled, Scale!ScalingAssumption
<1>2. /\ req'[h].pc = "ok" /\ req'[h].desired = req[h].desired
      /\ req'[h].node = req[h].node
  <2>1. req[h] \in Scale!HandlerState
    BY <1>0, <1>1
  <2> QED
    BY <1>0, <1>1, <2>1 DEF Scale!Finish, Scale!HandlerState
<1>3. Cardinality(container) + req[h].cnt = Goal(req[h].desired) /\ Behind(req[h])
  BY <1>0, <1>1 DEF Solo
<1>4. req[h].pos \in Nat \ {0} /\ Len(Sorted[req[h].node]) \in Nat
  BY <1>0, SoloPosition
<1> HIDE DEF h
<1>5. Success(req[h])
  <2>1. CASE req[h].cnt = 0
    BY <1>1, <1>3, <2>1 DEF Success
  <2>2. CASE req[h].cnt # 0
    <3>1. req[h].pos > Len(Sorted[req[h].node])
      BY <1>1, <1>4, <2>2 DEF Scale!InLoop
    <3>2. \A i \in 1 .. Len(Sorted[req[h].node]) :
              Sorted[req[h].node][i] \in container \cup overload[req[h].node]
      BY <1>1, <1>3, <1>4, <3>1 DEF Behind, Scale!Upcoming
    <3>3. Node \subseteq container \cup overload[req[h].node]
      BY <1>1, <3>2 DEF Scale!SortedCompletely
    <3>4. Cardinality(container) < Goal(req[h].desired)
      BY <1>1, <1>3, <2>2
    <3> QED
      BY <3>3, <3>4 DEF Success
  <2> QED
    BY <2>1, <2>2
<1>6. Success(req[h])'
  BY <1>1, <1>2, <1>5 DEF Success, Goal
<1> QED
  BY <1>2, <1>6 DEF Solo

\* The loop goes on past its candidate, which is in use or overloaded now.
LEMMA SoloAdvance ==
    ASSUME Scale!ScalingAssumption, Scale!SortedCompletely, Scale!IInv,
           NEW h \in Scale!Handler, Solo(req[h]), Scale!InLoop(h),
           UNCHANGED overload, container \subseteq container',
           Scale!Candidate(h) \in container' \cup overload[req[h].node],
           \A m \in Node : m # Scale!Candidate(h) /\ Scale!Right(m) => Scale!Right(m)',
           \/ req'[h].pc = "call" /\ req'[h].pos = req[h].pos
           \/ req'[h].pc = "loop" /\ req'[h].pos = req[h].pos + 1,
           req'[h].node = req[h].node, req'[h].desired = req[h].desired,
           Cardinality(container') + req'[h].cnt = Goal(req[h].desired)
    PROVE  Solo(req[h])'
<1> DEFINE n == req[h].node
           pos == req[h].pos
<1>1. /\ req[h].pc = "loop" /\ pos \in Nat \ {0} /\ Len(Sorted[n]) \in Nat
      /\ pos <= Len(Sorted[n]) /\ n \in Node
      /\ \A i \in 1 .. Len(Sorted[n]) : Sorted[n][i] \in Node
      /\ Scale!Candidate(h) = Sorted[n][pos]
  BY SoloPosition, ScaleFields DEF Scale!InLoop, Scale!Candidate
<1>2. /\ \A i \in pos .. Len(Sorted[n]) : Scale!Right(Sorted[n][i])
      /\ \A i \in 1 .. pos - 1 : i <= Len(Sorted[n]) =>
             Sorted[n][i] \in container \cup overload[n]
  BY <1>1 DEF Solo, Ahead, Behind, Scale!Upcoming
<1>3. Scale!Upcoming(req'[h]) = pos + 1 /\ req'[h].pc \in {"loop", "call"}
  BY DEF Scale!Upcoming
<1>4. req'[h].node = n
  OBVIOUS
<1> HIDE DEF n, pos
<1>5. Ahead(req[h])'
  <2> SUFFICES ASSUME NEW i \in pos + 1 .. Len(Sorted[n])
               PROVE  Scale!Right(Sorted[req[h].node][i])'
    BY <1>3, <1>4 DEF Ahead
  <2>1. i \in 1 .. Len(Sorted[n]) /\ i \in pos .. Len(Sorted[n]) /\ i # pos
        /\ pos \in 1 .. Len(Sorted[n])
    BY <1>1
  <2>2. PICK m \in Node : m = Sorted[n][i]
    BY <1>1, <2>1
  <2>3. m # Scale!Candidate(h)
    BY <1>1, <2>1, <2>2 DEF Scale!SortedCompletely
  <2>4. Scale!Right(m)
    BY <1>2, <2>1, <2>2
  <2>5. Scale!Right(m)'
    BY <2>3, <2>4
  <2> QED
    BY <1>4, <2>2, <2>5 DEF Scale!Right
<1>6. Behind(req[h])'
  <2> SUFFICES ASSUME NEW i \in 1 .. (pos + 1) - 1, i <= Len(Sorted[n])
               PROVE  Sorted[n][i] \in container' \cup overload[n]
    BY <1>3, <1>4 DEF Behind
  <2>1. CASE i = pos
    BY <1>1, <2>1 DEF n
  <2>2. CASE i # pos
    BY <1>1, <1>2, <2>2
  <2> QED
    BY <2>1, <2>2
<1> QED
  BY <1>3, <1>5, <1>6 DEF Solo

\* The view of the next candidate is right.
LEMMA SoloCandidate ==
    ASSUME Scale!ScalingAssumption, Scale!IInv, NEW h \in Scale!Handler,
           Solo(req[h]), Scale!InLoop(h)
    PROVE  Scale!Right(Scale!Candidate(h))
<1>1. req[h].pos \in req[h].pos .. Len(Sorted[req[h].node]) /\ req[h].pc = "loop"
  BY SoloPosition DEF Scale!InLoop
<1>2. Ahead(req[h])
  BY <1>1 DEF Solo
<1> QED
  BY <1>1, <1>2 DEF Ahead, Scale!Upcoming, Scale!Candidate

LEMMA SoloSkip ==
    ASSUME Scale!ScalingAssumption, Scale!SortedCompletely, Scale!IInv,
           NEW k \in Request, Scale!SoloInv(k), Scale!Skip(Client(k))
    PROVE  Scale!SoloInv(k)'
<1> DEFINE h == Client(k)
<1> SUFFICES ASSUME Free(k)' PROVE Solo(req[h])'
  BY SoloParts
<1>0. h \in Scale!Handler /\ Solo(req[h])
  BY SoloClients, SoloFree DEF Scale!Serve
<1>1. /\ Scale!InLoop(h) /\ UNCHANGED <<container, view, overload>>
      /\ Scale!Candidate(h) \in overload[req[h].node]
      /\ req' = [req EXCEPT ![h].pos = @ + 1]
  BY DEF Scale!Skip
<1>2. /\ req'[h].pc = "loop" /\ req'[h].desired = req[h].desired
      /\ req'[h].node = req[h].node /\ req'[h].pos = req[h].pos + 1
      /\ req'[h].cnt = req[h].cnt /\ req[h].pc = "loop"
  <2>1. /\ req[h] \in Scale!HandlerState /\ req \in [Scale!Handler -> Scale!HandlerState]
        /\ req[h].pc = "loop"
    BY <1>0, <1>1, ScaleFields, ScaleParts DEF Handled, Scale!InLoop
  <2> QED
    BY <1>0, <1>1, <2>1 DEF Scale!HandlerState
<1> HIDE DEF h
<1>3. Cardinality(container') + req'[h].cnt = Goal(req[h].desired)
  BY <1>0, <1>1, <1>2 DEF Solo
<1>4. \A m \in Node : Scale!Right(m) => Scale!Right(m)'
  BY <1>1 DEF Scale!Right
<1> QED
  BY <1>0, <1>1, <1>2, <1>3, <1>4, SoloAdvance

LEMMA SoloPass ==
    ASSUME Scale!ScalingAssumption, Scale!SortedCompletely, Scale!IInv,
           NEW k \in Request, Scale!SoloInv(k), Scale!Pass(Client(k))
    PROVE  Scale!SoloInv(k)'
<1> DEFINE h == Client(k)
<1> SUFFICES ASSUME Free(k)' PROVE Solo(req[h])'
  BY SoloParts
<1>0. h \in Scale!Handler /\ Solo(req[h]) /\ h[2] = "client"
  BY SoloClients, SoloFree DEF Scale!Serve
<1>1. /\ Scale!InLoop(h) /\ UNCHANGED <<container, view, overload>>
      /\ view[req[h].node][Scale!Candidate(h)] = 1
      /\ Scale!ScaleFunction(h, req[h], Scale!Candidate(h))
  BY DEF Scale!Pass
<1> HIDE DEF h
<1>2. /\ Scale!Candidate(h) \in Node /\ req[h].pc = "loop" /\ req[h].node \in Node
      /\ req[h] \in Scale!HandlerState
  BY <1>0, <1>1, ScaleCandidate, ScaleFields
<1>3. /\ \/ req'[h].pc = "call" /\ req'[h].pos = req[h].pos
         \/ req'[h].pc = "loop" /\ req'[h].pos = req[h].pos + 1
      /\ req'[h].node = req[h].node /\ req'[h].desired = req[h].desired
      /\ req'[h].cnt = req[h].cnt
  BY <1>0, <1>1, <1>2, SoloCalls
<1>4. Scale!Candidate(h) \in container
  BY <1>0, <1>1, <1>2, SoloCandidate DEF Scale!Right
<1>5. Cardinality(container') + req'[h].cnt = Goal(req[h].desired)
  BY <1>0, <1>1, <1>2, <1>3 DEF Solo
<1>6. \A m \in Node : Scale!Right(m) => Scale!Right(m)'
  BY <1>1 DEF Scale!Right
<1> QED
  BY <1>0, <1>1, <1>3, <1>4, <1>5, <1>6, SoloAdvance

\* A deployment: one replica more, one fewer missing.
LEMMA SoloDeploy ==
    ASSUME Scale!ScalingAssumption, Scale!SortedCompletely, Scale!IInv,
           NEW k \in Request, Scale!SoloInv(k), Scale!Deploy(Client(k))
    PROVE  Scale!SoloInv(k)'
<1> DEFINE h == Client(k)
           p == Scale!Candidate(h)
           r == [Scale!Counted(req[h]) EXCEPT !.made = @ + 1]
<1> SUFFICES ASSUME Free(k)' PROVE Solo(req[h])'
  BY SoloParts
<1>0. h \in Scale!Handler /\ Solo(req[h]) /\ h[2] = "client"
  BY SoloClients, SoloFree DEF Scale!Serve
<1>1. /\ Scale!InLoop(h) /\ UNCHANGED <<view, overload>> /\ p \notin container
      /\ container' = container \cup {p} /\ Scale!ScaleFunction(h, r, p)
  BY DEF Scale!Deploy
<1> HIDE DEF h
<1>2. /\ p \in Node /\ req[h].pc = "loop" /\ req[h].node \in Node
      /\ req[h] \in Scale!HandlerState /\ req[h].cnt \in Nat /\ req[h].cnt > 0
      /\ Goal(req[h].desired) \in Nat
  BY <1>0, <1>1, ScaleCandidate, ScaleFields DEF Scale!ScalingAssumption
<1>3. /\ r \in Scale!HandlerState /\ r.pc = "loop" /\ r.node = req[h].node
      /\ r.desired = req[h].desired /\ r.pos = req[h].pos /\ r.cnt = req[h].cnt - 1
  BY <1>2, ScaleCounted
<1> HIDE DEF p, r
<1>4. /\ \/ req'[h].pc = "call" /\ req'[h].pos = req[h].pos
         \/ req'[h].pc = "loop" /\ req'[h].pos = req[h].pos + 1
      /\ req'[h].node = req[h].node /\ req'[h].desired = req[h].desired
      /\ req'[h].cnt = req[h].cnt - 1
  <2>1. /\ \/ req'[h].pc = "call" /\ req'[h].pos = r.pos
           \/ req'[h].pc = "loop" /\ req'[h].pos = r.pos + 1
        /\ req'[h].node = r.node /\ req'[h].desired = r.desired
        /\ req'[h].cnt = r.cnt
    BY <1>0, <1>1, <1>2, <1>3, SoloCalls
  <2> QED
    BY <1>3, <2>1
<1>5. Cardinality(container') + req'[h].cnt = Goal(req[h].desired)
  <2>1. /\ Cardinality(container) \in Nat
        /\ Cardinality(container') = Cardinality(container) + 1
    BY <1>1, <1>2, SoloCount
  <2>2. Cardinality(container) + req[h].cnt = Goal(req[h].desired)
    BY <1>0, <1>2 DEF Solo
  <2> QED
    BY <1>2, <1>4, <2>1, <2>2
<1>6. \A m \in Node : m # p /\ Scale!Right(m) => Scale!Right(m)'
  BY <1>1 DEF Scale!Right
<1> QED
  BY <1>0, <1>1, <1>4, <1>5, <1>6, SoloAdvance DEF p

\* Nothing fails, and no node has a replica that this one does not know of.
LEMMA SoloDeployFails ==
    ASSUME Scale!ScalingAssumption, Scale!IInv,
           NEW k \in Request, Scale!SoloInv(k), Scale!DeployFails(Client(k))
    PROVE  Scale!SoloInv(k)'
<1> DEFINE h == Client(k)
           p == Scale!Candidate(h)
<1> SUFFICES ASSUME Free(k)' PROVE FALSE
  BY SoloParts
<1>0. h \in Scale!Handler /\ Solo(req[h]) /\ failures = 0 /\ failures' = 0
  BY SoloClients, SoloFree DEF Scale!Serve
<1>1. /\ Scale!InLoop(h) /\ view[req[h].node][p] = 0
      /\ p \in container \/ failures' = failures + 1
  BY DEF Scale!DeployFails, Scale!Failure
<1>2. p \in container
  BY <1>0, <1>1
<1>3. Scale!Right(p) /\ req[h].node \in Node
  BY <1>0, <1>1, SoloCandidate, ScaleFields
<1> QED
  BY <1>1, <1>2, <1>3 DEF Scale!Right

\* The answer of a peer is never a success: what is missing stays missing.
LEMMA SoloReturned ==
    ASSUME Scale!ScalingAssumption, Scale!IInv,
           NEW k \in Request, Scale!SoloInv(k), Scale!Returned(Client(k))
    PROVE  Scale!SoloInv(k)'
<1> DEFINE h == Client(k)
           g == Scale!Callee(h)
           r == [req[h] EXCEPT !.pc = "loop", !.pos = @ + 1,
                     !.cnt = IF req[g].pc = "ok" THEN 0 ELSE @]
           c == Scale!Idle(req[h].node)
<1> SUFFICES ASSUME Free(k)' PROVE Solo(req[h])'
  BY SoloParts
<1>0. h \in Scale!Handler /\ Solo(req[h]) /\ h[2] = "client"
  BY SoloClients, SoloFree DEF Scale!Serve
<1>1. /\ req[h].pc = "call" /\ UNCHANGED <<container, view, overload>>
      /\ req' = [req EXCEPT ![h] = r, ![g] = c]
  BY DEF Scale!Returned
<1>2. g \in Scale!Handler /\ g # h /\ req[g].pc # "ok"
  <2>1. g \in Scale!Handler /\ g # h /\ g[2] = "peer"
    BY <1>0, ScaleHandlers
  <2> QED
    BY <2>1, ScaleFields DEF Marked
<1>3. req \in [Scale!Handler -> Scale!HandlerState] /\ req[h] \in Scale!HandlerState
  BY <1>0, ScaleParts, ScaleFields DEF Handled
<1>4. /\ r.pc = "loop" /\ r.pos = req[h].pos + 1 /\ r.cnt = req[h].cnt
      /\ r.node = req[h].node /\ r.desired = req[h].desired
  BY <1>2, <1>3 DEF Scale!HandlerState
<1> HIDE DEF h, g, r, c
<1>5. req'[h] = r
  BY <1>0, <1>1, <1>2, <1>3
<1>6. Scale!Upcoming(req'[h]) = Scale!Upcoming(req[h])
  BY <1>1, <1>4, <1>5 DEF Scale!Upcoming
<1>7. Cardinality(container) + req[h].cnt = Goal(req[h].desired)
      /\ Ahead(req[h]) /\ Behind(req[h])
  BY <1>0, <1>1 DEF Solo
<1>8. Ahead(req[h])'
  BY <1>1, <1>4, <1>5, <1>6, <1>7 DEF Ahead, Scale!Right
<1>9. Behind(req[h])'
  BY <1>1, <1>4, <1>5, <1>6, <1>7 DEF Behind
<1> QED
  BY <1>1, <1>4, <1>5, <1>7, <1>8, <1>9 DEF Solo

\* A scale down is none of the scale ups that ScaledUp is about.
LEMMA SoloScaleDown ==
    ASSUME Scale!ScalingAssumption, Scale!IInv,
           NEW k \in Request, Scale!SoloInv(k), Scale!ScaleDown(Client(k))
    PROVE  Scale!SoloInv(k)'
<1> DEFINE h == Client(k)
<1> SUFFICES ASSUME Free(k)' PROVE Solo(req[h])'
  BY SoloParts
<1>0. h \in Scale!Handler /\ Solo(req[h])
  BY SoloClients, SoloFree DEF Scale!Serve
<1>1. req[h].pc = "down" /\ req' = [req EXCEPT ![h].pc = "ok"]
  BY DEF Scale!ScaleDown
<1>2. /\ req \in [Scale!Handler -> Scale!HandlerState] /\ req[h] \in Scale!HandlerState
      /\ req[h].seen \in Nat /\ Goal(req[h].desired) \in Nat
  BY <1>0, ScaleParts, ScaleFields DEF Handled, Scale!ScalingAssumption
<1>3. /\ req'[h].pc = "ok" /\ req'[h].desired = req[h].desired
      /\ req'[h].seen = req[h].seen
  BY <1>0, <1>1, <1>2 DEF Scale!HandlerState
<1>4. req[h].seen >= Goal(req[h].desired)
  BY <1>0, <1>1 DEF Solo
<1> HIDE DEF h
<1>5. ~ (req'[h].seen < Goal(req'[h].desired))
  BY <1>2, <1>3, <1>4
<1> QED
  BY <1>3, <1>5 DEF Solo

LEMMA SoloInit ==
    ASSUME Scale!ScalingAssumption, Scale!Init, NEW k \in Request
    PROVE  Scale!SoloInv(k)
<1>1. req[Client(k)].pc = "idle"
  BY SoloClients DEF Scale!Init, Scale!Idle
<1>2. \A m \in Node : Scale!Right(m)
  BY DEF Scale!Init, Scale!Right
<1> QED
  BY <1>1, <1>2, SoloParts DEF Solo

LEMMA SoloNext ==
    ASSUME Scale!ScalingAssumption, Scale!SortedCompletely, Scale!IInv,
           NEW k \in Request, Scale!SoloInv(k), [Scale!Next]_(Scale!vars)
    PROVE  Scale!SoloInv(k)'
<1>1. ASSUME NEW g \in Scale!Handler, NEW n \in Node, NEW r \in 0 .. MaxAsked,
             Scale!Ask(g, n, r)
      PROVE  Scale!SoloInv(k)'
  BY <1>1, SoloAsk
<1>2. ASSUME NEW g \in Scale!Handler, Scale!Serve(g)
      PROVE  Scale!SoloInv(k)'
  <2>1. CASE g # Client(k)
    BY <1>2, <2>1, SoloOther
  <2>2. CASE g = Client(k)
    <3>1. Scale!Serve(Client(k))
      BY <1>2, <2>2
    <3> QED
      BY <3>1, SoloDecide, SoloLoopStarts, SoloFinish, SoloSkip, SoloPass, SoloDeploy,
         SoloDeployFails, SoloReturned, SoloScaleDown
      DEF Scale!Serve
  <2> QED
    BY <2>1, <2>2
<1>3. ASSUME NEW p \in Node, Scale!Ready(p)
      PROVE  Scale!SoloInv(k)'
  BY <1>3, SoloReady
<1>4. ASSUME NEW n \in Node, NEW m \in Node, Scale!Learn(n, m)
      PROVE  Scale!SoloInv(k)'
  BY <1>4, SoloLearn
<1>5. CASE UNCHANGED Scale!vars
  <2>1. UNCHANGED <<container, view, overload, req, failures>>
    BY <1>5 DEF Scale!vars
  <2>2. Free(k)' => Free(k)
    BY <2>1 DEF Free, Scale!Alone
  <2>3. \A m \in Node : Scale!Right(m) => Scale!Right(m)'
    BY <2>1 DEF Scale!Right
  <2> QED
    BY <2>1, <2>2, <2>3, SoloKept
<1> QED
  BY <1>1, <1>2, <1>3, <1>4, <1>5 DEF Scale!Next

\* A client without competitors gets the replicas it asked for, or all that the
\* nodes that are not overloaded can take, when nothing fails: for any nodes and
\* any rankings that name every node once (scale.go:113, scale.go:143).
THEOREM MissingAreMade ==
    ASSUME Scale!ScalingAssumption, Scale!SortedCompletely
    PROVE  Scale!Spec => []Scale!ScaledUp
<1> DEFINE Inv == Scale!IInv /\ \A k \in Request : Scale!SoloInv(k)
<1>1. Scale!Init => \A k \in Request : Scale!SoloInv(k)
  BY SoloInit
<1>2. Scale!IInv /\ (\A k \in Request : Scale!SoloInv(k)) /\ [Scale!Next]_(Scale!vars)
          => (\A k \in Request : Scale!SoloInv(k))'
  BY SoloNext
<1>3. Inv => Scale!ScaledUp
  <2> SUFFICES ASSUME Inv, NEW h \in Scale!Handler,
                      req[h].pc = "ok", req[h].seen < Scale!Target(h),
                      Scale!Alone(h), failures = 0
               PROVE  \/ Scale!Cardinality(container) = Scale!Target(h)
                      \/ /\ Scale!Cardinality(container) < Scale!Target(h)
                         /\ Node \subseteq container \cup overload[req[h].node]
    BY DEF Scale!ScaledUp
  <2>1. h[2] = "client" /\ h[1] \in Request
    BY ScaleHandlers, ScaleFields DEF Marked
  <2>2. h = <<h[1], "client">>
    BY <2>1, ScaleHandlers
  <2> QED
    BY <2>1, <2>2 DEF Scale!SoloInv
<1> QED
  BY <1>1, <1>2, <1>3, ScaleInvariance, PTL DEF Scale!Spec

-----------------------------------------------------------------------------
(* The ranking by round trip time.                                         *)

\* Index k comes before index j when s is sorted; equal values keep their order.
Before(s, k, j) == s[k] < s[j] \/ (s[k] = s[j] /\ k < j)

\* Every sequence of times can be sorted: an index goes to the place after all
\* indices that come before it.
LEMMA SortExists ==
    ASSUME NEW s \in Seq(Nat)
    PROVE  \E q \in Rank!Bijection(DOMAIN s, DOMAIN s) :
               \A i, j \in DOMAIN s : i < j => s[q[i]] <= s[q[j]]
<1> DEFINE I == 1 .. Len(s)
           R(j) == {k \in I : Before(s, k, j)}
           place == [j \in I |-> Cardinality(R(j)) + 1]
<1>1. /\ DOMAIN s = I /\ Len(s) \in Nat /\ I \subseteq Nat
      /\ \A k \in I : s[k] \in Nat
  OBVIOUS
<1>2. IsFiniteSet(I) /\ Cardinality(I) = Len(s)
  <2>1. Len(s) \in Int /\ 1 \in Int
    BY <1>1
  <2>2. /\ IsFiniteSet(1 .. Len(s))
        /\ Cardinality(1 .. Len(s)) = IF 1 > Len(s) THEN 0 ELSE Len(s) - 1 + 1
    BY <2>1, FS_Interval
  <2> QED
    BY <1>1, <2>2
<1> HIDE DEF I
<1>3. \A j \in I : R(j) \in SUBSET I /\ j \notin R(j)
  BY <1>1 DEF Before
<1>4. \A j \in I : IsFiniteSet(R(j)) /\ Cardinality(R(j)) \in Nat
  BY <1>2, <1>3, FS_Subset, FS_CardinalityType
<1>5. ASSUME NEW j \in I, NEW k \in I, Before(s, k, j)
      PROVE  Cardinality(R(k)) < Cardinality(R(j))
  <2>1. R(k) \in SUBSET R(j)
    BY <1>1, <1>5 DEF Before
  <2>2. k \in R(j) /\ k \notin R(k)
    BY <1>3, <1>5
  <2>3. Cardinality(R(k)) <= Cardinality(R(j)) /\ Cardinality(R(k)) # Cardinality(R(j))
    <3> HIDE DEF R
    <3>1. /\ Cardinality(R(k)) <= Cardinality(R(j))
          /\ Cardinality(R(j)) = Cardinality(R(k)) => R(j) = R(k)
      BY <1>4, <2>1, FS_Subset
    <3> QED
      BY <2>2, <3>1
  <2> HIDE DEF R
  <2> QED
    BY <1>4, <2>3
<1>6. \A j \in I : Cardinality(R(j)) + 1 \in I
  <2> SUFFICES ASSUME NEW j \in I PROVE Cardinality(R(j)) + 1 \in I
    OBVIOUS
  <2>1. R(j) \in SUBSET I /\ R(j) # I
    BY <1>3
  <2> HIDE DEF R
  <2>2. /\ Cardinality(R(j)) <= Cardinality(I)
        /\ Cardinality(I) = Cardinality(R(j)) => I = R(j)
    BY <1>2, <2>1, FS_Subset
  <2>3. PICK c \in Nat : c = Cardinality(R(j))
    BY <1>4
  <2>4. c <= Len(s) /\ c # Len(s)
    BY <1>2, <2>1, <2>2, <2>3
  <2>5. c + 1 \in 1 .. Len(s)
    BY <1>1, <2>3, <2>4
  <2> QED
    BY <2>3, <2>5 DEF I
<1>7. \A j, k \in I : j = k \/ Before(s, j, k) \/ Before(s, k, j)
  BY <1>1 DEF Before
<1>8. place \in Injection(I, I)
  <2>1. place \in [I -> I]
    <3> HIDE DEF R
    <3> QED
      BY <1>6
  <2>2. ASSUME NEW j \in I, NEW k \in I, place[j] = place[k] PROVE j = k
    <3> HIDE DEF R
    <3>1. Cardinality(R(j)) + 1 = Cardinality(R(k)) + 1
      BY <2>2
    <3>2. Cardinality(R(j)) = Cardinality(R(k))
      BY <1>4, <3>1
    <3>3. ~ (Cardinality(R(j)) < Cardinality(R(k))) /\ ~ (Cardinality(R(k)) < Cardinality(R(j)))
      BY <1>4, <3>2
    <3> QED
      BY <1>5, <1>7, <3>3
  <2> HIDE DEF place
  <2>3. IsInjective(place)
    BY <2>1, <2>2 DEF IsInjective
  <2> QED
    BY <2>1, <2>3 DEF Injection
<1>9. place \in Surjection(I, I)
  BY <1>2, <1>8, FS_Injection
<1>10. \A j, k \in I : place[j] < place[k] => s[j] <= s[k]
  <2> SUFFICES ASSUME NEW j \in I, NEW k \in I, place[j] < place[k] PROVE s[j] <= s[k]
    OBVIOUS
  <2> HIDE DEF R
  <2>1. Cardinality(R(j)) + 1 < Cardinality(R(k)) + 1
    OBVIOUS
  <2>2. ~ (Cardinality(R(k)) < Cardinality(R(j))) /\ j # k
    BY <1>4, <2>1
  <2>3. Before(s, j, k)
    BY <1>5, <1>7, <2>2
  <2> QED
    BY <1>1, <2>3 DEF Before
<1> HIDE DEF place
<1> DEFINE q == [i \in I |-> CHOOSE j \in I : place[j] = i]
<1>11. \A i \in I : q[i] \in I /\ place[q[i]] = i
  BY <1>9 DEF Surjection
<1>12. q \in [I -> I]
  BY <1>11
<1>13. \A j \in I : place[j] \in I /\ q[place[j]] = j
  <2> SUFFICES ASSUME NEW j \in I PROVE place[j] \in I /\ q[place[j]] = j
    OBVIOUS
  <2>1. place[j] \in I
    BY <1>8 DEF Injection
  <2>2. q[place[j]] \in I /\ place[q[place[j]]] = place[j]
    BY <1>11, <2>1
  <2> HIDE DEF q
  <2> QED
    BY <1>8, <2>1, <2>2 DEF Injection, IsInjective
<1> HIDE DEF q
<1>14. q \in Rank!Bijection(I, I)
  <2>1. \A a, b \in I : q[a] = q[b] => a = b
    BY <1>11
  <2>2. \A t \in I : \E i \in I : q[i] = t
    BY <1>13
  <2>3. Rank!IsInjective(q)
    BY <1>12, <2>1 DEF Rank!IsInjective
  <2> QED
    BY <1>12, <2>2, <2>3 DEF Rank!Bijection, Rank!Injection, Rank!Surjection
<1>15. \A i, j \in I : i < j => s[q[i]] <= s[q[j]]
  BY <1>10, <1>11
<1> QED
  BY <1>1, <1>14, <1>15

\* slices.Sort keeps what it sorts.
LEMMA SortFacts ==
    ASSUME NEW s \in Seq(Nat)
    PROVE  /\ Rank!Sort(s) \in Seq(Nat)
           /\ Len(Rank!Sort(s)) = Len(s)
           /\ Rank!Range(Rank!Sort(s)) = Rank!Range(s)
           /\ Rank!IsInjective(Rank!Sort(s)) => Rank!IsInjective(s)
           /\ \A i \in 1 .. Len(s) : Rank!Sort(s)[1] <= Rank!Sort(s)[i]
<1> DEFINE q == CHOOSE q \in Rank!Bijection(DOMAIN s, DOMAIN s) :
                    \A i, j \in DOMAIN s : i < j => s[q[i]] <= s[q[j]]
           z == Rank!Sort(s)
<1>1. /\ q \in Rank!Bijection(DOMAIN s, DOMAIN s)
      /\ \A i, j \in DOMAIN s : i < j => s[q[i]] <= s[q[j]]
  BY SortExists
<1>2. z = [i \in DOMAIN s |-> s[q[i]]]
  BY DEF Rank!Sort
<1> HIDE DEF q, z
<1>3. DOMAIN s = 1 .. Len(s) /\ Len(s) \in Nat /\ \A i \in 1 .. Len(s) : s[i] \in Nat
  OBVIOUS
<1>4. /\ q \in [DOMAIN s -> DOMAIN s]
      /\ \A a, b \in DOMAIN s : q[a] = q[b] => a = b
      /\ \A t \in DOMAIN s : \E i \in DOMAIN s : q[i] = t
  BY <1>1 DEF Rank!Bijection, Rank!Injection, Rank!Surjection, Rank!IsInjective
<1>5. z \in Seq(Nat) /\ Len(z) = Len(s) /\ DOMAIN z = DOMAIN s
  <2>1. z \in [1 .. Len(s) -> Nat]
    BY <1>2, <1>3, <1>4
  <2> QED
    BY <1>3, <2>1
<1>6. Rank!Range(z) = Rank!Range(s)
  BY <1>2, <1>4 DEF Rank!Range
<1>7. Rank!IsInjective(z) => Rank!IsInjective(s)
  <2> SUFFICES ASSUME \A a, b \in DOMAIN s : z[a] = z[b] => a = b,
                      NEW c \in DOMAIN s, NEW d \in DOMAIN s, s[c] = s[d]
               PROVE  c = d
    BY <1>5 DEF Rank!IsInjective
  <2>1. PICK a \in DOMAIN s, b \in DOMAIN s : q[a] = c /\ q[b] = d
    BY <1>4
  <2> QED
    BY <1>2, <2>1
<1>8. ASSUME NEW i \in 1 .. Len(s) PROVE z[1] <= z[i]
  <2>1. 1 \in DOMAIN s /\ i \in DOMAIN s /\ i \in Nat
    BY <1>3, <1>8
  <2>2. z[1] = s[q[1]] /\ z[i] = s[q[i]] /\ z[i] \in Nat
    BY <1>2, <1>3, <1>4, <2>1
  <2>3. CASE i = 1
    BY <2>2, <2>3
  <2>4. CASE i # 1
    <3>1. 1 < i
      BY <2>1, <2>4, <1>8
    <3> QED
      BY <1>1, <2>1, <2>2, <3>1
  <2> QED
    BY <2>3, <2>4
<1> QED
  BY <1>5, <1>6, <1>7, <1>8 DEF z

RankPc == {"idle", "range", "copy", "done", "hung"}

JoinState ==
    [pc : RankPc, due : SUBSET Rank!Key, met : SUBSET Rank!Key, rtts : Seq(Nat),
     rttToID : UNION {[D -> Rank!Key] : D \in SUBSET Nat}, next : Nat]

\* The times of a call: one for each node met, and a map back to the nodes that
\* loses one only when two times are equal.
Timed(j) ==
    /\ Rank!Range(j.rtts) = DOMAIN j.rttToID
    /\ Rank!Range(j.rttToID) \subseteq j.met
    /\ Len(j.rtts) = Cardinality(j.met)
    /\ Self \in j.met => 0 \in DOMAIN j.rttToID
    /\ 0 \in DOMAIN j.rttToID => j.rttToID[0] = Self
    /\ Rank!IsInjective(j.rttToID)
    /\ Rank!IsInjective(j.rtts) => Rank!Range(j.rttToID) = j.met

\* How far the call for p is, when N are the nodes known.
Phased(p, j, N) ==
    /\ j.due \subseteq N /\ j.met \subseteq N
    /\ j.pc = "idle" <=> p \notin N
    /\ j.due = {} \/ {p, Self} \subseteq j.due
    /\ j.due = {} <=> j.pc = "idle"
    /\ j.pc \in {"idle", "range", "hung"} => j.next = 1
    /\ j.pc \in {"copy", "done"} =>
           /\ j.due \subseteq j.met
           /\ \A i \in 1 .. Len(j.rtts) : j.rtts[1] <= j.rtts[i]
    /\ j.next \in 1 .. Capacity + 1
    /\ j.next <= Len(j.rtts) + 1
    /\ j.pc = "done" => j.next > Len(j.rtts)

\* The slice.
Sliced ==
    /\ slots \in [1 .. Capacity -> Rank!Key \cup {None}]
    /\ slots[1] = Self
    /\ length \in 1 .. Capacity
    /\ lost \in 0 .. MaxLost
    /\ overlapped \in BOOLEAN

RankInv == Rank!IInv /\ join \in [Peer -> JoinState]

LEMMA RankParts ==
    /\ RankInv <=> /\ nodes \in SUBSET Rank!Key /\ Self \in nodes
                   /\ join \in [Peer -> JoinState]
                   /\ \A p \in Peer : Timed(join[p]) /\ Phased(p, join[p], nodes)
                   /\ Sliced
                   /\ Rank!OneByOne
    /\ RankInv' <=> /\ nodes' \in SUBSET Rank!Key /\ Self \in nodes'
                    /\ join' \in [Peer -> JoinState]
                    /\ \A p \in Peer : Timed(join'[p]) /\ Phased(p, join'[p], nodes')
                    /\ Sliced'
                    /\ Rank!OneByOne'
<1>0. \A S : Rank!Cardinality(S) = Cardinality(S)
  BY DEF Rank!Cardinality, Cardinality
<1>1. RankInv <=> /\ nodes \in SUBSET Rank!Key /\ Self \in nodes
                  /\ join \in [Peer -> JoinState]
                  /\ \A p \in Peer : Timed(join[p]) /\ Phased(p, join[p], nodes)
                  /\ Sliced
                  /\ Rank!OneByOne
  <2>1. ASSUME join \in [Peer -> JoinState], NEW p \in Peer
        PROVE  /\ join[p].pc \in RankPc
               /\ join[p].rtts \in Seq(Nat)
    BY <2>1 DEF JoinState
  <2> QED
    BY <1>0, <2>1 DEF RankInv, Rank!IInv, Rank!TypeOK, Rank!JoinInv, Sliced, Timed,
       Phased, RankPc
<1>2. RankInv' <=> /\ nodes' \in SUBSET Rank!Key /\ Self \in nodes'
                   /\ join' \in [Peer -> JoinState]
                   /\ \A p \in Peer : Timed(join'[p]) /\ Phased(p, join'[p], nodes')
                   /\ Sliced'
                   /\ Rank!OneByOne'
  <2>1. ASSUME join' \in [Peer -> JoinState], NEW p \in Peer
        PROVE  /\ join'[p].pc \in RankPc
               /\ join'[p].rtts \in Seq(Nat)
    BY <2>1 DEF JoinState
  <2> QED
    BY <1>0, <2>1 DEF RankInv, Rank!IInv, Rank!TypeOK, Rank!JoinInv, Sliced, Timed,
       Phased, RankPc
<1> QED
  BY <1>1, <1>2

LEMMA RankStep ==
    ASSUME RankInv, NEW p \in Peer, join' \in [Peer -> JoinState],
           \A q \in Peer \ {p} : join'[q] = join[q],
           nodes' \in {nodes, nodes \cup {p}},
           Timed(join'[p]), Phased(p, join'[p], nodes'),
           Sliced', Rank!OneByOne'
    PROVE  RankInv'
<1>1. nodes' \in SUBSET Rank!Key /\ Self \in nodes'
  BY RankParts DEF Rank!Key
<1>2. \A q \in Peer \ {p} : Timed(join'[q]) /\ Phased(q, join'[q], nodes')
  <2> SUFFICES ASSUME NEW q \in Peer \ {p}
               PROVE  Timed(join'[q]) /\ Phased(q, join'[q], nodes')
    OBVIOUS
  <2>1. Timed(join[q]) /\ Phased(q, join[q], nodes) /\ join'[q] = join[q]
    BY RankParts
  <2>2. nodes \subseteq nodes' /\ (q \in nodes' <=> q \in nodes)
    OBVIOUS
  <2> QED
    BY <2>1, <2>2 DEF Phased
<1> QED
  BY <1>1, <1>2, RankParts

\* The call under way has met a node that no other call knows.
LEMMA RankAlone ==
    ASSUME RankInv, ~ overlapped, NEW p \in Peer, join[p].pc \in {"range", "copy"},
           NEW q \in Peer \ {p}
    PROVE  /\ ~ (join[p].due \subseteq join[q].due)
           /\ join[q].pc \notin {"range", "copy"}
<1>1. p \in join[p].due
  BY RankParts DEF Phased
<1>2. p \in Rank!Ranking
  BY DEF Rank!Ranking
<1>3. q \notin Rank!Ranking /\ p \notin join[q].due
  BY <1>2, RankParts DEF Rank!OneByOne
<1> QED
  BY <1>1, <1>3 DEF Rank!Ranking

\* A step of the call for p that leaves the slice alone.
LEMMA RankQuiet ==
    ASSUME RankInv, NEW p \in Peer,
           \A q \in Peer \ {p} : join'[q] = join[q],
           join'[p].due = join[p].due,
           join'[p].pc \in {"range", "copy"} => join[p].pc \in {"range", "copy"},
           join'[p].pc \in {"copy", "done"} =>
               /\ join[p].pc \in {"copy", "done"}
               /\ join'[p].rtts = join[p].rtts
               /\ join'[p].rttToID = join[p].rttToID
               /\ join'[p].next = join[p].next,
           UNCHANGED <<slots, length, overlapped>>
    PROVE  Rank!OneByOne'
<1> SUFFICES ASSUME ~ overlapped, NEW r \in Peer
             PROVE  /\ r \in Rank!Ranking' => \A q \in Peer \ {r} :
                           q \notin Rank!Ranking' /\ r \notin join'[q].due
                    /\ /\ join'[r].pc \in {"copy", "done"}
                       /\ \A q \in Peer : join'[q].due \subseteq join'[r].due
                       => /\ length = Len(join'[r].rtts)
                          /\ \A i \in 1 .. join'[r].next - 1 :
                                 slots[i] = join'[r].rttToID[join'[r].rtts[i]]
  BY DEF Rank!OneByOne
<1>1. /\ r \in Rank!Ranking => \A q \in Peer \ {r} :
             q \notin Rank!Ranking /\ r \notin join[q].due
      /\ /\ join[r].pc \in {"copy", "done"}
         /\ \A q \in Peer : join[q].due \subseteq join[r].due
         => /\ length = Len(join[r].rtts)
            /\ \A i \in 1 .. join[r].next - 1 :
                   slots[i] = join[r].rttToID[join[r].rtts[i]]
  BY RankParts DEF Rank!OneByOne
<1>2. \A q \in Peer : /\ join'[q].due = join[q].due
                      /\ q \in Rank!Ranking' => q \in Rank!Ranking
  BY DEF Rank!Ranking
<1>3. join'[r].pc \in {"copy", "done"} =>
          /\ join[r].pc \in {"copy", "done"}
          /\ join'[r].rtts = join[r].rtts
          /\ join'[r].rttToID = join[r].rttToID
          /\ join'[r].next = join[r].next
  OBVIOUS
<1> QED
  BY <1>1, <1>2, <1>3

LEMMA RankInit ==
    ASSUME Rank!RankingAssumption, Rank!Init
    PROVE  RankInv
<1>1. Capacity \in Nat /\ Capacity >= 1
  <2>1. Cardinality(Peer) \in Nat
    <3>1. IsFiniteSet(Peer)
      BY DEF Rank!RankingAssumption, Rank!IsFiniteSet, IsFiniteSet
    <3> QED
      BY <3>1, FS_CardinalityType
  <2>2. Rank!Cardinality(Peer) = Cardinality(Peer)
    BY DEF Rank!Cardinality, Cardinality
  <2> QED
    BY <2>1, <2>2 DEF Rank!RankingAssumption
<1> DEFINE e == <<>>
           j0 == [pc |-> "idle", due |-> {}, met |-> {}, rtts |-> <<>>,
                  rttToID |-> <<>>, next |-> 1]
<1>2. <<>> \in Seq(Nat) /\ Len(<<>>) = 0 /\ DOMAIN <<>> = {}
  OBVIOUS
<1>3. <<>> \in UNION {[D -> Rank!Key] : D \in SUBSET Nat}
  <2>1. <<>> \in [{} -> Rank!Key]
    BY <1>2
  <2> QED
    BY <2>1
<1>4. join = [p \in Peer |-> j0]
  BY DEF Rank!Init
<1>5. join \in [Peer -> JoinState]
  <2>1. j0 \in JoinState
    BY <1>2, <1>3 DEF JoinState, RankPc
  <2> HIDE DEF j0
  <2> QED
    BY <1>4, <2>1
<1>6. ASSUME NEW p \in Peer
      PROVE  /\ join[p].pc = "idle" /\ join[p].due = {} /\ join[p].met = {}
             /\ join[p].rtts = <<>> /\ join[p].rttToID = <<>> /\ join[p].next = 1
  BY <1>4
<1>7. ASSUME NEW p \in Peer PROVE Timed(join[p]) /\ Phased(p, join[p], nodes)
  <2>1. Cardinality({}) = 0
    BY FS_EmptySet
  <2>2. Timed(join[p])
    BY <1>2, <1>6, <2>1 DEF Timed, Rank!Range, Rank!IsInjective
  <2>3. p \notin nodes
    BY DEF Rank!Init, Rank!RankingAssumption
  <2>4. Phased(p, join[p], nodes)
    BY <1>1, <1>2, <1>6, <2>3 DEF Phased
  <2> QED
    BY <2>2, <2>4
<1>8. Sliced
  <2>1. slots \in [1 .. Capacity -> Rank!Key \cup {None}] /\ slots[1] = Self
    BY <1>1 DEF Rank!Init, Rank!Key
  <2>2. MaxLost \in Nat /\ length = 1 /\ lost = 0 /\ overlapped = FALSE
    BY DEF Rank!Init, Rank!RankingAssumption
  <2>3. length \in 1 .. Capacity /\ lost \in 0 .. MaxLost
    BY <1>1, <2>2
  <2> QED
    BY <2>1, <2>2, <2>3 DEF Sliced
<1>9. Rank!OneByOne
  BY <1>6 DEF Rank!OneByOne, Rank!Ranking
<1>10. nodes \in SUBSET Rank!Key /\ Self \in nodes
  BY DEF Rank!Init, Rank!Key
<1> QED
  BY <1>5, <1>7, <1>8, <1>9, <1>10, RankParts

LEMMA RankInsert ==
    ASSUME Rank!RankingAssumption, RankInv, NEW p \in Peer, Rank!Insert(p)
    PROVE  RankInv'
<1>1. /\ join[p].pc = "idle" /\ nodes' = nodes \cup {p}
      /\ join' = [join EXCEPT ![p].pc = "range", ![p].due = nodes']
      /\ overlapped' = (overlapped \/ Rank!Ranking # {})
      /\ UNCHANGED <<slots, length, lost>>
  BY DEF Rank!Insert
<1>2. join \in [Peer -> JoinState] /\ nodes' \in SUBSET Rank!Key
  BY <1>1, RankParts DEF Rank!Key
<1>3. join' \in [Peer -> JoinState]
  <2>1. PICK N \in SUBSET Rank!Key : N = nodes'
    BY <1>2
  <2>2. [join[p] EXCEPT !.pc = "range", !.due = N] \in JoinState
    BY <1>2 DEF JoinState, RankPc
  <2>3. join' = [join EXCEPT ![p] = [join[p] EXCEPT !.pc = "range", !.due = N]]
    BY <1>1, <1>2, <2>1 DEF JoinState
  <2> QED
    BY <1>2, <2>2, <2>3
<1>4. /\ \A q \in Peer \ {p} : join'[q] = join[q]
      /\ join'[p].pc = "range" /\ join'[p].due = nodes'
      /\ join'[p].met = join[p].met /\ join'[p].rtts = join[p].rtts
      /\ join'[p].rttToID = join[p].rttToID /\ join'[p].next = join[p].next
  BY <1>1, <1>2 DEF JoinState
<1>5. p \notin nodes /\ Self \in nodes /\ Phased(p, join[p], nodes) /\ Timed(join[p])
  BY <1>1, RankParts DEF Phased
<1>6. Timed(join'[p])
  BY <1>4, <1>5 DEF Timed
<1>7. Phased(p, join'[p], nodes')
  BY <1>1, <1>4, <1>5 DEF Phased
<1>8. Sliced'
  BY <1>1, RankParts DEF Sliced
<1>9. Rank!OneByOne'
  <2> SUFFICES ASSUME ~ overlapped', NEW r \in Peer
               PROVE  /\ r \in Rank!Ranking' => \A q \in Peer \ {r} :
                             q \notin Rank!Ranking' /\ r \notin join'[q].due
                      /\ ~ (/\ join'[r].pc \in {"copy", "done"}
                            /\ \A q \in Peer : join'[q].due \subseteq join'[r].due)
    BY DEF Rank!OneByOne
  <2>1. Rank!Ranking = {}
    BY <1>1
  <2>2. Rank!Ranking' = {p}
    BY <1>4, <2>1 DEF Rank!Ranking
  <2>3. \A q \in Peer \ {p} : p \notin join'[q].due
    BY <1>4, <1>5, RankParts DEF Phased
  <2>4. p \in join'[p].due
    BY <1>1, <1>4
  <2> QED
    BY <1>4, <2>2, <2>3, <2>4
<1> QED
  BY <1>1, <1>3, <1>4, <1>6, <1>7, <1>8, <1>9, RankStep

LEMMA RankPingLost ==
    ASSUME Rank!RankingAssumption, RankInv, NEW p \in Peer, NEW n, Rank!PingLost(p, n)
    PROVE  RankInv'
<1>1. /\ join[p].pc = "range" /\ lost' = lost + 1 /\ lost < MaxLost
      /\ join' = [join EXCEPT ![p].pc = "hung"]
      /\ UNCHANGED <<nodes, slots, length, overlapped>>
  BY DEF Rank!PingLost
<1>2. join \in [Peer -> JoinState]
  BY RankParts
<1>3. join' \in [Peer -> JoinState]
  BY <1>1, <1>2 DEF JoinState, RankPc
<1>4. /\ \A q \in Peer \ {p} : join'[q] = join[q]
      /\ join'[p].pc = "hung" /\ join'[p].due = join[p].due
      /\ join'[p].met = join[p].met /\ join'[p].rtts = join[p].rtts
      /\ join'[p].rttToID = join[p].rttToID /\ join'[p].next = join[p].next
  BY <1>1, <1>2 DEF JoinState
<1>5. Phased(p, join[p], nodes) /\ Timed(join[p])
  BY RankParts
<1>6. Timed(join'[p]) /\ Phased(p, join'[p], nodes')
  BY <1>1, <1>4, <1>5 DEF Timed, Phased
<1>7. Sliced'
  BY <1>1, RankParts DEF Sliced, Rank!RankingAssumption
<1>8. Rank!OneByOne'
  BY <1>1, <1>4, RankQuiet
<1> QED
  BY <1>1, <1>3, <1>4, <1>6, <1>7, <1>8, RankStep

LEMMA RankReturn ==
    ASSUME RankInv, NEW p \in Peer, Rank!Return(p)
    PROVE  RankInv'
<1>1. /\ join[p].pc = "copy" /\ join[p].next > Len(join[p].rtts)
      /\ join' = [join EXCEPT ![p].pc = "done"]
      /\ UNCHANGED <<nodes, slots, length, lost, overlapped>>
  BY DEF Rank!Return
<1>2. join \in [Peer -> JoinState]
  BY RankParts
<1>3. join' \in [Peer -> JoinState]
  BY <1>1, <1>2 DEF JoinState, RankPc
<1>4. /\ \A q \in Peer \ {p} : join'[q] = join[q]
      /\ join'[p].pc = "done" /\ join'[p].due = join[p].due
      /\ join'[p].met = join[p].met /\ join'[p].rtts = join[p].rtts
      /\ join'[p].rttToID = join[p].rttToID /\ join'[p].next = join[p].next
  BY <1>1, <1>2 DEF JoinState
<1>5. Phased(p, join[p], nodes) /\ Timed(join[p])
  BY RankParts
<1>6. Timed(join'[p]) /\ Phased(p, join'[p], nodes')
  BY <1>1, <1>4, <1>5 DEF Timed, Phased
<1>7. Sliced'
  BY <1>1, RankParts DEF Sliced
<1>8. Rank!OneByOne'
  BY <1>1, <1>4, RankQuiet
<1> QED
  BY <1>1, <1>3, <1>4, <1>6, <1>7, <1>8, RankStep

LEMMA KeyFinite ==
    ASSUME Rank!RankingAssumption
    PROVE  /\ IsFiniteSet(Rank!Key)
           /\ \A S \in SUBSET Rank!Key :
                  IsFiniteSet(S) /\ Cardinality(S) \in Nat /\ Cardinality(S) <= Capacity
<1>1. IsFiniteSet(Peer) /\ Self \notin Peer /\ Capacity \in Nat
  BY DEF Rank!RankingAssumption, Rank!IsFiniteSet, IsFiniteSet
<1>2. Capacity > Cardinality(Peer)
  BY DEF Rank!RankingAssumption, Rank!Cardinality, Cardinality
<1>3. /\ IsFiniteSet(Peer \cup {Self}) /\ Cardinality(Peer) \in Nat
      /\ Cardinality(Peer \cup {Self}) = Cardinality(Peer) + 1
  BY <1>1, FS_AddElement, FS_CardinalityType
<1>4. IsFiniteSet(Rank!Key) /\ Cardinality(Rank!Key) <= Capacity
      /\ Cardinality(Rank!Key) \in Nat
  <2>1. PICK c \in Nat : c = Cardinality(Peer)
    BY <1>3
  <2>2. c + 1 <= Capacity
    BY <1>1, <1>2, <2>1
  <2> QED
    BY <1>3, <2>1, <2>2 DEF Rank!Key
<1>5. ASSUME NEW S \in SUBSET Rank!Key
      PROVE  IsFiniteSet(S) /\ Cardinality(S) \in Nat /\ Cardinality(S) <= Capacity
  <2>1. IsFiniteSet(S) /\ Cardinality(S) <= Cardinality(Rank!Key)
    BY <1>4, FS_Subset
  <2>2. Cardinality(S) \in Nat
    BY <2>1, FS_CardinalityType
  <2> QED
    BY <1>1, <1>4, <2>1, <2>2
<1> QED
  BY <1>4, <1>5

\* A time more.
LEMMA AppendFacts ==
    ASSUME NEW s \in Seq(Nat), NEW t \in Nat
    PROVE  /\ Append(s, t) \in Seq(Nat)
           /\ Len(Append(s, t)) = Len(s) + 1
           /\ Rank!Range(Append(s, t)) = Rank!Range(s) \cup {t}
           /\ Rank!IsInjective(Append(s, t)) =>
                  Rank!IsInjective(s) /\ t \notin Rank!Range(s)
<1>1. PICK n \in Nat : n = Len(s) /\ DOMAIN s = 1 .. n
  OBVIOUS
<1>2. PICK a \in Seq(Nat) : a = Append(s, t)
  BY AppendProperties
<1>3. /\ Len(a) = n + 1 /\ DOMAIN a = 1 .. n + 1
      /\ \A i \in 1 .. n : a[i] = s[i]
      /\ a[n + 1] = t
  BY <1>1, <1>2
<1>4. /\ \A i \in 1 .. n : i \in 1 .. n + 1 /\ i # n + 1
      /\ n + 1 \in 1 .. n + 1
      /\ \A i \in 1 .. n + 1 : i \in 1 .. n \/ i = n + 1
  OBVIOUS
<1>5. Rank!Range(a) = Rank!Range(s) \cup {t}
  BY <1>1, <1>3, <1>4 DEF Rank!Range
<1>6. Rank!IsInjective(a) => Rank!IsInjective(s) /\ t \notin Rank!Range(s)
  BY <1>1, <1>3, <1>4 DEF Rank!IsInjective, Rank!Range
<1> QED
  BY <1>1, <1>2, <1>3, <1>5, <1>6

\* A node more: its time is 0 for this node alone.
LEMMA TimedPing ==
    ASSUME Rank!RankingAssumption, NEW j \in JoinState, NEW k \in JoinState, Timed(j),
           NEW n \in Rank!Key, n \notin j.met, NEW t \in Nat, n = Self <=> t = 0,
           k.met = j.met \cup {n}, k.rtts = Append(j.rtts, t),
           k.rttToID = Rank!Put(j.rttToID, t, n)
    PROVE  Timed(k)
<1> DEFINE f == j.rttToID
           g == k.rttToID
<1>1. j.rtts \in Seq(Nat) /\ j.met \in SUBSET Rank!Key
  BY DEF JoinState
<1>2. /\ DOMAIN g = DOMAIN f \cup {t} /\ g[t] = n
      /\ \A u \in DOMAIN f \ {t} : g[u] = f[u]
  BY DEF Rank!Put
<1>3. /\ Len(k.rtts) = Len(j.rtts) + 1
      /\ Rank!Range(k.rtts) = Rank!Range(j.rtts) \cup {t}
      /\ Rank!IsInjective(k.rtts) =>
             Rank!IsInjective(j.rtts) /\ t \notin Rank!Range(j.rtts)
  BY <1>1, AppendFacts
<1>4. Len(k.rtts) = Cardinality(k.met)
  <2>1. Cardinality(j.met \cup {n}) = Cardinality(j.met) + 1
    BY <1>1, KeyFinite, FS_AddElement
  <2> QED
    BY <1>3, <2>1 DEF Timed
<1>5. Rank!Range(k.rtts) = DOMAIN g
  BY <1>2, <1>3 DEF Timed
<1> HIDE DEF g
<1>6. \A u \in DOMAIN f : f[u] \in j.met
  BY DEF Timed, Rank!Range
<1>7. Rank!Range(g) \subseteq k.met
  BY <1>2, <1>6 DEF Rank!Range
<1>8. /\ Self \in k.met => 0 \in DOMAIN g
      /\ 0 \in DOMAIN g => g[0] = Self
  BY <1>2 DEF Timed
<1>9. Rank!IsInjective(g)
  <2> SUFFICES ASSUME NEW u \in DOMAIN g, NEW v \in DOMAIN g, g[u] = g[v]
               PROVE  u = v
    BY DEF Rank!IsInjective
  <2>1. CASE u = t \/ v = t
    BY <1>2, <1>6, <2>1
  <2>2. CASE u # t /\ v # t
    BY <1>2, <2>2 DEF Timed, Rank!IsInjective
  <2> QED
    BY <2>1, <2>2
<1>10. Rank!IsInjective(k.rtts) => Rank!Range(g) = k.met
  <2> SUFFICES ASSUME Rank!IsInjective(k.rtts) PROVE Rank!Range(g) = k.met
    OBVIOUS
  <2>1. t \notin DOMAIN f /\ Rank!Range(f) = j.met
    BY <1>3 DEF Timed
  <2>2. Rank!Range(g) = Rank!Range(f) \cup {n}
    BY <1>2, <2>1 DEF Rank!Range
  <2> QED
    BY <2>1, <2>2
<1> QED
  BY <1>4, <1>5, <1>7, <1>8, <1>9, <1>10 DEF Timed, g

LEMMA RankPing ==
    ASSUME Rank!RankingAssumption, RankInv, NEW p \in Peer, NEW n, Rank!Ping(p, n)
    PROVE  RankInv'
<1>1. PICK t \in Rank!Times(n) :
          join' = [join EXCEPT ![p].met = @ \cup {n},
                               ![p].rtts = Append(@, t),
                               ![p].rttToID = Rank!Put(@, t, n)]
  BY DEF Rank!Ping
<1>2. /\ join[p].pc = "range" /\ n \in nodes /\ n \notin join[p].met
      /\ UNCHANGED <<nodes, slots, length, lost, overlapped>>
  BY DEF Rank!Ping
<1>3. /\ join \in [Peer -> JoinState] /\ join[p] \in JoinState
      /\ nodes \in SUBSET Rank!Key /\ n \in Rank!Key
      /\ Phased(p, join[p], nodes) /\ Timed(join[p])
  BY <1>2, RankParts
<1>4. t \in Nat /\ (n = Self <=> t = 0)
  BY <1>3 DEF Rank!Times, Rank!RankingAssumption, Rank!Key
<1> DEFINE m == join[p].met \cup {n}
           s == Append(join[p].rtts, t)
           f == Rank!Put(join[p].rttToID, t, n)
           k == [join[p] EXCEPT !.met = m, !.rtts = s, !.rttToID = f]
<1>5. m \in SUBSET Rank!Key /\ s \in Seq(Nat)
  BY <1>3, <1>4, AppendFacts DEF JoinState
<1>6. f \in UNION {[D -> Rank!Key] : D \in SUBSET Nat}
  <2>1. PICK D \in SUBSET Nat : join[p].rttToID \in [D -> Rank!Key]
    BY <1>3 DEF JoinState
  <2>2. f \in [D \cup {t} -> Rank!Key]
    BY <1>3, <1>4, <2>1 DEF Rank!Put
  <2>3. D \cup {t} \in SUBSET Nat
    BY <1>4, <2>1
  <2> QED
    BY <2>2, <2>3
<1>7. join' = [join EXCEPT ![p] = k]
  BY <1>1, <1>3 DEF JoinState
<1> HIDE DEF m, s, f
<1>8. /\ k \in JoinState /\ k.pc = "range" /\ k.due = join[p].due
      /\ k.met = m /\ k.rtts = s /\ k.rttToID = f /\ k.next = join[p].next
  BY <1>2, <1>3, <1>5, <1>6 DEF JoinState
<1> HIDE DEF k
<1>9. /\ join' \in [Peer -> JoinState] /\ join'[p] = k
      /\ \A q \in Peer \ {p} : join'[q] = join[q]
  BY <1>3, <1>7, <1>8
<1>10. Timed(k)
  BY <1>2, <1>3, <1>4, <1>8, TimedPing DEF m, s, f
<1>11. Phased(p, k, nodes)
  <2>1. PICK l \in Nat : l = Len(join[p].rtts)
    BY <1>3 DEF JoinState
  <2>2. Len(k.rtts) = l + 1
    BY <1>3, <1>4, <1>8, <2>1, AppendFacts DEF s, JoinState
  <2>3. k.next = 1 /\ k.next \in 1 .. Capacity + 1
    BY <1>2, <1>3, <1>8 DEF Phased
  <2>4. k.next <= Len(k.rtts) + 1
    BY <2>1, <2>2, <2>3
  <2>5. k.met \subseteq nodes
    BY <1>2, <1>3, <1>8 DEF Phased, m
  <2> QED
    BY <1>2, <1>3, <1>8, <2>3, <2>4, <2>5 DEF Phased
<1>12. Sliced'
  BY <1>2, RankParts DEF Sliced
<1>13. Rank!OneByOne'
  BY <1>2, <1>8, <1>9, RankQuiet
<1> QED
  BY <1>2, <1>9, <1>10, <1>11, <1>12, <1>13, RankStep

LEMMA RankResize ==
    ASSUME Rank!RankingAssumption, RankInv, NEW p \in Peer, Rank!Resize(p)
    PROVE  RankInv'
<1>1. /\ join[p].pc = "range" /\ join[p].due \subseteq join[p].met
      /\ join' = [join EXCEPT ![p].pc = "copy", ![p].rtts = Rank!Sort(@)]
      /\ length' = Len(join[p].rtts)
      /\ UNCHANGED <<nodes, slots, lost, overlapped>>
  BY DEF Rank!Resize
<1>2. /\ join \in [Peer -> JoinState] /\ join[p] \in JoinState
      /\ Phased(p, join[p], nodes) /\ Timed(join[p])
      /\ join[p].rtts \in Seq(Nat) /\ join[p].met \in SUBSET Rank!Key
  BY RankParts DEF JoinState
<1> DEFINE s == Rank!Sort(join[p].rtts)
           k == [join[p] EXCEPT !.pc = "copy", !.rtts = s]
<1>3. /\ s \in Seq(Nat) /\ Len(s) = Len(join[p].rtts)
      /\ Rank!Range(s) = Rank!Range(join[p].rtts)
      /\ Rank!IsInjective(s) => Rank!IsInjective(join[p].rtts)
      /\ \A i \in 1 .. Len(s) : s[1] <= s[i]
  BY <1>2, SortFacts
<1>4. join' = [join EXCEPT ![p] = k]
  BY <1>1, <1>2 DEF JoinState
<1> HIDE DEF s
<1>5. /\ k \in JoinState /\ k.pc = "copy" /\ k.due = join[p].due
      /\ k.met = join[p].met /\ k.rtts = s /\ k.rttToID = join[p].rttToID
      /\ k.next = join[p].next
  BY <1>2, <1>3 DEF JoinState, RankPc
<1> HIDE DEF k
<1>6. /\ join' \in [Peer -> JoinState] /\ join'[p] = k
      /\ \A q \in Peer \ {p} : join'[q] = join[q]
  BY <1>2, <1>4, <1>5
<1>7. Timed(k)
  BY <1>2, <1>3, <1>5 DEF Timed
<1>8. Phased(p, k, nodes)
  BY <1>1, <1>2, <1>3, <1>5 DEF Phased
<1>9. Sliced'
  <2>1. {p, Self} \subseteq join[p].due
    BY <1>1, <1>2 DEF Phased
  <2>2. join[p].met # {}
    BY <1>1, <2>1
  <2>3. PICK c \in Nat : c = Cardinality(join[p].met) /\ c <= Capacity /\ c # 0
    BY <1>2, <2>2, KeyFinite, FS_EmptySet
  <2>4. length' = c
    BY <1>1, <1>2, <2>3 DEF Timed
  <2>5. length' \in 1 .. Capacity
    BY <2>3, <2>4 DEF Rank!RankingAssumption
  <2> QED
    BY <1>1, <2>5, RankParts DEF Sliced
<1>10. Rank!OneByOne'
  <2>0. slots' = slots /\ overlapped' = overlapped
    BY <1>1
  <2> SUFFICES ASSUME ~ overlapped, NEW r \in Peer
               PROVE  /\ r \in Rank!Ranking' => \A q \in Peer \ {r} :
                             q \notin Rank!Ranking' /\ r \notin join'[q].due
                      /\ /\ join'[r].pc \in {"copy", "done"}
                         /\ \A q \in Peer : join'[q].due \subseteq join'[r].due
                         => /\ length' = Len(join'[r].rtts)
                            /\ \A i \in 1 .. join'[r].next - 1 :
                                   slots[i] = join'[r].rttToID[join'[r].rtts[i]]
    BY <2>0 DEF Rank!OneByOne
  <2>1. \A q \in Peer : /\ join'[q].due = join[q].due
                        /\ q \in Rank!Ranking' <=> q \in Rank!Ranking
    BY <1>1, <1>5, <1>6 DEF Rank!Ranking
  <2>2. r \in Rank!Ranking' => \A q \in Peer \ {r} :
            q \notin Rank!Ranking' /\ r \notin join'[q].due
    BY <2>1, RankParts DEF Rank!OneByOne
  <2>3. CASE r = p
    <3>1. k.next = 1
      BY <1>1, <1>2, <1>5 DEF Phased
    <3>2. length' = Len(k.rtts)
      BY <1>1, <1>3, <1>5
    <3>3. 1 .. k.next - 1 = {}
      BY <3>1
    <3> QED
      BY <1>6, <2>2, <2>3, <3>2, <3>3
  <2>4. CASE r # p
    BY <1>1, <2>1, <2>2, <2>4, RankAlone
  <2> QED
    BY <2>3, <2>4
<1> QED
  BY <1>1, <1>6, <1>7, <1>8, <1>9, <1>10, RankStep

LEMMA RankCopy ==
    ASSUME Rank!RankingAssumption, RankInv, NEW p \in Peer, Rank!Copy(p)
    PROVE  RankInv'
<1> DEFINE x == join[p].next
           f == join[p].rttToID
           s == join[p].rtts
           v == f[s[x]]
<1>1. /\ join[p].pc = "copy" /\ x <= Len(s)
      /\ slots' = [slots EXCEPT ![x] = v]
      /\ join' = [join EXCEPT ![p].next = @ + 1]
      /\ UNCHANGED <<nodes, length, lost, overlapped>>
  BY DEF Rank!Copy
<1>2. /\ join \in [Peer -> JoinState] /\ join[p] \in JoinState
      /\ Phased(p, join[p], nodes) /\ Timed(join[p]) /\ nodes \in SUBSET Rank!Key
  BY RankParts
<1>3. x \in Nat /\ s \in Seq(Nat) /\ join[p].met \in SUBSET Rank!Key
  BY <1>2 DEF JoinState
<1>4. /\ x \in 1 .. Capacity + 1 /\ Len(s) = Cardinality(join[p].met)
      /\ Rank!Range(s) = DOMAIN f /\ Rank!Range(f) \subseteq join[p].met
      /\ join[p].met \subseteq nodes
  BY <1>2 DEF Phased, Timed
<1>5. /\ \A q \in Peer \ {p} : join'[q] = join[q]
      /\ join' \in [Peer -> JoinState]
      /\ join'[p].pc = "copy" /\ join'[p].due = join[p].due
      /\ join'[p].met = join[p].met /\ join'[p].rtts = s
      /\ join'[p].rttToID = f /\ join'[p].next = x + 1
  <2> DEFINE k == [join[p] EXCEPT !.next = x + 1]
  <2>1. join' = [join EXCEPT ![p] = k]
    BY <1>1, <1>2 DEF JoinState
  <2>2. k \in JoinState
    <3>1. x + 1 \in Nat
      BY <1>3
    <3> HIDE DEF x
    <3> QED
      BY <1>2, <3>1 DEF JoinState
  <2>3. /\ k.pc = "copy" /\ k.due = join[p].due /\ k.met = join[p].met
        /\ k.rtts = s /\ k.rttToID = f /\ k.next = x + 1
    BY <1>1, <1>2 DEF JoinState
  <2> HIDE DEF k, s, f, x
  <2>4. join' \in [Peer -> JoinState] /\ join'[p] = k
    BY <1>2, <2>1, <2>2
  <2>5. \A q \in Peer \ {p} : join'[q] = join[q]
    BY <1>2, <2>1
  <2> QED
    BY <2>3, <2>4, <2>5
<1>6. PICK l \in Nat : l = Len(s) /\ l <= Capacity
  BY <1>3, <1>4, KeyFinite
<1>7. Timed(join'[p])
  BY <1>2, <1>5 DEF Timed
<1>8. Capacity \in Nat /\ x \in 1 .. l /\ x + 1 \in 1 .. Capacity + 1 /\ x + 1 <= l + 1
  <2>1. Capacity \in Nat
    BY DEF Rank!RankingAssumption
  <2>2. x <= l /\ x >= 1
    BY <1>1, <1>3, <1>4, <1>6
  <2> HIDE DEF x
  <2> QED
    BY <1>3, <1>6, <2>1, <2>2
<1>9. Phased(p, join'[p], nodes')
  BY <1>1, <1>2, <1>5, <1>6, <1>8 DEF Phased
<1>10. s[x] \in DOMAIN f /\ v \in join[p].met
  <2>1. x \in DOMAIN s
    BY <1>3, <1>6, <1>8
  <2>2. s[x] \in DOMAIN f
    BY <1>4, <2>1 DEF Rank!Range
  <2> QED
    BY <1>4, <2>2 DEF Rank!Range
<1>11. x = 1 => v = Self
  <2> SUFFICES ASSUME x = 1 PROVE v = Self
    OBVIOUS
  <2>1. Self \in join[p].met
    BY <1>1, <1>2 DEF Phased
  <2>2. 0 \in DOMAIN f /\ f[0] = Self
    BY <1>2, <2>1 DEF Timed
  <2>3. PICK i \in DOMAIN s : s[i] = 0
    BY <1>4, <2>2 DEF Rank!Range
  <2>4. i \in 1 .. Len(s) /\ s[1] \in Nat
    BY <1>3, <1>6, <1>8, <2>3
  <2>5. s[1] <= s[i]
    BY <1>1, <1>2, <2>4 DEF Phased
  <2>6. s[1] = 0
    BY <2>3, <2>4, <2>5
  <2> QED
    BY <2>2, <2>6
<1>12. Sliced'
  <2>1. slots \in [1 .. Capacity -> Rank!Key \cup {None}] /\ slots[1] = Self
    BY RankParts DEF Sliced
  <2>2. x \in 1 .. Capacity /\ 1 \in 1 .. Capacity
    BY <1>6, <1>8
  <2>3. v \in Rank!Key
    BY <1>2, <1>4, <1>10
  <2> HIDE DEF x, v
  <2>4. slots' \in [1 .. Capacity -> Rank!Key \cup {None}] /\ slots'[1] = Self
    BY <1>1, <1>11, <2>1, <2>2, <2>3
  <2> QED
    BY <1>1, <2>4, RankParts DEF Sliced
<1>13. Rank!OneByOne'
  <2> SUFFICES ASSUME ~ overlapped, NEW r \in Peer
               PROVE  /\ r \in Rank!Ranking' => \A q \in Peer \ {r} :
                             q \notin Rank!Ranking' /\ r \notin join'[q].due
                      /\ /\ join'[r].pc \in {"copy", "done"}
                         /\ \A q \in Peer : join'[q].due \subseteq join'[r].due
                         => /\ length = Len(join'[r].rtts)
                            /\ \A i \in 1 .. join'[r].next - 1 :
                                   slots'[i] = join'[r].rttToID[join'[r].rtts[i]]
    BY <1>1 DEF Rank!OneByOne
  <2>1. \A q \in Peer : /\ join'[q].due = join[q].due
                        /\ q \in Rank!Ranking' <=> q \in Rank!Ranking
    BY <1>1, <1>5 DEF Rank!Ranking
  <2>2. r \in Rank!Ranking' => \A q \in Peer \ {r} :
            q \notin Rank!Ranking' /\ r \notin join'[q].due
    BY <2>1, RankParts DEF Rank!OneByOne
  <2>3. CASE r = p
    <3> SUFFICES ASSUME \A q \in Peer : join[q].due \subseteq join[p].due
                 PROVE  /\ length = Len(s)
                        /\ \A i \in 1 .. x : slots'[i] = f[s[i]]
      <4>1. (x + 1) - 1 = x
        BY <1>3
      <4> HIDE DEF x, s, f
      <4> QED
        BY <1>5, <2>1, <2>2, <2>3, <4>1
    <3>1. length = Len(s) /\ \A i \in 1 .. x - 1 : slots[i] = f[s[i]]
      BY <1>1, RankParts DEF Rank!OneByOne
    <3>2. DOMAIN slots = 1 .. Capacity
      BY RankParts DEF Sliced
    <3> HIDE DEF x, s, f
    <3>3. ASSUME NEW i \in 1 .. x PROVE slots'[i] = f[s[i]]
      <4>1. x \in 1 .. Capacity /\ i \in 1 .. Capacity /\ i \in Nat
        BY <1>3, <1>6, <1>8
      <4>2. CASE i = x
        BY <1>1, <3>2, <4>1, <4>2
      <4>3. CASE i # x
        <5>1. i \in 1 .. x - 1
          BY <1>3, <4>1, <4>3
        <5> QED
          BY <1>1, <3>1, <3>2, <4>1, <4>3, <5>1
      <4> QED
        BY <4>2, <4>3
    <3> QED
      BY <3>1, <3>3
  <2>4. CASE r # p
    BY <1>1, <2>1, <2>2, <2>4, RankAlone
  <2> QED
    BY <2>3, <2>4
<1> QED
  BY <1>1, <1>5, <1>7, <1>9, <1>12, <1>13, RankStep

LEMMA RankInvariance ==
    ASSUME Rank!RankingAssumption
    PROVE  Rank!Spec => []RankInv
<1>1. Rank!Init => RankInv
  BY RankInit
<1>2. RankInv /\ [Rank!Next]_(Rank!vars) => RankInv'
  <2> SUFFICES ASSUME RankInv, [Rank!Next]_(Rank!vars) PROVE RankInv'
    OBVIOUS
  <2>1. CASE Rank!Next
    BY <2>1, RankInsert, RankPing, RankPingLost, RankResize, RankCopy, RankReturn
    DEF Rank!Next, Rank!Rank
  <2>2. CASE UNCHANGED Rank!vars
    <3>1. UNCHANGED <<nodes, slots, length, join, lost, overlapped>>
      BY <2>2 DEF Rank!vars
    <3>2. Sliced' /\ Rank!OneByOne'
      BY <3>1, RankParts DEF Sliced, Rank!OneByOne, Rank!Ranking
    <3> QED
      BY <3>1, <3>2, RankParts
  <2> QED
    BY <2>1, <2>2
<1> QED
  BY <1>1, <1>2, PTL DEF Rank!Spec

\* faas_client.go:82 ranks the known nodes while others come: for any number of
\* peers, times and overlapping calls, this node stays first, and calls that do
\* not overlap and measure no time twice leave each known node once, in the
\* place of its time.
THEOREM RankingByTime ==
    ASSUME Rank!RankingAssumption
    PROVE  Rank!Spec => []Rank!RankedByRTT
<1>1. RankInv => Rank!RankedByRTT
  <2> SUFFICES ASSUME RankInv PROVE Rank!RankedByRTT
    OBVIOUS
  <2>1. slots[1] = Self
    BY RankParts DEF Sliced
  <2>2. ASSUME NEW p \in Peer, Rank!Latest(p), ~ overlapped,
               Rank!IsInjective(join[p].rtts)
        PROVE  /\ length = Rank!Cardinality(nodes)
               /\ Rank!Ranked = nodes
               /\ \A i \in 1 .. length : Rank!Place(p, slots[i]) = i
    <3> DEFINE s == join[p].rtts
               f == join[p].rttToID
    <3>1. /\ join[p].pc = "done" /\ \A q \in Peer : join[q].due \subseteq join[p].due
      BY <2>2 DEF Rank!Latest
    <3>2. /\ Phased(p, join[p], nodes) /\ Timed(join[p]) /\ join[p] \in JoinState
          /\ nodes \in SUBSET Rank!Key
      BY RankParts
    <3>3. s \in Seq(Nat) /\ join[p].next \in Nat
      BY <3>2 DEF JoinState
    <3>4. join[p].met = nodes
      <4>1. ASSUME NEW q \in nodes PROVE q \in join[p].due
        <5>1. CASE q = Self
          BY <3>1, <3>2, <5>1 DEF Phased
        <5>2. CASE q # Self
          <6>1. q \in Peer
            BY <3>2, <5>2 DEF Rank!Key
          <6>2. q \in join[q].due
            BY <6>1, RankParts DEF Phased
          <6> QED
            BY <3>1, <6>1, <6>2
        <5> QED
          BY <5>1, <5>2
      <4> QED
        BY <3>1, <3>2, <4>1 DEF Phased
    <3>5. PICK l \in Nat : l = Len(s) /\ DOMAIN s = 1 .. l
      BY <3>3
    <3>6. /\ length = l /\ l = Cardinality(nodes)
          /\ \A i \in 1 .. join[p].next - 1 : slots[i] = f[s[i]]
      BY <2>2, <3>1, <3>2, <3>4, <3>5, RankParts DEF Rank!OneByOne, Timed
    <3>7. \A i \in 1 .. l : slots[i] = f[s[i]]
      <4>1. join[p].next > l
        BY <3>1, <3>2, <3>5 DEF Phased
      <4>2. \A i \in 1 .. l : i \in 1 .. join[p].next - 1
        BY <3>3, <4>1
      <4> QED
        BY <3>6, <4>2
    <3>8. /\ Rank!Range(s) = DOMAIN f /\ Rank!Range(f) = nodes
          /\ Rank!IsInjective(f)
      BY <2>2, <3>2, <3>4 DEF Timed
    <3>9. length = Rank!Cardinality(nodes)
      BY <3>6 DEF Rank!Cardinality, Cardinality
    <3>10. Rank!Ranked = nodes
      <4>1. {s[i] : i \in 1 .. l} = DOMAIN f
        BY <3>5, <3>8 DEF Rank!Range
      <4>2. {f[s[i]] : i \in 1 .. l} = nodes
        BY <3>8, <4>1 DEF Rank!Range
      <4> HIDE DEF s, f
      <4> QED
        BY <3>6, <3>7, <4>2 DEF Rank!Ranked
    <3>11. ASSUME NEW i \in 1 .. length PROVE Rank!Place(p, slots[i]) = i
      <4>1. i \in 1 .. l /\ slots[i] = f[s[i]]
        BY <3>6, <3>7, <3>11
      <4>2. \A k \in 1 .. l : s[k] \in DOMAIN f
        BY <3>5, <3>8 DEF Rank!Range
      <4>3. \A k \in 1 .. l : f[s[k]] = f[s[i]] => k = i
        BY <2>2, <3>5, <3>8, <4>1, <4>2 DEF Rank!IsInjective
      <4>4. Rank!Place(p, slots[i]) = CHOOSE k \in 1 .. l : f[s[k]] = slots[i]
        BY <3>5 DEF Rank!Place
      <4> HIDE DEF s, f
      <4> QED
        BY <4>1, <4>3, <4>4
    <3> QED
      BY <3>9, <3>10, <3>11
  <2> QED
    BY <2>1, <2>2 DEF Rank!RankedByRTT
<1> QED
  BY <1>1, RankInvariance, PTL

-----------------------------------------------------------------------------
(* Log requests.                                                           *)

\* The entries of a log request are emitted, read, decoded and sent in this
\* order, and the stream waits with one entry at most, for a journal and a pipe
\* of any size (requestor.go:119).
LEMMA LogInvariance ==
    ASSUME Log!LogsAssumption
    PROVE  Log!Init /\ [][Log!Next]_(Log!vars) => []Log!IInv
<1> USE DEF Log!LogsAssumption
<1>1. Log!Init => Log!IInv
  <2> SUFFICES ASSUME Log!Init PROVE Log!IInv
    OBVIOUS
  <2>1. follow \in BOOLEAN /\ cancelled \in BOOLEAN
    BY Zenon DEF Log!Init
  <2>2. emitted = 0 /\ read = 0 /\ decoded = 0 /\ sent = 0
    BY DEF Log!Init
  <2>3. /\ emitted \in 0 .. JournalEntries /\ read \in 0 .. emitted
        /\ decoded \in 0 .. read /\ sent \in 0 .. decoded
    BY <2>2
  <2>4. /\ journalctl = "runs" /\ wait = "waits" /\ stream = "more"
        /\ handler = "select"
    BY DEF Log!Init
  <2> QED
    BY <2>1, <2>2, <2>3, <2>4 DEF Log!IInv, Log!TypeOK
<1>2. Log!IInv /\ [Log!Next]_(Log!vars) => Log!IInv'
  <2> SUFFICES ASSUME Log!IInv, [Log!Next]_(Log!vars) PROVE Log!IInv'
    OBVIOUS
  <2> USE DEF Log!IInv, Log!TypeOK
  <2>1. CASE Log!Emit
    BY <2>1 DEF Log!Emit
  <2>2. CASE Log!Exit \/ Log!Wait
    BY <2>2 DEF Log!Exit, Log!Wait, Log!counts
  <2>3. CASE Log!Read
    <3>1. /\ stream # "send" /\ read' \in read + 1 .. emitted
          /\ UNCHANGED <<follow, journalctl, wait, stream, handler, cancelled,
                         emitted, decoded, sent>>
      BY <2>3 DEF Log!Read
    <3>2. read' \in 0 .. emitted /\ decoded \in 0 .. read'
      BY <3>1
    <3> QED
      BY <3>1, <3>2
  <2>4. CASE Log!Decode
    <3>1. /\ stream = "more" /\ decoded < read
          /\ UNCHANGED <<follow, journalctl, wait, handler, cancelled,
                         emitted, read, sent>>
      BY <2>4 DEF Log!Decode
    <3>2. \/ decoded' = decoded + 1 /\ stream' = "send"
          \/ decoded' = decoded /\ stream' = "closed"
      BY <2>4 DEF Log!Decode
    <3> QED
      BY <3>1, <3>2
  <2>5. CASE Log!EndOfOutput
    BY <2>5 DEF Log!EndOfOutput, Log!counts
  <2>6. CASE Log!Receive
    BY <2>6 DEF Log!Receive
  <2>7. CASE Log!EndOfStream \/ Log!CloseNotify \/ Log!Timeout
    BY <2>7 DEF Log!EndOfStream, Log!CloseNotify, Log!Timeout, Log!counts
  <2>8. CASE UNCHANGED Log!vars
    BY <2>8 DEF Log!vars
  <2> QED
    BY <2>1, <2>2, <2>3, <2>4, <2>5, <2>6, <2>7, <2>8 DEF Log!Next, Log!streamLogs
<1> QED
  BY <1>1, <1>2, PTL

-----------------------------------------------------------------------------
(* The components together.                                                *)

\* A behaviour of all components is one of each.
LEMMA EachComponent ==
    Spec => /\ Scale!Spec
            /\ Rank!Spec
            /\ Names!Init /\ [][Names!Next]_(Names!vars)
            /\ Log!Init /\ [][Log!Next]_(Log!vars)
<1>1. Init => Scale!Init /\ Rank!Init /\ Names!Init /\ Log!Init
  BY DEF Init
<1>2. [Next]_vars => [Scale!Next]_(Scale!vars)
  BY DEF Next, ScaleMoves, RankMoves, NamesMove, LogMoves, vars, scaling, Scale!vars
<1>3. [Next]_vars => [Names!Next]_(Names!vars)
  <2>1. [Next]_vars => Names!Next \/ UNCHANGED names
    BY DEF Next, ScaleMoves, RankMoves, NamesMove, LogMoves, vars
  <2>2. UNCHANGED names => UNCHANGED Names!vars
    BY DEF names, Names!vars, Names!supervisor, Names!hosts, Names!resolver, Names!callers
  <2> QED
    BY <2>1, <2>2
<1>4. [Next]_vars => [Rank!Next]_(Rank!vars)
  BY DEF Next, ScaleMoves, RankMoves, NamesMove, LogMoves, vars, ranking, Rank!vars
<1>5. [Next]_vars => [Log!Next]_(Log!vars)
  BY DEF Next, ScaleMoves, RankMoves, NamesMove, LogMoves, vars, logs, Log!vars
<1> QED
  BY <1>1, <1>2, <1>3, <1>4, <1>5, PTL DEF Spec, Scale!Spec, Rank!Spec

\* No proxy is given the address of an earlier start (local_resolver.go:72).
THEOREM CurrentAddressHolds == Spec => []CurrentAddress
<1>1. Names!ResolverAssumption
  BY ProgressAssumption
<1>2. Names!Init /\ [][Names!Next]_(Names!vars) => []Names!CurrentAddress
  BY <1>1, AddressesAreCurrent
<1> QED
  BY <1>2, EachComponent, PTL DEF CurrentAddress

\* A request between nodes leads to no scaling decision (scale.go:92).
THEOREM ScaledFirstHandHolds == Spec => []ScaledFirstHand
<1>1. Scale!ScalingAssumption
  BY ProgressAssumption
<1>2. Scale!Spec => []Scale!ScaledFirstHand
  BY <1>1, PeersDoNotScale
<1> QED
  BY <1>2, EachComponent, PTL DEF ScaledFirstHand

\* A scale up makes no more than was missing, unless the difference has wrapped
\* (scale.go:113, scale.go:237).
THEOREM UpToDesiredHolds == Spec => []UpToDesired
<1>1. Scale!ScalingAssumption
  BY ProgressAssumption
<1>2. Scale!Spec => []Scale!UpToDesired
  BY <1>1, NoneTooMany
<1> QED
  BY <1>2, EachComponent, PTL DEF UpToDesired

\* A client without competitors gets what it asked for, or what the nodes can
\* take, if the rankings name every node once (scale.go:113, scale.go:143).
THEOREM ScaledUpHolds ==
    ASSUME Scale!SortedCompletely
    PROVE  Spec => []ScaledUp
<1>1. Scale!ScalingAssumption
  BY ProgressAssumption
<1>2. Scale!Spec => []Scale!ScaledUp
  BY <1>1, MissingAreMade
<1> QED
  BY <1>2, EachComponent, PTL DEF ScaledUp

\* This node stays first in the ranking, and calls that do not overlap leave
\* each known node in the place of its time (faas_client.go:82).
THEOREM RankedByRTTHolds == Spec => []RankedByRTT
<1>1. Rank!RankingAssumption
  BY ProgressAssumption
<1>2. Rank!Spec => []Rank!RankedByRTT
  BY <1>1, RankingByTime
<1> QED
  BY <1>2, EachComponent, PTL DEF RankedByRTT

\* Each component keeps its types: no ranking leaves its array, no counter its
\* bounds, and no log entry is sent before it is decoded (scale.go:143,
\* faas_client.go:110, local_resolver.go:38, requestor.go:119).
THEOREM TypeCorrect == Spec => []TypeOK
<1>1. Scale!Spec => []Scale!IInv
  BY ProgressAssumption, ScaleInvariance
<1>2. Rank!Spec => []RankInv
  BY ProgressAssumption, RankInvariance
<1>3. Names!Init /\ [][Names!Next]_(Names!vars) => []Names!IInv
  BY ProgressAssumption, NamesInvariance
<1>4. Log!Init /\ [][Log!Next]_(Log!vars) => []Log!IInv
  BY ProgressAssumption, LogInvariance
<1>5. Scale!IInv /\ RankInv /\ Names!IInv /\ Log!IInv => TypeOK
  BY DEF TypeOK, Scale!IInv, RankInv, Rank!IInv, Names!IInv,
     Log!IInv
<1> QED
  BY <1>1, <1>2, <1>3, <1>4, <1>5, EachComponent, PTL
=============================================================================
