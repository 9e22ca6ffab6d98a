----------------------------- MODULE Addresses -----------------------------
(***************************************************************************)
(* The addresses of containers.  The host-local plugin of CNI keeps a      *)
(* directory with a file per address in use, named after the address; the  *)
(* file holds the network ID, the container's name and the PID of its      *)
(* task.  To find the address of a task the code searches the files, in    *)
(* the order of their names, for one that contains "<name>-<PID>".         *)
(*                                                                         *)
(* Names and PIDs are sequences of characters.  The kernel may use a PID   *)
(* again, but not while containerd has a task with it.                     *)
(***************************************************************************)
EXTENDS Integers, Sequences, SequencesExt

CONSTANTS
    Container,  \* records with the namespace and the name of a container
    Pid,        \* process IDs
    Addresses   \* number of addresses in the subnet

Dash == "-"
Digit == {"0", "1", "2", "3", "4", "5", "6", "7", "8", "9"}

AddressesAssumption ==
    /\ \A c \in Container : c.name \in Seq(STRING)
    /\ \A p \in Pid : p \in Seq(Digit) /\ p # <<>>
    /\ Addresses \in Nat

Address == 1 .. Addresses

None == <<>>

VARIABLES
    task,       \* task[c]: PID of the container's task, or None
    file,       \* file[a]: container and PID that hold the address, or None
    removing,   \* containers without network that are about to be removed
    used,       \* PIDs used since the boot
    wrapped,    \* one of them was used again
    leaks       \* the paths that leave an address behind are taken at all

vars == <<task, file, removing, used, wrapped, leaks>>

NetId == [owner : Container, pid : Pid]

TypeOK ==
    /\ task \in [Container -> Pid \cup {None}]
    /\ file \in [Address -> NetId \cup {None}]
    /\ removing \subseteq {c \in Container : task[c] # None}
    /\ used \subseteq Pid
    /\ wrapped \in BOOLEAN /\ leaks \in BOOLEAN
    /\ \A c, d \in Container :
           c # d /\ task[c] = task[d] => task[c] = None

Init ==
    /\ task = [c \in Container |-> None]
    /\ file = [a \in Address |-> None]
    /\ removing = {}
    /\ used = {}
    /\ wrapped = FALSE
    /\ leaks \in BOOLEAN

-----------------------------------------------------------------------------
(* pkg/cninetwork.                                                         *)

netID(c) == [owner |-> c, pid |-> task[c]]

\* strings.Contains
Contained(s, t) ==
    \E i \in 0 .. Len(t) :
        i + Len(s) <= Len(t) /\ \A j \in 1 .. Len(s) : t[i + j] = s[j]

Line(name, pid) == name \o <<Dash>> \o pid

\* Mutant: the search is for the name alone.
isCNIResultForName(id, c) ==
    id # None /\ Contained(c.name, Line(id.owner.name, id.pid))

\* The line of the file contains "<name>-<PID>".
isCNIResultForPID(id, c) ==
    /\ id # None
    /\ Contained(Line(c.name, task[c]), Line(id.owner.name, id.pid))

\* The first file that matches; 0 is an error.
Matches(c) == {a \in Address : isCNIResultForPID(file[a], c)}

GetIPAddress(c) ==
    IF task[c] = None \/ Matches(c) = {} THEN 0
    ELSE CHOOSE a \in Matches(c) : \A b \in Matches(c) : a <= b

\* cni.Setup: the plugin takes a free address for the network ID.
Setup(id) ==
    \E a \in Address :
        /\ file[a] = None
        /\ file' = [file EXCEPT ![a] = id]

\* cni.Remove: the plugin frees what the network ID holds.
FreedFor(id) == [a \in Address |-> IF file[a] = id THEN None ELSE file[a]]

-----------------------------------------------------------------------------
(* What the supervisor and the handlers do with a container.               *)

NewTask(c, p) ==
    /\ task[c] = None
    /\ \A d \in Container : task[d] # p
    /\ used' = used \cup {p}
    /\ wrapped' = (wrapped \/ p \in used)
    /\ task' = [task EXCEPT ![c] = p]
    /\ UNCHANGED <<removing, leaks>>

\* A task and its network.
CreateTask(c, p) ==
    /\ NewTask(c, p)
    /\ Setup([owner |-> c, pid |-> p])

\* No address is left: the task stays without network.
CreateTaskFails(c, p) ==
    /\ NewTask(c, p)
    /\ \A a \in Address : file[a] # None
    /\ UNCHANGED file

\* DeleteFunction, Supervisor.Remove and the sweep of stopped tasks delete the
\* network first...
DeleteCNINetwork(c) ==
    /\ task[c] # None
    /\ c \notin removing
    /\ file' = FreedFor(netID(c))
    /\ removing' = removing \cup {c}
    /\ UNCHANGED <<task, used, wrapped, leaks>>

\* ... and the task then.
RemoveTask(c) ==
    /\ c \in removing
    /\ task' = [task EXCEPT ![c] = None]
    /\ removing' = removing \ {c}
    /\ UNCHANGED <<file, used, wrapped, leaks>>

\* Supervisor.Start removes what an earlier faasd up left, and
\* EnsureTaskRunning a stopped task, without its network; the handlers do after
\* cni.Remove has failed, which is only logged.
RemoveOld(c) ==
    /\ leaks
    /\ task[c] # None
    /\ c \notin removing
    /\ task' = [task EXCEPT ![c] = None]
    /\ UNCHANGED <<file, removing, used, wrapped, leaks>>

\* EnsureTaskRunning makes a network for a running task without one, also
\* between the two steps of a removal.
EnsureTaskRunning(c) ==
    /\ leaks
    /\ task[c] # None
    /\ GetIPAddress(c) = 0
    /\ Setup(netID(c))
    /\ UNCHANGED <<task, removing, used, wrapped, leaks>>

\* /var/run/cni does not survive a boot, and neither do tasks.
Reboot ==
    /\ used # {}
    /\ task' = [c \in Container |-> None]
    /\ file' = [a \in Address |-> None]
    /\ removing' = {}
    /\ used' = {}
    /\ wrapped' = FALSE
    /\ UNCHANGED leaks

Next ==
    \/ \E c \in Container, p \in Pid : CreateTask(c, p) \/ CreateTaskFails(c, p)
    \/ \E c \in Container :
           \/ DeleteCNINetwork(c) \/ RemoveTask(c)
           \/ RemoveOld(c) \/ EnsureTaskRunning(c)
    \/ Reboot

Spec == Init /\ [][Next]_vars

-----------------------------------------------------------------------------
(* Properties.                                                             *)

\* No PID of this boot begins another one.
PrefixFree == \A p, q \in used : IsPrefix(p, q) => p = q

\* No other container's name ends with that of c.
OwnEnding(c) == \A d \in Container : IsSuffix(c.name, d.name) => d = c

\* No name has that of c in it, followed by "-" and a digit.
NotNumbered(c) ==
    \A d \in Container, g \in Digit : ~ Contained(c.name \o <<Dash, g>>, d.name)

\* "GetIPAddress returns the IP address from container based on container
\* name and PID" (cni_network.go:150): what it returns for a task is held by
\* that task, as long as no name has this one in it with "-" and a digit, and at
\* most one of these is so: a PID begins another, a file was forgotten, a name
\* ends like this one; all but the first may be when no PID came twice.  And an
\* address that no task holds was lost on a path that forgets the network
\* (service.go:83, functions.go:330, supervisor.go:133), and on no other.
AddressRight ==
    /\ \A c \in Container :
        /\ NotNumbered(c)
        /\ \/ PrefixFree /\ (~ leaks \/ OwnEnding(c) \/ ~ wrapped)
           \/ ~ leaks /\ OwnEnding(c)
        => GetIPAddress(c) \in {0} \cup {a \in Address : file[a] = netID(c)}
    /\ ~ leaks => \A a \in Address :
           file[a] # None => \E c \in Container : file[a] = netID(c)

\* A PID of this boot belongs to one container, now and in every file, unless
\* it was used again.
PidsOwned ==
    /\ \A c \in Container : task[c] # None => task[c] \in used
    /\ \A a \in Address : file[a] # None =>
           /\ file[a].pid \in used
           /\ ~ wrapped =>
                  \A c \in Container : task[c] = file[a].pid => c = file[a].owner

\* Without the paths that forget a file, a file is that of a task, and of none
\* that is about to be removed.
FilesLive ==
    ~ leaks => \A a \in Address : file[a] # None =>
        /\ task[file[a].owner] = file[a].pid
        /\ file[a].owner \notin removing

\* The inductive invariant.
IInv == TypeOK /\ PidsOwned /\ FilesLive
============================================================================
