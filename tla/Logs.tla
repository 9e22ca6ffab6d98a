-------------------------------- MODULE Logs --------------------------------
(***************************************************************************)
(* A request for the logs of a function: journalctl writes entries to a    *)
(* pipe, one goroutine waits for it to end, another decodes the entries    *)
(* and sends them on an unbuffered channel, and the handler of the         *)
(* provider library passes them on to the client.                          *)
(*                                                                         *)
(* Entries are numbered in the order of the journal and only counted.      *)
(* Left out: what an entry holds, and journalctl's error output.           *)
(***************************************************************************)
EXTENDS Integers

CONSTANTS
    Entries,    \* number of entries in the journal
    PipeSize,   \* number of entries the pipe holds
    BadEntries  \* TRUE if an entry may be one that cannot be parsed

LogsAssumption ==
    Entries \in Nat /\ PipeSize \in Nat \ {0} /\ BadEntries \in BOOLEAN

VARIABLES
    follow,     \* the client asked for new entries too
    journalctl, \* the process
    wait,       \* the goroutine in cmd.Wait
    stream,     \* streamLogs
    handler,    \* the HTTP handler
    cancelled,  \* the context of the request is done
    emitted,    \* entries written to the pipe
    read,       \* entries read from it into the decoder's buffer
    decoded,    \* entries decoded
    sent        \* entries received by the handler

vars == <<follow, journalctl, wait, stream, handler, cancelled,
          emitted, read, decoded, sent>>

counts == <<emitted, read, decoded, sent>>

\* The reader's end of the pipe is closed by cmd.Wait.
PipeClosed == wait = "done"

TypeOK ==
    /\ follow \in BOOLEAN
    /\ journalctl \in {"runs", "exited"}
    /\ wait \in {"waits", "done"}
    /\ stream \in {"more", "send", "closed"}
    /\ handler \in {"select", "returned"}
    /\ cancelled \in BOOLEAN
    /\ emitted \in 0 .. Entries
    /\ read \in 0 .. emitted
    /\ decoded \in 0 .. read
    /\ sent \in 0 .. decoded
    /\ stream = "send" => sent = decoded - 1

\* Query has started the process and both goroutines.
Init ==
    /\ follow \in BOOLEAN
    /\ journalctl = "runs"
    /\ wait = "waits"
    /\ stream = "more"
    /\ handler = "select"
    /\ cancelled = FALSE
    /\ emitted = 0
    /\ read = 0
    /\ decoded = 0
    /\ sent = 0

-----------------------------------------------------------------------------
\* journalctl writes an entry, blocking on a full pipe.
Emit ==
    /\ journalctl = "runs"
    /\ emitted < Entries
    /\ emitted - read < PipeSize
    /\ emitted' = emitted + 1
    /\ UNCHANGED <<follow, journalctl, wait, stream, handler, cancelled,
                   read, decoded, sent>>

\* It ends after the last entry, or is killed when the context is done.
Exit ==
    /\ journalctl = "runs"
    /\ cancelled \/ (~ follow /\ emitted = Entries)
    /\ journalctl' = "exited"
    /\ UNCHANGED <<follow, wait, stream, handler, cancelled, counts>>

\* Mutant: Wait is called when the stream is over.
WaitAfterStream ==
    /\ wait = "waits"
    /\ journalctl = "exited"
    /\ stream = "closed"
    /\ wait' = "done"
    /\ UNCHANGED <<follow, journalctl, stream, handler, cancelled, counts>>

\* cmd.Wait returns, and has closed the pipe.
Wait ==
    /\ wait = "waits"
    /\ journalctl = "exited"
    /\ wait' = "done"
    /\ UNCHANGED <<follow, journalctl, stream, handler, cancelled, counts>>

\* dec.More without a buffered entry reads some of what is in the pipe.
Read ==
    /\ stream = "more"
    /\ decoded = read
    /\ ~ PipeClosed
    /\ read' \in read + 1 .. emitted
    /\ UNCHANGED <<follow, journalctl, wait, stream, handler, cancelled,
                   emitted, decoded, sent>>

\* An entry is decoded, unless the context is done or the entry cannot be
\* parsed, which ends the stream.
Decode ==
    /\ stream = "more"
    /\ decoded < read
    /\ \/ /\ ~ cancelled
          /\ decoded' = decoded + 1
          /\ stream' = "send"
       \/ /\ cancelled \/ BadEntries
          /\ stream' = "closed"
          /\ UNCHANGED decoded
    /\ UNCHANGED <<follow, journalctl, wait, handler, cancelled,
                   emitted, read, sent>>

\* The end of the output, or the pipe was closed under the decoder: the loop
\* is over and the channel closed.
EndOfOutput ==
    /\ stream = "more"
    /\ decoded = read
    /\ PipeClosed \/ (journalctl = "exited" /\ read = emitted)
    /\ stream' = "closed"
    /\ UNCHANGED <<follow, journalctl, wait, handler, cancelled, counts>>

\* The handler receives an entry and writes it to the client.
Receive ==
    /\ handler = "select"
    /\ stream = "send"
    /\ stream' = "more"
    /\ sent' = sent + 1
    /\ UNCHANGED <<follow, journalctl, wait, handler, cancelled,
                   emitted, read, decoded>>

\* The end of the stream; the deferred cancelQuery is part of the return.
EndOfStream ==
    /\ handler = "select"
    /\ stream = "closed"
    /\ handler' = "returned"
    /\ cancelled' = TRUE
    /\ UNCHANGED <<follow, journalctl, wait, stream, counts>>

\* The client leaves.
CloseNotify ==
    /\ handler = "select"
    /\ handler' = "returned"
    /\ cancelled' = TRUE
    /\ UNCHANGED <<follow, journalctl, wait, stream, counts>>

\* The read timeout of the server runs out; the handler goes on until the
\* channel is closed.
Timeout ==
    /\ ~ cancelled
    /\ cancelled' = TRUE
    /\ UNCHANGED <<follow, journalctl, wait, stream, handler, counts>>

streamLogs == Read \/ Decode \/ EndOfOutput

Next ==
    \/ Emit \/ Exit \/ Wait
    \/ streamLogs
    \/ Receive \/ EndOfStream \/ CloseNotify \/ Timeout

\* Processes and goroutines go on while they can, and the timeout runs out;
\* whether a client leaves is up to it.
Fairness ==
    /\ WF_vars(Exit)
    /\ WF_vars(Wait)
    /\ WF_vars(streamLogs)
    /\ WF_vars(Receive)
    /\ WF_vars(EndOfStream)
    /\ WF_vars(Timeout)

Spec == Init /\ [][Next]_vars /\ Fairness

-----------------------------------------------------------------------------
(* Properties.                                                             *)

\* The handler returns, also for a client that follows the logs: the timeout
\* ends journalctl, its end the stream, and the closed channel the handler; and
\* journalctl is waited for however the request ended and wherever the stream
\* hangs (requestor.go:108, requestor.go:114, requestor.go:119).
Ended == handler = "returned" /\ wait = "done"

LogsEnd == <>[]Ended

-----------------------------------------------------------------------------
\* The inductive invariant: between two entries all that is decoded is sent.
IInv == TypeOK /\ (stream # "send" => sent = decoded)
=============================================================================
