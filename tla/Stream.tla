------------------------------- MODULE Stream -------------------------------
(***************************************************************************)
(* What a channel promises in one direction, whatever happens to queues,   *)
(* messages, flow control and the connection: the reader is handed what    *)
(* the writer has had accepted, each chunk once and in order.  The writer  *)
(* may close the stream once; a reader that is told of that end, rather    *)
(* than of a lost connection, has been handed everything up to it.         *)
(***************************************************************************)
EXTENDS Integers, Sequences

VARIABLES
    accepted,  \* chunks that the writer has had accepted
    handed,    \* the numbers of the chunks that the reader was handed
    end,       \* accepted when the writer closed the stream, Open before
    told       \* the reader's end: open, closed (the peer closed), cut

vars == <<accepted, handed, end, told>>

Open == -1

Init ==
    /\ accepted = 0
    /\ handed = <<>>
    /\ end = Open
    /\ told = "open"

Write ==
    /\ accepted' = accepted + 1
    /\ UNCHANGED <<handed, end, told>>

\* The next chunk in order; what is accepted after the end is never handed on.
Read ==
    /\ told = "open"
    /\ Len(handed) < (IF end = Open THEN accepted ELSE end)
    /\ handed' = Append(handed, Len(handed) + 1)
    /\ UNCHANGED <<accepted, end, told>>

CloseWriter ==
    /\ end = Open
    /\ end' = accepted
    /\ UNCHANGED <<accepted, handed, told>>

\* The reader learns that the peer has closed the stream.
EndOfStream ==
    /\ told = "open"
    /\ end # Open /\ Len(handed) = end
    /\ told' = "closed"
    /\ UNCHANGED <<accepted, handed, end>>

\* The stream is cut short: the connection is lost, the channel is aborted, or
\* the reader gives up.
Cut ==
    /\ told = "open"
    /\ told' = "cut"
    /\ UNCHANGED <<accepted, handed, end>>

Next == Write \/ Read \/ CloseWriter \/ EndOfStream \/ Cut

Spec == Init /\ [][Next]_vars
=============================================================================
