---------------------------- MODULE ThirdPartyIo ----------------------------
(***************************************************************************)
(* test/asio_third_party_io: a library that echoes what it reads says      *)
(* whether it wants to read or to write, and a connection waits for the    *)
(* socket to be ready for that and then lets the library do it.  The       *)
(* socket does not block: a read or a write may find nothing to do.        *)
(*                                                                         *)
(* A wait is "idle" when none is outstanding, "pending" until it           *)
(* completes, and then holds what its handler will be told.  The           *)
(* connection goes, and its socket with it, when none is outstanding.      *)
(***************************************************************************)
EXTENDS Integers, Sequences

CONSTANTS BufferSize,   \* the octets of data_: 128 in the code
          MaxOctets     \* bound: the octets the client sends, 1, 2, ...

IoAssumption == {BufferSize, MaxOctets} \subseteq Nat \ {0}

VARIABLES state,          \* state_
          write_buffer,   \* write_buffer_
          reader,         \* the wait for reading; not "idle": read_in_progress_
          writer,         \* the wait for writing; not "idle": write_in_progress_
          open,           \* the socket is open
          sent,           \* how many octets the client has sent
          inbox,          \* those of them that the library has not read
          outbox,         \* the octets that the library has written
          deaf            \* history: a wait for reading has failed

vars == <<state, write_buffer, reader, writer, open, sent, inbox, outbox, deaf>>

Wait == {"idle", "pending", "ready", "failed"}

Init ==
    /\ state = "reading"
    /\ write_buffer = <<>>
    /\ reader = "pending" /\ writer = "idle"      \* start()
    /\ open = TRUE
    /\ sent = 0
    /\ inbox = <<>> /\ outbox = <<>>
    /\ deaf = FALSE

\* Mutation: only start() begins a wait for reading.
do_operations_WriteOnly(s, r, w) ==
    /\ reader' = r
    /\ writer' = IF s = "writing" /\ w = "idle" THEN "pending" ELSE w
    /\ UNCHANGED open

\* do_operations, when the library has come to want s and the handlers have
\* left the waits r and w.
do_operations(s, r, w) ==
    /\ reader' = IF s = "reading" /\ r = "idle" THEN "pending" ELSE r
    /\ writer' = IF s = "writing" /\ w = "idle" THEN "pending" ELSE w
    /\ UNCHANGED open

\* Closing the socket fails the waits.
Abort(wait) == IF wait = "pending" THEN "failed" ELSE wait

Close(r, w) ==
    /\ open' = FALSE
    /\ reader' = Abort(r) /\ writer' = Abort(w)

\* A failed wait for reading starts nothing; it does not close the socket.
OnReadWaitFailed ==
    /\ reader = "failed"
    /\ reader' = "idle"
    /\ deaf' = TRUE
    /\ UNCHANGED <<state, write_buffer, writer, open, sent, inbox, outbox>>

\* The library reads as much as its buffer holds, or what there is.
OnReadable ==
    LET n == IF Len(inbox) < BufferSize THEN Len(inbox) ELSE BufferSize
    IN  /\ reader = "ready"
        /\ \/ /\ n > 0
              /\ write_buffer' = SubSeq(inbox, 1, n)
              /\ inbox' = SubSeq(inbox, n + 1, Len(inbox))
              /\ state' = "writing"
              /\ do_operations("writing", "idle", writer)
           \/ /\ n = 0                                    \* would_block
              /\ do_operations(state, "idle", writer)
              /\ UNCHANGED <<state, write_buffer, inbox>>
           \/ /\ Close("idle", writer)                    \* the end, or an error
              /\ UNCHANGED <<state, write_buffer, inbox>>
        /\ UNCHANGED <<sent, outbox, deaf>>

OnWriteWaitFailed ==
    /\ writer = "failed"
    /\ Close(reader, "idle")
    /\ UNCHANGED <<state, write_buffer, sent, inbox, outbox, deaf>>

\* write_buffer_ + len
Rest(n) == SubSeq(write_buffer, n + 1, Len(write_buffer))

\* The library writes what the socket takes.
OnWritable ==
    /\ writer = "ready"
    /\ \/ \E n \in 1..Len(write_buffer) :
             LET wants == IF Rest(n) # <<>> THEN "writing" ELSE "reading"
             IN  /\ outbox' = outbox \o SubSeq(write_buffer, 1, n)
                 /\ write_buffer' = Rest(n)
                 /\ state' = wants
                 /\ do_operations(wants, reader, "idle")
       \/ /\ do_operations(state, reader, "idle")         \* would_block
          /\ UNCHANGED <<state, write_buffer, outbox>>
       \/ /\ Close(reader, "idle")                        \* an error
          /\ UNCHANGED <<state, write_buffer, outbox>>
    /\ UNCHANGED <<sent, inbox, deaf>>

----------------------------------------------------------------------------
(* The client and the network *)

ClientSends ==
    /\ sent < MaxOctets
    /\ sent' = sent + 1
    /\ inbox' = Append(inbox, sent + 1)
    /\ UNCHANGED <<state, write_buffer, reader, writer, open, outbox, deaf>>

\* A socket may become ready, or be reported ready, at any time.
ReadWaitEnds ==
    /\ reader = "pending"
    /\ reader' \in {"ready", "failed"}
    /\ UNCHANGED <<state, write_buffer, writer, open, sent, inbox, outbox, deaf>>

WriteWaitEnds ==
    /\ writer = "pending"
    /\ writer' \in {"ready", "failed"}
    /\ UNCHANGED <<state, write_buffer, reader, open, sent, inbox, outbox, deaf>>

Next == \/ OnReadWaitFailed \/ OnReadable \/ OnWriteWaitFailed \/ OnWritable
        \/ ClientSends \/ ReadWaitEnds \/ WriteWaitEnds

Spec == Init /\ [][Next]_vars

----------------------------------------------------------------------------
(* Properties *)

TypeOK ==
    /\ state \in {"reading", "writing"}
    /\ write_buffer \in Seq(1..MaxOctets) /\ Len(write_buffer) <= BufferSize
    /\ reader \in Wait /\ writer \in Wait
    /\ open \in BOOLEAN
    /\ sent \in 0..MaxOctets
    /\ inbox \in Seq(1..MaxOctets) /\ outbox \in Seq(1..MaxOctets)
    /\ deaf \in BOOLEAN

\* However reads and writes are cut short, the client gets back what it sent,
\* in order and once; a buffer is not read into while it is being written; and
\* while the socket is open the connection waits for what the library wants and
\* for nothing else, unless a wait for reading has failed: then for nothing
\* (lines 74-129).
EchoesInOrder ==
    /\ outbox \o write_buffer \o inbox = [n \in 1..sent |-> n]
    /\ state = "reading" <=> write_buffer = <<>>
    /\ open => /\ writer # "idle" <=> state = "writing"
               /\ reader # "idle" <=> state = "reading" /\ ~deaf
               /\ deaf => state = "reading"

=============================================================================
