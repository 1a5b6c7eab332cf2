----------------------------- MODULE SendQueue -----------------------------
(***************************************************************************)
(* The way of a packet to a client (ClientSession::Send and WriteLoop).    *)
(*                                                                         *)
(* Any thread copies a packet into a buffer, inline if it is small, else   *)
(* on the heap, and posts it to the I/O thread.  There it is put into a    *)
(* bounded channel, or thrown away if the channel is full or closed.  The  *)
(* write coroutine takes packets out and writes them to the socket.        *)
(* PacketBuffer is copied byte by byte: the heap memory belongs to         *)
(* whoever has the copy that counts, and must be freed by hand at each of  *)
(* the six places where a packet may end.                                  *)
(*                                                                         *)
(* The session object lives as long as its two coroutines, the posted      *)
(* packets and the server's table; its destructor empties the channel.     *)
(* A code block without co_await is a step of the I/O thread.  Why the     *)
(* receive coroutine sleeps is in Backpressure.                            *)
(***************************************************************************)
EXTENDS Naturals, Sequences

CONSTANTS
  Large,                \* packets of more than 256 bytes, on the heap
  Capacity,             \* of the channel: 1024
  MaxSent,              \* bound: packets sent; they are numbered
  None                  \* no packet

ASSUME SendAssumption ==
  /\ MaxSent \in Nat /\ Large \subseteq 1 .. MaxSent
  /\ Capacity \in Nat \ {0} /\ None \notin Nat

VARIABLES
  sent,                 \* number of packets sent so far
  posted,               \* packets posted to the I/O thread
  channel,              \* what write_channel_ holds
  open,                 \* write_channel_ is open
  socket,               \* the socket is open
  reader,               \* Run: "reading", "asleep" or "ended"
  writer,               \* WriteLoop: "receive", "write" or "ended"
  writing,              \* the packet being written, or None
  alive,                \* the session object exists
  freed,                \* history: how often the memory of a packet was freed
  delivered, refused    \* history: packets written, in order; thrown away

memory == <<freed, refused>>
vars == <<sent, posted, channel, open, socket, reader, writer, writing, alive, delivered, memory>>

Init ==
  /\ sent = 0 /\ posted = <<>> /\ channel = <<>> /\ open = TRUE /\ socket = TRUE
  /\ reader = "reading" /\ writer = "receive" /\ writing = None /\ alive = TRUE
  /\ freed = [p \in Large |-> 0] /\ delivered = <<>> /\ refused = {}

Elements(seq) == {seq[i] : i \in DOMAIN seq}

Free(S) == freed' = [p \in Large |-> IF p \in S THEN freed[p] + 1 ELSE freed[p]]

-----------------------------------------------------------------------------

\* SendTo and BroadcastPacket find a session until it is unregistered.
Send ==
  /\ reader # "ended" /\ sent < MaxSent
  /\ sent' = sent + 1
  /\ posted' = Append(posted, sent')
  /\ UNCHANGED <<channel, open, socket, reader, writer, writing, alive, delivered, memory>>

TakePosted ==
  /\ posted # <<>>
  /\ posted' = Tail(posted)
  /\ UNCHANGED <<sent, open, socket, reader, writer, writing, alive, delivered>>

\* Broken variant: a full channel loses its oldest packet.
TrySendOverwrites ==
  /\ TakePosted /\ open
  /\ channel' = IF Len(channel) < Capacity THEN Append(channel, Head(posted))
                ELSE Append(Tail(channel), Head(posted))
  /\ Free(IF Len(channel) < Capacity THEN {} ELSE {Head(channel)})
  /\ UNCHANGED refused

TrySend ==
  /\ TakePosted /\ open /\ Len(channel) < Capacity
  /\ channel' = Append(channel, Head(posted))
  /\ UNCHANGED memory

Refuse ==
  /\ TakePosted /\ (~open \/ Len(channel) >= Capacity)
  /\ Free({Head(posted)}) /\ refused' = refused \cup {Head(posted)}
  /\ UNCHANGED channel

-----------------------------------------------------------------------------
(* The write coroutine.                                                    *)

\* A closed channel still gives out what it holds.
Receive ==
  /\ writer = "receive" /\ channel # <<>>
  /\ writing' = Head(channel) /\ channel' = Tail(channel)
  /\ writer' = "write"
  /\ UNCHANGED <<sent, posted, open, socket, reader, alive, delivered, memory>>

Write ==
  /\ writer = "write" /\ socket
  /\ Free({writing})
  /\ delivered' = Append(delivered, writing)
  /\ writing' = None /\ writer' = "receive"
  /\ UNCHANGED <<sent, posted, channel, open, socket, reader, alive, refused>>

\* The handlers empty the channel and close the socket, but leave the channel open.
WriterEnds(S) ==
  /\ writer' = "ended" /\ writing' = None
  /\ channel' = <<>> /\ Free(S \cup Elements(channel))
  /\ socket' = FALSE
  /\ UNCHANGED <<sent, posted, open, reader, alive, delivered, refused>>

\* Broken variant: the packet that failed is left to the emptying of the channel.
WriteFailsUnfreed == writer = "write" /\ WriterEnds({})

\* The client is gone, or the socket is closed on this side.
WriteFails == writer = "write" /\ WriterEnds({writing})

ReceiveFails == writer = "receive" /\ channel = <<>> /\ ~open /\ WriterEnds({})

-----------------------------------------------------------------------------
(* The receive coroutine and the end of the session.                       *)

FallAsleep ==
  /\ reader = "reading" /\ reader' = "asleep"
  /\ UNCHANGED <<sent, posted, channel, open, socket, writer, writing, alive, delivered, memory>>

\* Nothing is promised: the wake-up may be missed, and a callback that was dropped
\* never pays its request back (Backpressure).
WakeUp ==
  /\ reader = "asleep" /\ reader' = "reading"
  /\ UNCHANGED <<sent, posted, channel, open, socket, writer, writing, alive, delivered, memory>>

\* Broken variant: the channel is left open.
ReadFailsOpen ==
  /\ reader = "reading"
  /\ socket' = FALSE /\ reader' = "ended"
  /\ UNCHANGED <<sent, posted, channel, open, writer, writing, alive, delivered, memory>>

\* The client is gone, or sends nonsense, or the socket is closed on this side:
\* the channel and the socket are closed, the session is unregistered.
ReadFails ==
  /\ reader = "reading"
  /\ open' = FALSE /\ socket' = FALSE /\ reader' = "ended"
  /\ UNCHANGED <<sent, posted, channel, writer, writing, alive, delivered, memory>>

\* The last shared_ptr goes: ~ClientSession.
Destroy ==
  /\ alive /\ reader = "ended" /\ writer = "ended" /\ posted = <<>>
  /\ alive' = FALSE /\ open' = FALSE /\ socket' = FALSE
  /\ channel' = <<>> /\ Free(Elements(channel))
  /\ UNCHANGED <<sent, posted, reader, writer, writing, delivered, refused>>

-----------------------------------------------------------------------------

Posted == TrySend \/ Refuse
Writer == Receive \/ Write \/ WriteFails \/ ReceiveFails

Next == Send \/ Posted \/ Writer \/ FallAsleep \/ WakeUp \/ ReadFails \/ Destroy

Spec == Init /\ [][Next]_vars

\* The I/O thread runs what is ready: a write is over some time, and a read on a closed
\* socket fails.  A reader that sleeps need not be woken, and does not notice the socket.
FairSpec ==
  /\ Spec
  /\ WF_vars(Posted) /\ WF_vars(Writer) /\ WF_vars(Destroy)
  /\ SF_vars(~socket /\ ReadFails)

-----------------------------------------------------------------------------

TypeOK ==
  /\ sent \in 0 .. MaxSent
  /\ posted \in Seq(1 .. MaxSent) /\ channel \in Seq(1 .. MaxSent)
  /\ open \in BOOLEAN /\ socket \in BOOLEAN /\ alive \in BOOLEAN
  /\ reader \in {"reading", "asleep", "ended"}
  /\ writer \in {"receive", "write", "ended"}
  /\ writing \in 1 .. MaxSent \cup {None}
  /\ freed \in [Large -> Nat]
  /\ delivered \in Seq(1 .. MaxSent) /\ refused \subseteq 1 .. MaxSent

\* The packets that the program has handed over and that have a way to go.
OnItsWay == ({writing} \ {None}) \cup Elements(channel) \cup Elements(posted)

\* Of a large packet that was sent either one copy is on its way or the memory
\* has been freed, once: none leaks, whichever coroutine ends first and whatever is
\* posted in between, and none is freed twice or written after it was freed.
FreedExactlyOnce ==
  \A p \in Large : p <= sent => freed[p] = IF p \in OnItsWay THEN 0 ELSE 1

Increasing(seq) == \A i, j \in DOMAIN seq : i < j => seq[i] < seq[j]

\* Packets reach the client in the order they were sent, none of them twice, and
\* what is missing between them was refused by a full channel.
DeliveredInOrder ==
  /\ Increasing(delivered)
  /\ \A d \in Elements(delivered) : 1 .. d \subseteq refused \cup Elements(delivered)

\* A session whose socket was closed by either coroutine comes to an end: the other
\* one does not wait for ever and keep the object, unless it is the reader and is
\* never woken again.
SessionEnds ==
  <>~socket => <>~alive \/ <>[](reader = "asleep")
=============================================================================
