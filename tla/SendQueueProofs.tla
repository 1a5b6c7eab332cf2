-------------------------- MODULE SendQueueProofs --------------------------
(***************************************************************************)
(* Proofs about SendQueue: no packet's memory leaks or is freed twice, and *)
(* packets are delivered in order, for any number of packets and any       *)
(* capacity of the channel.                                                *)
(*                                                                         *)
(* The strengthening says where packets are: they pass the posted ones,    *)
(* the channel and the write coroutine in the order of their numbers       *)
(* (InOrder), each is counted as freed if it is at none of these places    *)
(* (Accounted), and while the write coroutine runs nothing is missing      *)
(* that was not refused (NothingMissing).                                  *)
(***************************************************************************)
EXTENDS SendQueue, TLAPS

Packet == 1 .. MaxSent

InOrder ==
  /\ Increasing(channel) /\ Increasing(posted) /\ Increasing(delivered)
  /\ \A x \in OnItsWay : x <= sent
  /\ \A x \in Elements(channel), y \in Elements(posted) : x < y
  /\ writing # None => \A x \in Elements(channel) \cup Elements(posted) : writing < x
  /\ \A d \in Elements(delivered), x \in OnItsWay : d < x
  /\ \A d \in Elements(delivered) : d <= sent

Accounted ==
  \A p \in Large : freed[p] = IF p <= sent /\ p \notin OnItsWay THEN 1 ELSE 0

NothingMissing ==
  /\ writer = "write" <=> writing # None
  /\ writer # "ended" => 1 .. sent \subseteq refused \cup Elements(delivered) \cup OnItsWay
  /\ \A d \in Elements(delivered) : 1 .. d \subseteq refused \cup Elements(delivered)

Inv == TypeOK /\ InOrder /\ Accounted /\ NothingMissing

-----------------------------------------------------------------------------
(* Queues of packets.                                                      *)

\* A queue holds packets only; the empty one none.
LEMMA ElementsOfQueue ==
  /\ \A s \in Seq(Packet) : Elements(s) \subseteq Packet
  /\ Elements(<<>>) = {} /\ Increasing(<<>>) /\ <<>> \in Seq(Packet)
BY DEF Elements, Increasing

\* A packet put at the end of a queue whose packets are all older.
LEMMA PutLast ==
  ASSUME NEW s \in Seq(Packet), Increasing(s), NEW e \in Packet,
         \A x \in Elements(s) : x < e
  PROVE  /\ Append(s, e) \in Seq(Packet) /\ Increasing(Append(s, e))
         /\ Elements(Append(s, e)) = Elements(s) \cup {e}
<1> DEFINE t == Append(s, e)
<1>1. /\ t \in Seq(Packet) /\ Len(t) = Len(s) + 1
      /\ t[Len(s) + 1] = e /\ \A i \in 1 .. Len(s) : t[i] = s[i]
      /\ DOMAIN t = 1 .. Len(s) + 1 /\ DOMAIN s = 1 .. Len(s) /\ Len(s) \in Nat
  OBVIOUS
<1>2. \A i \in 1 .. Len(s) : s[i] \in Packet /\ s[i] < e
  BY <1>1 DEF Elements
<1> HIDE DEF t
<1>3. Increasing(t)
  BY <1>1, <1>2 DEF Increasing, Packet
<1>4. Elements(t) = Elements(s) \cup {e}
  BY <1>1 DEF Elements
<1> QED
  BY <1>1, <1>3, <1>4 DEF t

\* The packet at the head of a queue in order is the oldest, and is in it once.
LEMMA TakeFirst ==
  ASSUME NEW s \in Seq(Packet), Increasing(s), s # <<>>
  PROVE  /\ Tail(s) \in Seq(Packet) /\ Increasing(Tail(s))
         /\ Elements(Tail(s)) = Elements(s) \ {Head(s)}
         /\ Head(s) \in Elements(s) /\ Head(s) \in Packet
         /\ \A x \in Elements(Tail(s)) : Head(s) < x
<1> DEFINE t == Tail(s)
<1>1. /\ t \in Seq(Packet) /\ Len(s) \in Nat \ {0} /\ Len(t) = Len(s) - 1
      /\ Head(s) = s[1] /\ \A i \in 1 .. Len(t) : t[i] = s[i + 1]
      /\ DOMAIN t = 1 .. Len(s) - 1 /\ DOMAIN s = 1 .. Len(s)
  OBVIOUS
<1>2. \A i \in 1 .. Len(s) : s[i] \in Packet
  OBVIOUS
<1> HIDE DEF t
<1>3. Increasing(t)
  <2> SUFFICES ASSUME NEW i \in 1 .. Len(t), NEW j \in 1 .. Len(t), i < j
               PROVE  t[i] < t[j]
    BY <1>1 DEF Increasing
  <2>1. i + 1 \in DOMAIN s /\ j + 1 \in DOMAIN s /\ i + 1 < j + 1
    BY <1>1
  <2> QED
    BY <2>1, <1>1 DEF Increasing
<1>4. \A i \in 2 .. Len(s) : s[1] < s[i]
  BY <1>1 DEF Increasing
<1>5. Elements(t) = Elements(s) \ {s[1]}
  <2>1. \A x \in Elements(t) : x \in Elements(s) \ {s[1]}
    <3> SUFFICES ASSUME NEW i \in 1 .. Len(t)
                 PROVE  t[i] \in Elements(s) \ {s[1]}
      BY <1>1 DEF Elements
    <3>1. i + 1 \in 2 .. Len(s) /\ t[i] = s[i + 1]
      BY <1>1
    <3> QED
      BY <3>1, <1>1, <1>2, <1>4 DEF Elements, Packet
  <2>2. \A x \in Elements(s) \ {s[1]} : x \in Elements(t)
    <3> SUFFICES ASSUME NEW i \in 1 .. Len(s), s[i] # s[1]
                 PROVE  s[i] \in Elements(t)
      BY <1>1 DEF Elements
    <3>1. i - 1 \in 1 .. Len(t) /\ t[i - 1] = s[(i - 1) + 1] /\ (i - 1) + 1 = i
      BY <1>1
    <3> QED
      BY <3>1, <1>1 DEF Elements
  <2> QED
    BY <2>1, <2>2
<1>6. s[1] \in Elements(s) /\ s[1] \in Packet
  BY <1>1, <1>2 DEF Elements
<1>7. \A x \in Elements(t) : s[1] < x
  <2>1. \A i \in 1 .. Len(t) : s[1] < t[i]
    BY <1>1, <1>4
  <2> QED
    BY <2>1, <1>1 DEF Elements
<1> QED
  BY <1>1, <1>3, <1>5, <1>6, <1>7 DEF t

-----------------------------------------------------------------------------
(* One lemma for each kind of step.                                        *)

\* What every step may use: packets are natural numbers, and queues hold only packets.
LEMMA Packets ==
  ASSUME Inv
  PROVE  /\ MaxSent \in Nat /\ Large \subseteq Packet /\ None \notin Nat
         /\ Elements(channel) \subseteq Packet /\ Elements(posted) \subseteq Packet
         /\ Elements(delivered) \subseteq Packet
         /\ writing # None => writing \in Packet
         /\ sent \in 0 .. MaxSent /\ OnItsWay \subseteq Packet
BY SendAssumption, ElementsOfQueue DEF Inv, TypeOK, OnItsWay, Packet

\* Nothing has been sent at first.
LEMMA InvAtFirst == Init => Inv
BY SendAssumption, ElementsOfQueue
   DEF Init, Inv, TypeOK, InOrder, Accounted, NothingMissing, OnItsWay, Increasing, Packet

\* A packet that is sent is the youngest.
LEMMA SendKeepsInv ==
  ASSUME Inv, Send
  PROVE  Inv'
<1> USE Packets
<1> DEFINE p == sent + 1
<1>1. p \in Packet /\ sent' = p /\ posted' = Append(posted, p)
  BY DEF Send, Packet
<1>2. \A x \in Elements(posted) : x < p
  BY <1>1 DEF Inv, InOrder, OnItsWay, Packet
<1>3. /\ posted' \in Seq(Packet) /\ Increasing(posted')
      /\ Elements(posted') = Elements(posted) \cup {p}
  BY <1>1, <1>2, PutLast DEF Inv, TypeOK, InOrder, Packet
<1>4. /\ channel' = channel /\ writing' = writing /\ delivered' = delivered
      /\ freed' = freed /\ refused' = refused /\ writer' = writer
  BY DEF Send, memory
<1>5. OnItsWay' = OnItsWay \cup {p}
  BY <1>3, <1>4 DEF OnItsWay
<1>6. TypeOK'
  BY <1>1, <1>3 DEF Send, memory, Inv, TypeOK, Packet
<1>7. InOrder'
  <2>1. \A x \in OnItsWay' : x <= sent'
    BY <1>1, <1>5 DEF Inv, InOrder, Packet
  <2>2. \A x \in Elements(channel) : x < p
    BY DEF Inv, InOrder, OnItsWay, Packet
  <2>3. writing # None => writing < p
    <3>1. writing # None => writing \in OnItsWay
      BY DEF OnItsWay
    <3>2. writing # None => writing <= sent /\ writing \in Packet
      BY <3>1 DEF Inv, InOrder
    <3> QED
      BY <3>2 DEF Packet
  <2>4. \A d \in Elements(delivered) : d < p /\ d <= sent'
    BY <1>1 DEF Inv, InOrder, Packet
  <2>5. Increasing(channel') /\ Increasing(delivered')
    BY <1>4 DEF Inv, InOrder
  <2>6. \A x \in Elements(channel'), y \in Elements(posted') : x < y
    BY <1>3, <1>4, <2>2 DEF Inv, InOrder
  <2>7. writing' # None => \A x \in Elements(channel') \cup Elements(posted') : writing' < x
    BY <1>3, <1>4, <2>3 DEF Inv, InOrder
  <2>8. \A d \in Elements(delivered'), x \in OnItsWay' : d < x
    BY <1>4, <1>5, <2>4 DEF Inv, InOrder
  <2>9. \A d \in Elements(delivered') : d <= sent'
    BY <1>4, <2>4
  <2> QED
    BY <1>3, <2>1, <2>5, <2>6, <2>7, <2>8, <2>9 DEF InOrder
<1>8. Accounted'
  BY <1>1, <1>4, <1>5 DEF Inv, Accounted, InOrder, Packet
<1>9. NothingMissing'
  BY <1>1, <1>4, <1>5 DEF Inv, NothingMissing, Packet
<1> QED
  BY <1>6, <1>7, <1>8, <1>9 DEF Inv

\* The oldest posted packet goes to the end of the channel, or is freed.
LEMMA PostedKeepsInv ==
  ASSUME Inv, Posted
  PROVE  Inv'
<1> USE Packets
<1> DEFINE p == Head(posted)
<1>1. posted \in Seq(Packet) /\ Increasing(posted) /\ posted # <<>> /\ posted' = Tail(posted)
  BY DEF Inv, TypeOK, InOrder, Posted, TrySend, Refuse, TakePosted, Packet
<1>2. /\ posted' \in Seq(Packet) /\ Increasing(posted')
      /\ Elements(posted') = Elements(posted) \ {p}
      /\ p \in Elements(posted) /\ p \in Packet /\ \A x \in Elements(posted') : p < x
  BY <1>1, TakeFirst
<1>3. /\ sent' = sent /\ writing' = writing /\ delivered' = delivered
      /\ writer' = writer /\ open' = open /\ socket' = socket /\ alive' = alive
      /\ reader' = reader
  BY DEF Posted, TrySend, Refuse, TakePosted
<1>4. \A x \in Elements(channel) : x < p
  BY <1>2 DEF Inv, InOrder
<1>5. CASE TrySend
  <2>1. channel' = Append(channel, p) /\ freed' = freed /\ refused' = refused
    BY <1>5 DEF TrySend, memory
  <2>2. /\ channel' \in Seq(Packet) /\ Increasing(channel')
        /\ Elements(channel') = Elements(channel) \cup {p}
    BY <2>1, <1>2, <1>4, PutLast DEF Inv, TypeOK, InOrder, Packet
  <2>3. OnItsWay' = OnItsWay
    BY <2>2, <1>2, <1>3 DEF OnItsWay
  <2>4. TypeOK'
    BY <2>1, <2>2, <1>2, <1>3 DEF Inv, TypeOK, Packet
  <2>5. InOrder'
    BY <2>2, <2>3, <1>2, <1>3 DEF Inv, InOrder
  <2>6. Accounted' /\ NothingMissing'
    BY <2>1, <2>3, <1>3 DEF Inv, Accounted, NothingMissing
  <2> QED
    BY <2>4, <2>5, <2>6 DEF Inv
<1>6. CASE Refuse
  <2>1. /\ channel' = channel /\ refused' = refused \cup {p}
        /\ freed' = [q \in Large |-> IF q = p THEN freed[q] + 1 ELSE freed[q]]
    BY <1>6 DEF Refuse, Free
  <2>2. p \in OnItsWay /\ p # writing /\ p \notin Elements(channel) /\ p <= sent
    BY <1>2, <1>4 DEF OnItsWay, Inv, InOrder, Packet
  <2>3. OnItsWay' = OnItsWay \ {p}
    BY <2>1, <2>2, <1>2, <1>3 DEF OnItsWay
  <2>4. TypeOK'
    <3>1. freed \in [Large -> Nat]
      BY DEF Inv, TypeOK
    <3>2. freed' \in [Large -> Nat]
      BY <2>1, <3>1
    <3>3. refused' \subseteq 1 .. MaxSent
      BY <2>1, <1>2 DEF Inv, TypeOK, Packet
    <3> QED
      BY <2>1, <3>2, <3>3, <1>2, <1>3 DEF Inv, TypeOK, Packet
  <2>5. InOrder'
    BY <2>1, <2>3, <1>2, <1>3 DEF Inv, InOrder
  <2>6. Accounted'
    BY <2>1, <2>2, <2>3, <1>3 DEF Inv, Accounted
  <2>7. NothingMissing'
    BY <2>1, <2>3, <1>3 DEF Inv, NothingMissing
  <2> QED
    BY <2>4, <2>5, <2>6, <2>7 DEF Inv
<1> QED
  BY <1>5, <1>6 DEF Posted

\* The write coroutine takes the oldest packet out of the channel.
LEMMA ReceiveKeepsInv ==
  ASSUME Inv, Receive
  PROVE  Inv'
<1> USE Packets
<1> DEFINE p == Head(channel)
<1>1. channel \in Seq(Packet) /\ Increasing(channel) /\ channel # <<>> /\ channel' = Tail(channel)
  BY DEF Inv, TypeOK, InOrder, Receive, Packet
<1>2. /\ channel' \in Seq(Packet) /\ Increasing(channel')
      /\ Elements(channel') = Elements(channel) \ {p}
      /\ p \in Elements(channel) /\ p \in Packet /\ \A x \in Elements(channel') : p < x
  BY <1>1, TakeFirst
<1>3. /\ sent' = sent /\ posted' = posted /\ delivered' = delivered /\ freed' = freed
      /\ refused' = refused /\ open' = open /\ socket' = socket /\ alive' = alive
      /\ reader' = reader /\ writing' = p /\ writer = "receive" /\ writer' = "write"
  BY DEF Receive, memory
<1>4. writing = None /\ p # None
  BY <1>2, <1>3 DEF Inv, NothingMissing, Packet
<1>5. OnItsWay' = OnItsWay
  BY <1>2, <1>3, <1>4 DEF OnItsWay
<1>6. TypeOK'
  BY <1>2, <1>3 DEF Inv, TypeOK, Packet
<1>7. InOrder'
  <2>1. \A x \in Elements(posted) : p < x
    BY <1>2 DEF Inv, InOrder
  <2> QED
    BY <1>2, <1>3, <1>5, <2>1 DEF Inv, InOrder
<1>8. Accounted' /\ NothingMissing'
  BY <1>3, <1>4, <1>5 DEF Inv, Accounted, NothingMissing
<1> QED
  BY <1>6, <1>7, <1>8 DEF Inv

\* A packet that is written is freed, and is younger than all that were before it.
LEMMA WriteKeepsInv ==
  ASSUME Inv, Write
  PROVE  Inv'
<1> USE Packets
<1>1. /\ sent' = sent /\ posted' = posted /\ channel' = channel /\ refused' = refused
      /\ open' = open /\ socket' = socket /\ alive' = alive /\ reader' = reader
      /\ writing' = None /\ writer = "write" /\ writer' = "receive"
      /\ delivered' = Append(delivered, writing)
      /\ freed' = [q \in Large |-> IF q = writing THEN freed[q] + 1 ELSE freed[q]]
  BY DEF Write, Free
<1>2. writing # None /\ writing \in Packet /\ writing \in OnItsWay /\ writing <= sent
  BY <1>1 DEF Inv, NothingMissing, OnItsWay, InOrder
<1>3. \A d \in Elements(delivered) : d < writing
  BY <1>2 DEF Inv, InOrder
<1>4. /\ delivered' \in Seq(Packet) /\ Increasing(delivered')
      /\ Elements(delivered') = Elements(delivered) \cup {writing}
  BY <1>1, <1>2, <1>3, PutLast DEF Inv, TypeOK, InOrder, Packet
<1>5. \A x \in Elements(channel) \cup Elements(posted) : writing < x
  BY <1>2 DEF Inv, InOrder
<1>6. OnItsWay' = OnItsWay \ {writing}
  BY <1>1, <1>2, <1>5 DEF OnItsWay, Packet
<1>7. TypeOK'
  <2>1. freed \in [Large -> Nat]
    BY DEF Inv, TypeOK
  <2>2. freed' \in [Large -> Nat]
    BY <1>1, <2>1
  <2> QED
    BY <1>1, <1>4, <2>2 DEF Inv, TypeOK, Packet
<1>8. InOrder'
  <2>1. \A d \in Elements(delivered'), x \in OnItsWay' : d < x
    BY <1>1, <1>4, <1>5, <1>6 DEF Inv, InOrder, OnItsWay
  <2>2. \A d \in Elements(delivered') : d <= sent'
    BY <1>1, <1>2, <1>4 DEF Inv, InOrder
  <2> QED
    BY <1>1, <1>4, <1>6, <2>1, <2>2 DEF Inv, InOrder
<1>9. Accounted'
  BY <1>1, <1>2, <1>6 DEF Inv, Accounted
<1>10. NothingMissing'
  <2>1. 1 .. sent \subseteq refused \cup Elements(delivered) \cup OnItsWay
    BY <1>1 DEF Inv, NothingMissing
  <2>2. 1 .. sent' \subseteq refused' \cup Elements(delivered') \cup OnItsWay'
    BY <2>1, <1>1, <1>4, <1>6
  <2>3. \A x \in OnItsWay : x = writing \/ writing < x
    BY <1>5 DEF OnItsWay
  <2>4. 1 .. writing \subseteq refused \cup Elements(delivered')
    BY <2>1, <2>3, <1>2, <1>4 DEF Packet
  <2>5. \A d \in Elements(delivered') : 1 .. d \subseteq refused' \cup Elements(delivered')
    BY <2>4, <1>1, <1>4 DEF Inv, NothingMissing
  <2> QED
    BY <2>2, <2>5, <1>1 DEF NothingMissing
<1> QED
  BY <1>7, <1>8, <1>9, <1>10 DEF Inv

\* When the write coroutine ends, the packet it was writing and those in the channel are freed.
LEMMA WriterEndKeepsInv ==
  ASSUME Inv, WriteFails \/ ReceiveFails
  PROVE  Inv'
<1> USE Packets
<1> DEFINE gone == ({writing} \ {None}) \cup Elements(channel)
<1>1. PICK S \in {{writing}, {}} :
        /\ WriterEnds(S)
        /\ S = {writing} => writer = "write"
        /\ S = {} => writer = "receive"
  BY DEF WriteFails, ReceiveFails
<1>2. /\ sent' = sent /\ posted' = posted /\ channel' = <<>> /\ refused' = refused
      /\ open' = open /\ socket' = FALSE /\ alive' = alive /\ reader' = reader
      /\ writing' = None /\ writer' = "ended" /\ delivered' = delivered
      /\ freed' = [q \in Large |-> IF q \in S \cup Elements(channel) THEN freed[q] + 1
                                   ELSE freed[q]]
  BY <1>1 DEF WriterEnds, Free
<1>3. S \cup Elements(channel) = gone
  BY <1>1 DEF Inv, NothingMissing
<1>4. \A x \in gone : x \notin Elements(posted) /\ x \in OnItsWay /\ x <= sent
  BY DEF Inv, InOrder, OnItsWay, Packet
<1>5. Elements(channel') = {} /\ Increasing(channel') /\ channel' \in Seq(Packet)
  BY <1>2, ElementsOfQueue
<1>6. OnItsWay' = OnItsWay \ gone
  BY <1>2, <1>4, <1>5 DEF OnItsWay
<1>7. TypeOK'
  <2>1. freed \in [Large -> Nat]
    BY DEF Inv, TypeOK
  <2>2. freed' \in [Large -> Nat]
    BY <1>2, <2>1
  <2> QED
    BY <1>2, <1>5, <2>2 DEF Inv, TypeOK, Packet
<1>8. InOrder'
  BY <1>2, <1>5, <1>6 DEF Inv, InOrder
<1>9. Accounted'
  <2> HIDE DEF gone
  <2> SUFFICES ASSUME NEW q \in Large
               PROVE  freed'[q] = IF q <= sent' /\ q \notin OnItsWay' THEN 1 ELSE 0
    BY DEF Accounted
  <2>1. freed[q] = IF q <= sent /\ q \notin OnItsWay THEN 1 ELSE 0
    BY DEF Inv, Accounted
  <2>2. freed'[q] = IF q \in gone THEN freed[q] + 1 ELSE freed[q]
    BY <1>2, <1>3
  <2> QED
    BY <2>1, <2>2, <1>2, <1>4, <1>6
<1>10. NothingMissing'
  BY <1>2 DEF Inv, NothingMissing
<1> QED
  BY <1>7, <1>8, <1>9, <1>10 DEF Inv

\* The other steps leave the packets alone.
LEMMA ReaderKeepsInv ==
  ASSUME Inv, FallAsleep \/ WakeUp \/ ReadFails
  PROVE  Inv'
<1>1. /\ sent' = sent /\ posted' = posted /\ channel' = channel /\ memory' = memory
      /\ writer' = writer /\ writing' = writing /\ delivered' = delivered
      /\ alive' = alive /\ socket' \in BOOLEAN /\ open' \in BOOLEAN
      /\ reader' \in {"reading", "asleep", "ended"}
  BY DEF FallAsleep, WakeUp, ReadFails, Inv, TypeOK
<1>2. TypeOK'
  BY <1>1 DEF Inv, TypeOK, memory
<1>3. OnItsWay' = OnItsWay
  BY <1>1 DEF OnItsWay
<1> QED
  BY <1>1, <1>2, <1>3 DEF Inv, InOrder, Accounted, NothingMissing, memory

\* The destructor frees what was put into the channel after the write coroutine's end.
LEMMA DestroyKeepsInv ==
  ASSUME Inv, Destroy
  PROVE  Inv'
<1> USE Packets
<1>1. /\ sent' = sent /\ posted' = posted /\ channel' = <<>> /\ refused' = refused
      /\ open' = FALSE /\ socket' = FALSE /\ alive' = FALSE /\ reader' = reader
      /\ writing' = writing /\ writer = "ended" /\ writer' = writer /\ delivered' = delivered
      /\ posted = <<>>
      /\ freed' = [q \in Large |-> IF q \in Elements(channel) THEN freed[q] + 1 ELSE freed[q]]
  BY DEF Destroy, Free
<1>2. writing = None /\ Elements(posted) = {}
  BY <1>1, ElementsOfQueue DEF Inv, NothingMissing
<1>3. Elements(channel') = {} /\ Increasing(channel') /\ channel' \in Seq(Packet)
  BY <1>1, ElementsOfQueue
<1>4. OnItsWay = Elements(channel) /\ OnItsWay' = {}
  BY <1>1, <1>2, <1>3 DEF OnItsWay
<1>5. TypeOK'
  <2>1. freed \in [Large -> Nat]
    BY DEF Inv, TypeOK
  <2>2. freed' \in [Large -> Nat]
    BY <1>1, <2>1
  <2> QED
    BY <1>1, <1>3, <2>2 DEF Inv, TypeOK, Packet
<1>6. InOrder'
  BY <1>1, <1>2, <1>3, <1>4 DEF Inv, InOrder
<1>7. Accounted'
  <2>1. \A q \in Elements(channel) : q <= sent
    BY <1>4 DEF Inv, InOrder
  <2> SUFFICES ASSUME NEW q \in Large
               PROVE  freed'[q] = IF q <= sent' /\ q \notin OnItsWay' THEN 1 ELSE 0
    BY DEF Accounted
  <2>2. freed[q] = IF q <= sent /\ q \notin Elements(channel) THEN 1 ELSE 0
    BY <1>4 DEF Inv, Accounted
  <2>3. freed'[q] = IF q \in Elements(channel) THEN freed[q] + 1 ELSE freed[q]
    BY <1>1
  <2> QED
    BY <2>1, <2>2, <2>3, <1>1, <1>4
<1>8. NothingMissing'
  BY <1>1 DEF Inv, NothingMissing
<1> QED
  BY <1>5, <1>6, <1>7, <1>8 DEF Inv

-----------------------------------------------------------------------------
(* The invariant, and the properties it implies.                           *)

\* The invariant holds in every state of every behaviour.
THEOREM PacketsAccountedFor == Spec => []Inv
<1>1. Init => Inv
  BY InvAtFirst
<1>2. Inv /\ [Next]_vars => Inv'
  <2> SUFFICES ASSUME Inv, [Next]_vars
               PROVE  Inv'
    OBVIOUS
  <2>1. CASE Send
    BY <2>1, SendKeepsInv
  <2>2. CASE Posted
    BY <2>2, PostedKeepsInv
  <2>3. CASE Writer
    BY <2>3, ReceiveKeepsInv, WriteKeepsInv, WriterEndKeepsInv DEF Writer
  <2>4. CASE FallAsleep \/ WakeUp \/ ReadFails
    BY <2>4, ReaderKeepsInv
  <2>5. CASE Destroy
    BY <2>5, DestroyKeepsInv
  <2>6. CASE UNCHANGED vars
    <3>1. OnItsWay' = OnItsWay
      BY <2>6 DEF vars, OnItsWay
    <3> QED
      BY <2>6, <3>1 DEF vars, memory, Inv, TypeOK, InOrder, Accounted, NothingMissing
  <2> QED
    BY <2>1, <2>2, <2>3, <2>4, <2>5, <2>6 DEF Next
<1> QED
  BY <1>1, <1>2, PTL DEF Spec

\* FreedExactlyOnce: ClientSession frees the heap buffer of every large packet once,
\* at one of the six places where a packet may end.
THEOREM NoLeakNoDoubleFree == Spec => []FreedExactlyOnce
<1>1. Inv => FreedExactlyOnce
  BY Packets DEF Inv, Accounted, FreedExactlyOnce
<1> QED
  BY <1>1, PacketsAccountedFor, PTL

\* DeliveredInOrder: WriteLoop writes the packets in the order of the calls of Send,
\* and leaves out only those that the channel refused.
THEOREM InOrderOrRefused == Spec => []DeliveredInOrder
<1>1. Inv => DeliveredInOrder
  BY DEF Inv, InOrder, NothingMissing, DeliveredInOrder
<1> QED
  BY <1>1, PacketsAccountedFor, PTL
=============================================================================
