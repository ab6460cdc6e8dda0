---------------------------- MODULE RelayProofs ----------------------------
(***************************************************************************)
(* Proofs about Relay: for every value of the constants its bytes stay in *)
(* order and complete, its counters are exact, and it implements the      *)
(* abstract byte tunnel.                                                   *)
(***************************************************************************)
EXTENDS Relay, SequenceTheorems, TLAPS

\* Stream(n) is a sequence of n units: what a peer has sent is a value of the
\* type of the buffers it is copied through.
LEMMA StreamSeq ==
    ASSUME NEW n \in 0..MaxSent
    PROVE  Stream(n) \in Seq(Units) /\ Len(Stream(n)) = n
<1>1. n \in Nat /\ Stream(n) \in [1..n -> Units]
    BY ConstantsAssumption DEF Stream, Units
<1>2. Stream(n) \in Seq(Units)
    BY <1>1, SeqDef
<1>3. DOMAIN Stream(n) = 1..n
    BY DEF Stream
<1> QED BY <1>1, <1>2, <1>3, LenProperties

\* One more unit sent extends the stream by its number (the kernel appends to
\* the receive buffer).
LEMMA StreamGrows ==
    ASSUME NEW n \in 0..MaxSent, n < MaxSent
    PROVE  Append(Stream(n), n + 1) = Stream(n + 1)
<1>1. /\ n \in Int /\ MaxSent \in Int
      /\ n + 1 \in 0..MaxSent /\ n + 1 \in Units
    BY ConstantsAssumption DEF Units
<1>2. /\ Stream(n) \in Seq(Units) /\ Len(Stream(n)) = n
      /\ Stream(n + 1) \in Seq(Units) /\ Len(Stream(n + 1)) = n + 1
    BY <1>1, StreamSeq
<1>3. /\ Append(Stream(n), n + 1) \in Seq(Units)
      /\ Len(Append(Stream(n), n + 1)) = n + 1
      /\ \A i \in 1..n : Append(Stream(n), n + 1)[i] = Stream(n)[i]
      /\ Append(Stream(n), n + 1)[n + 1] = n + 1
    BY <1>1, <1>2, AppendProperties
<1>4. ASSUME NEW i \in 1..(n + 1)
      PROVE  Append(Stream(n), n + 1)[i] = Stream(n + 1)[i]
    <2>1. CASE i = n + 1
        BY <1>1, <1>3, <2>1 DEF Stream
    <2>2. CASE i # n + 1
        <3>1. i \in 1..n
            BY <1>1, <2>2
        <3> QED BY <1>1, <1>3, <3>1 DEF Stream
    <2> QED BY <2>1, <2>2
<1> QED BY <1>2, <1>3, <1>4, SeqEqual

\* A unit that arrives goes behind everything the relay holds.
LEMMA ArriveAtEnd ==
    ASSUME NEW o \in Seq(Units), NEW h \in Seq(Units), NEW b \in Seq(Units),
           NEW x \in Units
    PROVE  o \o h \o Append(b, x) = Append(o \o h \o b, x)
<1>1. o \o h \in Seq(Units) /\ o \o h \o b \in Seq(Units) /\ <<x>> \in Seq(Units)
    BY ConcatProperties
<1>2. Append(b, x) = b \o <<x>> /\ Append(o \o h \o b, x) = (o \o h \o b) \o <<x>>
    BY <1>1, AppendIsConcat
<1> QED BY <1>1, <1>2, ConcatAssociative

\* read takes a prefix of the receive buffer: with the write buffer empty, no
\* unit is lost, doubled or moved past another.
LEMMA TakePrefix ==
    ASSUME NEW o \in Seq(Units), NEW b \in Seq(Units), NEW n \in 1..Len(b)
    PROVE  /\ SubSeq(b, 1, n) \in Seq(Units) /\ Len(SubSeq(b, 1, n)) = n
           /\ SubSeq(b, n + 1, Len(b)) \in Seq(Units)
           /\ o \o SubSeq(b, 1, n) \o SubSeq(b, n + 1, Len(b)) = o \o <<>> \o b
<1> DEFINE front == SubSeq(b, 1, n)
           rest == SubSeq(b, n + 1, Len(b))
<1>1. Len(b) \in Nat /\ n \in Int /\ n + 1 \in Int /\ Len(b) \in Int
    BY LenProperties
<1>2. \A i \in 1..Len(b) : b[i] \in Units
    BY ElementOfSeq
<1>3. front \in Seq(Units) /\ Len(front) = n
    BY <1>1, <1>2, SubSeqProperties
<1>4. rest \in Seq(Units)
    BY <1>1, <1>2, SubSeqProperties
<1>5. front \o rest = SubSeq(b, 1, Len(b))
    BY <1>1, ConcatAdjacentSubSeq
<1>6. SubSeq(b, 1, Len(b)) = b /\ o \o <<>> = o
    BY SubSeqFull, ConcatEmptySeq
<1> HIDE DEF front, rest
<1>7. (o \o front) \o rest = o \o (front \o rest)
    BY <1>3, <1>4, ConcatAssociative
<1>8. o \o front \o rest = o \o <<>> \o b
    BY <1>5, <1>6, <1>7
<1> QED BY <1>3, <1>4, <1>8 DEF front, rest

\* A write moves the first unit of the write buffer to the end of what is out.
LEMMA MoveHead ==
    ASSUME NEW o \in Seq(Units), NEW h \in Seq(Units), NEW b \in Seq(Units),
           h # <<>>
    PROVE  /\ Head(h) \in Units /\ Tail(h) \in Seq(Units)
           /\ Len(Tail(h)) = Len(h) - 1
           /\ Append(o, Head(h)) \in Seq(Units)
           /\ Len(Append(o, Head(h))) = Len(o) + 1
           /\ Append(o, Head(h)) \o Tail(h) \o b = o \o h \o b
<1>1. /\ Head(h) \in Units /\ Tail(h) \in Seq(Units) /\ <<Head(h)>> \in Seq(Units)
      /\ Len(Tail(h)) = Len(h) - 1 /\ Len(h) \in Nat \ {0}
    BY HeadTailProperties, EmptySeq
<1>2. Append(o, Head(h)) = o \o <<Head(h)>>
    BY <1>1, AppendIsConcat
<1>3. h = <<Head(h)>> \o Tail(h)
    <2>1. 1 \in 1..Len(h) /\ Len(h) \in 1..Len(h)
        BY <1>1
    <2>2. SubSeq(h, 1, Len(h)) = <<h[1]>> \o SubSeq(h, 2, Len(h))
        BY <2>1, SubSeqRecursiveFirst
    <2>3. SubSeq(h, 1, Len(h)) = h /\ Tail(h) = SubSeq(h, 2, Len(h)) /\ Head(h) = h[1]
        BY SubSeqFull, TailIsSubSeq
    <2> QED BY <2>2, <2>3
<1>4. (o \o <<Head(h)>>) \o Tail(h) = o \o h
    BY <1>1, <1>3, ConcatAssociative
<1>5. Append(o, Head(h)) \in Seq(Units) /\ Len(Append(o, Head(h))) = Len(o) + 1
    BY <1>1, AppendProperties
<1> QED BY <1>1, <1>2, <1>4, <1>5

-----------------------------------------------------------------------------
(* The inductive invariant.  TypeOK alone is not inductive: that WriteSome  *)
(* finds a unit to write needs CountersExact, that nothing is sent beyond   *)
(* what is bounded and in order needs StreamIntact.                         *)

IInv == TypeOK /\ StreamIntact /\ CountersExact

\* Before relay_data's first poll only the leftovers exist, all of them in the
\* write buffers.
LEMMA InitIInv == Init => IInv
<1> SUFFICES ASSUME Init PROVE IInv
    OBVIOUS
<1>1. \A p \in Peers : sent[p] \in 0..MaxLeftover /\ sent[p] \in 0..MaxSent
    BY ConstantsAssumption DEF Init
<1>2. <<>> \in Seq(Units) /\ Len(<<>>) = 0
    BY EmptySeq
<1>3. \A p \in Peers : Stream(sent[p]) \in Seq(Units) /\ Len(Stream(sent[p])) = sent[p]
    BY <1>1, StreamSeq
<1>4. TypeOK
    BY <1>1, <1>2, <1>3, ConstantsAssumption DEF Init, TypeOK, NoTimer
<1>5. StreamIntact
    <2> SUFFICES ASSUME NEW p \in Peers
                 PROVE  out[p] \o held[p] \o inbox[p] = Stream(sent[p])
        BY DEF StreamIntact
    <2>1. out[p] = <<>> /\ inbox[p] = <<>> /\ held[p] = Stream(sent[p])
        BY DEF Init
    <2> QED BY <2>1, <1>3, ConcatEmptySeq
<1>6. CountersExact
    <2> SUFFICES ASSUME NEW p \in Peers
                 PROVE  /\ counted[p] + batch[p] = Len(out[p]) + Len(held[p])
                        /\ batch[p] >= Len(held[p])
                        /\ (pc[p] = "write") <=> (held[p] # <<>>)
                        /\ (held[p] = <<>>) <=> (batch[p] = 0)
        BY DEF CountersExact
    <2>1. /\ out[p] = <<>> /\ held[p] = Stream(sent[p]) /\ batch[p] = sent[p]
          /\ counted[p] = 0 /\ pc[p] = IF sent[p] > 0 THEN "write" ELSE "read"
        BY DEF Init
    <2>2. Len(held[p]) = sent[p] /\ sent[p] \in Nat /\ held[p] \in Seq(Units)
        BY <2>1, <1>1, <1>3
    <2>3. (held[p] = <<>>) <=> (sent[p] = 0)
        BY <2>2, EmptySeq
    <2> QED BY <2>1, <2>2, <2>3, <1>2
<1> QED BY <1>4, <1>5, <1>6 DEF IInv

\* Steps that touch no buffer, counter or program counter keep the invariant.
LEMMA FrameKeepsIInv ==
    ASSUME IInv, TypeOK',
           UNCHANGED <<sent, inbox, held, batch, out, counted, pc>>
    PROVE  IInv'
BY DEF IInv, StreamIntact, CountersExact

\* A peer's send extends its stream by one unit at the end of the inbox.
LEMMA PeerSendKeepsIInv ==
    ASSUME IInv, NEW p \in Peers, PeerSend(p)
    PROVE  IInv'
<1>1. /\ sent[p] \in 0..MaxSent /\ sent[p] < MaxSent /\ sent[p] + 1 \in Units
      /\ sent[p] + 1 \in 0..MaxSent
      /\ inbox[p] \in Seq(Units) /\ out[p] \in Seq(Units) /\ held[p] \in Seq(Units)
    BY ConstantsAssumption DEF IInv, TypeOK, PeerSend, Units
<1>2. Append(inbox[p], sent[p] + 1) \in Seq(Units)
    BY <1>1, AppendProperties
<1>3. TypeOK'
    BY <1>1, <1>2 DEF IInv, TypeOK, PeerSend
<1>4. StreamIntact'
    <2> SUFFICES ASSUME NEW q \in Peers
                 PROVE  out'[q] \o held'[q] \o inbox'[q] = Stream(sent'[q])
        BY DEF StreamIntact
    <2>1. CASE q = p
        <3>1. /\ out'[q] = out[p] /\ held'[q] = held[p] /\ sent'[q] = sent[p] + 1
              /\ inbox'[q] = Append(inbox[p], sent[p] + 1)
            BY <2>1 DEF PeerSend, IInv, TypeOK
        <3>2. out[p] \o held[p] \o inbox[p] = Stream(sent[p])
            BY DEF IInv, StreamIntact
        <3>3. out[p] \o held[p] \o Append(inbox[p], sent[p] + 1)
                = Append(out[p] \o held[p] \o inbox[p], sent[p] + 1)
            BY <1>1, ArriveAtEnd
        <3>4. Append(Stream(sent[p]), sent[p] + 1) = Stream(sent[p] + 1)
            BY <1>1, StreamGrows
        <3> QED BY <3>1, <3>2, <3>3, <3>4
    <2>2. CASE q # p
        <3>1. /\ out'[q] = out[q] /\ held'[q] = held[q] /\ sent'[q] = sent[q]
              /\ inbox'[q] = inbox[q]
            BY <2>2 DEF PeerSend, IInv, TypeOK
        <3> QED BY <3>1 DEF IInv, StreamIntact
    <2> QED BY <2>1, <2>2
<1>5. CountersExact'
    BY DEF PeerSend, IInv, CountersExact
<1> QED BY <1>3, <1>4, <1>5 DEF IInv

\* A read takes a prefix of the inbox into the empty write buffer.
LEMMA ReadSomeKeepsIInv ==
    ASSUME IInv, NEW p \in Peers, ReadSome(p)
    PROVE  IInv'
<1> DEFINE n == Lesser(Len(inbox[p]), RelayBufSize)
<1>1. inbox[p] \in Seq(Units) /\ inbox[p] # <<>> /\ pc[p] = "read"
    BY DEF ReadSome, At, IInv, TypeOK
<1>2. Len(inbox[p]) \in Nat \ {0}
    BY <1>1, EmptySeq
<1>3. n \in 1..Len(inbox[p]) /\ n \in Nat /\ n > 0
    BY <1>2, ConstantsAssumption DEF Lesser
<1>4. held[p] = <<>> /\ batch[p] = 0
    BY <1>1 DEF IInv, CountersExact
<1>5. out[p] \in Seq(Units)
    BY DEF IInv, TypeOK
<1> DEFINE front == SubSeq(inbox[p], 1, n)
           rest == SubSeq(inbox[p], n + 1, Len(inbox[p]))
<1>6. /\ front \in Seq(Units) /\ Len(front) = n /\ rest \in Seq(Units)
      /\ out[p] \o front \o rest = out[p] \o <<>> \o inbox[p]
    BY <1>1, <1>3, <1>5, TakePrefix
<1>7. front # <<>>
    BY <1>3, <1>6, EmptySeq
<1>8. /\ held' = [held EXCEPT ![p] = front]
      /\ inbox' = [inbox EXCEPT ![p] = rest]
      /\ batch' = [batch EXCEPT ![p] = n]
      /\ pc' = [pc EXCEPT ![p] = "write"]
      /\ timer' = [timer EXCEPT ![p] = WriteTimeout]
      /\ UNCHANGED <<peer, sent, out, unread, counted, linger_timeout, relay>>
    BY DEF ReadSome, peerVars
<1> HIDE DEF n, front, rest
<1>9. TypeOK'
    <2>1. timer' \in [Peers -> 0..(IdleTimeout + WriteTimeout)]
        <3>1. WriteTimeout \in 0..(IdleTimeout + WriteTimeout)
            BY ConstantsAssumption
        <3> QED BY <1>8, <3>1 DEF IInv, TypeOK
    <2>2. /\ held' \in [Peers -> Seq(Units)] /\ inbox' \in [Peers -> Seq(Units)]
          /\ batch' \in [Peers -> Nat]
          /\ pc' \in [Peers -> {"read", "write", "done"}]
        BY <1>3, <1>6, <1>8 DEF IInv, TypeOK
    <2> QED BY <1>8, <2>1, <2>2 DEF IInv, TypeOK
<1>10. StreamIntact'
    <2> SUFFICES ASSUME NEW q \in Peers
                 PROVE  out'[q] \o held'[q] \o inbox'[q] = Stream(sent'[q])
        BY DEF StreamIntact
    <2>1. CASE q = p
        <3>1. out'[q] = out[p] /\ held'[q] = front /\ inbox'[q] = rest /\ sent'[q] = sent[p]
            BY <2>1, <1>8 DEF IInv, TypeOK
        <3>2. out[p] \o held[p] \o inbox[p] = Stream(sent[p])
            BY DEF IInv, StreamIntact
        <3> QED BY <3>1, <3>2, <1>4, <1>6
    <2>2. CASE q # p
        BY <2>2, <1>8 DEF IInv, TypeOK, StreamIntact
    <2> QED BY <2>1, <2>2
<1>11. CountersExact'
    <2> SUFFICES ASSUME NEW q \in Peers
                 PROVE  /\ counted'[q] + batch'[q] = Len(out'[q]) + Len(held'[q])
                        /\ batch'[q] >= Len(held'[q])
                        /\ (pc'[q] = "write") <=> (held'[q] # <<>>)
                        /\ (held'[q] = <<>>) <=> (batch'[q] = 0)
        BY DEF CountersExact
    <2>1. CASE q = p
        <3>1. /\ out'[q] = out[p] /\ held'[q] = front /\ batch'[q] = n
              /\ counted'[q] = counted[p] /\ pc'[q] = "write"
            BY <2>1, <1>8 DEF IInv, TypeOK
        <3>2. counted[p] + 0 = Len(out[p]) + 0
            BY <1>4, EmptySeq DEF IInv, CountersExact
        <3>3. counted[p] \in Nat /\ Len(out[p]) \in Nat
            BY <1>5, LenProperties DEF IInv, TypeOK
        <3> QED BY <3>1, <3>2, <3>3, <1>3, <1>6, <1>7
    <2>2. CASE q # p
        BY <2>2, <1>8 DEF IInv, TypeOK, CountersExact
    <2> QED BY <2>1, <2>2
<1> QED BY <1>9, <1>10, <1>11 DEF IInv

\* A write moves the head of the write buffer out; the last one also settles
\* the counters.
LEMMA WriteSomeKeepsIInv ==
    ASSUME IInv, NEW p \in Peers, WriteSome(p)
    PROVE  IInv'
<1> DEFINE o == out[p]
           h == held[p]
           b == inbox[p]
           last == Len(h) = 1
<1>1. /\ o \in Seq(Units) /\ h \in Seq(Units) /\ b \in Seq(Units)
      /\ batch[p] \in Nat /\ counted[p] \in Nat
    BY DEF IInv, TypeOK
<1>2. /\ h # <<>> /\ counted[p] + batch[p] = Len(o) + Len(h)
      /\ batch[p] >= Len(h) /\ o \o h \o b = Stream(sent[p])
    BY DEF WriteSome, At, IInv, CountersExact, StreamIntact
<1> HIDE DEF o, h, b, last
<1>3. /\ Head(h) \in Units /\ Tail(h) \in Seq(Units) /\ Len(Tail(h)) = Len(h) - 1
      /\ Append(o, Head(h)) \in Seq(Units)
      /\ Len(Append(o, Head(h))) = Len(o) + 1
      /\ Append(o, Head(h)) \o Tail(h) \o b = o \o h \o b
    BY <1>1, <1>2, MoveHead
<1>4. Len(h) \in Nat /\ Len(h) > 0 /\ Len(o) \in Nat
    BY <1>1, <1>2, EmptySeq, LenProperties
<1>4a. (Len(h) > 1) <=> ~last
    <2>1. \A k \in Nat : k > 0 => (k > 1 <=> k # 1)
        OBVIOUS
    <2> QED BY <1>4, <2>1 DEF last
<1>5. (Tail(h) = <<>>) <=> last
    <2>1. (Tail(h) = <<>>) <=> (Len(Tail(h)) = 0)
        BY <1>3, EmptySeq
    <2> QED BY <2>1, <1>3, <1>4 DEF last
<1> USE DEF o, h, b, last
<1>6. /\ out' = [out EXCEPT ![p] = Append(o, Head(h))]
      /\ held' = [held EXCEPT ![p] = Tail(h)]
      /\ unread[p] < SockCap
      /\ unread' = [unread EXCEPT ![p] = unread[p] + 1]
      /\ counted' = [counted EXCEPT ![p] = IF last THEN counted[p] + batch[p] ELSE counted[p]]
      /\ batch' = [batch EXCEPT ![p] = IF last THEN 0 ELSE batch[p]]
      /\ pc' = [pc EXCEPT ![p] = IF last THEN "read" ELSE "write"]
      /\ timer' = [timer EXCEPT ![p] = IF last THEN IdleTimeout ELSE timer[p]]
      /\ UNCHANGED <<peer, sent, inbox, linger_timeout, relay>>
    <2>1. Len(held[p]) > 1 <=> ~last
        BY <1>4a
    <2> HIDE DEF last
    <2> QED BY <2>1 DEF WriteSome, At, peerVars, IInv, TypeOK
<1> HIDE DEF last
<1>7. TypeOK'
    <2>1. timer' \in [Peers -> 0..(IdleTimeout + WriteTimeout)]
        <3>1. IdleTimeout \in 0..(IdleTimeout + WriteTimeout)
            BY ConstantsAssumption
        <3> QED BY <1>6, <3>1 DEF IInv, TypeOK
    <2>2. unread' \in [Peers -> 0..SockCap]
        <3>1. unread[p] + 1 \in 0..SockCap
            BY <1>6, ConstantsAssumption DEF IInv, TypeOK
        <3> QED BY <1>6, <3>1 DEF IInv, TypeOK
    <2>3. out' \in [Peers -> Seq(Units)] /\ held' \in [Peers -> Seq(Units)]
        BY <1>3, <1>6 DEF IInv, TypeOK
    <2>4. /\ counted' \in [Peers -> Nat] /\ batch' \in [Peers -> Nat]
          /\ pc' \in [Peers -> {"read", "write", "done"}]
        BY <1>1, <1>6 DEF IInv, TypeOK
    <2> QED BY <1>6, <2>1, <2>2, <2>3, <2>4 DEF IInv, TypeOK
<1>8. StreamIntact'
    <2> SUFFICES ASSUME NEW q \in Peers
                 PROVE  out'[q] \o held'[q] \o inbox'[q] = Stream(sent'[q])
        BY DEF StreamIntact
    <2>1. CASE q = p
        <3>1. /\ out'[q] = Append(o, Head(h)) /\ held'[q] = Tail(h)
              /\ inbox'[q] = b /\ sent'[q] = sent[p]
            BY <2>1, <1>6 DEF IInv, TypeOK
        <3> QED BY <3>1, <1>2, <1>3
    <2>2. CASE q # p
        <3>1. /\ out'[q] = out[q] /\ held'[q] = held[q] /\ sent'[q] = sent[q]
              /\ inbox'[q] = inbox[q]
            BY <2>2, <1>6 DEF IInv, TypeOK
        <3> QED BY <3>1 DEF IInv, StreamIntact
    <2> QED BY <2>1, <2>2
<1>9. CountersExact'
    <2> SUFFICES ASSUME NEW q \in Peers
                 PROVE  /\ counted'[q] + batch'[q] = Len(out'[q]) + Len(held'[q])
                        /\ batch'[q] >= Len(held'[q])
                        /\ (pc'[q] = "write") <=> (held'[q] # <<>>)
                        /\ (held'[q] = <<>>) <=> (batch'[q] = 0)
        BY DEF CountersExact
    <2>1. CASE q = p
        <3>1. /\ out'[q] = Append(o, Head(h)) /\ held'[q] = Tail(h)
              /\ counted'[q] = IF last THEN counted[p] + batch[p] ELSE counted[p]
              /\ batch'[q] = IF last THEN 0 ELSE batch[p]
              /\ pc'[q] = IF last THEN "read" ELSE "write"
            BY <2>1, <1>6 DEF IInv, TypeOK
        <3>2. last => Len(h) = 1
            BY DEF last
        <3>3. ~last => Len(h) > 1
            BY <1>4a
        <3>4. last => Len(Tail(h)) = 0
            BY <3>2, <1>3
        <3>5. ~last => batch[p] > 0 /\ batch[p] >= Len(h) - 1
            BY <3>3, <1>1, <1>2, <1>4
        <3> HIDE DEF o, h, b
        <3> QED BY <3>1, <3>2, <3>4, <3>5, <1>1, <1>2, <1>3, <1>4, <1>5
    <2>2. CASE q # p
        <3>1. /\ out'[q] = out[q] /\ held'[q] = held[q] /\ batch'[q] = batch[q]
              /\ counted'[q] = counted[q] /\ pc'[q] = pc[q]
            BY <2>2, <1>6 DEF IInv, TypeOK
        <3> QED BY <3>1 DEF IInv, CountersExact
    <2> QED BY <2>1, <2>2
<1> QED BY <1>7, <1>8, <1>9 DEF IInv

\* Every step of relay_data and of its peers keeps the invariant.
LEMMA NextKeepsIInv == IInv /\ [Next]_vars => IInv'
<1> SUFFICES ASSUME IInv, [Next]_vars PROVE IInv'
    OBVIOUS
<1>1. ASSUME NEW p \in Peers, PeerSend(p) PROVE IInv'
    BY <1>1, PeerSendKeepsIInv
<1>2. ASSUME NEW p \in Peers, PeerFin(p) \/ PeerReset(p) PROVE IInv'
    <2>1. TypeOK' /\ UNCHANGED <<sent, inbox, held, batch, out, counted, pc>>
        BY <1>2 DEF IInv, TypeOK, PeerFin, PeerReset
    <2> QED BY <2>1, FrameKeepsIInv
<1>3. ASSUME NEW p \in Peers, PeerConsume(p) PROVE IInv'
    <2>1. unread[p] \in 0..SockCap /\ unread[p] > 0
        BY <1>3 DEF IInv, TypeOK, PeerConsume
    <2>2. unread[p] - 1 \in 0..SockCap
        BY <2>1, ConstantsAssumption
    <2>3. TypeOK' /\ UNCHANGED <<sent, inbox, held, batch, out, counted, pc>>
        BY <1>3, <2>2 DEF IInv, TypeOK, PeerConsume
    <2> QED BY <2>3, FrameKeepsIInv
<1>4. ASSUME NEW p \in Peers, ReadSome(p) PROVE IInv'
    BY <1>4, ReadSomeKeepsIInv
<1>5. ASSUME NEW p \in Peers, ReadEof(p) PROVE IInv'
    <2>1. TypeOK'
        <3>1. 0 \in 0..(IdleTimeout + WriteTimeout) /\ LingerTimeout \in 0..LingerTimeout
            BY ConstantsAssumption
        <3> QED BY <1>5, <3>1 DEF IInv, TypeOK, ReadEof, peerVars
    <2>2. UNCHANGED <<sent, inbox, held, batch, out, counted>>
        BY <1>5 DEF ReadEof, peerVars
    <2>3. StreamIntact'
        BY <2>2 DEF IInv, StreamIntact
    <2>4. \A q \in Peers : (pc'[q] = "write") <=> (pc[q] = "write")
        BY <1>5 DEF ReadEof, At, IInv, TypeOK
    <2>5. CountersExact'
        BY <2>2, <2>4 DEF IInv, CountersExact
    <2> QED BY <2>1, <2>3, <2>5 DEF IInv
<1>6. ASSUME HalfFails PROVE IInv'
    <2>1. TypeOK' /\ UNCHANGED <<sent, inbox, held, batch, out, counted, pc>>
        BY <1>6 DEF IInv, TypeOK, HalfFails, peerVars
    <2> QED BY <2>1, FrameKeepsIInv
<1>7. ASSUME NEW p \in Peers, WriteSome(p) PROVE IInv'
    BY <1>7, WriteSomeKeepsIInv
<1>8. ASSUME LingerFires PROVE IInv'
    <2>1. TypeOK' /\ UNCHANGED <<sent, inbox, held, batch, out, counted, pc>>
        BY <1>8 DEF IInv, TypeOK, LingerFires, peerVars
    <2> QED BY <2>1, FrameKeepsIInv
<1>9. ASSUME Tick PROVE IInv'
    <2>1. \A p \in Peers : Elapse(timer[p]) \in 0..(IdleTimeout + WriteTimeout)
        BY ConstantsAssumption DEF IInv, TypeOK, Elapse
    <2>2. Elapse(linger_timeout) \in {NoTimer} \union 0..LingerTimeout
        BY ConstantsAssumption DEF IInv, TypeOK, Elapse, NoTimer
    <2>3. TypeOK' /\ UNCHANGED <<sent, inbox, held, batch, out, counted, pc>>
        BY <1>9, <2>1, <2>2 DEF IInv, TypeOK, Tick, peerVars
    <2> QED BY <2>3, FrameKeepsIInv
<1>10. CASE UNCHANGED vars
    <2>1. TypeOK' /\ UNCHANGED <<sent, inbox, held, batch, out, counted, pc>>
        BY <1>10 DEF IInv, TypeOK, vars
    <2> QED BY <2>1, FrameKeepsIInv
<1> QED
    BY <1>1, <1>2, <1>3, <1>4, <1>5, <1>6, <1>7, <1>8, <1>9, <1>10
    DEF Next, Half, ReadError, WriteError, IdleExpires, WriteExpires

\* The invariant holds throughout.
THEOREM Invariant == Spec => []IInv
BY InitIInv, NextKeepsIInv, PTL DEF Spec

\* relay_data's locals keep their types whatever the interleaving.
THEOREM TypeCorrect == Spec => []TypeOK
<1>1. IInv => TypeOK
    BY DEF IInv
<1> QED BY <1>1, Invariant, PTL

\* No byte of either direction is lost, doubled or reordered in the relay.
THEOREM StreamStaysIntact == Spec => []StreamIntact
<1>1. IInv => StreamIntact
    BY DEF IInv
<1> QED BY <1>1, Invariant, PTL

\* bytes_sent and bytes_received are exact between writes.
THEOREM CountersStayExact == Spec => []CountersExact
<1>1. IInv => CountersExact
    BY DEF IInv
<1> QED BY <1>1, Invariant, PTL

-----------------------------------------------------------------------------
(* The select loop's bookkeeping and the refinement.                       *)

\* A running relay has its linger sleep armed exactly while one half is over.
LEMMA LingerArmedStep == IInv /\ LingerArmed /\ [Next]_vars => LingerArmed'
<1> SUFFICES ASSUME IInv, LingerArmed, [Next]_vars, relay' = "running"
             PROVE  /\ (linger_timeout' # NoTimer) <=> (\E p \in Peers : pc'[p] = "done")
                    /\ \E p \in Peers : pc'[p] # "done"
    BY DEF LingerArmed
<1>0. pc \in [Peers -> {"read", "write", "done"}]
    BY DEF IInv, TypeOK
<1>1. CASE /\ UNCHANGED <<linger_timeout, relay>>
           /\ \A p \in Peers : pc'[p] = "done" <=> pc[p] = "done"
    BY <1>1 DEF LingerArmed
<1>2. ASSUME NEW p \in Peers, PeerSend(p) \/ PeerFin(p) \/ PeerReset(p) \/ PeerConsume(p)
      PROVE  /\ UNCHANGED <<linger_timeout, relay>>
             /\ \A q \in Peers : pc'[q] = "done" <=> pc[q] = "done"
    BY <1>2 DEF PeerSend, PeerFin, PeerReset, PeerConsume
<1>3. ASSUME NEW p \in Peers, ReadSome(p)
      PROVE  /\ UNCHANGED <<linger_timeout, relay>>
             /\ \A q \in Peers : pc'[q] = "done" <=> pc[q] = "done"
    BY <1>0, <1>3 DEF ReadSome, At, peerVars
<1>4. ASSUME NEW p \in Peers, WriteSome(p)
      PROVE  /\ UNCHANGED <<linger_timeout, relay>>
             /\ \A q \in Peers : pc'[q] = "done" <=> pc[q] = "done"
    <2>1. /\ UNCHANGED <<linger_timeout, relay>> /\ pc[p] = "write"
          /\ \/ pc' = pc
             \/ pc' = [pc EXCEPT ![p] = "read"]
        BY <1>4 DEF WriteSome, At, peerVars
    <2> QED BY <1>0, <2>1
<1>5. ASSUME NEW p \in Peers, ReadEof(p)
      PROVE  /\ (linger_timeout' # NoTimer) <=> (\E q \in Peers : pc'[q] = "done")
             /\ \E q \in Peers : pc'[q] # "done"
    <2>1. /\ pc' = [pc EXCEPT ![p] = "done"]
          /\ pc[Other(p)] # "done" /\ linger_timeout' = LingerTimeout
        BY <1>5 DEF ReadEof
    <2>2. Other(p) \in Peers /\ Other(p) # p
        BY DEF Other, Peers
    <2>3. pc'[p] = "done" /\ pc'[Other(p)] # "done"
        BY <1>0, <2>1, <2>2
    <2>4. LingerTimeout # NoTimer
        BY ConstantsAssumption DEF NoTimer
    <2> QED BY <2>1, <2>2, <2>3, <2>4
<1>6. ~HalfFails /\ ~LingerFires
    BY DEF HalfFails, LingerFires
<1>7. CASE Tick
    <2>1. (Elapse(linger_timeout) # NoTimer) <=> (linger_timeout # NoTimer)
        BY ConstantsAssumption DEF IInv, TypeOK, Elapse, NoTimer
    <2>2. /\ linger_timeout' = Elapse(linger_timeout)
          /\ UNCHANGED <<pc, relay>>
        BY <1>7 DEF Tick
    <2> QED BY <2>1, <2>2 DEF LingerArmed
<1>8. CASE UNCHANGED vars
    BY <1>1, <1>8 DEF vars
<1> QED
    BY <1>1, <1>2, <1>3, <1>4, <1>5, <1>6, <1>7, <1>8
    DEF Next, Half, ReadError, WriteError, IdleExpires, WriteExpires

\* The flags of the select loop and its linger sleep agree for every timeout.
THEOREM LingerStaysArmed == Spec => []LingerArmed
<1>1. Init => LingerArmed
    BY ConstantsAssumption DEF Init, LingerArmed, Peers
<1> QED BY <1>1, LingerArmedStep, Invariant, PTL DEF Spec

-----------------------------------------------------------------------------
(* Why a relay ends.  A half that is over has nothing left to pass on, and  *)
(* nothing comes after it: its peer has ended its stream.                   *)

DoneIsOver == \A p \in Peers : pc[p] = "done" => peer[p] # "open" /\ inbox[p] = <<>>

LEMMA DoneIsOverStep == IInv /\ DoneIsOver /\ [Next]_vars => DoneIsOver'
<1> SUFFICES ASSUME IInv, DoneIsOver, [Next]_vars
             PROVE  DoneIsOver'
    OBVIOUS
<1> USE DEF DoneIsOver
<1>0. /\ peer \in [Peers -> {"open", "fin", "reset"}] /\ pc \in [Peers -> {"read", "write", "done"}]
      /\ inbox \in [Peers -> Seq(Units)]
    BY DEF IInv, TypeOK
<1>1. ASSUME NEW p \in Peers, PeerSend(p) PROVE DoneIsOver'
    <2>1. /\ peer[p] = "open" /\ UNCHANGED <<peer, pc>>
          /\ inbox' = [inbox EXCEPT ![p] = Append(inbox[p], sent[p] + 1)]
        BY <1>1 DEF PeerSend
    <2> QED BY <2>1, <1>0
<1>2. ASSUME NEW p \in Peers, PeerFin(p) \/ PeerReset(p) PROVE DoneIsOver'
    BY <1>2, <1>0 DEF PeerFin, PeerReset
<1>3. ASSUME NEW p \in Peers, ReadSome(p) PROVE DoneIsOver'
    <2>1. /\ pc[p] = "read" /\ pc' = [pc EXCEPT ![p] = "write"] /\ UNCHANGED peer
          /\ \A q \in Peers : q # p => inbox'[q] = inbox[q]
        BY <1>3, <1>0 DEF ReadSome, At, peerVars
    <2> QED BY <2>1, <1>0
<1>4. ASSUME NEW p \in Peers, ReadEof(p) PROVE DoneIsOver'
    <2>1. /\ peer[p] = "fin" /\ inbox[p] = <<>> /\ UNCHANGED <<peer, inbox>>
          /\ pc' = [pc EXCEPT ![p] = "done"]
        BY <1>4 DEF ReadEof, peerVars
    <2> QED BY <2>1, <1>0
<1>5. ASSUME NEW p \in Peers, WriteSome(p) PROVE DoneIsOver'
    <2>1. /\ UNCHANGED <<peer, inbox>>
          /\ pc' = pc \/ pc' = [pc EXCEPT ![p] = "read"]
        BY <1>5 DEF WriteSome, peerVars
    <2> QED BY <2>1, <1>0
<1>6. ASSUME UNCHANGED <<peer, inbox, pc>> PROVE DoneIsOver'
    BY <1>6
<1>7. ASSUME NEW p \in Peers, PeerConsume(p) PROVE UNCHANGED <<peer, inbox, pc>>
    BY <1>7 DEF PeerConsume
<1>8. HalfFails \/ LingerFires \/ Tick \/ UNCHANGED vars => UNCHANGED <<peer, inbox, pc>>
    BY DEF HalfFails, LingerFires, Tick, vars, peerVars
<1> QED
    BY <1>1, <1>2, <1>3, <1>4, <1>5, <1>6, <1>7, <1>8
    DEF Next, Half, ReadError, WriteError, IdleExpires, WriteExpires

\* What was read and written, and is not in a buffer, is out.
LEMMA DoneIsDrained ==
    ASSUME IInv, DoneIsOver, NEW p \in Peers, pc[p] = "done"
    PROVE  Drained(p)
<1>1. held[p] = <<>> /\ inbox[p] = <<>> /\ peer[p] # "open" /\ out[p] \in Seq(Units)
    BY DEF IInv, TypeOK, CountersExact, DoneIsOver
<1>2. out[p] \o <<>> \o <<>> = out[p]
    BY <1>1, ConcatEmptySeq
<1> QED BY <1>1, <1>2 DEF Drained, IInv, StreamIntact

LEMMA EndsForAReasonStep ==
    ASSUME IInv, IInv', DoneIsOver, DoneIsOver', LingerArmed, EndsForAReason, [Next]_vars
    PROVE  EndsForAReason'
<1>1. CASE UNCHANGED vars
    BY <1>1 DEF vars, EndsForAReason, Drained, Blocked, Readable, Writable, NoTimer
<1>2. CASE relay' = "running"
    BY <1>2 DEF EndsForAReason
<1>3. ASSUME NEW p \in Peers, ReadEof(p), relay' # "running" PROVE EndsForAReason'
    <2>1. /\ relay' = "closed" /\ pc[Other(p)] = "done" /\ pc' = [pc EXCEPT ![p] = "done"]
        BY <1>3 DEF ReadEof, At
    <2>2. Other(p) \in Peers
        BY DEF Other, Peers
    <2>3. pc'[p] = "done" /\ pc'[Other(p)] = "done"
        BY <2>1, <2>2 DEF IInv, TypeOK
    <2>4. \A q \in Peers : pc'[q] = "done" => Drained(q)'
        <3> SUFFICES ASSUME NEW q \in Peers, pc'[q] = "done" PROVE Drained(q)'
            OBVIOUS
        <3>1. held'[q] = <<>> /\ inbox'[q] = <<>> /\ peer'[q] # "open" /\ out'[q] \in Seq(Units)
            BY DEF IInv, TypeOK, CountersExact, DoneIsOver
        <3>2. out'[q] \o <<>> \o <<>> = out'[q]
            BY <3>1, ConcatEmptySeq
        <3> QED BY <3>1, <3>2 DEF Drained, IInv, StreamIntact
    <2> QED BY <2>1, <2>2, <2>3, <2>4 DEF EndsForAReason
<1>4. ASSUME LingerFires PROVE EndsForAReason'
    <2>1. /\ relay = "running" /\ relay' = "closed" /\ linger_timeout = 0
          /\ UNCHANGED <<peer, sent, out, pc, linger_timeout>>
        BY <1>4 DEF LingerFires, peerVars
    <2>2. PICK p \in Peers : pc[p] = "done"
        BY <2>1 DEF LingerArmed, NoTimer
    <2>3. Drained(p)
        BY <2>2, DoneIsDrained
    <2> QED BY <2>1, <2>3 DEF EndsForAReason, Drained
<1>5. ASSUME NEW p \in Peers, ReadError(p) \/ WriteError(p) PROVE EndsForAReason'
    <2>1. Other(p) \in Peers
        BY DEF Other, Peers
    <2>2. relay' = "error" /\ UNCHANGED peer /\ (peer[p] = "reset" \/ peer[Other(p)] = "reset")
        BY <1>5 DEF ReadError, WriteError, HalfFails, peerVars
    <2> QED BY <2>1, <2>2 DEF EndsForAReason
<1>6. ASSUME NEW p \in Peers, IdleExpires(p) \/ WriteExpires(p) PROVE EndsForAReason'
    <2>1. /\ relay' = "error" /\ timer[p] = 0 /\ pc[p] # "done" /\ Blocked(p)
          /\ UNCHANGED <<peer, inbox, unread, timer, pc>>
        BY <1>6 DEF IdleExpires, WriteExpires, HalfFails, peerVars, At
    <2> QED BY <2>1 DEF EndsForAReason, Blocked, Readable, Writable
<1>7. ASSUME NEW p \in Peers, \/ PeerSend(p) \/ PeerFin(p) \/ PeerReset(p) \/ PeerConsume(p)
                              \/ ReadSome(p) \/ WriteSome(p)
      PROVE relay' = "running"
    BY <1>7 DEF PeerSend, PeerFin, PeerReset, PeerConsume, ReadSome, WriteSome, At
<1>8. Tick => relay' = "running"
    BY DEF Tick
<1> QED BY <1>1, <1>2, <1>3, <1>4, <1>5, <1>6, <1>7, <1>8 DEF Next, Half

\* A relay closes only with a direction complete to its end, and the other too
\* unless the linger sleep ran out; it fails only for a reset or a timeout that
\* found the half unable to move.
THEOREM RelayEndsForAReason == Spec => []EndsForAReason
<1>1. Init => DoneIsOver /\ EndsForAReason
    BY DEF Init, DoneIsOver, EndsForAReason
<1> QED
    BY <1>1, DoneIsOverStep, EndsForAReasonStep, LingerStaysArmed, Invariant, PTL DEF Spec

-----------------------------------------------------------------------------
\* What is out of a stream that is intact is a prefix of it.
LEMMA PrefixOfStream ==
    ASSUME NEW n \in 0..MaxSent,
           NEW o \in Seq(Units), NEW h \in Seq(Units), NEW b \in Seq(Units),
           o \o h \o b = Stream(n)
    PROVE  o = Stream(Len(o)) /\ Len(o) \in 0..n
<1> DEFINE s == o \o h
<1>1. s \in Seq(Units) /\ Len(s) = Len(o) + Len(h)
      /\ \A i \in 1..(Len(o) + Len(h)) : s[i] = IF i <= Len(o) THEN o[i] ELSE h[i - Len(o)]
    BY ConcatProperties
<1>2. Len(o) \in Nat /\ Len(h) \in Nat /\ Len(b) \in Nat /\ n \in Nat
    BY LenProperties, ConstantsAssumption
<1> HIDE DEF s
<1>3. /\ Len(s \o b) = Len(s) + Len(b)
      /\ \A i \in 1..(Len(s) + Len(b)) : (s \o b)[i] = IF i <= Len(s) THEN s[i] ELSE b[i - Len(s)]
    <2>1. s \in Seq(Units)
        BY <1>1
    <2> QED BY ONLY <2>1, ConcatProperties, b \in Seq(Units)
<1>4. s \o b = Stream(n) /\ Len(Stream(n)) = n
    BY StreamSeq DEF s
<1>5. Len(o) \in 0..n /\ Len(o) \in 0..MaxSent
    BY <1>1, <1>2, <1>3, <1>4, ConstantsAssumption
<1>6. Stream(Len(o)) \in Seq(Units) /\ Len(Stream(Len(o))) = Len(o)
    BY <1>5, StreamSeq
<1>7. ASSUME NEW i \in 1..Len(o) PROVE o[i] = Stream(Len(o))[i]
    <2>1. i \in 1..(Len(o) + Len(h)) /\ i \in 1..(Len(s) + Len(b)) /\ i <= Len(s) /\ i \in 1..n
        BY <1>1, <1>2, <1>5
    <2>2. Stream(n)[i] = o[i]
        BY <2>1, <1>1, <1>3, <1>4
    <2>3. Stream(n)[i] = i /\ Stream(Len(o))[i] = i
        BY <2>1 DEF Stream
    <2> QED BY <2>2, <2>3
<1>8. o = Stream(Len(o))
    BY <1>6, <1>7, SeqEqual
<1> QED BY <1>5, <1>8

\* Reading and ticking change nothing the tunnel sees.
LEMMA InternalStutters ==
    ASSUME UNCHANGED <<peer, sent, out, relay>>,
           \A p \in Peers : pc'[p] = "done" <=> pc[p] = "done"
    PROVE  UNCHANGED Tunnel!tunnelVars
<1>1. {p \in Peers : pc'[p] = "done"} = {p \in Peers : pc[p] = "done"}
    OBVIOUS
<1>2. {p \in Peers : peer'[p] # "open"} = {p \in Peers : peer[p] # "open"}
    OBVIOUS
<1> QED BY <1>1, <1>2 DEF Tunnel!tunnelVars

\* Every step of the relay is a step of the tunnel or changes nothing in it.
LEMMA StepImplementsTunnel ==
    IInv /\ IInv' /\ LingerArmed /\ [Next]_vars => [Tunnel!TunnelNext]_(Tunnel!tunnelVars)
<1> SUFFICES ASSUME IInv, IInv', LingerArmed, [Next]_vars
             PROVE  Tunnel!TunnelNext \/ UNCHANGED Tunnel!tunnelVars
    OBVIOUS
<1>0. /\ pc \in [Peers -> {"read", "write", "done"}]
      /\ peer \in [Peers -> {"open", "fin", "reset"}]
      /\ sent \in [Peers -> 0..MaxSent] /\ MaxSent \in Nat
      /\ out \in [Peers -> Seq(Units)] /\ held \in [Peers -> Seq(Units)]
    BY ConstantsAssumption DEF IInv, TypeOK
<1>1. ASSUME NEW p \in Peers, PeerSend(p) PROVE Tunnel!Send(p)
    <2>1. /\ peer[p] = "open" /\ sent' = [sent EXCEPT ![p] = sent[p] + 1]
          /\ UNCHANGED <<peer, out, pc, relay>>
        BY <1>1 DEF PeerSend
    <2> QED BY <2>1 DEF Tunnel!Send
<1>2. ASSUME NEW p \in Peers, PeerFin(p) \/ PeerReset(p) PROVE Tunnel!Finish(p)
    <2>1. /\ peer' = [peer EXCEPT ![p] = peer'[p]] /\ peer'[p] # "open"
          /\ UNCHANGED <<sent, out, pc, relay>>
        BY <1>0, <1>2 DEF PeerFin, PeerReset
    <2>2. {q \in Peers : peer'[q] # "open"} = {q \in Peers : peer[q] # "open"} \union {p}
        BY <1>0, <2>1
    <2> QED BY <2>1, <2>2 DEF Tunnel!Finish
<1>3. ASSUME NEW p \in Peers, PeerConsume(p) \/ ReadSome(p) PROVE UNCHANGED Tunnel!tunnelVars
    <2>1. UNCHANGED <<peer, sent, out, relay>>
        BY <1>3 DEF PeerConsume, ReadSome, peerVars
    <2>2. \A q \in Peers : pc'[q] = "done" <=> pc[q] = "done"
        BY <1>0, <1>3 DEF PeerConsume, ReadSome, At
    <2> QED BY <2>1, <2>2, InternalStutters
<1>4. ASSUME NEW p \in Peers, ReadEof(p) PROVE Tunnel!PassEnd(p)
    <2>1. /\ relay = "running" /\ pc[p] = "read" /\ inbox[p] = <<>> /\ peer[p] = "fin"
          /\ pc' = [pc EXCEPT ![p] = "done"] /\ relay' \in {"running", "closed"}
          /\ UNCHANGED <<peer, sent, out>>
        BY <1>4 DEF ReadEof, At, peerVars
    <2>2. held[p] = <<>>
        BY <2>1 DEF IInv, CountersExact
    <2>3. out[p] = Stream(sent[p])
        <3>1. out[p] \o <<>> \o <<>> = Stream(sent[p])
            BY <2>1, <2>2 DEF IInv, StreamIntact
        <3>2. out[p] \o <<>> = out[p]
            BY <1>0, ConcatEmptySeq
        <3> QED BY <3>1, <3>2
    <2>4. {q \in Peers : pc'[q] = "done"} = {q \in Peers : pc[q] = "done"} \union {p}
        BY <1>0, <2>1
    <2>5. out[p] = Tunnel!Stream(sent[p])
        BY <2>3 DEF Stream, Tunnel!Stream
    <2> QED BY <2>1, <2>4, <2>5 DEF Tunnel!PassEnd
<1>5. ASSUME HalfFails, relay = "running" PROVE Tunnel!Fail
    <2>1. relay' = "error" /\ UNCHANGED <<peer, sent, out, pc>>
        BY <1>5 DEF HalfFails, peerVars
    <2> QED BY <1>5, <2>1 DEF Tunnel!Fail
<1>6. ASSUME NEW p \in Peers, WriteSome(p) PROVE Tunnel!Deliver(p)
    <2>1. /\ relay = "running" /\ pc[p] = "write"
          /\ out' = [out EXCEPT ![p] = Append(out[p], Head(held[p]))]
          /\ UNCHANGED <<peer, sent, relay>> /\ held[p] # <<>>
          /\ pc' = pc \/ pc' = [pc EXCEPT ![p] = "read"]
        BY <1>6 DEF WriteSome, At, peerVars, IInv, CountersExact
    <2>2. {q \in Peers : pc'[q] = "done"} = {q \in Peers : pc[q] = "done"}
        BY <1>0, <2>1
    <2>3. /\ out'[p] \in Seq(Units) /\ held'[p] \in Seq(Units) /\ inbox'[p] \in Seq(Units)
          /\ sent'[p] \in 0..MaxSent
          /\ out'[p] \o held'[p] \o inbox'[p] = Stream(sent'[p])
        BY DEF IInv, TypeOK, StreamIntact
    <2>4. out'[p] = Stream(Len(out'[p])) /\ Len(out'[p]) \in 0..sent'[p]
        BY <2>3, PrefixOfStream
    <2>5. out'[p] = Append(out[p], Head(held[p])) /\ sent'[p] = sent[p]
        BY <1>0, <2>1
    <2>6. Len(out'[p]) = Len(out[p]) + 1 /\ Len(out[p]) \in Nat
        BY <1>0, <2>1, <2>5, HeadTailProperties, AppendProperties, LenProperties
    <2>7. Len(out'[p]) \in Len(out[p])..sent[p]
        BY <2>4, <2>5, <2>6
    <2>8. out' = [out EXCEPT ![p] = Tunnel!Stream(Len(out'[p]))]
        BY <2>1, <2>4, <2>5 DEF Stream, Tunnel!Stream
    <2> QED BY <2>1, <2>2, <2>7, <2>8 DEF Tunnel!Deliver
<1>7. CASE LingerFires
    <2>1. /\ relay = "running" /\ relay' = "closed" /\ linger_timeout = 0
          /\ UNCHANGED <<peer, sent, out, pc>>
        BY <1>7 DEF LingerFires, peerVars
    <2>2. \E p \in Peers : pc[p] = "done"
        BY <2>1 DEF LingerArmed, NoTimer
    <2>3. Tunnel!Close
        BY <2>1, <2>2 DEF Tunnel!Close
    <2> QED BY <2>3 DEF Tunnel!TunnelNext
<1>8. CASE Tick \/ UNCHANGED vars
    <2>1. UNCHANGED <<peer, sent, out, relay, pc>>
        BY <1>8 DEF Tick, vars, peerVars
    <2> QED BY <2>1, InternalStutters
<1> QED
    BY <1>1, <1>2, <1>3, <1>4, <1>5, <1>6, <1>7, <1>8
    DEF Next, Half, At, ReadError, WriteError, IdleExpires, WriteExpires, Tunnel!TunnelNext

\* relay_data implements the byte tunnel: in order, complete, the end passed on
\* only after everything else, closed only after an end.
THEOREM RelayImplementsTunnel == Spec => ImplementsTunnel
<1>1. Init => Tunnel!TunnelInit
    <2> SUFFICES ASSUME Init PROVE Tunnel!TunnelInit
        OBVIOUS
    <2>1. sent \in [Peers -> Nat]
        BY ConstantsAssumption DEF Init
    <2>2. {p \in Peers : peer[p] # "open"} = {} /\ {p \in Peers : pc[p] = "done"} = {}
        BY DEF Init
    <2> QED BY <2>1, <2>2 DEF Init, Tunnel!TunnelInit
<1> QED BY <1>1, StepImplementsTunnel, Invariant, LingerStaysArmed, PTL
        DEF Spec, ImplementsTunnel, Tunnel!TunnelSpec
=============================================================================
