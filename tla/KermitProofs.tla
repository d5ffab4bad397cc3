---------------------------- MODULE KermitProofs ----------------------------
(***************************************************************************)
(* Proofs about Kermit, for batches, limits, packet numbers and numbers of *)
(* faults of any size: the transfer implements FileTransfer, and retries   *)
(* suffice.                                                                *)
(***************************************************************************)
EXTENDS Kermit, Integers, SequenceTheorems, FiniteSetTheorems, TLAPS

\* The states of a sender that waits for an answer, or streams.
Sendings == {"ssini", "ssfil", "ssatt", "ssdat", "sseof", "sseot"}

\* The number after n.
After(n) == (n + 1) % Mod

\* The packet that the sender sent last, when it was in state k.
Current(k) ==
  CASE k = "ssini" -> Packet("S", snd.seq, 0)
    [] k = "ssfil" -> Packet("F", snd.seq, snd.file)
    [] k = "ssatt" -> Packet("A", snd.seq, 0)
    [] k = "ssdat" -> Packet("D", snd.seq, Files[snd.file][snd.pos])
    [] k = "sseof" -> Packet("Z", snd.seq, 0)
    [] k = "sseot" -> Packet("B", snd.seq, 0)

\* Where the sender is in its batch.
Sender(k) ==
  /\ snd.st = "s" => k = "ssini" /\ toRcv = <<>>
  /\ Active(snd) => snd.st = k /\ snd.pkt = Current(k)
  /\ k = "ssini" => snd.seq = 0 /\ snd.file = 0 /\ ~snd.streaming
  /\ k \in {"ssfil", "ssatt", "ssdat", "sseof"} =>
       snd.file \in 1..Len(Files) /\ snd.pos \in 0..Len(Files[snd.file])
  /\ k \in {"ssfil", "ssatt"} => snd.pos = 0
  /\ k = "ssdat" => snd.pos > 0
  /\ k = "sseof" => snd.pos = Len(Files[snd.file])
  /\ k = "sseot" => snd.file = Len(Files)
  /\ snd.streaming => opt.stream

\* The receiver has the first f files, and is between two files ...
Has(f) == Len(rcv.got) = f /\ \A i \in 1..f : rcv.got[i] = Files[i]
Between(f) == rcv.st \in {"srfil", "failed"} /\ Has(f)

\* ... or has the first q data fields of the sender's file too.
InFile(q) ==
  /\ rcv.st \in {"sratt", "srdat", "failed"} /\ Has(snd.file - 1)
  /\ Len(rcv.data) = q /\ \A i \in 1..q : rcv.data[i] = Files[snd.file][i]

\* Where the receiver is when it has taken all but the last b packets.
Position(k, b) ==
  /\ k = "ssini" => IF b = 0 THEN Between(0) ELSE rcv.st \in {"v", "srini", "failed"} /\ Has(0)
  /\ k = "ssfil" => IF b = 0 THEN InFile(0) ELSE Between(snd.file - 1)
  /\ k = "ssatt" => InFile(0)
  /\ k = "ssdat" => b <= snd.pos /\ InFile(snd.pos - b)
  /\ k = "sseof" => IF b = 0 THEN Between(snd.file)
                    ELSE b <= snd.pos + 1 /\ InFile(snd.pos + 1 - b)
  /\ k = "sseot" => IF b = 0 THEN rcv.st = "done" /\ Has(Len(Files)) ELSE Between(Len(Files))

\* Only data that is streamed may have gone out without an answer.
Streams(k) == snd.streaming /\ k \in {"ssdat", "sseof"}

Receiver(k, b) ==
  /\ (rcv.seq + b) % Mod = After(snd.seq)
  /\ b <= 1 \/ Streams(k)
  /\ Position(k, b)
  /\ rcv.streaming => opt.stream
  /\ rcv.st \in {"v", "srini"} => ~rcv.streaming /\ (rcv.pkt = None \/ rcv.pkt.type = "N")
  /\ rcv.st \in {"srfil", "sratt", "srdat"} =>
       IF opt.stream THEN rcv.streaming
       ELSE rcv.pkt # None /\ rcv.pkt.type = "Y" /\ After(rcv.pkt.n) = rcv.seq
  /\ Ended(rcv) => toRcv = <<>>

\* Stop and wait: what is on the line is the last packet, or the one before it
\* as long as the last one was not taken; in the order in which they were sent.
StopAndWait(k, b) ==
  /\ \A i \in 1..Len(toRcv) :
       \/ toRcv[i].n = snd.seq /\ (toRcv[i] = Current(k) \/ toRcv[i].type \in {"Q", "E"})
       \/ b = 1 /\ After(toRcv[i].n) = snd.seq
  /\ \A i, j \in 1..Len(toRcv) : i < j /\ toRcv[i].n = snd.seq => toRcv[j].n = snd.seq
  /\ Active(snd) /\ snd.streaming =>
       /\ b = 0 => toRcv = <<>>
       /\ \A i \in 1..Len(toRcv) - 1 : toRcv[i].n # snd.seq

\* The j-th of the b packets that the receiver has not taken.
Streamed(k, b, j) ==
  IF k = "sseof" /\ j = b THEN Packet("Z", (rcv.seq + (j - 1)) % Mod, 0)
  ELSE Packet("D", (rcv.seq + (j - 1)) % Mod, Files[snd.file][Len(rcv.data) + j])

\* Streaming: the line has lost no more packets than there were faults.
Window(k, b) ==
  /\ \A i \in 1..Len(toRcv) :
       \/ toRcv[i].type \in {"Q", "E"}
       \/ \E j \in i..i + faults : j <= b /\ toRcv[i] = Streamed(k, b, j)
  /\ Active(snd) /\ ~Ended(rcv) => Len(toRcv) <= b /\ b <= Len(toRcv) + faults

\* An answer to the last packet is on its way only if the receiver took it.
Acks(k, b) ==
  /\ Ended(snd) => toSnd = <<>>
  /\ \A i \in 1..Len(toSnd) : toSnd[i].type = "Y" =>
       \/ b = 0 /\ toSnd[i].n = snd.seq /\ ~(snd.streaming /\ k = "ssdat")
       \/ ~opt.stream /\ After(toSnd[i].n) = snd.seq
  /\ \A i, j \in 1..Len(toSnd) :
       i < j /\ toSnd[i].type = "Y" /\ toSnd[i].n = snd.seq /\ toSnd[j].type = "Y"
         => toSnd[j].n = snd.seq /\ ~opt.stream

Link(k, b) ==
  /\ Sender(k) /\ Receiver(k, b) /\ Acks(k, b)
  /\ Streams(k) => Window(k, b)
  /\ ~Streams(k) => StopAndWait(k, b)

Linked == \E k \in Sendings, b \in Nat : Link(k, b)

-----------------------------------------------------------------------------
(* Packet numbers.                                                         *)

LEMMA Quotient == ASSUME NEW x \in Nat PROVE \E q \in Int : x = Mod * q + (x % Mod)
<1>1. x \div Mod \in Int /\ x = Mod * (x \div Mod) + (x % Mod)
  BY KermitAssumption
<1> QED BY <1>1, Zenon

LEMMA Remainder ==
  ASSUME NEW q \in Int, NEW r \in 0..Mod-1, NEW x \in Nat, x = Mod * q + r
  PROVE  x % Mod = r
<1> DEFINE s == x % Mod
<1>0. s \in 0..Mod-1 /\ Mod \in Nat \ {0, 1}
  BY KermitAssumption
<1>1. PICK p \in Int : x = Mod * p + s
  BY Quotient
<1> HIDE DEF s
<1>2. Mod * (q - p) = s - r
  BY <1>0, <1>1
<1>3. CASE q - p >= 1
  <2>1. Mod * (q - p) >= Mod
    BY <1>0, <1>3
  <2> QED BY <1>0, <1>2, <2>1
<1>4. CASE q - p <= -1
  <2>1. Mod * (q - p) <= -Mod
    BY <1>0, <1>4
  <2> QED BY <1>0, <1>2, <2>1
<1>5. CASE q = p
  BY <1>0, <1>1, <1>5 DEF s
<1> QED BY <1>3, <1>4, <1>5

\* The number after n is another one, and n is the only one before it.
LEMMA AfterFacts ==
  ASSUME NEW n \in 0..Mod-1
  PROVE  /\ After(n) \in 0..Mod-1 /\ After(n) # n
         /\ \A m \in 0..Mod-1 : After(m) = After(n) => m = n
<1>0. Mod \in Nat \ {0, 1}
  BY KermitAssumption
<1>1. \A m \in 0..Mod-1 : After(m) = IF m = Mod - 1 THEN 0 ELSE m + 1
  BY <1>0 DEF After
<1> QED BY <1>0, <1>1

\* Going round brings a number back.
LEMMA AroundFacts ==
  ASSUME NEW n \in 0..Mod-1
  PROVE  /\ (n + 0) % Mod = n /\ (n + 1) % Mod = After(n)
         /\ \A d \in 0..Mod-1 : (n + d) % Mod = n => d = 0
BY KermitAssumption DEF After

\* Counting on from the number after n.
LEMMA AfterPlus ==
  ASSUME NEW n \in 0..Mod-1, NEW c \in Nat
  PROVE  (After(n) + c) % Mod = (n + (c + 1)) % Mod
<1>0. Mod \in Nat \ {0, 1}
  BY KermitAssumption
<1>1. CASE n = Mod - 1
  <2> DEFINE r == c % Mod
  <2>1. After(n) = 0
    BY <1>0, <1>1 DEF After
  <2>2. r \in 0..Mod-1
    BY <1>0
  <2>3. PICK q \in Int : c = Mod * q + r
    BY Quotient
  <2> HIDE DEF r
  <2>4. Mod + c = Mod * (q + 1) + r /\ q + 1 \in Int /\ Mod + c \in Nat
    BY <1>0, <2>2, <2>3
  <2>5. (Mod + c) % Mod = r
    BY <2>2, <2>4, Remainder
  <2>6. n + (c + 1) = Mod + c /\ 0 + c = c
    BY <1>0, <1>1
  <2> QED BY <2>1, <2>5, <2>6 DEF r
<1>2. CASE n # Mod - 1
  <2>1. After(n) = n + 1 /\ (n + 1) + c = n + (c + 1)
    BY <1>0, <1>2 DEF After
  <2> QED BY <2>1
<1> QED BY <1>1, <1>2

\* The number after the one that c more make.
LEMMA PlusAfter ==
  ASSUME NEW n \in 0..Mod-1, NEW c \in Nat
  PROVE  (n + (c + 1)) % Mod = After((n + c) % Mod)
<1> DEFINE x == n + c
           r == x % Mod
<1>0. Mod \in Nat \ {0, 1} /\ x \in Nat /\ r \in 0..Mod-1 /\ n + (c + 1) = x + 1
  BY KermitAssumption
<1>1. PICK q \in Int : x = Mod * q + r
  BY <1>0, Quotient
<1>2. After(r) = IF r = Mod - 1 THEN 0 ELSE r + 1
  BY <1>0 DEF After
<1> HIDE DEF x, r
<1>3. CASE r = Mod - 1
  <2>1. x + 1 = Mod * (q + 1) + 0 /\ q + 1 \in Int /\ x + 1 \in Nat /\ 0 \in 0..Mod-1
    BY <1>0, <1>1, <1>3
  <2>2. (x + 1) % Mod = 0
    BY <2>1, Remainder
  <2> QED BY <1>0, <1>2, <1>3, <2>2 DEF r, x
<1>4. CASE r # Mod - 1
  <2>1. x + 1 = Mod * q + (r + 1) /\ x + 1 \in Nat /\ r + 1 \in 0..Mod-1
    BY <1>0, <1>1, <1>4
  <2>2. (x + 1) % Mod = r + 1
    BY <2>1, Remainder
  <2> QED BY <1>0, <1>2, <1>4, <2>2 DEF r, x
<1> QED BY <1>3, <1>4

\* The receiver's number, when it waits for the last packet or has taken it.
LEMMA BehindFacts ==
  ASSUME NEW n \in 0..Mod-1, NEW r \in 0..Mod-1
  PROVE  /\ (r + 0) % Mod = After(n) <=> r = After(n)
         /\ (r + 1) % Mod = After(n) <=> r = n
BY AfterFacts, AroundFacts
-----------------------------------------------------------------------------
(* Types.                                                                  *)

LEMMA SndTypes ==
  ASSUME TypeOK
  PROVE  /\ snd.st \in SndStates /\ snd.seq \in 0..Mod-1 /\ snd.retries \in 0..MaxTry
         /\ snd.streaming \in BOOLEAN /\ snd.pkt \in Packets \cup {None}
         /\ snd.file \in 0..Len(Files) /\ snd.pos \in Nat
BY DEF TypeOK

LEMMA RcvTypes ==
  ASSUME TypeOK
  PROVE  /\ rcv.st \in RcvStates /\ rcv.seq \in 0..Mod-1 /\ rcv.retries \in 0..MaxTry
         /\ rcv.streaming \in BOOLEAN /\ rcv.pkt \in Packets \cup {None}
         /\ rcv.data \in Seq(Nat) /\ rcv.got \in Seq(Seq(Nat))
         /\ Len(rcv.data) \in Nat /\ Len(rcv.got) \in Nat
BY DEF TypeOK

\* What a line holds.
LEMMA LineTypes ==
  ASSUME NEW line \in Seq(Packets)
  PROVE  /\ Len(line) \in Nat
         /\ \A i \in 1..Len(line) :
              /\ line[i] \in Packets /\ line[i].type \in Types /\ line[i].n \in 0..Mod-1
              /\ line[i].data \in Nat
<1>1. Len(line) \in Nat /\ \A i \in 1..Len(line) : line[i] \in Packets
  OBVIOUS
<1>2. \A m \in Packets : m.type \in Types /\ m.n \in 0..Mod-1 /\ m.data \in Nat
  BY DEF Packets
<1> QED BY <1>1, <1>2

LEMMA OptTypes ==
  ASSUME TypeOK
  PROVE  /\ opt.stream \in BOOLEAN /\ opt.attributes \in BOOLEAN /\ opt.diskFails \in BOOLEAN
         /\ faults \in Nat /\ toRcv \in Seq(Packets) /\ toSnd \in Seq(Packets)
BY KermitAssumption DEF TypeOK

LEMMA PacketType ==
  ASSUME NEW t \in Types, NEW n \in 0..Mod-1, NEW x \in Nat
  PROVE  /\ Packet(t, n, x) \in Packets /\ Packet(t, n, x) # None
         /\ Packet(t, n, x).type = t /\ Packet(t, n, x).n = n /\ Packet(t, n, x).data = x
BY NoneAssumption DEF Packet, Packets

-----------------------------------------------------------------------------
(* Lines.                                                                  *)

\* The line new is what is left of line: in the same order, some of it garbled.
Thins(new, line) ==
  \E f \in [1..Len(new) -> 1..Len(line)] :
    /\ \A i, j \in 1..Len(new) : i < j => f[i] < f[j]
    /\ \A i \in 1..Len(new) :
         new[i] = line[f[i]] \/ (new[i].type = "Q" /\ new[i].n = line[f[i]].n)

LEMMA ThinsSame ==
  ASSUME NEW line \in Seq(Packets)
  PROVE  Thins(line, line)
<1> DEFINE f == [i \in 1..Len(line) |-> i]
<1>1. f \in [1..Len(line) -> 1..Len(line)]
  OBVIOUS
<1>2. /\ \A i, j \in 1..Len(line) : i < j => f[i] < f[j]
      /\ \A i \in 1..Len(line) :
           line[i] = line[f[i]] \/ (line[i].type = "Q" /\ line[i].n = line[f[i]].n)
  OBVIOUS
<1> HIDE DEF f
<1> QED BY <1>1, <1>2 DEF Thins

LEMMA ThinsEmpty ==
  ASSUME NEW line
  PROVE  Thins(<<>>, line)
<1> DEFINE f == [i \in 1..0 |-> i]
<1>1. Len(<<>>) = 0 /\ 1..0 = {}
  OBVIOUS
<1>2. f \in [1..Len(<<>>) -> 1..Len(line)]
  BY <1>1
<1> HIDE DEF f
<1> QED BY <1>1, <1>2 DEF Thins

\* The end of a line, as Tail and ttflui leave it.
LEMMA ThinsEnd ==
  ASSUME NEW line \in Seq(Packets), NEW k \in 1..Len(line) + 1
  PROVE  SubSeq(line, k, Len(line)) \in Seq(Packets) /\ Thins(SubSeq(line, k, Len(line)), line)
<1> DEFINE new == SubSeq(line, k, Len(line))
           f == [i \in 1..Len(new) |-> i + (k - 1)]
<1>0. Len(line) \in Nat /\ k \in Nat
  OBVIOUS
<1>1. /\ new \in Seq(Packets) /\ Len(new) = Len(line) - (k - 1)
      /\ \A i \in 1..Len(new) : new[i] = line[i + (k - 1)]
  BY <1>0
<1> HIDE DEF new
<1>2. f \in [1..Len(new) -> 1..Len(line)]
  BY <1>0, <1>1
<1>3. /\ \A i, j \in 1..Len(new) : i < j => f[i] < f[j]
      /\ \A i \in 1..Len(new) : new[i] = line[f[i]]
  BY <1>0, <1>1
<1> HIDE DEF f
<1>4. Thins(new, line)
  BY <1>2, <1>3 DEF Thins
<1> QED BY <1>1, <1>4 DEF new

LEMMA ThinsTail ==
  ASSUME NEW line \in Seq(Packets), line # <<>>
  PROVE  /\ Tail(line) \in Seq(Packets) /\ Thins(Tail(line), line)
         /\ Head(line) = line[1] /\ Len(line) \in Nat \ {0} /\ Len(Tail(line)) = Len(line) - 1
         /\ \A i \in 1..Len(Tail(line)) : Tail(line)[i] = line[i + 1]
<1> DEFINE new == Tail(line)
           f == [i \in 1..Len(new) |-> i + 1]
<1>1. /\ new \in Seq(Packets) /\ Len(line) \in Nat \ {0} /\ Len(new) = Len(line) - 1
      /\ \A i \in 1..Len(new) : new[i] = line[i + 1]
  OBVIOUS
<1>2. Head(line) = line[1]
  OBVIOUS
<1> HIDE DEF new
<1>3. f \in [1..Len(new) -> 1..Len(line)]
  BY <1>1
<1>4. /\ \A i, j \in 1..Len(new) : i < j => f[i] < f[j]
      /\ \A i \in 1..Len(new) : new[i] = line[f[i]]
  BY <1>1
<1> HIDE DEF f
<1>5. Thins(new, line)
  BY <1>3, <1>4 DEF Thins
<1> QED BY <1>1, <1>2, <1>5 DEF new

LEMMA ThinsTrans ==
  ASSUME NEW a, NEW b, NEW c, Thins(a, b), Thins(b, c)
  PROVE  Thins(a, c)
<1>1. PICK f \in [1..Len(a) -> 1..Len(b)] :
        /\ \A i, j \in 1..Len(a) : i < j => f[i] < f[j]
        /\ \A i \in 1..Len(a) : a[i] = b[f[i]] \/ (a[i].type = "Q" /\ a[i].n = b[f[i]].n)
  BY DEF Thins
<1>2. PICK g \in [1..Len(b) -> 1..Len(c)] :
        /\ \A i, j \in 1..Len(b) : i < j => g[i] < g[j]
        /\ \A i \in 1..Len(b) : b[i] = c[g[i]] \/ (b[i].type = "Q" /\ b[i].n = c[g[i]].n)
  BY DEF Thins
<1> DEFINE h == [i \in 1..Len(a) |-> g[f[i]]]
<1>3. h \in [1..Len(a) -> 1..Len(c)]
  OBVIOUS
<1>4. \A i, j \in 1..Len(a) : i < j => h[i] < h[j]
  BY <1>1, <1>2
<1>5. ASSUME NEW i \in 1..Len(a)
      PROVE  a[i] = c[h[i]] \/ (a[i].type = "Q" /\ a[i].n = c[h[i]].n)
  <2>1. f[i] \in 1..Len(b) /\ h[i] = g[f[i]]
    BY <1>1
  <2>2. a[i] = b[f[i]] \/ (a[i].type = "Q" /\ a[i].n = b[f[i]].n)
    BY <1>1, Zenon
  <2>3. b[f[i]] = c[g[f[i]]] \/ (b[f[i]].type = "Q" /\ b[f[i]].n = c[g[f[i]]].n)
    BY <1>2, <2>1, Zenon
  <2> QED BY <2>1, <2>2, <2>3, Zenon
<1> HIDE DEF h
<1> QED BY <1>3, <1>4, <1>5 DEF Thins

\* What input() leaves of the line after the packet that it took.
LEMMA ThinsFlushed ==
  ASSUME NEW line \in Seq(Packets), line # <<>>, NEW p, NEW rest \in Flushed(p, Tail(line))
  PROVE  /\ rest \in Seq(Packets) /\ Thins(rest, line) /\ Thins(rest, Tail(line))
         /\ p.streaming => rest = Tail(line)
<1> DEFINE t == Tail(line)
<1>1. t \in Seq(Packets) /\ Thins(t, line)
  BY ThinsTail
<1>2. t \in Seq(Packets) /\ Thins(t, t)
  BY <1>1, ThinsSame
<1> HIDE DEF t
<1>3. CASE p.streaming
  BY <1>1, <1>2, <1>3 DEF Flushed, t
<1>4. CASE ~p.streaming
  <2>1. PICK k \in 1..Len(t) + 1 : rest = SubSeq(t, k, Len(t))
    BY <1>4 DEF Flushed, t
  <2>2. rest \in Seq(Packets) /\ Thins(rest, t)
    BY <1>1, <2>1, ThinsEnd
  <2> QED BY <1>1, <1>4, <2>2, ThinsTrans DEF t
<1> QED BY <1>3, <1>4

\* A packet that is lost ...
LEMMA Lost ==
  ASSUME NEW line \in Seq(Packets), NEW i \in 1..Len(line)
  PROVE  LET new == RemoveAt(line, i)
         IN  /\ new \in Seq(Packets) /\ Len(new) = Len(line) - 1
             /\ \A j \in 1..Len(new) : new[j] = line[IF j < i THEN j ELSE j + 1]
<1> DEFINE a == SubSeq(line, 1, i - 1)
           b == SubSeq(line, i + 1, Len(line))
<1>0. Len(line) \in Nat /\ i \in Nat /\ i >= 1 /\ i <= Len(line)
  OBVIOUS
<1>1. /\ a \in Seq(Packets) /\ Len(a) = i - 1
      /\ \A j \in 1..Len(a) : a[j] = line[j]
  BY <1>0
<1>2. /\ b \in Seq(Packets) /\ Len(b) = Len(line) - i
      /\ \A j \in 1..Len(b) : b[j] = line[j + i]
  BY <1>0
<1>3. RemoveAt(line, i) = a \o b
  BY DEF RemoveAt
<1> HIDE DEF a, b
<1>4. /\ a \o b \in Seq(Packets) /\ Len(a \o b) = Len(a) + Len(b)
      /\ \A j \in 1..Len(a) + Len(b) : (a \o b)[j] = IF j <= Len(a) THEN a[j] ELSE b[j - Len(a)]
  BY <1>1, <1>2, ConcatProperties
<1>5. ASSUME NEW j \in 1..Len(line) - 1 PROVE (a \o b)[j] = line[IF j < i THEN j ELSE j + 1]
  <2>1. j \in 1..Len(a) + Len(b) /\ (j < i \/ j >= i)
    BY <1>0, <1>1, <1>2
  <2>2. CASE j < i
    BY <1>0, <1>1, <1>4, <2>1, <2>2
  <2>3. CASE j >= i
    <3>1. j - Len(a) \in 1..Len(b) /\ (j - Len(a)) + i = j + 1 /\ ~(j <= Len(a)) /\ ~(j < i)
      BY <1>0, <1>1, <1>2, <2>3
    <3>2. (a \o b)[j] = b[j - Len(a)]
      BY <1>4, <2>1, <3>1
    <3>3. b[j - Len(a)] = line[(j - Len(a)) + i]
      BY <1>2, <3>1
    <3> QED BY <3>1, <3>2, <3>3
  <2> QED BY <2>1, <2>2, <2>3, Zenon
<1> QED BY <1>0, <1>1, <1>2, <1>3, <1>4, <1>5

\* ... and one that is garbled.
Garble(line, i) == [line EXCEPT ![i].type = "Q", ![i].data = 0]

LEMMA Garbled ==
  ASSUME NEW line \in Seq(Packets), NEW i \in 1..Len(line), NEW new, new = Garble(line, i)
  PROVE  /\ new \in Seq(Packets) /\ Len(new) = Len(line)
         /\ \A j \in 1..Len(new) : j # i => new[j] = line[j]
         /\ new[i].type = "Q" /\ new[i].n = line[i].n
<1> DEFINE m == [line[i] EXCEPT !.type = "Q", !.data = 0]
<1>0. line[i] \in Packets
  OBVIOUS
<1>1. m \in Packets /\ m.type = "Q" /\ m.n = line[i].n
  BY <1>0 DEF Packets, Types
<1>2. new = [line EXCEPT ![i] = m]
  BY DEF Garble
<1> HIDE DEF m
<1>3. /\ new \in Seq(Packets) /\ Len(new) = Len(line) /\ new[i] = m
      /\ \A j \in 1..Len(new) : j # i => new[j] = line[j]
  BY <1>1, <1>2, ExceptSeq
<1> QED BY <1>1, <1>3

LEMMA ThinsSpoil ==
  ASSUME NEW line \in Seq(Packets), NEW new \in Spoil(line)
  PROVE  new \in Seq(Packets) /\ Thins(new, line)
<1>0. Len(line) \in Nat /\ DOMAIN line = 1..Len(line)
  OBVIOUS
<1>1. ASSUME NEW i \in 1..Len(line), new = RemoveAt(line, i)
      PROVE  new \in Seq(Packets) /\ Thins(new, line)
  <2> DEFINE f == [j \in 1..Len(new) |-> IF j < i THEN j ELSE j + 1]
  <2>1. /\ new \in Seq(Packets) /\ Len(new) = Len(line) - 1
        /\ \A j \in 1..Len(new) : new[j] = line[IF j < i THEN j ELSE j + 1]
    BY <1>1, Lost
  <2>2. f \in [1..Len(new) -> 1..Len(line)]
    BY <1>0, <2>1
  <2>3. /\ \A j, k \in 1..Len(new) : j < k => f[j] < f[k]
        /\ \A j \in 1..Len(new) : new[j] = line[f[j]]
    BY <1>0, <2>1
  <2> HIDE DEF f
  <2> QED BY <2>1, <2>2, <2>3 DEF Thins
<1>2. ASSUME NEW i \in 1..Len(line), new = Garble(line, i)
      PROVE  new \in Seq(Packets) /\ Thins(new, line)
  <2> DEFINE f == [j \in 1..Len(new) |-> j]
  <2>1. /\ new \in Seq(Packets) /\ Len(new) = Len(line)
        /\ \A j \in 1..Len(new) : j # i => new[j] = line[j]
        /\ new[i].type = "Q" /\ new[i].n = line[i].n
    BY <1>2, Garbled
  <2>2. f \in [1..Len(new) -> 1..Len(line)]
    BY <2>1
  <2>3. /\ \A j, k \in 1..Len(new) : j < k => f[j] < f[k]
        /\ \A j \in 1..Len(new) :
             new[j] = line[f[j]] \/ (new[j].type = "Q" /\ new[j].n = line[f[j]].n)
    BY <2>1
  <2> HIDE DEF f
  <2> QED BY <2>1, <2>2, <2>3 DEF Thins
<1> QED BY <1>0, <1>1, <1>2, Zenon DEF Spoil, Garble

-----------------------------------------------------------------------------
(* What a step of the sender does.                                         *)

SndType == [st : SndStates, seq : 0..Mod-1, retries : 0..MaxTry, streaming : BOOLEAN,
            pkt : Packets \cup {None}, file : 0..Len(Files), pos : Nat]

\* State k2 comes after state k in the batch.
Follows(k, k2) ==
  \/ /\ k \in {"ssini", "sseof"} /\ k2 = "ssfil"
     /\ snd.file < Len(Files) /\ snd'.file = snd.file + 1 /\ snd'.pos = 0
  \/ /\ k \in {"ssini", "sseof"} /\ k2 = "sseot"
     /\ snd.file = Len(Files) /\ snd'.file = snd.file /\ snd'.pos = snd.pos
  \/ k = "ssfil" /\ k2 = "ssatt" /\ snd'.file = snd.file /\ snd'.pos = snd.pos
  \/ /\ k \in {"ssfil", "ssatt", "ssdat"} /\ k2 = "ssdat" /\ snd'.file = snd.file
     /\ snd.pos < Len(Files[snd.file]) /\ snd'.pos = snd.pos + 1
  \/ /\ k \in {"ssfil", "ssatt", "ssdat"} /\ k2 = "sseof" /\ snd'.file = snd.file
     /\ snd.pos = Len(Files[snd.file]) /\ snd'.pos = snd.pos

\* The next packet of the batch, after state k.
GoesOn(k, k2) ==
  /\ snd' \in SndType /\ snd'.st = k2 /\ snd'.seq = After(snd.seq) /\ snd'.retries = 0
  /\ snd'.streaming = IF k = "ssini" THEN opt.stream /\ snd.file < Len(Files) ELSE snd.streaming
  /\ snd'.pkt = Current(k2)' /\ Follows(k, k2)

LEMMA FilesType ==
  ASSUME NEW f \in 1..Len(Files)
  PROVE  /\ Len(Files) \in Nat /\ Files[f] \in Seq(Nat) /\ Len(Files[f]) \in Nat
         /\ \A i \in 1..Len(Files[f]) : Files[f][i] \in Nat
<1>1. Len(Files) \in Nat /\ Files[f] \in Seq(Nat)
  BY KermitAssumption
<1> QED BY <1>1

\* sfile or seot.
LEMMA NextFileFacts ==
  ASSUME TypeOK, NEW k \in {"ssini", "sseof"}, NEW on \in BOOLEAN
  PROVE  snd' = [NextFile(snd) EXCEPT !.streaming = on] =>
         \E k2 \in {"ssfil", "sseot"} :
           /\ snd' \in SndType /\ snd'.st = k2 /\ snd'.seq = After(snd.seq)
           /\ snd'.retries = 0 /\ snd'.streaming = on
           /\ snd'.pkt = Current(k2)' /\ Follows(k, k2)
<1>0. snd \in SndType /\ Len(Files) \in Nat /\ MaxTry \in Nat /\ snd.seq \in 0..Mod-1
  BY KermitAssumption DEF TypeOK, SndType
<1>1. NextNumber(snd) = After(snd.seq) /\ After(snd.seq) \in 0..Mod-1
  BY <1>0, AfterFacts DEF NextNumber, After
<1>s. HAVE snd' = [NextFile(snd) EXCEPT !.streaming = on]
<1>2. CASE snd.file < Len(Files)
  <2> DEFINE pkt == Packet("F", After(snd.seq), snd.file + 1)
  <2>1. pkt \in Packets
    BY <1>0, <1>1, PacketType DEF Types, SndType
  <2>2. snd' = [[[snd EXCEPT !.st = "ssfil", !.file = @ + 1, !.pos = 0]
                   EXCEPT !.seq = After(snd.seq), !.retries = 0, !.pkt = pkt] EXCEPT !.streaming = on]
    BY <1>0, <1>1, <1>2, <1>s DEF NextFile, SendNext, NextNumber, After, SndType
  <2> HIDE DEF pkt
  <2>3. snd' = [st |-> "ssfil", seq |-> After(snd.seq), retries |-> 0, streaming |-> on,
                pkt |-> pkt, file |-> snd.file + 1, pos |-> 0]
    BY <1>0, <2>2 DEF SndType
  <2>4. /\ snd' \in SndType /\ snd'.st = "ssfil" /\ snd'.seq = After(snd.seq) /\ snd'.retries = 0
        /\ snd'.pkt = pkt /\ snd'.file = snd.file + 1 /\ snd'.pos = 0 /\ snd'.streaming = on
    <3>1. /\ snd.file + 1 \in 0..Len(Files) /\ 0 \in 0..MaxTry /\ 0 \in Nat /\ "ssfil" \in SndStates
          /\ pkt \in Packets \cup {None}
      BY <1>0, <1>2, <2>1 DEF SndType, SndStates
    <3> QED BY <1>1, <2>3, <3>1, Zenon DEF SndType
  <2>5. Current("ssfil")' = pkt
    BY <2>4 DEF Current, pkt
  <2> QED BY <1>2, <2>4, <2>5 DEF Follows
<1>3. CASE ~(snd.file < Len(Files))
  <2> DEFINE pkt == Packet("B", After(snd.seq), 0)
  <2>1. pkt \in Packets
    BY <1>0, <1>1, PacketType DEF Types, SndType
  <2>2. snd' = [[[snd EXCEPT !.st = "sseot"]
                   EXCEPT !.seq = After(snd.seq), !.retries = 0, !.pkt = pkt] EXCEPT !.streaming = on]
    BY <1>0, <1>1, <1>3, <1>s DEF NextFile, SendNext, NextNumber, After, SndType
  <2> HIDE DEF pkt
  <2>3. snd' = [st |-> "sseot", seq |-> After(snd.seq), retries |-> 0, streaming |-> on,
                pkt |-> pkt, file |-> snd.file, pos |-> snd.pos]
    BY <1>0, <2>2 DEF SndType
  <2>4. /\ snd' \in SndType /\ snd'.st = "sseot" /\ snd'.seq = After(snd.seq) /\ snd'.retries = 0
        /\ snd'.pkt = pkt /\ snd'.file = snd.file /\ snd'.pos = snd.pos /\ snd'.streaming = on
    <3>1. /\ snd.file \in 0..Len(Files) /\ 0 \in 0..MaxTry /\ snd.pos \in Nat /\ "sseot" \in SndStates
          /\ pkt \in Packets \cup {None}
      BY <1>0, <2>1 DEF SndType, SndStates
    <3> QED BY <1>1, <2>3, <3>1, Zenon DEF SndType
  <2>5. Current("sseot")' = pkt
    BY <2>4 DEF Current, pkt
  <2>6. snd.file = Len(Files)
    BY <1>0, <1>3 DEF SndType
  <2> QED BY <2>4, <2>5, <2>6 DEF Follows
<1> QED BY <1>2, <1>3

\* sdata or seof.
LEMMA DataOrEofFacts ==
  ASSUME TypeOK, NEW k \in {"ssfil", "ssatt", "ssdat"}, snd.file \in 1..Len(Files),
         snd.pos \in 0..Len(Files[snd.file])
  PROVE  snd' = DataOrEof(snd) => \E k2 \in {"ssdat", "sseof"} : GoesOn(k, k2)
<1>0. /\ snd \in SndType /\ MaxTry \in Nat /\ snd.seq \in 0..Mod-1 /\ snd.pos \in Nat
      /\ Len(Files[snd.file]) \in Nat /\ snd.file \in 0..Len(Files) /\ 0 \in 0..MaxTry
      /\ snd.streaming \in BOOLEAN
  <2>1. snd \in SndType /\ MaxTry \in Nat /\ 0 \in 0..MaxTry
    BY KermitAssumption DEF TypeOK, SndType
  <2>2. Len(Files[snd.file]) \in Nat
    BY FilesType
  <2> QED BY <2>1, <2>2, SndTypes
<1>1. NextNumber(snd) = After(snd.seq) /\ After(snd.seq) \in 0..Mod-1
  BY <1>0, AfterFacts DEF NextNumber, After
<1>s. HAVE snd' = DataOrEof(snd)
<1>2. CASE snd.pos < Len(Files[snd.file])
  <2> DEFINE pkt == Packet("D", After(snd.seq), Files[snd.file][snd.pos + 1])
  <2>1. pkt \in Packets \cup {None} /\ snd.pos + 1 \in Nat
    <3>1. Files[snd.file][snd.pos + 1] \in Nat
      <4>1. snd.pos + 1 \in 1..Len(Files[snd.file])
        BY <1>0, <1>2
      <4> QED BY <4>1, FilesType
    <3>2. "D" \in Types
      BY DEF Types
    <3>3. pkt \in Packets
      BY <1>1, <3>1, <3>2, PacketType
    <3> QED BY <1>0, <3>3
  <2>2. snd' = [[snd EXCEPT !.st = "ssdat", !.pos = @ + 1]
                   EXCEPT !.seq = After(snd.seq), !.retries = 0, !.pkt = pkt]
    BY <1>0, <1>1, <1>2, <1>s DEF DataOrEof, SendNext, NextNumber, After, SndType
  <2> HIDE DEF pkt
  <2>3. snd' = [st |-> "ssdat", seq |-> After(snd.seq), retries |-> 0, streaming |-> snd.streaming,
                pkt |-> pkt, file |-> snd.file, pos |-> snd.pos + 1]
    BY <1>0, <2>2 DEF SndType
  <2>4. /\ snd' \in SndType /\ snd'.st = "ssdat" /\ snd'.seq = After(snd.seq)
        /\ snd'.retries = 0 /\ snd'.pkt = pkt
        /\ snd'.file = snd.file /\ snd'.pos = snd.pos + 1 /\ snd'.streaming = snd.streaming
    <3>1. "ssdat" \in SndStates
      BY DEF SndStates
    <3> QED BY <1>0, <1>1, <2>1, <2>3, <3>1, Zenon DEF SndType
  <2>5. Current("ssdat")' = pkt
    BY <2>4 DEF Current, pkt
  <2> QED BY <1>2, <2>4, <2>5 DEF GoesOn, Follows
<1>3. CASE ~(snd.pos < Len(Files[snd.file]))
  <2> DEFINE pkt == Packet("Z", After(snd.seq), 0)
  <2>1. pkt \in Packets \cup {None}
    BY <1>0, <1>1, PacketType DEF Types
  <2>2. snd' = [[snd EXCEPT !.st = "sseof"]
                   EXCEPT !.seq = After(snd.seq), !.retries = 0, !.pkt = pkt]
    BY <1>0, <1>1, <1>3, <1>s DEF DataOrEof, SendNext, NextNumber, After, SndType
  <2> HIDE DEF pkt
  <2>3. snd' = [st |-> "sseof", seq |-> After(snd.seq), retries |-> 0, streaming |-> snd.streaming,
                pkt |-> pkt, file |-> snd.file, pos |-> snd.pos]
    BY <1>0, <2>2 DEF SndType
  <2>4. /\ snd' \in SndType /\ snd'.st = "sseof" /\ snd'.seq = After(snd.seq)
        /\ snd'.retries = 0 /\ snd'.pkt = pkt
        /\ snd'.file = snd.file /\ snd'.pos = snd.pos /\ snd'.streaming = snd.streaming
    <3>1. "sseof" \in SndStates
      BY DEF SndStates
    <3> QED BY <1>0, <1>1, <2>1, <2>3, <3>1, Zenon DEF SndType
  <2>5. Current("sseof")' = pkt
    BY <2>4 DEF Current, pkt
  <2>6. snd.pos = Len(Files[snd.file])
    BY <1>0, <1>3
  <2> QED BY <2>4, <2>5, <2>6 DEF GoesOn, Follows
<1> QED BY <1>2, <1>3

\* The action of the state machine for an ACK.
LEMMA OnAckFacts ==
  ASSUME TypeOK, NEW k \in Sendings, Sender(k), Active(snd)
  PROVE  snd' = OnAck(snd) =>
           \/ k = "sseot" /\ snd' = [snd EXCEPT !.st = "done"]
           \/ \E k2 \in Sendings : GoesOn(k, k2)
<1>0. /\ snd \in SndType /\ MaxTry \in Nat /\ snd.seq \in 0..Mod-1 /\ snd.pos \in Nat
      /\ snd.file \in 0..Len(Files) /\ 0 \in 0..MaxTry /\ snd.streaming \in BOOLEAN
      /\ snd.st = k /\ opt.stream \in BOOLEAN /\ Len(Files) \in Nat
  BY KermitAssumption, SndTypes, OptTypes DEF TypeOK, SndType, Sender
<1>1. NextNumber(snd) = After(snd.seq) /\ After(snd.seq) \in 0..Mod-1
  BY <1>0, AfterFacts DEF NextNumber, After
<1>s. HAVE snd' = OnAck(snd)
<1>2. CASE k = "sseot"
  BY <1>0, <1>2, <1>s DEF OnAck
<1>3. CASE k = "ssini"
  <2> DEFINE on == opt.stream /\ snd.file < Len(Files)
  <2>1. on \in BOOLEAN /\ snd' = [NextFile(snd) EXCEPT !.streaming = on]
    BY <1>0, <1>3, <1>s DEF OnAck
  <2> HIDE DEF on
  <2>2. PICK k2 \in {"ssfil", "sseot"} :
           /\ snd' \in SndType /\ snd'.st = k2 /\ snd'.seq = After(snd.seq)
           /\ snd'.retries = 0 /\ snd'.streaming = on
           /\ snd'.pkt = Current(k2)' /\ Follows(k, k2)
    BY <1>3, <2>1, NextFileFacts
  <2> QED BY <1>3, <2>2 DEF GoesOn, Sendings, on
<1>4. CASE k = "sseof"
  <2>1. snd' = NextFile(snd)
    BY <1>0, <1>4, <1>s DEF OnAck
  <2>2. NextFile(snd) = [NextFile(snd) EXCEPT !.streaming = snd.streaming]
    BY <1>0 DEF NextFile, SendNext, SndType
  <2>3. PICK k2 \in {"ssfil", "sseot"} :
           /\ snd' \in SndType /\ snd'.st = k2 /\ snd'.seq = After(snd.seq) /\ snd'.retries = 0
           /\ snd'.streaming = snd.streaming /\ snd'.pkt = Current(k2)' /\ Follows(k, k2)
    BY <1>0, <1>4, <2>1, <2>2, NextFileFacts
  <2> QED BY <1>4, <2>3 DEF GoesOn, Sendings
<1>5. CASE k = "ssfil" /\ opt.attributes
  <2> DEFINE pkt == Packet("A", After(snd.seq), 0)
  <2>1. pkt \in Packets \cup {None}
    BY <1>0, <1>1, PacketType DEF Types
  <2>2. snd' = [[snd EXCEPT !.st = "ssatt"]
                   EXCEPT !.seq = After(snd.seq), !.retries = 0, !.pkt = pkt]
    BY <1>0, <1>1, <1>5, <1>s DEF OnAck, SendNext, NextNumber, After, SndType
  <2> HIDE DEF pkt
  <2>3. snd' = [st |-> "ssatt", seq |-> After(snd.seq), retries |-> 0, streaming |-> snd.streaming,
                pkt |-> pkt, file |-> snd.file, pos |-> snd.pos]
    BY <1>0, <2>2 DEF SndType
  <2>4. /\ snd' \in SndType /\ snd'.st = "ssatt" /\ snd'.seq = After(snd.seq)
        /\ snd'.retries = 0 /\ snd'.pkt = pkt
        /\ snd'.file = snd.file /\ snd'.pos = snd.pos /\ snd'.streaming = snd.streaming
    <3>1. "ssatt" \in SndStates
      BY DEF SndStates
    <3> QED BY <1>0, <1>1, <2>1, <2>3, <3>1, Zenon DEF SndType
  <2>5. Current("ssatt")' = pkt
    BY <2>4 DEF Current, pkt
  <2> QED BY <1>5, <2>4, <2>5 DEF GoesOn, Follows, Sendings
<1>6. CASE k \in {"ssatt", "ssdat"} \/ (k = "ssfil" /\ ~opt.attributes)
  <2>1. snd' = DataOrEof(snd) /\ k \in {"ssfil", "ssatt", "ssdat"}
    BY <1>0, <1>6, <1>s DEF OnAck
  <2>2. snd.file \in 1..Len(Files) /\ snd.pos \in 0..Len(Files[snd.file])
    BY <2>1 DEF Sender
  <2>3. PICK k2 \in {"ssdat", "sseof"} : GoesOn(k, k2)
    BY <2>1, <2>2, DataOrEofFacts
  <2> QED BY <2>3 DEF Sendings
<1> QED BY <1>2, <1>3, <1>4, <1>5, <1>6 DEF Sendings

SndKept ==
  /\ snd' \in SndType /\ snd'.seq = snd.seq /\ snd'.file = snd.file /\ snd'.pos = snd.pos
  /\ snd'.streaming = snd.streaming

Answered == toSnd # <<>> /\ Head(toSnd).type = "Y" /\ Head(toSnd).n = snd.seq

\* The five things that a step of the sender does: start, send a packet again, ...
SndStarts ==
  /\ snd.st = "s" /\ SndKept /\ snd'.st = "ssini" /\ snd'.pkt = Packet("S", 0, 0)
  /\ toRcv' = Put(toRcv, snd'.pkt, rcv) /\ toSnd' = toSnd

SndAgain ==
  /\ Active(snd) /\ ~snd.streaming /\ SndKept /\ snd'.st = snd.st /\ snd'.pkt = snd.pkt
  /\ toRcv' = Put(toRcv, snd.pkt, rcv) /\ toSnd' \in Seq(Packets) /\ Thins(toSnd', toSnd)

\* ... fail, go on with the next packet, or end well.
SndFails ==
  /\ Active(snd) /\ SndKept /\ snd'.st = "failed" /\ toSnd' = <<>>
  /\ toRcv' = toRcv \/ toRcv' = Put(toRcv, Packet("E", snd.seq, 0), rcv)

SndGoesOn(k, k2) ==
  /\ Active(snd) /\ GoesOn(k, k2) /\ toRcv' = Put(toRcv, snd'.pkt, rcv)
  /\ toSnd' \in Seq(Packets) /\ Thins(toSnd', toSnd)
  /\ ~StreamingData => Answered /\ Thins(toSnd', Tail(toSnd))

SndEnds(k) ==
  /\ Active(snd) /\ k = "sseot" /\ Answered /\ SndKept /\ snd'.st = "done"
  /\ toRcv' = toRcv /\ toSnd' = <<>>

SndDoes(k) ==
  \/ SndStarts \/ SndAgain \/ SndFails \/ SndEnds(k) \/ \E k2 \in Sendings : SndGoesOn(k, k2)

\* The lines after a step, by the sender after it.
LEMMA SendsFacts ==
  ASSUME NEW s, NEW line
  PROVE  Sends(s, line) =>
           /\ snd' = s
           /\ toRcv' = IF snd'.st = "done" \/ (snd'.st = "failed" /\ snd'.pkt.type # "E") THEN toRcv
                       ELSE Put(toRcv, snd'.pkt, rcv)
           /\ toSnd' = IF Ended(snd') THEN <<>> ELSE line
           /\ UNCHANGED <<rcv, opt>>
BY DEF Sends

LEMMA SndPkt ==
  ASSUME TypeOK, NEW k \in Sendings, Sender(k), Active(snd)
  PROVE  /\ snd.pkt \in Packets /\ snd.pkt # None /\ snd.pkt.n = snd.seq
         /\ snd.pkt.type \in {"S", "F", "A", "D", "Z", "B"}
         /\ snd.pkt.type = "D" <=> k = "ssdat"
<1>0. snd.seq \in 0..Mod-1 /\ snd.file \in Nat /\ snd.pkt = Current(k)
  BY KermitAssumption, SndTypes DEF Sender
<1>1. CASE k = "ssdat"
  <2>1. snd.file \in 1..Len(Files) /\ snd.pos \in 1..Len(Files[snd.file])
    BY <1>1, FilesType DEF Sender
  <2>2. Files[snd.file][snd.pos] \in Nat
    BY <2>1, FilesType
  <2> QED BY <1>0, <1>1, <2>2, PacketType DEF Current, Types
<1>2. CASE k # "ssdat"
  BY <1>0, <1>2, PacketType DEF Current, Types, Sendings
<1> QED BY <1>1, <1>2

\* errpkt.
LEMMA SndErrPkt ==
  ASSUME TypeOK, NEW line, Active(snd)
  PROVE  Sends(ErrPkt(snd), line) => SndFails
<1>0. /\ snd \in SndType /\ snd.seq \in 0..Mod-1 /\ snd.streaming \in BOOLEAN /\ snd.pos \in Nat
      /\ snd.file \in 0..Len(Files) /\ snd.retries \in 0..MaxTry
  BY SndTypes DEF TypeOK, SndType
<1> DEFINE pkt == Packet("E", snd.seq, 0)
<1>1. pkt \in Packets \cup {None} /\ pkt.type = "E"
  BY <1>0, PacketType DEF Types
<1>s. HAVE Sends(ErrPkt(snd), line)
<1>e. ErrPkt(snd) = [snd EXCEPT !.pkt = pkt, !.st = "failed"]
  BY DEF ErrPkt
<1> HIDE DEF pkt
<1>2. ErrPkt(snd) = [st |-> "failed", seq |-> snd.seq, retries |-> snd.retries,
                     streaming |-> snd.streaming, pkt |-> pkt, file |-> snd.file, pos |-> snd.pos]
  BY <1>0, <1>e DEF SndType
<1>3. /\ snd' = ErrPkt(snd)
      /\ toRcv' = IF ErrPkt(snd).st = "done" \/ (ErrPkt(snd).st = "failed" /\ ErrPkt(snd).pkt.type # "E")
                  THEN toRcv ELSE Put(toRcv, ErrPkt(snd).pkt, rcv)
      /\ toSnd' = IF Ended(ErrPkt(snd)) THEN <<>> ELSE line
  BY <1>s DEF Sends
<1>4. SndKept /\ snd'.st = "failed" /\ snd'.pkt = pkt
  <2>1. "failed" \in SndStates
    BY DEF SndStates
  <2>2. snd' = [st |-> "failed", seq |-> snd.seq, retries |-> snd.retries,
                streaming |-> snd.streaming, pkt |-> pkt, file |-> snd.file, pos |-> snd.pos]
    BY <1>2, <1>3
  <2> QED BY <1>0, <1>1, <2>1, <2>2, Zenon DEF SndKept, SndType
<1>5. toRcv' = Put(toRcv, pkt, rcv) /\ toSnd' = <<>>
  BY <1>1, <1>3, <1>4 DEF Ended
<1> QED BY <1>4, <1>5 DEF SndFails, pkt

\* resend.
LEMMA SndResend ==
  ASSUME TypeOK, NEW k \in Sendings, Sender(k), NEW line \in Seq(Packets), Thins(line, toSnd),
         Active(snd), ~snd.streaming
  PROVE  Sends(Resend(snd), line) => SndFails \/ SndAgain
<1>0. /\ snd \in SndType /\ snd.seq \in 0..Mod-1 /\ snd.streaming \in BOOLEAN /\ snd.pos \in Nat
      /\ snd.file \in 0..Len(Files) /\ snd.retries \in 0..MaxTry /\ snd.st \in SndStates
      /\ snd.pkt \in Packets /\ snd.pkt # None /\ MaxTry \in Nat
  BY SndTypes, SndPkt, KermitAssumption DEF TypeOK, SndType
<1>s. HAVE Sends(Resend(snd), line)
<1>1. CASE snd.retries + 1 > MaxTry
  BY <1>1, <1>s, SndErrPkt DEF Resend
<1>2. CASE ~(snd.retries + 1 > MaxTry)
  <2>1. Resend(snd) = [snd EXCEPT !.retries = @ + 1, !.pkt = snd.pkt]
    BY <1>0, <1>2 DEF Resend, SndType
  <2>2. Resend(snd) = [st |-> snd.st, seq |-> snd.seq, retries |-> snd.retries + 1,
                       streaming |-> snd.streaming, pkt |-> snd.pkt, file |-> snd.file, pos |-> snd.pos]
    BY <1>0, <2>1 DEF SndType
  <2>3. /\ snd' = Resend(snd)
        /\ toRcv' = IF Resend(snd).st = "done" \/ (Resend(snd).st = "failed" /\ Resend(snd).pkt.type # "E")
                    THEN toRcv ELSE Put(toRcv, Resend(snd).pkt, rcv)
        /\ toSnd' = IF Ended(Resend(snd)) THEN <<>> ELSE line
    BY <1>s DEF Sends
  <2>4. SndKept /\ snd'.st = snd.st /\ snd'.pkt = snd.pkt
    <3>1. snd' = [st |-> snd.st, seq |-> snd.seq, retries |-> snd.retries + 1,
                  streaming |-> snd.streaming, pkt |-> snd.pkt, file |-> snd.file, pos |-> snd.pos]
      BY <2>2, <2>3
    <3>2. snd.retries + 1 \in 0..MaxTry /\ snd.pkt \in Packets \cup {None}
      BY <1>0, <1>2
    <3> QED BY <1>0, <3>1, <3>2, Zenon DEF SndKept, SndType
  <2>5. toRcv' = Put(toRcv, snd.pkt, rcv) /\ toSnd' = line
    BY <2>3, <2>4 DEF Ended, Active
  <2> QED BY <2>4, <2>5 DEF SndAgain
<1> QED BY <1>1, <1>2

\* The action for an ACK that came, or that the sender does without.
LEMMA SndOnAck ==
  ASSUME TypeOK, NEW k \in Sendings, Sender(k), NEW line \in Seq(Packets), Thins(line, toSnd),
         Active(snd), ~StreamingData => Answered /\ Thins(line, Tail(toSnd))
  PROVE  Sends(OnAck(snd), line) => SndDoes(k)
<1>0. /\ snd \in SndType /\ snd.seq \in 0..Mod-1 /\ snd.streaming \in BOOLEAN /\ snd.pos \in Nat
      /\ snd.file \in 0..Len(Files) /\ snd.retries \in 0..MaxTry /\ snd.pkt \in Packets \cup {None}
  BY SndTypes DEF TypeOK, SndType
<1>s. HAVE Sends(OnAck(snd), line)
<1>1. /\ snd' = OnAck(snd)
      /\ toRcv' = IF snd'.st = "done" \/ (snd'.st = "failed" /\ snd'.pkt.type # "E") THEN toRcv
                  ELSE Put(toRcv, snd'.pkt, rcv)
      /\ toSnd' = IF Ended(snd') THEN <<>> ELSE line
  BY <1>s, Zenon DEF Sends
<1>2. CASE k = "sseot" /\ snd' = [snd EXCEPT !.st = "done"]
  <2>1. snd' = [st |-> "done", seq |-> snd.seq, retries |-> snd.retries, streaming |-> snd.streaming,
                pkt |-> snd.pkt, file |-> snd.file, pos |-> snd.pos]
    BY <1>0, <1>2 DEF SndType
  <2>2. SndKept /\ snd'.st = "done"
    <3>1. "done" \in SndStates
      BY DEF SndStates
    <3> QED BY <1>0, <2>1, <3>1, Zenon DEF SndKept, SndType
  <2>3. toRcv' = toRcv /\ toSnd' = <<>>
    BY <1>1, <2>2 DEF Ended
  <2>4. Answered
    BY <1>2, SndPkt DEF StreamingData
  <2> QED BY <1>2, <2>2, <2>3, <2>4 DEF SndEnds, SndDoes
<1>3. ASSUME NEW k2 \in Sendings, GoesOn(k, k2) PROVE SndDoes(k)
  <2>1. snd'.st \notin {"done", "failed"}
    BY <1>3 DEF GoesOn, Sendings
  <2>2. toRcv' = Put(toRcv, snd'.pkt, rcv) /\ toSnd' = line
    BY <1>1, <2>1 DEF Ended
  <2>3. SndGoesOn(k, k2)
    BY <1>3, <2>2 DEF SndGoesOn
  <2> QED BY <2>3 DEF SndDoes
<1> QED BY <1>1, <1>2, <1>3, OnAckFacts

\* The action for a packet with the right number.
LEMMA SndOnReply ==
  ASSUME TypeOK, NEW k \in Sendings, Sender(k), NEW line \in Seq(Packets), toSnd # <<>>,
         Thins(line, toSnd), Active(snd), Thins(line, Tail(toSnd)),
         StreamingData \/ Head(toSnd).n = snd.seq
  PROVE  Sends(OnReply(snd, Head(toSnd)), line) => SndDoes(k)
<1>s. HAVE Sends(OnReply(snd, Head(toSnd)), line)
<1>1. CASE Head(toSnd).type = "Y"
  <2>1. Sends(OnAck(snd), line)
    BY <1>1, <1>s DEF OnReply
  <2> QED BY <1>1, <2>1, SndOnAck DEF Answered
<1>2. CASE Head(toSnd).type = "E"
  <2>0. /\ snd \in SndType /\ snd.seq \in 0..Mod-1 /\ snd.streaming \in BOOLEAN /\ snd.pos \in Nat
        /\ snd.file \in 0..Len(Files) /\ snd.retries \in 0..MaxTry
        /\ snd.pkt \in Packets \cup {None} /\ snd.pkt.type # "E"
    BY SndTypes, SndPkt DEF TypeOK, SndType
  <2>1. Sends([snd EXCEPT !.st = "failed"], line)
    BY <1>2, <1>s DEF OnReply
  <2>2. /\ snd' = [snd EXCEPT !.st = "failed"]
        /\ toRcv' = IF snd'.st = "done" \/ (snd'.st = "failed" /\ snd'.pkt.type # "E") THEN toRcv
                    ELSE Put(toRcv, snd'.pkt, rcv)
        /\ toSnd' = IF Ended(snd') THEN <<>> ELSE line
    BY <2>1, SendsFacts
  <2>3. snd' = [st |-> "failed", seq |-> snd.seq, retries |-> snd.retries,
                streaming |-> snd.streaming, pkt |-> snd.pkt, file |-> snd.file, pos |-> snd.pos]
    BY <2>0, <2>2 DEF SndType
  <2>4. SndKept /\ snd'.st = "failed" /\ snd'.pkt = snd.pkt
    <3>1. "failed" \in SndStates
      BY DEF SndStates
    <3> QED BY <2>0, <2>3, <3>1, Zenon DEF SndKept, SndType
  <2>5. toRcv' = toRcv /\ toSnd' = <<>>
    BY <2>0, <2>2, <2>4 DEF Ended
  <2> QED BY <2>4, <2>5 DEF SndFails, SndDoes
<1>3. CASE Head(toSnd).type \notin {"Y", "E"}
  <2>1. Sends(ErrPkt(snd), line)
    BY <1>3, <1>s DEF OnReply
  <2> QED BY <2>1, SndErrPkt DEF SndDoes
<1> QED BY <1>1, <1>2, <1>3

\* Every step of the sender is one of these.
LEMMA SndCases ==
  ASSUME TypeOK, NEW k \in Sendings, Sender(k)
  PROVE  SndStep \/ SndTimeout =>
           SndDoes(k) /\ UNCHANGED <<rcv, opt>> /\ faults' \in faults..MaxFaults
<1>0. toSnd \in Seq(Packets) /\ faults \in 0..MaxFaults /\ MaxFaults \in Nat /\ Thins(toSnd, toSnd)
  BY ThinsSame, KermitAssumption DEF TypeOK
<1>s. HAVE SndStep \/ SndTimeout
<1>1. CASE StartSending
  <2>0. /\ snd \in SndType /\ snd.seq \in 0..Mod-1 /\ snd.streaming \in BOOLEAN /\ snd.pos \in Nat
        /\ snd.file \in 0..Len(Files) /\ snd.retries \in 0..MaxTry
    BY SndTypes DEF TypeOK, SndType
  <2> DEFINE pkt == Packet("S", 0, 0)
  <2>1. pkt \in Packets \cup {None}
    BY <2>0, PacketType, KermitAssumption DEF Types
  <2>2. snd.st = "s" /\ faults' = faults /\ Sends([snd EXCEPT !.st = "ssini", !.pkt = pkt], toSnd)
    BY <1>1 DEF StartSending
  <2> HIDE DEF pkt
  <2>3. /\ snd' = [snd EXCEPT !.st = "ssini", !.pkt = pkt]
        /\ toRcv' = IF snd'.st = "done" \/ (snd'.st = "failed" /\ snd'.pkt.type # "E") THEN toRcv
                    ELSE Put(toRcv, snd'.pkt, rcv)
        /\ toSnd' = IF Ended(snd') THEN <<>> ELSE toSnd
        /\ UNCHANGED <<rcv, opt>>
    BY <2>2, SendsFacts
  <2>4. snd' = [st |-> "ssini", seq |-> snd.seq, retries |-> snd.retries,
                streaming |-> snd.streaming, pkt |-> pkt, file |-> snd.file, pos |-> snd.pos]
    BY <2>0, <2>3 DEF SndType
  <2>5. SndKept /\ snd'.st = "ssini" /\ snd'.pkt = pkt
    <3>1. "ssini" \in SndStates
      BY DEF SndStates
    <3> QED BY <2>0, <2>1, <2>4, <3>1, Zenon DEF SndKept, SndType
  <2>6. toRcv' = Put(toRcv, snd'.pkt, rcv) /\ toSnd' = toSnd
    BY <2>3, <2>5 DEF Ended
  <2> QED BY <1>0, <2>2, <2>3, <2>5, <2>6 DEF SndStarts, SndDoes, pkt
<1>2. CASE SndInput
  <2>1. /\ Active(snd) /\ ~StreamingData /\ toSnd # <<>> /\ faults' = faults
        /\ UNCHANGED <<rcv, opt>>
    BY <1>2 DEF SndInput, Sends
  <2>2. CASE Good(snd, Head(toSnd))
    <3>1. PICK rest \in Flushed(snd, Tail(toSnd)) : Sends(OnReply(snd, Head(toSnd)), rest)
      BY <1>2, <2>2 DEF SndInput
    <3>2. rest \in Seq(Packets) /\ Thins(rest, toSnd) /\ Thins(rest, Tail(toSnd))
      BY <1>0, <2>1, ThinsFlushed
    <3>3. Head(toSnd).n = snd.seq
      BY <2>2 DEF Good
    <3> QED BY <1>0, <2>1, <3>1, <3>2, <3>3, SndOnReply
  <2>3. CASE ~Good(snd, Head(toSnd))
    <3>1. Sends(OnBad(snd), Tail(toSnd))
      BY <1>2, <2>3 DEF SndInput
    <3>2. Tail(toSnd) \in Seq(Packets) /\ Thins(Tail(toSnd), toSnd)
      BY <1>0, <2>1, ThinsTail
    <3>3. CASE snd.streaming
      BY <1>0, <2>1, <3>1, <3>3, SndErrPkt DEF OnBad, SndDoes
    <3>4. CASE ~snd.streaming
      <4>1. Sends(Resend(snd), Tail(toSnd))
        BY <3>1, <3>4 DEF OnBad
      <4>2. SndFails \/ SndAgain
        BY <2>1, <3>2, <3>4, <4>1, SndResend
      <4> QED BY <1>0, <2>1, <4>2 DEF SndDoes
    <3> QED BY <3>3, <3>4
  <2> QED BY <2>2, <2>3
<1>3. CASE SndStream
  <2>1. Active(snd) /\ StreamingData /\ faults' = faults /\ UNCHANGED <<rcv, opt>>
    BY <1>3 DEF SndStream, Sends
  <2>2. CASE Sends(OnAck(snd), toSnd)
    BY <1>0, <2>1, <2>2, SndOnAck
  <2>3. CASE /\ toSnd # <<>>
             /\ Sends(IF Head(toSnd).type \in {"Q", "N"} THEN ErrPkt(snd)
                      ELSE OnReply(snd, Head(toSnd)), Tail(toSnd))
    <3>1. /\ Tail(toSnd) \in Seq(Packets) /\ Thins(Tail(toSnd), toSnd)
          /\ Thins(Tail(toSnd), Tail(toSnd))
      BY <1>0, <2>3, ThinsTail, ThinsSame
    <3>2. CASE Head(toSnd).type \in {"Q", "N"}
      BY <1>0, <2>1, <2>3, <3>2, SndErrPkt DEF SndDoes
    <3>3. CASE Head(toSnd).type \notin {"Q", "N"}
      <4>1. Sends(OnReply(snd, Head(toSnd)), Tail(toSnd))
        BY <2>3, <3>3
      <4>2. SndDoes(k)
        BY <2>1, <2>3, <3>1, <4>1, SndOnReply
      <4> QED BY <1>0, <2>1, <4>2
    <3> QED BY <3>2, <3>3
  <2> QED BY <1>3, <2>2, <2>3 DEF SndStream
<1>4. CASE SndTimeout
  <2>1. /\ Active(snd) /\ ~snd.streaming /\ Sends(Resend(snd), toSnd) /\ UNCHANGED <<rcv, opt>>
        /\ faults' = faults \/ (faults < MaxFaults /\ faults' = faults + 1)
    BY <1>4 DEF SndTimeout, Alarm, Sends
  <2>2. SndFails \/ SndAgain
    BY <1>0, <2>1, SndResend
  <2> QED BY <1>0, <2>1, <2>2 DEF SndDoes
<1> QED BY <1>s, <1>1, <1>2, <1>3, <1>4 DEF SndStep

-----------------------------------------------------------------------------
(* What a step of the receiver does.                                       *)

RcvType == [st : RcvStates, seq : 0..Mod-1, retries : 0..MaxTry, streaming : BOOLEAN,
            pkt : Packets \cup {None}, data : Seq(Nat), got : Seq(Seq(Nat))]

RcvKept ==
  /\ rcv' \in RcvType /\ rcv'.seq = rcv.seq /\ rcv'.streaming = rcv.streaming
  /\ rcv'.data = rcv.data /\ rcv'.got = rcv.got

\* It starts, sends its answer again, fails, ...
RcvStarts ==
  /\ rcv.st = "v" /\ RcvKept /\ rcv'.st = "srini" /\ rcv'.pkt = rcv.pkt
  /\ toRcv' = toRcv /\ toSnd' = toSnd

RcvAgain ==
  /\ Active(rcv) /\ ~rcv.streaming /\ RcvKept /\ rcv'.st = rcv.st
  /\ rcv'.pkt = IF rcv.pkt = None THEN Packet("N", rcv.seq, 0) ELSE rcv.pkt
  /\ toSnd' = Put(toSnd, rcv'.pkt, snd) /\ toRcv' \in Seq(Packets) /\ Thins(toRcv', toRcv)

RcvFails ==
  /\ Active(rcv) /\ RcvKept /\ rcv'.st = "failed" /\ toRcv' = <<>>
  /\ toSnd' = toSnd \/ toSnd' = Put(toSnd, Packet("E", rcv.seq, 0), snd)

\* ... or takes the packet m, the next one.
TakesAs(m) ==
  \/ /\ m.type = "S" /\ rcv.st = "srini" /\ rcv'.st = "srfil" /\ rcv'.streaming = opt.stream
     /\ rcv'.data = rcv.data /\ rcv'.got = rcv.got
  \/ /\ m.type = "B" /\ rcv.st = "srfil" /\ rcv'.st = "done" /\ rcv'.streaming = rcv.streaming
     /\ rcv'.data = rcv.data /\ rcv'.got = rcv.got
  \/ /\ m.type = "F" /\ rcv.st = "srfil" /\ rcv'.st = "sratt" /\ rcv'.streaming = rcv.streaming
     /\ rcv'.data = <<>> /\ rcv'.got = rcv.got
  \/ /\ m.type = "A" /\ rcv.st = "sratt" /\ rcv'.st = "sratt" /\ rcv'.streaming = rcv.streaming
     /\ rcv'.data = rcv.data /\ rcv'.got = rcv.got
  \/ /\ m.type = "D" /\ rcv.st \in {"sratt", "srdat"} /\ rcv'.st = "srdat"
     /\ rcv'.streaming = rcv.streaming
     /\ rcv'.data = Append(rcv.data, m.data) /\ rcv'.got = rcv.got
  \/ /\ m.type = "Z" /\ rcv.st \in {"sratt", "srdat"} /\ rcv'.st = "srfil"
     /\ rcv'.streaming = rcv.streaming
     /\ rcv'.data = <<>> /\ rcv'.got = Append(rcv.got, rcv.data)

RcvTakes(m) ==
  /\ Active(rcv) /\ toRcv # <<>> /\ m = Head(toRcv) /\ m.n = rcv.seq
  /\ rcv' \in RcvType /\ rcv'.seq = After(rcv.seq) /\ rcv'.retries = 0 /\ TakesAs(m)
  /\ IF rcv.streaming /\ m.type = "D" THEN toSnd' = toSnd
     ELSE rcv'.pkt = Packet("Y", rcv.seq, 0) /\ toSnd' = Put(toSnd, Packet("Y", rcv.seq, 0), snd)
  /\ toRcv' \in Seq(Packets) /\ Thins(toRcv', Tail(toRcv))
  /\ IF rcv'.st = "done" THEN toRcv' = <<>> ELSE (rcv.streaming => toRcv' = Tail(toRcv))

RcvDoes == RcvStarts \/ RcvAgain \/ RcvFails \/ \E m \in Packets : RcvTakes(m)

LEMMA ReceivesFacts ==
  ASSUME NEW r, NEW sends, NEW line
  PROVE  Receives(r, sends, line) =>
           /\ rcv' = r /\ toSnd' = IF sends THEN Put(toSnd, rcv'.pkt, snd) ELSE toSnd
           /\ toRcv' = IF Ended(rcv') THEN <<>> ELSE line
           /\ UNCHANGED <<snd, opt>>
BY DEF Receives

LEMMA RcvErrPkt ==
  ASSUME TypeOK, NEW line, Active(rcv)
  PROVE  Receives(ErrPkt(rcv), TRUE, line) => RcvFails
<1>0. /\ rcv \in RcvType /\ rcv.seq \in 0..Mod-1 /\ rcv.streaming \in BOOLEAN
      /\ rcv.data \in Seq(Nat) /\ rcv.got \in Seq(Seq(Nat)) /\ rcv.retries \in 0..MaxTry
  BY RcvTypes DEF TypeOK, RcvType
<1> DEFINE pkt == Packet("E", rcv.seq, 0)
<1>1. pkt \in Packets \cup {None}
  BY <1>0, PacketType DEF Types
<1>s. HAVE Receives(ErrPkt(rcv), TRUE, line)
<1>2. rcv' = [rcv EXCEPT !.pkt = pkt, !.st = "failed"]
  BY <1>s, ReceivesFacts DEF ErrPkt
<1> HIDE DEF pkt
<1>3. rcv' = [st |-> "failed", seq |-> rcv.seq, retries |-> rcv.retries,
              streaming |-> rcv.streaming, pkt |-> pkt, data |-> rcv.data, got |-> rcv.got]
  BY <1>0, <1>2 DEF RcvType
<1>4. RcvKept /\ rcv'.st = "failed" /\ rcv'.pkt = pkt
  <2>1. "failed" \in RcvStates
    BY DEF RcvStates
  <2> QED BY <1>0, <1>1, <1>3, <2>1, Zenon DEF RcvKept, RcvType
<1>5. toSnd' = Put(toSnd, pkt, snd) /\ toRcv' = <<>>
  BY <1>s, <1>4, ReceivesFacts DEF Ended
<1> QED BY <1>4, <1>5 DEF RcvFails, pkt

LEMMA RcvResend ==
  ASSUME TypeOK, NEW line \in Seq(Packets), Thins(line, toRcv), Active(rcv), ~rcv.streaming
  PROVE  Receives(Resend(rcv), TRUE, line) => RcvFails \/ RcvAgain
<1>0. /\ rcv \in RcvType /\ rcv.seq \in 0..Mod-1 /\ rcv.streaming \in BOOLEAN
      /\ rcv.data \in Seq(Nat) /\ rcv.got \in Seq(Seq(Nat)) /\ rcv.retries \in 0..MaxTry
      /\ rcv.st \in RcvStates /\ rcv.pkt \in Packets \cup {None} /\ MaxTry \in Nat
  BY RcvTypes, KermitAssumption DEF TypeOK, RcvType
<1>s. HAVE Receives(Resend(rcv), TRUE, line)
<1>1. CASE rcv.retries + 1 > MaxTry
  BY <1>1, <1>s, RcvErrPkt DEF Resend
<1>2. CASE ~(rcv.retries + 1 > MaxTry)
  <2> DEFINE pkt == IF rcv.pkt = None THEN Packet("N", rcv.seq, 0) ELSE rcv.pkt
  <2>1. pkt \in Packets \cup {None} /\ rcv.retries + 1 \in 0..MaxTry
    BY <1>0, <1>2, PacketType DEF Types
  <2>2. rcv' = [rcv EXCEPT !.retries = @ + 1, !.pkt = pkt]
    BY <1>0, <1>2, <1>s, ReceivesFacts DEF Resend
  <2> HIDE DEF pkt
  <2>3. rcv' = [st |-> rcv.st, seq |-> rcv.seq, retries |-> rcv.retries + 1,
                streaming |-> rcv.streaming, pkt |-> pkt, data |-> rcv.data, got |-> rcv.got]
    BY <1>0, <2>2 DEF RcvType
  <2>4. RcvKept /\ rcv'.st = rcv.st /\ rcv'.pkt = pkt
    BY <1>0, <2>1, <2>3, Zenon DEF RcvKept, RcvType
  <2>5. toSnd' = Put(toSnd, rcv'.pkt, snd) /\ toRcv' = line
    BY <1>s, <2>4, ReceivesFacts DEF Ended, Active
  <2> QED BY <2>4, <2>5 DEF RcvAgain, pkt
<1> QED BY <1>1, <1>2

\* The action of the state machine for the next packet.
LEMMA RcvOnPacket ==
  ASSUME TypeOK, Active(rcv), toRcv # <<>>, NEW rest \in Seq(Packets), Thins(rest, Tail(toRcv)),
         rcv.streaming => rest = Tail(toRcv), NEW m \in Packets, m = Head(toRcv), m.n = rcv.seq
  PROVE  Receives(OnPacket(rcv, m), Answers(OnPacket(rcv, m), m), rest) => RcvFails \/ RcvTakes(m)
<1>0. /\ rcv \in RcvType /\ rcv.seq \in 0..Mod-1 /\ rcv.streaming \in BOOLEAN
      /\ rcv.data \in Seq(Nat) /\ rcv.got \in Seq(Seq(Nat)) /\ rcv.retries \in 0..MaxTry
      /\ rcv.st \in RcvStates /\ rcv.pkt \in Packets \cup {None} /\ 0 \in 0..MaxTry
      /\ opt.stream \in BOOLEAN /\ m.data \in Nat /\ <<>> \in Seq(Nat)
  <2>1. rcv \in RcvType
    BY DEF TypeOK, RcvType
  <2>2. m.data \in Nat /\ 0 \in 0..MaxTry /\ <<>> \in Seq(Nat)
    BY KermitAssumption DEF Packets
  <2> QED BY <2>1, <2>2, RcvTypes, OptTypes, Zenon
<1>1. NextNumber(rcv) = After(rcv.seq) /\ After(rcv.seq) \in 0..Mod-1
  BY <1>0, AfterFacts DEF NextNumber, After
<1>s. HAVE Receives(OnPacket(rcv, m), Answers(OnPacket(rcv, m), m), rest)
<1>r. /\ rcv' = OnPacket(rcv, m)
      /\ toSnd' = IF Answers(rcv', m) THEN Put(toSnd, rcv'.pkt, snd) ELSE toSnd
      /\ toRcv' = IF Ended(rcv') THEN <<>> ELSE rest
  BY <1>s, ReceivesFacts
<1> DEFINE pkt == IF rcv.streaming /\ m.type = "D" THEN rcv.pkt ELSE Packet("Y", rcv.seq, 0)
<1>2. pkt \in Packets \cup {None}
  BY <1>0, PacketType DEF Types
<1>a. Ack(rcv, m) = [rcv EXCEPT !.seq = After(rcv.seq), !.retries = 0, !.pkt = pkt]
  BY <1>0, <1>1 DEF Ack, RcvType
<1> HIDE DEF pkt
<1>b. Ack(rcv, m) = [st |-> rcv.st, seq |-> After(rcv.seq), retries |-> 0,
                     streaming |-> rcv.streaming, pkt |-> pkt, data |-> rcv.data, got |-> rcv.got]
  BY <1>0, <1>a DEF RcvType
<1>t. ASSUME NEW st \in RcvStates \ {"failed", "v"}, NEW on \in BOOLEAN, NEW d \in Seq(Nat),
             NEW g \in Seq(Seq(Nat)), m.type = "D" => on = rcv.streaming,
             rcv' = [st |-> st, seq |-> After(rcv.seq), retries |-> 0,
                     streaming |-> on, pkt |-> pkt, data |-> d, got |-> g],
             (rcv'.st = st /\ rcv'.streaming = on /\ rcv'.data = d /\ rcv'.got = g) => TakesAs(m)
      PROVE  RcvTakes(m)
  <2>1. /\ rcv' \in RcvType /\ rcv'.st = st /\ rcv'.seq = After(rcv.seq) /\ rcv'.streaming = on
        /\ rcv'.pkt = pkt /\ rcv'.data = d /\ rcv'.got = g /\ rcv'.retries = 0
    BY <1>0, <1>1, <1>2, <1>t, Zenon DEF RcvType
  <2>2. TakesAs(m)
    BY <1>t, <2>1
  <2>3. Answers(rcv', m) <=> ~(rcv.streaming /\ m.type = "D")
    BY <1>t, <2>1 DEF Answers
  <2>4. IF rcv.streaming /\ m.type = "D" THEN toSnd' = toSnd
        ELSE rcv'.pkt = Packet("Y", rcv.seq, 0) /\ toSnd' = Put(toSnd, Packet("Y", rcv.seq, 0), snd)
    BY <1>r, <2>1, <2>3 DEF pkt
  <2>5. /\ toRcv' \in Seq(Packets) /\ Thins(toRcv', Tail(toRcv))
        /\ IF rcv'.st = "done" THEN toRcv' = <<>> ELSE (rcv.streaming => toRcv' = Tail(toRcv))
    BY <1>r, <1>t, <2>1, ThinsEmpty DEF Ended
  <2> QED BY <2>1, <2>2, <2>4, <2>5 DEF RcvTakes
<1>3. CASE rcv.st = "srini" /\ m.type = "S"
  <2>1. rcv' = [Ack(rcv, m) EXCEPT !.st = "srfil", !.streaming = opt.stream]
    BY <1>3, <1>r DEF OnPacket
  <2>2. rcv' = [st |-> "srfil", seq |-> After(rcv.seq), retries |-> 0,
                streaming |-> opt.stream, pkt |-> pkt, data |-> rcv.data, got |-> rcv.got]
    BY <1>0, <1>a, <2>1 DEF RcvType
  <2>3. "srfil" \in RcvStates \ {"failed", "v"}
    BY DEF RcvStates
  <2> QED BY <1>0, <1>3, <1>t, <2>2, <2>3 DEF TakesAs
<1>4. CASE rcv.st = "srfil" /\ m.type = "B"
  <2>1. rcv' = [Ack(rcv, m) EXCEPT !.st = "done"]
    BY <1>4, <1>r DEF OnPacket
  <2>2. rcv' = [st |-> "done", seq |-> After(rcv.seq), retries |-> 0,
                streaming |-> rcv.streaming, pkt |-> pkt, data |-> rcv.data, got |-> rcv.got]
    BY <1>b, <2>1
  <2>3. "done" \in RcvStates \ {"failed", "v"}
    BY DEF RcvStates
  <2> QED BY <1>0, <1>4, <1>t, <2>2, <2>3 DEF TakesAs
<1>5. CASE rcv.st = "srfil" /\ m.type = "F"
  <2>1. rcv' = [Ack(rcv, m) EXCEPT !.st = "sratt", !.data = <<>>]
    BY <1>5, <1>r DEF OnPacket
  <2>2. rcv' = [st |-> "sratt", seq |-> After(rcv.seq), retries |-> 0,
                streaming |-> rcv.streaming, pkt |-> pkt, data |-> <<>>, got |-> rcv.got]
    BY <1>0, <1>a, <2>1 DEF RcvType
  <2>3. "sratt" \in RcvStates \ {"failed", "v"}
    BY DEF RcvStates
  <2> QED BY <1>0, <1>5, <1>t, <2>2, <2>3 DEF TakesAs
<1>6. CASE rcv.st = "sratt" /\ m.type = "A"
  <2>1. rcv' = Ack(rcv, m)
    BY <1>6, <1>r DEF OnPacket
  <2>2. rcv' = [st |-> "sratt", seq |-> After(rcv.seq), retries |-> 0,
                streaming |-> rcv.streaming, pkt |-> pkt, data |-> rcv.data, got |-> rcv.got]
    BY <1>6, <1>b, <2>1
  <2>3. "sratt" \in RcvStates \ {"failed", "v"}
    BY DEF RcvStates
  <2> QED BY <1>0, <1>6, <1>t, <2>2, <2>3 DEF TakesAs
<1>7. CASE rcv.st \in {"sratt", "srdat"} /\ m.type = "D"
  <2> DEFINE d == Append(rcv.data, m.data)
  <2>0. d \in Seq(Nat)
    BY <1>0
  <2>1. rcv' = [Ack(rcv, m) EXCEPT !.st = "srdat", !.data = Append(@, m.data)]
    BY <1>7, <1>r DEF OnPacket
  <2>2. rcv' = [st |-> "srdat", seq |-> After(rcv.seq), retries |-> 0,
                streaming |-> rcv.streaming, pkt |-> pkt, data |-> d, got |-> rcv.got]
    BY <1>0, <1>a, <2>1 DEF RcvType
  <2>3. "srdat" \in RcvStates \ {"failed", "v"}
    BY DEF RcvStates
  <2>4. rcv'.st = "srdat" /\ rcv'.streaming = rcv.streaming /\ rcv'.data = d /\ rcv'.got = rcv.got
          => TakesAs(m)
    BY <1>7 DEF TakesAs
  <2> HIDE DEF d
  <2> QED BY <1>0, <1>t, <2>0, <2>2, <2>3, <2>4
<1>8. CASE rcv.st \in {"sratt", "srdat"} /\ m.type = "Z"
  <2> DEFINE g == Append(rcv.got, rcv.data)
  <2>0. g \in Seq(Seq(Nat))
    BY <1>0
  <2>1. rcv' = [Ack(rcv, m) EXCEPT !.st = "srfil", !.got = Append(@, rcv.data), !.data = <<>>]
    BY <1>8, <1>r DEF OnPacket
  <2>2. rcv' = [st |-> "srfil", seq |-> After(rcv.seq), retries |-> 0,
                streaming |-> rcv.streaming, pkt |-> pkt, data |-> <<>>, got |-> g]
    BY <1>0, <1>a, <2>1 DEF RcvType
  <2>3. "srfil" \in RcvStates \ {"failed", "v"}
    BY DEF RcvStates
  <2>4. rcv'.st = "srfil" /\ rcv'.streaming = rcv.streaming /\ rcv'.data = <<>> /\ rcv'.got = g
          => TakesAs(m)
    BY <1>8 DEF TakesAs
  <2> HIDE DEF g
  <2> QED BY <1>0, <1>8, <1>t, <2>0, <2>2, <2>3, <2>4
<1>9. CASE m.type = "E"
  <2>1. rcv' = [rcv EXCEPT !.st = "failed"]
    BY <1>9, <1>r DEF OnPacket
  <2>2. rcv' = [st |-> "failed", seq |-> rcv.seq, retries |-> rcv.retries,
                streaming |-> rcv.streaming, pkt |-> rcv.pkt, data |-> rcv.data, got |-> rcv.got]
    BY <1>0, <2>1 DEF RcvType
  <2>3. RcvKept /\ rcv'.st = "failed"
    <3>1. "failed" \in RcvStates
      BY DEF RcvStates
    <3> QED BY <1>0, <2>2, <3>1, Zenon DEF RcvKept, RcvType
  <2>4. toSnd' = toSnd /\ toRcv' = <<>>
    BY <1>9, <1>r, <2>3 DEF Answers, Ended
  <2> QED BY <2>3, <2>4 DEF RcvFails
<1>10. CASE /\ ~(rcv.st = "srini" /\ m.type = "S") /\ ~(rcv.st = "srfil" /\ m.type = "B")
            /\ ~(rcv.st = "srfil" /\ m.type = "F") /\ ~(rcv.st = "sratt" /\ m.type = "A")
            /\ ~(rcv.st \in {"sratt", "srdat"} /\ m.type = "D")
            /\ ~(rcv.st \in {"sratt", "srdat"} /\ m.type = "Z") /\ m.type # "E"
  <2>1. OnPacket(rcv, m) = ErrPkt(rcv)
    BY <1>10 DEF OnPacket
  <2>2. ErrPkt(rcv).st = "failed"
    BY <1>0 DEF ErrPkt, RcvType
  <2>3. Answers(OnPacket(rcv, m), m) = TRUE
    BY <1>10, <2>1, <2>2 DEF Answers
  <2>4. Receives(ErrPkt(rcv), TRUE, rest)
    BY <1>s, <2>1, <2>3
  <2> QED BY <2>4, RcvErrPkt
<1> QED BY <1>3, <1>4, <1>5, <1>6, <1>7, <1>8, <1>9, <1>10

\* Every step of the receiver is one of these.
LEMMA RcvCases ==
  ASSUME TypeOK
  PROVE  RcvStep \/ RcvTimeout =>
           RcvDoes /\ UNCHANGED <<snd, opt>> /\ faults' \in faults..MaxFaults
<1>0. toRcv \in Seq(Packets) /\ faults \in 0..MaxFaults /\ MaxFaults \in Nat /\ Thins(toRcv, toRcv)
  BY ThinsSame, KermitAssumption DEF TypeOK
<1>s. HAVE RcvStep \/ RcvTimeout
<1>1. CASE StartReceiving
  <2>0. /\ rcv \in RcvType /\ rcv.seq \in 0..Mod-1 /\ rcv.streaming \in BOOLEAN
        /\ rcv.data \in Seq(Nat) /\ rcv.got \in Seq(Seq(Nat)) /\ rcv.retries \in 0..MaxTry
        /\ rcv.pkt \in Packets \cup {None}
    BY RcvTypes DEF TypeOK, RcvType
  <2>1. /\ rcv.st = "v" /\ rcv' = [rcv EXCEPT !.st = "srini"]
        /\ UNCHANGED <<snd, toRcv, toSnd, opt, faults>>
    BY <1>1 DEF StartReceiving
  <2>2. rcv' = [st |-> "srini", seq |-> rcv.seq, retries |-> rcv.retries,
                streaming |-> rcv.streaming, pkt |-> rcv.pkt, data |-> rcv.data, got |-> rcv.got]
    BY <2>0, <2>1 DEF RcvType
  <2>3. RcvKept /\ rcv'.st = "srini" /\ rcv'.pkt = rcv.pkt
    <3>1. "srini" \in RcvStates
      BY DEF RcvStates
    <3> QED BY <2>0, <2>2, <3>1, Zenon DEF RcvKept, RcvType
  <2> QED BY <1>0, <2>1, <2>3 DEF RcvStarts, RcvDoes
<1>2. CASE RcvInput
  <2> DEFINE m == Head(toRcv)
  <2>1. Active(rcv) /\ toRcv # <<>> /\ faults' = faults /\ UNCHANGED <<snd, opt>>
    BY <1>2 DEF RcvInput, Receives
  <2>2. m \in Packets
    BY <1>0, <2>1
  <2>3. CASE Good(rcv, m)
    <3>1. PICK rest \in Flushed(rcv, Tail(toRcv)) :
            \/ Receives(OnPacket(rcv, m), Answers(OnPacket(rcv, m), m), rest)
            \/ Receives(ErrPkt(rcv), TRUE, rest)
      BY <1>2, <2>3 DEF RcvInput
    <3>2. /\ rest \in Seq(Packets) /\ Thins(rest, Tail(toRcv))
          /\ rcv.streaming => rest = Tail(toRcv)
      BY <1>0, <2>1, ThinsFlushed
    <3>3. m.n = rcv.seq
      BY <2>3 DEF Good
    <3>4. RcvFails \/ RcvTakes(m)
      <4>1. CASE Receives(OnPacket(rcv, m), Answers(OnPacket(rcv, m), m), rest)
        BY <2>1, <2>2, <3>2, <3>3, <4>1, RcvOnPacket
      <4>2. CASE Receives(ErrPkt(rcv), TRUE, rest)
        BY <2>1, <4>2, RcvErrPkt
      <4> QED BY <3>1, <4>1, <4>2
    <3> HIDE DEF m
    <3> QED BY <1>0, <2>1, <2>2, <3>4 DEF RcvDoes
  <2>4. CASE ~Good(rcv, m)
    <3>1. Receives(OnBad(rcv), TRUE, Tail(toRcv))
      BY <1>2, <2>4 DEF RcvInput
    <3>2. Tail(toRcv) \in Seq(Packets) /\ Thins(Tail(toRcv), toRcv)
      BY <1>0, <2>1, ThinsTail
    <3>3. CASE rcv.streaming
      <4>1. Receives(ErrPkt(rcv), TRUE, Tail(toRcv))
        BY <3>1, <3>3 DEF OnBad
      <4>2. RcvFails
        BY <2>1, <4>1, RcvErrPkt
      <4> QED BY <1>0, <2>1, <4>2 DEF RcvDoes
    <3>4. CASE ~rcv.streaming
      <4>1. Receives(Resend(rcv), TRUE, Tail(toRcv))
        BY <3>1, <3>4 DEF OnBad
      <4>2. RcvFails \/ RcvAgain
        BY <2>1, <3>2, <3>4, <4>1, RcvResend
      <4> QED BY <1>0, <2>1, <4>2 DEF RcvDoes
    <3> QED BY <3>3, <3>4
  <2> QED BY <2>3, <2>4
<1>3. CASE RcvTimeout
  <2>1. /\ Active(rcv) /\ ~rcv.streaming /\ Receives(Resend(rcv), TRUE, toRcv)
        /\ UNCHANGED <<snd, opt>>
        /\ faults' = faults \/ (faults < MaxFaults /\ faults' = faults + 1)
    BY <1>3 DEF RcvTimeout, Alarm, Receives
  <2>2. RcvFails \/ RcvAgain
    BY <1>0, <2>1, RcvResend
  <2> QED BY <1>0, <2>1, <2>2 DEF RcvDoes
<1> QED BY <1>s, <1>1, <1>2, <1>3 DEF RcvStep

-----------------------------------------------------------------------------
(* Steps after which the same packet is the last one, and as many are taken. *)

SndSame ==
  /\ snd'.seq = snd.seq /\ snd'.file = snd.file /\ snd'.pos = snd.pos
  /\ snd'.streaming = snd.streaming

RcvSame ==
  /\ rcv'.seq = rcv.seq /\ rcv'.streaming = rcv.streaming
  /\ rcv'.data = rcv.data /\ rcv'.got = rcv.got

LEMMA CurrentKept ==
  ASSUME SndSame, NEW k
  PROVE  Current(k)' = Current(k)
BY DEF SndSame, Current

LEMMA SenderKept ==
  ASSUME NEW k \in Sendings, Sender(k), SndSame, opt' = opt,
         snd'.st = "s" => snd.st = "s" /\ toRcv' = <<>>,
         Active(snd') => snd'.st = k /\ snd'.pkt = Current(k)
  PROVE  Sender(k)'
<1>1. Current(k)' = Current(k)
  BY CurrentKept
<1> QED BY <1>1, Zenon DEF Sender, SndSame, Active

\* The receiver goes on waiting for the same packet, or fails.
RcvStays ==
  \/ rcv'.st = rcv.st /\ (rcv'.pkt = rcv.pkt \/ (rcv.pkt = None /\ rcv'.pkt.type = "N"))
  \/ rcv.st = "v" /\ rcv'.st = "srini" /\ rcv'.pkt = rcv.pkt
  \/ rcv.st # "done" /\ rcv'.st = "failed"

LEMMA PositionKept ==
  ASSUME NEW k \in Sendings, NEW b \in Nat, Position(k, b), SndSame, RcvSame, RcvStays
  PROVE  Position(k, b)'
<1>1. \A f : Has(f) => Has(f)'
  BY DEF Has, RcvSame
<1>2. /\ rcv.st \in {"srfil", "failed"} => rcv'.st \in {"srfil", "failed"}
      /\ rcv.st \in {"sratt", "srdat", "failed"} => rcv'.st \in {"sratt", "srdat", "failed"}
      /\ rcv.st \in {"v", "srini", "failed"} => rcv'.st \in {"v", "srini", "failed"}
      /\ rcv.st = "done" => rcv'.st = "done"
  BY DEF RcvStays
<1>3. \A f : Between(f) => Between(f)'
  BY <1>1, <1>2, Zenon DEF Between
<1>4. \A q : InFile(q) => InFile(q)'
  BY <1>1, <1>2 DEF InFile, SndSame, RcvSame
<1> QED BY <1>1, <1>2, <1>3, <1>4, Zenon DEF Position, SndSame

LEMMA ReceiverKept ==
  ASSUME NEW k \in Sendings, NEW b \in Nat, Receiver(k, b), SndSame, RcvSame, RcvStays,
         opt' = opt, Ended(rcv') => toRcv' = <<>>
  PROVE  Receiver(k, b)'
<1>1. Position(k, b)'
  BY PositionKept DEF Receiver
<1>2. /\ (rcv'.seq + b) % Mod = After(snd'.seq)
      /\ b <= 1 \/ Streams(k)'
      /\ rcv'.streaming => opt'.stream
  BY Zenon DEF Receiver, SndSame, RcvSame, Streams
<1>3. rcv'.st \in {"v", "srini"} => ~rcv'.streaming /\ (rcv'.pkt = None \/ rcv'.pkt.type = "N")
  BY DEF Receiver, RcvSame, RcvStays
<1>4. rcv'.st \in {"srfil", "sratt", "srdat"} =>
        IF opt'.stream THEN rcv'.streaming
        ELSE rcv'.pkt # None /\ rcv'.pkt.type = "Y" /\ After(rcv'.pkt.n) = rcv'.seq
  BY DEF Receiver, RcvSame, RcvStays
<1> QED BY <1>1, <1>2, <1>3, <1>4, Zenon DEF Receiver, After

LEMMA StopAndWaitThins ==
  ASSUME NEW k \in Sendings, NEW b \in Nat, toRcv \in Seq(Packets), toRcv' \in Seq(Packets),
         StopAndWait(k, b), SndSame, Thins(toRcv', toRcv), Active(snd') => Active(snd)
  PROVE  StopAndWait(k, b)'
<1>0. Current(k)' = Current(k) /\ snd'.seq = snd.seq /\ snd'.streaming = snd.streaming
  BY CurrentKept DEF SndSame
<1>1. PICK f \in [1..Len(toRcv') -> 1..Len(toRcv)] :
        /\ \A i, j \in 1..Len(toRcv') : i < j => f[i] < f[j]
        /\ \A i \in 1..Len(toRcv') :
             toRcv'[i] = toRcv[f[i]] \/ (toRcv'[i].type = "Q" /\ toRcv'[i].n = toRcv[f[i]].n)
  BY DEF Thins
<1>2. Len(toRcv) \in Nat /\ Len(toRcv') \in Nat
  OBVIOUS
<1>3. \A i \in 1..Len(toRcv') : f[i] \in 1..Len(toRcv) /\ toRcv'[i].n = toRcv[f[i]].n
  BY <1>1
<1>4. ASSUME NEW i \in 1..Len(toRcv')
      PROVE  \/ toRcv'[i].n = snd.seq /\ (toRcv'[i] = Current(k) \/ toRcv'[i].type \in {"Q", "E"})
             \/ b = 1 /\ After(toRcv'[i].n) = snd.seq
  <2>1. \/ toRcv[f[i]].n = snd.seq /\ (toRcv[f[i]] = Current(k) \/ toRcv[f[i]].type \in {"Q", "E"})
        \/ b = 1 /\ After(toRcv[f[i]].n) = snd.seq
    BY <1>3 DEF StopAndWait
  <2> QED BY <1>1, <1>3, <2>1
<1>5. ASSUME NEW i \in 1..Len(toRcv'), NEW j \in 1..Len(toRcv'), i < j, toRcv'[i].n = snd.seq
      PROVE  toRcv'[j].n = snd.seq
  <2>1. f[i] < f[j]
    BY <1>1, <1>5
  <2> QED BY <1>3, <1>5, <2>1 DEF StopAndWait
<1>6. ASSUME Active(snd), snd.streaming
      PROVE  /\ b = 0 => toRcv' = <<>>
             /\ \A i \in 1..Len(toRcv') - 1 : toRcv'[i].n # snd.seq
  <2>1. b = 0 => toRcv' = <<>>
    <3>1. b = 0 => Len(toRcv) = 0
      BY <1>6 DEF StopAndWait
    <3>2. Len(toRcv) = 0 => 1..Len(toRcv') = {}
      BY <1>3
    <3>3. 1..Len(toRcv') = {} => toRcv' = <<>>
      BY <1>2
    <3> QED BY <3>1, <3>2, <3>3
  <2>2. ASSUME NEW i \in 1..Len(toRcv') - 1 PROVE toRcv'[i].n # snd.seq
    <3>1. i \in 1..Len(toRcv') /\ Len(toRcv') \in 1..Len(toRcv') /\ i < Len(toRcv')
      BY <1>2
    <3>a. f[i] \in 1..Len(toRcv) /\ f[Len(toRcv')] \in 1..Len(toRcv) /\ f[i] < f[Len(toRcv')]
      BY <1>1, <1>3, <3>1, Zenon
    <3>b. \A l \in Nat : \A x, y \in 1..l : x < y => x \in 1..l - 1
      OBVIOUS
    <3>2. f[i] \in 1..Len(toRcv) - 1
      BY <1>2, <3>a, <3>b, Zenon
    <3> QED BY <1>3, <1>6, <3>1, <3>2 DEF StopAndWait
  <2> QED BY <2>1, <2>2
<1> QED BY <1>0, <1>4, <1>5, <1>6, Zenon DEF StopAndWait, After

LEMMA AppendFacts ==
  ASSUME NEW line \in Seq(Packets), NEW m \in Packets
  PROVE  /\ Append(line, m) \in Seq(Packets) /\ Len(line) \in Nat
         /\ Len(Append(line, m)) = Len(line) + 1 /\ Append(line, m)[Len(line) + 1] = m
         /\ \A i \in 1..Len(line) : Append(line, m)[i] = line[i]
OBVIOUS

LEMMA StopAndWaitAppend ==
  ASSUME NEW k \in Sendings, NEW b \in Nat, toRcv \in Seq(Packets), NEW m \in Packets,
         StopAndWait(k, b), SndSame, toRcv' = Append(toRcv, m), m.n = snd.seq,
         m = Current(k) \/ m.type = "E", ~(Active(snd') /\ snd'.streaming)
  PROVE  StopAndWait(k, b)'
<1>0. Current(k)' = Current(k) /\ snd'.seq = snd.seq
  BY CurrentKept DEF SndSame
<1>1. /\ Len(toRcv) \in Nat /\ Len(toRcv') = Len(toRcv) + 1 /\ toRcv'[Len(toRcv) + 1] = m
      /\ \A i \in 1..Len(toRcv) : toRcv'[i] = toRcv[i]
  BY AppendFacts
<1>4. ASSUME NEW i \in 1..Len(toRcv')
      PROVE  \/ toRcv'[i].n = snd.seq /\ (toRcv'[i] = Current(k) \/ toRcv'[i].type \in {"Q", "E"})
             \/ b = 1 /\ After(toRcv'[i].n) = snd.seq
  <2>1. CASE i \in 1..Len(toRcv)
    BY <1>1, <2>1 DEF StopAndWait
  <2>2. CASE i = Len(toRcv) + 1
    BY <1>1, <2>2
  <2> QED BY <1>1, <2>1, <2>2
<1>5. ASSUME NEW i \in 1..Len(toRcv'), NEW j \in 1..Len(toRcv'), i < j, toRcv'[i].n = snd.seq
      PROVE  toRcv'[j].n = snd.seq
  <2>1. i \in 1..Len(toRcv)
    BY <1>1, <1>5
  <2>2. CASE j \in 1..Len(toRcv)
    BY <1>1, <1>5, <2>1, <2>2 DEF StopAndWait
  <2>3. CASE j = Len(toRcv) + 1
    BY <1>1, <2>3
  <2> QED BY <1>1, <2>2, <2>3
<1>6. /\ \A i \in 1..Len(toRcv') :
           \/ toRcv'[i].n = snd'.seq /\ (toRcv'[i] = Current(k)' \/ toRcv'[i].type \in {"Q", "E"})
           \/ b = 1 /\ After(toRcv'[i].n) = snd'.seq
      /\ \A i, j \in 1..Len(toRcv') : i < j /\ toRcv'[i].n = snd'.seq => toRcv'[j].n = snd'.seq
  BY <1>0, <1>4, <1>5
<1> QED BY <1>6, Zenon DEF StopAndWait, After, Active

\* What is left of the answers, when the last packet is taken or as before.
LEMMA AcksThins ==
  ASSUME TypeOK, NEW k \in Sendings, NEW b \in Nat, NEW b2 \in Nat, b2 = b \/ b # 0,
         toSnd' \in Seq(Packets), Acks(k, b), SndSame, opt' = opt, Thins(toSnd', toSnd),
         Ended(snd') => toSnd' = <<>>
  PROVE  Acks(k, b2)'
<1>0. snd'.seq = snd.seq /\ snd'.streaming = snd.streaming /\ snd.seq \in 0..Mod-1
  BY SndTypes DEF SndSame
<1>1. PICK f \in [1..Len(toSnd') -> 1..Len(toSnd)] :
        /\ \A i, j \in 1..Len(toSnd') : i < j => f[i] < f[j]
        /\ \A i \in 1..Len(toSnd') :
             toSnd'[i] = toSnd[f[i]] \/ (toSnd'[i].type = "Q" /\ toSnd'[i].n = toSnd[f[i]].n)
  BY DEF Thins
<1>2. \A i \in 1..Len(toSnd') :
        toSnd'[i].type = "Y" => f[i] \in 1..Len(toSnd) /\ toSnd'[i] = toSnd[f[i]]
  BY <1>1
<1>3. ASSUME NEW i \in 1..Len(toSnd'), toSnd'[i].type = "Y"
      PROVE  \/ b2 = 0 /\ toSnd'[i].n = snd.seq /\ ~(snd.streaming /\ k = "ssdat")
             \/ ~opt.stream /\ After(toSnd'[i].n) = snd.seq
  BY <1>2, <1>3 DEF Acks
<1>4. ASSUME NEW i \in 1..Len(toSnd'), NEW j \in 1..Len(toSnd'), i < j, toSnd'[i].type = "Y",
             toSnd'[i].n = snd.seq, toSnd'[j].type = "Y"
      PROVE  toSnd'[j].n = snd.seq /\ ~opt.stream
  <2>1. f[i] < f[j]
    BY <1>1, <1>4
  <2>2. /\ f[i] \in 1..Len(toSnd) /\ toSnd'[i] = toSnd[f[i]]
        /\ f[j] \in 1..Len(toSnd) /\ toSnd'[j] = toSnd[f[j]]
    BY <1>2, <1>4
  <2>3. \A x, y \in 1..Len(toSnd) :
          x < y /\ toSnd[x].type = "Y" /\ toSnd[x].n = snd.seq /\ toSnd[y].type = "Y"
            => toSnd[y].n = snd.seq /\ ~opt.stream
    BY Zenon DEF Acks
  <2> QED BY <1>4, <2>1, <2>2, <2>3, Zenon
<1>5. /\ \A i \in 1..Len(toSnd') : toSnd'[i].type = "Y" =>
           \/ b2 = 0 /\ toSnd'[i].n = snd'.seq /\ ~(snd'.streaming /\ k = "ssdat")
           \/ ~opt'.stream /\ After(toSnd'[i].n) = snd'.seq
      /\ \A i, j \in 1..Len(toSnd') :
           i < j /\ toSnd'[i].type = "Y" /\ toSnd'[i].n = snd'.seq /\ toSnd'[j].type = "Y"
             => toSnd'[j].n = snd'.seq /\ ~opt'.stream
  BY <1>0, <1>3, <1>4
<1> QED BY <1>5, Zenon DEF Acks, After, Ended

\* One more answer.
LEMMA AcksPut ==
  ASSUME TypeOK, NEW k \in Sendings, NEW b \in Nat, NEW b2 \in Nat, b2 = b \/ b # 0,
         NEW m \in Packets, Acks(k, b), snd' = snd, opt' = opt, toSnd' = Put(toSnd, m, snd),
         m.type = "Y" => \/ b2 = 0 /\ m.n = snd.seq /\ ~(snd.streaming /\ k = "ssdat")
                         \/ ~opt.stream /\ After(m.n) = snd.seq,
         m.type = "Y" /\ b = 0 => m.n = snd.seq /\ ~opt.stream
  PROVE  Acks(k, b2)'
<1>0. toSnd \in Seq(Packets) /\ snd.seq \in 0..Mod-1
  BY SndTypes DEF TypeOK
<1>1. CASE Ended(snd)
  <2>1. toSnd' = <<>> /\ SndSame
    BY <1>1 DEF Put, SndSame
  <2>2. toSnd' \in Seq(Packets) /\ Thins(toSnd', toSnd)
    BY <2>1, ThinsEmpty
  <2> QED BY <2>1, <2>2, AcksThins
<1>2. CASE ~Ended(snd)
  <2>0. toSnd' = Append(toSnd, m)
    BY <1>2 DEF Put
  <2>1. /\ Len(toSnd) \in Nat /\ Len(toSnd') = Len(toSnd) + 1 /\ toSnd'[Len(toSnd) + 1] = m
        /\ \A i \in 1..Len(toSnd) : toSnd'[i] = toSnd[i]
    BY <1>0, <2>0, AppendFacts
  <2>2. \A i \in 1..Len(toSnd) : toSnd[i].n \in 0..Mod-1
    BY <1>0, LineTypes
  <2>3. ASSUME NEW i \in 1..Len(toSnd'), toSnd'[i].type = "Y"
        PROVE  \/ b2 = 0 /\ toSnd'[i].n = snd.seq /\ ~(snd.streaming /\ k = "ssdat")
               \/ ~opt.stream /\ After(toSnd'[i].n) = snd.seq
    <3>1. CASE i \in 1..Len(toSnd)
      BY <2>1, <2>3, <3>1 DEF Acks
    <3>2. CASE i = Len(toSnd) + 1
      BY <2>1, <2>3, <3>2
    <3> QED BY <2>1, <3>1, <3>2
  <2>4. ASSUME NEW i \in 1..Len(toSnd'), NEW j \in 1..Len(toSnd'), i < j, toSnd'[i].type = "Y",
               toSnd'[i].n = snd.seq, toSnd'[j].type = "Y"
        PROVE  toSnd'[j].n = snd.seq /\ ~opt.stream
    <3>1. i \in 1..Len(toSnd) /\ toSnd'[i] = toSnd[i]
      BY <2>1, <2>4
    <3>2. b = 0
      BY <1>0, <2>2, <2>4, <3>1, AfterFacts DEF Acks
    <3>3. CASE j \in 1..Len(toSnd)
      BY <2>1, <2>4, <3>1, <3>3 DEF Acks
    <3>4. CASE j = Len(toSnd) + 1
      BY <2>1, <2>4, <3>2, <3>4
    <3> QED BY <2>1, <3>3, <3>4
  <2>5. /\ \A i \in 1..Len(toSnd') : toSnd'[i].type = "Y" =>
             \/ b2 = 0 /\ toSnd'[i].n = snd'.seq /\ ~(snd'.streaming /\ k = "ssdat")
             \/ ~opt'.stream /\ After(toSnd'[i].n) = snd'.seq
        /\ \A i, j \in 1..Len(toSnd') :
             i < j /\ toSnd'[i].type = "Y" /\ toSnd'[i].n = snd'.seq /\ toSnd'[j].type = "Y"
               => toSnd'[j].n = snd'.seq /\ ~opt'.stream
    BY <2>3, <2>4
  <2> QED BY <1>2, <2>5, Zenon DEF Acks, After, Ended
<1> QED BY <1>1, <1>2

LEMMA StreamedKept ==
  ASSUME snd'.file = snd.file, rcv'.seq = rcv.seq, rcv'.data = rcv.data, NEW k, NEW b
  PROVE  \A j : Streamed(k, b, j)' = Streamed(k, b, j)
BY DEF Streamed

\* The packet that was x-th, and is i-th after some faults.
LEMMA StillAwaited ==
  ASSUME TypeOK, NEW k, NEW b \in Nat, Window(k, b),
         snd'.file = snd.file, rcv'.seq = rcv.seq, rcv'.data = rcv.data, faults' \in Nat,
         NEW i \in Nat, NEW x \in 1..Len(toRcv), i <= x, x + faults <= i + faults'
  PROVE  \/ toRcv[x].type \in {"Q", "E"}
         \/ \E j \in i..i + faults' : j <= b /\ toRcv[x] = Streamed(k, b, j)'
<1>0. Len(toRcv) \in Nat /\ x \in Nat /\ faults \in Nat
  BY OptTypes
<1>1. CASE toRcv[x].type \in {"Q", "E"}
  BY <1>1
<1>2. CASE \E j \in x..x + faults : j <= b /\ toRcv[x] = Streamed(k, b, j)
  <2>1. PICK j \in x..x + faults : j <= b /\ toRcv[x] = Streamed(k, b, j)
    BY <1>2
  <2>2. j \in i..i + faults' /\ Streamed(k, b, j)' = Streamed(k, b, j)
    BY <1>0, <2>1, StreamedKept
  <2> QED BY <2>1, <2>2
<1> QED BY <1>1, <1>2 DEF Window

LEMMA WindowSpoil ==
  ASSUME TypeOK, NEW k \in Sendings, NEW b \in Nat, Window(k, b), snd' = snd, rcv' = rcv,
         faults' = faults + 1, toRcv' \in Spoil(toRcv)
  PROVE  Window(k, b)'
<1>0. toRcv \in Seq(Packets) /\ faults \in Nat /\ faults' \in Nat /\ Len(toRcv) \in Nat
  BY OptTypes
<1>1. Active(snd) /\ ~Ended(rcv) => Len(toRcv) <= b /\ b <= Len(toRcv) + faults
  BY DEF Window
<1>2. ASSUME NEW x \in 1..Len(toRcv), toRcv' = RemoveAt(toRcv, x) PROVE Window(k, b)'
  <2>1. /\ toRcv' \in Seq(Packets) /\ Len(toRcv') = Len(toRcv) - 1
        /\ \A j \in 1..Len(toRcv') : toRcv'[j] = toRcv[IF j < x THEN j ELSE j + 1]
    BY <1>0, <1>2, Lost
  <2>2. ASSUME NEW i \in 1..Len(toRcv')
        PROVE  \/ toRcv'[i].type \in {"Q", "E"}
               \/ \E j \in i..i + faults' : j <= b /\ toRcv'[i] = Streamed(k, b, j)'
    <3> DEFINE d == IF i < x THEN i ELSE i + 1
    <3>1. /\ d \in 1..Len(toRcv) /\ toRcv'[i] = toRcv[d] /\ i <= d /\ d + faults <= i + faults'
          /\ i \in Nat
      BY <1>0, <2>1
    <3> HIDE DEF d
    <3>2. \/ toRcv[d].type \in {"Q", "E"}
          \/ \E j \in i..i + faults' : j <= b /\ toRcv[d] = Streamed(k, b, j)'
      BY <1>0, <3>1, StillAwaited
    <3> QED BY <3>1, <3>2
  <2>3. Active(snd') /\ ~Ended(rcv') => Len(toRcv') <= b /\ b <= Len(toRcv') + faults'
    BY <1>0, <1>1, <2>1
  <2> QED BY <2>2, <2>3, Zenon DEF Window, Active, Ended
<1>3. ASSUME NEW x \in 1..Len(toRcv), toRcv' = Garble(toRcv, x) PROVE Window(k, b)'
  <2>1. /\ toRcv' \in Seq(Packets) /\ Len(toRcv') = Len(toRcv)
        /\ \A j \in 1..Len(toRcv') : j # x => toRcv'[j] = toRcv[j]
        /\ toRcv'[x].type = "Q"
    BY <1>0, <1>3, Garbled
  <2>2. ASSUME NEW i \in 1..Len(toRcv')
        PROVE  \/ toRcv'[i].type \in {"Q", "E"}
               \/ \E j \in i..i + faults' : j <= b /\ toRcv'[i] = Streamed(k, b, j)'
    <3>1. i \in 1..Len(toRcv) /\ i <= i /\ i + faults <= i + faults' /\ i \in Nat
      BY <1>0, <2>1
    <3>2. \/ toRcv[i].type \in {"Q", "E"}
          \/ \E j \in i..i + faults' : j <= b /\ toRcv[i] = Streamed(k, b, j)'
      BY <1>0, <3>1, StillAwaited
    <3> QED BY <2>1, <3>1, <3>2
  <2>3. Active(snd') /\ ~Ended(rcv') => Len(toRcv') <= b /\ b <= Len(toRcv') + faults'
    BY <1>0, <1>1, <2>1
  <2> QED BY <2>2, <2>3, Zenon DEF Window, Active, Ended
<1>4. DOMAIN toRcv = 1..Len(toRcv)
  BY <1>0
<1> QED BY <1>2, <1>3, <1>4, Zenon DEF Spoil, Garble

\* A packet that keeps its place on the line.
LEMMA StillAwaitedInPlace ==
  ASSUME TypeOK, NEW k, NEW b \in Nat, Window(k, b),
         snd'.file = snd.file, rcv'.seq = rcv.seq, rcv'.data = rcv.data,
         faults' \in Nat, faults <= faults', NEW i \in 1..Len(toRcv)
  PROVE  \/ toRcv[i].type \in {"Q", "E"}
         \/ \E j \in i..i + faults' : j <= b /\ toRcv[i] = Streamed(k, b, j)'
<1>1. faults \in Nat /\ Len(toRcv) \in Nat
  BY OptTypes
<1>2. i \in Nat
  BY <1>1
<1>3. \A n, x, y \in Nat : x <= y => n <= n /\ n + x <= n + y
  OBVIOUS
<1>4. i <= i /\ i + faults <= i + faults'
  BY <1>1, <1>2, <1>3, Zenon
<1> QED BY <1>2, <1>4, StillAwaited, Zenon

\* The line is as it was, an Error packet is its last, or nobody reads it.
LEMMA WindowKept ==
  ASSUME TypeOK, NEW k \in Sendings, NEW b \in Nat, Window(k, b), SndSame, RcvSame,
         faults' \in Nat, faults <= faults', NEW m \in Packets, m.type = "E"
  PROVE  (\/ toRcv' = toRcv /\ (Active(snd') => Active(snd)) /\ (Ended(rcv) => Ended(rcv'))
          \/ toRcv' = Append(toRcv, m) /\ ~Active(snd')
          \/ toRcv' = <<>> /\ (Ended(rcv') \/ ~Active(snd')))
         => Window(k, b)'
<1>0. /\ toRcv \in Seq(Packets) /\ faults \in Nat /\ faults' \in Nat /\ Len(toRcv) \in Nat
      /\ faults <= faults'
  BY OptTypes
<1>1. ASSUME NEW i \in 1..Len(toRcv)
      PROVE  \/ toRcv[i].type \in {"Q", "E"}
             \/ \E j \in i..i + faults' : j <= b /\ toRcv[i] = Streamed(k, b, j)'
  <2>1. snd'.file = snd.file /\ rcv'.seq = rcv.seq /\ rcv'.data = rcv.data
    BY DEF SndSame, RcvSame
  <2> QED BY <1>0, <2>1, StillAwaitedInPlace, Zenon
<1>2. CASE toRcv' = toRcv /\ (Active(snd') => Active(snd)) /\ (Ended(rcv) => Ended(rcv'))
  <2>1. Active(snd') /\ ~Ended(rcv') => Len(toRcv') <= b /\ b <= Len(toRcv') + faults'
    BY <1>0, <1>2 DEF Window
  <2>2. \A i \in 1..Len(toRcv') :
          \/ toRcv'[i].type \in {"Q", "E"}
          \/ \E j \in i..i + faults' : j <= b /\ toRcv'[i] = Streamed(k, b, j)'
    BY <1>1, <1>2, Zenon
  <2> QED BY <2>1, <2>2, Zenon DEF Window, Active, Ended
<1>3. CASE toRcv' = Append(toRcv, m) /\ ~Active(snd')
  <2>1. /\ Len(toRcv') = Len(toRcv) + 1 /\ toRcv'[Len(toRcv) + 1] = m
        /\ \A i \in 1..Len(toRcv) : toRcv'[i] = toRcv[i]
    BY <1>0, <1>3, AppendFacts
  <2>2. ASSUME NEW i \in 1..Len(toRcv')
        PROVE  \/ toRcv'[i].type \in {"Q", "E"}
               \/ \E j \in i..i + faults' : j <= b /\ toRcv'[i] = Streamed(k, b, j)'
    <3>1. CASE i = Len(toRcv) + 1
      BY <2>1, <3>1
    <3>2. CASE i \in 1..Len(toRcv)
      BY <1>1, <2>1, <3>2
    <3> QED BY <1>0, <2>1, <3>1, <3>2
  <2>3. Active(snd') /\ ~Ended(rcv') => Len(toRcv') <= b /\ b <= Len(toRcv') + faults'
    BY <1>3
  <2> QED BY <2>2, <2>3, Zenon DEF Window, Active, Ended
<1>4. CASE toRcv' = <<>> /\ (Ended(rcv') \/ ~Active(snd'))
  <2>1. 1..Len(toRcv') = {}
    BY <1>4
  <2> QED BY <1>4, <2>1 DEF Window, Active, Ended
<1> QED BY <1>2, <1>3, <1>4

LEMMA StopAndWaitEmpty ==
  ASSUME NEW k, NEW b, toRcv' = <<>>
  PROVE  StopAndWait(k, b)'
<1>1. 1..Len(toRcv') = {} /\ 1..Len(toRcv') - 1 = {}
  OBVIOUS
<1> QED BY <1>1 DEF StopAndWait

LEMMA RcvIdle ==
  ASSUME rcv' = rcv
  PROVE  RcvSame /\ RcvStays
BY DEF RcvSame, RcvStays

\* The sender starts, ...
LEMMA SndStartsLink ==
  ASSUME TypeOK, NEW k \in Sendings, NEW b \in Nat, Link(k, b), rcv' = rcv, opt' = opt
  PROVE  SndStarts => Link(k, b)'
<1>0. toRcv \in Seq(Packets) /\ toSnd \in Seq(Packets) /\ Sender(k) /\ Receiver(k, b) /\ Acks(k, b)
  BY DEF TypeOK, Link
<1>1. HAVE SndStarts
<1> DEFINE m == Packet("S", 0, 0)
<1>2. /\ snd.st = "s" /\ snd'.st = "ssini" /\ snd'.pkt = m /\ SndSame
      /\ toRcv' = Put(toRcv, m, rcv) /\ toSnd' = toSnd
  BY <1>1 DEF SndStarts, SndKept, SndSame
<1>3. k = "ssini" /\ snd.seq = 0 /\ ~snd.streaming /\ ~Streams(k) /\ ~Streams(k)'
  BY <1>0, <1>2 DEF Sender, Streams
<1>4. m \in Packets /\ m.n = 0 /\ m = Current(k)
  <2>1. "S" \in Types /\ 0 \in 0..Mod-1
    BY KermitAssumption DEF Types
  <2> QED BY <1>3, <2>1, PacketType DEF Current
<1> HIDE DEF m
<1>5. Sender(k)'
  BY <1>0, <1>2, <1>3, <1>4, SenderKept
<1>6. Receiver(k, b)'
  <2>1. Ended(rcv') => toRcv' = <<>>
    BY <1>2 DEF Put
  <2> QED BY <1>0, <1>2, <2>1, RcvIdle, ReceiverKept
<1>7. Acks(k, b)'
  <2>1. ~Ended(snd')
    BY <1>2 DEF Ended
  <2> QED BY <1>0, <1>2, <2>1, ThinsSame, AcksThins
<1>8. StopAndWait(k, b)'
  <2>1. CASE Ended(rcv)
    BY <1>2, <2>1, StopAndWaitEmpty DEF Put
  <2>2. CASE ~Ended(rcv)
    <3>1. toRcv' = Append(toRcv, m) /\ StopAndWait(k, b) /\ ~snd'.streaming
      BY <1>2, <1>3, <2>2 DEF Put, Link, SndSame
    <3> QED BY <1>0, <1>2, <1>3, <1>4, <3>1, StopAndWaitAppend
  <2> QED BY <2>1, <2>2
<1> QED BY <1>3, <1>5, <1>6, <1>7, <1>8, Zenon DEF Link

\* ... sends its packet again, ...
LEMMA SndAgainLink ==
  ASSUME TypeOK, NEW k \in Sendings, NEW b \in Nat, Link(k, b), rcv' = rcv, opt' = opt
  PROVE  SndAgain => Link(k, b)'
<1>0. toRcv \in Seq(Packets) /\ toSnd \in Seq(Packets) /\ Sender(k) /\ Receiver(k, b) /\ Acks(k, b)
  BY DEF TypeOK, Link
<1>1. HAVE SndAgain
<1> DEFINE m == snd.pkt
<1>2. /\ Active(snd) /\ ~snd.streaming /\ snd'.st = snd.st /\ snd'.pkt = snd.pkt /\ SndSame
      /\ toRcv' = Put(toRcv, m, rcv) /\ toSnd' \in Seq(Packets) /\ Thins(toSnd', toSnd)
  BY <1>1 DEF SndAgain, SndKept, SndSame
<1>3. /\ ~Streams(k) /\ ~Streams(k)' /\ snd.st = k /\ m = Current(k) /\ snd'.st # "s"
      /\ ~Ended(snd') /\ ~snd'.streaming
  BY <1>0, <1>2 DEF Sender, Streams, SndSame, Active, Ended
<1>4. m \in Packets /\ m.n = snd.seq
  BY <1>0, <1>2, SndPkt
<1>5. Sender(k)'
  BY <1>0, <1>2, <1>3, SenderKept
<1> HIDE DEF m
<1>6. Receiver(k, b)'
  <2>1. Ended(rcv') => toRcv' = <<>>
    BY <1>2 DEF Put
  <2> QED BY <1>0, <1>2, <2>1, RcvIdle, ReceiverKept
<1>7. Acks(k, b)'
  BY <1>0, <1>2, <1>3, AcksThins
<1>8. StopAndWait(k, b)'
  <2>1. CASE Ended(rcv)
    BY <1>2, <2>1, StopAndWaitEmpty DEF Put
  <2>2. CASE ~Ended(rcv)
    <3>1. toRcv' = Append(toRcv, m) /\ StopAndWait(k, b)
      BY <1>2, <1>3, <2>2 DEF Put, Link
    <3> QED BY <1>0, <1>2, <1>3, <1>4, <3>1, StopAndWaitAppend
  <2> QED BY <2>1, <2>2
<1> QED BY <1>3, <1>5, <1>6, <1>7, <1>8, Zenon DEF Link

\* ... or ends, well or not.
LEMMA SndEndsLink ==
  ASSUME TypeOK, NEW k \in Sendings, NEW b \in Nat, Link(k, b), rcv' = rcv, opt' = opt,
         faults' \in Nat, faults <= faults'
  PROVE  SndFails \/ SndEnds(k) => Link(k, b)'
<1>0. /\ toRcv \in Seq(Packets) /\ toSnd \in Seq(Packets) /\ snd.seq \in 0..Mod-1
      /\ Sender(k) /\ Receiver(k, b) /\ Acks(k, b)
  BY SndTypes DEF TypeOK, Link
<1>1. HAVE SndFails \/ SndEnds(k)
<1> DEFINE m == Packet("E", snd.seq, 0)
<1>2. /\ SndSame /\ Ended(snd') /\ ~Active(snd') /\ snd'.st # "s" /\ toSnd' = <<>>
      /\ toRcv' = toRcv \/ toRcv' = Put(toRcv, m, rcv)
  BY <1>1 DEF SndFails, SndEnds, SndKept, SndSame, Ended, Active
<1>3. m \in Packets /\ m.n = snd.seq /\ m.type = "E"
  BY <1>0, PacketType DEF Types
<1> HIDE DEF m
<1>4. Sender(k)'
  BY <1>0, <1>2, SenderKept
<1>5. Receiver(k, b)'
  <2>1. Ended(rcv') => toRcv' = <<>>
    BY <1>0, <1>2 DEF Put, Receiver
  <2> QED BY <1>0, <1>2, <2>1, RcvIdle, ReceiverKept
<1>6. Acks(k, b)'
  <2>1. toSnd' \in Seq(Packets) /\ Thins(toSnd', toSnd)
    BY <1>2, ThinsEmpty
  <2> QED BY <1>0, <1>2, <2>1, AcksThins
<1>7. toRcv' = toRcv \/ toRcv' = Append(toRcv, m) \/ toRcv' = <<>>
  BY <1>2 DEF Put
<1>8. CASE Streams(k)
  <2>1. Window(k, b) /\ Streams(k)'
    BY <1>2, <1>8 DEF Link, Streams, SndSame
  <2>2. Window(k, b)'
    BY <1>2, <1>3, <1>7, <2>1, RcvIdle, WindowKept
  <2> QED BY <1>4, <1>5, <1>6, <2>1, <2>2, Zenon DEF Link
<1>9. CASE ~Streams(k)
  <2>1. StopAndWait(k, b) /\ ~Streams(k)'
    BY <1>2, <1>9 DEF Link, Streams, SndSame
  <2>2. StopAndWait(k, b)'
    <3>1. CASE toRcv' = toRcv
      <4>1. toRcv' \in Seq(Packets) /\ Thins(toRcv', toRcv)
        BY <1>0, <3>1, ThinsSame
      <4> QED BY <1>0, <1>2, <2>1, <4>1, StopAndWaitThins
    <3>2. CASE toRcv' = Append(toRcv, m)
      BY <1>0, <1>2, <1>3, <2>1, <3>2, StopAndWaitAppend
    <3>3. CASE toRcv' = <<>>
      BY <3>3, StopAndWaitEmpty
    <3> QED BY <1>7, <3>1, <3>2, <3>3
  <2> QED BY <1>4, <1>5, <1>6, <2>1, <2>2, Zenon DEF Link
<1> QED BY <1>8, <1>9

LEMMA SndIdle ==
  ASSUME snd' = snd
  PROVE  SndSame /\ (Active(snd') <=> Active(snd)) /\ (Ended(snd') <=> Ended(snd))
BY DEF SndSame

LEMMA SenderIdle ==
  ASSUME NEW k \in Sendings, Sender(k), snd' = snd, opt' = opt, snd.st = "s" => toRcv' = <<>>
  PROVE  Sender(k)'
BY SndIdle, SenderKept DEF Sender

\* While data is streamed, a receiver that is not gone streams too.
LEMMA StreamingReceiver ==
  ASSUME TypeOK, NEW k \in Sendings, NEW b \in Nat, Sender(k), Receiver(k, b), Streams(k), Active(rcv)
  PROVE  rcv.streaming /\ opt.stream /\ rcv.st \in {"srfil", "sratt", "srdat"}
<1>1. snd.streaming /\ k \in {"ssdat", "sseof"} /\ Position(k, b)
  BY DEF Streams, Receiver
<1>2. opt.stream
  BY <1>1 DEF Sender
<1>3. rcv.st \in {"srfil", "sratt", "srdat", "failed"}
  BY <1>1 DEF Position, Between, InFile
<1>4. rcv.st \in {"srfil", "sratt", "srdat"}
  BY <1>3 DEF Active
<1> QED BY <1>2, <1>4 DEF Receiver

\* The receiver starts, ...
LEMMA RcvStartsLink ==
  ASSUME TypeOK, NEW k \in Sendings, NEW b \in Nat, Link(k, b), snd' = snd, opt' = opt,
         faults' \in Nat, faults <= faults'
  PROVE  RcvStarts => Link(k, b)'
<1>0. /\ toRcv \in Seq(Packets) /\ toSnd \in Seq(Packets)
      /\ Sender(k) /\ Receiver(k, b) /\ Acks(k, b)
  BY DEF TypeOK, Link
<1>1. HAVE RcvStarts
<1>2. /\ rcv.st = "v" /\ RcvSame /\ rcv'.st = "srini" /\ RcvStays
      /\ toRcv' = toRcv /\ toSnd' = toSnd
  BY <1>1 DEF RcvStarts, RcvKept, RcvSame, RcvStays
<1>3. ~Ended(rcv) /\ ~Ended(rcv') /\ ~Streams(k) /\ ~Streams(k)'
  <2>1. ~Ended(rcv) /\ ~Ended(rcv')
    BY <1>2 DEF Ended
  <2>2. k \notin {"ssdat", "sseof"}
    BY <1>0, <1>2 DEF Receiver, Position, Between, InFile
  <2> QED BY <2>1, <2>2 DEF Streams
<1>4. Sender(k)'
  BY <1>0, <1>2, SenderIdle DEF Sender
<1>5. Receiver(k, b)'
  BY <1>0, <1>2, <1>3, SndIdle, ReceiverKept
<1>6. Acks(k, b)'
  <2>1. Ended(snd') => toSnd' = <<>>
    BY <1>0, <1>2 DEF Acks
  <2> QED BY <1>0, <1>2, <2>1, SndIdle, ThinsSame, AcksThins
<1>7. StopAndWait(k, b)'
  <2>1. StopAndWait(k, b)
    BY <1>3 DEF Link
  <2> QED BY <1>0, <1>2, <2>1, SndIdle, ThinsSame, StopAndWaitThins
<1> QED BY <1>3, <1>4, <1>5, <1>6, <1>7, Zenon DEF Link

\* ... sends its answer again, ...
LEMMA RcvAgainLink ==
  ASSUME TypeOK, NEW k \in Sendings, NEW b \in Nat, Link(k, b), snd' = snd, opt' = opt
  PROVE  RcvAgain => Link(k, b)'
<1>0. /\ toRcv \in Seq(Packets) /\ toSnd \in Seq(Packets) /\ snd.seq \in 0..Mod-1
      /\ rcv.seq \in 0..Mod-1 /\ rcv.pkt \in Packets \cup {None} /\ rcv.st \in RcvStates
      /\ Sender(k) /\ Receiver(k, b) /\ Acks(k, b)
  BY SndTypes, RcvTypes DEF TypeOK, Link
<1>1. HAVE RcvAgain
<1> DEFINE m == rcv'.pkt
<1>2. /\ Active(rcv) /\ ~rcv.streaming /\ RcvSame /\ rcv'.st = rcv.st
      /\ m = IF rcv.pkt = None THEN Packet("N", rcv.seq, 0) ELSE rcv.pkt
      /\ toSnd' = Put(toSnd, m, snd) /\ toRcv' \in Seq(Packets) /\ Thins(toRcv', toRcv)
  BY <1>1 DEF RcvAgain, RcvKept, RcvSame
<1>p. /\ Packet("N", rcv.seq, 0) \in Packets /\ Packet("N", rcv.seq, 0).type = "N"
  BY <1>0, PacketType DEF Types
<1>3. m \in Packets /\ RcvStays
  BY <1>0, <1>2, <1>p DEF RcvStays
<1>4. /\ ~Ended(rcv) /\ ~Ended(rcv') /\ ~Streams(k) /\ ~Streams(k)' /\ b \in {0, 1}
  <2>1. ~Ended(rcv) /\ ~Ended(rcv')
    BY <1>2 DEF Ended, Active
  <2>2. ~Streams(k)
    BY <1>0, <1>2, StreamingReceiver
  <2>3. ~Streams(k)'
    BY <2>2 DEF Streams
  <2>4. b \in {0, 1}
    BY <1>0, <2>2 DEF Receiver
  <2> QED BY <2>1, <2>2, <2>3, <2>4
<1>5. Sender(k)'
  <2>1. snd.st = "s" => toRcv' = <<>>
    <3>1. snd.st = "s" => Len(toRcv) = 0
      BY <1>0 DEF Sender
    <3>2. Len(toRcv) = 0 => Len(toRcv') = 0
      BY <1>2 DEF Thins
    <3> QED BY <1>2, <3>1, <3>2
  <2> QED BY <1>0, <2>1, SenderIdle
<1>6. Receiver(k, b)'
  BY <1>0, <1>2, <1>3, <1>4, SndIdle, ReceiverKept
<1>7. Acks(k, b)'
  <2>1. CASE m.type # "Y"
    BY <1>0, <1>2, <1>3, <2>1, AcksPut
  <2>2. CASE m.type = "Y"
    <3>1. m = rcv.pkt /\ rcv.pkt # None
      BY <1>2, <1>p, <2>2
    <3>2. rcv.st \in {"srfil", "sratt", "srdat"}
      BY <1>0, <1>2, <2>2, <3>1 DEF Receiver, RcvStates, Active
    <3>3. ~opt.stream /\ After(m.n) = rcv.seq
      BY <1>0, <1>2, <3>1, <3>2 DEF Receiver
    <3>4. m.n \in 0..Mod-1 /\ (rcv.seq + b) % Mod = After(snd.seq)
      BY <1>0, <1>3 DEF Packets, Receiver
    <3>5. CASE b = 0
      <4>1. m.n = snd.seq /\ ~(snd.streaming /\ k = "ssdat")
        <5>1. rcv.seq = After(snd.seq)
          BY <1>0, <3>4, <3>5, BehindFacts
        <5>2. m.n = snd.seq
          BY <1>0, <3>3, <3>4, <5>1, AfterFacts
        <5> QED BY <1>4, <5>2 DEF Streams
      <4> QED BY <1>0, <1>2, <1>3, <3>3, <3>5, <4>1, AcksPut
    <3>6. CASE b = 1
      <4>1. After(m.n) = snd.seq
        BY <1>0, <3>3, <3>4, <3>6, BehindFacts
      <4> QED BY <1>0, <1>2, <1>3, <3>3, <3>6, <4>1, AcksPut
    <3> QED BY <1>4, <3>5, <3>6
  <2> QED BY <2>1, <2>2
<1>8. StopAndWait(k, b)'
  <2>1. StopAndWait(k, b)
    BY <1>4 DEF Link
  <2> QED BY <1>0, <1>2, <2>1, SndIdle, StopAndWaitThins
<1> QED BY <1>4, <1>5, <1>6, <1>7, <1>8, Zenon DEF Link

\* ... or fails.
LEMMA RcvFailsLink ==
  ASSUME TypeOK, NEW k \in Sendings, NEW b \in Nat, Link(k, b), snd' = snd, opt' = opt,
         faults' \in Nat, faults <= faults'
  PROVE  RcvFails => Link(k, b)'
<1>0. /\ toRcv \in Seq(Packets) /\ toSnd \in Seq(Packets) /\ rcv.seq \in 0..Mod-1
      /\ Sender(k) /\ Receiver(k, b) /\ Acks(k, b)
  BY RcvTypes DEF TypeOK, Link
<1>1. HAVE RcvFails
<1> DEFINE m == Packet("E", rcv.seq, 0)
<1>2. /\ RcvSame /\ rcv'.st = "failed" /\ RcvStays /\ Ended(rcv') /\ toRcv' = <<>>
      /\ toSnd' = toSnd \/ toSnd' = Put(toSnd, m, snd)
  BY <1>1 DEF RcvFails, RcvKept, RcvSame, RcvStays, Ended, Active
<1>3. m \in Packets /\ m.type = "E"
  BY <1>0, PacketType DEF Types
<1> HIDE DEF m
<1>4. Sender(k)'
  BY <1>0, <1>2, SenderIdle
<1>5. Receiver(k, b)'
  BY <1>0, <1>2, SndIdle, ReceiverKept
<1>6. Acks(k, b)'
  <2>1. CASE toSnd' = toSnd
    <3>1. Ended(snd') => toSnd' = <<>>
      BY <1>0, <2>1 DEF Acks
    <3> QED BY <1>0, <2>1, <3>1, SndIdle, ThinsSame, AcksThins
  <2>2. CASE toSnd' = Put(toSnd, m, snd)
    BY <1>0, <1>3, <2>2, AcksPut
  <2> QED BY <1>2, <2>1, <2>2
<1>7. StopAndWait(k, b)'
  BY <1>2, StopAndWaitEmpty
<1>8. Streams(k)' => Window(k, b)'
  <2>1. Streams(k)' => Window(k, b)
    BY DEF Streams, Link
  <2> QED BY <1>2, <1>3, <2>1, SndIdle, WindowKept
<1> QED BY <1>4, <1>5, <1>6, <1>7, <1>8, Zenon DEF Link

\* The line spoils a packet.
LEMMA FaultLink ==
  ASSUME TypeOK, NEW k \in Sendings, NEW b \in Nat, Link(k, b)
  PROVE  Fault => Link(k, b)' /\ toRcv' \in Seq(Packets) /\ toSnd' \in Seq(Packets)
<1>0. /\ toRcv \in Seq(Packets) /\ toSnd \in Seq(Packets) /\ faults \in Nat
      /\ Sender(k) /\ Receiver(k, b) /\ Acks(k, b)
  BY OptTypes DEF Link
<1>1. HAVE Fault
<1>2. /\ faults' = faults + 1 /\ snd' = snd /\ rcv' = rcv /\ opt' = opt
      /\ toRcv' = toRcv \/ toRcv' \in Spoil(toRcv)
      /\ toSnd' = toSnd \/ toSnd' \in Spoil(toSnd)
  BY <1>1 DEF Fault
<1>3. /\ toRcv' \in Seq(Packets) /\ Thins(toRcv', toRcv)
      /\ toSnd' \in Seq(Packets) /\ Thins(toSnd', toSnd)
  BY <1>0, <1>2, ThinsSpoil, ThinsSame
<1>4. /\ toRcv = <<>> => toRcv' = <<>>
      /\ toSnd = <<>> => toSnd' = <<>>
  <2>1. Len(toRcv) = 0 => Len(toRcv') = 0
    BY <1>3 DEF Thins
  <2>2. Len(toSnd) = 0 => Len(toSnd') = 0
    BY <1>3 DEF Thins
  <2> QED BY <1>3, <2>1, <2>2
<1>5. Sender(k)'
  BY <1>0, <1>2, <1>4, SenderIdle DEF Sender
<1>6. Receiver(k, b)'
  <2>1. Ended(rcv') => toRcv' = <<>>
    BY <1>0, <1>2, <1>4 DEF Receiver
  <2> QED BY <1>0, <1>2, <2>1, SndIdle, RcvIdle, ReceiverKept
<1>7. Acks(k, b)'
  <2>1. Ended(snd') => toSnd' = <<>>
    BY <1>0, <1>2, <1>4 DEF Acks
  <2> QED BY <1>0, <1>2, <1>3, <2>1, SndIdle, AcksThins
<1>8. CASE Streams(k)
  <2>1. Window(k, b) /\ Streams(k)'
    BY <1>2, <1>8 DEF Link, Streams
  <2>2. CASE toRcv' \in Spoil(toRcv)
    <3>1. Window(k, b)'
      BY <1>2, <2>1, <2>2, WindowSpoil
    <3> QED BY <1>3, <1>5, <1>6, <1>7, <2>1, <3>1, Zenon DEF Link
  <2>3. CASE toRcv' = toRcv
    <3>1. /\ Active(snd') => Active(snd)
          /\ Ended(rcv) => Ended(rcv')
          /\ faults' \in Nat /\ faults <= faults'
      BY <1>0, <1>2
    <3>2. Packet("E", 0, 0) \in Packets /\ Packet("E", 0, 0).type = "E"
      BY PacketType, KermitAssumption DEF Types
    <3>3. Window(k, b)'
      BY <1>2, <2>1, <2>3, <3>1, <3>2, SndIdle, RcvIdle, WindowKept
    <3> QED BY <1>3, <1>5, <1>6, <1>7, <2>1, <3>3, Zenon DEF Link
  <2> QED BY <1>2, <2>2, <2>3
<1>9. CASE ~Streams(k)
  <2>1. StopAndWait(k, b) /\ ~Streams(k)'
    BY <1>2, <1>9 DEF Link, Streams
  <2>2. StopAndWait(k, b)'
    BY <1>0, <1>2, <1>3, <2>1, SndIdle, StopAndWaitThins
  <2> QED BY <1>3, <1>5, <1>6, <1>7, <2>1, <2>2, Zenon DEF Link
<1> QED BY <1>8, <1>9

-----------------------------------------------------------------------------
(* The receiver takes a packet.                                            *)

\* A data field more, ...
LEMMA InFileAppend ==
  ASSUME TypeOK, snd' = snd, NEW q \in Nat, InFile(q), NEW x \in Nat, x = Files[snd.file][q + 1]
  PROVE  rcv'.st = "srdat" /\ rcv'.got = rcv.got /\ rcv'.data = Append(rcv.data, x)
           => InFile(q + 1)'
<1>0. rcv.data \in Seq(Nat) /\ Len(rcv.data) = q /\ \A i \in 1..q : rcv.data[i] = Files[snd.file][i]
  BY RcvTypes DEF InFile
<1>1. HAVE rcv'.st = "srdat" /\ rcv'.got = rcv.got /\ rcv'.data = Append(rcv.data, x)
<1>2. /\ Len(rcv'.data) = q + 1 /\ rcv'.data[q + 1] = x
      /\ \A i \in 1..q : rcv'.data[i] = rcv.data[i]
  BY <1>0, <1>1
<1>3. \A i \in 1..q + 1 : rcv'.data[i] = Files[snd'.file][i]
  BY <1>0, <1>2
<1>4. Has(snd.file - 1)'
  BY <1>1 DEF InFile, Has
<1> QED BY <1>1, <1>2, <1>3, <1>4 DEF InFile

\* ... and a file more.
LEMMA InFileDone ==
  ASSUME TypeOK, snd' = snd, snd.file \in 1..Len(Files), InFile(Len(Files[snd.file]))
  PROVE  /\ rcv.data = Files[snd.file] /\ Len(rcv.got) = snd.file - 1
         /\ rcv'.st = "srfil" /\ rcv'.got = Append(rcv.got, rcv.data) => Between(snd.file)'
<1> DEFINE f == snd.file
<1>0. /\ rcv.data \in Seq(Nat) /\ Len(rcv.data) = Len(Files[f]) /\ rcv.got \in Seq(Seq(Nat))
      /\ \A i \in 1..Len(Files[f]) : rcv.data[i] = Files[f][i]
      /\ Len(rcv.got) = f - 1 /\ \A i \in 1..f - 1 : rcv.got[i] = Files[i]
  BY RcvTypes DEF InFile, Has
<1>1. rcv.data = Files[f]
  BY <1>0, FilesType, SeqEqual
<1>2. ASSUME rcv'.st = "srfil", rcv'.got = Append(rcv.got, rcv.data) PROVE Between(f)'
  <2>1. f \in Nat
    BY KermitAssumption
  <2>2. /\ Len(rcv'.got) = f /\ rcv'.got[f] = rcv.data
        /\ \A i \in 1..f - 1 : rcv'.got[i] = rcv.got[i]
    <3> DEFINE g == rcv.got
    <3>1. /\ Len(Append(g, rcv.data)) = Len(g) + 1 /\ Append(g, rcv.data)[Len(g) + 1] = rcv.data
          /\ \A i \in 1..Len(g) : Append(g, rcv.data)[i] = g[i]
      BY <1>0
    <3> QED BY <1>0, <1>2, <2>1, <3>1
  <2>3. \A i \in 1..f : rcv'.got[i] = Files[i]
    <3> TAKE i \in 1..f
    <3>1. CASE i = f
      BY <1>1, <2>2, <3>1
    <3>2. CASE i # f
      <4>1. i \in 1..f - 1
        BY <2>1, <3>2
      <4> QED BY <1>0, <2>2, <4>1
    <3> QED BY <3>1, <3>2
  <2> QED BY <1>2, <2>2, <2>3 DEF Between, Has
<1> QED BY <1>0, <1>1, <1>2

\* The last packet, and the receiver waited for it.
LEMMA TakesCurrent ==
  ASSUME TypeOK, NEW k \in Sendings, Sender(k), Position(k, 1), snd' = snd
  PROVE  TakesAs(Current(k)) => Position(k, 0)'
<1>0. snd.file \in 0..Len(Files) /\ Len(Files) \in Nat /\ snd.pos \in Nat
  BY SndTypes, KermitAssumption
<1>1. HAVE TakesAs(Current(k))
<1>2. CASE k = "ssini"
  <2>1. rcv'.st = "srfil" /\ rcv'.got = rcv.got
    BY <1>1, <1>2 DEF TakesAs, Current, Packet
  <2> QED BY <1>2, <2>1 DEF Position, Between, Has
<1>3. CASE k = "ssfil"
  <2>1. rcv'.st = "sratt" /\ rcv'.got = rcv.got /\ rcv'.data = <<>>
    BY <1>1, <1>3 DEF TakesAs, Current, Packet
  <2>2. InFile(0)'
    BY <1>3, <2>1 DEF Position, Between, Has, InFile
  <2> QED BY <1>3, <2>2 DEF Position
<1>4. CASE k = "ssatt"
  <2>1. rcv'.st = "sratt" /\ rcv'.got = rcv.got /\ rcv'.data = rcv.data
    BY <1>1, <1>4 DEF TakesAs, Current, Packet
  <2>2. InFile(0)'
    BY <1>4, <2>1 DEF Position, Has, InFile
  <2> QED BY <1>4, <2>2 DEF Position
<1>5. CASE k = "ssdat"
  <2>1. snd.file \in 1..Len(Files) /\ snd.pos \in 1..Len(Files[snd.file]) /\ snd.pos - 1 \in Nat
    BY <1>5, FilesType DEF Sender
  <2>2. PICK q \in Nat, x \in Nat : q + 1 = snd.pos /\ x = Files[snd.file][snd.pos]
    <3>1. Files[snd.file][snd.pos] \in Nat
      BY <2>1, FilesType
    <3>2. (snd.pos - 1) + 1 = snd.pos
      BY <1>0
    <3> QED BY <2>1, <3>1, <3>2
  <2>3. rcv'.st = "srdat" /\ rcv'.got = rcv.got /\ rcv'.data = Append(rcv.data, x)
    BY <1>1, <1>5, <2>2 DEF TakesAs, Current, Packet
  <2>4. InFile(q)
    <3>1. InFile(snd.pos - 1) /\ snd.pos - 1 = q
      BY <1>0, <1>5, <2>2 DEF Position
    <3> QED BY <3>1
  <2>5. x = Files[snd.file][q + 1]
    BY <2>2
  <2>6. InFile(q + 1)'
    BY <2>2, <2>3, <2>4, <2>5, InFileAppend
  <2>7. 0 <= snd'.pos /\ snd'.pos - 0 = q + 1
    BY <1>0, <2>2
  <2> QED BY <1>5, <2>6, <2>7 DEF Position
<1>6. CASE k = "sseof"
  <2>1. /\ snd.file \in 1..Len(Files) /\ Len(Files[snd.file]) \in Nat
        /\ snd.pos = Len(Files[snd.file]) /\ (snd.pos + 1) - 1 = snd.pos
    BY <1>0, <1>6, FilesType DEF Sender
  <2>2. InFile(Len(Files[snd.file]))
    <3>0. 1 # 0
      OBVIOUS
    <3>1. InFile(snd.pos + 1 - 1)
      BY <1>6, <3>0, Zenon DEF Position
    <3> QED BY <2>1, <3>1
  <2>3. rcv'.st = "srfil" /\ rcv'.got = Append(rcv.got, rcv.data)
    BY <1>1, <1>6 DEF TakesAs, Current, Packet
  <2>4. Between(snd.file)'
    BY <2>1, <2>2, <2>3, InFileDone
  <2> QED BY <1>6, <2>4 DEF Position
<1>7. CASE k = "sseot"
  <2>1. rcv'.st = "done" /\ rcv'.got = rcv.got
    BY <1>1, <1>7 DEF TakesAs, Current, Packet
  <2>2. Has(Len(Files))
    BY <1>7 DEF Position, Between
  <2>3. Has(Len(Files))'
    BY <2>1, <2>2 DEF Has
  <2> QED BY <1>7, <2>1, <2>3 DEF Position
<1> QED BY <1>2, <1>3, <1>4, <1>5, <1>6, <1>7 DEF Sendings

LEMMA TakesReceiver ==
  ASSUME TypeOK, NEW k \in Sendings, NEW b \in Nat, NEW c \in Nat, Receiver(k, b), NEW m,
         snd' = snd, opt' = opt, (rcv'.seq + c) % Mod = After(snd.seq), c <= 1 \/ Streams(k),
         Position(k, c)'
  PROVE  RcvTakes(m) => Receiver(k, c)'
<1>0. /\ rcv.seq \in 0..Mod-1 /\ opt.stream \in BOOLEAN /\ rcv.streaming \in BOOLEAN
      /\ rcv.st \in RcvStates
  BY RcvTypes, OptTypes
<1>1. HAVE RcvTakes(m)
<1>2. /\ Active(rcv) /\ rcv'.seq = After(rcv.seq) /\ TakesAs(m)
      /\ IF rcv.streaming /\ m.type = "D" THEN TRUE ELSE rcv'.pkt = Packet("Y", rcv.seq, 0)
      /\ rcv'.st = "done" => toRcv' = <<>>
  BY <1>1 DEF RcvTakes
<1>3. /\ rcv'.st \notin {"v", "srini", "failed"}
      /\ \/ rcv.st = "srini" /\ rcv'.streaming = opt.stream
         \/ rcv.st \in {"srfil", "sratt", "srdat"} /\ rcv'.streaming = rcv.streaming
  BY <1>2 DEF TakesAs
<1>4. rcv'.streaming => opt.stream
  BY <1>3 DEF Receiver
<1>5. IF opt.stream THEN rcv'.streaming
      ELSE rcv'.pkt # None /\ rcv'.pkt.type = "Y" /\ After(rcv'.pkt.n) = rcv'.seq
  <2>1. CASE opt.stream
    BY <1>3, <2>1 DEF Receiver
  <2>2. CASE ~opt.stream
    <3>1. ~rcv.streaming
      BY <2>2 DEF Receiver
    <3>2. rcv'.pkt = Packet("Y", rcv.seq, 0)
      BY <1>2, <3>1
    <3>3. "Y" \in Types
      BY DEF Types
    <3> QED BY <1>0, <1>2, <2>2, <3>2, <3>3, PacketType
  <2> QED BY <2>1, <2>2
<1>6. Ended(rcv') => toRcv' = <<>>
  BY <1>2, <1>3 DEF Ended
<1>7. c <= 1 \/ Streams(k)'
  BY DEF Streams
<1> QED BY <1>3, <1>4, <1>5, <1>6, <1>7 DEF Receiver, After, Ended

\* Stop and wait: only the last packet can be taken.
LEMMA RcvTakesLink ==
  ASSUME TypeOK, NEW k \in Sendings, NEW b \in Nat, Link(k, b), ~Streams(k), NEW m \in Packets,
         snd' = snd, opt' = opt
  PROVE  RcvTakes(m) => Link(k, 0)'
<1>0. /\ toRcv \in Seq(Packets) /\ toSnd \in Seq(Packets) /\ snd.seq \in 0..Mod-1
      /\ rcv.seq \in 0..Mod-1 /\ Sender(k) /\ Receiver(k, b) /\ Acks(k, b) /\ StopAndWait(k, b)
      /\ b \in {0, 1} /\ (rcv.seq + b) % Mod = After(snd.seq)
  BY SndTypes, RcvTypes DEF TypeOK, Link, Receiver
<1>1. HAVE RcvTakes(m)
<1>2. /\ toRcv # <<>> /\ m = Head(toRcv) /\ m.n = rcv.seq /\ rcv'.seq = After(rcv.seq) /\ TakesAs(m)
      /\ toRcv' \in Seq(Packets) /\ Thins(toRcv', Tail(toRcv))
      /\ \/ toSnd' = toSnd /\ rcv.streaming
         \/ toSnd' = Put(toSnd, Packet("Y", rcv.seq, 0), snd)
  BY <1>1, Zenon DEF RcvTakes
<1>3. /\ Head(toRcv) = toRcv[1] /\ Len(toRcv) \in Nat \ {0} /\ Len(Tail(toRcv)) = Len(toRcv) - 1
      /\ \A i \in 1..Len(Tail(toRcv)) : Tail(toRcv)[i] = toRcv[i + 1]
      /\ Thins(Tail(toRcv), toRcv)
  BY <1>0, <1>2, ThinsTail
<1>4. 1 \in 1..Len(toRcv) /\ toRcv[1].n = rcv.seq /\ toRcv[1] = m
  BY <1>2, <1>3
<1>5. b = 1 /\ rcv.seq = snd.seq
  <2>1. b = 0 => rcv.seq = After(snd.seq) /\ rcv.seq # snd.seq
    BY <1>0, BehindFacts, AfterFacts
  <2>2. b # 0
    BY <1>0, <1>4, <2>1 DEF StopAndWait
  <2> QED BY <1>0, <2>2, BehindFacts
<1>6. m = Current(k)
  <2>1. After(toRcv[1].n) # snd.seq
    BY <1>0, <1>4, <1>5, AfterFacts
  <2>2. m.type \notin {"Q", "E"}
    BY <1>2 DEF TakesAs
  <2> QED BY <1>0, <1>4, <2>1, <2>2 DEF StopAndWait
<1>7. Sender(k)'
  <2>1. snd.st # "s"
    BY <1>0, <1>2 DEF Sender
  <2> QED BY <1>0, <2>1, SenderIdle
<1>8. Receiver(k, 0)'
  <2>1. Position(k, 1) /\ TakesAs(Current(k))
    BY <1>0, <1>2, <1>5, <1>6 DEF Receiver
  <2>2. Position(k, 0)'
    BY <1>0, <2>1, TakesCurrent
  <2>3. After(snd.seq) \in 0..Mod-1 /\ rcv'.seq = After(snd.seq)
    BY <1>0, <1>2, <1>5, AfterFacts
  <2>4. (rcv'.seq + 0) % Mod = After(snd.seq)
    BY <1>0, <2>3, BehindFacts
  <2>5. 0 \in Nat /\ 0 <= 1
    OBVIOUS
  <2> QED BY <1>0, <1>1, <2>2, <2>4, <2>5, TakesReceiver
<1>9. Acks(k, 0)'
  <2>0. 0 \in Nat /\ b # 0 /\ ~(snd.streaming /\ k = "ssdat")
    BY <1>5 DEF Streams
  <2>1. CASE toSnd' = toSnd
    <3>1. Ended(snd') => toSnd' = <<>>
      BY <1>0, <2>1 DEF Acks
    <3> QED BY <1>0, <2>0, <2>1, <3>1, SndIdle, ThinsSame, AcksThins
  <2>2. CASE toSnd' = Put(toSnd, Packet("Y", rcv.seq, 0), snd)
    <3>1. PICK y \in Packets : y = Packet("Y", rcv.seq, 0) /\ y.n = rcv.seq
      BY <1>0, PacketType DEF Types
    <3>2. toSnd' = Put(toSnd, y, snd) /\ y.n = snd.seq
      BY <1>5, <2>2, <3>1
    <3> QED BY <1>0, <2>0, <3>2, AcksPut
  <2> QED BY <1>2, <2>1, <2>2
<1>10. StopAndWait(k, 0)'
  <2>1. PICK f \in [1..Len(toRcv') -> 1..Len(Tail(toRcv))] :
          /\ \A i, j \in 1..Len(toRcv') : i < j => f[i] < f[j]
          /\ \A i \in 1..Len(toRcv') :
               \/ toRcv'[i] = Tail(toRcv)[f[i]]
               \/ toRcv'[i].type = "Q" /\ toRcv'[i].n = Tail(toRcv)[f[i]].n
    BY <1>2 DEF Thins
  <2>2. ASSUME NEW i \in 1..Len(toRcv')
        PROVE  toRcv'[i].n = snd.seq /\ (toRcv'[i] = Current(k) \/ toRcv'[i].type \in {"Q", "E"})
    <3>1. PICK x \in 2..Len(toRcv) :
            toRcv'[i] = toRcv[x] \/ (toRcv'[i].type = "Q" /\ toRcv'[i].n = toRcv[x].n)
      <4>1. f[i] \in 1..Len(Tail(toRcv)) /\ f[i] + 1 \in 2..Len(toRcv)
        BY <1>3, <2>1
      <4> QED BY <1>3, <2>1, <4>1
    <3>2. x \in 1..Len(toRcv) /\ 1 < x
      BY <1>3, <3>1
    <3>3. toRcv[x].n = snd.seq
      BY <1>0, <1>4, <1>5, <3>2 DEF StopAndWait
    <3>4. toRcv[x] = Current(k) \/ toRcv[x].type \in {"Q", "E"}
      <4>1. After(toRcv[x].n) # snd.seq
        BY <1>0, <3>3, AfterFacts
      <4> QED BY <1>0, <3>2, <3>3, <4>1 DEF StopAndWait
    <3> QED BY <3>1, <3>3, <3>4
  <2>3. ASSUME Active(snd), snd.streaming PROVE toRcv' = <<>>
    <3>1. Len(toRcv) = 1
      <4>1. Len(toRcv) - 1 # 0 => 1 \in 1..Len(toRcv) - 1
        BY <1>3
      <4>2. 1 \notin 1..Len(toRcv) - 1
        BY <1>0, <1>4, <1>5, <2>3 DEF StopAndWait
      <4> QED BY <1>3, <4>1, <4>2
    <3>2. 1..Len(Tail(toRcv)) = {}
      <4>1. \A n : n = 1 - 1 => 1..n = {}
        OBVIOUS
      <4> QED BY <1>3, <3>1, <4>1, Zenon
    <3>3. 1 \in 1..Len(toRcv') => f[1] \in 1..Len(Tail(toRcv))
      BY <2>1
    <3>4. 1 \notin 1..Len(toRcv')
      BY <3>2, <3>3, Zenon
    <3> QED BY <1>2, <3>4
  <2>4. Current(k)' = Current(k)
    BY SndIdle, CurrentKept
  <2>5. /\ \A i \in 1..Len(toRcv') :
             toRcv'[i].n = snd'.seq /\ (toRcv'[i] = Current(k)' \/ toRcv'[i].type \in {"Q", "E"})
        /\ Active(snd') /\ snd'.streaming => toRcv' = <<>>
    BY <2>2, <2>3, <2>4
  <2>6. toRcv' = <<>> => 1..Len(toRcv') - 1 = {}
    OBVIOUS
  <2> QED BY <2>5, <2>6 DEF StopAndWait, After, Active
<1>11. ~Streams(k)'
  BY DEF Streams
<1> QED BY <1>7, <1>8, <1>9, <1>10, <1>11, Zenon DEF Link

\* Streaming: what was the next but x is now the next but j.
LEMMA StreamedNext ==
  ASSUME TypeOK, snd' = snd, rcv'.seq = After(rcv.seq), Len(rcv'.data) = Len(rcv.data) + 1,
         NEW k, NEW b \in Nat, NEW c \in Nat, b = c + 1, NEW x \in Nat, NEW j \in Nat \ {0}, x = j + 1
  PROVE  Streamed(k, c, j)' = Streamed(k, b, x)
<1>0. rcv.seq \in 0..Mod-1 /\ Len(rcv.data) \in Nat
  BY RcvTypes
<1>1. PICK d \in Nat : d = j - 1 /\ x - 1 = d + 1
  OBVIOUS
<1>2. (After(rcv.seq) + d) % Mod = (rcv.seq + (d + 1)) % Mod
  BY <1>0, AfterPlus
<1>3. (rcv'.seq + (j - 1)) % Mod = (rcv.seq + (x - 1)) % Mod
  BY <1>1, <1>2
<1>4. j = c <=> x = b
  OBVIOUS
<1>5. Len(rcv'.data) + j = Len(rcv.data) + x
  <2>1. \A n \in Nat : (n + 1) + j = n + x
    OBVIOUS
  <2> QED BY <1>0, <2>1, Zenon
<1>6. CASE k = "sseof" /\ j = c
  <2>1. Streamed(k, c, j)' = Packet("Z", (rcv'.seq + (j - 1)) % Mod, 0)
    BY <1>6, Zenon DEF Streamed, Packet
  <2>2. Streamed(k, b, x) = Packet("Z", (rcv.seq + (x - 1)) % Mod, 0)
    BY <1>4, <1>6, Zenon DEF Streamed
  <2> QED BY <1>3, <2>1, <2>2, Zenon
<1>7. CASE ~(k = "sseof" /\ j = c)
  <2>1. Streamed(k, c, j)'
          = Packet("D", (rcv'.seq + (j - 1)) % Mod, Files[snd'.file][Len(rcv'.data) + j])
    BY <1>7, Zenon DEF Streamed, Packet
  <2>2. Streamed(k, b, x)
          = Packet("D", (rcv.seq + (x - 1)) % Mod, Files[snd.file][Len(rcv.data) + x])
    BY <1>4, <1>7, Zenon DEF Streamed
  <2> QED BY <1>3, <1>5, <2>1, <2>2, Zenon
<1> QED BY <1>6, <1>7

\* Streaming: the packet that is taken is the next one.
LEMMA StreamedHead ==
  ASSUME TypeOK, NEW k \in Sendings, NEW b \in Nat, Window(k, b), MaxFaults < Mod, toRcv # <<>>,
         Head(toRcv).type \notin {"Q", "E"}, Head(toRcv).n = rcv.seq,
         \A j \in 1..b : Streamed(k, b, j).n = (rcv.seq + (j - 1)) % Mod
  PROVE  b # 0 /\ Head(toRcv) = Streamed(k, b, 1)
<1>a. rcv.seq \in 0..Mod-1 /\ faults \in 0..MaxFaults /\ MaxFaults \in Nat /\ Mod \in Nat
  BY RcvTypes, KermitAssumption DEF TypeOK
<1>b. Head(toRcv) = toRcv[1] /\ Len(toRcv) \in Nat \ {0}
  BY OptTypes, ThinsTail
<1>c. \A n \in Nat \ {0} : 1 \in 1..n
  OBVIOUS
<1>0. /\ rcv.seq \in 0..Mod-1 /\ faults \in 0..MaxFaults /\ MaxFaults \in Nat /\ Mod \in Nat
      /\ Head(toRcv) = toRcv[1] /\ 1 \in 1..Len(toRcv)
  BY <1>a, <1>b, <1>c, Zenon
<1>1. PICK j \in 1..1 + faults : j <= b /\ toRcv[1] = Streamed(k, b, j)
  BY <1>0 DEF Window
<1>2. PICK d \in 0..Mod-1 : d = j - 1
  BY <1>0, <1>1
<1>3. (rcv.seq + d) % Mod = rcv.seq
  BY <1>0, <1>1, <1>2
<1>4. d = 0
  BY <1>a, <1>3, AroundFacts
<1>5. j = 1
  BY <1>0, <1>2, <1>4
<1> QED BY <1>0, <1>1, <1>5

\* The fields of the packets of a stream.
LEMMA StreamedFields ==
  ASSUME NEW k, NEW b, NEW j
  PROVE  /\ Streamed(k, b, j).n = (rcv.seq + (j - 1)) % Mod
         /\ k = "sseof" /\ j = b => Streamed(k, b, j).type = "Z"
         /\ ~(k = "sseof" /\ j = b) => /\ Streamed(k, b, j).type = "D"
                                       /\ Streamed(k, b, j).data = Files[snd.file][Len(rcv.data) + j]
BY DEF Streamed, Packet

\* The rest of the window.
LEMMA WindowNext ==
  ASSUME TypeOK, NEW k \in Sendings, NEW b \in Nat, NEW c \in Nat, b = c + 1, Window(k, b),
         snd' = snd, faults' \in Nat, faults <= faults', Active(rcv), toRcv # <<>>,
         toRcv' = Tail(toRcv), rcv'.seq = After(rcv.seq),
         c # 0 => Len(rcv'.data) = Len(rcv.data) + 1
  PROVE  Window(k, c)'
<1>0. /\ toRcv \in Seq(Packets) /\ faults \in Nat /\ Len(toRcv) \in Nat \ {0}
      /\ Len(toRcv') = Len(toRcv) - 1 /\ \A i \in 1..Len(toRcv') : toRcv'[i] = toRcv[i + 1]
  BY OptTypes, ThinsTail
<1>1. ASSUME NEW i \in 1..Len(toRcv')
      PROVE  \/ toRcv'[i].type \in {"Q", "E"}
             \/ \E j \in i..i + faults' : j <= c /\ toRcv'[i] = Streamed(k, c, j)'
  <2>1. i \in Nat \ {0} /\ i + 1 \in 1..Len(toRcv) /\ toRcv'[i] = toRcv[i + 1]
    BY <1>0
  <2>2. CASE toRcv[i + 1].type \in {"Q", "E"}
    BY <2>1, <2>2
  <2>3. CASE toRcv[i + 1].type \notin {"Q", "E"}
    <3>1. PICK x \in (i + 1)..(i + 1) + faults : x <= b /\ toRcv[i + 1] = Streamed(k, b, x)
      BY <2>1, <2>3 DEF Window
    <3>2. PICK j \in Nat \ {0} : x = j + 1 /\ j \in i..i + faults' /\ j <= c /\ c # 0 /\ x \in Nat
      <4>1. x \in Int /\ x >= i + 1 /\ x <= (i + 1) + faults
        BY <1>0, <2>1, <3>1
      <4>2. x - 1 \in Nat \ {0} /\ x = (x - 1) + 1 /\ x - 1 <= c /\ c # 0 /\ x \in Nat
        <5>1. \A y \in Int : y >= i + 1 /\ y <= c + 1 =>
                y - 1 \in Nat \ {0} /\ y = (y - 1) + 1 /\ y - 1 <= c /\ c # 0 /\ y \in Nat
          BY <2>1
        <5> QED BY <3>1, <4>1, <5>1
      <4>3. x - 1 \in i..i + faults'
        <5>1. \A y \in Int, e, f \in Nat : y >= i + 1 /\ y <= (i + 1) + e /\ e <= f => y - 1 \in i..i + f
          BY <2>1
        <5> QED BY <1>0, <4>1, <5>1
      <4> QED BY <4>2, <4>3
    <3>3. Streamed(k, c, j)' = Streamed(k, b, x)
      BY <3>2, StreamedNext
    <3> QED BY <2>1, <3>1, <3>2, <3>3
  <2> QED BY <2>2, <2>3
<1>2. Active(snd') /\ ~Ended(rcv') => Len(toRcv') <= c /\ c <= Len(toRcv') + faults'
  <2>1. ~Ended(rcv)
    BY DEF Active, Ended
  <2>2. Active(snd) => Len(toRcv) <= b /\ b <= Len(toRcv) + faults
    BY <2>1 DEF Window
  <2> QED BY <1>0, <2>2
<1> QED BY <1>1, <1>2, Zenon DEF Window, Active, Ended

\* Where the receiver is in a stream.
LEMMA StreamPosition ==
  ASSUME TypeOK, NEW k \in {"ssdat", "sseof"}, NEW b \in Nat \ {0}, Sender(k), Position(k, b)
  PROVE  /\ snd.file \in 1..Len(Files) /\ Len(Files[snd.file]) \in Nat
         /\ InFile(Len(rcv.data)) /\ Len(rcv.data) \in Nat
         /\ snd.pos <= Len(Files[snd.file]) /\ snd.pos \in Nat
         /\ k = "ssdat" => b <= snd.pos /\ Len(rcv.data) = snd.pos - b
         /\ k = "sseof" => /\ b <= snd.pos + 1 /\ Len(rcv.data) = snd.pos + 1 - b
                           /\ snd.pos = Len(Files[snd.file])
<1>1. /\ snd.file \in 1..Len(Files) /\ snd.pos \in 0..Len(Files[snd.file])
      /\ k = "sseof" => snd.pos = Len(Files[snd.file])
  BY DEF Sender
<1>2. Len(Files[snd.file]) \in Nat /\ snd.pos \in Nat /\ Len(rcv.data) \in Nat
  BY <1>1, FilesType, SndTypes, RcvTypes
<1>3. CASE k = "ssdat"
  <2>1. b <= snd.pos /\ InFile(snd.pos - b)
    BY <1>3, Zenon DEF Position
  <2>2. Len(rcv.data) = snd.pos - b
    BY <2>1 DEF InFile
  <2> QED BY <1>1, <1>2, <1>3, <2>1, <2>2
<1>4. CASE k = "sseof"
  <2>0. b # 0
    OBVIOUS
  <2>1. b <= snd.pos + 1 /\ InFile(snd.pos + 1 - b)
    BY <1>4, <2>0, Zenon DEF Position
  <2>2. Len(rcv.data) = snd.pos + 1 - b
    BY <2>1 DEF InFile
  <2> QED BY <1>1, <1>2, <1>4, <2>1, <2>2
<1> QED BY <1>3, <1>4

\* A data field of the stream is taken, ...
LEMMA TakesStreamedData ==
  ASSUME TypeOK, NEW k \in {"ssdat", "sseof"}, NEW b \in Nat, NEW c \in Nat, b = c + 1,
         Sender(k), Position(k, b), snd' = snd, ~(k = "sseof" /\ b = 1), NEW m,
         m = Streamed(k, b, 1)
  PROVE  TakesAs(m) =>
           /\ Position(k, c)' /\ m.type = "D" /\ rcv'.st = "srdat"
           /\ Len(rcv'.data) = Len(rcv.data) + 1
<1> DEFINE f == snd.file
           q == Len(rcv.data)
<1>0. /\ f \in 1..Len(Files) /\ Len(Files[f]) \in Nat /\ InFile(q) /\ q \in Nat
      /\ snd.pos <= Len(Files[f]) /\ snd.pos \in Nat
      /\ k = "ssdat" => b <= snd.pos /\ q = snd.pos - b
      /\ k = "sseof" => b <= snd.pos + 1 /\ q = snd.pos + 1 - b
  <2>1. b \in Nat \ {0}
    OBVIOUS
  <2>2. /\ snd.file \in 1..Len(Files) /\ Len(Files[snd.file]) \in Nat
        /\ InFile(Len(rcv.data)) /\ Len(rcv.data) \in Nat
        /\ snd.pos <= Len(Files[snd.file]) /\ snd.pos \in Nat
        /\ k = "ssdat" => b <= snd.pos /\ Len(rcv.data) = snd.pos - b
        /\ k = "sseof" => b <= snd.pos + 1 /\ Len(rcv.data) = snd.pos + 1 - b
    <3> HIDE DEF f, q
    <3> QED BY <2>1, StreamPosition
  <2> QED BY <2>2, Zenon
<1>1. q + 1 \in 1..Len(Files[f])
  <2>1. \A l, p, r \in Nat : p <= l /\ r + 1 <= p => r + 1 \in 1..l
    OBVIOUS
  <2>2. q + 1 <= snd.pos
    <3> HIDE DEF f, q
    <3>1. k = "ssdat" \/ (k = "sseof" /\ b > 1)
      OBVIOUS
    <3> QED BY <1>0, <3>1
  <2> QED BY <1>0, <2>1, <2>2, Zenon
<1>2. PICK z \in Nat, x \in Nat : z = q /\ x = Files[f][z + 1]
  BY <1>0, <1>1, FilesType
<1>3. m.type = "D" /\ m.data = x
  <2>1. 1 \in Nat /\ ~(k = "sseof" /\ 1 = b)
    OBVIOUS
  <2>2. m.type = "D" /\ m.data = Files[f][q + 1]
    BY <2>1, StreamedFields
  <2> QED BY <1>2, <2>2
<1>4. HAVE TakesAs(m)
<1>5. rcv'.st = "srdat" /\ rcv'.got = rcv.got /\ rcv'.data = Append(rcv.data, x)
  BY <1>3, <1>4 DEF TakesAs
<1>6. InFile(z + 1)'
  <2>1. InFile(z)
    BY <1>0, <1>2
  <2> QED BY <1>2, <1>5, <2>1, InFileAppend
<1>7. Len(rcv'.data) = Len(rcv.data) + 1
  BY <1>2, <1>6 DEF InFile
<1>8. Position(k, c)'
  <2>1. CASE k = "ssdat"
    <3>1. c <= snd'.pos /\ snd'.pos - c = z + 1
      <4>1. \A p \in Nat : b <= p /\ z = p - b => c <= p /\ p - c = z + 1
        OBVIOUS
      <4> QED BY <1>0, <1>2, <2>1, <4>1
    <3> QED BY <1>6, <2>1, <3>1 DEF Position
  <2>2. CASE k = "sseof"
    <3>1. c # 0 /\ c <= snd'.pos + 1 /\ snd'.pos + 1 - c = z + 1
      <4>1. \A p \in Nat : b <= p + 1 /\ z = p + 1 - b => c <= p + 1 /\ p + 1 - c = z + 1
        OBVIOUS
      <4>2. c # 0
        BY <2>2
      <4> QED BY <1>0, <1>2, <2>2, <4>1, <4>2
    <3> QED BY <1>6, <2>2, <3>1 DEF Position
  <2> QED BY <2>1, <2>2
<1> QED BY <1>3, <1>5, <1>7, <1>8

LEMMA RcvTakesData ==
  ASSUME TypeOK, NEW k \in Sendings, NEW b \in Nat, NEW c \in Nat, b = c + 1, Link(k, b),
         Streams(k), NEW m \in Packets, m = Streamed(k, b, 1), ~(k = "sseof" /\ b = 1),
         snd' = snd, opt' = opt, faults' \in Nat, faults <= faults'
  PROVE  RcvTakes(m) => Link(k, c)'
<1>0. /\ toRcv \in Seq(Packets) /\ toSnd \in Seq(Packets) /\ snd.seq \in 0..Mod-1
      /\ rcv.seq \in 0..Mod-1 /\ Sender(k) /\ Receiver(k, b) /\ Acks(k, b) /\ Window(k, b)
      /\ (rcv.seq + b) % Mod = After(snd.seq) /\ Position(k, b) /\ b # 0
      /\ k \in {"ssdat", "sseof"} /\ Streams(k)'
  BY SndTypes, RcvTypes DEF TypeOK, Link, Receiver, Streams
<1>1. HAVE RcvTakes(m)
<1>2. /\ Active(rcv) /\ toRcv # <<>> /\ rcv'.seq = After(rcv.seq) /\ TakesAs(m)
      /\ IF rcv.streaming /\ m.type = "D" THEN toSnd' = toSnd ELSE TRUE
      /\ IF rcv'.st = "done" THEN TRUE ELSE (rcv.streaming => toRcv' = Tail(toRcv))
  BY <1>1 DEF RcvTakes
<1>3. /\ Position(k, c)' /\ m.type = "D" /\ rcv'.st = "srdat"
      /\ Len(rcv'.data) = Len(rcv.data) + 1
  BY <1>0, <1>2, TakesStreamedData
<1>4. toSnd' = toSnd /\ toRcv' = Tail(toRcv)
  <2>1. rcv.streaming
    BY <1>0, <1>2, StreamingReceiver
  <2> QED BY <1>2, <1>3, <2>1
<1>5. Sender(k)'
  <2>1. snd.st # "s"
    BY <1>0, <1>2 DEF Sender
  <2> QED BY <1>0, <2>1, SenderIdle
<1>6. Receiver(k, c)'
  <2>1. (After(rcv.seq) + c) % Mod = (rcv.seq + (c + 1)) % Mod
    BY <1>0, AfterPlus
  <2>2. (rcv'.seq + c) % Mod = After(snd.seq)
    BY <1>0, <1>2, <2>1
  <2> QED BY <1>0, <1>1, <1>3, <2>2, TakesReceiver
<1>7. Acks(k, c)'
  <2>1. Ended(snd') => toSnd' = <<>>
    BY <1>0, <1>4 DEF Acks
  <2> QED BY <1>0, <1>4, <2>1, SndIdle, ThinsSame, AcksThins
<1>8. Window(k, c)'
  BY <1>0, <1>2, <1>3, <1>4, WindowNext
<1> QED BY <1>0, <1>5, <1>6, <1>7, <1>8, Zenon DEF Link

\* ... or the end of the file.
LEMMA RcvTakesEof ==
  ASSUME TypeOK, Link("sseof", 1), Streams("sseof"), NEW m \in Packets,
         m = Streamed("sseof", 1, 1), snd' = snd, opt' = opt, faults' \in Nat, faults <= faults'
  PROVE  RcvTakes(m) => Link("sseof", 0)'
<1> DEFINE k == "sseof"
<1>0. /\ toRcv \in Seq(Packets) /\ toSnd \in Seq(Packets) /\ snd.seq \in 0..Mod-1
      /\ rcv.seq \in 0..Mod-1 /\ Sender(k) /\ Receiver(k, 1) /\ Acks(k, 1) /\ Window(k, 1)
      /\ (rcv.seq + 1) % Mod = After(snd.seq) /\ Position(k, 1) /\ Streams(k)' /\ k \in Sendings
      /\ 1 \in Nat /\ 0 \in Nat /\ 1 # 0 /\ 1 = 0 + 1
  BY SndTypes, RcvTypes DEF TypeOK, Link, Receiver, Streams, Sendings
<1>1. rcv.seq = snd.seq /\ (rcv.seq + (1 - 1)) % Mod = rcv.seq
  <2>1. (rcv.seq + 0) % Mod = rcv.seq /\ 1 - 1 = 0
    BY <1>0, AroundFacts
  <2> QED BY <1>0, <2>1, BehindFacts
<1>2. m = Current(k) /\ m.type = "Z"
  BY <1>1 DEF Streamed, Current, Packet
<1> HIDE DEF k
<1>3. HAVE RcvTakes(m)
<1>4. /\ Active(rcv) /\ toRcv # <<>> /\ rcv'.seq = After(rcv.seq) /\ TakesAs(m)
      /\ toSnd' = Put(toSnd, Packet("Y", rcv.seq, 0), snd)
      /\ IF rcv'.st = "done" THEN TRUE ELSE (rcv.streaming => toRcv' = Tail(toRcv))
  BY <1>2, <1>3 DEF RcvTakes
<1>5. toRcv' = Tail(toRcv)
  <2>1. rcv.streaming
    BY <1>0, <1>4, StreamingReceiver DEF k
  <2>2. rcv'.st # "done"
    BY <1>2, <1>4 DEF TakesAs
  <2> QED BY <1>4, <2>1, <2>2
<1>6. Sender(k)'
  <2>1. snd.st # "s"
    BY <1>0, <1>4 DEF Sender
  <2> QED BY <1>0, <2>1, SenderIdle
<1>7. Receiver(k, 0)'
  <2>1. Position(k, 0)'
    BY <1>0, <1>2, <1>4, TakesCurrent
  <2>2. (rcv'.seq + 0) % Mod = After(snd.seq)
    <3>1. After(snd.seq) \in 0..Mod-1 /\ rcv'.seq = After(snd.seq)
      BY <1>0, <1>1, <1>4, AfterFacts
    <3> QED BY <1>0, <3>1, BehindFacts
  <2>3. 0 <= 1
    OBVIOUS
  <2> QED BY <1>0, <1>3, <2>1, <2>2, <2>3, TakesReceiver
<1>8. Acks(k, 0)'
  <2>1. PICK y \in Packets : y = Packet("Y", rcv.seq, 0) /\ y.n = rcv.seq
    BY <1>0, PacketType DEF Types
  <2>2. toSnd' = Put(toSnd, y, snd) /\ y.n = snd.seq /\ k # "ssdat"
    BY <1>1, <1>4, <2>1 DEF k
  <2> QED BY <1>0, <2>2, AcksPut
<1>9. Window(k, 0)'
  BY <1>0, <1>4, <1>5, WindowNext
<1>10. Link(k, 0)'
  BY <1>0, <1>6, <1>7, <1>8, <1>9, Zenon DEF Link
<1> QED BY <1>10 DEF k

LEMMA RcvTakesStreamed ==
  ASSUME TypeOK, NEW k \in Sendings, NEW b \in Nat, Link(k, b), Streams(k), NEW m \in Packets,
         snd' = snd, opt' = opt, MaxFaults < Mod, faults' \in Nat, faults <= faults'
  PROVE  RcvTakes(m) => \E c \in Nat : Link(k, c)'
<1>1. HAVE RcvTakes(m)
<1>2. toRcv # <<>> /\ m = Head(toRcv) /\ m.n = rcv.seq /\ m.type \notin {"Q", "E"}
  BY <1>1 DEF RcvTakes, TakesAs
<1>3. Window(k, b) /\ \A j \in 1..b : Streamed(k, b, j).n = (rcv.seq + (j - 1)) % Mod
  BY StreamedFields DEF Link
<1>4. b # 0 /\ m = Streamed(k, b, 1)
  BY <1>2, <1>3, StreamedHead
<1>5. PICK c \in Nat : b = c + 1
  <2>1. b - 1 \in Nat /\ b = (b - 1) + 1
    BY <1>4
  <2> QED BY <2>1
<1>6. CASE k = "sseof" /\ b = 1
  <2>1. Link("sseof", 0)'
    BY <1>1, <1>4, <1>6, RcvTakesEof
  <2>2. 0 \in Nat
    OBVIOUS
  <2> QED BY <1>6, <2>1, <2>2
<1>7. CASE ~(k = "sseof" /\ b = 1)
  BY <1>1, <1>4, <1>5, <1>7, RcvTakesData
<1> QED BY <1>6, <1>7

-----------------------------------------------------------------------------
(* The sender goes on.                                                     *)

\* An ACK with the right number is an answer to the last packet, and all that
\* follow it are.
LEMMA AckFacts ==
  ASSUME TypeOK, NEW k \in Sendings, NEW b \in Nat, Acks(k, b), Answered
  PROVE  /\ b = 0 /\ ~(snd.streaming /\ k = "ssdat")
         /\ \A i \in 1..Len(Tail(toSnd)) : Tail(toSnd)[i].type = "Y" =>
              Tail(toSnd)[i].n = snd.seq /\ ~opt.stream
<1>0. snd.seq \in 0..Mod-1 /\ toSnd \in Seq(Packets) /\ toSnd # <<>>
  BY SndTypes DEF TypeOK, Answered
<1>1. /\ Head(toSnd) = toSnd[1] /\ Len(toSnd) \in Nat \ {0} /\ Len(Tail(toSnd)) = Len(toSnd) - 1
      /\ \A i \in 1..Len(Tail(toSnd)) : Tail(toSnd)[i] = toSnd[i + 1]
  BY <1>0, ThinsTail
<1>2. 1 \in 1..Len(toSnd) /\ toSnd[1].type = "Y" /\ toSnd[1].n = snd.seq
  BY <1>1 DEF Answered
<1>3. b = 0 /\ ~(snd.streaming /\ k = "ssdat")
  BY <1>0, <1>2, AfterFacts DEF Acks
<1>4. ASSUME NEW i \in 1..Len(Tail(toSnd)), Tail(toSnd)[i].type = "Y"
      PROVE  Tail(toSnd)[i].n = snd.seq /\ ~opt.stream
  <2>1. i + 1 \in 1..Len(toSnd) /\ 1 < i + 1 /\ Tail(toSnd)[i] = toSnd[i + 1]
    BY <1>1
  <2> QED BY <1>2, <1>4, <2>1 DEF Acks
<1> QED BY <1>3, <1>4

LEMMA NextSender ==
  ASSUME TypeOK, NEW k \in Sendings, Sender(k), NEW k2 \in Sendings, opt' = opt
  PROVE  GoesOn(k, k2) => Sender(k2)'
<1>0. /\ snd.file \in 0..Len(Files) /\ Len(Files) \in Nat /\ snd.pos \in Nat
      /\ opt.stream \in BOOLEAN /\ snd.streaming \in BOOLEAN
  BY SndTypes, OptTypes, KermitAssumption
<1>1. HAVE GoesOn(k, k2)
<1>2. snd'.st = k2 /\ snd'.pkt = Current(k2)' /\ k2 \notin {"s", "ssini"}
  BY <1>1 DEF GoesOn, Follows, Sendings
<1>3. snd'.streaming => opt'.stream
  BY <1>0, <1>1 DEF GoesOn, Sender
<1>4. CASE k2 = "ssfil"
  <2>1. snd.file < Len(Files) /\ snd'.file = snd.file + 1 /\ snd'.pos = 0
    BY <1>1, <1>4 DEF GoesOn, Follows
  <2>2. snd'.file \in 1..Len(Files) /\ snd'.pos \in 0..Len(Files[snd'.file])
    <3>1. snd'.file \in 1..Len(Files)
      BY <1>0, <2>1
    <3> QED BY <2>1, <3>1, FilesType
  <2> QED BY <1>2, <1>3, <1>4, <2>1, <2>2 DEF Sender
<1>5. CASE k2 = "sseot"
  <2>1. snd'.file = Len(Files)
    BY <1>1, <1>5 DEF GoesOn, Follows
  <2> QED BY <1>2, <1>3, <1>5, <2>1 DEF Sender
<1>6. CASE k2 \in {"ssatt", "ssdat", "sseof"}
  <2>1. k \in {"ssfil", "ssatt", "ssdat"} /\ snd'.file = snd.file
    BY <1>1, <1>6 DEF GoesOn, Follows
  <2>2. /\ snd.file \in 1..Len(Files) /\ snd.pos \in 0..Len(Files[snd.file])
        /\ Len(Files[snd.file]) \in Nat
    BY <2>1, FilesType DEF Sender
  <2>3. /\ k2 = "ssatt" => snd'.pos = snd.pos /\ snd.pos = 0
        /\ k2 = "ssdat" => snd.pos < Len(Files[snd.file]) /\ snd'.pos = snd.pos + 1
        /\ k2 = "sseof" => snd.pos = Len(Files[snd.file]) /\ snd'.pos = snd.pos
    BY <1>1 DEF GoesOn, Follows, Sender
  <2>4. /\ snd'.file \in 1..Len(Files) /\ snd'.pos \in 0..Len(Files[snd'.file])
        /\ k2 = "ssatt" => snd'.pos = 0
        /\ k2 = "ssdat" => snd'.pos > 0
        /\ k2 = "sseof" => snd'.pos = Len(Files[snd'.file])
    BY <1>0, <1>6, <2>1, <2>2, <2>3
  <2> QED BY <1>2, <1>3, <1>6, <2>4 DEF Sender
<1> QED BY <1>2, <1>4, <1>5, <1>6 DEF Sendings

LEMMA NextPosition ==
  ASSUME TypeOK, NEW k \in Sendings, Sender(k), NEW k2 \in Sendings, rcv' = rcv, Position(k, 0)
  PROVE  GoesOn(k, k2) => Position(k2, 1)'
<1>0. snd.file \in 0..Len(Files) /\ Len(Files) \in Nat /\ snd.pos \in Nat
  BY SndTypes, KermitAssumption
<1>1. HAVE GoesOn(k, k2)
<1>2. CASE k2 = "ssfil"
  <2>1. k \in {"ssini", "sseof"} /\ snd'.file = snd.file + 1
    BY <1>1, <1>2 DEF GoesOn, Follows
  <2>2. Between(snd.file)
    BY <2>1 DEF Position, Sender
  <2>3. snd'.file - 1 = snd.file
    BY <1>0, <2>1
  <2> QED BY <1>2, <2>2, <2>3 DEF Position, Between, Has
<1>3. CASE k2 = "sseot"
  <2>1. k \in {"ssini", "sseof"} /\ snd.file = Len(Files)
    BY <1>1, <1>3 DEF GoesOn, Follows
  <2>2. Between(Len(Files))
    BY <2>1 DEF Position, Sender
  <2> QED BY <1>3, <2>2 DEF Position, Between, Has
<1>4. CASE k2 = "ssatt"
  <2>1. k = "ssfil" /\ snd'.file = snd.file
    BY <1>1, <1>4 DEF GoesOn, Follows
  <2>2. InFile(0)
    BY <2>1 DEF Position
  <2> QED BY <1>4, <2>1, <2>2 DEF Position, InFile, Has
<1>5. CASE k2 \in {"ssdat", "sseof"}
  <2>1. /\ k \in {"ssfil", "ssatt", "ssdat"} /\ snd'.file = snd.file
        /\ k2 = "ssdat" => snd'.pos = snd.pos + 1
        /\ k2 = "sseof" => snd'.pos = snd.pos
    BY <1>1, <1>5 DEF GoesOn, Follows
  <2>2. PICK q \in Nat : q = snd.pos /\ InFile(q)
    <3>1. CASE k = "ssdat"
      <4>1. InFile(snd.pos - 0) /\ snd.pos - 0 = snd.pos
        BY <1>0, <3>1 DEF Position
      <4> QED BY <1>0, <4>1
    <3>2. CASE k \in {"ssfil", "ssatt"}
      BY <1>0, <3>2 DEF Position, Sender
    <3> QED BY <2>1, <3>1, <3>2
  <2>3. InFile(q)'
    BY <2>1, <2>2 DEF InFile, Has
  <2>4. CASE k2 = "ssdat"
    <3>1. 1 <= snd'.pos /\ snd'.pos - 1 = q
      BY <1>0, <2>1, <2>2, <2>4
    <3> QED BY <2>3, <2>4, <3>1 DEF Position
  <2>5. CASE k2 = "sseof"
    <3>1. 1 # 0 /\ 1 <= snd'.pos + 1 /\ snd'.pos + 1 - 1 = q
      BY <1>0, <2>1, <2>2, <2>5
    <3> QED BY <2>3, <2>5, <3>1 DEF Position
  <2> QED BY <1>5, <2>4, <2>5
<1> QED BY <1>1, <1>2, <1>3, <1>4, <1>5 DEF GoesOn, Follows

LEMMA NextPacket ==
  ASSUME NEW k, NEW k2 \in Sendings
  PROVE  GoesOn(k, k2) /\ Sender(k2)' =>
           /\ snd'.pkt \in Packets /\ snd'.pkt.n = snd'.seq /\ snd'.pkt = Current(k2)'
           /\ snd'.seq = After(snd.seq) /\ snd'.st = k2 /\ Active(snd') /\ ~Ended(snd')
<1>1. HAVE GoesOn(k, k2) /\ Sender(k2)'
<1>2. /\ snd' \in SndType /\ snd'.st = k2 /\ snd'.seq = After(snd.seq) /\ snd'.pkt = Current(k2)'
  BY <1>1 DEF GoesOn
<1>3. snd'.seq \in 0..Mod-1 /\ snd'.file \in Nat
  BY <1>2, KermitAssumption DEF SndType
<1>4. Active(snd') /\ ~Ended(snd')
  BY <1>2 DEF Active, Ended, Sendings
<1>5. CASE k2 = "ssdat"
  <2>1. /\ snd'.file \in 1..Len(Files) /\ snd'.pos \in 0..Len(Files[snd'.file]) /\ snd'.pos > 0
    BY <1>1, <1>5 DEF Sender
  <2>2. Files[snd'.file][snd'.pos] \in Nat
    BY <2>1, FilesType
  <2>3. snd'.pkt = Packet("D", snd'.seq, Files[snd'.file][snd'.pos])
    BY <1>2, <1>5 DEF Current, Packet
  <2> QED BY <1>2, <1>3, <1>4, <2>2, <2>3, PacketType DEF Types
<1>6. CASE k2 # "ssdat"
  <2>1. PICK t \in Types, x \in Nat : snd'.pkt = Packet(t, snd'.seq, x)
    BY <1>2, <1>3, <1>6 DEF Current, Packet, Types, Sendings
  <2> QED BY <1>2, <1>3, <1>4, <2>1, PacketType
<1> QED BY <1>5, <1>6

\* The first packet of a stream.
LEMMA StreamedFirst ==
  ASSUME TypeOK, NEW k2 \in {"ssdat", "sseof"}, rcv' = rcv, Position(k2, 1)', rcv.seq = snd'.seq,
         snd'.pos \in Nat
  PROVE  Current(k2)' = Streamed(k2, 1, 1)'
<1>0. rcv.seq \in 0..Mod-1
  BY RcvTypes
<1>1. (rcv'.seq + (1 - 1)) % Mod = snd'.seq
  <2>1. (rcv.seq + 0) % Mod = rcv.seq /\ 1 - 1 = 0
    BY <1>0, AroundFacts
  <2> QED BY <2>1
<1>2. CASE k2 = "sseof"
  <2>1. Current(k2)' = Packet("Z", snd'.seq, 0)
    BY <1>2 DEF Current, Packet
  <2>2. Streamed(k2, 1, 1)' = Packet("Z", (rcv'.seq + (1 - 1)) % Mod, 0)
    BY <1>2, Zenon DEF Streamed, Packet
  <2> QED BY <1>1, <2>1, <2>2, Zenon
<1>3. CASE k2 = "ssdat"
  <2>1. Current(k2)' = Packet("D", snd'.seq, Files[snd'.file][snd'.pos])
    BY <1>3 DEF Current, Packet
  <2>2. Streamed(k2, 1, 1)'
          = Packet("D", (rcv'.seq + (1 - 1)) % Mod, Files[snd'.file][Len(rcv'.data) + 1])
    <3>1. k2 # "sseof"
      BY <1>3
    <3> QED BY <3>1, Zenon DEF Streamed, Packet
  <2>3. Len(rcv'.data) + 1 = snd'.pos
    <3>1. Len(rcv'.data) = snd'.pos - 1
      BY <1>3 DEF Position, InFile
    <3> QED BY <3>1
  <2> QED BY <1>1, <2>1, <2>2, <2>3, Zenon
<1> QED BY <1>2, <1>3

\* The line when the sender goes on after an ACK.
LEMMA NextStopAndWait ==
  ASSUME TypeOK, NEW k \in Sendings, StopAndWait(k, 0) \/ toRcv = <<>>, NEW k2 \in Sendings,
         snd'.seq = After(snd.seq), NEW m \in Packets, m.n = snd'.seq, m = Current(k2)'
  PROVE  toRcv' = Append(toRcv, m) => StopAndWait(k2, 1)'
<1>0. snd.seq \in 0..Mod-1 /\ toRcv \in Seq(Packets)
  BY SndTypes DEF TypeOK
<1>1. snd'.seq # snd.seq
  BY <1>0, AfterFacts
<1>2. HAVE toRcv' = Append(toRcv, m)
<1>3. /\ Len(toRcv) \in Nat /\ Len(toRcv') = Len(toRcv) + 1 /\ toRcv'[Len(toRcv) + 1] = m
      /\ \A i \in 1..Len(toRcv) : toRcv'[i] = toRcv[i]
  BY <1>0, <1>2, AppendFacts
<1>4. \A i \in 1..Len(toRcv) : toRcv[i].n = snd.seq
  <2>1. CASE toRcv = <<>>
    <3>1. 1..Len(toRcv) = {}
      BY <2>1
    <3> QED BY <3>1, Zenon
  <2>2. CASE StopAndWait(k, 0)
    BY <2>2 DEF StopAndWait
  <2> QED BY <2>1, <2>2
<1>5. ASSUME NEW i \in 1..Len(toRcv')
      PROVE  \/ i = Len(toRcv') /\ toRcv'[i] = m
             \/ i \in 1..Len(toRcv) /\ toRcv'[i].n = snd.seq
  BY <1>3, <1>4
<1>6. /\ \A i \in 1..Len(toRcv') :
           \/ toRcv'[i].n = snd'.seq /\ (toRcv'[i] = Current(k2)' \/ toRcv'[i].type \in {"Q", "E"})
           \/ 1 = 1 /\ After(toRcv'[i].n) = snd'.seq
      /\ \A i, j \in 1..Len(toRcv') : i < j /\ toRcv'[i].n = snd'.seq => toRcv'[j].n = snd'.seq
      /\ \A i \in 1..Len(toRcv') - 1 : toRcv'[i].n # snd'.seq
  <2>1. \A i \in 1..Len(toRcv') :
           \/ toRcv'[i].n = snd'.seq /\ (toRcv'[i] = Current(k2)' \/ toRcv'[i].type \in {"Q", "E"})
           \/ 1 = 1 /\ After(toRcv'[i].n) = snd'.seq
    BY <1>5, Zenon
  <2>2. \A i, j \in 1..Len(toRcv') : i < j /\ toRcv'[i].n = snd'.seq => toRcv'[j].n = snd'.seq
    BY <1>1, <1>3, <1>5
  <2>3. \A i \in 1..Len(toRcv') - 1 : toRcv'[i].n # snd'.seq
    BY <1>1, <1>3, <1>4
  <2> QED BY <2>1, <2>2, <2>3
<1>7. 1 # 0
  OBVIOUS
<1> QED BY <1>6, <1>7, Zenon DEF StopAndWait, After

LEMMA NextWindow ==
  ASSUME TypeOK, NEW k2 \in {"ssdat", "sseof"}, rcv' = rcv, Position(k2, 1)', rcv.seq = snd'.seq,
         snd'.pos \in Nat, NEW m \in Packets, m = Current(k2)', toRcv = <<>>, faults' \in Nat
  PROVE  toRcv' = Append(toRcv, m) => Window(k2, 1)'
<1>1. HAVE toRcv' = Append(toRcv, m)
<1>2. Len(toRcv') = 1 /\ toRcv'[1] = m
  BY <1>1
<1>3. m = Streamed(k2, 1, 1)'
  BY StreamedFirst
<1>4. \A i \in 1..Len(toRcv') : i = 1
  BY <1>2
<1>5. 1 \in 1..1 + faults' /\ 1 <= 1 /\ 1 <= 1 + faults'
  <2>1. \A f \in Nat : 1 \in 1..1 + f /\ 1 <= 1 /\ 1 <= 1 + f
    OBVIOUS
  <2> QED BY <2>1, Zenon
<1>6. \A i \in 1..Len(toRcv') :
        \/ toRcv'[i].type \in {"Q", "E"}
        \/ \E j \in i..i + faults' : j <= 1 /\ toRcv'[i] = Streamed(k2, 1, j)'
  BY <1>2, <1>3, <1>4, <1>5, Zenon
<1>7. Len(toRcv') <= 1 /\ 1 <= Len(toRcv') + faults'
  BY <1>2, <1>5, Zenon
<1> QED BY <1>6, <1>7, Zenon DEF Window

LEMMA WindowEmpty ==
  ASSUME NEW k, NEW b, toRcv' = <<>>, Ended(rcv')
  PROVE  Window(k, b)'
<1>1. 1..Len(toRcv') = {}
  OBVIOUS
<1> QED BY <1>1 DEF Window, Ended

\* The receiver when the sender goes on: b more packets to take.
LEMMA NextReceiver ==
  ASSUME NEW k, NEW b, NEW c, Receiver(k, b), NEW k2, rcv' = rcv, opt' = opt, Position(k2, c)',
         (rcv.seq + c) % Mod = After(snd'.seq), c <= 1 \/ Streams(k2)',
         Ended(rcv) => toRcv' = <<>>
  PROVE  Receiver(k2, c)'
BY Zenon DEF Receiver, After, Ended

\* The sender goes on after an ACK, ...
LEMMA SndGoesOnAnswered ==
  ASSUME TypeOK, NEW k \in Sendings, NEW b \in Nat, Link(k, b), NEW k2 \in Sendings,
         ~StreamingData, rcv' = rcv, opt' = opt, faults' \in Nat
  PROVE  SndGoesOn(k, k2) => Link(k2, 1)'
<1>0. /\ toRcv \in Seq(Packets) /\ toSnd \in Seq(Packets) /\ snd.seq \in 0..Mod-1
      /\ rcv.seq \in 0..Mod-1 /\ Sender(k) /\ Receiver(k, b) /\ Acks(k, b)
  BY SndTypes, RcvTypes DEF TypeOK, Link
<1>1. HAVE SndGoesOn(k, k2)
<1>2. /\ Active(snd) /\ GoesOn(k, k2) /\ toRcv' = Put(toRcv, snd'.pkt, rcv)
      /\ toSnd' \in Seq(Packets) /\ Answered /\ Thins(toSnd', Tail(toSnd))
  BY <1>1 DEF SndGoesOn
<1>3. /\ b = 0 /\ ~(snd.streaming /\ k = "ssdat")
      /\ \A i \in 1..Len(Tail(toSnd)) : Tail(toSnd)[i].type = "Y" =>
           Tail(toSnd)[i].n = snd.seq /\ ~opt.stream
  BY <1>0, <1>2, AckFacts
<1>4. Sender(k2)'
  BY <1>0, <1>2, NextSender
<1>5. /\ snd'.pkt \in Packets /\ snd'.pkt.n = snd'.seq /\ snd'.pkt = Current(k2)'
      /\ snd'.seq = After(snd.seq) /\ snd'.st = k2 /\ Active(snd') /\ ~Ended(snd')
  BY <1>2, <1>4, NextPacket
<1>6. snd'.seq \in 0..Mod-1 /\ snd'.seq # snd.seq /\ rcv.seq = snd'.seq /\ snd'.pos \in Nat
  <2>1. snd'.pos \in Nat
    BY <1>2 DEF GoesOn, SndType
  <2>2. (rcv.seq + 0) % Mod = After(snd.seq)
    BY <1>0, <1>3 DEF Receiver
  <2> QED BY <1>0, <1>5, <2>1, <2>2, AfterFacts, BehindFacts
<1>7. Position(k2, 1)'
  <2>1. Position(k, 0)
    BY <1>0, <1>3 DEF Receiver
  <2> QED BY <1>0, <1>2, <2>1, NextPosition
<1>8. Receiver(k2, 1)'
  <2>1. (rcv.seq + 1) % Mod = After(snd'.seq)
    BY <1>0, <1>6, BehindFacts
  <2>2. Ended(rcv) => toRcv' = <<>>
    BY <1>2 DEF Put
  <2>3. 1 <= 1
    OBVIOUS
  <2> QED BY <1>0, <1>7, <2>1, <2>2, <2>3, NextReceiver
<1>9. Acks(k2, 1)'
  <2>1. ASSUME NEW i \in 1..Len(toSnd'), toSnd'[i].type = "Y"
        PROVE  toSnd'[i].n = snd.seq /\ ~opt.stream
    <3>1. PICK f \in [1..Len(toSnd') -> 1..Len(Tail(toSnd))] :
            \A x \in 1..Len(toSnd') :
              \/ toSnd'[x] = Tail(toSnd)[f[x]]
              \/ toSnd'[x].type = "Q" /\ toSnd'[x].n = Tail(toSnd)[f[x]].n
      BY <1>2 DEF Thins
    <3>2. f[i] \in 1..Len(Tail(toSnd)) /\ toSnd'[i] = Tail(toSnd)[f[i]]
      BY <2>1, <3>1
    <3> QED BY <1>3, <2>1, <3>2
  <2>2. /\ \A i \in 1..Len(toSnd') : toSnd'[i].type = "Y" =>
             \/ 1 = 0 /\ toSnd'[i].n = snd'.seq /\ ~(snd'.streaming /\ k2 = "ssdat")
             \/ ~opt'.stream /\ After(toSnd'[i].n) = snd'.seq
        /\ \A i, j \in 1..Len(toSnd') :
             i < j /\ toSnd'[i].type = "Y" /\ toSnd'[i].n = snd'.seq /\ toSnd'[j].type = "Y"
               => toSnd'[j].n = snd'.seq /\ ~opt'.stream
    BY <1>5, <1>6, <2>1
  <2> QED BY <1>5, <2>2, Zenon DEF Acks, After, Ended
<1>10. toRcv = <<>> \/ (~Streams(k) /\ ~Streams(k2)')
  <2>1. CASE Ended(rcv)
    BY <1>0, <2>1 DEF Receiver
  <2>2. CASE Streams(k) /\ ~Ended(rcv)
    <3>1. Len(toRcv) <= 0
      BY <1>2, <1>3, <2>2 DEF Link, Window
    <3> QED BY <1>0, <3>1
  <2>3. CASE ~Streams(k) /\ Streams(k2)'
    <3>1. snd'.streaming /\ k2 \in {"ssdat", "sseof"}
      BY <2>3 DEF Streams
    <3>2. k # "ssini"
      BY <1>2, <3>1 DEF GoesOn, Follows
    <3>3. snd.streaming
      BY <1>2, <3>1, <3>2 DEF GoesOn
    <3> QED BY <1>2, <1>3, <2>3, <3>3 DEF Link, StopAndWait
  <2> QED BY <2>1, <2>2, <2>3
<1>11. Streams(k2)' => k2 \in {"ssdat", "sseof"}
  BY DEF Streams
<1>12. CASE Ended(rcv)
  <2>1. toRcv' = <<>> /\ Ended(rcv')
    BY <1>2, <1>12 DEF Put
  <2> QED BY <1>4, <1>8, <1>9, <2>1, StopAndWaitEmpty, WindowEmpty, Zenon DEF Link
<1>13. CASE ~Ended(rcv)
  <2>1. PICK m \in Packets :
          m = Current(k2)' /\ m.n = snd'.seq /\ toRcv' = Append(toRcv, m)
    BY <1>2, <1>5, <1>13 DEF Put
  <2>2. StopAndWait(k2, 1)'
    <3>1. StopAndWait(k, 0) \/ toRcv = <<>>
      BY <1>3, <1>10 DEF Link
    <3> QED BY <1>5, <2>1, <3>1, NextStopAndWait
  <2>3. Streams(k2)' => Window(k2, 1)'
    BY <1>6, <1>7, <1>10, <1>11, <2>1, NextWindow
  <2> QED BY <1>4, <1>8, <1>9, <2>2, <2>3, Zenon DEF Link
<1> QED BY <1>12, <1>13

\* ... or streams on: the receiver has one packet more to take, ...
LEMMA StreamingPosition ==
  ASSUME TypeOK, NEW b \in Nat, NEW c \in Nat, c = b + 1, NEW k2 \in {"ssdat", "sseof"}, rcv' = rcv,
         Position("ssdat", b)
  PROVE  GoesOn("ssdat", k2) =>
           /\ Position(k2, c)' /\ Len(rcv.data) = snd.pos - b /\ b <= snd.pos
           /\ snd'.file = snd.file /\ snd'.streaming = snd.streaming
           /\ k2 = "ssdat" => snd'.pos = snd.pos + 1
<1>0. snd.pos \in Nat
  BY SndTypes
<1>1. HAVE GoesOn("ssdat", k2)
<1>2. /\ snd'.file = snd.file /\ snd'.streaming = snd.streaming
      /\ k2 = "ssdat" => snd'.pos = snd.pos + 1
      /\ k2 = "sseof" => snd'.pos = snd.pos
  BY <1>1 DEF GoesOn, Follows
<1>3. b <= snd.pos /\ InFile(snd.pos - b)
  BY Zenon DEF Position
<1>4. PICK q \in Nat : q = snd.pos - b /\ InFile(q)
  <2>1. snd.pos - b \in Nat
    BY <1>0, <1>3
  <2> QED BY <1>3, <2>1
<1>5. InFile(q)'
  BY <1>2, <1>4 DEF InFile, Has
<1>6. CASE k2 = "ssdat"
  <2>1. c <= snd'.pos /\ snd'.pos - c = q
    <3>1. \A p \in Nat : b <= p /\ q = p - b => c <= p + 1 /\ (p + 1) - c = q
      OBVIOUS
    <3> QED BY <1>0, <1>2, <1>3, <1>4, <1>6, <3>1
  <2>2. Position(k2, c)'
    BY <1>5, <1>6, <2>1 DEF Position
  <2> QED BY <1>2, <1>3, <1>4, <2>2 DEF InFile
<1>7. CASE k2 = "sseof"
  <2>1. c # 0 /\ c <= snd'.pos + 1 /\ snd'.pos + 1 - c = q
    <3>1. \A p \in Nat : b <= p /\ q = p - b => c # 0 /\ c <= p + 1 /\ p + 1 - c = q
      OBVIOUS
    <3> QED BY <1>0, <1>2, <1>3, <1>4, <1>7, <3>1
  <2>2. Position(k2, c)'
    BY <1>5, <1>7, <2>1 DEF Position
  <2> QED BY <1>2, <1>3, <1>4, <1>7, <2>2 DEF InFile
<1> QED BY <1>6, <1>7

\* ... the last of the window.
LEMMA StreamedLast ==
  ASSUME TypeOK, NEW b \in Nat, NEW c \in Nat, c = b + 1, NEW k2 \in {"ssdat", "sseof"}, rcv' = rcv,
         Len(rcv.data) = snd.pos - b, k2 = "ssdat" => snd'.pos = snd.pos + 1,
         snd'.seq = After(snd.seq), (rcv.seq + b) % Mod = After(snd.seq)
  PROVE  Current(k2)' = Streamed(k2, c, c)'
<1>0. snd.pos \in Nat /\ c - 1 = b
  BY SndTypes
<1>1. (rcv'.seq + (c - 1)) % Mod = snd'.seq
  BY <1>0, Zenon
<1>2. CASE k2 = "sseof"
  <2>1. Current(k2)' = Packet("Z", snd'.seq, 0)
    BY <1>2 DEF Current, Packet
  <2>2. Streamed(k2, c, c)' = Packet("Z", (rcv'.seq + (c - 1)) % Mod, 0)
    BY <1>2, Zenon DEF Streamed, Packet
  <2> QED BY <1>1, <2>1, <2>2, Zenon
<1>3. CASE k2 = "ssdat"
  <2>1. Current(k2)' = Packet("D", snd'.seq, Files[snd'.file][snd'.pos])
    BY <1>3 DEF Current, Packet
  <2>2. Streamed(k2, c, c)'
          = Packet("D", (rcv'.seq + (c - 1)) % Mod, Files[snd'.file][Len(rcv'.data) + c])
    <3>1. k2 # "sseof"
      BY <1>3
    <3> QED BY <3>1, Zenon DEF Streamed, Packet
  <2>3. Len(rcv'.data) + c = snd'.pos
    <3>1. \A p \in Nat : (p - b) + c = p + 1
      OBVIOUS
    <3> QED BY <1>0, <1>3, <3>1
  <2> QED BY <1>1, <2>1, <2>2, <2>3, Zenon
<1> QED BY <1>2, <1>3

LEMMA StreamedBefore ==
  ASSUME NEW b \in Nat, NEW c \in Nat, c = b + 1, NEW k2 \in {"ssdat", "sseof"}, rcv' = rcv,
         snd'.file = snd.file, NEW j \in Nat, j <= b
  PROVE  Streamed("ssdat", b, j) = Streamed(k2, c, j)'
<1>1. j # c
  OBVIOUS
<1>2. Streamed(k2, c, j)'
        = Packet("D", (rcv'.seq + (j - 1)) % Mod, Files[snd'.file][Len(rcv'.data) + j])
  BY <1>1, Zenon DEF Streamed, Packet
<1>3. Streamed("ssdat", b, j)
        = Packet("D", (rcv.seq + (j - 1)) % Mod, Files[snd.file][Len(rcv.data) + j])
  <2>1. "ssdat" # "sseof"
    OBVIOUS
  <2> QED BY <2>1, Zenon DEF Streamed
<1> QED BY <1>2, <1>3, Zenon

LEMMA WindowGrows ==
  ASSUME TypeOK, NEW b \in Nat, NEW c \in Nat, c = b + 1, NEW k2 \in {"ssdat", "sseof"}, rcv' = rcv,
         snd'.file = snd.file, Window("ssdat", b), Active(snd), ~Ended(rcv), faults' \in Nat,
         faults <= faults', NEW m \in Packets, m = Streamed(k2, c, c)'
  PROVE  toRcv' = Append(toRcv, m) => Window(k2, c)'
<1>0. toRcv \in Seq(Packets) /\ Len(toRcv) \in Nat /\ faults \in Nat
  BY OptTypes
<1>1. Len(toRcv) <= b /\ b <= Len(toRcv) + faults
  BY DEF Window
<1>2. HAVE toRcv' = Append(toRcv, m)
<1>3. /\ Len(toRcv') = Len(toRcv) + 1 /\ toRcv'[Len(toRcv) + 1] = m
      /\ \A i \in 1..Len(toRcv) : toRcv'[i] = toRcv[i]
  BY <1>0, <1>2, AppendFacts
<1>a. \A n, e, f \in Nat : n <= b /\ b <= n + e /\ e <= f =>
        c \in (n + 1)..(n + 1) + f /\ c <= c /\ n + 1 <= c /\ c <= (n + 1) + f
  OBVIOUS
<1>b. c \in (Len(toRcv) + 1)..(Len(toRcv) + 1) + faults' /\ c <= c
      /\ Len(toRcv) + 1 <= c /\ c <= (Len(toRcv) + 1) + faults'
  BY <1>0, <1>1, <1>a, Zenon
<1>d. \A j \in Nat : j <= b => Streamed("ssdat", b, j) = Streamed(k2, c, j)'
  BY StreamedBefore
<1>4. ASSUME NEW i \in 1..Len(toRcv')
      PROVE  \/ toRcv'[i].type \in {"Q", "E"}
             \/ \E j \in i..i + faults' : j <= c /\ toRcv'[i] = Streamed(k2, c, j)'
  <2>1. CASE i = Len(toRcv) + 1
    BY <1>3, <1>b, <2>1, Zenon
  <2>2. CASE i \in 1..Len(toRcv)
    <3>1. CASE toRcv[i].type \in {"Q", "E"}
      BY <1>3, <2>2, <3>1
    <3>2. CASE toRcv[i].type \notin {"Q", "E"}
      <4>1. PICK j \in i..i + faults : j <= b /\ toRcv[i] = Streamed("ssdat", b, j)
        BY <2>2, <3>2, Zenon DEF Window
      <4>2. j \in Nat /\ j <= c /\ j \in i..i + faults'
        <5>1. \A y, e, f \in Nat : \A x \in y..y + e :
                x <= b /\ e <= f => x \in Nat /\ x <= c /\ x \in y..y + f
          OBVIOUS
        <5>2. i \in Nat
          BY <1>0, <2>2
        <5> QED BY <1>0, <4>1, <5>1, <5>2, Zenon
      <4>3. toRcv[i] = Streamed(k2, c, j)'
        BY <1>d, <4>1, <4>2, Zenon
      <4> QED BY <1>3, <2>2, <4>2, <4>3
    <3> QED BY <3>1, <3>2
  <2> QED BY <1>0, <1>3, <2>1, <2>2
<1>5. Len(toRcv') <= c /\ c <= Len(toRcv') + faults'
  BY <1>3, <1>b, Zenon
<1> QED BY <1>4, <1>5, Zenon DEF Window

LEMMA SndGoesOnStreaming ==
  ASSUME TypeOK, NEW k \in Sendings, NEW b \in Nat, Link(k, b), NEW k2 \in Sendings,
         StreamingData, rcv' = rcv, opt' = opt, faults' \in Nat, faults <= faults'
  PROVE  SndGoesOn(k, k2) => \E c \in Nat : Link(k2, c)'
<1>0. /\ toRcv \in Seq(Packets) /\ toSnd \in Seq(Packets) /\ snd.seq \in 0..Mod-1
      /\ rcv.seq \in 0..Mod-1 /\ Sender(k) /\ Receiver(k, b) /\ Acks(k, b)
  BY SndTypes, RcvTypes DEF TypeOK, Link
<1>1. HAVE SndGoesOn(k, k2)
<1>2. /\ Active(snd) /\ GoesOn(k, k2) /\ toRcv' = Put(toRcv, snd'.pkt, rcv)
      /\ toSnd' \in Seq(Packets) /\ Thins(toSnd', toSnd)
  BY <1>1 DEF SndGoesOn
<1>3. k = "ssdat" /\ snd.streaming /\ opt.stream
  <2>1. snd.streaming /\ snd.pkt.type = "D"
    BY DEF StreamingData
  <2>2. k = "ssdat"
    BY <1>0, <1>2, <2>1, SndPkt
  <2> QED BY <1>0, <2>1, <2>2 DEF Sender
<1>4. GoesOn("ssdat", k2) /\ k2 \in {"ssdat", "sseof"} /\ Position("ssdat", b)
  <2>1. Follows("ssdat", k2)
    BY <1>2, <1>3 DEF GoesOn
  <2> QED BY <1>0, <1>2, <1>3, <2>1 DEF Follows, Receiver
<1>5. PICK c \in Nat : c = b + 1
  <2>1. b + 1 \in Nat
    OBVIOUS
  <2> QED BY <2>1
<1>6. Sender(k2)'
  BY <1>0, <1>2, NextSender
<1>7. /\ snd'.pkt \in Packets /\ snd'.pkt = Current(k2)'
      /\ snd'.seq = After(snd.seq) /\ Active(snd') /\ ~Ended(snd')
  BY <1>2, <1>6, NextPacket
<1>8. /\ Position(k2, c)' /\ Len(rcv.data) = snd.pos - b /\ b <= snd.pos
      /\ snd'.file = snd.file /\ snd'.streaming = snd.streaming
      /\ k2 = "ssdat" => snd'.pos = snd.pos + 1
  BY <1>4, <1>5, StreamingPosition
<1>9. Streams(k2)' /\ Streams(k)
  BY <1>3, <1>4, <1>8 DEF Streams
<1>10. (rcv.seq + b) % Mod = After(snd.seq) /\ (rcv.seq + c) % Mod = After(snd'.seq)
  <2>1. (rcv.seq + b) % Mod = After(snd.seq)
    BY <1>0 DEF Receiver
  <2>2. (rcv.seq + (b + 1)) % Mod = After((rcv.seq + b) % Mod)
    BY <1>0, PlusAfter
  <2> QED BY <1>5, <1>7, <2>1, <2>2, Zenon
<1>11. Receiver(k2, c)'
  <2>1. Ended(rcv) => toRcv' = <<>>
    BY <1>2 DEF Put
  <2> QED BY <1>0, <1>8, <1>9, <1>10, <2>1, NextReceiver
<1>12. Acks(k2, c)'
  <2>1. ASSUME NEW i \in 1..Len(toSnd'), toSnd'[i].type = "Y"
        PROVE  FALSE
    <3>1. PICK f \in [1..Len(toSnd') -> 1..Len(toSnd)] :
            \A x \in 1..Len(toSnd') :
              \/ toSnd'[x] = toSnd[f[x]]
              \/ toSnd'[x].type = "Q" /\ toSnd'[x].n = toSnd[f[x]].n
      BY <1>2 DEF Thins
    <3>2. f[i] \in 1..Len(toSnd) /\ toSnd[f[i]].type = "Y"
      BY <2>1, <3>1
    <3> QED BY <1>0, <1>3, <3>2 DEF Acks
  <2> QED BY <1>7, <2>1, Zenon DEF Acks, After, Ended
<1>13. Window(k2, c)'
  <2>1. CASE Ended(rcv)
    <3>1. toRcv' = <<>> /\ Ended(rcv')
      BY <1>2, <2>1 DEF Put
    <3> QED BY <3>1, WindowEmpty
  <2>2. CASE ~Ended(rcv)
    <3>1. PICK m \in Packets : m = Current(k2)' /\ toRcv' = Append(toRcv, m)
      BY <1>2, <1>7, <2>2 DEF Put
    <3>2. m = Streamed(k2, c, c)'
      <4>1. Current(k2)' = Streamed(k2, c, c)'
        BY <1>4, <1>5, <1>7, <1>8, <1>10, StreamedLast
      <4> QED BY <3>1, <4>1, Zenon
    <3>3. Window("ssdat", b)
      BY <1>3, <1>9 DEF Link
    <3> QED BY <1>2, <1>4, <1>5, <1>8, <2>2, <3>1, <3>2, <3>3, WindowGrows
  <2> QED BY <2>1, <2>2
<1> QED BY <1>6, <1>9, <1>11, <1>12, <1>13, Zenon DEF Link

-----------------------------------------------------------------------------
(* Types are kept.                                                         *)

LEMMA PutType ==
  ASSUME NEW line \in Seq(Packets), NEW m \in Packets, NEW peer
  PROVE  Put(line, m, peer) \in Seq(Packets)
BY DEF Put

LEMMA ThinsNothing ==
  ASSUME NEW new \in Seq(Packets), Thins(new, <<>>)
  PROVE  new = <<>>
<1>1. PICK f \in [1..Len(new) -> 1..Len(<<>>)] : TRUE
  BY DEF Thins
<1>2. 1..Len(<<>>) = {} /\ Len(new) \in Nat
  OBVIOUS
<1>3. \A i \in 1..Len(new) : FALSE
  BY <1>1, <1>2
<1>4. Len(new) = 0
  BY <1>2, <1>3
<1> QED BY <1>4

\* The sender is somewhere in its batch.
Sending == \E k \in Sendings : Sender(k)

LEMMA SndTypeStep ==
  ASSUME TypeOK, Sending
  PROVE  SndStep \/ SndTimeout => TypeOK' /\ Sending'
<1>0. PICK k \in Sendings : Sender(k)
  BY DEF Sending
<1>1. /\ toRcv \in Seq(Packets) /\ toSnd \in Seq(Packets) /\ snd.seq \in 0..Mod-1
      /\ rcv \in RcvType /\ opt \in Options /\ faults \in 0..MaxFaults /\ MaxFaults \in Nat
  BY SndTypes, KermitAssumption DEF TypeOK, RcvType
<1>2. HAVE SndStep \/ SndTimeout
<1>3. SndDoes(k) /\ rcv' = rcv /\ opt' = opt /\ faults' \in faults..MaxFaults
  BY <1>0, <1>2, SndCases
<1>4. ASSUME snd' \in SndType, toRcv' \in Seq(Packets), toSnd' \in Seq(Packets) PROVE TypeOK'
  <2>1. faults' \in 0..MaxFaults
    BY <1>1, <1>3
  <2> QED BY <1>1, <1>3, <1>4, <2>1 DEF TypeOK, SndType, RcvType
<1>5. <<>> \in Seq(Packets) /\ "E" \in Types /\ "S" \in Types /\ 0 \in 0..Mod-1
  BY KermitAssumption DEF Types
<1>6. CASE SndStarts
  <2>1. /\ snd.st = "s" /\ SndSame /\ snd' \in SndType /\ snd'.st = "ssini" /\ toSnd' = toSnd
        /\ snd'.pkt = Packet("S", 0, 0) /\ toRcv' = Put(toRcv, Packet("S", 0, 0), rcv)
    BY <1>6 DEF SndStarts, SndKept, SndSame
  <2>2. toRcv' \in Seq(Packets)
    BY <1>1, <1>5, <2>1, PutType, PacketType
  <2>3. k = "ssini" /\ snd.seq = 0
    BY <1>0, <2>1 DEF Sender
  <2>4. Sender(k)'
    BY <1>0, <1>3, <2>1, <2>3, SenderKept DEF Current
  <2> QED BY <1>1, <1>4, <2>1, <2>2, <2>4 DEF Sending
<1>7. CASE SndAgain
  <2>1. /\ Active(snd) /\ SndSame /\ snd' \in SndType /\ snd'.st = snd.st /\ snd'.pkt = snd.pkt
        /\ toSnd' \in Seq(Packets) /\ toRcv' = Put(toRcv, snd.pkt, rcv)
    BY <1>7 DEF SndAgain, SndKept, SndSame
  <2>2. toRcv' \in Seq(Packets)
    BY <1>0, <1>1, <2>1, PutType, SndPkt
  <2>3. snd.st = k /\ snd.pkt = Current(k) /\ snd'.st # "s"
    BY <1>0, <2>1 DEF Sender, Active
  <2>4. Sender(k)'
    BY <1>0, <1>3, <2>1, <2>3, SenderKept
  <2> QED BY <1>4, <2>1, <2>2, <2>4 DEF Sending
<1>8. CASE SndFails \/ SndEnds(k)
  <2>1. /\ SndSame /\ snd' \in SndType /\ ~Active(snd') /\ snd'.st # "s" /\ toSnd' = <<>>
        /\ toRcv' = toRcv \/ toRcv' = Put(toRcv, Packet("E", snd.seq, 0), rcv)
    BY <1>8 DEF SndFails, SndEnds, SndKept, SndSame, Active
  <2>2. toRcv' \in Seq(Packets)
    BY <1>1, <1>5, <2>1, PutType, PacketType
  <2>4. Sender(k)'
    BY <1>0, <1>3, <2>1, SenderKept
  <2> QED BY <1>4, <1>5, <2>1, <2>2, <2>4 DEF Sending
<1>9. CASE \E k2 \in Sendings : SndGoesOn(k, k2)
  <2>1. PICK k2 \in Sendings : SndGoesOn(k, k2)
    BY <1>9
  <2>2. GoesOn(k, k2) /\ toSnd' \in Seq(Packets) /\ toRcv' = Put(toRcv, snd'.pkt, rcv)
    BY <2>1 DEF SndGoesOn
  <2>3. Sender(k2)'
    BY <1>0, <1>3, <2>2, NextSender
  <2>4. snd'.pkt \in Packets
    BY <2>2, <2>3, NextPacket
  <2>5. toRcv' \in Seq(Packets)
    BY <1>1, <2>2, <2>4, PutType
  <2>6. snd' \in SndType
    BY <2>2 DEF GoesOn
  <2> QED BY <1>4, <2>2, <2>3, <2>5, <2>6 DEF Sending
<1> QED BY <1>3, <1>6, <1>7, <1>8, <1>9, Zenon DEF SndDoes

LEMMA RcvTypeStep ==
  ASSUME TypeOK, Sending
  PROVE  RcvStep \/ RcvTimeout => TypeOK' /\ Sending'
<1>0. PICK k \in Sendings : Sender(k)
  BY DEF Sending
<1>1. /\ toRcv \in Seq(Packets) /\ toSnd \in Seq(Packets) /\ rcv.seq \in 0..Mod-1
      /\ rcv.pkt \in Packets \cup {None}
      /\ snd \in SndType /\ opt \in Options /\ faults \in 0..MaxFaults /\ MaxFaults \in Nat
  BY RcvTypes, KermitAssumption DEF TypeOK, SndType
<1>2. HAVE RcvStep \/ RcvTimeout
<1>3. RcvDoes /\ snd' = snd /\ opt' = opt /\ faults' \in faults..MaxFaults
  BY <1>2, RcvCases
<1>5. <<>> \in Seq(Packets) /\ {"E", "N", "Y"} \subseteq Types
  BY DEF Types
<1>p. \A t \in {"E", "N", "Y"} : Packet(t, rcv.seq, 0) \in Packets
  BY <1>1, <1>5, PacketType
<1>4. ASSUME rcv' \in RcvType, toRcv' \in Seq(Packets), toSnd' \in Seq(Packets),
             toRcv = <<>> => toRcv' = <<>>
      PROVE  TypeOK' /\ Sending'
  <2>1. faults' \in 0..MaxFaults
    BY <1>1, <1>3
  <2>2. TypeOK'
    BY <1>1, <1>3, <1>4, <2>1 DEF TypeOK, SndType, RcvType
  <2>3. snd.st = "s" => toRcv' = <<>>
    BY <1>0, <1>4 DEF Sender
  <2>4. Sender(k)'
    BY <1>0, <1>3, <2>3, SenderIdle
  <2> QED BY <2>2, <2>4 DEF Sending
<1>6. CASE RcvStarts
  BY <1>1, <1>4, <1>6 DEF RcvStarts, RcvKept
<1>7. CASE RcvAgain
  <2>1. /\ rcv' \in RcvType /\ toSnd' = Put(toSnd, rcv'.pkt, snd)
        /\ rcv'.pkt = IF rcv.pkt = None THEN Packet("N", rcv.seq, 0) ELSE rcv.pkt
        /\ toRcv' \in Seq(Packets) /\ Thins(toRcv', toRcv)
    BY <1>7 DEF RcvAgain, RcvKept
  <2>2. rcv'.pkt \in Packets
    BY <1>1, <1>p, <2>1
  <2>3. toSnd' \in Seq(Packets)
    BY <1>1, <2>1, <2>2, PutType
  <2>4. toRcv = <<>> => toRcv' = <<>>
    BY <2>1, ThinsNothing
  <2> QED BY <1>4, <2>1, <2>3, <2>4
<1>8. CASE RcvFails
  <2>1. /\ rcv' \in RcvType /\ toRcv' = <<>>
        /\ toSnd' = toSnd \/ toSnd' = Put(toSnd, Packet("E", rcv.seq, 0), snd)
    BY <1>8 DEF RcvFails, RcvKept
  <2>2. toSnd' \in Seq(Packets)
    BY <1>1, <1>p, <2>1, PutType
  <2> QED BY <1>4, <1>5, <2>1, <2>2
<1>9. CASE \E m \in Packets : RcvTakes(m)
  <2>1. /\ rcv' \in RcvType /\ toRcv # <<>> /\ toRcv' \in Seq(Packets)
        /\ toSnd' = toSnd \/ toSnd' = Put(toSnd, Packet("Y", rcv.seq, 0), snd)
    BY <1>9, Zenon DEF RcvTakes
  <2>2. toSnd' \in Seq(Packets)
    BY <1>1, <1>p, <2>1, PutType
  <2> QED BY <1>4, <2>1, <2>2
<1> QED BY <1>3, <1>6, <1>7, <1>8, <1>9, Zenon DEF RcvDoes

LEMMA FaultTypeStep ==
  ASSUME TypeOK, Sending
  PROVE  Fault => TypeOK' /\ Sending'
<1>0. PICK k \in Sendings : Sender(k)
  BY DEF Sending
<1>1. /\ toRcv \in Seq(Packets) /\ toSnd \in Seq(Packets)
      /\ faults \in 0..MaxFaults /\ MaxFaults \in Nat
  BY KermitAssumption DEF TypeOK
<1>2. HAVE Fault
<1>3. /\ faults < MaxFaults /\ faults' = faults + 1 /\ UNCHANGED <<snd, rcv, opt>>
      /\ toRcv' = toRcv \/ toRcv' \in Spoil(toRcv)
      /\ toSnd' = toSnd \/ toSnd' \in Spoil(toSnd)
  BY <1>2 DEF Fault
<1>4. toRcv' \in Seq(Packets) /\ Thins(toRcv', toRcv)
  BY <1>1, <1>3, ThinsSpoil, ThinsSame
<1>5. toSnd' \in Seq(Packets)
  BY <1>1, <1>3, ThinsSpoil
<1>6. faults' \in 0..MaxFaults
  BY <1>1, <1>3
<1>7. TypeOK'
  BY <1>3, <1>4, <1>5, <1>6 DEF TypeOK
<1>8. snd.st = "s" => toRcv' = <<>>
  BY <1>0, <1>4, ThinsNothing DEF Sender
<1>9. Sender(k)'
  BY <1>0, <1>3, <1>8, SenderIdle
<1> QED BY <1>7, <1>9 DEF Sending

LEMMA TypesKept ==
  ASSUME TypeOK, Sending
  PROVE  [Next]_vars => TypeOK' /\ Sending'
<1>1. HAVE [Next]_vars
<1>2. CASE Next
  BY <1>2, SndTypeStep, RcvTypeStep, FaultTypeStep DEF Next
<1>3. CASE UNCHANGED vars
  <2>1. UNCHANGED <<snd, rcv, toRcv, toSnd, opt, faults>>
    BY <1>3 DEF vars
  <2>2. TypeOK'
    BY <2>1 DEF TypeOK
  <2>3. PICK k \in Sendings : Sender(k)
    BY DEF Sending
  <2>4. snd.st = "s" => toRcv' = <<>>
    BY <2>1, <2>3 DEF Sender
  <2>5. Sender(k)'
    BY <2>1, <2>3, <2>4, SenderIdle
  <2> QED BY <2>2, <2>5 DEF Sending
<1> QED BY <1>1, <1>2, <1>3

-----------------------------------------------------------------------------
(* The link at the start, and in every step.                               *)

LEMMA InitLinked ==
  ASSUME Init
  PROVE  TypeOK /\ Link("ssini", 1)
<1>0. Mod \in Nat \ {0, 1} /\ 0 \in 0..Mod-1 /\ 0 \in 0..MaxTry /\ 0 \in 0..MaxFaults
      /\ 0 \in 0..Len(Files)
  BY KermitAssumption
<1>1. /\ snd = [st |-> "s", seq |-> 0, retries |-> 0, streaming |-> FALSE, pkt |-> None,
                file |-> 0, pos |-> 0]
      /\ rcv = [st |-> "v", seq |-> 0, retries |-> 0, streaming |-> FALSE, pkt |-> None,
                data |-> <<>>, got |-> <<>>]
      /\ toRcv = <<>> /\ toSnd = <<>> /\ faults = 0 /\ opt \in Options
  BY DEF Init
<1>2. TypeOK
  BY <1>0, <1>1 DEF TypeOK, SndStates, RcvStates
<1>3. /\ snd.st = "s" /\ snd.seq = 0 /\ ~snd.streaming /\ snd.file = 0
      /\ rcv.st = "v" /\ rcv.seq = 0 /\ ~rcv.streaming /\ rcv.pkt = None /\ rcv.got = <<>>
      /\ ~Active(snd) /\ ~Ended(snd) /\ ~Ended(rcv) /\ Len(rcv.got) = 0
      /\ 1..Len(toRcv) = {} /\ 1..Len(toSnd) = {}
  BY <1>1 DEF Active, Ended
<1>4. Sender("ssini")
  BY <1>1, <1>3 DEF Sender
<1>5. Receiver("ssini", 1)
  <2>1. (rcv.seq + 1) % Mod = After(snd.seq)
    BY <1>3 DEF After
  <2>2. Has(0)
    BY <1>3 DEF Has
  <2>3. Position("ssini", 1)
    BY <1>3, <2>2 DEF Position
  <2> QED BY <1>3, <2>1, <2>3 DEF Receiver
<1>6. Acks("ssini", 1)
  BY <1>3 DEF Acks
<1>7. ~Streams("ssini") /\ StopAndWait("ssini", 1)
  BY <1>3 DEF Streams, StopAndWait
<1> QED BY <1>2, <1>4, <1>5, <1>6, <1>7 DEF Link

\* Fewer packets are lost than there are packet numbers, or nothing streams.
Few == MaxFaults < Mod \/ ~opt.stream

LEMMA SndLinked ==
  ASSUME TypeOK, Linked
  PROVE  SndStep \/ SndTimeout => Linked'
<1>0. PICK k \in Sendings, b \in Nat : Link(k, b)
  BY DEF Linked
<1>1. Sender(k) /\ faults \in 0..MaxFaults /\ MaxFaults \in Nat
  BY <1>0, KermitAssumption DEF Link, TypeOK
<1>2. HAVE SndStep \/ SndTimeout
<1>3. SndDoes(k) /\ rcv' = rcv /\ opt' = opt /\ faults' \in faults..MaxFaults
  BY <1>1, <1>2, SndCases
<1>4. faults' \in Nat /\ faults <= faults'
  BY <1>1, <1>3
<1>5. CASE SndStarts
  <2>1. Link(k, b)'
    BY <1>0, <1>3, <1>5, SndStartsLink
  <2> QED BY <2>1 DEF Linked
<1>6. CASE SndAgain
  <2>1. Link(k, b)'
    BY <1>0, <1>3, <1>6, SndAgainLink
  <2> QED BY <2>1 DEF Linked
<1>7. CASE SndFails \/ SndEnds(k)
  <2>1. Link(k, b)'
    BY <1>0, <1>3, <1>4, <1>7, SndEndsLink
  <2> QED BY <2>1 DEF Linked
<1>8. CASE \E k2 \in Sendings : SndGoesOn(k, k2)
  <2>1. PICK k2 \in Sendings : SndGoesOn(k, k2)
    BY <1>8
  <2>2. \E c \in Nat : Link(k2, c)'
    <3>1. CASE StreamingData
      BY <1>0, <1>3, <1>4, <2>1, <3>1, SndGoesOnStreaming
    <3>2. CASE ~StreamingData
      <4>1. Link(k2, 1)'
        BY <1>0, <1>3, <1>4, <2>1, <3>2, SndGoesOnAnswered
      <4>2. 1 \in Nat
        OBVIOUS
      <4> QED BY <4>1, <4>2
    <3> QED BY <3>1, <3>2
  <2> QED BY <2>2 DEF Linked
<1> QED BY <1>3, <1>5, <1>6, <1>7, <1>8, Zenon DEF SndDoes

LEMMA RcvLinked ==
  ASSUME TypeOK, Linked, Few
  PROVE  RcvStep \/ RcvTimeout => Linked'
<1>0. PICK k \in Sendings, b \in Nat : Link(k, b)
  BY DEF Linked
<1>1. Sender(k) /\ faults \in 0..MaxFaults /\ MaxFaults \in Nat /\ opt \in Options
  BY <1>0, KermitAssumption DEF Link, TypeOK
<1>2. HAVE RcvStep \/ RcvTimeout
<1>3. RcvDoes /\ snd' = snd /\ opt' = opt /\ faults' \in faults..MaxFaults
  BY <1>2, RcvCases
<1>4. faults' \in Nat /\ faults <= faults'
  BY <1>1, <1>3
<1>5. CASE RcvStarts
  <2>1. Link(k, b)'
    BY <1>0, <1>3, <1>4, <1>5, RcvStartsLink
  <2> QED BY <2>1 DEF Linked
<1>6. CASE RcvAgain
  <2>1. Link(k, b)'
    BY <1>0, <1>3, <1>6, RcvAgainLink
  <2> QED BY <2>1 DEF Linked
<1>7. CASE RcvFails
  <2>1. Link(k, b)'
    BY <1>0, <1>3, <1>4, <1>7, RcvFailsLink
  <2> QED BY <2>1 DEF Linked
<1>8. CASE \E m \in Packets : RcvTakes(m)
  <2>1. PICK m \in Packets : RcvTakes(m)
    BY <1>8
  <2>2. \E c \in Nat : Link(k, c)'
    <3>1. CASE Streams(k)
      <4>1. opt.stream
        BY <1>1, <3>1 DEF Streams, Sender
      <4>2. MaxFaults < Mod
        BY <4>1 DEF Few
      <4> QED BY <1>0, <1>3, <1>4, <2>1, <3>1, <4>2, RcvTakesStreamed
    <3>2. CASE ~Streams(k)
      <4>1. Link(k, 0)'
        BY <1>0, <1>3, <2>1, <3>2, RcvTakesLink
      <4>2. 0 \in Nat
        OBVIOUS
      <4> QED BY <4>1, <4>2
    <3> QED BY <3>1, <3>2
  <2> QED BY <2>2 DEF Linked
<1> QED BY <1>3, <1>5, <1>6, <1>7, <1>8, Zenon DEF RcvDoes

LEMMA FaultLinked ==
  ASSUME TypeOK, Linked
  PROVE  Fault => Linked'
<1>0. PICK k \in Sendings, b \in Nat : Link(k, b)
  BY DEF Linked
<1>1. HAVE Fault
<1>2. Link(k, b)'
  BY <1>0, <1>1, FaultLink
<1> QED BY <1>2 DEF Linked

LEMMA IdleLinked ==
  ASSUME Linked
  PROVE  UNCHANGED vars => Linked'
<1>0. PICK k \in Sendings, b \in Nat : Link(k, b)
  BY DEF Linked
<1>1. HAVE UNCHANGED vars
<1>2. UNCHANGED <<snd, rcv, toRcv, toSnd, opt, faults>>
  BY <1>1 DEF vars
<1>3. Sender(k)'
  BY <1>0, <1>2, SenderIdle DEF Link, Sender
<1>4. Position(k, b)'
  BY <1>0, <1>2 DEF Link, Receiver, Position, Between, InFile, Has
<1>5. Receiver(k, b)'
  <2>1. Receiver(k, b) /\ Streams(k)' = Streams(k)
    BY <1>0, <1>2 DEF Link, Streams
  <2>2. /\ (rcv.seq + b) % Mod = After(snd'.seq)
        /\ b <= 1 \/ Streams(k)'
        /\ Ended(rcv) => toRcv' = <<>>
    BY <1>2, <2>1 DEF Receiver
  <2> QED BY <1>2, <1>4, <2>1, <2>2, NextReceiver
<1>6. Acks(k, b)'
  BY <1>0, <1>2, Zenon DEF Link, Acks, After, Ended
<1>7. Streams(k)' <=> Streams(k)
  BY <1>2 DEF Streams
<1>8. \A j : Streamed(k, b, j)' = Streamed(k, b, j)
  BY <1>2, Zenon DEF Streamed
<1>9. Streams(k) => Window(k, b)'
  BY <1>0, <1>2, <1>8, Zenon DEF Link, Window, Active, Ended
<1>10. Current(k)' = Current(k)
  BY <1>2 DEF Current
<1>11. ~Streams(k) => StopAndWait(k, b)'
  BY <1>0, <1>2, <1>10, Zenon DEF Link, StopAndWait, After, Active
<1>12. Link(k, b)'
  BY <1>3, <1>5, <1>6, <1>7, <1>9, <1>11, Zenon DEF Link
<1> QED BY <1>12 DEF Linked

LEMMA LinkedKept ==
  ASSUME TypeOK, Linked, Few
  PROVE  [Next]_vars => Linked'
BY SndLinked, RcvLinked, FaultLinked, IdleLinked DEF Next

-----------------------------------------------------------------------------
(* What the link says of the files.                                        *)

\* The files on the receiver's disk are the first ones of the batch.
Prefix ==
  /\ Len(rcv.got) <= Len(Files) /\ \A i \in 1..Len(rcv.got) : rcv.got[i] = Files[i]
  /\ rcv.st = "done" => Len(rcv.got) = Len(Files)

LEMMA LinkedPrefix ==
  ASSUME TypeOK, Linked
  PROVE  Prefix
<1>0. PICK k \in Sendings, b \in Nat : Link(k, b)
  BY DEF Linked
<1>1. Sender(k) /\ Position(k, b) /\ Len(Files) \in Nat /\ snd.file \in 0..Len(Files)
  BY <1>0, KermitAssumption, SndTypes DEF Link, Receiver
<1>2. k \in {"ssfil", "ssatt", "ssdat", "sseof"} => snd.file \in 1..Len(Files)
  BY <1>1 DEF Sender
<1>3. \/ \E f \in 0..Len(Files) : Has(f) /\ rcv.st # "done"
      \/ Has(Len(Files))
  <2>1. CASE k = "ssini"
    <3>1. 0 \in 0..Len(Files)
      BY <1>1
    <3>2. Has(0) /\ rcv.st # "done"
      BY <1>1, <2>1 DEF Position, Between
    <3> QED BY <3>1, <3>2
  <2>2. CASE k = "sseot"
    <3>1. Has(Len(Files))
      BY <1>1, <2>2 DEF Position, Between
    <3> QED BY <3>1
  <2>3. CASE k \in {"ssfil", "ssatt", "ssdat", "sseof"}
    <3>1. snd.file \in 0..Len(Files) /\ snd.file - 1 \in 0..Len(Files)
      BY <1>1, <1>2, <2>3
    <3>2. (Has(snd.file) \/ Has(snd.file - 1)) /\ rcv.st # "done"
      BY <1>1, <2>3 DEF Position, Between, InFile
    <3> QED BY <3>1, <3>2
  <2> QED BY <2>1, <2>2, <2>3 DEF Sendings
<1>4. CASE \E f \in 0..Len(Files) : Has(f) /\ rcv.st # "done"
  BY <1>1, <1>4 DEF Has, Prefix
<1>5. CASE Has(Len(Files))
  BY <1>1, <1>5 DEF Has, Prefix
<1> QED BY <1>3, <1>4, <1>5

-----------------------------------------------------------------------------
(* The theorems.                                                           *)

(* The states, packet numbers, counts of retries and packets of gproto.w's   *)
(* two programs and of the line stay of their types: sdata, sfile and resend *)
(* never leave the batch, and no count of retries passes MAXTRY.             *)
THEOREM TypeCorrect == Spec => []TypeOK
<1>1. Init => TypeOK /\ Sending
  BY InitLinked DEF Link, Sending, Sendings
<1>2. TypeOK /\ Sending /\ [Next]_vars => (TypeOK /\ Sending)'
  BY TypesKept
<1> QED BY <1>1, <1>2, PTL DEF Spec

Inv == TypeOK /\ Sending /\ (Few => Linked)

LEMMA OptKept == [Next]_vars => opt' = opt
BY DEF Next, SndStep, RcvStep, StartSending, SndInput, SndStream, SndTimeout, StartReceiving,
       RcvInput, RcvTimeout, Fault, Sends, Receives, vars

(* Whatever the line does, the sender's place in the batch, the receiver's   *)
(* and what is on the line between them fit together.                        *)
THEOREM Invariance == Spec => []Inv
<1>1. Init => Inv
  <2>1. "ssini" \in Sendings /\ 1 \in Nat
    BY DEF Sendings
  <2> QED BY <2>1, InitLinked DEF Inv, Linked, Link, Sending
<1>2. Inv /\ [Next]_vars => Inv'
  <2>1. SUFFICES ASSUME Inv, [Next]_vars PROVE Inv'
    OBVIOUS
  <2>2. TypeOK' /\ Sending'
    BY <2>1, TypesKept DEF Inv
  <2>3. Few' <=> Few
    BY <2>1, OptKept DEF Few
  <2>4. Few => Linked'
    BY <2>1, LinkedKept DEF Inv
  <2> QED BY <2>2, <2>3, <2>4 DEF Inv
<1> QED BY <1>1, <1>2, PTL DEF Spec

LEMMA SndRefines ==
  ASSUME TypeOK, Linked
  PROVE  SndStep \/ SndTimeout =>
           Transfer!SenderDone \/ Transfer!SenderFails \/ UNCHANGED Transfer!vars
<1>0. PICK k \in Sendings, b \in Nat : Link(k, b)
  BY DEF Linked
<1>1. Sender(k) /\ Receiver(k, b) /\ Acks(k, b)
  BY <1>0 DEF Link
<1>2. HAVE SndStep \/ SndTimeout
<1>3. SndDoes(k) /\ rcv' = rcv
  BY <1>1, <1>2, SndCases
<1>4. CASE SndStarts \/ SndAgain
  <2>1. ~Ended(snd) /\ ~Ended(snd')
    BY <1>4 DEF SndStarts, SndAgain, Active, Ended
  <2> QED BY <1>3, <2>1 DEF Transfer!vars, Outcome, Ended
<1>5. CASE SndFails
  <2>1. ~Ended(snd) /\ snd'.st = "failed"
    BY <1>5 DEF SndFails, Active, Ended
  <2> QED BY <1>3, <2>1 DEF Transfer!SenderFails, Outcome, Ended
<1>6. CASE SndEnds(k)
  <2>1. ~Ended(snd) /\ snd'.st = "done" /\ k = "sseot" /\ Answered
    BY <1>6 DEF SndEnds, Active, Ended
  <2>2. b = 0
    BY <1>1, <2>1, AckFacts
  <2>3. rcv.st = "done"
    BY <1>1, <2>1, <2>2 DEF Receiver, Position
  <2> QED BY <1>3, <2>1, <2>3 DEF Transfer!SenderDone, Outcome, Ended
<1>7. CASE \E k2 \in Sendings : SndGoesOn(k, k2)
  <2>1. ~Ended(snd) /\ snd'.st \in Sendings
    BY <1>7 DEF SndGoesOn, GoesOn, Active, Ended
  <2> QED BY <1>3, <2>1 DEF Transfer!vars, Outcome, Ended, Sendings
<1> QED BY <1>3, <1>4, <1>5, <1>6, <1>7, Zenon DEF SndDoes

LEMMA RcvRefines ==
  ASSUME TypeOK, Linked, Prefix'
  PROVE  RcvStep \/ RcvTimeout =>
           \/ Transfer!Deliver \/ Transfer!ReceiverDone \/ Transfer!ReceiverFails
           \/ UNCHANGED Transfer!vars
<1>0. rcv.got \in Seq(Seq(Nat)) /\ rcv.data \in Seq(Nat) /\ Len(rcv.got) \in Nat /\ Prefix
  BY RcvTypes, LinkedPrefix
<1>1. HAVE RcvStep \/ RcvTimeout
<1>2. RcvDoes /\ snd' = snd
  BY <1>1, RcvCases
<1>3. CASE RcvStarts \/ RcvAgain
  <2>1. ~Ended(rcv) /\ ~Ended(rcv') /\ rcv'.got = rcv.got
    BY <1>3 DEF RcvStarts, RcvAgain, RcvKept, Active, Ended
  <2> QED BY <1>2, <2>1 DEF Transfer!vars, Outcome, Ended
<1>4. CASE RcvFails
  <2>1. ~Ended(rcv) /\ rcv'.st = "failed" /\ rcv'.got = rcv.got
    BY <1>4 DEF RcvFails, RcvKept, Active, Ended
  <2> QED BY <1>2, <2>1 DEF Transfer!ReceiverFails, Outcome, Ended
<1>5. CASE \E m \in Packets : RcvTakes(m)
  <2>1. PICK m \in Packets : RcvTakes(m)
    BY <1>5
  <2>2. ~Ended(rcv) /\ TakesAs(m)
    BY <2>1 DEF RcvTakes, Active, Ended
  <2>3. CASE rcv'.got = rcv.got /\ rcv'.st \in {"srfil", "sratt", "srdat"}
    <3>1. ~Ended(rcv')
      BY <2>3 DEF Ended
    <3> QED BY <1>2, <2>2, <2>3, <3>1 DEF Transfer!vars, Outcome, Ended
  <2>4. CASE rcv'.got = rcv.got /\ rcv'.st = "done"
    <3>1. rcv.got = Files
      <4>1. Len(rcv.got) = Len(Files) /\ \A i \in 1..Len(rcv.got) : rcv.got[i] = Files[i]
        BY <1>0, <2>4 DEF Prefix
      <4> QED BY <1>0, <4>1, KermitAssumption, SeqEqual
    <3> QED BY <1>2, <2>2, <2>4, <3>1 DEF Transfer!ReceiverDone, Outcome, Ended
  <2>5. CASE rcv'.got = Append(rcv.got, rcv.data) /\ rcv'.st = "srfil"
    <3>1. Len(rcv'.got) = Len(rcv.got) + 1 /\ rcv'.got[Len(rcv.got) + 1] = rcv.data
      <4> DEFINE g == rcv.got
      <4>1. Len(Append(g, rcv.data)) = Len(g) + 1 /\ Append(g, rcv.data)[Len(g) + 1] = rcv.data
        BY <1>0
      <4> QED BY <2>5, <4>1
    <3>2. Len(rcv'.got) <= Len(Files) /\ \A i \in 1..Len(rcv'.got) : rcv'.got[i] = Files[i]
      BY DEF Prefix
    <3>3. Len(rcv.got) < Len(Files) /\ rcv.data = Files[Len(rcv.got) + 1]
      <4>1. Len(rcv.got) + 1 \in 1..Len(rcv'.got) /\ Len(Files) \in Nat
        BY <1>0, <3>1, KermitAssumption
      <4> QED BY <1>0, <3>1, <3>2, <4>1
    <3> QED BY <1>2, <2>2, <2>5, <3>3 DEF Transfer!Deliver, Outcome, Ended
  <2> QED BY <2>2, <2>3, <2>4, <2>5 DEF TakesAs
<1> QED BY <1>2, <1>3, <1>4, <1>5, Zenon DEF RcvDoes

(* Whatever the line loses, garbles or delays, and whether or not gproto.w's *)
(* programs stream, the receiver closes exactly the files of the batch, each *)
(* once, whole and in order; it ends well only with all of them, and the     *)
(* sender only when the receiver did: for batches, files, limits on retries  *)
(* and packet numbers of any size.  A transfer that streams needs fewer lost *)
(* packets than there are packet numbers, one that waits for its ACKs no     *)
(* bound at all.                                                             *)
THEOREM ImplementsTransferHolds ==
  ASSUME MaxFaults < Mod \/ \A o \in Options : ~o.stream
  PROVE  Spec => ImplementsTransfer
<1>1. Spec => []Inv
  BY Invariance
<1>0. Inv => TypeOK /\ Linked
  BY DEF Inv, Few, TypeOK
<1>2. Inv => Prefix
  BY <1>0, LinkedPrefix
<1>3. Init => Transfer!Init
  BY DEF Init, Transfer!Init, Outcome, Ended
<1>4. Inv /\ Prefix' /\ [Next]_vars => [Transfer!Next]_Transfer!vars
  <2>1. SUFFICES ASSUME Inv, Prefix', [Next]_vars PROVE [Transfer!Next]_Transfer!vars
    OBVIOUS
  <2>2. CASE SndStep \/ SndTimeout
    BY <1>0, <2>1, <2>2, SndRefines DEF Transfer!Next
  <2>3. CASE RcvStep \/ RcvTimeout
    BY <1>0, <2>1, <2>3, RcvRefines DEF Transfer!Next
  <2>4. CASE Fault
    BY <2>4 DEF Fault, Transfer!vars, Outcome, Ended
  <2>5. CASE UNCHANGED vars
    BY <2>5 DEF vars, Transfer!vars, Outcome, Ended
  <2> QED BY <2>1, <2>2, <2>3, <2>4, <2>5 DEF Next
<1> QED BY <1>1, <1>2, <1>3, <1>4, PTL DEF Spec, ImplementsTransfer, Transfer!Spec

-----------------------------------------------------------------------------
(* Retries.                                                                *)

\* Packet m answers a program that waits for number n; what does not makes it
\* send its own packet again.
Fits(n, m) == m.n = n /\ m.type \notin {"Q", "N"}
BadSet(n, line) == {i \in 1..Len(line) : ~Fits(n, line[i])}
Bads(n, line) == Cardinality(BadSet(n, line))

LEMMA BadSetFinite ==
  ASSUME NEW line \in Seq(Packets), NEW n
  PROVE  /\ IsFiniteSet(BadSet(n, line)) /\ Bads(n, line) \in Nat
         /\ Len(line) \in Nat /\ Bads(n, line) <= Len(line)
<1>1. Len(line) \in Nat
  OBVIOUS
<1> DEFINE S == 1..Len(line)
<1>2. IsFiniteSet(S) /\ Cardinality(S) = Len(line)
  <2> DEFINE l == Len(line)
  <2>1. l \in Int /\ 1 \in Int
    BY <1>1
  <2> HIDE DEF l
  <2>2. IsFiniteSet(1..l) /\ Cardinality(1..l) = IF 1 > l THEN 0 ELSE l - 1 + 1
    BY <2>1, FS_Interval
  <2>3. Cardinality(1..l) = l
    BY <1>1, <2>2 DEF l
  <2> QED BY <2>2, <2>3 DEF l
<1>3. BadSet(n, line) \in SUBSET S
  BY DEF BadSet
<1> HIDE DEF S
<1>4. IsFiniteSet(BadSet(n, line)) /\ Cardinality(BadSet(n, line)) <= Cardinality(S)
  BY <1>2, <1>3, FS_Subset
<1>5. Cardinality(BadSet(n, line)) \in Nat
  BY <1>4, FS_CardinalityType
<1> QED BY <1>1, <1>2, <1>4, <1>5 DEF Bads

\* A set that maps into another one is not larger.
LEMMA BadSetLess ==
  ASSUME NEW S, NEW T, IsFiniteSet(T), NEW f \in [S -> T],
         \A i, j \in S : f[i] = f[j] => i = j
  PROVE  Cardinality(S) <= Cardinality(T)
<1>1. f \in Injection(S, T)
  BY DEF Injection, IsInjective
<1> QED BY <1>1, FS_Injection

LEMMA BadsSome ==
  ASSUME NEW line \in Seq(Packets), NEW n, NEW i \in BadSet(n, line)
  PROVE  Bads(n, line) > 0
<1> DEFINE S == BadSet(n, line)
<1>1. IsFiniteSet(S) /\ S # {}
  BY BadSetFinite
<1>2. Cardinality(S) \in Nat
  BY <1>1, FS_CardinalityType
<1> HIDE DEF S
<1>3. Cardinality(S) # 0
  BY <1>1, FS_EmptySet
<1> QED BY <1>2, <1>3 DEF Bads, S

\* A packet joins the line, ...
LEMMA BadsAppend ==
  ASSUME NEW line \in Seq(Packets), NEW m \in Packets, NEW n
  PROVE  /\ Bads(n, Append(line, m)) <= Bads(n, line) + 1
         /\ Fits(n, m) => Bads(n, Append(line, m)) <= Bads(n, line)
<1> DEFINE new == Append(line, m)
           k == Len(line) + 1
<1>1. /\ new \in Seq(Packets) /\ Len(new) = k /\ k \in Nat /\ Len(line) \in Nat
      /\ new[k] = m /\ \A i \in 1..Len(line) : new[i] = line[i]
  OBVIOUS
<1> HIDE DEF new
<1>2. IsFiniteSet(BadSet(n, line)) /\ Bads(n, line) \in Nat
  BY BadSetFinite
<1>3. BadSet(n, new) \subseteq BadSet(n, line) \cup {k}
  BY <1>1 DEF BadSet
<1>4. Fits(n, m) => BadSet(n, new) \subseteq BadSet(n, line)
  BY <1>1 DEF BadSet
<1> HIDE DEF k
<1>5. IsFiniteSet(BadSet(n, line) \cup {k}) /\ Cardinality(BadSet(n, line) \cup {k}) <= Bads(n, line) + 1
  <2> DEFINE S == BadSet(n, line)
  <2>1. IsFiniteSet(S) /\ Bads(n, line) = Cardinality(S) /\ Cardinality(S) \in Nat
    BY <1>2 DEF Bads
  <2> HIDE DEF S
  <2>2. IsFiniteSet(S \cup {k}) /\ Cardinality(S \cup {k}) = IF k \in S THEN Cardinality(S) ELSE Cardinality(S) + 1
    BY <2>1, FS_AddElement
  <2>3. Cardinality(S \cup {k}) <= Cardinality(S) + 1
    BY <2>1, <2>2
  <2> QED BY <2>1, <2>2, <2>3 DEF S
<1>6. Cardinality(BadSet(n, new)) <= Cardinality(BadSet(n, line) \cup {k})
  BY <1>3, <1>5, FS_Subset
<1>7. Cardinality(BadSet(n, new)) \in Nat /\ Cardinality(BadSet(n, line) \cup {k}) \in Nat
  <2>1. IsFiniteSet(BadSet(n, new))
    BY <1>1, BadSetFinite
  <2> QED BY <1>5, <2>1, FS_CardinalityType
<1>8. Bads(n, new) <= Bads(n, line) + 1
  BY <1>2, <1>5, <1>6, <1>7 DEF Bads
<1>9. Fits(n, m) => Bads(n, new) <= Bads(n, line)
  BY <1>2, <1>4, FS_Subset DEF Bads
<1> QED BY <1>8, <1>9 DEF new

\* ... its first packets leave it, ...
LEMMA BadsEnd ==
  ASSUME NEW line \in Seq(Packets), NEW new \in Seq(Packets), NEW d \in Nat,
         Len(new) + d = Len(line), \A i \in 1..Len(new) : new[i] = line[i + d], NEW n
  PROVE  /\ Bads(n, new) <= Bads(n, line)
         /\ d > 0 /\ ~Fits(n, line[1]) => Bads(n, new) + 1 <= Bads(n, line)
<1> DEFINE S == BadSet(n, new)
           T == BadSet(n, line)
           f == [i \in S |-> i + d]
<1>1. Len(new) \in Nat /\ Len(line) \in Nat /\ IsFiniteSet(T) /\ Bads(n, line) \in Nat /\ Bads(n, new) \in Nat
  BY BadSetFinite
<1>2. ASSUME NEW i \in S PROVE i \in 1..Len(new) /\ i + d \in T /\ (d > 0 => i + d # 1)
  BY <1>1 DEF BadSet
<1>3. \A i, j \in S : f[i] = f[j] => i = j
  BY <1>1, <1>2
<1>4. f \in [S -> T]
  BY <1>2
<1> HIDE DEF S, T
<1>5. Cardinality(S) <= Cardinality(T)
  <2> HIDE DEF f
  <2> QED BY <1>1, <1>3, <1>4, BadSetLess
<1>6. ASSUME d > 0, ~Fits(n, line[1]) PROVE Cardinality(S) + 1 <= Cardinality(T)
  <2>1. 1 \in T
    BY <1>1, <1>6 DEF T, BadSet
  <2>2. f \in [S -> T \ {1}]
    BY <1>2, <1>6
  <2>3. IsFiniteSet(T \ {1}) /\ Cardinality(T \ {1}) = Cardinality(T) - 1
    BY <1>1, <2>1, FS_RemoveElement
  <2>4. Cardinality(S) <= Cardinality(T \ {1})
    <3> DEFINE U == T \ {1}
    <3>1. IsFiniteSet(U) /\ f \in [S -> U]
      BY <2>2, <2>3
    <3> HIDE DEF U, f
    <3> QED
      <4>1. Cardinality(S) <= Cardinality(U)
        BY <1>3, <3>1, BadSetLess
      <4> QED BY <4>1 DEF U
  <2> QED BY <1>1, <2>3, <2>4 DEF Bads, S, T
<1> QED BY <1>5, <1>6 DEF Bads, S, T

\* ... and the line loses or garbles one.
LEMMA BadsSpoil ==
  ASSUME NEW line \in Seq(Packets), NEW new \in Spoil(line), NEW n
  PROVE  \/ Len(new) + 1 = Len(line) /\ Bads(n, new) <= Bads(n, line)
         \/ Len(new) = Len(line) /\ Bads(n, new) <= Bads(n, line) + 1
<1>0. Len(line) \in Nat /\ DOMAIN line = 1..Len(line) /\ new \in Seq(Packets)
  BY ThinsSpoil
<1>1. Len(new) \in Nat /\ IsFiniteSet(BadSet(n, line)) /\ Bads(n, line) \in Nat /\ IsFiniteSet(BadSet(n, new))
  BY <1>0, BadSetFinite
<1>2. ASSUME NEW i \in 1..Len(line), new = RemoveAt(line, i)
      PROVE  Len(new) + 1 = Len(line) /\ Bads(n, new) <= Bads(n, line)
  <2> DEFINE S == BadSet(n, new)
             T == BadSet(n, line)
             f == [j \in S |-> IF j < i THEN j ELSE j + 1]
  <2>1. /\ Len(new) = Len(line) - 1
        /\ \A j \in 1..Len(new) : new[j] = line[IF j < i THEN j ELSE j + 1]
    BY <1>2, Lost
  <2>2. ASSUME NEW j \in S
        PROVE  j \in 1..Len(new) /\ (IF j < i THEN j ELSE j + 1) \in T
    BY <1>0, <1>1, <2>1 DEF BadSet
  <2>3. \A j, k \in S : f[j] = f[k] => j = k
    BY <1>0, <1>1, <2>2
  <2>4. f \in [S -> T]
    BY <2>2
  <2>5. Cardinality(S) <= Cardinality(T)
    <3> HIDE DEF f, S, T
    <3>1. IsFiniteSet(T)
      BY <1>1 DEF T
    <3> QED BY <2>3, <2>4, <3>1, BadSetLess
  <2> QED BY <1>0, <1>1, <2>1, <2>5 DEF Bads
<1>3. ASSUME NEW i \in 1..Len(line), new = Garble(line, i)
      PROVE  Len(new) = Len(line) /\ Bads(n, new) <= Bads(n, line) + 1
  <2>1. Len(new) = Len(line) /\ \A j \in 1..Len(new) : j # i => new[j] = line[j]
    BY <1>3, Garbled
  <2> DEFINE S == BadSet(n, line)
  <2>2. BadSet(n, new) \subseteq S \cup {i}
    BY <1>0, <2>1 DEF BadSet
  <2>3. IsFiniteSet(S) /\ Bads(n, line) = Cardinality(S) /\ Cardinality(S) \in Nat
    BY <1>1 DEF Bads
  <2> HIDE DEF S
  <2>4. IsFiniteSet(S \cup {i}) /\ Cardinality(S \cup {i}) = IF i \in S THEN Cardinality(S) ELSE Cardinality(S) + 1
    BY <2>3, FS_AddElement
  <2>5. Cardinality(BadSet(n, new)) <= Cardinality(S \cup {i})
    BY <2>2, <2>4, FS_Subset
  <2>6. Cardinality(BadSet(n, new)) \in Nat
    BY <1>1, FS_CardinalityType
  <2> QED BY <2>1, <2>3, <2>4, <2>5, <2>6 DEF Bads
<1> QED BY <1>0, <1>2, <1>3, Zenon DEF Spoil, Garble

-----------------------------------------------------------------------------
(* Every packet that will make a program try again is paid for by a fault. *)

\* The transfer does not stream, the disk works, and there are no more faults than
\* retries.
Calm == ~opt.stream /\ ~opt.diskFails /\ MaxFaults <= MaxTry

\* Of the two programs, a and b are the retries, p and q the packets on their way
\* to them that will make them try again, i and j all of them.  sh: the receiver
\* waits for the sender's packet; otherwise the sender waits for the receiver's.
\* A packet sent again is no duplicate for the one that waits for it.
Balance(on, f, a, p, i, b, q, j, sh) ==
  LET idle == IF on /\ i + j = 0 THEN 1 ELSE 0
  IN  /\ i + j <= f + (IF on THEN 1 ELSE 0)
      /\ a + p + (IF sh THEN q ELSE 0) + idle <= f
      /\ b + q + (IF sh THEN 0 ELSE p) + idle <= f

Even ==
  Balance(snd.st # "s", faults, snd.retries, Bads(snd.seq, toSnd), Len(toSnd),
          rcv.retries, Bads(rcv.seq, toRcv), Len(toRcv), rcv.seq = snd.seq)

\* Nobody sends an Error packet, ...
Only(line, types) == \A i \in 1..Len(line) : line[i].type \in types
Clean == Only(toRcv, Types \ {"E"}) /\ Only(toSnd, {"Y", "N", "Q"})

\* ... while the receiver is at work.
Working ==
  /\ ~Ended(snd) /\ (snd.st = "s" => rcv.seq = snd.seq)
  /\ (rcv.st = "srdat" => rcv.data # <<>>)
  /\ Clean /\ Even

\* The receiver never fails: it ends well, or is at work.
Patient == Calm => rcv.st = "done" \/ (~Ended(rcv) /\ Working)

LEMMA EvenTypes ==
  ASSUME TypeOK
  PROVE  /\ snd.retries \in Nat /\ rcv.retries \in Nat /\ faults \in Nat
         /\ MaxFaults \in Nat /\ MaxTry \in Nat /\ faults <= MaxFaults
         /\ Bads(snd.seq, toSnd) \in Nat /\ Bads(snd.seq, toSnd) <= Len(toSnd) /\ Len(toSnd) \in Nat
         /\ Bads(rcv.seq, toRcv) \in Nat /\ Bads(rcv.seq, toRcv) <= Len(toRcv) /\ Len(toRcv) \in Nat
<1>1. /\ snd.retries \in 0..MaxTry /\ rcv.retries \in 0..MaxTry /\ faults \in 0..MaxFaults
      /\ MaxFaults \in Nat /\ MaxTry \in Nat /\ toSnd \in Seq(Packets) /\ toRcv \in Seq(Packets)
  BY SndTypes, RcvTypes, KermitAssumption DEF TypeOK
<1>2. /\ Bads(snd.seq, toSnd) \in Nat /\ Bads(snd.seq, toSnd) <= Len(toSnd) /\ Len(toSnd) \in Nat
      /\ Bads(rcv.seq, toRcv) \in Nat /\ Bads(rcv.seq, toRcv) <= Len(toRcv) /\ Len(toRcv) \in Nat
  BY <1>1, BadSetFinite
<1> QED BY <1>1, <1>2

LEMMA EvenTypesNext ==
  ASSUME TypeOK'
  PROVE  /\ snd'.seq \in 0..Mod-1 /\ rcv'.seq \in 0..Mod-1
         /\ faults' \in Nat /\ toSnd' \in Seq(Packets) /\ toRcv' \in Seq(Packets)
         /\ Bads(snd'.seq, toSnd') \in Nat /\ Bads(snd'.seq, toSnd') <= Len(toSnd')
         /\ Len(toSnd') \in Nat
         /\ Bads(rcv'.seq, toRcv') \in Nat /\ Bads(rcv'.seq, toRcv') <= Len(toRcv')
         /\ Len(toRcv') \in Nat
<1>1. /\ faults' \in 0..MaxFaults /\ toSnd' \in Seq(Packets) /\ toRcv' \in Seq(Packets)
      /\ snd'.seq \in 0..Mod-1 /\ rcv'.seq \in 0..Mod-1 /\ MaxFaults \in Nat
  BY KermitAssumption DEF TypeOK
<1>2. /\ Bads(snd'.seq, toSnd') \in Nat /\ Bads(snd'.seq, toSnd') <= Len(toSnd')
      /\ Len(toSnd') \in Nat
      /\ Bads(rcv'.seq, toRcv') \in Nat /\ Bads(rcv'.seq, toRcv') <= Len(toRcv')
      /\ Len(toRcv') \in Nat
  BY <1>1, BadSetFinite
<1> QED BY <1>1, <1>2

\* No more retries than faults.
LEMMA BalanceRetries ==
  ASSUME NEW on \in BOOLEAN, NEW sh \in BOOLEAN, NEW f \in Nat, NEW a \in Nat, NEW p \in Nat,
         NEW i \in Nat, NEW b \in Nat, NEW q \in Nat, NEW j \in Nat,
         Balance(on, f, a, p, i, b, q, j, sh)
  PROVE  /\ a + p <= f /\ b + q <= f
         /\ (on /\ i = 0 /\ j = 0 => a + 1 <= f /\ b + 1 <= f)
BY DEF Balance

LEMMA EvenRetries ==
  ASSUME TypeOK, Even
  PROVE  /\ (Bads(snd.seq, toSnd) > 0 => snd.retries + 1 <= MaxFaults)
         /\ (Bads(rcv.seq, toRcv) > 0 => rcv.retries + 1 <= MaxFaults)
         /\ (Quiet => snd.retries + 1 <= MaxFaults /\ rcv.retries + 1 <= MaxFaults)
         /\ snd.retries <= faults /\ rcv.retries <= faults
<1> DEFINE p == Bads(snd.seq, toSnd)
           q == Bads(rcv.seq, toRcv)
           on == snd.st # "s"
           sh == rcv.seq = snd.seq
           i == Len(toSnd)
           j == Len(toRcv)
<1>1. Quiet => i = 0 /\ j = 0 /\ on
  BY DEF Quiet
<1>2. /\ p \in Nat /\ q \in Nat /\ i \in Nat /\ j \in Nat /\ on \in BOOLEAN /\ sh \in BOOLEAN
      /\ snd.retries \in Nat /\ rcv.retries \in Nat /\ faults \in Nat
      /\ MaxFaults \in Nat /\ faults <= MaxFaults
  BY EvenTypes
<1>3. Balance(on, faults, snd.retries, p, i, rcv.retries, q, j, sh)
  BY DEF Even
<1> HIDE DEF p, q, i, j, on, sh
<1>4. /\ snd.retries + p <= faults /\ rcv.retries + q <= faults
      /\ (on /\ i = 0 /\ j = 0 => snd.retries + 1 <= faults /\ rcv.retries + 1 <= faults)
  BY <1>2, <1>3, BalanceRetries
<1>5. p > 0 => snd.retries + 1 <= MaxFaults
  BY <1>2, <1>4
<1>6. q > 0 => rcv.retries + 1 <= MaxFaults
  BY <1>2, <1>4
<1> QED BY <1>1, <1>2, <1>4, <1>5, <1>6 DEF p, q

LEMMA OnlyThins ==
  ASSUME NEW line, NEW types, Only(line, types), "Q" \in types, NEW new, Thins(new, line)
  PROVE  Only(new, types)
<1>1. PICK f \in [1..Len(new) -> 1..Len(line)] :
        \A i \in 1..Len(new) :
          new[i] = line[f[i]] \/ (new[i].type = "Q" /\ new[i].n = line[f[i]].n)
  BY DEF Thins
<1>2. ASSUME NEW i \in 1..Len(new) PROVE new[i].type \in types
  <2>1. f[i] \in 1..Len(line)
    OBVIOUS
  <2>2. line[f[i]].type \in types
    BY <2>1 DEF Only
  <2>3. new[i] = line[f[i]] \/ new[i].type = "Q"
    BY <1>1
  <2> QED BY <2>2, <2>3
<1> QED BY <1>2 DEF Only

LEMMA OnlyAppend ==
  ASSUME NEW line \in Seq(Packets), NEW types, Only(line, types), NEW m \in Packets, m.type \in types
  PROVE  Only(Append(line, m), types)
<1>1. /\ Len(Append(line, m)) = Len(line) + 1 /\ Append(line, m)[Len(line) + 1] = m
      /\ Len(line) \in Nat
      /\ \A i \in 1..Len(line) : Append(line, m)[i] = line[i]
  OBVIOUS
<1>2. ASSUME NEW i \in 1..Len(line) + 1 PROVE Append(line, m)[i].type \in types
  BY <1>1 DEF Only
<1> QED BY <1>1, <1>2 DEF Only

\* Why a program sends its packet again: for a packet that does not fit, because
\* nothing is on its way, or too early.
Why(n, line, new) ==
  \/ line # <<>> /\ ~Fits(n, Head(line)) /\ new = Tail(line) /\ faults' = faults
  \/ Quiet /\ new = line /\ faults' = faults
  \/ new = line /\ faults' = faults + 1

LEMMA WhyFacts ==
  ASSUME NEW n, NEW line \in Seq(Packets), NEW new, Why(n, line, new)
  PROVE  /\ new \in Seq(Packets) /\ Thins(new, line)
         /\ \/ Bads(n, new) + 1 <= Bads(n, line) /\ Len(new) + 1 = Len(line) /\ faults' = faults
            \/ Quiet /\ new = line /\ faults' = faults
            \/ new = line /\ faults' = faults + 1
<1>1. CASE line # <<>> /\ ~Fits(n, Head(line)) /\ new = Tail(line) /\ faults' = faults
  <2>1. /\ new \in Seq(Packets) /\ Thins(new, line) /\ Head(line) = line[1]
        /\ Len(line) \in Nat \ {0} /\ Len(new) = Len(line) - 1
        /\ \A i \in 1..Len(new) : new[i] = line[i + 1]
    BY <1>1, ThinsTail
  <2>2. 1 \in Nat /\ 1 > 0 /\ Len(new) + 1 = Len(line)
    BY <2>1
  <2>3. Bads(n, new) + 1 <= Bads(n, line)
    BY <1>1, <2>1, <2>2, BadsEnd
  <2> QED BY <1>1, <2>1, <2>2, <2>3
<1>2. CASE new = line
  BY <1>2, ThinsSame DEF Why
<1> QED BY <1>1, <1>2 DEF Why

LEMMA QuietFacts ==
  ASSUME Quiet, NEW n
  PROVE  /\ Len(toSnd) = 0 /\ Len(toRcv) = 0 /\ Bads(n, toSnd) = 0 /\ Bads(n, toRcv) = 0
         /\ snd.st # "s"
<1>1. toSnd = <<>> /\ toRcv = <<>> /\ snd.st # "s"
  BY DEF Quiet
<1>2. BadSet(n, <<>>) = {}
  BY DEF BadSet
<1>3. Bads(n, <<>>) = 0
  BY <1>2, FS_EmptySet DEF Bads
<1> QED BY <1>1, <1>3

\* The sender sends its packet again.
LEMMA SndAgainWorks ==
  ASSUME TypeOK, TypeOK', NEW k \in Sendings, Sender(k), Active(snd), Working, ~Ended(rcv),
         snd.retries + 1 <= MaxTry, NEW line, Why(snd.seq, toSnd, line),
         Sends(Resend(snd), line)
  PROVE  Working'
<1>0. /\ snd \in SndType /\ snd.seq \in 0..Mod-1 /\ snd.retries \in 0..MaxTry /\ MaxTry \in Nat
      /\ snd.pkt \in Packets /\ snd.pkt # None /\ snd.pkt.n = snd.seq
      /\ snd.pkt.type \in {"S", "F", "A", "D", "Z", "B"}
      /\ toSnd \in Seq(Packets) /\ toRcv \in Seq(Packets)
  BY SndTypes, SndPkt, KermitAssumption DEF TypeOK, SndType
<1>1. /\ snd'.st = snd.st /\ snd'.seq = snd.seq /\ snd'.retries = snd.retries + 1
      /\ snd'.pkt = snd.pkt
  <2>1. snd' = Resend(snd)
    BY SendsFacts
  <2>2. Resend(snd) = [snd EXCEPT !.retries = @ + 1, !.pkt = snd.pkt]
    BY <1>0 DEF Resend, SndType
  <2> QED BY <1>0, <2>1, <2>2 DEF SndType
<1>2. toRcv' = Append(toRcv, snd.pkt) /\ toSnd' = line /\ rcv' = rcv
  BY <1>1, SendsFacts DEF Active, Ended, Put
<1>3. /\ line \in Seq(Packets) /\ Thins(line, toSnd)
      /\ \/ Bads(snd.seq, line) + 1 <= Bads(snd.seq, toSnd) /\ Len(line) + 1 = Len(toSnd) /\ faults' = faults
         \/ Quiet /\ line = toSnd /\ faults' = faults
         \/ line = toSnd /\ faults' = faults + 1
  BY <1>0, WhyFacts
<1>4. Clean'
  <2>1. Only(line, {"Y", "N", "Q"})
    BY <1>3, OnlyThins DEF Working, Clean
  <2>2. snd.pkt.type \in Types \ {"E"}
    BY <1>0 DEF Types
  <2>3. Only(Append(toRcv, snd.pkt), Types \ {"E"})
    BY <1>0, <2>2, OnlyAppend DEF Working, Clean
  <2> QED BY <1>2, <2>1, <2>3 DEF Clean
<1>5. Even'
  <2> DEFINE on == snd.st # "s"
             sh == rcv.seq = snd.seq
             p == Bads(snd.seq, toSnd)
             q == Bads(rcv.seq, toRcv)
             i == Len(toSnd)
             j == Len(toRcv)
             p2 == Bads(snd'.seq, toSnd')
             i2 == Len(toSnd')
             q2 == Bads(rcv'.seq, toRcv')
             j2 == Len(toRcv')
  <2>1. /\ p \in Nat /\ q \in Nat /\ i \in Nat /\ j \in Nat /\ on \in BOOLEAN /\ sh \in BOOLEAN
        /\ snd.retries \in Nat /\ rcv.retries \in Nat /\ faults \in Nat
    BY EvenTypes
  <2>2. p2 \in Nat /\ q2 \in Nat /\ i2 \in Nat /\ faults' \in Nat
    BY EvenTypesNext
  <2>3. q2 <= q + 1 /\ (sh => q2 <= q) /\ j2 = j + 1
    <3>1. Len(Append(toRcv, snd.pkt)) = Len(toRcv) + 1
      BY <1>0
    <3>2. sh => Fits(rcv.seq, snd.pkt)
      BY <1>0 DEF Fits
    <3>3. /\ Bads(rcv.seq, Append(toRcv, snd.pkt)) <= q + 1
          /\ Fits(rcv.seq, snd.pkt) => Bads(rcv.seq, Append(toRcv, snd.pkt)) <= q
      BY <1>0, BadsAppend
    <3> QED BY <1>2, <3>1, <3>2, <3>3
  <2>4. \/ p2 + 1 <= p /\ i2 + 1 = i /\ faults' = faults
        \/ p2 = p /\ i2 = i /\ i = 0 /\ j = 0 /\ p = 0 /\ q = 0 /\ faults' = faults
        \/ p2 = p /\ i2 = i /\ faults' = faults + 1
    BY <1>1, <1>2, <1>3, QuietFacts
  <2>5. on
    BY DEF Active
  <2>6. Balance(on, faults, snd.retries, p, i, rcv.retries, q, j, sh)
    BY DEF Working, Even
  <2>7. /\ on <=> snd'.st # "s"
        /\ sh <=> rcv'.seq = snd'.seq
        /\ snd'.retries = snd.retries + 1 /\ rcv'.retries = rcv.retries
    BY <1>1, <1>2
  <2> HIDE DEF on, sh, p, q, i, j, p2, i2, q2, j2
  <2>8. Balance(on, faults', snd.retries + 1, p2, i2, rcv.retries, q2, j + 1, sh)
    <3>1. CASE p2 + 1 <= p /\ i2 + 1 = i /\ faults' = faults
      BY <2>1, <2>2, <2>3, <2>5, <2>6, <3>1 DEF Balance
    <3>2. CASE p2 = p /\ i2 = i /\ i = 0 /\ j = 0 /\ p = 0 /\ q = 0 /\ faults' = faults
      BY <2>1, <2>2, <2>3, <2>5, <2>6, <3>2 DEF Balance
    <3>3. CASE p2 = p /\ i2 = i /\ faults' = faults + 1
      BY <2>1, <2>2, <2>3, <2>5, <2>6, <3>3 DEF Balance
    <3> QED BY <2>4, <3>1, <3>2, <3>3
  <2>9. Balance(snd'.st # "s", faults', snd'.retries, p2, i2, rcv'.retries, q2, j2, rcv'.seq = snd'.seq)
    BY <2>3, <2>7, <2>8 DEF Balance
  <2> QED BY <2>9 DEF Even, p2, i2, q2, j2
<1> QED BY <1>1, <1>2, <1>4, <1>5 DEF Working, Ended, Active

\* Without streaming at most one packet is out without an answer.
LEMMA OneOut ==
  ASSUME TypeOK, NEW k \in Sendings, NEW b \in Nat, Link(k, b), ~opt.stream
  PROVE  /\ b = 0 \/ b = 1
         /\ b = 1 <=> rcv.seq = snd.seq
         /\ b = 0 <=> rcv.seq = After(snd.seq)
         /\ ~snd.streaming /\ ~rcv.streaming /\ ~Streams(k) /\ ~StreamingData
<1>1. ~snd.streaming /\ ~rcv.streaming /\ ~Streams(k) /\ ~StreamingData
  BY DEF Link, Sender, Receiver, Streams, StreamingData
<1>2. snd.seq \in 0..Mod-1 /\ rcv.seq \in 0..Mod-1
  BY SndTypes, RcvTypes
<1>3. b = 0 \/ b = 1
  BY <1>1 DEF Link, Receiver
<1>4. (rcv.seq + b) % Mod = After(snd.seq)
  BY DEF Link, Receiver
<1>5. After(snd.seq) # snd.seq
  BY <1>2, AfterFacts
<1>6. CASE b = 0
  <2>1. rcv.seq = After(snd.seq)
    BY <1>2, <1>4, <1>6, BehindFacts
  <2> QED BY <1>1, <1>5, <1>6, <2>1
<1>7. CASE b = 1
  <2>1. rcv.seq = snd.seq
    BY <1>2, <1>4, <1>7, BehindFacts
  <2> QED BY <1>1, <1>5, <1>7, <2>1
<1> QED BY <1>3, <1>6, <1>7

\* What the receiver sends again fits the sender, unless it waits for the last packet.
LEMMA RcvPkt ==
  ASSUME TypeOK, NEW k \in Sendings, NEW b \in Nat, Link(k, b), ~opt.stream, Active(rcv),
         NEW m, m = IF rcv.pkt = None THEN Packet("N", rcv.seq, 0) ELSE rcv.pkt
  PROVE  /\ m \in Packets /\ m.type \in {"Y", "N", "Q"}
         /\ rcv.seq # snd.seq => Fits(snd.seq, m)
<1>0. /\ rcv.seq \in 0..Mod-1 /\ snd.seq \in 0..Mod-1 /\ rcv.pkt \in Packets \cup {None}
      /\ rcv.st \in RcvStates
  BY SndTypes, RcvTypes
<1>1. Receiver(k, b) /\ Position(k, b)
  BY DEF Link, Receiver
<1>2. CASE rcv.st = "srini"
  <2>1. m \in Packets /\ m.type = "N"
    BY <1>0, <1>1, <1>2, PacketType DEF Receiver, Types
  <2>2. b # 0
    BY <1>1, <1>2 DEF Position, Between, InFile, Sendings
  <2> QED BY <2>1, <2>2, OneOut
<1>3. CASE rcv.st \in {"srfil", "sratt", "srdat"}
  <2>1. rcv.pkt # None /\ rcv.pkt.type = "Y" /\ After(rcv.pkt.n) = rcv.seq
    BY <1>1, <1>3 DEF Receiver
  <2>2. m \in Packets /\ m = rcv.pkt /\ m.n \in 0..Mod-1
    BY <1>0, <2>1 DEF Packets
  <2>3. rcv.seq # snd.seq => m.n = snd.seq
    BY <1>0, <2>1, <2>2, OneOut, AfterFacts
  <2> QED BY <2>1, <2>2, <2>3 DEF Fits
<1> QED BY <1>0, <1>2, <1>3 DEF Active, RcvStates

\* The receiver sends its packet again.
LEMMA RcvAgainWorks ==
  ASSUME TypeOK, TypeOK', NEW k \in Sendings, NEW b \in Nat, Link(k, b), ~opt.stream,
         Active(rcv), Working, rcv.retries + 1 <= MaxTry, NEW line, Why(rcv.seq, toRcv, line),
         Receives(Resend(rcv), TRUE, line)
  PROVE  ~Ended(rcv') /\ Working'
<1> DEFINE m == IF rcv.pkt = None THEN Packet("N", rcv.seq, 0) ELSE rcv.pkt
<1>0. /\ rcv \in RcvType /\ rcv.seq \in 0..Mod-1 /\ rcv.retries \in 0..MaxTry /\ MaxTry \in Nat
      /\ toSnd \in Seq(Packets) /\ toRcv \in Seq(Packets)
  BY RcvTypes, KermitAssumption DEF TypeOK, RcvType
<1>m. m \in Packets /\ m.type \in {"Y", "N", "Q"} /\ (rcv.seq # snd.seq => Fits(snd.seq, m))
  BY RcvPkt
<1>1. /\ rcv'.st = rcv.st /\ rcv'.seq = rcv.seq /\ rcv'.retries = rcv.retries + 1
      /\ rcv'.pkt = m /\ rcv'.data = rcv.data
  <2>1. rcv' = Resend(rcv)
    BY ReceivesFacts
  <2>2. Resend(rcv) = [rcv EXCEPT !.retries = @ + 1, !.pkt = m]
    BY <1>0 DEF Resend, RcvType
  <2> QED BY <1>0, <2>1, <2>2 DEF RcvType
<1> HIDE DEF m
<1>2. toSnd' = Append(toSnd, m) /\ toRcv' = line /\ snd' = snd
  BY <1>1, ReceivesFacts DEF Active, Ended, Put, Working
<1>3. /\ line \in Seq(Packets) /\ Thins(line, toRcv)
      /\ \/ Bads(rcv.seq, line) + 1 <= Bads(rcv.seq, toRcv) /\ Len(line) + 1 = Len(toRcv) /\ faults' = faults
         \/ Quiet /\ line = toRcv /\ faults' = faults
         \/ line = toRcv /\ faults' = faults + 1
  BY <1>0, WhyFacts
<1>4. Clean'
  <2>0. "Q" \in Types \ {"E"}
    BY DEF Types
  <2>1. Only(line, Types \ {"E"})
    BY <1>3, <2>0, OnlyThins DEF Working, Clean
  <2>3. Only(Append(toSnd, m), {"Y", "N", "Q"})
    BY <1>0, <1>m, OnlyAppend DEF Working, Clean
  <2> QED BY <1>2, <2>1, <2>3 DEF Clean
<1>5. Even'
  <2> DEFINE on == snd.st # "s"
             sh == rcv.seq = snd.seq
             p == Bads(snd.seq, toSnd)
             q == Bads(rcv.seq, toRcv)
             i == Len(toSnd)
             j == Len(toRcv)
             p2 == Bads(snd'.seq, toSnd')
             i2 == Len(toSnd')
             q2 == Bads(rcv'.seq, toRcv')
             j2 == Len(toRcv')
  <2>1. /\ p \in Nat /\ q \in Nat /\ i \in Nat /\ j \in Nat /\ on \in BOOLEAN /\ sh \in BOOLEAN
        /\ snd.retries \in Nat /\ rcv.retries \in Nat /\ faults \in Nat
    BY EvenTypes
  <2>2. p2 \in Nat /\ q2 \in Nat /\ j2 \in Nat /\ faults' \in Nat
    BY EvenTypesNext
  <2>3. p2 <= p + 1 /\ (sh \/ p2 <= p) /\ i2 = i + 1
    BY <1>0, <1>2, <1>m, BadsAppend
  <2>4. \/ q2 + 1 <= q /\ j2 + 1 = j /\ faults' = faults
        \/ q2 = q /\ j2 = j /\ i = 0 /\ j = 0 /\ p = 0 /\ q = 0 /\ faults' = faults /\ on
        \/ q2 = q /\ j2 = j /\ faults' = faults + 1
    BY <1>1, <1>2, <1>3, QuietFacts
  <2>6. Balance(on, faults, snd.retries, p, i, rcv.retries, q, j, sh)
    BY DEF Working, Even
  <2>7. /\ on <=> snd'.st # "s"
        /\ sh <=> rcv'.seq = snd'.seq
        /\ snd'.retries = snd.retries /\ rcv'.retries = rcv.retries + 1
    BY <1>1, <1>2
  <2> HIDE DEF on, sh, p, q, i, j, p2, i2, q2, j2
  <2>8. Balance(on, faults', snd.retries, p2, i + 1, rcv.retries + 1, q2, j2, sh)
    <3>1. CASE q2 + 1 <= q /\ j2 + 1 = j /\ faults' = faults
      BY <2>1, <2>2, <2>3, <2>6, <3>1 DEF Balance
    <3>2. CASE q2 = q /\ j2 = j /\ i = 0 /\ j = 0 /\ p = 0 /\ q = 0 /\ faults' = faults /\ on
      BY <2>1, <2>2, <2>3, <2>6, <3>2 DEF Balance
    <3>3. CASE q2 = q /\ j2 = j /\ faults' = faults + 1
      BY <2>1, <2>2, <2>3, <2>6, <3>3 DEF Balance
    <3> QED BY <2>4, <3>1, <3>2, <3>3
  <2>9. Balance(snd'.st # "s", faults', snd'.retries, p2, i2, rcv'.retries, q2, j2, rcv'.seq = snd'.seq)
    BY <2>3, <2>7, <2>8 DEF Balance
  <2> QED BY <2>9 DEF Even, p2, i2, q2, j2
<1>6. ~Ended(rcv')
  BY <1>1 DEF Active, Ended
<1> QED BY <1>1, <1>2, <1>4, <1>5, <1>6 DEF Working, Ended

\* What is left of a line after a packet that input() took.
LEMMA FlushedLen ==
  ASSUME NEW line \in Seq(Packets), line # <<>>, NEW p, NEW rest \in Flushed(p, Tail(line))
  PROVE  rest \in Seq(Packets) /\ Thins(rest, line) /\ Len(rest) + 1 <= Len(line)
<1> DEFINE t == Tail(line)
<1>1. t \in Seq(Packets) /\ Len(line) \in Nat \ {0} /\ Len(t) = Len(line) - 1
  BY ThinsTail
<1>2. rest \in Seq(Packets) /\ Thins(rest, line)
  BY ThinsFlushed
<1> HIDE DEF t
<1>3. CASE p.streaming
  <2>1. rest = t
    BY <1>3 DEF Flushed, t
  <2> QED BY <1>1, <1>2, <2>1
<1>4. CASE ~p.streaming
  <2>1. PICK k \in 1..Len(t) + 1 : rest = SubSeq(t, k, Len(t))
    BY <1>4 DEF Flushed, t
  <2>2. Len(t) \in Nat
    BY <1>1
  <2>3. Len(rest) = Len(t) - (k - 1)
    BY <1>1, <2>1, <2>2
  <2> QED BY <1>1, <1>2, <2>2, <2>3
<1> QED BY <1>3, <1>4

\* The sender starts.
LEMMA SndStartsWorks ==
  ASSUME TypeOK, TypeOK', StartSending, Working, ~Ended(rcv), snd.seq = 0
  PROVE  Working'
<1> DEFINE m == Packet("S", 0, 0)
<1>0. /\ snd \in SndType /\ toSnd \in Seq(Packets) /\ toRcv \in Seq(Packets)
      /\ 0 \in 0..Mod-1 /\ snd.st = "s" /\ rcv.seq = snd.seq
  BY KermitAssumption DEF TypeOK, SndType, StartSending, Working
<1>m. m \in Packets /\ m.type = "S" /\ m.n = 0
  BY <1>0, PacketType DEF Types
<1> HIDE DEF m
<1>1. snd'.st = "ssini" /\ snd'.seq = snd.seq /\ snd'.retries = snd.retries /\ snd'.pkt = m
  <2>1. snd' = [snd EXCEPT !.st = "ssini", !.pkt = m]
    BY SendsFacts DEF StartSending, m
  <2> QED BY <1>0, <2>1 DEF SndType
<1>2. toRcv' = Append(toRcv, m) /\ toSnd' = toSnd /\ rcv' = rcv /\ faults' = faults
  <2>1. PICK s : Sends(s, toSnd)
    BY DEF StartSending
  <2> QED BY <1>1, <2>1, SendsFacts DEF Ended, Put, StartSending
<1>4. Clean'
  <2>1. Only(Append(toRcv, m), Types \ {"E"})
    BY <1>0, <1>m, OnlyAppend DEF Working, Clean, Types
  <2> QED BY <1>2, <2>1 DEF Clean, Working
<1>5. Even'
  <2> DEFINE on == snd.st # "s"
             sh == rcv.seq = snd.seq
             p == Bads(snd.seq, toSnd)
             q == Bads(rcv.seq, toRcv)
             i == Len(toSnd)
             j == Len(toRcv)
             p2 == Bads(snd'.seq, toSnd')
             i2 == Len(toSnd')
             q2 == Bads(rcv'.seq, toRcv')
             j2 == Len(toRcv')
  <2>1. /\ p \in Nat /\ q \in Nat /\ i \in Nat /\ j \in Nat /\ on \in BOOLEAN /\ sh \in BOOLEAN
        /\ snd.retries \in Nat /\ rcv.retries \in Nat /\ faults \in Nat /\ p <= i /\ q <= j
    BY EvenTypes
  <2>2. /\ p2 \in Nat /\ q2 \in Nat /\ i2 \in Nat /\ j2 \in Nat /\ p2 <= i2 /\ q2 <= j2
    BY EvenTypesNext
  <2>6. Balance(on, faults, snd.retries, p, i, rcv.retries, q, j, sh)
    BY DEF Working, Even
  <2>3. q2 <= q /\ j2 = j + 1 /\ p2 = p /\ i2 = i /\ ~on /\ sh
    BY <1>0, <1>1, <1>2, <1>m, BadsAppend DEF Fits
  <2>7. /\ snd'.st # "s" /\ rcv'.seq = snd'.seq /\ faults' = faults
        /\ snd'.retries = snd.retries /\ rcv'.retries = rcv.retries
    BY <1>0, <1>1, <1>2
  <2> HIDE DEF on, sh, p, q, i, j, p2, i2, q2, j2
  <2>8. Balance(TRUE, faults, snd.retries, p, i, rcv.retries, q2, j + 1, TRUE)
    BY <2>1, <2>2, <2>3, <2>6 DEF Balance
  <2>9. Balance(snd'.st # "s", faults', snd'.retries, p2, i2, rcv'.retries, q2, j2, rcv'.seq = snd'.seq)
    BY <2>3, <2>7, <2>8 DEF Balance
  <2> QED BY <2>9 DEF Even, p2, i2, q2, j2
<1> QED BY <1>1, <1>2, <1>4, <1>5 DEF Working, Ended

\* The sender goes on: only the receiver ends the transfer.
LEMMA SndGoesOnWorks ==
  ASSUME TypeOK, TypeOK', NEW k \in Sendings, NEW b \in Nat, Link(k, b), ~opt.stream, opt' = opt,
         Active(snd), Answered, Working, ~Ended(rcv), NEW rest \in Flushed(snd, Tail(toSnd)),
         Sends(OnAck(snd), rest), faults' = faults
  PROVE  Working'
<1>0. /\ snd.seq \in 0..Mod-1 /\ toSnd \in Seq(Packets) /\ toRcv \in Seq(Packets) /\ toSnd # <<>>
      /\ Sender(k) /\ Position(k, b) /\ Acks(k, b)
  BY SndTypes DEF TypeOK, Answered, Link, Receiver
<1>1. b = 0 /\ rcv.seq = After(snd.seq) /\ rcv.seq # snd.seq
  BY <1>0, AckFacts, OneOut
<1>2. /\ snd' = OnAck(snd)
      /\ toRcv' = IF snd'.st = "done" \/ (snd'.st = "failed" /\ snd'.pkt.type # "E") THEN toRcv
                  ELSE Put(toRcv, snd'.pkt, rcv)
      /\ toSnd' = IF Ended(snd') THEN <<>> ELSE rest
      /\ rcv' = rcv
  BY SendsFacts
<1>3. k # "sseot"
  BY <1>0, <1>1 DEF Position, Ended
<1>4. PICK k2 \in Sendings : GoesOn(k, k2)
  BY <1>0, <1>2, <1>3, OnAckFacts
<1>5. Sender(k2)'
  BY <1>0, <1>4, NextSender
<1>6. /\ snd'.pkt \in Packets /\ snd'.pkt.n = snd'.seq /\ snd'.pkt = Current(k2)'
      /\ snd'.seq = After(snd.seq) /\ snd'.st = k2 /\ Active(snd') /\ ~Ended(snd') /\ snd'.retries = 0
  BY <1>4, <1>5, NextPacket DEF GoesOn
<1>7. snd'.pkt.type \in Types \ {"E", "Q", "N"} /\ snd'.st # "s"
  BY <1>6 DEF Current, Packet, Types, Sendings
<1>8. toRcv' = Append(toRcv, snd'.pkt) /\ toSnd' = rest
  BY <1>2, <1>6 DEF Ended, Put
<1>9. rest \in Seq(Packets) /\ Thins(rest, toSnd) /\ Len(rest) + 1 <= Len(toSnd)
  BY <1>0, FlushedLen
<1>10. Clean'
  <2>1. Only(rest, {"Y", "N", "Q"})
    BY <1>9, OnlyThins DEF Working, Clean
  <2>2. Only(Append(toRcv, snd'.pkt), Types \ {"E"})
    BY <1>0, <1>6, <1>7, OnlyAppend DEF Working, Clean
  <2> QED BY <1>8, <2>1, <2>2 DEF Clean
<1>11. Even'
  <2> DEFINE on == snd.st # "s"
             sh == rcv.seq = snd.seq
             p == Bads(snd.seq, toSnd)
             q == Bads(rcv.seq, toRcv)
             i == Len(toSnd)
             j == Len(toRcv)
             p2 == Bads(snd'.seq, toSnd')
             i2 == Len(toSnd')
             q2 == Bads(rcv'.seq, toRcv')
             j2 == Len(toRcv')
  <2>1. /\ p \in Nat /\ q \in Nat /\ i \in Nat /\ j \in Nat /\ on \in BOOLEAN /\ sh \in BOOLEAN
        /\ snd.retries \in Nat /\ rcv.retries \in Nat /\ faults \in Nat /\ p <= i /\ q <= j
    BY EvenTypes
  <2>2. /\ p2 \in Nat /\ q2 \in Nat /\ i2 \in Nat /\ j2 \in Nat /\ p2 <= i2 /\ q2 <= j2
    BY EvenTypesNext
  <2>6. Balance(on, faults, snd.retries, p, i, rcv.retries, q, j, sh)
    BY DEF Working, Even
  <2>3. q2 <= q /\ j2 = j + 1 /\ i2 + 1 <= i /\ on /\ ~sh
    <3>1. Fits(rcv.seq, snd'.pkt) /\ on /\ ~sh /\ rcv'.seq = rcv.seq
      BY <1>1, <1>2, <1>6, <1>7 DEF Fits, Active
    <3>2. Bads(rcv.seq, Append(toRcv, snd'.pkt)) <= Bads(rcv.seq, toRcv)
      BY <1>0, <1>6, <3>1, BadsAppend
    <3> QED BY <1>0, <1>8, <1>9, <3>1, <3>2
  <2>7. /\ snd'.st # "s" /\ rcv'.seq = snd'.seq /\ faults' = faults
        /\ snd'.retries = 0 /\ rcv'.retries = rcv.retries
    BY <1>1, <1>2, <1>6, <1>7
  <2> HIDE DEF on, sh, p, q, i, j, p2, i2, q2, j2
  <2>8. Balance(on, faults, 0, p2, i2, rcv.retries, q2, j + 1, TRUE)
    BY <2>1, <2>2, <2>3, <2>6 DEF Balance
  <2>9. Balance(snd'.st # "s", faults', snd'.retries, p2, i2, rcv'.retries, q2, j2, rcv'.seq = snd'.seq)
    BY <2>3, <2>7, <2>8 DEF Balance
  <2> QED BY <2>9 DEF Even, p2, i2, q2, j2
<1> QED BY <1>2, <1>6, <1>7, <1>10, <1>11 DEF Working, Ended

\* The state machine of the receiver has an action for the last packet.
LEMMA RcvExpects ==
  ASSUME TypeOK, NEW k \in Sendings, Position(k, 1), Active(rcv), rcv.st = "srdat" => rcv.data # <<>>
  PROVE  OnPacket(rcv, Current(k)).st # "failed"
<1> DEFINE m == Current(k)
<1>0. rcv \in RcvType /\ rcv.data \in Seq(Nat)
  BY DEF TypeOK, RcvType
<1>1. /\ Ack(rcv, m).st = rcv.st
      /\ \A st : [Ack(rcv, m) EXCEPT !.st = st].st = st
  BY <1>0 DEF Ack, RcvType
<1>2. CASE k = "ssini"
  <2>1. rcv.st = "srini" /\ m.type = "S"
    BY <1>2 DEF Position, Active, Current, Packet
  <2> HIDE DEF m
  <2> QED BY <1>0, <2>1 DEF OnPacket, Ack, RcvType, m
<1>3. CASE k = "ssfil"
  <2>1. rcv.st = "srfil" /\ m.type = "F"
    BY <1>3 DEF Position, Between, Active, Current, Packet
  <2> HIDE DEF m
  <2> QED BY <1>0, <2>1 DEF OnPacket, Ack, RcvType, m
<1>4. CASE k = "ssatt"
  <2>1. rcv.st \in {"sratt", "srdat"} /\ m.type = "A" /\ Len(rcv.data) = 0
    BY <1>4 DEF Position, InFile, Active, Current, Packet
  <2>2. rcv.st = "sratt"
    BY <1>0, <2>1
  <2> HIDE DEF m
  <2> QED BY <1>0, <2>1, <2>2 DEF OnPacket, Ack, RcvType, m
<1>5. CASE k = "ssdat"
  <2>1. rcv.st \in {"sratt", "srdat"} /\ m.type = "D"
    BY <1>5 DEF Position, InFile, Active, Current, Packet
  <2> HIDE DEF m
  <2> QED BY <1>0, <2>1 DEF OnPacket, Ack, RcvType, m
<1>6. CASE k = "sseof"
  <2>1. rcv.st \in {"sratt", "srdat"} /\ m.type = "Z"
    BY <1>6 DEF Position, InFile, Active, Current, Packet
  <2> HIDE DEF m
  <2> QED BY <1>0, <2>1 DEF OnPacket, Ack, RcvType, m
<1>7. CASE k = "sseot"
  <2>1. rcv.st = "srfil" /\ m.type = "B"
    BY <1>7 DEF Position, Between, Active, Current, Packet
  <2> HIDE DEF m
  <2> QED BY <1>0, <2>1 DEF OnPacket, Ack, RcvType, m
<1> QED BY <1>2, <1>3, <1>4, <1>5, <1>6, <1>7 DEF Sendings

\* The receiver takes the last packet.
LEMMA RcvTakesWorks ==
  ASSUME TypeOK, TypeOK', NEW k \in Sendings, NEW b \in Nat, Link(k, b), ~opt.stream,
         Active(rcv), toRcv # <<>>, NEW m, m = Head(toRcv), Good(rcv, m), Working,
         NEW rest \in Flushed(rcv, Tail(toRcv)),
         Receives(OnPacket(rcv, m), Answers(OnPacket(rcv, m), m), rest), faults' = faults
  PROVE  rcv'.st = "done" \/ (~Ended(rcv') /\ Working')
<1>0. /\ snd.seq \in 0..Mod-1 /\ rcv.seq \in 0..Mod-1 /\ toSnd \in Seq(Packets)
      /\ toRcv \in Seq(Packets) /\ Sender(k) /\ Position(k, b)
      /\ Len(toRcv) \in Nat \ {0} /\ m = toRcv[1] /\ m \in Packets
  <2>1. toRcv \in Seq(Packets) /\ toSnd \in Seq(Packets)
    BY DEF TypeOK
  <2>2. Len(toRcv) \in Nat \ {0} /\ m = toRcv[1] /\ m \in Packets
    BY <2>1
  <2> QED BY <2>1, <2>2, SndTypes, RcvTypes DEF Link, Receiver
<1>1. StopAndWait(k, b) /\ m.n = rcv.seq /\ m.type \notin {"Q", "N"} /\ m.type # "E"
  <2>1. 1 \in 1..Len(toRcv)
    BY <1>0
  <2>2. m.type # "E"
    BY <1>0, <2>1 DEF Working, Clean, Only
  <2> QED BY <2>2, OneOut DEF Link, Good
<1>2. b = 1 /\ m = Current(k) /\ rcv.seq = snd.seq
  <2>1. 1 \in 1..Len(toRcv)
    BY <1>0
  <2>2. \/ m.n = snd.seq /\ (m = Current(k) \/ m.type \in {"Q", "E"})
        \/ b = 1 /\ After(m.n) = snd.seq
    BY <1>0, <1>1, <2>1 DEF StopAndWait
  <2>3. After(snd.seq) # snd.seq
    BY <1>0, AfterFacts
  <2> QED BY <1>1, <2>2, <2>3, OneOut
<1>3. OnPacket(rcv, m).st # "failed"
  BY <1>0, <1>2, RcvExpects DEF Working
<1>4. /\ rcv' = OnPacket(rcv, m) /\ toRcv' = IF Ended(rcv') THEN <<>> ELSE rest
      /\ snd' = snd
  BY ReceivesFacts
<1>5. rest \in Seq(Packets) /\ Thins(rest, toRcv) /\ Len(rest) + 1 <= Len(toRcv)
  BY <1>0, FlushedLen
<1>6. Thins(rest, Tail(toRcv)) /\ (rcv.streaming => rest = Tail(toRcv))
  BY <1>0, ThinsFlushed
<1>7. RcvTakes(m)
  <2>1. RcvFails \/ RcvTakes(m)
    BY <1>0, <1>1, <1>5, <1>6, RcvOnPacket
  <2> QED BY <1>3, <1>4, <2>1 DEF RcvFails
<1>8. SUFFICES ASSUME rcv'.st # "done" PROVE ~Ended(rcv') /\ Working'
  OBVIOUS
<1>9. ~Ended(rcv') /\ toRcv' = rest
  BY <1>3, <1>4, <1>8 DEF Ended
<1> DEFINE y == Packet("Y", rcv.seq, 0)
<1>10. y \in Packets /\ y.type = "Y" /\ y.n = rcv.seq
  BY <1>0, PacketType DEF Types
<1>11. /\ rcv'.seq = After(rcv.seq) /\ rcv'.retries = 0
       /\ toSnd' = Append(toSnd, y)
  BY <1>7, OneOut DEF RcvTakes, Put, Working
<1> HIDE DEF y
<1>12. rcv'.st = "srdat" => rcv'.data # <<>>
  <2>1. rcv'.st = "srdat" => rcv'.data = Append(rcv.data, m.data)
    BY <1>7 DEF RcvTakes, TakesAs
  <2>2. Append(rcv.data, m.data) # <<>>
    <3>1. rcv.data \in Seq(Nat) /\ m.data \in Nat
      BY <1>0, RcvTypes DEF Packets
    <3> QED BY <3>1
  <2> QED BY <2>1, <2>2
<1>13. snd.st # "s" /\ After(snd.seq) # snd.seq
  BY <1>0, AfterFacts DEF Sender
<1>14. Clean'
  <2>0. "Q" \in Types \ {"E"}
    BY DEF Types
  <2>1. Only(rest, Types \ {"E"})
    BY <1>5, <2>0, OnlyThins DEF Working, Clean
  <2>2. Only(Append(toSnd, y), {"Y", "N", "Q"})
    BY <1>0, <1>10, OnlyAppend DEF Working, Clean
  <2> QED BY <1>9, <1>11, <2>1, <2>2 DEF Clean
<1>15. Even'
  <2> DEFINE on == snd.st # "s"
             sh == rcv.seq = snd.seq
             p == Bads(snd.seq, toSnd)
             q == Bads(rcv.seq, toRcv)
             i == Len(toSnd)
             j == Len(toRcv)
             p2 == Bads(snd'.seq, toSnd')
             i2 == Len(toSnd')
             q2 == Bads(rcv'.seq, toRcv')
             j2 == Len(toRcv')
  <2>1. /\ p \in Nat /\ q \in Nat /\ i \in Nat /\ j \in Nat /\ on \in BOOLEAN /\ sh \in BOOLEAN
        /\ snd.retries \in Nat /\ rcv.retries \in Nat /\ faults \in Nat /\ p <= i /\ q <= j
    BY EvenTypes
  <2>2. /\ p2 \in Nat /\ q2 \in Nat /\ i2 \in Nat /\ j2 \in Nat /\ p2 <= i2 /\ q2 <= j2
    BY EvenTypesNext
  <2>6. Balance(on, faults, snd.retries, p, i, rcv.retries, q, j, sh)
    BY DEF Working, Even
  <2>3. j2 + 1 <= j /\ i2 = i + 1 /\ p2 <= p /\ sh
    BY <1>0, <1>2, <1>4, <1>5, <1>9, <1>10, <1>11, BadsAppend DEF Fits
  <2>7. /\ on <=> snd'.st # "s"
        /\ rcv'.seq # snd'.seq /\ faults' = faults
        /\ snd'.retries = snd.retries /\ rcv'.retries = 0
    BY <1>2, <1>4, <1>11, <1>13
  <2> HIDE DEF on, sh, p, q, i, j, p2, i2, q2, j2
  <2>8. Balance(on, faults, snd.retries, p2, i + 1, 0, q2, j2, FALSE)
    BY <2>1, <2>2, <2>3, <2>6 DEF Balance
  <2>9. Balance(snd'.st # "s", faults', snd'.retries, p2, i2, rcv'.retries, q2, j2, rcv'.seq = snd'.seq)
    BY <2>3, <2>7, <2>8 DEF Balance
  <2> QED BY <2>9 DEF Even, p2, i2, q2, j2
<1> QED BY <1>4, <1>9, <1>12, <1>13, <1>14, <1>15 DEF Working, Ended

\* The line loses or garbles a packet.
LEMMA FaultWorks ==
  ASSUME TypeOK, TypeOK', Fault, Working
  PROVE  Working'
<1>0. toSnd \in Seq(Packets) /\ toRcv \in Seq(Packets)
  BY DEF TypeOK
<1>1. /\ faults' = faults + 1 /\ snd' = snd /\ rcv' = rcv
      /\ \/ toRcv' \in Spoil(toRcv) /\ toSnd' = toSnd
         \/ toSnd' \in Spoil(toSnd) /\ toRcv' = toRcv
  BY DEF Fault
<1>2. Thins(toRcv', toRcv) /\ Thins(toSnd', toSnd)
  BY <1>0, <1>1, ThinsSpoil, ThinsSame
<1>3. Clean'
  <2>0. "Q" \in Types \ {"E"}
    BY DEF Types
  <2>1. Only(toRcv', Types \ {"E"})
    BY <1>2, <2>0, OnlyThins DEF Working, Clean
  <2>2. Only(toSnd', {"Y", "N", "Q"})
    BY <1>2, OnlyThins DEF Working, Clean
  <2> QED BY <2>1, <2>2 DEF Clean
<1>4. Even'
  <2> DEFINE on == snd.st # "s"
             sh == rcv.seq = snd.seq
             p == Bads(snd.seq, toSnd)
             q == Bads(rcv.seq, toRcv)
             i == Len(toSnd)
             j == Len(toRcv)
             p2 == Bads(snd'.seq, toSnd')
             i2 == Len(toSnd')
             q2 == Bads(rcv'.seq, toRcv')
             j2 == Len(toRcv')
  <2>1. /\ p \in Nat /\ q \in Nat /\ i \in Nat /\ j \in Nat /\ on \in BOOLEAN /\ sh \in BOOLEAN
        /\ snd.retries \in Nat /\ rcv.retries \in Nat /\ faults \in Nat /\ p <= i /\ q <= j
    BY EvenTypes
  <2>2. /\ p2 \in Nat /\ q2 \in Nat /\ i2 \in Nat /\ j2 \in Nat /\ p2 <= i2 /\ q2 <= j2
    BY EvenTypesNext
  <2>6. Balance(on, faults, snd.retries, p, i, rcv.retries, q, j, sh)
    BY DEF Working, Even
  <2>3. \/ i2 + 1 = i /\ p2 <= p /\ j2 = j /\ q2 = q
        \/ i2 = i /\ p2 <= p + 1 /\ j2 = j /\ q2 = q
        \/ j2 + 1 = j /\ q2 <= q /\ i2 = i /\ p2 = p
        \/ j2 = j /\ q2 <= q + 1 /\ i2 = i /\ p2 = p
    <3>1. CASE toRcv' \in Spoil(toRcv) /\ toSnd' = toSnd
      BY <1>0, <1>1, <3>1, BadsSpoil
    <3>2. CASE toSnd' \in Spoil(toSnd) /\ toRcv' = toRcv
      BY <1>0, <1>1, <3>2, BadsSpoil
    <3> QED BY <1>1, <3>1, <3>2
  <2>7. /\ on <=> snd'.st # "s"
        /\ sh <=> rcv'.seq = snd'.seq
        /\ faults' = faults + 1
        /\ snd'.retries = snd.retries /\ rcv'.retries = rcv.retries
    BY <1>1
  <2> HIDE DEF on, sh, p, q, i, j, p2, i2, q2, j2
  <2>8. Balance(on, faults + 1, snd.retries, p2, i2, rcv.retries, q2, j2, sh)
    <3>1. CASE i2 + 1 = i /\ p2 <= p /\ j2 = j /\ q2 = q
      BY <2>1, <2>2, <2>6, <3>1 DEF Balance
    <3>2. CASE i2 = i /\ p2 <= p + 1 /\ j2 = j /\ q2 = q
      BY <2>1, <2>2, <2>6, <3>2 DEF Balance
    <3>3. CASE j2 + 1 = j /\ q2 <= q /\ i2 = i /\ p2 = p
      BY <2>1, <2>2, <2>6, <3>3 DEF Balance
    <3>4. CASE j2 = j /\ q2 <= q + 1 /\ i2 = i /\ p2 = p
      BY <2>1, <2>2, <2>6, <3>4 DEF Balance
    <3> QED BY <2>3, <3>1, <3>2, <3>3, <3>4, Zenon
  <2>9. Balance(snd'.st # "s", faults', snd'.retries, p2, i2, rcv'.retries, q2, j2, rcv'.seq = snd'.seq)
    BY <2>3, <2>7, <2>8 DEF Balance
  <2> QED BY <2>9 DEF Even, p2, i2, q2, j2
<1> QED BY <1>1, <1>3, <1>4 DEF Working, Ended

-----------------------------------------------------------------------------
(* Every step keeps the balance.                                           *)

LEMMA SndPatient ==
  ASSUME TypeOK, TypeOK', NEW k \in Sendings, NEW b \in Nat, Link(k, b), Calm, ~Ended(rcv), Working,
         opt' = opt
  PROVE  SndStep \/ SndTimeout => Working'
<1>0. /\ toSnd \in Seq(Packets) /\ Sender(k) /\ ~opt.stream /\ MaxFaults <= MaxTry
      /\ MaxFaults \in Nat /\ MaxTry \in Nat /\ snd.retries \in Nat /\ faults \in Nat
      /\ ~snd.streaming /\ ~StreamingData
  BY EvenTypes, OneOut DEF TypeOK, Link, Calm
<1>1. CASE StartSending
  <2>1. snd.seq = 0
    BY <1>0, <1>1 DEF StartSending, Sender
  <2> QED BY <1>1, <2>1, SndStartsWorks
<1>2. CASE SndInput
  <2>1. Active(snd) /\ toSnd # <<>> /\ faults' = faults
    BY <1>2 DEF SndInput
  <2>2. CASE Good(snd, Head(toSnd))
    <3>1. PICK rest \in Flushed(snd, Tail(toSnd)) : Sends(OnReply(snd, Head(toSnd)), rest)
      BY <1>2, <2>2 DEF SndInput
    <3>2. Head(toSnd).type = "Y" /\ Head(toSnd).n = snd.seq
      <4>1. 1 \in 1..Len(toSnd) /\ Head(toSnd) = toSnd[1]
        BY <1>0, <2>1
      <4>2. Head(toSnd).type \in {"Y", "N", "Q"}
        BY <4>1 DEF Working, Clean, Only
      <4> QED BY <2>2, <4>2 DEF Good
    <3>3. Sends(OnAck(snd), rest)
      BY <3>1, <3>2 DEF OnReply
    <3> QED BY <1>0, <2>1, <3>2, <3>3, SndGoesOnWorks DEF Answered
  <2>3. CASE ~Good(snd, Head(toSnd))
    <3>1. Sends(Resend(snd), Tail(toSnd))
      BY <1>0, <1>2, <2>3 DEF SndInput, OnBad
    <3>2. Why(snd.seq, toSnd, Tail(toSnd))
      BY <2>1, <2>3 DEF Why, Good, Fits
    <3>3. Bads(snd.seq, toSnd) > 0
      <4>1. 1 \in BadSet(snd.seq, toSnd)
        BY <1>0, <2>1, <2>3 DEF BadSet, Good, Fits
      <4> QED BY <1>0, <4>1, BadsSome
    <3>4. snd.retries + 1 <= MaxTry
      BY <1>0, <3>3, EvenRetries DEF Working
    <3> QED BY <1>0, <2>1, <3>1, <3>2, <3>4, SndAgainWorks
  <2> QED BY <2>2, <2>3
<1>3. CASE SndStream
  BY <1>0, <1>3 DEF SndStream
<1>4. CASE SndTimeout
  <2>1. Active(snd) /\ Sends(Resend(snd), toSnd)
    BY <1>4 DEF SndTimeout, Alarm
  <2>2. (Quiet /\ faults' = faults) \/ (faults < MaxFaults /\ faults' = faults + 1)
    BY <1>4 DEF SndTimeout, Alarm
  <2>3. Why(snd.seq, toSnd, toSnd)
    BY <2>2 DEF Why
  <2>4. snd.retries + 1 <= MaxTry
    BY <1>0, <2>2, EvenRetries DEF Working
  <2> QED BY <1>0, <2>1, <2>3, <2>4, SndAgainWorks
<1> QED BY <1>1, <1>2, <1>3, <1>4 DEF SndStep

LEMMA RcvPatient ==
  ASSUME TypeOK, TypeOK', NEW k \in Sendings, NEW b \in Nat, Link(k, b), Calm, ~Ended(rcv), Working
  PROVE  RcvStep \/ RcvTimeout => rcv'.st = "done" \/ (~Ended(rcv') /\ Working')
<1>0. /\ toRcv \in Seq(Packets) /\ ~opt.stream /\ ~opt.diskFails /\ MaxFaults <= MaxTry
      /\ MaxFaults \in Nat /\ MaxTry \in Nat /\ rcv.retries \in Nat /\ faults \in Nat
      /\ ~rcv.streaming
  BY EvenTypes, OneOut DEF TypeOK, Calm
<1>1. CASE StartReceiving
  <2>1. /\ rcv' = [rcv EXCEPT !.st = "srini"] /\ rcv \in RcvType
        /\ UNCHANGED <<snd, toRcv, toSnd, faults>>
    BY <1>1 DEF StartReceiving, TypeOK, RcvType
  <2>2. rcv'.st = "srini" /\ rcv'.seq = rcv.seq /\ rcv'.retries = rcv.retries
    BY <2>1 DEF RcvType
  <2>3. Clean' /\ Even'
    BY <2>1, <2>2 DEF Working, Clean, Even
  <2> QED BY <2>1, <2>2, <2>3 DEF Working, Ended
<1>2. CASE RcvInput
  <2> DEFINE m == Head(toRcv)
  <2>1. Active(rcv) /\ toRcv # <<>> /\ faults' = faults
    BY <1>2 DEF RcvInput
  <2>2. CASE Good(rcv, m)
    <3>1. PICK rest \in Flushed(rcv, Tail(toRcv)) :
            Receives(OnPacket(rcv, m), Answers(OnPacket(rcv, m), m), rest)
      BY <1>0, <1>2, <2>2 DEF RcvInput
    <3> HIDE DEF m
    <3>2. m = Head(toRcv)
      BY DEF m
    <3> QED BY <1>0, <2>1, <2>2, <3>1, <3>2, RcvTakesWorks
  <2>3. CASE ~Good(rcv, m)
    <3>1. Receives(Resend(rcv), TRUE, Tail(toRcv))
      BY <1>0, <1>2, <2>3 DEF RcvInput, OnBad
    <3>2. Why(rcv.seq, toRcv, Tail(toRcv))
      BY <2>1, <2>3 DEF Why, Good, Fits
    <3>3. Bads(rcv.seq, toRcv) > 0
      <4>1. 1 \in BadSet(rcv.seq, toRcv)
        BY <1>0, <2>1, <2>3 DEF BadSet, Good, Fits
      <4> QED BY <1>0, <4>1, BadsSome
    <3>4. rcv.retries + 1 <= MaxTry
      BY <1>0, <3>3, EvenRetries DEF Working
    <3> QED BY <1>0, <2>1, <3>1, <3>2, <3>4, RcvAgainWorks
  <2> QED BY <2>2, <2>3
<1>3. CASE RcvTimeout
  <2>1. Active(rcv) /\ Receives(Resend(rcv), TRUE, toRcv)
    BY <1>3 DEF RcvTimeout, Alarm
  <2>2. (Quiet /\ faults' = faults) \/ (faults < MaxFaults /\ faults' = faults + 1)
    BY <1>3 DEF RcvTimeout, Alarm
  <2>3. Why(rcv.seq, toRcv, toRcv)
    BY <2>2 DEF Why
  <2>4. rcv.retries + 1 <= MaxTry
    BY <1>0, <2>2, EvenRetries DEF Working
  <2> QED BY <1>0, <2>1, <2>3, <2>4, RcvAgainWorks
<1> QED BY <1>1, <1>2, <1>3 DEF RcvStep

\* A receiver that is done stays so.
LEMMA DoneStays ==
  ASSUME rcv.st = "done"
  PROVE  [Next]_vars => rcv'.st = "done"
<1>1. ~Active(rcv) /\ rcv.st # "v"
  BY DEF Active
<1> QED BY <1>1 DEF Next, SndStep, RcvStep, StartSending, SndInput, SndStream, SndTimeout,
                StartReceiving, RcvInput, RcvTimeout, Alarm, Fault, Sends, vars

LEMMA PatientKept ==
  ASSUME TypeOK, TypeOK', Few => Linked, Patient
  PROVE  [Next]_vars => Patient'
<1>1. HAVE [Next]_vars
<1>2. opt' = opt
  BY <1>1, OptKept
<1>3. SUFFICES ASSUME Calm PROVE rcv'.st = "done" \/ (~Ended(rcv') /\ Working')
  BY <1>2 DEF Patient, Calm
<1>4. PICK k \in Sendings, b \in Nat : Link(k, b)
  BY <1>3 DEF Calm, Few, Linked
<1>5. CASE rcv.st = "done"
  BY <1>1, <1>5, DoneStays
<1>6. CASE ~Ended(rcv) /\ Working
  <2>1. CASE SndStep \/ SndTimeout
    <3>1. Working'
      BY <1>2, <1>3, <1>4, <1>6, <2>1, SndPatient
    <3>2. rcv' = rcv
      BY <1>4, <2>1, SndCases DEF Link
    <3> QED BY <1>6, <3>1, <3>2 DEF Ended
  <2>2. CASE RcvStep \/ RcvTimeout
    BY <1>3, <1>4, <1>6, <2>2, RcvPatient
  <2>3. CASE Fault
    BY <1>6, <2>3, FaultWorks DEF Fault, Ended
  <2>4. CASE UNCHANGED vars
    <3>1. UNCHANGED <<snd, rcv, toRcv, toSnd, faults>>
      BY <2>4 DEF vars
    <3>2. Clean' /\ Even'
      BY <1>6, <3>1 DEF Working, Clean, Even
    <3> QED BY <1>6, <3>1, <3>2 DEF Working, Ended
  <2> QED BY <1>1, <2>1, <2>2, <2>3, <2>4 DEF Next
<1> QED BY <1>3, <1>5, <1>6 DEF Patient

(* A disk that works, and no more lost, garbled or late packets than MAXTRY,  *)
(* do a transfer that waits for its ACKs no harm: however the duplicates that *)
(* timeouts and resend() make meet, the receiver never gives up, and the      *)
(* sender only when the receiver has every file and the last ACK was lost.    *)
THEOREM RetriesSufficeHolds == Spec => []RetriesSuffice
<1>1. Init => Patient
  <2>1. SUFFICES ASSUME Init PROVE ~Ended(rcv) /\ Working
    BY DEF Patient
  <2>2. /\ snd.st = "s" /\ snd.seq = 0 /\ snd.retries = 0
        /\ rcv.st = "v" /\ rcv.seq = 0 /\ rcv.retries = 0
        /\ toRcv = <<>> /\ toSnd = <<>> /\ faults = 0
    BY <2>1 DEF Init
  <2>3. Len(toRcv) = 0 /\ Len(toSnd) = 0 /\ Bads(0, <<>>) = 0
    <3>1. BadSet(0, <<>>) = {}
      BY DEF BadSet
    <3> QED BY <2>2, <3>1, FS_EmptySet DEF Bads
  <2>4. Clean
    BY <2>3 DEF Clean, Only
  <2>5. Even
    BY <2>2, <2>3 DEF Even, Balance
  <2> QED BY <2>2, <2>4, <2>5 DEF Working, Ended
<1>2. Inv /\ Inv' /\ Patient /\ [Next]_vars => Patient'
  BY PatientKept DEF Inv
<1>3. Patient => RetriesSuffice
  BY DEF Patient, RetriesSuffice, Calm, Working, Ended
<1> QED BY <1>1, <1>2, <1>3, Invariance, PTL DEF Spec

=============================================================================
