---------------------------- MODULE PcapngProofs ----------------------------
(***************************************************************************)
(* What PcapngReader gives back of a file that PcapngWriter wrote, for     *)
(* every set of packets and names, whatever reaches the disk and when.     *)
(***************************************************************************)
EXTENDS Pcapng, SequenceTheorems, WellFoundedInduction, TLAPS

-----------------------------------------------------------------------------
(* The inductive invariant                                                 *)

Newest == made[Len(made)]

(* The n-th block starts after its Start.                                  *)
Start(n) == made[n].next - 1 - Len(made[n].words)

Entry == [words : Seq(Int), next : Nat, ifs : Nat, pks : Nat]
KnownInterfaces == {Interface(1, 0, Shortened(x, NameCap)) : x \in Names}
KnownPackets == {Packet(id, t, p.len, p) : id \in {0, 1}, t \in Times, p \in Captures}

TypeInv ==
  /\ file \in Seq(Int) /\ disk \in 0 .. Len(file)
  /\ made \in Seq(Entry)
  /\ added \in Seq(KnownInterfaces) /\ written \in Seq(KnownPackets)
  /\ writer \in {"none", "open", "closed"}
  /\ writer = "none" <=> made = <<>>
  /\ made = <<>> => file = <<>> /\ added = <<>> /\ written = <<>> /\ nextIf = 0
  /\ lost \in BOOLEAN

(* A block that reached the file whole is in the history of its kind.      *)
InFile(n) == made[n].next <= Len(file) + 1

IsIdb(n, name) ==
  /\ made[n].words = Idb(1, 0, name)
  /\ made[n].ifs = made[n - 1].ifs + 1 /\ made[n].pks = made[n - 1].pks
  /\ InFile(n) => /\ made[n].ifs <= Len(added)
                  /\ added[made[n].ifs] = Interface(1, 0, Shortened(name, NameCap))

IsEpb(n, id, t, p) ==
  /\ made[n].words = Epb(id, t, p) /\ id < made[n].ifs
  /\ made[n].pks = made[n - 1].pks + 1 /\ made[n].ifs = made[n - 1].ifs
  /\ InFile(n) => /\ made[n].pks <= Len(written)
                  /\ written[made[n].pks] = Packet(id, t, p.len, p)

(* The blocks follow each other, without a gap.                            *)
ChainInv ==
  /\ made # <<>> => made[1] = Made(Shb, Len(Shb) + 1, 0, 0)
  /\ \A n \in 2 .. Len(made) :
       /\ Start(n) = made[n - 1].next - 1
       /\ \/ \E name \in Names : IsIdb(n, name)
          \/ \E id \in {0, 1}, t \in Times, p \in Captures : IsEpb(n, id, t, p)
  /\ \A n \in DOMAIN made, m \in DOMAIN made : m < n => made[m].next < made[n].next

(* What is in the file is theirs; a file that lost nothing has them all.   *)
FileInv ==
  /\ \A n \in DOMAIN made : \A j \in DOMAIN made[n].words :
       Start(n) + j <= Len(file) => file[Start(n) + j] = made[n].words[j]
  /\ made # <<>> => Len(file) < Newest.next
  /\ made # <<>> /\ ~lost =>
       /\ Len(file) = Newest.next - 1
       /\ nextIf = Newest.ifs /\ Newest.ifs = Len(added) /\ Newest.pks = Len(written)

(* The reader is between two blocks, and has given what is before it.      *)
Between(n) ==
  /\ at = made[n].next /\ at <= disk + 1
  /\ Len(ifaces) = made[n].ifs /\ Len(returned) = made[n].pks

ReaderInv ==
  /\ reader \in {"none", "scan", "next", "open", "eof", "error", "refused"}
  /\ ifaces \in Seq(KnownInterfaces) /\ returned \in Seq(KnownPackets)
  /\ reader \in {"none", "refused"} => ifaces = <<>> /\ returned = <<>>
  /\ reader = "scan" => returned = <<>>
  /\ reader \notin {"none", "refused"} => \E n \in DOMAIN made : Between(n)
  /\ Len(ifaces) <= Len(added) /\ \A i \in DOMAIN ifaces : ifaces[i] = added[i]
  /\ Len(returned) <= Len(written) /\ \A i \in DOMAIN returned : returned[i] = written[i]
  /\ \A i \in DOMAIN returned : returned[i].iface < Len(ifaces)
  /\ reader \in {"error", "refused"} /\ whole =>
       \E i \in DOMAIN written : written[i].len > MaxPacket

CleanInv == TypeInv /\ ChainInv /\ FileInv /\ ReaderInv

ReadInv == (tainted => lost) /\ (~tainted => CleanInv)

-----------------------------------------------------------------------------
(* The words of a block                                                    *)

LEMMA MinOfTwo ==
  ASSUME NEW a \in Nat, NEW b \in Nat
  PROVE  Min({a, b}) = IF a <= b THEN a ELSE b
BY DEF Min

LEMMA WordsOf ==
  ASSUME NEW n \in Nat
  PROVE  /\ Words(n) \in Nat /\ n <= 4 * Words(n)
         /\ \A m \in Nat : m <= n => Words(m) <= Words(n)
         /\ Words(0) = 0
BY DEF Words

LEMMA BlockWords ==
  ASSUME NEW type \in Int, NEW body \in Seq(Int)
  PROVE  LET b == Block(type, body)
         IN /\ b \in Seq(Int) /\ Len(b) = Len(body) + 3
            /\ b[1] = type /\ b[2] = 4 * Len(b) /\ b[Len(b)] = 4 * Len(b)
            /\ \A k \in 3 .. Len(b) - 1 : b[k] = body[k - 2]
<1> DEFINE total == 4 * (Len(body) + 3)
           front == <<type, total>> \o body
<1>1. total \in Int
  OBVIOUS
<1>2. /\ front \in Seq(Int) /\ Len(front) = Len(body) + 2
      /\ front[1] = type /\ front[2] = total
      /\ \A j \in 1 .. Len(body) : front[j + 2] = body[j]
  BY <1>1
<1> HIDE DEF total, front
<1>3. /\ front \o <<total>> \in Seq(Int) /\ Len(front \o <<total>>) = Len(front) + 1
      /\ \A j \in 1 .. Len(front) : (front \o <<total>>)[j] = front[j]
      /\ (front \o <<total>>)[Len(front) + 1] = total
  BY <1>1, <1>2
<1>4. Block(type, body) = front \o <<total>>
  BY DEF Block, front, total
<1> HIDE DEF front, total
<1>5. Len(body) \in Nat /\ total = 4 * (Len(body) + 3)
  BY DEF total
<1>7. ASSUME NEW k \in 3 .. Len(body) + 2  PROVE Block(type, body)[k] = body[k - 2]
  <2>1. k \in 1 .. Len(front) /\ k - 2 \in 1 .. Len(body) /\ (k - 2) + 2 = k
    BY <1>2, <1>5
  <2>2. front[(k - 2) + 2] = body[k - 2]
    BY <2>1, <1>2
  <2> QED
    BY <2>1, <2>2, <1>3, <1>4
<1>8. Block(type, body)[1] = type /\ Block(type, body)[2] = total
  BY <1>2, <1>3, <1>4, <1>5
<1>9. Block(type, body) \in Seq(Int) /\ Len(Block(type, body)) = Len(body) + 3
  BY <1>2, <1>3, <1>4, <1>5
<1>10. Block(type, body)[Len(body) + 3] = total
  BY <1>2, <1>3, <1>4, <1>5
<1> QED
  BY <1>5, <1>7, <1>8, <1>9, <1>10

LEMMA EpbWords ==
  ASSUME NEW id \in Nat, NEW t \in Nat, NEW p \in Captures
  PROVE  LET w == Epb(id, t, p)
         IN /\ w \in Seq(Int) /\ Len(w) = 8 + Words(p.len)
            /\ w[1] = EPB /\ w[2] = 4 * Len(w) /\ w[Len(w)] = 4 * Len(w)
            /\ w[3] = id /\ w[4] * Half + w[5] = t /\ w[6] = p.len /\ w[7] = p.len
            /\ \A j \in 1 .. Words(p.len) : w[7 + j] = p.data[j]
<1> DEFINE head == <<id, t \div Half, t % Half, p.len, p.len>>
           body == head \o p.data
<1>1. p.len \in Nat /\ p.data \in Seq(Int) /\ Len(p.data) = Words(p.len) /\ Words(p.len) \in Nat
  BY DataAssumption, WordsOf
<1>2. t \div Half \in Int /\ t % Half \in Int /\ (t \div Half) * Half + (t % Half) = t
  BY SizeAssumption
<1>3. /\ body \in Seq(Int) /\ Len(body) = 5 + Words(p.len)
      /\ body[1] = id /\ body[2] = t \div Half /\ body[3] = t % Half
      /\ body[4] = p.len /\ body[5] = p.len
      /\ \A j \in 1 .. Words(p.len) : body[5 + j] = p.data[j]
  BY <1>1, <1>2, SMTT(30)
<1>4. Epb(id, t, p) = Block(EPB, body) /\ EPB \in Int
  BY DEF Epb, EPB
<1> HIDE DEF head, body
<1> DEFINE w == Epb(id, t, p)
<1>5. /\ w \in Seq(Int) /\ Len(w) = 8 + Words(p.len)
      /\ w[1] = EPB /\ w[2] = 4 * Len(w) /\ w[Len(w)] = 4 * Len(w)
      /\ \A k \in 3 .. 7 + Words(p.len) : w[k] = body[k - 2]
  <2>1. LET b == Block(EPB, body)
        IN /\ b \in Seq(Int) /\ Len(b) = Len(body) + 3
           /\ b[1] = EPB /\ b[2] = 4 * Len(b) /\ b[Len(b)] = 4 * Len(b)
           /\ \A k \in 3 .. Len(b) - 1 : b[k] = body[k - 2]
    BY <1>3, <1>4, BlockWords
  <2>2. w = Block(EPB, body)
    BY <1>4
  <2> HIDE DEF w
  <2>3. w \in Seq(Int) /\ Len(w) = 8 + Words(p.len)
    <3>1. w \in Seq(Int)
      BY <2>1, <2>2
    <3>2. Len(w) = Len(body) + 3
      BY <2>1, <2>2
    <3>3. Len(body) = 5 + Words(p.len)
      BY <1>3
    <3> QED
      BY <3>1, <3>2, <3>3, <1>1
  <2>4. w[1] = EPB /\ w[2] = 4 * Len(w) /\ w[Len(w)] = 4 * Len(w)
    BY <2>1, <2>2
  <2>5. Len(w) - 1 = 7 + Words(p.len)
    BY <2>3, <1>1
  <2>6. \A k \in 3 .. Len(w) - 1 : w[k] = body[k - 2]
    BY <2>1, <2>2
  <2> QED
    BY <2>3, <2>4, <2>5, <2>6
<1> HIDE DEF w
<1>6. /\ w[3] = body[1] /\ w[4] = body[2] /\ w[5] = body[3]
      /\ w[6] = body[4] /\ w[7] = body[5]
  <2>1. \A k \in 3 .. 7 : k \in 3 .. 7 + Words(p.len)
    BY <1>1
  <2>2. ASSUME NEW k \in 3 .. 7, NEW j \in Int, j = k - 2  PROVE w[k] = body[j]
    <3>1. w[k] = body[k - 2]
      BY <2>1, <1>5
    <3> QED
      BY <3>1, <2>2
  <2> QED
    BY <2>2
<1>7. ASSUME NEW j \in 1 .. Words(p.len)  PROVE w[7 + j] = p.data[j]
  <2>1. 7 + j \in 3 .. 7 + Words(p.len) /\ (7 + j) - 2 = 5 + j
    BY <1>1
  <2>2. w[7 + j] = body[5 + j]
    BY <2>1, <1>5
  <2> QED
    BY <2>2, <1>1, <1>3
<1> QED
  BY <1>2, <1>3, <1>5, <1>6, <1>7 DEF w

(* An interface block without a name and with one.                         *)
LEMMA IdbWords ==
  ASSUME NEW name \in Names
  PROVE  LET w == Idb(1, 0, name)
             l == Min({name.len, NameMax})
         IN /\ w \in Seq(Int)
            /\ w[1] = IDB /\ w[2] = 4 * Len(w) /\ w[Len(w)] = 4 * Len(w)
            /\ w[3] = 1 /\ w[4] = 0
            /\ name.len = 0 => Len(w) = 5
            /\ name.len # 0 =>
                 /\ Len(w) = 7 + Words(l)
                 /\ w[5] = OptIfName * U16 + l /\ w[6 + Words(l)] = 0
                 /\ \A j \in 1 .. Words(l) : w[5 + j] = name.data[j]
<1> DEFINE l == Min({name.len, NameMax})
           data == SubSeq(name.data, 1, Words(l))
           option == <<OptIfName * U16 + l>> \o data
           tail == IF name.len = 0 THEN <<>> ELSE option \o <<0>>
           body == <<1, 0>> \o tail
<1>1. /\ name.len \in Nat /\ name.data \in Seq(Int) /\ Len(name.data) = Words(name.len)
      /\ NameMax \in Nat /\ U16 \in Nat
  BY DataAssumption, SizeAssumption
<1>2. l \in Nat /\ l <= name.len /\ Words(l) \in Nat /\ Words(l) <= Words(name.len)
  <2>1. l = IF name.len <= NameMax THEN name.len ELSE NameMax
    BY <1>1, MinOfTwo
  <2> HIDE DEF l
  <2>2. l \in Nat /\ l <= name.len
    BY <2>1, <1>1
  <2> QED
    BY <2>2, <1>1, WordsOf
<1> HIDE DEF l
<1>3. /\ data \in Seq(Int) /\ Len(data) = Words(l)
      /\ \A j \in 1 .. Words(l) : data[j] = name.data[j]
  BY <1>1, <1>2, SubSeqProperties
<1>4. OptIfName * U16 + l \in Int
  BY <1>1, <1>2 DEF OptIfName
<1>5. Idb(1, 0, name) = Block(IDB, body) /\ IDB \in Int
  BY DEF Idb, Option, Shortened, IDB, l
<1> HIDE DEF data
<1>6. /\ option \in Seq(Int) /\ Len(option) = 1 + Words(l) /\ option[1] = OptIfName * U16 + l
      /\ \A j \in 1 .. Words(l) : option[1 + j] = data[j]
  BY <1>2, <1>3, <1>4
<1> HIDE DEF option
<1>7. /\ tail \in Seq(Int)
      /\ name.len = 0 => Len(tail) = 0
      /\ name.len # 0 => /\ Len(tail) = 2 + Words(l) /\ tail[2 + Words(l)] = 0
                         /\ \A j \in 1 .. 1 + Words(l) : tail[j] = option[j]
  BY <1>2, <1>6
<1> HIDE DEF tail
<1>8. /\ body \in Seq(Int) /\ Len(body) = 2 + Len(tail) /\ body[1] = 1 /\ body[2] = 0
      /\ \A j \in 1 .. Len(tail) : body[2 + j] = tail[j]
  BY <1>7
<1> HIDE DEF body
<1> DEFINE w == Idb(1, 0, name)
<1>9. /\ w \in Seq(Int) /\ Len(w) = 5 + Len(tail)
      /\ w[1] = IDB /\ w[2] = 4 * Len(w) /\ w[Len(w)] = 4 * Len(w)
      /\ \A k \in 3 .. 4 + Len(tail) : w[k] = body[k - 2]
  <2>1. LET b == Block(IDB, body)
        IN /\ b \in Seq(Int) /\ Len(b) = Len(body) + 3
           /\ b[1] = IDB /\ b[2] = 4 * Len(b) /\ b[Len(b)] = 4 * Len(b)
           /\ \A k \in 3 .. Len(b) - 1 : b[k] = body[k - 2]
    BY <1>5, <1>8, BlockWords
  <2>2. w = Block(IDB, body)
    BY <1>5
  <2> HIDE DEF w
  <2>3. w \in Seq(Int) /\ Len(w) = Len(body) + 3
    BY <2>1, <2>2
  <2>4. w[1] = IDB /\ w[2] = 4 * Len(w) /\ w[Len(w)] = 4 * Len(w)
    BY <2>1, <2>2
  <2>5. Len(w) = 5 + Len(tail) /\ Len(w) - 1 = 4 + Len(tail)
    BY <2>3, <1>7, <1>8
  <2>6. \A k \in 3 .. Len(w) - 1 : w[k] = body[k - 2]
    BY <2>1, <2>2
  <2> QED
    BY <2>3, <2>4, <2>5, <2>6
<1> HIDE DEF w
<1>10. w[3] = 1 /\ w[4] = 0
  <2>1. \A k \in 3 .. 4 : k \in 3 .. 4 + Len(tail)
    BY <1>7
  <2>2. ASSUME NEW k \in 3 .. 4, NEW j \in Int, j = k - 2  PROVE w[k] = body[j]
    <3>1. w[k] = body[k - 2]
      BY <2>1, <1>9
    <3> QED
      BY <3>1, <2>2
  <2> QED
    BY <2>2, <1>8
<1>11. ASSUME NEW j \in 1 .. Len(tail)  PROVE w[4 + j] = tail[j]
  <2>1. 4 + j \in 3 .. 4 + Len(tail) /\ Len(tail) \in Nat /\ (4 + j) - 2 = 2 + j
    BY <1>7
  <2>2. w[4 + j] = body[2 + j]
    BY <2>1, <1>9
  <2> QED
    BY <2>1, <2>2, <1>8
<1>12. name.len # 0 => /\ w[5] = OptIfName * U16 + l
                       /\ w[6 + Words(l)] = 0
                       /\ \A j \in 1 .. Words(l) : w[5 + j] = name.data[j]
  <2> SUFFICES ASSUME name.len # 0
               PROVE  /\ w[5] = OptIfName * U16 + l
                      /\ w[6 + Words(l)] = 0
                      /\ \A j \in 1 .. Words(l) : w[5 + j] = name.data[j]
    OBVIOUS
  <2>1. \A j \in 1 .. 2 + Words(l) : w[4 + j] = tail[j]
    BY <1>7, <1>11
  <2>2. w[5] = option[1] /\ w[6 + Words(l)] = 0
    <3>1. 1 \in 1 .. 2 + Words(l) /\ 2 + Words(l) \in 1 .. 2 + Words(l) /\ 1 \in 1 .. 1 + Words(l)
      BY <1>2
    <3>2. w[4 + 1] = tail[1] /\ w[4 + (2 + Words(l))] = tail[2 + Words(l)]
      BY <3>1, <2>1
    <3> QED
      BY <3>1, <3>2, <1>2, <1>7
  <2>3. ASSUME NEW j \in 1 .. Words(l)  PROVE w[5 + j] = name.data[j]
    <3>1. 1 + j \in 1 .. 2 + Words(l) /\ 1 + j \in 1 .. 1 + Words(l)
      BY <1>2
    <3>2. w[4 + (1 + j)] = option[1 + j]
      BY <3>1, <2>1, <1>7
    <3> QED
      BY <3>2, <1>3, <1>6, <1>2
  <2> QED
    BY <2>2, <2>3, <1>6
<1>13. name.len = 0 => Len(w) = 5
  BY <1>7, <1>9
<1>14. name.len # 0 => Len(w) = 7 + Words(l)
  BY <1>2, <1>7, <1>9, SMTT(30)
<1> QED
  BY <1>9, <1>10, <1>12, <1>13, <1>14 DEF l, w

-----------------------------------------------------------------------------
(* Reading a block                                                         *)

(* As far as the disk goes, it has these words from the i-th on.           *)
Holds(i, words) == \A j \in 1 .. Len(words) : i + j - 1 <= disk => file[i + j - 1] = words[j]

Whole(i, words) == i + Len(words) <= disk + 1

(* A packet's block is read when all of it is there, unless it is too long. *)
LEMMA ReadsEpb ==
  ASSUME ~swapped, disk \in Nat, NEW i \in Nat, NEW known,
         NEW id \in Nat, NEW t \in Nat, NEW p \in Captures, Holds(i, Epb(id, t, p))
  PROVE  LET w == Epb(id, t, p)
         IN /\ Have(i) => WordAt(i) = EPB
            /\ Whole(i, w) /\ p.len <= MaxPacket =>
                 ReadBlock(i, known) = Read(i + Len(w), known, <<Packet(id, t, p.len, p)>>)
            /\ ~Whole(i, w) \/ p.len > MaxPacket => ReadBlock(i, known).st \in {"eof", "error"}
<1> DEFINE w == Epb(id, t, p)
           W == Words(p.len)
           total == WordAt(i + 1)
<1>1. /\ w \in Seq(Int) /\ Len(w) = 8 + W
      /\ w[1] = EPB /\ w[2] = 4 * Len(w) /\ w[Len(w)] = 4 * Len(w)
      /\ w[3] = id /\ w[4] * Half + w[5] = t /\ w[6] = p.len /\ w[7] = p.len
      /\ \A j \in 1 .. W : w[7 + j] = p.data[j]
  BY EpbWords
<1>2. p.len \in Nat /\ W \in Nat /\ p.data \in Seq(Int) /\ Len(p.data) = W
  BY DataAssumption, WordsOf
<1>3. \A k \in Int : WordAt(k) = file[k]
  BY DEF WordAt
<1>4. ASSUME NEW j \in 1 .. 8 + W, Have(i + j - 1)  PROVE WordAt(i + j - 1) = w[j]
  <2>1. j \in 1 .. Len(w)
    BY <1>1
  <2>2. i + j - 1 <= disk /\ i + j - 1 \in Int
    BY <1>2, <1>4 DEF Have
  <2>3. file[i + j - 1] = w[j]
    BY <2>1, <2>2 DEF Holds
  <2> QED
    BY <2>2, <2>3, <1>3
<1>5. Have(i) => WordAt(i) = EPB
  <2>1. 1 \in 1 .. 8 + W /\ i + 1 - 1 = i
    BY <1>2
  <2> QED
    BY <2>1, <1>1, <1>4
<1>6. Have(i + 1) => total = 32 + 4 * W
  <2>1. 2 \in 1 .. 8 + W /\ i + 2 - 1 = i + 1
    BY <1>2
  <2>2. Have(i + 1) => WordAt(i + 1) = w[2]
    BY <2>1, <1>4
  <2> QED
    BY <2>2, <1>1, <1>2
<1>7. MaxPacket \in Nat
  BY SizeAssumption
<1> HIDE DEF w, W, total
<1>8. Have(i + 1) => i + 2 - 2 + total \div 4 - 1 = i + 7 + W
  BY <1>2, <1>6
<1>9. Whole(i, w) <=> Have(i + 7 + W)
  BY <1>1, <1>2 DEF Whole, Have
<1>10. \A k \in Nat : k <= i + 7 + W /\ Have(i + 7 + W) => Have(k)
  BY <1>2 DEF Have
<1>11. Have(i) /\ Have(i + 1) => ReadBlock(i, known) = ReadEpb(i + 2, total, known)
  <2>1. Have(i + 1) => ~(total < 12)
    BY <1>2, <1>6
  <2> SUFFICES ASSUME Have(i), Have(i + 1)  PROVE ReadBlock(i, known) = ReadEpb(i + 2, total, known)
    OBVIOUS
  <2>2. WordAt(i) = EPB /\ ~(WordAt(i + 1) < 12)
    BY <2>1, <1>5 DEF total
  <2> QED
    BY <2>2 DEF ReadBlock, total, EPB, IDB
<1>12. ~Have(i) => ReadBlock(i, known) = [st |-> "eof"]
  BY DEF ReadBlock
<1>13. Have(i) /\ ~Have(i + 1) => ReadBlock(i, known) = Bad
  BY DEF ReadBlock
<1>14. Have(i + 1) /\ ~Have(i + 7 + W) => ReadEpb(i + 2, total, known) = Bad
  BY <1>8 DEF ReadEpb, Ends
<1>15. Have(i + 1) => Have(i)
  BY DEF Have
<1>16. ASSUME Have(i + 7 + W)
       PROVE  /\ WordAt(i + 2) = id /\ WordAt(i + 3) * Half + WordAt(i + 4) = t
              /\ WordAt(i + 5) = p.len /\ WordAt(i + 6) = p.len
              /\ WordAt(i + 7 + W) = total
              /\ Have(i) /\ Have(i + 1) /\ Have(i + 6) /\ Have(i + 6 + W)
  <2>1. /\ Have(i) /\ Have(i + 1) /\ Have(i + 2) /\ Have(i + 3) /\ Have(i + 4) /\ Have(i + 5) /\ Have(i + 6)
        /\ Have(i + 6 + W)
    BY <1>2, <1>10, <1>16
  <2>2. \A k \in 0 .. 7 + W : Have(i + k) => WordAt(i + k) = w[k + 1]
    <3> SUFFICES ASSUME NEW k \in 0 .. 7 + W, Have(i + k)  PROVE WordAt(i + k) = w[k + 1]
      OBVIOUS
    <3>1. k + 1 \in 1 .. 8 + W /\ i + (k + 1) - 1 = i + k
      BY <1>2
    <3> QED
      BY <3>1, <1>4 DEF W, w
  <2>3. WordAt(i + 2) = w[3] /\ WordAt(i + 3) = w[4] /\ WordAt(i + 4) = w[5]
    BY <2>1, <2>2, <1>2
  <2>4. WordAt(i + 5) = w[6] /\ WordAt(i + 6) = w[7]
    BY <2>1, <2>2, <1>2
  <2>5. WordAt(i + 7 + W) = w[8 + W]
    <3>1. 7 + W \in 0 .. 7 + W /\ i + (7 + W) = i + 7 + W /\ (7 + W) + 1 = 8 + W
      BY <1>2
    <3> QED
      BY <3>1, <2>2, <1>16
  <2>6. w[8 + W] = 32 + 4 * W
    BY <1>1, <1>2
  <2>7. WordAt(i + 7 + W) = total
    BY <2>1, <2>5, <2>6, <1>6
  <2> QED
    BY <2>1, <2>3, <2>4, <2>7, <1>1
<1>17. Have(i + 7 + W) /\ p.len > MaxPacket => ReadEpb(i + 2, total, known) = Bad
  <2> SUFFICES ASSUME Have(i + 7 + W), p.len > MaxPacket  PROVE ReadEpb(i + 2, total, known) = Bad
    OBVIOUS
  <2>1. WordAt(i + 2 + 3) = p.len
    BY <1>16
  <2> QED
    BY <2>1 DEF ReadEpb
<1>18. ASSUME Have(i + 7 + W), p.len <= MaxPacket
       PROVE  ReadEpb(i + 2, total, known) = Read(i + Len(w), known, <<Packet(id, t, p.len, p)>>)
  <2>1. /\ WordAt(i + 2) = id /\ WordAt(i + 2 + 1) * Half + WordAt(i + 2 + 2) = t
        /\ WordAt(i + 2 + 3) = p.len /\ WordAt(i + 2 + 4) = p.len
        /\ Have(i + 2 + 4) /\ Have(i + 2 + 5 + W - 1)
        /\ i + 2 - 2 + total \div 4 - 1 = i + 7 + W
    BY <1>2, <1>8, <1>16, <1>18
  <2>2. Ends(i + 7 + W, total)
    BY <1>2, <1>6, <1>16, <1>18 DEF Ends
  <2>3. ~(total - 12 < 20) /\ ~(4 * W > total - 32) /\ ~(p.len < 0) /\ ~(p.len > MaxPacket)
    BY <1>2, <1>6, <1>7, <1>16, <1>18
  <2>4. SubSeq(file, i + 2 + 5, i + 2 + 5 + W - 1) = p.data
    <3>1. \A j \in 1 .. W : file[i + 7 + j - 1] = p.data[j]
      <4> TAKE j \in 1 .. W
      <4>1. 7 + j \in 1 .. 8 + W /\ i + (7 + j) - 1 = i + 7 + j - 1 /\ i + (7 + j) - 1 \in Nat
        BY <1>2
      <4>2. Have(i + (7 + j) - 1)
        BY <4>1, <1>2, <1>10, <1>18
      <4>3. WordAt(i + (7 + j) - 1) = w[7 + j]
        BY <4>1, <4>2, <1>4 DEF W, w
      <4>4. w[7 + j] = p.data[j]
        BY <1>1
      <4>5. file[i + (7 + j) - 1] = p.data[j]
        BY <4>1, <4>3, <4>4, <1>3
      <4> QED
        BY <4>1, <4>5
    <3>2. p.data = [j \in 1 .. W |-> p.data[j]]
      BY <1>2
    <3>3. SubSeq(file, i + 7, i + 6 + W) = [j \in 1 .. W |-> file[i + 7 + j - 1]]
      BY <1>2 DEF SubSeq
    <3>4. i + 2 + 5 = i + 7 /\ i + 2 + 5 + W - 1 = i + 6 + W
      BY <1>2
    <3> QED
      BY <3>1, <3>2, <3>3, <3>4
  <2>5. i + 7 + W + 1 = i + Len(w)
    BY <1>1, <1>2
  <2>6. Words(p.len) = W
    BY DEF W
  <2>7. ReadEpb(i + 2, total, known) =
          Read(i + 7 + W + 1, known,
               << Packet(WordAt(i + 2), WordAt(i + 2 + 1) * Half + WordAt(i + 2 + 2), WordAt(i + 2 + 4),
                         [len |-> p.len, data |-> SubSeq(file, i + 2 + 5, i + 2 + 5 + W - 1)]) >>)
    <3> DEFINE c == WordAt(i + 2 + 3)
               end == i + 2 - 2 + total \div 4 - 1
    <3>1. c = p.len /\ Words(c) = W /\ end = i + 7 + W
      BY <2>1, <2>6
    <3>2. ~(\/ total - 12 < 20 \/ ~Have(i + 2 + 4)
            \/ c < 0 \/ c > MaxPacket \/ 4 * Words(c) > total - 32
            \/ ~Have(i + 2 + 5 + Words(c) - 1) \/ ~Ends(end, total))
      BY <2>1, <2>2, <2>3, <3>1
    <3>3. ReadEpb(i + 2, total, known) =
            Read(end + 1, known,
                 << Packet(WordAt(i + 2), WordAt(i + 2 + 1) * Half + WordAt(i + 2 + 2), WordAt(i + 2 + 4),
                           [len |-> c, data |-> SubSeq(file, i + 2 + 5, i + 2 + 5 + Words(c) - 1)]) >>)
      BY <3>2 DEF ReadEpb
    <3> QED
      BY <3>1, <3>3
  <2>8. Packet(WordAt(i + 2), WordAt(i + 2 + 1) * Half + WordAt(i + 2 + 2), WordAt(i + 2 + 4),
               [len |-> p.len, data |-> SubSeq(file, i + 2 + 5, i + 2 + 5 + W - 1)])
          = Packet(id, t, p.len, p)
    BY <2>1, <2>4 DEF Packet
  <2> QED
    BY <2>5, <2>7, <2>8
<1>19. Whole(i, w) /\ p.len <= MaxPacket =>
         ReadBlock(i, known) = Read(i + Len(w), known, <<Packet(id, t, p.len, p)>>)
  BY <1>9, <1>11, <1>16, <1>18
<1>20. Whole(i, w) /\ p.len > MaxPacket => ReadBlock(i, known).st \in {"eof", "error"}
  BY <1>9, <1>11, <1>16, <1>17 DEF Bad
<1>21. ~Whole(i, w) => ReadBlock(i, known).st \in {"eof", "error"}
  BY <1>9, <1>11, <1>12, <1>13, <1>14 DEF Bad
<1> QED
  BY <1>5, <1>19, <1>20, <1>21 DEF w

-----------------------------------------------------------------------------
(* The options of an interface                                             *)

LEMMA LeastOf ==
  ASSUME NEW T, T \subseteq Nat, T # {}
  PROVE  \E m \in T : \A k \in T : m <= k
<1> DEFINE R == OpToRel(<, Nat)
<1>1. PICK m \in T : \A k \in T : ~ (<<k, m>> \in R)
  BY NatLessThanWellFounded, WFMin
<1>2. \A x \in Nat, y \in Nat : y < x => <<y, x>> \in R
  BY DEF OpToRel
<1> HIDE DEF R
<1>3. \A k \in T : ~ (k < m)
  BY <1>1, <1>2
<1> QED
  BY <1>3

(* An option depends on later ones only.                                   *)
LEMMA LaterOptions ==
  ASSUME file \in Seq(Int), disk \in 0 .. Len(file), ~swapped,
         NEW i \in Nat \ {0}, NEW end \in Nat, i <= end, NEW g, NEW h,
         \A j \in i + 1 .. end : g[j] = h[j]
  PROVE  OptionName(i, end, g) = OptionName(i, end, h)
<1>1. Have(i) => WordAt(i) \in Int
  BY DEF Have, WordAt
<1>2. Have(i) => OptionLen(i) \in Nat
  BY <1>1, SizeAssumption DEF OptionLen
<1>3. Have(i) => NextOption(i) \in Nat /\ NextOption(i) > i
  <2>1. Have(i) => Words(OptionLen(i)) \in Nat
    BY <1>2, WordsOf
  <2> QED
    BY <2>1 DEF NextOption
<1>4. Have(i) /\ NextOption(i) <= end => g[NextOption(i)] = h[NextOption(i)]
  BY <1>3
<1>5. CASE Have(i) /\ NextOption(i) <= end
  BY <1>4, <1>5 DEF OptionName
<1>6. CASE ~(Have(i) /\ ~(NextOption(i) > end))
  BY <1>6 DEF OptionName
<1> QED
  BY <1>3, <1>5, <1>6

(* The recursion of IfName ends: it is a function of the positions.        *)
LEMMA IfNameDef ==
  ASSUME file \in Seq(Int), disk \in 0 .. Len(file), ~swapped,
         NEW first \in Nat \ {0}, NEW end \in Nat, first <= end
  PROVE  \E name : /\ IfName(first, end) = name[first]
                   /\ \A i \in first .. end : name[i] = OptionName(i, end, name)
<1> DEFINE F(a, g) == [i \in a .. end |-> OptionName(i, end, g)]
           T == {n \in 0 .. end - first : ~ \E g : g = F(end - n, g)}
<1>1. T = {}
  <2> SUFFICES ASSUME T # {}  PROVE FALSE
    OBVIOUS
  <2>1. PICK m \in T : \A k \in T : m <= k
    <3>1. T \subseteq Nat
      OBVIOUS
    <3> HIDE DEF T
    <3> QED
      BY <3>1, LeastOf
  <2>2. m \in 0 .. end - first /\ ~ \E g : g = F(end - m, g)
    OBVIOUS
  <2>3. \E g : \A j \in end - m + 1 .. end : g[j] = OptionName(j, end, g)
    <3>1. CASE m = 0
      <4>1. end - m + 1 .. end = {}
        BY <3>1
      <4> QED
        BY <4>1
    <3>2. CASE m # 0
      <4>1. m - 1 \in 0 .. end - first /\ m - 1 \notin T /\ end - (m - 1) = end - m + 1
        <5>1. m \in Nat /\ m - 1 \in Nat /\ m - 1 < m
          BY <2>2, <3>2
        <5>2. m - 1 \notin T
          <6> HIDE DEF T
          <6> QED
            BY <5>1, <2>1
        <5> QED
          BY <5>1, <5>2, <2>2
      <4>2. PICK g : g = F(end - (m - 1), g)
        BY <4>1
      <4> QED
        BY <4>1, <4>2
    <3> QED
      BY <3>1, <3>2
  <2>4. PICK g : \A j \in end - m + 1 .. end : g[j] = OptionName(j, end, g)
    BY <2>3
  <2> DEFINE h == F(end - m, g)
  <2>5. \A j \in end - m + 1 .. end : h[j] = g[j]
    BY <2>2, <2>4
  <2>6. ASSUME NEW i \in end - m .. end  PROVE OptionName(i, end, g) = OptionName(i, end, h)
    <3>1. i \in Nat \ {0} /\ i <= end /\ \A j \in i + 1 .. end : j \in end - m + 1 .. end
      BY <2>2
    <3>2. \A j \in i + 1 .. end : g[j] = h[j]
      BY <3>1, <2>5
    <3> HIDE DEF h
    <3> QED
      BY <3>1, <3>2, LaterOptions
  <2>7. h = F(end - m, h)
    BY <2>6
  <2> QED
    BY <2>2, <2>7
<1>2. \E g : g = F(first, g)
  <2>1. end - first \in 0 .. end - first /\ end - (end - first) = first
    OBVIOUS
  <2> QED
    BY <1>1, <2>1, ZenonT(30)
<1> DEFINE name == CHOOSE g : g = F(first, g)
<1>3. name = F(first, name)
  BY <1>2
<1>4. IfName(first, end) = name[first]
  BY DEF IfName
<1> HIDE DEF name
<1>5. \A i \in first .. end : name[i] = OptionName(i, end, name)
  BY <1>3
<1> QED
  BY <1>4, <1>5

LEMMA CodeAndLength ==
  ASSUME NEW l \in Nat, l < U16
  PROVE  (OptIfName * U16 + l) \div U16 = OptIfName /\ (OptIfName * U16 + l) % U16 = l
<1>1. U16 \in Nat /\ U16 > 0
  BY SizeAssumption
<1> QED
  BY <1>1 DEF OptIfName

(* Both shorten a name in the same way.                                    *)
LEMMA NamesShortened ==
  ASSUME NEW name \in Names
  PROVE  LET l == Min({name.len, NameMax})
             k == Min({name.len, NameCap})
         IN /\ name.len \in Nat /\ l \in Nat /\ l < U16 /\ k \in Nat /\ k <= l
            /\ Min({l, NameCap}) = k
            /\ Words(l) \in Nat /\ Words(k) \in Nat /\ Words(k) <= Words(l)
            /\ Shortened(name, NameCap) = [len |-> k, data |-> [j \in 1 .. Words(k) |-> name.data[j]]]
            /\ name.len = 0 => Shortened(name, NameCap) = [len |-> 0, data |-> <<>>]
<1> DEFINE l == Min({name.len, NameMax})
           k == Min({name.len, NameCap})
<1>1. name.len \in Nat /\ name.data \in Seq(Int) /\ Len(name.data) = Words(name.len)
  BY DataAssumption
<1>2. NameMax \in Nat /\ NameCap \in Nat /\ NameCap <= NameMax /\ NameMax < U16 /\ U16 \in Nat
  BY SizeAssumption
<1>3. l = IF name.len <= NameMax THEN name.len ELSE NameMax
  BY <1>1, <1>2, MinOfTwo
<1>4. k = IF name.len <= NameCap THEN name.len ELSE NameCap
  BY <1>1, <1>2, MinOfTwo
<1>5. Shortened(name, NameCap) = [len |-> k, data |-> SubSeq(name.data, 1, Words(k))]
  BY DEF Shortened
<1> HIDE DEF l, k
<1>6. l \in Nat /\ l < U16 /\ k \in Nat /\ k <= l /\ k <= name.len
  BY <1>1, <1>2, <1>3, <1>4
<1>7. Min({l, NameCap}) = k
  BY <1>1, <1>2, <1>3, <1>4, <1>6, MinOfTwo
<1>8. Words(l) \in Nat /\ Words(k) \in Nat /\ Words(k) <= Words(l) /\ Words(k) <= Words(name.len)
  BY <1>1, <1>6, WordsOf
<1>9. SubSeq(name.data, 1, Words(k)) = [j \in 1 .. Words(k) |-> name.data[j]]
  <2>1. \A j \in 1 .. Words(k) : 1 + j - 1 = j
    BY <1>8
  <2>2. SubSeq(name.data, 1, Words(k)) = [j \in 1 .. Words(k) |-> name.data[1 + j - 1]]
    BY <1>8 DEF SubSeq
  <2> QED
    BY <2>1, <2>2
<1>10. name.len = 0 => k = 0 /\ [j \in 1 .. Words(k) |-> name.data[j]] = <<>>
  BY <1>2, <1>4, WordsOf
<1> QED
  BY <1>1, <1>5, <1>6, <1>7, <1>8, <1>9, <1>10 DEF l, k

(* What the reader finds at the places of a block.                         *)
LEMMA WordsThere ==
  ASSUME ~swapped, disk \in Nat, NEW i \in Nat, NEW w, Len(w) \in Nat, Holds(i, w)
  PROVE  \A k \in 0 .. Len(w) - 1 : Have(i + k) => WordAt(i + k) = w[k + 1] /\ file[i + k] = w[k + 1]
<1> SUFFICES ASSUME NEW k \in 0 .. Len(w) - 1, Have(i + k)
             PROVE  WordAt(i + k) = w[k + 1] /\ file[i + k] = w[k + 1]
  OBVIOUS
<1>1. k + 1 \in 1 .. Len(w) /\ i + (k + 1) - 1 = i + k /\ i + k <= disk
  BY DEF Have
<1>2. file[i + k] = w[k + 1]
  BY <1>1 DEF Holds
<1> QED
  BY <1>2 DEF WordAt

(* The name of an interface is found among its options.                    *)
LEMMA ReadsName ==
  ASSUME file \in Seq(Int), disk \in 0 .. Len(file), ~swapped,
         NEW i \in Nat \ {0}, NEW name \in Names, name.len # 0,
         Holds(i, Idb(1, 0, name)), Whole(i, Idb(1, 0, name))
  PROVE  IfName(i + 4, i + Len(Idb(1, 0, name)) - 1) = Shortened(name, NameCap)
<1> DEFINE w == Idb(1, 0, name)
           l == Min({name.len, NameMax})
           k == Min({name.len, NameCap})
           W == Words(l)
           first == i + 4
           mark == i + 5 + W
           end == i + 6 + W
<1>1. /\ Len(w) = 7 + W /\ w[5] = OptIfName * U16 + l /\ w[6 + W] = 0
      /\ \A j \in 1 .. W : w[5 + j] = name.data[j]
  BY IdbWords
<1>2. /\ l \in Nat /\ l < U16 /\ k \in Nat /\ k <= l /\ Min({l, NameCap}) = k
      /\ W \in Nat /\ Words(k) \in Nat /\ Words(k) <= W
      /\ Shortened(name, NameCap) = [len |-> k, data |-> [j \in 1 .. Words(k) |-> name.data[j]]]
  BY NamesShortened
<1>3. \A j \in 0 .. 6 + W : Have(i + j) => WordAt(i + j) = w[j + 1] /\ file[i + j] = w[j + 1]
  <2>1. Len(w) \in Nat /\ Len(w) - 1 = 6 + W /\ disk \in Nat
    BY <1>1, <1>2
  <2> HIDE DEF w, W
  <2>2. \A j \in 0 .. Len(w) - 1 : Have(i + j) => WordAt(i + j) = w[j + 1] /\ file[i + j] = w[j + 1]
    BY <2>1, WordsThere DEF w
  <2> QED
    BY <2>1, <2>2
<1> HIDE DEF w, l, k, W
<1>4. i + Len(w) - 1 = end
  BY <1>1, <1>2
<1>5. \A j \in 0 .. 6 + W : Have(i + j)
  BY <1>1, <1>2 DEF Whole, Have, w
<1>6. WordAt(first) = OptIfName * U16 + l
  <2>1. 4 \in 0 .. 6 + W
    BY <1>2
  <2> QED
    BY <2>1, <1>1, <1>3, <1>5
<1>7. WordAt(mark) = 0
  <2>1. 5 + W \in 0 .. 6 + W /\ i + (5 + W) = mark /\ (5 + W) + 1 = 6 + W
    BY <1>2
  <2> QED
    BY <2>1, <1>1, <1>3, <1>5
<1>8. OptionCode(first) = OptIfName /\ OptionLen(first) = l /\ NextOption(first) = mark
  <2>1. OptionCode(first) = OptIfName /\ OptionLen(first) = l
    BY <1>2, <1>6, CodeAndLength DEF OptionCode, OptionLen
  <2>2. first + 1 + W = mark
    BY <1>2
  <2> QED
    BY <2>1, <2>2 DEF NextOption, W
<1>9. OptionCode(mark) = 0 /\ NextOption(mark) = end
  <2>1. 0 \div U16 = 0 /\ 0 % U16 = 0
    BY SizeAssumption
  <2>2. OptionCode(mark) = 0 /\ OptionLen(mark) = 0
    BY <2>1, <1>7 DEF OptionCode, OptionLen
  <2>3. mark + 1 + 0 = end
    BY <1>2
  <2> QED
    BY <2>2, <2>3, WordsOf DEF NextOption
<1>10. /\ first \in Nat \ {0} /\ end \in Nat /\ first < end /\ mark \in first .. end
       /\ mark < end /\ mark \in Nat /\ first \in first .. end
  BY <1>2
<1>11. Have(first) /\ Have(mark)
  <2>1. 4 \in 0 .. 6 + W /\ 5 + W \in 0 .. 6 + W /\ i + (5 + W) = mark
    BY <1>2
  <2> QED
    BY <2>1, <1>5
<1>12. PICK f : IfName(first, end) = f[first] /\ \A j \in first .. end : f[j] = OptionName(j, end, f)
  BY <1>10, IfNameDef, SMTT(30)
<1> HIDE DEF first, mark, end
<1>13. f[mark] = NoName
  <2>1. f[mark] = OptionName(mark, end, f) /\ mark # end /\ ~(end > end)
    BY <1>10, <1>12
  <2> QED
    BY <2>1, <1>9, <1>11 DEF OptionName
<1>14. NoName # Overrun
  BY DEF NoName, Overrun
<1>15. f[first] = NameAt(first)
  <2>1. f[first] = OptionName(first, end, f) /\ first # end /\ ~(mark > end) /\ OptIfName # 0
    BY <1>10, <1>12 DEF OptIfName
  <2> QED
    BY <2>1, <1>8, <1>11, <1>13, <1>14 DEF OptionName
<1>16. NameAt(first) = [len |-> k, data |-> SubSeq(file, first + 1, first + Words(k))]
  <2>1. 4 + Words(k) \in 0 .. 6 + W /\ i + (4 + Words(k)) = first + Words(k)
    BY <1>2 DEF first
  <2>2. Have(first + Words(k))
    BY <2>1, <1>5
  <2> QED
    BY <2>2, <1>2, <1>8 DEF NameAt
<1>17. SubSeq(file, first + 1, first + Words(k)) = [j \in 1 .. Words(k) |-> name.data[j]]
  <2>1. SubSeq(file, first + 1, first + Words(k)) = [j \in 1 .. Words(k) |-> file[first + 1 + j - 1]]
    <3>1. first + Words(k) - (first + 1) + 1 = Words(k)
      BY <1>2, <1>10
    <3> QED
      BY <3>1, <1>2, <1>10, SMTT(30) DEF SubSeq
  <2>2. ASSUME NEW j \in 1 .. Words(k)  PROVE file[first + 1 + j - 1] = name.data[j]
    <3>1. 4 + j \in 0 .. 6 + W /\ i + (4 + j) = first + 1 + j - 1 /\ (4 + j) + 1 = 5 + j /\ j \in 1 .. W
      BY <1>2 DEF first
    <3>2. file[i + (4 + j)] = w[(4 + j) + 1]
      BY <3>1, <1>3, <1>5
    <3> QED
      BY <3>1, <3>2, <1>1
  <2> QED
    BY <2>1, <2>2
<1> QED
  BY <1>2, <1>4, <1>12, <1>15, <1>16, <1>17 DEF w, first

(* An interface's block is read when all of it is there.                   *)
LEMMA ReadsIdb ==
  ASSUME file \in Seq(Int), disk \in 0 .. Len(file), ~swapped,
         NEW i \in Nat \ {0}, NEW known, NEW name \in Names, Holds(i, Idb(1, 0, name))
  PROVE  LET w == Idb(1, 0, name)
         IN /\ Have(i) => WordAt(i) = IDB
            /\ Whole(i, w) =>
                 ReadBlock(i, known)
                   = Read(i + Len(w), Append(known, Interface(1, 0, Shortened(name, NameCap))), <<>>)
            /\ ~Whole(i, w) => ReadBlock(i, known).st \in {"eof", "error"}
<1> DEFINE w == Idb(1, 0, name)
           l == Min({name.len, NameMax})
           total == WordAt(i + 1)
           last == i + Len(w) - 1
<1>1. /\ w \in Seq(Int) /\ w[1] = IDB /\ w[2] = 4 * Len(w) /\ w[Len(w)] = 4 * Len(w)
      /\ w[3] = 1 /\ w[4] = 0
      /\ name.len = 0 => Len(w) = 5
      /\ name.len # 0 => Len(w) = 7 + Words(l)
  BY IdbWords
<1>2. /\ Words(l) \in Nat /\ name.len \in Nat
      /\ name.len = 0 => Shortened(name, NameCap) = [len |-> 0, data |-> <<>>]
      /\ Shortened(name, NameCap).len \in Nat
  <2> DEFINE k == Min({name.len, NameCap})
             d == [j \in 1 .. Words(k) |-> name.data[j]]
  <2>1. /\ Words(l) \in Nat /\ name.len \in Nat /\ k \in Nat
        /\ name.len = 0 => Shortened(name, NameCap) = [len |-> 0, data |-> <<>>]
        /\ Shortened(name, NameCap) = [len |-> k, data |-> d]
    BY NamesShortened
  <2> HIDE DEF k, d
  <2> QED
    BY <2>1
<1> HIDE DEF w, l
<1>3. Len(w) \in Nat /\ Len(w) >= 5
  BY <1>1, <1>2, SMTT(30)
<1>4. \A k \in 0 .. Len(w) - 1 : Have(i + k) => WordAt(i + k) = w[k + 1] /\ file[i + k] = w[k + 1]
  BY <1>3, WordsThere DEF w
<1>5. Have(i) => WordAt(i) = IDB
  <2>1. 0 \in 0 .. Len(w) - 1 /\ i + 0 = i /\ 0 + 1 = 1
    BY <1>3
  <2>2. Have(i) => WordAt(i) = w[1]
    BY <2>1, <1>4
  <2> QED
    BY <2>2, <1>1
<1>6. Have(i + 1) => total = 4 * Len(w)
  <2>1. 1 \in 0 .. Len(w) - 1 /\ 1 + 1 = 2
    BY <1>3
  <2>2. Have(i + 1) => WordAt(i + 1) = w[2]
    BY <2>1, <1>4
  <2> QED
    BY <2>2, <1>1
<1> HIDE DEF total
<1>7. Have(i + 1) => i + 2 - 2 + total \div 4 - 1 = last /\ ~(total < 12) /\ ~(total - 12 < 8)
  BY <1>3, <1>6
<1>8. Whole(i, w) <=> Have(last)
  BY <1>3 DEF Whole, Have
<1>9. Have(last) => \A k \in 0 .. Len(w) - 1 : Have(i + k)
  BY <1>3 DEF Have
<1>10. Have(i) /\ Have(i + 1) => ReadBlock(i, known) = ReadIdb(i + 2, total, known)
  <2> SUFFICES ASSUME Have(i), Have(i + 1)  PROVE ReadBlock(i, known) = ReadIdb(i + 2, total, known)
    OBVIOUS
  <2>1. WordAt(i) = IDB /\ ~(WordAt(i + 1) < 12)
    BY <1>5, <1>7 DEF total
  <2> QED
    BY <2>1 DEF ReadBlock, total, EPB, IDB
<1>11. ~Have(i) => ReadBlock(i, known) = [st |-> "eof"]
  BY DEF ReadBlock
<1>12. Have(i) /\ ~Have(i + 1) => ReadBlock(i, known) = Bad
  BY DEF ReadBlock
<1>13. Have(i + 1) /\ ~Have(last) => ReadIdb(i + 2, total, known) = Bad
  BY <1>7 DEF ReadIdb, Ends
<1>14. ASSUME Have(last)
       PROVE  ReadIdb(i + 2, total, known)
                = Read(i + Len(w), Append(known, Interface(1, 0, Shortened(name, NameCap))), <<>>)
  <2>1. 1 \in 0 .. Len(w) - 1 /\ 2 \in 0 .. Len(w) - 1 /\ 3 \in 0 .. Len(w) - 1
        /\ Len(w) - 1 \in 0 .. Len(w) - 1 /\ i + (Len(w) - 1) = last /\ (Len(w) - 1) + 1 = Len(w)
        /\ i + 2 + 1 = i + 3 /\ i + 2 + 2 = i + 4 /\ last + 1 = i + Len(w)
    BY <1>3
  <2>2. Have(i + 1) /\ Have(i + 2 + 1)
    BY <2>1, <1>9, <1>14
  <2>3. WordAt(i + 2) = 1 /\ WordAt(i + 2 + 1) = 0
    BY <2>1, <1>1, <1>4, <1>9, <1>14
  <2>4. WordAt(last) = total
    BY <2>1, <2>2, <1>1, <1>4, <1>6, <1>14
  <2>5. Ends(last, total)
    BY <2>2, <2>4, <1>3, <1>6, <1>14 DEF Ends
  <2>6. name.len # 0 => IfName(i + 4, last) = Shortened(name, NameCap)
    BY <1>8, <1>14, ReadsName DEF w
  <2>7. name.len = 0 => IfName(i + 4, last) = NoName
    <3> SUFFICES ASSUME name.len = 0  PROVE IfName(i + 4, last) = NoName
      OBVIOUS
    <3>1. i + 4 \in Nat \ {0} /\ last = i + 4
      <4>1. Len(w) = 5
        BY <1>1
      <4> QED
        BY <4>1
    <3> HIDE DEF last
    <3>2. PICK f : IfName(i + 4, last) = f[i + 4] /\ \A j \in i + 4 .. last : f[j] = OptionName(j, last, f)
      BY <3>1, IfNameDef
    <3>3. f[i + 4] = OptionName(i + 4, last, f)
      BY <3>1, <3>2
    <3> QED
      BY <3>1, <3>2, <3>3 DEF OptionName
  <2>8. NoName # Overrun
    BY DEF NoName, Overrun
  <2>9. Shortened(name, NameCap) # NoName /\ Shortened(name, NameCap) # Overrun
    BY <1>2 DEF NoName, Overrun
  <2> DEFINE found == IfName(i + 2 + 2, i + 2 - 2 + total \div 4 - 1)
  <2>10. /\ found # Overrun
         /\ (IF found = NoName THEN [len |-> 0, data |-> <<>>] ELSE found) = Shortened(name, NameCap)
    <3>1. found = IfName(i + 4, last)
      BY <2>1, <2>2, <1>7
    <3> HIDE DEF found, last
    <3>2. CASE name.len = 0
      BY <3>1, <3>2, <2>7, <2>8, <1>2
    <3>3. CASE name.len # 0
      BY <3>1, <3>3, <2>6, <2>9
    <3> QED
      BY <3>2, <3>3
  <2>11. Ends(i + 2 - 2 + total \div 4 - 1, total)
    BY <2>2, <2>5, <1>7
  <2>12. ReadIdb(i + 2, total, known)
           = Read(i + 2 - 2 + total \div 4 - 1 + 1,
                  Append(known, Interface(WordAt(i + 2), WordAt(i + 2 + 1),
                                          IF found = NoName THEN [len |-> 0, data |-> <<>>] ELSE found)),
                  <<>>)
    BY <2>2, <2>10, <2>11, <1>7 DEF ReadIdb
  <2> HIDE DEF found
  <2> QED
    BY <2>1, <2>2, <2>3, <2>10, <2>12, <1>7
<1>15. Have(last) => Have(i) /\ Have(i + 1)
  <2>1. 0 \in 0 .. Len(w) - 1 /\ 1 \in 0 .. Len(w) - 1 /\ i + 0 = i
    BY <1>3
  <2> QED
    BY <2>1, <1>9
<1>16. Whole(i, w) =>
         ReadBlock(i, known)
           = Read(i + Len(w), Append(known, Interface(1, 0, Shortened(name, NameCap))), <<>>)
  BY <1>8, <1>10, <1>14, <1>15
<1>17. ~Whole(i, w) => ReadBlock(i, known).st \in {"eof", "error"}
  BY <1>8, <1>10, <1>11, <1>12, <1>13 DEF Bad
<1> QED
  BY <1>5, <1>16, <1>17 DEF w

-----------------------------------------------------------------------------
(* Reading the file                                                        *)

LEMMA ShbWords ==
  /\ Shb \in Seq(Int) /\ Len(Shb) = 7
  /\ Shb[1] = SHB /\ Shb[2] = 28 /\ Shb[3] = Magic /\ Shb[7] = 28
<1> DEFINE body == <<Magic, 1, 0, 0>>
<1>1. body \in Seq(Int) /\ Len(body) = 4 /\ body[1] = Magic /\ SHB \in Int
  BY DEF Magic, SHB
<1> HIDE DEF body
<1>2. LET b == Block(SHB, body)
      IN /\ b \in Seq(Int) /\ Len(b) = Len(body) + 3
         /\ b[1] = SHB /\ b[2] = 4 * Len(b) /\ b[Len(b)] = 4 * Len(b)
         /\ \A k \in 3 .. Len(b) - 1 : b[k] = body[k - 2]
  BY <1>1, BlockWords
<1>3. Shb = Block(SHB, body)
  BY DEF Shb, body
<1>4. Shb \in Seq(Int) /\ Len(Shb) = 7
  BY <1>1, <1>2, <1>3
<1>5. Shb[3] = Magic
  <2>1. ASSUME NEW k \in 3 .. 6, NEW j \in Int, j = k - 2  PROVE Shb[k] = body[j]
    <3>1. Shb[k] = body[k - 2]
      <4>1. k \in 3 .. Len(Shb) - 1
        BY <1>4
      <4> QED
        BY <4>1, <1>2, <1>3
    <3> QED
      BY <3>1, <2>1
  <2> QED
    BY <2>1, <1>1
<1>6. Shb[1] = SHB /\ Shb[2] = 4 * Len(Shb) /\ Shb[Len(Shb)] = 4 * Len(Shb)
  BY <1>2, <1>3
<1> QED
  BY <1>4, <1>5, <1>6

LEMMA EntryTypes ==
  ASSUME TypeInv
  PROVE  /\ Len(made) \in Nat /\ DOMAIN made = 1 .. Len(made)
         /\ made # <<>> => Len(made) >= 1
         /\ \A n \in DOMAIN made :
              /\ made[n].words \in Seq(Int) /\ made[n].next \in Nat
              /\ made[n].ifs \in Nat /\ made[n].pks \in Nat
              /\ Len(made[n].words) \in Nat /\ DOMAIN made[n].words = 1 .. Len(made[n].words)
<1>1. made \in Seq(Entry)
  BY DEF TypeInv
<1>2. Len(made) \in Nat /\ DOMAIN made = 1 .. Len(made) /\ (made # <<>> => Len(made) >= 1)
  BY <1>1
<1>3. \A n \in DOMAIN made : made[n] \in Entry
  BY <1>1, <1>2, ElementOfSeq
<1>4. \A e \in Entry : e.words \in Seq(Int) /\ e.next \in Nat /\ e.ifs \in Nat /\ e.pks \in Nat
  BY DEF Entry
<1>5. \A n \in DOMAIN made : made[n].words \in Seq(Int)
  BY <1>3, <1>4
<1> QED
  BY <1>2, <1>3, <1>4, <1>5

(* The section header is the first thing in the file.                      *)
LEMMA HeaderThere ==
  ASSUME TypeInv, ChainInv, FileInv
  PROVE  /\ ~swapped
         /\ disk >= 7 => file[1] = SHB /\ file[3] = Magic /\ file[7] = file[2]
         /\ disk >= 7 => made # <<>> /\ made[1].next = 8 /\ made[1].ifs = 0 /\ made[1].pks = 0
         /\ made # <<>> /\ ~lost => Len(file) >= 7
<1>1. made # <<>> => /\ 1 \in DOMAIN made /\ Len(made) \in DOMAIN made
                     /\ made[1] = Made(Shb, 8, 0, 0) /\ made[1].words = Shb /\ made[1].next = 8
                     /\ made[1].ifs = 0 /\ made[1].pks = 0
  BY ShbWords DEF TypeInv, ChainInv, Made
<1>2. made # <<>> => \A j \in 1 .. 7 : j <= Len(file) => file[j] = Shb[j]
  <2> SUFFICES ASSUME made # <<>>, NEW j \in 1 .. 7, j <= Len(file)  PROVE file[j] = Shb[j]
    OBVIOUS
  <2>1. Start(1) = 0
    <3>1. made[1].next = 8 /\ Len(made[1].words) = 7
      BY <1>1, ShbWords
    <3> QED
      BY <3>1 DEF Start
  <2>2. j \in DOMAIN made[1].words /\ Start(1) + j = j
    BY <1>1, <2>1, ShbWords
  <2> QED
    BY <1>1, <2>2 DEF FileInv
<1>3. disk \in Nat /\ Len(file) \in Nat /\ disk <= Len(file)
  BY DEF TypeInv
<1>4. disk >= 3 => made # <<>>
  BY <1>3 DEF TypeInv
<1>5. ~swapped
  <2>1. disk >= 3 => file[3] = Magic
    BY <1>2, <1>3, <1>4, ShbWords
  <2> QED
    BY <2>1 DEF swapped, Magic
<1>6. disk >= 7 => file[1] = SHB /\ file[3] = Magic /\ file[7] = file[2]
  BY <1>2, <1>3, <1>4, ShbWords
<1>7. made # <<>> /\ ~lost => Len(file) >= 7
  <2> SUFFICES ASSUME made # <<>>, ~lost  PROVE Len(file) >= 7
    OBVIOUS
  <2>1. Len(file) = Newest.next - 1
    BY DEF FileInv
  <2>2. made[Len(made)].next >= 8 /\ made[Len(made)].next \in Nat
    <3>1. /\ Len(made) \in Nat /\ DOMAIN made = 1 .. Len(made)
          /\ \A n \in DOMAIN made : made[n].next \in Nat
      BY EntryTypes
    <3>2. CASE Len(made) = 1
      BY <1>1, <3>1, <3>2
    <3>3. CASE Len(made) # 1
      <4>1. 1 < Len(made)
        BY <1>1, <3>1, <3>3
      <4>2. made[1].next < made[Len(made)].next
        BY <1>1, <4>1 DEF ChainInv
      <4> QED
        BY <4>2, <1>1, <3>1
    <3> QED
      BY <3>2, <3>3
  <2> QED
    BY <2>1, <2>2, <1>3 DEF Newest
<1> QED
  BY <1>1, <1>3, <1>4, <1>5, <1>6, <1>7

(* Where the next block of the writer's is, and what is there of it.       *)
LEMMA NextBlock ==
  ASSUME TypeInv, ChainInv, FileInv, NEW n \in DOMAIN made, n + 1 \in DOMAIN made
  PROVE  LET i == made[n].next
             w == made[n + 1].words
         IN /\ i \in Nat \ {0} /\ w \in Seq(Int) /\ made[n + 1].next = i + Len(w)
            /\ Holds(i, w)
            /\ Whole(i, w) => InFile(n + 1) /\ made[n + 1].next <= disk + 1
            /\ disk = Len(file) /\ ~lost => Whole(i, w)
<1> DEFINE i == made[n].next
           w == made[n + 1].words
<1>1. /\ n \in 1 .. Len(made) /\ n + 1 \in 2 .. Len(made) /\ Len(made) \in Nat /\ 1 \in DOMAIN made
      /\ i \in Nat /\ w \in Seq(Int) /\ made[n + 1].next \in Nat
      /\ disk \in Nat /\ Len(file) \in Nat /\ disk <= Len(file)
      /\ DOMAIN made = 1 .. Len(made) /\ DOMAIN w = 1 .. Len(w) /\ Len(w) \in Nat
  <2>1. disk \in Nat /\ Len(file) \in Nat /\ disk <= Len(file)
    BY DEF TypeInv
  <2>2. DOMAIN made = 1 .. Len(made) /\ Len(made) \in Nat /\ n \in Nat
    BY EntryTypes
  <2>3. i \in Nat /\ w \in Seq(Int) /\ made[n + 1].next \in Nat /\ DOMAIN w = 1 .. Len(w) /\ Len(w) \in Nat
    BY EntryTypes
  <2> QED
    BY <2>1, <2>2, <2>3
<1>2. Start(n + 1) = i - 1
  <2>1. Start(n + 1) = made[(n + 1) - 1].next - 1
    BY <1>1 DEF ChainInv
  <2> QED
    BY <2>1, <1>1
<1>3. made[n + 1].next = i + Len(w)
  <2>1. made[n + 1].next - 1 - Len(w) = i - 1
    BY <1>2 DEF Start
  <2> HIDE DEF i, w
  <2> QED
    BY <2>1, <1>1
<1>4. i # 0
  <2>1. made[1].next = 8
    BY <1>1, ShbWords DEF ChainInv, Made
  <2>2. 1 < n => made[1].next < made[n].next
    BY <1>1 DEF ChainInv
  <2> QED
    BY <1>1, <2>1, <2>2
<1>5. Holds(i, w)
  <2> SUFFICES ASSUME NEW j \in 1 .. Len(w), i + j - 1 <= disk  PROVE file[i + j - 1] = w[j]
    BY DEF Holds
  <2>1. Start(n + 1) + j = i + j - 1 /\ Start(n + 1) + j <= Len(file)
    <3> HIDE DEF i, w
    <3>1. j \in Nat /\ i \in Nat /\ disk <= Len(file) /\ disk \in Nat /\ Len(file) \in Nat
      BY <1>1
    <3>2. Start(n + 1) + j = i + j - 1
      BY <3>1, <1>2
    <3> QED
      BY <3>1, <3>2
  <2>2. j \in DOMAIN made[n + 1].words
    BY <1>1
  <2> QED
    BY <1>1, <2>1, <2>2 DEF FileInv
<1>6. Whole(i, w) => InFile(n + 1) /\ made[n + 1].next <= disk + 1
  BY <1>1, <1>3 DEF Whole, InFile
<1>7. disk = Len(file) /\ ~lost => Whole(i, w)
  <2>1. made # <<>> /\ Len(made) \in DOMAIN made
    BY <1>1
  <2>2. made[n + 1].next <= Newest.next /\ Newest.next \in Nat
    <3>1. Newest.next \in Nat
      BY <2>1, EntryTypes DEF Newest
    <3>2. n + 1 < Len(made) => made[n + 1].next < Newest.next
      BY <1>1, <2>1 DEF ChainInv, Newest
    <3> QED
      BY <1>1, <3>1, <3>2 DEF Newest
  <2>3. ~lost => Len(file) = Newest.next - 1
    BY <2>1 DEF FileInv
  <2> QED
    BY <1>1, <1>3, <2>2, <2>3 DEF Whole
<1> QED
  BY <1>1, <1>3, <1>4, <1>5, <1>6, <1>7

TooLong == \E j \in DOMAIN written : written[j].len > MaxPacket

(* A reader between two blocks gets the next interface or packet, or it    *)
(* has come to the end, or the block is not all there, or too long.        *)
LEMMA ReadsNext ==
  ASSUME TypeInv, ChainInv, FileInv, NEW n \in DOMAIN made, Between(n)
  PROVE  LET r == ReadBlock(at, ifaces)
         IN \/ /\ r.st \in {"eof", "error"}
               /\ Have(at) => r.st = "error"
               /\ r.st = "error" /\ disk = Len(file) /\ ~lost => TooLong
            \/ /\ n + 1 \in DOMAIN made /\ made[n + 1].next <= disk + 1
               /\ \/ /\ made[n + 1].ifs = made[n].ifs + 1 /\ made[n + 1].ifs <= Len(added)
                     /\ made[n + 1].pks = made[n].pks
                     /\ r = Read(made[n + 1].next, Append(ifaces, added[made[n + 1].ifs]), <<>>)
                  \/ /\ made[n + 1].pks = made[n].pks + 1 /\ made[n + 1].pks <= Len(written)
                     /\ made[n + 1].ifs = made[n].ifs
                     /\ written[made[n + 1].pks].iface < made[n].ifs
                     /\ Have(at) => WordAt(at) # IDB
                     /\ r = Read(made[n + 1].next, ifaces, <<written[made[n + 1].pks]>>)
<1> DEFINE r == ReadBlock(at, ifaces)
           Stuck == /\ r.st \in {"eof", "error"}
                    /\ Have(at) => r.st = "error"
                    /\ r.st = "error" /\ disk = Len(file) /\ ~lost => TooLong
<1>1. /\ file \in Seq(Int) /\ disk \in 0 .. Len(file) /\ disk \in Nat /\ Len(file) \in Nat
      /\ n \in 1 .. Len(made) /\ Len(made) \in Nat /\ DOMAIN made = 1 .. Len(made)
      /\ made # <<>> /\ made[n].next \in Nat
  BY EntryTypes DEF TypeInv
<1>2. ~swapped /\ at = made[n].next
  BY HeaderThere DEF Between
<1>3. Have(at) => r.st # "eof"
  <2>1. Have(at) /\ (~Have(at + 1) \/ WordAt(at + 1) < 12) => r = Bad
    BY DEF ReadBlock
  <2>2. \A i, total, known : ReadEpb(i, total, known).st # "eof"
    BY DEF ReadEpb, Bad, Read
  <2>3. \A i, total, known : ReadIdb(i, total, known).st # "eof"
    BY DEF ReadIdb, Bad, Read
  <2>4. Have(at) /\ ~(~Have(at + 1) \/ WordAt(at + 1) < 12) =>
           \/ r = ReadEpb(at + 2, WordAt(at + 1), ifaces)
           \/ r = ReadIdb(at + 2, WordAt(at + 1), ifaces)
           \/ r = Read(at + WordAt(at + 1) \div 4 - 1 + 1, ifaces, <<>>)
           \/ r = Bad
    BY DEF ReadBlock
  <2> HIDE DEF r
  <2> QED
    BY <2>1, <2>2, <2>3, <2>4 DEF Bad, Read
<1>4. CASE n = Len(made)
  <2>1. Len(file) < made[n].next
    BY <1>1, <1>4 DEF FileInv, Newest
  <2>2. ~Have(at)
    BY <2>1, <1>1, <1>2 DEF Have
  <2>3. r = [st |-> "eof"]
    BY <2>2 DEF ReadBlock
  <2>4. Stuck
    BY <2>2, <2>3
  <2> QED
    BY <2>4
<1>5. CASE n # Len(made)
  <2>1. n + 1 \in DOMAIN made /\ n + 1 \in 2 .. Len(made) /\ (n + 1) - 1 = n
    BY <1>1, <1>5
  <2> DEFINE m == n + 1
             w == made[m].words
  <2>2. /\ at \in Nat \ {0} /\ made[m].next = at + Len(w) /\ Holds(at, w)
        /\ Whole(at, w) => InFile(m) /\ made[m].next <= disk + 1
        /\ disk = Len(file) /\ ~lost => Whole(at, w)
    BY <2>1, <1>2, NextBlock
  <2>3. CASE \E name \in Names : IsIdb(m, name)
    <3>1. PICK name \in Names : IsIdb(m, name)
      BY <2>3
    <3>2. /\ w = Idb(1, 0, name) /\ made[m].ifs = made[n].ifs + 1 /\ made[m].pks = made[n].pks
          /\ InFile(m) => made[m].ifs <= Len(added)
                          /\ added[made[m].ifs] = Interface(1, 0, Shortened(name, NameCap))
      BY <2>1, <3>1 DEF IsIdb
    <3> HIDE DEF r, w, m
    <3>3. /\ Whole(at, w) => r = Read(at + Len(w), Append(ifaces, Interface(1, 0, Shortened(name, NameCap))), <<>>)
          /\ ~Whole(at, w) => r.st \in {"eof", "error"}
      BY <3>2, <2>2, <1>1, <1>2, ReadsIdb DEF r
    <3>4. CASE Whole(at, w)
      <4>1. /\ made[m].next <= disk + 1 /\ made[m].ifs <= Len(added)
            /\ r = Read(made[m].next, Append(ifaces, added[made[m].ifs]), <<>>)
        BY <3>2, <3>3, <3>4, <2>2
      <4> QED
        BY <4>1, <3>2, <2>1 DEF r, m
    <3>5. CASE ~Whole(at, w)
      <4>1. Stuck
        BY <3>3, <3>5, <2>2, <1>3
      <4> QED
        BY <4>1 DEF r
    <3> QED
      BY <3>4, <3>5
  <2>4. CASE \E id \in {0, 1}, t \in Times, p \in Captures : IsEpb(m, id, t, p)
    <3>1. PICK id \in {0, 1}, t \in Times, p \in Captures : IsEpb(m, id, t, p)
      BY <2>4
    <3>2. /\ w = Epb(id, t, p) /\ made[m].pks = made[n].pks + 1 /\ made[m].ifs = made[n].ifs
          /\ id < made[m].ifs
          /\ InFile(m) => made[m].pks <= Len(written) /\ written[made[m].pks] = Packet(id, t, p.len, p)
      BY <2>1, <3>1 DEF IsEpb
    <3>3. id \in Nat /\ t \in Nat /\ EPB # IDB /\ Len(written) \in Nat /\ made[m].pks \in 1 .. Len(written) + 1 + made[m].pks
          /\ made[n].pks \in Nat /\ p.len \in Nat /\ MaxPacket \in Nat
      <4>1. made[n].pks \in Nat
        BY EntryTypes
      <4>2. written \in Seq(KnownPackets)
        BY DEF TypeInv
      <4> QED
        BY <4>1, <4>2, <3>2, SizeAssumption, DataAssumption DEF EPB, IDB
    <3> HIDE DEF r, w, m
    <3>4. /\ Have(at) => WordAt(at) = EPB
          /\ Whole(at, w) /\ p.len <= MaxPacket => r = Read(at + Len(w), ifaces, <<Packet(id, t, p.len, p)>>)
          /\ ~Whole(at, w) \/ p.len > MaxPacket => r.st \in {"eof", "error"}
      <4>1. Holds(at, Epb(id, t, p)) /\ at \in Nat /\ disk \in Nat /\ id \in Nat /\ t \in Nat
        BY <3>2, <3>3, <2>2, <1>1
      <4>2. p \in Captures /\ ~swapped
        BY <3>1, <1>2
      <4>3. Have(at) => WordAt(at) = EPB
        BY <4>1, <4>2, ReadsEpb
      <4>4. Whole(at, Epb(id, t, p)) /\ p.len <= MaxPacket =>
              ReadBlock(at, ifaces) = Read(at + Len(Epb(id, t, p)), ifaces, <<Packet(id, t, p.len, p)>>)
        BY <4>1, <4>2, ReadsEpb
      <4>5. ~Whole(at, Epb(id, t, p)) \/ p.len > MaxPacket => ReadBlock(at, ifaces).st \in {"eof", "error"}
        BY <4>1, <4>2, ReadsEpb
      <4> QED
        BY <4>3, <4>4, <4>5, <3>2 DEF r
    <3>5. Packet(id, t, p.len, p).iface = id /\ Packet(id, t, p.len, p).len = p.len
      BY DEF Packet
    <3>6. CASE Whole(at, w) /\ p.len <= MaxPacket
      <4>1. /\ made[m].next <= disk + 1 /\ made[m].pks <= Len(written)
            /\ r = Read(made[m].next, ifaces, <<written[made[m].pks]>>)
            /\ written[made[m].pks].iface < made[n].ifs
        BY <3>2, <3>4, <3>5, <3>6, <2>2
      <4>2. Have(at) => WordAt(at) # IDB
        BY <3>3, <3>4
      <4> QED
        BY <4>1, <4>2, <3>2, <2>1 DEF r, m
    <3>7. CASE Whole(at, w) /\ p.len > MaxPacket
      <4>1. made[m].pks \in DOMAIN written
        BY <3>2, <3>3, <3>7, <2>2
      <4>2. TooLong
        BY <4>1, <3>2, <3>5, <3>7, <2>2 DEF TooLong
      <4>3. Stuck
        BY <4>2, <3>4, <3>7, <1>3
      <4> QED
        BY <4>3 DEF r
    <3>8. CASE ~Whole(at, w)
      <4>1. Stuck
        BY <3>4, <3>8, <2>2, <1>3
      <4> QED
        BY <4>1 DEF r
    <3> QED
      BY <3>3, <3>6, <3>7, <3>8
  <2> QED
    BY <2>1, <2>3, <2>4 DEF ChainInv
<1> QED
  BY <1>4, <1>5

-----------------------------------------------------------------------------
(* Steps of the writer                                                     *)

Grown(old, new) == Len(old) <= Len(new) /\ \A i \in 1 .. Len(old) : new[i] = old[i]

LEMMA HistoryTypes ==
  ASSUME TypeInv
  PROVE  /\ Len(added) \in Nat /\ DOMAIN added = 1 .. Len(added)
         /\ Len(written) \in Nat /\ DOMAIN written = 1 .. Len(written)
         /\ Grown(made, made) /\ Grown(added, added) /\ Grown(written, written)
<1>1. made \in Seq(Entry) /\ added \in Seq(KnownInterfaces) /\ written \in Seq(KnownPackets)
  BY DEF TypeInv
<1> QED
  BY <1>1 DEF Grown

LEMMA GrownAppend ==
  ASSUME NEW S, NEW s \in Seq(S), NEW e \in S
  PROVE  /\ Append(s, e) \in Seq(S) /\ Len(Append(s, e)) = Len(s) + 1
         /\ Grown(s, Append(s, e)) /\ Append(s, e)[Len(s) + 1] = e
BY DEF Grown

(* What the reader holds stays right as the file and the histories grow.   *)
LEMMA ReaderKept ==
  ASSUME TypeInv, TypeInv', ReaderInv, UNCHANGED readerVars, disk <= disk',
         Grown(made, made'), Grown(added, added'), Grown(written, written')
  PROVE  ReaderInv'
<1>1. /\ Len(added) \in Nat /\ Len(written) \in Nat /\ Len(added') \in Nat /\ Len(written') \in Nat
      /\ disk \in Nat /\ disk' \in Nat /\ Len(made) \in Nat /\ Len(made') \in Nat
      /\ DOMAIN written = 1 .. Len(written) /\ DOMAIN written' = 1 .. Len(written')
      /\ DOMAIN made = 1 .. Len(made) /\ DOMAIN made' = 1 .. Len(made')
      /\ ifaces \in Seq(KnownInterfaces) /\ returned \in Seq(KnownPackets)
      /\ Len(ifaces) \in Nat /\ Len(returned) \in Nat
      /\ DOMAIN ifaces = 1 .. Len(ifaces) /\ DOMAIN returned = 1 .. Len(returned)
  <2>1. made \in Seq(Entry) /\ made' \in Seq(Entry) /\ disk \in Nat /\ disk' \in Nat
    BY DEF TypeInv, Entry
  <2>2. /\ added \in Seq(KnownInterfaces) /\ added' \in Seq(KnownInterfaces)
        /\ written \in Seq(KnownPackets) /\ written' \in Seq(KnownPackets)
    BY DEF TypeInv, KnownInterfaces, KnownPackets
  <2>3. ifaces \in Seq(KnownInterfaces) /\ returned \in Seq(KnownPackets)
    BY DEF ReaderInv
  <2> QED
    BY <2>1, <2>2, <2>3
<1>2. UNCHANGED <<reader, at, ifaces, returned, whole>>
  BY DEF readerVars
<1>3. reader \notin {"none", "refused"} => \E n \in DOMAIN made' : Between(n)'
  <2> SUFFICES ASSUME reader \notin {"none", "refused"}  PROVE \E n \in DOMAIN made' : Between(n)'
    OBVIOUS
  <2>1. PICK n \in DOMAIN made : Between(n)
    BY DEF ReaderInv
  <2>2. n \in DOMAIN made' /\ made'[n] = made[n]
    BY <1>1 DEF Grown
  <2>3. at \in Nat
    BY <2>1, EntryTypes DEF Between
  <2>4. Between(n)'
    BY <1>1, <1>2, <2>1, <2>2, <2>3 DEF Between
  <2> QED
    BY <2>2, <2>4
<1>4. /\ Len(ifaces) <= Len(added') /\ \A i \in DOMAIN ifaces : ifaces[i] = added'[i]
      /\ Len(returned) <= Len(written') /\ \A i \in DOMAIN returned : returned[i] = written'[i]
  <2>1. Len(ifaces) <= Len(added) /\ \A i \in DOMAIN ifaces : ifaces[i] = added[i]
    BY DEF ReaderInv
  <2>2. Len(returned) <= Len(written) /\ \A i \in DOMAIN returned : returned[i] = written[i]
    BY DEF ReaderInv
  <2>3. ASSUME NEW i \in DOMAIN ifaces  PROVE ifaces[i] = added'[i]
    <3>1. i \in 1 .. Len(added)
      BY <1>1, <2>1
    <3> QED
      BY <3>1, <2>1 DEF Grown
  <2>4. ASSUME NEW i \in DOMAIN returned  PROVE returned[i] = written'[i]
    <3>1. i \in 1 .. Len(written)
      BY <1>1, <2>2
    <3> QED
      BY <3>1, <2>2 DEF Grown
  <2>5. Len(added) <= Len(added') /\ Len(written) <= Len(written')
    BY DEF Grown
  <2> QED
    BY <1>1, <2>1, <2>2, <2>3, <2>4, <2>5
<1>5. reader \in {"error", "refused"} /\ whole => \E i \in DOMAIN written' : written'[i].len > MaxPacket
  <2>1. reader \in {"error", "refused"} /\ whole => \E i \in DOMAIN written : written[i].len > MaxPacket
    BY DEF ReaderInv
  <2> QED
    BY <1>1, <2>1 DEF Grown
<1>6. KnownInterfaces' = KnownInterfaces /\ KnownPackets' = KnownPackets
  BY DEF KnownInterfaces, KnownPackets
<1> QED
  BY <1>1, <1>2, <1>3, <1>4, <1>5, <1>6 DEF ReaderInv

LEMMA Starts ==
  ASSUME TypeInv, ChainInv, NEW n \in DOMAIN made
  PROVE  Start(n) \in Nat /\ made[n].next \in Nat /\ made[n].next >= 8
<1>1. DOMAIN made = 1 .. Len(made) /\ Len(made) \in Nat /\ n \in Nat
  BY EntryTypes
<1>2. made[1].next = 8 /\ Len(made[1].words) = 7 /\ 1 \in DOMAIN made
  <2>1. made # <<>> /\ 1 \in DOMAIN made
    BY <1>1
  <2> QED
    BY <2>1, ShbWords DEF ChainInv, Made
<1>3. \A m \in DOMAIN made : made[m].next \in Nat /\ made[m].next >= 8
  <2> TAKE m \in DOMAIN made
  <2>1. m = 1 \/ 1 < m
    BY <1>1
  <2>2. 1 < m => made[1].next < made[m].next
    BY <1>2 DEF ChainInv
  <2> QED
    BY <1>2, <2>1, <2>2, EntryTypes
<1>4. CASE n = 1
  <2>1. Start(1) = 8 - 1 - 7
    BY <1>2 DEF Start
  <2> QED
    BY <1>3, <1>4, <2>1
<1>5. CASE n # 1
  <2>1. n \in 2 .. Len(made) /\ n - 1 \in DOMAIN made
    BY <1>1, <1>5
  <2>2. Start(n) = made[n - 1].next - 1
    BY <2>1 DEF ChainInv
  <2> QED
    BY <1>3, <2>1, <2>2
<1> QED
  BY <1>4, <1>5

(* A part of the file is lost, and nothing is written.                     *)
LEMMA LoseStep ==
  ASSUME TypeInv, ChainInv, FileInv, ReaderInv,
         NEW k \in disk .. Len(file), file' = SubSeq(file, 1, k), disk' = k,
         k < Len(file) => lost', k = Len(file) => lost' = lost, lost' \in BOOLEAN,
         writer = "open", writer' = "closed",
         UNCHANGED <<nextIf, readerVars, added, written, made>>
  PROVE  TypeInv' /\ ChainInv' /\ FileInv' /\ ReaderInv'
<1>1. /\ file \in Seq(Int) /\ disk \in Nat /\ Len(file) \in Nat /\ disk <= Len(file) /\ k \in Nat
      /\ disk <= k /\ k <= Len(file)
  BY DEF TypeInv
<1>2. /\ file' \in Seq(Int) /\ Len(file') = k /\ \A j \in 1 .. k : file'[j] = file[j]
  BY <1>1, SubSeqProperties
<1>3. made # <<>>
  BY DEF TypeInv
<1>4. TypeInv'
  <2>1. disk' \in 0 .. Len(file')
    BY <1>1, <1>2
  <2>2. /\ made' \in Seq(Entry)' /\ added' \in Seq(KnownInterfaces)' /\ written' \in Seq(KnownPackets)'
    BY DEF TypeInv, Entry, KnownInterfaces, KnownPackets
  <2> QED
    BY <1>2, <1>3, <2>1, <2>2 DEF TypeInv
<1>5. ASSUME NEW n, n \in DOMAIN made, InFile(n)'  PROVE InFile(n)
  <2>1. made[n].next \in Nat
    BY <1>5, EntryTypes
  <2> QED
    BY <1>1, <1>2, <1>5, <2>1 DEF InFile
<1>6. ChainInv'
  <2>1. made # <<>> => made[1] = Made(Shb, Len(Shb) + 1, 0, 0)
    BY DEF ChainInv
  <2>2. ASSUME NEW n \in 2 .. Len(made)
        PROVE  /\ Start(n)' = made'[n - 1].next - 1
               /\ \/ \E name \in Names : IsIdb(n, name)'
                  \/ \E id \in {0, 1}, t \in Times, p \in Captures : IsEpb(n, id, t, p)'
    <3>1. n \in DOMAIN made
      BY EntryTypes
    <3>2. InFile(n)' => InFile(n)
      BY <3>1, <1>5
    <3>3. \A name \in Names : IsIdb(n, name) => IsIdb(n, name)'
      BY <3>2 DEF IsIdb
    <3>4. \A id \in {0, 1}, t \in Times, p \in Captures : IsEpb(n, id, t, p) => IsEpb(n, id, t, p)'
      BY <3>2 DEF IsEpb
    <3>5. Start(n)' = made'[n - 1].next - 1
      BY DEF Start, ChainInv
    <3>6. \/ \E name \in Names : IsIdb(n, name)
          \/ \E id \in {0, 1}, t \in Times, p \in Captures : IsEpb(n, id, t, p)
      BY DEF ChainInv
    <3> QED
      BY <3>3, <3>4, <3>5, <3>6
  <2>3. \A n \in DOMAIN made, m \in DOMAIN made : m < n => made[m].next < made[n].next
    BY DEF ChainInv
  <2> QED
    BY <2>1, <2>2, <2>3 DEF ChainInv
<1>7. FileInv'
  <2>1. ASSUME NEW n \in DOMAIN made, NEW j \in DOMAIN made[n].words, Start(n) + j <= k
        PROVE  file'[Start(n) + j] = made[n].words[j]
    <3>1. Start(n) \in Int /\ j \in Nat /\ j > 0
      BY EntryTypes, SMTT(30) DEF Start
    <3>2. Start(n) + j <= Len(file)
      BY <1>1, <2>1, <3>1
    <3>3. file[Start(n) + j] = made[n].words[j]
      BY <3>2 DEF FileInv
    <3>4. Start(n) \in Nat
      BY Starts
    <3> QED
      BY <3>1, <3>3, <3>4, <1>1, <1>2, <2>1
  <2>2. Len(file') < Newest.next
    <3>1. Newest.next \in Nat /\ Len(file) < Newest.next
      BY <1>3, EntryTypes DEF Newest, FileInv
    <3> QED
      BY <3>1, <1>1, <1>2
  <2>3. ~lost' => k = Len(file) /\ ~lost
    BY <1>1 DEF TypeInv
  <2>4. ~lost => Len(file) = Newest.next - 1 /\ nextIf = Newest.ifs /\ Newest.ifs = Len(added) /\ Newest.pks = Len(written)
    BY <1>3 DEF FileInv
  <2>5. made' = made /\ added' = added /\ written' = written /\ nextIf' = nextIf
    OBVIOUS
  <2>6. Newest' = Newest /\ \A n \in DOMAIN made : Start(n)' = Start(n)
    BY <2>5 DEF Newest, Start
  <2>7. (\A n \in DOMAIN made : \A j \in DOMAIN made[n].words :
          Start(n) + j <= Len(file) => file[Start(n) + j] = made[n].words[j])'
    <3> SUFFICES ASSUME NEW n \in DOMAIN made', NEW j \in DOMAIN made'[n].words, Start(n)' + j <= Len(file')
                 PROVE  file'[Start(n)' + j] = made'[n].words[j]
      OBVIOUS
    <3>1. n \in DOMAIN made /\ made'[n].words = made[n].words
      BY <2>5
    <3>2. Start(n)' = Start(n) /\ j \in DOMAIN made[n].words
      BY <3>1, <2>6
    <3>3. Start(n) + j <= k
      BY <3>2, <1>2
    <3> QED
      BY <3>1, <3>2, <3>3, <2>1
  <2>8. (made # <<>> => Len(file) < Newest.next)'
    BY <2>2, <2>5, <2>6
  <2>9. (made # <<>> /\ ~lost =>
           /\ Len(file) = Newest.next - 1
           /\ nextIf = Newest.ifs /\ Newest.ifs = Len(added) /\ Newest.pks = Len(written))'
    BY <1>2, <2>3, <2>4, <2>5, <2>6
  <2> QED
    BY <2>7, <2>8, <2>9 DEF FileInv
<1>8. ReaderInv'
  <2>1. disk <= disk' /\ Grown(made, made') /\ Grown(added, added') /\ Grown(written, written')
    BY <1>1, HistoryTypes
  <2> QED
    BY <1>4, <2>1, ReaderKept
<1> QED
  BY <1>4, <1>6, <1>7, <1>8

(* A block of w is given to the file, which keeps the first k words.       *)
Gives(w, di, dp, k) ==
  /\ ~lost /\ made # <<>> /\ writer = "open" /\ UNCHANGED <<writer, readerVars>>
  /\ Make(w, di, dp) /\ Len(w) > 0 /\ k \in disk .. Len(file) + Len(w)
  /\ file' = SubSeq(file \o w, 1, k) /\ disk' \in disk .. k
  /\ lost' \in BOOLEAN /\ (k < Len(file) + Len(w) => lost')

(* The histories grow by what the block holds, if it is all there.         *)
Records(w, di, dp, k) ==
  /\ added' \in Seq(KnownInterfaces) /\ Grown(added, added')
  /\ written' \in Seq(KnownPackets) /\ Grown(written, written')
  /\ ~lost' => /\ Len(added') = Len(added) + di /\ Len(written') = Len(written) + dp
               /\ nextIf' = nextIf + di

HoldsIdb(w, di, dp, k, name) ==
  /\ w = Idb(1, 0, name) /\ di = 1 /\ dp = 0
  /\ k = Len(file) + Len(w) =>
       /\ Len(added') = Len(added) + 1
       /\ added'[Len(added) + 1] = Interface(1, 0, Shortened(name, NameCap))

HoldsEpb(w, di, dp, k, id, t, p) ==
  /\ w = Epb(id, t, p) /\ di = 0 /\ dp = 1 /\ id < nextIf
  /\ k = Len(file) + Len(w) =>
       /\ Len(written') = Len(written) + 1
       /\ written'[Len(written) + 1] = Packet(id, t, p.len, p)

LEMMA MakeStep ==
  ASSUME TypeInv, made # <<>>, NEW w \in Seq(Int), NEW di \in Nat, NEW dp \in Nat, Make(w, di, dp)
  PROVE  LET e == Made(w, Newest.next + Len(w), Newest.ifs + di, Newest.pks + dp)
             N == Len(made)
         IN /\ e \in Entry /\ made' \in Seq(Entry) /\ Grown(made, made')
            /\ Len(made') = N + 1 /\ DOMAIN made' = 1 .. N + 1 /\ made' # <<>>
            /\ made'[N + 1] = e /\ Newest' = e
            /\ \A n \in 1 .. N : made'[n] = made[n]
            /\ N \in Nat /\ N >= 1 /\ DOMAIN made = 1 .. N /\ N \in DOMAIN made
            /\ Newest.next \in Nat /\ Newest.ifs \in Nat /\ Newest.pks \in Nat /\ made[N] = Newest
<1> DEFINE e == Made(w, Newest.next + Len(w), Newest.ifs + di, Newest.pks + dp)
           N == Len(made)
<1>1. made \in Seq(Entry)
  BY DEF TypeInv
<1>2. N \in Nat /\ N >= 1 /\ DOMAIN made = 1 .. N /\ N \in DOMAIN made
  BY <1>1
<1>3. Newest.next \in Nat /\ Newest.ifs \in Nat /\ Newest.pks \in Nat
  BY <1>2, EntryTypes DEF Newest
<1>4. e \in Entry
  BY <1>3 DEF Entry, Made
<1>5. made' = Append(made, e)
  BY DEF Make, Newest
<1>6. Newest' = made'[Len(made')] /\ made[N] = Newest
  BY DEF Newest
<1> HIDE DEF e
<1>7. made' \in Seq(Entry) /\ Len(made') = N + 1 /\ Grown(made, made') /\ made'[N + 1] = e
  BY <1>1, <1>4, <1>5, GrownAppend
<1>8. DOMAIN made' = 1 .. N + 1 /\ made' # <<>>
  BY <1>2, <1>7
<1>9. \A n \in 1 .. N : made'[n] = made[n]
  BY <1>7 DEF Grown
<1> QED
  BY <1>2, <1>3, <1>4, <1>6, <1>7, <1>8, <1>9 DEF e

LEMMA PutStep ==
  ASSUME NEW f \in Seq(Int), NEW w \in Seq(Int), NEW k \in 0 .. Len(f) + Len(w)
  PROVE  LET g == SubSeq(f \o w, 1, k)
         IN /\ g \in Seq(Int) /\ Len(g) = k
            /\ \A j \in 1 .. k : j <= Len(f) => g[j] = f[j]
            /\ \A j \in 1 .. Len(w) : Len(f) + j <= k => g[Len(f) + j] = w[j]
<1> DEFINE h == f \o w
           g == SubSeq(h, 1, k)
<1>1. Len(f) \in Nat /\ Len(w) \in Nat /\ k \in Nat /\ k <= Len(f) + Len(w)
  OBVIOUS
<1>2. /\ h \in Seq(Int) /\ Len(h) = Len(f) + Len(w)
      /\ \A j \in 1 .. Len(h) : h[j] = IF j <= Len(f) THEN f[j] ELSE w[j - Len(f)]
  BY ConcatProperties
<1> HIDE DEF h
<1>3. g \in Seq(Int) /\ Len(g) = k /\ \A j \in 1 .. k : g[j] = h[j]
  BY <1>1, <1>2, SubSeqProperties
<1> HIDE DEF g
<1>4. ASSUME NEW j \in 1 .. k, j <= Len(f)  PROVE g[j] = f[j]
  BY <1>1, <1>2, <1>3, <1>4
<1>5. ASSUME NEW j \in 1 .. Len(w), Len(f) + j <= k  PROVE g[Len(f) + j] = w[j]
  <2>1. Len(f) + j \in 1 .. k /\ Len(f) + j \in 1 .. Len(h) /\ ~(Len(f) + j <= Len(f))
        /\ (Len(f) + j) - Len(f) = j
    BY <1>1, <1>2, <1>5, SMTT(30)
  <2>2. g[Len(f) + j] = h[Len(f) + j]
    BY <2>1, <1>3
  <2>3. h[Len(f) + j] = w[(Len(f) + j) - Len(f)]
    BY <2>1, <1>2
  <2> QED
    BY <2>1, <2>2, <2>3
<1> QED
  BY <1>3, <1>4, <1>5 DEF g, h

(* Of a file that lost nothing, every block is in it, and stays the same.  *)
LEMMA OldBlocks ==
  ASSUME TypeInv, ChainInv, FileInv, ~lost, made # <<>>,
         made' \in Seq(Entry), \A n \in 1 .. Len(made) : made'[n] = made[n],
         added' \in Seq(KnownInterfaces), written' \in Seq(KnownPackets),
         Grown(added, added'), Grown(written, written'),
         NEW n \in 1 .. Len(made)
  PROVE  /\ InFile(n) /\ Start(n)' = Start(n) /\ made[n].next <= Newest.next
         /\ n # 1 => /\ Start(n)' = made'[n - 1].next - 1
                     /\ \/ \E name \in Names : IsIdb(n, name)'
                        \/ \E id \in {0, 1}, t \in Times, p \in Captures : IsEpb(n, id, t, p)'
<1>1. Len(made) \in Nat /\ DOMAIN made = 1 .. Len(made) /\ n \in DOMAIN made /\ n \in Nat
  BY EntryTypes
<1>2. Newest.next \in Nat /\ made[n].next \in Nat /\ Len(file) = Newest.next - 1
  BY <1>1, EntryTypes DEF FileInv, Newest
<1>3. made[n].next <= Newest.next
  <2>1. n = Len(made) \/ n < Len(made)
    BY <1>1
  <2>2. n < Len(made) => made[n].next < made[Len(made)].next
    BY <1>1 DEF ChainInv
  <2> QED
    BY <1>2, <2>1, <2>2 DEF Newest
<1>4. InFile(n)
  BY <1>2, <1>3 DEF InFile
<1>5. Start(n)' = Start(n)
  BY <1>1 DEF Start
<1>6. ASSUME n # 1
      PROVE  /\ Start(n)' = made'[n - 1].next - 1
             /\ \/ \E name \in Names : IsIdb(n, name)'
                \/ \E id \in {0, 1}, t \in Times, p \in Captures : IsEpb(n, id, t, p)'
  <2>1. n \in 2 .. Len(made) /\ n - 1 \in 1 .. Len(made)
    BY <1>1, <1>6
  <2>2. made'[n] = made[n] /\ made'[n - 1] = made[n - 1]
    BY <2>1
  <2>3. Start(n) = made[n - 1].next - 1
    BY <2>1 DEF ChainInv
  <2>4. \/ \E name \in Names : IsIdb(n, name)
        \/ \E id \in {0, 1}, t \in Times, p \in Captures : IsEpb(n, id, t, p)
    BY <2>1 DEF ChainInv
  <2>5. /\ made[n].ifs \in Nat /\ made[n].pks \in Nat /\ made[n - 1].ifs \in Nat /\ made[n - 1].pks \in Nat
        /\ Len(added) \in Nat /\ Len(written) \in Nat /\ Len(added') \in Nat /\ Len(written') \in Nat
    BY <2>1, <1>1, EntryTypes, HistoryTypes
  <2>6. ASSUME NEW name \in Names, IsIdb(n, name)  PROVE IsIdb(n, name)'
    <3>1. /\ made[n].words = Idb(1, 0, name)
          /\ made[n].ifs = made[n - 1].ifs + 1 /\ made[n].pks = made[n - 1].pks
          /\ made[n].ifs <= Len(added) /\ added[made[n].ifs] = Interface(1, 0, Shortened(name, NameCap))
      BY <2>6, <1>4 DEF IsIdb
    <3>2. made[n].ifs \in 1 .. Len(added)
      BY <2>5, <3>1
    <3>3. made[n].ifs <= Len(added') /\ added'[made[n].ifs] = added[made[n].ifs]
      BY <2>5, <3>2, SMTT(30) DEF Grown
    <3> QED
      BY <2>2, <3>1, <3>3 DEF IsIdb
  <2>7. ASSUME NEW id \in {0, 1}, NEW t \in Times, NEW p \in Captures, IsEpb(n, id, t, p)
        PROVE  IsEpb(n, id, t, p)'
    <3>1. /\ made[n].words = Epb(id, t, p) /\ id < made[n].ifs
          /\ made[n].pks = made[n - 1].pks + 1 /\ made[n].ifs = made[n - 1].ifs
          /\ made[n].pks <= Len(written) /\ written[made[n].pks] = Packet(id, t, p.len, p)
      BY <2>7, <1>4 DEF IsEpb
    <3>2. made[n].pks \in 1 .. Len(written)
      BY <2>5, <3>1
    <3>3. made[n].pks <= Len(written') /\ written'[made[n].pks] = written[made[n].pks]
      BY <2>5, <3>2 DEF Grown
    <3> QED
      BY <2>2, <3>1, <3>3 DEF IsEpb
  <2> QED
    BY <2>2, <2>3, <2>4, <2>6, <2>7, <1>5
<1> QED
  BY <1>3, <1>4, <1>5, <1>6

(* A block of l words after f others; and its j-th word.                   *)
LEMMA Sums ==
  ASSUME NEW a \in Nat, NEW l \in Nat, NEW f \in Nat, NEW k \in Nat, NEW c,
         f = a - 1, k <= f + l, l > 0, c = a + l
  PROVE  /\ c - 1 - l = f /\ k < c
         /\ c <= k + 1 => k = f + l
         /\ k = f + l => k = c - 1
OBVIOUS

LEMMA WordWithin ==
  ASSUME NEW a \in Nat, NEW l \in Nat, NEW j \in 1 .. l, NEW x \in Nat, NEW f \in Nat,
         a = x - 1 - l, x <= f + 1
  PROVE  a + j <= f /\ a + j \in Nat /\ a + j >= 1
OBVIOUS

(* A block is given to a file that has lost nothing.                       *)
LEMMA GiveStep ==
  ASSUME TypeInv, ChainInv, FileInv, ReaderInv,
         NEW w \in Seq(Int), NEW di \in Nat, NEW dp \in Nat,
         NEW k \in Nat, Gives(w, di, dp, k), Records(w, di, dp, k),
         \/ \E name \in Names : HoldsIdb(w, di, dp, k, name)
         \/ \E id \in {0, 1}, t \in Times, p \in Captures : HoldsEpb(w, di, dp, k, id, t, p)
  PROVE  TypeInv' /\ ChainInv' /\ FileInv' /\ ReaderInv'
<1>0. PICK N \in Nat : N = Len(made)
  <2>1. made \in Seq(Entry)
    BY DEF TypeInv
  <2> QED
    BY <2>1
<1> DEFINE e == Made(w, Newest.next + Len(w), Newest.ifs + di, Newest.pks + dp)
<1>1. /\ file \in Seq(Int) /\ disk \in Nat /\ Len(file) \in Nat /\ disk <= Len(file) /\ k \in Nat
      /\ disk <= k /\ k <= Len(file) + Len(w) /\ Len(w) \in Nat /\ k \in 0 .. Len(file) + Len(w)
      /\ Len(w) > 0
  <2>1. k \in disk .. Len(file) + Len(w) /\ Len(w) > 0 /\ file \in Seq(Int) /\ disk \in 0 .. Len(file)
    BY DEF TypeInv, Gives
  <2> QED
    BY <2>1
<1>2. /\ ~lost /\ made # <<>> /\ writer = "open" /\ writer' = "open" /\ UNCHANGED readerVars
      /\ Make(w, di, dp) /\ file' = SubSeq(file \o w, 1, k) /\ disk' \in disk .. k
      /\ lost' \in BOOLEAN /\ (k < Len(file) + Len(w) => lost')
  BY DEF Gives
<1>3. /\ e \in Entry /\ made' \in Seq(Entry) /\ Grown(made, made')
      /\ Len(made') = N + 1 /\ DOMAIN made' = 1 .. N + 1 /\ made' # <<>>
      /\ made'[N + 1] = e /\ Newest' = e
      /\ \A n \in 1 .. N : made'[n] = made[n]
      /\ N \in Nat /\ N >= 1 /\ DOMAIN made = 1 .. N /\ N \in DOMAIN made
      /\ Newest.next \in Nat /\ Newest.ifs \in Nat /\ Newest.pks \in Nat /\ made[N] = Newest
  BY <1>0, <1>2, MakeStep
<1>4. e.words = w /\ e.next = Newest.next + Len(w) /\ e.ifs = Newest.ifs + di /\ e.pks = Newest.pks + dp
  BY DEF Made
<1>5. /\ Len(file) = Newest.next - 1 /\ nextIf = Newest.ifs
      /\ Newest.ifs = Len(added) /\ Newest.pks = Len(written)
  BY <1>2 DEF FileInv
<1>6. /\ file' \in Seq(Int) /\ Len(file') = k
      /\ \A j \in 1 .. k : j <= Len(file) => file'[j] = file[j]
      /\ \A j \in 1 .. Len(w) : Len(file) + j <= k => file'[Len(file) + j] = w[j]
  BY <1>1, <1>2, PutStep
<1>7. /\ added' \in Seq(KnownInterfaces) /\ Grown(added, added')
      /\ written' \in Seq(KnownPackets) /\ Grown(written, written')
      /\ ~lost' => /\ Len(added') = Len(added) + di /\ Len(written') = Len(written) + dp
                   /\ nextIf' = nextIf + di
  BY DEF Records
<1>8. /\ \A n \in 1 .. N : InFile(n) /\ Start(n)' = Start(n) /\ made[n].next <= Newest.next
      /\ \A n \in 2 .. N :
           /\ Start(n)' = made'[n - 1].next - 1
           /\ \/ \E name \in Names : IsIdb(n, name)'
              \/ \E id \in {0, 1}, t \in Times, p \in Captures : IsEpb(n, id, t, p)'
  <2>1. \A n \in 2 .. N : n \in 1 .. N /\ n # 1
    BY <1>3, SMTT(30)
  <2> QED
    BY <1>0, <1>2, <1>3, <1>7, <2>1, OldBlocks
<1> HIDE DEF e
<1>17. /\ Newest.next \in Nat /\ Len(file) \in Nat /\ Len(w) \in Nat /\ k \in Nat
       /\ Len(file) = Newest.next - 1 /\ k <= Len(file) + Len(w) /\ Len(w) > 0
       /\ e.next = Newest.next + Len(w) /\ Len(file') = k
       /\ e.next - 1 - Len(w) = Len(file) /\ k < e.next
       /\ e.next <= k + 1 => k = Len(file) + Len(w)
       /\ k = Len(file) + Len(w) => Len(file') = e.next - 1
  <2>1. /\ Newest.next \in Nat /\ Len(file) \in Nat /\ Len(w) \in Nat /\ k \in Nat
        /\ Len(file) = Newest.next - 1 /\ k <= Len(file) + Len(w)
        /\ e.next = Newest.next + Len(w) /\ Len(file') = k
    BY <1>1, <1>3, <1>4, <1>5, <1>6
  <2>2. Len(w) > 0
    BY <1>1
  <2>3. /\ e.next - 1 - Len(w) = Len(file) /\ k < e.next
        /\ e.next <= k + 1 => k = Len(file) + Len(w)
        /\ k = Len(file) + Len(w) => k = e.next - 1
    <3> DEFINE a == Newest.next
               l == Len(w)
               f == Len(file)
               c == e.next
    <3>1. a \in Nat /\ l \in Nat /\ f \in Nat /\ f = a - 1 /\ k <= f + l /\ l > 0 /\ c = a + l
      BY <2>1, <2>2
    <3> HIDE DEF a, l, f, c
    <3>2. /\ c - 1 - l = f /\ k < c
          /\ c <= k + 1 => k = f + l
          /\ k = f + l => k = c - 1
      BY <3>1, Sums
    <3> QED
      BY <3>2 DEF a, l, f, c
  <2> QED
    BY <2>1, <2>2, <2>3
<1>9. TypeInv'
  <2>1. disk' \in 0 .. Len(file')
    BY <1>1, <1>2, <1>6
  <2>2. Entry' = Entry /\ KnownInterfaces' = KnownInterfaces /\ KnownPackets' = KnownPackets
    BY DEF Entry, KnownInterfaces, KnownPackets
  <2>3. made' # <<>> /\ made' \in Seq(Entry) /\ file' \in Seq(Int)
    BY <1>3, <1>6
  <2>4. added' \in Seq(KnownInterfaces) /\ written' \in Seq(KnownPackets)
    BY <1>7
  <2>5. writer' = "open" /\ lost' \in BOOLEAN
    BY <1>2
  <2> QED
    BY <2>1, <2>2, <2>3, <2>4, <2>5 DEF TypeInv
<1>10. InFile(N + 1)' => k = Len(file) + Len(w)
  <2>1. InFile(N + 1)' <=> e.next <= k + 1
    BY <1>3, <1>6 DEF InFile
  <2> QED
    BY <2>1, <1>17
<1>11. Start(N + 1)' = made'[N].next - 1 /\ Start(N + 1)' = Len(file)
  <2>1. Start(N + 1)' = e.next - 1 - Len(e.words)
    BY <1>3 DEF Start
  <2>2. made'[N] = Newest
    BY <1>3
  <2>3. e.words = w /\ Len(file) = Newest.next - 1
    BY <1>4, <1>17
  <2> QED
    BY <2>1, <2>2, <2>3, <1>17
<1>12. \/ \E name \in Names : IsIdb(N + 1, name)'
       \/ \E id \in {0, 1}, t \in Times, p \in Captures : IsEpb(N + 1, id, t, p)'
  <2>1. made'[N] = Newest /\ (N + 1) - 1 = N /\ made'[N + 1] = e
    BY <1>3
  <2>2. ASSUME NEW name \in Names, HoldsIdb(w, di, dp, k, name)
        PROVE  IsIdb(N + 1, name)'
    <3>1. w = Idb(1, 0, name) /\ di = 1 /\ dp = 0
      BY <2>2 DEF HoldsIdb
    <3>2. e.words = Idb(1, 0, name) /\ e.ifs = Newest.ifs + 1 /\ e.pks = Newest.pks
      BY <3>1, <1>3, <1>4
    <3>3. k = Len(file) + Len(w) =>
            /\ e.ifs <= Len(added')
            /\ added'[e.ifs] = Interface(1, 0, Shortened(name, NameCap))
      BY <2>2, <3>2, <1>3, <1>5 DEF HoldsIdb
    <3> QED
      BY <2>1, <3>2, <3>3, <1>10 DEF IsIdb
  <2>3. ASSUME NEW id \in {0, 1}, NEW t \in Times, NEW p \in Captures,
               HoldsEpb(w, di, dp, k, id, t, p)
        PROVE  IsEpb(N + 1, id, t, p)'
    <3>1. w = Epb(id, t, p) /\ di = 0 /\ dp = 1 /\ id < nextIf
      BY <2>3 DEF HoldsEpb
    <3>2. e.words = Epb(id, t, p) /\ e.ifs = Newest.ifs /\ e.pks = Newest.pks + 1 /\ id < e.ifs
      BY <3>1, <1>3, <1>4, <1>5
    <3>3. k = Len(file) + Len(w) =>
            /\ e.pks <= Len(written')
            /\ written'[e.pks] = Packet(id, t, p.len, p)
      BY <2>3, <3>2, <1>3, <1>5 DEF HoldsEpb
    <3> QED
      BY <2>1, <3>2, <3>3, <1>10 DEF IsEpb
  <2> QED
    BY <2>2, <2>3
<1>13. ChainInv'
  <2>1. made'[1] = Made(Shb, Len(Shb) + 1, 0, 0)
    BY <1>2, <1>3 DEF ChainInv
  <2>2. ASSUME NEW n \in 1 .. N + 1, NEW m \in 1 .. N + 1, m < n  PROVE made'[m].next < made'[n].next
    <3>1. CASE n = N + 1
      <4>1. m \in 1 .. N /\ made'[m] = made[m] /\ made'[n] = e
        BY <1>3, <2>2, <3>1
      <4>2. made[m].next \in Nat /\ made[m].next <= Newest.next
        BY <4>1, <1>3, <1>8, EntryTypes
      <4> QED
        BY <4>1, <4>2, <1>17, SMTT(30)
    <3>2. CASE n # N + 1
      <4>1. n \in 1 .. N /\ m \in 1 .. N
        BY <1>3, <2>2, <3>2
      <4>2. made[m].next < made[n].next
        BY <4>1, <1>3, <2>2 DEF ChainInv
      <4> QED
        BY <4>1, <4>2, <1>3
    <3> QED
      BY <3>1, <3>2
  <2>3. ASSUME NEW n \in 2 .. N + 1
        PROVE  /\ Start(n)' = made'[n - 1].next - 1
               /\ \/ \E name \in Names : IsIdb(n, name)'
                  \/ \E id \in {0, 1}, t \in Times, p \in Captures : IsEpb(n, id, t, p)'
    <3>1. CASE n = N + 1
      <4>1. n - 1 = N
        BY <3>1, <1>3
      <4> QED
        BY <3>1, <4>1, <1>11, <1>12
    <3>2. CASE n # N + 1
      <4>1. n \in 2 .. N
        BY <1>3, <3>2
      <4> QED
        BY <4>1, <1>8
    <3> QED
      BY <3>1, <3>2
  <2>4. Len(made') = N + 1 /\ DOMAIN made' = 1 .. N + 1
    BY <1>3
  <2> QED
    BY <2>1, <2>2, <2>3, <2>4, <1>0 DEF ChainInv
<1>14. FileInv'
  <2>1. ASSUME NEW n \in 1 .. N + 1, NEW j \in DOMAIN made'[n].words, Start(n)' + j <= k
        PROVE  file'[Start(n)' + j] = made'[n].words[j]
    <3>1. CASE n = N + 1
      <4>1. made'[n].words = w /\ Start(n)' = Len(file)
        BY <3>1, <1>3, <1>4, <1>11
      <4>3. j \in 1 .. Len(w)
        BY <4>1
      <4>2. Len(file) + j <= k
        BY <4>1, <2>1
      <4> QED
        BY <4>1, <4>2, <4>3, <1>6
    <3>2. CASE n # N + 1
      <4>1. n \in 1 .. N /\ n \in DOMAIN made /\ made'[n] = made[n] /\ Start(n)' = Start(n) /\ InFile(n)
        BY <1>3, <1>8, <3>2
      <4>2. /\ Start(n) \in Nat /\ made[n].next \in Nat /\ made[n].words \in Seq(Int)
              /\ DOMAIN made'[n].words = DOMAIN made[n].words
        BY <4>1, Starts, EntryTypes
      <4>3. Len(made[n].words) \in Nat /\ j \in 1 .. Len(made[n].words) /\ j \in DOMAIN made[n].words
        BY <4>1, <4>2, SMTT(30)
      <4>4. Start(n) + j <= Len(file)
        <5>1. made[n].next <= Len(file) + 1 /\ Start(n) = made[n].next - 1 - Len(made[n].words)
          BY <4>1 DEF InFile, Start
        <5> QED
          BY <5>1, <4>2, <4>3, <1>1, WordWithin
      <4>5. Start(n) + j \in 1 .. k
        <5>1. Start(n) + j <= k /\ Start(n) + j \in Nat /\ k \in Nat
          BY <4>1, <4>2, <4>3, <2>1, SMTT(30)
        <5>2. Start(n) + j >= 1
          BY <4>2, <4>3
        <5> QED
          BY <5>1, <5>2
      <4>6. file[Start(n) + j] = made[n].words[j]
        BY <4>1, <4>3, <4>4 DEF FileInv
      <4> QED
        BY <4>1, <4>4, <4>5, <4>6, <1>6
    <3> QED
      BY <3>1, <3>2
  <2>2. Len(file') < e.next
    BY <1>17
  <2>3. ~lost' => /\ Len(file') = e.next - 1 /\ nextIf' = e.ifs
                  /\ e.ifs = Len(added') /\ e.pks = Len(written')
    <3> SUFFICES ASSUME ~lost'
                 PROVE  /\ Len(file') = e.next - 1 /\ nextIf' = e.ifs
                        /\ e.ifs = Len(added') /\ e.pks = Len(written')
      OBVIOUS
    <3>1. k = Len(file) + Len(w)
      BY <1>17, <1>2, SMTT(30)
    <3>2. Len(file') = e.next - 1
      BY <3>1, <1>17
    <3>3. nextIf' = e.ifs /\ e.ifs = Len(added') /\ e.pks = Len(written')
      BY <1>4, <1>5, <1>7
    <3> QED
      BY <3>2, <3>3
  <2>4. Newest' = e /\ Len(file') = k /\ DOMAIN made' = 1 .. N + 1
    BY <1>3, <1>6
  <2> QED
    BY <2>1, <2>2, <2>3, <2>4 DEF FileInv
<1>15. ReaderInv'
  <2>1. disk <= disk'
    BY <1>1, <1>2
  <2> QED
    BY <2>1, <1>2, <1>3, <1>7, <1>9, ReaderKept
<1> QED
  BY <1>9, <1>13, <1>14, <1>15

-----------------------------------------------------------------------------
(* The steps                                                               *)

(* The file and the histories do not change.                               *)
LEMMA SameFile ==
  ASSUME TypeInv, ChainInv, FileInv,
         UNCHANGED <<file, disk, writer, nextIf, added, written, made, lost>>
  PROVE  TypeInv' /\ ChainInv' /\ FileInv'
<1>1. TypeInv'
  <2>1. Entry' = Entry /\ KnownInterfaces' = KnownInterfaces /\ KnownPackets' = KnownPackets
    BY DEF Entry, KnownInterfaces, KnownPackets
  <2> QED
    BY <2>1 DEF TypeInv
<1>2. ChainInv'
  BY DEF ChainInv, Start, IsIdb, IsEpb, InFile
<1>3. FileInv'
  BY DEF FileInv, Start, Newest
<1> QED
  BY <1>1, <1>2, <1>3

(* The section header, or its first words, are in the file.                *)
LEMMA HeaderStep ==
  ASSUME TypeInv, ChainInv, FileInv, ReaderInv, made = <<>>,
         NEW k \in 0 .. 7, file' = SubSeq(Shb, 1, k), disk' \in 0 .. k,
         writer' \in {"open", "closed"}, made' = <<Made(Shb, Len(Shb) + 1, 0, 0)>>,
         lost' \in BOOLEAN, k < 7 => lost',
         UNCHANGED <<nextIf, readerVars, added, written>>
  PROVE  TypeInv' /\ ChainInv' /\ FileInv' /\ ReaderInv'
<1> DEFINE e == Made(Shb, Len(Shb) + 1, 0, 0)
<1>1. Shb \in Seq(Int) /\ Len(Shb) = 7
  BY ShbWords
<1>2. e.words = Shb /\ e.next = 8 /\ e.ifs = 0 /\ e.pks = 0 /\ e \in Entry
  BY <1>1 DEF Made, Entry
<1>3. made' = <<e>>
  OBVIOUS
<1>4. ChainInv'
  <2>1. made'[1] = Made(Shb, Len(Shb) + 1, 0, 0) /\ Len(made') = 1 /\ DOMAIN made' = {1}
    BY <1>3
  <2> QED
    BY <2>1 DEF ChainInv
<1> HIDE DEF e
<1>5. made' \in Seq(Entry) /\ Len(made') = 1 /\ made'[1] = e /\ DOMAIN made' = 1 .. 1 /\ made' # <<>>
  BY <1>2, <1>3
<1>6. file = <<>> /\ added = <<>> /\ written = <<>> /\ nextIf = 0 /\ disk = 0
  BY DEF TypeInv
<1>7. /\ file' \in Seq(Int) /\ Len(file') = k /\ \A j \in 1 .. k : file'[j] = Shb[j]
  BY <1>1, SubSeqProperties, SMTT(30)
<1>8. TypeInv'
  <2>1. Entry' = Entry /\ KnownInterfaces' = KnownInterfaces /\ KnownPackets' = KnownPackets
    BY DEF Entry, KnownInterfaces, KnownPackets
  <2>2. added' \in Seq(KnownInterfaces) /\ written' \in Seq(KnownPackets)
    BY DEF TypeInv
  <2>3. disk' \in 0 .. Len(file')
    BY <1>7
  <2> QED
    BY <2>1, <2>2, <2>3, <1>5, <1>7 DEF TypeInv
<1>9. FileInv'
  <2>1. Start(1)' = 8 - 1 - 7
    BY <1>1, <1>2, <1>5 DEF Start
  <2>2. Newest' = e
    BY <1>5 DEF Newest
  <2>3. ~lost' => k = 7
    OBVIOUS
  <2>4. ASSUME NEW n \in DOMAIN made', NEW j \in DOMAIN made'[n].words, Start(n)' + j <= k
        PROVE  file'[Start(n)' + j] = made'[n].words[j]
    <3>1. n = 1 /\ made'[n].words = Shb
      BY <1>2, <1>5
    <3>2. j \in 1 .. 7 /\ Start(n)' = 0
      BY <3>1, <2>1, <1>1
    <3> QED
      BY <3>1, <3>2, <2>4, <1>7
  <2>5. Len(file') < e.next
    BY <1>2, <1>7
  <2>6. ~lost' => /\ Len(file') = e.next - 1 /\ nextIf' = e.ifs
                  /\ e.ifs = Len(added') /\ e.pks = Len(written')
    BY <1>2, <1>6, <1>7, <2>3
  <2> QED
    BY <1>7, <2>2, <2>4, <2>5, <2>6 DEF FileInv
<1>10. ReaderInv'
  <2>1. Grown(made, made') /\ Grown(added, added') /\ Grown(written, written')
    BY <1>5, <1>6 DEF Grown
  <2> QED
    BY <2>1, <1>6, <1>8, ReaderKept
<1> QED
  BY <1>4, <1>8, <1>9, <1>10

LEMMA ReadInvInit ==
  ASSUME PcapngInit, Empty
  PROVE  ReadInv
<1>1. /\ file = <<>> /\ disk = 0 /\ writer = "none" /\ added = <<>> /\ written = <<>>
      /\ nextIf = 0 /\ reader = "none" /\ ifaces = <<>> /\ returned = <<>>
      /\ made = <<>> /\ lost = FALSE /\ tainted = FALSE
  BY DEF PcapngInit, Empty
<1>2. TypeInv
  <2>1. \A S : <<>> \in Seq(S)
    OBVIOUS
  <2>2. Len(file) = 0
    BY <1>1
  <2>3. disk \in 0 .. Len(file)
    BY <1>1, <2>2
  <2>4. lost \in BOOLEAN
    BY <1>1
  <2> QED
    BY <1>1, <2>1, <2>3, <2>4 DEF TypeInv
<1>3. ChainInv /\ FileInv /\ ReaderInv
  BY <1>1 DEF ChainInv, FileInv, ReaderInv
<1> QED
  BY <1>1, <1>2, <1>3 DEF ReadInv, CleanInv

LEMMA OpenWriterStep ==
  ASSUME ReadInv, OpenWriter
  PROVE  ReadInv'
<1>1. tainted' = tainted
  BY DEF OpenWriter
<1>2. tainted => lost'
  <2>1. tainted => lost
    BY DEF ReadInv
  <2>2. lost' = lost \/ lost' = TRUE
    BY DEF OpenWriter, Accept, Cut
  <2> QED
    BY <2>1, <2>2
<1>3. ASSUME ~tainted  PROVE CleanInv'
  <2>1. TypeInv /\ ChainInv /\ FileInv /\ ReaderInv
    BY <1>3 DEF ReadInv, CleanInv
  <2>2. made = <<>> /\ file = <<>> /\ disk = 0 /\ UNCHANGED <<nextIf, readerVars, added, written>>
    BY <2>1 DEF OpenWriter, TypeInv
  <2>3. Shb \in Seq(Int) /\ Len(Shb) = 7 /\ <<>> \o Shb = Shb /\ SubSeq(Shb, 1, 7) = Shb
    BY ShbWords
  <2>4. CASE /\ writer' = "open" /\ Accept(Shb)
             /\ made' = <<Made(Shb, Len(Shb) + 1, 0, 0)>>
    <3>1. file' = SubSeq(Shb, 1, 7) /\ disk' = 0 /\ lost' = lost /\ lost \in BOOLEAN
      BY <2>1, <2>2, <2>3, <2>4 DEF Accept, TypeInv
    <3> QED
      BY <3>1, <2>1, <2>2, <2>4, HeaderStep DEF CleanInv
  <2>5. CASE /\ writer' = "closed" /\ Cut(Shb)
             /\ made' = <<Made(Shb, Len(Shb) + 1, 0, 0)>>
    <3>1. PICK k \in disk .. (Len(file) + Len(Shb) - 1) :
            file' = SubSeq(file \o Shb, 1, k) /\ disk' = k /\ lost' = TRUE
      BY <2>5 DEF Cut
    <3>2. k \in 0 .. 7 /\ file' = SubSeq(Shb, 1, k) /\ disk' \in 0 .. k
      BY <3>1, <2>2, <2>3
    <3> QED
      BY <3>1, <3>2, <2>1, <2>2, <2>5, HeaderStep DEF CleanInv
  <2>6. CASE UNCHANGED <<file, disk, lost, writer, made>>
    <3>1. TypeInv' /\ ChainInv' /\ FileInv'
      BY <2>1, <2>2, <2>6, SameFile
    <3>2. Grown(made, made') /\ Grown(added, added') /\ Grown(written, written') /\ disk <= disk'
      BY <2>1, <2>2, <2>6, HistoryTypes
    <3>3. ReaderInv'
      BY <3>1, <3>2, <2>1, <2>2, ReaderKept
    <3> QED
      BY <3>1, <3>3 DEF CleanInv
  <2> QED
    BY <2>4, <2>5, <2>6 DEF OpenWriter
<1> QED
  BY <1>1, <1>2, <1>3 DEF ReadInv

(* What a broken file is used for after an error is not looked at.         *)
LEMMA UseStep ==
  ASSUME ReadInv, Use, lost => lost'
  PROVE  /\ tainted' => lost'
         /\ ~tainted' => ~lost /\ ~tainted /\ CleanInv
BY DEF ReadInv, Use

LEMMA AddInterfaceStep ==
  ASSUME ReadInv, NEW name \in Names, AddInterface(1, name)
  PROVE  ReadInv'
<1> DEFINE w == Idb(1, 0, name)
           i == Interface(1, 0, Shortened(name, NameCap))
<1>1. Use /\ Make(w, 1, 0) /\ UNCHANGED <<writer, readerVars, written>> /\ writer = "open"
  BY DEF AddInterface, Use
<1>2. \/ Accept(w) /\ nextIf' = nextIf + 1 /\ added' = Append(added, i)
      \/ Cut(w) /\ UNCHANGED <<nextIf, added>>
  BY DEF AddInterface
<1>3. w \in Seq(Int) /\ Len(w) \in Nat /\ Len(w) >= 5
  <2>1. name.len # 0 => Words(Min({name.len, NameMax})) \in Nat
    <3>1. name.len \in Nat /\ NameMax \in Nat
      BY DataAssumption, SizeAssumption
    <3>2. Min({name.len, NameMax}) = IF name.len <= NameMax THEN name.len ELSE NameMax
      BY <3>1, MinOfTwo
    <3>3. Min({name.len, NameMax}) \in Nat
      BY <3>1, <3>2
    <3> QED
      BY <3>3, WordsOf
  <2> DEFINE n == Words(Min({name.len, NameMax}))
  <2>2. /\ w \in Seq(Int)
        /\ name.len = 0 => Len(w) = 5
        /\ name.len # 0 => Len(w) = 7 + n
    BY IdbWords
  <2>3. name.len # 0 => n \in Nat
    BY <2>1
  <2>4. w \in Seq(Int) => Len(w) \in Nat
    OBVIOUS
  <2> HIDE DEF n, w
  <2>5. CASE name.len = 0
    <3>1. Len(w) = 5 /\ w \in Seq(Int)
      BY <2>2, <2>5
    <3> QED
      BY <3>1
  <2>6. CASE name.len # 0
    <3>1. n \in Nat /\ Len(w) = 7 + n /\ w \in Seq(Int)
      BY <2>2, <2>3, <2>6
    <3> QED
      BY <3>1
  <2> QED
    BY <2>5, <2>6
<1> HIDE DEF w
<1>4. lost => lost'
  BY <1>2 DEF Accept, Cut
<1>5. ASSUME ~tainted'  PROVE CleanInv'
  <2>1. ~lost /\ TypeInv /\ ChainInv /\ FileInv /\ ReaderInv
    BY <1>1, <1>4, <1>5, UseStep DEF CleanInv
  <2>2. /\ file \in Seq(Int) /\ disk \in Nat /\ Len(file) \in Nat /\ disk <= Len(file)
        /\ made # <<>> /\ added \in Seq(KnownInterfaces) /\ written \in Seq(KnownPackets)
    BY <2>1, <1>1 DEF TypeInv
  <2>3. i \in KnownInterfaces
    BY DEF KnownInterfaces
  <2> HIDE DEF i
  <2>4. /\ Append(added, i) \in Seq(KnownInterfaces) /\ Len(Append(added, i)) = Len(added) + 1
        /\ Grown(added, Append(added, i)) /\ Append(added, i)[Len(added) + 1] = i
    BY <2>2, <2>3, GrownAppend
  <2>5. Grown(added, added) /\ Grown(written, written) /\ Len(added) \in Nat /\ Len(written) \in Nat
    BY <2>1, HistoryTypes
  <2>6. CASE Accept(w) /\ nextIf' = nextIf + 1 /\ added' = Append(added, i)
    <3> DEFINE k == Len(file) + Len(w)
    <3>1. file' = file \o w /\ disk' = disk /\ lost' = lost
      BY <2>6 DEF Accept
    <3>2. SubSeq(file \o w, 1, k) = file \o w
      BY <1>3, <2>2
    <3>3. k \in Nat /\ k \in disk .. Len(file) + Len(w) /\ disk \in disk .. k /\ ~(k < Len(file) + Len(w))
      BY <1>3, <2>2
    <3>4. Gives(w, 1, 0, k)
      <4> HIDE DEF k
      <4>1. lost' \in BOOLEAN
        BY <3>1, <2>1 DEF TypeInv
      <4> QED
        BY <3>1, <3>2, <3>3, <4>1, <1>1, <1>3, <2>1, <2>2 DEF Gives
    <3>5. Records(w, 1, 0, k)
      BY <2>2, <2>4, <2>5, <2>6, <1>1 DEF Records
    <3>6. HoldsIdb(w, 1, 0, k, name)
      BY <2>4, <2>6 DEF HoldsIdb, w, i
    <3> HIDE DEF k
    <3> QED
      BY <3>3, <3>4, <3>5, <3>6, <1>3, <2>1, GiveStep DEF CleanInv
  <2>7. CASE Cut(w) /\ UNCHANGED <<nextIf, added>>
    <3>1. PICK k \in disk .. (Len(file) + Len(w) - 1) :
            file' = SubSeq(file \o w, 1, k) /\ disk' = k /\ lost' = TRUE
      BY <2>7 DEF Cut
    <3>2. k \in Nat /\ k \in disk .. Len(file) + Len(w) /\ k \in disk .. k /\ k # Len(file) + Len(w)
      BY <3>1, <1>3, <2>2
    <3>3. Gives(w, 1, 0, k)
      BY <3>1, <3>2, <1>1, <1>3, <2>1, <2>2 DEF Gives
    <3>4. Records(w, 1, 0, k)
      BY <3>1, <2>2, <2>5, <2>7, <1>1 DEF Records
    <3>5. HoldsIdb(w, 1, 0, k, name)
      BY <3>2 DEF HoldsIdb, w
    <3> QED
      BY <3>2, <3>3, <3>4, <3>5, <1>3, <2>1, GiveStep DEF CleanInv
  <2> QED
    BY <1>2, <2>6, <2>7
<1> QED
  BY <1>1, <1>4, <1>5, UseStep DEF ReadInv

LEMMA WritePacketStep ==
  ASSUME ReadInv, NEW id \in {0, 1}, NEW time \in Times, NEW p \in Captures, WritePacket(id, time, p)
  PROVE  ReadInv'
<1> DEFINE w == Epb(id, time, p)
           q == Packet(id, time, p.len, p)
<1>1. Use /\ UNCHANGED <<writer, nextIf, readerVars, added>> /\ writer = "open"
  BY DEF WritePacket, Use
<1>2. \/ UNCHANGED <<file, disk, lost, written, made>>
      \/ id < nextIf /\ Make(w, 0, 1) /\ Accept(w) /\ written' = Append(written, q)
      \/ id < nextIf /\ Make(w, 0, 1) /\ Cut(w) /\ UNCHANGED written
  BY DEF WritePacket
<1>3. w \in Seq(Int) /\ Len(w) \in Nat /\ Len(w) >= 8
  <2>1. p.len \in Nat /\ time \in Nat /\ id \in Nat
    BY DataAssumption, SizeAssumption
  <2>2. Words(p.len) \in Nat
    BY <2>1, WordsOf
  <2>3. w \in Seq(Int) /\ Len(w) = 8 + Words(p.len)
    BY <2>1, EpbWords
  <2> HIDE DEF w
  <2> QED
    BY <2>2, <2>3
<1> HIDE DEF w
<1>4. lost => lost'
  BY <1>2 DEF Accept, Cut
<1>5. ASSUME ~tainted'  PROVE CleanInv'
  <2>1. ~lost /\ TypeInv /\ ChainInv /\ FileInv /\ ReaderInv
    BY <1>1, <1>4, <1>5, UseStep DEF CleanInv
  <2>2. /\ file \in Seq(Int) /\ disk \in Nat /\ Len(file) \in Nat /\ disk <= Len(file)
        /\ made # <<>> /\ added \in Seq(KnownInterfaces) /\ written \in Seq(KnownPackets)
    BY <2>1, <1>1 DEF TypeInv
  <2>3. q \in KnownPackets
    BY DEF KnownPackets
  <2> HIDE DEF q
  <2>4. /\ Append(written, q) \in Seq(KnownPackets) /\ Len(Append(written, q)) = Len(written) + 1
        /\ Grown(written, Append(written, q)) /\ Append(written, q)[Len(written) + 1] = q
    BY <2>2, <2>3, GrownAppend
  <2>5. Grown(added, added) /\ Grown(written, written) /\ Grown(made, made)
        /\ Len(added) \in Nat /\ Len(written) \in Nat
    BY <2>1, HistoryTypes
  <2>6. CASE UNCHANGED <<file, disk, lost, written, made>>
    <3>1. TypeInv' /\ ChainInv' /\ FileInv'
      BY <1>1, <2>1, <2>6, SameFile
    <3>2. Grown(made, made') /\ Grown(added, added') /\ Grown(written, written') /\ disk <= disk'
      BY <1>1, <2>2, <2>5, <2>6
    <3>3. ReaderInv'
      BY <3>1, <3>2, <1>1, <2>1, ReaderKept
    <3> QED
      BY <3>1, <3>3 DEF CleanInv
  <2>7. CASE id < nextIf /\ Make(w, 0, 1) /\ Accept(w) /\ written' = Append(written, q)
    <3> DEFINE k == Len(file) + Len(w)
    <3>1. file' = file \o w /\ disk' = disk /\ lost' = lost
      BY <2>7 DEF Accept
    <3>2. SubSeq(file \o w, 1, k) = file \o w
      BY <1>3, <2>2
    <3>3. k \in Nat /\ k \in disk .. Len(file) + Len(w) /\ disk \in disk .. k /\ ~(k < Len(file) + Len(w))
      BY <1>3, <2>2
    <3>4. Gives(w, 0, 1, k)
      <4> HIDE DEF k
      <4>1. lost' \in BOOLEAN
        BY <3>1, <2>1 DEF TypeInv
      <4> QED
        BY <3>1, <3>2, <3>3, <4>1, <1>1, <1>3, <2>1, <2>2, <2>7 DEF Gives
    <3>5. Records(w, 0, 1, k)
      <4>1. nextIf \in Nat
        BY <2>1, <2>2, EntryTypes DEF FileInv, Newest
      <4>2. nextIf' = nextIf + 0
        BY <4>1, <1>1
      <4> HIDE DEF k
      <4> QED
        BY <2>2, <2>4, <2>5, <2>7, <1>1, <4>2 DEF Records
    <3>6. HoldsEpb(w, 0, 1, k, id, time, p)
      BY <2>4, <2>7 DEF HoldsEpb, w, q
    <3> HIDE DEF k
    <3> QED
      BY <3>3, <3>4, <3>5, <3>6, <1>3, <2>1, GiveStep DEF CleanInv
  <2>8. CASE id < nextIf /\ Make(w, 0, 1) /\ Cut(w) /\ UNCHANGED written
    <3>1. PICK k \in disk .. (Len(file) + Len(w) - 1) :
            file' = SubSeq(file \o w, 1, k) /\ disk' = k /\ lost' = TRUE
      BY <2>8 DEF Cut
    <3>2. k \in Nat /\ k \in disk .. Len(file) + Len(w) /\ k \in disk .. k /\ k # Len(file) + Len(w)
      BY <3>1, <1>3, <2>2
    <3>3. Gives(w, 0, 1, k)
      BY <3>1, <3>2, <1>1, <1>3, <2>1, <2>2, <2>8 DEF Gives
    <3>4. Records(w, 0, 1, k)
      BY <3>1, <2>2, <2>5, <2>8, <1>1 DEF Records
    <3>5. HoldsEpb(w, 0, 1, k, id, time, p)
      BY <3>2, <2>8 DEF HoldsEpb, w
    <3> QED
      BY <3>2, <3>3, <3>4, <3>5, <1>3, <2>1, GiveStep DEF CleanInv
  <2> QED
    BY <1>2, <2>6, <2>7, <2>8
<1> QED
  BY <1>1, <1>4, <1>5, UseStep DEF ReadInv

(* fclose() and the death of the process: what waits may be lost.          *)
LEMMA CloseWriterStep ==
  ASSUME ReadInv, CloseWriter \/ Die
  PROVE  ReadInv'
<1>1. /\ writer = "open" /\ writer' = "closed" /\ tainted' = tainted
      /\ UNCHANGED <<nextIf, readerVars, added, written, made>>
  BY DEF CloseWriter, Die
<1>2. \/ disk' = Len(file) /\ UNCHANGED <<file, lost>>
      \/ disk < Len(file) /\ Cut(<<>>)
  BY DEF CloseWriter, Die
<1>3. tainted => lost'
  <2>1. tainted => lost
    BY DEF ReadInv
  <2>2. lost' = lost \/ lost' = TRUE
    BY <1>2 DEF Cut
  <2> QED
    BY <2>1, <2>2
<1>4. ASSUME ~tainted  PROVE CleanInv'
  <2>1. TypeInv /\ ChainInv /\ FileInv /\ ReaderInv
    BY <1>4 DEF ReadInv, CleanInv
  <2>2. file \in Seq(Int) /\ disk \in Nat /\ Len(file) \in Nat /\ disk <= Len(file) /\ lost \in BOOLEAN
    BY <2>1 DEF TypeInv
  <2>3. CASE disk' = Len(file) /\ UNCHANGED <<file, lost>>
    <3> DEFINE k == Len(file)
    <3>1. k \in disk .. Len(file) /\ file' = SubSeq(file, 1, k) /\ disk' = k
          /\ ~(k < Len(file)) /\ lost' = lost /\ lost' \in BOOLEAN
      BY <2>2, <2>3
    <3> HIDE DEF k
    <3> QED
      BY <3>1, <1>1, <2>1, LoseStep DEF CleanInv
  <2>4. CASE disk < Len(file) /\ Cut(<<>>)
    <3>1. PICK k \in disk .. (Len(file) + Len(<<>>) - 1) :
            file' = SubSeq(file \o <<>>, 1, k) /\ disk' = k /\ lost' = TRUE
      BY <2>4 DEF Cut
    <3>2. file \o <<>> = file /\ Len(<<>>) = 0
      BY <2>2
    <3>3. k \in disk .. Len(file) /\ k # Len(file)
      BY <3>2, <2>2
    <3> QED
      BY <3>1, <3>2, <3>3, <1>1, <2>1, LoseStep DEF CleanInv
  <2> QED
    BY <1>2, <2>3, <2>4
<1> QED
  BY <1>1, <1>3, <1>4 DEF ReadInv

LEMMA FlushStep ==
  ASSUME ReadInv, Flush
  PROVE  ReadInv'
<1>1. /\ UNCHANGED <<file, writer, nextIf, readerVars, added, written, made, lost, tainted>>
      /\ disk' \in (disk + 1) .. Len(file)
  BY DEF Flush, writerVars
<1>2. ASSUME ~tainted  PROVE CleanInv'
  <2>1. TypeInv /\ ChainInv /\ FileInv /\ ReaderInv
    BY <1>2 DEF ReadInv, CleanInv
  <2>2. file \in Seq(Int) /\ disk \in Nat /\ disk <= Len(file) /\ disk' \in 0 .. Len(file') /\ disk <= disk'
    BY <1>1, <2>1 DEF TypeInv
  <2>3. TypeInv'
    <3>1. Entry' = Entry /\ KnownInterfaces' = KnownInterfaces /\ KnownPackets' = KnownPackets
      BY DEF Entry, KnownInterfaces, KnownPackets
    <3> QED
      BY <3>1, <1>1, <2>1, <2>2 DEF TypeInv
  <2>4. ChainInv'
    BY <1>1, <2>1 DEF ChainInv, Start, IsIdb, IsEpb, InFile
  <2>5. FileInv'
    BY <1>1, <2>1 DEF FileInv, Start, Newest
  <2>6. Grown(made, made') /\ Grown(added, added') /\ Grown(written, written')
    BY <1>1, <2>1, HistoryTypes
  <2>7. ReaderInv'
    BY <2>1, <2>2, <2>3, <2>6, <1>1, ReaderKept
  <2> QED
    BY <2>3, <2>4, <2>5, <2>7 DEF CleanInv
<1> QED
  BY <1>1, <1>2 DEF ReadInv

(* What a step of the reader does not touch.                               *)
LEMMA ReaderTypes ==
  ASSUME TypeInv, ReaderInv
  PROVE  /\ ifaces \in Seq(KnownInterfaces) /\ returned \in Seq(KnownPackets)
         /\ Len(ifaces) \in Nat /\ DOMAIN ifaces = 1 .. Len(ifaces)
         /\ Len(returned) \in Nat /\ DOMAIN returned = 1 .. Len(returned)
         /\ Len(added) \in Nat /\ DOMAIN added = 1 .. Len(added)
         /\ Len(written) \in Nat /\ DOMAIN written = 1 .. Len(written)
         /\ \A i \in DOMAIN added : added[i] \in KnownInterfaces
         /\ \A i \in DOMAIN written : written[i] \in KnownPackets
         /\ disk \in Nat /\ Len(file) \in Nat /\ disk <= Len(file)
<1>1. ifaces \in Seq(KnownInterfaces) /\ returned \in Seq(KnownPackets)
  BY DEF ReaderInv
<1>2. added \in Seq(KnownInterfaces) /\ written \in Seq(KnownPackets)
  BY DEF TypeInv
<1>3. file \in Seq(Int) /\ disk \in 0 .. Len(file)
  BY DEF TypeInv
<1> QED
  BY <1>1, <1>2, <1>3

LEMMA OpenReaderStep ==
  ASSUME CleanInv, OpenReader
  PROVE  CleanInv'
<1>1. TypeInv /\ ChainInv /\ FileInv /\ ReaderInv
  BY DEF CleanInv
<1>2. /\ UNCHANGED <<file, disk, writer, nextIf, added, written, made, lost, ifaces, returned>>
      /\ reader = "none" /\ whole' = (disk = Len(file) /\ file # <<>> /\ ~lost)
  BY DEF OpenReader, FileUnchanged, Observe, writerVars
<1> DEFINE valid == /\ disk >= 7 /\ file[1] = SHB
                    /\ file[3] \in {Magic, -Magic} /\ file[7] = file[2]
<1>3. \/ valid /\ reader' = "scan" /\ at' = 8
      \/ ~valid /\ reader' = "refused" /\ UNCHANGED at
  BY ShbWords DEF OpenReader
<1>4. TypeInv' /\ ChainInv' /\ FileInv'
  BY <1>1, <1>2, SameFile
<1>5. ifaces = <<>> /\ returned = <<>>
  BY <1>1, <1>2 DEF ReaderInv
<1>6. disk >= 7 => /\ made # <<>> /\ made[1].next = 8 /\ made[1].ifs = 0 /\ made[1].pks = 0
                   /\ file[1] = SHB /\ file[3] = Magic /\ file[7] = file[2]
  BY <1>1, HeaderThere
<1>7. whole' => valid
  <2>1. whole' => made # <<>>
    BY <1>1, <1>2 DEF TypeInv
  <2>2. whole' => disk >= 7
    BY <2>1, <1>1, <1>2, HeaderThere
  <2> QED
    BY <2>2, <1>6
<1>8. valid => \E n \in DOMAIN made' : made'[n].next = 8 /\ made'[n].ifs = 0 /\ made'[n].pks = 0 /\ 8 <= disk + 1
  <2>1. valid => 1 \in DOMAIN made /\ 8 <= disk + 1
    BY <1>1, <1>6, ReaderTypes, EntryTypes
  <2> QED
    BY <2>1, <1>2, <1>6
<1>9. ReaderInv'
  <2>1. KnownInterfaces' = KnownInterfaces /\ KnownPackets' = KnownPackets
    BY DEF KnownInterfaces, KnownPackets
  <2>2. ifaces' = <<>> /\ returned' = <<>> /\ reader' \in {"scan", "refused"}
    BY <1>2, <1>3, <1>5
  <2>3. Len(ifaces') = 0 /\ Len(returned') = 0 /\ DOMAIN ifaces' = {} /\ DOMAIN returned' = {}
    BY <2>2
  <2>4. ifaces' \in Seq(KnownInterfaces) /\ returned' \in Seq(KnownPackets)
    BY <2>2
  <2>5. reader' = "scan" => \E n \in DOMAIN made' : Between(n)'
    BY <1>2, <1>3, <1>8, <2>3 DEF Between
  <2>6. reader' = "refused" => ~whole'
    BY <1>3, <1>7
  <2>7. Len(added') \in Nat /\ Len(written') \in Nat
    BY <1>1, <1>2, ReaderTypes
  <2> QED
    BY <2>1, <2>2, <2>3, <2>4, <2>5, <2>6, <2>7 DEF ReaderInv
<1> QED
  BY <1>4, <1>9 DEF CleanInv

(* The next block is an interface, or a packet, and the reader has it.     *)
LEMMA GetsInterface ==
  ASSUME TypeInv, ReaderInv, TypeInv', NEW n \in DOMAIN made, Between(n),
         reader # "refused", reader # "none",
         n + 1 \in DOMAIN made, made[n + 1].next <= disk + 1,
         made[n + 1].ifs = made[n].ifs + 1, made[n + 1].ifs <= Len(added),
         made[n + 1].pks = made[n].pks,
         at' = made[n + 1].next, ifaces' = Append(ifaces, added[made[n + 1].ifs]),
         returned' = returned, reader' \in {"scan", "next", "open"},
         reader' = "scan" => reader = "scan",
         UNCHANGED <<disk, made, added, written>>
  PROVE  ReaderInv'
<1>1. /\ Len(ifaces) = made[n].ifs /\ Len(returned) = made[n].pks
      /\ made[n].ifs \in Nat /\ made[n + 1].next \in Nat /\ Len(added) \in Nat
  BY ReaderTypes, EntryTypes DEF Between
<1> DEFINE L == Len(ifaces)
           x == added[L + 1]
<1>2. L \in Nat /\ made[n + 1].ifs = L + 1 /\ L + 1 \in 1 .. Len(added) /\ L + 1 <= Len(added)
  BY <1>1
<1>3. x \in KnownInterfaces /\ ifaces' = Append(ifaces, x) /\ ifaces \in Seq(KnownInterfaces)
  BY <1>2, ReaderTypes
<1> HIDE DEF x
<1>4. /\ ifaces' \in Seq(KnownInterfaces) /\ Len(ifaces') = L + 1 /\ ifaces'[L + 1] = x
      /\ DOMAIN ifaces' = 1 .. L + 1
      /\ \A i \in 1 .. L : ifaces'[i] = ifaces[i]
  BY <1>2, <1>3, GrownAppend DEF Grown
<1>5. ASSUME NEW i \in DOMAIN ifaces'  PROVE ifaces'[i] = added'[i]
  <2>1. CASE i = L + 1
    BY <2>1, <1>4 DEF x
  <2>2. CASE i # L + 1
    <3>1. i \in 1 .. L
      BY <2>2, <1>2, <1>4
    <3>2. ifaces[i] = added[i]
      BY <3>1, ReaderTypes DEF ReaderInv
    <3> QED
      BY <3>1, <3>2, <1>4
  <2> QED
    BY <2>1, <2>2
<1>6. Between(n + 1)'
  BY <1>1, <1>2, <1>4 DEF Between
<1>7. ASSUME NEW i \in DOMAIN returned'
      PROVE  returned'[i].iface < Len(ifaces') /\ returned'[i] = written'[i]
  <2>1. returned[i].iface < L /\ returned[i] = written[i]
    BY DEF ReaderInv
  <2>2. returned[i].iface \in Nat
    <3>1. returned[i] \in KnownPackets
      BY ReaderTypes, ElementOfSeq
    <3>2. \A z \in KnownPackets : z.iface \in {0, 1}
      BY DEF KnownPackets, Packet
    <3> QED
      BY <3>1, <3>2
  <2> QED
    BY <2>1, <2>2, <1>2, <1>4
<1>8. KnownInterfaces' = KnownInterfaces /\ KnownPackets' = KnownPackets
  BY DEF KnownInterfaces, KnownPackets
<1>9. reader' = "scan" => returned' = <<>>
  BY DEF ReaderInv
<1>10. Len(returned') <= Len(written') /\ returned' \in Seq(KnownPackets)
  BY DEF ReaderInv
<1>11. Len(ifaces') <= Len(added')
  BY <1>2, <1>4
<1> QED
  BY <1>4, <1>5, <1>6, <1>7, <1>8, <1>9, <1>10, <1>11 DEF ReaderInv

LEMMA GetsPacket ==
  ASSUME TypeInv, ReaderInv, TypeInv', NEW n \in DOMAIN made, Between(n),
         reader # "refused", reader # "none",
         n + 1 \in DOMAIN made, made[n + 1].next <= disk + 1,
         made[n + 1].pks = made[n].pks + 1, made[n + 1].pks <= Len(written),
         made[n + 1].ifs = made[n].ifs, written[made[n + 1].pks].iface < made[n].ifs,
         at' = made[n + 1].next, returned' = Append(returned, written[made[n + 1].pks]),
         ifaces' = ifaces, reader' \in {"next", "open"},
         UNCHANGED <<disk, made, added, written>>
  PROVE  ReaderInv'
<1>1. /\ Len(ifaces) = made[n].ifs /\ Len(returned) = made[n].pks
      /\ made[n].pks \in Nat /\ made[n + 1].next \in Nat /\ Len(written) \in Nat
  BY ReaderTypes, EntryTypes DEF Between
<1> DEFINE L == Len(returned)
           x == written[L + 1]
<1>2. L \in Nat /\ made[n + 1].pks = L + 1 /\ L + 1 \in 1 .. Len(written) /\ L + 1 <= Len(written)
  BY <1>1
<1>3. /\ x \in KnownPackets /\ returned' = Append(returned, x) /\ returned \in Seq(KnownPackets)
      /\ x.iface < Len(ifaces)
  BY <1>1, <1>2, ReaderTypes
<1> HIDE DEF x
<1>4. /\ returned' \in Seq(KnownPackets) /\ Len(returned') = L + 1 /\ returned'[L + 1] = x
      /\ DOMAIN returned' = 1 .. L + 1
      /\ \A i \in 1 .. L : returned'[i] = returned[i]
  BY <1>2, <1>3, GrownAppend DEF Grown
<1>5. ASSUME NEW i \in DOMAIN returned'
      PROVE  returned'[i] = written'[i] /\ returned'[i].iface < Len(ifaces')
  <2>1. CASE i = L + 1
    <3>1. returned'[i] = written'[i]
      BY <2>1, <1>4 DEF x
    <3>2. returned'[i].iface < Len(ifaces')
      BY <2>1, <1>3, <1>4
    <3> QED
      BY <3>1, <3>2
  <2>2. CASE i # L + 1
    <3>1. i \in 1 .. L /\ i \in DOMAIN returned
      BY <2>2, <1>2, <1>4, ReaderTypes
    <3>2. returned[i] = written[i] /\ returned[i].iface < Len(ifaces)
      BY <3>1 DEF ReaderInv
    <3> QED
      BY <3>1, <3>2, <1>4
  <2> QED
    BY <2>1, <2>2
<1>6. Between(n + 1)'
  BY <1>1, <1>2, <1>4 DEF Between
<1>7. ifaces' \in Seq(KnownInterfaces) /\ Len(ifaces') <= Len(added') /\ \A i \in DOMAIN ifaces' : ifaces'[i] = added'[i]
  BY DEF ReaderInv
<1>8. KnownInterfaces' = KnownInterfaces /\ KnownPackets' = KnownPackets
  BY DEF KnownInterfaces, KnownPackets
<1>9. Len(returned') <= Len(written')
  BY <1>2, <1>4
<1> QED
  BY <1>4, <1>5, <1>6, <1>7, <1>8, <1>9 DEF ReaderInv

(* The reader stays where it is.                                           *)
LEMMA Stays ==
  ASSUME ReaderInv, NEW n \in DOMAIN made, Between(n),
         reader # "refused", reader # "none",
         UNCHANGED <<at, ifaces, returned, disk, made, added, written>>,
         reader' \in {"open", "eof", "error"},
         reader' = "error" /\ whole' => TooLong
  PROVE  ReaderInv'
<1>1. KnownInterfaces' = KnownInterfaces /\ KnownPackets' = KnownPackets
  BY DEF KnownInterfaces, KnownPackets
<1>2. Between(n)' /\ n \in DOMAIN made'
  BY DEF Between
<1>3. reader' \in {"error", "refused"} /\ whole' => \E i \in DOMAIN written' : written'[i].len > MaxPacket
  BY DEF TooLong
<1> QED
  BY <1>1, <1>2, <1>3 DEF ReaderInv

LEMMA PrescanStep ==
  ASSUME CleanInv, Prescan
  PROVE  CleanInv'
<1>1. TypeInv /\ ChainInv /\ FileInv /\ ReaderInv
  BY DEF CleanInv
<1>2. /\ UNCHANGED <<file, disk, writer, nextIf, added, written, made, lost, returned>>
      /\ reader = "scan" /\ whole' = (disk = Len(file) /\ file # <<>> /\ ~lost)
  BY DEF Prescan, FileUnchanged, Observe, writerVars
<1> DEFINE r == ReadBlock(at, ifaces)
<1>3. \/ ~Have(at) /\ reader' = "open" /\ UNCHANGED <<at, ifaces>>
      \/ Have(at) /\ WordAt(at) # IDB /\ reader' = "open" /\ at' = at /\ UNCHANGED ifaces
      \/ /\ Have(at) /\ WordAt(at) = IDB /\ r.st = "ok"
         /\ at' = r.at /\ ifaces' = r.ifaces /\ UNCHANGED reader
      \/ /\ Have(at) /\ WordAt(at) = IDB /\ r.st # "ok"
         /\ reader' = "refused" /\ at' = 0 /\ ifaces' = <<>>
  BY DEF Prescan, StopAt
<1>4. TypeInv' /\ ChainInv' /\ FileInv'
  BY <1>1, <1>2, SameFile
<1>5. PICK n \in DOMAIN made : Between(n)
  BY <1>1, <1>2 DEF ReaderInv
<1>6. \/ /\ r.st \in {"eof", "error"}
         /\ Have(at) => r.st = "error"
         /\ r.st = "error" /\ disk = Len(file) /\ ~lost => TooLong
      \/ /\ n + 1 \in DOMAIN made /\ made[n + 1].next <= disk + 1
         /\ made[n + 1].ifs = made[n].ifs + 1 /\ made[n + 1].ifs <= Len(added)
         /\ made[n + 1].pks = made[n].pks
         /\ r = Read(made[n + 1].next, Append(ifaces, added[made[n + 1].ifs]), <<>>)
      \/ Have(at) => WordAt(at) # IDB
  BY <1>1, <1>5, ReadsNext
<1> HIDE DEF r
<1>7. CASE UNCHANGED <<at, ifaces>> /\ reader' = "open"
  <2>1. ReaderInv'
    BY <1>1, <1>2, <1>5, <1>7, Stays
  <2> QED
    BY <2>1, <1>4 DEF CleanInv
<1>8. CASE /\ Have(at) /\ WordAt(at) = IDB /\ r.st = "ok"
           /\ at' = r.at /\ ifaces' = r.ifaces /\ UNCHANGED reader
  <2>1. /\ n + 1 \in DOMAIN made /\ made[n + 1].next <= disk + 1
        /\ made[n + 1].ifs = made[n].ifs + 1 /\ made[n + 1].ifs <= Len(added)
        /\ made[n + 1].pks = made[n].pks
        /\ r = Read(made[n + 1].next, Append(ifaces, added[made[n + 1].ifs]), <<>>)
    BY <1>6, <1>8
  <2>2. at' = made[n + 1].next /\ ifaces' = Append(ifaces, added[made[n + 1].ifs])
    BY <2>1, <1>8 DEF Read
  <2>3. ReaderInv'
    BY <2>1, <2>2, <1>1, <1>2, <1>4, <1>5, <1>8, GetsInterface
  <2> QED
    BY <2>3, <1>4 DEF CleanInv
<1>9. CASE /\ Have(at) /\ WordAt(at) = IDB /\ r.st # "ok"
           /\ reader' = "refused" /\ at' = 0 /\ ifaces' = <<>>
  <2>1. whole' => TooLong
    <3>1. r.st = "error" /\ (r.st = "error" /\ disk = Len(file) /\ ~lost => TooLong)
      <4>1. \A next, known, packets : Read(next, known, packets).st = "ok"
        BY DEF Read
      <4> QED
        BY <4>1, <1>6, <1>9
    <3> QED
      BY <3>1, <1>2
  <2>2. returned = <<>> /\ returned' = <<>>
    BY <1>1, <1>2 DEF ReaderInv
  <2>3. Len(ifaces') = 0 /\ Len(returned') = 0 /\ DOMAIN ifaces' = {} /\ DOMAIN returned' = {}
    BY <2>2, <1>9
  <2>4. ifaces' \in Seq(KnownInterfaces)' /\ returned' \in Seq(KnownPackets)'
    BY <2>2, <1>9
  <2>5. Len(added') \in Nat /\ Len(written') \in Nat
    BY <1>1, <1>2, ReaderTypes
  <2>6. whole' => \E i \in DOMAIN written' : written'[i].len > MaxPacket
    BY <2>1, <1>2 DEF TooLong
  <2>7. ReaderInv'
    BY <2>2, <2>3, <2>4, <2>5, <2>6, <1>9 DEF ReaderInv
  <2> QED
    BY <2>7, <1>4 DEF CleanInv
<1> QED
  BY <1>3, <1>7, <1>8, <1>9

LEMMA ReadPacketStep ==
  ASSUME CleanInv, ReadPacket
  PROVE  CleanInv'
<1>1. TypeInv /\ ChainInv /\ FileInv /\ ReaderInv
  BY DEF CleanInv
<1>2. /\ UNCHANGED <<file, disk, writer, nextIf, added, written, made, lost>>
      /\ reader \in {"open", "eof", "next"} /\ whole' = (disk = Len(file) /\ file # <<>> /\ ~lost)
  BY DEF ReadPacket, FileUnchanged, Observe, writerVars
<1> DEFINE r == ReadBlock(at, ifaces)
<1>3. \/ /\ r.st = "ok" /\ reader' \in {"next", "open"}
         /\ at' = r.at /\ ifaces' = r.ifaces /\ returned' = returned \o r.packets
      \/ r.st # "ok" /\ reader' = r.st /\ UNCHANGED <<at, ifaces, returned>>
  BY DEF ReadPacket
<1>4. TypeInv' /\ ChainInv' /\ FileInv'
  BY <1>1, <1>2, SameFile
<1>5. PICK n \in DOMAIN made : Between(n)
  BY <1>1, <1>2 DEF ReaderInv
<1>6. returned \in Seq(KnownPackets)
  BY <1>1 DEF ReaderInv
<1>7. \/ /\ r.st \in {"eof", "error"}
         /\ r.st = "error" /\ disk = Len(file) /\ ~lost => TooLong
      \/ /\ n + 1 \in DOMAIN made /\ made[n + 1].next <= disk + 1
         /\ \/ /\ made[n + 1].ifs = made[n].ifs + 1 /\ made[n + 1].ifs <= Len(added)
               /\ made[n + 1].pks = made[n].pks
               /\ r = Read(made[n + 1].next, Append(ifaces, added[made[n + 1].ifs]), <<>>)
            \/ /\ made[n + 1].pks = made[n].pks + 1 /\ made[n + 1].pks <= Len(written)
               /\ made[n + 1].ifs = made[n].ifs
               /\ written[made[n + 1].pks].iface < made[n].ifs
               /\ r = Read(made[n + 1].next, ifaces, <<written[made[n + 1].pks]>>)
  BY <1>1, <1>5, ReadsNext
<1> HIDE DEF r
<1>8. CASE r.st # "ok" /\ reader' = r.st /\ UNCHANGED <<at, ifaces, returned>>
  <2>1. r.st \in {"eof", "error"} /\ (r.st = "error" /\ disk = Len(file) /\ ~lost => TooLong)
    BY <1>7, <1>8 DEF Read
  <2>2. reader' \in {"eof", "error"} /\ (reader' = "error" /\ whole' => TooLong)
    BY <2>1, <1>2, <1>8
  <2>3. ReaderInv'
    BY <2>2, <1>1, <1>2, <1>5, <1>8, Stays
  <2> QED
    BY <2>3, <1>4 DEF CleanInv
<1>9. CASE /\ r.st = "ok" /\ reader' \in {"next", "open"}
           /\ at' = r.at /\ ifaces' = r.ifaces /\ returned' = returned \o r.packets
  <2>1. n + 1 \in DOMAIN made /\ made[n + 1].next <= disk + 1
    BY <1>7, <1>9
  <2>2. CASE /\ made[n + 1].ifs = made[n].ifs + 1 /\ made[n + 1].ifs <= Len(added)
             /\ made[n + 1].pks = made[n].pks
             /\ r = Read(made[n + 1].next, Append(ifaces, added[made[n + 1].ifs]), <<>>)
    <3>1. /\ at' = made[n + 1].next /\ ifaces' = Append(ifaces, added[made[n + 1].ifs])
          /\ returned' = returned \o <<>>
      BY <2>2, <1>9 DEF Read
    <3>2. returned' = returned
      BY <3>1, <1>6
    <3>3. ReaderInv'
      BY <2>1, <2>2, <3>1, <3>2, <1>1, <1>2, <1>4, <1>5, <1>9, GetsInterface
    <3> QED
      BY <3>3, <1>4 DEF CleanInv
  <2>3. CASE /\ made[n + 1].pks = made[n].pks + 1 /\ made[n + 1].pks <= Len(written)
             /\ made[n + 1].ifs = made[n].ifs
             /\ written[made[n + 1].pks].iface < made[n].ifs
             /\ r = Read(made[n + 1].next, ifaces, <<written[made[n + 1].pks]>>)
    <3> DEFINE x == written[made[n + 1].pks]
    <3>1. /\ at' = made[n + 1].next /\ ifaces' = ifaces /\ returned' = returned \o <<x>>
      BY <2>3, <1>9 DEF Read
    <3>2. x \in KnownPackets
      <4>1. made[n].pks \in Nat /\ Len(written) \in Nat /\ DOMAIN written = 1 .. Len(written)
        BY <1>1, EntryTypes, ReaderTypes
      <4>2. made[n + 1].pks \in DOMAIN written
        BY <4>1, <2>3
      <4> QED
        BY <4>2, <1>1, ReaderTypes
    <3> HIDE DEF x
    <3>3. returned' = Append(returned, x)
      BY <3>1, <3>2, <1>6
    <3>4. ReaderInv'
      BY <2>1, <2>3, <3>1, <3>3, <1>1, <1>2, <1>4, <1>5, <1>9, GetsPacket DEF x
    <3> QED
      BY <3>4, <1>4 DEF CleanInv
  <2> QED
    BY <2>2, <2>3, <1>7, <1>9
<1> QED
  BY <1>3, <1>8, <1>9

LEMMA CloseReaderStep ==
  ASSUME CleanInv, CloseReader
  PROVE  CleanInv'
<1>1. TypeInv /\ ChainInv /\ FileInv /\ ReaderInv
  BY DEF CleanInv
<1>2. /\ UNCHANGED <<file, disk, writer, nextIf, added, written, made, lost, whole>>
      /\ reader' = "none" /\ ifaces' = <<>> /\ returned' = <<>>
  BY DEF CloseReader, FileUnchanged, writerVars
<1>3. TypeInv' /\ ChainInv' /\ FileInv'
  BY <1>1, <1>2, SameFile
<1>4. Len(ifaces') = 0 /\ Len(returned') = 0 /\ DOMAIN ifaces' = {} /\ DOMAIN returned' = {}
  BY <1>2
<1>5. ifaces' \in Seq(KnownInterfaces)' /\ returned' \in Seq(KnownPackets)'
  BY <1>2
<1>6. Len(added') \in Nat /\ Len(written') \in Nat
  BY <1>1, <1>2, ReaderTypes
<1>7. ReaderInv'
  BY <1>2, <1>4, <1>5, <1>6 DEF ReaderInv
<1> QED
  BY <1>3, <1>7 DEF CleanInv

-----------------------------------------------------------------------------
(* The theorems                                                            *)

LEMMA ReadInvStep ==
  ASSUME ReadInv, [PcapngNext]_pcapngVars
  PROVE  ReadInv'
<1>1. CASE UNCHANGED pcapngVars
  <2>1. UNCHANGED <<file, disk, writer, nextIf, added, written, made, lost, tainted, readerVars>>
    BY <1>1 DEF pcapngVars, writerVars
  <2>2. ASSUME ~tainted  PROVE CleanInv'
    <3>1. TypeInv /\ ChainInv /\ FileInv /\ ReaderInv
      BY <2>2 DEF ReadInv, CleanInv
    <3>2. TypeInv' /\ ChainInv' /\ FileInv'
      BY <2>1, <3>1, SameFile
    <3>3. /\ Grown(made, made') /\ Grown(added, added') /\ Grown(written, written')
          /\ disk <= disk'
      BY <2>1, <3>1, HistoryTypes, ReaderTypes
    <3>4. ReaderInv'
      BY <2>1, <3>1, <3>2, <3>3, ReaderKept
    <3> QED
      BY <3>2, <3>4 DEF CleanInv
  <2> QED
    BY <2>1, <2>2 DEF ReadInv
<1>2. CASE OpenWriter
  BY <1>2, OpenWriterStep
<1>3. CASE CloseWriter \/ Die
  BY <1>3, CloseWriterStep
<1>4. CASE Flush
  BY <1>4, FlushStep
<1>5. CASE OpenReader \/ Prescan \/ ReadPacket \/ CloseReader
  <2>1. tainted' = tainted /\ lost' = lost
    BY <1>5 DEF OpenReader, Prescan, ReadPacket, CloseReader, FileUnchanged
  <2>2. CleanInv => CleanInv'
    BY <1>5, OpenReaderStep, PrescanStep, ReadPacketStep, CloseReaderStep
  <2> QED
    BY <2>1, <2>2 DEF ReadInv
<1>6. CASE \E link \in {1}, name \in Names : AddInterface(link, name)
  BY <1>6, AddInterfaceStep
<1>7. CASE \E id \in 0 .. 1, time \in Times, p \in Captures : WritePacket(id, time, p)
  <2>1. 0 .. 1 = {0, 1}
    OBVIOUS
  <2> QED
    BY <1>7, <2>1, WritePacketStep
<1> QED
  BY <1>1, <1>2, <1>3, <1>4, <1>5, <1>6, <1>7 DEF PcapngNext

LEMMA PrefixOf ==
  ASSUME NEW S, NEW T, NEW s \in Seq(S), NEW t \in Seq(T), Len(s) <= Len(t),
         \A i \in DOMAIN s : s[i] = t[i]
  PROVE  IsPrefix(s, t) /\ (Len(s) = Len(t) => s = t)
<1>1. Len(s) \in Nat /\ Len(t) \in Nat /\ DOMAIN s = 1 .. Len(s) /\ DOMAIN t = 1 .. Len(t)
  OBVIOUS
<1>2. SubSeq(s, 1, Len(s)) = s
  OBVIOUS
<1>3. /\ SubSeq(t, 1, Len(s)) \in Seq(T) /\ Len(SubSeq(t, 1, Len(s))) = Len(s)
      /\ \A i \in 1 .. Len(s) : SubSeq(t, 1, Len(s))[i] = t[i]
  BY <1>1, SubSeqProperties
<1>4. s = SubSeq(t, 1, Len(s))
  BY <1>1, <1>3, SeqEqual
<1>5. Len(s) = Len(t) => s = t
  BY <1>1, SeqEqual
<1> QED
  BY <1>2, <1>4, <1>5 DEF IsPrefix

LEMMA ReadInvImplies ==
  ASSUME ReadInv
  PROVE  ReadsWhatWasWritten
<1> SUFFICES ASSUME ~tainted
             PROVE  /\ IsPrefix(returned, written) /\ IsPrefix(ifaces, added)
                    /\ \A i \in DOMAIN returned : returned[i].iface < Len(ifaces)
                    /\ reader = "eof" /\ at = Len(file) + 1 /\ ~lost => returned = written /\ ifaces = added
                    /\ reader \in {"error", "refused"} /\ whole =>
                         \E i \in DOMAIN written : written[i].len > MaxPacket
  BY DEF ReadsWhatWasWritten
<1>1. TypeInv /\ ChainInv /\ FileInv /\ ReaderInv
  BY DEF ReadInv, CleanInv
<1>2. /\ ifaces \in Seq(KnownInterfaces) /\ added \in Seq(KnownInterfaces)
      /\ returned \in Seq(KnownPackets) /\ written \in Seq(KnownPackets)
      /\ Len(ifaces) <= Len(added) /\ \A i \in DOMAIN ifaces : ifaces[i] = added[i]
      /\ Len(returned) <= Len(written) /\ \A i \in DOMAIN returned : returned[i] = written[i]
  BY <1>1 DEF TypeInv, ReaderInv
<1>3. IsPrefix(returned, written) /\ (Len(returned) = Len(written) => returned = written)
  BY <1>2, PrefixOf
<1>4. IsPrefix(ifaces, added) /\ (Len(ifaces) = Len(added) => ifaces = added)
  BY <1>2, PrefixOf
<1>5. ASSUME reader = "eof", at = Len(file) + 1, ~lost
      PROVE  returned = written /\ ifaces = added
  <2>1. PICK n \in DOMAIN made : Between(n)
    BY <1>1, <1>5 DEF ReaderInv
  <2>2. /\ n \in 1 .. Len(made) /\ Len(made) \in Nat /\ Len(made) \in DOMAIN made /\ made # <<>>
        /\ made[n].next \in Nat /\ Newest.next \in Nat
    BY <1>1, EntryTypes DEF Newest
  <2>3. /\ Len(file) = Newest.next - 1 /\ Newest.ifs = Len(added) /\ Newest.pks = Len(written)
    BY <1>1, <1>5, <2>2 DEF FileInv
  <2>4. made[n].next = Newest.next
    BY <1>5, <2>1, <2>2, <2>3 DEF Between
  <2>5. n = Len(made)
    <3>1. n < Len(made) => made[n].next < Newest.next
      BY <1>1, <2>2 DEF ChainInv, Newest
    <3> QED
      BY <3>1, <2>2, <2>4
  <2>6. Len(ifaces) = Len(added) /\ Len(returned) = Len(written)
    BY <2>1, <2>3, <2>5 DEF Between, Newest
  <2> QED
    BY <2>6, <1>3, <1>4
<1>6. /\ \A i \in DOMAIN returned : returned[i].iface < Len(ifaces)
      /\ reader \in {"error", "refused"} /\ whole => \E i \in DOMAIN written : written[i].len > MaxPacket
  BY <1>1 DEF ReaderInv
<1> QED
  BY <1>3, <1>4, <1>5, <1>6

(* ReadInv: the writer's blocks follow each other in the file, and a       *)
(* reader that opens it at any moment is always between two of them, with  *)
(* what is before it (PcapngWriter and PcapngReader on one file).          *)
THEOREM ReaderBetweenBlocks == PcapngSpec /\ Empty => []ReadInv
<1>1. PcapngInit /\ Empty => ReadInv
  BY ReadInvInit
<1>2. ReadInv /\ [PcapngNext]_pcapngVars => ReadInv'
  BY ReadInvStep
<1> QED
  BY <1>1, <1>2, PTL DEF PcapngSpec

(* Of a file that PcapngWriter wrote, whatever its packets and names are,  *)
(* and however much of it has reached the disk, PcapngReader returns a     *)
(* prefix of the packets and interfaces written, unchanged and in order;   *)
(* at the end of a file that lost nothing, all of them; and it fails on    *)
(* such a file only for a packet over PCAPNG_MAX_PACKET.                   *)
THEOREM ReadsItsOwnFiles == PcapngSpec /\ Empty => []ReadsWhatWasWritten
<1>1. ReadInv => ReadsWhatWasWritten
  BY ReadInvImplies
<1> QED
  BY <1>1, ReaderBetweenBlocks, PTL

=============================================================================
