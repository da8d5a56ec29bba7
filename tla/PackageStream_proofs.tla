------------------------ MODULE PackageStream_proofs ------------------------
(***************************************************************************)
(* Proofs about the reception of packages, for every set of messages, every *)
(* size of a header and every bound.                                       *)
(***************************************************************************)
EXTENDS PackageStream, SequenceTheorems, TLAPS

\* What the types do not say about the values of the packages: whatever was
\* sent passed toPackage, and a header belongs to a package that was sent.
SentPackages ==
    /\ \A n \in 1 .. Len(sent) : ToPackage(sent[n])
    /\ hdr.n <= Len(sent)

\* A lost connection counts among those the bound allows.
ReconnectBound == link = "down" => reconnects < MaxReconnects

TypeInv == TypeOK /\ SentPackages /\ BufferBounds /\ ReconnectBound

(* Lemmas about the operators. *)

LEMMA NullHeaderType == NullHeader \in Header
BY ConstantsAssumption DEF NullHeader, Header

LEMMA DecodeType ==
    ASSUME TypeOK, SentPackages, NEW bytes, NEW h \in Decode(bytes)
    PROVE  h \in Header /\ h.n <= Len(sent)
<1> DEFINE whole == {n \in 1 .. Len(sent) : bytes = HeaderBytes(n)}
<1>1. CASE whole # {}
  <2>1. PICK n \in whole : h = [n |-> n, size |-> Size[sent[n]] % SizeLimit, ok |-> TRUE]
    BY <1>1 DEF Decode
  <2>2. sent[n] \in Message /\ Len(sent) \in Nat
    BY <2>1 DEF TypeOK
  <2>3. Size[sent[n]] % SizeLimit \in 0 .. SizeLimit - 1
    BY <2>2, ConstantsAssumption
  <2> QED  BY <2>1, <2>2, <2>3 DEF Header
<1>2. CASE whole = {}
  <2>1. PICK s \in GarbageSize, b \in BOOLEAN : h = [n |-> 0, size |-> s, ok |-> b]
    BY <1>2 DEF Decode
  <2>2. Len(sent) \in Nat
    BY DEF TypeOK
  <2> QED  BY <2>1, <2>2, ConstantsAssumption DEF Header
<1> QED  BY <1>1, <1>2

LEMMA SmallerMin ==
    ASSUME NEW a \in Nat, NEW b \in Nat
    PROVE  Smaller(a, b) \in Nat /\ Smaller(a, b) <= a /\ Smaller(a, b) <= b
BY DEF Smaller

LEMMA Pieces ==
    ASSUME NEW S, NEW s \in Seq(S), NEW i \in Nat \ {0}, NEW j \in Nat, j <= Len(s)
    PROVE  /\ SubSeq(s, i, j) \in Seq(S)
           /\ Len(SubSeq(s, i, j)) = IF i <= j THEN j - i + 1 ELSE 0
           /\ \A k \in 1 .. Len(SubSeq(s, i, j)) :
                 /\ i + k - 1 \in 1 .. Len(s)
                 /\ SubSeq(s, i, j)[k] = s[i + k - 1]
<1>1. \A k \in i .. j : s[k] \in S
  BY ElementOfSeq
<1> QED  BY <1>1, SubSeqProperties

LEMMA MidType ==
    ASSUME array \in Seq(Byte), NEW from \in Nat, NEW len \in Nat
    PROVE  Mid(from, len) \in Seq(Byte) /\ Len(Mid(from, len)) <= len
<1> DEFINE end == Smaller(from + len, Len(array))
<1>0. Len(array) \in Nat /\ from + len \in Nat
  BY LenProperties
<1>1. end \in Nat /\ end <= from + len /\ end <= Len(array)
  BY <1>0, SmallerMin
<1>2. /\ Mid(from, len) \in Seq(Byte)
      /\ Len(Mid(from, len)) = IF from + 1 <= end THEN end - (from + 1) + 1 ELSE 0
  BY <1>0, <1>1, Pieces DEF Mid
<1> QED  BY <1>0, <1>1, <1>2

(* A package with the data of one iteration, put back in place. *)
LEMMA EndOfIterationType ==
    ASSUME TypeInv,
           NEW h \in Header, h.n <= Len(sent),
           NEW d \in Seq(Byte),
           NEW rest \in Seq(Byte), Len(rest) < HeaderSize,
           HeaderIsValid(h) => rest = <<>>,
           EndOfIteration(h, d, rest)
    PROVE  /\ hdr' \in Header
           /\ hdr'.n <= Len(sent)
           /\ data' \in Seq(Byte)
           /\ hdrArray' \in Seq(Byte)
           /\ delivered' \in Seq(1 .. MaxPackages)
           /\ Len(data') <= hdr'.size
           /\ Len(hdrArray') < HeaderSize
           /\ HeaderIsValid(hdr') => hdrArray' = <<>>
           /\ hdrArray' \in {rest, <<>>}
<1> DEFINE reset == hdr' = NullHeader /\ data' = <<>> /\ hdrArray' = <<>>
<1>1. /\ Len(sent) \in Nat /\ Len(sent) <= MaxPackages /\ h.n \in Nat
      /\ h.size \in Nat /\ Len(d) \in Nat
      /\ delivered \in Seq(1 .. MaxPackages)
  BY DEF TypeInv, TypeOK, Header
<1>2. ASSUME reset
      PROVE  /\ hdr' \in Header /\ hdr'.n <= Len(sent)
             /\ data' \in Seq(Byte) /\ hdrArray' \in Seq(Byte)
             /\ Len(data') <= hdr'.size
             /\ Len(hdrArray') < HeaderSize
             /\ HeaderIsValid(hdr') => hdrArray' = <<>>
             /\ hdrArray' \in {rest, <<>>}
  BY <1>1, <1>2, NullHeaderType, EmptySeq, ConstantsAssumption DEF NullHeader
<1>3. CASE PackageIsValid(h, d)
  <2>1. delivered' = Append(delivered, h.n) /\ reset
    BY <1>3 DEF EndOfIteration
  <2>2. h.n \in 1 .. MaxPackages
    BY <1>1, <1>3, ConstantsAssumption DEF PackageIsValid
  <2>3. delivered' \in Seq(1 .. MaxPackages)
    BY <1>1, <2>1, <2>2, AppendProperties
  <2> QED  BY <1>2, <2>1, <2>3
<1>4. CASE ~PackageIsValid(h, d) /\ Len(d) > h.size
  BY <1>1, <1>2, <1>4 DEF EndOfIteration
<1>5. CASE ~PackageIsValid(h, d) /\ ~(Len(d) > h.size)
  <2>1. delivered' = delivered /\ hdr' = h /\ data' = d /\ hdrArray' = rest
    BY <1>5 DEF EndOfIteration
  <2> QED  BY <1>1, <1>5, <2>1
<1> QED  BY <1>3, <1>4, <1>5

-----------------------------------------------------------------------------
(* The types and what avelableBytes keeps of a package between two calls. *)

LEMMA InitTypeInv == Init => TypeInv
<1> SUFFICES ASSUME Init PROVE TypeInv
  OBVIOUS
<1>1. TypeOK
  <2>1. /\ sent \in Seq(Message) /\ Len(sent) = 0 /\ hdr \in Header
        /\ delivered \in Seq(1 .. MaxPackages)
    BY NullHeaderType, EmptySeq DEF Init
  <2>2. /\ wire \in Seq(Byte) /\ buffer \in Seq(Byte) /\ array \in Seq(Byte)
        /\ data \in Seq(Byte) /\ hdrArray \in Seq(Byte)
    BY EmptySeq DEF Init
  <2>3. link \in {"up", "down"} /\ broken \in BOOLEAN /\ reconnects = 0 /\ events = 0
    BY Zenon DEF Init
  <2> QED  BY <2>1, <2>2, <2>3, ConstantsAssumption DEF TypeOK
<1>2. SentPackages /\ BufferBounds /\ ReconnectBound
  BY ConstantsAssumption, EmptySeq
     DEF Init, SentPackages, BufferBounds, ReconnectBound, NullHeader, HeaderIsValid
<1> QED  BY <1>1, <1>2 DEF TypeInv

LEMMA NextTypeInv == TypeInv /\ [Next]_vars => TypeInv'
<1> SUFFICES ASSUME TypeInv, [Next]_vars
             PROVE  TypeInv'
  OBVIOUS
<1> USE DEF TypeInv, ReconnectBound
<1>0. /\ Len(sent) \in Nat /\ Len(wire) \in Nat /\ Len(buffer) \in Nat
      /\ Len(array) \in Nat /\ Len(data) \in Nat /\ Len(hdrArray) \in Nat
  BY DEF TypeOK
<1>1. ASSUME NEW m \in Message, Send(m)
      PROVE  TypeInv'
  <2> DEFINE new == [k \in 1 .. HeaderSize + Size[m] |-> <<Len(sent) + 1, k>>]
  <2>1. /\ sent' = Append(sent, m) /\ sent' \in Seq(Message)
        /\ Len(sent') = Len(sent) + 1
        /\ \A n \in 1 .. Len(sent) : sent'[n] = sent[n]
        /\ sent'[Len(sent) + 1] = m
    BY <1>1, AppendProperties DEF Send, TypeOK
  <2>2. Len(sent') <= MaxPackages /\ Len(sent) + 1 \in 1 .. MaxPackages
    BY <1>0, <1>1, <2>1, ConstantsAssumption DEF Send
  <2>3. new \in Seq(Byte)
    <3>1. HeaderSize + Size[m] \in Nat
      BY ConstantsAssumption
    <3>2. new \in [1 .. HeaderSize + Size[m] -> Byte]
      BY <1>0, <2>2, <3>1 DEF Byte
    <3> QED  BY <3>1, <3>2, SeqDef
  <2>4. wire' \in Seq(Byte)
    BY <1>1, <2>3, ConcatProperties DEF Send, TypeOK
  <2>5. \A n \in 1 .. Len(sent') : ToPackage(sent'[n])
    BY <1>0, <1>1, <2>1 DEF Send, SentPackages
  <2>6. SentPackages'
    <3>1. hdr' = hdr /\ hdr.n \in Nat /\ hdr.n <= Len(sent)
      BY <1>1 DEF Send, receiveData, SentPackages, TypeOK, Header
    <3> QED  BY <1>0, <2>1, <2>5, <3>1 DEF SentPackages
  <2> QED  BY <1>0, <1>1, <2>1, <2>2, <2>4, <2>6
           DEF Send, TypeOK, BufferBounds, receiveData
<1>2. ASSUME NEW c \in 1 .. Len(wire), Arrive(c)
      PROVE  TypeInv'
  <2>1. SubSeq(wire, 1, c) \in Seq(Byte) /\ SubSeq(wire, c + 1, Len(wire)) \in Seq(Byte)
    BY <1>0, Pieces DEF TypeOK
  <2>2. buffer' \in Seq(Byte) /\ wire' \in Seq(Byte)
    BY <1>2, <2>1, ConcatProperties DEF Arrive, TypeOK
  <2>3. events' \in 0 .. MaxEvents
    BY <1>2, ConstantsAssumption DEF Arrive, TypeOK
  <2>4. TypeOK'
    BY <1>2, <2>2, <2>3 DEF Arrive, TypeOK, receiveData
  <2> QED  BY <1>2, <2>4 DEF Arrive, SentPackages, BufferBounds, receiveData
<1>3. CASE Disconnect
  BY <1>3, EmptySeq DEF Disconnect, TypeOK, SentPackages, BufferBounds, receiveData
<1>4. CASE Reconnect
  BY <1>4, ConstantsAssumption
     DEF Reconnect, TypeOK, SentPackages, BufferBounds, receiveData
<1>5. CASE AvelableBytes
  <2>1. events' \in 0 .. MaxEvents
    BY <1>5, ConstantsAssumption DEF AvelableBytes, TypeOK
  <2>2. CASE NoSocket
    BY <1>5, <2>1, <2>2, NullHeaderType, EmptySeq, ConstantsAssumption
       DEF NoSocket, AvelableBytes, TypeOK, SentPackages, BufferBounds, peer,
           NullHeader
  <2>3. CASE ReadAll
    <3>1. array' \in Seq(Byte) /\ buffer' = <<>> /\ hdrArray' = <<>>
      BY <2>3, ConcatProperties DEF ReadAll, TypeOK
    <3> QED  BY <1>5, <2>1, <2>3, <3>1, EmptySeq, ConstantsAssumption
             DEF ReadAll, AvelableBytes, TypeOK, SentPackages, BufferBounds, peer
  <2> QED  BY <1>5, <2>2, <2>3 DEF AvelableBytes
<1>6. CASE FillPackage
  <2> DEFINE length == Smaller(hdr.size - Len(data), Len(array))
             d == data \o Mid(HeaderSize, length)
  <2>1. hdr \in Header /\ hdr.size \in Nat /\ hdr.size - Len(data) \in Nat
    BY <1>0 DEF TypeOK, BufferBounds, Header
  <2>2. length \in Nat /\ length <= Len(array)
    BY <1>0, <2>1, SmallerMin
  <2>3. Mid(HeaderSize, length) \in Seq(Byte)
    BY <2>2, MidType, ConstantsAssumption DEF TypeOK
  <2>4. d \in Seq(Byte)
    BY <2>3, ConcatProperties DEF TypeOK
  <2>5. hdrArray = <<>> /\ Len(hdrArray) < HeaderSize /\ hdrArray \in Seq(Byte)
    BY <1>6 DEF FillPackage, BufferBounds, TypeOK
  <2>6. array' = SubSeq(array, length + 1, Len(array)) /\ array' \in Seq(Byte)
    BY <1>0, <1>6, <2>2, Pieces DEF FillPackage, TypeOK
  <2>7. EndOfIteration(hdr, d, hdrArray)
    BY <1>6 DEF FillPackage
  <2>8. hdr.n <= Len(sent)
    BY DEF SentPackages
  <2>9. /\ hdr' \in Header /\ hdr'.n <= Len(sent) /\ data' \in Seq(Byte)
        /\ hdrArray' \in Seq(Byte) /\ delivered' \in Seq(1 .. MaxPackages)
        /\ Len(data') <= hdr'.size /\ Len(hdrArray') < HeaderSize
        /\ hdrArray' = <<>>
    BY <2>1, <2>4, <2>5, <2>7, <2>8, EndOfIterationType
  <2> QED  BY <1>6, <2>6, <2>9
           DEF FillPackage, TypeOK, SentPackages, BufferBounds, peer
<1>7. CASE NewHeader
  <2>1. PICK h \in Decode(SubSeq(array, 1, HeaderSize)) :
          LET length == Smaller(h.size, Len(array) - HeaderSize)
          IN  /\ EndOfIteration(h, Mid(HeaderSize, length), hdrArray)
              /\ array' = SubSeq(array, HeaderSize + length + 1, Len(array))
    BY <1>7 DEF NewHeader
  <2> DEFINE length == Smaller(h.size, Len(array) - HeaderSize)
  <2>2. h \in Header /\ h.n <= Len(sent)
    BY DecodeType
  <2>3. h.size \in Nat /\ Len(array) - HeaderSize \in Nat
    BY <1>0, <1>7, <2>2, ConstantsAssumption DEF NewHeader, Header
  <2>4. length \in Nat /\ length <= Len(array) - HeaderSize
    BY <2>3, SmallerMin
  <2>5. Mid(HeaderSize, length) \in Seq(Byte)
    BY <2>4, MidType, ConstantsAssumption DEF TypeOK
  <2>6. hdrArray = <<>> /\ hdrArray \in Seq(Byte) /\ Len(hdrArray) < HeaderSize
    BY <1>7 DEF NewHeader, BufferBounds, TypeOK
  <2>7. array' \in Seq(Byte)
    <3>1. array \in Seq(Byte) /\ HeaderSize + length + 1 \in Nat \ {0}
      BY <2>4, ConstantsAssumption DEF TypeOK
    <3>2. SubSeq(array, HeaderSize + length + 1, Len(array)) \in Seq(Byte)
      BY <1>0, <3>1, Pieces
    <3> QED  BY <2>1, <3>2
  <2>8. EndOfIteration(h, Mid(HeaderSize, length), hdrArray)
    BY <2>1
  <2>9. /\ hdr' \in Header /\ hdr'.n <= Len(sent) /\ data' \in Seq(Byte)
        /\ hdrArray' \in Seq(Byte) /\ delivered' \in Seq(1 .. MaxPackages)
        /\ Len(data') <= hdr'.size /\ Len(hdrArray') < HeaderSize
        /\ hdrArray' = <<>>
    BY <2>2, <2>5, <2>6, <2>8, EndOfIterationType
  <2> QED  BY <1>7, <2>7, <2>9
           DEF NewHeader, TypeOK, SentPackages, BufferBounds, peer
<1>8. CASE KeepHeaderPart
  <2>1. hdrArray = <<>> /\ hdrArray \o array = array
    BY <1>8, ConcatEmptySeq DEF KeepHeaderPart, BufferBounds, TypeOK
  <2>2. EndOfIteration(hdr, data, array)
    BY <1>8, <2>1 DEF KeepHeaderPart
  <2>3. /\ hdr \in Header /\ hdr.n <= Len(sent) /\ data \in Seq(Byte)
        /\ array \in Seq(Byte) /\ Len(array) < HeaderSize /\ ~HeaderIsValid(hdr)
    BY <1>8 DEF KeepHeaderPart, TypeOK, SentPackages
  <2>4. /\ hdr' \in Header /\ hdr'.n <= Len(sent) /\ data' \in Seq(Byte)
        /\ hdrArray' \in Seq(Byte) /\ delivered' \in Seq(1 .. MaxPackages)
        /\ Len(data') <= hdr'.size /\ Len(hdrArray') < HeaderSize
        /\ HeaderIsValid(hdr') => hdrArray' = <<>>
    BY <2>2, <2>3, EndOfIterationType
  <2> QED  BY <1>8, <2>4, EmptySeq
           DEF KeepHeaderPart, TypeOK, SentPackages, BufferBounds, peer
<1>9. CASE UNCHANGED vars
  BY <1>9 DEF vars, TypeOK, SentPackages, BufferBounds
<1> QED  BY <1>1, <1>2, <1>3, <1>4, <1>5, <1>6, <1>7, <1>8, <1>9
         DEF Next, Iteration

(* Every state is of its type, and _pkg and _hdrArray stay within the bounds *)
(* that the cases of avelableBytes rely on.                                 *)
THEOREM TypeCorrect == Spec => []TypeInv
BY InitTypeInv, NextTypeInv, PTL DEF Spec

(* The variables keep their types, for all messages, sizes and limits.      *)
THEOREM TypeCorrectness == Spec => []TypeOK
<1>1. TypeInv => TypeOK
  BY DEF TypeInv
<1> QED  BY <1>1, TypeCorrect, PTL

(* Whatever the network brings, _pkg.data never holds more than the header   *)
(* announces and _hdrArray never a whole header.                            *)
THEOREM BoundedReception == Spec => []BufferBounds
<1>1. TypeInv => BufferBounds
  BY DEF TypeInv
<1> QED  BY <1>1, TypeCorrect, PTL

-----------------------------------------------------------------------------
(* Delivery in order.                                                      *)
(*                                                                         *)
(* The bytes that avelableBytes has not consumed yet lie in four places.   *)
(* Read one after the other they are in the order in which they were sent  *)
(* (some may be missing: a lost connection takes the end of the stream, a  *)
(* call without a socket its beginning), and all of them were sent after   *)
(* the header in _pkg and after the header of the package delivered last.  *)

Stream == hdrArray \o (array \o (buffer \o wire))

Before(x, y) == x[1] < y[1] \/ (x[1] = y[1] /\ x[2] < y[2])

Last == Promise!LastDelivered

\* n, l: the package of _pkg and the last one delivered; t: how many were sent.
InOrder(s, n, l, t) ==
    /\ \A i, j \in 1 .. Len(s) : i < j => Before(s[i], s[j])
    /\ \A i \in 1 .. Len(s) :
          /\ Before(<<n, HeaderSize>>, s[i])
          /\ Before(<<l, HeaderSize>>, s[i])
          /\ s[i][1] <= t

OrderInv ==
    /\ InOrder(Stream, hdr.n, Last, Len(sent))
    /\ Last <= Len(sent)
    /\ hdr.n # 0 => hdr.n > Last

LEMMA StreamParts ==
    ASSUME NEW s \in Seq(Byte), NEW t \in Seq(Byte),
           NEW n \in Nat, NEW l \in Nat, NEW c \in Nat,
           InOrder(s \o t, n, l, c)
    PROVE  InOrder(s, n, l, c) /\ InOrder(t, n, l, c)
<1> DEFINE u == s \o t
<1>1. /\ u \in Seq(Byte) /\ Len(u) = Len(s) + Len(t)
      /\ \A i \in 1 .. Len(s) + Len(t) : u[i] = IF i <= Len(s) THEN s[i] ELSE t[i - Len(s)]
  BY ConcatProperties
<1>2. Len(s) \in Nat /\ Len(t) \in Nat
  BY LenProperties
<1>3. ASSUME NEW i \in 1 .. Len(s) PROVE i \in 1 .. Len(u) /\ u[i] = s[i]
  BY <1>1, <1>2
<1>4. ASSUME NEW i \in 1 .. Len(t)
      PROVE  i + Len(s) \in 1 .. Len(u) /\ u[i + Len(s)] = t[i]
  BY <1>1, <1>2
<1>5. InOrder(s, n, l, c)
  BY <1>3 DEF InOrder
<1>6. InOrder(t, n, l, c)
  <2>1. ASSUME NEW i \in 1 .. Len(t), NEW j \in 1 .. Len(t), i < j
        PROVE  Before(t[i], t[j])
    <3>1. i + Len(s) < j + Len(s)
      BY <1>2, <2>1
    <3> QED  BY <1>4, <3>1 DEF InOrder
  <2> QED  BY <1>4, <2>1 DEF InOrder
<1> QED  BY <1>5, <1>6

LEMMA StreamJoin ==
    ASSUME NEW s \in Seq(Byte), NEW t \in Seq(Byte),
           NEW n \in Nat, NEW l \in Nat, NEW c \in Nat,
           InOrder(s, n, l, c), InOrder(t, n, l, c),
           \A i \in 1 .. Len(s), j \in 1 .. Len(t) : Before(s[i], t[j])
    PROVE  InOrder(s \o t, n, l, c)
<1> DEFINE u == s \o t
<1>1. /\ u \in Seq(Byte) /\ Len(u) = Len(s) + Len(t)
      /\ \A i \in 1 .. Len(s) + Len(t) : u[i] = IF i <= Len(s) THEN s[i] ELSE t[i - Len(s)]
  BY ConcatProperties
<1>2. Len(s) \in Nat /\ Len(t) \in Nat
  BY LenProperties
<1>3. ASSUME NEW i \in 1 .. Len(u)
      PROVE  \/ i \in 1 .. Len(s) /\ u[i] = s[i]
             \/ i > Len(s) /\ i - Len(s) \in 1 .. Len(t) /\ u[i] = t[i - Len(s)]
  BY <1>1, <1>2
<1>4. ASSUME NEW i \in 1 .. Len(u), NEW j \in 1 .. Len(u), i < j
      PROVE  Before(u[i], u[j])
  <2>1. CASE i \in 1 .. Len(s) /\ j \in 1 .. Len(s)
    BY <1>1, <1>2, <1>4, <2>1 DEF InOrder
  <2>2. CASE i \in 1 .. Len(s) /\ j > Len(s)
    BY <1>1, <1>2, <1>3, <2>2
  <2>3. CASE i > Len(s) /\ j > Len(s)
    <3>1. i - Len(s) < j - Len(s)
      BY <1>1, <1>2, <1>4
    <3>2. /\ i - Len(s) \in 1 .. Len(t) /\ u[i] = t[i - Len(s)]
          /\ j - Len(s) \in 1 .. Len(t) /\ u[j] = t[j - Len(s)]
      BY <1>2, <1>3, <2>3
    <3> HIDE DEF u
    <3> QED  BY <3>1, <3>2 DEF InOrder
  <2> QED  BY <1>1, <1>2, <1>4, <2>1, <2>2, <2>3
<1>5. \A i \in 1 .. Len(u) : /\ Before(<<n, HeaderSize>>, u[i])
                             /\ Before(<<l, HeaderSize>>, u[i])
                             /\ u[i][1] <= c
  BY <1>3 DEF InOrder
<1> QED  BY <1>4, <1>5 DEF InOrder

LEMMA Cut ==
    ASSUME NEW s \in Seq(Byte), NEW k \in 0 .. Len(s)
    PROVE  /\ SubSeq(s, 1, k) \in Seq(Byte)
           /\ SubSeq(s, k + 1, Len(s)) \in Seq(Byte)
           /\ s = SubSeq(s, 1, k) \o SubSeq(s, k + 1, Len(s))
<1>1. Len(s) \in Nat /\ k \in Nat /\ k <= Len(s)
  BY LenProperties
<1>2. SubSeq(s, 1, k) \in Seq(Byte) /\ SubSeq(s, k + 1, Len(s)) \in Seq(Byte)
  BY <1>1, Pieces
<1>3. CASE Len(s) = 0
  <2>1. s = <<>> /\ k = 0
    BY <1>1, <1>3, EmptySeq
  <2> QED  BY <1>1, <1>2, <1>3, <2>1, SubSeqEmpty, ConcatEmptySeq
<1>4. CASE Len(s) > 0
  <2>1. 1 \in 1 .. Len(s) + 1 /\ k \in 1 - 1 .. Len(s) /\ Len(s) \in k .. Len(s)
    BY <1>1, <1>4
  <2>2. SubSeq(s, 1, k) \o SubSeq(s, k + 1, Len(s)) = SubSeq(s, 1, Len(s))
    BY <2>1, ConcatAdjacentSubSeq
  <2> QED  BY <1>2, <2>2, SubSeqFull
<1>5. Len(s) = 0 \/ Len(s) > 0
  BY <1>1
<1> QED  BY <1>3, <1>4, <1>5, Zenon

(* Consuming the first k bytes of array leaves the rest of the stream in order. *)
LEMMA Consume ==
    ASSUME TypeInv, array # <<>>, NEW n \in Nat, NEW l \in Nat, NEW c \in Nat,
           InOrder(Stream, n, l, c), NEW k \in 0 .. Len(array)
    PROVE  LET rest == SubSeq(array, k + 1, Len(array)) \o (buffer \o wire)
           IN  /\ Stream = SubSeq(array, 1, k) \o rest
               /\ rest \in Seq(Byte)
               /\ InOrder(rest, n, l, c)
<1> DEFINE a1 == SubSeq(array, 1, k)
           a2 == SubSeq(array, k + 1, Len(array))
           r == buffer \o wire
<1>1. /\ a1 \in Seq(Byte) /\ a2 \in Seq(Byte) /\ r \in Seq(Byte)
      /\ array = a1 \o a2 /\ a2 \o r \in Seq(Byte)
  BY Cut, ConcatProperties DEF TypeInv, TypeOK
<1>2. Stream = array \o r
  <2>1. hdrArray = <<>> /\ array \o r \in Seq(Byte)
    BY <1>1, ConcatProperties DEF TypeInv, TypeOK, BufferBounds
  <2> QED  BY <2>1, ConcatEmptySeq DEF Stream
<1> HIDE DEF a1, a2, r
<1>3. Stream = a1 \o (a2 \o r)
  <2>2. (a1 \o a2) \o r = a1 \o (a2 \o r)
    BY <1>1, ConcatAssociative, SMTT(30)
  <2> QED  BY <1>1, <1>2, <2>2, Zenon
<1>4. InOrder(a2 \o r, n, l, c)
  BY <1>1, <1>3, StreamParts
<1> QED  BY <1>1, <1>3, <1>4 DEF a1, a2, r

LEMMA LastType ==
    ASSUME TypeInv
    PROVE  Last \in Nat /\ (delivered = <<>> => Last = 0)
BY LenProperties, ConstantsAssumption, ElementOfSeq
   DEF TypeInv, TypeOK, Last, Promise!LastDelivered

LEMMA LastAppended ==
    ASSUME TypeInv, NEW n \in Nat, delivered' = Append(delivered, n)
    PROVE  Last' = n
<1>1. delivered \in Seq(Nat)
  <2>1. 1 .. MaxPackages \subseteq Nat
    BY ConstantsAssumption
  <2> QED  BY <2>1, SeqMonotonic, Zenon DEF TypeInv, TypeOK
<1>2. /\ delivered' # <<>> /\ Len(delivered') = Len(delivered) + 1
      /\ delivered'[Len(delivered) + 1] = n
  BY <1>1, AppendProperties
<1> QED  BY <1>2 DEF Last, Promise!LastDelivered

(* After an iteration that has put together a package with header h, the   *)
(* bytes s that are left lie after the header and after the last delivery. *)
LEMMA EndOfIterationOrder ==
    ASSUME TypeInv, OrderInv,
           NEW h \in Header, h.n <= Len(sent), h.n # 0 => h.n > Last,
           NEW d, NEW rest, EndOfIteration(h, d, rest),
           NEW s \in Seq(Byte), InOrder(s, h.n, Last, Len(sent))
    PROVE  /\ InOrder(s, hdr'.n, Last', Len(sent))
           /\ Last' <= Len(sent)
           /\ hdr'.n # 0 => hdr'.n > Last'
           /\ \/ delivered' = delivered
              \/ /\ delivered' = Append(delivered, h.n)
                 /\ h.n \in Last + 1 .. Len(sent)
<1>1. h.n \in Nat /\ Last \in Nat /\ Len(sent) \in Nat
  BY LastType, LenProperties DEF Header, TypeInv, TypeOK
<1>2. InOrder(s, 0, Last, Len(sent)) /\ InOrder(s, 0, h.n, Len(sent))
  <2>1. ASSUME NEW i \in 1 .. Len(s) PROVE Before(<<0, HeaderSize>>, s[i])
    <3>1. s[i] \in (1 .. MaxPackages) \X Nat
      BY ElementOfSeq DEF Byte
    <3> QED  BY <3>1, ConstantsAssumption DEF Before
  <2> QED  BY <2>1 DEF InOrder
<1>3. CASE PackageIsValid(h, d)
  <2>1. delivered' = Append(delivered, h.n) /\ hdr' = NullHeader /\ h.n # 0
    BY <1>3 DEF EndOfIteration, PackageIsValid
  <2>2. Last' = h.n /\ hdr'.n = 0
    BY <1>1, <2>1, LastAppended DEF NullHeader
  <2> QED  BY <1>1, <1>2, <2>1, <2>2
<1>4. CASE ~PackageIsValid(h, d)
  <2>1. delivered' = delivered /\ Last' = Last /\ hdr' \in {NullHeader, h}
    BY <1>4 DEF EndOfIteration, Last, Promise!LastDelivered
  <2>2. NullHeader.n = 0
    BY DEF NullHeader
  <2> QED  BY <1>1, <1>2, <2>1, <2>2 DEF OrderInv
<1> QED  BY <1>3, <1>4

LEMMA StreamType ==
    ASSUME TypeInv
    PROVE  /\ buffer \o wire \in Seq(Byte)
           /\ array \o (buffer \o wire) \in Seq(Byte)
           /\ Stream \in Seq(Byte)
<1>1. /\ buffer \in Seq(Byte) /\ wire \in Seq(Byte) /\ array \in Seq(Byte)
      /\ hdrArray \in Seq(Byte)
  BY DEF TypeInv, TypeOK
<1>2. buffer \o wire \in Seq(Byte)
  BY <1>1, ConcatProperties
<1>3. array \o (buffer \o wire) \in Seq(Byte)
  BY <1>1, <1>2, ConcatProperties
<1> QED  BY <1>1, <1>2, <1>3, ConcatProperties DEF Stream

LEMMA Associative == \A x, y, z \in Seq(Byte) : (x \o y) \o z = x \o (y \o z)
BY ConcatAssociative, SMTT(30)

LEMMA StreamAppended ==
    ASSUME TypeInv, NEW x \in Seq(Byte)
    PROVE  Stream \o x = hdrArray \o (array \o (buffer \o (wire \o x)))
<1>1. /\ hdrArray \in Seq(Byte) /\ array \in Seq(Byte) /\ buffer \in Seq(Byte)
      /\ wire \in Seq(Byte)
  BY DEF TypeInv, TypeOK
<1>2. \A s, t \in Seq(Byte) : (s \o t) \o x = s \o (t \o x)
  BY Associative
<1>3. (buffer \o wire) \o x = buffer \o (wire \o x)
  BY <1>1, <1>2
<1>4. (array \o (buffer \o wire)) \o x = array \o ((buffer \o wire) \o x)
  BY <1>1, <1>2, StreamType, Zenon
<1>5. Stream \o x = hdrArray \o ((array \o (buffer \o wire)) \o x)
  BY <1>1, <1>2, StreamType, Zenon DEF Stream
<1> QED  BY <1>3, <1>4, <1>5, Zenon

LEMMA InitOrder == Init => OrderInv
<1> SUFFICES ASSUME Init PROVE OrderInv
  OBVIOUS
<1>1. Stream = <<>> /\ Last = 0 /\ hdr.n = 0 /\ Len(sent) = 0
  BY EmptySeq, ConcatEmptySeq
     DEF Init, Stream, Last, Promise!LastDelivered, NullHeader
<1>2. Len(Stream) = 0
  BY <1>1, EmptySeq
<1> QED  BY <1>1, <1>2 DEF OrderInv, InOrder

(* For the peers a step is a package sent, a package delivered after all     *)
(* those delivered before it, or nothing.                                   *)
Progress ==
    \/ UNCHANGED <<sent, delivered>>
    \/ (\E m \in Message : sent' = Append(sent, m)) /\ UNCHANGED delivered
    \/ /\ UNCHANGED sent
       /\ \E n \in Last + 1 .. Len(sent) : delivered' = Append(delivered, n)

(* Every step is such a step, and keeps the stream in order.                 *)
LEMMA NextOrder ==
    ASSUME TypeInv, OrderInv, [Next]_vars
    PROVE  OrderInv' /\ Progress
<1> DEFINE c == Len(sent)
           Delivers == \/ delivered' = delivered
                       \/ \E n \in Last + 1 .. c : delivered' = Append(delivered, n)
<1>0. c \in Nat /\ Last \in Nat /\ hdr.n \in Nat /\ hdr \in Header /\ hdr.n <= c
  BY LastType, LenProperties DEF TypeInv, TypeOK, Header, SentPackages
<1>a. ASSUME sent' = sent, Delivers
      PROVE  Progress
  BY <1>a DEF Progress
<1>b. ASSUME sent' = sent, delivered' = delivered, hdr' \in {hdr, NullHeader},
             InOrder(Stream', hdr.n, Last, c), Stream' \in Seq(Byte)
      PROVE  OrderInv'
  <2>1. Last' = Last
    BY <1>b DEF Last, Promise!LastDelivered
  <2>2. CASE hdr' = hdr
    BY <1>b, <2>1, <2>2 DEF OrderInv
  <2>3. CASE hdr' = NullHeader
    <3>1. ASSUME NEW i \in 1 .. Len(Stream') PROVE Before(<<0, HeaderSize>>, Stream'[i])
      <4>1. Stream'[i] \in (1 .. MaxPackages) \X Nat
        BY <1>b, ElementOfSeq DEF Byte
      <4> QED  BY <4>1, ConstantsAssumption DEF Before
    <3>2. InOrder(Stream', 0, Last, c)
      BY <1>b, <3>1 DEF InOrder
    <3> QED  BY <1>b, <2>1, <2>3, <3>2 DEF OrderInv, NullHeader
  <2> QED  BY <1>b, <2>2, <2>3
<1>c. ASSUME sent' = sent, buffer' = buffer, wire' = wire, array # <<>>,
             hdrArray' = <<>>,
             NEW k \in 0 .. Len(array), array' = SubSeq(array, k + 1, Len(array)),
             NEW h \in Header, NEW d, NEW rest,
             h.n <= c, h.n # 0 => h.n > Last,
             EndOfIteration(h, d, rest),
             InOrder(array' \o (buffer \o wire), h.n, Last, c)
      PROVE  OrderInv' /\ Delivers
  <2> DEFINE s == array' \o (buffer \o wire)
  <2>1. s \in Seq(Byte)
    BY <1>0, <1>c, Consume DEF OrderInv
  <2>2. Stream' = s
    BY <1>c, <2>1, ConcatEmptySeq DEF Stream
  <2> HIDE DEF s
  <2>3. /\ InOrder(s, hdr'.n, Last', c) /\ Last' <= c
        /\ hdr'.n # 0 => hdr'.n > Last'
        /\ \/ delivered' = delivered
           \/ delivered' = Append(delivered, h.n) /\ h.n \in Last + 1 .. c
    BY <1>c, <2>1, EndOfIterationOrder DEF s
  <2> QED  BY <1>c, <2>2, <2>3 DEF OrderInv
<1>1. ASSUME NEW m \in Message, Send(m)
      PROVE  OrderInv' /\ Progress
  <2> DEFINE new == [k \in 1 .. HeaderSize + Size[m] |-> <<c + 1, k>>]
  <2>1. /\ sent' = Append(sent, m) /\ Len(sent') = c + 1 /\ c + 1 \in 1 .. MaxPackages
        /\ delivered' = delivered /\ hdr' = hdr
        /\ Last' = Last
    BY <1>0, <1>1, AppendProperties, ConstantsAssumption
       DEF Send, receiveData, TypeInv, TypeOK, Last, Promise!LastDelivered
  <2>2. /\ HeaderSize + Size[m] \in Nat
        /\ new \in Seq(Byte) /\ Len(new) = HeaderSize + Size[m]
        /\ \A i \in 1 .. Len(new) : new[i] = <<c + 1, i>>
    <3>1. HeaderSize + Size[m] \in Nat
      BY ConstantsAssumption
    <3>2. new \in [1 .. HeaderSize + Size[m] -> Byte]
      BY <2>1, <3>1 DEF Byte
    <3>3. new \in Seq(Byte)
      BY <3>1, <3>2, SeqDef
    <3> QED  BY <3>1, <3>2, <3>3, LenProperties
  <2>3. Stream' = Stream \o new
    <3>1. /\ wire' = wire \o new
          /\ buffer' = buffer /\ array' = array /\ hdrArray' = hdrArray
      BY <1>1 DEF Send, receiveData
    <3>2. Stream \o new = hdrArray \o (array \o (buffer \o (wire \o new)))
      BY <2>2, StreamAppended, Zenon
    <3> QED  BY <3>1, <3>2 DEF Stream
  <2> HIDE DEF new
  <2>4. InOrder(new, hdr.n, Last, c + 1)
    BY <1>0, <2>2, ConstantsAssumption DEF OrderInv, InOrder, Before
  <2>5. InOrder(Stream, hdr.n, Last, c + 1)
    <3>1. ASSUME NEW i \in 1 .. Len(Stream) PROVE Stream[i][1] <= c + 1
      <4>1. Stream[i] \in (1 .. MaxPackages) \X Nat
        BY StreamType, ElementOfSeq DEF Byte
      <4>2. Stream[i][1] <= c
        BY DEF OrderInv, InOrder
      <4> QED  BY <1>0, <4>1, <4>2, ConstantsAssumption
    <3> QED  BY <3>1 DEF OrderInv, InOrder
  <2>6. ASSUME NEW i \in 1 .. Len(Stream), NEW j \in 1 .. Len(new)
        PROVE  Before(Stream[i], new[j])
    <3>1. Stream[i] \in (1 .. MaxPackages) \X Nat
      BY StreamType, ElementOfSeq DEF Byte
    <3>2. Stream[i][1] <= c /\ new[j] = <<c + 1, j>>
      BY <2>2 DEF OrderInv, InOrder
    <3> QED  BY <1>0, <3>1, <3>2, ConstantsAssumption DEF Before
  <2>7. InOrder(Stream \o new, hdr.n, Last, c + 1)
    <3>1. Stream \in Seq(Byte) /\ new \in Seq(Byte) /\ c + 1 \in Nat
      BY <1>0, <2>2, StreamType
    <3> QED  BY <1>0, <2>4, <2>5, <2>6, <3>1, StreamJoin
  <2>8. OrderInv'
    BY <1>0, <2>1, <2>3, <2>7 DEF OrderInv
  <2> QED  BY <2>1, <2>8 DEF Progress
<1>2. ASSUME NEW k \in 1 .. Len(wire), Arrive(k)
      PROVE  OrderInv' /\ sent' = sent /\ Delivers
  <2>1. /\ sent' = sent /\ delivered' = delivered /\ hdr' = hdr /\ array' = array
        /\ hdrArray' = hdrArray
        /\ buffer' = buffer \o SubSeq(wire, 1, k)
        /\ wire' = SubSeq(wire, k + 1, Len(wire))
    BY <1>2 DEF Arrive, receiveData
  <2> DEFINE w1 == SubSeq(wire, 1, k)
             w2 == SubSeq(wire, k + 1, Len(wire))
  <2>2. w1 \in Seq(Byte) /\ w2 \in Seq(Byte) /\ wire = w1 \o w2 /\ buffer \in Seq(Byte)
    BY Cut DEF TypeInv, TypeOK
  <2> HIDE DEF w1, w2
  <2>3. (buffer \o w1) \o w2 = buffer \o (w1 \o w2)
    BY <2>2, Associative
  <2>4. Stream' = Stream
    BY <2>1, <2>2, <2>3, Zenon DEF Stream, w1, w2
  <2> QED  BY <1>b, <2>1, <2>4, StreamType DEF OrderInv
<1>3. CASE Disconnect
  <2>1. /\ sent' = sent /\ delivered' = delivered /\ hdr' = hdr /\ array' = array
        /\ hdrArray' = hdrArray /\ buffer' = <<>> /\ wire' = <<>>
    BY <1>3 DEF Disconnect, receiveData
  <2>2. /\ hdrArray \in Seq(Byte) /\ array \in Seq(Byte) /\ buffer \o wire \in Seq(Byte)
        /\ hdrArray \o array \in Seq(Byte)
    BY StreamType, ConcatProperties DEF TypeInv, TypeOK
  <2>3. Stream = (hdrArray \o array) \o (buffer \o wire)
    BY <2>2, Associative DEF Stream
  <2>4. Stream' = hdrArray \o array
    <3>1. array \o (<<>> \o <<>>) = array
      BY <2>2, EmptySeq, ConcatEmptySeq
    <3> QED  BY <2>1, <3>1 DEF Stream
  <2>5. InOrder(hdrArray \o array, hdr.n, Last, c)
    BY <1>0, <2>2, <2>3, StreamParts DEF OrderInv
  <2> QED  BY <1>a, <1>b, <2>1, <2>2, <2>4, <2>5
<1>4. CASE Reconnect
  <2>1. sent' = sent /\ delivered' = delivered /\ hdr' = hdr /\ Stream' = Stream
    BY <1>4 DEF Reconnect, receiveData, Stream
  <2> QED  BY <1>a, <1>b, <2>1, StreamType DEF OrderInv
<1>5. CASE AvelableBytes
  <2>1. sent' = sent /\ delivered' = delivered /\ wire' = wire /\ array = <<>>
    BY <1>5 DEF AvelableBytes, peer
  <2>2. /\ hdrArray \in Seq(Byte) /\ buffer \in Seq(Byte) /\ wire \in Seq(Byte)
        /\ buffer \o wire \in Seq(Byte)
    BY StreamType DEF TypeInv, TypeOK
  <2>3. Stream = hdrArray \o (buffer \o wire)
    BY <2>1, <2>2, ConcatEmptySeq DEF Stream
  <2>4. CASE NoSocket
    <3>1. hdr' = NullHeader /\ hdrArray' = <<>> /\ array' = <<>> /\ buffer' = buffer
      BY <2>1, <2>4 DEF NoSocket
    <3>2. Stream' = buffer \o wire
      BY <2>1, <2>2, <3>1, ConcatEmptySeq DEF Stream
    <3>3. InOrder(buffer \o wire, hdr.n, Last, c)
      BY <1>0, <2>2, <2>3, StreamParts DEF OrderInv
    <3> QED  BY <1>a, <1>b, <2>1, <2>2, <3>1, <3>2, <3>3
  <2>5. CASE ReadAll
    <3>1. /\ hdr' = hdr /\ hdrArray' = <<>> /\ array' = hdrArray \o buffer
          /\ buffer' = <<>>
      BY <2>5 DEF ReadAll
    <3>2. (hdrArray \o buffer) \o wire = hdrArray \o (buffer \o wire)
      BY <2>2, Associative
    <3>3. (hdrArray \o buffer) \o wire \in Seq(Byte)
      BY <2>2, <2>3, <3>2, StreamType
    <3>4. Stream' = (hdrArray \o buffer) \o wire
      BY <2>1, <2>2, <3>1, <3>3, ConcatEmptySeq DEF Stream
    <3>5. Stream' = Stream
      BY <2>3, <3>2, <3>4
    <3> QED  BY <1>a, <1>b, <2>1, <3>1, <3>5, StreamType DEF OrderInv
  <2> QED  BY <1>5, <2>4, <2>5 DEF AvelableBytes
<1>6. CASE FillPackage
  <2> DEFINE length == Smaller(hdr.size - Len(data), Len(array))
             d == data \o Mid(HeaderSize, length)
  <2>1. /\ sent' = sent /\ buffer' = buffer /\ wire' = wire /\ array # <<>>
        /\ hdrArray = <<>>
        /\ array' = SubSeq(array, length + 1, Len(array))
        /\ EndOfIteration(hdr, d, hdrArray)
    BY <1>6 DEF FillPackage, peer, TypeInv, BufferBounds
  <2>2. length \in 0 .. Len(array)
    <3>1. /\ hdr.size \in Nat /\ Len(data) \in Nat /\ Len(array) \in Nat
          /\ Len(data) <= hdr.size
      BY <1>0, LenProperties DEF TypeInv, TypeOK, BufferBounds, Header
    <3>2. hdr.size - Len(data) \in Nat
      BY <3>1
    <3>3. length \in Nat /\ length <= Len(array)
      BY <3>1, <3>2, SmallerMin
    <3> QED  BY <3>1, <3>3
  <2> HIDE DEF length, d
  <2>3. InOrder(array' \o (buffer \o wire), hdr.n, Last, c)
    BY <1>0, <2>1, <2>2, Consume DEF OrderInv
  <2>4. hdr.n # 0 => hdr.n > Last
    BY DEF OrderInv
  <2>5. hdrArray' = <<>>
    BY <2>1 DEF EndOfIteration
  <2>6. OrderInv' /\ Delivers
    BY <1>0, <1>c, <2>1, <2>2, <2>3, <2>4, <2>5
  <2> QED  BY <1>a, <2>1, <2>6
<1>7. CASE NewHeader
  <2>1. PICK h \in Decode(SubSeq(array, 1, HeaderSize)) :
          LET length == Smaller(h.size, Len(array) - HeaderSize)
          IN  /\ EndOfIteration(h, Mid(HeaderSize, length), hdrArray)
              /\ array' = SubSeq(array, HeaderSize + length + 1, Len(array))
    BY <1>7 DEF NewHeader
  <2> DEFINE length == Smaller(h.size, Len(array) - HeaderSize)
             k == HeaderSize + length
  <2>2. /\ sent' = sent /\ buffer' = buffer /\ wire' = wire /\ array # <<>>
        /\ hdrArray = <<>> /\ Len(array) >= HeaderSize
    BY <1>7 DEF NewHeader, peer, TypeInv, BufferBounds
  <2>3. h \in Header /\ h.n <= c /\ h.n \in Nat /\ h.size \in Nat
    BY DecodeType DEF TypeInv, Header
  <2>4. k \in HeaderSize .. Len(array) /\ k \in 0 .. Len(array) /\ Len(array) \in Nat
    <3>1. Len(array) \in Nat /\ Len(array) - HeaderSize \in Nat
      BY <2>2, LenProperties, ConstantsAssumption DEF TypeInv, TypeOK
    <3>2. length \in Nat /\ length <= Len(array) - HeaderSize
      BY <2>3, <3>1, SmallerMin
    <3> QED  BY <3>1, <3>2, ConstantsAssumption
  <2>5. array' = SubSeq(array, k + 1, Len(array)) /\ hdrArray' = <<>>
    <3>1. hdrArray' = <<>>
      BY <2>1, <2>2 DEF EndOfIteration
    <3>2. HeaderSize + length + 1 = k + 1
      OBVIOUS
    <3> QED  BY <2>1, <3>1, <3>2
  <2>6. EndOfIteration(h, Mid(HeaderSize, length), hdrArray)
    BY <2>1
  <2> HIDE DEF length, k
  <2> DEFINE s == array' \o (buffer \o wire)
             r == buffer \o wire
  <2>7. s \in Seq(Byte) /\ InOrder(s, hdr.n, Last, c)
    BY <1>0, <2>2, <2>4, <2>5, Consume DEF OrderInv
  <2>8. /\ h.n # 0 => h.n > Last
        /\ InOrder(s, h.n, Last, c)
    <3>1. CASE h.n = 0
      <4>1. ASSUME NEW i \in 1 .. Len(s) PROVE Before(<<0, HeaderSize>>, s[i])
        <5>1. s[i] \in (1 .. MaxPackages) \X Nat
          BY <2>7, ElementOfSeq DEF Byte
        <5> QED  BY <5>1, ConstantsAssumption DEF Before
      <4> QED  BY <2>7, <3>1, <4>1 DEF InOrder
    <3>2. CASE h.n # 0
      <4>1. SubSeq(array, 1, HeaderSize) = HeaderBytes(h.n)
        BY <2>1, <3>2 DEF Decode
      <4>2. array[1] = <<h.n, 1>> /\ array[HeaderSize] = <<h.n, HeaderSize>>
        <5>1. /\ Len(SubSeq(array, 1, HeaderSize)) = HeaderSize
              /\ \A j \in 1 .. HeaderSize : SubSeq(array, 1, HeaderSize)[j] = array[j]
          BY <2>2, <2>4, Pieces, ConstantsAssumption DEF TypeInv, TypeOK
        <5>2. \A j \in 1 .. HeaderSize : HeaderBytes(h.n)[j] = <<h.n, j>>
          BY DEF HeaderBytes
        <5>3. 1 \in 1 .. HeaderSize /\ HeaderSize \in 1 .. HeaderSize
          BY ConstantsAssumption
        <5> QED  BY <4>1, <5>1, <5>2, <5>3
      <4>3. /\ array \in Seq(Byte) /\ r \in Seq(Byte) /\ Stream = array \o r
            /\ array \o r \in Seq(Byte)
        BY <2>2, StreamType, ConcatEmptySeq DEF Stream, TypeInv, TypeOK
      <4>4. InOrder(array, hdr.n, Last, c)
        BY <1>0, <4>3, StreamParts DEF OrderInv
      <4>5. h.n > Last
        <5>0. 1 \in 1 .. Len(array)
          BY <2>2, <2>4, ConstantsAssumption
        <5>1. Before(<<Last, HeaderSize>>, array[1])
          BY <4>4, <5>0 DEF InOrder
        <5> QED  BY <1>0, <2>3, <4>2, <5>1, ConstantsAssumption DEF Before
      <4>6. Len(array \o r) = Len(array) + Len(r)
            /\ \A i \in 1 .. Len(array) + Len(r) :
                  (array \o r)[i] = IF i <= Len(array) THEN array[i] ELSE r[i - Len(array)]
        BY <4>3, ConcatProperties
      <4>7. /\ array' \in Seq(Byte) /\ Len(array') = Len(array) - k
            /\ \A i \in 1 .. Len(array') : array'[i] = array[k + i]
        <5>1. k + 1 \in Nat \ {0} /\ Len(array) <= Len(array) /\ k <= Len(array)
              /\ k \in Nat
          BY <2>4, ConstantsAssumption
        <5>2. Len(array') = IF k + 1 <= Len(array) THEN Len(array) - (k + 1) + 1 ELSE 0
          BY <2>4, <2>5, <4>3, <5>1, Pieces
        <5>3. \A i \in 1 .. Len(array') : array'[i] = array[(k + 1) + i - 1]
          BY <2>4, <2>5, <4>3, <5>1, Pieces
        <5>4. array' \in Seq(Byte)
          BY <2>4, <2>5, <4>3, <5>1, Pieces
        <5>5. \A i \in 1 .. Len(array') : (k + 1) + i - 1 = k + i
          BY <5>1, <5>4, LenProperties
        <5> QED  BY <2>4, <5>1, <5>2, <5>3, <5>4, <5>5
      <4>8. ASSUME NEW i \in 1 .. Len(s)
            PROVE  k + i \in HeaderSize + 1 .. Len(array \o r) /\ s[i] = (array \o r)[k + i]
        <5>1. /\ Len(s) = Len(array') + Len(r)
              /\ \A j \in 1 .. Len(array') + Len(r) :
                    s[j] = IF j <= Len(array') THEN array'[j] ELSE r[j - Len(array')]
          BY <4>3, <4>7, ConcatProperties
        <5>2. Len(r) \in Nat
          BY <4>3, LenProperties
        <5>3. k \in HeaderSize .. Len(array) /\ HeaderSize \in Nat /\ Len(array) \in Nat
              /\ Len(array') \in Nat
          BY <2>4, <4>7, ConstantsAssumption
        <5>4. CASE i <= Len(array')
          BY <4>6, <4>7, <5>1, <5>2, <5>3, <5>4
        <5>5. CASE i > Len(array')
          <6>1. k + i - Len(array) = i - Len(array') /\ k + i > Len(array)
            BY <4>7, <5>1, <5>2, <5>3, <5>5
          <6>2. s[i] = r[k + i - Len(array)] /\ k + i <= Len(array) + Len(r)
            <7>1. i \in 1 .. Len(array') + Len(r)
              BY <5>1
            <7>2. s[i] = r[i - Len(array')]
              BY <5>1, <5>3, <5>5, <7>1
            <7>3. k + i <= Len(array) + Len(r)
              BY <4>7, <5>2, <5>3, <7>1
            <7> QED  BY <6>1, <7>2, <7>3
          <6>3. k + i \in HeaderSize + 1 .. Len(array \o r)
            BY <4>6, <5>2, <5>3, <6>2
          <6> QED  BY <4>6, <5>3, <6>1, <6>2, <6>3
        <5>6. i <= Len(array') \/ i > Len(array')
          BY <5>1, <5>2, <5>3
        <5> QED  BY <5>4, <5>5, <5>6
      <4>9. ASSUME NEW i \in 1 .. Len(s) PROVE Before(<<h.n, HeaderSize>>, s[i])
        <5>1. /\ HeaderSize \in 1 .. Len(array \o r) /\ k + i \in 1 .. Len(array \o r)
              /\ HeaderSize < k + i
          BY <4>8, <4>3, LenProperties, ConstantsAssumption
        <5>2. Before((array \o r)[HeaderSize], (array \o r)[k + i])
          BY <4>3, <5>1 DEF OrderInv, InOrder
        <5>3. (array \o r)[HeaderSize] = <<h.n, HeaderSize>>
          BY <2>4, <4>2, <4>3, <4>6, LenProperties, ConstantsAssumption
        <5> QED  BY <4>8, <5>2, <5>3
      <4> QED  BY <2>7, <4>5, <4>9 DEF InOrder
    <3> QED  BY <3>1, <3>2
  <2>9. OrderInv' /\ Delivers
    BY <1>0, <1>c, <2>2, <2>3, <2>4, <2>5, <2>6, <2>8
  <2> QED  BY <1>a, <2>2, <2>9
<1>8. CASE KeepHeaderPart
  <2>1. /\ sent' = sent /\ buffer' = buffer /\ wire' = wire /\ array' = <<>>
        /\ hdrArray = <<>> /\ ~HeaderIsValid(hdr)
        /\ EndOfIteration(hdr, data, hdrArray \o array)
    BY <1>8 DEF KeepHeaderPart, peer, TypeInv, BufferBounds
  <2>2. /\ array \in Seq(Byte) /\ buffer \o wire \in Seq(Byte)
        /\ hdrArray \o array = array /\ Stream = array \o (buffer \o wire)
        /\ <<>> \o (buffer \o wire) = buffer \o wire
    BY <2>1, StreamType, ConcatEmptySeq DEF Stream, TypeInv, TypeOK
  <2>3. /\ delivered' = delivered /\ hdr' \in {hdr, NullHeader}
        /\ hdrArray' \in {array, <<>>}
    BY <2>1, <2>2 DEF EndOfIteration, PackageIsValid
  <2>4. Stream' \in {Stream, buffer \o wire}
    <3>1. Stream' = hdrArray' \o (<<>> \o (buffer \o wire))
      BY <2>1 DEF Stream
    <3> QED  BY <2>2, <2>3, <3>1
  <2>5. InOrder(buffer \o wire, hdr.n, Last, c)
    BY <1>0, <2>2, StreamParts DEF OrderInv
  <2>6. InOrder(Stream', hdr.n, Last, c) /\ Stream' \in Seq(Byte)
    BY <2>2, <2>4, <2>5, StreamType DEF OrderInv
  <2> QED  BY <1>a, <1>b, <2>1, <2>3, <2>6
<1>9. CASE UNCHANGED vars
  <2>1. sent' = sent /\ delivered' = delivered /\ hdr' = hdr /\ Stream' = Stream
    BY <1>9 DEF vars, Stream
  <2> QED  BY <1>a, <1>b, <2>1, StreamType DEF OrderInv
<1> QED
  BY <1>a, <1>1, <1>2, <1>3, <1>4, <1>5, <1>6, <1>7, <1>8, <1>9
     DEF Next, Iteration

-----------------------------------------------------------------------------
(* Delivery without loss.                                                  *)
(*                                                                         *)
(* Until a payload is read in part or the connection is lost, the bytes    *)
(* that are not consumed yet are whole packages, all that come after the   *)
(* one delivered last, and nothing of a package stays in _pkg between two  *)
(* iterations: what comes next is always a header.                         *)

\* The bytes of package n.
Length(n) == HeaderSize + Size[sent[n]]

\* s holds package n from its place p + 1 on.
HasAt(s, n, p) ==
    \A q \in 1 .. Length(n) : p + q \in 1 .. Len(s) /\ s[p + q] = <<n, q>>

\* s is made of whole packages, and has every package after l.
WholePackages(s, l) ==
    /\ \A i \in 1 .. Len(s) : /\ s[i][1] \in 1 .. Len(sent)
                              /\ s[i][2] \in 1 .. Length(s[i][1])
                              /\ HasAt(s, s[i][1], i - s[i][2])
    /\ \A n \in l + 1 .. Len(sent) : \E i \in 1 .. Len(s) : s[i] = <<n, 1>>

\* What comes next is no payload.
AtHeader(s) == s # <<>> => s[1][2] <= HeaderSize

WholeInv ==
    /\ link = "up"
    /\ hdr = NullHeader /\ data = <<>>
    /\ WholePackages(Stream, Last)
    /\ AtHeader(buffer \o wire)

LEMMA LengthType ==
    ASSUME TypeInv, NEW n \in 1 .. Len(sent)
    PROVE  /\ sent[n] \in Message /\ Size[sent[n]] \in Nat \ {0}
           /\ Size[sent[n]] % SizeLimit = Size[sent[n]]
           /\ Length(n) \in Nat /\ Length(n) > HeaderSize /\ HeaderSize \in Nat \ {0}
<1>1. sent[n] \in Message
  BY ElementOfSeq DEF TypeInv, TypeOK
<1>2. ToPackage(sent[n])
  BY DEF TypeInv, SentPackages
<1>. QED  BY <1>1, <1>2, ConstantsAssumption DEF ToPackage, Length

(* The bytes of a stream in order are all different. *)
LEMMA Ordered ==
    ASSUME NEW s \in Seq(Byte), NEW n \in Nat, NEW l \in Nat, NEW t \in Nat,
           InOrder(s, n, l, t),
           NEW i \in 1 .. Len(s), NEW j \in 1 .. Len(s), s[i] = s[j]
    PROVE  i = j
<1>1. Len(s) \in Nat /\ s[i] \in (1 .. MaxPackages) \X Nat
  BY LenProperties, ElementOfSeq DEF Byte
<1>2. ~Before(s[i], s[i])
  BY <1>1, ConstantsAssumption DEF Before
<1>3. ~(i < j) /\ ~(j < i)
  BY <1>2 DEF InOrder
<1>. QED  BY <1>1, <1>3

(* A stream of whole packages begins with the one after the last delivered. *)
LEMMA FirstPackage ==
    ASSUME TypeInv, NEW s \in Seq(Byte), s # <<>>, NEW h \in Nat, NEW l \in Nat,
           InOrder(s, h, l, Len(sent)), WholePackages(s, l)
    PROVE  /\ l + 1 \in 1 .. Len(sent)
           /\ HasAt(s, l + 1, 0)
<1>1. /\ Len(s) \in Nat \ {0} /\ Len(sent) \in Nat /\ 1 \in 1 .. Len(s)
      /\ s[1] \in (1 .. MaxPackages) \X Nat
  <2>1. Len(s) \in Nat \ {0}
    BY EmptySeq
  <2>2. Len(sent) \in Nat
    BY LenProperties DEF TypeInv, TypeOK
  <2>. QED  BY <2>1, <2>2, ElementOfSeq DEF Byte
<1>. DEFINE n == s[1][1]
<1>2. /\ n \in 1 .. Len(sent) /\ s[1][2] \in 1 .. Length(n)
      /\ HasAt(s, n, 1 - s[1][2])
  BY <1>1 DEF WholePackages
<1>3. Length(n) \in Nat /\ 1 \in 1 .. Length(n) /\ HeaderSize \in Nat \ {0}
  BY <1>2, LengthType
<1>4. (1 - s[1][2]) + 1 \in 1 .. Len(s)
  BY <1>2, <1>3 DEF HasAt
<1>5. s[1][2] = 1
  BY <1>1, <1>2, <1>3, <1>4
<1>6. s[1] = <<n, 1>>
  BY <1>1, <1>5
<1>7. n > l
  <2>1. Before(<<l, HeaderSize>>, s[1])
    BY <1>1 DEF InOrder
  <2>. QED  BY <1>2, <1>3, <1>5, <2>1 DEF Before
<1>8. l + 1 \in l + 1 .. Len(sent)
  BY <1>1, <1>2, <1>7
<1>9. PICK i \in 1 .. Len(s) : s[i] = <<l + 1, 1>>
  BY <1>8 DEF WholePackages
<1>10. i = 1 \/ Before(s[1], s[i])
  BY <1>1 DEF InOrder
<1>11. n = l + 1
  BY <1>2, <1>6, <1>7, <1>9, <1>10 DEF Before
<1>12. HasAt(s, n, 0)
  BY <1>2, <1>5
<1>. QED  BY <1>2, <1>11, <1>12

(* Without its first package it is one of whole packages again. *)
LEMMA WithoutFirst ==
    ASSUME TypeInv, NEW s \in Seq(Byte), NEW h \in Nat, NEW l \in Nat,
           InOrder(s, h, l, Len(sent)), WholePackages(s, l),
           l + 1 \in 1 .. Len(sent), HasAt(s, l + 1, 0),
           NEW t \in Seq(Byte), Length(l + 1) <= Len(s),
           Len(t) = Len(s) - Length(l + 1),
           \A i \in 1 .. Len(t) : t[i] = s[Length(l + 1) + i]
    PROVE  WholePackages(t, l + 1)
<1>. DEFINE L == Length(l + 1)
<1>1. /\ L \in Nat \ {0} /\ Len(s) \in Nat /\ Len(t) \in Nat /\ Len(sent) \in Nat
  BY LengthType, LenProperties DEF TypeInv, TypeOK
<1>2. Len(t) = Len(s) - L /\ \A i \in 1 .. Len(t) : t[i] = s[L + i]
  OBVIOUS
<1>3. \A q \in 1 .. L : q \in 1 .. Len(s) /\ s[q] = <<l + 1, q>>
  BY <1>1 DEF HasAt
<1>. HIDE DEF L
<1>4. ASSUME NEW i \in 1 .. Len(t)
      PROVE  /\ t[i][1] \in 1 .. Len(sent)
             /\ t[i][2] \in 1 .. Length(t[i][1])
             /\ HasAt(t, t[i][1], i - t[i][2])
  <2>1. L + i \in 1 .. Len(s) /\ t[i] = s[L + i] /\ i \in Nat
    BY <1>1, <1>2
  <2>2. PICK n, k : t[i] = <<n, k>> /\ s[L + i] = <<n, k>>
    <3>1. s[L + i] \in (1 .. MaxPackages) \X Nat
      BY <2>1, ElementOfSeq DEF Byte
    <3>. QED  BY <2>1, <3>1
  <2>3. /\ n \in 1 .. Len(sent) /\ k \in 1 .. Length(n)
        /\ HasAt(s, n, (L + i) - k)
    <3>1. /\ s[L + i][1] \in 1 .. Len(sent)
          /\ s[L + i][2] \in 1 .. Length(s[L + i][1])
          /\ HasAt(s, s[L + i][1], (L + i) - s[L + i][2])
      BY <2>1 DEF WholePackages
    <3>2. s[L + i][1] = n /\ s[L + i][2] = k
      BY <2>2
    <3>. QED  BY <3>1, <3>2
  <2>4. Length(n) \in Nat
    BY <2>3, LengthType
  <2>5. n # l + 1
    <3>1. SUFFICES ASSUME n = l + 1 PROVE FALSE
      OBVIOUS
    <3>2. k \in 1 .. L /\ k \in Nat
      BY <2>3, <2>4, <3>1 DEF L
    <3>3. k \in 1 .. Len(s) /\ s[k] = s[L + i]
      BY <1>3, <2>1, <2>2, <3>1, <3>2
    <3>4. k = L + i
      BY <2>1, <3>3, Ordered, LenProperties DEF TypeInv, TypeOK
    <3>. QED  BY <1>1, <2>1, <3>2, <3>4
  <2>6. ASSUME NEW q \in 1 .. Length(n)
        PROVE  (i - k) + q \in 1 .. Len(t) /\ t[(i - k) + q] = <<n, q>>
    <3>1. ((L + i) - k) + q \in 1 .. Len(s) /\ s[((L + i) - k) + q] = <<n, q>>
      BY <2>3 DEF HasAt
    <3>2. ((L + i) - k) + q \notin 1 .. L
      BY <1>3, <2>5, <3>1
    <3>3. k \in Int /\ q \in Int
      BY <2>3, <2>4
    <3>4. (i - k) + q \in 1 .. Len(t) /\ L + ((i - k) + q) = ((L + i) - k) + q
      BY <1>1, <1>2, <2>1, <3>1, <3>2, <3>3
    <3>. QED  BY <1>2, <3>1, <3>4
  <2>7. HasAt(t, n, i - k)
    BY <2>6 DEF HasAt
  <2>8. t[i][1] = n /\ t[i][2] = k
    BY <2>2
  <2>. QED  BY <2>3, <2>7, <2>8
<1>5. ASSUME NEW n \in (l + 1) + 1 .. Len(sent)
      PROVE  \E i \in 1 .. Len(t) : t[i] = <<n, 1>>
  <2>0. \A m \in l + 1 .. Len(sent) : \E i \in 1 .. Len(s) : s[i] = <<m, 1>>
    BY DEF WholePackages
  <2>1. PICK i \in 1 .. Len(s) : s[i] = <<n, 1>>
    <3>1. n \in l + 1 .. Len(sent)
      BY <1>1
    <3>. QED  BY <2>0, <3>1
  <2>2. i \notin 1 .. L
    BY <1>3, <2>1
  <2>3. i - L \in 1 .. Len(t) /\ L + (i - L) = i
    BY <1>1, <1>2, <2>2
  <2>. QED  BY <1>2, <2>1, <2>3
<1>. QED  BY <1>4, <1>5 DEF WholePackages

LEMMA InitWhole == Init => WholeInv
<1>. SUFFICES ASSUME Init PROVE WholeInv
  OBVIOUS
<1>1. /\ Stream = <<>> /\ buffer \o wire = <<>> /\ Len(sent) = 0 /\ Last = 0
  BY EmptySeq, ConcatEmptySeq DEF Init, Stream, Last, Promise!LastDelivered
<1>2. Len(Stream) = 0
  BY <1>1, EmptySeq
<1>. QED  BY <1>1, <1>2 DEF Init, WholeInv, WholePackages, AtHeader

(* A package that is sent comes after the others. *)
LEMMA SendWhole ==
    ASSUME TypeInv, TypeInv', OrderInv, WholeInv, NEW m \in Message, Send(m)
    PROVE  WholeInv'
<1>a. PICK c : c = Len(sent)
  OBVIOUS
<1>b. PICK new : new = [k \in 1 .. HeaderSize + Size[m] |-> <<c + 1, k>>]
  OBVIOUS
<1>1. /\ sent' = Append(sent, m) /\ delivered' = delivered /\ link' = "up"
      /\ wire' = wire \o new /\ buffer' = buffer /\ array' = array
      /\ hdrArray' = hdrArray /\ hdr' = hdr /\ data' = data
  BY <1>a, <1>b DEF Send, receiveData
<1>2. /\ c \in Nat /\ Len(sent') = c + 1 /\ sent'[c + 1] = m
      /\ \A n \in 1 .. c : sent'[n] = sent[n]
  BY <1>a, <1>1, LenProperties, AppendProperties DEF TypeInv, TypeOK
<1>3. Last' = Last /\ Last \in Nat
  BY <1>1, LastType DEF Last, Promise!LastDelivered
<1>4. /\ Length(c + 1)' = HeaderSize + Size[m]
      /\ \A n \in 1 .. c : Length(n)' = Length(n)
  BY <1>2 DEF Length
<1>5. HeaderSize + Size[m] \in Nat \ {0} /\ HeaderSize \in Nat \ {0}
  BY ConstantsAssumption
<1>6. /\ new \in Seq(Byte) /\ Len(new) = HeaderSize + Size[m]
      /\ \A i \in 1 .. Len(new) : new[i] = <<c + 1, i>>
  <2>1. c + 1 \in 1 .. MaxPackages
    <3>1. Len(sent)' <= MaxPackages
      BY DEF TypeInv, TypeOK
    <3>. QED  BY <1>2, <3>1, ConstantsAssumption
  <2>2. new \in [1 .. HeaderSize + Size[m] -> Byte]
    BY <1>b, <1>5, <2>1 DEF Byte
  <2>3. new \in Seq(Byte)
    BY <1>5, <2>2, SeqDef
  <2>. QED  BY <1>b, <1>5, <2>2, <2>3, LenProperties
<1>7. Stream' = Stream \o new
  <2>1. Stream \o new = hdrArray \o (array \o (buffer \o (wire \o new)))
    BY <1>6, StreamAppended, Zenon
  <2>. QED  BY <1>1, <2>1 DEF Stream
<1>c. PICK s : s = Stream
  OBVIOUS
<1>d. PICK u : u = Stream'
  OBVIOUS
<1>8. /\ Len(u) = Len(s) + Len(new) /\ Len(s) \in Nat /\ Len(new) \in Nat
      /\ \A i \in 1 .. Len(s) + Len(new) :
            u[i] = IF i <= Len(s) THEN s[i] ELSE new[i - Len(s)]
  BY <1>c, <1>d, <1>6, <1>7, StreamType, ConcatProperties, LenProperties
<1>9. s \in Seq(Byte) /\ WholePackages(s, Last)
  BY <1>c, StreamType DEF WholeInv
<1>10. ASSUME NEW i \in 1 .. Len(s)
       PROVE  /\ u[i][1] \in 1 .. Len(sent)'
              /\ u[i][2] \in 1 .. Length(u[i][1])'
              /\ HasAt(u, u[i][1], i - u[i][2])'
  <2>1. u[i] = s[i] /\ i \in 1 .. Len(u)
    BY <1>8
  <2>2. /\ s[i][1] \in 1 .. c /\ s[i][2] \in 1 .. Length(s[i][1])
        /\ HasAt(s, s[i][1], i - s[i][2])
    BY <1>a, <1>9 DEF WholePackages
  <2>3. PICK n, k : n = s[i][1] /\ k = s[i][2]
    OBVIOUS
  <2>4. n \in 1 .. c /\ k \in 1 .. Length(n) /\ HasAt(s, n, i - k)
    BY <2>2, <2>3
  <2>5. n \in 1 .. Len(sent)' /\ k \in 1 .. Length(n)'
    BY <1>2, <1>4, <2>4
  <2>6. HasAt(u, n, i - k)'
    <3>1. ASSUME NEW q \in 1 .. Length(n)
          PROVE  (i - k) + q \in 1 .. Len(u) /\ u[(i - k) + q] = <<n, q>>
      <4>1. (i - k) + q \in 1 .. Len(s) /\ s[(i - k) + q] = <<n, q>>
        BY <2>4 DEF HasAt
      <4>. QED  BY <1>8, <4>1
    <3>. QED  BY <1>4, <2>4, <3>1 DEF HasAt
  <2>. QED  BY <2>1, <2>3, <2>5, <2>6
<1>11. ASSUME NEW i \in Len(s) + 1 .. Len(s) + Len(new)
       PROVE  /\ u[i][1] \in 1 .. Len(sent)'
              /\ u[i][2] \in 1 .. Length(u[i][1])'
              /\ HasAt(u, u[i][1], i - u[i][2])'
  <2>1. i - Len(s) \in 1 .. Len(new) /\ u[i] = <<c + 1, i - Len(s)>>
    <3>1. /\ i \in 1 .. Len(s) + Len(new) /\ ~(i <= Len(s))
          /\ i - Len(s) \in 1 .. Len(new)
      BY <1>8
    <3>2. u[i] = new[i - Len(s)]
      BY <1>8, <3>1
    <3>. QED  BY <1>6, <3>1, <3>2
  <2>2. u[i][1] = c + 1 /\ u[i][2] = i - Len(s) /\ i - u[i][2] = Len(s)
    BY <1>8, <2>1
  <2>3. HasAt(u, c + 1, Len(s))'
    <3>1. ASSUME NEW q \in 1 .. Len(new)
          PROVE  Len(s) + q \in 1 .. Len(u) /\ u[Len(s) + q] = <<c + 1, q>>
      <4>1. /\ Len(s) + q \in 1 .. Len(s) + Len(new) /\ ~(Len(s) + q <= Len(s))
            /\ (Len(s) + q) - Len(s) = q
        BY <1>8
      <4>2. u[Len(s) + q] = new[(Len(s) + q) - Len(s)]
        BY <1>8, <4>1
      <4>. QED  BY <1>6, <1>8, <4>1, <4>2
    <3>. QED  BY <1>4, <1>6, <3>1 DEF HasAt
  <2>. QED  BY <1>2, <1>4, <1>6, <2>1, <2>2, <2>3
<1>12. ASSUME NEW n \in Last + 1 .. c + 1 PROVE \E i \in 1 .. Len(u) : u[i] = <<n, 1>>
  <2>1. CASE n = c + 1
    <3>1. /\ Len(s) + 1 \in 1 .. Len(s) + Len(new) /\ ~(Len(s) + 1 <= Len(s))
          /\ (Len(s) + 1) - Len(s) = 1 /\ 1 \in 1 .. Len(new)
      BY <1>5, <1>6, <1>8
    <3>2. u[Len(s) + 1] = new[(Len(s) + 1) - Len(s)]
      BY <1>8, <3>1
    <3>3. Len(s) + 1 \in 1 .. Len(u) /\ u[Len(s) + 1] = <<c + 1, 1>>
      BY <1>6, <1>8, <3>1, <3>2
    <3>. QED  BY <2>1, <3>3
  <2>2. CASE n # c + 1
    <3>1. n \in Last + 1 .. c
      BY <1>2, <1>3, <2>2
    <3>2. PICK i \in 1 .. Len(s) : s[i] = <<n, 1>>
      BY <1>a, <1>9, <3>1 DEF WholePackages
    <3>. QED  BY <1>8, <3>2
  <2>. QED  BY <2>1, <2>2
<1>13. WholePackages(Stream, Last)'
  <2>1. 1 .. Len(u) = 1 .. Len(s) \cup Len(s) + 1 .. Len(s) + Len(new)
    BY <1>8
  <2>. QED  BY <1>d, <1>2, <1>3, <1>10, <1>11, <1>12, <2>1 DEF WholePackages
<1>14. ASSUME NEW w \in Seq(Byte), AtHeader(w) PROVE AtHeader(w \o new)
  <2>1. /\ w \o new \in Seq(Byte) /\ Len(w) \in Nat
        /\ \A i \in 1 .. Len(w) + Len(new) :
              (w \o new)[i] = IF i <= Len(w) THEN w[i] ELSE new[i - Len(w)]
    BY <1>6, ConcatProperties, LenProperties
  <2>2. w = <<>> \/ Len(w) > 0
    BY <2>1, EmptySeq
  <2>3. w = <<>> => Len(w) = 0
    BY EmptySeq
  <2>4. (w \o new)[1] = IF Len(w) > 0 THEN w[1] ELSE <<c + 1, 1>>
    <3>1. 1 \in 1 .. Len(w) + Len(new) /\ 1 \in 1 .. Len(new)
      BY <1>5, <1>6, <2>1
    <3>2. (w \o new)[1] = IF 1 <= Len(w) THEN w[1] ELSE new[1 - Len(w)]
      BY <2>1, <3>1
    <3>3. CASE Len(w) > 0
      BY <2>1, <3>2, <3>3
    <3>4. CASE ~(Len(w) > 0)
      <4>1. Len(w) = 0 /\ new[1] = <<c + 1, 1>>
        BY <1>6, <2>1, <3>1, <3>4
      <4>. QED  BY <3>2, <3>4, <4>1
    <3>. QED  BY <3>3, <3>4
  <2>. QED  BY <1>2, <1>5, <1>14, <2>1, <2>2, <2>3, <2>4 DEF AtHeader
<1>15. AtHeader(buffer \o wire)'
  <2>1. wire \in Seq(Byte) /\ buffer \in Seq(Byte) /\ buffer \o wire \in Seq(Byte)
    BY StreamType DEF TypeInv, TypeOK
  <2>2. buffer \o (wire \o new) = (buffer \o wire) \o new
    BY <1>6, <2>1, Associative
  <2>. QED  BY <1>1, <1>14, <2>1, <2>2 DEF WholeInv, AtHeader
<1>. QED  BY <1>1, <1>13, <1>15 DEF WholeInv

(* The package a header of the stream belongs to has come with its header. *)
LEMMA NewHeaderWhole ==
    ASSUME TypeInv, OrderInv, WholeInv, NewHeader
    PROVE  /\ delivered' = Append(delivered, Last + 1) /\ Last + 1 \in 1 .. Len(sent)
           /\ hdr' = NullHeader /\ data' = <<>> /\ hdrArray' = <<>>
           /\ Length(Last + 1) <= Len(array)
           /\ array' = SubSeq(array, Length(Last + 1) + 1, Len(array))
           /\ HasAt(Stream, Last + 1, 0)
<1>. DEFINE n == Last + 1
            r == buffer \o wire
            size == Size[sent[n]]
<1>1. /\ array # <<>> /\ hdrArray = <<>> /\ Len(array) >= HeaderSize
      /\ array \in Seq(Byte) /\ r \in Seq(Byte) /\ Len(array) \in Nat /\ Len(r) \in Nat
  BY StreamType, LenProperties DEF NewHeader, TypeInv, TypeOK, BufferBounds
<1>2. /\ Stream = array \o r /\ Stream \in Seq(Byte) /\ Len(Stream) = Len(array) + Len(r)
      /\ \A i \in 1 .. Len(array) : Stream[i] = array[i]
      /\ Len(r) > 0 => Stream[Len(array) + 1] = r[1]
  <2>1. Stream = array \o r
    BY <1>1, StreamType, ConcatEmptySeq DEF Stream
  <2>2. /\ Len(array \o r) = Len(array) + Len(r)
        /\ \A i \in 1 .. Len(array) + Len(r) :
              (array \o r)[i] = IF i <= Len(array) THEN array[i] ELSE r[i - Len(array)]
    BY <1>1, ConcatProperties
  <2>3. \A i \in 1 .. Len(array) : i \in 1 .. Len(array) + Len(r) /\ i <= Len(array)
    BY <1>1
  <2>4. Len(r) > 0 => /\ Len(array) + 1 \in 1 .. Len(array) + Len(r)
                      /\ ~(Len(array) + 1 <= Len(array))
                      /\ (Len(array) + 1) - Len(array) = 1
    BY <1>1
  <2>5. Len(r) > 0 => Stream[Len(array) + 1] = r[(Len(array) + 1) - Len(array)]
    BY <2>1, <2>2, <2>4
  <2>6. Len(r) > 0 => r[(Len(array) + 1) - Len(array)] = r[1]
    BY <2>4
  <2>. HIDE DEF r
  <2>7. \A i \in 1 .. Len(array) : Stream[i] = array[i]
    BY <2>1, <2>2, <2>3
  <2>. QED  BY <2>1, <2>2, <2>5, <2>6, <2>7, StreamType
<1>3. n \in 1 .. Len(sent) /\ HasAt(Stream, n, 0)
  <2>1. Last \in Nat /\ hdr.n \in Nat /\ Len(Stream) > 0
    BY <1>1, <1>2, LastType, ConstantsAssumption DEF TypeInv, TypeOK, Header
  <2>2. Stream # <<>>
    BY <2>1, EmptySeq
  <2>. QED  BY <1>2, <2>1, <2>2, FirstPackage DEF OrderInv, WholeInv
<1>4. /\ size \in Nat \ {0} /\ size % SizeLimit = size
      /\ Length(n) = HeaderSize + size /\ HeaderSize \in Nat \ {0} /\ n \in Nat
  <2>1. n \in Nat
    BY LastType
  <2>. QED  BY <1>3, <2>1, LengthType DEF Length
<1>. HIDE DEF n, r, size
<1>5. \A q \in 1 .. HeaderSize + size : q \in 1 .. Len(Stream) /\ Stream[q] = <<n, q>>
  <2>1. \A q \in 1 .. Length(n) : 0 + q \in 1 .. Len(Stream) /\ Stream[0 + q] = <<n, q>>
    BY <1>3 DEF HasAt
  <2>2. \A q \in 1 .. HeaderSize + size : q \in 1 .. Length(n) /\ 0 + q = q
    BY <1>4
  <2>. QED  BY <2>1, <2>2
<1>6. HeaderSize + size <= Len(array)
  <2>1. SUFFICES ASSUME Len(array) < HeaderSize + size PROVE FALSE
    BY <1>1, <1>4
  <2>2. Len(array) + 1 \in 1 .. HeaderSize + size
    BY <1>1, <1>4, <2>1
  <2>3. Len(array) + 1 \in 1 .. Len(Stream) /\ Stream[Len(array) + 1] = <<n, Len(array) + 1>>
    BY <1>5, <2>2
  <2>4. Len(r) > 0
    BY <1>1, <1>2, <2>3
  <2>5. r[1] = <<n, Len(array) + 1>> /\ r # <<>>
    BY <1>2, <2>3, <2>4, EmptySeq
  <2>6. r[1][2] <= HeaderSize
    BY <2>5 DEF WholeInv, AtHeader, r
  <2>. QED  BY <1>1, <1>4, <2>5, <2>6
<1>7. \A q \in 1 .. HeaderSize + size : q \in 1 .. Len(array) /\ array[q] = <<n, q>>
  <2>1. \A q \in 1 .. HeaderSize + size : q \in 1 .. Len(array)
    BY <1>1, <1>4, <1>6
  <2>. QED  BY <1>2, <1>5, <2>1
<1>8. SubSeq(array, 1, HeaderSize) = HeaderBytes(n)
  <2>1. /\ SubSeq(array, 1, HeaderSize) \in Seq(Byte)
        /\ Len(SubSeq(array, 1, HeaderSize)) = HeaderSize
        /\ \A q \in 1 .. HeaderSize : SubSeq(array, 1, HeaderSize)[q] = array[1 + q - 1]
    BY <1>1, <1>4, Pieces
  <2>2. \A q \in 1 .. HeaderSize : 1 + q - 1 = q /\ q \in 1 .. HeaderSize + size
    BY <1>4
  <2>3. SubSeq(array, 1, HeaderSize) \in [1 .. HeaderSize -> Byte]
    BY <2>1, LenProperties
  <2>4. \A q \in 1 .. HeaderSize : SubSeq(array, 1, HeaderSize)[q] = <<n, q>>
    BY <1>7, <2>1, <2>2
  <2>. HIDE DEF n
  <2>. QED  BY <2>3, <2>4 DEF HeaderBytes
<1>9. Decode(SubSeq(array, 1, HeaderSize)) = {[n |-> n, size |-> size, ok |-> TRUE]}
  <2>1. \A m \in 1 .. Len(sent) : HeaderBytes(n) = HeaderBytes(m) => m = n
    <3>1. \A m \in 1 .. Len(sent) : HeaderBytes(m)[1] = <<m, 1>>
      BY <1>4 DEF HeaderBytes
    <3>. QED  BY <1>3, <3>1
  <2>2. {m \in 1 .. Len(sent) : HeaderBytes(n) = HeaderBytes(m)} = {n}
    BY <1>3, <2>1
  <2>3. Decode(HeaderBytes(n)) =
           {[n |-> m, size |-> Size[sent[m]] % SizeLimit, ok |-> TRUE] : m \in {n}}
    BY <2>2 DEF Decode
  <2>4. Size[sent[n]] % SizeLimit = size
    BY <1>4 DEF size
  <2>. QED  BY <1>8, <2>3, <2>4
<1>. DEFINE h == [n |-> n, size |-> size, ok |-> TRUE]
<1>10. /\ EndOfIteration(h, Mid(HeaderSize, size), hdrArray)
       /\ array' = SubSeq(array, HeaderSize + size + 1, Len(array))
  <2>1. LET length == Smaller(h.size, Len(array) - HeaderSize)
        IN  /\ EndOfIteration(h, Mid(HeaderSize, length), hdrArray)
            /\ array' = SubSeq(array, HeaderSize + length + 1, Len(array))
    BY <1>9 DEF NewHeader
  <2>2. Smaller(h.size, Len(array) - HeaderSize) = size
    BY <1>1, <1>4, <1>6 DEF Smaller
  <2>. QED  BY <2>1, <2>2
<1>11. Mid(HeaderSize, size) = Payload(n)
  <2>1. Mid(HeaderSize, size) = SubSeq(array, HeaderSize + 1, HeaderSize + size)
    BY <1>1, <1>4, <1>6 DEF Mid, Smaller
  <2>2. /\ SubSeq(array, HeaderSize + 1, HeaderSize + size) \in Seq(Byte)
        /\ Len(SubSeq(array, HeaderSize + 1, HeaderSize + size)) = size
        /\ \A q \in 1 .. size :
              SubSeq(array, HeaderSize + 1, HeaderSize + size)[q] = array[HeaderSize + 1 + q - 1]
    <3>1. /\ HeaderSize + 1 \in Nat \ {0} /\ HeaderSize + size \in Nat
          /\ HeaderSize + 1 <= HeaderSize + size
          /\ (HeaderSize + size) - (HeaderSize + 1) + 1 = size
      BY <1>4
    <3>. QED  BY <1>1, <1>6, <3>1, Pieces
  <2>3. \A q \in 1 .. size : /\ HeaderSize + 1 + q - 1 = HeaderSize + q
                             /\ HeaderSize + q \in 1 .. HeaderSize + size
    BY <1>4
  <2>4. \A q \in 1 .. size :
           SubSeq(array, HeaderSize + 1, HeaderSize + size)[q] = <<n, HeaderSize + q>>
    BY <1>7, <2>2, <2>3
  <2>5. SubSeq(array, HeaderSize + 1, HeaderSize + size) \in [1 .. size -> Byte]
    BY <2>2, LenProperties
  <2>. QED  BY <2>1, <2>4, <2>5 DEF Payload, size
<1>12. Len(Payload(n)) = size
  <2>1. Payload(n) \in Seq(Byte)
    BY <1>1, <1>4, <1>11, MidType, ConstantsAssumption
  <2>2. DOMAIN Payload(n) = 1 .. size
    BY DEF Payload, size
  <2>. QED  BY <1>4, <2>1, <2>2, LenProperties
<1>13. PackageIsValid(h, Payload(n))
  BY <1>3, <1>4, <1>12 DEF PackageIsValid, HeaderIsValid, TypeInv, TypeOK
<1>14. /\ delivered' = Append(delivered, n)
       /\ hdr' = NullHeader /\ data' = <<>> /\ hdrArray' = <<>>
  BY <1>10, <1>11, <1>13 DEF EndOfIteration
<1>15. Length(n) = HeaderSize + size
  BY <1>4
<1>. QED  BY <1>3, <1>6, <1>10, <1>14, <1>15 DEF n

LEMMA NextWhole ==
    ASSUME TypeInv, TypeInv', OrderInv, WholeInv, ~broken', [Next]_vars
    PROVE  WholeInv' /\ [Promise!Next]_(Promise!vars)
<1>0. Last \in Nat /\ hdr.n \in Nat /\ ~HeaderIsValid(hdr)
  BY LastType DEF TypeInv, TypeOK, Header, WholeInv, HeaderIsValid, NullHeader
<1>00. broken' = FALSE /\ broken = FALSE
  <2>1. broken \in BOOLEAN /\ broken' \in BOOLEAN
    BY DEF TypeInv, TypeOK
  <2>2. ~broken
    BY DEF Next, Iteration, Send, Arrive, Disconnect, Reconnect, AvelableBytes, NoSocket,
           ReadAll, FillPackage, NewHeader, KeepHeaderPart, vars
  <2>. QED  BY <2>1, <2>2
<1>a. ASSUME UNCHANGED <<sent, link, delivered, hdr, data>>, Stream' = Stream,
             AtHeader(buffer \o wire)'
      PROVE  WholeInv' /\ [Promise!Next]_(Promise!vars)
  <2>1. Last' = Last
    BY <1>a DEF Last, Promise!LastDelivered
  <2>2. WholePackages(Stream, Last)'
    BY <1>a, <2>1 DEF WholeInv, WholePackages, HasAt, Length
  <2>. QED  BY <1>a, <1>00, <2>2 DEF WholeInv, Promise!vars
<1>1. ASSUME NEW m \in Message, Send(m)
      PROVE  WholeInv' /\ Promise!Send
  BY <1>1, <1>00, SendWhole DEF Send, Promise!Send
<1>2. ASSUME NEW k \in 1 .. Len(wire), Arrive(k)
      PROVE  WholeInv' /\ [Promise!Next]_(Promise!vars)
  <2>. DEFINE w1 == SubSeq(wire, 1, k)
              w2 == SubSeq(wire, k + 1, Len(wire))
  <2>1. /\ UNCHANGED <<sent, link, delivered, hdr, data, array, hdrArray>>
        /\ buffer' = buffer \o w1 /\ wire' = w2
    BY <1>2 DEF Arrive, receiveData
  <2>2. /\ wire \in Seq(Byte) /\ Len(wire) \in Nat /\ k \in 0 .. Len(wire) /\ k \in Nat
        /\ w1 \in Seq(Byte) /\ w2 \in Seq(Byte) /\ wire = w1 \o w2 /\ buffer \in Seq(Byte)
    <3>1. wire \in Seq(Byte) /\ buffer \in Seq(Byte) /\ Len(wire) \in Nat
      BY LenProperties DEF TypeInv, TypeOK
    <3>2. k \in 0 .. Len(wire) /\ k \in Nat
      BY <3>1
    <3>. QED  BY <3>1, <3>2, Cut
  <2>. HIDE DEF w1, w2
  <2>4. (buffer \o w1) \o w2 = buffer \o (w1 \o w2)
    BY <2>2, Associative
  <2>5. Stream' = Stream /\ buffer' \o wire' = buffer \o wire
    BY <2>1, <2>2, <2>4, Zenon DEF Stream
  <2>6. AtHeader(buffer \o wire)'
    BY <2>5 DEF AtHeader, WholeInv
  <2>. QED  BY <1>a, <2>1, <2>5, <2>6
<1>3. ~Disconnect
  BY <1>00 DEF Disconnect
<1>4. ~Reconnect
  BY DEF Reconnect, WholeInv
<1>5. ASSUME AvelableBytes
      PROVE  WholeInv' /\ [Promise!Next]_(Promise!vars)
  <2>1. /\ UNCHANGED <<sent, link, delivered, wire>> /\ array = <<>> /\ ReadAll
    BY <1>5 DEF AvelableBytes, peer, NoSocket, WholeInv
  <2>2. /\ UNCHANGED <<hdr, data>> /\ hdrArray' = <<>> /\ array' = hdrArray \o buffer
        /\ buffer' = <<>>
    BY <2>1 DEF ReadAll
  <2>3. /\ hdrArray \in Seq(Byte) /\ buffer \in Seq(Byte) /\ wire \in Seq(Byte)
        /\ buffer \o wire \in Seq(Byte)
    BY StreamType DEF TypeInv, TypeOK
  <2>4. Stream = hdrArray \o (buffer \o wire)
    BY <2>1, <2>3, ConcatEmptySeq DEF Stream
  <2>5. (hdrArray \o buffer) \o wire = hdrArray \o (buffer \o wire)
    BY <2>3, Associative
  <2>6. buffer' \o wire' = wire
    BY <2>1, <2>2, <2>3, ConcatEmptySeq
  <2>7. Stream' = hdrArray' \o (array' \o (buffer' \o wire'))
    BY DEF Stream
  <2>8. Stream' = <<>> \o ((hdrArray \o buffer) \o wire)
    BY <2>2, <2>6, <2>7
  <2>9. Stream' = Stream
    BY <2>4, <2>5, <2>8, StreamType, ConcatEmptySeq
  <2>10. AtHeader(buffer \o wire)'
    <3>1. ~PayloadCut
      BY <1>00, <2>1 DEF ReadAll
    <3>2. ASSUME wire # <<>> PROVE wire[1][2] <= HeaderSize
      <4>1. wire[1] \in (1 .. MaxPackages) \X Nat
        BY <2>3, <3>2, EmptySeq, LenProperties, ElementOfSeq DEF Byte
      <4>. QED  BY <3>1, <3>2, <4>1, ConstantsAssumption DEF PayloadCut
    <3>. QED  BY <2>6, <3>2 DEF AtHeader
  <2>. QED  BY <1>a, <2>1, <2>2, <2>9, <2>10
<1>6. ~FillPackage
  BY <1>0 DEF FillPackage
<1>7. ASSUME NewHeader
      PROVE  WholeInv' /\ [Promise!Next]_(Promise!vars)
  <2>. DEFINE n == Last + 1
              L == Length(n)
              r == buffer \o wire
  <2>1. /\ delivered' = Append(delivered, n) /\ n \in 1 .. Len(sent)
        /\ hdr' = NullHeader /\ data' = <<>> /\ hdrArray' = <<>>
        /\ L <= Len(array) /\ array' = SubSeq(array, L + 1, Len(array))
        /\ HasAt(Stream, n, 0)
    BY <1>7, NewHeaderWhole
  <2>2. UNCHANGED <<sent, link, wire, buffer>> /\ array # <<>>
    BY <1>7 DEF NewHeader, peer
  <2>3. n \in Nat /\ L \in Nat /\ Len(array) \in Nat /\ L \in 0 .. Len(array)
    BY <1>0, <2>1, LengthType, LenProperties DEF TypeInv, TypeOK
  <2>4. Last' = n
    BY <2>1, <2>3, LastAppended
  <2>. HIDE DEF L
  <2>. DEFINE a1 == SubSeq(array, 1, L)
              t == array' \o r
  <2>5. Stream = a1 \o t /\ t \in Seq(Byte)
    <3>1. Len(sent) \in Nat /\ InOrder(Stream, hdr.n, Last, Len(sent))
      BY LenProperties DEF OrderInv, TypeInv, TypeOK
    <3>. QED  BY <1>0, <2>1, <2>2, <2>3, <3>1, Consume
  <2>6. a1 \in Seq(Byte) /\ Len(a1) = L
    <3>1. array \in Seq(Byte) /\ 1 \in Nat \ {0} /\ L <= Len(array)
      BY <2>3 DEF TypeInv, TypeOK
    <3>2. Len(a1) = IF 1 <= L THEN L - 1 + 1 ELSE 0
      BY <2>3, <3>1, Pieces
    <3>. QED  BY <2>3, <3>1, <3>2, Pieces
  <2>7. Stream' = t
    <3>1. Stream' = <<>> \o t
      BY <2>1, <2>2 DEF Stream
    <3>. QED  BY <2>5, <3>1, ConcatEmptySeq
  <2>. HIDE DEF a1, t, n
  <2>8. /\ Len(t) = Len(Stream) - L /\ L <= Len(Stream)
        /\ \A i \in 1 .. Len(t) : t[i] = Stream[L + i]
    <3>1. /\ Len(Stream) = L + Len(t) /\ Len(t) \in Nat
          /\ \A i \in 1 .. L + Len(t) : Stream[i] = IF i <= L THEN a1[i] ELSE t[i - L]
      BY <2>5, <2>6, ConcatProperties, LenProperties
    <3>2. ASSUME NEW i \in 1 .. Len(t) PROVE t[i] = Stream[L + i]
      <4>1. L + i \in 1 .. L + Len(t) /\ ~(L + i <= L) /\ (L + i) - L = i
        BY <2>3, <3>1
      <4>2. Stream[L + i] = t[(L + i) - L]
        BY <3>1, <4>1
      <4>. QED  BY <4>1, <4>2
    <3>. QED  BY <2>3, <3>1, <3>2
  <2>9. WholePackages(t, Last + 1)
    <3>1. Last + 1 \in 1 .. Len(sent) /\ HasAt(Stream, Last + 1, 0)
      BY <2>1 DEF n
    <3>2. /\ Length(Last + 1) <= Len(Stream) /\ Len(t) = Len(Stream) - Length(Last + 1)
          /\ \A i \in 1 .. Len(t) : t[i] = Stream[Length(Last + 1) + i]
      BY <2>8 DEF L, n
    <3>3. InOrder(Stream, hdr.n, Last, Len(sent)) /\ WholePackages(Stream, Last)
      BY DEF OrderInv, WholeInv
    <3>. QED  BY <1>0, <2>5, <3>1, <3>2, <3>3, StreamType, WithoutFirst
  <2>10. WholePackages(Stream, Last)'
    <3>1. Last' = Last + 1
      BY <2>4 DEF n
    <3>2. Stream' = t
      BY <2>7
    <3>. QED  BY <2>2, <2>9, <3>1, <3>2 DEF WholePackages, HasAt, Length
  <2>11. Promise!Deliver
    <3>1. n \in Promise!LastDelivered + 1 .. Len(sent) /\ n = Promise!LastDelivered + 1
      BY <1>0, <2>1 DEF Last, n
    <3>. QED  BY <1>00, <2>1, <2>2, <3>1 DEF Promise!Deliver
  <2>. QED  BY <2>1, <2>2, <2>10, <2>11 DEF WholeInv, AtHeader, Promise!Next
<1>8. ASSUME KeepHeaderPart
      PROVE  WholeInv' /\ [Promise!Next]_(Promise!vars)
  <2>1. /\ UNCHANGED <<sent, link, wire, buffer>> /\ array' = <<>> /\ hdrArray = <<>>
        /\ EndOfIteration(hdr, data, hdrArray \o array)
    BY <1>8 DEF KeepHeaderPart, peer, TypeInv, BufferBounds
  <2>2. /\ array \in Seq(Byte) /\ buffer \o wire \in Seq(Byte)
        /\ array \o (buffer \o wire) \in Seq(Byte)
    BY StreamType DEF TypeInv, TypeOK
  <2>3. Len(data) = 0 /\ hdr.size = 0
    BY EmptySeq DEF WholeInv, NullHeader
  <2>4. /\ UNCHANGED <<delivered, hdr, data>> /\ hdrArray' = hdrArray \o array
    BY <1>0, <2>1, <2>3 DEF EndOfIteration, PackageIsValid
  <2>5. hdrArray \o array = array /\ <<>> \o (buffer \o wire) = buffer \o wire
    BY <2>1, <2>2, ConcatEmptySeq
  <2>6. Stream' = array \o (buffer \o wire)
    <3>1. Stream' = hdrArray' \o (array' \o (buffer' \o wire'))
      BY DEF Stream
    <3>. QED  BY <2>1, <2>4, <2>5, <3>1
  <2>7. Stream' = Stream
    BY <2>1, <2>2, <2>6, ConcatEmptySeq DEF Stream
  <2>8. AtHeader(buffer \o wire)'
    BY <2>1 DEF AtHeader, WholeInv
  <2>. QED  BY <1>a, <2>1, <2>4, <2>7, <2>8
<1>9. ASSUME UNCHANGED vars
      PROVE  WholeInv' /\ [Promise!Next]_(Promise!vars)
  BY <1>9, <1>a DEF vars, Stream, AtHeader, WholeInv
<1>. QED
  BY <1>1, <1>2, <1>3, <1>4, <1>5, <1>6, <1>7, <1>8, <1>9
     DEF Next, Iteration, Promise!Next

(* Once something may be lost a step is one of a lossy connection; the step  *)
(* with which it is lost delivers nothing.                                   *)
LEMMA NextPromise ==
    ASSUME TypeInv, TypeInv', OrderInv, ~broken => WholeInv, [Next]_vars
    PROVE  (~broken' => WholeInv') /\ [Promise!Next]_(Promise!vars)
<1>0. broken \in BOOLEAN /\ broken' \in BOOLEAN
  BY DEF TypeInv, TypeOK
<1>1. broken => broken'
  BY DEF Next, Iteration, Send, Arrive, Disconnect, Reconnect, AvelableBytes, NoSocket,
         ReadAll, FillPackage, NewHeader, KeepHeaderPart, vars
<1>2. CASE ~broken'
  BY <1>1, <1>2, NextWhole
<1>3. CASE broken /\ broken'
  <2>1. broken = TRUE /\ broken' = TRUE
    BY <1>0, <1>3
  <2>2. Progress
    BY NextOrder
  <2>3. ASSUME NEW n \in Last + 1 .. Len(sent), delivered' = Append(delivered, n),
               sent' = sent
        PROVE  Promise!Deliver
    BY <2>1, <2>3 DEF Promise!Deliver, Last
  <2>. QED  BY <2>1, <2>2, <2>3 DEF Progress, Promise!Next, Promise!Send, Promise!vars
<1>4. CASE ~broken /\ broken'
  <2>1. broken' = TRUE
    BY <1>0, <1>4
  <2>2. Disconnect \/ (AvelableBytes /\ ReadAll)
    BY <1>4
       DEF Next, Iteration, Send, Arrive, Reconnect, AvelableBytes, NoSocket,
           FillPackage, NewHeader, KeepHeaderPart, vars
  <2>3. UNCHANGED <<sent, delivered>>
    BY <2>2 DEF Disconnect, AvelableBytes, peer
  <2>. QED  BY <2>1, <2>3 DEF Promise!Next, Promise!BecomeLossy
<1>. QED  BY <1>2, <1>3, <1>4

(* The reception of packages implements a connection that delivers in order, *)
(* at most once and unchanged, however the stream is cut and whenever the    *)
(* peer is lost and comes back, and that leaves nothing out until a payload  *)
(* is read in part or the connection is lost (the safety part of             *)
(* ImplementsDelivery; that it goes on delivering is left to the model       *)
(* checker).                                                                 *)
THEOREM ReceptionImplementsDelivery == Spec => Promise!Spec
<1>1. Init => Promise!Init
  BY DEF Init, Promise!Init
<1>2. Init => (~broken => WholeInv)
  BY InitWhole
<1>3. TypeInv /\ OrderInv /\ [Next]_vars => OrderInv'
  BY NextOrder
<1>4. TypeInv /\ TypeInv' /\ OrderInv /\ (~broken => WholeInv) /\ [Next]_vars
         => (~broken' => WholeInv') /\ [Promise!Next]_(Promise!vars)
  BY NextPromise
<1>. QED  BY TypeCorrect, InitOrder, <1>1, <1>2, <1>3, <1>4, PTL DEF Spec, Promise!Spec
=============================================================================
