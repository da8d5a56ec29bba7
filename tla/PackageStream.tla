--------------------------- MODULE PackageStream ---------------------------
(***************************************************************************)
(* Reception of packages from one peer address: the sending side           *)
(* (AbstractData::toPackage, AbstractNode::sendPackage), the TCP byte      *)
(* stream between the two sockets, and AbstractNode::avelableBytes, which  *)
(* cuts the stream into packages again with the per-address ReceiveData    *)
(* (_pkg, _hdrArray) it keeps between two calls.                           *)
(*                                                                         *)
(* Bytes: <<n, k>> is the k-th byte of the n-th package written; its first *)
(* HeaderSize bytes are the Header, the others the payload.  Two bytes of  *)
(* different positions are taken to be different, and a payload has the    *)
(* hash of its header only when it is the payload of that very package     *)
(* (no collision of qHash).                                                *)
(***************************************************************************)
EXTENDS Naturals, Sequences

CONSTANTS
    Message,        \* package contents
    Size,           \* Size[m]: bytes of AbstractData::toBytes() of m
    ZeroHash,       \* the contents whose qHash is 0
    HeaderSize,     \* sizeof(Header)
    SizeLimit,      \* 2^16: Header::size is an unsigned short
    GarbageSize,    \* the sizes that bytes which are no header can spell
    MaxPackages,    \* bound: packages sent in a behaviour
    MaxReconnects,  \* bound: times the peer connects again
    MaxEvents       \* bound: readyRead events waiting in the main thread

ASSUME ConstantsAssumption ==
    /\ Size \in [Message -> Nat]
    /\ ZeroHash \subseteq Message
    /\ HeaderSize \in Nat \ {0}
    /\ SizeLimit \in Nat \ {0}
    /\ GarbageSize \subseteq 0 .. SizeLimit - 1
    /\ MaxPackages \in Nat
    /\ MaxReconnects \in Nat
    /\ MaxEvents \in Nat

VARIABLES
    sent,        \* the packages written to a socket of this peer, in order
    link,        \* AbstractNodeInfo::_sct is set ("up") or nullptr ("down")
    reconnects,  \* how often the peer has connected again
    wire,        \* bytes written by the peer that have not arrived
    buffer,      \* bytes in the read buffer of the socket
    events,      \* sigReadyRead events queued for the main thread
    array,       \* the part of avelableBytes' `array' from workIndex on
    hdr,         \* ReceiveData::_pkg.hdr
    data,        \* ReceiveData::_pkg.data
    hdrArray,    \* ReceiveData::_hdrArray
    delivered,   \* positions in sent of the packages passed to newWork
    broken       \* history: a payload was read in part, or the link was lost

peer == <<sent, link, reconnects, wire>>
receiveData == <<hdr, data, hdrArray>>
vars == <<sent, link, reconnects, wire, buffer, events, array, hdr, data,
          hdrArray, delivered, broken>>

-----------------------------------------------------------------------------
(* Packages and headers. *)

\* n = 0: the header is not the one of a package that was sent.
Header == [n : Nat, size : 0 .. SizeLimit - 1, ok : BOOLEAN]

\* Header::reset()
NullHeader == [n |-> 0, size |-> 0, ok |-> FALSE]

\* ok: command and hash are not zero.
HeaderIsValid(h) == h.ok /\ h.size # 0

HeaderBytes(n) == [k \in 1 .. HeaderSize |-> <<n, k>>]

Payload(n) == [k \in 1 .. Size[sent[n]] |-> <<n, HeaderSize + k>>]

\* The headers HeaderSize bytes can be read as by the memcpy of avelableBytes.
Decode(bytes) ==
    LET whole == {n \in 1 .. Len(sent) : bytes = HeaderBytes(n)}
    IN  IF whole # {}
        THEN {[n |-> n, size |-> Size[sent[n]] % SizeLimit, ok |-> TRUE] : n \in whole}
        ELSE {[n |-> 0, size |-> s, ok |-> b] : s \in GarbageSize, b \in BOOLEAN}

\* Mutant of PackageIsValid: the hash is not compared.
PackageIsValidNoHash(h, d) == HeaderIsValid(h) /\ h.size = Len(d)

\* Package::isValid(): size, command and hash agree with the data.
PackageIsValid(h, d) ==
    /\ HeaderIsValid(h)
    /\ h.size = Len(d)
    /\ h.n # 0
    /\ d = Payload(h.n)

\* Mutant of ToPackage: the result of package.isValid() is not returned.
ToPackageUnchecked(m) == m \notin ZeroHash

\* AbstractData::toPackage: the size is cut to 16 bits, then Package::isValid()
\* decides whether the package can be sent.
ToPackage(m) ==
    LET size == Size[m] % SizeLimit
    IN  /\ m \notin ZeroHash
        /\ size # 0
        /\ size = Size[m]

-----------------------------------------------------------------------------
Init ==
    /\ sent = <<>>
    /\ link = "up"
    /\ reconnects = 0
    /\ wire = <<>>
    /\ buffer = <<>>
    /\ events = 0
    /\ array = <<>>
    /\ hdr = NullHeader
    /\ data = <<>>
    /\ hdrArray = <<>>
    /\ delivered = <<>>
    /\ broken = FALSE

(* The peer and the network. *)

\* AbstractNode::sendData of the peer, down to the write of DataSender.
Send(m) ==
    /\ link = "up"
    /\ Len(sent) < MaxPackages
    /\ ToPackage(m)
    /\ sent' = Append(sent, m)
    /\ wire' = wire \o [k \in 1 .. HeaderSize + Size[m] |-> <<Len(sent) + 1, k>>]
    /\ UNCHANGED <<link, reconnects, buffer, events, array, receiveData, delivered, broken>>

\* c bytes arrive, for TCP may cut the stream anywhere; the socket emits readyRead, AbstractNodeInfo emits
\* sigReadyRead, and the call of avelableBytes is queued.
Arrive(c) ==
    /\ events < MaxEvents
    /\ buffer' = buffer \o SubSeq(wire, 1, c)
    /\ wire' = SubSeq(wire, c + 1, Len(wire))
    /\ events' = events + 1
    /\ UNCHANGED <<sent, link, reconnects, array, receiveData, delivered, broken>>

\* AbstractNodeInfo::removeSocket: the socket and what it holds are gone.  The
\* ReceiveData of the address and the queued events stay.
Disconnect ==
    /\ link = "up"
    /\ reconnects < MaxReconnects
    /\ link' = "down"
    /\ wire' = <<>>
    /\ buffer' = <<>>
    /\ broken' = TRUE
    /\ UNCHANGED <<sent, reconnects, events, array, receiveData, delivered>>

\* registerSocket with a known address: setSct of the new socket.
Reconnect ==
    /\ link = "down"
    /\ link' = "up"
    /\ reconnects' = reconnects + 1
    /\ UNCHANGED <<sent, wire, buffer, events, array, receiveData, delivered, broken>>

-----------------------------------------------------------------------------
(* AbstractNode::avelableBytes, in the main thread. *)

NoSocket ==
    /\ link = "down"
    /\ hdr' = NullHeader
    /\ data' = <<>>
    /\ hdrArray' = <<>>
    /\ UNCHANGED <<buffer, array, broken>>

\* What there is to read ends within a payload.
PayloadCut == wire # <<>> /\ wire[1][2] > HeaderSize

\* Mutant of ReadAll: _hdrArray is not cleared.
ReadAllKeepsHeader ==
    /\ link = "up"
    /\ array' = hdrArray \o buffer
    /\ buffer' = <<>>
    /\ broken' = (broken \/ PayloadCut)
    /\ UNCHANGED <<hdr, data, hdrArray>>

\* array = hdrArray + socket->readAll()
ReadAll ==
    /\ link = "up"
    /\ array' = hdrArray \o buffer
    /\ buffer' = <<>>
    /\ hdrArray' = <<>>
    /\ broken' = (broken \/ PayloadCut)
    /\ UNCHANGED <<hdr, data>>

\* The call up to the loop.  The main thread takes the next event only when
\* the loop of the previous call has ended (array = <<>>).
AvelableBytes ==
    /\ array = <<>>
    /\ events > 0
    /\ events' = events - 1
    /\ NoSocket \/ ReadAll
    /\ UNCHANGED <<peer, delivered>>

Smaller(a, b) == IF a <= b THEN a ELSE b

\* Mutant of EndOfIteration: the package is not reset after newWork.
EndOfIterationNoReset(h, d, rest) ==
    IF PackageIsValid(h, d)
    THEN /\ delivered' = Append(delivered, h.n)
         /\ hdr' = h /\ data' = d /\ hdrArray' = rest
    ELSE /\ UNCHANGED delivered
         /\ hdr' = h /\ data' = d /\ hdrArray' = rest

\* The end of an iteration, for the package <<h, d>> and the header bytes `rest'
\* it has put together: a valid package goes to newWork, one with too much
\* data is dropped.
EndOfIteration(h, d, rest) ==
    LET reset == hdr' = NullHeader /\ data' = <<>> /\ hdrArray' = <<>>
    IN  IF PackageIsValid(h, d)
        THEN delivered' = Append(delivered, h.n) /\ reset
        ELSE /\ UNCHANGED delivered
             /\ IF Len(d) > h.size
                THEN reset
                ELSE hdr' = h /\ data' = d /\ hdrArray' = rest

\* QByteArray::mid(from, len) of array, from counted from workIndex.
Mid(from, len) ==
    SubSeq(array, from + 1, Smaller(from + len, Len(array)))

\* CASE 1: the header is there, the data is not complete.  The bytes are taken
\* HeaderSize further than workIndex.
FillPackage ==
    /\ array # <<>>
    /\ HeaderIsValid(hdr)
    /\ LET length == Smaller(hdr.size - Len(data), Len(array))
       IN  /\ EndOfIteration(hdr, data \o Mid(HeaderSize, length), hdrArray)
           /\ array' = SubSeq(array, length + 1, Len(array))
    /\ UNCHANGED <<peer, buffer, events, broken>>

\* CASE 2: a new header, and the data that has come with it.
NewHeader ==
    /\ array # <<>>
    /\ ~HeaderIsValid(hdr)
    /\ Len(array) >= HeaderSize
    /\ \E h \in Decode(SubSeq(array, 1, HeaderSize)) :
          LET length == Smaller(h.size, Len(array) - HeaderSize)
          IN  /\ EndOfIteration(h, Mid(HeaderSize, length), hdrArray)
              /\ array' = SubSeq(array, HeaderSize + length + 1, Len(array))
    /\ UNCHANGED <<peer, buffer, events, broken>>

\* Mutant of KeepHeaderPart: the beginning of the header is dropped.
KeepHeaderPartLost ==
    /\ array # <<>>
    /\ ~HeaderIsValid(hdr)
    /\ Len(array) < HeaderSize
    /\ EndOfIteration(hdr, data, hdrArray)
    /\ array' = <<>>
    /\ UNCHANGED <<peer, buffer, events, broken>>

\* CASE 3: not enough bytes for a header; they wait in _hdrArray.
KeepHeaderPart ==
    /\ array # <<>>
    /\ ~HeaderIsValid(hdr)
    /\ Len(array) < HeaderSize
    /\ EndOfIteration(hdr, data, hdrArray \o array)
    /\ array' = <<>>
    /\ UNCHANGED <<peer, buffer, events, broken>>

Iteration == FillPackage \/ NewHeader \/ KeepHeaderPart

Next ==
    \/ \E m \in Message : Send(m)
    \/ \E c \in 1 .. Len(wire) : Arrive(c)
    \/ Disconnect
    \/ Reconnect
    \/ AvelableBytes
    \/ Iteration

Spec == Init /\ [][Next]_vars

\* TCP brings what is on the wire while the connection stands, and the main
\* thread runs its event loop and the loop of the slot.
Fairness ==
    /\ WF_vars(\E c \in 1 .. Len(wire) : Arrive(c))
    /\ WF_vars(AvelableBytes)
    /\ WF_vars(Iteration)

FairSpec == Spec /\ Fairness

-----------------------------------------------------------------------------
(* Properties. *)

Byte == (1 .. MaxPackages) \X Nat

TypeOK ==
    /\ sent \in Seq(Message)
    /\ Len(sent) <= MaxPackages
    /\ link \in {"up", "down"}
    /\ reconnects \in 0 .. MaxReconnects
    /\ wire \in Seq(Byte)
    /\ buffer \in Seq(Byte)
    /\ events \in 0 .. MaxEvents
    /\ array \in Seq(Byte)
    /\ hdr \in Header
    /\ data \in Seq(Byte)
    /\ hdrArray \in Seq(Byte)
    /\ delivered \in Seq(1 .. MaxPackages)
    /\ broken \in BOOLEAN

\* What ReceiveData may hold between two iterations, whatever the network
\* brings: never more data than the header announces, never as many header
\* bytes as a header has, and no bytes of a next header while a package is
\* being filled.  Without the last one the call after a completed package
\* would put old header bytes before the new data.
BufferBounds ==
    /\ Len(data) <= hdr.size
    /\ Len(hdrArray) < HeaderSize
    /\ HeaderIsValid(hdr) => hdrArray = <<>>
    /\ array # <<>> => hdrArray = <<>>

\* What a peer has sent comes out of avelableBytes in order, at most once and
\* unchanged, however the stream is cut, and also when the peer comes back while
\* the remains of its last connection are still in ReceiveData.  Until a payload
\* is read in part, or the connection is lost, nothing is left out either: cut
\* headers and packages that come together cost nothing, and under the fairness
\* of the network and of the main thread every package is delivered.
Promise == INSTANCE Delivery WITH lossy <- broken
ImplementsDelivery == Promise!FairSpec

\* "CASE 1: The Package data is still not collected, but the header is already
\* collected" (comment at abstractnode.cpp:831): an iteration that begins with a
\* header has bytes to fill in.  Otherwise (a package in _pkg that is complete
\* and not valid) it consumes nothing, changes nothing and repeats for ever:
\* the main thread hangs.
LoopAdvances ==
    array # <<>> /\ HeaderIsValid(hdr) => Len(data) < hdr.size
=============================================================================
