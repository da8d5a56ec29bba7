--------------------------- MODULE Packages_proofs ---------------------------
(***************************************************************************)
(* Theorems about Packages, for any ids, addresses and classes that are    *)
(* registered, and tables of any size.                                     *)
(***************************************************************************)
EXTENDS Packages, SequenceTheorems, TLAPS

(***************************************************************************)
(* The classes.                                                            *)
(***************************************************************************)

ClassNames ==
    {"Ping", "LongPing", "BadRequest", "BadNodeRequest", "CloseConnection", "WebSocket",
     "WebSocketSubscriptions", "KnowAddresses", "NetworkRequest", "TransportData",
     "NodeObject", "NetworkMember", "UserMember", "AuthRequest", "DeleteObject",
     "MemberPermision", "DefaultPermision", "SetSingleValue", "AccessToken", "NodeId",
     "CryptoPairKeys"}

LEMMA Classes == Class = ClassNames
BY DEF Class, Stream, ClassNames

\* A class that writes what it reads, in that order.
Reads(s) == s.read = s.written

LEMMA CodecReads == ASSUME NEW w PROVE Reads(Codec(w, w))
BY DEF Reads, Codec

LEMMA ExtendedReads ==
    ASSUME NEW b, Reads(b), NEW w PROVE Reads(Extended(b, w, w))
BY DEF Reads, Extended, Codec

LEMMA StreamsAgree == \A c \in Class : Stream[c].read = Stream[c].written
<1>1. /\ Reads(AbstractDataStream) /\ Reads(AccessTokenStream) /\ Reads(NodeIdStream)
      /\ Reads(CryptoPairKeysStream)
  BY CodecReads DEF AbstractDataStream, AccessTokenStream, NodeIdStream, CryptoPairKeysStream
<1>2. Reads(PingStream)
  BY <1>1, ExtendedReads DEF PingStream
<1>3. Reads(LongPingStream)
  BY <1>2, ExtendedReads DEF LongPingStream
<1>4. Reads(BadRequestStream)
  BY <1>1, ExtendedReads DEF BadRequestStream
<1>5. Reads(BadNodeRequestStream)
  BY <1>4, ExtendedReads DEF BadNodeRequestStream
<1>6. Reads(WebSocketStream) /\ Reads(SubscriptionsStream)
  BY <1>1, ExtendedReads DEF WebSocketStream, SubscriptionsStream
<1>7. Reads(KnowAddressesStream) /\ Reads(NetworkRequestStream)
  BY <1>1, ExtendedReads DEF KnowAddressesStream, NetworkRequestStream
<1>8. Reads(TransportDataStream)
  BY <1>1, ExtendedReads DEF TransportDataStream
<1>9. Reads(DBObjectStream)
  BY <1>1, ExtendedReads DEF DBObjectStream, DbAddressStream, Codec
<1>10. Reads(NetworkMemberStream)
  BY <1>9, ExtendedReads DEF NetworkMemberStream
<1>11. Reads(NodeObjectStream) /\ Reads(UserMemberStream)
  BY <1>10, ExtendedReads DEF NodeObjectStream, UserMemberStream
<1>12. Reads(AuthRequestStream)
  BY <1>11, ExtendedReads DEF AuthRequestStream
<1>13. Reads(DeleteObjectStream)
  BY <1>9, ExtendedReads DEF DeleteObjectStream
<1>14. Reads(MemberPermisionStream)
  BY CodecReads DEF MemberPermisionStream, PermisionDataStream, Codec
<1>15. \A c \in ClassNames : Reads(Stream[c])
  BY <1>1, <1>2, <1>3, <1>4, <1>5, <1>6, <1>7, <1>8, <1>9, <1>10, <1>11, <1>12, <1>13, <1>14
     DEF Stream, ClassNames
<1>. QED  BY <1>15, Classes DEF Reads

\* The fields a class reads, where other classes rely on them.
LEMMA ReadsSet ==
    ASSUME NEW S, NEW b, b.read \in Seq(S), NEW w, NEW r \in Seq(S)
    PROVE  /\ Extended(b, w, r).read \in Seq(S)
           /\ ToSet(Extended(b, w, r).read) = ToSet(b.read) \cup ToSet(r)
<1>1. Extended(b, w, r).read = b.read \o r
  BY DEF Extended, Codec
<1>. DEFINE s == b.read
<1>. HIDE DEF s
<1>2. /\ s \in Seq(S) /\ Len(s) \in Nat /\ Len(r) \in Nat
      /\ DOMAIN s = 1 .. Len(s) /\ DOMAIN r = 1 .. Len(r)
      /\ s \o r \in Seq(S) /\ DOMAIN (s \o r) = 1 .. Len(s) + Len(r)
      /\ \A i \in 1 .. Len(s) : (s \o r)[i] = s[i]
      /\ \A i \in 1 .. Len(r) : (s \o r)[Len(s) + i] = r[i]
  BY LenProperties, ConcatProperties DEF s
<1>3. ToSet(s \o r) = ToSet(s) \cup ToSet(r)
  <2>. DEFINE q == s \o r
  <2>. HIDE DEF q
  <2>1. \A x \in ToSet(s) \cup ToSet(r) : x \in ToSet(q)
    <3>1. ASSUME NEW i \in 1 .. Len(s) PROVE s[i] \in ToSet(q)
      BY <1>2 DEF ToSet, q
    <3>2. ASSUME NEW i \in 1 .. Len(r) PROVE r[i] \in ToSet(q)
      <4>1. Len(s) + i \in 1 .. Len(s) + Len(r)
        BY <1>2
      <4>. QED  BY <1>2, <4>1 DEF ToSet, q
    <3>. QED  BY <1>2, <3>1, <3>2 DEF ToSet
  <2>2. ASSUME NEW i \in 1 .. Len(s) + Len(r) PROVE q[i] \in ToSet(s) \cup ToSet(r)
    <3>1. CASE i \in 1 .. Len(s)
      BY <1>2, <3>1 DEF ToSet, q
    <3>2. CASE i \notin 1 .. Len(s)
      <4>1. i - Len(s) \in 1 .. Len(r) /\ Len(s) + (i - Len(s)) = i
        BY <1>2, <3>2
      <4>. QED  BY <1>2, <4>1 DEF ToSet, q
    <3>. QED  BY <3>1, <3>2
  <2>. QED  BY <1>2, <2>1, <2>2 DEF ToSet, q
<1>. QED  BY <1>1, <1>2, <1>3 DEF s

LEMMA ToSet1 ==
    ASSUME NEW S, NEW a \in S PROVE ToSet(<<a>>) = {a} /\ <<a>> \in Seq(S)
BY DEF ToSet

LEMMA ToSet2 ==
    ASSUME NEW S, NEW a \in S, NEW b \in S
    PROVE  ToSet(<<a, b>>) = {a, b} /\ <<a, b>> \in Seq(S)
BY DEF ToSet

\* What the fields of the rows are called in a stream.
Words ==
    {"cmd", "id", "table", "authenticationData", "trust", "token", "request",
     "memberId", "dbAddress", "lvl"}

LEMMA WordsAre ==
    /\ "cmd" \in Words /\ "id" \in Words /\ "table" \in Words
    /\ "authenticationData" \in Words /\ "trust" \in Words
    /\ "token" \in Words /\ "request" \in Words
    /\ "memberId" \in Words /\ "dbAddress" \in Words /\ "lvl" \in Words
BY DEF Words

\* A sequence of words and the set of them.
Spells(s, words) == s \in Seq(Words) /\ ToSet(s) = words

LEMMA Spell1 == ASSUME NEW a \in Words PROVE Spells(<<a>>, {a})
BY ToSet1 DEF Spells

LEMMA Spell2 == ASSUME NEW a \in Words, NEW b \in Words PROVE Spells(<<a, b>>, {a, b})
BY ToSet2 DEF Spells

LEMMA ExtendedSpells ==
    ASSUME NEW b, NEW w, NEW r, NEW F, NEW G, NEW H,
           Spells(b.read, F), Spells(r, G), H = F \cup G
    PROVE  Spells(Extended(b, w, r).read, H)
BY ReadsSet DEF Spells

LEMMA FieldsAre ==
    /\ Fields("NetworkMember") = {"id", "table", "authenticationData", "trust"}
    /\ Fields("UserMember") = {"id", "table", "authenticationData", "trust", "token"}
    /\ Fields("AuthRequest") = {"id", "table", "authenticationData", "trust", "token", "request"}
    /\ Fields("DeleteObject") = {"id", "table", "token"}
    /\ Fields("SetSingleValue") = {"id", "table", "field", "value"}
    /\ Fields("MemberPermision") = {"memberId", "dbAddress", "lvl"}
    /\ Fields("DefaultPermision") = {"memberId", "dbAddress", "lvl"}
<1>1. Spells(AbstractDataStream.read, {"cmd"})
  BY Spell1, WordsAre DEF AbstractDataStream, Codec
<1>2. Spells(DBObjectStream.read, {"cmd", "id", "table"})
  <2>. DEFINE w == <<"id", "table">>
  <2>1. DBObjectStream = Extended(AbstractDataStream, w, w)
    BY DEF DBObjectStream, DbAddressStream, Codec
  <2>2. Spells(w, {"id", "table"})
    BY Spell2, WordsAre
  <2>3. {"cmd", "id", "table"} = {"cmd"} \cup {"id", "table"}
    OBVIOUS
  <2>. HIDE DEF w
  <2>. QED  BY <1>1, <2>1, <2>2, <2>3, ExtendedSpells
<1>3. Spells(NetworkMemberStream.read, {"cmd", "id", "table", "authenticationData", "trust"})
  <2>. DEFINE w == <<"authenticationData", "trust">>
  <2>1. NetworkMemberStream = Extended(DBObjectStream, w, w)
    BY DEF NetworkMemberStream
  <2>2. Spells(w, {"authenticationData", "trust"})
    BY Spell2, WordsAre
  <2>3. {"cmd", "id", "table", "authenticationData", "trust"} = {"cmd", "id", "table"} \cup {"authenticationData", "trust"}
    OBVIOUS
  <2>. HIDE DEF w
  <2>. QED  BY <1>2, <2>1, <2>2, <2>3, ExtendedSpells
<1>4. Spells(UserMemberStream.read, {"cmd", "id", "table", "authenticationData", "trust", "token"})
  <2>. DEFINE w == <<"token">>
  <2>1. UserMemberStream = Extended(NetworkMemberStream, w, w)
    BY DEF UserMemberStream
  <2>2. Spells(w, {"token"})
    BY Spell1, WordsAre
  <2>3. {"cmd", "id", "table", "authenticationData", "trust", "token"} = {"cmd", "id", "table", "authenticationData", "trust"} \cup {"token"}
    OBVIOUS
  <2>. HIDE DEF w
  <2>. QED  BY <1>3, <2>1, <2>2, <2>3, ExtendedSpells
<1>5. Spells(AuthRequestStream.read, {"cmd", "id", "table", "authenticationData", "trust", "token", "request"})
  <2>. DEFINE w == <<"request">>
  <2>1. AuthRequestStream = Extended(UserMemberStream, w, w)
    BY DEF AuthRequestStream
  <2>2. Spells(w, {"request"})
    BY Spell1, WordsAre
  <2>3. {"cmd", "id", "table", "authenticationData", "trust", "token", "request"} = {"cmd", "id", "table", "authenticationData", "trust", "token"} \cup {"request"}
    OBVIOUS
  <2>. HIDE DEF w
  <2>. QED  BY <1>4, <2>1, <2>2, <2>3, ExtendedSpells
<1>6. Spells(DeleteObjectStream.read, {"cmd", "id", "table", "token"})
  <2>. DEFINE w == <<"token">>
  <2>1. DeleteObjectStream = Extended(DBObjectStream, w, w)
    BY DEF DeleteObjectStream
  <2>2. Spells(w, {"token"})
    BY Spell1, WordsAre
  <2>3. {"cmd", "id", "table", "token"} = {"cmd", "id", "table"} \cup {"token"}
    OBVIOUS
  <2>. HIDE DEF w
  <2>. QED  BY <1>2, <2>1, <2>2, <2>3, ExtendedSpells
<1>7. Spells(MemberPermisionStream.read, {"memberId", "dbAddress", "lvl"})
  <2>. DEFINE w == <<"lvl">>
  <2>1. MemberPermisionStream = Extended(PermisionDataStream, w, w)
    BY DEF MemberPermisionStream, Extended
  <2>2. Spells(w, {"lvl"})
    BY Spell1, WordsAre
  <2>3. {"memberId", "dbAddress", "lvl"} = {"memberId", "dbAddress"} \cup {"lvl"}
    OBVIOUS
  <2>4. Spells(PermisionDataStream.read, {"memberId", "dbAddress"})
    BY Spell2, WordsAre DEF PermisionDataStream, Codec
  <2>. HIDE DEF w
  <2>. QED  BY <2>4, <2>1, <2>2, <2>3, ExtendedSpells
<1>8. /\ Stream["NetworkMember"] = NetworkMemberStream /\ Stream["UserMember"] = UserMemberStream
      /\ Stream["AuthRequest"] = AuthRequestStream /\ Stream["DeleteObject"] = DeleteObjectStream
      /\ Stream["SetSingleValue"] = DBObjectStream
      /\ Stream["MemberPermision"] = MemberPermisionStream
      /\ Stream["DefaultPermision"] = MemberPermisionStream
  BY DEF Stream
<1>. QED  BY <1>2, <1>3, <1>4, <1>5, <1>6, <1>7, <1>8 DEF Fields, Spells

LEMMA RowClassNames ==
    RowClasses = {"NetworkMember", "UserMember", "AuthRequest", "MemberPermision", "DefaultPermision"}
BY DEF RowClasses, MemberClasses, PermissionClasses

LEMMA KnownRows == \A c \in RowClasses : c \in Class
BY RowClassNames, Classes DEF ClassNames

LEMMA TablesOf ==
    /\ \A c \in MemberClasses : TableOf[c] = "NetworkMembers"
    /\ TableOf["MemberPermision"] = "MemberPermisions"
    /\ TableOf["DefaultPermision"] = "DefaultPermissions"
    /\ \A c \in RowClasses : TableOf[c] \in Tables
BY RowClassNames DEF TableOf, MemberClasses, RowClasses, PermissionClasses, Tables

LEMMA SchemaIs ==
    /\ DOMAIN Schema = Tables /\ DOMAIN UniqueKey = Tables /\ DOMAIN NotNull = Tables
    /\ Schema["NetworkMembers"] = {"id", "authenticationData", "trust", "token"}
    /\ Schema["MemberPermisions"] = {"memberId", "dbAddress", "lvl"}
    /\ Schema["DefaultPermissions"] = {"dbAddress", "lvl"}
    /\ UniqueKey["NetworkMembers"] = {"id"}
    /\ UniqueKey["MemberPermisions"] = {"memberId", "dbAddress"}
    /\ UniqueKey["DefaultPermissions"] = {"dbAddress"}
    /\ NotNull["NetworkMembers"] = {"authenticationData"}
BY DEF Schema, UniqueKey, NotNull, Tables

\* The columns of the classes that are rows.
LEMMA MemberColumns ==
    /\ DOMAIN Columns("NetworkMember") = {"id", "authenticationData", "trust"}
    /\ ColumnsFor("NetworkMember", "insert") = {"id", "authenticationData", "trust"}
    /\ ColumnsFor("NetworkMember", "update") = {"authenticationData", "trust"}
<1>. DEFINE d == DBObjectColumns("NetworkMember")
            k == Columns("NetworkMember")
<1>1. DOMAIN d = {"id"} /\ d["id"] = PrimaryKey
  BY DEF DBObjectColumns, KeyOf, MemberClasses
<1>2. k = Adding(d, {"authenticationData", "trust"})
  BY DEF Columns, NetworkMemberColumns
<1>. HIDE DEF d
<1>3. DOMAIN k = {"id", "authenticationData", "trust"}
  BY <1>1, <1>2 DEF Adding
<1>4. /\ k["id"] = PrimaryKey /\ k["authenticationData"] = InsertUpdate
      /\ k["trust"] = InsertUpdate
  BY <1>1, <1>2 DEF Adding
<1>. HIDE DEF k
<1>5. /\ "insert" \in PrimaryKey /\ "update" \notin PrimaryKey
      /\ "insert" \in InsertUpdate /\ "update" \in InsertUpdate
  BY DEF PrimaryKey, InsertUpdate
<1>6. /\ {x \in DOMAIN k : "insert" \in k[x]} = {"id", "authenticationData", "trust"}
      /\ {x \in DOMAIN k : "update" \in k[x]} = {"authenticationData", "trust"}
  BY <1>3, <1>4, <1>5
<1>. QED  BY <1>3, <1>6 DEF ColumnsFor, k

LEMMA UserColumns ==
    ASSUME NEW c \in {"UserMember", "AuthRequest"}
    PROVE  /\ DOMAIN Columns(c) = {"id", "authenticationData", "trust", "token"}
           /\ ColumnsFor(c, "insert") = {"id", "authenticationData", "trust", "token"}
           /\ ColumnsFor(c, "update") = {"authenticationData", "trust", "token"}
<1>. DEFINE d == DBObjectColumns(c)
            n == NetworkMemberColumns(c)
            k == Columns(c)
<1>1. DOMAIN d = {"id"} /\ d["id"] = PrimaryKey
  BY DEF DBObjectColumns, KeyOf, MemberClasses
<1>2. n = Adding(d, {"authenticationData", "trust"}) /\ k = Adding(n, {"token"})
  BY DEF Columns, NetworkMemberColumns, UserMemberColumns
<1>. HIDE DEF d, n
<1>3. /\ DOMAIN n = {"id", "authenticationData", "trust"}
      /\ n["id"] = PrimaryKey /\ n["authenticationData"] = InsertUpdate
      /\ n["trust"] = InsertUpdate
  BY <1>1, <1>2 DEF Adding
<1>4. /\ DOMAIN k = {"id", "authenticationData", "trust", "token"}
      /\ k["id"] = PrimaryKey /\ k["authenticationData"] = InsertUpdate
      /\ k["trust"] = InsertUpdate /\ k["token"] = InsertUpdate
  BY <1>2, <1>3 DEF Adding
<1>. HIDE DEF k
<1>5. /\ "insert" \in PrimaryKey /\ "update" \notin PrimaryKey
      /\ "insert" \in InsertUpdate /\ "update" \in InsertUpdate
  BY DEF PrimaryKey, InsertUpdate
<1>6. /\ {x \in DOMAIN k : "insert" \in k[x]} = {"id", "authenticationData", "trust", "token"}
      /\ {x \in DOMAIN k : "update" \in k[x]} = {"authenticationData", "trust", "token"}
  BY <1>4, <1>5
<1>. QED  BY <1>4, <1>6 DEF ColumnsFor, k

LEMMA PermissionColumns ==
    /\ DOMAIN Columns("MemberPermision") = {"memberId", "dbAddress", "lvl"}
    /\ ColumnsFor("MemberPermision", "insert") = {"memberId", "dbAddress", "lvl"}
    /\ DOMAIN Columns("DefaultPermision") = {"dbAddress", "lvl"}
    /\ ColumnsFor("DefaultPermision", "insert") = {"dbAddress", "lvl"}
<1>1. /\ Columns("MemberPermision") = MemberPermisionColumns
      /\ Columns("DefaultPermision") = DefaultPermisionColumns
  BY DEF Columns
<1>2. "insert" \in PrimaryKey /\ "insert" \in InsertUpdate
  BY DEF PrimaryKey, InsertUpdate
<1>3. /\ DOMAIN Columns("MemberPermision") = {"memberId", "dbAddress", "lvl"}
      /\ ColumnsFor("MemberPermision", "insert") = {"memberId", "dbAddress", "lvl"}
  BY <1>1, <1>2 DEF MemberPermisionColumns, ColumnsFor
<1>4. /\ DOMAIN Columns("DefaultPermision") = {"dbAddress", "lvl"}
      /\ ColumnsFor("DefaultPermision", "insert") = {"dbAddress", "lvl"}
  BY <1>1, <1>2 DEF DefaultPermisionColumns, ColumnsFor
<1>. QED  BY <1>3, <1>4

(***************************************************************************)
(* The invariant.                                                          *)
(***************************************************************************)

\* The fields of an object of a class: a row is for the table of its class, a
\* permission is for an object, and only a column that is no key is set alone.
Whole(c, f) ==
    /\ DOMAIN f = Fields(c)
    /\ c \in MemberClasses => f.table = "NetworkMembers"
    /\ c \in {"DeleteObject", "SetSingleValue"} => f.table \in Tables
    /\ c \in PermissionClasses => f.dbAddress # Null
    /\ c = "SetSingleValue" => f.field \in {"token", "trust"}

\* Fields that agree where both have them.
Agree(f, from) == \A x \in DOMAIN f \cap DOMAIN from : f[x] = from[x]

ObjectInv ==
    obj # None => /\ obj.class \in Class /\ Whole(obj.class, obj.f)
                  /\ Agree(obj.f, origin)

\* A package holds the stream of an object.
Carries(package, f) ==
    /\ package.command \in Class /\ Whole(package.command, f)
    /\ Agree(f, package.from)
    /\ package.data = ToStream([class |-> package.command, f |-> f])
WireInv == wire # None => \E f : Carries(wire, f)

\* Complete rows, one for each key.
Complete(t, r) == DOMAIN r = Schema[t] /\ \A x \in UniqueKey[t] : r[x] # Null
TableInv(t, table) == (\A r \in table : Complete(t, r)) /\ Accepts(t, table)
RowsInv == DOMAIN rows = Tables /\ \A t \in Tables : TableInv(t, rows[t])

Inv == ObjectInv /\ WireInv /\ RowsInv

LEMMA InvImplies == Inv => TypeOK /\ NothingLost
BY DEF Inv, ObjectInv, RowsInv, TableInv, Complete, Whole, Agree, TypeOK, NothingLost

LEMMA InitInv == Init => Inv
BY DEF Init, Inv, ObjectInv, WireInv, RowsInv, TableInv, Accepts

(***************************************************************************)
(* Objects on their way: made, streamed, copied and read from a row.       *)
(***************************************************************************)

LEMMA ClassKinds ==
    \A c \in Class :
      /\ c \in MemberClasses <=> c \in {"NetworkMember", "UserMember", "AuthRequest"}
      /\ c \in PermissionClasses <=> c \in {"MemberPermision", "DefaultPermision"}
BY DEF MemberClasses, PermissionClasses

LEMMA MadeIsWhole ==
    ASSUME NEW c \in Class, NEW f \in Objects[c]
    PROVE  Whole(c, f)
<1>1. PICK i \in Id \cup {Null}, a \in Address, t \in Tables, unset \in SUBSET Fields(c) :
        f = [x \in Fields(c) |->
               CASE x \in {"id", "memberId"} -> i
                 [] x = "dbAddress" -> a
                 [] x = "table" -> IF c \in RowClasses THEN TableOf[c] ELSE t
                 [] x \in {"trust", "lvl"} -> IF x \in unset THEN High ELSE Low
                 [] x = "field" -> IF x \in unset THEN "token" ELSE "trust"
                 [] OTHER -> IF x \in unset THEN Null ELSE x]
  BY DEF Objects
<1>2. DOMAIN f = Fields(c)
  BY <1>1
<1>3. ASSUME c \in MemberClasses PROVE f.table = "NetworkMembers"
  <2>1. "table" \in Fields(c) /\ c \in RowClasses /\ TableOf[c] = "NetworkMembers"
    BY <1>3, FieldsAre, TablesOf DEF MemberClasses, RowClasses
  <2>. QED  BY <1>1, <2>1
<1>4. ASSUME c \in {"DeleteObject", "SetSingleValue"} PROVE f.table \in Tables
  <2>1. "table" \in Fields(c) /\ c \notin RowClasses
    BY <1>4, FieldsAre, RowClassNames
  <2>. QED  BY <1>1, <2>1
<1>5. ASSUME c \in PermissionClasses PROVE f.dbAddress # Null
  <2>1. "dbAddress" \in Fields(c)
    BY <1>5, FieldsAre DEF PermissionClasses
  <2>2. f.dbAddress = a
    BY <1>1, <2>1
  <2>. QED  BY <2>2, PackagesAssumption
<1>6. ASSUME c = "SetSingleValue" PROVE f.field \in {"token", "trust"}
  <2>1. "field" \in Fields(c)
    BY <1>6, FieldsAre
  <2>. QED  BY <1>1, <2>1
<1>. QED  BY <1>2, <1>3, <1>4, <1>5, <1>6 DEF Whole

\* fromStream reads what toStream wrote.
LEMMA RoundTrip ==
    ASSUME NEW c \in Class, c # "SetSingleValue", NEW o, o.class = c
    PROVE  /\ FromStream(c, ToStream(o)).class = c
           /\ DOMAIN FromStream(c, ToStream(o)).f = Fields(c)
           /\ \A x \in Fields(c) : FromStream(c, ToStream(o)).f[x] = o.f[x]
<1>. DEFINE q == Stream[c].read
            bytes == ToStream(o)
<1>1. q = Stream[c].written
  BY StreamsAgree
<1>2. bytes = [i \in DOMAIN q |-> IF q[i] = "cmd" THEN c ELSE o.f[q[i]]]
  BY <1>1 DEF ToStream
<1>3. Fields(c) = ToSet(q) \ {"cmd"}
  BY DEF Fields
<1>. HIDE DEF q, bytes
<1>4. ASSUME NEW x \in Fields(c)
      PROVE  FromStream(c, bytes).f[x] = o.f[x]
  <2>1. \E i \in DOMAIN bytes : q[i] = x
    BY <1>2, <1>3 DEF ToSet
  <2>. DEFINE i == CHOOSE i \in DOMAIN bytes : q[i] = x
  <2>2. i \in DOMAIN bytes /\ q[i] = x
    BY <2>1
  <2>3. FromStream(c, bytes).f[x] = bytes[i]
    BY <2>1 DEF FromStream, q
  <2>. HIDE DEF i
  <2>4. bytes[i] = o.f[x]
    BY <1>2, <1>3, <2>2
  <2>. QED  BY <2>3, <2>4
<1>. QED  BY <1>4 DEF FromStream, bytes

\* An object read from the stream of a whole one is whole and agrees with it.
LEMMA ReadIsWhole ==
    ASSUME NEW c \in Class, c # "SetSingleValue", NEW o, o.class = c, Whole(c, o.f),
           NEW from, Agree(o.f, from)
    PROVE  /\ Whole(c, FromStream(c, ToStream(o)).f)
           /\ Agree(FromStream(c, ToStream(o)).f, from)
<1>. DEFINE g == FromStream(c, ToStream(o)).f
<1>1. DOMAIN g = Fields(c) /\ \A x \in Fields(c) : g[x] = o.f[x]
  BY RoundTrip
<1>. HIDE DEF g
<1>2. DOMAIN o.f = Fields(c)
  BY DEF Whole
<1>3. Agree(g, from)
  BY <1>1, <1>2 DEF Agree
<1>4. /\ c \in MemberClasses => "table" \in Fields(c)
      /\ c = "DeleteObject" => "table" \in Fields(c)
      /\ c \in PermissionClasses => "dbAddress" \in Fields(c)
  BY FieldsAre DEF MemberClasses, PermissionClasses
<1>5. Whole(c, g)
  BY <1>1, <1>4 DEF Whole
<1>. QED  BY <1>3, <1>5 DEF g

\* A copy of a row copies all that its class has.
LEMMA RowCopies ==
    \A c \in RowClasses : Fields(c) \subseteq Copies(c) \/ c = "AuthRequest"
<1>. SUFFICES ASSUME NEW c \in RowClasses, c # "AuthRequest" PROVE Fields(c) \subseteq Copies(c)
  OBVIOUS
<1>1. CASE c = "NetworkMember"
  <2>1. Copies(c) = {"id", "table", "authenticationData", "trust"}
    BY <1>1 DEF Copies, NetworkMemberCopies, DBObjectCopies, PermissionClasses
  <2>. QED  BY <1>1, <2>1, FieldsAre
<1>2. CASE c = "UserMember"
  <2>1. Copies(c) = {"id", "table", "authenticationData", "trust", "token"}
    BY <1>2 DEF Copies, UserMemberCopies, NetworkMemberCopies, DBObjectCopies,
       PermissionClasses
  <2>. QED  BY <1>2, <2>1, FieldsAre
<1>3. CASE c \in {"MemberPermision", "DefaultPermision"}
  <2>1. Copies(c) = {"id", "table", "memberId", "dbAddress", "lvl"}
    BY <1>3 DEF Copies, MemberPermisionCopies, DBObjectCopies, PermissionClasses
  <2>. QED  BY <1>3, <2>1, FieldsAre
<1>. QED  BY <1>1, <1>2, <1>3, RowClassNames

\* The copy of a whole object is whole, and keeps what its class copies.
LEMMA CopyIsWhole ==
    ASSUME obj.class \in Class, Whole(obj.class, obj.f), Agree(obj.f, origin),
           NEW c \in Class \ {"AuthRequest"},
           c = obj.class \/ (c = "UserMember" /\ obj.class = "AuthRequest"),
           Copy(c)
    PROVE  Whole(c, Copied(c)) /\ Agree(Copied(c), origin')
<1>. DEFINE kept == (Copies(c) \cup Given(c)) \ Derived(c)
<1>1. DOMAIN Copied(c) = Fields(c) /\ DOMAIN obj.f = Fields(obj.class)
  BY DEF Whole, Copied
<1>2. Fields(c) \subseteq Fields(obj.class)
  BY FieldsAre
<1>3. \A x \in Fields(c) \cap kept : Copied(c)[x] = obj.f[x]
  BY DEF Copied
<1>4. Agree(Copied(c), origin')
  <2>1. /\ DOMAIN origin' = DOMAIN origin \cap MustKeep(c)
        /\ \A x \in DOMAIN origin' : origin'[x] = origin[x]
    BY DEF Copy
  <2>2. Fields(c) \cap MustKeep(c) \subseteq kept
    <3>1. c \in RowClasses => Fields(c) \subseteq Copies(c) /\ Derived(c) = {}
      BY RowCopies, RowClassNames DEF Derived
    <3>. QED  BY <3>1 DEF MustKeep
  <2>. HIDE DEF kept
  <2>. QED  BY <1>1, <1>2, <1>3, <2>1, <2>2 DEF Agree
<1>5. c \in MemberClasses => Copied(c).table = obj.f.table /\ obj.class \in MemberClasses
  <2>. SUFFICES ASSUME c \in MemberClasses
                PROVE  Copied(c).table = obj.f.table /\ obj.class \in MemberClasses
    OBVIOUS
  <2>1. c \in {"NetworkMember", "UserMember", "AuthRequest"}
    BY DEF MemberClasses
  <2>2. "table" \in Copies(c) /\ "table" \notin Derived(c)
    BY <2>1 DEF Copies, UserMemberCopies, NetworkMemberCopies, DBObjectCopies, Derived,
                PermissionClasses
  <2>3. "table" \in Fields(c) \cap kept
    BY <2>1, <2>2, FieldsAre
  <2>. QED  BY <1>3, <2>1, <2>3 DEF MemberClasses
<1>6. c \in {"DeleteObject", "SetSingleValue"} =>
        Copied(c).table = obj.f.table /\ c = obj.class
  <2>. SUFFICES ASSUME c \in {"DeleteObject", "SetSingleValue"}
                PROVE  Copied(c).table = obj.f.table /\ c = obj.class
    OBVIOUS
  <2>1. "table" \in Copies(c) /\ "table" \notin Derived(c)
    BY DEF Copies, DBObjectCopies, Derived, PermissionClasses
  <2>2. "table" \in Fields(c) \cap kept
    BY <2>1, FieldsAre
  <2>. QED  BY <1>3, <2>2
<1>7. c \in PermissionClasses => Copied(c).dbAddress = obj.f.dbAddress /\ c = obj.class
  <2>. SUFFICES ASSUME c \in PermissionClasses
                PROVE  Copied(c).dbAddress = obj.f.dbAddress /\ c = obj.class
    OBVIOUS
  <2>1. c \in {"MemberPermision", "DefaultPermision"}
    BY DEF PermissionClasses
  <2>2. "dbAddress" \in Copies(c) /\ "dbAddress" \notin Derived(c)
    BY <2>1 DEF Copies, MemberPermisionCopies, Derived, PermissionClasses
  <2>3. "dbAddress" \in Fields(c) \cap kept
    BY <2>1, <2>2, FieldsAre
  <2>. QED  BY <1>3, <2>1, <2>3
<1>8. c = "SetSingleValue" => Copied(c).field = obj.f.field
  <2>. SUFFICES ASSUME c = "SetSingleValue" PROVE Copied(c).field = obj.f.field
    OBVIOUS
  <2>1. "field" \in Given(c) /\ "field" \notin Derived(c)
    BY DEF Given, Derived
  <2>2. "field" \in Fields(c) \cap kept
    BY <2>1, FieldsAre
  <2>. QED  BY <1>3, <2>2
<1>9. Whole(c, Copied(c))
  BY <1>1, <1>5, <1>6, <1>7, <1>8 DEF Whole
<1>. QED  BY <1>4, <1>9

\* A row is for the table of its object's class.
LEMMA TableOfRow ==
    ASSUME NEW o, o.class \in RowClasses, Whole(o.class, o.f)
    PROVE  TableName(o) = TableOf[o.class] /\ TableName(o) \in Tables
BY TablesOf, RowClassNames DEF TableName, Whole, MemberClasses, PermissionClasses

\* An object read from a complete row has the values of the row.
LEMMA RecordIsWhole ==
    ASSUME NEW d \in RowClasses, NEW r, Complete(TableOf[d], r),
           NEW c, c = CreateDBObject(d)
    PROVE  c \in Class /\ Whole(c, FromSqlRecord(c, r).f) /\ Agree(FromSqlRecord(c, r).f, r)
<1>. DEFINE f == FromSqlRecord(c, r).f
<1>1. f = [x \in Fields(c) |->
              CASE x = "table" -> TableOf[c]
                [] c = "DefaultPermision" /\ x = "memberId" -> Null
                [] x \in DOMAIN Columns(c) -> r[x]
                [] OTHER -> Null]
  BY DEF FromSqlRecord
<1>. HIDE DEF f
<1>2. CASE d \in MemberClasses
  <2>1. /\ c \in {"NetworkMember", "UserMember"} /\ c \in MemberClasses
        /\ c \notin PermissionClasses /\ c \in Class
        /\ TableOf[c] = "NetworkMembers" /\ TableOf[d] = "NetworkMembers"
    BY <1>2, Classes, TablesOf
       DEF CreateDBObject, MemberClasses, PermissionClasses, ClassNames
  <2>2. DOMAIN r = {"id", "authenticationData", "trust", "token"}
    BY <2>1, SchemaIs DEF Complete
  <2>3. Whole(c, f)
    <3>1. /\ "table" \in Fields(c) /\ "table" \notin DOMAIN Columns(c)
          /\ c \notin {"DeleteObject", "SetSingleValue"}
      BY <2>1, FieldsAre, MemberColumns, UserColumns
    <3>2. f["table"] = "NetworkMembers"
      BY <1>1, <2>1, <3>1
    <3>. QED  BY <1>1, <2>1, <3>1, <3>2 DEF Whole
  <2>4. Fields(c) \cap DOMAIN r \subseteq DOMAIN Columns(c) /\ "table" \notin DOMAIN r
    BY <2>1, <2>2, FieldsAre, MemberColumns, UserColumns
  <2>. QED  BY <1>1, <2>1, <2>3, <2>4 DEF Agree, f
<1>3. CASE d \in PermissionClasses
  <2>1. /\ c = d /\ c \in {"MemberPermision", "DefaultPermision"} /\ c \in Class
        /\ c \notin MemberClasses
    BY <1>3, Classes DEF CreateDBObject, MemberClasses, PermissionClasses, ClassNames
  <2>2. /\ DOMAIN r = DOMAIN Columns(c)
        /\ c = "DefaultPermision" => "memberId" \notin DOMAIN r
        /\ "table" \notin DOMAIN r
        /\ "dbAddress" \in UniqueKey[TableOf[c]] /\ "dbAddress" \in DOMAIN r
    BY <2>1, TablesOf, SchemaIs, PermissionColumns DEF Complete
  <2>3. r["dbAddress"] # Null
    BY <2>1, <2>2 DEF Complete
  <2>4. "dbAddress" \in Fields(c)
    BY <2>1, FieldsAre
  <2>5. f["dbAddress"] = r["dbAddress"]
    BY <1>1, <2>2, <2>4
  <2>6. Whole(c, f)
    BY <1>1, <2>1, <2>3, <2>5 DEF Whole
  <2>. QED  BY <1>1, <2>1, <2>2, <2>6 DEF Agree, f
<1>. QED  BY <1>2, <1>3 DEF RowClasses

(***************************************************************************)
(* No step loses a field.                                                  *)
(***************************************************************************)

LEMMA MakeStep ==
    ASSUME Inv, NEW c \in Class, Make(c) PROVE ObjectInv' /\ WireInv'
<1>1. PICK f \in Objects[c] : obj' = [class |-> c, f |-> f] /\ origin' = f
  BY DEF Make
<1>2. Whole(c, f) /\ Agree(f, f)
  BY MadeIsWhole DEF Agree
<1>3. ObjectInv'
  BY <1>1, <1>2 DEF ObjectInv
<1>4. WireInv'
  BY DEF Make, WireInv
<1>. QED  BY <1>3, <1>4

LEMMA ToPackageStep ==
    ASSUME Inv, ToPackage PROVE ObjectInv' /\ WireInv'
<1>1. /\ obj.class \in Class /\ Whole(obj.class, obj.f) /\ Agree(obj.f, origin)
      /\ wire' = [command |-> obj.class, data |-> ToStream(obj), from |-> origin]
      /\ obj' = None
  BY DEF ToPackage, Inv, ObjectInv
<1>2. ToStream(obj) = ToStream([class |-> obj.class, f |-> obj.f])
  BY DEF ToStream
<1>3. Carries(wire', obj.f)
  BY <1>1, <1>2 DEF Carries
<1>4. WireInv'
  BY <1>3 DEF WireInv
<1>5. ObjectInv'
  BY <1>1 DEF ObjectInv
<1>. QED  BY <1>4, <1>5

LEMMA FromPackageStep ==
    ASSUME Inv, FromPackage PROVE ObjectInv' /\ WireInv'
<1>1. WireInv'
  BY DEF FromPackage, WireInv
<1>2. CASE wire.command \in Registered
  <2>1. PICK f : Carries(wire, f)
    BY DEF FromPackage, Inv, WireInv
  <2>. DEFINE c == wire.command
              o == [class |-> c, f |-> f]
  <2>2. /\ c \in Class /\ Whole(c, o.f) /\ Agree(o.f, wire.from)
        /\ wire.data = ToStream(o) /\ o.class = c
    BY <2>1 DEF Carries
  <2>3. c # "SetSingleValue"
    BY <1>2, PackagesAssumption
  <2>4. obj' = FromStream(c, ToStream(o)) /\ origin' = wire.from
    BY <1>2, <2>2 DEF FromPackage
  <2>. HIDE DEF c, o
  <2>5. /\ Whole(c, FromStream(c, ToStream(o)).f)
        /\ Agree(FromStream(c, ToStream(o)).f, wire.from)
    BY <2>2, <2>3, ReadIsWhole
  <2>6. obj'.class = c
    BY <2>4 DEF FromStream
  <2>. QED  BY <1>1, <2>2, <2>4, <2>5, <2>6 DEF ObjectInv
<1>3. CASE wire.command \notin Registered
  BY <1>1, <1>3 DEF FromPackage, Inv, ObjectInv
<1>. QED  BY <1>2, <1>3

LEMMA RereadStep ==
    ASSUME Inv, Reread PROVE ObjectInv' /\ WireInv'
<1>. DEFINE c == obj.class
<1>1. /\ c \in Class /\ c # "SetSingleValue" /\ Whole(c, obj.f) /\ Agree(obj.f, origin)
      /\ obj' = FromStream(c, ToStream(obj)) /\ origin' = origin
  BY DEF Reread, Standalone, Inv, ObjectInv
<1>2. Whole(c, FromStream(c, ToStream(obj)).f) /\ Agree(FromStream(c, ToStream(obj)).f, origin)
  BY <1>1, ReadIsWhole
<1>3. obj'.class = c
  BY <1>1 DEF FromStream
<1>4. ObjectInv'
  BY <1>1, <1>2, <1>3 DEF ObjectInv
<1>. QED  BY <1>4 DEF Reread, Inv, WireInv

LEMMA CopyStep ==
    ASSUME Inv, CopyFrom \/ CloneRaw PROVE ObjectInv' /\ WireInv'
<1>1. obj.class \in Class /\ Whole(obj.class, obj.f) /\ Agree(obj.f, origin)
  BY DEF CopyFrom, CloneRaw, Inv, ObjectInv
<1>2. PICK c \in Class \ {"AuthRequest"} :
         /\ Copy(c)
         /\ c = obj.class \/ (c = "UserMember" /\ obj.class = "AuthRequest")
  <2>1. "UserMember" \in Class
    BY Classes DEF ClassNames
  <2>2. "AuthRequest" \in DBObjectClasses
    BY RowClassNames DEF DBObjectClasses
  <2>. QED  BY <1>1, <2>1, <2>2 DEF CopyFrom, CloneRaw, CreateDBObject
<1>3. Whole(c, Copied(c)) /\ Agree(Copied(c), origin')
  BY <1>1, <1>2, CopyIsWhole
<1>4. obj' = [class |-> c, f |-> Copied(c)] /\ wire' = wire
  BY <1>2 DEF Copy
<1>5. obj'.class = c /\ obj'.f = Copied(c)
  BY <1>4
<1>6. ObjectInv'
  BY <1>3, <1>5 DEF ObjectInv
<1>. QED  BY <1>4, <1>6 DEF Inv, WireInv

LEMMA SelectStep ==
    ASSUME Inv, SelectQuery PROVE ObjectInv' /\ WireInv'
<1>. DEFINE d == obj.class
            c == CreateDBObject(d)
<1>1. PICK r \in Where(obj) : obj' = FromSqlRecord(c, r) /\ origin' = r
  BY DEF SelectQuery
<1>2. d \in RowClasses /\ Whole(d, obj.f)
  BY DEF SelectQuery, Inv, ObjectInv
<1>3. TableName(obj) = TableOf[d] /\ TableName(obj) \in Tables
  BY <1>2, TableOfRow
<1>4. Complete(TableOf[d], r)
  BY <1>1, <1>3 DEF Where, Inv, RowsInv, TableInv
<1>5. c \in Class /\ Whole(c, FromSqlRecord(c, r).f) /\ Agree(FromSqlRecord(c, r).f, r)
  BY <1>2, <1>4, RecordIsWhole
<1>6. obj'.class = c
  BY <1>1 DEF FromSqlRecord
<1>. HIDE DEF c, d
<1>7. ObjectInv'
  BY <1>1, <1>5, <1>6 DEF ObjectInv
<1>. QED  BY <1>7 DEF SelectQuery, Inv, WireInv

(***************************************************************************)
(* The statements: each keeps to the rows its object names, and the tables *)
(* keep their keys.                                                        *)
(***************************************************************************)

\* How one table may change for an object.
Kept(o, t, old, new) ==
    /\ \A r \in (old \ new) \cup (new \ old) : Names(o, t, r)
    /\ \A r \in old \ new, s \in new \ old : \A x \in Schema[t] :
         r[x] # s[x] => IF o.class = "SetSingleValue"
                        THEN x = o.f.field /\ s[x] = o.f.value
                        ELSE x \in Fields(o.class) /\ s[x] = o.f[x]
StatementKept == \A t \in Tables : Kept(obj, t, rows[t], rows'[t])

LEMMA SameKept == ASSUME UNCHANGED rows PROVE StatementKept
BY DEF StatementKept, Kept

\* It is enough to look at the table a statement is for.
LEMMA OneTable ==
    ASSUME NEW t \in Tables, NEW new, RowsInv,
           rows' = [rows EXCEPT ![t] = new],
           TableInv(t, new), Kept(obj, t, rows[t], new)
    PROVE  RowsInv' /\ StatementKept
<1>1. /\ DOMAIN rows' = Tables /\ rows'[t] = new
      /\ \A u \in Tables \ {t} : rows'[u] = rows[u]
  BY DEF RowsInv
<1>2. RowsInv'
  BY <1>1 DEF RowsInv, TableInv
<1>3. \A u \in Tables \ {t} : Kept(obj, u, rows[u], rows'[u])
  BY <1>1 DEF Kept
<1>. QED  BY <1>1, <1>2, <1>3 DEF StatementKept

\* The row of an object.
LEMMA RowIs ==
    ASSUME NEW o, o.class \in RowClasses, Whole(o.class, o.f), Valid(o)
    PROVE  /\ Complete(TableName(o), RowOf(o))
           /\ \A x \in UniqueKey[TableName(o)] : RowOf(o)[x] = o.f[x]
<1>. DEFINE c == o.class
            r == RowOf(o)
            t == TableName(o)
<1>1. t = TableOf[c] /\ t \in Tables
  BY TableOfRow
<1>2. r = [x \in Schema[t] |-> IF x \in ColumnsFor(c, "insert") THEN o.f[x] ELSE Null]
  BY DEF RowOf
<1>. HIDE DEF r, t
<1>3. CASE c \in MemberClasses
  <2>1. /\ t = "NetworkMembers" /\ "id" \in ColumnsFor(c, "insert")
        /\ c \in {"NetworkMember", "UserMember", "AuthRequest"}
    BY <1>1, <1>3, TablesOf, MemberColumns, UserColumns DEF MemberClasses
  <2>2. "id" \in Schema[t] /\ UniqueKey[t] = {"id"}
    BY <2>1, SchemaIs
  <2>3. o.f["id"] # Null
    BY <2>1 DEF Valid
  <2>4. r["id"] = o.f["id"]
    BY <1>2, <2>1, <2>2
  <2>. QED  BY <1>2, <2>2, <2>3, <2>4 DEF Complete, t, r
<1>4. CASE c = "MemberPermision"
  <2>1. /\ t = "MemberPermisions"
        /\ ColumnsFor(c, "insert") = {"memberId", "dbAddress", "lvl"}
    BY <1>1, <1>4, TablesOf, PermissionColumns
  <2>2. /\ Schema[t] = {"memberId", "dbAddress", "lvl"}
        /\ UniqueKey[t] = {"memberId", "dbAddress"}
    BY <2>1, SchemaIs
  <2>3. o.f["memberId"] # Null /\ o.f["dbAddress"] # Null
    BY <1>4 DEF Valid
  <2>4. r["memberId"] = o.f["memberId"] /\ r["dbAddress"] = o.f["dbAddress"]
    BY <1>2, <2>1, <2>2
  <2>. QED  BY <1>2, <2>2, <2>3, <2>4 DEF Complete, t, r
<1>5. CASE c = "DefaultPermision"
  <2>1. t = "DefaultPermissions" /\ ColumnsFor(c, "insert") = {"dbAddress", "lvl"}
    BY <1>1, <1>5, TablesOf, PermissionColumns
  <2>2. Schema[t] = {"dbAddress", "lvl"} /\ UniqueKey[t] = {"dbAddress"}
    BY <2>1, SchemaIs
  <2>3. o.f["dbAddress"] # Null
    BY <1>5 DEF Valid
  <2>4. r["dbAddress"] = o.f["dbAddress"]
    BY <1>2, <2>1, <2>2
  <2>. QED  BY <1>2, <2>2, <2>3, <2>4 DEF Complete, t, r
<1>. QED  BY <1>3, <1>4, <1>5, RowClassNames DEF MemberClasses

\* A statement drops its object.
LEMMA DropStep ==
    ASSUME Inv, Drop PROVE ObjectInv' /\ WireInv'
BY DEF Drop, Inv, ObjectInv, WireInv

LEMMA InsertStep ==
    ASSUME Inv, InsertQuery PROVE RowsInv' /\ StatementKept
<1>. DEFINE t == TableName(obj)
            row == RowOf(obj)
            same == {r \in rows[t] : \A x \in UniqueKey[t] : r[x] = row[x]}
<1>1. obj.class \in RowClasses /\ Whole(obj.class, obj.f) /\ Valid(obj)
  BY DEF InsertQuery, Inv, ObjectInv
<1>2. t \in Tables
  BY <1>1, TableOfRow
<1>3. Complete(t, row) /\ \A x \in UniqueKey[t] : row[x] = obj.f[x]
  BY <1>1, RowIs
<1>4. CASE same = {} /\ Accepts(t, {row})
  <2>1. rows' = [rows EXCEPT ![t] = rows[t] \cup {row}]
    BY <1>4 DEF InsertQuery
  <2>2. TableInv(t, rows[t])
    BY <1>2 DEF Inv, RowsInv
  <2>3. Accepts(t, rows[t] \cup {row})
    <3>1. \A x \in NotNull[t] : row[x] # Null
      BY <1>4 DEF Accepts
    <3>. HIDE DEF t, row
    <3>2. \A r \in rows[t] : \E x \in UniqueKey[t] : r[x] # row[x]
      BY <1>4 DEF t, row
    <3>. QED  BY <2>2, <3>1, <3>2 DEF TableInv, Accepts
  <2>. HIDE DEF row
  <2>4. TableInv(t, rows[t] \cup {row})
    BY <1>3, <2>2, <2>3 DEF TableInv
  <2>5. Kept(obj, t, rows[t], rows[t] \cup {row})
    BY <1>3 DEF Kept, Names
  <2>. HIDE DEF t
  <2>. QED  BY <1>2, <2>1, <2>4, <2>5, OneTable DEF Inv
<1>5. CASE ~ (same = {} /\ Accepts(t, {row}))
  <2>1. UNCHANGED rows
    BY <1>5 DEF InsertQuery
  <2>. QED  BY <2>1, SameKept DEF Inv, RowsInv, TableInv
<1>. QED  BY <1>4, <1>5

\* Some of the rows go.
LEMMA SomeGo ==
    ASSUME NEW t \in Tables, NEW old, TableInv(t, old), NEW gone
    PROVE  TableInv(t, old \ gone)
BY DEF TableInv, Accepts

\* The rows a condition names are the object's.
LEMMA WhereNames ==
    ASSUME Inv, obj # None, obj.class \in RowClasses \cup {"DeleteObject"}, ~Refused(obj)
    PROVE  /\ TableName(obj) \in Tables
           /\ \A r \in Where(obj) : Names(obj, TableName(obj), r)
<1>. DEFINE c == obj.class
            t == TableName(obj)
            w == Condition(obj)
<1>1. Whole(c, obj.f)
  BY DEF Inv, ObjectInv
<1>2. DOMAIN w \subseteq Schema[t]
  BY DEF Refused
<1>3. Where(obj) = {r \in rows[t] : \A x \in DOMAIN w : r[x] = w[x]}
  BY DEF Where
<1>4. CASE c \in MemberClasses \cup {"DeleteObject"}
  <2>1. /\ t = obj.f.table /\ t \in Tables /\ w = DBObjectCondition(obj) /\ KeyOf(c) = "id"
    BY <1>1, <1>4, TablesOf, RowClassNames
       DEF Whole, TableName, PermissionClasses, MemberClasses, Condition, KeyOf, Tables
  <2>. HIDE DEF t, w
  <2>2. "wrong" \notin Schema[t]
    BY <2>1, SchemaIs DEF Tables
  <2>3. w # Wrong
    BY <1>2, <2>2 DEF Wrong
  <2>4. w = [x \in {"id"} |-> obj.f.id]
    BY <2>1, <2>3 DEF DBObjectCondition
  <2>5. "id" \in Schema[t]
    BY <1>2, <2>4
  <2>6. UniqueKey[t] = {"id"}
    BY <2>1, <2>5, SchemaIs DEF Tables
  <2>. QED  BY <1>3, <2>1, <2>4, <2>6 DEF Names, t
<1>5. CASE c = "MemberPermision"
  <2>1. /\ t = "MemberPermisions" /\ w = MemberPermisionCondition(obj)
    BY <1>5, TablesOf DEF TableName, PermissionClasses, Condition
  <2>2. UniqueKey[t] = {"memberId", "dbAddress"} /\ t \in Tables
    BY <2>1, SchemaIs DEF Tables
  <2>3. obj.f["dbAddress"] # Null
    BY <1>1, <1>5 DEF Whole, PermissionClasses
  <2>. HIDE DEF t, w
  <2>4. \A r \in Where(obj) : r["dbAddress"] = obj.f["dbAddress"]
    BY <1>3, <2>1, <2>3 DEF MemberPermisionCondition
  <2>5. \A r \in Where(obj) : obj.f["memberId"] \in {r["memberId"], Null}
    BY <1>3, <2>1 DEF MemberPermisionCondition
  <2>. QED  BY <2>2, <2>4, <2>5 DEF Names, t
<1>6. CASE c = "DefaultPermision"
  <2>1. /\ t = "DefaultPermissions" /\ w = DefaultPermisionCondition(obj)
    BY <1>6, TablesOf DEF TableName, PermissionClasses, Condition
  <2>2. UniqueKey[t] = {"dbAddress"} /\ t \in Tables
    BY <2>1, SchemaIs DEF Tables
  <2>. HIDE DEF t, w
  <2>3. \A r \in Where(obj) : r["dbAddress"] = obj.f["dbAddress"]
    BY <1>3, <2>1 DEF DefaultPermisionCondition
  <2>. QED  BY <2>2, <2>3 DEF Names, t
<1>. QED  BY <1>4, <1>5, <1>6, RowClassNames DEF MemberClasses

LEMMA DeleteStep ==
    ASSUME Inv, DeleteQuery PROVE RowsInv' /\ StatementKept
<1>1. CASE Refused(obj)
  <2>1. UNCHANGED rows
    BY <1>1 DEF DeleteQuery
  <2>. QED  BY <2>1, SameKept DEF Inv, RowsInv, TableInv
<1>2. CASE ~Refused(obj)
  <2>. DEFINE t == TableName(obj)
              w == Where(obj)
  <2>1. rows' = [rows EXCEPT ![t] = rows[t] \ w]
    BY <1>2 DEF DeleteQuery
  <2>2. t \in Tables /\ \A r \in w : Names(obj, t, r)
    BY <1>2, WhereNames DEF DeleteQuery
  <2>3. TableInv(t, rows[t])
    BY <2>2 DEF Inv, RowsInv
  <2>. HIDE DEF t, w
  <2>4. TableInv(t, rows[t] \ w)
    BY <2>2, <2>3, SomeGo
  <2>5. Kept(obj, t, rows[t], rows[t] \ w)
    BY <2>2 DEF Kept
  <2>. QED  BY <2>1, <2>2, <2>4, <2>5, OneTable DEF Inv
<1>. QED  BY <1>1, <1>2

\* The members of one id are one row at most, and a statement that changes it
\* to the object's values, and not its id, keeps to the object.
Stays(o, t, r, s) ==
    /\ DOMAIN s = Schema[t] /\ s["id"] = r["id"] /\ s["authenticationData"] # Null
    /\ \A x \in Schema[t] :
         r[x] # s[x] => IF o.class = "SetSingleValue"
                        THEN x = o.f.field /\ s[x] = o.f.value
                        ELSE x \in Fields(o.class) /\ s[x] = o.f[x]

MemberUpdate(o, t, old, w, new, g) ==
    /\ t = "NetworkMembers" /\ TableInv(t, old) /\ TableName(o) = t
    /\ w = {r \in old : r["id"] = o.f["id"]}
    /\ new = {g[r] : r \in w} /\ \A r \in w : Stays(o, t, r, g[r])

LEMMA UpdateOfMembers ==
    ASSUME NEW o, NEW t, NEW old, NEW w, NEW new, NEW g, MemberUpdate(o, t, old, w, new, g)
    PROVE  TableInv(t, (old \ w) \cup new) /\ Kept(o, t, old, (old \ w) \cup new)
<1>. USE DEF MemberUpdate
<1>1. /\ UniqueKey[t] = {"id"} /\ NotNull[t] = {"authenticationData"} /\ "id" \in Schema[t]
  BY SchemaIs
<1>2. /\ \A r \in old : DOMAIN r = Schema[t] /\ r["id"] # Null
      /\ \A r \in old : r["authenticationData"] # Null
      /\ \A r, s \in old : r["id"] = s["id"] => r = s
  BY <1>1 DEF TableInv, Complete, Accepts
<1>3. \A r, s \in w : r = s
  BY <1>2
<1>4. \A s \in new : /\ DOMAIN s = Schema[t] /\ s["id"] = o.f["id"]
                     /\ s["authenticationData"] # Null /\ s["id"] # Null
  BY <1>2 DEF Stays
<1>5. \A s, u \in new : s = u
  BY <1>3
<1>6. \A r \in old \ w : r["id"] # o.f["id"]
  OBVIOUS
<1>7. TableInv(t, (old \ w) \cup new)
  BY <1>1, <1>2, <1>4, <1>5, <1>6 DEF TableInv, Complete, Accepts
<1>8. \A r \in w, s \in new : Stays(o, t, r, s)
  BY <1>3
<1>9. Kept(o, t, old, (old \ w) \cup new)
  <2>1. \A r \in w \cup new : Names(o, t, r)
    BY <1>1, <1>4 DEF Names
  <2>. QED  BY <1>8, <2>1 DEF Kept, Stays
<1>. QED  BY <1>7, <1>9

LEMMA UpdateStep ==
    ASSUME Inv, UpdateQuery PROVE RowsInv' /\ StatementKept
<1>. DEFINE t == TableName(obj)
            c == obj.class
            w == Where(obj)
            new == {Updated(obj, r) : r \in w}
<1>1. CASE KeyOf(c) # "" /\ ~Refused(obj) /\ Accepts(t, new)
  <2>1. /\ c \in {"NetworkMember", "UserMember", "AuthRequest"} /\ c \in MemberClasses
        /\ Whole(c, obj.f) /\ Valid(obj)
    BY <1>1 DEF UpdateQuery, Inv, ObjectInv, KeyOf, RowClasses, MemberClasses,
                PermissionClasses
  <2>2. t = "NetworkMembers" /\ t \in Tables /\ obj.f["id"] # Null
    BY <2>1, TableOfRow, TablesOf DEF Valid, RowClasses
  <2>3. Condition(obj) = [x \in {"id"} |-> obj.f["id"]]
    BY <2>1, <2>2 DEF Condition, DBObjectCondition, KeyOf
  <2>4. w = {r \in rows[t] : r["id"] = obj.f["id"]}
    <3>. HIDE DEF t
    <3>. QED  BY <2>3 DEF Where, t
  <2>5. TableInv(t, rows[t])
    BY <2>2 DEF Inv, RowsInv
  <2>. DEFINE g == [r \in w |-> Updated(obj, r)]
  <2>6. ASSUME NEW r \in w
        PROVE  Stays(obj, t, r, g[r])
    <3>1. r \in rows[t] /\ DOMAIN r = {"id", "authenticationData", "trust", "token"}
      BY <2>2, <2>4, <2>5, SchemaIs DEF TableInv, Complete
    <3>2. /\ "id" \notin ColumnsFor(c, "update") /\ ColumnsFor(c, "update") \subseteq Fields(c)
      BY <2>1, FieldsAre, MemberColumns, UserColumns
    <3>3. g[r] = [x \in DOMAIN r |-> IF x \in ColumnsFor(c, "update") THEN obj.f[x] ELSE r[x]]
      BY DEF Updated
    <3>4. g[r] \in new
      OBVIOUS
    <3>. HIDE DEF g, new
    <3>5. "authenticationData" \in NotNull[t] /\ Schema[t] = DOMAIN r
      BY <2>2, <3>1, SchemaIs
    <3>6. g[r]["authenticationData"] # Null
      BY <1>1, <3>4, <3>5 DEF Accepts
    <3>7. DOMAIN g[r] = DOMAIN r /\ g[r]["id"] = r["id"]
      BY <3>1, <3>2, <3>3
    <3>8. c # "SetSingleValue"
      BY <2>1
    <3>. QED  BY <3>2, <3>3, <3>5, <3>6, <3>7, <3>8 DEF Stays
  <2>7. new = {g[r] : r \in w}
    OBVIOUS
  <2>8. rows' = [rows EXCEPT ![t] = (rows[t] \ w) \cup new]
    BY <1>1 DEF UpdateQuery
  <2>. HIDE DEF t, w, new, g
  <2>9. TableInv(t, (rows[t] \ w) \cup new) /\ Kept(obj, t, rows[t], (rows[t] \ w) \cup new)
    <3>1. MemberUpdate(obj, t, rows[t], w, new, g)
      BY <2>2, <2>4, <2>5, <2>6, <2>7 DEF MemberUpdate, t
    <3>. QED  BY <3>1, UpdateOfMembers
  <2>. QED  BY <2>2, <2>8, <2>9, OneTable DEF Inv
<1>2. CASE ~ (KeyOf(c) # "" /\ ~Refused(obj) /\ Accepts(t, new))
  <2>1. UNCHANGED rows
    BY <1>2 DEF UpdateQuery
  <2>. QED  BY <2>1, SameKept DEF Inv, RowsInv, TableInv
<1>. QED  BY <1>1, <1>2

LEMMA SetStep ==
    ASSUME Inv, SetSingleValue PROVE RowsInv' /\ StatementKept
<1>. DEFINE t == obj.f.table
            k == obj.f.field
            w == {r \in rows[t] : "id" \in DOMAIN r /\ r.id = obj.f.id}
            g == [r \in w |-> [r EXCEPT ![k] = obj.f.value]]
            new == {[r EXCEPT ![k] = obj.f.value] : r \in w}
<1>1. /\ obj.class = "SetSingleValue" /\ t \in Tables /\ k \in {"token", "trust"}
  BY DEF SetSingleValue, Inv, ObjectInv, Whole
<1>2. TableName(obj) = t
  BY <1>1 DEF TableName, PermissionClasses
<1>3. CASE {"id", k} \subseteq Schema[t]
  <2>1. t = "NetworkMembers"
    BY <1>1, <1>3, SchemaIs DEF Tables
  <2>2. TableInv(t, rows[t])
    BY <1>1 DEF Inv, RowsInv
  <2>3. w = {r \in rows[t] : r["id"] = obj.f["id"]}
    BY <2>1, <2>2, SchemaIs DEF TableInv, Complete
  <2>4. ASSUME NEW r \in w
        PROVE  Stays(obj, t, r, g[r])
    <3>1. /\ DOMAIN r = {"id", "authenticationData", "trust", "token"}
          /\ Schema[t] = DOMAIN r /\ r["authenticationData"] # Null
      BY <2>1, <2>2, <2>3, SchemaIs DEF TableInv, Complete, Accepts
    <3>2. g[r] = [r EXCEPT ![k] = obj.f.value]
      OBVIOUS
    <3>. HIDE DEF g, w
    <3>3. /\ DOMAIN g[r] = DOMAIN r /\ g[r]["id"] = r["id"]
          /\ g[r]["authenticationData"] = r["authenticationData"]
          /\ \A x \in DOMAIN r : r[x] # g[r][x] => x = k /\ g[r][x] = obj.f.value
      BY <1>1, <3>1, <3>2
    <3>. QED  BY <1>1, <3>1, <3>3 DEF Stays
  <2>5. new = {g[r] : r \in w}
    OBVIOUS
  <2>6. rows' = [rows EXCEPT ![t] = (rows[t] \ w) \cup new]
    BY <1>3 DEF SetSingleValue
  <2>. HIDE DEF t, w, new, g
  <2>7. TableInv(t, (rows[t] \ w) \cup new) /\ Kept(obj, t, rows[t], (rows[t] \ w) \cup new)
    <3>1. MemberUpdate(obj, t, rows[t], w, new, g)
      BY <1>2, <2>1, <2>2, <2>3, <2>4, <2>5 DEF MemberUpdate
    <3>. QED  BY <3>1, UpdateOfMembers
  <2>. QED  BY <1>1, <2>6, <2>7, OneTable DEF Inv
<1>4. CASE ~ ({"id", k} \subseteq Schema[t])
  <2>1. UNCHANGED rows
    BY <1>4 DEF SetSingleValue
  <2>. QED  BY <2>1, SameKept DEF Inv, RowsInv, TableInv
<1>. QED  BY <1>3, <1>4

(***************************************************************************)
(* The theorems.                                                           *)
(***************************************************************************)

LEMMA NextStep ==
    ASSUME Inv, [Next]_vars
    PROVE  Inv' /\ StatementKept
<1>1. ASSUME NEW c \in Class, Make(c) PROVE Inv' /\ StatementKept
  <2>1. UNCHANGED rows
    BY <1>1 DEF Make
  <2>. QED  BY <1>1, <2>1, MakeStep, SameKept DEF Inv, RowsInv, TableInv
<1>2. CASE ToPackage
  <2>1. UNCHANGED rows
    BY <1>2 DEF ToPackage
  <2>. QED  BY <1>2, <2>1, ToPackageStep, SameKept DEF Inv, RowsInv, TableInv
<1>3. CASE FromPackage
  <2>1. UNCHANGED rows
    BY <1>3 DEF FromPackage
  <2>. QED  BY <1>3, <2>1, FromPackageStep, SameKept DEF Inv, RowsInv, TableInv
<1>4. CASE Reread
  <2>1. UNCHANGED rows
    BY <1>4 DEF Reread
  <2>. QED  BY <1>4, <2>1, RereadStep, SameKept DEF Inv, RowsInv, TableInv
<1>5. CASE CopyFrom \/ CloneRaw
  <2>1. UNCHANGED rows
    BY <1>5 DEF CopyFrom, CloneRaw, Copy
  <2>. QED  BY <1>5, <2>1, CopyStep, SameKept DEF Inv, RowsInv, TableInv
<1>6. CASE SelectQuery
  <2>1. UNCHANGED rows
    BY <1>6 DEF SelectQuery
  <2>. QED  BY <1>6, <2>1, SelectStep, SameKept DEF Inv, RowsInv, TableInv
<1>7. CASE InsertQuery
  <2>1. Drop
    BY <1>7 DEF InsertQuery
  <2>. QED  BY <1>7, <2>1, DropStep, InsertStep DEF Inv
<1>8. CASE UpdateQuery
  <2>1. Drop
    BY <1>8 DEF UpdateQuery
  <2>. QED  BY <1>8, <2>1, DropStep, UpdateStep DEF Inv
<1>9. CASE SetSingleValue
  <2>1. Drop
    BY <1>9 DEF SetSingleValue
  <2>. QED  BY <1>9, <2>1, DropStep, SetStep DEF Inv
<1>10. CASE DeleteQuery
  <2>1. Drop
    BY <1>10 DEF DeleteQuery
  <2>. QED  BY <1>10, <2>1, DropStep, DeleteStep DEF Inv
<1>11. CASE UNCHANGED vars
  <2>1. UNCHANGED rows
    BY <1>11 DEF vars
  <2>. QED  BY <1>11, <2>1, SameKept
            DEF vars, Inv, ObjectInv, WireInv, RowsInv, TableInv
<1>. QED  BY <1>1, <1>2, <1>3, <1>4, <1>5, <1>6, <1>7, <1>8, <1>9, <1>10, <1>11 DEF Next

LEMMA Invariance == Spec => []Inv
<1>1. Inv /\ [Next]_vars => Inv'
  BY NextStep
<1>. QED  BY InitInv, <1>1, PTL DEF Spec

\* The objects keep the fields of their class, and the tables complete rows, one
\* for each key, whatever packages arrive and statements run (MemberType,
\* prepareInsertQuery, prepareUpdateQuery, BaseDB.sql).
THEOREM TypeCorrectness == Spec => []TypeOK
BY Invariance, InvImplies, PTL

\* An object that comes over the network, as bytes or from a row has the values of
\* the one it was made from, toStream and fromStream, variantMap and fromSqlRecord
\* agreeing for every class, and copyFrom of the rows with them; an object of
\* another class that was copied on the way has them in the fields that its
\* copyFrom copies.
THEOREM FieldsArrive == Spec => []NothingLost
BY Invariance, InvImplies, PTL

\* A statement changes no row but its object's, and no column but those the
\* object knows (condition, prepareUpdateQuery, prepareRemoveQuery).
THEOREM StatementsAreLocal == Spec => StatementsKeepToTheirObject
<1>1. Inv /\ [Next]_vars =>
        [\A t \in Tables :
           LET gone == rows[t] \ rows'[t]
               come == rows'[t] \ rows[t] IN
           /\ \A r \in gone \cup come : Names(obj, t, r)
           /\ \A r \in gone, s \in come : \A x \in Schema[t] :
                r[x] # s[x] => IF obj.class = "SetSingleValue"
                               THEN x = obj.f.field /\ s[x] = obj.f.value
                               ELSE x \in Fields(obj.class) /\ s[x] = obj.f[x]]_vars
  BY NextStep DEF StatementKept, Kept
<1>. QED  BY Invariance, <1>1, PTL DEF Spec, StatementsKeepToTheirObject
=============================================================================
