------------------------------ MODULE Packages ------------------------------
(***************************************************************************)
(* The packages and database objects of Heart on their way: an object is   *)
(* made, written to a stream as the data of a package (toStream), read at  *)
(* the other end into an object of the class its command names             *)
(* (fromStream), cloned (copyFrom), and turned into SQL statements and     *)
(* back (variantMap, condition, fromSqlRecord).  Classes write, read, copy *)
(* and store their fields one by one, each in four places that have to     *)
(* agree.                                                                  *)
(*                                                                         *)
(* A stream is the sequence of the values written: a QDataStream does not  *)
(* say which field a value belongs to.  A table is a set of rows, and SQL  *)
(* (external) refuses a statement that breaks the constraints of           *)
(* BaseDB.sql and UserDB.sql.                                              *)
(***************************************************************************)
EXTENDS Naturals, FiniteSets, Sequences, SequencesExt

CONSTANTS Id,         \* ids of network members
          Address,    \* hashes of the addresses of objects
          High,       \* a trust above 100
          Low,        \* any other trust
          MaxRows,    \* bound on the rows of all tables together
          Registered  \* the classes the receiving node has registered

Null == "null"        \* a value that is not set
HashId == "hash"      \* the id a NodeObject makes of its authenticationData

\* No node registers SetSingleValue as a package.
ASSUME PackagesAssumption == Null \notin Address /\ "SetSingleValue" \notin Registered

-----------------------------------------------------------------------------
(* What each class writes to a stream and reads from it, in order. *)

Codec(written, read) == [written |-> written, read |-> read]
Extended(base, written, read) ==
    Codec(base.written \o written, base.read \o read)

DbAddressStream == Codec(<<"id", "table">>, <<"id", "table">>)
AccessTokenStream == Codec(<<"data", "duration">>, <<"data", "duration">>)
PermisionDataStream == Codec(<<"memberId", "dbAddress">>, <<"memberId", "dbAddress">>)
NodeIdStream == Codec(<<"data">>, <<"data">>)
CryptoPairKeysStream ==
    Codec(<<"publicKey", "privKey", "bits">>, <<"publicKey", "privKey", "bits">>)

AbstractDataStream == Codec(<<"cmd">>, <<"cmd">>)
PingStream == Extended(AbstractDataStream, <<"ansver">>, <<"ansver">>)
LongPingStream == Extended(PingStream, <<"senderID">>, <<"senderID">>)
BadRequestStream == Extended(AbstractDataStream, <<"errCode", "err">>, <<"errCode", "err">>)
BadNodeRequestStream == Extended(BadRequestStream, <<"senderID">>, <<"senderID">>)
WebSocketStream ==
    Extended(AbstractDataStream, <<"request", "subscribeId">>, <<"request", "subscribeId">>)
SubscriptionsStream == Extended(AbstractDataStream, <<"subscribeIds">>, <<"subscribeIds">>)
KnowAddressesStream == Extended(AbstractDataStream, <<"knowAddresses">>, <<"knowAddresses">>)
NetworkRequestStream ==
    Extended(AbstractDataStream, <<"dataRequest", "askedNodes", "dataResponce">>,
                                 <<"dataRequest", "askedNodes", "dataResponce">>)
TransportDataStream ==
    Extended(AbstractDataStream,
        <<"targetAddress", "senderID", "packageId", "fRouteIsComplete", "route", "data">>,
        <<"targetAddress", "senderID", "packageId", "fRouteIsComplete", "route", "data">>)
\* Mutant of DBObjectStream: the address is read in the other order.
DBObjectStreamSwapped ==
    Extended(AbstractDataStream, DbAddressStream.written, Reverse(DbAddressStream.read))
DBObjectStream ==
    Extended(AbstractDataStream, DbAddressStream.written, DbAddressStream.read)
NetworkMemberStream ==
    Extended(DBObjectStream, <<"authenticationData", "trust">>, <<"authenticationData", "trust">>)
NodeObjectStream == Extended(NetworkMemberStream, <<"senderID">>, <<"senderID">>)
UserMemberStream == Extended(NetworkMemberStream, <<"token">>, <<"token">>)
AuthRequestStream == Extended(UserMemberStream, <<"request">>, <<"request">>)
DeleteObjectStream == Extended(DBObjectStream, <<"token">>, <<"token">>)
\* The rows of permissions write neither their command nor their address.
MemberPermisionStream ==
    Codec(PermisionDataStream.written \o <<"lvl">>, PermisionDataStream.read \o <<"lvl">>)

Stream ==
    [Ping |-> PingStream, LongPing |-> LongPingStream,
     BadRequest |-> BadRequestStream, BadNodeRequest |-> BadNodeRequestStream,
     CloseConnection |-> AbstractDataStream,
     WebSocket |-> WebSocketStream, WebSocketSubscriptions |-> SubscriptionsStream,
     KnowAddresses |-> KnowAddressesStream, NetworkRequest |-> NetworkRequestStream,
     TransportData |-> TransportDataStream, NodeObject |-> NodeObjectStream,
     NetworkMember |-> NetworkMemberStream, UserMember |-> UserMemberStream,
     AuthRequest |-> AuthRequestStream, DeleteObject |-> DeleteObjectStream,
     MemberPermision |-> MemberPermisionStream,
     DefaultPermision |-> MemberPermisionStream,
     SetSingleValue |-> DBObjectStream, AccessToken |-> AccessTokenStream,
     NodeId |-> NodeIdStream, CryptoPairKeys |-> CryptoPairKeysStream]

\* The objects of the database that are rows, and those whose rows are members.
MemberClasses == {"NetworkMember", "UserMember", "AuthRequest"}
PermissionClasses == {"MemberPermision", "DefaultPermision"}
RowClasses == MemberClasses \cup PermissionClasses
DBObjectClasses == RowClasses \cup {"NodeObject", "DeleteObject", "SetSingleValue"}
\* What is no package: values that write and read themselves.
Standalone == {"AccessToken", "NodeId", "CryptoPairKeys"}
Class == DOMAIN Stream

Tables == {"NetworkMembers", "MemberPermisions", "DefaultPermissions"}
\* tableName: the table the constructor of a class names.
TableOf ==
    [c \in RowClasses |->
        CASE c \in MemberClasses -> "NetworkMembers"
          [] c = "MemberPermision" -> "MemberPermisions"
          [] c = "DefaultPermision" -> "DefaultPermissions"]

\* The fields of an object: what its class reads, without the command, which
\* is the class, and the field and value of a SetSingleValue.
Fields(c) ==
    (ToSet(Stream[c].read) \ {"cmd"})
    \cup (IF c = "SetSingleValue" THEN {"field", "value"} ELSE {})

\* The objects a program makes.  Where no code looks at a field, its own name
\* stands for a value: it is never the value of another field.
Objects ==
    [c \in Class |->
        {[x \in Fields(c) |->
            CASE x \in {"id", "memberId"} -> i
              [] x = "dbAddress" -> a
              [] x = "table" -> IF c \in RowClasses THEN TableOf[c] ELSE t
              [] x \in {"trust", "lvl"} -> IF x \in unset THEN High ELSE Low
              [] x = "field" -> IF x \in unset THEN "token" ELSE "trust"
              [] OTHER -> IF x \in unset THEN Null ELSE x]
         : i \in Id \cup {Null}, a \in Address, t \in Tables, unset \in SUBSET Fields(c)}]

-----------------------------------------------------------------------------
(* The rows of an object. *)

\* MemberType
InsertUpdate == {"insert", "update"}
PrimaryKey == {"insert", "unique"}

\* The name of the key of a class, empty where it has none.
KeyOf(c) == IF c \in MemberClasses \cup {"DeleteObject"} THEN "id" ELSE ""

\* variantMap: the columns of each class and what they are for.
DBObjectColumns(c) == [x \in {KeyOf(c)} \ {""} |-> PrimaryKey]
Adding(columns, new) ==
    [x \in DOMAIN columns \cup new |-> IF x \in new THEN InsertUpdate ELSE columns[x]]
NetworkMemberColumns(c) == Adding(DBObjectColumns(c), {"authenticationData", "trust"})
UserMemberColumns(c) == Adding(NetworkMemberColumns(c), {"token"})
MemberPermisionColumns ==
    [memberId |-> InsertUpdate, dbAddress |-> InsertUpdate, lvl |-> InsertUpdate]
DefaultPermisionColumns == [dbAddress |-> PrimaryKey, lvl |-> InsertUpdate]
Columns(c) ==
    CASE c = "NetworkMember" -> NetworkMemberColumns(c)
      [] c \in {"UserMember", "AuthRequest"} -> UserMemberColumns(c)
      [] c = "MemberPermision" -> MemberPermisionColumns
      [] c = "DefaultPermision" -> DefaultPermisionColumns
      [] c = "DeleteObject" -> <<>>
      [] OTHER -> DBObjectColumns(c)

Schema ==
    [NetworkMembers |-> {"id", "authenticationData", "trust", "token"},
     MemberPermisions |-> {"memberId", "dbAddress", "lvl"},
     DefaultPermissions |-> {"dbAddress", "lvl"}]
NotNull ==
    [NetworkMembers |-> {"authenticationData"},
     MemberPermisions |-> {"memberId", "dbAddress", "lvl"},
     DefaultPermissions |-> {"dbAddress", "lvl"}]
UniqueKey ==
    [NetworkMembers |-> {"id"}, MemberPermisions |-> {"memberId", "dbAddress"},
     DefaultPermissions |-> {"dbAddress"}]

-----------------------------------------------------------------------------
VARIABLES obj,     \* the object in hand, or None
          origin,  \* the fields it was made with, or those of the row it was read
                   \* from; of those the ones that every copy since has to keep
          wire,    \* the package under way, or None
          rows     \* the tables

vars == <<obj, origin, wire, rows>>

None == [none |-> TRUE]

Init ==
    /\ obj = None /\ origin = None /\ wire = None
    /\ rows = [t \in Tables |-> {}]

Make(c) ==
    /\ obj = None /\ wire = None
    /\ \E f \in Objects[c] : obj' = [class |-> c, f |-> f] /\ origin' = f
    /\ UNCHANGED <<wire, rows>>

\* Mutant of Valid: an object with a key is valid without its id.
ValidAnyId(o) == TRUE
\* isValid of each class.
Valid(o) ==
    CASE o.class = "MemberPermision" -> o.f.dbAddress # Null /\ o.f.memberId # Null
      [] o.class = "DefaultPermision" -> o.f.dbAddress # Null
      [] o.class \in {"NetworkMember", "NodeObject"} -> o.f.id # Null
      [] o.class \in {"UserMember", "AuthRequest"} -> o.f.id # Null /\ o.f.trust # High
      [] o.class \in {"LongPing", "BadNodeRequest"} -> o.f.senderID # Null
      [] o.class = "WebSocket" -> o.f.request # Null
      [] o.class = "NetworkRequest" -> o.f.askedNodes # Null /\ o.f.dataRequest # Null
      [] o.class = "TransportData" -> o.f.data # Null /\ o.f.targetAddress # Null
      [] OTHER -> TRUE

-----------------------------------------------------------------------------
(* Over the network. *)

ToStream(o) ==
    [i \in DOMAIN Stream[o.class].written |->
        LET x == Stream[o.class].written[i] IN IF x = "cmd" THEN o.class ELSE o.f[x]]

FromStream(c, bytes) ==
    [class |-> c,
     f |-> [x \in Fields(c) |->
              IF \E i \in DOMAIN bytes : Stream[c].read[i] = x
              THEN bytes[CHOOSE i \in DOMAIN bytes : Stream[c].read[i] = x] ELSE Null]]

\* Package::isValid: the data has to begin with the command of the header.
ToPackage ==
    /\ obj # None /\ wire = None
    /\ Valid(obj) /\ ToStream(obj)[1] = obj.class
    /\ wire' = [command |-> obj.class, data |-> ToStream(obj), from |-> origin]
    /\ obj' = None /\ origin' = None
    /\ UNCHANGED rows

\* prepareData: an object of the class registered for the command reads the
\* data; a package of another command is refused.
FromPackage ==
    /\ wire # None /\ obj = None
    /\ wire' = None
    /\ IF wire.command \in Registered
       THEN obj' = FromStream(wire.command, wire.data) /\ origin' = wire.from
       ELSE UNCHANGED <<obj, origin>>
    /\ UNCHANGED rows

\* fromBytes(toBytes()): how a token becomes a column, and how a TransportData
\* and the storage of keys hold what they carry.
Reread ==
    /\ obj # None /\ obj.class \in Standalone
    /\ obj' = FromStream(obj.class, ToStream(obj))
    /\ UNCHANGED <<origin, wire, rows>>

-----------------------------------------------------------------------------
(* Copies: copyFrom copies some fields to a new object, cloneRaw makes one  *)
(* with createDBObject, copies to it and calls its init.                   *)

\* The fields copyFrom of each class copies.  Those without one of their own
\* (Ping, BadRequest, WebSocket, TransportData...) have AbstractData's, which
\* copies none; AuthRequest, DeleteObject and SetSingleValue have that of their
\* base class.
DBObjectCopies == {"id", "table"}
NetworkMemberCopies == DBObjectCopies \cup {"authenticationData", "trust"}
UserMemberCopies == NetworkMemberCopies \cup {"token"}
NodeObjectCopies == NetworkMemberCopies \cup {"senderID"}
MemberPermisionCopies == DBObjectCopies \cup {"memberId", "dbAddress", "lvl"}
Copies(c) ==
    CASE c \in {"LongPing", "BadNodeRequest"} -> {"senderID"}
      [] c = "KnowAddresses" -> {"knowAddresses"}
      [] c = "NetworkRequest" -> {"dataRequest", "askedNodes", "dataResponce"}
      [] c = "NetworkMember" -> NetworkMemberCopies
      [] c = "NodeObject" -> NodeObjectCopies
      [] c \in {"UserMember", "AuthRequest"} -> UserMemberCopies
      [] c \in PermissionClasses -> MemberPermisionCopies
      [] c \in {"DeleteObject", "SetSingleValue"} -> DBObjectCopies
      [] OTHER -> {}

\* createDBObject: AuthRequest has none of its own; that of SetSingleValue gives
\* the new object its field and value.
CreateDBObject(c) == IF c = "AuthRequest" THEN "UserMember" ELSE c
Given(c) == IF c = "SetSingleValue" THEN {"field", "value"} ELSE {}
\* init: a NodeObject makes its id again.  (So does a permission, of its key; that
\* id is in no stream and no column, and is left out.)
Derived(c) == IF c = "NodeObject" THEN {"id"} ELSE {}
DerivedId(f) == IF f.authenticationData = Null THEN f.id ELSE HashId

\* A copy of the object in hand.
Copied(c) ==
    [x \in Fields(c) |->
        CASE x \in Derived(c) -> DerivedId(obj.f)
          [] x \in Copies(c) \cup Given(c) -> obj.f[x]
          [] OTHER -> Null]

\* What it has to keep: a row, which the cache holds a copy of, all its fields,
\* another object what its class copies.
MustKeep(c) == IF c \in RowClasses THEN Fields(c) ELSE (Copies(c) \cup Given(c)) \ Derived(c)

Copy(c) ==
    /\ obj' = [class |-> c, f |-> Copied(c)]
    /\ origin' = [x \in DOMAIN origin \cap MustKeep(c) |-> origin[x]]
    /\ UNCHANGED <<wire, rows>>

\* A package that is no object of the database, to another of its class.
CopyFrom ==
    /\ obj # None /\ obj.class \notin DBObjectClasses \cup Standalone
    /\ Copy(obj.class)

CloneRaw ==
    /\ obj # None /\ obj.class \in DBObjectClasses
    /\ Copy(CreateDBObject(obj.class))

-----------------------------------------------------------------------------
(* SQL: the statements an object prepares, and what they do to the tables. *)

\* A condition maps columns to values; Wrong is no SQL.
Wrong == [wrong |-> TRUE]

\* Without a valid id a unique column would do; the only one is the id.
DBObjectCondition(o) ==
    IF o.f.id # Null THEN [x \in {KeyOf(o.class)} |-> o.f.id] ELSE Wrong
\* Mutant of MemberPermisionCondition: the member plays no part.
ConditionAnyMember(o) == [dbAddress |-> o.f.dbAddress]
MemberPermisionCondition(o) ==
    [x \in {y \in {"memberId", "dbAddress"} : o.f[y] # Null} |-> o.f[x]]
DefaultPermisionCondition(o) == [dbAddress |-> o.f.dbAddress]
Condition(o) ==
    CASE o.class = "MemberPermision" -> MemberPermisionCondition(o)
      [] o.class = "DefaultPermision" -> DefaultPermisionCondition(o)
      [] OTHER -> DBObjectCondition(o)

TableName(o) == IF o.class \in PermissionClasses THEN TableOf[o.class] ELSE o.f.table

\* A statement whose condition is no SQL for the table, and the rows that
\* the condition names.
Refused(o) == ~ DOMAIN Condition(o) \subseteq Schema[TableName(o)]
Where(o) ==
    {r \in rows[TableName(o)] : \A x \in DOMAIN Condition(o) : r[x] = Condition(o)[x]}

Drop == obj' = None /\ origin' = None /\ UNCHANGED wire

\* A table keeps its constraints; a column that no value is given for is Null.
Accepts(t, new) ==
    /\ \A r \in new, x \in NotNull[t] : r[x] # Null
    /\ \A r, s \in new : (\A x \in UniqueKey[t] : r[x] = s[x]) => r = s

\* The columns of a class with a use, and the row they make.
ColumnsFor(c, use) == {x \in DOMAIN Columns(c) : use \in Columns(c)[x]}
RowOf(o) ==
    [x \in Schema[TableName(o)] |->
        IF x \in ColumnsFor(o.class, "insert") THEN o.f[x] ELSE Null]

InsertQuery ==
    /\ obj # None /\ obj.class \in RowClasses /\ Valid(obj)
    /\ Cardinality(UNION {{t} \X rows[t] : t \in Tables}) < MaxRows
    /\ LET t == TableName(obj)
           same == {r \in rows[t] : \A x \in UniqueKey[t] : r[x] = RowOf(obj)[x]} IN
       IF same = {} /\ Accepts(t, {RowOf(obj)})
       THEN rows' = [rows EXCEPT ![t] = @ \cup {RowOf(obj)}]
       ELSE UNCHANGED rows
    /\ Drop

\* A row after an update.
Updated(o, r) ==
    [x \in DOMAIN r |-> IF x \in ColumnsFor(o.class, "update") THEN o.f[x] ELSE r[x]]

\* Only an object with a primary key can be updated.
UpdateQuery ==
    /\ obj # None /\ obj.class \in RowClasses /\ Valid(obj)
    /\ LET t == TableName(obj)
           new == {Updated(obj, r) : r \in Where(obj)} IN
       IF KeyOf(obj.class) # "" /\ ~Refused(obj) /\ Accepts(t, new)
       THEN rows' = [rows EXCEPT ![t] = (@ \ Where(obj)) \cup new]
       ELSE UNCHANGED rows
    /\ Drop

\* SetSingleValue: one column of the row of an id, which may be no column of
\* the table.
SetSingleValue ==
    /\ obj # None /\ obj.class = "SetSingleValue"
    /\ LET t == obj.f.table
           old == {r \in rows[t] : "id" \in DOMAIN r /\ r.id = obj.f.id} IN
       rows' = IF {"id", obj.f.field} \subseteq Schema[t]
               THEN [rows EXCEPT ![t] = (@ \ old)
                        \cup {[r EXCEPT ![obj.f.field] = obj.f.value] : r \in old}]
               ELSE rows
    /\ Drop

\* deleteObject does not ask whether the object is valid.
DeleteQuery ==
    /\ obj # None /\ obj.class \in RowClasses \cup {"DeleteObject"}
    /\ rows' = IF Refused(obj) THEN rows
               ELSE [rows EXCEPT ![TableName(obj)] = @ \ Where(obj)]
    /\ Drop

\* fromSqlRecord: the object of a row.  A user with too much trust is refused.
FromSqlRecord(c, r) ==
    [class |-> c,
     f |-> [x \in Fields(c) |->
              CASE x = "table" -> TableOf[c]
                [] c = "DefaultPermision" /\ x = "memberId" -> Null
                [] x \in DOMAIN Columns(c) -> r[x]
                [] OTHER -> Null]]

\* selectQuery: a list of new objects, or nothing if one row cannot be read;
\* the program goes on with one of them.
SelectQuery ==
    /\ obj # None /\ obj.class \in RowClasses /\ ~Refused(obj)
    /\ LET c == CreateDBObject(obj.class) IN
       /\ \A r \in Where(obj) : Valid(FromSqlRecord(c, r))
       /\ \E r \in Where(obj) : obj' = FromSqlRecord(c, r) /\ origin' = r
    /\ UNCHANGED <<wire, rows>>

Next ==
    \/ \E c \in Class : Make(c)
    \/ ToPackage \/ FromPackage \/ Reread \/ CopyFrom \/ CloneRaw
    \/ InsertQuery \/ UpdateQuery \/ SetSingleValue \/ DeleteQuery \/ SelectQuery

Spec == Init /\ [][Next]_vars

-----------------------------------------------------------------------------
(* Properties *)

\* The objects have the fields of their class, and the tables hold complete
\* rows, one for each key, and no member without an id.
TypeOK ==
    /\ obj # None => obj.class \in Class /\ DOMAIN obj.f = Fields(obj.class)
    /\ \A t \in Tables :
         /\ \A r \in rows[t] : DOMAIN r = Schema[t] /\ \A x \in UniqueKey[t] : r[x] # Null
         /\ Accepts(t, rows[t])

\* Whatever way an object has come, as a package, as bytes, as a row, or several
\* of these in turn, no field it shares with the object or the row it comes from
\* has another value: toStream and fromStream, and variantMap and fromSqlRecord,
\* of every class agree, and copyFrom of the rows with them.  Of an object of
\* another class that was copied on the way this is said of the fields that its
\* copyFrom copies.
NothingLost ==
    obj # None => \A x \in DOMAIN obj.f \cap DOMAIN origin : obj.f[x] = origin[x]

\* Whether a row is one of the object's: it has the object's key; an invalid
\* member in a permission stands for every member.
Names(o, t, r) ==
    /\ t = TableName(o)
    /\ \A x \in UniqueKey[t] : o.f[x] \in {r[x]} \cup (IF x = "memberId" THEN {Null} ELSE {})

\* A statement touches no row but those of its object, and where it changes a
\* row it changes only columns the object knows, to the object's values:
\* updating a NetworkMember keeps the token a UserMember stored.
StatementsKeepToTheirObject ==
    [][\A t \in Tables :
         LET gone == rows[t] \ rows'[t]
             come == rows'[t] \ rows[t] IN
         /\ \A r \in gone \cup come : Names(obj, t, r)
         /\ \A r \in gone, s \in come : \A x \in Schema[t] :
              r[x] # s[x] => IF obj.class = "SetSingleValue"
                             THEN x = obj.f.field /\ s[x] = obj.f.value
                             ELSE x \in Fields(obj.class) /\ s[x] = obj.f[x]]_vars
=============================================================================
