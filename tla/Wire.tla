-------------------------------- MODULE Wire --------------------------------
(***************************************************************************)
(* How the messages of the two services travel: the serialisers and parsers*)
(* that protoc generated from raftRPC.proto, kvServerRPC.proto and         *)
(* rpcheader.proto.                                                        *)
(*                                                                         *)
(* All of them have one form, instantiated with the fields of a message, so*)
(* a message type is a schema, the sequence of its fields, and Clear,      *)
(* Serialize and Parse take the schema as a parameter.  On the wire a      *)
(* message is a sequence of items, one per field that is written; an item  *)
(* carries the number of the field and the way its value is encoded, and   *)
(* neither the type of the message nor where it ends.                      *)
(***************************************************************************)
EXTENDS Integers, Sequences, SequencesExt

Field(num, name, type) == [num |-> num, name |-> name, type |-> type]

LogEntry ==
  <<Field(1, "Command", "bytes"), Field(2, "LogTerm", "int32"), Field(3, "LogIndex", "int32")>>

AppendEntriesArgs ==
  <<Field(1, "Term", "int32"), Field(2, "LeaderId", "int32"), Field(3, "PrevLogIndex", "int32"),
    Field(4, "PrevLogTerm", "int32"), Field(5, "Entries", "entries"),
    Field(6, "LeaderCommit", "int32")>>

AppendEntriesReply ==
  <<Field(1, "Term", "int32"), Field(2, "Success", "bool"),
    Field(3, "UpdateNextIndex", "int32"), Field(4, "AppState", "int32")>>

RequestVoteArgs ==
  <<Field(1, "Term", "int32"), Field(2, "CandidateId", "int32"),
    Field(3, "LastLogIndex", "int32"), Field(4, "LastLogTerm", "int32")>>

RequestVoteReply ==
  <<Field(1, "Term", "int32"), Field(2, "VoteGranted", "bool"), Field(3, "VoteState", "int32")>>

InstallSnapshotRequest ==
  <<Field(1, "LeaderId", "int32"), Field(2, "Term", "int32"),
    Field(3, "LastSnapShotIncludeIndex", "int32"), Field(4, "LastSnapShotIncludeTerm", "int32"),
    Field(5, "Data", "bytes")>>

InstallSnapshotResponse == <<Field(1, "Term", "int32")>>

GetArgs ==
  <<Field(1, "Key", "bytes"), Field(2, "ClientId", "bytes"), Field(3, "RequestId", "int32")>>

GetReply == <<Field(1, "Err", "bytes"), Field(2, "Value", "bytes")>>

PutAppendArgs ==
  <<Field(1, "Key", "bytes"), Field(2, "Value", "bytes"), Field(3, "Op", "bytes"),
    Field(4, "ClientId", "bytes"), Field(5, "RequestId", "int32")>>

PutAppendReply == <<Field(1, "Err", "bytes")>>

RpcHeader ==
  <<Field(1, "service_name", "bytes"), Field(2, "method_name", "bytes"),
    Field(3, "args_size", "int32")>>

Schemas ==
  {LogEntry, AppendEntriesArgs, AppendEntriesReply, RequestVoteArgs, RequestVoteReply,
   InstallSnapshotRequest, InstallSnapshotResponse, GetArgs, GetReply, PutAppendArgs,
   PutAppendReply, RpcHeader}

-----------------------------------------------------------------------------

Named(schema, name) == CHOOSE f \in Range(schema) : f.name = name
Names(schema) == {f.name : f \in Range(schema)}

\* The value of a field that was not written.
Default ==
  [int32 |-> 0, bool |-> FALSE, bytes |-> "", entries |-> <<>>]

\* Clear(): every field has its default.
Clear(schema) ==
  [name \in Names(schema) |-> Default[Named(schema, name).type]]

\* Wire types 0 (VARINT) and 2 (LEN).
WireType == [int32 |-> "varint", bool |-> "varint", bytes |-> "len", entries |-> "len"]
Item(f, value) == [num |-> f.num, wire |-> WireType[f.type], value |-> value]

\* A field with its default value is not written at all.
ScalarItems(f, value) ==
  IF value = Default[f.type] THEN <<>>
  ELSE <<Item(f, IF f.type = "bool" THEN 1 ELSE value)>>

\* _InternalSerialize of a message whose fields are scalars, as an entry's are.
SerializeEntry(entry) ==
  FoldLeft(LAMBDA s, f : s \o ScalarItems(f, entry[f.name]), <<>>, LogEntry)

\* _InternalSerialize: the fields in order; a repeated one is written item by item.
Serialize(schema, message) ==
  LET items(f) == IF f.type = "entries"
                  THEN FoldLeft(LAMBDA s, e : Append(s, Item(f, SerializeEntry(e))), <<>>,
                                message[f.name])
                  ELSE ScalarItems(f, message[f.name])
  IN  FoldLeft(LAMBDA s, f : s \o items(f), <<>>, schema)

\* The items of a field; an item that is no field of the schema is put aside.
Own(f, items) == SelectSeq(items, LAMBDA i : i.num = f.num /\ i.wire = WireType[f.type])

\* A scalar field that came several times keeps its last value.
ParseScalar(f, items) ==
  LET values == Own(f, items)
  IN  IF values = <<>> THEN Default[f.type]
      ELSE IF f.type = "bool" THEN Last(values).value # 0 ELSE Last(values).value

ParseEntry(items) == [name \in Names(LogEntry) |-> ParseScalar(Named(LogEntry, name), items)]

\* A repeated field has an entry for every item that came.
ParseEntries(f, items) ==
  [i \in DOMAIN Own(f, items) |-> ParseEntry(Own(f, items)[i].value)]

\* _InternalParse after Clear, of complete items.
Parse(schema, items) ==
  [name \in Names(schema) |->
     LET f == Named(schema, name)
     IN  IF f.type = "entries" THEN ParseEntries(f, items) ELSE ParseScalar(f, items)]

-----------------------------------------------------------------------------

\* The messages of a schema whose fields have the given values, per type of field.
Messages(schema, values) ==
  FoldLeft(LAMBDA ms, f : {[m EXCEPT ![f.name] = v] : m \in ms, v \in values[f.type]},
           {Clear(schema)}, schema)

\* What is serialised and parsed again is the same message, for every schema: no
\* default that was left out and no repeated field is mistaken.
RoundTrip(values) ==
  \A schema \in Schemas : \A m \in Messages(schema, values) :
    Parse(schema, Serialize(schema, m)) = m

=============================================================================
