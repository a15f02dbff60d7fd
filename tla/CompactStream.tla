--------------------------- MODULE CompactStream ---------------------------
(***************************************************************************)
(* Datagrams of the compact protocol.  The client is any writer that       *)
(* calls the protocol as generated code does: one message header, one      *)
(* struct, in a struct fields with their values and a stop, after the      *)
(* header of a collection as many elements as it says.  One protocol       *)
(* object writes all datagrams, as in flush.  The reader is                *)
(* TProtocol::skip, which knows no schema: what it asks for next is what   *)
(* the bytes told it.                                                      *)
(***************************************************************************)
EXTENDS CompactWriter, CompactReader, FiniteSets

CONSTANTS FieldIds,
          ValuesOf,      \* the values written, for each scalar type
          FieldTypes,    \* the types of fields
          Collections,   \* element type and size of lists and sets
          Maps,          \* key type, value type and size of maps
          SkipLimit,     \* recursion_limit_: how many calls of skip may run inside each other
          MaxCalls       \* bound: no new field after so many calls

ASSUME StreamAssumption ==
    /\ FieldIds \subseteq Int /\ \A id \in FieldIds : Short(ZigZag(id))
    /\ FieldTypes \subseteq Types
    /\ \A t \in Scalar : \A v \in ValuesOf[t] : Carried(t, v)
    /\ Collections \subseteq Types \X Nat /\ \A c \in Collections : Short(c[2])
    /\ Maps \subseteq Types \X Types \X Nat /\ \A m \in Maps : Short(m[3])
    /\ SkipLimit \in Nat /\ MaxCalls \in Nat

VARIABLES phase,
          open,     \* what the client still has to write; the next one is the last
          told,     \* the calls it made for this datagram
          cut,      \* only the beginning of the datagram was received
          expect,   \* what the reader still has to read
          nesting,  \* for each of it, the calls of skip it is read in
          heard     \* what it read

vars == <<writer, reader, phase, open, told, cut, expect, nesting, heard>>

Pending == Types \union {"message", "fields", "end"}

\* Work lists: their next item, and what becomes of them.
Top(list) == list[Len(list)]
Waits(list, item) == list # <<>> /\ Top(list) = item
Done(list) == SubSeq(list, 1, Len(list) - 1)
Instead(list, item) == Append(Done(list), item)
Copies(types, n) == [i \in 1..(n * Len(types)) |-> types[((i - 1) % Len(types)) + 1]]

Call(name, data) == [call |-> name, data |-> data]

Init ==
    /\ NewWriter
    /\ rest = <<>> /\ rLastField = <<>> /\ rLastFieldId = 0 /\ boolValue = {}
    /\ phase = "writing" /\ open = <<"message">> /\ told = <<>>
    /\ cut = FALSE /\ expect = <<>> /\ nesting = <<>> /\ heard = <<>>

-----------------------------------------------------------------------------
(* The client. *)

Tell(call, list) ==
    /\ phase = "writing"
    /\ told' = Append(told, call)
    /\ open' = list
    /\ UNCHANGED <<reader, phase, cut, expect, nesting, heard>>

Room == Len(told) + Len(open) < MaxCalls

TellMessage ==
    /\ Waits(open, "message")
    /\ WriteMessageBegin(<<101>>, "ONEWAY", 0)
    /\ Tell(Call("message", <<MessageType.ONEWAY, 0, 101>>), Instead(open, "STRUCT"))

TellStruct ==
    /\ Waits(open, "STRUCT")
    /\ WriteStructBegin
    /\ Tell(Call("STRUCT", <<>>), Instead(open, "fields"))

TellField(type, id) ==
    /\ Waits(open, "fields") /\ Room
    /\ WriteFieldBegin(type, id)
    /\ Tell(Call("field", <<CType[type], id>>), Append(open, type))

TellStop ==
    /\ Waits(open, "fields")
    /\ WriteFieldStop
    /\ Tell(Call("stop", <<>>), Instead(open, "end"))

TellStructEnd ==
    /\ Waits(open, "end")
    /\ WriteStructEnd
    /\ Tell(Call("end", <<>>), Done(open))

TellScalar(type, v) ==
    /\ Waits(open, type)
    /\ WriteScalar(type, v)
    /\ Tell(Call(type, v), Done(open))

TellCollection(kind, type, size) ==
    /\ Waits(open, kind)
    /\ WriteCollectionBegin(type, size)
    /\ Tell(Call(kind, <<CType[type], size>>), Done(open) \o Copies(<<type>>, size))

\* The value is the last of a pair on the list, so the key is written first.
TellMap(key, val, size) ==
    /\ Waits(open, "MAP")
    /\ WriteMapBegin(key, val, size)
    /\ Tell(Call("MAP", IF size = 0 THEN <<0>> ELSE <<CType[key], CType[val], size>>),
            Done(open) \o Copies(<<val, key>>, size))

\* getBufferAsString, resetBuffer and one datagram; the protocol object stays.
Send(n) ==
    /\ phase = "writing" /\ open = <<>>
    /\ NewReader(SubSeq(wire, 1, n))
    /\ wire' = <<>> /\ UNCHANGED <<lastField, lastFieldId, booleanField>>
    /\ phase' = "reading" /\ expect' = <<"message">> /\ nesting' = <<0>>
    /\ cut' = (n < Len(wire))
    /\ UNCHANGED <<open, told, heard>>

-----------------------------------------------------------------------------
(* The reader. *)

\* skip counts itself when it is called, whatever it is to skip.
TooDeep == nesting # <<>> /\ Top(nesting) > SkipLimit

\* A value that comes up is skipped by a call of its own; the fields and the end
\* of a struct belong to the call that skips the struct.
NestingOf(list) ==
    [i \in DOMAIN list |->
        IF i < Len(nesting) THEN nesting[i]
        ELSE IF list[i] \in Types THEN Top(nesting) + 1 ELSE Top(nesting)]

Hear(call, list) ==
    /\ phase = "reading" /\ ~TooDeep
    /\ heard' = Append(heard, call)
    /\ expect' = list /\ nesting' = NestingOf(list)
    /\ UNCHANGED <<writer, phase, open, told, cut>>

HearMessage ==
    /\ Waits(expect, "message")
    /\ \E m \in MessageAt(rest) :
          /\ ReadMessageBegin(m)
          /\ Hear(Call("message", <<m.type, m.seqid>> \o m.name), Instead(expect, "STRUCT"))

HearStruct ==
    /\ Waits(expect, "STRUCT")
    /\ ReadStructBegin
    /\ Hear(Call("STRUCT", <<>>), Instead(expect, "fields"))

HearField ==
    /\ Waits(expect, "fields")
    /\ \E f \in FieldAt(rest, rLastFieldId) :
          /\ ReadFieldBegin(f)
          /\ \/ f.types = {} /\ Hear(Call("stop", <<>>), Instead(expect, "end"))
             \/ \E t \in f.types :
                   Hear(Call("field", <<CType[t], f.id>>), Append(expect, t))

HearStructEnd ==
    /\ Waits(expect, "end")
    /\ ReadStructEnd
    /\ Hear(Call("end", <<>>), Done(expect))

HearScalar(type) ==
    /\ Waits(expect, type)
    /\ \E v \in ScalarsAt(type) :
          ReadScalar(type, v) /\ Hear(Call(type, v), Done(expect))

HearCollection(kind) ==
    /\ Waits(expect, kind)
    /\ \E h \in CollectionAt(rest) :
          /\ ReadCollectionBegin(h)
          /\ Hear(Call(kind, <<CType[h.types[1]], h.size>>),
                  Done(expect) \o Copies(h.types, h.size))

HearMap ==
    /\ Waits(expect, "MAP")
    /\ \E h \in MapAt(rest) :
          /\ ReadMapBegin(h)
          /\ \/ /\ h.size = 0
                /\ Hear(Call("MAP", <<0>>), Done(expect))
             \/ /\ h.size > 0
                /\ Hear(Call("MAP", <<CType[h.types[1]], CType[h.types[2]], h.size>>),
                        Done(expect) \o Copies(<<h.types[2], h.types[1]>>, h.size))

\* What the reader needs next is not there: it throws.
Throws ==
    \/ Waits(expect, "message") /\ MessageAt(rest) = {}
    \/ Waits(expect, "fields") /\ FieldAt(rest, rLastFieldId) = {}
    \/ \E t \in Scalar : Waits(expect, t) /\ ScalarsAt(t) = {}
    \/ \E t \in Collection : Waits(expect, t) /\ CollectionAt(rest) = {}
    \/ Waits(expect, "MAP") /\ MapAt(rest) = {}

EndReading ==
    /\ phase = "reading"
    /\ \/ expect = <<>> /\ phase' = "heard"
       \/ (TooDeep \/ Throws) /\ phase' = "thrown"
    /\ UNCHANGED <<writer, reader, open, told, cut, expect, nesting, heard>>

\* Another batch with the same protocol object; the reader is made anew.
NextDatagram ==
    /\ phase \in {"heard", "thrown"}
    /\ phase' = "writing" /\ open' = <<"message">> /\ told' = <<>>
    /\ NewReader(<<>>)
    /\ cut' = FALSE /\ expect' = <<>> /\ nesting' = <<>> /\ heard' = <<>>
    /\ UNCHANGED writer

Writing ==
    \/ TellMessage \/ TellStruct \/ TellStop \/ TellStructEnd
    \/ \E t \in FieldTypes, id \in FieldIds : TellField(t, id)
    \/ \E t \in Scalar : \E v \in ValuesOf[t] : TellScalar(t, v)
    \/ \E k \in Collection, c \in Collections : TellCollection(k, c[1], c[2])
    \/ \E m \in Maps : TellMap(m[1], m[2], m[3])

Reading ==
    \/ HearMessage \/ HearStruct \/ HearField \/ HearStructEnd \/ HearMap
    \/ \E t \in Scalar : HearScalar(t)
    \/ \E k \in Collection : HearCollection(k)

Next ==
    \/ Writing
    \/ \E n \in 0..Len(wire) : Send(n)
    \/ Reading
    \/ EndReading
    \/ NextDatagram

Spec == Init /\ [][Next]_vars

-----------------------------------------------------------------------------
(* Properties. *)

Depth(list) == Cardinality({i \in 1..Len(list) : list[i] \in {"fields", "end"}})

\* The stacks of last field ids go up and down with the structs, and a boolean
\* that waits for its value gets it in the very next call.  Between two datagrams
\* the protocol object is as good as new.
NestingMatches ==
    /\ Len(lastField) = Depth(open) /\ Len(rLastField) = Depth(expect)
    /\ booleanField # {} => Waits(open, "BOOL")
    /\ boolValue # {} => Waits(expect, "BOOL")
    /\ open = <<>> => lastFieldId = 0

\* What skip reads is what the client wrote, call by call, although field ids
\* are differences, booleans come early and empty maps have no types.
HeardIsTold ==
    /\ Len(heard) <= Len(told) /\ heard = SubSeq(told, 1, Len(heard))
    /\ phase = "heard" => heard = told /\ rest = <<>>

\* A datagram is read to its end only if it came whole, and if it came whole the
\* only reason to throw is that skip has more calls inside each other than it allows.
WholeOrThrown ==
    /\ phase = "heard" => ~cut
    /\ phase = "thrown" => cut \/ TooDeep
=============================================================================
