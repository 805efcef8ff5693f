------------------------------- MODULE DBusWire -------------------------------
(***************************************************************************)
(* The encoding of D-Bus messages (kdeaichat/minidbus.py).  A signature is *)
(* the sequence of its characters, a text the sequence of its characters'  *)
(* numbers, and a number of k bytes a cell that holds it and k - 1 zeros.  *)
(* A message is read from the cells of those that have arrived.            *)
(***************************************************************************)
EXTENDS Integers, FiniteSets, Sequences, SequencesExt, TLC

\* "h", a file descriptor, is a type of D-Bus this module does not read.
Letters == <<"y", "b", "n", "q", "i", "u", "x", "t", "d", "s", "o", "g", "v", "a", "(", ")", "{", "}", "h">>

_FIXED == [y |-> 1, b |-> 4, n |-> 2, q |-> 2, i |-> 4, u |-> 4, x |-> 8, t |-> 8, d |-> 8]

Opening == {"(", "{"}
Closing == {")", "}"}

Inside(sig) == SubSeq(sig, 2, Len(sig) - 1)

-----------------------------------------------------------------------------
(* Signatures.                                                             *)

\* The brackets that are open after the first j characters.
Depth(sig, j) ==
    Cardinality({i \in 1 .. j : sig[i] \in Opening}) - Cardinality({i \in 1 .. j : sig[i] \in Closing})

\* Where the types of a signature start: outside brackets, and not after the "a" of an array.
Starts(sig) == {i \in 1 .. Len(sig) : Depth(sig, i - 1) = 0 /\ (i > 1 => sig[i - 1] # "a")}

\* _end_of_type raises no error.
Supported(sig) ==
    /\ sig # <<>> => sig[Len(sig)] # "a"
    /\ \A i \in 1 .. Len(sig) : sig[i] # "h" /\ Depth(sig, i) >= 0
    /\ Depth(sig, Len(sig)) = 0

split_signature[sig \in Seq(STRING)] ==
    LET starts == SetToSortSeq(Starts(sig), <) IN
    [k \in 1 .. Len(starts) |-> SubSeq(sig, starts[k], IF k = Len(starts) THEN Len(sig) ELSE starts[k + 1] - 1)]

_align(n, a) == ((n + a - 1) \div a) * a

_alignment(t) ==
    IF t[1] \in DOMAIN _FIXED THEN _FIXED[t[1]]
    ELSE IF t[1] \in {"s", "o", "a"} THEN 4
    ELSE IF t[1] \in Opening THEN 8 ELSE 1

-----------------------------------------------------------------------------
(* Writer: the cells that a value adds after the first n.                  *)

Zeros(k) == [i \in 1 .. k |-> 0]
PadTo(n, a) == Zeros(_align(n, a) - n)
Number(v, k) == <<v>> \o Zeros(k - 1)
Code(c) == CHOOSE i \in 1 .. Len(Letters) : Letters[i] = c

\* What an array's length counts: its values, not the padding before the first.
ArrayLength(start, end) == end - start

TypesIn(t, v) ==
    IF t[1] = "v" THEN << <<"g">>, v.sig>>
    ELSE IF t[1] = "a" THEN [i \in 1 .. Len(v) |-> Tail(t)] ELSE split_signature[Inside(t)]

\* Where the first value of a compound starts.
StartOf(t, n) ==
    IF t[1] = "v" THEN n ELSE IF t[1] = "a" THEN _align(_align(n, 4) + 4, _alignment(Tail(t))) ELSE _align(n, 8)

PutBasic(c, v, n) ==
    IF c \in DOMAIN _FIXED THEN PadTo(n, _FIXED[c]) \o Number(v, _FIXED[c])
    ELSE IF c = "g" THEN <<Len(v)>> \o [i \in 1 .. Len(v) |-> Code(v[i])] \o <<0>>
    ELSE PadTo(n, 4) \o Number(Len(v), 4) \o v \o <<0>>

\* What comes before a compound's values: the padding, and the length of an array.
PutHead(t, cells, n) ==
    IF t[1] = "a"
    THEN PadTo(n, 4) \o Number(ArrayLength(StartOf(t, n), StartOf(t, n) + Len(cells)), 4) \o Zeros(StartOf(t, n) - _align(n, 4) - 4)
    ELSE Zeros(StartOf(t, n) - n)

\* Structures and dictionary entries are tuples of as many values as types.
RECURSIVE put(_, _, _)
put(t, v, n) ==
    LET Then(cells, i) == cells \o put(TypesIn(t, v)[i], IF t[1] = "v" /\ i = 1 THEN v.sig ELSE IF t[1] = "v" THEN v.value ELSE v[i],
                                        StartOf(t, n) + Len(cells))
        parts == IF t[1] = "a" THEN Len(v) ELSE Len(TypesIn(t, v))
    IN IF t[1] \in DOMAIN _FIXED \cup {"s", "o", "g"} THEN PutBasic(t[1], v, n)
       ELSE CHOOSE whole \in {PutHead(t, cells, n) \o cells : cells \in {FoldLeft(Then, <<>>, [i \in 1 .. parts |-> i])}} : TRUE

marshal(sig, values) == put(<<"(">> \o sig \o <<")">>, values, 0)

-----------------------------------------------------------------------------
(* Reader: the value after the first n cells, and how many are read then.  *)
(* What cannot be read is Malformed, never an error of another kind.       *)

Malformed == [ok |-> FALSE, value |-> <<>>, pos |-> 0]
Read(v, n) == [ok |-> TRUE, value |-> v, pos |-> n]

take(data, n, k) == IF n + k > Len(data) THEN Malformed ELSE Read(SubSeq(data, n + 1, n + k), n + k)

GetText[data \in Seq(Int), n \in Nat] ==
    LET len == take(data, _align(n, 4), 4)
        text == take(data, len.pos, len.value[1] + 1)
    IN IF len.ok /\ text.ok THEN Read(Front(text.value), text.pos) ELSE Malformed

GetSignature[data \in Seq(Int), n \in Nat] ==
    LET len == take(data, n, 1)
        text == take(data, len.pos, len.value[1] + 1)
    IN IF len.ok /\ text.ok /\ \A i \in 1 .. len.value[1] : text.value[i] \in 1 .. Len(Letters)
       THEN Read([i \in 1 .. len.value[1] |-> Letters[text.value[i]]], text.pos)
       ELSE Malformed

GetNumber(t, data, n) ==
    LET number == take(data, _align(n, _FIXED[t[1]]), _FIXED[t[1]]) IN
    IF number.ok THEN Read(number.value[1], number.pos) ELSE Malformed

\* The values a compound has: their types, where the first starts, and where an array's last one ends.
PartsOf[t \in Seq(STRING), data \in Seq(Int), n \in Nat] ==
    IF t[1] = "v"
    THEN LET sig == GetSignature[data, n] IN
         IF sig.ok /\ sig.value # <<>> /\ Supported(sig.value)
         THEN [ok |-> TRUE, types |-> split_signature[sig.value], start |-> sig.pos, end |-> Len(data) + 1] ELSE Malformed
    ELSE IF t[1] = "a"
    THEN LET len == take(data, _align(n, 4), 4)
             start == _align(len.pos, _alignment(Tail(t)))
         IN IF len.ok THEN [ok |-> TRUE, types |-> [i \in 1 .. len.value[1] \div _alignment(Tail(t)) + 1 |-> Tail(t)], start |-> start, end |-> start + len.value[1]]
            ELSE Malformed
    ELSE [ok |-> TRUE, types |-> split_signature[Inside(t)], start |-> _align(n, 8), end |-> Len(data) + 1]

Shaped(t, parts, read) ==
    IF t[1] = "v" /\ read.ok
    THEN Read([sig |-> parts.types[1], value |-> read.value[1]], read.pos)
    ELSE read

get[t \in Seq(STRING), data \in Seq(Int), n \in Nat] ==
    IF t[1] \in DOMAIN _FIXED THEN GetNumber(t, data, n)
    ELSE IF t[1] \in {"s", "o"} THEN GetText[data, n]
    ELSE IF t[1] = "g" THEN GetSignature[data, n]
    ELSE LET parts == PartsOf[t, data, n]
             Add(read, part) == IF part.ok THEN Read(Append(read.value, part.value), part.pos) ELSE Malformed
             Then(read, type) == IF read.ok /\ read.pos < parts.end THEN Add(read, get[type, data, read.pos]) ELSE read
         IN IF parts.ok THEN Shaped(t, parts, FoldLeft(Then, Read(<<>>, parts.start), parts.types)) ELSE Malformed

-----------------------------------------------------------------------------
(* Messages: the fixed part, the header's fields, and the body from the    *)
(* next multiple of 8.                                                     *)

METHOD_CALL == 1
METHOD_RETURN == 2
ERROR == 3
SIGNAL == 4
PATH == 1
INTERFACE == 2
MEMBER == 3
ERROR_NAME == 4
REPLY_SERIAL == 5
SENDER == 7
SIGNATURE == 8

Fields == <<"a", "(", "y", "v", ")">>
LittleEndian == 108

TypeOfField(code) == <<IF code = PATH THEN "o" ELSE IF code = REPLY_SERIAL THEN "u" ELSE IF code = SIGNATURE THEN "g" ELSE "s">>

Entries(fields) ==
    LET codes == SetToSortSeq(DOMAIN fields, <) IN
    [i \in 1 .. Len(codes) |-> <<codes[i], [sig |-> TypeOfField(codes[i]), value |-> fields[codes[i]]]>>]

\* The fixed part says how long the body is; the fields follow it.
Head_of(m, body, fields) ==
    <<LittleEndian, m.type, m.flags, 1>> \o Number(Len(body), 4) \o Number(m.serial, 4) \o fields

encode(m) ==
    LET fields == m.fields @@ (IF m.sig = <<>> THEN << >> ELSE SIGNATURE :> m.sig)
        Joined(head, body) == head \o PadTo(Len(head), 8) \o body
    IN CHOOSE cells \in {Joined(Head_of(m, body, put(Fields, entries, 12)), body) :
                            body \in {marshal(m.sig, m.body)}, entries \in {Entries(fields)}} : TRUE

NoMessage == [type |-> 0]

FieldsOf(header) ==
    [c \in {header.value[i][1] : i \in 1 .. Len(header.value)} |->
        header.value[CHOOSE i \in 1 .. Len(header.value) : header.value[i][1] = c][2].value]

\* The body, of the types that the header's signature says.
GetBody(data, sig, n) ==
    IF sig = <<>> \/ data[5] = 0 THEN Read(<<>>, n)
    ELSE IF Supported(sig) THEN get[<<"(">> \o sig \o <<")">>, data, n] ELSE Malformed

WithBody(data, fields, sig, n) ==
    LET Made(body) == IF body.ok THEN [type |-> data[2], flags |-> data[3], serial |-> data[9],
                                       fields |-> fields, sig |-> sig, body |-> body.value] ELSE NoMessage
    IN CHOOSE m \in {Made(body) : body \in {GetBody(data, sig, n)}} : TRUE

WithFields(data, header) ==
    IF header.ok
    THEN CHOOSE m \in {WithBody(data, fields, IF SIGNATURE \in DOMAIN fields THEN fields[SIGNATURE] ELSE <<>>, header.pos) :
                       fields \in {FieldsOf(header)}} : TRUE
    ELSE NoMessage

\* decode: of at least the 16 cells that _read_wire waits for.
decode[data \in Seq(Int)] ==
    IF data[1] = LittleEndian
    THEN CHOOSE m \in {WithFields(data, header) : header \in {get[Fields, data, 12]}} : TRUE
    ELSE NoMessage

\* _read_wire: how long the message is that a buffer of at least 16 cells starts with.
Total(buf) == _align(16 + buf[13], 8) + buf[5]

=============================================================================
