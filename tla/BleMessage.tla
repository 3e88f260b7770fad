------------------------------ MODULE BleMessage ------------------------------
(***************************************************************************)
(* The messages of the phone (src/aiTinkerCloud_SDK/protocol/              *)
(* aiio_ble_protocol.c) and the answers to them (aiio_ble_config.c).       *)
(*                                                                         *)
(* The phone cuts a message into packets; each goes through                *)
(* aiio_ParseBleProtocolData in the worker's thread, which keeps what it   *)
(* has collected in static variables.  A shard is the payload of a packet  *)
(* and fills one place of the buffer.  The phone may give a message up and *)
(* begin another, repeat a packet, leave and come back; a packet may be    *)
(* damaged or lost (the worker's queue is full).                           *)
(***************************************************************************)
EXTENDS Integers, Sequences

CONSTANTS
    Messages,       \* what the phone may send
    Form,           \* of a message: its shards, coding, content and version
    NoMessage,
    Frames,         \* frame numbers; NoFrame is one of them
    NoFrame,        \* 0xff, the value of last_frame before the first packet
    TypeErrLen,     \* PROTOCOL_ENTRYPT_UNKNOWN (0xff), taken for a length, in places
    PacketMax,      \* AIIO_BLE_PROTOCOL_PACKET_MAX_LEN (512)
    StatusLens,     \* bound: the lengths of a status, in bytes; the device's id fills it
    MaxLen,         \* bound: data_info_len only grows while messages are given up
    MemoryFails     \* an allocation may fail

Forms == [shards : Nat \ {0}, coding : {"none", "aes", "other"},
          content : {"good", "fieldless", "notjson"}, version : BOOLEAN]

ASSUME FormAssumption == Form \in [Messages -> Forms] /\ NoMessage \notin Messages
ASSUME FrameAssumption == NoFrame \in Frames
ASSUME LengthAssumption == TypeErrLen \in Nat \ {0} /\ MaxLen \in Nat
\* What the packet's length byte can say of a coded text: with more, it would wrap.
ASSUME StatusAssumption == StatusLens \subseteq 1..224 /\ PacketMax \in Nat /\ PacketMax > 255
ASSUME MemoryAssumption == MemoryFails \in BOOLEAN

VARIABLES
    last_frame, data_info, data_info_len, protocol_entrypt_type,
    event_key,                      \* protocol_event.entrypt_key, the message it is of
    entrypt_type, entrypt_key,      \* of aiio_ble_config.c, for the answers
    linked,                         \* ble_conn # NULL
    msg, next,                      \* the message under way and its next packet
    events,                         \* the callback's events for the last packet
    status,                         \* how the last result was told to the phone
    said,                           \* the text of the last message that was parsed
    fault,                          \* memory was misused: "no", "overrun" or "freed twice"
    gap,                            \* a packet of this message is missing or was repeated
    open,                           \* a message was begun and no result has come since
    rough                           \* this message began while another was open, or met an error

parser == <<last_frame, data_info, data_info_len, protocol_entrypt_type, event_key>>
answer == <<entrypt_type, entrypt_key, status>>
phone  == <<linked, msg, next, gap>>
vars == <<parser, answer, phone, events, said, fault, open, rough>>

Count(m) == Form[m].shards
Cell(m, i) == <<m, i>>
Hole == <<NoMessage, 0>>                \* zeros
NoBuffer == <<>>                        \* NULL
Whole(m) == [i \in 1..Count(m) |-> Cell(m, i)]

Init ==
    /\ last_frame = NoFrame /\ data_info = NoBuffer /\ data_info_len = 0
    /\ protocol_entrypt_type = "other" /\ event_key = NoMessage
    /\ entrypt_type = "other" /\ entrypt_key = NoMessage /\ status = "none"
    /\ linked = TRUE /\ msg = NoMessage /\ next = 0 /\ gap = FALSE
    /\ events = <<>> /\ said = <<>> /\ fault = "no"
    /\ open = FALSE /\ rough = FALSE

-----------------------------------------------------------------------------
(* Answers: the callback aiio_ble_data_parse.                              *)

\* aiio_PacketDivideProtocolData codes only under a key, and no coding it does not know.
Packs(type, key) == type = "none" \/ (type = "aes" /\ key # NoMessage)

\* aiio_PacketBleResponseDivideData: how a status may come out.
Packed(type, key) ==
    {IF ~Packs(type, key) THEN "untold" ELSE IF type = "none" THEN "clear" ELSE "coded"}
        \cup (IF MemoryFails THEN {"untold"} ELSE {})

\* The status is under the key of the last message that was parsed.
Tell(type, key) == status' \in IF linked THEN Packed(type, key) ELSE {"untold"}

TellFailure(type) ==
    /\ entrypt_type' = type /\ UNCHANGED entrypt_key
    /\ Tell(type, entrypt_key)

TellSuccess(type, key) ==
    /\ entrypt_type' = type
    /\ \/ entrypt_key' = IF type = "aes" THEN key ELSE entrypt_key
       \/ MemoryFails /\ type = "aes" /\ entrypt_key' = NoMessage
    /\ Tell(type, entrypt_key')

OnlyAck == UNCHANGED answer

(* The packet of an answer of n bytes, in a buffer of size bytes: eight    *)
(* bytes of head, the key, the text, which coding pads to blocks of        *)
(* sixteen bytes, and the CRC; its length fields are one and two bytes.    *)
Put(size, pos, n) == IF pos >= size THEN -1 ELSE IF n >= size - pos THEN size - pos ELSE n

Padded(n, type) == IF type = "aes" THEN ((n + 15) \div 16) * 16 ELSE n
KeyLen(type) == IF type = "aes" THEN 16 ELSE 0

CrcAfterText(type, len) == 8 + len              \* mutant
CrcAt(type, len) == 8 + KeyLen(type) + len

Pack(size, n, type) ==
    LET len  == Padded(n, type)
        body == Put(size, 8 + KeyLen(type), len)
    IN  IF body < 0 THEN [ret |-> -1, len |-> 0, total |-> 0, crc |-> 0]
        ELSE [ret |-> 8 + KeyLen(type) + body + 2, len |-> (4 + KeyLen(type) + len) % 256,
              total |-> len % 65536, crc |-> CrcAt(type, len)]

PackAck == [ret |-> 4 + 2, crc |-> 4]

\* aiio_GetProtocolData on a first packet of plen bytes whose length byte is len: how many
\* bytes of text it takes.
Took(plen, type, len) ==
    LET there == plen - 8 - KeyLen(type) - 2 IN IF len > there THEN there ELSE len

-----------------------------------------------------------------------------
(* aiio_ParseBleProtocolData                                               *)
KeepLength == UNCHANGED data_info_len           \* mutant
ResetLength == data_info_len' = 0

Destroy ==
    /\ last_frame' = NoFrame /\ data_info' = NoBuffer /\ ResetLength
    /\ protocol_entrypt_type' = "other" /\ event_key' = NoMessage

Over == open' = FALSE

\* The packet is refused with an error; what was collected is forgotten.
Refuse(evs) ==
    /\ Destroy /\ OnlyAck /\ Over
    /\ events' = evs /\ rough' = TRUE
    /\ UNCHANGED <<said, fault>>

\* The text that is parsed: clear text ends at the first hole, coded text at its length.
Text(buf, len, coding) ==
    LET ends == {i \in 1..Len(buf) : buf[i] = Hole}
    IN  IF coding = "none" /\ ends # {}
          THEN SubSeq(buf, 1, (CHOOSE i \in ends : \A j \in ends : i <= j) - 1)
          ELSE SubSeq(buf, 1, IF coding = "none" \/ len > Len(buf) THEN Len(buf) ELSE len)

\* aiio_JsonProcotolDataParse may end with the fields ("good"), without a structure
\* ("notjson"), or with a structure that it has freed ("fieldless").  A text that is not
\* whole may be JSON when what is missing belongs to one string.
Contents(t) ==
    LET whole == {m \in Messages : t = Whole(m)}
        ends  == t # <<>> /\ t[1][2] = 1 /\ t[Len(t)][1] \in Messages
                 /\ t[Len(t)][2] = Count(t[Len(t)][1])
    IN  IF whole # {} THEN {Form[m].content : m \in whole}
        ELSE IF ends THEN {"good", "fieldless", "notjson"} ELSE {"notjson"}

Starved == IF MemoryFails THEN {"fieldless", "notjson"} ELSE {}

\* The message is complete: the text is parsed, told, and everything is freed.
Finish(buf, len, type, key) ==
    LET t == Text(buf, len, type)
    IN  /\ Destroy /\ Over
        /\ \/ /\ type = "other" /\ events' = <<"OK", "TYPE_UNKNOWN">> /\ OnlyAck
              /\ UNCHANGED <<said, fault, rough>>
           \/ /\ type # "other" /\ "good" \in Contents(t)
              /\ events' = <<"OK", "PARSE_OK">> /\ said' = t
              /\ TellSuccess(type, key)
              /\ UNCHANGED <<fault, rough>>
           \/ \E c \in {"fieldless", "notjson"} :
                /\ type # "other" /\ c \in Contents(t) \cup Starved
                /\ events' = <<"OK", "PARSE_FAIL">>
                /\ TellFailure(type)
                /\ fault' = IF c = "fieldless" THEN "freed twice" ELSE fault
                /\ rough' = (rough \/ c \notin Contents(t))
                /\ UNCHANGED said

Allocate(m) == [i \in 1..Count(m) |-> IF i = 1 /\ Form[m].coding # "other" THEN Cell(m, 1) ELSE Hole]

\* The key of a message that was given up is overwritten.
KeyOf(m) == IF Form[m].coding = "aes" THEN m ELSE event_key

StartLen(m) == IF Form[m].coding = "other" THEN TypeErrLen ELSE 1

First(m, f) ==
    \/ ~Form[m].version /\ Refuse(<<"OK", "VER_ERR">>)
    \/ MemoryFails /\ Form[m].version /\ Refuse(<<"OK", "HARD_ERR">>)
    \/ /\ Form[m].version
       /\ last_frame' = f /\ data_info' = Allocate(m)
       /\ data_info_len' = data_info_len + StartLen(m)
       /\ protocol_entrypt_type' = Form[m].coding
       /\ event_key' = KeyOf(m)
       /\ events' = <<"OK">> /\ open' = TRUE /\ rough' = open
       /\ OnlyAck /\ UNCHANGED <<said, fault>>

\* A single packet: a wrong version is told without forgetting what was collected, only
\* the buffer is freed.
Single(m, f) ==
    \/ /\ ~Form[m].version
       /\ last_frame' = f /\ data_info' = NoBuffer
       /\ events' = <<"OK", "VER_ERR">> /\ rough' = TRUE
       /\ OnlyAck /\ UNCHANGED <<data_info_len, protocol_entrypt_type, event_key, said, fault, open>>
    \/ MemoryFails /\ Form[m].version /\ Refuse(<<"OK", "HARD_ERR">>)
    \/ /\ Form[m].version
       /\ Finish(Allocate(m), 1, Form[m].coding, KeyOf(m))

StayThere(n) == n               \* mutant
Advance(n) == n + 1

IsLast(m, i) == i = Count(m)

Fits(n) == n < Len(data_info)

Later(m, i, f) ==
    \/ data_info = NoBuffer /\ Refuse(<<"OK", "HARD_ERR">>)
    \/ /\ data_info # NoBuffer /\ ~Fits(data_info_len)
       /\ fault' = "overrun" /\ events' = <<"OK">>
       /\ last_frame' = f /\ OnlyAck
       /\ UNCHANGED <<data_info, data_info_len, protocol_entrypt_type, event_key, said, open, rough>>
    \/ LET buf == [data_info EXCEPT ![data_info_len + 1] = Cell(m, i)]
           len == Advance(data_info_len)
       IN  /\ data_info # NoBuffer /\ Fits(data_info_len)
           /\ IF IsLast(m, i)
                THEN Finish(buf, len, protocol_entrypt_type, event_key)
                ELSE /\ last_frame' = f /\ data_info' = buf /\ data_info_len' = len
                     /\ events' = <<"OK">>
                     /\ OnlyAck
                     /\ UNCHANGED <<protocol_entrypt_type, event_key, said, fault, open, rough>>

\* A packet that arrives as it was sent.
Parse(m, i, f) ==
    IF f = last_frame THEN Refuse(<<"FRAME_ERR">>)
    ELSE IF Count(m) = 1 THEN Single(m, f)
    ELSE IF i = 1 THEN First(m, f) ELSE Later(m, i, f)

Damaged == \E e \in {"CRC_ERR", "PROTOCOL_ERR"} : Refuse(<<e>>)

-----------------------------------------------------------------------------
(* The phone and the link.                                                 *)

\* The phone begins a message, goes on with it, or repeats the packet before.
Sends(m, i) ==
    \/ i = 1 /\ msg' = m /\ next' = 2 /\ gap' = FALSE
    \/ /\ m = msg /\ i = next /\ i \in 2..Count(m)
       /\ next' = next + 1 /\ UNCHANGED <<msg, gap>>
    \/ /\ m = msg /\ i = next - 1 /\ i >= 1
       /\ gap' = TRUE /\ UNCHANGED <<msg, next>>

Arrive == \E m \in Messages : \E i \in 1..Count(m), f \in Frames :
    /\ fault = "no" /\ (i = 1 => data_info_len <= MaxLen)
    /\ Sends(m, i) /\ Parse(m, i, f) /\ UNCHANGED linked

ArriveDamaged ==
    /\ fault = "no" /\ Damaged
    /\ gap' = TRUE /\ UNCHANGED <<linked, msg, next>>

Lose ==
    /\ fault = "no" /\ msg # NoMessage /\ next <= Count(msg)
    /\ next' = next + 1 /\ gap' = TRUE
    /\ UNCHANGED <<parser, answer, linked, msg, events, said, fault, open, rough>>

\* The phone comes or leaves; what it sent before is still handled.
Link ==
    /\ fault = "no" /\ linked' = ~linked
    /\ UNCHANGED <<parser, answer, msg, next, gap, events, said, fault, open, rough>>

\* aiio_ble_iot_destroy: the key is freed, what the parser has collected is not.
BleStops ==
    /\ fault = "no" /\ entrypt_key # NoMessage /\ entrypt_key' = NoMessage
    /\ UNCHANGED <<parser, entrypt_type, status, phone, events, said, fault, open, rough>>

Next == Arrive \/ ArriveDamaged \/ Lose \/ Link \/ BleStops

Spec == Init /\ [][Next]_vars

-----------------------------------------------------------------------------
Last(s) == s[Len(s)]
Parsed == events # <<>> /\ Last(events) = "PARSE_OK"

\* The device takes a message only as the phone sent it: when every packet of it arrived
\* once, whatever the phone had begun and given up before, no shard of another message
\* and no hole is in the text that is parsed.
DeliversWhatWasSent == Parsed /\ ~gap => said = Whole(msg)

\* A message that is sent whole is understood, whatever results, errors and departures
\* came before it: nothing of a message that has ended is left in the parser.
\* (Begun in the middle of another message, or out of memory, it may not be.)
WholeIsParsed ==
    msg # NoMessage /\ next > Count(msg) /\ ~gap /\ ~rough
      /\ Form[msg].content = "good" /\ Form[msg].coding # "other" /\ Form[msg].version
      => Parsed

\* An answer is a packet that this protocol's own parser accepts: its CRC is in the last two
\* bytes, and the text that was packed is the text that is taken from it.
AnswersReadBack ==
    /\ status \in {"clear", "coded"} => \A n \in StatusLens :
         LET type == IF status = "coded" THEN "aes" ELSE "none"
             p    == Pack(PacketMax, n, type)
         IN  /\ p.ret > 0 /\ p.crc = p.ret - 2
             /\ p.total = Padded(n, type) /\ Took(p.ret, type, p.len) = p.total
    /\ events # <<>> => PackAck.crc = PackAck.ret - 2
=============================================================================
