--------------------------- MODULE BleMessageProofs ---------------------------
(***************************************************************************)
(* Theorems about BleMessage, for any messages of any number of packets:   *)
(* what is delivered is what was sent, and what is sent is delivered.      *)
(***************************************************************************)
EXTENDS BleMessage, SequenceTheorems, TLAPS

-----------------------------------------------------------------------------
(* Messages and texts.                                                     *)
Shards == (Messages \cup {NoMessage}) \X Nat

LEMMA FormTyped ==
    ASSUME NEW m \in Messages
    PROVE  /\ Count(m) \in Nat /\ Count(m) >= 1
           /\ Form[m].coding \in {"none", "aes", "other"}
           /\ Form[m].content \in {"good", "fieldless", "notjson"}
           /\ Form[m].version \in BOOLEAN
BY FormAssumption DEF Forms, Count

LEMMA CellTyped == \A m \in Messages, i \in Nat : Cell(m, i) \in Shards /\ Cell(m, i) # Hole
BY FormAssumption DEF Cell, Hole, Shards

LEMMA WholeTyped ==
    ASSUME NEW m \in Messages
    PROVE  /\ Whole(m) \in Seq(Shards) /\ Len(Whole(m)) = Count(m)
           /\ \A i \in 1 .. Count(m) : Whole(m)[i] = Cell(m, i)
<1>1. Count(m) \in Nat
  BY FormTyped
<1>2. \A i \in 1 .. Count(m) : Cell(m, i) \in Shards
  BY <1>1, CellTyped
<1> QED
  BY <1>1, <1>2 DEF Whole

\* A whole message is read to its end, in clear or coded.
LEMMA TextOfWhole ==
    ASSUME NEW m \in Messages, NEW coding \in {"none", "aes"}
    PROVE  Text(Whole(m), Count(m), coding) = Whole(m)
<1> DEFINE ends == {i \in 1 .. Len(Whole(m)) : Whole(m)[i] = Hole}
<1>1. ends = {}
  <2> SUFFICES ASSUME NEW i \in ends PROVE FALSE
    OBVIOUS
  <2>1. Count(m) \in Nat
    BY FormTyped
  <2>2. i \in 1 .. Count(m) /\ Whole(m)[i] = Hole
    BY WholeTyped
  <2>3. Cell(m, i) # Hole
    BY <2>1, <2>2, CellTyped
  <2> QED
    BY <2>2, <2>3, WholeTyped
<1>2. SubSeq(Whole(m), 1, Len(Whole(m))) = Whole(m)
  BY WholeTyped, SubSeqFull
<1>3. Text(Whole(m), Count(m), coding)
        = SubSeq(Whole(m), 1, IF coding = "none" \/ Count(m) > Len(Whole(m))
                              THEN Len(Whole(m)) ELSE Count(m))
  BY <1>1 DEF Text
<1>4. Count(m) = Len(Whole(m))
  BY WholeTyped
<1> QED
  BY <1>2, <1>3, <1>4

\* No two messages are one text: a text that is whole has one content.
LEMMA ContentOfWhole ==
    ASSUME NEW m \in Messages
    PROVE  Contents(Whole(m)) = {Form[m].content}
<1>1. \A n \in Messages : Whole(m) = Whole(n) => n = m
  <2> SUFFICES ASSUME NEW n \in Messages, Whole(m) = Whole(n) PROVE n = m
    OBVIOUS
  <2>1. Whole(m)[1] = Cell(m, 1) /\ Whole(n)[1] = Cell(n, 1)
    <3>1. 1 \in 1 .. Count(m) /\ 1 \in 1 .. Count(n)
      BY FormTyped
    <3> QED
      BY <3>1, WholeTyped
  <2> QED
    BY <2>1 DEF Cell
<1>2. {n \in Messages : Whole(m) = Whole(n)} = {m}
  BY <1>1
<1> QED
  BY <1>2 DEF Contents

\* What a whole message ends with: it is parsed as it was sent; if it can be parsed it is,
\* unless memory failed.
LEMMA FinishWhole ==
    ASSUME NEW m \in Messages, NEW key, Form[m].coding # "other",
           Finish(Whole(m), Count(m), Form[m].coding, key)
    PROVE  /\ Parsed' => said' = Whole(m)
           /\ Form[m].content = "good" => Parsed' \/ rough'
<1>1. Form[m].coding \in {"none", "aes"}
  BY FormTyped
<1>2. Text(Whole(m), Count(m), Form[m].coding) = Whole(m)
  BY <1>1, TextOfWhole
<1>3. Contents(Whole(m)) = {Form[m].content}
  BY ContentOfWhole
<1>4. \/ events' = <<"OK", "PARSE_OK">> /\ said' = Whole(m)
      \/ \E c \in {"fieldless", "notjson"} :
            /\ events' = <<"OK", "PARSE_FAIL">>
            /\ rough' = (rough \/ c \notin Contents(Whole(m)))
  BY <1>2 DEF Finish
<1>5. CASE events' = <<"OK", "PARSE_OK">> /\ said' = Whole(m)
  BY <1>5 DEF Parsed, Last
<1>6. ASSUME NEW c \in {"fieldless", "notjson"}, events' = <<"OK", "PARSE_FAIL">>,
             rough' = (rough \/ c \notin Contents(Whole(m)))
      PROVE  ~Parsed' /\ (Form[m].content = "good" => rough')
  <2>1. ~Parsed'
    BY <1>6 DEF Parsed, Last
  <2> QED
    BY <1>3, <1>6, <2>1
<1> QED
  BY <1>4, <1>5, <1>6

-----------------------------------------------------------------------------
(* The parser.                                                             *)
Typed ==
    /\ data_info \in Seq(Shards) /\ data_info_len \in Nat
    /\ msg \in Messages \cup {NoMessage} /\ next \in Nat
    /\ gap \in BOOLEAN /\ open \in BOOLEAN /\ rough \in BOOLEAN

\* When every packet of the message under way arrived once, its buffer is in use, no
\* shard has a place before its own, and where the places are its own so are the shards.
Collected ==
    ~gap /\ data_info # NoBuffer /\ fault = "no" =>
        /\ msg \in Messages /\ next >= 2 /\ Len(data_info) = Count(msg)
        /\ protocol_entrypt_type = Form[msg].coding
        /\ data_info_len >= next - 1
        /\ data_info_len = next - 1 /\ Form[msg].coding # "other" =>
               \A i \in 1 .. next - 1 : data_info[i] = Cell(msg, i)

\* A message that began after the end of the one before is in its own places.
Understandable(m) ==
    m \in Messages /\ Form[m].coding # "other" /\ Form[m].version /\ Form[m].content = "good"
Clean ==
    /\ ~open => data_info = NoBuffer /\ data_info_len = 0
    /\ ~rough /\ ~gap /\ Understandable(msg) =>
           /\ next >= 2
           /\ next <= Count(msg) => data_info # NoBuffer /\ data_info_len = next - 1
           /\ next > Count(msg) => Parsed

ParserInv == Typed /\ Collected /\ Clean /\ DeliversWhatWasSent

LEMMA ParserInit == Init => ParserInv
<1> SUFFICES ASSUME Init PROVE ParserInv
  OBVIOUS
<1>1. Typed
  <2>1. <<>> \in Seq(Shards) /\ 0 \in Nat
    OBVIOUS
  <2> QED
    BY <2>1 DEF Init, Typed, NoBuffer
<1>2. ~Parsed /\ data_info = NoBuffer /\ data_info_len = 0 /\ msg = NoMessage
  BY DEF Init, Parsed
<1>3. ~Understandable(msg)
  BY <1>2, FormAssumption DEF Understandable
<1> QED
  BY <1>1, <1>2, <1>3 DEF ParserInv, Collected, Clean, DeliversWhatWasSent

\* A refused packet leaves an empty parser.
LEMMA RefuseKeeps ==
    ASSUME NEW evs \in {<<"OK", "VER_ERR">>, <<"OK", "HARD_ERR">>, <<"FRAME_ERR">>,
                        <<"CRC_ERR">>, <<"PROTOCOL_ERR">>},
           Refuse(evs),
           msg' \in Messages \cup {NoMessage}, next' \in Nat, gap' \in BOOLEAN
    PROVE  ParserInv'
<1>1. data_info' = NoBuffer /\ data_info_len' = 0 /\ open' = FALSE /\ rough' = TRUE
  BY DEF Refuse, Destroy, ResetLength, Over
<1>2. ~Parsed'
  <2>1. events' = evs
    BY DEF Refuse
  <2> QED
    BY <2>1 DEF Parsed, Last
<1>3. <<>> \in Seq(Shards)
  OBVIOUS
<1> QED
  BY <1>1, <1>2, <1>3 DEF ParserInv, Typed, Collected, Clean, DeliversWhatWasSent, NoBuffer

\* So does the end of a message.
LEMMA FinishEmpties ==
    ASSUME NEW buf, NEW len, NEW type, NEW key, Finish(buf, len, type, key), rough \in BOOLEAN
    PROVE  /\ data_info' = NoBuffer /\ data_info_len' = 0 /\ open' = FALSE /\ rough' \in BOOLEAN
           /\ type = "other" => ~Parsed'
<1>1. data_info' = NoBuffer /\ data_info_len' = 0 /\ open' = FALSE
  BY DEF Finish, Destroy, ResetLength, Over
<1>2. rough' \in BOOLEAN
  BY DEF Finish
<1>3. type = "other" => ~Parsed'
  BY DEF Finish, Parsed, Last
<1> QED
  BY <1>1, <1>2, <1>3

LEMMA FinishKeeps ==
    ASSUME Typed, NEW m \in Messages, NEW buf, NEW len, NEW key, NEW type,
           Finish(buf, len, type, key),
           msg' = m, next' \in Nat, gap' \in BOOLEAN,
           ~gap' => /\ type = Form[m].coding /\ next' = Count(m) + 1
                    /\ Form[m].coding # "other" => buf = Whole(m) /\ len = Count(m)
    PROVE  ParserInv'
<1>1. /\ data_info' = NoBuffer /\ data_info_len' = 0 /\ open' = FALSE /\ rough' \in BOOLEAN
      /\ type = "other" => ~Parsed'
  BY FinishEmpties DEF Typed
<1>2. <<>> \in Seq(Shards)
  OBVIOUS
<1>3. Typed' /\ Collected'
  BY <1>1, <1>2 DEF Typed, Collected, NoBuffer
<1>4. CASE gap'
  BY <1>1, <1>3, <1>4 DEF ParserInv, Clean, DeliversWhatWasSent
<1>5. CASE ~gap' /\ Form[m].coding = "other"
  BY <1>1, <1>3, <1>5 DEF ParserInv, Clean, DeliversWhatWasSent, Understandable
<1>6. CASE ~gap' /\ Form[m].coding # "other"
  <2>1. /\ Parsed' => said' = Whole(m)
        /\ Form[m].content = "good" => Parsed' \/ rough'
    BY <1>6, FinishWhole
  <2>2. Count(m) \in Nat /\ Count(m) >= 1 /\ next' = Count(m) + 1
    BY <1>6, FormTyped
  <2>3. ~rough' /\ Understandable(m) => Parsed'
    BY <2>1 DEF Understandable
  <2>4. Clean'
    BY <1>1, <2>2, <2>3 DEF Clean, Understandable
  <2> QED
    BY <1>3, <2>1, <2>4 DEF ParserInv, DeliversWhatWasSent
<1> QED
  BY <1>4, <1>5, <1>6

LEMMA AllocateTyped ==
    ASSUME NEW m \in Messages
    PROVE  /\ Allocate(m) \in Seq(Shards) /\ Len(Allocate(m)) = Count(m)
           /\ Form[m].coding # "other" => Allocate(m)[1] = Cell(m, 1)
<1>1. Count(m) \in Nat /\ Count(m) >= 1
  BY FormTyped
<1>2. Cell(m, 1) \in Shards /\ Hole \in Shards
  BY DEF Cell, Hole, Shards
<1> QED
  BY <1>1, <1>2 DEF Allocate

\* The first of several packets.
LEMMA FirstKeeps ==
    ASSUME ParserInv, NEW m \in Messages, NEW f, Count(m) # 1, First(m, f), fault = "no",
           msg' = m, next' = 2, gap' \in BOOLEAN
    PROVE  ParserInv'
<1>1. CASE Refuse(<<"OK", "VER_ERR">>) \/ Refuse(<<"OK", "HARD_ERR">>)
  BY <1>1, RefuseKeeps
<1>2. CASE /\ Form[m].version
           /\ last_frame' = f /\ data_info' = Allocate(m)
           /\ data_info_len' = data_info_len + StartLen(m)
           /\ protocol_entrypt_type' = Form[m].coding
           /\ events' = <<"OK">> /\ open' = TRUE /\ rough' = open
           /\ UNCHANGED <<said, fault>>
  <2>1. Count(m) \in Nat /\ Count(m) >= 2
    BY FormTyped
  <2>2. StartLen(m) \in Nat /\ StartLen(m) >= 1 /\ (Form[m].coding # "other" => StartLen(m) = 1)
    BY LengthAssumption DEF StartLen
  <2>5. data_info_len' >= 1 /\ data_info_len' \in Nat
    BY <1>2, <2>2 DEF ParserInv, Typed
  <2>3. Typed'
    <3>1. data_info' \in Seq(Shards)
      BY <1>2, AllocateTyped
    <3>2. open' \in BOOLEAN /\ rough' \in BOOLEAN /\ gap' \in BOOLEAN
      BY <1>2 DEF ParserInv, Typed
    <3> QED
      BY <2>5, <3>1, <3>2 DEF Typed
  <2>4. ~Parsed'
    BY <1>2 DEF Parsed, Last
  <2>6. Collected'
    <3>1. Len(data_info') = Count(m) /\ (Form[m].coding # "other" => data_info'[1] = Cell(m, 1))
      BY <1>2, AllocateTyped
    <3>2. \A i \in 1 .. next' - 1 : i = 1
      OBVIOUS
    <3> QED
      BY <1>2, <2>5, <3>1, <3>2 DEF Collected
  <2>7. Clean'
    <3>1. data_info' # NoBuffer
      BY <1>2, <2>1, AllocateTyped DEF NoBuffer
    <3>2. ~rough' => data_info_len = 0
      BY <1>2 DEF ParserInv, Clean
    <3>3. ~rough' /\ Understandable(m) => data_info_len' = 1
      BY <1>2, <2>2, <3>2 DEF Understandable
    <3> QED
      BY <1>2, <2>1, <3>1, <3>3 DEF Clean
  <2> QED
    BY <2>3, <2>4, <2>6, <2>7 DEF ParserInv, DeliversWhatWasSent
<1> QED
  BY <1>1, <1>2 DEF First

\* The only packet.
LEMMA SingleKeeps ==
    ASSUME ParserInv, NEW m \in Messages, NEW f, Count(m) = 1, Single(m, f),
           msg' = m, next' = 2, gap' \in BOOLEAN
    PROVE  ParserInv'
<1>1. CASE /\ ~Form[m].version
           /\ data_info' = NoBuffer /\ events' = <<"OK", "VER_ERR">> /\ rough' = TRUE
           /\ UNCHANGED <<data_info_len, open>>
  <2>1. ~Parsed'
    BY <1>1 DEF Parsed, Last
  <2>2. <<>> \in Seq(Shards)
    OBVIOUS
  <2> QED
    BY <1>1, <2>1, <2>2 DEF ParserInv, Typed, Collected, Clean, DeliversWhatWasSent, NoBuffer
<1>2. CASE Refuse(<<"OK", "HARD_ERR">>)
  BY <1>2, RefuseKeeps
<1>3. CASE Finish(Allocate(m), 1, Form[m].coding, KeyOf(m))
  <2>1. Form[m].coding # "other" => Allocate(m) = Whole(m)
    BY DEF Allocate, Whole
  <2>2. next' = Count(m) + 1 /\ next' \in Nat
    OBVIOUS
  <2>3. gap' \in BOOLEAN /\ Typed
    BY DEF ParserInv
  <2>4. ~gap' => /\ Form[m].coding = Form[m].coding /\ next' = Count(m) + 1
                 /\ Form[m].coding # "other" => Allocate(m) = Whole(m) /\ 1 = Count(m)
    BY <2>1, <2>2
  <2> QED
    BY <1>3, <2>2, <2>3, <2>4, FinishKeeps
<1> QED
  BY <1>1, <1>2, <1>3 DEF Single

\* Any later one: the next of the message, or one that came before.
LEMMA LaterKeeps ==
    ASSUME ParserInv, NEW m \in Messages, NEW i \in 1 .. Count(m), NEW f, Later(m, i, f),
           fault = "no", m = msg, i >= 2,
           msg' = m, next' \in Nat, gap' \in BOOLEAN,
           ~gap' => ~gap /\ i = next /\ next' = next + 1
    PROVE  ParserInv'
<1>0. Count(m) \in Nat /\ i \in Nat /\ i <= Count(m)
  BY FormTyped
<1>1. CASE Refuse(<<"OK", "HARD_ERR">>)
  BY <1>1, RefuseKeeps
<1>2. CASE /\ data_info # NoBuffer /\ ~Fits(data_info_len)
           /\ fault' = "overrun" /\ events' = <<"OK">>
           /\ UNCHANGED <<data_info, data_info_len, open, rough>>
  <2>1. ~Parsed'
    BY <1>2 DEF Parsed, Last
  <2>2. ~gap' => data_info_len >= Count(m) /\ data_info_len \in Nat
    BY <1>2 DEF ParserInv, Typed, Collected, Fits
  <2>3. ~rough' /\ ~gap' /\ Understandable(m) => FALSE
    BY <1>0, <1>2, <2>2 DEF ParserInv, Clean
  <2> QED
    BY <1>2, <2>1, <2>3 DEF ParserInv, Typed, Collected, Clean, DeliversWhatWasSent
<1>3. CASE data_info # NoBuffer /\ Fits(data_info_len)
  <2> DEFINE buf == [data_info EXCEPT ![data_info_len + 1] = Cell(m, i)]
             len == Advance(data_info_len)
  <2>1. /\ data_info \in Seq(Shards) /\ data_info_len \in Nat
        /\ data_info_len + 1 \in 1 .. Len(data_info) /\ len = data_info_len + 1
    BY <1>3 DEF ParserInv, Typed, Fits, Advance
  <2>2. Cell(m, i) \in Shards
    BY <1>0, CellTyped
  <2>3. /\ buf \in Seq(Shards) /\ Len(buf) = Len(data_info)
        /\ \A j \in 1 .. Len(data_info) :
               buf[j] = IF j = data_info_len + 1 THEN Cell(m, i) ELSE data_info[j]
    BY <2>1, <2>2
  <2>4. ~gap' => /\ Len(buf) = Count(m) /\ protocol_entrypt_type = Form[m].coding
                 /\ len >= i /\ len <= Count(m) /\ next' = i + 1
    BY <1>0, <1>3, <2>1, <2>3 DEF ParserInv, Collected
  <2>5. ~gap' /\ len = i /\ Form[m].coding # "other" => \A j \in 1 .. i : buf[j] = Cell(m, j)
    <3> SUFFICES ASSUME ~gap', len = i, Form[m].coding # "other", NEW j \in 1 .. i
                 PROVE  buf[j] = Cell(m, j)
      OBVIOUS
    <3>1. data_info_len = next - 1 /\ i = next /\ ~gap
      BY <1>0, <2>1
    <3>2. \A k \in 1 .. next - 1 : data_info[k] = Cell(msg, k)
      BY <1>3, <3>1 DEF ParserInv, Collected
    <3>3. j \in 1 .. Len(data_info)
      BY <1>0, <2>3, <2>4
    <3>4. CASE j = i
      BY <2>1, <2>3, <3>3, <3>4
    <3>5. CASE j # i
      <4>1. j \in 1 .. next - 1
        BY <1>0, <3>1, <3>5
      <4> QED
        BY <2>1, <2>3, <3>2, <3>3, <3>5, <4>1
    <3> QED
      BY <3>4, <3>5
  <2>6. CASE i = Count(m)
    <3>1. Finish(buf, len, protocol_entrypt_type, event_key)
      BY <1>3, <2>6 DEF Later, IsLast
    <3>2. ~gap' => len = Count(m) /\ next' = Count(m) + 1
      BY <1>0, <2>1, <2>4, <2>6
    <3>3. ~gap' /\ Form[m].coding # "other" => buf = Whole(m)
      <4> SUFFICES ASSUME ~gap', Form[m].coding # "other" PROVE buf = Whole(m)
        OBVIOUS
      <4>1. \A j \in 1 .. Count(m) : buf[j] = Cell(m, j)
        BY <2>5, <2>6, <3>2
      <4>2. Len(buf) = Count(m)
        BY <2>4
      <4>3. Len(Whole(m)) = Len(buf) /\ \A j \in 1 .. Len(buf) : buf[j] = Whole(m)[j]
        BY <4>1, <4>2, WholeTyped
      <4> HIDE DEF buf
      <4> QED
        BY <2>3, <4>3, WholeTyped, SeqEqual
    <3>4. ~gap' => /\ protocol_entrypt_type = Form[m].coding /\ next' = Count(m) + 1
                   /\ Form[m].coding # "other" => buf = Whole(m) /\ len = Count(m)
      BY <2>4, <3>2, <3>3
    <3> QED
      BY <3>1, <3>4, FinishKeeps DEF ParserInv
  <2>7. CASE i # Count(m)
    <3>1. /\ data_info' = buf /\ data_info_len' = len /\ events' = <<"OK">>
          /\ UNCHANGED <<protocol_entrypt_type, fault, open, rough>>
      BY <1>3, <2>7 DEF Later, IsLast
    <3>2. ~Parsed'
      BY <3>1 DEF Parsed, Last
    <3>3. Typed'
      BY <2>1, <2>3, <3>1 DEF ParserInv, Typed
    <3>4. Collected'
      BY <1>0, <2>1, <2>4, <2>5, <3>1 DEF Collected
    <3>5. buf # NoBuffer
      BY <1>3, <2>3 DEF NoBuffer
    <3>6. ~rough' /\ ~gap' /\ Understandable(m) => data_info_len = next - 1
      BY <1>0, <3>1 DEF ParserInv, Clean
    <3>7. open
      BY <1>3 DEF ParserInv, Clean
    <3>8. Clean'
      <4> SUFFICES ASSUME ~rough', ~gap', Understandable(m)
                   PROVE  /\ next' >= 2 /\ next' <= Count(m)
                          /\ data_info' # NoBuffer /\ data_info_len' = next' - 1
        <5>1. open'
          BY <3>1, <3>7
        <5>2. Count(msg)' = Count(m) /\ (Understandable(msg)' <=> Understandable(m))
          BY DEF Count, Understandable
        <5> HIDE DEF buf
        <5>3. next' \in Nat /\ Count(m) \in Nat
          BY <1>0
        <5> QED
          BY <5>1, <5>2, <5>3 DEF Clean
      <4>1. next' = i + 1 /\ i = next /\ data_info_len = next - 1
        BY <3>6
      <4>2. i < Count(m)
        BY <1>0, <2>7
      <4> QED
        <5>1. data_info' # NoBuffer
          BY <3>1, <3>5
        <5>2. data_info_len' = data_info_len + 1
          BY <2>1, <3>1
        <5> QED
          BY <1>0, <2>1, <4>1, <4>2, <5>1, <5>2
    <3> QED
      BY <3>2, <3>3, <3>4, <3>8 DEF ParserInv, DeliversWhatWasSent
  <2> QED
    BY <2>6, <2>7
<1> QED
  BY <1>1, <1>2, <1>3 DEF Later

LEMMA ArriveKeeps == ParserInv /\ Arrive => ParserInv'
<1> SUFFICES ASSUME ParserInv, NEW m \in Messages, NEW i \in 1 .. Count(m), NEW f \in Frames,
                    fault = "no", Sends(m, i), Parse(m, i, f)
             PROVE  ParserInv'
  BY DEF Arrive
<1>0. Count(m) \in Nat /\ Count(m) >= 1 /\ next \in Nat /\ gap \in BOOLEAN
  BY FormTyped DEF ParserInv, Typed
<1>1. msg' = m /\ next' \in Nat /\ gap' \in BOOLEAN
  <2>1. msg' = m
    BY DEF Sends
  <2>2. next' = 2 \/ next' = next + 1 \/ next' = next
    BY DEF Sends
  <2>3. gap' = FALSE \/ gap' = TRUE \/ gap' = gap
    BY DEF Sends
  <2>4. next' \in Nat
    BY <1>0, <2>2
  <2>5. gap' \in BOOLEAN
    BY <2>3 DEF ParserInv, Typed
  <2> QED
    BY <2>1, <2>4, <2>5
<1>2. i = 1 => next' = 2
  BY <1>0 DEF Sends
<1>3. i # 1 => m = msg /\ i >= 2 /\ (~gap' => ~gap /\ i = next /\ next' = next + 1)
  BY <1>0 DEF Sends
<1>4. CASE f = last_frame
  <2>1. Refuse(<<"FRAME_ERR">>)
    BY <1>4 DEF Parse
  <2> QED
    BY <1>1, <2>1, RefuseKeeps
<1>5. CASE f # last_frame /\ Count(m) = 1
  <2>1. Single(m, f) /\ i = 1
    BY <1>0, <1>5 DEF Parse
  <2> QED
    BY <1>1, <1>2, <1>5, <2>1, SingleKeeps
<1>6. CASE f # last_frame /\ Count(m) # 1 /\ i = 1
  <2>1. First(m, f)
    BY <1>6 DEF Parse
  <2> QED
    BY <1>1, <1>2, <1>6, <2>1, FirstKeeps
<1>7. CASE f # last_frame /\ Count(m) # 1 /\ i # 1
  <2>1. Later(m, i, f)
    BY <1>7 DEF Parse
  <2> QED
    BY <1>1, <1>3, <1>7, <2>1, LaterKeeps
<1> QED
  BY <1>4, <1>5, <1>6, <1>7

LEMMA ParserStep == ParserInv /\ [Next]_vars => ParserInv'
<1> SUFFICES ASSUME ParserInv, [Next]_vars PROVE ParserInv'
  OBVIOUS
<1>1. CASE Arrive
  BY <1>1, ArriveKeeps
<1>2. CASE ArriveDamaged
  <2>1. msg' = msg /\ next' = next /\ gap' = TRUE /\ Damaged
    BY <1>2 DEF ArriveDamaged
  <2>2. PICK e \in {"CRC_ERR", "PROTOCOL_ERR"} : Refuse(<<e>>)
    BY <2>1 DEF Damaged
  <2>3. msg' \in Messages \cup {NoMessage} /\ next' \in Nat /\ gap' \in BOOLEAN
    BY <2>1 DEF ParserInv, Typed
  <2> QED
    BY <2>2, <2>3, RefuseKeeps
<1>3. CASE Lose
  <2>1. /\ gap' = TRUE /\ next' = next + 1
        /\ UNCHANGED <<data_info, data_info_len, msg, events, open, rough>>
    BY <1>3 DEF Lose, parser
  <2>2. Typed'
    BY <2>1 DEF ParserInv, Typed
  <2> QED
    BY <2>1, <2>2 DEF ParserInv, Collected, Clean, DeliversWhatWasSent
<1>4. CASE Link \/ BleStops \/ UNCHANGED vars
  <2>1. UNCHANGED <<data_info, data_info_len, protocol_entrypt_type, msg, next, gap, events,
                    said, fault, open, rough>>
    BY <1>4 DEF Link, BleStops, vars, parser, phone
  <2> QED
    BY <2>1 DEF ParserInv, Typed, Collected, Clean, DeliversWhatWasSent, Parsed, Understandable
<1> QED
  BY <1>1, <1>2, <1>3, <1>4 DEF Next

LEMMA ParserCorrect == Spec => []ParserInv
BY ParserInit, ParserStep, PTL DEF Spec

\* The device takes a message only as the phone sent it: when every packet of it arrived
\* once, no shard of another message and no hole is in the text that is parsed, whatever
\* the phone had begun and given up before (aiio_ParseBleProtocolData).
THEOREM DeliversCorrect == Spec => []DeliversWhatWasSent
<1>1. ParserInv => DeliversWhatWasSent
  BY DEF ParserInv
<1> QED
  BY <1>1, ParserCorrect, PTL

\* A message that is sent whole and did not begin in the middle of another is understood,
\* whatever results, errors and departures came before it (aiio_ParseBleProtocolData).
THEOREM WholeCorrect == Spec => []WholeIsParsed
<1>1. ParserInv => WholeIsParsed
  <2> SUFFICES ASSUME ParserInv, msg # NoMessage, next > Count(msg), ~gap, ~rough,
                      Form[msg].content = "good", Form[msg].coding # "other", Form[msg].version
               PROVE  Parsed
    BY DEF WholeIsParsed
  <2>1. Understandable(msg)
    BY DEF ParserInv, Typed, Understandable
  <2> QED
    BY <2>1 DEF ParserInv, Clean
<1> QED
  BY <1>1, ParserCorrect, PTL

-----------------------------------------------------------------------------
(* The answers.  Coding pads to a whole number of blocks, and the length   *)
(* byte still holds the sum.                                               *)
LEMMA PaddedBounds ==
    ASSUME NEW n \in 1..224
    PROVE  Padded(n, "aes") \in n..224 /\ Padded(n, "none") = n
<1>1. PICK k \in 1..14 : (n + 15) \div 16 = k
  <2>1. (n + 15) \div 16 \in 1..14
    OBVIOUS
  <2> QED
    BY <2>1
<1>2. n + 15 >= k * 16 /\ n + 15 < k * 16 + 16
  BY <1>1
<1>3. k * 16 \in n..224
  BY <1>2
<1> QED
  BY <1>1, <1>3 DEF Padded

\* A text that fits is put into the packet as it is, and read back whole.
LEMMA PacksWhole ==
    ASSUME NEW n \in 1..224, NEW type \in {"none", "aes"}
    PROVE  LET p == Pack(PacketMax, n, type)
           IN  /\ p.ret > 0 /\ p.crc = p.ret - 2
               /\ p.total = Padded(n, type) /\ Took(p.ret, type, p.len) = p.total
<1> DEFINE key == KeyLen(type)
           len == Padded(n, type)
<1>1. key \in 0..16
  BY DEF KeyLen
<1>2. len \in 1..224
  <2>1. Padded(n, "aes") \in n..224 /\ Padded(n, "none") = n
    BY PaddedBounds
  <2> QED
    BY <2>1
<1>3. Put(PacketMax, 8 + key, len) = len
  BY <1>1, <1>2, StatusAssumption DEF Put
<1>4. (4 + key + len) % 256 = 4 + key + len /\ len % 65536 = len
  BY <1>1, <1>2
<1>5. Pack(PacketMax, n, type) = [ret |-> 8 + key + len + 2, len |-> 4 + key + len,
                                  total |-> len, crc |-> 8 + key + len]
  BY <1>1, <1>2, <1>3, <1>4 DEF Pack, CrcAt
<1>6. Took(8 + key + len + 2, type, 4 + key + len) = len
  BY <1>1, <1>2 DEF Took
<1> QED
  BY <1>1, <1>2, <1>5, <1>6

\* Whatever the status and the coding, the parser of this protocol finds the CRC of an answer
\* where it was put, and takes from the packet the text that was packed: of any length the
\* length byte can say (aiio_PacketDivideProtocolData, aiio_GetProtocolData).
THEOREM AnswersCorrect == Spec => []AnswersReadBack
<1>1. AnswersReadBack
  <2>1. ASSUME NEW n \in StatusLens
        PROVE  LET type == IF status = "coded" THEN "aes" ELSE "none"
                   p    == Pack(PacketMax, n, type)
               IN  /\ p.ret > 0 /\ p.crc = p.ret - 2
                   /\ p.total = Padded(n, type) /\ Took(p.ret, type, p.len) = p.total
    BY <2>1, PacksWhole, StatusAssumption
  <2>2. PackAck.crc = PackAck.ret - 2
    BY DEF PackAck
  <2> QED
    BY <2>1, <2>2 DEF AnswersReadBack
<1> QED
  BY <1>1, PTL
===============================================================================
