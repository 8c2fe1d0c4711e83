------------------------- MODULE Ddsm210Array_proof -------------------------
(***************************************************************************)
(* The DDSM210 array, for every list of ids, bus and port: its type, what  *)
(* it says of its motors, what becomes of a Stop(), and what               *)
(* resynchronising costs.                                                  *)
(***************************************************************************)
EXTENDS Ddsm210Array, SequenceTheorems, FiniteSetTheorems, FunctionTheorems, TLAPS

-----------------------------------------------------------------------------
(* Cutting frames out of a sequence of bytes.                                *)

(* What SubSeq, Drop and Newest keep of a sequence.                          *)
LEMMA PartOf ==
  ASSUME NEW S, NEW s \in Seq(S), NEW i \in 1..(Len(s) + 1), NEW j \in Int, j <= Len(s)
  PROVE  /\ SubSeq(s, i, j) \in Seq(S)
         /\ Len(SubSeq(s, i, j)) = IF i <= j THEN (j - i) + 1 ELSE 0
         /\ \A k \in 1..((j - i) + 1) : SubSeq(s, i, j)[k] = s[(i + k) - 1]
<1>1. Len(s) \in Nat
  BY LenProperties
<1>2. \A k \in i..j : s[k] \in S
  BY <1>1, ElementOfSeq
<1>3. \A k \in 1..((j - i) + 1) : SubSeq(s, i, j)[k] = s[i + k - 1]
  BY <1>1, <1>2, SubSeqProperties
<1>4. Len(SubSeq(s, i, j)) = IF i <= j THEN j - i + 1 ELSE 0
  BY <1>1, <1>2, SubSeqProperties
<1> QED BY <1>1, <1>2, <1>3, <1>4, SubSeqProperties

LEMMA Dropping ==
  ASSUME NEW S, NEW s \in Seq(S), NEW n \in 0..Len(s)
  PROVE  /\ Drop(s, n) \in Seq(S)
         /\ Len(Drop(s, n)) = Len(s) - n
         /\ \A k \in 1..(Len(s) - n) : Drop(s, n)[k] = s[n + k]
<1>1. Len(s) \in Nat
  BY LenProperties
<1>2. /\ SubSeq(s, n + 1, Len(s)) \in Seq(S)
      /\ Len(SubSeq(s, n + 1, Len(s))) = IF n + 1 <= Len(s) THEN (Len(s) - (n + 1)) + 1 ELSE 0
      /\ \A k \in 1..((Len(s) - (n + 1)) + 1) :
           SubSeq(s, n + 1, Len(s))[k] = s[((n + 1) + k) - 1]
  BY <1>1, PartOf
<1>3. \A k \in 1..(Len(s) - n) : ((n + 1) + k) - 1 = n + k /\ k \in 1..((Len(s) - (n + 1)) + 1)
  BY <1>1
<1> QED BY <1>1, <1>2, <1>3 DEF Drop

LEMMA Keeping ==
  ASSUME NEW S, NEW s \in Seq(S), Room \in Nat
  PROVE  /\ Newest(s) \in Seq(S)
         /\ Len(Newest(s)) <= Room /\ Len(Newest(s)) <= Len(s)
         /\ \A k \in 1..Len(Newest(s)) : Newest(s)[k] = s[(Len(s) - Len(Newest(s))) + k]
<1>1. Len(s) \in Nat
  BY LenProperties
<1>2. CASE Len(s) > Room
  <2> DEFINE n == Len(s) - Room
  <2>1. n \in 0..Len(s) /\ n + 1 = Len(s) - Room + 1
    BY <1>1, <1>2
  <2>2. Newest(s) = Drop(s, n)
    BY <1>2, <2>1 DEF Newest, Drop
  <2>3. /\ Drop(s, n) \in Seq(S)
        /\ Len(Drop(s, n)) = Len(s) - n
        /\ \A k \in 1..(Len(s) - n) : Drop(s, n)[k] = s[n + k]
    <3> HIDE DEF n
    <3> QED BY <2>1, Dropping
  <2>4. Len(s) - n = Room /\ Len(s) - Room = n
    BY <1>1
  <2> HIDE DEF n
  <2> QED BY <1>1, <1>2, <2>1, <2>2, <2>3, <2>4
<1>3. CASE ~(Len(s) > Room)
  <2>1. Newest(s) = s
    BY <1>3 DEF Newest
  <2> QED BY <1>1, <1>3, <2>1
<1> QED BY <1>2, <1>3

\* An undamaged frame stands in s from place i on.
Whole(s, i) == \A j \in 1..FrameLen : s[(i + j) - 1] = <<s[i][1], j>>

(* The bytes of a frame, and a window of them.                               *)
LEMMA Cutting ==
  ASSUME NEW S, NEW s \in Seq(S), FrameLen \in Nat \ {0},
         NEW i \in 1..(Len(s) - FrameLen + 1)
  PROVE  Intact(SubSeq(s, i, i + FrameLen - 1)) <=> Whole(s, i)
<1> DEFINE w == SubSeq(s, i, i + FrameLen - 1)
<1>1. Len(s) \in Nat /\ i + FrameLen - 1 \in Int /\ i + FrameLen - 1 <= Len(s)
      /\ i \in 1..(Len(s) + 1) /\ ((i + FrameLen - 1) - i) + 1 = FrameLen
  BY LenProperties
<1>2. w \in Seq(S) /\ Len(w) = FrameLen /\ \A k \in 1..FrameLen : w[k] = s[(i + k) - 1]
  BY <1>1, PartOf
<1>3. Window(w) = w
  BY <1>2, SubSeqFull DEF Window
<1>4. w[1] = s[i]
  <2>1. 1 \in 1..FrameLen /\ (i + 1) - 1 = i
    BY <1>1
  <2> QED BY <1>2, <2>1
<1>5. w \in [1..FrameLen -> S] /\ DOMAIN w = 1..FrameLen
  BY <1>2, LenProperties
<1>6. w = [k \in 1..FrameLen |-> w[k]]
  BY <1>5
<1>7. w = BytesOf(w[1][1]) <=> \A k \in 1..FrameLen : w[k] = <<w[1][1], k>>
  <2> HIDE DEF w
  <2>1. ASSUME w = BytesOf(w[1][1]), NEW k \in 1..FrameLen PROVE w[k] = <<w[1][1], k>>
    <3>1. BytesOf(w[1][1])[k] = <<w[1][1], k>>
      BY DEF BytesOf
    <3> QED BY <2>1, <3>1
  <2>2. ASSUME \A k \in 1..FrameLen : w[k] = <<w[1][1], k>> PROVE w = BytesOf(w[1][1])
    BY <1>6, <2>2 DEF BytesOf
  <2> QED BY <2>1, <2>2
<1>8. (\A k \in 1..FrameLen : w[k] = <<w[1][1], k>>) <=> Whole(s, i)
  <2> HIDE DEF w
  <2> QED BY <1>2, <1>4 DEF Whole
<1> QED BY <1>3, <1>7, <1>8 DEF Intact

(* The window ProcessRx looks at is the frame at the first place.            *)
LEMMA Looking ==
  ASSUME NEW S, NEW s \in Seq(S), FrameLen \in Nat \ {0}, FrameLen <= Len(s)
  PROVE  Intact(s) <=> Whole(s, 1)
<1>1. 1 \in 1..(Len(s) - FrameLen + 1) /\ 1 + FrameLen - 1 = FrameLen /\ Len(s) \in Nat
  BY LenProperties
<1> DEFINE w == SubSeq(s, 1, FrameLen)
<1>2. Intact(w) <=> Whole(s, 1)
  BY <1>1, Cutting
<1>3. w \in Seq(S) /\ Len(w) = FrameLen /\ w[1] = s[1]
  <2>1. 1 \in 1..(Len(s) + 1) /\ (FrameLen - 1) + 1 = FrameLen /\ FrameLen \in Int
        /\ 1 \in 1..FrameLen /\ (1 + 1) - 1 = 1
    BY <1>1
  <2> QED BY <2>1, PartOf
<1>4. Window(w) = w
  BY <1>3, SubSeqFull DEF Window
<1>5. Intact(w) <=> Intact(s)
  BY <1>3, <1>4 DEF Intact, Window
<1> QED BY <1>2, <1>5

\* Where the undamaged frames stand.
Places(s) == {i \in 1..(Len(s) - FrameLen + 1) : Whole(s, i)}

LEMMA Counting ==
  ASSUME NEW S, NEW s \in Seq(S), FrameLen \in Nat \ {0}
  PROVE  Frames(s) = Cardinality(Places(s)) /\ IsFiniteSet(Places(s))
<1>1. {i \in 1..(Len(s) - FrameLen + 1) : Intact(SubSeq(s, i, i + FrameLen - 1))} = Places(s)
  BY Cutting DEF Places
<1>2. Len(s) \in Nat /\ Len(s) - FrameLen + 1 \in Int
  BY LenProperties
<1>3. IsFiniteSet(1..(Len(s) - FrameLen + 1))
  BY <1>2, FS_Interval
<1>4. Places(s) \in SUBSET (1..(Len(s) - FrameLen + 1))
  BY DEF Places
<1> QED BY <1>1, <1>3, <1>4, FS_Subset DEF Frames

(* Dropping bytes in front loses the frames that stand there, and no other.  *)
LEMMA Shifting ==
  ASSUME NEW S, NEW s \in Seq(S), FrameLen \in Nat \ {0}, NEW n \in 0..Len(s)
  PROVE  Frames(Drop(s, n)) = Cardinality({i \in Places(s) : i > n})
<1>1. Len(s) \in Nat /\ n \in Nat
  BY LenProperties
<1> DEFINE t == Drop(s, n)
           A == Places(t)
           B == {i \in Places(s) : i > n}
           F == [i \in A |-> n + i]
<1>2. t \in Seq(S) /\ Len(t) = Len(s) - n /\ \A k \in 1..(Len(s) - n) : t[k] = s[n + k]
  BY Dropping
<1>3. ASSUME NEW i \in 1..(Len(t) - FrameLen + 1)
      PROVE  /\ n + i \in 1..(Len(s) - FrameLen + 1)
             /\ Whole(t, i) <=> Whole(s, n + i)
  <2> HIDE DEF t
  <2>1. n + i \in 1..(Len(s) - FrameLen + 1)
    BY <1>1, <1>2
  <2>2. \A j \in 1..FrameLen : t[(i + j) - 1] = s[((n + i) + j) - 1]
    <3>1. TAKE j \in 1..FrameLen
    <3>2. (i + j) - 1 \in 1..(Len(s) - n) /\ n + ((i + j) - 1) = ((n + i) + j) - 1
      BY <1>1, <1>2
    <3> QED BY <1>2, <3>2
  <2>3. t[i] = s[n + i]
    <3>1. i \in 1..(Len(s) - n)
      BY <1>1, <1>2
    <3> QED BY <1>2, <3>1
  <2> QED BY <2>1, <2>2, <2>3 DEF Whole
<1>4. F \in [A -> B]
  <2>1. \A i \in A : n + i \in B
    <3>1. TAKE i \in A
    <3>2. i \in 1..(Len(t) - FrameLen + 1) /\ Whole(t, i)
      BY DEF Places
    <3>3. n + i \in Places(s)
      BY <1>3, <3>2 DEF Places
    <3>4. i >= 1 /\ i \in Int
      BY <1>1, <1>2, <3>2
    <3> QED BY <1>1, <3>3, <3>4
  <2> QED BY <2>1
<1>5. \A a, b \in A : F[a] = F[b] => a = b
  BY <1>1 DEF Places
<1>6. \A y \in B : \E a \in A : F[a] = y
  <2>1. TAKE y \in B
  <2>2. y \in 1..(Len(s) - FrameLen + 1) /\ y > n /\ Whole(s, y)
    BY DEF Places
  <2>3. y - n \in 1..(Len(t) - FrameLen + 1) /\ n + (y - n) = y
    BY <1>1, <1>2, <2>2
  <2>4. y - n \in A
    BY <1>3, <2>2, <2>3 DEF Places
  <2> QED BY <2>3, <2>4
<1>7. ExistsBijection(A, B)
  <2> HIDE DEF A, B, F
  <2>1. F \in Injection(A, B)
    BY <1>4, <1>5, Fun_IsInj
  <2>2. F \in Surjection(A, B)
    BY <1>4, <1>6, Fun_IsSurj
  <2>3. F \in Bijection(A, B)
    BY <2>1, <2>2, Fun_IsBij
  <2> QED BY <2>3 DEF ExistsBijection
<1>8. IsFiniteSet(A) /\ Frames(t) = Cardinality(A)
  BY <1>2, Counting
<1>9. Cardinality(B) = Cardinality(A)
  <2> HIDE DEF A, B
  <2> QED BY <1>7, <1>8, FS_Bijection
<1> QED BY <1>8, <1>9

(* Resynchronising: a byte that begins no frame costs none.                  *)
LEMMA ByteCostsNone ==
  ASSUME NEW S, NEW s \in Seq(S), FrameLen \in Nat \ {0}, FrameLen <= Len(s), ~Intact(s)
  PROVE  Frames(Drop(s, 1)) = Frames(s)
<1>1. Len(s) \in Nat /\ 1 \in 0..Len(s)
  BY LenProperties
<1>2. ~Whole(s, 1)
  BY Looking
<1>3. {i \in Places(s) : i > 1} = Places(s)
  BY <1>1, <1>2 DEF Places
<1> QED BY <1>1, <1>3, Shifting, Counting

(* A frame taken out costs itself: no other begins inside it.                *)
LEMMA FrameCostsItself ==
  ASSUME NEW S, NEW s \in Seq(S), FrameLen \in Nat \ {0}, FrameLen <= Len(s), Intact(s)
  PROVE  Frames(Drop(s, FrameLen)) = Frames(s) - 1
<1>1. Len(s) \in Nat /\ FrameLen \in 0..Len(s)
  BY LenProperties
<1>2. Whole(s, 1)
  BY Looking
<1>3. ASSUME NEW i \in Places(s), i <= FrameLen PROVE i = 1
  <2>1. i \in 1..FrameLen /\ Whole(s, i) /\ 1 \in 1..FrameLen /\ (1 + i) - 1 = i /\ (i + 1) - 1 = i
    BY <1>1, <1>3 DEF Places
  <2>2. s[i] = <<s[1][1], i>>
    BY <1>2, <2>1 DEF Whole
  <2>3. s[i] = <<s[i][1], 1>>
    BY <2>1 DEF Whole
  <2> QED BY <2>2, <2>3
<1>4. 1 \in Places(s)
  BY <1>1, <1>2 DEF Places
<1>5. {i \in Places(s) : i > FrameLen} = Places(s) \ {1}
  BY <1>1, <1>3 DEF Places
<1>6. Frames(s) = Cardinality(Places(s)) /\ IsFiniteSet(Places(s))
  BY Counting
<1>7. Cardinality(Places(s) \ {1}) = Cardinality(Places(s)) - 1
  BY <1>4, <1>6, FS_RemoveElement
<1> QED BY <1>1, <1>5, <1>6, <1>7, Shifting
-----------------------------------------------------------------------------
(* Types.                                                                    *)

Ops == {"speed", "odom", "mode"}

Commands == [id : Ids, op : Ops, value : Speeds]

Replies == {f \in [id : Ids \cup Strangers, op : Ops, value : Speeds \cup Modes] :
              /\ f.op = "speed" => f.value \in Speeds
              /\ f.op = "mode" => f.value \in Modes}

BusBytes == Replies \X (0..FrameLen)

Typed ==
  /\ TypeOK
  /\ tx \in Seq(Commands)
  /\ rx \in Seq(BusBytes) /\ air \in Seq(BusBytes)
  /\ session \in 0..MaxSessions /\ call.in <= session
  /\ handled \in {0, 1} /\ late \in BOOLEAN
  /\ halted \subseteq Ids /\ spoke \subseteq Ids
  /\ said \in [Ids -> SUBSET Modes]

LEMMA Ranges ==
  /\ TxRoom \in Nat /\ Timeout \in Nat /\ MaxSessions \in Nat
  /\ FrameLen \in Nat \ {0} /\ Room \in Nat \ {0}
  /\ ids \in Seq(Ids) /\ Len(ids) \in Nat \ {0} /\ DOMAIN ids = 1..Len(ids)
  /\ \A i \in 1..Len(ids) : ids[i] \in Ids
  /\ \A id \in Ids : \E i \in 1..Len(ids) : ids[i] = id
  /\ 0 \in Speeds /\ Strangers \cap Ids = {} /\ Requests \subseteq Ops
<1>1. ids \in Seq(Ids) /\ ids # <<>>
  BY ArrayAssumption
<1>2. Len(ids) \in Nat \ {0} /\ DOMAIN ids = 1..Len(ids)
  BY <1>1, EmptySeq, LenProperties
<1>3. \A i \in 1..Len(ids) : ids[i] \in Ids
  BY <1>1, ElementOfSeq
<1>4. \A id \in Ids : \E i \in 1..Len(ids) : ids[i] = id
  BY <1>2 DEF Ids
<1>5. TxRoom \in Nat /\ Timeout \in Nat /\ MaxSessions \in Nat
  BY ArrayAssumption
<1> QED BY <1>1, <1>2, <1>3, <1>4, <1>5, ArrayAssumption DEF Ops

(* The bytes of a reply, whole or spoilt, all belong to it.                  *)
LEMMA BytesBelong ==
  ASSUME NEW r \in Replies, NEW bytes, bytes = BytesOf(r) \/ bytes \in Spoilt(r)
  PROVE  bytes \in Seq(BusBytes) /\ \A i \in 1..Len(bytes) : bytes[i][1] = r
<1> DEFINE Own == {r} \X (0..FrameLen)
           b == BytesOf(r)
<1>1. FrameLen \in Nat \ {0}
  BY Ranges
<1>2. b \in [1..FrameLen -> Own] /\ \A i \in 1..FrameLen : b[i] = <<r, i>>
  BY <1>1 DEF BytesOf
<1>3. \A n \in Nat : \A c \in [1..n -> Own] : c \in Seq(Own)
  BY SeqDef
<1>4. bytes \in Seq(Own)
  <2>1. CASE bytes = b
    BY <1>1, <1>2, <1>3, <2>1
  <2>2. CASE bytes = <<>>
    BY <2>2, EmptySeq
  <2>3. ASSUME NEW i \in 1..FrameLen,
               bytes = [j \in 1..(FrameLen - 1) |-> b[IF j < i THEN j ELSE j + 1]]
        PROVE  bytes \in Seq(Own)
    <3> HIDE DEF b, Own
    <3>1. \A j \in 1..(FrameLen - 1) : (IF j < i THEN j ELSE j + 1) \in 1..FrameLen
      BY <1>1
    <3>2. \A j \in 1..(FrameLen - 1) : b[IF j < i THEN j ELSE j + 1] \in Own
      BY <1>2, <3>1
    <3>3. bytes \in [1..(FrameLen - 1) -> Own] /\ FrameLen - 1 \in Nat
      BY <1>1, <2>3, <3>2
    <3> QED BY <1>3, <3>3
  <2>4. ASSUME NEW i \in 1..FrameLen, bytes = [b EXCEPT ![i][2] = 0]
        PROVE  bytes \in Seq(Own)
    <3>1. [b[i] EXCEPT ![2] = 0] = <<r, 0>>
      BY <1>2
    <3>2. <<r, 0>> \in Own
      BY <1>1
    <3>3. bytes = [b EXCEPT ![i] = <<r, 0>>]
      BY <2>4, <3>1
    <3>4. bytes \in [1..FrameLen -> Own]
      <4> HIDE DEF b, Own
      <4> QED BY <1>2, <3>2, <3>3
    <3> QED BY <1>1, <1>3, <3>4
  <2> QED BY <2>1, <2>2, <2>3, <2>4 DEF Spoilt
<1>5. Own \subseteq BusBytes
  BY DEF BusBytes
<1>6. bytes \in Seq(BusBytes)
  BY <1>4, <1>5, SeqMonotonic
<1>7. \A i \in 1..Len(bytes) : bytes[i] \in Own
  <2> HIDE DEF Own
  <2> QED BY <1>4, ElementOfSeq
<1> QED BY <1>6, <1>7

(* A motor's answer.                                                         *)
Now(f) == IF f.op = "speed" THEN [motor[f.id] EXCEPT !.speed = f.value] ELSE motor[f.id]

Reply(f) == [id |-> f.id, op |-> f.op,
             value |-> CASE f.op = "speed" -> Now(f).speed [] f.op = "mode" -> Now(f).mode
                         [] OTHER -> 0]

LEMMA Answering ==
  ASSUME Typed, NEW f \in Commands
  PROVE  /\ Reply(f) \in Replies /\ Reply(f).id = f.id /\ Reply(f).op = f.op
         /\ f.op = "mode" => Reply(f).value = Now(f).mode
         /\ Now(f) \in [speed : Speeds, mode : Modes]
         /\ f.op = "speed" => Now(f).speed = f.value
         /\ f.op # "speed" => Now(f).speed = motor[f.id].speed
<1>1. /\ motor[f.id] \in [speed : Speeds, mode : Modes]
      /\ f.id \in Ids /\ f.op \in Ops /\ f.value \in Speeds
  BY DEF Typed, TypeOK, Commands
<1>2. /\ Now(f) \in [speed : Speeds, mode : Modes]
      /\ f.op = "speed" => Now(f).speed = f.value
      /\ f.op # "speed" => Now(f).speed = motor[f.id].speed
  BY <1>1 DEF Now
<1>3. /\ Reply(f).id = f.id /\ Reply(f).op = f.op
      /\ f.op = "speed" => Reply(f).value = Now(f).speed
      /\ f.op = "mode" => Reply(f).value = Now(f).mode
      /\ f.op = "odom" => Reply(f).value = 0
  BY <1>1 DEF Reply, Ops
<1>4. Reply(f).value \in Speeds \cup Modes
  BY <1>1, <1>2, <1>3, Ranges DEF Ops
<1>5. Reply(f) = [id |-> Reply(f).id, op |-> Reply(f).op, value |-> Reply(f).value]
  BY DEF Reply
<1>6. Reply(f) \in [id : Ids \cup Strangers, op : Ops, value : Speeds \cup Modes]
  BY <1>1, <1>3, <1>4, <1>5
<1>7. /\ Reply(f).op = "speed" => Reply(f).value \in Speeds
      /\ Reply(f).op = "mode" => Reply(f).value \in Modes
  BY <1>2, <1>3
<1> QED BY <1>2, <1>3, <1>6, <1>7 DEF Replies

(* A frame given to the port.                                                *)
LEMMA Sending ==
  ASSUME Typed, NEW id \in Ids, NEW op \in Ops, NEW value \in Speeds,
         SendFrame(id, op, value)
  PROVE  /\ tx' \in Seq(Commands) /\ Len(tx') <= TxRoom /\ open' = open
         /\ ~Taken => tx' = tx
         /\ Taken => open /\ tx' = Append(tx, [id |-> id, op |-> op, value |-> value])
<1>1. [id |-> id, op |-> op, value |-> value] \in Commands
  BY DEF Commands
<1>2. tx \in Seq(Commands) /\ Len(tx) \in Nat /\ Len(tx) <= TxRoom /\ TxRoom \in Nat
  BY LenProperties, Ranges DEF Typed, TypeOK
<1>3. CASE Taken
  <2>1. tx' = Append(tx, [id |-> id, op |-> op, value |-> value]) /\ open' = open
    BY <1>3 DEF SendFrame
  <2> QED BY <1>1, <1>2, <1>3, <2>1, AppendProperties DEF Taken
<1>4. CASE ~Taken
  BY <1>2, <1>4 DEF SendFrame
<1> QED BY <1>3, <1>4

LEMMA TypedInit == Init => Typed
<1> SUFFICES ASSUME Init PROVE Typed
  OBVIOUS
<1>1. TypeOK
  <2>1. fb \in [Ids -> [speed : Speeds, mode : Modes]]
    BY Ranges DEF Init, Modes
  <2>2. motor \in [Ids -> [speed : Speeds, mode : Modes]]
    <3>1. motor \in [Ids -> [speed : {0}, mode : Provisioned]]
      BY DEF Init
    <3>2. [speed : {0}, mode : Provisioned] \subseteq [speed : Speeds, mode : Modes]
      BY Ranges, ArrayAssumption
    <3> QED BY <3>1, <3>2
  <2>3. {age, mode_age} \subseteq [Ids -> 0..(Timeout + 1)]
    BY Ranges DEF Init, Stale
  <2>4. call \in Calls
    BY Ranges DEF Init, NoCall, Calls
  <2>5. Len(tx) <= TxRoom /\ Len(rx) <= Room
    BY Ranges, EmptySeq DEF Init
  <2> QED BY <2>1, <2>2, <2>3, <2>4, <2>5 DEF Init, TypeOK
<1>2. tx \in Seq(Commands) /\ rx \in Seq(BusBytes) /\ air \in Seq(BusBytes)
  BY EmptySeq DEF Init
<1>3. session \in 0..MaxSessions /\ call.in <= session
  BY Ranges DEF Init, NoCall
<1> QED BY <1>1, <1>2, <1>3 DEF Init, Typed

(* Marking the monitors of a frame's motor.                                  *)
LEMMA Marking ==
  ASSUME Typed, NEW f \in Replies, f.id \in Ids, Mark(f)
  PROVE  /\ fb' \in [Ids -> [speed : Speeds, mode : Modes]]
         /\ age' \in [Ids -> 0..(Timeout + 1)] /\ mode_age' \in [Ids -> 0..(Timeout + 1)]
         /\ \A id \in Ids :
              /\ id # f.id => /\ fb'[id] = fb[id] /\ age'[id] = age[id]
                              /\ mode_age'[id] = mode_age[id]
              /\ id = f.id => /\ f.op # "mode" => /\ mode_age'[id] = mode_age[id]
                                                  /\ fb'[id].mode = fb[id].mode
                              /\ f.op = "mode" => fb'[id].mode = f.value
<1>1. /\ fb \in [Ids -> [speed : Speeds, mode : Modes]]
      /\ age \in [Ids -> 0..(Timeout + 1)] /\ mode_age \in [Ids -> 0..(Timeout + 1)]
      /\ 0 \in 0..(Timeout + 1)
  <2>1. 0 \in 0..(Timeout + 1)
    BY Ranges
  <2> QED BY <2>1 DEF Typed, TypeOK
<1>2. /\ f.op = "speed" => f.value \in Speeds
      /\ f.op = "mode" => f.value \in Modes
  BY DEF Replies
<1> DEFINE new == IF f.op = "speed" THEN [fb[f.id] EXCEPT !.speed = f.value]
                  ELSE IF f.op = "mode" THEN [fb[f.id] EXCEPT !.mode = f.value] ELSE fb[f.id]
<1>3. /\ new \in [speed : Speeds, mode : Modes]
      /\ f.op # "mode" => new.mode = fb[f.id].mode
      /\ f.op = "mode" => new.mode = f.value
  BY <1>1, <1>2
<1>4. fb' = [fb EXCEPT ![f.id] = new]
  BY DEF Mark
<1> HIDE DEF new
<1>5. /\ age' = [age EXCEPT ![f.id] = 0]
      /\ mode_age' = IF f.op = "mode" THEN [mode_age EXCEPT ![f.id] = 0] ELSE mode_age
  BY DEF Mark
<1>6. /\ fb' \in [Ids -> [speed : Speeds, mode : Modes]]
      /\ \A id \in Ids : fb'[id] = IF id = f.id THEN new ELSE fb[id]
  BY <1>1, <1>3, <1>4
<1>7. /\ age' \in [Ids -> 0..(Timeout + 1)] /\ mode_age' \in [Ids -> 0..(Timeout + 1)]
      /\ \A id \in Ids : id # f.id => age'[id] = age[id] /\ mode_age'[id] = mode_age[id]
      /\ f.op # "mode" => mode_age' = mode_age
  BY <1>1, <1>5
<1> QED BY <1>3, <1>6, <1>7

(* The frame at the front of the ring.                                       *)
LEMMA Front ==
  ASSUME Typed, Len(rx) >= FrameLen, Intact(rx)
  PROVE  rx[1][1] \in Replies /\ rx[FrameLen] = <<rx[1][1], FrameLen>>
<1>1. rx \in Seq(BusBytes) /\ FrameLen \in Nat \ {0} /\ Len(rx) \in Nat
  BY Ranges, LenProperties DEF Typed
<1>2. Whole(rx, 1)
  BY <1>1, Looking
<1>3. FrameLen \in 1..FrameLen /\ (1 + FrameLen) - 1 = FrameLen /\ 1 \in 1..Len(rx)
  BY <1>1
<1>4. rx[1] \in BusBytes
  BY <1>1, <1>3, ElementOfSeq
<1> QED BY <1>2, <1>3, <1>4 DEF Whole, BusBytes

(* A call that has sent another frame.                                       *)
LEMMA Calling ==
  ASSUME call \in Calls, call.at \in 1..Len(ids), call.at # Len(ids), Len(ids) \in Nat,
         NEW ok \in BOOLEAN
  PROVE  LET c == [call EXCEPT !.at = call.at + 1, !.ok = ok]
         IN  c \in Calls /\ c.in = call.in /\ c.at = call.at + 1 /\ c.ok = ok
             /\ c.op = call.op /\ c.value = call.value
<1> DEFINE c == [call EXCEPT !.at = call.at + 1, !.ok = ok]
<1>1. c = [op |-> call.op, at |-> call.at + 1, value |-> call.value, ok |-> ok,
           in |-> call.in]
  <2>1. call = [op |-> call.op, at |-> call.at, value |-> call.value, ok |-> call.ok,
                in |-> call.in]
    BY DEF Calls
  <2>2. PICK d : d = [call EXCEPT !.at = call.at + 1]
    OBVIOUS
  <2>3. d = [op |-> call.op, at |-> call.at + 1, value |-> call.value, ok |-> call.ok,
             in |-> call.in]
    BY <2>1, <2>2
  <2>4. c = [d EXCEPT !.ok = ok]
    BY <2>2
  <2> HIDE DEF c
  <2>5. [d EXCEPT !.ok = ok]
          = [op |-> call.op, at |-> call.at + 1, value |-> call.value, ok |-> ok,
             in |-> call.in]
    BY <2>3
  <2> QED BY <2>4, <2>5
<1>2. call.at + 1 \in 1..Len(ids)
  OBVIOUS
<1> QED BY <1>1, <1>2 DEF Calls

LEMMA TypedStep == Typed /\ [Next]_vars => Typed'
<1> SUFFICES ASSUME Typed, [Next]_vars PROVE Typed'
  OBVIOUS
<1>0. /\ TxRoom \in Nat /\ Timeout \in Nat /\ MaxSessions \in Nat
      /\ FrameLen \in Nat \ {0} /\ Room \in Nat \ {0}
      /\ Len(ids) \in Nat \ {0} /\ DOMAIN ids = 1..Len(ids)
      /\ \A i \in 1..Len(ids) : ids[i] \in Ids
      /\ 0 \in Speeds /\ Requests \subseteq Ops
  BY Ranges
<1>1. /\ tx \in Seq(Commands) /\ rx \in Seq(BusBytes) /\ air \in Seq(BusBytes)
      /\ Len(tx) \in Nat /\ Len(rx) \in Nat /\ Len(air) \in Nat
      /\ session \in Nat /\ session <= MaxSessions
      /\ call \in Calls /\ call.in \in 0..MaxSessions /\ call.in <= session
      /\ call.at \in 1..Len(ids) /\ call.value \in Speeds /\ call.ok \in BOOLEAN
  BY LenProperties DEF Typed, TypeOK, Calls
<1>2. CASE SendOne
  <2>1. tx' \in Seq(Commands) /\ Len(tx') <= TxRoom /\ open' = open
    BY <1>0, <1>2, Sending DEF SendOne, Ops
  <2>2. halted' \subseteq Ids
    BY <1>2 DEF SendOne, Typed
  <2> QED BY <1>2, <2>1, <2>2 DEF SendOne, Typed, TypeOK, rxVars, busVars
<1>3. CASE Begin
  <2>1. call' \in Calls /\ call'.in = session
    <3>1. PICK op \in {"speeds", "stop"}, v \in Speeds :
            call' = [op |-> op, at |-> 1, value |-> v, ok |-> TRUE, in |-> session]
      BY <1>0, <1>3 DEF Begin, NoCall
    <3>2. 1 \in 1..Len(ids) /\ session \in 0..MaxSessions
      BY <1>1
    <3> QED BY <3>1, <3>2 DEF Calls
  <2>2. call'.in <= session
    BY <1>1, <2>1
  <2> QED BY <1>3, <2>1, <2>2 DEF Begin, Typed, TypeOK, portVars, rxVars, busVars
<1>4. CASE Continue
  <2>1. ids[call.at] \in Ids
    BY <1>0, <1>1
  <2>2. SendFrame(ids[call.at], "speed", call.value) \/ UNCHANGED portVars
    BY <1>4 DEF Continue
  <2>3. tx' \in Seq(Commands) /\ Len(tx') <= TxRoom /\ open' = open
    <3>1. CASE UNCHANGED portVars
      BY <3>1 DEF Typed, TypeOK, portVars
    <3>2. CASE SendFrame(ids[call.at], "speed", call.value)
      BY <1>1, <2>1, <3>2, Sending DEF Ops
    <3> QED BY <2>2, <3>1, <3>2
  <2>4. call' \in Calls /\ call'.in <= session
    <3>1. PICK ok \in BOOLEAN :
            call' = IF call.at = Len(ids) THEN NoCall
                    ELSE [call EXCEPT !.at = call.at + 1, !.ok = ok]
      BY <1>1, <1>4 DEF Continue, FanOut
    <3>2. CASE call.at = Len(ids)
      BY <1>0, <1>1, <3>1, <3>2 DEF NoCall, Calls
    <3>3. CASE call.at # Len(ids)
      BY <1>0, <1>1, <3>1, <3>3, Calling
    <3> QED BY <3>2, <3>3
  <2>5. halted' \subseteq Ids
    BY <1>4 DEF Continue, Typed
  <2> QED BY <1>4, <2>3, <2>4, <2>5 DEF Continue, Typed, TypeOK, rxVars, busVars
<1>5. CASE Connect
  <2>1. {age', mode_age'} \subseteq [Ids -> 0..(Timeout + 1)]
    BY <1>0, <1>5 DEF Connect, Reset, Stale
  <2>2. owner' = <<"opening">> /\ late' = open
    BY <1>5 DEF Connect
  <2> QED BY <1>5, <2>1, <2>2 DEF Connect, Typed, TypeOK, portVars, busVars
<1>6. CASE ConnectOpened
  <2>1. session' \in 0..MaxSessions /\ call.in <= session' /\ open' \in BOOLEAN
    <3>1. CASE open /\ UNCHANGED <<open, session>>
      BY <1>1, <3>1
    <3>2. CASE session < MaxSessions /\ open' = TRUE /\ session' = session + 1
      BY <1>0, <1>1, <3>2
    <3> QED BY <1>6, <3>1, <3>2 DEF ConnectOpened
  <2>2. halted' \subseteq Ids /\ spoke' \subseteq Ids /\ said' \in [Ids -> SUBSET Modes]
    BY <1>6 DEF ConnectOpened, Typed
  <2>3. owner' = <<"opened">>
    BY <1>6 DEF ConnectOpened
  <2> QED BY <1>6, <2>1, <2>2, <2>3 DEF ConnectOpened, Typed, TypeOK, rxVars
<1>7. CASE ConnectFailed \/ ConnectDone
  <2>1. owner' = <<"idle">> /\ connected' \in BOOLEAN
    BY <1>7 DEF ConnectFailed, ConnectDone, Typed, TypeOK
  <2> QED BY <1>7, <2>1 DEF ConnectFailed, ConnectDone, Typed, TypeOK, portVars, rxVars, busVars
<1>8. CASE Disconnect
  <2>1. owner' = <<"stopping", 1>> \/ owner' = <<"closing">>
    BY <1>8 DEF Disconnect
  <2>2. 1 \in DOMAIN ids
    BY <1>0
  <2> QED BY <1>8, <2>1, <2>2 DEF Disconnect, Typed, TypeOK, portVars, rxVars, busVars
<1>9. CASE DisconnectStop
  <2>1. PICK i \in DOMAIN ids : owner = <<"stopping", i>>
    BY <1>9 DEF DisconnectStop, Typed, TypeOK
  <2>2. tx' \in Seq(Commands) /\ Len(tx') <= TxRoom /\ open' = open
    <3>1. SendFrame(ids[i], "speed", 0)
      BY <1>9, <2>1 DEF DisconnectStop
    <3> QED BY <1>0, <3>1, Sending DEF Ops
  <2>3. owner' = <<"closing">> \/ (i + 1 \in DOMAIN ids /\ owner' = <<"stopping", i + 1>>)
    BY <1>0, <1>9, <2>1 DEF DisconnectStop
  <2> QED BY <1>9, <2>2, <2>3 DEF DisconnectStop, Typed, TypeOK, rxVars, busVars
<1>10. CASE DisconnectClose
  <2>1. tx' = <<>> /\ air' = <<>> /\ open' = FALSE /\ owner' = <<"closed">>
    BY <1>10 DEF DisconnectClose, PortGone
  <2>2. tx' \in Seq(Commands) /\ Len(tx') <= TxRoom /\ air' \in Seq(BusBytes)
    BY <1>0, <2>1, EmptySeq
  <2> QED BY <1>10, <2>1, <2>2 DEF DisconnectClose, PortGone, Typed, TypeOK, rxVars
<1>11. CASE DisconnectDone
  <2>1. {age', mode_age'} \subseteq [Ids -> 0..(Timeout + 1)]
    BY <1>0, <1>11 DEF DisconnectDone, Reset, Stale
  <2>2. owner' = <<"idle">> /\ connected' = FALSE
    BY <1>11 DEF DisconnectDone
  <2> QED BY <1>11, <2>1, <2>2 DEF DisconnectDone, Typed, TypeOK, portVars, busVars
<1>12. CASE Receive
  <2>1. PICK n \in DOMAIN air : rx' = Newest(rx \o SubSeq(air, 1, n)) /\ air' = Drop(air, n)
    BY <1>12 DEF Receive
  <2>2. n \in 1..Len(air)
    BY <1>1, LenProperties
  <2>3. SubSeq(air, 1, n) \in Seq(BusBytes)
    BY <1>1, <2>2, PartOf
  <2>4. rx \o SubSeq(air, 1, n) \in Seq(BusBytes)
    BY <1>1, <2>3, ConcatProperties
  <2>5. rx' \in Seq(BusBytes) /\ Len(rx') <= Room
    BY <1>0, <2>1, <2>4, Keeping
  <2>6. air' \in Seq(BusBytes)
    BY <1>1, <2>1, <2>2, Dropping
  <2> QED BY <1>12, <2>5, <2>6 DEF Receive, Typed, TypeOK, portVars
<1>13. CASE ScanFrame
  <2>1. rx' \in Seq(BusBytes) /\ Len(rx') <= Room
    <3>1. rx' = Drop(rx, FrameLen) /\ FrameLen \in 0..Len(rx)
      BY <1>0, <1>1, <1>13 DEF ScanFrame
    <3>2. rx' \in Seq(BusBytes) /\ Len(rx') = Len(rx) - FrameLen
      <4>1. rx \in Seq(BusBytes)
        BY <1>1
      <4>2. Drop(rx, FrameLen) \in Seq(BusBytes) /\ Len(Drop(rx, FrameLen)) = Len(rx) - FrameLen
        BY <3>1, <4>1, Dropping
      <4> QED BY <3>1, <4>2
    <3>3. Len(rx) <= Room
      BY DEF Typed, TypeOK
    <3> QED BY <1>0, <1>1, <3>2, <3>3
  <2>2. /\ fb' \in [Ids -> [speed : Speeds, mode : Modes]]
        /\ {age', mode_age'} \subseteq [Ids -> 0..(Timeout + 1)]
    <3>1. rx[1][1] \in Replies
      BY <1>1, <1>13, Front DEF ScanFrame
    <3> QED BY <1>13, <3>1, Marking DEF ScanFrame, Typed, TypeOK
  <2>3. handled' \in {0, 1}
    BY <1>13 DEF ScanFrame, Typed
  <2> QED BY <1>13, <2>1, <2>2, <2>3 DEF ScanFrame, Typed, TypeOK, portVars, busVars
<1>14. CASE ScanByte \/ ScanEnd
  <2>1. rx' \in Seq(BusBytes) /\ Len(rx') <= Room
    <3>1. CASE ScanByte
      <4>1. rx' = Drop(rx, 1) /\ 1 \in 0..Len(rx)
        BY <1>0, <1>1, <3>1 DEF ScanByte
      <4>2. rx' \in Seq(BusBytes) /\ Len(rx') = Len(rx) - 1
        <5>1. rx \in Seq(BusBytes)
          BY <1>1
        <5>2. \A n \in 0..Len(rx) : /\ Drop(rx, n) \in Seq(BusBytes)
                                   /\ Len(Drop(rx, n)) = Len(rx) - n
          BY <5>1, Dropping
        <5> QED BY <4>1, <5>2
      <4>3. Len(rx) <= Room
        BY DEF Typed, TypeOK
      <4> QED BY <1>0, <1>1, <4>2, <4>3
    <3>2. CASE ScanEnd
      BY <3>2 DEF ScanEnd, Typed, TypeOK
    <3> QED BY <1>14, <3>1, <3>2
  <2>2. scanning' \in BOOLEAN
    BY <1>14 DEF ScanByte, ScanEnd, Typed, TypeOK
  <2> QED BY <1>14, <2>1, <2>2 DEF ScanByte, ScanEnd, Typed, TypeOK, portVars, busVars
<1>15. CASE PortFaults
  <2>1. tx' = <<>> /\ air' = <<>> /\ open' = FALSE
    BY <1>15 DEF PortFaults, PortGone
  <2>2. tx' \in Seq(Commands) /\ Len(tx') <= TxRoom /\ air' \in Seq(BusBytes)
    BY <1>0, <2>1, EmptySeq
  <2> QED BY <1>15, <2>1, <2>2 DEF PortFaults, PortGone, Typed, TypeOK, rxVars
<1>16. CASE ErrorCallback
  BY <1>16 DEF ErrorCallback, Typed, TypeOK, portVars, rxVars, busVars
<1>17. CASE Transmit
  <2> DEFINE f == Head(tx)
  <2>1. f \in Commands /\ Tail(tx) \in Seq(Commands) /\ Len(Tail(tx)) <= TxRoom
    <3>1. tx # <<>> /\ Len(tx) <= TxRoom
      BY <1>17 DEF Transmit, Typed, TypeOK
    <3>2. f \in Commands /\ Tail(tx) \in Seq(Commands) /\ Len(Tail(tx)) = Len(tx) - 1
      BY <1>1, <3>1, HeadTailProperties
    <3> QED BY <1>0, <1>1, <3>1, <3>2
  <2> HIDE DEF f
  <2>2. /\ motor' = [motor EXCEPT ![f.id] = Now(f)]
        /\ \E bytes : /\ bytes = BytesOf(Reply(f)) \/ bytes \in Spoilt(Reply(f))
                      /\ air' = air \o bytes
        /\ spoke' = spoke \cup {f.id}
        /\ said' = IF f.op = "mode" THEN [said EXCEPT ![f.id] = said[f.id] \cup {Now(f).mode}]
                   ELSE said
        /\ tx' = Tail(tx)
    BY <1>17 DEF Transmit, Now, Reply, f
  <2>3. f.id \in Ids
    BY <2>1 DEF Commands
  <2>4. Now(f) \in [speed : Speeds, mode : Modes]
    BY <2>1, Answering
  <2>5. motor' \in [Ids -> [speed : Speeds, mode : Modes]]
    BY <2>2, <2>3, <2>4 DEF Typed, TypeOK
  <2>6. air' \in Seq(BusBytes)
    BY <1>1, <2>1, <2>2, Answering, BytesBelong, ConcatProperties
  <2>7. spoke' \subseteq Ids /\ said' \in [Ids -> SUBSET Modes]
    <3>1. said[f.id] \cup {Now(f).mode} \in SUBSET Modes
      BY <2>3, <2>4 DEF Typed
    <3> QED BY <2>2, <2>3, <3>1 DEF Typed
  <2> QED BY <1>17, <2>1, <2>2, <2>5, <2>6, <2>7 DEF Transmit, Typed, TypeOK, rxVars
<1>18. CASE StrangerTalks
  <2>1. PICK id \in Strangers : air' = air \o BytesOf([id |-> id, op |-> "speed", value |-> 0])
    BY <1>18 DEF StrangerTalks
  <2>2. [id |-> id, op |-> "speed", value |-> 0] \in Replies
    BY <1>0 DEF Replies, Ops
  <2>3. air' \in Seq(BusBytes)
    BY <1>1, <2>1, <2>2, BytesBelong, ConcatProperties
  <2> QED BY <1>18, <2>3 DEF StrangerTalks, Typed, TypeOK, portVars, rxVars
<1>19. CASE Tick
  <2>1. {age', mode_age'} \subseteq [Ids -> 0..(Timeout + 1)]
    <3>1. age \in [Ids -> 0..(Timeout + 1)] /\ mode_age \in [Ids -> 0..(Timeout + 1)]
      BY DEF Typed, TypeOK
    <3>2. \A n \in 0..(Timeout + 1) :
            (IF n > Timeout THEN Timeout + 1 ELSE n + 1) \in 0..(Timeout + 1)
      BY <1>0
    <3>3. \A m \in [Ids -> 0..(Timeout + 1)] : Older(m) \in [Ids -> 0..(Timeout + 1)]
      BY <3>2 DEF Older
    <3> QED BY <1>19, <3>1, <3>3 DEF Tick
  <2> QED BY <1>19, <2>1 DEF Tick, Typed, TypeOK, portVars, busVars
<1>20. CASE UNCHANGED vars
  BY <1>20 DEF vars, Typed, TypeOK, portVars, rxVars, busVars
<1> QED
  BY <1>2, <1>3, <1>4, <1>5, <1>6, <1>7, <1>8, <1>9, <1>10, <1>11, <1>12, <1>13,
     <1>14, <1>15, <1>16, <1>17, <1>18, <1>19, <1>20
  DEF Next
-----------------------------------------------------------------------------
(* What the array says of its motors.                                        *)

\* A port that is closed carries nothing, and an idle ring holds no whole frame.
Quiet ==
  /\ ~open => ~scanning /\ tx = <<>> /\ air = <<>>
  /\ ~scanning => Len(rx) < FrameLen

\* What a byte says, its motor said in this session.
Heard(b, who, what) ==
  b[1].id \in Ids => /\ b[1].id \in who
                     /\ b[1].op = "mode" => b[1].value \in what[b[1].id]

\* The bytes on the bus are of this session, and so is the last one of any frame
\* that can still be cut out of the ring.
News ==
  /\ \A i \in 1..Len(air) : Heard(air[i], spoke, said)
  /\ \A i \in FrameLen..Len(rx) : Heard(rx[i], spoke, said)

\* The monitors are of this session too, unless the last Connect() came late.
Fresh == ~late =>
  /\ \A id \in Ids : /\ age[id] <= Timeout => id \in spoke
                     /\ mode_age[id] <= Timeout => fb[id].mode \in said[id]
  /\ owner = <<"opening">> => ~open /\ age = Stale /\ mode_age = Stale

HeardInv == Quiet /\ News /\ Fresh

\* What a motor has said stays said while the session lasts.
Recorded == spoke \subseteq spoke' /\ \A id \in Ids : said[id] \subseteq said'[id]

LEMMA StaysHeard ==
  ASSUME Recorded, NEW b, Heard(b, spoke, said)
  PROVE  Heard(b, spoke', said')
BY DEF Recorded, Heard

LEMMA QuietStep ==
  ASSUME Typed, Quiet, [Next]_vars
  PROVE  Quiet'
<1>1. Len(rx) \in Nat
  BY LenProperties DEF Typed
<1>2. CASE SendOne \/ DisconnectStop \/ Continue
  <2>1. open' = open /\ scanning' = scanning /\ rx' = rx /\ air' = air
    BY <1>2 DEF SendOne, DisconnectStop, Continue, SendFrame, rxVars, busVars, portVars
  <2>2. ~open => tx' = tx
    BY <1>2 DEF SendOne, DisconnectStop, Continue, SendFrame, Taken, portVars
  <2> QED BY <2>1, <2>2 DEF Quiet
<1>3. CASE Connect \/ DisconnectDone \/ Tick
  BY <1>3 DEF Connect, DisconnectDone, Tick, Quiet, portVars, busVars
<1>12. CASE Begin \/ ConnectFailed \/ ConnectDone \/ Disconnect \/ ErrorCallback
  <2>1. UNCHANGED <<open, tx, air, rx, scanning>>
    BY <1>12 DEF Begin, ConnectFailed, ConnectDone, Disconnect, ErrorCallback, portVars,
                 rxVars, busVars
  <2> QED BY <2>1 DEF Quiet
<1>4. CASE ConnectOpened
  BY <1>4 DEF ConnectOpened, Quiet, rxVars
<1>5. CASE DisconnectClose
  BY <1>5 DEF DisconnectClose, PortGone, Quiet, rxVars
<1>6. CASE PortFaults
  BY <1>6 DEF PortFaults, PortGone, IoFree, Quiet, rxVars
<1>7. CASE Receive
  BY <1>7 DEF Receive, Quiet, portVars
<1>8. CASE ScanFrame \/ ScanByte \/ ScanEnd
  BY <1>1, <1>8 DEF ScanFrame, ScanByte, ScanEnd, Quiet, portVars, busVars
<1>9. CASE Transmit
  BY <1>9 DEF Transmit, Quiet, rxVars
<1>10. CASE StrangerTalks
  BY <1>10 DEF StrangerTalks, Quiet, rxVars, portVars
<1>11. CASE UNCHANGED vars
  BY <1>11 DEF vars, Quiet, portVars, rxVars, busVars
<1> QED
  BY <1>2, <1>3, <1>4, <1>5, <1>6, <1>7, <1>8, <1>9, <1>10, <1>11, <1>12 DEF Next

(* Motors that answer, and strangers that talk.                              *)
LEMMA AirGrows ==
  ASSUME Typed, News, Recorded, NEW r \in Replies, Heard(<<r, 1>>, spoke', said'), rx' = rx,
         NEW bytes, bytes = BytesOf(r) \/ bytes \in Spoilt(r), air' = air \o bytes
  PROVE  News'
<1>1. bytes \in Seq(BusBytes) /\ air \in Seq(BusBytes) /\ Len(air) \in Nat /\ Len(bytes) \in Nat
      /\ \A i \in 1..Len(bytes) : bytes[i][1] = r
  BY BytesBelong, LenProperties DEF Typed
<1>2. Len(air') = Len(air) + Len(bytes)
      /\ \A i \in 1..(Len(air) + Len(bytes)) :
           air'[i] = IF i <= Len(air) THEN air[i] ELSE bytes[i - Len(air)]
  BY <1>1, ConcatProperties
<1>3. ASSUME NEW i \in 1..Len(air') PROVE Heard(air'[i], spoke', said')
  <2>1. CASE i <= Len(air)
    <3>1. air'[i] = air[i] /\ i \in 1..Len(air)
      BY <1>1, <1>2, <2>1
    <3>2. Heard(air[i], spoke, said)
      BY <3>1 DEF News
    <3> QED BY <3>1, <3>2, StaysHeard
  <2>2. CASE ~(i <= Len(air))
    <3>1. air'[i] = bytes[i - Len(air)] /\ i - Len(air) \in 1..Len(bytes)
      BY <1>1, <1>2, <2>2
    <3>2. air'[i][1] = r
      BY <1>1, <3>1
    <3>3. <<r, 1>>[1] = r
      OBVIOUS
    <3> QED BY <3>2, <3>3 DEF Heard
  <2> QED BY <2>1, <2>2
<1>4. ASSUME NEW i \in FrameLen..Len(rx') PROVE Heard(rx'[i], spoke', said')
  <2>1. Heard(rx[i], spoke, said) /\ rx' = rx
    BY <1>4 DEF News
  <2> QED BY <2>1, StaysHeard
<1> QED BY <1>3, <1>4 DEF News

LEMMA NewsStep ==
  ASSUME Typed, Quiet, News, [Next]_vars
  PROVE  News'
<1>1. /\ rx \in Seq(BusBytes) /\ air \in Seq(BusBytes)
      /\ Len(rx) \in Nat /\ Len(air) \in Nat /\ FrameLen \in Nat \ {0}
  BY Ranges, LenProperties DEF Typed
<1>2. CASE UNCHANGED <<rx, air, spoke, said>>
  BY <1>2 DEF News, Heard
<1>3. CASE ConnectOpened /\ ~open
  <2>1. air' = <<>> /\ Len(rx') < FrameLen /\ Len(rx') \in Nat
    BY <1>1, <1>3 DEF ConnectOpened, Quiet, rxVars
  <2>2. Len(air') = 0
    BY <2>1, EmptySeq
  <2> QED BY <1>1, <2>1, <2>2 DEF News
<1>4. CASE DisconnectClose \/ PortFaults
  <2>1. air' = <<>> /\ rx' = rx /\ spoke' = spoke /\ said' = said
    BY <1>4 DEF DisconnectClose, PortFaults, PortGone, rxVars
  <2>2. Len(air') = 0
    BY <2>1, EmptySeq
  <2> QED BY <2>1, <2>2 DEF News, Heard
<1>5. CASE Receive
  <2>1. PICK n \in DOMAIN air : rx' = Newest(rx \o SubSeq(air, 1, n)) /\ air' = Drop(air, n)
    BY <1>5 DEF Receive
  <2> DEFINE new == SubSeq(air, 1, n)
             all == rx \o new
  <2>2. n \in 1..Len(air) /\ n \in 0..Len(air)
    BY <1>1, LenProperties
  <2>3. /\ new \in Seq(BusBytes) /\ Len(new) = n
        /\ \A k \in 1..n : new[k] = air[k]
    <3>1. 1 \in 1..(Len(air) + 1) /\ n \in Int /\ n <= Len(air) /\ (n - 1) + 1 = n
          /\ 1 <= n /\ \A k \in 1..n : (1 + k) - 1 = k
      BY <1>1, <2>2
    <3> QED BY <1>1, <3>1, PartOf
  <2>4. /\ all \in Seq(BusBytes) /\ Len(all) = Len(rx) + n
        /\ \A i \in 1..(Len(rx) + n) : all[i] = IF i <= Len(rx) THEN rx[i] ELSE new[i - Len(rx)]
    <3> HIDE DEF new
    <3> QED BY <1>1, <2>3, ConcatProperties
  <2>5. /\ rx' \in Seq(BusBytes) /\ Len(rx') <= Len(all) /\ Len(rx') \in Nat
        /\ \A k \in 1..Len(rx') : rx'[k] = all[(Len(all) - Len(rx')) + k]
    <3>1. rx' = Newest(all) /\ Room \in Nat
      BY <2>1, Ranges
    <3> HIDE DEF all
    <3> QED BY <2>4, <3>1, Keeping, LenProperties
  <2>6. Len(rx) < FrameLen
    BY <1>5 DEF Receive, IoFree, Quiet
  <2>7. spoke' = spoke /\ said' = said
    BY <1>5 DEF Receive
  <2> HIDE DEF new, all
  <2>8. ASSUME NEW i \in FrameLen..Len(rx') PROVE Heard(rx'[i], spoke', said')
    <3> PICK k : k = (Len(all) - Len(rx')) + i
      OBVIOUS
    <3>1. i \in 1..Len(rx') /\ k \in 1..(Len(rx) + n) /\ ~(k <= Len(rx))
          /\ k - Len(rx) \in 1..n /\ k - Len(rx) \in 1..Len(air)
      <4>1. i \in Int /\ FrameLen <= i /\ i <= Len(rx')
        BY <1>1, <2>5
      <4>2. Len(all) = Len(rx) + n /\ Len(rx') <= Len(all) /\ Len(rx') \in Nat
            /\ n \in Int /\ 1 <= n /\ n <= Len(air)
        BY <1>1, <2>2, <2>4, <2>5
      <4>3. k \in Int /\ k = ((Len(rx) + n) - Len(rx')) + i
        BY <1>1, <4>1, <4>2
      <4>4. i >= 1 /\ FrameLen >= 1 /\ i \in 1..Len(rx')
        BY <1>1, <4>1, <4>2
      <4>5. k <= Len(rx) + n
        BY <1>1, <4>1, <4>2, <4>3
      <4>6. k >= i
        BY <1>1, <4>1, <4>2, <4>3
      <4>7. ~(k <= Len(rx))
        BY <1>1, <2>6, <4>1, <4>3, <4>6
      <4>8. k - Len(rx) \in 1..n /\ k \in 1..(Len(rx) + n)
        <5>1. k \in Int /\ n \in Int /\ Len(rx) \in Int /\ 1 <= k
          BY <1>1, <4>2, <4>3, <4>4, <4>6
        <5> QED BY <4>5, <4>7, <5>1
      <4>9. k - Len(rx) \in 1..Len(air)
        BY <1>1, <4>2, <4>8
      <4> QED BY <4>4, <4>7, <4>8, <4>9
    <3>2. rx'[i] = all[k]
      BY <2>5, <3>1
    <3>3. all[k] = new[k - Len(rx)]
      BY <2>4, <3>1
    <3>4. new[k - Len(rx)] = air[k - Len(rx)]
      BY <2>3, <3>1
    <3>5. Heard(rx'[i], spoke, said)
      BY <3>1, <3>2, <3>3, <3>4 DEF News
    <3> QED BY <2>7, <3>5
  <2>9. ASSUME NEW i \in 1..Len(air') PROVE Heard(air'[i], spoke', said')
    <3>1. Len(air') = Len(air) - n /\ \A k \in 1..(Len(air) - n) : air'[k] = air[n + k]
      BY <1>1, <2>1, <2>2, Dropping
    <3>2. air'[i] = air[n + i] /\ n + i \in 1..Len(air)
      BY <1>1, <2>2, <3>1
    <3>3. Heard(air'[i], spoke, said)
      BY <3>2 DEF News
    <3> QED BY <2>7, <3>3
  <2> QED BY <2>8, <2>9 DEF News
<1>6. CASE ScanFrame \/ ScanByte
  <2>1. PICK n \in 1..Len(rx) : rx' = Drop(rx, n)
    <3>1. FrameLen \in 1..Len(rx) /\ 1 \in 1..Len(rx)
      BY <1>1, <1>6 DEF ScanFrame, ScanByte
    <3> QED BY <1>6, <3>1 DEF ScanFrame, ScanByte
  <2>2. air' = air /\ spoke' = spoke /\ said' = said
    BY <1>6 DEF ScanFrame, ScanByte, busVars
  <2>3. n \in 0..Len(rx) /\ n \in Nat
    BY <1>1
  <2>4. Len(rx') = Len(rx) - n /\ \A k \in 1..(Len(rx) - n) : rx'[k] = rx[n + k]
    BY <1>1, <2>1, <2>3, Dropping
  <2>5. ASSUME NEW i \in FrameLen..Len(rx') PROVE Heard(rx'[i], spoke', said')
    <3>1. rx'[i] = rx[n + i] /\ n + i \in FrameLen..Len(rx)
      BY <1>1, <2>3, <2>4
    <3>2. Heard(rx'[i], spoke, said)
      BY <3>1 DEF News
    <3> QED BY <2>2, <3>2
  <2> QED BY <2>2, <2>5 DEF News
<1>7. CASE Transmit
  <2> DEFINE f == Head(tx)
  <2>1. f \in Commands
    BY <1>7, HeadTailProperties DEF Transmit, Typed
  <2> HIDE DEF f
  <2>2. /\ \E bytes : /\ bytes = BytesOf(Reply(f)) \/ bytes \in Spoilt(Reply(f))
                      /\ air' = air \o bytes
        /\ spoke' = spoke \cup {f.id}
        /\ said' = IF f.op = "mode" THEN [said EXCEPT ![f.id] = said[f.id] \cup {Now(f).mode}]
                   ELSE said
        /\ rx' = rx
    BY <1>7 DEF Transmit, Now, Reply, f, rxVars
  <2>3. /\ Reply(f) \in Replies /\ Reply(f).id = f.id /\ Reply(f).op = f.op
        /\ f.op = "mode" => Reply(f).value = Now(f).mode
        /\ f.id \in Ids /\ said \in [Ids -> SUBSET Modes]
    BY <2>1, Answering DEF Typed, Commands
  <2>4. Recorded
    BY <2>2, <2>3 DEF Recorded
  <2>5. Heard(<<Reply(f), 1>>, spoke', said')
    <3>1. PICK r : r = Reply(f)
      OBVIOUS
    <3>2. r.id \in spoke' /\ (r.op = "mode" => r.value \in said'[r.id])
      BY <2>2, <2>3, <3>1
    <3>3. <<r, 1>>[1] = r
      OBVIOUS
    <3> QED BY <3>1, <3>2, <3>3 DEF Heard
  <2> QED BY <2>2, <2>3, <2>4, <2>5, AirGrows
<1>8. CASE StrangerTalks
  <2>1. PICK id \in Strangers : air' = air \o BytesOf([id |-> id, op |-> "speed", value |-> 0])
    BY <1>8 DEF StrangerTalks
  <2>2. PICK r : r = [id |-> id, op |-> "speed", value |-> 0]
    OBVIOUS
  <2>3. r \in Replies /\ r.id \notin Ids
    BY <2>2, Ranges DEF Replies, Ops
  <2>4. Recorded /\ rx' = rx
    BY <1>8 DEF StrangerTalks, Recorded, rxVars
  <2>5. Heard(<<r, 1>>, spoke', said')
    BY <2>3 DEF Heard
  <2> QED BY <2>1, <2>2, <2>3, <2>4, <2>5, AirGrows
<1>9. CASE ~ (UNCHANGED <<rx, air, spoke, said>>) /\ ~ ((ConnectOpened /\ ~open)
               \/ DisconnectClose \/ PortFaults \/ Receive \/ ScanFrame \/ ScanByte
               \/ Transmit \/ StrangerTalks)
  BY <1>9 DEF Next, SendOne, Begin, Continue, Connect, ConnectOpened, ConnectFailed, ConnectDone,
     Disconnect, DisconnectStop, DisconnectDone, ScanEnd, ErrorCallback, Tick, vars, rxVars,
     busVars
<1> QED
  BY <1>2, <1>3, <1>4, <1>5, <1>6, <1>7, <1>8, <1>9

LEMMA FreshStep ==
  ASSUME Typed, HeardInv, [Next]_vars
  PROVE  Fresh'
<1>1. /\ age \in [Ids -> 0..(Timeout + 1)] /\ mode_age \in [Ids -> 0..(Timeout + 1)]
      /\ Timeout \in Nat
  BY Ranges DEF Typed, TypeOK
<1>2. \A id \in Ids : ~(Stale[id] <= Timeout)
  BY <1>1 DEF Stale
<1>3. CASE UNCHANGED <<open, age, mode_age, fb, spoke, said, late>> /\ owner' # <<"opening">>
  BY <1>3 DEF HeardInv, Fresh
<1>4. CASE UNCHANGED <<open, owner, age, mode_age, fb, spoke, said, late>>
  BY <1>4 DEF HeardInv, Fresh
<1>5. CASE Connect
  BY <1>2, <1>5 DEF Connect, Reset, Fresh, portVars, busVars
<1>6. CASE ConnectOpened /\ ~open
  <2>1. /\ age' = age /\ mode_age' = mode_age /\ late' = late
        /\ owner = <<"opening">> /\ owner' = <<"opened">>
    BY <1>6 DEF ConnectOpened, rxVars
  <2>2. ~late => age = Stale /\ mode_age = Stale
    BY <2>1 DEF HeardInv, Fresh
  <2>3. <<"opened">> # <<"opening">>
    <3>1. <<"opened">>[1] # <<"opening">>[1]
      OBVIOUS
    <3> QED BY <3>1
  <2> QED BY <1>2, <2>1, <2>2, <2>3 DEF Fresh
<1>7. CASE DisconnectClose \/ PortFaults
  <2>1. /\ open' = FALSE /\ UNCHANGED <<age, mode_age, fb, spoke, said, late>>
        /\ owner' = owner \/ owner' = <<"closed">>
    BY <1>7 DEF DisconnectClose, PortFaults, PortGone, rxVars
  <2>2. <<"closed">> # <<"opening">>
    <3>1. <<"closed">>[1] # <<"opening">>[1]
      OBVIOUS
    <3> QED BY <3>1
  <2> QED BY <2>1, <2>2 DEF HeardInv, Fresh
<1>8. CASE DisconnectDone
  <2>1. /\ age' = Stale /\ mode_age' = Stale /\ late' = late /\ owner' = <<"idle">>
    BY <1>8 DEF DisconnectDone, Reset
  <2>2. <<"idle">> # <<"opening">>
    <3>1. <<"idle">>[1] # <<"opening">>[1]
      OBVIOUS
    <3> QED BY <3>1
  <2> QED BY <1>2, <2>1, <2>2 DEF Fresh
<1>9. CASE ScanFrame
  <2>1. UNCHANGED <<open, owner, spoke, said, late>> /\ scanning
    BY <1>9 DEF ScanFrame, portVars, busVars
  <2>2. open
    BY <2>1 DEF HeardInv, Quiet
  <2>3. CASE UNCHANGED <<fb, age, mode_age>>
    BY <2>1, <2>3 DEF HeardInv, Fresh
  <2>4. CASE rx[1][1].id \in Ids /\ Mark(rx[1][1])
    <3> DEFINE f == rx[1][1]
    <3>1. f \in Replies /\ rx[FrameLen] = <<f, FrameLen>>
      BY <1>9, Front DEF ScanFrame
    <3>2. FrameLen \in FrameLen..Len(rx)
      BY <1>9, Ranges, LenProperties DEF ScanFrame, Typed
    <3> HIDE DEF f
    <3>3. Heard(<<f, FrameLen>>, spoke, said)
      BY <3>1, <3>2 DEF HeardInv, News
    <3>4. f.id \in Ids /\ Mark(f)
      BY <2>4 DEF f
    <3>5. f.id \in spoke /\ (f.op = "mode" => f.value \in said[f.id])
      <4>1. <<f, FrameLen>>[1] = f
        OBVIOUS
      <4> QED BY <3>3, <3>4, <4>1 DEF Heard
    <3>6. \A id \in Ids :
              /\ id # f.id => /\ fb'[id] = fb[id] /\ age'[id] = age[id]
                              /\ mode_age'[id] = mode_age[id]
              /\ id = f.id => /\ f.op # "mode" => /\ mode_age'[id] = mode_age[id]
                                                  /\ fb'[id].mode = fb[id].mode
                              /\ f.op = "mode" => fb'[id].mode = f.value
      BY <3>1, <3>4, Marking
    <3>7. ASSUME ~late, NEW id \in Ids
          PROVE  /\ age'[id] <= Timeout => id \in spoke
                 /\ mode_age'[id] <= Timeout => fb'[id].mode \in said[id]
      <4>1. /\ age[id] <= Timeout => id \in spoke
            /\ mode_age[id] <= Timeout => fb[id].mode \in said[id]
        BY <3>7 DEF HeardInv, Fresh
      <4>2. CASE id # f.id
        BY <3>6, <4>1, <4>2
      <4>3. CASE id = f.id /\ f.op = "mode"
        BY <3>5, <3>6, <4>3
      <4>4. CASE id = f.id /\ f.op # "mode"
        BY <3>5, <3>6, <4>1, <4>4
      <4> QED BY <4>2, <4>3, <4>4
    <3>8. ~late => owner # <<"opening">>
      BY <2>2 DEF HeardInv, Fresh
    <3> QED BY <2>1, <3>7, <3>8 DEF Fresh
  <2> QED BY <1>9, <2>3, <2>4 DEF ScanFrame
<1>10. CASE Transmit
  <2>1. UNCHANGED <<open, owner, age, mode_age, fb, late>>
    BY <1>10 DEF Transmit, rxVars
  <2>2. tx \in Seq(Commands) /\ tx # <<>> /\ said \in [Ids -> SUBSET Modes]
    BY <1>10 DEF Transmit, Typed
  <2> DEFINE f == Head(tx)
  <2>3. f.id \in Ids
    <3>1. f \in Commands
      BY <2>2, HeadTailProperties
    <3> HIDE DEF f
    <3> QED BY <3>1 DEF Commands
  <2> HIDE DEF f
  <2>4. /\ spoke' = spoke \cup {f.id}
        /\ said' = IF f.op = "mode" THEN [said EXCEPT ![f.id] = said[f.id] \cup {Now(f).mode}]
                   ELSE said
    BY <1>10 DEF Transmit, Now, f
  <2>5. spoke \subseteq spoke' /\ \A id \in Ids : said[id] \subseteq said'[id]
    BY <2>2, <2>3, <2>4
  <2> QED BY <2>1, <2>5 DEF HeardInv, Fresh
<1>11. CASE Tick
  <2>1. /\ UNCHANGED <<open, owner, fb, spoke, said, late>>
        /\ age' = Older(age) /\ mode_age' = Older(mode_age)
    BY <1>11 DEF Tick, portVars, busVars
  <2>2. \A id \in Ids : /\ age'[id] <= Timeout => age[id] <= Timeout
                        /\ mode_age'[id] <= Timeout => mode_age[id] <= Timeout
    <3>1. \A m \in [Ids -> 0..(Timeout + 1)] : \A id \in Ids :
            Older(m)[id] <= Timeout => m[id] <= Timeout
      BY <1>1 DEF Older
    <3> QED BY <1>1, <2>1, <3>1
  <2>3. Older(Stale) = Stale
    BY <1>1 DEF Older, Stale
  <2> QED BY <2>1, <2>2, <2>3 DEF HeardInv, Fresh
<1>12. CASE ConnectOpened /\ open
  <2>1. UNCHANGED <<open, age, mode_age, fb, spoke, said, late>> /\ owner' = <<"opened">>
    BY <1>12 DEF ConnectOpened, rxVars
  <2>2. <<"opened">> # <<"opening">>
    <3>1. <<"opened">>[1] # <<"opening">>[1]
      OBVIOUS
    <3> QED BY <3>1
  <2> QED BY <1>3, <2>1, <2>2
<1>13. CASE ConnectFailed \/ ConnectDone \/ Disconnect \/ DisconnectStop
  <2>1. UNCHANGED <<open, age, mode_age, fb, spoke, said, late>>
    BY <1>13 DEF ConnectFailed, ConnectDone, Disconnect, DisconnectStop, SendFrame, portVars,
                 rxVars, busVars
  <2>2. owner'[1] # "opening"
    BY <1>13 DEF ConnectFailed, ConnectDone, Disconnect, DisconnectStop
  <2>3. owner' # <<"opening">>
    <3>1. <<"opening">>[1] = "opening"
      OBVIOUS
    <3> QED BY <2>2, <3>1
  <2> QED BY <1>3, <2>1, <2>3
<1>14. CASE SendOne \/ Begin \/ Continue \/ Receive \/ ScanByte \/ ScanEnd
            \/ ErrorCallback \/ StrangerTalks \/ UNCHANGED vars
  <2>1. UNCHANGED <<open, owner, age, mode_age, fb, spoke, said, late>>
    BY <1>14 DEF SendOne, Begin, Continue, SendFrame, Receive, ScanByte, ScanEnd, ErrorCallback,
                 StrangerTalks, vars, portVars, rxVars, busVars
  <2> QED BY <1>4, <2>1
<1> QED
  BY <1>5, <1>6, <1>7, <1>8, <1>9, <1>10, <1>11, <1>12, <1>13, <1>14 DEF Next

(* The array's state keeps its type, for every list of ids and every port.   *)
THEOREM ArrayTyping == Spec => []TypeOK
<1>1. Spec => []Typed
  BY TypedInit, TypedStep, PTL DEF Spec
<1>2. Typed => TypeOK
  BY DEF Typed
<1> QED BY <1>1, <1>2, PTL

(* ddsm_210_array.cpp:369 and Health(): a mode the array reports was reported by
   its motor in this session, and an array that is ok has heard from every motor
   in it - whatever is lost or damaged on the bus, and however often the port
   faults and opens again, when the last Connect() found the port closed.      *)
THEOREM ArrayHears == Spec => []HeardThisSession
<1>1. Init => HeardInv
  <2>1. ASSUME Init PROVE HeardInv
    <3>1. Len(rx) = 0 /\ Len(air) = 0 /\ FrameLen \in Nat \ {0} /\ Timeout \in Nat
      BY <2>1, Ranges, EmptySeq DEF Init
    <3>2. Quiet
      BY <2>1, <3>1 DEF Init, Quiet
    <3>3. News
      BY <3>1 DEF News
    <3>4. Fresh
      <4>1. \A id \in Ids : ~(Stale[id] <= Timeout)
        BY <3>1 DEF Stale
      <4> QED BY <2>1, <4>1 DEF Init, Fresh
    <3> QED BY <3>2, <3>3, <3>4 DEF HeardInv
  <2> QED BY <2>1
<1>2. Typed /\ HeardInv /\ [Next]_vars => HeardInv'
  BY QuietStep, NewsStep, FreshStep DEF HeardInv
<1>3. Typed /\ HeardInv => HeardThisSession
  <2>1. ASSUME Typed, HeardInv, ~late PROVE ModeIsReported /\ NoSilentMember
    <3>1. \A id \in Ids : /\ age[id] <= Timeout => id \in spoke
                          /\ mode_age[id] <= Timeout => fb[id].mode \in said[id]
      BY <2>1 DEF HeardInv, Fresh
    <3>2. /\ age \in [Ids -> 0..(Timeout + 1)] /\ mode_age \in [Ids -> 0..(Timeout + 1)]
          /\ Timeout \in Nat
      BY <2>1, Ranges DEF Typed, TypeOK
    <3>3. ModeIsReported
      BY <3>1, <3>2 DEF ModeIsReported, GetMode
    <3>4. NoSilentMember
      BY <2>1, <3>1 DEF NoSilentMember, Health, Typed
    <3> QED BY <3>3, <3>4
  <2> QED BY <2>1 DEF HeardThisSession
<1> QED BY <1>1, <1>2, <1>3, TypedInit, TypedStep, PTL DEF Spec

(* Resynchronising never costs an intact frame: while the loop of ProcessRx runs,
   each step loses just the frame it handles, and it ends with less than a frame. *)
THEOREM FramesHandled == Spec => FramesAreHandled
<1>1. ASSUME Typed, [Next]_vars, scanning
      PROVE  /\ Frames(rx') = Frames(rx) - (IF handled' = handled THEN 0 ELSE 1)
             /\ scanning' \/ Len(rx') < FrameLen
  <2>1. rx \in Seq(BusBytes) /\ FrameLen \in Nat \ {0} /\ handled \in {0, 1}
        /\ Frames(rx) \in Int
    <3>1. rx \in Seq(BusBytes) /\ FrameLen \in Nat \ {0} /\ handled \in {0, 1}
      BY <1>1, Ranges DEF Typed
    <3> QED BY <3>1, Counting, FS_CardinalityType
  <2>2. CASE ScanFrame
    <3>1. Frames(rx') = Frames(rx) - 1
      BY <2>1, <2>2, FrameCostsItself, LenProperties DEF ScanFrame
    <3>2. handled' # handled /\ scanning' = scanning
      BY <2>1, <2>2 DEF ScanFrame
    <3> QED BY <1>1, <3>1, <3>2
  <2>3. CASE ScanByte
    <3>1. Frames(rx') = Frames(rx)
      BY <2>1, <2>3, ByteCostsNone, LenProperties DEF ScanByte
    <3>2. handled' = handled /\ scanning' = scanning
      BY <2>3 DEF ScanByte
    <3> QED BY <1>1, <2>1, <3>1, <3>2
  <2>4. CASE ScanEnd
    <3>1. rx' = rx /\ handled' = handled /\ Len(rx) < FrameLen
      BY <2>4 DEF ScanEnd
    <3> QED BY <2>1, <3>1
  <2>5. CASE UNCHANGED <<rx, handled, scanning>>
    BY <1>1, <2>1, <2>5
  <2>6. ~Receive
    BY <1>1 DEF Receive, IoFree
  <2> QED
    BY <1>1, <2>2, <2>3, <2>4, <2>5, <2>6
    DEF Next, SendOne, Begin, Continue, SendFrame, Connect, ConnectOpened, ConnectFailed,
        ConnectDone, Disconnect, DisconnectStop, DisconnectClose, DisconnectDone, PortFaults,
        ErrorCallback, Transmit, StrangerTalks, Tick, vars, rxVars
<1>2. Typed /\ [Next]_vars =>
        [scanning => /\ Frames(rx') = Frames(rx) - (IF handled' = handled THEN 0 ELSE 1)
                     /\ scanning' \/ Len(rx') < FrameLen]_vars
  BY <1>1
<1> QED BY <1>2, TypedInit, TypedStep, PTL DEF Spec, FramesAreHandled
-----------------------------------------------------------------------------
(* Stopping.                                                                 *)

\* The k-th frame the port holds sets the speed of a motor.
Sets(k, id) == tx[k].id = id /\ tx[k].op = "speed"

\* Once the port has sent what it holds, the motor stands.
Ends(id) ==
  /\ (\A k \in 1..Len(tx) : ~Sets(k, id)) => motor[id].speed = 0
  /\ \A k \in 1..Len(tx) :
       Sets(k, id) /\ (\A j \in (k + 1)..Len(tx) : ~Sets(j, id)) => tx[k].value = 0

\* While the port is open: a motor that was told to stop ends up standing, and so
\* does one that a Stop() under way, with no failure so far, has passed.
Stopping == open =>
  /\ \A id \in halted : Ends(id)
  /\ call.op = "stop" /\ call.ok /\ call.in = session =>
       \A j \in 1..(call.at - 1) : Ends(ids[j])

StopInv == Stopping /\ (call.op = "stop" => call.value = 0)

(* What another frame does to the end of a motor's command.                  *)
LEMMA OneMore ==
  ASSUME Typed, NEW c \in Commands, tx' = Append(tx, c), motor' = motor, NEW id \in Ids
  PROVE  /\ c.id = id /\ c.op = "speed" /\ c.value = 0 => Ends(id)'
         /\ ~(c.id = id /\ c.op = "speed") /\ Ends(id) => Ends(id)'
<1>1. /\ tx \in Seq(Commands) /\ Len(tx) \in Nat /\ Len(tx') = Len(tx) + 1
      /\ \A k \in 1..Len(tx) : tx'[k] = tx[k]
      /\ tx'[Len(tx) + 1] = c
  BY LenProperties, AppendProperties DEF Typed
<1>2. PICK n \in 1..Len(tx') : n = Len(tx) + 1
  BY <1>1
<1>3. ASSUME c.id = id /\ c.op = "speed" /\ c.value = 0 PROVE Ends(id)'
  <2>1. Sets(n, id)'
    BY <1>1, <1>2, <1>3 DEF Sets
  <2>2. ASSUME NEW k \in 1..Len(tx'), \A j \in (k + 1)..Len(tx') : ~Sets(j, id)'
        PROVE  tx'[k].value = 0
    <3>1. ~(k < n)
      <4>1. k < n => n \in (k + 1)..Len(tx')
        BY <1>1, <1>2
      <4> QED BY <2>1, <2>2, <4>1
    <3>2. k = n
      BY <1>1, <1>2, <3>1
    <3> QED BY <1>1, <1>2, <1>3, <3>2
  <2> QED BY <1>2, <2>1, <2>2 DEF Ends
<1>4. ASSUME ~(c.id = id /\ c.op = "speed"), Ends(id) PROVE Ends(id)'
  <2>1. ~Sets(n, id)' /\ \A k \in 1..Len(tx) : Sets(k, id)' <=> Sets(k, id)
    BY <1>1, <1>2, <1>4 DEF Sets
  <2>2. ASSUME \A k \in 1..Len(tx') : ~Sets(k, id)' PROVE motor'[id].speed = 0
    <3>1. \A k \in 1..Len(tx) : ~Sets(k, id)
      BY <1>1, <2>1, <2>2
    <3> QED BY <1>4, <3>1 DEF Ends
  <2>3. ASSUME NEW k \in 1..Len(tx'), Sets(k, id)', \A j \in (k + 1)..Len(tx') : ~Sets(j, id)'
        PROVE  tx'[k].value = 0
    <3>1. k \in 1..Len(tx)
      <4>1. k # n
        BY <2>1, <2>3
      <4> QED BY <1>1, <1>2, <4>1
    <3>2. \A j \in (k + 1)..Len(tx) : ~Sets(j, id)
      <4>1. TAKE j \in (k + 1)..Len(tx)
      <4>2. j \in (k + 1)..Len(tx') /\ j \in 1..Len(tx)
        BY <1>1, <3>1
      <4> QED BY <2>1, <2>3, <4>2
    <3>3. Sets(k, id)
      BY <2>1, <2>3, <3>1
    <3> QED BY <1>1, <1>4, <3>1, <3>2, <3>3 DEF Ends
  <2> QED BY <2>2, <2>3 DEF Ends
<1> QED BY <1>3, <1>4

(* A frame sent, whether the port took it or not.                            *)
LEMMA SentOrNot ==
  ASSUME Typed, NEW c \in Ids, NEW op \in Ops, NEW value \in Speeds, SendFrame(c, op, value),
         motor' = motor, NEW id \in Ids
  PROVE  /\ c = id /\ op = "speed" /\ value = 0 /\ Taken => Ends(id)'
         /\ Ends(id) /\ (c # id \/ op # "speed" \/ value = 0 \/ ~Taken) => Ends(id)'
<1>1. [id |-> c, op |-> op, value |-> value] \in Commands
  BY DEF Commands
<1>2. CASE Taken
  <2>1. PICK f : f = [id |-> c, op |-> op, value |-> value]
    OBVIOUS
  <2>2. tx' = Append(tx, f) /\ f \in Commands /\ f.id = c /\ f.op = op /\ f.value = value
    BY <1>1, <1>2, <2>1 DEF SendFrame
  <2> QED BY <1>2, <2>2, OneMore
<1>3. CASE ~Taken
  <2>1. tx' = tx
    BY <1>3 DEF SendFrame
  <2> QED BY <1>3, <2>1 DEF Ends, Sets
<1> QED BY <1>2, <1>3

(* The motor takes a frame.                                                  *)
LEMMA OneLess ==
  ASSUME Typed, tx # <<>>, tx' = Tail(tx), NEW id \in Ids, Ends(id),
         motor' = [motor EXCEPT ![Head(tx).id] = Now(Head(tx))]
  PROVE  Ends(id)'
<1> DEFINE f == Head(tx)
<1>1. /\ tx \in Seq(Commands) /\ Len(tx) \in Nat \ {0} /\ f = tx[1] /\ f \in Commands
      /\ Len(tx') = Len(tx) - 1
      /\ \A k \in 1..Len(tx') : tx'[k] = tx[k + 1]
  <2>1. tx \in Seq(Commands) /\ Len(tx) \in Nat \ {0}
    BY EmptySeq DEF Typed
  <2> QED BY <2>1, HeadTailProperties
<1> HIDE DEF f
<1>2. motor' = [motor EXCEPT ![f.id] = Now(f)] /\ motor \in [Ids -> [speed : Speeds, mode : Modes]]
      /\ f.id \in Ids
  BY <1>1 DEF f, Typed, TypeOK, Commands
<1>3. /\ f.op = "speed" => Now(f).speed = f.value
      /\ f.op # "speed" => Now(f).speed = motor[f.id].speed
  BY <1>1, Answering
<1>4. /\ motor'[id].speed = IF f.id = id THEN Now(f).speed ELSE motor[id].speed
  BY <1>2
<1>5. \A k \in 1..Len(tx') : Sets(k, id)' <=> Sets(k + 1, id)
  BY <1>1 DEF Sets
<1>6. Sets(1, id) <=> f.id = id /\ f.op = "speed"
  BY <1>1 DEF Sets
<1>7. ASSUME \A k \in 1..Len(tx') : ~Sets(k, id)' PROVE motor'[id].speed = 0
  <2>1. \A j \in 2..Len(tx) : ~Sets(j, id)
    <3>1. TAKE j \in 2..Len(tx)
    <3>2. j - 1 \in 1..Len(tx') /\ (j - 1) + 1 = j
      BY <1>1
    <3> QED BY <1>5, <1>7, <3>2
  <2>2. CASE Sets(1, id)
    <3>1. 1 \in 1..Len(tx) /\ 1 + 1 = 2
      BY <1>1
    <3>2. tx[1].value = 0
      BY <2>1, <2>2, <3>1 DEF Ends
    <3> QED BY <1>1, <1>3, <1>4, <1>6, <2>2, <3>2
  <2>3. CASE ~Sets(1, id)
    <3>1. \A k \in 1..Len(tx) : ~Sets(k, id)
      <4>1. TAKE k \in 1..Len(tx)
      <4>2. k = 1 \/ k \in 2..Len(tx)
        BY <1>1
      <4> QED BY <2>1, <2>3, <4>2
    <3>2. motor[id].speed = 0
      BY <3>1 DEF Ends
    <3> QED BY <1>3, <1>4, <1>6, <2>3, <3>2
  <2> QED BY <2>2, <2>3
<1>8. ASSUME NEW k \in 1..Len(tx'), Sets(k, id)', \A j \in (k + 1)..Len(tx') : ~Sets(j, id)'
      PROVE  tx'[k].value = 0
  <2>1. k + 1 \in 1..Len(tx) /\ tx'[k] = tx[k + 1] /\ Sets(k + 1, id)
    BY <1>1, <1>5, <1>8
  <2>2. \A j \in ((k + 1) + 1)..Len(tx) : ~Sets(j, id)
    <3>1. TAKE j \in ((k + 1) + 1)..Len(tx)
    <3>2. j - 1 \in (k + 1)..Len(tx') /\ (j - 1) + 1 = j /\ j - 1 \in 1..Len(tx')
      BY <1>1
    <3> QED BY <1>5, <1>8, <3>2
  <2> QED BY <2>1, <2>2 DEF Ends
<1> QED BY <1>7, <1>8 DEF Ends

(* The next frame of a Stop() or a SetSpeeds() under way.                    *)
LEMMA ContinueStops ==
  ASSUME Typed, StopInv, Continue
  PROVE  StopInv'
<1> DEFINE mute == call.op = "speeds" /\ ~IsConnected
           fine == FanOut(call.ok, ~mute /\ Taken)
           done == call.at = Len(ids)
<1>1. /\ call \in Calls /\ call.at \in 1..Len(ids) /\ call.ok \in BOOLEAN /\ call.value \in Speeds
      /\ Len(ids) \in Nat \ {0} /\ ids[call.at] \in Ids /\ call.op \in {"speeds", "stop"}
      /\ halted \subseteq Ids /\ "speed" \in Ops
  <2>1. call \in Calls /\ call.op # "none"
    BY DEF Typed, TypeOK, Continue
  <2>2. /\ call.at \in 1..Len(ids) /\ call.ok \in BOOLEAN /\ call.value \in Speeds
        /\ call.op \in {"speeds", "stop"}
    BY <2>1 DEF Calls
  <2>3. ids[call.at] \in Ids
    BY <2>2, Ranges
  <2> QED BY <2>1, <2>2, <2>3, Ranges DEF Typed, Ops
<1>7. PICK c \in Ids : c = ids[call.at]
  BY <1>1
<1>2. /\ call' = IF done THEN NoCall ELSE [call EXCEPT !.at = call.at + 1, !.ok = fine]
      /\ motor' = motor /\ session' = session /\ open' = open
      /\ fine = (call.ok /\ ~mute /\ Taken)
  BY DEF Continue, busVars, SendFrame, portVars, FanOut
<1>3. ~done => /\ call'.at = call.at + 1 /\ call'.ok = fine /\ call'.op = call.op
               /\ call'.value = call.value /\ call'.in = call.in
  <2>1. fine \in BOOLEAN
    BY <1>1, <1>2
  <2> HIDE DEF fine, mute
  <2> QED BY <1>1, <1>2, <2>1, Calling
<1>4. done => call'.op = "none"
  BY <1>2 DEF NoCall
<1>5. CASE call.op = "stop"
  <2>1. ~mute /\ call.value = 0
    BY <1>5 DEF StopInv
  <2>2. SendFrame(c, "speed", 0)
    BY <1>7, <2>1 DEF Continue
  <2>3. /\ Taken => Ends(c)'
        /\ \A id \in Ids : Ends(id) => Ends(id)'
    <3>1. 0 \in Speeds
      BY Ranges
    <3> QED BY <1>1, <1>2, <2>2, <3>1, SentOrNot
  <2>4. halted' = IF done /\ fine /\ call.in = session THEN Ids ELSE halted
    BY <1>5 DEF Continue
  <2> HIDE DEF mute, fine
  <2>5. ASSUME open, call.in = session, fine, NEW j \in 1..call.at PROVE Ends(ids[j])'
    <3>1. Taken /\ call.ok
      BY <1>2, <2>1, <2>5
    <3>2. CASE j = call.at
      BY <1>7, <2>3, <3>1, <3>2
    <3>3. CASE j # call.at
      <4>1. j \in 1..(call.at - 1) /\ ids[j] \in Ids
        BY <1>1, <2>5, <3>3, Ranges
      <4>2. Ends(ids[j])
        BY <1>5, <2>5, <3>1, <4>1 DEF StopInv, Stopping
      <4>3. PICK id \in Ids : id = ids[j]
        BY <4>1
      <4>4. Ends(id)'
        BY <2>3, <4>2, <4>3
      <4> QED BY <4>3, <4>4
    <3> QED BY <3>2, <3>3
  <2>6. ASSUME open, NEW id \in halted' PROVE Ends(id)'
    <3>1. CASE halted' = halted
      BY <1>1, <2>3, <2>6, <3>1 DEF StopInv, Stopping
    <3>2. CASE done /\ fine /\ call.in = session /\ halted' = Ids
      <4>1. PICK j \in 1..Len(ids) : ids[j] = id
        BY <2>6, <3>2, Ranges
      <4>2. j \in 1..call.at
        BY <3>2
      <4>3. Ends(ids[j])'
        BY <2>5, <2>6, <3>2, <4>2
      <4> QED BY <4>1, <4>3
    <3> QED BY <2>4, <3>1, <3>2
  <2>7. ASSUME open, call'.op = "stop", call'.ok, call'.in = session,
               NEW j \in 1..(call'.at - 1)
        PROVE  Ends(ids[j])'
    <3>1. ~done
      BY <1>4, <2>7
    <3>2. call'.in = call.in /\ call'.ok = fine /\ call'.at = call.at + 1
      BY <1>3, <3>1
    <3>3. call.in = session /\ fine
      BY <2>7, <3>2
    <3>4. j \in 1..call.at
      BY <1>1, <2>7, <3>2
    <3> QED BY <2>5, <2>7, <3>3, <3>4
  <2>8. call'.op = "stop" => call'.value = 0
    BY <1>3, <1>4, <2>1
  <2> QED BY <1>2, <2>6, <2>7, <2>8 DEF StopInv, Stopping
<1>6. CASE call.op = "speeds"
  <2>1. call'.op # "stop"
    BY <1>3, <1>4, <1>6
  <2>2. ASSUME open, NEW id \in halted' PROVE Ends(id)'
    <3>1. halted' = IF call.value # 0 /\ ~mute /\ Taken THEN halted \ {c} ELSE halted
      BY <1>6, <1>7 DEF Continue
    <3>2. id \in Ids /\ id \in halted /\ Ends(id)
      BY <1>1, <2>2, <3>1 DEF StopInv, Stopping
    <3>3. CASE mute
      <4>1. tx' = tx
        BY <3>3 DEF Continue, portVars
      <4> QED BY <1>2, <3>2, <4>1 DEF Ends, Sets
    <3>4. CASE ~mute
      <4>1. SendFrame(c, "speed", call.value)
        BY <1>7, <3>4 DEF Continue
      <4>2. c # id \/ call.value = 0 \/ ~Taken
        BY <2>2, <3>1, <3>4
      <4> HIDE DEF mute
      <4> QED BY <1>1, <1>2, <3>2, <4>1, <4>2, SentOrNot
    <3> QED BY <3>3, <3>4
  <2> QED BY <1>2, <2>1, <2>2 DEF StopInv, Stopping
<1> QED BY <1>1, <1>5, <1>6

LEMMA StopStep ==
  ASSUME Typed, StopInv, [Next]_vars
  PROVE  StopInv'
<1>1. /\ call \in Calls /\ halted \subseteq Ids /\ session \in Nat
      /\ call.in \in Nat /\ call.in <= session
  BY Ranges DEF Typed, TypeOK, Calls
<1>2. CASE UNCHANGED <<open, tx, motor, halted, call, session>>
  BY <1>2 DEF StopInv, Stopping, Ends, Sets
<1>3. CASE SendOne
  <2>1. call = NoCall /\ UNCHANGED <<call, motor, session>> /\ call'.op = "none"
    BY <1>3 DEF SendOne, Free, busVars, NoCall
  <2>2. PICK c \in Ids, op \in Ops, v \in Speeds :
          /\ SendFrame(c, op, v)
          /\ halted' = IF Taken /\ op = "speed" /\ v # 0 THEN halted \ {c} ELSE halted
    <3>1. PICK c \in Ids :
            \/ \E v \in Speeds : /\ SendFrame(c, "speed", v)
                                 /\ halted' = IF Taken /\ v # 0 THEN halted \ {c} ELSE halted
            \/ \E op \in Requests : SendFrame(c, op, 0) /\ UNCHANGED halted
      BY <1>3 DEF SendOne
    <3>2. CASE \E op \in Requests : SendFrame(c, op, 0) /\ UNCHANGED halted
      BY <3>2, Ranges
    <3>3. CASE \E v \in Speeds : /\ SendFrame(c, "speed", v)
                                 /\ halted' = IF Taken /\ v # 0 THEN halted \ {c} ELSE halted
      <4>1. "speed" \in Ops
        BY DEF Ops
      <4> QED BY <3>3, <4>1
    <3> QED BY <3>1, <3>2, <3>3
  <2>3. ASSUME open, NEW id \in halted' PROVE Ends(id)'
    <3>1. id \in Ids /\ Ends(id) /\ (c # id \/ op # "speed" \/ v = 0 \/ ~Taken)
      BY <1>1, <2>2, <2>3 DEF StopInv, Stopping
    <3> QED BY <2>1, <2>2, <3>1, SentOrNot
  <2>4. open' = open
    BY <2>2 DEF SendFrame
  <2> QED BY <2>1, <2>3, <2>4 DEF StopInv, Stopping
<1>4. CASE Begin
  <2>1. PICK op \in {"speeds", "stop"}, v \in Speeds :
          /\ call' = [op |-> op, at |-> 1, value |-> v, ok |-> TRUE, in |-> session]
          /\ op = "stop" => v = 0
    BY <1>4, Ranges DEF Begin, NoCall
  <2>2. call'.at = 1 /\ (call'.op = "stop" => call'.value = 0)
    BY <2>1
  <2>3. UNCHANGED <<open, tx, motor, halted, session>>
    BY <1>4 DEF Begin, portVars, busVars
  <2>4. \A j \in 1..(call'.at - 1) : FALSE
    BY <2>2
  <2>5. open' => \A id \in halted' : Ends(id)'
    BY <2>3 DEF StopInv, Stopping, Ends, Sets
  <2> QED BY <2>2, <2>4, <2>5 DEF StopInv, Stopping
<1>5. CASE Continue
  BY <1>5, ContinueStops
<1>6. CASE ConnectOpened /\ ~open
  <2>1. halted' = {} /\ session' = session + 1 /\ call' = call
    BY <1>6 DEF ConnectOpened
  <2>2. call'.in # session'
    BY <1>1, <2>1
  <2> QED BY <2>1, <2>2 DEF StopInv, Stopping
<1>7. CASE DisconnectStop
  <2>1. PICK i \in DOMAIN ids : owner = <<"stopping", i>>
    BY <1>7 DEF DisconnectStop, Typed, TypeOK
  <2>2. UNCHANGED <<call, motor, session, halted>> /\ SendFrame(ids[i], "speed", 0)
    BY <1>7, <2>1 DEF DisconnectStop, busVars
  <2>3. "speed" \in Ops /\ ids[i] \in Ids /\ 0 \in Speeds
    BY Ranges DEF Ops
  <2>4. \A id \in Ids : Ends(id) => Ends(id)'
    BY <2>2, <2>3, SentOrNot
  <2>5. open' = open
    BY <2>2 DEF SendFrame
  <2>6. ASSUME open, NEW id \in halted' PROVE Ends(id)'
    BY <1>1, <2>2, <2>4, <2>6 DEF StopInv, Stopping
  <2>7. ASSUME open, call.op = "stop", call.ok, call.in = session, NEW j \in 1..(call.at - 1)
        PROVE  Ends(ids[j])'
    <3>1. Ends(ids[j])
      BY <2>7 DEF StopInv, Stopping
    <3>2. j \in 1..Len(ids)
      BY <1>1, Ranges DEF Calls
    <3>3. PICK id \in Ids : id = ids[j]
      BY <3>2, Ranges
    <3>4. Ends(id)'
      BY <2>4, <3>1, <3>3
    <3> QED BY <3>3, <3>4
  <2> QED BY <2>2, <2>5, <2>6, <2>7 DEF StopInv, Stopping
<1>8. CASE DisconnectClose \/ PortFaults
  <2>1. open' = FALSE /\ call' = call
    BY <1>8 DEF DisconnectClose, PortFaults, PortGone
  <2> QED BY <2>1 DEF StopInv, Stopping
<1>9. CASE Transmit
  <2>1. /\ UNCHANGED <<open, call, session, halted>> /\ tx # <<>> /\ tx' = Tail(tx)
        /\ motor' = [motor EXCEPT ![Head(tx).id] = Now(Head(tx))]
    BY <1>9 DEF Transmit, Now
  <2>2. \A id \in Ids : Ends(id) => Ends(id)'
    BY <2>1, OneLess
  <2>3. ASSUME open, NEW id \in halted' PROVE Ends(id)'
    BY <1>1, <2>1, <2>2, <2>3 DEF StopInv, Stopping
  <2>4. ASSUME open, call.op = "stop", call.ok, call.in = session, NEW j \in 1..(call.at - 1)
        PROVE  Ends(ids[j])'
    <3>1. Ends(ids[j])
      BY <2>4 DEF StopInv, Stopping
    <3>2. j \in 1..Len(ids)
      BY <1>1, Ranges DEF Calls
    <3>3. PICK id \in Ids : id = ids[j]
      BY <3>2, Ranges
    <3>4. Ends(id)'
      BY <2>2, <3>1, <3>3
    <3> QED BY <3>3, <3>4
  <2> QED BY <2>1, <2>3, <2>4 DEF StopInv, Stopping
<1> QED
  BY <1>2, <1>3, <1>4, <1>5, <1>6, <1>7, <1>8, <1>9
  DEF Next, Connect, ConnectOpened, ConnectFailed, ConnectDone, Disconnect, DisconnectDone,
      Receive, ScanFrame, ScanByte, ScanEnd, ErrorCallback, StrangerTalks, Tick, vars, portVars,
      busVars

(* "every id is commanded even if an earlier send fails": after a Stop() that was
   answered kOk in the session it began in, no motor runs once the bus is quiet,
   unless it was commanded again - whatever Disconnect() sends in between.     *)
THEOREM ArrayStops == Spec => []StopHalts
<1>1. Init => StopInv
  BY DEF Init, StopInv, Stopping, NoCall
<1>2. Typed /\ StopInv /\ [Next]_vars => StopInv'
  BY StopStep
<1>3. Typed /\ StopInv => StopHalts
  <2>1. ASSUME Typed, StopInv, open, tx = <<>>, NEW id \in halted PROVE motor[id].speed = 0
    <3>1. Ends(id)
      BY <2>1 DEF StopInv, Stopping
    <3>2. Len(tx) = 0
      BY <2>1, EmptySeq
    <3> QED BY <3>1, <3>2 DEF Ends
  <2> QED BY <2>1 DEF StopHalts
<1> QED BY <1>1, <1>2, <1>3, TypedInit, TypedStep, PTL DEF Spec
=============================================================================
