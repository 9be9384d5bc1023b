-------------------------- MODULE HttpWriteProofs --------------------------
(* Theorems of HttpWrite for headers and files of any length, on condition *)
(* that the header leaves in one piece.  (When it does not, the run        *)
(* httpwrite_split shows how write() goes wrong.)                          *)
EXTENDS HttpWrite, SequenceTheorems, TLAPS

(* A response under way: the counters add up, and the iovecs describe      *)
(* either the whole response or the rest of the file.                      *)
Underway ==
  /\ m_write_idx > 0 /\ bytes_to_send > 0
  /\ m_iv_count = IF st_size > 0 THEN 2 ELSE 1
  /\ bytes_have_send + bytes_to_send = m_write_idx + st_size
  /\ \/ /\ bytes_have_send = 0
        /\ m_iv[0] = iovec(0, m_write_idx)
        /\ st_size > 0 => m_iv[1] = iovec(0, st_size)
     \/ /\ bytes_have_send >= m_write_idx /\ m_iv[0].len = 0
        /\ m_iv[1] = iovec(bytes_have_send - m_write_idx, bytes_to_send)

WriteInv ==
  /\ HWTypeOK
  /\ Len(received) = bytes_have_send \/ phase \in {"reading", "closed"}
  /\ phase = "reading" => bytes_to_send = 0 /\ bytes_have_send = 0
  /\ phase = "armed" => (bytes_to_send = 0 /\ bytes_have_send = 0) \/ Underway
  /\ phase = "writing" => Underway
  /\ SentInOrder

(* What a response under way offers to writev() is what is left of it, and *)
(* the k-th byte offered is the k-th after those that have been sent.      *)
LEMMA OfferedIsRest ==
  ASSUME HWTypeOK, Underway
  PROVE  /\ Offered = bytes_to_send
         /\ \A k \in 1 .. Offered : Given(k) = Byte(bytes_have_send + k)
<1>1. CASE bytes_have_send = 0 /\ m_iv[0] = iovec(0, m_write_idx)
  <2>1. m_iv[0].base = 0 /\ m_iv[0].len = m_write_idx
    BY <1>1 DEF iovec
  <2>2. CASE st_size > 0
    <3>1. m_iv_count = 2 /\ (m_iv[1] = iovec(0, st_size) \/ m_write_idx = 0)
      BY <1>1, <2>1, <2>2 DEF Underway, HWTypeOK
    <3>2. m_iv[1].base = 0 /\ m_iv[1].len = st_size
      BY <3>1 DEF Underway, HWTypeOK, iovec
    <3>3. /\ bytes_have_send = 0 /\ bytes_to_send = m_write_idx + st_size
          /\ m_write_idx \in Nat /\ st_size \in Nat
      BY <1>1, <2>1, <3>1, <3>2, SizeAssumption DEF Underway, HWTypeOK
    <3>4. Offered = bytes_to_send
      BY <2>1, <3>1, <3>2, <3>3 DEF Offered
    <3>5. \A k \in 1 .. Offered : Given(k) = Byte(k)
      BY <2>1, <3>2, <3>3, <3>4 DEF Given, Byte
    <3> QED
      BY <3>3, <3>4, <3>5
  <2>3. CASE ~(st_size > 0)
    <3>1. m_iv_count = 1 /\ st_size = 0
      BY <2>3, SizeAssumption DEF Underway, HWTypeOK
    <3>2. m_write_idx \in Nat /\ bytes_to_send = m_write_idx
      BY <1>1, <3>1, SizeAssumption DEF Underway, HWTypeOK
    <3>3. Offered = m_write_idx
      BY <2>1, <3>1, <3>2 DEF Offered
    <3>4. \A k \in 1 .. m_write_idx :
            Given(k) = <<"header", k - 1>> /\ Byte(k) = <<"header", k - 1>>
      BY <2>1, <3>2 DEF Given, Byte
    <3> QED
      BY <1>1, <3>2, <3>3, <3>4
  <2> QED
    BY <2>2, <2>3
<1>2. CASE /\ bytes_have_send >= m_write_idx /\ m_iv[0].len = 0
           /\ m_iv[1] = iovec(bytes_have_send - m_write_idx, bytes_to_send)
  <2>1. m_iv[1].base = bytes_have_send - m_write_idx /\ m_iv[1].len = bytes_to_send
    BY <1>2 DEF iovec
  <2>2. m_iv_count = 2
    BY <1>2 DEF Underway, HWTypeOK
  <2> QED
    BY <1>2, <2>1, <2>2 DEF Underway, HWTypeOK, Offered, Given, Byte
<1> QED
  BY <1>1, <1>2 DEF Underway

(* One piece sent: the iovecs and the counters move on together. *)
LEMMA AdvanceIsRight ==
  ASSUME ~SplitHeader, HWTypeOK, Underway,
         NEW n \in 0 .. Offered, n >= m_iv[0].len, n = 0 => Offered = 0
  PROVE  LET have == bytes_have_send + n
             left == bytes_to_send - n
             A == Advance(have, left)
         IN /\ n > 0 /\ have \in Nat /\ left \in Nat
            /\ A \in [{0, 1} -> [base : Int, len : Nat]]
            /\ have >= m_write_idx /\ A[0].len = 0
            /\ A[1] = iovec(have - m_write_idx, left)
<1> DEFINE have == bytes_have_send + n
           left == bytes_to_send - n
           A == Advance(have, left)
<1>1. Offered = bytes_to_send /\ bytes_to_send > 0 /\ bytes_to_send \in Nat
  BY OfferedIsRest DEF Underway, HWTypeOK
<1>2. n \in Nat /\ n > 0 /\ n <= bytes_to_send
  BY <1>1 DEF Offered, HWTypeOK
<1>3. have \in Nat /\ left \in Nat
  BY <1>1, <1>2 DEF HWTypeOK
<1>4. have >= m_iv[0].len /\ have >= m_write_idx
  BY <1>2 DEF Underway, HWTypeOK, iovec
<1>5. A = [m_iv EXCEPT ![0] = iovec(m_iv[0].base, 0), ![1] = iovec(have - m_write_idx, left)]
  BY <1>4 DEF Advance
<1>6. /\ iovec(m_iv[0].base, 0) \in [base : Int, len : Nat]
      /\ iovec(have - m_write_idx, left) \in [base : Int, len : Nat]
  BY <1>3 DEF iovec, HWTypeOK
<1>7. A \in [{0, 1} -> [base : Int, len : Nat]]
  BY <1>5, <1>6 DEF HWTypeOK
<1>8. A[0].len = 0 /\ A[1] = iovec(have - m_write_idx, left)
  <2> DEFINE r0 == iovec(m_iv[0].base, 0)
             r1 == iovec(have - m_write_idx, left)
  <2>2. DOMAIN m_iv = {0, 1} /\ A = [m_iv EXCEPT ![0] = r0, ![1] = r1]
    BY <1>5 DEF HWTypeOK
  <2> HIDE DEF r0, r1, A
  <2>3. A[0] = r0 /\ A[1] = r1
    BY <2>2
  <2>1. A[0] = iovec(m_iv[0].base, 0) /\ A[1] = iovec(have - m_write_idx, left)
    BY <2>3 DEF r0, r1
  <2> QED
    BY <2>1 DEF iovec
<1> QED
  BY <1>2, <1>3, <1>4, <1>7, <1>8

(* The bytes received after a piece of n bytes. *)
LEMMA PieceReceived ==
  ASSUME WriteInv, phase = "writing", NEW n \in 1 .. Offered,
         received' = received \o [k \in 1 .. n |-> Given(k)]
  PROVE  /\ received' \in Seq({"header", "file"} \X Int)
         /\ received' = [k \in 1 .. bytes_have_send + n |-> Byte(k)]
<1> DEFINE piece == [k \in 1 .. n |-> Given(k)]
<1>1. /\ Underway /\ HWTypeOK /\ SentInOrder /\ Len(received) = bytes_have_send
      /\ received \in Seq({"header", "file"} \X Int) /\ bytes_have_send \in Nat
  BY DEF WriteInv, HWTypeOK
<1>2. Offered = bytes_to_send /\ n \in Nat
  BY <1>1, OfferedIsRest DEF HWTypeOK
<1>3. \A k \in 1 .. n : Given(k) = Byte(bytes_have_send + k)
  BY <1>1, <1>2, OfferedIsRest DEF HWTypeOK
<1>4. \A k \in Nat : Byte(k) \in {"header", "file"} \X Int
  BY <1>1 DEF Byte, HWTypeOK
<1>5. \A k \in 1 .. n : piece[k] \in {"header", "file"} \X Int
  <2>1. \A k \in 1 .. n : piece[k] = Given(k)
    OBVIOUS
  <2>2. \A k \in 1 .. n : bytes_have_send + k \in Nat
    BY <1>1, <1>2
  <2> HIDE DEF piece
  <2> QED
    BY <1>3, <1>4, <2>1, <2>2
<1>6. piece \in Seq({"header", "file"} \X Int) /\ Len(piece) = n
  <2> DEFINE S == {"header", "file"} \X Int
  <2>1. \A k \in 1 .. n : Given(k) \in S
    BY <1>5
  <2> HIDE DEF S
  <2>2. piece \in Seq(S) /\ Len(piece) = n
    BY <1>2, <2>1
  <2> QED
    BY <2>2 DEF S
<1> HIDE DEF piece
<1>7. received' \in Seq({"header", "file"} \X Int) /\ Len(received') = bytes_have_send + n
  <2> DEFINE S == {"header", "file"} \X Int
  <2>1. received \in Seq(S) /\ piece \in Seq(S) /\ received' = received \o piece
    BY <1>1, <1>6 DEF piece
  <2> HIDE DEF S
  <2>2. received' \in Seq(S) /\ Len(received') = Len(received) + Len(piece)
    BY <2>1, ConcatProperties
  <2> QED
    BY <1>1, <1>6, <2>2 DEF S
<1> USE DEF piece
<1>8. \A k \in 1 .. bytes_have_send + n : received'[k] = Byte(k)
  <2> SUFFICES ASSUME NEW k \in 1 .. bytes_have_send + n PROVE received'[k] = Byte(k)
    OBVIOUS
  <2>1. CASE k <= bytes_have_send
    <3>1. received'[k] = received[k] /\ k \in DOMAIN received
      BY <1>1, <1>2, <1>6, <2>1
    <3> QED
      BY <1>1, <3>1 DEF SentInOrder
  <2>2. CASE k > bytes_have_send
    <3>1. received'[k] = piece[k - bytes_have_send] /\ k - bytes_have_send \in 1 .. n
      BY <1>1, <1>2, <1>6, <2>2
    <3> QED
      BY <1>1, <1>2, <1>3, <3>1
  <2> QED
    BY <1>1, <1>2, <2>1, <2>2
<1>9. received' = [k \in 1 .. bytes_have_send + n |-> received'[k]]
  BY <1>7
<1> QED
  BY <1>7, <1>8, <1>9
(* The counters that the private init() sets have their types. *)
LEMMA ResetTypes ==
  ASSUME reset
  PROVE  /\ m_write_idx' \in 0 .. MaxHeader /\ bytes_to_send' \in Nat
         /\ bytes_have_send' \in Nat /\ m_linger' \in BOOLEAN
<1>1. m_linger' \in BOOLEAN
  BY DEF reset
<1>2. m_write_idx' \in 0 .. MaxHeader
  BY SizeAssumption DEF reset
<1>3. bytes_to_send' \in Nat /\ bytes_have_send' \in Nat
  BY DEF reset
<1> QED
  BY <1>1, <1>2, <1>3

LEMMA WriteStep == ~SplitHeader /\ WriteInv /\ [HWNext]_hwvars => WriteInv'
<1> SUFFICES ASSUME ~SplitHeader, WriteInv, [HWNext]_hwvars PROVE WriteInv'
  OBVIOUS
<1> USE SizeAssumption DEF HWPhases
<1>t. HWTypeOK
  BY DEF WriteInv
<1>1. ASSUME NEW h \in 1 .. MaxHeader, NEW f \in 0 .. MaxFile, Prepare(h, f) PROVE WriteInv'
  <2>1. /\ m_write_idx' = h /\ st_size' = f /\ bytes_to_send' = h + f /\ phase' = "armed"
        /\ m_iv_count' = IF f > 0 THEN 2 ELSE 1
        /\ m_linger' \in BOOLEAN /\ received' = <<>> /\ bytes_have_send' = 0
        /\ h \in Nat /\ f \in Nat /\ h > 0
    BY <1>1, <1>t DEF Prepare, WriteInv, HWTypeOK
  <2>2. /\ m_iv' \in [{0, 1} -> [base : Int, len : Nat]]
        /\ m_iv'[0] = iovec(0, h)
        /\ f > 0 => m_iv'[1] = iovec(0, f)
    <3>1. iovec(0, h) \in [base : Int, len : Nat] /\ iovec(0, f) \in [base : Int, len : Nat]
      BY <2>1 DEF iovec
    <3> QED
      BY <1>1, <1>t, <3>1 DEF Prepare, HWTypeOK
  <2>3. Underway'
    BY <2>1, <2>2 DEF Underway, iovec
  <2>4. HWTypeOK'
    BY <1>t, <2>1, <2>2 DEF HWTypeOK
  <2> QED
    BY <2>1, <2>3, <2>4 DEF WriteInv, SentInOrder
<1>2. CASE Close
  BY <1>2, <1>t DEF Close, WriteInv, HWTypeOK, SentInOrder
<1>3. CASE Reuse
  <2>1. HWTypeOK'
    <3>1. st_size' \in 0 .. MaxFile /\ received' \in Seq({"header", "file"} \X Int)
      BY <1>3 DEF Reuse
    <3> QED
      BY <1>3, <1>t, <3>1, ResetTypes DEF Reuse, HWTypeOK
  <2> QED
    BY <1>3, <2>1 DEF Reuse, reset, WriteInv, SentInOrder
<1>4. CASE WriteNothing
  <2>1. HWTypeOK'
    BY <1>4, <1>t, ResetTypes DEF WriteNothing, HWTypeOK
  <2> QED
    BY <1>4, <2>1 DEF WriteNothing, reset, WriteInv, SentInOrder
<1>5. CASE WriteBegins \/ WritevFails
  <2>1. HWTypeOK'
    BY <1>5, <1>t DEF WriteBegins, WritevFails, HWTypeOK
  <2>2. Underway /\ Underway'
    BY <1>5 DEF WriteBegins, WritevFails, WriteInv, Underway
  <2>3. SentInOrder'
    BY <1>5 DEF WriteBegins, WritevFails, WriteInv, SentInOrder, Byte
  <2> QED
    BY <1>5, <2>1, <2>2, <2>3 DEF WriteBegins, WritevFails, WriteInv
<1>6. ASSUME NEW n \in 0 .. Offered, Writev(n) PROVE WriteInv'
  <2> DEFINE have == bytes_have_send + n
             left == bytes_to_send - n
  <2>1. /\ phase = "writing" /\ Underway /\ n >= m_iv[0].len /\ (n = 0 => Offered = 0)
        /\ m_iv' = Advance(have, left) /\ m_iv_count' = m_iv_count /\ st_size' = st_size
        /\ received' = received \o [k \in 1 .. n |-> Given(k)]
    BY <1>6 DEF Writev, WriteInv
  <2>2. /\ n > 0 /\ have \in Nat /\ left \in Nat
        /\ m_iv' \in [{0, 1} -> [base : Int, len : Nat]]
        /\ have >= m_write_idx /\ m_iv'[0].len = 0
        /\ m_iv'[1] = iovec(have - m_write_idx, left)
    BY <1>t, <2>1, AdvanceIsRight
  <2>3. n \in 1 .. Offered
    BY <1>t, <2>2 DEF HWTypeOK, Offered
  <2>4. /\ received' \in Seq({"header", "file"} \X Int)
        /\ received' = [k \in 1 .. have |-> Byte(k)]
    BY <2>1, <2>3, PieceReceived
  <2>5. CASE left <= 0 /\ m_linger
    <3>1. reset /\ phase' = "reading"
      BY <1>6, <2>5 DEF Writev, Sent
    <3>2. HWTypeOK'
      BY <1>t, <2>1, <2>2, <2>4, <3>1, ResetTypes DEF HWTypeOK
    <3> QED
      BY <3>1, <3>2 DEF reset, WriteInv, SentInOrder
  <2>6. CASE ~(left <= 0 /\ m_linger)
    <3>1. /\ bytes_have_send' = have /\ bytes_to_send' = left
          /\ phase' = IF left <= 0 THEN "closed" ELSE "writing"
          /\ UNCHANGED <<m_write_idx, m_linger>>
      BY <1>6, <2>6 DEF Writev, Sent
    <3>2. HWTypeOK'
      BY <1>t, <2>1, <2>2, <2>4, <3>1 DEF HWTypeOK
    <3>3. CASE left <= 0
      BY <3>1, <3>2, <3>3 DEF WriteInv, SentInOrder
    <3>4. CASE ~(left <= 0)
      <4>1. left > 0 /\ phase' = "writing"
        BY <2>2, <3>1, <3>4
      <4>2. have + left = m_write_idx + st_size
        BY <1>t, <2>1, <2>3 DEF Underway, HWTypeOK, Offered
      <4>3. Underway'
        BY <2>1, <2>2, <3>1, <4>1, <4>2 DEF Underway
      <4>4. Len(received') = have /\ SentInOrder'
        BY <2>2, <2>4, <3>1 DEF SentInOrder, Byte
      <4> QED
        BY <3>1, <3>2, <4>1, <4>3, <4>4 DEF WriteInv
    <3> QED
      BY <3>3, <3>4
  <2> QED
    BY <2>5, <2>6
<1>7. CASE UNCHANGED hwvars
  BY <1>7, <1>t DEF hwvars, WriteInv, HWTypeOK, SentInOrder, Underway, Byte
<1>8. CASE KeepAlive
  BY <1>8, <1>t DEF KeepAlive, WriteInv, HWTypeOK, SentInOrder
<1> QED
  BY <1>1, <1>2, <1>3, <1>4, <1>5, <1>6, <1>7, <1>8 DEF HWNext, write

LEMMA WriteInvariant ==
  ASSUME ~SplitHeader PROVE HWSpec => []WriteInv
<1>1. HWInit => WriteInv
  <2> SUFFICES ASSUME HWInit PROVE WriteInv
    OBVIOUS
  <2>1. m_iv \in [{0, 1} -> [base : Int, len : Nat]]
    BY DEF HWInit, iovec
  <2>3. m_write_idx \in 0 .. MaxHeader /\ st_size \in 0 .. MaxFile
    BY SizeAssumption DEF HWInit
  <2>4. received \in Seq({"header", "file"} \X Int)
    BY DEF HWInit
  <2>2. HWTypeOK
    <3>1. m_linger \in BOOLEAN
      BY DEF HWInit
    <3>2. bytes_to_send \in Nat /\ bytes_have_send \in Nat /\ m_iv_count \in 0 .. 2
      BY DEF HWInit
    <3>3. phase \in HWPhases
      BY DEF HWInit, HWPhases
    <3> QED
      BY <2>1, <2>3, <2>4, <3>1, <3>2, <3>3 DEF HWTypeOK
  <2> QED
    BY <2>2 DEF HWInit, WriteInv, SentInOrder
<1>2. WriteInv /\ [HWNext]_hwvars => WriteInv'
  BY WriteStep
<1> QED
  BY <1>1, <1>2, PTL DEF HWSpec

(* Every variable keeps its type. *)
THEOREM WriteTypes ==
  ASSUME ~SplitHeader PROVE HWSpec => []HWTypeOK
<1>1. WriteInv => HWTypeOK
  BY DEF WriteInv
<1> QED
  BY WriteInvariant, <1>1, PTL

(* The client gets the bytes of every response in order, whatever the      *)
(* lengths of header and file and the pieces writev() takes.               *)
THEOREM BytesInOrder ==
  ASSUME ~SplitHeader PROVE HWSpec => []SentInOrder
<1>1. WriteInv => SentInOrder
  BY DEF WriteInv
<1> QED
  BY WriteInvariant, <1>1, PTL

(* A connection goes back to reading only when all of them have been sent. *)
THEOREM ResponsesWhole ==
  ASSUME ~SplitHeader PROVE HWSpec => WholeResponse
<1>1. WriteInv /\ [HWNext]_hwvars =>
        [phase = "writing" /\ phase' = "reading" =>
           received' = [k \in 1 .. m_write_idx + st_size |-> Byte(k)]]_hwvars
  <2> SUFFICES ASSUME WriteInv, HWNext, phase = "writing", phase' = "reading"
               PROVE  received' = [k \in 1 .. m_write_idx + st_size |-> Byte(k)]
    BY DEF hwvars
  <2>1. PICK n \in 0 .. Offered : Writev(n)
    BY DEF HWNext, write, KeepAlive, Prepare, Close, Reuse, WriteNothing, WriteBegins, WritevFails
  <2>2. /\ HWTypeOK /\ Underway /\ n >= m_iv[0].len /\ (n = 0 => Offered = 0)
        /\ received' = received \o [k \in 1 .. n |-> Given(k)]
    BY <2>1 DEF Writev, WriteInv
  <2>3. bytes_to_send - n <= 0
    BY <2>1 DEF Writev, Sent
  <2>4. Offered = bytes_to_send /\ n > 0
    BY <2>2, OfferedIsRest DEF Underway, HWTypeOK, Offered
  <2>5. n \in 1 .. Offered /\ n = bytes_to_send
    BY <2>2, <2>3, <2>4 DEF HWTypeOK, Offered
  <2>6. received' = [k \in 1 .. bytes_have_send + n |-> Byte(k)]
    BY <2>2, <2>5, PieceReceived
  <2> QED
    BY <2>2, <2>5, <2>6 DEF Underway
<1> QED
  BY WriteInvariant, <1>1, PTL DEF HWSpec, WholeResponse
=============================================================================
