--------------------------- MODULE HttpConnProofs ---------------------------
(* Theorems of HttpConn, for any requests, cut anywhere, and any size of   *)
(* the read buffer.                                                        *)
EXTENDS HttpConn, HttpWriteProofs, SequenceTheorems, WellFoundedInduction

(* Reading and parsing touch the response only as HttpWrite allows, so     *)
(* what is proved of the responses holds behind a real request parser.     *)
THEOREM AnswersAsWritten == HCSpec => HWSpec
<1>1. HCInit => HWInit
  BY DEF HCInit
<1>2. [HCNext]_hcvars => [HWNext]_hwvars
  <2> SUFFICES ASSUME [HCNext]_hcvars PROVE [HWNext]_hwvars
    OBVIOUS
  <2>1. CASE Send \/ read_once
    BY <2>1 DEF Send, read_once
  <2>2. CASE ReadFull \/ Drop \/ Accept
    BY <2>2 DEF ReadFull, Drop, Accept, HWNext
  <2>3. CASE NoLine \/ RequestLine
    BY <2>3 DEF NoLine, RequestLine
  <2>4. CASE Header
    BY <2>4 DEF Header, HWNext
  <2>5. CASE BadRequest
    <3>1. PICK h \in 1 .. MaxHeader : Prepare(h, 0)
      BY <2>5 DEF BadRequest
    <3>2. 0 \in 0 .. MaxFile
      BY SizeAssumption
    <3> QED
      BY <3>1, <3>2 DEF HWNext
  <2>6. CASE do_request
    BY <2>6 DEF do_request, HWNext
  <2>7. CASE Answer
    BY <2>7 DEF Answer, HWNext
  <2>8. CASE UNCHANGED hcvars
    BY <2>8 DEF hcvars
  <2> QED
    BY <2>1, <2>2, <2>3, <2>4, <2>5, <2>6, <2>7, <2>8 DEF HCNext, Serve, process
<1> QED
  BY <1>1, <1>2, PTL DEF HCSpec, HWSpec

(* The client gets the bytes of every answer in order, whatever it sends   *)
(* meanwhile.                                                              *)
THEOREM AnswersInOrder ==
  ASSUME ~SplitHeader PROVE HCSpec => []SentInOrder /\ []HWTypeOK /\ WholeResponse
  BY AnswersAsWritten, BytesInOrder, WriteTypes, ResponsesWhole, PTL

LEMMA MinOfNat ==
  ASSUME NEW S \in SUBSET Nat, S # {}
  PROVE  Min(S) \in S /\ \A y \in S : Min(S) <= y
<1> DEFINE R == OpToRel(<, Nat)
<1>1. IsWellFoundedOn(R, Nat)
  BY NatLessThanWellFounded
<1>2. \A x, y \in Nat : <<x, y>> \in R <=> x < y
  BY DEF OpToRel
<1> HIDE DEF R
<1>3. PICK x \in S : \A y \in S : ~ (<<y, x>> \in R)
  BY <1>1, WFMin
<1>4. \A y \in S : x <= y
  <2> SUFFICES ASSUME NEW y \in S PROVE x <= y
    OBVIOUS
  <2>1. x \in Nat /\ y \in Nat /\ ~(y < x)
    BY <1>2, <1>3
  <2> QED
    BY <2>1
<1> QED
  BY <1>3, <1>4 DEF Min

(* Where parse_line stops is a place between m_checked_idx and m_read_idx, *)
(* and a line that ends there leaves its two bytes in front of m_read_idx. *)
LEMMA StopInside ==
  ASSUME HCTypeOK, Stops # {}
  PROVE  /\ stop \in m_checked_idx .. m_read_idx - 1
         /\ LineEnds => /\ LineEnd \in Nat /\ LineEnd + 2 \in 0 .. m_read_idx
                        /\ LineEnd + 1 \in 1 .. m_read_idx /\ LineEnd + 2 \in 1 .. m_read_idx
<1>1. m_checked_idx \in Nat /\ m_read_idx \in Nat
  BY DEF HCTypeOK, m_read_idx
<1>2. Stops \in SUBSET Nat /\ Stops \subseteq m_checked_idx .. m_read_idx - 1
  BY <1>1 DEF Stops
<1>3. stop \in Stops
  BY <1>2, MinOfNat DEF stop
<1>4. stop \in m_checked_idx .. m_read_idx - 1 /\ stop \in Nat
  BY <1>2, <1>3
<1>5. ASSUME LineEnds
      PROVE  \/ LineEnd = stop /\ stop + 1 < m_read_idx
             \/ LineEnd = stop - 1 /\ stop > 1
  <2>1. CASE at(stop) = "cr"
    BY <1>5, <2>1 DEF LineEnds, LineEnd
  <2>2. CASE at(stop) # "cr"
    BY <1>5, <2>2 DEF LineEnds, LineEnd
  <2> QED
    BY <2>1, <2>2
<1> QED
  BY <1>1, <1>4, <1>5

LEMMA LineTaken ==
  ASSUME HCTypeOK, TakeLine
  PROVE  /\ m_read_buf' \in Seq(Words \cup {"nul"}) /\ m_read_idx' = m_read_idx
         /\ m_checked_idx' \in 0 .. m_read_idx /\ m_start_line' = m_checked_idx'
<1> DEFINE B == Words \cup {"nul"}
           i == LineEnd + 1
           j == LineEnd + 2
           once == [m_read_buf EXCEPT ![i] = "nul"]
<1>1. /\ i \in 1 .. m_read_idx /\ j \in 1 .. m_read_idx /\ j \in 0 .. m_read_idx
  BY StopInside DEF TakeLine, LineEnds
<1>2. m_read_buf \in Seq(B) /\ "nul" \in B
  BY DEF HCTypeOK
<1>3. once \in Seq(B) /\ Len(once) = m_read_idx
  BY <1>1, <1>2, ExceptSeq DEF m_read_idx
<1>4. [once EXCEPT ![j] = "nul"] \in Seq(B) /\ Len([once EXCEPT ![j] = "nul"]) = m_read_idx
  BY <1>1, <1>2, <1>3, ExceptSeq
<1>5. m_read_buf' = [once EXCEPT ![j] = "nul"]
  BY DEF TakeLine
<1> QED
  BY <1>1, <1>4, <1>5 DEF TakeLine, m_read_idx

(* The part of HCTypeOK about the client, the parser and the buffers. *)
LEMMA ReadStep ==
  ASSUME HCTypeOK, read_once
  PROVE  HCTypeOK'
<1> DEFINE n == Taken
           piece == SubSeq(socket, 1, n)
<1>1. /\ m_read_idx \in Nat /\ READ_BUFFER_SIZE \in Nat /\ m_read_idx <= READ_BUFFER_SIZE
      /\ socket \in Seq(Words) /\ Len(socket) \in Nat /\ Len(got) = m_read_idx
      /\ m_read_buf \in Seq(Words \cup {"nul"}) /\ got \in Seq(Words)
      /\ Len(m_read_buf) = m_read_idx
  BY ReadAssumption DEF HCTypeOK, Text, m_read_idx
<1>2. n > 0 /\ n \in Nat /\ n <= Len(socket) /\ n <= READ_BUFFER_SIZE - m_read_idx
  BY <1>1 DEF read_once, Taken, Room
<1> HIDE DEF n
<1>3. piece \in Seq(Words) /\ Len(piece) = n
  <2>1. \A k \in 1 .. n : socket[k] \in Words
    BY <1>1, <1>2
  <2> QED
    BY <1>2, <2>1, SubSeqProperties
<1>4. SubSeq(socket, n + 1, Len(socket)) \in Seq(Words)
  <2>1. \A k \in n + 1 .. Len(socket) : socket[k] \in Words
    BY <1>1, <1>2
  <2> QED
    BY <1>1, <1>2, <2>1, SubSeqProperties
<1>5. piece \in Seq(Words \cup {"nul"})
  BY <1>3
<1>6. /\ m_read_buf' = m_read_buf \o piece /\ got' = got \o piece
      /\ socket' = SubSeq(socket, n + 1, Len(socket))
  BY DEF read_once, n
<1> HIDE DEF piece
<1>7. /\ m_read_buf' \in Seq(Words \cup {"nul"}) /\ Len(m_read_buf') = m_read_idx + n
      /\ got' \in Seq(Words) /\ Len(got') = m_read_idx + n
  <2>1. m_read_buf' \in Seq(Words \cup {"nul"}) /\ Len(m_read_buf') = Len(m_read_buf) + Len(piece)
    BY <1>1, <1>5, <1>6, ConcatProperties
  <2>2. got' \in Seq(Words) /\ Len(got') = Len(got) + Len(piece)
    BY <1>1, <1>3, <1>6, ConcatProperties
  <2> QED
    BY <1>1, <1>3, <2>1, <2>2
<1>8. /\ m_checked_idx \in 0 .. m_read_idx /\ m_start_line \in 0 .. m_checked_idx
      /\ m_read_idx + n <= READ_BUFFER_SIZE /\ m_checked_idx \in 0 .. m_read_idx + n
  BY <1>1, <1>2 DEF HCTypeOK
<1>9. /\ UNCHANGED <<clientvars, m_TRIGMode, m_checked_idx, m_start_line, m_check_state>>
      /\ phase = "reading" /\ phase' = phase /\ parsing' = TRUE
  BY DEF read_once, hwvars
<1> QED
  BY <1>4, <1>6, <1>7, <1>8, <1>9 DEF HCTypeOK, Text, clientvars, m_read_idx

LEMMA SendStep ==
  ASSUME HCTypeOK, Send
  PROVE  HCTypeOK'
<1> DEFINE r == Head(script)
<1>1. script \in Seq(Seq(Words) \ {<<>>}) /\ script # <<>>
  BY DEF Send, HCTypeOK, Requests, Text
<1>2. r \in Seq(Words) \ {<<>>} /\ Tail(script) \in Seq(Seq(Words) \ {<<>>})
  BY <1>1, HeadTailProperties
<1>3. Head(r) \in Words /\ Tail(r) \in Seq(Words) /\ Len(Tail(r)) = Len(r) - 1
  BY <1>2, HeadTailProperties
<1> HIDE DEF r
<1>4. script' \in Seq(Seq(Words) \ {<<>>})
  <2>1. CASE Len(r) = 1
    BY <1>2, <2>1 DEF Send, r
  <2>2. CASE Len(r) # 1
    <3>1. Len(r) \in Nat /\ Len(r) # 0
      BY <1>2
    <3>2. Tail(r) \in Seq(Words) \ {<<>>}
      BY <1>3, <2>2, <3>1
    <3>3. <<Tail(r)>> \in Seq(Seq(Words) \ {<<>>})
      BY <3>2
    <3>4. script' = <<Tail(r)>> \o Tail(script)
      BY <2>2 DEF Send, r
    <3> QED
      BY <1>2, <3>3, <3>4, ConcatProperties
  <2> QED
    BY <2>1, <2>2
<1>5. socket' \in Seq(Words)
  <2>1. socket' = Append(socket, Head(r)) /\ socket \in Seq(Words)
    BY DEF Send, HCTypeOK, Text, r
  <2> QED
    BY <1>3, <2>1, AppendProperties
<1>6. asked' \in Seq(Words)
  <2>1. got \in Seq(Words) /\ asked \in Seq(Words)
    BY DEF HCTypeOK, Text
  <2>2. got \o socket' \in Seq(Words)
    BY <1>5, <2>1, ConcatProperties
  <2>3. asked' = got \o socket' \/ asked' = asked
    BY DEF Send
  <2> QED
    BY <2>1, <2>2, <2>3
<1> QED
  BY <1>4, <1>5, <1>6 DEF Send, HCTypeOK, Text, Requests, readvars, hwvars, m_read_idx

LEMMA ParseStep ==
  ASSUME HCTypeOK, process
  PROVE  HCTypeOK'
<1>1. /\ UNCHANGED <<clientvars, socket, m_TRIGMode, got>>
      /\ m_check_state' \in {"REQUESTLINE", "HEADER"} /\ parsing' \in BOOLEAN
  BY DEF process, NoLine, RequestLine, Header, BadRequest, do_request, TakeLine, HCTypeOK
<1>2. parsing' => phase' = "reading"
  <2>1. parsing => phase = "reading"
    BY DEF HCTypeOK
  <2> QED
    BY <2>1 DEF process, NoLine, RequestLine, Header, BadRequest, do_request, KeepAlive, hwvars
<1>3. CASE NoLine
  <2>1. m_checked_idx' \in m_checked_idx .. m_read_idx
    <3>1. m_checked_idx \in Nat /\ m_read_idx \in Nat /\ m_checked_idx <= m_read_idx
      BY DEF HCTypeOK, m_read_idx
    <3> QED
      BY <1>3, <3>1, StopInside DEF NoLine
  <2>2. UNCHANGED <<m_read_buf, m_start_line>> /\ m_checked_idx' \in 0 .. m_read_idx
        /\ m_start_line \in 0 .. m_checked_idx'
    BY <1>3, <2>1 DEF NoLine, HCTypeOK, m_read_idx
  <2> QED
    BY <1>1, <1>2, <2>2 DEF HCTypeOK, clientvars, m_read_idx
<1>4. CASE ~NoLine
  <2>1. TakeLine
    BY <1>4 DEF process, RequestLine, Header, BadRequest, do_request
  <2>2. m_start_line' \in 0 .. m_checked_idx'
    BY <2>1, LineTaken
  <2> QED
    BY <1>1, <1>2, <2>1, <2>2, LineTaken DEF HCTypeOK, clientvars
<1> QED
  BY <1>3, <1>4

(* After init() the buffer is empty and the indices are 0. *)
LEMMA BufferReset ==
  ASSUME resetRead
  PROVE  /\ m_read_buf' \in Seq(Words \cup {"nul"}) /\ got' \in Text
         /\ m_start_line' \in 0 .. m_checked_idx' /\ m_checked_idx' \in 0 .. m_read_idx'
         /\ m_read_idx' <= READ_BUFFER_SIZE /\ Len(got') = m_read_idx'
         /\ m_check_state' \in {"REQUESTLINE", "HEADER"}
<1>1. <<>> \in Seq(Words) /\ <<>> \in Seq(Words \cup {"nul"}) /\ Len(<<>>) = 0
  OBVIOUS
<1>2. /\ m_read_buf' = <<>> /\ got' = <<>> /\ m_read_idx' = 0
      /\ m_checked_idx' = 0 /\ m_start_line' = 0 /\ m_check_state' = "REQUESTLINE"
  BY <1>1 DEF resetRead, m_read_idx
<1>3. READ_BUFFER_SIZE \in Nat
  BY ReadAssumption
<1>4. m_start_line' \in 0 .. m_checked_idx' /\ m_checked_idx' \in 0 .. m_read_idx'
  BY <1>2
<1>5. m_read_idx' <= READ_BUFFER_SIZE
  BY <1>2, <1>3
<1>6. m_read_buf' \in Seq(Words \cup {"nul"}) /\ got' \in Text
  BY <1>1, <1>2 DEF Text
<1>7. Len(got') = m_read_idx'
  BY <1>1, <1>2
<1> QED
  BY <1>2, <1>4, <1>5, <1>6, <1>7

LEMMA HCStep == HCTypeOK /\ [HCNext]_hcvars => HCTypeOK'
<1> SUFFICES ASSUME HCTypeOK, [HCNext]_hcvars PROVE HCTypeOK'
  OBVIOUS
<1>e. <<>> \in Seq(Words) /\ <<>> \in Seq(Words \cup {"nul"}) /\ Len(<<>>) = 0
  OBVIOUS
<1>1. CASE ReadFull \/ Drop
  BY <1>1 DEF ReadFull, Drop, HCTypeOK, clientvars, readvars, m_read_idx
<1>2. CASE Answer
  <2>1. phase \in {"armed", "writing"} /\ ~parsing /\ parsing' = FALSE
    BY <1>2 DEF Answer, write, WriteNothing, WriteBegins, Writev, WritevFails, HCTypeOK
  <2>2. asked' \in Text /\ UNCHANGED <<script, patient, socket, m_TRIGMode>>
    BY <1>2, <1>e DEF Answer, HCTypeOK, Text
  <2>3. CASE resetRead
    BY <2>1, <2>2, <2>3, BufferReset DEF HCTypeOK
  <2>4. CASE UNCHANGED readvars
    <3>1. (parsing' => phase' = "reading") /\ UNCHANGED readvars
      BY <2>1, <2>4
    <3> QED
      BY <2>1, <2>2, <3>1 DEF HCTypeOK, readvars, m_read_idx
  <2> QED
    BY <1>2, <2>3, <2>4 DEF Answer
<1>3. CASE Accept
  <2>1. resetRead /\ ~parsing /\ parsing' = FALSE /\ m_TRIGMode' = m_TRIGMode
    BY <1>3 DEF Accept, Reuse, HCTypeOK
  <2>2. script' \in Requests /\ patient' \in BOOLEAN /\ asked' = <<>> /\ socket' = <<>>
    BY <1>3, ReadAssumption DEF Accept
  <2> QED
    BY <1>e, <2>1, <2>2, BufferReset DEF HCTypeOK, Text
<1>4. CASE UNCHANGED hcvars
  BY <1>4 DEF hcvars, hwvars, clientvars, readvars, HCTypeOK, m_read_idx
<1> QED
  BY <1>1, <1>2, <1>3, <1>4, ReadStep, SendStep, ParseStep DEF HCNext, Serve

LEMMA InitTypes == HCInit => HCTypeOK
<1>1. <<>> \in Seq(Words) /\ <<>> \in Seq(Words \cup {"nul"}) /\ Len(<<>>) = 0
  OBVIOUS
<1> SUFFICES ASSUME HCInit PROVE HCTypeOK
  OBVIOUS
<1>2. /\ m_read_buf = <<>> /\ got = <<>> /\ m_read_idx = 0 /\ Len(got) = 0
      /\ m_checked_idx = 0 /\ m_start_line = 0 /\ m_check_state = "REQUESTLINE"
  BY <1>1 DEF HCInit, m_read_idx
<1>3. READ_BUFFER_SIZE \in Nat
  BY ReadAssumption
<1>4. /\ script \in Requests /\ patient \in BOOLEAN /\ asked \in Text /\ socket \in Text
      /\ m_TRIGMode \in {0, 1} /\ parsing = FALSE
  BY <1>1, ReadAssumption DEF HCInit, Text
<1>5. /\ m_start_line \in 0 .. m_checked_idx /\ m_checked_idx \in 0 .. m_read_idx
      /\ m_read_idx <= READ_BUFFER_SIZE /\ Len(got) = m_read_idx
  BY <1>2, <1>3
<1>6. m_read_buf \in Seq(Words \cup {"nul"}) /\ got \in Text
  BY <1>1, <1>2 DEF Text
<1> QED
  BY <1>2, <1>4, <1>5, <1>6 DEF HCTypeOK

(* The indices of the parser stay in order and in the buffer, whatever is  *)
(* sent in whatever pieces: no byte behind the buffer is read or written.  *)
THEOREM IndicesInBuffer == HCSpec => []HCTypeOK
<1>1. HCInit => HCTypeOK
  BY InitTypes
<1>2. HCTypeOK /\ [HCNext]_hcvars => HCTypeOK'
  BY HCStep
<1> QED
  BY <1>1, <1>2, PTL DEF HCSpec

----------------------------------------------------------------------------
(* Ends, LineTo: where the lines of a text end, and what they say.         *)
Pair(s, i) == i > 1 /\ s[i - 1] = "cr" /\ s[i] = "lf"
Bare(s, i) == \/ s[i] = "lf" /\ ~Pair(s, i)
              \/ s[i] = "cr" /\ i < Len(s) /\ s[i + 1] # "lf"

LEMMA EndsAre ==
  ASSUME NEW s \in Text
  PROVE  /\ Ends(s) = {e \in 1 .. Len(s) : Pair(s, e) /\ \A i \in 1 .. e : ~Bare(s, i)}
         /\ Ends(s) \subseteq 1 .. Len(s) /\ Len(s) \in Nat
<1>1. DOMAIN s = 1 .. Len(s) /\ Len(s) \in Nat
  BY DEF Text
<1>2. Ends(s) = {e \in 1 .. Len(s) : Pair(s, e) /\ \A i \in 1 .. e : ~Bare(s, i)}
  BY <1>1 DEF Ends, Pair, Bare
<1> QED
  BY <1>1, <1>2

LEMMA MaxOfInterval ==
  ASSUME NEW n \in Nat, NEW S \in SUBSET (0 .. n), S # {}
  PROVE  Max(S) \in S /\ \A y \in S : Max(S) >= y
<1>1. {n - y : y \in S} \in SUBSET Nat /\ {n - y : y \in S} # {}
  <2>1. \A y \in S : n - y \in Nat
    OBVIOUS
  <2> QED
    BY <2>1
<1>2. PICK d \in {n - y : y \in S} : \A e \in {n - y : y \in S} : d <= e
  BY <1>1, MinOfNat
<1>3. PICK x \in S : d = n - x
  OBVIOUS
<1>4. \A y \in S : x >= y
  <2> SUFFICES ASSUME NEW y \in S PROVE x >= y
    OBVIOUS
  <2>1. d <= n - y /\ y \in 0 .. n /\ x \in 0 .. n
    BY <1>2
  <2> QED
    BY <1>3, <2>1
<1> QED
  BY <1>3, <1>4 DEF Max

(* The line that ends at e begins at the end of the line before.           *)
IsBefore(s, b, e) == b \in Ends(s) \cup {0} /\ b < e /\ \A d \in Ends(s) : d < e => d <= b

LEMMA LineBegins ==
  ASSUME NEW s \in Text, NEW e \in Ends(s), NEW b, IsBefore(s, b, e)
  PROVE  LineTo(s, e) = SubSeq(s, b + 1, e - 2)
<1> DEFINE D == {0} \cup {d \in Ends(s) : d < e}
<1>1. Ends(s) \subseteq 1 .. Len(s) /\ Len(s) \in Nat
  BY EndsAre
<1>2. D \in SUBSET (0 .. Len(s)) /\ D # {} /\ b \in D /\ b \in Nat
  BY <1>1 DEF IsBefore
<1>3. Max(D) \in D /\ Max(D) >= b
  BY <1>1, <1>2, MaxOfInterval
<1>4. Max(D) <= b
  BY <1>2, <1>3 DEF IsBefore
<1>5. Max(D) = b
  <2>1. Max(D) \in Nat
    BY <1>1, <1>3
  <2> QED
    BY <1>2, <1>3, <1>4, <2>1
<1> HIDE DEF D
<1> QED
  BY <1>5 DEF LineTo, D

LEMMA EveryLineBegins ==
  ASSUME NEW s \in Text, NEW e \in Ends(s)
  PROVE  \E b : b \in 0 .. Len(s) /\ IsBefore(s, b, e)
<1> DEFINE D == {0} \cup {d \in Ends(s) : d < e}
<1>1. Ends(s) \subseteq 1 .. Len(s) /\ Len(s) \in Nat
  BY EndsAre
<1>2. D \in SUBSET (0 .. Len(s)) /\ D # {}
  BY <1>1
<1>3. Max(D) \in D /\ \A y \in D : Max(D) >= y
  BY <1>1, <1>2, MaxOfInterval
<1>4. Max(D) \in 0 .. Len(s) /\ e \in 1 .. Len(s)
  BY <1>1, <1>2, <1>3
<1>5. IsBefore(s, Max(D), e)
  <2>1. \A d \in Ends(s) : d < e => d <= Max(D)
    BY <1>1, <1>3, <1>4
  <2>2. Max(D) < e /\ Max(D) \in Ends(s) \cup {0}
    BY <1>3, <1>4
  <2> QED
    BY <2>1, <2>2 DEF IsBefore
<1> QED
  BY <1>4, <1>5

LEMMA SamePiece ==
  ASSUME NEW S, NEW s, NEW u, NEW a \in Int, NEW z \in Int,
         \A i \in a .. z : s[i] \in S /\ u[i] = s[i]
  PROVE  SubSeq(u, a, z) = SubSeq(s, a, z)
<1> DEFINE p == SubSeq(s, a, z)
           q == SubSeq(u, a, z)
<1>1. /\ p \in Seq(S) /\ Len(p) = IF a <= z THEN z - a + 1 ELSE 0
      /\ \A i \in 1 .. z - a + 1 : p[i] = s[a + i - 1]
  BY SubSeqProperties
<1>2. \A i \in a .. z : u[i] \in S
  OBVIOUS
<1>3. /\ q \in Seq(S) /\ Len(q) = IF a <= z THEN z - a + 1 ELSE 0
      /\ \A i \in 1 .. z - a + 1 : q[i] = u[a + i - 1]
  BY <1>2, SubSeqProperties
<1> HIDE DEF p, q
<1>4. \A i \in 1 .. Len(p) : i \in 1 .. z - a + 1 /\ a + i - 1 \in a .. z
  BY <1>1
<1>5. \A i \in 1 .. Len(p) : p[i] = q[i]
  BY <1>1, <1>3, <1>4
<1>6. p = q
  BY <1>1, <1>3, <1>5, SeqEqual
<1> QED
  BY <1>6 DEF p, q

(* Text that is read later moves no end of a line, and changes no line.    *)
LEMMA EndsStay ==
  ASSUME NEW s \in Text, NEW t \in Text
  PROVE  /\ s \o t \in Text /\ Len(s) <= Len(s \o t)
         /\ \A e \in 1 .. Len(s) : e \in Ends(s \o t) <=> e \in Ends(s)
<1> DEFINE u == s \o t
<1>1. /\ u \in Text /\ Len(s) \in Nat /\ Len(u) \in Nat /\ Len(s) <= Len(u)
      /\ \A i \in 1 .. Len(s) : u[i] = s[i]
  <2>1. /\ u \in Text /\ Len(u) = Len(s) + Len(t) /\ Len(s) \in Nat /\ Len(t) \in Nat
        /\ \A i \in 1 .. Len(s) + Len(t) : u[i] = IF i <= Len(s) THEN s[i] ELSE t[i - Len(s)]
    BY ConcatProperties DEF Text
  <2> QED
    BY <2>1
<1> HIDE DEF u
<1>2. \A i \in 1 .. Len(s) : Pair(u, i) <=> Pair(s, i)
  <2>1. \A i \in 1 .. Len(s) : i > 1 => i - 1 \in 1 .. Len(s)
    BY <1>1
  <2> QED
    BY <1>1, <2>1 DEF Pair
<1>3. ASSUME NEW e \in 1 .. Len(s), Pair(s, e), NEW i \in 1 .. e
      PROVE  Bare(u, i) <=> Bare(s, i)
  <2>1. i \in 1 .. Len(s) /\ i \in 1 .. Len(u)
    BY <1>1
  <2>2. CASE i = Len(s)
    <3>1. s[i] = "lf" /\ u[i] = "lf"
      <4>1. i = e
        BY <1>1, <2>1, <2>2
      <4> QED
        BY <1>1, <1>3, <2>1, <4>1 DEF Pair
    <3> QED
      BY <1>2, <2>1, <3>1 DEF Bare
  <2>3. CASE i # Len(s)
    <3>1. i + 1 \in 1 .. Len(s) /\ i < Len(s) /\ i < Len(u)
      BY <1>1, <2>1, <2>3
    <3> QED
      BY <1>1, <1>2, <2>1, <3>1 DEF Bare
  <2> QED
    BY <2>2, <2>3
<1>4. \A e \in 1 .. Len(s) : e \in 1 .. Len(u)
  BY <1>1
<1>5. \A e \in 1 .. Len(s) : e \in Ends(u) <=> e \in Ends(s)
  BY <1>1, <1>2, <1>3, <1>4, EndsAre
<1> QED
  BY <1>1, <1>5 DEF u

LEMMA LinesStay ==
  ASSUME NEW s \in Text, NEW t \in Text, NEW e \in Ends(s)
  PROVE  e \in Ends(s \o t) /\ LineTo(s \o t, e) = LineTo(s, e)
<1> DEFINE u == s \o t
<1>1. /\ u \in Text /\ Len(s) <= Len(u)
      /\ \A d \in 1 .. Len(s) : d \in Ends(u) <=> d \in Ends(s)
  BY EndsStay
<1>2. /\ Ends(s) \subseteq 1 .. Len(s) /\ Len(s) \in Nat
      /\ Ends(u) \subseteq 1 .. Len(u) /\ Len(u) \in Nat
  BY <1>1, EndsAre
<1>3. PICK b : b \in 0 .. Len(s) /\ IsBefore(s, b, e)
  BY EveryLineBegins
<1>4. \A i \in 1 .. Len(s) : u[i] = s[i]
  <2>1. /\ Len(s) \in Nat /\ Len(t) \in Nat
        /\ \A i \in 1 .. Len(s) + Len(t) : u[i] = IF i <= Len(s) THEN s[i] ELSE t[i - Len(s)]
    BY ConcatProperties DEF Text
  <2> QED
    BY <2>1
<1> HIDE DEF u
<1>5. e \in Ends(u) /\ e \in 1 .. Len(s)
  BY <1>1, <1>2
<1>6. IsBefore(u, b, e)
  <2>1. \A d \in Ends(u) : d < e => d \in Ends(s)
    BY <1>1, <1>2, <1>5
  <2>2. b \in Ends(u) \cup {0}
    BY <1>1, <1>2, <1>3 DEF IsBefore
  <2> QED
    BY <1>3, <2>1, <2>2 DEF IsBefore
<1>7. SubSeq(u, b + 1, e - 2) = SubSeq(s, b + 1, e - 2)
  <2>1. \A i \in b + 1 .. e - 2 : i \in 1 .. Len(s)
    BY <1>2, <1>3, <1>5
  <2>2. \A i \in b + 1 .. e - 2 : s[i] \in Words /\ u[i] = s[i]
    BY <1>4, <2>1 DEF Text
  <2>3. b + 1 \in Int /\ e - 2 \in Int
    BY <1>2, <1>3, <1>5
  <2> DEFINE a == b + 1
             z == e - 2
  <2>4. a \in Int /\ z \in Int /\ \A i \in a .. z : s[i] \in Words /\ u[i] = s[i]
    BY <2>2, <2>3
  <2> HIDE DEF a, z
  <2>5. SubSeq(u, a, z) = SubSeq(s, a, z)
    BY <2>4, SamePiece
  <2> QED
    BY <2>5 DEF a, z
<1>8. LineTo(u, e) = LineTo(s, e)
  <2>1. LineTo(s, e) = SubSeq(s, b + 1, e - 2)
    BY <1>3, LineBegins
  <2>2. LineTo(u, e) = SubSeq(u, b + 1, e - 2)
    BY <1>1, <1>5, <1>6, LineBegins
  <2> QED
    BY <1>7, <2>1, <2>2
<1> QED
  BY <1>5, <1>8 DEF u

----------------------------------------------------------------------------
(* What the parser knows when it has taken the lines of s up to b.         *)
Heard(s, b, st, lg) ==
  IF b = 0 THEN st = "REQUESTLINE" /\ lg = FALSE
  ELSE /\ st = "HEADER" /\ LineTo(s, Min(Ends(s))) = <<"GET">>
       /\ \A e \in Headers(s) : e <= b => LineTo(s, e) # <<>>
       /\ lg = \E e \in Headers(s) : e <= b /\ LineTo(s, e) = <<"keep">>

LEMMA FirstEnd ==
  ASSUME NEW s \in Text, Ends(s) # {}
  PROVE  /\ Min(Ends(s)) \in Ends(s) /\ Min(Ends(s)) \in Nat
         /\ \A e \in Ends(s) : Min(Ends(s)) <= e
         /\ \A m \in Ends(s) : (\A e \in Ends(s) : m <= e) => m = Min(Ends(s))
<1>1. Ends(s) \in SUBSET Nat
  BY EndsAre
<1>2. Min(Ends(s)) \in Ends(s) /\ \A e \in Ends(s) : Min(Ends(s)) <= e
  BY <1>1, MinOfNat
<1>3. ASSUME NEW m \in Ends(s), \A e \in Ends(s) : m <= e PROVE m = Min(Ends(s))
  <2>1. m \in Nat /\ Min(Ends(s)) \in Nat /\ m <= Min(Ends(s)) /\ Min(Ends(s)) <= m
    BY <1>1, <1>2, <1>3
  <2> QED
    BY <2>1
<1> QED
  BY <1>1, <1>2, <1>3

LEMMA HeardStays ==
  ASSUME NEW s \in Text, NEW t \in Text, NEW b \in Ends(s) \cup {0}, NEW st, NEW lg,
         Heard(s, b, st, lg)
  PROVE  Heard(s \o t, b, st, lg) /\ b \in Ends(s \o t) \cup {0}
<1> DEFINE u == s \o t
<1>1. CASE b = 0
  BY <1>1 DEF Heard
<1>2. CASE b # 0
  <2>1. /\ u \in Text
        /\ \A e \in 1 .. Len(s) : e \in Ends(u) <=> e \in Ends(s)
    BY EndsStay
  <2>2. \A e \in Ends(s) : e \in Ends(u) /\ LineTo(u, e) = LineTo(s, e)
    BY LinesStay
  <2> HIDE DEF u
  <2>3. /\ Ends(s) \subseteq 1 .. Len(s) /\ Len(s) \in Nat /\ Ends(u) \subseteq Nat
        /\ \A e \in Ends(u) : e > 0
    BY <2>1, EndsAre
  <2>4. b \in Ends(s)
    BY <1>2
  <2>5. \A e \in Ends(u) : e <= b => e \in Ends(s)
    BY <2>1, <2>3, <2>4
  <2>6. Min(Ends(s)) \in Ends(s) /\ Min(Ends(s)) \in Nat /\ Min(Ends(s)) <= b
        /\ \A e \in Ends(s) : Min(Ends(s)) <= e
    BY <2>4, FirstEnd
  <2>7. Min(Ends(s)) = Min(Ends(u))
    <3>1. \A e \in Ends(u) : Min(Ends(s)) <= e
      <4> SUFFICES ASSUME NEW e \in Ends(u) PROVE Min(Ends(s)) <= e
        OBVIOUS
      <4>1. CASE e <= b
        BY <2>5, <2>6, <4>1
      <4>2. CASE ~(e <= b)
        BY <2>3, <2>4, <2>6, <4>2
      <4> QED
        BY <4>1, <4>2
    <3>2. Min(Ends(s)) \in Ends(u)
      BY <2>2, <2>6
    <3> QED
      BY <2>1, <3>1, <3>2, FirstEnd
  <2>8. \A e : e \in Headers(u) /\ e <= b <=> e \in Headers(s) /\ e <= b
    BY <2>2, <2>5, <2>7 DEF Headers
  <2>9. \A e \in Headers(s) : LineTo(u, e) = LineTo(s, e)
    BY <2>2 DEF Headers
  <2>10. LineTo(u, Min(Ends(u))) = LineTo(s, Min(Ends(s)))
    BY <2>2, <2>6, <2>7
  <2>11. (\E e \in Headers(u) : e <= b /\ LineTo(u, e) = <<"keep">>)
         = (\E e \in Headers(s) : e <= b /\ LineTo(s, e) = <<"keep">>)
    BY <2>8, <2>9
  <2>12. \A e \in Headers(u) : e <= b => LineTo(u, e) # <<>>
    BY <1>2, <2>8, <2>9 DEF Heard
  <2>13. Heard(u, b, st, lg)
    BY <1>2, <2>10, <2>11, <2>12 DEF Heard
  <2> QED
    BY <2>2, <2>4, <2>13 DEF u
<1> QED
  BY <1>1, <1>2

(* The next line of s after b ends at q: it is the first, or a header.     *)
LEMMA NextFirst ==
  ASSUME NEW s \in Text, NEW q \in Ends(s), IsBefore(s, 0, q)
  PROVE  q = Min(Ends(s)) /\ \A e \in Headers(s) : ~(e <= q)
<1>1. Ends(s) \subseteq 1 .. Len(s) /\ Len(s) \in Nat
  BY EndsAre
<1>2. \A e \in Ends(s) : q <= e
  BY <1>1 DEF IsBefore
<1>3. q = Min(Ends(s))
  BY <1>2, FirstEnd
<1>4. \A e \in Headers(s) : e \in Nat /\ e # q /\ q <= e
  BY <1>1, <1>2, <1>3 DEF Headers
<1> QED
  BY <1>1, <1>3, <1>4

LEMMA NextHeader ==
  ASSUME NEW s \in Text, NEW q \in Ends(s), NEW b \in Ends(s), IsBefore(s, b, q)
  PROVE  /\ q \in Headers(s)
         /\ \A e \in Headers(s) : (e <= q <=> e <= b \/ e = q) /\ (e < q <=> e <= b)
<1>1. Ends(s) \subseteq 1 .. Len(s) /\ Len(s) \in Nat
  BY EndsAre
<1>2. Min(Ends(s)) <= b /\ Min(Ends(s)) \in Nat
  BY FirstEnd
<1>3. q # Min(Ends(s))
  BY <1>1, <1>2 DEF IsBefore
<1>4. \A e \in Ends(s) : (e <= q <=> e <= b \/ e = q) /\ (e < q <=> e <= b)
  BY <1>1 DEF IsBefore
<1> QED
  BY <1>3, <1>4 DEF Headers

LEMMA RefusedLine ==
  ASSUME NEW s \in Text, NEW q \in Ends(s), IsBefore(s, 0, q), LineTo(s, q) # <<"GET">>
  PROVE  Answerable(s) /\ ~Keeps(s)
  BY NextFirst DEF Answerable, Keeps

LEMMA EmptyLine ==
  ASSUME NEW s \in Text, NEW q \in Ends(s), NEW b \in Ends(s), IsBefore(s, b, q),
         NEW st, NEW lg, Heard(s, b, st, lg), LineTo(s, q) = <<>>
  PROVE  Answerable(s) /\ lg = Keeps(s)
<1>1. Ends(s) \subseteq 1 .. Len(s) /\ Len(s) \in Nat
  BY EndsAre
<1>2. b # 0
  BY <1>1
<1>3. /\ LineTo(s, Min(Ends(s))) = <<"GET">>
      /\ \A e \in Headers(s) : e <= b => LineTo(s, e) # <<>>
      /\ lg = \E e \in Headers(s) : e <= b /\ LineTo(s, e) = <<"keep">>
  BY <1>2 DEF Heard
<1>4. q \in Headers(s) /\ \A e \in Headers(s) : e < q <=> e <= b
  BY NextHeader
<1>5. q \in Blank(s) /\ \A e \in Blank(s) : q <= e
  <2>1. \A e \in Blank(s) : e \in Headers(s) /\ ~(e <= b) /\ e \in Nat
    BY <1>1, <1>3 DEF Blank, Headers
  <2> QED
    BY <1>1, <1>4, <2>1 DEF Blank
<1>6. Min(Blank(s)) = q
  <2>1. Blank(s) \in SUBSET Nat
    BY <1>1 DEF Blank, Headers
  <2>2. Min(Blank(s)) \in Nat /\ Min(Blank(s)) <= q /\ q <= Min(Blank(s)) /\ q \in Nat
    BY <1>5, <2>1, MinOfNat
  <2> QED
    BY <2>2
<1>7. Keeps(s) = \E e \in Headers(s) : e < q /\ LineTo(s, e) = <<"keep">>
  BY <1>3, <1>6 DEF Keeps
<1>8. (\E e \in Headers(s) : e < q /\ LineTo(s, e) = <<"keep">>)
      = (\E e \in Headers(s) : e <= b /\ LineTo(s, e) = <<"keep">>)
  BY <1>4
<1>9. Answerable(s)
  BY <1>5 DEF Answerable
<1>10. lg = Keeps(s)
  BY <1>3, <1>7, <1>8
<1> QED
  BY <1>9, <1>10

LEMMA NoLineLeft ==
  ASSUME NEW s \in Text, NEW b \in Ends(s) \cup {0}, NEW st, NEW lg, Heard(s, b, st, lg),
         \A e \in Ends(s) : e <= b
  PROVE  ~Answerable(s)
<1>1. Ends(s) \subseteq 1 .. Len(s) /\ Len(s) \in Nat
  BY EndsAre
<1>2. CASE b = 0
  <2>1. Ends(s) = {}
    BY <1>1, <1>2
  <2> QED
    BY <2>1 DEF Answerable
<1>3. CASE b # 0
  <2>1. Blank(s) = {}
    BY <1>3 DEF Heard, Blank, Headers
  <2> QED
    BY <1>3, <2>1 DEF Answerable, Heard
<1> QED
  BY <1>2, <1>3

----------------------------------------------------------------------------
(* The invariant: the parser has taken whole lines only, and knows of them *)
(* what the text says; what it has only looked at holds no end of a line.  *)
Parsed ==
  /\ m_start_line \in Ends(got) \cup {0}
  /\ \A p \in m_start_line + 1 .. Len(got) : m_read_buf[p] = got[p]
  /\ m_start_line > 0 => m_read_buf[m_start_line] = "nul"
  /\ \A p \in m_start_line + 1 .. m_checked_idx : got[p] \notin {"cr", "lf"}
  /\ Heard(got, m_start_line, m_check_state, m_linger)
ReadInv ==
  /\ HCTypeOK /\ m_linger \in BOOLEAN
  /\ phase = "reading" => Parsed /\ (~parsing => \A e \in Ends(got) : e <= m_start_line)
  /\ phase \in {"armed", "writing"} /\ got # <<>> => Answerable(got) /\ m_linger = Keeps(got)

LEMMA Indices ==
  ASSUME HCTypeOK
  PROVE  /\ m_start_line \in Nat /\ m_checked_idx \in Nat /\ Len(got) \in Nat
         /\ m_read_idx = Len(got) /\ m_start_line <= m_checked_idx /\ m_checked_idx <= Len(got)
         /\ got \in Text /\ \A p \in 1 .. Len(got) : got[p] \in Words
  BY DEF HCTypeOK, Text, m_read_idx

(* The first "cr" or "lf" behind the start of the line. *)
LEMMA FirstStop ==
  ASSUME HCTypeOK, Parsed
  PROVE  /\ Stops = {} => \A p \in m_start_line + 1 .. Len(got) : got[p] \notin {"cr", "lf"}
         /\ Stops # {} =>
              /\ stop \in Nat /\ m_checked_idx <= stop /\ stop + 1 \in m_start_line + 1 .. Len(got)
              /\ at(stop) = got[stop + 1] /\ got[stop + 1] \in {"cr", "lf"}
              /\ \A p \in m_start_line + 1 .. stop : got[p] \notin {"cr", "lf"}
<1>1. /\ m_start_line \in Nat /\ m_checked_idx \in Nat /\ Len(got) \in Nat
      /\ m_read_idx = Len(got) /\ m_start_line <= m_checked_idx /\ m_checked_idx <= Len(got)
  BY Indices
<1>2. ASSUME NEW p \in m_start_line + 1 .. Len(got), got[p] \in {"cr", "lf"}
      PROVE  p - 1 \in Stops
  <2>1. m_checked_idx < p
    BY <1>1, <1>2 DEF Parsed
  <2>2. p - 1 \in m_checked_idx .. m_read_idx - 1 /\ (p - 1) + 1 = p
    BY <1>1, <2>1
  <2>3. m_read_buf[p] = got[p]
    BY DEF Parsed
  <2> QED
    BY <1>2, <2>2, <2>3 DEF Stops, at
<1>3. ASSUME Stops # {}
      PROVE  /\ stop \in Nat /\ m_checked_idx <= stop /\ stop + 1 \in m_start_line + 1 .. Len(got)
             /\ at(stop) = got[stop + 1] /\ got[stop + 1] \in {"cr", "lf"}
             /\ \A p \in m_start_line + 1 .. stop : got[p] \notin {"cr", "lf"}
  <2>1. Stops \in SUBSET Nat
    BY <1>1 DEF Stops
  <2>2. stop \in Stops /\ \A i \in Stops : stop <= i
    BY <1>3, <2>1, MinOfNat DEF stop
  <2>3. stop \in m_checked_idx .. m_read_idx - 1 /\ at(stop) \in {"cr", "lf"}
    BY <2>2 DEF Stops
  <2> HIDE DEF stop
  <2>4. stop \in Nat /\ m_checked_idx <= stop /\ stop + 1 \in m_start_line + 1 .. Len(got)
    BY <1>1, <2>3
  <2>5. at(stop) = got[stop + 1]
    BY <2>4 DEF at, Parsed
  <2>6. ASSUME NEW p \in m_start_line + 1 .. stop PROVE got[p] \notin {"cr", "lf"}
    <3>1. p \in m_start_line + 1 .. Len(got) /\ ~(stop <= p - 1)
      BY <1>1, <2>4
    <3> QED
      BY <1>2, <2>2, <3>1
  <2> QED
    BY <2>3, <2>4, <2>5, <2>6
<1> QED
  BY <1>2, <1>3

(* LINE_OK: the line taken is the next line of the text. *)
LEMMA NextLine ==
  ASSUME HCTypeOK, Parsed, LineEnds
  PROVE  /\ LineEnd + 2 \in Ends(got) /\ LineEnd \in Nat
         /\ IsBefore(got, m_start_line, LineEnd + 2)
         /\ get_line = LineTo(got, LineEnd + 2)
<1> DEFINE b == m_start_line
           q == stop + 2
<1>1. /\ b \in Nat /\ m_checked_idx \in Nat /\ Len(got) \in Nat
      /\ m_read_idx = Len(got) /\ b <= m_checked_idx /\ m_checked_idx <= Len(got)
      /\ got \in Text /\ \A p \in 1 .. Len(got) : got[p] \in Words
  BY Indices
<1>2. /\ stop \in Nat /\ m_checked_idx <= stop /\ stop + 1 \in b + 1 .. Len(got)
      /\ at(stop) = got[stop + 1] /\ got[stop + 1] \in {"cr", "lf"}
      /\ \A p \in b + 1 .. stop : got[p] \notin {"cr", "lf"}
  BY FirstStop DEF LineEnds
<1>3. at(stop) = "cr" /\ stop + 1 < m_read_idx /\ at(stop + 1) = "lf"
  <2>1. CASE at(stop) = "lf" /\ stop > 1 /\ at(stop - 1) = "cr"
    <3>1. m_read_buf[stop] = "cr" /\ stop \in Nat
      <4>1. (stop - 1) + 1 = stop
        BY <1>2
      <4> QED
        BY <1>2, <2>1, <4>1 DEF at
    <3>2. CASE stop = b
      <4>1. b > 0
        BY <1>2, <2>1, <3>2
      <4> QED
        BY <3>1, <3>2, <4>1 DEF Parsed
    <3>3. CASE stop # b
      <4>1. stop \in b + 1 .. Len(got) /\ stop \in b + 1 .. stop
        BY <1>1, <1>2, <3>3
      <4> QED
        BY <1>2, <3>1, <4>1 DEF Parsed
    <3> QED
      BY <3>2, <3>3
  <2> QED
    BY <2>1 DEF LineEnds
<1>4. LineEnd = stop
  BY <1>3 DEF LineEnd
<1> HIDE DEF stop
<1>5. q \in 1 .. Len(got) /\ q - 1 = stop + 1 /\ q > 1 /\ got[q - 1] = "cr" /\ got[q] = "lf"
  <2>1. q \in b + 1 .. Len(got) /\ (stop + 1) + 1 = q /\ q - 1 = stop + 1 /\ q \in 1 .. Len(got)
    BY <1>1, <1>2, <1>3
  <2>2. at(stop + 1) = got[q]
    BY <2>1 DEF at, Parsed
  <2>3. got[q - 1] = "cr" /\ got[q] = "lf"
    BY <1>2, <1>3, <2>1, <2>2
  <2>4. q > 1
    BY <1>2
  <2> HIDE DEF q
  <2> QED
    BY <2>1, <2>3, <2>4
<1>6. Ends(got) = {e \in 1 .. Len(got) : Pair(got, e) /\ \A i \in 1 .. e : ~Bare(got, i)}
  BY <1>1, EndsAre
<1>7. \A i \in 1 .. q : ~Bare(got, i)
  <2> SUFFICES ASSUME NEW i \in 1 .. q PROVE ~Bare(got, i)
    OBVIOUS
  <2>1. i \in 1 .. b \/ i \in b + 1 .. stop \/ i = q - 1 \/ i = q
    BY <1>1, <1>2
  <2>2. CASE i \in 1 .. b
    <3>1. b \in Ends(got)
      BY <1>1, <2>2 DEF Parsed
    <3> QED
      BY <1>6, <2>2, <3>1
  <2>3. CASE i \in b + 1 .. stop
    BY <1>2, <2>3 DEF Bare
  <2>4. CASE i = q - 1
    <3>1. i + 1 = q /\ got[i] = "cr" /\ got[i + 1] = "lf"
      BY <1>2, <1>5, <2>4
    <3> QED
      BY <3>1 DEF Bare
  <2>5. CASE i = q
    BY <1>5, <2>5 DEF Bare, Pair
  <2> QED
    BY <2>1, <2>2, <2>3, <2>4, <2>5
<1>8. q \in Ends(got)
  BY <1>5, <1>6, <1>7 DEF Pair
<1>9. IsBefore(got, b, q)
  <2>1. ASSUME NEW d \in Ends(got), d < q, ~(d <= b) PROVE FALSE
    <3>1. got[d] = "lf" /\ d \in 1 .. Len(got)
      BY <1>6 DEF Pair
    <3>2. d \in b + 1 .. stop \/ d = q - 1
      BY <1>1, <1>2, <2>1, <3>1
    <3> QED
      BY <1>2, <1>5, <3>1, <3>2
  <2>2. b < q
    BY <1>1, <1>2
  <2> QED
    BY <2>1, <2>2 DEF IsBefore, Parsed
<1>10. LineTo(got, q) = SubSeq(got, b + 1, stop)
  <2>1. q - 2 = stop
    BY <1>2
  <2> QED
    BY <1>1, <1>8, <1>9, <2>1, LineBegins
<1>11. get_line = SubSeq(got, b + 1, stop)
  <2>1. \A i \in b + 1 .. stop : got[i] \in Words /\ m_read_buf[i] = got[i]
    <3>1. \A i \in b + 1 .. stop : i \in 1 .. Len(got) /\ i \in b + 1 .. Len(got)
      BY <1>1, <1>2
    <3> QED
      BY <1>1, <3>1 DEF Parsed
  <2>2. b + 1 \in Int /\ stop \in Int
    BY <1>1, <1>2
  <2>3. SubSeq(m_read_buf, b + 1, stop) = SubSeq(got, b + 1, stop)
    BY <2>1, <2>2, SamePiece
  <2> QED
    BY <1>4, <2>3 DEF get_line
<1> QED
  BY <1>2, <1>4, <1>8, <1>9, <1>10, <1>11

(* LINE_OPEN, LINE_BAD: the text has no line behind those taken. *)
LEMMA NoNextLine ==
  ASSUME HCTypeOK, Parsed, ~LineEnds
  PROVE  \A e \in Ends(got) : e <= m_start_line
<1> DEFINE b == m_start_line
<1>1. /\ b \in Nat /\ m_checked_idx \in Nat /\ Len(got) \in Nat
      /\ m_read_idx = Len(got) /\ b <= m_checked_idx /\ m_checked_idx <= Len(got)
      /\ got \in Text
  BY Indices
<1>2. Ends(got) = {e \in 1 .. Len(got) : Pair(got, e) /\ \A i \in 1 .. e : ~Bare(got, i)}
  BY <1>1, EndsAre
<1> SUFFICES ASSUME NEW e \in Ends(got), ~(e <= b) PROVE FALSE
  OBVIOUS
<1>3. /\ e \in b + 1 .. Len(got) /\ e \in 1 .. Len(got)
      /\ Pair(got, e) /\ got[e] = "lf" /\ \A i \in 1 .. e : ~Bare(got, i)
  BY <1>1, <1>2 DEF Pair
<1>4. CASE Stops = {}
  BY <1>3, <1>4, FirstStop
<1>5. CASE Stops # {}
  <2>1. /\ stop \in Nat /\ m_checked_idx <= stop /\ stop + 1 \in b + 1 .. Len(got)
        /\ at(stop) = got[stop + 1] /\ got[stop + 1] \in {"cr", "lf"}
        /\ \A p \in b + 1 .. stop : got[p] \notin {"cr", "lf"}
    BY <1>5, FirstStop
  <2>2. ~(at(stop) = "cr" /\ stop + 1 < m_read_idx /\ at(stop + 1) = "lf")
    BY <1>5 DEF LineEnds
  <2> HIDE DEF stop
  <2>3. stop + 1 <= e /\ stop + 1 \in 1 .. e
    <3>1. ~(e \in b + 1 .. stop)
      BY <1>3, <2>1
    <3> QED
      BY <1>1, <1>3, <2>1, <3>1
  <2>4. CASE got[stop + 1] = "cr"
    <3>1. e # stop + 1 /\ stop + 1 < Len(got) /\ (stop + 1) + 1 \in b + 1 .. Len(got)
      BY <1>1, <1>3, <2>1, <2>3, <2>4
    <3>2. at(stop + 1) = got[(stop + 1) + 1]
      BY <3>1 DEF at, Parsed
    <3>3. Bare(got, stop + 1)
      BY <1>1, <2>1, <2>2, <2>4, <3>1, <3>2 DEF Bare
    <3> QED
      BY <1>3, <2>3, <3>3
  <2>5. CASE got[stop + 1] = "lf"
    <3>1. (stop + 1) - 1 = stop
      BY <2>1
    <3>2. ~(stop + 1 > 1 /\ got[stop] = "cr")
      <4>1. CASE stop \in b + 1 .. stop
        BY <2>1, <4>1
      <4>2. CASE stop = b /\ b > 0
        <5>1. b \in Ends(got)
          BY <4>2 DEF Parsed
        <5>2. got[b] = "lf"
          BY <1>2, <5>1 DEF Pair
        <5> QED
          BY <4>2, <5>2
      <4>3. CASE stop = 0
        BY <4>3
      <4> QED
        BY <1>1, <2>1, <4>1, <4>2, <4>3
    <3>3. Bare(got, stop + 1)
      BY <2>5, <3>1, <3>2 DEF Bare, Pair
    <3> QED
      BY <1>3, <2>3, <3>3
  <2> QED
    BY <2>1, <2>4, <2>5
<1> QED
  BY <1>4, <1>5

LEMMA ParsedAfterReset ==
  ASSUME resetRead, m_linger' = FALSE
  PROVE  Parsed' /\ \A e \in Ends(got') : e <= m_start_line'
<1>1. /\ got' = <<>> /\ m_start_line' = 0 /\ m_checked_idx' = 0
      /\ m_check_state' = "REQUESTLINE"
  BY DEF resetRead
<1>2. <<>> \in Text /\ Len(<<>>) = 0
  BY DEF Text
<1>3. Ends(got') = {}
  <2>1. Ends(<<>>) \subseteq 1 .. Len(<<>>)
    BY <1>2, EndsAre
  <2> QED
    BY <1>1, <1>2, <2>1
<1>4. Heard(got', m_start_line', m_check_state', m_linger')
  BY <1>1 DEF Heard
<1> QED
  BY <1>1, <1>2, <1>3, <1>4 DEF Parsed

LEMMA ParsedWhenUnchanged ==
  ASSUME UNCHANGED <<readvars, m_linger>>
  PROVE  /\ Parsed' <=> Parsed
         /\ got' = got /\ m_start_line' = m_start_line
  BY DEF readvars, Parsed

LEMMA ParsedAfterRead ==
  ASSUME HCTypeOK, Parsed, read_once
  PROVE  Parsed'
<1> DEFINE n == Taken
           piece == SubSeq(socket, 1, n)
           b == m_start_line
<1>1. /\ b \in Nat /\ m_checked_idx \in Nat /\ Len(got) \in Nat
      /\ m_read_idx = Len(got) /\ b <= m_checked_idx /\ m_checked_idx <= Len(got)
      /\ got \in Text
  BY Indices
<1>2. piece \in Seq(Words) /\ Len(piece) \in Nat
  <2>1. /\ m_read_idx \in Nat /\ READ_BUFFER_SIZE \in Nat /\ m_read_idx <= READ_BUFFER_SIZE
        /\ socket \in Seq(Words) /\ Len(socket) \in Nat
    BY ReadAssumption DEF HCTypeOK, Text, m_read_idx
  <2>2. n \in Nat /\ n <= Len(socket)
    BY <2>1 DEF read_once, Taken, Room
  <2> HIDE DEF n
  <2>3. \A k \in 1 .. n : socket[k] \in Words
    BY <2>1, <2>2
  <2> QED
    BY <2>2, <2>3, SubSeqProperties
<1>3. /\ m_read_buf' = m_read_buf \o piece /\ got' = got \o piece
      /\ UNCHANGED <<m_checked_idx, m_start_line, m_check_state, m_linger>>
  BY DEF read_once, hwvars
<1> HIDE DEF n, piece
<1>4. /\ m_read_buf \in Seq(Words \cup {"nul"}) /\ Len(m_read_buf) = Len(got)
      /\ piece \in Seq(Words \cup {"nul"}) /\ piece \in Text /\ got \in Seq(Words)
  BY <1>1, <1>2 DEF HCTypeOK, Text, m_read_idx
<1>5. /\ \A i \in 1 .. Len(got) + Len(piece) :
           got'[i] = IF i <= Len(got) THEN got[i] ELSE piece[i - Len(got)]
      /\ Len(got') = Len(got) + Len(piece)
  BY <1>2, <1>3, <1>4, ConcatProperties
<1>6. \A i \in 1 .. Len(got) + Len(piece) :
        m_read_buf'[i] = IF i <= Len(got) THEN m_read_buf[i] ELSE piece[i - Len(got)]
  BY <1>3, <1>4, ConcatProperties
<1>7. b \in Ends(got) \cup {0} /\ Heard(got, b, m_check_state, m_linger)
  BY DEF Parsed
<1>8. Heard(got', m_start_line', m_check_state', m_linger') /\ m_start_line' \in Ends(got') \cup {0}
  BY <1>1, <1>3, <1>4, <1>7, HeardStays
<1>9. \A p \in b + 1 .. Len(got') : m_read_buf'[p] = got'[p]
  <2> SUFFICES ASSUME NEW p \in b + 1 .. Len(got') PROVE m_read_buf'[p] = got'[p]
    OBVIOUS
  <2>1. p \in 1 .. Len(got) + Len(piece)
    BY <1>1, <1>2, <1>5
  <2>2. p <= Len(got) => m_read_buf[p] = got[p]
    BY <1>1, <2>1 DEF Parsed
  <2> QED
    BY <1>5, <1>6, <2>1, <2>2
<1>10. b > 0 => m_read_buf'[b] = "nul"
  <2>1. b > 0 => b \in 1 .. Len(got) + Len(piece) /\ b <= Len(got)
    BY <1>1, <1>2
  <2> QED
    BY <1>6, <2>1 DEF Parsed
<1>11. \A p \in b + 1 .. m_checked_idx : got'[p] \notin {"cr", "lf"}
  <2>1. \A p \in b + 1 .. m_checked_idx : p \in 1 .. Len(got) + Len(piece) /\ p <= Len(got)
    BY <1>1, <1>2
  <2> QED
    BY <1>5, <2>1 DEF Parsed
<1> QED
  BY <1>3, <1>8, <1>9, <1>10, <1>11 DEF Parsed

LEMMA ParsedNoLine ==
  ASSUME HCTypeOK, Parsed, NoLine
  PROVE  Parsed' /\ \A e \in Ends(got') : e <= m_start_line'
<1>1. /\ UNCHANGED <<m_read_buf, m_start_line, m_check_state, got, m_linger>>
      /\ m_checked_idx' = (IF Stops = {} THEN m_read_idx ELSE stop) /\ ~LineEnds
  BY DEF NoLine, hwvars
<1>2. \A e \in Ends(got) : e <= m_start_line
  BY <1>1, NoNextLine
<1>3. m_read_idx = Len(got)
  BY Indices
<1>4. \A p \in m_start_line + 1 .. m_checked_idx' : got[p] \notin {"cr", "lf"}
  BY <1>1, <1>3, FirstStop
<1>5. Parsed'
  BY <1>1, <1>4 DEF Parsed
<1> QED
  BY <1>1, <1>2, <1>5

LEMMA ParsedLine ==
  ASSUME HCTypeOK, Parsed, TakeLine
  PROVE  /\ got' = got /\ m_start_line' = LineEnd + 2 /\ got \in Text
         /\ m_start_line' \in Ends(got) /\ m_start_line' # 0
         /\ IsBefore(got, m_start_line, m_start_line')
         /\ get_line = LineTo(got, m_start_line')
         /\ Heard(got, m_start_line', m_check_state', m_linger') => Parsed'
<1> DEFINE q == LineEnd + 2
<1>1. /\ q \in Ends(got) /\ LineEnd \in Nat /\ IsBefore(got, m_start_line, q)
      /\ get_line = LineTo(got, q)
  BY NextLine DEF TakeLine
<1>2. /\ m_start_line \in Nat /\ Len(got) \in Nat /\ m_read_idx = Len(got) /\ got \in Text
      /\ m_read_buf \in Seq(Words \cup {"nul"}) /\ Len(m_read_buf) = Len(got)
  BY Indices DEF HCTypeOK, m_read_idx
<1>3. got' = got /\ m_start_line' = q /\ m_checked_idx' = q
      /\ m_read_buf' = [m_read_buf EXCEPT ![LineEnd + 1] = "nul", ![q] = "nul"]
  BY DEF TakeLine
<1>4. q \in 1 .. Len(got) /\ LineEnd + 1 \in 1 .. Len(got) /\ LineEnd + 1 < q /\ m_start_line < q
  <2>1. q \in 1 .. Len(got)
    BY <1>1, <1>2, EndsAre
  <2> QED
    BY <1>1, <1>2, <2>1 DEF IsBefore
<1>5. \A p \in q + 1 .. Len(got) : m_read_buf'[p] = got[p]
  <2>1. \A p \in q + 1 .. Len(got) : p \in m_start_line + 1 .. Len(got) /\ p \in 1 .. Len(got)
                                     /\ p # q /\ p # LineEnd + 1
    BY <1>1, <1>2, <1>4
  <2>2. \A p \in q + 1 .. Len(got) : m_read_buf'[p] = m_read_buf[p]
    BY <1>2, <1>3, <1>4, <2>1
  <2> QED
    BY <2>1, <2>2 DEF Parsed
<1>6. m_read_buf'[q] = "nul"
  BY <1>2, <1>3, <1>4
<1>7. \A p \in q + 1 .. q : FALSE
  BY <1>1
<1> HIDE DEF q
<1>8. Heard(got, m_start_line', m_check_state', m_linger') => Parsed'
  BY <1>1, <1>3, <1>5, <1>6, <1>7 DEF Parsed
<1> QED
  BY <1>1, <1>2, <1>3, <1>4, <1>8 DEF q

LEMMA ParsedRequestLine ==
  ASSUME HCTypeOK, Parsed, RequestLine
  PROVE  Parsed'
<1>1. TakeLine /\ m_check_state = "REQUESTLINE" /\ m_check_state' = "HEADER"
      /\ get_line = <<"GET">> /\ m_linger' = m_linger
  BY DEF RequestLine, hwvars
<1>2. m_start_line = 0 /\ m_linger = FALSE
  BY <1>1 DEF Parsed, Heard
<1> DEFINE q == m_start_line'
<1>3. /\ got \in Text /\ q \in Ends(got) /\ q # 0 /\ IsBefore(got, 0, q)
      /\ LineTo(got, q) = <<"GET">>
      /\ Heard(got, q, m_check_state', m_linger') => Parsed'
  BY <1>1, <1>2, ParsedLine
<1>4. q = Min(Ends(got)) /\ \A e \in Headers(got) : ~(e <= q)
  BY <1>3, NextFirst
<1>5. Heard(got, q, m_check_state', m_linger')
  BY <1>1, <1>2, <1>3, <1>4 DEF Heard
<1> QED
  BY <1>3, <1>5

LEMMA ParsedHeader ==
  ASSUME HCTypeOK, Parsed, m_linger \in BOOLEAN, Header
  PROVE  Parsed' /\ m_linger' \in BOOLEAN
<1>1. TakeLine /\ m_check_state = "HEADER" /\ m_check_state' = m_check_state /\ get_line # <<>>
      /\ m_linger' = IF get_line = <<"keep">> THEN TRUE ELSE m_linger
  BY DEF Header, KeepAlive, hwvars
<1> DEFINE b == m_start_line
           q == m_start_line'
<1>2. b # 0 /\ b \in Ends(got)
  BY <1>1 DEF Parsed, Heard
<1>3. /\ LineTo(got, Min(Ends(got))) = <<"GET">>
      /\ \A e \in Headers(got) : e <= b => LineTo(got, e) # <<>>
      /\ m_linger = \E e \in Headers(got) : e <= b /\ LineTo(got, e) = <<"keep">>
  BY <1>2 DEF Parsed, Heard
<1>4. /\ got \in Text /\ q \in Ends(got) /\ q # 0 /\ IsBefore(got, b, q)
      /\ get_line = LineTo(got, q)
      /\ Heard(got, q, m_check_state', m_linger') => Parsed'
  BY <1>1, ParsedLine
<1>5. q \in Headers(got) /\ \A e \in Headers(got) : e <= q <=> e <= b \/ e = q
  BY <1>2, <1>4, NextHeader
<1> HIDE DEF b, q
<1>6. \A e \in Headers(got) : e <= q => LineTo(got, e) # <<>>
  BY <1>1, <1>3, <1>4, <1>5
<1>7. m_linger' = \E e \in Headers(got) : e <= q /\ LineTo(got, e) = <<"keep">>
  <2>1. CASE get_line = <<"keep">>
    BY <1>1, <1>4, <1>5, <2>1
  <2>2. CASE get_line # <<"keep">>
    <3>1. (\E e \in Headers(got) : e <= q /\ LineTo(got, e) = <<"keep">>)
          = (\E e \in Headers(got) : e <= b /\ LineTo(got, e) = <<"keep">>)
      BY <1>4, <1>5, <2>2
    <3> QED
      BY <1>1, <1>3, <2>2, <3>1
  <2> QED
    BY <2>1, <2>2
<1>8. Heard(got, q, m_check_state', m_linger')
  BY <1>1, <1>3, <1>4, <1>6, <1>7 DEF Heard
<1> QED
  BY <1>1, <1>4, <1>8

LEMMA AnsweredRight ==
  ASSUME HCTypeOK, Parsed, BadRequest \/ do_request
  PROVE  Answerable(got) /\ m_linger = Keeps(got) /\ got' = got /\ m_linger' = m_linger
         /\ phase' \in {"armed", "closed"}
<1>1. TakeLine /\ m_linger' = m_linger /\ phase' \in {"armed", "closed"}
  BY DEF BadRequest, do_request, Prepare, Close
<1> DEFINE b == m_start_line
           q == m_start_line'
<1>2. /\ got \in Text /\ q \in Ends(got) /\ IsBefore(got, b, q)
      /\ get_line = LineTo(got, q) /\ got' = got
  BY <1>1, ParsedLine
<1>3. b \in Ends(got) \cup {0} /\ Heard(got, b, m_check_state, m_linger)
  BY DEF Parsed
<1>4. CASE BadRequest
  <2>1. b = 0 /\ m_linger = FALSE /\ LineTo(got, q) # <<"GET">>
    BY <1>2, <1>3, <1>4 DEF BadRequest, Heard
  <2>2. Answerable(got) /\ ~Keeps(got)
    BY <1>2, <2>1, RefusedLine
  <2>3. Keeps(got) \in BOOLEAN
    BY DEF Keeps
  <2> QED
    BY <1>1, <1>2, <2>1, <2>2, <2>3
<1>5. CASE do_request
  <2>1. b # 0 /\ LineTo(got, q) = <<>>
    BY <1>2, <1>3, <1>5 DEF do_request, Heard
  <2> QED
    BY <1>1, <1>2, <1>3, <2>1, EmptyLine
<1> QED
  BY <1>4, <1>5

LEMMA ReadInvStep == ReadInv /\ [HCNext]_hcvars => ReadInv'
<1> SUFFICES ASSUME ReadInv, [HCNext]_hcvars PROVE ReadInv'
  OBVIOUS
<1>0. HCTypeOK /\ HCTypeOK' /\ m_linger \in BOOLEAN
  BY HCStep DEF ReadInv
<1>1. parsing => phase = "reading" /\ Parsed
  BY DEF ReadInv, HCTypeOK
<1>2. CASE Send
  <2>1. UNCHANGED <<phase, parsing, readvars, m_linger>>
    BY <1>2 DEF Send, hwvars
  <2> QED
    BY <1>0, <2>1, ParsedWhenUnchanged DEF ReadInv
<1>3. CASE read_once
  <2>1. phase = "reading" /\ phase' = phase /\ m_linger' = m_linger /\ parsing' = TRUE
    BY <1>3 DEF read_once, hwvars
  <2>2. Parsed'
    BY <1>0, <1>3, <2>1, ParsedAfterRead DEF ReadInv
  <2> QED
    BY <1>0, <2>1, <2>2 DEF ReadInv
<1>4. CASE ReadFull \/ Drop
  <2>1. phase' = "closed" /\ m_linger' = m_linger
    BY <1>4 DEF ReadFull, Drop, Close
  <2> QED
    BY <1>0, <2>1 DEF ReadInv
<1>5. CASE NoLine
  <2>1. phase = "reading" /\ phase' = phase /\ m_linger' = m_linger /\ Parsed
    BY <1>1, <1>5 DEF NoLine, hwvars
  <2>2. Parsed' /\ \A e \in Ends(got') : e <= m_start_line'
    BY <1>0, <1>5, <2>1, ParsedNoLine
  <2> QED
    BY <1>0, <2>1, <2>2 DEF ReadInv
<1>6. CASE RequestLine
  <2>1. phase = "reading" /\ phase' = phase /\ m_linger' = m_linger /\ Parsed /\ parsing' = TRUE
    BY <1>0, <1>1, <1>6 DEF RequestLine, TakeLine, hwvars, HCTypeOK
  <2>2. Parsed'
    BY <1>0, <1>6, <2>1, ParsedRequestLine
  <2> QED
    BY <1>0, <2>1, <2>2 DEF ReadInv
<1>7. CASE Header
  <2>1. phase = "reading" /\ phase' = phase /\ Parsed /\ parsing' = TRUE
    BY <1>0, <1>1, <1>7 DEF Header, TakeLine, KeepAlive, hwvars, HCTypeOK
  <2>2. Parsed' /\ m_linger' \in BOOLEAN
    BY <1>0, <1>7, <2>1, ParsedHeader
  <2> QED
    BY <1>0, <2>1, <2>2 DEF ReadInv
<1>8. CASE BadRequest \/ do_request
  <2>1. Parsed
    BY <1>1, <1>8 DEF BadRequest, do_request, TakeLine
  <2>2. Answerable(got) /\ m_linger = Keeps(got) /\ got' = got /\ m_linger' = m_linger
        /\ phase' \in {"armed", "closed"}
    BY <1>0, <1>8, <2>1, AnsweredRight
  <2>3. phase' # "reading" /\ Answerable(got') /\ m_linger' = Keeps(got')
    BY <2>2
  <2> QED
    BY <1>0, <2>2, <2>3 DEF ReadInv
<1>9. CASE Answer
  <2>1. phase \in {"armed", "writing"}
    BY <1>9 DEF Answer, write, WriteNothing, WriteBegins, Writev, WritevFails
  <2>2. CASE phase' = "reading"
    <3>1. resetRead /\ m_linger' = FALSE
      BY <1>9, <2>2 DEF Answer, write, WriteNothing, WriteBegins, Writev, WritevFails, reset
    <3>2. Parsed' /\ \A e \in Ends(got') : e <= m_start_line'
      BY <3>1, ParsedAfterReset
    <3> QED
      BY <1>0, <2>2, <3>1, <3>2 DEF ReadInv
  <2>3. CASE phase' # "reading"
    <3>1. UNCHANGED readvars
      BY <1>9, <2>3 DEF Answer
    <3>2. m_linger' = m_linger
      BY <1>9, <2>3 DEF Answer, write, WriteNothing, WriteBegins, Writev, WritevFails
    <3>3. got' = got /\ UNCHANGED <<readvars, m_linger>>
      BY <3>1, <3>2 DEF readvars
    <3>4. got' # <<>> => Answerable(got') /\ m_linger' = Keeps(got')
      BY <2>1, <3>2, <3>3 DEF ReadInv
    <3> QED
      BY <1>0, <2>3, <3>2, <3>4 DEF ReadInv
  <2> QED
    BY <2>2, <2>3
<1>10. CASE Accept
  <2>1. resetRead /\ m_linger' = FALSE /\ got' = <<>>
    BY <1>10 DEF Accept, Reuse, reset, resetRead
  <2>2. Parsed' /\ \A e \in Ends(got') : e <= m_start_line'
    BY <2>1, ParsedAfterReset
  <2> QED
    BY <1>0, <2>1, <2>2 DEF ReadInv
<1>11. CASE UNCHANGED hcvars
  <2>1. UNCHANGED <<phase, parsing, readvars, m_linger>>
    BY <1>11 DEF hcvars, hwvars
  <2> QED
    BY <1>0, <2>1, ParsedWhenUnchanged DEF ReadInv
<1> QED
  BY <1>2, <1>3, <1>4, <1>5, <1>6, <1>7, <1>8, <1>9, <1>10, <1>11 DEF HCNext, Serve, process

(* Wherever the text of a request is cut, the server answers when, and     *)
(* only when, the text as a whole calls for it: process_read, which looks  *)
(* at each piece once and goes on where it stopped, reads what a parser of *)
(* the whole text would read, and keeps the connection when that says so.  *)
THEOREM CutAnywhere == HCSpec => []ParsesAsWhole
<1>1. HCInit => ReadInv
  <2> SUFFICES ASSUME HCInit PROVE ReadInv
    OBVIOUS
  <2>1. HCTypeOK
    BY InitTypes
  <2>2. /\ got = <<>> /\ m_start_line = 0 /\ m_checked_idx = 0 /\ phase = "reading"
        /\ m_check_state = "REQUESTLINE" /\ m_linger = FALSE
    BY DEF HCInit, HWInit
  <2>3. <<>> \in Text /\ Len(<<>>) = 0
    BY DEF Text
  <2>4. Ends(got) = {}
    <3>1. Ends(<<>>) \subseteq 1 .. Len(<<>>)
      BY <2>3, EndsAre
    <3> QED
      BY <2>2, <2>3, <3>1
  <2>5. Heard(got, m_start_line, m_check_state, m_linger)
    BY <2>2 DEF Heard
  <2>6. Parsed
    BY <2>2, <2>3, <2>5 DEF Parsed
  <2> QED
    BY <2>1, <2>2, <2>4, <2>6 DEF ReadInv
<1>2. ReadInv /\ [HCNext]_hcvars => ReadInv'
  BY ReadInvStep
<1>3. ReadInv => ParsesAsWhole
  <2> SUFFICES ASSUME ReadInv PROVE ParsesAsWhole
    OBVIOUS
  <2>1. phase = "reading" /\ ~parsing => ~Answerable(got)
    <3> SUFFICES ASSUME phase = "reading", ~parsing PROVE ~Answerable(got)
      OBVIOUS
    <3>1. got \in Text /\ Parsed /\ \A e \in Ends(got) : e <= m_start_line
      BY Indices DEF ReadInv
    <3>2. m_start_line \in Ends(got) \cup {0} /\ Heard(got, m_start_line, m_check_state, m_linger)
      BY <3>1 DEF Parsed
    <3> QED
      BY <3>1, <3>2, NoLineLeft
  <2> QED
    BY <2>1 DEF ReadInv, ParsesAsWhole
<1> QED
  BY <1>1, <1>2, <1>3, PTL DEF HCSpec
=============================================================================
