----------------------------- MODULE HttpWrite -----------------------------
(* http_conn::process_write and http_conn::write: how the responses of a   *)
(* connection leave the server.  writev() takes as many bytes as the       *)
(* socket buffer has room for, and write() advances the two iovecs         *)
(* accordingly.  A byte is named by the memory it is read from:            *)
(* <<"header", i>> is m_write_buf[i], <<"file", i>> is m_file_address[i].  *)
EXTENDS Integers, Sequences

CONSTANTS
  MaxHeader,    (* bound on m_write_idx                                    *)
  MaxFile,      (* bound on m_file_stat.st_size                            *)
  SplitHeader   (* the socket buffer may have room for part of the header  *)

ASSUME SizeAssumption ==
  MaxHeader \in Nat \ {0} /\ MaxFile \in Nat \ {0} /\ SplitHeader \in BOOLEAN

VARIABLES
  phase,        (* EPOLLIN armed, EPOLLOUT armed, in write(), or closed    *)
  m_iv,         (* the iovecs: where they start, how long they are         *)
  m_iv_count,
  m_write_idx,  (* the length of the header                                *)
  st_size,      (* the length of the file behind it, 0 if there is none    *)
  bytes_to_send, bytes_have_send, m_linger,
  received      (* the bytes of this response the client has got           *)
hwvars == <<phase, m_iv, m_iv_count, m_write_idx, st_size,
            bytes_to_send, bytes_have_send, m_linger, received>>

HWPhases == {"reading", "armed", "writing", "closed"}
iovec(b, l) == [base |-> b, len |-> l]

(* The k-th byte of the response, ... *)
Byte(k) == IF k <= m_write_idx THEN <<"header", k - 1>> ELSE <<"file", k - 1 - m_write_idx>>
(* ... and the k-th of those writev() is given. *)
Given(k) == IF k <= m_iv[0].len THEN <<"header", m_iv[0].base + k - 1>>
                                ELSE <<"file", m_iv[1].base + k - 1 - m_iv[0].len>>
Offered == m_iv[0].len + (IF m_iv_count = 2 THEN m_iv[1].len ELSE 0)

----------------------------------------------------------------------------
(* Mutant: bytes_have_send keeps its value. *)
reset_keeps_sent ==
  /\ bytes_to_send' = 0 /\ m_write_idx' = 0 /\ m_linger' = FALSE
  /\ UNCHANGED bytes_have_send

(* The private init(). *)
reset ==
  /\ bytes_to_send' = 0 /\ bytes_have_send' = 0
  /\ m_write_idx' = 0 /\ m_linger' = FALSE

HWInit ==
  /\ phase = "reading" /\ m_iv = [i \in {0, 1} |-> iovec(0, 0)]
  /\ m_iv_count = 0 /\ m_write_idx = 0 /\ st_size = 0 /\ m_linger = FALSE
  /\ bytes_to_send = 0 /\ bytes_have_send = 0 /\ received = <<>>

(* A header line of the request asks to keep the connection. *)
KeepAlive ==
  /\ phase = "reading" /\ m_linger' = TRUE
  /\ UNCHANGED <<phase, m_iv, m_iv_count, m_write_idx, st_size, bytes_to_send, bytes_have_send,
                 received>>

(* process_write: a header of h bytes and a file of f bytes; when f is 0   *)
(* the whole response is in m_write_buf and there is one iovec.            *)
Prepare(h, f) ==
  /\ phase = "reading" /\ phase' = "armed"
  /\ m_write_idx' = h /\ st_size' = f /\ bytes_to_send' = h + f
  /\ m_iv' = [m_iv EXCEPT ![0] = iovec(0, h), ![1] = IF f > 0 THEN iovec(0, f) ELSE @]
  /\ m_iv_count' = IF f > 0 THEN 2 ELSE 1
  /\ received' = <<>>
  /\ UNCHANGED <<bytes_have_send, m_linger>>

(* process_write returns false, or the timer expires, or the peer goes. *)
Close ==
  /\ phase \in {"reading", "armed"} /\ phase' = "closed"
  /\ UNCHANGED <<m_iv, m_iv_count, m_write_idx, st_size, bytes_to_send, bytes_have_send,
                 m_linger, received>>

(* A new connection gets the object.  The modfd of process() after a       *)
(* close_conn() may arm it for writing (see Rearm in WebServer).           *)
Reuse ==
  /\ phase = "closed" /\ phase' \in {"reading", "armed"}
  /\ reset
  /\ st_size' = 0 /\ received' = <<>>
  /\ UNCHANGED <<m_iv, m_iv_count>>

(* write(): nothing to send. *)
WriteNothing ==
  /\ phase = "armed" /\ bytes_to_send = 0
  /\ phase' = "reading"
  /\ reset
  /\ UNCHANGED <<m_iv, m_iv_count, st_size, received>>

WriteBegins ==
  /\ phase = "armed" /\ bytes_to_send # 0
  /\ phase' = "writing"
  /\ UNCHANGED <<m_iv, m_iv_count, m_write_idx, st_size, bytes_to_send, bytes_have_send,
                 m_linger, received>>

(* Mutant: the header is not taken out of the iovecs when it is sent. *)
Advance_keeps_header(have, left) ==
  IF have >= m_iv[0].len
  THEN [m_iv EXCEPT ![1] = iovec(have - m_write_idx, left)]
  ELSE [m_iv EXCEPT ![0] = iovec(have, @.len - have)]

(* Mutant: the file is sent from its beginning again. *)
Advance_from_start(have, left) ==
  IF have >= m_iv[0].len
  THEN [m_iv EXCEPT ![0] = iovec(@.base, 0), ![1] = iovec(0, left)]
  ELSE [m_iv EXCEPT ![0] = iovec(have, @.len - have)]

(* The iovecs after `have' bytes have been sent and `left' are left. *)
Advance(have, left) ==
  IF have >= m_iv[0].len
  THEN [m_iv EXCEPT ![0] = iovec(@.base, 0), ![1] = iovec(have - m_write_idx, left)]
  ELSE [m_iv EXCEPT ![0] = iovec(have, @.len - have)]

(* Mutant: the loop goes on when nothing is left. *)
Sent_late(left) == left < 0
Sent(left) == left <= 0

(* One turn of the loop: writev() takes n bytes.  (Of nothing it takes 0.) *)
(* The unmap() at the end is left out: the file is mapped again before any *)
(* iovec points into it.                                                   *)
Writev(n) ==
  LET have == bytes_have_send + n
      left == bytes_to_send - n
  IN /\ phase = "writing"
     /\ n = 0 => Offered = 0
     /\ SplitHeader \/ n >= m_iv[0].len
     /\ received' = received \o [k \in 1 .. n |-> Given(k)]
     /\ m_iv' = Advance(have, left)
     /\ IF Sent(left) /\ m_linger
        THEN reset /\ phase' = "reading"
        ELSE /\ bytes_have_send' = have /\ bytes_to_send' = left
             /\ phase' = IF Sent(left) THEN "closed" ELSE "writing"
             /\ UNCHANGED <<m_write_idx, m_linger>>
     /\ UNCHANGED <<m_iv_count, st_size>>

(* EAGAIN: the socket buffer is full; or another error, after whose unmap() *)
(* the connection is closed. *)
WritevFails ==
  /\ phase = "writing" /\ Offered > 0
  /\ phase' \in {"armed", "closed"}
  /\ UNCHANGED <<m_iv, m_iv_count, m_write_idx, st_size, bytes_to_send, bytes_have_send,
                 m_linger, received>>

write == WriteNothing \/ WriteBegins \/ (\E n \in 0 .. Offered : Writev(n)) \/ WritevFails
HWNext ==
  \/ \E h \in 1 .. MaxHeader, f \in 0 .. MaxFile : Prepare(h, f)
  \/ KeepAlive \/ Close \/ Reuse \/ write
HWSpec == HWInit /\ [][HWNext]_hwvars

(* The main thread does not stop in the middle of write(). *)
HWFairSpec == HWSpec /\ WF_hwvars(write)

----------------------------------------------------------------------------
HWTypeOK ==
  /\ phase \in HWPhases
  /\ m_iv \in [{0, 1} -> [base : Int, len : Nat]] /\ m_iv_count \in 0 .. 2
  /\ m_write_idx \in 0 .. MaxHeader /\ st_size \in 0 .. MaxFile
  /\ bytes_to_send \in Nat /\ bytes_have_send \in Nat /\ m_linger \in BOOLEAN
  /\ received \in Seq({"header", "file"} \X Int)

(* However the file is cut by what writev() takes and however often the    *)
(* buffer fills up, the client gets the bytes of the response in order -   *)
(* when the header goes out in one piece, SplitHeader = FALSE: what becomes *)
(* of a header in pieces is HeaderFirst's subject.                         *)
SentInOrder ==
  phase \in {"armed", "writing"} =>
    \A k \in DOMAIN received : received[k] = Byte(k)

(* A kept connection is read again only after the whole response is sent:  *)
(* the next response never follows a truncated one.                        *)
WholeResponse ==
  [][phase = "writing" /\ phase' = "reading" =>
       received' = [k \in 1 .. m_write_idx + st_size |-> Byte(k)]]_hwvars

(* The loop of write() comes to an end: the main thread, and with it every *)
(* other connection, is never caught in it.                                *)
WriteReturns == phase = "writing" ~> phase # "writing"

(* http_conn.cpp:184: the second iovec is sent when the header is out. *)
HeaderFirst ==
  phase = "writing" /\ m_iv[0].len = 0 => bytes_have_send >= m_write_idx
=============================================================================
