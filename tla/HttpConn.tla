------------------------------ MODULE HttpConn ------------------------------
(* A connection from the first byte of a request to the last of its answer: *)
(* read_once and process_read in front of the response of HttpWrite.  The  *)
(* text of a request comes in pieces cut anywhere.  It is a sequence of    *)
(* "cr", "lf" and words without either: "GET" is a request line the server *)
(* accepts, "keep" the header Connection:keep-alive as it matches it,      *)
(* "length" a Content-Length, "body" what that announces.                  *)
EXTENDS HttpWrite, FiniteSetsExt

CONSTANTS
  Clients,            (* what a client may send: sequences of requests     *)
  READ_BUFFER_SIZE    (* in words                                          *)

Words == {"cr", "lf", "GET", "keep", "length", "body", "other"}
Text == Seq(Words)
Requests == Seq(Text \ {<<>>})
ASSUME ReadAssumption == Clients \subseteq Requests /\ READ_BUFFER_SIZE \in Nat \ {0}

VARIABLES
  script, patient,    (* what is left to send; the client waits for answers *)
  asked,              (* the request sent last, until it is answered       *)
  socket,             (* the receive buffer of the kernel                  *)
  m_TRIGMode, m_read_buf, m_checked_idx, m_start_line, m_check_state,
  parsing,            (* a worker is in process_read()                     *)
  got                 (* what was read of this request, before parse_line  *)
                      (* overwrote the ends of its lines                   *)
clientvars == <<script, patient, asked>>
readvars == <<m_read_buf, m_checked_idx, m_start_line, m_check_state, got>>
hcvars == <<hwvars, clientvars, readvars, socket, m_TRIGMode, parsing>>

m_read_idx == Len(m_read_buf)
at(p) == m_read_buf[p + 1]

----------------------------------------------------------------------------
(* Mutant: the parser goes on where it stopped in the last request. *)
resetRead_keeps_index ==
  /\ m_read_buf' = <<>> /\ m_start_line' = 0
  /\ m_check_state' = "REQUESTLINE" /\ got' = <<>>
  /\ UNCHANGED m_checked_idx

(* The read side of the private init(): what is in the buffer is dropped.  *)
resetRead ==
  /\ m_read_buf' = <<>> /\ m_checked_idx' = 0 /\ m_start_line' = 0
  /\ m_check_state' = "REQUESTLINE" /\ got' = <<>>

HCInit ==
  /\ HWInit
  /\ script \in Clients /\ patient \in BOOLEAN /\ asked = <<>> /\ socket = <<>>
  /\ m_TRIGMode \in {0, 1}
  /\ m_read_buf = <<>> /\ m_checked_idx = 0 /\ m_start_line = 0
  /\ m_check_state = "REQUESTLINE" /\ got = <<>> /\ parsing = FALSE

(* The client sends a word; a patient one starts no request before it has  *)
(* the answer to the last.                                                 *)
Send ==
  /\ phase # "closed" /\ script # <<>> /\ (patient => asked = <<>>)
  /\ LET request == Head(script)
         whole == Len(request) = 1
     IN  /\ socket' = Append(socket, Head(request))
         /\ script' = IF whole THEN Tail(script) ELSE <<Tail(request)>> \o Tail(script)
         /\ asked' = IF whole THEN got \o socket' ELSE asked
  /\ UNCHANGED <<hwvars, readvars, patient, m_TRIGMode, parsing>>

(* read_once: recv() until the socket is empty (ET) or once (LT), but into *)
(* a full buffer not at all; then a worker parses.                         *)
Room == READ_BUFFER_SIZE - m_read_idx
(* Mutant: recv() is offered more than there is room for. *)
Taken_all == Len(socket)
Taken == IF Len(socket) < Room THEN Len(socket) ELSE Room
read_once ==
  /\ phase = "reading" /\ ~parsing /\ socket # <<>>
  /\ Taken > 0 /\ (m_TRIGMode = 1 => Taken < Room)
  /\ m_read_buf' = m_read_buf \o SubSeq(socket, 1, Taken)
  /\ got' = got \o SubSeq(socket, 1, Taken)
  /\ socket' = SubSeq(socket, Taken + 1, Len(socket))
  /\ parsing' = TRUE
  /\ UNCHANGED <<hwvars, clientvars, m_TRIGMode, m_checked_idx, m_start_line, m_check_state>>

(* A full buffer leaves recv() no room: it returns 0, as at the end of the *)
(* stream, and the connection is closed.                                   *)
ReadFull ==
  /\ ~parsing /\ socket # <<>>
  /\ IF m_TRIGMode = 1 THEN Taken = Room ELSE Taken = 0
  /\ phase = "reading" /\ Close
  /\ UNCHANGED <<clientvars, readvars, socket, m_TRIGMode, parsing>>

(* parse_line: how the text from m_checked_idx on goes on. *)
Stops == {p \in m_checked_idx .. m_read_idx - 1 : at(p) \in {"cr", "lf"}}
stop == Min(Stops)
LineEnds ==
  /\ Stops # {}
  /\ \/ at(stop) = "cr" /\ stop + 1 < m_read_idx /\ at(stop + 1) = "lf"
     \/ at(stop) = "lf" /\ stop > 1 /\ at(stop - 1) = "cr"
LineEnd == IF at(stop) = "cr" THEN stop ELSE stop - 1

(* LINE_OPEN and LINE_BAD: NO_REQUEST, the socket is armed for reading. *)
NoLine ==
  /\ parsing /\ ~LineEnds /\ parsing' = FALSE
  /\ m_checked_idx' = IF Stops = {} THEN m_read_idx ELSE stop
  /\ UNCHANGED <<hwvars, clientvars, socket, m_TRIGMode, m_read_buf, m_start_line,
                 m_check_state, got>>

(* Mutant: a line begins where the parser stopped last. *)
get_line_late == SubSeq(m_read_buf, m_checked_idx + 1, LineEnd)
get_line == SubSeq(m_read_buf, m_start_line + 1, LineEnd)

(* LINE_OK: the end of the line becomes two NULs, the next begins. *)
TakeLine ==
  /\ parsing /\ LineEnds
  /\ m_read_buf' = [m_read_buf EXCEPT ![LineEnd + 1] = "nul", ![LineEnd + 2] = "nul"]
  /\ m_checked_idx' = LineEnd + 2 /\ m_start_line' = LineEnd + 2
  /\ UNCHANGED <<clientvars, socket, m_TRIGMode, got>>

RequestLine ==
  /\ TakeLine
  /\ m_check_state = "REQUESTLINE" /\ m_check_state' = "HEADER"
  /\ get_line = <<"GET">>
  /\ UNCHANGED <<hwvars, parsing>>

(* A header line.  strncasecmp(text, "Content-Length", 15) compares the    *)
(* NUL too and matches no header with a colon: m_content_length stays 0.   *)
Header ==
  /\ TakeLine
  /\ m_check_state = "HEADER" /\ get_line # <<>>
  /\ IF get_line = <<"keep">> THEN KeepAlive ELSE UNCHANGED hwvars
  /\ UNCHANGED <<m_check_state, parsing>>

(* BAD_REQUEST is answered by a page of its own. *)
BadRequest ==
  /\ TakeLine
  /\ m_check_state = "REQUESTLINE" /\ get_line # <<"GET">>
  /\ parsing' = FALSE /\ UNCHANGED m_check_state
  /\ \E h \in 1 .. MaxHeader : Prepare(h, 0)

(* The empty line ends the request: do_request and process_write.  The     *)
(* answer is a file, a page that denies it, or, for a file that is missing *)
(* or empty, none: the connection is closed. *)
do_request ==
  /\ TakeLine
  /\ m_check_state = "HEADER" /\ get_line = <<>>
  /\ parsing' = FALSE /\ UNCHANGED m_check_state
  /\ \/ \E h \in 1 .. MaxHeader, f \in 0 .. MaxFile : Prepare(h, f)
     \/ Close

process == NoLine \/ RequestLine \/ Header \/ BadRequest \/ do_request

(* write(), on the main thread. *)
Answer ==
  /\ write
  /\ IF phase' = "reading" THEN resetRead ELSE UNCHANGED readvars
  /\ asked' = IF phase = "writing" /\ phase' = "reading" THEN <<>> ELSE asked
  /\ UNCHANGED <<script, patient, socket, m_TRIGMode, parsing>>

(* The peer goes or the timer expires.  (In the middle of process(): see   *)
(* WebServer.) *)
Drop ==
  /\ ~parsing /\ Close
  /\ UNCHANGED <<clientvars, readvars, socket, m_TRIGMode, parsing>>

Accept ==
  /\ Reuse /\ resetRead
  /\ script' \in Clients /\ patient' \in BOOLEAN /\ asked' = <<>> /\ socket' = <<>>
  /\ UNCHANGED <<m_TRIGMode, parsing>>

Serve == read_once \/ ReadFull \/ process \/ Answer
HCNext == Send \/ Serve \/ Drop \/ Accept

(* Main handles the events of the socket and the workers run.  At most one *)
(* of the four is enabled at a time, so that fairness of their disjunction *)
(* is fairness of each.                                                    *)
HCSpec == HCInit /\ [][HCNext]_hcvars /\ WF_hcvars(Serve)

----------------------------------------------------------------------------
(* The indices stay in order and in the buffer. *)
HCTypeOK ==
  /\ m_read_buf \in Seq(Words \cup {"nul"}) /\ got \in Text
  /\ m_start_line \in 0 .. m_checked_idx /\ m_checked_idx \in 0 .. m_read_idx
  /\ m_read_idx <= READ_BUFFER_SIZE /\ Len(got) = m_read_idx
  /\ m_check_state \in {"REQUESTLINE", "HEADER"} /\ m_TRIGMode \in {0, 1}
  /\ parsing \in BOOLEAN /\ (parsing => phase = "reading")
  /\ script \in Requests /\ patient \in BOOLEAN /\ asked \in Text /\ socket \in Text

(* What a text says, looked at as a whole: the ends of its lines (none     *)
(* behind a bare "cr" or "lf"), its lines, and the verdict on them.        *)
Ends(s) ==
  LET pair(i) == i > 1 /\ s[i - 1] = "cr" /\ s[i] = "lf"
      bare(i) == \/ s[i] = "lf" /\ ~pair(i)
                 \/ s[i] = "cr" /\ i < Len(s) /\ s[i + 1] # "lf"
  IN  {e \in DOMAIN s : pair(e) /\ \A i \in 1 .. e : ~bare(i)}
LineTo(s, e) == SubSeq(s, Max({0} \cup {d \in Ends(s) : d < e}) + 1, e - 2)
Headers(s) == Ends(s) \ {Min(Ends(s))}
Blank(s) == {e \in Headers(s) : LineTo(s, e) = <<>>}
Answerable(s) ==
  /\ Ends(s) # {}
  /\ LineTo(s, Min(Ends(s))) = <<"GET">> => Blank(s) # {}
Keeps(s) ==
  /\ LineTo(s, Min(Ends(s))) = <<"GET">>
  /\ \E e \in Headers(s) : e < Min(Blank(s)) /\ LineTo(s, e) = <<"keep">>

(* Wherever the text was cut, the server answers when, and only when, the  *)
(* text as a whole calls for it, and keeps the connection when it says so. *)
ParsesAsWhole ==
  /\ phase = "reading" /\ ~parsing => ~Answerable(got)
  /\ phase \in {"armed", "writing"} /\ got # <<>> => Answerable(got) /\ m_linger = Keeps(got)

(* A client that waits for each answer gets one for every request that has *)
(* no body, also for the second on a kept connection; or it is turned away. *)
PatientServed ==
  patient /\ asked # <<>> /\ Answerable(asked)
    ~> asked = <<>> \/ phase \in {"armed", "closed"}

(* http_conn.cpp:496: a request whose header announces a body is answered  *)
(* when the body is there.                                                 *)
BodyAwaited ==
  phase = "armed" =>
    \A i \in DOMAIN got : got[i] = "length" => \E j \in i .. Len(got) : got[j] = "body"
=============================================================================
