--------------------------- MODULE HttpConnection ---------------------------
(***************************************************************************)
(* One HTTP connection of the file server: the bytes a client sends reach  *)
(* TcpConnection::handleRead in reads of arbitrary size, each read runs    *)
(* FileServer::onMessage, which feeds the connection's HttpContext         *)
(* (parseRequest, src/src/http/HttpContext.cc) and, for a complete request,*)
(* runs FileServer::onRequest (send the header buffer, sendFile the file,  *)
(* shutdown on "Connection: close").  The TcpConnection itself has only    *)
(* its header in the repository; its send / sendFile / shutdown /          *)
(* handleWrite follow the specification (spec.md 4.3) and the single       *)
(* pending-file slot (sendFd_, sendLen_) the header declares.              *)
(*                                                                         *)
(* A request line is its words (separated by single spaces, so an empty   *)
(* word is a doubled space); the header line is the value of Connection    *)
(* ("" when absent).  A request is three lines (request line, the header   *)
(* line, the empty line), then for a POST its body, plus the length of    *)
(* the file its path names.  The bytes the client sends are a stream of   *)
(* units: a line ends with its CRLF, which findCRLF sees only once it has *)
(* arrived, and the form body of a POST is one unit without a CRLF.  A    *)
(* response is HdrLen tokens of its header                                 *)
(* buffer followed by one token per unit of file sent with sendFile.       *)
(* Everything runs on the connection's loop thread, so each handler is    *)
(* one step.                                                               *)
(***************************************************************************)
EXTENDS Integers, Sequences, SequencesExt

CONSTANTS
  Reqs,      \* the requests the client sends, in order:
             \* [line, conn, body, file, pipe]
  MaxChunk,  \* most lines one read() delivers
  MaxWrite,  \* most tokens the socket accepts in one write
  HdrLen,    \* tokens in the response buffer of one response
  Split,     \* reads may end inside a request (and inside a line)
  None

ASSUME /\ Reqs \in Seq([line : Seq(STRING), conn : STRING, body : {"none", "form", "multi"},
                         file : Nat, pipe : BOOLEAN])
       /\ MaxChunk \in Nat \ {0} /\ MaxWrite \in Nat \ {0} /\ HdrLen \in Nat \ {0}
       /\ Split \in BOOLEAN

VARIABLES
  sentReq,   \* requests the client has written to its socket
  got,       \* whole units that have reached inputBuffer_
  frag,      \* inputBuffer_ ends with part of the next unit
  rd,        \* units parseRequest has retrieved from inputBuffer_
  pst,       \* HttpContext::state_, or "Crashed" after undefined behaviour
  cur,       \* the request whose request line the context holds
  cst,       \* TcpConnection::state_
  out,       \* outputBuffer_
  pf,        \* the pending sendFile (sendFd_, sendLen_), or None
  wire,      \* the tokens the client has received
  hungUp     \* the client has closed its side

vars == <<sentReq, got, frag, rd, pst, cur, cst, out, pf, wire, hungUp>>

(* The units of request i.  A form body (application/x-www-form-         *)
(* urlencoded, as the sign-in and sign-up pages post) is "bb".  A          *)
(* multipart/form-data body (the upload page) is the boundary line "bl"    *)
(* (it starts with '-'), a part header "ph" (it has a ':'), the empty line *)
(* "pe", the file content line "bc" and the closing boundary line "bl".   *)
UnitsOf(i) ==
  LET u(k) == [k |-> k, r |-> i] IN
  <<u("rl"), u("hl"), u("el")>> \o
    CASE Reqs[i].body = "form"  -> <<u("bb")>>
      [] Reqs[i].body = "multi" -> <<u("bl"), u("ph"), u("pe"), u("bc"), u("bl")>>
      [] OTHER                  -> <<>>

(* Everything the client sends, in order, and where request n ends in it. *)
Stream == FlattenSeq([i \in DOMAIN Reqs |-> UnitsOf(i)])

EndOf == [n \in 0..Len(Reqs) |-> Len(FlattenSeq([i \in 1..n |-> UnitsOf(i)]))]

(* The units that end with a CRLF, and those with a ':' before it.         *)
Terminated == {"rl", "hl", "el", "bl", "ph", "pe", "bc"}
HasColon(p, e) == \E u \in p + 1 .. e : Stream[u].k \in {"hl", "ph"}

(* findCRLF() with p units retrieved and avail whole units in the buffer: *)
(* where the first line ends, or 0 (a null pointer) when none has ended.  *)
FindCRLF(p, avail) ==
  LET ends == {e \in p + 1 .. avail : Stream[e].k \in Terminated}
  IN IF ends = {} THEN 0 ELSE Min(ends)

Hdr(i)  == [k |-> "hdr", r |-> i]
File(i) == [k |-> "file", r |-> i]
Bad     == [k |-> "bad", r |-> 0]

(* HttpRequest::setMethod: the methods that do not make it kInvalid.      *)
Methods == {"GET", "POST", "HEAD", "PUT", "DELETE"}

(* The strings processRequestLine's version test accepts (8 characters,   *)
(* "HTTP/1." then '1' or '0') and the version each one sets.               *)
Versions == [v \in {"HTTP/1.1", "HTTP/1.0"} |->
               IF v = "HTTP/1.1" THEN "kHttp11" ELSE "kHttp10"]

(* processRequestLine: the method ends at the first space and must pass   *)
(* setMethod, the path ends at the second space, and everything after it  *)
(* is the version, so a line of more than three words fails the test.     *)
ProcessRequestLine(ws) ==
  /\ Len(ws) >= 2 /\ ws[1] \in Methods         \* a first space; setMethod
  /\ Len(ws) = 3 /\ ws[3] \in DOMAIN Versions  \* a second space; the version

Valid(i) == ProcessRequestLine(Reqs[i].line)

(* Mutant of CloseConnection: only "Connection: close" closes; the       *)
(* HTTP/1.0 default is forgotten.                                         *)
CloseConnectionExplicitOnly(i) == Reqs[i].conn = "close"

(* onRequest: close on "Connection: close", and on HTTP/1.0 unless the    *)
(* header is exactly "Keep-Alive" (getHeader and == are case-sensitive).  *)
CloseConnection(i) ==
  \/ Reqs[i].conn = "close"
  \/ Versions[Reqs[i].line[3]] = "kHttp10" /\ Reqs[i].conn # "Keep-Alive"

(* What FileServer sends for request i: the 400 for a rejected request    *)
(* line, otherwise the response buffer and the file.                      *)
Response(i) ==
  IF Valid(i) THEN [j \in 1..HdrLen |-> Hdr(i)] \o [j \in 1..Reqs[i].file |-> File(i)]
  ELSE <<Bad>>

(* RFC 7230 section 6.3, with connection options compared without regard  *)
(* to case: a request asks to close when its Connection header has the     *)
(* "close" option, or when it is HTTP/1.0 without the "keep-alive" one.    *)
ConnOption(v) ==
  CASE v \in {"close", "Close", "CLOSE"}                -> "close"
    [] v \in {"keep-alive", "Keep-Alive", "KEEP-ALIVE"} -> "keep-alive"
    [] OTHER                                           -> "none"

RfcClose(i) ==
  \/ ConnOption(Reqs[i].conn) = "close"
  \/ Reqs[i].line[3] = "HTTP/1.0" /\ ConnOption(Reqs[i].conn) # "keep-alive"

(* What the client is promised of each request: whether the server then   *)
(* closes; after a 400 it always does.                                     *)
Promised == [i \in DOMAIN Reqs |-> [close |-> ~Valid(i) \/ RfcClose(i)]]

Exchange == INSTANCE HttpExchange WITH
              Reqs <- Promised, asked <- sentReq, closed <- (cst = "Disconnected")

Least(a, b) == IF a < b THEN a ELSE b

-----------------------------------------------------------------------------
(* The do { } while (1) loop over the part headers of a multipart body:  *)
(* a line with a ':' goes to addHeader, the first line without one ends   *)
(* the loop.  A null crlf goes to retrieveUntil(crlf + 2) and std::find:  *)
(* undefined behaviour, recorded as Crashed.  Everything after that line  *)
(* is left in the buffer for addcontent, which does not retrieve it.      *)
RECURSIVE PartLoop(_, _)
PartLoop(s, avail) ==
  LET e == FindCRLF(s.pos, avail) IN
  CASE e = 0                -> [s EXCEPT !.st = "Crashed"]
    [] HasColon(s.pos, e)   -> PartLoop([s EXCEPT !.pos = e], avail)
    [] OTHER                -> [s EXCEPT !.pos = e, !.st = "GotAll"]

(* parseRequest's while (hasMore) loop over the whole units 1..avail,     *)
(* starting from the context's state; ok is set only by the request line. *)
(* A request line is valid only if it is one "rl" unit: anything left of *)
(* an earlier body makes it a longer line.  In kExpectBody, a POST reads  *)
(* *peek(): the first byte of the next unit when any byte of it is in the *)
(* buffer (fr: part of a unit), otherwise whatever the buffer's memory     *)
(* holds there (stale: it is a '-').  '-' takes the multipart branch,     *)
(* whose first findCRLF() must find the boundary line; otherwise          *)
(* addcontent.  Neither retrieves the body.                               *)
RECURSIVE ParseLoop(_, _, _, _)
ParseLoop(s, avail, fr, stale) ==
  LET e    == FindCRLF(s.pos, avail)
      dash == IF s.pos < avail \/ fr THEN Stream[s.pos + 1].k = "bl" ELSE stale
  IN
  CASE s.st = "ReqLine" /\ e # 0 ->
         IF e = s.pos + 1 /\ Stream[e].k = "rl" /\ Valid(Stream[e].r)
         THEN ParseLoop([s EXCEPT !.st = "Headers", !.pos = e, !.ok = TRUE,
                                  !.cur = Stream[e].r], avail, fr, stale)
         ELSE [s EXCEPT !.ok = FALSE]
    [] s.st = "Headers" /\ e # 0 ->
         ParseLoop([s EXCEPT !.pos = e,
                             !.st = IF HasColon(s.pos, e) THEN "Headers" ELSE "Body"],
                   avail, fr, stale)
    [] s.st = "Body" /\ Reqs[s.cur].line[1] = "POST" /\ dash ->
         IF e = 0 THEN [s EXCEPT !.st = "Crashed"]
         ELSE PartLoop([s EXCEPT !.pos = e], avail)
    [] s.st = "Body" -> [s EXCEPT !.st = "GotAll"]
    [] OTHER -> s

(* TcpConnection::send (spec.md 4.3): written directly (as far as the     *)
(* socket takes it) when nothing is queued, appended to outputBuffer_      *)
(* otherwise.  The spec puts no condition on the state: a Disconnecting    *)
(* connection queues the bytes and handleWrite drains them.  Only a        *)
(* Disconnected one, whose write half is closed and whose Channel is gone, *)
(* can put nothing more on the wire.                                       *)
Send(c, toks) ==
  IF c.st = "Disconnected" THEN c
  ELSE IF c.out = <<>> /\ c.pf = None
  THEN LET n == Least(c.cap, Len(toks))
       IN [c EXCEPT !.wire = @ \o SubSeq(toks, 1, n),
                    !.out = SubSeq(toks, n + 1, Len(toks)), !.cap = @ - n]
  ELSE [c EXCEPT !.out = @ \o toks]

(* TcpConnection::sendFile: transferred directly when nothing is queued,  *)
(* the rest recorded in the single pending slot; nothing once the         *)
(* connection is Disconnected, as for send.                                *)
SendFile(c, i, len) ==
  IF c.st = "Disconnected" THEN c
  ELSE IF c.out = <<>> /\ c.pf = None
  THEN LET n == Least(c.cap, len)
       IN [c EXCEPT !.wire = @ \o [j \in 1..n |-> File(i)],
                    !.pf = IF n < len THEN [r |-> i, left |-> len - n] ELSE None,
                    !.cap = @ - n]
  ELSE [c EXCEPT !.pf = [r |-> i, left |-> len]]

(* Mutant of Shutdown: the write half closes at once, pending output or   *)
(* not.                                                                    *)
ShutdownWithoutDrain(c) ==
  IF c.st # "Connected" THEN c ELSE [c EXCEPT !.st = "Disconnected"]

(* TcpConnection::shutdown: the write half closes now if nothing is       *)
(* pending, otherwise once handleWrite has drained everything.             *)
Shutdown(c) ==
  IF c.st # "Connected" THEN c
  ELSE [c EXCEPT !.st = IF c.out = <<>> /\ c.pf = None THEN "Disconnected"
                        ELSE "Disconnecting"]

(* FileServer::onRequest: send the response buffer, sendFile when the     *)
(* response has a file, shutdown when the connection is to be closed.      *)
OnRequest(c, i) ==
  LET c1 == Send(c, [j \in 1..HdrLen |-> Hdr(i)])
      c2 == IF Reqs[i].file > 0 THEN SendFile(c1, i, Reqs[i].file) ELSE c1
  IN IF CloseConnection(i) THEN Shutdown(c2) ELSE c2

-----------------------------------------------------------------------------
Init ==
  /\ sentReq = 0
  /\ got = 0 /\ frag = FALSE /\ rd = 0
  /\ pst = "ReqLine" /\ cur = 0
  /\ cst = "Connected"
  /\ out = <<>> /\ pf = None
  /\ wire = <<>>
  /\ hungUp = FALSE

(* The client writes its next request: at once when it pipelines,         *)
(* otherwise after the whole previous response; never after asking the    *)
(* server to close.                                                        *)
ClientSend ==
  /\ sentReq < Len(Reqs)
  /\ ~Exchange!CloseAsked /\ ~hungUp
  /\ Reqs[sentReq + 1].pipe \/ wire = Exchange!Expected(sentReq)
  /\ sentReq' = sentReq + 1
  /\ UNCHANGED <<got, frag, rd, pst, cur, cst, out, pf, wire, hungUp>>

(* The client closes its socket after the requests it sent.              *)
ClientHangup ==
  /\ ~hungUp
  /\ hungUp' = TRUE
  /\ UNCHANGED <<sentReq, got, frag, rd, pst, cur, cst, out, pf, wire>>

(* handleRead: k more whole lines (and perhaps part of the next) arrive,  *)
(* then onMessage: parseRequest; on false, send 400 and shutdown; if the  *)
(* context got a whole request, onRequest and reset.  The socket accepts  *)
(* cap tokens of direct writes during the handler.  When parseRequest     *)
(* hits undefined behaviour, the process is taken to end (muduo's Buffer  *)
(* asserts in retrieveUntil) and the connection with it.  stale           *)
(* is what the buffer's memory holds at peek() when nothing is readable;  *)
(* it only matters then.                                                   *)
Read ==
  /\ cst \in {"Connected", "Disconnecting"}
  /\ \E k \in 0..MaxChunk, fr \in BOOLEAN, cap \in 0..MaxWrite, stale \in BOOLEAN :
       LET g  == got + k
           r  == ParseLoop([st |-> pst, pos |-> rd, cur |-> cur, ok |-> FALSE], g, fr, stale)
           c0 == [st |-> cst, out |-> out, pf |-> pf, wire |-> wire, cap |-> cap]
           c1 == IF r.ok THEN c0 ELSE Shutdown(Send(c0, <<Bad>>))
           c2 == IF r.st = "GotAll" THEN OnRequest(c1, r.cur) ELSE c1
       IN /\ g <= EndOf[sentReq]
          /\ k > 0 \/ fr
          /\ fr => Split /\ g < EndOf[sentReq]
          /\ ~Split => g \in Range(EndOf)
          /\ stale => ~fr /\ g = r.pos
          /\ got' = g /\ frag' = fr
          /\ rd' = r.pos
          /\ pst' = IF r.st = "GotAll" THEN "ReqLine" ELSE r.st
          /\ cur' = r.cur
          /\ IF r.st = "Crashed"
             THEN cst' = "Disconnected" /\ out' = <<>> /\ pf' = None /\ wire' = wire
             ELSE cst' = c2.st /\ out' = c2.out /\ pf' = c2.pf /\ wire' = c2.wire
  /\ UNCHANGED <<sentReq, hungUp>>

(* handleRead reads 0 bytes once the client's data is all in: handleClose *)
(* moves the connection to Disconnected; unsent output is dropped.        *)
HandleClose ==
  /\ cst \in {"Connected", "Disconnecting"}
  /\ hungUp /\ got = EndOf[sentReq] /\ ~frag
  /\ cst' = "Disconnected"
  /\ out' = <<>> /\ pf' = None
  /\ UNCHANGED <<sentReq, got, frag, rd, pst, cur, wire, hungUp>>

(* Mutant of HandleWrite: a drained file stays in the pending slot.       *)
HandleWriteKeepsDrainedFile(n) ==
  LET k    == Least(n, Len(out))
      f    == IF k = Len(out) /\ pf # None THEN Least(n - k, pf.left) ELSE 0
      out2 == SubSeq(out, k + 1, Len(out))
      pf2  == IF pf = None THEN None ELSE [pf EXCEPT !.left = @ - f]
  IN /\ cst \in {"Connected", "Disconnecting"}
     /\ out # <<>> \/ pf # None
     /\ wire' = wire \o SubSeq(out, 1, k)
                     \o (IF f > 0 THEN [j \in 1..f |-> File(pf.r)] ELSE <<>>)
     /\ out' = out2
     /\ pf' = pf2
     /\ cst' = IF cst = "Disconnecting" /\ out2 = <<>> /\ pf2 = None
               THEN "Disconnected" ELSE cst
     /\ UNCHANGED <<sentReq, got, frag, rd, pst, cur, hungUp>>

(* handleWrite: the socket takes n tokens, outputBuffer_ first, then the  *)
(* pending file; once both are drained a Disconnecting connection closes. *)
HandleWrite(n) ==
  LET k    == Least(n, Len(out))
      f    == IF k = Len(out) /\ pf # None THEN Least(n - k, pf.left) ELSE 0
      out2 == SubSeq(out, k + 1, Len(out))
      pf2  == IF pf = None THEN None
              ELSE IF f = pf.left THEN None ELSE [pf EXCEPT !.left = @ - f]
  IN /\ cst \in {"Connected", "Disconnecting"}
     /\ out # <<>> \/ pf # None
     /\ wire' = wire \o SubSeq(out, 1, k)
                     \o (IF f > 0 THEN [j \in 1..f |-> File(pf.r)] ELSE <<>>)
     /\ out' = out2
     /\ pf' = pf2
     /\ cst' = IF cst = "Disconnecting" /\ out2 = <<>> /\ pf2 = None
               THEN "Disconnected" ELSE cst
     /\ UNCHANGED <<sentReq, got, frag, rd, pst, cur, hungUp>>

Next ==
  \/ ClientSend
  \/ ClientHangup
  \/ Read
  \/ HandleClose
  \/ \E n \in 1..MaxWrite : HandleWrite(n)

(* The loop polls the socket: readable data (or end of file) is read and  *)
(* a writable socket with pending output is written.  The client owes     *)
(* nothing.                                                                *)
Fairness ==
  /\ WF_vars(Read) /\ WF_vars(HandleClose)
  /\ WF_vars(\E n \in 1..MaxWrite : HandleWrite(n))

Spec == Init /\ [][Next]_vars /\ Fairness

-----------------------------------------------------------------------------
TypeOK ==
  /\ sentReq \in 0..Len(Reqs)
  /\ got \in 0..Len(Stream) /\ frag \in BOOLEAN
  /\ rd \in 0..got
  /\ pst \in {"ReqLine", "Headers", "Body", "Crashed"}
  /\ cur \in 0..Len(Reqs)
  /\ cst \in {"Connected", "Disconnecting", "Disconnected"}
  /\ pf \in {None} \cup [r : 1..Len(Reqs), left : Nat \ {0}]
  /\ hungUp \in BOOLEAN

(* Every valid request line is accepted: the server writes "400 Bad       *)
(* Request" only after a request line processRequestLine rejects, however *)
(* TCP splits the client's bytes into reads.                               *)
NoRejectedValidRequest ==
  Bad \in Range(wire) => \E i \in 1..sentReq : ~Valid(i)

(* Whatever a client sends, however TCP splits it, parseRequest stays     *)
(* within defined behaviour: it never hands the null pointer of a failed  *)
(* findCRLF to retrieveUntil or std::find in the multipart branch of      *)
(* kExpectBody (undefined behaviour; with muduo's Buffer, an abort).      *)
NoParserCrash == pst # "Crashed"

(* After a "400 Bad Request" the connection writes nothing more: onMessage *)
(* goes on to onRequest when the same read completed a request, and that  *)
(* response must not follow the 400 on the shut-down connection.           *)
NothingAfterBadRequest ==
  \A i \in DOMAIN wire : wire[i] = Bad => i = Len(wire)

(* What reaches the client is always a prefix of the responses to the     *)
(* requests sent, in request order, even when requests are pipelined.     *)
ResponsesInOrder == IsPrefix(wire, Exchange!Expected(sentReq))

(* Every request sent is eventually answered in full, unless the          *)
(* connection is closed first.                                             *)
RequestsAnswered ==
  \A i \in 1..Len(Reqs) :
    sentReq >= i ~> (Len(wire) >= Len(Exchange!Expected(i)) \/ cst = "Disconnected")

(* The connection implements HttpExchange: responses arrive whole and in  *)
(* request order, nothing else is written, the write half closes only    *)
(* after the response to a "Connection: close" request, and every request *)
(* is eventually answered.                                                 *)
ImplementsExchange == Exchange!Spec
=============================================================================
