------------------------------- MODULE HttpRange -------------------------------
(***************************************************************************)
(* The regular-file branch of FileServer::setResponseBody, and what        *)
(* onRequest and TcpConnection::sendFile then do with the response.  The   *)
(* Range header is split at '-', turned into a start and a length, the     *)
(* length goes through setSendLen's cast to int, the fd is positioned with *)
(* lseek, and the bytes sendFile transfers run from the fd's offset until  *)
(* the length is used up or the file ends.  The response is compared with  *)
(* the byte ranges of RFC 7233.                                            *)
(*                                                                         *)
(* Each state is one request served: the file's length, the Range header   *)
(* and the response.  A header is "bytes=" followed by two sides, each a   *)
(* number or empty (NoNum); dash = FALSE is a value without a '-'.         *)
(* off64_t is an unbounded integer.  int is IntBits wide and size_t        *)
(* SizeBits wide, both scaled down with the file lengths.                  *)
(***************************************************************************)
EXTENDS Integers, FiniteSets

CONSTANTS
  MaxLen,       \* the largest file length (st_size)
  Headers(_),   \* Headers(len): the Range headers a client may send
  IntBits,      \* width of int
  SizeBits,     \* width of size_t
  CanFailOpen,  \* whether ::open may fail
  NoNum,        \* an empty side of the range value
  NoRange       \* no Range header

ASSUME /\ MaxLen \in Nat /\ IntBits \in Nat \ {0} /\ SizeBits > IntBits
       /\ CanFailOpen \in BOOLEAN

VARIABLES
  flen,   \* st_size of the requested file
  hdr,    \* the Range header of the request
  resp    \* the response: status, fd opened, fd offset, length handed to
          \* sendFile, Content-Length, Content-Range

vars == <<flen, hdr, resp>>

Least(a, b) == IF a < b THEN a ELSE b

(* static_cast<int>: the value modulo 2^IntBits, read as signed.            *)
ToInt(x) ==
  LET m == x % (2^IntBits) IN IF m >= 2^(IntBits - 1) THEN m - 2^IntBits ELSE m

(* Mutant of ToSize: the conversion keeps a negative length negative.      *)
ToSizeUnwrapped(x) == x

(* static_cast<size_t> of the off64_t getSendLen().                         *)
ToSize(x) == x % (2^SizeBits)

(* range_value.find("-") and the two substr calls.  Without a '-' find     *)
(* returns npos, npos + 1 wraps to 0, and both sides are the whole value.  *)
Sides(h) ==
  IF h.dash THEN [beg |-> h.beg, end |-> h.end] ELSE [beg |-> h.beg, end |-> h.beg]

(* Mutant of RangeBounds: an open range "a-" ends at len, one past the end. *)
RangeBoundsOpenEndAtLen(len, h) ==
  LET s == Sides(h)
      b == CASE s.beg # NoNum                 -> s.beg
             [] s.beg = NoNum /\ s.end # NoNum -> len - s.end
             [] OTHER                          -> 0
      e == CASE s.beg # NoNum /\ s.end # NoNum -> s.end
             [] s.beg # NoNum                  -> len
             [] s.end # NoNum                  -> len - 1
             [] OTHER                          -> 0
  IN [beg |-> b, need |-> e - b + 1]

(* beg_num, end_num and need_len from the two sides; both empty leaves     *)
(* both numbers 0.                                                         *)
RangeBounds(len, h) ==
  LET s == Sides(h)
      b == CASE s.beg # NoNum                 -> s.beg
             [] s.beg = NoNum /\ s.end # NoNum -> len - s.end
             [] OTHER                          -> 0
      e == CASE s.beg # NoNum /\ s.end # NoNum -> s.end
             [] s.beg # NoNum                  -> len - 1
             [] s.end # NoNum                  -> len - 1
             [] OTHER                          -> 0
  IN [beg |-> b, need |-> e - b + 1]

(* The regular-file branch: open and setFd, then either the 206 response   *)
(* (lseek to beg_num, which fails on a negative offset and leaves it 0,    *)
(* setSendLen(int(need_len)), Content-Length need_len) or the 200 response  *)
(* (setSendLen(len), Content-Length len); onRequest passes                 *)
(* size_t(getSendLen()) to sendFile when the fd is not -1.                 *)
ServeRegularFile(len, h, opened) ==
  IF h = NoRange
  THEN [status |-> 200, opened |-> opened, off |-> 0, sendLen |-> ToSize(len),
        clen |-> len, cr |-> NoRange]
  ELSE LET r == RangeBounds(len, h)
       IN [status |-> 206, opened |-> opened,
           off |-> IF opened /\ r.beg >= 0 THEN r.beg ELSE 0,
           sendLen |-> ToSize(ToInt(r.need)),
           clen |-> r.need,
           cr |-> [first |-> r.beg, last |-> r.beg + r.need - 1]]

(* The file positions sendFile puts on the wire: from the fd's offset      *)
(* until the length is used up or the file ends; nothing without an fd.    *)
Sent(len, r) ==
  IF ~r.opened \/ r.off >= len THEN {}
  ELSE r.off .. (r.off + Least(r.sendLen, len - r.off) - 1)

OpenResults == IF CanFailOpen THEN BOOLEAN ELSE {TRUE}

(* A request for a regular file: stat gives its length l, the request      *)
(* carries the Range header h, and ::open succeeds or returns -1.          *)
Init ==
  \E l \in 0..MaxLen, o \in OpenResults :
    \E h \in Headers(l) :
      /\ flen = l
      /\ hdr = h
      /\ resp = ServeRegularFile(l, h, o)

ServeFile ==
  \E l \in 0..MaxLen, o \in OpenResults :
    \E h \in Headers(l) :
      /\ flen' = l
      /\ hdr' = h
      /\ resp' = ServeRegularFile(l, h, o)

Next == ServeFile

Spec == Init /\ [][Next]_vars
-----------------------------------------------------------------------------
(* RFC 7233 section 2.1: a range is "first-last", "first-" or "-suffix";   *)
(* a header that is not one of these, or whose last is below its first, is  *)
(* ignored and the whole file is sent with 200.  A range is satisfiable    *)
(* when it starts inside the file; "last" past the end means the end, and  *)
(* a suffix longer than the file means the whole file.  Otherwise 416.     *)
RefValid(h) ==
  /\ h # NoRange /\ h.dash
  /\ h.beg # NoNum \/ h.end # NoNum
  /\ h.beg # NoNum /\ h.end # NoNum => h.beg <= h.end

RefFirst(len, h) ==
  IF h.beg # NoNum THEN h.beg ELSE IF h.end < len THEN len - h.end ELSE 0

RefLast(len, h) ==
  IF h.beg # NoNum /\ h.end # NoNum /\ h.end < len THEN h.end ELSE len - 1

RefStatus(len, h) ==
  CASE ~RefValid(h)                          -> 200
    [] RefFirst(len, h) <= RefLast(len, h)   -> 206
    [] OTHER                                 -> 416

RefBytes(len, h) ==
  CASE RefStatus(len, h) = 200 -> 0 .. (len - 1)
    [] RefStatus(len, h) = 206 -> RefFirst(len, h) .. RefLast(len, h)
    [] OTHER                   -> {}

(* A header the RFC serves as given, naming no byte past the end.          *)
InFile(len, h) ==
  \/ h = NoRange
  \/ /\ RefValid(h) /\ RefStatus(len, h) = 206
     /\ h.beg # NoNum /\ h.end # NoNum => h.end < len
     /\ h.beg = NoNum => h.end <= len

TypeOK ==
  /\ flen \in 0..MaxLen
  /\ hdr \in Headers(flen)
  /\ resp.status \in {200, 206}
  /\ resp.opened \in BOOLEAN
  /\ resp.off \in Nat
  /\ resp.sendLen \in 0 .. (2^SizeBits - 1)
  /\ resp.clen \in Int

(* For a request without Range, or with a range inside the file, the code  *)
(* of setResponseBody, onRequest and sendFile answers as RFC 7233 does:    *)
(* the same status, exactly the reference bytes on the wire, their number  *)
(* as Content-Length, and a Content-Range naming them.                     *)
InFileRangeServed ==
  InFile(flen, hdr) /\ resp.opened =>
    /\ resp.status = RefStatus(flen, hdr)
    /\ Sent(flen, resp) = RefBytes(flen, hdr)
    /\ resp.clen = Cardinality(RefBytes(flen, hdr))
    /\ resp.status = 206 =>
         resp.cr = [first |-> RefFirst(flen, hdr), last |-> RefLast(flen, hdr)]

(* The number of body bytes sendFile puts on the wire is the Content-Length *)
(* the header announced; otherwise the client waits for bytes that never   *)
(* come or, on a kept-alive connection, reads the next response as body.   *)
ContentLengthHonoured == Cardinality(Sent(flen, resp)) = resp.clen
=============================================================================
