------------------------- MODULE MC_HttpConnection -------------------------
EXTENDS HttpConnection

(* Requests: the words of the request line, the Connection header ("" when *)
(* absent) and the length of the file the path names (0: a page answered  *)
(* from the response buffer, such as a directory listing).  The client    *)
(* waits for the whole previous response before sending it, or pipelines   *)
(* it (P).                                                                 *)
Get(path, version, conn, len) ==
  [line |-> <<"GET", path, version>>, conn |-> conn, body |-> "none", file |-> len,
   pipe |-> FALSE]

(* A POST to a CGI page (a form body) or to the upload page (a multipart   *)
(* body); the response is a page from the response buffer.                *)
Post(path, conn, body) ==
  [line |-> <<"POST", path, "HTTP/1.1">>, conn |-> conn, body |-> body, file |-> 0,
   pipe |-> FALSE]

P(r) == [r EXCEPT !.pipe = TRUE]

(* A keep-alive request for a three-unit file, a page, an upload, then a  *)
(* request whose version processRequestLine rejects.                       *)
MC_Reqs ==
  << Get("/a.mp4", "HTTP/1.1", "keep-alive", 3),
     Get("/", "HTTP/1.1", "", 0),
     Post("/upload", "", "multi"),
     Get("/b.txt", "HTTP/1.2", "", 2) >>

(* Pipelined pages over HTTP/1.1 and over HTTP/1.0 with "Keep-Alive", a    *)
(* pipelined three-unit file, a page the client sends once the file is     *)
(* whole, a sign-in form, and a pipelined request whose version           *)
(* processRequestLine rejects.                                             *)
MC_Exchange ==
  << Get("/", "HTTP/1.1", "", 0),
     P(Get("/dir", "HTTP/1.0", "Keep-Alive", 0)),
     P(Get("/a.mp4", "HTTP/1.1", "keep-alive", 3)),
     Get("/", "HTTP/1.1", "keep-alive", 0),
     Post("/2CGISQL.cgi", "", "form"),
     P(Get("/b.txt", "HTTP/1.2", "", 2)) >>

(* A file upload, whose multipart preamble TCP may split.                 *)
MC_UploadReqs == << Post("/upload", "close", "multi") >>

(* A keep-alive sign-in form, then a page the client sends once the form  *)
(* is answered.                                                            *)
MC_FormReqs ==
  << Post("/2CGISQL.cgi", "", "form"),
     Get("/", "HTTP/1.1", "", 0) >>

(* Two pipelined keep-alive pages.                                         *)
MC_PageReqs ==
  << Get("/", "HTTP/1.1", "", 0),
     P(Get("/dir", "HTTP/1.1", "", 0)) >>

(* Two pipelined keep-alive requests for two-unit files.                  *)
MC_FileReqs ==
  << Get("/a.txt", "HTTP/1.1", "", 2),
     P(Get("/b.txt", "HTTP/1.1", "", 2)) >>
=============================================================================
