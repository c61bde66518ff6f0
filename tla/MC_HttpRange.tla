----------------------------- MODULE MC_HttpRange -----------------------------
EXTENDS HttpRange

(* The numbers a client writes in a Range header, up to one past MaxLen.   *)
MC_Nums == 0 .. (MaxLen + 1)

(* Every "bytes=a-b", "bytes=a-", "bytes=-b", "bytes=-" and "bytes=a", and *)
(* no Range header at all.                                                 *)
MC_AllHeaders(len) ==
  {NoRange}
  \cup [beg : MC_Nums \cup {NoNum}, end : MC_Nums \cup {NoNum}, dash : {TRUE}]
  \cup {[beg |-> n, end |-> NoNum, dash |-> FALSE] : n \in MC_Nums}

(* Only the headers that RFC 7233 serves as given, inside the file.         *)
MC_InFileHeaders(len) == {h \in MC_AllHeaders(len) : InFile(len, h)}

(* Only the well-formed ranges "a-b" (a <= b), "a-" and "-b".              *)
MC_ValidHeaders(len) == {h \in MC_AllHeaders(len) : RefValid(h)}

(* Only requests without a Range header.                                   *)
MC_NoRangeHeaders(len) == {NoRange}
====
